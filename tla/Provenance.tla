----------------------------- MODULE Provenance -----------------------------
(***************************************************************************)
(* Provenance Extractor: GetProvenanceFromVerifyResourceResult and         *)
(* getCommitID (src/unnamed/part_000).  The log.Debug calls are left out;  *)
(* Hash is left out of the records (it is copied, never compared).         *)
(*                                                                         *)
(*   Digest     a DigestSet, a record whose DOMAIN is the keys it has      *)
(*   Material   [uri, digest]                    (AttestationMaterial)     *)
(*   Statement  [artifactType, artifact, materials: Seq(Material)]         *)
(*   VerifyResult  [resource: [kind, namespace, name], provenances]        *)
(***************************************************************************)
EXTENDS Sequences, SequencesExt, GitURL

\* k8smnfutil.ArtifactManifestImage
ArtifactManifestImage == "manifestImage"

\* getCommitID: the "commit" entry of the digest set, "" when there is none.
getCommitID(digest) == IF "commit" \in DOMAIN digest THEN digest["commit"] ELSE ""

\* The ManifestProvenanceInfo built for one material of one statement.
ProvenanceInfo(pr, am) ==
    [ artifact  |-> pr.artifact,
      commitID  |-> getCommitID(am.digest),
      gitApiURL |-> convertToCommitDetailURL(am.uri, getCommitID(am.digest)),
      gitRepo   |-> am.uri ]

\* Mutant: the ArtifactType check (the "continue") dropped.
GetProvenanceFromVerifyResourceResult_NoTypeFilter(res) ==
    LET manifests == res.provenances
    IN  [ kind      |-> res.resource.kind,
          namespace |-> res.resource.namespace,
          name      |-> res.resource.name,
          infos     |-> FlattenSeq([ i \in 1..Len(manifests) |->
                            [ j \in 1..Len(manifests[i].materials) |->
                                ProvenanceInfo(manifests[i], manifests[i].materials[j]) ] ]) ]

(***************************************************************************)
(* GetProvenanceFromVerifyResourceResult: the resource's identity, and one *)
(* info per material of every statement whose artifact type is a manifest  *)
(* image, in input order.  The early return on no provenances and the      *)
(* len(materials) != 0 test give the same result as the loops and are      *)
(* folded into them.                                                       *)
(***************************************************************************)
GetProvenanceFromVerifyResourceResult(res) ==
    LET manifests == SelectSeq(res.provenances,
                               LAMBDA pr : pr.artifactType = ArtifactManifestImage)
    IN  [ kind      |-> res.resource.kind,
          namespace |-> res.resource.namespace,
          name      |-> res.resource.name,
          infos     |-> FlattenSeq([ i \in 1..Len(manifests) |->
                            [ j \in 1..Len(manifests[i].materials) |->
                                ProvenanceInfo(manifests[i], manifests[i].materials[j]) ] ]) ]

(***************************************************************************)
(* Reference for the extraction (spec.md 4.2), written independently of   *)
(* the loops: the k-th info comes from the k-th (statement, material) pair *)
(* of a manifest-image statement, pairs ordered by statement then material.*)
(***************************************************************************)
RECURSIVE ExtractRef(_)
ExtractRef(provs) ==
    IF provs = <<>> THEN <<>>
    ELSE LET pr == Head(provs)
             own == IF pr.artifactType = ArtifactManifestImage
                    THEN [ j \in 1..Len(pr.materials) |-> ProvenanceInfo(pr, pr.materials[j]) ]
                    ELSE <<>>
         IN  own \o ExtractRef(Tail(provs))
=============================================================================
