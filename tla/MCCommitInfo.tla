----------------------------- MODULE MCCommitInfo -----------------------------
(***************************************************************************)
(* Drives getCommitInfo over attestations of up to three materials and     *)
(* getParentsFromDetail over the replies GitHub can give, with GitHub up   *)
(* or unreachable.  Each is called once on the inputs chosen initially.    *)
(***************************************************************************)
EXTENDS CommitResolver, FiniteSets

App == <<"https://", "github.com", "/", "acme", "/", "app", ".git">>
AppApi == <<"https://", "api.github.com/repos", "/", "acme", "/", "app", "/commits">>

Parent1 == [url |-> "https://api.github.com/repos/acme/app/commits/c0", sha |-> "c0"]

\* c2 is a root commit by an unlinked identity.
Detail == ("c1" :> [kind |-> "commit", email |-> "dev@acme.io", date |-> "2021-08-01",
                     files |-> <<[filename |-> "deploy.yaml"]>>, parents |-> <<Parent1>>])
       @@ ("c2" :> [kind |-> "commit", email |-> JNull, date |-> "2021-08-02",
                     files |-> << >>, parents |-> << >>])

Servers == { [up |-> TRUE, commits |-> [c \in {AppApi \o <<"/", d>> : d \in DOMAIN Detail} |->
                                            Detail[Last(c)]]],
             [up |-> FALSE, commits |-> << >>] }

Mat(c) == [uri |-> App, digest |-> [commit |-> c]]

\* Resolvable, unknown to GitHub, without a commit digest, not an object,
\* without a uri.
Materials == { Mat("c1"), Mat("c2"), Mat("c9"),
               [uri |-> App, digest |-> [sha256 |-> "e3b0"]],
               JNull,
               [uri |-> JNull, digest |-> [commit |-> "c1"]] }

Statement(ms) == [kind |-> "statement", predicate |-> [kind |-> "object", materials |-> ms]]

Attestations == { [kind |-> "invalid"],
                  [kind |-> "statement", predicate |-> [kind |-> "scalar"]],
                  Statement(JAbsent), Statement(JNull) }
                \cup { Statement(ms) : ms \in BoundedSeq(Materials, 3) }

Bodies == { Detail["c1"], Detail["c2"],
            [kind |-> "commit", email |-> JNull, date |-> "2021-08-03", files |-> << >>],
            [kind |-> "commit", email |-> JNull, date |-> "2021-08-03", files |-> << >>,
             parents |-> <<[url |-> Parent1.url]>>],
            [kind |-> "message"], [kind |-> "array"] }

NoOutcome == [panic |-> FALSE, value |-> << >>]

VARIABLES att, server, body, resolved, info, parsed, parents

vars == <<att, server, body, resolved, info, parsed, parents>>

Init == /\ att \in Attestations
        /\ server \in Servers
        /\ body \in Bodies
        /\ resolved = FALSE /\ info = NoOutcome
        /\ parsed = FALSE /\ parents = NoOutcome

Resolve == /\ ~resolved
           /\ resolved' = TRUE
           /\ info' = getCommitInfo(att, server)
           /\ UNCHANGED <<att, server, body, parsed, parents>>

Parents == /\ ~parsed
           /\ parsed' = TRUE
           /\ parents' = getParentsFromDetail(body)
           /\ UNCHANGED <<att, server, body, resolved, info>>

Next == Resolve \/ Parents

Spec == Init /\ [][Next]_vars

\* The materials of an attestation as spec.md 4.2 reads them.
MaterialsIn(a) == IF a.kind = "statement" /\ a.predicate.kind = "object"
                     /\ a.predicate.materials \notin {JAbsent, JNull}
                  THEN a.predicate.materials ELSE << >>

\* spec.md 4.3: the CommitDetail of a commit.
Truth(c) == [commit |-> c,
             author |-> IF Detail[c].email = JNull THEN "" ELSE Detail[c].email,
             date   |-> Detail[c].date,
             files  |-> [k \in DOMAIN Detail[c].files |-> Detail[c].files[k].filename]]

(***************************************************************************)
(* When getCommitInfo returns, it returns one CommitData per material of   *)
(* the attestation, in order, each the metadata GitHub holds for that      *)
(* material's commit.                                                      *)
(***************************************************************************)
CommitInfoPerMaterial ==
    (resolved /\ ~info.panic)
        => /\ Len(info.value) = Len(MaterialsIn(att))
           /\ \A k \in DOMAIN info.value :
                 info.value[k] = Truth(MaterialsIn(att)[k].digest["commit"])

\* The attestation's only defect is a material without a commit digest.
MissingCommitOnly(a) ==
    /\ server.up
    /\ a.kind = "statement" /\ a.predicate.kind = "object"
    /\ a.predicate.materials \notin {JAbsent, JNull}
    /\ \E k \in DOMAIN a.predicate.materials :
          LET m == a.predicate.materials[k]
          IN  m # JNull /\ m.uri # JNull /\ m.digest # JNull /\ "commit" \notin DOMAIN m.digest
    /\ \A k \in DOMAIN a.predicate.materials :
          LET m == a.predicate.materials[k]
          IN  m # JNull /\ m.uri # JNull /\ m.digest # JNull
              /\ ("commit" \in DOMAIN m.digest => m.digest["commit"] \in DOMAIN Detail)

(***************************************************************************)
(* spec.md 7 (ExtractionSkip): a material without a commit digest is       *)
(* structurally irrelevant and silently excluded.  getCommitInfo asserts   *)
(* digest["commit"].(string) and panics instead.                           *)
(***************************************************************************)
MissingCommitSkipped == (resolved /\ MissingCommitOnly(att)) => ~info.panic

(***************************************************************************)
(* spec.md 9 and 7: an attestation that does not parse is reported as a    *)
(* typed parse error for that entry.  getCommitInfo prints the Unmarshal   *)
(* error and goes on with a nil statement, whose Predicate panics.         *)
(***************************************************************************)
AttestationParseErrorReported == (resolved /\ att.kind = "invalid") => ~info.panic

(***************************************************************************)
(* spec.md 4.3: resolving parents is best-effort enrichment, so a reply    *)
(* without a parents array (a rate-limit or error message, a JSON array)   *)
(* gives no parents rather than a failure.  getParentsFromDetail asserts   *)
(* data["parents"].([]interface{}) and panics.                             *)
(***************************************************************************)
ParentsBestEffort == parsed => ~parents.panic
=============================================================================
