-------------------------- MODULE MCManifestLocator --------------------------
(***************************************************************************)
(* Every bundle of up to four documents drawn from: web as deployed, web   *)
(* with drifted content, api with web's content, a ConfigMap named web,   *)
(* and a document that does not parse; plus a failed pull.  The object is *)
(* the live Deployment web, its content as deployed or changed since.      *)
(***************************************************************************)
EXTENDS ManifestLocator, Naturals

Mnf(kind, name, content) ==
    [apiVersion |-> IF kind = "Deployment" THEN "apps/v1" ELSE "v1",
     kind |-> kind, name |-> name, namespace |-> "default", content |-> content]

BaseDocs == { Mnf("Deployment", "web", "v1"), Mnf("Deployment", "web", "v2"),
          Mnf("Deployment", "api", "v1"), Mnf("ConfigMap", "web", "v1"),
          Unparsable }

\* The documents with an empty one among them (a bundle starting with
\* "---", or a document holding only comments).
DocsWithNull == BaseDocs \cup {NullDoc}

\* The documents a bundle is drawn from.
Docs == BaseDocs

Bundles == {PullFailed} \cup BoundedSeq(Docs, 4)

Objects == { Mnf("Deployment", "web", "v1"), Mnf("Deployment", "web", "v3") }

VARIABLES bundle, obj, located, outcome

vars == <<bundle, obj, located, outcome>>

Init == /\ bundle \in Bundles
        /\ obj \in Objects
        /\ located = FALSE
        /\ outcome = NotFoundOutcome

Locate == /\ ~located
          /\ located' = TRUE
          /\ outcome' \in getManifestYaml(bundle, obj)
          /\ UNCHANGED <<bundle, obj>>

Spec == Init /\ [][Locate]_vars

DocsOf(b) == IF b = PullFailed THEN << >> ELSE b

IsManifest(d) == d \notin {Unparsable, NullDoc}

IdentityMatchIn(b) ==
    \E i \in DOMAIN DocsOf(b) : IsManifest(DocsOf(b)[i]) /\ Identity(DocsOf(b)[i]) = Identity(obj)

ContentMatchIn(b) ==
    \E i \in DOMAIN DocsOf(b) : /\ IsManifest(DocsOf(b)[i])
                              /\ DocsOf(b)[i].kind = obj.kind
                              /\ DocsOf(b)[i].content = obj.content

TypeOK == /\ bundle \in Bundles
          /\ obj \in Objects
          /\ located \in BOOLEAN
          /\ outcome \in {NotFoundOutcome, PanicOutcome}
                         \cup { Found(d) : d \in { e \in Docs : IsManifest(e) } }

(***************************************************************************)
(* spec.md 4.1 and 8: when the bundle holds a manifest with the object's   *)
(* apiVersion, kind, name and namespace, getManifestYaml returns one such  *)
(* manifest, even if another manifest matches the object's content.        *)
(***************************************************************************)
IdentityPrecedence ==
    (located /\ IdentityMatchIn(bundle))
        => outcome.found /\ Identity(outcome.manifest) = Identity(obj)

(***************************************************************************)
(* getManifestYaml reports NotFound only when no manifest of the pulled    *)
(* bundle matches the object by identity or by content: an unparsable     *)
(* document or a manifest of another kind never hides a later match.       *)
(***************************************************************************)
NoFalseNotFound ==
    (located /\ ~outcome.found)
        => ~IdentityMatchIn(bundle) /\ ~ContentMatchIn(bundle)

KindMatchIn(b) ==
    \E i \in DOMAIN DocsOf(b) : IsManifest(DocsOf(b)[i]) /\ DocsOf(b)[i].kind = obj.kind

(***************************************************************************)
(* spec.md 8: for a bundle with no manifest of the object's kind,          *)
(* getManifestYaml returns NotFound and never panics, whatever else the    *)
(* bundle holds (here: an empty document, on which GetKind is called       *)
(* through a nil *unstructured.Unstructured).                             *)
(***************************************************************************)
NoKindMatchIsNotFound ==
    (located /\ ~KindMatchIn(bundle)) => outcome = NotFoundOutcome
=============================================================================
