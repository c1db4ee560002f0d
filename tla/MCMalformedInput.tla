--------------------------- MODULE MCMalformedInput ---------------------------
(***************************************************************************)
(* The parsers of the observer package fed the malformed inputs they meet  *)
(* in practice: getManifestYaml a bundle that may hold an empty document,  *)
(* getCommitInfo any attestation of MCCommitInfo and getParentsFromDetail  *)
(* any reply.  The two harnesses are independent and run side by side.     *)
(***************************************************************************)
EXTENDS Naturals, Sequences, SequencesExt

CONSTANTS PullFailed, Unparsable, NullDoc, NoManifest, Panicked, JNull, JAbsent

VARIABLES bundle, obj, located, outcome,
          att, server, body, resolved, info, parsed, parents

ML == INSTANCE MCManifestLocator
CI == INSTANCE MCCommitInfo

mlVars == <<bundle, obj, located, outcome>>
ciVars == <<att, server, body, resolved, info, parsed, parents>>
vars == <<mlVars, ciVars>>

\* Bundles of up to two documents, an empty one among those they are drawn from.
Bundles == {PullFailed} \cup BoundedSeq(ML!DocsWithNull, 2)

Init == /\ bundle \in Bundles
        /\ obj \in ML!Objects
        /\ located = FALSE
        /\ outcome = ML!NotFoundOutcome
        /\ CI!Init

Next == \/ ML!Locate /\ UNCHANGED ciVars
        \/ CI!Next /\ UNCHANGED mlVars

Spec == Init /\ [][Next]_vars

(***************************************************************************)
(* spec.md 7, 8 and 9: a malformed input is contained at the smallest unit *)
(* and never panics.  getManifestYaml answers NotFound for a bundle with   *)
(* no manifest of the object's kind; getCommitInfo skips a material        *)
(* without a commit digest and reports an attestation that does not parse; *)
(* getParentsFromDetail, best-effort, gives no parents for a reply without *)
(* them.                                                                   *)
(***************************************************************************)
MalformedInputContained ==
    /\ ML!NoKindMatchIsNotFound
    /\ CI!MissingCommitSkipped
    /\ CI!AttestationParseErrorReported
    /\ CI!ParentsBestEffort
====
