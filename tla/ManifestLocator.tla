-------------------------- MODULE ManifestLocator --------------------------
(***************************************************************************)
(* Manifest Locator: getManifestYaml (src/unnamed/part_000) finds, in the  *)
(* manifests of a signed image, the one a live object was created from.    *)
(*                                                                         *)
(* A bundle is PullFailed (PullImage or GenerateConcatYAMLsFromImage       *)
(* failed) or the sequence of documents SplitConcatYAMLs yields; a         *)
(* document is Unparsable, NullDoc (an empty or "null" document, which    *)
(* yaml.Unmarshal accepts and leaves *unstructured.Unstructured nil), or a *)
(* manifest [apiVersion, kind, name,                                       *)
(* namespace, content], where content stands for the fields the            *)
(* library's content comparison looks at.  The object is a record of the   *)
(* same shape.  The search functions are those of k8s-manifest-sigstore:   *)
(* ManifestSearchByGVKNameNamespace returns the first identity match,      *)
(* ManifestSearchByContent some manifest whose content matches (which one, *)
(* when several do, is the library's choice): the result is therefore the  *)
(* SET of outcomes [found, manifest] the call can return.                  *)
(***************************************************************************)
EXTENDS Sequences, SequencesExt

CONSTANTS PullFailed, Unparsable, NullDoc, NoManifest, Panicked

Identity(m) == <<m.apiVersion, m.kind, m.name, m.namespace>>

NotFoundOutcome == [found |-> FALSE, manifest |-> NoManifest]

Found(m) == [found |-> TRUE, manifest |-> m]

\* The goroutine panics: getManifestYaml does not return.
PanicOutcome == [found |-> FALSE, manifest |-> Panicked]

\* mnfObj.GetKind() on the nil pointer a NullDoc leaves: every document is
\* reached (unparsable ones only "continue"), so any NullDoc panics.
NilManifestIn(docs) == \E i \in DOMAIN docs : docs[i] = NullDoc

\* Mutant: "break" instead of "continue" on a document that does not parse.
KindMatched_BreakOnError(docs, obj) ==
    LET stop == SelectInSeq(docs, LAMBDA d : d = Unparsable)
        kept == IF stop = 0 THEN docs ELSE SubSeq(docs, 1, stop - 1)
    IN  SelectSeq(kept, LAMBDA d : d.kind = obj.kind)

\* The loop over yamls: unparsable documents are skipped ("continue"),
\* manifests of the object's kind are kept in order.
KindMatched(docs, obj) ==
    SelectSeq(docs, LAMBDA d : d # Unparsable /\ d.kind = obj.kind)

\* k8smnfutil.ManifestSearchByGVKNameNamespace: first identity match.
ManifestSearchByGVKNameNamespace(cands, obj) ==
    LET i == SelectInSeq(cands, LAMBDA m : Identity(m) = Identity(obj))
    IN  IF i = 0 THEN NotFoundOutcome ELSE Found(cands[i])

\* k8smnfutil.ManifestSearchByContent: any content match.
ManifestSearchByContent(cands, obj) ==
    LET hits == { cands[i] : i \in { j \in DOMAIN cands : cands[j].content = obj.content } }
    IN  IF hits = {} THEN {NotFoundOutcome} ELSE { Found(m) : m \in hits }

\* Mutant: the content-based search tried before the identity search.
getManifestYaml_ContentFirst(bundle, obj) ==
    IF bundle = PullFailed THEN {NotFoundOutcome}
    ELSE IF NilManifestIn(bundle) THEN {PanicOutcome}
    ELSE LET cands == KindMatched(bundle, obj)
             byContent == ManifestSearchByContent(cands, obj)
         IN  IF cands = << >> THEN {NotFoundOutcome}
             ELSE IF NotFoundOutcome \notin byContent THEN byContent
             ELSE {ManifestSearchByGVKNameNamespace(cands, obj)}

\* Mutant: the object's own bytes returned in place of foundBytes.
getManifestYaml_ReturnsObject(bundle, obj) ==
    IF bundle = PullFailed THEN {NotFoundOutcome}
    ELSE IF NilManifestIn(bundle) THEN {PanicOutcome}
    ELSE LET cands == KindMatched(bundle, obj)
             byId  == ManifestSearchByGVKNameNamespace(cands, obj)
         IN  IF cands = << >> THEN {NotFoundOutcome}
             ELSE IF byId.found THEN {Found(obj)}
             ELSE { IF o.found THEN Found(obj) ELSE o : o \in ManifestSearchByContent(cands, obj) }

\* getManifestYaml: the early returns, then identity before content.
getManifestYaml(bundle, obj) ==
    IF bundle = PullFailed THEN {NotFoundOutcome}
    ELSE IF NilManifestIn(bundle) THEN {PanicOutcome}
    ELSE LET cands == KindMatched(bundle, obj)
             byId  == ManifestSearchByGVKNameNamespace(cands, obj)
         IN  IF cands = << >> THEN {NotFoundOutcome}
             ELSE IF byId.found THEN {byId}
             ELSE ManifestSearchByContent(cands, obj)
=============================================================================
