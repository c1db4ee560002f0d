------------------------ MODULE ObservationRecorder ------------------------
(***************************************************************************)
(* Lookups into the previous cycle's results (src/unnamed/part_000):       *)
(* getTargetResourceLog finds a resource's entry by (kind, namespace,      *)
(* name); getTargetProvenanceLog finds a prior provenance result by the    *)
(* repository URI alone.  Both return the FIRST match of the slice, as a   *)
(* pair <<found, entry>>; NotFound stands for the zero value.              *)
(***************************************************************************)
EXTENDS Sequences, SequencesExt

CONSTANT NotFound

\* The loop "for _, x := range s { if P(x) { return true, x } }".
FirstMatch(s, P(_)) ==
    LET i == SelectInSeq(s, P)
    IN  IF i = 0 THEN <<FALSE, NotFound>> ELSE <<TRUE, s[i]>>

getTargetResourceLog(res, lastResults) ==
    FirstMatch(lastResults, LAMBDA lres : /\ lres.kind = res.kind
                                          /\ lres.namespace = res.namespace
                                          /\ lres.name = res.name)

getTargetProvenanceLog(new, lastProvs) ==
    FirstMatch(lastProvs, LAMBDA prov : prov.gitRepo = new.gitRepo)
=============================================================================
