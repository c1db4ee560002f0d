------------------------------ MODULE Observer ------------------------------
(***************************************************************************)
(* One observation cycle after another (spec.md 4.4, 5): for every live    *)
(* resource, extract its provenance infos (GetProvenanceFromVerifyResource-*)
(* Result), resolve each info with setNewManifestProvenanceResult, and at  *)
(* the end of the cycle replace the history wholesale.                     *)
(*                                                                         *)
(* The cycle driver is not in src/ and is modelled from spec.md; every     *)
(* step it takes calls the operators translated from src/unnamed/part_000. *)
(* setNewManifestProvenanceResult, the only resolver src/ defines, calls   *)
(* accessGitRepo for every info: there is no cycle-local cache, and        *)
(* (spec.md 9) the history lookups are not consulted before a fetch.       *)
(* Resolutions run concurrently, at most Workers resources at a time; a    *)
(* fetch is split into sending the request and receiving the reply, the    *)
(* only blocking point.  A panic kills the process: the cycle is lost, the *)
(* persisted history survives and the next cycle starts afresh.            *)
(***************************************************************************)
EXTENDS Naturals, Sequences, SequencesExt, FiniteSets, Bags,
        Provenance, CommitResolver

CONSTANTS Resources,   \* identities [kind, namespace, name] of resources
          Snapshots,   \* provenance statements a live resource can carry
          Gone,        \* the resource is not in the cluster this cycle
          Workers,     \* bound on resources resolved at the same time
          GitToken,    \* os.Getenv("GIT_TOKEN"), "" when unset
          Replies(_),  \* the bodies GitHub may answer a request with
          NoResult,    \* result slot not filled yet
          Truth(_)     \* the CommitDetail GitHub holds for an info's commit

ASSUME Workers \in Nat \ {0}

VARIABLES phase,      \* "idle" between cycles, "running" during one
          live,       \* live[r]: statements of r this cycle, or Gone
          stage,      \* stage[r]: "queued", "resolving" or "done"
          status,     \* status[r][i]: "todo", "fetching" or "done"
          result,     \* result[r][i]: ManifestProvenanceResult of info i
          fetches,    \* bag of the <<repo, commit>> keys fetched this cycle
          history,    \* previous cycle's []FinalObservationResourceResult
          histLive,   \* the live snapshot history was computed from
          lastEnd     \* how the last cycle ended

vars == <<phase, live, stage, status, result, fetches, history, histLive, lastEnd>>

VerifyResult(r, stmts) == [resource |-> r, provenances |-> stmts]

\* The ObservationResourceResult of r for each snapshot (a constant table,
\* so that TLC extracts once), and of r in this cycle.
ObservedOf == [ r \in Resources, s \in Snapshots |->
                    GetProvenanceFromVerifyResourceResult(VerifyResult(r, s)) ]

Observed(r) == ObservedOf[r, live[r]]

Infos(r) == Observed(r).infos

MaxInfos == LET lens == { Len(ExtractRef(s)) : s \in Snapshots }
            IN  CHOOSE n \in lens : \A m \in lens : m <= n

Slots == 1..MaxInfos

Key(info) == <<info.gitRepo, info.commitID>>

LiveResources == { r \in Resources : live[r] # Gone }

-----------------------------------------------------------------------------
Init == /\ phase = "idle"
        /\ live = [r \in Resources |-> Gone]
        /\ stage = [r \in Resources |-> "queued"]
        /\ status = [r \in Resources |-> [i \in Slots |-> "todo"]]
        /\ result = [r \in Resources |-> [i \in Slots |-> NoResult]]
        /\ fetches = EmptyBag
        /\ history = << >>
        /\ histLive = [r \in Resources |-> Gone]
        /\ lastEnd = "none"

\* The scheduler starts a cycle on whatever the cluster holds now.
StartCycle ==
    /\ phase = "idle"
    /\ live' \in [Resources -> Snapshots \cup {Gone}]
    /\ phase' = "running"
    /\ stage' = [r \in Resources |-> "queued"]
    /\ status' = [r \in Resources |-> [i \in Slots |-> "todo"]]
    /\ result' = [r \in Resources |-> [i \in Slots |-> NoResult]]
    /\ fetches' = EmptyBag
    /\ UNCHANGED <<history, histLive, lastEnd>>

\* A worker takes a live resource; at most Workers are in progress.
BeginResource(r) ==
    /\ phase = "running"
    /\ r \in LiveResources
    /\ stage[r] = "queued"
    /\ Cardinality({ s \in Resources : stage[s] = "resolving" }) < Workers
    /\ stage' = [stage EXCEPT ![r] = "resolving"]
    /\ UNCHANGED <<phase, live, status, result, fetches, history, histLive, lastEnd>>

Settle(r, i, res) ==
    /\ status' = [status EXCEPT ![r][i] = "done"]
    /\ result' = [result EXCEPT ![r][i] = res]

\* setNewManifestProvenanceResult reads GIT_TOKEN and sends the request
\* for the info's commit, whatever was fetched before in this cycle.
SendRequest(r, i) ==
    /\ phase = "running"
    /\ stage[r] = "resolving"
    /\ i \in 1..Len(Infos(r))
    /\ status[r][i] = "todo"
    /\ fetches' = fetches (+) SetToBag({Key(Infos(r)[i])})
    /\ status' = [status EXCEPT ![r][i] = "fetching"]
    /\ UNCHANGED <<phase, live, stage, result, history, histLive, lastEnd>>

\* The reply to an in-flight request, parsed by getCommitInfoFromDetail.
Outcome(r, i, reply) == setNewManifestProvenanceResult(Infos(r)[i], reply)

InFlight(r, i) == /\ phase = "running"
                  /\ status[r][i] = "fetching"

Reply(r, i) == Replies(RequestSent(Infos(r)[i].gitApiURL, GitToken))

\* A well-formed reply is merged with the info into the slot's result.
FetchReturns(r, i) ==
    /\ InFlight(r, i)
    /\ \E reply \in Reply(r, i) :
          LET out == Outcome(r, i, reply) IN
          /\ ~out.panic
          /\ Settle(r, i, out.value)
    /\ UNCHANGED <<phase, live, stage, fetches, history, histLive, lastEnd>>

\* Any other reply panics: the process restarts, the cycle is lost.
FetchPanics(r, i) ==
    /\ InFlight(r, i)
    /\ \E reply \in Reply(r, i) : Outcome(r, i, reply).panic
    /\ phase' = "idle"
    /\ lastEnd' = "crash"
    /\ UNCHANGED <<live, stage, status, result, fetches, history, histLive>>

FinishResource(r) ==
    /\ phase = "running"
    /\ stage[r] = "resolving"
    /\ \A i \in 1..Len(Infos(r)) : status[r][i] = "done"
    /\ stage' = [stage EXCEPT ![r] = "done"]
    /\ UNCHANGED <<phase, live, status, result, fetches, history, histLive, lastEnd>>

(***************************************************************************)
(* End of a cycle.  Every live resource gets one entry; one not finished   *)
(* (deadline, spec.md 5) is incomplete and carries no result.              *)
(***************************************************************************)
Entry(r) ==
    [ kind      |-> Observed(r).kind,
      namespace |-> Observed(r).namespace,
      name      |-> Observed(r).name,
      complete  |-> stage[r] = "done",
      results   |-> IF stage[r] = "done"
                    THEN [i \in 1..Len(Infos(r)) |-> result[r][i]] ELSE << >> ]

Record(how) ==
    /\ history' = SetToSeq({ Entry(r) : r \in LiveResources })
    /\ histLive' = live
    /\ phase' = "idle"
    /\ lastEnd' = how
    /\ UNCHANGED <<live, stage, status, result, fetches>>

EndCycle == /\ phase = "running"
            /\ \A r \in LiveResources : stage[r] = "done"
            /\ Record("complete")

\* The cycle deadline expires with work left.
Deadline == /\ phase = "running"
            /\ \E r \in LiveResources : stage[r] # "done"
            /\ Record("deadline")

Next == \/ StartCycle
        \/ \E r \in Resources : \/ BeginResource(r)
                                \/ FinishResource(r)
                                \/ \E i \in Slots : \/ SendRequest(r, i)
                                                    \/ FetchReturns(r, i)
                                                    \/ FetchPanics(r, i)
        \/ EndCycle
        \/ Deadline

(***************************************************************************)
(* Fairness: the scheduler keeps starting cycles, the worker pool does not *)
(* idle while it has CPU work, and the deadline spec.md 5 requires ends a  *)
(* cycle that work cannot finish.  A reply gets none: the http.Client of   *)
(* accessGitRepo has no Timeout, so client.Get may never return.           *)
(***************************************************************************)
Work == \E r \in Resources : \/ BeginResource(r)
                             \/ FinishResource(r)
                             \/ \E i \in Slots : SendRequest(r, i)

Fairness == /\ WF_vars(StartCycle) /\ WF_vars(Work)
            /\ WF_vars(EndCycle) /\ WF_vars(Deadline)

Spec == Init /\ [][Next]_vars /\ Fairness
-----------------------------------------------------------------------------
(***************************************************************************)
(* spec.md 3 and 8: within one cycle no (repoURL, commitID) pair is        *)
(* fetched twice; a second resolution of the same commit is served from    *)
(* the cycle-local cache.  setNewManifestProvenanceResult calls            *)
(* accessGitRepo for every info, so two resources attested by the same     *)
(* commit (or one material listed twice) fetch it twice.                   *)
(***************************************************************************)
NoDuplicateFetch == \A k \in BagToSet(fetches) : CopiesIn(k, fetches) = 1

(***************************************************************************)
(* GetProvenanceFromVerifyResourceResult yields one info per material of   *)
(* each manifest-image statement, in input order, and nothing for other    *)
(* statements (spec.md 4.2), for every snapshot a resource takes.          *)
(***************************************************************************)
ExtractionMatchesReference ==
    \A r \in LiveResources : Infos(r) = ExtractRef(live[r])

(***************************************************************************)
(* The history is what the abstract ObservationHistory promises: replaced  *)
(* in one step, one entry per live resource, an incomplete entry carries   *)
(* nothing, a complete one the true provenance of every attested commit.   *)
(* This composes the code's steps for each info: the commit ID and the     *)
(* detail URL of the extraction, the request, getCommitInfoFromDetail's    *)
(* parse and the merge of setNewManifestProvenanceResult; Expected is      *)
(* built from the reference extraction and GitHub's own data (Truth).      *)
(***************************************************************************)
Expected(r, snap) ==
    LET infos == ExtractRef(snap)
    IN  [k \in DOMAIN infos |-> ManifestProvenanceResult(infos[k], Truth(infos[k]))]

Abstract == INSTANCE ObservationHistory WITH snapshot <- histLive, hist <- history

HistoryRefinement == Abstract!Spec

(***************************************************************************)
(* spec.md 4.3 and 6: the commit-detail GET is authenticated with the      *)
(* bearer token from GIT_TOKEN when one is configured.  accessGitRepo puts *)
(* the header on req but sends client.Get(url).                            *)
(***************************************************************************)
FetchCarriesToken ==
    \A r \in Resources, i \in Slots :
        (status[r][i] = "fetching" /\ GitToken # "")
            => RequestSent(Infos(r)[i].gitApiURL, GitToken).authorization
                   = "Bearer " \o GitToken

(***************************************************************************)
(* spec.md 7: a transport, parse or missing-field failure is recorded for  *)
(* its own entry and never aborts the cycle, so cycles keep recording      *)
(* results for the other resources.  accessGitRepo and                     *)
(* getCommitInfoFromDetail panic instead (FetchPanics).  A request that    *)
(* never returns does not stop recording: the deadline ends that cycle.    *)
(***************************************************************************)
CyclesKeepRecording == []<>(lastEnd \in {"complete", "deadline"})
=============================================================================
