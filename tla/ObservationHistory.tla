------------------------- MODULE ObservationHistory -------------------------
(***************************************************************************)
(* What the Observation Recorder promises (spec.md 3 and 4.4), with no     *)
(* workers, caches or fetches: the history is replaced in one step by one  *)
(* computed from a single cluster snapshot.  It holds one entry per live   *)
(* resource and none for a resource that disappeared; an entry is either   *)
(* incomplete and carries no result, or complete and carries the expected  *)
(* provenance result of every attested material, in order.                *)
(***************************************************************************)
EXTENDS Sequences

CONSTANTS Resources, Snapshots, Gone,
          Expected(_, _)   \* the results a complete entry of r in snap holds

VARIABLES snapshot,  \* the cluster snapshot the history was computed from
          hist       \* the recorded history, a sequence of entries

Identity(e) == [kind |-> e.kind, namespace |-> e.namespace, name |-> e.name]

Faithful(h, snap) ==
    /\ \A i, j \in DOMAIN h : Identity(h[i]) = Identity(h[j]) => i = j
    /\ { Identity(h[i]) : i \in DOMAIN h } = { r \in Resources : snap[r] # Gone }
    /\ \A i \in DOMAIN h :
          h[i].results = IF h[i].complete
                         THEN Expected(Identity(h[i]), snap[Identity(h[i])])
                         ELSE << >>

Init == /\ snapshot = [r \in Resources |-> Gone]
        /\ hist = << >>

Observe == /\ snapshot' \in [Resources -> Snapshots \cup {Gone}]
           /\ Faithful(hist', snapshot')

Spec == Init /\ [][Observe]_<<snapshot, hist>>
=============================================================================
