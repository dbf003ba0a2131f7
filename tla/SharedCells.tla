----------------------------- MODULE SharedCells -----------------------------
(***************************************************************************)
(* What the container promises about an instance that is shared: a cell    *)
(* per cache and token holds at most one creation; whoever asks while it   *)
(* is there gets that creation; it leaves the cell when it fails or when   *)
(* the cell is dropped (override, disposal), or when a creation fails that *)
(* was dropped from the cell before, and for no other reason.  The promise *)
(* is that of docs/architecture/di-and-modules.md ("One instance is shared *)
(* from the root container cache").                                        *)
(***************************************************************************)
EXTENDS Integers

CONSTANTS Keys,       \* the cells: one per cache and token
          Creations   \* identifiers of creations; 0 is none of them

VARIABLES cell,       \* key -> the creation it holds, or 0
          progress    \* creation -> "none", "creating", "ready" or "failed"
vars == <<cell, progress>>

Init == cell = [q \in Keys |-> 0] /\ progress = [i \in Creations |-> "none"]

\* The first to ask starts the creation; it is in the cell from then on.
Begin(q, i) ==
  /\ cell[q] = 0 /\ progress[i] = "none"
  /\ cell' = [cell EXCEPT ![q] = i]
  /\ progress' = [progress EXCEPT ![i] = "creating"]

\* The creation ends; only a failure leaves the cell.
Ready(i) ==
  /\ progress[i] = "creating"
  /\ progress' = [progress EXCEPT ![i] = "ready"]
  /\ UNCHANGED cell

\* It empties the cell it was begun in, whoever is there by then.
Fail(i) ==
  /\ progress[i] = "creating"
  /\ progress' = [progress EXCEPT ![i] = "failed"]
  /\ \E q \in Keys :
       /\ \A r \in Keys : cell[r] = i => r = q
       /\ cell' = [cell EXCEPT ![q] = 0]

\* override() or dispose() empties some cells.
Drop ==
  /\ \A q \in Keys : cell'[q] \in {cell[q], 0}
  /\ cell' \in [Keys -> Creations \cup {0}]
  /\ UNCHANGED progress

Next ==
  \/ \E q \in Keys, i \in Creations : Begin(q, i)
  \/ \E i \in Creations : Ready(i) \/ Fail(i)
  \/ Drop

Spec == Init /\ [][Next]_vars
=============================================================================
