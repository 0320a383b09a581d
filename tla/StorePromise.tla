---------------------------- MODULE StorePromise ----------------------------
(***************************************************************************)
(* The rows of the state store read as the rooms of RoomPromise: which     *)
(* phase the learner can be told, which sandboxes may still exist, and     *)
(* which of them may be used.                                              *)
(***************************************************************************)
EXTENDS StateStore

RoomPhase(state) ==
  CASE state = "NONE"                             -> "absent"
    [] state = "PROVISIONING"                     -> "preparing"
    [] state \in {"READY", "RUNNING", "RESOLVED"} -> "offered"
    [] state = "RESETTING"                        -> "replacing"
    [] state \in {"STOPPING", "FAILED"}           -> "closing"
    [] state = "DESTROYED"                        -> "closed"

Held(a) == {g \in Generations : resources[a][g].state \notin {"NONE", "DESTROYED"}}

InUse(a) == {g \in Generations : Usable(a, g)}

PhaseOf == [a \in Attempts |-> RoomPhase(attempts[a].state)]
HeldBy  == [a \in Attempts |-> Held(a)]
InUseBy == [a \in Attempts |-> InUse(a)]

Promise == INSTANCE RoomPromise WITH
  Rooms     <- Attempts,
  Sandboxes <- Generations,
  phase     <- PhaseOf,
  held      <- HeldBy,
  inUse     <- InUseBy

\* The store implements the promise: its transactions, read through the mapping
\* above, are steps of RoomPromise or leave the room as it is.
KeepsPromise == Promise!Spec
=============================================================================
