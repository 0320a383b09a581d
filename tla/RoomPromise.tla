---------------------------- MODULE RoomPromise ----------------------------
(***************************************************************************)
(* What the state store promises about a room, without its columns: a room *)
(* is prepared, offered, replaced and closed; the sandboxes it holds are   *)
(* the ones that may still exist, and at most one of them may be used.  A  *)
(* sandbox is acquired only when nothing is held, a room is offered only   *)
(* over a sandbox in use, and it is closed only when nothing is held.      *)
(* StateStore implements this specification (StorePromise).                *)
(***************************************************************************)
CONSTANTS
  Rooms,       (* attempt identities                                        *)
  Sandboxes    (* generations a room may reserve                            *)

VARIABLES
  phase,       (* what the learner can be told of the room                  *)
  held,        (* sandboxes recorded and not yet verified absent            *)
  inUse        (* the held sandboxes not told to stop                       *)

roomVars == <<phase, held, inUse>>

Phases == {"absent", "preparing", "offered", "replacing", "closing", "closed"}

\* The phase can only move along these edges.
Follows(p, q) ==
  \/ p = q
  \/ p = "absent"    /\ q = "preparing"
  \/ p = "preparing" /\ q \in {"offered", "closing", "closed"}
  \/ p = "offered"   /\ q \in {"replacing", "closing", "closed"}
  \/ p = "replacing" /\ q \in {"offered", "closing", "closed"}
  \/ p = "closing"   /\ q = "closed"

Init ==
  /\ phase = [r \in Rooms |-> "absent"]
  /\ held = [r \in Rooms |-> {}]
  /\ inUse = [r \in Rooms |-> {}]

Move(r, q) ==
  /\ phase[r] # q
  /\ Follows(phase[r], q)
  /\ q = "offered" => inUse[r] # {}
  /\ q = "closed" => held[r] = {}
  /\ phase' = [phase EXCEPT ![r] = q]
  /\ UNCHANGED <<held, inUse>>

\* Record a sandbox that may be created: only when none is left of the others.
Acquire(r, s) ==
  /\ phase[r] \in {"preparing", "replacing"}
  /\ held[r] = {}
  /\ held' = [held EXCEPT ![r] = {s}]
  /\ inUse' = [inUse EXCEPT ![r] = {s}]
  /\ UNCHANGED phase

\* A sandbox in use fails while the room is prepared.
Fail(r, s) ==
  /\ phase[r] \in {"preparing", "replacing"}
  /\ s \in inUse[r]
  /\ inUse' = [inUse EXCEPT ![r] = {}]
  /\ UNCHANGED <<phase, held>>

\* One cleanup pass tells sandboxes to stop, and records the identities of the
\* ones it never saw created so that they are verified absent too.
StopSandboxes(told, recorded) ==
  /\ \A r \in Rooms : recorded[r] # {} =>
       phase[r] \in {"preparing", "replacing", "closing"}
  /\ inUse' = [r \in Rooms |-> inUse[r] \ told[r]]
  /\ held' = [r \in Rooms |-> held[r] \cup recorded[r]]
  /\ UNCHANGED phase

\* A sandbox told to stop is verified absent.
Vanish(r, s) ==
  /\ s \in held[r] \ inUse[r]
  /\ held' = [held EXCEPT ![r] = @ \ {s}]
  /\ UNCHANGED <<phase, inUse>>

\* One expiry pass closes several rooms at once.
CloseSome(rooms) ==
  /\ \A r \in rooms : phase[r] \in {"preparing", "offered", "replacing", "closing"}
  /\ phase' = [r \in Rooms |-> IF r \in rooms THEN "closing" ELSE phase[r]]
  /\ UNCHANGED <<held, inUse>>

Next ==
  \/ \E r \in Rooms :
       \/ \E q \in Phases : Move(r, q)
       \/ \E s \in Sandboxes : Acquire(r, s) \/ Fail(r, s) \/ Vanish(r, s)
  \/ \E told, recorded \in [Rooms -> SUBSET Sandboxes] : StopSandboxes(told, recorded)
  \/ \E rooms \in SUBSET Rooms : CloseSome(rooms)

Spec == Init /\ [][Next]_roomVars
=============================================================================
