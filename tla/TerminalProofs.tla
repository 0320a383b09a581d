--------------------------- MODULE TerminalProofs ---------------------------
(***************************************************************************)
(* What is proved of the way to a terminal, for any number of rooms,       *)
(* generations, sockets and capabilities, and of the relay of one open     *)
(* shell, for any number of frames, chunks of output and PTY buffer.       *)
(*                                                                         *)
(* Every step of a connection is a step of the store or leaves it alone,   *)
(* so the invariant of the store holds throughout, and what a capability   *)
(* says of its room is kept by the way rows move (StateStoreStepProofs).   *)
(* In the relay no call meets a closed PTY session, a close is never taken *)
(* for the end of the shell, and a close code once sent stands; the first  *)
(* needs more than it says: an error that a task still has to turn into a  *)
(* close code must itself tell of a shell that has ended.                  *)
(***************************************************************************)
EXTENDS MCTerminal, StateStoreStepProofs, FiniteSetTheorems, SequenceTheorems

-----------------------------------------------------------------------------
(* The inductive invariant *)

\* A capability stands for its room until the epoch moves on: its epoch has not
\* come yet or has passed, or the room is offered over the sandbox it names.
Stands(c) ==
  LET row == attempts[c.attempt]
  IN  /\ row.state # "NONE"
      /\ c.expiresAt <= row.expiresAt
      /\ c.epoch <= row.epoch
      /\ row.epoch = c.epoch => Published(c.attempt) /\ row.generation = c.generation

CapabilitiesStand ==
  \A j \in DOMAIN capabilities : capabilities[j] \in Capability /\ Stands(capabilities[j])

\* A connection holds a capability that was issued, and has used it once past
\* the consumption.
Holds(s) ==
  /\ sockets[s].stage # "new" => sockets[s].jti \in DOMAIN capabilities
  /\ PastConsume(s) => sockets[s].jti \in used

AccessInv ==
  /\ StoreInv
  /\ CapabilitiesStand
  /\ sockets \in [Sockets -> Socket]
  /\ \A s \in Sockets : Holds(s)
  /\ CapabilitySpentOnce

LEMMA AccessInitHolds == TerminalInit => AccessInv
<1> SUFFICES ASSUME TerminalInit PROVE AccessInv
  OBVIOUS
<1>1. StoreInv
  BY InitHolds DEF TerminalInit
<1>2. capabilities = <<>> /\ leases = {} /\ used = {} /\ sockets = [s \in Sockets |-> NewSocket]
  BY DEF TerminalInit
<1>3. DOMAIN capabilities = {}
  BY <1>2
<1>4. CapabilitiesStand
  BY <1>3 DEF CapabilitiesStand
<1>5. MaxCapabilities \in Nat
  BY TerminalAssumption
<1>6. sockets \in [Sockets -> Socket]
  BY <1>2, <1>5 DEF NewSocket, Socket, Stages
<1>7. \A s \in Sockets : sockets[s].stage = "new"
  BY <1>2 DEF NewSocket
<1>8. \A s \in Sockets : Holds(s)
  BY <1>7 DEF Holds, PastConsume
<1>9. CapabilitySpentOnce
  BY <1>2, <1>7 DEF CapabilitySpentOnce, PastConsume
<1> QED
  BY <1>1, <1>4, <1>6, <1>8, <1>9 DEF AccessInv

-----------------------------------------------------------------------------
(* The store underneath *)

\* The capability of a connection past its first frame is one that was issued.
LEMMA HeldCapability ==
  ASSUME AccessInv, NEW s \in Sockets, sockets[s].stage # "new"
  PROVE  /\ sockets[s].jti \in DOMAIN capabilities
         /\ CapabilityOf(s) \in Capability
         /\ Stands(CapabilityOf(s))
BY DEF AccessInv, Holds, CapabilitiesStand, CapabilityOf

\* Whatever a connection does to the store, the store allows any caller.
LEMMA AccessStepIsStoreStep ==
  ASSUME AccessInv, [TerminalNext]_accessVars
  PROVE  [Next]_vars
<1>1. ASSUME NEW s \in Sockets, ConsumeDenied(s)
      PROVE  [Next]_vars
  <2>1. CapabilityOf(s).attempt \in Attempts /\ CapabilityOf(s).generation \in Generations
    BY <1>1, HeldCapability DEF ConsumeDenied, AtStage, Capability
  <2> QED
    BY <1>1, <2>1 DEF ConsumeDenied, Next, BackendStep
<1>2. ASSUME NEW s \in Sockets, LeaseDenied(s)
      PROVE  [Next]_vars
  <2>1. CapabilityOf(s).attempt \in Attempts /\ CapabilityOf(s).generation \in Generations
    BY <1>2, HeldCapability DEF LeaseDenied, AtStage, Capability
  <2> QED
    BY <1>2, <2>1 DEF LeaseDenied, Next, ControlStep
<1>3. ASSUME NEW s \in Sockets, SocketStep(s), ~ConsumeDenied(s), ~LeaseDenied(s)
      PROVE  UNCHANGED vars
  BY <1>3 DEF SocketStep, Consume, GrantLease, Admit, NotAdmitted, CheckLease,
    InspectSandbox, AcquireSession, OpenShell, OpenFails, CloseSession, ReleaseAdmission
<1>4. ASSUME NEW s \in Sockets, \/ Cancel(s)
                                \/ \E j \in Jtis : Present(s, j)
      PROVE  UNCHANGED vars
  BY <1>4 DEF Cancel, Present
<1>5. ASSUME NEW a \in Attempts, NEW read \in 0..clock, Issue(a, read)
      PROVE  UNCHANGED vars
  BY <1>5 DEF Issue
<1>6. CASE UNCHANGED accessVars
  BY <1>6 DEF accessVars
<1> QED
  BY <1>1, <1>2, <1>3, <1>4, <1>5, <1>6 DEF TerminalNext

\* A capability that stands still does after any step of the store: only a step
\* that moves the epoch on takes the room away or replaces its sandbox.
LEMMA CapabilityStands ==
  ASSUME StoreInv, StoreInv', RowsMove, NEW c \in Capability, Stands(c)
  PROVE  Stands(c)'
<1> DEFINE old == attempts[c.attempt]
           new == attempts'[c.attempt]
<1>1. c.attempt \in Attempts /\ c.epoch \in Nat /\ c.expiresAt \in Nat
  BY DEF Capability
<1>2. old \in Attempt /\ new \in Attempt
  BY <1>1 DEF StoreInv, TypeOK
<1>3. /\ old.epoch \in Nat /\ new.epoch \in Nat
      /\ old.state # "NONE" /\ AttemptMoves(old, new)
  BY <1>1, <1>2 DEF Attempt, Stands, RowsMove
<1>4. new.state # "NONE"
  BY <1>1, <1>3 DEF StoreInv, RoomInv, AttemptShape, NoAttempt, AttemptMoves, Stands, Published, Offered
<1>5. new.expiresAt = old.expiresAt /\ old.epoch <= new.epoch
  BY <1>3 DEF AttemptMoves
<1>6. ASSUME new.epoch = c.epoch
      PROVE  Published(c.attempt)' /\ new.generation = c.generation
  <2>1. old.epoch = c.epoch /\ new.epoch = old.epoch
    BY <1>1, <1>3, <1>5, <1>6 DEF Stands
  <2>2. Offered(old) /\ old.generation = c.generation
    BY <2>1 DEF Stands, Published, Offered
  <2>3. Offered(new)
    BY <1>3, <2>1, <2>2 DEF AttemptMoves
  <2>4. new.generation = old.generation
    BY <1>3, <2>3 DEF AttemptMoves, Offered
  <2> QED
    BY <2>2, <2>3, <2>4 DEF Published, Offered
<1> QED
  BY <1>1, <1>3, <1>4, <1>5, <1>6 DEF Stands

-----------------------------------------------------------------------------
(* What a step does to capabilities, uses, leases and sockets *)

\* One connection goes on, past no consumption, and issues and uses nothing.
GoesOn(s) ==
  /\ UNCHANGED <<capabilities, used>>
  /\ sockets' \in [Sockets -> Socket]
  /\ \A t \in Sockets : t # s => sockets'[t] = sockets[t]
  /\ sockets'[s].jti = sockets[s].jti
  /\ sockets[s].stage = "new" => sockets'[s].stage = "new"
  /\ PastConsume(s)' => PastConsume(s)

\* A connection that only moves to another stage, and not back to its first.
LEMMA BecomesGoesOn ==
  ASSUME sockets \in [Sockets -> Socket], NEW s \in Sockets, NEW stage \in Stages,
         Becomes(s, stage), UNCHANGED <<capabilities, used>>, sockets[s].stage # "new",
         stage \in {"consume", "over"} \/ PastConsume(s)
  PROVE  GoesOn(s)
<1>1. sockets' = [sockets EXCEPT ![s] = [sockets[s] EXCEPT !.stage = stage]]
  BY DEF Becomes
<1>2. sockets[s] \in Socket /\ [sockets[s] EXCEPT !.stage = stage] \in Socket
  BY DEF Socket
<1>3. sockets'[s].stage = stage /\ sockets'[s].jti = sockets[s].jti
  BY <1>1, <1>2 DEF Socket
<1>4. sockets' \in [Sockets -> Socket] /\ \A t \in Sockets : t # s => sockets'[t] = sockets[t]
  BY <1>1, <1>2
<1> QED
  BY <1>3, <1>4 DEF GoesOn, PastConsume

\* The steps of a connection but those that use its capability or lease it.
QuietStep(s) ==
  \/ ConsumeDenied(s) \/ LeaseDenied(s)
  \/ Admit(s)      \/ NotAdmitted(s)
  \/ CheckLease(s)
  \/ InspectSandbox(s)
  \/ AcquireSession(s)
  \/ OpenShell(s)  \/ OpenFails(s)
  \/ CloseSession(s)
  \/ ReleaseAdmission(s)
  \/ Cancel(s)

LEMMA QuietStepGoesOn ==
  ASSUME AccessInv, NEW s \in Sockets, QuietStep(s)
  PROVE  GoesOn(s) /\ leases' = leases
<1>1. sockets \in [Sockets -> Socket]
  BY DEF AccessInv
<1>2. leases' = leases /\ UNCHANGED <<capabilities, used>>
  BY DEF QuietStep, ConsumeDenied, LeaseDenied, Admit, NotAdmitted, CheckLease, InspectSandbox,
    AcquireSession, OpenShell, OpenFails, CloseSession, ReleaseAdmission, Cancel
<1>3. CASE ConsumeDenied(s) \/ LeaseDenied(s) \/ NotAdmitted(s) \/ OpenFails(s)
             \/ CloseSession(s)
  <2>1. Becomes(s, "over") /\ sockets[s].stage # "new"
    BY <1>3 DEF ConsumeDenied, LeaseDenied, NotAdmitted, OpenFails, CloseSession, AtStage
  <2> QED
    BY <1>1, <1>2, <2>1, BecomesGoesOn DEF Stages
<1>4. CASE OpenShell(s)
  <2>1. Becomes(s, "end") /\ sockets[s].stage = "open"
    BY <1>4 DEF OpenShell, AtStage
  <2> QED
    BY <1>1, <1>2, <2>1, BecomesGoesOn DEF Stages, PastConsume
<1>5. CASE InspectSandbox(s)
  <2>1. sockets[s].stage = "inspect" /\ (Becomes(s, "acquire") \/ Becomes(s, "over"))
    BY <1>5 DEF InspectSandbox, AtStage
  <2> QED
    BY <1>1, <1>2, <2>1, BecomesGoesOn DEF Stages, PastConsume
<1>6. CASE AcquireSession(s)
  <2>1. sockets[s].stage = "acquire" /\ (Becomes(s, "open") \/ Becomes(s, "over"))
    BY <1>6 DEF AcquireSession, AtStage
  <2> QED
    BY <1>1, <1>2, <2>1, BecomesGoesOn DEF Stages, PastConsume
<1>7. CASE Admit(s)
  <2>1. /\ sockets[s].stage = "admit"
        /\ sockets' = [sockets EXCEPT ![s].stage = "check", ![s].admitted = TRUE]
    BY <1>7 DEF Admit, AtStage
  <2>2. sockets' = [sockets EXCEPT ![s] = [sockets[s] EXCEPT !.stage = "check", !.admitted = TRUE]]
    BY <1>1, <2>1
  <2>3. [sockets[s] EXCEPT !.stage = "check", !.admitted = TRUE] \in Socket
    BY <1>1 DEF Socket, Stages
  <2> QED
    BY <1>1, <1>2, <2>1, <2>2, <2>3 DEF GoesOn, PastConsume, Socket
<1>8. CASE CheckLease(s)
  <2>1. CASE Becomes(s, "over")
    BY <1>1, <1>2, <1>8, <2>1, BecomesGoesOn DEF Stages, CheckLease, AtStage
  <2>2. CASE sockets' = [sockets EXCEPT ![s].stage = "inspect", ![s].at = clock]
    <3>1. sockets' = [sockets EXCEPT ![s] = [sockets[s] EXCEPT !.stage = "inspect", !.at = clock]]
      BY <1>1, <2>2
    <3>2. [sockets[s] EXCEPT !.stage = "inspect", !.at = clock] \in Socket
      BY <1>1 DEF Socket, Stages, AccessInv, StoreInv, TypeOK
    <3>3. sockets[s].stage = "check"
      BY <1>8 DEF CheckLease, AtStage
    <3> QED
      BY <1>1, <1>2, <3>1, <3>2, <3>3 DEF GoesOn, PastConsume, Socket
  <2> QED
    BY <1>8, <2>1, <2>2 DEF CheckLease
<1>9. CASE ReleaseAdmission(s)
  <2>1. sockets' = [sockets EXCEPT ![s].admitted = FALSE]
    BY <1>9 DEF ReleaseAdmission
  <2> QED
    BY <1>1, <1>2, <2>1 DEF GoesOn, PastConsume, Socket
<1>10. CASE Cancel(s)
  <2>1. sockets' = [sockets EXCEPT ![s].cancelled = TRUE]
    BY <1>10 DEF Cancel
  <2> QED
    BY <1>1, <1>2, <2>1 DEF GoesOn, PastConsume, Socket
<1> QED
  BY <1>2, <1>3, <1>4, <1>5, <1>6, <1>7, <1>8, <1>9, <1>10 DEF QuietStep

-----------------------------------------------------------------------------
(* Every step keeps the invariant *)

\* What has been issued still stands, if the step issues nothing.
LEMMA IssuedStands ==
  ASSUME AccessInv, [TerminalNext]_accessVars, UNCHANGED capabilities
  PROVE  StoreInv' /\ CapabilitiesStand'
<1>1. StoreInv /\ [Next]_vars
  BY AccessStepIsStoreStep DEF AccessInv
<1>2. StoreInv' /\ RowsMove
  BY <1>1, EveryStepKeeps, EveryStepMoves
<1>3. ASSUME NEW j \in DOMAIN capabilities
      PROVE  capabilities[j] \in Capability /\ Stands(capabilities[j])'
  BY <1>1, <1>2, <1>3, CapabilityStands DEF AccessInv, CapabilitiesStand
<1> QED
  BY <1>2, <1>3 DEF CapabilitiesStand, Stands, Published

LEMMA QuietStepKeeps ==
  ASSUME AccessInv, [TerminalNext]_accessVars, NEW s \in Sockets, QuietStep(s)
  PROVE  AccessInv'
<1>1. GoesOn(s) /\ leases' = leases
  BY QuietStepGoesOn
<1>2. StoreInv' /\ CapabilitiesStand'
  BY <1>1, IssuedStands DEF GoesOn
<1>3. \A t \in Sockets : /\ sockets'[t].jti = sockets[t].jti
                         /\ PastConsume(t)' => PastConsume(t)
                         /\ sockets[t].stage = "new" => sockets'[t].stage = "new"
  BY <1>1 DEF GoesOn, PastConsume
<1>4. \A t \in Sockets : Holds(t)'
  BY <1>1, <1>3 DEF AccessInv, GoesOn, Holds
<1>5. CapabilitySpentOnce'
  BY <1>1, <1>3 DEF AccessInv, GoesOn, CapabilitySpentOnce
<1> QED
  BY <1>1, <1>2, <1>4, <1>5 DEF AccessInv, GoesOn

\* Consuming is possible once for a capability, so the connection that does it
\* is the only one past its consumption.
LEMMA ConsumeKeeps ==
  ASSUME AccessInv, [TerminalNext]_accessVars, NEW s \in Sockets, Consume(s)
  PROVE  AccessInv'
<1> DEFINE j == sockets[s].jti
<1>1. /\ j \notin used /\ used' = used \cup {j}
      /\ sockets[s].stage = "consume" /\ sockets' = [sockets EXCEPT ![s].stage = "lease"]
      /\ capabilities' = capabilities /\ leases' = leases
  BY DEF Consume, Consumable, AtStage, Becomes
<1>2. sockets \in [Sockets -> Socket]
  BY DEF AccessInv
<1>3. /\ sockets' \in [Sockets -> Socket]
      /\ sockets'[s].stage = "lease"
      /\ \A t \in Sockets : sockets'[t].jti = sockets[t].jti
      /\ \A t \in Sockets : t # s => sockets'[t] = sockets[t]
  BY <1>1, <1>2 DEF Socket, Stages
<1>4. StoreInv' /\ CapabilitiesStand'
  BY <1>1, IssuedStands
<1>5. \A t \in Sockets : t # s => (PastConsume(t)' <=> PastConsume(t))
  BY <1>3 DEF PastConsume
<1>6. \A t \in Sockets : Holds(t)'
  BY <1>1, <1>3, <1>5 DEF AccessInv, Holds
<1>7. \A t \in Sockets : PastConsume(t) => sockets[t].jti # j
  BY <1>1 DEF AccessInv, Holds
<1>8. CapabilitySpentOnce'
  <2>1. ASSUME NEW t \in Sockets, NEW u \in Sockets, PastConsume(t)', PastConsume(u)',
               sockets'[t].jti = sockets'[u].jti
        PROVE  t = u
    BY <1>3, <1>5, <1>7, <2>1 DEF AccessInv, CapabilitySpentOnce
  <2>2. \A x, y \in leases' : x.jti = y.jti => x = y
    BY <1>1 DEF AccessInv, CapabilitySpentOnce
  <2>3. \A x \in leases' : x.jti \in used'
    BY <1>1 DEF AccessInv, CapabilitySpentOnce
  <2> QED
    BY <2>1, <2>2, <2>3 DEF CapabilitySpentOnce
<1> QED
  BY <1>3, <1>4, <1>6, <1>8 DEF AccessInv

\* A second lease for a capability is refused.
LEMMA GrantLeaseKeeps ==
  ASSUME AccessInv, [TerminalNext]_accessVars, NEW s \in Sockets, GrantLease(s)
  PROVE  AccessInv'
<1> DEFINE lease == [jti       |-> sockets[s].jti,
                     session   |-> s,
                     expiresAt |-> LeaseUntil(CapabilityOf(s))]
<1>1. /\ leases' = leases \cup {lease}
      /\ sockets[s].stage = "lease" /\ Becomes(s, "admit")
      /\ UNCHANGED <<capabilities, used>>
  BY DEF GrantLease, AtStage
<1>2. lease.jti = sockets[s].jti /\ lease.jti \in used
  BY DEF GrantLease, Leasable
<1>3. \A x \in leases : x.jti # lease.jti
  BY DEF GrantLease, Leasable
<1> HIDE DEF lease
<1>4. GoesOn(s)
  BY <1>1, BecomesGoesOn DEF AccessInv, Stages, PastConsume
<1>5. StoreInv' /\ CapabilitiesStand'
  BY <1>1, IssuedStands
<1>6. \A t \in Sockets : /\ sockets'[t].jti = sockets[t].jti
                         /\ PastConsume(t)' => PastConsume(t)
                         /\ sockets[t].stage = "new" => sockets'[t].stage = "new"
  BY <1>4 DEF GoesOn, PastConsume
<1>7. \A t \in Sockets : Holds(t)'
  BY <1>4, <1>6 DEF AccessInv, GoesOn, Holds
<1>8. CapabilitySpentOnce'
  BY <1>1, <1>2, <1>3, <1>6 DEF AccessInv, CapabilitySpentOnce
<1> QED
  BY <1>4, <1>5, <1>7, <1>8 DEF AccessInv, GoesOn

LEMMA PresentKeeps ==
  ASSUME AccessInv, [TerminalNext]_accessVars, NEW s \in Sockets, NEW j \in Jtis, Present(s, j)
  PROVE  AccessInv'
<1>1. /\ sockets[s].stage = "new" /\ j \in DOMAIN capabilities
      /\ sockets' = [sockets EXCEPT ![s].stage = "consume", ![s].jti = j]
      /\ UNCHANGED <<capabilities, used, leases>>
  BY DEF Present, AtStage
<1>2. sockets \in [Sockets -> Socket] /\ j \in 0..MaxCapabilities
  BY TerminalAssumption DEF AccessInv, Jtis
<1>3. [sockets[s] EXCEPT !.stage = "consume", !.jti = j] \in Socket
  BY <1>2 DEF Socket, Stages
<1>4. sockets' = [sockets EXCEPT ![s] = [sockets[s] EXCEPT !.stage = "consume", !.jti = j]]
  BY <1>1, <1>2
<1>5. /\ sockets' \in [Sockets -> Socket]
      /\ sockets'[s].stage = "consume" /\ sockets'[s].jti = j
      /\ \A t \in Sockets : t # s => sockets'[t] = sockets[t]
  BY <1>2, <1>3, <1>4 DEF Socket
<1>6. StoreInv' /\ CapabilitiesStand'
  BY <1>1, IssuedStands
<1>7. ~PastConsume(s)' /\ \A t \in Sockets : t # s => (PastConsume(t)' <=> PastConsume(t))
  BY <1>5 DEF PastConsume
<1>8. \A t \in Sockets : Holds(t)'
  BY <1>1, <1>5, <1>7 DEF AccessInv, Holds
<1>9. CapabilitySpentOnce'
  BY <1>1, <1>5, <1>7 DEF AccessInv, CapabilitySpentOnce
<1> QED
  BY <1>5, <1>6, <1>8, <1>9 DEF AccessInv

\* A capability is issued for a published room, over its current sandbox, in
\* its epoch and to end no later than its deadline.
LEMMA IssueKeeps ==
  ASSUME AccessInv, NEW a \in Attempts, NEW read \in 0..clock, Issue(a, read)
  PROVE  AccessInv'
<1> DEFINE row == attempts[a]
           j == Cardinality(DOMAIN capabilities) + 1
           c == [attempt    |-> a,
                 generation |-> row.generation,
                 epoch      |-> row.epoch,
                 expiresAt  |-> Earlier(row.expiresAt, read + Lifetime)]
<1>1. /\ UNCHANGED <<vars, used, leases, sockets>>
      /\ row.state \in {"READY", "RUNNING"}
      /\ capabilities' = [i \in DOMAIN capabilities \cup {j} |->
                            IF i # j THEN capabilities[i] ELSE c]
  BY DEF Issue
<1>2. StoreInv /\ row \in Attempt /\ clock \in Nat
  BY DEF AccessInv, StoreInv, TypeOK
<1>3. row.generation >= 1 /\ row.generation \in Generations
  BY <1>1, <1>2, StoreAssumption DEF StoreInv, RoomInv, AttemptShape, Attempt, Generations
<1>4. /\ Earlier(row.expiresAt, read + Lifetime) \in Nat
      /\ Earlier(row.expiresAt, read + Lifetime) <= row.expiresAt
  BY <1>2, TerminalAssumption DEF Earlier, Attempt
<1>5. c \in Capability
  BY <1>2, <1>3, <1>4 DEF Capability, Attempt
<1>6. Stands(c)
  BY <1>1, <1>2, <1>4 DEF Stands, Published, Attempt
<1>7. /\ DOMAIN capabilities' = DOMAIN capabilities \cup {j}
      /\ \A i \in DOMAIN capabilities' :
           capabilities'[i] = (IF i # j THEN capabilities[i] ELSE c)
  BY <1>1
<1> HIDE DEF c, j
<1>8. \A d : Stands(d)' <=> Stands(d)
  BY <1>1 DEF Stands, Published, vars
<1>9. CapabilitiesStand'
  BY <1>5, <1>6, <1>7, <1>8 DEF AccessInv, CapabilitiesStand
<1>10. StoreInv'
  BY <1>1, <1>2, StutterKeeps DEF vars
<1>11. \A s \in Sockets : Holds(s)'
  BY <1>1, <1>7 DEF AccessInv, Holds, PastConsume
<1>12. CapabilitySpentOnce'
  BY <1>1 DEF AccessInv, CapabilitySpentOnce, PastConsume
<1> QED
  BY <1>1, <1>9, <1>10, <1>11, <1>12 DEF AccessInv

LEMMA EveryAccessStepKeeps ==
  ASSUME AccessInv, [TerminalNext]_accessVars
  PROVE  AccessInv'
<1>1. ASSUME NEW s \in Sockets, QuietStep(s)
      PROVE  AccessInv'
  BY <1>1, QuietStepKeeps
<1>2. ASSUME NEW s \in Sockets, SocketStep(s), ~QuietStep(s)
      PROVE  AccessInv'
  BY <1>2, ConsumeKeeps, GrantLeaseKeeps DEF SocketStep, QuietStep
<1>3. ASSUME NEW s \in Sockets, NEW j \in Jtis, Present(s, j)
      PROVE  AccessInv'
  BY <1>3, PresentKeeps
<1>4. ASSUME NEW a \in Attempts, NEW read \in 0..clock, Issue(a, read)
      PROVE  AccessInv'
  BY <1>4, IssueKeeps
<1>5. CASE UNCHANGED terminalVars
  <2>1. StoreInv' /\ CapabilitiesStand'
    BY <1>5, IssuedStands DEF terminalVars
  <2> QED
    BY <1>5, <2>1 DEF terminalVars, AccessInv, Holds, PastConsume, CapabilitySpentOnce
<1> QED
  BY <1>1, <1>2, <1>3, <1>4, <1>5 DEF TerminalNext, QuietStep, accessVars

THEOREM AccessInvariant == TerminalSpec => []AccessInv
  BY AccessInitHolds, EveryAccessStepKeeps, PTL DEF TerminalSpec

-----------------------------------------------------------------------------
(* What follows *)

\* The connections implement the store: whatever they do, in whatever order, is
\* a sequence of store calls, so all that is proved of the store holds of them.
THEOREM AccessImplementsStore == TerminalSpec => Spec
<1>1. TerminalInit => Init
  BY DEF TerminalInit
<1>2. AccessInv /\ [TerminalNext]_accessVars => [Next]_vars
  BY AccessStepIsStoreStep
<1> QED
  BY <1>1, <1>2, AccessInvariant, PTL DEF TerminalSpec, Spec

\* The session epoch is a sufficient test of authority, for any sequence of
\* leaves, resets, expiries and cleanups between the issue and the test.
THEOREM CurrentEpochAlwaysOffered == TerminalSpec => []CurrentEpochIsOffered
<1>1. AccessInv => CurrentEpochIsOffered
  BY DEF AccessInv, CapabilitiesStand, Stands, CurrentEpochIsOffered
<1> QED
  BY <1>1, AccessInvariant, PTL

\* A capability opens one door once, for any number of sockets that present it.
THEOREM CapabilityAlwaysSpentOnce == TerminalSpec => []CapabilitySpentOnce
<1>1. AccessInv => CapabilitySpentOnce
  BY DEF AccessInv
<1> QED
  BY <1>1, AccessInvariant, PTL

\* The lease a connection obtains rests on a capability of the current epoch,
\* and ends with it and with the deadline of the room.
LEMMA GrantedIsCurrent ==
  ASSUME AccessInv, NEW s \in Sockets, GrantLease(s)
  PROVE  LET c == CapabilityOf(s)
         IN  /\ attempts[c.attempt].epoch = c.epoch
             /\ ~PastDeadline(c.attempt)
             /\ LeaseUntil(c) <= c.expiresAt
             /\ c.expiresAt <= attempts[c.attempt].expiresAt
<1> DEFINE c == CapabilityOf(s)
<1>1. c \in Capability /\ Stands(c)
  BY HeldCapability DEF GrantLease, AtStage
<1>2. attempts[c.attempt].epoch = c.epoch /\ ~PastDeadline(c.attempt)
  BY DEF GrantLease, Leasable, ControlLive, BackendLive
<1>3. attempts[c.attempt] \in Attempt /\ clock \in Nat /\ c.expiresAt \in Nat
  BY <1>1 DEF AccessInv, StoreInv, TypeOK, Capability
<1>4. LeaseUntil(c) <= c.expiresAt
  BY <1>3, TerminalAssumption DEF LeaseUntil, Earlier, Attempt
<1> QED
  BY <1>1, <1>2, <1>4 DEF Stands

\* A lease is granted only in the epoch of its capability, whatever happened
\* to the room since the capability was consumed, and outlives neither.
THEOREM LeasesAlwaysCurrent == TerminalSpec => LeasesAreCurrent
<1>1. ASSUME AccessInv, [TerminalNext]_accessVars
      PROVE  \A x \in leases' \ leases :
               LET c == capabilities[x.jti]
               IN  /\ attempts[c.attempt].epoch = c.epoch
                   /\ ~PastDeadline(c.attempt)
                   /\ x.expiresAt <= c.expiresAt
                   /\ c.expiresAt <= attempts[c.attempt].expiresAt
  <2>1. CASE leases' = leases
    BY <2>1
  <2>2. ASSUME NEW s \in Sockets, GrantLease(s)
        PROVE  \A x \in leases' \ leases :
                 LET c == capabilities[x.jti]
                 IN  /\ attempts[c.attempt].epoch = c.epoch
                     /\ ~PastDeadline(c.attempt)
                     /\ x.expiresAt <= c.expiresAt
                     /\ c.expiresAt <= attempts[c.attempt].expiresAt
    <3>1. \A x \in leases' \ leases :
            capabilities[x.jti] = CapabilityOf(s) /\ x.expiresAt = LeaseUntil(CapabilityOf(s))
      BY <2>2 DEF GrantLease, CapabilityOf
    <3> QED
      BY <1>1, <2>2, <3>1, GrantedIsCurrent
  <2>3. leases' = leases \/ \E s \in Sockets : GrantLease(s)
    <3>1. ASSUME NEW s \in Sockets, QuietStep(s)
          PROVE  leases' = leases
      BY <1>1, <3>1, QuietStepGoesOn
    <3>2. ASSUME NEW s \in Sockets, SocketStep(s), ~QuietStep(s)
          PROVE  leases' = leases \/ GrantLease(s)
      BY <3>2 DEF SocketStep, QuietStep, Consume
    <3>3. CASE UNCHANGED terminalVars
      BY <3>3 DEF terminalVars
    <3>4. ASSUME \/ \E a \in Attempts, read \in 0..clock : Issue(a, read)
                 \/ \E s \in Sockets, j \in Jtis : Present(s, j)
          PROVE  leases' = leases
      BY <3>4 DEF Issue, Present
    <3> QED
      BY <1>1, <3>1, <3>2, <3>3, <3>4 DEF TerminalNext, QuietStep, accessVars
  <2> QED
    BY <2>1, <2>2, <2>3
<1> QED
  BY <1>1, AccessInvariant, PTL DEF LeasesAreCurrent, TerminalSpec

-----------------------------------------------------------------------------
(* The slots *)

\* The connections and the shells that hold a slot of a sandbox.
Admitted(a, g) == {s \in Sockets : Names(s, a, g) /\ sockets[s].admitted}

Shells(a, g) == {s \in Sockets : Names(s, a, g) /\ sockets[s].stage \in {"open", "end"}}

SlotOrder(s) ==
  /\ sockets[s].stage = "new" => sockets[s].jti = 0 /\ ~sockets[s].admitted
  /\ sockets[s].admitted => sockets[s].stage \notin {"consume", "lease", "admit"}

Slots == [Attempts -> [Generations -> Nat]]

SlotsInv ==
  /\ AccessInv
  /\ \A s \in Sockets : SlotOrder(s)
  /\ \E n \in Nat : DOMAIN capabilities = 1..n
  /\ connections \in Slots /\ sessions \in Slots
  /\ SlotsAreHeld

LEMMA SlotsInitHold == TerminalInit => SlotsInv
<1> SUFFICES ASSUME TerminalInit PROVE SlotsInv
  OBVIOUS
<1>1. /\ connections = NoSlots /\ sessions = NoSlots
      /\ sockets = [s \in Sockets |-> NewSocket] /\ capabilities = <<>>
  BY DEF TerminalInit
<1>2. \A s \in Sockets : SlotOrder(s) /\ sockets[s].jti = 0
  BY <1>1 DEF SlotOrder, NewSocket
<1>3. DOMAIN capabilities = 1..0
  BY <1>1
<1>4. connections \in Slots /\ sessions \in Slots
  BY <1>1 DEF Slots, NoSlots
<1>5. \A a, g : Admitted(a, g) = {} /\ Shells(a, g) = {}
  BY <1>2 DEF Admitted, Shells, Names
<1>6. \A a \in Attempts, g \in Generations : connections[a][g] = 0 /\ sessions[a][g] = 0
  BY <1>1 DEF NoSlots
<1>7. SlotsAreHeld
  <2>1. 0 <= ConnectionLimit /\ 0 <= SessionLimit
    BY TerminalAssumption
  <2> QED
    BY <1>5, <1>6, <2>1, FS_EmptySet DEF SlotsAreHeld, Admitted, Shells
<1> QED
  BY <1>2, <1>3, <1>4, <1>7, AccessInitHolds DEF SlotsInv

LEMMA HoldersAreFinite ==
  ASSUME NEW a, NEW g
  PROVE  /\ IsFiniteSet(Admitted(a, g)) /\ Cardinality(Admitted(a, g)) \in Nat
         /\ IsFiniteSet(Shells(a, g)) /\ Cardinality(Shells(a, g)) \in Nat
BY TerminalAssumption, FS_Subset, FS_CardinalityType DEF Admitted, Shells

\* One connection goes on; what the others hold stays.
Alone(s) ==
  /\ capabilities' = capabilities
  /\ \A t \in Sockets : t # s => sockets'[t] = sockets[t]
  /\ sockets'[s].jti = sockets[s].jti
  /\ SlotOrder(s)'

LEMMA HoldersOfOthersStay ==
  ASSUME NEW s \in Sockets, Alone(s), NEW a, NEW g
  PROVE  /\ Admitted(a, g)' = IF Names(s, a, g) /\ sockets'[s].admitted
                              THEN Admitted(a, g) \cup {s}
                              ELSE Admitted(a, g) \ {s}
         /\ Shells(a, g)' = IF Names(s, a, g) /\ sockets'[s].stage \in {"open", "end"}
                            THEN Shells(a, g) \cup {s}
                            ELSE Shells(a, g) \ {s}
<1>1. \A t \in Sockets : Names(t, a, g)' <=> Names(t, a, g)
  BY DEF Alone, Names, CapabilityOf
<1> QED
  BY <1>1 DEF Alone, Admitted, Shells

\* The counters stay true when each moves with the connection that goes on.
Counts(s) ==
  \A a \in Attempts, g \in Generations :
    /\ connections'[a][g] = connections[a][g] +
         (IF ~Names(s, a, g) \/ sockets'[s].admitted = sockets[s].admitted THEN 0
          ELSE IF sockets'[s].admitted THEN 1 ELSE -1)
    /\ sessions'[a][g] = sessions[a][g] +
         (IF \/ ~Names(s, a, g)
             \/ sockets'[s].stage \in {"open", "end"} <=> sockets[s].stage \in {"open", "end"}
          THEN 0
          ELSE IF sockets'[s].stage \in {"open", "end"} THEN 1 ELSE -1)
    /\ connections'[a][g] <= ConnectionLimit
    /\ sessions'[a][g] <= SessionLimit

LEMMA CountedSlotsAreHeld ==
  ASSUME SlotsInv, AccessInv', NEW s \in Sockets, Alone(s), Counts(s),
         connections' \in [Attempts -> [Generations -> Int]],
         sessions' \in [Attempts -> [Generations -> Int]]
  PROVE  SlotsInv'
<1>1. ASSUME NEW a \in Attempts, NEW g \in Generations
      PROVE  /\ connections'[a][g] = Cardinality(Admitted(a, g)')
             /\ sessions'[a][g] = Cardinality(Shells(a, g)')
             /\ connections'[a][g] \in Nat /\ sessions'[a][g] \in Nat
  <2>1. /\ connections[a][g] = Cardinality(Admitted(a, g))
        /\ sessions[a][g] = Cardinality(Shells(a, g))
    BY DEF SlotsInv, SlotsAreHeld, Admitted, Shells
  <2>2. sockets[s].admitted \in BOOLEAN /\ sockets'[s].admitted \in BOOLEAN
    BY DEF SlotsInv, AccessInv, Socket
  <2>3. /\ s \in Admitted(a, g) <=> Names(s, a, g) /\ sockets[s].admitted
        /\ s \in Shells(a, g) <=> Names(s, a, g) /\ sockets[s].stage \in {"open", "end"}
    BY DEF Admitted, Shells
  <2>4. /\ IsFiniteSet(Admitted(a, g)) /\ IsFiniteSet(Shells(a, g))
        /\ Cardinality(Admitted(a, g)) \in Nat /\ Cardinality(Shells(a, g)) \in Nat
    BY HoldersAreFinite
  <2> DEFINE A == Admitted(a, g)
             B == Shells(a, g)
             named == Names(s, a, g)
             inside == sockets'[s].stage \in {"open", "end"}
  <2>5. /\ Admitted(a, g)' = IF named /\ sockets'[s].admitted THEN A \cup {s} ELSE A \ {s}
        /\ Shells(a, g)' = IF named /\ inside THEN B \cup {s} ELSE B \ {s}
    BY HoldersOfOthersStay
  <2>6. /\ IsFiniteSet(A \cup {s})
        /\ Cardinality(A \cup {s}) = IF s \in A THEN Cardinality(A) ELSE Cardinality(A) + 1
        /\ IsFiniteSet(B \cup {s})
        /\ Cardinality(B \cup {s}) = IF s \in B THEN Cardinality(B) ELSE Cardinality(B) + 1
    BY <2>4, FS_AddElement
  <2>7. /\ IsFiniteSet(A \ {s})
        /\ Cardinality(A \ {s}) = IF s \in A THEN Cardinality(A) - 1 ELSE Cardinality(A)
        /\ IsFiniteSet(B \ {s})
        /\ Cardinality(B \ {s}) = IF s \in B THEN Cardinality(B) - 1 ELSE Cardinality(B)
    BY <2>4, FS_RemoveElement
  <2> HIDE DEF A, B, named, inside
  <2>8. connections'[a][g] = Cardinality(Admitted(a, g)')
    <3>1. connections'[a][g] = Cardinality(A) +
            (IF ~named \/ sockets'[s].admitted = sockets[s].admitted THEN 0
             ELSE IF sockets'[s].admitted THEN 1 ELSE -1)
      BY <2>1 DEF Counts, A, named
    <3>2. /\ s \in A <=> named /\ sockets[s].admitted
          /\ Cardinality(A) \in Nat
      BY <2>3, <2>4 DEF A, named
    <3> QED
      BY <2>2, <2>5, <2>6, <2>7, <3>1, <3>2
  <2>9. sessions'[a][g] = Cardinality(Shells(a, g)')
    <3>1. sessions'[a][g] = Cardinality(B) +
            (IF ~named \/ (inside <=> sockets[s].stage \in {"open", "end"}) THEN 0
             ELSE IF inside THEN 1 ELSE -1)
      BY <2>1 DEF Counts, B, named, inside
    <3>2. /\ s \in B <=> named /\ sockets[s].stage \in {"open", "end"}
          /\ Cardinality(B) \in Nat
      BY <2>3, <2>4 DEF B, named
    <3> QED
      BY <2>5, <2>6, <2>7, <3>1, <3>2
  <2>10. IsFiniteSet(Admitted(a, g)') /\ IsFiniteSet(Shells(a, g)')
    BY <2>5, <2>6, <2>7
  <2> QED
    BY <2>8, <2>9, <2>10, FS_CardinalityType
<1>2. connections' \in Slots /\ sessions' \in Slots
  BY <1>1 DEF Slots
<1>3. SlotsAreHeld'
  BY <1>1 DEF SlotsAreHeld, Counts, Admitted, Shells
<1>4. \A t \in Sockets : SlotOrder(t)'
  BY DEF Alone, SlotsInv, SlotOrder
<1>5. \E n \in Nat : DOMAIN capabilities' = 1..n
  BY DEF Alone, SlotsInv
<1> QED
  BY <1>2, <1>3, <1>4, <1>5 DEF SlotsInv, Slots

SlotVars == <<connections, sessions>>

\* A step that takes and returns no slot keeps the counters.
LEMMA UncountedStepCounts ==
  ASSUME SlotsInv, NEW s \in Sockets, UNCHANGED SlotVars,
         sockets'[s].admitted = sockets[s].admitted,
         sockets'[s].stage \in {"open", "end"} <=> sockets[s].stage \in {"open", "end"}
  PROVE  /\ Counts(s)
         /\ connections' \in [Attempts -> [Generations -> Int]]
         /\ sessions' \in [Attempts -> [Generations -> Int]]
<1>1. connections \in Slots /\ sessions \in Slots
  BY DEF SlotsInv
<1>2. /\ connections \in [Attempts -> [Generations -> Int]]
      /\ sessions \in [Attempts -> [Generations -> Int]]
  BY <1>1 DEF Slots
<1>3. connections' = connections /\ sessions' = sessions
  BY DEF SlotVars
<1>4. \A a \in Attempts, g \in Generations :
        /\ connections[a][g] \in Nat /\ connections[a][g] <= ConnectionLimit
        /\ sessions[a][g] \in Nat /\ sessions[a][g] <= SessionLimit
  BY <1>1 DEF Slots, SlotsInv, SlotsAreHeld
<1> QED
  BY <1>2, <1>3, <1>4 DEF Counts

UncountedStep(s) ==
  \/ Consume(s)    \/ ConsumeDenied(s)
  \/ GrantLease(s) \/ LeaseDenied(s)
  \/ NotAdmitted(s)
  \/ CheckLease(s)
  \/ InspectSandbox(s)
  \/ AcquireSession(s) /\ UNCHANGED sessions
  \/ OpenShell(s)
  \/ Cancel(s)

LEMMA UncountedStepKeeps ==
  ASSUME SlotsInv, AccessInv', NEW s \in Sockets, UncountedStep(s)
  PROVE  SlotsInv'
<1>1. UNCHANGED <<capabilities, SlotVars>>
  BY DEF UncountedStep, Consume, ConsumeDenied, GrantLease, LeaseDenied, NotAdmitted, CheckLease,
    InspectSandbox, AcquireSession, OpenShell, Cancel, SlotVars
<1>2. sockets \in [Sockets -> Socket]
  BY DEF SlotsInv, AccessInv
<1>3. /\ \A t \in Sockets : t # s => sockets'[t] = sockets[t]
      /\ sockets'[s].jti = sockets[s].jti
      /\ sockets'[s].admitted = sockets[s].admitted
      /\ sockets'[s].stage \in {"open", "end"} <=> sockets[s].stage \in {"open", "end"}
      /\ sockets[s].admitted => sockets'[s].stage \notin {"consume", "lease", "admit"}
      /\ sockets'[s].stage # "new"
  <2>1. CASE CheckLease(s)
    BY <1>2, <2>1 DEF SlotsInv, SlotOrder, CheckLease, AtStage, Becomes, Socket
  <2>2. CASE Cancel(s)
    BY <1>2, <2>2 DEF SlotsInv, SlotOrder, Cancel, Socket
  <2>3. CASE Consume(s) \/ ConsumeDenied(s) \/ GrantLease(s) \/ LeaseDenied(s)
    BY <1>2, <2>3 DEF SlotsInv, SlotOrder, Consume, ConsumeDenied, GrantLease, LeaseDenied,
      AtStage, Becomes, Socket
  <2>4. CASE NotAdmitted(s) \/ InspectSandbox(s) \/ OpenShell(s)
    BY <1>2, <2>4 DEF SlotsInv, SlotOrder, NotAdmitted, InspectSandbox, OpenShell,
      AtStage, Becomes, Socket
  <2>5. CASE AcquireSession(s) /\ UNCHANGED sessions
    <3>1. sockets[s].stage = "acquire" /\ (Becomes(s, "over") \/ sessions' # sessions)
      <4>1. ASSUME sessions' = TakeSlot(sessions, CapabilityOf(s).attempt, CapabilityOf(s).generation)
            PROVE  sessions' # sessions
        <5>1. CapabilityOf(s).attempt \in Attempts /\ CapabilityOf(s).generation \in Generations
          BY <2>5, HeldCapability DEF SlotsInv, AcquireSession, AtStage, Capability
        <5> QED
          BY <4>1, <5>1 DEF TakeSlot, SlotsInv, Slots
      <4> QED
        BY <2>5, <4>1 DEF AcquireSession, AtStage
    <3> QED
      BY <1>2, <2>5, <3>1 DEF SlotsInv, SlotOrder, Becomes, Socket
  <2> QED
    BY <2>1, <2>2, <2>3, <2>4, <2>5 DEF UncountedStep
<1>4. Alone(s)
  BY <1>1, <1>3 DEF Alone, SlotOrder, SlotsInv
<1> QED
  BY <1>1, <1>3, <1>4, UncountedStepCounts, CountedSlotsAreHeld

\* The steps that take a slot or return it.
LEMMA SlotOfCapability ==
  ASSUME SlotsInv, NEW s \in Sockets, sockets[s].stage # "new" \/ sockets[s].admitted
  PROVE  /\ CapabilityOf(s).attempt \in Attempts
         /\ CapabilityOf(s).generation \in Generations
         /\ \A a, g : Names(s, a, g) <=> /\ a = CapabilityOf(s).attempt
                                         /\ g = CapabilityOf(s).generation
<1>1. sockets[s].stage # "new"
  BY DEF SlotsInv, SlotOrder
<1>2. sockets[s].jti \in DOMAIN capabilities /\ CapabilityOf(s) \in Capability
  BY <1>1, HeldCapability DEF SlotsInv
<1>3. sockets[s].jti # 0
  BY <1>2 DEF SlotsInv
<1> QED
  BY <1>2, <1>3 DEF Names, Capability

LEMMA AdmitKeeps ==
  ASSUME SlotsInv, AccessInv', NEW s \in Sockets, Admit(s)
  PROVE  SlotsInv'
<1> DEFINE b == CapabilityOf(s).attempt
           h == CapabilityOf(s).generation
<1>1. /\ sockets[s].stage = "admit"
      /\ connections[b][h] < ConnectionLimit
      /\ connections' = [connections EXCEPT ![b][h] = @ + 1]
      /\ sockets' = [sockets EXCEPT ![s].stage = "check", ![s].admitted = TRUE]
      /\ UNCHANGED <<capabilities, sessions>>
  BY DEF Admit, AtStage, TakeSlot
<1>2. /\ b \in Attempts /\ h \in Generations
      /\ \A a, g : Names(s, a, g) <=> a = b /\ g = h
  BY <1>1, SlotOfCapability
<1> HIDE DEF b, h
<1>3. sockets \in [Sockets -> Socket] /\ connections \in Slots /\ sessions \in Slots
  BY DEF SlotsInv, AccessInv
<1>4. /\ \A t \in Sockets : t # s => sockets'[t] = sockets[t]
      /\ sockets'[s].jti = sockets[s].jti
      /\ sockets'[s].admitted = TRUE /\ sockets'[s].stage = "check"
  BY <1>1, <1>3 DEF Socket
<1>5. sockets[s].admitted = FALSE
  BY <1>1, <1>3 DEF SlotsInv, SlotOrder, Socket
<1>6. Alone(s)
  BY <1>1, <1>4 DEF Alone, SlotOrder
<1>7. \A a \in Attempts, g \in Generations :
        connections'[a][g] = IF a = b /\ g = h THEN connections[a][g] + 1 ELSE connections[a][g]
  BY <1>1, <1>2, <1>3 DEF Slots
<1>8. /\ connections' \in [Attempts -> [Generations -> Int]]
      /\ sessions' \in [Attempts -> [Generations -> Int]]
  BY <1>1, <1>2, <1>3 DEF Slots
<1>9. \A a \in Attempts, g \in Generations :
        /\ connections[a][g] \in Nat /\ connections[a][g] <= ConnectionLimit
        /\ sessions[a][g] \in Nat /\ sessions[a][g] <= SessionLimit
        /\ sessions'[a][g] = sessions[a][g]
  BY <1>1, <1>3 DEF Slots, SlotsInv, SlotsAreHeld
<1>10. ConnectionLimit \in Nat
  BY TerminalAssumption
<1>11. Counts(s)
  <2>1. connections'[b][h] <= ConnectionLimit
    BY <1>1, <1>2, <1>7, <1>9, <1>10
  <2>2. sockets'[s].stage \in {"open", "end"} <=> sockets[s].stage \in {"open", "end"}
    BY <1>1, <1>4
  <2>3. \A a \in Attempts, g \in Generations :
          connections'[a][g] = connections[a][g] + (IF ~Names(s, a, g) THEN 0 ELSE 1)
    BY <1>2, <1>7, <1>9
  <2>4. \A a \in Attempts, g \in Generations : connections'[a][g] <= ConnectionLimit
    BY <1>7, <1>9, <2>1
  <2> QED
    BY <1>4, <1>5, <1>9, <2>2, <2>3, <2>4 DEF Counts
<1> QED
  BY <1>6, <1>8, <1>11, CountedSlotsAreHeld

LEMMA ReleaseAdmissionKeeps ==
  ASSUME SlotsInv, AccessInv', NEW s \in Sockets, ReleaseAdmission(s)
  PROVE  SlotsInv'
<1> DEFINE b == CapabilityOf(s).attempt
           h == CapabilityOf(s).generation
<1>1. /\ sockets[s].admitted
      /\ connections' = [connections EXCEPT ![b][h] = @ - 1]
      /\ sockets' = [sockets EXCEPT ![s].admitted = FALSE]
      /\ UNCHANGED <<capabilities, sessions>>
  BY DEF ReleaseAdmission, ReturnSlot
<1>2. /\ b \in Attempts /\ h \in Generations
      /\ \A a, g : Names(s, a, g) <=> a = b /\ g = h
  BY <1>1, SlotOfCapability
<1> HIDE DEF b, h
<1>3. sockets \in [Sockets -> Socket] /\ connections \in Slots /\ sessions \in Slots
  BY DEF SlotsInv, AccessInv
<1>4. /\ \A t \in Sockets : t # s => sockets'[t] = sockets[t]
      /\ sockets'[s].jti = sockets[s].jti /\ sockets'[s].stage = sockets[s].stage
      /\ sockets'[s].admitted = FALSE /\ sockets[s].admitted = TRUE
  BY <1>1, <1>3 DEF Socket
<1>5. Alone(s)
  BY <1>1, <1>4 DEF Alone, SlotOrder, SlotsInv
<1>6. \A a \in Attempts, g \in Generations :
        connections'[a][g] = IF a = b /\ g = h THEN connections[a][g] - 1 ELSE connections[a][g]
  BY <1>1, <1>2, <1>3 DEF Slots
<1>7. /\ connections' \in [Attempts -> [Generations -> Int]]
      /\ sessions' \in [Attempts -> [Generations -> Int]]
  BY <1>1, <1>2, <1>3 DEF Slots
<1>8. \A a \in Attempts, g \in Generations :
        /\ connections[a][g] \in Nat /\ connections[a][g] <= ConnectionLimit
        /\ sessions[a][g] \in Nat /\ sessions[a][g] <= SessionLimit
        /\ sessions'[a][g] = sessions[a][g]
  BY <1>1, <1>3 DEF Slots, SlotsInv, SlotsAreHeld
<1>9. ConnectionLimit \in Nat
  BY TerminalAssumption
<1>10. Counts(s)
  BY <1>2, <1>4, <1>6, <1>8, <1>9 DEF Counts
<1> QED
  BY <1>5, <1>7, <1>10, CountedSlotsAreHeld

LEMMA AcquireSessionKeeps ==
  ASSUME SlotsInv, AccessInv', NEW s \in Sockets, AcquireSession(s), sessions' # sessions
  PROVE  SlotsInv'
<1> DEFINE b == CapabilityOf(s).attempt
           h == CapabilityOf(s).generation
<1>1. /\ sockets[s].stage = "acquire"
      /\ sessions[b][h] < SessionLimit
      /\ sessions' = [sessions EXCEPT ![b][h] = @ + 1]
      /\ sockets' = [sockets EXCEPT ![s].stage = "open"]
      /\ UNCHANGED <<capabilities, connections>>
  BY DEF AcquireSession, RoomForSession, AtStage, Becomes, TakeSlot
<1>2. /\ b \in Attempts /\ h \in Generations
      /\ \A a, g : Names(s, a, g) <=> a = b /\ g = h
  BY <1>1, SlotOfCapability
<1> HIDE DEF b, h
<1>3. sockets \in [Sockets -> Socket] /\ connections \in Slots /\ sessions \in Slots
  BY DEF SlotsInv, AccessInv
<1>4. /\ \A t \in Sockets : t # s => sockets'[t] = sockets[t]
      /\ sockets'[s].jti = sockets[s].jti /\ sockets'[s].admitted = sockets[s].admitted
      /\ sockets'[s].stage = "open"
  BY <1>1, <1>3 DEF Socket
<1>5. Alone(s)
  BY <1>1, <1>4 DEF Alone, SlotOrder
<1>6. \A a \in Attempts, g \in Generations :
        sessions'[a][g] = IF a = b /\ g = h THEN sessions[a][g] + 1 ELSE sessions[a][g]
  BY <1>1, <1>2, <1>3 DEF Slots
<1>7. /\ connections' \in [Attempts -> [Generations -> Int]]
      /\ sessions' \in [Attempts -> [Generations -> Int]]
  BY <1>1, <1>2, <1>3 DEF Slots
<1>8. \A a \in Attempts, g \in Generations :
        /\ connections[a][g] \in Nat /\ connections[a][g] <= ConnectionLimit
        /\ sessions[a][g] \in Nat /\ sessions[a][g] <= SessionLimit
        /\ connections'[a][g] = connections[a][g]
  BY <1>1, <1>3 DEF Slots, SlotsInv, SlotsAreHeld
<1>9. SessionLimit \in Nat
  BY TerminalAssumption
<1>10. Counts(s)
  <2>1. sessions'[b][h] <= SessionLimit
    BY <1>1, <1>2, <1>6, <1>8, <1>9
  <2>2. \A a \in Attempts, g \in Generations : sessions'[a][g] <= SessionLimit
    BY <1>6, <1>8, <2>1
  <2>3. ~(sockets[s].stage \in {"open", "end"}) /\ sockets'[s].stage \in {"open", "end"}
    BY <1>1, <1>4
  <2>4. \A a \in Attempts, g \in Generations :
          sessions'[a][g] = sessions[a][g] + (IF ~Names(s, a, g) THEN 0 ELSE 1)
    BY <1>2, <1>6, <1>8
  <2> QED
    BY <1>4, <1>8, <2>2, <2>3, <2>4 DEF Counts
<1> QED
  BY <1>5, <1>7, <1>10, CountedSlotsAreHeld

\* However a shell ends, or does not open, its slot comes back.
LEMMA ShellEndsKeeps ==
  ASSUME SlotsInv, AccessInv', NEW s \in Sockets, OpenFails(s) \/ CloseSession(s)
  PROVE  SlotsInv'
<1> DEFINE b == CapabilityOf(s).attempt
           h == CapabilityOf(s).generation
<1>1. /\ sockets[s].stage \in {"open", "end"}
      /\ sessions' = [sessions EXCEPT ![b][h] = @ - 1]
      /\ sockets' = [sockets EXCEPT ![s].stage = "over"]
      /\ UNCHANGED <<capabilities, connections>>
  BY DEF OpenFails, CloseSession, AtStage, Becomes, ReturnSlot
<1>2. /\ b \in Attempts /\ h \in Generations
      /\ \A a, g : Names(s, a, g) <=> a = b /\ g = h
  BY <1>1, SlotOfCapability
<1> HIDE DEF b, h
<1>3. sockets \in [Sockets -> Socket] /\ connections \in Slots /\ sessions \in Slots
  BY DEF SlotsInv, AccessInv
<1>4. /\ \A t \in Sockets : t # s => sockets'[t] = sockets[t]
      /\ sockets'[s].jti = sockets[s].jti /\ sockets'[s].admitted = sockets[s].admitted
      /\ sockets'[s].stage = "over"
  BY <1>1, <1>3 DEF Socket
<1>5. Alone(s)
  BY <1>1, <1>4 DEF Alone, SlotOrder
<1>6. \A a \in Attempts, g \in Generations :
        sessions'[a][g] = IF a = b /\ g = h THEN sessions[a][g] - 1 ELSE sessions[a][g]
  BY <1>1, <1>2, <1>3 DEF Slots
<1>7. /\ connections' \in [Attempts -> [Generations -> Int]]
      /\ sessions' \in [Attempts -> [Generations -> Int]]
  BY <1>1, <1>2, <1>3 DEF Slots
<1>8. \A a \in Attempts, g \in Generations :
        /\ connections[a][g] \in Nat /\ connections[a][g] <= ConnectionLimit
        /\ sessions[a][g] \in Nat /\ sessions[a][g] <= SessionLimit
        /\ connections'[a][g] = connections[a][g]
  BY <1>1, <1>3 DEF Slots, SlotsInv, SlotsAreHeld
<1>9. SessionLimit \in Nat
  BY TerminalAssumption
<1>10. Counts(s)
  <2>1. \A a \in Attempts, g \in Generations : sessions'[a][g] <= SessionLimit
    BY <1>6, <1>8, <1>9
  <2>2. ~(sockets'[s].stage \in {"open", "end"})
    BY <1>4
  <2>3. \A a \in Attempts, g \in Generations :
          sessions'[a][g] = sessions[a][g] + (IF ~Names(s, a, g) THEN 0 ELSE -1)
    BY <1>2, <1>6, <1>8
  <2> QED
    BY <1>1, <1>4, <1>8, <2>1, <2>2, <2>3 DEF Counts
<1> QED
  BY <1>5, <1>7, <1>10, CountedSlotsAreHeld

\* Presenting and issuing a capability touch no slot.
LEMMA UntouchedSlots ==
  ASSUME SlotsInv, AccessInv', UNCHANGED SlotVars,
         \A a \in Attempts, g \in Generations : /\ Admitted(a, g)' = Admitted(a, g)
                                               /\ Shells(a, g)' = Shells(a, g),
         \A s \in Sockets : SlotOrder(s)',
         \E n \in Nat : DOMAIN capabilities' = 1..n
  PROVE  SlotsInv'
<1>1. SlotsAreHeld'
  <2>1. \A a \in Attempts, g \in Generations :
          /\ connections[a][g] = Cardinality(Admitted(a, g))
          /\ sessions[a][g] = Cardinality(Shells(a, g))
          /\ connections[a][g] <= ConnectionLimit /\ sessions[a][g] <= SessionLimit
    BY DEF SlotsInv, SlotsAreHeld, Admitted, Shells
  <2>2. connections' = connections /\ sessions' = sessions
    BY DEF SlotVars
  <2>3. \A a \in Attempts, g \in Generations :
          /\ connections'[a][g] = Cardinality(Admitted(a, g)')
          /\ sessions'[a][g] = Cardinality(Shells(a, g)')
          /\ connections'[a][g] <= ConnectionLimit /\ sessions'[a][g] <= SessionLimit
    BY <2>1, <2>2
  <2> QED
    BY <2>3 DEF SlotsAreHeld, Admitted, Shells
<1> QED
  BY <1>1 DEF SlotVars, SlotsInv, Slots

LEMMA PresentKeepsSlots ==
  ASSUME SlotsInv, AccessInv', NEW s \in Sockets, NEW j \in Jtis, Present(s, j)
  PROVE  SlotsInv'
<1>1. /\ sockets[s].stage = "new"
      /\ sockets' = [sockets EXCEPT ![s].stage = "consume", ![s].jti = j]
      /\ UNCHANGED <<capabilities, SlotVars>>
  BY DEF Present, AtStage, SlotVars
<1>2. sockets \in [Sockets -> Socket]
  BY DEF SlotsInv, AccessInv
<1>3. /\ \A t \in Sockets : t # s => sockets'[t] = sockets[t]
      /\ sockets'[s].admitted = sockets[s].admitted /\ sockets'[s].stage = "consume"
  BY <1>1, <1>2 DEF Socket
<1>4. ~sockets[s].admitted
  BY <1>1 DEF SlotsInv, SlotOrder
<1>5. \A t \in Sockets : t # s => \A a, g : (Names(t, a, g)' <=> Names(t, a, g))
  BY <1>1, <1>3 DEF Names, CapabilityOf
<1>6. \A a, g : Admitted(a, g)' = Admitted(a, g) /\ Shells(a, g)' = Shells(a, g)
  BY <1>1, <1>3, <1>4, <1>5 DEF Admitted, Shells
<1>7. \A t \in Sockets : SlotOrder(t)'
  BY <1>3, <1>4 DEF SlotsInv, SlotOrder
<1>8. \E n \in Nat : DOMAIN capabilities' = 1..n
  BY <1>1 DEF SlotsInv
<1> QED
  BY <1>1, <1>6, <1>7, <1>8, UntouchedSlots

LEMMA IssueKeepsSlots ==
  ASSUME SlotsInv, AccessInv', NEW a \in Attempts, NEW read \in 0..clock, Issue(a, read)
  PROVE  SlotsInv'
<1>1. PICK n \in Nat : DOMAIN capabilities = 1..n
  BY DEF SlotsInv
<1>2. Cardinality(DOMAIN capabilities) + 1 = n + 1
  <2>1. Cardinality(1..n) = IF 1 > n THEN 0 ELSE n - 1 + 1
    BY FS_Interval
  <2> QED
    BY <1>1, <2>1
<1>3. /\ UNCHANGED <<sockets, SlotVars>>
      /\ DOMAIN capabilities' = DOMAIN capabilities \cup {n + 1}
      /\ \A i \in DOMAIN capabilities : capabilities'[i] = capabilities[i]
  BY <1>1, <1>2 DEF Issue, SlotVars
<1>4. DOMAIN capabilities' = 1..(n + 1)
  BY <1>1, <1>3
<1>5. \A s \in Sockets : sockets[s].jti # 0 => sockets[s].jti \in DOMAIN capabilities
  BY DEF SlotsInv, SlotOrder, AccessInv, Holds
<1>6. \A s \in Sockets : \A b, h : Names(s, b, h)' <=> Names(s, b, h)
  BY <1>3, <1>5 DEF Names, CapabilityOf
<1>7. \A b, h : Admitted(b, h)' = Admitted(b, h) /\ Shells(b, h)' = Shells(b, h)
  BY <1>3, <1>6 DEF Admitted, Shells
<1>8. \A s \in Sockets : SlotOrder(s)'
  BY <1>3 DEF SlotsInv, SlotOrder
<1> QED
  BY <1>3, <1>4, <1>7, <1>8, UntouchedSlots

LEMMA EveryAccessStepKeepsSlots ==
  ASSUME SlotsInv, [TerminalNext]_accessVars
  PROVE  SlotsInv'
<1>1. AccessInv'
  BY EveryAccessStepKeeps DEF SlotsInv
<1>2. ASSUME NEW s \in Sockets, SocketStep(s) \/ Cancel(s)
      PROVE  SlotsInv'
  <2>1. \/ UncountedStep(s)
        \/ Admit(s) \/ ReleaseAdmission(s)
        \/ AcquireSession(s) /\ sessions' # sessions
        \/ OpenFails(s) \/ CloseSession(s)
    BY <1>2 DEF SocketStep, UncountedStep
  <2> QED
    BY <1>1, <2>1, UncountedStepKeeps, AdmitKeeps, ReleaseAdmissionKeeps, AcquireSessionKeeps,
      ShellEndsKeeps
<1>3. ASSUME NEW s \in Sockets, NEW j \in Jtis, Present(s, j)
      PROVE  SlotsInv'
  BY <1>1, <1>3, PresentKeepsSlots
<1>4. ASSUME NEW a \in Attempts, NEW read \in 0..clock, Issue(a, read)
      PROVE  SlotsInv'
  BY <1>1, <1>4, IssueKeepsSlots
<1>5. CASE UNCHANGED terminalVars
  <2>1. UNCHANGED <<capabilities, sockets, SlotVars>>
    BY <1>5 DEF terminalVars, SlotVars
  <2>2. \A a, g : Admitted(a, g)' = Admitted(a, g) /\ Shells(a, g)' = Shells(a, g)
    BY <2>1 DEF Admitted, Shells, Names, CapabilityOf
  <2>3. \A s \in Sockets : SlotOrder(s)'
    BY <2>1 DEF SlotsInv, SlotOrder
  <2>4. \E n \in Nat : DOMAIN capabilities' = 1..n
    BY <2>1 DEF SlotsInv
  <2> QED
    BY <1>1, <2>1, <2>2, <2>3, <2>4, UntouchedSlots
<1> QED
  BY <1>2, <1>3, <1>4, <1>5 DEF TerminalNext, accessVars, terminalVars

\* The counters in memory never drift from the connections and shells there
\* are, however many sockets there are and whichever way each of them ends.
THEOREM SlotsAlwaysHeld == TerminalSpec => []SlotsAreHeld
<1>1. SlotsInv => SlotsAreHeld
  BY DEF SlotsInv
<1>2. TerminalSpec => []SlotsInv
  BY SlotsInitHold, EveryAccessStepKeepsSlots, PTL DEF TerminalSpec
<1> QED
  BY <1>1, <1>2, PTL

-----------------------------------------------------------------------------
(* The relay of one open shell *)

\* What the records of the session and of the answers are.
RelayRecords ==
  /\ output \in [written : Nat, read : Nat, sent : Nat]
  /\ session \in [closed : BOOLEAN, ended : BOOLEAN, expired : BOOLEAN]
  /\ answer \in [main : CloseCodes, relay : CloseCodes]

\* What told a task, or will tell the client, that the shell ended is true.
EndIsTold ==
  session.ended \/ answer.main = 4410 \/ answer.relay = 4410 \/ code = 4410
    => client = "exited"

CallIsBeforeClose == current # "none" => ~session.closed

RelayInv == RelayRecords /\ EndIsTold /\ CallIsBeforeClose

-----------------------------------------------------------------------------
(* The operations of the PTY session *)

\* A session may be ended by a call that is over when it has, with the truth
\* about its shell.
LEMMA EndSessionKeeps ==
  ASSUME RelayInv, NEW ended \in BOOLEAN, EndSession(ended),
         ended => client = "exited"
  PROVE  /\ session' \in [closed : BOOLEAN, ended : BOOLEAN, expired : BOOLEAN]
         /\ session'.ended = ended
         /\ client = "exited" => client' = "exited"
BY DEF RelayInv, RelayRecords, EndSession, Terminated

\* An answer reaches one task and leaves the other's alone.
LEMMA AnswerToKeeps ==
  ASSUME RelayInv, NEW call, NEW error \in CloseCodes, AnswerTo(call, error)
  PROVE  /\ answer' \in [main : CloseCodes, relay : CloseCodes]
         /\ answer'.main \in {answer.main, error}
         /\ answer'.relay \in {answer.relay, error}
BY DEF RelayInv, RelayRecords, AnswerTo

\* _fail ends the session and tells its task why.
LEMMA FailKeeps ==
  ASSUME RelayInv, NEW call, Fail(call), current' = "none",
         output' \in [written : Nat, read : Nat, sent : Nat], UNCHANGED code
  PROVE  RelayInv'
<1> DEFINE exited == client = "exited"
<1>1. EndSession(exited) /\ AnswerTo(call, Ended(exited))
  BY DEF Fail
<1>2. Ended(exited) \in CloseCodes /\ (Ended(exited) = 4410 => client = "exited")
  BY DEF Ended, CloseCodes
<1>3. /\ session' \in [closed : BOOLEAN, ended : BOOLEAN, expired : BOOLEAN]
      /\ session'.ended = exited
      /\ client = "exited" => client' = "exited"
  BY <1>1, EndSessionKeeps
<1>4. /\ answer' \in [main : CloseCodes, relay : CloseCodes]
      /\ answer'.main \in {answer.main, Ended(exited)}
      /\ answer'.relay \in {answer.relay, Ended(exited)}
  BY <1>1, <1>2, AnswerToKeeps
<1>5. RelayRecords'
  BY <1>3, <1>4 DEF RelayRecords
<1>6. EndIsTold'
  BY <1>2, <1>3, <1>4 DEF RelayInv, EndIsTold
<1>7. CallIsBeforeClose'
  BY DEF CallIsBeforeClose
<1> QED
  BY <1>5, <1>6, <1>7 DEF RelayInv

\* The session ends itself, and its task is told of a failure.
LEMMA EndsItself ==
  ASSUME RelayInv, NEW call, EndSession(FALSE), AnswerTo(call, 1011),
         current' = "none", UNCHANGED <<output, code>>
  PROVE  RelayInv'
<1>1. /\ session' \in [closed : BOOLEAN, ended : BOOLEAN, expired : BOOLEAN]
      /\ session'.ended = FALSE
      /\ client = "exited" => client' = "exited"
  BY EndSessionKeeps
<1>2. 1011 \in CloseCodes
  BY DEF CloseCodes
<1>3. /\ answer' \in [main : CloseCodes, relay : CloseCodes]
      /\ answer'.main \in {answer.main, 1011}
      /\ answer'.relay \in {answer.relay, 1011}
  BY <1>2, AnswerToKeeps
<1>4. RelayRecords'
  BY <1>1, <1>3 DEF RelayInv, RelayRecords
<1>5. EndIsTold'
  BY <1>1, <1>3 DEF RelayInv, EndIsTold
<1> QED
  BY <1>4, <1>5 DEF RelayInv, CallIsBeforeClose

\* A call that leaves the session as it was answers without 4410.
LEMMA AnswersOnly ==
  ASSUME RelayInv, NEW call, NEW error \in CloseCodes \ {4410}, AnswerTo(call, error),
         current' = "none", UNCHANGED <<session, client, code>>,
         output' \in [written : Nat, read : Nat, sent : Nat]
  PROVE  RelayInv'
<1>1. /\ answer' \in [main : CloseCodes, relay : CloseCodes]
      /\ answer'.main \in {answer.main, error}
      /\ answer'.relay \in {answer.relay, error}
  BY AnswerToKeeps
<1> QED
  BY <1>1 DEF RelayInv, RelayRecords, EndIsTold, CallIsBeforeClose

-----------------------------------------------------------------------------
(* The thread of the connection *)

\* A call is found active, refused because the session is over, or ends it.
LEMMA TakeCallKeeps ==
  ASSUME RelayInv, TakeCall
  PROVE  RelayInv'
<1>1. current = "none" /\ UNCHANGED <<output, code>>
  BY DEF TakeCall
<1>2. CASE /\ session.closed
           /\ AnswerTo(Head(queue), Ended(session.ended))
           /\ UNCHANGED <<session, client, current>>
  <2>1. Ended(session.ended) \in CloseCodes
    BY DEF Ended, CloseCodes
  <2>2. /\ answer' \in [main : CloseCodes, relay : CloseCodes]
        /\ answer'.main \in {answer.main, Ended(session.ended)}
        /\ answer'.relay \in {answer.relay, Ended(session.ended)}
    BY <1>2, <2>1, AnswerToKeeps
  <2>3. Ended(session.ended) = 4410 => client = "exited"
    BY DEF Ended, RelayInv, RelayRecords, EndIsTold
  <2> QED
    BY <1>1, <1>2, <2>2, <2>3 DEF RelayInv, RelayRecords, EndIsTold, CallIsBeforeClose
<1>3. CASE /\ EndSession(FALSE)
           /\ AnswerTo(Head(queue), 1011)
           /\ UNCHANGED current
  <2>1. current' = "none"
    BY <1>1, <1>3
  <2> QED
    BY <1>1, <1>3, <2>1, EndsItself, ZenonT(30)
<1>4. CASE /\ ~session.closed
           /\ UNCHANGED <<session, client, main, relay, answer>>
  BY <1>1, <1>4 DEF RelayInv, RelayRecords, EndIsTold, CallIsBeforeClose
<1> QED
  BY <1>2, <1>3, <1>4 DEF TakeCall

LEMMA ReadKeeps ==
  ASSUME RelayInv, Read
  PROVE  RelayInv'
<1>1. current' = "none" /\ UNCHANGED code
  BY DEF Read
<1>2. 0 \in CloseCodes \ {4410}
  BY DEF CloseCodes
<1>3. output \in [written : Nat, read : Nat, sent : Nat]
  BY DEF RelayInv, RelayRecords
<1>4. CASE EndSession(FALSE) /\ AnswerTo("read", 1011) /\ UNCHANGED output
  <2>1. UNCHANGED <<output, code>>
    BY <1>1, <1>4
  <2> QED
    BY <1>1, <1>4, <2>1, EndsItself, ZenonT(30)
<1>5. CASE /\ \E n \in 1..Least(Readable, OutputLimit - output.read) :
                output' = [output EXCEPT !.read = @ + n]
           /\ AnswerTo("read", 0)
           /\ UNCHANGED <<session, client>>
  <2>1. output' \in [written : Nat, read : Nat, sent : Nat]
    BY <1>3, <1>5
  <2> QED
    BY <1>1, <1>2, <1>5, <2>1, AnswersOnly
<1>6. CASE Fail("read") /\ UNCHANGED output
  BY <1>1, <1>3, <1>6, FailKeeps
<1>7. CASE AnswerTo("read", 0) /\ UNCHANGED <<session, client, output>>
  BY <1>1, <1>2, <1>3, <1>7, AnswersOnly
<1> QED
  BY <1>4, <1>5, <1>6, <1>7 DEF Read

LEMMA WriteKeeps ==
  ASSUME RelayInv, Write
  PROVE  RelayInv'
<1>1. current' = "none" /\ UNCHANGED <<code, output>>
  BY DEF Write
<1>2. 0 \in CloseCodes \ {4410}
  BY DEF CloseCodes
<1>3. output \in [written : Nat, read : Nat, sent : Nat]
  BY DEF RelayInv, RelayRecords
<1>4. CASE AnswerTo("write", 0) /\ UNCHANGED <<session, client>>
  BY <1>1, <1>2, <1>3, <1>4, AnswersOnly
<1>5. CASE Fail("write")
  BY <1>1, <1>3, <1>5, FailKeeps
<1> QED
  BY <1>4, <1>5 DEF Write

LEMMA ThreadStepKeeps ==
  ASSUME RelayInv, ThreadStep
  PROVE  RelayInv'
<1>1. CASE TakeCall
  BY <1>1, TakeCallKeeps
<1>2. CASE Read
  BY <1>2, ReadKeeps
<1>3. CASE Write
  BY <1>3, WriteKeeps
<1>4. CASE Resize
  <2>1. 0 \in CloseCodes \ {4410} /\ output \in [written : Nat, read : Nat, sent : Nat]
    BY DEF CloseCodes, RelayInv, RelayRecords
  <2> QED
    BY <1>4, <2>1, AnswersOnly DEF Resize
<1>5. CASE RefuseSignal
  <2>1. 1011 \in CloseCodes \ {4410} /\ output \in [written : Nat, read : Nat, sent : Nat]
    BY DEF CloseCodes, RelayInv, RelayRecords
  <2> QED
    BY <1>5, <2>1, AnswersOnly DEF RefuseSignal
<1>6. CASE QueuedClose
  <2>1. current = "none" /\ UNCHANGED <<output, current, answer, code>>
    BY <1>6 DEF QueuedClose
  <2>2. CASE UNCHANGED <<session, client>>
    BY <2>1, <2>2 DEF RelayInv, RelayRecords, EndIsTold, CallIsBeforeClose
  <2>3. CASE EndSession(FALSE)
    <3>1. /\ session' \in [closed : BOOLEAN, ended : BOOLEAN, expired : BOOLEAN]
          /\ session'.ended = FALSE
          /\ client = "exited" => client' = "exited"
      BY <2>3, EndSessionKeeps
    <3> QED
      BY <2>1, <3>1 DEF RelayInv, RelayRecords, EndIsTold, CallIsBeforeClose
  <2> QED
    BY <1>6, <2>2, <2>3 DEF QueuedClose
<1> QED
  BY <1>1, <1>2, <1>3, <1>4, <1>5, <1>6 DEF ThreadStep

-----------------------------------------------------------------------------
(* The tasks, and what happens outside *)

\* A task turns the answer it was given, or a code of its own, into the close.
LEMMA CloseOnceKeeps ==
  ASSUME RelayInv, NEW c, CloseOnce(c), c = 4410 => client = "exited",
         UNCHANGED <<client, session, current, answer, output>>
  PROVE  RelayInv'
BY DEF RelayInv, RelayRecords, EndIsTold, CallIsBeforeClose, CloseOnce

\* The invariant is about what neither frames nor the queue are part of.
LEMMA RelayInvStays ==
  ASSUME RelayInv, UNCHANGED <<client, session, current, answer, output, code>>
  PROVE  RelayInv'
BY DEF RelayInv, RelayRecords, EndIsTold, CallIsBeforeClose

LEMMA TasksKeep ==
  ASSUME RelayInv, RelayStep \/ MainStep \/ CancelTask
  PROVE  RelayInv'
<1> USE DEF RelayInv
<1>1. CASE RelayReads \/ ReceiveDisconnect \/ Finally \/ CancelTask
  <2>1. UNCHANGED <<client, session, current, answer, output, code>>
    BY <1>1, Zenon DEF RelayReads, ReceiveDisconnect, Finally, CancelTask
  <2> QED
    BY <2>1, RelayInvStays
<1>2. CASE RelayAnswered
  <2>1. UNCHANGED <<client, session, current, answer>>
    BY <1>2 DEF RelayAnswered
  <2>2. CASE SendOutput /\ UNCHANGED code
    BY <2>1, <2>2 DEF SendOutput, RelayRecords, EndIsTold, CallIsBeforeClose
  <2>3. CASE CloseOnce(answer.relay) /\ UNCHANGED output
    BY <2>1, <2>3, CloseOnceKeeps DEF EndIsTold
  <2> QED
    BY <1>2, <2>2, <2>3 DEF RelayAnswered
<1>3. CASE MainAnswered
  <2>1. UNCHANGED <<client, session, current, answer, output>>
    BY <1>3 DEF MainAnswered
  <2>2. CASE UNCHANGED code
    BY <2>1, <2>2 DEF RelayRecords, EndIsTold, CallIsBeforeClose
  <2>3. CASE CloseOnce(answer.main)
    BY <2>1, <2>3, CloseOnceKeeps DEF EndIsTold
  <2> QED
    BY <1>3, <2>2, <2>3 DEF MainAnswered
<1>4. CASE Closed
  <2>1. UNCHANGED <<client, session, current, answer, output>>
    BY <1>4 DEF Closed
  <2>2. CASE UNCHANGED code
    BY <2>1, <2>2 DEF RelayRecords, EndIsTold, CallIsBeforeClose
  <2>3. CASE CloseOnce(1000)
    BY <2>1, <2>3, CloseOnceKeeps
  <2> QED
    BY <1>4, <2>2, <2>3 DEF Closed
<1> QED
  BY <1>1, <1>2, <1>3, <1>4 DEF RelayStep, MainStep

LEMMA FramesKeep ==
  ASSUME RelayInv,
         \/ \E call \in {"write", "resize", "signal"} : ReceiveFrame(call)
         \/ \E c \in {1000, 4400} : ReceiveLast(c)
  PROVE  RelayInv'
<1>1. CASE \E call \in {"write", "resize", "signal"} : ReceiveFrame(call)
  <2>1. PICK call \in {"write", "resize", "signal"} : ReceiveFrame(call)
    BY <1>1
  <2>2. UNCHANGED <<client, session, current, answer, output, code>>
    BY <2>1 DEF ReceiveFrame
  <2> QED
    BY <2>2, RelayInvStays
<1>2. ASSUME NEW c \in {1000, 4400}, ReceiveLast(c)
      PROVE  RelayInv'
  <2>1. UNCHANGED <<client, session, current, answer, output>>
    BY <1>2 DEF ReceiveLast
  <2>2. CASE UNCHANGED code
    BY <2>1, <2>2 DEF RelayInv, RelayRecords, EndIsTold, CallIsBeforeClose
  <2>3. CASE CloseOnce(c)
    BY <2>1, <2>3, CloseOnceKeeps
  <2> QED
    BY <1>2, <2>2, <2>3 DEF ReceiveLast
<1> QED
  BY <1>1, <1>2

LEMMA OutsideKeeps ==
  ASSUME RelayInv, ShellWrites \/ ShellReads \/ ShellExits \/ TimeLimit \/ Disconnect
  PROVE  RelayInv'
<1>1. CASE ShellWrites
  BY <1>1 DEF ShellWrites, RelayInv, RelayRecords, EndIsTold, CallIsBeforeClose
<1>2. CASE ShellReads \/ ShellExits \/ Disconnect
  BY <1>2 DEF ShellReads, ShellExits, Disconnect, RelayInv, RelayRecords, EndIsTold,
              CallIsBeforeClose
<1>3. CASE TimeLimit
  <2>1. session' = [session EXCEPT !.expired = TRUE]
        /\ UNCHANGED <<client, current, answer, output, code>>
    BY <1>3 DEF TimeLimit
  <2>2. /\ session' \in [closed : BOOLEAN, ended : BOOLEAN, expired : BOOLEAN]
        /\ session'.closed = session.closed
        /\ session'.ended = session.ended
    <3>1. session \in [closed : BOOLEAN, ended : BOOLEAN, expired : BOOLEAN]
      BY DEF RelayInv, RelayRecords
    <3> QED
      BY <2>1, <3>1
  <2> QED
    BY <2>1, <2>2 DEF RelayInv, RelayRecords, EndIsTold, CallIsBeforeClose
<1> QED
  BY <1>1, <1>2, <1>3

\* The invariant of the relay: nothing tells of an end of the shell that was
\* only a close, and a call under way works on an open session.
THEOREM RelayInvariant == RelaySpec => []RelayInv
<1>1. RelayInit => RelayInv
  BY DEF RelayInit, RelayInv, RelayRecords, EndIsTold, CallIsBeforeClose, CloseCodes
<1>2. RelayInv /\ [RelayNext]_relayVars => RelayInv'
  <2> SUFFICES ASSUME RelayInv, [RelayNext]_relayVars
               PROVE  RelayInv'
    OBVIOUS
  <2>1. CASE UNCHANGED relayVars
    BY <2>1 DEF relayVars, RelayInv, RelayRecords, EndIsTold, CallIsBeforeClose
  <2>2. CASE ThreadStep
    BY <2>2, ThreadStepKeeps
  <2>3. CASE RelayStep \/ MainStep \/ CancelTask
    BY <2>3, TasksKeep
  <2>4. CASE \/ \E call \in {"write", "resize", "signal"} : ReceiveFrame(call)
             \/ \E c \in {1000, 4400} : ReceiveLast(c)
    BY <2>4, FramesKeep
  <2>5. CASE ShellWrites \/ ShellReads \/ ShellExits \/ TimeLimit \/ Disconnect
    BY <2>5, OutsideKeeps
  <2> QED
    BY <2>1, <2>2, <2>3, <2>4, <2>5 DEF RelayNext
<1> QED
  BY <1>1, <1>2, PTL DEF RelaySpec

\* The queued close comes last: no call touches the PTY of a closed session, and
\* 4410 is sent only of a shell that ended by itself.
THEOREM CloseAlwaysComesLast == RelaySpec => []CloseComesLast
<1>1. RelayInv => CloseComesLast
  BY DEF RelayInv, EndIsTold, CallIsBeforeClose, CloseComesLast
<1> QED
  BY <1>1, RelayInvariant, PTL

\* close_once and send_json, called by two tasks: one close code, and nothing
\* after it.
THEOREM NothingComesAfterClose == RelaySpec => NothingAfterClose
<1>1. ASSUME RelayInv, [RelayNext]_relayVars
      PROVE  code # 0 => code' = code /\ output'.sent = output.sent
  <2> SUFFICES ASSUME code # 0
               PROVE  code' = code /\ output'.sent = output.sent
    OBVIOUS
  <2> USE DEF CloseOnce
  <2>1. CASE UNCHANGED relayVars
    BY <2>1 DEF relayVars
  <2>2. CASE ThreadStep
    <3>1. CASE Read
      <4>1. code' = code
        BY <3>1 DEF Read
      <4>2. \/ UNCHANGED output
            \/ \E n \in 1..Least(Readable, OutputLimit - output.read) :
                 output' = [output EXCEPT !.read = @ + n]
        BY <3>1 DEF Read
      <4>3. output'.sent = output.sent
        BY <1>1, <4>2 DEF RelayInv, RelayRecords
      <4> QED
        BY <4>1, <4>3
    <3>2. CASE TakeCall \/ Write \/ Resize \/ RefuseSignal \/ QueuedClose
      BY <3>2 DEF TakeCall, Write, Resize, RefuseSignal, QueuedClose
    <3> QED
      BY <2>2, <3>1, <3>2 DEF ThreadStep
  <2>3. CASE RelayStep \/ MainStep \/ CancelTask
    BY <2>3 DEF RelayStep, MainStep, RelayReads, RelayAnswered, SendOutput,
         ReceiveDisconnect, MainAnswered, Finally, Closed, CancelTask
  <2>4. CASE \/ \E call \in {"write", "resize", "signal"} : ReceiveFrame(call)
             \/ \E c \in {1000, 4400} : ReceiveLast(c)
    BY <2>4 DEF ReceiveFrame, ReceiveLast
  <2>5. CASE ShellWrites
    BY <1>1, <2>5 DEF ShellWrites, RelayInv, RelayRecords
  <2>6. CASE ShellReads \/ ShellExits \/ TimeLimit \/ Disconnect
    BY <2>6 DEF ShellReads, ShellExits, TimeLimit, Disconnect
  <2> QED
    BY <1>1, <2>1, <2>2, <2>3, <2>4, <2>5, <2>6 DEF RelayNext
<1> QED
  BY <1>1, RelayInvariant, PTL DEF NothingAfterClose, RelaySpec

-----------------------------------------------------------------------------
(* The types of the two parts *)

LEMMA QueueGrows ==
  ASSUME RelayTypeOK, NEW call \in Calls
  PROVE  Append(queue, call) \in Seq(Calls)
BY DEF RelayTypeOK

LEMMA QueueTaken ==
  ASSUME RelayTypeOK, queue # <<>>
  PROVE  Head(queue) \in Calls /\ Tail(queue) \in Seq(Calls)
BY DEF RelayTypeOK

\* A piece of the queue, with the close at its end.
LEMMA PieceOfQueue ==
  ASSUME RelayTypeOK, NEW m \in 1..Len(queue) + 1, NEW n \in m - 1..Len(queue)
  PROVE  Append(SubSeq(queue, m, n), "close") \in Seq(Calls)
<1>1. queue \in Seq(Calls) /\ m \in Int /\ n \in Int
  BY DEF RelayTypeOK
<1>2. \A i \in m..n : queue[i] \in Calls
  BY <1>1
<1>3. SubSeq(queue, m, n) \in Seq(Calls)
  BY <1>1, <1>2, SubSeqProperties
<1> QED
  BY <1>3 DEF Calls

\* What a call of the thread does to its task and to the session.
LEMMA AnswerTypes ==
  ASSUME RelayTypeOK, NEW call, NEW error \in CloseCodes, AnswerTo(call, error)
  PROVE  /\ answer' \in [main : CloseCodes, relay : CloseCodes]
         /\ main' \in {"receive", "calling", "answered", "finally", "closing", "over"}
         /\ relay' \in {"idle", "reading", "answered", "done"}
BY DEF RelayTypeOK, AnswerTo

LEMMA EndTypes ==
  ASSUME RelayTypeOK, NEW ended \in BOOLEAN, EndSession(ended)
  PROVE  /\ session' \in [closed : BOOLEAN, ended : BOOLEAN, expired : BOOLEAN]
         /\ client' \in {"running", "exited", "terminated"}
BY DEF RelayTypeOK, EndSession, Terminated

\* Every call but close answers its task, and may end the session.
LEMMA CallTypes ==
  ASSUME RelayTypeOK, NEW call, NEW error \in CloseCodes, AnswerTo(call, error),
         UNCHANGED <<session, client>> \/ \E ended \in BOOLEAN : EndSession(ended)
  PROVE  /\ session' \in [closed : BOOLEAN, ended : BOOLEAN, expired : BOOLEAN]
         /\ client' \in {"running", "exited", "terminated"}
         /\ answer' \in [main : CloseCodes, relay : CloseCodes]
         /\ main' \in {"receive", "calling", "answered", "finally", "closing", "over"}
         /\ relay' \in {"idle", "reading", "answered", "done"}
<1>1. /\ session' \in [closed : BOOLEAN, ended : BOOLEAN, expired : BOOLEAN]
      /\ client' \in {"running", "exited", "terminated"}
  BY EndTypes DEF RelayTypeOK
<1> QED
  BY <1>1, AnswerTypes

LEMMA FailAnswers ==
  ASSUME NEW call, Fail(call)
  PROVE  /\ \E error \in CloseCodes : AnswerTo(call, error)
         /\ \E ended \in BOOLEAN : EndSession(ended)
<1> DEFINE exited == client = "exited"
<1>1. EndSession(exited) /\ AnswerTo(call, Ended(exited)) /\ exited \in BOOLEAN
  BY DEF Fail
<1>2. Ended(exited) \in CloseCodes
  BY DEF Ended, CloseCodes
<1> QED
  BY <1>1, <1>2

LEMMA TakeCallTypes ==
  ASSUME RelayTypeOK, TakeCall
  PROVE  RelayTypeOK'
<1>1. Head(queue) \in Calls /\ queue' \in Seq(Calls)
  BY QueueTaken DEF TakeCall
<1>2. Ended(session.ended) \in CloseCodes /\ 1011 \in CloseCodes
  BY DEF Ended, CloseCodes
<1>3. CASE /\ AnswerTo(Head(queue), Ended(session.ended))
           /\ UNCHANGED <<session, client, current>>
  BY <1>1, <1>2, <1>3, CallTypes DEF TakeCall, RelayTypeOK
<1>4. CASE EndSession(FALSE) /\ AnswerTo(Head(queue), 1011) /\ UNCHANGED current
  <2>1. \E ended \in BOOLEAN : EndSession(ended)
    BY <1>4
  <2>2. UNCHANGED <<output, space, code, frames, gone>>
    BY DEF TakeCall
  <2> QED  BY <1>1, <1>2, <1>4, <2>1, <2>2, CallTypes DEF RelayTypeOK
<1>5. CASE /\ current' = Head(queue)
           /\ UNCHANGED <<session, client, main, relay, answer>>
  BY <1>1, <1>5 DEF TakeCall, RelayTypeOK
<1> QED
  BY <1>3, <1>4, <1>5 DEF TakeCall

LEMMA ReadTypes ==
  ASSUME RelayTypeOK, Read
  PROVE  RelayTypeOK'
<1>0. \/ Fail("read")
      \/ EndSession(FALSE) /\ AnswerTo("read", 1011)
      \/ AnswerTo("read", 0) /\ UNCHANGED <<session, client>>
  BY ZenonT(30) DEF Read
<1>1. PICK error \in CloseCodes : AnswerTo("read", error)
  <2>1. CASE Fail("read")
    BY <2>1, FailAnswers
  <2>2. CASE AnswerTo("read", 1011) \/ AnswerTo("read", 0)
    BY <2>2 DEF CloseCodes
  <2> QED  BY <1>0, <2>1, <2>2, ZenonT(30)
<1>2. UNCHANGED <<session, client>> \/ \E ended \in BOOLEAN : EndSession(ended)
  <2>1. CASE Fail("read")
    BY <2>1, FailAnswers
  <2>2. CASE EndSession(FALSE)
    BY <2>2
  <2> QED  BY <1>0, <2>1, <2>2
<1>3. /\ output' \in [written : 0..MaxOutput, read : 0..MaxOutput, sent : 0..MaxOutput]
      /\ output'.sent <= output'.read /\ output'.read <= output'.written
  <2>1. CASE UNCHANGED output
    BY <2>1 DEF RelayTypeOK
  <2>2. CASE \E n \in 1..Least(Readable, OutputLimit - output.read) :
               output' = [output EXCEPT !.read = @ + n]
    <3>1. PICK n \in 1..Least(Readable, OutputLimit - output.read) :
            output' = [output EXCEPT !.read = output.read + n]
      BY <2>2
    <3>2. /\ output.read \in Nat /\ output.written \in Nat /\ output.sent \in Nat
          /\ output.written <= MaxOutput
          /\ output.sent <= output.read /\ output.read <= output.written
      BY RelayAssumption DEF RelayTypeOK
    <3>3. n \in Nat /\ n <= output.written - output.read
      BY <3>1, <3>2, RelayAssumption DEF Least, Readable
    <3>4. output'.read = output.read + n
          /\ output'.written = output.written /\ output'.sent = output.sent
          /\ output' \in [written : Nat, read : Nat, sent : Nat]
      BY <3>1, <3>2, <3>3 DEF RelayTypeOK
    <3>5. output'.read <= MaxOutput /\ MaxOutput \in Nat
      BY <3>2, <3>3, <3>4, RelayAssumption
    <3> QED
      BY <3>2, <3>3, <3>4, <3>5
  <2> QED
    BY <2>1, <2>2 DEF Read
<1>4. UNCHANGED <<space, queue, code, frames, gone>> /\ current' = "none"
  BY DEF Read
<1> QED
  BY <1>1, <1>2, <1>3, <1>4, CallTypes DEF RelayTypeOK

LEMMA WriteTypes ==
  ASSUME RelayTypeOK, Write
  PROVE  RelayTypeOK'
<1>1. PICK error \in CloseCodes : AnswerTo("write", error)
  <2>1. CASE Fail("write")
    BY <2>1, FailAnswers
  <2>2. CASE AnswerTo("write", 0)
    BY <2>2 DEF CloseCodes
  <2> QED  BY <2>1, <2>2 DEF Write
<1>2. UNCHANGED <<session, client>> \/ \E ended \in BOOLEAN : EndSession(ended)
  <2>1. CASE Fail("write")
    BY <2>1, FailAnswers
  <2> QED  BY <2>1 DEF Write
<1>3. space' \in 0..InputSpace
  BY RelayAssumption DEF Write, RelayTypeOK
<1>4. UNCHANGED <<output, queue, code, frames, gone>> /\ current' = "none"
  BY DEF Write
<1> QED
  BY <1>1, <1>2, <1>3, <1>4, CallTypes DEF RelayTypeOK

LEMMA ThreadTypes ==
  ASSUME RelayTypeOK, ThreadStep
  PROVE  RelayTypeOK'
<1>1. CASE Resize \/ RefuseSignal
  <2>1. 0 \in CloseCodes /\ 1011 \in CloseCodes
    BY DEF CloseCodes
  <2> QED
    BY <1>1, <2>1, AnswerTypes DEF Resize, RefuseSignal, RelayTypeOK
<1>2. CASE QueuedClose
  <2>1. queue' \in Seq(Calls)
    BY <1>2, QueueTaken DEF QueuedClose
  <2>2. /\ session' \in [closed : BOOLEAN, ended : BOOLEAN, expired : BOOLEAN]
        /\ client' \in {"running", "exited", "terminated"}
    BY <1>2, EndTypes DEF QueuedClose, RelayTypeOK
  <2> QED  BY <1>2, <2>1, <2>2 DEF QueuedClose, RelayTypeOK
<1> QED
  BY <1>1, <1>2, TakeCallTypes, ReadTypes, WriteTypes DEF ThreadStep

LEMMA RelayTypes ==
  ASSUME RelayTypeOK, [RelayNext]_relayVars
  PROVE  RelayTypeOK'
<1> USE DEF RelayTypeOK
<1>1. CASE UNCHANGED relayVars
  BY <1>1 DEF relayVars
<1>2. CASE ThreadStep
  BY <1>2, ThreadTypes
<1>3. CASE ShellWrites \/ ShellReads \/ ShellExits \/ TimeLimit \/ Disconnect
  <2>1. MaxOutput \in Nat /\ InputSpace \in Nat
    BY RelayAssumption
  <2>2. CASE ShellWrites
    <3>1. /\ output.written \in Nat /\ output.read \in Nat
          /\ output.written + 1 \in 0..MaxOutput /\ output.read <= output.written + 1
      BY <2>1, <2>2 DEF ShellWrites
    <3> QED  BY <2>2, <3>1 DEF ShellWrites
  <2>3. CASE ShellReads
    BY <2>1, <2>3 DEF ShellReads
  <2>4. CASE ShellExits \/ TimeLimit \/ Disconnect
    BY <2>4 DEF ShellExits, TimeLimit, Disconnect
  <2> QED  BY <1>3, <2>2, <2>3, <2>4
<1>4. CASE RelayStep
  <2>1. CASE RelayReads
    BY <2>1, QueueGrows DEF RelayReads, Calls
  <2>2. CASE RelayAnswered
    BY <2>2 DEF RelayAnswered, SendOutput, CloseOnce
  <2> QED  BY <1>4, <2>1, <2>2 DEF RelayStep
<1>5. CASE Finally
  <2>1. PICK m \in 1..Len(queue) + 1 : \E n \in m - 1..Len(queue) :
          queue' = Append(SubSeq(queue, m, n), "close")
    BY <1>5 DEF Finally
  <2>2. queue' \in Seq(Calls)
    BY <2>1, PieceOfQueue
  <2> QED  BY <1>5, <2>2 DEF Finally
<1>6. CASE ReceiveDisconnect \/ MainAnswered \/ Closed \/ CancelTask
  BY <1>6 DEF ReceiveDisconnect, MainAnswered, Closed, CancelTask, CloseOnce, CloseCodes
<1>7. ASSUME NEW call \in {"write", "resize", "signal"}, ReceiveFrame(call)
      PROVE  RelayTypeOK'
  <2>1. queue' \in Seq(Calls)
    BY <1>7, QueueGrows DEF ReceiveFrame, Calls
  <2>2. frames' \in 0..MaxFrames
    BY <1>7, RelayAssumption DEF ReceiveFrame
  <2> QED  BY <1>7, <2>1, <2>2 DEF ReceiveFrame
<1>8. ASSUME NEW c \in {1000, 4400}, ReceiveLast(c)
      PROVE  RelayTypeOK'
  <2>1. frames' \in 0..MaxFrames
    BY <1>8, RelayAssumption DEF ReceiveLast
  <2>2. code' \in CloseCodes
    BY <1>8 DEF ReceiveLast, CloseOnce, CloseCodes
  <2> QED  BY <1>8, <2>1, <2>2 DEF ReceiveLast
<1> QED
  BY <1>1, <1>2, <1>3, <1>4, <1>5, <1>6, <1>7, <1>8 DEF RelayNext, MainStep

\* Identities are dealt out in order, and used and leased after that.
IssuedInv ==
  /\ SlotsInv
  /\ DOMAIN capabilities \subseteq Jtis
  /\ used \subseteq Jtis
  /\ leases \subseteq Lease

LEMMA IssuedKept ==
  ASSUME IssuedInv, [TerminalNext]_accessVars
  PROVE  IssuedInv'
<1> USE DEF IssuedInv
<1>1. SlotsInv'
  BY EveryAccessStepKeepsSlots
<1>2. ASSUME NEW s \in Sockets, sockets[s].stage # "new"
      PROVE  /\ sockets[s].jti \in Jtis
             /\ CapabilityOf(s) \in Capability
  BY <1>2, HeldCapability DEF SlotsInv
<1>3. ASSUME NEW s \in Sockets, Consume(s)
      PROVE  IssuedInv'
  BY <1>1, <1>2, <1>3 DEF Consume, AtStage
<1>4. ASSUME NEW s \in Sockets, GrantLease(s)
      PROVE  IssuedInv'
  <2>1. sockets[s].jti \in Jtis /\ CapabilityOf(s) \in Capability
    BY <1>2, <1>4 DEF GrantLease, AtStage
  <2>2. LeaseUntil(CapabilityOf(s)) \in Nat
    <3>1. /\ CapabilityOf(s).expiresAt \in Nat
          /\ CapabilityOf(s).attempt \in Attempts
      BY <2>1 DEF Capability
    <3>2. attempts[CapabilityOf(s).attempt].expiresAt \in Nat /\ clock \in Nat
      BY <3>1 DEF SlotsInv, AccessInv, StoreInv, TypeOK, Attempt
    <3> QED  BY <3>1, <3>2, TerminalAssumption DEF LeaseUntil, Earlier
  <2>3. leases' \subseteq Lease
    BY <1>4, <2>1, <2>2 DEF GrantLease, Lease
  <2> QED  BY <1>1, <1>4, <2>3 DEF GrantLease
<1>5. ASSUME NEW a \in Attempts, NEW read \in 0..clock, Issue(a, read)
      PROVE  IssuedInv'
  BY <1>1, <1>5 DEF Issue
<1>6. ASSUME UNCHANGED <<capabilities, used, leases>>
      PROVE  IssuedInv'
  BY <1>1, <1>6
<1>7. ASSUME NEW s \in Sockets, SocketStep(s), ~Consume(s), ~GrantLease(s)
      PROVE  UNCHANGED <<capabilities, used, leases>>
  BY <1>7
  DEF SocketStep, ConsumeDenied, LeaseDenied, Admit, NotAdmitted, CheckLease, InspectSandbox,
      AcquireSession, OpenShell, OpenFails, CloseSession, ReleaseAdmission
<1>8. ASSUME NEW s \in Sockets, Cancel(s) \/ \E j \in Jtis : Present(s, j)
      PROVE  UNCHANGED <<capabilities, used, leases>>
  BY <1>8 DEF Cancel, Present
<1> QED
  BY <1>3, <1>4, <1>5, <1>6, <1>7, <1>8 DEF TerminalNext, accessVars, terminalVars

LEMMA IssuedTypes == IssuedInv => TerminalTypeOK
BY DEF IssuedInv, SlotsInv, AccessInv, CapabilitiesStand, TerminalTypeOK, Slots

\* Each part keeps its types whatever becomes of the other.
LEMMA PartTypes ==
  PartSpec => [](IssuedInv /\ RelayTypeOK)
<1>1. PartInit => IssuedInv /\ RelayTypeOK
  <2>1. TerminalInit => IssuedInv
    BY SlotsInitHold DEF TerminalInit, IssuedInv
  <2>2. RelayInit => RelayTypeOK
    <3>1. /\ MaxFrames \in Nat /\ MaxOutput \in Nat
          /\ InputSpace \in Nat /\ InputSpace \in 0..InputSpace
      BY RelayAssumption
    <3>2. <<>> \in Seq(Calls) /\ 0 \in CloseCodes
      BY DEF CloseCodes
    <3> SUFFICES ASSUME RelayInit PROVE RelayTypeOK
      OBVIOUS
    <3>3. queue \in Seq(Calls) /\ code \in CloseCodes
      BY <3>2 DEF RelayInit
    <3>4. /\ output \in [written : 0..MaxOutput, read : 0..MaxOutput, sent : 0..MaxOutput]
          /\ output.sent <= output.read /\ output.read <= output.written
      BY <3>1 DEF RelayInit
    <3>5. /\ session \in [closed : BOOLEAN, ended : BOOLEAN, expired : BOOLEAN]
          /\ answer \in [main : CloseCodes, relay : CloseCodes]
      BY <3>2 DEF RelayInit
    <3>6. space \in 0..InputSpace /\ frames \in 0..MaxFrames
      BY <3>1 DEF RelayInit
    <3> QED  BY <3>3, <3>4, <3>5, <3>6 DEF RelayInit, RelayTypeOK
  <2> QED  BY <2>1, <2>2 DEF PartInit
<1>2. IssuedInv /\ RelayTypeOK /\ [PartNext]_partVars => (IssuedInv /\ RelayTypeOK)'
  <2>1. [PartNext]_partVars => [TerminalNext]_accessVars /\ [RelayNext]_relayVars
    BY DEF PartNext, partVars
  <2> QED  BY <2>1, IssuedKept, RelayTypes
<1> QED
  BY <1>1, <1>2, PTL DEF PartSpec

\* A socket, its lease and its slots, and the relayed session with its queue and its
\* close code, keep their kinds of value.
THEOREM TerminalTypesHold == PartSpec => []TerminalTypesOK
<1>1. IssuedInv /\ RelayTypeOK => TerminalTypesOK
  BY IssuedTypes DEF TerminalTypesOK
<1> QED
  BY <1>1, PartTypes, PTL

\* A behaviour of both parts is one of each: what is proved of a part alone holds of
\* it here.
THEOREM PartsAreKept == PartSpec => TerminalSpec /\ RelaySpec
<1>1. PartInit => TerminalInit /\ RelayInit
  BY DEF PartInit
<1>2. [PartNext]_partVars => [TerminalNext]_accessVars /\ [RelayNext]_relayVars
  BY DEF PartNext, partVars
<1> QED
  BY <1>1, <1>2, PTL DEF PartSpec, TerminalSpec, RelaySpec

=============================================================================
