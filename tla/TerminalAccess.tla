--------------------------- MODULE TerminalAccess ---------------------------
(***************************************************************************)
(* The way to a terminal.  The backend issues a short-lived capability for *)
(* a room (authorization.py), a WebSocket presents it (websocket.py), the  *)
(* gateway consumes it and obtains an attachment lease in two transactions *)
(* (terminal_gateway.py), and the control plane admits the connection and  *)
(* opens a shell in the sandbox (terminal.py).  All of that interleaves    *)
(* with every other caller of the store, so a room can be left, reset,     *)
(* expired or cleaned up between any two of those calls.                   *)
(*                                                                         *)
(* A token may be presented by several sockets.  Its signature and format  *)
(* are not modelled: a token here is always one the backend issued.        *)
(* A socket's gateway session id and idempotency key are one fresh UUID,   *)
(* so the socket stands for both.                                          *)
(***************************************************************************)
EXTENDS StateStore

CONSTANTS
  Sockets,          (* WebSocket connections                                *)
  MaxCapabilities,  (* bound: capabilities ever issued                      *)
  Lifetime,         (* longest life of a capability                         *)
  LeaseDuration,    (* longest life of an attachment lease                  *)
  ConnectionLimit,  (* authorized connections per sandbox generation        *)
  SessionLimit      (* open shells per sandbox generation                   *)

ASSUME TerminalAssumption ==
  /\ MaxCapabilities \in Nat
  /\ {Lifetime, LeaseDuration, ConnectionLimit, SessionLimit} \subseteq Nat \ {0}
  /\ IsFiniteSet(Sockets)

VARIABLES
  capabilities,  (* issued capabilities, by jti                             *)
  used,          (* terminal_capability_uses: the jti consumed so far       *)
  leases,        (* terminal_attachment_leases                              *)
  sockets,       (* where each connection is, and what it remembers         *)
  connections,   (* slots of admitted connections, counted in memory        *)
  sessions       (* slots of open shells, counted in memory                 *)

terminalVars == <<capabilities, used, leases, sockets, connections, sessions>>
accessVars == <<vars, terminalVars>>

Jtis == 1..MaxCapabilities

Capability == [attempt : Attempts, generation : Generations, epoch : Nat, expiresAt : Nat]

Lease == [jti : Jtis, session : Sockets, expiresAt : Nat]

\* The next call of a connection.  "end" has an open shell, "over" has closed it
\* (or never opened one).
Stages == {"consume", "lease", "admit", "check", "inspect", "acquire", "open", "end", "over"}

Socket == [stage     : Stages \cup {"new"},
           jti       : 0..MaxCapabilities,
           at        : Nat,
           cancelled : BOOLEAN,
           admitted  : BOOLEAN]

NewSocket ==
  [stage |-> "new", jti |-> 0, at |-> 0, cancelled |-> FALSE, admitted |-> FALSE]

NoSlots == [a \in Attempts |-> [g \in Generations |-> 0]]

TerminalInit ==
  /\ Init
  /\ capabilities = <<>>
  /\ used = {}
  /\ leases = {}
  /\ sockets = [s \in Sockets |-> NewSocket]
  /\ connections = NoSlots
  /\ sessions = NoSlots

CapabilityOf(s) == capabilities[sockets[s].jti]

LeaseOf(s) == CHOOSE lease \in leases : lease.session = s

Earlier(x, y) == IF x < y THEN x ELSE y

AtStage(s, stage) == sockets[s].stage = stage

Becomes(s, stage) == sockets' = [sockets EXCEPT ![s].stage = stage]

\* The sandbox a capability or lease names can take a terminal.
Attachable(a, g) ==
  /\ resources[a][g].state \in {"READY", "RUNNING"}
  /\ resources[a][g].intents = {}

TakeSlot(slots, a, g) == [slots EXCEPT ![a][g] = @ + 1]

ReturnSlot(slots, a, g) == [slots EXCEPT ![a][g] = @ - 1]

-----------------------------------------------------------------------------
(* Issue, consume, lease *)

\* The clock is read before the row, and the request may be slow in between.
Issue(a, read) ==
  LET row == attempts[a]
      j   == Cardinality(DOMAIN capabilities) + 1
  IN  /\ j \in Jtis
      /\ row.state \in {"READY", "RUNNING"}
      /\ row.active = row.generation
      /\ row.intents \cap {"expiry", "destroy"} = {}
      /\ row.expiresAt > read
      /\ capabilities' = [i \in DOMAIN capabilities \cup {j} |->
                            IF i # j THEN capabilities[i]
                            ELSE [attempt    |-> a,
                                  generation |-> row.generation,
                                  epoch      |-> row.epoch,
                                  expiresAt  |-> Earlier(row.expiresAt, read + Lifetime)]]
      /\ UNCHANGED <<vars, used, leases, sockets, connections, sessions>>

\* The authorization frame of a new socket carries some capability.
Present(s, j) ==
  /\ AtStage(s, "new")
  /\ j \in DOMAIN capabilities
  /\ sockets' = [sockets EXCEPT ![s].stage = "consume", ![s].jti = j]
  /\ UNCHANGED <<vars, capabilities, used, leases, connections, sessions>>

\* The room and its sandbox still stand as the capability says.
Authorizes(j) ==
  LET c == capabilities[j]
  IN  /\ Binding(c.attempt, c.generation)
      /\ BackendLive(c.attempt)
      /\ attempts[c.attempt].state \in {"READY", "RUNNING"}
      /\ attempts[c.attempt].active = c.generation
      /\ attempts[c.attempt].epoch = c.epoch
      /\ clock < c.expiresAt
      /\ c.expiresAt <= attempts[c.attempt].expiresAt
      /\ Attachable(c.attempt, c.generation)

\* Mutant: a replayed capability is consumed again.
ConsumableAgain(j) == Authorizes(j)

Consumable(j) == Authorizes(j) /\ j \notin used

Consume(s) ==
  LET j == sockets[s].jti
  IN  /\ AtStage(s, "consume")
      /\ Consumable(j)
      /\ used' = used \cup {j}
      /\ Becomes(s, "lease")
      /\ UNCHANGED <<vars, capabilities, leases, connections, sessions>>

\* A refused authorization closes the socket; on an expired attempt the denial
\* also commits the stop.
ConsumeDenied(s) ==
  LET c == CapabilityOf(s)
  IN  /\ AtStage(s, "consume")
      /\ ~Consumable(sockets[s].jti)
      /\ IF Binding(c.attempt, c.generation) /\ PastDeadline(c.attempt)
         THEN DenyAttempt(c.attempt, c.generation)
         ELSE UNCHANGED vars
      /\ Becomes(s, "over")
      /\ UNCHANGED <<capabilities, used, leases, connections, sessions>>

\* Mutant: what consume has checked is not checked again.
LeasableAsConsumed(s) ==
  LET c == CapabilityOf(s)
  IN  /\ Attachable(c.attempt, c.generation)
      /\ sockets[s].jti \in used
      /\ \A lease \in leases : lease.jti # sockets[s].jti /\ lease.session # s

Leasable(s) ==
  LET c == CapabilityOf(s)
  IN  /\ Binding(c.attempt, c.generation)
      /\ ControlLive(c.attempt)
      /\ Attachable(c.attempt, c.generation)
      /\ attempts[c.attempt].active = c.generation
      /\ attempts[c.attempt].epoch = c.epoch
      /\ sockets[s].jti \in used
      /\ clock < c.expiresAt
      /\ \A lease \in leases : lease.jti # sockets[s].jti /\ lease.session # s

LeaseUntil(c) ==
  Earlier(c.expiresAt, Earlier(attempts[c.attempt].expiresAt, clock + LeaseDuration))

GrantLease(s) ==
  /\ AtStage(s, "lease")
  /\ Leasable(s)
  /\ leases' = leases \cup {[jti       |-> sockets[s].jti,
                             session   |-> s,
                             expiresAt |-> LeaseUntil(CapabilityOf(s))]}
  /\ Becomes(s, "admit")
  /\ UNCHANGED <<vars, capabilities, used, connections, sessions>>

LeaseDenied(s) ==
  LET c == CapabilityOf(s)
  IN  /\ AtStage(s, "lease")
      /\ ~Leasable(s)
      /\ IF Binding(c.attempt, c.generation) /\ ControlExpired(c.attempt)
         THEN DenyResource(c.attempt, c.generation)
         ELSE UNCHANGED vars
      /\ Becomes(s, "over")
      /\ UNCHANGED <<capabilities, used, leases, connections, sessions>>

-----------------------------------------------------------------------------
(* Admit, attach, close *)

\* The connection task: a task cancelled while it waited goes no further.
Admit(s) ==
  LET c == CapabilityOf(s)
  IN  /\ AtStage(s, "admit")
      /\ ~sockets[s].cancelled
      /\ connections[c.attempt][c.generation] < ConnectionLimit
      /\ connections' = TakeSlot(connections, c.attempt, c.generation)
      /\ sockets' = [sockets EXCEPT ![s].stage = "check", ![s].admitted = TRUE]
      /\ UNCHANGED <<vars, capabilities, used, leases, sessions>>

NotAdmitted(s) ==
  LET c == CapabilityOf(s)
  IN  /\ AtStage(s, "admit")
      /\ \/ sockets[s].cancelled
         \/ connections[c.attempt][c.generation] >= ConnectionLimit
      /\ Becomes(s, "over")
      /\ UNCHANGED <<vars, capabilities, used, leases, connections, sessions>>

\* attach, on the connection's own thread: the clock first, the record next.
\* The call is dropped when its task is cancelled before the thread takes it.
CheckLease(s) ==
  /\ AtStage(s, "check")
  /\ \/ /\ clock < LeaseOf(s).expiresAt
        /\ sockets' = [sockets EXCEPT ![s].stage = "inspect", ![s].at = clock]
     \/ /\ clock >= LeaseOf(s).expiresAt \/ sockets[s].cancelled
        /\ Becomes(s, "over")
  /\ UNCHANGED <<vars, capabilities, used, leases, connections, sessions>>

\* What attach asks of the record the lease names.  It does not ask the attempt.
AttachOk(s) ==
  LET c == CapabilityOf(s)
  IN  /\ BindingAllowActive(c.attempt, c.generation)
      /\ Attachable(c.attempt, c.generation)
      /\ sockets[s].at < attempts[c.attempt].expiresAt
      /\ "container_id" \in resources[c.attempt][c.generation].filled

InspectSandbox(s) ==
  /\ AtStage(s, "inspect")
  /\ Becomes(s, IF AttachOk(s) THEN "acquire" ELSE "over")
  /\ UNCHANGED <<vars, capabilities, used, leases, connections, sessions>>

RoomForSession(a, g) == sessions[a][g] < SessionLimit

AcquireSession(s) ==
  LET c == CapabilityOf(s)
  IN  /\ AtStage(s, "acquire")
      /\ IF RoomForSession(c.attempt, c.generation)
         THEN /\ sessions' = TakeSlot(sessions, c.attempt, c.generation)
              /\ Becomes(s, "open")
         ELSE /\ Becomes(s, "over")
              /\ UNCHANGED sessions
      /\ UNCHANGED <<vars, capabilities, used, leases, connections>>

\* Docker may refuse the exec, and must when the container is gone.
OpenShell(s) ==
  LET c == CapabilityOf(s)
  IN  /\ AtStage(s, "open")
      /\ resources[c.attempt][c.generation].state # "DESTROYED"
      /\ Becomes(s, "end")
      /\ UNCHANGED <<vars, capabilities, used, leases, connections, sessions>>

\* Mutant: the slot of a shell that did not open is not returned.
OpenFailsHoldingSlot(s) ==
  /\ AtStage(s, "open")
  /\ Becomes(s, "over")
  /\ UNCHANGED <<vars, capabilities, used, leases, connections, sessions>>

OpenFails(s) ==
  LET c == CapabilityOf(s)
  IN  /\ AtStage(s, "open")
      /\ sessions' = ReturnSlot(sessions, c.attempt, c.generation)
      /\ Becomes(s, "over")
      /\ UNCHANGED <<vars, capabilities, used, leases, connections>>

\* Mutant: a cancelled connection does not close the shell it was opening.
CloseUnlessCancelled(s) ==
  LET c == CapabilityOf(s)
  IN  /\ AtStage(s, "end")
      /\ ~sockets[s].cancelled
      /\ sessions' = ReturnSlot(sessions, c.attempt, c.generation)
      /\ Becomes(s, "over")
      /\ UNCHANGED <<vars, capabilities, used, leases, connections>>

\* However the relay ends (the client, its frames, the shell, the session's
\* time limit, a cancellation), the queued close runs once, after every call.
CloseSession(s) ==
  LET c == CapabilityOf(s)
  IN  /\ AtStage(s, "end")
      /\ sessions' = ReturnSlot(sessions, c.attempt, c.generation)
      /\ Becomes(s, "over")
      /\ UNCHANGED <<vars, capabilities, used, leases, connections>>

\* Mutant: a second release returns the slot once more.
ReleaseAdmissionAgain(s) ==
  LET c == CapabilityOf(s)
  IN  /\ sockets[s].admitted
      /\ AtStage(s, "over") \/ sockets[s].cancelled
      /\ connections' = ReturnSlot(connections, c.attempt, c.generation)
      /\ UNCHANGED <<vars, capabilities, used, leases, sockets, sessions>>

\* The admission is released after the close; a task cancelled once more while
\* it waits for the close releases it at once.
ReleaseAdmission(s) ==
  LET c == CapabilityOf(s)
  IN  /\ sockets[s].admitted
      /\ AtStage(s, "over") \/ sockets[s].cancelled
      /\ connections' = ReturnSlot(connections, c.attempt, c.generation)
      /\ sockets' = [sockets EXCEPT ![s].admitted = FALSE]
      /\ UNCHANGED <<vars, capabilities, used, leases, sessions>>

\* The server shuts down, or the client abandons the connection's task.
Cancel(s) ==
  /\ sockets[s].stage \notin {"new", "over"}
  /\ ~sockets[s].cancelled
  /\ sockets' = [sockets EXCEPT ![s].cancelled = TRUE]
  /\ UNCHANGED <<vars, capabilities, used, leases, connections, sessions>>

SocketStep(s) ==
  \/ Consume(s)    \/ ConsumeDenied(s)
  \/ GrantLease(s) \/ LeaseDenied(s)
  \/ Admit(s)      \/ NotAdmitted(s)
  \/ CheckLease(s)
  \/ InspectSandbox(s)
  \/ AcquireSession(s)
  \/ OpenShell(s)  \/ OpenFails(s)
  \/ CloseSession(s)
  \/ ReleaseAdmission(s)

TerminalNext ==
  \/ Next /\ UNCHANGED terminalVars
  \/ \E a \in Attempts, read \in 0..clock : Issue(a, read)
  \/ \E s \in Sockets :
       \/ \E j \in Jtis : Present(s, j)
       \/ Cancel(s)
       \/ SocketStep(s)

TerminalSpec == TerminalInit /\ [][TerminalNext]_accessVars

\* A call that has begun returns, and the relay of a shell ends: at the latest
\* its time limit (pty.py: session_seconds) makes a read fail.
FairTerminalSpec ==
  TerminalSpec /\ \A s \in Sockets : WF_accessVars(SocketStep(s))

-----------------------------------------------------------------------------
(* Properties *)

TerminalTypeOK ==
  /\ DOMAIN capabilities \subseteq Jtis
  /\ \A j \in DOMAIN capabilities : capabilities[j] \in Capability
  /\ used \subseteq Jtis
  /\ leases \subseteq Lease
  /\ sockets \in [Sockets -> Socket]
  /\ connections \in [Attempts -> [Generations -> Nat]]
  /\ sessions \in [Attempts -> [Generations -> Nat]]

\* The sockets a capability has let past its consumption.
PastConsume(s) == sockets[s].stage \in {"lease", "admit", "check", "inspect", "acquire", "open", "end"}

\* A capability opens one door once: however many sockets present it and
\* however their calls interleave, at most one is past its consumption, at most
\* one lease was granted for it, and that one was consumed first.
CapabilitySpentOnce ==
  /\ \A s, t \in Sockets :
       PastConsume(s) /\ PastConsume(t) /\ sockets[s].jti = sockets[t].jti => s = t
  /\ \A x, y \in leases : x.jti = y.jti => x = y
  /\ \A x \in leases : x.jti \in used

\* The session epoch is a sufficient test of authority: while the room is still
\* in the epoch of a capability, it is still offered, over the sandbox the
\* capability names, so no leave, reset, expiry or cleanup lies in between.
CurrentEpochIsOffered ==
  \A j \in DOMAIN capabilities :
    LET c == capabilities[j]
    IN  attempts[c.attempt].epoch = c.epoch =>
          /\ Published(c.attempt)
          /\ attempts[c.attempt].generation = c.generation

\* A lease is granted only in the epoch of its capability, although consuming
\* it and granting the lease are two transactions and the room may be left and
\* reset in between; and it ends with whatever it rests on, so it outlives
\* neither the capability nor the room's deadline, even when the clock of the
\* issue was old.
LeasesAreCurrent ==
  [][\A x \in leases' \ leases :
       LET c == capabilities[x.jti]
       IN  /\ attempts[c.attempt].epoch = c.epoch
           /\ ~PastDeadline(c.attempt)
           /\ x.expiresAt <= c.expiresAt
           /\ c.expiresAt <= attempts[c.attempt].expiresAt]_accessVars

Names(s, a, g) ==
  /\ sockets[s].jti # 0
  /\ CapabilityOf(s).attempt = a
  /\ CapabilityOf(s).generation = g

\* The counters in memory are the connections and shells there are, and stay
\* within the limits of the profile, whichever way a connection ends: refused,
\* failed to open, closed, cancelled at any await.
SlotsAreHeld ==
  \A a \in Attempts, g \in Generations :
    /\ connections[a][g] = Cardinality({s \in Sockets : Names(s, a, g) /\ sockets[s].admitted})
    /\ sessions[a][g] = Cardinality({s \in Sockets : /\ Names(s, a, g)
                                                     /\ sockets[s].stage \in {"open", "end"}})
    /\ connections[a][g] <= ConnectionLimit
    /\ sessions[a][g] <= SessionLimit

\* Liveness: a connection that presented a capability ends holding no slot, so
\* a room whose terminals are all abandoned can be entered again.
SlotsComeBack ==
  \A s \in Sockets :
    sockets[s].stage # "new" ~> sockets[s].stage = "over" /\ ~sockets[s].admitted

\* docs/SANDBOX.md: immediately before the shell is opened the control plane
\* verifies the absence of durable expiry, destroy or reset intent.
AttachSeesIntents ==
  [][\A s \in Sockets :
       sockets[s].stage = "inspect" /\ sockets'[s].stage = "acquire" =>
         attempts[CapabilityOf(s).attempt].intents \cap {"expiry", "destroy", "reset"} = {}]_accessVars

=============================================================================
