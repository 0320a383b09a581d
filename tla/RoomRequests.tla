---------------------------- MODULE RoomRequests ----------------------------
(***************************************************************************)
(* The requests of a learner and their idempotency keys: Enter (entry.py), *)
(* Reset (reset.py), Leave (lifecycle.py) and Verify recovery              *)
(* (recovery.py).  Each request runs on a thread of its own and makes one  *)
(* store call after another, so a room it has read can be left, reset,     *)
(* expired or verified by another request before its next call.            *)
(*                                                                         *)
(* A store call that carries a key first looks for the key in              *)
(* lifecycle_operations (common.py: replay): the same request is answered  *)
(* with the recorded receipt and another one is refused.  Verify derives a *)
(* key for each of its phases from the key of the request.                 *)
(*                                                                         *)
(* The other callers of the store (provisioning, cleanup, expiry) write    *)
(* under keys of their own; their steps are those of StateStore.           *)
(***************************************************************************)
EXTENDS StateStore

CONSTANTS
  Requests,    (* request threads                                           *)
  Keys,        (* idempotency keys a client sends, again and again          *)
  AttemptTtl,  (* lifetime of an entered room                               *)
  Digests      (* what an observation of a recovered sandbox may measure    *)

ASSUME RequestAssumption == AttemptTtl \in Nat \ {0}

VARIABLES
  requests,  (* the next call of each request and what it has read          *)
  log,       (* lifecycle_operations of the user, the backend and recovery  *)
  observed   (* the recoveries observed so far (kept for the properties)    *)

requestVars == <<requests, log, observed>>
roomVars == <<vars, requestVars>>

(* The next call of a request; "run" and "resolve" are transition, "reread" *)
(* and "reinspect" read back what the call before has written.              *)
Calls == {"create", "provision", "begin_reset", "leave",
          "room_id", "inspect", "run", "resolve", "reread",
          "publish_running", "publish_resolved", "reinspect", "observe"}

Row == [state : AttemptStates \cup ResourceStates \cup {"NONE"}, version : Nat]

Request == [call       : Calls \cup {"idle"},
            key        : Keys \cup {"none"},
            attempt    : Attempts \cup {0},
            generation : 0..MaxGeneration,
            room       : Row,                        \* the attempt it has read
            sandbox    : Row,                        \* the resource it has read
            value      : Nat \cup Digests]           \* deadline or digest

NoRow == [state |-> "NONE", version |-> 0]

Idle == [call |-> "idle", key |-> "none", attempt |-> 0, generation |-> 0,
         room |-> NoRow, sandbox |-> NoRow, value |-> 0]

RequestsInit ==
  /\ Init
  /\ requests = [r \in Requests |-> Idle]
  /\ log = {}
  /\ observed = {}

Turns(r, q) == requests' = [requests EXCEPT ![r] = q]

Read(row) == [state |-> row.state, version |-> row.version]

-----------------------------------------------------------------------------
(* The keys of the calls *)

PhaseKey(q, phase, version) == <<q.key, phase, q.attempt, q.generation, version>>

\* What a call records: who makes it, under which key, and its fingerprint.
Entry(q) ==
  LET sandbox(v) == <<q.attempt, q.generation, v>>
  IN  CASE q.call = "create" ->
             [actor |-> "user", key |-> <<q.key>>, request |-> <<"create", q.value>>]
        [] q.call = "begin_reset" ->
             [actor   |-> "user",
              key     |-> <<q.key>>,
              request |-> <<"begin-reset", q.attempt, q.generation>>]
        [] q.call = "leave" ->
             [actor   |-> "user",
              key     |-> <<q.key>>,
              request |-> <<"leave", q.attempt, q.generation>>]
        [] q.call = "provision" ->
             [actor   |-> "user",
              key     |-> <<q.key, "entry-failed", q.attempt, q.generation>>,
              request |-> <<"leave", q.attempt, q.generation>>]
        [] q.call = "run" ->
             [actor   |-> "control-plane",
              key     |-> PhaseKey(q, "running", q.sandbox.version),
              request |-> <<"RUNNING", sandbox(q.sandbox.version)>>]
        [] q.call = "resolve" ->
             [actor   |-> "control-plane",
              key     |-> PhaseKey(q, "resolved", q.sandbox.version),
              request |-> <<"RESOLVED", sandbox(q.sandbox.version), q.value>>]
        [] q.call = "publish_running" ->
             [actor   |-> "backend",
              key     |-> PhaseKey(q, "publish-running", q.room.version),
              request |-> <<"publish-running", sandbox(q.room.version)>>]
        [] q.call = "publish_resolved" ->
             [actor   |-> "backend",
              key     |-> PhaseKey(q, "publish-resolved", q.room.version),
              request |-> <<"publish-resolved", sandbox(q.room.version)>>]

KeyedCalls == {"create", "provision", "begin_reset", "leave", "run", "resolve",
               "publish_running", "publish_resolved"}

SameKey(x, y) == x.actor = y.actor /\ x.key = y.key

SameRequest(x, y) == SameKey(x, y) /\ x.request = y.request

\* Mutant: a key is looked up together with its request.
UnusedForRequest(q) == \A x \in log : ~SameRequest(x, Entry(q))

\* No call has been recorded under the key.
Unused(q) == \A x \in log : ~SameKey(x, Entry(q))

-----------------------------------------------------------------------------
(* The store calls *)

\* Verify asks for a state of a sandbox that is live as the call begins.
SandboxLive(q) ==
  /\ Binding(q.attempt, q.generation)
  /\ resources[q.attempt][q.generation].state # "NONE"
  /\ ControlLive(q.attempt)
  /\ "destroy" \notin resources[q.attempt][q.generation].intents

\* What a call checks before it looks for its key.
Admissible(q) ==
  CASE q.call \in {"leave", "provision"} -> Binding(q.attempt, q.generation)
    [] q.call \in {"run", "resolve"} -> SandboxLive(q)
    [] q.call \in {"publish_running", "publish_resolved"} ->
         Binding(q.attempt, q.generation) /\ BackendLive(q.attempt)
    [] OTHER -> TRUE

\* The effect of a call whose key is new.
Performs(q) ==
  LET a == q.attempt
      g == q.generation
  IN  \/ q.call = "begin_reset" /\ BeginReset(a, g)
      \/ q.call \in {"leave", "provision"} /\ Leave(a, g)
      \/ q.call = "run" /\ Transition(a, g, q.sandbox.version, "RUNNING")
      \/ q.call = "resolve" /\ Transition(a, g, q.sandbox.version, "RESOLVED")
      \/ q.call = "publish_running" /\ PublishRunning(a, g, q.room.version)
      \/ q.call = "publish_resolved" /\ PublishResolved(a, g, q.room.version)

\* What the request does with the receipt.
Answered(q) ==
  CASE q.call = "create"                                   -> [q EXCEPT !.call = "provision"]
    [] q.call \in {"run", "resolve"}                       -> [q EXCEPT !.call = "reread"]
    [] q.call \in {"publish_running", "publish_resolved"}  -> [q EXCEPT !.call = "reinspect"]
    [] OTHER                                               -> Idle

Record(q, a) == log' = log \cup
  {[actor |-> Entry(q).actor, key |-> Entry(q).key, request |-> Entry(q).request, attempt |-> a]}

\* create makes a new attempt and its first sandbox.
CreateRoom(r, a) ==
  LET q == requests[r]
  IN  /\ q.call = "create"
      /\ Unused(q)
      /\ Create(a, q.value)
      /\ Record(q, a)
      /\ Turns(r, [Answered(q) EXCEPT !.attempt = a, !.generation = 1])
      /\ UNCHANGED observed

Perform(r) ==
  LET q == requests[r]
  IN  /\ q.call \in KeyedCalls \ {"create"}
      /\ Admissible(q)
      /\ Unused(q)
      /\ Performs(q)
      /\ Record(q, q.attempt)
      /\ Turns(r, Answered(q))
      /\ UNCHANGED observed

\* The recorded receipt, and nothing is written.
Replay(r) ==
  LET q == requests[r]
  IN  /\ q.call \in KeyedCalls
      /\ Admissible(q)
      /\ \E x \in log :
           /\ SameRequest(x, Entry(q))
           /\ Turns(r, [Answered(q) EXCEPT
                          !.attempt = IF q.call = "create" THEN x.attempt ELSE @,
                          !.generation = IF q.call = "create" THEN 1 ELSE @])
      /\ UNCHANGED <<vars, log, observed>>

\* On an expired room the denial commits the stop (StateStore); begin_reset
\* looks for its key first, the others do not get as far.
DeniedByDeadline(r) ==
  LET q == requests[r]
  IN  /\ \/ q.call = "begin_reset" /\ Unused(q) /\ DenyAttempt(q.attempt, q.generation)
         \/ /\ q.call \in {"publish_running", "publish_resolved"}
            /\ DenyAttempt(q.attempt, q.generation)
         \/ q.call \in {"run", "resolve"} /\ DenyResource(q.attempt, q.generation)
      /\ Turns(r, Idle)
      /\ UNCHANGED <<log, observed>>

-----------------------------------------------------------------------------
(* Where a request begins *)

\* The deadline is computed from the clock before create reads it again, and is
\* part of the fingerprint.
Enter(r, k) ==
  /\ requests[r] = Idle
  /\ Turns(r, [Idle EXCEPT !.call = "create", !.key = k, !.value = clock + AttemptTtl])
  /\ UNCHANGED <<vars, log, observed>>

\* Reset and Leave read the current reference first.
ActOnRoom(r, k, a, call) ==
  /\ requests[r] = Idle
  /\ attempts[a].state # "NONE"
  /\ Turns(r, [Idle EXCEPT !.call = call, !.key = k, !.attempt = a,
                           !.generation = attempts[a].generation])
  /\ UNCHANGED <<vars, log, observed>>

Verify(r, k, a) ==
  /\ requests[r] = Idle
  /\ attempts[a].active # 0
  /\ Turns(r, [Idle EXCEPT !.call = "room_id", !.key = k, !.attempt = a,
                           !.generation = attempts[a].active,
                           !.room = Read(attempts[a])])
  /\ UNCHANGED <<vars, log, observed>>

\* A call is refused, an observation or a provisioning fails for good, or the
\* process stops: the request does nothing more, and may be sent again.
GiveUp(r) ==
  /\ requests[r] # Idle
  /\ Turns(r, Idle)
  /\ UNCHANGED <<vars, log, observed>>

-----------------------------------------------------------------------------
(* What verify does between its store calls *)

\* Mutant: a running sandbox is observed before its room is published RUNNING.
PhaseOfSandbox(room, sandbox) ==
  CASE sandbox = "READY" /\ room = "READY"      -> "run"
    [] sandbox = "RUNNING"                      -> "observe"
    [] sandbox = "RESOLVED" /\ room = "RUNNING" -> "publish_resolved"
    [] OTHER                                    -> "idle"

\* The phase verify is in, from the attempt and the resource as last read.
Phase(room, sandbox) ==
  CASE sandbox = "READY" /\ room = "READY"      -> "run"
    [] sandbox = "RUNNING" /\ room = "READY"    -> "publish_running"
    [] sandbox = "RUNNING" /\ room = "RUNNING"  -> "observe"
    [] sandbox = "RESOLVED" /\ room = "RUNNING" -> "publish_resolved"
    [] OTHER                                    -> "idle"

Proceeds(r, q) ==
  LET call == Phase(q.room.state, q.sandbox.state)
  IN  Turns(r, IF call = "idle" THEN Idle ELSE [q EXCEPT !.call = call])

\* room_id_for_binding: the active sandbox must be the current one.
SelectRoom(r) ==
  LET q == requests[r]
  IN  /\ q.call = "room_id"
      /\ Binding(q.attempt, q.generation)
      /\ Turns(r, [q EXCEPT !.call = "inspect"])
      /\ UNCHANGED <<vars, log, observed>>

InspectResource(r) ==
  LET q == requests[r]
  IN  /\ q.call = "inspect"
      /\ BindingAllowActive(q.attempt, q.generation)
      /\ Proceeds(r, [q EXCEPT !.sandbox = Read(resources[q.attempt][q.generation])])
      /\ UNCHANGED <<vars, log, observed>>

\* The resource must still be at the version the receipt reports.
Reread(r) ==
  LET q == requests[r]
      row == resources[q.attempt][q.generation]
  IN  /\ q.call = "reread"
      /\ BindingAllowActive(q.attempt, q.generation)
      /\ row.version = q.sandbox.version + 1
      /\ Proceeds(r, [q EXCEPT !.sandbox = Read(row), !.value = 0])
      /\ UNCHANGED <<vars, log, observed>>

Reinspect(r) ==
  LET q == requests[r]
  IN  /\ q.call = "reinspect"
      /\ attempts[q.attempt].version = q.room.version + 1
      /\ Proceeds(r, [q EXCEPT !.room = Read(attempts[q.attempt])])
      /\ UNCHANGED <<vars, log, observed>>

\* Mutant: a verification that fails is taken for an observation.
ObserveAnything(r, d) ==
  LET q == requests[r]
  IN  /\ q.call = "observe"
      /\ Turns(r, [q EXCEPT !.call = "resolve", !.value = d])
      /\ UNCHANGED <<vars, log, observed>>

\* The container of this very sandbox runs, before and after the fixed checks:
\* the filler is gone, there is space and the target becomes healthy in time.
MayRecover(a, g) == resources[a][g].state # "DESTROYED"

\* _verify_runtime: the sandbox is found recovered.  The digest covers what was
\* measured, so two observations of one recovery may differ.
Observe(r, d) ==
  LET q == requests[r]
  IN  /\ q.call = "observe"
      /\ MayRecover(q.attempt, q.generation)
      /\ observed' = observed \cup {<<q.attempt, q.generation, d>>}
      /\ Turns(r, [q EXCEPT !.call = "resolve", !.value = d])
      /\ UNCHANGED <<vars, log>>

-----------------------------------------------------------------------------
(* The requests among the other callers of the store *)

VerifyStep(r) ==
  \/ SelectRoom(r) \/ InspectResource(r) \/ Reread(r) \/ Reinspect(r)
  \/ \E d \in Digests : Observe(r, d)

RequestStep(r) ==
  \/ \E k \in Keys :
       \/ Enter(r, k)
       \/ \E a \in Attempts : \/ ActOnRoom(r, k, a, "begin_reset")
                              \/ ActOnRoom(r, k, a, "leave")
                              \/ Verify(r, k, a)
  \/ \E a \in Attempts : CreateRoom(r, a)
  \/ Perform(r) \/ Replay(r) \/ DeniedByDeadline(r)
  \/ VerifyStep(r)
  \/ GiveUp(r)

\* Provisioning, maintenance, and the requests whose key is sent only once: every
\* store call but those verify makes for itself.
OtherStep ==
  \/ Tick
  \/ ExpireSome
  \/ ReconcileSome
  \/ \E a \in Attempts :
       \/ \E deadline \in 0..MaxTime : Create(a, deadline)
       \/ \E g \in Generations :
            LET v == attempts[a].version
                w == resources[a][g].version
            IN  \/ Leave(a, g)
                \/ DenyAttempt(a, g)
                \/ BeginReset(a, g)
                \/ PublishReady(a, g, v)
                \/ PublishResetReady(a, g, v)
                \/ FailReset(a, g, v)
                \/ CompleteCleanup(a, g)
                \/ Accept(a, g)
                \/ \E state \in ResourceStates \ {"RUNNING", "RESOLVED"} :
                     Requested(a, g, state) /\ Transition(a, g, w, state)
                \/ DenyResource(a, g)
                \/ \E retryAt \in 1..MaxTime : CleanupFailed(a, g, w, retryAt)

RequestsNext ==
  \/ OtherStep /\ UNCHANGED requestVars
  \/ \E r \in Requests : RequestStep(r)

RequestsSpec == RequestsInit /\ [][RequestsNext]_roomVars

-----------------------------------------------------------------------------
(* Properties *)

RequestTypeOK ==
  /\ requests \in [Requests -> Request]
  /\ \A x \in log : x.actor \in {"user", "backend", "control-plane"} /\ x.attempt \in Attempts
  /\ observed \subseteq Attempts \X Generations \X Digests

\* A key has one effect: whatever a client sends under it, from however many
\* threads, and however often Enter recomputes its deadline or Reset and Leave
\* read a new reference in between, at most one call is ever carried out.
OneEffectPerKey == \A x, y \in log : SameKey(x, y) => x = y

\* A sandbox is RESOLVED on the word of an observation of that sandbox: the
\* digest recorded with it is one the runtime returned for it, whatever was
\* reset, retried or verified at the same time.
ResolvedIsObserved ==
  \A a \in Attempts, g \in Generations :
    resources[a][g].state = "RESOLVED" =>
      \E x \in log, d \in Digests :
        /\ \E v \in 0..resources[a][g].version : x.request = <<"RESOLVED", <<a, g, v>>, d>>
        /\ <<a, g, d>> \in observed

\* verify drives two rows in up to four calls and may stop after any of them:
\* the rows of a room still offered over a sandbox in use are always at a phase
\* from which a new verify goes on, or both RESOLVED.
VerifyCanGoOn ==
  \A a \in Attempts :
    Published(a) /\ Usable(a, attempts[a].generation) =>
      LET sandbox == resources[a][attempts[a].generation].state
      IN  \/ Phase(attempts[a].state, sandbox) # "idle"
          \/ attempts[a].state = "RESOLVED" /\ sandbox = "RESOLVED"

\* The keys verify derives never make its phases refuse each other: a key found
\* in the log belongs to the same request, but for the digest of an observation
\* that another thread made under the same key.
PhaseKeysAgree ==
  \A r \in Requests :
    requests[r].call \in {"run", "publish_running", "publish_resolved"} =>
      \A x \in log : SameKey(x, Entry(requests[r])) => SameRequest(x, Entry(requests[r]))

=============================================================================
