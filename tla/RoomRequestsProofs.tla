------------------------- MODULE RoomRequestsProofs -------------------------
(***************************************************************************)
(* What is proved of the requests of a learner, for any number of requests,*)
(* keys, rooms and callers of the store.                                   *)
(*                                                                         *)
(* A key has one effect.  That property is inductive by itself: the log    *)
(* grows only by the entry of a call whose key it does not hold (common.py:*)
(* replay before finish, in one transaction), so no step needs anything of *)
(* the rows.                                                               *)
(*                                                                         *)
(* Recovery is asked for on the word of an observation, and a verify that  *)
(* stopped half way can be taken up again (recovery.py).  These need the   *)
(* rows: what a request has read is older than what it writes, and the     *)
(* invariant says how far the rows can have moved in between.              *)
(***************************************************************************)
EXTENDS MCStateStore, StateStoreStepProofs, BrowserSessionsProofs,
        SchemaMigrationProofs

-----------------------------------------------------------------------------
(* One effect per key *)

\* The log never changes but by the entry of one call whose key it lacked.
LogGrows ==
  \/ log' = log
  \/ \E q, a : Unused(q) /\ Record(q, a)

\* Creating a room records under a new key.
LEMMA CreateGrows ==
  ASSUME NEW r \in Requests, NEW a \in Attempts, CreateRoom(r, a)
  PROVE  LogGrows
BY DEF CreateRoom, LogGrows

\* So does every other call that is carried out.
LEMMA PerformGrows ==
  ASSUME NEW r \in Requests, Perform(r)
  PROVE  LogGrows
BY DEF Perform, LogGrows

\* Reading, observing, replaying and being refused record nothing.
LEMMA OthersKeepLog ==
  ASSUME NEW r \in Requests,
         \/ \E k \in Keys :
              \/ Enter(r, k)
              \/ \E a \in Attempts : \/ ActOnRoom(r, k, a, "begin_reset")
                                     \/ ActOnRoom(r, k, a, "leave")
                                     \/ Verify(r, k, a)
         \/ Replay(r) \/ DeniedByDeadline(r) \/ VerifyStep(r) \/ GiveUp(r)
  PROVE  log' = log
BY DEF Enter, ActOnRoom, Verify, Replay, DeniedByDeadline, VerifyStep, GiveUp,
       SelectRoom, InspectResource, Reread, Reinspect, Observe

LEMMA EveryRequestStepGrows ==
  ASSUME [RequestsNext]_roomVars
  PROVE  LogGrows
<1>1. CASE UNCHANGED roomVars
  BY <1>1 DEF roomVars, requestVars, LogGrows
<1>2. CASE OtherStep /\ UNCHANGED requestVars
  BY <1>2 DEF requestVars, LogGrows
<1>3. ASSUME NEW r \in Requests, RequestStep(r)
      PROVE  LogGrows
  <2>1. ASSUME NEW a \in Attempts, CreateRoom(r, a)
        PROVE  LogGrows
    BY <2>1, CreateGrows
  <2>2. CASE Perform(r)
    BY <2>2, PerformGrows
  <2>3. ASSUME ~Perform(r), \A a \in Attempts : ~CreateRoom(r, a)
        PROVE  log' = log
    BY <1>3, <2>3, OthersKeepLog DEF RequestStep
  <2> QED
    BY <2>1, <2>2, <2>3 DEF LogGrows
<1> QED
  BY <1>1, <1>2, <1>3 DEF RequestsNext

\* An entry recorded under a key the log lacks shares its key with no other.
LEMMA NewKeyIsAlone ==
  ASSUME OneEffectPerKey, NEW q, NEW a, Unused(q), Record(q, a)
  PROVE  OneEffectPerKey'
<1> DEFINE entry == [actor   |-> Entry(q).actor,
                     key     |-> Entry(q).key,
                     request |-> Entry(q).request,
                     attempt |-> a]
<1>1. log' = log \cup {entry}
  BY DEF Record
<1>2. entry.actor = Entry(q).actor /\ entry.key = Entry(q).key
  OBVIOUS
<1>3. \A x \in log : ~SameKey(x, entry) /\ ~SameKey(entry, x)
  BY <1>2 DEF Unused, SameKey
<1> HIDE DEF entry
<1>4. SUFFICES ASSUME NEW x \in log', NEW y \in log', SameKey(x, y)
               PROVE  x = y
  BY DEF OneEffectPerKey, SameKey
<1> QED
  BY <1>1, <1>3, <1>4 DEF OneEffectPerKey

\* Whatever a client sends under a key, from however many threads, and however
\* often Enter recomputes its deadline or Reset and Leave read a new reference,
\* at most one call is carried out under it: the sequences of requests, resets
\* and retries a run cannot bound included.
THEOREM KeyAlwaysHasOneEffect == RequestsSpec => []OneEffectPerKey
<1>1. RequestsInit => OneEffectPerKey
  BY DEF RequestsInit, OneEffectPerKey
<1>2. OneEffectPerKey /\ [RequestsNext]_roomVars => OneEffectPerKey'
  <2> SUFFICES ASSUME OneEffectPerKey, [RequestsNext]_roomVars
               PROVE  OneEffectPerKey'
    OBVIOUS
  <2>1. LogGrows
    BY EveryRequestStepGrows
  <2>2. CASE log' = log
    BY <2>2 DEF OneEffectPerKey
  <2> QED
    BY <2>1, <2>2, NewKeyIsAlone DEF LogGrows
<1> QED
  BY <1>1, <1>2, PTL DEF RequestsSpec

-----------------------------------------------------------------------------
(* How far the rows of a room move in one step *)

\* The states a room never leaves for an earlier one while it keeps its sandbox.
PastReady == {"RUNNING", "RESOLVED", "STOPPING", "DESTROYED"}

\* A room that was offered as running does not become READY again with the same
\* sandbox, and a room becomes READY only over a sandbox that is READY.
GoesOn(a, old, new) ==
  /\ new.state # "NONE"
  /\ new.generation >= old.generation
  /\ old.state \in PastReady /\ new.generation = old.generation => new.state \in PastReady
  /\ new.state = "READY" =>
       \/ old.state = "READY" /\ new.generation = old.generation
       \/ resources[a][new.generation].state = "READY" /\ resources' = resources

\* What every step of the store does to the attempts.
RoomsGoOn ==
  \A a \in Attempts :
    attempts'[a] = attempts[a] \/ GoesOn(a, attempts[a], attempts'[a])

\* No sandbox becomes RESOLVED in the step.
NoneResolved ==
  \A a \in Attempts, g \in Generations :
    resources'[a][g].state = "RESOLVED" => resources[a][g].state = "RESOLVED"

LEMMA WrittenRoomGoesOn ==
  ASSUME StoreInv, NEW a \in Attempts, NEW row, WriteAttempt(a, row),
         row = attempts[a] \/ GoesOn(a, attempts[a], row)
  PROVE  RoomsGoOn
<1>1. \A b \in Attempts : attempts'[b] = IF b = a THEN row ELSE attempts[b]
  BY DEF WriteAttempt, StoreInv, TypeOK
<1> QED
  BY <1>1 DEF RoomsGoOn

LEMMA StopGoesOn ==
  ASSUME StoreInv, NEW a \in Attempts, attempts[a].state # "NONE"
  PROVE  LET row == StopAttempt(attempts[a])
         IN  /\ row.state \in {attempts[a].state, "STOPPING"}
             /\ row.generation = attempts[a].generation
             /\ row = attempts[a] \/ GoesOn(a, attempts[a], row)
<1>1. attempts[a] \in Attempt
  BY DEF StoreInv, TypeOK
<1> QED
  BY <1>1 DEF StopAttempt, GoesOn, PastReady, Attempt

LEMMA CreateGoesOn ==
  ASSUME StoreInv, NEW a \in Attempts, NEW deadline, Create(a, deadline)
  PROVE  RoomsGoOn
<1> DEFINE row == [NoAttempt EXCEPT !.state = "PROVISIONING", !.generation = 1,
                     !.candidate = 1, !.expiresAt = deadline,
                     !.intents = {"provisioning"}]
<1>1. WriteAttempt(a, row) /\ attempts[a] = NoAttempt
  BY NoRowYet DEF Create
<1>2. row.state = "PROVISIONING" /\ row.generation = 1
  BY DEF NoAttempt
<1> HIDE DEF row
<1>3. GoesOn(a, attempts[a], row)
  BY <1>1, <1>2 DEF GoesOn, NoAttempt, PastReady
<1> QED
  BY <1>1, <1>3, WrittenRoomGoesOn

LEMMA BackendStepGoesOn ==
  ASSUME StoreInv, NEW a \in Attempts, BackendStep(a)
  PROVE  RoomsGoOn
<1> DEFINE old == attempts[a]
<1>0. old \in Attempt
  BY DEF StoreInv, TypeOK
<1>1. ASSUME NEW deadline \in 0..MaxTime, Create(a, deadline)
      PROVE  RoomsGoOn
  BY <1>1, CreateGoesOn
<1>2. ASSUME NEW g \in Generations, Leave(a, g) \/ DenyAttempt(a, g)
      PROVE  RoomsGoOn
  BY <1>2, WrittenRoomGoesOn, StopGoesOn DEF Leave, DenyAttempt, Binding
<1>3. ASSUME NEW g \in Generations, BeginReset(a, g)
      PROVE  RoomsGoOn
  <2> DEFINE row == [old EXCEPT !.generation = g + 1, !.candidate = g + 1,
                                !.state = "RESETTING",
                                !.intents = @ \cup {"provisioning", "reset"},
                                !.epoch = @ + 1, !.version = @ + 1]
  <2>1. WriteAttempt(a, row) /\ old.generation = g
    BY <1>3 DEF BeginReset, BeginResetOk, Binding
  <2>2. row.state = "RESETTING" /\ row.generation = g + 1
    BY <1>0 DEF Attempt
  <2> HIDE DEF row
  <2>3. GoesOn(a, old, row)
    BY <1>0, <2>1, <2>2 DEF GoesOn, Attempt
  <2> QED
    BY <2>1, <2>3, WrittenRoomGoesOn
<1>4. ASSUME NEW g \in Generations, NEW dropped,
             \/ PublishReadyOk(a, g, old.version)
             \/ PublishResetReadyOk(a, g, old.version),
             WriteAttempt(a, [old EXCEPT !.state = "READY", !.active = g, !.candidate = 0,
                                         !.intents = @ \ dropped, !.version = @ + 1])
      PROVE  RoomsGoOn
  <2> DEFINE row == [old EXCEPT !.state = "READY", !.active = g, !.candidate = 0,
                                !.intents = @ \ dropped, !.version = @ + 1]
  <2>1. /\ old.state \in {"PROVISIONING", "RESETTING"}
        /\ old.generation = g
        /\ resources[a][g].state = "READY"
        /\ resources' = resources
    BY <1>4 DEF PublishReadyOk, PublishResetReadyOk, Replacing, Binding, WriteAttempt
  <2>2. row.state = "READY" /\ row.generation = g
    BY <1>0, <2>1 DEF Attempt
  <2> HIDE DEF row
  <2>3. GoesOn(a, old, row)
    BY <1>0, <2>1, <2>2 DEF GoesOn, Attempt, PastReady
  <2> QED
    BY <1>4, <2>3, WrittenRoomGoesOn DEF row
<1>5. ASSUME NEW g \in Generations, NEW source, NEW target \in {"RUNNING", "RESOLVED"},
             PublishRuntimeState(a, g, old.version, source, target)
      PROVE  RoomsGoOn
  <2> DEFINE row == [old EXCEPT !.state = target, !.version = @ + 1]
  <2>1. WriteAttempt(a, row)
    BY <1>5 DEF PublishRuntimeState
  <2>2. row.state = target /\ row.generation = old.generation
    BY <1>0 DEF Attempt
  <2> HIDE DEF row
  <2>3. GoesOn(a, old, row)
    BY <1>0, <2>2 DEF GoesOn, Attempt, PastReady
  <2> QED
    BY <2>1, <2>3, WrittenRoomGoesOn
<1>6. ASSUME NEW g \in Generations, FailReset(a, g, old.version)
      PROVE  RoomsGoOn
  <2> DEFINE row == [old EXCEPT !.state = "FAILED", !.intents = @ \ {"provisioning"},
                                !.version = @ + 1]
  <2>1. WriteAttempt(a, row) /\ old.state = "RESETTING"
    BY <1>6 DEF FailReset, FailResetOk, Replacing
  <2>2. row.state = "FAILED" /\ row.generation = old.generation
    BY <1>0 DEF Attempt
  <2> HIDE DEF row
  <2>3. GoesOn(a, old, row)
    BY <1>0, <2>1, <2>2 DEF GoesOn, Attempt, PastReady
  <2> QED
    BY <2>1, <2>3, WrittenRoomGoesOn
<1>7. ASSUME NEW g \in Generations, CompleteCleanup(a, g)
      PROVE  RoomsGoOn
  <2> DEFINE stopped == StopAttempt(old)
             row == [stopped EXCEPT !.state = "DESTROYED", !.active = 0, !.version = @ + 1]
  <2>1. WriteAttempt(a, row) /\ old.state # "NONE"
    BY <1>7 DEF CompleteCleanup, CompleteCleanupOk, Binding
  <2>2. stopped \in Attempt /\ stopped.generation = old.generation
    BY <1>0, <2>1, StopAttemptType, StopGoesOn
  <2> HIDE DEF stopped
  <2>3. row.state = "DESTROYED" /\ row.generation = old.generation
    BY <2>2 DEF Attempt
  <2> HIDE DEF row
  <2>4. GoesOn(a, old, row)
    BY <1>0, <2>3 DEF GoesOn, Attempt, PastReady
  <2> QED
    BY <2>1, <2>4, WrittenRoomGoesOn
<1> QED
  BY <1>1, <1>2, <1>3, <1>4, <1>5, <1>6, <1>7
  DEF BackendStep, PublishReady, PublishResetReady, PublishRunning, PublishResolved

LEMMA EveryStepGoesOn ==
  ASSUME StoreInv, [Next]_vars
  PROVE  RoomsGoOn
<1>1. CASE \E a \in Attempts : BackendStep(a)
  BY <1>1, BackendStepGoesOn
<1>2. CASE attempts' = attempts
  BY <1>2 DEF RoomsGoOn
<1>3. ASSUME NEW batch, Expire(batch)
      PROVE  RoomsGoOn
  <2>1. \A a \in Attempts :
          attempts'[a] = IF a \in batch THEN StopAttempt(attempts[a]) ELSE attempts[a]
    BY <1>3 DEF Expire
  <2>2. \A a \in batch : attempts[a].state # "NONE"
    BY <1>3 DEF Expire, TakesSoonest, TakesUpTo, ExpiryDue
  <2> QED
    BY <2>1, <2>2, StopGoesOn DEF RoomsGoOn
<1>4. ASSUME NEW a \in Attempts, ControlStep(a)
      PROVE  attempts' = attempts
  BY <1>4 DEF ControlStep, Accept, Transition, DenyResource, CleanupFailed, WriteResource
<1>5. Tick \/ ReconcileSome \/ UNCHANGED vars => attempts' = attempts
  BY DEF Tick, ReconcileSome, Reconcile, vars
<1>6. ExpireSome => \E batch : Expire(batch)
  BY DEF ExpireSome
<1> QED
  BY <1>1, <1>2, <1>3, <1>4, <1>5, <1>6 DEF Next

-----------------------------------------------------------------------------
(* Only a request asks for RESOLVED *)

LEMMA WrittenResolvesNone ==
  ASSUME StoreInv, NEW a \in Attempts, NEW g \in Generations, NEW row,
         WriteResource(a, g, row), row = resources[a][g] \/ row.state # "RESOLVED"
  PROVE  NoneResolved
<1>1. \A b \in Attempts, h \in Generations :
        resources'[b][h] = IF b = a /\ h = g THEN row ELSE resources[b][h]
  BY DEF WriteResource, StoreInv, TypeOK
<1> QED
  BY <1>1 DEF NoneResolved

LEMMA SameResolvesNone ==
  ASSUME resources' = resources
  PROVE  NoneResolved
BY DEF NoneResolved

LEMMA TransitionResolvesNone ==
  ASSUME StoreInv, NEW a \in Attempts, NEW g \in Generations, NEW v, NEW state,
         state # "RESOLVED", Transition(a, g, v, state)
  PROVE  NoneResolved
<1> DEFINE row == [resources[a][g] EXCEPT
                     !.state   = state,
                     !.version = @ + 1,
                     !.intents = @ \cup (IF state \in {"STOPPING", "FAILED", "DESTROYED"}
                                         THEN {"destroy"} ELSE {})
                                   \cup IfExpired(ControlExpired(a)),
                     !.filled  = @ \cup FilledBy(state)]
<1>1. WriteResource(a, g, row) /\ resources[a][g] \in Resource
  BY DEF Transition, StoreInv, TypeOK
<1>2. row.state = state
  BY <1>1 DEF Resource
<1> HIDE DEF row
<1> QED
  BY <1>1, <1>2, WrittenResolvesNone

LEMMA DenialResolvesNone ==
  ASSUME StoreInv, NEW a \in Attempts, NEW g \in Generations, DenyResource(a, g)
  PROVE  NoneResolved
<1> DEFINE row == StopResource(resources[a][g], TRUE)
<1>1. WriteResource(a, g, row) /\ resources[a][g] \in Resource
  BY DEF DenyResource, StoreInv, TypeOK
<1>2. row = resources[a][g] \/ row.state = "STOPPING"
  BY <1>1 DEF StopResource, Resource
<1> HIDE DEF row
<1> QED
  BY <1>1, <1>2, WrittenResolvesNone

LEMMA ReconcileResolvesNone ==
  ASSUME StoreInv, NEW batch \in SUBSET CleanupDue, NEW n, Reconcile(batch, n)
  PROVE  NoneResolved
<1>1. \A a \in Attempts, g \in Generations : <<a, g>> \in batch => DueFor(a, g)
  BY DEF CleanupDue
<1>2. \A a \in Attempts, g \in Generations :
        resources'[a][g] = IF <<a, g>> \in batch THEN StoppedRow(a, g) ELSE resources[a][g]
  BY DEF Reconcile
<1> QED
  BY <1>1, <1>2, StoppedRowIs DEF NoneResolved

\* The other callers of the store take its steps, and resolve nothing.
LEMMA OthersResolveNone ==
  ASSUME StoreInv, OtherStep
  PROVE  Next /\ NoneResolved
<1>1. CASE Tick \/ ExpireSome
  BY <1>1, SameResolvesNone DEF Tick, ExpireSome, Expire, Next
<1>2. ASSUME NEW batch \in SUBSET CleanupDue, NEW n \in 1..Limit, Reconcile(batch, n)
      PROVE  Next /\ NoneResolved
  BY <1>2, ReconcileResolvesNone DEF Next, ReconcileSome
<1>3. ASSUME NEW a \in Attempts, NEW deadline \in 0..MaxTime, Create(a, deadline)
      PROVE  Next /\ NoneResolved
  BY <1>3, SameResolvesNone DEF Create, WriteAttempt, BackendStep, Next
<1>4. ASSUME NEW a \in Attempts, NEW g \in Generations,
             \/ Leave(a, g)
             \/ DenyAttempt(a, g)
             \/ BeginReset(a, g)
             \/ PublishReady(a, g, attempts[a].version)
             \/ PublishResetReady(a, g, attempts[a].version)
             \/ FailReset(a, g, attempts[a].version)
             \/ CompleteCleanup(a, g)
      PROVE  Next /\ NoneResolved
  <2>1. resources' = resources
    BY <1>4 DEF Leave, DenyAttempt, BeginReset, PublishReady, PublishResetReady, FailReset,
      CompleteCleanup, WriteAttempt
  <2>2. BackendStep(a)
    BY <1>4 DEF BackendStep
  <2> QED
    BY <2>1, <2>2, SameResolvesNone DEF Next
<1>5. ASSUME NEW a \in Attempts, NEW g \in Generations, Accept(a, g)
      PROVE  Next /\ NoneResolved
  <2> DEFINE row == [NoResource EXCEPT !.state = "REQUESTED"]
  <2>1. WriteResource(a, g, row) /\ row.state # "RESOLVED"
    BY <1>5 DEF Accept, NoResource
  <2>2. NoneResolved
    BY <2>1, WrittenResolvesNone
  <2> QED
    BY <1>5, <2>2 DEF ControlStep, Next
<1>6. ASSUME NEW a \in Attempts, NEW g \in Generations,
             NEW state \in ResourceStates \ {"RUNNING", "RESOLVED"},
             Requested(a, g, state), Transition(a, g, resources[a][g].version, state)
      PROVE  Next /\ NoneResolved
  <2>1. NoneResolved
    BY <1>6, TransitionResolvesNone
  <2>2. ControlStep(a)
    BY <1>6 DEF ControlStep
  <2> QED
    BY <2>1, <2>2 DEF Next
<1>7. ASSUME NEW a \in Attempts, NEW g \in Generations, DenyResource(a, g)
      PROVE  Next /\ NoneResolved
  BY <1>7, DenialResolvesNone DEF ControlStep, Next
<1>8. ASSUME NEW a \in Attempts, NEW g \in Generations, NEW retryAt \in 1..MaxTime,
             CleanupFailed(a, g, resources[a][g].version, retryAt)
      PROVE  Next /\ NoneResolved
  <2> DEFINE row == [resources[a][g] EXCEPT !.state = "FAILED", !.version = @ + 1]
  <2>1. WriteResource(a, g, row) /\ resources[a][g] \in Resource
    BY <1>8 DEF CleanupFailed, StoreInv, TypeOK
  <2>2. row.state = "FAILED"
    BY <2>1 DEF Resource
  <2> HIDE DEF row
  <2>3. NoneResolved
    BY <2>1, <2>2, WrittenResolvesNone
  <2> QED
    BY <1>8, <2>3 DEF ControlStep, Next
<1> QED
  BY <1>1, <1>2, <1>3, <1>4, <1>5, <1>6, <1>7, <1>8 DEF OtherStep, ReconcileSome

-----------------------------------------------------------------------------
(* What a request has read is behind what the store holds *)

\* The generation a request acts on has been reserved.  If the room it has read
\* was running, then the room has not become READY again unless the sandbox was
\* replaced; and what it resolves with has been observed.
Knows(q, rooms, seen) ==
  /\ q.call = "create" => q.room.state = "NONE" /\ q.value \in Nat
  /\ q.call \notin {"idle", "create"} =>
       /\ q.attempt \in Attempts
       /\ q.generation \in Generations
       /\ rooms[q.attempt].state # "NONE"
       /\ q.generation <= rooms[q.attempt].generation
       /\ /\ q.room.state \in {"RUNNING", "RESOLVED"}
          /\ rooms[q.attempt].generation = q.generation
          => rooms[q.attempt].state \in PastReady
       /\ q.call \in {"observe", "resolve"} => q.room.state = "RUNNING"
       /\ q.call = "resolve" => <<q.attempt, q.generation, q.value>> \in seen

\* What was recorded names a room there is, and the keys verify derives carry
\* the phase, the sandbox and the version that the request names.
EntryIs(x, rooms) ==
  /\ x.actor \in {"user", "backend", "control-plane"}
  /\ x.attempt \in Attempts
  /\ rooms[x.attempt].state # "NONE"
  /\ x.actor = "control-plane" =>
       \E k, a, g, v, d :
         \/ x.key = <<k, "running", a, g, v>> /\ x.request = <<"RUNNING", <<a, g, v>>>>
         \/ x.key = <<k, "resolved", a, g, v>> /\ x.request = <<"RESOLVED", <<a, g, v>>, d>>
  /\ x.actor = "backend" =>
       \E k, a, g, v, phase :
         x.key = <<k, phase, a, g, v>> /\ x.request = <<phase, <<a, g, v>>>>

\* A sandbox is not RESOLVED before its room is published RUNNING.
NotAhead ==
  \A a \in Attempts, g \in Generations :
    attempts[a].state = "READY" /\ attempts[a].generation = g =>
      resources[a][g].state # "RESOLVED"

RequestInv ==
  /\ StoreInv
  /\ requests \in [Requests -> Request]
  /\ observed \subseteq Attempts \X Generations \X Digests
  /\ \A r \in Requests : Knows(requests[r], attempts, observed)
  /\ \A x \in log : EntryIs(x, attempts)
  /\ NotAhead
  /\ ResolvedIsObserved

LEMMA KnowsKept ==
  ASSUME StoreInv, StoreInv', RoomsGoOn, NEW q \in Request,
         Knows(q, attempts, observed), observed \subseteq observed'
  PROVE  Knows(q, attempts', observed')
<1>1. CASE q.call \in {"idle", "create"}
  BY <1>1 DEF Knows
<1>2. CASE q.call \notin {"idle", "create"}
  <2>1. /\ q.attempt \in Attempts
        /\ attempts[q.attempt] \in Attempt
        /\ attempts'[q.attempt] \in Attempt
    BY <1>2 DEF Knows, StoreInv, TypeOK
  <2>2. CASE attempts'[q.attempt] = attempts[q.attempt]
    BY <1>2, <2>2 DEF Knows
  <2>3. CASE GoesOn(q.attempt, attempts[q.attempt], attempts'[q.attempt])
    BY <1>2, <2>1, <2>3 DEF Knows, GoesOn, Attempt, Generations
  <2> QED
    BY <2>1, <2>2, <2>3 DEF RoomsGoOn
<1> QED
  BY <1>1, <1>2

LEMMA EntryKept ==
  ASSUME RoomsGoOn, NEW x, EntryIs(x, attempts)
  PROVE  EntryIs(x, attempts')
<1>1. attempts'[x.attempt].state # "NONE"
  BY DEF EntryIs, RoomsGoOn, GoesOn
<1> QED
  BY <1>1 DEF EntryIs

\* The rows follow where no sandbox becomes RESOLVED.
LEMMA RowsFollow ==
  ASSUME RequestInv, StoreInv', RowsMove, RoomsGoOn, NoneResolved,
         log \subseteq log', observed \subseteq observed'
  PROVE  NotAhead' /\ ResolvedIsObserved'
<1>1. ASSUME NEW a \in Attempts, NEW g \in Generations,
             attempts'[a].state = "READY", attempts'[a].generation = g
      PROVE  resources'[a][g].state # "RESOLVED"
  BY <1>1 DEF RequestInv, NotAhead, RoomsGoOn, GoesOn, NoneResolved
<1>2. ASSUME NEW a \in Attempts, NEW g \in Generations, resources'[a][g].state = "RESOLVED"
      PROVE  \E x \in log', d \in Digests :
               /\ \E v \in 0..resources'[a][g].version : x.request = <<"RESOLVED", <<a, g, v>>, d>>
               /\ <<a, g, d>> \in observed'
  <2>1. resources[a][g].state = "RESOLVED"
    BY <1>2 DEF NoneResolved
  <2>2. PICK x \in log, d \in Digests, v \in 0..resources[a][g].version :
          x.request = <<"RESOLVED", <<a, g, v>>, d>> /\ <<a, g, d>> \in observed
    BY <2>1 DEF RequestInv, ResolvedIsObserved
  <2>3. resources[a][g] \in Resource /\ resources'[a][g] \in Resource
    BY DEF RequestInv, StoreInv, TypeOK
  <2>4. resources'[a][g].version >= resources[a][g].version
    BY <2>1, <2>3 DEF RowsMove, ResourceMoves, Resource
  <2>5. v \in 0..resources'[a][g].version
    BY <2>2, <2>3, <2>4 DEF Resource
  <2> QED
    BY <2>2, <2>5
<1> QED
  BY <1>1, <1>2 DEF NotAhead, ResolvedIsObserved

\* One request takes its turn: the others have read what they had read.
LEMMA TurnKeeps ==
  ASSUME RequestInv, StoreInv', RoomsGoOn, NotAhead', ResolvedIsObserved',
         observed \subseteq observed',
         observed' \subseteq Attempts \X Generations \X Digests,
         \A x \in log' \ log : EntryIs(x, attempts'),
         NEW r \in Requests, NEW q \in Request, Turns(r, q),
         Knows(q, attempts', observed')
  PROVE  RequestInv'
<1>1. requests' \in [Requests -> Request]
  BY DEF RequestInv, Turns
<1>2. ASSUME NEW s \in Requests
      PROVE  Knows(requests'[s], attempts', observed')
  <2>1. requests'[s] = IF s = r THEN q ELSE requests[s]
    BY DEF RequestInv, Turns
  <2>2. requests[s] \in Request /\ Knows(requests[s], attempts, observed)
    BY DEF RequestInv
  <2>3. Knows(requests[s], attempts', observed')
    BY <2>2, KnowsKept DEF RequestInv
  <2> QED
    BY <2>1, <2>3
<1>3. \A x \in log' : EntryIs(x, attempts')
  BY EntryKept DEF RequestInv
<1> QED
  BY <1>1, <1>2, <1>3 DEF RequestInv

LEMMA StoreStepMoves ==
  ASSUME StoreInv, [Next]_vars
  PROVE  StoreInv' /\ RowsMove /\ RoomsGoOn
BY EveryStepKeeps, EveryStepMoves, EveryStepGoesOn

-----------------------------------------------------------------------------
(* The steps of a request *)

LEMMA IdleKnows ==
  /\ Idle \in Request
  /\ \A rooms, seen : Knows(Idle, rooms, seen)
<1>1. "NONE" \in AttemptStates \cup ResourceStates \cup {"NONE"} /\ 0 \in 0..MaxGeneration
  BY StoreAssumption
<1>2. NoRow \in Row
  BY <1>1 DEF NoRow, Row
<1> QED
  BY <1>1, <1>2 DEF Idle, Request, Knows

\* A request that only reads, or gives up.
LEMMA ReadingKeeps ==
  ASSUME RequestInv, UNCHANGED <<vars, log>>, observed \subseteq observed',
         observed' \subseteq Attempts \X Generations \X Digests,
         NEW r \in Requests, NEW q \in Request, Turns(r, q),
         Knows(q, attempts, observed')
  PROVE  RequestInv'
<1>1. StoreInv' /\ RowsMove /\ RoomsGoOn
  BY StoreStepMoves DEF RequestInv
<1>2. attempts' = attempts /\ resources' = resources
  BY DEF vars
<1>3. NotAhead' /\ ResolvedIsObserved'
  BY <1>1, <1>2, RowsFollow, SameResolvesNone
<1> QED
  BY <1>1, <1>2, <1>3, TurnKeeps

LEMMA EnterKeeps ==
  ASSUME RequestInv, NEW r \in Requests, NEW k \in Keys, Enter(r, k)
  PROVE  RequestInv'
<1> DEFINE q == [Idle EXCEPT !.call = "create", !.key = k, !.value = clock + AttemptTtl]
<1>1. clock + AttemptTtl \in Nat
  BY RequestAssumption DEF RequestInv, StoreInv, TypeOK
<1>2. q \in Request
  BY <1>1, IdleKnows DEF Request, Calls
<1>3. q.call = "create" /\ q.room.state = "NONE" /\ q.value \in Nat
  BY <1>1 DEF Idle, NoRow
<1>4. Turns(r, q) /\ UNCHANGED <<vars, log, observed>>
  BY DEF Enter
<1> HIDE DEF q
<1> QED
  BY <1>2, <1>3, <1>4, ReadingKeeps DEF Knows, RequestInv

\* What a row of an attempt there is says of its generations.
LEMMA RowIs ==
  ASSUME StoreInv, NEW a \in Attempts, attempts[a].state # "NONE"
  PROVE  /\ Read(attempts[a]) \in Row
         /\ attempts[a].generation \in Generations
         /\ attempts[a].active # 0 =>
              /\ attempts[a].active \in Generations
              /\ attempts[a].active <= attempts[a].generation
<1>1. attempts[a] \in Attempt /\ AttemptShape(a)
  BY DEF StoreInv, TypeOK, RoomInv
<1>2. attempts[a].active \in {0, attempts[a].generation - 1, attempts[a].generation}
  <2>1. attempts[a].state \in {"PROVISIONING", "RESETTING", "READY", "RUNNING", "RESOLVED",
                               "STOPPING", "FAILED", "DESTROYED"}
    BY <1>1 DEF Attempt, AttemptStates
  <2> QED
    BY <1>1, <2>1 DEF AttemptShape, Published
<1> QED
  BY <1>1, <1>2 DEF AttemptShape, Attempt, Generations, Read, Row

LEMMA ActOnRoomKeeps ==
  ASSUME RequestInv, NEW r \in Requests, NEW k \in Keys, NEW a \in Attempts,
         NEW call \in {"begin_reset", "leave"}, ActOnRoom(r, k, a, call)
  PROVE  RequestInv'
<1> DEFINE q == [Idle EXCEPT !.call = call, !.key = k, !.attempt = a,
                             !.generation = attempts[a].generation]
<1>1. attempts[a].state # "NONE" /\ attempts[a].generation \in Generations
  BY RowIs DEF ActOnRoom, RequestInv
<1>2. q \in Request
  <2>1. /\ call \in Calls \cup {"idle"}
        /\ k \in Keys \cup {"none"}
        /\ a \in Attempts \cup {0}
        /\ attempts[a].generation \in 0..MaxGeneration
    BY <1>1, StoreAssumption DEF Calls, Generations
  <2> QED
    BY <2>1, IdleKnows DEF Request
<1>3. /\ q.call = call
      /\ q.attempt = a
      /\ q.generation = attempts[a].generation
      /\ q.room.state = "NONE"
  BY DEF Idle, NoRow
<1>4. Turns(r, q) /\ UNCHANGED <<vars, log, observed>>
  BY DEF ActOnRoom
<1> HIDE DEF q
<1>5. Knows(q, attempts, observed)
  BY <1>1, <1>3 DEF Knows, Generations
<1> QED
  BY <1>2, <1>4, <1>5, ReadingKeeps DEF RequestInv

LEMMA VerifyKeeps ==
  ASSUME RequestInv, NEW r \in Requests, NEW k \in Keys, NEW a \in Attempts,
         Verify(r, k, a)
  PROVE  RequestInv'
<1> DEFINE q == [Idle EXCEPT !.call = "room_id", !.key = k, !.attempt = a,
                             !.generation = attempts[a].active,
                             !.room = Read(attempts[a])]
<1>1. attempts[a].active # 0 /\ attempts[a].state # "NONE"
  BY DEF Verify, RequestInv, StoreInv, RoomInv, AttemptShape, NoAttempt
<1>2. /\ Read(attempts[a]) \in Row
      /\ attempts[a].active \in Generations
      /\ attempts[a].active <= attempts[a].generation
  BY <1>1, RowIs DEF RequestInv
<1>3. q \in Request
  <2>1. /\ "room_id" \in Calls \cup {"idle"}
        /\ k \in Keys \cup {"none"}
        /\ a \in Attempts \cup {0}
        /\ attempts[a].active \in 0..MaxGeneration
    BY <1>2, StoreAssumption DEF Calls, Generations
  <2> QED
    BY <1>2, <2>1, IdleKnows DEF Request
<1>4. /\ q.call = "room_id"
      /\ q.attempt = a
      /\ q.generation = attempts[a].active
      /\ q.room.state = attempts[a].state
  BY DEF Idle, Read
<1>5. Turns(r, q) /\ UNCHANGED <<vars, log, observed>>
  BY DEF Verify
<1> HIDE DEF q
<1>6. Knows(q, attempts, observed)
  BY <1>1, <1>2, <1>4 DEF Knows, PastReady
<1> QED
  BY <1>3, <1>5, <1>6, ReadingKeeps DEF RequestInv

\* The next phase of verify, from what it has read.
LEMMA ProceedsKeeps ==
  ASSUME RequestInv, UNCHANGED <<vars, log, observed>>, NEW r \in Requests,
         NEW q \in Request, q.call \notin {"idle", "create"},
         Knows(q, attempts, observed), Proceeds(r, q)
  PROVE  RequestInv'
<1> DEFINE call == Phase(q.room.state, q.sandbox.state)
<1>1. CASE call = "idle"
  <2>1. Turns(r, Idle)
    BY <1>1 DEF Proceeds
  <2> QED
    BY <2>1, IdleKnows, ReadingKeeps DEF RequestInv
<1>2. CASE call # "idle"
  <2> DEFINE next == [q EXCEPT !.call = call]
  <2>1. Turns(r, next)
    BY <1>2 DEF Proceeds
  <2>2. /\ call \in {"run", "publish_running", "observe", "publish_resolved"}
        /\ call = "observe" => q.room.state = "RUNNING"
    BY <1>2 DEF Phase
  <2> HIDE DEF call
  <2>3. /\ next \in Request
        /\ next.call = call
        /\ next.attempt = q.attempt
        /\ next.generation = q.generation
        /\ next.room = q.room
        /\ next.value = q.value
    BY <2>2 DEF Request, Calls
  <2> HIDE DEF next
  <2>4. Knows(next, attempts, observed)
    BY <2>2, <2>3 DEF Knows
  <2> QED
    BY <2>1, <2>3, <2>4, ReadingKeeps DEF RequestInv
<1> QED
  BY <1>1, <1>2

LEMMA SelectRoomKeeps ==
  ASSUME RequestInv, NEW r \in Requests, SelectRoom(r)
  PROVE  RequestInv'
<1> DEFINE q == requests[r]
           next == [q EXCEPT !.call = "inspect"]
<1>1. q \in Request /\ Knows(q, attempts, observed) /\ q.call = "room_id"
  BY DEF RequestInv, SelectRoom
<1>2. Turns(r, next) /\ UNCHANGED <<vars, log, observed>>
  BY DEF SelectRoom
<1> HIDE DEF q
<1>3. /\ next \in Request
      /\ next.call = "inspect"
      /\ next.attempt = q.attempt
      /\ next.generation = q.generation
      /\ next.room = q.room
  BY <1>1 DEF Request, Calls
<1> HIDE DEF next
<1>4. Knows(next, attempts, observed)
  BY <1>1, <1>3 DEF Knows
<1> QED
  BY <1>2, <1>3, <1>4, ReadingKeeps DEF RequestInv

LEMMA SandboxRead ==
  ASSUME StoreInv, NEW a \in Attempts, NEW g \in Generations
  PROVE  Read(resources[a][g]) \in Row
<1>1. resources[a][g] \in Resource
  BY DEF StoreInv, TypeOK
<1> QED
  BY <1>1 DEF Resource, Read, Row

LEMMA InspectResourceKeeps ==
  ASSUME RequestInv, NEW r \in Requests, InspectResource(r)
  PROVE  RequestInv'
<1> DEFINE q == requests[r]
           row == Read(resources[q.attempt][q.generation])
           next == [q EXCEPT !.sandbox = row]
<1>1. q \in Request /\ Knows(q, attempts, observed) /\ q.call = "inspect"
  BY DEF RequestInv, InspectResource
<1>2. Proceeds(r, next) /\ UNCHANGED <<vars, log, observed>>
  BY DEF InspectResource
<1> HIDE DEF q
<1>3. row \in Row
  BY <1>1, SandboxRead DEF Knows, RequestInv
<1> HIDE DEF row
<1>4. /\ next \in Request
      /\ next.call = q.call
      /\ next.attempt = q.attempt
      /\ next.generation = q.generation
      /\ next.room = q.room
  BY <1>1, <1>3 DEF Request
<1> HIDE DEF next
<1>5. Knows(next, attempts, observed)
  BY <1>1, <1>4 DEF Knows
<1> QED
  BY <1>1, <1>2, <1>4, <1>5, ProceedsKeeps

LEMMA RereadKeeps ==
  ASSUME RequestInv, NEW r \in Requests, Reread(r)
  PROVE  RequestInv'
<1> DEFINE q == requests[r]
           row == Read(resources[q.attempt][q.generation])
           next == [q EXCEPT !.sandbox = row, !.value = 0]
<1>1. q \in Request /\ Knows(q, attempts, observed) /\ q.call = "reread"
  BY DEF RequestInv, Reread
<1>2. Proceeds(r, next) /\ UNCHANGED <<vars, log, observed>>
  BY DEF Reread
<1> HIDE DEF q
<1>3. row \in Row
  BY <1>1, SandboxRead DEF Knows, RequestInv
<1> HIDE DEF row
<1>4. /\ next \in Request
      /\ next.call = q.call
      /\ next.attempt = q.attempt
      /\ next.generation = q.generation
      /\ next.room = q.room
  BY <1>1, <1>3 DEF Request
<1> HIDE DEF next
<1>5. Knows(next, attempts, observed)
  BY <1>1, <1>4 DEF Knows
<1> QED
  BY <1>1, <1>2, <1>4, <1>5, ProceedsKeeps

LEMMA ReinspectKeeps ==
  ASSUME RequestInv, NEW r \in Requests, Reinspect(r)
  PROVE  RequestInv'
<1> DEFINE q == requests[r]
           row == Read(attempts[q.attempt])
           next == [q EXCEPT !.room = row]
<1>1. q \in Request /\ Knows(q, attempts, observed) /\ q.call = "reinspect"
  BY DEF RequestInv, Reinspect
<1>2. Proceeds(r, next) /\ UNCHANGED <<vars, log, observed>>
  BY DEF Reinspect
<1> HIDE DEF q
<1>3. row \in Row /\ row.state = attempts[q.attempt].state
  BY <1>1, RowIs DEF Knows, RequestInv, Read
<1> HIDE DEF row
<1>4. /\ next \in Request
      /\ next.call = q.call
      /\ next.attempt = q.attempt
      /\ next.generation = q.generation
      /\ next.room = row
  BY <1>1, <1>3 DEF Request
<1> HIDE DEF next
<1>5. Knows(next, attempts, observed)
  BY <1>1, <1>3, <1>4 DEF Knows, PastReady
<1> QED
  BY <1>1, <1>2, <1>4, <1>5, ProceedsKeeps

LEMMA ObserveKeeps ==
  ASSUME RequestInv, NEW r \in Requests, NEW d \in Digests, Observe(r, d)
  PROVE  RequestInv'
<1> DEFINE q == requests[r]
           next == [q EXCEPT !.call = "resolve", !.value = d]
<1>1. q \in Request /\ Knows(q, attempts, observed) /\ q.call = "observe"
  BY DEF RequestInv, Observe
<1>2. /\ Turns(r, next)
      /\ UNCHANGED <<vars, log>>
      /\ observed' = observed \cup {<<q.attempt, q.generation, d>>}
  BY DEF Observe
<1> HIDE DEF q
<1>3. /\ next \in Request
      /\ next.call = "resolve"
      /\ next.attempt = q.attempt
      /\ next.generation = q.generation
      /\ next.room = q.room
      /\ next.value = d
  BY <1>1 DEF Request, Calls
<1> HIDE DEF next
<1>4. /\ observed \subseteq observed'
      /\ observed' \subseteq Attempts \X Generations \X Digests
  BY <1>1, <1>2 DEF Knows, RequestInv
<1>5. Knows(next, attempts, observed')
  BY <1>1, <1>2, <1>3 DEF Knows
<1> QED
  BY <1>2, <1>3, <1>4, <1>5, ReadingKeeps

\* What the request does with a receipt.
LEMMA AnsweredKnows ==
  ASSUME NEW q \in Request, q.call \in KeyedCalls \ {"create"}, NEW rooms, NEW seen,
         Knows(q, rooms, seen)
  PROVE  Answered(q) \in Request /\ Knows(Answered(q), rooms, seen)
<1>1. ASSUME NEW call \in {"reread", "reinspect"}
      PROVE  /\ [q EXCEPT !.call = call] \in Request
             /\ Knows([q EXCEPT !.call = call], rooms, seen)
  <2> DEFINE next == [q EXCEPT !.call = call]
  <2>1. /\ next \in Request
        /\ next.call = call
        /\ next.attempt = q.attempt
        /\ next.generation = q.generation
        /\ next.room = q.room
    BY DEF Request, Calls
  <2> HIDE DEF next
  <2>2. Knows(next, rooms, seen)
    BY <2>1 DEF Knows, KeyedCalls
  <2> QED
    BY <2>1, <2>2 DEF next
<1>2. CASE q.call \in {"run", "resolve"}
  BY <1>1, <1>2 DEF Answered
<1>3. CASE q.call \in {"publish_running", "publish_resolved"}
  BY <1>1, <1>3 DEF Answered
<1>4. CASE q.call \in {"provision", "begin_reset", "leave"}
  BY <1>4, IdleKnows DEF Answered
<1> QED
  BY <1>2, <1>3, <1>4 DEF KeyedCalls

\* The room that create has made, or had made before.
LEMMA CreatedKnows ==
  ASSUME NEW q \in Request, q.call = "create", NEW a \in Attempts, NEW rooms, NEW seen,
         Knows(q, rooms, seen), rooms[a].state # "NONE",
         rooms[a].generation \in Generations
  PROVE  LET next == [Answered(q) EXCEPT !.attempt = a, !.generation = 1]
         IN  next \in Request /\ Knows(next, rooms, seen)
<1> DEFINE next == [q EXCEPT !.call = "provision", !.attempt = a, !.generation = 1]
<1>1. [Answered(q) EXCEPT !.attempt = a, !.generation = 1] = next
  BY DEF Answered, Request
<1>2. 1 \in Generations /\ 1 \in 0..MaxGeneration /\ 1 <= rooms[a].generation
  BY StoreAssumption DEF Generations
<1>3. /\ next \in Request
      /\ next.call = "provision"
      /\ next.attempt = a
      /\ next.generation = 1
      /\ next.room = q.room
  BY <1>2 DEF Request, Calls
<1> HIDE DEF next
<1>4. Knows(next, rooms, seen)
  BY <1>2, <1>3 DEF Knows
<1> QED
  BY <1>1, <1>3, <1>4

LEMMA CreateRoomKeeps ==
  ASSUME RequestInv, NEW r \in Requests, NEW a \in Attempts, CreateRoom(r, a)
  PROVE  RequestInv'
<1> DEFINE q == requests[r]
           next == [Answered(q) EXCEPT !.attempt = a, !.generation = 1]
<1>1. q \in Request /\ Knows(q, attempts, observed) /\ q.call = "create"
  BY DEF RequestInv, CreateRoom
<1>2. /\ Create(a, q.value)
      /\ Record(q, a)
      /\ Turns(r, next)
      /\ observed' = observed
  BY DEF CreateRoom
<1> HIDE DEF q
<1>3. q.value \in Nat
  BY <1>1 DEF Knows
<1>4. StoreInv' /\ RowsMove /\ RoomsGoOn
  BY <1>2, <1>3, CreateKeeps, CreateGoesOn, WrittenAttemptMoves DEF Create, RequestInv
<1>5. NoneResolved
  BY <1>2, SameResolvesNone DEF Create, WriteAttempt
<1>6. log \subseteq log' /\ \A x \in log' \ log : x.attempt = a /\ x.actor = "user"
  BY <1>1, <1>2 DEF Record, Entry
<1>7. attempts'[a].state # "NONE" /\ attempts'[a].generation \in Generations
  <2>1. attempts'[a].state = "PROVISIONING"
    BY <1>2 DEF Create, WriteAttempt, NoAttempt, RequestInv, StoreInv, TypeOK
  <2>2. attempts'[a].generation = 1
    BY <1>2 DEF Create, WriteAttempt, NoAttempt, RequestInv, StoreInv, TypeOK
  <2> QED
    BY <2>1, <2>2, StoreAssumption DEF Generations
<1>8. \A x \in log' \ log : EntryIs(x, attempts')
  BY <1>6, <1>7 DEF EntryIs
<1>9. NotAhead' /\ ResolvedIsObserved'
  BY <1>2, <1>4, <1>5, <1>6, RowsFollow
<1>10. Knows(q, attempts', observed')
  BY <1>1, <1>2, <1>4, KnowsKept DEF RequestInv
<1>11. next \in Request /\ Knows(next, attempts', observed')
  BY <1>1, <1>7, <1>10, CreatedKnows
<1> HIDE DEF next
<1> QED
  BY <1>2, <1>4, <1>8, <1>9, <1>11, TurnKeeps DEF RequestInv

LEMMA ReplayKeeps ==
  ASSUME RequestInv, NEW r \in Requests, Replay(r)
  PROVE  RequestInv'
<1> DEFINE q == requests[r]
<1>1. q \in Request /\ Knows(q, attempts, observed) /\ q.call \in KeyedCalls
  BY DEF RequestInv, Replay
<1>2. UNCHANGED <<vars, log, observed>>
  BY DEF Replay
<1>3. PICK x \in log :
        Turns(r, [Answered(q) EXCEPT
                    !.attempt = IF q.call = "create" THEN x.attempt ELSE @,
                    !.generation = IF q.call = "create" THEN 1 ELSE @])
  BY DEF Replay
<1> HIDE DEF q
<1>4. CASE q.call = "create"
  <2> DEFINE next == [Answered(q) EXCEPT !.attempt = x.attempt, !.generation = 1]
  <2>1. Turns(r, next)
    BY <1>3, <1>4
  <2>2. x.attempt \in Attempts /\ attempts[x.attempt].state # "NONE"
    BY <1>3 DEF RequestInv, EntryIs
  <2>3. attempts[x.attempt].generation \in Generations
    BY <2>2, RowIs DEF RequestInv
  <2>4. next \in Request /\ Knows(next, attempts, observed)
    BY <1>1, <1>4, <2>2, <2>3, CreatedKnows
  <2> HIDE DEF next
  <2> QED
    BY <1>2, <2>1, <2>4, ReadingKeeps DEF RequestInv
<1>5. CASE q.call # "create"
  <2>1. Answered(q) \in Request /\ Knows(Answered(q), attempts, observed)
    BY <1>1, <1>5, AnsweredKnows
  <2>2. [Answered(q) EXCEPT !.attempt = Answered(q).attempt,
                            !.generation = Answered(q).generation] = Answered(q)
    BY <2>1 DEF Request
  <2>3. Turns(r, Answered(q))
    BY <1>3, <1>5, <2>2
  <2> QED
    BY <1>2, <2>1, <2>3, ReadingKeeps DEF RequestInv
<1> QED
  BY <1>4, <1>5

\* A call that is carried out is a step of the store.
LEMMA PerformedStep ==
  ASSUME NEW q, q.attempt \in Attempts, q.generation \in Generations, Performs(q)
  PROVE  Next
<1> DEFINE a == q.attempt
           g == q.generation
<1>1. CASE \/ BeginReset(a, g) \/ Leave(a, g)
           \/ PublishRunning(a, g, q.room.version)
           \/ PublishResolved(a, g, q.room.version)
  <2>1. \/ BeginReset(a, g) \/ Leave(a, g)
        \/ PublishRunning(a, g, attempts[a].version)
        \/ PublishResolved(a, g, attempts[a].version)
    BY <1>1 DEF PublishRunning, PublishResolved, PublishRuntimeState, PublishRuntimeStateOk
  <2>2. BackendStep(a)
    BY <2>1 DEF BackendStep
  <2> QED
    BY <2>2 DEF Next
<1>2. ASSUME NEW state \in {"RUNNING", "RESOLVED"},
             Transition(a, g, q.sandbox.version, state)
      PROVE  Next
  <2>1. Transition(a, g, resources[a][g].version, state)
    BY <1>2 DEF Transition, TransitionOk
  <2>2. state \in ResourceStates /\ Requested(a, g, state)
    BY DEF ResourceStates, Requested
  <2>3. ControlStep(a)
    BY <2>1, <2>2 DEF ControlStep
  <2> QED
    BY <2>3 DEF Next
<1> QED
  BY <1>1, <1>2 DEF Performs

\* What a call records agrees with the key it records it under.
LEMMA RecordedIs ==
  ASSUME NEW q, q.call \in KeyedCalls \ {"create"}, q.attempt \in Attempts,
         Record(q, q.attempt), NEW rooms, rooms[q.attempt].state # "NONE"
  PROVE  log \subseteq log' /\ \A x \in log' \ log : EntryIs(x, rooms)
<1> DEFINE entry == [actor   |-> Entry(q).actor,
                     key     |-> Entry(q).key,
                     request |-> Entry(q).request,
                     attempt |-> q.attempt]
<1>1. log' = log \cup {entry}
  BY DEF Record
<1>2. /\ entry.actor = Entry(q).actor
      /\ entry.key = Entry(q).key
      /\ entry.request = Entry(q).request
      /\ entry.attempt = q.attempt
  OBVIOUS
<1> HIDE DEF entry
<1>3. CASE q.call \in {"provision", "begin_reset", "leave"}
  <2>1. Entry(q).actor = "user"
    BY <1>3 DEF Entry
  <2> QED
    BY <1>1, <1>2, <2>1 DEF EntryIs
<1>4. CASE q.call = "run"
  <2>1. /\ Entry(q).actor = "control-plane"
        /\ Entry(q).key = <<q.key, "running", q.attempt, q.generation, q.sandbox.version>>
        /\ Entry(q).request = <<"RUNNING", <<q.attempt, q.generation, q.sandbox.version>>>>
    BY <1>4 DEF Entry, PhaseKey
  <2> QED
    BY <1>1, <1>2, <2>1 DEF EntryIs
<1>5. CASE q.call = "resolve"
  <2>1. /\ Entry(q).actor = "control-plane"
        /\ Entry(q).key = <<q.key, "resolved", q.attempt, q.generation, q.sandbox.version>>
        /\ Entry(q).request =
             <<"RESOLVED", <<q.attempt, q.generation, q.sandbox.version>>, q.value>>
    BY <1>5 DEF Entry, PhaseKey
  <2> QED
    BY <1>1, <1>2, <2>1 DEF EntryIs
<1>6. ASSUME NEW phase, \/ q.call = "publish_running" /\ phase = "publish-running"
                        \/ q.call = "publish_resolved" /\ phase = "publish-resolved"
      PROVE  log \subseteq log' /\ \A x \in log' \ log : EntryIs(x, rooms)
  <2>1. /\ Entry(q).actor = "backend"
        /\ Entry(q).key = <<q.key, phase, q.attempt, q.generation, q.room.version>>
        /\ Entry(q).request = <<phase, <<q.attempt, q.generation, q.room.version>>>>
    BY <1>6 DEF Entry, PhaseKey
  <2> QED
    BY <1>1, <1>2, <2>1 DEF EntryIs
<1> QED
  BY <1>3, <1>4, <1>5, <1>6 DEF KeyedCalls

\* The sandbox becomes RESOLVED: its room was published RUNNING before the
\* observation, and the digest is the one that was observed.
LEMMA ResolvingFollows ==
  ASSUME RequestInv, NEW q \in Request, q.call = "resolve",
         Knows(q, attempts, observed), Record(q, q.attempt),
         Transition(q.attempt, q.generation, q.sandbox.version, "RESOLVED"),
         observed' = observed
  PROVE  NotAhead' /\ ResolvedIsObserved'
<1> DEFINE a == q.attempt
           g == q.generation
           old == resources[a][g]
           row == [old EXCEPT !.state   = "RESOLVED",
                              !.version = @ + 1,
                              !.intents = @ \cup (IF "RESOLVED" \in {"STOPPING", "FAILED", "DESTROYED"}
                                                  THEN {"destroy"} ELSE {})
                                            \cup IfExpired(ControlExpired(a)),
                              !.filled  = @ \cup FilledBy("RESOLVED")]
<1>1. a \in Attempts /\ g \in Generations /\ old \in Resource
  BY DEF Knows, RequestInv, StoreInv, TypeOK
<1>2. WriteResource(a, g, row)
  BY DEF Transition
<1>3. row.version = old.version + 1
  BY <1>1 DEF Resource
<1> HIDE DEF row
<1>4. /\ attempts' = attempts
      /\ \A b \in Attempts, h \in Generations :
           resources'[b][h] = IF b = a /\ h = g THEN row ELSE resources[b][h]
  BY <1>2 DEF WriteResource, RequestInv, StoreInv, TypeOK
<1>5. /\ old.version = q.sandbox.version
      /\ attempts[a].generation = g
  BY DEF Transition, TransitionOk, IsCleanup
<1>6. attempts[a].state # "READY"
  BY <1>5 DEF Knows, PastReady
<1>7. \E x \in log' : x.request = <<"RESOLVED", <<a, g, q.sandbox.version>>, q.value>>
  <2> DEFINE entry == [actor   |-> Entry(q).actor,
                       key     |-> Entry(q).key,
                       request |-> Entry(q).request,
                       attempt |-> a]
  <2>1. entry \in log' /\ entry.request = Entry(q).request
    BY DEF Record
  <2>2. Entry(q).request = <<"RESOLVED", <<a, g, q.sandbox.version>>, q.value>>
    BY DEF Entry
  <2> QED
    BY <2>1, <2>2
<1>8. log \subseteq log'
  BY DEF Record
<1>9. <<a, g, q.value>> \in observed /\ q.value \in Digests
  BY DEF Knows, RequestInv
<1>10. NotAhead'
  BY <1>4, <1>6 DEF NotAhead, RequestInv
<1>11. ASSUME NEW b \in Attempts, NEW h \in Generations, resources'[b][h].state = "RESOLVED"
       PROVE  \E x \in log', d \in Digests :
                /\ \E v \in 0..resources'[b][h].version :
                     x.request = <<"RESOLVED", <<b, h, v>>, d>>
                /\ <<b, h, d>> \in observed'
  <2>1. CASE b = a /\ h = g
    <3>1. q.sandbox.version \in 0..resources'[b][h].version
      BY <1>1, <1>3, <1>4, <1>5, <2>1 DEF Resource
    <3> QED
      BY <1>7, <1>9, <2>1, <3>1
  <2>2. CASE ~(b = a /\ h = g)
    <3>1. resources'[b][h] = resources[b][h]
      BY <1>4, <2>2
    <3>2. PICK x \in log, d \in Digests :
            /\ \E v \in 0..resources[b][h].version : x.request = <<"RESOLVED", <<b, h, v>>, d>>
            /\ <<b, h, d>> \in observed
      BY <1>11, <3>1 DEF RequestInv, ResolvedIsObserved
    <3>3. x \in log'
      BY <1>8
    <3> QED
      BY <3>1, <3>2, <3>3
  <2> QED
    BY <2>1, <2>2
<1> QED
  BY <1>10, <1>11 DEF ResolvedIsObserved

LEMMA PerformKeeps ==
  ASSUME RequestInv, NEW r \in Requests, Perform(r)
  PROVE  RequestInv'
<1> DEFINE q == requests[r]
<1>1. /\ q \in Request
      /\ Knows(q, attempts, observed)
      /\ q.call \in KeyedCalls \ {"create"}
  BY DEF RequestInv, Perform
<1>2. /\ Performs(q)
      /\ Record(q, q.attempt)
      /\ Turns(r, Answered(q))
      /\ observed' = observed
  BY DEF Perform
<1> HIDE DEF q
<1>3. q.attempt \in Attempts /\ q.generation \in Generations
  BY <1>1 DEF Knows, KeyedCalls
<1>4. StoreInv' /\ RowsMove /\ RoomsGoOn
  BY <1>2, <1>3, PerformedStep, StoreStepMoves DEF RequestInv
<1>5. Knows(q, attempts', observed')
  BY <1>1, <1>2, <1>4, KnowsKept DEF RequestInv
<1>6. Answered(q) \in Request /\ Knows(Answered(q), attempts', observed')
  BY <1>1, <1>5, AnsweredKnows
<1>7. attempts'[q.attempt].state # "NONE"
  BY <1>1, <1>5 DEF Knows, KeyedCalls
<1>8. log \subseteq log' /\ \A x \in log' \ log : EntryIs(x, attempts')
  BY <1>1, <1>2, <1>3, <1>7, RecordedIs
<1>9. NotAhead' /\ ResolvedIsObserved'
  <2>1. CASE q.call = "resolve"
    BY <1>1, <1>2, <2>1, ResolvingFollows DEF Performs
  <2>2. CASE q.call = "run"
    <3>1. Transition(q.attempt, q.generation, q.sandbox.version, "RUNNING")
      BY <1>2, <2>2 DEF Performs
    <3>2. NoneResolved
      BY <1>3, <3>1, TransitionResolvesNone DEF RequestInv
    <3> QED
      BY <1>2, <1>4, <1>8, <3>2, RowsFollow
  <2>3. CASE q.call \notin {"run", "resolve"}
    <3>1. resources' = resources
      BY <1>2, <2>3 DEF Performs, BeginReset, Leave, PublishRunning, PublishResolved,
        PublishRuntimeState, WriteAttempt
    <3> QED
      BY <1>2, <1>4, <1>8, <3>1, RowsFollow, SameResolvesNone
  <2> QED
    BY <2>1, <2>2, <2>3
<1> QED
  BY <1>2, <1>4, <1>6, <1>8, <1>9, TurnKeeps DEF RequestInv

LEMMA DeniedKeeps ==
  ASSUME RequestInv, NEW r \in Requests, DeniedByDeadline(r)
  PROVE  RequestInv'
<1> DEFINE q == requests[r]
           a == q.attempt
           g == q.generation
<1>1. /\ q.call \in {"begin_reset", "publish_running", "publish_resolved", "run", "resolve"}
      /\ DenyAttempt(a, g) \/ DenyResource(a, g)
      /\ Turns(r, Idle)
      /\ UNCHANGED <<log, observed>>
  BY DEF DeniedByDeadline
<1>2. a \in Attempts /\ g \in Generations
  BY <1>1 DEF RequestInv, Knows
<1> HIDE DEF a, g
<1>3. Next
  BY <1>1, <1>2 DEF Next, BackendStep, ControlStep
<1>4. NoneResolved
  <2>1. DenyAttempt(a, g) => resources' = resources
    BY DEF DenyAttempt, WriteAttempt
  <2> QED
    BY <1>1, <1>2, <2>1, SameResolvesNone, DenialResolvesNone DEF RequestInv
<1>5. StoreInv' /\ RowsMove /\ RoomsGoOn
  BY <1>3, StoreStepMoves DEF RequestInv
<1>6. NotAhead' /\ ResolvedIsObserved'
  BY <1>1, <1>4, <1>5, RowsFollow
<1> QED
  BY <1>1, <1>5, <1>6, IdleKnows, TurnKeeps DEF RequestInv

LEMMA GiveUpKeeps ==
  ASSUME RequestInv, NEW r \in Requests, GiveUp(r)
  PROVE  RequestInv'
BY IdleKnows, ReadingKeeps DEF GiveUp, RequestInv

\* The other callers move the rows under every request.
LEMMA OthersKeep ==
  ASSUME RequestInv, OtherStep \/ UNCHANGED vars, UNCHANGED requestVars
  PROVE  RequestInv'
<1>1. [Next]_vars /\ NoneResolved
  BY OthersResolveNone, SameResolvesNone DEF RequestInv, vars
<1>2. StoreInv' /\ RowsMove /\ RoomsGoOn
  BY <1>1, StoreStepMoves DEF RequestInv
<1>3. requests' = requests /\ log' = log /\ observed' = observed
  BY DEF requestVars
<1>4. NotAhead' /\ ResolvedIsObserved'
  BY <1>1, <1>2, <1>3, RowsFollow
<1>5. ASSUME NEW r \in Requests
      PROVE  Knows(requests'[r], attempts', observed')
  <2>1. requests[r] \in Request /\ Knows(requests[r], attempts, observed)
    BY DEF RequestInv
  <2> QED
    BY <1>2, <1>3, <2>1, KnowsKept DEF RequestInv
<1>6. \A x \in log' : EntryIs(x, attempts')
  BY <1>2, <1>3, EntryKept DEF RequestInv
<1> QED
  BY <1>2, <1>3, <1>4, <1>5, <1>6 DEF RequestInv

LEMMA RequestStepKeeps ==
  ASSUME RequestInv, NEW r \in Requests, RequestStep(r)
  PROVE  RequestInv'
<1>1. ASSUME NEW k \in Keys,
             \/ Enter(r, k)
             \/ \E a \in Attempts : \/ ActOnRoom(r, k, a, "begin_reset")
                                    \/ ActOnRoom(r, k, a, "leave")
                                    \/ Verify(r, k, a)
      PROVE  RequestInv'
  BY <1>1, EnterKeeps, ActOnRoomKeeps, VerifyKeeps
<1>2. CASE \E a \in Attempts : CreateRoom(r, a)
  BY <1>2, CreateRoomKeeps
<1>3. CASE Perform(r) \/ Replay(r) \/ DeniedByDeadline(r)
  BY <1>3, PerformKeeps, ReplayKeeps, DeniedKeeps
<1>4. CASE VerifyStep(r)
  BY <1>4, SelectRoomKeeps, InspectResourceKeeps, RereadKeeps, ReinspectKeeps, ObserveKeeps
  DEF VerifyStep
<1>5. CASE GiveUp(r)
  BY <1>5, GiveUpKeeps
<1> QED
  BY <1>1, <1>2, <1>3, <1>4, <1>5 DEF RequestStep

LEMMA EveryRequestStepKeeps ==
  ASSUME RequestInv, [RequestsNext]_roomVars
  PROVE  RequestInv'
BY OthersKeep, RequestStepKeeps DEF RequestsNext, roomVars, requestVars

LEMMA RequestsBegin ==
  ASSUME RequestsInit
  PROVE  RequestInv
<1>1. StoreInv /\ \A a \in Attempts : attempts[a] = NoAttempt
  BY InitHolds DEF RequestsInit, Init
<1>2. \A a \in Attempts, g \in Generations : resources[a][g] = NoResource
  BY DEF RequestsInit, Init
<1>3. ResolvedIsObserved /\ NotAhead
  BY <1>1, <1>2 DEF ResolvedIsObserved, NotAhead, NoResource
<1> QED
  BY <1>1, <1>3, IdleKnows DEF RequestsInit, RequestInv

-----------------------------------------------------------------------------
(* What the invariant says of recovery *)

\* The rows of a room in use are at a phase of verify.
LEMMA PhasesGoOn ==
  ASSUME RequestInv
  PROVE  VerifyCanGoOn
<1> SUFFICES ASSUME NEW a \in Attempts, Published(a), Usable(a, attempts[a].generation)
             PROVE  LET sandbox == resources[a][attempts[a].generation].state
                    IN  \/ Phase(attempts[a].state, sandbox) # "idle"
                        \/ attempts[a].state = "RESOLVED" /\ sandbox = "RESOLVED"
  BY DEF VerifyCanGoOn
<1> DEFINE g == attempts[a].generation
           sandbox == resources[a][g].state
<1>1. Reached(a, g)
  BY DEF RequestInv, StoreInv, RoomInv, VerifiedRoom
<1>2. g \in Generations
  BY RowIs DEF RequestInv, Published
<1>3. ~(attempts[a].state = "READY" /\ sandbox = "RESOLVED")
  BY <1>2 DEF RequestInv, NotAhead
<1> QED
  BY <1>1, <1>3 DEF Reached, Published, Phase

\* A key of a phase names the sandbox and the version the request was made for.
LEMMA PhaseKeysMatch ==
  ASSUME RequestInv
  PROVE  PhaseKeysAgree
<1> SUFFICES ASSUME NEW r \in Requests,
                    requests[r].call \in {"run", "publish_running", "publish_resolved"},
                    NEW x \in log, SameKey(x, Entry(requests[r]))
             PROVE  x.request = Entry(requests[r]).request
  BY DEF PhaseKeysAgree, SameRequest
<1> DEFINE q == requests[r]
<1>1. EntryIs(x, attempts)
  BY DEF RequestInv
<1>2. /\ q.call \in {"run", "publish_running", "publish_resolved"}
      /\ x.actor = Entry(q).actor
      /\ x.key = Entry(q).key
  BY DEF SameKey
<1> HIDE DEF q
<1>3. CASE q.call = "run"
  <2>1. /\ Entry(q).actor = "control-plane"
        /\ Entry(q).key = <<q.key, "running", q.attempt, q.generation, q.sandbox.version>>
        /\ Entry(q).request = <<"RUNNING", <<q.attempt, q.generation, q.sandbox.version>>>>
    BY <1>3 DEF Entry, PhaseKey
  <2> QED
    BY <1>1, <1>2, <2>1 DEF EntryIs, q
<1>4. ASSUME NEW phase, \/ q.call = "publish_running" /\ phase = "publish-running"
                        \/ q.call = "publish_resolved" /\ phase = "publish-resolved"
      PROVE  x.request = Entry(q).request
  <2>1. /\ Entry(q).actor = "backend"
        /\ Entry(q).key = <<q.key, phase, q.attempt, q.generation, q.room.version>>
        /\ Entry(q).request = <<phase, <<q.attempt, q.generation, q.room.version>>>>
    BY <1>4 DEF Entry, PhaseKey
  <2> QED
    BY <1>1, <1>2, <2>1 DEF EntryIs
<1> QED
  BY <1>2, <1>3, <1>4 DEF q

\* A sandbox is RESOLVED on the word of an observation of that very sandbox, for
\* any number of requests, keys, resets and retries (recovery.py).
THEOREM ResolvedAlwaysObserved == RequestsSpec => []ResolvedIsObserved
<1>1. RequestInv => ResolvedIsObserved
  BY DEF RequestInv
<1> QED
  BY <1>1, RequestsBegin, EveryRequestStepKeeps, PTL DEF RequestsSpec

\* Wherever a verify stops, another one can go on from the rows it left, and
\* under the keys it derives (recovery.py).
THEOREM VerifyAlwaysGoesOn == RequestsSpec => [](VerifyCanGoOn /\ PhaseKeysAgree)
<1>1. RequestInv => VerifyCanGoOn /\ PhaseKeysAgree
  BY PhasesGoOn, PhaseKeysMatch
<1> QED
  BY <1>1, RequestsBegin, EveryRequestStepKeeps, PTL DEF RequestsSpec

-----------------------------------------------------------------------------
(* The clients of the store, one beside the other callers at a time *)

\* The behaviours with requests are behaviours of the requests, and every
\* behaviour is one of the sessions and one of the migrations.
LEMMA ClientStepIs ==
  ASSUME [ClientNext]_clientVars
  PROVE  /\ client' = client
         /\ ByRequests => [RequestsNext]_roomVars
         /\ ~ByRequests => UNCHANGED requestVars
         /\ [SessionsNext]_sessionVars
         /\ [SchemaNext]_schemaVars
<1>1. CASE UNCHANGED clientVars
  BY <1>1 DEF clientVars, roomVars, accessVars
<1>2. CASE ClientNext
  BY <1>2 DEF ClientNext, StoreNext, ByRequests, accessVars, roomVars
<1> QED
  BY <1>1, <1>2

ClientInv ==
  /\ RequestTypeOK
  /\ ByRequests => RequestInv

LEMMA RequestsTyped ==
  ASSUME RequestInv
  PROVE  RequestTypeOK
BY DEF RequestInv, RequestTypeOK, EntryIs

LEMMA ClientInvariant == ClientSpec => []ClientInv
<1>1. ClientInit => ClientInv
  BY RequestsBegin, RequestsTyped DEF ClientInit, ClientInv
<1>2. ClientInv /\ [ClientNext]_clientVars => ClientInv'
  <2> SUFFICES ASSUME ClientInv, [ClientNext]_clientVars
               PROVE  ClientInv'
    OBVIOUS
  <2>1. client' = client
    BY ClientStepIs
  <2>2. CASE ByRequests
    <3>1. RequestInv'
      BY <2>2, ClientStepIs, EveryRequestStepKeeps DEF ClientInv
    <3>2. RequestTypeOK'
      BY <3>1 DEF RequestInv, RequestTypeOK, EntryIs
    <3> QED
      BY <3>1, <3>2 DEF ClientInv
  <2>3. CASE ~ByRequests
    <3>1. UNCHANGED requestVars /\ ~ByRequests'
      BY <2>1, <2>3, ClientStepIs DEF ByRequests
    <3>2. RequestTypeOK'
      BY <3>1 DEF ClientInv, RequestTypeOK, requestVars
    <3> QED
      BY <3>1, <3>2 DEF ClientInv
  <2> QED
    BY <2>2, <2>3
<1> QED
  BY <1>1, <1>2, PTL DEF ClientSpec

\* The sessions and the migrations of a composed behaviour are those of their
\* own specifications: what is proved of them holds beside the store too.
THEOREM ClientsStayApart == ClientSpec => SessionsSpec /\ SchemaSpec
<1>1. ClientInit => SessionsInit /\ SchemaInit
  BY DEF ClientInit
<1>2. [ClientNext]_clientVars => [SessionsNext]_sessionVars /\ [SchemaNext]_schemaVars
  BY ClientStepIs
<1> QED
  BY <1>1, <1>2, PTL DEF ClientSpec, SessionsSpec, SchemaSpec

\* The types of the requests, the sessions and the migrations, for every choice
\* of whose calls interleave.
THEOREM ClientTypesHold == ClientSpec => []ClientTypeOK
<1>1. ClientInv /\ SessionTypeOK /\ SchemaTypeOK => ClientTypeOK
  BY DEF ClientInv, ClientTypeOK
<1> QED
  BY <1>1, ClientInvariant, ClientsStayApart, SessionTypesHold, SchemaTypesHold, PTL

\* In the composition with the other callers, too, a sandbox is RESOLVED only on
\* the word of an observation of it.
THEOREM RecoveryAlwaysObserved == ClientSpec => []RecoveryIsObserved
<1>1. ClientInv => RecoveryIsObserved
  BY DEF ClientInv, RecoveryIsObserved, RequestInv
<1> QED
  BY <1>1, ClientInvariant, PTL

\* In the composition with the other callers, too, a verify left half way can be
\* taken up again, and the keys of its phases never refuse each other.
THEOREM RecoveryAlwaysGoesOn == ClientSpec => []RecoveryGoesOn
<1>1. ClientInv => RecoveryGoesOn
  BY PhasesGoOn, PhaseKeysMatch DEF ClientInv, RecoveryGoesOn
<1> QED
  BY <1>1, ClientInvariant, PTL

=============================================================================
