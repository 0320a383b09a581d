------------------------ MODULE StateStoreStepProofs ------------------------
(***************************************************************************)
(* The steps of the state store, for every value of its constants: what a  *)
(* step may never do, and that each one, read through StorePromise, is a   *)
(* step of RoomPromise or leaves the rooms as they are.                    *)
(***************************************************************************)
EXTENDS StateStoreProofs, StorePromise

-----------------------------------------------------------------------------
(* How a row may change *)

Offered(row) == row.state \in {"READY", "RUNNING", "RESOLVED"}

\* A write of an attempt row: the version moves on, the epoch never back and on
\* whenever the room is taken away, deadline and stop intents stay.
AttemptMoves(old, new) ==
  /\ new # old => new.version > old.version
  /\ new.epoch >= old.epoch
  /\ Offered(old) /\ ~Offered(new) => new.epoch > old.epoch
  /\ new.expiresAt = old.expiresAt
  /\ old.intents \cap {"expiry", "destroy"} \subseteq new.intents
  /\ old.state = "DESTROYED" => new.state = "DESTROYED"
  /\ new.generation # old.generation =>
       /\ Offered(old)
       /\ new.state = "RESETTING"
       /\ "reset" \in new.intents
       /\ new.generation = old.generation + 1
       /\ new.candidate = new.generation
       /\ new.active = old.active

ResourceMoves(old, new) ==
  /\ new # old => new.version > old.version
  /\ old.intents \subseteq new.intents
  /\ old.state = "DESTROYED" => new.state = "DESTROYED"

\* The same of one sandbox row and the row a step writes in its place.
AdvancedLive(a, g, new) ==
  /\ new.state # resources[a][g].state
  /\ new.state \notin {"STOPPING", "FAILED", "DESTROYED"}
  => BackendLive(a) /\ Binding(a, g)

\* Every row that exists moves this way in the step.
RowsMove ==
  /\ \A a \in Attempts :
       attempts[a].state # "NONE" => AttemptMoves(attempts[a], attempts'[a])
  /\ \A a \in Attempts, g \in Generations :
       resources[a][g].state # "NONE" => ResourceMoves(resources[a][g], resources'[a][g])
  /\ \A a \in Attempts, g \in Generations : AdvancedLive(a, g, resources'[a][g])

LEMMA SameAttemptMoves ==
  ASSUME NEW row \in Attempt
  PROVE  AttemptMoves(row, row)
BY DEF AttemptMoves, Attempt

LEMMA SameResourceMoves ==
  ASSUME NEW row
  PROVE  ResourceMoves(row, row)
BY DEF ResourceMoves

\* A stop moves the epoch the first time, which is when it takes a room away.
LEMMA StopAttemptMoves ==
  ASSUME StoreInv, NEW a \in Attempts
  PROVE  AttemptMoves(attempts[a], StopAttempt(attempts[a]))
<1> DEFINE row == attempts[a]
<1>1. row \in Attempt /\ (Offered(row) => "destroy" \notin row.intents)
  BY DEF StoreInv, TypeOK, RoomInv, AttemptShape, Published, Offered
<1>2. CASE StopAttempt(row) = row
  BY <1>1, <1>2, SameAttemptMoves
<1>3. CASE StopAttempt(row) # row
  <2>1. /\ StopAttempt(row).state = "STOPPING"
        /\ StopAttempt(row).version = row.version + 1
        /\ StopAttempt(row).epoch = IF "destroy" \notin row.intents THEN row.epoch + 1 ELSE row.epoch
        /\ StopAttempt(row).expiresAt = row.expiresAt
        /\ StopAttempt(row).generation = row.generation
        /\ row.intents \ {"provisioning"} \subseteq StopAttempt(row).intents
        /\ row.state # "DESTROYED"
    BY <1>1, <1>3 DEF StopAttempt, Attempt
  <2> QED
    BY <1>1, <2>1 DEF AttemptMoves, Attempt
<1> QED
  BY <1>2, <1>3

LEMMA StopResourceMoves ==
  ASSUME NEW row \in Resource, NEW expired \in BOOLEAN
  PROVE  ResourceMoves(row, StopResource(row, expired))
<1>1. CASE StopResource(row, expired) = row
  BY <1>1, SameResourceMoves
<1>2. CASE StopResource(row, expired) # row
  <2>1. /\ StopResource(row, expired).version = row.version + 1
        /\ row.intents \subseteq StopResource(row, expired).intents
        /\ row.state # "DESTROYED"
    BY <1>2 DEF StopResource, Resource
  <2> QED
    BY <2>1 DEF ResourceMoves, Resource
<1> QED
  BY <1>1, <1>2

\* One attempt row is written: every other row moves by staying.
LEMMA WrittenAttemptMoves ==
  ASSUME StoreInv, NEW a \in Attempts, NEW row, WriteAttempt(a, row),
         attempts[a].state # "NONE" => AttemptMoves(attempts[a], row)
  PROVE  RowsMove
<1>1. \A b \in Attempts : attempts'[b] = IF b = a THEN row ELSE attempts[b]
  BY DEF WriteAttempt, StoreInv, TypeOK
<1>2. resources' = resources
  BY DEF WriteAttempt
<1>3. \A b \in Attempts : attempts[b] \in Attempt
  BY DEF StoreInv, TypeOK
<1> QED
  BY <1>1, <1>2, <1>3, SameAttemptMoves, SameResourceMoves DEF RowsMove, AdvancedLive

LEMMA WrittenResourceMoves ==
  ASSUME StoreInv, NEW a \in Attempts, NEW g \in Generations, NEW row,
         WriteResource(a, g, row),
         resources[a][g].state # "NONE" => ResourceMoves(resources[a][g], row),
         AdvancedLive(a, g, row)
  PROVE  RowsMove
<1>1. \A b \in Attempts, h \in Generations :
        resources'[b][h] = IF b = a /\ h = g THEN row ELSE resources[b][h]
  BY DEF WriteResource, StoreInv, TypeOK
<1>2. attempts' = attempts
  BY DEF WriteResource
<1>3. \A b \in Attempts : attempts[b] \in Attempt
  BY DEF StoreInv, TypeOK
<1> QED
  BY <1>1, <1>2, <1>3, SameAttemptMoves, SameResourceMoves DEF RowsMove, AdvancedLive

-----------------------------------------------------------------------------
(* BackendStore *)

LEMMA BackendStepMoves ==
  ASSUME StoreInv, NEW a \in Attempts, BackendStep(a)
  PROVE  RowsMove
<1> DEFINE old == attempts[a]
<1>0. old \in Attempt
  BY DEF StoreInv, TypeOK
<1>1. ASSUME NEW deadline \in 0..MaxTime, Create(a, deadline)
      PROVE  RowsMove
  BY <1>1, WrittenAttemptMoves DEF Create
<1>2. ASSUME NEW g \in Generations, Leave(a, g) \/ DenyAttempt(a, g)
      PROVE  RowsMove
  BY <1>2, WrittenAttemptMoves, StopAttemptMoves DEF Leave, DenyAttempt
<1>3. ASSUME NEW g \in Generations, BeginReset(a, g)
      PROVE  RowsMove
  <2> DEFINE row == [old EXCEPT !.generation = g + 1, !.candidate = g + 1,
                                !.state = "RESETTING",
                                !.intents = @ \cup {"provisioning", "reset"},
                                !.epoch = @ + 1, !.version = @ + 1]
  <2>1. WriteAttempt(a, row) /\ old.generation = g /\ Offered(old)
    BY <1>3 DEF BeginReset, BeginResetOk, Binding, Offered
  <2>2. /\ row.version = old.version + 1
        /\ row.epoch = old.epoch + 1
        /\ row.state = "RESETTING"
        /\ row.expiresAt = old.expiresAt
        /\ row.intents = old.intents \cup {"provisioning", "reset"}
        /\ row.generation = old.generation + 1
        /\ row.candidate = row.generation
        /\ row.active = old.active
    BY <1>0, <2>1 DEF Attempt
  <2> HIDE DEF row
  <2>3. AttemptMoves(old, row)
    BY <1>0, <2>1, <2>2 DEF AttemptMoves, Offered, Attempt
  <2> QED
    BY <2>1, <2>3, WrittenAttemptMoves
<1>4. ASSUME NEW g \in Generations, PublishReady(a, g, old.version)
      PROVE  RowsMove
  <2> DEFINE row == [old EXCEPT !.state = "READY", !.active = g, !.candidate = 0,
                                !.intents = @ \ {"provisioning"}, !.version = @ + 1]
  <2>1. WriteAttempt(a, row) /\ old.state = "PROVISIONING"
    BY <1>4 DEF PublishReady, PublishReadyOk
  <2>2. AttemptMoves(old, row)
    BY <1>0, <2>1 DEF AttemptMoves, Offered, Attempt
  <2> QED
    BY <2>1, <2>2, WrittenAttemptMoves
<1>5. ASSUME NEW g \in Generations, NEW source, NEW target \in {"RUNNING", "RESOLVED"},
             PublishRuntimeState(a, g, old.version, source, target),
             source \in {"READY", "RUNNING"}
      PROVE  RowsMove
  <2> DEFINE row == [old EXCEPT !.state = target, !.version = @ + 1]
  <2>1. WriteAttempt(a, row) /\ Offered(old)
    BY <1>5 DEF PublishRuntimeState, PublishRuntimeStateOk, Offered
  <2>2. AttemptMoves(old, row)
    BY <1>0, <2>1 DEF AttemptMoves, Offered, Attempt
  <2> QED
    BY <2>1, <2>2, WrittenAttemptMoves
<1>6. ASSUME NEW g \in Generations, PublishResetReady(a, g, old.version)
      PROVE  RowsMove
  <2> DEFINE row == [old EXCEPT !.state = "READY", !.active = g, !.candidate = 0,
                                !.intents = @ \ {"provisioning", "reset"},
                                !.version = @ + 1]
  <2>1. WriteAttempt(a, row) /\ old.state = "RESETTING"
    BY <1>6 DEF PublishResetReady, PublishResetReadyOk, Replacing
  <2>2. AttemptMoves(old, row)
    BY <1>0, <2>1 DEF AttemptMoves, Offered, Attempt
  <2> QED
    BY <2>1, <2>2, WrittenAttemptMoves
<1>7. ASSUME NEW g \in Generations, FailReset(a, g, old.version)
      PROVE  RowsMove
  <2> DEFINE row == [old EXCEPT !.state = "FAILED", !.intents = @ \ {"provisioning"},
                                !.version = @ + 1]
  <2>1. WriteAttempt(a, row) /\ old.state = "RESETTING"
    BY <1>7 DEF FailReset, FailResetOk, Replacing
  <2>2. AttemptMoves(old, row)
    BY <1>0, <2>1 DEF AttemptMoves, Offered, Attempt
  <2> QED
    BY <2>1, <2>2, WrittenAttemptMoves
<1>8. ASSUME NEW g \in Generations, CompleteCleanup(a, g)
      PROVE  RowsMove
  <2> DEFINE stopped == StopAttempt(old)
             row == [stopped EXCEPT !.state = "DESTROYED", !.active = 0, !.version = @ + 1]
  <2>1. WriteAttempt(a, row) /\ old.state # "DESTROYED"
    BY <1>8 DEF CompleteCleanup
  <2>2. stopped \in Attempt /\ AttemptMoves(old, stopped)
    BY <1>0, StopAttemptType, StopAttemptMoves
  <2>3. stopped.state \in {old.state, "STOPPING"} /\ stopped.generation = old.generation
    BY <1>0 DEF StopAttempt, Attempt
  <2>4. Offered(old) => ~Offered(stopped)
    BY <1>0 DEF StopAttempt, Attempt, Offered, StoreInv, RoomInv, AttemptShape, Published
  <2> HIDE DEF stopped
  <2>5. AttemptMoves(old, row)
    BY <1>0, <2>1, <2>2, <2>3, <2>4 DEF AttemptMoves, Offered, Attempt
  <2> QED
    BY <2>1, <2>5, WrittenAttemptMoves
<1> QED
  BY <1>1, <1>2, <1>3, <1>4, <1>5, <1>6, <1>7, <1>8
  DEF BackendStep, PublishRunning, PublishResolved

-----------------------------------------------------------------------------
(* ControlPlaneStore *)

LEMMA TransitionMoves ==
  ASSUME StoreInv, NEW a \in Attempts, NEW g \in Generations, NEW v, NEW state,
         Transition(a, g, v, state)
  PROVE  RowsMove
<1> DEFINE old == resources[a][g]
           stops == IF state \in {"STOPPING", "FAILED", "DESTROYED"} THEN {"destroy"} ELSE {}
           row == [old EXCEPT !.state = state,
                              !.version = @ + 1,
                              !.intents = @ \cup stops \cup IfExpired(ControlExpired(a)),
                              !.filled = @ \cup FilledBy(state)]
<1>1. /\ old \in Resource
      /\ WriteResource(a, g, row)
      /\ state \in NextStates(old.state)
  BY DEF Transition, TransitionOk, StoreInv, TypeOK
<1>2. /\ row.state = state
      /\ row.version = old.version + 1
      /\ old.intents \subseteq row.intents
  BY <1>1 DEF Resource
<1>3. AdvancedLive(a, g, row)
  BY <1>2 DEF AdvancedLive, Transition, TransitionOk, IsCleanup, BindingAllowActive,
    Binding, ControlLive
<1> HIDE DEF row
<1>4. ResourceMoves(old, row)
  <2>1. old.state # "DESTROYED"
    BY <1>1 DEF NextStates
  <2> QED
    BY <1>1, <1>2, <2>1 DEF ResourceMoves, Resource
<1> QED
  BY <1>1, <1>3, <1>4, WrittenResourceMoves

LEMMA ControlStepMoves ==
  ASSUME StoreInv, NEW a \in Attempts, ControlStep(a)
  PROVE  RowsMove
<1>0. \A g \in Generations : resources[a][g] \in Resource
  BY DEF StoreInv, TypeOK
<1>1. ASSUME NEW g \in Generations, Accept(a, g)
      PROVE  RowsMove
  <2> DEFINE row == [NoResource EXCEPT !.state = "REQUESTED"]
  <2>1. /\ WriteResource(a, g, row)
        /\ resources[a][g].state = "NONE"
        /\ BackendLive(a) /\ Binding(a, g)
    BY <1>1 DEF Accept, AcceptOk, ControlLive
  <2>2. AdvancedLive(a, g, row)
    BY <2>1 DEF AdvancedLive
  <2> QED
    BY <2>1, <2>2, WrittenResourceMoves
<1>2. ASSUME NEW g \in Generations, NEW state,
             Transition(a, g, resources[a][g].version, state)
      PROVE  RowsMove
  BY <1>2, TransitionMoves
<1>3. ASSUME NEW g \in Generations, DenyResource(a, g)
      PROVE  RowsMove
  <2> DEFINE row == StopResource(resources[a][g], TRUE)
  <2>1. WriteResource(a, g, row)
    BY <1>3 DEF DenyResource
  <2>2. ResourceMoves(resources[a][g], row)
    BY <1>0, StopResourceMoves
  <2>3. row = resources[a][g] \/ ToldToStop(resources[a][g], row)
    BY <1>0, StopResourceTells
  <2>4. AdvancedLive(a, g, row)
    BY <2>3 DEF AdvancedLive, ToldToStop
  <2> QED
    BY <2>1, <2>2, <2>4, WrittenResourceMoves
<1>4. ASSUME NEW g \in Generations, NEW retryAt \in 1..MaxTime,
             CleanupFailed(a, g, resources[a][g].version, retryAt)
      PROVE  RowsMove
  <2> DEFINE row == [resources[a][g] EXCEPT !.state = "FAILED", !.version = @ + 1]
  <2>1. WriteResource(a, g, row) /\ resources[a][g].state = "STOPPING"
    BY <1>4 DEF CleanupFailed, CleanupFailedOk
  <2>2. ResourceMoves(resources[a][g], row)
    BY <1>0, <2>1 DEF ResourceMoves, Resource
  <2>3. AdvancedLive(a, g, row)
    BY <1>0 DEF AdvancedLive, Resource
  <2> QED
    BY <2>1, <2>2, <2>3, WrittenResourceMoves
<1> QED
  BY <1>1, <1>2, <1>3, <1>4 DEF ControlStep

\* A cleanup pass stops rows; the ones it inserts are stopped from the start.
LEMMA ReconcileMoves ==
  ASSUME StoreInv, NEW batch, NEW n, Reconcile(batch, n)
  PROVE  RowsMove
<1>1. attempts' = attempts /\ \A a \in Attempts : attempts[a] \in Attempt
  BY DEF Reconcile, StoreInv, TypeOK
<1>2. \A a \in Attempts, g \in Generations :
        resources'[a][g] = IF <<a, g>> \in batch THEN StoppedRow(a, g) ELSE resources[a][g]
  BY DEF Reconcile
<1>3. ASSUME NEW a \in Attempts, NEW g \in Generations
      PROVE  /\ resources[a][g].state # "NONE" =>
                  ResourceMoves(resources[a][g], StoppedRow(a, g))
             /\ AdvancedLive(a, g, StoppedRow(a, g))
  <2>1. resources[a][g] \in Resource /\ ControlExpired(a) \in BOOLEAN
    BY DEF StoreInv, TypeOK, ControlExpired, PastDeadline, Intends
  <2>2. CASE resources[a][g].state # "NONE"
    <3> DEFINE row == StopResource(resources[a][g], ControlExpired(a))
    <3>1. StoppedRow(a, g) = row
      BY <2>2 DEF StoppedRow
    <3>2. ResourceMoves(resources[a][g], row)
      BY <2>1, StopResourceMoves
    <3>3. row = resources[a][g] \/ ToldToStop(resources[a][g], row)
      BY <2>1, StopResourceTells
    <3> QED
      BY <3>1, <3>2, <3>3 DEF AdvancedLive, ToldToStop
  <2>3. CASE resources[a][g].state = "NONE"
    <3> DEFINE fresh == [NoResource EXCEPT
                           !.state   = "STOPPING",
                           !.intents = {"destroy"} \cup IfExpired(ControlExpired(a))]
    <3>1. /\ StoppedRow(a, g) = StopResource(fresh, ControlExpired(a))
          /\ fresh.state = "STOPPING"
      BY <2>3 DEF StoppedRow, NoResource
    <3>2. StopResource(fresh, ControlExpired(a)).state = "STOPPING"
      BY <3>1 DEF StopResource, NoResource
    <3> QED
      BY <2>3, <3>1, <3>2 DEF AdvancedLive
  <2> QED
    BY <2>2, <2>3
<1>4. ASSUME NEW a \in Attempts, NEW g \in Generations
      PROVE  /\ resources[a][g].state # "NONE" =>
                  ResourceMoves(resources[a][g], resources'[a][g])
             /\ AdvancedLive(a, g, resources'[a][g])
  BY <1>2, <1>3, SameResourceMoves DEF AdvancedLive
<1> QED
  BY <1>1, <1>4, SameAttemptMoves DEF RowsMove

-----------------------------------------------------------------------------
(* The whole store *)

\* Whatever leaves both tables alone moves nothing.
LEMMA NothingMoves ==
  ASSUME StoreInv, attempts' = attempts, resources' = resources
  PROVE  RowsMove
<1>1. \A a \in Attempts : attempts[a] \in Attempt
  BY DEF StoreInv, TypeOK
<1> QED
  BY <1>1, SameAttemptMoves, SameResourceMoves DEF RowsMove, AdvancedLive

LEMMA ExpireMoves ==
  ASSUME StoreInv, NEW batch, Expire(batch)
  PROVE  RowsMove
<1>1. /\ resources' = resources
      /\ \A a \in Attempts : attempts'[a] = IF a \in batch THEN StopAttempt(attempts[a])
                                                          ELSE attempts[a]
  BY DEF Expire
<1>2. \A a \in Attempts : AttemptMoves(attempts[a], attempts'[a])
  BY <1>1, StopAttemptMoves, SameAttemptMoves DEF StoreInv, TypeOK
<1> QED
  BY <1>1, <1>2, SameResourceMoves DEF RowsMove, AdvancedLive

LEMMA EveryStepMoves ==
  ASSUME StoreInv, [Next]_vars
  PROVE  RowsMove
<1>1. ASSUME NEW batch \in SUBSET Attempts, Expire(batch)
      PROVE  RowsMove
  BY <1>1, ExpireMoves
<1>2. ASSUME NEW batch \in SUBSET CleanupDue, NEW n \in 1..Limit, Reconcile(batch, n)
      PROVE  RowsMove
  BY <1>2, ReconcileMoves
<1>3. CASE Tick \/ UNCHANGED vars
  BY <1>3, NothingMoves DEF Tick, vars
<1> QED
  BY <1>1, <1>2, <1>3, BackendStepMoves, ControlStepMoves
  DEF Next, ExpireSome, ReconcileSome

-----------------------------------------------------------------------------
(* How a sandbox row is filled in *)

\* Columns stay filled, the container is recorded only of a sandbox whose older
\* ones are all gone, and nothing is requested a second time.
FilledIn(a, g, new) ==
  /\ resources[a][g].filled \subseteq new.filled
  /\ "container_id" \in new.filled \ resources[a][g].filled =>
       \A h \in Generations : h < g => VerifiedAbsent(resources[a][h])
  /\ new.state = "REQUESTED" => resources[a][g].state \in {"NONE", "REQUESTED"}

RowsFill == \A a \in Attempts, g \in Generations : FilledIn(a, g, resources'[a][g])

LEMMA WrittenResourceFills ==
  ASSUME StoreInv, NEW a \in Attempts, NEW g \in Generations, NEW row,
         WriteResource(a, g, row), FilledIn(a, g, row)
  PROVE  RowsFill
<1>1. \A b \in Attempts, h \in Generations :
        resources'[b][h] = IF b = a /\ h = g THEN row ELSE resources[b][h]
  BY DEF WriteResource, StoreInv, TypeOK
<1> QED
  BY <1>1 DEF RowsFill, FilledIn

LEMMA StopFills ==
  ASSUME NEW row \in Resource, NEW expired
  PROVE  /\ StopResource(row, expired).filled = row.filled
         /\ StopResource(row, expired).state = "REQUESTED" => row.state = "REQUESTED"
BY DEF StopResource, Resource

LEMMA TransitionFills ==
  ASSUME StoreInv, NEW a \in Attempts, NEW g \in Generations, NEW v, NEW state,
         Transition(a, g, v, state)
  PROVE  RowsFill
<1> DEFINE old == resources[a][g]
           stops == IF state \in {"STOPPING", "FAILED", "DESTROYED"} THEN {"destroy"} ELSE {}
           row == [old EXCEPT !.state = state,
                              !.version = @ + 1,
                              !.intents = @ \cup stops \cup IfExpired(ControlExpired(a)),
                              !.filled = @ \cup FilledBy(state)]
<1>1. /\ old \in Resource
      /\ WriteResource(a, g, row)
      /\ state \in NextStates(old.state)
  BY DEF Transition, TransitionOk, StoreInv, TypeOK
<1>2. row.state = state /\ row.filled = old.filled \cup FilledBy(state)
  BY <1>1 DEF Resource
<1>3. state # "REQUESTED"
  BY <1>1 DEF NextStates
<1>4. ASSUME "container_id" \in FilledBy(state)
      PROVE  \A h \in Generations : h < g => VerifiedAbsent(resources[a][h])
  <2>1. state = "STARTING"
    BY <1>4 DEF FilledBy
  <2>2. /\ attempts[a].state # "NONE" /\ attempts[a].generation = g
        /\ old.state \notin {"NONE", "DESTROYED"} /\ "destroy" \notin old.intents
    BY <1>1, <2>1 DEF Transition, TransitionOk, IsCleanup, BindingAllowActive, NextStates
  <2>3. AloneInRoom(a, g)
    BY <2>2 DEF StoreInv, RoomInv, GenerationOrder
  <2> QED
    BY <2>2, <2>3 DEF AloneInRoom, Usable
<1> HIDE DEF row
<1>5. FilledIn(a, g, row)
  BY <1>2, <1>3, <1>4 DEF FilledIn
<1> QED
  BY <1>1, <1>5, WrittenResourceFills

LEMMA ControlStepFills ==
  ASSUME StoreInv, NEW a \in Attempts, ControlStep(a)
  PROVE  RowsFill
<1>0. \A g \in Generations : resources[a][g] \in Resource
  BY DEF StoreInv, TypeOK
<1>1. ASSUME NEW g \in Generations, Accept(a, g)
      PROVE  RowsFill
  <2> DEFINE row == [NoResource EXCEPT !.state = "REQUESTED"]
  <2>1. WriteResource(a, g, row) /\ resources[a][g].state = "NONE"
    BY <1>1 DEF Accept, AcceptOk
  <2>2. resources[a][g].filled = {} /\ row.filled = {}
    BY <2>1 DEF StoreInv, RoomInv, ResourceShape, NoResource
  <2> QED
    BY <2>1, <2>2, WrittenResourceFills DEF FilledIn
<1>2. ASSUME NEW g \in Generations, NEW state,
             Transition(a, g, resources[a][g].version, state)
      PROVE  RowsFill
  BY <1>2, TransitionFills
<1>3. ASSUME NEW g \in Generations, DenyResource(a, g)
      PROVE  RowsFill
  <2> DEFINE row == StopResource(resources[a][g], TRUE)
  <2>1. WriteResource(a, g, row)
    BY <1>3 DEF DenyResource
  <2>2. FilledIn(a, g, row)
    BY <1>0, StopFills DEF FilledIn
  <2> QED
    BY <2>1, <2>2, WrittenResourceFills
<1>4. ASSUME NEW g \in Generations, NEW retryAt \in 1..MaxTime,
             CleanupFailed(a, g, resources[a][g].version, retryAt)
      PROVE  RowsFill
  <2> DEFINE row == [resources[a][g] EXCEPT !.state = "FAILED", !.version = @ + 1]
  <2>1. WriteResource(a, g, row)
    BY <1>4 DEF CleanupFailed
  <2>2. row.filled = resources[a][g].filled /\ row.state = "FAILED"
    BY <1>0 DEF Resource
  <2> QED
    BY <2>1, <2>2, WrittenResourceFills DEF FilledIn
<1> QED
  BY <1>1, <1>2, <1>3, <1>4 DEF ControlStep

LEMMA ReconcileFills ==
  ASSUME StoreInv, NEW batch, NEW n, Reconcile(batch, n)
  PROVE  RowsFill
<1>1. \A a \in Attempts, g \in Generations :
        resources'[a][g] = IF <<a, g>> \in batch THEN StoppedRow(a, g) ELSE resources[a][g]
  BY DEF Reconcile
<1>2. ASSUME NEW a \in Attempts, NEW g \in Generations
      PROVE  FilledIn(a, g, StoppedRow(a, g))
  <2>1. resources[a][g] \in Resource
    BY DEF StoreInv, TypeOK
  <2>2. CASE resources[a][g].state # "NONE"
    BY <2>1, <2>2, StopFills DEF StoppedRow, FilledIn
  <2>3. CASE resources[a][g].state = "NONE"
    <3> DEFINE fresh == [NoResource EXCEPT
                           !.state   = "STOPPING",
                           !.intents = {"destroy"} \cup IfExpired(ControlExpired(a))]
    <3>1. StoppedRow(a, g) = StopResource(fresh, ControlExpired(a))
      BY <2>3 DEF StoppedRow
    <3>2. fresh \in Resource /\ fresh.state = "STOPPING" /\ fresh.filled = {}
      BY DEF NoResource, Resource, ResourceStates, IfExpired
    <3>3. resources[a][g].filled = {}
      BY <2>3 DEF StoreInv, RoomInv, ResourceShape, NoResource
    <3> HIDE DEF fresh
    <3> QED
      BY <3>1, <3>2, <3>3, StopFills DEF FilledIn
  <2> QED
    BY <2>2, <2>3
<1> QED
  BY <1>1, <1>2 DEF RowsFill, FilledIn

LEMMA EveryStepFills ==
  ASSUME StoreInv, [Next]_vars
  PROVE  RowsFill
<1>1. ASSUME resources' = resources
      PROVE  RowsFill
  BY <1>1 DEF RowsFill, FilledIn
<1>2. ASSUME NEW a \in Attempts, BackendStep(a)
      PROVE  resources' = resources
  BY <1>2 DEF BackendStep, WriteAttempt, Create, Leave, DenyAttempt, BeginReset, PublishReady,
    PublishRunning, PublishResolved, PublishRuntimeState, PublishResetReady, FailReset, CompleteCleanup
<1>3. ASSUME NEW batch \in SUBSET CleanupDue, NEW n \in 1..Limit, Reconcile(batch, n)
      PROVE  RowsFill
  BY <1>3, ReconcileFills
<1>4. Tick \/ ExpireSome \/ UNCHANGED vars => resources' = resources
  BY DEF Tick, ExpireSome, Expire, vars
<1> QED
  BY <1>1, <1>2, <1>3, <1>4, ControlStepFills DEF Next, ReconcileSome

-----------------------------------------------------------------------------
(* What a step may never do *)

\* An attempt that has no row yet has no sandbox rows either, and epoch 0.
LEMMA NoRowYet ==
  ASSUME StoreInv, NEW a \in Attempts, attempts[a].state = "NONE"
  PROVE  /\ attempts[a] = NoAttempt
         /\ \A g \in Generations : resources[a][g] = NoResource
BY DEF StoreInv, RoomInv, AttemptShape, ResourceShape, NoAttempt, Generations

\* A stale version is always stale: no method writes a row and leaves the
\* version a caller may have read, whatever row the step finds.
THEOREM WritesAlwaysMoveVersion == Spec => WritesMoveVersion
<1>1. ASSUME StoreInv, [Next]_vars
      PROVE  \A a \in Attempts :
               /\ VersionMoves(attempts[a], attempts'[a])
               /\ \A g \in Generations : VersionMoves(resources[a][g], resources'[a][g])
  BY <1>1, EveryStepMoves DEF RowsMove, AttemptMoves, ResourceMoves, VersionMoves
<1> QED
  BY <1>1, StoreInvariant, PTL DEF WritesMoveVersion, Spec

\* A capability of a room that was taken away can never be current again: the
\* step that takes the room away moves the epoch on, and none moves it back.
THEOREM RevocationAlwaysMovesEpoch == Spec => RevocationMovesEpoch
<1>1. ASSUME StoreInv, [Next]_vars, NEW a \in Attempts
      PROVE  EpochMoves(a)
  <2>1. CASE attempts[a].state # "NONE"
    BY <1>1, <2>1, EveryStepMoves DEF RowsMove, AttemptMoves, Offered, Published, EpochMoves
  <2>2. CASE attempts[a].state = "NONE"
    <3>1. attempts[a].epoch = 0 /\ ~Published(a)
      BY <1>1, <2>2, NoRowYet DEF NoAttempt, Published
    <3>2. attempts'[a].epoch \in Nat
      BY <1>1, EveryStepKeeps DEF StoreInv, TypeOK, Attempt
    <3> QED
      BY <3>1, <3>2 DEF EpochMoves
  <2> QED
    BY <2>1, <2>2
<1>2. ASSUME StoreInv, [Next]_vars
      PROVE  \A a \in Attempts : EpochMoves(a)
  BY <1>1, <1>2
<1> QED
  BY <1>2, StoreInvariant, PTL DEF RevocationMovesEpoch, Spec

\* No method writes what an immutability trigger of the schema would abort.
THEOREM TriggersHold == Spec => TriggersNeverAbort
<1>1. ASSUME StoreInv, [Next]_vars, NEW a \in Attempts, attempts[a].state # "NONE"
      PROVE  TriggersAllow(a)
  <2>1. \A g \in Generations :
          /\ resources[a][g].intents \subseteq resources'[a][g].intents
          /\ resources[a][g].state = "DESTROYED" => resources'[a][g].state = "DESTROYED"
    <3>1. \A g \in Generations : resources[a][g].state = "NONE" =>
                                    resources[a][g].intents = {}
      BY <1>1 DEF StoreInv, RoomInv, ResourceShape, NoResource
    <3> QED
      BY <1>1, <3>1, EveryStepMoves DEF RowsMove, ResourceMoves
  <2> QED
    BY <1>1, <2>1, EveryStepMoves DEF RowsMove, AttemptMoves, Offered, Published,
      TriggersAllow
<1>2. ASSUME StoreInv, [Next]_vars
      PROVE  \A a \in Attempts : attempts[a].state # "NONE" => TriggersAllow(a)
  BY <1>1, <1>2
<1> QED
  BY <1>2, StoreInvariant, PTL DEF TriggersNeverAbort, Spec

\* A stop or a passed deadline is final for the sandboxes of the attempt,
\* through whichever of the two stores a call comes.
THEOREM NothingEverAdvancesAfterStop == Spec => NothingAdvancesAfterStop
<1>1. ASSUME StoreInv, [Next]_vars
      PROVE  \A a \in Attempts, g \in Generations : AdvancesLive(a, g)
  BY <1>1, EveryStepMoves DEF RowsMove, AdvancedLive, AdvancesLive
<1> QED
  BY <1>1, StoreInvariant, PTL DEF NothingAdvancesAfterStop, Spec

-----------------------------------------------------------------------------
(* The promise of the store, as its rows show it *)

\* The phases and what they follow, of the states a row can have.
LEMMA PhaseTypes ==
  ASSUME NEW state \in AttemptStates \cup {"NONE"}
  PROVE  RoomPhase(state) \in Promise!Phases
BY DEF RoomPhase, Promise!Phases, AttemptStates

\* What the promise sees of a written attempt row is its phase.
LEMMA WrittenPhase ==
  ASSUME StoreInv, NEW a \in Attempts, NEW row, WriteAttempt(a, row)
  PROVE  /\ PhaseOf' = [PhaseOf EXCEPT ![a] = RoomPhase(row.state)]
         /\ HeldBy' = HeldBy
         /\ InUseBy' = InUseBy
<1>1. \A b \in Attempts : attempts'[b] = IF b = a THEN row ELSE attempts[b]
  BY DEF WriteAttempt, StoreInv, TypeOK
<1>2. resources' = resources
  BY DEF WriteAttempt
<1>3. PhaseOf' = [b \in Attempts |-> RoomPhase(attempts'[b].state)]
  BY DEF PhaseOf, RoomPhase
<1>4. HeldBy' = HeldBy /\ InUseBy' = InUseBy
  BY <1>2 DEF HeldBy, InUseBy, Held, InUse, Usable
<1>5. \A b \in Attempts :
        RoomPhase(attempts'[b].state) =
          IF b = a THEN RoomPhase(row.state) ELSE PhaseOf[b]
  BY <1>1 DEF PhaseOf
<1> QED
  BY <1>3, <1>4, <1>5 DEF PhaseOf

\* So a method that writes an attempt row keeps the promise if its phase moves
\* the way the promise allows.
LEMMA AttemptKeepsPromise ==
  ASSUME StoreInv, NEW a \in Attempts, NEW row, WriteAttempt(a, row),
         row.state \in AttemptStates \cup {"NONE"},
         NEW p, p = RoomPhase(attempts[a].state),
         NEW q, q = RoomPhase(row.state),
         Promise!Follows(p, q),
         q # p /\ q = "offered" => InUse(a) # {},
         q # p /\ q = "closed" => Held(a) = {}
  PROVE  [Promise!Next]_(Promise!roomVars)
<1>1. /\ PhaseOf' = [PhaseOf EXCEPT ![a] = q]
      /\ HeldBy' = HeldBy
      /\ InUseBy' = InUseBy
  BY WrittenPhase
<1>2. /\ PhaseOf[a] = p
      /\ HeldBy[a] = Held(a)
      /\ InUseBy[a] = InUse(a)
      /\ PhaseOf = [PhaseOf EXCEPT ![a] = p]
  BY DEF PhaseOf, HeldBy, InUseBy
<1>3. CASE q = p
  BY <1>1, <1>2, <1>3 DEF Promise!roomVars
<1>4. CASE q # p
  <2>1. q \in Promise!Phases
    BY PhaseTypes
  <2>2. Promise!Move(a, q)
    BY <1>1, <1>2, <1>4 DEF Promise!Move
  <2> QED
    BY <2>1, <2>2 DEF Promise!Next
<1> QED
  BY <1>3, <1>4

\* What the promise sees of a written sandbox row.
LEMMA WrittenSandbox ==
  ASSUME StoreInv, NEW a \in Attempts, NEW g \in Generations, NEW row,
         WriteResource(a, g, row)
  PROVE  /\ PhaseOf' = PhaseOf
         /\ HeldBy' = [HeldBy EXCEPT ![a] =
              IF row.state \in {"NONE", "DESTROYED"} THEN @ \ {g} ELSE @ \cup {g}]
         /\ InUseBy' = [InUseBy EXCEPT ![a] =
              IF row.state \in {"NONE", "DESTROYED"} \/ "destroy" \in row.intents
              THEN @ \ {g} ELSE @ \cup {g}]
<1>1. \A b \in Attempts, h \in Generations :
        resources'[b][h] = IF b = a /\ h = g THEN row ELSE resources[b][h]
  BY DEF WriteResource, StoreInv, TypeOK
<1>2. attempts' = attempts
  BY DEF WriteResource
<1>3. PhaseOf' = PhaseOf
  BY <1>2 DEF PhaseOf
<1>4. \A b \in Attempts :
        /\ b # a => Held(b)' = Held(b) /\ InUse(b)' = InUse(b)
        /\ Held(a)' = IF row.state \in {"NONE", "DESTROYED"}
                      THEN Held(a) \ {g} ELSE Held(a) \cup {g}
        /\ InUse(a)' = IF row.state \in {"NONE", "DESTROYED"} \/ "destroy" \in row.intents
                       THEN InUse(a) \ {g} ELSE InUse(a) \cup {g}
  BY <1>1 DEF Held, InUse, Usable
<1>5. /\ HeldBy' = [b \in Attempts |-> Held(b)']
      /\ InUseBy' = [b \in Attempts |-> InUse(b)']
  BY DEF HeldBy, InUseBy
<1>6. \A b \in Attempts : HeldBy[b] = Held(b) /\ InUseBy[b] = InUse(b)
  BY DEF HeldBy, InUseBy
<1> QED
  BY <1>3, <1>4, <1>5, <1>6 DEF HeldBy, InUseBy

-----------------------------------------------------------------------------
(* BackendStore and the promise *)

\* A stop closes a room that is not closed yet.
LEMMA StopPhase ==
  ASSUME NEW row \in Attempt, row.state # "NONE"
  PROVE  /\ StopAttempt(row).state \in AttemptStates
         /\ \/ StopAttempt(row) = row
            \/ row.state # "DESTROYED" /\ StopAttempt(row).state = "STOPPING"
BY DEF StopAttempt, Attempt, AttemptStates

LEMMA StopFollows ==
  ASSUME NEW row \in Attempt, row.state # "NONE"
  PROVE  LET p == RoomPhase(row.state)
             q == RoomPhase(StopAttempt(row).state)
         IN  Promise!Follows(p, q) /\ (q = p \/ q = "closing")
BY StopPhase DEF RoomPhase, Promise!Follows, Attempt, AttemptStates

LEMMA BackendStepKeepsPromise ==
  ASSUME StoreInv, NEW a \in Attempts, BackendStep(a)
  PROVE  [Promise!Next]_(Promise!roomVars)
<1> DEFINE old == attempts[a]
<1>0. old \in Attempt
  BY DEF StoreInv, TypeOK
<1>1. ASSUME NEW deadline \in 0..MaxTime, Create(a, deadline)
      PROVE  [Promise!Next]_(Promise!roomVars)
  <2> DEFINE row == [NoAttempt EXCEPT !.state = "PROVISIONING", !.generation = 1,
                       !.candidate = 1, !.expiresAt = deadline,
                       !.intents = {"provisioning"}]
  <2>1. /\ WriteAttempt(a, row) /\ old.state = "NONE" /\ row.state = "PROVISIONING"
    BY <1>1 DEF Create, NoAttempt
  <2> HIDE DEF row
  <2>2. /\ RoomPhase(old.state) = "absent" /\ RoomPhase(row.state) = "preparing"
        /\ Promise!Follows("absent", "preparing")
        /\ row.state \in AttemptStates \cup {"NONE"}
    BY <2>1 DEF RoomPhase, Promise!Follows, AttemptStates
  <2> QED
    BY <2>1, <2>2, AttemptKeepsPromise
<1>2. ASSUME NEW g \in Generations, Leave(a, g) \/ DenyAttempt(a, g)
      PROVE  [Promise!Next]_(Promise!roomVars)
  <2>1. old.state # "NONE" /\ WriteAttempt(a, StopAttempt(old))
    BY <1>2 DEF Leave, DenyAttempt, Binding
  <2>2. StopAttempt(old).state \in AttemptStates \cup {"NONE"}
    BY <1>0, <2>1, StopPhase
  <2> QED
    BY <1>0, <2>1, <2>2, StopFollows, AttemptKeepsPromise
<1>3. ASSUME NEW g \in Generations, BeginReset(a, g)
      PROVE  [Promise!Next]_(Promise!roomVars)
  <2> DEFINE row == [old EXCEPT !.generation = g + 1, !.candidate = g + 1,
                                !.state = "RESETTING",
                                !.intents = @ \cup {"provisioning", "reset"},
                                !.epoch = @ + 1, !.version = @ + 1]
  <2>1. /\ WriteAttempt(a, row)
        /\ old.state \in {"READY", "RUNNING", "RESOLVED"}
        /\ row.state = "RESETTING"
    BY <1>0, <1>3 DEF BeginReset, BeginResetOk, Attempt
  <2> HIDE DEF row
  <2>2. /\ RoomPhase(old.state) = "offered" /\ RoomPhase(row.state) = "replacing"
        /\ Promise!Follows("offered", "replacing")
        /\ row.state \in AttemptStates \cup {"NONE"}
    BY <2>1 DEF RoomPhase, Promise!Follows, AttemptStates
  <2> QED
    BY <2>1, <2>2, AttemptKeepsPromise
<1>4. ASSUME NEW g \in Generations,
             \/ PublishReady(a, g, old.version)
             \/ PublishResetReady(a, g, old.version)
      PROVE  [Promise!Next]_(Promise!roomVars)
  <2> DEFINE row(dropped) == [old EXCEPT !.state = "READY", !.active = g, !.candidate = 0,
                                         !.intents = @ \ dropped, !.version = @ + 1]
  <2>1. /\ old.state \in {"PROVISIONING", "RESETTING"}
        /\ resources[a][g].state = "READY" /\ "destroy" \notin resources[a][g].intents
        /\ \/ WriteAttempt(a, row({"provisioning"}))
           \/ WriteAttempt(a, row({"provisioning", "reset"}))
    BY <1>4 DEF PublishReady, PublishReadyOk, PublishResetReady, PublishResetReadyOk,
      Replacing
  <2>2. \A dropped : row(dropped).state = "READY"
    BY <1>0 DEF Attempt
  <2> HIDE DEF row
  <2>3. InUse(a) # {}
    BY <2>1 DEF InUse, Usable
  <2>4. /\ RoomPhase(old.state) \in {"preparing", "replacing"}
        /\ RoomPhase("READY") = "offered"
        /\ \A p \in {"preparing", "replacing"} : Promise!Follows(p, "offered")
        /\ "READY" \in AttemptStates \cup {"NONE"}
    BY <2>1 DEF RoomPhase, Promise!Follows, AttemptStates
  <2>5. ASSUME NEW new, WriteAttempt(a, new), new.state = "READY"
        PROVE  [Promise!Next]_(Promise!roomVars)
    BY <2>3, <2>4, <2>5, AttemptKeepsPromise
  <2> QED
    BY <2>1, <2>2, <2>5
<1>5. ASSUME NEW g \in Generations, NEW source, NEW target \in {"RUNNING", "RESOLVED"},
             PublishRuntimeState(a, g, old.version, source, target),
             source \in {"READY", "RUNNING"}
      PROVE  [Promise!Next]_(Promise!roomVars)
  <2> DEFINE row == [old EXCEPT !.state = target, !.version = @ + 1]
  <2>1. /\ WriteAttempt(a, row)
        /\ old.state \in {"READY", "RUNNING"}
        /\ row.state = target
    BY <1>0, <1>5 DEF PublishRuntimeState, PublishRuntimeStateOk, Attempt
  <2> HIDE DEF row
  <2>2. /\ RoomPhase(old.state) = "offered" /\ RoomPhase(row.state) = "offered"
        /\ Promise!Follows("offered", "offered")
        /\ row.state \in AttemptStates \cup {"NONE"}
    BY <2>1 DEF RoomPhase, Promise!Follows, AttemptStates
  <2> QED
    BY <2>1, <2>2, AttemptKeepsPromise
<1>6. ASSUME NEW g \in Generations, FailReset(a, g, old.version)
      PROVE  [Promise!Next]_(Promise!roomVars)
  <2> DEFINE row == [old EXCEPT !.state = "FAILED", !.intents = @ \ {"provisioning"},
                                !.version = @ + 1]
  <2>1. /\ WriteAttempt(a, row)
        /\ old.state = "RESETTING"
        /\ row.state = "FAILED"
    BY <1>0, <1>6 DEF FailReset, FailResetOk, Replacing, Attempt
  <2> HIDE DEF row
  <2>2. /\ RoomPhase(old.state) = "replacing" /\ RoomPhase(row.state) = "closing"
        /\ Promise!Follows("replacing", "closing")
        /\ row.state \in AttemptStates \cup {"NONE"}
    BY <2>1 DEF RoomPhase, Promise!Follows, AttemptStates
  <2> QED
    BY <2>1, <2>2, AttemptKeepsPromise
<1>7. ASSUME NEW g \in Generations, CompleteCleanup(a, g)
      PROVE  [Promise!Next]_(Promise!roomVars)
  <2> DEFINE row == [StopAttempt(old) EXCEPT !.state = "DESTROYED", !.active = 0,
                                             !.version = @ + 1]
  <2>1. /\ WriteAttempt(a, row)
        /\ old.state \notin {"NONE", "DESTROYED"}
        /\ AllAbsent(a) /\ VerifiedAbsent(resources[a][g]) /\ Binding(a, g)
    BY <1>7 DEF CompleteCleanup, CompleteCleanupOk, Binding
  <2>2. row.state = "DESTROYED"
    BY <1>0, StopAttemptType DEF Attempt
  <2> HIDE DEF row
  <2>3. Held(a) = {}
    BY <2>1 DEF AllAbsent, Held
  <2>4. RoomPhase(old.state) \in {"preparing", "offered", "replacing", "closing"}
    BY <1>0, <2>1 DEF RoomPhase, Attempt, AttemptStates
  <2>5. /\ RoomPhase(row.state) = "closed"
        /\ \A p \in {"preparing", "offered", "replacing", "closing"} :
             Promise!Follows(p, "closed")
        /\ row.state \in AttemptStates \cup {"NONE"}
    BY <2>2 DEF RoomPhase, Promise!Follows, AttemptStates
  <2> QED
    BY <2>1, <2>3, <2>4, <2>5, AttemptKeepsPromise
<1> QED
  BY <1>1, <1>2, <1>3, <1>4, <1>5, <1>6, <1>7
  DEF BackendStep, PublishRunning, PublishResolved

-----------------------------------------------------------------------------
(* ControlPlaneStore and the promise *)

\* A method that leaves what the promise sees alone.
LEMMA UnseenKeepsPromise ==
  ASSUME PhaseOf' = PhaseOf, HeldBy' = HeldBy, InUseBy' = InUseBy
  PROVE  [Promise!Next]_(Promise!roomVars)
BY DEF Promise!roomVars

\* Sandboxes of one room that are told to stop, all held already.
LEMMA ToldKeepsPromise ==
  ASSUME NEW a \in Attempts, NEW g \in Generations,
         PhaseOf' = PhaseOf, HeldBy' = HeldBy,
         InUseBy' = [InUseBy EXCEPT ![a] = @ \ {g}]
  PROVE  [Promise!Next]_(Promise!roomVars)
<1> DEFINE told     == [b \in Attempts |-> IF b = a THEN {g} ELSE {}]
           recorded == [b \in Attempts |-> {}]
<1>1. told \in [Attempts -> SUBSET Generations] /\ recorded \in [Attempts -> SUBSET Generations]
  OBVIOUS
<1>2. InUseBy' = [b \in Attempts |-> InUseBy[b] \ told[b]]
  BY DEF InUseBy
<1>3. HeldBy' = [b \in Attempts |-> HeldBy[b] \cup recorded[b]]
  BY DEF HeldBy
<1>4. \A b \in Attempts : recorded[b] = {}
  OBVIOUS
<1> HIDE DEF told, recorded
<1>5. Promise!StopSandboxes(told, recorded)
  BY <1>2, <1>3, <1>4 DEF Promise!StopSandboxes
<1> QED
  BY <1>1, <1>5 DEF Promise!Next

\* A sandbox is accepted when no other one of its room is held.
LEMMA AcceptKeepsPromise ==
  ASSUME StoreInv, NEW a \in Attempts, NEW g \in Generations, Accept(a, g)
  PROVE  [Promise!Next]_(Promise!roomVars)
<1> DEFINE row == [NoResource EXCEPT !.state = "REQUESTED"]
<1>1. WriteResource(a, g, row) /\ AcceptOk(a, g)
  BY DEF Accept
<1>2. row.state = "REQUESTED" /\ "destroy" \notin row.intents
  BY DEF NoResource
<1> HIDE DEF row
<1>3. /\ PhaseOf' = PhaseOf
      /\ HeldBy' = [HeldBy EXCEPT ![a] = @ \cup {g}]
      /\ InUseBy' = [InUseBy EXCEPT ![a] = @ \cup {g}]
  BY <1>1, <1>2, WrittenSandbox
<1>4. PhaseOf[a] \in {"preparing", "replacing"}
  BY <1>1 DEF AcceptOk, Replacing, PhaseOf, RoomPhase
<1>5. Held(a) = {}
  <2>1. ASSUME NEW h \in Generations
        PROVE  resources[a][h].state \in {"NONE", "DESTROYED"}
    <3>1. attempts[a] \in Attempt /\ attempts[a].generation = g
      BY <1>1 DEF AcceptOk, Binding, StoreInv, TypeOK
    <3>2. CASE h > g
      BY <3>1, <3>2 DEF StoreInv, RoomInv, ResourceShape
    <3>3. CASE h = g
      BY <1>1, <3>3 DEF AcceptOk
    <3>4. CASE h < g
      <4>1. attempts[a].state # "PROVISIONING"
        BY <3>1, <3>4 DEF StoreInv, RoomInv, AttemptShape, Generations
      <4>2. VerifiedAbsent(resources[a][attempts[a].active])
        BY <1>1, <4>1 DEF AcceptOk
      <4> QED
        BY <3>1, <3>4, <4>2 DEF StoreInv, RoomInv, GenerationOrder, VerifiedAbsent
    <3> QED
      BY <3>1, <3>2, <3>3, <3>4 DEF Generations
  <2> QED
    BY <2>1 DEF Held
<1>6. InUse(a) = {}
  BY <1>5 DEF Held, InUse, Usable
<1>7. Promise!Acquire(a, g)
  <2>1. HeldBy[a] = {} /\ InUseBy[a] = {}
    BY <1>5, <1>6 DEF HeldBy, InUseBy
  <2>2. HeldBy' = [HeldBy EXCEPT ![a] = {g}] /\ InUseBy' = [InUseBy EXCEPT ![a] = {g}]
    BY <1>3, <2>1 DEF HeldBy, InUseBy
  <2> QED
    BY <1>3, <1>4, <2>1, <2>2 DEF Promise!Acquire
<1> QED
  BY <1>7 DEF Promise!Next

\* Only the sandbox of a room that is being prepared can fail.
LEMMA FailingIsPreparing ==
  ASSUME StoreInv, NEW a \in Attempts, NEW g \in Generations,
         TransitionOk(a, g, resources[a][g].version, "FAILED"),
         resources[a][g].state # "STOPPING"
  PROVE  /\ PhaseOf[a] \in {"preparing", "replacing"}
         /\ InUse(a) = {g}
<1>1. resources[a][g].state \in {"CREATING", "STARTING"}
  BY DEF TransitionOk, NextStates
<1>2. "destroy" \notin resources[a][g].intents
  BY <1>1 DEF StoreInv, RoomInv, ResourceShape
<1>3. Usable(a, g)
  BY <1>1, <1>2 DEF Usable
<1>4. /\ attempts[a] \in Attempt
      /\ attempts[a].generation = g
      /\ attempts[a].state \notin {"NONE", "STOPPING", "FAILED", "DESTROYED"}
  BY <1>2 DEF TransitionOk, IsCleanup, ControlLive, BackendLive, BindingAllowActive,
    StoreInv, TypeOK
<1>5. ~Published(a)
  <2>1. ASSUME Published(a)
        PROVE  Reached(a, g)
    BY <2>1, <1>3, <1>4 DEF StoreInv, RoomInv, VerifiedRoom
  <2> QED
    BY <1>1, <2>1 DEF Reached, Published
<1>6. PhaseOf[a] \in {"preparing", "replacing"}
  BY <1>4, <1>5 DEF PhaseOf, RoomPhase, Published, Attempt, AttemptStates
<1>7. \A h \in Generations : h # g => ~Usable(a, h)
  <2>1. \A h \in Generations : h < g => VerifiedAbsent(resources[a][h])
    BY <1>3, <1>4 DEF StoreInv, RoomInv, GenerationOrder, AloneInRoom
  <2>2. \A h \in Generations : h > g => resources[a][h].state = "NONE"
    BY <1>4 DEF StoreInv, RoomInv, ResourceShape
  <2> QED
    BY <2>1, <2>2 DEF VerifiedAbsent, Usable, Generations
<1> QED
  BY <1>3, <1>6, <1>7 DEF InUse

LEMMA TransitionKeepsPromise ==
  ASSUME StoreInv, NEW a \in Attempts, NEW g \in Generations, NEW state \in ResourceStates,
         Requested(a, g, state), Transition(a, g, resources[a][g].version, state)
  PROVE  [Promise!Next]_(Promise!roomVars)
<1> DEFINE old == resources[a][g]
           stops == IF state \in {"STOPPING", "FAILED", "DESTROYED"} THEN {"destroy"} ELSE {}
           row == [old EXCEPT !.state = state,
                              !.version = @ + 1,
                              !.intents = @ \cup stops \cup IfExpired(ControlExpired(a)),
                              !.filled = @ \cup FilledBy(state)]
<1>1. /\ old \in Resource
      /\ WriteResource(a, g, row)
      /\ TransitionOk(a, g, old.version, state)
      /\ state \in NextStates(old.state)
      /\ old.state # "NONE"
      /\ state \notin {"REQUESTED", "STOPPING"}
  BY DEF Transition, TransitionOk, Requested, StoreInv, TypeOK
<1>2. /\ row.state = state
      /\ row.intents = old.intents \cup stops \cup IfExpired(ControlExpired(a))
  BY <1>1 DEF Resource
<1>3. "destroy" \in row.intents <=> "destroy" \in old.intents \/ stops # {}
  BY <1>2 DEF IfExpired
<1> HIDE DEF row
<1>4. HeldBy[a] = Held(a) /\ InUseBy[a] = InUse(a)
  BY DEF HeldBy, InUseBy
<1>5. CASE state = "DESTROYED"
  <2>1. old.state = "STOPPING"
    BY <1>1, <1>5 DEF NextStates
  <2>2. g \in Held(a) /\ g \notin InUse(a)
    BY <2>1 DEF Held, InUse, Usable, StoreInv, RoomInv, ResourceShape
  <2>3. /\ PhaseOf' = PhaseOf
        /\ HeldBy' = [HeldBy EXCEPT ![a] = @ \ {g}]
        /\ InUseBy' = [InUseBy EXCEPT ![a] = @ \ {g}]
    BY <1>1, <1>2, <1>5, WrittenSandbox
  <2>4. InUseBy' = InUseBy
    BY <1>4, <2>2, <2>3 DEF InUseBy
  <2>5. Promise!Vanish(a, g)
    BY <1>4, <2>2, <2>3, <2>4 DEF Promise!Vanish
  <2> QED
    BY <2>5 DEF Promise!Next
<1>6. CASE state = "FAILED"
  <2>1. PhaseOf[a] \in {"preparing", "replacing"} /\ InUse(a) = {g}
    BY <1>1, <1>6, FailingIsPreparing DEF Requested
  <2>2. g \in Held(a)
    BY <2>1 DEF Held, InUse, Usable
  <2>3. /\ PhaseOf' = PhaseOf
        /\ HeldBy' = [HeldBy EXCEPT ![a] = @ \cup {g}]
        /\ InUseBy' = [InUseBy EXCEPT ![a] = @ \ {g}]
    BY <1>1, <1>2, <1>3, <1>6, WrittenSandbox
  <2>4. HeldBy' = HeldBy
    BY <1>4, <2>2, <2>3 DEF HeldBy
  <2>5. Promise!Fail(a, g)
    BY <1>4, <2>1, <2>3, <2>4 DEF Promise!Fail
  <2> QED
    BY <2>5 DEF Promise!Next
<1>7. CASE state \notin {"DESTROYED", "FAILED"}
  <2>1. /\ state \notin {"NONE", "STOPPING", "FAILED", "DESTROYED"}
        /\ old.state # "DESTROYED"
    BY <1>1, <1>7 DEF NextStates, ResourceStates
  <2>2. "destroy" \notin old.intents
    BY <1>1, <2>1 DEF TransitionOk, IsCleanup
  <2>3. g \in Held(a) /\ g \in InUse(a)
    BY <1>1, <2>1, <2>2 DEF Held, InUse, Usable
  <2>4. "destroy" \notin row.intents
    BY <1>3, <2>1, <2>2
  <2>5. /\ PhaseOf' = PhaseOf
        /\ HeldBy' = [HeldBy EXCEPT ![a] = @ \cup {g}]
        /\ InUseBy' = [InUseBy EXCEPT ![a] = @ \cup {g}]
    BY <1>1, <1>2, <2>1, <2>4, WrittenSandbox
  <2>6. HeldBy' = HeldBy
    BY <1>4, <2>3, <2>5 DEF HeldBy
  <2>7. InUseBy' = InUseBy
    BY <1>4, <2>3, <2>5 DEF InUseBy
  <2> QED
    BY <2>5, <2>6, <2>7, UnseenKeepsPromise
<1> QED
  BY <1>5, <1>6, <1>7

LEMMA ControlStepKeepsPromise ==
  ASSUME StoreInv, NEW a \in Attempts, ControlStep(a)
  PROVE  [Promise!Next]_(Promise!roomVars)
<1>0. \A g \in Generations : resources[a][g] \in Resource
  BY DEF StoreInv, TypeOK
<1>1. ASSUME NEW g \in Generations, DenyResource(a, g)
      PROVE  [Promise!Next]_(Promise!roomVars)
  <2> DEFINE row == StopResource(resources[a][g], TRUE)
  <2>1. WriteResource(a, g, row) /\ resources[a][g].state # "NONE"
    BY <1>1 DEF DenyResource
  <2>2. row = resources[a][g] \/ ToldToStop(resources[a][g], row)
    BY <1>0, StopResourceTells
  <2>3. row.state = "DESTROYED" <=> resources[a][g].state = "DESTROYED"
    BY <2>2 DEF ToldToStop
  <2>4. row.state # "NONE" /\ (row.state = "DESTROYED" \/ "destroy" \in row.intents)
    BY <1>0, <2>1 DEF StopResource, Resource
  <2> HIDE DEF row
  <2>5. /\ PhaseOf' = PhaseOf
        /\ HeldBy' = [HeldBy EXCEPT ![a] = IF row.state = "DESTROYED" THEN @ \ {g} ELSE @ \cup {g}]
        /\ InUseBy' = [InUseBy EXCEPT ![a] = @ \ {g}]
    BY <2>1, <2>4, WrittenSandbox
  <2>6. HeldBy[a] = Held(a) /\ (g \in Held(a) <=> row.state # "DESTROYED")
    BY <2>1, <2>3 DEF HeldBy, Held
  <2>7. HeldBy' = HeldBy
    <3>1. HeldBy = [HeldBy EXCEPT ![a] = HeldBy[a]]
      BY DEF HeldBy
    <3>2. CASE row.state = "DESTROYED"
      BY <2>5, <2>6, <3>1, <3>2
    <3>3. CASE row.state # "DESTROYED"
      BY <2>5, <2>6, <3>1, <3>3
    <3> QED
      BY <3>2, <3>3
  <2> QED
    BY <2>5, <2>7, ToldKeepsPromise
<1>2. ASSUME NEW g \in Generations, NEW retryAt \in 1..MaxTime,
             CleanupFailed(a, g, resources[a][g].version, retryAt)
      PROVE  [Promise!Next]_(Promise!roomVars)
  <2> DEFINE row == [resources[a][g] EXCEPT !.state = "FAILED", !.version = @ + 1]
  <2>1. WriteResource(a, g, row) /\ resources[a][g].state = "STOPPING"
    BY <1>2 DEF CleanupFailed, CleanupFailedOk
  <2>2. row.state = "FAILED" /\ row.intents = resources[a][g].intents
    BY <1>0 DEF Resource
  <2>3. "destroy" \in resources[a][g].intents
    BY <2>1 DEF StoreInv, RoomInv, ResourceShape
  <2> HIDE DEF row
  <2>4. /\ PhaseOf' = PhaseOf
        /\ HeldBy' = [HeldBy EXCEPT ![a] = @ \cup {g}]
        /\ InUseBy' = [InUseBy EXCEPT ![a] = @ \ {g}]
    BY <2>1, <2>2, <2>3, WrittenSandbox
  <2>5. HeldBy[a] = Held(a) /\ g \in Held(a)
    BY <2>1 DEF HeldBy, Held
  <2>6. HeldBy' = HeldBy
    BY <2>4, <2>5 DEF HeldBy
  <2> QED
    BY <2>4, <2>6, ToldKeepsPromise
<1> QED
  BY <1>1, <1>2, AcceptKeepsPromise, TransitionKeepsPromise DEF ControlStep

\* What a cleanup pass leaves of a row it takes.
LEMMA StoppedRowIs ==
  ASSUME StoreInv, NEW a \in Attempts, NEW g \in Generations, DueFor(a, g)
  PROVE  StoppedRow(a, g).state = "STOPPING" /\ "destroy" \in StoppedRow(a, g).intents
<1>1. resources[a][g] \in Resource /\ resources[a][g].state # "DESTROYED"
  BY DEF StoreInv, TypeOK, DueFor, RecordedDue, UnrecordedDue
<1>2. ControlExpired(a) \in BOOLEAN
  BY DEF ControlExpired, PastDeadline, Intends
<1>3. CASE resources[a][g].state # "NONE"
  BY <1>1, <1>3 DEF StoppedRow, StopResource, Resource
<1>4. CASE resources[a][g].state = "NONE"
  <2> DEFINE fresh == [NoResource EXCEPT
                         !.state   = "STOPPING",
                         !.intents = {"destroy"} \cup IfExpired(ControlExpired(a))]
  <2>1. StoppedRow(a, g) = StopResource(fresh, ControlExpired(a))
    BY <1>4 DEF StoppedRow
  <2>2. fresh \in Resource /\ fresh.state = "STOPPING" /\ "destroy" \in fresh.intents
    BY DEF NoResource, Resource, ResourceStates, IfExpired
  <2> HIDE DEF fresh
  <2> QED
    BY <2>1, <2>2 DEF StopResource, Resource
<1> QED
  BY <1>3, <1>4

\* One cleanup pass over several rooms: the sandboxes it never saw created are
\* those of rooms that are not offered, whose sandbox has its evidence.
LEMMA ReconcileKeepsPromise ==
  ASSUME StoreInv, NEW batch \in SUBSET CleanupDue, NEW n, Reconcile(batch, n)
  PROVE  [Promise!Next]_(Promise!roomVars)
<1> DEFINE Told(a) == {g \in Generations : <<a, g>> \in batch}
           Unseen(a) == {g \in Told(a) : resources[a][g].state = "NONE"}
           told == [a \in Attempts |-> Told(a)]
           recorded == [a \in Attempts |-> Unseen(a)]
<1>1. told \in [Attempts -> SUBSET Generations] /\ recorded \in [Attempts -> SUBSET Generations]
  OBVIOUS
<1>2. /\ attempts' = attempts
      /\ \A a \in Attempts, g \in Generations :
           resources'[a][g] = IF <<a, g>> \in batch THEN StoppedRow(a, g) ELSE resources[a][g]
  BY DEF Reconcile
<1>3. \A a \in Attempts, g \in Generations : <<a, g>> \in batch => DueFor(a, g)
  BY DEF CleanupDue
<1>4. \A a \in Attempts, g \in Generations :
        <<a, g>> \in batch =>
          resources'[a][g].state = "STOPPING" /\ "destroy" \in resources'[a][g].intents
  BY <1>2, <1>3, StoppedRowIs
<1>5. PhaseOf' = PhaseOf
  BY <1>2 DEF PhaseOf
<1>6. HeldBy' = [a \in Attempts |-> HeldBy[a] \cup recorded[a]]
  <2>1. ASSUME NEW a \in Attempts
        PROVE  Held(a)' = Held(a) \cup Unseen(a)
    <3>1. ASSUME NEW g \in Generations, <<a, g>> \in batch
          PROVE  resources'[a][g].state = "STOPPING" /\ resources[a][g].state # "DESTROYED"
      BY <1>3, <1>4, <3>1 DEF DueFor, RecordedDue, UnrecordedDue
    <3>2. ASSUME NEW g \in Generations, <<a, g>> \notin batch
          PROVE  resources'[a][g] = resources[a][g]
      BY <1>2, <3>2
    <3> QED
      BY <3>1, <3>2 DEF Held
  <2> QED
    BY <2>1 DEF HeldBy
<1>7. InUseBy' = [a \in Attempts |-> InUseBy[a] \ told[a]]
  <2>1. ASSUME NEW a \in Attempts
        PROVE  InUse(a)' = InUse(a) \ Told(a)
    BY <1>2, <1>4 DEF InUse, Usable
  <2> QED
    BY <2>1 DEF InUseBy
<1>8. ASSUME NEW a \in Attempts, recorded[a] # {}
      PROVE  PhaseOf[a] \in {"preparing", "replacing", "closing"}
  <2>1. PICK g \in Generations : <<a, g>> \in batch /\ resources[a][g].state = "NONE"
    BY <1>8
  <2>2. /\ attempts[a] \in Attempt
        /\ attempts[a].state \notin {"NONE", "DESTROYED"}
        /\ attempts[a].generation = g
    BY <1>3, <2>1 DEF DueFor, RecordedDue, UnrecordedDue, StoreInv, TypeOK
  <2>3. ~Published(a)
    <3>1. resources[a][g].filled = {}
      BY <2>1 DEF StoreInv, RoomInv, ResourceShape, NoResource
    <3> QED
      BY <2>2, <3>1 DEF StoreInv, RoomInv, VerifiedRoom
  <2> QED
    BY <2>2, <2>3 DEF PhaseOf, RoomPhase, Published, Attempt, AttemptStates
<1> HIDE DEF told, recorded
<1>9. Promise!StopSandboxes(told, recorded)
  BY <1>5, <1>6, <1>7, <1>8 DEF Promise!StopSandboxes
<1> QED
  BY <1>1, <1>9 DEF Promise!Next

-----------------------------------------------------------------------------
(* The whole store and the promise *)

\* One expiry pass closes the rooms it takes.
LEMMA ExpireKeepsPromise ==
  ASSUME StoreInv, NEW batch \in SUBSET Attempts, Expire(batch)
  PROVE  [Promise!Next]_(Promise!roomVars)
<1>1. /\ resources' = resources
      /\ batch \subseteq ExpiryDue
      /\ \A a \in Attempts : attempts'[a] = IF a \in batch THEN StopAttempt(attempts[a])
                                                          ELSE attempts[a]
  BY DEF Expire, TakesSoonest, TakesUpTo
<1>2. HeldBy' = HeldBy /\ InUseBy' = InUseBy
  BY <1>1 DEF HeldBy, InUseBy, Held, InUse, Usable
<1>3. ASSUME NEW a \in batch
      PROVE  /\ attempts'[a].state = "STOPPING"
             /\ PhaseOf[a] \in {"preparing", "offered", "replacing", "closing"}
  <2>1. /\ attempts[a] \in Attempt /\ attempts[a].state \notin {"NONE", "DESTROYED"}
        /\ clock >= attempts[a].expiresAt /\ "expiry" \notin attempts[a].intents
    BY <1>1 DEF ExpiryDue, PastDeadline, Intends, StoreInv, TypeOK
  <2>2. StopAttempt(attempts[a]).state = "STOPPING"
    BY <2>1 DEF StopAttempt, Attempt
  <2> QED
    BY <1>1, <2>1, <2>2 DEF PhaseOf, RoomPhase, Attempt, AttemptStates
<1>4. PhaseOf' = [a \in Attempts |-> IF a \in batch THEN "closing" ELSE PhaseOf[a]]
  <2>1. ASSUME NEW a \in Attempts
        PROVE  RoomPhase(attempts'[a].state) = IF a \in batch THEN "closing" ELSE PhaseOf[a]
    <3>1. RoomPhase("STOPPING") = "closing"
      BY DEF RoomPhase
    <3> QED
      BY <1>1, <1>3, <3>1 DEF PhaseOf
  <2>2. PhaseOf' = [a \in Attempts |-> RoomPhase(attempts'[a].state)]
    BY DEF PhaseOf, RoomPhase
  <2> QED
    BY <2>1, <2>2
<1>5. Promise!CloseSome(batch)
  BY <1>2, <1>3, <1>4 DEF Promise!CloseSome
<1> QED
  BY <1>5 DEF Promise!Next

LEMMA EveryStepKeepsPromise ==
  ASSUME StoreInv, [Next]_vars
  PROVE  [Promise!Next]_(Promise!roomVars)
<1>1. CASE Tick \/ UNCHANGED vars
  <2>1. attempts' = attempts /\ resources' = resources
    BY <1>1 DEF Tick, vars
  <2> QED
    BY <2>1, UnseenKeepsPromise DEF PhaseOf, HeldBy, InUseBy, Held, InUse, Usable
<1>2. ASSUME NEW batch \in SUBSET Attempts, Expire(batch)
      PROVE  [Promise!Next]_(Promise!roomVars)
  BY <1>2, ExpireKeepsPromise
<1>3. ASSUME NEW batch \in SUBSET CleanupDue, NEW n \in 1..Limit, Reconcile(batch, n)
      PROVE  [Promise!Next]_(Promise!roomVars)
  BY <1>3, ReconcileKeepsPromise
<1> QED
  BY <1>1, <1>2, <1>3, BackendStepKeepsPromise, ControlStepKeepsPromise
  DEF Next, ExpireSome, ReconcileSome

\* The store implements RoomPromise: whatever methods are called, in whatever
\* order, a room is offered only over a sandbox in use, at most one is in use, a
\* new one waits until none is held, and a closed room holds none.
THEOREM StoreAlwaysKeepsPromise == Spec => KeepsPromise
<1>1. Init => Promise!Init
  BY DEF Init, Promise!Init, PhaseOf, HeldBy, InUseBy, Held, InUse, Usable, RoomPhase,
    NoAttempt, NoResource
<1>2. StoreInv /\ [Next]_vars => [Promise!Next]_(Promise!roomVars)
  BY EveryStepKeepsPromise
<1> QED
  BY <1>1, <1>2, StoreInvariant, PTL DEF KeepsPromise, Promise!Spec, Spec

=============================================================================
