-------------------------- MODULE StateStoreProofs --------------------------
(* Theorems about the state store, for every value of its constants. *)
EXTENDS StateStore, TLAPS

-----------------------------------------------------------------------------
(* Type correctness *)

LEMMA StopAttemptType ==
  ASSUME NEW row \in Attempt
  PROVE  StopAttempt(row) \in Attempt
<1> DEFINE expired == clock >= row.expiresAt
           first   == "destroy" \notin row.intents
           stopped == (row.intents \ {"provisioning"}) \cup {"destroy"} \cup IfExpired(expired)
<1>1. stopped \in SUBSET AttemptIntents
  BY DEF Attempt, AttemptIntents, IfExpired
<1>2. (IF first THEN row.epoch + 1 ELSE row.epoch) \in Nat /\ row.version + 1 \in Nat
  BY DEF Attempt
<1>3. "STOPPING" \in AttemptStates
  BY DEF AttemptStates
<1> HIDE DEF expired, first, stopped
<1>4. [row EXCEPT !.state = "STOPPING", !.intents = stopped,
                  !.epoch = IF first THEN row.epoch + 1 ELSE row.epoch,
                  !.version = row.version + 1] \in Attempt
  BY <1>1, <1>2, <1>3 DEF Attempt
<1> QED
  BY <1>4 DEF StopAttempt, expired, first, stopped

LEMMA StopResourceType ==
  ASSUME NEW row \in Resource, NEW expired \in BOOLEAN
  PROVE  StopResource(row, expired) \in Resource
<1>1. row.intents \cup {"destroy"} \cup IfExpired(expired) \in SUBSET {"expiry", "destroy"}
  BY DEF Resource, IfExpired
<1>2. row.version + 1 \in Nat
  BY DEF Resource
<1> QED
  BY <1>1, <1>2 DEF StopResource, Resource, ResourceStates

-----------------------------------------------------------------------------
(* How the invariant of one room follows from what a step does to its rows *)

\* A room whose rows a step leaves alone keeps its invariant as time passes.
LEMMA UntouchedRoom ==
  ASSUME TypeOK, NEW a \in Attempts, RoomInv(a),
         attempts'[a] = attempts[a], resources'[a] = resources[a],
         clock' \in Nat, clock' >= clock
  PROVE  RoomInv(a)'
<1>1. attempts[a].expiresAt \in Nat /\ clock \in Nat
  BY DEF TypeOK, Attempt
<1>2. PastDeadline(a) => PastDeadline(a)'
  BY <1>1 DEF PastDeadline
<1> QED
  BY <1>2 DEF RoomInv, AttemptShape, ResourceShape, GenerationOrder, AloneInRoom,
    VerifiedRoom, Reached, CleanRoom, Published, Usable, VerifiedAbsent

\* A stop of the attempt, alone or in an expiry pass.
LEMMA StoppedRoom ==
  ASSUME TypeOK, NEW a \in Attempts, RoomInv(a), attempts[a].state # "NONE",
         attempts'[a] = StopAttempt(attempts[a]), resources'[a] = resources[a],
         clock' = clock
  PROVE  RoomInv(a)'
<1> DEFINE row == attempts[a]
<1>1. CASE attempts'[a] = row
  BY <1>1, UntouchedRoom DEF TypeOK
<1>2. CASE attempts'[a] # row
  <2>1. /\ row \in Attempt
        /\ row.state # "DESTROYED"
        /\ attempts'[a].state = "STOPPING"
        /\ attempts'[a].generation = row.generation
        /\ attempts'[a].active = row.active
        /\ attempts'[a].candidate = row.candidate
        /\ "destroy" \in attempts'[a].intents
    BY <1>2 DEF StopAttempt, TypeOK, Attempt
  <2>2. AttemptShape(a)'
    BY <2>1 DEF RoomInv, AttemptShape, Published, Attempt, AttemptStates
  <2>3. \A g \in Generations : ResourceShape(a, g)'
    BY <2>1 DEF RoomInv, ResourceShape
  <2>4. GenerationOrder(a)'
    BY <2>1 DEF RoomInv, GenerationOrder, AloneInRoom, Usable, VerifiedAbsent
  <2> QED
    BY <2>1, <2>2, <2>3, <2>4 DEF RoomInv, Published
<1> QED
  BY <1>1, <1>2

\* One attempt row is written: the invariant is the written room's to keep.
LEMMA WrittenAttempt ==
  ASSUME StoreInv, NEW a \in Attempts, NEW row \in Attempt,
         WriteAttempt(a, row), attempts'[a] = row => RoomInv(a)'
  PROVE  StoreInv'
<1>1. attempts'[a] = row /\ TypeOK'
  BY DEF StoreInv, TypeOK, WriteAttempt
<1>2. ASSUME NEW b \in Attempts, b # a
      PROVE  RoomInv(b)'
  <2>1. attempts'[b] = attempts[b] /\ resources'[b] = resources[b] /\ clock' = clock
    BY <1>2 DEF WriteAttempt, StoreInv, TypeOK
  <2> QED
    BY <2>1, UntouchedRoom DEF StoreInv, TypeOK
<1> QED
  BY <1>1, <1>2 DEF StoreInv

\* One sandbox row is written, and perhaps its cleanup operation.
LEMMA WrittenResource ==
  ASSUME StoreInv, NEW a \in Attempts, NEW g \in Generations, NEW row \in Resource,
         WriteResource(a, g, row), cleanups' \in [Attempts -> [Generations -> Cleanup]],
         /\ resources'[a] \in [Generations -> Resource]
         /\ resources'[a][g] = row
         /\ \A h \in Generations \ {g} : resources'[a][h] = resources[a][h]
         => RoomInv(a)'
  PROVE  StoreInv'
<1>1. /\ resources'[a] \in [Generations -> Resource]
      /\ resources'[a][g] = row
      /\ \A h \in Generations \ {g} : resources'[a][h] = resources[a][h]
      /\ TypeOK'
  BY DEF StoreInv, TypeOK, WriteResource
<1>2. ASSUME NEW b \in Attempts, b # a
      PROVE  RoomInv(b)'
  <2>1. attempts'[b] = attempts[b] /\ resources'[b] = resources[b] /\ clock' = clock
    BY <1>2 DEF WriteResource, StoreInv, TypeOK
  <2> QED
    BY <2>1, UntouchedRoom DEF StoreInv, TypeOK
<1> QED
  BY <1>1, <1>2 DEF StoreInv

-----------------------------------------------------------------------------
(* BackendStore *)

LEMMA CreateKeeps ==
  ASSUME StoreInv, NEW a \in Attempts, NEW deadline \in Nat, Create(a, deadline)
  PROVE  StoreInv'
<1> DEFINE row == [NoAttempt EXCEPT !.state = "PROVISIONING", !.generation = 1,
                     !.candidate = 1, !.expiresAt = deadline,
                     !.intents = {"provisioning"}]
<1>1. row \in Attempt
  <2>1. NoAttempt \in Attempt
    BY StoreAssumption DEF NoAttempt, Attempt
  <2>2. 1 \in 0..MaxGeneration /\ deadline \in Nat
    BY StoreAssumption
  <2>3. {"provisioning"} \in SUBSET AttemptIntents /\ "PROVISIONING" \in AttemptStates
    BY DEF AttemptIntents, AttemptStates
  <2> QED
    BY <2>1, <2>2, <2>3, Zenon DEF Attempt
<1>2. WriteAttempt(a, row) /\ attempts[a] = NoAttempt
  BY DEF Create, StoreInv, RoomInv, AttemptShape
<1>3. \A g \in Generations : resources[a][g] = NoResource
  BY <1>2 DEF StoreInv, RoomInv, ResourceShape, NoAttempt, Generations
<1>4. ASSUME attempts'[a] = row
      PROVE  RoomInv(a)'
  <2>1. resources' = resources
    BY <1>2 DEF WriteAttempt
  <2>2. AttemptShape(a)'
    BY <1>4 DEF AttemptShape, NoAttempt, Published
  <2>3. \A g \in Generations : ResourceShape(a, g)'
    BY <1>3, <2>1 DEF ResourceShape, NoResource
  <2>4. GenerationOrder(a)'
    BY <1>3, <1>4, <2>1, StoreAssumption
    DEF GenerationOrder, AloneInRoom, Usable, NoAttempt, NoResource, Generations
  <2> QED
    BY <1>4, <2>2, <2>3, <2>4 DEF RoomInv, Published, NoAttempt
<1> QED
  BY <1>1, <1>2, <1>4, WrittenAttempt

\* Leave and the denial of an expired backend call.
LEMMA StopKeeps ==
  ASSUME StoreInv, NEW a \in Attempts, attempts[a].state # "NONE",
         WriteAttempt(a, StopAttempt(attempts[a]))
  PROVE  StoreInv'
<1>1. attempts[a] \in Attempt
  BY DEF StoreInv, TypeOK
<1>2. resources' = resources /\ clock' = clock
  BY DEF WriteAttempt
<1> QED
  BY <1>1, <1>2, StopAttemptType, StoppedRoom, WrittenAttempt DEF StoreInv

LEMMA BeginResetKeeps ==
  ASSUME StoreInv, NEW a \in Attempts, NEW g \in Generations, BeginReset(a, g)
  PROVE  StoreInv'
<1> DEFINE row == [attempts[a] EXCEPT
                     !.generation = g + 1, !.candidate = g + 1,
                     !.state = "RESETTING",
                     !.intents = @ \cup {"provisioning", "reset"},
                     !.epoch = @ + 1, !.version = @ + 1]
<1>1. /\ attempts[a] \in Attempt
      /\ attempts[a].generation = g
      /\ attempts[a].active = g
      /\ attempts[a].intents = {}
      /\ Published(a)
      /\ g + 1 \in Generations
  BY StoreAssumption DEF BeginReset, BeginResetOk, Binding, StoreInv, TypeOK, RoomInv,
    AttemptShape, Published, Generations
<1>2. row \in Attempt
  <2>1. /\ g + 1 \in 0..MaxGeneration
        /\ attempts[a].epoch + 1 \in Nat
        /\ attempts[a].version + 1 \in Nat
        /\ attempts[a].intents \cup {"provisioning", "reset"} \in SUBSET AttemptIntents
        /\ "RESETTING" \in AttemptStates
    BY <1>1 DEF Attempt, AttemptStates, AttemptIntents, Generations
  <2> QED
    BY <1>1, <2>1, Zenon DEF Attempt
<1>3. WriteAttempt(a, row)
  BY DEF BeginReset
<1>4. resources' = resources
  BY <1>3 DEF WriteAttempt
<1>5. ASSUME attempts'[a] = row
      PROVE  RoomInv(a)'
  <2>1. /\ resources' = resources
        /\ attempts'[a].state = "RESETTING"
        /\ attempts'[a].generation = g + 1
        /\ attempts'[a].candidate = g + 1
        /\ attempts'[a].active = g
        /\ attempts'[a].intents = attempts[a].intents \cup {"provisioning", "reset"}
    BY <1>1, <1>4, <1>5 DEF Attempt
  <2>2. AttemptShape(a)'
    BY <1>1, <2>1 DEF AttemptShape, Published, Generations
  <2>3. \A h \in Generations : ResourceShape(a, h)'
    BY <1>1, <2>1 DEF StoreInv, RoomInv, ResourceShape, Generations
  <2>4. GenerationOrder(a)'
    <3>1. resources[a][g + 1].state = "NONE"
      BY <1>1 DEF StoreInv, RoomInv, ResourceShape, Generations
    <3>2. \A h \in Generations : h < g => VerifiedAbsent(resources[a][h])
      BY <1>1 DEF StoreInv, RoomInv, VerifiedRoom
    <3>3. "evidence_digest" \in resources[a][g].filled /\ resources[a][g].state # "NONE"
      BY <1>1 DEF StoreInv, RoomInv, GenerationOrder, Generations, Published
    <3> QED
      BY <2>1, <3>1, <3>2, <3>3 DEF GenerationOrder, AloneInRoom, Usable, Generations,
        VerifiedAbsent
  <2> QED
    BY <2>1, <2>2, <2>3, <2>4 DEF RoomInv, Published
<1> QED
  BY <1>2, <1>3, <1>5, WrittenAttempt

LEMMA PublishReadyKeeps ==
  ASSUME StoreInv, NEW a \in Attempts, NEW g \in Generations, NEW v, PublishReady(a, g, v)
  PROVE  StoreInv'
<1> DEFINE row == [attempts[a] EXCEPT
                     !.state = "READY", !.active = g, !.candidate = 0,
                     !.intents = @ \ {"provisioning"}, !.version = @ + 1]
<1>1. /\ attempts[a] \in Attempt
      /\ attempts[a].generation = g
      /\ g = 1
      /\ attempts[a].intents = {"provisioning"}
      /\ resources[a][g].state = "READY"
      /\ "destroy" \notin resources[a][g].intents
      /\ "evidence_digest" \in resources[a][g].filled
  BY DEF PublishReady, PublishReadyOk, Binding, StoreInv, TypeOK, RoomInv, AttemptShape,
    ResourceShape
<1>2. row \in Attempt
  <2>1. /\ g \in 0..MaxGeneration
        /\ 0 \in 0..MaxGeneration
        /\ attempts[a].version + 1 \in Nat
        /\ attempts[a].intents \ {"provisioning"} \in SUBSET AttemptIntents
        /\ "READY" \in AttemptStates
    BY <1>1, StoreAssumption DEF Attempt, AttemptStates, AttemptIntents, Generations
  <2> QED
    BY <1>1, <2>1, Zenon DEF Attempt
<1>3. WriteAttempt(a, row)
  BY DEF PublishReady
<1>4. resources' = resources
  BY <1>3 DEF WriteAttempt
<1>5. ASSUME attempts'[a] = row
      PROVE  RoomInv(a)'
  <2>1. /\ attempts'[a].state = "READY"
        /\ attempts'[a].generation = g
        /\ attempts'[a].candidate = 0
        /\ attempts'[a].active = g
        /\ attempts'[a].intents = attempts[a].intents \ {"provisioning"}
    BY <1>1, <1>5 DEF Attempt
  <2>2. AttemptShape(a)'
    BY <1>1, <2>1 DEF AttemptShape, Published
  <2>3. \A h \in Generations : ResourceShape(a, h)'
    BY <1>1, <1>4, <2>1 DEF StoreInv, RoomInv, ResourceShape
  <2>4. GenerationOrder(a)'
    BY <1>1, <1>4, <2>1 DEF GenerationOrder, AloneInRoom, Generations
  <2>5. VerifiedRoom(a)' /\ Usable(a, g)'
    BY <1>1, <1>4, <2>1 DEF VerifiedRoom, Generations, Reached, Usable
  <2> QED
    BY <2>1, <2>2, <2>3, <2>4, <2>5 DEF RoomInv
<1> QED
  BY <1>2, <1>3, <1>5, WrittenAttempt

LEMMA PublishRuntimeStateKeeps ==
  ASSUME StoreInv, NEW a \in Attempts, NEW g \in Generations, NEW v,
         NEW source \in {"READY", "RUNNING"}, NEW target \in {"RUNNING", "RESOLVED"},
         PublishRuntimeState(a, g, v, source, target)
  PROVE  StoreInv'
<1> DEFINE row == [attempts[a] EXCEPT !.state = target, !.version = @ + 1]
<1>1. /\ attempts[a] \in Attempt
      /\ attempts[a].generation = g
      /\ Published(a)
      /\ resources[a][g].state = target
      /\ "destroy" \notin resources[a][g].intents
  BY DEF PublishRuntimeState, PublishRuntimeStateOk, Binding, StoreInv, TypeOK, Published
<1>2. row \in Attempt
  <2>1. attempts[a].version + 1 \in Nat /\ target \in AttemptStates
    BY <1>1 DEF Attempt, AttemptStates
  <2> QED
    BY <1>1, <2>1, Zenon DEF Attempt
<1>3. WriteAttempt(a, row)
  BY DEF PublishRuntimeState
<1>4. resources' = resources
  BY <1>3 DEF WriteAttempt
<1>5. ASSUME attempts'[a] = row
      PROVE  RoomInv(a)'
  <2>1. /\ attempts'[a].state = target
        /\ attempts'[a].generation = g
        /\ attempts'[a].candidate = attempts[a].candidate
        /\ attempts'[a].active = attempts[a].active
        /\ attempts'[a].intents = attempts[a].intents
    BY <1>1, <1>5 DEF Attempt
  <2>2. AttemptShape(a)'
    BY <1>1, <2>1 DEF AttemptShape, Published, StoreInv, RoomInv
  <2>3. \A h \in Generations : ResourceShape(a, h)'
    BY <1>1, <1>4, <2>1 DEF StoreInv, RoomInv, ResourceShape
  <2>4. GenerationOrder(a)'
    BY <1>1, <1>4, <2>1 DEF GenerationOrder, AloneInRoom, StoreInv, RoomInv, Published,
      Usable, VerifiedAbsent
  <2>5. VerifiedRoom(a)' /\ Usable(a, g)'
    BY <1>1, <1>4, <2>1 DEF VerifiedRoom, Reached, Usable, StoreInv, RoomInv, VerifiedAbsent
  <2> QED
    BY <2>1, <2>2, <2>3, <2>4, <2>5 DEF RoomInv
<1> QED
  BY <1>2, <1>3, <1>5, WrittenAttempt

LEMMA PublishResetReadyKeeps ==
  ASSUME StoreInv, NEW a \in Attempts, NEW g \in Generations, NEW v,
         PublishResetReady(a, g, v)
  PROVE  StoreInv'
<1> DEFINE row == [attempts[a] EXCEPT
                     !.state = "READY", !.active = g, !.candidate = 0,
                     !.intents = @ \ {"provisioning", "reset"}, !.version = @ + 1]
<1>1. /\ attempts[a] \in Attempt
      /\ attempts[a].generation = g
      /\ attempts[a].intents = {"provisioning", "reset"}
      /\ resources[a][g].state = "READY"
      /\ "destroy" \notin resources[a][g].intents
      /\ "evidence_digest" \in resources[a][g].filled
      /\ \A h \in Generations : h < g => VerifiedAbsent(resources[a][h])
  BY DEF PublishResetReady, PublishResetReadyOk, Replacing, Binding, StoreInv, TypeOK,
    RoomInv, AttemptShape, ResourceShape, GenerationOrder
<1>2. row \in Attempt
  <2>1. /\ g \in 0..MaxGeneration
        /\ 0 \in 0..MaxGeneration
        /\ attempts[a].version + 1 \in Nat
        /\ attempts[a].intents \ {"provisioning", "reset"} \in SUBSET AttemptIntents
        /\ "READY" \in AttemptStates
    BY <1>1, StoreAssumption DEF Attempt, AttemptStates, AttemptIntents, Generations
  <2> QED
    BY <1>1, <2>1, Zenon DEF Attempt
<1>3. WriteAttempt(a, row)
  BY DEF PublishResetReady
<1>4. resources' = resources
  BY <1>3 DEF WriteAttempt
<1>5. ASSUME attempts'[a] = row
      PROVE  RoomInv(a)'
  <2>1. /\ attempts'[a].state = "READY"
        /\ attempts'[a].generation = g
        /\ attempts'[a].candidate = 0
        /\ attempts'[a].active = g
        /\ attempts'[a].intents = attempts[a].intents \ {"provisioning", "reset"}
    BY <1>1, <1>5 DEF Attempt
  <2>2. AttemptShape(a)'
    BY <1>1, <2>1 DEF AttemptShape, Published, Generations
  <2>3. \A h \in Generations : ResourceShape(a, h)'
    BY <1>1, <1>4, <2>1 DEF StoreInv, RoomInv, ResourceShape
  <2>4. GenerationOrder(a)'
    BY <1>1, <1>4, <2>1 DEF GenerationOrder, AloneInRoom, Generations, VerifiedAbsent
  <2>5. VerifiedRoom(a)' /\ Usable(a, g)'
    BY <1>1, <1>4, <2>1 DEF VerifiedRoom, Generations, Reached, Usable, VerifiedAbsent
  <2> QED
    BY <2>1, <2>2, <2>3, <2>4, <2>5 DEF RoomInv
<1> QED
  BY <1>2, <1>3, <1>5, WrittenAttempt

LEMMA FailResetKeeps ==
  ASSUME StoreInv, NEW a \in Attempts, NEW g \in Generations, NEW v, FailReset(a, g, v)
  PROVE  StoreInv'
<1> DEFINE row == [attempts[a] EXCEPT
                     !.state = "FAILED", !.intents = @ \ {"provisioning"}, !.version = @ + 1]
<1>1. /\ attempts[a] \in Attempt
      /\ attempts[a].state = "RESETTING"
      /\ attempts[a].intents = {"provisioning", "reset"}
      /\ AttemptShape(a)
  BY DEF FailReset, FailResetOk, Replacing, Binding, StoreInv, TypeOK, RoomInv, AttemptShape
<1>2. row \in Attempt
  <2>1. /\ attempts[a].version + 1 \in Nat
        /\ attempts[a].intents \ {"provisioning"} \in SUBSET AttemptIntents
        /\ "FAILED" \in AttemptStates
    BY <1>1 DEF Attempt, AttemptStates, AttemptIntents
  <2> QED
    BY <1>1, <2>1, Zenon DEF Attempt
<1>3. WriteAttempt(a, row)
  BY DEF FailReset
<1>4. resources' = resources
  BY <1>3 DEF WriteAttempt
<1>5. ASSUME attempts'[a] = row
      PROVE  RoomInv(a)'
  <2>1. /\ attempts'[a].state = "FAILED"
        /\ attempts'[a].generation = attempts[a].generation
        /\ attempts'[a].candidate = attempts[a].candidate
        /\ attempts'[a].active = attempts[a].active
        /\ attempts'[a].intents = attempts[a].intents \ {"provisioning"}
    BY <1>1, <1>5 DEF Attempt
  <2>2. AttemptShape(a)'
    BY <1>1, <2>1 DEF AttemptShape, Published
  <2>3. \A h \in Generations : ResourceShape(a, h)'
    BY <1>4, <2>1 DEF StoreInv, RoomInv, ResourceShape
  <2>4. GenerationOrder(a)'
    BY <1>1, <1>4, <2>1 DEF StoreInv, RoomInv, GenerationOrder, AloneInRoom, Usable,
      VerifiedAbsent
  <2> QED
    BY <2>1, <2>2, <2>3, <2>4 DEF RoomInv, Published
<1> QED
  BY <1>2, <1>3, <1>5, WrittenAttempt

LEMMA CompleteCleanupKeeps ==
  ASSUME StoreInv, NEW a \in Attempts, NEW g \in Generations, CompleteCleanup(a, g)
  PROVE  StoreInv'
<1> DEFINE stopped == StopAttempt(attempts[a])
           row == [stopped EXCEPT !.state = "DESTROYED", !.active = 0, !.version = @ + 1]
<1>1. /\ attempts[a] \in Attempt
      /\ attempts[a].generation = g
      /\ attempts[a].state \notin {"NONE", "DESTROYED"}
      /\ stopped \in Attempt
  BY StopAttemptType DEF CompleteCleanup, CompleteCleanupOk, Binding, StoreInv, TypeOK
<1>2. /\ stopped.generation = g
      /\ stopped.candidate = attempts[a].candidate
      /\ "destroy" \in stopped.intents
  BY <1>1 DEF StopAttempt, Attempt
<1> HIDE DEF stopped
<1>3. row \in Attempt
  <2>1. stopped.version + 1 \in Nat /\ "DESTROYED" \in AttemptStates /\ 0 \in 0..MaxGeneration
    BY <1>1, StoreAssumption DEF Attempt, AttemptStates
  <2> QED
    BY <1>1, <2>1, Zenon DEF Attempt
<1>4. WriteAttempt(a, row)
  BY DEF CompleteCleanup, stopped
<1>5. resources' = resources
  BY <1>4 DEF WriteAttempt
<1>6. \A h \in Generations : h <= g => VerifiedAbsent(resources[a][h])
  <2>1. ASSUME NEW h \in Generations, h < g
        PROVE  VerifiedAbsent(resources[a][h])
    <3>1. CASE h # attempts[a].active
      BY <1>1, <2>1, <3>1 DEF StoreInv, RoomInv, GenerationOrder
    <3>2. CASE h = attempts[a].active
      <4>1. resources[a][h].state # "NONE"
        BY <1>1, <3>2 DEF StoreInv, RoomInv, GenerationOrder, Generations
      <4>2. resources[a][h].state = "DESTROYED"
        BY <4>1 DEF CompleteCleanup, CompleteCleanupOk, AllAbsent
      <4> QED
        BY <4>2 DEF StoreInv, RoomInv, ResourceShape, VerifiedAbsent
    <3> QED
      BY <3>1, <3>2
  <2>2. VerifiedAbsent(resources[a][g])
    BY DEF CompleteCleanup, CompleteCleanupOk
  <2> QED
    BY <2>1, <2>2 DEF Generations
<1>7. ASSUME attempts'[a] = row
      PROVE  RoomInv(a)'
  <2>1. /\ attempts'[a].state = "DESTROYED"
        /\ attempts'[a].generation = g
        /\ attempts'[a].candidate = attempts[a].candidate
        /\ attempts'[a].active = 0
        /\ attempts'[a].intents = stopped.intents
    BY <1>1, <1>2, <1>7 DEF Attempt
  <2>2. AttemptShape(a)'
    BY <1>1, <1>2, <2>1 DEF StoreInv, RoomInv, AttemptShape, Published
  <2>3. \A h \in Generations : ResourceShape(a, h)'
    BY <1>1, <1>5, <2>1 DEF StoreInv, RoomInv, ResourceShape
  <2>4. GenerationOrder(a)'
    BY <1>5, <1>6, <2>1 DEF GenerationOrder, AloneInRoom, Usable, VerifiedAbsent, Generations
  <2>5. CleanRoom(a)'
    <3>1. \A h \in Generations : h > g => resources[a][h].state = "NONE"
      BY <1>1 DEF StoreInv, RoomInv, ResourceShape
    <3> QED
      BY <1>5, <1>6, <2>1, <3>1 DEF CleanRoom, VerifiedAbsent, Generations
  <2> QED
    BY <2>1, <2>2, <2>3, <2>4, <2>5 DEF RoomInv, Published
<1> QED
  BY <1>3, <1>4, <1>7, WrittenAttempt

-----------------------------------------------------------------------------
(* ControlPlaneStore *)

LEMMA AcceptKeeps ==
  ASSUME StoreInv, NEW a \in Attempts, NEW g \in Generations, Accept(a, g)
  PROVE  StoreInv'
<1> DEFINE row == [NoResource EXCEPT !.state = "REQUESTED"]
<1>1. row = [state |-> "REQUESTED", version |-> 0, intents |-> {}, filled |-> {}]
  BY DEF NoResource
<1>2. row \in Resource
  BY <1>1 DEF Resource, ResourceStates
<1> HIDE DEF row
<1>3. /\ WriteResource(a, g, row)
      /\ cleanups' = cleanups
      /\ attempts' = attempts
      /\ clock' = clock
  BY DEF Accept, WriteResource, row
<1>4. /\ attempts[a].generation = g
      /\ attempts[a].state \in {"PROVISIONING", "RESETTING"}
      /\ attempts[a].active = g - 1
      /\ \A h \in Generations : h < g => VerifiedAbsent(resources[a][h])
  BY DEF Accept, AcceptOk, Replacing, Binding, StoreInv, RoomInv, AttemptShape,
    GenerationOrder, Generations
<1>5. ASSUME /\ resources'[a] \in [Generations -> Resource]
             /\ resources'[a][g] = row
             /\ \A h \in Generations \ {g} : resources'[a][h] = resources[a][h]
      PROVE  RoomInv(a)'
  <2>1. AttemptShape(a)'
    BY <1>3 DEF StoreInv, RoomInv, AttemptShape, Published
  <2>2. ResourceShape(a, g)'
    BY <1>1, <1>3, <1>4, <1>5 DEF ResourceShape, Generations
  <2>3. \A h \in Generations \ {g} : ResourceShape(a, h)'
    BY <1>3, <1>5 DEF StoreInv, RoomInv, ResourceShape
  <2>4. \A h \in Generations : h < g => VerifiedAbsent(resources[a][h])'
    BY <1>4, <1>5 DEF Generations
  <2>5. attempts[a].active # 0 =>
          /\ resources'[a][attempts[a].active] = resources[a][attempts[a].active]
          /\ attempts[a].active \in Generations
    BY <1>4, <1>5, StoreAssumption DEF Generations
  <2>6. GenerationOrder(a)'
    BY <1>3, <1>4, <2>4, <2>5 DEF StoreInv, RoomInv, GenerationOrder, AloneInRoom
  <2> QED
    BY <1>3, <1>4, <2>1, <2>2, <2>3, <2>6 DEF RoomInv, Published
<1> QED
  BY <1>2, <1>3, <1>5, WrittenResource DEF StoreInv, TypeOK

\* The sandbox reports progress: no stop is intended and the version is current.
LEMMA AdvanceKeeps ==
  ASSUME StoreInv, NEW a \in Attempts, NEW g \in Generations, NEW v,
         NEW state \in {"CREATING", "STARTING", "READY", "RUNNING", "RESOLVED"},
         Transition(a, g, v, state)
  PROVE  StoreInv'
<1> DEFINE old == resources[a][g]
           row == [old EXCEPT
                     !.state = state,
                     !.version = @ + 1,
                     !.intents = @ \cup (IF state \in {"STOPPING", "FAILED", "DESTROYED"}
                                         THEN {"destroy"} ELSE {})
                                   \cup IfExpired(ControlExpired(a)),
                     !.filled = @ \cup FilledBy(state)]
<1>1. /\ old \in Resource
      /\ old.state # "NONE"
      /\ attempts[a].generation = g
      /\ "destroy" \notin old.intents
      /\ state \in NextStates(old.state)
      /\ ~ControlExpired(a)
  BY DEF Transition, TransitionOk, IsCleanup, ControlLive, BackendLive, ControlExpired,
    StoreInv, TypeOK
<1>2. old.intents = {}
  BY <1>1 DEF StoreInv, RoomInv, ResourceShape, Resource
<1>3. row \in Resource
  <2>1. /\ old.version + 1 \in Nat
        /\ state \in ResourceStates
        /\ old.intents \cup (IF state \in {"STOPPING", "FAILED", "DESTROYED"}
                              THEN {"destroy"} ELSE {})
                       \cup IfExpired(ControlExpired(a)) \in SUBSET {"expiry", "destroy"}
        /\ old.filled \cup FilledBy(state) \in SUBSET ResourceColumns
    BY <1>1 DEF Resource, ResourceStates, IfExpired, FilledBy, ResourceColumns
  <2> QED
    BY <1>1, <2>1, Zenon DEF Resource
<1>4. /\ row.state = state
      /\ row.intents = {}
      /\ row.filled = old.filled \cup FilledBy(state)
  BY <1>1, <1>2 DEF Resource, IfExpired
<1>5. /\ WriteResource(a, g, row)
      /\ cleanups' = cleanups
      /\ attempts' = attempts
      /\ clock' = clock
  BY DEF Transition, WriteResource
<1> HIDE DEF row
<1>6. ASSUME /\ resources'[a] \in [Generations -> Resource]
             /\ resources'[a][g] = row
             /\ \A h \in Generations \ {g} : resources'[a][h] = resources[a][h]
      PROVE  RoomInv(a)'
  <2>1. AttemptShape(a)'
    BY <1>5 DEF StoreInv, RoomInv, AttemptShape, Published
  <2>2. ResourceShape(a, g)'
    BY <1>1, <1>4, <1>5, <1>6
    DEF StoreInv, RoomInv, ResourceShape, FilledBy, NextStates
  <2>3. \A h \in Generations : ResourceShape(a, h)'
    BY <1>5, <1>6, <2>2 DEF StoreInv, RoomInv, ResourceShape
  <2>4. Usable(a, g)
    BY <1>1, <1>2 DEF Usable, NextStates
  <2>5. \A h \in Generations : h < g => VerifiedAbsent(resources[a][h])
    BY <1>1, <2>4 DEF StoreInv, RoomInv, GenerationOrder, AloneInRoom, AttemptShape,
      Generations, NoAttempt
  <2>6. GenerationOrder(a)'
    <3>1. \A h \in Generations : h < g => VerifiedAbsent(resources[a][h])'
      BY <1>6, <2>5 DEF Generations
    <3>2. \A h \in Generations : /\ resources[a][h].filled \subseteq resources'[a][h].filled
                                 /\ resources'[a][h].state = "NONE" =>
                                      resources[a][h].state = "NONE"
      BY <1>4, <1>6
    <3>3. attempts[a].active # 0 => attempts[a].active \in Generations
      BY DEF StoreInv, TypeOK, Attempt, Generations
    <3> QED
      BY <1>1, <1>5, <3>1, <3>2, <3>3 DEF StoreInv, RoomInv, GenerationOrder, AloneInRoom
  <2>7. ASSUME Published(a)
        PROVE  VerifiedRoom(a)' /\ Usable(a, g)'
    <3>1. VerifiedRoom(a) /\ Reached(a, g)
      BY <1>1, <2>4, <2>7 DEF StoreInv, RoomInv, VerifiedRoom
    <3>2. Reached(a, g)'
      BY <1>1, <1>4, <1>5, <1>6, <2>7, <3>1 DEF Reached, NextStates, Published
    <3> QED
      BY <1>1, <1>4, <1>5, <1>6, <2>5, <3>1, <3>2 DEF VerifiedRoom, Usable, Generations
  <2> QED
    BY <1>1, <1>4, <1>5, <1>6, <2>1, <2>3, <2>4, <2>6, <2>7
    DEF StoreInv, RoomInv, Published, CleanRoom, VerifiedAbsent, Usable, Generations
<1> QED
  BY <1>3, <1>5, <1>6, WrittenResource DEF StoreInv, TypeOK

\* A sandbox is proven absent: it was stopping, and now it counts as gone.
LEMMA DestroyedKeeps ==
  ASSUME StoreInv, NEW a \in Attempts, NEW g \in Generations, NEW v,
         Transition(a, g, v, "DESTROYED")
  PROVE  StoreInv'
<1> DEFINE old == resources[a][g]
           row == [old EXCEPT
                     !.state = "DESTROYED",
                     !.version = @ + 1,
                     !.intents = @ \cup (IF "DESTROYED" \in {"STOPPING", "FAILED", "DESTROYED"}
                                         THEN {"destroy"} ELSE {})
                                   \cup IfExpired(ControlExpired(a)),
                     !.filled = @ \cup FilledBy("DESTROYED")]
<1>1. /\ old \in Resource
      /\ old.state = "STOPPING"
  BY DEF Transition, TransitionOk, NextStates, StoreInv, TypeOK
<1>2. "destroy" \in old.intents
  BY <1>1 DEF StoreInv, RoomInv, ResourceShape
<1>3. row \in Resource
  <2>1. /\ old.version + 1 \in Nat
        /\ "DESTROYED" \in ResourceStates
        /\ old.intents \cup (IF "DESTROYED" \in {"STOPPING", "FAILED", "DESTROYED"}
                              THEN {"destroy"} ELSE {})
                       \cup IfExpired(ControlExpired(a)) \in SUBSET {"expiry", "destroy"}
        /\ old.filled \cup FilledBy("DESTROYED") \in SUBSET ResourceColumns
    BY <1>1 DEF Resource, ResourceStates, IfExpired, FilledBy, ResourceColumns
  <2> QED
    BY <1>1, <2>1, Zenon DEF Resource
<1>4. /\ row.state = "DESTROYED"
      /\ "destroy" \in row.intents
      /\ row.filled = old.filled \cup {"cleanup_evidence_digest"}
  BY <1>1, <1>2 DEF Resource, FilledBy
<1>5. /\ WriteResource(a, g, row)
      /\ attempts' = attempts
      /\ clock' = clock
  BY DEF Transition, WriteResource
<1>6. cleanups' \in [Attempts -> [Generations -> Cleanup]]
  <2>1. ASSUME cleanups' = [cleanups EXCEPT ![a][g].status = "SUCCEEDED"]
        PROVE  cleanups' \in [Attempts -> [Generations -> Cleanup]]
    <3>1. cleanups[a][g] \in Cleanup
      BY DEF StoreInv, TypeOK
    <3>2. [cleanups[a][g] EXCEPT !.status = "SUCCEEDED"] \in Cleanup
      BY <3>1, Zenon DEF Cleanup
    <3> QED
      BY <2>1, <3>2 DEF StoreInv, TypeOK
  <2> QED
    BY <2>1 DEF Transition, StoreInv, TypeOK
<1> HIDE DEF row
<1>7. ASSUME /\ resources'[a] \in [Generations -> Resource]
             /\ resources'[a][g] = row
             /\ \A h \in Generations \ {g} : resources'[a][h] = resources[a][h]
      PROVE  RoomInv(a)'
  <2>1. AttemptShape(a)'
    BY <1>5 DEF StoreInv, RoomInv, AttemptShape, Published
  <2>2. \A h \in Generations : ResourceShape(a, h)'
    BY <1>1, <1>4, <1>5, <1>7 DEF StoreInv, RoomInv, ResourceShape
  <2>3. \A h \in Generations :
          /\ VerifiedAbsent(resources[a][h]) => VerifiedAbsent(resources[a][h])'
          /\ Usable(a, h)' => Usable(a, h)
          /\ resources[a][h].filled \subseteq resources'[a][h].filled
    BY <1>1, <1>4, <1>7 DEF VerifiedAbsent, Usable
  <2>4. GenerationOrder(a)'
    <3>1. \A h \in Generations : resources'[a][h].state = "NONE" =>
                                   resources[a][h].state = "NONE"
      BY <1>4, <1>7
    <3>2. attempts[a].active # 0 => attempts[a].active \in Generations
      BY DEF StoreInv, TypeOK, Attempt, Generations
    <3>3. attempts[a].state # "NONE" => attempts[a].generation \in Generations
      BY DEF StoreInv, TypeOK, Attempt, RoomInv, AttemptShape, Generations
    <3> QED
      BY <1>5, <2>3, <3>1, <3>2, <3>3 DEF StoreInv, RoomInv, GenerationOrder, AloneInRoom
  <2>5. Published(a) => VerifiedRoom(a)' /\ (~Usable(a, attempts[a].generation) => PastDeadline(a))
    <3>1. Published(a) => attempts[a].generation \in Generations
      BY DEF StoreInv, TypeOK, Attempt, RoomInv, AttemptShape, Published, Generations
    <3> QED
      BY <1>4, <1>5, <1>7, <2>3, <3>1
      DEF StoreInv, RoomInv, VerifiedRoom, Reached, Usable
  <2>6. Published(a) /\ ~Usable(a, attempts[a].generation)' => PastDeadline(a)
    <3>1. Published(a) /\ attempts[a].generation = g => PastDeadline(a)
      BY <1>2 DEF StoreInv, RoomInv, Usable
    <3>2. Published(a) => attempts[a].generation \in Generations
      BY DEF StoreInv, TypeOK, Attempt, RoomInv, AttemptShape, Published, Generations
    <3>3. ASSUME Published(a), attempts[a].generation # g
          PROVE  Usable(a, attempts[a].generation)' = Usable(a, attempts[a].generation)
      BY <1>5, <1>7, <3>2, <3>3 DEF Usable
    <3> QED
      BY <2>5, <3>1, <3>3
  <2> QED
    BY <1>1, <1>5, <2>1, <2>2, <2>3, <2>4, <2>5, <2>6, <1>7, <1>4
    DEF StoreInv, RoomInv, Published, CleanRoom, PastDeadline, VerifiedAbsent
<1> QED
  BY <1>3, <1>5, <1>6, <1>7, WrittenResource

\* What a row told to stop, or found failed, has in common whoever told it.
ToldToStop(old, new) ==
  /\ old.state # "DESTROYED"
  /\ new.state \in {"STOPPING", "FAILED"}
  /\ "destroy" \in new.intents
  /\ new.filled = old.filled

LEMMA StopResourceTells ==
  ASSUME NEW row \in Resource, NEW expired \in BOOLEAN
  PROVE  \/ StopResource(row, expired) = row
         \/ ToldToStop(row, StopResource(row, expired))
BY DEF StopResource, ToldToStop, Resource

\* A room some of whose sandboxes are told to stop keeps its invariant, when the
\* current sandbox of a published room is one of them only past the deadline.
LEMMA StoppingRoom ==
  ASSUME TypeOK, NEW a \in Attempts, RoomInv(a),
         attempts' = attempts, clock' = clock,
         NEW told \in SUBSET Generations,
         \A g \in Generations \ told : resources'[a][g] = resources[a][g],
         \A g \in told : ToldToStop(resources[a][g], resources'[a][g]),
         \A g \in told : g <= attempts[a].generation,
         attempts[a].generation \in told /\ Published(a) => PastDeadline(a),
         attempts[a].state = "DESTROYED" => told = {}
  PROVE  RoomInv(a)'
<1>1. AttemptShape(a)'
  BY DEF RoomInv, AttemptShape, Published
<1>2. \A g \in Generations : ResourceShape(a, g)'
  <2>1. \A g \in told : ResourceShape(a, g)'
    <3>1. \A g \in told : ~(g > attempts[a].generation)
      BY DEF TypeOK, Attempt, Generations
    <3> QED
      BY <3>1 DEF ResourceShape, ToldToStop
  <2>2. \A g \in Generations \ told : ResourceShape(a, g)'
    BY DEF RoomInv, ResourceShape
  <2> QED
    BY <2>1, <2>2
<1>3. \A g \in Generations :
        /\ VerifiedAbsent(resources[a][g]) => VerifiedAbsent(resources[a][g])'
        /\ Usable(a, g)' => Usable(a, g)
        /\ resources[a][g].filled \subseteq resources'[a][g].filled
        /\ resources'[a][g].state = "NONE" => resources[a][g].state = "NONE"
  <2>1. ASSUME NEW g \in Generations, g \in told
        PROVE  /\ ~VerifiedAbsent(resources[a][g])
               /\ ~Usable(a, g)'
               /\ resources'[a][g].filled = resources[a][g].filled
               /\ resources'[a][g].state # "NONE"
    BY <2>1 DEF ToldToStop, VerifiedAbsent, Usable
  <2>2. ASSUME NEW g \in Generations, g \notin told
        PROVE  resources'[a][g] = resources[a][g]
    BY <2>2
  <2> QED
    BY <2>1, <2>2 DEF VerifiedAbsent, Usable
<1>4. attempts[a].active # 0 => attempts[a].active \in Generations
  BY DEF TypeOK, Attempt, Generations
<1>5. attempts[a].state # "NONE" => attempts[a].generation \in Generations
  BY DEF TypeOK, Attempt, RoomInv, AttemptShape, Generations
<1>6. GenerationOrder(a)'
  BY <1>3, <1>4, <1>5 DEF RoomInv, GenerationOrder, AloneInRoom
<1>7. Published(a) => VerifiedRoom(a)'
  <2>1. ASSUME Published(a)
        PROVE  Usable(a, attempts[a].generation)' => Reached(a, attempts[a].generation)'
    <3>1. attempts[a].generation \in Generations
      BY <1>5, <2>1 DEF Published
    <3>2. attempts[a].generation \in told => ~Usable(a, attempts[a].generation)'
      BY <3>1 DEF ToldToStop, Usable
    <3> QED
      BY <2>1, <3>1, <3>2 DEF RoomInv, VerifiedRoom, Reached, Usable
  <2> QED
    BY <1>3, <1>5, <2>1 DEF RoomInv, VerifiedRoom, Published
<1>8. Published(a) /\ ~Usable(a, attempts[a].generation)' => PastDeadline(a)
  BY <1>5 DEF RoomInv, Published, Usable
<1> QED
  BY <1>1, <1>2, <1>6, <1>7, <1>8, <1>5
  DEF RoomInv, Published, PastDeadline, Usable, CleanRoom, VerifiedAbsent

\* One sandbox is told to stop, by a denied call or by a failure of its own.
LEMMA ToldKeeps ==
  ASSUME StoreInv, NEW a \in Attempts, NEW g \in Generations, NEW row \in Resource,
         WriteResource(a, g, row), cleanups' \in [Attempts -> [Generations -> Cleanup]],
         resources[a][g].state # "NONE",
         ToldToStop(resources[a][g], row),
         attempts[a].generation = g /\ Published(a) => PastDeadline(a)
  PROVE  StoreInv'
<1>1. ASSUME /\ resources'[a] \in [Generations -> Resource]
             /\ resources'[a][g] = row
             /\ \A h \in Generations \ {g} : resources'[a][h] = resources[a][h]
      PROVE  RoomInv(a)'
  <2>1. attempts' = attempts /\ clock' = clock
    BY DEF WriteResource
  <2>2. g <= attempts[a].generation
    BY DEF StoreInv, RoomInv, ResourceShape, TypeOK, Attempt, Generations
  <2>3. attempts[a].state # "DESTROYED"
    BY <2>2 DEF ToldToStop, StoreInv, RoomInv, CleanRoom, VerifiedAbsent
  <2>4. {g} \in SUBSET Generations
    OBVIOUS
  <2> QED
    BY <1>1, <2>1, <2>2, <2>3, <2>4, StoppingRoom DEF StoreInv
<1> QED
  BY <1>1, WrittenResource

\* Nothing but the deadline stops the sandbox of a published room.
LEMMA PublishedStopsLate ==
  ASSUME StoreInv, NEW a \in Attempts, Published(a), ControlExpired(a)
  PROVE  PastDeadline(a)
BY DEF StoreInv, RoomInv, AttemptShape, ControlExpired, Intends

LEMMA DenyResourceKeeps ==
  ASSUME StoreInv, NEW a \in Attempts, NEW g \in Generations, DenyResource(a, g)
  PROVE  StoreInv'
<1> DEFINE row == StopResource(resources[a][g], TRUE)
<1>1. /\ resources[a][g] \in Resource
      /\ WriteResource(a, g, row)
      /\ cleanups' = cleanups
      /\ resources[a][g].state # "NONE"
      /\ ControlExpired(a)
  BY DEF DenyResource, StoreInv, TypeOK
<1>2. row \in Resource
  BY <1>1, StopResourceType
<1>3. CASE ToldToStop(resources[a][g], row)
  BY <1>1, <1>2, <1>3, ToldKeeps, PublishedStopsLate DEF StoreInv, TypeOK
<1>4. CASE row = resources[a][g]
  <2>1. /\ resources'[a] = resources[a]
        /\ attempts' = attempts
        /\ clock' = clock
    BY <1>1, <1>4 DEF WriteResource, StoreInv, TypeOK
  <2>2. RoomInv(a)'
    BY <2>1, UntouchedRoom DEF StoreInv, TypeOK
  <2> QED
    BY <1>1, <1>2, <2>2, WrittenResource DEF StoreInv, TypeOK
<1> QED
  BY <1>1, <1>3, <1>4, StopResourceTells

\* The orchestrator reports that the sandbox could not be created or started.
LEMMA FailedKeeps ==
  ASSUME StoreInv, NEW a \in Attempts, NEW g \in Generations, NEW v,
         Transition(a, g, v, "FAILED"), resources[a][g].state # "STOPPING"
  PROVE  StoreInv'
<1> DEFINE old == resources[a][g]
           row == [old EXCEPT
                     !.state = "FAILED",
                     !.version = @ + 1,
                     !.intents = @ \cup (IF "FAILED" \in {"STOPPING", "FAILED", "DESTROYED"}
                                         THEN {"destroy"} ELSE {})
                                   \cup IfExpired(ControlExpired(a)),
                     !.filled = @ \cup FilledBy("FAILED")]
<1>1. old \in Resource /\ old.state \in {"CREATING", "STARTING"}
  BY DEF Transition, TransitionOk, NextStates, StoreInv, TypeOK
<1>2. row \in Resource
  <2>1. /\ old.version + 1 \in Nat
        /\ "FAILED" \in ResourceStates
        /\ old.intents \cup (IF "FAILED" \in {"STOPPING", "FAILED", "DESTROYED"}
                              THEN {"destroy"} ELSE {})
                       \cup IfExpired(ControlExpired(a)) \in SUBSET {"expiry", "destroy"}
        /\ old.filled \cup FilledBy("FAILED") \in SUBSET ResourceColumns
    BY <1>1 DEF Resource, ResourceStates, IfExpired, FilledBy, ResourceColumns
  <2> QED
    BY <1>1, <2>1, Zenon DEF Resource
<1>3. ToldToStop(old, row)
  BY <1>1 DEF ToldToStop, Resource, FilledBy
<1>4. WriteResource(a, g, row) /\ cleanups' = cleanups
  BY DEF Transition
<1>5. ~(Published(a) /\ attempts[a].generation = g)
  <2>1. Usable(a, g) /\ (Published(a) => ~Reached(a, g))
    BY <1>1 DEF StoreInv, RoomInv, ResourceShape, Usable, Reached, Published
  <2> QED
    BY <2>1 DEF StoreInv, RoomInv, VerifiedRoom
<1> HIDE DEF row
<1> QED
  BY <1>1, <1>2, <1>3, <1>4, <1>5, ToldKeeps DEF StoreInv, TypeOK

LEMMA CleanupFailedKeeps ==
  ASSUME StoreInv, NEW a \in Attempts, NEW g \in Generations, NEW v, NEW retryAt \in Nat,
         CleanupFailed(a, g, v, retryAt)
  PROVE  StoreInv'
<1> DEFINE old == resources[a][g]
           row == [old EXCEPT !.state = "FAILED", !.version = @ + 1]
           operation == [status |-> "RETRY", retries |-> cleanups[a][g].retries + 1,
                         retryAt |-> retryAt]
<1>1. /\ old \in Resource
      /\ old.state = "STOPPING"
      /\ "destroy" \in old.intents
  BY DEF CleanupFailed, CleanupFailedOk, StoreInv, TypeOK, RoomInv, ResourceShape
<1>2. row \in Resource
  <2>1. old.version + 1 \in Nat /\ "FAILED" \in ResourceStates
    BY <1>1 DEF Resource, ResourceStates
  <2> QED
    BY <1>1, <2>1, Zenon DEF Resource
<1>3. ToldToStop(old, row)
  BY <1>1 DEF ToldToStop, Resource
<1>4. WriteResource(a, g, row)
  BY DEF CleanupFailed
<1>5. cleanups' \in [Attempts -> [Generations -> Cleanup]]
  <2>1. cleanups[a][g] \in Cleanup /\ cleanups[a][g].retries < MaxRetries
    BY DEF StoreInv, TypeOK, CleanupFailed
  <2>2. operation \in Cleanup
    BY <2>1, StoreAssumption DEF Cleanup
  <2>3. cleanups' = [cleanups EXCEPT ![a][g] = operation]
    BY DEF CleanupFailed
  <2> QED
    BY <2>2, <2>3 DEF StoreInv, TypeOK
<1>6. ~Usable(a, g)
  BY <1>1 DEF Usable
<1>7. attempts[a].generation = g /\ Published(a) => PastDeadline(a)
  BY <1>6 DEF StoreInv, RoomInv
<1> HIDE DEF row
<1> QED
  BY <1>1, <1>2, <1>3, <1>4, <1>5, <1>7, ToldKeeps

\* A cleanup pass: in every room it stops the sandboxes in its batch.
LEMMA ReconcileKeeps ==
  ASSUME StoreInv, NEW batch, NEW n, Reconcile(batch, n)
  PROVE  StoreInv'
<1>1. /\ attempts' = attempts
      /\ clock' = clock
      /\ \A x \in batch : x \in CleanupDue
  BY DEF Reconcile, TakesUpTo
<1>2. \A a \in Attempts, g \in Generations : <<a, g>> \in batch => DueFor(a, g)
  BY <1>1 DEF CleanupDue
<1>3. ASSUME NEW a \in Attempts, NEW g \in Generations, DueFor(a, g)
      PROVE  /\ StoppedRow(a, g) \in Resource
             /\ \/ StoppedRow(a, g) = resources[a][g]
                \/ ToldToStop(resources[a][g], StoppedRow(a, g))
             /\ g <= attempts[a].generation
             /\ attempts[a].state # "DESTROYED"
             /\ attempts[a].generation = g /\ Published(a) => PastDeadline(a)
  <2> DEFINE fresh == [NoResource EXCEPT
                         !.state   = "STOPPING",
                         !.intents = {"destroy"} \cup IfExpired(ControlExpired(a))]
  <2>1. /\ resources[a][g] \in Resource
        /\ attempts[a] \in Attempt
        /\ ControlExpired(a) \in BOOLEAN
    BY DEF StoreInv, TypeOK, ControlExpired, PastDeadline, Intends
  <2>2. /\ fresh.state = "STOPPING"
        /\ "destroy" \in fresh.intents
        /\ fresh.filled = {}
        /\ fresh \in Resource
    <3>1. /\ NoResource \in Resource
          /\ "STOPPING" \in ResourceStates
          /\ {"destroy"} \cup IfExpired(ControlExpired(a)) \in SUBSET {"expiry", "destroy"}
      BY DEF NoResource, Resource, ResourceStates, IfExpired
    <3>2. fresh \in Resource
      BY <3>1, Zenon DEF Resource
    <3> QED
      BY <3>2 DEF NoResource
  <2>3. g <= attempts[a].generation /\ attempts[a].state # "DESTROYED"
    <3>1. ResourceShape(a, g) /\ attempts[a].generation \in Int /\ g \in Int
      BY <2>1 DEF StoreInv, RoomInv, Attempt, Generations
    <3> QED
      BY <3>1, <1>3 DEF DueFor, RecordedDue, UnrecordedDue, ResourceShape
  <2>4. attempts[a].generation = g /\ Published(a) => PastDeadline(a)
    <3>1. Published(a) => attempts[a].intents = {}
      BY DEF StoreInv, RoomInv, AttemptShape
    <3>2. Published(a) /\ "destroy" \in resources[a][attempts[a].generation].intents
            => PastDeadline(a)
      BY DEF StoreInv, RoomInv, Usable
    <3> QED
      BY <1>3, <3>1, <3>2 DEF DueFor, RecordedDue, UnrecordedDue, Intends
  <2>5. CASE resources[a][g].state = "NONE"
    <3>1. StoppedRow(a, g) = StopResource(fresh, ControlExpired(a))
      BY <2>5 DEF StoppedRow
    <3>2. resources[a][g].filled = {}
      BY <2>5 DEF StoreInv, RoomInv, ResourceShape, NoResource
    <3> HIDE DEF fresh
    <3>3. StopResource(fresh, ControlExpired(a)) \in Resource
      BY <2>1, <2>2, StopResourceType
    <3>4. \/ StopResource(fresh, ControlExpired(a)) = fresh
          \/ ToldToStop(fresh, StopResource(fresh, ControlExpired(a)))
      BY <2>1, <2>2, StopResourceTells
    <3>5. ToldToStop(resources[a][g], StopResource(fresh, ControlExpired(a)))
      BY <2>2, <2>5, <3>2, <3>4 DEF ToldToStop
    <3> QED
      BY <2>3, <2>4, <3>1, <3>3, <3>5
  <2>6. CASE resources[a][g].state # "NONE"
    <3>1. StoppedRow(a, g) = StopResource(resources[a][g], ControlExpired(a))
      BY <2>6 DEF StoppedRow
    <3> QED
      BY <2>1, <2>3, <2>4, <3>1, StopResourceType, StopResourceTells
  <2> QED
    BY <2>5, <2>6
<1>4. /\ resources' \in [Attempts -> [Generations -> Resource]]
      /\ \A a \in Attempts, g \in Generations :
           resources'[a][g] = IF <<a, g>> \in batch THEN StoppedRow(a, g)
                                                   ELSE resources[a][g]
  <2>1. resources' = [a \in Attempts |-> [g \in Generations |->
                        IF <<a, g>> \in batch THEN StoppedRow(a, g) ELSE resources[a][g]]]
    BY DEF Reconcile
  <2>2. \A a \in Attempts, g \in Generations :
          (IF <<a, g>> \in batch THEN StoppedRow(a, g) ELSE resources[a][g]) \in Resource
    BY <1>2, <1>3 DEF StoreInv, TypeOK
  <2> QED
    BY <2>1, <2>2
<1>5. cleanups' \in [Attempts -> [Generations -> Cleanup]]
  <2>1. [NoCleanup EXCEPT !.status = "PENDING"] \in Cleanup
    BY StoreAssumption DEF NoCleanup, Cleanup
  <2>2. \A a \in Attempts, g \in Generations : cleanups[a][g] \in Cleanup
    BY DEF StoreInv, TypeOK
  <2>3. cleanups' = [a \in Attempts |-> [g \in Generations |->
                      IF <<a, g>> \in batch /\ cleanups[a][g].status = "NONE"
                      THEN [NoCleanup EXCEPT !.status = "PENDING"]
                      ELSE cleanups[a][g]]]
    BY DEF Reconcile
  <2> HIDE DEF Cleanup
  <2> QED
    BY <2>1, <2>2, <2>3
<1>6. ASSUME NEW a \in Attempts
      PROVE  RoomInv(a)'
  <2> DEFINE told == {g \in Generations : /\ <<a, g>> \in batch
                                         /\ StoppedRow(a, g) # resources[a][g]}
  <2>1. told \in SUBSET Generations
    OBVIOUS
  <2>2. \A g \in Generations \ told : resources'[a][g] = resources[a][g]
    BY <1>4
  <2>3. \A g \in told : ToldToStop(resources[a][g], resources'[a][g])
    BY <1>2, <1>3, <1>4
  <2>4. /\ \A g \in told : g <= attempts[a].generation
        /\ attempts[a].generation \in told /\ Published(a) => PastDeadline(a)
        /\ attempts[a].state = "DESTROYED" => told = {}
    BY <1>2, <1>3
  <2> HIDE DEF told
  <2> QED
    BY <1>1, <2>1, <2>2, <2>3, <2>4, StoppingRoom DEF StoreInv
<1> QED
  BY <1>1, <1>4, <1>5, <1>6 DEF StoreInv, TypeOK

-----------------------------------------------------------------------------
(* The whole store *)

LEMMA ExpireKeeps ==
  ASSUME StoreInv, NEW batch, Expire(batch)
  PROVE  StoreInv'
<1>1. /\ resources' = resources
      /\ cleanups' = cleanups
      /\ clock' = clock
      /\ attempts' = [a \in Attempts |-> IF a \in batch THEN StopAttempt(attempts[a])
                                                       ELSE attempts[a]]
      /\ \A a \in batch : attempts[a].state # "NONE"
  BY DEF Expire, TakesSoonest, TakesUpTo, ExpiryDue
<1>2. \A a \in Attempts : attempts[a] \in Attempt /\ StopAttempt(attempts[a]) \in Attempt
  BY StopAttemptType DEF StoreInv, TypeOK
<1>3. TypeOK'
  BY <1>1, <1>2 DEF StoreInv, TypeOK
<1>4. ASSUME NEW a \in Attempts
      PROVE  RoomInv(a)'
  <2>1. a \in batch => RoomInv(a)'
    BY <1>1, StoppedRoom DEF StoreInv
  <2>2. a \notin batch => RoomInv(a)'
    BY <1>1, UntouchedRoom DEF StoreInv, TypeOK
  <2> QED
    BY <2>1, <2>2
<1> QED
  BY <1>3, <1>4 DEF StoreInv

LEMMA TickKeeps ==
  ASSUME StoreInv, Tick
  PROVE  StoreInv'
<1>1. /\ attempts' = attempts
      /\ resources' = resources
      /\ cleanups' = cleanups
      /\ clock' \in Nat
      /\ clock' >= clock
  BY DEF Tick, StoreInv, TypeOK
<1>2. \A a \in Attempts : RoomInv(a)'
  BY <1>1, UntouchedRoom DEF StoreInv
<1> QED
  BY <1>1, <1>2 DEF StoreInv, TypeOK

LEMMA StutterKeeps ==
  ASSUME StoreInv, UNCHANGED vars
  PROVE  StoreInv'
<1>1. /\ attempts' = attempts
      /\ resources' = resources
      /\ cleanups' = cleanups
      /\ clock' = clock
  BY DEF vars
<1>2. \A a \in Attempts : RoomInv(a)'
  BY <1>1, UntouchedRoom DEF StoreInv, TypeOK
<1> QED
  BY <1>1, <1>2 DEF StoreInv, TypeOK

LEMMA InitHolds == Init => StoreInv
<1> SUFFICES ASSUME Init PROVE StoreInv
  OBVIOUS
<1>1. /\ NoAttempt \in Attempt
      /\ NoResource \in Resource
      /\ NoCleanup \in Cleanup
  BY StoreAssumption DEF NoAttempt, Attempt, NoResource, Resource, NoCleanup, Cleanup
<1>2. TypeOK
  BY <1>1 DEF Init, TypeOK
<1>3. ASSUME NEW a \in Attempts
      PROVE  RoomInv(a)
  <2>1. attempts[a] = NoAttempt /\ \A g \in Generations : resources[a][g] = NoResource
    BY DEF Init
  <2> QED
    BY <2>1 DEF RoomInv, AttemptShape, ResourceShape, GenerationOrder, Published,
      NoAttempt, NoResource, Generations
<1> QED
  BY <1>2, <1>3 DEF StoreInv

LEMMA BackendStepKeeps ==
  ASSUME StoreInv, NEW a \in Attempts, BackendStep(a)
  PROVE  StoreInv'
<1>1. ASSUME NEW deadline \in 0..MaxTime, Create(a, deadline)
      PROVE  StoreInv'
  <2>1. deadline \in Nat
    BY StoreAssumption
  <2> QED
    BY <1>1, <2>1, CreateKeeps
<1>2. ASSUME NEW g \in Generations, Leave(a, g) \/ DenyAttempt(a, g)
      PROVE  StoreInv'
  BY <1>2, StopKeeps DEF Leave, DenyAttempt, Binding
<1>3. ASSUME NEW g \in Generations, BeginReset(a, g)
      PROVE  StoreInv'
  BY <1>3, BeginResetKeeps
<1>4. ASSUME NEW g \in Generations, PublishReady(a, g, attempts[a].version)
      PROVE  StoreInv'
  BY <1>4, PublishReadyKeeps
<1>5. ASSUME NEW g \in Generations, PublishRunning(a, g, attempts[a].version)
      PROVE  StoreInv'
  BY <1>5, PublishRuntimeStateKeeps DEF PublishRunning
<1>6. ASSUME NEW g \in Generations, PublishResolved(a, g, attempts[a].version)
      PROVE  StoreInv'
  BY <1>6, PublishRuntimeStateKeeps DEF PublishResolved
<1>7. ASSUME NEW g \in Generations, PublishResetReady(a, g, attempts[a].version)
      PROVE  StoreInv'
  BY <1>7, PublishResetReadyKeeps
<1>8. ASSUME NEW g \in Generations, FailReset(a, g, attempts[a].version)
      PROVE  StoreInv'
  BY <1>8, FailResetKeeps
<1>9. ASSUME NEW g \in Generations, CompleteCleanup(a, g)
      PROVE  StoreInv'
  BY <1>9, CompleteCleanupKeeps
<1> QED
  BY <1>1, <1>2, <1>3, <1>4, <1>5, <1>6, <1>7, <1>8, <1>9 DEF BackendStep

LEMMA ControlStepKeeps ==
  ASSUME StoreInv, NEW a \in Attempts, ControlStep(a)
  PROVE  StoreInv'
<1>1. ASSUME NEW g \in Generations, Accept(a, g)
      PROVE  StoreInv'
  BY <1>1, AcceptKeeps
<1>2. ASSUME NEW g \in Generations, NEW state \in ResourceStates,
             Requested(a, g, state), Transition(a, g, resources[a][g].version, state)
      PROVE  StoreInv'
  <2>1. state \in {"CREATING", "STARTING", "READY", "RUNNING", "RESOLVED"} => StoreInv'
    BY <1>2, AdvanceKeeps
  <2>2. state = "DESTROYED" => StoreInv'
    BY <1>2, DestroyedKeeps
  <2>3. state = "FAILED" => StoreInv'
    BY <1>2, FailedKeeps DEF Requested
  <2> QED
    BY <1>2, <2>1, <2>2, <2>3 DEF Requested, ResourceStates
<1>3. ASSUME NEW g \in Generations, DenyResource(a, g)
      PROVE  StoreInv'
  BY <1>3, DenyResourceKeeps
<1>4. ASSUME NEW g \in Generations, NEW retryAt \in 1..MaxTime,
             CleanupFailed(a, g, resources[a][g].version, retryAt)
      PROVE  StoreInv'
  <2>1. retryAt \in Nat
    BY StoreAssumption
  <2> QED
    BY <1>4, <2>1, CleanupFailedKeeps
<1> QED
  BY <1>1, <1>2, <1>3, <1>4 DEF ControlStep

LEMMA EveryStepKeeps ==
  ASSUME StoreInv, [Next]_vars
  PROVE  StoreInv'
<1>1. ASSUME NEW batch \in SUBSET Attempts, Expire(batch)
      PROVE  StoreInv'
  BY <1>1, ExpireKeeps
<1>2. ASSUME NEW batch \in SUBSET CleanupDue, NEW n \in 1..Limit, Reconcile(batch, n)
      PROVE  StoreInv'
  BY <1>2, ReconcileKeeps
<1> QED
  BY <1>1, <1>2, BackendStepKeeps, ControlStepKeeps, TickKeeps, StutterKeeps
  DEF Next, ExpireSome, ReconcileSome

\* The invariant of the store: types, and for every room what its attempt row,
\* its sandbox rows and the clock can be together.  Every theorem below is one
\* of its consequences.
THEOREM StoreInvariant == Spec => []StoreInv
<1>1. StoreInv /\ [Next]_vars => StoreInv'
  BY EveryStepKeeps
<1> QED
  BY <1>1, InitHolds, PTL DEF Spec

\* Every row of every reachable store is in the domains of its columns.
THEOREM TypesHold == Spec => []TypeOK
<1>1. StoreInv => TypeOK
  BY DEF StoreInv
<1> QED
  BY <1>1, StoreInvariant, PTL

\* No sequence of method calls writes a row a CHECK constraint would reject.
THEOREM SchemaChecksHold == Spec => []SchemaChecks
<1>1. ASSUME StoreInv, NEW a \in Attempts
      PROVE  /\ attempts[a].candidate \in {0, attempts[a].generation}
             /\ Intends(a, "expiry") => Intends(a, "destroy")
             /\ Intends(a, "reset") =>
                  attempts[a].state \in {"RESETTING", "FAILED", "STOPPING", "DESTROYED"}
             /\ Intends(a, "destroy") =>
                  attempts[a].state \in {"STOPPING", "FAILED", "DESTROYED"}
  <2>1. AttemptShape(a) /\ attempts[a] \in Attempt
    BY <1>1 DEF StoreInv, RoomInv, TypeOK
  <2>2. attempts[a].state \in {"NONE", "PROVISIONING", "RESETTING", "READY", "RUNNING",
                              "RESOLVED", "STOPPING", "FAILED", "DESTROYED"}
    BY <2>1 DEF Attempt, AttemptStates
  <2> QED
    BY <2>1, <2>2 DEF AttemptShape, NoAttempt, Intends, Published
<1>2. ASSUME StoreInv, NEW a \in Attempts, NEW g \in Generations
      PROVE  /\ "expiry" \in resources[a][g].intents => "destroy" \in resources[a][g].intents
             /\ "destroy" \in resources[a][g].intents =>
                  resources[a][g].state \in {"STOPPING", "FAILED", "DESTROYED"}
             /\ resources[a][g].state = "DESTROYED" => VerifiedAbsent(resources[a][g])
  BY <1>2 DEF StoreInv, RoomInv, ResourceShape, VerifiedAbsent
<1>3. StoreInv => SchemaChecks
  BY <1>1, <1>2 DEF SchemaChecks
<1> QED
  BY <1>3, StoreInvariant, PTL

\* A sandbox not told to stop is the only one of its attempt that may exist.
THEOREM ReplacementAlwaysWaits == Spec => []ReplacementWaits
<1>1. ASSUME StoreInv, NEW a \in Attempts, NEW g \in Generations
      PROVE  AloneInRoom(a, g)
  <2>1. /\ GenerationOrder(a)
        /\ ResourceShape(a, g)
        /\ attempts[a].generation \in Int
        /\ attempts[a].active \in Int
        /\ attempts[a].state = "NONE" => attempts[a].generation = 0
    BY <1>1 DEF StoreInv, RoomInv, TypeOK, Attempt, AttemptShape, NoAttempt
  <2>2. CASE g = attempts[a].generation
    BY <2>1, <2>2 DEF GenerationOrder, Generations
  <2>3. CASE g > attempts[a].generation
    BY <2>1, <2>3 DEF ResourceShape, AloneInRoom, Usable
  <2>4. CASE g < attempts[a].generation /\ g # attempts[a].active
    BY <2>1, <2>4 DEF GenerationOrder, AloneInRoom, Usable, VerifiedAbsent
  <2>5. CASE g < attempts[a].generation /\ g = attempts[a].active
    BY <2>1, <2>5 DEF GenerationOrder, AloneInRoom, Generations
  <2> QED
    BY <2>1, <2>2, <2>3, <2>4, <2>5 DEF Generations
<1>2. StoreInv => ReplacementWaits
  BY <1>1 DEF ReplacementWaits
<1> QED
  BY <1>2, StoreInvariant, PTL

\* What is offered to a learner is the verified current sandbox.
THEOREM PublishedAlwaysVerified == Spec => []PublishedIsVerified
<1>1. StoreInv => PublishedIsVerified
  BY DEF StoreInv, RoomInv, PublishedIsVerified
<1> QED
  BY <1>1, StoreInvariant, PTL

\* No cleanup pass stops the sandbox of a published room before its deadline.
THEOREM LiveRoomNeverCleaned == Spec => []LiveRoomIsNotCleaned
<1>1. StoreInv => LiveRoomIsNotCleaned
  BY DEF StoreInv, RoomInv, LiveRoomIsNotCleaned
<1> QED
  BY <1>1, StoreInvariant, PTL

\* A room recorded DESTROYED leaves no sandbox unaccounted for.
THEOREM ClosedRoomAlwaysClean == Spec => []ClosedRoomIsClean
<1>1. StoreInv => ClosedRoomIsClean
  BY DEF StoreInv, RoomInv, ClosedRoomIsClean
<1> QED
  BY <1>1, StoreInvariant, PTL

\* All that is left of a room that is over is selected for cleanup, under a
\* reference the worker's calls accept, and a room of which nothing is left can
\* be closed.  An old sandbox that is not absent must therefore be the active
\* one (GenerationOrder), the only other one than the current the calls accept.
THEOREM NothingIsEverStranded == Spec => []NothingIsStranded
<1>1. ASSUME StoreInv, NEW a \in Attempts,
             attempts[a].state \notin {"NONE", "DESTROYED"},
             PastDeadline(a) \/ Intends(a, "destroy")
      PROVE  IF Remains(a) = {} THEN CompleteCleanupOk(a, attempts[a].generation)
                               ELSE \A g \in Remains(a) : OwedCleanup(a, g)
  <2>1. /\ AttemptShape(a)
        /\ GenerationOrder(a)
        /\ \A g \in Generations : ResourceShape(a, g)
        /\ attempts[a].generation \in Generations
    BY <1>1 DEF StoreInv, RoomInv, TypeOK, Attempt, AttemptShape, Generations
  <2>2. ASSUME Remains(a) = {}
        PROVE  CompleteCleanupOk(a, attempts[a].generation)
    <3>1. \A g \in Generations :
            g <= attempts[a].generation => VerifiedAbsent(resources[a][g])
      BY <2>2 DEF Remains
    <3>2. AllAbsent(a)
      BY <2>1, <3>1 DEF AllAbsent, ResourceShape, VerifiedAbsent, Generations
    <3>3. VerifiedAbsent(resources[a][attempts[a].generation])
      BY <2>1, <3>1 DEF Generations
    <3> QED
      BY <1>1, <3>2, <3>3 DEF CompleteCleanupOk, Binding
  <2>3. ASSUME NEW g \in Remains(a)
        PROVE  OwedCleanup(a, g)
    <3>1. /\ g \in Generations
          /\ g <= attempts[a].generation
          /\ ~VerifiedAbsent(resources[a][g])
          /\ ResourceShape(a, g)
      BY <2>1 DEF Remains
    <3>2. resources[a][g].state # "DESTROYED"
      BY <3>1 DEF ResourceShape, VerifiedAbsent
    <3>3. CASE g = attempts[a].generation
      BY <1>1, <3>2, <3>3
      DEF OwedCleanup, RecordedDue, UnrecordedDue, BindingAllowActive
    <3>4. CASE g # attempts[a].generation
      <4>1. g = attempts[a].active
        BY <2>1, <3>1, <3>4 DEF GenerationOrder, Generations
      <4>2. resources[a][g].state # "NONE"
        BY <1>1, <2>1, <3>1, <4>1 DEF GenerationOrder, Generations
      <4> QED
        BY <1>1, <3>2, <4>1, <4>2 DEF OwedCleanup, RecordedDue, BindingAllowActive
    <3> QED
      BY <3>3, <3>4
  <2> QED
    BY <2>2, <2>3
<1>2. StoreInv => NothingIsStranded
  BY <1>1 DEF NothingIsStranded
<1> QED
  BY <1>2, StoreInvariant, PTL

=============================================================================
