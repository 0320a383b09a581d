----------------------------- MODULE StateStore -----------------------------
(***************************************************************************)
(* The SQLite state store of Failroom (packages/state-store): the durable  *)
(* record of every room attempt, of every sandbox generation reserved for  *)
(* it and of the cleanup work owed to it.                                  *)
(*                                                                         *)
(* One action below is one repository method: each runs in a single        *)
(* BEGIN IMMEDIATE transaction and reads its clock under the writer lock,  *)
(* so a method is one atomic step.  A method that raises StoreError rolls  *)
(* back and is no step at all; one that raises CommitDenial commits a stop *)
(* and then denies, and is an action of its own (DenyAttempt, DenyResource)*)
(* A method that finds its idempotency key already recorded returns the    *)
(* recorded receipt and writes nothing: it is a stuttering step.           *)
(*                                                                         *)
(* Sandbox identities are fresh UUIDs, one per generation of an attempt,   *)
(* so the pair <<attempt, generation>> stands for a ResourceRef and        *)
(* generation 0 for SQL NULL.                                              *)
(***************************************************************************)
EXTENDS Integers, FiniteSets

CONSTANTS
  Attempts,        (* attempt identities; their order is the SQL order      *)
  MaxGeneration,   (* bound: generations an attempt may reserve             *)
  MaxTime,         (* bound: the last instant of the trusted clock          *)
  MaxRetries,      (* bound: failures recorded of one cleanup operation     *)
  Limit            (* rows one expire or reconcile call may take            *)

ASSUME StoreAssumption ==
  /\ Attempts \subseteq Nat
  /\ MaxGeneration \in Nat \ {0}
  /\ MaxTime \in Nat
  /\ MaxRetries \in Nat
  /\ Limit \in Nat \ {0}

VARIABLES
  clock,       (* the trusted clock every method reads                      *)
  attempts,    (* room_attempts: one row, or NoAttempt, per identity        *)
  resources,   (* sandbox_resources: one row, or NoResource, per generation *)
  cleanups     (* lifecycle_operations of actor internal:cleanup            *)

vars == <<clock, attempts, resources, cleanups>>

-----------------------------------------------------------------------------
(* Rows *)

Generations == 1..MaxGeneration

AttemptStates == {"PROVISIONING", "RESETTING", "READY", "RUNNING", "RESOLVED",
                  "STOPPING", "FAILED", "DESTROYED"}

ResourceStates == {"REQUESTED", "CREATING", "STARTING", "READY", "RUNNING",
                   "RESOLVED", "STOPPING", "FAILED", "DESTROYED"}

AttemptIntents == {"provisioning", "reset", "expiry", "destroy"}

\* The nullable columns of a resource that a transition can fill in.
ResourceColumns == {"container_id", "evidence_digest", "cleanup_evidence_digest"}

Attempt == [state      : AttemptStates \cup {"NONE"},
            generation : 0..MaxGeneration,
            active     : 0..MaxGeneration,
            candidate  : 0..MaxGeneration,
            epoch      : Nat,
            version    : Nat,
            expiresAt  : Nat,
            intents    : SUBSET AttemptIntents]

Resource == [state   : ResourceStates \cup {"NONE"},
             version : Nat,
             intents : SUBSET {"expiry", "destroy"},
             filled  : SUBSET ResourceColumns]

Cleanup == [status  : {"NONE", "PENDING", "RETRY", "SUCCEEDED"},
            retries : 0..MaxRetries,
            retryAt : Nat]

NoAttempt == [state |-> "NONE", generation |-> 0, active |-> 0, candidate |-> 0,
              epoch |-> 0, version |-> 0, expiresAt |-> 0, intents |-> {}]

NoResource == [state |-> "NONE", version |-> 0, intents |-> {}, filled |-> {}]

NoCleanup == [status |-> "NONE", retries |-> 0, retryAt |-> 0]

Init ==
  /\ clock = 0
  /\ attempts = [a \in Attempts |-> NoAttempt]
  /\ resources = [a \in Attempts |-> [g \in Generations |-> NoResource]]
  /\ cleanups = [a \in Attempts |-> [g \in Generations |-> NoCleanup]]

-----------------------------------------------------------------------------
(* Bindings, liveness and stop intent *)

\* The reference names the attempt's current sandbox.
Binding(a, g) ==
  /\ attempts[a].state # "NONE"
  /\ attempts[a].generation = g

\* The reference names the current sandbox or the one still active.
BindingAllowActive(a, g) ==
  /\ attempts[a].state # "NONE"
  /\ g \in {attempts[a].generation, attempts[a].active}

PastDeadline(a) == clock >= attempts[a].expiresAt

Intends(a, intent) == intent \in attempts[a].intents

\* Mutant: the flag is recorded under a name the schema does not have.
IfExpiredMisnamed(expired) == IF expired THEN {"expired"} ELSE {}

\* The expiry flag a stop records: max(expiry_intent, expired).
IfExpired(expired) == IF expired THEN {"expiry"} ELSE {}

\* Backend liveness: neither expired nor told to stop.
BackendLive(a) ==
  /\ ~PastDeadline(a)
  /\ ~Intends(a, "destroy")
  /\ attempts[a].state \notin {"STOPPING", "FAILED", "DESTROYED"}

\* Control-plane expiry also honours the recorded intent.
ControlExpired(a) == PastDeadline(a) \/ Intends(a, "expiry")

\* Mutant: the control plane looks at the deadline and forgets a recorded stop.
ControlLiveUntilDeadline(a) == ~ControlExpired(a)

ControlLive(a) == BackendLive(a) /\ ~Intends(a, "expiry")

\* Mutant: a stop leaves the session epoch in place.
StopAttemptInEpoch(row) ==
  IF row.state = "DESTROYED" \/ "destroy" \in row.intents
  THEN row
  ELSE [row EXCEPT
          !.state   = "STOPPING",
          !.intents = (@ \ {"provisioning"}) \cup {"destroy"}
                        \cup IfExpired(clock >= row.expiresAt),
          !.version = @ + 1]

\* A stop is recorded once, and once more when the deadline overtakes it.
StopAttempt(row) ==
  LET expired == clock >= row.expiresAt
      first   == "destroy" \notin row.intents
  IN  IF \/ row.state = "DESTROYED"
         \/ ~first /\ (expired => "expiry" \in row.intents)
      THEN row
      ELSE [row EXCEPT
              !.state   = "STOPPING",
              !.intents = (@ \ {"provisioning"}) \cup {"destroy"} \cup IfExpired(expired),
              !.epoch   = IF first THEN @ + 1 ELSE @,
              !.version = @ + 1]

\* Mutant: a stop also rewrites a sandbox that is proven absent.
StopResourceAgain(row, expired) ==
  [row EXCEPT
     !.state   = "STOPPING",
     !.intents = @ \cup {"destroy"} \cup IfExpired(expired),
     !.version = @ + 1]

StopResource(row, expired) ==
  IF \/ row.state = "DESTROYED"
     \/ /\ row.state = "STOPPING"
        /\ "destroy" \in row.intents
        /\ expired => "expiry" \in row.intents
  THEN row
  ELSE [row EXCEPT
          !.state   = "STOPPING",
          !.intents = @ \cup {"destroy"} \cup IfExpired(expired),
          !.version = @ + 1]

WriteAttempt(a, row) ==
  /\ attempts' = [attempts EXCEPT ![a] = row]
  /\ UNCHANGED <<clock, resources, cleanups>>

WriteResource(a, g, row) ==
  /\ resources' = [resources EXCEPT ![a][g] = row]
  /\ UNCHANGED <<clock, attempts>>

\* A query with LIMIT n takes n of the selected rows, or all there are; the
\* order of the query says which ones.
TakesUpTo(n, rows, batch) ==
  /\ batch \subseteq rows
  /\ batch # {}
  /\ Cardinality(batch) = (IF Cardinality(rows) < n THEN Cardinality(rows) ELSE n)

-----------------------------------------------------------------------------
(* BackendStore: attempt authority *)

Create(a, deadline) ==
  /\ attempts[a].state = "NONE"
  /\ deadline > clock
  /\ WriteAttempt(a, [NoAttempt EXCEPT !.state      = "PROVISIONING",
                                       !.generation = 1,
                                       !.candidate  = 1,
                                       !.expiresAt  = deadline,
                                       !.intents    = {"provisioning"}])

Leave(a, g) ==
  /\ Binding(a, g)
  /\ WriteAttempt(a, StopAttempt(attempts[a]))

\* A backend call on an expired attempt commits the stop and denies the call:
\* begin_reset, the four publications, fail_reset and consume.
DenyAttempt(a, g) ==
  /\ Binding(a, g)
  /\ PastDeadline(a)
  /\ WriteAttempt(a, StopAttempt(attempts[a]))

BeginResetOk(a, g) ==
  /\ Binding(a, g)
  /\ ~PastDeadline(a)
  /\ attempts[a].state \in {"READY", "RUNNING", "RESOLVED"}
  /\ ~Intends(a, "destroy")
  /\ attempts[a].active = g

BeginReset(a, g) ==
  /\ g < MaxGeneration
  /\ BeginResetOk(a, g)
  /\ WriteAttempt(a, [attempts[a] EXCEPT
                        !.generation = g + 1,
                        !.candidate  = g + 1,
                        !.state      = "RESETTING",
                        !.intents    = @ \cup {"provisioning", "reset"},
                        !.epoch      = @ + 1,
                        !.version    = @ + 1])

PublishReadyOk(a, g, v) ==
  /\ Binding(a, g)
  /\ BackendLive(a)
  /\ attempts[a].version = v
  /\ attempts[a].state = "PROVISIONING"
  /\ resources[a][g].state = "READY"
  /\ "destroy" \notin resources[a][g].intents

PublishReady(a, g, v) ==
  /\ PublishReadyOk(a, g, v)
  /\ WriteAttempt(a, [attempts[a] EXCEPT
                        !.state     = "READY",
                        !.active    = g,
                        !.candidate = 0,
                        !.intents   = @ \ {"provisioning"},
                        !.version   = @ + 1])

PublishRuntimeStateOk(a, g, v, source, target) ==
  /\ Binding(a, g)
  /\ BackendLive(a)
  /\ attempts[a].version = v
  /\ attempts[a].state = source
  /\ resources[a][g].state = target
  /\ "destroy" \notin resources[a][g].intents
  /\ target = "RESOLVED" => "evidence_digest" \in resources[a][g].filled

PublishRuntimeState(a, g, v, source, target) ==
  /\ PublishRuntimeStateOk(a, g, v, source, target)
  /\ WriteAttempt(a, [attempts[a] EXCEPT !.state = target, !.version = @ + 1])

PublishRunning(a, g, v)  == PublishRuntimeState(a, g, v, "READY", "RUNNING")

PublishResolved(a, g, v) == PublishRuntimeState(a, g, v, "RUNNING", "RESOLVED")

\* The attempt is replacing its sandbox and g is the replacement.
Replacing(a, g) ==
  /\ Binding(a, g)
  /\ attempts[a].state = "RESETTING"
  /\ Intends(a, "reset")
  /\ Intends(a, "provisioning")
  /\ attempts[a].candidate = g

\* Mutant: a sandbox told to stop already counts as gone.
AbsentOnceStopping(row) == row.state \in {"STOPPING", "DESTROYED"}

VerifiedAbsent(row) ==
  /\ row.state = "DESTROYED"
  /\ "cleanup_evidence_digest" \in row.filled

\* Mutant: the replacement is published without asking whether it is READY.
PublishResetReadyUnchecked(a, g, v) ==
  /\ Replacing(a, g)
  /\ ~PastDeadline(a)
  /\ attempts[a].version = v
  /\ "destroy" \notin resources[a][g].intents
  /\ attempts[a].active \in Generations
  /\ VerifiedAbsent(resources[a][attempts[a].active])

PublishResetReadyOk(a, g, v) ==
  /\ Replacing(a, g)
  /\ ~PastDeadline(a)
  /\ ~Intends(a, "destroy")
  /\ attempts[a].version = v
  /\ resources[a][g].state = "READY"
  /\ "destroy" \notin resources[a][g].intents
  /\ attempts[a].active \in Generations
  /\ VerifiedAbsent(resources[a][attempts[a].active])

\* Mutant: the completed reset leaves its intent behind.
PublishResetReadyStillReset(a, g, v) ==
  /\ PublishResetReadyOk(a, g, v)
  /\ WriteAttempt(a, [attempts[a] EXCEPT
                        !.state     = "READY",
                        !.active    = g,
                        !.candidate = 0,
                        !.intents   = @ \ {"provisioning"},
                        !.version   = @ + 1])

PublishResetReady(a, g, v) ==
  /\ PublishResetReadyOk(a, g, v)
  /\ WriteAttempt(a, [attempts[a] EXCEPT
                        !.state     = "READY",
                        !.active    = g,
                        !.candidate = 0,
                        !.intents   = @ \ {"provisioning", "reset"},
                        !.version   = @ + 1])

FailResetOk(a, g, v) ==
  /\ Replacing(a, g)
  /\ ~PastDeadline(a)
  /\ ~Intends(a, "destroy")
  /\ attempts[a].version = v
  /\ resources[a][g].state = "FAILED"
  /\ "destroy" \in resources[a][g].intents

FailReset(a, g, v) ==
  /\ FailResetOk(a, g, v)
  /\ WriteAttempt(a, [attempts[a] EXCEPT
                        !.state   = "FAILED",
                        !.intents = @ \ {"provisioning"},
                        !.version = @ + 1])

\* ORDER BY expires_at, attempt_id
Sooner(a, b) ==
  \/ attempts[a].expiresAt < attempts[b].expiresAt
  \/ attempts[a].expiresAt = attempts[b].expiresAt /\ a < b

TakesSoonest(n, rooms, batch) ==
  /\ TakesUpTo(n, rooms, batch)
  /\ \A a \in rooms \ batch, b \in batch : ~Sooner(a, b)

ExpiryDue == {a \in Attempts : /\ attempts[a].state \notin {"NONE", "DESTROYED"}
                               /\ PastDeadline(a)
                               /\ ~Intends(a, "expiry")}

Expire(batch) ==
  /\ TakesSoonest(Limit, ExpiryDue, batch)
  /\ attempts' = [a \in Attempts |-> IF a \in batch THEN StopAttempt(attempts[a])
                                                    ELSE attempts[a]]
  /\ UNCHANGED <<clock, resources, cleanups>>

\* Every sandbox ever recorded for the attempt is proven absent.
AllAbsent(a) == \A h \in Generations : resources[a][h].state \in {"NONE", "DESTROYED"}

\* Mutant: the room is closed on the word of its current sandbox alone.
CompleteCleanupAlone(a, g) == Binding(a, g) /\ VerifiedAbsent(resources[a][g])

\* On the old sandbox of a reset the method writes a receipt only (a stutter).
CompleteCleanupOk(a, g) ==
  /\ Binding(a, g)
  /\ VerifiedAbsent(resources[a][g])
  /\ AllAbsent(a)

CompleteCleanup(a, g) ==
  /\ CompleteCleanupOk(a, g)
  /\ attempts[a].state # "DESTROYED"
  /\ WriteAttempt(a, [StopAttempt(attempts[a]) EXCEPT
                        !.state   = "DESTROYED",
                        !.active  = 0,
                        !.version = @ + 1])

-----------------------------------------------------------------------------
(* ControlPlaneStore: sandbox resources *)

NextStates(state) ==
  CASE state = "REQUESTED" -> {"CREATING", "STOPPING"}
    [] state = "CREATING"  -> {"STARTING", "FAILED", "STOPPING"}
    [] state = "STARTING"  -> {"READY", "FAILED", "STOPPING"}
    [] state = "READY"     -> {"RUNNING", "STOPPING"}
    [] state = "RUNNING"   -> {"RESOLVED", "STOPPING"}
    [] state = "RESOLVED"  -> {"STOPPING"}
    [] state = "STOPPING"  -> {"DESTROYED", "FAILED"}
    [] state = "FAILED"    -> {"STOPPING"}
    [] OTHER               -> {}

\* Mutant: a replacement is accepted while the old sandbox may still exist.
AcceptBesideOld(a, g) ==
  /\ Binding(a, g)
  /\ ControlLive(a)
  /\ attempts[a].state \in {"PROVISIONING", "RESETTING"}
  /\ resources[a][g].state = "NONE"

AcceptOk(a, g) ==
  /\ Binding(a, g)
  /\ ControlLive(a)
  /\ \/ /\ attempts[a].state = "PROVISIONING"
        /\ Intends(a, "provisioning")
     \/ /\ Replacing(a, g)
        /\ attempts[a].active \in Generations
        /\ VerifiedAbsent(resources[a][attempts[a].active])
  /\ resources[a][g].state = "NONE"

Accept(a, g) ==
  /\ AcceptOk(a, g)
  /\ WriteResource(a, g, [NoResource EXCEPT !.state = "REQUESTED"])
  /\ UNCHANGED cleanups

\* Only a stop, a proof of absence or a failed cleanup may touch a sandbox
\* that is expired, stopping or already replaced.
IsCleanup(a, g, state) ==
  \/ state \in {"STOPPING", "DESTROYED"}
  \/ state = "FAILED" /\ "destroy" \in resources[a][g].intents

TransitionOk(a, g, v, state) ==
  /\ BindingAllowActive(a, g)
  /\ resources[a][g].state # "NONE"
  /\ \/ IsCleanup(a, g, state)
     \/ /\ attempts[a].generation = g
        /\ ControlLive(a)
        /\ "destroy" \notin resources[a][g].intents
  /\ resources[a][g].version = v
  /\ state \in NextStates(resources[a][g].state)

FilledBy(state) ==
  CASE state = "STARTING"             -> {"container_id"}
    [] state \in {"READY", "RESOLVED"} -> {"evidence_digest"}
    [] state = "DESTROYED"            -> {"cleanup_evidence_digest"}
    [] OTHER                          -> {}

Transition(a, g, v, state) ==
  /\ TransitionOk(a, g, v, state)
  /\ WriteResource(a, g, [resources[a][g] EXCEPT
       !.state   = state,
       !.version = @ + 1,
       !.intents = @ \cup (IF state \in {"STOPPING", "FAILED", "DESTROYED"}
                           THEN {"destroy"} ELSE {})
                     \cup IfExpired(ControlExpired(a)),
       !.filled  = @ \cup FilledBy(state)])
  /\ cleanups' = IF state = "DESTROYED" /\ cleanups[a][g].status # "NONE"
                 THEN [cleanups EXCEPT ![a][g].status = "SUCCEEDED"]
                 ELSE cleanups

\* A control-plane call on an expired attempt commits the stop of its sandbox
\* and denies the call: a transition or an attachment lease.
DenyResource(a, g) ==
  /\ Binding(a, g)
  /\ resources[a][g].state # "NONE"
  /\ ControlExpired(a)
  /\ WriteResource(a, g, StopResource(resources[a][g], TRUE))
  /\ UNCHANGED cleanups

\* Mutant: any active sandbox owes cleanup, whether a reset waits for it or not.
RecordedDueWhenActive(a, g) ==
  /\ resources[a][g].state \notin {"NONE", "DESTROYED"}
  /\ \/ Intends(a, "destroy") \/ PastDeadline(a)
     \/ "destroy" \in resources[a][g].intents
     \/ attempts[a].active = g

\* A recorded sandbox owes cleanup: its attempt is over, it failed itself, or
\* a reset is waiting for it to go.
RecordedDue(a, g) ==
  /\ resources[a][g].state \notin {"NONE", "DESTROYED"}
  /\ \/ Intends(a, "destroy")
     \/ PastDeadline(a)
     \/ "destroy" \in resources[a][g].intents
     \/ Intends(a, "reset") /\ attempts[a].active = g

\* Mutant: an interrupted create is left without a row for ever.
UnrecordedNeverDue(a, g) == FALSE

\* The reserved identity of an interrupted create that never got a row.
UnrecordedDue(a, g) ==
  /\ resources[a][g].state = "NONE"
  /\ attempts[a].generation = g
  /\ Intends(a, "destroy") \/ PastDeadline(a)

RetryDue(a, g) == cleanups[a][g].status = "NONE" \/ cleanups[a][g].retryAt <= clock

DueFor(a, g) ==
  /\ attempts[a].state \notin {"NONE", "DESTROYED"}
  /\ RecordedDue(a, g) \/ UnrecordedDue(a, g)
  /\ RetryDue(a, g)

CleanupDue == {x \in Attempts \X Generations : DueFor(x[1], x[2])}

\* ORDER BY expires_at, attempt_id, cleanup_sandbox_id with NULL first; the rows
\* this does not separate come in the order of their UUIDs, which may be either.
CleanedBefore(x, y) ==
  \/ Sooner(x[1], y[1])
  \/ /\ x[1] = y[1]
     /\ resources[x[1]][x[2]].state = "NONE"
     /\ resources[y[1]][y[2]].state # "NONE"

\* The row reconcile stops: the one there is, or the one it inserts.
StoppedRow(a, g) ==
  StopResource(IF resources[a][g].state = "NONE"
               THEN [NoResource EXCEPT
                       !.state   = "STOPPING",
                       !.intents = {"destroy"} \cup IfExpired(ControlExpired(a))]
               ELSE resources[a][g],
               ControlExpired(a))

Reconcile(batch, n) ==
  /\ TakesUpTo(n, CleanupDue, batch)
  /\ \A x \in CleanupDue \ batch, y \in batch : ~CleanedBefore(x, y)
  /\ resources' = [a \in Attempts |-> [g \in Generations |->
                     IF <<a, g>> \in batch THEN StoppedRow(a, g) ELSE resources[a][g]]]
  /\ cleanups' = [a \in Attempts |-> [g \in Generations |->
                    IF <<a, g>> \in batch /\ cleanups[a][g].status = "NONE"
                    THEN [NoCleanup EXCEPT !.status = "PENDING"]
                    ELSE cleanups[a][g]]]
  /\ UNCHANGED <<clock, attempts>>

CleanupFailedOk(a, g, v, retryAt) ==
  /\ BindingAllowActive(a, g)
  /\ retryAt > clock
  /\ resources[a][g].state = "STOPPING"
  /\ resources[a][g].version = v
  /\ cleanups[a][g].status \in {"PENDING", "RETRY"}

\* Mutant: a failed cleanup keeps the version its worker read.
CleanupFailedInPlace(a, g, v, retryAt) ==
  /\ CleanupFailedOk(a, g, v, retryAt)
  /\ cleanups[a][g].retries < MaxRetries
  /\ WriteResource(a, g, [resources[a][g] EXCEPT !.state = "FAILED"])
  /\ cleanups' = [cleanups EXCEPT ![a][g] = [status  |-> "RETRY",
                                              retries |-> cleanups[a][g].retries + 1,
                                              retryAt |-> retryAt]]

CleanupFailed(a, g, v, retryAt) ==
  /\ CleanupFailedOk(a, g, v, retryAt)
  /\ cleanups[a][g].retries < MaxRetries
  /\ WriteResource(a, g, [resources[a][g] EXCEPT !.state = "FAILED", !.version = @ + 1])
  /\ cleanups' = [cleanups EXCEPT ![a][g] = [status  |-> "RETRY",
                                              retries |-> cleanups[a][g].retries + 1,
                                              retryAt |-> retryAt]]

-----------------------------------------------------------------------------
(* The store under every caller it has *)

Tick ==
  /\ clock < MaxTime
  /\ clock' = clock + 1
  /\ UNCHANGED <<attempts, resources, cleanups>>

\* The states some caller asks transition for.  Nothing asks for STOPPING, and
\* FAILED is asked for only with the version of a creating or starting sandbox:
\* the orchestrator's version is stale once the sandbox is stopped.
Requested(a, g, state) ==
  /\ state \in ResourceStates \ {"REQUESTED", "STOPPING"}
  /\ state = "FAILED" => resources[a][g].state # "STOPPING"

BackendStep(a) ==
  \/ \E deadline \in 0..MaxTime : Create(a, deadline)
  \/ \E g \in Generations :
       LET v == attempts[a].version
       IN  \/ Leave(a, g)
           \/ DenyAttempt(a, g)
           \/ BeginReset(a, g)
           \/ PublishReady(a, g, v)
           \/ PublishRunning(a, g, v)
           \/ PublishResolved(a, g, v)
           \/ PublishResetReady(a, g, v)
           \/ FailReset(a, g, v)
           \/ CompleteCleanup(a, g)

ControlStep(a) ==
  \E g \in Generations :
    LET v == resources[a][g].version
    IN  \/ Accept(a, g)
        \/ \E state \in ResourceStates :
             Requested(a, g, state) /\ Transition(a, g, v, state)
        \/ DenyResource(a, g)
        \/ \E retryAt \in 1..MaxTime : CleanupFailed(a, g, v, retryAt)

ExpireSome == \E batch \in SUBSET Attempts : Expire(batch)

\* A worker that has finalized rooms in its pass asks for fewer cleanups.
ReconcileSome ==
  \E batch \in SUBSET CleanupDue, n \in 1..Limit : Reconcile(batch, n)

Next ==
  \/ Tick
  \/ \E a \in Attempts : BackendStep(a) \/ ControlStep(a)
  \/ ExpireSome
  \/ ReconcileSome

Spec == Init /\ [][Next]_vars

-----------------------------------------------------------------------------
(* Properties *)

\* Every row has the columns, and the domains, of the version 4 schema.
TypeOK ==
  /\ clock \in Nat
  /\ attempts \in [Attempts -> Attempt]
  /\ resources \in [Attempts -> [Generations -> Resource]]
  /\ cleanups \in [Attempts -> [Generations -> Cleanup]]

Published(a) == attempts[a].state \in {"READY", "RUNNING", "RESOLVED"}

\* A sandbox the records allow to exist: recorded, and not told to stop.
Usable(a, g) ==
  /\ resources[a][g].state \notin {"NONE", "DESTROYED"}
  /\ "destroy" \notin resources[a][g].intents

\* No sequence of store calls reaches a row that a CHECK constraint of
\* schema.py rejects, which would surface as STORE_FAILURE in the middle of a
\* cleanup: the stop intents, the candidate pointer, the reset flag and the
\* cleanup evidence stay consistent with the state column.
SchemaChecks ==
  /\ \A a \in Attempts :
       /\ attempts[a].candidate \in {0, attempts[a].generation}
       /\ Intends(a, "expiry") => Intends(a, "destroy")
       /\ Intends(a, "reset") =>
            attempts[a].state \in {"RESETTING", "FAILED", "STOPPING", "DESTROYED"}
       /\ Intends(a, "destroy") =>
            attempts[a].state \in {"STOPPING", "FAILED", "DESTROYED"}
  /\ \A a \in Attempts, g \in Generations :
       /\ "expiry" \in resources[a][g].intents => "destroy" \in resources[a][g].intents
       /\ "destroy" \in resources[a][g].intents =>
            resources[a][g].state \in {"STOPPING", "FAILED", "DESTROYED"}
       /\ resources[a][g].state = "DESTROYED" => VerifiedAbsent(resources[a][g])

\* A generation that may exist is alone: every older one is verified absent.
AloneInRoom(a, g) ==
  Usable(a, g) => \A h \in Generations : h < g => VerifiedAbsent(resources[a][h])

\* The sandbox has reached the state the room reports.
Reached(a, g) ==
  \/ resources[a][g].state = attempts[a].state
  \/ /\ attempts[a].state = "READY"
     /\ resources[a][g].state \in {"RUNNING", "RESOLVED"}
  \/ /\ attempts[a].state = "RUNNING"
     /\ resources[a][g].state = "RESOLVED"

VerifiedRoom(a) ==
  LET g == attempts[a].generation
  IN  /\ attempts[a].active = g
      /\ attempts[a].candidate = 0
      /\ "evidence_digest" \in resources[a][g].filled
      /\ \A h \in Generations : h < g => VerifiedAbsent(resources[a][h])
      /\ Usable(a, g) => Reached(a, g)

CleanRoom(a) ==
  \A g \in Generations : IF g <= attempts[a].generation
                         THEN VerifiedAbsent(resources[a][g])
                         ELSE resources[a][g].state = "NONE"

\* Reset replaces a sandbox, it never doubles one: whatever the interleaving of
\* resets, cleanup passes, leaves and expiry, a sandbox that is not told to
\* stop exists only when every older one of the attempt is verified absent.
ReplacementWaits == \A a \in Attempts, g \in Generations : AloneInRoom(a, g)

\* A room is offered to its learner only over its current sandbox, once that
\* sandbox reported its verified start and every older one is gone; and the
\* sandbox has reached the state the room reports unless it is being stopped.
PublishedIsVerified == \A a \in Attempts : Published(a) => VerifiedRoom(a)

\* Cleanup never takes the sandbox of a room its learner may still use: while
\* the room is published, its sandbox is stopped only once the deadline passed.
LiveRoomIsNotCleaned ==
  \A a \in Attempts :
    Published(a) /\ ~Usable(a, attempts[a].generation) => PastDeadline(a)

\* A room is recorded DESTROYED only when each sandbox identity it ever
\* reserved, the interrupted ones included, is verified absent.
ClosedRoomIsClean ==
  \A a \in Attempts : attempts[a].state = "DESTROYED" => CleanRoom(a)

\* The sandboxes a room ever reserved that are not verified absent.
Remains(a) ==
  {g \in Generations : g <= attempts[a].generation /\ ~VerifiedAbsent(resources[a][g])}

\* A cleanup pass selects the sandbox, and the store lets the worker report on it.
OwedCleanup(a, g) ==
  (RecordedDue(a, g) \/ UnrecordedDue(a, g)) /\ BindingAllowActive(a, g)

\* Nothing that is over is stranded: whichever interrupted creates, resets and
\* failed cleanups led there, all that is left of an expired or stopped room is
\* selected for cleanup, under a reference the worker's calls accept; and when
\* nothing is left the room can be closed.
NothingIsStranded ==
  \A a \in Attempts :
    /\ attempts[a].state \notin {"NONE", "DESTROYED"}
    /\ PastDeadline(a) \/ Intends(a, "destroy")
    => IF Remains(a) = {} THEN CompleteCleanupOk(a, attempts[a].generation)
                         ELSE \A g \in Remains(a) : OwedCleanup(a, g)

\* The epoch never moves back, and it moves on when the room is taken away.
EpochMoves(a) ==
  /\ attempts'[a].epoch >= attempts[a].epoch
  /\ Published(a) /\ attempts'[a].state \notin {"READY", "RUNNING", "RESOLVED"} =>
       attempts'[a].epoch > attempts[a].epoch

\* Whatever takes a room away from its learner (leave, expiry, reset, cleanup)
\* moves the session epoch in the same transaction, so no capability issued for
\* the published room can be consumed afterwards; and the epoch never moves back.
RevocationMovesEpoch == [][\A a \in Attempts : EpochMoves(a)]_vars

VersionMoves(old, new) ==
  new # old /\ old.state # "NONE" => new.version > old.version

\* Compare-and-swap on version is sound because no write leaves it in place: a
\* caller holding a version read before any other write is always refused.
WritesMoveVersion ==
  [][\A a \in Attempts :
       /\ VersionMoves(attempts[a], attempts'[a])
       /\ \A g \in Generations : VersionMoves(resources[a][g], resources'[a][g])]_vars

\* What the triggers of schema.py allow a write to do to the rows of a room.
TriggersAllow(a) ==
  /\ attempts'[a].expiresAt = attempts[a].expiresAt
  /\ attempts[a].intents \cap {"expiry", "destroy"} \subseteq attempts'[a].intents
  /\ attempts[a].state = "DESTROYED" => attempts'[a].state = "DESTROYED"
  /\ attempts'[a].generation # attempts[a].generation =>
       /\ Published(a)
       /\ attempts'[a].state = "RESETTING"
       /\ "reset" \in attempts'[a].intents
       /\ attempts'[a].generation = attempts[a].generation + 1
       /\ attempts'[a].candidate = attempts'[a].generation
       /\ attempts'[a].active = attempts[a].active
  /\ \A g \in Generations :
       /\ resources[a][g].intents \subseteq resources'[a][g].intents
       /\ resources[a][g].state = "DESTROYED" => resources'[a][g].state = "DESTROYED"

\* The immutability triggers of schema.py never abort a method: identity,
\* deadline and stop intents only change the way the triggers allow.
TriggersNeverAbort ==
  [][\A a \in Attempts : attempts[a].state # "NONE" => TriggersAllow(a)]_vars

\* A sandbox is requested, started or advanced only as the current one of a
\* room that is live as the step begins.
AdvancesLive(a, g) ==
  /\ resources'[a][g].state # resources[a][g].state
  /\ resources'[a][g].state \notin {"STOPPING", "FAILED", "DESTROYED"}
  => BackendLive(a) /\ Binding(a, g)

\* Once a stop is recorded, or the deadline has passed, no sandbox of the
\* attempt is requested, started or advanced any further, whichever store
\* (backend or control plane) the call goes through.
NothingAdvancesAfterStop ==
  [][\A a \in Attempts, g \in Generations : AdvancesLive(a, g)]_vars

(* The inductive invariant behind the properties above, one room at a time. *)

\* What the intents, pointers and state of one attempt row can be together.
AttemptShape(a) ==
  LET row == attempts[a]
  IN  /\ row.state = "NONE" => row = NoAttempt
      /\ row.state # "NONE" =>
           /\ row.generation >= 1
           /\ row.candidate \in {0, row.generation}
      /\ row.state = "PROVISIONING" =>
           /\ row.generation = 1
           /\ row.active = 0
           /\ row.candidate = 1
           /\ row.intents = {"provisioning"}
      /\ row.state \in {"RESETTING", "FAILED"} =>
           /\ row.active = row.generation - 1
           /\ row.active >= 1
           /\ row.candidate = row.generation
      /\ row.state = "RESETTING" => row.intents = {"provisioning", "reset"}
      /\ row.state = "FAILED" => row.intents = {"reset"}
      /\ row.state \in {"STOPPING", "DESTROYED"} => "destroy" \in row.intents
      /\ row.state = "STOPPING" => row.active \in {row.generation - 1, row.generation}
      /\ row.state = "DESTROYED" => row.active = 0
      /\ Published(a) =>
           /\ row.active = row.generation
           /\ row.candidate = 0
           /\ row.intents = {}

\* What one sandbox row can be: stop intent and state agree, evidence comes
\* with the state it proves, and nothing is recorded past the current one.
ResourceShape(a, g) ==
  LET row == resources[a][g]
  IN  /\ row.state \in {"STOPPING", "FAILED", "DESTROYED"} <=> "destroy" \in row.intents
      /\ "expiry" \in row.intents => "destroy" \in row.intents
      /\ row.state = "DESTROYED" => "cleanup_evidence_digest" \in row.filled
      /\ row.state \in {"READY", "RUNNING", "RESOLVED"} => "evidence_digest" \in row.filled
      /\ row.state = "NONE" => row = NoResource
      /\ g > attempts[a].generation => row.state = "NONE"

\* Sandboxes older than the active one are gone, the active one was recorded
\* with its evidence, and the current one is usable only if it is alone.
GenerationOrder(a) ==
  LET row == attempts[a]
  IN  /\ \A h \in Generations :
           h < row.generation /\ h # row.active => VerifiedAbsent(resources[a][h])
      /\ row.state \notin {"NONE", "DESTROYED"} /\ row.active # 0 =>
           /\ "evidence_digest" \in resources[a][row.active].filled
           /\ resources[a][row.active].state # "NONE"
      /\ row.state # "NONE" => AloneInRoom(a, row.generation)

RoomInv(a) ==
  /\ AttemptShape(a)
  /\ \A g \in Generations : ResourceShape(a, g)
  /\ GenerationOrder(a)
  /\ Published(a) => VerifiedRoom(a)
  /\ Published(a) /\ ~Usable(a, attempts[a].generation) => PastDeadline(a)
  /\ attempts[a].state = "DESTROYED" => CleanRoom(a)

StoreInv == TypeOK /\ \A a \in Attempts : RoomInv(a)

\* Liveness: every room that is entered is eventually destroyed, whatever its
\* learner does: no sequence of resets, failures, leaves and crashes strands it.
\* It holds of callers that keep maintaining the store (RoomRuntime).
EveryRoomCloses ==
  \A a \in Attempts :
    attempts[a].state # "NONE" ~> attempts[a].state = "DESTROYED"

=============================================================================
