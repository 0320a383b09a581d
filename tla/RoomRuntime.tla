---------------------------- MODULE RoomRuntime ----------------------------
(***************************************************************************)
(* The callers of the state store inside the local runtime, step by step:  *)
(* Enter Room, Leave Room and the maintenance pass (expiry, cleanup worker, *)
(* resumption of interrupted resets), each a thread of one process, with   *)
(* the Docker daemon they drive and the crash, start and shutdown of that  *)
(* process.  Every store method stays the atomic action of StateStore; a   *)
(* thread can be overtaken between any two of them and around every Docker *)
(* call.                                                                   *)
(*                                                                         *)
(* The idempotency keys of provisioning are derived from the operation     *)
(* that reserved the sandbox, so all passes that resume one reset share    *)
(* them: answered[a][g] holds the reports already recorded under them.     *)
(***************************************************************************)
EXTENDS StateStore

CONSTANTS
  Enterers,      (* request threads running RoomEntryService.enter          *)
  Leavers,       (* request threads running RoomLifecycleService.leave      *)
  Maintainers,   (* threads running LifecycleMaintenanceService.run_once    *)
  Ttl,           (* lifetime of an attempt                                  *)
  MaxCrashes,    (* bound: crashes of the process                           *)
  DockerMayFail  (* whether a Docker call may fail or be answered late      *)

Threads == Enterers \cup Leavers \cup Maintainers

ASSUME RuntimeAssumption ==
  /\ Ttl \in Nat \ {0}
  /\ MaxCrashes \in Nat
  /\ DockerMayFail \in BOOLEAN
  /\ IsFiniteSet(Attempts)
  /\ Maintainers \cap (Enterers \cup Leavers) = {}

VARIABLES
  server,      (* "down", "starting", "serving" or "stopping"               *)
  crashes,     (* crashes so far                                            *)
  threads,     (* what each thread is doing                                 *)
  answered,    (* reports of a provisioning recorded under its keys         *)
  containers,  (* the Docker container of each sandbox                      *)
  late         (* create requests the daemon has yet to carry out           *)

store == <<clock, attempts, resources, cleanups>>
docker == <<containers, late>>
process == <<server, crashes>>
runtimeVars == <<store, server, crashes, threads, answered, containers, late>>

-----------------------------------------------------------------------------
(* Threads *)

Sandboxes == Attempts \X Generations

Steps == {"idle", "expire", "pending", "finalize", "reconcile", "clean", "destroy",
          "record", "retry", "close", "resume", "next", "accept", "inspect", "creating", "created",
          "open", "create", "starting", "started", "start", "bootstrap",
          "createfailed", "startfailed", "bootstrapfailed", "failreset", "undo",
          "ready", "readied", "publish", "leave"}

\* a, g: the sandbox at hand; v: the version of its row the thread expects;
\* rv: the attempt version of the receipt it provisions; own: the container was
\* created by this very operation; work: sandboxes still to visit, each with
\* the version its task or receipt names; left: rows the pass may still take.
Idle == [pc |-> "idle", a |-> 0, g |-> 0, v |-> 0, rv |-> 0, own |-> FALSE,
         work |-> {}, left |-> 0]

RuntimeInit ==
  /\ Init
  /\ server = "down"
  /\ crashes = 0
  /\ threads = [t \in Threads |-> Idle]
  /\ answered = [a \in Attempts |-> [g \in Generations |-> {}]]
  /\ containers = [a \in Attempts |-> [g \in Generations |-> "absent"]]
  /\ late = [a \in Attempts |-> [g \in Generations |-> FALSE]]

At(t, step) == threads[t].pc = step

Goto(t, step) == threads' = [threads EXCEPT ![t].pc = step]

Become(t, thread) == threads' = [threads EXCEPT ![t] = thread]

\* A failed provisioning aborts the pass it belongs to; Enter Room leaves.
FailedStep(t) == IF t \in Enterers THEN "leave" ELSE "idle"

\* After its cleanup a maintenance pass resumes interrupted resets.
CleanedStep(t) == IF t \in Maintainers THEN "resume" ELSE "idle"

SetContainer(a, g, state) == containers' = [containers EXCEPT ![a][g] = state]

\* The clock is too close to the deadline for a container to be created or
\* started in time: it may be refused before the deadline itself.
NearDeadline(a) == clock + 1 >= attempts[a].expiresAt

-----------------------------------------------------------------------------
(* LifecycleOrchestrator.provision *)

\* Stops refuse a report before its idempotency key is looked up.
Advancing(a, g) == ControlLive(a) /\ "destroy" \notin resources[a][g].intents

\* One report to the control plane: recorded now, answered from the log, or
\* refused, committing the stop of the sandbox when the attempt is expired.
Report(t, v, state, label, next, refused) ==
  LET a == threads[t].a
      g == threads[t].g
      known == label \in answered[a][g] /\ BindingAllowActive(a, g)
                 /\ (IsCleanup(a, g, state) \/ Advancing(a, g))
      proceed == threads' = [threads EXCEPT ![t].pc = next, ![t].v = v + 1]
  IN  \/ /\ known
         /\ proceed
         /\ UNCHANGED <<store, answered>>
      \/ /\ ~known
         /\ Transition(a, g, v, state)
         /\ answered' = [answered EXCEPT ![a][g] = @ \cup {label}]
         /\ proceed
      \/ /\ ~known
         /\ ~TransitionOk(a, g, v, state)
         /\ IF ~IsCleanup(a, g, state) /\ Binding(a, g) /\ ControlExpired(a)
            THEN DenyResource(a, g)
            ELSE UNCHANGED store
         /\ Goto(t, refused)
         /\ UNCHANGED answered

\* The row read back must carry the version of the report.
Confirm(t, next, refused) ==
  LET thread == threads[t]
  IN  /\ Goto(t, IF /\ BindingAllowActive(thread.a, thread.g)
                    /\ resources[thread.a][thread.g].version = thread.v
                 THEN next ELSE refused)
      /\ UNCHANGED <<store, answered, docker, process>>

AcceptReceipt(t) ==
  LET a == threads[t].a
      g == threads[t].g
      known == /\ "accept" \in answered[a][g]
               /\ Binding(a, g)
               /\ ControlLive(a)
  IN  /\ At(t, "accept")
      /\ \/ /\ known
            /\ Goto(t, "inspect")
            /\ UNCHANGED <<store, answered>>
         \/ /\ ~known
            /\ Accept(a, g)
            /\ answered' = [answered EXCEPT ![a][g] = @ \cup {"accept"}]
            /\ Goto(t, "inspect")
         \/ /\ ~known
            /\ ~AcceptOk(a, g)
            /\ Goto(t, FailedStep(t))
            /\ UNCHANGED <<store, answered>>
      /\ UNCHANGED <<docker, process>>

InspectAccepted(t) ==
  LET a == threads[t].a
      g == threads[t].g
  IN  /\ At(t, "inspect")
      /\ Goto(t, CASE BindingAllowActive(a, g) /\ resources[a][g].state = "READY" ->
                        "publish"
                   [] BindingAllowActive(a, g) /\ resources[a][g].state = "REQUESTED" ->
                        "creating"
                   [] OTHER -> FailedStep(t))
      /\ UNCHANGED <<store, answered, docker, process>>

ReportCreating(t) ==
  /\ At(t, "creating")
  /\ Report(t, threads[t].v, "CREATING", "creating", "created", FailedStep(t))
  /\ UNCHANGED <<docker, process>>

ConfirmCreating(t) == At(t, "created") /\ Confirm(t, "open", FailedStep(t))

\* The qualification gate admits the room and the image and policy verify, or
\* the creation fails before any container is asked for.  There is no report
\* before the first maintenance pass is over.
OpenRuntime(t) ==
  /\ At(t, "open")
  /\ \/ server # "starting" /\ Goto(t, "create")
     \/ (server = "starting" \/ DockerMayFail) /\ Goto(t, "createfailed")
  /\ UNCHANGED <<store, answered, docker, process>>

\* The container is found under its name and adopted, or created; a request
\* whose answer is lost may still be carried out, now or later.  The thread owns
\* the container it created and nobody owns one that was there before.
CreateContainer(t) ==
  LET a == threads[t].a
      g == threads[t].g
      owned(step) == threads' = [s \in Threads |->
        IF s = t THEN [threads[t] EXCEPT !.pc = step, !.own = TRUE]
        ELSE IF threads[s].a = a /\ threads[s].g = g THEN [threads[s] EXCEPT !.own = FALSE]
        ELSE threads[s]]
  IN  /\ At(t, "create")
      /\ \/ /\ containers[a][g] # "absent"
            /\ Goto(t, "starting")
            /\ UNCHANGED docker
         \/ /\ containers[a][g] = "absent"
            /\ SetContainer(a, g, "created")
            /\ \/ owned("starting")
               \/ DockerMayFail /\ owned("createfailed")
            /\ UNCHANGED late
         \/ /\ DockerMayFail
            /\ Goto(t, "createfailed")
            /\ late' \in {late, [late EXCEPT ![a][g] = containers[a][g] = "absent"]}
            /\ UNCHANGED containers
         \/ /\ NearDeadline(a)
            /\ Goto(t, "createfailed")
            /\ UNCHANGED docker
      /\ UNCHANGED <<store, answered, process>>

ReportStarting(t) ==
  /\ At(t, "starting")
  /\ Report(t, threads[t].v, "STARTING", "starting", "started", "undo")
  /\ UNCHANGED <<docker, process>>

ConfirmStarting(t) == At(t, "started") /\ Confirm(t, "start", "undo")

\* Never started past the deadline, and judged by the clock again once started.
StartContainer(t) ==
  LET a == threads[t].a
      g == threads[t].g
  IN  /\ At(t, "start")
      /\ \/ /\ \/ containers[a][g] = "running"
               \/ containers[a][g] = "created" /\ ~PastDeadline(a)
            /\ SetContainer(a, g, "running")
            /\ \/ ~PastDeadline(a) /\ Goto(t, "bootstrap")
               \/ (DockerMayFail \/ NearDeadline(a)) /\ Goto(t, "startfailed")
         \/ /\ containers[a][g] = "absent" \/ DockerMayFail \/ NearDeadline(a)
            /\ Goto(t, "startfailed")
            /\ UNCHANGED containers
      /\ UNCHANGED <<store, answered, process, late>>

\* Mutant: leaving the prepared operation cleans up, whatever its outcome.
BootstrapThenCleanUp(t) ==
  /\ At(t, "bootstrap")
  /\ IF threads[t].own
     THEN SetContainer(threads[t].a, threads[t].g, "absent")
     ELSE UNCHANGED containers
  /\ Goto(t, "ready")
  /\ UNCHANGED <<store, answered, process, late>>

Bootstrap(t) ==
  LET a == threads[t].a
      g == threads[t].g
  IN  /\ At(t, "bootstrap")
      /\ \/ containers[a][g] = "running" /\ Goto(t, "ready")
         \/ (containers[a][g] # "running" \/ DockerMayFail) /\ Goto(t, "bootstrapfailed")
      /\ UNCHANGED <<store, answered, docker, process>>

\* Mutant: the failure is recorded over whatever version the row has by now.
ReportFailedAnyVersion(t) ==
  /\ threads[t].pc \in {"createfailed", "startfailed", "bootstrapfailed"}
  /\ Report(t, resources[threads[t].a][threads[t].g].version, "FAILED", threads[t].pc,
            IF t \in Maintainers THEN "failreset" ELSE "undo", "undo")
  /\ UNCHANGED <<docker, process>>

\* A Docker failure is recorded, under the step that failed and the version it
\* was given, and fails the reset it belongs to.
ReportFailed(t) ==
  /\ threads[t].pc \in {"createfailed", "startfailed", "bootstrapfailed"}
  /\ Report(t, threads[t].v, "FAILED", threads[t].pc,
            IF t \in Maintainers THEN "failreset" ELSE "undo", "undo")
  /\ UNCHANGED <<docker, process>>

\* fail_reset looks its key up before the deadline.
FailTheReset(t) ==
  LET a == threads[t].a
      g == threads[t].g
      known == "failreset" \in answered[a][g] /\ Binding(a, g)
  IN  /\ At(t, "failreset")
      /\ \/ /\ ~known
            /\ FailReset(a, g, threads[t].rv)
            /\ answered' = [answered EXCEPT ![a][g] = @ \cup {"failreset"}]
         \/ /\ known \/ ~FailResetOk(a, g, threads[t].rv)
            /\ IF ~known /\ Binding(a, g) /\ PastDeadline(a)
               THEN DenyAttempt(a, g)
               ELSE UNCHANGED store
            /\ UNCHANGED answered
      /\ Goto(t, "undo")
      /\ UNCHANGED <<docker, process>>

\* Mutant: a failed provisioning leaves the container it created behind.
UndoNothing(t) ==
  /\ At(t, "undo")
  /\ threads' = [threads EXCEPT ![t].pc = FailedStep(t), ![t].own = FALSE]
  /\ UNCHANGED <<store, answered, docker, process>>

\* Whatever went wrong inside the prepared operation, the container it created
\* is destroyed, best effort: a Docker failure here is swallowed.
UndoCreate(t) ==
  LET a == threads[t].a
      g == threads[t].g
  IN  /\ At(t, "undo")
      /\ \/ threads[t].own /\ SetContainer(a, g, "absent")
         \/ (~threads[t].own \/ DockerMayFail) /\ UNCHANGED containers
      /\ threads' = [threads EXCEPT ![t].pc = FailedStep(t), ![t].own = FALSE]
      /\ UNCHANGED <<store, answered, process, late>>

ReportReady(t) ==
  /\ At(t, "ready")
  /\ Report(t, threads[t].v, "READY", "ready", "readied", FailedStep(t))
  /\ UNCHANGED <<docker, process>>

ConfirmReady(t) == At(t, "readied") /\ Confirm(t, "publish", FailedStep(t))

Publish(t) ==
  LET a == threads[t].a
      g == threads[t].g
      rv == threads[t].rv
      reset == t \in Maintainers
      ok == IF reset THEN PublishResetReadyOk(a, g, rv) ELSE PublishReadyOk(a, g, rv)
      known == "publish" \in answered[a][g] /\ Binding(a, g) /\ (reset \/ BackendLive(a))
      done == Become(t, IF reset THEN [Idle EXCEPT !.pc = "next", !.work = threads[t].work]
                                 ELSE Idle)
  IN  /\ At(t, "publish")
      /\ \/ known /\ done /\ UNCHANGED <<store, answered>>
         \/ /\ ~known
            /\ IF reset THEN PublishResetReady(a, g, rv) ELSE PublishReady(a, g, rv)
            /\ answered' = [answered EXCEPT ![a][g] = @ \cup {"publish"}]
            /\ done
         \/ /\ ~known /\ ~ok
            /\ IF Binding(a, g) /\ PastDeadline(a)
               THEN DenyAttempt(a, g)
               ELSE UNCHANGED store
            /\ Goto(t, FailedStep(t))
            /\ UNCHANGED answered
      /\ UNCHANGED <<docker, process>>

Provision(t) ==
  \/ AcceptReceipt(t) \/ InspectAccepted(t)
  \/ ReportCreating(t) \/ ConfirmCreating(t)
  \/ OpenRuntime(t) \/ CreateContainer(t)
  \/ ReportStarting(t) \/ ConfirmStarting(t)
  \/ StartContainer(t) \/ Bootstrap(t)
  \/ ReportFailed(t) \/ FailTheReset(t) \/ UndoCreate(t)
  \/ ReportReady(t) \/ ConfirmReady(t) \/ Publish(t)

-----------------------------------------------------------------------------
(* RoomEntryService, RoomResetService and RoomLifecycleService *)

EnterRoom(t, a) ==
  /\ server = "serving"
  /\ At(t, "idle")
  /\ clock + Ttl <= MaxTime
  /\ Create(a, clock + Ttl)
  /\ Become(t, [Idle EXCEPT !.pc = "accept", !.a = a, !.g = 1])
  /\ UNCHANGED <<answered, docker, process>>

\* Enter Room gives a room it could not provision back.
LeaveFailedEntry(t) ==
  LET a == threads[t].a
      g == threads[t].g
  IN  /\ At(t, "leave")
      /\ IF Binding(a, g) THEN Leave(a, g) ELSE UNCHANGED store
      /\ Become(t, Idle)
      /\ UNCHANGED <<answered, docker, process>>

ResetRoom(a) ==
  /\ server = "serving"
  /\ \E g \in Generations : BeginReset(a, g)
  /\ UNCHANGED <<answered, docker, process, threads>>

LeaveRoom(t, a) ==
  /\ server = "serving"
  /\ At(t, "idle")
  /\ \E g \in Generations : Leave(a, g)
  /\ Become(t, [Idle EXCEPT !.pc = "pending"])
  /\ UNCHANGED <<answered, docker, process>>

-----------------------------------------------------------------------------
(* DockerCleanupWorker.run_once *)

\* Mutant: only the worker that removed the last sandbox closes the room.
NeverPending(a) == FALSE

PendingFinalization(a) ==
  /\ attempts[a].state \notin {"NONE", "DESTROYED"}
  /\ VerifiedAbsent(resources[a][attempts[a].generation])

PendingFinalizations == {a \in Attempts : PendingFinalization(a)}

ReadPending(t) ==
  /\ At(t, "pending")
  /\ \/ /\ PendingFinalizations = {}
        /\ Become(t, [Idle EXCEPT !.pc = "reconcile", !.left = Limit])
     \/ \E batch \in SUBSET Attempts :
          /\ TakesSoonest(Limit, PendingFinalizations, batch)
          /\ Become(t, [Idle EXCEPT
                          !.pc   = "finalize",
                          !.work = {<<a, attempts[a].generation, 0>> : a \in batch},
                          !.left = Limit - Cardinality(batch)])
  /\ UNCHANGED <<store, answered, docker, process>>

\* complete_cleanup: a refusal defers the room to a later pass.
Finalize(a, g) ==
  \/ CompleteCleanup(a, g)
  \/ /\ ~CompleteCleanupOk(a, g) \/ attempts[a].state = "DESTROYED"
     /\ UNCHANGED store

FinalizePending(t) ==
  /\ At(t, "finalize")
  /\ \/ \E task \in threads[t].work :
          /\ Finalize(task[1], task[2])
          /\ threads' = [threads EXCEPT ![t].work = @ \ {task}]
     \/ /\ threads[t].work = {}
        /\ Goto(t, IF threads[t].left = 0 THEN CleanedStep(t) ELSE "reconcile")
        /\ UNCHANGED store
  /\ UNCHANGED <<answered, docker, process>>

ReconcileTasks(t) ==
  /\ At(t, "reconcile")
  /\ \/ /\ CleanupDue = {}
        /\ Goto(t, CleanedStep(t))
        /\ UNCHANGED store
     \/ \E batch \in SUBSET CleanupDue :
          /\ Reconcile(batch, threads[t].left)
          /\ threads' = [threads EXCEPT
                           ![t].pc = "clean",
                           ![t].work = {<<x[1], x[2], resources'[x[1]][x[2]].version>> :
                                          x \in batch}]
  /\ UNCHANGED <<answered, docker, process>>

\* A task another worker has moved on is deferred without a Docker call.
NextTask(t) ==
  /\ At(t, "clean")
  /\ \/ \E task \in threads[t].work :
          LET row == resources[task[1]][task[2]]
          IN  threads' = [threads EXCEPT
                ![t].pc   = IF /\ BindingAllowActive(task[1], task[2])
                               /\ row.version = task[3]
                               /\ row.state = "STOPPING"
                            THEN "destroy" ELSE "clean",
                ![t].a    = task[1],
                ![t].g    = task[2],
                ![t].v    = task[3],
                ![t].work = @ \ {task}]
     \/ threads[t].work = {} /\ Goto(t, CleanedStep(t))
  /\ UNCHANGED <<store, answered, docker, process>>

\* The exact container is removed and its absence verified, or the failure is
\* recorded; the failed removal may have gone through all the same.
DestroyContainer(t) ==
  LET a == threads[t].a
      g == threads[t].g
  IN  /\ At(t, "destroy")
      /\ \/ SetContainer(a, g, "absent") /\ Goto(t, "record")
         \/ /\ DockerMayFail
            /\ \/ SetContainer(a, g, "absent")
               \/ UNCHANGED containers
            /\ Goto(t, "retry")
      /\ UNCHANGED <<store, answered, process, late>>

RecordDestroyed(t) ==
  LET a == threads[t].a
      g == threads[t].g
      v == threads[t].v
  IN  /\ At(t, "record")
      /\ \/ Transition(a, g, v, "DESTROYED") /\ Goto(t, "close")
         \/ ~TransitionOk(a, g, v, "DESTROYED") /\ Goto(t, "clean") /\ UNCHANGED store
      /\ UNCHANGED <<answered, docker, process>>

\* retry_at lies one delay ahead of the clock.  Past the bounds on retries and
\* on the clock the failure goes unrecorded.
RecordFailure(t) ==
  LET a == threads[t].a
      g == threads[t].g
      v == threads[t].v
  IN  /\ At(t, "retry")
      /\ \/ clock < MaxTime /\ CleanupFailed(a, g, v, clock + 1)
         \/ /\ \/ ~CleanupFailedOk(a, g, v, clock + 1)
               \/ cleanups[a][g].retries = MaxRetries
               \/ clock = MaxTime
            /\ UNCHANGED store
      /\ Goto(t, "clean")
      /\ UNCHANGED <<answered, docker, process>>

FinalizeTask(t) ==
  /\ At(t, "close")
  /\ Finalize(threads[t].a, threads[t].g)
  /\ Goto(t, "clean")
  /\ UNCHANGED <<answered, docker, process>>

Clean(t) ==
  \/ ReadPending(t) \/ FinalizePending(t) \/ ReconcileTasks(t) \/ NextTask(t)
  \/ DestroyContainer(t) \/ RecordDestroyed(t) \/ RecordFailure(t) \/ FinalizeTask(t)

-----------------------------------------------------------------------------
(* LifecycleMaintenanceService.run_once and local_lifespan *)

ExpirePass(t) ==
  /\ At(t, "expire")
  /\ \/ ExpiryDue = {} /\ UNCHANGED store
     \/ ExpireSome
  /\ Goto(t, "pending")
  /\ UNCHANGED <<answered, docker, process>>

\* pending_reset_provisioning: the old sandbox is verified absent and the
\* replacement is not under construction.
ResumableReset(a) ==
  LET row == attempts[a]
  IN  /\ row.state = "RESETTING"
      /\ {"provisioning", "reset"} \subseteq row.intents
      /\ ~Intends(a, "expiry") /\ ~Intends(a, "destroy")
      /\ VerifiedAbsent(resources[a][row.active])
      /\ resources[a][row.generation].state \in {"NONE", "REQUESTED", "READY"}

ResumableResets == {a \in Attempts : ResumableReset(a)}

ListResets(t) ==
  /\ At(t, "resume")
  /\ \/ ResumableResets = {} /\ Become(t, [Idle EXCEPT !.pc = "next"])
     \/ \E batch \in SUBSET Attempts :
          /\ TakesSoonest(Limit, ResumableResets, batch)
          /\ Become(t, [Idle EXCEPT
                          !.pc   = "next",
                          !.work = {<<a, attempts[a].generation, attempts[a].version>> :
                                      a \in batch}])
  /\ UNCHANGED <<store, answered, docker, process>>

ResumeNext(t) ==
  /\ At(t, "next")
  /\ \E receipt \in threads[t].work :
       Become(t, [Idle EXCEPT !.pc = "accept", !.a = receipt[1], !.g = receipt[2],
                              !.rv = receipt[3], !.work = threads[t].work \ {receipt}])
  /\ UNCHANGED <<store, answered, docker, process>>

\* The pass that had nothing more to resume is over; a startup pass opens the
\* listener.  The final pass of a shutdown ends the process.
PassDone(t) ==
  /\ At(t, "next") /\ threads[t].work = {}
  /\ Become(t, Idle)
  /\ server' = IF server = "starting" THEN "serving" ELSE server
  /\ UNCHANGED <<store, answered, docker, crashes>>

Start(t) ==
  /\ server = "down"
  /\ server' = "starting"
  /\ Become(t, [Idle EXCEPT !.pc = "expire"])
  /\ UNCHANGED <<store, answered, docker, crashes>>

\* The startup pass failed: the listener does not start.
StartupFails ==
  /\ server = "starting"
  /\ \A t \in Threads : At(t, "idle")
  /\ server' = "down"
  /\ UNCHANGED <<store, answered, docker, crashes, threads>>

RepeatMaintenance(t) ==
  /\ server = "serving"
  /\ \A s \in Maintainers : At(s, "idle")
  /\ Become(t, [Idle EXCEPT !.pc = "expire"])
  /\ UNCHANGED <<store, answered, docker, process>>

\* The requests are over; cancelling the maintenance task does not end a pass
\* that runs in its thread, and the final pass starts beside it.
Shutdown(t) ==
  /\ server = "serving"
  /\ \A s \in Enterers \cup Leavers : At(s, "idle")
  /\ At(t, "idle")
  /\ server' = "stopping"
  /\ Become(t, [Idle EXCEPT !.pc = "expire"])
  /\ UNCHANGED <<store, answered, docker, crashes>>

Exit ==
  /\ server = "stopping"
  /\ \A t \in Threads : At(t, "idle")
  /\ server' = "down"
  /\ UNCHANGED <<store, answered, docker, crashes, threads>>

Crash ==
  /\ server # "down"
  /\ crashes < MaxCrashes
  /\ crashes' = crashes + 1
  /\ server' = "down"
  /\ threads' = [t \in Threads |-> Idle]
  /\ UNCHANGED <<store, answered, docker>>

-----------------------------------------------------------------------------
(* The Docker daemon and the clock *)

\* A create request whose answer was lost is carried out after all.
DaemonCreates(a, g) ==
  /\ late[a][g]
  /\ late' = [late EXCEPT ![a][g] = FALSE]
  /\ containers' = IF containers[a][g] = "absent"
                   THEN [containers EXCEPT ![a][g] = "created"]
                   ELSE containers
  /\ UNCHANGED <<store, answered, process, threads>>

\* Mutant: Docker keeps the container of a sandbox whose PID 1 has ended.
ContainerStays(a, g) ==
  /\ containers[a][g] = "running"
  /\ PastDeadline(a)
  /\ SetContainer(a, g, "exited")
  /\ UNCHANGED <<store, answered, process, threads, late>>

\* PID 1 ends by the deadline and Docker removes the container by itself.
ContainerExits(a, g) ==
  /\ containers[a][g] = "running"
  /\ PastDeadline(a)
  /\ SetContainer(a, g, "absent")
  /\ UNCHANGED <<store, answered, process, threads, late>>

TimePasses == Tick /\ UNCHANGED <<answered, docker, process, threads>>

ThreadStep(t) ==
  \/ Provision(t)
  \/ LeaveFailedEntry(t)
  \/ Clean(t)
  \/ ExpirePass(t) \/ ListResets(t) \/ ResumeNext(t) \/ PassDone(t)

Request ==
  \E a \in Attempts :
    \/ \E t \in Enterers : EnterRoom(t, a)
    \/ ResetRoom(a)
    \/ \E t \in Leavers : LeaveRoom(t, a)

Lifespan ==
  \/ \E t \in Maintainers : Start(t) \/ RepeatMaintenance(t) \/ Shutdown(t)
  \/ StartupFails \/ Exit \/ Crash

Daemon == \E a \in Attempts, g \in Generations : DaemonCreates(a, g) \/ ContainerExits(a, g)

RuntimeNext ==
  \/ \E t \in Threads : ThreadStep(t)
  \/ Request
  \/ Lifespan
  \/ Daemon
  \/ TimePasses

RuntimeSpec == RuntimeInit /\ [][RuntimeNext]_runtimeVars

-----------------------------------------------------------------------------
(* Properties *)


\* Threads, containers and the log of reports have the shapes described above.
RuntimeTypeOK ==
  /\ server \in {"down", "starting", "serving", "stopping"}
  /\ crashes \in 0..MaxCrashes
  /\ \A t \in Threads : /\ threads[t].pc \in Steps
                        /\ threads[t].a \in Attempts \cup {0}
                        /\ threads[t].g \in 0..MaxGeneration
                        /\ {threads[t].v, threads[t].rv} \subseteq Nat
                        /\ threads[t].own \in BOOLEAN
                        /\ threads[t].left \in 0..Limit
                        /\ \A task \in threads[t].work : task \in Attempts \X Generations \X Nat
  /\ answered \in [Attempts -> [Generations -> SUBSET Steps]]
  /\ containers \in [Attempts -> [Generations -> {"absent", "created", "running"}]]
  /\ late \in [Attempts -> [Generations -> BOOLEAN]]

\* Every write the threads make is a step of the state store, with the versions
\* they carry from one step to the next: in particular no thread ever asks for
\* FAILED on a sandbox that was told to stop, which the store would grant.
WritesAreStoreSteps == Spec

\* At most one container of a room runs, whatever requests, cleanup, resumed
\* resets, crashes and late answers of the daemon do to each other; a sandbox
\* whose absence is on record is not running, and one that runs is on record
\* with its container, so that a restarted process finds it.
RecordsMatchContainers ==
  \A a \in Attempts, g \in Generations :
    containers[a][g] = "running" =>
      /\ resources[a][g].state \notin {"NONE", "DESTROYED"}
      /\ "container_id" \in resources[a][g].filled
      /\ \A h \in Generations : containers[a][h] = "running" => h = g

\* A room offered to its learner runs: until its deadline or a stop of its
\* sandbox, the container behind a published room is there and running.
OfferedRoomRuns ==
  \A a \in Attempts :
    LET g == attempts[a].generation
    IN  Published(a) /\ Usable(a, g) /\ ~PastDeadline(a) => containers[a][g] = "running"

\* Some thread will still see to the container it created itself: it is inside
\* the prepared operation, of which every failure ends in undo.
Minded(a, g) ==
  \E t \in Threads :
    /\ threads[t].own /\ threads[t].a = a /\ threads[t].g = g
    /\ threads[t].pc \in {"starting", "started", "start", "bootstrap", "createfailed",
                          "startfailed", "bootstrapfailed", "failreset", "undo"}

\* No container outlives its record: once the absence of a sandbox is on
\* record its container is gone or the thread that created it will remove it.
NoOrphans ==
  \A a \in Attempts, g \in Generations :
    /\ containers[a][g] # "absent"
    /\ resources[a][g].state \in {"NONE", "DESTROYED"}
    => Minded(a, g)

\* Startup only repairs: no reset in progress is failed before the listener
\* accepts requests.
StartupFailsNoReset ==
  [][server = "starting" =>
       \A a \in Attempts : attempts[a].state = "RESETTING" => attempts'[a].state # "FAILED"]_runtimeVars

(* Liveness: the threads of the process run on, a process that is down is
   started again, the maintenance loop repeats, and time passes. *)
FairRuntimeSpec ==
  /\ RuntimeSpec
  /\ WF_runtimeVars(TimePasses)
  /\ \A t \in Threads : WF_runtimeVars(ThreadStep(t))
  /\ \A t \in Maintainers : WF_runtimeVars(Start(t)) /\ WF_runtimeVars(RepeatMaintenance(t))
  /\ WF_runtimeVars(StartupFails)
  /\ WF_runtimeVars(Exit)

Vanished(a) ==
  /\ attempts[a].state = "DESTROYED"
  /\ \A g \in Generations : containers[a][g] = "absent"

\* With a reliable daemon, a room that was entered is closed and all of its
\* containers are gone in the end, wherever the process crashed or was shut
\* down on the way and whatever the learner did.
RoomsVanish == \A a \in Attempts : attempts[a].state # "NONE" ~> Vanished(a)

=============================================================================
