-------------------------- MODULE QualificationGate --------------------------
(***************************************************************************)
(* The qualification gate of the local runtime.  serve-local holds one     *)
(* report and the sentinel sandbox it is bound to, refreshes both in the   *)
(* background (qualification_gate.py) and admits a room only while the     *)
(* report qualifies the runtime.  The report comes from a collection       *)
(* (qualification_collector.py) that creates and destroys sandboxes of its *)
(* own, enters and abandons a room of its own (qualification_restart.py)   *)
(* and sweeps what a collection that died left behind.  qualify-local runs *)
(* the same collection in a process of its own; a file lock on the private *)
(* workspace keeps the two apart (qualification_workspace.py).             *)
(*                                                                         *)
(* A report that refuses, or that has run out, is no report: all three     *)
(* refuse alike.  The probe sandbox stands for the lifetime sandbox too.   *)
(* What the checks observe is not modelled: a collection may judge the     *)
(* host fit or not.                                                        *)
(***************************************************************************)
EXTENDS Integers, FiniteSets

CONSTANTS
  Sandboxes,    (* bound: collector sandboxes known at a time; their order  *)
                (* only says which unused identity comes next               *)
  Allocations,  (* threads that ask the gate for a room                     *)
  MaxAge,       (* validity of a report                                     *)
  MaxFaults     (* bound: Docker failures, crashes and changes of the host  *)

ASSUME GateAssumption ==
  /\ Sandboxes \subseteq Nat \ {0}
  /\ MaxAge \in Nat \ {0}
  /\ MaxFaults \in Nat

VARIABLES
  containers,  (* the collector sandboxes of the workspace                  *)
  late,        (* create requests the daemon has yet to carry out           *)
  image,       (* the image and host configuration of the moment            *)
  workspace,   (* who holds the lock of the workspace                       *)
  restart,     (* the state the restart scenario keeps in the workspace     *)
  room,        (* the container of the room that scenario enters            *)
  server,      (* the local runtime                                         *)
  dispatched,  (* a refresh has been handed to a thread and not begun       *)
  collection,  (* the sentinel the gate holds and its report                *)
  job,         (* the collection each process runs                          *)
  allocs,      (* what each allocation has read                             *)
  faults

host == <<containers, late, image, room>>
files == <<workspace, restart>>
gate == <<server, dispatched, collection>>
gateVars == <<host, files, gate, job, allocs, faults>>

-----------------------------------------------------------------------------
Processes == {"server", "cli"}

ContainerStates == {"absent", "created", "running"}

NoReport == [passed |-> FALSE, image |-> 0, age |-> 0]

NoCollection == [sentinel |-> 0, report |-> NoReport]

\* current: the report a refresh replaces; found: sandboxes still to sweep;
\* completed: nothing the collection needed has failed so far.
NoJob == [pc |-> "idle", current |-> 0, found |-> {}, sentinel |-> 0, probe |-> 0,
          completed |-> TRUE, report |-> NoReport]

Keeping(pc, current) == [NoJob EXCEPT !.pc = pc, !.current = current]

\* qualified remembers whether the report it read qualified the host.
NoAllocation == [pc |-> "idle", sentinel |-> 0, report |-> NoReport, qualified |-> FALSE]

GateInit ==
  /\ containers = [i \in Sandboxes |-> "absent"]
  /\ late = {}
  /\ image = 0
  /\ workspace = "free"
  /\ restart = "none"
  /\ room = "absent"
  /\ server = "down"
  /\ dispatched = FALSE
  /\ collection = NoCollection
  /\ job = [p \in Processes |-> NoJob]
  /\ allocs = [t \in Allocations |-> NoAllocation]
  /\ faults = 0

Running(i) == i # 0 /\ containers[i] = "running"

\* evaluate_qualification against the host of the moment.
Qualifies(held) == Running(held.sentinel) /\ held.report.passed /\ held.report.image = image

Fault == faults < MaxFaults /\ faults' = faults + 1

NoFault == UNCHANGED faults

At(p, pc) == job[p].pc = pc

Goto(p, pc) == job' = [job EXCEPT ![p].pc = pc]

\* collect returns or raises: only serve-local keeps the workspace.
Finish(p) ==
  /\ job' = [job EXCEPT ![p] = NoJob]
  /\ workspace' = IF p = "cli" /\ workspace = p THEN "free" ELSE workspace

\* Something the collection needs has failed: it unwinds to pc.
Abandon(p, pc) == job' = [job EXCEPT ![p].pc = pc, ![p].completed = FALSE]

SetContainer(i, state) == containers' = [containers EXCEPT ![i] = state]

Unused == {i \in Sandboxes :
             /\ containers[i] = "absent"
             /\ i \notin late
             /\ i # collection.sentinel
             /\ \A p \in Processes :
                  i \notin {job[p].current, job[p].sentinel, job[p].probe} \cup job[p].found
             /\ \A t \in Allocations : i # allocs[t].sentinel}

\* The identity the next sandbox takes, when there is one left.
NextUnused == {i \in Unused : \A j \in Unused : i <= j}

\* destroy of one exact container: it is absent, or the call failed, whether or
\* not the container went.
Destroyed(i) == SetContainer(i, "absent") /\ NoFault

DestroyFailed(i) ==
  /\ Fault
  /\ containers' \in {containers, [containers EXCEPT ![i] = "absent"]}

-----------------------------------------------------------------------------
(* CollectionWorkspace.hold and QualificationCollector.collect *)

\* qualify-local does nothing before it asks for the workspace.
Hold(p) ==
  /\ At(p, IF p = "cli" THEN "idle" ELSE "hold")
  /\ IF workspace \in {"free", p}
     THEN workspace' = p /\ Goto(p, "recover")
     ELSE Finish(p)
  /\ UNCHANGED <<host, restart, gate, allocs, faults>>

\* RestartScenario.recover: the room is cleaned up as a restarted control plane
\* would, then the state that leads to it is removed.  It is kept on failure.
Recovered ==
  /\ restart' = "none"
  /\ room' = IF restart = "bound" THEN "absent" ELSE room
  /\ NoFault

\* Mutant: the state goes although the room was not shown absent.
RecoverFailedForgetting == restart # "none" /\ restart' = "none" /\ Fault /\ UNCHANGED room

RecoverFailed ==
  /\ restart # "none"
  /\ Fault
  /\ room' \in {room, "absent"}
  /\ UNCHANGED restart

Recover(p) ==
  /\ At(p, "recover")
  /\ \/ Recovered /\ Goto(p, "list") /\ UNCHANGED workspace
     \/ RecoverFailed /\ Finish(p)
  /\ UNCHANGED <<containers, late, image, gate, allocs>>

\* Mutant: the sweep takes the sentinel in use as well.
SweptAll(p) == {i \in Sandboxes : containers[i] # "absent"}

\* Mutant: only sandboxes that still run are swept.
SweptRunning(p) == {i \in Sandboxes : containers[i] = "running"} \ {job[p].current}

\* Every sandbox with the label of this workspace but the sentinel in use.
Swept(p) == {i \in Sandboxes : containers[i] # "absent"} \ {job[p].current}

ListLeftovers(p) ==
  /\ At(p, "list")
  /\ \/ /\ job' = [job EXCEPT ![p].pc = "sweep", ![p].found = Swept(p)]
        /\ NoFault
        /\ UNCHANGED workspace
     \/ Fault /\ Finish(p)
  /\ UNCHANGED <<host, restart, gate, allocs>>

Sweep(p) ==
  /\ At(p, "sweep")
  /\ \/ \E i \in job[p].found :
          \/ /\ Destroyed(i)
             /\ job' = [job EXCEPT ![p].found = @ \ {i}]
             /\ UNCHANGED workspace
          \/ DestroyFailed(i) /\ Finish(p)
     \/ /\ job[p].found = {}
        /\ Goto(p, "sentinel")
        /\ UNCHANGED <<containers, workspace, faults>>
  /\ UNCHANGED <<late, image, room, restart, gate, allocs>>

\* create_verified: a failure leaves nothing, or a container that its own
\* clean-up failed to remove, or a request that is still to be carried out.
CreateSandbox(p, i, pc, failed) ==
  \/ /\ SetContainer(i, "created")
     /\ job' = [job EXCEPT ![p].pc = pc,
                           ![p].sentinel = IF At(p, "sentinel") THEN i ELSE @,
                           ![p].probe = IF At(p, "probe") THEN i ELSE @]
     /\ NoFault
     /\ UNCHANGED <<late, workspace>>
  \/ /\ Fault
     /\ \/ containers' = containers /\ UNCHANGED late
        \/ SetContainer(i, "created") /\ UNCHANGED late
        \/ late' = late \cup {i} /\ UNCHANGED containers
     /\ failed

\* start_verified: on failure prepare destroys what it created, best effort.
StartSandbox(p, i, pc, failed) ==
  \/ /\ containers[i] = "created"
     /\ SetContainer(i, "running")
     /\ Goto(p, pc)
     /\ NoFault
     /\ UNCHANGED workspace
  \/ /\ Fault
     /\ \E state \in ContainerStates : SetContainer(i, state)
     /\ failed

CreateSentinel(p) ==
  /\ At(p, "sentinel")
  /\ \E i \in NextUnused : CreateSandbox(p, i, "startsentinel", Finish(p))
  /\ UNCHANGED <<image, room, restart, gate, allocs>>

StartSentinel(p) ==
  /\ At(p, "startsentinel")
  /\ StartSandbox(p, job[p].sentinel, "epoch", Finish(p))
  /\ UNCHANGED <<late, image, room, restart, gate, allocs>>

\* The start time of the sentinel is half of the daemon epoch.
ReadEpoch(p) ==
  /\ At(p, "epoch")
  /\ \/ Running(job[p].sentinel) /\ Goto(p, "enter") /\ NoFault
     \/ ~Running(job[p].sentinel) /\ Abandon(p, "dropsentinel") /\ NoFault
     \/ Fault /\ Abandon(p, "dropsentinel")
  /\ UNCHANGED <<host, files, gate, allocs>>

\* RestartScenario.begin, which never raises: a directory, then the binding of
\* the room, then the room.
EnterRestart(p) ==
  /\ At(p, "enter")
  /\ restart' = "made"
  /\ Goto(p, "bind")
  /\ UNCHANGED <<host, workspace, gate, allocs, faults>>

BindRestart(p) ==
  /\ At(p, "bind")
  /\ \/ restart' = "bound" /\ Goto(p, "room") /\ NoFault
     \/ Fault /\ Goto(p, "probe") /\ UNCHANGED restart
  /\ UNCHANGED <<host, workspace, gate, allocs>>

EnterScenarioRoom(p) ==
  /\ At(p, "room")
  /\ \/ room' = "running" /\ NoFault
     \/ Fault /\ room' \in ContainerStates
  /\ Goto(p, "probe")
  /\ UNCHANGED <<containers, late, image, files, gate, allocs>>

CreateProbe(p) ==
  /\ At(p, "probe")
  /\ \E i \in NextUnused :
       CreateSandbox(p, i, "startprobe", Abandon(p, "finish") /\ UNCHANGED workspace)
  /\ UNCHANGED <<image, room, restart, gate, allocs>>

StartProbe(p) ==
  /\ At(p, "startprobe")
  /\ StartSandbox(p, job[p].probe, "judge", Abandon(p, "finish") /\ UNCHANGED workspace)
  /\ UNCHANGED <<late, image, room, restart, gate, allocs>>

\* The probe runs and the checks are judged: this dates the report.
Judge(p) ==
  /\ At(p, "judge")
  /\ \/ /\ Running(job[p].probe)
        /\ \E report \in {NoReport, [passed |-> TRUE, image |-> image, age |-> 0]} :
             job' = [job EXCEPT ![p].pc = "dropprobe", ![p].report = report]
        /\ NoFault
     \/ /\ (~Running(job[p].probe) /\ NoFault) \/ Fault
        /\ Abandon(p, "dropprobe")
  /\ UNCHANGED <<host, files, gate, allocs>>

DropProbe(p) ==
  /\ At(p, "dropprobe")
  /\ \/ Destroyed(job[p].probe) /\ job' = [job EXCEPT ![p].pc = "finish", ![p].probe = 0]
     \/ DestroyFailed(job[p].probe) /\ Abandon(p, "finish")
  /\ UNCHANGED <<late, image, room, files, gate, allocs>>

\* The cleanup of the abandoned room is one more check of the report.
FinishRestart(p) ==
  /\ At(p, "finish")
  /\ \/ /\ Recovered
        /\ \E report \in {NoReport, job[p].report} :
             job' = [job EXCEPT ![p].pc = "assemble", ![p].report = report]
     \/ RecoverFailed /\ Abandon(p, "assemble")
  /\ UNCHANGED <<containers, late, image, workspace, gate, allocs>>

\* A complete collection of serve-local keeps its sentinel; output that cannot
\* be read is no collection.
Assemble(p) ==
  /\ At(p, "assemble")
  /\ \/ p = "server" /\ job[p].completed /\ Goto(p, "swap") /\ NoFault
     \/ (p = "cli" \/ ~job[p].completed) /\ Goto(p, "dropsentinel") /\ NoFault
     \/ Fault /\ Goto(p, "dropsentinel")
  /\ UNCHANGED <<host, files, gate, allocs>>

DropSentinel(p) ==
  /\ At(p, "dropsentinel")
  /\ (Destroyed(job[p].sentinel) \/ DestroyFailed(job[p].sentinel))
  /\ Finish(p)
  /\ UNCHANGED <<late, image, room, restart, gate, allocs>>

Collect(p) ==
  \/ Hold(p) \/ Recover(p) \/ ListLeftovers(p) \/ Sweep(p)
  \/ CreateSentinel(p) \/ StartSentinel(p) \/ ReadEpoch(p)
  \/ EnterRestart(p) \/ BindRestart(p) \/ EnterScenarioRoom(p)
  \/ CreateProbe(p) \/ StartProbe(p) \/ Judge(p) \/ DropProbe(p)
  \/ FinishRestart(p) \/ Assemble(p) \/ DropSentinel(p)

-----------------------------------------------------------------------------
(* QualificationGate.refresh and close *)

\* refresh_due: missing, refused or half as old as its validity; a runtime that
\* cannot be read refuses the report.
RefreshDue ==
  ~Qualifies(collection) \/ 2 * collection.report.age >= MaxAge

\* The loop awaits each refresh before the next.
DispatchRefresh ==
  /\ server = "serving"
  /\ At("server", "idle")
  /\ ~dispatched
  /\ \/ RefreshDue /\ NoFault
     \/ Fault
  /\ dispatched' = TRUE
  /\ UNCHANGED <<host, files, server, collection, job, allocs>>

\* Mutant: a refresh that was waiting for close to end begins all the same.
BeginRefreshAnyway ==
  /\ dispatched /\ At("server", "idle")
  /\ dispatched' = FALSE
  /\ job' = [job EXCEPT !["server"] = Keeping("hold", collection.sentinel)]
  /\ UNCHANGED <<host, files, server, collection, allocs, faults>>

\* One collection at a time, and none once the gate is closed.
BeginRefresh ==
  /\ dispatched /\ At("server", "idle")
  /\ dispatched' = FALSE
  /\ IF server = "closed"
     THEN UNCHANGED job
     ELSE job' = [job EXCEPT !["server"] = Keeping("hold", collection.sentinel)]
  /\ UNCHANGED <<host, files, server, collection, allocs, faults>>

\* Mutant: the sentinel of the collection is forgotten once it is swapped out.
SwapUntyped ==
  /\ At("server", "swap")
  /\ collection' = [sentinel |-> job["server"].sentinel, report |-> job["server"].report]
  /\ job' = [job EXCEPT !["server"] = Keeping("retire", @.current)]
  /\ UNCHANGED <<host, files, server, dispatched, allocs, faults>>

\* Report and sentinel change at once; the old sentinel goes after that.
Swap ==
  /\ At("server", "swap")
  /\ collection' = [sentinel |-> job["server"].sentinel, report |-> job["server"].report]
  /\ job' = [job EXCEPT !["server"] =
               IF @.current = 0 THEN NoJob ELSE Keeping("retire", @.current)]
  /\ UNCHANGED <<host, files, server, dispatched, allocs, faults>>

\* A sentinel that cannot be removed is left to the next sweep.
Retire ==
  LET i == job["server"].current
  IN  /\ At("server", "retire")
      /\ (Destroyed(i) \/ DestroyFailed(i))
      /\ job' = [job EXCEPT !["server"] = NoJob]
      /\ UNCHANGED <<late, image, room, files, gate, allocs>>

\* Mutant: the workspace is released before the sentinel is retired.
CloseReleasing ==
  /\ server = "stopping" /\ At("server", "idle")
  /\ server' = "closed"
  /\ job' = [job EXCEPT !["server"] = Keeping("close", collection.sentinel)]
  /\ collection' = NoCollection
  /\ workspace' = IF workspace = "server" THEN "free" ELSE workspace
  /\ UNCHANGED <<host, restart, dispatched, allocs, faults>>

\* close waits for a running refresh.
Close ==
  /\ server = "stopping" /\ At("server", "idle")
  /\ server' = "closed"
  /\ job' = [job EXCEPT !["server"] = Keeping("close", collection.sentinel)]
  /\ collection' = NoCollection
  /\ UNCHANGED <<host, files, dispatched, allocs, faults>>

\* The sentinel goes before the workspace is released.
Release ==
  LET i == job["server"].current
  IN  /\ At("server", "close")
      /\ \/ i = 0 /\ UNCHANGED <<containers, faults>>
         \/ i # 0 /\ (Destroyed(i) \/ DestroyFailed(i))
      /\ job' = [job EXCEPT !["server"] = NoJob]
      /\ workspace' = IF workspace = "server" THEN "free" ELSE workspace
      /\ UNCHANGED <<late, image, room, restart, gate, allocs>>

-----------------------------------------------------------------------------
(* QualificationGate.require before a room is opened *)

AtAlloc(t, pc) == allocs[t].pc = pc

AllocationReads == UNCHANGED <<host, files, gate, job>>

Ask(t) ==
  /\ AtAlloc(t, "idle")
  /\ collection # NoCollection
  /\ allocs' = [allocs EXCEPT ![t] = [NoAllocation EXCEPT !.pc = "runtime",
                                                          !.sentinel = collection.sentinel,
                                                          !.report = collection.report]]
  /\ AllocationReads
  /\ NoFault

\* Any failure to read the runtime refuses the room.
Refuse(t) ==
  /\ allocs' = [allocs EXCEPT ![t] = NoAllocation]
  /\ AllocationReads
  /\ \/ allocs[t].pc \in {"runtime", "image"} /\ Fault
     \/ AtAlloc(t, "runtime") /\ ~Running(allocs[t].sentinel) /\ NoFault
     \/ /\ AtAlloc(t, "image")
        /\ ~(allocs[t].report.passed /\ allocs[t].report.image = image)
        /\ NoFault

\* Mutant: the sentinel is not looked at.
ReadRuntimeUnseen(t) ==
  /\ AtAlloc(t, "runtime")
  /\ allocs' = [allocs EXCEPT ![t].pc = "image", ![t].sentinel = 0,
                              ![t].qualified = Qualifies(allocs[t])]
  /\ AllocationReads
  /\ NoFault

\* The sentinel is inspected, then the boot and device identity are read inside
\* it: it never starts again, so it ran for both if it runs for the second.
ReadRuntime(t) ==
  /\ AtAlloc(t, "runtime")
  /\ Running(allocs[t].sentinel)
  /\ allocs' = [allocs EXCEPT ![t].pc = "image", ![t].sentinel = 0,
                              ![t].qualified = Qualifies(allocs[t])]
  /\ AllocationReads
  /\ NoFault

\* The image is inspected and the report judged; the room may be prepared.
Admit(t) ==
  /\ AtAlloc(t, "image")
  /\ allocs[t].report.passed
  /\ allocs[t].report.image = image
  /\ allocs' = [allocs EXCEPT ![t] = NoAllocation]
  /\ AllocationReads
  /\ NoFault

Allocate(t) ==
  \/ Ask(t) \/ Refuse(t) \/ ReadRuntime(t) \/ Admit(t)

-----------------------------------------------------------------------------
(* Processes, the daemon and time *)

StartServer ==
  /\ server = "down"
  /\ server' = "serving"
  /\ dispatched' = TRUE
  /\ UNCHANGED <<host, files, collection, job, allocs, faults>>

StopServer ==
  /\ server = "serving"
  /\ server' = "stopping"
  /\ UNCHANGED <<host, files, dispatched, collection, job, allocs, faults>>

\* The process is gone: the kernel releases its lock, the containers stay.
Gone(p, state) ==
  /\ job' = [job EXCEPT ![p] = NoJob]
  /\ workspace' = IF workspace = p THEN "free" ELSE workspace
  /\ IF p = "server"
     THEN /\ server' = state
          /\ dispatched' = FALSE
          /\ collection' = NoCollection
          /\ allocs' = [t \in Allocations |-> NoAllocation]
     ELSE UNCHANGED <<gate, allocs>>
  /\ UNCHANGED <<host, restart>>

\* A runtime that was stopped is not started again: that is the initial state.
Exit ==
  /\ server = "closed" /\ At("server", "idle") /\ ~dispatched
  /\ \A t \in Allocations : AtAlloc(t, "idle")
  /\ Gone("server", "exited")
  /\ NoFault

Crash(p) ==
  /\ IF p = "server" THEN server \notin {"down", "exited"} ELSE ~At(p, "idle")
  /\ Fault
  /\ Gone(p, "down")

DaemonCreates(i) ==
  /\ i \in late
  /\ late' = late \ {i}
  /\ SetContainer(i, "created")
  /\ UNCHANGED <<image, room, files, gate, job, allocs, faults>>

\* PID 1 ends, at the latest when it has run its time, and Docker removes the
\* container.
SandboxExits(i) ==
  /\ Running(i)
  /\ SetContainer(i, "absent")
  /\ UNCHANGED <<late, image, room, files, gate, job, allocs, faults>>

RoomExits ==
  /\ room = "running"
  /\ room' = "absent"
  /\ UNCHANGED <<containers, late, image, files, gate, job, allocs, faults>>

\* A restart of the daemon ends every container it runs.
DaemonRestarts ==
  /\ Fault
  /\ containers' = [i \in Sandboxes |-> IF Running(i) THEN "absent" ELSE containers[i]]
  /\ room' = IF room = "running" THEN "absent" ELSE room
  /\ UNCHANGED <<late, image, files, gate, job, allocs>>

HostChanges ==
  /\ Fault
  /\ image' = image + 1
  /\ UNCHANGED <<containers, late, room, files, gate, job, allocs>>

Older(report) ==
  IF report.passed /\ report.age + 1 < MaxAge THEN [report EXCEPT !.age = @ + 1] ELSE NoReport

TimePasses ==
  /\ collection' = [collection EXCEPT !.report = Older(@)]
  /\ job' = [p \in Processes |-> [job[p] EXCEPT !.report = Older(@)]]
  /\ allocs' = [t \in Allocations |-> [allocs[t] EXCEPT !.report = Older(@)]]
  /\ UNCHANGED <<host, files, server, dispatched, faults>>

ServerStep ==
  \/ BeginRefresh \/ Swap \/ Retire \/ Close \/ Release

GateNext ==
  \/ \E p \in Processes : Collect(p) \/ Crash(p)
  \/ ServerStep
  \/ DispatchRefresh
  \/ \E t \in Allocations : Allocate(t)
  \/ StartServer \/ StopServer \/ Exit
  \/ \E i \in Sandboxes : DaemonCreates(i) \/ SandboxExits(i)
  \/ RoomExits \/ DaemonRestarts \/ HostChanges
  \/ TimePasses

GateSpec == GateInit /\ [][GateNext]_gateVars

\* The collector and an allocation have threads of their own, the loop is a task,
\* the daemon works off what it was sent and PID 1 counts its time.
FairGateSpec ==
  /\ GateSpec
  /\ \A p \in Processes : WF_gateVars(~At(p, "idle") /\ Collect(p))
  /\ WF_gateVars(ServerStep)
  /\ WF_gateVars(DispatchRefresh)
  /\ \A t \in Allocations : WF_gateVars(Allocate(t))
  /\ WF_gateVars(TimePasses)
  /\ WF_gateVars(\E i \in Sandboxes : DaemonCreates(i) \/ SandboxExits(i))

-----------------------------------------------------------------------------
(* Properties *)

Report == [passed : BOOLEAN, image : 0 .. MaxFaults, age : 0 .. MaxAge - 1]

\* Every variable keeps the kind of value the code keeps in it.
GateTypeOK ==
  /\ containers \in [Sandboxes -> ContainerStates]
  /\ late \subseteq Sandboxes
  /\ image \in 0 .. MaxFaults
  /\ workspace \in Processes \cup {"free"}
  /\ restart \in {"none", "made", "bound"}
  /\ room \in ContainerStates
  /\ server \in {"down", "serving", "stopping", "closed", "exited"}
  /\ dispatched \in BOOLEAN
  /\ collection \in [sentinel : Sandboxes \cup {0}, report : Report]
  /\ \A p \in Processes :
       /\ {job[p].current, job[p].sentinel, job[p].probe} \subseteq Sandboxes \cup {0}
       /\ job[p].found \subseteq Sandboxes
       /\ job[p].report \in Report
       /\ job[p].pc = "retire" => job[p].current # 0
  /\ \A t \in Allocations :
       allocs[t].sentinel \in Sandboxes \cup {0} /\ allocs[t].report \in Report
  /\ faults \in 0 .. MaxFaults

\* The sandboxes a process counts on: those of its collection, the sentinel its
\* report is bound to and the one it is replacing.
InUse(p) ==
  ({job[p].current, job[p].sentinel, job[p].probe}
     \cup (IF p = "server" THEN {collection.sentinel} ELSE {})) \ {0}

\* Whoever counts on a sandbox holds the lock of the workspace, from before the
\* sandbox is created until after it was destroyed, whatever the other process
\* does and whoever crashed before: this is what makes everything else a sweep
\* finds a leftover.
WorkspaceIsHeld ==
  \A p \in Processes : InUse(p) # {} => workspace = p

ProgramStep ==
  \/ \E p \in Processes : Collect(p)
  \/ ServerStep \/ DispatchRefresh
  \/ \E t \in Allocations : Allocate(t)

\* When no new collection completes, the current report stays: whatever a
\* collection of either process creates, sweeps, destroys or fails at, a report
\* that admits rooms goes on admitting them until it expires, the host changes
\* or its sentinel ends.
CurrentReportStands ==
  [][ProgramStep /\ Qualifies(collection) /\ collection' = collection
       => Qualifies(collection)']_gateVars

\* After close no refresh runs and nothing of the collections is left: without a
\* failure every sandbox, the room of the restart scenario and its state are
\* gone, although a refresh may have been running, or about to run, when the
\* runtime was told to stop.
ClosedLeavesNothing ==
  server = "closed" /\ (\A p \in Processes : At(p, "idle")) /\ faults = 0 =>
    /\ \A i \in Sandboxes : containers[i] = "absent"
    /\ room = "absent" /\ restart = "none"
    /\ workspace = "free"

\* A room is admitted only if there was a moment, after it was asked for, at
\* which the report read first qualified the host: the reads of one decision are
\* spread over a refresh, a restart of the daemon and a change of the image.
AdmissionIsFresh ==
  [][\A t \in Allocations : Admit(t) => allocs[t].qualified]_gateVars

\* The room of the restart scenario runs only while the state that leads to it
\* is kept: whoever crashes, the next collection finds it.
RoomIsTraceable == room = "running" => restart = "bound"

Abandoned(i) ==
  /\ containers[i] # "absent"
  /\ \A p \in Processes : i \notin InUse(p)

\* While the runtime serves, the sandboxes that failed or crashed collections left
\* behind, or that the daemon created after their requests had been given up, go:
\* sooner or later none is left, or the runtime stops.
AbandonedGoes ==
  (\E i \in Sandboxes : Abandoned(i))
    ~> ((\A i \in Sandboxes : ~Abandoned(i)) \/ server # "serving")
=============================================================================
