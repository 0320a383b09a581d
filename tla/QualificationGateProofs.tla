---------------------- MODULE QualificationGateProofs ----------------------
(***************************************************************************)
(* The qualification gate, for any number of sandboxes, allocations and    *)
(* faults: who counts on a sandbox holds the workspace, the report in use  *)
(* stands, an admission is fresh, and a closed gate leaves nothing behind. *)
(*                                                                         *)
(* All of it comes from one discipline: a process is at a step of a        *)
(* collection only while it holds the lock of the workspace.  The          *)
(* invariant has two parts.  Ownership says, step by step, what a          *)
(* collection holds at that step and how that fits what the gate and the   *)
(* allocations hold.  Leftovers says what a collection leaves in the       *)
(* workspace and in Docker at that step, and that nothing is lost until    *)
(* something has failed.                                                   *)
(***************************************************************************)
EXTENDS QualificationGate, TLAPS

-----------------------------------------------------------------------------
(* The steps of a collection, by what it holds there *)

Sweeping == {"recover", "list", "sweep", "sentinel"}
Starting == {"startsentinel", "epoch", "enter", "bind", "room", "probe"}
Probing  == {"startprobe", "judge", "dropprobe"}
Ending   == {"finish", "assemble", "swap", "dropsentinel"}
Working  == Sweeping \cup Starting \cup Probing \cup Ending
Steps    == Working \cup {"idle", "hold", "retire", "close"}

\* Where no state of a restart scenario is kept, where some is, and where a
\* scenario is under way.
Unentered == {"list", "sweep", "sentinel", "startsentinel", "epoch", "enter"}
Entered   == {"probe", "finish"} \cup Probing
Underway  == {"bind", "room"} \cup Entered

AnyReport == [passed : BOOLEAN, image : Nat, age : 0 .. MaxAge - 1]

Job == [pc        : Steps,
        current   : Sandboxes \cup {0},
        found     : SUBSET Sandboxes,
        sentinel  : Sandboxes \cup {0},
        probe     : Sandboxes \cup {0},
        completed : BOOLEAN,
        report    : AnyReport]

Allocation == [pc        : {"idle", "runtime", "image"},
               sentinel  : Sandboxes \cup {0},
               report    : AnyReport,
               qualified : BOOLEAN]

-----------------------------------------------------------------------------
(* Ownership *)

OwnershipTypes ==
  /\ image \in Nat
  /\ workspace \in Processes \cup {"free"}
  /\ server \in {"down", "serving", "stopping", "closed", "exited"}
  /\ dispatched \in BOOLEAN
  /\ collection \in [sentinel : Sandboxes \cup {0}, report : AnyReport]
  /\ job \in [Processes -> Job]
  /\ allocs \in [Allocations -> Allocation]

\* What a collection holds at its step.
JobShape(j) ==
  /\ j.pc = "idle" => j = NoJob
  /\ j.pc \in Sweeping \cup {"hold", "retire", "close"} => j.sentinel = 0 /\ j.probe = 0
  /\ j.pc \in Starting => j.sentinel # 0 /\ j.probe = 0
  /\ j.pc \in Probing => j.sentinel # 0 /\ j.probe # 0
  /\ j.pc \in Ending => j.sentinel # 0
  /\ j.pc # "sweep" => j.found = {}
  /\ j.current \notin j.found
  /\ j.pc = "retire" => j.current # 0
  /\ j.sentinel # 0 => j.sentinel # j.current
  /\ j.probe # 0 => j.probe # j.current

JobsOK ==
  \A p \in Processes :
    /\ JobShape(job[p])
    /\ job[p].pc \in Working \cup {"retire"} => workspace = p

\* The sentinel the gate holds is the one a refresh replaces, until it is swapped
\* out, and no collection takes it for one of its own; qualify-local holds none.
SentinelOK ==
  /\ collection.sentinel # 0 => workspace = "server" /\ server \in {"serving", "stopping"}
  /\ job["server"].pc \in Working \cup {"hold"} => job["server"].current = collection.sentinel
  /\ At("server", "retire") => job["server"].current # collection.sentinel
  /\ job["server"].current # 0 => workspace = "server"
  /\ collection.sentinel # 0 =>
       \A p \in Processes :
         collection.sentinel \notin {job[p].sentinel, job[p].probe} \cup job[p].found
  /\ job["cli"].current = 0
  /\ job["cli"].pc \in Working \cup {"idle"}
  /\ At("cli", "idle") => workspace # "cli"

\* What the stage of the local runtime says of its collection.
ServerOK ==
  /\ server = "closed" =>
       /\ job["server"].pc \in {"close", "idle"}
       /\ collection = NoCollection
       /\ At("server", "idle") => workspace # "server"
  /\ server \in {"down", "exited"} =>
       /\ At("server", "idle") /\ workspace # "server"
       /\ collection = NoCollection /\ ~dispatched
  /\ At("server", "close") => server = "closed"

\* A report names an image the host has had, so that an image which has been
\* replaced never matches again.
ReportsOK ==
  /\ collection.report.image <= image
  /\ \A p \in Processes : job[p].report.image <= image
  /\ \A t \in Allocations :
       /\ allocs[t].report.image <= image
       /\ AtAlloc(t, "image") /\ allocs[t].report.passed /\ allocs[t].report.image = image
            => allocs[t].qualified

Ownership == OwnershipTypes /\ JobsOK /\ SentinelOK /\ ServerOK /\ ReportsOK

ownershipVars == <<image, workspace, gate, job, allocs>>

-----------------------------------------------------------------------------
(* Leftovers *)

HostTypes ==
  /\ containers \in [Sandboxes -> ContainerStates]
  /\ late \subseteq Sandboxes
  /\ restart \in {"none", "made", "bound"}
  /\ room \in ContainerStates
  /\ faults \in 0 .. MaxFaults
  /\ image <= faults

\* The state the restart scenario keeps while a collection is at a step.
RestartFits(pc, kept) ==
  /\ pc \in Unentered => kept = "none"
  /\ pc = "bind" => kept = "made"
  /\ pc = "room" => kept = "bound"
  /\ pc \in Entered => kept # "none"

\* Until something has failed, every sandbox is somebody's, and so are the room of
\* the restart scenario and its state.
NothingLost ==
  faults = 0 =>
    /\ late = {}
    /\ room # "created"
    /\ \A i \in Sandboxes :
         containers[i] # "absent" => \E p \in Processes : i \in InUse(p)
    /\ restart # "none" => \E p \in Processes : job[p].pc \in Underway
    /\ \A p \in Processes : job[p].probe # 0 => job[p].pc \in Probing

Leftovers ==
  /\ HostTypes
  /\ \A p \in Processes : RestartFits(job[p].pc, restart)
  /\ RoomIsTraceable
  /\ NothingLost

GateInv == Ownership /\ Leftovers

LEMMA InitHolds == GateInit => GateInv
<1> SUFFICES ASSUME GateInit PROVE GateInv
  OBVIOUS
<1> USE GateAssumption DEF GateInit, NoJob, NoReport, NoCollection, NoAllocation,
        Processes, ContainerStates, AnyReport, At, AtAlloc, Steps
<1>1. NoJob \in Job /\ JobShape(NoJob) /\ NoAllocation \in Allocation
  BY DEF Job, JobShape, Allocation, Sweeping, Starting, Probing, Ending, Working
<1>2. Ownership
  <2>1. OwnershipTypes
    <3>1. NoReport \in AnyReport
      OBVIOUS
    <3> QED  BY <1>1, <3>1 DEF OwnershipTypes
  <2>2. JobsOK
    BY <1>1 DEF JobsOK, Working, Sweeping, Starting, Probing, Ending
  <2>3. SentinelOK /\ ServerOK
    BY DEF SentinelOK, ServerOK, Working, Sweeping, Starting, Probing, Ending
  <2>4. ReportsOK
    BY DEF ReportsOK
  <2> QED  BY <2>1, <2>2, <2>3, <2>4 DEF Ownership
<1>3. Leftovers
  BY DEF Leftovers, HostTypes, RestartFits, Unentered, Entered, Probing,
         RoomIsTraceable, NothingLost
<1> QED  BY <1>2, <1>3 DEF GateInv

-----------------------------------------------------------------------------
(* What keeps Ownership *)

\* Two collections are never under way at once.
LEMMA OneCollection ==
  ASSUME Ownership, NEW p \in Processes, NEW q \in Processes,
         job[p].pc \in Working, job[q].pc \in Working
  PROVE  p = q
BY DEF Ownership, JobsOK

LEMMA OwnershipUntouched ==
  ASSUME Ownership, UNCHANGED ownershipVars
  PROVE  Ownership'
<1> USE DEF ownershipVars, gate
<1>1. OwnershipTypes'
  BY DEF Ownership, OwnershipTypes
<1>2. JobsOK'
  BY DEF Ownership, JobsOK
<1>3. SentinelOK' /\ ServerOK'
  BY DEF Ownership, SentinelOK, ServerOK, At
<1>4. ReportsOK'
  BY DEF Ownership, ReportsOK, AtAlloc
<1> QED  BY <1>1, <1>2, <1>3, <1>4 DEF Ownership

\* A collection goes from one of its steps to another: it keeps the sentinel it
\* replaces, and takes none that the gate holds.
Advances(p) ==
  /\ job[p].pc \in Working
  /\ job' = [job EXCEPT ![p] = job'[p]]
  /\ job'[p] \in Job
  /\ job'[p].pc \in Working
  /\ JobShape(job'[p])
  /\ job'[p].current = job[p].current
  /\ job'[p].report.image <= image
  /\ collection.sentinel # 0 =>
       collection.sentinel \notin {job'[p].sentinel, job'[p].probe} \cup job'[p].found
  /\ UNCHANGED <<image, workspace, gate, allocs>>

LEMMA AdvanceKeeps ==
  ASSUME Ownership, NEW p \in Processes, Advances(p)
  PROVE  Ownership'
<1> USE DEF Advances, Ownership, gate
<1>1. /\ \A q \in Processes : q # p => job'[q] = job[q]
      /\ job' \in [Processes -> Job]
  BY DEF OwnershipTypes
<1>2. OwnershipTypes'
  BY <1>1 DEF OwnershipTypes
<1>3. JobsOK'
  BY <1>1 DEF JobsOK
<1>4. SentinelOK'
  BY <1>1 DEF SentinelOK, JobsOK, At, Processes, Working, Sweeping, Starting, Probing, Ending
<1>5. ServerOK'
  BY <1>1 DEF ServerOK, At, Processes, Working, Sweeping, Starting, Probing, Ending
<1>6. ReportsOK'
  BY <1>1 DEF ReportsOK, AtAlloc
<1> QED  BY <1>2, <1>3, <1>4, <1>5, <1>6

\* A collection ends: what it held is the gate's or nobody's.
LEMMA FinishKeeps ==
  ASSUME Ownership, NEW p \in Processes, Finish(p),
         job[p].pc \in Working \/ At("server", "hold") \/ (p = "cli" /\ At("cli", "idle")),
         p = "server" => ~At("server", "idle"),
         UNCHANGED <<image, gate, allocs>>
  PROVE  Ownership'
<1> USE DEF Ownership, Finish, gate
<1>1. /\ \A q \in Processes : q # p => job'[q] = job[q]
      /\ job'[p] = NoJob
  BY DEF OwnershipTypes
<1>2. NoJob \in Job /\ JobShape(NoJob)
  BY GateAssumption DEF Job, JobShape, NoJob, NoReport, AnyReport, Sweeping, Starting,
         Probing, Ending, Working, Steps
<1>3. OwnershipTypes'
  BY <1>2 DEF OwnershipTypes
<1>4. JobsOK'
  BY <1>1, <1>2 DEF JobsOK, OwnershipTypes, NoJob, Processes, Working, Sweeping, Starting,
         Probing, Ending
<1>5. SentinelOK'
  BY <1>1 DEF SentinelOK, OwnershipTypes, NoJob, At, Processes, Working, Sweeping, Starting,
         Probing, Ending
<1>6. ServerOK'
  BY <1>1 DEF ServerOK, NoJob, At, Processes, Working, Sweeping, Starting, Probing, Ending
<1>7. ReportsOK'
  BY <1>1 DEF ReportsOK, OwnershipTypes, AtAlloc, NoJob, NoReport
<1> QED  BY <1>3, <1>4, <1>5, <1>6, <1>7

-----------------------------------------------------------------------------
(* What keeps Leftovers *)

\* A failure is no reason to look for what it has lost.
LEMMA FaultLoses ==
  ASSUME GateInv, Fault
  PROVE  NothingLost'
BY DEF GateInv, Leftovers, HostTypes, Fault, NothingLost

\* Only the collection under way touches the state of the restart scenario.
LEMMA RestartKept ==
  ASSUME GateInv, NEW p \in Processes, job[p].pc \in Working,
         job' = [job EXCEPT ![p] = job'[p]],
         RestartFits(job'[p].pc, restart')
  PROVE  \A q \in Processes : RestartFits(job'[q].pc, restart')
<1> SUFFICES ASSUME NEW q \in Processes, q # p
             PROVE  RestartFits(job'[q].pc, restart')
  OBVIOUS
<1>1. job'[q] = job[q] /\ job[q].pc \notin Working
  BY OneCollection DEF GateInv, Ownership, OwnershipTypes
<1> QED
  BY <1>1 DEF RestartFits, Unentered, Entered, Working, Sweeping, Starting, Probing, Ending

\* A collection that ends leaves the state of the scenario as it is.
LEMMA RestartLeft ==
  ASSUME GateInv, NEW p \in Processes, job' = [job EXCEPT ![p] = NoJob],
         UNCHANGED restart
  PROVE  \A q \in Processes : RestartFits(job'[q].pc, restart')
BY DEF GateInv, Ownership, OwnershipTypes, Leftovers, RestartFits, Unentered, Entered,
       Probing, NoJob

\* Steps that leave the host and the collections alone.
LEMMA LeftoversUntouched ==
  ASSUME Leftovers, UNCHANGED <<host, restart, faults, job, collection>>
  PROVE  Leftovers'
BY DEF Leftovers, host, HostTypes, RoomIsTraceable, NothingLost, InUse

-----------------------------------------------------------------------------
(* The steps of a collection *)

\* A collection that goes on with what it holds.
LEMMA StepAdvances ==
  ASSUME Ownership, NEW p \in Processes, job[p].pc \in Working,
         NEW pc \in Working, Goto(p, pc) \/ Abandon(p, pc),
         JobShape([job[p] EXCEPT !.pc = pc]),
         UNCHANGED <<image, workspace, gate, allocs>>
  PROVE  /\ Advances(p)
         /\ job'[p].pc = pc
         /\ \A q \in Processes : InUse(q)' = InUse(q)
         /\ job'[p].probe = job[p].probe
<1> USE DEF Ownership, OwnershipTypes
<1>1. job[p] \in Job /\ pc \in Steps
  BY DEF Working, Steps
<1>2. /\ job' = [job EXCEPT ![p] = job'[p]]
      /\ job'[p] \in Job
      /\ job'[p].pc = pc
      /\ job'[p].current = job[p].current /\ job'[p].found = job[p].found
      /\ job'[p].sentinel = job[p].sentinel /\ job'[p].probe = job[p].probe
      /\ job'[p].report = job[p].report
  <2>1. CASE Goto(p, pc)
    <3>1. job' = [job EXCEPT ![p] = [job[p] EXCEPT !.pc = pc]]
      BY <2>1 DEF Goto
    <3> QED  BY <1>1, <3>1 DEF Job
  <2>2. CASE Abandon(p, pc)
    <3>1. job' = [job EXCEPT ![p] = [job[p] EXCEPT !.pc = pc, !.completed = FALSE]]
      BY <2>2 DEF Abandon
    <3> QED  BY <1>1, <3>1 DEF Job
  <2> QED  BY <2>1, <2>2
<1>3. JobShape(job'[p])
  BY <1>2 DEF JobShape, Job, NoJob, Working, Sweeping, Starting, Probing, Ending
<1>4. Advances(p)
  BY <1>2, <1>3 DEF Advances, ReportsOK, SentinelOK
<1>5. \A q \in Processes : InUse(q)' = InUse(q)
  BY <1>2 DEF InUse, gate
<1> QED  BY <1>2, <1>4, <1>5

LEMMA HoldKeeps ==
  ASSUME GateInv, NEW p \in Processes, Hold(p)
  PROVE  GateInv'
<1> USE DEF GateInv, Hold
<1>1. CASE workspace \in {"free", p}
  <2>1. /\ job' = [job EXCEPT ![p] = [job[p] EXCEPT !.pc = "recover"]]
        /\ job[p] \in Job /\ job'[p] \in Job
    BY <1>1 DEF Goto, Ownership, OwnershipTypes, Job, Steps, Working, Sweeping
  <2>2. Ownership'
    <3>1. OwnershipTypes'
      BY <1>1, <2>1 DEF Ownership, OwnershipTypes, host, gate
    <3>2. JobsOK'
      <4>1. JobShape(job'[p])
        BY <2>1
        DEF Ownership, JobsOK, JobShape, NoJob, Job, At, Sweeping, Starting, Probing, Ending
      <4>2. \A q \in Processes : q # p => job'[q] = job[q]
        BY <2>1 DEF Ownership, OwnershipTypes
      <4> QED
        BY <1>1, <4>1, <4>2 DEF Ownership, JobsOK, Processes
    <3>3. SentinelOK'
      BY <1>1, <2>1
      DEF Ownership, OwnershipTypes, JobsOK, JobShape, NoJob, SentinelOK, At, Processes,
          Working, Sweeping, gate
    <3>4. ServerOK'
      BY <1>1, <2>1
      DEF Ownership, OwnershipTypes, ServerOK, SentinelOK, At, Processes, gate
    <3>5. ReportsOK'
      BY <2>1 DEF Ownership, OwnershipTypes, ReportsOK, AtAlloc, host, gate
    <3> QED  BY <3>1, <3>2, <3>3, <3>4, <3>5 DEF Ownership
  <2>3. \A q \in Processes : RestartFits(job'[q].pc, restart')
    BY <2>1 DEF Ownership, OwnershipTypes, Leftovers, RestartFits, Unentered, Entered, Probing
  <2>4. NothingLost'
    BY <2>1
    DEF Ownership, OwnershipTypes, Leftovers, NothingLost, InUse, At, host, gate, JobsOK,
        JobShape, Underway, Entered, Probing
  <2> QED  BY <2>2, <2>3, <2>4 DEF Leftovers, HostTypes, RoomIsTraceable, host
<1>2. CASE workspace \notin {"free", p}
  <2>1. Finish(p) /\ job' = [job EXCEPT ![p] = NoJob]
    BY <1>2 DEF Finish
  <2>2. Ownership'
    BY <2>1, FinishKeeps DEF At, Processes, host
  <2>3. \A q \in Processes : RestartFits(job'[q].pc, restart')
    BY <2>1, RestartLeft
  <2>4. NothingLost'
    BY <2>1
    DEF Ownership, OwnershipTypes, Leftovers, NothingLost, InUse, At, host, gate, JobsOK,
        JobShape, SentinelOK, Processes, Underway, Entered, Probing, NoJob
  <2> QED  BY <2>2, <2>3, <2>4 DEF Leftovers, HostTypes, RoomIsTraceable, host
<1> QED  BY <1>1, <1>2

\* A collection that advances keeps the invariant when its leftovers fit its new
\* step; a failure excuses it from looking for what is lost.
LEMMA AdvanceHolds ==
  ASSUME GateInv, NEW p \in Processes, Advances(p),
         RestartFits(job'[p].pc, restart'), HostTypes', RoomIsTraceable',
         NothingLost' \/ Fault
  PROVE  GateInv'
BY AdvanceKeeps, RestartKept, FaultLoses DEF GateInv, Leftovers, Advances

\* A collection that ends, which it does on a failure or by dropping what it held.
LEMMA EndHolds ==
  ASSUME GateInv, NEW p \in Processes, Finish(p), job[p].pc \in Working,
         UNCHANGED <<image, restart, gate, allocs>>, HostTypes', RoomIsTraceable',
         NothingLost' \/ Fault
  PROVE  GateInv'
<1>1. p = "server" => ~At("server", "idle")
  BY DEF At, Working, Sweeping, Starting, Probing, Ending
<1>2. job' = [job EXCEPT ![p] = NoJob]
  BY DEF Finish
<1> QED
  BY <1>1, <1>2, FinishKeeps, RestartLeft, FaultLoses DEF GateInv, Leftovers

\* A step that holds on to all it has, and adds no container, loses nothing.
LEMMA NothingMoreLost ==
  ASSUME GateInv, NEW p \in Processes, Advances(p),
         \A q \in Processes : InUse(q)' = InUse(q),
         job'[p].probe # 0 => job'[p].pc \in Probing,
         \A i \in Sandboxes : containers'[i] # "absent" => containers[i] # "absent",
         room' # room => room' # "created",
         restart' # "none" =>
           \/ job'[p].pc \in Underway
           \/ restart # "none" /\ job[p].pc \notin Underway,
         UNCHANGED <<late, faults>>
  PROVE  NothingLost'
<1>1. \A q \in Processes : q # p => job'[q] = job[q]
  BY DEF GateInv, Ownership, OwnershipTypes, Advances
<1> QED  BY <1>1 DEF GateInv, Leftovers, NothingLost

LEMMA RecoverKeeps ==
  ASSUME GateInv, NEW p \in Processes, Recover(p)
  PROVE  GateInv'
<1> USE DEF GateInv, Recover, At
<1>1. job[p].pc \in Working
  BY DEF Working, Sweeping
<1>2. HostTypes' /\ RoomIsTraceable'
  BY GateAssumption
  DEF Leftovers, HostTypes, RoomIsTraceable, Recovered, RecoverFailed, Fault, NoFault,
      ContainerStates, Ownership, OwnershipTypes
<1>3. CASE Recovered /\ Goto(p, "list") /\ UNCHANGED workspace
  <2>1. JobShape([job[p] EXCEPT !.pc = "list"]) /\ job[p].probe = 0
    BY DEF Ownership, OwnershipTypes, JobsOK, JobShape, Job, NoJob, Working, Sweeping,
           Starting, Probing, Ending
  <2>2. /\ Advances(p)
        /\ job'[p].pc = "list"
        /\ \A q \in Processes : InUse(q)' = InUse(q)
        /\ job'[p].probe = job[p].probe
    BY <1>1, <1>3, <2>1, StepAdvances DEF Working, Sweeping
  <2>3. NothingLost'
    BY <1>3, <2>1, <2>2, NothingMoreLost DEF Recovered, NoFault
  <2>4. RestartFits(job'[p].pc, restart')
    BY <1>3, <2>2 DEF RestartFits, Recovered, Entered, Probing
  <2> QED  BY <1>2, <2>2, <2>3, <2>4, AdvanceHolds
<1>4. CASE RecoverFailed /\ Finish(p)
  BY <1>1, <1>2, <1>4, EndHolds DEF RecoverFailed
<1> QED  BY <1>3, <1>4

LEMMA ListLeftoversKeeps ==
  ASSUME GateInv, NEW p \in Processes, ListLeftovers(p)
  PROVE  GateInv'
<1> USE DEF GateInv, ListLeftovers, At
<1>1. job[p].pc \in Working /\ job[p] \in Job
  BY DEF Working, Sweeping, Ownership, OwnershipTypes
<1>2. HostTypes' /\ RoomIsTraceable'
  BY GateAssumption
  DEF Leftovers, HostTypes, RoomIsTraceable, Fault, NoFault, host, Ownership, OwnershipTypes
<1>3. ASSUME job' = [job EXCEPT ![p].pc = "sweep", ![p].found = Swept(p)],
             NoFault, UNCHANGED workspace
      PROVE  GateInv'
  <2>1. job' = [job EXCEPT ![p] = [job[p] EXCEPT !.pc = "sweep", !.found = Swept(p)]]
    BY <1>3
  <2>2. /\ job' = [job EXCEPT ![p] = job'[p]]
        /\ job'[p] \in Job
        /\ job'[p].pc = "sweep" /\ job'[p].found = Swept(p)
        /\ job'[p].current = job[p].current /\ job'[p].report = job[p].report
        /\ job'[p].sentinel = job[p].sentinel /\ job'[p].probe = job[p].probe
    BY <1>1, <2>1 DEF Ownership, OwnershipTypes, Job, Swept, Steps, Working, Sweeping
  <2>3. JobShape(job'[p]) /\ job[p].probe = 0 /\ job[p].sentinel = 0
    BY <2>2 DEF Ownership, JobsOK, JobShape, Swept, Sweeping, Starting, Probing, Ending
  <2>4. collection.sentinel # 0 =>
          collection.sentinel \notin {job'[p].sentinel, job'[p].probe} \cup job'[p].found
    BY <1>1, <2>2, <2>3 DEF Ownership, JobsOK, SentinelOK, Swept, Processes
  <2>5. Advances(p)
    BY <1>1, <1>3, <2>2, <2>3, <2>4
    DEF Advances, Ownership, ReportsOK, host, Working, Sweeping
  <2>6. \A q \in Processes : InUse(q)' = InUse(q)
    BY <2>2 DEF Ownership, OwnershipTypes, InUse, gate
  <2>7. NothingLost'
    BY <1>1, <1>3, <2>2, <2>3, <2>5, <2>6, NothingMoreLost
    DEF Leftovers, RestartFits, NoFault, host, Unentered
  <2>8. RestartFits(job'[p].pc, restart')
    BY <2>2 DEF Leftovers, RestartFits, Unentered, Entered, Probing
  <2> QED  BY <1>2, <2>5, <2>7, <2>8, AdvanceHolds
<1>4. CASE Fault /\ Finish(p)
  BY <1>1, <1>2, <1>4, EndHolds DEF host
<1> QED  BY <1>3, <1>4

LEMMA SweepKeeps ==
  ASSUME GateInv, NEW p \in Processes, Sweep(p)
  PROVE  GateInv'
<1> USE DEF GateInv, Sweep, At
<1>1. job[p].pc \in Working /\ job[p] \in Job
  BY DEF Working, Sweeping, Ownership, OwnershipTypes
<1>2. HostTypes' /\ RoomIsTraceable'
  BY GateAssumption
  DEF Leftovers, HostTypes, RoomIsTraceable, Destroyed, DestroyFailed, SetContainer, Fault,
      NoFault, Ownership, OwnershipTypes, ContainerStates
<1>3. ASSUME NEW i \in job[p].found, Destroyed(i), UNCHANGED workspace,
             job' = [job EXCEPT ![p].found = @ \ {i}]
      PROVE  GateInv'
  <2>1. job' = [job EXCEPT ![p] = [job[p] EXCEPT !.found = job[p].found \ {i}]]
    BY <1>3
  <2>2. /\ job' = [job EXCEPT ![p] = job'[p]]
        /\ job'[p] \in Job
        /\ job'[p].pc = "sweep" /\ job'[p].found = job[p].found \ {i}
        /\ job'[p].current = job[p].current /\ job'[p].report = job[p].report
        /\ job'[p].sentinel = job[p].sentinel /\ job'[p].probe = job[p].probe
    BY <1>1, <2>1 DEF Ownership, OwnershipTypes, Job
  <2>3. JobShape(job'[p]) /\ job[p].probe = 0
    BY <2>2 DEF Ownership, JobsOK, JobShape, Sweeping, Starting, Probing, Ending
  <2>4. Advances(p)
    BY <1>1, <1>3, <2>2, <2>3
    DEF Advances, Ownership, SentinelOK, ReportsOK, Working, Sweeping
  <2>5. \A q \in Processes : InUse(q)' = InUse(q)
    BY <2>2 DEF Ownership, OwnershipTypes, InUse, gate
  <2>6. RestartFits(job'[p].pc, restart')
    BY <2>2 DEF Leftovers, RestartFits
  <2>7. NothingLost'
    BY <1>3, <2>2, <2>3, <2>4, <2>5, NothingMoreLost
    DEF Leftovers, HostTypes, RestartFits, NoFault, Destroyed, SetContainer, Unentered
  <2> QED  BY <1>2, <2>4, <2>6, <2>7, AdvanceHolds
<1>4. ASSUME NEW i \in job[p].found, DestroyFailed(i), Finish(p)
      PROVE  GateInv'
  BY <1>1, <1>2, <1>4, EndHolds DEF DestroyFailed
<1>5. ASSUME job[p].found = {}, Goto(p, "sentinel"),
             UNCHANGED <<containers, workspace, faults>>
      PROVE  GateInv'
  <2>1. JobShape([job[p] EXCEPT !.pc = "sentinel"]) /\ job[p].probe = 0
    BY <1>1, <1>5
    DEF Ownership, JobsOK, JobShape, Job, Working, Sweeping, Starting, Probing, Ending
  <2>2. /\ Advances(p)
        /\ job'[p].pc = "sentinel"
        /\ \A q \in Processes : InUse(q)' = InUse(q)
        /\ job'[p].probe = job[p].probe
    BY <1>1, <1>5, <2>1, StepAdvances DEF Working, Sweeping
  <2>3. RestartFits(job'[p].pc, restart')
    BY <2>2 DEF Leftovers, RestartFits, Unentered, Entered, Probing
  <2>4. NothingLost'
    BY <1>5, <2>1, <2>2, NothingMoreLost DEF Leftovers, RestartFits, Unentered
  <2> QED  BY <1>2, <2>2, <2>3, <2>4, AdvanceHolds
<1> QED  BY <1>3, <1>4, <1>5

-----------------------------------------------------------------------------
(* Its sandboxes *)

\* A sandbox is created for the collection under an identity nobody knows.
LEMMA CreatedAdvances ==
  ASSUME GateInv, NEW p \in Processes, NEW i \in Unused, NEW pc \in Working,
         \/ /\ At(p, "sentinel") /\ pc = "startsentinel"
            /\ job' = [job EXCEPT ![p] = [job[p] EXCEPT !.pc = pc, !.sentinel = i]]
         \/ /\ At(p, "probe") /\ pc = "startprobe"
            /\ job' = [job EXCEPT ![p] = [job[p] EXCEPT !.pc = pc, !.probe = i]],
         UNCHANGED <<image, workspace, gate, allocs>>
  PROVE  /\ Advances(p)
         /\ job'[p].pc = pc
         /\ i \in InUse(p)'
         /\ \A q \in Processes : InUse(q) \subseteq InUse(q)'
         /\ \A q \in Processes : q # p => job'[q] = job[q]
<1> USE DEF GateInv, Ownership, OwnershipTypes, At
<1>1. /\ i \in Sandboxes /\ i # 0
      /\ i \notin {collection.sentinel, job[p].current, job[p].sentinel, job[p].probe}
      /\ job[p] \in Job /\ pc \in Steps
  BY GateAssumption DEF Unused, Working, Steps
<1>2. /\ job' = [job EXCEPT ![p] = job'[p]]
      /\ job'[p] \in Job
      /\ job'[p].pc = pc
      /\ job'[p].found = job[p].found
      /\ job'[p].current = job[p].current /\ job'[p].report = job[p].report
      /\ \/ /\ job[p].pc = "sentinel" /\ pc = "startsentinel"
            /\ job'[p].sentinel = i /\ job'[p].probe = job[p].probe
         \/ /\ job[p].pc = "probe" /\ pc = "startprobe"
            /\ job'[p].sentinel = job[p].sentinel /\ job'[p].probe = i
  <2>1. CASE job' = [job EXCEPT ![p] = [job[p] EXCEPT !.pc = pc, !.sentinel = i]]
             /\ At(p, "sentinel") /\ pc = "startsentinel"
    BY <1>1, <2>1 DEF Job
  <2>2. CASE job' = [job EXCEPT ![p] = [job[p] EXCEPT !.pc = pc, !.probe = i]]
             /\ At(p, "probe") /\ pc = "startprobe"
    BY <1>1, <2>2 DEF Job
  <2> QED  BY <2>1, <2>2
<1>3. JobShape(job'[p])
  BY <1>1, <1>2 DEF JobsOK, JobShape, Sweeping, Starting, Probing, Ending
<1>4. Advances(p)
  BY <1>1, <1>2, <1>3
  DEF Advances, SentinelOK, ReportsOK, Working, Sweeping, Starting, Probing
<1>5. /\ i \in InUse(p)'
      /\ \A q \in Processes : InUse(q) \subseteq InUse(q)'
  BY <1>1, <1>2 DEF InUse, gate, JobsOK, JobShape, Sweeping, Starting
<1> QED  BY <1>2, <1>4, <1>5

\* With a new container of its own a collection has lost nothing.
LEMMA CreatedLosesNothing ==
  ASSUME GateInv, NEW p \in Processes, NEW i \in Sandboxes, SetContainer(i, "created"),
         i \in InUse(p)',
         \A q \in Processes : InUse(q) \subseteq InUse(q)',
         \A q \in Processes : q # p => job'[q] = job[q],
         job'[p].probe # 0 => job'[p].pc \in Probing,
         job[p].pc \in Underway => job'[p].pc \in Underway,
         UNCHANGED <<late, room, restart, faults>>
  PROVE  NothingLost'
<1>1. \A j \in Sandboxes : containers'[j] # "absent" => j = i \/ containers[j] # "absent"
  BY DEF SetContainer, GateInv, Leftovers, HostTypes
<1> QED
  BY <1>1 DEF GateInv, Leftovers, NothingLost

LEMMA CreateSentinelKeeps ==
  ASSUME GateInv, NEW p \in Processes, CreateSentinel(p)
  PROVE  GateInv'
<1> USE DEF CreateSentinel, At
<1> PICK i \in Unused : CreateSandbox(p, i, "startsentinel", Finish(p))
  BY DEF NextUnused
<1>1. job[p].pc \in Working /\ job[p] \in Job /\ i \in Unused /\ i \in Sandboxes
  BY DEF GateInv, Ownership, OwnershipTypes, Working, Sweeping, Unused
<1>2. HostTypes' /\ RoomIsTraceable'
  BY <1>1, GateAssumption
  DEF GateInv, Leftovers, HostTypes, RoomIsTraceable, CreateSandbox, SetContainer, Fault,
      NoFault, Ownership, OwnershipTypes, ContainerStates
<1>3. ASSUME SetContainer(i, "created"), NoFault, UNCHANGED <<late, workspace>>,
             job' = [job EXCEPT ![p].pc = "startsentinel",
                                ![p].sentinel = IF At(p, "sentinel") THEN i ELSE @,
                                ![p].probe = IF At(p, "probe") THEN i ELSE @]
      PROVE  GateInv'
  <2>1. job' = [job EXCEPT ![p] = [job[p] EXCEPT !.pc = "startsentinel", !.sentinel = i]]
    BY <1>1, <1>3 DEF GateInv, Ownership, OwnershipTypes, Job
  <2>2. /\ Advances(p)
        /\ job'[p].pc = "startsentinel"
        /\ i \in InUse(p)'
        /\ \A q \in Processes : InUse(q) \subseteq InUse(q)'
        /\ \A q \in Processes : q # p => job'[q] = job[q]
    BY <1>1, <1>3, <2>1, CreatedAdvances DEF Working, Starting
  <2>3. job'[p].probe = 0
    BY <2>2 DEF Advances, JobShape, Starting
  <2>4. RestartFits(job'[p].pc, restart')
    BY <2>2 DEF GateInv, Leftovers, RestartFits, Unentered, Entered, Probing
  <2>5. NothingLost'
    BY <1>1, <1>3, <2>2, <2>3, CreatedLosesNothing DEF NoFault, Underway, Entered, Probing
  <2> QED  BY <1>2, <2>2, <2>4, <2>5, AdvanceHolds
<1>4. CASE Fault /\ Finish(p)
  BY <1>1, <1>2, <1>4, EndHolds
<1> QED  BY <1>3, <1>4 DEF CreateSandbox

LEMMA CreateProbeKeeps ==
  ASSUME GateInv, NEW p \in Processes, CreateProbe(p)
  PROVE  GateInv'
<1> USE DEF CreateProbe, At
<1> PICK i \in Unused : CreateSandbox(p, i, "startprobe",
                                   Abandon(p, "finish") /\ UNCHANGED workspace)
  BY DEF NextUnused
<1>1. job[p].pc \in Working /\ job[p] \in Job /\ i \in Unused /\ i \in Sandboxes
  BY DEF GateInv, Ownership, OwnershipTypes, Working, Starting, Unused
<1>2. HostTypes' /\ RoomIsTraceable'
  BY <1>1, GateAssumption
  DEF GateInv, Leftovers, HostTypes, RoomIsTraceable, CreateSandbox, SetContainer, Fault,
      NoFault, Ownership, OwnershipTypes, ContainerStates
<1>3. ASSUME SetContainer(i, "created"), NoFault, UNCHANGED <<late, workspace>>,
             job' = [job EXCEPT ![p].pc = "startprobe",
                                ![p].sentinel = IF At(p, "sentinel") THEN i ELSE @,
                                ![p].probe = IF At(p, "probe") THEN i ELSE @]
      PROVE  GateInv'
  <2>1. job' = [job EXCEPT ![p] = [job[p] EXCEPT !.pc = "startprobe", !.probe = i]]
    BY <1>1, <1>3 DEF GateInv, Ownership, OwnershipTypes, Job
  <2>2. /\ Advances(p)
        /\ job'[p].pc = "startprobe"
        /\ i \in InUse(p)'
        /\ \A q \in Processes : InUse(q) \subseteq InUse(q)'
        /\ \A q \in Processes : q # p => job'[q] = job[q]
    BY <1>1, <1>3, <2>1, CreatedAdvances DEF Working, Probing
  <2>3. RestartFits(job'[p].pc, restart')
    BY <2>2 DEF GateInv, Leftovers, RestartFits, Unentered, Entered, Probing
  <2>4. NothingLost'
    BY <1>1, <1>3, <2>2, CreatedLosesNothing DEF NoFault, Underway, Entered, Probing
  <2> QED  BY <1>2, <2>2, <2>3, <2>4, AdvanceHolds
<1>4. CASE Fault /\ Abandon(p, "finish") /\ UNCHANGED workspace
  <2>1. JobShape([job[p] EXCEPT !.pc = "finish"])
    BY <1>1
    DEF GateInv, Ownership, JobsOK, JobShape, Job, Sweeping, Starting, Probing, Ending
  <2>2. Advances(p) /\ job'[p].pc = "finish"
    BY <1>1, <1>4, <2>1, StepAdvances DEF GateInv, Working, Ending
  <2>3. RestartFits(job'[p].pc, restart')
    BY <2>2 DEF GateInv, Leftovers, RestartFits, Unentered, Entered, Probing
  <2> QED  BY <1>2, <1>4, <2>2, <2>3, AdvanceHolds
<1> QED  BY <1>3, <1>4 DEF CreateSandbox

\* Steps that leave the containers, the room and the scenario alone.
LEMMA HostKept ==
  ASSUME GateInv, UNCHANGED <<containers, late, image, room>>, Fault \/ NoFault,
         restart' \in {"made", "bound"} \/ UNCHANGED restart,
         restart = "bound" => restart' = "bound"
  PROVE  HostTypes' /\ RoomIsTraceable'
BY GateAssumption
DEF GateInv, Ownership, OwnershipTypes, Leftovers, HostTypes, RoomIsTraceable, Fault, NoFault

\* Steps that start, destroy or fail at one sandbox.
LEMMA ContainerSet ==
  ASSUME GateInv, NEW i, NEW state \in ContainerStates,
         SetContainer(i, state) \/ UNCHANGED containers,
         Fault \/ NoFault, UNCHANGED <<late, image, room, restart>>
  PROVE  HostTypes' /\ RoomIsTraceable'
BY GateAssumption
DEF GateInv, Ownership, OwnershipTypes, Leftovers, HostTypes, RoomIsTraceable, Fault, NoFault,
    SetContainer

LEMMA StartSentinelKeeps ==
  ASSUME GateInv, NEW p \in Processes, StartSentinel(p)
  PROVE  GateInv'
<1> USE DEF StartSentinel, StartSandbox, At
<1> DEFINE i == job[p].sentinel
<1>1. job[p].pc \in Working /\ job[p] \in Job
  BY DEF GateInv, Ownership, OwnershipTypes, Working, Starting
<1>2. HostTypes' /\ RoomIsTraceable'
  BY ContainerSet DEF ContainerStates
<1>3. CASE containers[i] = "created" /\ SetContainer(i, "running") /\ Goto(p, "epoch")
           /\ NoFault /\ UNCHANGED workspace
  <2>1. JobShape([job[p] EXCEPT !.pc = "epoch"]) /\ job[p].probe = 0
    BY <1>1
    DEF GateInv, Ownership, JobsOK, JobShape, Job, Sweeping, Starting, Probing, Ending
  <2>2. /\ Advances(p)
        /\ job'[p].pc = "epoch"
        /\ \A q \in Processes : InUse(q)' = InUse(q)
        /\ job'[p].probe = job[p].probe
    BY <1>1, <1>3, <2>1, StepAdvances DEF GateInv, Working, Starting
  <2>3. RestartFits(job'[p].pc, restart') /\ restart' = "none"
    BY <2>2 DEF GateInv, Leftovers, RestartFits, Unentered, Entered, Probing
  <2>4. NothingLost'
    BY <1>3, <2>1, <2>2, <2>3, NothingMoreLost
    DEF SetContainer, NoFault, GateInv, Leftovers, HostTypes
  <2> QED  BY <1>2, <2>2, <2>3, <2>4, AdvanceHolds
<1>4. CASE Fault /\ Finish(p)
  BY <1>1, <1>2, <1>4, EndHolds
<1> QED  BY <1>3, <1>4

LEMMA ReadEpochKeeps ==
  ASSUME GateInv, NEW p \in Processes, ReadEpoch(p)
  PROVE  GateInv'
<1> USE DEF ReadEpoch, At, host, files
<1>1. job[p].pc \in Working /\ job[p] \in Job
  BY DEF GateInv, Ownership, OwnershipTypes, Working, Starting
<1>2. HostTypes' /\ RoomIsTraceable'
  BY HostKept
<1>3. /\ job[p].probe = 0
      /\ JobShape([job[p] EXCEPT !.pc = "enter"])
      /\ JobShape([job[p] EXCEPT !.pc = "dropsentinel"])
  BY <1>1 DEF GateInv, Ownership, JobsOK, JobShape, Job, Sweeping, Starting, Probing, Ending
<1>4. PICK pc \in {"enter", "dropsentinel"} : Goto(p, pc) \/ Abandon(p, pc)
  OBVIOUS
<1>5. /\ Advances(p)
      /\ job'[p].pc = pc
      /\ \A q \in Processes : InUse(q)' = InUse(q)
      /\ job'[p].probe = job[p].probe
  BY <1>1, <1>3, <1>4, StepAdvances DEF GateInv, Working, Starting, Ending
<1>6. RestartFits(job'[p].pc, restart') /\ restart' = "none"
  BY <1>5 DEF GateInv, Leftovers, RestartFits, Unentered, Entered, Probing
<1>7. NothingLost' \/ Fault
  BY <1>3, <1>5, <1>6, NothingMoreLost DEF NoFault
<1> QED  BY <1>2, <1>5, <1>6, <1>7, AdvanceHolds

LEMMA EnterRestartKeeps ==
  ASSUME GateInv, NEW p \in Processes, EnterRestart(p)
  PROVE  GateInv'
<1> USE DEF EnterRestart, At, host
<1>1. job[p].pc \in Working /\ job[p] \in Job /\ restart = "none"
  BY DEF GateInv, Ownership, OwnershipTypes, Working, Starting, Leftovers, RestartFits,
         Unentered
<1>2. HostTypes' /\ RoomIsTraceable'
  BY <1>1, HostKept DEF NoFault
<1>3. job[p].probe = 0 /\ JobShape([job[p] EXCEPT !.pc = "bind"])
  BY <1>1 DEF GateInv, Ownership, JobsOK, JobShape, Job, Sweeping, Starting, Probing, Ending
<1>4. /\ Advances(p)
      /\ job'[p].pc = "bind"
      /\ \A q \in Processes : InUse(q)' = InUse(q)
      /\ job'[p].probe = job[p].probe
  BY <1>1, <1>3, StepAdvances DEF GateInv, Working, Starting
<1>5. RestartFits(job'[p].pc, restart')
  BY <1>4 DEF RestartFits, Unentered, Entered, Probing
<1>6. NothingLost'
  BY <1>3, <1>4, NothingMoreLost DEF Underway
<1> QED  BY <1>2, <1>4, <1>5, <1>6, AdvanceHolds

LEMMA BindRestartKeeps ==
  ASSUME GateInv, NEW p \in Processes, BindRestart(p)
  PROVE  GateInv'
<1> USE DEF BindRestart, At, host
<1>1. job[p].pc \in Working /\ job[p] \in Job /\ restart = "made"
  BY DEF GateInv, Ownership, OwnershipTypes, Working, Starting, Leftovers, RestartFits
<1>2. HostTypes' /\ RoomIsTraceable'
  BY <1>1, HostKept
<1>3. /\ job[p].probe = 0
      /\ JobShape([job[p] EXCEPT !.pc = "room"])
      /\ JobShape([job[p] EXCEPT !.pc = "probe"])
  BY <1>1 DEF GateInv, Ownership, JobsOK, JobShape, Job, Sweeping, Starting, Probing, Ending
<1>4. PICK pc \in {"room", "probe"} :
        /\ Goto(p, pc)
        /\ pc = "room" => restart' = "bound"
        /\ pc = "probe" => restart' = restart
  OBVIOUS
<1>5. /\ Advances(p)
      /\ job'[p].pc = pc
      /\ \A q \in Processes : InUse(q)' = InUse(q)
      /\ job'[p].probe = job[p].probe
  BY <1>1, <1>3, <1>4, StepAdvances DEF GateInv, Working, Starting
<1>6. RestartFits(job'[p].pc, restart')
  BY <1>1, <1>4, <1>5 DEF RestartFits, Unentered, Entered, Probing
<1>7. NothingLost' \/ Fault
  BY <1>3, <1>5, NothingMoreLost DEF NoFault, Underway, Entered
<1> QED  BY <1>2, <1>5, <1>6, <1>7, AdvanceHolds

LEMMA EnterScenarioRoomKeeps ==
  ASSUME GateInv, NEW p \in Processes, EnterScenarioRoom(p)
  PROVE  GateInv'
<1> USE DEF EnterScenarioRoom, At, files
<1>1. job[p].pc \in Working /\ job[p] \in Job /\ restart = "bound"
  BY DEF GateInv, Ownership, OwnershipTypes, Working, Starting, Leftovers, RestartFits
<1>2. HostTypes' /\ RoomIsTraceable'
  BY <1>1, GateAssumption
  DEF GateInv, Ownership, OwnershipTypes, Leftovers, HostTypes, RoomIsTraceable, Fault,
      NoFault, ContainerStates
<1>3. job[p].probe = 0 /\ JobShape([job[p] EXCEPT !.pc = "probe"])
  BY <1>1 DEF GateInv, Ownership, JobsOK, JobShape, Job, Sweeping, Starting, Probing, Ending
<1>4. /\ Advances(p)
      /\ job'[p].pc = "probe"
      /\ \A q \in Processes : InUse(q)' = InUse(q)
      /\ job'[p].probe = job[p].probe
  BY <1>1, <1>3, StepAdvances DEF GateInv, Working, Starting
<1>5. RestartFits(job'[p].pc, restart')
  BY <1>1, <1>4 DEF RestartFits, Unentered, Entered, Probing
<1>6. NothingLost' \/ Fault
  BY <1>3, <1>4, NothingMoreLost DEF NoFault, Underway, Entered
<1> QED  BY <1>2, <1>4, <1>5, <1>6, AdvanceHolds

LEMMA StartProbeKeeps ==
  ASSUME GateInv, NEW p \in Processes, StartProbe(p)
  PROVE  GateInv'
<1> USE DEF StartProbe, StartSandbox, At
<1> DEFINE i == job[p].probe
<1>1. job[p].pc \in Working /\ job[p] \in Job
  BY DEF GateInv, Ownership, OwnershipTypes, Working, Probing
<1>2. HostTypes' /\ RoomIsTraceable'
  BY ContainerSet DEF ContainerStates
<1>3. /\ JobShape([job[p] EXCEPT !.pc = "judge"])
      /\ JobShape([job[p] EXCEPT !.pc = "finish"])
  BY <1>1 DEF GateInv, Ownership, JobsOK, JobShape, Job, Sweeping, Starting, Probing, Ending
<1>4. CASE containers[i] = "created" /\ SetContainer(i, "running") /\ Goto(p, "judge")
           /\ NoFault /\ UNCHANGED workspace
  <2>1. /\ Advances(p)
        /\ job'[p].pc = "judge"
        /\ \A q \in Processes : InUse(q)' = InUse(q)
    BY <1>1, <1>3, <1>4, StepAdvances DEF GateInv, Working, Probing
  <2>2. RestartFits(job'[p].pc, restart')
    BY <2>1 DEF GateInv, Leftovers, RestartFits, Unentered, Entered, Probing
  <2>3. NothingLost'
    BY <1>4, <2>1, NothingMoreLost
    DEF SetContainer, NoFault, GateInv, Leftovers, HostTypes, Underway, Entered, Probing
  <2> QED  BY <1>2, <2>1, <2>2, <2>3, AdvanceHolds
<1>5. CASE Fault /\ Abandon(p, "finish") /\ UNCHANGED workspace
  <2>1. Advances(p) /\ job'[p].pc = "finish"
    BY <1>1, <1>3, <1>5, StepAdvances DEF GateInv, Working, Ending
  <2>2. RestartFits(job'[p].pc, restart')
    BY <2>1 DEF GateInv, Leftovers, RestartFits, Unentered, Entered, Probing
  <2> QED  BY <1>2, <1>5, <2>1, <2>2, AdvanceHolds
<1> QED  BY <1>4, <1>5

LEMMA NoReportIsReport ==
  ASSUME OwnershipTypes
  PROVE  NoReport \in AnyReport /\ NoReport.image <= image
BY GateAssumption DEF OwnershipTypes, NoReport, AnyReport

LEMMA JudgeKeeps ==
  ASSUME GateInv, NEW p \in Processes, Judge(p)
  PROVE  GateInv'
<1> USE DEF Judge, At, host, files
<1>1. job[p].pc \in Working /\ job[p] \in Job
  BY DEF GateInv, Ownership, OwnershipTypes, Working, Probing
<1>2. HostTypes' /\ RoomIsTraceable'
  BY HostKept
<1>3. /\ Advances(p)
      /\ job'[p].pc = "dropprobe"
      /\ \A q \in Processes : InUse(q)' = InUse(q)
  <2>1. ASSUME NEW report \in {NoReport, [passed |-> TRUE, image |-> image, age |-> 0]},
               job' = [job EXCEPT ![p].pc = "dropprobe", ![p].report = report]
        PROVE  /\ Advances(p)
               /\ job'[p].pc = "dropprobe"
               /\ \A q \in Processes : InUse(q)' = InUse(q)
    <3>1. job' = [job EXCEPT ![p] = [job[p] EXCEPT !.pc = "dropprobe", !.report = report]]
      BY <2>1
    <3>2. report \in AnyReport /\ report.image <= image
      <4>1. CASE report = NoReport
        BY <4>1, NoReportIsReport DEF GateInv, Ownership
      <4>2. CASE report = [passed |-> TRUE, image |-> image, age |-> 0]
        BY <4>2, GateAssumption DEF AnyReport, GateInv, Ownership, OwnershipTypes
      <4> QED  BY <2>1, <4>1, <4>2
    <3>3. /\ job' = [job EXCEPT ![p] = job'[p]]
          /\ job'[p] \in Job
          /\ job'[p].pc = "dropprobe" /\ job'[p].found = job[p].found
          /\ job'[p].current = job[p].current /\ job'[p].report = report
          /\ job'[p].sentinel = job[p].sentinel /\ job'[p].probe = job[p].probe
      BY <1>1, <3>1, <3>2
      DEF GateInv, Ownership, OwnershipTypes, Job, Steps, Working, Probing
    <3>4. JobShape(job'[p])
      BY <3>3 DEF GateInv, Ownership, JobsOK, JobShape, Sweeping, Starting, Probing, Ending
    <3>5. Advances(p)
      BY <1>1, <3>2, <3>3, <3>4
      DEF Advances, GateInv, Ownership, SentinelOK, Working, Probing
    <3> QED  BY <3>3, <3>5 DEF InUse, gate, GateInv, Ownership, OwnershipTypes
  <2>2. CASE Abandon(p, "dropprobe")
    <3>1. JobShape([job[p] EXCEPT !.pc = "dropprobe"])
      BY <1>1
      DEF GateInv, Ownership, JobsOK, JobShape, Job, Sweeping, Starting, Probing, Ending
    <3> QED
      BY <1>1, <2>2, <3>1, StepAdvances DEF GateInv, Working, Probing
  <2> QED  BY <2>1, <2>2
<1>4. RestartFits(job'[p].pc, restart')
  BY <1>3 DEF GateInv, Leftovers, RestartFits, Unentered, Entered, Probing
<1>5. NothingLost' \/ Fault
  BY <1>3, NothingMoreLost DEF NoFault, Underway, Entered, Probing
<1> QED  BY <1>2, <1>3, <1>4, <1>5, AdvanceHolds

\* The probe of a collection goes, and with it what the collection has in use.
LEMMA DropProbeKeeps ==
  ASSUME GateInv, NEW p \in Processes, DropProbe(p)
  PROVE  GateInv'
<1> USE DEF DropProbe, At, files
<1> DEFINE i == job[p].probe
<1>1. job[p].pc \in Working /\ job[p] \in Job
  BY DEF GateInv, Ownership, OwnershipTypes, Working, Probing
<1>2. HostTypes' /\ RoomIsTraceable'
  BY ContainerSet DEF Destroyed, DestroyFailed, SetContainer, ContainerStates
<1>3. CASE Destroyed(i) /\ job' = [job EXCEPT ![p].pc = "finish", ![p].probe = 0]
  <2>1. job' = [job EXCEPT ![p] = [job[p] EXCEPT !.pc = "finish", !.probe = 0]]
    BY <1>3
  <2>2. /\ job' = [job EXCEPT ![p] = job'[p]]
        /\ job'[p] \in Job
        /\ job'[p].pc = "finish" /\ job'[p].found = job[p].found
        /\ job'[p].current = job[p].current /\ job'[p].report = job[p].report
        /\ job'[p].sentinel = job[p].sentinel /\ job'[p].probe = 0
    BY <1>1, <2>1 DEF GateInv, Ownership, OwnershipTypes, Job, Steps, Working, Ending
  <2>3. JobShape(job'[p])
    BY <2>2 DEF GateInv, Ownership, JobsOK, JobShape, Sweeping, Starting, Probing, Ending
  <2>4. Advances(p)
    BY <1>1, <2>2, <2>3
    DEF Advances, GateInv, Ownership, OwnershipTypes, SentinelOK, ReportsOK, Working, Ending,
        JobsOK, JobShape, Probing
  <2>5. /\ \A q \in Processes : InUse(q) \subseteq InUse(q)' \cup {i}
        /\ \A q \in Processes : q # p => job'[q] = job[q]
    BY <2>2 DEF InUse, gate, GateInv, Ownership, OwnershipTypes
  <2>6. RestartFits(job'[p].pc, restart')
    BY <2>2 DEF GateInv, Leftovers, RestartFits, Unentered, Entered, Probing
  <2>7. NothingLost'
    <3>1. /\ i \in Sandboxes => containers'[i] = "absent"
          /\ \A j \in Sandboxes : j # i => containers'[j] = containers[j]
      BY <1>3 DEF Destroyed, SetContainer, GateInv, Leftovers, HostTypes
    <3>2. job'[p].pc \in Underway
      BY <2>2 DEF Underway, Entered
    <3>3. NothingLost /\ UNCHANGED <<faults, late, room>>
      BY <1>3 DEF Destroyed, NoFault, GateInv, Leftovers
    <3>4. \A j \in Sandboxes : containers'[j] # "absent" =>
            containers[j] # "absent" /\ j # i
      BY <3>1
    <3>5. \A q \in Processes : job'[q].probe # 0 => q # p /\ job'[q] = job[q]
      BY <2>2, <2>5
    <3> QED
      BY <2>5, <3>2, <3>3, <3>4, <3>5 DEF NothingLost
  <2> QED  BY <1>2, <2>2, <2>4, <2>6, <2>7, AdvanceHolds
<1>4. CASE DestroyFailed(i) /\ Abandon(p, "finish")
  <2>1. JobShape([job[p] EXCEPT !.pc = "finish"])
    BY <1>1
    DEF GateInv, Ownership, JobsOK, JobShape, Job, Sweeping, Starting, Probing, Ending
  <2>2. Advances(p) /\ job'[p].pc = "finish"
    BY <1>1, <1>4, <2>1, StepAdvances DEF GateInv, Working, Ending
  <2>3. RestartFits(job'[p].pc, restart')
    BY <2>2 DEF GateInv, Leftovers, RestartFits, Unentered, Entered, Probing
  <2> QED  BY <1>2, <1>4, <2>2, <2>3, AdvanceHolds DEF DestroyFailed
<1> QED  BY <1>3, <1>4

LEMMA FinishRestartKeeps ==
  ASSUME GateInv, NEW p \in Processes, FinishRestart(p)
  PROVE  GateInv'
<1> USE DEF FinishRestart, At
<1>1. job[p].pc \in Working /\ job[p] \in Job
  BY DEF GateInv, Ownership, OwnershipTypes, Working, Ending
<1>2. HostTypes' /\ RoomIsTraceable'
  BY GateAssumption
  DEF GateInv, Leftovers, HostTypes, RoomIsTraceable, Recovered, RecoverFailed, Fault, NoFault,
      ContainerStates, Ownership, OwnershipTypes
<1>3. ASSUME Recovered, NEW report \in {NoReport, job[p].report},
             job' = [job EXCEPT ![p].pc = "assemble", ![p].report = report]
      PROVE  GateInv'
  <2>1. job' = [job EXCEPT ![p] = [job[p] EXCEPT !.pc = "assemble", !.report = report]]
    BY <1>3
  <2>2. report \in AnyReport /\ report.image <= image
    <3>1. CASE report = NoReport
      BY <3>1, NoReportIsReport DEF GateInv, Ownership
    <3>2. CASE report = job[p].report
      BY <1>1, <3>2 DEF GateInv, Ownership, ReportsOK, Job
    <3> QED  BY <1>3, <3>1, <3>2
  <2>3. /\ job' = [job EXCEPT ![p] = job'[p]]
        /\ job'[p] \in Job
        /\ job'[p].pc = "assemble" /\ job'[p].found = job[p].found
        /\ job'[p].current = job[p].current /\ job'[p].report = report
        /\ job'[p].sentinel = job[p].sentinel /\ job'[p].probe = job[p].probe
    BY <1>1, <2>1, <2>2 DEF GateInv, Ownership, OwnershipTypes, Job, Steps, Working, Ending
  <2>4. JobShape(job'[p])
    BY <2>3 DEF GateInv, Ownership, JobsOK, JobShape, Sweeping, Starting, Probing, Ending
  <2>5. Advances(p)
    BY <1>1, <2>2, <2>3, <2>4
    DEF Advances, GateInv, Ownership, SentinelOK, Working, Ending
  <2>6. \A q \in Processes : InUse(q)' = InUse(q)
    BY <2>3 DEF InUse, gate, GateInv, Ownership, OwnershipTypes
  <2>7. RestartFits(job'[p].pc, restart')
    BY <2>3 DEF RestartFits, Unentered, Entered, Probing
  <2>8. NothingLost'
    <3>1. \A q \in Processes : q # p => job'[q] = job[q]
      BY <2>3 DEF GateInv, Ownership, OwnershipTypes
    <3>2. faults = 0 => job[p].probe = 0
      BY DEF GateInv, Leftovers, NothingLost, Probing
    <3> QED
      BY <1>3, <2>3, <2>6, <3>1, <3>2
      DEF Recovered, NoFault, GateInv, Leftovers, NothingLost
  <2> QED  BY <1>2, <2>3, <2>5, <2>7, <2>8, AdvanceHolds
<1>4. CASE RecoverFailed /\ Abandon(p, "assemble")
  <2>1. JobShape([job[p] EXCEPT !.pc = "assemble"])
    BY <1>1
    DEF GateInv, Ownership, JobsOK, JobShape, Job, Sweeping, Starting, Probing, Ending
  <2>2. Advances(p) /\ job'[p].pc = "assemble"
    BY <1>1, <1>4, <2>1, StepAdvances DEF GateInv, Working, Ending
  <2>3. RestartFits(job'[p].pc, restart')
    BY <2>2 DEF RestartFits, Unentered, Entered, Probing
  <2> QED  BY <1>2, <1>4, <2>2, <2>3, AdvanceHolds DEF RecoverFailed
<1> QED  BY <1>3, <1>4

LEMMA AssembleKeeps ==
  ASSUME GateInv, NEW p \in Processes, Assemble(p)
  PROVE  GateInv'
<1> USE DEF Assemble, At, host, files
<1>1. job[p].pc \in Working /\ job[p] \in Job
  BY DEF GateInv, Ownership, OwnershipTypes, Working, Ending
<1>2. HostTypes' /\ RoomIsTraceable'
  BY HostKept
<1>3. /\ JobShape([job[p] EXCEPT !.pc = "swap"])
      /\ JobShape([job[p] EXCEPT !.pc = "dropsentinel"])
  BY <1>1 DEF GateInv, Ownership, JobsOK, JobShape, Job, Sweeping, Starting, Probing, Ending
<1>4. PICK pc \in {"swap", "dropsentinel"} : Goto(p, pc)
  OBVIOUS
<1>5. /\ Advances(p)
      /\ job'[p].pc = pc
      /\ \A q \in Processes : InUse(q)' = InUse(q)
      /\ job'[p].probe = job[p].probe
  BY <1>1, <1>3, <1>4, StepAdvances DEF GateInv, Working, Ending
<1>6. RestartFits(job'[p].pc, restart')
  BY <1>5 DEF RestartFits, Unentered, Entered, Probing
<1>7. NothingLost' \/ Fault
  <2>1. faults = 0 => job[p].probe = 0
    BY DEF GateInv, Leftovers, NothingLost, Probing
  <2>2. \A q \in Processes : q # p => job'[q] = job[q]
    BY <1>5 DEF GateInv, Ownership, OwnershipTypes, Advances
  <2>3. job[p].pc \notin Underway
    BY DEF Underway, Entered, Probing
  <2> QED
    BY <1>5, <2>1, <2>2, <2>3 DEF NoFault, GateInv, Leftovers, NothingLost
<1> QED  BY <1>2, <1>5, <1>6, <1>7, AdvanceHolds

LEMMA DropSentinelKeeps ==
  ASSUME GateInv, NEW p \in Processes, DropSentinel(p)
  PROVE  GateInv'
<1> USE DEF DropSentinel, At
<1> DEFINE i == job[p].sentinel
<1>1. job[p].pc \in Working /\ job[p] \in Job
  BY DEF GateInv, Ownership, OwnershipTypes, Working, Ending
<1>2. HostTypes' /\ RoomIsTraceable'
  BY ContainerSet DEF Destroyed, DestroyFailed, SetContainer, ContainerStates
<1>3. CASE Destroyed(i)
  <2>1. /\ job'[p] = NoJob
        /\ \A q \in Processes : q # p => job'[q] = job[q]
    BY DEF Finish, GateInv, Ownership, OwnershipTypes
  <2>2. faults = 0 => job[p].probe = 0
    BY DEF GateInv, Leftovers, NothingLost, Probing
  <2>3. /\ i \in Sandboxes => containers'[i] = "absent"
        /\ \A j \in Sandboxes : j # i => containers'[j] = containers[j]
    BY <1>3 DEF Destroyed, SetContainer, GateInv, Leftovers, HostTypes
  <2>4. faults = 0 => \A q \in Processes : InUse(q) \subseteq InUse(q)' \cup {i}
    <3>1. job[p].current = (IF p = "server" THEN collection.sentinel ELSE 0)
      BY <1>1 DEF GateInv, Ownership, SentinelOK, Processes
    <3> QED  BY <2>1, <2>2, <3>1 DEF InUse, gate, NoJob
  <2>5. job[p].pc \notin Underway
    BY DEF Underway, Entered, Probing
  <2>6. NothingLost'
    BY <1>3, <2>1, <2>3, <2>4, <2>5
    DEF Destroyed, NoFault, GateInv, Leftovers, NothingLost, NoJob
  <2> QED  BY <1>1, <1>2, <2>6, EndHolds
<1>4. CASE DestroyFailed(i)
  BY <1>1, <1>2, <1>4, EndHolds DEF DestroyFailed
<1> QED  BY <1>3, <1>4

LEMMA CollectKeeps ==
  ASSUME GateInv, NEW p \in Processes, Collect(p)
  PROVE  GateInv'
BY HoldKeeps, RecoverKeeps, ListLeftoversKeeps, SweepKeeps, CreateSentinelKeeps,
   StartSentinelKeeps, ReadEpochKeeps, EnterRestartKeeps, BindRestartKeeps,
   EnterScenarioRoomKeeps, CreateProbeKeeps, StartProbeKeeps, JudgeKeeps, DropProbeKeeps,
   FinishRestartKeeps, AssembleKeeps, DropSentinelKeeps
DEF Collect

-----------------------------------------------------------------------------
(* The gate and its allocations *)

\* Between two collections the gate changes its own job only, and a container only
\* by destroying it when it has no more use for it.
LEMMA ServerJobChanges ==
  ASSUME GateInv, NEW j \in Job, JobShape(j), job' = [job EXCEPT !["server"] = j],
         job["server"].pc \notin Working \/ At("server", "swap"),
         j.pc \in {"idle", "hold", "retire", "close"},
         HostTypes', UNCHANGED <<late, room, restart>>,
         \/ Fault
         \/ /\ NoFault
            /\ faults = 0 =>
                 \A i \in Sandboxes :
                   containers'[i] # "absent" =>
                     /\ containers[i] # "absent"
                     /\ i \in InUse("server") => i \in InUse("server")'
  PROVE  Leftovers'
<1>1. /\ job'["server"] = j
      /\ job'["cli"] = job["cli"]
      /\ Processes = {"server", "cli"}
  BY DEF GateInv, Ownership, OwnershipTypes, Processes
<1>2. InUse("cli")' = InUse("cli")
  BY <1>1 DEF InUse
<1>3. \A q \in Processes : RestartFits(job'[q].pc, restart')
  BY <1>1 DEF GateInv, Leftovers, RestartFits, Unentered, Entered, Probing
<1>4. RoomIsTraceable'
  BY DEF GateInv, Leftovers, RoomIsTraceable
<1>5. j.probe = 0
  BY DEF JobShape, NoJob
<1>6. job["server"].pc \notin Underway
  BY DEF Underway, Entered, Probing, Working, Sweeping, Starting, Ending, At
<1>7. NothingLost' \/ Fault
  BY <1>1, <1>2, <1>5, <1>6 DEF GateInv, Leftovers, NothingLost, NoFault
<1> QED
  BY <1>3, <1>4, <1>7, FaultLoses DEF Leftovers

LEMMA NoJobIsJob == NoJob \in Job /\ JobShape(NoJob)
BY GateAssumption
DEF NoJob, NoReport, AnyReport, Job, JobShape, Steps, Working, Sweeping, Starting, Probing,
    Ending

LEMMA JobsOfTheGate ==
  ASSUME NEW pc \in {"hold", "retire", "close"}, NEW i \in Sandboxes \cup {0},
         pc = "retire" => i # 0
  PROVE  /\ Keeping(pc, i) \in Job
         /\ JobShape(Keeping(pc, i))
         /\ Keeping(pc, i) = [NoJob EXCEPT !.pc = pc, !.current = i]
<1> DEFINE j == [NoJob EXCEPT !.pc = pc, !.current = i]
<1>1. /\ j.pc = pc /\ j.current = i /\ j.found = {} /\ j.sentinel = 0 /\ j.probe = 0
      /\ Keeping(pc, i) = j
  BY DEF Keeping, NoJob
<1>2. j \in Job
  BY NoJobIsJob DEF Job, Steps
<1>3. JobShape(j)
  BY <1>1 DEF JobShape, Sweeping, Starting, Probing, Ending
<1> QED  BY <1>1, <1>2, <1>3

\* Ownership when only the job of the server, the gate and the lock change.
LEMMA ServerStepOwns ==
  ASSUME Ownership, NEW j \in Job, JobShape(j), job' = [job EXCEPT !["server"] = j],
         j.pc \in {"idle", "hold", "retire", "close"}, j.report = NoReport,
         UNCHANGED <<image, allocs>>,
         j.pc = "retire" => workspace' = "server",
         At("cli", "idle") \/ UNCHANGED workspace,
         workspace' # "cli" \/ UNCHANGED workspace,
         workspace' \in Processes \cup {"free"},
         server' \in {"down", "serving", "stopping", "closed", "exited"},
         dispatched' \in BOOLEAN,
         collection' \in [sentinel : Sandboxes \cup {0}, report : AnyReport],
         collection'.report.image <= image,
         collection'.sentinel # 0 =>
           /\ workspace' = "server" /\ server' \in {"serving", "stopping"}
           /\ collection'.sentinel \notin {job["cli"].sentinel, job["cli"].probe}
                                            \cup job["cli"].found,
         j.pc = "hold" => j.current = collection'.sentinel,
         j.pc = "retire" => j.current # collection'.sentinel,
         j.current # 0 => workspace' = "server",
         server' = "closed" =>
           /\ j.pc \in {"close", "idle"}
           /\ collection' = NoCollection
           /\ j.pc = "idle" => workspace' # "server",
         server' \in {"down", "exited"} =>
           /\ j.pc = "idle" /\ workspace' # "server"
           /\ collection' = NoCollection /\ ~dispatched',
         j.pc = "close" => server' = "closed"
  PROVE  Ownership'
<1> USE DEF Ownership
<1>1. /\ job'["server"] = j
      /\ job'["cli"] = job["cli"]
      /\ Processes = {"server", "cli"}
      /\ j.pc \notin Working
  BY DEF OwnershipTypes, Processes, Working, Sweeping, Starting, Probing, Ending
<1>2. OwnershipTypes'
  BY DEF OwnershipTypes
<1>3. JobsOK'
  BY <1>1 DEF JobsOK, SentinelOK, At, Working, Sweeping
<1>4. j.sentinel = 0 /\ j.probe = 0 /\ j.found = {}
  BY DEF JobShape, NoJob
<1>5. SentinelOK'
  BY <1>1, <1>4 DEF SentinelOK, At
<1>6. ServerOK'
  BY <1>1 DEF ServerOK, At
<1>7. ReportsOK'
  BY <1>1, NoReportIsReport DEF ReportsOK, AtAlloc, OwnershipTypes
<1> QED  BY <1>2, <1>3, <1>5, <1>6, <1>7

LEMMA BeginRefreshKeeps ==
  ASSUME GateInv, BeginRefresh
  PROVE  GateInv'
<1> USE DEF BeginRefresh, At, host, files
<1>1. CASE server = "closed"
  <2>1. Ownership'
    <3>1. OwnershipTypes' /\ JobsOK' /\ ReportsOK'
      BY <1>1 DEF GateInv, Ownership, OwnershipTypes, JobsOK, ReportsOK, AtAlloc
    <3>2. SentinelOK' /\ ServerOK'
      BY <1>1 DEF GateInv, Ownership, SentinelOK, ServerOK
    <3> QED  BY <3>1, <3>2 DEF Ownership
  <2>2. Leftovers'
    BY <1>1, LeftoversUntouched DEF GateInv
  <2> QED  BY <2>1, <2>2 DEF GateInv
<1>2. CASE server # "closed"
  <2> DEFINE j == Keeping("hold", collection.sentinel)
  <2>1. j \in Job /\ JobShape(j) /\ j = [NoJob EXCEPT !.pc = "hold", !.current = collection.sentinel]
    BY JobsOfTheGate DEF GateInv, Ownership, OwnershipTypes
  <2>2. j.pc = "hold" /\ j.current = collection.sentinel /\ j.report = NoReport
    BY <2>1 DEF NoJob
  <2> HIDE DEF j
  <2>3. job' = [job EXCEPT !["server"] = j]
    BY <1>2 DEF j
  <2>4. Ownership'
    BY <1>2, <2>1, <2>2, <2>3, ServerStepOwns
    DEF GateInv, Ownership, OwnershipTypes, SentinelOK, ServerOK, ReportsOK, Processes
  <2>5. InUse("server") \subseteq InUse("server")'
    BY <2>2, <2>3, NoJobIsJob
    DEF InUse, GateInv, Ownership, OwnershipTypes, JobsOK, JobShape, NoJob, Processes
  <2>6. Leftovers'
    BY <2>1, <2>2, <2>3, <2>5, ServerJobChanges
    DEF NoFault, GateInv, Leftovers, HostTypes, Working, Sweeping, Starting, Probing, Ending
  <2> QED  BY <2>4, <2>6 DEF GateInv
<1> QED  BY <1>1, <1>2

LEMMA SwapKeeps ==
  ASSUME GateInv, Swap
  PROVE  GateInv'
<1> USE DEF Swap, At, host, files
<1> DEFINE old == job["server"]
           j == IF old.current = 0 THEN NoJob ELSE Keeping("retire", old.current)
<1>1. /\ old \in Job /\ JobShape(old) /\ old.pc \in Working /\ workspace = "server"
      /\ old.sentinel # 0 /\ old.current = collection.sentinel /\ old.pc \in Ending
  BY DEF GateInv, Ownership, OwnershipTypes, JobsOK, SentinelOK, JobShape, Processes, Working,
         Ending
<1>2. /\ j \in Job /\ JobShape(j) /\ j.pc \in {"idle", "retire"}
      /\ j.report = NoReport /\ j.current = old.current
      /\ j.pc = "retire" => j.current # 0
  <2>1. CASE old.current = 0
    BY <2>1, NoJobIsJob DEF NoJob
  <2>2. CASE old.current # 0
    <3>1. j = Keeping("retire", old.current)
      BY <2>2
    <3>2. /\ j \in Job /\ JobShape(j)
          /\ j = [NoJob EXCEPT !.pc = "retire", !.current = old.current]
      BY <1>1, <2>2, <3>1, JobsOfTheGate DEF Job
    <3> QED  BY <2>2, <3>2 DEF NoJob
  <2> QED  BY <2>1, <2>2
<1>3. job' = [job EXCEPT !["server"] = j]
  BY DEF GateInv, Ownership, OwnershipTypes, Processes
<1> HIDE DEF j
<1>4. /\ collection' \in [sentinel : Sandboxes \cup {0}, report : AnyReport]
      /\ collection'.sentinel = old.sentinel /\ collection'.sentinel # old.current
      /\ collection'.report.image <= image
  BY <1>1 DEF GateInv, Ownership, ReportsOK, Job, JobShape, Processes
<1>5. job["cli"].sentinel = 0 /\ job["cli"].probe = 0 /\ job["cli"].found = {}
  <2>1. job["cli"] = NoJob
    BY <1>1, OneCollection
    DEF GateInv, Ownership, OwnershipTypes, JobsOK, JobShape, SentinelOK, Processes
  <2> QED  BY <2>1 DEF NoJob
<1>6. server \in {"serving", "stopping"} /\ dispatched \in BOOLEAN
  BY <1>1 DEF GateInv, Ownership, OwnershipTypes, ServerOK, Ending
<1>7. Ownership'
  <2>1. Ownership /\ UNCHANGED <<image, allocs, workspace, server, dispatched>>
    BY DEF GateInv
  <2> HIDE DEF Swap
  <2> QED  BY <1>1, <1>2, <1>3, <1>4, <1>5, <1>6, <2>1, ServerStepOwns DEF Processes
<1>8. faults = 0 => InUse("server") \subseteq InUse("server")'
  <2>1. faults = 0 => old.probe = 0
    BY DEF GateInv, Leftovers, NothingLost, Processes, Probing
  <2>2. job'["server"] = j
    BY <1>3 DEF GateInv, Ownership, OwnershipTypes, Processes
  <2> QED  BY <1>1, <1>2, <1>4, <2>1, <2>2 DEF InUse
<1>9. Leftovers'
  BY <1>2, <1>3, <1>8, ServerJobChanges DEF NoFault, GateInv, Leftovers, HostTypes
<1> QED  BY <1>7, <1>9 DEF GateInv

LEMMA RetireKeeps ==
  ASSUME GateInv, Retire
  PROVE  GateInv'
<1> USE DEF Retire, At, files, gate
<1> DEFINE i == job["server"].current
<1>1. HostTypes' /\ RoomIsTraceable'
  BY ContainerSet DEF Destroyed, DestroyFailed, SetContainer, ContainerStates
<1>2. NoJob.pc = "idle" /\ NoJob.report = NoReport /\ NoJob.current = 0
  BY DEF NoJob
<1>3. Ownership'
  BY <1>2, NoJobIsJob, ServerStepOwns
  DEF GateInv, Ownership, OwnershipTypes, JobsOK, SentinelOK, ServerOK, ReportsOK, Processes
<1>4. Leftovers'
  <2>1. CASE Destroyed(i)
    <3>1. InUse("server") \subseteq InUse("server")' \cup {i}
      BY DEF InUse, GateInv, Ownership, OwnershipTypes, JobsOK, JobShape, Processes
    <3>2. \A k \in Sandboxes :
            containers'[k] # "absent" => k # i /\ containers[k] # "absent"
      BY <2>1 DEF Destroyed, SetContainer, GateInv, Leftovers, HostTypes
    <3> QED
      BY <1>1, <1>2, <2>1, <3>1, <3>2, NoJobIsJob, ServerJobChanges
      DEF Destroyed, Working, Sweeping, Starting, Probing, Ending
  <2>2. CASE DestroyFailed(i)
    BY <1>1, <1>2, <2>2, NoJobIsJob, ServerJobChanges
    DEF DestroyFailed, Working, Sweeping, Starting, Probing, Ending
  <2> QED  BY <2>1, <2>2
<1> QED  BY <1>3, <1>4 DEF GateInv

LEMMA CloseKeeps ==
  ASSUME GateInv, Close
  PROVE  GateInv'
<1> USE DEF Close, At, host, files
<1> DEFINE j == Keeping("close", collection.sentinel)
<1>1. j \in Job /\ JobShape(j) /\ j = [NoJob EXCEPT !.pc = "close", !.current = collection.sentinel]
  BY JobsOfTheGate DEF GateInv, Ownership, OwnershipTypes
<1>2. j.pc = "close" /\ j.current = collection.sentinel /\ j.report = NoReport
  BY <1>1 DEF NoJob
<1> HIDE DEF j
<1>3. job' = [job EXCEPT !["server"] = j]
  BY DEF j
<1>4. /\ collection' \in [sentinel : Sandboxes \cup {0}, report : AnyReport]
      /\ collection'.sentinel = 0 /\ collection'.report.image <= image
  BY NoReportIsReport DEF NoCollection, GateInv, Ownership
<1>5. Ownership'
  BY <1>1, <1>2, <1>3, <1>4, ServerStepOwns
  DEF GateInv, Ownership, OwnershipTypes, SentinelOK, Processes
<1>6. InUse("server") \subseteq InUse("server")'
  BY <1>2, <1>3
  DEF InUse, GateInv, Ownership, OwnershipTypes, JobsOK, JobShape, NoJob, Processes
<1>7. Leftovers'
  BY <1>1, <1>2, <1>3, <1>6, ServerJobChanges
  DEF NoFault, GateInv, Leftovers, HostTypes, Working, Sweeping, Starting, Probing, Ending
<1> QED  BY <1>5, <1>7 DEF GateInv

LEMMA ReleaseKeeps ==
  ASSUME GateInv, Release
  PROVE  GateInv'
<1> USE DEF Release, At, gate
<1> DEFINE i == job["server"].current
<1>1. HostTypes' /\ RoomIsTraceable'
  BY ContainerSet DEF Destroyed, DestroyFailed, SetContainer, ContainerStates, NoFault
<1>2. NoJob.pc = "idle" /\ NoJob.report = NoReport /\ NoJob.current = 0
  BY DEF NoJob
<1>3. server = "closed" /\ collection = NoCollection
  BY DEF GateInv, Ownership, ServerOK
<1>4. Ownership'
  BY <1>2, <1>3, NoJobIsJob, ServerStepOwns
  DEF GateInv, Ownership, OwnershipTypes, JobsOK, SentinelOK, ServerOK, ReportsOK, Processes,
      NoCollection
<1>5. Leftovers'
  <2>1. InUse("server") \subseteq {i} /\ 0 \notin InUse("server")
    BY <1>3
    DEF InUse, GateInv, Ownership, OwnershipTypes, JobsOK, JobShape, Processes, NoCollection
  <2>2. CASE (i = 0 /\ UNCHANGED containers /\ NoFault) \/ Destroyed(i)
    <3>1. \A k \in Sandboxes :
            containers'[k] # "absent" =>
              containers[k] # "absent" /\ (i # 0 => k # i)
      BY <2>2 DEF Destroyed, SetContainer, GateInv, Leftovers, HostTypes
    <3>2. \A k \in Sandboxes : k \notin InUse("server") \/ (i # 0 /\ k = i)
      BY <2>1
    <3> QED
      BY <1>1, <1>2, <2>2, <3>1, <3>2, NoJobIsJob, ServerJobChanges
      DEF Destroyed, Working, Sweeping, Starting, Probing, Ending
  <2>3. CASE DestroyFailed(i)
    BY <1>1, <1>2, <2>3, NoJobIsJob, ServerJobChanges
    DEF DestroyFailed, Working, Sweeping, Starting, Probing, Ending
  <2> QED  BY <2>2, <2>3 DEF NoFault
<1> QED  BY <1>4, <1>5 DEF GateInv

\* The server is started, told to stop or given a refresh to run.
LEMMA ServerKeeps ==
  ASSUME GateInv, DispatchRefresh \/ StartServer \/ StopServer
  PROVE  GateInv'
<1> USE DEF DispatchRefresh, StartServer, StopServer, host, files
<1>1. UNCHANGED <<host, files, collection, job, allocs>> /\ server' # "closed"
  BY DEF At
<1>2. OwnershipTypes' /\ JobsOK' /\ ReportsOK'
  BY <1>1 DEF GateInv, Ownership, OwnershipTypes, JobsOK, ReportsOK, AtAlloc
<1>3. SentinelOK' /\ ServerOK'
  BY <1>1 DEF GateInv, Ownership, SentinelOK, ServerOK, At
<1>4. Leftovers'
  <2>1. HostTypes' /\ RoomIsTraceable'
    BY <1>1, HostKept DEF NoFault
  <2>2. \A p \in Processes : RestartFits(job'[p].pc, restart') /\ InUse(p)' = InUse(p)
    BY <1>1 DEF GateInv, Leftovers, RestartFits, InUse
  <2>3. NothingLost' \/ Fault
    BY <1>1, <2>2 DEF NoFault, GateInv, Leftovers, NothingLost
  <2> QED  BY <2>1, <2>2, <2>3, FaultLoses DEF Leftovers
<1> QED  BY <1>2, <1>3, <1>4 DEF GateInv, Ownership

\* A decision reads; it changes nothing but what it has read.
LEMMA AllocateKeeps ==
  ASSUME GateInv, NEW t \in Allocations, Allocate(t)
  PROVE  GateInv'
<1> USE DEF AllocationReads, host, files, gate
<1>1. UNCHANGED <<host, files, gate, job>> /\ (Fault \/ NoFault)
  BY DEF Allocate, Ask, Refuse, ReadRuntime, Admit
<1>2. PICK a \in Allocation :
        /\ allocs' = [allocs EXCEPT ![t] = a]
        /\ a.report.image <= image
        /\ a.pc = "image" /\ a.report.passed /\ a.report.image = image => a.qualified
  <2> USE DEF GateInv, Ownership, OwnershipTypes
  <2>0. allocs[t] \in Allocation /\ allocs[t].report.image <= image
    BY DEF ReportsOK
  <2>1. CASE Ask(t)
    <3> DEFINE a == [NoAllocation EXCEPT !.pc = "runtime", !.sentinel = collection.sentinel,
                                         !.report = collection.report]
    <3>1. allocs' = [allocs EXCEPT ![t] = a]
      BY <2>1 DEF Ask
    <3>2. NoAllocation \in Allocation
      BY NoReportIsReport DEF NoAllocation, Allocation
    <3>3. a \in Allocation /\ a.report = collection.report /\ a.pc = "runtime"
      BY <3>2 DEF Allocation
    <3> HIDE DEF a
    <3> QED  BY <3>1, <3>3 DEF ReportsOK
  <2>2. CASE Refuse(t) \/ Admit(t)
    <3>1. allocs' = [allocs EXCEPT ![t] = NoAllocation]
      BY <2>2 DEF Refuse, Admit
    <3>2. NoAllocation \in Allocation /\ NoAllocation.report.image <= image
      BY NoReportIsReport DEF NoAllocation, Allocation
    <3>3. NoAllocation.pc = "idle"
      BY DEF NoAllocation
    <3> QED  BY <3>1, <3>2, <3>3
  <2>3. CASE ReadRuntime(t)
    <3> DEFINE a == [allocs[t] EXCEPT !.pc = "image", !.sentinel = 0,
                                      !.qualified = Qualifies(allocs[t])]
    <3>1. allocs' = [allocs EXCEPT ![t] = a]
      BY <2>3 DEF ReadRuntime
    <3>2. Qualifies(allocs[t]) \in BOOLEAN
      BY <2>0 DEF Qualifies, Running, Allocation, AnyReport
    <3>3. /\ a \in Allocation
          /\ a.report = allocs[t].report
          /\ a.qualified = Qualifies(allocs[t])
      BY <2>0, <3>2 DEF Allocation
    <3> HIDE DEF a
    <3>4. Running(allocs[t].sentinel)
      BY <2>3 DEF ReadRuntime
    <3>5. a.report.passed /\ a.report.image = image => a.qualified
      BY <3>3, <3>4 DEF Qualifies
    <3> QED  BY <2>0, <3>1, <3>3, <3>5
  <2> QED  BY <2>1, <2>2, <2>3 DEF Allocate
<1>3. OwnershipTypes' /\ JobsOK'
  BY <1>1, <1>2 DEF GateInv, Ownership, OwnershipTypes, JobsOK
<1>4. SentinelOK' /\ ServerOK'
  BY <1>1 DEF GateInv, Ownership, SentinelOK, ServerOK, At
<1>5. ReportsOK'
  BY <1>1, <1>2 DEF GateInv, Ownership, OwnershipTypes, ReportsOK, AtAlloc
<1>6. Leftovers'
  <2>1. HostTypes' /\ RoomIsTraceable'
    BY <1>1, HostKept
  <2>2. \A p \in Processes : RestartFits(job'[p].pc, restart') /\ InUse(p)' = InUse(p)
    BY <1>1 DEF GateInv, Leftovers, RestartFits, InUse
  <2>3. NothingLost' \/ Fault
    BY <1>1, <2>2 DEF NoFault, GateInv, Leftovers, NothingLost
  <2> QED  BY <2>1, <2>2, <2>3, FaultLoses DEF Leftovers
<1> QED  BY <1>3, <1>4, <1>5, <1>6 DEF GateInv, Ownership

-----------------------------------------------------------------------------
(* Processes, the daemon and time *)

\* A process is gone, of itself or by a crash: it takes its collection along.
LEMMA GoneOwns ==
  ASSUME GateInv, NEW p \in Processes, NEW state \in {"down", "exited"}, Gone(p, state)
  PROVE  /\ Ownership'
         /\ job' = [job EXCEPT ![p] = NoJob]
         /\ UNCHANGED <<containers, late, image, room, restart>>
<1> USE DEF GateInv, Ownership, Gone
<1>1. /\ job' = [job EXCEPT ![p] = NoJob] /\ job'[p] = NoJob
      /\ \A q \in Processes : q # p => job'[q] = job[q]
      /\ UNCHANGED <<containers, late, image, room, restart>>
  BY DEF OwnershipTypes, host
<1>2. NoJob.pc = "idle" /\ NoJob.report = NoReport /\ NoJob.current = 0
  BY DEF NoJob
<1>3. CASE p = "cli"
  <2>1. OwnershipTypes'
    BY <1>1, <1>3, NoJobIsJob DEF OwnershipTypes, gate
  <2>2. JobsOK'
    BY <1>1, <1>2, <1>3, NoJobIsJob
    DEF JobsOK, Working, Sweeping, Starting, Probing, Ending, OwnershipTypes, Processes
  <2>3. SentinelOK'
    BY <1>1, <1>2, <1>3
    DEF SentinelOK, At, Processes, gate, NoJob
  <2>4. ServerOK'
    BY <1>1, <1>3 DEF ServerOK, At, Processes, gate
  <2>5. ReportsOK'
    BY <1>1, <1>2, <1>3, NoReportIsReport DEF ReportsOK, AtAlloc, gate
  <2> QED  BY <1>1, <2>1, <2>2, <2>3, <2>4, <2>5
<1>4. CASE p = "server"
  <2>1. /\ NoCollection \in [sentinel : Sandboxes \cup {0}, report : AnyReport]
        /\ NoCollection.sentinel = 0 /\ NoCollection.report.image <= image
        /\ NoAllocation \in Allocation /\ NoAllocation.pc = "idle"
        /\ NoAllocation.report.image <= image
    BY NoReportIsReport DEF NoCollection, NoAllocation, Allocation
  <2>2. /\ server' = state /\ dispatched' = FALSE /\ collection' = NoCollection
        /\ allocs' = [t \in Allocations |-> NoAllocation]
        /\ workspace' = IF workspace = "server" THEN "free" ELSE workspace
    BY <1>4
  <2>3. OwnershipTypes' /\ \A t \in Allocations : allocs'[t] = NoAllocation
    <3> HIDE DEF Gone
    <3> QED  BY <1>1, <2>1, <2>2, NoJobIsJob DEF OwnershipTypes
  <2>4. JobsOK'
    BY <1>1, <1>2, <1>4, <2>2, <2>3, NoJobIsJob
    DEF JobsOK, Working, Sweeping, Starting, Probing, Ending, OwnershipTypes, Processes
  <2>5. SentinelOK' /\ ServerOK'
    BY <1>1, <1>2, <1>4, <2>1, <2>2, <2>3
    DEF SentinelOK, ServerOK, At, Processes, Working, Sweeping, Starting, Probing, Ending
  <2>6. ReportsOK'
    BY <1>1, <1>2, <1>4, <2>1, <2>2, <2>3, NoReportIsReport DEF ReportsOK, AtAlloc
  <2> QED  BY <1>1, <2>3, <2>4, <2>5, <2>6
<1> QED  BY <1>3, <1>4 DEF Processes

LEMMA CrashKeeps ==
  ASSUME GateInv, NEW p \in Processes, Crash(p)
  PROVE  GateInv'
<1>1. Fault /\ Gone(p, "down")
  BY DEF Crash
<1>2. /\ Ownership' /\ job' = [job EXCEPT ![p] = NoJob]
      /\ UNCHANGED <<containers, late, image, room, restart>>
  BY <1>1, GoneOwns
<1> QED
  BY <1>1, <1>2, HostKept, RestartLeft, FaultLoses DEF GateInv, Leftovers

\* The runtime stops for good with nothing in its hands.
LEMMA ExitKeeps ==
  ASSUME GateInv, Exit
  PROVE  GateInv'
<1>1. NoFault /\ Gone("server", "exited") /\ "server" \in Processes
  BY DEF Exit, Processes
<1>2. /\ Ownership' /\ job' = [job EXCEPT !["server"] = NoJob]
      /\ UNCHANGED <<containers, late, image, room, restart>>
  BY <1>1, GoneOwns
<1>3. job["server"] = NoJob /\ collection = NoCollection
  BY <1>1 DEF Exit, At, GateInv, Ownership, JobsOK, JobShape, ServerOK
<1>4. UNCHANGED <<job, collection>>
  BY <1>1, <1>2, <1>3 DEF Gone, GateInv, Ownership, OwnershipTypes
<1> QED
  BY <1>1, <1>2, <1>4, LeftoversUntouched DEF GateInv, host, NoFault

\* What Docker does by itself: nothing of it is the program's.
LEMMA DaemonKeeps ==
  ASSUME GateInv,
         \/ \E i \in Sandboxes : DaemonCreates(i) \/ SandboxExits(i)
         \/ RoomExits \/ DaemonRestarts
  PROVE  GateInv'
<1> USE DEF DaemonCreates, SandboxExits, RoomExits, DaemonRestarts, files, gate
<1>1. UNCHANGED <<image, restart, workspace, gate, job, allocs>>
  OBVIOUS
<1>2. Ownership'
  BY <1>1, OwnershipUntouched DEF GateInv, ownershipVars
<1>3. HostTypes' /\ RoomIsTraceable'
  <2>1. /\ late' \subseteq late
        /\ room' \in {room, "absent"}
        /\ Fault \/ UNCHANGED faults
    OBVIOUS
  <2>2. containers' \in [Sandboxes -> ContainerStates]
    BY DEF GateInv, Leftovers, HostTypes, SetContainer, ContainerStates
  <2> HIDE DEF DaemonCreates, SandboxExits, RoomExits, DaemonRestarts
  <2> QED
    BY <1>1, <2>1, <2>2, GateAssumption
    DEF GateInv, Ownership, OwnershipTypes, Leftovers, HostTypes, RoomIsTraceable, Fault,
        ContainerStates
<1>4. \A p \in Processes : InUse(p)' = InUse(p)
  BY <1>1 DEF InUse
<1>5. NothingLost' \/ Fault
  BY <1>1, <1>4 DEF GateInv, Leftovers, HostTypes, NothingLost, SetContainer
<1> QED
  BY <1>1, <1>2, <1>3, <1>5, FaultLoses DEF GateInv, Leftovers

LEMMA HostChangesKeeps ==
  ASSUME GateInv, HostChanges
  PROVE  GateInv'
<1> USE DEF HostChanges, files, gate, GateInv, Ownership
<1>1. OwnershipTypes' /\ JobsOK' /\ SentinelOK' /\ ServerOK'
  BY DEF OwnershipTypes, JobsOK, SentinelOK, ServerOK, At
<1>2. ReportsOK'
  <2>1. /\ collection.report.image \in Nat
        /\ \A p \in Processes : job[p].report.image \in Nat
        /\ \A t \in Allocations : allocs[t].report.image \in Nat
    BY DEF OwnershipTypes, Job, Allocation, AnyReport
  <2> QED  BY <2>1 DEF ReportsOK, AtAlloc, OwnershipTypes
<1>3. HostTypes' /\ RoomIsTraceable'
  BY GateAssumption DEF Leftovers, HostTypes, RoomIsTraceable, Fault, OwnershipTypes
<1> QED
  BY <1>1, <1>2, <1>3, FaultLoses DEF Leftovers

\* A report that gets older stays one that names the image it named, or ends.
LEMMA OlderReport ==
  ASSUME NEW report \in AnyReport
  PROVE  /\ Older(report) \in AnyReport
         /\ Older(report).image = report.image \/ Older(report) = NoReport
         /\ Older(report).passed => report.passed /\ Older(report).image = report.image
BY GateAssumption DEF Older, AnyReport, NoReport

LEMMA TimePassesKeeps ==
  ASSUME GateInv, TimePasses
  PROVE  GateInv'
<1> USE DEF TimePasses, host, files, GateInv, Ownership
<1>1. ASSUME NEW p \in Processes
      PROVE  /\ job'[p] \in Job /\ JobShape(job'[p])
             /\ job'[p].report = Older(job[p].report)
             /\ job'[p].pc = job[p].pc /\ job'[p].found = job[p].found
             /\ job'[p].current = job[p].current
             /\ job'[p].sentinel = job[p].sentinel /\ job'[p].probe = job[p].probe
  <2>1. job[p] \in Job /\ JobShape(job[p]) /\ job[p].report \in AnyReport
    BY DEF OwnershipTypes, JobsOK, Job
  <2>2. job'[p] = [job[p] EXCEPT !.report = Older(job[p].report)]
    BY <1>1
  <2>3. /\ job'[p] \in Job
        /\ job'[p].report = Older(job[p].report)
        /\ job'[p].pc = job[p].pc /\ job'[p].found = job[p].found
        /\ job'[p].current = job[p].current
        /\ job'[p].sentinel = job[p].sentinel /\ job'[p].probe = job[p].probe
    BY <2>1, <2>2, OlderReport DEF Job
  <2>4. job[p].pc = "idle" => job'[p] = NoJob
    <3> SUFFICES ASSUME job[p].pc = "idle" PROVE job'[p] = NoJob
      OBVIOUS
    <3>1. job[p] = NoJob
      BY <2>1 DEF JobShape
    <3>2. Older(NoReport) = NoReport /\ NoJob.report = NoReport
      BY DEF Older, NoReport, NoJob
    <3> QED  BY <2>1, <2>2, <3>1, <3>2 DEF Job
  <2>5. JobShape(job'[p])
    BY <2>1, <2>3, <2>4 DEF JobShape
  <2> QED  BY <2>3, <2>5
<1>2. /\ collection' \in [sentinel : Sandboxes \cup {0}, report : AnyReport]
      /\ collection'.sentinel = collection.sentinel
      /\ collection'.report = Older(collection.report)
      /\ collection = NoCollection => collection' = NoCollection
  <2>1. collection.report \in AnyReport
    BY DEF OwnershipTypes
  <2>2. collection' = [collection EXCEPT !.report = Older(collection.report)]
    OBVIOUS
  <2>3. collection = NoCollection => collection' = NoCollection
    <3>1. Older(NoReport) = NoReport /\ NoCollection.report = NoReport
      BY DEF Older, NoReport, NoCollection
    <3> QED  BY <2>2, <3>1 DEF OwnershipTypes
  <2> QED  BY <2>1, <2>2, <2>3, OlderReport DEF OwnershipTypes
<1>3. ASSUME NEW t \in Allocations
      PROVE  /\ allocs'[t] \in Allocation
             /\ allocs'[t].report = Older(allocs[t].report)
             /\ allocs'[t].pc = allocs[t].pc /\ allocs'[t].qualified = allocs[t].qualified
  <2>1. allocs[t] \in Allocation /\ allocs[t].report \in AnyReport
    BY DEF OwnershipTypes, Allocation
  <2>2. allocs'[t] = [allocs[t] EXCEPT !.report = Older(allocs[t].report)]
    BY <1>3
  <2> QED  BY <2>1, <2>2, OlderReport DEF Allocation
<1>4. OwnershipTypes'
  BY <1>1, <1>2, <1>3 DEF OwnershipTypes
<1>5. JobsOK'
  BY <1>1 DEF JobsOK
<1>6. SentinelOK' /\ ServerOK'
  BY <1>1, <1>2 DEF SentinelOK, ServerOK, At, Processes
<1>7. ReportsOK'
  <2>1. /\ collection.report \in AnyReport
        /\ \A p \in Processes : job[p].report \in AnyReport
        /\ \A t \in Allocations : allocs[t].report \in AnyReport
    BY DEF OwnershipTypes, Job, Allocation
  <2>2. NoReport.image <= image
    BY NoReportIsReport
  <2> QED  BY <1>1, <1>2, <1>3, <2>1, <2>2, OlderReport DEF ReportsOK, AtAlloc
<1>8. HostTypes' /\ RoomIsTraceable'
  BY HostKept DEF NoFault
<1>9. \A p \in Processes : RestartFits(job'[p].pc, restart') /\ InUse(p)' = InUse(p)
  BY <1>1, <1>2 DEF Leftovers, RestartFits, InUse
<1>10. NothingLost'
  BY <1>1, <1>9 DEF Leftovers, NothingLost
<1> QED  BY <1>4, <1>5, <1>6, <1>7, <1>8, <1>9, <1>10 DEF Leftovers

LEMMA EveryGateStepKeeps == GateInv /\ [GateNext]_gateVars => GateInv'
<1> SUFFICES ASSUME GateInv, [GateNext]_gateVars
             PROVE  GateInv'
  OBVIOUS
<1>1. CASE UNCHANGED gateVars
  BY <1>1, OwnershipUntouched, LeftoversUntouched
  DEF GateInv, gateVars, host, files, gate, ownershipVars
<1>2. CASE GateNext
  BY <1>2, CollectKeeps, CrashKeeps, BeginRefreshKeeps, SwapKeeps, RetireKeeps, CloseKeeps,
     ReleaseKeeps, ServerKeeps, AllocateKeeps, ExitKeeps, DaemonKeeps, HostChangesKeeps,
     TimePassesKeeps
  DEF GateNext, ServerStep
<1> QED  BY <1>1, <1>2

\* The strengthened invariant of the gate: who owns what at each step, and what may
\* be left over.
THEOREM GateInvariant == GateSpec => []GateInv
BY InitHolds, EveryGateStepKeeps, PTL DEF GateSpec

-----------------------------------------------------------------------------
(* The properties of the gate *)

LEMMA InvTypes == GateInv => GateTypeOK
<1> SUFFICES ASSUME GateInv PROVE GateTypeOK
  OBVIOUS
<1> USE DEF GateInv, Ownership, OwnershipTypes, Leftovers, HostTypes
<1>1. image \in 0 .. MaxFaults
  BY GateAssumption
<1>2. ASSUME NEW report \in AnyReport, report.image <= image
      PROVE  report \in Report
  BY <1>1, <1>2, GateAssumption DEF AnyReport, Report
<1>3. collection \in [sentinel : Sandboxes \cup {0}, report : Report]
  <2>1. collection.report \in Report
    BY <1>2 DEF ReportsOK
  <2> QED  BY <2>1
<1>4. ASSUME NEW p \in Processes
      PROVE  /\ {job[p].current, job[p].sentinel, job[p].probe} \subseteq Sandboxes \cup {0}
             /\ job[p].found \subseteq Sandboxes
             /\ job[p].report \in Report
             /\ job[p].pc = "retire" => job[p].current # 0
  <2>1. job[p] \in Job /\ JobShape(job[p]) /\ job[p].report.image <= image
    BY DEF JobsOK, ReportsOK
  <2> QED  BY <1>2, <2>1 DEF Job, JobShape
<1>5. ASSUME NEW t \in Allocations
      PROVE  allocs[t].sentinel \in Sandboxes \cup {0} /\ allocs[t].report \in Report
  <2>1. allocs[t] \in Allocation /\ allocs[t].report.image <= image
    BY DEF ReportsOK
  <2> QED  BY <1>2, <2>1 DEF Allocation
<1> QED  BY <1>1, <1>3, <1>4, <1>5 DEF GateTypeOK

\* Every variable of the gate, the collections and the workspace keeps the kind of
\* value the code keeps in it.
THEOREM GateTypesHold == GateSpec => []GateTypeOK
BY GateInvariant, InvTypes, PTL

LEMMA InvHoldsWorkspace == GateInv => WorkspaceIsHeld
<1> SUFFICES ASSUME GateInv, NEW p \in Processes, InUse(p) # {}
             PROVE  workspace = p
  BY DEF WorkspaceIsHeld
<1> USE DEF GateInv, Ownership
<1>1. CASE job[p].sentinel # 0 \/ job[p].probe # 0
  <2>1. job[p] \in Job /\ JobShape(job[p])
    BY DEF OwnershipTypes, JobsOK
  <2>2. job[p].pc \in Working
    BY <1>1, <2>1 DEF JobShape, Job, NoJob, Steps, Working
  <2> QED  BY <2>2 DEF JobsOK
<1>2. CASE job[p].sentinel = 0 /\ job[p].probe = 0
  BY <1>2 DEF InUse, SentinelOK, Processes
<1> QED  BY <1>1, <1>2, GateAssumption DEF OwnershipTypes, Job

\* Whoever counts on a sandbox holds the workspace, for any number of sandboxes,
\* crashes, failed calls and late creations: a sweep takes nobody's sandbox.
THEOREM WorkspaceAlwaysHeld == GateSpec => []WorkspaceIsHeld
BY GateInvariant, InvHoldsWorkspace, PTL

\* The room of the restart scenario runs only while the state that leads to it is
\* kept, through every crash and failed recovery.
THEOREM RoomAlwaysTraceable == GateSpec => []RoomIsTraceable
<1>1. GateInv => RoomIsTraceable
  BY DEF GateInv, Leftovers
<1> QED  BY <1>1, GateInvariant, PTL

LEMMA InvClosesClean == GateInv => ClosedLeavesNothing
<1> SUFFICES ASSUME GateInv, server = "closed", \A p \in Processes : At(p, "idle"),
                    faults = 0
             PROVE  /\ \A i \in Sandboxes : containers[i] = "absent"
                    /\ room = "absent" /\ restart = "none"
                    /\ workspace = "free"
  BY DEF ClosedLeavesNothing
<1> USE DEF GateInv, Ownership, Leftovers
<1>1. collection.sentinel = 0 /\ \A p \in Processes : job[p] = NoJob
  BY DEF At, JobsOK, JobShape, ServerOK, NoCollection
<1>2. \A p \in Processes : InUse(p) = {}
  BY <1>1 DEF InUse, NoJob
<1>3. \A p \in Processes : job[p].pc \notin Underway
  BY <1>1 DEF NoJob, Underway, Entered, Probing
<1>4. /\ \A i \in Sandboxes : containers[i] = "absent"
      /\ restart = "none" /\ room # "created"
  BY <1>2, <1>3 DEF NothingLost
<1>5. room = "absent"
  BY <1>4 DEF RoomIsTraceable, HostTypes, ContainerStates
<1>6. workspace = "free"
  BY DEF OwnershipTypes, SentinelOK, ServerOK, At, Processes
<1> QED  BY <1>4, <1>5, <1>6

\* A runtime that is closed, with nothing failed so far, has left no sandbox, no
\* scenario and no lock, whenever it was told to stop.
THEOREM ClosedAlwaysLeavesNothing == GateSpec => []ClosedLeavesNothing
BY GateInvariant, InvClosesClean, PTL

\* No step of the program touches the sentinel of the collection in use.
LEMMA SentinelUntouched ==
  ASSUME GateInv, ProgramStep, Running(collection.sentinel)
  PROVE  containers'[collection.sentinel] = "running" \/ collection' # collection
<1> DEFINE s == collection.sentinel
<1> USE DEF GateInv, Ownership, Running, At
<1>1. s \in Sandboxes /\ s # 0 /\ containers \in [Sandboxes -> ContainerStates]
  BY DEF OwnershipTypes, Leftovers, HostTypes
<1>2. ASSUME NEW i, i # s, NEW state, SetContainer(i, state)
      PROVE  containers'[s] = "running"
  BY <1>1, <1>2 DEF SetContainer
<1>3. ASSUME NEW i, i # s, Destroyed(i) \/ DestroyFailed(i)
      PROVE  containers'[s] = "running"
  BY <1>1, <1>3 DEF Destroyed, DestroyFailed, SetContainer
<1>4. \A p \in Processes : s \notin {job[p].sentinel, job[p].probe} \cup job[p].found
  BY <1>1 DEF SentinelOK
<1>5. CASE UNCHANGED containers
  BY <1>5
<1>6. ASSUME NEW p \in Processes, Collect(p)
      PROVE  containers'[s] = "running"
  <2>1. CASE Sweep(p)
    BY <1>3, <1>4, <1>5, <2>1 DEF Sweep
  <2>2. s \notin Unused
    BY DEF Unused
  <2>3. CASE CreateSentinel(p) \/ CreateProbe(p)
    BY <1>2, <1>5, <2>2, <2>3 DEF CreateSentinel, CreateProbe, CreateSandbox, NextUnused
  <2>4. CASE StartSentinel(p) \/ StartProbe(p)
    BY <1>2, <1>4, <2>4 DEF StartSentinel, StartProbe, StartSandbox
  <2>5. CASE DropProbe(p) \/ DropSentinel(p)
    BY <1>3, <1>4, <2>5 DEF DropProbe, DropSentinel
  <2>6. CASE \/ Hold(p) \/ Recover(p) \/ ListLeftovers(p) \/ ReadEpoch(p) \/ EnterRestart(p)
             \/ BindRestart(p) \/ EnterScenarioRoom(p) \/ Judge(p) \/ FinishRestart(p)
             \/ Assemble(p)
    BY <1>5, <2>6
    DEF Hold, Recover, ListLeftovers, ReadEpoch, EnterRestart, BindRestart,
        EnterScenarioRoom, Judge, FinishRestart, Assemble, host
  <2> QED  BY <1>6, <2>1, <2>3, <2>4, <2>5, <2>6 DEF Collect
<1>7. CASE ServerStep
  <2>1. CASE Retire
    BY <1>3, <2>1 DEF Retire, SentinelOK
  <2>2. CASE Release
    BY <1>1, <2>2 DEF Release, ServerOK, NoCollection
  <2>3. CASE BeginRefresh \/ Swap \/ Close
    BY <1>5, <2>3 DEF BeginRefresh, Swap, Close, host
  <2> QED  BY <1>7, <2>1, <2>2, <2>3 DEF ServerStep
<1>8. CASE DispatchRefresh \/ \E t \in Allocations : Allocate(t)
  BY <1>5, <1>8
  DEF DispatchRefresh, Allocate, Ask, Refuse, ReadRuntime, Admit, AllocationReads, host
<1> QED  BY <1>6, <1>7, <1>8 DEF ProgramStep

LEMMA ImageKept ==
  ASSUME ProgramStep
  PROVE  UNCHANGED image
BY DEF ProgramStep, Collect, Hold, Recover, ListLeftovers, Sweep, CreateSentinel, StartSentinel,
       ReadEpoch, EnterRestart, BindRestart, EnterScenarioRoom, CreateProbe, StartProbe, Judge,
       DropProbe, FinishRestart, Assemble, DropSentinel, ServerStep, BeginRefresh, Swap, Retire,
       Close, Release, DispatchRefresh, Allocate, Ask, Refuse, ReadRuntime, Admit,
       AllocationReads, host

\* While no new collection completes, the report that admits rooms stands, whatever a
\* collection of either process does or fails at.
THEOREM CurrentReportAlwaysStands == GateSpec => CurrentReportStands
<1>1. GateInv /\ [GateNext]_gateVars =>
        [ProgramStep /\ Qualifies(collection) /\ collection' = collection
           => Qualifies(collection)']_gateVars
  BY SentinelUntouched, ImageKept DEF Qualifies, Running
<1> QED  BY <1>1, GateInvariant, PTL DEF GateSpec, CurrentReportStands

\* A room is admitted only when the report read first qualified the host at some
\* moment after it was asked for.
THEOREM AdmissionAlwaysFresh == GateSpec => AdmissionIsFresh
<1>1. GateInv /\ [GateNext]_gateVars =>
        [\A t \in Allocations : Admit(t) => allocs[t].qualified]_gateVars
  BY DEF GateInv, Ownership, ReportsOK, Admit
<1> QED  BY <1>1, GateInvariant, PTL DEF GateSpec, AdmissionIsFresh

=============================================================================
