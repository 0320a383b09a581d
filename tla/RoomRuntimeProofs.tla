------------------------- MODULE RoomRuntimeProofs -------------------------
(***************************************************************************)
(* Theorems of the runtime, for any number of rooms, threads and           *)
(* generations.                                                            *)
(*                                                                         *)
(* The runtime implements the store: every write of every thread is a step *)
(* of StateStore, whatever Docker and crashes do.  So all that is proved   *)
(* of the store (one usable sandbox, verified publication, no premature    *)
(* cleanup, ...) holds of the program that calls it.  What has to be shown *)
(* is that no thread asks for FAILED on a sandbox that was told to stop,   *)
(* which the store would grant (StateStore!Requested).  It does not        *)
(* because it carries the version of the report it made last, and the row  *)
(* of that version is still CREATING or STARTING.                          *)
(*                                                                         *)
(* The records match the containers (DockerInv): a cleanup that has        *)
(* removed a container and will record its absence races every thread that *)
(* still builds the same sandbox.  Only the last two maintenance passes of *)
(* a process ever build one sandbox together, and then nobody cleans.      *)
(*                                                                         *)
(* With a daemon that answers and no crash nothing is orphaned             *)
(* (OrphanInv), and with one maintenance pass at a time a room that is     *)
(* offered runs (RunsInv).                                                 *)
(***************************************************************************)
EXTENDS RoomRuntime, StateStoreStepProofs, FiniteSetTheorems

-----------------------------------------------------------------------------
(* The inductive invariant *)

\* The steps a thread takes without a sandbox at hand.
Free == {"idle", "expire", "pending", "finalize", "reconcile", "clean", "resume", "next"}

\* Provisioning before, between and after its first two reports.
Beginning     == {"accept", "inspect", "creating"}
AfterCreating == {"created", "open", "create", "createfailed", "starting"}
AfterStarting == {"started", "start", "startfailed", "bootstrap", "bootstrapfailed", "ready"}

Thread == [pc   : Steps,
           a    : Attempts \cup {0},
           g    : 0..MaxGeneration,
           v    : Nat,
           rv   : Nat,
           own  : BOOLEAN,
           work : SUBSET (Attempts \X Generations \X Nat),
           left : 0..Limit]

Log == [Attempts -> [Generations -> SUBSET Steps]]

\* A thread that has made a report carries the version of it.
ThreadOK(thread, log) ==
  /\ thread \in Thread
  /\ thread.pc \notin Free => thread.a \in Attempts /\ thread.g \in Generations
  /\ thread.pc = "reconcile" => thread.left # 0
  /\ thread.pc \in Beginning => thread.v = 0
  /\ thread.pc \in AfterCreating => thread.v = 1 /\ "creating" \in log[thread.a][thread.g]
  /\ thread.pc \in AfterStarting => thread.v = 2 /\ "starting" \in log[thread.a][thread.g]

\* A row whose report is in the log has the version of the report only while it
\* is in the state reported.
Reported(a, g) ==
  LET row == resources[a][g]
  IN  /\ "creating" \in answered[a][g] =>
           row.version >= 1 /\ (row.version = 1 => row.state = "CREATING")
      /\ "starting" \in answered[a][g] =>
           row.version >= 2 /\ (row.version = 2 => row.state = "STARTING")

RuntimeInv ==
  /\ StoreInv
  /\ threads \in [Threads -> Thread]
  /\ \A t \in Threads : ThreadOK(threads[t], answered)
  /\ answered \in Log
  /\ \A a \in Attempts, g \in Generations : Reported(a, g)

LEMMA IdleOK ==
  ASSUME NEW log
  PROVE  ThreadOK(Idle, log)
BY StoreAssumption DEF ThreadOK, Thread, Idle, Steps, Free, Beginning, AfterCreating, AfterStarting

LEMMA RuntimeInitHolds == RuntimeInit => RuntimeInv
<1> SUFFICES ASSUME RuntimeInit PROVE RuntimeInv
  OBVIOUS
<1>1. StoreInv
  BY InitHolds DEF RuntimeInit
<1>2. /\ threads = [t \in Threads |-> Idle]
      /\ answered = [a \in Attempts |-> [g \in Generations |-> {}]]
  BY DEF RuntimeInit
<1>3. threads \in [Threads -> Thread] /\ \A t \in Threads : ThreadOK(threads[t], answered)
  BY <1>2, IdleOK DEF ThreadOK
<1>4. answered \in Log /\ \A a \in Attempts, g \in Generations : answered[a][g] = {}
  BY <1>2 DEF Log
<1> QED
  BY <1>1, <1>3, <1>4 DEF RuntimeInv, Reported

-----------------------------------------------------------------------------
(* A step of one thread *)

\* The log grows, by a first or second report only with the state it reports.
LogGrows ==
  /\ answered' \in Log
  /\ \A a \in Attempts, g \in Generations :
       /\ answered[a][g] \subseteq answered'[a][g]
       /\ "creating" \in answered'[a][g] \ answered[a][g] =>
            resources'[a][g].version = 1 /\ resources'[a][g].state = "CREATING"
       /\ "starting" \in answered'[a][g] \ answered[a][g] =>
            resources'[a][g].version = 2 /\ resources'[a][g].state = "STARTING"

Turn(t, thread) ==
  /\ threads' = [threads EXCEPT ![t] = thread]
  /\ ThreadOK(thread, answered')

LEMMA SameLogGrows ==
  ASSUME RuntimeInv, UNCHANGED answered
  PROVE  LogGrows
BY DEF RuntimeInv, LogGrows

\* A longer log is as good to a thread.
LEMMA LongerLogIsGood ==
  ASSUME LogGrows, NEW thread, ThreadOK(thread, answered)
  PROVE  ThreadOK(thread, answered')
<1>1. thread.pc \notin Free => thread.a \in Attempts /\ thread.g \in Generations
  BY DEF ThreadOK
<1>2. thread.pc \in AfterCreating \cup AfterStarting => thread.pc \notin Free
  BY DEF AfterCreating, AfterStarting, Free
<1> QED
  BY <1>1, <1>2 DEF LogGrows, ThreadOK

LEMMA ReportedStays ==
  ASSUME RuntimeInv, [Next]_vars, LogGrows, NEW a \in Attempts, NEW g \in Generations
  PROVE  Reported(a, g)'
<1> DEFINE old == resources[a][g]
           new == resources'[a][g]
<1>1. StoreInv /\ StoreInv' /\ RowsMove
  BY EveryStepKeeps, EveryStepMoves DEF RuntimeInv
<1>2. old \in Resource /\ new \in Resource /\ old.version \in Nat /\ new.version \in Nat
  BY <1>1 DEF StoreInv, TypeOK, Resource
<1>3. old.state = "NONE" => old.version = 0
  BY <1>1 DEF StoreInv, RoomInv, ResourceShape, NoResource
<1>4. old.state # "NONE" => (new # old => new.version > old.version)
  BY <1>1 DEF RowsMove, ResourceMoves
<1>5. Reported(a, g)
  BY DEF RuntimeInv
<1>6. ASSUME "creating" \in answered'[a][g]
      PROVE  new.version >= 1 /\ (new.version = 1 => new.state = "CREATING")
  <2>1. CASE "creating" \in answered[a][g]
    BY <1>2, <1>3, <1>4, <1>5, <2>1 DEF Reported
  <2>2. CASE "creating" \notin answered[a][g]
    BY <1>6, <2>2 DEF LogGrows
  <2> QED
    BY <2>1, <2>2
<1>7. ASSUME "starting" \in answered'[a][g]
      PROVE  new.version >= 2 /\ (new.version = 2 => new.state = "STARTING")
  <2>1. CASE "starting" \in answered[a][g]
    BY <1>2, <1>3, <1>4, <1>5, <2>1 DEF Reported
  <2>2. CASE "starting" \notin answered[a][g]
    BY <1>7, <2>2 DEF LogGrows
  <2> QED
    BY <2>1, <2>2
<1> QED
  BY <1>6, <1>7 DEF Reported

\* The turn of one thread, over a step of the store, keeps the invariant.
LEMMA TurnKeeps ==
  ASSUME RuntimeInv, [Next]_vars, LogGrows, NEW t \in Threads, NEW thread, Turn(t, thread)
  PROVE  RuntimeInv'
<1>1. StoreInv'
  BY EveryStepKeeps DEF RuntimeInv
<1>2. threads' \in [Threads -> Thread] /\ \A s \in Threads : ThreadOK(threads'[s], answered')
  BY LongerLogIsGood DEF RuntimeInv, Turn, ThreadOK
<1>3. \A a \in Attempts, g \in Generations : Reported(a, g)'
  BY ReportedStays
<1> QED
  BY <1>1, <1>2, <1>3 DEF RuntimeInv, LogGrows

LEMMA ThreadsStayKeeps ==
  ASSUME RuntimeInv, [Next]_vars, UNCHANGED <<answered, threads>>
  PROVE  RuntimeInv'
<1>1. LogGrows
  BY SameLogGrows
<1>2. StoreInv'
  BY EveryStepKeeps DEF RuntimeInv
<1>3. \A a \in Attempts, g \in Generations : Reported(a, g)'
  BY <1>1, ReportedStays
<1> QED
  BY <1>2, <1>3 DEF RuntimeInv

\* A thread goes to a step that asks no more of it than the one it is at.
LEMMA GotoTurns ==
  ASSUME RuntimeInv, NEW t \in Threads, NEW step \in Steps \ {"reconcile"}, Goto(t, step),
         LogGrows,
         step \notin Free => threads[t].pc \notin Free,
         step \in Beginning => threads[t].pc \in Beginning,
         step \in AfterCreating => threads[t].pc \in AfterCreating,
         step \in AfterStarting => threads[t].pc \in AfterStarting
  PROVE  \E thread : Turn(t, thread)
<1> DEFINE thread == [threads[t] EXCEPT !.pc = step]
<1>1. threads \in [Threads -> Thread] /\ ThreadOK(threads[t], answered)
  BY DEF RuntimeInv
<1>2. threads' = [threads EXCEPT ![t] = thread]
  BY <1>1 DEF Goto
<1>3. /\ thread \in Thread /\ thread.pc = step
      /\ thread.a = threads[t].a /\ thread.g = threads[t].g /\ thread.v = threads[t].v
  BY <1>1 DEF Thread
<1>4. ThreadOK(thread, answered)
  BY <1>1, <1>3 DEF ThreadOK
<1> QED
  BY <1>2, <1>4, LongerLogIsGood DEF Turn

\* The sandbox a busy thread has at hand.
LEMMA AtHand ==
  ASSUME RuntimeInv, NEW t \in Threads, threads[t].pc \notin Free
  PROVE  threads[t].a \in Attempts /\ threads[t].g \in Generations
BY DEF RuntimeInv, ThreadOK

-----------------------------------------------------------------------------
(* Reports *)

\* The steps a refused or failed provisioning goes to.
Afterwards == {"failreset", "undo", "leave", "idle"}

LEMMA FailedStepIsAfterwards ==
  ASSUME NEW t
  PROVE  FailedStep(t) \in Afterwards
BY DEF FailedStep, Afterwards

LEMMA AfterwardsSteps ==
  ASSUME NEW step \in Afterwards
  PROVE  /\ step \in Steps \ {"reconcile"}
         /\ step \notin Beginning /\ step \notin AfterCreating /\ step \notin AfterStarting
BY DEF Afterwards, Steps, Beginning, AfterCreating, AfterStarting

\* What a thread reports, the store allows any caller to report.
LEMMA ReportIsStoreStep ==
  ASSUME RuntimeInv, NEW t \in Threads, threads[t].pc \notin Free,
         NEW v, NEW state \in {"CREATING", "STARTING", "READY", "FAILED"},
         NEW label, NEW next, NEW refused,
         Report(t, v, state, label, next, refused),
         LET row == resources[threads[t].a][threads[t].g]
         IN  state = "FAILED" /\ row.version = v => row.state # "STOPPING"
  PROVE  [Next]_vars
<1> DEFINE a == threads[t].a
           g == threads[t].g
<1>1. a \in Attempts /\ g \in Generations
  BY AtHand
<1>2. CASE UNCHANGED store
  BY <1>2 DEF store, vars
<1>3. CASE DenyResource(a, g)
  BY <1>1, <1>3 DEF Next, ControlStep
<1>4. CASE Transition(a, g, v, state)
  <2>1. resources[a][g].version = v /\ state \in ResourceStates
    BY <1>4 DEF Transition, TransitionOk, ResourceStates
  <2>2. Requested(a, g, state)
    BY <2>1 DEF Requested
  <2> QED
    BY <1>1, <1>4, <2>1, <2>2 DEF Next, ControlStep
<1>5. UNCHANGED store \/ DenyResource(a, g) \/ Transition(a, g, v, state)
  BY DEF Report
<1> QED
  BY <1>2, <1>3, <1>4, <1>5

\* A row that was moved to a state has the next version, and the state.
LEMMA TransitionWrites ==
  ASSUME RuntimeInv, NEW a \in Attempts, NEW g \in Generations, NEW v, NEW state,
         Transition(a, g, v, state)
  PROVE  resources'[a][g].state = state /\ resources'[a][g].version = v + 1
<1>1. resources[a][g] \in Resource /\ resources \in [Attempts -> [Generations -> Resource]]
  BY DEF RuntimeInv, StoreInv, TypeOK
<1>2. resources[a][g].version = v
  BY DEF Transition, TransitionOk
<1> DEFINE stops == IF state \in {"STOPPING", "FAILED", "DESTROYED"} THEN {"destroy"} ELSE {}
           row == [resources[a][g] EXCEPT
                     !.state   = state,
                     !.version = @ + 1,
                     !.intents = @ \cup stops \cup IfExpired(ControlExpired(a)),
                     !.filled  = @ \cup FilledBy(state)]
<1>3. resources' = [resources EXCEPT ![a][g] = row]
  BY DEF Transition, WriteResource
<1>4. row.state = state /\ row.version = v + 1
  BY <1>1, <1>2 DEF Resource
<1> HIDE DEF row
<1>5. resources'[a][g] = row
  BY <1>1, <1>3
<1> QED
  BY <1>4, <1>5

\* After a report the thread carries its version and the log holds it.
LEMMA ReportTurns ==
  ASSUME RuntimeInv, NEW t \in Threads, threads[t].pc \notin Free,
         NEW v \in Nat, NEW state, NEW label \in Steps,
         NEW next \in Steps \ {"reconcile"}, NEW refused \in Afterwards,
         Report(t, v, state, label, next, refused),
         label = "creating" => v = 0 /\ state = "CREATING",
         label = "starting" => v = 1 /\ state = "STARTING",
         next \notin Beginning,
         next \in AfterCreating => v = 0 /\ label = "creating",
         next \in AfterStarting => v = 1 /\ label = "starting"
  PROVE  LogGrows /\ \E thread : Turn(t, thread)
<1> DEFINE a == threads[t].a
           g == threads[t].g
           thread == [threads[t] EXCEPT !.pc = next, !.v = v + 1]
<1>1. a \in Attempts /\ g \in Generations
  BY AtHand
<1>2. threads \in [Threads -> Thread] /\ ThreadOK(threads[t], answered) /\ answered \in Log
  BY DEF RuntimeInv
<1>3. /\ thread \in Thread /\ thread.pc = next /\ thread.v = v + 1
      /\ thread.a = a /\ thread.g = g
  <2>1. threads[t] \in Thread /\ v + 1 \in Nat /\ next \in Steps
    BY <1>2
  <2> QED
    BY <2>1 DEF Thread
<1>4. CASE /\ label \in answered[a][g]
           /\ threads' = [threads EXCEPT ![t].pc = next, ![t].v = v + 1]
           /\ UNCHANGED answered
  <2>1. threads' = [threads EXCEPT ![t] = thread]
    BY <1>2, <1>4
  <2>2. ThreadOK(thread, answered)
    BY <1>1, <1>3, <1>4 DEF ThreadOK
  <2> QED
    BY <1>4, <2>1, <2>2, SameLogGrows DEF Turn
<1>5. CASE /\ Transition(a, g, v, state)
           /\ answered' = [answered EXCEPT ![a][g] = @ \cup {label}]
           /\ threads' = [threads EXCEPT ![t].pc = next, ![t].v = v + 1]
  <2>1. threads' = [threads EXCEPT ![t] = thread]
    BY <1>2, <1>5
  <2>2. /\ answered' \in Log
        /\ answered'[a][g] = answered[a][g] \cup {label}
        /\ \A b \in Attempts, h \in Generations :
             b # a \/ h # g => answered'[b][h] = answered[b][h]
    BY <1>1, <1>2, <1>5 DEF Log
  <2>3. resources'[a][g].state = state /\ resources'[a][g].version = v + 1
    BY <1>1, <1>5, TransitionWrites
  <2>4. LogGrows
    BY <2>2, <2>3 DEF LogGrows
  <2>5. ThreadOK(thread, answered')
    BY <1>1, <1>3, <2>2 DEF ThreadOK
  <2> QED
    BY <2>1, <2>4, <2>5 DEF Turn
<1>6. CASE Goto(t, refused) /\ UNCHANGED answered
  BY <1>6, SameLogGrows, GotoTurns, AfterwardsSteps
<1> QED
  BY <1>4, <1>5, <1>6 DEF Report

LEMMA ReportCreatingKeeps ==
  ASSUME RuntimeInv, NEW t \in Threads, ReportCreating(t)
  PROVE  [Next]_vars /\ RuntimeInv'
<1>1. /\ threads[t].pc = "creating"
      /\ Report(t, threads[t].v, "CREATING", "creating", "created", FailedStep(t))
  BY DEF ReportCreating, At
<1>2. threads[t].pc \notin Free /\ threads[t].v = 0
  BY <1>1 DEF RuntimeInv, ThreadOK, Free, Beginning
<1>3. [Next]_vars
  BY <1>1, <1>2, ReportIsStoreStep
<1>4. /\ "creating" \in Steps /\ "created" \in Steps \ {"reconcile"}
      /\ "created" \notin Beginning
      /\ "created" \in AfterCreating
      /\ "created" \notin AfterStarting
      /\ FailedStep(t) \in Afterwards
  BY FailedStepIsAfterwards DEF Steps, Beginning, AfterCreating, AfterStarting, Afterwards
<1>5. LogGrows /\ \E thread : Turn(t, thread)
  BY <1>1, <1>2, <1>4, ReportTurns
<1> QED
  BY <1>3, <1>5, TurnKeeps

LEMMA ReportStartingKeeps ==
  ASSUME RuntimeInv, NEW t \in Threads, ReportStarting(t)
  PROVE  [Next]_vars /\ RuntimeInv'
<1>1. /\ threads[t].pc = "starting"
      /\ Report(t, threads[t].v, "STARTING", "starting", "started", "undo")
  BY DEF ReportStarting, At
<1>2. threads[t].pc \notin Free /\ threads[t].v = 1
  BY <1>1 DEF RuntimeInv, ThreadOK, Free, AfterCreating
<1>3. [Next]_vars
  BY <1>1, <1>2, ReportIsStoreStep
<1>4. /\ "starting" \in Steps /\ "started" \in Steps \ {"reconcile"}
      /\ "started" \notin Beginning
      /\ "started" \notin AfterCreating
      /\ "started" \in AfterStarting
      /\ "undo" \in Afterwards
  BY FailedStepIsAfterwards DEF Steps, Beginning, AfterCreating, AfterStarting, Afterwards
<1>5. LogGrows /\ \E thread : Turn(t, thread)
  BY <1>1, <1>2, <1>4, ReportTurns
<1> QED
  BY <1>3, <1>5, TurnKeeps

LEMMA ReportReadyKeeps ==
  ASSUME RuntimeInv, NEW t \in Threads, ReportReady(t)
  PROVE  [Next]_vars /\ RuntimeInv'
<1>1. /\ threads[t].pc = "ready"
      /\ Report(t, threads[t].v, "READY", "ready", "readied", FailedStep(t))
  BY DEF ReportReady, At
<1>2. threads[t].pc \notin Free /\ threads[t].v = 2
  BY <1>1 DEF RuntimeInv, ThreadOK, Free, AfterStarting
<1>3. [Next]_vars
  BY <1>1, <1>2, ReportIsStoreStep
<1>4. /\ "ready" \in Steps /\ "readied" \in Steps \ {"reconcile"}
      /\ "readied" \notin Beginning
      /\ "readied" \notin AfterCreating
      /\ "readied" \notin AfterStarting
      /\ FailedStep(t) \in Afterwards
  BY FailedStepIsAfterwards DEF Steps, Beginning, AfterCreating, AfterStarting, Afterwards
<1>5. LogGrows /\ \E thread : Turn(t, thread)
  BY <1>1, <1>2, <1>4, ReportTurns
<1> QED
  BY <1>3, <1>5, TurnKeeps

\* The version a failing thread carries is that of its last report; a row that
\* still has it is CREATING or STARTING, and was not told to stop.
LEMMA FailedVersionIsNotStopped ==
  ASSUME RuntimeInv, NEW t \in Threads,
         threads[t].pc \in {"createfailed", "startfailed", "bootstrapfailed"}
  PROVE  LET row == resources[threads[t].a][threads[t].g]
         IN  row.version = threads[t].v => row.state # "STOPPING"
<1>1. threads[t].a \in Attempts /\ threads[t].g \in Generations
  BY AtHand DEF Free
<1>2. Reported(threads[t].a, threads[t].g) /\ ThreadOK(threads[t], answered)
  BY <1>1 DEF RuntimeInv
<1> QED
  BY <1>2 DEF Reported, ThreadOK, AfterCreating, AfterStarting

LEMMA ReportFailedKeeps ==
  ASSUME RuntimeInv, NEW t \in Threads, ReportFailed(t)
  PROVE  [Next]_vars /\ RuntimeInv'
<1> DEFINE next == IF t \in Maintainers THEN "failreset" ELSE "undo"
<1>1. /\ threads[t].pc \in {"createfailed", "startfailed", "bootstrapfailed"}
      /\ Report(t, threads[t].v, "FAILED", threads[t].pc, next, "undo")
  BY DEF ReportFailed
<1>2. threads[t].pc \notin Free /\ threads[t].pc \in Steps /\ threads[t].v \in Nat
  BY <1>1 DEF RuntimeInv, Free, Steps, Thread
<1>3. [Next]_vars
  BY <1>1, <1>2, ReportIsStoreStep, FailedVersionIsNotStopped
<1>4. /\ threads[t].pc # "creating" /\ threads[t].pc # "starting"
      /\ next \in Steps \ {"reconcile"} /\ "undo" \in Afterwards
      /\ next \notin Beginning /\ next \notin AfterCreating /\ next \notin AfterStarting
  BY <1>1 DEF Steps, Beginning, AfterCreating, AfterStarting, Afterwards
<1> HIDE DEF next
<1>5. LogGrows /\ \E thread : Turn(t, thread)
  BY <1>1, <1>2, <1>4, ReportTurns
<1> QED
  BY <1>3, <1>5, TurnKeeps

-----------------------------------------------------------------------------
(* The other steps of a provisioning *)

\* A step asks no more of a thread than the step it comes from.
Follows(step, from) ==
  /\ step \in Steps \ {"reconcile"}
  /\ step \notin Free => from \notin Free
  /\ step \in Beginning => from \in Beginning
  /\ step \in AfterCreating => from \in AfterCreating
  /\ step \in AfterStarting => from \in AfterStarting

LEMMA QuietGotoKeeps ==
  ASSUME RuntimeInv, NEW t \in Threads, NEW step, Goto(t, step), UNCHANGED <<store, answered>>,
         Follows(step, threads[t].pc)
  PROVE  [Next]_vars /\ RuntimeInv'
<1>1. [Next]_vars
  BY DEF store, vars
<1>2. LogGrows
  BY SameLogGrows
<1>3. \E thread : Turn(t, thread)
  BY <1>2, GotoTurns DEF Follows
<1> QED
  BY <1>1, <1>2, <1>3, TurnKeeps

LEMMA AfterwardsFollows ==
  ASSUME NEW step \in Afterwards, NEW from, from \notin Free
  PROVE  Follows(step, from)
BY AfterwardsSteps DEF Follows

LEMMA ConfirmKeeps ==
  ASSUME RuntimeInv, NEW t \in Threads, ConfirmCreating(t) \/ ConfirmStarting(t) \/ ConfirmReady(t)
  PROVE  [Next]_vars /\ RuntimeInv'
<1>1. UNCHANGED <<store, answered>>
  BY DEF ConfirmCreating, ConfirmStarting, ConfirmReady, Confirm
<1>2. \/ threads[t].pc = "created" /\ (Goto(t, "open") \/ Goto(t, FailedStep(t)))
      \/ threads[t].pc = "started" /\ (Goto(t, "start") \/ Goto(t, "undo"))
      \/ threads[t].pc = "readied" /\ (Goto(t, "publish") \/ Goto(t, FailedStep(t)))
  BY DEF ConfirmCreating, ConfirmStarting, ConfirmReady, Confirm, At
<1>3. threads[t].pc \notin Free
  BY <1>2 DEF Free
<1>4. \E step : Goto(t, step) /\ Follows(step, threads[t].pc)
  <2>1. Follows("open", "created") /\ Follows("start", "started") /\ Follows("publish", "readied")
    BY DEF Follows, Steps, Free, Beginning, AfterCreating, AfterStarting
  <2>2. Follows(FailedStep(t), threads[t].pc) /\ Follows("undo", threads[t].pc)
    BY <1>3, AfterwardsFollows, FailedStepIsAfterwards DEF Afterwards
  <2> QED
    BY <1>2, <2>1, <2>2
<1> QED
  BY <1>1, <1>4, QuietGotoKeeps

LEMMA InspectAcceptedKeeps ==
  ASSUME RuntimeInv, NEW t \in Threads, InspectAccepted(t)
  PROVE  [Next]_vars /\ RuntimeInv'
<1>1. /\ threads[t].pc = "inspect" /\ UNCHANGED <<store, answered>>
      /\ Goto(t, "publish") \/ Goto(t, "creating") \/ Goto(t, FailedStep(t))
  BY DEF InspectAccepted, At
<1>2. Follows("publish", "inspect") /\ Follows("creating", "inspect")
  BY DEF Follows, Steps, Free, Beginning, AfterCreating, AfterStarting
<1>3. Follows(FailedStep(t), "inspect")
  BY AfterwardsFollows, FailedStepIsAfterwards DEF Free
<1> QED
  BY <1>1, <1>2, <1>3, QuietGotoKeeps

LEMMA RuntimeCallKeeps ==
  ASSUME RuntimeInv, NEW t \in Threads, OpenRuntime(t) \/ StartContainer(t) \/ Bootstrap(t)
  PROVE  [Next]_vars /\ RuntimeInv'
<1>1. /\ UNCHANGED <<store, answered>>
      /\ \/ threads[t].pc = "open" /\ (Goto(t, "create") \/ Goto(t, "createfailed"))
         \/ threads[t].pc = "start" /\ (Goto(t, "bootstrap") \/ Goto(t, "startfailed"))
         \/ threads[t].pc = "bootstrap" /\ (Goto(t, "ready") \/ Goto(t, "bootstrapfailed"))
  BY DEF OpenRuntime, StartContainer, Bootstrap, At
<1>2. /\ Follows("create", "open") /\ Follows("createfailed", "open")
      /\ Follows("bootstrap", "start") /\ Follows("startfailed", "start")
      /\ Follows("ready", "bootstrap") /\ Follows("bootstrapfailed", "bootstrap")
  BY DEF Follows, Steps, Free, Beginning, AfterCreating, AfterStarting
<1> QED
  BY <1>1, <1>2, QuietGotoKeeps

\* Creating a container takes it from whoever owned one of that name before.
LEMMA CreateContainerKeeps ==
  ASSUME RuntimeInv, NEW t \in Threads, CreateContainer(t)
  PROVE  [Next]_vars /\ RuntimeInv'
<1> DEFINE owned(step) == threads' = [s \in Threads |->
             IF s = t THEN [threads[t] EXCEPT !.pc = step, !.own = TRUE]
             ELSE IF threads[s].a = threads[t].a /\ threads[s].g = threads[t].g
                  THEN [threads[s] EXCEPT !.own = FALSE]
                  ELSE threads[s]]
<1>1. /\ threads[t].pc = "create" /\ UNCHANGED <<store, answered>>
      /\ \/ Goto(t, "starting") \/ Goto(t, "createfailed")
         \/ owned("starting") \/ owned("createfailed")
  BY DEF CreateContainer, At
<1>2. Follows("starting", "create") /\ Follows("createfailed", "create")
  BY DEF Follows, Steps, Free, Beginning, AfterCreating, AfterStarting
<1>3. ASSUME NEW step \in {"starting", "createfailed"}, owned(step)
      PROVE  [Next]_vars /\ RuntimeInv'
  <2>1. [Next]_vars /\ StoreInv'
    BY <1>1, EveryStepKeeps DEF store, vars, RuntimeInv
  <2>2. ASSUME NEW s \in Threads
        PROVE  /\ threads'[s] \in Thread
               /\ threads'[s].a = threads[s].a /\ threads'[s].g = threads[s].g
               /\ threads'[s].v = threads[s].v /\ threads'[s].left = threads[s].left
               /\ threads'[s].pc = IF s = t THEN step ELSE threads[s].pc
    <3>1. threads[s] \in Thread /\ step \in Steps
      BY DEF RuntimeInv, Steps
    <3>2. threads'[s] = IF s = t THEN [threads[s] EXCEPT !.pc = step, !.own = TRUE]
                        ELSE IF threads[s].a = threads[t].a /\ threads[s].g = threads[t].g
                             THEN [threads[s] EXCEPT !.own = FALSE]
                             ELSE threads[s]
      BY <1>3
    <3> QED
      BY <3>1, <3>2 DEF Thread
  <2>3. threads' \in [Threads -> Thread]
    BY <1>3, <2>2
  <2>4. \A s \in Threads : ThreadOK(threads'[s], answered')
    <3>1. step # "reconcile" /\ step \notin Beginning /\ step \notin AfterStarting
      BY DEF Beginning, AfterStarting
    <3>2. "create" \in AfterCreating /\ "create" \notin Free
      BY DEF AfterCreating, Free
    <3> QED
      BY <1>1, <2>2, <3>1, <3>2 DEF RuntimeInv, ThreadOK
  <2>5. \A a \in Attempts, g \in Generations : Reported(a, g)'
    BY <1>1, <2>1, SameLogGrows, ReportedStays
  <2> QED
    BY <1>1, <2>1, <2>3, <2>4, <2>5 DEF RuntimeInv
<1> QED
  BY <1>1, <1>2, <1>3, QuietGotoKeeps

LEMMA UndoCreateKeeps ==
  ASSUME RuntimeInv, NEW t \in Threads, UndoCreate(t)
  PROVE  [Next]_vars /\ RuntimeInv'
<1> DEFINE thread == [threads[t] EXCEPT !.pc = FailedStep(t), !.own = FALSE]
<1>1. /\ threads[t].pc = "undo" /\ UNCHANGED <<store, answered>>
      /\ threads' = [threads EXCEPT ![t].pc = FailedStep(t), ![t].own = FALSE]
  BY DEF UndoCreate, At
<1>2. threads \in [Threads -> Thread] /\ ThreadOK(threads[t], answered)
  BY DEF RuntimeInv
<1>3. threads' = [threads EXCEPT ![t] = thread]
  BY <1>1, <1>2
<1>4. FailedStep(t) \in {"leave", "idle"} /\ FailedStep(t) \in Steps
  BY DEF FailedStep, Steps
<1>5. /\ thread \in Thread /\ thread.pc = FailedStep(t)
      /\ thread.a = threads[t].a /\ thread.g = threads[t].g
  BY <1>2, <1>4 DEF Thread
<1>6. ThreadOK(thread, answered')
  BY <1>1, <1>2, <1>4, <1>5 DEF ThreadOK, Free, Beginning, AfterCreating, AfterStarting
<1>7. [Next]_vars /\ LogGrows
  BY <1>1, SameLogGrows DEF store, vars
<1> QED
  BY <1>3, <1>6, <1>7, TurnKeeps DEF Turn

\* Any other label than those of the first two reports.
LEMMA OtherLabelGrows ==
  ASSUME RuntimeInv, NEW a \in Attempts, NEW g \in Generations,
         NEW label \in Steps \ {"creating", "starting"},
         answered' = [answered EXCEPT ![a][g] = @ \cup {label}]
  PROVE  LogGrows
<1>1. answered \in Log
  BY DEF RuntimeInv
<1>2. \A b \in Attempts, h \in Generations :
        answered'[b][h] = IF b = a /\ h = g THEN answered[b][h] \cup {label} ELSE answered[b][h]
  BY <1>1 DEF Log
<1>3. answered' \in Log
  BY <1>1 DEF Log
<1> QED
  BY <1>2, <1>3 DEF LogGrows

LEMMA AcceptReceiptKeeps ==
  ASSUME RuntimeInv, NEW t \in Threads, AcceptReceipt(t)
  PROVE  [Next]_vars /\ RuntimeInv'
<1> DEFINE a == threads[t].a
           g == threads[t].g
<1>1. threads[t].pc = "accept"
  BY DEF AcceptReceipt, At
<1>2. a \in Attempts /\ g \in Generations
  BY <1>1, AtHand DEF Free
<1>3. Follows("inspect", "accept") /\ Follows(FailedStep(t), "accept")
  <2>1. Follows("inspect", "accept")
    BY DEF Follows, Steps, Free, Beginning, AfterCreating, AfterStarting
  <2> QED
    BY <2>1, AfterwardsFollows, FailedStepIsAfterwards DEF Free
<1>4. CASE UNCHANGED <<store, answered>> /\ (Goto(t, "inspect") \/ Goto(t, FailedStep(t)))
  BY <1>1, <1>3, <1>4, QuietGotoKeeps
<1>5. CASE /\ Accept(a, g)
           /\ answered' = [answered EXCEPT ![a][g] = @ \cup {"accept"}]
           /\ Goto(t, "inspect")
  <2>1. [Next]_vars
    BY <1>2, <1>5 DEF Next, ControlStep
  <2>2. LogGrows
    BY <1>2, <1>5, OtherLabelGrows DEF Steps
  <2>3. \E thread : Turn(t, thread)
    BY <1>1, <1>3, <1>5, <2>2, GotoTurns DEF Follows
  <2> QED
    BY <2>1, <2>2, <2>3, TurnKeeps
<1> QED
  BY <1>4, <1>5 DEF AcceptReceipt

LEMMA FailTheResetKeeps ==
  ASSUME RuntimeInv, NEW t \in Threads, FailTheReset(t)
  PROVE  [Next]_vars /\ RuntimeInv'
<1> DEFINE a == threads[t].a
           g == threads[t].g
<1>1. threads[t].pc = "failreset" /\ Goto(t, "undo")
  BY DEF FailTheReset, At
<1>2. a \in Attempts /\ g \in Generations
  BY <1>1, AtHand DEF Free
<1>3. Follows("undo", "failreset")
  BY AfterwardsFollows DEF Free, Afterwards
<1>4. /\ \/ FailReset(a, g, threads[t].rv) \/ DenyAttempt(a, g) \/ UNCHANGED store
      /\ \/ answered' = [answered EXCEPT ![a][g] = @ \cup {"failreset"}]
         \/ UNCHANGED answered
  BY DEF FailTheReset
<1>5. [Next]_vars
  <2>1. CASE FailReset(a, g, threads[t].rv)
    BY <1>2, <2>1 DEF FailReset, FailResetOk, Next, BackendStep
  <2>2. CASE DenyAttempt(a, g)
    BY <1>2, <2>2 DEF Next, BackendStep
  <2>3. CASE UNCHANGED store
    BY <2>3 DEF store, vars
  <2> QED
    BY <1>4, <2>1, <2>2, <2>3
<1>6. LogGrows
  BY <1>2, <1>4, OtherLabelGrows, SameLogGrows DEF Steps
<1>7. \E thread : Turn(t, thread)
  BY <1>1, <1>3, <1>6, GotoTurns DEF Follows
<1> QED
  BY <1>5, <1>6, <1>7, TurnKeeps

\* A thread that starts over, with work for its next steps.
LEMMA StartOverOK ==
  ASSUME NEW log, NEW step \in Free \ {"reconcile"},
         NEW work \in SUBSET (Attempts \X Generations \X Nat)
  PROVE  /\ ThreadOK([Idle EXCEPT !.pc = step, !.work = work], log)
         /\ ThreadOK([Idle EXCEPT !.pc = step], log)
<1>1. step \in Steps /\ step \notin Beginning /\ step \notin AfterCreating /\ step \notin AfterStarting
  BY DEF Free, Steps, Beginning, AfterCreating, AfterStarting
<1>2. Idle \in Thread
  BY IdleOK DEF ThreadOK
<1>3. /\ [Idle EXCEPT !.pc = step, !.work = work] \in Thread
      /\ [Idle EXCEPT !.pc = step, !.work = work].pc = step
      /\ [Idle EXCEPT !.pc = step] \in Thread
      /\ [Idle EXCEPT !.pc = step].pc = step
  BY <1>1, <1>2 DEF Thread
<1> QED
  BY <1>1, <1>3 DEF ThreadOK

LEMMA BecomeTurns ==
  ASSUME NEW t \in Threads, NEW thread, Become(t, thread), LogGrows, ThreadOK(thread, answered)
  PROVE  Turn(t, thread)
BY LongerLogIsGood DEF Become, Turn

LEMMA PublishKeeps ==
  ASSUME RuntimeInv, NEW t \in Threads, Publish(t)
  PROVE  [Next]_vars /\ RuntimeInv'
<1> DEFINE a == threads[t].a
           g == threads[t].g
           rv == threads[t].rv
           done == IF t \in Maintainers
                   THEN [Idle EXCEPT !.pc = "next", !.work = threads[t].work]
                   ELSE Idle
<1>1. /\ threads[t].pc = "publish"
      /\ Become(t, done) \/ Goto(t, FailedStep(t))
      /\ \/ answered' = [answered EXCEPT ![a][g] = @ \cup {"publish"}]
         \/ UNCHANGED answered
      /\ \/ PublishResetReady(a, g, rv) \/ PublishReady(a, g, rv)
         \/ DenyAttempt(a, g) \/ UNCHANGED store
  BY DEF Publish, At
<1>2. a \in Attempts /\ g \in Generations
  BY <1>1, AtHand DEF Free
<1>3. [Next]_vars
  <2>1. CASE PublishReady(a, g, rv)
    BY <1>2, <2>1 DEF PublishReady, PublishReadyOk, Next, BackendStep
  <2>2. CASE PublishResetReady(a, g, rv)
    BY <1>2, <2>2 DEF PublishResetReady, PublishResetReadyOk, Next, BackendStep
  <2>3. CASE DenyAttempt(a, g)
    BY <1>2, <2>3 DEF Next, BackendStep
  <2>4. CASE UNCHANGED store
    BY <2>4 DEF store, vars
  <2> QED
    BY <1>1, <2>1, <2>2, <2>3, <2>4
<1>4. LogGrows
  BY <1>1, <1>2, OtherLabelGrows, SameLogGrows DEF Steps
<1>5. ThreadOK(done, answered)
  <2>1. threads[t].work \in SUBSET (Attempts \X Generations \X Nat)
    BY DEF RuntimeInv, Thread
  <2>2. "next" \in Free \ {"reconcile"}
    BY DEF Free
  <2> QED
    BY <2>1, <2>2, StartOverOK, IdleOK
<1>6. Follows(FailedStep(t), "publish")
  BY AfterwardsFollows, FailedStepIsAfterwards DEF Free
<1> HIDE DEF done
<1>7. \E thread : Turn(t, thread)
  BY <1>1, <1>4, <1>5, <1>6, BecomeTurns, GotoTurns DEF Follows
<1> QED
  BY <1>3, <1>4, <1>7, TurnKeeps

LEMMA ProvisionKeeps ==
  ASSUME RuntimeInv, NEW t \in Threads, Provision(t)
  PROVE  [Next]_vars /\ RuntimeInv'
BY AcceptReceiptKeeps, InspectAcceptedKeeps, ReportCreatingKeeps, ConfirmKeeps, RuntimeCallKeeps,
   CreateContainerKeeps, ReportStartingKeeps, ReportFailedKeeps, FailTheResetKeeps, UndoCreateKeeps,
   ReportReadyKeeps, PublishKeeps
DEF Provision

-----------------------------------------------------------------------------
(* Requests *)

LEMMA EnterRoomKeeps ==
  ASSUME RuntimeInv, NEW t \in Threads, NEW a \in Attempts, EnterRoom(t, a)
  PROVE  [Next]_vars /\ RuntimeInv'
<1> DEFINE thread == [Idle EXCEPT !.pc = "accept", !.a = a, !.g = 1]
<1>1. /\ clock + Ttl <= MaxTime /\ Create(a, clock + Ttl)
      /\ Become(t, thread) /\ UNCHANGED answered
  BY DEF EnterRoom
<1>2. clock + Ttl \in 0..MaxTime
  BY <1>1, StoreAssumption, RuntimeAssumption DEF RuntimeInv, StoreInv, TypeOK
<1>3. [Next]_vars
  BY <1>1, <1>2 DEF Next, BackendStep
<1>4. 1 \in Generations /\ 1 \in 0..MaxGeneration
  BY StoreAssumption DEF Generations
<1>5. /\ thread \in Thread /\ thread.pc = "accept"
      /\ thread.a = a /\ thread.g = 1 /\ thread.v = 0
  <2>1. Idle \in Thread /\ Idle.v = 0
    BY IdleOK DEF ThreadOK, Idle
  <2>2. "accept" \in Steps
    BY DEF Steps
  <2> QED
    BY <1>4, <2>1, <2>2 DEF Thread
<1>6. ThreadOK(thread, answered)
  BY <1>4, <1>5 DEF ThreadOK, AfterCreating, AfterStarting
<1> HIDE DEF thread
<1>7. LogGrows
  BY <1>1, SameLogGrows
<1> QED
  BY <1>1, <1>3, <1>6, <1>7, BecomeTurns, TurnKeeps

\* A thread whose turn ends with nothing at hand.
LEMMA FreeTurnKeeps ==
  ASSUME RuntimeInv, [Next]_vars, NEW t \in Threads, UNCHANGED answered,
         NEW step \in Free \ {"reconcile"},
         NEW work \in SUBSET (Attempts \X Generations \X Nat),
         \/ Become(t, Idle) \/ Become(t, [Idle EXCEPT !.pc = step])
         \/ Become(t, [Idle EXCEPT !.pc = step, !.work = work])
  PROVE  RuntimeInv'
BY SameLogGrows, StartOverOK, IdleOK, BecomeTurns, TurnKeeps

LEMMA LeaveFailedEntryKeeps ==
  ASSUME RuntimeInv, NEW t \in Threads, LeaveFailedEntry(t)
  PROVE  [Next]_vars /\ RuntimeInv'
<1>1. /\ threads[t].pc = "leave" /\ Become(t, Idle) /\ UNCHANGED answered
      /\ Leave(threads[t].a, threads[t].g) \/ UNCHANGED store
  BY DEF LeaveFailedEntry, At
<1>2. threads[t].a \in Attempts /\ threads[t].g \in Generations
  BY <1>1, AtHand DEF Free
<1>3. [Next]_vars
  BY <1>1, <1>2 DEF Next, BackendStep, store, vars
<1>4. "idle" \in Free \ {"reconcile"} /\ {} \in SUBSET (Attempts \X Generations \X Nat)
  BY DEF Free
<1> QED
  BY <1>1, <1>3, <1>4, FreeTurnKeeps

LEMMA ResetRoomKeeps ==
  ASSUME RuntimeInv, NEW a \in Attempts, ResetRoom(a)
  PROVE  [Next]_vars /\ RuntimeInv'
<1>1. [Next]_vars /\ UNCHANGED <<answered, threads>>
  BY DEF ResetRoom, Next, BackendStep
<1> QED
  BY <1>1, ThreadsStayKeeps

LEMMA LeaveRoomKeeps ==
  ASSUME RuntimeInv, NEW t \in Threads, NEW a \in Attempts, LeaveRoom(t, a)
  PROVE  [Next]_vars /\ RuntimeInv'
<1>1. [Next]_vars
  BY DEF LeaveRoom, Next, BackendStep
<1>2. Become(t, [Idle EXCEPT !.pc = "pending"]) /\ UNCHANGED answered
  BY DEF LeaveRoom
<1>3. "pending" \in Free \ {"reconcile"} /\ {} \in SUBSET (Attempts \X Generations \X Nat)
  BY DEF Free
<1> QED
  BY <1>1, <1>2, <1>3, FreeTurnKeeps

-----------------------------------------------------------------------------
(* The cleanup worker *)

LEMMA BatchFits ==
  ASSUME NEW rows \in SUBSET Attempts, NEW batch, TakesSoonest(Limit, rows, batch)
  PROVE  /\ batch \subseteq rows
         /\ Limit - Cardinality(batch) \in 0..Limit
<1>1. batch \subseteq rows /\ batch \subseteq Attempts
  BY DEF TakesSoonest, TakesUpTo
<1>2. IsFiniteSet(rows) /\ IsFiniteSet(batch)
  BY <1>1, FS_Subset, RuntimeAssumption
<1>3. Cardinality(rows) \in Nat /\ Cardinality(batch) \in Nat
  BY <1>2, FS_CardinalityType
<1>4. Cardinality(batch) = (IF Cardinality(rows) < Limit THEN Cardinality(rows) ELSE Limit)
  BY DEF TakesSoonest, TakesUpTo
<1> QED
  BY <1>1, <1>3, <1>4, StoreAssumption

\* A room that exists names sandboxes that exist.
LEMMA RoomNames ==
  ASSUME RuntimeInv, NEW a \in Attempts, attempts[a].state # "NONE"
  PROVE  attempts[a].generation \in Generations /\ attempts[a].version \in Nat
BY DEF RuntimeInv, StoreInv, TypeOK, RoomInv, AttemptShape, Attempt, Generations

LEMMA ReadPendingKeeps ==
  ASSUME RuntimeInv, NEW t \in Threads, ReadPending(t)
  PROVE  [Next]_vars /\ RuntimeInv'
<1>1. UNCHANGED <<store, answered>>
  BY DEF ReadPending
<1>2. [Next]_vars /\ LogGrows
  BY <1>1, SameLogGrows DEF store, vars
<1>3. CASE Become(t, [Idle EXCEPT !.pc = "reconcile", !.left = Limit])
  <2> DEFINE thread == [Idle EXCEPT !.pc = "reconcile", !.left = Limit]
  <2>1. Idle \in Thread /\ "reconcile" \in Steps /\ Limit \in 0..Limit /\ Limit # 0
    BY IdleOK, StoreAssumption DEF ThreadOK, Steps
  <2>2. thread \in Thread /\ thread.pc = "reconcile" /\ thread.left # 0
    BY <2>1 DEF Thread
  <2>3. ThreadOK(thread, answered)
    BY <2>2 DEF ThreadOK, Free, Beginning, AfterCreating, AfterStarting
  <2> HIDE DEF thread
  <2> QED
    BY <1>2, <1>3, <2>3, BecomeTurns, TurnKeeps DEF thread
<1>4. ASSUME NEW batch \in SUBSET Attempts, TakesSoonest(Limit, PendingFinalizations, batch),
             Become(t, [Idle EXCEPT
                          !.pc   = "finalize",
                          !.work = {<<a, attempts[a].generation, 0>> : a \in batch},
                          !.left = Limit - Cardinality(batch)])
      PROVE  [Next]_vars /\ RuntimeInv'
  <2> DEFINE work == {<<a, attempts[a].generation, 0>> : a \in batch}
             left == Limit - Cardinality(batch)
             thread == [Idle EXCEPT !.pc = "finalize", !.work = work, !.left = left]
  <2>1. batch \subseteq PendingFinalizations /\ left \in 0..Limit
    BY <1>4, BatchFits DEF PendingFinalizations
  <2>2. \A a \in batch : a \in Attempts /\ attempts[a].state # "NONE"
    BY <2>1 DEF PendingFinalizations, PendingFinalization
  <2>3. work \in SUBSET (Attempts \X Generations \X Nat)
    BY <2>2, RoomNames
  <2>4. Idle \in Thread /\ "finalize" \in Steps
    BY IdleOK DEF ThreadOK, Steps
  <2> HIDE DEF work, left
  <2>5. thread \in Thread /\ thread.pc = "finalize"
    BY <2>1, <2>3, <2>4 DEF Thread
  <2>6. ThreadOK(thread, answered)
    BY <2>5 DEF ThreadOK, Free, Beginning, AfterCreating, AfterStarting
  <2>7. Become(t, thread)
    BY <1>4 DEF work, left
  <2> HIDE DEF thread
  <2> QED
    BY <1>2, <2>6, <2>7, BecomeTurns, TurnKeeps
<1> QED
  BY <1>3, <1>4 DEF ReadPending

LEMMA FinalizeIsStoreStep ==
  ASSUME RuntimeInv, NEW a \in Attempts, NEW g \in Generations, Finalize(a, g)
  PROVE  [Next]_vars
<1>1. CASE CompleteCleanup(a, g)
  BY <1>1 DEF Next, BackendStep
<1>2. CASE UNCHANGED store
  BY <1>2 DEF store, vars
<1> QED
  BY <1>1, <1>2 DEF Finalize

LEMMA CleanedFollows ==
  ASSUME NEW t, NEW from
  PROVE  Follows(CleanedStep(t), from)
BY DEF CleanedStep, Follows, Steps, Free, Beginning, AfterCreating, AfterStarting

LEMMA FinalizePendingKeeps ==
  ASSUME RuntimeInv, NEW t \in Threads, FinalizePending(t)
  PROVE  [Next]_vars /\ RuntimeInv'
<1>1. threads[t].pc = "finalize" /\ UNCHANGED answered
  BY DEF FinalizePending, At
<1>2. threads \in [Threads -> Thread] /\ ThreadOK(threads[t], answered) /\ LogGrows
  BY <1>1, SameLogGrows DEF RuntimeInv
<1>3. ASSUME NEW task \in threads[t].work, Finalize(task[1], task[2]),
             threads' = [threads EXCEPT ![t].work = @ \ {task}]
      PROVE  [Next]_vars /\ RuntimeInv'
  <2> DEFINE thread == [threads[t] EXCEPT !.work = @ \ {task}]
  <2>1. task[1] \in Attempts /\ task[2] \in Generations
    BY <1>2 DEF Thread
  <2>2. [Next]_vars
    BY <1>3, <2>1, FinalizeIsStoreStep
  <2>3. thread \in Thread /\ thread.pc = "finalize"
    BY <1>1, <1>2 DEF Thread
  <2>4. ThreadOK(thread, answered')
    BY <2>3 DEF ThreadOK, Free, Beginning, AfterCreating, AfterStarting
  <2>5. threads' = [threads EXCEPT ![t] = thread]
    BY <1>2, <1>3
  <2> QED
    BY <1>2, <2>2, <2>4, <2>5, TurnKeeps DEF Turn
<1>4. CASE Goto(t, CleanedStep(t)) /\ UNCHANGED store
  BY <1>1, <1>4, CleanedFollows, QuietGotoKeeps
<1>5. CASE Goto(t, "reconcile") /\ threads[t].left # 0 /\ UNCHANGED store
  <2> DEFINE thread == [threads[t] EXCEPT !.pc = "reconcile"]
  <2>1. thread \in Thread /\ thread.pc = "reconcile" /\ thread.left # 0
    BY <1>2, <1>5 DEF Thread, Steps
  <2>2. ThreadOK(thread, answered')
    BY <2>1 DEF ThreadOK, Free, Beginning, AfterCreating, AfterStarting
  <2>3. threads' = [threads EXCEPT ![t] = thread]
    BY <1>2, <1>5 DEF Goto
  <2>4. [Next]_vars
    BY <1>5 DEF store, vars
  <2> QED
    BY <1>2, <2>2, <2>3, <2>4, TurnKeeps DEF Turn
<1> QED
  BY <1>3, <1>4, <1>5 DEF FinalizePending

\* A pass asks for no more rows than are left to it, and for at least one.
LEMMA ReconcileTasksKeeps ==
  ASSUME RuntimeInv, NEW t \in Threads, ReconcileTasks(t)
  PROVE  [Next]_vars /\ RuntimeInv'
<1>1. threads[t].pc = "reconcile" /\ UNCHANGED answered
  BY DEF ReconcileTasks, At
<1>2. threads \in [Threads -> Thread] /\ ThreadOK(threads[t], answered) /\ LogGrows
  BY <1>1, SameLogGrows DEF RuntimeInv
<1>3. CASE Goto(t, CleanedStep(t)) /\ UNCHANGED store
  BY <1>1, <1>3, CleanedFollows, QuietGotoKeeps
<1>4. ASSUME NEW batch \in SUBSET CleanupDue, Reconcile(batch, threads[t].left),
             threads' = [threads EXCEPT
                           ![t].pc = "clean",
                           ![t].work = {<<x[1], x[2], resources'[x[1]][x[2]].version>> :
                                          x \in batch}]
      PROVE  [Next]_vars /\ RuntimeInv'
  <2> DEFINE work == {<<x[1], x[2], resources'[x[1]][x[2]].version>> : x \in batch}
             thread == [threads[t] EXCEPT !.pc = "clean", !.work = work]
  <2>1. threads[t].left \in 1..Limit
    BY <1>1, <1>2, StoreAssumption DEF ThreadOK, Thread
  <2>2. [Next]_vars
    BY <1>4, <2>1 DEF Next, ReconcileSome
  <2>3. resources' \in [Attempts -> [Generations -> Resource]]
    BY <2>2, EveryStepKeeps DEF RuntimeInv, StoreInv, TypeOK
  <2>4. \A x \in batch : /\ x[1] \in Attempts /\ x[2] \in Generations
                         /\ resources'[x[1]][x[2]].version \in Nat
    BY <2>3 DEF CleanupDue, Resource
  <2>5. work \in SUBSET (Attempts \X Generations \X Nat)
    BY <2>4
  <2> HIDE DEF work
  <2>6. thread \in Thread /\ thread.pc = "clean"
    <3>1. threads[t] \in Thread
      BY <1>2
    <3>2. "clean" \in Steps
      BY DEF Steps
    <3> HIDE DEF work
    <3> QED
      BY <2>5, <3>1, <3>2 DEF Thread
  <2>7. ThreadOK(thread, answered')
    BY <2>6 DEF ThreadOK, Free, Beginning, AfterCreating, AfterStarting
  <2>8. threads' = [threads EXCEPT ![t].pc = "clean", ![t].work = work]
    BY <1>4 DEF work
  <2>9. threads' = [threads EXCEPT ![t] = thread]
    BY <1>2, <2>8
  <2> QED
    BY <1>2, <2>2, <2>7, <2>9, TurnKeeps DEF Turn
<1> QED
  BY <1>3, <1>4 DEF ReconcileTasks

LEMMA NextTaskTurns ==
  ASSUME NEW t \in Threads, NextTask(t)
  PROVE  \/ Goto(t, CleanedStep(t))
         \/ \E task \in threads[t].work, step \in {"destroy", "clean"} :
              threads' = [threads EXCEPT
                            ![t].pc   = step,
                            ![t].a    = task[1],
                            ![t].g    = task[2],
                            ![t].v    = task[3],
                            ![t].work = @ \ {task}]
<1>1. ASSUME NEW task \in threads[t].work, NEW ready,
             threads' = [threads EXCEPT
                           ![t].pc   = IF ready THEN "destroy" ELSE "clean",
                           ![t].a    = task[1],
                           ![t].g    = task[2],
                           ![t].v    = task[3],
                           ![t].work = @ \ {task}]
      PROVE  \E step \in {"destroy", "clean"} :
               threads' = [threads EXCEPT
                             ![t].pc   = step,
                             ![t].a    = task[1],
                             ![t].g    = task[2],
                             ![t].v    = task[3],
                             ![t].work = @ \ {task}]
  <2>1. CASE ready
    BY <1>1, <2>1
  <2>2. CASE ~ready
    BY <1>1, <2>2
  <2> QED
    BY <2>1, <2>2
<1> QED
  BY <1>1, ZenonT(30) DEF NextTask

LEMMA NextTaskKeeps ==
  ASSUME RuntimeInv, NEW t \in Threads, NextTask(t)
  PROVE  [Next]_vars /\ RuntimeInv'
<1>1. threads[t].pc = "clean" /\ UNCHANGED <<store, answered>>
  BY DEF NextTask, At
<1>2. /\ threads \in [Threads -> Thread] /\ ThreadOK(threads[t], answered) /\ LogGrows
      /\ [Next]_vars
  BY <1>1, SameLogGrows DEF RuntimeInv, store, vars
<1>3. CASE Goto(t, CleanedStep(t))
  BY <1>1, <1>3, CleanedFollows, QuietGotoKeeps
<1>4. ASSUME NEW task \in threads[t].work, NEW step \in {"destroy", "clean"},
             threads' = [threads EXCEPT
                           ![t].pc   = step,
                           ![t].a    = task[1],
                           ![t].g    = task[2],
                           ![t].v    = task[3],
                           ![t].work = @ \ {task}]
      PROVE  RuntimeInv'
  <2> DEFINE thread == [threads[t] EXCEPT !.pc = step, !.a = task[1], !.g = task[2],
                                          !.v = task[3], !.work = @ \ {task}]
  <2>1. /\ task[1] \in Attempts /\ task[2] \in Generations /\ task[3] \in Nat
        /\ task[2] \in 0..MaxGeneration /\ step \in Steps
    BY <1>2, StoreAssumption DEF Thread, Generations, Steps
  <2>2. threads' = [threads EXCEPT ![t] = thread]
    BY <1>2, <1>4
  <2>3. /\ thread \in Thread /\ thread.pc = step
        /\ thread.a \in Attempts /\ thread.g \in Generations
    BY <1>2, <2>1 DEF Thread
  <2> HIDE DEF thread
  <2>4. ThreadOK(thread, answered')
    BY <2>3 DEF ThreadOK, Free, Beginning, AfterCreating, AfterStarting
  <2> QED
    BY <1>2, <2>2, <2>4, TurnKeeps DEF Turn
<1>5. \/ Goto(t, CleanedStep(t))
      \/ \E task \in threads[t].work, step \in {"destroy", "clean"} :
           threads' = [threads EXCEPT
                         ![t].pc   = step,
                         ![t].a    = task[1],
                         ![t].g    = task[2],
                         ![t].v    = task[3],
                         ![t].work = @ \ {task}]
  BY NextTaskTurns
<1> QED
  BY <1>2, <1>3, <1>4, <1>5

LEMMA CleanupFailedIsStoreStep ==
  ASSUME RuntimeInv, NEW a \in Attempts, NEW g \in Generations, NEW v,
         clock < MaxTime, CleanupFailed(a, g, v, clock + 1)
  PROVE  [Next]_vars
<1>1. resources[a][g].version = v
  BY DEF CleanupFailed, CleanupFailedOk
<1>2. clock + 1 \in 1..MaxTime
  BY StoreAssumption DEF RuntimeInv, StoreInv, TypeOK
<1> QED
  BY <1>1, <1>2 DEF Next, ControlStep

LEMMA CleanOneKeeps ==
  ASSUME RuntimeInv, NEW t \in Threads,
         DestroyContainer(t) \/ RecordDestroyed(t) \/ RecordFailure(t) \/ FinalizeTask(t)
  PROVE  [Next]_vars /\ RuntimeInv'
<1> DEFINE a == threads[t].a
           g == threads[t].g
           v == threads[t].v
<1>1. /\ UNCHANGED answered
      /\ \/ threads[t].pc = "destroy" /\ (Goto(t, "record") \/ Goto(t, "retry"))
         \/ threads[t].pc = "record" /\ (Goto(t, "close") \/ Goto(t, "clean"))
         \/ threads[t].pc = "retry" /\ Goto(t, "clean")
         \/ threads[t].pc = "close" /\ Goto(t, "clean")
  BY DEF DestroyContainer, RecordDestroyed, RecordFailure, FinalizeTask, At
<1>2. a \in Attempts /\ g \in Generations
  BY <1>1, AtHand DEF Free
<1>3. [Next]_vars
  <2>1. \/ Transition(a, g, v, "DESTROYED")
        \/ clock < MaxTime /\ CleanupFailed(a, g, v, clock + 1)
        \/ Finalize(a, g)
        \/ UNCHANGED store
    BY DEF DestroyContainer, RecordDestroyed, RecordFailure, FinalizeTask
  <2>2. CASE Transition(a, g, v, "DESTROYED")
    <3>1. resources[a][g].version = v /\ Requested(a, g, "DESTROYED") /\ "DESTROYED" \in ResourceStates
      BY <2>2 DEF Transition, TransitionOk, Requested, ResourceStates
    <3> QED
      BY <1>2, <2>2, <3>1 DEF Next, ControlStep
  <2>3. CASE UNCHANGED store
    BY <2>3 DEF store, vars
  <2> QED
    BY <1>2, <2>1, <2>2, <2>3, CleanupFailedIsStoreStep, FinalizeIsStoreStep
<1>4. \E step : Goto(t, step) /\ Follows(step, threads[t].pc)
  <2>1. /\ Follows("record", "destroy") /\ Follows("retry", "destroy")
        /\ Follows("close", "record") /\ \A from : Follows("clean", from)
    BY DEF Follows, Steps, Free, Beginning, AfterCreating, AfterStarting
  <2> QED
    BY <1>1, <2>1
<1>5. LogGrows
  BY <1>1, SameLogGrows
<1>6. \E thread : Turn(t, thread)
  BY <1>4, <1>5, GotoTurns DEF Follows
<1> QED
  BY <1>3, <1>5, <1>6, TurnKeeps

LEMMA CleanKeeps ==
  ASSUME RuntimeInv, NEW t \in Threads, Clean(t)
  PROVE  [Next]_vars /\ RuntimeInv'
BY ReadPendingKeeps, FinalizePendingKeeps, ReconcileTasksKeeps, NextTaskKeeps, CleanOneKeeps DEF Clean

-----------------------------------------------------------------------------
(* Maintenance and the lifespan of the process *)

LEMMA ExpirePassKeeps ==
  ASSUME RuntimeInv, NEW t \in Threads, ExpirePass(t)
  PROVE  [Next]_vars /\ RuntimeInv'
<1>1. Goto(t, "pending") /\ UNCHANGED answered /\ (ExpireSome \/ UNCHANGED store)
  BY DEF ExpirePass
<1>2. [Next]_vars
  BY <1>1 DEF Next, store, vars
<1>3. Follows("pending", threads[t].pc)
  BY DEF Follows, Steps, Free, Beginning, AfterCreating, AfterStarting
<1>4. LogGrows
  BY <1>1, SameLogGrows
<1>5. \E thread : Turn(t, thread)
  BY <1>1, <1>3, <1>4, GotoTurns DEF Follows
<1> QED
  BY <1>2, <1>4, <1>5, TurnKeeps

LEMMA ListResetsKeeps ==
  ASSUME RuntimeInv, NEW t \in Threads, ListResets(t)
  PROVE  [Next]_vars /\ RuntimeInv'
<1>1. UNCHANGED <<store, answered>>
  BY DEF ListResets
<1>2. [Next]_vars
  BY <1>1 DEF store, vars
<1>3. "next" \in Free \ {"reconcile"} /\ {} \in SUBSET (Attempts \X Generations \X Nat)
  BY DEF Free
<1>4. CASE Become(t, [Idle EXCEPT !.pc = "next"])
  BY <1>1, <1>2, <1>3, <1>4, FreeTurnKeeps
<1>5. ASSUME NEW batch \in SUBSET Attempts, TakesSoonest(Limit, ResumableResets, batch),
             Become(t, [Idle EXCEPT
                          !.pc   = "next",
                          !.work = {<<a, attempts[a].generation, attempts[a].version>> :
                                      a \in batch}])
      PROVE  [Next]_vars /\ RuntimeInv'
  <2> DEFINE work == {<<a, attempts[a].generation, attempts[a].version>> : a \in batch}
  <2>1. \A a \in batch : a \in Attempts /\ attempts[a].state # "NONE"
    <3>1. ResumableResets \in SUBSET Attempts
      BY DEF ResumableResets
    <3>2. batch \subseteq ResumableResets
      BY <1>5, <3>1, BatchFits
    <3>3. \A a \in ResumableResets : attempts[a].state = "RESETTING"
      BY DEF ResumableResets, ResumableReset
    <3> QED
      BY <3>1, <3>2, <3>3
  <2>2. work \in SUBSET (Attempts \X Generations \X Nat)
    BY <2>1, RoomNames
  <2> HIDE DEF work
  <2>3. Become(t, [Idle EXCEPT !.pc = "next", !.work = work])
    BY <1>5 DEF work
  <2> QED
    BY <1>1, <1>2, <1>3, <2>2, <2>3, FreeTurnKeeps
<1> QED
  BY <1>4, <1>5 DEF ListResets

LEMMA ResumeNextKeeps ==
  ASSUME RuntimeInv, NEW t \in Threads, ResumeNext(t)
  PROVE  [Next]_vars /\ RuntimeInv'
<1>1. UNCHANGED <<store, answered>>
  BY DEF ResumeNext
<1>2. [Next]_vars /\ LogGrows
  BY <1>1, SameLogGrows DEF store, vars
<1>3. PICK receipt \in threads[t].work :
        Become(t, [Idle EXCEPT !.pc = "accept", !.a = receipt[1], !.g = receipt[2],
                               !.rv = receipt[3], !.work = threads[t].work \ {receipt}])
  BY DEF ResumeNext
<1> DEFINE work == threads[t].work \ {receipt}
           thread == [Idle EXCEPT !.pc = "accept", !.a = receipt[1], !.g = receipt[2],
                                  !.rv = receipt[3], !.work = work]
<1>4. threads[t] \in Thread
  BY DEF RuntimeInv
<1>5. /\ receipt[1] \in Attempts /\ receipt[2] \in Generations /\ receipt[3] \in Nat
      /\ receipt[2] \in 0..MaxGeneration
      /\ work \in SUBSET (Attempts \X Generations \X Nat)
  BY <1>3, <1>4, StoreAssumption DEF Thread, Generations
<1>6. Become(t, thread)
  BY <1>3
<1> HIDE DEF work
<1>7. Idle \in Thread /\ Idle.v = 0 /\ "accept" \in Steps
  BY IdleOK DEF ThreadOK, Idle, Steps
<1>8. /\ thread \in Thread /\ thread.pc = "accept"
      /\ thread.a \in Attempts /\ thread.g \in Generations /\ thread.v = 0
  BY <1>5, <1>7 DEF Thread
<1> HIDE DEF thread
<1>9. ThreadOK(thread, answered)
  BY <1>8 DEF ThreadOK, AfterCreating, AfterStarting
<1> QED
  BY <1>2, <1>6, <1>9, BecomeTurns, TurnKeeps

\* The process starts, repeats its pass, stops and crashes; the store does not
\* notice.
LEMMA LifespanKeeps ==
  ASSUME RuntimeInv, Lifespan \/ \E t \in Threads : PassDone(t)
  PROVE  [Next]_vars /\ RuntimeInv'
<1>1. UNCHANGED <<store, answered>>
  BY DEF Lifespan, PassDone, Start, RepeatMaintenance, Shutdown, StartupFails, Exit, Crash
<1>2. [Next]_vars
  BY <1>1 DEF store, vars
<1>3. \A t \in Maintainers : t \in Threads
  BY DEF Threads
<1>4. {"expire", "idle"} \subseteq Free \ {"reconcile"} /\ {} \in SUBSET (Attempts \X Generations \X Nat)
  BY DEF Free
<1>5. CASE \E t \in Threads : Become(t, Idle) \/ Become(t, [Idle EXCEPT !.pc = "expire"])
  BY <1>1, <1>2, <1>4, <1>5, FreeTurnKeeps
<1>6. CASE UNCHANGED threads
  BY <1>1, <1>2, <1>6, ThreadsStayKeeps
<1>7. CASE threads' = [t \in Threads |-> Idle]
  <2>1. threads' \in [Threads -> Thread] /\ \A t \in Threads : ThreadOK(threads'[t], answered')
    BY <1>7, IdleOK DEF ThreadOK
  <2>2. StoreInv' /\ answered' \in Log
    BY <1>1, <1>2, EveryStepKeeps DEF RuntimeInv
  <2>3. \A a \in Attempts, g \in Generations : Reported(a, g)'
    BY <1>1, <1>2, SameLogGrows, ReportedStays
  <2> QED
    BY <1>2, <2>1, <2>2, <2>3 DEF RuntimeInv
<1> QED
  BY <1>3, <1>5, <1>6, <1>7
  DEF Lifespan, PassDone, Start, RepeatMaintenance, Shutdown, StartupFails, Exit, Crash

LEMMA EveryRuntimeStep ==
  ASSUME RuntimeInv, [RuntimeNext]_runtimeVars
  PROVE  [Next]_vars /\ RuntimeInv'
<1>1. ASSUME NEW t \in Threads, ThreadStep(t)
      PROVE  [Next]_vars /\ RuntimeInv'
  BY <1>1, ProvisionKeeps, LeaveFailedEntryKeeps, CleanKeeps, ExpirePassKeeps, ListResetsKeeps,
     ResumeNextKeeps, LifespanKeeps
  DEF ThreadStep
<1>2. CASE Request
  <2>1. \A t \in Enterers \cup Leavers : t \in Threads
    BY DEF Threads
  <2> QED
    BY <1>2, <2>1, EnterRoomKeeps, ResetRoomKeeps, LeaveRoomKeeps DEF Request
<1>3. CASE Lifespan
  BY <1>3, LifespanKeeps
<1>4. CASE Daemon
  <2>1. UNCHANGED <<store, answered, threads>>
    BY <1>4 DEF Daemon, DaemonCreates, ContainerExits
  <2> QED
    BY <2>1, ThreadsStayKeeps DEF store, vars
<1>5. CASE TimePasses
  <2>1. [Next]_vars /\ UNCHANGED <<answered, threads>>
    BY <1>5 DEF TimePasses, Next
  <2> QED
    BY <2>1, ThreadsStayKeeps
<1>6. CASE UNCHANGED runtimeVars
  <2>1. UNCHANGED <<store, answered, threads>>
    BY <1>6 DEF runtimeVars
  <2> QED
    BY <2>1, ThreadsStayKeeps DEF store, vars
<1> QED
  BY <1>1, <1>2, <1>3, <1>4, <1>5, <1>6 DEF RuntimeNext

THEOREM RuntimeInvariant == RuntimeSpec => []RuntimeInv
<1>1. RuntimeInv /\ [RuntimeNext]_runtimeVars => RuntimeInv'
  BY EveryRuntimeStep
<1> QED
  BY <1>1, RuntimeInitHolds, PTL DEF RuntimeSpec

\* The runtime implements the store: every write that any of its threads makes,
\* in any interleaving, with any crash and any answer of Docker, is a step the
\* store allows.
THEOREM RuntimeImplementsStore == RuntimeSpec => WritesAreStoreSteps
<1>1. RuntimeInit => Init
  BY DEF RuntimeInit
<1>2. RuntimeInv /\ [RuntimeNext]_runtimeVars => [Next]_vars
  BY EveryRuntimeStep
<1> QED
  BY <1>1, <1>2, RuntimeInvariant, PTL DEF RuntimeSpec, WritesAreStoreSteps, Spec

\* So the runtime never has two sandboxes of a room in use, and offers a room
\* over a verified sandbox alone.
THEOREM RuntimeRoomsAreVerified == RuntimeSpec => [](ReplacementWaits /\ PublishedIsVerified)
  BY RuntimeImplementsStore, ReplacementAlwaysWaits, PublishedAlwaysVerified, PTL
  DEF WritesAreStoreSteps

\* However its threads crash, fail and overlap, the runtime never leaves behind a
\* room that is over and that no pass of the cleanup worker can take further.
THEOREM RuntimeStrandsNothing == RuntimeSpec => []NothingIsStranded
  BY RuntimeImplementsStore, NothingIsEverStranded, PTL DEF WritesAreStoreSteps

\* And the runtime keeps the promise of the store: however its threads interleave,
\* crash and repeat themselves, at most one sandbox of a room is in use, a room is
\* offered over one, and closed when none is held.
THEOREM RuntimeKeepsPromise == RuntimeSpec => KeepsPromise
  BY RuntimeImplementsStore, StoreAlwaysKeepsPromise, PTL DEF WritesAreStoreSteps

-----------------------------------------------------------------------------
(* What a step does to the threads *)

\* The steps of a cleanup pass, and those of one provisioning.
Cleaning == {"expire", "pending", "finalize", "reconcile", "clean", "destroy", "record",
             "retry", "close"}

Provisioning == Steps \ (Cleaning \cup {"idle", "resume", "next"})

Busy(t) == threads[t].pc # "idle"

\* All of a thread that another thread leaves alone.
SameButOwn(old, new) ==
  /\ new.pc = old.pc /\ new.a = old.a /\ new.g = old.g
  /\ new.v = old.v /\ new.work = old.work

OthersStay(t) == \A s \in Threads \ {t} : SameButOwn(threads[s], threads'[s])

LEMMA WrittenThreadStays ==
  ASSUME threads \in [Threads -> Thread], NEW t \in Threads, NEW thread,
         threads' = [threads EXCEPT ![t] = thread]
  PROVE  OthersStay(t) /\ threads'[t] = thread
BY DEF OthersStay, SameButOwn

LEMMA ThreadsStay ==
  ASSUME UNCHANGED threads
  PROVE  \A s \in Threads : SameButOwn(threads[s], threads'[s])
BY DEF SameButOwn

LEMMA GotoStays ==
  ASSUME threads \in [Threads -> Thread], NEW t \in Threads, NEW step, Goto(t, step)
  PROVE  /\ OthersStay(t)
         /\ threads'[t] = [threads[t] EXCEPT !.pc = step]
         /\ threads'[t].pc = step
         /\ threads'[t].a = threads[t].a /\ threads'[t].g = threads[t].g
         /\ threads'[t].v = threads[t].v /\ threads'[t].work = threads[t].work
<1>1. threads' = [threads EXCEPT ![t] = [threads[t] EXCEPT !.pc = step]]
  BY DEF Goto
<1>2. threads[t] \in Thread
  OBVIOUS
<1> QED
  BY <1>1, <1>2, WrittenThreadStays DEF Thread

LEMMA CreateGoes ==
  ASSUME RuntimeInv, NEW t \in Threads, CreateContainer(t)
  PROVE  threads[t].pc = "create" /\ threads'[t].pc \in {"starting", "createfailed"}
<1>1. threads \in [Threads -> Thread] /\ threads[t] \in Thread
  BY DEF RuntimeInv
<1>2. ASSUME NEW step, Goto(t, step)
      PROVE  threads'[t].pc = step
  BY <1>1, <1>2, GotoStays
<1>3. ASSUME NEW step, threads'[t] = [threads[t] EXCEPT !.pc = step, !.own = TRUE]
      PROVE  threads'[t].pc = step
  BY <1>1, <1>3 DEF Thread
<1>4. \/ Goto(t, "starting") \/ Goto(t, "createfailed")
      \/ threads'[t] = [threads[t] EXCEPT !.pc = "starting", !.own = TRUE]
      \/ threads'[t] = [threads[t] EXCEPT !.pc = "createfailed", !.own = TRUE]
  BY DEF CreateContainer
<1> QED
  BY <1>2, <1>3, <1>4 DEF CreateContainer, At

LEMMA BecomeStays ==
  ASSUME threads \in [Threads -> Thread], NEW t \in Threads, NEW thread, Become(t, thread)
  PROVE  OthersStay(t) /\ threads'[t] = thread
BY WrittenThreadStays DEF Become

\* A report is a move of its thread to one of two steps.
LEMMA ReportStays ==
  ASSUME threads \in [Threads -> Thread], NEW t \in Threads, NEW v, NEW state, NEW label,
         NEW next, NEW refused, Report(t, v, state, label, next, refused)
  PROVE  /\ OthersStay(t)
         /\ threads'[t].pc \in {next, refused}
         /\ threads'[t].a = threads[t].a /\ threads'[t].g = threads[t].g
         /\ threads'[t].work = threads[t].work
<1>1. CASE threads' = [threads EXCEPT ![t].pc = next, ![t].v = v + 1]
  <2>1. threads' = [threads EXCEPT ![t] = [threads[t] EXCEPT !.pc = next, !.v = v + 1]]
    BY <1>1
  <2>2. threads[t] \in Thread
    OBVIOUS
  <2> QED
    BY <2>1, <2>2, WrittenThreadStays DEF Thread
<1>2. CASE Goto(t, refused)
  BY <1>2, GotoStays
<1> QED
  BY <1>1, <1>2 DEF Report

\* How a provisioning goes on, or ends.
ProvisioningMoves(t) ==
  /\ OthersStay(t)
  /\ threads[t].pc \in Provisioning
  /\ \/ /\ threads'[t].pc \in Provisioning \ {"accept"}
        /\ threads'[t].a = threads[t].a /\ threads'[t].g = threads[t].g
        /\ threads'[t].work = threads[t].work
     \/ threads'[t].pc = "idle"
     \/ /\ t \in Maintainers
        /\ threads'[t].pc = "next" /\ threads'[t].work = threads[t].work

LEMMA FailedStepIs ==
  ASSUME NEW t
  PROVE  FailedStep(t) \in {"idle"} \cup (Provisioning \ {"accept"})
BY DEF FailedStep, Provisioning, Steps, Cleaning

LEMMA ProvisionMoves ==
  ASSUME threads \in [Threads -> Thread], NEW t \in Threads, Provision(t)
  PROVE  ProvisioningMoves(t)
<1> DEFINE goes == {"idle"} \cup (Provisioning \ {"accept"})
<1>1. FailedStep(t) \in goes
  BY FailedStepIs
<1>2. /\ {"inspect", "publish", "creating", "created", "open", "create", "createfailed",
          "starting", "started", "start", "startfailed", "undo", "bootstrap",
          "bootstrapfailed", "ready", "readied", "failreset"} \subseteq goes
      /\ {"accept", "inspect", "publish", "creating", "created", "open", "create",
          "createfailed", "starting", "started", "start", "startfailed", "undo", "bootstrap",
          "bootstrapfailed", "ready", "readied", "failreset"} \subseteq Provisioning
  BY DEF Provisioning, Steps, Cleaning
<1>3. ASSUME NEW step \in goes, threads[t].pc \in Provisioning, Goto(t, step)
      PROVE  ProvisioningMoves(t)
  BY <1>3, GotoStays DEF ProvisioningMoves
<1>4. ASSUME NEW v, NEW state, NEW label, NEW next \in goes, NEW refused \in goes,
             threads[t].pc \in Provisioning, Report(t, v, state, label, next, refused)
      PROVE  ProvisioningMoves(t)
  BY <1>4, ReportStays DEF ProvisioningMoves
<1> HIDE DEF goes
<1>5. CASE \/ AcceptReceipt(t) \/ InspectAccepted(t) \/ ConfirmCreating(t) \/ OpenRuntime(t)
           \/ ConfirmStarting(t) \/ StartContainer(t) \/ Bootstrap(t) \/ FailTheReset(t)
           \/ ConfirmReady(t)
  <2>1. threads[t].pc \in Provisioning
    BY <1>2, <1>5 DEF AcceptReceipt, InspectAccepted, ConfirmCreating, OpenRuntime,
      ConfirmStarting, StartContainer, Bootstrap, FailTheReset, ConfirmReady, At
  <2>2. \E step \in goes : Goto(t, step)
    BY <1>1, <1>2, <1>5 DEF AcceptReceipt, InspectAccepted, ConfirmCreating, OpenRuntime,
      ConfirmStarting, StartContainer, Bootstrap, FailTheReset, ConfirmReady, Confirm
  <2> QED
    BY <1>3, <2>1, <2>2
<1>6. CASE ReportCreating(t) \/ ReportStarting(t) \/ ReportFailed(t) \/ ReportReady(t)
  <2>1. threads[t].pc \in Provisioning
    BY <1>2, <1>6 DEF ReportCreating, ReportStarting, ReportFailed, ReportReady, At
  <2>2. \E v, state, label : \E next, refused \in goes :
          Report(t, v, state, label, next, refused)
    BY <1>1, <1>2, <1>6 DEF ReportCreating, ReportStarting, ReportFailed, ReportReady
  <2> QED
    BY <1>4, <2>1, <2>2
<1>7. CASE CreateContainer(t)
  <2> DEFINE owned(step) == threads' = [s \in Threads |->
               IF s = t THEN [threads[t] EXCEPT !.pc = step, !.own = TRUE]
               ELSE IF threads[s].a = threads[t].a /\ threads[s].g = threads[t].g
                    THEN [threads[s] EXCEPT !.own = FALSE]
                    ELSE threads[s]]
  <2>1. threads[t].pc \in Provisioning
    BY <1>2, <1>7 DEF CreateContainer, At
  <2>2. ASSUME NEW step \in goes, owned(step)
        PROVE  ProvisioningMoves(t)
    <3>1. \A s \in Threads : threads[s] \in Thread
      OBVIOUS
    <3>2. OthersStay(t)
      BY <2>2, <3>1 DEF OthersStay, SameButOwn, Thread
    <3>3. /\ threads'[t].pc = step /\ threads'[t].work = threads[t].work
          /\ threads'[t].a = threads[t].a /\ threads'[t].g = threads[t].g
      BY <2>2, <3>1 DEF Thread
    <3> QED
      BY <2>1, <3>2, <3>3 DEF ProvisioningMoves, goes
  <2>3. \/ Goto(t, "starting") \/ Goto(t, "createfailed")
        \/ owned("starting") \/ owned("createfailed")
    BY <1>7 DEF CreateContainer
  <2>4. "starting" \in goes /\ "createfailed" \in goes
    BY <1>2
  <2> HIDE DEF owned
  <2> QED
    BY <1>3, <2>1, <2>2, <2>3, <2>4
<1>8. CASE UndoCreate(t)
  <2> DEFINE thread == [threads[t] EXCEPT !.pc = FailedStep(t), !.own = FALSE]
  <2>1. threads' = [threads EXCEPT ![t] = thread] /\ threads[t].pc \in Provisioning
    BY <1>2, <1>8 DEF UndoCreate, At
  <2>2. threads[t] \in Thread
    OBVIOUS
  <2>3. /\ thread.pc = FailedStep(t) /\ thread.work = threads[t].work
        /\ thread.a = threads[t].a /\ thread.g = threads[t].g
    BY <2>2 DEF Thread
  <2> HIDE DEF thread
  <2> QED
    BY <1>1, <2>1, <2>3, WrittenThreadStays DEF ProvisioningMoves, goes
<1>9. CASE Publish(t)
  <2> DEFINE done == IF t \in Maintainers
                     THEN [Idle EXCEPT !.pc = "next", !.work = threads[t].work]
                     ELSE Idle
  <2>1. threads[t].pc \in Provisioning /\ (Become(t, done) \/ Goto(t, FailedStep(t)))
    BY <1>2, <1>9 DEF Publish, At
  <2>2. /\ t \in Maintainers => done.pc = "next" /\ done.work = threads[t].work
        /\ t \notin Maintainers => done.pc = "idle"
    BY DEF Idle
  <2> HIDE DEF done
  <2>3. ASSUME Become(t, done)
        PROVE  ProvisioningMoves(t)
    BY <2>1, <2>2, <2>3, BecomeStays DEF ProvisioningMoves
  <2> QED
    BY <1>1, <1>3, <2>1, <2>3
<1> QED
  BY <1>5, <1>6, <1>7, <1>8, <1>9 DEF Provision

\* How a cleanup pass goes on, or ends.
CleaningMoves(t) ==
  /\ OthersStay(t)
  /\ threads[t].pc \in Cleaning
  /\ threads'[t].pc \in Cleaning \cup {CleanedStep(t)}

LEMMA CleanMoves ==
  ASSUME RuntimeInv, NEW t \in Threads, Clean(t) \/ ExpirePass(t)
  PROVE  CleaningMoves(t)
<1>0. threads \in [Threads -> Thread]
  BY DEF RuntimeInv
<1>1. threads[t].pc \in Cleaning
  BY DEF Clean, ReadPending, FinalizePending, ReconcileTasks, NextTask, DestroyContainer,
    RecordDestroyed, RecordFailure, FinalizeTask, ExpirePass, At, Cleaning
<1>2. ASSUME NEW step \in Cleaning \cup {CleanedStep(t)}, Goto(t, step)
      PROVE  CleaningMoves(t)
  BY <1>0, <1>1, <1>2, GotoStays DEF CleaningMoves
<1>3. CASE DestroyContainer(t) \/ RecordDestroyed(t) \/ RecordFailure(t) \/ FinalizeTask(t)
           \/ ExpirePass(t)
  <2>1. \/ Goto(t, "record") \/ Goto(t, "retry") \/ Goto(t, "close") \/ Goto(t, "clean")
        \/ Goto(t, "pending")
    BY <1>3 DEF DestroyContainer, RecordDestroyed, RecordFailure, FinalizeTask, ExpirePass
  <2> QED
    BY <1>2, <2>1 DEF Cleaning
<1>4. CASE ReadPending(t)
  <2>1. \E thread : Become(t, thread) /\ thread.pc \in {"reconcile", "finalize"}
    <3>1. /\ [Idle EXCEPT !.pc = "reconcile", !.left = Limit].pc = "reconcile"
          /\ \A work, left :
               [Idle EXCEPT !.pc = "finalize", !.work = work, !.left = left].pc = "finalize"
      BY DEF Idle
    <3>2. \/ Become(t, [Idle EXCEPT !.pc = "reconcile", !.left = Limit])
          \/ \E work, left :
               Become(t, [Idle EXCEPT !.pc = "finalize", !.work = work, !.left = left])
      BY <1>4 DEF ReadPending
    <3> QED
      BY <3>1, <3>2
  <2> QED
    BY <1>0, <1>1, <2>1, BecomeStays DEF CleaningMoves, Cleaning
<1>5. ASSUME NEW work, threads' = [threads EXCEPT ![t].work = work]
      PROVE  OthersStay(t) /\ threads'[t].pc = threads[t].pc
  <2>1. threads' = [threads EXCEPT ![t] = [threads[t] EXCEPT !.work = work]]
    BY <1>5
  <2>2. threads[t] \in Thread
    BY <1>0
  <2> QED
    BY <1>0, <2>1, <2>2, WrittenThreadStays DEF Thread
<1>6. CASE FinalizePending(t)
  <2>1. \/ \E work : threads' = [threads EXCEPT ![t].work = work]
        \/ Goto(t, CleanedStep(t)) \/ Goto(t, "reconcile")
    BY <1>0, <1>6 DEF FinalizePending
  <2> QED
    BY <1>1, <1>2, <1>5, <2>1 DEF Cleaning, CleaningMoves
<1>7. CASE ReconcileTasks(t)
  <2>1. ASSUME NEW work, threads' = [threads EXCEPT ![t].pc = "clean", ![t].work = work]
        PROVE  OthersStay(t) /\ threads'[t].pc = "clean"
    <3>1. threads' = [threads EXCEPT ![t] = [threads[t] EXCEPT !.pc = "clean", !.work = work]]
      BY <2>1
    <3>2. threads[t] \in Thread
      BY <1>0
    <3> QED
      BY <1>0, <3>1, <3>2, WrittenThreadStays DEF Thread
  <2>2. \/ Goto(t, CleanedStep(t))
        \/ \E work : threads' = [threads EXCEPT ![t].pc = "clean", ![t].work = work]
    BY <1>7 DEF ReconcileTasks
  <2> QED
    BY <1>1, <1>2, <2>1, <2>2 DEF Cleaning, CleaningMoves
<1>8. CASE NextTask(t)
  <2>1. ASSUME NEW step \in {"destroy", "clean"}, NEW task,
               threads' = [threads EXCEPT ![t].pc = step, ![t].a = task[1], ![t].g = task[2],
                                          ![t].v = task[3], ![t].work = @ \ {task}]
        PROVE  OthersStay(t) /\ threads'[t].pc = step
    <3>1. threads' = [threads EXCEPT ![t] =
                        [threads[t] EXCEPT !.pc = step, !.a = task[1], !.g = task[2],
                                           !.v = task[3], !.work = @ \ {task}]]
      BY <2>1
    <3>2. threads[t] \in Thread
      BY <1>0
    <3> QED
      BY <1>0, <3>1, <3>2, WrittenThreadStays DEF Thread
  <2>2. CASE Goto(t, CleanedStep(t))
    BY <1>1, <1>2, <2>2 DEF CleaningMoves
  <2>3. ASSUME NEW task \in threads[t].work, NEW step \in {"destroy", "clean"},
               threads' = [threads EXCEPT ![t].pc = step, ![t].a = task[1], ![t].g = task[2],
                                          ![t].v = task[3], ![t].work = @ \ {task}]
        PROVE  CleaningMoves(t)
    <3>1. OthersStay(t) /\ threads'[t].pc = step
      BY <2>1, <2>3
    <3> QED
      BY <1>1, <3>1 DEF Cleaning, CleaningMoves
  <2> QED
    BY <1>8, <2>2, <2>3, NextTaskTurns
<1> QED
  BY <1>3, <1>4, <1>6, <1>7, <1>8 DEF Clean

\* What a busy thread does between its cleanup and its provisionings.
ResumingMoves(t) ==
  /\ OthersStay(t)
  /\ threads[t].pc \in {"resume", "next", "leave"}
  /\ threads'[t].pc \in {"next", "accept", "idle"}

LEMMA ResumeMoves ==
  ASSUME RuntimeInv, NEW t \in Threads,
         ListResets(t) \/ ResumeNext(t) \/ PassDone(t) \/ LeaveFailedEntry(t)
  PROVE  ResumingMoves(t)
<1>0. threads \in [Threads -> Thread]
  BY DEF RuntimeInv
<1>1. threads[t].pc \in {"resume", "next", "leave"}
  BY DEF ListResets, ResumeNext, PassDone, LeaveFailedEntry, At
<1>2. \E thread : Become(t, thread) /\ thread.pc \in {"next", "accept", "idle"}
  <2>1. CASE PassDone(t) \/ LeaveFailedEntry(t)
    <3>1. Idle.pc = "idle" /\ Become(t, Idle)
      BY <2>1 DEF PassDone, LeaveFailedEntry, Idle
    <3> QED
      BY <3>1
  <2>2. CASE ResumeNext(t)
    <3>1. PICK receipt \in threads[t].work :
            Become(t, [Idle EXCEPT !.pc = "accept", !.a = receipt[1], !.g = receipt[2],
                                   !.rv = receipt[3], !.work = threads[t].work \ {receipt}])
      BY <2>2 DEF ResumeNext
    <3> DEFINE thread == [Idle EXCEPT !.pc = "accept", !.a = receipt[1], !.g = receipt[2],
                                      !.rv = receipt[3], !.work = threads[t].work \ {receipt}]
    <3>2. thread.pc = "accept"
      BY DEF Idle
    <3> HIDE DEF thread
    <3> QED
      BY <3>1, <3>2 DEF thread
  <2>3. CASE ListResets(t)
    <3>1. /\ [Idle EXCEPT !.pc = "next"].pc = "next"
          /\ \A work : [Idle EXCEPT !.pc = "next", !.work = work].pc = "next"
      BY DEF Idle
    <3>2. \/ Become(t, [Idle EXCEPT !.pc = "next"])
          \/ \E work : Become(t, [Idle EXCEPT !.pc = "next", !.work = work])
      BY <2>3 DEF ListResets
    <3> QED
      BY <3>1, <3>2
  <2> QED
    BY <2>1, <2>2, <2>3
<1> QED
  BY <1>0, <1>1, <1>2, BecomeStays DEF ResumingMoves

\* Only a busy thread takes a step, and leaves the others where they are.
LEMMA BusyThreadMoves ==
  ASSUME RuntimeInv, NEW t \in Threads, ThreadStep(t)
  PROVE  OthersStay(t) /\ Busy(t)
<1>0. threads \in [Threads -> Thread]
  BY DEF RuntimeInv
<1>1. CASE Provision(t)
  BY <1>0, <1>1, ProvisionMoves DEF ProvisioningMoves, Busy, Provisioning
<1>2. CASE Clean(t) \/ ExpirePass(t)
  BY <1>2, CleanMoves DEF CleaningMoves, Busy, Cleaning
<1>3. CASE ListResets(t) \/ ResumeNext(t) \/ PassDone(t) \/ LeaveFailedEntry(t)
  BY <1>3, ResumeMoves DEF ResumingMoves, Busy
<1> QED
  BY <1>1, <1>2, <1>3 DEF ThreadStep

-----------------------------------------------------------------------------
(* The life of the process *)

\* Who is busy when: nobody while the process is down; one pass at a time while
\* it starts and serves; only the last two passes, the one that was running and
\* the final one, while it stops.
LifeInv ==
  /\ server \in {"down", "starting", "serving", "stopping"}
  /\ crashes \in 0..MaxCrashes
  /\ server = "down" => \A t \in Threads : ~Busy(t)
  /\ server \in {"starting", "serving"} =>
       \A s, t \in Maintainers : Busy(s) /\ Busy(t) => s = t
  /\ server = "stopping" =>
       /\ \A t \in Threads \ Maintainers : ~Busy(t)
       /\ \A r, s, t \in Maintainers :
            Busy(r) /\ Busy(s) /\ Busy(t) => r = s \/ s = t \/ r = t

\* The step of a thread at most opens the listener.
LEMMA ServerMoves ==
  ASSUME NEW t, ThreadStep(t)
  PROVE  crashes' = crashes /\ (server' = server \/ (server = "starting" /\ server' = "serving"))
<1>1. CASE PassDone(t)
  BY <1>1 DEF PassDone
<1>2. CASE Provision(t)
  BY <1>2 DEF Provision, process, AcceptReceipt, InspectAccepted, ReportCreating,
    ConfirmCreating, OpenRuntime, CreateContainer, ReportStarting, ConfirmStarting,
    StartContainer, Bootstrap, ReportFailed, FailTheReset, UndoCreate, ReportReady,
    ConfirmReady, Publish, Confirm
<1>3. CASE Clean(t)
  BY <1>3 DEF Clean, process, ReadPending, FinalizePending, ReconcileTasks, NextTask,
    DestroyContainer, RecordDestroyed, RecordFailure, FinalizeTask
<1>4. CASE LeaveFailedEntry(t) \/ ExpirePass(t) \/ ListResets(t) \/ ResumeNext(t)
  BY <1>4 DEF process, LeaveFailedEntry, ExpirePass, ListResets, ResumeNext
<1> QED
  BY <1>1, <1>2, <1>3, <1>4 DEF ThreadStep

\* No thread gets busy, and the process at most opens its listener.
LEMMA NobodyNewKeepsLife ==
  ASSUME LifeInv, crashes' = crashes,
         server' = server \/ (server = "starting" /\ server' = "serving"),
         \A t \in Threads : Busy(t)' => Busy(t)
  PROVE  LifeInv'
<1>1. \A t \in Maintainers : t \in Threads
  BY DEF Threads
<1> QED
  BY <1>1 DEF LifeInv

LEMMA LifeKeeps ==
  ASSUME RuntimeInv, LifeInv, [RuntimeNext]_runtimeVars
  PROVE  LifeInv'
<1>0. /\ threads \in [Threads -> Thread]
      /\ \A t \in Maintainers : t \in Threads
      /\ \A t \in Threads \ Maintainers : t \in Enterers \cup Leavers
      /\ \A t \in Enterers \cup Leavers : t \in Threads \ Maintainers
  BY RuntimeAssumption DEF RuntimeInv, Threads
<1>1. ASSUME NEW t \in Threads, ThreadStep(t)
      PROVE  LifeInv'
  <2>1. \A s \in Threads : Busy(s)' => Busy(s)
    BY <1>1, BusyThreadMoves DEF OthersStay, SameButOwn, Busy
  <2>2. crashes' = crashes /\ (server' = server \/ (server = "starting" /\ server' = "serving"))
    BY <1>1, ServerMoves
  <2> QED
    BY <2>1, <2>2, NobodyNewKeepsLife
<1>2. ASSUME UNCHANGED <<server, crashes, threads>>
      PROVE  LifeInv'
  BY <1>2, NobodyNewKeepsLife DEF Busy
<1>3. ASSUME NEW t \in Enterers \cup Leavers, NEW a \in Attempts, EnterRoom(t, a) \/ LeaveRoom(t, a)
      PROVE  LifeInv'
  <2>1. /\ server = "serving" /\ UNCHANGED <<server, crashes>>
        /\ \E thread : Become(t, thread)
    BY <1>3 DEF EnterRoom, LeaveRoom, process
  <2>2. \A s \in Maintainers : Busy(s)' => Busy(s)
    BY <1>0, <2>1, BecomeStays DEF OthersStay, SameButOwn, Busy
  <2> QED
    BY <2>1, <2>2 DEF LifeInv
<1>4. ASSUME NEW t \in Maintainers, Start(t) \/ RepeatMaintenance(t) \/ Shutdown(t)
      PROVE  LifeInv'
  <2>1. crashes' = crashes /\ \E thread : Become(t, thread)
    BY <1>4 DEF Start, RepeatMaintenance, Shutdown, process
  <2>2. \A s \in Threads : s # t /\ Busy(s)' => Busy(s)
    BY <1>0, <2>1, BecomeStays DEF OthersStay, SameButOwn, Busy
  <2>3. CASE Start(t)
    <3>1. server = "down" /\ server' = "starting"
      BY <2>3 DEF Start
    <3> QED
      BY <1>0, <2>1, <2>2, <3>1 DEF LifeInv
  <2>4. CASE RepeatMaintenance(t)
    <3>1. server = "serving" /\ server' = "serving" /\ \A s \in Maintainers : ~Busy(s)
      BY <2>4 DEF RepeatMaintenance, process, At, Busy
    <3> QED
      BY <1>0, <2>1, <2>2, <3>1 DEF LifeInv
  <2>5. CASE Shutdown(t)
    <3>1. /\ server = "serving" /\ server' = "stopping" /\ ~Busy(t)
          /\ \A s \in Threads \ Maintainers : ~Busy(s)
      BY <1>0, <2>5 DEF Shutdown, At, Busy
    <3> QED
      BY <1>0, <2>1, <2>2, <3>1 DEF LifeInv
  <2> QED
    BY <1>4, <2>3, <2>4, <2>5
<1>5. CASE StartupFails \/ Exit
  <2>1. /\ server' = "down" /\ crashes' = crashes
        /\ \A t \in Threads : ~Busy(t)'
    BY <1>5 DEF StartupFails, Exit, At, Busy
  <2> QED
    BY <2>1 DEF LifeInv
<1>6. CASE Crash
  <2>1. /\ server' = "down" /\ crashes < MaxCrashes /\ crashes' = crashes + 1
        /\ \A t \in Threads : ~Busy(t)'
    BY <1>6 DEF Crash, Busy, Idle
  <2> QED
    BY <2>1, RuntimeAssumption DEF LifeInv
<1>7. ASSUME NEW a \in Attempts, ResetRoom(a)
      PROVE  LifeInv'
  BY <1>2, <1>7 DEF ResetRoom, process
<1>8. CASE Daemon \/ TimePasses \/ UNCHANGED runtimeVars
  BY <1>2, <1>8 DEF Daemon, DaemonCreates, ContainerExits, TimePasses, process, runtimeVars
<1> QED
  BY <1>1, <1>3, <1>4, <1>5, <1>6, <1>7, <1>8 DEF RuntimeNext, Request, Lifespan

-----------------------------------------------------------------------------
(* The types *)

DockerTypes ==
  /\ containers \in [Attempts -> [Generations -> {"absent", "created", "running"}]]
  /\ late \in [Attempts -> [Generations -> BOOLEAN]]

\* Which step touches Docker.
LEMMA WhoTouchesDocker ==
  ASSUME [RuntimeNext]_runtimeVars
  PROVE  \/ UNCHANGED docker
         \/ \E t \in Threads : \/ CreateContainer(t) \/ StartContainer(t)
                               \/ UndoCreate(t) \/ DestroyContainer(t)
         \/ \E a \in Attempts, g \in Generations : DaemonCreates(a, g) \/ ContainerExits(a, g)
<1>1. ASSUME NEW t, Provision(t)
      PROVE  UNCHANGED docker \/ CreateContainer(t) \/ StartContainer(t) \/ UndoCreate(t)
  <2>1. CASE Bootstrap(t) \/ ReportCreating(t) \/ ReportStarting(t) \/ ReportReady(t)
             \/ ReportFailed(t) \/ AcceptReceipt(t) \/ InspectAccepted(t) \/ OpenRuntime(t)
             \/ ConfirmCreating(t) \/ ConfirmStarting(t) \/ ConfirmReady(t)
             \/ FailTheReset(t) \/ Publish(t)
    BY <2>1 DEF Bootstrap, ReportCreating, ReportStarting, ReportReady, ReportFailed,
      AcceptReceipt, InspectAccepted, OpenRuntime, ConfirmCreating, ConfirmStarting,
      ConfirmReady, Confirm, FailTheReset, Publish
  <2> QED
    BY <1>1, <2>1 DEF Provision
<1>2. ASSUME NEW t, Clean(t)
      PROVE  UNCHANGED docker \/ DestroyContainer(t)
  BY <1>2 DEF Clean, ReadPending, FinalizePending, ReconcileTasks, NextTask,
    RecordDestroyed, RecordFailure, FinalizeTask
<1>3. ASSUME NEW t, LeaveFailedEntry(t) \/ ExpirePass(t) \/ ListResets(t) \/ ResumeNext(t)
                    \/ PassDone(t)
      PROVE  UNCHANGED docker
  BY <1>3 DEF LeaveFailedEntry, ExpirePass, ListResets, ResumeNext, PassDone
<1>4. Request \/ Lifespan \/ TimePasses \/ UNCHANGED runtimeVars => UNCHANGED docker
  BY DEF Request, EnterRoom, ResetRoom, LeaveRoom, Lifespan, Start, RepeatMaintenance, Shutdown,
    StartupFails, Exit, Crash, TimePasses, runtimeVars, docker
<1> QED
  BY <1>1, <1>2, <1>3, <1>4 DEF RuntimeNext, ThreadStep, Daemon

\* Only CreateContainer, StartContainer and the daemon bring a container about.
OnlyRemoves ==
  /\ late' = late
  /\ \/ containers' = containers
     \/ \E a, g : SetContainer(a, g, "absent")

LEMMA OthersOnlyRemove ==
  ASSUME [RuntimeNext]_runtimeVars
  PROVE  \/ OnlyRemoves
         \/ \E t \in Threads : CreateContainer(t) \/ StartContainer(t)
         \/ \E a \in Attempts, g \in Generations : DaemonCreates(a, g)
<1>1. UNCHANGED docker => OnlyRemoves
  BY DEF docker, OnlyRemoves
<1>2. ASSUME NEW t, UndoCreate(t) \/ DestroyContainer(t)
      PROVE  OnlyRemoves
  BY <1>2 DEF UndoCreate, DestroyContainer, OnlyRemoves
<1>3. ASSUME NEW a, NEW g, ContainerExits(a, g)
      PROVE  OnlyRemoves
  BY <1>3 DEF ContainerExits, OnlyRemoves
<1> QED
  BY <1>1, <1>2, <1>3, WhoTouchesDocker

LEMMA SetContainerTypes ==
  ASSUME DockerTypes, NEW a, NEW g, NEW state \in {"absent", "created", "running"},
         SetContainer(a, g, state)
  PROVE  /\ containers' \in [Attempts -> [Generations -> {"absent", "created", "running"}]]
         /\ \A b \in Attempts, h \in Generations :
              containers'[b][h] = IF b = a /\ h = g THEN state ELSE containers[b][h]
BY DEF SetContainer, DockerTypes

LEMMA DockerTypesKeep ==
  ASSUME DockerTypes, [RuntimeNext]_runtimeVars
  PROVE  DockerTypes'
<1>1. CASE OnlyRemoves
  BY <1>1, SetContainerTypes DEF OnlyRemoves, DockerTypes
<1>2. ASSUME NEW t \in Threads, CreateContainer(t)
      PROVE  DockerTypes'
  <2> DEFINE a == threads[t].a
             g == threads[t].g
             asked == [late EXCEPT ![a][g] = containers[a][g] = "absent"]
  <2>1. containers' = containers \/ SetContainer(a, g, "created")
    BY <1>2 DEF CreateContainer, docker
  <2>2. late' = late \/ late' = asked
    BY <1>2 DEF CreateContainer, docker
  <2>3. asked \in [Attempts -> [Generations -> BOOLEAN]]
    <3> DEFINE due == containers[a][g] = "absent"
    <3>1. due \in BOOLEAN
      OBVIOUS
    <3> HIDE DEF due
    <3>2. [late EXCEPT ![a][g] = due] \in [Attempts -> [Generations -> BOOLEAN]]
      BY <3>1 DEF DockerTypes
    <3> QED
      BY <3>2 DEF due
  <2> HIDE DEF asked
  <2> QED
    BY <2>1, <2>2, <2>3, SetContainerTypes DEF DockerTypes
<1>3. ASSUME NEW t \in Threads, StartContainer(t)
      PROVE  DockerTypes'
  <2>1. /\ late' = late
        /\ containers' = containers \/ SetContainer(threads[t].a, threads[t].g, "running")
    BY <1>3 DEF StartContainer
  <2> QED
    BY <2>1, SetContainerTypes DEF DockerTypes
<1>4. ASSUME NEW a \in Attempts, NEW g \in Generations, DaemonCreates(a, g)
      PROVE  DockerTypes'
  BY <1>4 DEF DaemonCreates, DockerTypes
<1> QED
  BY <1>1, <1>2, <1>3, <1>4, OthersOnlyRemove

LEMMA ProcessInitHolds == RuntimeInit => LifeInv /\ DockerTypes
<1> SUFFICES ASSUME RuntimeInit PROVE LifeInv /\ DockerTypes
  OBVIOUS
<1>1. DockerTypes
  BY DEF RuntimeInit, DockerTypes
<1>2. /\ server = "down" /\ crashes = 0
      /\ \A t \in Threads : ~Busy(t)
  BY DEF RuntimeInit, Busy, Idle
<1> QED
  BY <1>1, <1>2, RuntimeAssumption DEF LifeInv

\* Threads, containers and the log of reports always have their shapes.
THEOREM RuntimeTypesHold == RuntimeSpec => []RuntimeTypeOK
<1>1. RuntimeInv /\ LifeInv /\ DockerTypes /\ [RuntimeNext]_runtimeVars => (LifeInv /\ DockerTypes)'
  BY LifeKeeps, DockerTypesKeep
<1>2. ASSUME RuntimeInv, LifeInv, DockerTypes
      PROVE  RuntimeTypeOK
  <2>1. \A t \in Threads : threads[t] \in Thread
    BY <1>2 DEF RuntimeInv
  <2>2. \A t \in Threads : /\ threads[t].pc \in Steps
                           /\ threads[t].a \in Attempts \cup {0}
                           /\ threads[t].g \in 0..MaxGeneration
                           /\ {threads[t].v, threads[t].rv} \subseteq Nat
                           /\ threads[t].own \in BOOLEAN
                           /\ threads[t].left \in 0..Limit
                           /\ \A task \in threads[t].work :
                                task \in Attempts \X Generations \X Nat
    BY <2>1 DEF Thread
  <2>3. /\ server \in {"down", "starting", "serving", "stopping"}
        /\ crashes \in 0..MaxCrashes
    BY <1>2 DEF LifeInv
  <2> QED
    BY <1>2, <2>2, <2>3 DEF RuntimeTypeOK, RuntimeInv, Log, DockerTypes
<1> QED
  BY <1>1, <1>2, ProcessInitHolds, RuntimeInvariant, PTL DEF RuntimeSpec

-----------------------------------------------------------------------------
(* Who provisions what *)

\* A maintenance pass provisions replacements, a request the first sandbox of
\* the room it has entered.
RoleOK(t, thread, rooms) ==
  IF t \in Maintainers
  THEN /\ thread.pc \in Provisioning => thread.g # 1
       /\ thread.pc \in Provisioning \cup {"next"} => \A task \in thread.work : task[2] # 1
  ELSE /\ thread.pc \notin {"resume", "next"}
       /\ thread.pc \in Provisioning => thread.g = 1 /\ rooms[thread.a].state # "NONE"

\* A room is entered once.
OneEnters ==
  \A s, t \in Threads \ Maintainers :
    /\ threads[s].pc \in Provisioning /\ threads[t].pc \in Provisioning
    /\ threads[s].a = threads[t].a
    => s = t

RoleInv ==
  /\ \A t \in Threads : RoleOK(t, threads[t], attempts)
  /\ OneEnters

\* Two threads that provision one sandbox are two maintenance passes.
LEMMA BothMaintain ==
  ASSUME RoleInv, NEW s \in Threads, NEW t \in Threads, s # t,
         threads[s].pc \in Provisioning, threads[t].pc \in Provisioning,
         threads[s].a = threads[t].a, threads[s].g = threads[t].g
  PROVE  s \in Maintainers /\ t \in Maintainers
BY DEF RoleInv, RoleOK, OneEnters

LEMMA RoomsStay ==
  ASSUME RuntimeInv, [Next]_vars, NEW a \in Attempts, attempts[a].state # "NONE"
  PROVE  attempts'[a].state # "NONE"
<1>1. AttemptMoves(attempts[a], attempts'[a]) /\ StoreInv /\ StoreInv'
  BY EveryStepMoves, EveryStepKeeps DEF RuntimeInv, RowsMove
<1>2. attempts'[a].state = "NONE" => attempts'[a].version = 0
  BY <1>1 DEF StoreInv, RoomInv, AttemptShape, NoAttempt
<1>3. attempts[a].version \in Nat
  BY <1>1 DEF StoreInv, TypeOK, Attempt
<1> QED
  BY <1>1, <1>2, <1>3 DEF AttemptMoves

\* One thread moves, and provisions nothing that it did not provision before,
\* or provisions for the maintenance.
LEMMA OneMovesKeepsRoles ==
  ASSUME RuntimeInv, RoleInv, [Next]_vars, NEW t \in Threads, OthersStay(t),
         RoleOK(t, threads'[t], attempts'),
         \/ t \in Maintainers
         \/ threads'[t].pc \notin Provisioning
         \/ threads[t].pc \in Provisioning /\ threads'[t].a = threads[t].a
         \/ \A s \in Threads \ Maintainers :
              threads[s].pc \in Provisioning => threads[s].a # threads'[t].a
  PROVE  RoleInv'
<1>1. ASSUME NEW s \in Threads, s # t
      PROVE  RoleOK(s, threads'[s], attempts')
  <2>1. SameButOwn(threads[s], threads'[s]) /\ RoleOK(s, threads[s], attempts)
    BY <1>1 DEF OthersStay, RoleInv
  <2>2. threads[s].pc \in Provisioning => threads[s].a \in Attempts
    BY AtHand DEF Provisioning, Cleaning, Steps, Free
  <2> QED
    BY <2>1, <2>2, RoomsStay DEF SameButOwn, RoleOK
<1>2. OneEnters'
  BY DEF RoleInv, OneEnters, OthersStay, SameButOwn
<1> QED
  BY <1>1, <1>2 DEF RoleInv

\* No thread moves.
LEMMA NoneMovesKeepsRoles ==
  ASSUME RuntimeInv, RoleInv, [Next]_vars, UNCHANGED threads
  PROVE  RoleInv'
<1>1. ASSUME NEW s \in Threads
      PROVE  RoleOK(s, threads'[s], attempts')
  <2>1. RoleOK(s, threads[s], attempts)
    BY DEF RoleInv
  <2>2. threads[s].pc \in Provisioning => threads[s].a \in Attempts
    BY AtHand DEF Provisioning, Cleaning, Steps, Free
  <2> QED
    BY <2>1, <2>2, RoomsStay DEF RoleOK
<1>2. OneEnters'
  BY DEF RoleInv, OneEnters
<1> QED
  BY <1>1, <1>2 DEF RoleInv

\* A thread that is not provisioning has any role.
LEMMA AnyRole ==
  ASSUME NEW t, NEW thread, NEW rooms, thread.pc \in Cleaning \cup {"idle"}
  PROVE  RoleOK(t, thread, rooms) /\ thread.pc \notin Provisioning
BY DEF RoleOK, Provisioning, Cleaning

LEMMA ThreadStepKeepsRoles ==
  ASSUME RuntimeInv, RoleInv, [Next]_vars, NEW t \in Threads, ThreadStep(t)
  PROVE  RoleInv'
<1>0. threads \in [Threads -> Thread] /\ RoleOK(t, threads[t], attempts)
  BY DEF RuntimeInv, RoleInv
<1>1. CASE Provision(t)
  <2>1. ProvisioningMoves(t)
    BY <1>0, <1>1, ProvisionMoves
  <2>2. OthersStay(t) /\ threads[t].pc \in Provisioning
    BY <2>1 DEF ProvisioningMoves
  <2>3. CASE /\ threads'[t].pc \in Provisioning
             /\ threads'[t].a = threads[t].a /\ threads'[t].g = threads[t].g
             /\ threads'[t].work = threads[t].work
    <3>1. threads[t].a \in Attempts
      BY <2>2, AtHand DEF Provisioning, Cleaning, Steps, Free
    <3>2. RoleOK(t, threads'[t], attempts')
      BY <1>0, <2>2, <2>3, <3>1, RoomsStay DEF RoleOK, Provisioning
    <3> QED
      BY <2>2, <2>3, <3>2, OneMovesKeepsRoles
  <2>4. CASE threads'[t].pc = "idle"
    BY <2>2, <2>4, AnyRole, OneMovesKeepsRoles
  <2>5. CASE t \in Maintainers /\ threads'[t].pc = "next" /\ threads'[t].work = threads[t].work
    <3>1. RoleOK(t, threads'[t], attempts')
      BY <1>0, <2>2, <2>5 DEF RoleOK, Provisioning
    <3> QED
      BY <2>2, <2>5, <3>1, OneMovesKeepsRoles
  <2> QED
    BY <2>1, <2>3, <2>4, <2>5 DEF ProvisioningMoves
<1>2. CASE Clean(t) \/ ExpirePass(t)
  <2>1. OthersStay(t) /\ threads'[t].pc \in Cleaning \cup {CleanedStep(t)}
    BY <1>2, CleanMoves DEF CleaningMoves
  <2>2. CASE threads'[t].pc \in Cleaning \cup {"idle"}
    BY <2>1, <2>2, AnyRole, OneMovesKeepsRoles
  <2>3. CASE t \in Maintainers /\ threads'[t].pc = "resume"
    BY <2>1, <2>3, OneMovesKeepsRoles DEF RoleOK, Provisioning
  <2> QED
    BY <2>1, <2>2, <2>3 DEF CleanedStep
<1>3. CASE PassDone(t) \/ LeaveFailedEntry(t)
  <2>1. Become(t, Idle)
    BY <1>3 DEF PassDone, LeaveFailedEntry
  <2>2. OthersStay(t) /\ threads'[t].pc = "idle"
    BY <1>0, <2>1, BecomeStays DEF Idle
  <2> QED
    BY <2>2, AnyRole, OneMovesKeepsRoles
<1>4. CASE ResumeNext(t)
  <2>1. PICK receipt \in threads[t].work :
          Become(t, [Idle EXCEPT !.pc = "accept", !.a = receipt[1], !.g = receipt[2],
                                 !.rv = receipt[3], !.work = threads[t].work \ {receipt}])
    BY <1>4 DEF ResumeNext
  <2>2. OthersStay(t)
    BY <1>0, <2>1, BecomeStays
  <2>3. threads'[t].g = receipt[2] /\ threads'[t].work \subseteq threads[t].work
    <3> DEFINE thread == [Idle EXCEPT !.pc = "accept", !.a = receipt[1], !.g = receipt[2],
                            !.rv = receipt[3], !.work = threads[t].work \ {receipt}]
    <3>1. threads'[t] = thread
      BY <1>0, <2>1, BecomeStays
    <3>2. thread.g = receipt[2] /\ thread.work \subseteq threads[t].work
      BY DEF Idle
    <3> QED
      BY <3>1, <3>2
  <2>4. threads[t].pc = "next"
    BY <1>4 DEF ResumeNext, At
  <2>5. t \in Maintainers /\ \A task \in threads[t].work : task[2] # 1
    BY <1>0, <2>4 DEF RoleOK
  <2>6. RoleOK(t, threads'[t], attempts')
    BY <2>3, <2>5 DEF RoleOK
  <2> QED
    BY <2>2, <2>5, <2>6, OneMovesKeepsRoles
<1>5. CASE ListResets(t)
  <2>1. threads[t].pc = "resume"
    BY <1>5 DEF ListResets, At
  <2>2. t \in Maintainers
    BY <1>0, <2>1 DEF RoleOK
  <2>3. ASSUME NEW thread, Become(t, thread), thread.pc = "next",
               \A task \in thread.work : task[2] # 1
        PROVE  RoleInv'
    <3>1. OthersStay(t) /\ threads'[t] = thread
      BY <1>0, <2>3, BecomeStays
    <3>2. RoleOK(t, threads'[t], attempts')
      BY <2>2, <2>3, <3>1 DEF RoleOK, Provisioning
    <3> QED
      BY <2>2, <3>1, <3>2, OneMovesKeepsRoles
  <2>4. CASE Become(t, [Idle EXCEPT !.pc = "next"])
    <3>1. [Idle EXCEPT !.pc = "next"].pc = "next" /\ [Idle EXCEPT !.pc = "next"].work = {}
      BY DEF Idle
    <3> QED
      BY <2>3, <2>4, <3>1
  <2>5. ASSUME NEW batch \in SUBSET Attempts, TakesSoonest(Limit, ResumableResets, batch)
        PROVE  \A task \in {<<a, attempts[a].generation, attempts[a].version>> : a \in batch} :
                 task[2] # 1
    <3>1. batch \subseteq ResumableResets
      BY <2>5 DEF TakesSoonest, TakesUpTo
    <3>2. ASSUME NEW a \in batch
          PROVE  attempts[a].generation # 1
      <4>1. a \in Attempts /\ attempts[a].state = "RESETTING"
        BY <3>1, <3>2 DEF ResumableResets, ResumableReset
      <4>2. attempts[a] \in Attempt /\ AttemptShape(a)
        BY <4>1 DEF RuntimeInv, StoreInv, TypeOK, RoomInv
      <4> QED
        BY <4>1, <4>2, StoreAssumption DEF AttemptShape, Attempt
    <3> QED
      BY <3>2
  <2>6. \A work : /\ [Idle EXCEPT !.pc = "next", !.work = work].pc = "next"
                  /\ [Idle EXCEPT !.pc = "next", !.work = work].work = work
    BY DEF Idle
  <2> QED
    BY <1>5, <2>3, <2>4, <2>5, <2>6 DEF ListResets
<1> QED
  BY <1>1, <1>2, <1>3, <1>4, <1>5 DEF ThreadStep

LEMMA RolesKeep ==
  ASSUME RuntimeInv, RoleInv, [RuntimeNext]_runtimeVars
  PROVE  RoleInv'
<1>0. threads \in [Threads -> Thread] /\ [Next]_vars
  BY EveryRuntimeStep DEF RuntimeInv
<1>1. ASSUME NEW t \in Threads, ThreadStep(t)
      PROVE  RoleInv'
  BY <1>0, <1>1, ThreadStepKeepsRoles
<1>2. ASSUME UNCHANGED threads
      PROVE  RoleInv'
  BY <1>0, <1>2, NoneMovesKeepsRoles
<1>3. ASSUME NEW t \in Enterers, NEW a \in Attempts, EnterRoom(t, a)
      PROVE  RoleInv'
  <2> DEFINE thread == [Idle EXCEPT !.pc = "accept", !.a = a, !.g = 1]
  <2>1. t \in Threads /\ t \notin Maintainers
    BY RuntimeAssumption DEF Threads
  <2>2. OthersStay(t) /\ threads'[t] = thread
    BY <1>0, <1>3, <2>1, BecomeStays DEF EnterRoom
  <2>3. thread.pc = "accept" /\ thread.a = a /\ thread.g = 1
    BY DEF Idle
  <2>4. attempts[a].state = "NONE" /\ attempts'[a].state # "NONE"
    <3>1. attempts \in [Attempts -> Attempt]
      BY DEF RuntimeInv, StoreInv, TypeOK
    <3> QED
      BY <1>3, <3>1 DEF EnterRoom, Create, WriteAttempt, NoAttempt
  <2> HIDE DEF thread
  <2>5. RoleOK(t, threads'[t], attempts')
    BY <2>1, <2>2, <2>3, <2>4 DEF RoleOK
  <2>6. \A s \in Threads \ Maintainers : threads[s].pc \in Provisioning => threads[s].a # a
    BY <2>4 DEF RoleInv, RoleOK
  <2> QED
    BY <1>0, <2>1, <2>2, <2>3, <2>5, <2>6, OneMovesKeepsRoles
<1>4. ASSUME NEW t \in Threads, NEW step \in Cleaning, Become(t, [Idle EXCEPT !.pc = step])
      PROVE  RoleInv'
  <2>1. [Idle EXCEPT !.pc = step].pc = step
    BY DEF Idle
  <2>2. OthersStay(t) /\ threads'[t].pc = step
    BY <1>0, <1>4, <2>1, BecomeStays
  <2> QED
    BY <1>0, <2>2, AnyRole, OneMovesKeepsRoles
<1>5. CASE Crash
  <2>1. \A t \in Threads : threads'[t].pc = "idle"
    BY <1>5 DEF Crash, Idle
  <2> QED
    BY <2>1, AnyRole DEF RoleInv, OneEnters
<1>6. CASE Request
  <2>1. ASSUME NEW t \in Leavers, NEW a \in Attempts, LeaveRoom(t, a)
        PROVE  RoleInv'
    BY <1>4, <2>1 DEF LeaveRoom, Threads, Cleaning
  <2>2. ASSUME NEW a \in Attempts, ResetRoom(a)
        PROVE  RoleInv'
    BY <1>2, <2>2 DEF ResetRoom
  <2> QED
    BY <1>3, <1>6, <2>1, <2>2 DEF Request
<1>7. CASE Lifespan
  <2>1. ASSUME NEW t \in Maintainers, Start(t) \/ RepeatMaintenance(t) \/ Shutdown(t)
        PROVE  RoleInv'
    BY <1>4, <2>1 DEF Start, RepeatMaintenance, Shutdown, Threads, Cleaning
  <2> QED
    BY <1>2, <1>5, <1>7, <2>1 DEF Lifespan, StartupFails, Exit
<1>8. CASE Daemon \/ TimePasses \/ UNCHANGED runtimeVars
  BY <1>2, <1>8 DEF Daemon, DaemonCreates, ContainerExits, TimePasses, runtimeVars
<1> QED
  BY <1>1, <1>6, <1>7, <1>8 DEF RuntimeNext

LEMMA RolesInit == RuntimeInit => RoleInv
<1> SUFFICES ASSUME RuntimeInit PROVE RoleInv
  OBVIOUS
<1>1. \A t \in Threads : threads[t].pc = "idle"
  BY DEF RuntimeInit, Idle
<1> QED
  BY <1>1, AnyRole DEF RoleInv, OneEnters

-----------------------------------------------------------------------------
(* What the log of reports and the versions at hand say of the rows *)

\* A sandbox whose creation was reported is no longer merely requested, one
\* whose start was reported has its container on record, and that one is alone.
RowRecords(a, g) ==
  LET row == resources[a][g]
  IN  /\ "creating" \in answered[a][g] => row.state \notin {"NONE", "REQUESTED"}
      /\ "starting" \in answered[a][g] => "container_id" \in row.filled
      /\ "container_id" \in row.filled =>
           \A h \in Generations : h < g => VerifiedAbsent(resources[a][h])

RowsInv == \A a \in Attempts, g \in Generations : RowRecords(a, g)

\* The first two reports enter the log with what they record.
LogRecords ==
  \A a \in Attempts, g \in Generations :
    /\ "creating" \in answered'[a][g] \ answered[a][g] => resources'[a][g].state = "CREATING"
    /\ "starting" \in answered'[a][g] \ answered[a][g] =>
         "container_id" \in resources'[a][g].filled

LEMMA OtherLabelRecords ==
  ASSUME RuntimeInv, NEW a \in Attempts, NEW g \in Generations,
         NEW label \in Steps \ {"creating", "starting"},
         answered' = [answered EXCEPT ![a][g] = @ \cup {label}]
  PROVE  LogRecords
<1>1. \A b \in Attempts, h \in Generations :
        answered'[b][h] = IF b = a /\ h = g THEN answered[b][h] \cup {label} ELSE answered[b][h]
  BY DEF RuntimeInv, Log
<1> QED
  BY <1>1 DEF LogRecords

LEMMA ReportRecords ==
  ASSUME RuntimeInv, NEW t \in Threads, threads[t].pc \notin Free,
         NEW v, NEW state, NEW label \in Steps, NEW next, NEW refused,
         Report(t, v, state, label, next, refused),
         label = "creating" => state = "CREATING",
         label = "starting" => state = "STARTING"
  PROVE  LogRecords
<1> DEFINE a == threads[t].a
           g == threads[t].g
<1>1. a \in Attempts /\ g \in Generations
  BY AtHand
<1>2. CASE UNCHANGED answered
  BY <1>2 DEF LogRecords
<1>3. CASE /\ Transition(a, g, v, state)
           /\ answered' = [answered EXCEPT ![a][g] = @ \cup {label}]
  <2>1. \A b \in Attempts, h \in Generations :
          answered'[b][h] = IF b = a /\ h = g THEN answered[b][h] \cup {label} ELSE answered[b][h]
    BY <1>3 DEF RuntimeInv, Log
  <2>2. resources'[a][g].state = state
    BY <1>1, <1>3, TransitionWrites
  <2>3. state = "STARTING" => "container_id" \in resources'[a][g].filled
    <3> DEFINE old == resources[a][g]
               stops == IF state \in {"STOPPING", "FAILED", "DESTROYED"} THEN {"destroy"} ELSE {}
               row == [old EXCEPT !.state = state,
                                  !.version = @ + 1,
                                  !.intents = @ \cup stops \cup IfExpired(ControlExpired(a)),
                                  !.filled = @ \cup FilledBy(state)]
    <3>1. old \in Resource /\ resources \in [Attempts -> [Generations -> Resource]]
      BY <1>1 DEF RuntimeInv, StoreInv, TypeOK
    <3>2. resources' = [resources EXCEPT ![a][g] = row]
      BY <1>3 DEF Transition, WriteResource
    <3>3. row.filled = old.filled \cup FilledBy(state)
      BY <3>1 DEF Resource
    <3> HIDE DEF row
    <3>4. resources'[a][g] = row
      BY <1>1, <3>1, <3>2
    <3> QED
      BY <3>3, <3>4 DEF FilledBy
  <2>4. ASSUME NEW b \in Attempts, NEW h \in Generations
        PROVE  /\ "creating" \in answered'[b][h] \ answered[b][h] =>
                    b = a /\ h = g /\ label = "creating"
               /\ "starting" \in answered'[b][h] \ answered[b][h] =>
                    b = a /\ h = g /\ label = "starting"
    <3>1. CASE b = a /\ h = g
      <4>1. answered'[b][h] = answered[b][h] \cup {label}
        BY <2>1, <3>1
      <4> QED
        BY <3>1, <4>1
    <3>2. CASE ~(b = a /\ h = g)
      <4>1. answered'[b][h] = answered[b][h]
        BY <2>1, <3>2
      <4> QED
        BY <4>1
    <3> QED
      BY <3>1, <3>2
  <2> HIDE DEF a, g
  <2> QED
    BY <2>2, <2>3, <2>4 DEF LogRecords
<1>4. \/ UNCHANGED answered
      \/ /\ Transition(a, g, v, state)
         /\ answered' = [answered EXCEPT ![a][g] = @ \cup {label}]
  BY DEF Report
<1> QED
  BY <1>2, <1>3, <1>4

LEMMA EveryStepRecords ==
  ASSUME RuntimeInv, [RuntimeNext]_runtimeVars
  PROVE  LogRecords
<1>1. ASSUME UNCHANGED answered
      PROVE  LogRecords
  BY <1>1 DEF LogRecords
<1>2. ASSUME NEW t \in Threads, Provision(t)
      PROVE  LogRecords
  <2> DEFINE a == threads[t].a
             g == threads[t].g
  <2>1. CASE ReportCreating(t) \/ ReportStarting(t) \/ ReportReady(t) \/ ReportFailed(t)
    <3>1. /\ threads[t].pc \in {"creating", "starting", "ready", "createfailed",
                                "startfailed", "bootstrapfailed"}
          /\ \E v, state, next, refused :
               /\ Report(t, v, state, threads[t].pc, next, refused)
               /\ threads[t].pc = "creating" => state = "CREATING"
               /\ threads[t].pc = "starting" => state = "STARTING"
      BY <2>1 DEF ReportCreating, ReportStarting, ReportReady, ReportFailed, At
    <3>2. threads[t].pc \notin Free /\ threads[t].pc \in Steps
      BY <3>1 DEF Free, Steps
    <3> QED
      BY <3>1, <3>2, ReportRecords
  <2>2. CASE AcceptReceipt(t) \/ FailTheReset(t) \/ Publish(t)
    <3>1. a \in Attempts /\ g \in Generations
      BY <2>2, AtHand DEF AcceptReceipt, FailTheReset, Publish, At, Free
    <3>2. \/ UNCHANGED answered
          \/ \E label \in {"accept", "failreset", "publish"} :
               answered' = [answered EXCEPT ![a][g] = @ \cup {label}]
      BY <2>2 DEF AcceptReceipt, FailTheReset, Publish
    <3>3. {"accept", "failreset", "publish"} \subseteq Steps \ {"creating", "starting"}
      BY DEF Steps
    <3> QED
      BY <1>1, <3>1, <3>2, <3>3, OtherLabelRecords
  <2>3. CASE \/ InspectAccepted(t) \/ ConfirmCreating(t) \/ OpenRuntime(t) \/ CreateContainer(t)
             \/ ConfirmStarting(t) \/ StartContainer(t) \/ Bootstrap(t) \/ UndoCreate(t)
             \/ ConfirmReady(t)
    BY <1>1, <2>3 DEF InspectAccepted, ConfirmCreating, OpenRuntime, CreateContainer,
      ConfirmStarting, StartContainer, Bootstrap, UndoCreate, ConfirmReady, Confirm
  <2> QED
    BY <1>2, <2>1, <2>2, <2>3 DEF Provision
<1>3. ASSUME NEW t, \/ Clean(t) \/ LeaveFailedEntry(t) \/ ExpirePass(t) \/ ListResets(t)
                    \/ ResumeNext(t) \/ PassDone(t)
      PROVE  LogRecords
  BY <1>1, <1>3 DEF Clean, ReadPending, FinalizePending, ReconcileTasks, NextTask,
    DestroyContainer, RecordDestroyed, RecordFailure, FinalizeTask, LeaveFailedEntry, ExpirePass,
    ListResets, ResumeNext, PassDone
<1>4. Request \/ Lifespan \/ Daemon \/ TimePasses \/ UNCHANGED runtimeVars => UNCHANGED answered
  BY DEF Request, EnterRoom, ResetRoom, LeaveRoom, Lifespan, Start, RepeatMaintenance, Shutdown,
    StartupFails, Exit, Crash, Daemon, DaemonCreates, ContainerExits, TimePasses, runtimeVars
<1> QED
  BY <1>1, <1>2, <1>3, <1>4 DEF RuntimeNext, ThreadStep

\* A row that exists stays, with a higher version or as it was.
LEMMA RowsGrow ==
  ASSUME RuntimeInv, [Next]_vars, NEW a \in Attempts, NEW g \in Generations
  PROVE  /\ resources[a][g].version \in Nat /\ resources'[a][g].version \in Nat
         /\ resources[a][g].state # "NONE" =>
              /\ resources'[a][g].state # "NONE"
              /\ resources[a][g].intents \subseteq resources'[a][g].intents
              /\ resources'[a][g].version >= resources[a][g].version
              /\ resources'[a][g].version = resources[a][g].version =>
                   resources'[a][g] = resources[a][g]
<1>1. StoreInv /\ StoreInv' /\ RowsMove
  BY EveryStepMoves, EveryStepKeeps DEF RuntimeInv
<1>2. resources[a][g].version \in Nat /\ resources'[a][g].version \in Nat
  BY <1>1 DEF StoreInv, TypeOK, Resource
<1>3. resources'[a][g].state = "NONE" => resources'[a][g].version = 0
  BY <1>1 DEF StoreInv, RoomInv, ResourceShape, NoResource
<1>4. resources[a][g].state # "NONE" => ResourceMoves(resources[a][g], resources'[a][g])
  BY <1>1 DEF RowsMove
<1> QED
  BY <1>2, <1>3, <1>4 DEF ResourceMoves

LEMMA RowsKeep ==
  ASSUME RuntimeInv, RowsInv, [RuntimeNext]_runtimeVars
  PROVE  RowsInv'
<1>1. /\ StoreInv /\ StoreInv' /\ RowsMove /\ RowsFill /\ LogRecords /\ RuntimeInv'
      /\ [Next]_vars
  BY EveryRuntimeStep, EveryStepMoves, EveryStepFills, EveryStepRecords DEF RuntimeInv
<1>2. ASSUME NEW a \in Attempts, NEW g \in Generations, VerifiedAbsent(resources[a][g])
      PROVE  VerifiedAbsent(resources'[a][g])
  BY <1>1, <1>2 DEF VerifiedAbsent, RowsMove, ResourceMoves, RowsFill, FilledIn
<1>3. ASSUME NEW a \in Attempts, NEW g \in Generations
      PROVE  RowRecords(a, g)'
  <2>1. FilledIn(a, g, resources'[a][g]) /\ RowRecords(a, g)
    BY <1>1 DEF RowsFill, RowsInv
  <2>2. /\ resources[a][g].state # "NONE" => resources'[a][g].state # "NONE"
    BY <1>1, RowsGrow
  <2>3. "creating" \in answered'[a][g] => resources'[a][g].state \notin {"NONE", "REQUESTED"}
    BY <1>1, <2>1, <2>2 DEF RowRecords, FilledIn, LogRecords
  <2>4. "starting" \in answered'[a][g] => "container_id" \in resources'[a][g].filled
    BY <1>1, <2>1 DEF RowRecords, FilledIn, LogRecords
  <2>5. "container_id" \in resources'[a][g].filled =>
          \A h \in Generations : h < g => VerifiedAbsent(resources[a][h])
    BY <2>1 DEF RowRecords, FilledIn
  <2> QED
    BY <1>2, <2>3, <2>4, <2>5 DEF RowRecords
<1> QED
  BY <1>3 DEF RowsInv

-----------------------------------------------------------------------------
(* The versions a cleanup carries *)

CleanLoop == {"clean", "destroy", "record", "retry", "close"}

\* A cleanup never holds a version its row has yet to reach; what it removes was
\* told to stop, and is STOPPING while its row is at the version held.
VersionOK(thread, rows) ==
  /\ thread.pc \in CleanLoop =>
       \A task \in thread.work : /\ rows[task[1]][task[2]].state # "NONE"
                                 /\ task[3] <= rows[task[1]][task[2]].version
  /\ thread.pc \in {"destroy", "record"} =>
       LET row == rows[thread.a][thread.g]
       IN  /\ row.state # "NONE"
           /\ "destroy" \in row.intents
           /\ thread.v <= row.version
           /\ thread.v = row.version => row.state = "STOPPING"

VersionInv == \A t \in Threads : VersionOK(threads[t], resources)

\* A later row is as good to a cleanup.
LEMMA VersionsStay ==
  ASSUME RuntimeInv, [Next]_vars, NEW t \in Threads, VersionOK(threads[t], resources)
  PROVE  VersionOK(threads[t], resources')
<1>1. threads[t] \in Thread
  BY DEF RuntimeInv
<1>2. ASSUME NEW task \in threads[t].work, threads[t].pc \in CleanLoop
      PROVE  /\ resources'[task[1]][task[2]].state # "NONE"
             /\ task[3] <= resources'[task[1]][task[2]].version
  <2>1. task[1] \in Attempts /\ task[2] \in Generations /\ task[3] \in Nat
    BY <1>1, <1>2 DEF Thread
  <2>2. /\ resources[task[1]][task[2]].state # "NONE"
        /\ task[3] <= resources[task[1]][task[2]].version
    BY <1>2 DEF VersionOK
  <2> QED
    BY <2>1, <2>2, RowsGrow
<1>3. ASSUME threads[t].pc \in {"destroy", "record"}
      PROVE  LET row == resources'[threads[t].a][threads[t].g]
             IN  /\ row.state # "NONE"
                 /\ "destroy" \in row.intents
                 /\ threads[t].v <= row.version
                 /\ threads[t].v = row.version => row.state = "STOPPING"
  <2>1. threads[t].a \in Attempts /\ threads[t].g \in Generations /\ threads[t].v \in Nat
    BY <1>1, <1>3, AtHand DEF Free, Thread
  <2>2. LET row == resources[threads[t].a][threads[t].g]
        IN  /\ row.state # "NONE"
            /\ "destroy" \in row.intents
            /\ threads[t].v <= row.version
            /\ threads[t].v = row.version => row.state = "STOPPING"
    BY <1>3 DEF VersionOK
  <2> DEFINE old == resources[threads[t].a][threads[t].g]
             new == resources'[threads[t].a][threads[t].g]
  <2>3. "destroy" \in new.intents
    BY <2>1, <2>2, RowsGrow
  <2>4. /\ new.state # "NONE"
        /\ old.version \in Nat /\ new.version \in Nat /\ old.version <= new.version
        /\ old.version = new.version => new = old
    BY <2>1, <2>2, RowsGrow
  <2> HIDE DEF old, new
  <2>5. /\ threads[t].v <= old.version
        /\ threads[t].v = old.version => old.state = "STOPPING"
    BY <2>2 DEF old
  <2>6. threads[t].v <= new.version /\ (threads[t].v = new.version => new.state = "STOPPING")
    BY <2>1, <2>4, <2>5
  <2> QED
    BY <2>3, <2>4, <2>6 DEF new
<1> QED
  BY <1>2, <1>3 DEF VersionOK

LEMMA OneMovesKeepsVersions ==
  ASSUME RuntimeInv, VersionInv, [Next]_vars, NEW t \in Threads, OthersStay(t),
         VersionOK(threads'[t], resources')
  PROVE  VersionInv'
<1>1. ASSUME NEW s \in Threads, s # t
      PROVE  VersionOK(threads'[s], resources')
  <2>1. VersionOK(threads[s], resources')
    BY VersionsStay DEF VersionInv
  <2>2. SameButOwn(threads[s], threads'[s])
    BY <1>1 DEF OthersStay
  <2> QED
    BY <2>1, <2>2 DEF SameButOwn, VersionOK
<1> QED
  BY <1>1 DEF VersionInv

LEMMA NoCleanupAnyVersion ==
  ASSUME NEW thread, NEW rows, thread.pc \notin CleanLoop
  PROVE  VersionOK(thread, rows)
BY DEF VersionOK, CleanLoop

LEMMA CleanKeepsVersions ==
  ASSUME RuntimeInv, VersionInv, [Next]_vars, NEW t \in Threads, Clean(t)
  PROVE  VersionInv'
<1> DEFINE a == threads[t].a
           g == threads[t].g
<1>0. /\ threads \in [Threads -> Thread]
      /\ VersionOK(threads[t], resources) /\ VersionOK(threads[t], resources')
  BY VersionsStay DEF RuntimeInv, VersionInv
<1>1. ASSUME NEW step, Goto(t, step), step \notin CleanLoop
      PROVE  VersionInv'
  <2>1. OthersStay(t) /\ threads'[t].pc \notin CleanLoop
    BY <1>0, <1>1, GotoStays
  <2>2. VersionOK(threads'[t], resources')
    BY <2>1, NoCleanupAnyVersion
  <2> QED
    BY <2>1, <2>2, OneMovesKeepsVersions
<1>2. CleanedStep(t) \notin CleanLoop
  BY DEF CleanedStep, CleanLoop
<1>3. ASSUME NEW step, Goto(t, step), step \in CleanLoop, threads[t].pc \in CleanLoop,
             step \in {"destroy", "record"} => threads[t].pc \in {"destroy", "record"}
      PROVE  VersionInv'
  <2>1. /\ OthersStay(t) /\ threads'[t].pc = step
        /\ threads'[t].a = threads[t].a /\ threads'[t].g = threads[t].g
        /\ threads'[t].v = threads[t].v /\ threads'[t].work = threads[t].work
    BY <1>0, <1>3, GotoStays
  <2>2. VersionOK(threads'[t], resources')
    BY <1>0, <1>3, <2>1 DEF VersionOK
  <2> QED
    BY <2>1, <2>2, OneMovesKeepsVersions
<1>4. CASE DestroyContainer(t) \/ RecordDestroyed(t) \/ RecordFailure(t) \/ FinalizeTask(t)
  <2>1. \/ threads[t].pc = "destroy" /\ (Goto(t, "record") \/ Goto(t, "retry"))
        \/ threads[t].pc = "record" /\ (Goto(t, "close") \/ Goto(t, "clean"))
        \/ threads[t].pc = "retry" /\ Goto(t, "clean")
        \/ threads[t].pc = "close" /\ Goto(t, "clean")
    BY <1>4 DEF DestroyContainer, RecordDestroyed, RecordFailure, FinalizeTask, At
  <2> QED
    BY <1>3, <2>1 DEF CleanLoop
<1>5. CASE ReadPending(t) \/ FinalizePending(t)
  <2>1. threads[t].pc \in {"pending", "finalize"}
    BY <1>5 DEF ReadPending, FinalizePending, At
  <2>2. OthersStay(t) /\ threads'[t].pc \in {"finalize", "reconcile", CleanedStep(t)}
    <3>1. OthersStay(t)
      BY CleanMoves DEF CleaningMoves
    <3>2. CASE ReadPending(t)
      <4>1. /\ [Idle EXCEPT !.pc = "reconcile", !.left = Limit].pc = "reconcile"
            /\ \A work, left :
                 [Idle EXCEPT !.pc = "finalize", !.work = work, !.left = left].pc = "finalize"
        BY DEF Idle
      <4>2. \/ Become(t, [Idle EXCEPT !.pc = "reconcile", !.left = Limit])
            \/ \E work, left :
                 Become(t, [Idle EXCEPT !.pc = "finalize", !.work = work, !.left = left])
        BY <3>2 DEF ReadPending
      <4>3. \E thread : Become(t, thread) /\ thread.pc \in {"finalize", "reconcile"}
        BY <4>1, <4>2
      <4> QED
        BY <1>0, <3>1, <4>3, BecomeStays
    <3>3. CASE FinalizePending(t)
      <4>1. \/ \E work : threads' = [threads EXCEPT ![t].work = work]
            \/ Goto(t, CleanedStep(t)) \/ Goto(t, "reconcile")
        BY <1>0, <3>3 DEF FinalizePending
      <4>2. threads[t].pc = "finalize"
        BY <3>3 DEF FinalizePending, At
      <4>3. ASSUME NEW work, threads' = [threads EXCEPT ![t].work = work]
            PROVE  threads'[t].pc = "finalize"
        <5>1. threads[t] \in Thread
          BY <1>0
        <5> QED
          BY <1>0, <4>2, <4>3, <5>1 DEF Thread
      <4> QED
        BY <1>0, <3>1, <4>1, <4>3, GotoStays
    <3> QED
      BY <1>5, <3>1, <3>2, <3>3
  <2>3. threads'[t].pc \notin CleanLoop
    BY <1>2, <2>2 DEF CleanLoop
  <2> QED
    BY <2>2, <2>3, NoCleanupAnyVersion, OneMovesKeepsVersions
<1>6. CASE ReconcileTasks(t)
  <2>1. CASE Goto(t, CleanedStep(t))
    BY <1>1, <1>2, <2>1
  <2>2. ASSUME NEW batch \in SUBSET CleanupDue, Reconcile(batch, threads[t].left),
               threads' = [threads EXCEPT
                             ![t].pc = "clean",
                             ![t].work = {<<x[1], x[2], resources'[x[1]][x[2]].version>> :
                                            x \in batch}]
        PROVE  VersionInv'
    <3> DEFINE work == {<<x[1], x[2], resources'[x[1]][x[2]].version>> : x \in batch}
               thread == [threads[t] EXCEPT !.pc = "clean", !.work = work]
    <3>1. \A x \in batch : /\ x[1] \in Attempts /\ x[2] \in Generations
                           /\ DueFor(x[1], x[2]) /\ x = <<x[1], x[2]>>
      BY DEF CleanupDue
    <3>2. ASSUME NEW x \in batch
          PROVE  /\ resources'[x[1]][x[2]].state # "NONE"
                 /\ resources'[x[1]][x[2]].version \in Nat
      <4>1. resources'[x[1]][x[2]] = StoppedRow(x[1], x[2])
        BY <2>2, <3>1, <3>2 DEF Reconcile
      <4>2. StoppedRow(x[1], x[2]).state = "STOPPING"
        BY <3>1, <3>2, StoppedRowIs DEF RuntimeInv
      <4>3. resources'[x[1]][x[2]].version \in Nat
        BY <3>1, <3>2, RowsGrow
      <4> QED
        BY <4>1, <4>2, <4>3
    <3>3. \A task \in work : /\ resources'[task[1]][task[2]].state # "NONE"
                             /\ task[3] <= resources'[task[1]][task[2]].version
      BY <3>2
    <3> HIDE DEF work
    <3>4. threads' = [threads EXCEPT ![t] = thread]
      BY <2>2 DEF work
    <3>5. thread.pc = "clean" /\ thread.work = work
      <4>1. threads[t] \in Thread
        BY <1>0
      <4> QED
        BY <4>1 DEF Thread
    <3> HIDE DEF thread
    <3>6. VersionOK(thread, resources')
      BY <3>3, <3>5 DEF VersionOK
    <3> QED
      BY <1>0, <3>4, <3>6, WrittenThreadStays, OneMovesKeepsVersions
  <2> QED
    BY <1>6, <2>1, <2>2 DEF ReconcileTasks
<1>7. CASE NextTask(t)
  <2>1. CASE Goto(t, CleanedStep(t))
    BY <1>1, <1>2, <2>1
  <2>2. threads[t].pc = "clean" /\ UNCHANGED store
    BY <1>7 DEF NextTask, At
  <2>3. ASSUME NEW task \in threads[t].work, NEW step \in {"destroy", "clean"},
               step = "destroy" => /\ resources[task[1]][task[2]].version = task[3]
                                   /\ resources[task[1]][task[2]].state = "STOPPING",
               threads' = [threads EXCEPT ![t].pc = step, ![t].a = task[1], ![t].g = task[2],
                                          ![t].v = task[3], ![t].work = @ \ {task}]
        PROVE  VersionInv'
    <3> DEFINE thread == [threads[t] EXCEPT !.pc = step, !.a = task[1], !.g = task[2],
                                            !.v = task[3], !.work = @ \ {task}]
    <3>1. threads[t] \in Thread /\ threads' = [threads EXCEPT ![t] = thread]
      BY <1>0, <2>3
    <3>2. /\ thread.pc = step /\ thread.a = task[1] /\ thread.g = task[2] /\ thread.v = task[3]
          /\ thread.work = threads[t].work \ {task}
      BY <3>1 DEF Thread
    <3> HIDE DEF thread
    <3>3. task[1] \in Attempts /\ task[2] \in Generations /\ task[3] \in Nat
      BY <3>1 DEF Thread
    <3>4. resources' = resources
      BY <2>2 DEF store
    <3>5. /\ resources[task[1]][task[2]].state # "NONE"
          /\ resources[task[1]][task[2]].state = "STOPPING" =>
               "destroy" \in resources[task[1]][task[2]].intents
      BY <1>0, <2>2, <3>3 DEF VersionOK, CleanLoop, RuntimeInv, StoreInv, RoomInv, ResourceShape
    <3>6. VersionOK(thread, resources')
      BY <1>0, <2>2, <2>3, <3>2, <3>3, <3>4, <3>5 DEF VersionOK, CleanLoop
    <3> QED
      BY <1>0, <3>1, <3>6, WrittenThreadStays, OneMovesKeepsVersions
  <2>4. ASSUME NEW task \in threads[t].work,
               threads' = [threads EXCEPT
                ![t].pc   = IF /\ BindingAllowActive(task[1], task[2])
                               /\ resources[task[1]][task[2]].version = task[3]
                               /\ resources[task[1]][task[2]].state = "STOPPING"
                            THEN "destroy" ELSE "clean",
                ![t].a    = task[1],
                ![t].g    = task[2],
                ![t].v    = task[3],
                ![t].work = @ \ {task}]
        PROVE  VersionInv'
    BY <2>3, <2>4
  <2> QED
    BY <1>7, <2>1, <2>4 DEF NextTask
<1> QED
  BY <1>4, <1>5, <1>6, <1>7 DEF Clean

LEMMA VersionsKeep ==
  ASSUME RuntimeInv, VersionInv, [RuntimeNext]_runtimeVars
  PROVE  VersionInv'
<1>0. threads \in [Threads -> Thread] /\ [Next]_vars
  BY EveryRuntimeStep DEF RuntimeInv
<1>1. ASSUME NEW t \in Threads, OthersStay(t), threads'[t].pc \notin CleanLoop
      PROVE  VersionInv'
  BY <1>0, <1>1, NoCleanupAnyVersion, OneMovesKeepsVersions
<1>2. ASSUME UNCHANGED threads
      PROVE  VersionInv'
  BY <1>0, <1>2, VersionsStay DEF VersionInv
<1>3. ASSUME NEW t \in Threads, ThreadStep(t)
      PROVE  VersionInv'
  <2>1. CASE Provision(t)
    BY <1>0, <1>1, <2>1, ProvisionMoves
    DEF ProvisioningMoves, Provisioning, Cleaning, CleanLoop
  <2>2. CASE ExpirePass(t)
    <3>1. OthersStay(t) /\ threads'[t].pc = "pending"
      BY <1>0, <2>2, GotoStays DEF ExpirePass
    <3> QED
      BY <1>1, <3>1 DEF CleanLoop
  <2>3. CASE ListResets(t) \/ ResumeNext(t) \/ PassDone(t) \/ LeaveFailedEntry(t)
    BY <1>1, <2>3, ResumeMoves DEF ResumingMoves, CleanLoop
  <2> QED
    BY <1>0, <1>3, <2>1, <2>2, <2>3, CleanKeepsVersions DEF ThreadStep
<1>4. ASSUME NEW t \in Threads, NEW thread, Become(t, thread), thread.pc \notin CleanLoop
      PROVE  VersionInv'
  BY <1>0, <1>1, <1>4, BecomeStays
<1>5. CASE Request
  <2>1. ASSUME NEW t \in Enterers \cup Leavers, NEW a \in Attempts,
               EnterRoom(t, a) \/ LeaveRoom(t, a)
        PROVE  VersionInv'
    <3>1. /\ [Idle EXCEPT !.pc = "accept", !.a = a, !.g = 1].pc \notin CleanLoop
          /\ [Idle EXCEPT !.pc = "pending"].pc \notin CleanLoop
      BY DEF Idle, CleanLoop
    <3>2. \/ Become(t, [Idle EXCEPT !.pc = "accept", !.a = a, !.g = 1])
          \/ Become(t, [Idle EXCEPT !.pc = "pending"])
      BY <2>1 DEF EnterRoom, LeaveRoom
    <3>3. t \in Threads
      BY DEF Threads
    <3> QED
      BY <1>4, <3>1, <3>2, <3>3
  <2> QED
    BY <1>2, <1>5, <2>1 DEF Request, ResetRoom
<1>6. CASE Lifespan
  <2>1. ASSUME NEW t \in Maintainers, Start(t) \/ RepeatMaintenance(t) \/ Shutdown(t)
        PROVE  VersionInv'
    <3>1. [Idle EXCEPT !.pc = "expire"].pc \notin CleanLoop /\ t \in Threads
      BY DEF Idle, CleanLoop, Threads
    <3> QED
      BY <1>4, <2>1, <3>1 DEF Start, RepeatMaintenance, Shutdown
  <2>2. CASE Crash
    <3>1. \A t \in Threads : threads'[t].pc = "idle"
      BY <2>2 DEF Crash, Idle
    <3> QED
      BY <3>1, NoCleanupAnyVersion DEF VersionInv, CleanLoop
  <2> QED
    BY <1>2, <1>6, <2>1, <2>2 DEF Lifespan, StartupFails, Exit
<1>7. CASE Daemon \/ TimePasses \/ UNCHANGED runtimeVars
  BY <1>2, <1>7 DEF Daemon, DaemonCreates, ContainerExits, TimePasses, runtimeVars
<1> QED
  BY <1>3, <1>5, <1>6, <1>7 DEF RuntimeNext

-----------------------------------------------------------------------------
(* Requests the daemon has yet to carry out *)

\* A provisioning before its container runs.
Building == {"creating", "created", "open", "create", "starting", "started", "start"}

On(t, a, g) == threads[t].a = a /\ threads[t].g = g

\* The process stops, and nobody cleans up any more.
Quiet == server = "stopping" /\ \A c \in Threads : threads[c].pc \notin Cleaning

\* A request whose answer was lost is for a sandbox under way; another thread
\* still builds that sandbox only in the last two passes of a process.
LateOK(a, g) ==
  late[a][g] => /\ resources[a][g].state \notin {"NONE", "REQUESTED"}
                /\ \A t \in Threads : On(t, a, g) /\ threads[t].pc \in Building => Quiet

LateInv == \A a \in Attempts, g \in Generations : LateOK(a, g)

\* With two passes busy the process stops and nobody else is busy.
LEMMA TwoPassesAreAll ==
  ASSUME LifeInv, NEW s \in Maintainers, NEW t \in Maintainers, s # t, Busy(s), Busy(t)
  PROVE  server = "stopping" /\ \A c \in Threads : Busy(c) => c = s \/ c = t
<1>1. s \in Threads /\ t \in Threads
  BY DEF Threads
<1>2. server = "stopping"
  BY <1>1 DEF LifeInv
<1> QED
  BY <1>2 DEF LifeInv

\* Two threads that build one sandbox are alone.
LEMMA BuildersAreAlone ==
  ASSUME LifeInv, RoleInv, NEW s \in Threads, NEW t \in Threads, s # t,
         NEW a, NEW g, On(s, a, g), On(t, a, g),
         threads[s].pc \in Provisioning, threads[t].pc \in Provisioning
  PROVE  Quiet /\ \A c \in Threads : Busy(c) => c = s \/ c = t
<1>1. s \in Maintainers /\ t \in Maintainers
  BY BothMaintain DEF On
<1>2. Busy(s) /\ Busy(t)
  BY DEF Busy, Provisioning
<1>3. server = "stopping" /\ \A c \in Threads : Busy(c) => c = s \/ c = t
  BY <1>1, <1>2, TwoPassesAreAll
<1> QED
  BY <1>3 DEF Quiet, Busy, Provisioning, Cleaning

\* Once quiet, the process stays so until nobody is busy.
LEMMA QuietStays ==
  ASSUME RuntimeInv, Quiet, [RuntimeNext]_runtimeVars
  PROVE  Quiet' \/ \A t \in Threads : ~Busy(t)'
<1>0. threads \in [Threads -> Thread]
  BY DEF RuntimeInv
<1>1. ASSUME NEW t \in Threads, ThreadStep(t)
      PROVE  Quiet'
  <2>1. OthersStay(t) /\ server' = "stopping"
    BY <1>1, BusyThreadMoves, ServerMoves DEF Quiet
  <2>2. threads'[t].pc \notin Cleaning
    <3>1. CASE Provision(t)
      BY <1>0, <3>1, ProvisionMoves DEF ProvisioningMoves, Provisioning, Cleaning
    <3>2. CASE Clean(t) \/ ExpirePass(t)
      BY <3>2, CleanMoves DEF CleaningMoves, Quiet
    <3>3. CASE ListResets(t) \/ ResumeNext(t) \/ PassDone(t) \/ LeaveFailedEntry(t)
      BY <3>3, ResumeMoves DEF ResumingMoves, Cleaning
    <3> QED
      BY <1>1, <3>1, <3>2, <3>3 DEF ThreadStep
  <2> QED
    BY <2>1, <2>2 DEF Quiet, OthersStay, SameButOwn
<1>2. ~Request
  BY DEF Request, EnterRoom, ResetRoom, LeaveRoom, Quiet
<1>3. CASE Lifespan
  <2>1. Exit \/ Crash
    BY <1>3 DEF Lifespan, Start, RepeatMaintenance, Shutdown, StartupFails, Quiet
  <2> QED
    BY <2>1 DEF Exit, Crash, Busy, At, Idle
<1>4. Daemon \/ TimePasses \/ UNCHANGED runtimeVars => Quiet'
  BY DEF Daemon, DaemonCreates, ContainerExits, TimePasses, process, runtimeVars, Quiet
<1> QED
  BY <1>1, <1>2, <1>3, <1>4 DEF RuntimeNext

\* Where a thread that builds comes from.
BuilderComes(t, a, g) ==
  /\ On(t, a, g)
  /\ CASE threads'[t].pc = "creating" -> \/ threads[t].pc = "creating"
                                         \/ /\ threads[t].pc = "inspect"
                                            /\ resources[a][g].state = "REQUESTED"
       [] threads'[t].pc = "open"     -> \/ threads[t].pc = "open"
                                         \/ /\ threads[t].pc = "created"
                                            /\ resources[a][g].version = threads[t].v
                                            /\ resources' = resources
       [] threads'[t].pc = "create"   -> threads[t].pc \in {"open", "create"}
       [] threads'[t].pc = "start"    -> \/ threads[t].pc = "start"
                                         \/ /\ threads[t].pc = "started"
                                            /\ resources[a][g].version = threads[t].v
                                            /\ resources' = resources
       [] OTHER                       -> threads[t].pc \in Building

LEMMA ProvisionBuilds ==
  ASSUME RuntimeInv, NEW t \in Threads, Provision(t), threads'[t].pc \in Building
  PROVE  BuilderComes(t, threads'[t].a, threads'[t].g)
<1> DEFINE a == threads[t].a
           g == threads[t].g
<1>0. threads \in [Threads -> Thread]
  BY DEF RuntimeInv
<1>1. On(t, threads'[t].a, threads'[t].g)
  BY <1>0, ProvisionMoves DEF ProvisioningMoves, Building, On
<1>2. FailedStep(t) \notin Building /\ "undo" \notin Building
  BY DEF FailedStep, Building
<1>3. ASSUME NEW step \in Steps, Goto(t, step)
      PROVE  threads'[t].pc = step /\ threads'[t].a = a /\ threads'[t].g = g
  BY <1>0, <1>3, GotoStays
<1>4. CASE InspectAccepted(t)
  <2>1. /\ threads[t].pc = "inspect"
        /\ \/ Goto(t, "publish") \/ Goto(t, FailedStep(t))
           \/ Goto(t, "creating") /\ resources[a][g].state = "REQUESTED"
    BY <1>4 DEF InspectAccepted, At
  <2>2. threads'[t].pc = "creating" /\ resources[a][g].state = "REQUESTED"
    <3>1. CASE Goto(t, "publish") \/ Goto(t, FailedStep(t))
      <4>1. threads'[t].pc = "publish" \/ threads'[t].pc = FailedStep(t)
        BY <1>0, <3>1, GotoStays
      <4> QED
        BY <1>2, <4>1 DEF Building
    <3>2. CASE Goto(t, "creating") /\ resources[a][g].state = "REQUESTED"
      BY <1>0, <3>2, GotoStays
    <3> QED
      BY <2>1, <3>1, <3>2
  <2>3. threads'[t].a = a /\ threads'[t].g = g
    BY <1>1 DEF On
  <2> HIDE DEF a, g
  <2> QED
    BY <1>1, <2>1, <2>2, <2>3 DEF BuilderComes
<1>5. CASE ConfirmCreating(t) \/ ConfirmStarting(t) \/ ConfirmReady(t)
  <2>1. /\ resources' = resources
        /\ \/ threads[t].pc = "created" /\ Confirm(t, "open", FailedStep(t))
           \/ threads[t].pc = "started" /\ Confirm(t, "start", "undo")
           \/ Confirm(t, "publish", FailedStep(t))
    BY <1>5 DEF ConfirmCreating, ConfirmStarting, ConfirmReady, Confirm, At, store
  <2>2. ASSUME NEW next, NEW refused, Confirm(t, next, refused), refused \notin Building
        PROVE  threads'[t].pc = next /\ resources[a][g].version = threads[t].v
    <3>1. CASE Goto(t, refused)
      <4>1. threads'[t].pc = refused
        BY <1>0, <3>1, GotoStays
      <4> QED
        BY <2>2, <4>1
    <3>2. CASE Goto(t, next) /\ resources[a][g].version = threads[t].v
      BY <1>0, <3>2, GotoStays
    <3> QED
      BY <2>2, <3>1, <3>2 DEF Confirm
  <2>3. "publish" \notin Building
    BY DEF Building
  <2>4. threads'[t].a = a /\ threads'[t].g = g
    BY <1>1 DEF On
  <2>5. CASE threads[t].pc = "created" /\ Confirm(t, "open", FailedStep(t))
    <3>1. threads'[t].pc = "open" /\ resources[a][g].version = threads[t].v
      BY <1>2, <2>2, <2>5
    <3> HIDE DEF a, g
    <3> QED
      BY <1>1, <2>1, <2>4, <2>5, <3>1 DEF BuilderComes
  <2>6. CASE threads[t].pc = "started" /\ Confirm(t, "start", "undo")
    <3>1. threads'[t].pc = "start" /\ resources[a][g].version = threads[t].v
      BY <1>2, <2>2, <2>6
    <3> HIDE DEF a, g
    <3> QED
      BY <1>1, <2>1, <2>4, <2>6, <3>1 DEF BuilderComes
  <2>7. CASE Confirm(t, "publish", FailedStep(t))
    BY <1>2, <2>2, <2>3, <2>7
  <2> QED
    BY <2>1, <2>5, <2>6, <2>7
<1>6. CASE ReportCreating(t) \/ ReportStarting(t)
  <2>1. CASE ReportCreating(t)
    <3>1. threads[t].pc = "creating" /\ threads'[t].pc \in {"created", FailedStep(t)}
      BY <1>0, <2>1, ReportStays DEF ReportCreating, At
    <3>2. threads'[t].pc = "created"
      BY <1>2, <3>1
    <3> QED
      BY <1>1, <3>1, <3>2 DEF BuilderComes, Building
  <2>2. CASE ReportStarting(t)
    <3>1. threads[t].pc = "starting" /\ threads'[t].pc \in {"started", "undo"}
      BY <1>0, <2>2, ReportStays DEF ReportStarting, At
    <3>2. threads'[t].pc = "started"
      BY <1>2, <3>1
    <3> QED
      BY <1>1, <3>1, <3>2 DEF BuilderComes, Building
  <2> QED
    BY <1>6, <2>1, <2>2
<1>7. CASE OpenRuntime(t)
  <2>1. threads[t].pc = "open" /\ \E step \in {"create", "createfailed"} : Goto(t, step)
    BY <1>7 DEF OpenRuntime, At
  <2>2. threads'[t].pc \in {"create", "createfailed"}
    BY <1>0, <2>1, GotoStays
  <2>3. threads'[t].pc = "create"
    BY <2>2 DEF Building
  <2> QED
    BY <1>1, <2>1, <2>3 DEF BuilderComes
<1>8. CASE CreateContainer(t)
  <2>1. threads[t].pc = "create" /\ threads'[t].pc \in {"starting", "createfailed"}
    BY <1>8, CreateGoes
  <2> QED
    BY <1>1, <2>1 DEF BuilderComes, Building
<1>9. CASE \/ AcceptReceipt(t) \/ StartContainer(t) \/ Bootstrap(t) \/ FailTheReset(t)
           \/ ReportFailed(t) \/ ReportReady(t) \/ UndoCreate(t) \/ Publish(t)
  <2>1. CASE AcceptReceipt(t) \/ StartContainer(t) \/ Bootstrap(t) \/ FailTheReset(t)
    <3>1. \E step \in {"inspect", FailedStep(t), "bootstrap", "startfailed", "ready",
                      "bootstrapfailed", "undo"} : Goto(t, step)
      BY <2>1 DEF AcceptReceipt, StartContainer, Bootstrap, FailTheReset
    <3>2. threads'[t].pc \in {"inspect", FailedStep(t), "bootstrap", "startfailed", "ready",
                             "bootstrapfailed", "undo"}
      BY <1>0, <3>1, GotoStays
    <3> QED
      BY <1>2, <3>2 DEF Building
  <2>2. CASE ReportFailed(t) \/ ReportReady(t)
    <3>1. threads'[t].pc \in {"failreset", "undo", "readied", FailedStep(t)}
      BY <1>0, <2>2, ReportStays DEF ReportFailed, ReportReady
    <3> QED
      BY <1>2, <3>1 DEF Building
  <2>3. CASE UndoCreate(t)
    <3>1. threads[t] \in Thread
      BY <1>0
    <3>2. threads'[t].pc = FailedStep(t)
      BY <1>0, <2>3, <3>1 DEF UndoCreate, Thread
    <3> QED
      BY <1>2, <3>2
  <2>4. CASE Publish(t)
    <3>1. /\ [Idle EXCEPT !.pc = "next", !.work = threads[t].work].pc = "next"
          /\ Idle.pc = "idle"
      BY DEF Idle
    <3>2. \/ Become(t, [Idle EXCEPT !.pc = "next", !.work = threads[t].work])
          \/ Become(t, Idle) \/ Goto(t, FailedStep(t))
      BY <2>4 DEF Publish
    <3> QED
      BY <1>0, <1>2, <3>1, <3>2, GotoStays, BecomeStays DEF Building
  <2> QED
    BY <1>9, <2>1, <2>2, <2>3, <2>4
<1> QED
  BY <1>4, <1>5, <1>6, <1>7, <1>8, <1>9 DEF Provision

\* Which thread a step moves.
WhoMoved ==
  \/ \E s \in Threads : ThreadStep(s)
  \/ \A s \in Threads : SameButOwn(threads[s], threads'[s])
  \/ \E s \in Threads : /\ OthersStay(s)
                        /\ threads'[s].pc \in {"accept", "pending", "expire"}
  \/ \A s \in Threads : threads'[s].pc = "idle"

LEMMA SomeoneMoves ==
  ASSUME RuntimeInv, [RuntimeNext]_runtimeVars
  PROVE  WhoMoved
<1>0. threads \in [Threads -> Thread]
  BY DEF RuntimeInv
<1>1. ASSUME UNCHANGED threads
      PROVE  WhoMoved
  BY <1>1, ThreadsStay DEF WhoMoved
<1>2. ASSUME NEW s \in Threads, NEW thread, Become(s, thread),
             thread.pc \in {"accept", "pending", "expire"}
      PROVE  WhoMoved
  BY <1>0, <1>2, BecomeStays DEF WhoMoved
<1>3. CASE Request
  <2>1. ASSUME NEW s \in Enterers, NEW a, EnterRoom(s, a)
        PROVE  WhoMoved
    <3>1. [Idle EXCEPT !.pc = "accept", !.a = a, !.g = 1].pc = "accept"
      BY DEF Idle
    <3> QED
      BY <1>2, <2>1, <3>1 DEF EnterRoom, Threads
  <2>2. ASSUME NEW s \in Leavers, NEW a, LeaveRoom(s, a)
        PROVE  WhoMoved
    <3>1. [Idle EXCEPT !.pc = "pending"].pc = "pending"
      BY DEF Idle
    <3> QED
      BY <1>2, <2>2, <3>1 DEF LeaveRoom, Threads
  <2> QED
    BY <1>1, <1>3, <2>1, <2>2 DEF Request, ResetRoom
<1>4. CASE Lifespan
  <2>1. ASSUME NEW s \in Maintainers, Start(s) \/ RepeatMaintenance(s) \/ Shutdown(s)
        PROVE  WhoMoved
    <3>1. [Idle EXCEPT !.pc = "expire"].pc = "expire"
      BY DEF Idle
    <3> QED
      BY <1>2, <2>1, <3>1 DEF Start, RepeatMaintenance, Shutdown, Threads
  <2>2. CASE Crash
    BY <2>2 DEF Crash, Idle, WhoMoved
  <2> QED
    BY <1>1, <1>4, <2>1, <2>2 DEF Lifespan, StartupFails, Exit
<1>5. Daemon \/ TimePasses \/ UNCHANGED runtimeVars => UNCHANGED threads
  BY DEF Daemon, DaemonCreates, ContainerExits, TimePasses, runtimeVars
<1> QED
  BY <1>1, <1>3, <1>4, <1>5 DEF RuntimeNext, WhoMoved

LEMMA SameBuilds ==
  ASSUME NEW t \in Threads, SameButOwn(threads[t], threads'[t]), threads'[t].pc \in Building
  PROVE  BuilderComes(t, threads'[t].a, threads'[t].g)
<1>1. On(t, threads'[t].a, threads'[t].g) /\ threads[t].pc = threads'[t].pc
  BY DEF SameButOwn, On
<1> QED
  BY <1>1 DEF BuilderComes

LEMMA BuildersCome ==
  ASSUME RuntimeInv, [RuntimeNext]_runtimeVars, NEW t \in Threads, threads'[t].pc \in Building
  PROVE  BuilderComes(t, threads'[t].a, threads'[t].g)
<1>1. ASSUME NEW s \in Threads, s # t, OthersStay(s)
      PROVE  BuilderComes(t, threads'[t].a, threads'[t].g)
  BY <1>1, SameBuilds DEF OthersStay
<1>2. ASSUME NEW s \in Threads, ThreadStep(s)
      PROVE  BuilderComes(t, threads'[t].a, threads'[t].g)
  <2>1. CASE s # t
    BY <1>1, <1>2, <2>1, BusyThreadMoves
  <2>2. CASE Provision(t)
    BY <2>2, ProvisionBuilds
  <2>3. CASE Clean(t) \/ ExpirePass(t)
    <3>1. threads'[t].pc \in Cleaning \cup {"resume", "idle"}
      BY <2>3, CleanMoves DEF CleaningMoves, CleanedStep
    <3> QED
      BY <3>1 DEF Cleaning, Building
  <2>4. CASE ListResets(t) \/ ResumeNext(t) \/ PassDone(t) \/ LeaveFailedEntry(t)
    <3>1. threads'[t].pc \in {"next", "accept", "idle"}
      BY <2>4, ResumeMoves DEF ResumingMoves
    <3> QED
      BY <3>1 DEF Building
  <2> QED
    BY <1>2, <2>1, <2>2, <2>3, <2>4 DEF ThreadStep
<1>3. WhoMoved
  BY SomeoneMoves
<1>4. ASSUME NEW s \in Threads, OthersStay(s), threads'[s].pc \in {"accept", "pending", "expire"}
      PROVE  s # t
  BY <1>4 DEF Building
<1>5. ASSUME threads'[t].pc = "idle"
      PROVE  FALSE
  BY <1>5 DEF Building
<1> QED
  BY <1>1, <1>2, <1>3, <1>4, <1>5, SameBuilds DEF WhoMoved

\* A thread comes to the record of a removal by the removal.
LEMMA RemoversCome ==
  ASSUME RuntimeInv, [RuntimeNext]_runtimeVars, NEW t \in Threads, threads'[t].pc = "record"
  PROVE  \/ SameButOwn(threads[t], threads'[t])
         \/ /\ DestroyContainer(t) /\ OthersStay(t)
            /\ SetContainer(threads[t].a, threads[t].g, "absent")
            /\ threads'[t].a = threads[t].a /\ threads'[t].g = threads[t].g
            /\ threads'[t].v = threads[t].v
<1>0. threads \in [Threads -> Thread]
  BY DEF RuntimeInv
<1>1. ASSUME NEW s \in Threads, s # t, OthersStay(s)
      PROVE  SameButOwn(threads[t], threads'[t])
  BY <1>1 DEF OthersStay
<1>2. ASSUME NEW step, Goto(t, step)
      PROVE  step = "record"
  BY <1>0, <1>2, GotoStays
<1>3. ASSUME NEW thread, Become(t, thread)
      PROVE  thread.pc = "record"
  BY <1>0, <1>3, BecomeStays
<1>4. ASSUME Clean(t)
      PROVE  /\ DestroyContainer(t) /\ OthersStay(t)
             /\ SetContainer(threads[t].a, threads[t].g, "absent")
             /\ threads'[t].a = threads[t].a /\ threads'[t].g = threads[t].g
             /\ threads'[t].v = threads[t].v
  <2>1. CASE DestroyContainer(t)
    <3>1. ~Goto(t, "retry")
      BY <1>2
    <3>2. SetContainer(threads[t].a, threads[t].g, "absent") /\ Goto(t, "record")
      BY <2>1, <3>1 DEF DestroyContainer
    <3> QED
      BY <1>0, <2>1, <3>2, GotoStays
  <2>2. CASE RecordDestroyed(t) \/ RecordFailure(t) \/ FinalizeTask(t)
    <3>1. Goto(t, "close") \/ Goto(t, "clean")
      BY <2>2 DEF RecordDestroyed, RecordFailure, FinalizeTask
    <3> QED
      BY <1>2, <3>1
  <2>3. CASE ReadPending(t)
    <3>1. /\ [Idle EXCEPT !.pc = "reconcile", !.left = Limit].pc # "record"
          /\ \A work, left :
               [Idle EXCEPT !.pc = "finalize", !.work = work, !.left = left].pc # "record"
      BY DEF Idle
    <3>2. \/ Become(t, [Idle EXCEPT !.pc = "reconcile", !.left = Limit])
          \/ \E work, left :
               Become(t, [Idle EXCEPT !.pc = "finalize", !.work = work, !.left = left])
      BY <2>3 DEF ReadPending
    <3> QED
      BY <1>3, <3>1, <3>2
  <2>4. CASE FinalizePending(t) \/ ReconcileTasks(t) \/ NextTask(t)
    <3>1. threads[t] \in Thread
      BY <1>0
    <3>2. ~Goto(t, CleanedStep(t)) /\ ~Goto(t, "reconcile")
      BY <1>2 DEF CleanedStep
    <3>3. ~\E work : threads' = [threads EXCEPT ![t].work = work] /\ threads[t].pc = "finalize"
      BY <1>0, <3>1 DEF Thread
    <3>4. ~\E work : threads' = [threads EXCEPT ![t].pc = "clean", ![t].work = work]
      BY <1>0, <3>1 DEF Thread
    <3>5. ASSUME NEW step \in {"destroy", "clean"}, NEW b, NEW h, NEW v, NEW work,
                 threads' = [threads EXCEPT ![t].pc = step, ![t].a = b, ![t].g = h,
                                            ![t].v = v, ![t].work = work]
          PROVE  FALSE
      <4>1. threads' = [threads EXCEPT ![t] = [threads[t] EXCEPT !.pc = step, !.a = b, !.g = h,
                                                                 !.v = v, !.work = work]]
        BY <3>5
      <4> QED
        BY <1>0, <3>1, <4>1 DEF Thread
    <3>6. CASE FinalizePending(t)
      <4>1. \/ \E work : threads' = [threads EXCEPT ![t].work = work] /\ threads[t].pc = "finalize"
            \/ Goto(t, CleanedStep(t)) \/ Goto(t, "reconcile")
        BY <3>6 DEF FinalizePending, At
      <4> QED
        BY <3>2, <3>3, <4>1
    <3>7. CASE ReconcileTasks(t)
      BY <3>2, <3>4, <3>7 DEF ReconcileTasks
    <3>8. CASE NextTask(t)
      <4> DEFINE step(task) == IF /\ BindingAllowActive(task[1], task[2])
                                  /\ resources[task[1]][task[2]].version = task[3]
                                  /\ resources[task[1]][task[2]].state = "STOPPING"
                               THEN "destroy" ELSE "clean"
                 rest(task) == threads[t].work \ {task}
      <4>1. \A task : step(task) \in {"destroy", "clean"}
        OBVIOUS
      <4>2. \/ Goto(t, CleanedStep(t))
            \/ \E task : threads' = [threads EXCEPT ![t].pc = step(task), ![t].a = task[1],
                                         ![t].g = task[2], ![t].v = task[3], ![t].work = rest(task)]
        BY <3>8 DEF NextTask
      <4> HIDE DEF step, rest
      <4>3. PICK task : threads' = [threads EXCEPT ![t].pc = step(task), ![t].a = task[1],
                                      ![t].g = task[2], ![t].v = task[3], ![t].work = rest(task)]
        BY <3>2, <4>2
      <4>4. FALSE
        BY <3>5, <4>1, <4>3
      <4> QED
        BY <4>4
    <3> QED
      BY <2>4, <3>6, <3>7, <3>8
  <2>5. \/ ReadPending(t) \/ FinalizePending(t) \/ ReconcileTasks(t) \/ NextTask(t)
        \/ DestroyContainer(t) \/ RecordDestroyed(t) \/ RecordFailure(t) \/ FinalizeTask(t)
    BY <1>4 DEF Clean
  <2> QED
    BY <2>1, <2>2, <2>3, <2>4, <2>5, Zenon
<1>5. ASSUME NEW s \in Threads, ThreadStep(s), s = t
      PROVE  Clean(t)
  <2>1. CASE Provision(t)
    BY <1>0, <2>1, ProvisionMoves DEF ProvisioningMoves, Provisioning, Cleaning
  <2>2. CASE ExpirePass(t)
    BY <1>2, <2>2 DEF ExpirePass
  <2>3. CASE ListResets(t) \/ ResumeNext(t) \/ PassDone(t) \/ LeaveFailedEntry(t)
    BY <2>3, ResumeMoves DEF ResumingMoves
  <2> QED
    BY <1>5, <2>1, <2>2, <2>3 DEF ThreadStep
<1>6. WhoMoved
  BY SomeoneMoves
<1> QED
  BY <1>1, <1>4, <1>5, <1>6, BusyThreadMoves DEF WhoMoved

-----------------------------------------------------------------------------
(* Who records that a sandbox is ready, and who that it is absent *)

\* The states most steps put a sandbox into.
Plain == {"REQUESTED", "CREATING", "STARTING", "FAILED", "STOPPING"}

PlainStep ==
  \A a \in Attempts, g \in Generations :
    \/ resources'[a][g].state = resources[a][g].state
    \/ resources'[a][g].state \in Plain

\* The two reports that do not.
RecordsReady(t) ==
  /\ ReportReady(t)
  /\ Transition(threads[t].a, threads[t].g, threads[t].v, "READY")
  /\ threads'[t].pc = "readied"

RecordsAbsence(t) ==
  /\ At(t, "record")
  /\ Transition(threads[t].a, threads[t].g, threads[t].v, "DESTROYED")

LEMMA SameRowsArePlain ==
  ASSUME resources' = resources
  PROVE  PlainStep
BY DEF PlainStep

LEMMA WrittenRowIsPlain ==
  ASSUME RuntimeInv, NEW a \in Attempts, NEW g \in Generations, NEW row,
         WriteResource(a, g, row),
         row.state \in Plain \/ row.state = resources[a][g].state
  PROVE  PlainStep
<1>1. \A b \in Attempts, h \in Generations :
        resources'[b][h] = IF b = a /\ h = g THEN row ELSE resources[b][h]
  BY DEF WriteResource, RuntimeInv, StoreInv, TypeOK
<1> QED
  BY <1>1 DEF PlainStep

LEMMA TransitionMarks ==
  ASSUME RuntimeInv, NEW a \in Attempts, NEW g \in Generations, NEW v, NEW state,
         Transition(a, g, v, state)
  PROVE  /\ resources[a][g].version = v
         /\ resources'[a][g].state = state
         /\ \A b \in Attempts, h \in Generations :
              b # a \/ h # g => resources'[b][h] = resources[b][h]
         /\ state \in Plain => PlainStep
<1>1. \E row : WriteResource(a, g, row)
  BY DEF Transition
<1>2. \A b \in Attempts, h \in Generations :
        b # a \/ h # g => resources'[b][h] = resources[b][h]
  BY <1>1 DEF WriteResource, RuntimeInv, StoreInv, TypeOK
<1>3. resources'[a][g].state = state
  BY TransitionWrites
<1>4. resources[a][g].version = v
  BY DEF Transition, TransitionOk
<1>5. ASSUME state \in Plain, NEW b \in Attempts, NEW h \in Generations
      PROVE  \/ resources'[b][h].state = resources[b][h].state
             \/ resources'[b][h].state \in Plain
  <2>1. CASE b = a /\ h = g
    BY <1>3, <1>5, <2>1
  <2>2. CASE b # a \/ h # g
    BY <1>2, <2>2
  <2> QED
    BY <2>1, <2>2
<1> QED
  BY <1>2, <1>3, <1>4, <1>5 DEF PlainStep

LEMMA DeniedRowIsPlain ==
  ASSUME RuntimeInv, NEW a \in Attempts, NEW g \in Generations, DenyResource(a, g)
  PROVE  PlainStep
<1>1. resources[a][g] \in Resource
  BY DEF RuntimeInv, StoreInv, TypeOK
<1>2. \/ StopResource(resources[a][g], TRUE).state = "STOPPING"
      \/ StopResource(resources[a][g], TRUE).state = resources[a][g].state
  BY <1>1 DEF StopResource, Resource
<1> QED
  BY <1>2, WrittenRowIsPlain DEF DenyResource, Plain

LEMMA ProvisionIsPlain ==
  ASSUME RuntimeInv, NEW t \in Threads, Provision(t)
  PROVE  PlainStep \/ RecordsReady(t)
<1>0. threads \in [Threads -> Thread]
  BY DEF RuntimeInv
<1>1. CASE ReportCreating(t) \/ ReportStarting(t) \/ ReportFailed(t)
  <2>1. /\ threads[t].pc \in {"creating", "starting", "createfailed", "startfailed",
                              "bootstrapfailed"}
        /\ \E v, label, next, refused : \E state \in {"CREATING", "STARTING", "FAILED"} :
             Report(t, v, state, label, next, refused)
    BY <1>1 DEF ReportCreating, ReportStarting, ReportFailed, At
  <2>2. threads[t].pc \notin Free
    BY <2>1 DEF Free
  <2>3. threads[t].a \in Attempts /\ threads[t].g \in Generations
    BY <2>2, AtHand
  <2>4. ASSUME NEW v, NEW state \in {"CREATING", "STARTING", "FAILED"},
               Transition(threads[t].a, threads[t].g, v, state)
        PROVE  PlainStep
    BY <2>3, <2>4, TransitionMarks DEF Plain
  <2>5. \/ UNCHANGED store \/ DenyResource(threads[t].a, threads[t].g)
        \/ \E v : \E state \in {"CREATING", "STARTING", "FAILED"} :
             Transition(threads[t].a, threads[t].g, v, state)
    BY <2>1 DEF Report
  <2> QED
    BY <2>3, <2>4, <2>5, DeniedRowIsPlain, SameRowsArePlain DEF store
<1>2. CASE ReportReady(t)
  <2>1. /\ threads[t].pc = "ready"
        /\ Report(t, threads[t].v, "READY", "ready", "readied", FailedStep(t))
    BY <1>2 DEF ReportReady, At
  <2>2. threads[t].pc \notin Free /\ threads[t] \in Thread
    BY <1>0, <2>1 DEF Free
  <2>3. CASE /\ Transition(threads[t].a, threads[t].g, threads[t].v, "READY")
             /\ threads' = [threads EXCEPT ![t].pc = "readied", ![t].v = threads[t].v + 1]
    <3>1. threads'[t].pc = "readied"
      BY <1>0, <2>2, <2>3 DEF Thread
    <3> QED
      BY <1>2, <2>3, <3>1 DEF RecordsReady
  <2>4. \/ UNCHANGED store \/ DenyResource(threads[t].a, threads[t].g)
        \/ /\ Transition(threads[t].a, threads[t].g, threads[t].v, "READY")
           /\ threads' = [threads EXCEPT ![t].pc = "readied", ![t].v = threads[t].v + 1]
    BY <2>1 DEF Report
  <2>5. threads[t].a \in Attempts /\ threads[t].g \in Generations
    BY <2>2, AtHand
  <2> QED
    BY <2>3, <2>4, <2>5, DeniedRowIsPlain, SameRowsArePlain DEF store
<1>3. CASE AcceptReceipt(t)
  <2> DEFINE row == [NoResource EXCEPT !.state = "REQUESTED"]
  <2>1. threads[t].a \in Attempts /\ threads[t].g \in Generations
    BY <1>3, AtHand DEF AcceptReceipt, At, Free
  <2>2. UNCHANGED store \/ WriteResource(threads[t].a, threads[t].g, row)
    BY <1>3 DEF AcceptReceipt, Accept
  <2>3. row.state \in Plain
    BY DEF NoResource, Plain
  <2> HIDE DEF row
  <2> QED
    BY <2>1, <2>2, <2>3, WrittenRowIsPlain, SameRowsArePlain DEF store
<1>4. CASE FailTheReset(t) \/ Publish(t)
  <2>1. \/ UNCHANGED store
        \/ \E a, row : WriteAttempt(a, row)
    BY <1>4 DEF FailTheReset, Publish, FailReset, DenyAttempt, PublishReady, PublishResetReady
  <2> QED
    BY <2>1, SameRowsArePlain DEF store, WriteAttempt
<1>5. CASE \/ InspectAccepted(t) \/ ConfirmCreating(t) \/ OpenRuntime(t) \/ CreateContainer(t)
           \/ ConfirmStarting(t) \/ StartContainer(t) \/ Bootstrap(t) \/ UndoCreate(t)
           \/ ConfirmReady(t)
  BY <1>5, SameRowsArePlain DEF InspectAccepted, ConfirmCreating, OpenRuntime,
    CreateContainer, ConfirmStarting, StartContainer, Bootstrap, UndoCreate, ConfirmReady,
    Confirm, store
<1> QED
  BY <1>1, <1>2, <1>3, <1>4, <1>5 DEF Provision

LEMMA CleanIsPlain ==
  ASSUME RuntimeInv, NEW t \in Threads, Clean(t)
  PROVE  PlainStep \/ RecordsAbsence(t)
<1>1. CASE RecordDestroyed(t)
  BY <1>1, SameRowsArePlain DEF RecordDestroyed, RecordsAbsence, store
<1>2. CASE RecordFailure(t)
  <2> DEFINE a == threads[t].a
             g == threads[t].g
             row == [resources[a][g] EXCEPT !.state = "FAILED", !.version = @ + 1]
  <2>1. a \in Attempts /\ g \in Generations
    BY <1>2, AtHand DEF RecordFailure, At, Free
  <2>2. UNCHANGED store \/ WriteResource(a, g, row)
    BY <1>2 DEF RecordFailure, CleanupFailed
  <2>3. row.state \in Plain
    BY <2>1 DEF RuntimeInv, StoreInv, TypeOK, Resource, Plain
  <2> HIDE DEF row
  <2> QED
    BY <2>1, <2>2, <2>3, WrittenRowIsPlain, SameRowsArePlain DEF store
<1>3. CASE ReconcileTasks(t)
  <2>1. ASSUME NEW batch \in SUBSET CleanupDue, Reconcile(batch, threads[t].left)
        PROVE  PlainStep
    <3>1. \A a \in Attempts, g \in Generations :
            resources'[a][g] = IF <<a, g>> \in batch THEN StoppedRow(a, g) ELSE resources[a][g]
      BY <2>1 DEF Reconcile
    <3>2. ASSUME NEW a \in Attempts, NEW g \in Generations, <<a, g>> \in batch
          PROVE  StoppedRow(a, g).state = "STOPPING"
      <4>1. DueFor(a, g)
        BY <3>2 DEF CleanupDue
      <4> QED
        BY <4>1, StoppedRowIs DEF RuntimeInv
    <3> QED
      BY <3>1, <3>2 DEF PlainStep, Plain
  <2>2. UNCHANGED store \/ \E batch \in SUBSET CleanupDue : Reconcile(batch, threads[t].left)
    BY <1>3 DEF ReconcileTasks
  <2> QED
    BY <2>1, <2>2, SameRowsArePlain DEF store
<1>4. CASE \/ ReadPending(t) \/ FinalizePending(t) \/ NextTask(t) \/ DestroyContainer(t)
           \/ FinalizeTask(t)
  BY <1>4, SameRowsArePlain DEF ReadPending, FinalizePending, NextTask, DestroyContainer,
    FinalizeTask, Finalize, CompleteCleanup, WriteAttempt, store
<1> QED
  BY <1>1, <1>2, <1>3, <1>4 DEF Clean

LEMMA EveryStepIsPlain ==
  ASSUME RuntimeInv, [RuntimeNext]_runtimeVars
  PROVE  PlainStep \/ \E t \in Threads : RecordsReady(t) \/ RecordsAbsence(t)
<1>1. ASSUME NEW t \in Threads, ThreadStep(t)
      PROVE  PlainStep \/ RecordsReady(t) \/ RecordsAbsence(t)
  <2>1. LeaveFailedEntry(t) \/ ExpirePass(t) \/ ListResets(t) \/ ResumeNext(t) \/ PassDone(t)
          => resources' = resources
    BY DEF LeaveFailedEntry, ExpirePass, ListResets, ResumeNext, PassDone, Leave, WriteAttempt,
      ExpireSome, Expire, store
  <2> QED
    BY <1>1, <2>1, SameRowsArePlain, ProvisionIsPlain, CleanIsPlain DEF ThreadStep
<1>2. Request \/ Lifespan \/ Daemon \/ TimePasses \/ UNCHANGED runtimeVars
        => resources' = resources
  BY DEF Request, EnterRoom, ResetRoom, LeaveRoom, Create, BeginReset, Leave, WriteAttempt,
    Lifespan, Start, RepeatMaintenance, Shutdown, StartupFails, Exit, Crash, Daemon,
    DaemonCreates, ContainerExits, TimePasses, Tick, runtimeVars, store
<1> QED
  BY <1>1, <1>2, SameRowsArePlain DEF RuntimeNext

\* An absence is recorded under the version the cleanup carries.
LEMMA AbsencesComeFromRecords ==
  ASSUME RuntimeInv, [RuntimeNext]_runtimeVars, NEW a \in Attempts, NEW g \in Generations,
         resources'[a][g].state = "DESTROYED", resources[a][g].state # "DESTROYED"
  PROVE  \E c \in Threads : /\ At(c, "record") /\ On(c, a, g)
                            /\ threads[c].v = resources[a][g].version
<1>1. ~PlainStep
  BY DEF PlainStep, Plain
<1>2. PICK t \in Threads : RecordsReady(t) \/ RecordsAbsence(t)
  BY <1>1, EveryStepIsPlain
<1>3. threads[t].a \in Attempts /\ threads[t].g \in Generations
  BY <1>2, AtHand DEF RecordsReady, ReportReady, RecordsAbsence, At, Free
<1>4. CASE RecordsReady(t)
  <2>1. /\ resources'[threads[t].a][threads[t].g].state = "READY"
        /\ a # threads[t].a \/ g # threads[t].g => resources'[a][g] = resources[a][g]
    BY <1>3, <1>4, TransitionMarks DEF RecordsReady
  <2> QED
    BY <2>1
<1>5. CASE RecordsAbsence(t)
  <2>1. /\ resources[threads[t].a][threads[t].g].version = threads[t].v
        /\ a # threads[t].a \/ g # threads[t].g => resources'[a][g] = resources[a][g]
    BY <1>3, <1>5, TransitionMarks DEF RecordsAbsence
  <2>2. a = threads[t].a /\ g = threads[t].g
    BY <2>1
  <2> QED
    BY <1>5, <2>1, <2>2 DEF On, RecordsAbsence
<1> QED
  BY <1>2, <1>4, <1>5

Working == {"READY", "RUNNING", "RESOLVED"}

\* A sandbox gets to work by the report of a verified start.
LEMMA WorkingComesFromReports ==
  ASSUME RuntimeInv, [RuntimeNext]_runtimeVars, NEW a \in Attempts, NEW g \in Generations,
         resources'[a][g].state \in Working, resources[a][g].state \notin Working
  PROVE  \E t \in Threads : RecordsReady(t) /\ On(t, a, g)
<1>1. ~PlainStep
  BY DEF PlainStep, Plain, Working
<1>2. PICK t \in Threads : RecordsReady(t) \/ RecordsAbsence(t)
  BY <1>1, EveryStepIsPlain
<1>3. threads[t].a \in Attempts /\ threads[t].g \in Generations
  BY <1>2, AtHand DEF RecordsReady, ReportReady, RecordsAbsence, At, Free
<1>4. /\ RecordsAbsence(t) => resources'[threads[t].a][threads[t].g].state = "DESTROYED"
      /\ a # threads[t].a \/ g # threads[t].g => resources'[a][g] = resources[a][g]
  BY <1>2, <1>3, TransitionMarks DEF RecordsReady, RecordsAbsence
<1>5. a = threads[t].a /\ g = threads[t].g
  BY <1>4
<1> QED
  BY <1>2, <1>4, <1>5 DEF On, Working

-----------------------------------------------------------------------------
(* Containers and requests for them *)

\* Who brings a container or a late request about.
ContainersCome(a, g) ==
  /\ containers[a][g] = "absent" /\ containers'[a][g] # "absent" =>
       late[a][g] \/ \E s \in Threads : CreateContainer(s) /\ On(s, a, g)
  /\ containers[a][g] # "running" /\ containers'[a][g] = "running" =>
       containers[a][g] = "created" /\ \E t \in Threads : StartContainer(t) /\ On(t, a, g)
  /\ ~late[a][g] /\ late'[a][g] => \E s \in Threads : CreateContainer(s) /\ On(s, a, g)
                                      /\ threads'[s].pc = "createfailed"

LEMMA ContainersOnlyCome ==
  ASSUME RuntimeInv, DockerTypes, [RuntimeNext]_runtimeVars,
         NEW a \in Attempts, NEW g \in Generations
  PROVE  ContainersCome(a, g)
<1>0. threads \in [Threads -> Thread]
  BY DEF RuntimeInv
<1>1. CASE OnlyRemoves
  BY <1>1, SetContainerTypes DEF OnlyRemoves, ContainersCome
<1>2. ASSUME NEW s \in Threads, CreateContainer(s)
      PROVE  ContainersCome(a, g)
  <2> DEFINE b == threads[s].a
             h == threads[s].g
             asked == [late EXCEPT ![b][h] = containers[b][h] = "absent"]
  <2>1. containers' = containers \/ SetContainer(b, h, "created")
    BY <1>2 DEF CreateContainer, docker
  <2>2. late' = late \/ (late' = asked /\ Goto(s, "createfailed"))
    BY <1>2 DEF CreateContainer, docker
  <2>3. a # b \/ g # h => asked[a][g] = late[a][g]
    BY DEF DockerTypes
  <2> HIDE DEF asked
  <2>4. a # b \/ g # h => containers'[a][g] = containers[a][g]
    BY <2>1, SetContainerTypes
  <2>5. containers'[a][g] \in {containers[a][g], "created"}
    BY <2>1, SetContainerTypes
  <2>6. ~late[a][g] /\ late'[a][g] => a = b /\ g = h /\ threads'[s].pc = "createfailed"
    BY <1>0, <2>2, <2>3, GotoStays
  <2> QED
    BY <1>2, <2>4, <2>5, <2>6 DEF ContainersCome, On
<1>3. ASSUME NEW t \in Threads, StartContainer(t)
      PROVE  ContainersCome(a, g)
  <2> DEFINE b == threads[t].a
             h == threads[t].g
  <2>1. /\ late' = late
        /\ \/ containers' = containers
           \/ SetContainer(b, h, "running") /\ containers[b][h] \in {"running", "created"}
    BY <1>3 DEF StartContainer
  <2> QED
    BY <1>3, <2>1, SetContainerTypes DEF ContainersCome, On
<1>4. ASSUME NEW b \in Attempts, NEW h \in Generations, DaemonCreates(b, h)
      PROVE  ContainersCome(a, g)
  <2>1. late[b][h] /\ late'[a][g] = (IF a = b /\ g = h THEN FALSE ELSE late[a][g])
    BY <1>4 DEF DaemonCreates, DockerTypes
  <2>2. \/ containers' = containers
        \/ containers' = [containers EXCEPT ![b][h] = "created"]
    BY <1>4 DEF DaemonCreates
  <2>3. \/ containers'[a][g] = containers[a][g]
        \/ a = b /\ g = h /\ containers'[a][g] = "created"
    BY <2>2 DEF DockerTypes
  <2> QED
    BY <2>1, <2>3 DEF ContainersCome
<1> QED
  BY <1>1, <1>2, <1>3, <1>4, OthersOnlyRemove

LEMMA LateKeeps ==
  ASSUME RuntimeInv, LifeInv, RoleInv, RowsInv, DockerTypes, LateInv, [RuntimeNext]_runtimeVars
  PROVE  LateInv'
<1>0. /\ threads \in [Threads -> Thread] /\ [Next]_vars /\ RowsFill
  BY EveryRuntimeStep, EveryStepFills DEF RuntimeInv
<1> SUFFICES ASSUME NEW a \in Attempts, NEW g \in Generations, late'[a][g]
             PROVE  /\ resources'[a][g].state \notin {"NONE", "REQUESTED"}
                    /\ \A t \in Threads :
                         On(t, a, g)' /\ threads'[t].pc \in Building => Quiet'
  BY DEF LateInv, LateOK
<1>1. ASSUME resources[a][g].state \notin {"NONE", "REQUESTED"}
      PROVE  resources'[a][g].state \notin {"NONE", "REQUESTED"}
  BY <1>0, <1>1, RowsGrow DEF RowsFill, FilledIn
<1>2. ASSUME NEW t \in Threads, threads'[t].pc \in Building, Quiet
      PROVE  Quiet'
  <2>1. Busy(t)'
    BY <1>2 DEF Busy, Building
  <2> QED
    BY <1>2, <2>1, QuietStays
<1>3. \A t \in Threads : On(t, a, g)' /\ threads'[t].pc \in Building => BuilderComes(t, a, g)
  BY BuildersCome DEF On
<1>4. CASE late[a][g]
  <2>1. resources[a][g].state \notin {"NONE", "REQUESTED"}
    BY <1>4 DEF LateInv, LateOK
  <2>2. ASSUME NEW t \in Threads, On(t, a, g)', threads'[t].pc \in Building
        PROVE  Quiet'
    <3>1. On(t, a, g) /\ threads[t].pc \in Building
      BY <1>3, <2>1, <2>2 DEF BuilderComes, Building
    <3>2. Quiet
      BY <1>4, <3>1 DEF LateInv, LateOK
    <3> QED
      BY <1>2, <2>2, <3>2
  <2> QED
    BY <1>1, <2>1, <2>2
<1>5. CASE ~late[a][g]
  <2>1. PICK s \in Threads : /\ CreateContainer(s) /\ On(s, a, g)
                             /\ threads'[s].pc = "createfailed"
    BY <1>5, ContainersOnlyCome DEF ContainersCome
  <2>2. threads[s].pc = "create" /\ OthersStay(s)
    BY <1>0, <2>1, ProvisionMoves DEF CreateContainer, At, Provision, ProvisioningMoves
  <2>3. "creating" \in answered[a][g]
    BY <2>1, <2>2 DEF RuntimeInv, ThreadOK, AfterCreating, On
  <2>4. resources[a][g].state \notin {"NONE", "REQUESTED"}
    BY <2>3 DEF RowsInv, RowRecords
  <2>5. ASSUME NEW t \in Threads, On(t, a, g)', threads'[t].pc \in Building
        PROVE  Quiet'
    <3>1. s # t
      BY <2>1, <2>5 DEF Building
    <3>2. On(t, a, g) /\ threads[t].pc \in Building
      BY <2>2, <2>5, <3>1 DEF OthersStay, SameButOwn, On
    <3>3. threads[s].pc \in Provisioning /\ threads[t].pc \in Provisioning
      BY <2>2, <3>2 DEF Provisioning, Building, Steps, Cleaning
    <3>4. Quiet
      BY <2>1, <3>1, <3>2, <3>3, BuildersAreAlone
    <3> QED
      BY <1>2, <2>5, <3>4
  <2> QED
    BY <1>1, <2>4, <2>5
<1> QED
  BY <1>4, <1>5

-----------------------------------------------------------------------------
(* Sandboxes that are gone *)

\* The absence of the sandbox is on record, or a cleanup that has removed its
\* container is about to record it.
Gone(a, g) ==
  \/ resources[a][g].state = "DESTROYED"
  \/ \E c \in Threads : At(c, "record") /\ On(c, a, g) /\ threads[c].v = resources[a][g].version

\* A container that runs is on record and not gone; whoever still goes to start
\* a sandbox that is gone finds no container, and none is under way.
GoneOK(a, g) ==
  /\ containers[a][g] = "running" => /\ ~Gone(a, g)
                                     /\ resources[a][g].state # "NONE"
                                     /\ "container_id" \in resources[a][g].filled
  /\ Gone(a, g) /\ (\E t \in Threads : On(t, a, g) /\ At(t, "start")) =>
       /\ containers[a][g] = "absent"
       /\ ~late[a][g]
       /\ \A s \in Threads : On(s, a, g) => threads[s].pc \notin {"open", "create"}

GoneInv == \A a \in Attempts, g \in Generations : GoneOK(a, g)

LEMMA GoneComes ==
  ASSUME RuntimeInv, VersionInv, [RuntimeNext]_runtimeVars,
         NEW a \in Attempts, NEW g \in Generations, Gone(a, g)', ~Gone(a, g)
  PROVE  \E c \in Threads : /\ DestroyContainer(c) /\ On(c, a, g) /\ OthersStay(c)
                            /\ SetContainer(a, g, "absent") /\ threads'[c].pc = "record"
<1>0. [Next]_vars
  BY EveryRuntimeStep
<1>1. resources'[a][g].state # "DESTROYED"
  <2> SUFFICES ASSUME resources'[a][g].state = "DESTROYED" PROVE FALSE
    OBVIOUS
  <2>1. resources[a][g].state # "DESTROYED"
    BY DEF Gone
  <2> QED
    BY <2>1, AbsencesComeFromRecords DEF Gone
<1>2. PICK c \in Threads : /\ threads'[c].pc = "record" /\ On(c, a, g)'
                           /\ threads'[c].v = resources'[a][g].version
  BY <1>1 DEF Gone, At
<1>3. CASE SameButOwn(threads[c], threads'[c])
  <2>1. /\ At(c, "record") /\ On(c, a, g)
        /\ threads[c].v = resources'[a][g].version
    BY <1>2, <1>3 DEF SameButOwn, At, On
  <2>2. /\ resources[a][g].state # "NONE"
        /\ threads[c].v <= resources[a][g].version
    BY <2>1 DEF VersionInv, VersionOK, At, On
  <2>3. /\ resources[a][g].version \in Nat /\ resources'[a][g].version \in Nat
        /\ resources'[a][g].version >= resources[a][g].version
    BY <1>0, <2>2, RowsGrow
  <2>4. threads[c].v = resources[a][g].version
    BY <2>1, <2>2, <2>3
  <2> QED
    BY <2>1, <2>4 DEF Gone
<1>4. CASE /\ DestroyContainer(c) /\ OthersStay(c)
           /\ SetContainer(threads[c].a, threads[c].g, "absent")
           /\ threads'[c].a = threads[c].a /\ threads'[c].g = threads[c].g
  <2>1. On(c, a, g)
    BY <1>2, <1>4 DEF On
  <2> QED
    BY <1>2, <1>4, <2>1 DEF On
<1> QED
  BY <1>2, <1>3, <1>4, RemoversCome

\* A sandbox about to be removed is told to stop; one that is gone may be past it.
LEMMA GoneIsStopped ==
  ASSUME VersionInv, NEW a \in Attempts, NEW g \in Generations, Gone(a, g)
  PROVE  resources[a][g].state \in {"STOPPING", "DESTROYED"}
BY DEF Gone, VersionInv, VersionOK, At, On

LEMMA GoneWasStopped ==
  ASSUME VersionInv', NEW a \in Attempts, NEW g \in Generations, Gone(a, g)'
  PROVE  resources'[a][g].state \in {"STOPPING", "DESTROYED"}
<1>1. ASSUME NEW c \in Threads, At(c, "record")', On(c, a, g)',
             threads'[c].v = resources'[a][g].version
      PROVE  resources'[a][g].state = "STOPPING"
  <2>1. VersionOK(threads'[c], resources')
    BY DEF VersionInv
  <2>2. threads'[c].pc = "record" /\ threads'[c].a = a /\ threads'[c].g = g
    BY <1>1 DEF At, On
  <2> QED
    BY <1>1, <2>1, <2>2 DEF VersionOK
<1> QED
  BY <1>1 DEF Gone

\* The container of a removed sandbox is away, and the rows are as they were.
LEMMA RemovalLeaves ==
  ASSUME DockerTypes, NEW c, DestroyContainer(c), NEW a \in Attempts, NEW g \in Generations,
         SetContainer(a, g, "absent")
  PROVE  containers'[a][g] = "absent" /\ late' = late
BY SetContainerTypes DEF DestroyContainer

LEMMA RunningKeeps ==
  ASSUME RuntimeInv, RowsInv, VersionInv, DockerTypes, GoneInv, [RuntimeNext]_runtimeVars,
         NEW a \in Attempts, NEW g \in Generations, containers'[a][g] = "running"
  PROVE  /\ ~Gone(a, g)'
         /\ resources'[a][g].state # "NONE"
         /\ "container_id" \in resources'[a][g].filled
<1>0. [Next]_vars /\ RowsFill
  BY EveryRuntimeStep, EveryStepFills DEF RuntimeInv
<1>1. ASSUME ~Gone(a, g)
      PROVE  ~Gone(a, g)'
  BY <1>1, GoneComes, RemovalLeaves
<1>2. /\ ~Gone(a, g)
      /\ resources[a][g].state # "NONE"
      /\ "container_id" \in resources[a][g].filled
  <2>1. CASE containers[a][g] = "running"
    BY <2>1 DEF GoneInv, GoneOK
  <2>2. CASE containers[a][g] # "running"
    <3>1. PICK t \in Threads : StartContainer(t) /\ On(t, a, g)
      BY <2>2, ContainersOnlyCome DEF ContainersCome
    <3>2. containers[a][g] = "created"
      BY <2>2, ContainersOnlyCome DEF ContainersCome
    <3>3. At(t, "start")
      BY <3>1 DEF StartContainer
    <3>4. "starting" \in answered[a][g]
      BY <3>1, <3>3 DEF RuntimeInv, ThreadOK, AfterStarting, On, At
    <3>5. "container_id" \in resources[a][g].filled
      BY <3>4 DEF RowsInv, RowRecords
    <3>6. resources[a][g].state # "NONE"
      <4>1. resources[a][g].version >= 2
        BY <3>4 DEF RuntimeInv, Reported
      <4>2. resources[a][g].state = "NONE" => resources[a][g].version = 0
        BY DEF RuntimeInv, StoreInv, RoomInv, ResourceShape, NoResource
      <4> QED
        BY <4>1, <4>2
    <3>7. ~Gone(a, g)
      BY <3>1, <3>2, <3>3 DEF GoneInv, GoneOK
    <3> QED
      BY <3>5, <3>6, <3>7
  <2> QED
    BY <2>1, <2>2
<1>3. "container_id" \in resources'[a][g].filled
  BY <1>0, <1>2 DEF RowsFill, FilledIn
<1> QED
  BY <1>0, <1>1, <1>2, <1>3, RowsGrow

LEMMA StarterFindsNothing ==
  ASSUME RuntimeInv, LifeInv, RoleInv, VersionInv, VersionInv', DockerTypes, LateInv, GoneInv,
         [RuntimeNext]_runtimeVars,
         NEW a \in Attempts, NEW g \in Generations, Gone(a, g)',
         NEW t \in Threads, On(t, a, g)', threads'[t].pc = "start"
  PROVE  /\ containers'[a][g] = "absent"
         /\ ~late'[a][g]
         /\ \A s \in Threads : On(s, a, g)' => threads'[s].pc \notin {"open", "create"}
<1>0. threads \in [Threads -> Thread]
  BY DEF RuntimeInv
<1>1. \A s \in Threads : On(s, a, g)' /\ threads'[s].pc \in Building => BuilderComes(s, a, g)
  BY BuildersCome DEF On
<1>2. {"open", "create", "start"} \subseteq Building
  BY DEF Building
<1>3. On(t, a, g) /\ At(t, "start")
  <2>1. BuilderComes(t, a, g)
    BY <1>1, <1>2
  <2>2. ASSUME threads[t].pc = "started", On(t, a, g), resources' = resources,
               resources[a][g].version = threads[t].v
        PROVE  FALSE
    <3>1. "starting" \in answered[a][g] /\ threads[t].v = 2
      BY <2>2 DEF RuntimeInv, ThreadOK, AfterStarting, On
    <3>2. resources[a][g].state = "STARTING"
      BY <2>2, <3>1 DEF RuntimeInv, Reported
    <3>3. resources'[a][g].state \in {"STOPPING", "DESTROYED"}
      BY GoneWasStopped
    <3> QED
      BY <2>2, <3>2, <3>3
  <2> QED
    BY <2>1, <2>2 DEF BuilderComes, At
<1>4. threads[t].pc = "start"
  BY <1>3 DEF At
<1>5. resources[a][g].version >= 2
  <2>1. "starting" \in answered[a][g]
    BY <1>3 DEF RuntimeInv, ThreadOK, AfterStarting, On, At
  <2> QED
    BY <2>1 DEF RuntimeInv, Reported
<1>6. ASSUME NEW s \in Threads, On(s, a, g)', threads'[s].pc \in {"open", "create"}
      PROVE  On(s, a, g) /\ threads[s].pc \in {"open", "create"}
  <2>1. BuilderComes(s, a, g)
    BY <1>1, <1>2, <1>6
  <2>2. ASSUME threads[s].pc = "created", On(s, a, g), resources[a][g].version = threads[s].v
        PROVE  FALSE
    <3>1. threads[s].v = 1
      BY <2>2 DEF RuntimeInv, ThreadOK, AfterCreating, On
    <3> QED
      BY <1>5, <2>2, <3>1
  <2> QED
    BY <1>6, <2>1, <2>2 DEF BuilderComes
<1>7. CASE Gone(a, g)
  <2>1. /\ containers[a][g] = "absent"
        /\ ~late[a][g]
        /\ \A s \in Threads : On(s, a, g) => threads[s].pc \notin {"open", "create"}
    BY <1>3, <1>7 DEF GoneInv, GoneOK
  <2>2. ~\E s \in Threads : CreateContainer(s) /\ On(s, a, g)
    BY <2>1 DEF CreateContainer, At
  <2>3. ContainersCome(a, g)
    BY ContainersOnlyCome
  <2> QED
    BY <1>6, <2>1, <2>2, <2>3 DEF ContainersCome
<1>8. CASE ~Gone(a, g)
  <2>1. PICK c \in Threads : /\ DestroyContainer(c) /\ On(c, a, g) /\ OthersStay(c)
                             /\ SetContainer(a, g, "absent") /\ threads'[c].pc = "record"
    BY <1>8, GoneComes
  <2>2. containers'[a][g] = "absent" /\ late' = late
    BY <2>1, RemovalLeaves
  <2>3. ~Quiet
    <3>1. threads[c].pc = "destroy"
      BY <2>1 DEF DestroyContainer, At
    <3> QED
      BY <3>1 DEF Quiet, Cleaning
  <2>4. ~late[a][g]
    BY <1>2, <1>3, <1>4, <2>3 DEF LateInv, LateOK
  <2>5. ASSUME NEW s \in Threads, On(s, a, g)', threads'[s].pc \in {"open", "create"}
        PROVE  FALSE
    <3>1. On(s, a, g) /\ threads[s].pc \in {"open", "create"}
      BY <1>6, <2>5
    <3>2. s # t
      BY <1>4, <3>1
    <3>3. threads[s].pc \in Provisioning /\ threads[t].pc \in Provisioning
      BY <1>4, <3>1 DEF Provisioning, Steps, Cleaning
    <3> QED
      BY <1>3, <2>3, <3>1, <3>2, <3>3, BuildersAreAlone
  <2> QED
    BY <2>2, <2>4, <2>5
<1> QED
  BY <1>7, <1>8

-----------------------------------------------------------------------------
(* The invariant of the containers *)

DockerInv ==
  /\ LifeInv
  /\ DockerTypes
  /\ RoleInv
  /\ RowsInv
  /\ VersionInv
  /\ LateInv
  /\ GoneInv

LEMMA DockerInitHolds == RuntimeInit => DockerInv
<1> SUFFICES ASSUME RuntimeInit PROVE DockerInv
  OBVIOUS
<1>1. \A t \in Threads : threads[t].pc = "idle"
  BY DEF RuntimeInit, Idle
<1>2. /\ \A a \in Attempts, g \in Generations :
           /\ answered[a][g] = {} /\ resources[a][g] = NoResource
           /\ containers[a][g] = "absent" /\ late[a][g] = FALSE
  BY DEF RuntimeInit, Init
<1>3. RowsInv
  BY <1>2 DEF RowsInv, RowRecords, NoResource
<1>4. VersionInv
  BY <1>1, NoCleanupAnyVersion DEF VersionInv, CleanLoop
<1>5. LateInv
  BY <1>2 DEF LateInv, LateOK
<1>6. GoneInv
  BY <1>1, <1>2 DEF GoneInv, GoneOK, At
<1> QED
  BY <1>3, <1>4, <1>5, <1>6, ProcessInitHolds, RolesInit DEF DockerInv

LEMMA DockerKeeps ==
  ASSUME RuntimeInv, DockerInv, [RuntimeNext]_runtimeVars
  PROVE  DockerInv'
<1>1. LifeInv' /\ DockerTypes' /\ RoleInv' /\ RowsInv' /\ VersionInv' /\ LateInv'
  BY LifeKeeps, DockerTypesKeep, RolesKeep, RowsKeep, VersionsKeep, LateKeeps DEF DockerInv
<1>2. ASSUME NEW a \in Attempts, NEW g \in Generations
      PROVE  GoneOK(a, g)'
  <2>1. containers'[a][g] = "running" =>
          /\ ~Gone(a, g)'
          /\ resources'[a][g].state # "NONE"
          /\ "container_id" \in resources'[a][g].filled
    BY RunningKeeps DEF DockerInv
  <2>2. ASSUME Gone(a, g)', NEW t \in Threads, On(t, a, g)', At(t, "start")'
        PROVE  /\ containers'[a][g] = "absent"
               /\ ~late'[a][g]
               /\ \A s \in Threads : On(s, a, g)' => threads'[s].pc \notin {"open", "create"}
    BY <1>1, <2>2, StarterFindsNothing DEF DockerInv, At
  <2> QED
    BY <2>1, <2>2 DEF GoneOK
<1> QED
  BY <1>1, <1>2 DEF DockerInv, GoneInv

\* Of a room at most one container runs, and one that runs is on record, with
\* its container, under a row whose absence is not: whatever cleanup, resumed
\* resets, crashes and late answers of the daemon do to each other.
THEOREM RecordsAlwaysMatch == RuntimeSpec => []RecordsMatchContainers
<1>1. RuntimeInv /\ DockerInv /\ [RuntimeNext]_runtimeVars => DockerInv'
  BY DockerKeeps
<1>2. ASSUME RuntimeInv, DockerInv
      PROVE  RecordsMatchContainers
  <2>1. ASSUME NEW a \in Attempts, NEW g \in Generations, containers[a][g] = "running"
        PROVE  /\ resources[a][g].state \notin {"NONE", "DESTROYED"}
               /\ "container_id" \in resources[a][g].filled
               /\ \A h \in Generations : h < g => containers[a][h] # "running"
    <3>1. GoneOK(a, g) /\ RowRecords(a, g)
      BY <1>2 DEF DockerInv, GoneInv, RowsInv
    <3>2. /\ resources[a][g].state \notin {"NONE", "DESTROYED"}
          /\ "container_id" \in resources[a][g].filled
      BY <2>1, <3>1 DEF GoneOK, Gone
    <3>3. ASSUME NEW h \in Generations, h < g
          PROVE  containers[a][h] # "running"
      <4>1. resources[a][h].state = "DESTROYED"
        BY <3>1, <3>2, <3>3 DEF RowRecords, VerifiedAbsent
      <4> QED
        BY <1>2, <4>1 DEF DockerInv, GoneInv, GoneOK, Gone
    <3> QED
      BY <3>2, <3>3
  <2>2. \A g, h \in Generations : g < h \/ h < g \/ h = g
    BY StoreAssumption DEF Generations
  <2> QED
    BY <2>1, <2>2 DEF RecordsMatchContainers
<1> QED
  BY <1>1, <1>2, DockerInitHolds, RuntimeInvariant, PTL DEF RuntimeSpec

-----------------------------------------------------------------------------
(* The container a thread created *)

\* Another thread leaves this one exactly as it is, unless it creates the
\* container this one has at hand.
LEMMA OthersOwn ==
  ASSUME RuntimeInv, NEW s \in Threads, NEW t \in Threads, s # t, ThreadStep(s)
  PROVE  \/ threads'[t] = threads[t]
         \/ /\ CreateContainer(s) /\ On(t, threads[s].a, threads[s].g)
            /\ containers[threads[s].a][threads[s].g] = "absent"
<1>0. threads \in [Threads -> Thread]
  BY DEF RuntimeInv
<1>1. ASSUME NEW thread, threads' = [threads EXCEPT ![s] = thread]
      PROVE  threads'[t] = threads[t]
  BY <1>0, <1>1
<1>2. ASSUME NEW thread, Become(s, thread)
      PROVE  threads'[t] = threads[t]
  BY <1>1, <1>2 DEF Become
<1>3. ASSUME NEW step, Goto(s, step)
      PROVE  threads'[t] = threads[t]
  BY <1>0, <1>3 DEF Goto
<1>4. ASSUME NEW v, NEW state, NEW label, NEW next, NEW refused,
             Report(s, v, state, label, next, refused)
      PROVE  threads'[t] = threads[t]
  BY <1>0, <1>3, <1>4 DEF Report
<1>5. CASE Provision(s)
  <2>1. CASE \/ AcceptReceipt(s) \/ InspectAccepted(s) \/ ConfirmCreating(s) \/ OpenRuntime(s)
             \/ ConfirmStarting(s) \/ StartContainer(s) \/ Bootstrap(s) \/ FailTheReset(s)
             \/ ConfirmReady(s)
    <3>1. \E step : Goto(s, step)
      BY <2>1 DEF AcceptReceipt, InspectAccepted, ConfirmCreating, OpenRuntime,
        ConfirmStarting, StartContainer, Bootstrap, FailTheReset, ConfirmReady, Confirm
    <3> QED
      BY <1>3, <3>1
  <2>2. CASE ReportCreating(s) \/ ReportStarting(s) \/ ReportFailed(s) \/ ReportReady(s)
    <3>1. \E v, state, label, next, refused : Report(s, v, state, label, next, refused)
      BY <2>2 DEF ReportCreating, ReportStarting, ReportFailed, ReportReady
    <3> QED
      BY <1>4, <3>1
  <2>3. CASE CreateContainer(s)
    <3> DEFINE owned(step) == threads' = [r \in Threads |->
                 IF r = s THEN [threads[s] EXCEPT !.pc = step, !.own = TRUE]
                 ELSE IF threads[r].a = threads[s].a /\ threads[r].g = threads[s].g
                      THEN [threads[r] EXCEPT !.own = FALSE]
                      ELSE threads[r]]
    <3>1. \/ Goto(s, "starting") \/ Goto(s, "createfailed")
          \/ /\ containers[threads[s].a][threads[s].g] = "absent"
             /\ owned("starting") \/ owned("createfailed")
      BY <2>3 DEF CreateContainer
    <3>2. ASSUME NEW step, owned(step), ~On(t, threads[s].a, threads[s].g)
          PROVE  threads'[t] = threads[t]
      BY <3>2 DEF On
    <3> HIDE DEF owned
    <3> QED
      BY <1>3, <2>3, <3>1, <3>2
  <2>4. CASE UndoCreate(s)
    BY <1>0, <2>4 DEF UndoCreate
  <2>5. CASE Publish(s)
    <3>1. (\E thread : Become(s, thread)) \/ Goto(s, FailedStep(s))
      BY <2>5 DEF Publish
    <3> QED
      BY <1>2, <1>3, <3>1
  <2> QED
    BY <1>5, <2>1, <2>2, <2>3, <2>4, <2>5 DEF Provision
<1>6. CASE Clean(s) \/ ExpirePass(s)
  <2>1. CASE DestroyContainer(s) \/ RecordDestroyed(s) \/ RecordFailure(s) \/ FinalizeTask(s)
             \/ ExpirePass(s)
    <3>1. \E step : Goto(s, step)
      BY <2>1 DEF DestroyContainer, RecordDestroyed, RecordFailure, FinalizeTask, ExpirePass
    <3> QED
      BY <1>3, <3>1
  <2>2. CASE ReadPending(s)
    <3>1. \E thread : Become(s, thread)
      BY <2>2 DEF ReadPending
    <3> QED
      BY <1>2, <3>1
  <2>3. CASE FinalizePending(s)
    BY <1>0, <1>3, <2>3 DEF FinalizePending
  <2>4. CASE ReconcileTasks(s)
    BY <1>0, <1>3, <2>4 DEF ReconcileTasks
  <2>5. CASE NextTask(s)
    BY <1>0, <1>3, <2>5, ZenonT(30) DEF NextTask
  <2> QED
    BY <1>6, <2>1, <2>2, <2>3, <2>4, <2>5 DEF Clean
<1>7. CASE ListResets(s) \/ ResumeNext(s) \/ PassDone(s) \/ LeaveFailedEntry(s)
  <2>1. \E thread : Become(s, thread)
    BY <1>7 DEF ListResets, ResumeNext, PassDone, LeaveFailedEntry
  <2> QED
    BY <1>2, <2>1
<1> QED
  BY <1>5, <1>6, <1>7 DEF ThreadStep

\* Without a crash a thread that is to report the start of its container, or to
\* undo its creation, does that next.
LEMMA OwnerMoves ==
  ASSUME RuntimeInv, LifeInv, MaxCrashes = 0, [RuntimeNext]_runtimeVars,
         NEW t \in Threads, threads[t].pc \in {"starting", "undo"},
         containers[threads[t].a][threads[t].g] # "absent"
  PROVE  \/ threads'[t] = threads[t]
         \/ ReportStarting(t)
         \/ UndoCreate(t)
<1>0. threads \in [Threads -> Thread] /\ Busy(t) /\ threads[t].pc # "idle"
  BY DEF RuntimeInv, Busy
<1>1. ASSUME NEW s \in Threads, ThreadStep(s)
      PROVE  threads'[t] = threads[t] \/ ReportStarting(t) \/ UndoCreate(t)
  <2>1. CASE s # t
    BY <1>1, <2>1, OthersOwn DEF On
  <2>2. CASE s = t
    <3>1. ~Clean(t) /\ ~ExpirePass(t)
      BY CleanMoves DEF CleaningMoves, Cleaning
    <3>2. ~(ListResets(t) \/ ResumeNext(t) \/ PassDone(t) \/ LeaveFailedEntry(t))
      BY ResumeMoves DEF ResumingMoves
    <3>3. Provision(t)
      BY <1>1, <2>2, <3>1, <3>2 DEF ThreadStep
    <3> QED
      BY <3>3 DEF Provision, AcceptReceipt, InspectAccepted, ReportCreating, ConfirmCreating,
        OpenRuntime, CreateContainer, ConfirmStarting, StartContainer, Bootstrap, ReportFailed,
        FailTheReset, ReportReady, ConfirmReady, Publish, At
  <2> QED
    BY <2>1, <2>2
<1>2. ASSUME NEW s \in Threads, threads[s].pc = "idle", NEW thread, Become(s, thread)
      PROVE  threads'[t] = threads[t]
  BY <1>0, <1>2 DEF Become
<1>3. CASE Request
  <2>1. ASSUME NEW s \in Enterers \cup Leavers, NEW a, EnterRoom(s, a) \/ LeaveRoom(s, a)
        PROVE  threads'[t] = threads[t]
    <3>1. threads[s].pc = "idle" /\ \E thread : Become(s, thread)
      BY <2>1 DEF EnterRoom, LeaveRoom, At
    <3> QED
      BY <1>2, <3>1 DEF Threads
  <2> QED
    BY <1>3, <2>1 DEF Request, ResetRoom
<1>4. CASE Lifespan
  <2>1. ASSUME NEW s \in Maintainers, Start(s) \/ RepeatMaintenance(s) \/ Shutdown(s)
        PROVE  threads'[t] = threads[t]
    <3>1. \E thread : Become(s, thread)
      BY <2>1 DEF Start, RepeatMaintenance, Shutdown
    <3>2. ~Start(s)
      BY <1>0 DEF Start, LifeInv
    <3>3. threads[s].pc = "idle"
      BY <2>1, <3>2 DEF RepeatMaintenance, Shutdown, At
    <3> QED
      BY <1>2, <3>1, <3>3 DEF Threads
  <2>2. ~Crash
    BY DEF Crash, LifeInv
  <2> QED
    BY <1>4, <2>1, <2>2 DEF Lifespan, StartupFails, Exit
<1>5. Daemon \/ TimePasses \/ UNCHANGED runtimeVars => threads' = threads
  BY DEF Daemon, DaemonCreates, ContainerExits, TimePasses, runtimeVars
<1> QED
  BY <1>1, <1>3, <1>4, <1>5 DEF RuntimeNext

\* With a daemon that answers, no request is ever late, and what is left of a
\* sandbox that is gone has an owner about to find out and remove it.
OrphanOK(a, g) ==
  /\ ~late[a][g]
  /\ containers[a][g] # "absent" => resources[a][g].state # "NONE"
  /\ containers[a][g] # "absent" /\ Gone(a, g) =>
       \E t \in Threads : On(t, a, g) /\ threads[t].own /\ threads[t].pc \in {"starting", "undo"}

OrphanInv == \A a \in Attempts, g \in Generations : OrphanOK(a, g)

\* A reliable daemon creates the container it is asked for, for its creator.
LEMMA ReliableCreation ==
  ASSUME RuntimeInv, DockerTypes, DockerMayFail = FALSE,
         NEW s \in Threads, CreateContainer(s),
         NEW a \in Attempts, NEW g \in Generations, On(s, a, g)
  PROVE  /\ late' = late
         /\ containers[a][g] = "absent" /\ containers'[a][g] # "absent" =>
              threads'[s].pc = "starting" /\ threads'[s].own /\ On(s, a, g)'
<1>1. threads \in [Threads -> Thread] /\ threads[s].a = a /\ threads[s].g = g
  BY DEF RuntimeInv, On
<1> DEFINE owned(step) == threads' = [r \in Threads |->
             IF r = s THEN [threads[s] EXCEPT !.pc = step, !.own = TRUE]
             ELSE IF threads[r].a = threads[s].a /\ threads[r].g = threads[s].g
                  THEN [threads[r] EXCEPT !.own = FALSE]
                  ELSE threads[r]]
<1>2. /\ late' = late
      /\ \/ containers' = containers
         \/ owned("starting")
  BY DEF CreateContainer, docker
<1>3. ASSUME owned("starting")
      PROVE  threads'[s].pc = "starting" /\ threads'[s].own /\ On(s, a, g)'
  <2>1. threads'[s] = [threads[s] EXCEPT !.pc = "starting", !.own = TRUE]
    BY <1>3
  <2>2. threads[s] \in Thread
    BY <1>1
  <2> QED
    BY <1>1, <2>1, <2>2 DEF Thread, On
<1> HIDE DEF owned
<1> QED
  BY <1>2, <1>3

LEMMA OrphansKeep ==
  ASSUME RuntimeInv, DockerInv, OrphanInv, MaxCrashes = 0, DockerMayFail = FALSE,
         [RuntimeNext]_runtimeVars
  PROVE  OrphanInv'
<1>0. /\ threads \in [Threads -> Thread] /\ [Next]_vars
      /\ LifeInv /\ DockerTypes /\ RowsInv /\ VersionInv
  BY EveryRuntimeStep DEF RuntimeInv, DockerInv
<1> SUFFICES ASSUME NEW a \in Attempts, NEW g \in Generations
             PROVE  OrphanOK(a, g)'
  BY DEF OrphanInv
<1>1. OrphanOK(a, g) /\ ContainersCome(a, g)
  BY <1>0, ContainersOnlyCome DEF OrphanInv
<1>2. ~late'[a][g]
  <2> SUFFICES ASSUME late'[a][g] PROVE FALSE
    OBVIOUS
  <2>1. PICK s \in Threads : CreateContainer(s) /\ On(s, a, g)
    BY <1>1 DEF OrphanOK, ContainersCome
  <2>2. late' = late
    BY <1>0, <2>1, ReliableCreation
  <2> QED
    BY <1>1, <2>2 DEF OrphanOK
<1>3. ASSUME containers'[a][g] # "absent", containers[a][g] = "absent"
      PROVE  \E s \in Threads : CreateContainer(s) /\ On(s, a, g)
  BY <1>1, <1>3 DEF OrphanOK, ContainersCome
<1>4. ASSUME containers'[a][g] # "absent"
      PROVE  resources'[a][g].state # "NONE"
  <2>1. CASE containers[a][g] # "absent"
    BY <1>0, <1>1, <2>1, RowsGrow DEF OrphanOK
  <2>2. CASE containers[a][g] = "absent"
    <3>1. PICK s \in Threads : CreateContainer(s) /\ On(s, a, g)
      BY <1>3, <1>4, <2>2
    <3>2. threads[s].pc = "create"
      BY <3>1 DEF CreateContainer, At
    <3>3. "creating" \in answered[a][g]
      BY <3>1, <3>2 DEF RuntimeInv, ThreadOK, AfterCreating, On
    <3>4. resources[a][g].state # "NONE"
      BY <1>0, <3>3 DEF RowsInv, RowRecords
    <3> QED
      BY <1>0, <3>4, RowsGrow
  <2> QED
    BY <2>1, <2>2
<1>5. ASSUME containers'[a][g] # "absent", Gone(a, g)'
      PROVE  \E t \in Threads : /\ On(t, a, g)' /\ threads'[t].own
                                /\ threads'[t].pc \in {"starting", "undo"}
  <2>1. Gone(a, g)
    <3> SUFFICES ASSUME ~Gone(a, g) PROVE FALSE
      OBVIOUS
    <3>1. PICK c \in Threads : DestroyContainer(c) /\ SetContainer(a, g, "absent")
      BY <1>0, <1>5, GoneComes
    <3> QED
      BY <1>0, <1>5, <3>1, RemovalLeaves
  <2>2. CASE containers[a][g] = "absent"
    <3>1. PICK s \in Threads : CreateContainer(s) /\ On(s, a, g)
      BY <1>3, <1>5, <2>2
    <3>2. threads'[s].pc = "starting" /\ threads'[s].own /\ On(s, a, g)'
      BY <1>0, <1>5, <2>2, <3>1, ReliableCreation
    <3> QED
      BY <3>2
  <2>3. CASE containers[a][g] # "absent"
    <3>1. PICK t \in Threads : /\ On(t, a, g) /\ threads[t].own
                               /\ threads[t].pc \in {"starting", "undo"}
      BY <1>1, <2>1, <2>3 DEF OrphanOK
    <3>2. threads[t].a = a /\ threads[t].g = g
      BY <3>1 DEF On
    <3>3. threads'[t] = threads[t] \/ ReportStarting(t) \/ UndoCreate(t)
      BY <1>0, <2>3, <3>1, <3>2, OwnerMoves
    <3>4. CASE threads'[t] = threads[t]
      BY <3>1, <3>4 DEF On
    <3>5. CASE ReportStarting(t)
      <4>1. resources[a][g].state \in {"STOPPING", "DESTROYED"}
        BY <1>0, <2>1, GoneIsStopped
      <4>2. "destroy" \in resources[a][g].intents
        BY <4>1 DEF RuntimeInv, StoreInv, RoomInv, ResourceShape
      <4>3. ~IsCleanup(a, g, "STARTING") /\ ~Advancing(a, g)
        BY <4>2 DEF IsCleanup, Advancing
      <4>4. ~TransitionOk(a, g, threads[t].v, "STARTING")
        BY <4>2, <4>3 DEF TransitionOk
      <4>5. Report(t, threads[t].v, "STARTING", "starting", "started", "undo")
        BY <3>5 DEF ReportStarting
      <4>6. Goto(t, "undo")
        BY <3>2, <4>3, <4>4, <4>5 DEF Report, Transition
      <4>7. threads'[t] = [threads[t] EXCEPT !.pc = "undo"] /\ threads[t] \in Thread
        BY <1>0, <4>6, GotoStays
      <4> QED
        BY <3>1, <3>2, <4>7 DEF On, Thread
    <3>6. CASE UndoCreate(t)
      <4>1. SetContainer(a, g, "absent")
        BY <3>1, <3>2, <3>6 DEF UndoCreate
      <4> QED
        BY <1>0, <1>5, <4>1, SetContainerTypes
    <3> QED
      BY <3>3, <3>4, <3>5, <3>6
  <2> QED
    BY <2>2, <2>3
<1> QED
  BY <1>2, <1>4, <1>5 DEF OrphanOK

\* With a daemon that answers and a process that is not killed, no container is
\* forgotten: once the absence of a sandbox is on record, its container is gone
\* or the thread that created it will remove it.
THEOREM NothingIsOrphaned ==
  ASSUME MaxCrashes = 0, DockerMayFail = FALSE
  PROVE  RuntimeSpec => []NoOrphans
<1>1. RuntimeInv /\ DockerInv /\ OrphanInv /\ [RuntimeNext]_runtimeVars => OrphanInv'
  BY OrphansKeep
<1>2. RuntimeInit => OrphanInv
  <2> SUFFICES ASSUME RuntimeInit PROVE OrphanInv
    OBVIOUS
  <2>1. \A a \in Attempts, g \in Generations : containers[a][g] = "absent" /\ late[a][g] = FALSE
    BY DEF RuntimeInit
  <2> QED
    BY <2>1 DEF OrphanInv, OrphanOK
<1>3. OrphanInv => NoOrphans
  <2> SUFFICES ASSUME OrphanInv, NEW a \in Attempts, NEW g \in Generations,
                      containers[a][g] # "absent",
                      resources[a][g].state \in {"NONE", "DESTROYED"}
               PROVE  Minded(a, g)
    BY DEF NoOrphans
  <2>1. OrphanOK(a, g)
    BY DEF OrphanInv
  <2>2. PICK t \in Threads : On(t, a, g) /\ threads[t].own /\ threads[t].pc \in {"starting", "undo"}
    BY <2>1 DEF OrphanOK, Gone
  <2> QED
    BY <2>2 DEF Minded, On
<1>4. RuntimeInv /\ DockerInv /\ [RuntimeNext]_runtimeVars => DockerInv'
  BY DockerKeeps
<1> QED
  BY <1>1, <1>2, <1>3, <1>4, DockerInitHolds, RuntimeInvariant, PTL DEF RuntimeSpec

-----------------------------------------------------------------------------
(* The room that is offered *)

\* Where a provisioning goes from each of its steps.
Successors(t, step) ==
  CASE step = "accept"          -> {"inspect", FailedStep(t)}
    [] step = "inspect"         -> {"publish", "creating", FailedStep(t)}
    [] step = "creating"        -> {"created", FailedStep(t)}
    [] step = "created"         -> {"open", FailedStep(t)}
    [] step = "open"            -> {"create", "createfailed"}
    [] step = "create"          -> {"starting", "createfailed"}
    [] step = "starting"        -> {"started", "undo"}
    [] step = "started"         -> {"start", "undo"}
    [] step = "start"           -> {"bootstrap", "startfailed"}
    [] step = "bootstrap"       -> {"ready", "bootstrapfailed"}
    [] step \in {"createfailed", "startfailed", "bootstrapfailed"} -> {"failreset", "undo"}
    [] step = "failreset"       -> {"undo"}
    [] step = "undo"            -> {FailedStep(t)}
    [] step = "ready"           -> {"readied", FailedStep(t)}
    [] step = "readied"         -> {"publish", FailedStep(t)}
    [] step = "publish"         -> {"next", "idle", FailedStep(t)}
    [] OTHER                    -> {}

LEMMA ProvisionGoes ==
  ASSUME RuntimeInv, NEW t \in Threads, Provision(t)
  PROVE  threads'[t].pc \in Successors(t, threads[t].pc)
<1>0. threads \in [Threads -> Thread] /\ threads[t] \in Thread
  BY DEF RuntimeInv
<1>1. ASSUME NEW step, Goto(t, step)
      PROVE  threads'[t].pc = step
  BY <1>0, <1>1, GotoStays
<1>2. ASSUME NEW v, NEW state, NEW label, NEW next, NEW refused,
             Report(t, v, state, label, next, refused)
      PROVE  threads'[t].pc \in {next, refused}
  BY <1>0, <1>2, ReportStays
<1>3. CASE AcceptReceipt(t)
  BY <1>1, <1>3 DEF AcceptReceipt, At, Successors
<1>4. CASE InspectAccepted(t)
  <2>1. /\ threads[t].pc = "inspect"
        /\ Goto(t, "publish") \/ Goto(t, "creating") \/ Goto(t, FailedStep(t))
    BY <1>4 DEF InspectAccepted, At
  <2> QED
    BY <1>1, <2>1 DEF Successors
<1>5. CASE ReportCreating(t) \/ ReportStarting(t) \/ ReportReady(t)
  <2>1. CASE ReportCreating(t)
    <3>1. /\ threads[t].pc = "creating"
          /\ Report(t, threads[t].v, "CREATING", "creating", "created", FailedStep(t))
      BY <2>1 DEF ReportCreating, At
    <3>2. threads'[t].pc \in {"created", FailedStep(t)}
      BY <1>0, <3>1, ReportStays
    <3> QED
      BY <3>1, <3>2 DEF Successors
  <2>2. CASE ReportStarting(t)
    <3>1. /\ threads[t].pc = "starting"
          /\ Report(t, threads[t].v, "STARTING", "starting", "started", "undo")
      BY <2>2 DEF ReportStarting, At
    <3>2. threads'[t].pc \in {"started", "undo"}
      BY <1>0, <3>1, ReportStays
    <3> QED
      BY <3>1, <3>2 DEF Successors
  <2>3. CASE ReportReady(t)
    <3>1. /\ threads[t].pc = "ready"
          /\ Report(t, threads[t].v, "READY", "ready", "readied", FailedStep(t))
      BY <2>3 DEF ReportReady, At
    <3>2. threads'[t].pc \in {"readied", FailedStep(t)}
      BY <1>0, <3>1, ReportStays
    <3> QED
      BY <3>1, <3>2 DEF Successors
  <2> QED
    BY <1>5, <2>1, <2>2, <2>3
<1>6. CASE ReportFailed(t)
  <2>1. /\ threads[t].pc \in {"createfailed", "startfailed", "bootstrapfailed"}
        /\ \E next \in {"failreset", "undo"} :
             Report(t, threads[t].v, "FAILED", threads[t].pc, next, "undo")
    BY <1>6 DEF ReportFailed
  <2>2. threads'[t].pc \in {"failreset", "undo"}
    BY <1>0, <2>1, ReportStays
  <2> QED
    BY <2>1, <2>2 DEF Successors
<1>7. CASE ConfirmCreating(t) \/ ConfirmStarting(t) \/ ConfirmReady(t)
  <2>1. \/ threads[t].pc = "created" /\ (Goto(t, "open") \/ Goto(t, FailedStep(t)))
        \/ threads[t].pc = "started" /\ (Goto(t, "start") \/ Goto(t, "undo"))
        \/ threads[t].pc = "readied" /\ (Goto(t, "publish") \/ Goto(t, FailedStep(t)))
    BY <1>7 DEF ConfirmCreating, ConfirmStarting, ConfirmReady, Confirm, At
  <2> QED
    BY <1>1, <2>1 DEF Successors
<1>8. CASE OpenRuntime(t)
  BY <1>1, <1>8 DEF OpenRuntime, At, Successors
<1>9. CASE CreateContainer(t)
  <2>1. threads[t].pc = "create" /\ threads'[t].pc \in {"starting", "createfailed"}
    BY <1>9, CreateGoes
  <2> QED
    BY <2>1 DEF Successors
<1>10. CASE StartContainer(t) \/ Bootstrap(t)
  BY <1>1, <1>10 DEF StartContainer, Bootstrap, At, Successors
<1>11. CASE FailTheReset(t)
  BY <1>1, <1>11 DEF FailTheReset, At, Successors
<1>12. CASE UndoCreate(t)
  <2>1. threads[t].pc = "undo" /\ threads'[t].pc = FailedStep(t)
    BY <1>0, <1>12 DEF UndoCreate, At, Thread
  <2> QED
    BY <2>1 DEF Successors
<1>13. CASE Publish(t)
  <2>1. /\ [Idle EXCEPT !.pc = "next", !.work = threads[t].work].pc = "next"
        /\ Idle.pc = "idle"
    BY DEF Idle
  <2>2. /\ threads[t].pc = "publish"
        /\ \/ Become(t, [Idle EXCEPT !.pc = "next", !.work = threads[t].work])
           \/ Become(t, Idle) \/ Goto(t, FailedStep(t))
    BY <1>13 DEF Publish, At
  <2>3. threads'[t].pc \in {"next", "idle", FailedStep(t)}
    BY <1>0, <1>1, <2>1, <2>2, BecomeStays
  <2> QED
    BY <2>2, <2>3 DEF Successors
<1> QED
  BY <1>3, <1>4, <1>5, <1>6, <1>7, <1>8, <1>9, <1>10, <1>11, <1>12, <1>13 DEF Provision

\* A provisioning whose sandbox is not ready yet, and one that has started it.
Unready == {"creating", "created", "open", "create", "createfailed", "starting", "started",
            "start", "startfailed", "bootstrap", "bootstrapfailed", "ready", "failreset", "undo"}

Started == {"bootstrap", "ready"}

\* A thread gets to prepare a sandbox that is merely requested, and to have
\* started it by starting it.
PreparerComes(t, a, g) ==
  /\ On(t, a, g)
  /\ \/ threads[t].pc \in Unready
     \/ threads[t].pc = "inspect" /\ resources[a][g].state = "REQUESTED"
  /\ threads'[t].pc \in Started =>
       \/ threads[t].pc \in Started
       \/ threads[t].pc = "start" /\ containers'[a][g] = "running"

LEMMA ProvisionPrepares ==
  ASSUME RuntimeInv, DockerTypes, NEW t \in Threads, Provision(t), threads'[t].pc \in Unready
  PROVE  PreparerComes(t, threads'[t].a, threads'[t].g)
<1> DEFINE a == threads[t].a
           g == threads[t].g
<1>0. threads \in [Threads -> Thread]
  BY DEF RuntimeInv
<1>1. threads[t].pc \in Provisioning /\ threads'[t].a = a /\ threads'[t].g = g
  BY <1>0, ProvisionMoves DEF ProvisioningMoves, Unready
<1>2. threads'[t].pc \in Successors(t, threads[t].pc)
  BY ProvisionGoes
<1>3. FailedStep(t) \in {"leave", "idle"}
  BY DEF FailedStep
<1>4. threads[t].pc \in Unready \/ (threads[t].pc = "inspect" /\ threads'[t].pc = "creating")
  <2>1. threads[t].pc \in Unready \cup {"accept", "inspect", "readied", "publish", "leave"}
    BY <1>1 DEF Provisioning, Steps, Cleaning, Unready
  <2>2. threads'[t].pc \notin {"inspect", "publish", "next", "leave", "idle"}
    BY DEF Unready
  <2>3. threads[t].pc \notin {"accept", "readied", "publish", "leave"}
    BY <1>2, <1>3, <2>2 DEF Successors
  <2>4. threads[t].pc = "inspect" => threads'[t].pc = "creating"
    BY <1>2, <1>3, <2>2 DEF Successors
  <2> QED
    BY <2>1, <2>3, <2>4
<1>5. threads'[t].pc \in Started => threads[t].pc \in Started \/ threads[t].pc = "start"
  BY <1>2, <1>3, <1>4 DEF Started, Unready, Successors
<1>6. ASSUME NEW step, Goto(t, step)
      PROVE  threads'[t].pc = step
  BY <1>0, <1>6, GotoStays
<1>7. ASSUME threads[t].pc = "inspect", threads'[t].pc = "creating"
      PROVE  resources[a][g].state = "REQUESTED"
  <2>1. InspectAccepted(t)
    BY <1>7 DEF Provision, AcceptReceipt, InspectAccepted, ReportCreating, ConfirmCreating,
      OpenRuntime, CreateContainer, ReportStarting, ConfirmStarting, StartContainer, Bootstrap,
      ReportFailed, FailTheReset, UndoCreate, ReportReady, ConfirmReady, Publish, At
  <2>2. \/ Goto(t, "publish") \/ Goto(t, FailedStep(t))
        \/ resources[a][g].state = "REQUESTED"
    BY <2>1 DEF InspectAccepted
  <2>3. ~Goto(t, "publish") /\ ~Goto(t, FailedStep(t))
    BY <1>3, <1>7, <1>6
  <2> QED
    BY <2>2, <2>3
<1>8. ASSUME threads[t].pc = "start", threads'[t].pc \in Started
      PROVE  containers'[a][g] = "running"
  <2>1. StartContainer(t)
    BY <1>8 DEF Provision, AcceptReceipt, InspectAccepted, ReportCreating, ConfirmCreating,
      OpenRuntime, CreateContainer, ReportStarting, ConfirmStarting, StartContainer, Bootstrap,
      ReportFailed, FailTheReset, UndoCreate, ReportReady, ConfirmReady, Publish, At
  <2>2. ~Goto(t, "startfailed")
    BY <1>8, <1>6 DEF Started
  <2>3. SetContainer(a, g, "running")
    BY <2>1, <2>2 DEF StartContainer
  <2>4. a \in Attempts /\ g \in Generations
    BY <1>8, AtHand DEF Free
  <2> QED
    BY <2>3, <2>4, SetContainerTypes
<1> HIDE DEF a, g
<1> QED
  BY <1>1, <1>4, <1>5, <1>7, <1>8 DEF PreparerComes, On, a, g

LEMMA PreparersCome ==
  ASSUME RuntimeInv, DockerTypes, [RuntimeNext]_runtimeVars,
         NEW t \in Threads, threads'[t].pc \in Unready
  PROVE  PreparerComes(t, threads'[t].a, threads'[t].g)
<1>1. ASSUME SameButOwn(threads[t], threads'[t])
      PROVE  PreparerComes(t, threads'[t].a, threads'[t].g)
  BY <1>1 DEF SameButOwn, PreparerComes, On
<1>2. ASSUME NEW s \in Threads, s # t, OthersStay(s)
      PROVE  PreparerComes(t, threads'[t].a, threads'[t].g)
  BY <1>1, <1>2 DEF OthersStay
<1>3. ASSUME NEW s \in Threads, ThreadStep(s)
      PROVE  PreparerComes(t, threads'[t].a, threads'[t].g)
  <2>1. CASE s # t
    BY <1>2, <1>3, <2>1, BusyThreadMoves
  <2>2. CASE Provision(t)
    BY <2>2, ProvisionPrepares
  <2>3. CASE Clean(t) \/ ExpirePass(t)
    <3>1. threads'[t].pc \in Cleaning \cup {"resume", "idle"}
      BY <2>3, CleanMoves DEF CleaningMoves, CleanedStep
    <3> QED
      BY <3>1 DEF Cleaning, Unready
  <2>4. CASE ListResets(t) \/ ResumeNext(t) \/ PassDone(t) \/ LeaveFailedEntry(t)
    <3>1. threads'[t].pc \in {"next", "accept", "idle"}
      BY <2>4, ResumeMoves DEF ResumingMoves
    <3> QED
      BY <3>1 DEF Unready
  <2> QED
    BY <1>3, <2>1, <2>2, <2>3, <2>4 DEF ThreadStep
<1>4. WhoMoved
  BY SomeoneMoves
<1>5. ASSUME NEW s \in Threads, OthersStay(s), threads'[s].pc \in {"accept", "pending", "expire"}
      PROVE  s # t
  BY <1>5 DEF Unready
<1>6. threads'[t].pc # "idle"
  BY DEF Unready
<1> QED
  BY <1>1, <1>2, <1>3, <1>4, <1>5, <1>6 DEF WhoMoved

\* Who takes a running container away.
LEMMA ContainersGo ==
  ASSUME RuntimeInv, DockerTypes, [RuntimeNext]_runtimeVars,
         NEW a \in Attempts, NEW g \in Generations,
         containers[a][g] = "running", containers'[a][g] # "running"
  PROVE  \/ \E t \in Threads : On(t, a, g) /\ (UndoCreate(t) \/ DestroyContainer(t))
         \/ PastDeadline(a)
<1>1. ~UNCHANGED docker
  BY DEF docker
<1>2. ASSUME NEW t \in Threads, CreateContainer(t) \/ StartContainer(t)
      PROVE  FALSE
  <2> DEFINE b == threads[t].a
             h == threads[t].g
  <2>1. \/ containers' = containers
        \/ SetContainer(b, h, "created") /\ containers[b][h] = "absent"
        \/ SetContainer(b, h, "running")
    BY <1>2 DEF CreateContainer, StartContainer, docker
  <2> HIDE DEF b, h
  <2> QED
    BY <2>1, SetContainerTypes
<1>3. ASSUME NEW t \in Threads, UndoCreate(t) \/ DestroyContainer(t)
      PROVE  On(t, a, g)
  <2>1. SetContainer(threads[t].a, threads[t].g, "absent") \/ containers' = containers
    BY <1>3 DEF UndoCreate, DestroyContainer
  <2> QED
    BY <2>1, SetContainerTypes DEF On
<1>4. ASSUME NEW b \in Attempts, NEW h \in Generations, DaemonCreates(b, h)
      PROVE  FALSE
  <2>1. \/ containers' = containers
        \/ containers' = [containers EXCEPT ![b][h] = "created"] /\ containers[b][h] = "absent"
    BY <1>4 DEF DaemonCreates
  <2> QED
    BY <2>1 DEF DockerTypes
<1>5. ASSUME NEW b \in Attempts, NEW h \in Generations, ContainerExits(b, h)
      PROVE  PastDeadline(a)
  <2>1. SetContainer(b, h, "absent") /\ PastDeadline(b)
    BY <1>5 DEF ContainerExits
  <2> QED
    BY <2>1, SetContainerTypes
<1> QED
  BY <1>1, <1>2, <1>3, <1>4, <1>5, WhoTouchesDocker

\* Until its deadline a sandbox that works, or was started by a thread that has
\* not reported it yet, runs unless it was told to stop; and a sandbox that a
\* thread prepares does not work yet.
RunsOK(a, g) ==
  /\ ~PastDeadline(a)
  /\ Usable(a, g)
  /\ \/ resources[a][g].state \in Working
     \/ \E t \in Threads : On(t, a, g) /\ threads[t].pc \in Started
  => containers[a][g] = "running"

UnreadyOK(a, g) ==
  \A t \in Threads :
    On(t, a, g) /\ threads[t].pc \in Unready => resources[a][g].state \notin Working

OneMaintains == \A s, t \in Maintainers : s = t

\* Nobody but one thread provisions a sandbox of this generation.
Alone(g) == g = 1 \/ OneMaintains

RunsInv == \A a \in Attempts, g \in Generations : Alone(g) => RunsOK(a, g) /\ UnreadyOK(a, g)

\* What is usable before its deadline was so before, once it is recorded.
LEMMA UsableWas ==
  ASSUME RuntimeInv, [Next]_vars, NEW a \in Attempts, NEW g \in Generations,
         resources[a][g].state # "NONE", Usable(a, g)', ~PastDeadline(a)'
  PROVE  Usable(a, g) /\ ~PastDeadline(a)
<1>1. StoreInv /\ StoreInv' /\ RowsMove
  BY EveryStepMoves, EveryStepKeeps DEF RuntimeInv
<1>2. ResourceMoves(resources[a][g], resources'[a][g])
  BY <1>1 DEF RowsMove
<1>3. Usable(a, g)
  BY <1>2 DEF Usable, ResourceMoves
<1>4. attempts[a].state # "NONE"
  <2> SUFFICES ASSUME attempts[a].state = "NONE" PROVE FALSE
    OBVIOUS
  <2>1. attempts[a].generation = 0
    BY <1>1 DEF StoreInv, RoomInv, AttemptShape, NoAttempt
  <2>2. g > attempts[a].generation
    BY <2>1, StoreAssumption DEF Generations
  <2> QED
    BY <1>1, <2>2 DEF StoreInv, RoomInv, ResourceShape
<1>5. attempts'[a].expiresAt = attempts[a].expiresAt
  BY <1>1, <1>4 DEF RowsMove, AttemptMoves
<1>6. clock \in Nat /\ clock' \in Nat /\ attempts[a].expiresAt \in Nat
  BY <1>1 DEF StoreInv, TypeOK, Attempt
<1>7. clock' >= clock
  <2>1. clock' = clock \/ clock' = clock + 1
    <3>1. ASSUME NEW b, BackendStep(b)
          PROVE  clock' = clock
      BY <3>1 DEF BackendStep, Create, Leave, DenyAttempt, BeginReset, PublishReady,
        PublishRunning, PublishResolved, PublishRuntimeState, PublishResetReady, FailReset,
        CompleteCleanup, WriteAttempt
    <3>2. ASSUME NEW b, ControlStep(b)
          PROVE  clock' = clock
      BY <3>2 DEF ControlStep, Accept, Transition, DenyResource, CleanupFailed, WriteResource
    <3> QED
      BY <3>1, <3>2 DEF Next, Tick, ExpireSome, Expire, ReconcileSome, Reconcile, vars
  <2> QED
    BY <1>6, <2>1
<1> QED
  BY <1>3, <1>5, <1>6, <1>7 DEF PastDeadline

\* With one maintenance thread no two threads provision one sandbox; and the
\* first sandbox of a room is provisioned by the request alone that entered it.
LEMMA ProvisionsAlone ==
  ASSUME RoleInv, NEW s \in Threads, NEW t \in Threads, NEW a, NEW g, Alone(g),
         On(s, a, g), On(t, a, g), threads[s].pc \in Provisioning, threads[t].pc \in Provisioning
  PROVE  s = t
<1> SUFFICES ASSUME s # t PROVE FALSE
  OBVIOUS
<1>1. s \in Maintainers /\ t \in Maintainers
  BY BothMaintain DEF On
<1>2. g # 1
  BY <1>1 DEF RoleInv, RoleOK, On
<1> QED
  BY <1>1, <1>2 DEF Alone, OneMaintains

LEMMA UnreadyKeeps ==
  ASSUME RuntimeInv, DockerInv, RunsInv, [RuntimeNext]_runtimeVars,
         NEW a \in Attempts, NEW g \in Generations, Alone(g)
  PROVE  UnreadyOK(a, g)'
<1> SUFFICES ASSUME NEW t \in Threads, On(t, a, g)', threads'[t].pc \in Unready,
                    resources'[a][g].state \in Working
             PROVE  FALSE
  BY DEF UnreadyOK
<1>1. PreparerComes(t, a, g)
  BY PreparersCome DEF On, DockerInv
<1>2. threads[t].pc \in Provisioning /\ On(t, a, g)
  BY <1>1 DEF PreparerComes, Provisioning, Steps, Cleaning, Unready
<1>3. resources[a][g].state \notin Working
  BY <1>1 DEF PreparerComes, RunsInv, UnreadyOK, Working
<1>4. PICK s \in Threads : RecordsReady(s) /\ On(s, a, g)
  BY <1>3, WorkingComesFromReports
<1>5. threads[s].pc = "ready" /\ threads'[s].pc = "readied"
  BY <1>4 DEF RecordsReady, ReportReady, At
<1>6. s # t /\ threads[s].pc \in Provisioning
  BY <1>5 DEF Unready, Provisioning, Steps, Cleaning
<1> QED
  BY <1>2, <1>4, <1>6, ProvisionsAlone DEF DockerInv

LEMMA RunsKeep ==
  ASSUME RuntimeInv, DockerInv, RunsInv, [RuntimeNext]_runtimeVars,
         NEW a \in Attempts, NEW g \in Generations, Alone(g)
  PROVE  RunsOK(a, g)'
<1>0. /\ [Next]_vars
      /\ DockerTypes /\ RoleInv /\ VersionInv
      /\ RunsOK(a, g) /\ UnreadyOK(a, g)
  BY EveryRuntimeStep DEF DockerInv, RunsInv
<1> SUFFICES ASSUME ~PastDeadline(a)', Usable(a, g)',
                    \/ resources'[a][g].state \in Working
                    \/ \E t \in Threads : On(t, a, g)' /\ threads'[t].pc \in Started
             PROVE  containers'[a][g] = "running"
  BY DEF RunsOK
<1>1. Started \subseteq Unready /\ Unready \subseteq Provisioning
  BY DEF Started, Unready, Provisioning, Steps, Cleaning
\* Before the step: it worked, or a thread had started it or starts it now.
<1>2. \/ resources[a][g].state \in Working
      \/ \E t \in Threads : On(t, a, g) /\ threads[t].pc \in Started \cup {"start"}
  <2>1. ASSUME NEW t \in Threads, On(t, a, g)', threads'[t].pc \in Started
        PROVE  On(t, a, g) /\ threads[t].pc \in Started \cup {"start"}
    <3>1. PreparerComes(t, a, g)
      BY <1>0, <1>1, <2>1, PreparersCome DEF On
    <3> QED
      BY <2>1, <3>1 DEF PreparerComes
  <2>2. ASSUME resources'[a][g].state \in Working, resources[a][g].state \notin Working
        PROVE  \E t \in Threads : On(t, a, g) /\ threads[t].pc \in Started
    <3>1. PICK t \in Threads : RecordsReady(t) /\ On(t, a, g)
      BY <2>2, WorkingComesFromReports
    <3>2. threads[t].pc = "ready"
      BY <3>1 DEF RecordsReady, ReportReady, At
    <3> QED
      BY <3>1, <3>2 DEF Started
  <2> QED
    BY <2>1, <2>2
<1>3. resources[a][g].state # "NONE"
  <2>1. ASSUME NEW t \in Threads, On(t, a, g), threads[t].pc \in Started \cup {"start"}
        PROVE  resources[a][g].state # "NONE"
    <3>1. "starting" \in answered[a][g]
      BY <2>1 DEF RuntimeInv, ThreadOK, AfterStarting, Started, On
    <3>2. resources[a][g].version >= 2
      BY <3>1 DEF RuntimeInv, Reported
    <3>3. resources[a][g].state = "NONE" => resources[a][g].version = 0
      BY DEF RuntimeInv, StoreInv, RoomInv, ResourceShape, NoResource
    <3> QED
      BY <3>2, <3>3
  <2> QED
    BY <1>2, <2>1 DEF Working
<1>4. Usable(a, g) /\ ~PastDeadline(a)
  BY <1>0, <1>3, UsableWas
\* A container that ran is not taken away.
<1>5. ASSUME containers[a][g] = "running"
      PROVE  containers'[a][g] = "running"
  <2> SUFFICES ASSUME containers'[a][g] # "running" PROVE FALSE
    OBVIOUS
  <2>1. PICK c \in Threads : On(c, a, g) /\ (UndoCreate(c) \/ DestroyContainer(c))
    BY <1>0, <1>4, <1>5, ContainersGo
  <2>2. CASE DestroyContainer(c)
    <3>1. threads[c].pc = "destroy"
      BY <2>2 DEF DestroyContainer, At
    <3>2. "destroy" \in resources[a][g].intents
      BY <1>0, <2>1, <3>1 DEF VersionInv, VersionOK, On
    <3> QED
      BY <1>4, <3>2 DEF Usable
  <2>3. CASE UndoCreate(c)
    <3>1. threads[c].pc = "undo" /\ resources' = resources
      BY <2>3 DEF UndoCreate, At, store
    <3>2. threads[c].pc \in Unready
      BY <3>1 DEF Unready
    <3>3. resources[a][g].state \notin Working
      BY <1>0, <2>1, <3>2 DEF UnreadyOK
    <3>4. PICK t \in Threads : On(t, a, g) /\ threads[t].pc \in Started \cup {"start"}
      BY <1>2, <3>3
    <3>5. threads[t].pc \in Provisioning /\ threads[c].pc \in Provisioning
      BY <3>1, <3>4 DEF Started, Provisioning, Steps, Cleaning
    <3>6. t = c
      BY <1>0, <2>1, <3>4, <3>5, ProvisionsAlone
    <3> QED
      BY <3>1, <3>4, <3>6 DEF Started
  <2> QED
    BY <2>1, <2>2, <2>3
<1>6. CASE \/ resources[a][g].state \in Working
           \/ \E t \in Threads : On(t, a, g) /\ threads[t].pc \in Started
  BY <1>0, <1>4, <1>5, <1>6 DEF RunsOK
<1>7. CASE /\ resources[a][g].state \notin Working
           /\ ~\E t \in Threads : On(t, a, g) /\ threads[t].pc \in Started
  <2>1. resources'[a][g].state \notin Working
    <3> SUFFICES ASSUME resources'[a][g].state \in Working PROVE FALSE
      OBVIOUS
    <3>1. PICK t \in Threads : RecordsReady(t) /\ On(t, a, g)
      BY <1>7, WorkingComesFromReports
    <3>2. threads[t].pc = "ready"
      BY <3>1 DEF RecordsReady, ReportReady, At
    <3> QED
      BY <1>7, <3>1, <3>2 DEF Started
  <2>2. PICK t \in Threads : On(t, a, g)' /\ threads'[t].pc \in Started
    BY <2>1
  <2>3. PreparerComes(t, a, g)
    BY <1>0, <1>1, <2>2, PreparersCome DEF On
  <2> QED
    BY <1>7, <2>2, <2>3 DEF PreparerComes
<1> QED
  BY <1>6, <1>7

\* The invariant of the rooms that are offered.
LEMMA RunsInvariant == RuntimeSpec => []RunsInv
<1>1. RuntimeInv /\ DockerInv /\ RunsInv /\ [RuntimeNext]_runtimeVars => RunsInv'
  <2> SUFFICES ASSUME RuntimeInv, DockerInv, RunsInv, [RuntimeNext]_runtimeVars,
                      NEW a \in Attempts, NEW g \in Generations, Alone(g)
               PROVE  RunsOK(a, g)' /\ UnreadyOK(a, g)'
    BY DEF RunsInv, Alone, OneMaintains
  <2> QED
    BY RunsKeep, UnreadyKeeps
<1>2. RuntimeInv /\ DockerInv /\ [RuntimeNext]_runtimeVars => DockerInv'
  BY DockerKeeps
<1>3. RuntimeInit => RunsInv
  <2> SUFFICES ASSUME RuntimeInit PROVE RunsInv
    OBVIOUS
  <2>1. \A t \in Threads : threads[t].pc = "idle"
    BY DEF RuntimeInit, Idle
  <2>2. \A a \in Attempts, g \in Generations : resources[a][g].state = "NONE"
    BY DEF RuntimeInit, Init, NoResource
  <2> QED
    BY <2>1, <2>2 DEF RunsInv, RunsOK, UnreadyOK, Usable, Unready
<1> QED
  BY <1>1, <1>2, <1>3, DockerInitHolds, RuntimeInvariant, PTL DEF RuntimeSpec

\* The room runs that is offered over a sandbox one thread alone provisions.
LEMMA OfferedRuns ==
  ASSUME RuntimeInv, RunsInv, NEW a \in Attempts, Alone(attempts[a].generation),
         Published(a), Usable(a, attempts[a].generation), ~PastDeadline(a)
  PROVE  containers[a][attempts[a].generation] = "running"
<1> DEFINE g == attempts[a].generation
<1>1. attempts[a] \in Attempt /\ AttemptShape(a) /\ VerifiedRoom(a)
  BY DEF RuntimeInv, StoreInv, RoomInv, TypeOK
<1>2. g \in Generations
  BY <1>1, StoreAssumption DEF AttemptShape, Attempt, Generations, Published
<1>3. resources[a][g].state \in Working
  BY <1>1 DEF VerifiedRoom, Reached, Published, Working
<1> QED
  BY <1>2, <1>3 DEF RunsInv, RunsOK

\* With one maintenance pass at a time, a room that is offered to its learner
\* runs, until its deadline or a stop of its sandbox.
THEOREM OfferedAlwaysRuns ==
  ASSUME \A s, t \in Maintainers : s = t
  PROVE  RuntimeSpec => []OfferedRoomRuns
<1>1. RuntimeInv /\ RunsInv => OfferedRoomRuns
  BY OfferedRuns DEF OfferedRoomRuns, Alone, OneMaintains
<1> QED
  BY <1>1, RunsInvariant, RuntimeInvariant, PTL

\* A room that has never been reset runs while it is offered, however many
\* passes overlap: what two of them can break is a replacement.
FirstSandboxRuns ==
  \A a \in Attempts :
    /\ Published(a) /\ attempts[a].generation = 1
    /\ Usable(a, 1) /\ ~PastDeadline(a)
    => containers[a][1] = "running"

\* Whatever overlapping passes, crashes, failures and lost answers of the daemon
\* do, the first sandbox of a room runs while the room is offered over it.
THEOREM FirstSandboxAlwaysRuns == RuntimeSpec => []FirstSandboxRuns
<1>1. RuntimeInv /\ RunsInv => FirstSandboxRuns
  <2> SUFFICES ASSUME RuntimeInv, RunsInv, NEW a \in Attempts,
                      Published(a), attempts[a].generation = 1, Usable(a, 1), ~PastDeadline(a)
               PROVE  containers[a][1] = "running"
    BY DEF FirstSandboxRuns
  <2>1. Alone(attempts[a].generation) /\ Usable(a, attempts[a].generation)
    BY DEF Alone
  <2>2. containers[a][attempts[a].generation] = "running"
    BY <2>1, OfferedRuns
  <2> QED
    BY <2>2
<1> QED
  BY <1>1, RunsInvariant, RuntimeInvariant, PTL

=============================================================================
