# Failroom: a TLA+ verification project

Failroom gives a learner a *room*: an incident-training exercise inside a Docker
sandbox that belongs to one learner, expires at an immutable deadline, can be
reset to its initial state and is destroyed when it is left.  The hard part is
not any one operation but their interleaving: requests, a maintenance loop, the
Docker daemon and process crashes all act on the same room, and the only thing
they share is a SQLite database.  This directory models that part of the program,
model-checks it with TLC and proves most of it with TLAPS.

## 1. The system

| Component | State it keeps | Operations | Modelled in |
| --- | --- | --- | --- |
| State store, backend side (`failroom_state/backend.py`) | `room_attempts`: state, current / active / candidate generation, session epoch, version, deadline, intents | `create`, `leave`, `begin_reset`, `publish_*`, `fail_reset`, `expire`, `complete_cleanup`, `consume` | `StateStore`, `TerminalAccess` |
| Idempotency log (`common.py`) | user and phase rows of `lifecycle_operations` | `replay`, `finish` inside every keyed method | `RoomRequests` |
| State store, control-plane side (`control_plane.py`) | `sandbox_resources`, cleanup rows of `lifecycle_operations`, attachment leases | `accept`, `transition`, `reconcile`, `cleanup_failed`, `grant_attachment_lease` | `StateStore`, `TerminalAccess` |
| Cleanup worker (`docker_worker.py`) | none of its own | one bounded pass: finalize, reconcile, remove, record | `RoomRuntime` |
| Orchestrator (`orchestrator.py`) | none; idempotency keys derived from the reserving operation | `provision`: accept, create, start, bootstrap, publish | `RoomRuntime` |
| Enter / Leave / Reset services | none | the learner's requests | `RoomRuntime`, `RoomRequests` |
| Maintenance and lifespan (`maintenance.py`, `local_runtime.py`) | the background task | startup pass, periodic pass, final pass | `RoomRuntime` |
| Docker lifecycle (`docker_lifecycle.py`, `runtime_docker.py`) | containers, held by the daemon | create or adopt, start, undo, destroy and verify absent | `RoomRuntime` |
| Terminal path (`authorization.py`, `terminal_gateway.py`, `terminal.py`) | capability uses, leases, slots in memory | issue, consume, lease, admit, attach, close | `TerminalAccess` |
| Recovery verification (`recovery.py`) | none | drive READY → RUNNING → RESOLVED around one observation | `RoomRequests` |
| Qualification gate (`qualification_gate.py`, `qualification_workspace.py`) | current report and its sentinel sandbox, the lock of the workspace | refresh, decide, require, close | `QualificationGate` |
| Qualification collection (`qualification_collector.py`, `qualification_restart.py`) | scratch state in the workspace, sandboxes of its own | sweep, create, judge, abandon and recover a room, destroy | `QualificationGate` |
| Browser sessions (`session.py`) | bounded table of sessions, in memory | open, verify, close | `BrowserSessions` |
| WebSocket bridge, PTY (`websocket.py`, `pty.py`) | per connection: its tasks, its thread of calls, the PTY session | frames, reads, writes, resize, signal, close | `TerminalRelay` (up to the open shell: `TerminalAccess`) |
| Schema migrations (`database.py`) | the database file and its backups | `initialize`, v1→v2→v3→v4 | `SchemaMigration` |
| HTTP routes, configuration, CLI, seccomp and image checks, `apps/web` | none that outlives a request | parsing, formatting, calls of the above | not modelled |

How they interact.  Every write goes through a store method, and each store
method is one `BEGIN IMMEDIATE` transaction that reads its clock under the writer
lock.  Callers hold nothing between two methods but values they read: a
reference to a sandbox, a version to compare and swap, a receipt.  Between two
methods they call Docker, which may be slow, fail, or do the work and lose the
answer.  A crash loses the threads and keeps the database and the containers.

### What is hard to test, and the properties that matter

* *Replacement.*  A reset stops one sandbox and reserves another; cleanup, expiry,
  leave and the resumed provisioning race for both.  At most one may be usable
  (`ReplacementWaits`, `RecordsMatchContainers`).
* *Publication.*  A room is offered only over its verified current sandbox
  (`PublishedIsVerified`), and that sandbox must in fact run (`OfferedRoomRuns`).
* *Cleanup authority.*  Cleanup must take everything that is over and nothing that
  is not (`LiveRoomIsNotCleaned`, `ClosedRoomIsClean`, `NoOrphans`).
* *Stop wins.*  Once leave, expiry or a failure is recorded nothing advances
  (`NothingAdvancesAfterStop`) and no capability survives (`CurrentEpochIsOffered`).
* *Stale callers.*  Compare-and-swap must catch everyone who read before somebody
  else wrote (`WritesMoveVersion`, `WritesAreStoreSteps`).
* *Retries.*  A client sends the same key again after it lost an answer, while the room
  has moved on and other requests run: no two calls are carried out under one key
  (`OneEffectPerKey`).
* *Recovery.*  `verify` drives two rows in four calls and may stop after any of them:
  a room is RESOLVED only after an observation of its own sandbox
  (`RecoveryIsObserved`), and a later `verify` can always go on (`RecoveryGoesOn`).
* *Relay.*  Three tasks and a thread share one PTY session: nobody uses a closed
  descriptor, a close is never taken for the end of the shell (`CloseComesLast`), and
  every connection ends with its shell gone (`ConnectionEnds`).
* *Sessions.*  Every call decides with a clock it read before it had the lock: no
  session is accepted past its end (`AcceptedIsOpen`), and a live one gives way only
  when it ends soonest (`SoonestGivesWay`).
* *Migration.*  A writer, a kill or another migration falls between validation, backup
  and transaction: the backup is what the migration changed (`BackupIsExact`).
* *Qualification.*  A report is replaced in the background while it admits rooms and
  while another process may collect its own: it stands until it expires
  (`CurrentReportStands`), it admits only what it qualified (`AdmissionIsFresh`), its
  sandboxes have one owner (`WorkspaceIsHeld`), and what a collection leaves behind is
  found and goes (`RoomIsTraceable`, `AbandonedGoes`, `ClosedLeavesNothing`).
* *Progress.*  Whatever happened, the room ends destroyed and nothing is left
  (`EveryRoomCloses`, `RoomsVanish`), so all that is left of a room that is over must be
  within reach of the cleanup worker at every moment (`NothingIsStranded`).

`PROJECT.json` lists each hazard with the line at which it bites.

## 2. The modules

**`StateStore`** is the database under every caller it has.  The pair
`<<attempt, generation>>` stands for a `ResourceRef`: sandbox ids are fresh UUIDs,
one per generation.  `attempts[a]` is the row of `room_attempts` (`NoAttempt` when
there is none), `resources[a][g]` the row of `sandbox_resources`, `cleanups[a][g]`
the row of `lifecycle_operations` that cleanup owns.  One action is one method:
its guard (`...Ok`) is the conjunction of the method's refusals and its update the
SQL.  A method that raises `StoreError` rolls back and is no step.  A method that
raises `CommitDenial` commits a stop first and then denies: `DenyAttempt` and
`DenyResource`.  A replayed idempotency key writes nothing and is a stuttering
step; what a *caller* does with a replayed receipt is modelled in `RoomRuntime`.
Strings (ids, digests, error codes) are reduced to whether a column is filled.

**`RoomPromise`** says what the store promises without its columns: a room is
absent, preparing, offered, replacing, closing or closed; it holds sandboxes; at
most one of them is in use; it is offered only over one in use and closed only
when none is held.  **`StorePromise`** gives the refinement mapping from the rows of
the store; the abstract specification is the property `KeepsPromise` of the run
`store`.

**`RoomRuntime`** extends `StateStore` with its callers, one step per store call or
Docker call: enterers (`RoomEntryService.enter` with the orchestrator inside),
leavers (`leave` and its cleanup pass), maintainers (`run_once`: expiry, cleanup
worker, resumed resets), the reset request, and the process: startup pass,
periodic pass, shutdown with its final pass, crash.  `threads[t].pc` names the
next call; the other fields are the local variables that survive from one call to
the next, so a version read before another thread's write stays stale.
`answered[a][g]` is the part of the idempotency log that provisioning can replay:
all passes that resume one reset derive the same keys from it.  `containers` is
the daemon; `late` a create request whose client has given up.

**`TerminalAccess`** extends `StateStore` with the way to a terminal, one step per
store call, slot operation or Docker call of a connection.  `capabilities` are the
tokens the backend issued (their signature is not modelled), `used` and `leases` two
tables of the store, `connections` and `sessions` the counters of `_SandboxSlots`.
`sockets[s].stage` is the next call of a connection and `cancelled` says that its task
was cancelled while the call goes on in its thread.  Issue reads its clock before the
row, so it takes any earlier instant.  The store around it takes any step of
`StateStore`, so leave, reset, expiry and cleanup fall between any two calls.  Once the
shell is open this module says only that the relay may end at any time, and does end at
the latest with the session's time limit.

**`TerminalRelay`** is that relay: one connection from the open shell to its end.
`main` is the loop that takes the client's frames, `relay` the output task, `queue`
and `current` the calls on the connection's own thread, where `current` is a call that
has found the session active and is now at the PTY: between the two a close may fall.
`session` is the PTY session and `client` the `docker exec` client at the other end of
it.  The learner, the shell, the time limit and a shutdown act at any moment.  A frame is
reduced to the call it asks for; output and input are counted in chunks, and `space` is
what the PTY still takes, since a write to a full PTY is an error the session ends on.
**`MCTerminal`** puts the two parts, which share no state, into one instance: `part`
says which one a behaviour is about.

**`RoomRequests`** extends `StateStore` with the learner's requests and their keys.
`requests[r].call` is the next store call of a request, the other fields what it has
read; `log` is what `replay` finds: the calls carried out under each key, with the
request they fingerprint.  A request with a key the log holds is answered from it when
it is the same request and refused when it is not.  The keys `verify` derives for its
phases are part of `log`.  Provisioning and cleanup write under keys of their own and
appear as the steps of `StateStore`; that the room goes READY → RUNNING → RESOLVED is
asked for by requests only.  `observed` is a history variable for the property.

**`BrowserSessions`** is the table of sessions of one process.  A call of a thread has
two steps, the clock it reads and the critical section, so the table and the time move
in between.  A token stands for its digest.  A restart empties the table.

**`SchemaMigration`** is the database file: its version, its rows in the order of their
commits, the backup files, and for each migration the next of its steps: validate, back
up, commit.  The migrations to v2 and v3 do all three in one transaction that works on
the snapshot of its first read and is refused when another connection has committed
since; the migration to v4 validates and backs up before its transaction begins.  A
migration may be killed after any step, a backup in the middle of being written included.

**`MCStateStore`** composes the store with its clients for TLC.  `client` is chosen
initially and says whose calls interleave: the store's callers alone, a terminal, one
request, two requests, the browser sessions, or the migrations.  The properties of the
store are checked under each of them.

**`QualificationGate`** stands alone: it shares no state with the store.  `job[p]` is the
collection that runs in a process, serve-local's background refresh or qualify-local, and
`job[p].pc` its next file, lock or Docker step, in the order of
`QualificationCollector.collect` with its nested `finally` clauses (`Abandon`, `Finish`).
`containers` are the sandboxes with the label of the workspace, `late` the create requests
the daemon has yet to carry out.  `collection` is what the gate holds; `dispatched` says
that the loop handed a refresh to a thread that has not begun it, which is how a refresh
can outlive the loop that started it.  `allocs[t]` holds what `require` has read so far:
the report, then the sentinel and the identity inside it, then the image.  A report that
refuses, or that has run out, is reduced to `NoReport`, since all three refuse alike; the
verdict of a collection is a free choice, as is the moment at which PID 1 ends.  The probe
sandbox stands for the lifetime sandbox too, which is created and destroyed around it.

The modules whose names end in **`Proofs`** hold the theorems (section 4).

An operator whose comment begins with "Mutant:" is not part of the model.  It is a
plausible bug in the definition that follows it; putting it in that definition's place
must make one property fail, which shows that the property depends on the code.

## 3. The runs

| Run | Instance | What it shows |
| --- | --- | --- |
| `store` | 1 room, 2 generations, clock 0..2 and 1 retry for the store alone, clock 0..1 with a client, 1 row per pass; terminal: 1 socket, 1 capability; requests: 2 with 1 key and 1 digest; sessions: 2 threads, 3 tokens, a table of 2, seconds 0..2, credentials that expire at 1 and 3; migrations: 2 with 2 paths, 2 rows | all properties of `StateStore` under each of its clients, that it implements `RoomPromise`, leases, keys, recovery, sessions and migration |
| `runtime` | 1 room, 2 generations, 1 enterer, 1 leaver, 2 maintainers, reliable Docker, no crash | no orphans, every write is a legal store call, every room vanishes |
| `runtime_failures` | 1 maintainer, every Docker call may fail or be late, deadline 2 ticks away | at most one container runs, it is on record, offered rooms run |
| `runtime_restart` | 1 crash anywhere, reliable Docker | every room closes |
| `terminal` | access: 1 room, 1 generation, 2 sockets, 2 capabilities, limits of 1; relay: 2 frames, 2 chunks of output, an output limit of 2, room for 1 chunk of input | capabilities are spent once, slots match connections and shells and come back; the close comes last, every connection ends |
| `gate` | 4 sandboxes, 1 allocation, validity of 2 ticks, 1 fault: a failed or late Docker call, a crash, a restart of the daemon or a change of the image | the report in use stands, admissions are fresh, the workspace has one owner, nothing is left behind |
| six violations | | section 5 |

Why these bounds are enough.  *One room*: no method but `expire`, `reconcile` and
the two `pending_*` queries reads more than one attempt, and those only choose
which rooms a bounded pass visits; the proofs cover any number of rooms.  *Two
generations* give a reset with an old and a new sandbox; a further one repeats the
same situation with the older one verified absent, which `GenerationOrder` proves
for any number.  *Clock*: what matters is before the deadline, at it, and a retry
before or after it, and 2 ticks contain these orders.  *Limit*: 1 is the
sharpest bound on a pass, and 2 the smallest with which a pass can both finalize
and reconcile; the liveness runs need it (see `one_row_passes`).  *Retries*: past
`MaxRetries` or the end of the clock a failed removal goes unrecorded, which is
what happens when the report itself fails.  *Sockets*: two suffice for a token
presented twice, for a slot refused and for one that comes back; the run `store`
needs one, since what it asks of a capability does not depend on the others, and the
proofs cover any number.  A connection
limit of 1 still lets two shells contend for one session slot, because a connection
cancelled twice gives its admission back before its shell is closed.

*Clients of the store*: with a client the clock has one tick, which is the deadline, and
no removal fails, which only the store alone is about.  *Requests*: two threads with
one key repeat a request and race with it, one before and one behind any call of the
other; two requests do without a reset between them, one alone has it.  With one digest
two observations agree; that two which differ cannot both be recorded follows from
`OneEffectPerKey`, proved for every set of digests and keys.  *Relay*: two frames let a
call wait behind another, room for one chunk makes the second write meet a full PTY,
and the limit of two chunks is met by the second of them.  *Sessions*: three tokens fill
a table of two and evict; the credentials give sessions that are over before the other's
and one that outlives the clock.  *Migrations*: two suffice for one that commits between
the steps of another, and two paths for both to back up; no two commands under way
share a path (section 7).

*Sandboxes*: the sentinel in use, a new one and its probe are three, and the fourth is
one that was left behind or that an allocation still looks at; with late requests a
collection may have to wait for an identity, which the code never does.  *Validity*: 2
ticks are the least at which a report is due for replacement before it has run out.
*Faults*: one, so that what a crash or a failure leaves is met by a collection that
works; a failure while another failure is being cleaned up is not reached by `gate`.
An image that was replaced does not come back.  A runtime that was stopped is not started
again, because that is the initial state; one that was killed is.

Deadlock checking is off in every run: the bounded clock and the bounded number of
generations let the system stop, and a closed room has nothing left to do.

Fairness (`FairRuntimeSpec`).  Threads run on (`WF` of `ThreadStep`), a process that
is down is started again, the maintenance loop repeats (`local_runtime.py:342-350`)
and time passes.  Nothing is assumed of the learner, of crashes or of shutdowns, and
the liveness runs use a reliable daemon: no fairness of Docker's successes is
assumed.  `PartSpec` of the run `terminal` combines two: on the way to the shell
(`FairTerminalSpec`), that a call that has begun returns and that the relay
of a shell ends, which `session_seconds` (`pty.py`) enforces; in the relay
(`FairRelaySpec`), that the thread of calls, the output task and the main loop run on.
Neither asks anything of the store, the client, the shell, the time limit or the
shutdown.  `FairGateSpec` asks that a collection, an allocation and a step of
the gate that has begun goes on, that the loop dispatches a due refresh
(`local_runtime.py:364-368`), that the daemon works off its requests, that every PID 1
ends and that time passes; nobody has to start qualify-local, a killed runtime or a stop.

## 4. What is proved

`StateStoreProofs` proves, for every set of attempts, number of generations, clock
and retry bound:

* `StoreInvariant`: `Spec => []StoreInv`, and from it
* `TypesHold`, `SchemaChecksHold`, `ReplacementAlwaysWaits`,
  `PublishedAlwaysVerified`, `LiveRoomNeverCleaned`, `ClosedRoomAlwaysClean`,
  `NothingIsEverStranded`.

The only assumption is `StoreAssumption` (the constants are numbers).  None of the
properties is inductive.  That `publish_reset_ready` leaves a verified room, for
instance, depends on which generations can exist at all beside the active one.
`StoreInv` therefore adds, room by room: `AttemptShape` (the intents and pointers
each attempt state allows), `ResourceShape` (stop intent and state agree, evidence
comes with the state it proves, nothing is recorded past the current generation)
and `GenerationOrder` (older sandboxes than the active one are gone; the current
one is usable only alone).  Nothing weaker will do: whether `publish_reset_ready`
leaves older sandboxes behind is decided by what `begin_reset` and `accept` allowed
several steps before.  `NothingIsEverStranded` is the safety part of the liveness that
stays with TLC: `reconcile` selects everything that is left of a room that is over, but
`transition` and `cleanup_failed` accept the worker's report on the current and the active
sandbox only, so it rests on `GenerationOrder`, by which there is no third one.  What
fairness then has to add is that a selected row gets its turn, and `one_row_passes`
(section 5) shows the case in which it does not.

The proof of the invariant has one lemma per action (`CreateKeeps`,
`BeginResetKeeps`, ...), built on a few about what a step does not touch:
`UntouchedRoom` and `StoppedRoom` keep the other rooms, `WrittenAttempt` and
`WrittenResource` reduce a step to the row it writes, and `ToldKeeps` serves every
action that tells sandboxes to stop.

`StateStoreStepProofs` proves, of the same constants, what a step may never do:
`WritesAlwaysMoveVersion`, `RevocationAlwaysMovesEpoch`, `TriggersHold` and
`NothingEverAdvancesAfterStop`.  Its lemmas describe how one row may change
(`AttemptMoves`, `ResourceMoves`, `AdvancedLive`); `EveryStepMoves` puts them together for
a whole step taken where `StoreInv` holds, and each theorem reads its part of it.  The
invariant is needed here too: a stop moves the epoch only the first time, so that it
does when it takes a published room away rests on `AttemptShape` saying that a
published room has no stop recorded.  `StoreAlwaysKeepsPromise` is the refinement: every
step of every method, read through the mapping of `StorePromise`, is a step of
`RoomPromise` or changes no room.

`RoomRuntimeProofs` carries this over to the threads (`RuntimeAssumption`: the numbers
are numbers, the set of attempts is finite, and no thread both serves requests and does
maintenance: every pass is a call of its own, `local_runtime.py:348`, `:384`, `:405`).  `RuntimeImplementsStore` says that
every step of every thread is a step of `StateStore` or leaves it alone, whatever Docker
and crashes do.  Most of the store's guards are checked by the call itself; one is not:
the orchestrator reports FAILED after an error, and the store's refusals of that report
depend on what the thread has read.  The invariant (`RuntimeInv`) says that a thread
which has made a report carries the version of it, and that the row of that version is
still CREATING or STARTING; a sandbox told to stop since is at another version.  From
the two refinements follow `RuntimeRoomsAreVerified`, `RuntimeStrandsNothing` and
`RuntimeKeepsPromise`.

The same module proves what the runtime says of the containers.  `RecordsAlwaysMatch`
holds for any number of threads, crashes, Docker failures and late creations, so it says
more than the run, which has one maintenance thread and no crash.  It is far from
inductive: a cleanup that has removed a container and is about to record its absence
races every thread that still builds the same sandbox.  `DockerInv` rules each race out:

* `LifeInv`: who is busy when.  Passes overlap only while the process stops, and then
  they are the last two.
* `RoleInv`: a pass provisions replacements only, a request only the first sandbox of
  the room it has entered.  So two threads that build one sandbox are two passes.
* `RowsInv`: what has been reported is on record, and a container is on record only
  when every older sandbox of the room is verified absent.
* `VersionInv`: a cleanup holds no version its row has yet to reach, and what it removes
  was told to stop.
* `LateInv`: while a create request is late, another thread builds that sandbox only in
  the last two passes, when nobody cleans any more.
* `GoneInv`: a container that runs is on record and not gone, where gone means that the
  absence is recorded or a cleanup is about to record it; a thread that goes to start a
  sandbox that is gone finds no container, and none is on its way.

`RuntimeTypesHold` needs `LifeInv` as well.  The two other properties do not hold on every
instance, and their theorems say on which they do.  `NothingIsOrphaned` assumes that no
process is killed and that Docker does not fail.  Its invariant, `OrphanInv`, says that no
request is late and that what is left of a sandbox that is gone has an owner about to find
out.  `OfferedAlwaysRuns` assumes one maintenance thread, and allows crashes and failures.
Its invariant, `RunsInv`, is about the sandboxes that no two threads provision at once
(`Alone`): the first of every room, which only the request that entered it provisions, and
with one maintenance thread all of them.  It says that such a sandbox, if usable and
working, or started without a report yet, runs until the deadline, and that one which a
thread still prepares does not work yet.  For first sandboxes this needs no hypothesis at
all, which is `FirstSandboxAlwaysRuns`: what overlapping passes can break is a replacement.
The hypotheses of the other two are those of the runs that check them, and are needed: the run `orphan` fails with a crash, and would with a create request
whose answer is lost and which the daemon carries out after the absence is on record; the
run `shutdown_overlap` fails with a second pass (section 5).

`TerminalProofs` (`TerminalAssumption`: numbers, and finitely many sockets;
`RelayAssumption`) proves, of the way to the shell, `AccessImplementsStore`,
`CurrentEpochAlwaysOffered`, `CapabilityAlwaysSpentOnce`, `LeasesAlwaysCurrent` and
`SlotsAlwaysHeld`.  The invariant `AccessInv` says what a capability stands for as the
store moves on (`CapabilitiesStand`: its epoch has passed, or the room is offered over
the sandbox it names) and that a socket past the consumption has its capability in
`used`; a second one, `SlotsInv`, says that the counters are the cardinalities of the
sockets that hold a slot.  Of the relay it proves `CloseAlwaysComesLast` and
`NothingComesAfterClose`.  What the invariant adds there is `EndIsTold`: an answer that
will make a task send 4410, like the code itself, exists only after the shell's client
had exited.  `PartsAreKept` says that a behaviour of the composition `MCTerminal` is one
of each part, which carries all of this over to it, and `TerminalTypesHold` are its types.

`RoomRequestsProofs` (`StoreAssumption`, `RequestAssumption`) proves three things of the
requests.  `KeyAlwaysHasOneEffect` is inductive by itself, since every method looks up
the key it then records in the same transaction (`LogGrows`).  `ResolvedAlwaysObserved`
and `VerifyAlwaysGoesOn` are not: whether `RESOLVED` may be written depends on what a
request read several calls before.  `RequestInv` says how far the rows can have moved
since then (`Knows`): the generation a request acts on was reserved, a room it has read
as running has not become READY again unless its sandbox was replaced, and the digest it
resolves with has been observed for that sandbox.  From this follows that no sandbox is
RESOLVED before its room is published RUNNING (`NotAhead`), the one pair of states from
which no phase of verify would go on; `EntryIs` gives the shape of the recorded keys.
`RoomsGoOn` is what a step of the store may do to an attempt here, as `RowsMove` is above.
`RecoveryAlwaysObserved`, `RecoveryAlwaysGoesOn` and `ClientTypesHold` say the same of
the composition `MCStateStore`, and `ClientsStayApart` that its behaviours are behaviours
of the sessions and of the migrations.

`QualificationGateProofs` (`GateAssumption`: numbers, and sandboxes are positive ones)
proves `GateInvariant` and from it every safety property of the gate:
`WorkspaceAlwaysHeld`, `RoomAlwaysTraceable`, `ClosedAlwaysLeavesNothing`,
`CurrentReportAlwaysStands`, `AdmissionAlwaysFresh` and `GateTypesHold`.  The first
invariant, `Ownership`, says what a collection holds at each of its steps and that a
process is at one only while the lock of the workspace is its own; that the sentinel of
the gate is the one a refresh replaces until it is swapped out and never one that a
collection has found or created; and what the stage of the runtime says of both.  A
report names an image the host has had, so one that was replaced never matches again: on
that rests `AdmissionIsFresh`.  The second, `Leftovers`, says what each step has left in
the workspace and in Docker, and that until something fails nothing there is nobody's:
on that rests `ClosedLeavesNothing`.

`BrowserSessionsProofs` proves `AcceptedAlwaysOpen` and `SoonestAlwaysGivesWay` from an
invariant on the table and on what a waiting call has read: never later than the clock,
and a token it has seen gone stays gone.  `SchemaMigrationProofs` proves
`BackupAlwaysExact`: what a migration has validated, what it has copied and what the
database is follow each other in that order (`StepInv`), and no two migrations under way
write to one path (`PathsDiffer`).  Both prove the type invariants of theirs as well
(`SessionAssumption`, `MigrationAssumption`: numbers are numbers).

Every invariant and every action property of the passing runs is stated by one of these
theorems.  Only model-checked: liveness (`RoomsVanish`, `EveryRoomCloses`,
`SlotsComeBack`, `ConnectionEnds`, `AbandonedGoes`), which rests on fairness and so on
`ENABLED`, beyond the reach of the prover.

## 5. Where the code and its documentation disagree

Each is a run whose property states what the documentation says and which TLC finds
violated; `PROJECT.json` quotes the lines.

* `one_row_passes`: the cleanup worker charges a pending finalization against the
  pass whether or not it succeeds.  A room that ends in the middle of a reset, with
  the reserved replacement verified absent first, is refused at every pass, and when
  such rooms fill the limit the old sandbox is never cleaned.
* `orphan`: a container created after its sandbox was verified absent, by a process
  that then dies, has no record that leads to it.
* `shutdown_overlap`: the final pass of a shutdown runs beside the pass whose task
  was cancelled; both resume the same reset, and the loser removes the container
  of a room that has just been published.
* `startup_resume`: the startup pass resumes resets before the qualification gate
  has a report, so it fails them.
* `attach_after_reset`: the check before a shell is opened reads the sandbox record
  only.  A lease granted before Leave or Reset opens a shell after it, until cleanup
  has told the sandbox.
* `last_output`: when the shell has exited and the PTY's input buffer is full, the next
  write fails and closes the session before the last output was read; the connection is
  closed with 4410 all the same.

## 6. Plan

What would come next, in this order.

1. The composition of the runtime's lifespan with the qualification loop: the startup
   pass, the first report and the shutdown of both, of which `startup_resume` shows one
   consequence.
2. Two migrate commands under way with one backup path.
3. The scenario room of a qualification with the late creation of its container.
4. Proofs: of `OfferedRoomRuns` for a replacement which two overlapping passes do not
   both provision, which `FirstSandboxAlwaysRuns` leaves between itself and
   `shutdown_overlap`.

## 7. What is not modelled, and why

* *Encoding and parsing* (`capability.py`, `authentication.py`, `http.py`, `web.py`,
  `browser.py`, `cli.py`, `config.py`, `docker_profile.py`, `seccomp.py`): functions of
  one value without state.  The models take their results: a token is one that was
  issued, an identity the right one, a container one that passed its verification.
* *Docker itself*: a call succeeds, fails, or is answered late; `--rm` removes a
  container whose first process ended.  Image, profile and label checks are part of
  "succeeds".
* *The content of rooms* (`scenario*.py`, the disk-full image): fixed commands, a call
  that may fail.
* *What a qualification observes* (`qualification_probe.py`, `qualification_scenarios.py`):
  facts of one host compared with expected values, a free verdict in the model.  The room
  of the restart scenario goes through a store of its own; its cleanup is one step, and a
  container of it that the daemon creates after that step is left out.
* *Two `migrate` commands under way with one backup path*: the check that the path is
  free and the creation of the file are two steps, and services/control-plane/README.md
  says of the backup "It never overwrites an existing file."; the model lets a path go
  to one command at a time.  The integrity checks and the comparison of columns are an
  outcome of validation.
* *The kill of a session inside the container and the arguments of `docker exec`*
  (`pty.py`): one call that ends the client.  The format of frames is not modelled.
* *`apps/web`*: a client without authority.
* *Concurrent writers inside SQLite*: `BEGIN IMMEDIATE` makes a method one step.  That a
  writer waits is covered by any other step being taken first; `STORE_BUSY` is a method
  that does not happen.
