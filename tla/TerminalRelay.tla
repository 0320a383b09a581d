---------------------------- MODULE TerminalRelay ----------------------------
(***************************************************************************)
(* One terminal connection once its shell is open: the relay of            *)
(* websocket.py over the PTY session of pty.py.                            *)
(*                                                                         *)
(* Three tasks meet: the connection's main loop takes the frames of the    *)
(* client, the output task reads the shell's output, and a thread of the   *)
(* connection's own carries out the calls of both, one after another       *)
(* (_ConnectionCalls).  The shell, the `docker exec` client that holds the *)
(* other end of the PTY, the learner, the session's time limit and a       *)
(* server that shuts down act at any moment.                               *)
(*                                                                         *)
(* Output and input are counted in chunks.  How TerminalAccess gets to an  *)
(* open shell, and the slots it takes, are that module's.                  *)
(***************************************************************************)
EXTENDS Naturals, Sequences

CONSTANTS
  MaxFrames,    (* bound: frames the client sends                           *)
  MaxOutput,    (* bound: chunks the shell writes                           *)
  OutputLimit,  (* chunks a session may relay                               *)
  InputSpace    (* chunks of input the PTY holds for its other end          *)

ASSUME RelayAssumption ==
  {MaxFrames, MaxOutput, OutputLimit, InputSpace} \subseteq Nat \ {0}

VARIABLES
  client,   (* the docker exec client, which ends when the shell does       *)
  output,   (* chunks written by the shell, read by the session and sent    *)
  space,    (* input chunks the PTY still takes                             *)
  session,  (* the PTY session: closed, ended and past its time limit       *)
  queue,    (* calls queued to the connection's thread                      *)
  current,  (* the call on the thread that has found the session active     *)
  main,     (* the connection's main loop                                   *)
  relay,    (* the output task                                              *)
  answer,   (* close code each task draws from its last call, 0 for none    *)
  code,     (* the close code sent to the client, 0 before                  *)
  frames,   (* frames received                                              *)
  gone      (* the client has disconnected                                  *)

relayVars == <<client, output, space, session, queue, current, main, relay,
               answer, code, frames, gone>>

Calls == {"read", "write", "resize", "signal", "close"}

RelayInit ==
  /\ client = "running"
  /\ output = [written |-> 0, read |-> 0, sent |-> 0]
  /\ space = InputSpace
  /\ session = [closed |-> FALSE, ended |-> FALSE, expired |-> FALSE]
  /\ queue = <<>>
  /\ current = "none"
  /\ main = "receive"
  /\ relay = "idle"
  /\ answer = [main |-> 0, relay |-> 0]
  /\ code = 0
  /\ frames = 0
  /\ gone = FALSE

-----------------------------------------------------------------------------
(* What happens outside *)

ShellWrites ==
  /\ client = "running"
  /\ output.written < MaxOutput
  /\ output' = [output EXCEPT !.written = @ + 1]
  /\ UNCHANGED <<client, space, session, queue, current, main, relay, answer, code, frames, gone>>

ShellReads ==
  /\ client = "running"
  /\ space < InputSpace
  /\ space' = space + 1
  /\ UNCHANGED <<client, output, session, queue, current, main, relay, answer, code, frames, gone>>

\* The learner exits the shell, or Docker removes the sandbox.
ShellExits ==
  /\ client = "running"
  /\ client' = "exited"
  /\ UNCHANGED <<output, space, session, queue, current, main, relay, answer, code, frames, gone>>

TimeLimit ==
  /\ ~session.expired
  /\ session' = [session EXCEPT !.expired = TRUE]
  /\ UNCHANGED <<client, output, space, queue, current, main, relay, answer, code, frames, gone>>

Disconnect ==
  /\ ~gone
  /\ gone' = TRUE
  /\ UNCHANGED <<client, output, space, session, queue, current, main, relay, answer, code, frames>>

-----------------------------------------------------------------------------
(* The PTY session, on the connection's thread *)

\* A client already reaped is not signalled; another ends at the latest killed.
Terminated(process) == IF process = "running" THEN "terminated" ELSE process

\* close: the shell's session in the sandbox is killed, then the client ended.
EndSession(ended) ==
  /\ session' = [session EXCEPT !.closed = TRUE, !.ended = ended]
  /\ client' = Terminated(client)

Ended(ended) == IF ended THEN 4410 ELSE 1011

\* The answer of a call goes to the task that awaits it; a cancelled task takes
\* no more answers.
AnswerTo(call, error) ==
  IF call = "read"
  THEN /\ relay' = (IF relay = "reading" THEN "answered" ELSE relay)
       /\ answer' = [answer EXCEPT !.relay = error]
       /\ UNCHANGED main
  ELSE /\ main' = (IF main = "calling" THEN "answered" ELSE main)
       /\ answer' = [answer EXCEPT !.main = error]
       /\ UNCHANGED relay

\* _ensure_active, at the start of every call but close.
TakeCall ==
  /\ current = "none"
  /\ queue # <<>>
  /\ Head(queue) # "close"
  /\ queue' = Tail(queue)
  /\ \/ /\ session.closed
        /\ AnswerTo(Head(queue), Ended(session.ended))
        /\ UNCHANGED <<session, client, current>>
     \/ /\ ~session.closed
        /\ session.expired
        /\ EndSession(FALSE)
        /\ AnswerTo(Head(queue), 1011)
        /\ UNCHANGED current
     \/ /\ ~session.closed
        /\ ~session.expired
        /\ current' = Head(queue)
        /\ UNCHANGED <<session, client, main, relay, answer>>
  /\ UNCHANGED <<output, space, code, frames, gone>>

\* _fail: the error ends the session if the client has exited.
Fail(call) ==
  /\ EndSession(client = "exited")
  /\ AnswerTo(call, Ended(client = "exited"))

Readable == output.written - output.read

Least(m, n) == IF m < n THEN m ELSE n

\* read: what the shell wrote before its end comes first, then the error.
Read ==
  /\ current = "read"
  /\ current' = "none"
  /\ \/ /\ output.read >= OutputLimit
        /\ EndSession(FALSE)
        /\ AnswerTo("read", 1011)
        /\ UNCHANGED output
     \/ /\ output.read < OutputLimit
        /\ Readable > 0
        /\ \E n \in 1..Least(Readable, OutputLimit - output.read) :
             output' = [output EXCEPT !.read = @ + n]
        /\ AnswerTo("read", 0)
        /\ UNCHANGED <<session, client>>
     \/ /\ output.read < OutputLimit
        /\ Readable = 0
        /\ client = "exited"
        /\ Fail("read")
        /\ UNCHANGED output
     \/ /\ output.read < OutputLimit
        /\ Readable = 0
        /\ client # "exited"
        /\ AnswerTo("read", 0)
        /\ UNCHANGED <<session, client, output>>
  /\ UNCHANGED <<space, queue, code, frames, gone>>

\* write, and signal, which writes the interrupt byte.  The PTY does not block:
\* with no space left the write fails, whoever holds the other end.
Write ==
  /\ current = "write"
  /\ current' = "none"
  /\ \/ /\ space > 0
        /\ space' = space - 1
        /\ AnswerTo("write", 0)
        /\ UNCHANGED <<session, client>>
     \/ /\ space = 0
        /\ Fail("write")
        /\ UNCHANGED space
  /\ UNCHANGED <<output, queue, code, frames, gone>>

\* resize does not fail when the client has exited.
Resize ==
  /\ current = "resize"
  /\ current' = "none"
  /\ AnswerTo("resize", 0)
  /\ UNCHANGED <<client, output, space, session, queue, code, frames, gone>>

\* A signal other than the interrupt, which is a write, is refused.
RefuseSignal ==
  /\ current = "signal"
  /\ current' = "none"
  /\ AnswerTo("signal", 1011)
  /\ UNCHANGED <<client, output, space, session, queue, code, frames, gone>>

\* The queued close; a session that closed itself has nothing left to do.
QueuedClose ==
  /\ current = "none"
  /\ queue # <<>>
  /\ Head(queue) = "close"
  /\ queue' = Tail(queue)
  /\ IF session.closed THEN UNCHANGED <<session, client>> ELSE EndSession(FALSE)
  /\ UNCHANGED <<output, space, current, main, relay, answer, code, frames, gone>>

ThreadStep == TakeCall \/ Read \/ Write \/ Resize \/ RefuseSignal \/ QueuedClose

-----------------------------------------------------------------------------
(* The output task *)

\* close_once: the first code is the one the client gets.
CloseOnce(c) == code' = IF code = 0 THEN c ELSE code

RelayReads ==
  /\ relay = "idle"
  /\ relay' = "reading"
  /\ queue' = Append(queue, "read")
  /\ UNCHANGED <<client, output, space, session, current, main, answer, code, frames, gone>>

\* send_json: nothing is sent once the close has been.
SendOutput ==
  output' = IF code = 0 THEN [output EXCEPT !.sent = output.read] ELSE output

\* Mutant: the output task stops at an error and closes nothing.
RelayStops ==
  /\ relay = "answered"
  /\ IF answer.relay = 0 THEN SendOutput /\ relay' = "idle" ELSE relay' = "done" /\ UNCHANGED output
  /\ UNCHANGED <<client, space, session, queue, current, main, answer, code, frames, gone>>

RelayAnswered ==
  /\ relay = "answered"
  /\ IF answer.relay = 0
     THEN SendOutput /\ relay' = "idle" /\ UNCHANGED code
     ELSE CloseOnce(answer.relay) /\ relay' = "done" /\ UNCHANGED output
  /\ UNCHANGED <<client, space, session, queue, current, main, answer, frames, gone>>

RelayStep == RelayReads \/ RelayAnswered

-----------------------------------------------------------------------------
(* The main loop *)

\* An input, resize or signal frame: the call is queued and awaited.
ReceiveFrame(call) ==
  /\ main = "receive"
  /\ frames < MaxFrames
  /\ ~gone
  /\ frames' = frames + 1
  /\ main' = "calling"
  /\ queue' = Append(queue, call)
  /\ UNCHANGED <<client, output, space, session, current, relay, answer, code, gone>>

\* A close frame ends the loop, and so does a frame that is not allowed, with
\* 4400 or, too large, 4409 (one code here).
ReceiveLast(c) ==
  /\ main = "receive"
  /\ frames < MaxFrames
  /\ ~gone
  /\ frames' = frames + 1
  /\ main' = "finally"
  /\ IF c = 1000 THEN UNCHANGED code ELSE CloseOnce(c)
  /\ UNCHANGED <<client, output, space, session, queue, current, relay, answer, gone>>

\* The client left, or the server delivers the end of a connection it closed.
ReceiveDisconnect ==
  /\ main = "receive"
  /\ gone \/ code # 0
  /\ main' = "finally"
  /\ UNCHANGED <<client, output, space, session, queue, current, relay, answer, code, frames, gone>>

MainAnswered ==
  /\ main = "answered"
  /\ IF answer.main = 0
     THEN main' = "receive" /\ UNCHANGED code
     ELSE main' = "finally" /\ CloseOnce(answer.main)
  /\ UNCHANGED <<client, output, space, session, queue, current, relay, answer, frames, gone>>

\* Mutant: the session is closed at once, beside the call that may still run.
FinallyDirectly ==
  /\ main = "finally"
  /\ main' = "closing"
  /\ relay' = "done"
  /\ queue' = <<>>
  /\ EndSession(FALSE)
  /\ UNCHANGED <<output, space, current, answer, code, frames, gone>>

\* finally: the output task is cancelled and the close queued.  A call that has
\* not begun may be withdrawn with the task that awaited it: each task has at most
\* one in the queue, so any piece of the queue may be left.
Finally ==
  /\ main = "finally"
  /\ main' = "closing"
  /\ relay' = "done"
  /\ \E m \in 1..Len(queue) + 1 : \E n \in m - 1..Len(queue) :
       queue' = Append(SubSeq(queue, m, n), "close")
  /\ UNCHANGED <<client, output, space, session, current, answer, code, frames, gone>>

\* The close has run: the connection is closed unless the client has left, and
\* the admission is released.
Closed ==
  /\ main = "closing"
  /\ \A i \in DOMAIN queue : queue[i] # "close"
  /\ main' = "over"
  /\ IF gone THEN UNCHANGED code ELSE CloseOnce(1000)
  /\ UNCHANGED <<client, output, space, session, queue, current, relay, answer, frames, gone>>

\* The server shuts down: the task is cancelled at an await; one cancelled while
\* it waits for the close releases the admission at once.
CancelTask ==
  /\ \/ main \in {"receive", "calling", "answered"} /\ main' = "finally"
     \/ main = "closing" /\ main' = "over"
  /\ UNCHANGED <<client, output, space, session, queue, current, relay, answer, code, frames, gone>>

MainStep == ReceiveDisconnect \/ MainAnswered \/ Finally \/ Closed

RelayNext ==
  \/ ShellWrites \/ ShellReads \/ ShellExits
  \/ TimeLimit \/ Disconnect
  \/ ThreadStep
  \/ RelayStep
  \/ MainStep \/ CancelTask
  \/ \E call \in {"write", "resize", "signal"} : ReceiveFrame(call)
  \/ \E c \in {1000, 4400} : ReceiveLast(c)

RelaySpec == RelayInit /\ [][RelayNext]_relayVars

\* The thread and the event loop go on; the server tells of an ended connection.
FairRelaySpec ==
  /\ RelaySpec
  /\ WF_relayVars(ThreadStep)
  /\ WF_relayVars(RelayStep)
  /\ WF_relayVars(MainStep)

-----------------------------------------------------------------------------
(* Properties *)

CloseCodes == {0, 1000, 1011, 4400, 4410}

RelayTypeOK ==
  /\ client \in {"running", "exited", "terminated"}
  /\ output \in [written : 0..MaxOutput, read : 0..MaxOutput, sent : 0..MaxOutput]
  /\ output.sent <= output.read /\ output.read <= output.written
  /\ space \in 0..InputSpace
  /\ session \in [closed : BOOLEAN, ended : BOOLEAN, expired : BOOLEAN]
  /\ queue \in Seq(Calls)
  /\ current \in Calls \cup {"none"}
  /\ main \in {"receive", "calling", "answered", "finally", "closing", "over"}
  /\ relay \in {"idle", "reading", "answered", "done"}
  /\ answer \in [main : CloseCodes, relay : CloseCodes]
  /\ code \in CloseCodes
  /\ frames \in 0..MaxFrames
  /\ gone \in BOOLEAN

\* The close comes last and is never taken for the shell's own end: no call
\* touches the PTY of a closed session, whose descriptor the process may have
\* given to another connection, however the connection ends; and the client is
\* told 4410 only when the shell had ended before the close.
CloseComesLast ==
  /\ current # "none" => ~session.closed
  /\ session.ended \/ code = 4410 => client = "exited"

\* Once a close code is sent it stands, and nothing is sent after it, although
\* both tasks may be closing and sending.
NothingAfterClose ==
  [][code # 0 => code' = code /\ output'.sent = output.sent]_relayVars

\* Liveness: a connection whose shell ended, whose client left or whose task was
\* cancelled is over, and its shell is gone from the sandbox.
ConnectionEnds ==
  (client = "exited" \/ gone \/ main = "finally") ~>
    (main = "over" /\ session.closed /\ client # "running")

\* services/control-plane/README.md: when the shell has ended the server relays
\* the shell's last output before it closes the connection with 4410.
LastOutputIsRelayed == code = 4410 => output.sent = output.written

=============================================================================
