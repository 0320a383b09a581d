---------------------------- MODULE MCStateStore ----------------------------
(***************************************************************************)
(* The state store on small instances, with each of its clients in turn,   *)
(* and the promise it implements (StorePromise); the table of browser      *)
(* sessions, which the process that sends the requests keeps beside it;    *)
(* and the migration of the store's file to the newest schema.  The        *)
(* behaviour begins by choosing whose calls interleave; the others then    *)
(* stay in their initial state.                                            *)
(***************************************************************************)
EXTENDS StorePromise, TerminalAccess, RoomRequests, BrowserSessions,
        SchemaMigration

VARIABLE client   \* whose calls interleave with those of every other caller

clientVars == <<accessVars, requestVars, sessionVars, schemaVars, client>>

(* The instances: the store alone over the whole time, with failed cleanups; *)
(* a terminal, and one request, over a shorter time; two requests without a *)
(* reset between them.                                                      *)
Horizon == IF client = "store" THEN MaxTime ELSE 1

Within ==
  /\ clock' <= Horizon
  /\ client # "store" =>
       \A a \in Attempts, g \in Generations : cleanups'[a][g].retries = 0
  /\ client = "requests" => \A a \in Attempts : attempts'[a].generation <= 1

OneRequest == CHOOSE r \in Requests : TRUE

ClientInit ==
  /\ TerminalInit
  /\ RequestsInit
  /\ SessionsInit
  /\ SchemaInit
  /\ client \in {"store", "terminal", "request", "requests", "sessions", "migration"}
  /\ client # "migration" => version = 0

StoreNext ==
  /\ \/ client = "store" /\ Next /\ UNCHANGED <<terminalVars, requestVars>>
     \/ client = "terminal" /\ TerminalNext /\ UNCHANGED requestVars
     \/ /\ client = "request"
        /\ RequestsNext
        /\ \A r \in Requests \ {OneRequest} : requests'[r] = Idle
        /\ UNCHANGED terminalVars
     \/ client = "requests" /\ RequestsNext /\ UNCHANGED terminalVars
  /\ Within
  /\ UNCHANGED <<sessionVars, schemaVars>>

ClientNext ==
  /\ \/ StoreNext
     \/ /\ client = "sessions"
        /\ SessionsNext
        /\ UNCHANGED <<accessVars, requestVars, schemaVars>>
     \/ /\ client = "migration"
        /\ SchemaNext
        /\ UNCHANGED <<accessVars, requestVars, sessionVars>>
  /\ UNCHANGED client

ClientSpec == ClientInit /\ [][ClientNext]_clientVars

ByRequests == client \in {"request", "requests"}

\* Where recovery is asked for by requests only: a sandbox is RESOLVED on the
\* word of an observation of that sandbox (recovery.py).
RecoveryIsObserved == ByRequests => ResolvedIsObserved

\* Where recovery is asked for by requests only: the rows a verify left behind
\* are always at a phase from which a new verify goes on, and the keys it derives
\* for its phases never make them refuse each other (recovery.py).
RecoveryGoesOn == ByRequests => VerifyCanGoOn /\ PhaseKeysAgree

\* The types of the requests, of the sessions and of the migrations.
ClientTypeOK == RequestTypeOK /\ SessionTypeOK /\ SchemaTypeOK

=============================================================================
