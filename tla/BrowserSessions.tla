--------------------------- MODULE BrowserSessions ---------------------------
(***************************************************************************)
(* Browser sessions (session.py): a table in memory from the digest of a   *)
(* token to the instant its session ends.  Every call reads the clock      *)
(* before it takes the lock, so by the time it looks at the table other    *)
(* calls have changed it and time has passed.                              *)
(*                                                                         *)
(* A token is fresh and stands for its digest; time counts whole seconds.  *)
(* The identity of a session and the cookie are left out.                  *)
(***************************************************************************)
EXTENDS Integers, FiniteSets

CONSTANTS
  Tokens,       (* bound: the tokens ever issued                            *)
  Threads,      (* threads that serve requests                              *)
  MaxSessions,  (* sessions the table may hold                              *)
  LifeLimit,    (* longest life of a session                                *)
  Credentials,  (* instants at which configured credentials expire          *)
  LastSecond    (* bound: the last instant of the clock                     *)

ASSUME SessionAssumption ==
  /\ MaxSessions \in Nat \ {0}
  /\ LifeLimit \in Nat \ {0}
  /\ Credentials \subseteq Nat
  /\ LastSecond \in Nat

VARIABLES
  now,       (* the clock                                                   *)
  table,     (* tokens in the table, and when each session ends             *)
  issued,    (* every token issued, and the credential that opened it       *)
  serving    (* the call each thread is in, and what it has read            *)

sessionVars == <<now, table, issued, serving>>

Call(call, read, credential, token, ended) ==
  [call |-> call, read |-> read, credential |-> credential, token |-> token, ended |-> ended]

NoCall == Call("none", 0, 0, 0, FALSE)

SessionsInit ==
  /\ now = 0
  /\ table = <<>>
  /\ issued = <<>>
  /\ serving = [t \in Threads |-> NoCall]

Kept(map, keys) == [k \in keys |-> map[k]]

With(map, k, v) == [x \in DOMAIN map \cup {k} |-> IF x = k THEN v ELSE map[x]]

EarlierOf(x, y) == IF x < y THEN x ELSE y

-----------------------------------------------------------------------------
(* open *)

\* The request names a credential that has not expired.
RequestOpen(t, c) ==
  /\ serving[t] = NoCall
  /\ c > now
  /\ serving' = [serving EXCEPT ![t] = Call("clock", 0, c, 0, FALSE)]
  /\ UNCHANGED <<now, table, issued>>

\* Mutant: a session lasts its lifetime, whatever opened it.
EndOfLifetime(read, credential) == read + LifeLimit

\* A session ends with its lifetime or with the credential that opened it.
EndOf(read, credential) == EarlierOf(read + LifeLimit, credential)

\* The clock of the call; less than a second of session is refused.
ReadClock(t) ==
  /\ serving[t].call = "clock"
  /\ serving' = [serving EXCEPT ![t] =
       IF EndOf(now, serving[t].credential) > now
       THEN [serving[t] EXCEPT !.call = "open", !.read = now]
       ELSE NoCall]
  /\ UNCHANGED <<now, table, issued>>

Unexpired(read) == {k \in DOMAIN table : table[k] > read}

\* There is room for one more session beside these.
Room(kept) == Cardinality(kept) < MaxSessions

\* Mutant: the session that expires last gives way.
GivesWayLast(k, kept) == \A x \in kept : table[k] >= table[x]

GivesWay(k, kept) == \A x \in kept : table[k] <= table[x]

\* Under the lock: what has expired by the clock of the call goes, and while
\* there is no room the session that ends first.
Insert(t, token) ==
  LET live == Unexpired(serving[t].read)
  IN  /\ serving[t].call = "open"
      /\ token \notin DOMAIN issued
      /\ \E kept \in SUBSET live :
           /\ Room(kept)
           /\ \A k \in live \ kept :
                /\ ~Room(kept \cup {k})
                /\ GivesWay(k, kept \cup {k})
           /\ table' = With(Kept(table, kept), token,
                               EndOf(serving[t].read, serving[t].credential))
      /\ issued' = With(issued, token, serving[t].credential)
      /\ serving' = [serving EXCEPT ![t] = NoCall]
      /\ UNCHANGED now

-----------------------------------------------------------------------------
(* verify, close, restart *)

\* A request with a cookie.
RequestVerify(t, token) ==
  /\ serving[t] = NoCall
  /\ token \in DOMAIN issued
  /\ serving' = [serving EXCEPT ![t] =
                   Call("verify", now, 0, token, token \notin DOMAIN table)]
  /\ UNCHANGED <<now, table, issued>>

\* Mutant: a session is looked up as it is found.
LiveAsFound(t) == TRUE

StillLive(t) == table[serving[t].token] > serving[t].read

\* Under the lock: unknown, expired (and removed) or accepted.
LookUp(t) ==
  LET token == serving[t].token
  IN  /\ serving[t].call = "verify"
      /\ \/ /\ token \notin DOMAIN table
            /\ serving' = [serving EXCEPT ![t] = NoCall]
            /\ UNCHANGED table
         \/ /\ token \in DOMAIN table
            /\ ~StillLive(t)
            /\ table' = Kept(table, DOMAIN table \ {token})
            /\ serving' = [serving EXCEPT ![t] = NoCall]
         \/ /\ token \in DOMAIN table
            /\ StillLive(t)
            /\ serving' = [serving EXCEPT ![t].call = "accepted"]
            /\ UNCHANGED table
      /\ UNCHANGED <<now, issued>>

Serve(t) ==
  /\ serving[t].call = "accepted"
  /\ serving' = [serving EXCEPT ![t] = NoCall]
  /\ UNCHANGED <<now, table, issued>>

CloseBrowserSession(token) ==
  /\ token \in DOMAIN table
  /\ table' = Kept(table, DOMAIN table \ {token})
  /\ UNCHANGED <<now, issued, serving>>

\* The table and the threads are in memory only.
RestartServer ==
  /\ DOMAIN issued # {}
  /\ table' = <<>>
  /\ serving' = [t \in Threads |-> NoCall]
  /\ UNCHANGED <<now, issued>>

Second ==
  /\ now < LastSecond
  /\ now' = now + 1
  /\ UNCHANGED <<table, issued, serving>>

SessionsNext ==
  \/ \E t \in Threads :
       \/ \E c \in Credentials : RequestOpen(t, c)
       \/ ReadClock(t)
       \/ \E token \in Tokens : Insert(t, token)
       \/ \E token \in Tokens : RequestVerify(t, token)
       \/ LookUp(t)
       \/ Serve(t)
  \/ \E token \in Tokens : CloseBrowserSession(token)
  \/ RestartServer
  \/ Second

SessionsSpec == SessionsInit /\ [][SessionsNext]_sessionVars

-----------------------------------------------------------------------------
(* Properties *)

Serving == [call       : {"none", "clock", "open", "verify", "accepted"},
            read       : Nat,
            credential : Nat,
            token      : Tokens \cup {0},
            ended      : BOOLEAN]

\* Besides the types: the table never holds more than the configured sessions,
\* although threads that saw room for one more open theirs at the same time; and
\* a session ends no later than the credential that opened it, however slow the
\* request was between its clock and the table.
SessionTypeOK ==
  /\ now \in Nat
  /\ DOMAIN table \subseteq DOMAIN issued
  /\ DOMAIN issued \subseteq Tokens
  /\ \A k \in DOMAIN issued : issued[k] \in Credentials
  /\ \A k \in DOMAIN table : table[k] \in 1..issued[k]
  /\ Cardinality(DOMAIN table) <= MaxSessions
  /\ serving \in [Threads -> Serving]
  /\ \A t \in Threads : serving[t].call = "open" =>
       EndOf(serving[t].read, serving[t].credential) > serving[t].read

\* A request is accepted only with a session that had not ended, nor expired, as
\* the request read its clock: not closed, evicted, or lost in a restart.
AcceptedIsOpen ==
  \A t \in Threads :
    serving[t].call = "accepted" =>
      /\ ~serving[t].ended
      /\ issued[serving[t].token] > serving[t].read

\* A session that is still good gives way only to a full table, and never while
\* one that ends sooner stays: the clock an open works with may be old, and it
\* then ends what has expired meanwhile first.
SoonestGivesWay ==
  [][\A k \in DOMAIN table \ DOMAIN table' :
       table[k] > now /\ DOMAIN table' \ DOMAIN table # {} =>
         /\ Cardinality(DOMAIN table') = MaxSessions
         /\ \A x \in DOMAIN table \cap DOMAIN table' :
              table[x] >= table[k]]_sessionVars

=============================================================================
