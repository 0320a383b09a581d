------------------------ MODULE BrowserSessionsProofs ------------------------
(***************************************************************************)
(* The table of browser sessions, for any number of threads, tokens and    *)
(* sessions: it stays within its limit, no session outlives what opened    *)
(* it, none is accepted once it has ended, and the one that ends soonest   *)
(* gives way.                                                              *)
(*                                                                         *)
(* What the invariant adds is what a thread may rely on between its clock  *)
(* and the lock: the clock only moves on, and a token that is gone stays   *)
(* gone, because no token is issued twice.                                 *)
(***************************************************************************)
EXTENDS BrowserSessions, FiniteSetTheorems, TLAPS

\* The tokens in the table were issued; each session ends with its credential at
\* the latest.
TableInv ==
  /\ now \in Nat
  /\ IsFiniteSet(DOMAIN table)
  /\ Cardinality(DOMAIN table) <= MaxSessions
  /\ DOMAIN table \subseteq DOMAIN issued
  /\ DOMAIN issued \subseteq Tokens
  /\ \A k \in DOMAIN issued : issued[k] \in Credentials
  /\ \A k \in DOMAIN table : table[k] \in 1..issued[k]

\* What a call has read, at an instant, with the tokens issued and in the table.
CallInv(call, instant, known, live) ==
  /\ call.read <= instant
  /\ call.call \in {"clock", "open"} => call.credential \in Credentials
  /\ call.call = "open" => EndOf(call.read, call.credential) > call.read
  /\ call.call \in {"verify", "accepted"} => call.token \in DOMAIN known
  /\ call.call = "verify" /\ call.ended => call.token \notin live
  /\ call.call = "accepted" => ~call.ended /\ known[call.token] > call.read

CallsInv ==
  /\ serving \in [Threads -> Serving]
  /\ \A t \in Threads : CallInv(serving[t], now, issued, DOMAIN table)

SessionsInv == TableInv /\ CallsInv

-----------------------------------------------------------------------------
(* The operators the table is built with *)

\* A session ends no later than its credential and, for a call that was not
\* refused, after the instant the call read.
LEMMA EndIsWithin ==
  ASSUME NEW read \in Nat, NEW credential \in Nat,
         EndOf(read, credential) > read
  PROVE  EndOf(read, credential) \in 1..credential
BY SessionAssumption DEF EndOf, EarlierOf

\* Every record of a call is a call, and the fields of an updated one are.
LEMMA NoCallIs ==
  /\ NoCall \in Serving
  /\ NoCall.call = "none" /\ NoCall.read = 0
BY DEF NoCall, Call, Serving

LEMMA NoCallInv ==
  ASSUME NEW instant \in Nat, NEW known, NEW live
  PROVE  CallInv(NoCall, instant, known, live)
BY DEF NoCall, Call, CallInv

\* What a thread has read stays true when the clock moves on, tokens are issued
\* and sessions end, since no token that is gone comes back.
LEMMA CallStays ==
  ASSUME NEW call \in Serving, NEW i \in Nat, NEW j \in Nat, i <= j,
         NEW known, NEW more, NEW live, NEW left,
         DOMAIN known \subseteq DOMAIN more,
         \A k \in DOMAIN known : more[k] = known[k],
         \A k \in DOMAIN known : k \in left => k \in live,
         CallInv(call, i, known, live)
  PROVE  CallInv(call, j, more, left)
<1>1. call.read \in Nat
  BY DEF Serving
<1>2. call.read <= j
  BY <1>1 DEF CallInv
<1> QED
  BY <1>2 DEF CallInv

\* A thread whose call stays the same keeps what it has read.
LEMMA StayingCall ==
  ASSUME SessionsInv, NEW t \in Threads, serving'[t] = serving[t],
         now' \in Nat, now <= now',
         DOMAIN issued \subseteq DOMAIN issued',
         \A k \in DOMAIN issued : issued'[k] = issued[k],
         \A k \in DOMAIN issued : k \in DOMAIN table' => k \in DOMAIN table
  PROVE  CallInv(serving'[t], now', issued', DOMAIN table')
<1>1. serving[t] \in Serving /\ CallInv(serving[t], now, issued, DOMAIN table)
  BY DEF SessionsInv, CallsInv
<1>2. now \in Nat
  BY DEF SessionsInv, TableInv
<1>3. CallInv(serving[t], now', issued', DOMAIN table')
  BY <1>1, <1>2, CallStays
<1> QED
  BY <1>3

\* One thread moves; the others keep what they have read.
LEMMA OneMoves ==
  ASSUME SessionsInv, NEW t \in Threads, NEW call \in Serving,
         serving' = [serving EXCEPT ![t] = call],
         now' \in Nat, now <= now',
         DOMAIN issued \subseteq DOMAIN issued',
         \A k \in DOMAIN issued : issued'[k] = issued[k],
         \A k \in DOMAIN issued : k \in DOMAIN table' => k \in DOMAIN table,
         CallInv(call, now', issued', DOMAIN table')
  PROVE  CallsInv'
<1>1. serving' \in [Threads -> Serving] /\ serving'[t] = call
  BY DEF SessionsInv, CallsInv
<1>2. ASSUME NEW o \in Threads \ {t}
      PROVE  CallInv(serving'[o], now', issued', DOMAIN table')
  <2>1. serving'[o] = serving[o]
    BY DEF SessionsInv, CallsInv
  <2> QED
    BY <2>1, StayingCall
<1>3. \A o \in Threads : CallInv(serving'[o], now', issued', DOMAIN table')
  BY <1>1, <1>2
<1> QED
  BY <1>1, <1>3 DEF CallsInv

\* A thread moves and the table stays.
LEMMA OneMovesOnly ==
  ASSUME SessionsInv, NEW t \in Threads, NEW call \in Serving,
         serving' = [serving EXCEPT ![t] = call],
         UNCHANGED <<now, table, issued>>,
         CallInv(call, now, issued, DOMAIN table)
  PROVE  SessionsInv'
<1>1. now \in Nat
  BY DEF SessionsInv, TableInv
<1>2. /\ now' \in Nat /\ now <= now'
      /\ DOMAIN issued \subseteq DOMAIN issued'
      /\ \A k \in DOMAIN issued : issued'[k] = issued[k]
      /\ \A k \in DOMAIN issued : k \in DOMAIN table' => k \in DOMAIN table
  BY <1>1
<1>3. CallInv(call, now', issued', DOMAIN table')
  OBVIOUS
<1>4. CallsInv'
  BY <1>2, <1>3, OneMoves
<1> QED
  BY <1>4 DEF SessionsInv, TableInv

-----------------------------------------------------------------------------
(* open *)

LEMMA RequestOpenKeeps ==
  ASSUME SessionsInv, NEW t \in Threads, NEW c \in Credentials, RequestOpen(t, c)
  PROVE  SessionsInv'
<1> DEFINE call == Call("clock", 0, c, 0, FALSE)
<1>1. now \in Nat /\ c \in Nat
  BY SessionAssumption DEF SessionsInv, TableInv
<1>2. call \in Serving
  BY <1>1 DEF Call, Serving
<1>3. CallInv(call, now, issued, DOMAIN table)
  BY <1>1 DEF Call, CallInv
<1> QED
  BY <1>2, <1>3, OneMovesOnly DEF RequestOpen

LEMMA ReadClockKeeps ==
  ASSUME SessionsInv, NEW t \in Threads, ReadClock(t)
  PROVE  SessionsInv'
<1>1. /\ now \in Nat
      /\ serving[t] \in Serving
      /\ CallInv(serving[t], now, issued, DOMAIN table)
      /\ serving[t].call = "clock"
  BY DEF SessionsInv, TableInv, CallsInv, ReadClock
<1> DEFINE call == [serving[t] EXCEPT !.call = "open", !.read = now]
<1>2. CASE EndOf(now, serving[t].credential) > now
  <2>1. call \in Serving /\ call.call = "open" /\ call.read = now
        /\ call.credential = serving[t].credential
    BY <1>1 DEF Serving
  <2>2. CallInv(call, now, issued, DOMAIN table)
    BY <1>1, <1>2, <2>1 DEF CallInv
  <2> QED
    BY <1>2, <2>1, <2>2, OneMovesOnly DEF ReadClock
<1>3. CASE ~(EndOf(now, serving[t].credential) > now)
  BY <1>1, <1>3, NoCallIs, NoCallInv, OneMovesOnly DEF ReadClock
<1> QED
  BY <1>2, <1>3

\* While there is no room a session gives way, so that one more fits.
LEMMA InsertKeeps ==
  ASSUME SessionsInv, NEW t \in Threads, NEW token \in Tokens, Insert(t, token)
  PROVE  SessionsInv'
<1> DEFINE live == Unexpired(serving[t].read)
           ends == EndOf(serving[t].read, serving[t].credential)
<1>1. now \in Nat /\ serving \in [Threads -> Serving] /\ TableInv
      /\ CallInv(serving[t], now, issued, DOMAIN table)
  BY DEF SessionsInv, TableInv, CallsInv
<1>2. /\ serving[t].call = "open"
      /\ token \notin DOMAIN issued
      /\ issued' = With(issued, token, serving[t].credential)
      /\ serving' = [serving EXCEPT ![t] = NoCall]
      /\ UNCHANGED now
  BY DEF Insert
<1>3. PICK kept \in SUBSET live :
        /\ Room(kept)
        /\ table' = With(Kept(table, kept), token, ends)
  BY DEF Insert
<1>4. live \subseteq DOMAIN table
  BY DEF Unexpired
<1>5. /\ DOMAIN table' = kept \cup {token}
      /\ table'[token] = ends
      /\ \A k \in kept : table'[k] = table[k]
  <2>1. token \notin kept
    BY <1>1, <1>2, <1>4 DEF TableInv
  <2> QED
    BY <1>3, <2>1 DEF Kept, With
<1>6. /\ DOMAIN issued' = DOMAIN issued \cup {token}
      /\ issued'[token] = serving[t].credential
      /\ \A k \in DOMAIN issued : issued'[k] = issued[k]
  BY <1>2 DEF With
<1>7. IsFiniteSet(kept) /\ Cardinality(kept) \in Nat
  BY <1>1, <1>4, FS_Subset, FS_CardinalityType DEF TableInv
<1>8. IsFiniteSet(DOMAIN table') /\ Cardinality(DOMAIN table') <= MaxSessions
  BY <1>3, <1>5, <1>7, FS_AddElement, SessionAssumption DEF Room
<1>9. serving[t].credential \in Credentials /\ ends \in 1..serving[t].credential
  <2>1. serving[t].read \in Nat /\ serving[t].credential \in Nat
    BY <1>1 DEF Serving
  <2>2. serving[t].credential \in Credentials /\ ends > serving[t].read
    BY <1>1, <1>2 DEF CallInv
  <2> QED
    BY <2>1, <2>2, EndIsWithin
<1>10. TableInv'
  <2>1. \A k \in DOMAIN table' : table'[k] \in 1..issued'[k]
    BY <1>1, <1>4, <1>5, <1>6, <1>9 DEF TableInv
  <2> QED
    BY <1>1, <1>2, <1>4, <1>5, <1>6, <1>8, <1>9, <2>1 DEF TableInv
<1>12. \A k \in DOMAIN issued : k \in DOMAIN table' => k \in DOMAIN table
  BY <1>2, <1>4, <1>5
<1>13. CallInv(NoCall, now', issued', DOMAIN table')
  BY <1>1, <1>2, NoCallInv
<1>14. CallsInv'
  <2>1. now' \in Nat /\ now <= now' /\ DOMAIN issued \subseteq DOMAIN issued'
    BY <1>1, <1>2, <1>6
  <2> QED
    BY <1>2, <1>6, <1>12, <1>13, <2>1, NoCallIs, OneMoves
<1> QED
  BY <1>10, <1>14 DEF SessionsInv

-----------------------------------------------------------------------------
(* verify, close, restart and the clock *)

LEMMA RequestVerifyKeeps ==
  ASSUME SessionsInv, NEW t \in Threads, NEW token \in Tokens, RequestVerify(t, token)
  PROVE  SessionsInv'
<1> DEFINE call == Call("verify", now, 0, token, token \notin DOMAIN table)
<1>1. now \in Nat
  BY DEF SessionsInv, TableInv
<1>2. call \in Serving
  BY <1>1 DEF Call, Serving
<1>3. CallInv(call, now, issued, DOMAIN table)
  <2>1. /\ call.call = "verify" /\ call.read = now /\ call.token = token
        /\ call.ended = (token \notin DOMAIN table)
    BY DEF Call
  <2>2. token \in DOMAIN issued
    BY DEF RequestVerify
  <2>3. call.ended => call.token \notin DOMAIN table
    BY <2>1, Zenon
  <2> HIDE DEF call
  <2> QED
    BY <1>1, <2>1, <2>2, <2>3 DEF CallInv
<1> QED
  BY <1>2, <1>3, OneMovesOnly DEF RequestVerify

\* Sessions may go from the table while a thread is done or moves on.
LEMMA TableShrinks ==
  ASSUME SessionsInv, NEW left \in SUBSET DOMAIN table, table' = Kept(table, left),
         UNCHANGED <<now, issued>>
  PROVE  TableInv' /\ DOMAIN table' = left
<1>1. DOMAIN table' = left /\ \A k \in left : table'[k] = table[k]
  BY DEF Kept
<1>2. IsFiniteSet(left) /\ Cardinality(left) <= Cardinality(DOMAIN table)
      /\ Cardinality(left) \in Nat /\ Cardinality(DOMAIN table) \in Nat
  BY FS_Subset, FS_CardinalityType DEF SessionsInv, TableInv
<1>3. Cardinality(left) <= MaxSessions
  BY <1>2, SessionAssumption DEF SessionsInv, TableInv
<1> QED
  BY <1>1, <1>2, <1>3 DEF SessionsInv, TableInv

LEMMA LookUpKeeps ==
  ASSUME SessionsInv, NEW t \in Threads, LookUp(t)
  PROVE  SessionsInv'
<1> DEFINE token == serving[t].token
<1>1. /\ now \in Nat
      /\ serving[t] \in Serving
      /\ CallInv(serving[t], now, issued, DOMAIN table)
      /\ serving[t].call = "verify"
      /\ UNCHANGED <<now, issued>>
  BY DEF SessionsInv, TableInv, CallsInv, LookUp
<1>2. CASE /\ serving' = [serving EXCEPT ![t] = NoCall]
           /\ UNCHANGED table
  BY <1>1, <1>2, NoCallIs, NoCallInv, OneMovesOnly
<1>3. CASE /\ table' = Kept(table, DOMAIN table \ {token})
           /\ serving' = [serving EXCEPT ![t] = NoCall]
  <2>1. TableInv' /\ DOMAIN table' = DOMAIN table \ {token}
    BY <1>1, <1>3, TableShrinks
  <2>2. CallInv(NoCall, now', issued', DOMAIN table')
    BY <1>1, NoCallInv
  <2>3. /\ now' \in Nat /\ now <= now'
        /\ DOMAIN issued \subseteq DOMAIN issued'
        /\ \A k \in DOMAIN issued : issued'[k] = issued[k]
        /\ \A k \in DOMAIN issued : k \in DOMAIN table' => k \in DOMAIN table
    BY <1>1, <2>1
  <2>4. CallsInv'
    BY <1>3, <2>2, <2>3, NoCallIs, OneMoves
  <2> QED
    BY <2>1, <2>4 DEF SessionsInv
<1>4. CASE /\ token \in DOMAIN table
           /\ StillLive(t)
           /\ serving' = [serving EXCEPT ![t].call = "accepted"]
           /\ UNCHANGED table
  <2> DEFINE call == [serving[t] EXCEPT !.call = "accepted"]
  <2>1. call \in Serving /\ call.call = "accepted" /\ call.token = token
        /\ call.read = serving[t].read /\ call.ended = serving[t].ended
    BY <1>1 DEF Serving
  <2>2. ~serving[t].ended /\ token \in DOMAIN issued
    BY <1>1, <1>4 DEF CallInv
  <2>3. issued[token] > serving[t].read
    <3>1. table[token] \in 1..issued[token] /\ issued[token] \in Nat
      BY <1>4, <2>2, SessionAssumption DEF SessionsInv, TableInv
    <3>2. table[token] > serving[t].read /\ serving[t].read \in Nat
      BY <1>1, <1>4 DEF StillLive, Serving
    <3> QED
      BY <3>1, <3>2
  <2>4. CallInv(call, now, issued, DOMAIN table)
    BY <1>1, <2>1, <2>2, <2>3 DEF CallInv
  <2> QED
    BY <1>1, <1>4, <2>1, <2>4, OneMovesOnly
<1> QED
  BY <1>2, <1>3, <1>4 DEF LookUp

LEMMA ServeKeeps ==
  ASSUME SessionsInv, NEW t \in Threads, Serve(t)
  PROVE  SessionsInv'
<1>1. now \in Nat
  BY DEF SessionsInv, TableInv
<1> QED
  BY <1>1, NoCallIs, NoCallInv, OneMovesOnly DEF Serve

LEMMA CloseKeeps ==
  ASSUME SessionsInv, NEW token \in Tokens, CloseBrowserSession(token)
  PROVE  SessionsInv'
<1>1. UNCHANGED <<now, issued, serving>> /\ now \in Nat
  BY DEF CloseBrowserSession, SessionsInv, TableInv
<1>2. TableInv' /\ DOMAIN table' = DOMAIN table \ {token}
  BY <1>1, TableShrinks DEF CloseBrowserSession
<1>3. \A t \in Threads : CallInv(serving'[t], now', issued', DOMAIN table')
  BY <1>1, <1>2, StayingCall
<1> QED
  BY <1>1, <1>2, <1>3 DEF SessionsInv, CallsInv

LEMMA RestartKeeps ==
  ASSUME SessionsInv, RestartServer
  PROVE  SessionsInv'
<1>1. /\ serving' = [t \in Threads |-> NoCall]
      /\ table' = <<>>
      /\ UNCHANGED <<now, issued>>
      /\ now \in Nat
  BY DEF RestartServer, SessionsInv, TableInv
<1>2. DOMAIN table' = {}
  BY <1>1
<1>3. TableInv'
  BY <1>1, <1>2, FS_EmptySet, SessionAssumption DEF SessionsInv, TableInv
<1>4. CallInv(NoCall, now', issued', DOMAIN table')
  BY <1>1, NoCallInv
<1>5. CallsInv'
  BY <1>1, <1>4, NoCallIs DEF CallsInv
<1> QED
  BY <1>3, <1>5 DEF SessionsInv

LEMMA SecondKeeps ==
  ASSUME SessionsInv, Second
  PROVE  SessionsInv'
<1>1. UNCHANGED <<table, issued, serving>> /\ now \in Nat /\ now' = now + 1
  BY DEF Second, SessionsInv, TableInv
<1>2. \A t \in Threads : CallInv(serving'[t], now', issued', DOMAIN table')
  BY <1>1, StayingCall
<1> QED
  BY <1>1, <1>2 DEF SessionsInv, TableInv, CallsInv

\* The invariant of the table and of the calls on it.
THEOREM SessionsInvariant == SessionsSpec => []SessionsInv
<1>1. SessionsInit => SessionsInv
  <2> SUFFICES ASSUME SessionsInit
               PROVE  SessionsInv
    OBVIOUS
  <2>1. /\ now = 0 /\ DOMAIN table = {} /\ DOMAIN issued = {}
        /\ serving = [t \in Threads |-> NoCall]
    BY DEF SessionsInit
  <2>2. TableInv
    BY <2>1, FS_EmptySet, SessionAssumption DEF TableInv
  <2>3. CallInv(NoCall, now, issued, DOMAIN table)
    BY <2>1, NoCallInv
  <2> QED
    BY <2>1, <2>2, <2>3, NoCallIs DEF SessionsInv, CallsInv
<1>2. SessionsInv /\ [SessionsNext]_sessionVars => SessionsInv'
  <2> SUFFICES ASSUME SessionsInv, [SessionsNext]_sessionVars
               PROVE  SessionsInv'
    OBVIOUS
  <2>1. CASE UNCHANGED sessionVars
    BY <2>1 DEF sessionVars, SessionsInv, TableInv, CallsInv
  <2>2. CASE \E t \in Threads : \E c \in Credentials : RequestOpen(t, c)
    BY <2>2, RequestOpenKeeps
  <2>3. CASE \E t \in Threads : ReadClock(t)
    BY <2>3, ReadClockKeeps
  <2>4. CASE \E t \in Threads : \E token \in Tokens : Insert(t, token)
    BY <2>4, InsertKeeps
  <2>5. CASE \E t \in Threads : \E token \in Tokens : RequestVerify(t, token)
    BY <2>5, RequestVerifyKeeps
  <2>6. CASE \E t \in Threads : LookUp(t) \/ Serve(t)
    BY <2>6, LookUpKeeps, ServeKeeps
  <2>7. CASE \E token \in Tokens : CloseBrowserSession(token)
    BY <2>7, CloseKeeps
  <2>8. CASE RestartServer \/ Second
    BY <2>8, RestartKeeps, SecondKeeps
  <2> QED
    BY <2>1, <2>2, <2>3, <2>4, <2>5, <2>6, <2>7, <2>8 DEF SessionsNext
<1> QED
  BY <1>1, <1>2, PTL DEF SessionsSpec

\* The table holds at most the configured sessions, and none of them ends later
\* than the credential that opened it.
THEOREM SessionTypesHold == SessionsSpec => []SessionTypeOK
<1>1. SessionsInv => SessionTypeOK
  BY DEF SessionsInv, TableInv, CallsInv, CallInv, SessionTypeOK
<1> QED
  BY <1>1, SessionsInvariant, PTL

\* verify accepts no session that had ended when the request read its clock.
THEOREM AcceptedAlwaysOpen == SessionsSpec => []AcceptedIsOpen
<1>1. SessionsInv => AcceptedIsOpen
  BY DEF SessionsInv, CallsInv, CallInv, AcceptedIsOpen
<1> QED
  BY <1>1, SessionsInvariant, PTL

\* open at the limit: a good session gives way only when the table is full, and
\* the one that ends soonest first.
THEOREM SoonestAlwaysGivesWay == SessionsSpec => SoonestGivesWay
<1>1. ASSUME SessionsInv, [SessionsNext]_sessionVars
      PROVE  \A k \in DOMAIN table \ DOMAIN table' :
               table[k] > now /\ DOMAIN table' \ DOMAIN table # {} =>
                 /\ Cardinality(DOMAIN table') = MaxSessions
                 /\ \A x \in DOMAIN table \cap DOMAIN table' :
                      table[x] >= table[k]
  <2> SUFFICES ASSUME NEW k \in DOMAIN table \ DOMAIN table', table[k] > now,
                      DOMAIN table' \ DOMAIN table # {}
               PROVE  /\ Cardinality(DOMAIN table') = MaxSessions
                      /\ \A x \in DOMAIN table \cap DOMAIN table' :
                           table[x] >= table[k]
    OBVIOUS
  <2>1. PICK t \in Threads, token \in Tokens : Insert(t, token)
    <3>1. CASE UNCHANGED table
      BY <3>1
    <3>2. CASE \E left \in SUBSET DOMAIN table : table' = Kept(table, left)
      BY <3>2 DEF Kept
    <3>3. CASE RestartServer
      BY <3>3 DEF RestartServer
    <3>4. CASE \E t \in Threads : LookUp(t)
      BY <3>1, <3>2, <3>4 DEF LookUp
    <3>5. CASE \E token \in Tokens : CloseBrowserSession(token)
      BY <3>2, <3>5 DEF CloseBrowserSession
    <3> QED
      BY <1>1, <3>1, <3>3, <3>4, <3>5
      DEF SessionsNext, sessionVars, RequestOpen, ReadClock, RequestVerify, Serve, Second
  <2> DEFINE live == Unexpired(serving[t].read)
             ends == EndOf(serving[t].read, serving[t].credential)
  <2>2. PICK kept \in SUBSET live :
          /\ Room(kept)
          /\ \A x \in live \ kept : ~Room(kept \cup {x}) /\ GivesWay(x, kept \cup {x})
          /\ table' = With(Kept(table, kept), token, ends)
    BY <2>1 DEF Insert
  <2>3. /\ live \subseteq DOMAIN table
        /\ token \notin DOMAIN table
        /\ DOMAIN table' = kept \cup {token}
    BY <1>1, <2>1, <2>2 DEF Unexpired, Insert, SessionsInv, TableInv, With, Kept
  <2>4. k \in live \ kept
    <3>1. serving[t].read \in Nat /\ serving[t].read <= now /\ now \in Nat
      BY <1>1 DEF SessionsInv, TableInv, CallsInv, CallInv, Serving
    <3>2. table[k] \in Nat
      BY <1>1, SessionAssumption DEF SessionsInv, TableInv
    <3> QED
      BY <2>3, <3>1, <3>2 DEF Unexpired
  <2>5. IsFiniteSet(kept) /\ Cardinality(kept) \in Nat
    BY <1>1, <2>3, FS_Subset, FS_CardinalityType DEF SessionsInv, TableInv
  <2>6. Cardinality(kept \cup {k}) = Cardinality(kept) + 1
        /\ Cardinality(kept \cup {token}) = Cardinality(kept) + 1
    BY <2>3, <2>4, <2>5, FS_AddElement
  <2>7. Cardinality(DOMAIN table') = MaxSessions
    <3>1. Room(kept) /\ ~Room(kept \cup {k})
      BY <2>2, <2>4
    <3> QED
      BY <2>3, <2>5, <2>6, <3>1, SessionAssumption DEF Room
  <2>8. \A x \in kept : table[k] <= table[x]
    BY <2>2, <2>4 DEF GivesWay
  <2>9. \A x \in kept : table[x] \in Nat /\ table[k] \in Nat
    BY <1>1, <2>3, SessionAssumption DEF SessionsInv, TableInv
  <2> QED
    BY <2>3, <2>7, <2>8, <2>9
<1> QED
  BY <1>1, SessionsInvariant, PTL DEF SoonestGivesWay, SessionsSpec

=============================================================================
