------------------------------ MODULE MCTerminal ------------------------------
(***************************************************************************)
(* One instance for two parts that share no state: the way to a shell      *)
(* (TerminalAccess) and the relay of one open shell (TerminalRelay).       *)
(* `part` says which one a behaviour is about.                             *)
(***************************************************************************)
EXTENDS TerminalAccess, TerminalRelay

VARIABLE part

partVars == <<accessVars, relayVars, part>>

PartInit ==
  /\ TerminalInit
  /\ RelayInit
  /\ part \in {"access", "relay"}

PartNext ==
  \/ part = "access" /\ TerminalNext /\ UNCHANGED <<relayVars, part>>
  \/ part = "relay" /\ RelayNext /\ UNCHANGED <<accessVars, part>>

\* The fairness of FairTerminalSpec and of FairRelaySpec, each for its part.
PartSpec ==
  /\ PartInit /\ [][PartNext]_partVars
  /\ \A s \in Sockets : WF_accessVars(SocketStep(s))
  /\ WF_relayVars(part = "relay" /\ ThreadStep)
  /\ WF_relayVars(part = "relay" /\ RelayStep)
  /\ WF_relayVars(part = "relay" /\ MainStep)

\* The types of the sockets with their leases, and of the relayed session.
TerminalTypesOK == TerminalTypeOK /\ RelayTypeOK

=============================================================================
