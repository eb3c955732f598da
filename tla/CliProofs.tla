----------------------------- MODULE CliProofs -----------------------------
(***************************************************************************)
(* Proofs about the run command, for every number of categories, ports,    *)
(* attempts and polls, all options and every combination of failures.      *)
(***************************************************************************)
EXTENDS Cli, TLAPS

\* The statements before, inside and after the body of the with statement.
Before == {"path", "transport", "tunnel config"}
Inside == {"connected", "versions", "access", "replica", "sign off", "authorizer", "audit"}
After  == {"render", "convert", "over"}

\* Where the tunnel is, by where run() is: open throughout the body of a command
\* that uses one, never opened by one that does not; and its ssh does not run
\* between two attempts, nor after the end unless its probe raised.
TunnelInv ==
    /\ pc # "open tunnel" => wait \in {"allocate", "open", "closed", "failed"}
    /\ pc = "open tunnel" => wait \notin {"open", "closed", "failed"} /\ opts.ssh
    /\ pc \in Before => wait = "allocate"
    /\ pc \in {"tunnel config", "login"} => opts.ssh
    /\ opts.ssh /\ pc \in {"login", "connect"} \cup Inside => wait = "open"
    /\ wait \in {"allocate", "spawn"} => ~Tunnel!Alive
    /\ wait \in {"closed", "failed"} => (Tunnel!Alive => cause = "oserror")

\* The connection is open in the body only, and within the tunnel.
ConnectionInv ==
    /\ pc \in Before \cup {"open tunnel", "login", "connect"} => sess = "unopened"
    /\ pc \in After => GivenBack
    /\ opts.ssh /\ sess \in {"live", "lost"} => wait = "open"

\* What the outcome says of the report.
OutcomeInv ==
    /\ written \in Nat
    /\ pc \in {"render", "convert"} => outcome = "ok"
    /\ pc \in {"unwind", "render", "convert", "over"} /\ outcome = "ok" => written = Categories
    /\ pc = "convert" => final
    /\ SuccessIsComplete

IInv == TunnelInv /\ ConnectionInv /\ StopConditionHolds /\ OutcomeInv

-----------------------------------------------------------------------------
(* The with statement.                                                     *)

\* What an attempt does to its ssh: none is left between two attempts, and one
\* is left by an attempt that ends only if the probe raised.
LEMMA AttemptLeavesNothing ==
    ASSUME IInv, OpenTunnel
    PROVE  /\ wait' \in {"allocate", "spawn"} => ~Tunnel!Alive'
           /\ wait' = "failed" => (Tunnel!Alive' => cause' = "oserror")
           /\ wait' # "closed"
           /\ wait' = "open" => pc' = "login"
           /\ wait' = "failed" => pc' = "unwind"
           /\ wait' \notin {"open", "failed"} => pc' = "open tunnel"
           /\ pc = "open tunnel"
<1>. USE DEF IInv, TunnelInv, OpenTunnel, Tunnel!Alive, Tunnel!Raise
<1>1. CASE Tunnel!FindFreeLocalPort \/ Tunnel!Spawn \/ Tunnel!PollRunning \/ Tunnel!RepollRunning \/ Tunnel!ProbeRaises
  BY <1>1 DEF Tunnel!FindFreeLocalPort, Tunnel!Spawn, Tunnel!PollRunning, Tunnel!RepollRunning, Tunnel!ProbeRaises
<1>2. CASE Tunnel!PollExited \/ Tunnel!RepollExited
  BY <1>2 DEF Tunnel!PollExited, Tunnel!RepollExited, Tunnel!LostRace
<1>3. CASE Tunnel!Probe
  BY <1>3 DEF Tunnel!Probe
<1>4. CASE Tunnel!TimedOut
  BY <1>4 DEF Tunnel!TimedOut, Tunnel!Terminate
<1>. QED
  BY <1>1, <1>2, <1>3, <1>4 DEF Tunnel!Opening

\* Every step keeps what the with statements say of the tunnel and the connection.
LEMMA WithStep == ASSUME IInv, [Next]_vars PROVE TunnelInv' /\ ConnectionInv'
<1>. USE DEF IInv, TunnelInv, ConnectionInv, GivenBack, Before, Inside, After, At, Leave, Quiet, cliVars, tunnelVars, sessionVars
<1>1. CASE ChoosePath \/ ChooseTransport \/ PromptForTunnel \/ PromptForLogin
  <2>1. CASE ChoosePath
    BY <2>1 DEF ChoosePath, Tunnel!Alive
  <2>2. CASE ChooseTransport
    BY <2>2 DEF ChooseTransport, Tunnel!Alive
  <2>3. CASE PromptForTunnel
    BY <2>3 DEF PromptForTunnel, Tunnel!Alive
  <2>4. CASE PromptForLogin
    BY <2>4 DEF PromptForLogin, Tunnel!Alive
  <2>. QED
    BY <1>1, <2>1, <2>2, <2>3, <2>4
<1>2. CASE OpenTunnel
  BY <1>2, AttemptLeavesNothing DEF OpenTunnel
<1>3. CASE ConnectReadOnly
  BY <1>3 DEF ConnectReadOnly, Connect, ConnectFails, Tunnel!Alive
<1>4. CASE BeginPreflight \/ AskVersions \/ ConfirmAccess \/ ConfirmReplica \/ SignOff \/ NameAuthorizer
  BY <1>4 DEF BeginPreflight, AskVersions, ConfirmAccess, ConfirmReplica, SignOff, NameAuthorizer, StatementFails, Tunnel!Alive
<1>5. CASE AuditCategory \/ AuditReturns \/ AuditRaises
  BY <1>5 DEF AuditCategory, AuditReturns, AuditRaises, Tunnel!Alive
<1>6. CASE CloseConnection \/ Unwound
  BY <1>6 DEF CloseConnection, Unwound, Close, Tunnel!Alive
<1>7. CASE TerminateTunnel
  BY <1>7 DEF TerminateTunnel, Tunnel!CloseTunnel, Tunnel!Terminate, Tunnel!Alive
<1>8. CASE FinalRender \/ FinalRenderRaises \/ ConvertToPdf \/ ConversionRaises
  BY <1>8 DEF FinalRender, FinalRenderRaises, ConvertToPdf, ConversionRaises, Tunnel!Alive
<1>9. CASE Interrupt
  BY <1>9 DEF Interrupt, Tunnel!SshStops, Tunnel!Alive, Prompting
<1>10. CASE IdleTimeout \/ ConnectionDrops
  BY <1>10 DEF IdleTimeout, ConnectionDrops, IdleInTransactionTimeout, SessionLost, Tunnel!Alive
<1>11. CASE Ssh \/ Machine
  BY <1>11 DEF Ssh, Machine, Tunnel!SshForwards, Tunnel!SshFails, Tunnel!SshStops, Tunnel!OtherListens, Tunnel!OtherStops, Tunnel!Alive
<1>12. CASE UNCHANGED vars
  BY <1>12 DEF vars, Tunnel!Alive
<1>. QED
  BY <1>1, <1>2, <1>3, <1>4, <1>5, <1>6, <1>7, <1>8, <1>9, <1>10, <1>11, <1>12 DEF Next, Run, Over

-----------------------------------------------------------------------------
(* The gate, and the outcome.                                              *)

\* Nothing is audited past an unanswered gate, whatever step is taken.
LEMMA GateStep == ASSUME IInv, [Next]_vars PROVE StopConditionHolds'
<1>. USE DEF IInv, StopConditionHolds, At, Leave, Quiet, cliVars
<1>1. CASE ChoosePath \/ ChooseTransport \/ PromptForTunnel \/ OpenTunnel \/ PromptForLogin \/ ConnectReadOnly
  BY <1>1 DEF ChoosePath, ChooseTransport, PromptForTunnel, OpenTunnel, PromptForLogin, ConnectReadOnly
<1>2. CASE BeginPreflight \/ AskVersions \/ ConfirmAccess
  BY <1>2 DEF BeginPreflight, AskVersions, ConfirmAccess
<1>3. CASE ConfirmReplica \/ SignOff \/ NameAuthorizer
  BY <1>3 DEF ConfirmReplica, SignOff, NameAuthorizer
<1>4. CASE AuditCategory \/ AuditReturns \/ AuditRaises
  BY <1>4 DEF AuditCategory, AuditReturns, AuditRaises
<1>5. CASE CloseConnection \/ TerminateTunnel \/ Unwound
  BY <1>5 DEF CloseConnection, TerminateTunnel, Unwound
<1>6. CASE FinalRender \/ FinalRenderRaises \/ ConvertToPdf \/ ConversionRaises
  BY <1>6 DEF FinalRender, FinalRenderRaises, ConvertToPdf, ConversionRaises
<1>7. CASE Interrupt \/ IdleTimeout \/ ConnectionDrops \/ Ssh \/ Machine \/ UNCHANGED vars
  BY <1>7 DEF Interrupt, IdleTimeout, ConnectionDrops, Ssh, Machine, vars
<1>. QED
  BY <1>1, <1>2, <1>3, <1>4, <1>5, <1>6, <1>7 DEF Next, Run, Over

\* What comes before the end touches neither the report nor the outcome "ok".
LEMMA OutcomeSame ==
    ASSUME OutcomeInv, UNCHANGED <<written, final, pdf>>,
           pc' \notin {"render", "convert", "over"}, pc' = "unwind" => outcome' # "ok"
    PROVE  OutcomeInv'
BY DEF OutcomeInv, SuccessIsComplete

\* Every step keeps the outcome in step with what was written.
LEMMA OutcomeStep == ASSUME IInv, [Next]_vars PROVE OutcomeInv'
<1>. USE CliAssumption DEF IInv, OutcomeInv, SuccessIsComplete, At, Leave, Quiet, cliVars
<1>1. CASE ChoosePath \/ ChooseTransport \/ PromptForTunnel \/ OpenTunnel \/ PromptForLogin \/ ConnectReadOnly
  <2>1. UNCHANGED <<written, final, pdf>> /\ pc' \notin {"render", "convert", "over"} /\ (pc' = "unwind" => outcome' # "ok")
    BY <1>1 DEF ChoosePath, ChooseTransport, PromptForTunnel, OpenTunnel, PromptForLogin, ConnectReadOnly
  <2>. QED
    BY <2>1, OutcomeSame
<1>2. CASE BeginPreflight \/ AskVersions \/ ConfirmAccess \/ ConfirmReplica \/ SignOff \/ NameAuthorizer
  <2>1. UNCHANGED <<written, final, pdf>> /\ pc' \notin {"render", "convert", "over"} /\ (pc' = "unwind" => outcome' # "ok")
    BY <1>2 DEF BeginPreflight, AskVersions, ConfirmAccess, ConfirmReplica, SignOff, NameAuthorizer
  <2>. QED
    BY <2>1, OutcomeSame
<1>3. CASE AuditCategory \/ AuditReturns \/ AuditRaises
  BY <1>3 DEF AuditCategory, AuditReturns, AuditRaises
<1>4. CASE CloseConnection \/ TerminateTunnel \/ Unwound
  BY <1>4 DEF CloseConnection, TerminateTunnel, Unwound
<1>5. CASE FinalRender \/ FinalRenderRaises \/ ConvertToPdf \/ ConversionRaises
  BY <1>5 DEF FinalRender, FinalRenderRaises, ConvertToPdf, ConversionRaises
<1>6. CASE Interrupt
  <2>1. UNCHANGED <<written, final, pdf>> /\ pc' = "unwind" /\ outcome' = "error"
    BY <1>6 DEF Interrupt
  <2>. QED
    BY <2>1, OutcomeSame
<1>7. CASE IdleTimeout \/ ConnectionDrops \/ Ssh \/ Machine \/ UNCHANGED vars
  <2>1. UNCHANGED <<pc, outcome, written, final, pdf>>
    BY <1>7 DEF IdleTimeout, ConnectionDrops, Ssh, Machine, vars
  <2>. QED
    BY <2>1
<1>. QED
  BY <1>1, <1>2, <1>3, <1>4, <1>5, <1>6, <1>7 DEF Next, Run, Over

-----------------------------------------------------------------------------
\* Before the command begins nothing is open and nothing is told.
LEMMA InitIInv == ASSUME Init PROVE IInv
BY CliAssumption DEF Init, IInv, Tunnel!Init, SessionInit, TunnelInv, ConnectionInv,
   StopConditionHolds, OutcomeInv, SuccessIsComplete, Before, Inside, After, Tunnel!Alive

\* IInv holds throughout every behaviour of the command.
LEMMA Invariant == Spec => []IInv
<1>1. Init => IInv
  BY InitIInv
<1>2. IInv /\ [Next]_vars => IInv'
  BY WithStep, GateStep, OutcomeStep DEF IInv
<1>. QED
  BY <1>1, <1>2, PTL DEF Spec

\* Whatever the options, the answers and the failures, nothing of the client's is
\* held when the report is rendered, converted or the command is over, but for an
\* ssh whose probe raised; and the connection ends before the tunnel it goes
\* through (cli.py:432-454, ssh_tunnel.py, db.py).
THEOREM AllIsGivenBack == Spec => []NothingStaysOpen
<1>1. IInv => NothingStaysOpen
  BY DEF IInv, TunnelInv, ConnectionInv, NothingStaysOpen, GivenBack, After
<1>. QED
  BY <1>1, Invariant, PTL

\* No interactive run that was not excused from preflight audits anything without
\* a replica or a sign-off (_run_preflight, cli.py:305-320).
THEOREM TheGateIsKept == Spec => []StopConditionHolds
BY Invariant, PTL DEF IInv

\* Exit status 0 means the final report of a whole audit, and a PDF is only ever
\* made of such a report (cli.py:455-484).
THEOREM SuccessMeansComplete == Spec => []SuccessIsComplete
BY Invariant, PTL DEF IInv, OutcomeInv
=============================================================================
