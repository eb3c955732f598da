-------------------------------- MODULE Cli --------------------------------
(***************************************************************************)
(* The run command (cli.py): choose the report's path, open a tunnel if    *)
(* asked to, log in and connect, pass the preflight gate, audit with the   *)
(* reporters attached, give everything back, and only then render the      *)
(* final report and convert it.                                            *)
(*                                                                         *)
(* The connection is PgSession's, the tunnel is SshTunnel's open_tunnel,   *)
(* and run_audit (AuditRunner) is here a run of Categories results with a  *)
(* report written after each (ReportFile).  A connection through the tunnel*)
(* is lost when ssh is.  Whatever ends the with statement unwinds it:      *)
(* connection first, tunnel next.                                          *)
(***************************************************************************)
EXTENDS Naturals, PgSession

CONSTANTS
    Categories, \* how many category results an audit has
    Ports,      \* local ports
    MaxAttempts,\* _MAX_TUNNEL_ATTEMPTS
    MaxPolls,   \* how often the wait for the tunnel polls
    Faults      \* "interrupt" (Ctrl-C), "idle" (a person takes over 60 s),
                \* "session" (the server goes away), "disk" (it is full),
                \* "pandoc" (its words are no text, or no markup), "ssh" and
                \* "oserror" (see SshTunnel)

ASSUME CliAssumption == Categories \in Nat \ {0} /\ MaxAttempts \in Nat \ {0} /\ MaxPolls \in Nat

VARIABLES
    opts,       \* the command line, as far as run() branches on it
    pc,         \* where run() is
    cleared,    \* how preflight let the audit proceed: "no", "replica", "signed"
                \* (by a named authorizer), "unnamed" (signed off, not by name)
    written,    \* how many category results the report on disk has
    final,      \* the final render has been written
    pdf,        \* a PDF has been made
    outcome,    \* "none", "ok", "exit" (typer.Exit(1)), "error" (an exception)
    wait,       \* where open_tunnel is, and its variables
    attempt, port, polls, ssh, holder, cause

Tunnel == INSTANCE SshTunnel WITH pc <- wait

tunnelVars == <<wait, attempt, port, polls, ssh, holder, cause>>
cliVars == <<opts, pc, cleared, written, final, pdf, outcome>>
vars == <<cliVars, tunnelVars, sessionVars>>

Options == [ask : BOOLEAN, ssh : BOOLEAN, dsn : BOOLEAN,
            interactive : BOOLEAN, preflight : BOOLEAN, pdf : BOOLEAN]

Init ==
    /\ opts \in Options
    /\ pc = "path" /\ cleared = "no"
    /\ written = 0 /\ final = FALSE /\ pdf = FALSE /\ outcome = "none"
    /\ SessionInit /\ Tunnel!Init

\* pc moves, and nothing else of run() changes.
At(from, to) == pc = from /\ pc' = to

\* The with statement, or run() itself, is left for the given reason.
Leave(from, why) == At(from, "unwind") /\ outcome' = why

Quiet == UNCHANGED <<tunnelVars, opts, cleared, written, final, pdf>>

-----------------------------------------------------------------------------
(* Before the database is reached.                                         *)

ChoosePath ==
    /\ \/ At("path", "transport") /\ UNCHANGED outcome
       \/ opts.ask /\ Leave("path", "exit")
    /\ Quiet /\ UNCHANGED sessionVars

ChooseTransport ==
    /\ CASE opts.ssh               -> At("transport", "tunnel config") /\ UNCHANGED outcome
         [] ~opts.ssh /\ opts.dsn  -> At("transport", "connect") /\ UNCHANGED outcome
         [] ~opts.ssh /\ ~opts.dsn -> Leave("transport", "exit")
    /\ Quiet /\ UNCHANGED sessionVars

\* An empty or invalid answer ends the command.
PromptForTunnel ==
    /\ \/ At("tunnel config", "open tunnel") /\ UNCHANGED outcome
       \/ Leave("tunnel config", "exit")
    /\ Quiet /\ UNCHANGED sessionVars

\* open_tunnel runs until it yields or raises.
OpenTunnel ==
    /\ pc = "open tunnel" /\ Tunnel!Opening
    /\ CASE wait' = "open"   -> pc' = "login" /\ UNCHANGED outcome
         [] wait' = "failed" -> pc' = "unwind" /\ outcome' = "error"
         [] OTHER            -> UNCHANGED <<pc, outcome>>
    /\ UNCHANGED <<opts, cleared, written, final, pdf, sessionVars>>

PromptForLogin ==
    /\ \/ At("login", "connect") /\ UNCHANGED outcome
       \/ Leave("login", "exit")
    /\ Quiet /\ UNCHANGED sessionVars

\* Through a tunnel, whoever listens on the port may answer as a server.
ConnectReadOnly ==
    /\ \/ At("connect", "connected") /\ (opts.ssh => holder[port] # "free") /\ Connect /\ UNCHANGED outcome
       \/ Leave("connect", "error") /\ ConnectFails
    /\ Quiet

-----------------------------------------------------------------------------
(* _run_preflight.                                                         *)

BeginPreflight ==
    /\ IF opts.preflight /\ opts.interactive
       THEN At("connected", "versions")
       ELSE At("connected", "audit")
    /\ Quiet /\ UNCHANGED <<outcome, sessionVars>>

\* Two queries, outside any savepoint.
AskVersions ==
    /\ \/ CanExecute /\ At("versions", "access") /\ UNCHANGED <<outcome, sessionVars>>
       \/ StatementFails /\ Leave("versions", "error")
       \/ ~CanExecute /\ Leave("versions", "error") /\ UNCHANGED sessionVars
    /\ Quiet

\* The answer is remarked on, and changes nothing.
ConfirmAccess == At("access", "replica") /\ Quiet /\ UNCHANGED <<outcome, sessionVars>>

ConfirmReplica ==
    /\ \/ At("replica", "audit") /\ cleared' = "replica"
       \/ At("replica", "sign off") /\ UNCHANGED cleared
    /\ UNCHANGED <<tunnelVars, opts, written, final, pdf, outcome, sessionVars>>

\* Mutation: a refused sign-off is remarked on like the access answer.
SignOffOptional ==
    /\ \E next \in {"authorizer", "audit"} : At("sign off", next)
    /\ Quiet /\ UNCHANGED <<outcome, sessionVars>>

\* The STOP CONDITION; EOF counts as "no".
SignOff ==
    /\ \/ At("sign off", "authorizer") /\ UNCHANGED outcome
       \/ Leave("sign off", "exit")
    /\ Quiet /\ UNCHANGED sessionVars

\* "Who authorized/owns this?": nothing typed, or EOF, is no name, and goes on.
NameAuthorizer ==
    /\ At("authorizer", "audit")
    /\ cleared' \in {"signed", "unnamed"}
    /\ UNCHANGED <<tunnelVars, opts, written, final, pdf, outcome, sessionVars>>

-----------------------------------------------------------------------------
(* run_audit, and what follows the with statement.                         *)

\* A category is done, and the incremental writer renders the results so far.
AuditCategory ==
    /\ pc = "audit" /\ written < Categories
    /\ written' = written + 1
    /\ UNCHANGED <<tunnelVars, opts, pc, cleared, final, pdf, outcome, sessionVars>>

AuditReturns ==
    /\ written = Categories /\ Leave("audit", "ok")
    /\ Quiet /\ UNCHANGED sessionVars

\* An exception out of run_audit: see AuditRunner for when.
AuditRaises ==
    /\ Leave("audit", "error")
    /\ Quiet /\ UNCHANGED sessionVars

\* connect_read_only's finally.
CloseConnection ==
    /\ pc = "unwind" /\ Close
    /\ UNCHANGED <<cliVars, tunnelVars>>

\* open_tunnel's finally.
TerminateTunnel ==
    /\ pc = "unwind" /\ sess \in {"unopened", "closed"} /\ Tunnel!CloseTunnel
    /\ UNCHANGED <<cliVars, sessionVars>>

\* The with statement is left: nothing it opened is open.
GivenBack == sess \in {"unopened", "closed"} /\ wait # "open"

\* Mutation: the final render is made for an audit that failed, too.
UnwoundRenders ==
    /\ GivenBack /\ At("unwind", IF outcome = "exit" THEN "over" ELSE "render")
    /\ Quiet /\ UNCHANGED <<outcome, sessionVars>>

Unwound ==
    /\ GivenBack /\ At("unwind", IF outcome = "ok" THEN "render" ELSE "over")
    /\ Quiet /\ UNCHANGED <<outcome, sessionVars>>

FinalRender ==
    /\ At("render", IF opts.pdf THEN "convert" ELSE "over")
    /\ final' = TRUE
    /\ UNCHANGED <<tunnelVars, opts, cleared, written, pdf, outcome, sessionVars>>

\* The disk is full: the last incremental report stays.
FinalRenderRaises ==
    /\ "disk" \in Faults /\ At("render", "over")
    /\ outcome' = "error"
    /\ Quiet /\ UNCHANGED sessionVars

\* A PdfConversionError (no pandoc, pandoc fails) is remarked on.
ConvertToPdf ==
    /\ At("convert", "over")
    /\ pdf' \in BOOLEAN
    /\ UNCHANGED <<tunnelVars, opts, cleared, written, final, outcome, sessionVars>>

\* What pandoc says cannot be decoded, whether it has made the PDF or not; or
\* the remark, which prints it as markup, has a closing tag too many.
ConversionRaises ==
    /\ "pandoc" \in Faults /\ At("convert", "over")
    /\ pdf' \in BOOLEAN /\ outcome' = "error"
    /\ UNCHANGED <<tunnelVars, opts, cleared, written, final, sessionVars>>

-----------------------------------------------------------------------------
Prompting == pc \in {"path", "tunnel config", "login", "access", "replica", "sign off", "authorizer"}

\* Ctrl-C, or EOF at one of the prompts that do not handle it.  The terminal
\* sends Ctrl-C to ssh as well, which ends it.
Interrupt ==
    /\ "interrupt" \in Faults /\ pc \notin {"unwind", "over"}
    /\ pc' = "unwind" /\ outcome' = "error"
    /\ \/ Tunnel!SshStops
       \/ Prompting /\ UNCHANGED <<ssh, holder>>
    /\ IF pc = "open tunnel" THEN wait' = "failed" /\ cause' = "interrupt" ELSE UNCHANGED <<wait, cause>>
    /\ UNCHANGED <<opts, cleared, written, final, pdf, attempt, port, polls, sessionVars>>

\* While the person at a preflight prompt thinks, the transaction is idle.
IdleTimeout ==
    /\ "idle" \in Faults /\ Prompting /\ IdleInTransactionTimeout
    /\ UNCHANGED <<cliVars, tunnelVars>>

\* The server goes away, or the ssh that carries the connection has.
ConnectionDrops ==
    /\ "session" \in Faults \/ (opts.ssh /\ holder[port] = "free")
    /\ SessionLost
    /\ UNCHANGED <<cliVars, tunnelVars>>

\* ssh, which works on its own.
Ssh ==
    /\ Tunnel!SshForwards \/ Tunnel!SshFails
    /\ UNCHANGED <<cliVars, sessionVars>>

\* Other processes matter while the tunnel's port is being won or lost.
Machine ==
    /\ pc = "open tunnel"
    /\ Tunnel!OtherListens \/ Tunnel!OtherStops
    /\ UNCHANGED <<cliVars, sessionVars>>

Run ==
    \/ ChoosePath \/ ChooseTransport \/ PromptForTunnel \/ OpenTunnel \/ PromptForLogin
    \/ ConnectReadOnly \/ BeginPreflight \/ AskVersions \/ ConfirmAccess \/ ConfirmReplica
    \/ SignOff \/ NameAuthorizer \/ AuditCategory \/ AuditReturns \/ AuditRaises
    \/ CloseConnection \/ TerminateTunnel \/ Unwound
    \/ FinalRender \/ FinalRenderRaises \/ ConvertToPdf \/ ConversionRaises

Over == pc = "over" /\ UNCHANGED vars

Next == Run \/ Interrupt \/ IdleTimeout \/ ConnectionDrops \/ Ssh \/ Machine \/ Over

Spec == Init /\ [][Next]_vars

\* The command keeps running, and the person answers.
FairSpec == Spec /\ WF_vars(Run)

-----------------------------------------------------------------------------
\* Every variable has its type.
TypeOK ==
    /\ opts \in Options
    /\ pc \in {"path", "transport", "tunnel config", "open tunnel", "login", "connect",
               "connected", "versions", "access", "replica", "sign off", "authorizer", "audit",
               "unwind", "render", "convert", "over"}
    /\ cleared \in {"no", "replica", "signed", "unnamed"}
    /\ written \in 0..Categories
    /\ final \in BOOLEAN /\ pdf \in BOOLEAN
    /\ outcome \in {"none", "ok", "exit", "error"}
    /\ SessionType /\ Tunnel!TypeOK

\* The client's systems are let go before anything is rendered, converted or
\* waited for afterwards, however the audit ended: no connection and no ssh
\* outlives the with statement (cli.py:432), but for an ssh whose probe raised;
\* and a connection made through a tunnel is closed before the tunnel is.
NothingStaysOpen ==
    /\ pc \in {"render", "convert", "over"} => GivenBack /\ (Tunnel!Alive => cause = "oserror")
    /\ opts.ssh /\ sess \in {"live", "lost"} => wait = "open"

\* An interactive run that was not excused from preflight audits nothing
\* unless a replica or a sign-off was confirmed, by name or not (cli.py:300-320).
StopConditionHolds ==
    (pc = "audit" \/ written > 0) /\ opts.preflight /\ opts.interactive => cleared # "no"

\* Who sees exit status 0 has the final report of a whole audit, and a PDF is
\* only ever made of such a report.
SuccessIsComplete ==
    /\ pc = "over" /\ outcome = "ok" => final /\ written = Categories
    /\ final \/ pdf => written = Categories
    /\ pdf => final

\* The command comes to an end, with everything given back.
Ends == <>(pc = "over" /\ GivenBack)

-----------------------------------------------------------------------------
(* What the docs say and the code does not do: none of these holds.        *)

\* attestation.py:10: a prompt "must never be called while a database
\* transaction is open".
NeverPromptInTransaction ==
    pc \in {"access", "replica", "sign off", "authorizer"} => ~(sess = "live" /\ tx # "idle")

\* cli.py:270-271, the STOP CONDITION: "requiring explicit sign-off (and a named
\* authorizer, for traceability) before proceeding".
SignOffIsNamed == pc = "audit" \/ written > 0 => cleared # "unnamed"

\* pdf_export.py:7-11: failures to convert "are treated the same way by callers",
\* who "continue with the Markdown report alone".
PdfFailureIsGraceful == [][pc = "convert" /\ pc' = "over" => outcome' = "ok"]_vars

\* The two claims about the tunnel, as SshTunnel states them.
AlwaysTerminated == Tunnel!AlwaysTerminated
LostRaceIsDetected == Tunnel!LostRaceIsDetected
=============================================================================
