----------------------------- MODULE SshTunnel -----------------------------
(***************************************************************************)
(* open_tunnel (ssh_tunnel.py): allocate a free local port, start ssh -L   *)
(* on it, poll until something listens there, and retry with a new port    *)
(* when the port was lost to another process in between.                   *)
(*                                                                         *)
(* Three parties: the tool, the ssh process it started (external), and     *)
(* other processes of the machine that listen on ports (external).  The    *)
(* connect timeout is a number of polls.  Cli runs these actions inside    *)
(* the command that opens the tunnel.                                      *)
(***************************************************************************)
EXTENDS Naturals

CONSTANTS
    Ports,          \* local ports
    MaxAttempts,    \* _MAX_TUNNEL_ATTEMPTS
    MaxPolls,       \* connect_timeout / 0.2 s
    Faults          \* "ssh" (login fails, connection drops), "oserror" (probing raises)

VARIABLES
    pc,         \* "allocate", "spawn", "poll", "probe", "repoll", "open", "closed", "failed"
    attempt,    \* the loop variable of open_tunnel
    port,       \* local_port
    polls,      \* how many turns the wait loop has made
    ssh,        \* "none", "connecting", "listening", "conflict", "exited", "terminated"
    holder,     \* [Ports -> "free", "ssh" or "other": who listens]
    cause       \* why open_tunnel raised

vars == <<pc, attempt, port, polls, ssh, holder, cause>>

Alive == ssh \in {"connecting", "listening"}

Init ==
    /\ pc = "allocate" /\ attempt = 1 /\ port \in Ports /\ polls = 0
    /\ ssh = "none" /\ cause = "none"
    /\ holder \in [Ports -> {"free", "other"}] /\ \E p \in Ports : holder[p] = "free"

\* ssh stops listening when it stops running.
Without(h) == [p \in Ports |-> IF h[p] = "ssh" THEN "free" ELSE h[p]]

Raise(why) == pc' = "failed" /\ cause' = why

\* process.terminate(), wait, kill.
Terminate ==
    /\ ssh' = IF Alive THEN "terminated" ELSE ssh
    /\ holder' = Without(holder)

-----------------------------------------------------------------------------
(* _attempt_open_tunnel.                                                   *)

FindFreeLocalPort ==
    /\ pc = "allocate"
    /\ port' \in {p \in Ports : holder[p] = "free"}
    /\ pc' = "spawn"
    /\ UNCHANGED <<attempt, polls, ssh, holder, cause>>

Spawn ==
    /\ pc = "spawn"
    /\ ssh' = "connecting" /\ polls' = 0
    /\ pc' = "poll"
    /\ UNCHANGED <<attempt, port, holder, cause>>

\* Mutation: a lost race is retried without end.
LostRaceUnbounded == pc' = "allocate" /\ attempt' = 1 /\ UNCHANGED cause

\* open_tunnel catches a lost race, unless it was the last attempt's.
LostRace ==
    IF attempt = MaxAttempts
    THEN Raise("lost race") /\ UNCHANGED attempt
    ELSE pc' = "allocate" /\ attempt' = attempt + 1 /\ UNCHANGED cause

PollExited ==
    /\ pc = "poll" /\ polls < MaxPolls /\ ~Alive
    /\ IF ssh = "conflict" THEN LostRace ELSE Raise("ssh") /\ UNCHANGED attempt
    /\ UNCHANGED <<port, polls, ssh, holder>>

PollRunning ==
    /\ pc = "poll" /\ polls < MaxPolls /\ Alive
    /\ pc' = "probe"
    /\ UNCHANGED <<attempt, port, polls, ssh, holder, cause>>

\* _port_is_open: anybody's listener will do.
Probe ==
    /\ pc = "probe"
    /\ IF holder[port] # "free"
       THEN pc' = "repoll" /\ UNCHANGED polls
       ELSE pc' = "poll" /\ polls' = polls + 1
    /\ UNCHANGED <<attempt, port, ssh, holder, cause>>

RepollExited ==
    /\ pc = "repoll" /\ ~Alive
    /\ LostRace
    /\ UNCHANGED <<port, polls, ssh, holder>>

RepollRunning ==
    /\ pc = "repoll" /\ Alive
    /\ pc' = "open"
    /\ UNCHANGED <<attempt, port, polls, ssh, holder, cause>>

\* Mutation: a timeout raises and leaves ssh running.
TimedOutLeaks ==
    /\ pc = "poll" /\ polls = MaxPolls
    /\ Raise("timeout")
    /\ UNCHANGED <<attempt, port, polls, ssh, holder>>

TimedOut ==
    /\ pc = "poll" /\ polls = MaxPolls
    /\ Terminate /\ Raise("timeout")
    /\ UNCHANGED <<attempt, port, polls>>

\* The probing socket cannot be created: nothing between Popen and the return
\* of _attempt_open_tunnel handles that.
ProbeRaises ==
    /\ "oserror" \in Faults /\ pc = "probe"
    /\ Raise("oserror")
    /\ UNCHANGED <<attempt, port, polls, ssh, holder>>

\* The body of the with statement ends, in whatever way.
CloseTunnel ==
    /\ pc = "open"
    /\ Terminate
    /\ pc' = "closed"
    /\ UNCHANGED <<attempt, port, polls, cause>>

-----------------------------------------------------------------------------
(* ssh and the other processes.                                            *)

\* ssh binds the port after it has logged in (ExitOnForwardFailure=yes).
SshForwards ==
    /\ ssh = "connecting"
    /\ IF holder[port] = "free"
       THEN ssh' = "listening" /\ holder' = [holder EXCEPT ![port] = "ssh"]
       ELSE ssh' = "conflict" /\ UNCHANGED holder
    /\ UNCHANGED <<pc, attempt, port, polls, cause>>

\* ssh has ended, and with it what it listened on.
SshStops ==
    /\ ssh' = IF Alive THEN "exited" ELSE ssh
    /\ holder' = Without(holder)

SshFails ==
    /\ "ssh" \in Faults /\ Alive
    /\ SshStops
    /\ UNCHANGED <<pc, attempt, port, polls, cause>>

\* The machine never runs out of ports altogether.
OtherListens ==
    /\ \E p \in Ports :
          /\ holder[p] = "free" /\ \E q \in Ports \ {p} : holder[q] # "other"
          /\ holder' = [holder EXCEPT ![p] = "other"]
    /\ UNCHANGED <<pc, attempt, port, polls, ssh, cause>>

OtherStops ==
    /\ \E p \in Ports : holder[p] = "other" /\ holder' = [holder EXCEPT ![p] = "free"]
    /\ UNCHANGED <<pc, attempt, port, polls, ssh, cause>>

-----------------------------------------------------------------------------
Opening ==
    \/ FindFreeLocalPort \/ Spawn \/ PollExited \/ PollRunning \/ Probe
    \/ RepollExited \/ RepollRunning \/ TimedOut \/ ProbeRaises

-----------------------------------------------------------------------------
\* Every variable has its type.
TypeOK ==
    /\ pc \in {"allocate", "spawn", "poll", "probe", "repoll", "open", "closed", "failed"}
    /\ attempt \in 1..MaxAttempts /\ polls \in 0..MaxPolls
    /\ port \in Ports
    /\ ssh \in {"none", "connecting", "listening", "conflict", "exited", "terminated"}
    /\ holder \in [Ports -> {"free", "ssh", "other"}]
    /\ cause \in {"none", "lost race", "ssh", "timeout", "oserror", "interrupt"}

-----------------------------------------------------------------------------
(* What the docs say and the code does not do: none of these holds.        *)

\* ssh_tunnel.py:194: ssh is "always terminated on exit, success or error",
\* a probe that raised included.
AlwaysTerminated == pc \in {"closed", "failed"} => ~Alive

\* ssh_tunnel.py:202: when another process claims the port, the lost race "is
\* detected": open_tunnel never yields a port that another process holds.
LostRaceIsDetected == [][pc # "open" /\ pc' = "open" => holder[port] # "other"]_vars
=============================================================================
