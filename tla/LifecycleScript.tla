-------------------------- MODULE LifecycleScript --------------------------
(***************************************************************************)
(* bin/fluss-gateway.sh: start, stop and restart over the PID file and the *)
(* processes of the machine, for people who may run it at the same time,   *)
(* and gateways that drain, crash and leave their PID to other programs.   *)
(*                                                                         *)
(* One action per access of the script to the file or to a process.  Time  *)
(* is left out: the wait for a process may reach its end at any moment.    *)
(* status changes nothing.  What /health answers decides nothing, but the  *)
(* script may wait for it for ever.  All run as one user, or as root, so   *)
(* that kill -0 sees every process.                                        *)
(***************************************************************************)
EXTENDS Naturals, Sequences

CONSTANTS
    Users,          \* who may run the script, one invocation at a time each
    MaxInvocations  \* bound: invocations in all

ASSUME BoundAssumption == MaxInvocations \in Nat

VARIABLES
    proc,       \* by PID: "running" or "draining" gateways, "other", "dead"
    pidFile,    \* the PID in the file, 0 without a file
    cmd,        \* the command each user runs
    fn,         \* the function it is in: do_start or do_stop
    at,         \* its next step there, or how it ended
    pid,        \* its local variable of that name, 0 for empty
    begun,      \* invocations so far
    disturbed   \* history: two invocations overlapped or one was interrupted

script == <<cmd, fn, at, pid>>
vars == <<proc, pidFile, cmd, fn, at, pid, begun, disturbed>>

Ended == {"idle", "ok", "failed"}
Steps == {"check", "read", "probe", "term", "wait", "kill", "remove",
          "spawn", "record", "health"}
Pids  == 1..Len(proc)

TypeOK ==
    /\ proc \in Seq({"running", "draining", "other", "dead"})
    /\ pidFile \in 0..Len(proc)
    /\ cmd \in [Users -> {"start", "stop", "restart"}]
    /\ fn \in [Users -> {"start", "stop"}]
    /\ at \in [Users -> Ended \cup Steps]
    /\ pid \in [Users -> 0..Len(proc)]
    /\ begun \in 0..MaxInvocations
    /\ disturbed \in BOOLEAN

Init ==
    /\ proc = <<>>
    /\ pidFile = 0
    /\ cmd = [u \in Users |-> "start"]
    /\ fn = [u \in Users |-> "start"]
    /\ at = [u \in Users |-> "idle"]
    /\ pid = [u \in Users |-> 0]
    /\ begun = 0
    /\ disturbed = FALSE

Gateways == {p \in Pids : proc[p] \in {"running", "draining"}}

\* kill -0, which fails for an empty PID too.
IsAlive(p) == p \in Pids /\ proc[p] # "dead"

Busy(u) == at[u] \notin Ended

\* do_restart runs do_stop as `do_stop || true`, which suspends set -e: a
\* command that fails does not end the script, while die still does.
Tolerant(u) == cmd[u] = "restart" /\ fn[u] = "stop"

Goto(u, there) == at' = [at EXCEPT ![u] = there]

-----------------------------------------------------------------------------
(***************************************************************************)
(* The script                                                              *)
(***************************************************************************)

Begin(u, c) ==
    /\ ~Busy(u)
    /\ begun < MaxInvocations
    /\ begun' = begun + 1
    /\ cmd' = [cmd EXCEPT ![u] = c]
    /\ fn' = [fn EXCEPT ![u] = IF c = "start" THEN "start" ELSE "stop"]
    /\ Goto(u, "check")
    /\ pid' = [pid EXCEPT ![u] = 0]
    /\ disturbed' = (disturbed \/ \E v \in Users : Busy(v))
    /\ UNCHANGED <<proc, pidFile>>

\* Does the PID file exist?  Without one there is nothing to stop, and die
\* ends the script, be it a restart.
Check(u) ==
    /\ at[u] = "check"
    /\ Goto(u, IF pidFile # 0 THEN "read" ELSE IF fn[u] = "start" THEN "spawn" ELSE "failed")
    /\ UNCHANGED <<proc, pidFile, cmd, fn, pid, begun, disturbed>>

\* cat of the PID file, which may be gone by now.
Read(u) ==
    /\ at[u] = "read"
    /\ pid' = [pid EXCEPT ![u] = pidFile]
    /\ Goto(u, IF pidFile # 0 \/ Tolerant(u) THEN "probe" ELSE "failed")
    /\ UNCHANGED <<proc, pidFile, cmd, fn, begun, disturbed>>

\* Mutated: a PID file is taken to be stale without asking for its process.
ProbeStale(u) ==
    /\ at[u] = "probe"
    /\ Goto(u, "remove")
    /\ UNCHANGED <<proc, pidFile, cmd, fn, pid, begun, disturbed>>

\* Is that process alive?  If so there is nothing to start; if not, nothing
\* to stop, and the file is stale.
Probe(u) ==
    /\ at[u] = "probe"
    /\ Goto(u, IF ~IsAlive(pid[u]) THEN "remove" ELSE IF fn[u] = "stop" THEN "term" ELSE "failed")
    /\ UNCHANGED <<proc, pidFile, cmd, fn, pid, begun, disturbed>>

\* kill -TERM: a gateway drains; another program may do anything.
Term(u) ==
    /\ at[u] = "term"
    /\ Goto(u, IF IsAlive(pid[u]) \/ Tolerant(u) THEN "wait" ELSE "failed")
    /\ proc' = [p \in Pids |-> IF p = pid[u] /\ p \in Gateways THEN "draining" ELSE proc[p]]
    /\ UNCHANGED <<pidFile, cmd, fn, pid, begun, disturbed>>

\* The process has exited in time.
Wait(u) ==
    /\ at[u] = "wait"
    /\ ~IsAlive(pid[u])
    /\ Goto(u, "remove")
    /\ UNCHANGED <<proc, pidFile, cmd, fn, pid, begun, disturbed>>

\* Mutated: waits for as long as the process takes.
WaitTimesOutNever(u) == FALSE /\ UNCHANGED vars

\* 15 seconds are over and the process is still there.
WaitTimesOut(u) ==
    /\ at[u] = "wait"
    /\ IsAlive(pid[u])
    /\ Goto(u, "kill")
    /\ UNCHANGED <<proc, pidFile, cmd, fn, pid, begun, disturbed>>

\* Mutated: SIGKILL goes to whatever process the PID file names by now.
KillListed(u) ==
    /\ at[u] = "kill"
    /\ Goto(u, "remove")
    /\ proc' = [p \in Pids |-> IF p = pidFile THEN "dead" ELSE proc[p]]
    /\ UNCHANGED <<pidFile, cmd, fn, pid, begun, disturbed>>

\* kill -9, which may come too late.
Kill(u) ==
    /\ at[u] = "kill"
    /\ Goto(u, "remove")
    /\ proc' = [p \in Pids |-> IF p = pid[u] THEN "dead" ELSE proc[p]]
    /\ UNCHANGED <<pidFile, cmd, fn, pid, begun, disturbed>>

\* rm -f of the PID file, whatever it names by now; do_stop is done.
Remove(u) ==
    /\ at[u] = "remove"
    /\ pidFile' = 0
    /\ Goto(u, IF fn[u] = "start" THEN "spawn" ELSE IF cmd[u] = "restart" THEN "check" ELSE "ok")
    /\ fn' = [fn EXCEPT ![u] = IF cmd[u] = "restart" THEN "start" ELSE @]
    /\ UNCHANGED <<proc, cmd, pid, begun, disturbed>>

\* nohup fluss-gateway serve &
Spawn(u) ==
    /\ at[u] = "spawn"
    /\ proc' = Append(proc, "running")
    /\ pid' = [pid EXCEPT ![u] = Len(proc')]
    /\ Goto(u, "record")
    /\ UNCHANGED <<pidFile, cmd, fn, begun, disturbed>>

\* Mutated: the PID of a process beside the gateway is written.
RecordNext(u) ==
    /\ at[u] = "record"
    /\ pidFile' = pid[u] + 1
    /\ Goto(u, "health")
    /\ UNCHANGED <<proc, cmd, fn, pid, begun, disturbed>>

\* echo of its PID to the PID file.
Record(u) ==
    /\ at[u] = "record"
    /\ pidFile' = pid[u]
    /\ Goto(u, "health")
    /\ UNCHANGED <<proc, cmd, fn, pid, begun, disturbed>>

\* wait_for_health: the start is reported, also when HEALTH_TIMEOUT tries have
\* failed.  But a listener that accepts a try and never answers it keeps curl,
\* which has no --max-time, waiting.
Health(u) ==
    /\ at[u] = "health"
    /\ Goto(u, "ok")
    /\ UNCHANGED <<proc, pidFile, cmd, fn, pid, begun, disturbed>>

\* The user interrupts the script.
Interrupt(u) ==
    /\ Busy(u)
    /\ Goto(u, "failed")
    /\ disturbed' = TRUE
    /\ UNCHANGED <<proc, pidFile, cmd, fn, pid, begun>>

-----------------------------------------------------------------------------
(***************************************************************************)
(* The processes                                                           *)
(***************************************************************************)

\* A process ends: drained, crashed, or for reasons of its own.
Exit(p) ==
    /\ IsAlive(p)
    /\ proc' = [proc EXCEPT ![p] = "dead"]
    /\ UNCHANGED <<script, pidFile, begun, disturbed>>

\* The PID of a process that is gone is given to another program.
Reuse(p) ==
    /\ ~IsAlive(p)
    /\ proc' = [proc EXCEPT ![p] = "other"]
    /\ UNCHANGED <<script, pidFile, begun, disturbed>>

-----------------------------------------------------------------------------
Step(u) ==
    \/ Check(u) \/ Read(u) \/ Probe(u) \/ Term(u) \/ Wait(u) \/ WaitTimesOut(u)
    \/ Kill(u) \/ Remove(u) \/ Spawn(u) \/ Record(u) \/ Health(u)

Next ==
    \/ \E u \in Users :
          \/ \E c \in {"start", "stop", "restart"} : Begin(u, c)
          \/ Step(u)
          \/ Interrupt(u)
    \/ \E p \in Pids : Exit(p) \/ Reuse(p)

Spec == Init /\ [][Next]_vars

\* An invocation goes on; nothing obliges a process to end, or to answer.
FairSpec == Spec /\ \A u \in Users : WF_vars(Step(u) /\ at[u] # "health")

-----------------------------------------------------------------------------
(***************************************************************************)
(* What the script guarantees                                              *)
(***************************************************************************)

\* As long as invocations neither overlap nor are interrupted, every gateway
\* that runs is the one in the PID file, or is about to be written there: the
\* script never loses a gateway nor starts a second, however gateways crash
\* and whoever gets their PIDs.
NoStrayGateway ==
    ~disturbed =>
        \A p \in Gateways :
            pidFile = p \/ \E u \in Users : at[u] = "record" /\ pid[u] = p

\* A stop that succeeds has ended the gateway it found in the PID file, also
\* when others start and stop gateways and rewrite the file meanwhile.
StopMeansStopped ==
    \A u \in Users : cmd[u] = "stop" /\ at[u] = "ok" => pid[u] \notin Gateways

\* Every invocation ends, or has come to the health check of the gateway that
\* it started: the gateway that it stops cannot keep it, though it never exits.
InvocationEnds == \A u \in Users : at[u] = "check" ~> ~Busy(u) \/ at[u] = "health"

-----------------------------------------------------------------------------
(***************************************************************************)
(* What the documentation says and the code does not do                    *)
(***************************************************************************)

\* fluss-gateway.sh:246, "restart  Stop and start the gateway": a restart that
\* nobody disturbs does not fail before it has come to the start.
RestartStarts ==
    \A u \in Users :
        cmd[u] = "restart" /\ ~disturbed /\ at[u] = "failed" => fn[u] = "start"
=============================================================================
