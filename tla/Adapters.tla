------------------------------ MODULE Adapters ------------------------------
(***************************************************************************)
(* The adapters of pkg/adapter: a server kept as a child process           *)
(* (StdioAdapter), as a container (DockerAdapter) or known by its URL only *)
(* (HTTPAdapter).  Goroutines (Callers) call their Start, Stop and         *)
(* HealthCheck, several at a time; every SetState is a step, because the   *)
(* state has a lock of its own and the calls interleave around it.         *)
(*                                                                         *)
(* External: processes, which may die at any moment and are reaped by Wait *)
(* only; the docker command, which may fail at any point of what it does   *)
(* or never return; containers, which nobody else touches.                 *)
(***************************************************************************)
EXTENDS Naturals, FiniteSets

CONSTANTS
    Callers,      \* goroutines
    Cancellable,  \* the callers whose context may end
    Stdio, Docker, HTTP,
    Probed,       \* the Docker adapters configured with a health endpoint
    Procs,        \* the processes ever started: a bound
    None

Adapters == Stdio \cup Docker \cup HTTP

ASSUME CallersAssumption  == Cancellable \subseteq Callers
ASSUME AdaptersAssumption ==
    /\ Stdio \cap Docker = {} /\ Stdio \cap HTTP = {} /\ Docker \cap HTTP = {}
    /\ Probed \subseteq Docker
ASSUME NoneAssumption == None \notin Adapters \cup Procs

VARIABLES
    state,        \* BaseAdapter.state
    serverCfg,    \* BaseAdapter.ServerCfg: is there a command, is there a URL
    cmd,          \* the process of a StdioAdapter's cmd, if it has one
    proc,         \* "new", "live", "killed", "exited" and not waited for, "reaped"
    cmdMu,        \* the caller that holds cmdMu across a step
    containerID,  \* whether containerID is set
    container,    \* the one of a DockerAdapter's name: "absent" or "present", running or not
    pc,           \* pc[c]: where a caller is
    on,           \* on[c]: the adapter whose method it is in
    err,          \* err[c]: the error of that method, once it has failed
    ctxDone,      \* the callers whose context has ended
    raced         \* history: adapters whose Start overlapped a Start or Stop

adapterVars == <<state, serverCfg, cmd, proc, cmdMu, containerID, container>>
callVars    == <<pc, on, err>>
vars == <<adapterVars, callVars, ctxDone, raced>>

States == {"idle", "starting", "running", "stopping", "stopped", "error"}
InStart == {"exec", "docker run", "set id", "started", "failed"}
InStop  == {"kill", "wait", "docker rm", "removed", "not removed"}
Labels  == {"idle", "Lock", "Get", "snapshot", "loop", "HealthCheck", "returned", "done"}
           \cup InStart \cup InStop

Init ==
    /\ state = [a \in Adapters |-> "idle"]
    /\ serverCfg = [a \in Adapters |-> None]
    /\ cmd = [a \in Stdio |-> None] /\ cmdMu = [a \in Stdio |-> None]
    /\ proc = [p \in Procs |-> "new"]
    /\ containerID = [a \in Docker |-> FALSE]
    /\ container = [a \in Docker |-> "absent"]
    /\ pc = [c \in Callers |-> "idle"]
    /\ on = [c \in Callers |-> None]
    /\ err = [c \in Callers |-> None]
    /\ ctxDone = {} /\ raced = {}

Starting(c, a) == on[c] = a /\ pc[c] \in InStart
Stopping(c, a) == on[c] = a /\ pc[c] \in InStop
Busy(a) == \E c \in Callers : Starting(c, a) \/ Stopping(c, a)

At(c, label, kind) == pc[c] = label /\ on[c] \in kind
Goto(c, label) == pc' = [pc EXCEPT ![c] = label] /\ UNCHANGED <<on, err>>
Fails(c, label, why) ==
    /\ pc' = [pc EXCEPT ![c] = label]
    /\ err' = [err EXCEPT ![c] = why]
    /\ UNCHANGED on
SetState(a, s) == state' = [state EXCEPT ![a] = s]
Keeps(vs) == UNCHANGED <<vs, ctxDone, raced>>

-----------------------------------------------------------------------------
(* A caller enters a method, up to its first SetState.                       *)

Enter(c, a, label) ==
    /\ pc' = [pc EXCEPT ![c] = label]
    /\ on' = [on EXCEPT ![c] = a]
    /\ err' = [err EXCEPT ![c] = None]
    /\ UNCHANGED <<serverCfg, cmd, proc, cmdMu, containerID, container, ctxDone>>

Race(c, a, overlap(_)) ==
    raced' = IF \E d \in Callers \ {c} : overlap(d) THEN raced \cup {a} ELSE raced

Start(c, a) ==
    /\ \/ a \in Stdio  /\ Enter(c, a, "exec")       /\ SetState(a, "starting")
       \/ a \in Docker /\ Enter(c, a, "docker run") /\ SetState(a, "starting")
       \/ a \in HTTP   /\ Enter(c, a, "returned")   /\ SetState(a, "running")
    /\ Race(c, a, LAMBDA d : Starting(d, a) \/ Stopping(d, a))

(* Stop of a container that was never started does not call docker.          *)
Stop(c, a) ==
    /\ \/ a \in Stdio  /\ Enter(c, a, "kill")     /\ SetState(a, "stopping")
       \/ a \in Docker /\ containerID[a]  /\ Enter(c, a, "docker rm") /\ SetState(a, "stopping")
       \/ a \in Docker /\ ~containerID[a] /\ Enter(c, a, "removed") /\ UNCHANGED state
       \/ a \in HTTP   /\ Enter(c, a, "returned") /\ SetState(a, "stopped")
    /\ Race(c, a, LAMBDA d : Starting(d, a))

HealthCheck(c, a) ==
    Enter(c, a, "HealthCheck") /\ UNCHANGED <<state, raced>>

-----------------------------------------------------------------------------
(* The rest of Start.                                                        *)

(* cmd is replaced before it is started, whatever the old one runs.          *)
Exec(c) ==
    /\ At(c, "exec", Stdio) /\ cmdMu[on[c]] = None
    /\ c \notin ctxDone /\ serverCfg[on[c]].command
    /\ \E p \in Procs : proc[p] = "new"
    /\ LET p == CHOOSE q \in Procs : proc[q] = "new" IN
         /\ proc' = [proc EXCEPT ![p] = "live"]
         /\ cmd' = [cmd EXCEPT ![on[c]] = p]
    /\ Goto(c, "started")
    /\ Keeps(<<state, serverCfg, cmdMu, containerID, container>>)

(* Mutant: the error path does not unlock.                                   *)
ExecFailsLocked(c) ==
    /\ At(c, "exec", Stdio) /\ cmdMu[on[c]] = None
    /\ cmd' = [cmd EXCEPT ![on[c]] = None]
    /\ cmdMu' = [cmdMu EXCEPT ![on[c]] = c]
    /\ Fails(c, "failed", IF serverCfg[on[c]].command THEN "system" ELSE "no command")
    /\ Keeps(<<state, serverCfg, proc, containerID, container>>)

ExecFails(c) ==
    /\ At(c, "exec", Stdio) /\ cmdMu[on[c]] = None
    /\ cmd' = [cmd EXCEPT ![on[c]] = None]
    /\ Fails(c, "failed", IF serverCfg[on[c]].command THEN "system" ELSE "no command")
    /\ Keeps(<<state, serverCfg, proc, cmdMu, containerID, container>>)

(* docker run fails when the name is taken, and may fail before or after it  *)
(* has created the container, or even started it.                            *)
DockerRun(c) ==
    /\ At(c, "docker run", Docker)
    /\ c \notin ctxDone /\ container[on[c]] = "absent"
    /\ container' = [container EXCEPT ![on[c]] = "present"]
    /\ Goto(c, "set id")
    /\ Keeps(<<state, serverCfg, cmd, proc, cmdMu, containerID>>)

(* Mutant: the error is not looked at.                                       *)
DockerRunFailsUnseen(c) ==
    /\ At(c, "docker run", Docker)
    /\ Goto(c, "set id")
    /\ Keeps(<<state, serverCfg, cmd, proc, cmdMu, containerID, container>>)

DockerRunFails(c) ==
    /\ At(c, "docker run", Docker)
    /\ \/ UNCHANGED container
       \/ /\ c \notin ctxDone /\ container[on[c]] = "absent"
          /\ container' = [container EXCEPT ![on[c]] = "present"]
    /\ Fails(c, "failed", "system")
    /\ Keeps(<<state, serverCfg, cmd, proc, cmdMu, containerID>>)

SetContainerID(c) ==
    /\ At(c, "set id", Docker)
    /\ containerID' = [containerID EXCEPT ![on[c]] = TRUE]
    /\ Goto(c, "started")
    /\ Keeps(<<state, serverCfg, cmd, proc, cmdMu, container>>)

Started(c) ==
    /\ pc[c] = "started" /\ SetState(on[c], "running") /\ Goto(c, "returned")
    /\ Keeps(<<serverCfg, cmd, proc, cmdMu, containerID, container>>)

StartFailed(c) ==
    /\ pc[c] = "failed" /\ SetState(on[c], "error") /\ Goto(c, "returned")
    /\ Keeps(<<serverCfg, cmd, proc, cmdMu, containerID, container>>)

-----------------------------------------------------------------------------
(* The rest of Stop.                                                         *)

(* Mutant: Stop does not wait for what it has killed.                        *)
KillOnly(c) ==
    LET a == on[c]  p == cmd[a] IN
    /\ At(c, "kill", Stdio) /\ cmdMu[a] = None
    /\ p # None /\ proc[p] # "reaped"
    /\ proc' = IF proc[p] = "live" THEN [proc EXCEPT ![p] = "killed"] ELSE proc
    /\ SetState(a, "stopped") /\ Goto(c, "returned")
    /\ Keeps(<<serverCfg, cmd, cmdMu, containerID, container>>)

(* Kill fails on a process that has been waited for.                         *)
Kill(c) ==
    LET a == on[c]  p == cmd[a] IN
    /\ At(c, "kill", Stdio) /\ cmdMu[a] = None
    /\ p # None /\ proc[p] # "reaped"
    /\ proc' = IF proc[p] = "live" THEN [proc EXCEPT ![p] = "killed"] ELSE proc
    /\ cmdMu' = [cmdMu EXCEPT ![a] = c]
    /\ Goto(c, "wait")
    /\ Keeps(<<state, serverCfg, cmd, containerID, container>>)

NothingToKill(c) ==
    LET a == on[c] IN
    /\ At(c, "kill", Stdio) /\ cmdMu[a] = None
    /\ \/ cmd[a] = None /\ SetState(a, "stopped") /\ Goto(c, "returned")
       \/ /\ cmd[a] # None /\ proc[cmd[a]] = "reaped"
          /\ SetState(a, "error") /\ Fails(c, "returned", "system")
    /\ Keeps(<<serverCfg, cmd, proc, cmdMu, containerID, container>>)

(* cmdMu is held until the process has been waited for and the state is set. *)
Wait(c) ==
    LET a == on[c] IN
    /\ At(c, "wait", Stdio) /\ proc[cmd[a]] = "exited"
    /\ proc' = [proc EXCEPT ![cmd[a]] = "reaped"]
    /\ cmdMu' = [cmdMu EXCEPT ![a] = None]
    /\ SetState(a, "stopped") /\ Goto(c, "returned")
    /\ Keeps(<<serverCfg, cmd, containerID, container>>)

(* "No such container" is as good as a removal.                              *)
DockerRm(c) ==
    /\ At(c, "docker rm", Docker) /\ c \notin ctxDone
    /\ container' = [container EXCEPT ![on[c]] = "absent"]
    /\ Goto(c, "removed")
    /\ Keeps(<<state, serverCfg, cmd, proc, cmdMu, containerID>>)

DockerRmFails(c) ==
    /\ At(c, "docker rm", Docker)
    /\ \/ UNCHANGED container
       \/ c \notin ctxDone /\ container' = [container EXCEPT ![on[c]] = "absent"]
    /\ Goto(c, "not removed")
    /\ Keeps(<<state, serverCfg, cmd, proc, cmdMu, containerID>>)

ContainerStopped(c) ==
    /\ \/ pc[c] = "removed" /\ SetState(on[c], "stopped") /\ Goto(c, "returned")
       \/ pc[c] = "not removed" /\ SetState(on[c], "error") /\ Fails(c, "returned", "system")
    /\ Keeps(<<serverCfg, cmd, proc, cmdMu, containerID, container>>)

-----------------------------------------------------------------------------
(* HealthCheck.  The signal a StdioAdapter sends is nil and is refused, so   *)
(* its check fails whether or not there is a process.  A probe of a URL or   *)
(* an endpoint may be answered or not; docker inspect finds a container that *)
(* exists running or, having stopped by itself, not running.                 *)

CheckProcess(c) ==
    /\ At(c, "HealthCheck", Stdio) /\ cmdMu[on[c]] = None
    /\ Fails(c, "returned", "system")
    /\ Keeps(adapterVars)

CheckContainer(c) ==
    /\ At(c, "HealthCheck", Docker)
    /\ \/ Fails(c, "returned", "system")
       \/ /\ c \notin ctxDone /\ (on[c] \in Probed \/ container[on[c]] = "present")
          /\ Goto(c, "returned")
    /\ Keeps(adapterVars)

CheckURL(c) ==
    /\ At(c, "HealthCheck", HTTP)
    /\ IF serverCfg[on[c]].url
       THEN Fails(c, "returned", "system") \/ (c \notin ctxDone /\ Goto(c, "returned"))
       ELSE Fails(c, "returned", "no url")
    /\ Keeps(adapterVars)

-----------------------------------------------------------------------------
(* Processes and contexts.                                                   *)

(* By itself, killed, or because the context it was started with has ended.  *)
Exits(p) ==
    /\ proc[p] \in {"live", "killed"}
    /\ proc' = [proc EXCEPT ![p] = "exited"]
    /\ UNCHANGED <<state, serverCfg, cmd, cmdMu, containerID, container, callVars, ctxDone, raced>>

(* Only where it is about to be looked at: elsewhere nothing depends on it.  *)
Cancel(c) ==
    /\ c \in Cancellable \ ctxDone
    /\ pc[c] \in {"exec", "docker run", "docker rm", "HealthCheck"}
    /\ ctxDone' = ctxDone \cup {c}
    /\ UNCHANGED <<adapterVars, callVars, raced>>

Environment ==
    \/ \E p \in Procs : Exits(p)
    \/ \E c \in Callers : Cancel(c)

(* Everything but the docker command, which may hang.                        *)
LocalStep(c) ==
    \/ Exec(c) \/ ExecFails(c) \/ SetContainerID(c) \/ Started(c) \/ StartFailed(c)
    \/ Kill(c) \/ NothingToKill(c) \/ Wait(c) \/ ContainerStopped(c)
    \/ CheckProcess(c) \/ CheckURL(c)
DockerStep(c) ==
    DockerRun(c) \/ DockerRunFails(c) \/ DockerRm(c) \/ DockerRmFails(c) \/ CheckContainer(c)
=============================================================================
