----------------------------- MODULE Supervision -----------------------------
(***************************************************************************)
(* An application that keeps MCP servers, as the user guide composes it    *)
(* from pkg/config, pkg/adapter and pkg/registry: load a configuration     *)
(* file, validate it, build an adapter for every entry, register them, and *)
(* then start, stop and check them from several goroutines.                *)
(***************************************************************************)
EXTENDS Registry, Sequences

CONSTANTS
    Files,     \* the configuration files
    Deployed,  \* those that are brought up when accepted: a bound
    Entry,     \* Entry[a]: the server or container entry of adapter a
    DockerName \* DockerName[a]: a container entry has no name; the application gives it

INSTANCE Config

(* What the Go types of pkg/config allow; and an adapter has an entry of its *)
(* own, of the transport that its constructor is for.                        *)
ServerConfigs    == [name : Names \cup {None}, transport : Transports,
                     command : BOOLEAN, url : BOOLEAN]
ContainerConfigs == [image : BOOLEAN, port : Int, hostPort : Int]
ASSUME FilesAssumption ==
    \A f \in Files : f.servers \in Seq(ServerConfigs) /\ f.containers \in Seq(ContainerConfigs)
ASSUME EntryAssumption ==
    /\ Entry \in [Adapters -> Nat] /\ DockerName \in [Docker -> Names]
    /\ \A a, b \in Adapters : (a \in Docker <=> b \in Docker) /\ Entry[a] = Entry[b] => a = b
    /\ \A f \in Deployed, a \in Stdio \cup HTTP :
           /\ Entry[a] \in DOMAIN f.servers
           /\ f.servers[Entry[a]].transport = IF a \in Stdio THEN "stdio" ELSE "http"

(* Errors, which None is not one of.                                         *)
Reasons == {"name", "transport", "command", "url", "unknown transport", "image", "port",
            "host port", "read", "format", "parse", "system", "no command", "no url"}
ASSUME VerdictAssumption ==
    None \notin Reasons \cup [list : {"server", "container"}, at : Nat, why : Reasons]

VARIABLES file, phase, verdict

appVars == <<file, phase, verdict>>
allVars == <<vars, regVars, appVars>>

SystemInit == Init /\ RegistryInit /\ file \in Files /\ phase = "load" /\ verdict = None

Decide(e, next) ==
    /\ verdict' = e
    /\ phase' = IF e = None THEN next ELSE "refused"
    /\ UNCHANGED <<vars, regVars, file>>

LoadFromFile == phase = "load" /\ Decide(LoadError(file), "validate")
Validate     == phase = "validate" /\ Decide(FileError(file), "build")

(* NewStdioAdapter, NewHTTPAdapter and NewDockerAdapter.                     *)
ServerCfg(a) ==
    IF a \in Stdio THEN [file.servers[Entry[a]] EXCEPT !.transport = "stdio"]
    ELSE IF a \in HTTP THEN [file.servers[Entry[a]] EXCEPT !.transport = "http"]
    ELSE None
NameOf(a) == IF a \in Docker THEN DockerName[a] ELSE file.servers[Entry[a]].name

(* Registered in the order of the file, servers first: of two entries of one *)
(* name the second is refused.                                               *)
Before(a, b) == IF a \in Docker THEN b \in Docker /\ Entry[a] < Entry[b]
                ELSE b \in Docker \/ Entry[a] < Entry[b]
Build ==
    /\ phase = "build" /\ file \in Deployed
    /\ serverCfg' = [a \in Adapters |-> ServerCfg(a)]
    /\ name' = [a \in Adapters |-> NameOf(a)]
    /\ adapters' = [n \in Names |->
         IF \E a \in Adapters : NameOf(a) = n
         THEN CHOOSE a \in Adapters :
                NameOf(a) = n /\ \A b \in Adapters \ {a} : NameOf(b) = n => Before(a, b)
         ELSE None]
    /\ phase' = "up"
    /\ UNCHANGED <<state, cmd, proc, cmdMu, containerID, container, callVars, ctxDone, raced,
                   readers, useVars, file, verdict>>

Run(c) == phase = "up" /\ (Use(c) \/ Proceed(c) \/ DockerCommand(c)) /\ UNCHANGED appVars
Outside == phase = "up" /\ Environment /\ UNCHANGED <<regVars, appVars>>

Next == LoadFromFile \/ Validate \/ Build \/ Outside \/ \E c \in Callers : Run(c)
Spec == SystemInit /\ [][Next]_allVars

(* A goroutine that has begun goes on, unless it waits for docker; a process *)
(* that has been killed dies.                                                *)
FairSpec ==
    /\ Spec
    /\ \A c \in Callers : WF_allVars(phase = "up" /\ Proceed(c) /\ UNCHANGED appVars)
    /\ \A p \in Procs :
         WF_allVars(proc[p] = "killed" /\ Exits(p) /\ UNCHANGED <<regVars, appVars>>)

-----------------------------------------------------------------------------
(* Properties.                                                               *)

(* Every variable has its type (the maps and histories of the four parts).   *)
AdapterTypes ==
    /\ state \in [Adapters -> States] /\ DOMAIN serverCfg = Adapters
    /\ cmd \in [Stdio -> Procs \cup {None}]
    /\ proc \in [Procs -> {"new", "live", "killed", "exited", "reaped"}]
    /\ cmdMu \in [Stdio -> Callers \cup {None}]
    /\ containerID \in [Docker -> BOOLEAN]
    /\ container \in [Docker -> {"absent", "present"}]
CallTypes ==
    /\ pc \in [Callers -> Labels] /\ on \in [Callers -> Adapters \cup {None}]
    /\ err \in [Callers -> {None, "system", "no command", "no url"}]
    /\ ctxDone \subseteq Callers /\ raced \subseteq Adapters
RegistryTypes ==
    /\ name \in [Adapters -> Names \cup {None}]
    /\ adapters \in [Names -> Adapters \cup {None}]
    /\ \A n \in Names : adapters[n] # None => name[adapters[n]] = n
    /\ readers \subseteq Callers /\ calls \in Nat
    /\ op \in [Callers -> Ops \cup {None}]
    /\ arg \in [Callers -> Adapters \cup Names \cup {None}]
    /\ todo \in [Callers -> SUBSET Adapters] /\ failed \in [Callers -> SUBSET Adapters]
    /\ steady \in [Callers -> SUBSET Adapters]
TypeOK ==
    /\ AdapterTypes /\ CallTypes /\ RegistryTypes
    /\ phase \in {"load", "validate", "build", "up", "refused"}

(* What an adapter was to keep alive is gone: the process it holds waited    *)
(* for (one that a second Start displaced is out of its reach and does not   *)
(* count), its container removed.  A container the adapter has no id of does *)
(* not count either: see the README.                                         *)
Gone(a) ==
    CASE a \in Stdio  -> cmd[a] # None => proc[cmd[a]] = "reaped"
      [] a \in Docker -> containerID[a] => container[a] = "absent"
      [] OTHER        -> TRUE
(* It was launched and has not been done away with.                          *)
Launched(a) ==
    CASE a \in Stdio  -> cmd[a] # None /\ proc[cmd[a]] # "reaped"
      [] a \in Docker -> containerID[a] /\ container[a] # "absent"
      [] OTHER        -> TRUE

(* An adapter at rest in state Stopped has left no process behind, and no    *)
(* container if no Start of it overlapped another call (Stop, adapter.go).   *)
StoppedMeansGone ==
    \A a \in Adapters :
        /\ state[a] = "stopped"
        /\ ~Busy(a)
        /\ a \in Docker => a \notin raced
        => Gone(a)

(* An adapter at rest in state Running has a process or container that it    *)
(* started and can stop, if no Start of it overlapped another call.          *)
RunningMeansLaunched ==
    \A a \in Adapters : state[a] = "running" /\ ~Busy(a) /\ a \notin raced => Launched(a)

(* When StopAll returns, every adapter that was registered throughout and    *)
(* that nobody else was starting is gone, or its failure is reported: one    *)
(* that fails does not keep the others from being stopped ("ensuring all     *)
(* adapters get a chance to shut down").                                     *)
StopAllStops ==
    \A c \in Callers :
        pc[c] = "done" /\ op[c] = "StopAll" => \A a \in steady[c] \ failed[c] : Gone(a)

(* When StartAll returns without an error, every adapter that was registered *)
(* throughout and that nobody else started or stopped is launched.           *)
StartAllStarts ==
    \A c \in Callers :
        pc[c] = "done" /\ op[c] = "StartAll" /\ failed[c] = {} =>
            \A a \in steady[c] : Launched(a)

(* What Validate accepts can be started: no adapter built from an accepted   *)
(* file ever fails for want of a command or of a URL.                        *)
ValidatedStart == \A c \in Callers : err[c] \notin {"no command", "no url"}

(* A refusal names the first entry that is wrong, servers before containers, *)
(* and a file is accepted only if every entry is well-formed.                *)
WellFormedServer(s) ==
    s.name # None /\ \/ s.transport = "stdio" /\ s.command
                     \/ s.transport = "http" /\ s.url
WellFormedContainer(k) ==
    k.image /\ k.port >= 0 /\ k.port < 65536 /\ k.hostPort >= 0 /\ k.hostPort < 65536
FirstErrorReported ==
    LET good(l) == IF l = "server" THEN {i \in DOMAIN file.servers : WellFormedServer(file.servers[i])}
                   ELSE {i \in DOMAIN file.containers : WellFormedContainer(file.containers[i])}
    IN  /\ phase \in {"build", "up"} =>
             good("server") = DOMAIN file.servers /\ good("container") = DOMAIN file.containers
        /\ phase = "refused" /\ LoadError(file) = None =>
             /\ verdict.at \notin good(verdict.list)
             /\ 1 .. (verdict.at - 1) \subseteq good(verdict.list)
             /\ verdict.list = "container" => good("server") = DOMAIN file.servers

-----------------------------------------------------------------------------
(* What makes the safety properties inductive.                               *)

(* A caller inside a method is at a label of the adapter's kind, and the     *)
(* method is the one it called.                                              *)
Located(c) ==
    /\ pc[c] \in {"exec", "kill", "wait"} => on[c] \in Stdio
    /\ pc[c] \in {"docker run", "set id"} \cup (InStop \ {"kill", "wait"}) => on[c] \in Docker
    /\ pc[c] \in {"started", "failed"} => on[c] \in Stdio \cup Docker
    /\ pc[c] \in {"HealthCheck", "returned"} => on[c] \in Adapters
Called(c) ==
    /\ pc[c] \in InStart => Starts(op[c])
    /\ pc[c] \in InStop => Stops(op[c])
    /\ pc[c] = "Lock" /\ op[c] = "Register" => arg[c] \in Adapters
    /\ pc[c] = "Get" => op[c] \in {"Start", "Stop"} /\ arg[c] \in Adapters
    /\ pc[c] = "failed" => err[c] # None
    /\ pc[c] = "done" => todo[c] = {} \/ (op[c] = "StartAll" /\ failed[c] # {})
Placed == \A c \in Callers : Located(c) /\ Called(c)

(* What is up has passed LoadFromFile and Validate, and its adapters are     *)
(* built from it; what they refuse carries the first reason.                 *)
Vetted ==
    /\ file \in Files
    /\ phase \notin {"load", "refused"} => LoadError(file) = None
    /\ phase \in {"build", "up"} => FileError(file) = None
    /\ phase = "refused" /\ LoadError(file) = None =>
          verdict = FileError(file) /\ verdict # None
    /\ phase = "up" => /\ \A a \in Stdio : serverCfg[a].command
                       /\ \A a \in HTTP : serverCfg[a].url

(* No two adapters hold the same process.                                    *)
ProcessesOwned ==
    \A a \in Stdio : cmd[a] # None =>
        proc[cmd[a]] # "new" /\ \A b \in Stdio \ {a} : cmd[b] # cmd[a]

(* What the histories say: nobody else starts or stops an adapter that one   *)
(* caller starts and that is not raced, or that is steady for a caller.      *)
Exclusive ==
    \A a \in Adapters \ raced, c \in Callers : Starting(c, a) =>
        \A d \in Callers \ {c} : ~Starting(d, a) /\ ~Stopping(d, a)
SteadyQuiet ==
    \A c \in Callers, d \in Callers : c # d => \A a \in steady[c] :
        ~Starting(d, a) /\ (op[c] = "StartAll" => ~Stopping(d, a))

(* The states of an adapter, at rest or not.                                 *)
StatesTell ==
    /\ \A a \in Stdio : state[a] = "stopped" => Gone(a) \/ \E c \in Callers : Starting(c, a)
    /\ \A a \in Adapters \ raced :
          /\ state[a] = "running" => Launched(a) /\ ~Busy(a)
          /\ state[a] = "stopped" => Gone(a) /\ \A c \in Callers : ~Starting(c, a)

(* What a method has achieved where nobody interfered.                       *)
Undisturbed(c, a) == a \notin raced \/ (op[c] \in {"StartAll", "StopAll"} /\ a \in steady[c])
Achieved ==
    \A c \in Callers, a \in Adapters : on[c] = a /\ Undisturbed(c, a) =>
        /\ pc[c] = "set id" => container[a] # "absent"
        /\ pc[c] = "started" => Launched(a)
        /\ pc[c] = "removed" => Gone(a)

(* What a call over all adapters has achieved so far.                        *)
Underway(c, a) == on[c] = a /\ (pc[c] \in InStart \cup InStop \/ (pc[c] = "returned" /\ err[c] # None))
Swept ==
    \A c \in Callers : \A a \in steady[c] \ todo[c] :
        /\ op[c] = "StopAll" => Gone(a) \/ Underway(c, a) \/ a \in failed[c]
        /\ op[c] = "StartAll" => Launched(a) \/ Underway(c, a) \/ failed[c] # {}

IndInv ==
    /\ TypeOK /\ Placed /\ Vetted /\ ProcessesOwned
    /\ Exclusive /\ SteadyQuiet /\ StatesTell /\ Achieved /\ Swept

-----------------------------------------------------------------------------
(* Progress.                                                                 *)

(* Register and Unregister never wait for an adapter: nobody wants the lock  *)
(* for ever, even if a docker command of a StartAll or StopAll hangs for     *)
(* ever ("to avoid holding the lock during I/O").                            *)
RegistryResponds == \A c \in Callers : []<>(pc[c] # "Lock")

(* Every method of a StdioAdapter returns, whatever else is called on it     *)
(* meanwhile and whatever its process does.                                  *)
StdioCallsReturn ==
    \A c \in Callers : []<>(on[c] \in Stdio => pc[c] = "returned")
=============================================================================
