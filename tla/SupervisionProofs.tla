------------------------- MODULE SupervisionProofs -------------------------
(***************************************************************************)
(* Theorems about Supervision, for every number of adapters, goroutines,   *)
(* processes and configuration files: type correctness, and what Validate  *)
(* promises.  AdapterProofs has those about the adapters.                  *)
(***************************************************************************)
EXTENDS Supervision, WellFoundedInduction, TLAPS

USE NoneAssumption, AdaptersAssumption, NamesAssumption

-----------------------------------------------------------------------------
(* The first of a set of numbers, and of a sequence of entries.             *)

LEMMA MinIsLeast ==
    ASSUME NEW S \in SUBSET Nat, S # {}
    PROVE  Min(S) \in S /\ \A x \in S : Min(S) <= x
<1>1. PICK m \in S : \A x \in S : ~(<<x, m>> \in OpToRel(<, Nat))
  BY WFMin, NatLessThanWellFounded
<1>2. ASSUME NEW x \in S
      PROVE  m <= x
  <2>1. <<x, m>> \in Nat \X Nat /\ <<x, m>>[1] = x /\ <<x, m>>[2] = m
    OBVIOUS
  <2>2. ~(x < m)
    BY <1>1, <2>1 DEF OpToRel
  <2> QED  BY <2>2
<1> QED  BY <1>2 DEF Min

LEMMA BelowMin ==
    ASSUME NEW n \in Nat, NEW S \in SUBSET (1 .. n), S # {}
    PROVE  /\ Min(S) \in S /\ Min(S) \in 1 .. n
           /\ \A i \in 1 .. (Min(S) - 1) : i \in 1 .. n /\ i \notin S
<1>1. Min(S) \in S /\ \A x \in S : Min(S) <= x
  BY MinIsLeast
<1>2. Min(S) \in 1 .. n
  BY <1>1
<1>3. ASSUME NEW m \in 1 .. n, \A x \in S : m <= x
      PROVE  \A i \in 1 .. (m - 1) : i \in 1 .. n /\ i \notin S
  BY <1>3
<1> QED  BY <1>1, <1>2, <1>3

(* Where Validate stops: nowhere, or at the first entry that is wrong.      *)
LEMMA FirstBad ==
    ASSUME NEW f \in Files
    PROVE  /\ FirstServer(f) = 0 => \A i \in DOMAIN f.servers : ~BadServer(f.servers[i])
           /\ FirstServer(f) # 0 =>
                /\ FirstServer(f) \in DOMAIN f.servers /\ BadServer(f.servers[FirstServer(f)])
                /\ \A i \in 1 .. (FirstServer(f) - 1) :
                      i \in DOMAIN f.servers /\ ~BadServer(f.servers[i])
           /\ FirstContainer(f) = 0 => \A i \in DOMAIN f.containers : ~BadContainer(f.containers[i])
           /\ FirstContainer(f) # 0 =>
                /\ FirstContainer(f) \in DOMAIN f.containers
                /\ BadContainer(f.containers[FirstContainer(f)])
                /\ \A i \in 1 .. (FirstContainer(f) - 1) :
                      i \in DOMAIN f.containers /\ ~BadContainer(f.containers[i])
<1> DEFINE S == {i \in 1 .. Len(f.servers) : BadServer(f.servers[i])}
           K == {i \in 1 .. Len(f.containers) : BadContainer(f.containers[i])}
<1>1. /\ FirstServer(f) = (IF S # {} THEN Min(S) ELSE 0)
      /\ FirstContainer(f) = (IF K # {} THEN Min(K) ELSE 0)
  BY DEF FirstServer, FirstContainer, SelectInSeq
<1>2. /\ Len(f.servers) \in Nat /\ DOMAIN f.servers = 1 .. Len(f.servers)
      /\ Len(f.containers) \in Nat /\ DOMAIN f.containers = 1 .. Len(f.containers)
  BY FilesAssumption
<1>3. /\ S \in SUBSET (1 .. Len(f.servers)) /\ K \in SUBSET (1 .. Len(f.containers))
      /\ \A i \in 1 .. Len(f.servers) : i \in S <=> BadServer(f.servers[i])
      /\ \A i \in 1 .. Len(f.containers) : i \in K <=> BadContainer(f.containers[i])
  OBVIOUS
<1> HIDE DEF S, K
<1>4. S # {} => /\ Min(S) \in S /\ Min(S) \in 1 .. Len(f.servers)
                /\ \A i \in 1 .. (Min(S) - 1) : i \in 1 .. Len(f.servers) /\ i \notin S
  BY <1>2, <1>3, BelowMin
<1>5. K # {} => /\ Min(K) \in K /\ Min(K) \in 1 .. Len(f.containers)
                /\ \A i \in 1 .. (Min(K) - 1) : i \in 1 .. Len(f.containers) /\ i \notin K
  BY <1>2, <1>3, BelowMin
<1>6. /\ S = {} => FirstServer(f) = 0
      /\ S # {} => FirstServer(f) = Min(S) /\ Min(S) # 0
      /\ K = {} => FirstContainer(f) = 0
      /\ K # {} => FirstContainer(f) = Min(K) /\ Min(K) # 0
  BY <1>1, <1>2, <1>4, <1>5
<1> QED  BY <1>2, <1>3, <1>4, <1>5, <1>6

(* An entry is well-formed exactly if Validate accepts it.                  *)
LEMMA ValidateIsExact ==
    /\ \A s \in ServerConfigs : BadServer(s) <=> ~WellFormedServer(s)
    /\ \A k \in ContainerConfigs : BadContainer(k) <=> ~WellFormedContainer(k)
<1>1. None \notin Reasons
  BY VerdictAssumption
<1>2. ASSUME NEW s \in ServerConfigs
      PROVE  BadServer(s) <=> ~WellFormedServer(s)
  <2>1. s.transport \in Transports /\ s.command \in BOOLEAN /\ s.url \in BOOLEAN
    BY DEF ServerConfigs
  <2>2. BadServer(s) <=> \/ s.name = None \/ s.transport \notin {"stdio", "http"}
                         \/ s.transport = "stdio" /\ ~s.command
                         \/ s.transport = "http" /\ ~s.url
    BY <1>1, <2>1 DEF Reasons, BadServer, ServerError
  <2> QED  BY <2>1, <2>2 DEF WellFormedServer
<1>3. ASSUME NEW k \in ContainerConfigs
      PROVE  BadContainer(k) <=> ~WellFormedContainer(k)
  <2>1. k.image \in BOOLEAN /\ k.port \in Int /\ k.hostPort \in Int
    BY DEF ContainerConfigs
  <2>2. \A p \in Int : PortOk(p) <=> p >= 0 /\ p < 65536
    <3>1. \A n \in Int, p \in Int : p \in 0 .. n <=> p >= 0 /\ p < n + 1
      OBVIOUS
    <3>2. MaxPort \in Int /\ MaxPort + 1 = 65536
      BY DEF MaxPort
    <3> QED  BY <3>1, <3>2 DEF PortOk
  <2>3. BadContainer(k) <=> ~(k.image /\ PortOk(k.port) /\ PortOk(k.hostPort))
    BY <1>1, <2>1 DEF Reasons, BadContainer, ContainerError
  <2> QED  BY <2>1, <2>2, <2>3 DEF WellFormedContainer
<1> QED  BY <1>2, <1>3

(* Validate accepts a file in which every entry is well-formed, and refuses *)
(* another at its first entry that is not.                                  *)
LEMMA ValidateIsRight ==
    ASSUME NEW f \in Files
    PROVE  /\ FileError(f) = None =>
                /\ \A i \in DOMAIN f.servers : WellFormedServer(f.servers[i])
                /\ \A i \in DOMAIN f.containers : WellFormedContainer(f.containers[i])
           /\ FileError(f) # None =>
                \/ /\ FileError(f).list = "server" /\ FileError(f).at \in DOMAIN f.servers
                   /\ ~WellFormedServer(f.servers[FileError(f).at])
                   /\ \A i \in 1 .. (FileError(f).at - 1) :
                         i \in DOMAIN f.servers /\ WellFormedServer(f.servers[i])
                \/ /\ FileError(f).list = "container" /\ FileError(f).at \in DOMAIN f.containers
                   /\ \A i \in DOMAIN f.servers : WellFormedServer(f.servers[i])
                   /\ ~WellFormedContainer(f.containers[FileError(f).at])
                   /\ \A i \in 1 .. (FileError(f).at - 1) :
                         i \in DOMAIN f.containers /\ WellFormedContainer(f.containers[i])
<1>1. /\ \A i \in DOMAIN f.servers : f.servers[i] \in ServerConfigs
      /\ \A i \in DOMAIN f.containers : f.containers[i] \in ContainerConfigs
      /\ DOMAIN f.servers \subseteq Nat /\ DOMAIN f.containers \subseteq Nat
  BY FilesAssumption
<1>2. /\ \A i \in DOMAIN f.servers :
           BadServer(f.servers[i]) <=> ~WellFormedServer(f.servers[i])
      /\ \A i \in DOMAIN f.containers :
           BadContainer(f.containers[i]) <=> ~WellFormedContainer(f.containers[i])
  BY <1>1, ValidateIsExact
<1>3. CASE FirstServer(f) # 0
  <2>1. FirstServer(f) \in DOMAIN f.servers /\ BadServer(f.servers[FirstServer(f)])
    BY <1>3, FirstBad
  <2>2. ServerError(f.servers[FirstServer(f)]) \in Reasons
    BY <2>1 DEF BadServer, ServerError, Reasons
  <2>3. /\ FileError(f) = [list |-> "server", at |-> FirstServer(f),
                           why |-> ServerError(f.servers[FirstServer(f)])]
        /\ FileError(f) # None
    BY <1>1, <1>3, <2>1, <2>2, VerdictAssumption DEF FileError
  <2> QED  BY <1>2, <1>3, <2>1, <2>3, FirstBad
<1>4. CASE FirstServer(f) = 0 /\ FirstContainer(f) # 0
  <2>1. FirstContainer(f) \in DOMAIN f.containers /\ BadContainer(f.containers[FirstContainer(f)])
    BY <1>4, FirstBad
  <2>2. ContainerError(f.containers[FirstContainer(f)]) \in Reasons
    BY <2>1 DEF BadContainer, ContainerError, Reasons
  <2>3. /\ FileError(f) = [list |-> "container", at |-> FirstContainer(f),
                           why |-> ContainerError(f.containers[FirstContainer(f)])]
        /\ FileError(f) # None
    BY <1>1, <1>4, <2>1, <2>2, VerdictAssumption DEF FileError
  <2> QED  BY <1>2, <1>4, <2>1, <2>3, FirstBad
<1>5. CASE FirstServer(f) = 0 /\ FirstContainer(f) = 0
  <2>1. FileError(f) = None
    BY <1>5 DEF FileError
  <2> QED  BY <1>2, <1>5, <2>1, FirstBad
<1> QED  BY <1>3, <1>4, <1>5

-----------------------------------------------------------------------------
(* Type correctness: every variable has its type, and a caller is where its *)
(* call can be.                                                             *)

LEMMA PlacedInit == SystemInit => TypeOK /\ Placed
<1> SUFFICES ASSUME SystemInit
             PROVE  TypeOK /\ Placed
  OBVIOUS
<1> USE DEF SystemInit, Init, RegistryInit
<1>1. AdapterTypes
  BY DEF AdapterTypes, States
<1>2. CallTypes
  BY DEF CallTypes, Labels
<1>3. RegistryTypes
  BY DEF RegistryTypes
<1>4. phase = "load" /\ verdict = None
  OBVIOUS
<1>5. TypeOK
  BY <1>1, <1>2, <1>3, <1>4 DEF TypeOK
<1>6. Placed
  BY DEF Placed, Located, Called, InStart, InStop
<1> QED  BY <1>5, <1>6

(* The callers that do not move stay where they are.                        *)
LEMMA OthersPlaced ==
    ASSUME Placed, NEW c \in Callers, Located(c)', Called(c)',
           \A d \in Callers \ {c} :
              /\ pc'[d] = pc[d] /\ on'[d] = on[d] /\ err'[d] = err[d]
              /\ op'[d] = op[d] /\ arg'[d] = arg[d] /\ todo'[d] = todo[d] /\ failed'[d] = failed[d]
    PROVE  Placed'
<1>1. ASSUME NEW d \in Callers \ {c}
      PROVE  Located(d)' /\ Called(d)'
  <2>1. Located(d) /\ Called(d)
    BY DEF Placed
  <2>2. Located(d)'
    BY <2>1 DEF Located
  <2>3. Called(d)'
    BY <2>1 DEF Called
  <2> QED  BY <2>2, <2>3
<1> QED  BY <1>1 DEF Placed

(* The application.                                                         *)
LEMMA FirstIsThere ==
    ASSUME NEW n, NEW a \in Adapters, NameOf(a) = n
    PROVE  \E b \in Adapters :
              NameOf(b) = n /\ \A d \in Adapters \ {b} : NameOf(d) = n => Before(b, d)
<1> DEFINE Same == {b \in Adapters : NameOf(b) = n}
           Firsts(K) == {Entry[b] : b \in Same \cap K}
<1>1. ASSUME NEW K, Same \cap K # {}
      PROVE  \E b \in Same \cap K : \A d \in Same \cap K : Entry[b] <= Entry[d]
  <2>1. Firsts(K) \in SUBSET Nat /\ Firsts(K) # {}
    BY <1>1, EntryAssumption
  <2>2. Min(Firsts(K)) \in Firsts(K) /\ \A x \in Firsts(K) : Min(Firsts(K)) <= x
    <3> HIDE DEF Firsts
    <3> QED  BY <2>1, MinIsLeast
  <2>3. PICK b \in Same \cap K : Entry[b] = Min(Firsts(K))
    BY <2>2
  <2>4. \A d \in Same \cap K : Entry[d] \in Firsts(K)
    OBVIOUS
  <2> QED  BY <2>2, <2>3, <2>4
<1>2. ASSUME NEW b \in Adapters, NEW d \in Adapters, b # d, b \in Docker <=> d \in Docker,
             Entry[b] <= Entry[d]
      PROVE  Entry[b] < Entry[d]
  <2>1. Entry[b] \in Nat /\ Entry[d] \in Nat /\ Entry[b] # Entry[d]
    BY <1>2, EntryAssumption
  <2> QED  BY <1>2, <2>1
<1>3. CASE Same \cap (Adapters \ Docker) # {}
  <2>1. PICK b \in Same \cap (Adapters \ Docker) :
               \A d \in Same \cap (Adapters \ Docker) : Entry[b] <= Entry[d]
    BY <1>1, <1>3
  <2>2. ASSUME NEW d \in Adapters \ {b}, NameOf(d) = n
        PROVE  Before(b, d)
    <3>1. CASE d \in Docker
      BY <2>1, <3>1 DEF Before
    <3>2. CASE d \notin Docker
      <4>1. Entry[b] <= Entry[d] /\ b # d /\ b \notin Docker
        BY <2>1, <2>2, <3>2
      <4> QED  BY <1>2, <2>2, <3>2, <4>1 DEF Before
    <3> QED  BY <3>1, <3>2
  <2> QED  BY <2>1, <2>2
<1>4. CASE Same \cap (Adapters \ Docker) = {}
  <2>1. a \in Same \cap Docker
    BY <1>4
  <2>2. PICK b \in Same \cap Docker : \A d \in Same \cap Docker : Entry[b] <= Entry[d]
    BY <1>1, <2>1
  <2>3. ASSUME NEW d \in Adapters \ {b}, NameOf(d) = n
        PROVE  Before(b, d)
    <3>1. d \in Docker
      BY <1>4, <2>3
    <3>2. Entry[b] <= Entry[d] /\ b # d /\ b \in Docker
      BY <2>2, <2>3, <3>1
    <3> QED  BY <1>2, <2>3, <3>1, <3>2 DEF Before
  <2> QED  BY <2>2, <2>3
<1> QED  BY <1>3, <1>4

LEMMA ApplicationPlaced ==
    ASSUME TypeOK, Placed, file \in Files, LoadFromFile \/ Validate \/ Build
    PROVE  TypeOK' /\ Placed'
<1>1. UNCHANGED <<callVars, useVars>>
  BY DEF LoadFromFile, Validate, Decide, Build, vars, regVars
<1>2. Placed'
  BY <1>1 DEF callVars, useVars, Placed, Located, Called
<1>3. CASE LoadFromFile \/ Validate
  BY <1>2, <1>3 DEF LoadFromFile, Validate, Decide, vars, adapterVars, callVars, regVars,
     registryVars, useVars, TypeOK, AdapterTypes, CallTypes, RegistryTypes
<1>4. CASE Build
  <2>1. ASSUME NEW n \in Names
        PROVE  adapters'[n] \in Adapters \cup {None} /\ (adapters'[n] # None => name'[adapters'[n]] = n)
    <3>1. CASE \E a \in Adapters : NameOf(a) = n
      <4>1. adapters'[n] \in Adapters /\ NameOf(adapters'[n]) = n
        BY <1>4, <3>1, FirstIsThere DEF Build
      <4> QED  BY <1>4, <4>1 DEF Build
    <3>2. CASE ~\E a \in Adapters : NameOf(a) = n
      BY <1>4, <3>2 DEF Build
    <3> QED  BY <3>1, <3>2
  <2>2. \A a \in Adapters : NameOf(a) \in Names \cup {None}
    <3>1. ASSUME NEW a \in Adapters \ Docker
          PROVE  NameOf(a) \in Names \cup {None}
      <4>1. Entry[a] \in DOMAIN file.servers /\ file.servers \in Seq(ServerConfigs)
        BY <1>4, <3>1, FilesAssumption, EntryAssumption DEF Build, Adapters
      <4>2. file.servers[Entry[a]] \in ServerConfigs
        BY <4>1
      <4> QED  BY <3>1, <4>2 DEF NameOf, ServerConfigs
    <3> QED  BY <3>1, EntryAssumption DEF NameOf
  <2>3. /\ name' \in [Adapters -> Names \cup {None}] /\ DOMAIN serverCfg' = Adapters
        /\ adapters' \in [Names -> Adapters \cup {None}] /\ phase' = "up"
        /\ UNCHANGED <<state, cmd, proc, cmdMu, containerID, container, callVars, ctxDone, raced,
                      readers, useVars>>
    BY <1>4, <2>1, <2>2 DEF Build
  <2> QED  BY <1>2, <2>1, <2>3 DEF callVars, useVars, TypeOK, AdapterTypes, CallTypes, RegistryTypes
<1> QED  BY <1>3, <1>4

(* The methods of the adapters: from where to where they go, ...            *)
Moves == {<<"exec", "started">>, <<"exec", "failed">>, <<"docker run", "set id">>,
          <<"docker run", "failed">>, <<"set id", "started">>, <<"started", "returned">>,
          <<"failed", "returned">>, <<"kill", "wait">>, <<"kill", "returned">>,
          <<"wait", "returned">>, <<"docker rm", "removed">>, <<"docker rm", "not removed">>,
          <<"removed", "returned">>, <<"not removed", "returned">>, <<"HealthCheck", "returned">>}

LEMMA MethodMoves ==
    ASSUME TypeOK, NEW c \in Callers, LocalStep(c) \/ DockerStep(c)
    PROVE  /\ UNCHANGED <<on, serverCfg, ctxDone, raced>>
           /\ <<pc[c], pc'[c]>> \in Moves
           /\ pc' = [pc EXCEPT ![c] = pc'[c]] /\ err' = [err EXCEPT ![c] = err'[c]]
           /\ err'[c] = err[c] \/ err'[c] \in {"system", "no command", "no url"}
           /\ pc'[c] = "failed" => err'[c] # None
<1> USE DEF At, Goto, Fails, Keeps, adapterVars
<1>1. pc \in [Callers -> Labels] /\ err = [err EXCEPT ![c] = err[c]] /\ DOMAIN err = Callers
  BY DEF TypeOK, CallTypes
<1>2. None \notin {"system", "no command", "no url"}
  BY VerdictAssumption DEF Reasons
<1>3. CASE Exec(c) \/ DockerRun(c) \/ SetContainerID(c) \/ Started(c) \/ StartFailed(c)
           \/ Kill(c) \/ Wait(c) \/ DockerRm(c) \/ DockerRmFails(c)
  BY <1>1, <1>2, <1>3 DEF Exec, DockerRun, SetContainerID, Started, StartFailed, Kill, Wait, DockerRm,
     DockerRmFails, Moves
<1>4. CASE ExecFails(c) \/ DockerRunFails(c)
  BY <1>1, <1>2, <1>4 DEF ExecFails, DockerRunFails, Moves
<1>5. CASE NothingToKill(c) \/ ContainerStopped(c)
  BY <1>1, <1>2, <1>5 DEF NothingToKill, ContainerStopped, Moves
<1>6. CASE CheckProcess(c) \/ CheckContainer(c) \/ CheckURL(c)
  BY <1>1, <1>2, <1>6 DEF CheckProcess, CheckContainer, CheckURL, Moves
<1> QED
  BY <1>3, <1>4, <1>5, <1>6 DEF LocalStep, DockerStep

(* ... and what they do to the adapter.                                     *)
LEMMA MethodTypes ==
    ASSUME TypeOK, NEW c \in Callers, LocalStep(c) \/ DockerStep(c)
    PROVE  AdapterTypes'
<1> USE DEF AdapterTypes, At, SetState, Keeps, adapterVars
<1>1. AdapterTypes
  BY DEF TypeOK
<1>2. CASE Exec(c) \/ ExecFails(c)
  <2>1. CASE Exec(c)
    <3>1. PICK p \in Procs : /\ proc' = [proc EXCEPT ![p] = "live"]
                             /\ cmd' = [cmd EXCEPT ![on[c]] = p]
      BY <2>1 DEF Exec
    <3> QED  BY <1>1, <2>1, <3>1 DEF Exec
  <2>2. CASE ExecFails(c)
    BY <1>1, <2>2 DEF ExecFails
  <2> QED  BY <1>2, <2>1, <2>2
<1>3. CASE DockerRun(c) \/ DockerRunFails(c) \/ DockerRm(c) \/ DockerRmFails(c)
  <2>1. \E w \in {"absent", "present"} :
          container' = container \/ container' = [container EXCEPT ![on[c]] = w]
    BY <1>3 DEF DockerRun, DockerRunFails, DockerRm, DockerRmFails
  <2>2. UNCHANGED <<state, serverCfg, cmd, proc, cmdMu, containerID>>
    BY <1>3 DEF DockerRun, DockerRunFails, DockerRm, DockerRmFails
  <2> QED  BY <1>1, <2>1, <2>2
<1>4. CASE SetContainerID(c)
  BY <1>1, <1>4 DEF SetContainerID
<1>5. CASE Started(c) \/ StartFailed(c) \/ ContainerStopped(c) \/ NothingToKill(c)
  BY <1>1, <1>5 DEF Started, StartFailed, ContainerStopped, NothingToKill, States
<1>6. CASE Kill(c)
  BY <1>1, <1>6 DEF Kill
<1>7. CASE Wait(c)
  BY <1>1, <1>7 DEF Wait, States
<1>8. CASE CheckProcess(c) \/ CheckContainer(c) \/ CheckURL(c)
  BY <1>1, <1>8 DEF CheckProcess, CheckContainer, CheckURL
<1> QED
  BY <1>2, <1>3, <1>4, <1>5, <1>6, <1>7, <1>8 DEF LocalStep, DockerStep

LEMMA MethodPlaced ==
    ASSUME TypeOK, Placed, NEW c \in Callers, LocalStep(c) \/ DockerStep(c),
           UNCHANGED <<regVars, appVars>>
    PROVE  TypeOK' /\ Placed'
<1>1. /\ UNCHANGED <<on, serverCfg, ctxDone, raced>> /\ <<pc[c], pc'[c]>> \in Moves
      /\ pc' = [pc EXCEPT ![c] = pc'[c]] /\ err' = [err EXCEPT ![c] = err'[c]]
      /\ err'[c] = err[c] \/ err'[c] \in {"system", "no command", "no url"}
      /\ pc'[c] = "failed" => err'[c] # None
  BY MethodMoves
<1>2. pc'[c] \in Labels
  BY <1>1 DEF Moves, Labels, InStart, InStop
<1>3. TypeOK'
  <2>1. CallTypes'
    BY <1>1, <1>2 DEF TypeOK, CallTypes
  <2>2. RegistryTypes' /\ UNCHANGED phase
    BY DEF TypeOK, RegistryTypes, regVars, registryVars, useVars, appVars
  <2> QED  BY <2>1, <2>2, MethodTypes DEF TypeOK
<1>4. Located(c)'
  BY <1>1 DEF Moves, Placed, Located, InStop, Adapters
<1>5. Called(c)'
  BY <1>1 DEF Moves, Placed, Called, Starts, Stops, InStart, InStop, regVars, useVars
<1>6. Placed'
  BY <1>1, <1>4, <1>5, OthersPlaced DEF TypeOK, CallTypes, regVars, useVars
<1> QED  BY <1>3, <1>6

(* A caller enters a method.                                                *)
Enters(c, a) ==
    \/ /\ Starts(op[c])
       /\ \/ a \in Stdio /\ pc'[c] = "exec" /\ SetState(a, "starting")
          \/ a \in Docker /\ pc'[c] = "docker run" /\ SetState(a, "starting")
          \/ a \in HTTP /\ pc'[c] = "returned" /\ SetState(a, "running")
    \/ /\ Stops(op[c])
       /\ \/ a \in Stdio /\ pc'[c] = "kill" /\ SetState(a, "stopping")
          \/ a \in Docker /\ containerID[a] /\ pc'[c] = "docker rm" /\ SetState(a, "stopping")
          \/ a \in Docker /\ ~containerID[a] /\ pc'[c] = "removed" /\ UNCHANGED state
          \/ a \in HTTP /\ pc'[c] = "returned" /\ SetState(a, "stopped")
    \/ op[c] = "HealthCheckAll" /\ pc'[c] = "HealthCheck" /\ UNCHANGED state

LEMMA CallEnters ==
    ASSUME TypeOK, NEW c \in Callers, NEW a \in Adapters, Call(c, a)
    PROVE  /\ Enters(c, a)
           /\ UNCHANGED <<serverCfg, cmd, proc, cmdMu, containerID, container, ctxDone>>
           /\ pc' = [pc EXCEPT ![c] = pc'[c]] /\ on' = [on EXCEPT ![c] = a]
           /\ err' = [err EXCEPT ![c] = None]
           /\ raced' \in {raced, raced \cup {a}}
           /\ a \notin raced' => \A d \in Callers \ {c} :
                /\ Starts(op[c]) => ~Starting(d, a) /\ ~Stopping(d, a)
                /\ Stops(op[c]) => ~Starting(d, a)
<1>1. pc \in [Callers -> Labels]
  BY DEF TypeOK, CallTypes
<1>2. ~(Starts(op[c]) /\ Stops(op[c])) /\ (op[c] = "HealthCheckAll" => ~Starts(op[c]) /\ ~Stops(op[c]))
  BY DEF Starts, Stops
<1>3. CASE Starts(op[c])
  <2>1. Start(c, a)
    BY <1>2, <1>3 DEF Call
  <2>2. raced' = IF \E d \in Callers \ {c} : Starting(d, a) \/ Stopping(d, a) THEN raced \cup {a} ELSE raced
    BY <2>1 DEF Start, Race
  <2>3. Enters(c, a)
    <3>1. \/ a \in Stdio /\ Enter(c, a, "exec") /\ SetState(a, "starting")
          \/ a \in Docker /\ Enter(c, a, "docker run") /\ SetState(a, "starting")
          \/ a \in HTTP /\ Enter(c, a, "returned") /\ SetState(a, "running")
      BY <2>1 DEF Start, Race
    <3> QED  BY <1>1, <1>3, <3>1 DEF Enter, Enters, SetState
  <2>4. /\ UNCHANGED <<serverCfg, cmd, proc, cmdMu, containerID, container, ctxDone>>
        /\ pc' = [pc EXCEPT ![c] = pc'[c]] /\ on' = [on EXCEPT ![c] = a]
        /\ err' = [err EXCEPT ![c] = None]
    BY <1>1, <2>1 DEF Start, Enter
  <2>5. /\ raced' \in {raced, raced \cup {a}}
        /\ a \notin raced' => \A d \in Callers \ {c} : ~(Starting(d, a) \/ Stopping(d, a))
    BY <2>2
  <2> QED  BY <1>2, <1>3, <2>3, <2>4, <2>5
<1>4. CASE Stops(op[c])
  <2>1. Stop(c, a)
    BY <1>2, <1>4 DEF Call
  <2>2. raced' = IF \E d \in Callers \ {c} : Starting(d, a) THEN raced \cup {a} ELSE raced
    BY <2>1 DEF Stop, Race
  <2>3. Enters(c, a)
    <3>1. \/ a \in Stdio /\ Enter(c, a, "kill") /\ SetState(a, "stopping")
          \/ a \in Docker /\ containerID[a] /\ Enter(c, a, "docker rm") /\ SetState(a, "stopping")
          \/ a \in Docker /\ ~containerID[a] /\ Enter(c, a, "removed") /\ UNCHANGED state
          \/ a \in HTTP /\ Enter(c, a, "returned") /\ SetState(a, "stopped")
      BY <2>1 DEF Stop, Race
    <3> QED  BY <1>1, <1>4, <3>1 DEF Enter, Enters, SetState
  <2>4. /\ UNCHANGED <<serverCfg, cmd, proc, cmdMu, containerID, container, ctxDone>>
        /\ pc' = [pc EXCEPT ![c] = pc'[c]] /\ on' = [on EXCEPT ![c] = a]
        /\ err' = [err EXCEPT ![c] = None]
    BY <1>1, <2>1 DEF Stop, Enter
  <2>5. /\ raced' \in {raced, raced \cup {a}}
        /\ a \notin raced' => \A d \in Callers \ {c} : ~(Starting(d, a))
    BY <2>2
  <2> QED  BY <1>2, <1>4, <2>3, <2>4, <2>5
<1>5. CASE op[c] = "HealthCheckAll"
  <2>1. HealthCheck(c, a)
    BY <1>2, <1>5 DEF Call
  <2> QED  BY <1>1, <1>2, <1>5, <2>1 DEF HealthCheck, Enter, Enters
<1> QED  BY <1>3, <1>4, <1>5 DEF Call

(* It is one of a call's own, or the next of a call over all adapters.      *)
LEMMA CallPlaced ==
    ASSUME TypeOK, Placed, NEW c \in Callers, CallOne(c) \/ CallNext(c), UNCHANGED appVars
    PROVE  /\ TypeOK' /\ Placed'
           /\ \E a \in Adapters : Call(c, a) /\ Disturb(c, a)
<1>1. PICK a \in Adapters : Call(c, a) /\ Disturb(c, a)
  <2>1. CASE CallOne(c)
    <3>1. arg[c] \in Adapters
      BY <2>1 DEF CallOne, Placed, Called
    <3> QED  BY <2>1, <3>1 DEF CallOne
  <2>2. CASE CallNext(c)
    <3>1. todo[c] \subseteq Adapters
      BY DEF TypeOK, RegistryTypes
    <3> QED  BY <2>2, <3>1 DEF CallNext
  <2> QED  BY <2>1, <2>2
<1>2. /\ Enters(c, a)
      /\ UNCHANGED <<serverCfg, cmd, proc, cmdMu, containerID, container, ctxDone>>
      /\ pc' = [pc EXCEPT ![c] = pc'[c]] /\ on' = [on EXCEPT ![c] = a]
      /\ err' = [err EXCEPT ![c] = None]
      /\ raced' \in {raced, raced \cup {a}}
  BY <1>1, CallEnters
<1>3. /\ UNCHANGED <<registryVars, op, arg, calls>>
      /\ todo' \in [Callers -> SUBSET Adapters] /\ failed' \in [Callers -> SUBSET Adapters]
      /\ \A d \in Callers \ {c} : todo'[d] = todo[d] /\ failed'[d] = failed[d]
  <2>1. CASE CallOne(c)
    BY <2>1 DEF CallOne, TypeOK, RegistryTypes
  <2>2. CASE CallNext(c)
    <3>1. UNCHANGED <<registryVars, op, arg, calls>>
      BY <2>2 DEF CallNext
    <3>2. \E b \in todo[c] : todo' = [todo EXCEPT ![c] = @ \ {b}]
      BY <2>2 DEF CallNext
    <3>3. /\ todo' \in [Callers -> SUBSET Adapters]
          /\ \A d \in Callers \ {c} : todo'[d] = todo[d]
      BY <3>2 DEF TypeOK, RegistryTypes
    <3>4. /\ failed' = failed \/ (failed' = [failed EXCEPT ![c] = @ \cup {on[c]}] /\ pc[c] = "returned")
      BY <2>2 DEF CallNext, Collect
    <3>5. /\ failed' \in [Callers -> SUBSET Adapters]
          /\ \A d \in Callers \ {c} : failed'[d] = failed[d]
      <4>1. pc[c] = "returned" => on[c] \in Adapters
        BY DEF Placed, Located
      <4> QED  BY <3>4, <4>1 DEF TypeOK, RegistryTypes
    <3> QED  BY <3>1, <3>3, <3>5
  <2> QED  BY <2>1, <2>2
<1>4. AdapterTypes'
  <2>1. state' \in [Adapters -> States]
    BY <1>2 DEF Enters, SetState, TypeOK, AdapterTypes, States
  <2> QED  BY <1>2, <2>1 DEF TypeOK, AdapterTypes
<1>5. CallTypes'
  <2>1. pc'[c] \in Labels
    BY <1>2 DEF Enters, Labels, InStart, InStop
  <2> QED  BY <1>2, <2>1 DEF TypeOK, CallTypes
<1>6. RegistryTypes'
  <2>1. steady' \in [Callers -> SUBSET Adapters]
    BY <1>1 DEF Disturb, TypeOK, RegistryTypes
  <2> QED  BY <1>3, <2>1 DEF TypeOK, RegistryTypes, registryVars
<1>7. Located(c)'
  BY <1>2 DEF Enters, Located, TypeOK, CallTypes, InStop, Adapters
<1>8. Called(c)'
  BY <1>2, <1>3 DEF Enters, Called, InStart, InStop, Starts, Stops
<1>9. Placed'
  BY <1>2, <1>3, <1>7, <1>8, OthersPlaced DEF TypeOK, CallTypes
<1> QED  BY <1>1, <1>4, <1>5, <1>6, <1>9 DEF TypeOK, appVars

(* A call begins, waits for the lock, goes through the registry, or ends.   *)
Outward == {"idle", "Lock", "Get", "snapshot", "loop", "returned", "done"}
Bookkeeping(c) ==
    \/ Use(c) \/ Register(c) \/ Unregister(c) \/ Unlock(c) \/ OneReturns(c)
    \/ AllReturns(c) \/ Leave(c)

LEMMA BeginPlaced ==
    ASSUME TypeOK, Placed, NEW c \in Callers, Use(c), UNCHANGED appVars
    PROVE  TypeOK' /\ Placed'
<1>1. PICK o \in Ops, x \in Adapters \cup Names \cup {None}, m \in {"Lock", "Get", "snapshot"} :
            /\ Begin(c, o, x, m)
            /\ m = "Lock" /\ o = "Register" => x \in Adapters
            /\ m = "Get" => o \in {"Start", "Stop"} /\ x \in Adapters
  <2>1. CASE WantLock(c)
    BY <2>1 DEF WantLock, Ops
  <2>2. CASE Get(c)
    BY <2>2 DEF Get, Ops, TypeOK, RegistryTypes
  <2>3. CASE Snapshot(c)
    <3>1. PICK o \in All : Begin(c, o, None, "snapshot")
      BY <2>3 DEF Snapshot
    <3> QED  BY <3>1 DEF Ops
  <2> QED  BY <2>1, <2>2, <2>3 DEF Use
<1>2. /\ UNCHANGED <<adapterVars, on, err, ctxDone, raced>> /\ calls' = calls + 1
      /\ op' = [op EXCEPT ![c] = o] /\ arg' = [arg EXCEPT ![c] = x] /\ pc' = [pc EXCEPT ![c] = m]
  BY <1>1 DEF Begin
<1>3. /\ UNCHANGED <<name, adapters, failed>> /\ readers' \subseteq Callers
      /\ todo' \in [Callers -> SUBSET Adapters] /\ steady' \in [Callers -> SUBSET Adapters]
      /\ \A d \in Callers \ {c} : todo'[d] = todo[d]
  <2>1. CASE WantLock(c) \/ Get(c)
    BY <2>1 DEF WantLock, Get, TypeOK, RegistryTypes, registryVars
  <2>2. CASE Snapshot(c)
    <3>1. Registered \subseteq Adapters
      BY DEF Registered, TypeOK, RegistryTypes
    <3>2. /\ UNCHANGED <<name, adapters, failed>> /\ readers' = readers \cup {c}
          /\ todo' = [todo EXCEPT ![c] = Registered]
          /\ \E T : steady' = [steady EXCEPT ![c] = Registered \cap T]
      BY <2>2 DEF Snapshot
    <3> QED  BY <3>1, <3>2 DEF TypeOK, RegistryTypes
  <2> QED  BY <2>1, <2>2 DEF Use
<1>4. AdapterTypes' /\ CallTypes'
  <2>1. m \in Labels
    BY DEF Labels
  <2> QED  BY <1>2, <2>1 DEF TypeOK, AdapterTypes, CallTypes, adapterVars
<1>5. RegistryTypes'
  <2>1. /\ op' \in [Callers -> Ops \cup {None}] /\ calls' \in Nat
        /\ arg' \in [Callers -> Adapters \cup Names \cup {None}]
    BY <1>2 DEF TypeOK, RegistryTypes
  <2> QED  BY <1>3, <2>1 DEF TypeOK, RegistryTypes
<1>6. Located(c)' /\ Called(c)'
  BY <1>1, <1>2 DEF Located, Called, InStart, InStop, TypeOK, CallTypes, RegistryTypes
<1>7. Placed'
  BY <1>2, <1>3, <1>6, OthersPlaced DEF TypeOK, CallTypes, RegistryTypes
<1> QED  BY <1>4, <1>5, <1>7 DEF TypeOK, appVars

LEMMA FinishPlaced ==
    ASSUME TypeOK, Placed, NEW c \in Callers, UNCHANGED appVars,
           Register(c) \/ Unregister(c) \/ Unlock(c) \/ OneReturns(c) \/ AllReturns(c) \/ Leave(c)
    PROVE  TypeOK' /\ Placed'
<1> USE DEF Finish, Goto, Keeps, registryVars, useVars
<1>1. /\ UNCHANGED <<adapterVars, ctxDone, raced, name, calls>>
      /\ readers' \subseteq Callers
      /\ \E m \in {"idle", "loop", "done"} : pc' = [pc EXCEPT ![c] = m]
      /\ on' = [on EXCEPT ![c] = on'[c]] /\ on'[c] \in {on[c], None}
      /\ err' = [err EXCEPT ![c] = err'[c]] /\ err'[c] \in {err[c], None}
  <2>1. /\ pc \in [Callers -> Labels] /\ readers \subseteq Callers
        /\ on = [on EXCEPT ![c] = on[c]] /\ DOMAIN on = Callers
        /\ err = [err EXCEPT ![c] = err[c]] /\ DOMAIN err = Callers
    BY DEF TypeOK, CallTypes, RegistryTypes
  <2>2. CASE Register(c) \/ Unregister(c) \/ OneReturns(c)
    <3>1. Finish(c) /\ UNCHANGED <<name, readers>>
      BY <2>2 DEF Register, Unregister, OneReturns
    <3> QED  BY <2>1, <3>1
  <2>3. CASE Unlock(c)
    BY <2>1, <2>3 DEF Unlock
  <2>4. CASE AllReturns(c)
    BY <2>1, <2>4 DEF AllReturns
  <2>5. CASE Leave(c)
    BY <2>1, <2>5 DEF Leave
  <2> QED  BY <2>2, <2>3, <2>4, <2>5
<1>2. /\ op' = [op EXCEPT ![c] = op'[c]] /\ op'[c] \in {op[c], None}
      /\ arg' = [arg EXCEPT ![c] = arg'[c]] /\ arg'[c] \in {arg[c], None}
      /\ todo' = [todo EXCEPT ![c] = todo'[c]] /\ todo'[c] \in {todo[c], {}}
  <2>1. /\ op \in [Callers -> Ops \cup {None}] /\ todo = [todo EXCEPT ![c] = todo[c]]
        /\ arg = [arg EXCEPT ![c] = arg[c]] /\ DOMAIN arg = Callers /\ DOMAIN todo = Callers
    BY DEF TypeOK, RegistryTypes
  <2>2. CASE Register(c) \/ Unregister(c) \/ OneReturns(c)
    <3>1. Finish(c)
      BY <2>2 DEF Register, Unregister, OneReturns
    <3> QED  BY <2>1, <3>1
  <2>3. CASE Unlock(c) \/ AllReturns(c)
    BY <2>1, <2>3 DEF Unlock, AllReturns
  <2>4. CASE Leave(c)
    BY <2>1, <2>4 DEF Leave
  <2> QED  BY <2>2, <2>3, <2>4
<1>3. steady' \in [Callers -> SUBSET Adapters]
  <2>1. steady \in [Callers -> SUBSET Adapters]
    BY DEF TypeOK, RegistryTypes
  <2>2. CASE Register(c) \/ OneReturns(c) \/ Unlock(c) \/ AllReturns(c)
    BY <2>1, <2>2 DEF Register, OneReturns, Unlock, AllReturns
  <2>3. CASE Unregister(c)
    BY <2>1, <2>3 DEF Unregister
  <2>4. CASE Leave(c)
    BY <2>1, <2>4 DEF Leave
  <2> QED  BY <2>2, <2>3, <2>4
<1>4. failed' = [failed EXCEPT ![c] = failed'[c]] /\ failed'[c] \subseteq Adapters
  <2>1. CASE AllReturns(c)
    <3>1. failed' = failed \/ (failed' = [failed EXCEPT ![c] = @ \cup {on[c]}] /\ pc[c] = "returned")
      BY <2>1 DEF AllReturns, Collect
    <3>2. pc[c] = "returned" => on[c] \in Adapters
      BY DEF Placed, Located
    <3> QED  BY <3>1, <3>2 DEF TypeOK, RegistryTypes
  <2>2. CASE ~AllReturns(c)
    BY <2>2 DEF TypeOK, RegistryTypes, Register, Unregister, Unlock, OneReturns, Leave
  <2> QED  BY <2>1, <2>2
<1>5. /\ adapters' \in [Names -> Adapters \cup {None}]
      /\ \A n \in Names : adapters'[n] # None => name[adapters'[n]] = n
  <2>1. CASE Register(c)
    <3>1. arg[c] \in Adapters
      BY <2>1 DEF Register, Placed, Called
    <3> QED  BY <2>1, <3>1 DEF Register, TypeOK, RegistryTypes
  <2>2. CASE Unregister(c)
    BY <2>2 DEF Unregister, TypeOK, RegistryTypes
  <2>3. CASE ~Register(c) /\ ~Unregister(c)
    BY <2>3 DEF TypeOK, RegistryTypes, Unlock, OneReturns, AllReturns, Leave
  <2> QED  BY <2>1, <2>2, <2>3
<1>6. AdapterTypes' /\ CallTypes'
  <2>1. AdapterTypes'
    BY <1>1 DEF TypeOK, AdapterTypes, adapterVars
  <2>2. pc' \in [Callers -> Labels]
    <3>1. {"idle", "loop", "done"} \subseteq Labels /\ pc \in [Callers -> Labels]
      BY DEF TypeOK, CallTypes, Labels
    <3> QED  BY <1>1, <3>1
  <2>3. on' \in [Callers -> Adapters \cup {None}]
    <3>1. on \in [Callers -> Adapters \cup {None}] /\ on'[c] \in {on[c], None}
      BY <1>1 DEF TypeOK, CallTypes
    <3> QED  BY <1>1, <3>1
  <2>4. err' \in [Callers -> {None, "system", "no command", "no url"}]
    <3>1. /\ err \in [Callers -> {None, "system", "no command", "no url"}]
          /\ err'[c] \in {err[c], None}
      BY <1>1 DEF TypeOK, CallTypes
    <3> QED  BY <1>1, <3>1
  <2> QED  BY <1>1, <2>1, <2>2, <2>3, <2>4 DEF TypeOK, CallTypes
<1>7. RegistryTypes'
  <2>1. /\ op \in [Callers -> Ops \cup {None}]
        /\ arg \in [Callers -> Adapters \cup Names \cup {None}]
        /\ todo \in [Callers -> SUBSET Adapters] /\ failed \in [Callers -> SUBSET Adapters]
    BY DEF TypeOK, RegistryTypes
  <2>2. /\ op' \in [Callers -> Ops \cup {None}]
        /\ arg' \in [Callers -> Adapters \cup Names \cup {None}]
    <3>1. op[c] \in Ops \cup {None} /\ arg[c] \in Adapters \cup Names \cup {None}
      BY <2>1
    <3>2. op'[c] \in Ops \cup {None} /\ arg'[c] \in Adapters \cup Names \cup {None}
      BY <1>2, <3>1
    <3> QED  BY <1>2, <2>1, <3>2
  <2>3. todo' \in [Callers -> SUBSET Adapters] /\ failed' \in [Callers -> SUBSET Adapters]
    BY <1>2, <1>4, <2>1
  <2> QED  BY <1>1, <1>3, <1>5, <2>2, <2>3 DEF TypeOK, RegistryTypes
<1>8. Located(c)'
  BY <1>1 DEF Located, InStop, TypeOK, CallTypes
<1>9. Called(c)'
  <2>1. CASE AllReturns(c)
    <3>1. todo'[c] = {} \/ (op'[c] = "StartAll" /\ failed'[c] # {})
      BY <2>1 DEF AllReturns, More, Collect, TypeOK, RegistryTypes
    <3> QED  BY <1>1, <2>1, <3>1 DEF AllReturns, Called, InStart, InStop, TypeOK, CallTypes
  <2>2. CASE ~AllReturns(c)
    BY <2>2 DEF Called, InStart, InStop, TypeOK, CallTypes, Register, Unregister, Unlock, OneReturns, Leave
  <2> QED  BY <2>1, <2>2
<1>10. Placed'
  BY <1>1, <1>2, <1>4, <1>8, <1>9, OthersPlaced DEF TypeOK, CallTypes, RegistryTypes
<1> QED  BY <1>6, <1>7, <1>10 DEF TypeOK, appVars

(* Processes and contexts.                                                  *)
LEMMA EnvironmentPlaced ==
    ASSUME TypeOK, Placed, Outside
    PROVE  TypeOK' /\ Placed'
<1>1. UNCHANGED <<callVars, raced, regVars, appVars>>
  BY DEF Outside, Environment, Exits, Cancel
<1>2. Placed'
  BY <1>1 DEF Placed, Located, Called, callVars, regVars, useVars
<1>3. AdapterTypes' /\ ctxDone' \subseteq Callers
  BY DEF Outside, Environment, Exits, Cancel, TypeOK, AdapterTypes, CallTypes, adapterVars
<1>4. CallTypes' /\ RegistryTypes'
  BY <1>1, <1>3 DEF TypeOK, CallTypes, RegistryTypes, callVars, regVars, registryVars, useVars
<1> QED  BY <1>1, <1>2, <1>3, <1>4 DEF TypeOK, appVars

(* The steps of the system, by what they do.                                *)
LEMMA StepCases ==
    ASSUME Next
    PROVE  \/ LoadFromFile \/ Validate \/ Build
           \/ Outside /\ phase = "up" /\ UNCHANGED appVars
           \/ \E c \in Callers : /\ phase = "up" /\ UNCHANGED appVars
                                 /\ \/ Bookkeeping(c) \/ CallOne(c) \/ CallNext(c)
                                    \/ (LocalStep(c) \/ DockerStep(c)) /\ UNCHANGED regVars
<1>1. CASE \E c \in Callers : Run(c)
  BY <1>1 DEF Run, Proceed, DockerCommand, Bookkeeping
<1> QED  BY <1>1 DEF Next, Outside

LEMMA PlacedStep == TypeOK /\ Placed /\ file \in Files /\ [Next]_allVars => TypeOK' /\ Placed'
<1> SUFFICES ASSUME TypeOK, Placed, file \in Files, [Next]_allVars
             PROVE  TypeOK' /\ Placed'
  OBVIOUS
<1>1. CASE LoadFromFile \/ Validate \/ Build
  BY <1>1, ApplicationPlaced
<1>2. CASE Outside
  BY <1>2, EnvironmentPlaced
<1>3. ASSUME NEW c \in Callers, UNCHANGED appVars,
             \/ Bookkeeping(c) \/ CallOne(c) \/ CallNext(c)
             \/ (LocalStep(c) \/ DockerStep(c)) /\ UNCHANGED regVars
      PROVE  TypeOK' /\ Placed'
  <2>1. CASE Bookkeeping(c)
    BY <1>3, <2>1, BeginPlaced, FinishPlaced DEF Bookkeeping
  <2>2. CASE CallOne(c) \/ CallNext(c)
    BY <1>3, <2>2, CallPlaced
  <2>3. CASE (LocalStep(c) \/ DockerStep(c)) /\ UNCHANGED regVars
    BY <1>3, <2>3, MethodPlaced
  <2> QED  BY <1>3, <2>1, <2>2, <2>3
<1>4. CASE UNCHANGED allVars
  BY <1>4 DEF allVars, vars, adapterVars, callVars, regVars, registryVars, useVars, appVars,
     TypeOK, AdapterTypes, CallTypes, RegistryTypes, Placed, Located, Called
<1> QED  BY <1>1, <1>2, <1>3, <1>4, StepCases

-----------------------------------------------------------------------------
(* Configuration: what is up has been accepted, and what is refused is      *)
(* refused for the first reason.                                            *)

LEMMA VettedInit == SystemInit => Vetted
  BY DEF SystemInit, Vetted

LEMMA VettedStep == Vetted /\ [Next]_allVars => Vetted'
<1> SUFFICES ASSUME Vetted, [Next]_allVars
             PROVE  Vetted'
  OBVIOUS
<1>1. CASE LoadFromFile
  BY <1>1 DEF LoadFromFile, Decide, Vetted
<1>2. CASE Validate
  BY <1>2 DEF Validate, Decide, Vetted
<1>3. CASE Build
  <2>1. /\ file' = file /\ phase = "build" /\ phase' = "up" /\ file \in Deployed
        /\ serverCfg' = [a \in Adapters |-> ServerCfg(a)]
    BY <1>3 DEF Build
  <2>2. /\ file \in Files /\ FileError(file) = None /\ LoadError(file) = None
        /\ file' \in Files /\ FileError(file') = None /\ LoadError(file') = None
    BY <2>1 DEF Vetted
  <2>3. ASSUME NEW a \in Stdio \cup HTTP
        PROVE  /\ a \in Stdio => serverCfg'[a].command
               /\ a \in HTTP => serverCfg'[a].url
    <3> DEFINE s == file.servers[Entry[a]]
    <3>1. Entry[a] \in DOMAIN file.servers /\ s.transport = IF a \in Stdio THEN "stdio" ELSE "http"
      BY <2>1, <2>3, EntryAssumption
    <3>2. WellFormedServer(s) /\ s \in ServerConfigs
      BY <2>2, <3>1, FilesAssumption, ValidateIsRight
    <3>3. (a \in Stdio => s.command) /\ (a \in HTTP => s.url)
      BY <3>1, <3>2 DEF WellFormedServer
    <3>4. serverCfg'[a] = ServerCfg(a)
      BY <2>1, <2>3 DEF Adapters
    <3>5. a \in Stdio => ServerCfg(a) = [s EXCEPT !.transport = "stdio"]
      BY DEF ServerCfg
    <3>6. a \in HTTP => ServerCfg(a) = [s EXCEPT !.transport = "http"]
      BY DEF ServerCfg
    <3> HIDE DEF s
    <3> QED  BY <3>2, <3>3, <3>4, <3>5, <3>6 DEF ServerConfigs
  <2> QED  BY <2>1, <2>2, <2>3 DEF Vetted
<1>4. CASE UNCHANGED <<appVars, serverCfg>>
  BY <1>4 DEF Vetted, appVars
<1>5. CASE Outside
  BY <1>4, <1>5 DEF Outside, Environment, Exits, Cancel, adapterVars
<1>6. ASSUME NEW c \in Callers, UNCHANGED appVars,
             \/ Bookkeeping(c) \/ CallOne(c) \/ CallNext(c)
             \/ (LocalStep(c) \/ DockerStep(c)) /\ UNCHANGED regVars
      PROVE  UNCHANGED serverCfg
  <2>1. CASE Bookkeeping(c)
    BY <2>1 DEF Bookkeeping, Use, WantLock, Get, Snapshot, Begin, Register, Unregister, Unlock,
       OneReturns, AllReturns, Leave, Finish, Keeps, adapterVars
  <2>2. CASE CallOne(c) \/ CallNext(c)
    BY <2>2 DEF CallOne, CallNext, Call, Start, Stop, HealthCheck, Enter, Race
  <2>3. CASE LocalStep(c) \/ DockerStep(c)
    BY <2>3 DEF LocalStep, DockerStep, Exec, ExecFails, SetContainerID, Started, StartFailed, Kill,
       NothingToKill, Wait, ContainerStopped, CheckProcess, CheckURL, DockerRun, DockerRunFails,
       DockerRm, DockerRmFails, CheckContainer, Keeps, adapterVars
  <2> QED  BY <1>6, <2>1, <2>2, <2>3
<1>7. CASE UNCHANGED allVars
  BY <1>4, <1>7 DEF allVars, vars, adapterVars
<1> QED  BY <1>1, <1>2, <1>3, <1>4, <1>5, <1>6, <1>7, StepCases

(* Every variable keeps its type (TypeOK), whatever the calls and whatever  *)
(* processes and docker do.                                                 *)
THEOREM TypeCorrect == Spec => []TypeOK
<1>1. TypeOK /\ Placed /\ Vetted /\ [Next]_allVars => (TypeOK /\ Placed /\ Vetted)'
  BY PlacedStep, VettedStep DEF Vetted
<1>2. SystemInit => TypeOK /\ Placed /\ Vetted
  BY PlacedInit, VettedInit
<1> QED  BY <1>1, <1>2, PTL DEF Spec

(* FileConfig.Validate accepts a file only if every entry is well-formed,   *)
(* and refuses another for its first bad entry, servers before containers   *)
(* (FirstErrorReported).                                                    *)
THEOREM FirstErrorIsReported == Spec => []FirstErrorReported
<1>1. Vetted => FirstErrorReported
  <2> SUFFICES ASSUME Vetted
               PROVE  FirstErrorReported
    OBVIOUS
  <2>1. file \in Files
    BY DEF Vetted
  <2>2. /\ phase \in {"build", "up"} => FileError(file) = None
        /\ phase = "refused" /\ LoadError(file) = None =>
              verdict = FileError(file) /\ FileError(file) # None
    BY DEF Vetted
  <2> QED  BY <2>1, <2>2, ValidateIsRight DEF FirstErrorReported
<1>2. Vetted /\ [Next]_allVars => Vetted'
  BY VettedStep
<1> QED  BY <1>1, <1>2, VettedInit, PTL DEF Spec

(* The two errors have one line each, behind a look at what Build took from *)
(* the file.                                                                *)
LEMMA ValidatedStep ==
    ASSUME TypeOK, Placed, Vetted, ValidatedStart, [Next]_allVars
    PROVE  ValidatedStart'
<1>1. CASE UNCHANGED err
  BY <1>1 DEF ValidatedStart
<1>2. CASE \E c \in Callers : err' = [err EXCEPT ![c] = "system"] \/ err' = [err EXCEPT ![c] = None]
  <2>1. None \notin {"no command", "no url"} /\ err \in [Callers -> {None, "system", "no command", "no url"}]
    BY VerdictAssumption DEF Reasons, TypeOK, CallTypes
  <2> QED  BY <1>2, <2>1 DEF ValidatedStart
<1>3. CASE LoadFromFile \/ Validate \/ Build \/ Outside \/ UNCHANGED allVars
  BY <1>1, <1>3 DEF LoadFromFile, Validate, Decide, Build, Outside, Environment, Exits, Cancel,
     allVars, vars, callVars
<1>4. ASSUME NEW c \in Callers, UNCHANGED appVars, phase = "up",
             \/ Bookkeeping(c) \/ CallOne(c) \/ CallNext(c)
             \/ (LocalStep(c) \/ DockerStep(c)) /\ UNCHANGED regVars
      PROVE  ValidatedStart'
  <2>1. CASE Bookkeeping(c)
    BY <1>1, <1>2, <2>1 DEF Bookkeeping, Use, WantLock, Get, Snapshot, Begin, Register, Unregister,
       Unlock, OneReturns, AllReturns, Leave, Finish, Goto
  <2>2. CASE CallOne(c) \/ CallNext(c)
    BY <1>2, <1>4, <2>2, CallPlaced, CallEnters
  <2>3. CASE ExecFails(c)
    BY <1>2, <1>4, <2>3 DEF ExecFails, Fails, At, Vetted
  <2>4. CASE CheckURL(c)
    BY <1>1, <1>2, <1>4, <2>4 DEF CheckURL, Fails, Goto, At, Vetted
  <2>5. CASE Exec(c) \/ SetContainerID(c) \/ Started(c) \/ StartFailed(c) \/ Kill(c) \/ Wait(c)
             \/ DockerRun(c) \/ DockerRm(c) \/ DockerRmFails(c)
    BY <1>1, <2>5 DEF Exec, SetContainerID, Started, StartFailed, Kill, Wait, DockerRun, DockerRm,
       DockerRmFails, Goto
  <2>6. CASE NothingToKill(c) \/ ContainerStopped(c) \/ CheckProcess(c) \/ DockerRunFails(c)
             \/ CheckContainer(c)
    BY <1>1, <1>2, <2>6 DEF NothingToKill, ContainerStopped, CheckProcess, DockerRunFails,
       CheckContainer, Fails, Goto
  <2> QED  BY <1>4, <2>1, <2>2, <2>3, <2>4, <2>5, <2>6 DEF LocalStep, DockerStep
<1> QED  BY <1>3, <1>4, StepCases

(* An adapter built from an accepted file never fails for want of a command *)
(* or of a URL (ValidatedStart).                                            *)
THEOREM ValidatedStarts == Spec => []ValidatedStart
<1>1. SystemInit => ValidatedStart
  BY VerdictAssumption DEF SystemInit, Init, ValidatedStart, Reasons
<1>2. TypeOK /\ Placed /\ Vetted /\ ValidatedStart /\ [Next]_allVars
          => (TypeOK /\ Placed /\ Vetted /\ ValidatedStart)'
  BY PlacedStep, VettedStep, ValidatedStep DEF Vetted
<1> QED  BY <1>1, <1>2, PlacedInit, VettedInit, PTL DEF Spec
=============================================================================
