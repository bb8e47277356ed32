--------------------------- MODULE AdapterProofs ---------------------------
(***************************************************************************)
(* Theorems about what Start, Stop, StartAll and StopAll achieve, for      *)
(* every number of adapters, goroutines and processes.                     *)
(***************************************************************************)
EXTENDS SupervisionProofs

USE NoneAssumption, AdaptersAssumption, NamesAssumption

(* The part of the invariant that is about the adapters.                    *)
Kept == ProcessesOwned /\ Exclusive /\ SteadyQuiet /\ StatesTell /\ Achieved /\ Swept

LEMMA KeptInit == SystemInit => Kept
<1> SUFFICES ASSUME SystemInit
             PROVE  Kept
  OBVIOUS
<1>1. /\ \A a \in Adapters : state[a] = "idle"
      /\ \A a \in Stdio : cmd[a] = None
      /\ \A c \in Callers : pc[c] = "idle" /\ steady[c] = {}
  BY DEF SystemInit, Init, RegistryInit
<1>2. \A c \in Callers, a \in Adapters : ~Starting(c, a) /\ ~Stopping(c, a)
  BY <1>1 DEF Starting, Stopping, InStart, InStop
<1>3. ProcessesOwned /\ StatesTell
  BY <1>1 DEF ProcessesOwned, StatesTell, Adapters
<1>4. Exclusive /\ SteadyQuiet /\ Swept
  BY <1>1, <1>2 DEF Exclusive, SteadyQuiet, Swept
<1>5. Achieved
  BY <1>1 DEF Achieved
<1> QED  BY <1>3, <1>4, <1>5 DEF Kept

-----------------------------------------------------------------------------
(* What histories say of a caller in a method that nobody has disturbed.    *)
LEMMA NobodyElse ==
    ASSUME Placed, Exclusive, SteadyQuiet, NEW c \in Callers, NEW a \in Adapters,
           Undisturbed(c, a), NEW d \in Callers \ {c}
    PROVE  /\ Starting(c, a) => ~Starting(d, a) /\ ~Stopping(d, a)
           /\ Stopping(c, a) => ~Starting(d, a)
<1>1. CASE a \notin raced
  BY <1>1 DEF Exclusive
<1>2. CASE op[c] \in {"StartAll", "StopAll"} /\ a \in steady[c]
  <2>1. Starting(c, a) => op[c] = "StartAll"
    BY <1>2 DEF Starting, Placed, Called, Starts
  <2> QED  BY <1>2, <2>1 DEF SteadyQuiet
<1> QED  BY <1>1, <1>2 DEF Undisturbed

(* A method step of one caller: the others are where they were, and it      *)
(* starts or stops nothing that it was not already starting or stopping.    *)
LEMMA MethodOverlap ==
    ASSUME TypeOK, NEW c \in Callers, LocalStep(c) \/ DockerStep(c)
    PROVE  /\ \A d \in Callers, a \in Adapters :
                /\ Starting(d, a)' => Starting(d, a)
                /\ Stopping(d, a)' => Stopping(d, a)
           /\ \A d \in Callers \ {c}, a \in Adapters :
                /\ Starting(d, a)' <=> Starting(d, a)
                /\ Stopping(d, a)' <=> Stopping(d, a)
           /\ \A d \in Callers \ {c} : pc'[d] = pc[d] /\ err'[d] = err[d]
<1>1. /\ on' = on /\ <<pc[c], pc'[c]>> \in Moves
      /\ pc' = [pc EXCEPT ![c] = pc'[c]] /\ err' = [err EXCEPT ![c] = err'[c]]
  BY MethodMoves
<1>2. pc'[c] \in InStart => pc[c] \in InStart
  BY <1>1 DEF Moves, InStart
<1>3. pc'[c] \in InStop => pc[c] \in InStop
  BY <1>1 DEF Moves, InStop
<1>4. \A d \in Callers \ {c} : pc'[d] = pc[d] /\ err'[d] = err[d]
  BY <1>1 DEF TypeOK, CallTypes
<1> QED  BY <1>1, <1>2, <1>3, <1>4 DEF Starting, Stopping

(* It keeps what others have achieved of an adapter that it neither starts  *)
(* nor stops, ...                                                           *)
LEMMA MethodKeeps ==
    ASSUME TypeOK, Placed, ProcessesOwned, NEW c \in Callers, LocalStep(c) \/ DockerStep(c),
           NEW a \in Adapters
    PROVE  /\ ~Starting(c, a) /\ Gone(a) => Gone(a)'
           /\ ~Starting(c, a) /\ ~Stopping(c, a) /\ Launched(a) => Launched(a)'
           /\ a # on[c] => state'[a] = state[a]
           /\ a \in Docker /\ ~Starting(c, a) /\ ~Stopping(c, a) => container'[a] = container[a]
<1> USE DEF At, SetState, Keeps, adapterVars
<1>1. AdapterTypes /\ Located(c)
  BY DEF TypeOK, Placed
<1>2. UNCHANGED <<cmd, proc, containerID, container>> =>
          (Gone(a) => Gone(a)') /\ (Launched(a) => Launched(a)')
  BY DEF Gone, Launched
<1>4. CASE Exec(c)
  <2>1. PICK p \in Procs : /\ proc[p] = "new" /\ proc' = [proc EXCEPT ![p] = "live"]
                           /\ cmd' = [cmd EXCEPT ![on[c]] = p]
    BY <1>4 DEF Exec
  <2>2. Starting(c, a) \/ a # on[c]
    BY <1>4 DEF Exec, Starting, InStart
  <2>3. UNCHANGED <<state, containerID, container>>
    BY <1>4 DEF Exec
  <2>4. a \in Stdio /\ a # on[c] => cmd'[a] = cmd[a]
    BY <1>1, <2>1 DEF AdapterTypes
  <2>5. a \in Stdio /\ a # on[c] /\ cmd[a] # None => proc'[cmd[a]] = proc[cmd[a]]
    BY <1>1, <2>1 DEF AdapterTypes, ProcessesOwned
  <2> QED  BY <2>2, <2>3, <2>4, <2>5 DEF Gone, Launched, Adapters
<1>5. CASE ExecFails(c)
  <2>1. Starting(c, a) \/ a # on[c]
    BY <1>5 DEF ExecFails, Starting, InStart
  <2>2. UNCHANGED <<state, proc, containerID, container>> /\ cmd' = [cmd EXCEPT ![on[c]] = None]
    BY <1>5 DEF ExecFails
  <2> QED  BY <1>1, <2>1, <2>2 DEF Gone, Launched, Adapters, AdapterTypes
<1>6. CASE Kill(c) \/ Wait(c)
  <2>1. (Stopping(c, a) \/ a # on[c]) /\ on[c] \in Stdio
    BY <1>6 DEF Kill, Wait, Stopping, InStop
  <2>2. /\ UNCHANGED <<cmd, containerID, container>>
        /\ \/ proc' = proc
           \/ proc[cmd[on[c]]] # "reaped" /\ proc' = [proc EXCEPT ![cmd[on[c]]] = "killed"]
           \/ proc' = [proc EXCEPT ![cmd[on[c]]] = "reaped"]
    BY <1>6 DEF Kill, Wait
  <2>3. a # on[c] => state'[a] = state[a]
    BY <1>1, <1>6 DEF Kill, Wait, AdapterTypes
  <2>4. a \in Stdio /\ cmd[a] # None => cmd[a] \in Procs
    BY <1>1 DEF AdapterTypes
  <2>5. a \in Stdio /\ a # on[c] /\ cmd[a] # None => proc'[cmd[a]] = proc[cmd[a]]
    <3>1. a \in Stdio /\ a # on[c] /\ cmd[a] # None => cmd[on[c]] # cmd[a]
      BY <2>1 DEF ProcessesOwned
    <3> QED  BY <1>1, <2>2, <2>4, <3>1 DEF AdapterTypes
  <2>6. a \in Stdio /\ cmd[a] # None /\ proc[cmd[a]] = "reaped" => proc'[cmd[a]] = "reaped"
    BY <1>1, <2>2, <2>4 DEF AdapterTypes
  <2> QED  BY <2>1, <2>2, <2>3, <2>5, <2>6 DEF Gone, Launched, Adapters
<1>7. CASE DockerRun(c) \/ DockerRunFails(c) \/ SetContainerID(c)
  <2>1. (Starting(c, a) \/ a # on[c]) /\ on[c] \in Docker
    BY <1>7 DEF DockerRun, DockerRunFails, SetContainerID, Starting, InStart
  <2>2. UNCHANGED <<state, cmd, proc>>
    BY <1>7 DEF DockerRun, DockerRunFails, SetContainerID
  <2>3. a \in Docker /\ a # on[c] => containerID'[a] = containerID[a] /\ container'[a] = container[a]
    BY <1>1, <1>7 DEF DockerRun, DockerRunFails, SetContainerID, AdapterTypes
  <2> QED  BY <2>1, <2>2, <2>3 DEF Gone, Launched, Adapters
<1>8. CASE DockerRm(c) \/ DockerRmFails(c)
  <2>1. (Stopping(c, a) \/ a # on[c]) /\ on[c] \in Docker
    BY <1>8 DEF DockerRm, DockerRmFails, Stopping, InStop
  <2>2. /\ UNCHANGED <<state, cmd, proc, containerID>>
        /\ container' = container \/ container' = [container EXCEPT ![on[c]] = "absent"]
    BY <1>8 DEF DockerRm, DockerRmFails
  <2>3. a \in Docker => /\ a # on[c] => container'[a] = container[a]
                        /\ container[a] = "absent" => container'[a] = "absent"
    BY <1>1, <2>2 DEF AdapterTypes
  <2> QED  BY <2>1, <2>2, <2>3 DEF Gone, Launched, Adapters
<1>9. CASE \/ Started(c) \/ StartFailed(c) \/ NothingToKill(c) \/ ContainerStopped(c)
           \/ CheckProcess(c) \/ CheckURL(c) \/ CheckContainer(c)
  <2>1. UNCHANGED <<cmd, proc, containerID, container>> /\ (a # on[c] => state'[a] = state[a])
    BY <1>1, <1>9 DEF Started, StartFailed, NothingToKill, ContainerStopped, CheckProcess, CheckURL,
       CheckContainer, AdapterTypes
  <2> QED  BY <1>2, <2>1
<1> QED  BY <1>4, <1>5, <1>6, <1>7, <1>8, <1>9 DEF LocalStep, DockerStep

(* ... and this is what it does to the one it is at.                        *)
Effect(c, a) ==
    \/ /\ pc[c] = "started" /\ pc'[c] = "returned" /\ state'[a] = "running"
       /\ Launched(a) => Launched(a)'
    \/ /\ pc[c] \in InStop /\ pc'[c] = "returned" /\ state'[a] = "stopped"
       /\ pc[c] # "removed" => Gone(a)'
    \/ pc'[c] = "returned" /\ state'[a] = "error" /\ err'[c] # None
    \/ pc[c] = "HealthCheck" /\ state'[a] = state[a]
    \/ /\ pc[c] \in InStart /\ pc'[c] \in InStart /\ state'[a] = state[a]
       /\ pc'[c] = "started" /\ (pc[c] = "exec" \/ container[a] # "absent") => Launched(a)'
       /\ pc'[c] = "set id" => container'[a] # "absent"
    \/ /\ pc[c] \in InStop /\ pc'[c] \in InStop /\ state'[a] = state[a]
       /\ pc'[c] = "removed" => Gone(a)'

LEMMA MethodEffect ==
    ASSUME TypeOK, Placed, ProcessesOwned, NEW c \in Callers, LocalStep(c) \/ DockerStep(c)
    PROVE  \A a \in Adapters : on[c] = a => Effect(c, a)
<1> SUFFICES ASSUME NEW a \in Adapters, a = on[c]
             PROVE  Effect(c, a)
  OBVIOUS
<1> USE DEF At, SetState, Keeps, adapterVars, Goto, Fails
<1>1. /\ AdapterTypes /\ Located(c) /\ Called(c) /\ pc \in [Callers -> Labels]
      /\ DOMAIN err = Callers
  BY DEF TypeOK, Placed, CallTypes
<1>2. None \notin {"system", "no command", "no url"}
  BY VerdictAssumption DEF Reasons
<1>3. CASE Exec(c)
  <2>1. PICK p \in Procs : proc' = [proc EXCEPT ![p] = "live"] /\ cmd' = [cmd EXCEPT ![a] = p]
    BY <1>3 DEF Exec
  <2>2. a \in Stdio /\ pc[c] = "exec" /\ pc'[c] = "started" /\ state' = state
    BY <1>1, <1>3 DEF Exec
  <2>3. cmd'[a] = p /\ proc'[p] = "live" /\ p # None
    BY <1>1, <2>1, <2>2 DEF AdapterTypes
  <2>4. Launched(a)'
    BY <1>3, <2>2, <2>3 DEF Launched, Exec
  <2> QED  BY <2>2, <2>4 DEF Effect, InStart
<1>4. CASE ExecFails(c) \/ DockerRunFails(c)
  BY <1>1, <1>4 DEF ExecFails, DockerRunFails, Effect, InStart
<1>5. CASE DockerRun(c)
  BY <1>1, <1>5 DEF DockerRun, Effect, InStart, AdapterTypes
<1>6. CASE SetContainerID(c)
  <2>1. a \in Docker /\ pc[c] = "set id" /\ pc'[c] = "started" /\ state' = state
        /\ containerID'[a] /\ container' = container
    BY <1>1, <1>6 DEF SetContainerID, AdapterTypes
  <2>2. a \notin Stdio /\ on' = on
    BY <1>6, <2>1 DEF SetContainerID
  <2>3. container[a] # "absent" => Launched(a)'
    BY <2>1, <2>2 DEF Launched
  <2> QED  BY <2>1, <2>3 DEF Effect, InStart
<1>7. CASE Started(c)
  <2>1. /\ pc[c] = "started" /\ pc'[c] = "returned" /\ a \in Adapters /\ state'[a] = "running"
        /\ UNCHANGED <<on, cmd, proc, containerID, container>>
    BY <1>1, <1>7 DEF Started, AdapterTypes, Located, Adapters
  <2>2. Launched(a) => Launched(a)'
    BY <2>1 DEF Launched
  <2> QED  BY <2>1, <2>2 DEF Effect
<1>8. CASE StartFailed(c)
  <2>1. /\ pc[c] = "failed" /\ pc'[c] = "returned" /\ a \in Adapters /\ state'[a] = "error"
        /\ err' = err
    BY <1>1, <1>8 DEF StartFailed, AdapterTypes, Located, Adapters
  <2> QED  BY <1>1, <2>1 DEF Effect, Called
<1>9. CASE Kill(c)
  BY <1>1, <1>9 DEF Kill, Effect, InStop
<1>10. CASE NothingToKill(c)
  <2>1. /\ pc[c] = "kill" /\ pc'[c] = "returned" /\ a \in Stdio /\ UNCHANGED <<on, cmd, proc>>
        /\ \/ cmd[a] = None /\ state'[a] = "stopped"
           \/ state'[a] = "error" /\ err'[c] = "system"
    BY <1>1, <1>10 DEF NothingToKill, AdapterTypes, Adapters
  <2>2. cmd[a] = None => Gone(a)'
    BY <2>1 DEF Gone
  <2> QED  BY <1>2, <2>1, <2>2 DEF Effect, InStop
<1>11. CASE Wait(c)
  <2>1. /\ pc[c] = "wait" /\ pc'[c] = "returned" /\ a \in Stdio /\ UNCHANGED <<on, cmd>>
        /\ state'[a] = "stopped" /\ proc' = [proc EXCEPT ![cmd[a]] = "reaped"]
    BY <1>1, <1>11 DEF Wait, AdapterTypes, Adapters
  <2>2. cmd[a] # None => proc'[cmd[a]] = "reaped"
    BY <1>1, <2>1 DEF AdapterTypes
  <2>3. Gone(a)'
    BY <2>1, <2>2 DEF Gone
  <2> QED  BY <2>1, <2>3 DEF Effect, InStop
<1>12. CASE DockerRm(c)
  <2>1. /\ pc[c] = "docker rm" /\ pc'[c] = "removed" /\ a \in Docker /\ on' = on
        /\ state' = state /\ container'[a] = "absent"
    BY <1>1, <1>12 DEF DockerRm, AdapterTypes
  <2>2. a \notin Stdio
    BY <2>1
  <2>3. Gone(a)'
    BY <2>1, <2>2 DEF Gone
  <2> QED  BY <2>1, <2>3 DEF Effect, InStop
<1>13. CASE DockerRmFails(c)
  BY <1>1, <1>13 DEF DockerRmFails, Effect, InStop
<1>14. CASE ContainerStopped(c)
  <2>1. /\ a \in Docker /\ pc'[c] = "returned"
        /\ \/ pc[c] = "removed" /\ state'[a] = "stopped"
           \/ state'[a] = "error" /\ err'[c] = "system"
    BY <1>1, <1>14 DEF ContainerStopped, AdapterTypes, Located, InStop, Adapters
  <2> QED  BY <1>2, <2>1 DEF Effect, InStop
<1>15. CASE CheckProcess(c) \/ CheckURL(c) \/ CheckContainer(c)
  BY <1>15 DEF CheckProcess, CheckURL, CheckContainer, Effect
<1> QED  BY <1>3, <1>4, <1>5, <1>6, <1>7, <1>8, <1>9, <1>10, <1>11, <1>12, <1>13, <1>14, <1>15
         DEF LocalStep, DockerStep

(* A caller that takes a method step is at an adapter.                      *)
LEMMA MethodAt ==
    ASSUME TypeOK, Placed, NEW c \in Callers, LocalStep(c) \/ DockerStep(c)
    PROVE  on[c] \in Adapters
<1>1. <<pc[c], pc'[c]>> \in Moves /\ Located(c)
  BY MethodMoves DEF Placed
<1> QED  BY <1>1 DEF Moves, Located, InStop, Adapters

(* The adapters that histories vouch for are disturbed by no other caller.  *)
LEMMA MethodSpares ==
    ASSUME TypeOK, Placed, ProcessesOwned, Exclusive, SteadyQuiet, NEW c \in Callers,
           LocalStep(c) \/ DockerStep(c), NEW d \in Callers \ {c}, NEW a \in Adapters,
           Undisturbed(d, a)
    PROVE  /\ Starting(d, a) /\ Launched(a) => Launched(a)'
           /\ Starting(d, a) /\ a \in Docker => container'[a] = container[a]
           /\ Stopping(d, a) /\ Gone(a) => Gone(a)'
<1>1. /\ Starting(d, a) => ~Starting(c, a) /\ ~Stopping(c, a)
      /\ Stopping(d, a) => ~Starting(c, a)
  BY NobodyElse
<1>2. /\ ~Starting(c, a) /\ Gone(a) => Gone(a)'
      /\ ~Starting(c, a) /\ ~Stopping(c, a) /\ Launched(a) => Launched(a)'
      /\ a \in Docker /\ ~Starting(c, a) /\ ~Stopping(c, a) => container'[a] = container[a]
  BY MethodKeeps
<1> QED  BY <1>1, <1>2

(* So a method step preserves the invariant, part by part.                  *)
LEMMA MethodOwned ==
    ASSUME TypeOK, Placed, ProcessesOwned, NEW c \in Callers, LocalStep(c) \/ DockerStep(c)
    PROVE  ProcessesOwned'
<1> USE DEF At, Keeps, adapterVars
<1>1. AdapterTypes /\ Located(c)
  BY DEF TypeOK, Placed
<1>2. CASE Exec(c)
  <2>1. PICK p \in Procs : /\ proc[p] = "new" /\ proc' = [proc EXCEPT ![p] = "live"]
                           /\ cmd' = [cmd EXCEPT ![on[c]] = p]
    BY <1>2 DEF Exec
  <2>2. \A b \in Stdio : cmd[b] # p
    BY <2>1 DEF ProcessesOwned
  <2>3. \A b \in Stdio \ {on[c]} : cmd'[b] = cmd[b]
    BY <1>1, <2>1 DEF AdapterTypes
  <2>4. on[c] \in Stdio => cmd'[on[c]] = p
    BY <1>1, <2>1 DEF AdapterTypes
  <2>5. proc'[p] = "live" /\ \A q \in Procs \ {p} : proc'[q] = proc[q]
    BY <1>1, <2>1 DEF AdapterTypes
  <2>6. \A b \in Stdio : cmd[b] # None => cmd[b] \in Procs
    BY <1>1 DEF AdapterTypes
  <2> QED  BY <2>2, <2>3, <2>4, <2>5, <2>6 DEF ProcessesOwned
<1>3. CASE ExecFails(c)
  <2>1. cmd' = [cmd EXCEPT ![on[c]] = None] /\ proc' = proc
    BY <1>3 DEF ExecFails
  <2> QED  BY <1>1, <2>1 DEF ProcessesOwned, AdapterTypes
<1>4. CASE UNCHANGED cmd /\ \A p \in Procs : proc'[p] = "new" => proc[p] = "new"
  BY <1>1, <1>4 DEF ProcessesOwned, AdapterTypes
<1>5. CASE Kill(c) \/ Wait(c)
  <2>1. cmd' = cmd /\ \E p, s : s # "new" /\ (proc' = proc \/ proc' = [proc EXCEPT ![p] = s])
    BY <1>5 DEF Kill, Wait
  <2> QED  BY <1>1, <1>4, <2>1 DEF AdapterTypes
<1>6. CASE UNCHANGED <<cmd, proc>>
  BY <1>6 DEF ProcessesOwned
<1> QED
  BY <1>2, <1>3, <1>5, <1>6 DEF LocalStep, DockerStep, SetContainerID, Started, StartFailed,
     NothingToKill, ContainerStopped, CheckProcess, CheckURL, DockerRun, DockerRunFails, DockerRm,
     DockerRmFails, CheckContainer

LEMMA MethodTells ==
    ASSUME TypeOK, Placed, Kept, NEW c \in Callers, LocalStep(c) \/ DockerStep(c)
    PROVE  StatesTell'
<1> USE DEF Kept
<1>a. PICK a \in Adapters : a = on[c]
  BY MethodAt
<1>1. UNCHANGED <<on, raced>> /\ <<pc[c], pc'[c]>> \in Moves
  BY MethodMoves
<1>2. \A d \in Callers, b \in Adapters :
        /\ (Starting(d, b)' => Starting(d, b)) /\ (Stopping(d, b)' => Stopping(d, b))
        /\ d # c => (Starting(d, b)' <=> Starting(d, b)) /\ (Stopping(d, b)' <=> Stopping(d, b))
  BY MethodOverlap
<1>3. \A b \in Adapters :
        /\ ~Starting(c, b) /\ Gone(b) => Gone(b)'
        /\ ~Starting(c, b) /\ ~Stopping(c, b) /\ Launched(b) => Launched(b)'
        /\ b # a => state'[b] = state[b] /\ ~Starting(c, b) /\ ~Stopping(c, b)
  BY <1>a, MethodKeeps DEF Starting, Stopping
<1>4. Effect(c, a)
  BY <1>a, MethodEffect
<1>5. pc'[c] \notin InStart => ~Starting(c, a)'
  BY DEF Starting
<1>6. pc'[c] \notin InStart \cup InStop => ~Starting(c, a)' /\ ~Stopping(c, a)'
  BY DEF Starting, Stopping
<1>7. /\ (pc[c] \in InStart <=> Starting(c, a)) /\ (pc[c] \in InStop <=> Stopping(c, a))
      /\ (pc'[c] \in InStart => Starting(c, a)')
  BY <1>1, <1>a DEF Starting, Stopping
<1>8. /\ "returned" \notin InStart \cup InStop /\ "HealthCheck" \notin InStart \cup InStop
      /\ "started" \in InStart /\ InStart \cap InStop = {}
  BY DEF InStart, InStop
<1>9. ASSUME NEW b \in Stdio, state'[b] = "stopped"
      PROVE  Gone(b)' \/ \E d \in Callers : Starting(d, b)'
  <2>1. b \in Adapters
    BY DEF Adapters
  <2>2. ASSUME state[b] = "stopped", ~Starting(c, b)
        PROVE  Gone(b)' \/ \E d \in Callers : Starting(d, b)'
    <3>1. Gone(b) \/ \E d \in Callers : Starting(d, b)
      BY <2>2 DEF StatesTell
    <3> QED  BY <1>2, <1>3, <2>1, <2>2, <3>1
  <2>3. CASE b # a
    BY <1>3, <1>9, <2>1, <2>2, <2>3
  <2>4. CASE b = a
    <3>1. pc[c] # "removed"
      BY <1>a, <2>4 DEF Placed, Located, InStop
    <3> QED  BY <1>4, <1>7, <1>8, <1>9, <2>2, <2>4, <3>1 DEF Effect
  <2> QED  BY <2>3, <2>4
<1>10. ASSUME NEW b \in Adapters \ raced, state'[b] = "running"
       PROVE  Launched(b)' /\ ~Busy(b)'
  <2>1. ASSUME state[b] = "running"
        PROVE  Launched(b)' /\ ~Busy(b)'
    <3>1. Launched(b) /\ ~Busy(b)
      BY <2>1 DEF StatesTell
    <3>2. \A d \in Callers : ~Starting(d, b) /\ ~Stopping(d, b)
      BY <3>1 DEF Busy
    <3>3. \A d \in Callers : ~Starting(d, b)' /\ ~Stopping(d, b)'
      BY <1>2, <3>2
    <3>4. Launched(b)'
      BY <1>3, <3>1, <3>2
    <3> QED  BY <3>3, <3>4 DEF Busy
  <2>2. CASE b = a /\ pc[c] = "started" /\ pc'[c] = "returned" /\ (Launched(a) => Launched(a)')
    <3>1. Launched(a)
      BY <1>a, <1>10, <2>2 DEF Achieved, Undisturbed
    <3>2. \A d \in Callers \ {c} : ~Starting(d, b) /\ ~Stopping(d, b)
      BY <1>7, <1>8, <2>2 DEF Exclusive
    <3>3. \A d \in Callers : ~Starting(d, b)' /\ ~Stopping(d, b)'
      BY <1>2, <1>6, <1>8, <2>2, <3>2
    <3> QED  BY <2>2, <3>1, <3>3 DEF Busy
  <2> QED  BY <1>3, <1>4, <1>10, <2>1, <2>2 DEF Effect
<1>11. ASSUME NEW b \in Adapters \ raced, state'[b] = "stopped"
       PROVE  Gone(b)' /\ \A d \in Callers : ~Starting(d, b)'
  <2>1. ASSUME state[b] = "stopped"
        PROVE  Gone(b)' /\ \A d \in Callers : ~Starting(d, b)'
    <3>1. Gone(b) /\ \A d \in Callers : ~Starting(d, b)
      BY <2>1 DEF StatesTell
    <3> QED  BY <1>2, <1>3, <3>1
  <2>2. CASE b = a /\ pc[c] \in InStop /\ pc'[c] = "returned" /\ (pc[c] # "removed" => Gone(a)')
    <3>1. Stopping(c, a) /\ ~Starting(c, a)
      BY <1>7, <1>8, <2>2
    <3>2. pc[c] = "removed" => Gone(a)
      BY <1>a, <1>11, <2>2 DEF Achieved, Undisturbed
    <3>3. \A d \in Callers \ {c} : ~Starting(d, b)
      BY <2>2, <3>1 DEF Exclusive
    <3> QED  BY <1>2, <1>3, <2>2, <3>1, <3>2, <3>3
  <2> QED  BY <1>3, <1>4, <1>11, <2>1, <2>2 DEF Effect
<1> QED  BY <1>1, <1>9, <1>10, <1>11 DEF StatesTell

LEMMA MethodAchieves ==
    ASSUME TypeOK, Placed, Kept, NEW c \in Callers, LocalStep(c) \/ DockerStep(c), UNCHANGED regVars
    PROVE  Achieved'
<1> USE DEF Kept
<1>1. UNCHANGED <<on, raced, op, steady>> /\ <<pc[c], pc'[c]>> \in Moves
  BY MethodMoves DEF regVars, useVars
<1>2. SUFFICES ASSUME NEW d \in Callers, NEW a \in Adapters, on[d] = a, Undisturbed(d, a)
               PROVE  /\ pc'[d] = "set id" => container'[a] # "absent"
                      /\ pc'[d] = "started" => Launched(a)'
                      /\ pc'[d] = "removed" => Gone(a)'
  BY <1>1 DEF Achieved, Undisturbed
<1>3. /\ pc[d] = "set id" => container[a] # "absent"
      /\ pc[d] = "started" => Launched(a)
      /\ pc[d] = "removed" => Gone(a)
  BY <1>2 DEF Achieved
<1>4. CASE d # c
  <2>1. pc'[d] = pc[d]
    BY <1>4, MethodOverlap
  <2>2. /\ pc[d] \in {"set id", "started"} => Starting(d, a)
        /\ pc[d] = "set id" => a \in Docker
        /\ pc[d] = "removed" => Stopping(d, a)
    BY <1>2 DEF Starting, Stopping, InStart, InStop, Placed, Located
  <2> QED  BY <1>2, <1>3, <1>4, <2>1, <2>2, MethodSpares
<1>5. CASE d = c
  <2>1. Effect(c, a)
    BY <1>2, <1>5, MethodEffect
  <2>2. pc'[c] = "started" => pc[c] = "exec" \/ container[a] # "absent"
    BY <1>1, <1>3, <1>5 DEF Moves
  <2>3. pc[c] = "HealthCheck" => pc'[c] = "returned"
    BY <1>1 DEF Moves
  <2> QED  BY <1>5, <2>1, <2>2, <2>3 DEF Effect, InStart, InStop
<1> QED  BY <1>4, <1>5

LEMMA MethodSweeps ==
    ASSUME TypeOK, Placed, Kept, NEW c \in Callers, LocalStep(c) \/ DockerStep(c), UNCHANGED regVars
    PROVE  Swept'
<1> USE DEF Kept
<1>1. UNCHANGED <<on, raced, op, todo, failed, steady>> /\ <<pc[c], pc'[c]>> \in Moves
  BY MethodMoves DEF regVars, useVars
<1>2. \A b \in Adapters :
        /\ ~Starting(c, b) /\ Gone(b) => Gone(b)'
        /\ ~Starting(c, b) /\ ~Stopping(c, b) /\ Launched(b) => Launched(b)'
  BY MethodKeeps
<1>3. \A b \in Adapters : on[c] = b => Effect(c, b)
  BY MethodEffect
<1>4. /\ op[c] = "StopAll" => pc[c] \notin InStart
      /\ op[c] = "StartAll" => pc[c] \notin InStop
  BY DEF Placed, Called, Starts, Stops
<1>5. /\ "started" \in InStart /\ "removed" \in InStop /\ "returned" \notin InStart \cup InStop
      /\ "HealthCheck" \notin InStart \cup InStop /\ pc[c] # "returned"
  BY <1>1 DEF InStart, InStop, Moves
<1>6. ASSUME NEW d \in Callers, NEW b \in steady[d] \ todo[d], op[d] = "StopAll"
      PROVE  Gone(b)' \/ Underway(d, b)' \/ b \in failed[d]
  <2>1. b \in Adapters
    BY DEF TypeOK, RegistryTypes
  <2>2. Gone(b) \/ Underway(d, b) \/ b \in failed[d]
    BY <1>6 DEF Swept
  <2>3. Gone(b) => Gone(b)'
    <3>1. ~Starting(c, b)
      BY <1>4, <1>6 DEF SteadyQuiet, Starting
    <3> QED  BY <1>2, <2>1, <3>1
  <2>4. CASE d # c /\ Underway(d, b)
    BY <1>1, <2>4, MethodOverlap DEF Underway
  <2>5. CASE d = c /\ Underway(c, b)
    <3>1. b = on[c] /\ pc[c] \in InStop
      BY <1>4, <1>5, <1>6, <2>5 DEF Underway
    <3>2. pc[c] = "removed" => Gone(b)
      BY <1>6, <2>1, <2>5, <3>1 DEF Achieved, Undisturbed
    <3>3. pc'[c] \in InStop \/ (pc'[c] = "returned" /\ err'[c] # None) => Underway(c, b)'
      BY <1>1, <3>1 DEF Underway
    <3>4. Effect(c, b)
      BY <1>3, <2>1, <3>1
    <3>5. "HealthCheck" \notin InStop /\ InStart \cap InStop = {}
      BY DEF InStart, InStop
    <3> QED  BY <1>5, <2>3, <2>5, <3>1, <3>2, <3>3, <3>4, <3>5 DEF Effect
  <2> QED  BY <2>2, <2>3, <2>4, <2>5
<1>7. ASSUME NEW d \in Callers, NEW b \in steady[d] \ todo[d], op[d] = "StartAll"
      PROVE  Launched(b)' \/ Underway(d, b)' \/ failed[d] # {}
  <2>1. b \in Adapters
    BY DEF TypeOK, RegistryTypes
  <2>2. Launched(b) \/ Underway(d, b) \/ failed[d] # {}
    BY <1>7 DEF Swept
  <2>3. CASE d # c /\ Launched(b)
    <3>1. ~Starting(c, b) /\ ~Stopping(c, b)
      BY <1>7, <2>3 DEF SteadyQuiet
    <3> QED  BY <1>2, <2>1, <2>3, <3>1
  <2>4. CASE d # c /\ Underway(d, b)
    BY <1>1, <2>4, MethodOverlap DEF Underway
  <2>5. CASE d = c /\ (b # on[c] \/ pc[c] \notin InStart) /\ Launched(b)
    <3>1. ~Starting(c, b) /\ ~Stopping(c, b)
      BY <1>4, <1>7, <2>5 DEF Starting, Stopping
    <3> QED  BY <1>2, <2>1, <2>5, <3>1
  <2>6. CASE d = c /\ b = on[c] /\ pc[c] \in InStart
    <3>1. pc[c] = "started" => Launched(b)
      BY <1>7, <2>1, <2>6 DEF Achieved, Undisturbed
    <3>2. pc'[c] \in InStart \/ (pc'[c] = "returned" /\ err'[c] # None) => Underway(c, b)'
      BY <1>1, <2>6 DEF Underway
    <3>3. Effect(c, b)
      BY <1>3, <2>1, <2>6
    <3>4. "HealthCheck" \notin InStart /\ InStart \cap InStop = {}
      BY DEF InStart, InStop
    <3> QED  BY <1>5, <2>6, <3>1, <3>2, <3>3, <3>4 DEF Effect
  <2>7. d = c /\ Underway(c, b) => b = on[c] /\ pc[c] \in InStart
    BY <1>4, <1>5, <1>7 DEF Underway
  <2> QED  BY <2>2, <2>3, <2>4, <2>5, <2>6, <2>7
<1> QED  BY <1>1, <1>6, <1>7 DEF Swept

LEMMA MethodKept ==
    ASSUME TypeOK, Placed, Kept, NEW c \in Callers, LocalStep(c) \/ DockerStep(c), UNCHANGED regVars
    PROVE  Kept'
<1> USE DEF Kept
<1>1. UNCHANGED <<raced, op, steady>>
  BY MethodMoves DEF regVars, useVars
<1>2. \A d \in Callers, b \in Adapters :
        (Starting(d, b)' => Starting(d, b)) /\ (Stopping(d, b)' => Stopping(d, b))
  BY MethodOverlap
<1>3. Exclusive'
  BY <1>1, <1>2 DEF Exclusive
<1>4. SteadyQuiet'
  BY <1>1, <1>2 DEF SteadyQuiet, TypeOK, RegistryTypes
<1> QED  BY <1>3, <1>4, MethodOwned, MethodTells, MethodAchieves, MethodSweeps

-----------------------------------------------------------------------------
(* The steps by which a caller enters a method: what they note of the       *)
(* adapter it enters and of the one it comes from.                          *)
Accounts(c, a) ==
    /\ op' = op
    /\ \A d \in Callers \ {c} : todo'[d] = todo[d] /\ failed'[d] = failed[d]
    /\ \/ pc[c] = "Get" /\ op[c] \in {"Start", "Stop"}
       \/ /\ pc[c] \in {"loop", "returned"} /\ todo'[c] = todo[c] \ {a} /\ failed[c] \subseteq failed'[c]
          /\ pc[c] = "returned" /\ err[c] # None => on[c] \in failed'[c]

LEMMA CallAccounts ==
    ASSUME TypeOK, Placed, NEW c \in Callers, CallOne(c) \/ CallNext(c)
    PROVE  \E a \in Adapters : Call(c, a) /\ Disturb(c, a) /\ Accounts(c, a)
<1>1. CASE CallOne(c)
  <2>1. arg[c] \in Adapters /\ op[c] \in {"Start", "Stop"}
    BY <1>1 DEF CallOne, Placed, Called
  <2> QED  BY <1>1, <2>1 DEF CallOne, Accounts
<1>2. CASE CallNext(c)
  <2>1. PICK a \in todo[c] : Call(c, a) /\ Disturb(c, a) /\ todo' = [todo EXCEPT ![c] = @ \ {a}]
    BY <1>2 DEF CallNext
  <2>2. a \in Adapters /\ DOMAIN todo = Callers /\ DOMAIN failed = Callers
    BY DEF TypeOK, RegistryTypes
  <2>3. /\ \A d \in Callers \ {c} : failed'[d] = failed[d]
        /\ failed[c] \subseteq failed'[c]
        /\ pc[c] = "returned" /\ err[c] # None => on[c] \in failed'[c]
    BY <1>2, <2>2 DEF CallNext, Collect
  <2>4. pc[c] \in {"loop", "returned"} /\ op' = op
    BY <1>2 DEF CallNext
  <2> QED  BY <2>1, <2>2, <2>3, <2>4 DEF Accounts
<1> QED  BY <1>1, <1>2

(* Only the caller's own place changes, and nothing of what is launched.    *)
LEMMA CallOverlap ==
    ASSUME TypeOK, Placed, NEW c \in Callers, NEW a \in Adapters, Call(c, a), Disturb(c, a),
           Accounts(c, a)
    PROVE  /\ \A d \in Callers \ {c}, b \in Adapters :
                /\ Starting(d, b)' <=> Starting(d, b)
                /\ Stopping(d, b)' <=> Stopping(d, b)
                /\ Underway(d, b)' <=> Underway(d, b)
           /\ \A b \in Adapters :
                /\ ~Starting(c, b) /\ ~Stopping(c, b)
                /\ Starting(c, b)' => b = a /\ Starts(op[c]) /\ b \notin HTTP
                /\ Stopping(c, b)' => b = a /\ Stops(op[c]) /\ b \notin HTTP
           /\ \A b \in Adapters : (Gone(b)' <=> Gone(b)) /\ (Launched(b)' <=> Launched(b))
           /\ \A d \in Callers : steady'[d] \subseteq steady[d]
<1>1. /\ Enters(c, a) /\ UNCHANGED <<cmd, proc, containerID, container>>
      /\ pc' = [pc EXCEPT ![c] = pc'[c]] /\ on' = [on EXCEPT ![c] = a]
      /\ err' = [err EXCEPT ![c] = None]
  BY CallEnters
<1>2. DOMAIN pc = Callers /\ DOMAIN on = Callers /\ DOMAIN err = Callers
  BY DEF TypeOK, CallTypes
<1>3. \A d \in Callers \ {c} : pc'[d] = pc[d] /\ on'[d] = on[d] /\ err'[d] = err[d]
  BY <1>1, <1>2
<1>4. on'[c] = a /\ pc[c] \in {"Get", "loop", "returned"}
  BY <1>1, <1>2 DEF Accounts
<1>5. /\ pc'[c] \in InStart => Starts(op[c]) /\ a \notin HTTP
      /\ pc'[c] \in InStop => Stops(op[c]) /\ a \notin HTTP
  BY <1>1 DEF Enters, InStart, InStop
<1>6. \A b \in Adapters : (Gone(b)' <=> Gone(b)) /\ (Launched(b)' <=> Launched(b))
  BY <1>1 DEF Gone, Launched
<1>7. \A d \in Callers : steady'[d] \subseteq steady[d]
  BY DEF Disturb
<1>8. \A b \in Adapters :
        /\ ~Starting(c, b) /\ ~Stopping(c, b)
        /\ Starting(c, b)' => b = a /\ Starts(op[c]) /\ b \notin HTTP
        /\ Stopping(c, b)' => b = a /\ Stops(op[c]) /\ b \notin HTTP
  BY <1>4, <1>5 DEF Starting, Stopping, InStart, InStop
<1>9. \A d \in Callers \ {c}, b \in Adapters :
        /\ Starting(d, b)' <=> Starting(d, b)
        /\ Stopping(d, b)' <=> Stopping(d, b)
        /\ Underway(d, b)' <=> Underway(d, b)
  BY <1>3 DEF Starting, Stopping, Underway
<1> QED  BY <1>6, <1>7, <1>8, <1>9

LEMMA CallQuiet ==
    ASSUME TypeOK, Placed, Exclusive, SteadyQuiet, NEW c \in Callers, NEW a \in Adapters,
           Call(c, a), Disturb(c, a), Accounts(c, a)
    PROVE  Exclusive' /\ SteadyQuiet'
<1>1. /\ \A d \in Callers \ {c}, b \in Adapters :
           (Starting(d, b)' <=> Starting(d, b)) /\ (Stopping(d, b)' <=> Stopping(d, b))
      /\ \A b \in Adapters :
           /\ Starting(c, b)' => b = a /\ Starts(op[c])
           /\ Stopping(c, b)' => b = a /\ Stops(op[c])
      /\ \A d \in Callers : steady'[d] \subseteq steady[d]
  BY CallOverlap
<1>2. /\ raced' \in {raced, raced \cup {a}}
      /\ a \notin raced' => \A d \in Callers \ {c} :
           /\ Starts(op[c]) => ~Starting(d, a) /\ ~Stopping(d, a)
           /\ Stops(op[c]) => ~Starting(d, a)
  BY CallEnters
<1>3. Exclusive'
  <2> SUFFICES ASSUME NEW b \in Adapters, b \notin raced', NEW e \in Callers, Starting(e, b)',
                      NEW d \in Callers, d # e
               PROVE  ~Starting(d, b)' /\ ~Stopping(d, b)'
    BY DEF Exclusive
  <2>1. b \notin raced
    BY <1>2
  <2>2. CASE e = c
    BY <1>1, <1>2, <2>2
  <2>3. CASE e # c /\ d # c
    BY <1>1, <2>1, <2>3 DEF Exclusive
  <2>4. CASE e # c /\ d = c
    BY <1>1, <1>2, <2>4
  <2> QED  BY <2>2, <2>3, <2>4
<1>4. SteadyQuiet'
  <2> SUFFICES ASSUME NEW e \in Callers, NEW d \in Callers, e # d, NEW b \in Adapters, b \in steady'[e]
               PROVE  ~Starting(d, b)' /\ (op[e] = "StartAll" => ~Stopping(d, b)')
    <3>1. \A e \in Callers : steady'[e] \subseteq Adapters
      BY <1>1 DEF TypeOK, RegistryTypes
    <3> QED  BY <3>1 DEF SteadyQuiet, Accounts
  <2>1. b \in steady[e]
    BY <1>1
  <2>2. CASE d # c
    BY <1>1, <2>1, <2>2 DEF SteadyQuiet
  <2>3. CASE d = c
    <3>1. b = a => ~Starts(op[c]) /\ ~(Stops(op[c]) /\ op[e] = "StartAll")
      BY <2>3 DEF Disturb
    <3> QED  BY <1>1, <2>3, <3>1
  <2> QED  BY <2>2, <2>3
<1> QED  BY <1>3, <1>4

LEMMA CallTells ==
    ASSUME TypeOK, Placed, Placed', Kept, NEW c \in Callers, NEW a \in Adapters, Call(c, a), Disturb(c, a),
           Accounts(c, a)
    PROVE  StatesTell'
<1> USE DEF Kept
<1>1. /\ \A d \in Callers \ {c}, b \in Adapters :
           (Starting(d, b)' <=> Starting(d, b)) /\ (Stopping(d, b)' <=> Stopping(d, b))
      /\ \A b \in Adapters :
           /\ ~Starting(c, b) /\ ~Stopping(c, b)
           /\ Starting(c, b)' => b = a /\ Starts(op[c]) /\ b \notin HTTP
           /\ Stopping(c, b)' => b = a /\ Stops(op[c]) /\ b \notin HTTP
      /\ \A b \in Adapters : (Gone(b)' <=> Gone(b)) /\ (Launched(b)' <=> Launched(b))
  BY CallOverlap
<1>2. /\ raced \subseteq raced' /\ Enters(c, a)
  BY CallEnters
<1>3. state \in [Adapters -> States]
  BY DEF TypeOK, AdapterTypes
<1>4. \A b \in Adapters \ {a} : state'[b] = state[b]
  BY <1>2, <1>3 DEF Enters, SetState
<1>5. \/ Starts(op[c]) /\ ~Stops(op[c]) /\ a \notin HTTP /\ state'[a] = "starting"
      \/ Starts(op[c]) /\ a \in HTTP /\ state'[a] = "running"
      \/ Stops(op[c]) /\ ~Starts(op[c]) /\ a \notin HTTP /\ state'[a] = "stopping"
      \/ Stops(op[c]) /\ ~Starts(op[c]) /\ a \in Docker /\ ~containerID[a] /\ state'[a] = state[a]
      \/ Stops(op[c]) /\ a \in HTTP /\ state'[a] = "stopped"
      \/ ~Starts(op[c]) /\ ~Stops(op[c]) /\ state'[a] = state[a]
  BY <1>2, <1>3 DEF Enters, SetState, Starts, Stops
<1>6. ASSUME a \in HTTP
      PROVE  Gone(a) /\ Launched(a) /\ \A d \in Callers : ~Starting(d, a)' /\ ~Stopping(d, a)'
  <2>1. Gone(a) /\ Launched(a)
    BY <1>6 DEF Gone, Launched
  <2>2. \A d \in Callers : ~Starting(d, a) /\ ~Stopping(d, a)
    BY <1>6 DEF Placed, Located, Starting, Stopping, InStart, InStop
  <2> QED  BY <1>1, <1>6, <2>1, <2>2
<1>7. ASSUME NEW b \in Stdio, state'[b] = "stopped"
      PROVE  Gone(b)' \/ \E d \in Callers : Starting(d, b)'
  <2>1. b \in Adapters /\ b \notin HTTP /\ b \notin Docker
    BY DEF Adapters
  <2>2. state[b] = "stopped"
    BY <1>4, <1>5, <1>7, <2>1
  <2>3. Gone(b) \/ \E d \in Callers \ {c} : Starting(d, b)
    BY <1>1, <2>1, <2>2 DEF StatesTell
  <2> QED  BY <1>1, <2>1, <2>3
<1>8. ASSUME NEW b \in Adapters, b \notin raced', state'[b] = "running"
      PROVE  Launched(b)' /\ ~Busy(b)'
  <2>1. CASE b = a /\ a \in HTTP
    BY <1>1, <1>6, <2>1 DEF Busy
  <2>2. CASE state[b] = "running" /\ (b = a => a \notin HTTP)
    <3>1. Launched(b) /\ \A d \in Callers : ~Starting(d, b) /\ ~Stopping(d, b)
      BY <1>2, <1>8, <2>2 DEF StatesTell, Busy
    <3>2. b = a => ~Starts(op[c]) /\ ~Stops(op[c])
      BY <1>5, <1>8, <2>2, <3>1 DEF Launched
    <3>3. \A d \in Callers : ~Starting(d, b)' /\ ~Stopping(d, b)'
      BY <1>1, <3>1, <3>2
    <3> QED  BY <1>1, <3>1, <3>3 DEF Busy
  <2> QED  BY <1>4, <1>5, <1>8, <2>1, <2>2
<1>9. ASSUME NEW b \in Adapters, b \notin raced', state'[b] = "stopped"
      PROVE  Gone(b)' /\ \A d \in Callers : ~Starting(d, b)'
  <2>1. CASE b = a /\ a \in HTTP
    BY <1>1, <1>6, <2>1
  <2>2. CASE state[b] = "stopped" /\ (b = a => a \notin HTTP)
    <3>1. Gone(b) /\ \A d \in Callers : ~Starting(d, b)
      BY <1>2, <1>9, <2>2 DEF StatesTell
    <3>2. b = a => ~Starts(op[c])
      BY <1>5, <1>9, <2>2
    <3> QED  BY <1>1, <3>1, <3>2
  <2> QED  BY <1>4, <1>5, <1>9, <2>1, <2>2
<1> QED  BY <1>7, <1>8, <1>9 DEF StatesTell

LEMMA CallSweeps ==
    ASSUME TypeOK, Placed, Kept, NEW c \in Callers, NEW a \in Adapters, Call(c, a), Disturb(c, a),
           Accounts(c, a)
    PROVE  Achieved' /\ Swept'
<1> USE DEF Kept
<1>1. /\ \A d \in Callers \ {c}, b \in Adapters : Underway(d, b)' <=> Underway(d, b)
      /\ \A b \in Adapters : (Gone(b)' <=> Gone(b)) /\ (Launched(b)' <=> Launched(b))
      /\ \A d \in Callers : steady'[d] \subseteq steady[d]
  BY CallOverlap
<1>2. /\ raced \subseteq raced' /\ Enters(c, a) /\ UNCHANGED container
      /\ pc' = [pc EXCEPT ![c] = pc'[c]] /\ on' = [on EXCEPT ![c] = a]
  BY CallEnters
<1>3. /\ \A d \in Callers \ {c} : pc'[d] = pc[d] /\ on'[d] = on[d]
      /\ on'[c] = a /\ op' = op
  BY <1>2 DEF TypeOK, CallTypes, Accounts
<1>4. Achieved'
  <2> SUFFICES ASSUME NEW d \in Callers, NEW b \in Adapters, on'[d] = b, Undisturbed(d, b)'
               PROVE  /\ pc'[d] = "set id" => container'[b] # "absent"
                      /\ pc'[d] = "started" => Launched(b)'
                      /\ pc'[d] = "removed" => Gone(b)'
    BY DEF Achieved
  <2>1. Undisturbed(d, b)
    BY <1>1, <1>2, <1>3 DEF Undisturbed
  <2>2. CASE d # c
    <3>1. on[d] = b /\ pc'[d] = pc[d]
      BY <1>3, <2>2
    <3>2. /\ pc[d] = "set id" => container[b] # "absent"
          /\ pc[d] = "started" => Launched(b)
          /\ pc[d] = "removed" => Gone(b)
      BY <2>1, <3>1 DEF Achieved
    <3> QED  BY <1>1, <1>2, <3>1, <3>2
  <2>3. CASE d = c
    <3>1. pc'[c] \notin {"set id", "started"} /\ (pc'[c] = "removed" => a \in Docker /\ ~containerID[a])
      BY <1>2 DEF Enters
    <3>2. a \in Docker /\ ~containerID[a] => Gone(a)
      BY DEF Gone
    <3> QED  BY <1>1, <1>3, <2>3, <3>1, <3>2
  <2> QED  BY <2>2, <2>3
<1>5. ASSUME op[c] = "StopAll"
      PROVE  Gone(a) \/ Underway(c, a)'
  <2>1. a \in HTTP \/ pc'[c] \in InStop
    BY <1>2, <1>5 DEF Enters, InStop, Starts
  <2> QED  BY <1>3, <2>1 DEF Gone, Underway
<1>6. ASSUME op[c] = "StartAll"
      PROVE  Launched(a) \/ Underway(c, a)'
  <2>1. a \in HTTP \/ pc'[c] \in InStart
    BY <1>2, <1>6 DEF Enters, InStart, Stops
  <2> QED  BY <1>3, <2>1 DEF Launched, Underway
<1>7. Swept'
  <2> SUFFICES ASSUME NEW d \in Callers, NEW b \in Adapters, b \in steady'[d] \ todo'[d]
               PROVE  /\ op[d] = "StopAll" => Gone(b)' \/ Underway(d, b)' \/ b \in failed'[d]
                      /\ op[d] = "StartAll" => Launched(b)' \/ Underway(d, b)' \/ failed'[d] # {}
    <3>1. \A d \in Callers : steady'[d] \subseteq Adapters
      BY <1>1 DEF TypeOK, RegistryTypes
    <3> QED  BY <1>3, <3>1 DEF Swept
  <2>1. CASE d # c
    BY <1>1, <2>1 DEF Swept, Accounts
  <2>2. CASE d = c /\ op[c] \in {"StopAll", "StartAll"}
    <3>1. /\ pc[c] \in {"loop", "returned"} /\ todo'[c] = todo[c] \ {a} /\ failed[c] \subseteq failed'[c]
          /\ pc[c] = "returned" /\ err[c] # None => on[c] \in failed'[c]
      BY <2>2 DEF Accounts
    <3>2. CASE b = a
      BY <1>1, <1>5, <1>6, <2>2, <3>2
    <3>3. CASE b # a
      <4>1. b \in steady[c] \ todo[c]
        BY <1>1, <2>2, <3>1, <3>3
      <4>2. Underway(c, b) => b \in failed'[c]
        BY <3>1 DEF Underway, InStart, InStop
      <4> QED  BY <1>1, <2>2, <3>1, <4>1, <4>2 DEF Swept
    <3> QED  BY <3>2, <3>3
  <2> QED  BY <2>1, <2>2
<1> QED  BY <1>4, <1>7

LEMMA CallKept ==
    ASSUME TypeOK, Placed, Kept, NEW c \in Callers, CallOne(c) \/ CallNext(c), UNCHANGED appVars
    PROVE  Kept'
<1>1. Placed'
  BY CallPlaced
<1>2. PICK a \in Adapters : Call(c, a) /\ Disturb(c, a) /\ Accounts(c, a)
  BY CallAccounts
<1>3. UNCHANGED <<cmd, proc>>
  BY <1>2, CallEnters
<1>4. ProcessesOwned'
  BY <1>3 DEF Kept, ProcessesOwned
<1>5. Exclusive' /\ SteadyQuiet'
  BY <1>2, CallQuiet DEF Kept
<1>6. StatesTell'
  BY <1>1, <1>2, CallTells
<1>7. Achieved' /\ Swept'
  BY <1>2, CallSweeps
<1> QED  BY <1>4, <1>5, <1>6, <1>7 DEF Kept

-----------------------------------------------------------------------------
(* The steps outside the methods.  They launch nothing, and whoever takes   *)
(* one is neither starting nor stopping an adapter.                         *)
LEMMA OutwardKeeps ==
    ASSUME TypeOK, Placed, NEW c \in Callers, Bookkeeping(c)
    PROVE  /\ UNCHANGED <<adapterVars, raced>>
           /\ \A d \in Callers, b \in Adapters :
                (Starting(d, b)' <=> Starting(d, b)) /\ (Stopping(d, b)' <=> Stopping(d, b))
           /\ pc[c] \notin InStart \cup InStop /\ pc'[c] \notin InStart \cup InStop
           /\ \A d \in Callers \ {c} :
                /\ pc'[d] = pc[d] /\ on'[d] = on[d] /\ err'[d] = err[d] /\ op'[d] = op[d]
                /\ todo'[d] = todo[d] /\ failed'[d] = failed[d] /\ steady'[d] \subseteq steady[d]
<1> USE DEF Bookkeeping, Use
<1>1. /\ DOMAIN pc = Callers /\ DOMAIN on = Callers /\ DOMAIN err = Callers
      /\ DOMAIN op = Callers /\ DOMAIN todo = Callers /\ DOMAIN failed = Callers
      /\ DOMAIN steady = Callers
  BY DEF TypeOK, CallTypes, RegistryTypes
<1>2. /\ UNCHANGED <<adapterVars, raced>> /\ pc[c] \in Outward
      /\ \E m \in Outward \ {"returned"} : pc' = [pc EXCEPT ![c] = m]
  BY DEF WantLock, Get, Snapshot, Begin, Register, Unregister, Unlock, OneReturns, AllReturns, Leave,
     Finish, Goto, Keeps, Outward
<1>3. \A d \in Callers \ {c} :
        /\ on'[d] = on[d] /\ err'[d] = err[d] /\ op'[d] = op[d] /\ todo'[d] = todo[d]
        /\ failed'[d] = failed[d]
  BY <1>1 DEF WantLock, Get, Snapshot, Begin, Register, Unregister, Unlock, OneReturns, AllReturns,
     Leave, Finish, Goto, Keeps, Collect, useVars
<1>4. \A d \in Callers \ {c} : steady'[d] \subseteq steady[d]
  <2>1. CASE Snapshot(c)
    <3>1. \E T : steady' = [steady EXCEPT ![c] = T]
      BY <2>1 DEF Snapshot
    <3> QED  BY <1>1, <3>1
  <2>2. CASE Unregister(c)
    BY <2>2 DEF Unregister
  <2>3. CASE ~Snapshot(c) /\ ~Unregister(c)
    BY <1>1, <2>3 DEF WantLock, Get, Register, Unlock, OneReturns, AllReturns, Leave, useVars
  <2> QED  BY <2>1, <2>2, <2>3
<1>5. /\ pc[c] \notin InStart \cup InStop /\ pc'[c] \notin InStart \cup InStop
      /\ \A d \in Callers \ {c} : pc'[d] = pc[d]
  BY <1>1, <1>2 DEF Outward, InStart, InStop
<1>6. \A d \in Callers, b \in Adapters :
        (Starting(d, b)' <=> Starting(d, b)) /\ (Stopping(d, b)' <=> Stopping(d, b))
  BY <1>3, <1>5 DEF Starting, Stopping
<1> QED  BY <1>2, <1>3, <1>4, <1>5, <1>6

(* What they note of a call over all adapters.                              *)
LEMMA OutwardAccounts ==
    ASSUME TypeOK, Placed, NEW c \in Callers, Bookkeeping(c)
    PROVE  \/ op'[c] \notin {"StartAll", "StopAll"} /\ steady'[c] \subseteq steady[c]
           \/ /\ steady'[c] = Registered \cap Untouched(c, op'[c]) /\ todo'[c] = Registered
           \/ /\ op'[c] = op[c] /\ todo'[c] = todo[c] /\ steady'[c] = steady[c]
              /\ failed[c] \subseteq failed'[c]
              /\ pc[c] = "returned" /\ err[c] # None => on[c] \in failed'[c]
<1> USE DEF Bookkeeping, Use
<1>1. /\ DOMAIN op = Callers /\ DOMAIN todo = Callers /\ DOMAIN failed = Callers
      /\ DOMAIN steady = Callers
  BY DEF TypeOK, RegistryTypes
<1>2. None \notin {"StartAll", "StopAll"}
  BY DEF Ops, All
<1>3. CASE WantLock(c) \/ Get(c)
  BY <1>1, <1>3 DEF WantLock, Get, Begin
<1>4. CASE Register(c) \/ Unregister(c) \/ OneReturns(c)
  <2>1. op'[c] = None
    BY <1>1, <1>4 DEF Register, Unregister, OneReturns, Finish
  <2>2. steady'[c] \subseteq steady[c]
    BY <1>4 DEF Register, Unregister, OneReturns
  <2> QED  BY <1>2, <2>1, <2>2
<1>5. CASE Leave(c)
  BY <1>1, <1>2, <1>5 DEF Leave
<1>6. CASE Snapshot(c)
  BY <1>1, <1>6 DEF Snapshot, Begin
<1>7. CASE Unlock(c)
  BY <1>7 DEF Unlock, useVars
<1>8. CASE AllReturns(c)
  BY <1>1, <1>8 DEF AllReturns, Collect
<1> QED  BY <1>3, <1>4, <1>5, <1>6, <1>7, <1>8

LEMMA OutwardKept ==
    ASSUME TypeOK, Placed, Kept, NEW c \in Callers, Bookkeeping(c)
    PROVE  Kept'
<1> USE DEF Kept
<1>1. /\ UNCHANGED <<adapterVars, raced>>
      /\ \A d \in Callers, b \in Adapters :
           (Starting(d, b)' <=> Starting(d, b)) /\ (Stopping(d, b)' <=> Stopping(d, b))
      /\ pc[c] \notin InStart \cup InStop /\ pc'[c] \notin InStart \cup InStop
      /\ \A d \in Callers \ {c} :
           /\ pc'[d] = pc[d] /\ on'[d] = on[d] /\ err'[d] = err[d] /\ op'[d] = op[d]
           /\ todo'[d] = todo[d] /\ failed'[d] = failed[d] /\ steady'[d] \subseteq steady[d]
  BY OutwardKeeps
<1>2. \/ op'[c] \notin {"StartAll", "StopAll"} /\ steady'[c] \subseteq steady[c]
      \/ /\ steady'[c] = Registered \cap Untouched(c, op'[c]) /\ todo'[c] = Registered
      \/ /\ op'[c] = op[c] /\ todo'[c] = todo[c] /\ steady'[c] = steady[c]
         /\ failed[c] \subseteq failed'[c]
         /\ pc[c] = "returned" /\ err[c] # None => on[c] \in failed'[c]
  BY OutwardAccounts
<1>3. \A b \in Adapters : (Gone(b)' <=> Gone(b)) /\ (Launched(b)' <=> Launched(b))
  BY <1>1 DEF Gone, Launched, adapterVars
<1>4. ProcessesOwned'
  BY <1>1 DEF ProcessesOwned, adapterVars
<1>5. Exclusive'
  BY <1>1 DEF Exclusive
<1>6. StatesTell'
  <2>1. \A b \in Adapters : Busy(b)' <=> Busy(b)
    BY <1>1 DEF Busy
  <2> QED  BY <1>1, <1>3, <2>1 DEF StatesTell, adapterVars, Adapters
<1>7. steady \in [Callers -> SUBSET Adapters] /\ \A e \in Callers : steady'[e] \subseteq Adapters
  <2>1. steady \in [Callers -> SUBSET Adapters] /\ Untouched(c, op'[c]) \subseteq Adapters
    BY DEF TypeOK, RegistryTypes, Untouched
  <2> QED  BY <1>1, <1>2, <2>1
<1>8. SteadyQuiet'
  <2> SUFFICES ASSUME NEW e \in Callers, NEW d \in Callers, e # d, NEW b \in Adapters, b \in steady'[e]
               PROVE  ~Starting(d, b)' /\ (op'[e] = "StartAll" => ~Stopping(d, b)')
    BY <1>7 DEF SteadyQuiet
  <2>1. CASE b \in steady[e] /\ (op'[e] = "StartAll" => op[e] = "StartAll")
    BY <1>1, <2>1 DEF SteadyQuiet
  <2>2. CASE e = c /\ b \in Untouched(c, op'[c])
    <3>1. ~Meddles(d, b, op'[c])
      BY <2>2 DEF Untouched
    <3> QED  BY <1>1, <2>2, <3>1 DEF Meddles
  <2> QED  BY <1>1, <1>2, <2>1, <2>2
<1>9. Achieved'
  <2> SUFFICES ASSUME NEW d \in Callers, NEW b \in Adapters, on'[d] = b, Undisturbed(d, b)'
               PROVE  /\ pc'[d] = "set id" => container'[b] # "absent"
                      /\ pc'[d] = "started" => Launched(b)'
                      /\ pc'[d] = "removed" => Gone(b)'
    BY DEF Achieved
  <2>1. CASE d = c
    BY <1>1, <2>1 DEF InStart, InStop
  <2>2. CASE d # c
    <3>1. on[d] = b /\ pc'[d] = pc[d] /\ Undisturbed(d, b)
      BY <1>1, <2>2 DEF Undisturbed
    <3>2. /\ pc[d] = "set id" => container[b] # "absent"
          /\ pc[d] = "started" => Launched(b)
          /\ pc[d] = "removed" => Gone(b)
      BY <3>1 DEF Achieved
    <3> QED  BY <1>1, <1>3, <3>1, <3>2 DEF adapterVars
  <2> QED  BY <2>1, <2>2
<1>10. Swept'
  <2> SUFFICES ASSUME NEW d \in Callers, NEW b \in Adapters, b \in steady'[d], b \notin todo'[d]
               PROVE  /\ op'[d] = "StopAll" => Gone(b)' \/ Underway(d, b)' \/ b \in failed'[d]
                      /\ op'[d] = "StartAll" => Launched(b)' \/ Underway(d, b)' \/ failed'[d] # {}
    BY <1>7 DEF Swept
  <2>1. CASE d # c
    <3>1. Underway(d, b)' <=> Underway(d, b)
      BY <1>1, <2>1 DEF Underway
    <3>2. b \in steady[d] \ todo[d]
      BY <1>1, <2>1
    <3> QED  BY <1>1, <1>3, <2>1, <3>1, <3>2 DEF Swept
  <2>2. CASE d = c
    <3>1. CASE /\ op'[c] = op[c] /\ todo'[c] = todo[c] /\ steady'[c] = steady[c]
               /\ failed[c] \subseteq failed'[c]
               /\ pc[c] = "returned" /\ err[c] # None => on[c] \in failed'[c]
      <4>1. Underway(c, b) => b \in failed'[c]
        BY <1>1, <3>1 DEF Underway
      <4> QED  BY <1>3, <2>2, <3>1, <4>1 DEF Swept
    <3> QED  BY <1>2, <2>2, <3>1
  <2> QED  BY <2>1, <2>2
<1> QED  BY <1>4, <1>5, <1>6, <1>8, <1>9, <1>10

(* Processes that end, contexts that end, and the application.              *)
LEMMA OutsideKept ==
    ASSUME TypeOK, Kept, Outside
    PROVE  Kept'
<1> USE DEF Kept
<1>1. /\ UNCHANGED <<state, cmd, containerID, container, callVars, raced, regVars>>
      /\ \A p \in Procs : /\ proc'[p] = "reaped" <=> proc[p] = "reaped"
                          /\ proc'[p] = "new" <=> proc[p] = "new"
  BY DEF Outside, Environment, Exits, Cancel, adapterVars, TypeOK, AdapterTypes
<1>2. \A b \in Adapters : (Gone(b)' <=> Gone(b)) /\ (Launched(b)' <=> Launched(b))
  BY <1>1 DEF Gone, Launched, TypeOK, AdapterTypes
<1>3. ProcessesOwned'
  BY <1>1 DEF ProcessesOwned, TypeOK, AdapterTypes
<1>4. \A d \in Callers, b \in Adapters :
        /\ Starting(d, b)' <=> Starting(d, b)
        /\ Stopping(d, b)' <=> Stopping(d, b)
        /\ Underway(d, b)' <=> Underway(d, b)
        /\ Undisturbed(d, b)' <=> Undisturbed(d, b)
  BY <1>1 DEF callVars, regVars, useVars, Starting, Stopping, Underway, Undisturbed
<1>5. \A b \in Adapters : Busy(b)' <=> Busy(b)
  BY <1>4 DEF Busy
<1> USE <1>1 DEF callVars, regVars, useVars
<1>6. Exclusive'
  BY <1>4 DEF Exclusive
<1>7. SteadyQuiet' /\ Swept'
  BY <1>2, <1>4 DEF SteadyQuiet, Swept, TypeOK, RegistryTypes
<1>8. StatesTell'
  BY <1>2, <1>4, <1>5 DEF StatesTell, Adapters
<1>9. Achieved'
  BY <1>2, <1>4 DEF Achieved
<1> QED  BY <1>3, <1>6, <1>7, <1>8, <1>9

LEMMA IdleKept ==
    ASSUME Kept, UNCHANGED <<state, cmd, proc, containerID, container, callVars, raced, useVars>>
    PROVE  Kept'
<1> USE DEF Kept, callVars, useVars
<1>1. \A b \in Adapters : (Gone(b)' <=> Gone(b)) /\ (Launched(b)' <=> Launched(b))
  BY DEF Gone, Launched
<1>2. \A d \in Callers, b \in Adapters :
        /\ Starting(d, b)' <=> Starting(d, b)
        /\ Stopping(d, b)' <=> Stopping(d, b)
  BY DEF Starting, Stopping
<1>3. ProcessesOwned' /\ Exclusive' /\ SteadyQuiet'
  BY DEF ProcessesOwned, Exclusive, SteadyQuiet, Starting, Stopping
<1>4. StatesTell'
  <2>1. \A b \in Adapters : Busy(b)' <=> Busy(b)
    BY <1>2 DEF Busy
  <2> QED  BY <1>1, <1>2, <2>1 DEF StatesTell, Adapters
<1>5. Achieved'
  BY <1>1 DEF Achieved, Undisturbed
<1>6. Swept'
  BY DEF Swept, Underway, Gone, Launched
<1> QED  BY <1>3, <1>4, <1>5, <1>6

LEMMA KeptStep == TypeOK /\ Placed /\ Kept /\ [Next]_allVars => Kept'
<1> SUFFICES ASSUME TypeOK, Placed, Kept, [Next]_allVars
             PROVE  Kept'
  OBVIOUS
<1>1. CASE LoadFromFile \/ Validate \/ Build \/ UNCHANGED allVars
  <2>1. UNCHANGED <<state, cmd, proc, containerID, container, callVars, raced, useVars>>
    BY <1>1 DEF LoadFromFile, Validate, Decide, Build, allVars, vars, adapterVars, regVars
  <2> QED  BY <2>1, IdleKept
<1>2. ASSUME NEW c \in Callers, UNCHANGED appVars,
             \/ Bookkeeping(c) \/ CallOne(c) \/ CallNext(c)
             \/ (LocalStep(c) \/ DockerStep(c)) /\ UNCHANGED regVars
      PROVE  Kept'
  BY <1>2, OutwardKept, CallKept, MethodKept
<1> QED  BY <1>1, <1>2, OutsideKept, StepCases

-----------------------------------------------------------------------------
LEMMA InvariantHolds == Spec => []IndInv
<1>1. SystemInit => IndInv
  BY PlacedInit, VettedInit, KeptInit DEF IndInv, Kept
<1>2. IndInv /\ [Next]_allVars => IndInv'
  BY PlacedStep, VettedStep, KeptStep DEF IndInv, Kept, Vetted
<1> QED  BY <1>1, <1>2, PTL DEF Spec

(* An adapter at rest in state Stopped has left no process behind, and no   *)
(* container if no Start of it overlapped another call (StoppedMeansGone).  *)
THEOREM StoppedIsGone == Spec => []StoppedMeansGone
<1>1. IndInv => StoppedMeansGone
  <2> SUFFICES ASSUME IndInv, NEW a \in Adapters, state[a] = "stopped", ~Busy(a),
                      a \in Docker => a \notin raced
               PROVE  Gone(a)
    BY DEF StoppedMeansGone
  <2>1. CASE a \in Stdio
    BY <2>1 DEF IndInv, StatesTell, Busy
  <2>2. CASE a \in Docker
    BY <2>2 DEF IndInv, StatesTell
  <2> QED  BY <2>1, <2>2 DEF Gone
<1> QED  BY <1>1, InvariantHolds, PTL

(* An adapter at rest in state Running has what it launched, if no Start of *)
(* it overlapped another call (RunningMeansLaunched).                       *)
THEOREM RunningIsLaunched == Spec => []RunningMeansLaunched
<1>1. IndInv => RunningMeansLaunched
  BY DEF IndInv, StatesTell, RunningMeansLaunched
<1> QED  BY <1>1, InvariantHolds, PTL

(* What StopAll does not report as failed is gone when it returns           *)
(* (StopAllStops).                                                          *)
THEOREM StopAllIsComplete == Spec => []StopAllStops
<1>1. IndInv => StopAllStops
  <2> SUFFICES ASSUME IndInv, NEW c \in Callers, pc[c] = "done", op[c] = "StopAll",
                      NEW a \in steady[c] \ failed[c]
               PROVE  Gone(a)
    BY DEF StopAllStops
  <2>1. todo[c] = {}
    BY DEF IndInv, Placed, Called
  <2>2. ~Underway(c, a)
    BY DEF Underway, InStart, InStop
  <2> QED  BY <2>1, <2>2 DEF IndInv, Swept
<1> QED  BY <1>1, InvariantHolds, PTL

(* What StartAll was to start is launched when it returns no error          *)
(* (StartAllStarts).                                                        *)
THEOREM StartAllIsComplete == Spec => []StartAllStarts
<1>1. IndInv => StartAllStarts
  <2> SUFFICES ASSUME IndInv, NEW c \in Callers, pc[c] = "done", op[c] = "StartAll",
                      failed[c] = {}, NEW a \in steady[c]
               PROVE  Launched(a)
    BY DEF StartAllStarts
  <2>1. todo[c] = {}
    BY DEF IndInv, Placed, Called
  <2>2. ~Underway(c, a)
    BY DEF Underway, InStart, InStop
  <2> QED  BY <2>1, <2>2 DEF IndInv, Swept
<1> QED  BY <1>1, InvariantHolds, PTL
=============================================================================
