------------------------------ MODULE Registry ------------------------------
(***************************************************************************)
(* The registry of pkg/registry, and the goroutines that use it: they      *)
(* register and unregister adapters, fetch one and start or stop it, and   *)
(* start, stop or check all of them.  A call over all adapters copies the  *)
(* map under the read lock and works on the copy without it.  As with      *)
(* sync.RWMutex, a writer that waits keeps new readers out.                *)
(***************************************************************************)
EXTENDS Adapters

CONSTANTS
    Names,
    MaxCalls  \* calls of all goroutines together: a bound

VARIABLES
    name,      \* AdapterName; None before the adapter is built
    adapters,  \* the map: adapters[n], or None
    readers,   \* the callers that hold the read lock
    op,        \* op[c]: what c is calling
    arg,       \* arg[c]: the adapter or the name it is called with
    todo,      \* todo[c]: the copy, less the adapters c has called
    failed,    \* failed[c]: adapters whose method returned an error to c
    steady,    \* history: registered since the copy and not meddled with
    calls      \* how many calls have been made

registryVars == <<name, adapters, readers>>
useVars      == <<op, arg, todo, failed, steady, calls>>
regVars      == <<registryVars, useVars>>

All == {"StartAll", "StopAll", "HealthCheckAll"}
Ops == All \cup {"Register", "Unregister", "Start", "Stop"}
ASSUME NamesAssumption == None \notin Names \cup Ops /\ MaxCalls \in Nat

Starts(o) == o \in {"StartAll", "Start"}
Stops(o)  == o \in {"StopAll", "Stop"}
Call(c, a) ==
    \/ Starts(op[c]) /\ Start(c, a)
    \/ Stops(op[c]) /\ Stop(c, a)
    \/ op[c] = "HealthCheckAll" /\ HealthCheck(c, a)

RegistryInit ==
    /\ name = [a \in Adapters |-> None]
    /\ adapters = [n \in Names |-> None]
    /\ readers = {}
    /\ op = [c \in Callers |-> None] /\ arg = [c \in Callers |-> None]
    /\ todo = [c \in Callers |-> {}] /\ failed = [c \in Callers |-> {}]
    /\ steady = [c \in Callers |-> {}]
    /\ calls = 0

Registered == {adapters[n] : n \in Names} \ {None}
MayRead  == \A c \in Callers : pc[c] # "Lock"
MayWrite == readers = {}

(* Adapters that a call of the others is at work on cannot be vouched for:   *)
(* for a StopAll those being started, for a StartAll those being stopped too.*)
Meddles(d, a, o) == Starting(d, a) \/ (o = "StartAll" /\ Stopping(d, a))
Untouched(c, o) == {a \in Adapters : \A d \in Callers \ {c} : ~Meddles(d, a, o)}

-----------------------------------------------------------------------------
(* A goroutine begins a call.                                                *)
Begin(c, o, x, label) ==
    /\ pc[c] = "idle" /\ calls < MaxCalls
    /\ calls = 1 => \A e \in Callers : pc[e] = "idle"  \* bound: the first call runs alone
    /\ calls' = calls + 1
    /\ op' = [op EXCEPT ![c] = o] /\ arg' = [arg EXCEPT ![c] = x]
    /\ pc' = [pc EXCEPT ![c] = label]
    /\ UNCHANGED <<adapterVars, on, err, ctxDone, raced>>

Finish(c) ==
    /\ pc' = [pc EXCEPT ![c] = "idle"]
    /\ op' = [op EXCEPT ![c] = None] /\ arg' = [arg EXCEPT ![c] = None]
    /\ on' = [on EXCEPT ![c] = None] /\ err' = [err EXCEPT ![c] = None]
    /\ UNCHANGED <<adapterVars, ctxDone, raced, todo, failed, calls>>

(* Register and Unregister: ask for the lock, then act under it.  Register   *)
(* turns away a nil adapter or one without a name before it asks: that       *)
(* changes nothing.                                                          *)
WantLock(c) ==
    /\ \/ \E a \in Adapters : name[a] # None /\ Begin(c, "Register", a, "Lock")
       \/ \E n \in Names : Begin(c, "Unregister", n, "Lock")
    /\ UNCHANGED <<registryVars, todo, failed, steady>>

Register(c) ==
    LET a == arg[c] IN
    /\ pc[c] = "Lock" /\ op[c] = "Register" /\ MayWrite
    /\ adapters' = IF adapters[name[a]] = None THEN [adapters EXCEPT ![name[a]] = a] ELSE adapters
    /\ Finish(c) /\ UNCHANGED <<name, readers, steady>>

Unregister(c) ==
    LET a == adapters[arg[c]] IN
    /\ pc[c] = "Lock" /\ op[c] = "Unregister" /\ MayWrite
    /\ adapters' = [adapters EXCEPT ![arg[c]] = None]
    /\ steady' = [e \in Callers |-> steady[e] \ {a}]
    /\ Finish(c) /\ UNCHANGED <<name, readers>>

(* Get, and a method of what it returns.                                     *)
Get(c) ==
    /\ MayRead
    /\ \E n \in Names, o \in {"Start", "Stop"} :
         adapters[n] # None /\ Begin(c, o, adapters[n], "Get")
    /\ UNCHANGED <<registryVars, todo, failed, steady>>

(* What a method called by c means for the calls of the others.              *)
Disturb(c, a) ==
    steady' = [d \in Callers |->
        IF d # c /\ (Starts(op[c]) \/ (Stops(op[c]) /\ op[d] = "StartAll"))
        THEN steady[d] \ {a} ELSE steady[d]]

CallOne(c) ==
    /\ pc[c] = "Get" /\ Call(c, arg[c]) /\ Disturb(c, arg[c])
    /\ UNCHANGED <<registryVars, op, arg, todo, failed, calls>>

OneReturns(c) ==
    /\ pc[c] = "returned" /\ op[c] \notin All
    /\ Finish(c) /\ UNCHANGED <<registryVars, steady>>

-----------------------------------------------------------------------------
(* StartAll, StopAll, HealthCheckAll.                                        *)
Snapshot(c) ==
    /\ MayRead
    /\ \E o \in All :
         /\ Begin(c, o, None, "snapshot")
         /\ steady' = [steady EXCEPT ![c] = Registered \cap Untouched(c, o)]
    /\ todo' = [todo EXCEPT ![c] = Registered]
    /\ readers' = readers \cup {c}
    /\ UNCHANGED <<name, adapters, failed>>

(* Mutant: the copy is worked on with the lock held, and it is never given back.*)
UnlockForgotten(c) ==
    /\ pc[c] = "snapshot"
    /\ Goto(c, "loop") /\ Keeps(adapterVars)
    /\ UNCHANGED <<registryVars, useVars>>

Unlock(c) ==
    /\ pc[c] = "snapshot"
    /\ readers' = readers \ {c}
    /\ Goto(c, "loop") /\ Keeps(adapterVars)
    /\ UNCHANGED <<name, adapters, useVars>>

(* The copy has the order of a map: any.  StartAll gives up at the first     *)
(* error, the others go on.                                                  *)
(* Mutants: the error is put down to the wrong adapter; StartAll drops it.   *)
CollectArg(c) ==
    failed' = IF pc[c] = "returned" /\ err[c] # None
              THEN [failed EXCEPT ![c] = @ \cup {arg[c]}] ELSE failed
CollectUnlessStart(c) ==
    failed' = IF pc[c] = "returned" /\ err[c] # None /\ ~Starts(op[c])
              THEN [failed EXCEPT ![c] = @ \cup {on[c]}] ELSE failed

Collect(c) ==
    failed' = IF pc[c] = "returned" /\ err[c] # None
              THEN [failed EXCEPT ![c] = @ \cup {on[c]}] ELSE failed
(* Mutant: every call over all adapters gives up at the first error.         *)
MoreUntilError(c) ==
    /\ op[c] \in All /\ todo[c] # {}
    /\ ~(pc[c] = "returned" /\ err[c] # None)

More(c) ==
    /\ op[c] \in All /\ todo[c] # {}
    /\ ~(op[c] = "StartAll" /\ pc[c] = "returned" /\ err[c] # None)

CallNext(c) ==
    /\ pc[c] \in {"loop", "returned"} /\ More(c)
    /\ \E a \in todo[c] :
         /\ Call(c, a) /\ Disturb(c, a)
         /\ todo' = [todo EXCEPT ![c] = @ \ {a}]
    /\ Collect(c)
    /\ UNCHANGED <<registryVars, op, arg, calls>>

AllReturns(c) ==
    /\ op[c] \in All /\ pc[c] \in {"loop", "returned"} /\ ~More(c)
    /\ Collect(c)
    /\ pc' = [pc EXCEPT ![c] = "done"]
    /\ on' = [on EXCEPT ![c] = None] /\ err' = [err EXCEPT ![c] = None]
    /\ UNCHANGED <<adapterVars, ctxDone, raced, registryVars, op, arg, todo, steady, calls>>

(* The caller has its answer.                                                *)
Leave(c) ==
    /\ pc[c] = "done"
    /\ pc' = [pc EXCEPT ![c] = "idle"] /\ op' = [op EXCEPT ![c] = None]
    /\ todo' = [todo EXCEPT ![c] = {}] /\ failed' = [failed EXCEPT ![c] = {}]
    /\ steady' = [steady EXCEPT ![c] = {}]
    /\ UNCHANGED <<adapterVars, on, err, ctxDone, raced, registryVars, arg, calls>>

(* What a goroutine may do, and what it does once it has begun.              *)
Use(c) == WantLock(c) \/ Get(c) \/ Snapshot(c)
Proceed(c) ==
    \/ Register(c) \/ Unregister(c) \/ CallOne(c)
    \/ Unlock(c) \/ OneReturns(c) \/ CallNext(c) \/ AllReturns(c) \/ Leave(c)
    \/ LocalStep(c) /\ UNCHANGED regVars
DockerCommand(c) == DockerStep(c) /\ UNCHANGED regVars
=============================================================================
