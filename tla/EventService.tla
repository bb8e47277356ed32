---------------------------- MODULE EventService ----------------------------
(***************************************************************************)
(* What the clients of an HTTP/SSE server may rely on: answers to what     *)
(* they post, in any order, on every stream that is open, one stream at a  *)
(* time.  HTTPClient is checked on such a service; HTTPServer is one.      *)
(*                                                                         *)
(* Nothing is promised of a single answer: it may be lost on a stream or   *)
(* land on another one, its post may be refused without an event or broken *)
(* off, a stream may end, and the service may go down.                     *)
(***************************************************************************)
EXTENDS Naturals, Sequences

CONSTANTS
    Streams,   \* one per SSE connection
    Posts,     \* one per message posted
    Cap,       \* events a stream holds before its writer blocks
    Greeting   \* the first thing a stream is sent

VARIABLES
    answerOf,  \* answerOf[c]: the events that may answer c (never changed here)
    up,        \* the streams that answers go to
    greeted,   \* the streams that have been sent their greeting
    events,    \* events[k]: what is written to stream k and not read
    srvUp,     \* whether the service is up
    atServer,  \* posts that have arrived and are not handled yet
    toSend,    \* toSend[c]: the streams still to be sent the answer to c
    posted,    \* posts that have got their response
    aborted,   \* posts that have been broken off without one
    answered   \* posts with an answer

streamVars == <<up, greeted, events>>
postVars   == <<atServer, toSend, posted, aborted, answered>>
vars == <<streamVars, srvUp, postVars>>

Init ==
    /\ up = {} /\ greeted = {} /\ events = [k \in Streams |-> <<>>]
    /\ srvUp = TRUE
    /\ atServer = {} /\ posted = {} /\ aborted = {} /\ answered = {}
    /\ toSend = [c \in Posts |-> {}]

HasRoom(k) == Len(events[k]) < Cap
Write(k, e) == HasRoom(k) /\ events' = [events EXCEPT ![k] = Append(@, e)]

-----------------------------------------------------------------------------
(* Streams                                                                 *)

Accepts(k) ==
    /\ srvUp /\ k \notin up \cup greeted /\ events[k] = <<>>
    /\ up' = up \cup {k}
    /\ UNCHANGED <<greeted, events, srvUp, postVars>>

(* The greeting is written or lost; an answer may have been ahead of it.   *)
Greets(k) ==
    /\ srvUp /\ k \in up \ greeted
    /\ greeted' = greeted \cup {k}
    /\ (\E j \in up : Write(j, Greeting)) \/ UNCHANGED events
    /\ UNCHANGED <<up, srvUp, postVars>>

Drops(k) ==
    /\ k \in up
    /\ up' = up \ {k}
    /\ UNCHANGED <<greeted, events, srvUp, postVars>>

Reads(k) ==
    /\ events[k] # <<>>
    /\ events' = [events EXCEPT ![k] = Tail(@)]
    /\ UNCHANGED <<up, greeted, srvUp, postVars>>

-----------------------------------------------------------------------------
(* Posts                                                                   *)

Arrives(c) ==
    /\ srvUp
    /\ atServer' = atServer \cup {c}
    /\ UNCHANGED <<streamVars, srvUp, toSend, posted, aborted, answered>>

(* The answer is known and the streams it will go to are chosen.           *)
Answers(c) ==
    /\ srvUp /\ c \in atServer
    /\ atServer' = atServer \ {c}
    /\ answered' = answered \cup {c}
    /\ toSend' = [toSend EXCEPT ![c] = up]
    /\ UNCHANGED <<streamVars, srvUp, posted, aborted>>

(* One write to a stream: it lands there, on another open stream, or is    *)
(* lost.                                                                   *)
Sends(c, k) ==
    /\ srvUp /\ k \in toSend[c]
    /\ toSend' = [toSend EXCEPT ![c] = @ \ {k}]
    /\ \/ \E j \in up \cup {k}, e \in answerOf[c] : Write(j, e)
       \/ UNCHANGED events
    /\ UNCHANGED <<up, greeted, srvUp, atServer, posted, aborted, answered>>

(* The response to the post may leave before or after the events do.       *)
Responds(c) ==
    /\ srvUp /\ c \in (atServer \cup answered) \ (posted \cup aborted)
    /\ posted' = posted \cup {c}
    /\ UNCHANGED <<streamVars, srvUp, atServer, toSend, aborted, answered>>

(* A request without an answer for the streams gets a response too.        *)
Refuses(c) ==
    /\ srvUp /\ c \in atServer \ posted
    /\ posted' = posted \cup {c}
    /\ atServer' = atServer \ {c}
    /\ UNCHANGED <<streamVars, srvUp, toSend, aborted, answered>>

(* What remains to be done for c is given up, its response included.       *)
Aborts(c) ==
    /\ srvUp /\ c \in atServer \cup answered
    /\ atServer' = atServer \ {c}
    /\ toSend' = [toSend EXCEPT ![c] = {}]
    /\ aborted' = IF c \in posted THEN aborted ELSE aborted \cup {c}
    /\ UNCHANGED <<streamVars, srvUp, posted, answered>>

Down ==
    /\ srvUp /\ srvUp' = FALSE
    /\ up' = {}
    /\ UNCHANGED <<greeted, events, postVars>>

-----------------------------------------------------------------------------
Next ==
    \/ Down
    \/ \E k \in Streams : Accepts(k) \/ Greets(k) \/ Drops(k) \/ Reads(k)
    \/ \E c \in Posts : \/ Arrives(c) \/ Answers(c) \/ Responds(c)
                        \/ Refuses(c) \/ Aborts(c)
                        \/ \E k \in Streams : Sends(c, k)

Spec == Init /\ [][Next]_vars
=============================================================================
