---------------------------- MODULE RequestReply ----------------------------
(***************************************************************************)
(* What a request/reply client promises its callers, whatever the          *)
(* transport: a call that was made ends at most once; it ends with the     *)
(* answer the server gave to that very request; it fails only if the       *)
(* connection broke or the call was given up; and a call rejected for its  *)
(* arguments never reached the server.                                     *)
(***************************************************************************)
CONSTANTS Calls, None

VARIABLES
    outcome,   \* outcome[c]: "idle", "open", or how the call ended
    reply,     \* reply[c]: the call whose answer c returned
    sent,      \* calls whose request is on its way or with the server
    answered,  \* calls the server has answered
    broken,    \* whether the connection is known to be unusable
    gaveUp     \* calls given up: by the caller, by a timer, by the server

vars == <<outcome, reply, sent, answered, broken, gaveUp>>

Init ==
    /\ outcome = [c \in Calls |-> "idle"]
    /\ reply = [c \in Calls |-> None]
    /\ sent = {} /\ answered = {} /\ gaveUp = {}
    /\ broken = FALSE

End(c, how) ==
    /\ outcome[c] = "open"
    /\ outcome' = [outcome EXCEPT ![c] = how]
    /\ UNCHANGED <<sent, answered, broken, gaveUp>>

Invoke(c) ==
    /\ outcome[c] = "idle"
    /\ outcome' = [outcome EXCEPT ![c] = "open"]
    /\ UNCHANGED <<reply, sent, answered, broken, gaveUp>>

Send(c) ==
    /\ outcome[c] = "open" /\ c \notin sent
    /\ sent' = sent \cup {c}
    /\ UNCHANGED <<outcome, reply, answered, broken, gaveUp>>

Answer(c) ==
    /\ c \in sent /\ c \notin answered
    /\ answered' = answered \cup {c}
    /\ UNCHANGED <<outcome, reply, sent, broken, gaveUp>>

Complete(c) ==
    /\ c \in answered
    /\ End(c, "answered")
    /\ reply' = [reply EXCEPT ![c] = c]

Fail(c) ==
    /\ broken \/ c \in gaveUp
    /\ End(c, "failed")
    /\ UNCHANGED reply

Reject(c) ==
    /\ c \notin sent
    /\ End(c, "rejected")
    /\ UNCHANGED reply

GiveUp(c) ==
    /\ c \notin gaveUp
    /\ gaveUp' = gaveUp \cup {c}
    /\ UNCHANGED <<outcome, reply, sent, answered, broken>>

Break ==
    /\ ~broken /\ broken' = TRUE
    /\ UNCHANGED <<outcome, reply, sent, answered, gaveUp>>

Next ==
    \/ \E c \in Calls : \/ Invoke(c) \/ Send(c) \/ Answer(c) \/ Complete(c)
                        \/ Fail(c) \/ Reject(c) \/ GiveUp(c)
    \/ Break

Spec == Init /\ [][Next]_vars
=============================================================================
