---------------------------- MODULE Conversation ----------------------------
(***************************************************************************)
(* What rpsiod promises an HTTP/1.1 client on each connection, whatever    *)
(* the buffers, batches and TLS records behind it: requests are answered   *)
(* in the order in which they were sent, each at most once, never before   *)
(* it was begun; an answer that announces the end of the connection is the *)
(* last one; and a connection serves a bounded number of requests.         *)
(* Module WorkerRefinement shows that the event loop implements this.      *)
(***************************************************************************)
EXTENDS Naturals, Sequences

CONSTANTS
    Conns,       \* connections
    MaxAnswers   \* answers one connection may get

VARIABLES
    phase,       \* "new", "open", "final" (the last answer has begun), "closed"
    asked,       \* requests the client has begun
    answers      \* the request each answer belongs to

vars == <<phase, asked, answers>>

Init ==
    /\ phase = [c \in Conns |-> "new"]
    /\ asked = [c \in Conns |-> 0]
    /\ answers = [c \in Conns |-> <<>>]

Open(c) ==
    /\ phase[c] = "new"
    /\ phase' = [phase EXCEPT ![c] = "open"]
    /\ UNCHANGED <<asked, answers>>

\* Requests may be pipelined, and may still arrive behind the last answer.
Ask(c) ==
    /\ phase[c] \in {"open", "final"}
    /\ asked' = [asked EXCEPT ![c] = @ + 1]
    /\ UNCHANGED <<phase, answers>>

\* The next request in order is answered; the connection goes on only if
\* another answer is still allowed.
Answer(c, then) ==
    /\ phase[c] = "open"
    /\ Len(answers[c]) < asked[c]
    /\ then = "open" => Len(answers[c]) + 1 < MaxAnswers
    /\ answers' = [answers EXCEPT ![c] = Append(@, Len(@) + 1)]
    /\ phase' = [phase EXCEPT ![c] = then]
    /\ UNCHANGED asked

\* The server may end any number of connections at once.
Close(S) ==
    /\ \A c \in S : phase[c] \in {"open", "final"}
    /\ phase' = [c \in Conns |-> IF c \in S THEN "closed" ELSE phase[c]]
    /\ UNCHANGED <<asked, answers>>

Next ==
    \/ \E c \in Conns :
         \/ Open(c)
         \/ Ask(c)
         \/ \E then \in {"open", "final", "closed"} : Answer(c, then)
    \/ \E S \in SUBSET Conns : Close(S)

Spec == Init /\ [][Next]_vars
=============================================================================
