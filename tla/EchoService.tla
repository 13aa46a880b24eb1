---------------------------- MODULE EchoService ----------------------------
(***************************************************************************)
(* What an ECHO server owes its clients: what a client sends comes back,   *)
(* in the order sent and once.  Messages are counted, not named: a stream  *)
(* delivers a prefix of what was sent, so the number echoed says all.      *)
(***************************************************************************)
EXTENDS Naturals

CONSTANTS Clients, MaxSent   \* MaxSent: bound, messages of one client

VARIABLES sent, echoed       \* per client, messages sent and echoed

vars == <<sent, echoed>>

Init == /\ sent = [c \in Clients |-> 0]
        /\ echoed = [c \in Clients |-> 0]

Send(c) == /\ sent[c] < MaxSent
           /\ sent' = [sent EXCEPT ![c] = @ + 1]
           /\ UNCHANGED echoed

Echo(c) == /\ \E n \in (echoed[c] + 1)..sent[c] :
                echoed' = [echoed EXCEPT ![c] = n]
           /\ UNCHANGED sent

Next == \E c \in Clients : Send(c) \/ Echo(c)

\* A service that may leave messages unanswered, and what it takes that it leaves
\* none of c unanswered.
Spec    == Init /\ [][Next]_vars
Live(c) == WF_vars(Echo(c))
=============================================================================
