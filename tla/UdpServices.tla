----------------------------- MODULE UdpServices -----------------------------
(***************************************************************************)
(* The UDP servers without shared memory, and their clients, over a        *)
(* network that loses, delays and reorders datagrams.  The servers:        *)
(*   UDPtimed      one process, one request after the other: TIME          *)
(*                 (chapter9/UDPtimed.c, exc_9_4.c, exc_9_6.c); and the    *)
(*                 message of chapter19/UDP_xdr_server.c                   *)
(*   exc_9_2       the same, with the client's address overwritten         *)
(*   fork          a slave forked for each request (chapter8.20)           *)
(*   preallctn     all processes receive on the one socket                 *)
(*                 (chapter15/udp_preallctn_timed.c)                       *)
(*   UDPmultisvcd  one process, three sockets (chapter14/UDPmultisvcd.c)   *)
(*   exc_15_7      processes that all select on the three sockets          *)
(* The clients, of chapters 7 and 19, send a line and take what they read  *)
(* for its answer.  They differ in how long they wait:                     *)
(*   UDPecho, exc_7_11, UDPtime, UDP_xdr_client   for ever                 *)
(*   exc_7_10                     five seconds, twice                      *)
(*   exc_7_12                     fifteen milliseconds                     *)
(*   timed                        five seconds (exc_13_5.c)                *)
(* A buffer is a few cells, a cell says whose text it holds.               *)
(***************************************************************************)
EXTENDS Naturals, Sequences, FiniteSets, SequencesExt

CONSTANTS Clients, Wanted,   \* Wanted[c]: the service c uses, if there is a choice
          Lines,             \* Lines[c]: the lengths of the lines c sends to ECHO
          ClientKinds,       \* ClientKinds[c]: the client programs that c may be
          NCRTLVL,           \* slaves forked at the start; of "fork", at most
          BUFLEN,            \* cells of a server's buffer
          Faults             \* bound: datagrams lost, processes killed, forks that fail

Echo == 1  Daytime == 2  Time == 3      \* the order of svcmap
Socks == {Echo, Daytime, Time}

Root  == 0
Procs == 0..NCRTLVL
Selecting  == {"UDPmultisvcd", "exc_15_7"}
Preforking == {"preallctn", "exc_15_7"}
Programs   == {"UDPtimed", "exc_9_2", "fork"} \cup Selecting \cup Preforking
Waiting    == {"UDPecho", "exc_7_11", "UDPtime", "UDP_xdr_client"}
EchoKinds  == {"UDPecho", "exc_7_10", "exc_7_11", "exc_7_12"}
TimeKinds  == {"UDPtime", "timed", "UDP_xdr_client"}
Clock == <<"clock", 0>>   \* what the time and daytime services write
Nul   == <<"nul", 0>>

ASSUME ConstantsAssumption ==
  /\ IsFiniteSet(Clients)
  /\ ClientKinds \in [Clients -> SUBSET (EchoKinds \cup TimeKinds)] /\ Wanted \in [Clients -> Socks]
  /\ Lines \in [Clients -> Seq(1..(BUFLEN - 1))] /\ \A c \in Clients : Lines[c] # <<>>
  /\ NCRTLVL \in Nat \ {0} /\ BUFLEN \in Nat \ (0..2) /\ Faults \in Nat

VARIABLES
  program,   \* which server (the same in all states)
  kind,      \* kind[c]: which client c is (the same in all states)
  pc,        \* pc[p]: where process p is
  l,         \* the root's loop counter: slaves forked so far
  rfds,      \* rfds[p]: the sockets select found ready and p has not yet served
  buf,       \* UDPmultisvcd's buffer; that of the others is empty at each request
  req,       \* fork: req[p] is the request p has received and not yet answered
  sigchld,   \* is a SIGCHLD pending at the root?
  queue,     \* queue[s]: requests in the receive queue of s
  wire,      \* answers under way, or in the queue of their client
  cpc,       \* where client c is
  line,      \* line[c]: the line it is at
  retry,     \* retry[c]: requests sent for it
  gaveup,    \* history: clients whose wait has timed out
  lost,      \* history: clients without a timeout that have lost a datagram, or
             \* have not seen that there is no server
  faults

server  == <<pc, l, rfds, buf, req, sigchld>>
network == <<queue, wire>>
clients == <<cpc, line, retry, gaveup>>
vars == <<program, kind, pc, l, rfds, buf, req, sigchld, queue, wire,
          cpc, line, retry, gaveup, lost, faults>>

Service(c) == IF program \in Selecting THEN Wanted[c] ELSE Time
Kinds(c)   == (ClientKinds[c] \cap (IF Service(c) = Echo THEN EchoKinds ELSE TimeKinds))
                \ (IF program = "UDPtimed" THEN {} ELSE {"UDP_xdr_client"})
Lengths(c) == IF Service(c) = Echo THEN Lines[c] ELSE <<1>>
Blank == [i \in 1..BUFLEN |-> Nul]
Top   == IF program \in Selecting THEN "select" ELSE "recv"

Init == /\ program \in Programs
        /\ kind \in [Clients -> UNION {Kinds(c) : c \in Clients}]
        /\ \A c \in Clients : kind[c] \in Kinds(c)
        /\ pc = [p \in Procs |-> IF p # Root THEN "none"
                                 ELSE IF program \in Preforking THEN "prefork" ELSE Top]
        /\ l = 0 /\ rfds = [p \in Procs |-> {}]
        /\ buf = Blank /\ req = [p \in Procs |-> {}] /\ sigchld = FALSE
        /\ queue = [s \in Socks |-> <<>>] /\ wire = {}
        /\ cpc = [c \in Clients |-> "write"] /\ line = [c \in Clients |-> 1]
        /\ retry = [c \in Clients |-> 0] /\ gaveup = {}
        /\ lost = {} /\ faults = Faults

sock(p) == IF rfds[p] = {} THEN Time ELSE Min(rfds[p])
Live == {p \in Procs : pc[p] \notin {"none", "zombie", "dead"}}
Goto(p, from, to) == pc[p] = from /\ pc' = [pc EXCEPT ![p] = to]
Fault == faults > 0 /\ faults' = faults - 1
-----------------------------------------------------------------------------
(* The network. *)

\* Line n of client c.  exc_7_11 sends the same text again and again.
Line(c, n) == IF kind[c] = "exc_7_11" THEN [i \in 1..Lengths(c)[1] |-> <<c, 1>>]
                                      ELSE [i \in 1..Lengths(c)[n] |-> <<c, n>>]

\* Who waits for ever when datagrams D are lost.
Losers(D) == {d.client : d \in {x \in D : kind[x.client] \in Waiting}}

\* An answer is lost.  (One that is late is in wire until it is read.)
lose(d) == /\ Fault
           /\ wire' = wire \ {d}
           /\ lost' = lost \cup Losers({d})
           /\ UNCHANGED <<program, kind, server, queue, clients>>
-----------------------------------------------------------------------------
(* The clients. *)

\* The read fails because there is no process at the socket: errexit.  But
\* UDP_xdr_client does not look at what xdr_int returns, and waits in the next one.
ReadFails(c) == /\ cpc' = [cpc EXCEPT ![c] = IF kind[c] = "UDP_xdr_client" THEN "wait" ELSE "exit"]
                /\ lost' = IF kind[c] = "UDP_xdr_client" THEN lost \cup {c} ELSE lost

\* A request reaches the queue of its socket, or is lost.
write(c) ==
  LET d == [client |-> c, try |-> <<line[c], retry[c]>>, text |-> Line(c, line[c])] IN
  /\ cpc[c] = "write"
  /\ retry' = [retry EXCEPT ![c] = @ + 1]
  /\ IF Live = {}
     THEN ReadFails(c) /\ UNCHANGED <<queue, faults>>
     ELSE /\ cpc' = [cpc EXCEPT ![c] = "wait"]
          /\ \/ /\ queue' = [queue EXCEPT ![Service(c)] = Append(@, d)]
                /\ UNCHANGED <<lost, faults>>
             \/ /\ Fault /\ lost' = lost \cup Losers({d})
                /\ UNCHANGED queue
  /\ UNCHANGED <<program, kind, server, wire, line, gaveup>>

\* Mutant of NextLine: the end of the lines is not noticed.
MutantNextLine(c) == /\ line' = [line EXCEPT ![c] = @ + 1]
                     /\ retry' = [retry EXCEPT ![c] = 0]
                     /\ cpc' = [cpc EXCEPT ![c] = "write"]

\* On to the next line, if there is one.
NextLine(c) == /\ line' = [line EXCEPT ![c] = IF @ = Len(Lengths(c)) THEN @ ELSE @ + 1]
               /\ retry' = [retry EXCEPT ![c] = 0]
               /\ cpc' = [cpc EXCEPT ![c] = IF line[c] = Len(Lengths(c)) THEN "done" ELSE "write"]

\* Mutant of Taken: the client reads all that its buffer can hold.
MutantTaken(c, text) == text

\* read returns as much of an answer as the line is long.
Taken(c, text) == IF Service(c) = Echo /\ Len(text) > Len(Line(c, line[c]))
                  THEN SubSeq(text, 1, Len(Line(c, line[c]))) ELSE text

read(c, d) ==
  /\ cpc[c] = "wait" /\ d \in wire /\ d.client = c
  /\ wire' = wire \ {d}
  /\ IF kind[c] = "exc_7_11" /\ Taken(c, d.text) # Line(c, line[c])
     THEN cpc' = [cpc EXCEPT ![c] = "incorrect"] /\ UNCHANGED <<line, retry>>
     ELSE NextLine(c)
  /\ UNCHANGED <<program, kind, server, queue, gaveup, lost, faults>>

TimesOut(c, k) == /\ cpc[c] = "wait" /\ kind[c] = k
                  /\ gaveup' = gaveup \cup {c}
                  /\ UNCHANGED <<program, kind, server, network, lost, faults>>

\* Mutant of timeout_retry: the request is sent again and again.
MutantRetry(c) == /\ TimesOut(c, "exc_7_10")
                  /\ cpc' = [cpc EXCEPT ![c] = "write"]
                  /\ retry' = [retry EXCEPT ![c] = 1]
                  /\ UNCHANGED line

\* exc_7_10: the first time, the line is sent once more; the second, errexit.
timeout_retry(c) == /\ TimesOut(c, "exc_7_10")
                    /\ cpc' = [cpc EXCEPT ![c] = IF retry[c] = 1 THEN "write" ELSE "exit"]
                    /\ UNCHANGED <<line, retry>>

\* exc_7_12: recvDgram has polled five times; the line is taken for lost.
timeout_next(c) == TimesOut(c, "exc_7_12") /\ NextLine(c)

\* exc_13_5: errexit.
timeout_exit(c) == /\ TimesOut(c, "timed")
                   /\ cpc' = [cpc EXCEPT ![c] = "exit"]
                   /\ UNCHANGED <<line, retry>>
-----------------------------------------------------------------------------
(* The servers. *)

\* The root forks the slaves, and after the last one becomes one of them.
prefork == /\ pc[Root] = "prefork"
           /\ l' = l + 1
           /\ pc' = [pc EXCEPT ![l + 1] = Top,
                               ![Root] = IF l + 1 = NCRTLVL THEN Top ELSE "prefork"]
           /\ UNCHANGED <<program, kind, rfds, buf, req, sigchld,
                          network, clients, lost, faults>>

Ready == {s \in Socks : queue[s] # <<>>}

\* Mutant of select: rfds keeps what it held before.
MutantSelect(p) ==
  /\ Goto(p, "select", "recv") /\ Ready # {}
  /\ rfds' = [rfds EXCEPT ![p] = Socks]
  /\ UNCHANGED <<program, kind, l, buf, req, sigchld, network, clients, lost, faults>>

\* select returns; the loop over svcmap takes the sockets that are ready in order.
select(p) ==
  /\ Goto(p, "select", "recv") /\ Ready # {}
  /\ rfds' = [rfds EXCEPT ![p] = Ready]
  /\ UNCHANGED <<program, kind, l, buf, req, sigchld, network, clients, lost, faults>>

\* The buffer after a datagram: the rest is what it was before.
Received(old, text) == [i \in 1..BUFLEN |-> IF i <= Len(text) THEN text[i] ELSE old[i]]

\* doecho, dodaytime (daytime) and dotime on the buffer; all but doecho write
\* into it.  The answer is what the buffer holds before its first nul.
Handled(s, b) == CASE s = Echo    -> b
                   [] s = Daytime -> [b EXCEPT ![1] = Clock, ![2] = Clock, ![3] = Nul]
                   [] s = Time    -> [b EXCEPT ![1] = Clock, ![2] = Nul]
StrLen(b) == Min({i \in 1..BUFLEN : b[i] = Nul}) - 1
Answer(d, b) == [client |-> d.client, try |-> d.try, text |-> SubSeq(b, 1, StrLen(b))]

\* Mutant of serve: exc_15_7 does not clear its buffer either.
MutantServe(p) ==
  LET s == sock(p)   d == Head(queue[s])   b == Handled(s, Received(buf, d.text)) IN
  /\ pc[p] = "recv" /\ queue[s] # <<>> /\ program \in Selecting
  /\ queue' = [queue EXCEPT ![s] = Tail(@)]
  /\ rfds' = [rfds EXCEPT ![p] = @ \ {s}]
  /\ pc' = [pc EXCEPT ![p] = IF rfds'[p] = {} THEN "select" ELSE "recv"]
  /\ buf' = b
  /\ wire' = wire \cup {Answer(d, b)}
  /\ UNCHANGED <<program, kind, l, req, sigchld, clients, lost, faults>>

\* One of the processes in recvfrom for s gets the datagram, handles and answers
\* it, and goes on with the next socket in rfds.  Only UDPmultisvcd keeps its buffer.
serve(p) ==
  LET s == sock(p)   d == Head(queue[s])   b == Handled(s, Received(buf, d.text)) IN
  /\ pc[p] = "recv" /\ queue[s] # <<>> /\ program \in Selecting
  /\ queue' = [queue EXCEPT ![s] = Tail(@)]
  /\ rfds' = [rfds EXCEPT ![p] = @ \ {s}]
  /\ pc' = [pc EXCEPT ![p] = IF rfds'[p] = {} THEN "select" ELSE "recv"]
  /\ buf' = IF program = "UDPmultisvcd" THEN b ELSE Blank
  /\ wire' = wire \cup {Answer(d, b)}
  /\ UNCHANGED <<program, kind, l, req, sigchld, clients, lost, faults>>

\* The same where there is one socket, the iterative server included.
serveTime(p) ==
  /\ pc[p] = "recv" /\ queue[Time] # <<>> /\ program \in {"UDPtimed", "preallctn"}
  /\ queue' = [queue EXCEPT ![Time] = Tail(@)]
  /\ wire' = wire \cup {Answer(Head(queue[Time]), Handled(Time, Blank))}
  /\ UNCHANGED <<program, kind, server, clients, lost, faults>>

\* chapter8.20: the root forks a slave for the request.  Nobody waits for it.
recvfrom == /\ program = "fork" /\ Goto(Root, "recv", "fork") /\ queue[Time] # <<>>
            /\ req' = [req EXCEPT ![Root] = {Head(queue[Time])}]
            /\ queue' = [queue EXCEPT ![Time] = Tail(@)]
            /\ UNCHANGED <<program, kind, l, rfds, buf, sigchld, wire, clients, lost, faults>>

fork(s) == /\ pc[Root] = "fork" /\ pc[s] = "none"
           /\ pc' = [pc EXCEPT ![Root] = "recv", ![s] = "reply"]
           /\ req' = [req EXCEPT ![s] = req[Root], ![Root] = {}]
           /\ UNCHANGED <<program, kind, l, rfds, buf, sigchld, network, clients,
                          lost, faults>>

\* fork fails, as it does when the zombies are too many: the request is forgotten.
fork_fails == /\ Goto(Root, "fork", "recv")
              /\ \/ /\ \A s \in Procs : pc[s] # "none"
                    /\ UNCHANGED faults
                 \/ Fault
              /\ lost' = lost \cup Losers(req[Root])
              /\ req' = [req EXCEPT ![Root] = {}]
              /\ UNCHANGED <<program, kind, l, rfds, buf, sigchld, network, clients>>

reply(s) == /\ Goto(s, "reply", "close")
            /\ wire' = wire \cup {Answer(d, Handled(Time, Blank)) : d \in req[s]}
            /\ req' = [req EXCEPT ![s] = {}]
            /\ UNCHANGED <<program, kind, l, rfds, buf, sigchld, queue, clients, lost, faults>>

\* The end of a process.  What it had received is never answered, nor is what
\* the sockets hold if it was the last one.
Ends(p) ==
  LET last    == Live = {p}
      dropped == req[p] \cup (IF last THEN UNION {ToSet(queue[s]) : s \in Socks} ELSE {})
  IN  /\ pc' = [q \in Procs |->
                  CASE q = p -> IF p = Root THEN "dead"
                                ELSE IF pc[Root] = "dead" THEN "none" ELSE "zombie"
                    [] q # p -> IF p = Root /\ pc[q] = "zombie" THEN "none" ELSE pc[q]]
      /\ req' = [req EXCEPT ![p] = {}] /\ rfds' = [rfds EXCEPT ![p] = {}]
      /\ lost' = lost \cup Losers(dropped)
      /\ queue' = IF last THEN [s \in Socks |-> <<>>] ELSE queue
      /\ UNCHANGED <<program, kind, l, buf, wire, clients>>

\* chapter8.20: the slave closes the socket and exits.
slave_ends(s) == /\ pc[s] = "close"
                 /\ Ends(s)
                 /\ UNCHANGED <<sigchld, faults>>

prefork_fails == /\ pc[Root] = "prefork" /\ Fault
                 /\ Ends(Root)
                 /\ UNCHANGED sigchld

\* exc_9_2: sendto fails on the overwritten address, and errexit ends the server.
sendto_fails == /\ program = "exc_9_2" /\ pc[Root] = "recv" /\ queue[Time] # <<>>
                /\ Ends(Root)
                /\ UNCHANGED <<sigchld, faults>>

killed(p) == /\ p \in Live /\ Fault
             /\ Ends(p)
             /\ sigchld' = (p # Root /\ Root \in Live)

\* SIGCHLD.  A select that it interrupts fails with EINTR, and errexit ends the root.
reaper == /\ sigchld /\ Root \in Live /\ program \in Preforking
          /\ sigchld' = FALSE
          /\ \/ /\ pc' = [p \in Procs |-> IF pc[p] = "zombie" THEN "none" ELSE pc[p]]
                /\ UNCHANGED <<program, kind, l, rfds, buf, req, network, clients, lost>>
             \/ pc[Root] = "select" /\ Ends(Root)
          /\ UNCHANGED faults
-----------------------------------------------------------------------------
ClientStep(c) == write(c) \/ timeout_retry(c) \/ timeout_next(c) \/ timeout_exit(c)
                 \/ \E d \in wire : read(c, d)
ProcStep(p)   == select(p) \/ serve(p) \/ serveTime(p) \/ reply(p) \/ slave_ends(p)
RootStep      == prefork \/ recvfrom \/ fork_fails \/ sendto_fails \/ \E s \in Procs : fork(s)

Next == \/ \E c \in Clients : ClientStep(c)
        \/ \E p \in Procs : ProcStep(p) \/ killed(p)
        \/ RootStep \/ prefork_fails \/ reaper
        \/ \E d \in wire : lose(d)

Spec == Init /\ [][Next]_vars

\* Some client and some process of the server is scheduled when one can run,
\* timers run out, and an answer that is not lost arrives.
Fairness == /\ WF_vars(\E c \in Clients : ClientStep(c))
            /\ WF_vars(RootStep \/ reaper \/ \E p \in Procs : ProcStep(p))
FairSpec == Spec /\ Fairness
-----------------------------------------------------------------------------
Cells == {Clock, Nul} \cup UNION {{c} \X (1..Len(Lengths(c))) : c \in Clients}

TypeOK ==
  /\ program \in Programs /\ \A c \in Clients : kind[c] \in Kinds(c)
  /\ \A p \in Procs : /\ pc[p] \in {"none", "prefork", "select", "recv", "fork", "reply", "close",
                                    "zombie", "dead"}
                      /\ rfds[p] \subseteq Socks
                      /\ Cardinality(req[p]) <= 1
                      /\ req[p] # {} => pc[p] \in {"fork", "reply"}
  /\ buf \in [1..BUFLEN -> Cells] /\ l \in 0..NCRTLVL /\ sigchld \in BOOLEAN /\ faults \in 0..Faults
  /\ \A s \in Socks : \A d \in ToSet(queue[s]) : Service(d.client) = s
  /\ \A c \in Clients : /\ cpc[c] \in {"write", "wait", "done", "exit", "incorrect"}
                        /\ line[c] \in 1..Len(Lengths(c)) /\ retry[c] \in 0..2
  /\ gaveup \subseteq Clients /\ lost \subseteq Clients

\* The server with one process never blocks in recvfrom for one service while
\* the others wait: what select found ready is still there when the loop over
\* svcmap comes to it (UDPmultisvcd.c, lines 67-78).
RecvReady == program = "UDPmultisvcd" /\ pc[Root] = "recv"
             => \A s \in {sock(Root)} \cup rfds[Root] : queue[s] # <<>>

\* With the types of the variables.
RecvInv == TypeOK /\ RecvReady

\* ECHO client c has read d in this step.
Takes(c, d) == Service(c) = Echo /\ d.client = c /\ cpc'[c] # cpc[c]

\* A client that has never given up waiting gets, for each of its lines, that
\* very line: although UDPmultisvcd answers with whatever its buffer held behind
\* a shorter line, because the client reads no more than it has sent; and the
\* test of exc_7_11 never fails.  A client that has given up may be out of step
\* with the answers from then on; but exc_15_7, which clears its buffer, lets even
\* that one read nothing but its own text.
EchoInStep == [][\A c \in Clients : \A d \in wire \ wire' : Takes(c, d) =>
  /\ Taken(c, d.text) # Line(c, line[c]) => c \in gaveup
  /\ program = "exc_15_7"
     => \A i \in DOMAIN Taken(c, d.text) : Taken(c, d.text)[i] \in {c} \X Nat]_vars

\* A request waits at s, and every process of exc_15_7 is blocked in recvfrom on
\* another socket, where another process was faster.
Starved(s) == /\ program = "exc_15_7" /\ queue[s] # <<>>
              /\ \A p \in Live : pc[p] = "recv" /\ sock(p) # s /\ queue[sock(p)] = <<>>

\* Every client ends: it gets its answers, or gives up, or is told that there is
\* no server.  Only one without a timeout may wait for ever, and only for a
\* datagram that was lost or at a server whose processes all wait elsewhere.
ClientsEnd == \A c \in Clients :
  <>[](\/ cpc[c] \in {"done", "exit"}
       \/ kind[c] \in Waiting /\ (c \in lost \/ Starved(Service(c))))
=============================================================================
