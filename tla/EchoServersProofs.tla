--------------------------- MODULE EchoServersProofs ---------------------------
(***************************************************************************)
(* Proofs about EchoServers, for all five servers and any number of        *)
(* clients, slaves, messages and failures: no message is lost, duplicated  *)
(* or given to two processes, and TCPmechod reads what select found ready. *)
(* At the end, proofs about EchoTest, the servers as the test clients see  *)
(* them, with an invariant of its own, TestInv.                            *)
(***************************************************************************)
EXTENDS EchoServers, SequenceTheorems, FiniteSetTheorems, TLAPS

ConnStates == {"new", "open", "fin", "rst"}

\* The types of the variables; the bounds of TypeOK that follow from Accounts are
\* left out.
Types == /\ program \in Programs
         /\ pc \in [Procs -> {"none", "prefork", "accept", "fork", "close", "wait", "read",
                              "write", "select", "loop", "zombie", "dead"}]
         /\ l \in 0..NCRTLVL /\ ssock \in [Procs -> Clients \cup {None}]
         /\ fds \in [Procs -> SUBSET Clients] /\ buf \in [Procs -> 0..BUFSIZE]
         /\ rfds \subseteq Clients \cup {None}
         /\ reaping \in BOOLEAN /\ sigchld \in BOOLEAN
         /\ faults \in 0..Faults

NetTypes == /\ backlog \in Seq(Clients) /\ Len(backlog) <= QLEN + 1
            /\ conn \in [Clients -> ConnStates]
            /\ inq \in [Clients -> Nat] /\ outq \in [Clients -> 0..CAP]
            /\ sent \in [Clients -> Nat] /\ got \in [Clients -> Nat]
            /\ \A c \in Clients : sent[c] <= MaxSent[c]

\* Which processes a program has, and what they can be at.
MasterAt == CASE program \in Forking     -> {"accept", "fork", "close", "wait", "dead"}
              [] program = "exc_11_3"    -> {"accept", "read", "write", "dead"}
              [] program = "preallctn"   -> {"prefork", "accept", "read", "write", "dead"}
              [] program = "TCPmechod"   -> {"select", "loop", "read", "write", "dead"}
SlaveAt  == CASE program \in Forking     -> {"none", "read", "write", "zombie"}
              [] program = "preallctn"   -> {"none", "accept", "read", "write", "zombie"}
              [] program \in {"exc_11_3", "TCPmechod"} -> {"none"}
Labels == pc[Master] \in MasterAt /\ \A s \in Slaves : pc[s] \in SlaveAt

\* While the root forks, the slaves to come are free.
PreforkLeft == pc[Master] = "prefork" =>
                 l < NCRTLVL /\ \A s \in Slaves : s > l => pc[s] = "none"

\* What a process serves goes with where it is: it has messages only when it is to
\* write them, and a descriptor of what it serves.
Tidy == \A p \in Procs :
          /\ pc[p] \in {"none", "prefork", "accept", "wait", "zombie", "dead"} => ssock[p] = None
          /\ pc[p] \in {"fork", "close", "read", "write"} => ssock[p] # None
          /\ buf[p] > 0 => pc[p] = "write"
          /\ ssock[p] # None => ssock[p] \in fds[p]

\* A connection waits once, and nobody has a descriptor of it before it is accepted.
Fresh == /\ \A c \in Clients : conn[c] = "new" \/ Queued(c) => ~Held(c)
         /\ \A i \in 1..Len(backlog) : conn[backlog[i]] # "new"
         /\ \A i, j \in 1..Len(backlog) : backlog[i] = backlog[j] => i = j

\* A connection is served by one process, but for the master between its fork and its
\* close.
OneServer == \A p, q \in Procs : p # q /\ ssock[p] = ssock[q] /\ ssock[p] # None =>
                                   pc[Master] = "close" /\ Master \in {p, q}

\* The messages of c, n of them with the process that serves it.
Adds(c, n) == LET all == inq[c] + n + outq[c] + got[c]
              IN  all <= sent[c] /\ (conn[c] # "rst" => all = sent[c])
Accounts == \A c \in Clients :
              /\ \A p \in Procs : ssock[p] = c /\ buf[p] > 0 => Adds(c, buf[p])
              /\ (\A p \in Procs : ssock[p] = c => buf[p] = 0) => Adds(c, 0)

\* What select found stays as it was until the master comes to it.
Readable(c) == inq[c] > 0 \/ conn[c] \in {"fin", "rst"}
Selected ==
  program = "TCPmechod" =>
    /\ \A c \in rfds \ {None} : c \in fds[Master] /\ Readable(c)
    /\ None \in rfds => backlog # <<>>
    /\ pc[Master] \in {"read", "write"} => ssock[Master] \notin rfds
    /\ pc[Master] = "read" => Readable(ssock[Master])

Inv == /\ Types /\ NetTypes /\ Labels /\ PreforkLeft /\ Tidy /\ Fresh /\ OneServer
       /\ Accounts /\ Selected

\* No connection is not a connection, and the processes are told apart.
LEMMA Names ==
  /\ None \notin Clients /\ Master \in Procs /\ Slaves \subseteq Procs
  /\ \A s \in Slaves : s # Master
  /\ \A p \in Procs : p # Master => p \in Slaves
  BY ConstantsAssumption DEF Master, Slaves, Procs

\* Queued, by the positions of the backlog.
LEMMA InBacklog ==
  ASSUME NetTypes
  PROVE  \A c \in Clients : Queued(c) <=> \E i \in 1..Len(backlog) : backlog[i] = c
  BY LenProperties DEF NetTypes, Queued

\* The initial state satisfies the invariant.
LEMMA InitInv == Init => Inv
<1> SUFFICES ASSUME Init PROVE Inv
  OBVIOUS
<1> USE ConstantsAssumption, Names
<1>1. /\ l = 0 /\ ssock = [p \in Procs |-> None] /\ fds = [p \in Procs |-> {}]
      /\ buf = [p \in Procs |-> 0] /\ rfds = {} /\ program \in Programs
      /\ backlog = <<>> /\ conn = [c \in Clients |-> "new"]
      /\ inq = [c \in Clients |-> 0] /\ outq = [c \in Clients |-> 0]
      /\ sent = [c \in Clients |-> 0] /\ got = [c \in Clients |-> 0]
      /\ faults = Faults /\ reaping = FALSE /\ sigchld = FALSE
  BY DEF Init
<1>2. /\ pc \in [Procs -> {"none", "prefork", "accept", "select"}]
      /\ pc[Master] = IF program = "preallctn" THEN "prefork"
                      ELSE IF program = "TCPmechod" THEN "select" ELSE "accept"
      /\ \A s \in Slaves : pc[s] = "none"
  <2>1. pc = [p \in Procs |-> IF p # Master THEN "none"
                             ELSE IF program = "preallctn" THEN "prefork" ELSE Top]
    BY DEF Init
  <2>2. Top \in {"select", "accept"} /\ (Top = "select" <=> program = "TCPmechod")
    BY DEF Top
  <2> QED
    BY <2>1, <2>2
<1>3. Types
  <2>1. pc \in [Procs -> {"none", "prefork", "accept", "fork", "close", "wait", "read",
                          "write", "select", "loop", "zombie", "dead"}]
    BY <1>2
  <2>2. buf \in [Procs -> 0..BUFSIZE] /\ l \in 0..NCRTLVL /\ faults \in 0..Faults
    BY <1>1
  <2> QED
    BY <1>1, <2>1, <2>2 DEF Types
<1>4. NetTypes
  BY <1>1 DEF NetTypes, ConnStates
<1>5. Labels
  BY <1>1, <1>2 DEF Labels, MasterAt, SlaveAt, Programs, Forking
<1>6. PreforkLeft
  BY <1>1, <1>2 DEF PreforkLeft
<1>7. Tidy /\ OneServer /\ Selected
  BY <1>1, <1>2 DEF Tidy, OneServer, Selected
<1>8. Fresh
  BY <1>1 DEF Fresh, Held
<1>9. Accounts
  BY <1>1 DEF Accounts, Adds
<1> QED
  BY <1>3, <1>4, <1>5, <1>6, <1>7, <1>8, <1>9 DEF Inv

\* The clients and TCP: one more message is one more on its way, and one received
\* was on its way back.
LEMMA ClientInv ==
  ASSUME Inv, NEW c \in Clients, ClientStep(c)
  PROVE  Inv'
<1> USE ConstantsAssumption, Names DEF Inv
<1>1. UNCHANGED <<program, pc, l, ssock, fds, buf, rfds, reaping, sigchld>>
  BY DEF ClientStep, connect, send, receive, finish, reset, procs
<1>2. faults' \in 0..Faults
  BY DEF ClientStep, connect, send, receive, finish, reset, Types
<1>3. Types' /\ Labels' /\ PreforkLeft' /\ Tidy' /\ OneServer'
  BY <1>1, <1>2 DEF Types, Labels, MasterAt, SlaveAt, PreforkLeft, Tidy, OneServer
<1>4. CASE connect(c)
  <2>1. /\ conn[c] = "new" /\ Len(backlog) <= QLEN /\ conn' = [conn EXCEPT ![c] = "open"]
        /\ backlog' = Append(backlog, c) /\ UNCHANGED <<inq, outq, sent, got>>
    BY <1>4 DEF connect
  <2>2. backlog \in Seq(Clients) /\ Len(backlog) \in Nat
    BY LenProperties DEF NetTypes
  <2>3. /\ backlog' \in Seq(Clients) /\ Len(backlog') = Len(backlog) + 1 /\ backlog' # <<>>
        /\ \A i \in 1..Len(backlog) : backlog'[i] = backlog[i]
        /\ backlog'[Len(backlog) + 1] = c
    BY <2>1, <2>2, AppendProperties
  <2>4. NetTypes'
    BY <2>1, <2>2, <2>3 DEF NetTypes, ConnStates
  <2>5. Fresh'
    <3>1. \A i \in 1..Len(backlog') : i \in 1..Len(backlog) \/ i = Len(backlog) + 1
      BY <2>2, <2>3
    <3>2. \A d \in Clients : Queued(d)' => Queued(d) \/ d = c
      <4>1. \A d \in Clients : Queued(d)' <=> \E i \in 1..Len(backlog') : backlog'[i] = d
        BY <2>3, LenProperties DEF Queued
      <4>2. \A d \in Clients : Queued(d) <=> \E i \in 1..Len(backlog) : backlog[i] = d
        BY InBacklog
      <4> QED
        BY <2>3, <3>1, <4>1, <4>2
    <3>3. \A d \in Clients : conn'[d] = IF d = c THEN "open" ELSE conn[d]
      BY <2>1 DEF NetTypes
    <3>4. \A d \in Clients : Held(d)' <=> Held(d)
      BY <1>1 DEF Held
    <3>5. \A d \in Clients : conn'[d] = "new" \/ Queued(d)' => ~Held(d)'
      BY <2>1, <3>2, <3>3, <3>4 DEF Fresh
    <3>6. \A i \in 1..Len(backlog) : backlog[i] \in Clients /\ conn[backlog[i]] # "new"
                                     /\ backlog[i] # c
      BY <2>1, <2>2, ElementOfSeq DEF Fresh
    <3>7. \A i \in 1..Len(backlog') : conn'[backlog'[i]] # "new"
      BY <2>3, <3>1, <3>3, <3>6
    <3>8. \A i, j \in 1..Len(backlog') : backlog'[i] = backlog'[j] => i = j
      <4>1. \A i, j \in 1..Len(backlog) : backlog[i] = backlog[j] => i = j
        BY DEF Fresh
      <4> QED
        BY <2>3, <3>1, <3>6, <4>1
    <3> QED
      BY <3>5, <3>7, <3>8 DEF Fresh
  <2>6. Accounts'
    BY <1>1, <2>1 DEF Accounts, Adds, NetTypes
  <2>7. Selected'
    <3>1. \A d \in Clients : Readable(d) => Readable(d)'
      BY <2>1 DEF Readable, NetTypes
    <3>2. program = "TCPmechod" /\ pc[Master] = "read" => ssock[Master] \in Clients
      BY DEF Types, Tidy
    <3> QED
      BY <1>1, <2>3, <3>1, <3>2 DEF Selected, Types
  <2> QED
    BY <1>3, <2>4, <2>5, <2>6, <2>7
<1>5. CASE send(c) \/ receive(c) \/ finish(c) \/ reset(c)
  <2> DEFINE Sends == /\ sent[c] < MaxSent[c] /\ sent' = [sent EXCEPT ![c] = @ + 1]
                      /\ inq' = [inq EXCEPT ![c] = @ + 1] /\ UNCHANGED <<conn, outq, got>>
             Receives == /\ got' = [got EXCEPT ![c] = @ + outq[c]]
                         /\ outq' = [outq EXCEPT ![c] = 0] /\ UNCHANGED <<conn, inq, sent>>
             Leaves == \E s \in {"fin", "rst"} : /\ conn[c] \in {"open", "fin"}
                                                /\ conn' = [conn EXCEPT ![c] = s]
                                                /\ UNCHANGED <<inq, outq, sent, got>>
  <2>1. /\ conn[c] # "new" /\ backlog' = backlog
        /\ Sends \/ Receives \/ Leaves
    BY <1>5 DEF send, receive, finish, reset
  <2>2. NetTypes'
    <3>1. conn' \in [Clients -> ConnStates]
      BY <2>1 DEF NetTypes, ConnStates
    <3>2. /\ inq \in [Clients -> Nat] /\ outq \in [Clients -> 0..CAP]
          /\ sent \in [Clients -> Nat] /\ got \in [Clients -> Nat]
          /\ \A d \in Clients : sent[d] <= MaxSent[d]
      BY DEF NetTypes
    <3>3. /\ inq' \in [Clients -> Nat] /\ outq' \in [Clients -> 0..CAP]
          /\ sent' \in [Clients -> Nat] /\ got' \in [Clients -> Nat]
          /\ \A d \in Clients : sent'[d] <= MaxSent[d]
      <4>1. CASE Sends
        <5>1. inq[c] + 1 \in Nat /\ sent[c] + 1 \in Nat /\ sent[c] + 1 <= MaxSent[c]
          BY <3>2, <4>1
        <5> QED
          BY <3>2, <4>1, <5>1
      <4>2. CASE Receives
        <5>1. got[c] + outq[c] \in Nat /\ 0 \in 0..CAP
          BY <3>2
        <5> QED
          BY <3>2, <4>2, <5>1
      <4>3. CASE Leaves
        BY <3>2, <4>3
      <4> QED
        BY <2>1, <4>1, <4>2, <4>3
    <3> QED
      BY <2>1, <3>1, <3>2, <3>3 DEF NetTypes
  <2>3. Fresh'
    <3>1. \A d \in Clients : conn'[d] = "new" => conn[d] = "new"
      BY <2>1 DEF NetTypes
    <3>2. \A i \in 1..Len(backlog) : backlog[i] \in Clients
      BY ElementOfSeq DEF NetTypes
    <3> QED
      BY <1>1, <2>1, <3>1, <3>2 DEF Fresh, Held, Queued
  <2>4. Accounts'
    <3> SUFFICES ASSUME NEW d \in Clients, NEW n \in Nat, Adds(d, n)
                 PROVE  Adds(d, n)'
      BY <1>1, <2>1 DEF Accounts, Types
    <3>1. CASE d # c
      BY <2>1, <3>1 DEF Adds, NetTypes
    <3>2. CASE d = c
      <4>1. /\ inq[c] \in Nat /\ outq[c] \in Nat /\ sent[c] \in Nat /\ got[c] \in Nat
            /\ c \in DOMAIN inq /\ c \in DOMAIN outq /\ c \in DOMAIN sent /\ c \in DOMAIN got
            /\ c \in DOMAIN conn
        BY DEF NetTypes
      <4>2. CASE Sends
        BY <3>2, <4>1, <4>2 DEF Adds
      <4>3. CASE Receives
        BY <3>2, <4>1, <4>3 DEF Adds
      <4>4. CASE Leaves
        BY <3>2, <4>1, <4>4 DEF Adds
      <4> QED
        BY <2>1, <4>2, <4>3, <4>4
    <3> QED
      BY <3>1, <3>2
  <2>5. Selected'
    <3>1. \A d \in Clients : Readable(d) => Readable(d)'
      <4>1. CASE Sends
        BY <4>1 DEF Readable, NetTypes
      <4>2. CASE Receives
        BY <4>2 DEF Readable
      <4>3. CASE Leaves
        BY <4>3 DEF Readable, NetTypes
      <4> QED
        BY <2>1, <4>1, <4>2, <4>3
    <3>2. program = "TCPmechod" /\ pc[Master] = "read" => ssock[Master] \in Clients
      BY DEF Types, Tidy
    <3> QED
      BY <1>1, <2>1, <3>1, <3>2 DEF Selected, Types
  <2> QED
    BY <1>3, <2>2, <2>3, <2>4, <2>5
<1> QED
  BY <1>4, <1>5 DEF ClientStep

\* Where a process is that serves, forks or closes a connection.
LEMMA Serving ==
  ASSUME Inv, NEW p \in Procs
  PROVE  /\ pc[p] \in {"read", "write", "fork", "close"} =>
              ssock[p] \in Clients /\ ssock[p] \in fds[p] /\ ~Queued(ssock[p])
         /\ pc[p] \in {"fork", "close", "wait", "prefork", "select", "loop", "dead"} => p = Master
         /\ pc[p] \in {"none", "zombie"} => p \in Slaves
         /\ pc[p] = "accept" /\ program \in Forking => p = Master
         /\ pc[p] = "accept" => program # "TCPmechod"
         /\ p \in Slaves => program \in Forking \cup {"preallctn"} \/ pc[p] = "none"
         /\ p \notin Slaves => p = Master
<1> USE Names DEF Inv
<1>1. pc[p] \in {"read", "write", "fork", "close"} =>
        ssock[p] \in Clients /\ ssock[p] \in fds[p]
  BY DEF Types, Tidy
<1>2. \A c \in Clients : c \in fds[p] => ~Queued(c)
  BY DEF Fresh, Held
<1>3. /\ program \in Forking \/ program \in {"exc_11_3", "preallctn", "TCPmechod"}
      /\ program \in Forking => program \notin {"exc_11_3", "preallctn", "TCPmechod"}
  BY DEF Types, Programs, Forking
<1>4. /\ pc[Master] \in {"accept", "fork", "close", "wait", "read", "write", "prefork", "dead",
                         "select", "loop"}
      /\ program = "TCPmechod" => pc[Master] # "accept"
  BY <1>3 DEF Labels, MasterAt, Forking
<1>5. \A s \in Slaves : /\ pc[s] \in {"none", "accept", "read", "write", "zombie"}
                        /\ program \in Forking => pc[s] # "accept"
                        /\ program \in {"exc_11_3", "TCPmechod"} => pc[s] = "none"
  BY <1>3 DEF Labels, SlaveAt, Forking
<1>6. CASE p = Master
  BY <1>1, <1>2, <1>4, <1>6
<1>7. CASE p \in Slaves
  BY <1>1, <1>2, <1>3, <1>5, <1>7
<1> QED
  BY <1>6, <1>7

\* A process ends: what it served is its own no more, and if it had messages left
\* their client had reset.
LEMMA EndsInv ==
  ASSUME Inv, NEW p \in Procs, Ends(p), pc[p] \in {"prefork", "fork", "read", "write"},
         buf[p] > 0 => conn[ssock[p]] = "rst",
         faults' \in 0..Faults,
         UNCHANGED <<program, l, backlog, conn, inq, outq, sent, got>>
  PROVE  Inv'
<1> USE ConstantsAssumption, Names DEF Inv
<1>0. /\ pc \in [Procs -> {"none", "prefork", "accept", "fork", "close", "wait", "read",
                          "write", "select", "loop", "zombie", "dead"}]
      /\ ssock \in [Procs -> Clients \cup {None}]
      /\ fds \in [Procs -> SUBSET Clients] /\ buf \in [Procs -> 0..BUFSIZE]
  BY DEF Types
<1>1. /\ \A q \in Procs : q # p => (pc'[q] = pc[q] \/ (pc[q] = "zombie" /\ pc'[q] = "none"))
      /\ p = Master => pc'[p] = "dead"
      /\ p # Master => pc'[p] \in {"none", "zombie"}
      /\ pc' \in [Procs -> {"none", "prefork", "accept", "fork", "close", "wait", "read",
                            "write", "select", "loop", "zombie", "dead"}]
  <2>1. pc' = [q \in Procs |->
                 CASE q = p /\ p = Master -> "dead"
                   [] q = p /\ p # Master -> IF pc[Master] = "dead" THEN "none" ELSE "zombie"
                   [] q # p -> IF p = Master /\ pc[q] = "zombie" THEN "none" ELSE pc[q]]
    BY DEF Ends
  <2>2. \A q \in Procs : q # p => pc'[q] = IF p = Master /\ pc[q] = "zombie" THEN "none" ELSE pc[q]
    BY <2>1
  <2>3. pc'[p] = IF p = Master THEN "dead" ELSE IF pc[Master] = "dead" THEN "none" ELSE "zombie"
    BY <2>1
  <2>4. \A q \in Procs : pc'[q] \in {"none", "prefork", "accept", "fork", "close", "wait", "read",
                                    "write", "select", "loop", "zombie", "dead"}
    BY <1>0, <2>2, <2>3
  <2>5. pc' = [q \in Procs |-> pc'[q]]
    BY <2>1
  <2>6. pc' \in [Procs -> {"none", "prefork", "accept", "fork", "close", "wait", "read",
                           "write", "select", "loop", "zombie", "dead"}]
    BY <2>4, <2>5
  <2> QED
    BY <2>2, <2>3, <2>6
<1>2. /\ ssock' = [ssock EXCEPT ![p] = None] /\ fds' = [fds EXCEPT ![p] = {}]
      /\ buf' = [buf EXCEPT ![p] = 0] /\ sigchld' \in BOOLEAN /\ reaping' \in BOOLEAN
      /\ rfds' = IF p = Master THEN {} ELSE rfds
  BY DEF Ends, Types
<1>3. Types'
  BY <1>0, <1>1, <1>2 DEF Types
<1>4. NetTypes'
  BY DEF NetTypes
<1>5. Labels'
  <2>1. program \in Programs
    BY DEF Types
  <2>2. pc'[Master] \in MasterAt'
    <3>1. CASE p = Master
      BY <1>1, <2>1, <3>1 DEF MasterAt, Programs
    <3>2. CASE p # Master
      <4>1. pc[Master] # "zombie"
        BY Serving
      <4> QED
        BY <1>1, <3>2, <4>1 DEF Labels, MasterAt
    <3> QED
      BY <3>1, <3>2
  <2>3. ASSUME NEW s \in Slaves PROVE pc'[s] \in SlaveAt'
    <3>1. pc[s] \in SlaveAt /\ s \in Procs
      BY DEF Labels
    <3>2. {"none"} \subseteq SlaveAt /\ (p \in Slaves => "zombie" \in SlaveAt)
      BY <2>1, Serving DEF SlaveAt, Programs, Forking
    <3>3. SlaveAt' = SlaveAt
      BY DEF SlaveAt
    <3> QED
      BY <1>1, <3>1, <3>2, <3>3
  <2> QED
    BY <2>2, <2>3 DEF Labels
<1>6. PreforkLeft'
  <2> SUFFICES ASSUME pc'[Master] = "prefork"
               PROVE  l < NCRTLVL /\ \A s \in Slaves : s > l => pc'[s] = "none"
    BY DEF PreforkLeft
  <2>1. p # Master /\ pc[Master] = "prefork"
    BY <1>1
  <2>2. \A s \in Slaves : s > l => pc[s] = "none" /\ s # p
    BY <2>1 DEF PreforkLeft
  <2> QED
    BY <1>1, <2>1, <2>2 DEF PreforkLeft
<1>7. Tidy'
  <2> SUFFICES ASSUME NEW q \in Procs
               PROVE  /\ pc'[q] \in {"none", "prefork", "accept", "wait", "zombie", "dead"}
                           => ssock'[q] = None
                      /\ pc'[q] \in {"fork", "close", "read", "write"} => ssock'[q] # None
                      /\ buf'[q] > 0 => pc'[q] = "write"
                      /\ ssock'[q] # None => ssock'[q] \in fds'[q]
    BY DEF Tidy
  <2>1. CASE q = p
    BY <1>0, <1>1, <1>2, <2>1
  <2>2. CASE q # p
    BY <1>0, <1>1, <1>2, <2>2 DEF Tidy
  <2> QED
    BY <2>1, <2>2
<1>8. Fresh'
  BY <1>0, <1>2 DEF Fresh, Held, Queued
<1>9. OneServer'
  <2> SUFFICES ASSUME NEW q \in Procs, NEW r \in Procs, q # r, ssock'[q] = ssock'[r],
                      ssock'[q] # None
               PROVE  pc'[Master] = "close" /\ Master \in {q, r}
    BY DEF OneServer
  <2>1. q # p /\ r # p /\ ssock[q] = ssock[r] /\ ssock[q] # None
    BY <1>0, <1>2
  <2>2. pc[Master] = "close" /\ Master \in {q, r}
    BY <2>1 DEF OneServer
  <2> QED
    BY <1>1, <2>1, <2>2
<1>10. Accounts'
  <2>1. \A c \in Clients : \A n : Adds(c, n)' <=> Adds(c, n)
    BY DEF Adds
  <2> SUFFICES ASSUME NEW c \in Clients
               PROVE  /\ \A q \in Procs : ssock'[q] = c /\ buf'[q] > 0 => Adds(c, buf'[q])
                      /\ (\A q \in Procs : ssock'[q] = c => buf'[q] = 0) => Adds(c, 0)
    BY <2>1 DEF Accounts
  <2>2. \A q \in Procs : ssock'[q] = c => q # p /\ ssock[q] = c /\ buf'[q] = buf[q]
    BY <1>0, <1>2
  <2>3. CASE ssock[p] = c /\ buf[p] > 0
    <3>1. Adds(c, buf[p]) /\ conn[c] = "rst"
      BY <2>3 DEF Accounts
    <3>2. Adds(c, 0)
      BY <1>0, <2>3, <3>1 DEF Adds, NetTypes
    <3> QED
      BY <2>2, <3>2 DEF Accounts
  <2>4. CASE ~(ssock[p] = c /\ buf[p] > 0)
    <3>1. buf[p] \in Nat
      BY <1>0
    <3> QED
      BY <1>0, <1>2, <2>2, <2>4, <3>1 DEF Accounts
  <2> QED
    BY <2>3, <2>4
<1>11. Selected'
  <2> SUFFICES ASSUME program = "TCPmechod" PROVE Selected'
    BY DEF Selected
  <2>1. p = Master
    BY Serving DEF Forking
  <2> QED
    BY <1>1, <1>2, <2>1 DEF Selected
<1> QED
  BY <1>3, <1>4, <1>5, <1>6, <1>7, <1>8, <1>9, <1>10, <1>11

PcStates == {"none", "prefork", "accept", "fork", "close", "wait", "read", "write", "select",
             "loop", "zombie", "dead"}
Idle     == {"none", "prefork", "accept", "wait", "zombie"}   \* with no connection

\* A step that moves processes without a connection, and nothing else.
LEMMA MoveInv ==
  ASSUME Inv, pc' \in [Procs -> PcStates], l' \in 0..NCRTLVL,
         \A p \in Procs : pc'[p] # pc[p] => pc[p] \in Idle /\ pc'[p] \in Idle,
         Labels', PreforkLeft', reaping' \in BOOLEAN, sigchld' \in BOOLEAN,
         UNCHANGED <<program, ssock, fds, buf, rfds, net>>
  PROVE  Inv'
<1> USE Names DEF Inv, net
<1>1. Types' /\ NetTypes'
  BY DEF Types, NetTypes, PcStates
<1>2. Tidy'
  <2> SUFFICES ASSUME NEW p \in Procs
               PROVE  /\ pc'[p] \in {"none", "prefork", "accept", "wait", "zombie", "dead"}
                           => ssock[p] = None
                      /\ pc'[p] \in {"fork", "close", "read", "write"} => ssock[p] # None
                      /\ buf[p] > 0 => pc'[p] = "write"
                      /\ ssock[p] # None => ssock[p] \in fds[p]
    BY DEF Tidy
  <2> QED
    BY DEF Tidy, Idle
<1>3. Fresh' /\ Accounts'
  BY DEF Fresh, Held, Queued, Accounts, Adds
<1>4. OneServer'
  BY DEF OneServer, Idle
<1>5. Selected'
  <2>1. pc'[Master] \in {"read", "write"} => pc'[Master] = pc[Master]
    BY DEF Idle
  <2> QED
    BY <2>1 DEF Selected, Readable
<1> QED
  BY <1>1, <1>2, <1>3, <1>4, <1>5

\* wait3, the forks of the root, and what SIGCHLD brings about.
LEMMA IdleStep ==
  ASSUME Inv, wait3 \/ prefork \/ Signal
  PROVE  Inv'
<1> USE ConstantsAssumption, Names DEF Inv
<1>1. /\ pc \in [Procs -> PcStates] /\ l \in 0..NCRTLVL /\ reaping \in BOOLEAN /\ sigchld \in BOOLEAN
      /\ program \in Programs /\ UNCHANGED <<program, ssock, fds, buf, rfds, net>>
  BY DEF wait3, prefork, Signal, reaper, reaper_returns, reap, Types, PcStates
<1>2. MasterAt' = MasterAt /\ SlaveAt' = SlaveAt
  BY <1>1 DEF MasterAt, SlaveAt
<1>3. \A z \in Zombies : z \in Slaves /\ pc[z] = "zombie"
  BY DEF Zombies
<1>4. \A z \in Zombies : "none" \in SlaveAt
  BY <1>1 DEF SlaveAt, Programs, Forking
<1>5. CASE wait3
  <2>1. /\ pc[Master] = "wait" /\ UNCHANGED <<l, reaping, sigchld>>
        /\ \/ pc' = [pc EXCEPT ![Master] = "accept"]
           \/ \E z \in Zombies : pc' = [pc EXCEPT ![z] = "none", ![Master] = "accept"]
    BY <1>5 DEF wait3, At
  <2>2. /\ pc' \in [Procs -> PcStates] /\ pc'[Master] = "accept"
        /\ \A s \in Slaves : pc'[s] = pc[s] \/ (pc[s] = "zombie" /\ pc'[s] = "none" /\ s \in Zombies)
    BY <1>1, <1>3, <2>1 DEF PcStates
  <2>3. "accept" \in MasterAt
    BY <1>1, <2>1 DEF Labels, MasterAt, Programs, Forking
  <2>4. Labels' /\ PreforkLeft'
    BY <1>2, <1>4, <2>2, <2>3 DEF Labels, PreforkLeft
  <2>5. \A p \in Procs : pc'[p] # pc[p] => pc[p] \in Idle /\ pc'[p] \in Idle
    BY <2>1, <2>2 DEF Idle
  <2> QED
    BY <1>1, <2>1, <2>2, <2>4, <2>5, MoveInv
<1>6. CASE prefork
  <2>1. /\ pc[Master] = "prefork" /\ l' = l + 1 /\ UNCHANGED <<reaping, sigchld>>
        /\ pc' = [pc EXCEPT ![l + 1] = "accept",
                            ![Master] = IF l + 1 = NCRTLVL THEN "accept" ELSE "prefork"]
    BY <1>6 DEF prefork, At
  <2>2. l < NCRTLVL /\ \A s \in Slaves : s > l => pc[s] = "none"
    BY <2>1 DEF PreforkLeft
  <2>3. l + 1 \in Slaves /\ l' \in 0..NCRTLVL /\ pc[l + 1] = "none"
    BY <1>1, <2>1, <2>2 DEF Slaves
  <2>4. /\ pc' \in [Procs -> PcStates] /\ pc'[l + 1] = "accept"
        /\ pc'[Master] = IF l + 1 = NCRTLVL THEN "accept" ELSE "prefork"
        /\ \A s \in Slaves : s # l + 1 => pc'[s] = pc[s]
    <3>1. l + 1 \in Procs /\ l + 1 # Master
      BY <2>3
    <3>2. \A p \in Procs : pc'[p] = IF p = Master
                                    THEN IF l + 1 = NCRTLVL THEN "accept" ELSE "prefork"
                                    ELSE IF p = l + 1 THEN "accept" ELSE pc[p]
      BY <1>1, <2>1, <3>1
    <3>3. pc' = [p \in Procs |-> pc'[p]]
      BY <1>1, <2>1
    <3>4. \A p \in Procs : pc'[p] \in PcStates
      BY <1>1, <3>2 DEF PcStates
    <3> QED
      BY <3>1, <3>2, <3>3, <3>4
  <2>5. program = "preallctn"
    BY <1>1, <2>1 DEF Labels, MasterAt, Programs, Forking
  <2>6. Labels'
    <3>1. {"accept", "prefork"} \subseteq MasterAt /\ "accept" \in SlaveAt
      BY <2>5 DEF MasterAt, SlaveAt, Forking
    <3> QED
      BY <1>2, <2>4, <3>1 DEF Labels
  <2>7. PreforkLeft'
    <3> SUFFICES ASSUME pc'[Master] = "prefork"
                 PROVE  l' < NCRTLVL /\ \A s \in Slaves : s > l' => pc'[s] = "none"
      BY DEF PreforkLeft
    <3>1. l + 1 # NCRTLVL
      BY <2>4
    <3>2. \A s \in Slaves : s > l + 1 => s > l /\ s # l + 1
      BY <1>1 DEF Slaves
    <3> QED
      BY <1>1, <2>1, <2>2, <2>4, <3>1, <3>2
  <2>8. \A p \in Procs : pc'[p] # pc[p] => pc[p] \in Idle /\ pc'[p] \in Idle
    BY <2>1, <2>3, <2>4 DEF Idle
  <2> QED
    BY <1>1, <2>1, <2>3, <2>4, <2>6, <2>7, <2>8, MoveInv
<1>7. CASE Signal
  <2>1. /\ l' = l /\ reaping' \in BOOLEAN /\ sigchld' \in BOOLEAN
        /\ \/ pc' = pc
           \/ \E z \in Slaves : pc[z] = "zombie" /\ pc' = [pc EXCEPT ![z] = "none"]
           \/ pc' = [p \in Procs |-> IF p \in Zombies THEN "none" ELSE pc[p]]
    BY <1>1, <1>3, <1>7 DEF Signal, reaper, reaper_returns, reap
  <2>2. /\ pc' \in [Procs -> PcStates] /\ pc'[Master] = pc[Master]
        /\ \A s \in Slaves : pc'[s] = pc[s] \/ (pc[s] = "zombie" /\ pc'[s] = "none")
    BY <1>1, <1>3, <2>1 DEF PcStates
  <2>3. \A s \in Slaves : pc[s] = "zombie" => "none" \in SlaveAt
    BY <1>4 DEF Zombies
  <2>4. Labels' /\ PreforkLeft'
    BY <1>2, <2>1, <2>2, <2>3 DEF Labels, PreforkLeft
  <2>5. \A p \in Procs : pc'[p] # pc[p] => pc[p] \in Idle /\ pc'[p] \in Idle
    BY <2>2 DEF Idle
  <2> QED
    BY <1>1, <2>1, <2>2, <2>4, <2>5, MoveInv
<1> QED
  BY <1>5, <1>6, <1>7

\* A process gives up its connection: the master after its fork, or a server that is
\* to serve the next one.
LEMMA ReleaseInv ==
  ASSUME Inv, NEW p \in Procs, pc[p] \in {"read", "close"}, NEW to \in {"accept", "wait", "loop"},
         pc' = [pc EXCEPT ![p] = to], ssock' = [ssock EXCEPT ![p] = None],
         fds' = [fds EXCEPT ![p] = @ \ {ssock[p]}], Labels',
         program = "TCPmechod" => p = Master, pc[p] = "close" => p = Master,
         UNCHANGED <<program, l, buf, rfds, reaping, sigchld, net>>
  PROVE  Inv'
<1> USE ConstantsAssumption, Names DEF Inv, net
<1>1. /\ pc \in [Procs -> PcStates] /\ ssock \in [Procs -> Clients \cup {None}]
      /\ fds \in [Procs -> SUBSET Clients] /\ buf \in [Procs -> 0..BUFSIZE]
  BY DEF Types, PcStates
<1>2. /\ \A q \in Procs : /\ q # p => pc'[q] = pc[q] /\ ssock'[q] = ssock[q] /\ fds'[q] = fds[q]
                          /\ fds'[q] \subseteq fds[q]
      /\ pc'[p] = to /\ ssock'[p] = None /\ fds'[p] = fds[p] \ {ssock[p]}
      /\ pc' \in [Procs -> PcStates] /\ ssock' \in [Procs -> Clients \cup {None}]
      /\ fds' \in [Procs -> SUBSET Clients]
  BY <1>1 DEF PcStates
<1>3. Types' /\ NetTypes'
  BY <1>2 DEF Types, NetTypes, PcStates
<1>4. PreforkLeft'
  BY <1>2 DEF PreforkLeft
<1>5. buf[p] = 0
  BY <1>1 DEF Tidy
<1>6. Tidy'
  BY <1>2, <1>5 DEF Tidy
<1>7. Fresh'
  BY <1>2 DEF Fresh, Held, Queued
<1>8. OneServer'
  <2> SUFFICES ASSUME NEW q \in Procs, NEW r \in Procs, q # r, ssock'[q] = ssock'[r],
                      ssock'[q] # None
               PROVE  pc'[Master] = "close" /\ Master \in {q, r}
    BY DEF OneServer
  <2>1. q # p /\ r # p /\ ssock[q] = ssock[r] /\ ssock[q] # None
    BY <1>2
  <2>2. pc[Master] = "close" /\ Master \in {q, r}
    BY <2>1 DEF OneServer
  <2> QED
    BY <1>2, <2>1, <2>2
<1>9. Accounts'
  BY <1>1, <1>2, <1>5 DEF Accounts, Adds
<1>10. Selected'
  <2> SUFFICES ASSUME program = "TCPmechod" PROVE Selected'
    BY DEF Selected
  <2>1. pc[p] = "read" /\ ssock[p] \notin rfds
    BY DEF Selected, Labels, MasterAt, Forking
  <2> QED
    BY <1>2, <2>1 DEF Selected, Readable
<1> QED
  BY <1>3, <1>4, <1>6, <1>7, <1>8, <1>9, <1>10

\* The connection that accept returns, and those that go on waiting.
LEMMA Dequeue ==
  ASSUME NetTypes, Fresh, backlog # <<>>
  PROVE  /\ Head(backlog) \in Clients /\ Queued(Head(backlog)) /\ ~Held(Head(backlog))
         /\ conn[Head(backlog)] # "new"
         /\ backlog' = Tail(backlog) =>
              /\ backlog' \in Seq(Clients) /\ Len(backlog') <= QLEN + 1
              /\ \A c \in Clients : Queued(c)' => Queued(c) /\ c # Head(backlog)
              /\ \A i \in 1..Len(backlog') : conn[backlog'[i]] # "new"
              /\ \A i, j \in 1..Len(backlog') : backlog'[i] = backlog'[j] => i = j
<1> USE ConstantsAssumption
<1>1. backlog \in Seq(Clients) /\ Len(backlog) \in Nat /\ Len(backlog) <= QLEN + 1
  BY LenProperties DEF NetTypes
<1>2. Len(backlog) >= 1 /\ Head(backlog) = backlog[1] /\ Head(backlog) \in Clients
  BY <1>1, HeadTailProperties, LenProperties, EmptySeq
<1>3. /\ Queued(Head(backlog)) /\ conn[Head(backlog)] # "new"
  BY <1>1, <1>2, InBacklog DEF Fresh
<1>4. ~Held(Head(backlog))
  BY <1>2, <1>3 DEF Fresh
<1>5. ASSUME backlog' = Tail(backlog)
      PROVE  /\ backlog' \in Seq(Clients) /\ Len(backlog') <= QLEN + 1
             /\ \A c \in Clients : Queued(c)' => Queued(c) /\ c # Head(backlog)
             /\ \A i \in 1..Len(backlog') : conn[backlog'[i]] # "new"
             /\ \A i, j \in 1..Len(backlog') : backlog'[i] = backlog'[j] => i = j
  <2>1. /\ backlog' \in Seq(Clients) /\ Len(backlog') = Len(backlog) - 1
        /\ \A i \in 1..Len(backlog') : backlog'[i] = backlog[i + 1]
    BY <1>1, <1>5, HeadTailProperties
  <2>2. /\ \A i \in 1..Len(backlog) : conn[backlog[i]] # "new"
        /\ \A i, j \in 1..Len(backlog) : backlog[i] = backlog[j] => i = j
    BY DEF Fresh
  <2>3. \A i \in 1..Len(backlog') : i + 1 \in 1..Len(backlog) /\ i + 1 # 1
    BY <1>1, <2>1
  <2>4. \A c \in Clients : Queued(c)' => \E i \in 1..Len(backlog') : backlog'[i] = c
    BY <2>1, LenProperties DEF Queued
  <2>5. ASSUME NEW c \in Clients, Queued(c)'
        PROVE  Queued(c) /\ c # Head(backlog)
    <3>1. PICK i \in 1..Len(backlog') : backlog'[i] = c
      BY <2>4, <2>5
    <3>2. backlog[i + 1] = c /\ i + 1 \in 1..Len(backlog) /\ i + 1 # 1 /\ 1 \in 1..Len(backlog)
      BY <1>1, <1>2, <2>1, <2>3, <3>1
    <3> QED
      BY <1>2, <2>2, <3>2, InBacklog
  <2>6. \A i, j \in 1..Len(backlog') : backlog'[i] = backlog'[j] => i = j
    <3>1. \A i, j \in 1..Len(backlog') : i + 1 = j + 1 => i = j
      BY <2>1, <1>1
    <3> QED
      BY <2>1, <2>2, <2>3, <3>1
  <2>7. Len(backlog') <= QLEN + 1 /\ \A i \in 1..Len(backlog') : conn[backlog'[i]] # "new"
    <3>1. Len(backlog') <= QLEN + 1
      BY <1>1, <2>1
    <3>2. \A i \in 1..Len(backlog') : conn[backlog'[i]] # "new"
      <4>1. \A j \in 1..Len(backlog) : conn[backlog[j]] # "new"
        BY <2>2
      <4> QED
        BY <2>1, <2>3, <4>1
    <3> QED
      BY <3>1, <3>2
  <2> QED
    BY <2>1, <2>5, <2>6, <2>7
<1> QED
  BY <1>2, <1>3, <1>4, <1>5

\* accept: the connection was nobody's, and is now served by this process.
LEMMA AcceptInv ==
  ASSUME Inv, NEW p \in Procs, accept(p)
  PROVE  Inv'
<1> USE ConstantsAssumption, Names DEF Inv
<1> DEFINE c == Head(backlog)
           to == IF program \in Forking THEN "fork" ELSE "read"
<1>1. /\ pc[p] = "accept" /\ backlog # <<>> /\ pc' = [pc EXCEPT ![p] = to]
      /\ ssock' = [ssock EXCEPT ![p] = c] /\ fds' = [fds EXCEPT ![p] = @ \cup {c}]
      /\ backlog' = Tail(backlog)
      /\ UNCHANGED <<program, l, buf, rfds, reaping, sigchld, conn, inq, outq, sent, got, faults>>
  BY DEF accept, At
<1>2. /\ c \in Clients /\ Queued(c) /\ ~Held(c) /\ conn[c] # "new"
      /\ backlog' \in Seq(Clients) /\ Len(backlog') <= QLEN + 1
      /\ \A d \in Clients : Queued(d)' => Queued(d) /\ d # c
      /\ \A i \in 1..Len(backlog') : conn[backlog'[i]] # "new"
      /\ \A i, j \in 1..Len(backlog') : backlog'[i] = backlog'[j] => i = j
  BY <1>1, Dequeue
<1>3. /\ pc \in [Procs -> PcStates] /\ ssock \in [Procs -> Clients \cup {None}]
      /\ fds \in [Procs -> SUBSET Clients] /\ buf \in [Procs -> 0..BUFSIZE]
      /\ program \in Programs
  BY DEF Types, PcStates
<1>4. /\ to \in {"fork", "read"} /\ (to = "fork" => p = Master)
      /\ program # "TCPmechod"
  BY <1>1, Serving
<1> HIDE DEF c, to
<1>5. /\ \A q \in Procs : q # p => pc'[q] = pc[q] /\ ssock'[q] = ssock[q] /\ fds'[q] = fds[q]
      /\ pc'[p] = to /\ ssock'[p] = c /\ fds'[p] = fds[p] \cup {c}
      /\ pc' \in [Procs -> PcStates] /\ ssock' \in [Procs -> Clients \cup {None}]
      /\ fds' \in [Procs -> SUBSET Clients]
  BY <1>1, <1>2, <1>3, <1>4 DEF PcStates
<1>6. Types' /\ NetTypes'
  <2>1. Types'
    BY <1>1, <1>5 DEF Types, PcStates
  <2>2. NetTypes'
    BY <1>1, <1>2 DEF NetTypes
  <2> QED
    BY <2>1, <2>2
<1>7. Labels'
  <2>1. MasterAt' = MasterAt /\ SlaveAt' = SlaveAt
    BY <1>1 DEF MasterAt, SlaveAt
  <2>2. (p = Master => to \in MasterAt) /\ (p # Master => to \in SlaveAt)
    <3>1. CASE program \in Forking
      BY <1>4, <3>1 DEF MasterAt, Forking, to
    <3>2. CASE program \in {"exc_11_3", "preallctn"}
      <4>1. to = "read" /\ (p # Master => program = "preallctn")
        BY <1>1, <3>2, Serving DEF to, Forking
      <4> QED
        BY <3>2, <4>1 DEF MasterAt, SlaveAt, Forking
    <3> QED
      BY <1>3, <1>4, <3>1, <3>2 DEF Programs
  <2> QED
    BY <1>5, <2>1, <2>2 DEF Labels
<1>8. PreforkLeft'
  <2>1. pc'[Master] = "prefork" => pc[Master] = "prefork" /\ p # Master
    BY <1>4, <1>5
  <2>2. \A s \in Slaves : pc[s] = "none" => pc'[s] = "none"
    BY <1>1, <1>5
  <2> QED
    BY <1>1, <2>1, <2>2 DEF PreforkLeft
<1>9. buf[p] = 0 /\ ssock[p] = None
  BY <1>1, <1>3 DEF Tidy
<1>10. Tidy'
  <2>1. c # None
    BY <1>2
  <2> QED
    BY <1>1, <1>4, <1>5, <1>9, <2>1 DEF Tidy
<1>11. Fresh'
  <2>1. \A d \in Clients : Held(d)' => Held(d) \/ d = c
    BY <1>5 DEF Held
  <2> QED
    BY <1>1, <1>2, <2>1 DEF Fresh
<1>12. OneServer'
  <2>1. \A q \in Procs : q # p => ssock[q] # c
    BY <1>2 DEF Tidy, Held
  <2> SUFFICES ASSUME NEW q \in Procs, NEW r \in Procs, q # r, ssock'[q] = ssock'[r],
                      ssock'[q] # None
               PROVE  pc'[Master] = "close" /\ Master \in {q, r}
    BY DEF OneServer
  <2>2. q # p /\ r # p
    BY <1>5, <2>1
  <2>3. pc[Master] = "close" /\ Master \in {q, r}
    BY <1>5, <2>2 DEF OneServer
  <2> QED
    BY <1>5, <2>2, <2>3
<1>13. Accounts'
  <2>1. \A d \in Clients : \A n : Adds(d, n)' <=> Adds(d, n)
    BY <1>1 DEF Adds
  <2>2. \A d \in Clients : \A q \in Procs : ssock'[q] = d /\ buf'[q] > 0 =>
                                              ssock[q] = d /\ buf'[q] = buf[q]
    BY <1>1, <1>5, <1>9
  <2>3. \A d \in Clients : (\A q \in Procs : ssock'[q] = d => buf'[q] = 0) =>
                             (\A q \in Procs : ssock[q] = d => buf[q] = 0)
    BY <1>1, <1>5, <1>9
  <2> QED
    BY <2>1, <2>2, <2>3 DEF Accounts
<1>14. Selected'
  BY <1>1, <1>4 DEF Selected
<1> QED
  BY <1>6, <1>7, <1>8, <1>10, <1>11, <1>12, <1>13, <1>14

\* fork: the slave serves the connection, and the master is to close it.
LEMMA ForkInv ==
  ASSUME Inv, NEW s \in Slaves, fork(s)
  PROVE  Inv'
<1> USE ConstantsAssumption, Names DEF Inv, net
<1> DEFINE c == ssock[Master]
<1>1. /\ pc[Master] = "fork" /\ pc[s] = "none"
      /\ pc' = [pc EXCEPT ![Master] = "close", ![s] = "read"]
      /\ ssock' = [ssock EXCEPT ![s] = c] /\ fds' = [fds EXCEPT ![s] = fds[Master]]
      /\ UNCHANGED <<program, l, buf, rfds, reaping, sigchld, net>>
  BY DEF fork, At
<1>2. /\ pc \in [Procs -> PcStates] /\ ssock \in [Procs -> Clients \cup {None}]
      /\ fds \in [Procs -> SUBSET Clients] /\ buf \in [Procs -> 0..BUFSIZE]
      /\ program \in Programs
  BY DEF Types, PcStates
<1>3. c \in Clients /\ c \in fds[Master] /\ buf[Master] = 0 /\ buf[s] = 0 /\ ssock[s] = None
  BY <1>1, <1>2 DEF Tidy
<1>4. program \in Forking
  BY <1>1, <1>2 DEF Labels, MasterAt, Programs, Forking
<1> HIDE DEF c
<1>5. /\ \A q \in Procs : q # s => ssock'[q] = ssock[q] /\ fds'[q] = fds[q]
      /\ \A q \in Procs : q # s /\ q # Master => pc'[q] = pc[q]
      /\ pc'[s] = "read" /\ pc'[Master] = "close" /\ ssock'[s] = c /\ fds'[s] = fds[Master]
      /\ s \in Procs /\ s # Master
  BY <1>1, <1>2
<1>6. /\ pc' \in [Procs -> PcStates] /\ ssock' \in [Procs -> Clients \cup {None}]
      /\ fds' \in [Procs -> SUBSET Clients]
  BY <1>1, <1>2, <1>3 DEF PcStates
<1>7. Types' /\ NetTypes'
  BY <1>1, <1>6 DEF Types, NetTypes, PcStates
<1>8. Labels'
  <2>1. "close" \in MasterAt /\ "read" \in SlaveAt /\ MasterAt' = MasterAt /\ SlaveAt' = SlaveAt
    BY <1>1, <1>4 DEF MasterAt, SlaveAt, Forking
  <2> QED
    BY <1>5, <2>1 DEF Labels
<1>9. PreforkLeft'
  BY <1>5 DEF PreforkLeft
<1>10. Tidy'
  <2> SUFFICES ASSUME NEW q \in Procs
               PROVE  /\ pc'[q] \in {"none", "prefork", "accept", "wait", "zombie", "dead"}
                           => ssock'[q] = None
                      /\ pc'[q] \in {"fork", "close", "read", "write"} => ssock'[q] # None
                      /\ buf[q] > 0 => pc'[q] = "write"
                      /\ ssock'[q] # None => ssock'[q] \in fds'[q]
    BY <1>1 DEF Tidy
  <2>1. CASE q = s
    BY <1>3, <1>5, <2>1
  <2>2. CASE q = Master
    BY <1>3, <1>5, <2>2 DEF c
  <2>3. CASE q # s /\ q # Master
    BY <1>5, <2>3 DEF Tidy
  <2> QED
    BY <2>1, <2>2, <2>3
<1>11. Fresh'
  <2>1. \A d \in Clients : Held(d)' => Held(d)
    BY <1>5 DEF Held
  <2> QED
    BY <1>1, <2>1 DEF Fresh, Queued
<1>12. OneServer'
  <2> SUFFICES ASSUME NEW q \in Procs, NEW r \in Procs, q # r, ssock'[q] = ssock'[r],
                      ssock'[q] # None
               PROVE  Master \in {q, r}
    BY <1>5 DEF OneServer
  <2>1. \A t \in Procs : t # Master => ssock[t] # c
    BY <1>1, <1>3 DEF OneServer, c
  <2>2. CASE q # s /\ r # s
    BY <1>1, <1>5, <2>2 DEF OneServer
  <2>3. CASE q = s \/ r = s
    BY <1>5, <2>1, <2>3
  <2> QED
    BY <2>2, <2>3
<1>13. Accounts'
  <2>1. \A d \in Clients : \A n : Adds(d, n)' <=> Adds(d, n)
    BY <1>1 DEF Adds
  <2>2. \A d \in Clients : \A q \in Procs : ssock'[q] = d /\ buf'[q] > 0 =>
                                              ssock[q] = d /\ buf'[q] = buf[q]
    BY <1>1, <1>3, <1>5
  <2>3. \A d \in Clients : (\A q \in Procs : ssock'[q] = d => buf'[q] = 0) =>
                             (\A q \in Procs : ssock[q] = d => buf[q] = 0)
    BY <1>1, <1>3, <1>5
  <2> QED
    BY <2>1, <2>2, <2>3 DEF Accounts
<1>14. Selected'
  BY <1>1, <1>4 DEF Selected, Forking
<1> QED
  BY <1>7, <1>8, <1>9, <1>10, <1>11, <1>12, <1>13, <1>14

\* A process that reads or writes has the messages of its client alone.
LEMMA OnlyOne ==
  ASSUME Inv, NEW p \in Procs, pc[p] \in {"read", "write"}, NEW q \in Procs, q # p,
         ssock[q] = ssock[p]
  PROVE  buf[q] = 0
<1> USE Names DEF Inv
<1>1. ssock[p] # None
  BY DEF Tidy
<1>2. q = Master /\ pc[q] = "close"
  BY <1>1 DEF OneServer
<1> QED
  BY <1>2 DEF Tidy, Types

\* read and write: messages go from the connection to the process, and from the process
\* to the connection.
LEMMA EchoStep ==
  ASSUME Inv, NEW p \in Procs, read(p) \/ write(p)
  PROVE  Inv'
<1> USE ConstantsAssumption, Names DEF Inv
<1> DEFINE c == ssock[p]
           k == IF inq[c] > BUFSIZE THEN BUFSIZE ELSE inq[c]
           Reads  == /\ pc[p] = "read" /\ inq[c] > 0 /\ inq' = [inq EXCEPT ![c] = @ - k]
                     /\ buf' = [buf EXCEPT ![p] = k] /\ outq' = outq
                     /\ pc' = [pc EXCEPT ![p] = "write"]
           Writes == /\ pc[p] = "write" /\ outq[c] + buf[p] <= CAP /\ inq' = inq
                     /\ outq' = [outq EXCEPT ![c] = @ + buf[p]] /\ buf' = [buf EXCEPT ![p] = 0]
                     /\ pc' = [pc EXCEPT ![p] = IF program = "TCPmechod" THEN "loop" ELSE "read"]
<1>1. /\ pc \in [Procs -> PcStates] /\ ssock \in [Procs -> Clients \cup {None}]
      /\ buf \in [Procs -> 0..BUFSIZE] /\ program \in Programs
      /\ inq \in [Clients -> Nat] /\ outq \in [Clients -> 0..CAP]
      /\ sent \in [Clients -> Nat] /\ got \in [Clients -> Nat]
  BY DEF Types, NetTypes, PcStates
<1>2. /\ pc[p] \in {"read", "write"}
      /\ UNCHANGED <<program, l, ssock, fds, rfds, reaping, sigchld, backlog, conn, sent, got,
                     faults>>
  BY DEF read, write, Goto, At
<1>3. c \in Clients /\ c \in fds[p]
  BY <1>2, Serving
<1>4. k \in 0..BUFSIZE /\ k <= inq[c] /\ inq[c] - k \in Nat /\ (inq[c] > 0 => k > 0)
  BY <1>1, <1>3
<1>5. Reads \/ Writes
  <2>1. CASE read(p)
    <3>1. (IF inq[c] > BUFSIZE THEN inq[c] - BUFSIZE ELSE 0) = inq[c] - k
      BY <1>1, <1>3
    <3> HIDE DEF k
    <3>2. inq' = [inq EXCEPT ![c] = IF inq[c] > BUFSIZE THEN inq[c] - BUFSIZE ELSE 0]
      BY <2>1 DEF read
    <3>3. Reads
      BY <2>1, <3>1, <3>2 DEF read, Goto, At, k
    <3> QED
      BY <3>3
  <2>2. CASE write(p)
    BY <2>2 DEF write, Goto, At
  <2> QED
    BY <2>1, <2>2
<1> HIDE DEF c, k
<1>6. /\ \A q \in Procs : q # p => pc'[q] = pc[q] /\ buf'[q] = buf[q]
      /\ Reads => pc'[p] = "write" /\ buf'[p] = k
      /\ Writes => pc'[p] = (IF program = "TCPmechod" THEN "loop" ELSE "read") /\ buf'[p] = 0
      /\ pc' \in [Procs -> PcStates] /\ buf' \in [Procs -> 0..BUFSIZE]
  <2>1. CASE Reads
    BY <1>1, <1>4, <2>1 DEF PcStates
  <2>2. CASE Writes
    BY <1>1, <2>2 DEF PcStates
  <2> QED
    BY <1>5, <2>1, <2>2
<1>7. inq' \in [Clients -> Nat] /\ outq' \in [Clients -> 0..CAP]
  <2>1. CASE Reads
    BY <1>1, <1>3, <1>4, <2>1
  <2>2. CASE Writes
    <3>1. outq[c] + buf[p] \in 0..CAP
      BY <1>1, <1>3, <2>2
    <3> QED
      BY <1>1, <2>2, <3>1
  <2> QED
    BY <1>5, <2>1, <2>2
<1>8. Types' /\ NetTypes'
  <2>1. Types'
    BY <1>2, <1>6 DEF Types, PcStates
  <2>2. NetTypes'
    BY <1>2, <1>7 DEF NetTypes
  <2> QED
    BY <2>1, <2>2
<1>9. Labels'
  <2>1. MasterAt' = MasterAt /\ SlaveAt' = SlaveAt
    BY <1>2 DEF MasterAt, SlaveAt
  <2>2. /\ p = Master => program \notin Forking /\ pc'[p] \in MasterAt
        /\ p # Master => pc'[p] \in SlaveAt
    <3>1. p = Master => program \in {"exc_11_3", "preallctn", "TCPmechod"}
      BY <1>1, <1>2 DEF Labels, MasterAt, Programs, Forking
    <3>2. p # Master => program \in {"TCPechod", "no_wait", "preallctn"}
      BY <1>1, <1>2, Serving DEF Programs, Forking
    <3>3. pc'[p] \in {"read", "write", "loop"} /\ (pc'[p] = "loop" => program = "TCPmechod")
      BY <1>5, <1>6
    <3> QED
      BY <3>1, <3>2, <3>3 DEF MasterAt, SlaveAt, Forking
  <2> QED
    BY <1>6, <2>1, <2>2 DEF Labels
<1>10. PreforkLeft'
  <2>1. pc'[p] # "prefork" /\ pc[p] # "none"
    BY <1>2, <1>5, <1>6
  <2> QED
    BY <1>2, <1>6, <2>1 DEF PreforkLeft
<1>11. Tidy'
  <2>1. /\ c # None /\ buf[p] \in Nat
        /\ pc'[p] \in {"read", "write", "loop"} /\ (buf'[p] > 0 => pc'[p] = "write")
    BY <1>1, <1>3, <1>5, <1>6
  <2> QED
    BY <1>2, <1>3, <1>6, <2>1 DEF Tidy, c
<1>12. Fresh'
  BY <1>2 DEF Fresh, Held, Queued
<1>13. OneServer'
  <2>1. pc[Master] = "close" => pc'[Master] = "close"
    BY <1>2, <1>6
  <2> QED
    BY <1>2, <2>1 DEF OneServer
<1>14. Accounts'
  <2>1. ASSUME NEW d \in Clients, d # c
        PROVE  /\ \A q \in Procs : \A n : ssock'[q] = d /\ buf'[q] = n /\ n > 0 => Adds(d, n)'
               /\ (\A q \in Procs : ssock'[q] = d => buf'[q] = 0) => Adds(d, 0)'
    <3>1. inq'[d] = inq[d] /\ outq'[d] = outq[d]
      BY <1>1, <1>5, <2>1
    <3>2. \A n : Adds(d, n)' <=> Adds(d, n)
      BY <1>2, <3>1 DEF Adds
    <3>3. \A q \in Procs : ssock'[q] = d => q # p /\ ssock[q] = d /\ buf'[q] = buf[q]
      BY <1>2, <1>6, <2>1 DEF c
    <3>4. (\A q \in Procs : ssock'[q] = d => buf'[q] = 0) =>
            (\A q \in Procs : ssock[q] = d => buf[q] = 0)
      BY <1>2, <3>3
    <3> QED
      BY <3>2, <3>3, <3>4, <2>1 DEF Accounts
  <2>2. \A q \in Procs : q # p /\ ssock[q] = c => buf[q] = 0 /\ buf'[q] = 0
    BY <1>2, <1>6, OnlyOne DEF c
  <2>3. Adds(c, buf[p])
    <3>1. CASE buf[p] > 0
      BY <1>3, <3>1 DEF Accounts, c
    <3>2. CASE ~(buf[p] > 0)
      <4>1. buf[p] = 0
        BY <1>1, <3>2
      <4>2. \A q \in Procs : ssock[q] = c => buf[q] = 0
        BY <2>2, <4>1
      <4> QED
        BY <1>3, <4>1, <4>2 DEF Accounts
    <3> QED
      BY <3>1, <3>2
  <2>4. ASSUME NEW d \in Clients, d = c
        PROVE  /\ \A q \in Procs : \A n : ssock'[q] = d /\ buf'[q] = n /\ n > 0 => Adds(d, n)'
               /\ (\A q \in Procs : ssock'[q] = d => buf'[q] = 0) => Adds(d, 0)'
    <3>1. /\ inq[d] \in Nat /\ outq[d] \in Nat /\ sent[d] \in Nat /\ got[d] \in Nat
          /\ buf[p] \in Nat /\ k \in Nat /\ (pc[p] = "read" => buf[p] = 0)
      BY <1>1, <1>4 DEF Tidy
    <3>2. inq'[d] + buf'[p] + outq'[d] = inq[d] + buf[p] + outq[d]
      <4>1. CASE Reads
        <5>1. inq'[d] = inq[d] - k /\ outq'[d] = outq[d] /\ buf'[p] = k /\ buf[p] = 0
          BY <1>1, <1>6, <2>4, <3>1, <4>1
        <5> QED
          BY <1>4, <2>4, <3>1, <5>1
      <4>2. CASE Writes
        <5>1. inq'[d] = inq[d] /\ outq'[d] = outq[d] + buf[p] /\ buf'[p] = 0
          BY <1>1, <1>6, <2>4, <4>2
        <5> QED
          BY <3>1, <5>1
      <4> QED
        BY <1>5, <4>1, <4>2
    <3>3. \A n : buf'[p] = n => Adds(d, n)'
      <4> SUFFICES ASSUME NEW n, buf'[p] = n PROVE Adds(d, n)'
        OBVIOUS
      <4>1. inq'[d] + n + outq'[d] + got[d] = inq[d] + buf[p] + outq[d] + got[d]
        BY <3>2
      <4> QED
        BY <1>2, <2>3, <2>4, <4>1 DEF Adds
    <3>4. \A q \in Procs : ssock'[q] = d => q = p \/ buf'[q] = 0
      BY <1>2, <2>2, <2>4
    <3>5. ssock'[p] = d
      BY <1>2, <2>4 DEF c
    <3> QED
      BY <3>3, <3>4, <3>5
  <2>5. \A d \in Clients :
          /\ \A q \in Procs : \A n : ssock'[q] = d /\ buf'[q] = n /\ n > 0 => Adds(d, n)'
          /\ (\A q \in Procs : ssock'[q] = d => buf'[q] = 0) => Adds(d, 0)'
    BY <2>1, <2>4
  <2> QED
    BY <2>5 DEF Accounts, Adds
<1>15. Selected'
  <2> SUFFICES ASSUME program = "TCPmechod" PROVE Selected'
    BY <1>2 DEF Selected
  <2>1. p = Master /\ c \notin rfds
    BY <1>2, Serving DEF Forking, Selected, c
  <2>2. \A d \in Clients : d # c /\ Readable(d) => Readable(d)'
    BY <1>1, <1>2, <1>5 DEF Readable
  <2>3. pc'[Master] \in {"write", "loop"}
    BY <1>5, <1>6, <2>1
  <2>4. \A d \in rfds \ {None} : d \in Clients /\ d # c
    BY <2>1 DEF Types
  <2> QED
    BY <1>2, <2>1, <2>2, <2>3, <2>4 DEF Selected, c
<1> QED
  BY <1>8, <1>9, <1>10, <1>11, <1>12, <1>13, <1>14, <1>15

\* The master's close(ssock), and the end of a connection.
LEMMA CloseStep ==
  ASSUME Inv, parent_close \/ (\E p \in Procs : read_eof(p) /\ program \notin Forking)
  PROVE  Inv'
<1> USE Names DEF Inv
<1>1. MasterAt' = MasterAt /\ SlaveAt' = SlaveAt
  BY DEF parent_close, read_eof, MasterAt, SlaveAt
<1>2. pc \in [Procs -> PcStates] /\ program \in Programs
  BY DEF Types, PcStates
<1>3. CASE parent_close
  <2> DEFINE to == IF program = "no_wait" THEN "wait" ELSE "accept"
  <2>1. /\ pc[Master] = "close" /\ pc' = [pc EXCEPT ![Master] = to]
        /\ ssock' = [ssock EXCEPT ![Master] = None]
        /\ fds' = [fds EXCEPT ![Master] = @ \ {ssock[Master]}]
        /\ UNCHANGED <<program, l, buf, rfds, reaping, sigchld, net>>
    BY <1>3 DEF parent_close, Goto, At
  <2>2. program \in Forking
    BY <1>2, <2>1 DEF Labels, MasterAt, Programs, Forking
  <2>3. to \in {"accept", "wait"} /\ to \in MasterAt
    BY <2>2 DEF MasterAt, Forking
  <2> HIDE DEF to
  <2>4. Labels'
    BY <1>1, <1>2, <2>1, <2>3 DEF Labels
  <2>5. to \in {"accept", "wait", "loop"} /\ program # "TCPmechod"
    BY <2>2, <2>3 DEF Forking
  <2> QED
    BY <2>1, <2>4, <2>5, ReleaseInv
<1>4. ASSUME NEW p \in Procs, read_eof(p), program \notin Forking
      PROVE  Inv'
  <2> DEFINE to == IF program = "TCPmechod" THEN "loop" ELSE "accept"
  <2>1. /\ pc[p] = "read" /\ pc' = [pc EXCEPT ![p] = to]
        /\ ssock' = [ssock EXCEPT ![p] = None]
        /\ fds' = [fds EXCEPT ![p] = @ \ {ssock[p]}]
        /\ UNCHANGED <<program, l, buf, rfds, reaping, sigchld, net>>
    BY <1>4 DEF read_eof, At
  <2>2. program = "preallctn" \/ (p = Master /\ program \in {"exc_11_3", "TCPmechod"})
    BY <1>2, <1>4, <2>1, Serving DEF Programs
  <2>3. to \in {"accept", "loop"} /\ (p = Master => to \in MasterAt) /\ (p # Master => to \in SlaveAt)
    BY <2>2 DEF MasterAt, SlaveAt, Forking
  <2> HIDE DEF to
  <2>4. Labels'
    BY <1>1, <1>2, <2>1, <2>3 DEF Labels
  <2>5. to \in {"accept", "wait", "loop"} /\ (program = "TCPmechod" => p = Master)
    BY <2>2, <2>3
  <2> QED
    BY <2>1, <2>4, <2>5, ReleaseInv
<1> QED
  BY <1>3, <1>4

\* A read that returns 0 in a slave, a failure, and a fork that fails.
LEMMA EndStep ==
  ASSUME Inv, \/ fork_fails
              \/ \E p \in Procs : fails(p) \/ (read_eof(p) /\ program \in Forking)
  PROVE  Inv'
<1> USE Names, ConstantsAssumption DEF Inv, net
<1>1. \A p \in Procs : buf[p] \in Nat /\ (buf[p] > 0 => pc[p] = "write")
  BY DEF Types, Tidy
<1>2. CASE fork_fails
  <2>1. /\ pc[Master] \in {"fork", "prefork"} /\ Ends(Master) /\ faults' \in 0..Faults
        /\ UNCHANGED <<program, l, backlog, conn, inq, outq, sent, got>>
    BY <1>2 DEF fork_fails, At, Types
  <2> QED
    BY <1>1, <2>1, EndsInv
<1>3. ASSUME NEW p \in Procs, fails(p)
      PROVE  Inv'
  <2>1. /\ pc[p] \in {"read", "write"} /\ conn[ssock[p]] = "rst" /\ Ends(p) /\ faults' \in 0..Faults
        /\ UNCHANGED <<program, l, backlog, conn, inq, outq, sent, got>>
    BY <1>3 DEF fails, At, Types
  <2> QED
    BY <2>1, EndsInv
<1>4. ASSUME NEW p \in Procs, read_eof(p), program \in Forking
      PROVE  Inv'
  <2>1. /\ pc[p] = "read" /\ Ends(p) /\ faults' \in 0..Faults
        /\ UNCHANGED <<program, l, backlog, conn, inq, outq, sent, got>>
    BY <1>4 DEF read_eof, At, Types
  <2> QED
    BY <1>1, <2>1, EndsInv
<1> QED
  BY <1>2, <1>3, <1>4

\* TCPmechod's main: there is one process.
LEMMA MechodInv ==
  ASSUME Inv, select \/ loop_accept \/ loop_done \/ \E c \in Clients : loop_echo(c)
  PROVE  Inv'
<1> USE Names, ConstantsAssumption DEF Inv, net
<1>1. /\ pc[Master] \in {"select", "loop"} /\ pc'[Master] \in {"select", "loop", "read"}
      /\ \A q \in Procs : q # Master => pc'[q] = pc[q] /\ ssock'[q] = ssock[q] /\ fds'[q] = fds[q]
      /\ pc' \in [Procs -> PcStates]
      /\ UNCHANGED <<program, l, buf, reaping, sigchld, conn, inq, outq, sent, got, faults>>
  <2>1. /\ pc \in [Procs -> PcStates] /\ ssock \in [Procs -> Clients \cup {None}]
        /\ fds \in [Procs -> SUBSET Clients]
    BY DEF Types, PcStates
  <2>2. CASE select \/ loop_done
    BY <2>1, <2>2 DEF select, loop_done, Goto, At, PcStates
  <2>3. CASE loop_accept
    BY <2>1, <2>3 DEF loop_accept, At
  <2>4. ASSUME NEW c \in Clients, loop_echo(c)
        PROVE  /\ pc[Master] = "loop" /\ pc'[Master] = "read"
               /\ \A q \in Procs : q # Master => pc'[q] = pc[q] /\ ssock'[q] = ssock[q]
                                                 /\ fds'[q] = fds[q]
               /\ pc' \in [Procs -> PcStates]
               /\ UNCHANGED <<program, l, buf, reaping, sigchld, conn, inq, outq, sent, got, faults>>
    BY <2>1, <2>4 DEF loop_echo, Goto, At, PcStates
  <2> QED
    BY <2>2, <2>3, <2>4
<1>2. program = "TCPmechod"
  BY <1>1 DEF Types, Labels, MasterAt, Programs, Forking
<1>3. \A s \in Slaves : pc[s] = "none" /\ ssock[s] = None
  BY <1>2 DEF Labels, SlaveAt, Forking, Tidy
<1>4. buf[Master] = 0
  BY <1>1 DEF Tidy, Types
<1>5. Labels' /\ PreforkLeft'
  <2>1. MasterAt' = MasterAt /\ SlaveAt' = SlaveAt /\ {"select", "loop", "read"} \subseteq MasterAt
    BY <1>1, <1>2 DEF MasterAt, SlaveAt, Forking
  <2> QED
    BY <1>1, <2>1 DEF Labels, PreforkLeft
<1>6. OneServer'
  BY <1>1, <1>3 DEF OneServer
<1>7. ASSUME ssock'[Master] \in Clients \cup {None},
             ssock'[Master] # None => ssock'[Master] \in fds'[Master],
             pc'[Master] = "read" => ssock'[Master] # None
      PROVE  Tidy'
  <2> SUFFICES ASSUME NEW q \in Procs
               PROVE  /\ pc'[q] \in {"none", "prefork", "accept", "wait", "zombie", "dead"}
                           => ssock'[q] = None
                      /\ pc'[q] \in {"fork", "close", "read", "write"} => ssock'[q] # None
                      /\ buf[q] > 0 => pc'[q] = "write"
                      /\ ssock'[q] # None => ssock'[q] \in fds'[q]
    BY <1>1 DEF Tidy
  <2>1. CASE q = Master
    BY <1>1, <1>4, <1>7, <2>1
  <2>2. CASE q # Master
    BY <1>1, <2>2 DEF Tidy
  <2> QED
    BY <2>1, <2>2
<1>8. Accounts'
  <2>1. \A d \in Clients : \A n : Adds(d, n)' <=> Adds(d, n)
    BY <1>1 DEF Adds
  <2>2. \A q \in Procs : buf[q] = 0
    BY <1>3, <1>4 DEF Tidy, Types
  <2> QED
    BY <1>1, <2>1, <2>2 DEF Accounts
<1>9. CASE select \/ loop_done
  <2>1. /\ UNCHANGED <<ssock, fds, backlog>> /\ pc'[Master] \in {"select", "loop"}
        /\ rfds' = Ready \/ rfds' = rfds
    <3>1. pc \in [Procs -> PcStates]
      BY DEF Types, PcStates
    <3> QED
      BY <1>9, <3>1 DEF select, loop_done, Goto
  <2>2. Types' /\ NetTypes'
    BY <1>1, <2>1 DEF Types, NetTypes, PcStates, Ready
  <2>3. Fresh'
    BY <1>1, <2>1 DEF Fresh, Held, Queued
  <2>4. Tidy'
    BY <1>7, <2>1 DEF Tidy, Types
  <2>5. Selected'
    <3>1. /\ \A c \in Ready \ {None} : c \in fds[Master] /\ Readable(c)
          /\ None \in Ready => backlog # <<>>
      <4>1. fds[Master] \subseteq Clients
        BY DEF Types
      <4>2. None \in Ready => backlog # <<>>
        BY <4>1 DEF Ready
      <4>3. \A c \in Ready : c # None => c \in fds[Master] /\ Readable(c)
        BY DEF Ready, Readable
      <4> QED
        BY <4>2, <4>3
    <3>2. /\ \A c \in rfds \ {None} : c \in fds[Master] /\ Readable(c)
          /\ None \in rfds => backlog # <<>>
      BY <1>2 DEF Selected
    <3> QED
      BY <1>1, <2>1, <3>1, <3>2 DEF Selected, Readable
  <2> QED
    BY <1>5, <1>6, <1>8, <2>2, <2>3, <2>4, <2>5
<1>10. CASE loop_accept
  <2> DEFINE c == Head(backlog)
  <2>1. /\ None \in rfds /\ rfds' = rfds \ {None} /\ UNCHANGED <<pc, ssock>>
        /\ fds' = [fds EXCEPT ![Master] = @ \cup {c}] /\ backlog' = Tail(backlog)
    BY <1>10 DEF loop_accept
  <2>2. /\ c \in Clients /\ Queued(c) /\ ~Held(c) /\ conn[c] # "new"
        /\ backlog' \in Seq(Clients) /\ Len(backlog') <= QLEN + 1
        /\ \A d \in Clients : Queued(d)' => Queued(d) /\ d # c
        /\ \A i \in 1..Len(backlog') : conn[backlog'[i]] # "new"
        /\ \A i, j \in 1..Len(backlog') : backlog'[i] = backlog'[j] => i = j
    BY <1>2, <2>1, Dequeue DEF Selected
  <2> HIDE DEF c
  <2>3. /\ fds' \in [Procs -> SUBSET Clients] /\ fds'[Master] = fds[Master] \cup {c}
    BY <2>1, <2>2 DEF Types
  <2>4. Types'
    BY <1>1, <2>1, <2>3 DEF Types, PcStates
  <2>5. NetTypes'
    BY <1>1, <2>2 DEF NetTypes
  <2>6. Fresh'
    <3>1. \A d \in Clients : Held(d)' => Held(d) \/ d = c
      BY <1>1, <2>3 DEF Held
    <3> QED
      BY <1>1, <2>2, <3>1 DEF Fresh
  <2>7. Tidy'
    BY <1>1, <1>7, <2>1, <2>3 DEF Tidy, Types
  <2>8. Selected'
    BY <1>1, <2>1, <2>3 DEF Selected, Readable
  <2> QED
    BY <1>5, <1>6, <1>8, <2>4, <2>5, <2>6, <2>7, <2>8
<1>11. ASSUME NEW c \in Clients, loop_echo(c)
       PROVE  Inv'
  <2>1. /\ None \notin rfds /\ c \in rfds /\ rfds' = rfds \ {c}
        /\ ssock' = [ssock EXCEPT ![Master] = c] /\ UNCHANGED <<fds, backlog>>
    BY <1>11 DEF loop_echo
  <2>2. ssock' \in [Procs -> Clients \cup {None}] /\ ssock'[Master] = c /\ c # None
    BY <2>1 DEF Types
  <2>3. Types' /\ NetTypes'
    BY <1>1, <2>1, <2>2 DEF Types, NetTypes, PcStates
  <2>4. Fresh'
    BY <1>1, <2>1 DEF Fresh, Held, Queued
  <2>5. Readable(c) /\ c \in fds[Master]
    BY <1>2, <2>1, <2>2 DEF Selected
  <2>6. Tidy'
    BY <1>7, <2>1, <2>2, <2>5
  <2>7. Selected'
    BY <1>1, <2>1, <2>2, <2>5 DEF Selected, Readable
  <2> QED
    BY <1>5, <1>6, <1>8, <2>3, <2>4, <2>6, <2>7
<1> QED
  BY <1>9, <1>10, <1>11

\* Every step preserves the invariant.
LEMMA NextInv == Inv /\ [Next]_vars => Inv'
<1> SUFFICES ASSUME Inv, [Next]_vars PROVE Inv'
  OBVIOUS
<1>1. ASSUME NEW p \in Procs, ProcStep(p)
      PROVE  Inv'
  BY <1>1, AcceptInv, EchoStep, CloseStep, EndStep DEF ProcStep
<1>2. CASE MasterStep
  BY <1>2, CloseStep, IdleStep, MechodInv, ForkInv DEF MasterStep
<1>3. CASE Signal
  BY <1>3, IdleStep
<1>4. CASE fork_fails
  BY <1>4, EndStep
<1>5. ASSUME NEW c \in Clients, ClientStep(c)
      PROVE  Inv'
  BY <1>5, ClientInv
<1>6. CASE UNCHANGED vars
  <2> USE <1>6 DEF vars, Inv
  <2>1. Types' /\ NetTypes' /\ PreforkLeft' /\ Tidy'
    BY DEF Types, NetTypes, PreforkLeft, Tidy
  <2>2. Labels'
    BY DEF Labels, MasterAt, SlaveAt
  <2>3. Fresh' /\ OneServer'
    BY DEF Fresh, Held, Queued, OneServer
  <2>4. Accounts' /\ Selected'
    BY DEF Accounts, Adds, Selected, Readable
  <2> QED
    BY <2>1, <2>2, <2>3, <2>4
<1> QED
  BY <1>1, <1>2, <1>3, <1>4, <1>5, <1>6 DEF Next

\* Every message is in one place and in one process, or was lost with a connection that
\* was reset; and TCPmechod never waits in a read for a quiet client.
THEOREM EchoedExactly == Spec => []EchoInv
<1>1. Inv => EchoInv
  <2> SUFFICES ASSUME Inv PROVE EchoInv
    OBVIOUS
  <2> USE ConstantsAssumption, Names DEF Inv
  <2>1. \A p \in Procs : buf[p] \in Nat /\ (buf[p] > 0 => pc[p] = "write")
    BY DEF Types, Tidy
  <2>2. ASSUME NEW c \in Clients, NEW p \in Procs, NEW q \in Procs,
               ssock[p] = c, buf[p] > 0, ssock[q] = c, buf[q] > 0
        PROVE  p = q
    BY <2>1, <2>2, OnlyOne
  <2>3. EchoExact
    <3> SUFFICES ASSUME NEW c \in Clients
                 PROVE  LET P == {p \in Procs : ssock[p] = c /\ buf[p] > 0}
                            held == IF P = {} THEN 0 ELSE buf[CHOOSE p \in P : TRUE]
                            all == inq[c] + held + outq[c] + got[c]
                        IN  /\ Cardinality(P) <= 1
                            /\ all <= sent[c]
                            /\ conn[c] # "rst" => all = sent[c]
      BY DEF EchoExact
    <3> DEFINE P == {p \in Procs : ssock[p] = c /\ buf[p] > 0}
               held == IF P = {} THEN 0 ELSE buf[CHOOSE p \in P : TRUE]
    <3>1. CASE P = {}
      <4>1. Cardinality(P) = 0
        BY <3>1, FS_EmptySet
      <4>2. \A p \in Procs : ssock[p] = c => buf[p] = 0
        BY <2>1, <3>1
      <4>3. Adds(c, 0)
        BY <4>2 DEF Accounts
      <4> QED
        BY <3>1, <4>1, <4>3 DEF Adds
    <3>2. CASE P # {}
      <4>1. PICK p \in P : TRUE
        BY <3>2
      <4>2. P = {p}
        BY <2>2, <4>1
      <4>3. Cardinality(P) = 1
        BY <4>2, FS_Singleton
      <4>4. held = buf[p]
        BY <3>2, <4>2
      <4>5. Adds(c, buf[p])
        BY <4>1 DEF Accounts
      <4> HIDE DEF P, held
      <4>6. inq[c] + held + outq[c] + got[c] <= sent[c]
            /\ (conn[c] # "rst" => inq[c] + held + outq[c] + got[c] = sent[c])
        BY <4>4, <4>5 DEF Adds
      <4>7. Cardinality(P) <= 1
        BY <4>3
      <4> QED
        BY <4>6, <4>7 DEF P, held
    <3> QED
      BY <3>1, <3>2
  <2>4. TypeOK
    <3>1. ASSUME NEW c \in Clients
          PROVE  inq[c] <= sent[c] /\ got[c] <= sent[c] /\ sent[c] <= MaxSent[c]
      <4>1. /\ inq[c] \in Nat /\ outq[c] \in Nat /\ got[c] \in Nat /\ sent[c] \in Nat
            /\ sent[c] <= MaxSent[c]
        BY DEF NetTypes
      <4>2. \E n \in Nat : Adds(c, n)
        <5>1. CASE \E p \in Procs : ssock[p] = c /\ buf[p] > 0
          BY <2>1, <5>1 DEF Accounts
        <5>2. CASE \A p \in Procs : ssock[p] = c => buf[p] = 0
          BY <5>2 DEF Accounts
        <5> QED
          BY <2>1, <5>1, <5>2
      <4> QED
        BY <4>1, <4>2 DEF Adds
    <3> QED
      BY <3>1 DEF TypeOK, Types, NetTypes, ConnStates
  <2>5. SelectReads
    BY DEF SelectReads, Selected, Readable
  <2> QED
    BY <2>3, <2>4, <2>5 DEF EchoInv
<1> QED
  BY <1>1, InitInv, NextInv, PTL DEF Spec
-----------------------------------------------------------------------------
(* The servers with the clients of EchoTest, where the processes are those of the
   client: what a test client that ends has sent was echoed to it.  The variables and
   constants the two modules share are those of EchoTest from here on; nothing is used
   of what is assumed of the constants of EchoServers. *)

CONSTANTS N, CCOUNT, LINES
VARIABLES server, stray, i, hcount, wc, rc, lines, shut, closed, early, hand, sv

Test == INSTANCE EchoTest

\* EchoTest counts as this module does.
LEMMA CountedAlike == \A S : Test!Cardinality(S) = Cardinality(S)
  BY DEF Test!Cardinality, Cardinality

\* What EchoTest assumes of its constants.
TestConstants == {N, CCOUNT, BUFSIZE, CAP, LINES} \subseteq Nat \ {0} /\ Faults \in Nat

\* Where a process may be, and a connection at the server; the most that rc may be.
PCs == {"none", "run", "fork", "fork2", "set", "wait", "zombie", "gone", "done"}
SVs == {"queued", "read", "write", "closed", "broken"}
MostRC == IF CCOUNT > CAP THEN CCOUNT ELSE CAP + 1

\* The types of the variables.  TCPtecho2 may count to -1: if it tests one connection and
\* has reaped both children before it sets hcount.
TestProcTypes ==
  /\ program \in Test!Tests \cup Test!Liners /\ server \in Test!Servers /\ stray \in BOOLEAN
  /\ pc \in [Test!Procs -> PCs] /\ i \in {Test!Stray} \cup (1..(N + 1))
  /\ hcount \in [Test!Procs -> Int] /\ \A p \in Test!Procs : p # Test!Parent => hcount[p] \in 0..N
  /\ hcount[Test!Parent] \in (IF N < 2 THEN -1..2 ELSE 0..N)
  /\ wc \in [1..N -> 0..CCOUNT] /\ rc \in [1..N -> 0..MostRC] /\ lines \in 0..LINES
  /\ shut \subseteq Test!Conns /\ closed \in [Test!Procs -> SUBSET Test!Conns]
  /\ sigchld \in BOOLEAN /\ early \in BOOLEAN

TestNetTypes ==
  /\ inq \in [1..N -> 0..CAP] /\ outq \in [1..N -> 0..CAP] /\ hand \in [1..N -> 0..BUFSIZE]
  /\ sv \in [1..N -> SVs] /\ faults \in 0..Faults
  /\ \A c \in 1..N : sv[c] = "write" => hand[c] > 0

\* What is still to be read is on its way, or still to be sent.
Flow == /\ \A c \in 1..N : wc[c] + inq[c] + hand[c] + outq[c] <= rc[c]
        /\ IF program \in Test!Tests THEN lines = LINES ELSE \A c \in 1..N : wc[c] = 0

\* A server that is one process breaks all its connections, and then does nothing.
BrokenStays == server # "concurrent" /\ Test!Broken
               => \A c \in 1..N : sv[c] \in {"closed", "broken"}

\* Which process is where, in which program.
TestChildren == CASE program = "TCPtecho2" -> {Test!Writer, Test!Reader}
                  [] program = "TCPtecho3" -> 1..N
                  [] OTHER                 -> {}
Gone == {p \in TestChildren : pc[p] = "gone"}

Places ==
  /\ pc[Test!Parent] \in CASE program = "TCPtecho2" ->
                                {"fork", "fork2", "set", "wait", "done", "gone"}
                            [] program = "TCPtecho3" -> {"fork", "wait", "done", "gone"}
                            [] OTHER                 -> {"run", "done", "gone"}
  /\ \A p \in TestChildren : pc[p] \in {"none", "run", "zombie", "gone"}
  /\ \A p \in Test!Procs \ (TestChildren \cup {Test!Parent}) :
       pc[p] = "none" \/ (p = Test!Stray /\ program = "TCPtecho3" /\ pc[p] = "run")
  /\ sigchld => \E p \in TestChildren : pc[p] = "zombie"

\* The one process counts the connections it has not closed, and closes what it has read.
Techo1 == program = "TCPtecho" =>
  /\ hcount[Test!Parent] = Cardinality(Test!Conns \ closed[Test!Parent])
  /\ \A c \in closed[Test!Parent] : rc[c] = 0
  /\ pc[Test!Parent] = "done" => hcount[Test!Parent] = 0

\* The parent counts the children it has not reaped, unless it reaped one before it set the
\* count; then the count stays above zero.  The reader counts the connections it has not read.
Techo2 == program = "TCPtecho2" =>
  /\ pc[Test!Parent] = "fork" => pc[Test!Writer] = "none" /\ pc[Test!Reader] = "none" /\ ~early
  /\ pc[Test!Parent] = "fork2" => pc[Test!Reader] = "none"
  /\ pc[Test!Parent] \in {"fork", "fork2", "set"} =>
       hcount[Test!Parent] = N - Cardinality(Gone) /\ (early <=> Gone # {})
  /\ pc[Test!Parent] = "wait" =>
       IF early THEN hcount[Test!Parent] + Cardinality(Gone) >= 3
                ELSE hcount[Test!Parent] + Cardinality(Gone) = 2
  /\ pc[Test!Parent] = "done" => ~early /\ Gone = {Test!Writer, Test!Reader}
  /\ pc[Test!Reader] = "none" => closed[Test!Reader] = {}
  /\ pc[Test!Reader] # "none" /\ ~early
       => hcount[Test!Reader] + Cardinality(closed[Test!Reader]) = N
  /\ \A c \in closed[Test!Reader] : rc[c] = 0
  /\ pc[Test!Reader] \in {"zombie", "gone"} /\ ~Test!Broken => hcount[Test!Reader] = 0

\* The children are forked in order, and the parent counts those that it has not reaped;
\* each ends when it has read everything.
Techo3 == program = "TCPtecho3" =>
  /\ pc[Test!Parent] = "fork" => /\ i \in {Test!Stray} \cup 1..N
                                 /\ \A c \in 1..N : c >= i \/ i = Test!Stray => pc[c] = "none"
  /\ pc[Test!Parent] \in {"fork", "wait"} => hcount[Test!Parent] = N - Cardinality(Gone)
  /\ pc[Test!Parent] = "done" => Gone = 1..N
  /\ \A c \in 1..N : pc[c] \in {"zombie", "gone"} /\ ~Test!Broken => rc[c] = 0

\* A client of chapter 7 ends when its last line is back.
LinesBack == program \in Test!Liners => /\ pc[Test!Parent] = "done" => lines = 0 /\ rc[1] = 0
                                        /\ \A p \in Test!Procs : hcount[p] = 1

TestInv == /\ TestConstants /\ TestProcTypes /\ TestNetTypes /\ Flow /\ BrokenStays
           /\ Places /\ Techo1 /\ Techo2 /\ Techo3 /\ LinesBack
-----------------------------------------------------------------------------
(* The children, and those that were waited for. *)

LEMMA ChildrenAre ==
  ASSUME TestConstants
  PROVE  /\ program = "TCPtecho2" => TestChildren = {Test!Writer, Test!Reader}
         /\ program = "TCPtecho3" => TestChildren = 1..N
         /\ program \notin {"TCPtecho2", "TCPtecho3"} => TestChildren = {}
         /\ TestChildren \subseteq Test!Procs /\ Test!Parent \notin TestChildren
         /\ Test!Stray \notin TestChildren
         /\ Test!Parent \in Test!Procs /\ Test!Writer \in Test!Procs
         /\ Test!Reader \in Test!Procs /\ Test!Stray \in Test!Procs
         /\ 1..N \subseteq Test!Procs
<1>1. /\ program = "TCPtecho2" => TestChildren = {Test!Writer, Test!Reader}
      /\ program = "TCPtecho3" => TestChildren = 1..N
      /\ program \notin {"TCPtecho2", "TCPtecho3"} => TestChildren = {}
  BY DEF TestChildren
<1> QED
  BY <1>1 DEF TestConstants, Test!Procs, Test!Parent, Test!Writer, Test!Reader, Test!Stray

LEMMA NamesDiffer ==
  ASSUME TestConstants
  PROVE  /\ Test!Reader # Test!Parent /\ Test!Writer # Test!Parent /\ Test!Writer # Test!Reader
         /\ Test!Stray # Test!Parent /\ Test!Stray \notin 1..N /\ Test!Parent \notin 1..N
         /\ Test!Stray \in Int
BY DEF TestConstants, Test!Parent, Test!Writer, Test!Reader, Test!Stray

LEMMA GoneCounts ==
  ASSUME TestConstants
  PROVE  /\ IsFiniteSet(TestChildren) /\ IsFiniteSet(Gone) /\ Cardinality(Gone) \in Nat
         /\ Cardinality(Gone) <= Cardinality(TestChildren)
         /\ Cardinality(Gone) = Cardinality(TestChildren) => Gone = TestChildren
         /\ Gone = {} <=> Cardinality(Gone) = 0
         /\ program = "TCPtecho2" => Cardinality(TestChildren) = 2
         /\ program = "TCPtecho3" => Cardinality(TestChildren) = N
<1>1. IsFiniteSet(TestChildren) /\ (program = "TCPtecho2" => Cardinality(TestChildren) = 2)
                                /\ (program = "TCPtecho3" => Cardinality(TestChildren) = N)
  <2>1. CASE program = "TCPtecho2"
    <3>1. Test!Writer # Test!Reader
      BY DEF Test!Writer, Test!Reader
    <3>2. IsFiniteSet({Test!Writer}) /\ Cardinality({Test!Writer}) = 1
      BY FS_Singleton
    <3>3. {Test!Writer} \cup {Test!Reader} = {Test!Writer, Test!Reader}
      OBVIOUS
    <3>4. IsFiniteSet({Test!Writer, Test!Reader}) /\ Cardinality({Test!Writer, Test!Reader}) = 2
      BY <3>1, <3>2, <3>3, FS_AddElement
    <3> QED
      BY <2>1, <3>4, ChildrenAre
  <2>2. CASE program = "TCPtecho3"
    <3>1. IsFiniteSet(1..N) /\ Cardinality(1..N) = N
      BY FS_Interval DEF TestConstants
    <3> QED
      BY <2>2, <3>1, ChildrenAre
  <2>3. CASE program \notin {"TCPtecho2", "TCPtecho3"}
    BY <2>3, ChildrenAre, FS_EmptySet
  <2> QED
    BY <2>1, <2>2, <2>3
<1>2. Gone \subseteq TestChildren
  BY DEF Gone
<1>3. IsFiniteSet(Gone) /\ Cardinality(Gone) <= Cardinality(TestChildren)
      /\ (Cardinality(Gone) = Cardinality(TestChildren) => Gone = TestChildren)
  BY <1>1, <1>2, FS_Subset
<1>4. Cardinality(Gone) \in Nat /\ (Cardinality(Gone) = 0 <=> Gone = {})
  BY <1>3, FS_CardinalityType, FS_EmptySet
<1> QED
  BY <1>1, <1>3, <1>4

\* Only who is gone counts.
LEMMA GoneSame ==
  ASSUME program' = program, \A p \in TestChildren : pc'[p] = "gone" <=> pc[p] = "gone"
  PROVE  Gone' = Gone /\ TestChildren' = TestChildren
<1>1. TestChildren' = TestChildren
  BY DEF TestChildren
<1> QED
  BY <1>1 DEF Gone
-----------------------------------------------------------------------------
(* The servers. *)

\* What the servers do keeps the processes as they are, and what is broken is broken.
LEMMA NetKeeps ==
  ASSUME TestInv, UNCHANGED <<program, server, stray, Test!procs>>, Test!Broken => Test!Broken',
         TestNetTypes', Flow', BrokenStays'
  PROVE  TestInv'
<1> USE DEF Test!procs
<1>1. TestConstants' /\ TestProcTypes'
  BY DEF TestInv, TestConstants, TestProcTypes, Test!Conns
<1>2. Gone' = Gone /\ TestChildren' = TestChildren /\ Test!Conns' = Test!Conns
  BY GoneSame DEF Test!Conns
<1>3. Places' /\ Techo1' /\ LinesBack'
  BY <1>2 DEF TestInv, Places, Techo1, LinesBack
<1>4. Techo2' /\ Techo3'
  BY <1>2 DEF TestInv, Techo2, Techo3
<1> QED
  BY <1>1, <1>3, <1>4 DEF TestInv

\* A connection that the server goes on with is not broken, nor is another of a server
\* that is one process.
LEMMA GoesOn ==
  ASSUME TestNetTypes, BrokenStays, UNCHANGED server, NEW c \in 1..N, NEW x \in SVs \ {"broken"},
         sv[c] \in {"queued", "read", "write"}, sv' = [sv EXCEPT ![c] = x]
  PROVE  (Test!Broken => Test!Broken') /\ BrokenStays' /\ sv' \in [1..N -> SVs]
<1>1. sv' \in [1..N -> SVs] /\ \A b \in 1..N : sv'[b] = IF b = c THEN x ELSE sv[b]
  BY DEF TestNetTypes
<1>2. \A b \in 1..N : sv[b] = "broken" => sv'[b] = "broken"
  BY <1>1
<1>3. Test!Broken' => Test!Broken
  BY <1>1 DEF Test!Broken
<1>4. server # "concurrent" => ~Test!Broken
  BY DEF BrokenStays
<1> QED
  BY <1>1, <1>2, <1>3, <1>4 DEF Test!Broken, BrokenStays

\* The server ends, or a slave of it.
LEMMA EndedIs ==
  ASSUME TestNetTypes, BrokenStays, UNCHANGED server, NEW c \in 1..N,
         NEW how \in {"closed", "broken"},
         sv[c] \in {"read", "write"}, sv' = Test!Ended(c, how)
  PROVE  /\ (Test!Broken => Test!Broken') /\ BrokenStays' /\ sv' \in [1..N -> SVs]
         /\ \A b \in 1..N : sv'[b] = sv[b] \/ sv'[b] = how
<1>1. sv' \in [1..N -> SVs] /\ \A b \in 1..N : sv'[b] = sv[b] \/ sv'[b] = how
  BY DEF TestNetTypes, Test!Ended, SVs
<1>2. CASE server = "concurrent"
  <2>1. \A b \in 1..N : sv'[b] = IF b = c THEN how ELSE sv[b]
    BY <1>2 DEF Test!Ended
  <2>2. \A b \in 1..N : sv[b] = "broken" => sv'[b] = "broken"
    BY <2>1
  <2> QED
    BY <1>1, <1>2, <2>2 DEF Test!Broken, BrokenStays
<1>3. CASE server # "concurrent"
  <2>1. ~Test!Broken
    BY <1>3 DEF BrokenStays
  <2>2. \A b \in 1..N : sv'[b] = IF b = c \/ sv[b] # "closed" THEN how ELSE "closed"
    BY <1>3 DEF Test!Ended
  <2>3. \A b \in 1..N : sv'[b] \in {"closed", "broken"}
    BY <2>2
  <2> QED
    BY <1>1, <2>1, <2>3 DEF BrokenStays
<1> QED
  BY <1>2, <1>3

LEMMA LeastIs ==
  ASSUME NEW x \in Int, NEW y \in Int
  PROVE  /\ Test!Least(x, y) \in Int /\ Test!Least(x, y) <= x /\ Test!Least(x, y) <= y
         /\ Test!Least(x, y) = x \/ Test!Least(x, y) = y
BY DEF Test!Least

\* As many characters or fewer on the way.
LEMMA LessOnTheWay ==
  ASSUME NEW w \in Int, NEW r \in Int, NEW a \in Int, NEW h \in Int, NEW o \in Int,
         NEW a2 \in Int, NEW h2 \in Int, NEW o2 \in Int,
         w + a + h + o <= r, a2 + h2 + o2 <= a + h + o
  PROVE  w + a2 + h2 + o2 <= r
OBVIOUS

\* A step that moves characters of one connection between the places they can be in.
LEMMA Moves ==
  ASSUME TestConstants, TestNetTypes, Flow, UNCHANGED <<program, server, lines, wc, rc>>,
         wc \in [1..N -> 0..CCOUNT], rc \in [1..N -> 0..MostRC],
         NEW c \in 1..N, NEW a \in 0..CAP, NEW h \in 0..BUFSIZE, NEW o \in 0..CAP,
         a + h + o <= inq[c] + hand[c] + outq[c],
         inq' = [inq EXCEPT ![c] = a], hand' = [hand EXCEPT ![c] = h],
         outq' = [outq EXCEPT ![c] = o], faults' \in 0..Faults,
         sv' \in [1..N -> SVs], sv'[c] = "write" => h > 0,
         \A b \in 1..N : b # c => sv'[b] \in {sv[b], "closed", "broken"}
  PROVE  TestNetTypes' /\ Flow'
<1>1. /\ inq' \in [1..N -> 0..CAP] /\ outq' \in [1..N -> 0..CAP] /\ hand' \in [1..N -> 0..BUFSIZE]
      /\ inq'[c] = a /\ hand'[c] = h /\ outq'[c] = o
      /\ \A b \in 1..N : b # c => inq'[b] = inq[b] /\ hand'[b] = hand[b] /\ outq'[b] = outq[b]
  BY DEF TestNetTypes
<1>2. TestNetTypes'
  BY <1>1 DEF TestNetTypes
<1>3. ASSUME NEW b \in 1..N
      PROVE  wc[b] + inq'[b] + hand'[b] + outq'[b] <= rc[b]
  <2>1. wc[b] + inq[b] + hand[b] + outq[b] <= rc[b]
    BY DEF Flow
  <2>2. /\ wc[b] \in Int /\ rc[b] \in Int /\ inq[b] \in Int /\ hand[b] \in Int /\ outq[b] \in Int
    <3>1. MostRC \in Nat /\ CCOUNT \in Nat /\ CAP \in Nat /\ BUFSIZE \in Nat
      BY DEF TestConstants, MostRC
    <3>2. wc[b] \in 0..CCOUNT /\ rc[b] \in 0..MostRC
      OBVIOUS
    <3>3. inq[b] \in 0..CAP /\ hand[b] \in 0..BUFSIZE /\ outq[b] \in 0..CAP
      BY DEF TestNetTypes
    <3> QED
      BY <3>1, <3>2, <3>3
  <2>3. a \in Int /\ h \in Int /\ o \in Int
    BY DEF TestConstants
  <2>4. CASE b = c
    <3> DEFINE w0 == wc[b]   r0 == rc[b]   a0 == inq[b]   h0 == hand[b]   o0 == outq[b]
    <3>1. w0 + a0 + h0 + o0 <= r0 /\ a + h + o <= a0 + h0 + o0
      BY <2>1, <2>4
    <3>2. w0 \in Int /\ r0 \in Int /\ a0 \in Int /\ h0 \in Int /\ o0 \in Int
      BY <2>2
    <3>3. w0 + a + h + o <= r0
      <4> HIDE DEF w0, r0, a0, h0, o0
      <4> QED
        BY <2>3, <3>1, <3>2, LessOnTheWay
    <3> QED
      BY <1>1, <2>4, <3>3
  <2>5. CASE b # c
    BY <1>1, <2>1, <2>5
  <2> QED
    BY <2>4, <2>5
<1> QED
  BY <1>2, <1>3 DEF Flow

LEMMA NumbersAre ==
  ASSUME TestInv
  PROVE  /\ N \in Nat \ {0} /\ CCOUNT \in Nat \ {0} /\ BUFSIZE \in Nat \ {0} /\ CAP \in Nat \ {0}
         /\ LINES \in Nat \ {0} /\ MostRC \in Nat /\ Faults \in Nat
         /\ \A c \in 1..N : /\ wc[c] \in Nat /\ wc[c] <= CCOUNT /\ rc[c] \in Nat /\ rc[c] <= MostRC
                            /\ inq[c] \in Nat /\ inq[c] <= CAP /\ outq[c] \in Nat
                            /\ outq[c] <= CAP
                            /\ hand[c] \in Nat /\ hand[c] <= BUFSIZE
<1>1. /\ N \in Nat \ {0} /\ CCOUNT \in Nat \ {0} /\ BUFSIZE \in Nat \ {0} /\ CAP \in Nat \ {0}
      /\ LINES \in Nat \ {0} /\ MostRC \in Nat /\ Faults \in Nat
  BY DEF TestInv, TestConstants, MostRC
<1>2. \A c \in 1..N : wc[c] \in 0..CCOUNT /\ rc[c] \in 0..MostRC
  BY DEF TestInv, TestProcTypes
<1>3. \A c \in 1..N : inq[c] \in 0..CAP /\ outq[c] \in 0..CAP /\ hand[c] \in 0..BUFSIZE
  BY DEF TestInv, TestNetTypes
<1> QED
  BY <1>1, <1>2, <1>3

\* Each step of the servers keeps the invariant.
LEMMA AcceptKeeps ==
  ASSUME TestInv, NEW c \in 1..N, Test!accept(c)
  PROVE  TestInv'
<1> USE DEF Test!procs
<1>1. UNCHANGED <<program, server, stray, Test!procs, inq, outq, hand, faults>>
      /\ sv[c] = "queued" /\ sv' = [sv EXCEPT ![c] = "read"]
  BY DEF Test!accept
<1>2. (Test!Broken => Test!Broken') /\ BrokenStays' /\ sv' \in [1..N -> SVs]
  BY <1>1, GoesOn DEF TestInv, SVs
<1>3. TestNetTypes' /\ Flow'
  BY <1>1, <1>2 DEF TestInv, TestNetTypes, Flow
<1> QED
  BY <1>1, <1>2, <1>3, NetKeeps

LEMMA ReadKeeps ==
  ASSUME TestInv, NEW c \in 1..N, Test!read(c)
  PROVE  TestInv'
<1> USE DEF Test!procs
<1> DEFINE k == Test!Least(BUFSIZE, inq[c])
<1>1. /\ UNCHANGED <<program, server, stray, Test!procs, outq, faults>>
      /\ sv[c] = "read" /\ inq[c] > 0 /\ sv' = [sv EXCEPT ![c] = "write"]
      /\ hand' = [hand EXCEPT ![c] = k] /\ inq' = [inq EXCEPT ![c] = @ - k]
  BY DEF Test!read
<1>2. (Test!Broken => Test!Broken') /\ BrokenStays' /\ sv' \in [1..N -> SVs]
  BY <1>1, GoesOn DEF TestInv, SVs
<1> DEFINE a == inq[c] - k
<1>3. k \in 0..BUFSIZE /\ k > 0 /\ a \in 0..CAP
  <2>1. /\ BUFSIZE \in Int /\ BUFSIZE > 0 /\ inq[c] \in Int /\ inq[c] > 0 /\ inq[c] <= CAP
        /\ CAP \in Int
    BY <1>1, NumbersAre
  <2>2. k \in Int /\ k <= BUFSIZE /\ k <= inq[c] /\ (k = BUFSIZE \/ k = inq[c])
    BY <2>1, LeastIs
  <2> QED
    BY <2>1, <2>2
<1>4. /\ inq' = [inq EXCEPT ![c] = a] /\ hand' = [hand EXCEPT ![c] = k]
      /\ outq' = [outq EXCEPT ![c] = outq[c]]
  BY <1>1 DEF TestInv, TestNetTypes
<1>5. a + k + outq[c] <= inq[c] + hand[c] + outq[c]
  BY <1>3, NumbersAre
<1>6. sv'[c] = "write" /\ \A b \in 1..N : b # c => sv'[b] = sv[b]
  BY <1>1 DEF TestInv, TestNetTypes
<1>7. outq[c] \in 0..CAP /\ faults' \in 0..Faults
  BY <1>1 DEF TestInv, TestNetTypes
<1>8. UNCHANGED <<program, server, lines, wc, rc>>
  BY <1>1
<1>9. (sv'[c] = "write" => k > 0) /\ \A b \in 1..N : b # c => sv'[b] \in {sv[b], "closed", "broken"}
  BY <1>3, <1>6
<1>10. /\ TestConstants /\ TestNetTypes /\ Flow /\ wc \in [1..N -> 0..CCOUNT]
       /\ rc \in [1..N -> 0..MostRC]
  BY DEF TestInv, TestProcTypes
<1> HIDE DEF k, a
<1>11. TestNetTypes' /\ Flow'
  BY <1>2, <1>3, <1>4, <1>5, <1>7, <1>8, <1>9, <1>10, Moves
<1> QED
  BY <1>1, <1>2, <1>11, NetKeeps

LEMMA WriteKeeps ==
  ASSUME TestInv, NEW c \in 1..N, Test!write(c)
  PROVE  TestInv'
<1> USE DEF Test!procs
<1> DEFINE k == Test!Least(hand[c], CAP - outq[c])
<1>1. /\ UNCHANGED <<program, server, stray, Test!procs, inq, faults>>
      /\ sv[c] = "write" /\ k > 0
      /\ sv' = [sv EXCEPT ![c] = IF k = hand[c] THEN "read" ELSE "write"]
      /\ hand' = [hand EXCEPT ![c] = @ - k] /\ outq' = [outq EXCEPT ![c] = @ + k]
  BY DEF Test!write
<1>2. (Test!Broken => Test!Broken') /\ BrokenStays' /\ sv' \in [1..N -> SVs]
  BY <1>1, GoesOn DEF TestInv, SVs
<1> DEFINE h == hand[c] - k   o == outq[c] + k
<1>3. k <= hand[c] /\ k \in Int /\ h \in 0..BUFSIZE /\ o \in 0..CAP
  <2>1. hand[c] \in Int /\ hand[c] <= BUFSIZE /\ outq[c] \in Int /\ outq[c] >= 0 /\ CAP \in Int
        /\ BUFSIZE \in Int
    BY NumbersAre
  <2>2. CAP - outq[c] \in Int
    BY <2>1
  <2>3. k \in Int /\ k <= hand[c] /\ k <= CAP - outq[c]
    BY <2>1, <2>2, LeastIs
  <2> QED
    BY <1>1, <2>1, <2>3
<1>4. /\ inq' = [inq EXCEPT ![c] = inq[c]] /\ hand' = [hand EXCEPT ![c] = h]
      /\ outq' = [outq EXCEPT ![c] = o]
  BY <1>1 DEF TestInv, TestNetTypes
<1>5. inq[c] + h + o <= inq[c] + hand[c] + outq[c]
  BY <1>3, NumbersAre
<1>6. (sv'[c] = "write" => h > 0) /\ \A b \in 1..N : b # c => sv'[b] = sv[b]
  <2>1. /\ sv'[c] = (IF k = hand[c] THEN "read" ELSE "write")
        /\ \A b \in 1..N : b # c => sv'[b] = sv[b]
    BY <1>1 DEF TestInv, TestNetTypes
  <2> QED
    BY <2>1, <1>3, NumbersAre
<1>7. inq[c] \in 0..CAP /\ faults' \in 0..Faults
  BY <1>1 DEF TestInv, TestNetTypes
<1> HIDE DEF k, h, o
<1>8. TestNetTypes' /\ Flow'
  BY <1>1, <1>2, <1>3, <1>4, <1>5, <1>6, <1>7, Moves DEF TestInv, TestProcTypes
<1> QED
  BY <1>1, <1>2, <1>8, NetKeeps

LEMMA ReadEofKeeps ==
  ASSUME TestInv, NEW c \in 1..N, Test!read_eof(c)
  PROVE  TestInv'
<1> USE DEF Test!procs
<1>1. UNCHANGED <<program, server, stray, Test!procs, inq, outq, hand, faults>>
      /\ sv[c] = "read" /\ sv' = [sv EXCEPT ![c] = "closed"]
  BY DEF Test!read_eof
<1>2. (Test!Broken => Test!Broken') /\ BrokenStays' /\ sv' \in [1..N -> SVs]
  BY <1>1, GoesOn DEF TestInv, SVs
<1>3. TestNetTypes' /\ Flow'
  BY <1>1, <1>2 DEF TestInv, TestNetTypes, Flow
<1> QED
  BY <1>1, <1>2, <1>3, NetKeeps

LEMMA WriteFailsKeeps ==
  ASSUME TestInv, NEW c \in 1..N, Test!write_fails(c)
  PROVE  TestInv'
<1> USE DEF Test!procs
<1>1. UNCHANGED <<program, server, stray, Test!procs, inq, outq, faults>>
      /\ sv[c] = "write" /\ sv' = Test!Ended(c, "closed") /\ hand' = [hand EXCEPT ![c] = 0]
  BY DEF Test!write_fails
<1>2. /\ (Test!Broken => Test!Broken') /\ BrokenStays' /\ sv' \in [1..N -> SVs]
      /\ \A b \in 1..N : sv'[b] = sv[b] \/ sv'[b] = "closed"
  BY <1>1, EndedIs DEF TestInv
<1>3. inq' = [inq EXCEPT ![c] = inq[c]] /\ outq' = [outq EXCEPT ![c] = outq[c]]
  BY <1>1 DEF TestInv, TestNetTypes
<1>4. 0 \in 0..BUFSIZE /\ inq[c] + 0 + outq[c] <= inq[c] + hand[c] + outq[c]
  BY NumbersAre
<1>5. sv'[c] = "closed"
  BY <1>1 DEF Test!Ended, TestInv, TestNetTypes
<1>6. inq[c] \in 0..CAP /\ outq[c] \in 0..CAP /\ faults' \in 0..Faults
  BY <1>1 DEF TestInv, TestNetTypes
<1>7. TestNetTypes' /\ Flow'
  BY <1>1, <1>2, <1>3, <1>4, <1>5, <1>6, Moves DEF TestInv, TestProcTypes
<1> QED
  BY <1>1, <1>2, <1>7, NetKeeps

LEMMA BreaksKeeps ==
  ASSUME TestInv, NEW c \in 1..N, Test!breaks(c)
  PROVE  TestInv'
<1> USE DEF Test!procs
<1>1. UNCHANGED <<program, server, stray, Test!procs, inq, outq, hand>>
      /\ sv[c] \in {"read", "write"} /\ sv' = Test!Ended(c, "broken") /\ faults > 0
      /\ faults' = faults - 1
  BY DEF Test!breaks, Test!Serving, Test!Fault
<1>2. /\ (Test!Broken => Test!Broken') /\ BrokenStays' /\ sv' \in [1..N -> SVs]
      /\ \A b \in 1..N : sv'[b] = sv[b] \/ sv'[b] = "broken"
  BY <1>1, EndedIs DEF TestInv
<1>3. faults' \in 0..Faults
  BY <1>1, NumbersAre DEF TestInv, TestNetTypes
<1>4. TestNetTypes' /\ Flow'
  BY <1>1, <1>2, <1>3 DEF TestInv, TestNetTypes, Flow
<1> QED
  BY <1>1, <1>2, <1>4, NetKeeps
-----------------------------------------------------------------------------
(* send, recv and the end of a process. *)

\* What a process does without the network leaves it as it is.
LEMMA NetSame ==
  ASSUME TestInv, UNCHANGED <<program, server, wc, rc, lines, inq, outq, hand, sv>>,
         faults' \in 0..Faults
  PROVE  TestNetTypes' /\ Flow' /\ BrokenStays' /\ (Test!Broken <=> Test!Broken')
BY DEF TestInv, TestNetTypes, Flow, BrokenStays, Test!Broken

LEMMA SendKeeps ==
  ASSUME TestInv, NEW c \in 1..N, program \in Test!Tests, Test!Send(c, wc[c]),
         UNCHANGED <<program, server, lines, rc>>
  PROVE  /\ TestNetTypes' /\ Flow' /\ BrokenStays' /\ (Test!Broken <=> Test!Broken')
         /\ wc' \in [1..N -> 0..CCOUNT]
<1> DEFINE cc == Test!Least(Test!Least(BUFSIZE, wc[c]), CAP - inq[c])
           w  == wc[c] - cc   a == inq[c] + cc
<1>1. /\ wc' = [wc EXCEPT ![c] = w] /\ inq' = [inq EXCEPT ![c] = a]
      /\ UNCHANGED <<outq, hand, sv, faults>> /\ cc > 0
  BY DEF Test!Send, TestInv, TestNetTypes
<1>2. w \in 0..CCOUNT /\ a \in 0..CAP /\ w + a = wc[c] + inq[c]
  <2>1. /\ BUFSIZE \in Int /\ wc[c] \in Int /\ wc[c] <= CCOUNT /\ CCOUNT \in Int
        /\ inq[c] \in Int /\ inq[c] >= 0 /\ CAP \in Int /\ CAP - inq[c] \in Int
    BY NumbersAre
  <2>2. Test!Least(BUFSIZE, wc[c]) \in Int /\ Test!Least(BUFSIZE, wc[c]) <= wc[c]
    BY <2>1, LeastIs
  <2>3. cc \in Int /\ cc <= Test!Least(BUFSIZE, wc[c]) /\ cc <= CAP - inq[c]
    BY <2>1, <2>2, LeastIs DEF Test!Least
  <2> QED
    BY <1>1, <2>1, <2>2, <2>3
<1> HIDE DEF cc, w, a
<1>3. /\ wc' \in [1..N -> 0..CCOUNT] /\ wc'[c] = w /\ \A b \in 1..N : b # c => wc'[b] = wc[b]
      /\ inq' \in [1..N -> 0..CAP] /\ inq'[c] = a /\ \A b \in 1..N : b # c => inq'[b] = inq[b]
  BY <1>1, <1>2 DEF TestInv, TestNetTypes, TestProcTypes
<1>4. TestNetTypes' /\ BrokenStays' /\ (Test!Broken <=> Test!Broken')
  BY <1>1, <1>3 DEF TestInv, TestNetTypes, BrokenStays, Test!Broken
<1>5. ASSUME NEW b \in 1..N
      PROVE  wc'[b] + inq'[b] + hand[b] + outq[b] <= rc[b]
  <2>1. wc[b] + inq[b] + hand[b] + outq[b] <= rc[b]
    BY DEF TestInv, Flow
  <2>2. CASE b = c
    <3>1. /\ wc[c] \in Int /\ inq[c] \in Int /\ hand[c] \in Int /\ outq[c] \in Int
          /\ rc[c] \in Int
          /\ w \in Int /\ a \in Int
      BY <1>2, NumbersAre
    <3> QED
      BY <1>2, <1>3, <2>1, <2>2, <3>1
  <2>3. CASE b # c
    BY <1>3, <2>1, <2>3
  <2> QED
    BY <2>2, <2>3
<1>6. Flow'
  BY <1>1, <1>5 DEF TestInv, Flow
<1> QED
  BY <1>3, <1>4, <1>6

LEMMA RecvKeeps ==
  ASSUME TestInv, NEW c \in 1..N, Test!Recv(c), UNCHANGED <<program, server, lines, wc>>
  PROVE  /\ TestNetTypes' /\ Flow' /\ BrokenStays' /\ (Test!Broken <=> Test!Broken')
         /\ rc' \in [1..N -> 0..MostRC] /\ rc[c] > 0
         /\ \A b \in 1..N : b # c => rc'[b] = rc[b]
<1> DEFINE cc == Test!Least(BUFSIZE, outq[c])   r == rc[c] - cc   o == outq[c] - cc
<1>1. /\ rc' = [rc EXCEPT ![c] = r] /\ outq' = [outq EXCEPT ![c] = o]
      /\ UNCHANGED <<inq, hand, sv, faults>> /\ cc > 0 /\ rc[c] > 0
  BY DEF Test!Recv, TestInv, TestNetTypes, TestProcTypes
<1>2. /\ BUFSIZE \in Int /\ wc[c] \in Nat /\ inq[c] \in Nat /\ hand[c] \in Nat /\ outq[c] \in Nat
      /\ rc[c] \in Int /\ rc[c] <= MostRC /\ MostRC \in Int /\ CAP \in Int /\ outq[c] <= CAP
  BY NumbersAre
<1>3. wc[c] + inq[c] + hand[c] + outq[c] <= rc[c]
  BY DEF TestInv, Flow
<1>4. cc \in Int /\ cc <= outq[c]
  <2>1. BUFSIZE \in Int /\ outq[c] \in Int
    BY <1>2
  <2> QED
    BY <2>1, LeastIs
<1> HIDE DEF cc
<1>5. r \in 0..MostRC /\ o \in 0..CAP /\ wc[c] + inq[c] + hand[c] + o <= r
  BY <1>1, <1>2, <1>3, <1>4
<1> HIDE DEF r, o
<1>6. /\ rc' \in [1..N -> 0..MostRC] /\ rc'[c] = r /\ \A b \in 1..N : b # c => rc'[b] = rc[b]
      /\ outq' \in [1..N -> 0..CAP] /\ outq'[c] = o /\ \A b \in 1..N : b # c => outq'[b] = outq[b]
  BY <1>1, <1>5 DEF TestInv, TestNetTypes, TestProcTypes
<1>7. TestNetTypes' /\ BrokenStays' /\ (Test!Broken <=> Test!Broken')
  BY <1>1, <1>6 DEF TestInv, TestNetTypes, BrokenStays, Test!Broken
<1>8. \A b \in 1..N : wc[b] + inq[b] + hand[b] + outq'[b] <= rc'[b]
  <2>1. \A b \in 1..N : wc[b] + inq[b] + hand[b] + outq[b] <= rc[b]
    BY DEF TestInv, Flow
  <2>2. \A b \in 1..N : b # c => wc[b] + inq[b] + hand[b] + outq'[b] <= rc'[b]
    BY <1>6, <2>1
  <2> QED
    BY <1>5, <1>6, <2>2
<1>9. Flow'
  BY <1>1, <1>8 DEF TestInv, Flow
<1> QED
  BY <1>1, <1>6, <1>7, <1>9

LEMMA ClosedIn ==
  ASSUME TestInv
  PROVE  /\ Test!Conns \subseteq 1..N
         /\ \A p \in Test!Procs : closed[p] \subseteq Test!Conns /\ closed[p] \subseteq 1..N
<1>1. Test!Conns \subseteq 1..N
  BY NumbersAre DEF Test!Conns
<1>2. \A p \in Test!Procs : closed[p] \subseteq Test!Conns
  BY DEF TestInv, TestProcTypes
<1> QED
  BY <1>1, <1>2

\* A child ends when it has read everything, unless its connection is broken; where the
\* parent counts its children it lives, or they are all gone.
LEMMA EndsKeeps ==
  ASSUME TestInv, NEW p \in TestChildren \cup {Test!Parent}, p \in Test!Live, Test!Ends(p),
         UNCHANGED <<program, i, hcount, lines, closed, early, sv>>,
         \A c \in 1..N : rc[c] = 0 => rc'[c] = 0,
         program = "TCPtecho2" /\ p = Test!Reader => hcount[Test!Reader] = 0 \/ Test!Broken,
         program = "TCPtecho3" /\ p # Test!Parent => rc'[p] = 0 \/ Test!Broken
  PROVE  /\ pc' \in [Test!Procs -> PCs] /\ sigchld' \in BOOLEAN
         /\ Places' /\ Techo1' /\ Techo2' /\ Techo3' /\ LinesBack'
<1>0. /\ program = "TCPtecho2" => TestChildren = {Test!Writer, Test!Reader}
      /\ program = "TCPtecho3" => TestChildren = 1..N
      /\ TestChildren \subseteq Test!Procs /\ Test!Parent \notin TestChildren
      /\ Test!Parent \in Test!Procs /\ Test!Writer \in Test!Procs /\ Test!Reader \in Test!Procs
      /\ Test!Reader # Test!Parent /\ Test!Writer # Test!Parent
  BY ChildrenAre DEF TestInv, Test!Parent, Test!Reader, Test!Writer
<1>1. /\ pc \in [Test!Procs -> PCs] /\ p \in Test!Procs /\ Test!Parent \in Test!Procs
      /\ pc[p] \notin {"none", "zombie", "gone", "done"}
  BY <1>0 DEF TestInv, TestProcTypes, Test!Live
<1>2. pc' \in [Test!Procs -> PCs] /\ sigchld' \in BOOLEAN
  BY <1>1 DEF Test!Ends, PCs
<1>3. Test!Broken' = Test!Broken /\ TestChildren' = TestChildren /\ Test!Conns' = Test!Conns
  BY DEF Test!Broken, TestChildren, Test!Conns
<1>4. CASE p = Test!Parent
  <2>1. /\ pc'[Test!Parent] = "gone" /\ ~sigchld'
        /\ \A q \in Test!Procs \ {Test!Parent} : pc'[q] = IF pc[q] = "zombie" THEN "gone" ELSE pc[q]
    BY <1>1, <1>4 DEF Test!Ends
  <2>2. Places'
    <3>1. pc'[Test!Parent] \in CASE program = "TCPtecho2" ->
                                      {"fork", "fork2", "set", "wait", "done", "gone"}
                            [] program = "TCPtecho3" -> {"fork", "wait", "done", "gone"}
                            [] OTHER                 -> {"run", "done", "gone"}
      BY <2>1
    <3>2. \A q \in TestChildren : pc'[q] \in {"none", "run", "zombie", "gone"}
      BY <2>1, ChildrenAre DEF TestInv, Places
    <3>3. \A q \in Test!Procs \ (TestChildren \cup {Test!Parent}) :
            pc'[q] = "none" \/ (q = Test!Stray /\ program = "TCPtecho3" /\ pc'[q] = "run")
      BY <2>1 DEF TestInv, Places
    <3> QED
      BY <1>3, <2>1, <3>1, <3>2, <3>3 DEF Places
  <2>3. Techo1' /\ LinesBack'
    BY <1>1, <1>3, <2>1, ClosedIn DEF TestInv, Techo1, LinesBack
  <2>4. Techo2'
    <3>1. \A c \in closed[Test!Reader] : rc[c] = 0 => rc'[c] = 0
      BY <1>0, ClosedIn
    <3> QED
      BY <1>0, <1>1, <1>3, <2>1, <3>1 DEF TestInv, Techo2
  <2>5. Techo3'
    BY <1>1, <1>3, <2>1, ChildrenAre DEF TestInv, Techo3, Test!Parent, Places
  <2> QED
    BY <1>2, <2>2, <2>3, <2>4, <2>5
<1>5. CASE p # Test!Parent
  <2>1. /\ pc'[p] \in {"zombie", "gone"} /\ (Test!Parent \in Test!Live => pc'[p] = "zombie")
        /\ (sigchld' => Test!Parent \in Test!Live) /\ \A q \in Test!Procs \ {p} : pc'[q] = pc[q]
    BY <1>1, <1>5 DEF Test!Ends
  <2>2. p \in TestChildren /\ program \in {"TCPtecho2", "TCPtecho3"} /\ p \notin Gone
    BY <1>1, <1>5, ChildrenAre DEF TestInv, Gone
  <2>3. Test!Parent \in Test!Live \/ pc[Test!Parent] = "gone"
    <3>1. pc[Test!Parent] # "done"
      BY <2>2, ChildrenAre DEF TestInv, Techo2, Techo3
    <3> QED
      BY <1>1, <2>2, <3>1 DEF TestInv, Places, Test!Live
  <2>4. pc'[Test!Parent] = pc[Test!Parent] /\ (pc[Test!Parent] # "gone" => Gone' = Gone)
    <3>1. pc'[Test!Parent] = pc[Test!Parent]
      BY <1>1, <1>5, <2>1
    <3>2. ASSUME pc[Test!Parent] # "gone" PROVE Gone' = Gone
      BY <1>0, <1>1, <1>3, <2>1, <2>2, <2>3, <3>2 DEF Gone
    <3> QED
      BY <3>1, <3>2
  <2>5. Places'
    <3>1. \A q \in TestChildren : pc'[q] \in {"none", "run", "zombie", "gone"}
      BY <2>1, ChildrenAre DEF TestInv, Places
    <3>2. \A q \in Test!Procs \ (TestChildren \cup {Test!Parent}) :
            pc'[q] = "none" \/ (q = Test!Stray /\ program = "TCPtecho3" /\ pc'[q] = "run")
      BY <2>1, <2>2 DEF TestInv, Places
    <3> QED
      BY <1>3, <2>1, <2>2, <2>4, <3>1, <3>2 DEF TestInv, Places
  <2>6. Techo1' /\ LinesBack'
    BY <2>2 DEF Techo1, LinesBack, Test!Liners
  <2>7. ASSUME program = "TCPtecho2" PROVE Techo2'
    <3>1. /\ p \in {Test!Writer, Test!Reader} /\ Test!Reader \in Test!Procs
          /\ Test!Writer \in Test!Procs
          /\ pc'[Test!Writer] = "none" <=> pc[Test!Writer] = "none"
          /\ pc'[Test!Reader] = "none" <=> pc[Test!Reader] = "none"
      BY <1>0, <1>1, <2>1, <2>2, <2>7
    <3>2. pc'[Test!Reader] \in {"zombie", "gone"} /\ ~Test!Broken => hcount[Test!Reader] = 0
      BY <2>1, <2>7, <3>1 DEF TestInv, Techo2
    <3>3. \A c \in closed[Test!Reader] : rc[c] = 0 => rc'[c] = 0
      BY <1>0, ClosedIn
    <3> QED
      BY <1>3, <2>4, <2>7, <3>1, <3>2, <3>3 DEF TestInv, Techo2
  <2>8. ASSUME program = "TCPtecho3" PROVE Techo3'
    <3>1. p \in 1..N /\ 1..N \subseteq Test!Procs
      BY <1>0, <2>2, <2>8
    <3>2. \A c \in 1..N : pc'[c] = "none" <=> pc[c] = "none"
      BY <1>1, <2>1, <3>1
    <3>3. \A c \in 1..N : pc'[c] \in {"zombie", "gone"} /\ ~Test!Broken => rc'[c] = 0
      BY <2>1, <2>8, <3>1, <1>5 DEF TestInv, Techo3
    <3> QED
      BY <1>3, <2>4, <2>8, <3>2, <3>3 DEF TestInv, Techo3
  <2> QED
    BY <1>2, <2>5, <2>6, <2>7, <2>8 DEF Techo2, Techo3
<1> QED
  BY <1>4, <1>5
-----------------------------------------------------------------------------
(* The writers and readers. *)

LEMMA AllConns ==
  ASSUME program \in Test!Tests
  PROVE  Test!Conns = 1..N /\ program \notin Test!Liners
BY DEF Test!Conns, Test!Tests, Test!Liners

LEMMA WriterKeeps ==
  ASSUME TestInv, NEW c \in 1..N, Test!TCPtecho_writer(c) \/ Test!child_writer(c)
  PROVE  TestInv'
<1>1. /\ program \in Test!Tests /\ Test!Send(c, wc[c]) /\ shut' \in {shut, shut \cup {c}}
      /\ UNCHANGED <<program, server, stray, pc, i, hcount, rc, lines, closed, sigchld, early>>
  BY DEF Test!TCPtecho_writer, Test!child_writer, Test!Tests
<1>2. /\ TestNetTypes' /\ Flow' /\ BrokenStays' /\ (Test!Broken <=> Test!Broken')
      /\ wc' \in [1..N -> 0..CCOUNT]
  BY <1>1, SendKeeps
<1>3. TestConstants' /\ TestProcTypes' /\ Test!Conns' = Test!Conns
  BY <1>1, <1>2, AllConns DEF TestInv, TestConstants, TestProcTypes, Test!Conns
<1>4. Gone' = Gone /\ TestChildren' = TestChildren
  BY <1>1, GoneSame
<1>5. Places' /\ Techo1' /\ LinesBack'
  BY <1>1, <1>3, <1>4 DEF TestInv, Places, Techo1, LinesBack
<1>6. Techo2' /\ Techo3'
  BY <1>1, <1>2, <1>4 DEF TestInv, Techo2, Techo3
<1> QED
  BY <1>2, <1>3, <1>5, <1>6 DEF TestInv

LEMMA OutputSlaveKeeps ==
  ASSUME TestInv, NEW c \in 1..N, Test!TCPtechoOutputSlave(c)
  PROVE  TestInv'
<1>1. /\ program = "TCPtecho2" /\ program \in Test!Tests /\ Test!Send(c, wc[c])
      /\ hcount[Test!Writer] > 0
      /\ UNCHANGED <<program, server, stray, pc, i, rc, lines, shut, sigchld, early>>
      /\ closed' \in {closed, [closed EXCEPT ![Test!Writer] = @ \cup {c}]}
      /\ hcount' \in {hcount, [hcount EXCEPT ![Test!Writer] = @ - 1]}
  BY DEF Test!TCPtechoOutputSlave, Test!Tests, Test!Done
<1>2. /\ TestNetTypes' /\ Flow' /\ BrokenStays' /\ (Test!Broken <=> Test!Broken')
      /\ wc' \in [1..N -> 0..CCOUNT]
  BY <1>1, SendKeeps
<1>3. /\ Test!Writer \in Test!Procs /\ Test!Reader \in Test!Procs /\ Test!Parent \in Test!Procs
      /\ Test!Writer # Test!Parent /\ Test!Writer # Test!Reader
      /\ N \in Nat
  BY ChildrenAre, NumbersAre DEF TestInv, Test!Writer, Test!Reader, Test!Parent
<1>4. /\ \A p \in Test!Procs : p # Test!Writer => hcount'[p] = hcount[p] /\ closed'[p] = closed[p]
      /\ hcount' \in [Test!Procs -> Int] /\ hcount'[Test!Writer] \in 0..N
      /\ closed' \in [Test!Procs -> SUBSET Test!Conns]
  <2>1. /\ hcount \in [Test!Procs -> Int] /\ hcount[Test!Writer] \in 0..N
        /\ closed \in [Test!Procs -> SUBSET (1..N)]
        /\ Test!Conns = 1..N
    BY <1>1, <1>3, AllConns DEF TestInv, TestProcTypes
  <2>2. /\ \A p \in Test!Procs : p # Test!Writer => hcount'[p] = hcount[p]
        /\ hcount' \in [Test!Procs -> Int] /\ hcount'[Test!Writer] \in 0..N
    BY <1>1, <1>3, <2>1
  <2>3. /\ \A p \in Test!Procs : p # Test!Writer => closed'[p] = closed[p]
        /\ closed' \in [Test!Procs -> SUBSET (1..N)]
    BY <1>1, <1>3, <2>1
  <2> QED
    BY <2>1, <2>2, <2>3
<1>5. TestConstants' /\ TestProcTypes' /\ Test!Conns' = Test!Conns
  BY <1>1, <1>2, <1>3, <1>4 DEF TestInv, TestConstants, TestProcTypes, Test!Conns
<1>6. Gone' = Gone /\ TestChildren' = TestChildren
  BY <1>1, GoneSame
<1>7. Places' /\ Techo1' /\ Techo3' /\ LinesBack'
  BY <1>1, <1>6, AllConns DEF TestInv, Places, Techo1, Techo3, LinesBack
<1>8. Techo2'
  BY <1>1, <1>2, <1>3, <1>4, <1>6 DEF TestInv, Techo2
<1> QED
  BY <1>2, <1>5, <1>7, <1>8 DEF TestInv

\* One more connection is closed.
LEMMA OneMore ==
  ASSUME TestConstants, NEW C, C \subseteq 1..N, NEW c \in (1..N) \ C
  PROVE  /\ Cardinality(C) \in Nat /\ Cardinality(C) < N
         /\ Cardinality(C \cup {c}) = Cardinality(C) + 1
         /\ Cardinality((1..N) \ C) \in Nat
         /\ Cardinality((1..N) \ (C \cup {c})) = Cardinality((1..N) \ C) - 1
<1>1. IsFiniteSet(1..N) /\ Cardinality(1..N) = N
  BY FS_Interval DEF TestConstants
<1>2. IsFiniteSet(C) /\ IsFiniteSet((1..N) \ C)
  BY <1>1, FS_Subset
<1>3. Cardinality(C) <= N /\ (Cardinality(C) = N => C = 1..N)
  BY <1>1, FS_Subset
<1>4. Cardinality(C) \in Nat /\ Cardinality((1..N) \ C) \in Nat
  BY <1>2, FS_CardinalityType
<1>5. Cardinality(C \cup {c}) = Cardinality(C) + 1
  BY <1>2, FS_AddElement
<1>6. Cardinality(((1..N) \ C) \ {c}) = Cardinality((1..N) \ C) - 1
  BY <1>2, FS_RemoveElement
<1>7. ((1..N) \ C) \ {c} = (1..N) \ (C \cup {c})
  OBVIOUS
<1>8. N \in Nat /\ C # 1..N
  BY DEF TestConstants
<1>9. Cardinality(C) < N
  BY <1>3, <1>4, <1>8
<1> QED
  BY <1>4, <1>5, <1>6, <1>7, <1>9

LEMMA InputSlaveKeeps ==
  ASSUME TestInv, NEW c \in 1..N, Test!TCPtechoInputSlave(c)
  PROVE  TestInv'
<1>1. /\ program = "TCPtecho2" /\ program \in Test!Tests /\ Test!Recv(c)
      /\ hcount[Test!Reader] > 0
      /\ pc[Test!Reader] = "run"
      /\ UNCHANGED <<program, server, stray, pc, i, wc, lines, shut, sigchld, early>>
      /\ IF rc'[c] = 0 THEN Test!Done(Test!Reader, c) ELSE UNCHANGED <<closed, hcount>>
  BY DEF Test!TCPtechoInputSlave, Test!Tests
<1>2. /\ TestNetTypes' /\ Flow' /\ BrokenStays' /\ (Test!Broken <=> Test!Broken')
      /\ rc' \in [1..N -> 0..MostRC] /\ rc[c] > 0
      /\ \A b \in 1..N : b # c => rc'[b] = rc[b]
  BY <1>1, RecvKeeps
<1>3. /\ Test!Writer \in Test!Procs /\ Test!Reader \in Test!Procs /\ Test!Parent \in Test!Procs
      /\ Test!Reader # Test!Parent /\ Test!Writer # Test!Reader
      /\ N \in Nat /\ Test!Conns = 1..N
  BY <1>1, ChildrenAre, NumbersAre, AllConns DEF TestInv, Test!Writer, Test!Reader, Test!Parent
<1>4. /\ \A p \in Test!Procs : p # Test!Reader => hcount'[p] = hcount[p] /\ closed'[p] = closed[p]
      /\ hcount' \in [Test!Procs -> Int] /\ hcount'[Test!Reader] \in 0..N
      /\ closed' \in [Test!Procs -> SUBSET Test!Conns]
      /\ \/ UNCHANGED <<closed, hcount>>
         \/ /\ closed'[Test!Reader] = closed[Test!Reader] \cup {c}
            /\ hcount'[Test!Reader] = hcount[Test!Reader] - 1
            /\ rc'[c] = 0
  <2>1. /\ hcount \in [Test!Procs -> Int] /\ hcount[Test!Reader] \in 0..N
        /\ closed \in [Test!Procs -> SUBSET (1..N)]
    BY <1>3 DEF TestInv, TestProcTypes
  <2>2. CASE UNCHANGED <<closed, hcount>>
    BY <1>3, <2>1, <2>2
  <2>3. CASE rc'[c] = 0 /\ Test!Done(Test!Reader, c)
    <3>1. /\ closed' = [closed EXCEPT ![Test!Reader] = @ \cup {c}]
          /\ hcount' = [hcount EXCEPT ![Test!Reader] = @ - 1]
      BY <2>3 DEF Test!Done
    <3>2. /\ \A p \in Test!Procs : p # Test!Reader => hcount'[p] = hcount[p]
          /\ hcount' \in [Test!Procs -> Int] /\ hcount'[Test!Reader] = hcount[Test!Reader] - 1
      BY <1>3, <2>1, <3>1
    <3>3. /\ \A p \in Test!Procs : p # Test!Reader => closed'[p] = closed[p]
          /\ closed' \in [Test!Procs -> SUBSET (1..N)]
          /\ closed'[Test!Reader] = closed[Test!Reader] \cup {c}
      BY <1>3, <2>1, <3>1
    <3>4. hcount'[Test!Reader] \in 0..N
      BY <1>1, <1>3, <2>1, <3>2
    <3> QED
      BY <1>3, <2>3, <3>2, <3>3, <3>4
  <2> QED
    BY <1>1, <2>2, <2>3
<1>5. TestConstants' /\ TestProcTypes' /\ Test!Conns' = Test!Conns
  BY <1>1, <1>2, <1>3, <1>4 DEF TestInv, TestConstants, TestProcTypes, Test!Conns
<1>6. Gone' = Gone /\ TestChildren' = TestChildren
  BY <1>1, GoneSame
<1>7. Places' /\ Techo1' /\ Techo3' /\ LinesBack'
  BY <1>1, <1>6, AllConns DEF TestInv, Places, Techo1, Techo3, LinesBack
<1>8. \A b \in closed[Test!Reader] : rc[b] = 0 /\ b # c /\ rc'[b] = 0
  BY <1>1, <1>2, <1>3, ClosedIn DEF TestInv, Techo2
<1>9. Cardinality(closed[Test!Reader] \cup {c}) = Cardinality(closed[Test!Reader]) + 1
      /\ Cardinality(closed[Test!Reader]) \in Nat
  BY <1>3, <1>8, ClosedIn, OneMore DEF TestInv
<1>10. ~early => hcount'[Test!Reader] + Cardinality(closed'[Test!Reader]) = N
  <2>1. ~early => hcount[Test!Reader] + Cardinality(closed[Test!Reader]) = N
    BY <1>1 DEF TestInv, Techo2
  <2>2. hcount[Test!Reader] \in Int
    BY <1>3 DEF TestInv, TestProcTypes
  <2>3. CASE UNCHANGED <<closed, hcount>>
    BY <2>1, <2>3
  <2>4. CASE /\ closed'[Test!Reader] = closed[Test!Reader] \cup {c}
             /\ hcount'[Test!Reader] = hcount[Test!Reader] - 1
    BY <1>3, <1>9, <2>1, <2>2, <2>4
  <2> QED
    BY <1>4, <2>3, <2>4
<1>11. \A b \in closed'[Test!Reader] : rc'[b] = 0
  BY <1>4, <1>8
<1>12. Techo2'
  BY <1>1, <1>3, <1>4, <1>6, <1>10, <1>11 DEF TestInv, Techo2
<1> QED
  BY <1>2, <1>5, <1>7, <1>12 DEF TestInv

LEMMA ReaderKeeps ==
  ASSUME TestInv, NEW c \in 1..N, Test!TCPtecho_reader(c)
  PROVE  TestInv'
<1>1. /\ program = "TCPtecho" /\ program \in Test!Tests /\ Test!Recv(c)
      /\ c \notin closed[Test!Parent]
      /\ pc[Test!Parent] = "run"
      /\ UNCHANGED <<program, server, stray, i, wc, lines, shut, sigchld, early>>
      /\ IF rc'[c] = 0
         THEN /\ closed' = [closed EXCEPT ![Test!Parent] = @ \cup {c}]
              /\ hcount' = [hcount EXCEPT ![Test!Parent] = @ - 1]
              /\ pc' = [pc EXCEPT ![Test!Parent] =
                                  IF hcount'[Test!Parent] = 0 THEN "done" ELSE "run"]
         ELSE UNCHANGED <<closed, hcount, pc>>
  BY DEF Test!TCPtecho_reader, Test!Tests
<1>2. /\ TestNetTypes' /\ Flow' /\ BrokenStays'
      /\ rc' \in [1..N -> 0..MostRC] /\ \A b \in 1..N : b # c => rc'[b] = rc[b]
  BY <1>1, RecvKeeps
<1>3. /\ Test!Parent \in Test!Procs /\ N \in Nat \ {0} /\ Test!Conns = 1..N /\ TestChildren = {}
      /\ hcount \in [Test!Procs -> Int] /\ closed \in [Test!Procs -> SUBSET (1..N)]
      /\ pc \in [Test!Procs -> PCs]
      /\ hcount[Test!Parent] = Cardinality((1..N) \ closed[Test!Parent])
  BY <1>1, ChildrenAre, NumbersAre, AllConns DEF TestInv, TestProcTypes, Techo1
<1>4. CASE UNCHANGED <<closed, hcount, pc>>
  <2>1. TestConstants' /\ TestProcTypes' /\ Test!Conns' = Test!Conns
    BY <1>1, <1>2, <1>4 DEF TestInv, TestConstants, TestProcTypes, Test!Conns
  <2>2. Gone' = Gone /\ TestChildren' = TestChildren
    BY <1>1, <1>4, GoneSame
  <2>3. \A b \in closed[Test!Parent] : rc'[b] = 0
    BY <1>1, <1>2, <1>3, ClosedIn DEF TestInv, Techo1
  <2>4. Places' /\ Techo1' /\ Techo2' /\ Techo3' /\ LinesBack'
    BY <1>1, <1>4, <2>1, <2>2, <2>3, AllConns DEF TestInv, Places, Techo1, Techo2, Techo3,
           LinesBack
  <2> QED
    BY <1>2, <2>1, <2>4 DEF TestInv
<1>5. CASE rc'[c] = 0 /\ ~UNCHANGED <<closed, hcount, pc>>
  <2>1. /\ \A p \in Test!Procs : p # Test!Parent => hcount'[p] = hcount[p]
        /\ hcount' \in [Test!Procs -> Int] /\ hcount'[Test!Parent] = hcount[Test!Parent] - 1
    BY <1>1, <1>3, <1>5
  <2>2. /\ closed' \in [Test!Procs -> SUBSET (1..N)]
        /\ closed'[Test!Parent] = closed[Test!Parent] \cup {c}
    BY <1>1, <1>3, <1>5
  <2>3. /\ pc' \in [Test!Procs -> PCs]
        /\ pc'[Test!Parent] = IF hcount'[Test!Parent] = 0 THEN "done" ELSE "run"
        /\ \A p \in Test!Procs : p # Test!Parent => pc'[p] = pc[p]
    BY <1>1, <1>3, <1>5 DEF PCs
  <2>4. Cardinality((1..N) \ closed'[Test!Parent]) = Cardinality((1..N) \ closed[Test!Parent]) - 1
    <3>1. /\ TestConstants /\ closed[Test!Parent] \subseteq 1..N
          /\ c \in (1..N) \ closed[Test!Parent]
      BY <1>1, <1>3 DEF TestInv
    <3> QED
      BY <2>2, <3>1, OneMore
  <2>5. hcount'[Test!Parent] = Cardinality((1..N) \ closed'[Test!Parent])
    BY <1>3, <2>1, <2>4
  <2>6. hcount'[Test!Parent] \in 0..N
    <3>1. IsFiniteSet(1..N) /\ Cardinality(1..N) = N
      BY <1>3, FS_Interval
    <3>2. /\ IsFiniteSet((1..N) \ closed'[Test!Parent])
          /\ Cardinality((1..N) \ closed'[Test!Parent]) <= N
      BY <3>1, FS_Subset
    <3> QED
      BY <1>3, <2>5, <3>2, FS_CardinalityType
  <2>7. hcount'[Test!Parent] \in (IF N < 2 THEN -1..2 ELSE 0..N)
    BY <1>3, <2>6
  <2>8. TestConstants' /\ Test!Conns' = Test!Conns
    BY <1>1 DEF TestInv, TestConstants, Test!Conns
  <2>9. TestProcTypes'
    BY <1>1, <1>2, <1>3, <2>1, <2>2, <2>3, <2>7, <2>8 DEF TestInv, TestProcTypes
  <2>10. TestChildren' = {}
    BY <1>1, <1>3 DEF TestChildren
  <2>11. Places'
    BY <1>1, <1>3, <2>3, <2>10 DEF TestInv, Places
  <2>12. \A b \in closed'[Test!Parent] : rc'[b] = 0
    BY <1>1, <1>2, <1>3, <1>5, <2>2, ClosedIn DEF TestInv, Techo1
  <2>13. Techo1'
    BY <1>3, <2>3, <2>5, <2>8, <2>12 DEF Techo1
  <2>14. Techo2' /\ Techo3' /\ LinesBack'
    BY <1>1, AllConns DEF Techo2, Techo3, LinesBack
  <2> QED
    BY <1>2, <2>8, <2>9, <2>11, <2>13, <2>14 DEF TestInv
<1> QED
  BY <1>1, <1>4, <1>5

LEMMA ChildReaderKeeps ==
  ASSUME TestInv, NEW c \in 1..N, Test!child_reader(c)
  PROVE  TestInv'
<1>1. /\ program = "TCPtecho3" /\ program \in Test!Tests /\ Test!Recv(c) /\ pc[c] = "run"
      /\ UNCHANGED <<program, server, stray, i, hcount, wc, lines, shut, closed, early>>
      /\ IF rc'[c] = 0 THEN Test!Ends(c) ELSE UNCHANGED <<pc, sigchld>>
  BY DEF Test!child_reader, Test!Tests
<1>2. /\ TestNetTypes' /\ Flow' /\ BrokenStays' /\ (Test!Broken <=> Test!Broken') /\ UNCHANGED sv
      /\ rc' \in [1..N -> 0..MostRC] /\ rc[c] > 0
      /\ \A b \in 1..N : b # c => rc'[b] = rc[b]
  BY <1>1, RecvKeeps DEF Test!Recv
<1>3. \A b \in 1..N : rc[b] = 0 => rc'[b] = 0
  BY <1>2
<1>4. TestConstants' /\ Test!Conns' = Test!Conns
  BY <1>1 DEF TestInv, TestConstants, Test!Conns
<1>5. /\ pc' \in [Test!Procs -> PCs] /\ sigchld' \in BOOLEAN
      /\ Places' /\ Techo1' /\ Techo2' /\ Techo3' /\ LinesBack'
  <2>1. CASE rc'[c] = 0 /\ Test!Ends(c)
    <3>1. c \in TestChildren /\ c # Test!Reader /\ c \in Test!Live
      BY <1>1, ChildrenAre DEF TestInv, Test!Reader, Test!Live
    <3> QED
      BY <1>1, <1>2, <1>3, <2>1, <3>1, EndsKeeps
  <2>2. CASE UNCHANGED <<pc, sigchld>>
    <3>1. Gone' = Gone /\ TestChildren' = TestChildren
      BY <1>1, <2>2, GoneSame
    <3>2. pc' \in [Test!Procs -> PCs] /\ sigchld' \in BOOLEAN /\ Places'
      BY <1>1, <2>2, <3>1 DEF TestInv, TestProcTypes, Places
    <3>3. Techo1' /\ Techo2' /\ LinesBack'
      BY <1>1, AllConns DEF Techo1, Techo2, LinesBack
    <3>4. Techo3'
      BY <1>1, <1>2, <1>3, <2>2, <3>1 DEF TestInv, Techo3
    <3> QED
      BY <3>2, <3>3, <3>4
  <2> QED
    BY <1>1, <2>1, <2>2
<1>6. TestProcTypes'
  BY <1>1, <1>2, <1>4, <1>5 DEF TestInv, TestProcTypes
<1> QED
  BY <1>2, <1>4, <1>5, <1>6 DEF TestInv
-----------------------------------------------------------------------------
(* Forks, and what the parent waits for. *)

LEMMA SlaveEndsKeeps ==
  ASSUME TestInv, NEW p \in {Test!Writer, Test!Reader}, Test!slave_ends(p)
  PROVE  TestInv'
<1>1. /\ pc[p] = "run" /\ hcount[p] = 0 /\ Test!Ends(p)
      /\ UNCHANGED <<program, server, stray, i, hcount, wc, rc, lines, shut, closed,
                     early, Test!net>>
  BY DEF Test!slave_ends
<1>2. p \in Test!Procs /\ p # Test!Parent /\ p # Test!Stray /\ p \notin 1..N
  BY ChildrenAre, NumbersAre DEF TestInv, Test!Writer, Test!Reader, Test!Parent, Test!Stray
<1>3. p \in TestChildren /\ p \in Test!Live /\ program = "TCPtecho2"
  BY <1>1, <1>2, ChildrenAre DEF TestInv, Places, Test!Live
<1>4. /\ pc' \in [Test!Procs -> PCs] /\ sigchld' \in BOOLEAN
      /\ Places' /\ Techo1' /\ Techo2' /\ Techo3' /\ LinesBack'
  BY <1>1, <1>3, EndsKeeps DEF Test!net
<1>5. TestNetTypes' /\ Flow' /\ BrokenStays'
  BY <1>1, NetSame DEF TestInv, TestNetTypes, Test!net
<1>6. TestConstants' /\ TestProcTypes'
  BY <1>1, <1>4 DEF TestInv, TestConstants, TestProcTypes, Test!Conns
<1> QED
  BY <1>4, <1>5, <1>6 DEF TestInv

LEMMA FailsKeeps ==
  ASSUME TestInv, NEW p \in Test!Procs, Test!fails(p)
  PROVE  TestInv'
<1>1. /\ p \in Test!Live /\ p # Test!Stray /\ Test!Ends(p) /\ Test!Broken
      /\ UNCHANGED <<program, server, stray, i, hcount, wc, rc, lines, shut, closed,
                     early, Test!net>>
  BY ClosedIn DEF Test!fails, Test!Broken
<1>2. p \in TestChildren \cup {Test!Parent}
  BY <1>1 DEF TestInv, Places, Test!Live
<1>3. /\ pc' \in [Test!Procs -> PCs] /\ sigchld' \in BOOLEAN
      /\ Places' /\ Techo1' /\ Techo2' /\ Techo3' /\ LinesBack'
  BY <1>1, <1>2, EndsKeeps DEF Test!net
<1>4. TestNetTypes' /\ Flow' /\ BrokenStays'
  BY <1>1, NetSame DEF TestInv, TestNetTypes, Test!net
<1>5. TestConstants' /\ TestProcTypes'
  BY <1>1, <1>3 DEF TestInv, TestConstants, TestProcTypes, Test!Conns
<1> QED
  BY <1>3, <1>4, <1>5 DEF TestInv

LEMMA ForkFailsKeeps ==
  ASSUME TestInv, Test!fork_fails
  PROVE  TestInv'
<1>1. /\ pc[Test!Parent] \in {"fork", "fork2"} /\ faults > 0 /\ faults' = faults - 1
      /\ Test!Ends(Test!Parent)
      /\ UNCHANGED <<program, server, stray, i, hcount, wc, rc, lines, shut, closed,
                     early, inq, outq, hand, sv>>
  BY DEF Test!fork_fails, Test!Fault
<1>2. Test!Parent \in Test!Live /\ Test!Parent # Test!Reader
  BY <1>1, ChildrenAre DEF TestInv, Test!Live, Test!Parent, Test!Reader
<1>3. /\ pc' \in [Test!Procs -> PCs] /\ sigchld' \in BOOLEAN
      /\ Places' /\ Techo1' /\ Techo2' /\ Techo3' /\ LinesBack'
  BY <1>1, <1>2, EndsKeeps
<1>4. faults' \in 0..Faults
  BY <1>1, NumbersAre DEF TestInv, TestNetTypes
<1>5. TestNetTypes' /\ Flow' /\ BrokenStays'
  BY <1>1, <1>4, NetSame
<1>6. TestConstants' /\ TestProcTypes'
  BY <1>1, <1>3 DEF TestInv, TestConstants, TestProcTypes, Test!Conns
<1> QED
  BY <1>3, <1>5, <1>6 DEF TestInv

LEMMA Fork2Keeps ==
  ASSUME TestInv, NEW p \in {Test!Writer, Test!Reader}, Test!fork2(p)
  PROVE  TestInv'
<1>1. /\ program = "TCPtecho2" /\ program \in Test!Tests /\ pc[Test!Parent] \in {"fork", "fork2"}
      /\ p = IF pc[Test!Parent] = "fork" THEN Test!Writer ELSE Test!Reader
      /\ pc' = [pc EXCEPT ![Test!Parent] = IF p = Test!Writer THEN "fork2" ELSE "set", ![p] = "run"]
      /\ hcount' = [hcount EXCEPT ![p] = hcount[Test!Parent]]
      /\ UNCHANGED <<program, server, stray, i, wc, rc, lines, shut, closed, sigchld,
                     early, Test!net>>
  BY DEF Test!fork2, Test!Tests
<1>2. /\ Test!Writer \in Test!Procs /\ Test!Reader \in Test!Procs /\ Test!Parent \in Test!Procs
      /\ Test!Reader # Test!Parent
      /\ Test!Writer # Test!Reader /\ Test!Writer # Test!Parent
      /\ TestChildren = {Test!Writer, Test!Reader}
      /\ N \in Nat \ {0} /\ pc \in [Test!Procs -> PCs] /\ hcount \in [Test!Procs -> Int]
  BY <1>1, ChildrenAre, NumbersAre, NamesDiffer DEF TestInv, TestProcTypes
<1>3. /\ pc' \in [Test!Procs -> PCs] /\ pc'[p] = "run"
      /\ pc'[Test!Parent] = IF p = Test!Writer THEN "fork2" ELSE "set"
      /\ \A q \in Test!Procs : q # p /\ q # Test!Parent => pc'[q] = pc[q]
  BY <1>1, <1>2 DEF PCs
<1>4. /\ hcount' \in [Test!Procs -> Int] /\ hcount'[p] = hcount[Test!Parent]
      /\ \A q \in Test!Procs : q # p => hcount'[q] = hcount[q]
  BY <1>1, <1>2
<1>5. pc[p] = "none" /\ (p = Test!Writer => ~early /\ pc[Test!Reader] = "none")
  BY <1>1, <1>2 DEF TestInv, Techo2
<1>6. Gone' = Gone /\ TestChildren' = TestChildren
  BY <1>1, <1>2, <1>3, <1>5, GoneSame
<1>7. hcount[Test!Parent] = N - Cardinality(Gone) /\ (early <=> Gone # {})
  BY <1>1 DEF TestInv, Techo2
<1>8. p \notin Gone /\ Cardinality(Gone) \in Nat /\ Cardinality(Gone) <= 2
      /\ (Cardinality(Gone) = 2 => Gone = TestChildren)
  BY <1>1, <1>5, GoneCounts DEF TestInv, Gone
<1>9. hcount[Test!Parent] \in 0..N
  BY <1>2, <1>7, <1>8
<1>10. TestConstants' /\ Test!Conns' = Test!Conns
  BY <1>1 DEF TestInv, TestConstants, Test!Conns
<1>11. /\ \A q \in Test!Procs : q # Test!Parent => hcount'[q] \in 0..N
       /\ hcount'[Test!Parent] \in (IF N < 2 THEN -1..2 ELSE 0..N)
  BY <1>2, <1>4, <1>9 DEF TestInv, TestProcTypes
<1>12. TestProcTypes'
  BY <1>1, <1>3, <1>4, <1>10, <1>11 DEF TestInv, TestProcTypes
<1>13. TestNetTypes' /\ Flow' /\ BrokenStays' /\ (Test!Broken <=> Test!Broken')
  BY <1>1, NetSame DEF TestInv, TestNetTypes, Test!net
<1>14. Places'
  BY <1>1, <1>2, <1>3, <1>5, <1>6 DEF TestInv, Places
<1>15. Techo1' /\ Techo3' /\ LinesBack'
  BY <1>1, AllConns DEF Techo1, Techo3, LinesBack
<1>16. p = Test!Reader /\ ~early => hcount'[Test!Reader] + Cardinality(closed'[Test!Reader]) = N
  <2>1. ASSUME p = Test!Reader, ~early PROVE closed[Test!Reader] = {} /\ Gone = {}
    BY <1>1, <1>5, <1>7, <2>1 DEF TestInv, Techo2
  <2>2. Cardinality({}) = 0
    BY FS_EmptySet
  <2>3. ASSUME p = Test!Reader, ~early PROVE hcount'[Test!Reader] = N /\ closed'[Test!Reader] = {}
    <3>1. Gone = {} /\ closed[Test!Reader] = {} /\ hcount'[Test!Reader] = hcount[Test!Parent]
      BY <1>4, <2>1, <2>3
    <3>2. hcount[Test!Parent] = N - 0
      BY <1>7, <2>2, <3>1
    <3> QED
      BY <1>1, <1>2, <3>1, <3>2
  <2> QED
    BY <1>2, <2>2, <2>3
<1>17. Techo2'
  BY <1>1, <1>2, <1>3, <1>4, <1>5, <1>6, <1>7, <1>13, <1>16 DEF TestInv, Techo2
<1> QED
  BY <1>10, <1>12, <1>13, <1>14, <1>15, <1>17 DEF TestInv

LEMMA SetKeeps ==
  ASSUME TestInv, Test!set
  PROVE  TestInv'
<1>1. /\ pc[Test!Parent] = "set" /\ pc' = [pc EXCEPT ![Test!Parent] = "wait"]
      /\ hcount' = [hcount EXCEPT ![Test!Parent] = 2]
      /\ UNCHANGED <<program, server, stray, i, wc, rc, lines, shut, closed, sigchld,
                     early, Test!net>>
  BY DEF Test!set, Test!Goto
<1>2. /\ Test!Writer \in Test!Procs /\ Test!Reader \in Test!Procs /\ Test!Parent \in Test!Procs
      /\ Test!Reader # Test!Parent
      /\ Test!Writer # Test!Parent /\ Test!Parent \notin TestChildren
      /\ TestChildren \subseteq Test!Procs
      /\ N \in Nat \ {0} /\ pc \in [Test!Procs -> PCs] /\ hcount \in [Test!Procs -> Int]
  BY <1>1, ChildrenAre, NumbersAre, NamesDiffer DEF TestInv, TestProcTypes
<1>3. program = "TCPtecho2" /\ program \in Test!Tests
  BY <1>1 DEF TestInv, Places, Test!Tests
<1>4. /\ pc' \in [Test!Procs -> PCs] /\ pc'[Test!Parent] = "wait"
      /\ \A q \in Test!Procs : q # Test!Parent => pc'[q] = pc[q]
      /\ hcount' \in [Test!Procs -> Int] /\ hcount'[Test!Parent] = 2
      /\ \A q \in Test!Procs : q # Test!Parent => hcount'[q] = hcount[q]
  BY <1>1, <1>2 DEF PCs
<1>5. Gone' = Gone /\ TestChildren' = TestChildren
  BY <1>1, <1>2, <1>4, GoneSame
<1>6. TestConstants' /\ Test!Conns' = Test!Conns
  BY <1>1 DEF TestInv, TestConstants, Test!Conns
<1>7. hcount'[Test!Parent] \in (IF N < 2 THEN -1..2 ELSE 0..N)
  BY <1>2, <1>4
<1>8. TestProcTypes'
  BY <1>1, <1>4, <1>6, <1>7 DEF TestInv, TestProcTypes
<1>9. TestNetTypes' /\ Flow' /\ BrokenStays' /\ (Test!Broken <=> Test!Broken')
  BY <1>1, NetSame DEF TestInv, TestNetTypes, Test!net
<1>10. Places'
  BY <1>1, <1>2, <1>3, <1>4, <1>5 DEF TestInv, Places
<1>11. Techo1' /\ Techo3' /\ LinesBack'
  BY <1>1, <1>3, AllConns DEF Techo1, Techo3, LinesBack
<1>12. IF early THEN 2 + Cardinality(Gone) >= 3 ELSE 2 + Cardinality(Gone) = 2
  BY <1>1, <1>3, GoneCounts DEF TestInv, Techo2
<1>13. Techo2'
  BY <1>1, <1>2, <1>3, <1>4, <1>5, <1>9, <1>12 DEF TestInv, Techo2
<1> QED
  BY <1>6, <1>8, <1>9, <1>10, <1>11, <1>13 DEF TestInv

LEMMA Fork3Keeps ==
  ASSUME TestInv, Test!fork3
  PROVE  TestInv'
<1>1. /\ program = "TCPtecho3" /\ program \in Test!Tests /\ pc[Test!Parent] = "fork"
      /\ i' = IF i = Test!Stray THEN 1 ELSE i + 1
      /\ pc' = [pc EXCEPT ![i] = "run", ![Test!Parent] = IF i = N THEN "wait" ELSE "fork"]
      /\ UNCHANGED <<program, server, stray, hcount, wc, rc, lines, shut, closed, sigchld,
                     early, Test!net>>
  BY DEF Test!fork3, Test!Tests
<1>2. /\ Test!Parent \in Test!Procs /\ Test!Parent \notin TestChildren /\ TestChildren = 1..N
      /\ TestChildren \subseteq Test!Procs
      /\ Test!Stray \in Test!Procs /\ Test!Stray \notin 1..N /\ Test!Stray # Test!Parent
      /\ N \in Nat \ {0} /\ pc \in [Test!Procs -> PCs] /\ i \in {Test!Stray} \cup 1..N
      /\ Test!Stray \in Int
  BY <1>1, ChildrenAre, NumbersAre, NamesDiffer DEF TestInv, TestProcTypes, Techo3
<1>3. i \in Test!Procs /\ i # Test!Parent
  BY <1>2
<1>4. /\ pc' \in [Test!Procs -> PCs] /\ pc'[i] = "run"
      /\ pc'[Test!Parent] = IF i = N THEN "wait" ELSE "fork"
      /\ \A q \in Test!Procs : q # i /\ q # Test!Parent => pc'[q] = pc[q]
  BY <1>1, <1>2, <1>3 DEF PCs
<1>5. i \in 1..N => pc[i] = "none"
  BY <1>1, <1>2 DEF TestInv, Techo3
<1>6. Gone' = Gone /\ TestChildren' = TestChildren
  BY <1>1, <1>2, <1>4, <1>5, GoneSame
<1>7. TestConstants' /\ Test!Conns' = Test!Conns
  BY <1>1 DEF TestInv, TestConstants, Test!Conns
<1>8. /\ i' \in 1..(N + 1)
      /\ (i # N => i' \in 1..N)
      /\ \A c \in 1..N : c >= i' => c # i /\ (i = Test!Stray \/ c >= i)
  <2>1. CASE i = Test!Stray
    BY <1>1, <1>2, <2>1
  <2>2. CASE i \in 1..N
    BY <1>1, <1>2, <2>2
  <2> QED
    BY <1>2, <2>1, <2>2
<1>9. TestProcTypes'
  BY <1>1, <1>4, <1>7, <1>8 DEF TestInv, TestProcTypes
<1>10. TestNetTypes' /\ Flow' /\ BrokenStays' /\ (Test!Broken <=> Test!Broken')
  BY <1>1, NetSame DEF TestInv, TestNetTypes, Test!net
<1>11. Places'
  <2>1. \A q \in TestChildren : pc'[q] \in {"none", "run", "zombie", "gone"}
    BY <1>2, <1>4 DEF TestInv, Places
  <2>2. \A q \in Test!Procs \ (TestChildren \cup {Test!Parent}) :
          pc'[q] = "none" \/ (q = Test!Stray /\ pc'[q] = "run")
    BY <1>2, <1>4 DEF TestInv, Places
  <2>3. sigchld => \E q \in TestChildren : pc'[q] = "zombie"
    <3>1. ASSUME sigchld PROVE \E q \in TestChildren : pc[q] = "zombie"
      BY <3>1 DEF TestInv, Places
    <3>2. \A q \in TestChildren : pc[q] = "zombie" => pc'[q] = "zombie"
      BY <1>2, <1>4, <1>5
    <3> QED
      BY <3>1, <3>2
  <2> QED
    <3>1. program' = "TCPtecho3" /\ pc'[Test!Parent] \in {"fork", "wait"} /\ sigchld' = sigchld
      BY <1>1, <1>4
    <3> QED
      BY <1>6, <2>1, <2>2, <2>3, <3>1 DEF Places
<1>12. Techo1' /\ Techo2' /\ LinesBack'
  BY <1>1, AllConns DEF Techo1, Techo2, LinesBack
<1>13. Techo3'
  <2>1. pc'[Test!Parent] = "fork" => i' \in 1..N /\ \A c \in 1..N : c >= i' => pc'[c] = "none"
    BY <1>1, <1>2, <1>4, <1>8 DEF TestInv, Techo3
  <2>2. \A c \in 1..N : pc'[c] \in {"zombie", "gone"} => pc[c] = pc'[c]
    BY <1>2, <1>4
  <2>3. hcount'[Test!Parent] = N - Cardinality(Gone')
    BY <1>1, <1>6 DEF TestInv, Techo3
  <2> QED
    BY <1>1, <1>2, <1>4, <1>8, <1>10, <2>1, <2>2, <2>3 DEF TestInv, Techo3
<1> QED
  BY <1>7, <1>9, <1>10, <1>11, <1>12, <1>13 DEF TestInv

LEMMA CompleteKeeps ==
  ASSUME TestInv, Test!complete
  PROVE  TestInv'
<1>1. /\ pc[Test!Parent] = "wait" /\ pc' = [pc EXCEPT ![Test!Parent] = "done"]
      /\ hcount[Test!Parent] = 0
      /\ UNCHANGED <<program, server, stray, i, hcount, wc, rc, lines, shut, closed,
                     sigchld, early, Test!net>>
  BY DEF Test!complete, Test!Goto
<1>2. /\ Test!Writer \in Test!Procs /\ Test!Reader \in Test!Procs /\ Test!Parent \in Test!Procs
      /\ Test!Reader # Test!Parent
      /\ Test!Writer # Test!Parent /\ Test!Parent \notin TestChildren
      /\ TestChildren \subseteq Test!Procs
      /\ 1..N \subseteq Test!Procs /\ Test!Parent \notin 1..N /\ N \in Nat \ {0}
      /\ pc \in [Test!Procs -> PCs]
  BY <1>1, ChildrenAre, NumbersAre, NamesDiffer DEF TestInv, TestProcTypes
<1>3. program \in {"TCPtecho2", "TCPtecho3"} /\ program \in Test!Tests
  BY <1>1 DEF TestInv, Places, Test!Tests
<1>4. pc' \in [Test!Procs -> PCs] /\ pc'[Test!Parent] = "done"
      /\ \A q \in Test!Procs : q # Test!Parent => pc'[q] = pc[q]
  BY <1>1, <1>2 DEF PCs
<1>5. Gone' = Gone /\ TestChildren' = TestChildren
  BY <1>1, <1>2, <1>4, GoneSame
<1>6. TestConstants' /\ Test!Conns' = Test!Conns
  BY <1>1 DEF TestInv, TestConstants, Test!Conns
<1>7. TestProcTypes'
  BY <1>1, <1>4, <1>6 DEF TestInv, TestProcTypes
<1>8. TestNetTypes' /\ Flow' /\ BrokenStays' /\ (Test!Broken <=> Test!Broken')
  BY <1>1, NetSame DEF TestInv, TestNetTypes, Test!net
<1>9. Places'
  BY <1>1, <1>2, <1>3, <1>4, <1>5 DEF TestInv, Places
<1>10. Techo1' /\ LinesBack'
  BY <1>1, <1>3, AllConns DEF Techo1, LinesBack
<1>11. /\ TestConstants /\ Cardinality(Gone) \in Nat
       /\ Cardinality(Gone) <= Cardinality(TestChildren)
       /\ (Cardinality(Gone) = Cardinality(TestChildren) => Gone = TestChildren)
       /\ (program = "TCPtecho2"
             => Cardinality(TestChildren) = 2 /\ TestChildren = {Test!Writer, Test!Reader})
       /\ (program = "TCPtecho3" => Cardinality(TestChildren) = N /\ TestChildren = 1..N)
  BY GoneCounts, ChildrenAre DEF TestInv
<1>12. Techo2'
  <2>1. ASSUME program = "TCPtecho2" PROVE ~early /\ Gone = {Test!Writer, Test!Reader}
    <3>1. IF early THEN hcount[Test!Parent] + Cardinality(Gone) >= 3
                   ELSE hcount[Test!Parent] + Cardinality(Gone) = 2
      BY <1>1, <2>1 DEF TestInv, Techo2
    <3>2. ~early /\ Cardinality(Gone) = 2
      BY <1>1, <1>11, <2>1, <3>1
    <3> QED
      BY <1>11, <2>1, <3>2
  <2> QED
    BY <1>1, <1>2, <1>4, <1>5, <1>8, <2>1 DEF TestInv, Techo2
<1>13. Techo3'
  <2>1. ASSUME program = "TCPtecho3" PROVE Gone = 1..N
    <3>1. hcount[Test!Parent] = N - Cardinality(Gone)
      BY <1>1, <2>1 DEF TestInv, Techo3
    <3>2. Cardinality(Gone) = N
      BY <1>1, <1>2, <1>11, <3>1
    <3> QED
      BY <1>11, <2>1, <3>2
  <2> QED
    BY <1>1, <1>2, <1>4, <1>5, <1>8, <2>1 DEF TestInv, Techo3
<1> QED
  BY <1>6, <1>7, <1>8, <1>9, <1>10, <1>12, <1>13 DEF TestInv

LEMMA ReaperKeeps ==
  ASSUME TestInv, Test!reaper
  PROVE  TestInv'
<1> DEFINE Z == {p \in Test!Procs : pc[p] = "zombie"}
<1>1. /\ sigchld /\ Test!Parent \in Test!Live /\ sigchld' = FALSE
      /\ pc' = [p \in Test!Procs |-> IF pc[p] = "zombie" THEN "gone" ELSE pc[p]]
      /\ hcount' = [hcount EXCEPT ![Test!Parent] = @ - Cardinality(Z)]
      /\ early' = (early \/ pc[Test!Parent] \in {"fork2", "set"})
      /\ UNCHANGED <<program, server, stray, i, wc, rc, lines, shut, closed, Test!net>>
  BY CountedAlike DEF Test!reaper
<1>2. /\ Test!Writer \in Test!Procs /\ Test!Reader \in Test!Procs /\ Test!Parent \in Test!Procs
      /\ Test!Reader # Test!Parent
      /\ Test!Writer # Test!Parent /\ Test!Parent \notin TestChildren
      /\ TestChildren \subseteq Test!Procs
      /\ 1..N \subseteq Test!Procs /\ Test!Parent \notin 1..N /\ N \in Nat \ {0}
      /\ pc \in [Test!Procs -> PCs]
      /\ hcount \in [Test!Procs -> Int]
      /\ (program = "TCPtecho2" => TestChildren = {Test!Writer, Test!Reader})
      /\ (program = "TCPtecho3" => TestChildren = 1..N)
      /\ Test!Conns \subseteq 1..N
  <2>1. N \in Nat \ {0} /\ Test!Conns \subseteq 1..N
    BY NumbersAre, ClosedIn
  <2>2. pc \in [Test!Procs -> PCs] /\ hcount \in [Test!Procs -> Int]
    BY DEF TestInv, TestProcTypes
  <2>3. Test!Reader # Test!Parent /\ Test!Writer # Test!Parent /\ Test!Parent \notin 1..N
    BY <2>1 DEF Test!Writer, Test!Reader, Test!Parent
  <2> QED
    BY <2>1, <2>2, <2>3, ChildrenAre DEF TestInv
<1>3. program \in {"TCPtecho2", "TCPtecho3"} /\ program \in Test!Tests
  BY <1>1, ChildrenAre DEF TestInv, Places, Test!Tests
<1>4. pc[Test!Parent] \notin {"none", "zombie", "gone", "done"}
  BY <1>1, <1>2 DEF Test!Live
<1>5. /\ pc' \in [Test!Procs -> PCs] /\ pc'[Test!Parent] = pc[Test!Parent]
      /\ \A q \in Test!Procs : pc'[q] = IF q \in Z THEN "gone" ELSE pc[q]
  BY <1>1, <1>2, <1>4 DEF PCs
<1>6. /\ TestChildren' = TestChildren /\ Z \subseteq TestChildren /\ Gone' = Gone \cup Z
      /\ Gone \cap Z = {} /\ Z # {}
  <2>1. TestChildren' = TestChildren
    BY <1>1 DEF TestChildren
  <2>2. Z \subseteq TestChildren /\ Z # {}
    BY <1>1, <1>2, <1>4 DEF TestInv, Places
  <2> QED
    BY <1>2, <1>5, <2>1, <2>2 DEF Gone
<1>7. /\ Cardinality(Gone') = Cardinality(Gone) + Cardinality(Z)
      /\ Cardinality(Gone) \in Nat /\ Cardinality(Z) \in Nat /\ Cardinality(Z) > 0
      /\ Cardinality(Gone') <= Cardinality(TestChildren)
      /\ (program = "TCPtecho2" => Cardinality(TestChildren) = 2)
      /\ (program = "TCPtecho3" => Cardinality(TestChildren) = N)
  <2>1. /\ IsFiniteSet(TestChildren) /\ IsFiniteSet(Gone) /\ Cardinality(Gone) \in Nat
        /\ (program = "TCPtecho2" => Cardinality(TestChildren) = 2)
        /\ (program = "TCPtecho3" => Cardinality(TestChildren) = N)
    BY GoneCounts DEF TestInv
  <2>2. IsFiniteSet(Z) /\ Cardinality(Z) \in Nat /\ Cardinality(Z) # 0
    BY <1>6, <2>1, FS_Subset, FS_CardinalityType, FS_EmptySet
  <2>3. Cardinality(Gone \cup Z) = Cardinality(Gone) + Cardinality(Z) - Cardinality(Gone \cap Z)
    BY <2>1, <2>2, FS_Union
  <2>4. Cardinality(Gone \cap Z) = 0
    BY <1>6, FS_EmptySet
  <2>5. Gone' \subseteq TestChildren
    BY <1>6 DEF Gone
  <2>6. Cardinality(Gone') <= Cardinality(TestChildren)
    BY <2>1, <2>5, FS_Subset
  <2> QED
    BY <1>6, <2>1, <2>2, <2>3, <2>4, <2>6
<1> DEFINE z == Cardinality(Z)   g == Cardinality(Gone)
<1>8. /\ hcount' \in [Test!Procs -> Int] /\ hcount'[Test!Parent] = hcount[Test!Parent] - z
      /\ \A q \in Test!Procs : q # Test!Parent => hcount'[q] = hcount[q]
  BY <1>1, <1>2, <1>7
<1>9. /\ hcount[Test!Parent] \in Int /\ z \in Nat /\ z > 0 /\ g \in Nat
      /\ Cardinality(Gone') = g + z /\ Gone' # {} /\ Test!Broken' = Test!Broken
  BY <1>1, <1>2, <1>6, <1>7 DEF Test!net, Test!Broken
<1>10. ASSUME program = "TCPtecho2"
       PROVE  /\ g + z <= 2 /\ pc[Test!Parent] # "fork"
              /\ hcount'[Test!Parent] \in (IF N < 2 THEN -1..2 ELSE 0..N)
  <2>1. g + z <= 2
    BY <1>7, <1>9, <1>10
  <2>2. pc[Test!Parent] # "fork"
    BY <1>2, <1>6, <1>10 DEF TestInv, Techo2
  <2>3. pc[Test!Parent] \in {"fork2", "set", "wait"}
    BY <1>4, <1>10, <2>2 DEF TestInv, Places
  <2>4. CASE pc[Test!Parent] \in {"fork2", "set"}
    <3>1. hcount[Test!Parent] = N - g
      BY <1>10, <2>4 DEF TestInv, Techo2
    <3>2. hcount'[Test!Parent] = N - (g + z)
      BY <1>2, <1>8, <1>9, <3>1
    <3> QED
      BY <1>2, <1>9, <2>1, <2>2, <3>2
  <2>5. CASE pc[Test!Parent] = "wait"
    <3>1. hcount[Test!Parent] + g >= 2
      BY <1>9, <1>10, <2>5 DEF TestInv, Techo2
    <3>2. hcount'[Test!Parent] >= 0 /\ hcount'[Test!Parent] <= hcount[Test!Parent]
      BY <1>8, <1>9, <2>1, <3>1
    <3>3. hcount[Test!Parent] \in (IF N < 2 THEN -1..2 ELSE 0..N)
      BY DEF TestInv, TestProcTypes
    <3> QED
      BY <1>2, <1>8, <1>9, <2>1, <2>2, <3>2, <3>3
  <2> QED
    BY <2>3, <2>4, <2>5
<1>11. ASSUME program = "TCPtecho3"
       PROVE  /\ hcount'[Test!Parent] = N - (g + z)
              /\ hcount'[Test!Parent] \in (IF N < 2 THEN -1..2 ELSE 0..N)
  <2>1. pc[Test!Parent] \in {"fork", "wait"}
    BY <1>4, <1>11 DEF TestInv, Places
  <2>2. hcount[Test!Parent] = N - g
    BY <1>11, <2>1 DEF TestInv, Techo3
  <2>3. g + z <= N
    BY <1>7, <1>9, <1>11
  <2> QED
    BY <1>2, <1>8, <1>9, <2>2, <2>3
<1> HIDE DEF Z, z, g
<1>12. TestConstants' /\ Test!Conns' = Test!Conns
  BY <1>1 DEF TestInv, TestConstants, Test!Conns
<1>13. TestProcTypes'
  <2>1. hcount'[Test!Parent] \in (IF N < 2 THEN -1..2 ELSE 0..N)
    BY <1>3, <1>10, <1>11
  <2> QED
    <3>1. early' \in BOOLEAN /\ sigchld' \in BOOLEAN
      BY <1>1 DEF TestInv, TestProcTypes
    <3>2. \A q \in Test!Procs : q # Test!Parent => hcount'[q] \in 0..N
      BY <1>8 DEF TestInv, TestProcTypes
    <3> QED
      BY <1>1, <1>5, <1>8, <1>12, <2>1, <3>1, <3>2 DEF TestInv, TestProcTypes
<1>14. TestNetTypes' /\ Flow' /\ BrokenStays'
  BY <1>1, NetSame DEF TestInv, TestNetTypes, Test!net
<1>15. Places'
  <2>1. \A q \in TestChildren : pc'[q] \in {"none", "run", "zombie", "gone"}
    BY <1>2, <1>5 DEF TestInv, Places
  <2>2. \A q \in Test!Procs \ (TestChildren \cup {Test!Parent}) :
          pc'[q] = "none" \/ (q = Test!Stray /\ program = "TCPtecho3" /\ pc'[q] = "run")
    BY <1>5, <1>6 DEF TestInv, Places
  <2> QED
    BY <1>1, <1>5, <1>6, <2>1, <2>2 DEF TestInv, Places
<1>16. Techo1' /\ LinesBack'
  BY <1>1, <1>3, AllConns DEF Techo1, LinesBack
<1>17. \A q \in Test!Procs : /\ pc'[q] = "none" <=> pc[q] = "none"
                             /\ pc'[q] \in {"zombie", "gone"} <=> pc[q] \in {"zombie", "gone"}
  BY <1>5 DEF Z
<1>18. Techo2'
  <2>1. ASSUME program = "TCPtecho2", pc[Test!Parent] \in {"fork2", "set"}
        PROVE  hcount'[Test!Parent] = N - Cardinality(Gone') /\ early'
    <3>1. hcount[Test!Parent] = N - g
      BY <2>1 DEF TestInv, Techo2, g
    <3>2. hcount'[Test!Parent] = N - (g + z)
      BY <1>2, <1>8, <1>9, <3>1
    <3> QED
      BY <1>1, <1>9, <2>1, <3>2
  <2>2. ASSUME program = "TCPtecho2", pc[Test!Parent] = "wait"
        PROVE  IF early' THEN hcount'[Test!Parent] + Cardinality(Gone') >= 3
                         ELSE hcount'[Test!Parent] + Cardinality(Gone') = 2
    <3>1. early' = early
      BY <1>1, <2>2 DEF TestInv, TestProcTypes
    <3>2. IF early THEN hcount[Test!Parent] + g >= 3 ELSE hcount[Test!Parent] + g = 2
      BY <2>2 DEF TestInv, Techo2, g
    <3>3. hcount'[Test!Parent] + Cardinality(Gone') = hcount[Test!Parent] + g
      BY <1>8, <1>9
    <3> QED
      BY <3>1, <3>2, <3>3
  <2>3. ASSUME program = "TCPtecho2"
        PROVE  /\ pc'[Test!Reader] = "none" => closed[Test!Reader] = {}
               /\ pc'[Test!Reader] # "none" /\ ~early'
                    => hcount'[Test!Reader] + Cardinality(closed[Test!Reader]) = N
               /\ pc'[Test!Reader] \in {"zombie", "gone"} /\ ~Test!Broken
                    => hcount'[Test!Reader] = 0
               /\ \A c \in closed[Test!Reader] : rc[c] = 0
               /\ pc'[Test!Parent] = "fork2" => pc'[Test!Reader] = "none"
    BY <1>1, <1>2, <1>5, <1>8, <1>17, <2>3 DEF TestInv, Techo2
  <2> QED
    BY <1>1, <1>4, <1>5, <1>9, <1>10, <2>1, <2>2, <2>3 DEF Techo2
<1>19. Techo3'
  <2>1. ASSUME program = "TCPtecho3"
        PROVE  \A c \in 1..N : /\ pc'[c] = "none" <=> pc[c] = "none"
                               /\ pc'[c] \in {"zombie", "gone"} /\ ~Test!Broken => rc[c] = 0
    BY <1>2, <1>17, <2>1 DEF TestInv, Techo3
  <2> QED
    BY <1>1, <1>4, <1>5, <1>9, <1>11, <2>1 DEF TestInv, Techo3
<1> QED
  BY <1>12, <1>13, <1>14, <1>15, <1>16, <1>18, <1>19 DEF TestInv
-----------------------------------------------------------------------------
(* The clients of chapter 7. *)

LEMMA LinerIs ==
  ASSUME TestInv, program \in Test!Liners
  PROVE  /\ Test!Conns = {1} /\ 1 \in 1..N /\ TestChildren = {} /\ Test!Parent \in Test!Procs
         /\ program \notin {"TCPtecho", "TCPtecho2", "TCPtecho3"} /\ program \notin Test!Tests
BY ChildrenAre, NumbersAre DEF TestInv, Test!Conns, Test!Tests, Test!Liners

\* A liner's step: what it leaves as it is.
LEMMA LinerKeeps ==
  ASSUME TestInv, program \in Test!Liners, TestNetTypes', Flow', BrokenStays',
         UNCHANGED <<program, server, stray, i, hcount, wc, closed, sigchld, early>>,
         pc' \in {pc, [pc EXCEPT ![Test!Parent] = "done"]}, pc[Test!Parent] = "run",
         rc' \in [1..N -> 0..MostRC], lines' \in 0..LINES, shut' \subseteq {1},
         pc' # pc => lines' = 0 /\ rc'[1] = 0
  PROVE  TestInv'
<1>1. /\ Test!Conns = {1} /\ TestChildren = {} /\ Test!Parent \in Test!Procs
      /\ pc \in [Test!Procs -> PCs]
      /\ program \notin {"TCPtecho", "TCPtecho2", "TCPtecho3"}
  BY LinerIs DEF TestInv, TestProcTypes
<1>2. TestConstants' /\ Test!Conns' = Test!Conns /\ TestChildren' = TestChildren
  BY DEF TestInv, TestConstants, Test!Conns, TestChildren
<1>3. /\ pc' \in [Test!Procs -> PCs] /\ pc'[Test!Parent] \in {"run", "done"}
      /\ \A q \in Test!Procs : q # Test!Parent => pc'[q] = pc[q]
  BY <1>1 DEF PCs
<1>4. TestProcTypes'
  BY <1>1, <1>2, <1>3 DEF TestInv, TestProcTypes
<1>5. Places'
  BY <1>1, <1>2, <1>3 DEF TestInv, Places
<1>6. Techo1' /\ Techo2' /\ Techo3'
  BY <1>1 DEF Techo1, Techo2, Techo3
<1>7. pc'[Test!Parent] = "done" => lines' = 0 /\ rc'[1] = 0
  BY <1>1
<1>8. LinesBack'
  BY <1>7 DEF TestInv, LinesBack
<1> QED
  BY <1>2, <1>4, <1>5, <1>6, <1>8 DEF TestInv

LEMMA SendLineKeeps ==
  ASSUME TestInv, Test!send_line
  PROVE  TestInv'
<1> DEFINE k == Test!Least(Test!LineLen, CAP - inq[1])
<1>1. /\ program \in Test!Liners /\ pc[Test!Parent] = "run" /\ rc[1] = 0 /\ lines > 0 /\ k > 0
      /\ inq' = [inq EXCEPT ![1] = @ + k] /\ rc' = [rc EXCEPT ![1] = Test!LineLen]
      /\ lines' = lines - 1
      /\ UNCHANGED <<program, server, stray, pc, i, hcount, wc, shut, closed, sigchld, early,
                     outq, hand, sv, faults>>
  BY DEF Test!send_line
<1>2. /\ 1 \in 1..N /\ Test!Conns = {1} /\ program \notin Test!Tests /\ CAP \in Nat \ {0}
      /\ CCOUNT \in Nat
      /\ MostRC \in Nat /\ MostRC >= CAP + 1
  BY <1>1, LinerIs, NumbersAre DEF MostRC
<1>3. Test!LineLen \in 1..(CAP + 1) /\ Test!LineLen \in Int
  BY <1>2 DEF Test!LineLen
<1>4. /\ wc[1] = 0 /\ inq[1] = 0 /\ hand[1] = 0 /\ outq[1] = 0
  <2>1. wc[1] + inq[1] + hand[1] + outq[1] <= rc[1]
    BY <1>2 DEF TestInv, Flow
  <2>2. wc[1] \in Nat /\ inq[1] \in Nat /\ hand[1] \in Nat /\ outq[1] \in Nat
    BY <1>2, NumbersAre
  <2>3. rc[1] = 0
    BY <1>1
  <2> HIDE DEF k
  <2> QED
    BY <2>1, <2>2, <2>3
<1>5. k \in 0..CAP /\ k <= Test!LineLen /\ 0 + k = k
  <2>1. CAP - inq[1] \in Int /\ CAP - inq[1] = CAP
    BY <1>2, <1>4
  <2>2. k \in Int /\ k <= Test!LineLen /\ k <= CAP
    BY <1>3, <2>1, LeastIs
  <2> QED
    BY <1>1, <1>2, <2>2
<1> HIDE DEF k
<1>6. /\ inq' \in [1..N -> 0..CAP] /\ inq'[1] = k /\ \A b \in 1..N : b # 1 => inq'[b] = inq[b]
      /\ rc' \in [1..N -> 0..MostRC] /\ rc'[1] = Test!LineLen
      /\ \A b \in 1..N : b # 1 => rc'[b] = rc[b]
  <2>1. inq \in [1..N -> 0..CAP] /\ rc \in [1..N -> 0..MostRC] /\ Test!LineLen \in 0..MostRC
    BY <1>2, <1>3 DEF TestInv, TestNetTypes, TestProcTypes
  <2>2. inq' = [inq EXCEPT ![1] = k]
    BY <1>1, <1>2, <1>4, <1>5, <2>1
  <2> QED
    BY <1>1, <1>2, <1>5, <2>1, <2>2
<1>7. TestNetTypes' /\ BrokenStays'
  BY <1>1, <1>6 DEF TestInv, TestNetTypes, BrokenStays, Test!Broken
<1>8. \A b \in 1..N : wc[b] + inq'[b] + hand[b] + outq[b] <= rc'[b]
  <2>1. \A b \in 1..N : wc[b] + inq[b] + hand[b] + outq[b] <= rc[b]
    BY DEF TestInv, Flow
  <2>2. \A b \in 1..N : b # 1 => wc[b] + inq'[b] + hand[b] + outq[b] <= rc'[b]
    BY <1>6, <2>1
  <2> QED
    BY <1>3, <1>4, <1>5, <1>6, <2>2
<1>9. Flow'
  BY <1>1, <1>2, <1>8 DEF TestInv, Flow
<1>10. lines' \in 0..LINES /\ shut' \subseteq {1}
  BY <1>1, <1>2, NumbersAre DEF TestInv, TestProcTypes
<1> QED
  BY <1>1, <1>6, <1>7, <1>9, <1>10, LinerKeeps

LEMMA LineStepKeeps ==
  ASSUME TestInv, Test!LineStep
  PROVE  TestInv'
<1>1. CASE Test!send_line
  BY <1>1, SendLineKeeps
<1>2. CASE Test!bye
  <2>1. /\ program \in Test!Liners /\ pc[Test!Parent] = "run" /\ shut' = {1}
        /\ UNCHANGED <<program, server, stray, pc, i, hcount, wc, rc, lines, closed, sigchld,
                       early, Test!net>>
    BY <1>2 DEF Test!bye, Test!Liners
  <2>2. TestNetTypes' /\ Flow' /\ BrokenStays'
    BY <2>1, NetSame DEF TestInv, TestNetTypes, Test!net
  <2> QED
    BY <2>1, <2>2, LinerKeeps DEF TestInv, TestProcTypes
<1>3. CASE Test!read_line
  <2>1. /\ program \in Test!Liners /\ pc[Test!Parent] = "run" /\ Test!Recv(1)
        /\ UNCHANGED <<program, server, stray, pc, i, hcount, wc, lines, shut, closed,
                       sigchld, early>>
    BY <1>3 DEF Test!read_line
  <2>2. 1 \in 1..N /\ Test!Conns = {1}
    BY <2>1, LinerIs
  <2>3. TestNetTypes' /\ Flow' /\ BrokenStays' /\ rc' \in [1..N -> 0..MostRC]
    BY <2>1, <2>2, RecvKeeps
  <2> QED
    BY <2>1, <2>2, <2>3, LinerKeeps DEF TestInv, TestProcTypes
<1>4. CASE Test!close
  <2>1. /\ program \in Test!Liners /\ pc[Test!Parent] = "run"
        /\ pc' = [pc EXCEPT ![Test!Parent] = "done"]
        /\ lines = 0 /\ rc[1] = 0
        /\ UNCHANGED <<program, server, stray, i, hcount, wc, rc, lines, shut, closed, sigchld,
                       early, Test!net>>
    BY <1>4 DEF Test!close, Test!Goto
  <2>2. TestNetTypes' /\ Flow' /\ BrokenStays' /\ Test!Conns = {1}
    BY <2>1, NetSame, LinerIs DEF TestInv, TestNetTypes, Test!net
  <2> QED
    BY <2>1, <2>2, LinerKeeps DEF TestInv, TestProcTypes
<1>5. CASE Test!open
  <2>1. /\ program \in Test!Liners /\ pc[Test!Parent] = "run" /\ lines' = LINES
        /\ UNCHANGED <<program, server, stray, pc, i, hcount, wc, rc, shut, closed, sigchld,
                       early, Test!net>>
    BY <1>5 DEF Test!open, Test!Liners
  <2>2. /\ Test!Conns = {1} /\ program \notin Test!Tests /\ LINES \in Nat
        /\ \A c \in 1..N : wc[c] = 0
    BY <2>1, LinerIs, NumbersAre DEF TestInv, Flow
  <2>3. TestNetTypes' /\ BrokenStays'
    BY <2>1 DEF TestInv, TestNetTypes, BrokenStays, Test!Broken, Test!net
  <2>4. Flow'
    BY <2>1, <2>2 DEF TestInv, Flow, Test!net
  <2>5. lines' \in 0..LINES
    BY <2>1, <2>2
  <2> QED
    BY <2>1, <2>2, <2>3, <2>4, <2>5, LinerKeeps DEF TestInv, TestProcTypes
<1> QED
  BY <1>1, <1>2, <1>3, <1>4, <1>5 DEF Test!LineStep
-----------------------------------------------------------------------------
(* The invariant, and what follows from it. *)

LEMMA TestInitInv ==
  ASSUME TestConstants, Test!Init
  PROVE  TestInv
<1>1. /\ N \in Nat \ {0} /\ CCOUNT \in Nat /\ CAP \in Nat /\ BUFSIZE \in Nat /\ Faults \in Nat
      /\ LINES \in Nat /\ MostRC \in Nat /\ MostRC >= CCOUNT
  BY DEF TestConstants, MostRC
<1>2. /\ Test!Count \in 0..CCOUNT /\ Test!Count \in 0..MostRC
      /\ (program \notin Test!Tests => Test!Count = 0)
  BY <1>1 DEF Test!Count
<1>3. /\ program \in Test!Tests => Test!Conns = 1..N /\ Cardinality(Test!Conns) = N
      /\ program \notin Test!Tests => Test!Conns = {1} /\ Cardinality(Test!Conns) = 1
      /\ Test!Conns \subseteq 1..N
  <2>1. Cardinality(1..N) = N
    BY <1>1, FS_Interval
  <2>2. Cardinality({1}) = 1
    BY FS_Singleton
  <2> QED
    BY <1>1, <2>1, <2>2 DEF Test!Conns
<1>4. /\ Test!Parent \in Test!Procs /\ Test!Parent \notin TestChildren
      /\ TestChildren \subseteq Test!Procs /\ Test!Reader \in Test!Procs
      /\ Test!Writer \in Test!Procs /\ Test!Reader # Test!Parent /\ Test!Writer # Test!Parent
      /\ 1..N \subseteq Test!Procs
      /\ Test!Parent \notin 1..N
  BY <1>1, ChildrenAre DEF Test!Parent, Test!Reader, Test!Writer
<1>5. pc = [p \in Test!Procs |-> IF p # Test!Parent THEN "none"
                            ELSE IF program \in {"TCPtecho2", "TCPtecho3"} THEN "fork" ELSE "run"]
  BY DEF Test!Init
<1>6. /\ pc \in [Test!Procs -> PCs] /\ \A p \in Test!Procs : p # Test!Parent => pc[p] = "none"
      /\ pc[Test!Parent] = IF program \in {"TCPtecho2", "TCPtecho3"} THEN "fork" ELSE "run"
  BY <1>4, <1>5 DEF PCs
<1>7. Gone = {} /\ Cardinality(Gone) = 0
  <2>1. Gone = {}
    BY <1>4, <1>6 DEF Gone
  <2> QED
    BY <2>1, FS_EmptySet
<1>8. /\ hcount \in [Test!Procs -> Int]
      /\ \A p \in Test!Procs : hcount[p] = Cardinality(Test!Conns)
      /\ Cardinality(Test!Conns) \in 1..N
  BY <1>1, <1>3, CountedAlike DEF Test!Init
<1>9. TestProcTypes
  <2>1. /\ program \in Test!Tests \cup Test!Liners /\ server \in Test!Servers /\ stray \in BOOLEAN
        /\ lines \in 0..LINES /\ shut \subseteq Test!Conns
        /\ closed \in [Test!Procs -> SUBSET Test!Conns]
        /\ sigchld \in BOOLEAN /\ early \in BOOLEAN
    <3>1. /\ program \in Test!Tests \cup Test!Liners /\ server \in Test!Servers
          /\ stray \in BOOLEAN
          /\ (lines = LINES \/ lines = 0) /\ shut = {}
          /\ closed = [p \in Test!Procs |-> {}]
          /\ sigchld = FALSE /\ early = FALSE
      BY DEF Test!Init
    <3>2. [p \in Test!Procs |-> {}] \in [Test!Procs -> SUBSET Test!Conns]
      OBVIOUS
    <3>3. shut \subseteq Test!Conns /\ sigchld \in BOOLEAN /\ early \in BOOLEAN
      BY <3>1
    <3>4. lines \in 0..LINES
      BY <1>1, <3>1
    <3> QED
      BY <3>1, <3>2, <3>3, <3>4
  <2>2. i \in {Test!Stray} \cup (1..(N + 1))
    BY <1>1 DEF Test!Init
  <2>3. wc \in [1..N -> 0..CCOUNT] /\ rc \in [1..N -> 0..MostRC]
    BY <1>2 DEF Test!Init
  <2>4. (\A p \in Test!Procs : p # Test!Parent => hcount[p] \in 0..N)
        /\ hcount[Test!Parent] \in (IF N < 2 THEN -1..2 ELSE 0..N)
    BY <1>1, <1>4, <1>8
  <2> QED
    BY <1>6, <1>8, <2>1, <2>2, <2>3, <2>4 DEF TestProcTypes
<1>10. TestNetTypes /\ BrokenStays
  <2>1. /\ inq = [c \in 1..N |-> 0] /\ outq = [c \in 1..N |-> 0] /\ hand = [c \in 1..N |-> 0]
        /\ sv = [c \in 1..N |-> IF c \in Test!Conns THEN "queued" ELSE "closed"]
        /\ faults = Faults
    BY DEF Test!Init
  <2> QED
    BY <1>1, <2>1 DEF TestNetTypes, BrokenStays, Test!Broken, SVs
<1>11. Flow
  <2>1. \A c \in 1..N : /\ wc[c] = Test!Count /\ rc[c] = Test!Count /\ inq[c] = 0 /\ outq[c] = 0
                        /\ hand[c] = 0
    BY DEF Test!Init
  <2>2. \A c \in 1..N : wc[c] + inq[c] + hand[c] + outq[c] <= rc[c]
    BY <1>2, <2>1
  <2>3. program \in Test!Tests => lines = LINES
    BY DEF Test!Init, Test!Tests
  <2> QED
    BY <1>2, <2>1, <2>2, <2>3 DEF Flow
<1>12. Places
  <2>1. ~sigchld
    BY DEF Test!Init
  <2> QED
    BY <1>4, <1>6, <2>1 DEF Places
<1>13. closed = [p \in Test!Procs |-> {}] /\ early = FALSE
  BY DEF Test!Init
<1>14. Techo1
  <2>1. Test!Conns \ closed[Test!Parent] = Test!Conns
    BY <1>4, <1>13
  <2> QED
    BY <1>4, <1>6, <1>8, <1>13, <2>1 DEF Techo1
<1>15. Techo2
  <2>1. ASSUME program = "TCPtecho2" PROVE hcount[Test!Parent] = N - Cardinality(Gone)
    BY <1>1, <1>3, <1>4, <1>7, <1>8, <2>1 DEF Test!Tests
  <2> QED
    BY <1>4, <1>6, <1>7, <1>13, <2>1 DEF Techo2
<1>16. Techo3
  <2>1. ASSUME program = "TCPtecho3" PROVE hcount[Test!Parent] = N - Cardinality(Gone)
    BY <1>1, <1>3, <1>4, <1>7, <1>8, <2>1 DEF Test!Tests
  <2>2. i \in {Test!Stray} \cup 1..N
    BY <1>1 DEF Test!Init
  <2> QED
    BY <1>4, <1>6, <2>1, <2>2 DEF Techo3
<1>17. LinesBack
  BY <1>3, <1>6, <1>8 DEF LinesBack, Test!Liners, Test!Tests
<1> QED
  BY <1>9, <1>10, <1>11, <1>12, <1>14, <1>15, <1>16, <1>17 DEF TestInv

LEMMA TestNextInv ==
  ASSUME TestInv, [Test!Next]_(Test!vars)
  PROVE  TestInv'
<1>1. ASSUME NEW c \in 1..N, Test!ServerStep(c) \/ Test!breaks(c) PROVE TestInv'
  BY <1>1, AcceptKeeps, ReadKeeps, WriteKeeps, WriteFailsKeeps, ReadEofKeeps, BreaksKeeps
     DEF Test!ServerStep
<1>2. CASE Test!WriterStep
  BY <1>2, WriterKeeps, OutputSlaveKeeps DEF Test!WriterStep
<1>3. CASE Test!ReaderStep
  BY <1>3, ReaderKeeps, InputSlaveKeeps, ChildReaderKeeps DEF Test!ReaderStep
<1>4. CASE Test!LineStep
  BY <1>4, LineStepKeeps
<1>5. CASE Test!ParentStep
  BY <1>5, Fork3Keeps, SetKeeps, CompleteKeeps, Fork2Keeps, SlaveEndsKeeps DEF Test!ParentStep
<1>6. CASE Test!reaper \/ Test!fork_fails
  BY <1>6, ReaperKeeps, ForkFailsKeeps
<1>7. ASSUME NEW p \in Test!Procs, Test!fails(p) PROVE TestInv'
  BY <1>7, FailsKeeps
<1>8. CASE UNCHANGED Test!vars
  <2>1. Test!Broken' = Test!Broken /\ TestNetTypes' /\ Flow' /\ BrokenStays'
    BY <1>8 DEF Test!vars, TestInv, TestNetTypes, Flow, BrokenStays, Test!Broken
  <2> QED
    BY <1>8, <2>1, NetKeeps DEF Test!vars, Test!procs
<1> QED
  BY <1>1, <1>2, <1>3, <1>4, <1>5, <1>6, <1>7, <1>8 DEF Test!Next

LEMMA InvTypes ==
  ASSUME TestInv
  PROVE  Test!TypeOK
<1>1. \A p \in Test!Procs : hcount[p] \in (IF p = Test!Parent /\ N < 2 THEN -1..2 ELSE 0..N)
  BY DEF TestInv, TestProcTypes
<1>2. \A c \in 1..N : wc[c] \in 0..CCOUNT /\ rc[c] \in 0..(IF CCOUNT > CAP THEN CCOUNT ELSE CAP + 1)
  BY DEF TestInv, TestProcTypes, MostRC
<1>3. \A c \in 1..N : /\ inq[c] \in 0..CAP /\ outq[c] \in 0..CAP /\ hand[c] \in 0..BUFSIZE
                      /\ sv[c] \in {"queued", "read", "write", "closed", "broken"}
                      /\ sv[c] = "write" => hand[c] > 0
  BY DEF TestInv, TestNetTypes, SVs
<1> QED
  BY <1>1, <1>2, <1>3 DEF Test!TypeOK, TestInv, TestProcTypes, TestNetTypes, PCs

\* A connection of which everything was read has nothing left to send.
LEMMA ReadIsSent ==
  ASSUME TestInv, NEW c \in 1..N, rc[c] = 0
  PROVE  wc[c] = 0
<1> DEFINE rest == inq[c] + hand[c] + outq[c]
<1>1. wc[c] \in Nat /\ inq[c] \in Nat /\ hand[c] \in Nat /\ outq[c] \in Nat
  BY NumbersAre
<1>2. rest \in Nat
  BY <1>1
<1>3. wc[c] + inq[c] + hand[c] + outq[c] <= rc[c]
  BY DEF TestInv, Flow
<1>4. wc[c] + rest <= 0
  BY <1>1, <1>3
<1> HIDE DEF rest
<1> QED
  BY <1>1, <1>2, <1>4

LEMMA InvComplete ==
  ASSUME TestInv
  PROVE  Test!Complete
<1> SUFFICES ASSUME pc[Test!Parent] = "done", ~Test!Broken
             PROVE  \A c \in Test!Conns : wc[c] = 0 /\ rc[c] = 0 /\ lines \in {0, LINES}
  BY DEF Test!Complete
<1>1. /\ Test!Conns \subseteq 1..N /\ Test!Parent \in Test!Procs /\ Test!Reader \in Test!Procs
      /\ N \in Nat
      /\ closed[Test!Parent] \subseteq Test!Conns /\ closed[Test!Reader] \subseteq Test!Conns
      /\ hcount[Test!Parent] \in Int /\ hcount[Test!Reader] \in Int
  BY ClosedIn, ChildrenAre, NumbersAre DEF TestInv, TestProcTypes
<1>2. program \in Test!Tests => Test!Conns = 1..N /\ lines = LINES
  BY AllConns DEF TestInv, Flow
<1>3. IsFiniteSet(1..N) /\ Cardinality(1..N) = N
  BY <1>1, FS_Interval
<1>4. CASE program = "TCPtecho"
  <2>1. Cardinality(Test!Conns \ closed[Test!Parent]) = 0 /\ program \in Test!Tests
    BY <1>4 DEF TestInv, Techo1, Test!Tests
  <2>2. IsFiniteSet(Test!Conns \ closed[Test!Parent])
    BY <1>1, <1>3, FS_Subset
  <2>3. Test!Conns \ closed[Test!Parent] = {}
    BY <2>1, <2>2, FS_EmptySet
  <2>4. \A c \in Test!Conns : rc[c] = 0
    BY <1>4, <2>3 DEF TestInv, Techo1
  <2> QED
    BY <1>1, <1>2, <2>1, <2>4, ReadIsSent
<1>5. CASE program = "TCPtecho2"
  <2>1. /\ ~early /\ Gone = {Test!Writer, Test!Reader} /\ program \in Test!Tests
        /\ \A c \in closed[Test!Reader] : rc[c] = 0
    BY <1>5 DEF TestInv, Techo2, Test!Tests
  <2>2. pc[Test!Reader] = "gone"
    BY <2>1 DEF Gone
  <2>3. Cardinality(closed[Test!Reader]) = N
    <3>1. hcount[Test!Reader] = 0 /\ hcount[Test!Reader] + Cardinality(closed[Test!Reader]) = N
      BY <1>5, <2>1, <2>2 DEF TestInv, Techo2
    <3>2. IsFiniteSet(closed[Test!Reader])
      BY <1>1, <1>3, FS_Subset
    <3>3. Cardinality(closed[Test!Reader]) \in Nat
      BY <3>2, FS_CardinalityType
    <3> QED
      BY <3>1, <3>3
  <2>4. closed[Test!Reader] = 1..N
    BY <1>1, <1>2, <1>3, <2>1, <2>3, FS_Subset
  <2> QED
    BY <1>2, <2>1, <2>4, ReadIsSent
<1>6. CASE program = "TCPtecho3"
  <2>1. Gone = 1..N /\ program \in Test!Tests
    BY <1>6 DEF TestInv, Techo3, Test!Tests
  <2>2. \A c \in 1..N : pc[c] = "gone"
    BY <2>1 DEF Gone
  <2>3. \A c \in 1..N : rc[c] = 0
    BY <1>6, <2>2 DEF TestInv, Techo3
  <2> QED
    BY <1>2, <2>1, <2>3, ReadIsSent
<1>7. CASE program \in Test!Liners
  <2>1. lines = 0 /\ rc[1] = 0 /\ Test!Conns = {1} /\ 1 \in 1..N
    BY <1>7, LinerIs DEF TestInv, LinesBack
  <2> QED
    BY <2>1, ReadIsSent
<1> QED
  BY <1>4, <1>5, <1>6, <1>7 DEF TestInv, TestProcTypes, Test!Tests

\* A test that says it is complete is: "Tests complete" is printed, and a client of
\* chapter 7 ends, only when everything was sent and has come back, unless a connection
\* broke; however the ends of the children and the signals about them interleave.
THEOREM TestsComplete ==
  ASSUME TestConstants
  PROVE  Test!Spec => []Test!CompleteInv
<1>1. TestConstants
  OBVIOUS
<1>2. Test!Init => TestInv
  BY <1>1, TestInitInv
<1>3. TestInv /\ [Test!Next]_(Test!vars) => TestInv'
  BY TestNextInv
<1>4. TestInv => Test!CompleteInv
  BY InvTypes, InvComplete DEF Test!CompleteInv
<1> QED
  BY <1>2, <1>3, <1>4, PTL DEF Test!Spec
=============================================================================
