------------------------ MODULE DelayedAllocShmProofs ------------------------
(***************************************************************************)
(* Proofs about DelayedAllocShm, for any number of slaves and clients, any *)
(* limit and any number of faults.  Two inductive invariants: Hand says    *)
(* who serves a client and what becomes of its messages, and Tally says    *)
(* what the frames of the signal handlers leave of the shared count.  At   *)
(* the end, proofs about DelayedAlloc, the servers without a count, with   *)
(* an invariant of their own, AllocInv.                                    *)
(***************************************************************************)
EXTENDS DelayedAllocShm, SequenceTheorems, FiniteSetTheorems, TLAPS

MasterAt == {"accept", "arm", "read", "write", "close", "zero", "disarm", "jumped", "dead"}
SlaveAt  == {"none", "handler", "read", "write", "close", "zero", "limit", "check", "select",
             "accept", "zombie"}
Resumes  == {"read", "write", "close", "zero", "limit", "write_eintr"}

\* The types of the variables but the object's; the bounds that follow from Accounts are
\* left out.
Types == /\ pc \in [Procs -> Labels] /\ resume \in [Slaves -> Labels \cup {"write_eintr"}]
         /\ rpc \in [Procs -> {"none", "wait3", "update", "eintr"}]
         /\ ssock \in [Procs -> Clients \cup {None}] /\ fds \in [Procs -> SUBSET Clients]
         /\ buf \in [Procs -> Nat] /\ armed \in BOOLEAN /\ sigchld \in BOOLEAN
         /\ kept \subseteq Slaves /\ faults \in 0..Faults

NetTypes == /\ backlog \in Seq(Clients) /\ Len(backlog) <= QLEN + 1
            /\ conn \in [Clients -> {"new", "open", "fin", "rst"}]
            /\ inq \in [Clients -> Nat] /\ sent \in [Clients -> 0..MaxSent]
            /\ echoed \in [Clients -> Nat]

\* What the master and a slave can be at, and the master when its alarm is set.
Places == /\ pc[Master] \in MasterAt
          /\ \A s \in Slaves : /\ pc[s] \in SlaveAt
                               /\ pc[s] = "handler" => resume[s] \in Resumes
          /\ armed => pc[Master] \in {"read", "write", "close", "zero", "disarm"}

\* Where p's server loop is, below a handler that has not returned yet.
Where(p) == IF pc[p] # "handler" THEN pc[p]
            ELSE IF resume[p] = "write_eintr" THEN "write" ELSE resume[p]

\* A process has a descriptor of the client it is at and of no other, and messages
\* when it is to write them.  After the jump the master's ssock is what it was.
Serving == {"arm", "read", "write", "close"}
Tidy == \A p \in Procs :
          /\ Where(p) \in Serving => ssock[p] \in Clients /\ fds[p] = {ssock[p]}
          /\ Where(p) = "jumped" => fds[p] \subseteq {ssock[p]}
          /\ Where(p) \notin Serving \cup {"jumped"} => fds[p] = {}
          /\ buf[p] > 0 <=> Where(p) = "write"

\* A connection waits once, and nobody has a descriptor of it before it is accepted.
Fresh == /\ \A c \in Clients, p \in Procs : conn[c] = "new" => c \notin fds[p]
         /\ \A i \in 1..Len(backlog), p \in Procs : backlog[i] \notin fds[p]
         /\ \A i \in 1..Len(backlog) : conn[backlog[i]] # "new"
         /\ \A i, j \in 1..Len(backlog) : backlog[i] = backlog[j] => i = j

\* A client is served by one process.
Alone == \A p, q \in Procs : Where(p) \in Serving /\ Where(q) \in Serving
                             /\ ssock[p] = ssock[q] => p = q

\* The messages of c, n of them with the process that serves it: a process that ends
\* loses them, nobody doubles them.
Within(c, n) == inq[c] + n + echoed[c] <= sent[c]
Accounts == /\ \A c \in Clients : Within(c, 0)
            /\ \A p \in Procs : Where(p) = "write" => Within(ssock[p], buf[p])

Hand == Types /\ NetTypes /\ Places /\ Tidy /\ Fresh /\ Alone /\ Accounts

Obj == INSTANCE GlbShmProofs WITH Callers <- Frames, Args <- {},
                                  Failures <- TRUE, Window <- 0

\* What a process is in the object for: its body counts itself in or asks for the count,
\* its reaper counts a slave off.  Only a master that died left a frame in the section.
FrameOk(p) ==
  /\ gpc[Body(p)] # "idle" => pc[p] \in {"handler", "check"}
  /\ pc[p] = "handler" => op[Body(p)].kind = "inc"
  /\ pc[p] = "check" => op[Body(p)].kind = "read"
  /\ pc[p] \in {"none", "zombie", "dead"} => rpc[p] = "none"
  /\ rpc[p] \in {"none", "wait3"} => gpc[Reaper(p)] \in {"idle", "died"}
  /\ rpc[p] = "update" => op[Reaper(p)].kind = "dec"
  /\ rpc[p] = "eintr" => pc[p] = "handler" /\ gpc[Reaper(p)] = "wait"
  /\ pc[p] = "handler" /\ resume[p] = "write_eintr" => rpc[p] = "none"
  /\ gpc[Body(p)] # "died" /\ (gpc[Reaper(p)] = "died" => pc[p] = "dead")
FramesOk == /\ \A p \in Procs : FrameOk(p)
            /\ sem # Obj!Removed /\ \A f \in Frames : gpc[f] # "exited" /\ op[f].fits

\* The reapers that are still to count a slave off: what the count says too much.
Pending == {p \in Procs : rpc[p] = "update" /\ gpc[Reaper(p)] \in {"wait", "held", "loaded"}}
CountIs == shmdata >= Cardinality(Counted) + Cardinality(Pending)

\* The slaves that passed the limit check, or will: when one of them read the count the
\* others were in it.
Keepers == kept \cup {s \in Slaves : /\ pc[s] = "check" /\ gpc[Body(s)] \in {"stored", "idle"}
                                     /\ data[Body(s)] <= MAXCRTLVL}
Limited == /\ \A s \in kept : pc[s] \notin {"none", "zombie", "handler"}
           /\ Cardinality(Keepers) <= MAXCRTLVL

Tally == Obj!IInv /\ FramesOk /\ CountIs /\ Limited
-----------------------------------------------------------------------------
\* No connection is not a connection, and the processes are told apart.
LEMMA Names ==
  /\ None \notin Clients /\ Master \in Procs /\ Slaves \subseteq Procs
  /\ \A s \in Slaves : s # Master
  /\ \A p \in Procs : p # Master => p \in Slaves
  BY ConstantsAssumption, MasterAssumption DEF Procs

\* The labels, as a set of strings.
LEMMA Labelled == /\ MasterAt \subseteq Labels /\ SlaveAt \subseteq Labels
                  /\ Resumes \subseteq Labels \cup {"write_eintr"}
                  /\ "none" \in Labels /\ "dead" \in Labels /\ "zombie" \in Labels
  BY DEF MasterAt, SlaveAt, Resumes, Labels

\* The initial state satisfies the invariant.
LEMMA InitHand == Init => Hand
<1> SUFFICES ASSUME Init PROVE Hand
  OBVIOUS
<1> USE ConstantsAssumption, Names
<1>1. /\ pc = [p \in Procs |-> IF p = Master THEN "accept" ELSE "none"]
      /\ resume = [s \in Slaves |-> "none"] /\ rpc = [p \in Procs |-> "none"]
      /\ ssock = [p \in Procs |-> None] /\ fds = [p \in Procs |-> {}]
      /\ buf = [p \in Procs |-> 0] /\ armed = FALSE /\ sigchld = FALSE /\ kept = {}
      /\ backlog = <<>> /\ conn = [c \in Clients |-> "new"]
      /\ inq = [c \in Clients |-> 0] /\ sent = [c \in Clients |-> 0]
      /\ echoed = [c \in Clients |-> 0] /\ faults = Faults
  BY DEF Init
<1>2. Types
  <2>1. faults \in 0..Faults /\ kept \subseteq Slaves
    BY <1>1
  <2> QED
    BY <1>1, <2>1 DEF Types, Labels
<1>3. NetTypes
  BY <1>1 DEF NetTypes
<1>4. \A p \in Procs : Where(p) \in {"accept", "none"}
  BY <1>1 DEF Where
<1>5. Places
  BY <1>1 DEF Places, MasterAt, SlaveAt
<1>6. Tidy /\ Alone
  BY <1>1, <1>4 DEF Tidy, Alone, Serving
<1>7. Fresh
  BY <1>1 DEF Fresh
<1>8. Accounts
  BY <1>1, <1>4 DEF Accounts, Within
<1> QED
  BY <1>2, <1>3, <1>5, <1>6, <1>7, <1>8 DEF Hand

\* The clients and TCP: one more message sent is one more in the queue.
LEMMA ClientHand ==
  ASSUME Hand, NEW c \in Clients, ClientStep(c)
  PROVE  Hand'
<1> USE ConstantsAssumption, Names DEF Hand
<1>1. UNCHANGED <<pc, resume, rpc, ssock, fds, buf, armed, sigchld, kept, echoed>>
  BY DEF ClientStep, connect, send, finish, reset, procs
<1>2. faults' \in 0..Faults
  BY DEF ClientStep, connect, send, finish, reset, Types
<1>3. \A p \in Procs : Where(p)' = Where(p)
  BY <1>1 DEF Where
<1>4. Types' /\ Places' /\ Tidy' /\ Alone'
  BY <1>1, <1>2, <1>3 DEF Types, Places, Tidy, Alone
<1>5. CASE connect(c)
  <2>1. /\ conn[c] = "new" /\ Len(backlog) <= QLEN /\ conn' = [conn EXCEPT ![c] = "open"]
        /\ backlog' = Append(backlog, c) /\ UNCHANGED <<inq, sent>>
    BY <1>5 DEF connect
  <2>2. backlog \in Seq(Clients) /\ Len(backlog) \in Nat
    BY LenProperties DEF NetTypes
  <2>3. /\ backlog' \in Seq(Clients) /\ Len(backlog') = Len(backlog) + 1
        /\ \A i \in 1..Len(backlog) : backlog'[i] = backlog[i]
        /\ backlog'[Len(backlog) + 1] = c
    BY <2>1, <2>2, AppendProperties
  <2>4. NetTypes'
    BY <1>1, <2>1, <2>2, <2>3 DEF NetTypes
  <2>5. Fresh'
    <3>1. \A i \in 1..Len(backlog') : i \in 1..Len(backlog) \/ i = Len(backlog) + 1
      BY <2>2, <2>3
    <3>2. \A d \in Clients : conn'[d] = IF d = c THEN "open" ELSE conn[d]
      BY <2>1 DEF NetTypes
    <3>3. \A i \in 1..Len(backlog) : backlog[i] \in Clients /\ backlog[i] # c
                                     /\ conn[backlog[i]] # "new"
      BY <2>1, <2>2, ElementOfSeq DEF Fresh
    <3>4. \A d \in Clients, p \in Procs : conn'[d] = "new" => d \notin fds'[p]
      BY <1>1, <3>2 DEF Fresh
    <3>5. \A i \in 1..Len(backlog'), p \in Procs : backlog'[i] \notin fds'[p]
      <4>1. \A p \in Procs : c \notin fds[p]
        BY <2>1 DEF Fresh
      <4>2. \A i \in 1..Len(backlog), p \in Procs : backlog[i] \notin fds[p]
        BY DEF Fresh
      <4> QED
        BY <1>1, <2>3, <3>1, <4>1, <4>2
    <3>6. \A i \in 1..Len(backlog') : conn'[backlog'[i]] # "new"
      BY <2>3, <3>1, <3>2, <3>3
    <3>7. \A i, j \in 1..Len(backlog') : backlog'[i] = backlog'[j] => i = j
      <4>1. \A i, j \in 1..Len(backlog) : backlog[i] = backlog[j] => i = j
        BY DEF Fresh
      <4> QED
        BY <2>3, <3>1, <3>3, <4>1
    <3> QED
      BY <3>4, <3>5, <3>6, <3>7 DEF Fresh
  <2>6. Accounts'
    BY <1>1, <1>3, <2>1 DEF Accounts, Within
  <2> QED
    BY <1>4, <2>4, <2>5, <2>6
<1>6. CASE send(c)
  <2>1. /\ sent[c] < MaxSent /\ sent' = [sent EXCEPT ![c] = @ + 1]
        /\ inq' = [inq EXCEPT ![c] = @ + 1] /\ UNCHANGED <<conn, backlog>>
    BY <1>6 DEF send
  <2>2. NetTypes'
    BY <1>1, <2>1 DEF NetTypes
  <2>3. \A d \in Clients : \A n \in Nat : Within(d, n) => inq'[d] + n + echoed'[d] <= sent'[d]
    BY <1>1, <2>1 DEF Within, NetTypes
  <2>4. Accounts'
    <3>1. \A p \in Procs : buf[p] \in Nat /\ (Where(p) = "write" => ssock[p] \in Clients)
      BY DEF Types, Tidy, Serving
    <3>2. \A d \in Clients : inq'[d] + 0 + echoed'[d] <= sent'[d]
      BY <2>3 DEF Accounts
    <3>3. \A p \in Procs : Where(p) = "write" =>
                             inq'[ssock[p]] + buf[p] + echoed'[ssock[p]] <= sent'[ssock[p]]
      BY <2>3, <3>1 DEF Accounts
    <3> QED
      BY <1>1, <1>3, <3>2, <3>3 DEF Accounts, Within
  <2> QED
    BY <1>1, <1>4, <2>1, <2>2, <2>4 DEF Fresh
<1>7. CASE finish(c) \/ reset(c)
  <2>1. /\ conn[c] # "new" /\ conn' = [conn EXCEPT ![c] = IF finish(c) THEN "fin" ELSE "rst"]
        /\ UNCHANGED <<backlog, inq, sent>>
    BY <1>7 DEF finish, reset
  <2>2. conn' \in [Clients -> {"new", "open", "fin", "rst"}]
        /\ \A d \in Clients : conn'[d] = "new" <=> conn[d] = "new"
    BY <2>1 DEF NetTypes
  <2>3. NetTypes'
    BY <1>1, <2>1, <2>2 DEF NetTypes
  <2>4. Fresh'
    <3>1. \A i \in 1..Len(backlog) : backlog[i] \in Clients
      BY ElementOfSeq DEF NetTypes
    <3> QED
      BY <1>1, <2>1, <2>2, <3>1 DEF Fresh
  <2>5. Accounts'
    BY <1>1, <1>3, <2>1 DEF Accounts, Within
  <2> QED
    BY <1>4, <2>3, <2>4, <2>5
<1> QED
  BY <1>5, <1>6, <1>7 DEF ClientStep

\* accept takes a connection of which nobody has a descriptor.
LEMMA AcceptHand ==
  ASSUME Hand, NEW p \in Procs, accept(p)
  PROVE  Hand'
<1> USE ConstantsAssumption, Names DEF Hand
<1>1. PICK c : c = Head(backlog)
  OBVIOUS
<1>2. /\ pc[p] = "accept" /\ pc' = [pc EXCEPT ![p] = IF p = Master THEN "arm" ELSE "read"]
      /\ backlog # <<>> /\ backlog' = Tail(backlog)
      /\ ssock' = [ssock EXCEPT ![p] = c] /\ fds' = [fds EXCEPT ![p] = @ \cup {c}]
      /\ UNCHANGED <<resume, rpc, buf, armed, sigchld, kept, conn, inq, sent, echoed, faults>>
  BY <1>1 DEF accept, Goto, At
<1>3. /\ backlog \in Seq(Clients) /\ Len(backlog) \in Nat /\ Len(backlog) >= 1
      /\ c = backlog[1] /\ c \in Clients /\ backlog' \in Seq(Clients)
      /\ Len(backlog') = Len(backlog) - 1
      /\ \A i \in 1..Len(backlog') : backlog'[i] = backlog[i + 1]
  BY <1>1, <1>2, HeadTailProperties, LenProperties, EmptySeq DEF NetTypes
<1>4. \A q \in Procs : q # p => /\ pc'[q] = pc[q] /\ ssock'[q] = ssock[q] /\ fds'[q] = fds[q]
                                /\ Where(q)' = Where(q)
  BY <1>2 DEF Types, Where
<1>5. Where(p) = "accept" /\ fds[p] = {}
  BY <1>2 DEF Where, Tidy, Serving
<1>6. /\ pc'[p] = (IF p = Master THEN "arm" ELSE "read") /\ Where(p)' = pc'[p]
      /\ ssock'[p] = c /\ fds'[p] = {c}
  BY <1>2, <1>5 DEF Types, Where
<1>7. Types'
  <2>1. pc' \in [Procs -> Labels]
    BY <1>2 DEF Types, Labels
  <2>2. ssock' \in [Procs -> Clients \cup {None}] /\ fds' \in [Procs -> SUBSET Clients]
    BY <1>2, <1>3 DEF Types
  <2> QED
    BY <1>2, <2>1, <2>2 DEF Types
<1>8. NetTypes'
  BY <1>2, <1>3 DEF NetTypes
<1>9. Places'
  BY <1>2, <1>4, <1>6 DEF Places, MasterAt, SlaveAt
<1>10. Tidy'
  <2> SUFFICES ASSUME NEW q \in Procs
               PROVE  /\ Where(q)' \in Serving => ssock'[q] \in Clients /\ fds'[q] = {ssock'[q]}
                      /\ Where(q)' = "jumped" => fds'[q] \subseteq {ssock'[q]}
                      /\ Where(q)' \notin Serving \cup {"jumped"} => fds'[q] = {}
                      /\ buf'[q] > 0 <=> Where(q)' = "write"
    BY DEF Tidy, Serving
  <2>1. CASE q = p
    BY <1>2, <1>3, <1>5, <1>6, <2>1 DEF Tidy, Serving
  <2>2. CASE q # p
    BY <1>2, <1>4, <2>2 DEF Tidy
  <2> QED
    BY <2>1, <2>2
<1>11. \A q \in Procs : c \notin fds[q]
  <2>1. 1 \in 1..Len(backlog)
    BY <1>3
  <2> QED
    BY <1>3, <2>1 DEF Fresh
<1>12. Fresh'
  <2>1. \A i \in 1..Len(backlog') : i + 1 \in 1..Len(backlog) /\ i + 1 # 1
    BY <1>3
  <2>2. 1 \in 1..Len(backlog)
    BY <1>3
  <2>3. \A i \in 1..Len(backlog') : backlog'[i] # c
    BY <1>3, <2>1, <2>2 DEF Fresh
  <2>4. \A d \in Clients, q \in Procs : conn'[d] = "new" => d \notin fds'[q]
    BY <1>2, <1>3, <1>4, <1>6, <2>2 DEF Fresh
  <2>5. \A i \in 1..Len(backlog'), q \in Procs : backlog'[i] \notin fds'[q]
    <3>1. \A i \in 1..Len(backlog), q \in Procs : backlog[i] \notin fds[q]
      BY DEF Fresh
    <3>2. \A i \in 1..Len(backlog') : backlog'[i] = backlog[i + 1]
      BY <1>3
    <3>3. \A q \in Procs : fds'[q] \subseteq fds[q] \cup {c}
      BY <1>4, <1>6
    <3> QED
      BY <2>1, <2>3, <3>1, <3>2, <3>3
  <2>6. \A i \in 1..Len(backlog') : conn'[backlog'[i]] # "new"
    BY <1>2, <1>3, <2>1 DEF Fresh
  <2>7. \A i, j \in 1..Len(backlog') : backlog'[i] = backlog'[j] => i = j
    <3>1. \A i, j \in 1..Len(backlog) : backlog[i] = backlog[j] => i = j
      BY DEF Fresh
    <3>2. ASSUME NEW i \in 1..Len(backlog'), NEW j \in 1..Len(backlog'), backlog'[i] = backlog'[j]
          PROVE  i = j
      <4>1. i + 1 = j + 1
        BY <1>3, <2>1, <3>1, <3>2
      <4> QED
        BY <1>3, <4>1
    <3> QED
      BY <3>2
  <2> QED
    BY <2>4, <2>5, <2>6, <2>7 DEF Fresh
<1>13. Alone'
  <2>1. \A q \in Procs : q # p /\ Where(q)' \in Serving => ssock'[q] # c
    BY <1>4, <1>11 DEF Tidy
  <2>2. \A q, r \in Procs : q # p /\ r # p /\ Where(q)' \in Serving /\ Where(r)' \in Serving
                            /\ ssock'[q] = ssock'[r] => q = r
    BY <1>4 DEF Alone
  <2> QED
    BY <1>6, <2>1, <2>2 DEF Alone, Serving
<1>14. Accounts'
  <2>1. \A q \in Procs : Where(q)' = "write" => Where(q) = "write" /\ ssock'[q] = ssock[q]
    BY <1>2, <1>4, <1>6
  <2> QED
    BY <1>2, <2>1 DEF Accounts, Within
<1> QED
  BY <1>7, <1>8, <1>9, <1>10, <1>12, <1>13, <1>14

\* A process that reads or writes what it serves: the messages move, and no other
\* process has any of this client.
LEMMA EchoHand ==
  ASSUME Hand, NEW p \in Procs, read(p) \/ write(p)
  PROVE  Hand'
<1> USE ConstantsAssumption, Names DEF Hand
<1>1. PICK c \in Clients : c = ssock[p]
  BY DEF read, write, At, Where, Tidy, Serving
<1>2. /\ pc[p] \in {"read", "write"} /\ pc'[p] \in {"read", "write"}
      /\ \A q \in Procs : q # p => pc'[q] = pc[q] /\ buf'[q] = buf[q]
      /\ pc' \in [Procs -> Labels]
      /\ UNCHANGED <<resume, rpc, ssock, fds, armed, sigchld, kept, backlog, conn, sent, faults>>
  BY DEF read, write, At, Goto, Types, Labels
<1>3. /\ Where(p) = pc[p] /\ Where(p)' = pc'[p]
      /\ \A q \in Procs : q # p => Where(q)' = Where(q)
  BY <1>2 DEF Where
<1>4. \A q \in Procs : q # p /\ Where(q) = "write" => ssock[q] # c
  BY <1>1, <1>2, <1>3 DEF Alone, Serving
<1>5. /\ buf[p] \in Nat /\ inq[c] \in Nat /\ echoed[c] \in Nat /\ sent[c] \in Nat
  BY DEF Types, NetTypes
<1>6. /\ buf' \in [Procs -> Nat] /\ inq' \in [Clients -> Nat] /\ echoed' \in [Clients -> Nat]
      /\ \A d \in Clients : d # c => inq'[d] = inq[d] /\ echoed'[d] = echoed[d]
      /\ buf'[p] > 0 <=> pc'[p] = "write"
      /\ inq'[c] + buf'[p] + echoed'[c] <= sent[c]
  <2>1. CASE read(p)
    <3>1. /\ pc'[p] = "write" /\ inq[c] > 0
          /\ buf' = [buf EXCEPT ![p] = inq[c]] /\ inq' = [inq EXCEPT ![c] = 0]
          /\ echoed' = echoed
      BY <1>1, <2>1 DEF read, Goto, Types
    <3>2. Within(c, 0)
      BY DEF Accounts
    <3>3. /\ buf' \in [Procs -> Nat] /\ inq' \in [Clients -> Nat] /\ echoed' \in [Clients -> Nat]
          /\ \A d \in Clients : d # c => inq'[d] = inq[d] /\ echoed'[d] = echoed[d]
          /\ buf'[p] = inq[c] /\ inq'[c] = 0 /\ echoed'[c] = echoed[c]
      BY <1>5, <3>1 DEF Types, NetTypes
    <3> QED
      BY <1>5, <3>1, <3>2, <3>3 DEF Within
  <2>2. CASE write(p)
    <3>1. /\ pc[p] = "write" /\ pc'[p] = "read"
          /\ buf' = [buf EXCEPT ![p] = 0] /\ echoed' = [echoed EXCEPT ![c] = @ + buf[p]]
          /\ inq' = inq
      BY <1>1, <2>2 DEF write, At, Goto, Types
    <3>2. Within(c, buf[p])
      BY <1>1, <1>3, <3>1 DEF Accounts
    <3>3. /\ buf' \in [Procs -> Nat] /\ inq' \in [Clients -> Nat] /\ echoed' \in [Clients -> Nat]
          /\ \A d \in Clients : d # c => inq'[d] = inq[d] /\ echoed'[d] = echoed[d]
          /\ buf'[p] = 0 /\ inq'[c] = inq[c] /\ echoed'[c] = echoed[c] + buf[p]
      BY <1>5, <3>1 DEF Types, NetTypes
    <3> QED
      BY <1>5, <3>1, <3>2, <3>3 DEF Within
  <2> QED
    BY <2>1, <2>2
<1>7. Types' /\ NetTypes' /\ Fresh'
  BY <1>2, <1>6 DEF Types, NetTypes, Fresh
<1>8. Places'
  BY <1>2 DEF Places, MasterAt, SlaveAt
<1>9. Tidy'
  <2> SUFFICES ASSUME NEW q \in Procs
               PROVE  /\ Where(q)' \in Serving => ssock'[q] \in Clients /\ fds'[q] = {ssock'[q]}
                      /\ Where(q)' = "jumped" => fds'[q] \subseteq {ssock'[q]}
                      /\ Where(q)' \notin Serving \cup {"jumped"} => fds'[q] = {}
                      /\ buf'[q] > 0 <=> Where(q)' = "write"
    BY DEF Tidy, Serving
  <2>1. CASE q = p
    BY <1>1, <1>2, <1>3, <1>6, <2>1 DEF Tidy, Serving
  <2>2. CASE q # p
    BY <1>2, <1>3, <2>2 DEF Tidy
  <2> QED
    BY <2>1, <2>2
<1>10. Alone'
  BY <1>2, <1>3 DEF Alone, Serving
<1>11. Accounts'
  <2>1. ASSUME NEW d \in Clients PROVE inq'[d] + 0 + echoed'[d] <= sent[d]
    <3>1. CASE d = c
      <4>1. inq'[c] \in Nat /\ echoed'[c] \in Nat /\ buf'[p] \in Nat
        BY <1>6
      <4> QED
        BY <1>5, <1>6, <3>1, <4>1
    <3>2. CASE d # c
      BY <1>6, <3>2 DEF Accounts, Within
    <3> QED
      BY <3>1, <3>2
  <2>2. ASSUME NEW q \in Procs, Where(q)' = "write"
        PROVE  inq'[ssock[q]] + buf'[q] + echoed'[ssock[q]] <= sent[ssock[q]]
    <3>1. CASE q = p
      BY <1>1, <1>6, <3>1
    <3>2. CASE q # p
      <4>1. Where(q) = "write" /\ buf'[q] = buf[q] /\ ssock[q] \in Clients /\ ssock[q] # c
        BY <1>2, <1>3, <1>4, <2>2, <3>2 DEF Tidy, Serving
      <4> QED
        BY <1>6, <4>1 DEF Accounts, Within
    <3> QED
      BY <3>1, <3>2
  <2> QED
    BY <1>2, <2>1, <2>2 DEF Accounts, Within
<1> QED
  BY <1>7, <1>8, <1>9, <1>10, <1>11

\* Any other step leaves the network alone, and every process serves what it did, or
\* nothing.
LEMMA LessHand ==
  ASSUME Hand, Types', Places', Tidy',
         \A p \in Procs : /\ fds'[p] \subseteq fds[p]
                          /\ Where(p)' \in Serving => Where(p) \in Serving /\ ssock'[p] = ssock[p]
                          /\ Where(p)' = "write" => Where(p) = "write" /\ buf'[p] = buf[p],
         UNCHANGED <<backlog, conn, inq, sent, echoed>>
  PROVE  Hand'
<1> USE DEF Hand
<1>1. NetTypes'
  BY DEF NetTypes
<1>2. Fresh'
  BY DEF Fresh
<1>3. Alone'
  BY DEF Alone
<1>4. Accounts'
  <2>1. \A p \in Procs : Where(p)' = "write" =>
                           Where(p) = "write" /\ buf'[p] = buf[p] /\ ssock'[p] = ssock[p]
    BY DEF Serving
  <2> QED
    BY <2>1 DEF Accounts, Within
<1> QED
  BY <1>1, <1>2, <1>3, <1>4

\* A step of one process's server loop that is not accept, read or write.
LEMMA MovesHand ==
  ASSUME Hand, NEW p \in Procs, NEW to \in Labels,
         pc[p] # "handler", pc[p] # "write", Goto(p, to), to \notin {"write", "handler", "jumped"},
         p = Master => to \in MasterAt, p # Master => to \in SlaveAt,
         UNCHANGED <<resume, rpc, sigchld, buf, backlog, conn, inq, sent, echoed, faults>>,
         kept' \subseteq Slaves, armed' \in BOOLEAN,
         armed' => armed \/ (p = Master /\ to = "read"),
         p = Master /\ armed' => to \in {"read", "close", "zero", "disarm"},
         ssock' \in [Procs -> Clients \cup {None}],
         \A q \in Procs : q # p => ssock'[q] = ssock[q],
         fds' \in [Procs -> SUBSET Clients], fds'[p] \subseteq fds[p],
         \A q \in Procs : q # p => fds'[q] = fds[q],
         to \in Serving => pc[p] \in Serving /\ ssock'[p] = ssock[p] /\ fds'[p] = fds[p],
         to \notin Serving => fds'[p] = {}
  PROVE  Hand'
<1> USE ConstantsAssumption, Names DEF Hand
<1>1. pc' \in [Procs -> Labels] /\ pc'[p] = to /\ \A q \in Procs : q # p => pc'[q] = pc[q]
  BY DEF Types, Goto
<1>2. /\ Where(p) = pc[p] /\ Where(p)' = to
      /\ \A q \in Procs : q # p => Where(q)' = Where(q)
  BY <1>1 DEF Where
<1>3. Types'
  BY <1>1 DEF Types
<1>4. Places'
  <2>1. pc'[Master] \in MasterAt /\ \A s \in Slaves : pc'[s] \in SlaveAt
    BY <1>1 DEF Places
  <2>2. \A s \in Slaves : pc'[s] = "handler" => resume'[s] \in Resumes
    BY <1>1 DEF Places
  <2>3. armed' => pc'[Master] \in {"read", "write", "close", "zero", "disarm"}
    BY <1>1 DEF Places
  <2> QED
    BY <2>1, <2>2, <2>3 DEF Places, MasterAt, SlaveAt, Resumes
<1>5. Tidy'
  <2> SUFFICES ASSUME NEW q \in Procs
               PROVE  /\ Where(q)' \in Serving => ssock'[q] \in Clients /\ fds'[q] = {ssock'[q]}
                      /\ Where(q)' = "jumped" => fds'[q] \subseteq {ssock'[q]}
                      /\ Where(q)' \notin Serving \cup {"jumped"} => fds'[q] = {}
                      /\ buf'[q] > 0 <=> Where(q)' = "write"
    BY DEF Tidy, Serving
  <2>1. CASE q = p
    BY <1>2, <2>1 DEF Tidy
  <2>2. CASE q # p
    BY <1>2, <2>2 DEF Tidy
  <2> QED
    BY <2>1, <2>2
<1>6. \A q \in Procs : /\ fds'[q] \subseteq fds[q]
                       /\ Where(q)' \in Serving => Where(q) \in Serving /\ ssock'[q] = ssock[q]
                       /\ Where(q)' = "write" => Where(q) = "write" /\ buf'[q] = buf[q]
  BY <1>2
<1> QED
  BY <1>3, <1>4, <1>5, <1>6, LessHand

\* The steps of the server's loop that are of that kind.
LEMMA LoopHand ==
  ASSUME Hand,
         \/ \E p \in Procs : read_eof(p) \/ close(p) \/ zero(p)
         \/ arm \/ disarm \/ jumped
         \/ \E s \in Slaves : limit(s) \/ within_limit(s) \/ select(s)
  PROVE  Hand'
<1> USE ConstantsAssumption, Names DEF Hand
<1>0. /\ {"close", "zero", "disarm", "read", "accept", "check", "select", "limit"} \subseteq Labels
      /\ Types
  BY DEF Labels
<1>1. ASSUME NEW p \in Procs, read_eof(p) PROVE Hand'
  <2>1. /\ pc[p] = "read" /\ Goto(p, "close")
        /\ UNCHANGED <<resume, rpc, ssock, fds, buf, armed, sigchld, kept, net>>
    BY <1>1 DEF read_eof, At
  <2> QED
    BY <1>0, <2>1, MovesHand DEF Types, Serving, MasterAt, SlaveAt, net
<1>2. ASSUME NEW p \in Procs, close(p) PROVE Hand'
  <2>1. /\ pc[p] = "close" /\ Goto(p, "zero") /\ fds' = [fds EXCEPT ![p] = @ \ {ssock[p]}]
        /\ UNCHANGED <<resume, rpc, ssock, buf, armed, sigchld, kept, net>>
    BY <1>2 DEF close, At
  <2>2. fds[p] = {ssock[p]}
    BY <2>1 DEF Tidy, Where, Serving
  <2>3. /\ fds' \in [Procs -> SUBSET Clients] /\ fds'[p] = {}
        /\ \A q \in Procs : q # p => fds'[q] = fds[q]
    BY <2>1, <2>2 DEF Types
  <2> QED
    BY <1>0, <2>1, <2>3, MovesHand DEF Types, Serving, MasterAt, SlaveAt, net
<1>3. ASSUME NEW p \in Procs, zero(p) PROVE Hand'
  <2>1. PICK to \in {"disarm", "limit"} :
          to = IF p = Master THEN "disarm" ELSE "limit"
    OBVIOUS
  <2>2. /\ pc[p] = "zero" /\ Goto(p, to) /\ ssock' = [ssock EXCEPT ![p] = None]
        /\ UNCHANGED <<resume, rpc, fds, buf, armed, sigchld, kept, net>>
    BY <1>3, <2>1 DEF zero, At
  <2>3. fds[p] = {}
    BY <2>2 DEF Tidy, Where, Serving
  <2>4. /\ ssock' \in [Procs -> Clients \cup {None}]
        /\ \A q \in Procs : q # p => ssock'[q] = ssock[q]
    BY <2>2 DEF Types
  <2>5. to \in Labels /\ to \notin Serving /\ to \notin {"write", "handler", "jumped"}
        /\ (p = Master => to \in MasterAt) /\ (p # Master => to \in SlaveAt)
    BY <2>1 DEF Labels, Serving, MasterAt, SlaveAt
  <2>6. p = Master /\ armed' => to \in {"read", "close", "zero", "disarm"}
    BY <2>1
  <2> QED
    BY <1>0, <2>2, <2>3, <2>4, <2>5, <2>6, MovesHand DEF Types, net
<1>4. CASE arm
  <2>1. /\ pc[Master] = "arm" /\ Goto(Master, "read") /\ armed' = TRUE
        /\ UNCHANGED <<resume, rpc, ssock, fds, buf, sigchld, kept, net>>
    BY <1>4 DEF arm, At
  <2> QED
    BY <1>0, <2>1, MovesHand DEF Types, Serving, MasterAt, SlaveAt, net
<1>5. CASE disarm
  <2>1. /\ pc[Master] = "disarm" /\ Goto(Master, "accept") /\ armed' = FALSE
        /\ UNCHANGED <<resume, rpc, ssock, fds, buf, sigchld, kept, net>>
    BY <1>5 DEF disarm, At
  <2>2. fds[Master] = {}
    BY <2>1 DEF Tidy, Where, Serving
  <2> QED
    BY <1>0, <2>1, <2>2, MovesHand DEF Types, Serving, MasterAt, SlaveAt, net
<1>6. CASE jumped
  <2>1. /\ pc[Master] = "jumped" /\ Goto(Master, "accept")
        /\ fds' = [fds EXCEPT ![Master] = @ \ {ssock[Master]}]
        /\ UNCHANGED <<resume, rpc, ssock, buf, armed, sigchld, kept, net>>
    BY <1>6 DEF jumped, At
  <2>2. fds[Master] \subseteq {ssock[Master]} /\ ~armed
    BY <2>1 DEF Tidy, Where, Places, Types
  <2>3. /\ fds' \in [Procs -> SUBSET Clients] /\ fds'[Master] = {}
        /\ \A q \in Procs : q # Master => fds'[q] = fds[q]
    BY <2>1, <2>2 DEF Types
  <2> QED
    BY <1>0, <2>1, <2>2, <2>3, MovesHand DEF Types, Serving, MasterAt, SlaveAt, net
<1>7. ASSUME NEW s \in Slaves, limit(s) \/ within_limit(s) \/ select(s) PROVE Hand'
  <2>1. PICK to \in {"check", "select", "accept"} :
          pc[s] \in {"limit", "check", "select"} /\ Goto(s, to)
    BY <1>7 DEF limit, within_limit, select, At
  <2>2. UNCHANGED <<resume, rpc, ssock, fds, buf, armed, sigchld, net>>
    BY <1>7 DEF limit, within_limit, select
  <2>3. kept' \subseteq Slaves
    BY <1>7 DEF limit, within_limit, select, Types
  <2>4. fds[s] = {}
    BY <2>1 DEF Tidy, Where, Serving
  <2>5. to \in Labels /\ to \notin Serving /\ to \notin {"write", "handler", "jumped"}
        /\ to \in SlaveAt
    BY <2>1 DEF Labels, Serving, SlaveAt
  <2> QED
    BY <1>0, <2>1, <2>2, <2>3, <2>4, <2>5, MovesHand DEF Types, net
<1> QED
  BY <1>1, <1>2, <1>3, <1>4, <1>5, <1>6, <1>7

\* What the end of a process does to the server's variables.
LEMMA EndsEffect ==
  ASSUME Types, NEW p \in Procs, Ends(p)
  PROVE  /\ pc' \in [Procs -> Labels]
         /\ pc'[p] \in {"dead", "zombie", "none"} /\ (pc'[p] = "dead" <=> p = Master)
         /\ \A q \in Procs : q # p => pc'[q] = pc[q] \/ (pc[q] = "zombie" /\ pc'[q] = "none")
         /\ resume' \in [Slaves -> Labels \cup {"write_eintr"}]
         /\ \A s \in Slaves : s # p => resume'[s] = resume[s]
         /\ rpc' = [rpc EXCEPT ![p] = "none"] /\ ssock' = [ssock EXCEPT ![p] = None]
         /\ fds' = [fds EXCEPT ![p] = {}] /\ buf' = [buf EXCEPT ![p] = 0]
         /\ kept' \subseteq kept /\ p \notin kept'
         /\ armed' \in BOOLEAN /\ sigchld' \in BOOLEAN
         /\ armed' => armed /\ p # Master
<1> USE Names
<1>1. pc' = [q \in Procs |->
              CASE q = p /\ q = Master        -> "dead"
                [] q = p /\ q # Master        -> IF Alive(Master) THEN "zombie" ELSE "none"
                [] q # p /\ p = Master        -> IF pc[q] = "zombie" THEN "none" ELSE pc[q]
                [] q # p /\ p # Master        -> pc[q]]
  BY DEF Ends
<1>2. pc'[p] = IF p = Master THEN "dead" ELSE IF Alive(Master) THEN "zombie" ELSE "none"
  BY <1>1
<1>3. \A q \in Procs : q # p => pc'[q] = IF p = Master /\ pc[q] = "zombie" THEN "none" ELSE pc[q]
  BY <1>1
<1>4. \A q \in Procs : pc'[q] \in Labels
  BY <1>2, <1>3 DEF Types, Labels
<1>5. pc' = [q \in Procs |-> pc'[q]]
  BY <1>1
<1>6. pc' \in [Procs -> Labels]
  BY <1>4, <1>5
<1>7. resume' = [s \in Slaves |-> IF s = p THEN "none" ELSE resume[s]]
  BY DEF Ends
<1>8. resume' \in [Slaves -> Labels \cup {"write_eintr"}]
  BY <1>7 DEF Types, Labels
<1>9. armed' \in BOOLEAN /\ sigchld' \in BOOLEAN /\ (armed' => armed /\ p # Master)
  BY DEF Ends, Types
<1> QED
  BY <1>2, <1>3, <1>6, <1>7, <1>8, <1>9 DEF Ends

\* A process ends: what it served is its own no more.
LEMMA EndsHand ==
  ASSUME Hand, NEW p \in Procs, Ends(p), faults' \in 0..Faults,
         UNCHANGED <<backlog, conn, inq, sent, echoed>>
  PROVE  Hand'
<1> USE ConstantsAssumption, Names DEF Hand
<1>1. /\ pc' \in [Procs -> Labels]
      /\ pc'[p] \in {"dead", "zombie", "none"} /\ (pc'[p] = "dead" <=> p = Master)
      /\ \A q \in Procs : q # p => pc'[q] = pc[q] \/ (pc[q] = "zombie" /\ pc'[q] = "none")
      /\ resume' \in [Slaves -> Labels \cup {"write_eintr"}]
      /\ \A s \in Slaves : s # p => resume'[s] = resume[s]
      /\ rpc' = [rpc EXCEPT ![p] = "none"] /\ ssock' = [ssock EXCEPT ![p] = None]
      /\ fds' = [fds EXCEPT ![p] = {}] /\ buf' = [buf EXCEPT ![p] = 0]
      /\ kept' \subseteq kept /\ p \notin kept'
      /\ armed' \in BOOLEAN /\ sigchld' \in BOOLEAN
      /\ armed' => armed /\ p # Master
  BY EndsEffect
<1>2. Types'
  BY <1>1 DEF Types
<1>3. Places'
  <2>1. pc'[Master] \in MasterAt
    BY <1>1 DEF Places, MasterAt
  <2>2. \A s \in Slaves : pc'[s] \in SlaveAt /\ (pc'[s] = "handler" => resume'[s] \in Resumes)
    BY <1>1 DEF Places, SlaveAt
  <2>3. armed' => pc'[Master] \in {"read", "write", "close", "zero", "disarm"}
    BY <1>1 DEF Places
  <2> QED
    BY <2>1, <2>2, <2>3 DEF Places, MasterAt, SlaveAt, Resumes
<1>4. /\ ssock'[p] = None /\ fds'[p] = {} /\ buf'[p] = 0
      /\ \A q \in Procs : q # p => ssock'[q] = ssock[q] /\ fds'[q] = fds[q] /\ buf'[q] = buf[q]
  BY <1>1 DEF Types
<1>5. /\ Where(p)' \in {"dead", "zombie", "none"}
      /\ \A q \in Procs : q # p =>
           Where(q)' = Where(q) \/ (Where(q) = "zombie" /\ Where(q)' = "none")
  <2>1. Where(p)' \in {"dead", "zombie", "none"}
    BY <1>1 DEF Where
  <2>2. ASSUME NEW q \in Procs, q # p
        PROVE  Where(q)' = Where(q) \/ (Where(q) = "zombie" /\ Where(q)' = "none")
    <3>1. CASE pc'[q] = pc[q]
      <4>1. pc[q] = "handler" => q \in Slaves
        BY DEF Places, MasterAt
      <4>2. pc[q] = "handler" => resume'[q] = resume[q]
        BY <1>1, <2>2, <4>1
      <4> QED
        BY <3>1, <4>2 DEF Where
    <3>2. CASE pc[q] = "zombie" /\ pc'[q] = "none"
      BY <3>2 DEF Where
    <3> QED
      BY <1>1, <2>2, <3>1, <3>2
  <2> QED
    BY <2>1, <2>2
<1>6. Tidy'
  <2> SUFFICES ASSUME NEW q \in Procs
               PROVE  /\ Where(q)' \in Serving => ssock'[q] \in Clients /\ fds'[q] = {ssock'[q]}
                      /\ Where(q)' = "jumped" => fds'[q] \subseteq {ssock'[q]}
                      /\ Where(q)' \notin Serving \cup {"jumped"} => fds'[q] = {}
                      /\ buf'[q] > 0 <=> Where(q)' = "write"
    BY DEF Tidy, Serving
  <2>1. CASE q = p
    BY <1>4, <1>5, <2>1 DEF Serving
  <2>2. CASE q # p /\ Where(q)' = Where(q)
    BY <1>4, <2>2 DEF Tidy
  <2>3. CASE q # p /\ Where(q) = "zombie" /\ Where(q)' = "none"
    BY <1>4, <2>3 DEF Tidy, Serving
  <2> QED
    BY <1>5, <2>1, <2>2, <2>3
<1>7. \A q \in Procs : /\ fds'[q] \subseteq fds[q]
                       /\ Where(q)' \in Serving => Where(q) \in Serving /\ ssock'[q] = ssock[q]
                       /\ Where(q)' = "write" => Where(q) = "write" /\ buf'[q] = buf[q]
  BY <1>4, <1>5 DEF Serving
<1> QED
  BY <1>2, <1>3, <1>6, <1>7, LessHand

\* The steps that end a process are of that kind.
LEMMA EndStepHand ==
  ASSUME Hand,
         \/ \E p \in Procs : read_reset(p) \/ write_reset(p)
         \/ \E s \in Slaves : over_limit(s) \/ inactive(s) \/ interrupted(s)
         \/ fork_fails
  PROVE  Hand'
<1> USE ConstantsAssumption, Names
<1>1. \E p \in Procs : Ends(p)
  BY DEF read_reset, write_reset, over_limit, inactive, interrupted, fork_fails
<1>2. faults' \in 0..Faults /\ UNCHANGED <<backlog, conn, inq, sent, echoed>>
  BY DEF read_reset, write_reset, over_limit, inactive, interrupted, fork_fails, net, Hand, Types
<1> QED
  BY <1>1, <1>2, EndsHand

\* The reaper and the object move no server loop, but for the child a wait3 reaps.
LEMMA ReaperHand ==
  ASSUME Hand,
         \/ reaper \/ \E z \in Slaves : wait3(z)
         \/ \E p \in Procs : reaped(p) \/ updated(p) \/ object_step(p)
  PROVE  Hand'
<1> USE ConstantsAssumption, Names DEF Hand
<1>1. /\ UNCHANGED <<resume, ssock, fds, buf, armed, kept, backlog, conn, inq, sent, echoed, faults>>
      /\ rpc' \in [Procs -> {"none", "wait3", "update", "eintr"}] /\ sigchld' \in BOOLEAN
  BY DEF reaper, wait3, reaped, updated, object_step, Types, net, procs
<1>2. pc' = pc \/ \E z \in Slaves : pc[z] = "zombie" /\ pc' = [pc EXCEPT ![z] = "none"]
  BY DEF reaper, wait3, reaped, updated, object_step, Goto, procs
<1>3. /\ pc' \in [Procs -> Labels]
      /\ \A q \in Procs : pc'[q] = pc[q] \/ (q # Master /\ pc[q] = "zombie" /\ pc'[q] = "none")
  BY <1>2, Labelled DEF Types
<1>4. Types'
  BY <1>1, <1>3 DEF Types
<1>5. Places'
  BY <1>1, <1>3 DEF Places, MasterAt, SlaveAt, Resumes
<1>6. \A q \in Procs : Where(q)' = Where(q) \/ (Where(q) = "zombie" /\ Where(q)' = "none")
  BY <1>1, <1>3 DEF Where
<1>7. Tidy'
  BY <1>1, <1>6 DEF Tidy, Serving
<1>8. \A q \in Procs : /\ fds'[q] \subseteq fds[q]
                       /\ Where(q)' \in Serving => Where(q) \in Serving /\ ssock'[q] = ssock[q]
                       /\ Where(q)' = "write" => Where(q) = "write" /\ buf'[q] = buf[q]
  BY <1>1, <1>6 DEF Serving
<1> QED
  BY <1>1, <1>4, <1>5, <1>7, <1>8, LessHand

\* The handler returns to where the server's loop is.
LEMMA ReturnHand ==
  ASSUME Hand, NEW s \in Slaves, handler_returns(s)
  PROVE  Hand'
<1> USE ConstantsAssumption, Names DEF Hand
<1>1. /\ pc[s] = "handler" /\ resume[s] \in Resumes /\ resume[s] # "write_eintr"
      /\ pc' = [pc EXCEPT ![s] = resume[s]] /\ resume' = [resume EXCEPT ![s] = "none"]
      /\ UNCHANGED <<rpc, ssock, fds, buf, armed, sigchld, kept, backlog, conn, inq, sent,
                     echoed, faults>>
  BY DEF handler_returns, Goto, net, Places
<1>2. /\ pc'[s] = resume[s] /\ \A q \in Procs : q # s => pc'[q] = pc[q]
      /\ \A q \in Slaves : q # s => resume'[q] = resume[q]
      /\ resume[s] \in Labels /\ resume[s] \in SlaveAt /\ resume[s] # "handler"
  BY <1>1 DEF Types, Resumes, Labels, SlaveAt
<1>3. Types'
  <2>1. pc' \in [Procs -> Labels] /\ resume' \in [Slaves -> Labels \cup {"write_eintr"}]
    BY <1>1, <1>2, Labelled DEF Types
  <2> QED
    BY <1>1, <2>1 DEF Types
<1>4. Places'
  BY <1>1, <1>2 DEF Places, MasterAt, SlaveAt, Resumes
<1>5. \A q \in Procs : Where(q)' = Where(q)
  <2>1. Where(s)' = Where(s)
    BY <1>1, <1>2 DEF Where
  <2>2. ASSUME NEW q \in Procs, q # s PROVE Where(q)' = Where(q)
    <3>1. pc[q] = "handler" => q \in Slaves
      BY DEF Places, MasterAt
    <3> QED
      BY <1>2, <2>2, <3>1 DEF Where
  <2> QED
    BY <2>1, <2>2
<1>6. Tidy'
  BY <1>1, <1>5 DEF Tidy, Serving
<1> QED
  BY <1>1, <1>3, <1>4, <1>5, <1>6, LessHand

\* The alarm: the slave has what the master had, and the master serves nobody.
LEMMA AlarmHand ==
  ASSUME Hand, NEW s \in Slaves, delayed_alloctn_cb(s)
  PROVE  Hand'
<1> USE ConstantsAssumption, Names DEF Hand
<1>1. /\ armed /\ pc[s] = "none" /\ armed' = FALSE
      /\ pc' = [pc EXCEPT ![s] = "handler", ![Master] = "jumped"]
      /\ ssock' = [ssock EXCEPT ![s] = ssock[Master]] /\ fds' = [fds EXCEPT ![s] = fds[Master]]
      /\ buf' = [buf EXCEPT ![s] = buf[Master], ![Master] = 0]
      /\ UNCHANGED <<sigchld, kept, backlog, conn, inq, sent, echoed>>
  BY DEF delayed_alloctn_cb, Child
<1>2. pc[Master] \in {"read", "write", "close", "zero", "disarm"}
  BY <1>1 DEF Places
<1>3. PICK to \in Resumes : /\ resume' = [resume EXCEPT ![s] = to]
                            /\ to = "write_eintr" => pc[Master] = "write"
                            /\ to = "limit" => pc[Master] = "disarm"
                            /\ to \notin {"write_eintr", "limit"} => to = pc[Master]
  <2>1. PICK b \in BOOLEAN : Child(s, b) /\ (b => At(Master, "write"))
    BY DEF delayed_alloctn_cb
  <2>2. resume' = [resume EXCEPT ![s] =
                    CASE b                        -> "write_eintr"
                      [] pc[Master] = "disarm"    -> "limit"
                      [] OTHER                    -> pc[Master]]
    BY <2>1 DEF Child
  <2>3. CASE b
    <3>1. pc[Master] = "write"
      BY <2>1, <2>3 DEF At
    <3>2. resume' = [resume EXCEPT ![s] = "write_eintr"]
      BY <2>2, <2>3, <3>1
    <3> QED
      BY <3>1, <3>2 DEF Resumes
  <2>4. CASE ~b /\ pc[Master] = "disarm"
    BY <2>2, <2>4 DEF Resumes
  <2>5. CASE ~b /\ pc[Master] # "disarm"
    <3>1. resume' = [resume EXCEPT ![s] = pc[Master]]
      BY <2>2, <2>5
    <3> QED
      BY <1>2, <2>5, <3>1 DEF Resumes
  <2> QED
    BY <2>3, <2>4, <2>5
<1>4. /\ pc'[s] = "handler" /\ pc'[Master] = "jumped" /\ resume'[s] = to
      /\ ssock'[s] = ssock[Master] /\ fds'[s] = fds[Master] /\ buf'[s] = buf[Master]
      /\ ssock'[Master] = ssock[Master] /\ fds'[Master] = fds[Master] /\ buf'[Master] = 0
      /\ \A q \in Procs : q # s /\ q # Master => /\ pc'[q] = pc[q] /\ ssock'[q] = ssock[q]
                                                 /\ fds'[q] = fds[q] /\ buf'[q] = buf[q]
      /\ \A q \in Slaves : q # s => resume'[q] = resume[q]
  BY <1>1, <1>3 DEF Types
<1>5. /\ Where(Master) = pc[Master] /\ Where(s)' = (IF to = "write_eintr" THEN "write" ELSE to)
      /\ Where(Master)' = "jumped" /\ \A q \in Procs : q # s /\ q # Master => Where(q)' = Where(q)
  <2>1. Where(Master) = pc[Master]
    BY <1>2 DEF Where
  <2>2. Where(s)' = (IF to = "write_eintr" THEN "write" ELSE to) /\ Where(Master)' = "jumped"
    BY <1>4 DEF Where
  <2>3. ASSUME NEW q \in Procs, q # s, q # Master PROVE Where(q)' = Where(q)
    BY <1>4, <2>3 DEF Where
  <2> QED
    BY <2>1, <2>2, <2>3
<1>6. /\ Where(s)' \in Serving <=> Where(Master) \in Serving
      /\ Where(s)' = "write" <=> Where(Master) = "write"
      /\ Where(s)' # "jumped" /\ Where(Master) # "jumped" /\ "jumped" \notin Serving
  BY <1>2, <1>3, <1>5 DEF Serving, Resumes
<1>7. Types'
  <2>1. rpc' \in [Procs -> {"none", "wait3", "update", "eintr"}] /\ faults' \in 0..Faults
    BY DEF delayed_alloctn_cb, Child, Types
  <2>2. pc' \in [Procs -> Labels] /\ resume' \in [Slaves -> Labels \cup {"write_eintr"}]
    BY <1>1, <1>3, Labelled DEF Types, Labels
  <2>3. /\ ssock' \in [Procs -> Clients \cup {None}] /\ fds' \in [Procs -> SUBSET Clients]
        /\ buf' \in [Procs -> Nat]
    BY <1>1 DEF Types
  <2> QED
    BY <1>1, <2>1, <2>2, <2>3 DEF Types
<1>8. NetTypes'
  BY <1>1 DEF NetTypes
<1>9. Places'
  <2>1. pc'[Master] \in MasterAt
    BY <1>4 DEF MasterAt
  <2>2. ASSUME NEW q \in Slaves
        PROVE  pc'[q] \in SlaveAt /\ (pc'[q] = "handler" => resume'[q] \in Resumes)
    <3>1. CASE q = s
      BY <1>3, <1>4, <3>1 DEF SlaveAt
    <3>2. CASE q # s
      <4>1. q \in Procs /\ q # Master
        BY <2>2
      <4>2. pc'[q] = pc[q] /\ resume'[q] = resume[q]
        BY <1>4, <3>2, <4>1
      <4> QED
        BY <4>2 DEF Places
    <3> QED
      BY <3>1, <3>2
  <2>3. ~armed'
    BY <1>1
  <2> QED
    BY <2>1, <2>2, <2>3 DEF Places
<1>10. Tidy'
  <2> SUFFICES ASSUME NEW q \in Procs
               PROVE  /\ Where(q)' \in Serving => ssock'[q] \in Clients /\ fds'[q] = {ssock'[q]}
                      /\ Where(q)' = "jumped" => fds'[q] \subseteq {ssock'[q]}
                      /\ Where(q)' \notin Serving \cup {"jumped"} => fds'[q] = {}
                      /\ buf'[q] > 0 <=> Where(q)' = "write"
    BY DEF Tidy, Serving
  <2>1. CASE q = s
    BY <1>4, <1>6, <2>1 DEF Tidy
  <2>2. CASE q = Master
    BY <1>4, <1>5, <1>6, <2>2 DEF Tidy
  <2>3. CASE q # s /\ q # Master
    BY <1>4, <1>5, <2>3 DEF Tidy
  <2> QED
    BY <2>1, <2>2, <2>3
<1>11. Fresh'
  <2>1. \A q \in Procs : \E r \in Procs : fds'[q] = fds[r]
    BY <1>4
  <2> QED
    BY <1>1, <2>1 DEF Fresh
<1>12. Alone'
  <2>1. \A q \in Procs : Where(q)' \in Serving /\ q # s =>
                           q # Master /\ Where(q) \in Serving /\ ssock'[q] = ssock[q]
    BY <1>4, <1>5, <1>6
  <2>2. Where(s)' \in Serving => Where(Master) \in Serving /\ ssock'[s] = ssock[Master]
    BY <1>4, <1>6
  <2> QED
    BY <2>1, <2>2 DEF Alone, Serving
<1>13. Accounts'
  <2>1. \A q \in Procs : Where(q)' = "write" /\ q # s =>
                           Where(q) = "write" /\ ssock'[q] = ssock[q] /\ buf'[q] = buf[q]
    BY <1>4, <1>5
  <2>2. Where(s)' = "write" => Where(Master) = "write" /\ ssock'[s] = ssock[Master]
                               /\ buf'[s] = buf[Master]
    BY <1>4, <1>6
  <2>3. UNCHANGED <<inq, echoed, sent>>
    BY <1>1
  <2>4. \A d \in Clients : Within(d, 0)'
    BY <2>3 DEF Accounts, Within
  <2>5. ASSUME NEW q \in Procs, Where(q)' = "write"
        PROVE  inq[ssock'[q]] + buf'[q] + echoed[ssock'[q]] <= sent[ssock'[q]]
    <3>1. CASE q # s
      BY <2>1, <2>5, <3>1 DEF Accounts, Within
    <3>2. CASE q = s
      BY <2>2, <2>5, <3>2 DEF Accounts, Within
    <3> QED
      BY <3>1, <3>2
  <2> QED
    BY <2>3, <2>4, <2>5 DEF Accounts, Within
<1> QED
  BY <1>7, <1>8, <1>9, <1>10, <1>11, <1>12, <1>13

\* Every step preserves the invariant.
LEMMA NextHand == Hand /\ [Next]_vars => Hand'
<1> SUFFICES ASSUME Hand, [Next]_vars PROVE Hand'
  OBVIOUS
<1>1. CASE UNCHANGED vars
  <2>1. \A p \in Procs : Where(p)' = Where(p)
    BY <1>1 DEF vars, Where
  <2> QED
    BY <1>1, <2>1 DEF vars, Hand, Types, NetTypes, Places, Tidy, Fresh, Alone, Accounts, Within
<1>2. ASSUME NEW p \in Procs, Loop(p) PROVE Hand'
  BY <1>2, AcceptHand, EchoHand, LoopHand, EndStepHand, ReaperHand DEF Loop
<1>3. CASE MasterOnly
  BY <1>3, LoopHand, ReaperHand DEF MasterOnly
<1>4. CASE fork_fails
  BY <1>4, EndStepHand
<1>5. ASSUME NEW s \in Slaves, SlaveOnly(s) PROVE Hand'
  BY <1>5, LoopHand, EndStepHand, ReturnHand DEF SlaveOnly
<1>6. ASSUME NEW s \in Slaves, delayed_alloctn_cb(s) PROVE Hand'
  BY <1>6, AlarmHand
<1>7. ASSUME NEW c \in Clients, ClientStep(c) PROVE Hand'
  BY <1>7, ClientHand
<1> QED
  BY <1>1, <1>2, <1>3, <1>4, <1>5, <1>6, <1>7 DEF Next

\* Hand holds in every reachable state.
LEMMA HandHolds == Spec => []Hand
  BY InitHand, NextHand, PTL DEF Spec
-----------------------------------------------------------------------------
\* The frames of the processes are told apart.
LEMMA FrameNames ==
  /\ \A p \in Procs : Body(p) \in Frames /\ Reaper(p) \in Frames
  /\ \A p \in Procs : Body(p)[1] = p /\ Reaper(p)[1] = p
  /\ \A p, q \in Procs : Body(p) # Reaper(q)
  /\ \A p, q \in Procs : Body(p) = Body(q) => p = q
  /\ \A p, q \in Procs : Reaper(p) = Reaper(q) => p = q
  /\ \A f \in Frames : \E p \in Procs : f = Body(p) \/ f = Reaper(p)
  BY DEF Frames, Body, Reaper

\* Processes and frames are finitely many.
LEMMA FinitelyMany == /\ IsFiniteSet(Procs) /\ Obj!IsFiniteSet(Frames)
<1>1. IsFiniteSet(Procs)
  BY ConstantsAssumption, FS_Singleton, FS_Union DEF Procs
<1>2. IsFiniteSet({"body", "reaper"})
  <2>1. {"body", "reaper"} = {"body"} \cup {"reaper"}
    OBVIOUS
  <2>2. IsFiniteSet({"body"})
    BY FS_Singleton
  <2> QED
    BY <2>1, <2>2, FS_AddElement
<1>3. IsFiniteSet(Frames)
  BY <1>1, <1>2, FS_Product DEF Frames
<1> QED
  BY <1>1, <1>3 DEF IsFiniteSet, Obj!IsFiniteSet

\* Sets of processes: a subset is not larger, and one process makes a difference of one.
LEMMA Sizes ==
  ASSUME NEW S \in SUBSET Procs, NEW T \in SUBSET S, NEW p \in Procs
  PROVE  /\ Cardinality(S) \in Nat /\ Cardinality(T) \in Nat
         /\ Cardinality(T) <= Cardinality(S)
         /\ p \notin S => Cardinality(S \cup {p}) = Cardinality(S) + 1
         /\ p \in S => Cardinality(S \ {p}) = Cardinality(S) - 1
<1>1. IsFiniteSet(S) /\ IsFiniteSet(T)
  BY FinitelyMany, FS_Subset
<1> QED
  BY <1>1, FS_CardinalityType, FS_Subset, FS_AddElement, FS_RemoveElement

\* What the invariant says of the object's variables.
LEMMA ObjectTypes ==
  ASSUME Obj!IInv
  PROVE  /\ sem \in {-1, 0, 1} /\ shmdata \in Int /\ data \in [Frames -> Int]
         /\ gpc \in [Frames -> {"held", "loaded", "stored", "idle", "wait", "exited", "died"}]
         /\ op \in [Frames -> [kind : {"read", "write", "inc", "dec"}, fits : BOOLEAN]]
         /\ \A f \in Frames : gpc[f] = "loaded" => data[f] = shmdata
         /\ \A f \in Frames : gpc[f] = "loaded" => op[f].kind \in {"inc", "dec"}
  BY DEF Obj!IInv, Obj!TypeOK, Obj!LoadedIsCurrent, Obj!OnlyUpdatesLoad, Obj!Section,
         Obj!Kinds, Obj!Removed

\* The object's invariant is preserved by what the server's frames do to the object.
LEMMA ObjectPreserved ==
  ASSUME Obj!IInv, NEW f \in Frames, Obj!Operation(f)
  PROVE  Obj!IInv'
<1>1. {} \subseteq Int /\ TRUE \in BOOLEAN /\ 0 \in Nat
  OBVIOUS
<1> QED
  BY <1>1, Obj!OperationIInv, FinitelyMany

\* The server's calls and steps are operations of the object.
LEMMA OperationsMatch ==
  ASSUME NEW f \in Frames, NEW k \in {"read", "dec"}, NEW v \in Int,
         Shm!Call(f, k, v, TRUE) \/ Shm!Step(f)
  PROVE  Obj!Operation(f)
<1>1. CASE Shm!Call(f, k, v, TRUE)
  <2>1. Obj!Call(f, k, v, TRUE) /\ k \in Obj!Kinds /\ k # "write"
    BY <1>1 DEF Shm!Call, Obj!Call, Obj!Kinds
  <2> QED
    BY <2>1 DEF Obj!Operation
<1>2. CASE Shm!Step(f)
  BY <1>2 DEF Obj!Operation, Shm!Step, Obj!Step,
       Shm!sem_wait, Obj!sem_wait, Shm!length_error, Obj!length_error,
       Shm!read_copy, Obj!read_copy, Shm!write_copy, Obj!write_copy,
       Shm!update_load, Obj!update_load, Shm!update_store, Obj!update_store,
       Shm!sem_signal, Obj!sem_signal, Shm!Removed, Obj!Removed
<1> QED
  BY <1>1, <1>2

\* The sets that the invariant counts.
LEMMA CountedSets ==
  ASSUME Hand
  PROVE  /\ Counted \in SUBSET Procs /\ Pending \in SUBSET Procs /\ Keepers \in SUBSET Procs
         /\ Cardinality(Counted) \in Nat /\ Cardinality(Pending) \in Nat
         /\ Cardinality(Keepers) \in Nat
<1>1. /\ Counted \in SUBSET Procs /\ Pending \in SUBSET Procs /\ Keepers \in SUBSET Procs
      /\ Master \in Procs
  BY Names DEF Hand, Types, Counted, Pending, Keepers
<1> QED
  BY <1>1, Sizes

\* The initial state satisfies the invariant.
LEMMA InitTally == Init => Tally
<1> SUFFICES ASSUME Init PROVE Tally
  OBVIOUS
<1> USE ConstantsAssumption, Names, FrameNames
<1>1. Obj!Init
  BY DEF Init, Shm!Init, Obj!Init
<1>2. Obj!IInv
  <2>1. {} \subseteq Int /\ TRUE \in BOOLEAN /\ 0 \in Nat
    OBVIOUS
  <2> QED
    BY <1>1, <2>1, Obj!InitIInv, FinitelyMany
<1>3. /\ sem = 1 /\ shmdata = 0 /\ gpc = [f \in Frames |-> "idle"]
      /\ op = [f \in Frames |-> [kind |-> "read", fits |-> TRUE]]
      /\ pc = [p \in Procs |-> IF p = Master THEN "accept" ELSE "none"]
      /\ rpc = [p \in Procs |-> "none"] /\ kept = {}
  BY DEF Init, Shm!Init
<1>4. \A p \in Procs : /\ gpc[Body(p)] = "idle" /\ gpc[Reaper(p)] = "idle" /\ rpc[p] = "none"
                       /\ pc[p] \in {"accept", "none"} /\ (p \in Slaves => pc[p] = "none")
  BY <1>3
<1>5. FramesOk
  BY <1>3, <1>4 DEF FramesOk, FrameOk, Obj!Removed
<1>6. Counted = {} /\ Pending = {} /\ Keepers = {}
  BY <1>3, <1>4 DEF Counted, Pending, Keepers
<1>7. CountIs
  BY <1>3, <1>6, FS_EmptySet DEF CountIs
<1>8. Limited
  BY <1>3, <1>6, FS_EmptySet DEF Limited
<1> QED
  BY <1>2, <1>5, <1>7, <1>8 DEF Tally

\* A step that leaves the count alone and makes none of the three sets larger.
LEMMA NotMore ==
  ASSUME Hand, Tally, Obj!IInv', FramesOk', shmdata' = shmdata,
         Counted' \subseteq Counted, Pending' \subseteq Pending, Keepers' \subseteq Keepers,
         \A s \in kept' : pc'[s] \notin {"none", "zombie", "handler"}
  PROVE  Tally'
<1> USE ConstantsAssumption, CountedSets, ObjectTypes, Names DEF Tally
<1>1. /\ Cardinality(Counted') \in Nat /\ Cardinality(Counted') <= Cardinality(Counted)
      /\ Cardinality(Pending') \in Nat /\ Cardinality(Pending') <= Cardinality(Pending)
      /\ Cardinality(Keepers') \in Nat /\ Cardinality(Keepers') <= Cardinality(Keepers)
  BY Sizes
<1>2. CountIs'
  BY <1>1 DEF CountIs
<1>3. Limited'
  BY <1>1 DEF Limited
<1> QED
  BY <1>2, <1>3

\* So is a step that leaves the object alone, in which nobody becomes a slave or a reaper.
LEMMA QuietTally ==
  ASSUME Hand, Tally, UNCHANGED <<sem, shmdata, gpc, op, data>>,
         \A p \in Procs : FrameOk(p)',
         \A s \in kept' : s \in Keepers /\ pc'[s] \notin {"none", "zombie", "handler"},
         \A s \in Slaves : /\ pc'[s] # "none" /\ pc'[s] # pc[s] => s \in Counted
                           /\ pc'[s] = "handler" => pc[s] = "handler"
                           /\ pc'[s] = "check" => pc[s] = "check",
         \A p \in Procs : rpc'[p] = "update" => rpc[p] = "update"
  PROVE  Tally'
<1> USE DEF Tally
<1>1. Obj!IInv'
  BY DEF Obj!IInv, Obj!TypeOK, Obj!OneInside, Obj!TakenIffInside, Obj!Inside,
         Obj!LoadedIsCurrent, Obj!OnlyUpdatesLoad
<1>2. FramesOk'
  BY DEF FramesOk
<1>3. Counted' \subseteq Counted
  BY DEF Counted
<1>4. Pending' \subseteq Pending
  BY DEF Pending
<1>5. Keepers' \subseteq Keepers
  BY DEF Keepers
<1> QED
  BY <1>1, <1>2, <1>3, <1>4, <1>5, NotMore

\* What FrameOk says of a process whose server loop is to go on.
LEMMA OnTop ==
  ASSUME Hand, Tally, NEW p \in Procs, rpc[p] = "none", pc[p] \notin {"handler", "check", "dead"}
  PROVE  gpc[Body(p)] = "idle" /\ gpc[Reaper(p)] = "idle"
  BY DEF Tally, FramesOk, FrameOk

\* A step of one process's server loop that is not about the object, between places where
\* it is not about the object either.
LEMMA LoopTally ==
  ASSUME Hand, Tally, NEW p \in Procs, NEW to \in Labels, rpc[p] = "none",
         pc[p] \notin {"handler", "dead", "none", "zombie"},
         pc[p] = "check" => gpc[Body(p)] = "idle",
         to \notin {"handler", "check", "dead", "none", "zombie"},
         Goto(p, to), UNCHANGED <<sem, shmdata, gpc, op, data, rpc, resume>>,
         \A s \in kept' : s \in Keepers
  PROVE  Tally'
<1> USE Names
<1>1. pc'[p] = to /\ \A q \in Procs : q # p => pc'[q] = pc[q]
  BY DEF Goto, Hand, Types
<1>2. \A q \in Procs : FrameOk(q)
  BY DEF Tally, FramesOk
<1>3. gpc[Body(p)] = "idle" /\ gpc[Reaper(p)] = "idle"
  BY <1>2 DEF FrameOk
<1>4. FrameOk(p)'
  BY <1>1, <1>3 DEF FrameOk
<1>5. \A q \in Procs : FrameOk(q)'
  BY <1>1, <1>2, <1>4 DEF FrameOk
<1>6. \A s \in Keepers : pc[s] \notin {"none", "zombie", "handler"} /\ s \in Procs
  BY DEF Keepers, Tally, Limited, Hand, Types
<1>7. \A s \in kept' : s \in Keepers /\ pc'[s] \notin {"none", "zombie", "handler"}
  BY <1>1, <1>6
<1>8. \A s \in Slaves : /\ pc'[s] # "none" /\ pc'[s] # pc[s] => s \in Counted
                        /\ pc'[s] = "handler" => pc[s] = "handler"
                        /\ pc'[s] = "check" => pc[s] = "check"
  BY <1>1 DEF Counted
<1> QED
  BY <1>5, <1>7, <1>8, QuietTally

\* The steps of that kind, and those of clients.
LEMMA OutsideTally ==
  ASSUME Hand, Tally,
         \/ \E p \in Procs : accept(p) \/ read(p) \/ read_eof(p) \/ write(p) \/ close(p) \/ zero(p)
         \/ arm \/ disarm \/ jumped
         \/ \E s \in Slaves : within_limit(s) \/ select(s)
         \/ \E c \in Clients : ClientStep(c)
  PROVE  Tally'
<1> USE Names
<1>1. ASSUME NEW p \in Procs,
             accept(p) \/ read(p) \/ read_eof(p) \/ write(p) \/ close(p) \/ zero(p)
      PROVE  Tally'
  <2>1. /\ rpc[p] = "none" /\ pc[p] \in {"accept", "read", "write", "close", "zero"}
        /\ \E to \in {"arm", "read", "write", "close", "zero", "disarm", "limit"} : Goto(p, to)
        /\ UNCHANGED <<sem, shmdata, gpc, op, data, rpc, resume, kept>>
    BY <1>1 DEF accept, read, read_eof, write, close, zero, At, shm
  <2>2. {"arm", "read", "write", "close", "zero", "disarm", "limit"} \subseteq Labels
    BY DEF Labels
  <2> QED
    BY <2>1, <2>2, LoopTally DEF Keepers
<1>2. CASE arm \/ disarm \/ jumped
  <2>1. /\ rpc[Master] = "none" /\ pc[Master] \in {"arm", "disarm", "jumped"}
        /\ \E to \in {"read", "accept"} : Goto(Master, to)
        /\ UNCHANGED <<sem, shmdata, gpc, op, data, rpc, resume, kept>>
    BY <1>2 DEF arm, disarm, jumped, At, shm
  <2>2. {"read", "accept"} \subseteq Labels
    BY DEF Labels
  <2> QED
    BY <2>1, <2>2, LoopTally DEF Keepers
<1>3. ASSUME NEW s \in Slaves, within_limit(s) \/ select(s) PROVE Tally'
  <2>1. /\ rpc[s] = "none" /\ pc[s] \in {"check", "select"}
        /\ pc[s] = "check" => gpc[Body(s)] = "idle"
        /\ \E to \in {"select", "accept"} : Goto(s, to)
        /\ UNCHANGED <<sem, shmdata, gpc, op, data, rpc, resume>>
    BY <1>3 DEF within_limit, select, At, shm
  <2>2. \A r \in kept' : r \in Keepers
    BY <1>3 DEF within_limit, select, At, Keepers
  <2>3. {"select", "accept"} \subseteq Labels
    BY DEF Labels
  <2> QED
    BY <2>1, <2>2, <2>3, LoopTally
<1>4. ASSUME NEW c \in Clients, ClientStep(c) PROVE Tally'
  <2>1. UNCHANGED <<sem, shmdata, gpc, op, data, pc, resume, rpc, kept>>
    BY <1>4 DEF ClientStep, connect, send, finish, reset, shm, procs
  <2>2. \A p \in Procs : FrameOk(p)'
    BY <2>1 DEF Tally, FramesOk, FrameOk
  <2>3. \A s \in kept' : s \in Keepers /\ pc'[s] \notin {"none", "zombie", "handler"}
    BY <2>1 DEF Tally, Limited, Keepers
  <2> QED
    BY <2>1, <2>2, <2>3, QuietTally
<1> QED
  BY <1>1, <1>2, <1>3, <1>4

\* The reaper that starts, returns or comes back from the object; the handler that returns.
LEMMA SignalTally ==
  ASSUME Hand, Tally,
         \/ reaper
         \/ \E p \in Procs : reaped(p) \/ updated(p)
         \/ \E s \in Slaves : handler_returns(s)
  PROVE  Tally'
<1> USE Names
<1>0. \A q \in Procs : FrameOk(q)
  BY DEF Tally, FramesOk
<1>1. CASE reaper \/ \E p \in Procs : reaped(p) \/ updated(p)
  <2>1. PICK p \in Procs, w \in {"wait3", "none"} :
          /\ rpc' = [rpc EXCEPT ![p] = w]
          /\ pc[p] \notin {"none", "zombie", "dead", "handler"}
          /\ gpc[Reaper(p)] = "idle"
    <3>1. CASE reaper
      <4>1. /\ rpc[Master] = "none" /\ rpc' = [rpc EXCEPT ![Master] = "wait3"]
            /\ pc[Master] \notin {"none", "zombie", "dead"}
        BY <3>1 DEF reaper, Alive
      <4>2. pc[Master] # "handler" /\ gpc[Reaper(Master)] = "idle"
        BY <1>0, <4>1 DEF FrameOk, Hand, Places, MasterAt
      <4> QED
        BY <4>1, <4>2
    <3>2. ASSUME NEW p \in Procs, reaped(p) \/ updated(p)
          PROVE  /\ \E w \in {"wait3", "none"} : rpc' = [rpc EXCEPT ![p] = w]
                 /\ pc[p] \notin {"none", "zombie", "dead", "handler"}
                 /\ gpc[Reaper(p)] = "idle"
      BY <1>0, <3>2 DEF reaped, updated, FrameOk
    <3> QED
      BY <1>1, <3>1, <3>2
  <2>2. UNCHANGED <<sem, shmdata, gpc, op, data, pc, resume, kept>>
    BY <1>1 DEF reaper, reaped, updated, shm
  <2>3. rpc'[p] = w /\ \A q \in Procs : q # p => rpc'[q] = rpc[q]
    BY <2>1 DEF Hand, Types
  <2>4. FrameOk(p)'
    BY <1>0, <2>1, <2>2, <2>3 DEF FrameOk
  <2>5. \A q \in Procs : FrameOk(q)'
    BY <1>0, <2>2, <2>3, <2>4 DEF FrameOk
  <2>6. \A s \in kept' : s \in Keepers /\ pc'[s] \notin {"none", "zombie", "handler"}
    BY <2>2 DEF Tally, Limited, Keepers
  <2> QED
    BY <2>2, <2>3, <2>5, <2>6, QuietTally
<1>2. ASSUME NEW s \in Slaves, handler_returns(s) PROVE Tally'
  <2>1. /\ pc[s] = "handler" /\ gpc[Body(s)] = "idle" /\ rpc[s] # "eintr"
        /\ resume[s] \in Resumes /\ resume[s] # "write_eintr"
        /\ pc' = [pc EXCEPT ![s] = resume[s]] /\ resume' = [resume EXCEPT ![s] = "none"]
        /\ UNCHANGED <<sem, shmdata, gpc, op, data, rpc, kept>>
    BY <1>2 DEF handler_returns, Goto, shm, Hand, Places
  <2>2. /\ pc'[s] = resume[s] /\ pc'[s] \in {"read", "write", "close", "zero", "limit"}
        /\ \A q \in Procs : q # s => pc'[q] = pc[q]
        /\ \A q \in Slaves : q # s => resume'[q] = resume[q]
    BY <2>1 DEF Hand, Types, Resumes
  <2>3. FrameOk(s)'
    BY <1>0, <2>1, <2>2 DEF FrameOk
  <2>4. ASSUME NEW q \in Procs, q # s PROVE FrameOk(q)'
    <3>1. pc[q] = "handler" => q \in Slaves
      BY DEF Hand, Places, MasterAt
    <3> QED
      BY <1>0, <2>1, <2>2, <2>4, <3>1 DEF FrameOk
  <2>5. \A r \in kept' : r \in Keepers /\ pc'[r] \notin {"none", "zombie", "handler"}
    <3>1. \A r \in kept : pc[r] \notin {"none", "zombie", "handler"} /\ r \in Procs
      BY DEF Tally, Limited, Hand, Types
    <3> QED
      BY <2>1, <2>2, <3>1 DEF Keepers
  <2>6. \A r \in Slaves : /\ pc'[r] # "none" /\ pc'[r] # pc[r] => r \in Counted
                          /\ pc'[r] = "handler" => pc[r] = "handler"
                          /\ pc'[r] = "check" => pc[r] = "check"
    BY <2>1, <2>2 DEF Counted
  <2>7. \A q \in Procs : FrameOk(q)'
    BY <2>3, <2>4
  <2>8. \A q \in Procs : rpc'[q] = "update" => rpc[q] = "update"
    BY <2>1
  <2> QED
    BY <2>1, <2>5, <2>6, <2>7, <2>8, QuietTally
<1> QED
  BY <1>1, <1>2

\* A slave asks for the count.
LEMMA LimitTally ==
  ASSUME Hand, Tally, NEW s \in Slaves, limit(s)
  PROVE  Tally'
<1> USE Names, FrameNames, ObjectTypes DEF Tally
<1>1. /\ rpc[s] = "none" /\ pc[s] = "limit" /\ pc' = [pc EXCEPT ![s] = "check"]
      /\ gpc' = [gpc EXCEPT ![Body(s)] = "wait"]
      /\ op' = [op EXCEPT ![Body(s)] = [kind |-> "read", fits |-> TRUE]]
      /\ data' = [data EXCEPT ![Body(s)] = 0]
      /\ UNCHANGED <<sem, shmdata, resume, rpc, kept>>
  BY DEF limit, At, Goto, Shm!Call
<1>2. Obj!IInv'
  <2>1. Shm!Call(Body(s), "read", 0, TRUE) /\ Body(s) \in Frames
    BY DEF limit
  <2>2. "read" \in {"read", "dec"} /\ 0 \in Int
    OBVIOUS
  <2>3. Obj!Operation(Body(s))
    BY <2>1, <2>2, OperationsMatch
  <2> QED
    BY <2>1, <2>3, ObjectPreserved
<1>3. /\ pc'[s] = "check" /\ gpc'[Body(s)] = "wait" /\ op'[Body(s)].kind = "read"
      /\ \A q \in Procs : q # s => pc'[q] = pc[q]
      /\ \A f \in Frames : f # Body(s) => gpc'[f] = gpc[f] /\ op'[f] = op[f] /\ data'[f] = data[f]
  BY <1>1 DEF Hand, Types
<1>4. FramesOk'
  <2>1. \A q \in Procs : q # s => FrameOk(q)'
    BY <1>1, <1>3 DEF FramesOk, FrameOk
  <2>2. FrameOk(s)'
    BY <1>1, <1>3 DEF FramesOk, FrameOk
  <2>3. \A f \in Frames : gpc'[f] # "exited" /\ op'[f].fits
    BY <1>1 DEF FramesOk
  <2> QED
    BY <1>1, <2>1, <2>2, <2>3 DEF FramesOk
<1>5. Counted' \subseteq Counted
  BY <1>1, <1>3 DEF Counted
<1>6. Pending' \subseteq Pending
  BY <1>1, <1>3 DEF Pending
<1>7. Keepers' \subseteq Keepers
  BY <1>1, <1>3 DEF Keepers
<1>8. \A r \in kept' : pc'[r] \notin {"none", "zombie", "handler"}
  BY <1>1, <1>3 DEF Limited, Hand, Types
<1> QED
  BY <1>1, <1>2, <1>4, <1>5, <1>6, <1>7, <1>8, NotMore

\* The reaper has waited for a slave and is to count it off: the one slave less is the
\* one reaper more.
LEMMA WaitTally ==
  ASSUME Hand, Tally, NEW z \in Slaves, wait3(z)
  PROVE  Tally'
<1> USE Names, FrameNames, ObjectTypes DEF Tally
<1> DEFINE f == Reaper(Master)
<1>1. /\ rpc[Master] = "wait3" /\ pc[z] = "zombie" /\ pc' = [pc EXCEPT ![z] = "none"]
      /\ rpc' = [rpc EXCEPT ![Master] = "update"]
      /\ gpc[f] = "idle" /\ gpc' = [gpc EXCEPT ![f] = "wait"]
      /\ op' = [op EXCEPT ![f] = [kind |-> "dec", fits |-> TRUE]]
      /\ data' = [data EXCEPT ![f] = data[f]]
      /\ UNCHANGED <<sem, shmdata, resume, kept>>
  BY DEF wait3, Goto, Shm!Call
<1>2. Obj!IInv'
  <2>1. Shm!Call(Reaper(Master), "dec", data[Reaper(Master)], TRUE) /\ Reaper(Master) \in Frames
        /\ data[Reaper(Master)] \in Int
    BY DEF wait3
  <2> QED
    BY <2>1, OperationsMatch, ObjectPreserved
<1>3. /\ pc'[z] = "none" /\ \A q \in Procs : q # z => pc'[q] = pc[q]
      /\ rpc'[Master] = "update" /\ \A q \in Procs : q # Master => rpc'[q] = rpc[q]
      /\ f \in Frames /\ gpc'[f] = "wait" /\ op'[f].kind = "dec"
      /\ \A g \in Frames : g # f => gpc'[g] = gpc[g] /\ op'[g] = op[g]
      /\ \A g \in Frames : data'[g] = data[g]
  BY <1>1 DEF Hand, Types
<1>4. \A q \in Procs : Body(q) \in Frames /\ Body(q) # f /\ (q # Master => Reaper(q) # f)
  OBVIOUS
<1> HIDE DEF f
<1>5. FramesOk'
  <2>1. \A q \in Procs : q # Master /\ q # z => FrameOk(q)'
    BY <1>1, <1>3, <1>4 DEF FramesOk, FrameOk
  <2>2. FrameOk(z)'
    BY <1>1, <1>3, <1>4 DEF FramesOk, FrameOk
  <2>3. FrameOk(Master)'
    <3>1. pc'[Master] = pc[Master] /\ pc[Master] \notin {"none", "zombie", "dead", "handler"}
      BY <1>1, <1>3 DEF FramesOk, FrameOk, Hand, Places, MasterAt
    <3>2. gpc'[Reaper(Master)] = "wait" /\ op'[Reaper(Master)].kind = "dec"
      BY <1>3 DEF f
    <3> QED
      BY <1>1, <1>3, <1>4, <3>1, <3>2 DEF FramesOk, FrameOk
  <2>4. \A g \in Frames : gpc'[g] # "exited" /\ op'[g].fits
    BY <1>1 DEF FramesOk
  <2> QED
    BY <1>1, <2>1, <2>2, <2>3, <2>4 DEF FramesOk
<1>6. z \in Counted /\ Counted' = Counted \ {z}
  BY <1>1, <1>3, <1>4 DEF Counted
<1>7. Master \notin Pending /\ Pending' = Pending \cup {Master}
  <2>1. Master \notin Pending
    BY <1>1 DEF Pending
  <2>2. gpc'[Reaper(Master)] = "wait"
    BY <1>3 DEF f
  <2>3. \A q \in Procs : q # Master => gpc'[Reaper(q)] = gpc[Reaper(q)]
    BY <1>3, <1>4
  <2> QED
    BY <1>3, <2>1, <2>2, <2>3 DEF Pending
<1>8. Keepers' \subseteq Keepers
  BY <1>1, <1>3, <1>4 DEF Keepers
<1>9. CountIs'
  <2>1. Cardinality(Counted') = Cardinality(Counted) - 1
    BY <1>6, CountedSets, Sizes
  <2>2. Cardinality(Pending') = Cardinality(Pending) + 1
    BY <1>7, CountedSets, Sizes
  <2> QED
    BY <1>1, <2>1, <2>2, CountedSets DEF CountIs
<1>10. Limited'
  <2>1. \A r \in kept' : pc'[r] \notin {"none", "zombie", "handler"}
    BY <1>1, <1>3 DEF Limited, Hand, Types
  <2>2. Cardinality(Keepers') <= Cardinality(Keepers) /\ Cardinality(Keepers') \in Nat
    BY <1>8, CountedSets, Sizes
  <2> QED
    BY <2>1, <2>2, CountedSets, ConstantsAssumption DEF Limited
<1> QED
  BY <1>2, <1>5, <1>9, <1>10

\* A step inside the object.  A store counts a slave in or off, a copy of the count makes a
\* slave one that may stay; nothing else is larger than before.
LEMMA ObjectTally ==
  ASSUME Hand, Tally, NEW p \in Procs, object_step(p)
  PROVE  Tally'
<1> USE Names, FrameNames, ObjectTypes, ConstantsAssumption DEF Tally
<1>0. \A q \in Procs : FrameOk(q)
  BY DEF FramesOk
<1>1. UNCHANGED <<pc, resume, rpc, kept>>
  BY DEF object_step, procs
<1>2. PICK f \in Frames : /\ Shm!Step(f)
                          /\ f = Body(p) \/ (f = Reaper(p) /\ pc[p] # "handler")
  BY DEF object_step
<1>3. Obj!IInv'
  BY <1>2, OperationsMatch, ObjectPreserved
<1>4. gpc[f] \in {"wait", "held", "loaded", "stored"}
  BY <1>2 DEF Shm!Step, Shm!sem_wait, Shm!length_error, Shm!read_copy, Shm!write_copy,
              Shm!update_load, Shm!update_store, Shm!sem_signal
<1>5. /\ f = Body(p) => /\ p \in Slaves /\ pc[p] \in {"handler", "check"}
                        /\ op[f].kind = IF pc[p] = "handler" THEN "inc" ELSE "read"
      /\ f = Reaper(p) => rpc[p] = "update" /\ op[f].kind = "dec" /\ pc[p] # "handler"
  <2>1. ASSUME f = Body(p)
        PROVE  /\ p \in Slaves /\ pc[p] \in {"handler", "check"}
               /\ op[f].kind = IF pc[p] = "handler" THEN "inc" ELSE "read"
    <3>1. pc[p] \in {"handler", "check"}
      BY <1>0, <1>4, <2>1 DEF FrameOk
    <3>2. p # Master
      BY <3>1 DEF Hand, Places, MasterAt
    <3> QED
      BY <1>0, <2>1, <3>1, <3>2 DEF FrameOk
  <2>2. ASSUME f = Reaper(p) PROVE rpc[p] = "update" /\ op[f].kind = "dec" /\ pc[p] # "handler"
    <3>1. pc[p] # "handler"
      BY <1>2, <2>2
    <3>2. rpc[p] \in {"none", "wait3", "update", "eintr"}
      BY DEF Hand, Types
    <3> QED
      BY <1>0, <1>4, <2>2, <3>1, <3>2 DEF FrameOk
  <2> QED
    BY <2>1, <2>2
<1>6. op' = op /\ sem' # Obj!Removed
      /\ \A g \in Frames : g # f => gpc'[g] = gpc[g] /\ data'[g] = data[g]
  BY <1>2 DEF Shm!Step, Shm!sem_wait, Shm!length_error, Shm!read_copy, Shm!write_copy,
              Shm!update_load, Shm!update_store, Shm!sem_signal, Shm!Removed, Obj!Removed,
              FramesOk
<1>7. /\ gpc'[f] \in {"idle", "held", "loaded", "stored"}
      /\ gpc'[f] = "loaded" => op[f].kind \in {"inc", "dec"}
  BY <1>2 DEF Shm!Step, Shm!sem_wait, Shm!length_error, Shm!read_copy, Shm!write_copy,
              Shm!update_load, Shm!update_store, Shm!sem_signal, Shm!Removed, Obj!Removed,
              FramesOk
<1>8. FramesOk'
  <2>1. \A q \in Procs : FrameOk(q)'
    <3> SUFFICES ASSUME NEW q \in Procs PROVE FrameOk(q)'
      OBVIOUS
    <3>1. CASE f = Body(q)
      <4>1. q = p
        BY <1>2, <3>1
      <4>2. gpc'[Reaper(q)] = gpc[Reaper(q)]
        BY <1>6, <3>1
      <4> QED
        BY <1>0, <1>1, <1>5, <1>6, <1>7, <3>1, <4>1, <4>2 DEF FrameOk
    <3>2. CASE f = Reaper(q)
      <4>1. q = p
        BY <1>2, <3>2
      <4>2. gpc'[Body(q)] = gpc[Body(q)]
        BY <1>6, <3>2
      <4> QED
        BY <1>0, <1>1, <1>5, <1>6, <1>7, <3>2, <4>1, <4>2 DEF FrameOk
    <3>3. CASE f # Body(q) /\ f # Reaper(q)
      BY <1>0, <1>1, <1>6, <3>3 DEF FrameOk
    <3> QED
      BY <3>1, <3>2, <3>3
  <2>2. \A g \in Frames : gpc'[g] # "exited" /\ op'[g].fits
    BY <1>6, <1>7 DEF FramesOk
  <2> QED
    BY <1>6, <2>1, <2>2 DEF FramesOk
<1>9. \A r \in kept' : pc'[r] \notin {"none", "zombie", "handler"}
  BY <1>1 DEF Limited
<1>10. CASE Shm!update_store(f) /\ f = Body(p)
  <2>1. /\ gpc[f] = "loaded" /\ data[f] = shmdata /\ op[f].kind \in {"inc", "dec"}
        /\ gpc'[f] = "stored"
        /\ data' = [data EXCEPT ![f] = IF op[f].kind = "inc" THEN data[f] + 1 ELSE data[f] - 1]
        /\ shmdata' = data'[f]
    BY <1>10 DEF Shm!update_store
  <2>2. pc[p] = "handler" /\ op[f].kind = "inc"
    BY <1>5, <1>10, <2>1
  <2>3. shmdata' = shmdata + 1
    BY <2>1, <2>2
  <2>4. p \notin Counted /\ Counted' = Counted \cup {p}
    <3>1. p \notin Counted
      BY <1>10, <2>1, <2>2 DEF Counted
    <3>2. \A q \in Slaves : q # p => gpc'[Body(q)] = gpc[Body(q)]
      BY <1>6, <1>10
    <3>3. gpc'[Body(p)] = "stored" /\ p \in Slaves
      BY <1>5, <1>10, <2>1
    <3> QED
      BY <1>1, <2>2, <3>1, <3>2, <3>3 DEF Counted
  <2>5. Pending' = Pending
    BY <1>1, <1>6, <1>10 DEF Pending
  <2>6. Keepers' = Keepers
    BY <1>1, <1>6, <1>10, <2>2 DEF Keepers
  <2>7. CountIs'
    <3>1. Cardinality(Counted') = Cardinality(Counted) + 1
      BY <2>4, CountedSets, Sizes
    <3> QED
      BY <2>3, <2>5, <3>1, CountedSets DEF CountIs
  <2>8. Limited'
    BY <1>9, <2>6 DEF Limited
  <2> QED
    BY <1>3, <1>8, <2>7, <2>8
<1>11. CASE Shm!update_store(f) /\ f = Reaper(p)
  <2>1. /\ gpc[f] = "loaded" /\ data[f] = shmdata /\ gpc'[f] = "stored"
        /\ data' = [data EXCEPT ![f] = IF op[f].kind = "inc" THEN data[f] + 1 ELSE data[f] - 1]
        /\ shmdata' = data'[f]
    BY <1>11 DEF Shm!update_store
  <2>2. shmdata' = shmdata - 1
    BY <1>5, <1>11, <2>1
  <2>3. Counted' = Counted
    BY <1>1, <1>6, <1>11 DEF Counted
  <2>4. p \in Pending /\ Pending' = Pending \ {p}
    <3>1. p \in Pending
      BY <1>5, <1>11, <2>1 DEF Pending
    <3>2. gpc'[Reaper(p)] = "stored"
      BY <1>11, <2>1
    <3>3. \A q \in Procs : q # p => gpc'[Reaper(q)] = gpc[Reaper(q)]
      BY <1>6, <1>11
    <3> QED
      BY <1>1, <3>1, <3>2, <3>3 DEF Pending
  <2>5. Keepers' = Keepers
    BY <1>1, <1>6, <1>11 DEF Keepers
  <2>6. CountIs'
    <3>1. Cardinality(Pending') = Cardinality(Pending) - 1
      BY <2>4, CountedSets, Sizes
    <3> QED
      BY <2>2, <2>3, <3>1, CountedSets DEF CountIs
  <2>7. Limited'
    BY <1>9, <2>5 DEF Limited
  <2> QED
    BY <1>3, <1>8, <2>6, <2>7
<1>12. CASE Shm!read_copy(f)
  <2>1. /\ gpc[f] = "held" /\ op[f].kind = "read" /\ data' = [data EXCEPT ![f] = shmdata]
        /\ gpc' = [gpc EXCEPT ![f] = "stored"] /\ shmdata' = shmdata
    BY <1>12 DEF Shm!read_copy
  <2>2. f = Body(p) /\ pc[p] = "check" /\ p \in Slaves
    BY <1>2, <1>5, <2>1
  <2>3. data'[f] = shmdata /\ gpc'[f] = "stored"
    BY <2>1
  <2>4. Counted' = Counted
    BY <1>1, <1>6, <2>2 DEF Counted
  <2>5. Pending' = Pending
    BY <1>1, <1>6, <2>2 DEF Pending
  <2>6. \A q \in Slaves : q # p => gpc'[Body(q)] = gpc[Body(q)] /\ data'[Body(q)] = data[Body(q)]
    BY <1>6, <2>2
  <2>7. CASE shmdata <= MAXCRTLVL
    <3>1. Keepers' \subseteq Counted
      <4>1. \A r \in kept : r \in Slaves /\ pc[r] \notin {"none", "handler"}
        BY DEF Limited, Hand, Types
      <4> QED
        BY <1>1, <4>1 DEF Keepers, Counted
    <3>2. Cardinality(Keepers') <= Cardinality(Counted) /\ Cardinality(Keepers') \in Nat
      BY <3>1, CountedSets, Sizes
    <3>3. Cardinality(Keepers') <= MAXCRTLVL
      BY <2>7, <3>2, CountedSets DEF CountIs
    <3>4. CountIs'
      BY <2>1, <2>4, <2>5 DEF CountIs
    <3>5. Limited'
      BY <1>9, <3>3 DEF Limited
    <3> QED
      BY <1>3, <1>8, <3>4, <3>5
  <2>8. CASE ~(shmdata <= MAXCRTLVL)
    <3>1. Keepers' \subseteq Keepers
      BY <1>1, <2>2, <2>3, <2>6, <2>8 DEF Keepers
    <3> QED
      BY <1>3, <1>8, <1>9, <2>1, <2>4, <2>5, <3>1, NotMore
  <2> QED
    BY <2>7, <2>8
<1>13. CASE Shm!sem_wait(f) \/ Shm!update_load(f) \/ Shm!sem_signal(f)
  <2>1. /\ shmdata' = shmdata
        /\ gpc'[f] \in {"held", "loaded", "idle"}
        /\ gpc'[f] = "idle" <=> gpc[f] = "stored"
        /\ gpc[f] \in {"wait", "held", "stored"}
        /\ gpc[f] = "stored" => data'[f] = data[f]
    BY <1>4, <1>13 DEF Shm!sem_wait, Shm!update_load, Shm!sem_signal, Shm!Removed, Obj!Removed,
                       FramesOk
  <2>2. \A g \in Frames : /\ gpc'[g] \in {"stored", "idle"} <=> gpc[g] \in {"stored", "idle"}
                          /\ gpc'[g] \in {"stored", "idle"} => data'[g] = data[g]
                          /\ gpc'[g] \in {"wait", "held", "loaded"}
                                => gpc[g] \in {"wait", "held", "loaded"}
    BY <1>6, <2>1
  <2>3. Counted' = Counted
    BY <1>1, <2>2 DEF Counted
  <2>4. Pending' \subseteq Pending
    BY <1>1, <2>2 DEF Pending
  <2>5. Keepers' \subseteq Keepers
    BY <1>1, <2>2 DEF Keepers
  <2> QED
    BY <1>3, <1>8, <1>9, <2>1, <2>3, <2>4, <2>5, NotMore
<1>14. ~Shm!length_error(f) /\ ~Shm!write_copy(f)
  <2>1. op[f].fits /\ op[f].kind # "write"
    BY <1>2, <1>5 DEF FramesOk
  <2> QED
    BY <2>1 DEF Shm!length_error, Shm!write_copy
<1> QED
  BY <1>2, <1>10, <1>11, <1>12, <1>13, <1>14 DEF Shm!Step

\* A process ends: only a master in its reaper can leave the semaphore taken.
LEMMA EndsTally ==
  ASSUME Hand, Tally, NEW p \in Procs, Ends(p), pc[p] \notin {"none", "zombie", "dead"},
         gpc[Body(p)] = "idle", p # Master => gpc[Reaper(p)] \in {"idle", "wait"}
  PROVE  Tally'
<1> USE Names, FrameNames, ObjectTypes DEF Tally
<1>0. \A q \in Procs : FrameOk(q)
  BY DEF FramesOk
<1>1. /\ pc'[p] \in {"dead", "zombie", "none"} /\ (pc'[p] = "dead" <=> p = Master)
      /\ \A q \in Procs : q # p => pc'[q] = pc[q] \/ (pc[q] = "zombie" /\ pc'[q] = "none")
      /\ \A s \in Slaves : s # p => resume'[s] = resume[s]
      /\ kept' \subseteq kept /\ p \notin kept'
  BY EndsEffect DEF Hand
<1>2. rpc'[p] = "none" /\ \A q \in Procs : q # p => rpc'[q] = rpc[q]
  <2>1. rpc' = [rpc EXCEPT ![p] = "none"]
    BY DEF Ends
  <2> QED
    BY <2>1 DEF Hand, Types
<1>3. /\ gpc' = [f \in Frames |-> IF f[1] = p THEN Frozen(gpc[f]) ELSE gpc[f]]
      /\ UNCHANGED <<sem, shmdata, op, data>>
  BY DEF Ends
<1>4. \A f \in Frames : /\ f[1] = p => gpc'[f] = IF gpc[f] \in {"held", "loaded", "stored"}
                                                   THEN "died" ELSE "idle"
                        /\ f[1] # p => gpc'[f] = gpc[f]
  BY <1>3 DEF Frozen, Shm!Section
<1>5. /\ gpc'[Body(p)] = "idle" /\ gpc'[Reaper(p)] \in {"idle", "died"}
      /\ gpc'[Reaper(p)] = "died" => p = Master
      /\ \A q \in Procs : q # p => gpc'[Body(q)] = gpc[Body(q)] /\ gpc'[Reaper(q)] = gpc[Reaper(q)]
      /\ gpc' \in [Frames -> {"held", "loaded", "stored", "idle", "wait", "exited", "died"}]
  <2>1. gpc'[Body(p)] = "idle" /\ gpc'[Reaper(p)] \in {"idle", "died"}
    BY <1>4
  <2>2. gpc'[Reaper(p)] = "died" => p = Master
    BY <1>4
  <2>3. \A q \in Procs : q # p => gpc'[Body(q)] = gpc[Body(q)] /\ gpc'[Reaper(q)] = gpc[Reaper(q)]
    BY <1>4
  <2>4. \A f \in Frames : gpc'[f] \in {"held", "loaded", "stored", "idle", "wait", "exited", "died"}
    BY <1>4
  <2> QED
    BY <1>3, <2>1, <2>2, <2>3, <2>4
<1>6. Obj!IInv'
  <2>1. \A f \in Frames : gpc'[f] \in {"held", "loaded", "stored", "died"}
                            <=> gpc[f] \in {"held", "loaded", "stored", "died"}
    <3>1. gpc[Reaper(p)] # "died" /\ gpc[Body(p)] # "died"
      BY <1>0 DEF FrameOk
    <3>2. \A f \in Frames : f[1] = p => f = Body(p) \/ f = Reaper(p)
      OBVIOUS
    <3> QED
      BY <1>4, <3>1, <3>2
  <2>2. Obj!Inside' = Obj!Inside
    BY <2>1 DEF Obj!Inside, Obj!Section
  <2>3. Obj!TypeOK'
    BY <1>3, <1>5 DEF Obj!TypeOK, Obj!IInv, Obj!Section
  <2>4. Obj!LoadedIsCurrent' /\ Obj!OnlyUpdatesLoad'
    BY <1>3, <1>4 DEF Obj!LoadedIsCurrent, Obj!OnlyUpdatesLoad
  <2>5. Obj!OneInside' /\ Obj!TakenIffInside'
    BY <1>3, <2>2 DEF Obj!OneInside, Obj!TakenIffInside, Obj!IInv
  <2> QED
    BY <2>3, <2>4, <2>5 DEF Obj!IInv
<1>7. FramesOk'
  <2>1. FrameOk(p)'
    BY <1>0, <1>1, <1>2, <1>3, <1>5 DEF FrameOk
  <2>2. ASSUME NEW q \in Procs, q # p PROVE FrameOk(q)'
    <3>1. pc'[q] = "handler" => q \in Slaves
      BY <1>1, <2>2 DEF Hand, Places, MasterAt
    <3>2. CASE pc'[q] = pc[q]
      <4>1. /\ rpc'[q] = rpc[q] /\ op' = op /\ gpc'[Body(q)] = gpc[Body(q)]
            /\ gpc'[Reaper(q)] = gpc[Reaper(q)] /\ FrameOk(q)
            /\ pc[q] = "handler" => resume'[q] = resume[q]
        BY <1>0, <1>1, <1>2, <1>3, <1>5, <2>2, <3>1, <3>2
      <4> QED
        BY <3>2, <4>1 DEF FrameOk
    <3>3. CASE pc[q] = "zombie" /\ pc'[q] = "none"
      BY <1>0, <1>2, <1>3, <1>5, <2>2, <3>3 DEF FrameOk
    <3> QED
      BY <1>1, <2>2, <3>2, <3>3
  <2>3. sem' # Obj!Removed /\ \A f \in Frames : gpc'[f] # "exited" /\ op'[f].fits
    BY <1>3, <1>4 DEF FramesOk
  <2> QED
    BY <2>1, <2>2, <2>3 DEF FramesOk
<1>8. Counted' \subseteq Counted
  BY <1>1, <1>5 DEF Counted
<1>9. Pending' \subseteq Pending
  BY <1>2, <1>5 DEF Pending
<1>10. Keepers' \subseteq Keepers
  BY <1>1, <1>3, <1>5 DEF Keepers
<1>11. \A r \in kept' : pc'[r] \notin {"none", "zombie", "handler"}
  <2>1. \A r \in kept' : r # p /\ r \in Procs /\ pc[r] \notin {"none", "zombie", "handler"}
    BY <1>1 DEF Limited, Hand, Types
  <2> QED
    BY <1>1, <2>1
<1> QED
  BY <1>3, <1>6, <1>7, <1>8, <1>9, <1>10, <1>11, NotMore

\* The steps that end a process are of that kind.
LEMMA EndStepTally ==
  ASSUME Hand, Tally,
         \/ \E p \in Procs : read_reset(p) \/ write_reset(p)
         \/ \E s \in Slaves : over_limit(s) \/ inactive(s) \/ interrupted(s)
         \/ fork_fails
  PROVE  Tally'
<1> USE Names
<1>0. \A q \in Procs : FrameOk(q)
  BY DEF Tally, FramesOk
<1>1. ASSUME NEW p \in Procs, read_reset(p) \/ write_reset(p) PROVE Tally'
  <2>1. Ends(p) /\ rpc[p] = "none" /\ pc[p] \in {"read", "write"}
    BY <1>1 DEF read_reset, write_reset, At
  <2> QED
    BY <2>1, OnTop, EndsTally
<1>2. ASSUME NEW s \in Slaves, over_limit(s) \/ inactive(s) PROVE Tally'
  <2>1. /\ Ends(s) /\ rpc[s] = "none" /\ pc[s] \in {"check", "select"}
        /\ pc[s] = "check" => gpc[Body(s)] = "idle"
    BY <1>2 DEF over_limit, inactive, At
  <2>2. gpc[Body(s)] = "idle" /\ gpc[Reaper(s)] = "idle"
    BY <1>0, <2>1 DEF FrameOk
  <2> QED
    BY <2>1, <2>2, EndsTally
<1>3. ASSUME NEW s \in Slaves, interrupted(s) PROVE Tally'
  <2>1. /\ Ends(s) /\ pc[s] = "handler" /\ gpc[Body(s)] = "idle"
        /\ resume[s] = "write_eintr" \/ rpc[s] = "eintr"
    BY <1>3 DEF interrupted
  <2>2. gpc[Reaper(s)] \in {"idle", "wait"}
    BY <1>0, <2>1 DEF FrameOk
  <2> QED
    BY <2>1, <2>2, EndsTally
<1>4. CASE fork_fails
  <2>1. Ends(Master) /\ pc[Master] \in {"read", "write", "close", "zero", "disarm"}
    BY <1>4 DEF fork_fails, Hand, Places
  <2>2. gpc[Body(Master)] = "idle"
    BY <1>0, <2>1 DEF FrameOk
  <2> QED
    BY <2>1, <2>2, EndsTally
<1> QED
  BY <1>1, <1>2, <1>3, <1>4

\* The alarm: the reaper's frame, and what it is still to count off, goes from the master to
\* the slave, or ends with it.
LEMMA AlarmTally ==
  ASSUME Hand, Tally, NEW s \in Slaves, delayed_alloctn_cb(s)
  PROVE  Tally'
<1> USE Names, FrameNames, ObjectTypes DEF Tally
<1>0. \A q \in Procs : FrameOk(q)
  BY DEF FramesOk
<1>1. PICK blocked \in BOOLEAN : Child(s, blocked) /\ (blocked => At(Master, "write"))
  BY DEF delayed_alloctn_cb
<1>2. /\ armed /\ pc[s] = "none" /\ pc' = [pc EXCEPT ![s] = "handler", ![Master] = "jumped"]
      /\ UNCHANGED <<sem, shmdata, kept>>
  BY DEF delayed_alloctn_cb
<1>3. /\ gpc' = [gpc EXCEPT ![Body(s)] = "wait", ![Reaper(s)] = gpc[Reaper(Master)],
                            ![Reaper(Master)] = "idle"]
      /\ op' = [op EXCEPT ![Body(s)] = [kind |-> "inc", fits |-> TRUE],
                          ![Reaper(s)] = op[Reaper(Master)]]
      /\ data' = [data EXCEPT ![Body(s)] = 0, ![Reaper(s)] = data[Reaper(Master)]]
  BY <1>1 DEF Child
<1>4. /\ pc'[s] = "handler" /\ pc'[Master] = "jumped"
      /\ \A q \in Procs : q # s /\ q # Master => pc'[q] = pc[q]
      /\ pc[Master] \in {"read", "write", "close", "zero", "disarm"}
  BY <1>2 DEF Hand, Types, Places
<1>5. PICK w \in {"none", "wait3", "update", "eintr"} :
        /\ rpc' = [rpc EXCEPT ![s] = w, ![Master] = "none"]
        /\ w = rpc[Master] \/ (w = "eintr" /\ gpc[Reaper(Master)] = "wait")
  BY <1>1 DEF Child, Hand, Types
<1>6. rpc'[s] = w /\ rpc'[Master] = "none" /\ \A q \in Procs : q # s /\ q # Master => rpc'[q] = rpc[q]
  BY <1>5 DEF Hand, Types
<1>7. \A q \in Slaves : q # s => resume'[q] = resume[q]
  <2>1. \E to : resume' = [resume EXCEPT ![s] = to]
    BY <1>1 DEF Child
  <2> QED
    BY <2>1 DEF Hand, Types
<1>8. resume'[s] = "write_eintr" => rpc[Master] = "none"
  <2>1. CASE blocked
    BY <1>1, <2>1 DEF At
  <2>2. CASE ~blocked
    <3>1. resume' = [resume EXCEPT ![s] = IF pc[Master] = "disarm" THEN "limit" ELSE pc[Master]]
      BY <1>1, <1>4, <2>2 DEF Child
    <3>2. resume'[s] # "write_eintr"
      BY <1>4, <3>1 DEF Hand, Types
    <3> QED
      BY <3>2
  <2> QED
    BY <2>1, <2>2
<1>9. /\ gpc[Body(s)] = "idle" /\ gpc[Reaper(s)] = "idle" /\ gpc[Body(Master)] = "idle"
      /\ gpc[Reaper(Master)] # "died" /\ rpc[s] = "none" /\ rpc[Master] # "eintr"
  BY <1>0, <1>2, <1>4 DEF FrameOk
<1>10. /\ gpc'[Body(s)] = "wait" /\ gpc'[Reaper(s)] = gpc[Reaper(Master)]
       /\ gpc'[Reaper(Master)] = "idle"
       /\ op'[Body(s)].kind = "inc" /\ op'[Body(s)].fits /\ op'[Reaper(s)] = op[Reaper(Master)]
       /\ data'[Reaper(s)] = data[Reaper(Master)]
       /\ \A f \in Frames : f # Body(s) /\ f # Reaper(s) /\ f # Reaper(Master) => gpc'[f] = gpc[f]
       /\ \A f \in Frames : f # Body(s) /\ f # Reaper(s) => op'[f] = op[f] /\ data'[f] = data[f]
  <2>1. /\ Body(s) \in Frames /\ Reaper(s) \in Frames /\ Reaper(Master) \in Frames
        /\ Body(s) # Reaper(s) /\ Body(s) # Reaper(Master) /\ Reaper(s) # Reaper(Master)
    OBVIOUS
  <2> QED
    BY <1>3, <2>1
<1>11. /\ gpc' \in [Frames -> {"held", "loaded", "stored", "idle", "wait", "exited", "died"}]
       /\ op' \in [Frames -> [kind : {"read", "write", "inc", "dec"}, fits : BOOLEAN]]
       /\ data' \in [Frames -> Int]
  <2>1. Reaper(Master) \in Frames
    OBVIOUS
  <2>2. /\ gpc \in [Frames -> {"held", "loaded", "stored", "idle", "wait", "exited", "died"}]
        /\ op \in [Frames -> [kind : {"read", "write", "inc", "dec"}, fits : BOOLEAN]]
        /\ data \in [Frames -> Int]
    BY DEF Obj!IInv, Obj!TypeOK, Obj!Section, Obj!Kinds
  <2>3. PICK g \in {"held", "loaded", "stored", "idle", "wait", "exited", "died"} :
          g = gpc[Reaper(Master)]
    BY <2>1, <2>2
  <2>4. PICK o \in [kind : {"read", "write", "inc", "dec"}, fits : BOOLEAN] :
          o = op[Reaper(Master)]
    BY <2>1, <2>2
  <2>5. PICK d \in Int : d = data[Reaper(Master)]
    BY <2>1, <2>2
  <2>6. [kind |-> "inc", fits |-> TRUE] \in [kind : {"read", "write", "inc", "dec"}, fits : BOOLEAN]
    OBVIOUS
  <2>7. gpc' \in [Frames -> {"held", "loaded", "stored", "idle", "wait", "exited", "died"}]
    BY <1>3, <2>2, <2>3
  <2>8. op' \in [Frames -> [kind : {"read", "write", "inc", "dec"}, fits : BOOLEAN]]
    BY <1>3, <2>2, <2>4, <2>6
  <2>9. data' \in [Frames -> Int]
    BY <1>3, <2>2, <2>5
  <2> QED
    BY <2>7, <2>8, <2>9
<1>12. Obj!IInv'
  <2> DEFINE Moved(f) == IF f = Reaper(s) THEN Reaper(Master) ELSE f
  <2>1. \A f \in Frames : gpc'[f] \in {"held", "loaded", "stored", "died"}
          => /\ f # Body(s) /\ f # Reaper(Master) /\ Moved(f) \in Frames
             /\ gpc[Moved(f)] = gpc'[f] /\ op[Moved(f)] = op'[f] /\ data[Moved(f)] = data'[f]
    BY <1>10
  <2>2. \A f, g \in Frames : f # Reaper(Master) /\ g # Reaper(Master) /\ Moved(f) = Moved(g) => f = g
    OBVIOUS
  <2>3. \A f \in Frames : gpc[f] \in {"held", "loaded", "stored", "died"}
          => \E g \in Frames : gpc'[g] = gpc[f]
    <3> SUFFICES ASSUME NEW f \in Frames, gpc[f] \in {"held", "loaded", "stored", "died"}
                 PROVE  \E g \in Frames : gpc'[g] = gpc[f]
      OBVIOUS
    <3>1. CASE f = Reaper(Master)
      BY <1>10, <3>1
    <3>2. CASE f # Reaper(Master)
      BY <1>9, <1>10, <3>2
    <3> QED
      BY <3>1, <3>2
  <2>4. Obj!TypeOK'
    BY <1>2, <1>11 DEF Obj!TypeOK, Obj!IInv, Obj!Section, Obj!Kinds
  <2>5. \A f \in Obj!Inside' : /\ f \in Frames /\ f # Reaper(Master)
                               /\ gpc'[f] \in {"held", "loaded", "stored", "died"}
                               /\ Moved(f) \in Obj!Inside
    BY <2>1 DEF Obj!Inside, Obj!Section
  <2>6. Obj!OneInside'
    <3>1. \A f, g \in Obj!Inside : f = g
      BY DEF Obj!IInv, Obj!OneInside
    <3> HIDE DEF Moved
    <3>2. \A f, g \in Obj!Inside' : f = g
      BY <2>2, <2>5, <3>1
    <3> QED
      BY <3>2 DEF Obj!OneInside
  <2>7. Obj!Inside' = {} <=> Obj!Inside = {}
    <3>1. \A f \in Obj!Inside : f \in Frames /\ gpc[f] \in {"held", "loaded", "stored", "died"}
      BY DEF Obj!Inside, Obj!Section
    <3>2. \A g \in Frames : gpc'[g] \in {"held", "loaded", "stored", "died"} => g \in Obj!Inside'
      BY DEF Obj!Inside, Obj!Section
    <3> HIDE DEF Moved
    <3> QED
      <4>1. Obj!Inside' # {} => Obj!Inside # {}
        BY <2>5
      <4>2. ASSUME NEW f \in Obj!Inside PROVE Obj!Inside' # {}
        <5>1. PICK g \in Frames : gpc'[g] = gpc[f]
          BY <2>3, <3>1
        <5> QED
          BY <3>1, <3>2, <5>1
      <4> QED
        BY <4>1, <4>2
  <2>8. Obj!TakenIffInside'
    BY <1>2, <2>7 DEF Obj!TakenIffInside, Obj!IInv
  <2>9. Obj!LoadedIsCurrent' /\ Obj!OnlyUpdatesLoad'
    <3>1. ASSUME NEW f \in Frames, gpc'[f] = "loaded"
          PROVE  data'[f] = shmdata' /\ op'[f].kind \in {"inc", "dec"}
      <4>1. /\ Moved(f) \in Frames /\ gpc[Moved(f)] = "loaded"
            /\ op[Moved(f)] = op'[f] /\ data[Moved(f)] = data'[f]
        BY <2>1, <3>1
      <4> HIDE DEF Moved
      <4> QED
        BY <1>2, <4>1
    <3> QED
      BY <3>1 DEF Obj!LoadedIsCurrent, Obj!OnlyUpdatesLoad
  <2> QED
    BY <2>4, <2>6, <2>8, <2>9 DEF Obj!IInv
<1>13. FramesOk'
  <2>1. FrameOk(s)'
    <3>1. gpc[Reaper(Master)] \in {"idle", "died"} \/ rpc[Master] = "update"
      BY <1>0, <1>9 DEF FrameOk, Hand, Types
    <3>2. rpc[Master] = "update" => op[Reaper(Master)].kind = "dec"
      BY <1>0 DEF FrameOk
    <3>3. rpc[Master] \in {"none", "wait3"} => gpc[Reaper(Master)] = "idle"
      BY <1>0, <1>9 DEF FrameOk
    <3>4. w # "none" => resume'[s] # "write_eintr"
      <4>1. rpc[Master] = "none" => w = "none"
        BY <1>5, <3>3
      <4> QED
        BY <1>8, <4>1
    <3> QED
      BY <1>4, <1>5, <1>6, <1>9, <1>10, <3>2, <3>3, <3>4 DEF FrameOk
  <2>2. FrameOk(Master)'
    <3>1. gpc'[Body(Master)] = "idle"
      BY <1>9, <1>10
    <3> QED
      BY <1>4, <1>6, <1>10, <3>1 DEF FrameOk
  <2>3. ASSUME NEW q \in Procs, q # s, q # Master PROVE FrameOk(q)'
    <3>1. /\ gpc'[Body(q)] = gpc[Body(q)] /\ gpc'[Reaper(q)] = gpc[Reaper(q)]
          /\ op'[Body(q)] = op[Body(q)] /\ op'[Reaper(q)] = op[Reaper(q)]
          /\ pc'[q] = pc[q] /\ rpc'[q] = rpc[q] /\ resume'[q] = resume[q] /\ FrameOk(q)
      BY <1>0, <1>4, <1>6, <1>7, <1>10, <2>3
    <3> QED
      BY <3>1 DEF FrameOk
  <2>4. ASSUME NEW f \in Frames PROVE gpc'[f] # "exited" /\ op'[f].fits
    <3>1. \A g \in Frames : gpc[g] # "exited" /\ op[g].fits
      BY DEF FramesOk
    <3> QED
      BY <1>10, <3>1
  <2> QED
    BY <1>2, <2>1, <2>2, <2>3, <2>4 DEF FramesOk
<1>14. Counted' \subseteq Counted
  <2>1. \A q \in Slaves : q # s => gpc'[Body(q)] = gpc[Body(q)] /\ pc'[q] = pc[q]
    BY <1>4, <1>10
  <2> QED
    BY <1>4, <1>10, <2>1 DEF Counted
<1>15. Keepers' \subseteq Keepers
  <2>1. \A q \in Slaves : q # s => /\ gpc'[Body(q)] = gpc[Body(q)] /\ pc'[q] = pc[q]
                                   /\ data'[Body(q)] = data[Body(q)]
    BY <1>4, <1>10
  <2> QED
    BY <1>2, <1>4, <2>1 DEF Keepers
<1>16. \A r \in kept' : pc'[r] \notin {"none", "zombie", "handler"}
  <2>1. \A r \in kept : r \in Slaves /\ pc[r] \notin {"none", "zombie", "handler"}
    BY DEF Limited, Hand, Types
  <2> QED
    BY <1>2, <1>4, <2>1
<1>17. \A q \in Procs : q \in Pending' => q \in Pending \/ (q = s /\ Master \in Pending)
  <2>1. Master \notin Pending'
    BY <1>6 DEF Pending
  <2>2. s \in Pending' => Master \in Pending
    BY <1>5, <1>6, <1>10 DEF Pending
  <2>3. ASSUME NEW q \in Procs, q # s, q # Master PROVE q \in Pending' => q \in Pending
    <3>1. gpc'[Reaper(q)] = gpc[Reaper(q)]
      BY <1>10, <2>3
    <3> QED
      BY <1>6, <2>3, <3>1 DEF Pending
  <2> QED
    BY <2>1, <2>2, <2>3
<1>18. Cardinality(Pending') <= Cardinality(Pending) /\ Cardinality(Pending') \in Nat
  <2>0. Pending' \subseteq Procs /\ Master \notin Pending'
    BY <1>6 DEF Pending
  <2>1. CASE Master \in Pending
    <3> DEFINE R == Pending \ {Master}
    <3>1. Cardinality(R) = Cardinality(Pending) - 1 /\ R \in SUBSET Procs
      BY <2>1, CountedSets, Sizes
    <3>2. s \notin R
      BY <1>9 DEF Pending
    <3>3. Pending' \subseteq R \cup {s}
      BY <1>17, <2>0
    <3> HIDE DEF R
    <3>4. Cardinality(R \cup {s}) = Cardinality(R) + 1 /\ R \cup {s} \in SUBSET Procs
      BY <3>1, <3>2, Sizes
    <3>5. Cardinality(Pending') <= Cardinality(R \cup {s}) /\ Cardinality(Pending') \in Nat
      BY <3>3, <3>4, Sizes
    <3> QED
      BY <3>1, <3>4, <3>5, CountedSets
  <2>2. CASE Master \notin Pending
    <3>1. Pending' \subseteq Pending
      BY <1>17, <2>0, <2>2
    <3> QED
      BY <3>1, CountedSets, Sizes
  <2> QED
    BY <2>1, <2>2
<1>19. CountIs'
  <2>1. Cardinality(Counted') <= Cardinality(Counted) /\ Cardinality(Counted') \in Nat
    BY <1>14, CountedSets, Sizes
  <2> QED
    BY <1>2, <1>18, <2>1, CountedSets DEF CountIs
<1>20. Limited'
  <2>1. Cardinality(Keepers') <= Cardinality(Keepers) /\ Cardinality(Keepers') \in Nat
    BY <1>15, CountedSets, Sizes
  <2> QED
    BY <1>16, <2>1, CountedSets, ConstantsAssumption DEF Limited
<1> QED
  BY <1>12, <1>13, <1>19, <1>20

\* Every step preserves the invariant.
LEMMA NextTally == Hand /\ Tally /\ [Next]_vars => Tally'
<1> SUFFICES ASSUME Hand, Tally, [Next]_vars PROVE Tally'
  OBVIOUS
<1>1. CASE UNCHANGED vars
  BY <1>1 DEF vars, Tally, Obj!IInv, Obj!TypeOK, Obj!OneInside, Obj!TakenIffInside,
     Obj!Inside, Obj!LoadedIsCurrent, Obj!OnlyUpdatesLoad, FramesOk, FrameOk, CountIs, Counted,
     Pending, Limited, Keepers
<1>2. ASSUME NEW p \in Procs, Loop(p) PROVE Tally'
  BY <1>2, OutsideTally, EndStepTally, ObjectTally, SignalTally DEF Loop
<1>3. CASE MasterOnly
  BY <1>3, OutsideTally, SignalTally, WaitTally DEF MasterOnly
<1>4. CASE fork_fails
  BY <1>4, EndStepTally
<1>5. ASSUME NEW s \in Slaves, SlaveOnly(s) PROVE Tally'
  BY <1>5, OutsideTally, LimitTally, EndStepTally, SignalTally DEF SlaveOnly
<1>6. ASSUME NEW s \in Slaves, delayed_alloctn_cb(s) PROVE Tally'
  BY <1>6, AlarmTally
<1>7. ASSUME NEW c \in Clients, ClientStep(c) PROVE Tally'
  BY <1>7, OutsideTally
<1> QED
  BY <1>1, <1>2, <1>3, <1>4, <1>5, <1>6, <1>7 DEF Next

\* Both invariants hold in every reachable state.
LEMMA BothHold == Spec => [](Hand /\ Tally)
<1>1. Init => Hand /\ Tally
  BY InitHand, InitTally
<1>2. Hand /\ Tally /\ [Next]_vars => (Hand /\ Tally)'
  BY NextHand, NextTally
<1> QED
  BY <1>1, <1>2, PTL DEF Spec
-----------------------------------------------------------------------------
\* The hand-over of a client by the alarm: one process serves the client, nobody keeps a
\* connection that another one serves, and the alarm is never late; and the types.
THEOREM HandedOver == Spec => []HandOverInv
<1>1. Hand /\ Tally => HandOverInv
  <2> SUFFICES ASSUME Hand, Tally PROVE HandOverInv
    OBVIOUS
  <2> USE ConstantsAssumption, Names DEF Hand
  <2>1. TypeOK
    <3>1. Shm!TypeOK
      BY DEF Tally, Obj!IInv, Obj!TypeOK, Shm!TypeOK, Obj!Section, Shm!Section, Obj!Kinds,
             Shm!Kinds, Obj!Removed, Shm!Removed
    <3>2. \A c \in Clients : inq[c] \in 0..MaxSent /\ echoed[c] \in 0..MaxSent
      BY DEF NetTypes, Accounts, Within
    <3>3. ASSUME NEW p \in Procs PROVE buf[p] \in 0..MaxSent
      <4>1. CASE Where(p) = "write"
        <5>1. ssock[p] \in Clients /\ Within(ssock[p], buf[p]) /\ buf[p] \in Nat
          BY <4>1 DEF Tidy, Serving, Accounts, Types
        <5> QED
          BY <5>1 DEF NetTypes, Within
      <4>2. CASE Where(p) # "write"
        BY <4>2 DEF Tidy, Types
      <4> QED
        BY <4>1, <4>2
    <3>4. /\ inq \in [Clients -> 0..MaxSent] /\ echoed \in [Clients -> 0..MaxSent]
          /\ buf \in [Procs -> 0..MaxSent]
      BY <3>2, <3>3 DEF NetTypes, Types
    <3> QED
      BY <3>1, <3>4 DEF TypeOK, Types, NetTypes
  <2>2. \A p \in Procs, c \in Clients : Serves(p, c) => Where(p) \in Serving /\ ssock[p] = c
    BY DEF Serves, Where, Serving
  <2>3. OneServer
    BY <2>2 DEF OneServer, Alone
  <2>4. NoLeakAtAccept
    BY DEF NoLeakAtAccept, Tidy, Where, Serving
  <2>5. AlarmOnlyOnClient
    BY DEF AlarmOnlyOnClient, Places
  <2> QED
    BY <2>1, <2>3, <2>4, <2>5 DEF HandOverInv
<1> QED
  BY <1>1, BothHold, PTL

\* No message is echoed twice, whenever the alarm comes and whichever processes end.
THEOREM EchoedAtMostOnce == Spec => []EchoedOnce
<1>1. Hand => EchoedOnce
  <2> SUFFICES ASSUME Hand, NEW c \in Clients, NEW p \in Procs
               PROVE  echoed[c] + inq[c] + (IF Serves(p, c) THEN buf[p] ELSE 0) <= sent[c]
    BY DEF EchoedOnce
  <2>1. /\ inq[c] \in Nat /\ echoed[c] \in Nat /\ sent[c] \in Nat /\ buf[p] \in Nat
        /\ Within(c, 0)
    BY DEF Hand, NetTypes, Types, Accounts
  <2>2. CASE Serves(p, c) /\ Where(p) = "write"
    <3>1. Within(c, buf[p])
      BY <2>2 DEF Hand, Accounts, Serves
    <3> QED
      BY <2>1, <2>2, <3>1 DEF Within
  <2>3. CASE Serves(p, c) /\ Where(p) # "write"
    <3>1. buf[p] = 0
      BY <2>1, <2>3 DEF Hand, Tidy
    <3> QED
      BY <2>1, <2>3, <3>1 DEF Within
  <2>4. CASE ~Serves(p, c)
    BY <2>1, <2>4 DEF Within
  <2> QED
    BY <2>2, <2>3, <2>4
<1> QED
  BY <1>1, HandHolds, PTL

\* The semaphore stays a mutex although fork copies the frames inside it and siglongjmp
\* tears them down.
THEOREM SemaphoreAccounted == Spec => []SemAccounted
<1>1. Tally => SemAccounted
  <2> SUFFICES ASSUME Tally PROVE Cardinality(Shm!Inside) = 1 - sem
    <3>1. Shm!Cardinality(Shm!Inside) = Cardinality(Shm!Inside)
      BY DEF Cardinality, Shm!Cardinality
    <3> QED
      BY <3>1 DEF SemAccounted, Shm!SemAccounted
  <2>1. /\ sem \in {0, 1} /\ (sem = 0 <=> Shm!Inside # {})
        /\ \A f, g \in Shm!Inside : f = g
    BY DEF Tally, FramesOk, Obj!IInv, Obj!TypeOK, Obj!OneInside, Obj!TakenIffInside,
           Obj!Inside, Shm!Inside, Obj!Section, Shm!Section, Obj!Removed
  <2>2. CASE Shm!Inside = {}
    BY <2>1, <2>2, FS_EmptySet
  <2>3. CASE Shm!Inside # {}
    <3>0. PICK f \in Shm!Inside : TRUE
      BY <2>3
    <3>1. Shm!Inside = {f}
      BY <2>1, <3>0
    <3>2. Cardinality(Shm!Inside) = 1
      BY <3>1, FS_Singleton
    <3> QED
      BY <2>1, <2>3, <3>2
  <2> QED
    BY <2>2, <2>3
<1> QED
  BY <1>1, BothHold, PTL

\* The shared count is never below the number of slaves that counted themselves in and were
\* not reaped.
THEOREM CountNeverShort == Spec => []CountCoversSlaves
<1>1. Hand /\ Tally => CountCoversSlaves
  <2> SUFFICES ASSUME Hand, Tally PROVE CountCoversSlaves
    OBVIOUS
  <2>1. shmdata \in Int /\ CountIs
    BY ObjectTypes DEF Tally
  <2> QED
    BY <2>1, CountedSets DEF CountIs, CountCoversSlaves
<1> QED
  BY <1>1, BothHold, PTL

\* At most MAXCRTLVL slaves outlive the client they were forked for, although the count is
\* read in one critical section and acted on after it.
THEOREM LimitKept == Spec => []KeptWithinLimit
<1>1. Hand /\ Tally => KeptWithinLimit
  <2> SUFFICES ASSUME Hand, Tally PROVE KeptWithinLimit
    OBVIOUS
  <2>1. kept \subseteq Keepers /\ Master \in Procs
    BY Names DEF Keepers
  <2>2. Cardinality(kept) <= Cardinality(Keepers) /\ Cardinality(kept) \in Nat
    BY <2>1, CountedSets, Sizes
  <2> QED
    BY <2>2, CountedSets, ConstantsAssumption DEF Tally, Limited, KeptWithinLimit
<1> QED
  BY <1>1, BothHold, PTL
-----------------------------------------------------------------------------
(* The servers without a count: proofs about DelayedAlloc, whose processes and
   connections have the same variables, for slaves that stay and slaves that end. *)

VARIABLE persist
Alloc == INSTANCE DelayedAlloc

AllocPCs == {"accept", "arm", "read", "write", "close", "zero", "disarm", "jumped", "select",
             "write_eintr", "none", "dead"}

\* Where a process has a client, and where it has messages of that client in its buffer.
AllocServing == Serving \cup {"write_eintr"}
AllocHolds   == {"write", "write_eintr"}

\* The types of the variables; the bounds that follow from AllocAccounts are left out.
AllocTypes == /\ persist \in BOOLEAN
              /\ pc \in [Alloc!Procs -> AllocPCs] /\ ssock \in [Alloc!Procs -> Clients \cup {None}]
              /\ fds \in [Alloc!Procs -> SUBSET Clients] /\ buf \in [Alloc!Procs -> Nat]
              /\ armed \in BOOLEAN

AllocNetTypes == /\ backlog \in Seq(Clients) /\ Len(backlog) <= QLEN + 1
                 /\ conn \in [Clients -> {"new", "open", "fin", "rst"}]
                 /\ inq \in [Clients -> Nat] /\ sent \in [Clients -> 0..MaxSent]
                 /\ echoed \in [Clients -> Nat] /\ faults \in 0..Faults

\* What the master and a slave can be at, and the master when its alarm is set.
AllocLabels == /\ pc[Alloc!Master] \notin {"select", "none", "write_eintr"}
               /\ \A s \in Slaves : pc[s] \notin {"arm", "disarm", "jumped", "dead"}
               /\ armed => pc[Alloc!Master] \in {"read", "write", "close", "zero", "disarm"}

\* A process has a descriptor of the client it is at and of no other, and messages
\* when it is to write them.  After the jump the master's ssock is what it was.
AllocTidy == \A p \in Alloc!Procs :
               /\ pc[p] \in AllocServing => ssock[p] \in Clients /\ fds[p] = {ssock[p]}
               /\ pc[p] = "jumped" => fds[p] \subseteq {ssock[p]}
               /\ pc[p] \notin AllocServing \cup {"jumped"} => fds[p] = {}
               /\ buf[p] > 0 <=> pc[p] \in AllocHolds

\* A connection waits once, and nobody has a descriptor of it before it is accepted.
AllocFresh == /\ \A c \in Clients, p \in Alloc!Procs : conn[c] = "new" => c \notin fds[p]
              /\ \A i \in 1..Len(backlog), p \in Alloc!Procs : backlog[i] \notin fds[p]
              /\ \A i \in 1..Len(backlog) : conn[backlog[i]] # "new"
              /\ \A i, j \in 1..Len(backlog) : backlog[i] = backlog[j] => i = j

\* A client is served by one process.
AllocOneServer == \A p, q \in Alloc!Procs :
                    pc[p] \in AllocServing /\ pc[q] \in AllocServing /\ ssock[p] = ssock[q] => p = q

\* The messages of c, n of them with the process that serves it: no more than were
\* sent, since those in the buffer of a process that ended are lost.
AllocAdds(c, n) == inq[c] + n + echoed[c] <= sent[c]
AllocAccounts == \A c \in Clients :
  /\ AllocAdds(c, 0)
  /\ \A p \in Alloc!Procs : pc[p] \in AllocHolds /\ ssock[p] = c => AllocAdds(c, buf[p])

AllocInv == /\ AllocTypes /\ AllocNetTypes /\ AllocLabels /\ AllocTidy /\ AllocFresh
            /\ AllocOneServer /\ AllocAccounts

\* No connection is not a connection, and the processes are told apart.
LEMMA AllocNames ==
  /\ None \notin Clients /\ Alloc!Master \in Alloc!Procs /\ Slaves \subseteq Alloc!Procs
  /\ \A s \in Slaves : s # Alloc!Master
  /\ \A p \in Alloc!Procs : p # Alloc!Master => p \in Slaves
  BY ConstantsAssumption, MasterAssumption DEF Alloc!Procs, Alloc!Master, Master

\* The initial state satisfies the invariant.
LEMMA AllocInitInv == Alloc!Init => AllocInv
<1> SUFFICES ASSUME Alloc!Init PROVE AllocInv
  OBVIOUS
<1> USE ConstantsAssumption, AllocNames
<1>1. /\ persist \in BOOLEAN
      /\ pc = [p \in Alloc!Procs |-> IF p = Alloc!Master THEN "accept" ELSE "none"]
      /\ ssock = [p \in Alloc!Procs |-> None] /\ fds = [p \in Alloc!Procs |-> {}]
      /\ buf = [p \in Alloc!Procs |-> 0] /\ armed = FALSE
      /\ backlog = <<>> /\ conn = [c \in Clients |-> "new"]
      /\ inq = [c \in Clients |-> 0] /\ sent = [c \in Clients |-> 0]
      /\ echoed = [c \in Clients |-> 0] /\ faults = Faults
  BY DEF Alloc!Init
<1>2. AllocTypes
  BY <1>1 DEF AllocTypes, AllocPCs
<1>3. AllocNetTypes
  BY <1>1 DEF AllocNetTypes
<1>4. AllocLabels /\ AllocTidy /\ AllocOneServer
  BY <1>1 DEF AllocHolds, AllocLabels, AllocTidy, AllocOneServer, AllocServing, Serving
<1>5. AllocFresh
  BY <1>1 DEF AllocFresh
<1>6. AllocAccounts
  BY <1>1 DEF AllocAccounts, AllocAdds
<1> QED
  BY <1>2, <1>3, <1>4, <1>5, <1>6 DEF AllocInv

\* The clients and TCP: one more message sent is one more in the queue.
LEMMA AllocClientInv ==
  ASSUME AllocInv, NEW c \in Clients, Alloc!ClientStep(c)
  PROVE  AllocInv'
<1> USE ConstantsAssumption, AllocNames DEF AllocInv
<1>1. UNCHANGED <<persist, pc, ssock, fds, buf, armed, echoed>>
  BY DEF Alloc!ClientStep, Alloc!connect, Alloc!send, Alloc!finish, Alloc!reset, Alloc!procs
<1>2. AllocTypes' /\ AllocLabels' /\ AllocTidy' /\ AllocOneServer'
  BY <1>1 DEF AllocTypes, AllocLabels, AllocTidy, AllocOneServer
<1>3. CASE Alloc!connect(c)
  <2>1. /\ conn[c] = "new" /\ Len(backlog) <= QLEN /\ conn' = [conn EXCEPT ![c] = "open"]
        /\ backlog' = Append(backlog, c) /\ UNCHANGED <<inq, sent, faults>>
    BY <1>3 DEF Alloc!connect
  <2>2. backlog \in Seq(Clients) /\ Len(backlog) \in Nat
    BY LenProperties DEF AllocNetTypes
  <2>3. /\ backlog' \in Seq(Clients) /\ Len(backlog') = Len(backlog) + 1
        /\ \A i \in 1..Len(backlog) : backlog'[i] = backlog[i]
        /\ backlog'[Len(backlog) + 1] = c
    BY <2>1, <2>2, AppendProperties
  <2>4. AllocNetTypes'
    BY <1>1, <2>1, <2>2, <2>3 DEF AllocNetTypes
  <2>5. AllocFresh'
    <3>1. \A i \in 1..Len(backlog') : i \in 1..Len(backlog) \/ i = Len(backlog) + 1
      BY <2>2, <2>3
    <3>2. \A d \in Clients : conn'[d] = IF d = c THEN "open" ELSE conn[d]
      BY <2>1 DEF AllocNetTypes
    <3>3. \A i \in 1..Len(backlog) : backlog[i] \in Clients /\ backlog[i] # c
                                     /\ conn[backlog[i]] # "new"
      BY <2>1, <2>2, ElementOfSeq DEF AllocFresh
    <3>4. \A d \in Clients, p \in Alloc!Procs : conn'[d] = "new" => d \notin fds'[p]
      BY <1>1, <3>2 DEF AllocFresh
    <3>5. \A i \in 1..Len(backlog'), p \in Alloc!Procs : backlog'[i] \notin fds'[p]
      <4>1. \A p \in Alloc!Procs : c \notin fds[p]
        BY <2>1 DEF AllocFresh
      <4>2. \A i \in 1..Len(backlog), p \in Alloc!Procs : backlog[i] \notin fds[p]
        BY DEF AllocFresh
      <4> QED
        BY <1>1, <2>3, <3>1, <4>1, <4>2
    <3>6. \A i \in 1..Len(backlog') : conn'[backlog'[i]] # "new"
      BY <2>3, <3>1, <3>2, <3>3
    <3>7. \A i, j \in 1..Len(backlog') : backlog'[i] = backlog'[j] => i = j
      <4>1. \A i, j \in 1..Len(backlog) : backlog[i] = backlog[j] => i = j
        BY DEF AllocFresh
      <4> QED
        BY <2>3, <3>1, <3>3, <4>1
    <3> QED
      BY <3>4, <3>5, <3>6, <3>7 DEF AllocFresh
  <2>6. AllocAccounts'
    BY <1>1, <2>1 DEF AllocAccounts, AllocAdds
  <2> QED
    BY <1>2, <2>4, <2>5, <2>6
<1>4. CASE Alloc!send(c)
  <2>1. /\ sent[c] < MaxSent /\ sent' = [sent EXCEPT ![c] = @ + 1]
        /\ inq' = [inq EXCEPT ![c] = @ + 1] /\ UNCHANGED <<conn, backlog, faults>>
    BY <1>4 DEF Alloc!send
  <2>2. AllocNetTypes'
    BY <1>1, <2>1 DEF AllocNetTypes
  <2>3. \A d \in Clients : \A n \in Nat : AllocAdds(d, n) => inq'[d] + n + echoed'[d] <= sent'[d]
    BY <1>1, <2>1 DEF AllocAdds, AllocNetTypes
  <2>4. AllocAccounts'
    <3>1. \A p \in Alloc!Procs : buf[p] \in Nat
      BY DEF AllocTypes
    <3> QED
      BY <1>1, <2>3, <3>1 DEF AllocAccounts, AllocAdds
  <2> QED
    BY <1>1, <1>2, <2>1, <2>2, <2>4 DEF AllocFresh
<1>5. CASE Alloc!finish(c) \/ Alloc!reset(c)
  <2>1. /\ \E w \in {"fin", "rst"} : conn[c] # "new" /\ conn' = [conn EXCEPT ![c] = w]
        /\ faults' \in 0..Faults /\ UNCHANGED <<backlog, inq, sent>>
    BY <1>5 DEF Alloc!finish, Alloc!reset, AllocNetTypes
  <2>2. AllocNetTypes'
    BY <1>1, <2>1 DEF AllocNetTypes
  <2>3. AllocFresh'
    <3>1. \A d \in Clients : conn'[d] = "new" <=> conn[d] = "new"
      BY <2>1 DEF AllocNetTypes
    <3>2. \A i \in 1..Len(backlog) : backlog[i] \in Clients
      BY ElementOfSeq DEF AllocNetTypes
    <3> QED
      BY <1>1, <2>1, <3>1, <3>2 DEF AllocFresh
  <2>4. AllocAccounts'
    BY <1>1, <2>1 DEF AllocAccounts, AllocAdds
  <2> QED
    BY <1>2, <2>2, <2>3, <2>4
<1> QED
  BY <1>3, <1>4, <1>5 DEF Alloc!ClientStep

\* accept takes a connection of which nobody has a descriptor.
LEMMA AllocAcceptInv ==
  ASSUME AllocInv, NEW p \in Alloc!Procs, Alloc!accept(p)
  PROVE  AllocInv'
<1> USE ConstantsAssumption, AllocNames DEF AllocInv
<1>1. PICK c : c = Head(backlog)
  OBVIOUS
<1>2. /\ pc[p] = "accept" /\ pc' = [pc EXCEPT ![p] = IF p = Alloc!Master THEN "arm" ELSE "read"]
      /\ backlog # <<>> /\ backlog' = Tail(backlog)
      /\ ssock' = [ssock EXCEPT ![p] = c] /\ fds' = [fds EXCEPT ![p] = @ \cup {c}]
      /\ UNCHANGED <<buf, armed, conn, inq, sent, echoed, faults, persist>>
  BY <1>1 DEF Alloc!accept, Alloc!Goto
<1>3. /\ backlog \in Seq(Clients) /\ Len(backlog) \in Nat /\ Len(backlog) >= 1
      /\ c = backlog[1] /\ c \in Clients /\ backlog' \in Seq(Clients)
      /\ Len(backlog') = Len(backlog) - 1
      /\ \A i \in 1..Len(backlog') : backlog'[i] = backlog[i + 1]
  BY <1>1, <1>2, HeadTailProperties, LenProperties, EmptySeq DEF AllocNetTypes
<1>4. \A q \in Alloc!Procs : q # p => pc'[q] = pc[q] /\ ssock'[q] = ssock[q] /\ fds'[q] = fds[q]
  BY <1>2 DEF AllocTypes
<1>5. /\ pc'[p] = (IF p = Alloc!Master THEN "arm" ELSE "read") /\ ssock'[p] = c /\ fds'[p] = {c}
  BY <1>2 DEF AllocTypes, AllocTidy, AllocServing, Serving
<1>6. AllocTypes'
  BY <1>2, <1>3 DEF AllocTypes, AllocPCs
<1>7. AllocNetTypes'
  BY <1>2, <1>3 DEF AllocNetTypes
<1>8. AllocLabels'
  BY <1>2, <1>4, <1>5 DEF AllocLabels
<1>9. AllocTidy'
  <2> SUFFICES ASSUME NEW q \in Alloc!Procs
               PROVE  /\ pc'[q] \in AllocServing => ssock'[q] \in Clients /\ fds'[q] = {ssock'[q]}
                      /\ pc'[q] = "jumped" => fds'[q] \subseteq {ssock'[q]}
                      /\ pc'[q] \notin AllocServing \cup {"jumped"} => fds'[q] = {}
                      /\ buf'[q] > 0 <=> pc'[q] \in AllocHolds
    BY DEF AllocTidy
  <2>1. CASE q = p
    BY <1>2, <1>3, <1>5, <2>1 DEF AllocHolds, AllocTidy, AllocServing, Serving
  <2>2. CASE q # p
    BY <1>2, <1>4, <2>2 DEF AllocTidy
  <2> QED
    BY <2>1, <2>2
<1>10. \A q \in Alloc!Procs : c \notin fds[q]
  <2>1. 1 \in 1..Len(backlog)
    BY <1>3
  <2> QED
    BY <1>3, <2>1 DEF AllocFresh
<1>11. AllocFresh'
  <2>1. \A i \in 1..Len(backlog') : i + 1 \in 1..Len(backlog) /\ i + 1 # 1
    BY <1>3
  <2>2. 1 \in 1..Len(backlog)
    BY <1>3
  <2>3. \A i \in 1..Len(backlog') : backlog'[i] # c
    BY <1>3, <2>1, <2>2 DEF AllocFresh
  <2>4. \A d \in Clients, q \in Alloc!Procs : conn'[d] = "new" => d \notin fds'[q]
    BY <1>2, <1>3, <1>4, <1>5, <2>2 DEF AllocFresh
  <2>5. \A i \in 1..Len(backlog'), q \in Alloc!Procs : backlog'[i] \notin fds'[q]
    <3>1. \A i \in 1..Len(backlog), q \in Alloc!Procs : backlog[i] \notin fds[q]
      BY DEF AllocFresh
    <3> QED
      BY <1>3, <1>4, <1>5, <2>1, <2>3, <3>1
  <2>6. \A i \in 1..Len(backlog') : conn'[backlog'[i]] # "new"
    BY <1>2, <1>3, <2>1 DEF AllocFresh
  <2>7. \A i, j \in 1..Len(backlog') : backlog'[i] = backlog'[j] => i = j
    <3>1. \A i, j \in 1..Len(backlog) : backlog[i] = backlog[j] => i = j
      BY DEF AllocFresh
    <3>2. ASSUME NEW i \in 1..Len(backlog'), NEW j \in 1..Len(backlog'), backlog'[i] = backlog'[j]
          PROVE  i = j
      <4>1. i + 1 = j + 1
        BY <1>3, <2>1, <3>1, <3>2
      <4> QED
        BY <1>3, <4>1
    <3> QED
      BY <3>2
  <2> QED
    BY <2>4, <2>5, <2>6, <2>7 DEF AllocFresh
<1>12. AllocOneServer'
  <2>1. \A q \in Alloc!Procs : q # p /\ pc'[q] \in AllocServing => ssock'[q] # c
    BY <1>4, <1>10 DEF AllocTidy
  <2> QED
    BY <1>4, <1>5, <2>1 DEF AllocOneServer
<1>13. AllocAccounts'
  <2>1. \A q \in Alloc!Procs : pc'[q] \in AllocHolds <=> pc[q] \in AllocHolds
    BY <1>2, <1>4, <1>5 DEF AllocHolds
  <2>2. \A q \in Alloc!Procs : pc[q] \in AllocHolds => ssock'[q] = ssock[q]
    BY <1>2, <1>4 DEF AllocHolds
  <2> QED
    BY <1>2, <2>1, <2>2 DEF AllocAccounts, AllocAdds
<1> QED
  BY <1>6, <1>7, <1>8, <1>9, <1>11, <1>12, <1>13

\* A process that reads or writes what it serves: the messages move, and no other
\* process has any of this client.
LEMMA AllocEchoInv ==
  ASSUME AllocInv, NEW p \in Alloc!Procs, Alloc!read(p) \/ Alloc!write(p)
  PROVE  AllocInv'
<1> USE ConstantsAssumption, AllocNames DEF AllocInv
<1>1. PICK c \in Clients : c = ssock[p]
  BY DEF Alloc!read, Alloc!write, Alloc!Goto, AllocTidy, AllocServing, Serving
<1>2. /\ pc[p] \in {"read", "write"} /\ pc'[p] \in {"read", "write"}
      /\ \A q \in Alloc!Procs : q # p => pc'[q] = pc[q] /\ buf'[q] = buf[q]
      /\ pc' \in [Alloc!Procs -> AllocPCs]
      /\ UNCHANGED <<ssock, fds, armed, backlog, conn, sent, faults, persist>>
  BY DEF Alloc!read, Alloc!write, Alloc!Goto, AllocTypes, AllocPCs
<1>3. \A q \in Alloc!Procs : q # p /\ pc[q] \in AllocHolds => ssock[q] # c
  BY <1>1, <1>2 DEF AllocOneServer, AllocServing, Serving, AllocHolds
<1>4. /\ buf[p] \in Nat /\ inq[c] \in Nat /\ echoed[c] \in Nat /\ sent[c] \in Nat
  BY DEF AllocTypes, AllocNetTypes
<1>5. /\ buf' \in [Alloc!Procs -> Nat] /\ inq' \in [Clients -> Nat] /\ echoed' \in [Clients -> Nat]
      /\ \A d \in Clients : d # c => inq'[d] = inq[d] /\ echoed'[d] = echoed[d]
      /\ buf'[p] > 0 <=> pc'[p] = "write"
      /\ inq'[c] + buf'[p] + echoed'[c] <= sent[c]
  <2>1. CASE Alloc!read(p)
    <3>1. /\ pc[p] = "read" /\ pc'[p] = "write" /\ inq[c] > 0
          /\ buf' = [buf EXCEPT ![p] = inq[c]] /\ inq' = [inq EXCEPT ![c] = 0]
          /\ echoed' = echoed
      BY <1>1, <2>1 DEF Alloc!read, Alloc!Goto, AllocTypes
    <3>2. AllocAdds(c, 0)
      BY DEF AllocAccounts
    <3>3. /\ buf' \in [Alloc!Procs -> Nat] /\ inq' \in [Clients -> Nat] /\ echoed' \in [Clients -> Nat]
          /\ \A d \in Clients : d # c => inq'[d] = inq[d] /\ echoed'[d] = echoed[d]
          /\ buf'[p] = inq[c] /\ inq'[c] = 0 /\ echoed'[c] = echoed[c]
      BY <1>4, <3>1 DEF AllocTypes, AllocNetTypes
    <3> QED
      BY <1>4, <3>1, <3>2, <3>3 DEF AllocAdds
  <2>2. CASE Alloc!write(p)
    <3>1. /\ pc[p] = "write" /\ pc'[p] = "read"
          /\ buf' = [buf EXCEPT ![p] = 0] /\ echoed' = [echoed EXCEPT ![c] = @ + buf[p]]
          /\ inq' = inq
      BY <1>1, <2>2 DEF Alloc!write, Alloc!Goto, AllocTypes
    <3>2. AllocAdds(c, buf[p])
      BY <1>1, <3>1 DEF AllocAccounts, AllocHolds
    <3>3. /\ buf' \in [Alloc!Procs -> Nat] /\ inq' \in [Clients -> Nat] /\ echoed' \in [Clients -> Nat]
          /\ \A d \in Clients : d # c => inq'[d] = inq[d] /\ echoed'[d] = echoed[d]
          /\ buf'[p] = 0 /\ inq'[c] = inq[c] /\ echoed'[c] = echoed[c] + buf[p]
      BY <1>4, <3>1 DEF AllocTypes, AllocNetTypes
    <3> QED
      BY <1>4, <3>1, <3>2, <3>3 DEF AllocAdds
  <2> QED
    BY <2>1, <2>2
<1>6. AllocTypes' /\ AllocNetTypes' /\ AllocFresh'
  BY <1>2, <1>5 DEF AllocTypes, AllocNetTypes, AllocFresh
<1>7. AllocLabels'
  BY <1>2, <1>5 DEF AllocLabels
<1>8. AllocTidy'
  <2> SUFFICES ASSUME NEW q \in Alloc!Procs
               PROVE  /\ pc'[q] \in AllocServing => ssock'[q] \in Clients /\ fds'[q] = {ssock'[q]}
                      /\ pc'[q] = "jumped" => fds'[q] \subseteq {ssock'[q]}
                      /\ pc'[q] \notin AllocServing \cup {"jumped"} => fds'[q] = {}
                      /\ buf'[q] > 0 <=> pc'[q] \in AllocHolds
    BY DEF AllocTidy
  <2>1. CASE q = p
    BY <1>1, <1>2, <1>5, <2>1 DEF AllocHolds, AllocTidy, AllocServing, Serving
  <2>2. CASE q # p
    BY <1>2, <2>2 DEF AllocTidy
  <2> QED
    BY <2>1, <2>2
<1>9. AllocOneServer'
  BY <1>2 DEF AllocOneServer, AllocServing, Serving
<1>10. AllocAccounts'
  <2> SUFFICES ASSUME NEW d \in Clients
               PROVE  /\ inq'[d] + 0 + echoed'[d] <= sent[d]
                      /\ \A q \in Alloc!Procs : pc'[q] \in AllocHolds /\ ssock[q] = d
                                            => inq'[d] + buf'[q] + echoed'[d] <= sent[d]
    BY <1>2 DEF AllocAccounts, AllocAdds
  <2>1. CASE d = c
    <3>1. \A q \in Alloc!Procs : pc'[q] \in AllocHolds /\ ssock[q] = d => q = p
      BY <1>2, <1>3, <2>1
    <3>2. inq'[c] \in Nat /\ echoed'[c] \in Nat /\ buf'[p] \in Nat
      BY <1>5
    <3> QED
      BY <1>1, <1>4, <1>5, <2>1, <3>1, <3>2
  <2>2. CASE d # c
    <3>1. \A q \in Alloc!Procs : pc'[q] \in AllocHolds /\ ssock[q] = d =>
               pc[q] \in AllocHolds /\ buf'[q] = buf[q]
      BY <1>1, <1>2, <2>2
    <3>2. inq'[d] = inq[d] /\ echoed'[d] = echoed[d]
      BY <1>5, <2>2
    <3> QED
      BY <3>1, <3>2 DEF AllocAccounts, AllocAdds
  <2> QED
    BY <2>1, <2>2
<1> QED
  BY <1>6, <1>7, <1>8, <1>9, <1>10

\* The other steps of the server's loop: a process moves on, and may close what it
\* serves.
LEMMA AllocMovesInv ==
  ASSUME AllocInv, NEW p \in Alloc!Procs, NEW from \in AllocPCs, NEW to \in AllocPCs,
         Alloc!Goto(p, from, to), from \notin AllocHolds, to \notin AllocHolds,
         ssock' \in [Alloc!Procs -> Clients \cup {None}],
         \A q \in Alloc!Procs : q # p => ssock'[q] = ssock[q],
         fds' = [fds EXCEPT ![p] = fds'[p]], fds'[p] \subseteq fds[p],
         to \in AllocServing => from \in AllocServing /\ ssock'[p] = ssock[p] /\ fds'[p] = fds[p],
         to # "jumped", to \notin AllocServing => fds'[p] = {},
         p = Alloc!Master => to \notin {"select", "none"},
         p # Alloc!Master => to \notin {"arm", "disarm", "dead"},
         armed' \in BOOLEAN,
         armed' => armed \/ (p = Alloc!Master /\ to = "read"),
         p = Alloc!Master /\ armed' => to \in {"read", "close", "zero", "disarm"},
         UNCHANGED <<persist, buf, Alloc!net>>
  PROVE  AllocInv'
<1> USE ConstantsAssumption, AllocNames DEF AllocInv
<1>1. pc[p] = from /\ pc' = [pc EXCEPT ![p] = to]
  BY DEF Alloc!Goto
<1>2. /\ pc' \in [Alloc!Procs -> AllocPCs] /\ pc'[p] = to
      /\ \A q \in Alloc!Procs : q # p => pc'[q] = pc[q]
  BY <1>1 DEF AllocTypes
<1>3. fds' \in [Alloc!Procs -> SUBSET Clients] /\ \A q \in Alloc!Procs : q # p => fds'[q] = fds[q]
  BY DEF AllocTypes
<1>4. AllocTypes' /\ AllocNetTypes'
  BY <1>2, <1>3 DEF AllocTypes, AllocNetTypes, Alloc!net
<1>5. AllocLabels'
  <2>1. pc'[Alloc!Master] \notin {"select", "none", "write_eintr"}
    BY <1>2 DEF AllocLabels, AllocHolds
  <2>2. \A s \in Slaves : pc'[s] \notin {"arm", "disarm", "jumped", "dead"}
    BY <1>2 DEF AllocLabels
  <2>3. armed' => pc'[Alloc!Master] \in {"read", "write", "close", "zero", "disarm"}
    BY <1>2 DEF AllocLabels
  <2> QED
    BY <2>1, <2>2, <2>3 DEF AllocLabels
<1>6. AllocTidy'
  <2> SUFFICES ASSUME NEW q \in Alloc!Procs
               PROVE  /\ pc'[q] \in AllocServing => ssock'[q] \in Clients /\ fds'[q] = {ssock'[q]}
                      /\ pc'[q] = "jumped" => fds'[q] \subseteq {ssock'[q]}
                      /\ pc'[q] \notin AllocServing \cup {"jumped"} => fds'[q] = {}
                      /\ buf'[q] > 0 <=> pc'[q] \in AllocHolds
    BY DEF AllocTidy
  <2>1. CASE q = p
    BY <1>1, <1>2, <2>1 DEF AllocTidy
  <2>2. CASE q # p
    BY <1>2, <1>3, <2>2 DEF AllocTidy
  <2> QED
    BY <2>1, <2>2
<1>7. AllocFresh'
  <2>1. \A q \in Alloc!Procs : fds'[q] \subseteq fds[q]
    BY <1>3
  <2> QED
    BY <2>1 DEF AllocFresh, Alloc!net
<1>8. AllocOneServer'
  <2>1. \A q \in Alloc!Procs : pc'[q] \in AllocServing => pc[q] \in AllocServing /\ ssock'[q] = ssock[q]
    BY <1>1, <1>2
  <2> QED
    BY <2>1 DEF AllocOneServer
<1>9. AllocAccounts'
  <2>1. \A q \in Alloc!Procs : /\ pc'[q] \in AllocHolds <=> pc[q] \in AllocHolds
                               /\ pc[q] \in AllocHolds => ssock'[q] = ssock[q]
    BY <1>1, <1>2
  <2> QED
    BY <2>1 DEF AllocAccounts, AllocAdds, Alloc!net
<1> QED
  BY <1>4, <1>5, <1>6, <1>7, <1>8, <1>9

\* Every step of the loops but accept, read and write is of that kind.
LEMMA AllocOtherInv ==
  ASSUME AllocInv,
         \/ \E p \in Alloc!Procs : Alloc!read_eof(p) \/ Alloc!close(p) \/ Alloc!zero(p)
         \/ Alloc!MasterOnly
         \/ \E s \in Slaves : Alloc!select(s) \/ Alloc!inactive(s)
  PROVE  AllocInv'
<1> USE ConstantsAssumption, AllocNames DEF AllocInv
<1>1. ASSUME NEW p \in Alloc!Procs, Alloc!read_eof(p) PROVE AllocInv'
  <2>1. /\ Alloc!Goto(p, "read", "close")
        /\ UNCHANGED <<ssock, fds, armed, persist, buf, Alloc!net>>
    BY <1>1 DEF Alloc!read_eof
  <2> QED
    BY <2>1, AllocMovesInv DEF AllocTypes, AllocPCs, AllocServing, AllocHolds, Serving
<1>2. ASSUME NEW p \in Alloc!Procs, Alloc!close(p) PROVE AllocInv'
  <2>1. /\ Alloc!Goto(p, "close", "zero") /\ fds' = [fds EXCEPT ![p] = @ \ {ssock[p]}]
        /\ UNCHANGED <<ssock, armed, persist, buf, Alloc!net>>
    BY <1>2 DEF Alloc!close
  <2>2. fds[p] = {ssock[p]} /\ fds'[p] = {}
    BY <2>1 DEF Alloc!Goto, AllocTidy, AllocServing, Serving, AllocTypes
  <2>3. fds' = [fds EXCEPT ![p] = fds'[p]]
    BY <2>1 DEF AllocTypes
  <2> QED
    BY <2>1, <2>2, <2>3, AllocMovesInv DEF AllocTypes, AllocPCs, AllocServing, AllocHolds, Serving
<1>3. ASSUME NEW p \in Alloc!Procs, Alloc!zero(p) PROVE AllocInv'
  <2> DEFINE to == IF p = Alloc!Master THEN "disarm" ELSE IF persist THEN "select" ELSE "none"
  <2>1. /\ Alloc!Goto(p, "zero", to) /\ ssock' = [ssock EXCEPT ![p] = None]
        /\ UNCHANGED <<fds, armed, persist, buf, Alloc!net>>
    BY <1>3 DEF Alloc!zero, AllocTypes
  <2>2. fds[p] = {} /\ fds' = [fds EXCEPT ![p] = fds'[p]]
    BY <2>1 DEF Alloc!Goto, AllocTidy, AllocServing, Serving, AllocTypes
  <2> QED
    BY <2>1, <2>2, AllocMovesInv DEF AllocTypes, AllocPCs, AllocServing, AllocHolds, Serving
<1>4. CASE Alloc!arm
  <2>1. /\ Alloc!Goto(Alloc!Master, "arm", "read") /\ armed' = TRUE
        /\ UNCHANGED <<ssock, fds, persist, buf, Alloc!net>>
    BY <1>4 DEF Alloc!arm
  <2> QED
    BY <2>1, AllocMovesInv DEF AllocTypes, AllocPCs, AllocServing, AllocHolds, Serving
<1>5. CASE Alloc!disarm
  <2>1. /\ Alloc!Goto(Alloc!Master, "disarm", "accept") /\ armed' = FALSE
        /\ UNCHANGED <<ssock, fds, persist, buf, Alloc!net>>
    BY <1>5 DEF Alloc!disarm
  <2>2. fds[Alloc!Master] = {}
    BY <2>1 DEF Alloc!Goto, AllocTidy, AllocServing, Serving
  <2> QED
    BY <2>1, <2>2, AllocMovesInv DEF AllocTypes, AllocPCs, AllocServing, AllocHolds, Serving
<1>6. CASE Alloc!jumped
  <2>1. /\ Alloc!Goto(Alloc!Master, "jumped", "accept")
        /\ fds' = [fds EXCEPT ![Alloc!Master] = @ \ {ssock[Alloc!Master]}]
        /\ UNCHANGED <<ssock, armed, persist, buf, Alloc!net>>
    BY <1>6 DEF Alloc!jumped
  <2>2. fds[Alloc!Master] \subseteq {ssock[Alloc!Master]} /\ fds'[Alloc!Master] = {}
    BY <2>1 DEF Alloc!Goto, AllocTidy, AllocTypes
  <2>3. fds' = [fds EXCEPT ![Alloc!Master] = fds'[Alloc!Master]] /\ ~armed
    BY <2>1 DEF AllocTypes, AllocLabels, Alloc!Goto
  <2> QED
    BY <2>1, <2>2, <2>3, AllocMovesInv DEF AllocTypes, AllocPCs, AllocServing, AllocHolds, Serving
<1>7. ASSUME NEW s \in Slaves, Alloc!select(s) \/ Alloc!inactive(s) PROVE AllocInv'
  <2>1. PICK to \in {"accept", "none"} : Alloc!Goto(s, "select", to)
    BY <1>7 DEF Alloc!select, Alloc!inactive
  <2>2. UNCHANGED <<ssock, fds, armed, persist, buf, Alloc!net>>
    BY <1>7 DEF Alloc!select, Alloc!inactive
  <2>3. fds[s] = {}
    BY <2>1 DEF Alloc!Goto, AllocTidy, AllocServing, Serving
  <2> QED
    BY <2>1, <2>2, <2>3, AllocMovesInv DEF AllocTypes, AllocPCs, AllocServing, AllocHolds, Serving
<1> QED
  BY <1>1, <1>2, <1>3, <1>4, <1>5, <1>6, <1>7 DEF Alloc!MasterOnly

\* The end of a process: it has no client any more, and what it had read is lost.
LEMMA AllocEndsInv ==
  ASSUME AllocInv, NEW p \in Alloc!Procs, Alloc!Ends(p), faults' \in 0..Faults,
         UNCHANGED <<backlog, conn, inq, sent, echoed>>
  PROVE  AllocInv'
<1> USE ConstantsAssumption, AllocNames DEF AllocInv
<1>1. PICK to \in {"none", "dead"} : to = IF p = Alloc!Master THEN "dead" ELSE "none"
  OBVIOUS
<1>2. /\ pc' = [pc EXCEPT ![p] = to] /\ ssock' = [ssock EXCEPT ![p] = None]
      /\ fds' = [fds EXCEPT ![p] = {}] /\ buf' = [buf EXCEPT ![p] = 0]
      /\ armed' \in BOOLEAN /\ (armed' => armed /\ p # Alloc!Master) /\ persist' = persist
  BY <1>1 DEF Alloc!Ends, AllocTypes
<1>3. /\ pc'[p] = to /\ ssock'[p] = None /\ fds'[p] = {} /\ buf'[p] = 0
      /\ \A q \in Alloc!Procs : q # p => /\ pc'[q] = pc[q] /\ ssock'[q] = ssock[q]
                                       /\ fds'[q] = fds[q] /\ buf'[q] = buf[q]
  BY <1>2 DEF AllocTypes
<1>4. AllocTypes' /\ AllocNetTypes'
  BY <1>2 DEF AllocTypes, AllocPCs, AllocNetTypes
<1>5. AllocLabels'
  BY <1>1, <1>2, <1>3 DEF AllocLabels
<1>6. AllocTidy'
  BY <1>1, <1>3 DEF AllocTidy, AllocServing, Serving, AllocHolds
<1>7. AllocFresh'
  <2>1. \A q \in Alloc!Procs : fds'[q] \subseteq fds[q]
    BY <1>3
  <2> QED
    BY <2>1 DEF AllocFresh
<1>8. AllocOneServer'
  <2>1. \A q \in Alloc!Procs : pc'[q] \in AllocServing => q # p
    BY <1>1, <1>3 DEF AllocServing, Serving
  <2> QED
    BY <1>3, <2>1 DEF AllocOneServer
<1>9. AllocAccounts'
  <2>1. \A q \in Alloc!Procs : pc'[q] \in AllocHolds => q # p
    BY <1>1, <1>3 DEF AllocHolds
  <2> QED
    BY <1>3, <2>1 DEF AllocAccounts, AllocAdds
<1> QED
  BY <1>4, <1>5, <1>6, <1>7, <1>8, <1>9

\* Every failure ends a process that way.
LEMMA AllocFailureInv ==
  ASSUME AllocInv,
         \/ \E p \in Alloc!Procs : Alloc!read_reset(p) \/ Alloc!write_reset(p)
         \/ \E s \in Slaves : Alloc!interrupted(s)
         \/ Alloc!fork_fails
  PROVE  AllocInv'
<1>1. \E p \in Alloc!Procs : Alloc!Ends(p)
  BY AllocNames DEF Alloc!read_reset, Alloc!write_reset, Alloc!interrupted, Alloc!fork_fails
<1>2. UNCHANGED <<backlog, conn, inq, sent, echoed>> /\ faults' \in 0..Faults
  BY ConstantsAssumption DEF Alloc!read_reset, Alloc!write_reset, Alloc!interrupted,
     Alloc!fork_fails, Alloc!net, AllocInv, AllocNetTypes
<1> QED
  BY <1>1, <1>2, AllocEndsInv

\* The alarm: the slave has what the master had, and the master serves nobody.
LEMMA AllocAlarmInv ==
  ASSUME AllocInv, NEW s \in Slaves, Alloc!delayed_alloctn_cb(s)
  PROVE  AllocInv'
<1> USE ConstantsAssumption, AllocNames DEF AllocInv
<1>1. /\ armed /\ pc[s] = "none" /\ armed' = FALSE
      /\ ssock' = [ssock EXCEPT ![s] = ssock[Alloc!Master]]
      /\ fds' = [fds EXCEPT ![s] = fds[Alloc!Master]]
      /\ buf' = [buf EXCEPT ![s] = buf[Alloc!Master], ![Alloc!Master] = 0]
      /\ faults' \in 0..Faults /\ UNCHANGED <<persist, backlog, conn, inq, sent, echoed>>
  BY DEF Alloc!delayed_alloctn_cb, AllocNetTypes
<1>2. PICK to \in AllocPCs :
         /\ pc' = [pc EXCEPT ![s] = to, ![Alloc!Master] = "jumped"]
         /\ \/ pc[Alloc!Master] # "disarm" /\ to = pc[Alloc!Master]
            \/ pc[Alloc!Master] = "disarm" /\ to \in {"select", "none"}
            \/ pc[Alloc!Master] = "write" /\ to = "write_eintr"
  BY DEF Alloc!delayed_alloctn_cb, AllocTypes, AllocPCs
<1>4. /\ pc'[s] = to /\ pc'[Alloc!Master] = "jumped"
      /\ ssock'[s] = ssock[Alloc!Master] /\ fds'[s] = fds[Alloc!Master]
      /\ buf'[s] = buf[Alloc!Master]
      /\ ssock'[Alloc!Master] = ssock[Alloc!Master]
      /\ fds'[Alloc!Master] = fds[Alloc!Master] /\ buf'[Alloc!Master] = 0
      /\ \A q \in Alloc!Procs : q # s /\ q # Alloc!Master =>
           pc'[q] = pc[q] /\ ssock'[q] = ssock[q] /\ fds'[q] = fds[q] /\ buf'[q] = buf[q]
  BY <1>1, <1>2 DEF AllocTypes
<1>5. /\ pc[Alloc!Master] \in {"read", "write", "close", "zero", "disarm"}
      /\ to \in {"read", "write", "write_eintr", "close", "zero", "select", "none"}
      /\ to \in AllocServing <=> pc[Alloc!Master] \in AllocServing
      /\ to \in AllocHolds <=> pc[Alloc!Master] \in AllocHolds
      /\ to # "jumped" /\ pc[Alloc!Master] # "jumped" /\ "jumped" \notin AllocServing \cup AllocHolds
  BY <1>1, <1>2 DEF AllocLabels, AllocServing, Serving, AllocHolds
<1>6. AllocTypes'
  <2>1. pc' \in [Alloc!Procs -> AllocPCs]
    BY <1>2 DEF AllocTypes, AllocPCs
  <2> QED
    BY <1>1, <2>1 DEF AllocTypes
<1>7. AllocNetTypes'
  BY <1>1 DEF AllocNetTypes
<1>8. AllocLabels'
  BY <1>1, <1>4, <1>5 DEF AllocLabels
<1>9. AllocTidy'
  <2> SUFFICES ASSUME NEW q \in Alloc!Procs
               PROVE  /\ pc'[q] \in AllocServing => ssock'[q] \in Clients /\ fds'[q] = {ssock'[q]}
                      /\ pc'[q] = "jumped" => fds'[q] \subseteq {ssock'[q]}
                      /\ pc'[q] \notin AllocServing \cup {"jumped"} => fds'[q] = {}
                      /\ buf'[q] > 0 <=> pc'[q] \in AllocHolds
    BY DEF AllocTidy
  <2>1. CASE q = s
    BY <1>4, <1>5, <2>1 DEF AllocTidy
  <2>2. CASE q = Alloc!Master
    BY <1>4, <1>5, <2>2 DEF AllocTidy
  <2>3. CASE q # s /\ q # Alloc!Master
    BY <1>4, <2>3 DEF AllocTidy
  <2> QED
    BY <2>1, <2>2, <2>3
<1>10. AllocFresh'
  <2>1. \A q \in Alloc!Procs : \E r \in Alloc!Procs : fds'[q] = fds[r]
    BY <1>4
  <2> QED
    BY <1>1, <2>1 DEF AllocFresh
<1>11. AllocOneServer'
  <2>1. \A q \in Alloc!Procs : pc'[q] \in AllocServing /\ q # s =>
                           q # Alloc!Master /\ pc[q] \in AllocServing /\ ssock'[q] = ssock[q]
    BY <1>4, <1>5
  <2>2. pc'[s] \in AllocServing => pc[Alloc!Master] \in AllocServing /\ ssock'[s] = ssock[Alloc!Master]
    BY <1>4, <1>5
  <2> QED
    BY <2>1, <2>2 DEF AllocOneServer
<1>12. AllocAccounts'
  <2>1. \A q \in Alloc!Procs : pc'[q] \in AllocHolds /\ q # s =>
                           pc[q] \in AllocHolds /\ ssock'[q] = ssock[q] /\ buf'[q] = buf[q]
    BY <1>4, <1>5
  <2>2. pc'[s] \in AllocHolds => pc[Alloc!Master] \in AllocHolds
    BY <1>4, <1>5
  <2> SUFFICES ASSUME NEW d \in Clients
               PROVE  /\ AllocAdds(d, 0)
                      /\ \A q \in Alloc!Procs : pc'[q] \in AllocHolds /\ ssock'[q] = d =>
                           AllocAdds(d, buf'[q])
    BY <1>1 DEF AllocAccounts, AllocAdds
  <2> QED
    BY <1>4, <2>1, <2>2 DEF AllocAccounts
<1> QED
  BY <1>6, <1>7, <1>8, <1>9, <1>10, <1>11, <1>12

\* Every step preserves the invariant.
LEMMA AllocNextInv == AllocInv /\ [Alloc!Next]_(Alloc!vars) => AllocInv'
<1> SUFFICES ASSUME AllocInv, [Alloc!Next]_(Alloc!vars) PROVE AllocInv'
  OBVIOUS
<1>1. CASE UNCHANGED Alloc!vars
  BY <1>1 DEF Alloc!vars, AllocInv, AllocTypes, AllocNetTypes, AllocLabels, AllocTidy,
              AllocFresh, AllocOneServer, AllocAccounts, AllocAdds
<1>2. ASSUME NEW p \in Alloc!Procs, Alloc!Loop(p) PROVE AllocInv'
  BY <1>2, AllocAcceptInv, AllocEchoInv, AllocOtherInv, AllocFailureInv DEF Alloc!Loop
<1>3. CASE Alloc!MasterOnly
  BY <1>3, AllocOtherInv
<1>4. CASE Alloc!Alarm
  BY <1>4, AllocAlarmInv DEF Alloc!Alarm
<1>5. ASSUME Alloc!fork_fails \/ \E s \in Slaves : Alloc!SlaveOnly(s) PROVE AllocInv'
  BY <1>5, AllocOtherInv, AllocFailureInv DEF Alloc!SlaveOnly
<1>6. ASSUME NEW c \in Clients, Alloc!ClientStep(c) PROVE AllocInv'
  BY <1>6, AllocClientInv
<1> QED
  BY <1>1, <1>2, <1>3, <1>4, <1>5, <1>6 DEF Alloc!Next

\* The invariant holds in every reachable state.
LEMMA AllocInvHolds == Alloc!Spec => []AllocInv
  BY AllocInitInv, AllocNextInv, PTL DEF Alloc!Spec

\* A message is in the queue, with one process, or echoed, so that none of the three
\* is more than was sent.
LEMMA AllocBounded ==
  ASSUME AllocInv
  PROVE  /\ \A c \in Clients : inq[c] \in 0..MaxSent /\ echoed[c] \in 0..MaxSent
         /\ \A p \in Alloc!Procs : buf[p] \in 0..MaxSent
         /\ \A p \in Alloc!Procs : pc[p] \in AllocHolds => echoed[ssock[p]] + buf[p] <= sent[ssock[p]]
<1> USE ConstantsAssumption DEF AllocInv
<1>1. \A c \in Clients : inq[c] \in Nat /\ echoed[c] \in Nat /\ sent[c] \in 0..MaxSent
  BY DEF AllocNetTypes
<1>2. \A p \in Alloc!Procs : buf[p] \in Nat /\ (buf[p] > 0 <=> pc[p] \in AllocHolds)
  BY DEF AllocTypes, AllocTidy
<1>3. \A p \in Alloc!Procs : pc[p] \in AllocHolds =>
                             ssock[p] \in Clients /\ AllocAdds(ssock[p], buf[p])
  BY DEF AllocTidy, AllocServing, Serving, AllocHolds, AllocAccounts
<1>4. \A p \in Alloc!Procs : pc[p] \in AllocHolds => /\ echoed[ssock[p]] + buf[p] <= sent[ssock[p]]
                                                     /\ buf[p] <= MaxSent
  BY <1>1, <1>2, <1>3 DEF AllocAdds
<1>5. ASSUME NEW c \in Clients PROVE inq[c] \in 0..MaxSent /\ echoed[c] \in 0..MaxSent
  BY <1>1 DEF AllocAccounts, AllocAdds
<1>6. ASSUME NEW p \in Alloc!Procs PROVE buf[p] \in 0..MaxSent
  BY <1>2, <1>4
<1> QED
  BY <1>4, <1>5, <1>6

\* Type correctness: no process and no queue ever holds more of a client's messages
\* than the client has sent.
THEOREM AllocTypeCorrect == Alloc!Spec => []Alloc!TypeOK
<1>1. AllocInv => Alloc!TypeOK
  <2> SUFFICES ASSUME AllocInv PROVE Alloc!TypeOK
    OBVIOUS
  <2>1. /\ inq \in [Clients -> 0..MaxSent] /\ echoed \in [Clients -> 0..MaxSent]
        /\ buf \in [Alloc!Procs -> 0..MaxSent]
    BY AllocBounded DEF AllocInv, AllocTypes, AllocNetTypes
  <2> QED
    BY <2>1 DEF AllocInv, AllocTypes, AllocNetTypes, Alloc!TypeOK, AllocPCs
<1> QED
  BY <1>1, AllocInvHolds, PTL

\* A message that was read has one owner, and a client one reader; and the alarm is set
\* for the client the master is at.
AllocReads(p)  == pc[p] \in {"read", "write"}
AllocOneReader == /\ \A p, q \in Alloc!Procs :
                       AllocReads(p) /\ AllocReads(q) /\ ssock[p] = ssock[q] => p = q
                  /\ armed => pc[Alloc!Master] \in {"read", "write", "close", "zero", "disarm"}

\* One process reads and writes a client's connection, before, while and after the alarm
\* hands it over, and the alarm of one client never goes off on the next one.
THEOREM AllocHandedOver == Alloc!Spec => []AllocOneReader
<1>1. ASSUME AllocInv PROVE AllocOneReader
  <2>1. \A p, q \in Alloc!Procs : AllocReads(p) /\ AllocReads(q) /\ ssock[p] = ssock[q] => p = q
    BY <1>1 DEF AllocInv, AllocOneServer, AllocServing, Serving, AllocReads
  <2>2. armed => pc[Alloc!Master] \in {"read", "write", "close", "zero", "disarm"}
    BY <1>1 DEF AllocInv, AllocLabels
  <2> QED
    BY <2>1, <2>2 DEF AllocOneReader
<1> QED
  BY <1>1, AllocInvHolds, PTL

\* A step of the server or of a client is a step of the ECHO service, or none.
LEMMA AllocStepRefines ==
  ASSUME AllocInv, [Alloc!Next]_(Alloc!vars)
  PROVE  [Alloc!Service!Next]_(Alloc!Service!vars)
<1> USE ConstantsAssumption
<1>1. ASSUME NEW c \in Clients, Alloc!send(c) PROVE Alloc!Service!Next
  BY <1>1 DEF Alloc!send, Alloc!Service!Next, Alloc!Service!Send
<1>2. ASSUME NEW p \in Alloc!Procs, Alloc!write(p) PROVE Alloc!Service!Next
  <2>1. PICK c \in Clients : c = ssock[p]
    BY <1>2 DEF AllocInv, Alloc!write, Alloc!Goto, AllocTidy, AllocServing, Serving
  <2>2. /\ echoed' = [echoed EXCEPT ![c] = echoed[c] + buf[p]] /\ sent' = sent
        /\ pc[p] = "write"
    BY <1>2, <2>1 DEF Alloc!write, Alloc!Goto
  <2>3. /\ buf[p] \in Nat /\ buf[p] > 0 /\ echoed[c] \in Nat /\ sent[c] \in Nat
        /\ echoed[c] + buf[p] <= sent[c]
    BY <2>1, <2>2, AllocBounded DEF AllocInv, AllocTidy, AllocHolds, AllocTypes, AllocNetTypes
  <2>4. echoed[c] + buf[p] \in (echoed[c] + 1)..sent[c]
    BY <2>3
  <2>5. Alloc!Service!Echo(c)
    BY <2>2, <2>4 DEF Alloc!Service!Echo
  <2> QED
    BY <2>5 DEF Alloc!Service!Next
<1>3. ASSUME NEW p \in Alloc!Procs, Alloc!Loop(p), ~Alloc!write(p) PROVE UNCHANGED <<sent, echoed>>
  BY <1>3 DEF Alloc!Loop, Alloc!accept, Alloc!read, Alloc!read_eof, Alloc!read_reset,
              Alloc!write_reset, Alloc!close, Alloc!zero, Alloc!net
<1>4. ASSUME \/ Alloc!MasterOnly \/ Alloc!Alarm \/ Alloc!fork_fails
             \/ \E s \in Slaves : Alloc!SlaveOnly(s)
      PROVE  UNCHANGED <<sent, echoed>>
  BY <1>4 DEF Alloc!MasterOnly, Alloc!arm, Alloc!disarm, Alloc!jumped, Alloc!Alarm,
              Alloc!delayed_alloctn_cb, Alloc!fork_fails, Alloc!SlaveOnly, Alloc!select,
              Alloc!inactive, Alloc!interrupted, Alloc!net
<1>5. ASSUME NEW c \in Clients, Alloc!connect(c) \/ Alloc!finish(c) \/ Alloc!reset(c)
      PROVE  UNCHANGED <<sent, echoed>>
  BY <1>5 DEF Alloc!connect, Alloc!finish, Alloc!reset
<1> QED
  BY <1>1, <1>2, <1>3, <1>4, <1>5 DEF Alloc!Next, Alloc!ClientStep, Alloc!vars, Alloc!Service!vars

\* The safety half of ImplementsEcho: the servers with delayed allocation implement the
\* ECHO service, whatever fails, for any number of clients and slaves.  That messages
\* are echoed in the end stays with TLC.
THEOREM AllocImplementsService == Alloc!Spec => Alloc!Service!Spec
<1>1. Alloc!Init => Alloc!Service!Init
  BY DEF Alloc!Init, Alloc!Service!Init
<1>2. AllocInv /\ [Alloc!Next]_(Alloc!vars) => [Alloc!Service!Next]_(Alloc!Service!vars)
  BY AllocStepRefines
<1> QED
  BY <1>1, <1>2, AllocInvHolds, PTL DEF Alloc!Spec, Alloc!Service!Spec
=============================================================================
