---------------------------- MODULE SlavePoolProofs ----------------------------
(***************************************************************************)
(* Proofs about SlavePool, for any number of clients, slaves and blocks:   *)
(* the master and a slave never wait for each other, because a round of    *)
(* the master that posts a buffer to a slave has first taken one from it;  *)
(* clientTbl has one entry for each connection; and no block of a client   *)
(* is delivered twice.                                                     *)
(***************************************************************************)
EXTENDS SlavePool, SequenceTheorems, FiniteSetTheorems, WellFoundedInduction, TLAPS

Pipes == /\ in \in [Slots -> Seq(Clients)] /\ held \in [Slots -> Seq(Clients)]
         /\ out \in [Slots -> Seq(Clients)]
         /\ \A i \in Slots : Len(in[i]) <= PIPE /\ Len(out[i]) <= PIPE /\ Len(held[i]) <= BUF

Types == /\ ssock \in [Slots -> Clients \cup {Free}]
         /\ mpc \in {"select", "loop", "write", "dead"}
         /\ rfds \in [listen : BOOLEAN, slots : SUBSET Slots, clients : SUBSET Clients]
         /\ post \in [slot : Slots, blocks : Seq(Clients)] /\ Len(post.blocks) <= BUF
         /\ backlog \in Seq(Clients)
         /\ conn \in [Clients -> {"new", "queued", "open", "fin", "rst", "closed"}]
         /\ inq \in [Clients -> Nat]

\* Only connections that have not been accepted wait, each once, and what select saw
\* of them is still there.
Waiting == /\ \A i \in 1..Len(backlog) : conn[backlog[i]] = "queued"
           /\ \A i, j \in 1..Len(backlog) : backlog[i] = backlog[j] => i = j
           /\ mpc \in {"loop", "write"} /\ rfds.listen => backlog # <<>>

\* clientTbl has an entry for each connection, and no two.
Accepted == {"open", "fin", "rst"}
Table == /\ \A i, j \in Slots : ssock[i] = ssock[j] /\ ssock[i] # Free => i = j
         /\ mpc # "dead" => \A c \in Clients : conn[c] \in Accepted <=> c \in Watched
         /\ mpc \in {"loop", "write"} => rfds.clients \subseteq Watched

\* What is under way from the master to slave i and back.
UnderWay(i) == Len(in[i]) + Len(held[i]) + Len(out[i])

\* A slave has a pipe and two buffers under way at most, and when the master comes to a
\* client of this round, one buffer less.
Flow ==
  /\ \A i \in Slots : UnderWay(i) <= PIPE + 2 * BUF
  /\ mpc = "write" => /\ UnderWay(post.slot) + Len(post.blocks) <= PIPE + 2 * BUF
                      /\ ssock[post.slot] \notin rfds.clients
  /\ mpc \in {"loop", "write"} =>
       \A i \in Slots \ rfds.slots : ssock[i] \in rfds.clients => UnderWay(i) <= PIPE + BUF

Inv == Types /\ Pipes /\ Waiting /\ Table /\ Flow

\* Sums of three lengths.
LEMMA Sums ==
  \A a, b, c \in Nat :
    /\ a + b + c \in Nat
    /\ a <= PIPE /\ b <= BUF /\ c = 0 => a + b + c <= PIPE + BUF
  BY ConstantsAssumption

\* What a read of n returns, and what it leaves.
LEMMA ReadParts ==
  ASSUME NEW s \in Seq(Clients), NEW n \in Nat
  PROVE  /\ Upto(s, n) \in Seq(Clients) /\ Len(Upto(s, n)) = Least(n, Len(s))
         /\ Rest(s, n) \in Seq(Clients) /\ Len(Rest(s, n)) = Len(s) - Least(n, Len(s))
<1>1. Len(s) \in Nat
  BY LenProperties
<1>2. Least(n, Len(s)) \in 0..Len(s)
  BY <1>1 DEF Least
<1>3. Upto(s, n) \in Seq(Clients) /\ Len(Upto(s, n)) = Least(n, Len(s))
  <2>1. \A i \in 1..Least(n, Len(s)) : i \in 1..Len(s)
    BY <1>1, <1>2
  <2> QED
    BY <1>1, <1>2, <2>1, SubSeqProperties DEF Upto
<1>4. Rest(s, n) \in Seq(Clients) /\ Len(Rest(s, n)) = Len(s) - Least(n, Len(s))
  <2> DEFINE m == Least(n, Len(s))
  <2>1. m \in 0..Len(s)
    BY <1>2
  <2> HIDE DEF m
  <2>2. \A i \in (m + 1)..Len(s) : i \in 1..Len(s)
    BY <1>1, <2>1
  <2>3. SubSeq(s, m + 1, Len(s)) \in Seq(Clients)
        /\ Len(SubSeq(s, m + 1, Len(s))) = IF m + 1 <= Len(s) THEN Len(s) - (m + 1) + 1 ELSE 0
    BY <1>1, <2>1, <2>2, SubSeqProperties
  <2>4. Len(SubSeq(s, m + 1, Len(s))) = Len(s) - m
    BY <1>1, <2>1, <2>3
  <2> QED
    BY <2>3, <2>4 DEF Rest, m
<1> QED
  BY <1>3, <1>4

\* Turning a buffer around keeps its length.
LEMMA Turned ==
  ASSUME NEW s \in Seq(Clients)
  PROVE  Reverse(s) \in Seq(Clients) /\ Len(Reverse(s)) = Len(s)
<1>1. Len(s) \in Nat /\ \A i \in 1..Len(s) : s[i] \in Clients
  BY LenProperties, ElementOfSeq
<1>2. \A i \in 1..Len(s) : (Len(s) - i) + 1 \in 1..Len(s)
  BY <1>1
<1>3. Reverse(s) \in [1..Len(s) -> Clients]
  BY <1>1, <1>2 DEF Reverse
<1> QED
  BY <1>1, <1>3, SeqDef, LenProperties

\* A set of entries that is not empty has a first one.
LEMMA FirstSlot ==
  ASSUME NEW S \in SUBSET Slots, S # {}
  PROVE  \E s \in S : \A t \in S : s <= t
<1>1. S \subseteq Nat
  BY ConstantsAssumption DEF Slots
<1>2. \E s \in S : \A t \in S : ~(<<t, s>> \in OpToRel(<, Nat))
  BY <1>1, NatLessThanWellFounded, WFMin
<1>3. \A s, t \in Nat : ~(<<t, s>> \in OpToRel(<, Nat)) => s <= t
  BY DEF OpToRel
<1> QED
  BY <1>1, <1>2, <1>3

LEMMA InitInv == Init => Inv
<1> SUFFICES ASSUME Init PROVE Inv
  OBVIOUS
<1> USE ConstantsAssumption DEF Init
<1>1. Types
  <2>1. /\ post.slot = 1 /\ post.blocks = <<>> /\ 1 \in Slots /\ Len(<<>>) <= BUF
        /\ post \in [slot : Slots, blocks : Seq(Clients)]
    BY DEF Slots
  <2> QED
    BY <2>1 DEF Types, Nothing
<1>2. Pipes
  BY DEF Pipes
<1>3. Waiting /\ Table
  BY DEF Waiting, Table, Accepted, Watched
<1>4. Flow
  BY DEF Flow, UnderWay
<1> QED
  BY <1>1, <1>2, <1>3, <1>4 DEF Inv

\* The clients.
LEMMA ClientInv ==
  ASSUME Inv, NEW c \in Clients, ClientStep(c)
  PROVE  Inv'
<1> USE ConstantsAssumption DEF Inv, slaves
<1>1. UNCHANGED <<ssock, in, held, out, mpc, rfds, post>>
  BY DEF ClientStep, connect, send, finish, reset
<1>2. Pipes' /\ Flow'
  BY <1>1 DEF Pipes, Flow, UnderWay
<1>3. CASE connect(c)
  <2>1. /\ conn[c] = "new" /\ conn' = [conn EXCEPT ![c] = "queued"]
        /\ backlog' = Append(backlog, c) /\ inq' = inq
    BY <1>3 DEF connect
  <2>2. backlog \in Seq(Clients) /\ Len(backlog) \in Nat
    BY LenProperties DEF Types
  <2>3. /\ backlog' \in Seq(Clients) /\ Len(backlog') = Len(backlog) + 1 /\ backlog' # <<>>
        /\ \A i \in 1..Len(backlog) : backlog'[i] = backlog[i]
        /\ backlog'[Len(backlog) + 1] = c
    BY <2>1, <2>2, AppendProperties
  <2>4. Types'
    BY <1>1, <2>1, <2>3 DEF Types
  <2>5. \A d \in Clients : conn'[d] = IF d = c THEN "queued" ELSE conn[d]
    BY <2>1 DEF Types
  <2>6. Table'
    BY <1>1, <2>1, <2>5 DEF Table, Watched, Accepted
  <2>7. Waiting'
    <3>1. \A i \in 1..Len(backlog') : i \in 1..Len(backlog) \/ i = Len(backlog) + 1
      BY <2>2, <2>3
    <3>2. \A i \in 1..Len(backlog) : backlog[i] \in Clients /\ conn[backlog[i]] = "queued"
                                     /\ backlog[i] # c
      BY <2>1, <2>2, ElementOfSeq DEF Waiting
    <3>3. \A i \in 1..Len(backlog') : conn'[backlog'[i]] = "queued"
      BY <2>3, <2>5, <3>1, <3>2
    <3>4. \A i, j \in 1..Len(backlog') : backlog'[i] = backlog'[j] => i = j
      <4>1. \A i, j \in 1..Len(backlog) : backlog[i] = backlog[j] => i = j
        BY DEF Waiting
      <4> QED
        BY <2>3, <3>1, <3>2, <4>1
    <3> QED
      BY <1>1, <2>3, <3>3, <3>4 DEF Waiting
  <2> QED
    BY <1>2, <2>4, <2>6, <2>7
<1>4. CASE send(c) \/ finish(c) \/ reset(c)
  <2>1. /\ backlog' = backlog /\ inq' \in [Clients -> Nat]
        /\ conn' \in [Clients -> {"new", "queued", "open", "fin", "rst", "closed"}]
        /\ \A d \in Clients : /\ conn'[d] \in Accepted <=> conn[d] \in Accepted
                              /\ conn[d] = "queued" => conn'[d] = "queued"
    <3>1. CASE send(c)
      BY <3>1 DEF send, Types
    <3>2. CASE finish(c)
      BY <3>2 DEF finish, Types, Accepted
    <3>3. CASE reset(c)
      BY <3>3 DEF reset, Types, Accepted
    <3> QED
      BY <1>4, <3>1, <3>2, <3>3
  <2>2. Types' /\ Table'
    BY <1>1, <2>1 DEF Types, Table, Watched
  <2>3. Waiting'
    <3>1. \A i \in 1..Len(backlog) : backlog[i] \in Clients
      BY ElementOfSeq DEF Types
    <3> QED
      BY <1>1, <2>1, <3>1 DEF Waiting
  <2> QED
    BY <1>2, <2>2, <2>3
<1> QED
  BY <1>3, <1>4 DEF ClientStep

\* A slave moves what is under way, and changes none of its amount.
LEMMA SlaveInv ==
  ASSUME Inv, NEW i \in Slots, SlaveStep(i)
  PROVE  Inv'
<1> USE ConstantsAssumption DEF Inv, net
<1>1. UNCHANGED <<ssock, mpc, rfds, post, backlog, conn, inq, sent, got, faults>>
  BY DEF SlaveStep, slave_read, slave_write
<1>2. Types' /\ Waiting' /\ Table'
  BY <1>1 DEF Types, Waiting, Table, Watched
<1>3. /\ in[i] \in Seq(Clients) /\ held[i] \in Seq(Clients) /\ out[i] \in Seq(Clients)
      /\ Len(in[i]) \in Nat /\ Len(held[i]) \in Nat /\ Len(out[i]) \in Nat
      /\ Len(in[i]) <= PIPE /\ Len(out[i]) <= PIPE /\ Len(held[i]) <= BUF
      /\ Len(<<>>) = 0 /\ <<>> \in Seq(Clients)
  BY LenProperties DEF Pipes
<1>4. Pipes' /\ \A j \in Slots : UnderWay(j)' = UnderWay(j)
  <2>1. CASE slave_read(i)
    <3> DEFINE m == Least(BUF, Len(in[i]))
               h == Reverse(Upto(in[i], BUF))
               r == Rest(in[i], BUF)
    <3>1. /\ h \in Seq(Clients) /\ Len(h) = m /\ r \in Seq(Clients) /\ Len(r) = Len(in[i]) - m
          /\ m \in Nat /\ m <= BUF /\ m <= Len(in[i])
      <4>1. /\ Upto(in[i], BUF) \in Seq(Clients) /\ Len(Upto(in[i], BUF)) = m
            /\ r \in Seq(Clients) /\ Len(r) = Len(in[i]) - m
        BY <1>3, ReadParts
      <4>2. h \in Seq(Clients) /\ Len(h) = m
        BY <4>1, Turned
      <4>3. m \in Nat /\ m <= BUF /\ m <= Len(in[i])
        BY <1>3 DEF Least
      <4> QED
        BY <4>1, <4>2, <4>3
    <3>2. /\ held' = [held EXCEPT ![i] = h] /\ in' = [in EXCEPT ![i] = r] /\ out' = out
          /\ held[i] = <<>>
      BY <2>1 DEF slave_read
    <3> HIDE DEF h, r, m
    <3>3. Pipes'
      BY <1>3, <3>1, <3>2 DEF Pipes
    <3>4. \A j \in Slots : j # i => UnderWay(j)' = UnderWay(j)
      BY <3>2 DEF UnderWay, Pipes
    <3>5. UnderWay(i)' = UnderWay(i)
      <4>1. in'[i] = r /\ held'[i] = h /\ out'[i] = out[i] /\ Len(held[i]) = 0
        BY <1>3, <3>2 DEF Pipes
      <4>2. UnderWay(i)' = Len(r) + Len(h) + Len(out[i])
        BY <4>1 DEF UnderWay
      <4>3. Len(r) + Len(h) + Len(out[i]) = Len(in[i]) + Len(held[i]) + Len(out[i])
        BY <1>3, <3>1, <4>1
      <4> QED
        BY <4>2, <4>3 DEF UnderWay
    <3> QED
      BY <3>3, <3>4, <3>5
  <2>2. CASE slave_write(i)
    <3> DEFINE o == out[i] \o held[i]
    <3>1. /\ o \in Seq(Clients) /\ Len(o) = Len(out[i]) + Len(held[i])
          /\ Len(in[i]) + 0 + Len(o) = Len(in[i]) + Len(held[i]) + Len(out[i])
      <4>1. o \in Seq(Clients) /\ Len(o) = Len(out[i]) + Len(held[i])
        BY <1>3, ConcatProperties
      <4>2. PICK a \in Nat, b \in Nat, c \in Nat :
                   a = Len(in[i]) /\ b = Len(held[i]) /\ c = Len(out[i])
        BY <1>3
      <4>3. a + 0 + (c + b) = a + b + c
        OBVIOUS
      <4> QED
        BY <4>1, <4>2, <4>3
    <3>2. /\ out' = [out EXCEPT ![i] = o] /\ held' = [held EXCEPT ![i] = <<>>] /\ in' = in
          /\ Len(out[i]) + Len(held[i]) <= PIPE
      BY <2>2 DEF slave_write
    <3> HIDE DEF o
    <3>3. Pipes'
      BY <1>3, <3>1, <3>2 DEF Pipes
    <3>4. \A j \in Slots : j # i => UnderWay(j)' = UnderWay(j)
      BY <3>2 DEF UnderWay, Pipes
    <3>5. UnderWay(i)' = UnderWay(i)
      <4>1. in'[i] = in[i] /\ Len(held'[i]) = 0 /\ out'[i] = o
        BY <1>3, <3>2 DEF Pipes
      <4>2. UnderWay(i)' = Len(in[i]) + 0 + Len(o)
        BY <4>1 DEF UnderWay
      <4>3. Len(in[i]) + 0 + Len(o) = Len(in[i]) + Len(held[i]) + Len(out[i])
        BY <3>1
      <4> QED
        BY <4>2, <4>3 DEF UnderWay
    <3> QED
      BY <3>3, <3>4, <3>5
  <2> QED
    BY <2>1, <2>2 DEF SlaveStep
<1>5. Flow'
  BY <1>1, <1>4 DEF Flow, Types
<1> QED
  BY <1>2, <1>4, <1>5

\* The first connection that waits, and those that go on waiting.
LEMMA Dequeue ==
  ASSUME Types, Waiting, backlog # <<>>, backlog' = Tail(backlog)
  PROVE  /\ Head(backlog) \in Clients /\ conn[Head(backlog)] = "queued"
         /\ backlog' \in Seq(Clients)
         /\ \A i \in 1..Len(backlog') : /\ backlog'[i] \in Clients /\ backlog'[i] # Head(backlog)
                                        /\ conn[backlog'[i]] = "queued"
         /\ \A i, j \in 1..Len(backlog') : backlog'[i] = backlog'[j] => i = j
<1>1. backlog \in Seq(Clients) /\ Len(backlog) \in Nat
  BY LenProperties DEF Types
<1>2. Len(backlog) >= 1 /\ Head(backlog) = backlog[1] /\ Head(backlog) \in Clients
  BY <1>1, HeadTailProperties, LenProperties, EmptySeq
<1>3. /\ backlog' \in Seq(Clients) /\ Len(backlog') = Len(backlog) - 1
      /\ \A i \in 1..Len(backlog') : backlog'[i] = backlog[i + 1]
  BY <1>1, HeadTailProperties
<1>4. /\ \A i \in 1..Len(backlog) : conn[backlog[i]] = "queued" /\ backlog[i] \in Clients
      /\ \A i, j \in 1..Len(backlog) : backlog[i] = backlog[j] => i = j
  BY <1>1, ElementOfSeq DEF Waiting
<1>5. /\ \A i \in 1..Len(backlog') : i + 1 \in 1..Len(backlog) /\ i + 1 # 1
      /\ \A i, j \in 1..Len(backlog') : i + 1 = j + 1 => i = j
      /\ 1 \in 1..Len(backlog)
  BY <1>1, <1>2, <1>3
<1>6. \A i \in 1..Len(backlog') : /\ backlog'[i] \in Clients /\ backlog'[i] # Head(backlog)
                                  /\ conn[backlog'[i]] = "queued"
  BY <1>2, <1>3, <1>4, <1>5
<1>7. \A i, j \in 1..Len(backlog') : backlog'[i] = backlog'[j] => i = j
  BY <1>3, <1>4, <1>5
<1> QED
  BY <1>2, <1>3, <1>4, <1>6, <1>7, <1>5

\* What is under way, as a number.
LEMMA Amount ==
  ASSUME Pipes, Types
  PROVE  /\ \A i \in Slots : UnderWay(i) \in Nat
         /\ Len(post.blocks) \in Nat
         /\ \A i \in Slots : out[i] = <<>> => UnderWay(i) <= PIPE + BUF
<1> USE ConstantsAssumption
<1>1. \A i \in Slots : /\ Len(in[i]) \in Nat /\ Len(held[i]) \in Nat /\ Len(out[i]) \in Nat
                       /\ Len(in[i]) <= PIPE /\ Len(held[i]) <= BUF
                       /\ (out[i] = <<>> => Len(out[i]) = 0)
  BY LenProperties DEF Pipes
<1>2. Len(post.blocks) \in Nat
  BY LenProperties DEF Types
<1>3. \A i \in Slots : UnderWay(i) \in Nat
  BY <1>1, Sums DEF UnderWay
<1>4. ASSUME NEW i \in Slots, out[i] = <<>>
      PROVE  UnderWay(i) <= PIPE + BUF
  BY <1>1, <1>4, Sums DEF UnderWay
<1> QED
  BY <1>2, <1>3, <1>4

\* A round begins: a slave with an empty pipe back has a pipe and a buffer at most.
LEMMA SelectInv ==
  ASSUME Inv, select
  PROVE  Inv'
<1> USE ConstantsAssumption DEF Inv, slaves, net
<1>1. /\ mpc' = "loop" /\ mpc = "select" /\ rfds' = Ready
      /\ UNCHANGED <<ssock, in, held, out, post, backlog, conn, inq, sent, got, faults>>
  BY DEF select
<1>2. /\ rfds'.listen = (backlog # <<>>) /\ rfds'.slots = {i \in Slots : out[i] # <<>>}
      /\ rfds'.clients \subseteq Watched /\ rfds'.clients \subseteq Clients
      /\ rfds' \in [listen : BOOLEAN, slots : SUBSET Slots, clients : SUBSET Clients]
  BY <1>1 DEF Ready, Watched
<1>3. Types' /\ Pipes'
  BY <1>1, <1>2 DEF Types, Pipes
<1>4. Waiting'
  BY <1>1, <1>2 DEF Waiting
<1>5. Table'
  BY <1>1, <1>2 DEF Table, Watched
<1>6. Flow'
  <2>1. \A i \in Slots : UnderWay(i)' = UnderWay(i)
    BY <1>1 DEF UnderWay
  <2>2. \A i \in Slots \ rfds'.slots : UnderWay(i) <= PIPE + BUF
    BY <1>2, Amount
  <2> QED
    BY <1>1, <2>1, <2>2 DEF Flow
<1> QED
  BY <1>3, <1>4, <1>5, <1>6

\* accept: the new connection is not one that select found readable.
LEMMA AcceptInv ==
  ASSUME Inv, accept
  PROVE  Inv'
<1> USE ConstantsAssumption DEF Inv, slaves
<1> DEFINE c == Head(backlog)
           free == {i \in Slots : ssock[i] = Free}
           first == CHOOSE i \in free : \A j \in free : i <= j
<1>1. /\ mpc = "loop" /\ rfds.listen /\ backlog' = Tail(backlog)
      /\ rfds' = [rfds EXCEPT !.listen = FALSE]
      /\ UNCHANGED <<in, held, out, mpc, post, inq, sent, got, faults>>
  BY DEF accept
<1>2. /\ c \in Clients /\ conn[c] = "queued" /\ backlog' \in Seq(Clients)
      /\ \A i \in 1..Len(backlog') : /\ backlog'[i] \in Clients /\ backlog'[i] # c
                                     /\ conn[backlog'[i]] = "queued"
      /\ \A i, j \in 1..Len(backlog') : backlog'[i] = backlog'[j] => i = j
  BY <1>1, Dequeue DEF Waiting
<1>3. \/ conn' = [conn EXCEPT ![c] = "closed"] /\ ssock' = ssock
      \/ \E i \in Slots : /\ ssock[i] = Free /\ ssock' = [ssock EXCEPT ![i] = c]
                          /\ conn' = [conn EXCEPT ![c] = "open"]
  <2>1. CASE free = {}
    BY <2>1 DEF accept
  <2>2. CASE free # {}
    <3>1. first \in free
      BY <2>2, FirstSlot
    <3>2. ssock' = [ssock EXCEPT ![first] = c] /\ conn' = [conn EXCEPT ![c] = "open"]
      BY <2>2 DEF accept
    <3> QED
      BY <3>1, <3>2
  <2> QED
    BY <2>1, <2>2
<1> HIDE DEF c, free, first
<1>4. c \notin Watched /\ c \notin rfds.clients /\ Free \notin rfds.clients
  BY <1>1, <1>2 DEF Table, Accepted, Types
<1>5. /\ \A d \in Clients : d # c => conn'[d] = conn[d]
      /\ \A i \in Slots : ssock'[i] = ssock[i] \/ (ssock[i] = Free /\ ssock'[i] = c)
      /\ conn' \in [Clients -> {"new", "queued", "open", "fin", "rst", "closed"}]
      /\ ssock' \in [Slots -> Clients \cup {Free}]
  <2>1. /\ ssock \in [Slots -> Clients \cup {Free}]
        /\ conn \in [Clients -> {"new", "queued", "open", "fin", "rst", "closed"}]
    BY DEF Types
  <2>2. CASE conn' = [conn EXCEPT ![c] = "closed"] /\ ssock' = ssock
    BY <1>2, <2>1, <2>2
  <2>3. ASSUME NEW i \in Slots, ssock[i] = Free, ssock' = [ssock EXCEPT ![i] = c],
               conn' = [conn EXCEPT ![c] = "open"]
        PROVE  /\ \A d \in Clients : d # c => conn'[d] = conn[d]
               /\ \A j \in Slots : ssock'[j] = ssock[j] \/ (ssock[j] = Free /\ ssock'[j] = c)
               /\ conn' \in [Clients -> {"new", "queued", "open", "fin", "rst", "closed"}]
               /\ ssock' \in [Slots -> Clients \cup {Free}]
    BY <1>2, <2>1, <2>3
  <2> QED
    BY <1>3, <2>2, <2>3
<1>6. /\ rfds'.listen = FALSE /\ rfds'.slots = rfds.slots /\ rfds'.clients = rfds.clients
      /\ rfds' \in [listen : BOOLEAN, slots : SUBSET Slots, clients : SUBSET Clients]
  BY <1>1 DEF Types
<1>7. Types' /\ Pipes'
  BY <1>1, <1>2, <1>5, <1>6 DEF Types, Pipes
<1>8. Waiting'
  BY <1>2, <1>5, <1>6 DEF Waiting
<1>9. Table'
  <2>1. \A i, j \in Slots : ssock'[i] = ssock'[j] /\ ssock'[i] # Free => i = j
    <3>1. CASE ssock' = ssock
      BY <3>1 DEF Table
    <3>2. ASSUME NEW k \in Slots, ssock[k] = Free, ssock' = [ssock EXCEPT ![k] = c]
          PROVE  \A i, j \in Slots : ssock'[i] = ssock'[j] /\ ssock'[i] # Free => i = j
      <4>1. \A i \in Slots : ssock[i] # c
        BY <1>2, <1>4 DEF Watched
      <4> QED
        BY <3>2, <4>1 DEF Table, Types
    <3> QED
      BY <1>3, <3>1, <3>2
  <2>2. \A d \in Clients : d # c => (d \in Watched' <=> d \in Watched)
    BY <1>2, <1>5 DEF Watched
  <2>3. conn'[c] \in Accepted <=> c \in Watched'
    <3>1. CASE conn' = [conn EXCEPT ![c] = "closed"] /\ ssock' = ssock
      BY <1>2, <1>4, <3>1 DEF Types, Accepted, Watched
    <3>2. ASSUME NEW i \in Slots, ssock[i] = Free, ssock' = [ssock EXCEPT ![i] = c],
                 conn' = [conn EXCEPT ![c] = "open"]
          PROVE  conn'[c] \in Accepted /\ c \in Watched'
      BY <1>2, <3>2 DEF Types, Accepted, Watched
    <3> QED
      BY <1>3, <3>1, <3>2
  <2>4. rfds'.clients \subseteq Watched'
    BY <1>1, <1>4, <1>6, <2>2 DEF Table, Watched, Types
  <2> QED
    BY <1>1, <1>5, <2>1, <2>2, <2>3, <2>4 DEF Table
<1>10. Flow'
  <2>1. \A i \in Slots : UnderWay(i)' = UnderWay(i)
    BY <1>1 DEF UnderWay
  <2>2. \A i \in Slots : ssock'[i] \in rfds.clients => ssock[i] \in rfds.clients
    BY <1>4, <1>5
  <2> QED
    BY <1>1, <1>6, <2>1, <2>2 DEF Flow
<1> QED
  BY <1>7, <1>8, <1>9, <1>10

\* A buffer is taken from a slave: either the pipe back is empty then, or there is one
\* buffer less under way.
LEMMA GetInv ==
  ASSUME Inv, NEW i \in Slots, echoGetFrmThrd(i)
  PROVE  Inv'
<1> USE ConstantsAssumption DEF Inv
<1> DEFINE r == Rest(out[i], BUF)
<1>1. /\ mpc = "loop" /\ mpc' \in {"loop", "dead"} /\ out' = [out EXCEPT ![i] = r]
      /\ i \in rfds.slots /\ rfds' = [rfds EXCEPT !.slots = @ \ {i}] /\ rfds.listen = FALSE
      /\ UNCHANGED <<ssock, in, held, post, backlog, conn, inq, sent, faults>>
  BY DEF echoGetFrmThrd, RepliesFirst, Types
<1>2. /\ out[i] \in Seq(Clients) /\ Len(out[i]) \in Nat /\ Len(in[i]) \in Nat /\ Len(held[i]) \in Nat
      /\ Len(in[i]) <= PIPE /\ Len(held[i]) <= BUF /\ Len(out[i]) <= PIPE
  BY LenProperties DEF Pipes
<1>3. /\ r \in Seq(Clients) /\ Len(r) \in Nat /\ Len(r) <= Len(out[i])
      /\ Len(r) = 0 \/ Len(r) + BUF = Len(out[i])
  <2>1. r \in Seq(Clients) /\ Len(r) = Len(out[i]) - Least(BUF, Len(out[i]))
    BY <1>2, ReadParts
  <2>2. \A x \in Nat : LET y == x - Least(BUF, x)
                       IN  y \in Nat /\ y <= x /\ (y = 0 \/ y + BUF = x)
    BY DEF Least
  <2> HIDE DEF r
  <2> QED
    BY <1>2, <2>1, <2>2
<1> HIDE DEF r
<1>4. /\ rfds'.listen = FALSE /\ rfds'.slots = rfds.slots \ {i} /\ rfds'.clients = rfds.clients
      /\ rfds' \in [listen : BOOLEAN, slots : SUBSET Slots, clients : SUBSET Clients]
  BY <1>1 DEF Types
<1>5. Types'
  BY <1>1, <1>4 DEF Types
<1>6. Pipes'
  BY <1>1, <1>2, <1>3 DEF Pipes
<1>7. Waiting' /\ Table'
  BY <1>1, <1>4 DEF Waiting, Table, Watched
<1>8. \A j \in Slots : j # i => UnderWay(j)' = UnderWay(j)
  BY <1>1 DEF UnderWay, Pipes
<1>9. UnderWay(i)' <= UnderWay(i) /\ UnderWay(i)' <= PIPE + BUF
  <2>1. UnderWay(i)' = Len(in[i]) + Len(held[i]) + Len(r)
    BY <1>1 DEF UnderWay, Pipes
  <2>2. UnderWay(i) = Len(in[i]) + Len(held[i]) + Len(out[i]) /\ UnderWay(i) <= PIPE + 2 * BUF
    BY DEF UnderWay, Flow
  <2>3. ASSUME NEW a \in Nat, NEW b \in Nat, NEW x \in Nat, NEW y \in Nat, y <= x,
               y = 0 \/ y + BUF = x, a <= PIPE, b <= BUF, a + b + x <= PIPE + 2 * BUF
        PROVE  a + b + y <= a + b + x /\ a + b + y <= PIPE + BUF
    <3>1. CASE y = 0
      BY <2>3, <3>1
    <3>2. CASE y + BUF = x
      BY <2>3, <3>2
    <3> QED
      BY <2>3, <3>1, <3>2
  <2>4. /\ Len(in[i]) + Len(held[i]) + Len(r) <= Len(in[i]) + Len(held[i]) + Len(out[i])
        /\ Len(in[i]) + Len(held[i]) + Len(r) <= PIPE + BUF
    BY <1>2, <1>3, <2>2, <2>3
  <2> QED
    BY <2>1, <2>2, <2>4
<1>10. Flow'
  <2>1. \A j \in Slots : UnderWay(j) \in Nat /\ UnderWay(j) <= PIPE + 2 * BUF
    BY Amount DEF Flow
  <2>2. \A j \in Slots : UnderWay(j)' <= PIPE + 2 * BUF
    <3>1. PIPE + BUF <= PIPE + 2 * BUF
      OBVIOUS
    <3>2. UnderWay(i)' \in Nat
      BY <1>5, <1>6, <1>1, <1>2, <1>3, Sums DEF UnderWay, Pipes
    <3> QED
      BY <1>8, <1>9, <2>1, <3>1, <3>2
  <2>3. ASSUME mpc' = "loop", NEW j \in Slots \ rfds'.slots, ssock[j] \in rfds.clients
        PROVE  UnderWay(j)' <= PIPE + BUF
    <3>1. CASE j = i
      BY <1>9, <3>1
    <3>2. CASE j # i
      BY <1>1, <1>4, <1>8, <2>3, <3>2 DEF Flow
    <3> QED
      BY <3>1, <3>2
  <2> QED
    BY <1>1, <1>4, <2>2, <2>3 DEF Flow
<1> QED
  BY <1>5, <1>6, <1>7, <1>10

\* What a client sent is to go to its slave, which has room for it among what may be
\* under way, as the replies of this round have been taken.
LEMMA PostInv ==
  ASSUME Inv, NEW c \in Clients, echoPost2Thrd(c)
  PROVE  Inv'
<1> USE ConstantsAssumption DEF Inv, slaves
<1> DEFINE n == Least(inq[c], BUF)
           i == CHOOSE j \in Slots : ssock[j] = c
           blocks == [k \in 1..n |-> c]
<1>1. /\ mpc = "loop" /\ mpc' = "write" /\ rfds.listen = FALSE /\ rfds.slots = {}
      /\ c \in rfds.clients /\ inq[c] > 0 /\ inq' = [inq EXCEPT ![c] = @ - n]
      /\ rfds' = [rfds EXCEPT !.clients = @ \ {c}] /\ post' = [slot |-> i, blocks |-> blocks]
      /\ UNCHANGED <<ssock, in, held, out, backlog, conn, sent, got, faults>>
  BY DEF echoPost2Thrd, ThenClients, RepliesFirst, Types
<1>2. n \in Nat /\ n <= BUF /\ n <= inq[c] /\ inq[c] - n \in Nat
  BY DEF Least, Types
<1>3. i \in Slots /\ ssock[i] = c
  <2>1. \E j \in Slots : ssock[j] = c
    BY <1>1 DEF Table, Watched
  <2> QED
    BY <2>1
<1>4. blocks \in Seq(Clients) /\ Len(blocks) = n
  <2> HIDE DEF n
  <2>1. blocks \in [1..n -> Clients]
    OBVIOUS
  <2> QED
    BY <1>2, <2>1, SeqDef, LenProperties
<1> HIDE DEF n, i, blocks
<1>5. /\ rfds'.listen = FALSE /\ rfds'.slots = {} /\ rfds'.clients = rfds.clients \ {c}
      /\ rfds' \in [listen : BOOLEAN, slots : SUBSET Slots, clients : SUBSET Clients]
  BY <1>1 DEF Types
<1>6. Types'
  <2>1. /\ post' \in [slot : Slots, blocks : Seq(Clients)] /\ Len(post'.blocks) <= BUF
    BY <1>1, <1>2, <1>3, <1>4
  <2>2. inq' \in [Clients -> Nat]
    BY <1>1, <1>2 DEF Types
  <2> QED
    BY <1>1, <1>5, <2>1, <2>2 DEF Types
<1>7. Pipes' /\ Waiting'
  BY <1>1, <1>5 DEF Pipes, Waiting
<1>8. Table'
  BY <1>1, <1>5 DEF Table, Watched
<1>9. Flow'
  <2>1. \A j \in Slots : UnderWay(j)' = UnderWay(j)
    BY <1>1 DEF UnderWay
  <2>2. UnderWay(i) \in Nat /\ UnderWay(i) <= PIPE + BUF
    BY <1>1, <1>3, Amount DEF Flow
  <2>3. UnderWay(i) + n <= PIPE + 2 * BUF
    BY <1>2, <2>2
  <2>4. post'.slot = i /\ Len(post'.blocks) = n
    BY <1>1, <1>4
  <2>5. /\ (UnderWay(post.slot) + Len(post.blocks))' <= PIPE + 2 * BUF
        /\ ssock'[post'.slot] \notin rfds'.clients
    <3>1. UnderWay(post.slot)' = UnderWay(i)
      BY <1>1, <2>4 DEF UnderWay
    <3> QED
      BY <1>1, <1>3, <1>5, <2>3, <2>4, <3>1
  <2>6. \A j \in Slots : ssock[j] \in rfds'.clients => UnderWay(j) <= PIPE + BUF
    BY <1>1, <1>5 DEF Flow
  <2> QED
    BY <1>1, <1>5, <2>1, <2>5, <2>6 DEF Flow
<1> QED
  BY <1>6, <1>7, <1>8, <1>9

\* The write: what was to go is under way.
LEMMA WriteInv ==
  ASSUME Inv, pipe_write
  PROVE  Inv'
<1> USE ConstantsAssumption DEF Inv, net
<1>0. PICK i \in Slots : i = post.slot
  BY DEF Types
<1> DEFINE w == in[i] \o post.blocks
<1>1. /\ mpc = "write" /\ mpc' = "loop" /\ Len(in[i]) + Len(post.blocks) <= PIPE
      /\ in' = [in EXCEPT ![i] = w] /\ post' = [post EXCEPT !.blocks = <<>>]
      /\ UNCHANGED <<ssock, held, out, rfds, backlog, conn, inq, sent, got, faults>>
  BY <1>0 DEF pipe_write
<1>2. /\ i \in Slots /\ in[i] \in Seq(Clients) /\ post.blocks \in Seq(Clients)
      /\ Len(in[i]) \in Nat /\ Len(post.blocks) \in Nat
      /\ Len(held[i]) \in Nat /\ Len(out[i]) \in Nat
  BY LenProperties DEF Types, Pipes
<1>3. w \in Seq(Clients) /\ Len(w) = Len(in[i]) + Len(post.blocks)
  BY <1>2, ConcatProperties
<1> HIDE DEF w
<1>4. Types'
  <2>1. post' \in [slot : Slots, blocks : Seq(Clients)] /\ Len(post'.blocks) <= BUF
    <3>1. <<>> \in Seq(Clients) /\ Len(<<>>) <= BUF
      OBVIOUS
    <3> QED
      BY <1>1, <3>1 DEF Types
  <2> QED
    BY <1>1, <2>1 DEF Types
<1>5. Pipes'
  BY <1>1, <1>2, <1>3 DEF Pipes
<1>6. Waiting' /\ Table'
  BY <1>1 DEF Waiting, Table, Watched
<1>7. \A j \in Slots : j # i => UnderWay(j)' = UnderWay(j)
  BY <1>1 DEF UnderWay, Pipes
<1>8. UnderWay(i)' = UnderWay(i) + Len(post.blocks)
  <2>1. in'[i] = w /\ held'[i] = held[i] /\ out'[i] = out[i]
    BY <1>1, <1>2 DEF Pipes
  <2>2. UnderWay(i)' = Len(w) + Len(held[i]) + Len(out[i])
    BY <2>1 DEF UnderWay
  <2>3. \A a, b, c, x \in Nat : (a + x) + b + c = (a + b + c) + x
    OBVIOUS
  <2>4. Len(w) + Len(held[i]) + Len(out[i])
          = (Len(in[i]) + Len(held[i]) + Len(out[i])) + Len(post.blocks)
    <3>1. PICK a \in Nat, b \in Nat, c \in Nat, x \in Nat :
                 a = Len(in[i]) /\ b = Len(held[i]) /\ c = Len(out[i]) /\ x = Len(post.blocks)
      BY <1>2
    <3>2. (a + x) + b + c = (a + b + c) + x
      BY <2>3
    <3> QED
      BY <1>3, <3>1, <3>2
  <2>5. UnderWay(i) = Len(in[i]) + Len(held[i]) + Len(out[i])
    BY DEF UnderWay
  <2> QED
    BY <2>2, <2>4, <2>5
<1>9. Flow'
  <2>1. UnderWay(i) + Len(post.blocks) <= PIPE + 2 * BUF /\ ssock[i] \notin rfds.clients
    BY <1>0, <1>1 DEF Flow
  <2>2. ASSUME NEW j \in Slots PROVE UnderWay(j)' <= PIPE + 2 * BUF
    <3>1. CASE j = i
      BY <1>8, <2>1, <3>1
    <3>2. CASE j # i
      BY <1>7, <3>2 DEF Flow
    <3> QED
      BY <3>1, <3>2
  <2>3. ASSUME NEW j \in Slots \ rfds.slots, ssock[j] \in rfds.clients
        PROVE  UnderWay(j)' <= PIPE + BUF
    BY <1>1, <1>7, <2>1, <2>3 DEF Flow
  <2> QED
    BY <1>1, <2>2, <2>3 DEF Flow
<1> QED
  BY <1>4, <1>5, <1>6, <1>9

\* The end of a connection frees its entry; the end of a round, and of the master.
LEMMA LeaveInv ==
  ASSUME Inv, loop_done \/ \E c \in Clients : clearClientTbl(c) \/ recv_fails(c)
  PROVE  Inv'
<1> USE ConstantsAssumption DEF Inv, slaves, net
<1>1. /\ mpc = "loop" /\ mpc' \in {"loop", "select", "dead"} /\ rfds.slots = {}
      /\ UNCHANGED <<in, held, out, post, backlog, inq, sent, got, faults>>
  BY DEF loop_done, clearClientTbl, recv_fails, ThenClients, RepliesFirst
<1>2. Pipes' /\ \A i \in Slots : UnderWay(i)' = UnderWay(i)
  BY <1>1 DEF Pipes, UnderWay
<1>3. CASE loop_done \/ \E c \in Clients : recv_fails(c)
  <2>1. UNCHANGED <<ssock, rfds, conn>> /\ mpc' \in {"select", "dead"}
    BY <1>3 DEF loop_done, recv_fails
  <2>2. Types' /\ Waiting' /\ Table'
    BY <1>1, <2>1 DEF Types, Waiting, Table, Watched
  <2>3. Flow'
    BY <1>1, <1>2, <2>1 DEF Flow
  <2> QED
    BY <1>2, <2>2, <2>3
<1>4. ASSUME NEW c \in Clients, clearClientTbl(c)
      PROVE  Inv'
  <2>1. /\ c \in rfds.clients /\ conn[c] = "fin" /\ mpc' = mpc
        /\ ssock' = [i \in Slots |-> IF ssock[i] = c THEN Free ELSE ssock[i]]
        /\ conn' = [conn EXCEPT ![c] = "closed"]
        /\ rfds' = [rfds EXCEPT !.clients = @ \ {c}]
    BY <1>4 DEF clearClientTbl
  <2>2. /\ ssock' \in [Slots -> Clients \cup {Free}]
        /\ conn' \in [Clients -> {"new", "queued", "open", "fin", "rst", "closed"}]
        /\ rfds' \in [listen : BOOLEAN, slots : SUBSET Slots, clients : SUBSET Clients]
        /\ rfds'.listen = rfds.listen /\ rfds'.slots = rfds.slots
        /\ rfds'.clients = rfds.clients \ {c}
    BY <2>1 DEF Types
  <2>3. Types'
    BY <1>1, <2>1, <2>2 DEF Types
  <2>4. Waiting'
    <3>1. \A i \in 1..Len(backlog) : backlog[i] \in Clients /\ backlog[i] # c
      BY <2>1, ElementOfSeq DEF Types, Waiting
    <3> QED
      BY <1>1, <2>1, <2>2, <3>1 DEF Waiting, Types
  <2>5. Table'
    <3>1. \A d \in Clients : d \in Watched' <=> d \in Watched /\ d # c
      BY <2>1 DEF Watched
    <3>2. \A d \in Clients : conn'[d] \in Accepted <=> conn[d] \in Accepted /\ d # c
      BY <2>1 DEF Types, Accepted
    <3>3. \A i, j \in Slots : ssock'[i] = ssock'[j] /\ ssock'[i] # Free => i = j
      BY <2>1 DEF Table
    <3>4. rfds'.clients \subseteq Watched'
      BY <1>1, <2>2, <3>1 DEF Table, Types
    <3> QED
      BY <1>1, <2>1, <3>1, <3>2, <3>3, <3>4 DEF Table
  <2>6. Flow'
    <3>1. \A i \in Slots : ssock'[i] \in rfds'.clients => ssock[i] \in rfds.clients
      <4>1. Free \notin rfds.clients
        BY DEF Types
      <4> QED
        BY <2>1, <2>2, <4>1
    <3> QED
      BY <1>1, <1>2, <2>1, <2>2, <3>1 DEF Flow
  <2> QED
    BY <1>2, <2>3, <2>4, <2>5, <2>6
<1> QED
  BY <1>3, <1>4

\* Every step preserves the invariant.
LEMMA NextInv == Inv /\ [Next]_vars => Inv'
<1> SUFFICES ASSUME Inv, [Next]_vars PROVE Inv'
  OBVIOUS
<1>1. CASE MasterStep
  BY <1>1, SelectInv, AcceptInv, GetInv, PostInv, WriteInv, LeaveInv DEF MasterStep
<1>2. ASSUME NEW i \in Slots, SlaveStep(i)
      PROVE  Inv'
  BY <1>2, SlaveInv
<1>3. ASSUME NEW c \in Clients, ClientStep(c)
      PROVE  Inv'
  BY <1>3, ClientInv
<1>4. CASE UNCHANGED vars
  BY <1>4 DEF vars, Inv, Types, Pipes, Waiting, Table, Watched, Flow, UnderWay
<1> QED
  BY <1>1, <1>2, <1>3, <1>4 DEF Next

\* Inv is an invariant of the pool.
LEMMA Always == Spec => []Inv
<1> QED
  BY InitInv, NextInv, PTL DEF Spec

\* The master and a slave never wait for each other, each for the other to empty a pipe.
THEOREM NeverStuck == Spec => []NoPipeDeadlock
<1>1. Inv => NoPipeDeadlock
  <2> SUFFICES ASSUME Inv, NEW i \in Slots, mpc = "write", post.slot = i,
                      Len(in[i]) + Len(post.blocks) > PIPE
               PROVE  Len(out[i]) + Len(held[i]) <= PIPE
    BY DEF NoPipeDeadlock
  <2> USE ConstantsAssumption DEF Inv
  <2>1. PICK a \in Nat, b \in Nat, c \in Nat, x \in Nat :
               a = Len(in[i]) /\ b = Len(held[i]) /\ c = Len(out[i]) /\ x = Len(post.blocks)
    BY LenProperties DEF Pipes, Types
  <2>2. (a + b + c) + x <= PIPE + 2 * BUF /\ a + x > PIPE
    BY <2>1 DEF Flow, UnderWay
  <2>3. c + b <= PIPE
    BY <2>2
  <2> QED
    BY <2>1, <2>3
<1> QED
  BY <1>1, Always, PTL

\* clientTbl matches the connections: a reply or a request always finds the one entry of
\* its client, and no entry is left behind.
THEOREM TableExact == Spec => []TableMatches
<1>1. Inv => TableMatches
  <2> SUFFICES ASSUME Inv, NEW c \in Clients, mpc # "dead"
               PROVE  conn[c] \in Accepted <=> Cardinality({i \in Slots : ssock[i] = c}) = 1
    BY DEF TableMatches, Accepted
  <2> USE DEF Inv
  <2> DEFINE E == {i \in Slots : ssock[i] = c}
  <2>1. conn[c] \in Accepted <=> E # {}
    BY DEF Table, Watched
  <2>2. CASE E = {}
    <3>1. Cardinality(E) = 0
      BY <2>2, FS_EmptySet
    <3> HIDE DEF E
    <3>2. ~(conn[c] \in Accepted) /\ Cardinality(E) # 1
      BY <2>1, <2>2, <3>1
    <3> QED
      BY <3>2 DEF E
  <2>3. ASSUME NEW i \in E
        PROVE  Cardinality(E) = 1
    <3>1. c # Free
      BY ConstantsAssumption
    <3>2. E = {i}
      BY <2>3, <3>1 DEF Table
    <3> HIDE DEF E
    <3> QED
      BY <3>2, FS_Singleton
  <2> QED
    BY <2>1, <2>2, <2>3
<1> QED
  BY <1>1, Always, PTL
(***************************************************************************)
(* A reply is delivered once.  The blocks c sent can be numbered, a number *)
(* for each place a block of c is in: a step that moves blocks takes each  *)
(* place from another one, and only send makes one more.                   *)
(***************************************************************************)
Numbered == \A c \in Clients : ExistsInjection(Places(c), 1..sent[c])

Counts == /\ sent \in [Clients -> 0..MaxSent]
          /\ got \in [Clients -> [Clients -> Nat]]
          /\ faults \in 0..Faults

\* A block of c is at k in what t keeps for x.
At(t, x, k, c) ==
  \/ t = "unread" /\ x = c /\ k \in 1..inq[c]
  \/ t = "post" /\ x = c /\ k \in Mine(c, post.blocks)
  \/ t = "in" /\ x \in Slots /\ k \in Mine(c, in[x])
  \/ t = "held" /\ x \in Slots /\ k \in Mine(c, held[x])
  \/ t = "out" /\ x \in Slots /\ k \in Mine(c, out[x])
  \/ t = "got" /\ x \in Clients /\ k \in 1..got[x][c]

\* The places, one by one, before and after a step.
LEMMA PlacesAt ==
  ASSUME NEW c \in Clients
  PROVE  /\ \A p \in Places(c) : \E t, x, k : p = <<t, x, k>> /\ At(t, x, k, c)
         /\ \A t, x, k : At(t, x, k, c) => <<t, x, k>> \in Places(c)
         /\ \A p \in Places(c)' : \E t, x, k : p = <<t, x, k>> /\ At(t, x, k, c)'
         /\ \A t, x, k : At(t, x, k, c)' => <<t, x, k>> \in Places(c)'
<1>1. ASSUME NEW p \in Places(c) PROVE \E t, x, k : p = <<t, x, k>> /\ At(t, x, k, c)
  <2>1. CASE \E k \in 1..inq[c] : p = <<"unread", c, k>>
    BY <2>1 DEF At
  <2>2. CASE \E k \in Mine(c, post.blocks) : p = <<"post", c, k>>
    BY <2>2 DEF At
  <2>3. ASSUME NEW i \in Slots, p \in WithSlave(i, c)
        PROVE  \E t, x, k : p = <<t, x, k>> /\ At(t, x, k, c)
    BY <2>3 DEF At, WithSlave
  <2>4. ASSUME NEW d \in Clients, p \in GotBy(d, c)
        PROVE  \E t, x, k : p = <<t, x, k>> /\ At(t, x, k, c)
    BY <2>4 DEF At, GotBy
  <2> QED
    BY <1>1, <2>1, <2>2, <2>3, <2>4 DEF Places
<1>2. ASSUME NEW t, NEW x, NEW k, At(t, x, k, c) PROVE <<t, x, k>> \in Places(c)
  <2>1. CASE t = "unread" /\ x = c /\ k \in 1..inq[c]
    BY <2>1 DEF Places
  <2>2. CASE t = "post" /\ x = c /\ k \in Mine(c, post.blocks)
    BY <2>2 DEF Places
  <2>3. CASE x \in Slots /\ <<t, x, k>> \in WithSlave(x, c)
    BY <2>3 DEF Places
  <2>4. CASE t = "got" /\ x \in Clients /\ k \in 1..got[x][c]
    <3>1. <<t, x, k>> \in GotBy(x, c)
      BY <2>4 DEF GotBy
    <3> QED
      BY <2>4, <3>1 DEF Places
  <2>5. ASSUME x \in Slots, \/ t = "in" /\ k \in Mine(c, in[x])
                            \/ t = "held" /\ k \in Mine(c, held[x])
                            \/ t = "out" /\ k \in Mine(c, out[x])
        PROVE  <<t, x, k>> \in WithSlave(x, c)
    BY <2>5 DEF WithSlave
  <2> QED
    BY <1>2, <2>1, <2>2, <2>3, <2>4, <2>5 DEF At
<1>3. ASSUME NEW p \in Places(c)' PROVE \E t, x, k : p = <<t, x, k>> /\ At(t, x, k, c)'
  <2>1. CASE \E k \in 1..inq'[c] : p = <<"unread", c, k>>
    BY <2>1 DEF At
  <2>2. CASE \E k \in Mine(c, post'.blocks) : p = <<"post", c, k>>
    BY <2>2 DEF At
  <2>3. ASSUME NEW i \in Slots, p \in WithSlave(i, c)'
        PROVE  \E t, x, k : p = <<t, x, k>> /\ At(t, x, k, c)'
    BY <2>3 DEF At, WithSlave
  <2>4. ASSUME NEW d \in Clients, p \in GotBy(d, c)'
        PROVE  \E t, x, k : p = <<t, x, k>> /\ At(t, x, k, c)'
    BY <2>4 DEF At, GotBy
  <2> QED
    BY <1>3, <2>1, <2>2, <2>3, <2>4 DEF Places
<1>4. ASSUME NEW t, NEW x, NEW k, At(t, x, k, c)' PROVE <<t, x, k>> \in Places(c)'
  <2>1. CASE t = "unread" /\ x = c /\ k \in 1..inq'[c]
    BY <2>1 DEF Places
  <2>2. CASE t = "post" /\ x = c /\ k \in Mine(c, post'.blocks)
    BY <2>2 DEF Places
  <2>3. CASE x \in Slots /\ <<t, x, k>> \in WithSlave(x, c)'
    BY <2>3 DEF Places
  <2>4. CASE t = "got" /\ x \in Clients /\ k \in 1..got'[x][c]
    <3>1. <<t, x, k>> \in GotBy(x, c)'
      BY <2>4 DEF GotBy
    <3> QED
      BY <2>4, <3>1 DEF Places
  <2>5. ASSUME x \in Slots, \/ t = "in" /\ k \in Mine(c, in'[x])
                            \/ t = "held" /\ k \in Mine(c, held'[x])
                            \/ t = "out" /\ k \in Mine(c, out'[x])
        PROVE  <<t, x, k>> \in WithSlave(x, c)'
    BY <2>5 DEF WithSlave
  <2> QED
    BY <1>4, <2>1, <2>2, <2>3, <2>4, <2>5 DEF At
<1> QED
  BY <1>1, <1>2, <1>3, <1>4

\* Places that are taken from others need no more numbers.
LEMMA Renumber ==
  ASSUME NEW P, NEW Q, NEW n \in Nat, ExistsInjection(P, 1..n),
         NEW old \in [Q -> P], \A p, q \in Q : old[p] = old[q] => p = q
  PROVE  ExistsInjection(Q, 1..n)
<1>1. PICK f \in [P -> 1..n] : \A p, q \in P : f[p] = f[q] => p = q
  BY DEF ExistsInjection, Injection, IsInjective
<1>2. [q \in Q |-> f[old[q]]] \in [Q -> 1..n]
  BY <1>1
<1>3. \A p, q \in Q : f[old[p]] = f[old[q]] => p = q
  BY <1>1
<1>4. [q \in Q |-> f[old[q]]] \in Injection(Q, 1..n)
  BY <1>2, <1>3 DEF Injection, IsInjective
<1> QED
  BY <1>4 DEF ExistsInjection

\* Where a block of c is in what a read returns and leaves, in a buffer turned around, and
\* in two sequences put together.
LEMMA MineParts ==
  ASSUME NEW c, NEW s \in Seq(Clients), NEW r \in Seq(Clients), NEW n \in Nat
  PROVE  /\ Mine(c, s) \in SUBSET (1..Len(s)) /\ Mine(c, <<>>) = {}
         /\ \A k \in Mine(c, Upto(s, n)) : k \in 1..Least(n, Len(s)) /\ k \in Mine(c, s)
         /\ \A k \in Mine(c, Rest(s, n)) :
              k \in Nat \ {0} /\ k + Least(n, Len(s)) \in Mine(c, s)
         /\ \A k \in Mine(c, Reverse(s)) :
              k \in 1..Len(s) /\ Len(s) + 1 - k \in Mine(c, s)
         /\ \A k \in Mine(c, s \o r) :
              k \in Nat /\ IF k <= Len(s) THEN k \in Mine(c, s) ELSE k - Len(s) \in Mine(c, r)
<1> DEFINE m == Least(n, Len(s))
<1>1. /\ Len(s) \in Nat /\ DOMAIN s = 1..Len(s) /\ Len(r) \in Nat /\ DOMAIN r = 1..Len(r)
      /\ m \in 0..Len(s) /\ \A i \in 1..Len(s) : s[i] \in Clients
  BY LenProperties DEF Least
<1>2. /\ Upto(s, n) \in Seq(Clients) /\ Len(Upto(s, n)) = m
      /\ Rest(s, n) \in Seq(Clients) /\ Len(Rest(s, n)) = Len(s) - m
  BY ReadParts
<1> HIDE DEF m
<1>3. /\ DOMAIN Upto(s, n) = 1..m /\ DOMAIN Rest(s, n) = 1..(Len(s) - m)
  BY <1>2, LenProperties
<1>4. \A k \in 1..m : Upto(s, n)[k] = s[k]
  <2>1. \A i \in 1..m : s[i] \in Clients
    BY <1>1
  <2>2. \A i \in 1..(m - 1 + 1) : SubSeq(s, 1, m)[i] = s[1 + i - 1]
    BY <1>1, <2>1, SubSeqProperties
  <2>3. \A i \in 1..m : 1 + i - 1 = i /\ i \in 1..(m - 1 + 1)
    BY <1>1
  <2>4. \A i \in 1..m : SubSeq(s, 1, m)[i] = s[i]
    BY <2>2, <2>3
  <2> QED
    BY <2>4 DEF Upto, m
<1>5. \A k \in 1..(Len(s) - m) : Rest(s, n)[k] = s[k + m]
  <2>1. \A i \in (m + 1)..Len(s) : s[i] \in Clients
    BY <1>1
  <2>2. \A i \in 1..(Len(s) - (m + 1) + 1) : SubSeq(s, m + 1, Len(s))[i] = s[(m + 1) + i - 1]
    BY <1>1, <2>1, SubSeqProperties
  <2>3. \A i \in 1..(Len(s) - m) : (m + 1) + i - 1 = i + m /\ i \in 1..(Len(s) - (m + 1) + 1)
    BY <1>1
  <2>4. \A i \in 1..(Len(s) - m) : SubSeq(s, m + 1, Len(s))[i] = s[i + m]
    BY <2>2, <2>3
  <2> QED
    BY <2>4 DEF Rest, m
<1>6. Mine(c, s) \in SUBSET (1..Len(s)) /\ Mine(c, <<>>) = {}
  BY <1>1 DEF Mine
<1>7. \A k \in Mine(c, Upto(s, n)) : k \in 1..m /\ k \in Mine(c, s)
  BY <1>1, <1>3, <1>4 DEF Mine
<1>8. \A k \in Mine(c, Rest(s, n)) : k \in Nat \ {0} /\ k + m \in Mine(c, s)
  <2>1. \A k \in 1..(Len(s) - m) : k \in Nat \ {0} /\ k + m \in 1..Len(s)
    BY <1>1
  <2> QED
    BY <1>1, <1>3, <1>5, <2>1 DEF Mine
<1>9. \A k \in Mine(c, Reverse(s)) : k \in 1..Len(s) /\ Len(s) + 1 - k \in Mine(c, s)
  <2>1. \A k \in 1..Len(s) : (Len(s) - k) + 1 = Len(s) + 1 - k /\ Len(s) + 1 - k \in 1..Len(s)
    BY <1>1
  <2> QED
    BY <1>1, <2>1 DEF Mine, Reverse
<1>10. ASSUME NEW k \in Mine(c, s \o r)
       PROVE  k \in Nat /\ IF k <= Len(s) THEN k \in Mine(c, s) ELSE k - Len(s) \in Mine(c, r)
  <2>1. /\ DOMAIN (s \o r) = 1..(Len(s) + Len(r))
        /\ \A i \in 1..(Len(s) + Len(r)) :
             (s \o r)[i] = IF i <= Len(s) THEN s[i] ELSE r[i - Len(s)]
    BY ConcatProperties, LenProperties
  <2>2. k \in 1..(Len(s) + Len(r)) /\ (s \o r)[k] = c
    BY <2>1 DEF Mine
  <2>3. /\ k \in Nat
        /\ k <= Len(s) => k \in 1..Len(s)
        /\ ~(k <= Len(s)) => k - Len(s) \in 1..Len(r)
    BY <1>1, <2>2
  <2> QED
    BY <1>1, <2>1, <2>2, <2>3 DEF Mine
<1> QED
  BY <1>6, <1>7, <1>8, <1>9, <1>10 DEF m

\* A step that takes every place of c's blocks from one they were in, and no two from one,
\* keeps them numbered.
LEMMA KeepNumbers ==
  ASSUME Numbered, Counts, NEW c \in Clients, sent' = sent,
         NEW old,
         \A t, x, k : At(t, x, k, c)' => \E u, y, l : /\ old[<<t, x, k>>] = <<u, y, l>>
                                                      /\ At(u, y, l, c),
         \A t, x, k, u, y, l : /\ At(t, x, k, c)' /\ At(u, y, l, c)'
                               /\ old[<<t, x, k>>] = old[<<u, y, l>>]
                               => t = u /\ x = y /\ k = l
  PROVE  ExistsInjection(Places(c)', 1..sent'[c])
<1> DEFINE P == Places(c)
           Q == Places(c)'
           g == [q \in Q |-> old[q]]
<1>1. /\ \A q \in Q : \E t, x, k : q = <<t, x, k>> /\ At(t, x, k, c)'
      /\ \A t, x, k : At(t, x, k, c) => <<t, x, k>> \in P
  BY PlacesAt
<1>2. ExistsInjection(P, 1..sent[c]) /\ sent[c] \in Nat
  BY DEF Numbered, Counts
<1> HIDE DEF P, Q
<1>3. \A q \in Q : old[q] \in P
  BY <1>1
<1>4. \A p, q \in Q : old[p] = old[q] => p = q
  <2> SUFFICES ASSUME NEW p \in Q, NEW q \in Q, old[p] = old[q] PROVE p = q
    OBVIOUS
  <2>1. PICK t, x, k : p = <<t, x, k>> /\ At(t, x, k, c)'
    BY <1>1
  <2>2. PICK u, y, l : q = <<u, y, l>> /\ At(u, y, l, c)'
    BY <1>1
  <2>3. t = u /\ x = y /\ k = l
    BY <2>1, <2>2
  <2> QED
    BY <2>1, <2>2, <2>3
<1>5. g \in [Q -> P] /\ \A p, q \in Q : g[p] = g[q] => p = q
  BY <1>3, <1>4
<1> HIDE DEF g
<1>6. ExistsInjection(Q, 1..sent[c])
  BY <1>2, <1>5, Renumber
<1> QED
  BY <1>6 DEF Q

\* The slave reads: what it holds was at the front of its pipe.
LEMMA ReadNumbers ==
  ASSUME Inv, Numbered, Counts, NEW i \in Slots, slave_read(i)
  PROVE  Numbered'
<1> USE ConstantsAssumption DEF Inv, net
<1> SUFFICES ASSUME NEW c \in Clients
             PROVE  ExistsInjection(Places(c)', 1..sent'[c])
  BY DEF Numbered
<1> DEFINE s == in[i]
           m == Least(BUF, Len(s))
           h == Reverse(Upto(s, BUF))
           r == Rest(s, BUF)
           old == [p \in Places(c)' |->
                     IF p[1] = "held" /\ p[2] = i THEN <<"in", i, m + 1 - p[3]>>
                     ELSE IF p[1] = "in" /\ p[2] = i THEN <<"in", i, p[3] + m>> ELSE p]
<1>1. /\ held' = [held EXCEPT ![i] = h] /\ in' = [in EXCEPT ![i] = r]
      /\ UNCHANGED <<out, post, inq, sent, got>>
  BY DEF slave_read
<1>2. s \in Seq(Clients) /\ Len(s) \in Nat /\ m \in Nat
  BY LenProperties DEF Pipes, Least
<1>3. /\ \A k \in Mine(c, h) : k \in 1..m /\ m + 1 - k \in 1..m /\ m + 1 - k \in Mine(c, s)
      /\ \A k \in Mine(c, r) : k \in Nat \ {0} /\ k + m \in Mine(c, s)
  <2>1. Upto(s, BUF) \in Seq(Clients) /\ Len(Upto(s, BUF)) = m
    BY <1>2, ReadParts
  <2>2. \A k \in Mine(c, h) : k \in 1..m /\ m + 1 - k \in Mine(c, Upto(s, BUF))
    BY <2>1, MineParts
  <2>3. \A k \in Mine(c, Upto(s, BUF)) : k \in 1..m /\ k \in Mine(c, s)
    BY <1>2, MineParts
  <2>4. \A k \in Mine(c, r) : k \in Nat \ {0} /\ k + m \in Mine(c, s)
    BY <1>2, MineParts
  <2> QED
    BY <2>2, <2>3, <2>4
<1> HIDE DEF s, m, h, r
<1>4. ASSUME NEW t, NEW x, NEW k, At(t, x, k, c)'
      PROVE  IF t = "held" /\ x = i THEN k \in Mine(c, h)
             ELSE IF t = "in" /\ x = i THEN k \in Mine(c, r) ELSE At(t, x, k, c)
  BY <1>1, <1>4 DEF At, Pipes
<1>5. \A k \in Mine(c, s) : At("in", i, k, c)
  BY DEF At, s
<1>6. \A t, x, k : At(t, x, k, c)' =>
        old[<<t, x, k>>] = IF t = "held" /\ x = i THEN <<"in", i, m + 1 - k>>
                           ELSE IF t = "in" /\ x = i THEN <<"in", i, k + m>> ELSE <<t, x, k>>
  BY PlacesAt
<1> HIDE DEF old
<1>7. ASSUME NEW t, NEW x, NEW k, At(t, x, k, c)'
      PROVE  \E u, y, l : old[<<t, x, k>>] = <<u, y, l>> /\ At(u, y, l, c)
  <2>1. CASE t = "held" /\ x = i
    BY <1>3, <1>4, <1>5, <1>6, <1>7, <2>1
  <2>2. CASE t = "in" /\ x = i
    <3>1. k + m \in Mine(c, s) /\ old[<<t, x, k>>] = <<"in", i, k + m>>
      BY <1>3, <1>4, <1>6, <1>7, <2>2
    <3> QED
      BY <1>5, <3>1
  <2>3. CASE ~(t = "held" /\ x = i) /\ ~(t = "in" /\ x = i)
    <3>1. At(t, x, k, c)
      BY <1>4, <1>7, <2>3
    <3>2. old[<<t, x, k>>] = <<t, x, k>>
      BY <1>6, <1>7, <2>3
    <3> QED
      BY <3>1, <3>2
  <2> QED
    BY <2>1, <2>2, <2>3
<1>8. ASSUME NEW t, NEW x, NEW k, NEW u, NEW y, NEW l, At(t, x, k, c)', At(u, y, l, c)',
             old[<<t, x, k>>] = old[<<u, y, l>>]
      PROVE  t = u /\ x = y /\ k = l
  <2> DEFINE Held(a, b) == a = "held" /\ b = i
             In(a, b) == a = "in" /\ b = i
  <2>1. /\ Held(t, x) => k \in 1..m /\ old[<<t, x, k>>] = <<"in", i, m + 1 - k>>
        /\ In(t, x) => k \in Nat \ {0} /\ old[<<t, x, k>>] = <<"in", i, k + m>>
        /\ ~Held(t, x) /\ ~In(t, x) => old[<<t, x, k>>] = <<t, x, k>>
    BY <1>3, <1>4, <1>6, <1>8
  <2>2. /\ Held(u, y) => l \in 1..m /\ old[<<u, y, l>>] = <<"in", i, m + 1 - l>>
        /\ In(u, y) => l \in Nat \ {0} /\ old[<<u, y, l>>] = <<"in", i, l + m>>
        /\ ~Held(u, y) /\ ~In(u, y) => old[<<u, y, l>>] = <<u, y, l>>
    BY <1>3, <1>4, <1>6, <1>8
  <2>3. CASE Held(t, x) /\ Held(u, y)
    BY <1>2, <1>8, <2>1, <2>2, <2>3
  <2>4. CASE In(t, x) /\ In(u, y)
    BY <1>2, <1>8, <2>1, <2>2, <2>4
  <2>5. CASE (Held(t, x) /\ In(u, y)) \/ (In(t, x) /\ Held(u, y))
    <3>1. \A a \in 1..m : \A b \in Nat \ {0} : m + 1 - a # b + m
      BY <1>2
    <3>2. CASE Held(t, x) /\ In(u, y)
      BY <1>8, <2>1, <2>2, <3>1, <3>2
    <3>3. CASE In(t, x) /\ Held(u, y)
      BY <1>8, <2>1, <2>2, <3>1, <3>3
    <3> QED
      BY <2>5, <3>2, <3>3
  <2>6. CASE (~Held(t, x) /\ ~In(t, x)) \/ (~Held(u, y) /\ ~In(u, y))
    BY <1>8, <2>1, <2>2, <2>6
  <2> QED
    BY <2>3, <2>4, <2>5, <2>6
<1> QED
  BY <1>1, <1>7, <1>8, KeepNumbers

\* The slave writes: what is new in its reply pipe was with it.
LEMMA ReplyNumbers ==
  ASSUME Inv, Numbered, Counts, NEW i \in Slots, slave_write(i)
  PROVE  Numbered'
<1> USE ConstantsAssumption DEF Inv, net
<1> SUFFICES ASSUME NEW c \in Clients
             PROVE  ExistsInjection(Places(c)', 1..sent'[c])
  BY DEF Numbered
<1> DEFINE s == out[i]
           n == Len(s)
           o == s \o held[i]
           New(t, x, k) == t = "out" /\ x = i /\ k > n
           old == [p \in Places(c)' |->
                     IF New(p[1], p[2], p[3]) THEN <<"held", i, p[3] - n>> ELSE p]
<1>1. /\ out' = [out EXCEPT ![i] = o] /\ held' = [held EXCEPT ![i] = <<>>]
      /\ UNCHANGED <<in, post, inq, sent, got>>
  BY DEF slave_write
<1>2. s \in Seq(Clients) /\ held[i] \in Seq(Clients) /\ n \in Nat
  BY LenProperties DEF Pipes
<1>3. /\ \A k \in Mine(c, o) : /\ k \in Nat /\ (k > n => k - n \in Mine(c, held[i]))
                               /\ (~(k > n) => k \in Mine(c, s))
      /\ Mine(c, <<>>) = {}
  <2>1. \A k \in Mine(c, o) :
          k \in Nat /\ IF k <= n THEN k \in Mine(c, s) ELSE k - n \in Mine(c, held[i])
    BY <1>2, MineParts
  <2>2. Mine(c, <<>>) = {}
    BY <1>2, MineParts
  <2>3. \A k \in Nat : k > n <=> ~(k <= n)
    BY <1>2
  <2> QED
    BY <2>1, <2>2, <2>3
<1> HIDE DEF s, n, o
<1>4. ASSUME NEW t, NEW x, NEW k, At(t, x, k, c)'
      PROVE  /\ t = "out" /\ x = i => k \in Mine(c, o)
             /\ ~(t = "held" /\ x = i)
             /\ ~(t = "out" /\ x = i) => At(t, x, k, c)
  BY <1>1, <1>3, <1>4 DEF At, Pipes
<1>5. /\ \A k \in Mine(c, s) : At("out", i, k, c)
      /\ \A k \in Mine(c, held[i]) : At("held", i, k, c)
  BY DEF At, s
<1>6. \A t, x, k : At(t, x, k, c)' =>
        /\ New(t, x, k) => old[<<t, x, k>>] = <<"held", i, k - n>>
        /\ ~New(t, x, k) => old[<<t, x, k>>] = <<t, x, k>>
  BY PlacesAt
<1> HIDE DEF old
<1>7. ASSUME NEW t, NEW x, NEW k, At(t, x, k, c)'
      PROVE  \E u, y, l : old[<<t, x, k>>] = <<u, y, l>> /\ At(u, y, l, c)
  <2>1. CASE New(t, x, k)
    BY <1>3, <1>4, <1>5, <1>6, <1>7, <2>1
  <2>2. CASE ~New(t, x, k)
    <3>1. At(t, x, k, c)
      BY <1>3, <1>4, <1>5, <1>7, <2>2
    <3> QED
      BY <1>6, <1>7, <2>2, <3>1
  <2> QED
    BY <2>1, <2>2
<1>8. ASSUME NEW t, NEW x, NEW k, NEW u, NEW y, NEW l, At(t, x, k, c)', At(u, y, l, c)',
             old[<<t, x, k>>] = old[<<u, y, l>>]
      PROVE  t = u /\ x = y /\ k = l
  <2>1. /\ New(t, x, k) => k \in Nat /\ old[<<t, x, k>>] = <<"held", i, k - n>>
        /\ ~New(t, x, k) => old[<<t, x, k>>] = <<t, x, k>> /\ ~(t = "held" /\ x = i)
    BY <1>3, <1>4, <1>6, <1>8
  <2>2. /\ New(u, y, l) => l \in Nat /\ old[<<u, y, l>>] = <<"held", i, l - n>>
        /\ ~New(u, y, l) => old[<<u, y, l>>] = <<u, y, l>> /\ ~(u = "held" /\ y = i)
    BY <1>3, <1>4, <1>6, <1>8
  <2>3. CASE New(t, x, k) /\ New(u, y, l)
    BY <1>2, <1>8, <2>1, <2>2, <2>3
  <2>4. CASE ~New(t, x, k) \/ ~New(u, y, l)
    BY <1>8, <2>1, <2>2, <2>4
  <2> QED
    BY <2>3, <2>4
<1> QED
  BY <1>1, <1>7, <1>8, KeepNumbers

\* The master writes: what is new in the slave's pipe is what it had to write.
LEMMA WriteNumbers ==
  ASSUME Inv, Numbered, Counts, pipe_write
  PROVE  Numbered'
<1> USE ConstantsAssumption DEF Inv, net
<1> SUFFICES ASSUME NEW c \in Clients
             PROVE  ExistsInjection(Places(c)', 1..sent'[c])
  BY DEF Numbered
<1>0. PICK i \in Slots : i = post.slot
  BY DEF Types
<1> DEFINE s == in[i]
           n == Len(s)
           o == s \o post.blocks
           New(t, x, k) == t = "in" /\ x = i /\ k > n
           old == [p \in Places(c)' |->
                     IF New(p[1], p[2], p[3]) THEN <<"post", c, p[3] - n>> ELSE p]
<1>1. /\ in' = [in EXCEPT ![i] = o] /\ post' = [post EXCEPT !.blocks = <<>>]
      /\ UNCHANGED <<held, out, inq, sent, got>>
  BY <1>0 DEF pipe_write
<1>2. s \in Seq(Clients) /\ post.blocks \in Seq(Clients) /\ n \in Nat
  BY LenProperties DEF Pipes, Types
<1>3. /\ \A k \in Mine(c, o) : /\ k \in Nat /\ (k > n => k - n \in Mine(c, post.blocks))
                               /\ (~(k > n) => k \in Mine(c, s))
      /\ Mine(c, <<>>) = {}
  <2>1. \A k \in Mine(c, o) :
          k \in Nat /\ IF k <= n THEN k \in Mine(c, s) ELSE k - n \in Mine(c, post.blocks)
    BY <1>2, MineParts
  <2>2. Mine(c, <<>>) = {}
    BY <1>2, MineParts
  <2>3. \A k \in Nat : k > n <=> ~(k <= n)
    BY <1>2
  <2> QED
    BY <2>1, <2>2, <2>3
<1> HIDE DEF s, n, o
<1>4. ASSUME NEW t, NEW x, NEW k, At(t, x, k, c)'
      PROVE  /\ t = "in" /\ x = i => k \in Mine(c, o)
             /\ t # "post"
             /\ ~(t = "in" /\ x = i) => At(t, x, k, c)
  <2>1. post'.blocks = <<>> /\ in'[i] = o /\ \A j \in Slots : j # i => in'[j] = in[j]
    BY <1>1 DEF Types, Pipes
  <2> QED
    BY <1>1, <1>3, <1>4, <2>1 DEF At
<1>5. /\ \A k \in Mine(c, s) : At("in", i, k, c)
      /\ \A k \in Mine(c, post.blocks) : At("post", c, k, c)
  BY DEF At, s
<1>6. \A t, x, k : At(t, x, k, c)' =>
        /\ New(t, x, k) => old[<<t, x, k>>] = <<"post", c, k - n>>
        /\ ~New(t, x, k) => old[<<t, x, k>>] = <<t, x, k>>
  BY PlacesAt
<1> HIDE DEF old
<1>7. ASSUME NEW t, NEW x, NEW k, At(t, x, k, c)'
      PROVE  \E u, y, l : old[<<t, x, k>>] = <<u, y, l>> /\ At(u, y, l, c)
  <2>1. CASE New(t, x, k)
    BY <1>3, <1>4, <1>5, <1>6, <1>7, <2>1
  <2>2. CASE ~New(t, x, k)
    <3>1. At(t, x, k, c)
      BY <1>3, <1>4, <1>5, <1>7, <2>2
    <3> QED
      BY <1>6, <1>7, <2>2, <3>1
  <2> QED
    BY <2>1, <2>2
<1>8. ASSUME NEW t, NEW x, NEW k, NEW u, NEW y, NEW l, At(t, x, k, c)', At(u, y, l, c)',
             old[<<t, x, k>>] = old[<<u, y, l>>]
      PROVE  t = u /\ x = y /\ k = l
  <2>1. /\ New(t, x, k) => k \in Nat /\ old[<<t, x, k>>] = <<"post", c, k - n>>
        /\ ~New(t, x, k) => old[<<t, x, k>>] = <<t, x, k>> /\ t # "post"
    BY <1>3, <1>4, <1>6, <1>8
  <2>2. /\ New(u, y, l) => l \in Nat /\ old[<<u, y, l>>] = <<"post", c, l - n>>
        /\ ~New(u, y, l) => old[<<u, y, l>>] = <<u, y, l>> /\ u # "post"
    BY <1>3, <1>4, <1>6, <1>8
  <2>3. CASE New(t, x, k) /\ New(u, y, l)
    BY <1>2, <1>8, <2>1, <2>2, <2>3
  <2>4. CASE ~New(t, x, k) \/ ~New(u, y, l)
    BY <1>8, <2>1, <2>2, <2>4
  <2> QED
    BY <2>3, <2>4
<1> QED
  BY <1>1, <1>7, <1>8, KeepNumbers

\* The master receives from a client: what it has to write is the end of what was unread.
LEMMA PostNumbers ==
  ASSUME Inv, Numbered, Counts, NEW d \in Clients, echoPost2Thrd(d)
  PROVE  Numbered'
<1> USE ConstantsAssumption DEF Inv, slaves
<1> SUFFICES ASSUME NEW c \in Clients
             PROVE  ExistsInjection(Places(c)', 1..sent'[c])
  BY DEF Numbered
<1> DEFINE n == Least(inq[d], BUF)
           z == inq[d] - n
           blocks == [k \in 1..n |-> d]
           old == [p \in Places(c)' |-> IF p[1] = "post" THEN <<"unread", c, p[3] + z>> ELSE p]
<1>1. /\ inq' = [inq EXCEPT ![d] = z] /\ post'.blocks = blocks
      /\ UNCHANGED <<in, held, out, sent, got>>
  BY DEF echoPost2Thrd
<1>2. n \in Nat /\ z \in Nat /\ inq[d] = z + n /\ n <= inq[d]
  <2>1. inq[d] \in Nat /\ BUF \in Nat
    BY DEF Types
  <2>2. n \in Nat /\ n <= inq[d]
    BY <2>1 DEF Least
  <2> HIDE DEF n
  <2> QED
    BY <2>1, <2>2
<1>3. \A k \in Mine(c, blocks) : k \in 1..n /\ c = d
  BY DEF Mine
<1> HIDE DEF n, z, blocks
<1>4. ASSUME NEW t, NEW x, NEW k, At(t, x, k, c)'
      PROVE  /\ t = "post" => x = c /\ k \in Mine(c, blocks)
             /\ t = "unread" => k \in Nat /\ x = c /\ (c = d => k \in 1..z)
             /\ t # "post" => At(t, x, k, c)
  <2>2. \A j \in 1..z : j \in 1..(z + n)
    BY <1>2
  <2>3. inq' \in [Clients -> Nat] /\ (c = d => inq'[c] = z) /\ (c # d => inq'[c] = inq[c])
    BY <1>1, <1>2 DEF Types
  <2>4. CASE t = "unread"
    BY <1>2, <1>4, <2>2, <2>3, <2>4 DEF At
  <2>5. CASE t # "unread"
    BY <1>1, <1>4, <2>5 DEF At
  <2> QED
    BY <2>4, <2>5
<1>5. c = d => \A k \in 1..n : At("unread", c, k + z, c)
  <2>1. \A k \in 1..n : k + z \in 1..(z + n)
    BY <1>2
  <2> QED
    BY <1>2, <2>1 DEF At
<1>6. \A t, x, k : At(t, x, k, c)' =>
        /\ t = "post" => old[<<t, x, k>>] = <<"unread", c, k + z>>
        /\ t # "post" => old[<<t, x, k>>] = <<t, x, k>>
  BY PlacesAt
<1> HIDE DEF old
<1>7. ASSUME NEW t, NEW x, NEW k, At(t, x, k, c)'
      PROVE  \E u, y, l : old[<<t, x, k>>] = <<u, y, l>> /\ At(u, y, l, c)
  <2>1. CASE t = "post"
    BY <1>3, <1>4, <1>5, <1>6, <1>7, <2>1
  <2>2. CASE t # "post"
    BY <1>4, <1>6, <1>7, <2>2
  <2> QED
    BY <2>1, <2>2
<1>8. ASSUME NEW t, NEW x, NEW k, NEW u, NEW y, NEW l, At(t, x, k, c)', At(u, y, l, c)',
             old[<<t, x, k>>] = old[<<u, y, l>>]
      PROVE  t = u /\ x = y /\ k = l
  <2>1. /\ t = "post" => k \in 1..n /\ c = d /\ x = c /\ old[<<t, x, k>>] = <<"unread", c, k + z>>
        /\ t # "post" => old[<<t, x, k>>] = <<t, x, k>> /\ (t = "unread" /\ c = d => k \in 1..z)
    BY <1>3, <1>4, <1>6, <1>8
  <2>2. /\ u = "post" => l \in 1..n /\ c = d /\ y = c /\ old[<<u, y, l>>] = <<"unread", c, l + z>>
        /\ u # "post" => old[<<u, y, l>>] = <<u, y, l>> /\ (u = "unread" /\ c = d => l \in 1..z)
    BY <1>3, <1>4, <1>6, <1>8
  <2>3. \A a \in 1..n : \A b \in 1..z : a + z # b
    BY <1>2
  <2>4. CASE t = "post" /\ u = "post"
    BY <1>2, <1>8, <2>1, <2>2, <2>4
  <2>5. CASE t = "post" /\ u # "post"
    BY <1>8, <2>1, <2>2, <2>3, <2>5
  <2>6. CASE t # "post" /\ u = "post"
    BY <1>8, <2>1, <2>2, <2>3, <2>6
  <2>7. CASE t # "post" /\ u # "post"
    BY <1>8, <2>1, <2>2, <2>7
  <2> QED
    BY <2>4, <2>5, <2>6, <2>7
<1> QED
  BY <1>1, <1>7, <1>8, KeepNumbers

\* The master delivers: what a client got was in the front of the pipe, and is not there
\* any more; what nobody gets is in no place.
LEMMA GetNumbers ==
  ASSUME Inv, Numbered, Counts, NEW i \in Slots, echoGetFrmThrd(i)
  PROVE  Numbered'
<1> USE ConstantsAssumption DEF Inv
<1> SUFFICES ASSUME NEW c \in Clients
             PROVE  ExistsInjection(Places(c)', 1..sent'[c])
  BY DEF Numbered
<1> DEFINE s == out[i]
           d == ssock[i]
           m == Least(BUF, Len(s))
           S == Mine(c, Upto(s, BUF))
           n == Cardinality(S)
           r == Rest(s, BUF)
<1>1. /\ out' = [out EXCEPT ![i] = r] /\ UNCHANGED <<in, held, post, inq, sent>>
      /\ \/ got' = got
         \/ /\ d # Free
            /\ got' = [got EXCEPT ![d] = [e \in Clients |->
                         @[e] + Cardinality(Mine(e, Upto(s, BUF)))]]
  BY DEF echoGetFrmThrd
<1>2. s \in Seq(Clients) /\ Len(s) \in Nat /\ m \in Nat /\ d \in Clients \cup {Free}
  BY LenProperties DEF Pipes, Types, Least
<1>3. /\ \A k \in S : k \in 1..m /\ k \in Mine(c, s)
      /\ \A k \in Mine(c, r) : k \in Nat \ {0} /\ k + m \in Mine(c, s)
  BY <1>2, MineParts
<1>4. n \in Nat /\ ExistsBijection(1..n, S)
  <2>0. PICK a \in Nat : a = m
    BY <1>2
  <2>1. IsFiniteSet(1..a) /\ S \in SUBSET (1..a)
    <3> HIDE DEF m, S
    <3> QED
      BY <1>3, <2>0, FS_Interval
  <2>2. IsFiniteSet(S)
    BY <2>1, FS_Subset
  <2> QED
    BY <2>2, FS_CardinalityType
<1>5. PICK b \in [1..n -> S] : \A j, k \in 1..n : b[j] = b[k] => j = k
  BY <1>4 DEF ExistsBijection, Bijection, Injection, IsInjective
<1> HIDE DEF m, S, n, r
<1>6. \A x \in Clients : /\ got[x][c] \in Nat
                         /\ got'[x][c] = got[x][c] \/ (x = d /\ got'[x][c] = got[x][c] + n)
  <2> SUFFICES ASSUME NEW x \in Clients
               PROVE  /\ got[x][c] \in Nat
                      /\ got'[x][c] = got[x][c] \/ (x = d /\ got'[x][c] = got[x][c] + n)
    OBVIOUS
  <2>1. got[x][c] \in Nat
    BY DEF Counts
  <2>2. CASE /\ d # Free
             /\ got' = [got EXCEPT ![d] = [e \in Clients |->
                          @[e] + Cardinality(Mine(e, Upto(s, BUF)))]]
    <3>1. got'[x] = IF x = d THEN [e \in Clients |->
                                     got[d][e] + Cardinality(Mine(e, Upto(s, BUF)))] ELSE got[x]
      BY <1>2, <2>2 DEF Counts
    <3>2. CASE x = d
      BY <2>1, <3>1, <3>2 DEF S, n
    <3> QED
      BY <2>1, <3>1, <3>2
  <2> QED
    BY <1>1, <2>1, <2>2
<1> HIDE DEF d, s
<1> DEFINE g == got[d][c]
           New(t, x, k) == t = "got" /\ x = d /\ k > g
           Out(t, x) == t = "out" /\ x = i
           old == [p \in Places(c)' |->
                     IF Out(p[1], p[2]) THEN <<"out", i, p[3] + m>>
                     ELSE IF New(p[1], p[2], p[3]) THEN <<"out", i, b[p[3] - g]>> ELSE p]
<1>7. ASSUME NEW t, NEW x, NEW k, At(t, x, k, c)'
      PROVE  /\ Out(t, x) => k \in Mine(c, r)
             /\ New(t, x, k) => k \in Nat /\ g \in Nat /\ k - g \in 1..n /\ b[k - g] \in S
             /\ ~Out(t, x) /\ ~New(t, x, k) => At(t, x, k, c)
  <2>1. CASE t = "got"
    <3>1. x \in Clients /\ k \in 1..got'[x][c]
      BY <1>7, <2>1 DEF At
    <3>2. PICK a \in Nat : a = got[x][c]
      BY <1>6, <3>1
    <3>3. k \in Nat /\ k > 0 /\ (k <= a \/ (x = d /\ k <= a + n))
      BY <1>4, <1>6, <3>1, <3>2
    <3>4. CASE New(t, x, k)
      <4>1. k > a /\ g = a
        BY <3>2, <3>4
      <4>2. k - a \in 1..n
        BY <1>4, <3>3, <4>1
      <4> QED
        BY <1>5, <2>1, <3>3, <3>4, <4>1, <4>2
    <3>5. CASE ~New(t, x, k)
      <4>1. k <= a
        BY <2>1, <3>2, <3>3, <3>5
      <4>2. At(t, x, k, c)
        BY <2>1, <3>1, <3>2, <3>3, <4>1 DEF At
      <4> QED
        BY <2>1, <3>5, <4>2
    <3> QED
      BY <3>4, <3>5
  <2>2. CASE t # "got"
    BY <1>1, <1>7, <2>2 DEF At, Pipes
  <2> QED
    BY <2>1, <2>2
<1>8. \A k \in Mine(c, s) : At("out", i, k, c)
  BY DEF At, s
<1>9. \A t, x, k : At(t, x, k, c)' =>
        /\ Out(t, x) => old[<<t, x, k>>] = <<"out", i, k + m>>
        /\ New(t, x, k) => old[<<t, x, k>>] = <<"out", i, b[k - g]>>
        /\ ~Out(t, x) /\ ~New(t, x, k) => old[<<t, x, k>>] = <<t, x, k>>
  BY PlacesAt
<1> HIDE DEF old, g
<1>10. ASSUME NEW t, NEW x, NEW k, At(t, x, k, c)'
       PROVE  \E u, y, l : old[<<t, x, k>>] = <<u, y, l>> /\ At(u, y, l, c)
  <2>1. CASE Out(t, x)
    <3>1. k + m \in Mine(c, s) /\ old[<<t, x, k>>] = <<"out", i, k + m>>
      BY <1>3, <1>7, <1>9, <1>10, <2>1
    <3> QED
      BY <1>8, <3>1
  <2>2. CASE New(t, x, k)
    <3>1. b[k - g] \in Mine(c, s) /\ old[<<t, x, k>>] = <<"out", i, b[k - g]>>
      BY <1>3, <1>7, <1>9, <1>10, <2>2
    <3> QED
      BY <1>8, <3>1
  <2>3. CASE ~Out(t, x) /\ ~New(t, x, k)
    BY <1>7, <1>9, <1>10, <2>3
  <2> QED
    BY <2>1, <2>2, <2>3
<1>11. ASSUME NEW t, NEW x, NEW k, NEW u, NEW y, NEW l, At(t, x, k, c)', At(u, y, l, c)',
              old[<<t, x, k>>] = old[<<u, y, l>>]
       PROVE  t = u /\ x = y /\ k = l
  <2>1. /\ Out(t, x) => k \in Nat \ {0} /\ old[<<t, x, k>>] = <<"out", i, k + m>>
        /\ New(t, x, k) => /\ old[<<t, x, k>>] = <<"out", i, b[k - g]>> /\ b[k - g] \in 1..m
                           /\ k - g \in 1..n /\ k \in Nat /\ g \in Nat
        /\ ~Out(t, x) /\ ~New(t, x, k) => old[<<t, x, k>>] = <<t, x, k>>
    BY <1>3, <1>7, <1>9, <1>11
  <2>2. /\ Out(u, y) => l \in Nat \ {0} /\ old[<<u, y, l>>] = <<"out", i, l + m>>
        /\ New(u, y, l) => /\ old[<<u, y, l>>] = <<"out", i, b[l - g]>> /\ b[l - g] \in 1..m
                           /\ l - g \in 1..n /\ l \in Nat /\ g \in Nat
        /\ ~Out(u, y) /\ ~New(u, y, l) => old[<<u, y, l>>] = <<u, y, l>>
    BY <1>3, <1>7, <1>9, <1>11
  <2>3. \A a \in Nat \ {0} : \A e \in 1..m : a + m # e
    BY <1>2
  <2>4. CASE Out(t, x) /\ Out(u, y)
    BY <1>2, <1>11, <2>1, <2>2, <2>4
  <2>5. CASE New(t, x, k) /\ New(u, y, l)
    <3>1. k - g = l - g
      BY <1>5, <1>11, <2>1, <2>2, <2>5
    <3>2. k = l
      BY <2>1, <2>2, <2>5, <3>1
    <3> QED
      BY <2>5, <3>2
  <2>6. CASE Out(t, x) /\ New(u, y, l)
    BY <1>11, <2>1, <2>2, <2>3, <2>6
  <2>7. CASE New(t, x, k) /\ Out(u, y)
    BY <1>11, <2>1, <2>2, <2>3, <2>7
  <2>8. CASE (~Out(t, x) /\ ~New(t, x, k)) \/ (~Out(u, y) /\ ~New(u, y, l))
    BY <1>11, <2>1, <2>2, <2>8
  <2> QED
    BY <2>4, <2>5, <2>6, <2>7, <2>8
<1> QED
  BY <1>1, <1>10, <1>11, KeepNumbers

\* A client sends: the one place more has the one number more.
LEMMA SendNumbers ==
  ASSUME Inv, Numbered, Counts, NEW d \in Clients, send(d)
  PROVE  Numbered'
<1> USE DEF Inv, slaves
<1> SUFFICES ASSUME NEW c \in Clients
             PROVE  ExistsInjection(Places(c)', 1..sent'[c])
  BY DEF Numbered
<1>1. /\ sent' = [sent EXCEPT ![d] = @ + 1] /\ inq' = [inq EXCEPT ![d] = @ + 1]
      /\ UNCHANGED <<in, held, out, post, got>>
  BY DEF send
<1>2. /\ inq[c] \in Nat /\ sent[c] \in Nat
      /\ inq'[c] = (IF c = d THEN inq[c] + 1 ELSE inq[c])
      /\ sent'[c] = (IF c = d THEN sent[c] + 1 ELSE sent[c])
  BY <1>1 DEF Types, Counts
<1> DEFINE P == Places(c)
           Q == Places(c)'
<1>3. CASE c # d
  <2>1. Q = P
    BY <1>1, <1>2, <1>3 DEF Places, WithSlave, GotBy
  <2> QED
    BY <1>2, <1>3, <2>1 DEF Numbered
<1>4. CASE c = d
  <2> DEFINE new == <<"unread", c, inq[c] + 1>>
  <2>1. \A q \in Q : q \in P \/ q = new
    <3> SUFFICES ASSUME NEW q \in Q PROVE q \in P \/ q = new
      OBVIOUS
    <3>1. PICK t, x, k : q = <<t, x, k>> /\ At(t, x, k, c)'
      BY PlacesAt
    <3>2. CASE t = "unread"
      <4>1. x = c /\ k \in 1..(inq[c] + 1)
        BY <1>2, <1>4, <3>1, <3>2 DEF At
      <4>2. k \in 1..inq[c] \/ k = inq[c] + 1
        BY <1>2, <4>1
      <4>3. k \in 1..inq[c] => At(t, x, k, c)
        BY <3>2, <4>1 DEF At
      <4> QED
        BY <3>1, <3>2, <4>1, <4>2, <4>3, PlacesAt
    <3>3. CASE t # "unread"
      <4>1. At(t, x, k, c)
        BY <1>1, <3>1, <3>3 DEF At
      <4> QED
        BY <3>1, <4>1, PlacesAt
    <3> QED
      BY <3>2, <3>3
  <2>2. PICK f \in [P -> 1..sent[c]] : \A p, q \in P : f[p] = f[q] => p = q
    BY DEF Numbered, ExistsInjection, Injection, IsInjective
  <2> HIDE DEF P, Q, new
  <2> DEFINE h == [q \in Q |-> IF q \in P THEN f[q] ELSE sent[c] + 1]
  <2>3. \A p \in P : f[p] \in 1..(sent[c] + 1) /\ f[p] # sent[c] + 1
    BY <1>2, <2>2
  <2>4. sent[c] + 1 \in 1..(sent[c] + 1)
    BY <1>2
  <2>5. h \in [Q -> 1..(sent[c] + 1)]
    BY <2>3, <2>4
  <2>6. \A p, q \in Q : h[p] = h[q] => p = q
    BY <2>1, <2>2, <2>3
  <2> HIDE DEF h
  <2>7. ExistsInjection(Q, 1..(sent[c] + 1))
    BY <2>5, <2>6 DEF ExistsInjection, Injection, IsInjective
  <2> QED
    BY <1>2, <1>4, <2>7 DEF Q
<1> QED
  BY <1>3, <1>4

\* Every step keeps the blocks numbered, and the counts of blocks and faults.
Given == Inv /\ Counts /\ Numbered

LEMMA GivenInit == Init => Given
<1> SUFFICES ASSUME Init PROVE Given
  OBVIOUS
<1> USE ConstantsAssumption DEF Init
<1>1. Counts
  BY DEF Counts
<1>2. ASSUME NEW c \in Clients
      PROVE  ExistsInjection(Places(c), 1..sent[c])
  <2>1. \A t, x, k : ~At(t, x, k, c)
    <3>1. Mine(c, <<>>) = {} /\ 1..0 = {}
      BY DEF Mine
    <3> QED
      BY <3>1 DEF At
  <2>2. Places(c) = {}
    BY <2>1, PlacesAt
  <2>3. [p \in {} |-> 1] \in Injection({}, 1..sent[c])
    BY DEF Injection, IsInjective
  <2> QED
    BY <2>2, <2>3 DEF ExistsInjection
<1> QED
  BY <1>1, <1>2, InitInv DEF Given, Numbered

LEMMA GivenNext == Given /\ [Next]_vars => Given'
<1> SUFFICES ASSUME Given, [Next]_vars PROVE Given'
  OBVIOUS
<1> USE ConstantsAssumption DEF Given
<1>1. Inv'
  BY NextInv
<1>2. CASE UNCHANGED <<in, held, out, post, inq, sent, got>> /\ faults' \in 0..Faults
  <2>1. Counts'
    BY <1>2 DEF Counts
  <2>2. \A c \in Clients : Places(c)' = Places(c)
    BY <1>2 DEF Places, WithSlave, GotBy, Mine
  <2> QED
    BY <1>1, <1>2, <2>1, <2>2 DEF Numbered
<1>3. CASE select \/ accept \/ loop_done \/ UNCHANGED vars
           \/ \E c \in Clients : clearClientTbl(c) \/ recv_fails(c)
                                   \/ connect(c) \/ finish(c) \/ reset(c)
  <2>1. UNCHANGED <<in, held, out, post, inq, sent, got>>
    BY <1>3 DEF select, accept, loop_done, clearClientTbl, recv_fails, connect, finish, reset,
                slaves, net, vars
  <2>2. faults' = faults \/ (faults > 0 /\ faults' = faults - 1)
    BY <1>3 DEF select, accept, loop_done, clearClientTbl, recv_fails, connect, finish, reset,
                slaves, net, vars
  <2>3. faults' \in 0..Faults
    BY <2>2 DEF Counts
  <2> QED
    BY <1>2, <2>1, <2>3
<1>4. ASSUME NEW i \in Slots, SlaveStep(i)
      PROVE  Given'
  <2>1. Numbered'
    BY <1>4, ReadNumbers, ReplyNumbers DEF SlaveStep
  <2>2. Counts'
    BY <1>4 DEF Counts, SlaveStep, slave_read, slave_write, net
  <2> QED
    BY <1>1, <2>1, <2>2
<1>5. CASE pipe_write
  <2>1. Counts'
    BY <1>5 DEF Counts, pipe_write, net
  <2> QED
    BY <1>1, <1>5, <2>1, WriteNumbers
<1>6. ASSUME NEW c \in Clients, echoPost2Thrd(c)
      PROVE  Given'
  <2>1. Counts'
    BY <1>6 DEF Counts, echoPost2Thrd
  <2> QED
    BY <1>1, <1>6, <2>1, PostNumbers
<1>7. ASSUME NEW i \in Slots, echoGetFrmThrd(i)
      PROVE  Given'
  <2>1. sent' = sent /\ faults' = faults
    BY <1>7 DEF echoGetFrmThrd
  <2>2. got' \in [Clients -> [Clients -> Nat]]
    <3> DEFINE S(d) == Mine(d, Upto(out[i], BUF))
               row == [d \in Clients |-> got[ssock[i]][d] + Cardinality(S(d))]
    <3>1. ASSUME NEW d \in Clients
          PROVE  Cardinality(S(d)) \in Nat
      <4>1. out[i] \in Seq(Clients)
        BY DEF Inv, Pipes
      <4>2. Upto(out[i], BUF) \in Seq(Clients)
        BY <4>1, ReadParts
      <4>3. PICK a \in Nat : a = Len(Upto(out[i], BUF))
        BY <4>2, LenProperties
      <4>4. IsFiniteSet(1..a)
        BY FS_Interval
      <4>5. S(d) \in SUBSET (1..a)
        BY <4>2, <4>3, MineParts
      <4> HIDE DEF S
      <4> QED
        BY <4>4, <4>5, FS_Subset, FS_CardinalityType
    <3>2. got' = got \/ (ssock[i] \in Clients /\ got' = [got EXCEPT ![ssock[i]] = row])
      <4>1. \/ got' = got
            \/ /\ ssock[i] # Free
               /\ got' = [got EXCEPT ![ssock[i]] = [d \in Clients |-> @[d] + Cardinality(S(d))]]
        BY <1>7 DEF echoGetFrmThrd
      <4>2. ssock[i] \in Clients \cup {Free}
        BY DEF Inv, Types
      <4> HIDE DEF S
      <4> QED
        BY <4>1, <4>2 DEF Counts
    <3>3. ssock[i] \in Clients => row \in [Clients -> Nat]
      <4> HIDE DEF S
      <4>1. ssock[i] \in Clients => \A d \in Clients : got[ssock[i]][d] \in Nat
        BY DEF Counts
      <4> QED
        BY <3>1, <4>1
    <3> HIDE DEF row
    <3> QED
      BY <3>2, <3>3 DEF Counts
  <2>3. Counts'
    BY <2>1, <2>2 DEF Counts
  <2> QED
    BY <1>1, <1>7, <2>3, GetNumbers
<1>8. ASSUME NEW c \in Clients, send(c)
      PROVE  Given'
  <2>1. /\ sent' = [sent EXCEPT ![c] = @ + 1] /\ sent[c] < MaxSent
        /\ got' = got /\ faults' = faults
    BY <1>8 DEF send
  <2>2. sent' \in [Clients -> 0..MaxSent]
    BY <2>1 DEF Counts
  <2>3. Counts'
    BY <2>1, <2>2 DEF Counts
  <2> QED
    BY <1>1, <1>8, <2>3, SendNumbers
<1> QED
  BY <1>3, <1>4, <1>5, <1>6, <1>7, <1>8 DEF Next, MasterStep, ClientStep

\* The numbers of c's blocks are those it sent: there are no more places than that, and
\* none counts more.
LEMMA GivenTable == Given => TypeOK /\ DeliveredOnce
<1> SUFFICES ASSUME Given PROVE TypeOK /\ DeliveredOnce
  OBVIOUS
<1> USE ConstantsAssumption DEF Given
<1>1. ASSUME NEW c \in Clients
      PROVE  IsFiniteSet(Places(c)) /\ Cardinality(Places(c)) <= sent[c]
  <2>1. PICK n \in Nat : n = sent[c]
    BY DEF Counts
  <2>2. PICK f : f \in Injection(Places(c), 1..n)
    BY <2>1 DEF Numbered, ExistsInjection
  <2>3. IsFiniteSet(1..n) /\ Cardinality(1..n) = n
    <3>1. 1 \in Int /\ n \in Int /\ (IF 1 > n THEN 0 ELSE n - 1 + 1) = n
      OBVIOUS
    <3> QED
      BY <3>1, FS_Interval
  <2> QED
    BY <2>1, <2>2, <2>3, FS_Injection
<1>2. ASSUME NEW c \in Clients, NEW t, NEW x, NEW n \in Nat,
             \A k \in 1..n : At(t, x, k, c)
      PROVE  n \in 0..MaxSent
  <2>1. IsFiniteSet(1..n) /\ Cardinality(1..n) = n
    <3>1. 1 \in Int /\ n \in Int /\ (IF 1 > n THEN 0 ELSE n - 1 + 1) = n
      OBVIOUS
    <3> QED
      BY <3>1, FS_Interval
  <2> DEFINE f == [k \in 1..n |-> <<t, x, k>>]
  <2>2. f \in Injection(1..n, Places(c))
    <3>1. f \in [1..n -> Places(c)]
      BY <1>2, PlacesAt
    <3>2. \A j, k \in 1..n : f[j] = f[k] => j = k
      OBVIOUS
    <3> QED
      BY <3>1, <3>2 DEF Injection, IsInjective
  <2> HIDE DEF f
  <2>3. Cardinality(1..n) <= Cardinality(Places(c))
    BY <1>1, <2>2, FS_Injection
  <2>4. /\ Cardinality(Places(c)) \in Nat /\ Cardinality(Places(c)) <= sent[c]
        /\ sent[c] \in 0..MaxSent
    BY <1>1, FS_CardinalityType DEF Counts
  <2> QED
    BY <2>1, <2>3, <2>4
<1>3. inq \in [Clients -> 0..MaxSent]
  <2>1. \A c \in Clients : inq[c] \in Nat /\ \A k \in 1..inq[c] : At("unread", c, k, c)
    BY DEF Inv, Types, At
  <2>2. \A c \in Clients : inq[c] \in 0..MaxSent
    BY <1>2, <2>1
  <2> QED
    BY <2>2 DEF Inv, Types
<1>4. got \in [Clients -> [Clients -> 0..MaxSent]]
  <2>1. \A c, d \in Clients : got[d][c] \in Nat /\ \A k \in 1..got[d][c] : At("got", d, k, c)
    BY DEF Counts, At
  <2>2. \A c, d \in Clients : got[d][c] \in 0..MaxSent
    BY <1>2, <2>1
  <2> QED
    BY <2>2 DEF Counts
<1>5. TypeOK
  <2>1. post.slot \in Slots /\ post.blocks \in Seq(Clients)
    BY DEF Inv, Types
  <2> QED
    BY <1>3, <1>4, <2>1 DEF TypeOK, Inv, Types, Pipes, Counts
<1> QED
  BY <1>1, <1>5 DEF DeliveredOnce

\* The table is exact, the variables are of their types, and no block of a client is
\* delivered twice, whoever it is delivered to.
THEOREM TableKept == Spec => []TableInv
<1>1. Spec => []Given
  BY GivenInit, GivenNext, PTL DEF Spec
<1>2. Given => TypeOK /\ DeliveredOnce
  BY GivenTable
<1> QED
  BY <1>1, <1>2, TableExact, PTL DEF TableInv
=============================================================================
