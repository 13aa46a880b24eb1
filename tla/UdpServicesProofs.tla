------------------------- MODULE UdpServicesProofs -------------------------
(***************************************************************************)
(* Proofs about UdpServices, for any clients, lines, numbers of processes  *)
(* and of faults: the server with one process is never blocked by a socket *)
(* that select had found ready, and an ECHO client that has never given up *)
(* waiting reads its own line, whatever the network loses or delays.       *)
(***************************************************************************)
EXTENDS UdpServices, SequenceTheorems, FiniteSetTheorems, WellFoundedInduction, TLAPS

PCs  == {"none", "prefork", "select", "recv", "fork", "reply", "close", "zombie", "dead"}
CPCs == {"write", "wait", "done", "exit", "incorrect"}

\* The texts that are in no buffer yet, and the datagrams.
Datagrams == [client : Clients, try : Nat \X Nat, text : Seq(Cells)]

\* d holds what its client sends: one of its lines.
IsRequest(d) == \E n \in 1..Len(Lengths(d.client)) : d.text = Line(d.client, n)

Static == program \in Programs /\ \A c \in Clients : kind[c] \in Kinds(c)

ServerTypes ==
  /\ pc \in [Procs -> PCs] /\ l \in 0..NCRTLVL
  /\ rfds \in [Procs -> SUBSET Socks] /\ req \in [Procs -> SUBSET Datagrams]
  /\ sigchld \in BOOLEAN /\ faults \in 0..Faults

NetTypes == /\ queue \in [Socks -> Seq(Datagrams)] /\ wire \subseteq Datagrams
            /\ buf \in [1..BUFLEN -> Cells]

ClientTypes ==
  /\ cpc \in [Clients -> CPCs] /\ line \in [Clients -> Nat] /\ retry \in [Clients -> 0..2]
  /\ \A c \in Clients : line[c] \in 1..Len(Lengths(c)) /\ (cpc[c] = "write" => retry[c] <= 1)
  /\ gaveup \subseteq Clients /\ lost \subseteq Clients

\* What can be where in which server; a request in hand is one.
Roles ==
  /\ pc[Root] = "prefork" => program \in Preforking /\ l < NCRTLVL
  /\ \A p \in Procs :
       /\ pc[p] \in {"fork", "reply", "close"} => program = "fork"
       /\ req[p] # {} => pc[p] \in {"fork", "reply"} /\ \E d \in req[p] : req[p] = {d}

\* A process of the servers that select has a socket to serve when it receives, and
\* the only process of UDPmultisvcd has requests at all of them.
Loop ==
  /\ \A p \in Procs : program \in Selecting /\ pc[p] = "recv" => rfds[p] # {}
  /\ program = "UDPmultisvcd" => /\ \A p \in Procs : p # Root => pc[p] = "none"
                                 /\ \A s \in rfds[Root] : queue[s] # <<>>

\* Requests hold lines of their clients, and so do the answers to ECHO of the server
\* that clears its buffer.
Texts == /\ \A s \in Socks : \A i \in 1..Len(queue[s]) :
              Service(queue[s][i].client) = s /\ IsRequest(queue[s][i])
         /\ \A d \in wire : Service(d.client) = Echo /\ program = "exc_15_7" => IsRequest(d)

\* The last cell of a buffer is never written to.
Buffer == buf[BUFLEN] = Nul /\ (program # "UDPmultisvcd" => buf = Blank)

Begins(text, with) == Len(with) <= Len(text) /\ \A i \in 1..Len(with) : text[i] = with[i]

\* What is under way for ECHO client c, which has never given up waiting: one request or
\* one answer, that of the line it waits for.
InStep(c) ==
  /\ \A i \in 1..Len(queue[Echo]) : queue[Echo][i].client = c =>
       /\ cpc[c] = "wait" /\ queue[Echo][i].text = Line(c, line[c])
       /\ \A j \in 1..Len(queue[Echo]) : queue[Echo][j].client = c => i = j
       /\ \A d \in wire : d.client # c
  /\ \A d \in wire : d.client = c =>
       /\ cpc[c] = "wait" /\ Begins(d.text, Line(c, line[c]))
       /\ \A e \in wire : e.client = c => d = e

InStepInv == \A c \in Clients : Service(c) = Echo /\ c \notin gaveup => InStep(c)

Inv == /\ Static /\ ServerTypes /\ NetTypes /\ ClientTypes
       /\ Roles /\ Loop /\ Texts /\ Buffer /\ InStepInv

-----------------------------------------------------------------------------
(* Facts about the operators. *)

\* A set of natural numbers has a least element.
LEMMA MinIs ==
  ASSUME NEW S, S \subseteq Nat, S # {}
  PROVE  Min(S) \in S /\ \A y \in S : Min(S) <= y
<1>1. PICK x \in S : \A y \in S : ~(<<y, x>> \in OpToRel(<, Nat))
  BY NatLessThanWellFounded, WFMin
<1>2. \A y \in S : x <= y
  <2> TAKE y \in S
  <2>1. <<y, x>> \in Nat \X Nat
    OBVIOUS
  <2>2. ~(y < x)
    BY <1>1, <2>1 DEF OpToRel
  <2> QED
    BY <2>2
<1> QED
  BY <1>1, <1>2 DEF Min

\* The socket that a process serves is one that it has found ready.
LEMMA SockIs ==
  ASSUME ServerTypes, NEW p \in Procs
  PROVE  sock(p) \in Socks /\ (rfds[p] # {} => sock(p) \in rfds[p])
<1>1. rfds[p] \subseteq Socks /\ Socks \subseteq Nat /\ Time \in Socks
  BY DEF ServerTypes, Socks, Echo, Daytime, Time
<1>2. rfds[p] # {} => Min(rfds[p]) \in rfds[p]
  BY <1>1, MinIs
<1> QED
  BY <1>1, <1>2 DEF sock

\* The line of a client: it fits into a buffer, and no cell of it is a nul.
LEMMA LineIs ==
  ASSUME Static, NEW c \in Clients, NEW n \in 1..Len(Lengths(c))
  PROVE  /\ Line(c, n) \in Seq(Cells) /\ Len(Line(c, n)) \in 1..(BUFLEN - 1)
         /\ \A i \in 1..Len(Line(c, n)) : /\ Line(c, n)[i] \in Cells \cap ({c} \X Nat)
                                          /\ Line(c, n)[i] # Nul
<1>1. Lengths(c) \in Seq(1..(BUFLEN - 1)) /\ 1 \in 1..Len(Lengths(c))
  <2>1. Lines[c] \in Seq(1..(BUFLEN - 1)) /\ Lines[c] # <<>> /\ BUFLEN \in Nat \ (0..2)
    BY ConstantsAssumption
  <2>2. <<1>> \in Seq(1..(BUFLEN - 1)) /\ <<1>> # <<>>
    BY <2>1
  <2>3. Lengths(c) \in Seq(1..(BUFLEN - 1)) /\ Lengths(c) # <<>>
    BY <2>1, <2>2 DEF Lengths
  <2> QED
    BY <2>3, n \in 1..Len(Lengths(c))
<1>2. \A m \in 1..Len(Lengths(c)) : <<c, m>> \in Cells \cap ({c} \X Nat) /\ <<c, m>> # Nul
  BY <1>1 DEF Cells, Nul
<1>3. PICK m \in 1..Len(Lengths(c)) : Line(c, n) = [i \in 1..Lengths(c)[m] |-> <<c, m>>]
  BY <1>1 DEF Line
<1>4. Lengths(c)[m] \in 1..(BUFLEN - 1)
  BY <1>1, ElementOfSeq
<1>5. Line(c, n) \in Seq(Cells)
  <2>1. Lengths(c)[m] \in Nat /\ Line(c, n) \in [1..Lengths(c)[m] -> Cells]
    BY <1>2, <1>3, <1>4
  <2> QED
    BY <2>1
<1>6. Len(Line(c, n)) = Lengths(c)[m]
  BY <1>3, <1>4, <1>5, LenProperties
<1> QED
  BY <1>2, <1>3, <1>4, <1>5, <1>6

\* What a handler leaves in the buffer still ends with a nul.
LEMMA HandledIs ==
  ASSUME NEW s \in Socks, NEW old \in [1..BUFLEN -> Cells], old[BUFLEN] = Nul,
         NEW text \in Seq(Cells), Len(text) < BUFLEN
  PROVE  /\ Handled(s, Received(old, text)) \in [1..BUFLEN -> Cells]
         /\ Handled(s, Received(old, text))[BUFLEN] = Nul
         /\ Handled(Time, Blank) \in [1..BUFLEN -> Cells] /\ Handled(Time, Blank)[BUFLEN] = Nul
         /\ Blank \in [1..BUFLEN -> Cells] /\ Blank[BUFLEN] = Nul
<1> DEFINE r == Received(old, text)
<1>1. BUFLEN \in Nat /\ BUFLEN >= 3 /\ Clock \in Cells /\ Nul \in Cells
  BY ConstantsAssumption DEF Cells
<1>2. r \in [1..BUFLEN -> Cells] /\ r[BUFLEN] = Nul
  <2>1. \A i \in 1..BUFLEN : i <= Len(text) => text[i] \in Cells
    BY <1>1, ElementOfSeq, LenProperties
  <2> QED
    BY <1>1, <2>1, LenProperties DEF Received
<1>3. Blank \in [1..BUFLEN -> Cells] /\ Blank[BUFLEN] = Nul
  BY <1>1 DEF Blank
<1>4. ASSUME NEW b \in [1..BUFLEN -> Cells], b[BUFLEN] = Nul, NEW t \in Socks
      PROVE  Handled(t, b) \in [1..BUFLEN -> Cells] /\ Handled(t, b)[BUFLEN] = Nul
  <2>1. \/ t = Echo /\ Handled(t, b) = b
        \/ Handled(t, b) = [b EXCEPT ![1] = Clock, ![2] = Clock, ![3] = Nul]
        \/ Handled(t, b) = [b EXCEPT ![1] = Clock, ![2] = Nul]
    BY <1>4 DEF Handled, Socks, Echo, Daytime, Time
  <2> QED
    BY <1>1, <1>4, <2>1
<1> HIDE DEF r
<1> QED
  BY <1>2, <1>3, <1>4 DEF r, Socks

\* The length of the text in a buffer, and the answer that is sent of it.
LEMMA AnswerIs ==
  ASSUME NEW b \in [1..BUFLEN -> Cells], b[BUFLEN] = Nul, NEW d \in Datagrams
  PROVE  /\ StrLen(b) \in 0..(BUFLEN - 1) /\ b[StrLen(b) + 1] = Nul
         /\ \A i \in 1..StrLen(b) : b[i] # Nul
         /\ Answer(d, b) \in Datagrams /\ Answer(d, b).client = d.client
         /\ Len(Answer(d, b).text) = StrLen(b)
         /\ \A i \in 1..StrLen(b) : Answer(d, b).text[i] = b[i]
<1>1. BUFLEN \in Nat /\ BUFLEN >= 3
  BY ConstantsAssumption
<1> DEFINE Z == {i \in 1..BUFLEN : b[i] = Nul}
<1>2. Z \subseteq Nat /\ BUFLEN \in Z
  BY <1>1
<1>3. Min(Z) \in Z /\ \A y \in Z : Min(Z) <= y
  BY <1>2, MinIs
<1>4. StrLen(b) = Min(Z) - 1
  BY DEF StrLen
<1>5. /\ StrLen(b) \in 0..(BUFLEN - 1) /\ b[StrLen(b) + 1] = Nul
      /\ \A i \in 1..StrLen(b) : b[i] # Nul
  <2>1. Min(Z) \in 1..BUFLEN /\ b[Min(Z)] = Nul
    BY <1>3
  <2>2. ASSUME NEW i \in 1..StrLen(b), b[i] = Nul
        PROVE  FALSE
    <3>1. i \in 1..BUFLEN /\ i < Min(Z)
      BY <1>1, <1>4, <2>1
    <3>2. i \in Z
      BY <2>2, <3>1
    <3> HIDE DEF Z
    <3> QED
      BY <1>3, <2>1, <3>1, <3>2
  <2> QED
    BY <1>1, <1>4, <2>1, <2>2
<1>6. b \in Seq(Cells) /\ Len(b) = BUFLEN
  BY <1>1, IsASeq, LenProperties
<1>7. /\ SubSeq(b, 1, StrLen(b)) \in Seq(Cells) /\ Len(SubSeq(b, 1, StrLen(b))) = StrLen(b)
      /\ \A i \in 1..StrLen(b) : SubSeq(b, 1, StrLen(b))[i] = b[i]
  <2>1. 1 \in 1..(Len(b) + 1) /\ StrLen(b) \in (1 - 1)..Len(b)
    BY <1>1, <1>5, <1>6
  <2> QED
    BY <1>5, <1>6, <2>1, SubSeqProperties
<1> QED
  BY <1>5, <1>7 DEF Answer, Datagrams

\* The answer to ECHO begins with the request, and is the request if the buffer was blank.
LEMMA EchoIs ==
  ASSUME Static, NetTypes, Buffer, NEW d \in Datagrams, d.client \in Clients, IsRequest(d)
  PROVE  LET a == Answer(d, Handled(Echo, Received(buf, d.text)))
         IN  /\ Len(d.text) < BUFLEN
             /\ Begins(a.text, d.text)
             /\ program # "UDPmultisvcd" => a.text = d.text
<1> DEFINE r == Received(buf, d.text)
<1>1. BUFLEN \in Nat /\ BUFLEN >= 3
  BY ConstantsAssumption
<1>2. /\ d.text \in Seq(Cells) /\ Len(d.text) \in 1..(BUFLEN - 1)
      /\ \A i \in 1..Len(d.text) : d.text[i] # Nul
  <2>1. PICK n \in 1..Len(Lengths(d.client)) : d.text = Line(d.client, n)
    BY DEF IsRequest
  <2> QED
    BY <2>1, LineIs
<1>3. buf \in [1..BUFLEN -> Cells] /\ buf[BUFLEN] = Nul
  BY DEF NetTypes, Buffer
<1>4. Handled(Echo, r) = r
  BY DEF Handled, Echo, Daytime, Time
<1>5. r \in [1..BUFLEN -> Cells] /\ r[BUFLEN] = Nul
  <2>1. Echo \in Socks /\ Len(d.text) < BUFLEN
    BY <1>1, <1>2 DEF Socks
  <2>2. Handled(Echo, r) \in [1..BUFLEN -> Cells] /\ Handled(Echo, r)[BUFLEN] = Nul
    BY <1>2, <1>3, <2>1, HandledIs
  <2> QED
    BY <1>4, <2>2
<1>6. \A i \in 1..BUFLEN : r[i] = IF i <= Len(d.text) THEN d.text[i] ELSE buf[i]
  BY DEF Received
<1> HIDE DEF r
<1>7. /\ StrLen(r) \in 0..(BUFLEN - 1) /\ r[StrLen(r) + 1] = Nul
      /\ \A i \in 1..StrLen(r) : r[i] # Nul
      /\ Answer(d, r).text \in Seq(Cells) /\ Len(Answer(d, r).text) = StrLen(r)
      /\ \A i \in 1..StrLen(r) : Answer(d, r).text[i] = r[i]
  BY <1>5, AnswerIs DEF Datagrams
<1>8. Len(d.text) <= StrLen(r)
  <2> SUFFICES ASSUME StrLen(r) < Len(d.text) PROVE FALSE
    BY <1>1, <1>2, <1>7
  <2>1. StrLen(r) + 1 \in 1..Len(d.text) /\ StrLen(r) + 1 \in 1..BUFLEN
    BY <1>1, <1>2, <1>7
  <2>2. r[StrLen(r) + 1] = d.text[StrLen(r) + 1]
    BY <1>2, <1>6, <2>1
  <2> QED
    BY <1>2, <1>7, <2>1, <2>2
<1>9. \A i \in 1..Len(d.text) : Answer(d, r).text[i] = d.text[i]
  <2> TAKE i \in 1..Len(d.text)
  <2>1. i \in 1..StrLen(r) /\ i \in 1..BUFLEN /\ i <= Len(d.text)
    BY <1>1, <1>2, <1>7, <1>8
  <2> QED
    BY <1>6, <1>7, <2>1
<1>10. ASSUME program # "UDPmultisvcd"
       PROVE  Answer(d, r).text = d.text
  <2>1. \A i \in 1..BUFLEN : buf[i] = Nul
    BY <1>10 DEF Buffer, Blank
  <2>2. StrLen(r) = Len(d.text)
    <3> SUFFICES ASSUME StrLen(r) > Len(d.text) PROVE FALSE
      BY <1>1, <1>2, <1>7, <1>8
    <3>1. StrLen(r) \in 1..BUFLEN /\ ~(StrLen(r) <= Len(d.text)) /\ StrLen(r) \in 1..StrLen(r)
      BY <1>1, <1>2, <1>7
    <3>2. r[StrLen(r)] = Nul
      BY <1>6, <2>1, <3>1
    <3> QED
      BY <1>7, <3>1, <3>2
  <2> QED
    BY <1>2, <1>7, <1>9, <2>2, SeqEqual
<1> QED
  BY <1>1, <1>2, <1>4, <1>7, <1>8, <1>9, <1>10 DEF r, Begins

\* What the programs, the same in all states, determine.
LEMMA Same ==
  ASSUME UNCHANGED <<program, kind>>
  PROVE  /\ Cells' = Cells /\ Datagrams' = Datagrams /\ (Static => Static')
         /\ \A c : /\ Service(c)' = Service(c) /\ Lengths(c)' = Lengths(c)
                   /\ \A n : Line(c, n)' = Line(c, n)
         /\ \A d : IsRequest(d)' <=> IsRequest(d)
<1>1. \A c : Service(c)' = Service(c)
  BY DEF Service
<1>2. \A c : Lengths(c)' = Lengths(c)
  BY <1>1 DEF Lengths
<1>3. \A c : \A n : Line(c, n)' = Line(c, n)
  BY <1>2 DEF Line
<1>4. Cells' = Cells
  BY <1>2 DEF Cells
<1>5. Datagrams' = Datagrams
  BY <1>4 DEF Datagrams
<1>6. Static => Static'
  BY <1>1 DEF Static, Kinds
<1>7. \A d : IsRequest(d)' <=> IsRequest(d)
  BY <1>2, <1>3 DEF IsRequest
<1> QED
  BY <1>1, <1>2, <1>3, <1>4, <1>5, <1>6, <1>7

\* Only clients lose.
LEMMA LosersAre ==
  ASSUME NEW D, D \subseteq Datagrams
  PROVE  Losers(D) \subseteq Clients
BY DEF Losers, Datagrams
-----------------------------------------------------------------------------
(* The invariant holds at the start. *)

LEMMA InitInv == Init => Inv
<1> SUFFICES ASSUME Init PROVE Inv
  OBVIOUS
<1> USE DEF Init
<1>1. /\ NCRTLVL \in Nat \ {0} /\ BUFLEN \in Nat /\ BUFLEN >= 3 /\ Faults \in Nat
      /\ Root \in Procs /\ l = 0
  BY ConstantsAssumption DEF Root, Procs
<1>2. Static
  BY DEF Static
<1>3. /\ pc \in [Procs -> {"none", "prefork", "select", "recv"}]
      /\ pc[Root] = "prefork" => program \in Preforking
      /\ \A p \in Procs : p # Root => pc[p] = "none"
      /\ \A p \in Procs : program \in Selecting => pc[p] # "recv"
  <2>1. Top \in {"select", "recv"} /\ (program \in Selecting => Top = "select")
    BY DEF Top
  <2> QED
    BY <1>1, <2>1
<1>4. ServerTypes
  <2>1. pc \in [Procs -> PCs]
    BY <1>3 DEF PCs
  <2>2. l \in 0..NCRTLVL /\ faults \in 0..Faults
    BY <1>1
  <2> QED
    BY <2>1, <2>2 DEF ServerTypes
<1>5. NetTypes /\ Buffer /\ Texts
  <2>1. Blank \in [1..BUFLEN -> Cells] /\ Blank[BUFLEN] = Nul
    BY <1>1 DEF Blank, Cells
  <2>2. queue \in [Socks -> Seq(Datagrams)] /\ \A s \in Socks : Len(queue[s]) = 0
    BY EmptySeq
  <2> QED
    BY <2>1, <2>2 DEF NetTypes, Buffer, Texts
<1>6. ClientTypes
  <2>1. \A c \in Clients : 1 \in 1..Len(Lengths(c))
    <3> TAKE c \in Clients
    <3>1. Lines[c] \in Seq(1..(BUFLEN - 1)) /\ Lines[c] # <<>>
      BY ConstantsAssumption
    <3>2. Len(Lines[c]) \in Nat \ {0}
      BY <3>1, EmptySeq
    <3> QED
      BY <3>2 DEF Lengths
  <2> QED
    BY <2>1 DEF ClientTypes, CPCs
<1>7. Roles
  BY <1>1, <1>3 DEF Roles
<1>8. Loop
  BY <1>1, <1>3 DEF Loop
<1>9. InStepInv
  <2>1. Len(queue[Echo]) = 0 /\ wire = {}
    BY DEF Socks
  <2> QED
    BY <2>1 DEF InStepInv, InStep
<1> QED
  BY <1>2, <1>4, <1>5, <1>6, <1>7, <1>8, <1>9 DEF Inv

-----------------------------------------------------------------------------
(* Steps of the clients and of the network. *)

\* What no step of a client, and no datagram lost, changes.
LEMMA ServerKept ==
  ASSUME Inv, UNCHANGED <<program, kind, server>>,
         faults' \in 0..Faults, wire' \subseteq wire,
         queue' \in [Socks -> Seq(Datagrams)], \A s \in Socks : queue[s] # <<>> => queue'[s] # <<>>
  PROVE  Static' /\ ServerTypes' /\ NetTypes' /\ Roles' /\ Loop' /\ Buffer'
<1> USE Same DEF server
<1>1. Static'
  BY DEF Inv
<1>2. ServerTypes'
  BY DEF Inv, ServerTypes
<1>3. NetTypes'
  BY DEF Inv, NetTypes
<1>4. Roles'
  BY DEF Inv, Roles
<1>5. Loop'
  <2>1. Root \in Procs /\ rfds[Root] \subseteq Socks
    BY ConstantsAssumption DEF Inv, ServerTypes, Procs, Root
  <2> QED
    BY <2>1 DEF Inv, Loop
<1>6. Buffer'
  BY DEF Inv, Buffer
<1> QED
  BY <1>1, <1>2, <1>3, <1>4, <1>5, <1>6

\* Nothing is out of step if no datagram is added, and a client of which there still is
\* one stays where it is.
LEMMA FewerInStep ==
  ASSUME InStepInv, UNCHANGED <<program, kind>>, gaveup \subseteq gaveup',
         wire' \subseteq wire, queue'[Echo] = queue[Echo] \/ queue'[Echo] = <<>>,
         \A c \in Clients \ gaveup' : Service(c) = Echo =>
           \/ cpc'[c] = cpc[c] /\ line'[c] = line[c]
           \/ /\ \A i \in 1..Len(queue'[Echo]) : queue'[Echo][i].client # c
              /\ \A d \in wire' : d.client # c
  PROVE  InStepInv'
<1> SUFFICES ASSUME NEW c \in Clients, Service(c) = Echo, c \notin gaveup'
             PROVE  InStep(c)'
  BY Same DEF InStepInv
<1>1. InStep(c)
  BY DEF InStepInv
<1>2. \A n : Line(c, n)' = Line(c, n)
  BY Same
<1>3. CASE cpc'[c] = cpc[c] /\ line'[c] = line[c]
  <2>1. Line(c, line[c])' = Line(c, line[c])
    BY <1>2, <1>3 DEF Line, Lengths, Service
  <2>2. CASE queue'[Echo] = queue[Echo]
    BY <1>1, <1>3, <2>1, <2>2 DEF InStep, Begins
  <2>3. CASE queue'[Echo] = <<>>
    BY <1>1, <1>3, <2>1, <2>3 DEF InStep, Begins
  <2> QED
    BY <2>2, <2>3
<1>4. CASE /\ \A i \in 1..Len(queue'[Echo]) : queue'[Echo][i].client # c
           /\ \A d \in wire' : d.client # c
  BY <1>4 DEF InStep
<1> QED
  BY <1>3, <1>4

\* Fewer texts are still texts of their clients.
LEMMA FewerTexts ==
  ASSUME Texts, UNCHANGED <<program, kind, queue>>, wire' \subseteq wire
  PROVE  Texts'
BY Same DEF Texts

\* A client that has a request or an answer under way, and has never given up, waits.
LEMMA OnlyWaiting ==
  ASSUME InStepInv, NEW c \in Clients, Service(c) = Echo, c \notin gaveup, cpc[c] # "wait"
  PROVE  /\ \A i \in 1..Len(queue[Echo]) : queue[Echo][i].client # c
         /\ \A d \in wire : d.client # c
BY DEF InStepInv, InStep

\* A client does not go past its last line.
LEMMA NextLineTypes ==
  ASSUME Inv, NEW c \in Clients, NextLine(c), UNCHANGED <<program, kind, lost>>,
         gaveup' \subseteq Clients
  PROVE  ClientTypes'
<1>1. /\ line[c] \in Nat /\ line[c] \in 1..Len(Lengths(c))
      /\ cpc \in [Clients -> CPCs] /\ line \in [Clients -> Nat] /\ retry \in [Clients -> 0..2]
  BY DEF Inv, ClientTypes
<1>2. cpc' \in [Clients -> CPCs]
  BY <1>1 DEF NextLine, CPCs
<1>3. retry' \in [Clients -> 0..2] /\ retry'[c] = 0
  BY <1>1 DEF NextLine
<1>4. line' \in [Clients -> Nat] /\ line'[c] \in 1..Len(Lengths(c))
  BY <1>1 DEF NextLine
<1>5. \A b \in Clients : b # c => cpc'[b] = cpc[b] /\ retry'[b] = retry[b] /\ line'[b] = line[b]
  BY <1>1 DEF NextLine
<1> QED
  BY <1>2, <1>3, <1>4, <1>5, Same DEF Inv, ClientTypes

\* A request that is sent is the only datagram of its client, if that has never given up.
LEMMA SendStep ==
  ASSUME Inv, NEW c \in Clients, write(c), Live # {}
  PROVE  Inv'
<1> DEFINE d == [client |-> c, try |-> <<line[c], retry[c]>>, text |-> Line(c, line[c])]
           s == Service(c)
<1>1. /\ cpc[c] = "write" /\ retry' = [retry EXCEPT ![c] = @ + 1]
      /\ cpc' = [cpc EXCEPT ![c] = "wait"]
      /\ UNCHANGED <<program, kind, server, wire, line, gaveup>>
      /\ \/ queue' = [queue EXCEPT ![s] = Append(@, d)] /\ UNCHANGED <<lost, faults>>
         \/ Fault /\ lost' = lost \cup Losers({d}) /\ UNCHANGED queue
  BY DEF write
<1>2. /\ line[c] \in Nat /\ line[c] \in 1..Len(Lengths(c)) /\ retry[c] \in 0..1
      /\ cpc \in [Clients -> CPCs] /\ line \in [Clients -> Nat] /\ retry \in [Clients -> 0..2]
      /\ gaveup \subseteq Clients /\ lost \subseteq Clients
      /\ queue \in [Socks -> Seq(Datagrams)] /\ wire \subseteq Datagrams
      /\ faults \in 0..Faults /\ Faults \in Nat
  BY <1>1, ConstantsAssumption DEF Inv, ClientTypes, NetTypes, ServerTypes
<1>3. d \in Datagrams /\ IsRequest(d)
  <2>1. Line(c, line[c]) \in Seq(Cells)
    BY <1>2, LineIs DEF Inv
  <2> QED
    BY <1>2, <2>1 DEF Datagrams, IsRequest
<1>4. s \in Socks
  BY ConstantsAssumption DEF Service, Socks
<1> HIDE DEF d, s
<1>5. faults' \in 0..Faults /\ lost' \subseteq Clients
  <2>1. {d} \subseteq Datagrams
    BY <1>3
  <2>2. Losers({d}) \subseteq Clients
    BY <2>1, LosersAre
  <2>3. /\ faults' = faults \/ (faults > 0 /\ faults' = faults - 1)
        /\ lost' = lost \/ lost' = lost \cup Losers({d})
    BY <1>1 DEF Fault
  <2>4. faults' \in 0..Faults
    BY <1>2, <2>3
  <2>5. lost' \subseteq Clients
    BY <1>2, <2>2, <2>3
  <2> QED
    BY <2>4, <2>5
<1>6. queue' \in [Socks -> Seq(Datagrams)] /\ \A t \in Socks : queue[t] # <<>> => queue'[t] # <<>>
  <2>1. Append(queue[s], d) \in Seq(Datagrams) /\ Append(queue[s], d) # <<>>
    BY <1>2, <1>3, <1>4, AppendProperties
  <2> QED
    BY <1>1, <1>2, <1>4, <2>1
<1>7. Static' /\ ServerTypes' /\ NetTypes' /\ Roles' /\ Loop' /\ Buffer'
  BY <1>1, <1>2, <1>5, <1>6, ServerKept
<1>8. ClientTypes'
  <2>1. cpc' \in [Clients -> CPCs] /\ cpc'[c] = "wait" /\ retry' \in [Clients -> 0..2]
    BY <1>1, <1>2 DEF CPCs
  <2>2. \A b \in Clients : b # c => cpc'[b] = cpc[b] /\ retry'[b] = retry[b]
    BY <1>1, <1>2
  <2> QED
    BY <1>1, <1>2, <1>5, <2>1, <2>2, Same DEF Inv, ClientTypes
<1>9. CASE UNCHANGED queue
  <2>1. Texts'
    BY <1>1, <1>9, FewerTexts DEF Inv
  <2>2. InStepInv'
    <3>1. \A b \in Clients \ gaveup' : Service(b) = Echo =>
           \/ cpc'[b] = cpc[b] /\ line'[b] = line[b]
           \/ /\ \A i \in 1..Len(queue'[Echo]) : queue'[Echo][i].client # b
              /\ \A e \in wire' : e.client # b
      BY <1>1, <1>2, <1>9, OnlyWaiting DEF Inv
    <3> QED
      BY <1>1, <1>9, <3>1, FewerInStep DEF Inv
  <2> QED
    BY <1>7, <1>8, <2>1, <2>2 DEF Inv
<1>10. CASE queue' = [queue EXCEPT ![s] = Append(@, d)]
  <2>1. /\ queue[s] \in Seq(Datagrams) /\ Len(queue[s]) \in Nat
        /\ Len(queue'[s]) = Len(queue[s]) + 1 /\ queue'[s][Len(queue[s]) + 1] = d
        /\ \A i \in 1..Len(queue[s]) : queue'[s][i] = queue[s][i]
        /\ \A t \in Socks : t # s => queue'[t] = queue[t]
    BY <1>2, <1>3, <1>4, <1>10, AppendProperties, LenProperties
  <2>2. d.client = c /\ s = Service(c) /\ d.text = Line(c, line[c])
    BY DEF d, s
  <2>3. Texts'
    <3> SUFFICES ASSUME NEW t \in Socks, NEW i \in 1..Len(queue'[t])
                 PROVE  Service(queue'[t][i].client) = t /\ IsRequest(queue'[t][i])
      BY <1>1, Same DEF Inv, Texts
    <3>1. CASE t = s /\ i = Len(queue[s]) + 1
      BY <1>3, <2>1, <2>2, <3>1
    <3>2. CASE t # s \/ i # Len(queue[s]) + 1
      <4>1. i \in 1..Len(queue[t]) /\ queue'[t][i] = queue[t][i]
        BY <2>1, <3>2
      <4> QED
        BY <4>1 DEF Inv, Texts
    <3> QED
      BY <3>1, <3>2
  <2>4. InStepInv'
    <3> SUFFICES ASSUME NEW b \in Clients, Service(b) = Echo, b \notin gaveup
                 PROVE  InStep(b)'
      BY <1>1, Same DEF InStepInv
    <3>1. InStep(b)
      BY DEF Inv, InStepInv
    <3>2. Line(b, line[b])' = Line(b, line[b])
      BY <1>1 DEF Line, Lengths, Service
    <3>3. CASE b # c
      <4>1. cpc'[b] = cpc[b] /\ line'[b] = line[b]
        BY <1>1, <1>2, <3>3
      <4>2. \A i \in 1..Len(queue'[Echo]) : queue'[Echo][i].client = b =>
               i \in 1..Len(queue[Echo]) /\ queue'[Echo][i] = queue[Echo][i]
        BY <2>1, <2>2, <3>3 DEF Socks
      <4> QED
        BY <1>1, <3>1, <3>2, <4>1, <4>2 DEF InStep, Begins
    <3>4. CASE b = c
      <4>1. /\ \A i \in 1..Len(queue[Echo]) : queue[Echo][i].client # c
            /\ \A e \in wire : e.client # c
        BY <1>1, <3>4, OnlyWaiting DEF Inv
      <4>2. s = Echo /\ cpc'[c] = "wait"
        BY <1>1, <1>2, <2>2, <3>4
      <4>3. \A i \in 1..Len(queue'[Echo]) : queue'[Echo][i].client = c =>
               i = Len(queue[s]) + 1 /\ queue'[Echo][i] = d
        BY <2>1, <4>1, <4>2
      <4> QED
        BY <1>1, <2>2, <3>2, <3>4, <4>1, <4>2, <4>3 DEF InStep
    <3> QED
      BY <3>3, <3>4
  <2> QED
    BY <1>7, <1>8, <2>3, <2>4 DEF Inv
<1> QED
  BY <1>1, <1>9, <1>10

\* Nothing is sent, and the client goes on waiting, or ends, when there is no server.
LEMMA ReadFailsStep ==
  ASSUME Inv, NEW c \in Clients, write(c), Live = {}
  PROVE  Inv'
<1>1. /\ cpc[c] = "write" /\ retry' = [retry EXCEPT ![c] = @ + 1]
      /\ \E w \in {"wait", "exit"} : cpc' = [cpc EXCEPT ![c] = w]
      /\ lost' \in {lost, lost \cup {c}}
      /\ UNCHANGED <<program, kind, server, wire, line, gaveup, queue, faults>>
  BY DEF write, ReadFails
<1>2. /\ retry[c] \in 0..1 /\ cpc \in [Clients -> CPCs] /\ line \in [Clients -> Nat]
      /\ retry \in [Clients -> 0..2] /\ gaveup \subseteq Clients /\ lost \subseteq Clients
      /\ queue \in [Socks -> Seq(Datagrams)] /\ faults \in 0..Faults
  BY <1>1 DEF Inv, ClientTypes, NetTypes, ServerTypes
<1>3. Static' /\ ServerTypes' /\ NetTypes' /\ Roles' /\ Loop' /\ Buffer'
  BY <1>1, <1>2, ServerKept
<1>4. ClientTypes'
  <2>1. cpc' \in [Clients -> CPCs] /\ cpc'[c] # "write" /\ retry' \in [Clients -> 0..2]
    BY <1>1, <1>2 DEF CPCs
  <2>2. \A b \in Clients : b # c => cpc'[b] = cpc[b] /\ retry'[b] = retry[b]
    BY <1>1, <1>2
  <2> QED
    BY <1>1, <1>2, <2>1, <2>2, Same DEF Inv, ClientTypes
<1>5. Texts'
  BY <1>1, FewerTexts DEF Inv
<1>6. InStepInv'
  <2>1. \A b \in Clients \ gaveup' : Service(b) = Echo =>
         \/ cpc'[b] = cpc[b] /\ line'[b] = line[b]
         \/ /\ \A i \in 1..Len(queue'[Echo]) : queue'[Echo][i].client # b
            /\ \A e \in wire' : e.client # b
    BY <1>1, <1>2, OnlyWaiting DEF Inv
  <2> QED
    BY <1>1, <2>1, FewerInStep DEF Inv
<1> QED
  BY <1>3, <1>4, <1>5, <1>6 DEF Inv

\* An answer is read: it was the only datagram of its client, if that has never given up.
LEMMA ReadStep ==
  ASSUME Inv, NEW c \in Clients, NEW d \in wire, read(c, d)
  PROVE  Inv'
<1>1. /\ cpc[c] = "wait" /\ d.client = c /\ wire' = wire \ {d}
      /\ \/ cpc' = [cpc EXCEPT ![c] = "incorrect"] /\ UNCHANGED <<line, retry>>
         \/ NextLine(c)
      /\ UNCHANGED <<program, kind, server, queue, gaveup, lost, faults>>
  BY DEF read
<1>2. /\ cpc \in [Clients -> CPCs] /\ line \in [Clients -> Nat]
      /\ queue \in [Socks -> Seq(Datagrams)] /\ faults \in 0..Faults /\ gaveup \subseteq Clients
  BY DEF Inv, ClientTypes, NetTypes, ServerTypes
<1>3. Static' /\ ServerTypes' /\ NetTypes' /\ Roles' /\ Loop' /\ Buffer'
  BY <1>1, <1>2, ServerKept
<1>4. ClientTypes'
  <2>1. CASE NextLine(c)
    BY <1>1, <1>2, <2>1, NextLineTypes
  <2>2. CASE cpc' = [cpc EXCEPT ![c] = "incorrect"] /\ UNCHANGED <<line, retry>>
    <3>1. cpc' \in [Clients -> CPCs] /\ cpc'[c] # "write"
          /\ \A b \in Clients : b # c => cpc'[b] = cpc[b]
      BY <1>2, <2>2 DEF CPCs
    <3> QED
      BY <1>1, <2>2, <3>1, Same DEF Inv, ClientTypes
  <2> QED
    BY <1>1, <2>1, <2>2
<1>5. Texts'
  BY <1>1, FewerTexts DEF Inv
<1>6. InStepInv'
  <2>1. \A b \in Clients : b # c => cpc'[b] = cpc[b] /\ line'[b] = line[b]
    BY <1>1, <1>2 DEF NextLine
  <2>2. ASSUME Service(c) = Echo, c \notin gaveup
        PROVE  /\ \A i \in 1..Len(queue[Echo]) : queue[Echo][i].client # c
               /\ \A e \in wire \ {d} : e.client # c
    BY <1>1, <2>2 DEF Inv, InStepInv, InStep
  <2> QED
    BY <1>1, <2>1, <2>2, FewerInStep DEF Inv
<1> QED
  BY <1>3, <1>4, <1>5, <1>6 DEF Inv

\* A client gives up waiting.
LEMMA TimeoutStep ==
  ASSUME Inv, NEW c \in Clients, timeout_retry(c) \/ timeout_next(c) \/ timeout_exit(c)
  PROVE  Inv'
<1>1. /\ cpc[c] = "wait" /\ gaveup' = gaveup \cup {c}
      /\ UNCHANGED <<program, kind, server, queue, wire, lost, faults>>
      /\ \/ NextLine(c)
         \/ /\ UNCHANGED <<line, retry>>
            /\ \E w \in {"write", "exit"} : /\ cpc' = [cpc EXCEPT ![c] = w]
                                            /\ w = "write" => retry[c] = 1
  BY DEF timeout_retry, timeout_next, timeout_exit, TimesOut, network
<1>2. /\ cpc \in [Clients -> CPCs] /\ line \in [Clients -> Nat] /\ retry \in [Clients -> 0..2]
      /\ queue \in [Socks -> Seq(Datagrams)] /\ faults \in 0..Faults /\ gaveup' \subseteq Clients
  BY <1>1 DEF Inv, ClientTypes, NetTypes, ServerTypes
<1>3. Static' /\ ServerTypes' /\ NetTypes' /\ Roles' /\ Loop' /\ Buffer'
  BY <1>1, <1>2, ServerKept
<1>4. ClientTypes'
  <2>1. CASE NextLine(c)
    BY <1>1, <1>2, <2>1, NextLineTypes
  <2>2. CASE /\ UNCHANGED <<line, retry>>
             /\ \E w \in {"write", "exit"} : /\ cpc' = [cpc EXCEPT ![c] = w]
                                             /\ w = "write" => retry[c] = 1
    <3>1. /\ cpc' \in [Clients -> CPCs] /\ (cpc'[c] = "write" => retry[c] <= 1)
          /\ \A b \in Clients : b # c => cpc'[b] = cpc[b]
      BY <1>2, <2>2 DEF CPCs
    <3> QED
      BY <1>1, <1>2, <2>2, <3>1, Same DEF Inv, ClientTypes
  <2> QED
    BY <1>1, <2>1, <2>2
<1>5. Texts'
  BY <1>1, FewerTexts DEF Inv
<1>6. InStepInv'
  <2>1. \A b \in Clients : b # c => cpc'[b] = cpc[b] /\ line'[b] = line[b]
    BY <1>1, <1>2 DEF NextLine
  <2> QED
    BY <1>1, <2>1, FewerInStep DEF Inv
<1> QED
  BY <1>3, <1>4, <1>5, <1>6 DEF Inv

\* An answer is lost.
LEMMA LoseStep ==
  ASSUME Inv, NEW d \in wire, lose(d)
  PROVE  Inv'
<1>1. /\ faults > 0 /\ faults' = faults - 1 /\ wire' = wire \ {d}
      /\ lost' = lost \cup Losers({d})
      /\ UNCHANGED <<program, kind, server, queue, cpc, line, retry, gaveup>>
  BY DEF lose, Fault, clients
<1>2. /\ queue \in [Socks -> Seq(Datagrams)] /\ faults' \in 0..Faults /\ lost' \subseteq Clients
  <2>1. {d} \subseteq Datagrams
    BY DEF Inv, NetTypes
  <2>2. Losers({d}) \subseteq Clients
    BY <2>1, LosersAre
  <2>3. lost' \subseteq Clients
    BY <1>1, <2>2 DEF Inv, ClientTypes
  <2>4. faults' \in 0..Faults
    BY <1>1, ConstantsAssumption DEF Inv, ServerTypes
  <2> QED
    BY <1>1, <2>3, <2>4 DEF Inv, NetTypes
<1>3. Static' /\ ServerTypes' /\ NetTypes' /\ Roles' /\ Loop' /\ Buffer'
  BY <1>1, <1>2, ServerKept
<1>4. ClientTypes'
  BY <1>1, <1>2, Same DEF Inv, ClientTypes
<1>5. Texts' /\ InStepInv'
  BY <1>1, FewerTexts, FewerInStep DEF Inv
<1> QED
  BY <1>3, <1>4, <1>5 DEF Inv

-----------------------------------------------------------------------------
(* Steps of the servers. *)

\* What a step of a server does not change of the clients.
LEMMA ClientsKept ==
  ASSUME Inv, UNCHANGED <<program, kind, clients>>, lost' \subseteq Clients
  PROVE  Static' /\ ClientTypes'
BY Same DEF Inv, ClientTypes, clients

\* Nothing is under way for ECHO clients where there is no ECHO.
LEMMA NoEcho ==
  ASSUME Inv, UNCHANGED <<program, kind>>, program \notin Selecting
  PROVE  InStepInv'
<1>1. \A c \in Clients : Service(c)' # Echo
  BY DEF Service, Echo, Time
<1> QED
  BY <1>1 DEF InStepInv

\* The head of a queue.
LEMMA HeadIs ==
  ASSUME Inv, NEW s \in Socks, queue[s] # <<>>
  PROVE  /\ Head(queue[s]) \in Datagrams /\ Head(queue[s]) = queue[s][1]
         /\ 1 \in 1..Len(queue[s]) /\ Len(queue[s]) \in Nat
         /\ Service(Head(queue[s]).client) = s /\ IsRequest(Head(queue[s]))
         /\ Tail(queue[s]) \in Seq(Datagrams) /\ Len(Tail(queue[s])) = Len(queue[s]) - 1
         /\ \A i \in 1..Len(Tail(queue[s])) :
              Tail(queue[s])[i] = queue[s][i + 1] /\ i + 1 \in 1..Len(queue[s])
<1>1. queue[s] \in Seq(Datagrams)
  BY DEF Inv, NetTypes
<1>2. Len(queue[s]) \in Nat \ {0}
  BY <1>1, EmptySeq
<1>3. Head(queue[s]) = queue[s][1]
  BY <1>1, <1>2
<1> QED
  BY <1>1, <1>2, <1>3, HeadTailProperties, ElementOfSeq DEF Inv, Texts

\* The root of a preforking server forks a slave.
LEMMA PreforkStep ==
  ASSUME Inv, prefork
  PROVE  Inv'
<1>1. /\ pc[Root] = "prefork" /\ l' = l + 1
      /\ UNCHANGED <<program, kind, rfds, buf, req, sigchld, network, clients, lost, faults>>
      /\ \E w \in {Top, "prefork"} :
           /\ pc' = [pc EXCEPT ![l + 1] = Top, ![Root] = w]
           /\ w = "prefork" => l + 1 # NCRTLVL
  <2>1. CASE l + 1 = NCRTLVL
    <3>1. pc' = [pc EXCEPT ![l + 1] = Top, ![Root] = Top]
      BY <2>1 DEF prefork
    <3>2. Top # "prefork"
      BY DEF Top
    <3> QED
      BY <3>1, <3>2 DEF prefork
  <2>2. CASE l + 1 # NCRTLVL
    <3>1. pc' = [pc EXCEPT ![l + 1] = Top, ![Root] = "prefork"]
      BY <2>2 DEF prefork
    <3> QED
      BY <2>2, <3>1 DEF prefork
  <2> QED
    BY <2>1, <2>2
<1>2. /\ NCRTLVL \in Nat /\ l \in 0..NCRTLVL /\ l < NCRTLVL /\ program \in Preforking
      /\ pc \in [Procs -> PCs] /\ Root \in Procs /\ l + 1 \in Procs /\ l + 1 # Root
  BY <1>1, ConstantsAssumption DEF Inv, ServerTypes, Roles, Procs, Root
<1>3. /\ Top \in {"select", "recv"} /\ Top \in PCs /\ program # "fork"
      /\ program # "UDPmultisvcd" /\ (program \in Selecting => Top = "select")
  BY <1>2 DEF Top, PCs, Preforking
<1>4. /\ pc' \in [Procs -> PCs]
      /\ pc'[Root] \in {Top, "prefork"} /\ (pc'[Root] = "prefork" => l + 1 # NCRTLVL)
      /\ pc'[l + 1] = Top /\ \A p \in Procs : p # Root /\ p # l + 1 => pc'[p] = pc[p]
  <2>1. PICK w \in {Top, "prefork"} :
           /\ pc' = [pc EXCEPT ![l + 1] = Top, ![Root] = w]
           /\ w = "prefork" => l + 1 # NCRTLVL
    BY <1>1
  <2>2. w \in PCs
    BY <1>3 DEF PCs
  <2> QED
    BY <1>2, <1>3, <2>1, <2>2
<1>5. ServerTypes'
  BY <1>1, <1>2, <1>4, Same DEF Inv, ServerTypes
<1>6. NetTypes' /\ Buffer'
  BY <1>1, Same DEF Inv, NetTypes, Buffer, network
<1>7. Roles'
  <2>1. pc'[Root] = "prefork" => program \in Preforking /\ l' < NCRTLVL
    BY <1>1, <1>2, <1>4
  <2>2. ASSUME NEW p \in Procs
        PROVE  pc'[p] \notin {"fork", "reply", "close"} /\ req[p] = {}
    BY <1>2, <1>3, <1>4 DEF Inv, Roles
  <2> QED
    BY <1>1, <2>1, <2>2, Same DEF Roles
<1>8. Loop'
  <2>1. ASSUME NEW p \in Procs, program \in Selecting, pc'[p] = "recv"
        PROVE  pc[p] = "recv"
    BY <1>2, <1>3, <1>4, <2>1
  <2> QED
    BY <1>1, <1>3, <2>1 DEF Inv, Loop
<1>9. Texts' /\ InStepInv'
  BY <1>1, FewerTexts, FewerInStep DEF Inv, network, clients
<1> QED
  BY <1>1, <1>5, <1>6, <1>7, <1>8, <1>9, ClientsKept DEF Inv, ClientTypes

\* select finds sockets that are ready.
LEMMA SelectStep ==
  ASSUME Inv, NEW p \in Procs, select(p)
  PROVE  Inv'
<1>1. /\ pc[p] = "select" /\ pc' = [pc EXCEPT ![p] = "recv"] /\ Ready # {}
      /\ rfds' = [rfds EXCEPT ![p] = Ready]
      /\ UNCHANGED <<program, kind, l, buf, req, sigchld, network, clients, lost, faults>>
  BY DEF select, Goto
<1>2. Ready \subseteq Socks /\ \A s \in Ready : queue[s] # <<>>
  BY DEF Ready
<1>3. pc \in [Procs -> PCs] /\ rfds \in [Procs -> SUBSET Socks]
  BY DEF Inv, ServerTypes
<1>4. /\ pc' \in [Procs -> PCs] /\ pc'[p] = "recv" /\ rfds' \in [Procs -> SUBSET Socks]
      /\ rfds'[p] = Ready
      /\ \A q \in Procs : q # p => pc'[q] = pc[q] /\ rfds'[q] = rfds[q]
  BY <1>1, <1>2, <1>3 DEF PCs
<1> HIDE DEF Ready
<1>5. ServerTypes'
  BY <1>1, <1>4, Same DEF Inv, ServerTypes
<1>6. NetTypes' /\ Buffer'
  BY <1>1, Same DEF Inv, NetTypes, Buffer, network
<1>7. Roles'
  BY <1>1, <1>4, Same DEF Inv, Roles
<1>8. Loop'
  <2>1. program = "UDPmultisvcd" => p = Root
    BY <1>1 DEF Inv, Loop
  <2>2. ASSUME NEW q \in Procs, program \in Selecting, pc'[q] = "recv"
        PROVE  rfds'[q] # {}
    BY <1>1, <1>4, <2>2 DEF Inv, Loop
  <2>3. program = "UDPmultisvcd" => \A q \in Procs : q # Root => pc'[q] = "none"
    BY <1>4, <2>1 DEF Inv, Loop
  <2>4. program = "UDPmultisvcd" => \A s \in rfds'[Root] : queue'[s] # <<>>
    BY <1>1, <1>2, <1>4, <2>1 DEF network
  <2> QED
    BY <1>1, <2>2, <2>3, <2>4 DEF Loop
<1>9. Texts' /\ InStepInv'
  BY <1>1, FewerTexts, FewerInStep DEF Inv, network, clients
<1> QED
  BY <1>1, <1>5, <1>6, <1>7, <1>8, <1>9, ClientsKept DEF Inv, ClientTypes

\* A process takes a request, and answers it: if it is of a client that has never given
\* up, what is under way for that client is now the answer.
LEMMA ServeStep ==
  ASSUME Inv, NEW p \in Procs, serve(p)
  PROVE  Inv'
<1> DEFINE s == sock(p)
           d == Head(queue[s])
           b == Handled(s, Received(buf, d.text))
           a == Answer(d, b)
<1>1. /\ pc[p] = "recv" /\ queue[s] # <<>> /\ program \in Selecting
      /\ queue' = [queue EXCEPT ![s] = Tail(@)]
      /\ rfds' = [rfds EXCEPT ![p] = @ \ {s}]
      /\ pc' = [pc EXCEPT ![p] = IF rfds'[p] = {} THEN "select" ELSE "recv"]
      /\ buf' = IF program = "UDPmultisvcd" THEN b ELSE Blank
      /\ wire' = wire \cup {a}
      /\ UNCHANGED <<program, kind, l, req, sigchld, clients, lost, faults>>
  BY DEF serve
<1>2. /\ pc \in [Procs -> PCs] /\ rfds \in [Procs -> SUBSET Socks]
      /\ queue \in [Socks -> Seq(Datagrams)] /\ wire \subseteq Datagrams
      /\ buf \in [1..BUFLEN -> Cells] /\ buf[BUFLEN] = Nul
  BY DEF Inv, ServerTypes, NetTypes, Buffer
<1>3. s \in Socks /\ s \in rfds[p]
  BY <1>1, SockIs DEF Inv, Loop
<1>4. /\ d \in Datagrams /\ d = queue[s][1] /\ 1 \in 1..Len(queue[s])
      /\ Service(d.client) = s /\ IsRequest(d) /\ d.client \in Clients
      /\ Tail(queue[s]) \in Seq(Datagrams) /\ Len(queue[s]) \in Nat
      /\ Len(Tail(queue[s])) = Len(queue[s]) - 1
      /\ \A i \in 1..Len(Tail(queue[s])) :
           Tail(queue[s])[i] = queue[s][i + 1] /\ i + 1 \in 1..Len(queue[s])
  BY <1>1, <1>3, HeadIs DEF Datagrams
<1>5. /\ Len(d.text) < BUFLEN
      /\ s = Echo => Begins(a.text, d.text) /\ (program # "UDPmultisvcd" => a.text = d.text)
  BY <1>4, EchoIs DEF Inv
<1>6. b \in [1..BUFLEN -> Cells] /\ b[BUFLEN] = Nul
  <2>1. d.text \in Seq(Cells)
    BY <1>4 DEF Datagrams
  <2> QED
    BY <1>2, <1>3, <1>5, <2>1, HandledIs
<1>7. a \in Datagrams /\ a.client = d.client
  BY <1>4, <1>6, AnswerIs
<1> HIDE DEF a, b, d, s
<1>8. /\ pc' \in [Procs -> PCs] /\ rfds' \in [Procs -> SUBSET Socks]
      /\ rfds'[p] = rfds[p] \ {s}
      /\ pc'[p] = IF rfds'[p] = {} THEN "select" ELSE "recv"
      /\ \A q \in Procs : q # p => pc'[q] = pc[q] /\ rfds'[q] = rfds[q]
  BY <1>1, <1>2 DEF PCs
<1>9. /\ queue'[s] = Tail(queue[s]) /\ \A t \in Socks : t # s => queue'[t] = queue[t]
      /\ queue' \in [Socks -> Seq(Datagrams)]
  BY <1>1, <1>2, <1>3, <1>4
<1>10. ServerTypes'
  BY <1>1, <1>8, Same DEF Inv, ServerTypes
<1>11. NetTypes' /\ Buffer'
  <2>1. Blank \in [1..BUFLEN -> Cells] /\ Blank[BUFLEN] = Nul
    BY ConstantsAssumption DEF Blank, Cells
  <2> QED
    BY <1>1, <1>2, <1>6, <1>7, <1>9, <2>1, Same DEF NetTypes, Buffer, Blank
<1>12. Roles'
  <2>1. \A q \in Procs : pc'[q] \in {"prefork", "fork", "reply", "close"} => pc'[q] = pc[q]
    BY <1>1, <1>8
  <2>2. \A q \in Procs : pc[q] \in {"fork", "reply"} => pc'[q] = pc[q]
    BY <1>1, <1>8
  <2> QED
    BY <1>1, <2>1, <2>2, ConstantsAssumption, Same DEF Inv, Roles, Procs, Root
<1>13. Loop'
  <2>1. program = "UDPmultisvcd" => p = Root
    BY <1>1 DEF Inv, Loop
  <2>2. ASSUME NEW q \in Procs, pc'[q] = "recv"
        PROVE  rfds'[q] # {}
    BY <1>1, <1>8, <2>2 DEF Inv, Loop
  <2>3. program = "UDPmultisvcd" => \A q \in Procs : q # Root => pc'[q] = "none"
    BY <1>8, <2>1 DEF Inv, Loop
  <2>4. program = "UDPmultisvcd" => \A t \in rfds'[Root] : queue'[t] # <<>>
    BY <1>2, <1>8, <1>9, <2>1 DEF Inv, Loop
  <2> QED
    BY <1>1, <2>2, <2>3, <2>4 DEF Loop
<1>14. Texts'
  <2>1. ASSUME NEW t \in Socks, NEW i \in 1..Len(queue'[t])
        PROVE  Service(queue'[t][i].client) = t /\ IsRequest(queue'[t][i])
    <3>1. CASE t = s
      <4>1. queue'[t][i] = queue[t][i + 1] /\ i + 1 \in 1..Len(queue[t])
        BY <1>4, <1>9, <3>1
      <4> QED
        BY <4>1 DEF Inv, Texts
    <3>2. CASE t # s
      BY <1>9, <3>2 DEF Inv, Texts
    <3> QED
      BY <3>1, <3>2
  <2>2. ASSUME NEW e \in wire', Service(e.client) = Echo, program = "exc_15_7"
        PROVE  IsRequest(e)
    <3>1. CASE e \in wire
      BY <2>2, <3>1 DEF Inv, Texts
    <3>2. CASE e = a
      BY <1>4, <1>5, <1>7, <2>2, <3>2 DEF IsRequest
    <3> QED
      BY <1>1, <3>1, <3>2
  <2> QED
    BY <1>1, <2>1, <2>2, Same DEF Texts
<1>15. InStepInv'
  <2> SUFFICES ASSUME NEW c \in Clients, Service(c) = Echo, c \notin gaveup
               PROVE  InStep(c)'
    BY <1>1, Same DEF InStepInv, clients
  <2>1. InStep(c) /\ UNCHANGED <<cpc, line>>
    BY <1>1 DEF Inv, InStepInv, clients
  <2>2. Line(c, line[c])' = Line(c, line[c])
    BY <1>1 DEF Line, Lengths, Service, clients
  <2>3. CASE s # Echo
    <3>1. queue'[Echo] = queue[Echo] /\ a.client # c
      BY <1>4, <1>7, <1>9, <2>3 DEF Socks
    <3> QED
      BY <1>1, <2>1, <2>2, <3>1 DEF InStep, Begins
  <2>4. CASE s = Echo /\ d.client # c
    <3>1. a.client # c
      BY <1>7, <2>4
    <3>2. \A i \in 1..Len(queue'[Echo]) :
            i \in Int /\ queue'[Echo][i] = queue[Echo][i + 1] /\ i + 1 \in 1..Len(queue[Echo])
      <4>1. queue'[Echo] = Tail(queue[s]) /\ Len(queue'[Echo]) \in Int
        BY <1>4, <1>9, <2>4
      <4> QED
        BY <1>4, <2>4, <4>1
    <3>3. \A e \in wire' : e.client = c => e \in wire
      BY <1>1, <3>1
    <3>4. ASSUME NEW i \in 1..Len(queue'[Echo]), queue'[Echo][i].client = c
          PROVE  /\ cpc[c] = "wait" /\ queue'[Echo][i].text = Line(c, line[c])
                 /\ \A e \in wire' : e.client # c
                 /\ \A j \in 1..Len(queue'[Echo]) : queue'[Echo][j].client = c => i = j
      <4>1. /\ cpc[c] = "wait" /\ queue[Echo][i + 1].text = Line(c, line[c])
            /\ \A e \in wire : e.client # c
            /\ \A j \in 1..Len(queue[Echo]) : queue[Echo][j].client = c => i + 1 = j
        BY <2>1, <3>2, <3>4 DEF InStep
      <4>2. ASSUME NEW j \in 1..Len(queue'[Echo]), queue'[Echo][j].client = c
            PROVE  i = j
        <5>1. i + 1 = j + 1
          BY <3>2, <4>1, <4>2
        <5> QED
          BY <3>2, <5>1
      <4> QED
        BY <3>2, <3>3, <4>1, <4>2
    <3> QED
      BY <2>1, <2>2, <3>3, <3>4 DEF InStep, Begins
  <2>5. CASE s = Echo /\ d.client = c
    <3>1. /\ cpc[c] = "wait" /\ d.text = Line(c, line[c]) /\ \A e \in wire : e.client # c
          /\ \A j \in 1..Len(queue[Echo]) : queue[Echo][j].client = c => 1 = j
      BY <1>4, <2>1, <2>5 DEF InStep
    <3>2. \A i \in 1..Len(queue'[Echo]) : queue'[Echo][i].client # c
      <4> TAKE i \in 1..Len(queue'[Echo])
      <4>1. queue'[Echo] = Tail(queue[s]) /\ Len(queue'[Echo]) \in Int
        BY <1>4, <1>9, <2>5
      <4>2. /\ i \in Int /\ i >= 1 /\ queue'[Echo][i] = queue[Echo][i + 1]
            /\ i + 1 \in 1..Len(queue[Echo])
        BY <1>4, <2>5, <4>1
      <4> QED
        BY <3>1, <4>2
    <3>3. Begins(a.text, Line(c, line[c]))
      BY <1>5, <2>5, <3>1
    <3> QED
      BY <1>1, <2>1, <2>2, <3>1, <3>2, <3>3 DEF InStep, Begins
  <2> QED
    BY <2>3, <2>4, <2>5
<1> QED
  BY <1>1, <1>10, <1>11, <1>12, <1>13, <1>14, <1>15, ClientsKept DEF Inv, ClientTypes

\* What is left of the queues, when the head of one is taken, holds the texts it held.
LEMMA TakenTexts ==
  ASSUME Inv, NEW s \in Socks, queue[s] # <<>>, UNCHANGED <<program, kind>>,
         program \notin Selecting, queue' = [queue EXCEPT ![s] = Tail(@)]
  PROVE  Texts' /\ queue' \in [Socks -> Seq(Datagrams)]
<1>1. queue \in [Socks -> Seq(Datagrams)]
  BY DEF Inv, NetTypes
<1>2. Tail(queue[s]) \in Seq(Datagrams)
  BY HeadIs
<1>3. /\ queue'[s] = Tail(queue[s]) /\ \A t \in Socks : t # s => queue'[t] = queue[t]
      /\ queue' \in [Socks -> Seq(Datagrams)]
  BY <1>1, <1>2
<1>4. ASSUME NEW t \in Socks, NEW i \in 1..Len(queue'[t])
      PROVE  Service(queue'[t][i].client) = t /\ IsRequest(queue'[t][i])
  <2>1. CASE t = s
    <3>1. queue'[t][i] = queue[t][i + 1] /\ i + 1 \in 1..Len(queue[t])
      BY <1>3, <2>1, HeadIs
    <3> QED
      BY <3>1 DEF Inv, Texts
  <2>2. CASE t # s
    BY <1>3, <2>2 DEF Inv, Texts
  <2> QED
    BY <2>1, <2>2
<1> QED
  <2>1. program' # "exc_15_7"
    BY DEF Selecting
  <2>2. /\ \A c : Service(c)' = Service(c)
        /\ \A d : IsRequest(d)' <=> IsRequest(d)
    BY Same
  <2>3. Texts'
    BY <1>4, <2>1, <2>2 DEF Texts
  <2> QED
    BY <1>3, <2>3

\* The only socket of the other servers, and the answer of TIME.
LEMMA TimeAnswer ==
  ASSUME NEW d \in Datagrams
  PROVE  Time \in Socks /\ Answer(d, Handled(Time, Blank)) \in Datagrams
<1>1. Blank \in [1..BUFLEN -> Cells] /\ Blank[BUFLEN] = Nul
  BY ConstantsAssumption DEF Blank, Cells
<1>2. <<>> \in Seq(Cells) /\ Len(<<>>) < BUFLEN /\ Time \in Socks
  BY ConstantsAssumption, EmptySeq DEF Socks
<1>3. Handled(Time, Blank) \in [1..BUFLEN -> Cells] /\ Handled(Time, Blank)[BUFLEN] = Nul
  BY <1>1, <1>2, HandledIs
<1> QED
  BY <1>2, <1>3, AnswerIs

\* A request for the time is taken and answered.
LEMMA ServeTimeStep ==
  ASSUME Inv, NEW p \in Procs, serveTime(p)
  PROVE  Inv'
<1>1. /\ queue[Time] # <<>> /\ program \in {"UDPtimed", "preallctn"}
      /\ queue' = [queue EXCEPT ![Time] = Tail(@)]
      /\ wire' = wire \cup {Answer(Head(queue[Time]), Handled(Time, Blank))}
      /\ UNCHANGED <<program, kind, server, clients, lost, faults>>
  BY DEF serveTime
<1>2. program \notin Selecting /\ Time \in Socks
  BY <1>1 DEF Selecting, Socks
<1>3. Texts' /\ queue' \in [Socks -> Seq(Datagrams)]
  BY <1>1, <1>2, TakenTexts
<1>4. wire' \subseteq Datagrams
  BY <1>1, <1>2, HeadIs, TimeAnswer DEF Inv, NetTypes
<1>5. ServerTypes' /\ NetTypes' /\ Buffer' /\ Roles' /\ Loop'
  BY <1>1, <1>2, <1>3, <1>4, Same
     DEF server, Inv, ServerTypes, NetTypes, Buffer, Roles, Loop, Selecting
<1> QED
  BY <1>1, <1>2, <1>3, <1>5, NoEcho, ClientsKept DEF Inv, ClientTypes

\* The root of the server that forks takes a request.
LEMMA RecvfromStep ==
  ASSUME Inv, recvfrom
  PROVE  Inv'
<1>1. /\ program = "fork" /\ pc[Root] = "recv" /\ pc' = [pc EXCEPT ![Root] = "fork"]
      /\ queue[Time] # <<>> /\ req' = [req EXCEPT ![Root] = {Head(queue[Time])}]
      /\ queue' = [queue EXCEPT ![Time] = Tail(@)]
      /\ UNCHANGED <<program, kind, l, rfds, buf, sigchld, wire, clients, lost, faults>>
  BY DEF recvfrom, Goto
<1>2. /\ program \notin Selecting /\ Time \in Socks /\ Root \in Procs
      /\ pc \in [Procs -> PCs] /\ req \in [Procs -> SUBSET Datagrams]
  BY <1>1, ConstantsAssumption DEF Selecting, Socks, Inv, ServerTypes, Procs, Root
<1>3. Texts' /\ queue' \in [Socks -> Seq(Datagrams)] /\ Head(queue[Time]) \in Datagrams
  BY <1>1, <1>2, TakenTexts, HeadIs
<1>4. /\ pc' \in [Procs -> PCs] /\ req' \in [Procs -> SUBSET Datagrams]
      /\ pc'[Root] = "fork" /\ req'[Root] = {Head(queue[Time])}
      /\ \A p \in Procs : p # Root => pc'[p] = pc[p] /\ req'[p] = req[p]
  BY <1>1, <1>2, <1>3 DEF PCs
<1>5. ServerTypes' /\ NetTypes' /\ Buffer'
  BY <1>1, <1>3, <1>4, Same DEF Inv, ServerTypes, NetTypes, Buffer
<1>6. Roles' /\ Loop'
  BY <1>1, <1>2, <1>4, Same DEF Inv, Roles, Loop, Selecting
<1> QED
  BY <1>1, <1>2, <1>3, <1>5, <1>6, NoEcho, ClientsKept DEF Inv, ClientTypes

\* It forks a slave for the request.
LEMMA ForkStep ==
  ASSUME Inv, NEW s \in Procs, fork(s)
  PROVE  Inv'
<1>1. /\ pc[Root] = "fork" /\ pc[s] = "none"
      /\ pc' = [pc EXCEPT ![Root] = "recv", ![s] = "reply"]
      /\ req' = [req EXCEPT ![s] = req[Root], ![Root] = {}]
      /\ UNCHANGED <<program, kind, l, rfds, buf, sigchld, network, clients, lost, faults>>
  BY DEF fork
<1>2. /\ program = "fork" /\ program \notin Selecting /\ Root \in Procs /\ s # Root
      /\ pc \in [Procs -> PCs] /\ req \in [Procs -> SUBSET Datagrams]
  BY <1>1, ConstantsAssumption DEF Selecting, Inv, Roles, ServerTypes, Procs, Root
<1>3. /\ pc' \in [Procs -> PCs] /\ req' \in [Procs -> SUBSET Datagrams]
      /\ pc'[Root] = "recv" /\ req'[Root] = {} /\ pc'[s] = "reply" /\ req'[s] = req[Root]
      /\ \A p \in Procs : p # Root /\ p # s => pc'[p] = pc[p] /\ req'[p] = req[p]
  BY <1>1, <1>2 DEF PCs
<1>4. ServerTypes' /\ NetTypes' /\ Buffer'
  BY <1>1, <1>3, Same DEF Inv, ServerTypes, NetTypes, Buffer, network
<1>5. Roles'
  <2>1. req[Root] # {} => \E d \in req[Root] : req[Root] = {d}
    BY <1>2 DEF Inv, Roles
  <2> QED
    BY <1>1, <1>2, <1>3, <2>1 DEF Inv, Roles
<1>6. Loop' /\ Texts'
  BY <1>1, <1>2, FewerTexts DEF Inv, Loop, Selecting, network
<1> QED
  BY <1>1, <1>2, <1>4, <1>5, <1>6, NoEcho, ClientsKept DEF Inv, ClientTypes

\* It cannot, and forgets the request.
LEMMA ForkFailsStep ==
  ASSUME Inv, fork_fails
  PROVE  Inv'
<1>1. /\ pc[Root] = "fork" /\ pc' = [pc EXCEPT ![Root] = "recv"]
      /\ UNCHANGED faults \/ Fault
      /\ lost' = lost \cup Losers(req[Root]) /\ req' = [req EXCEPT ![Root] = {}]
      /\ UNCHANGED <<program, kind, l, rfds, buf, sigchld, network, clients>>
  BY DEF fork_fails, Goto
<1>2. /\ program = "fork" /\ program \notin Selecting /\ Root \in Procs
      /\ pc \in [Procs -> PCs] /\ req \in [Procs -> SUBSET Datagrams] /\ lost \subseteq Clients
  BY <1>1, ConstantsAssumption DEF Selecting, Inv, Roles, ServerTypes, ClientTypes, Procs, Root
<1>3. /\ pc' \in [Procs -> PCs] /\ req' \in [Procs -> SUBSET Datagrams]
      /\ pc'[Root] = "recv" /\ req'[Root] = {}
      /\ \A p \in Procs : p # Root => pc'[p] = pc[p] /\ req'[p] = req[p]
  BY <1>1, <1>2 DEF PCs
<1>4. faults' \in 0..Faults
  BY <1>1, ConstantsAssumption DEF Inv, ServerTypes, Fault
<1>5. ServerTypes' /\ NetTypes' /\ Buffer'
  BY <1>1, <1>3, <1>4, Same DEF Inv, ServerTypes, NetTypes, Buffer, network
<1>6. Roles'
  BY <1>1, <1>2, <1>3 DEF Inv, Roles
<1>7. Loop' /\ Texts'
  BY <1>1, <1>2, FewerTexts DEF Inv, Loop, Selecting, network
<1>8. lost' \subseteq Clients
  BY <1>1, <1>2, LosersAre
<1> QED
  BY <1>1, <1>2, <1>5, <1>6, <1>7, <1>8, NoEcho, ClientsKept DEF Inv

\* A slave answers.
LEMMA ReplyStep ==
  ASSUME Inv, NEW s \in Procs, reply(s)
  PROVE  Inv'
<1>1. /\ pc[s] = "reply" /\ pc' = [pc EXCEPT ![s] = "close"]
      /\ wire' = wire \cup {Answer(d, Handled(Time, Blank)) : d \in req[s]}
      /\ req' = [req EXCEPT ![s] = {}]
      /\ UNCHANGED <<program, kind, l, rfds, buf, sigchld, queue, clients, lost, faults>>
  BY DEF reply, Goto
<1>2. /\ program = "fork" /\ program \notin Selecting
      /\ pc \in [Procs -> PCs] /\ req \in [Procs -> SUBSET Datagrams]
  BY <1>1 DEF Selecting, Inv, Roles, ServerTypes
<1>3. /\ pc' \in [Procs -> PCs] /\ req' \in [Procs -> SUBSET Datagrams]
      /\ pc'[s] = "close" /\ req'[s] = {}
      /\ \A p \in Procs : p # s => pc'[p] = pc[p] /\ req'[p] = req[p]
  BY <1>1, <1>2 DEF PCs
<1>4. wire' \subseteq Datagrams
  BY <1>1, <1>2, TimeAnswer DEF Inv, NetTypes
<1>5. ServerTypes' /\ NetTypes' /\ Buffer'
  BY <1>1, <1>3, <1>4, Same DEF Inv, ServerTypes, NetTypes, Buffer
<1>6. Roles'
  BY <1>1, <1>2, <1>3, ConstantsAssumption DEF Inv, Roles, Procs, Root
<1>7. Loop' /\ Texts'
  BY <1>1, <1>2, Same DEF Inv, Loop, Texts, Selecting
<1> QED
  BY <1>1, <1>2, <1>5, <1>6, <1>7, NoEcho, ClientsKept DEF Inv, ClientTypes

\* A process ends, and what it had received, or the sockets of the last one hold, is lost.
LEMMA EndStep ==
  ASSUME Inv, NEW p \in Procs, Ends(p), sigchld' \in BOOLEAN, faults' \in 0..Faults,
         pc[p] \notin {"none", "zombie", "dead"}
  PROVE  Inv'
<1> DEFINE last    == Live = {p}
           dropped == req[p] \cup (IF last THEN UNION {ToSet(queue[s]) : s \in Socks} ELSE {})
<1>1. /\ pc' = [q \in Procs |->
                  CASE q = p -> IF p = Root THEN "dead"
                                ELSE IF pc[Root] = "dead" THEN "none" ELSE "zombie"
                    [] q # p -> IF p = Root /\ pc[q] = "zombie" THEN "none" ELSE pc[q]]
      /\ req' = [req EXCEPT ![p] = {}] /\ rfds' = [rfds EXCEPT ![p] = {}]
      /\ lost' = lost \cup Losers(dropped)
      /\ queue' = IF last THEN [s \in Socks |-> <<>>] ELSE queue
      /\ UNCHANGED <<program, kind, l, buf, wire, clients>>
  BY DEF Ends
<1>2. /\ pc \in [Procs -> PCs] /\ rfds \in [Procs -> SUBSET Socks]
      /\ req \in [Procs -> SUBSET Datagrams] /\ queue \in [Socks -> Seq(Datagrams)]
      /\ lost \subseteq Clients /\ Root \in Procs /\ Echo \in Socks
  BY ConstantsAssumption DEF Inv, ServerTypes, NetTypes, ClientTypes, Procs, Root, Socks
<1>3. lost' \subseteq Clients
  <2>1. \A s \in Socks : ToSet(queue[s]) \subseteq Datagrams
    <3> SUFFICES ASSUME NEW s \in Socks, NEW e \in ToSet(queue[s]) PROVE e \in Datagrams
      OBVIOUS
    <3>1. queue[s] \in Seq(Datagrams)
      BY <1>2
    <3>2. PICK i \in 1..Len(queue[s]) : e = queue[s][i]
      BY <3>1, LenProperties DEF ToSet
    <3> QED
      BY <3>1, <3>2, ElementOfSeq
  <2>2. dropped \subseteq Datagrams
    BY <1>2, <2>1
  <2>3. Losers(dropped) \subseteq Clients
    BY <2>2, LosersAre
  <2> HIDE DEF dropped
  <2> QED
    BY <1>1, <1>2, <2>3
<1>4. queue' = queue \/ queue' = [s \in Socks |-> <<>>]
  BY <1>1
<1> HIDE DEF dropped, last
<1>5. /\ pc'[p] \in {"dead", "none", "zombie"} /\ rfds'[p] = {} /\ req'[p] = {}
      /\ \A q \in Procs : q # p => /\ pc'[q] = pc[q] \/ (pc[q] = "zombie" /\ pc'[q] = "none")
                                   /\ rfds'[q] = rfds[q] /\ req'[q] = req[q]
  BY <1>1, <1>2
<1>6. pc' \in [Procs -> PCs]
  <2>1. \A q \in Procs : pc'[q] \in PCs
    BY <1>2, <1>5 DEF PCs
  <2> QED
    BY <1>1, <2>1
<1>7. ServerTypes'
  BY <1>1, <1>2, <1>6, Same DEF Inv, ServerTypes
<1>8. NetTypes' /\ Buffer'
  <2>1. queue' \in [Socks -> Seq(Datagrams)]
    BY <1>2, <1>4, EmptySeq
  <2> QED
    BY <1>1, <2>1, Same DEF Inv, NetTypes, Buffer
<1>9. Roles'
  BY <1>1, <1>2, <1>5 DEF Inv, Roles
<1>10. Loop'
  <2>1. \A q \in Procs : program \in Selecting /\ pc'[q] = "recv" => rfds'[q] # {}
    BY <1>5 DEF Inv, Loop
  <2>2. program = "UDPmultisvcd" => p = Root
    BY DEF Inv, Loop
  <2>3. program = "UDPmultisvcd" => \A q \in Procs : q # Root => pc'[q] = "none"
    BY <1>5, <2>2 DEF Inv, Loop
  <2>4. program = "UDPmultisvcd" => rfds'[Root] = {}
    BY <1>5, <2>2
  <2> QED
    BY <1>1, <2>1, <2>3, <2>4 DEF Loop
<1>11. CASE queue' = queue
  <2>1. Texts' /\ InStepInv'
    BY <1>1, <1>11, FewerTexts, FewerInStep DEF Inv, clients
  <2> QED
    BY <1>1, <1>3, <1>7, <1>8, <1>9, <1>10, <2>1, ClientsKept DEF Inv
<1>12. CASE queue' = [s \in Socks |-> <<>>]
  <2>1. \A s \in Socks : Len(queue'[s]) = 0
    BY <1>12
  <2>2. Texts'
    BY <1>1, <2>1, Same DEF Inv, Texts
  <2>3. InStepInv'
    BY <1>1, <1>2, <1>12, FewerInStep DEF Inv, clients
  <2> QED
    BY <1>1, <1>3, <1>7, <1>8, <1>9, <1>10, <2>2, <2>3, ClientsKept DEF Inv
<1> QED
  BY <1>4, <1>11, <1>12

\* The steps in which a process ends.
LEMMA EndSteps ==
  ASSUME Inv, \/ prefork_fails \/ sendto_fails
              \/ \E p \in Procs : slave_ends(p) \/ killed(p)
              \/ reaper /\ Ends(Root)
  PROVE  Inv'
<1>1. Root \in Procs /\ sigchld \in BOOLEAN /\ faults \in 0..Faults /\ Faults \in Nat
  BY ConstantsAssumption DEF Inv, ServerTypes, Procs, Root
<1>2. CASE prefork_fails
  <2>1. Ends(Root) /\ pc[Root] = "prefork" /\ sigchld' \in BOOLEAN /\ faults' \in 0..Faults
    BY <1>1, <1>2 DEF prefork_fails, Fault
  <2> QED
    BY <1>1, <2>1, EndStep
<1>3. CASE sendto_fails
  <2>1. Ends(Root) /\ pc[Root] = "recv" /\ sigchld' \in BOOLEAN /\ faults' \in 0..Faults
    BY <1>1, <1>3 DEF sendto_fails
  <2> QED
    BY <1>1, <2>1, EndStep
<1>4. ASSUME NEW p \in Procs, slave_ends(p)
      PROVE  Inv'
  <2>1. Ends(p) /\ pc[p] = "close" /\ sigchld' \in BOOLEAN /\ faults' \in 0..Faults
    BY <1>1, <1>4 DEF slave_ends
  <2> QED
    BY <2>1, EndStep
<1>5. ASSUME NEW p \in Procs, killed(p)
      PROVE  Inv'
  <2>1. Ends(p) /\ pc[p] \notin {"none", "zombie", "dead"} /\ sigchld' \in BOOLEAN
        /\ faults' \in 0..Faults
    BY <1>1, <1>5 DEF killed, Fault, Live
  <2> QED
    BY <2>1, EndStep
<1>6. CASE reaper /\ Ends(Root)
  <2>1. /\ pc[Root] \notin {"none", "zombie", "dead"} /\ sigchld' \in BOOLEAN
        /\ faults' \in 0..Faults
    BY <1>1, <1>6 DEF reaper, Live
  <2> QED
    BY <1>1, <1>6, <2>1, EndStep
<1> QED
  BY <1>2, <1>3, <1>4, <1>5, <1>6

\* The reaper takes the zombies.
LEMMA ReaperStep ==
  ASSUME Inv, reaper, ~Ends(Root)
  PROVE  Inv'
<1>1. /\ sigchld' = FALSE
      /\ pc' = [p \in Procs |-> IF pc[p] = "zombie" THEN "none" ELSE pc[p]]
      /\ UNCHANGED <<program, kind, l, rfds, buf, req, network, clients, lost, faults>>
  BY DEF reaper
<1>2. pc \in [Procs -> PCs] /\ Root \in Procs
  BY ConstantsAssumption DEF Inv, ServerTypes, Procs, Root
<1>3. /\ pc' \in [Procs -> PCs]
      /\ \A p \in Procs : pc'[p] = pc[p] \/ (pc[p] = "zombie" /\ pc'[p] = "none")
  BY <1>1, <1>2 DEF PCs
<1>4. ServerTypes' /\ NetTypes' /\ Buffer'
  BY <1>1, <1>3, Same DEF Inv, ServerTypes, NetTypes, Buffer, network
<1>5. Roles' /\ Loop'
  BY <1>1, <1>2, <1>3, Same DEF Inv, Roles, Loop, network
<1>6. Texts' /\ InStepInv'
  BY <1>1, FewerTexts, FewerInStep DEF Inv, network, clients
<1> QED
  BY <1>1, <1>4, <1>5, <1>6, ClientsKept DEF Inv, ClientTypes

\* Every step preserves the invariant.
LEMMA NextInv == Inv /\ [Next]_vars => Inv'
<1> SUFFICES ASSUME Inv, [Next]_vars PROVE Inv'
  OBVIOUS
<1>1. ASSUME NEW c \in Clients, ClientStep(c)
      PROVE  Inv'
  <2>1. CASE write(c)
    BY <2>1, SendStep, ReadFailsStep
  <2>2. CASE timeout_retry(c) \/ timeout_next(c) \/ timeout_exit(c)
    BY <2>2, TimeoutStep
  <2>3. CASE \E d \in wire : read(c, d)
    BY <2>3, ReadStep
  <2> QED
    BY <1>1, <2>1, <2>2, <2>3 DEF ClientStep
<1>2. ASSUME NEW p \in Procs, ProcStep(p) \/ killed(p)
      PROVE  Inv'
  <2>1. CASE select(p) \/ serve(p)
    BY <2>1, SelectStep, ServeStep
  <2>2. CASE serveTime(p) \/ reply(p)
    BY <2>2, ServeTimeStep, ReplyStep
  <2>3. CASE slave_ends(p) \/ killed(p)
    BY <2>3, EndSteps
  <2> QED
    BY <1>2, <2>1, <2>2, <2>3 DEF ProcStep
<1>3. CASE RootStep \/ prefork_fails \/ reaper
  <2>1. CASE prefork \/ recvfrom \/ fork_fails
    BY <2>1, PreforkStep, RecvfromStep, ForkFailsStep
  <2>2. CASE \E s \in Procs : fork(s)
    BY <2>2, ForkStep
  <2>3. CASE sendto_fails \/ prefork_fails
    BY <2>3, EndSteps
  <2>4. CASE reaper
    BY <2>4, ReaperStep, EndSteps
  <2> QED
    BY <1>3, <2>1, <2>2, <2>3, <2>4 DEF RootStep
<1>4. CASE \E d \in wire : lose(d)
  BY <1>4, LoseStep
<1>5. CASE UNCHANGED vars
  <2>1. UNCHANGED <<program, kind, pc, l, rfds, buf, req, sigchld, queue, wire,
                    cpc, line, retry, gaveup, lost, faults>>
    BY <1>5 DEF vars
  <2>2. Static' /\ ServerTypes' /\ NetTypes' /\ Roles' /\ Loop' /\ Buffer'
    BY <2>1, Same DEF Inv, ServerTypes, NetTypes, Roles, Loop, Buffer
  <2>3. Texts' /\ InStepInv' /\ ClientTypes'
    BY <2>1, FewerTexts, FewerInStep, ClientsKept DEF Inv, ClientTypes, clients
  <2> QED
    BY <2>2, <2>3 DEF Inv
<1> QED
  BY <1>1, <1>2, <1>3, <1>4, <1>5 DEF Next

-----------------------------------------------------------------------------
(* What follows. *)

\* Every server, whatever its clients do and whatever is lost: the types are right, a
\* request in hand is one and of a process that answers it, and UDPmultisvcd never blocks
\* in recvfrom, for every socket that its loop still has to serve has a request.
THEOREM RecvNeverBlocks == Spec => []RecvInv
<1>1. Inv => RecvInv
  <2> SUFFICES ASSUME Inv PROVE RecvInv
    OBVIOUS
  <2>1. \A p \in Procs : Cardinality(req[p]) <= 1
    <3> TAKE p \in Procs
    <3>1. req[p] = {} \/ \E d \in req[p] : req[p] = {d}
      BY DEF Inv, Roles
    <3> QED
      BY <3>1, FS_EmptySet, FS_Singleton
  <2>2. \A s \in Socks : \A d \in ToSet(queue[s]) : Service(d.client) = s
    <3> SUFFICES ASSUME NEW s \in Socks, NEW d \in ToSet(queue[s]) PROVE Service(d.client) = s
      OBVIOUS
    <3>1. PICK i \in 1..Len(queue[s]) : d = queue[s][i]
      BY LenProperties DEF Inv, NetTypes, ToSet
    <3> QED
      BY <3>1 DEF Inv, Texts
  <2>3. TypeOK
    BY <2>1, <2>2 DEF Inv, Static, ServerTypes, NetTypes, ClientTypes, Roles, TypeOK, PCs, CPCs
  <2>4. RecvReady
    <3> SUFFICES ASSUME program = "UDPmultisvcd", pc[Root] = "recv",
                        NEW s \in {sock(Root)} \cup rfds[Root]
                 PROVE  queue[s] # <<>>
      BY DEF RecvReady
    <3>1. Root \in Procs /\ program \in Selecting
      BY ConstantsAssumption DEF Procs, Root, Selecting
    <3>2. rfds[Root] # {}
      BY <3>1 DEF Inv, Loop
    <3> QED
      BY <3>1, <3>2, SockIs DEF Inv, Loop
  <2> QED
    BY <2>3, <2>4 DEF RecvInv
<1> QED
  BY <1>1, InitInv, NextInv, PTL DEF Spec

\* What an ECHO client takes of an answer that begins with its line is that line.
LEMMA TakenIs ==
  ASSUME Inv, NEW c \in Clients, Service(c) = Echo, NEW text \in Seq(Cells)
  PROVE  /\ Begins(text, Line(c, line[c])) => Taken(c, text) = Line(c, line[c])
         /\ (\E n \in 1..Len(Lengths(c)) : text = Line(c, n)) =>
              \A i \in DOMAIN Taken(c, text) : Taken(c, text)[i] \in {c} \X Nat
<1> DEFINE w == Line(c, line[c])
<1>1. w \in Seq(Cells) /\ Len(w) \in Nat /\ Len(w) >= 1 /\ Len(text) \in Nat
  BY LineIs, LenProperties, ConstantsAssumption DEF Inv, ClientTypes
<1>2. Taken(c, text) = IF Len(text) > Len(w) THEN SubSeq(text, 1, Len(w)) ELSE text
  BY DEF Taken
<1> HIDE DEF w
<1>3. CASE Len(text) > Len(w)
  <2>1. \A i \in 1..Len(w) : text[i] \in Cells
    BY <1>1, <1>3, ElementOfSeq
  <2>2. /\ Taken(c, text) \in Seq(Cells) /\ Len(Taken(c, text)) = Len(w)
        /\ \A i \in 1..Len(w) : Taken(c, text)[i] = text[i]
    BY <1>1, <1>2, <1>3, <2>1, SubSeqProperties
  <2>3. Begins(text, w) => Taken(c, text) = w
    BY <1>1, <2>2, SeqEqual DEF Begins
  <2>4. ASSUME NEW n \in 1..Len(Lengths(c)), text = Line(c, n)
        PROVE  \A i \in DOMAIN Taken(c, text) : Taken(c, text)[i] \in {c} \X Nat
    <3>1. \A i \in 1..Len(text) : text[i] \in {c} \X Nat
      BY <2>4, LineIs DEF Inv
    <3>2. DOMAIN Taken(c, text) = 1..Len(w)
      BY <2>2, LenProperties
    <3> QED
      BY <1>1, <1>3, <2>2, <3>1, <3>2
  <2> QED
    BY <2>3, <2>4 DEF w
<1>4. CASE ~(Len(text) > Len(w))
  <2>1. Taken(c, text) = text
    BY <1>2, <1>4
  <2>2. Begins(text, w) => text = w
    BY <1>1, <1>4, SeqEqual DEF Begins
  <2>3. ASSUME NEW n \in 1..Len(Lengths(c)), text = Line(c, n)
        PROVE  \A i \in DOMAIN text : text[i] \in {c} \X Nat
    BY <2>3, LineIs, LenProperties DEF Inv
  <2> QED
    BY <2>1, <2>2, <2>3 DEF w
<1> QED
  BY <1>3, <1>4

\* An ECHO client that has never given up waiting reads, for each of its lines, that line,
\* and one that has reads nothing but its own lines from the server that clears its buffer.
THEOREM ClientsInStep == Spec => EchoInStep
<1> DEFINE Right(c, d) ==
             /\ Taken(c, d.text) # Line(c, line[c]) => c \in gaveup
             /\ program = "exc_15_7"
                => \A i \in DOMAIN Taken(c, d.text) : Taken(c, d.text)[i] \in {c} \X Nat
<1>1. ASSUME Inv, [Next]_vars, NEW c \in Clients, NEW d \in wire \ wire', Takes(c, d)
      PROVE  Right(c, d)
  <2>1. Service(c) = Echo /\ d.client = c /\ d \in wire /\ d.text \in Seq(Cells)
    BY <1>1 DEF Takes, Inv, NetTypes, Datagrams
  <2>2. c \notin gaveup => Begins(d.text, Line(c, line[c]))
    BY <2>1, <1>1 DEF Inv, InStepInv, InStep
  <2>3. program = "exc_15_7" => \E n \in 1..Len(Lengths(c)) : d.text = Line(c, n)
    BY <2>1, <1>1 DEF Inv, Texts, IsRequest
  <2> QED
    BY <1>1, <2>1, <2>2, <2>3, TakenIs
<1>2. Inv /\ [Next]_vars => [\A c \in Clients : \A d \in wire \ wire' :
                               Takes(c, d) => Right(c, d)]_vars
  BY <1>1
<1> QED
  BY <1>2, InitInv, NextInv, PTL DEF Spec, EchoInStep
=============================================================================
