--------------------------- MODULE TcpServicesProofs ---------------------------
(***************************************************************************)
(* Proofs about TcpServices, for all ten servers, any clients of the kinds *)
(* a server has a socket for, and any number of descriptors, table         *)
(* entries and failures.                                                   *)
(***************************************************************************)
EXTENDS TcpServices, SequenceTheorems, FiniteSetTheorems, TLAPS

Writers == {"TCPecho", "TCPchargen2", "TCPtime", "TCP_xdr_client"}
ReadOn  == {"TCPdaytime", "TCPchargen", "exc_10_6"}
Entries == 1..TABLE_LEN

\* The types of the variables.
ServerTypes ==
  /\ program \in Programs /\ kind \in [Clients -> DOMAIN Service]
  /\ mpc \in {"select", "serve", "post", "recv", "dead"} /\ rfds \subseteq Socks \cup FDs
  /\ afds \subseteq FDs /\ fd2svc \in [FDs -> {0, Echo, Chargen, Time}]
  /\ fd \in [Clients -> {0} \cup FDs]
  /\ slave \in [Clients -> {"none", "running", "zombie", "reaped"}] /\ sigchld \in BOOLEAN
TableTypes ==
  /\ ConnTable \in [Entries -> [port : Int, closeTm : Nat]] /\ now \in 1..MaxTime
  /\ stored \in [Clients -> Nat] /\ refused \subseteq Clients
WireTypes ==
  /\ backlog \in [1..Udp -> Seq(Clients)]
  /\ conn \in [Clients -> {"new", "queued", "open", "closed"}]
  /\ sent \in [Clients -> BOOLEAN] /\ answers \in [Clients -> 0..1] /\ broken \subseteq Gone
ClientTypes ==
  /\ cpc \in [Clients -> {"connect", "write", "read", "end", "killed"}]
  /\ round \in [Clients -> 0..Rounds] /\ got \in [Clients -> 0..Rounds]
  /\ gaveup \subseteq Clients /\ lost \subseteq Clients /\ faults \in 0..Faults
Types == ServerTypes /\ TableTypes /\ WireTypes /\ ClientTypes

\* A client asks a server that has a socket for it, and only after it has connected.  One
\* that asks is answered once for each request, the others once.
Asking(c) ==
  /\ Service[kind[c]] \in Socks
  /\ cpc[c] = "connect" => conn[c] = "new" /\ answers[c] = 0 /\ got[c] = 0 /\ ~sent[c]
  /\ sent[c] => kind[c] \in Writers /\ answers[c] = 0 /\ cpc[c] \in {"read", "end", "killed"}
  /\ cpc[c] = "write" => kind[c] \in Writers /\ answers[c] = 0
  /\ kind[c] \notin Writers => got[c] + answers[c] <= 1
  /\ kind[c] \notin ReadOn => got[c] + round[c] <= Rounds
  /\ kind[c] \notin {"TCPecho", "TCPchargen2"} => round[c] <= 1
  /\ cpc[c] \in {"connect", "write", "read"} => round[c] > 0

\* What the server has of a client: nothing before it is accepted, a descriptor or a slave
\* of an open connection only, and in most servers no descriptor.
Held(c) ==
  /\ kind[c] = "UDPdaytime" => conn[c] = "new"
  /\ (kind[c] # "UDPdaytime" /\ conn[c] \in {"new", "queued"}) =>
       answers[c] = 0 /\ got[c] = 0 /\ stored[c] = 0
  /\ fd[c] # 0 =>
       /\ conn[c] = "open" /\ stored[c] = 0 /\ mpc # "dead"
       /\ program \in {"TCPmdaytimed", "exc_14_3", "exc_10_5", "exc_10_7", "TCP_xdr_server"}
       /\ program = "TCPmdaytimed" => answers[c] = 0 /\ got[c] = 0
       /\ program = "exc_14_3" => fd2svc[fd[c]] = Service[kind[c]]
       /\ program = "TCP_xdr_server" => mpc = "recv" /\ rfds = {fd[c]}
       /\ program = "exc_10_7" => got[c] + answers[c] > 0 \/ c \in Gone
  /\ slave[c] = "running" =>
       conn[c] = "open" /\ program = "exc_13_1" /\ answers[c] = 0 /\ got[c] = 0

\* Why a client whose connection was closed may be without an answer.
Excused(c) == \/ mpc = "dead"
              \/ kind[c] = "TCPdaytime" /\ \/ program = "exc_13_5" /\ c \notin Authorised
                                           \/ c \in refused
              \/ kind[c] = "TCP_xdr_client" /\ c \in gaveup

\* The ends of a client and of its connection.
Ending(c) ==
  /\ (kind[c] = "TCPdaytime" /\ cpc[c] = "end") => conn[c] \in {"new", "closed"}
  /\ kind[c] \in {"TCPdaytime", "TCP_xdr_client"} =>
       /\ conn[c] = "closed" => got[c] + answers[c] > 0 \/ c \in Gone \/ Excused(c)
       /\ (cpc[c] = "end" /\ conn[c] # "new") => got[c] > 0 \/ Excused(c)
  /\ (cpc[c] = "end" /\ sent[c]) => conn[c] = "closed" \/ kind[c] = "TCP_xdr_client"
  /\ (c \in broken /\ program = "exc_14_3") => cpc[c] = "killed" \/ conn[c] = "closed"

\* A client waits at one socket, the one it asked, and once; nobody at a dead server.
Queues ==
  \A s \in 1..Udp :
    /\ mpc = "dead" => backlog[s] = <<>>
    /\ \A i \in 1..Len(backlog[s]) :
         /\ s = Service[kind[backlog[s][i]]] /\ cpc[backlog[s][i]] # "connect"
         /\ s # Udp => conn[backlog[s][i]] = "queued"
         /\ s = Udp => answers[backlog[s][i]] = 0 /\ got[backlog[s][i]] = 0
         /\ \A j \in 1..Len(backlog[s]) : backlog[s][i] = backlog[s][j] => i = j

\* What select found, the connections it watches, and who has their descriptors.
Watched ==
  /\ \A c, d \in Clients : (fd[c] = fd[d] /\ fd[c] # 0) => c = d
  /\ mpc = "serve" => \A s \in rfds : s \in 1..Udp => backlog[s] # <<>>
  /\ mpc = "recv" => program = "TCP_xdr_server" /\ rfds \subseteq FDs
  /\ mpc = "post" => program = "exc_10_7" /\ rfds \subseteq FDs
  /\ afds # {} => program \in {"TCPmdaytimed", "exc_14_3"}
  /\ mpc # "dead" => \A f \in afds : \E c \in Clients : fd[c] = f

\* Each entry of ConnTable that has a time has it from a client of its own.
Timed == {i \in Entries : ConnTable[i].closeTm # 0}
Table == /\ \A i \in Entries : ConnTable[i].closeTm <= now
         /\ \A c \in Clients : stored[c] <= now
         /\ \E w \in [Timed -> Clients] :
              /\ \A i \in Timed : stored[w[i]] = ConnTable[i].closeTm
              /\ \A i, j \in Timed : w[i] = w[j] => i = j

Inv == /\ Types /\ Queues /\ Watched /\ Table
       /\ \A c \in Clients : Asking(c) /\ Held(c) /\ Ending(c)
-----------------------------------------------------------------------------
\* The socket of each kind of client.
LEMMA Services ==
  /\ DOMAIN Service = DaytimeKinds \cup {"TCPecho", "TCPchargen", "TCPchargen2", "TCPtime",
                                         "UDPdaytime", "TCP_xdr_client"}
  /\ \A k \in DOMAIN Service :
       /\ Service[k] \in 1..6
       /\ Service[k] = 6 <=> k = "UDPdaytime"
       /\ Service[k] = 5 <=> k = "TCP_xdr_client"
       /\ Service[k] = 3 <=> k \in DaytimeKinds
       /\ Service[k] = 4 <=> k = "TCPtime"
  BY DEF Service, DaytimeKinds, Echo, Chargen, Daytime, Time, Xdr, Udp

\* The sockets of each server.
LEMMA Sockets ==
  ASSUME program \in Programs
  PROVE  /\ Socks \subseteq 1..6
         /\ program = "exc_14_3" => Socks = {1, 2, 3, 4}
         /\ program = "TCP_xdr_server" => Socks = {5}
         /\ program \in {"daytimed", "exc_13_1", "exc_13_5"} => Socks = {3, 6}
         /\ program = "exc_13_4" => Socks = {6}
         /\ program \in {"TCPmdaytimed", "TCPdaytimed", "exc_10_5", "exc_10_7"} => Socks = {3}
  BY DEF Socks, Programs, Iterative, Echo, Chargen, Daytime, Time, Xdr, Udp

\* A set of numbers that is not empty has a first one.
LEMMA FirstIs ==
  ASSUME NEW S \in SUBSET Nat, S # {}
  PROVE  First(S) \in S /\ \A x \in S : First(S) <= x
<1> DEFINE R == OpToRel(<, Nat)
<1>1. \A x, y \in Nat : x < y => <<x, y>> \in R
  BY DEF OpToRel
<1> HIDE DEF R
<1>2. \E x \in S : \A y \in S : ~(<<y, x>> \in R)
  BY NatLessThanWellFounded, WFMin DEF R
<1>3. \E x \in S : \A y \in S : x <= y
  <2>1. PICK x \in S : \A y \in S : ~(<<y, x>> \in R)
    BY <1>2
  <2>2. \A y \in S : ~(y < x)
    BY <1>1, <2>1
  <2>3. \A y \in S : x <= y
    BY <2>2
  <2> QED
    BY <2>3
<1> QED
  BY <1>3 DEF First

\* The constants, and the numbers of the sockets.
LEMMA Numbers ==
  /\ Rounds \in Nat \ {0} /\ NFD \in Nat \ {0} /\ TABLE_LEN \in Nat \ {0}
  /\ MinSlot \in Nat \ {0} /\ MaxTime \in Nat \ {0} /\ Faults \in Nat
  /\ FDs \subseteq Nat /\ \A f \in FDs : f > 6
  /\ Udp = 6 /\ Xdr = 5 /\ Time = 4 /\ Daytime = 3 /\ Chargen = 2 /\ Echo = 1
<1>1. {Rounds, NFD, TABLE_LEN, MinSlot, MaxTime} \subseteq Nat \ {0} /\ Faults \in Nat
  BY ConstantsAssumption
<1> QED
  BY <1>1 DEF FDs, Udp, Xdr, Time, Daytime, Chargen, Echo

\* What waits at a socket is a client.
LEMMA InQueue ==
  ASSUME Types
  PROVE  /\ \A s \in 1..6 : backlog[s] \in Seq(Clients) /\ Len(backlog[s]) \in Nat
         /\ \A s \in 1..6 : \A i \in 1..Len(backlog[s]) : backlog[s][i] \in Clients
<1>1. \A s \in 1..6 : backlog[s] \in Seq(Clients)
  BY Numbers DEF Types, WireTypes
<1> QED
  BY <1>1, LenProperties, ElementOfSeq

\* Client d is as it was, and what others do to it only lets it end.
Same(d) == /\ cpc'[d] = cpc[d] /\ round'[d] = round[d] /\ got'[d] = got[d]
           /\ answers'[d] = answers[d] /\ sent'[d] = sent[d] /\ conn'[d] = conn[d]
           /\ fd'[d] = fd[d] /\ slave'[d] = slave[d] /\ stored'[d] = stored[d]
           /\ d \in broken' => d \in broken
Onward  == /\ UNCHANGED <<program, kind>> /\ refused \subseteq refused'
           /\ gaveup \subseteq gaveup' /\ (mpc = "dead" => mpc' = "dead")

\* A client that a step leaves alone.
LEMMA KeptClient ==
  ASSUME Inv, Onward, NEW d \in Clients, Same(d),
         fd[d] # 0 => /\ mpc' # "dead"
                      /\ program = "exc_14_3" => fd2svc'[fd[d]] = fd2svc[fd[d]]
                      /\ program = "TCP_xdr_server" => mpc' = mpc /\ rfds' = rfds
  PROVE  Asking(d)' /\ Held(d)' /\ Ending(d)'
<1>1. Asking(d)'
  BY DEF Inv, Asking, Socks, Same, Onward
<1>2. Held(d)'
  BY DEF Inv, Held, Same, Onward, Gone
<1>3. Ending(d)'
  BY DEF Inv, Ending, Excused, Gone, Same, Onward
<1> QED
  BY <1>1, <1>2, <1>3

\* Queues that a step leaves alone.
LEMMA KeptQueues ==
  ASSUME Inv, Onward, backlog' = backlog, mpc' = "dead" => mpc = "dead",
         \A d \in Clients : /\ cpc[d] # "connect" => cpc'[d] # "connect"
                            /\ conn[d] = "queued" => conn'[d] = "queued"
                            /\ kind[d] = "UDPdaytime" /\ answers[d] = 0 /\ got[d] = 0
                                 => answers'[d] = 0 /\ got'[d] = 0
  PROVE  Queues'
<1> USE Numbers
<1>1. mpc' = "dead" => \A s \in 1..Udp : backlog'[s] = <<>>
  BY DEF Inv, Queues
<1>2. ASSUME NEW s \in 1..Udp, NEW i \in 1..Len(backlog[s])
      PROVE  /\ s = Service[kind'[backlog[s][i]]] /\ cpc'[backlog[s][i]] # "connect"
             /\ s # Udp => conn'[backlog[s][i]] = "queued"
             /\ s = Udp => answers'[backlog[s][i]] = 0 /\ got'[backlog[s][i]] = 0
             /\ \A j \in 1..Len(backlog[s]) : backlog[s][i] = backlog[s][j] => i = j
  <2>1. backlog[s][i] \in Clients
    BY <1>2, InQueue DEF Inv
  <2>2. /\ s = Service[kind[backlog[s][i]]] /\ cpc[backlog[s][i]] # "connect"
        /\ s # Udp => conn[backlog[s][i]] = "queued"
        /\ s = Udp => answers[backlog[s][i]] = 0 /\ got[backlog[s][i]] = 0
        /\ \A j \in 1..Len(backlog[s]) : backlog[s][i] = backlog[s][j] => i = j
    BY <1>2 DEF Inv, Queues
  <2>3. s = Udp <=> kind[backlog[s][i]] = "UDPdaytime"
    BY <2>1, <2>2, Services DEF Inv, Types, ServerTypes
  <2> QED
    BY <2>1, <2>2, <2>3 DEF Onward
<1> QED
  BY <1>1, <1>2 DEF Queues

\* A table that a step leaves alone.
LEMMA KeptTable ==
  ASSUME Inv, UNCHANGED <<ConnTable, now, stored>>
  PROVE  Table'
<1>1. Timed' = Timed
  BY DEF Timed
<1> QED
  BY <1>1 DEF Inv, Table
-----------------------------------------------------------------------------
\* A step of client c, at its end, changes nothing of another and nothing of the server.
LEMMA ClientAlone ==
  ASSUME Inv, NEW c \in Clients,
         write(c) \/ read(c) \/ read_eof(c) \/ read_empty(c) \/ killed(c)
  PROVE  /\ UNCHANGED <<server, tables, backlog, conn, lost>> /\ Onward
         /\ Queues' /\ Watched' /\ Table' /\ ServerTypes' /\ TableTypes'
         /\ \A d \in Clients : d # c => Asking(d)' /\ Held(d)' /\ Ending(d)'
<1> USE DEF server, tables
<1>1. UNCHANGED <<program, kind, server, tables, backlog, conn, lost>>
  BY DEF write, read, read_eof, read_empty, killed, wires
<1>2. \A d \in Clients : d # c => /\ cpc'[d] = cpc[d] /\ round'[d] = round[d] /\ got'[d] = got[d]
                                  /\ answers'[d] = answers[d] /\ sent'[d] = sent[d]
                                  /\ d \in broken' => d \in broken
  <2>1. CASE write(c)
    BY <2>1 DEF write, Inv, Types, WireTypes, ClientTypes
  <2>2. CASE read(c)
    BY <2>2 DEF read, Inv, Types, WireTypes, ClientTypes
  <2>3. CASE read_eof(c) \/ read_empty(c)
    BY <2>3 DEF read_eof, read_empty, wires, Inv, Types, WireTypes, ClientTypes
  <2>4. CASE killed(c)
    BY <2>4 DEF killed, Inv, Types, WireTypes, ClientTypes
  <2> QED
    BY <2>1, <2>2, <2>3, <2>4
<1>3. /\ cpc[c] \in {"write", "read"} /\ cpc'[c] # "connect" /\ gaveup \subseteq gaveup'
      /\ answers[c] = 0 => answers'[c] = 0 /\ got'[c] = got[c]
  <2>1. CASE write(c)
    BY <2>1 DEF write, Inv, Types, WireTypes, ClientTypes
  <2>2. CASE read(c)
    BY <2>2 DEF read, Inv, Types, WireTypes, ClientTypes
  <2>3. CASE read_eof(c) \/ read_empty(c)
    BY <2>3 DEF read_eof, read_empty, wires, Inv, Types, WireTypes, ClientTypes
  <2>4. CASE killed(c)
    BY <2>4 DEF killed, Inv, Types, WireTypes, ClientTypes
  <2> QED
    BY <2>1, <2>2, <2>3, <2>4
<1>4. Onward
  BY <1>1, <1>3 DEF Onward
<1>5. ASSUME NEW d \in Clients, d # c PROVE Asking(d)' /\ Held(d)' /\ Ending(d)'
  <2>1. Same(d)
    BY <1>1, <1>2, <1>5 DEF Same
  <2>2. fd[d] # 0 => mpc' # "dead"
    BY <1>1 DEF Inv, Held
  <2> QED
    BY <1>1, <1>4, <2>1, <2>2, KeptClient
<1>6. Queues'
  <2>1. \A d \in Clients : /\ cpc[d] # "connect" => cpc'[d] # "connect"
                           /\ answers[d] = 0 /\ got[d] = 0 => answers'[d] = 0 /\ got'[d] = 0
    BY <1>2, <1>3
  <2> QED
    BY <1>1, <1>4, <2>1, KeptQueues
<1>7. Watched' /\ ServerTypes'
  BY <1>1 DEF Inv, Watched, Types, ServerTypes, Socks
<1>8. Table' /\ TableTypes'
  BY <1>1, KeptTable DEF Inv, Types, TableTypes
<1> QED
  BY <1>1, <1>4, <1>5, <1>6, <1>7, <1>8

\* A request.
LEMMA WriteInv == ASSUME Inv, NEW c \in Clients, write(c) PROVE Inv'
<1>1. /\ cpc[c] = "write" /\ UNCHANGED <<answers, broken, round, got, gaveup, lost, faults>>
      /\ cpc' = [cpc EXCEPT ![c] = IF conn[c] = "closed" THEN "end" ELSE "read"]
      /\ sent' = [sent EXCEPT ![c] = conn[c] # "closed"]
      /\ UNCHANGED <<program, kind, mpc, fd, fd2svc, rfds, slave, stored, refused, backlog, conn>>
  BY DEF write, server, tables
<1>2. /\ cpc'[c] = IF conn[c] = "closed" THEN "end" ELSE "read"
      /\ sent'[c] <=> conn[c] # "closed"
  BY <1>1 DEF Inv, Types, WireTypes, ClientTypes
<1>3. ClientTypes'
  BY <1>1 DEF Inv, Types, ClientTypes
<1>4. WireTypes'
  <2>1. Gone \subseteq Gone'
    BY <1>1 DEF Inv, Types, ClientTypes, Gone
  <2> QED
    BY <1>1, <2>1 DEF Inv, Types, WireTypes
<1>5. kind[c] \in Writers /\ answers[c] = 0 /\ Asking(c)'
  <2>1. kind[c] \in Writers /\ answers[c] = 0 /\ Service[kind[c]] \in Socks'
    BY <1>1 DEF Inv, Asking, Socks
  <2>2. cpc'[c] \in {"read", "end"} /\ (cpc'[c] = "end" => ~sent'[c])
    BY <1>2
  <2> QED
    BY <1>1, <2>1, <2>2 DEF Inv, Asking
<1>6. Held(c)'
  BY <1>1 DEF Inv, Held, Gone
<1>7. Ending(c)'
  <2>1. kind[c] # "TCPdaytime" /\ c \notin broken /\ c \notin Gone
    BY <1>1, <1>5 DEF Inv, Types, WireTypes, Gone, Writers
  <2>2. Excused(c)' <=> Excused(c)
    BY <1>1 DEF Excused
  <2>3. conn[c] = "closed" /\ kind[c] = "TCP_xdr_client" => got[c] > 0 \/ Excused(c)
    BY <1>5, <2>1 DEF Inv, Ending, Types, ClientTypes
  <2> QED
    BY <1>1, <1>2, <2>1, <2>2, <2>3 DEF Ending, Gone
<1> QED
  BY <1>3, <1>4, <1>5, <1>6, <1>7, ClientAlone DEF Inv, Types

\* An answer.
LEMMA ReadInv == ASSUME Inv, NEW c \in Clients, read(c) PROVE Inv'
<1> USE Numbers
<1>1. /\ cpc[c] = "read" /\ answers[c] > 0 /\ UNCHANGED <<sent, broken, gaveup, lost, faults>>
      /\ answers' = [answers EXCEPT ![c] = answers[c] - 1]
      /\ got' = [got EXCEPT ![c] = got[c] + 1]
      /\ UNCHANGED <<program, kind, mpc, fd, fd2svc, rfds, slave, stored, refused, backlog, conn>>
  BY DEF read, server, tables
<1>2. \/ kind[c] \in ReadOn /\ UNCHANGED <<cpc, round>>
      \/ /\ kind[c] \notin ReadOn /\ round' = [round EXCEPT ![c] = round[c] - 1]
         /\ cpc' = [cpc EXCEPT ![c] = IF round[c] = 1 THEN "end" ELSE "write"]
  BY DEF read, ReadOn
<1>3. /\ answers[c] = 1 /\ answers'[c] = 0 /\ got[c] \in Nat /\ got'[c] = got[c] + 1
      /\ round[c] > 0 /\ round[c] \in Nat /\ ~sent[c] /\ c \notin broken /\ c \notin Gone
  <2>1. answers[c] \in 0..1 /\ got[c] \in 0..Rounds /\ round[c] \in 0..Rounds
    BY DEF Inv, Types, WireTypes, ClientTypes
  <2>2. answers'[c] = answers[c] - 1 /\ got'[c] = got[c] + 1
    BY <1>1 DEF Inv, Types, WireTypes, ClientTypes
  <2>3. c \notin Gone /\ c \notin broken
    BY <1>1 DEF Inv, Types, WireTypes, Gone
  <2>4. round[c] > 0 /\ (sent[c] => answers[c] = 0)
    BY <1>1 DEF Inv, Asking
  <2> QED
    BY <1>1, <2>1, <2>2, <2>3, <2>4
<1>4. /\ kind[c] \notin Writers => got[c] = 0
      /\ kind[c] \notin ReadOn => got[c] + round[c] <= Rounds
      /\ kind[c] \in Writers => kind[c] \notin ReadOn
  BY <1>3 DEF Inv, Asking, Writers, ReadOn
<1>5. kind[c] \notin Writers => round[c] = 1
  BY <1>3 DEF Inv, Asking, Writers
<1>6. WireTypes'
  <2>1. Gone \subseteq Gone'
    BY <1>1, <1>2 DEF Inv, Types, ClientTypes, Gone
  <2>2. answers' \in [Clients -> 0..1]
    BY <1>1, <1>3 DEF Inv, Types, WireTypes
  <2> QED
    BY <1>1, <2>1, <2>2 DEF Inv, Types, WireTypes
<1>7. ClientTypes'
  <2>1. got'[c] \in 0..Rounds
    <3>1. CASE kind[c] \in ReadOn
      BY <1>3, <1>4, <3>1
    <3>2. CASE kind[c] \notin ReadOn
      BY <1>3, <1>4, <3>2
    <3> QED
      BY <3>1, <3>2
  <2>2. got' \in [Clients -> 0..Rounds]
    BY <1>1, <1>3, <2>1 DEF Inv, Types, ClientTypes
  <2>3. round[c] - 1 \in 0..Rounds
    BY <1>3 DEF Inv, Types, ClientTypes
  <2>4. round' \in [Clients -> 0..Rounds]
        /\ cpc' \in [Clients -> {"connect", "write", "read", "end", "killed"}]
    BY <1>2, <2>3 DEF Inv, Types, ClientTypes
  <2> QED
    BY <1>1, <2>2, <2>4 DEF Inv, Types, ClientTypes
<1>8. \/ kind[c] \in ReadOn /\ cpc'[c] = "read" /\ round'[c] = round[c]
      \/ /\ kind[c] \notin ReadOn /\ round'[c] = round[c] - 1
         /\ cpc'[c] = IF round[c] = 1 THEN "end" ELSE "write"
  BY <1>1, <1>2 DEF Inv, Types, ClientTypes
<1>9. Asking(c)'
  <2>1. Service[kind'[c]] \in Socks' /\ kind' = kind /\ sent' = sent
    BY <1>1 DEF Inv, Asking, Socks
  <2>2. kind[c] \notin {"TCPecho", "TCPchargen2"} => round'[c] <= 1
    BY <1>3, <1>8 DEF Inv, Asking
  <2>3. CASE kind[c] \in ReadOn
    BY <1>3, <1>4, <1>8, <2>1, <2>2, <2>3 DEF Asking
  <2>4. CASE kind[c] \notin ReadOn
    BY <1>3, <1>4, <1>5, <1>8, <2>1, <2>2, <2>4 DEF Asking
  <2> QED
    BY <2>3, <2>4
<1>10. Held(c)'
  BY <1>1, <1>3 DEF Inv, Held
<1>11. Ending(c)'
  <2>1. c \notin broken' /\ ~sent'[c] /\ got'[c] > 0
    BY <1>1, <1>3
  <2>2. kind[c] = "TCPdaytime" => cpc'[c] # "end"
    BY <1>8 DEF ReadOn
  <2> QED
    BY <1>1, <1>3, <2>1, <2>2 DEF Ending
<1> QED
  BY <1>6, <1>7, <1>9, <1>10, <1>11, ClientAlone DEF Inv, Types

\* The end of a connection, or what is taken for it.
LEMMA ReadEndInv == ASSUME Inv, NEW c \in Clients, read_eof(c) \/ read_empty(c) PROVE Inv'
<1>1. /\ cpc[c] = "read" /\ answers[c] = 0 /\ cpc' = [cpc EXCEPT ![c] = "end"]
      /\ UNCHANGED <<sent, answers, broken, round, got, lost, faults>>
      /\ UNCHANGED <<program, kind, mpc, fd, fd2svc, rfds, slave, stored, refused, backlog, conn>>
  BY DEF read_eof, read_empty, server, tables, wires
<1>2. \/ conn[c] = "closed" /\ gaveup' = gaveup
      \/ kind[c] = "exc_10_6" /\ gaveup' = gaveup
      \/ kind[c] = "TCP_xdr_client" /\ gaveup' = gaveup \cup {c}
  BY DEF read_eof, read_empty
<1>3. cpc'[c] = "end" /\ c \notin Gone /\ c \notin broken
  BY <1>1 DEF Inv, Types, WireTypes, ClientTypes, Gone
<1>4. WireTypes' /\ ClientTypes'
  <2>1. Gone \subseteq Gone'
    BY <1>1 DEF Inv, Types, ClientTypes, Gone
  <2>2. gaveup' \subseteq Clients
    BY <1>2 DEF Inv, Types, ClientTypes
  <2> QED
    BY <1>1, <2>1, <2>2 DEF Inv, Types, WireTypes, ClientTypes
<1>5. Asking(c)'
  BY <1>1, <1>3 DEF Inv, Asking, Socks
<1>6. Held(c)'
  BY <1>1, <1>3 DEF Inv, Held
<1>7. Ending(c)'
  <2>1. Excused(c) => Excused(c)'
    BY <1>1, <1>2 DEF Excused
  <2>2. CASE conn[c] = "closed"
    BY <1>1, <1>3, <2>1, <2>2 DEF Inv, Ending, Gone, Types, ClientTypes
  <2>3. CASE kind[c] = "exc_10_6"
    <3>1. ~sent[c]
      BY <2>3 DEF Inv, Asking, Writers
    <3> QED
      BY <1>1, <1>3, <2>3, <3>1 DEF Ending
  <2>4. CASE kind[c] = "TCP_xdr_client" /\ gaveup' = gaveup \cup {c}
    <3>1. Excused(c)'
      BY <1>1, <2>4 DEF Excused
    <3> QED
      BY <1>1, <1>3, <2>4, <3>1 DEF Ending
  <2> QED
    BY <1>2, <2>2, <2>3, <2>4
<1> QED
  BY <1>4, <1>5, <1>6, <1>7, ClientAlone DEF Inv, Types

\* A client is killed.
LEMMA KilledInv == ASSUME Inv, NEW c \in Clients, killed(c) PROVE Inv'
<1>1. /\ cpc[c] \in {"write", "read"} /\ cpc' = [cpc EXCEPT ![c] = "killed"]
      /\ broken' \subseteq broken \cup {c} /\ faults > 0 /\ faults' = faults - 1
      /\ UNCHANGED <<sent, answers, round, got, gaveup, lost>>
      /\ UNCHANGED <<program, kind, mpc, fd, fd2svc, rfds, slave, stored, refused, backlog, conn>>
  BY DEF killed, Fault, server, tables
<1>2. cpc'[c] = "killed"
  BY <1>1 DEF Inv, Types, ClientTypes
<1>3. c \in Gone' /\ Gone \subseteq Gone'
  BY <1>1, <1>2 DEF Inv, Types, ClientTypes, Gone
<1>4. WireTypes'
  BY <1>1, <1>3 DEF Inv, Types, WireTypes
<1>5. ClientTypes'
  <2>1. faults' \in 0..Faults
    BY <1>1, Numbers DEF Inv, Types, ClientTypes
  <2> QED
    BY <1>1, <2>1 DEF Inv, Types, ClientTypes
<1>6. Asking(c)'
  BY <1>1, <1>2 DEF Inv, Asking, Socks
<1>7. Held(c)'
  BY <1>1, <1>3 DEF Inv, Held
<1>8. Ending(c)'
  BY <1>1, <1>2, <1>3 DEF Ending
<1> QED
  BY <1>4, <1>5, <1>6, <1>7, <1>8, ClientAlone DEF Inv, Types

\* A client that connects waits at the socket it asks, and nowhere else.
LEMMA ConnectInv == ASSUME Inv, NEW c \in Clients, connect(c) PROVE Inv'
<1> USE Numbers
<1> DEFINE S == Service[kind[c]]
<1>1. /\ cpc[c] = "connect" /\ faults' \in {faults, faults - 1} /\ (faults' # faults => faults > 0)
      /\ UNCHANGED <<sent, answers, broken, round, got, gaveup, program, kind, mpc, rfds, afds,
                     fd2svc, fd, slave, sigchld, ConnTable, now, stored, refused>>
  BY DEF connect, server, tables, Fault
<1>2. \/ /\ cpc' = [cpc EXCEPT ![c] = "end"] /\ UNCHANGED <<backlog, conn, lost>>
      \/ /\ mpc # "dead"
         /\ cpc' = [cpc EXCEPT ![c] = IF kind[c] \in Writers THEN "write" ELSE "read"]
         /\ backlog' = [backlog EXCEPT ![S] = Append(backlog[S], c)]
         /\ conn' = [conn EXCEPT ![c] = IF kind[c] = "UDPdaytime" THEN conn[c] ELSE "queued"]
         /\ lost' = lost
      \/ /\ mpc # "dead" /\ kind[c] = "UDPdaytime"
         /\ cpc' = [cpc EXCEPT ![c] = IF kind[c] \in Writers THEN "write" ELSE "read"]
         /\ lost' = lost \cup {c} /\ UNCHANGED <<backlog, conn>>
  BY DEF connect, Writers
<1>3. /\ conn[c] = "new" /\ answers[c] = 0 /\ got[c] = 0 /\ ~sent[c] /\ S \in Socks /\ round[c] > 0
      /\ c \notin Gone /\ c \notin broken
  BY <1>1 DEF Inv, Asking, Types, WireTypes, Gone
<1>4. S \in 1..6 /\ (S = 6 <=> kind[c] = "UDPdaytime")
  BY Services DEF Inv, Types, ServerTypes
<1>5. /\ cpc'[c] \in {"end", "write", "read"}
      /\ cpc'[c] = "write" => kind[c] \in Writers
      /\ cpc'[c] = "end" => conn'[c] = "new"
      /\ conn'[c] \in {"new", "queued"} /\ (kind[c] = "UDPdaytime" => conn'[c] = "new")
  BY <1>1, <1>2, <1>3 DEF Inv, Types, WireTypes, ClientTypes
<1>6. \A d \in Clients : d # c => cpc'[d] = cpc[d] /\ conn'[d] = conn[d]
  BY <1>1, <1>2 DEF Inv, Types, WireTypes, ClientTypes
<1>7. ServerTypes' /\ TableTypes'
  BY <1>1 DEF Inv, Types, ServerTypes, TableTypes, Socks
<1>8. WireTypes'
  <2>1. Gone \subseteq Gone'
    BY <1>1, <1>3, <1>6 DEF Gone
  <2>2. backlog' \in [1..Udp -> Seq(Clients)]
    <3>1. backlog \in [1..Udp -> Seq(Clients)] /\ S \in 1..Udp
      BY <1>4 DEF Inv, Types, WireTypes
    <3>2. Append(backlog[S], c) \in Seq(Clients)
      BY <3>1, AppendProperties
    <3> HIDE DEF S
    <3> QED
      BY <1>2, <3>1, <3>2
  <2>3. conn' \in [Clients -> {"new", "queued", "open", "closed"}]
    BY <1>2 DEF Inv, Types, WireTypes
  <2> QED
    BY <1>1, <2>1, <2>2, <2>3 DEF Inv, Types, WireTypes
<1>9. ClientTypes'
  <2>1. faults' \in 0..Faults
    BY <1>1 DEF Inv, Types, ClientTypes
  <2>2. cpc' \in [Clients -> {"connect", "write", "read", "end", "killed"}]
    BY <1>2 DEF Inv, Types, ClientTypes
  <2> QED
    BY <1>1, <1>2, <2>1, <2>2 DEF Inv, Types, ClientTypes
<1>10. Queues'
  <2>1. CASE backlog' = backlog
    <3>1. \A d \in Clients : /\ cpc[d] # "connect" => cpc'[d] # "connect"
                             /\ conn[d] = "queued" => conn'[d] = "queued"
      BY <1>1, <1>3, <1>6
    <3> QED
      BY <1>1, <2>1, <3>1, KeptQueues DEF Onward
  <2>2. CASE mpc # "dead" /\ backlog' = [backlog EXCEPT ![S] = Append(backlog[S], c)]
             /\ conn' = [conn EXCEPT ![c] = IF kind[c] = "UDPdaytime" THEN conn[c] ELSE "queued"]
    <3>1. \A s \in 1..6 : \A i \in 1..Len(backlog[s]) :
            /\ backlog[s][i] \in Clients /\ backlog[s][i] # c
            /\ s = Service[kind[backlog[s][i]]] /\ cpc[backlog[s][i]] # "connect"
            /\ s # 6 => conn[backlog[s][i]] = "queued"
            /\ s = 6 => answers[backlog[s][i]] = 0 /\ got[backlog[s][i]] = 0
            /\ \A j \in 1..Len(backlog[s]) : backlog[s][i] = backlog[s][j] => i = j
      <4>1. ASSUME NEW s \in 1..6, NEW i \in 1..Len(backlog[s])
            PROVE  /\ backlog[s][i] \in Clients
                   /\ s = Service[kind[backlog[s][i]]] /\ cpc[backlog[s][i]] # "connect"
                   /\ s # 6 => conn[backlog[s][i]] = "queued"
                   /\ s = 6 => answers[backlog[s][i]] = 0 /\ got[backlog[s][i]] = 0
                   /\ \A j \in 1..Len(backlog[s]) : backlog[s][i] = backlog[s][j] => i = j
        BY <4>1, InQueue DEF Inv, Queues
      <4> QED
        BY <1>1, <4>1
    <3>2. \A s \in 1..6 : s # S => backlog'[s] = backlog[s]
      BY <2>2 DEF Inv, Types, WireTypes
    <3>3. /\ Len(backlog'[S]) = Len(backlog[S]) + 1 /\ backlog'[S][Len(backlog[S]) + 1] = c
          /\ \A i \in 1..Len(backlog[S]) : backlog'[S][i] = backlog[S][i]
          /\ Len(backlog[S]) \in Nat
      <4>1. backlog'[S] = Append(backlog[S], c) /\ backlog[S] \in Seq(Clients)
        BY <1>4, <2>2 DEF Inv, Types, WireTypes
      <4> QED
        BY <4>1, AppendProperties, LenProperties
    <3>4. S # 6 => conn'[c] = "queued"
      BY <1>4, <2>2 DEF Inv, Types, WireTypes
    <3>5. cpc'[c] # "connect"
      BY <1>5
    <3> DEFINE Fine(s, d) == /\ s = Service[kind'[d]] /\ cpc'[d] # "connect"
                             /\ s # 6 => conn'[d] = "queued"
                             /\ s = 6 => answers'[d] = 0 /\ got'[d] = 0
    <3>6. \A s \in 1..6 : \A i \in 1..Len(backlog[s]) : Fine(s, backlog[s][i])
      BY <1>1, <1>6, <3>1
    <3>7. Fine(S, c)
      BY <1>1, <1>3, <3>4, <3>5
    <3>8. \A i \in 1..Len(backlog'[S]) : i = Len(backlog[S]) + 1 \/ i \in 1..Len(backlog[S])
      BY <3>3
    <3> HIDE DEF S, Fine
    <3>9. ASSUME NEW s \in 1..6, NEW i \in 1..Len(backlog'[s])
          PROVE  /\ Fine(s, backlog'[s][i])
                 /\ \A j \in 1..Len(backlog'[s]) : backlog'[s][i] = backlog'[s][j] => i = j
      <4>1. CASE s # S
        <5>1. backlog'[s] = backlog[s]
          BY <3>2, <4>1
        <5> QED
          BY <3>1, <3>6, <5>1
      <4>2. CASE s = S
        <5>1. Fine(s, backlog'[s][i])
          BY <3>3, <3>6, <3>7, <3>8, <4>2
        <5>2. ASSUME NEW j \in 1..Len(backlog'[s]), backlog'[s][i] = backlog'[s][j] PROVE i = j
          <6>1. i \in 1..Len(backlog[s]) \/ i = Len(backlog[s]) + 1
            BY <3>8, <4>2
          <6>2. j \in 1..Len(backlog[s]) \/ j = Len(backlog[s]) + 1
            BY <3>8, <4>2
          <6>3. CASE i \in 1..Len(backlog[s]) /\ j \in 1..Len(backlog[s])
            <7>1. backlog'[s][i] = backlog[s][i] /\ backlog'[s][j] = backlog[s][j]
              BY <3>3, <4>2, <6>3
            <7>2. backlog[s][i] = backlog[s][j] => i = j
              BY <3>1, <6>3
            <7> QED
              BY <5>2, <7>1, <7>2
          <6>4. CASE i = Len(backlog[s]) + 1 /\ j \in 1..Len(backlog[s])
            <7>1. backlog'[s][i] = c /\ backlog'[s][j] = backlog[s][j] /\ backlog[s][j] # c
              BY <3>1, <3>3, <4>2, <6>4
            <7> QED
              BY <5>2, <7>1
          <6>5. CASE i \in 1..Len(backlog[s]) /\ j = Len(backlog[s]) + 1
            <7>1. backlog'[s][j] = c /\ backlog'[s][i] = backlog[s][i] /\ backlog[s][i] # c
              BY <3>1, <3>3, <4>2, <6>5
            <7> QED
              BY <5>2, <7>1
          <6> QED
            BY <6>1, <6>2, <6>3, <6>4, <6>5
        <5> QED
          BY <5>1, <5>2
      <4> QED
        BY <4>1, <4>2
    <3> QED
      <4>1. mpc' # "dead"
        BY <1>1, <2>2
      <4>2. ASSUME NEW s \in 1..6, NEW i \in 1..Len(backlog'[s])
            PROVE  /\ s = Service[kind'[backlog'[s][i]]] /\ cpc'[backlog'[s][i]] # "connect"
                   /\ s # 6 => conn'[backlog'[s][i]] = "queued"
                   /\ s = 6 => answers'[backlog'[s][i]] = 0 /\ got'[backlog'[s][i]] = 0
                   /\ \A j \in 1..Len(backlog'[s]) : backlog'[s][i] = backlog'[s][j] => i = j
        BY <3>9 DEF Fine
      <4> QED
        BY <4>1, <4>2 DEF Queues
  <2> QED
    BY <1>2, <2>1, <2>2
<1>11. Watched'
  <2>1. \A s \in 1..6 : backlog[s] # <<>> => backlog'[s] # <<>>
    <3>1. backlog \in [1..Udp -> Seq(Clients)] /\ S \in 1..Udp
      BY <1>4 DEF Inv, Types, WireTypes
    <3>2. Append(backlog[S], c) # <<>>
      <4>1. backlog[S] \in Seq(Clients)
        BY <3>1
      <4> HIDE DEF S
      <4> QED
        BY <4>1, AppendProperties
    <3> HIDE DEF S
    <3> QED
      BY <1>2, <3>1, <3>2
  <2> QED
    BY <1>1, <2>1 DEF Inv, Watched
<1>12. Table'
  BY <1>1, KeptTable
<1>13. Asking(c)'
  BY <1>1, <1>3, <1>5 DEF Inv, Asking, Socks
<1>14. Held(c)'
  <2>1. fd[c] = 0 /\ slave[c] # "running"
    BY <1>3 DEF Inv, Held
  <2> QED
    BY <1>1, <1>3, <1>5, <2>1 DEF Inv, Held
<1>15. Ending(c)'
  BY <1>1, <1>3, <1>5 DEF Inv, Ending
<1>16. ASSUME NEW d \in Clients, d # c PROVE Asking(d)' /\ Held(d)' /\ Ending(d)'
  <2>1. Onward /\ Same(d)
    BY <1>1, <1>6, <1>16 DEF Onward, Same
  <2>2. fd[d] # 0 => mpc' # "dead"
    BY <1>1 DEF Inv, Held
  <2> QED
    BY <1>1, <2>1, <2>2, KeptClient
<1> QED
  BY <1>7, <1>8, <1>9, <1>10, <1>11, <1>12, <1>13, <1>14, <1>15, <1>16 DEF Inv, Types
-----------------------------------------------------------------------------
\* The server ends, and the kernel closes all that it had open.
LEMMA ErrexitInv ==
  ASSUME Inv, errexit, mpc # "dead", faults' \in 0..Faults,
         UNCHANGED <<program, kind, afds, fd2svc, slave, sigchld, tables, sent, answers, broken,
                     clients, lost>>
  PROVE  Inv'
<1> USE Numbers DEF tables, clients
<1>1. /\ mpc' = "dead" /\ rfds' = {} /\ fd' = [c \in Clients |-> 0]
      /\ backlog' = [s \in 1..Udp |-> <<>>]
      /\ conn' = [c \in Clients |-> IF conn[c] \in {"queued", "open"} /\ slave[c] # "running"
                                    THEN "closed" ELSE conn[c]]
  BY DEF errexit
<1>2. Types'
  <2>1. ServerTypes' /\ TableTypes' /\ ClientTypes'
    BY <1>1 DEF Inv, Types, ServerTypes, TableTypes, ClientTypes, Socks
  <2>2. WireTypes'
    <3>1. <<>> \in Seq(Clients)
      OBVIOUS
    <3> QED
      BY <1>1, <3>1 DEF Inv, Types, WireTypes, Gone
  <2> QED
    BY <2>1, <2>2 DEF Types
<1>3. Queues'
  BY <1>1 DEF Queues
<1>4. Watched'
  BY <1>1 DEF Inv, Watched
<1>5. Table'
  BY KeptTable
<1>6. ASSUME NEW c \in Clients PROVE Asking(c)' /\ Held(c)' /\ Ending(c)'
  <2>1. /\ fd'[c] = 0
        /\ conn'[c] = IF conn[c] \in {"queued", "open"} /\ slave[c] # "running"
                      THEN "closed" ELSE conn[c]
    BY <1>1
  <2>2. Asking(c)'
    BY <2>1 DEF Inv, Asking, Socks
  <2>3. Held(c)'
    BY <2>1 DEF Inv, Held
  <2>4. Ending(c)'
    BY <1>1, <2>1 DEF Inv, Ending, Excused
  <2> QED
    BY <2>2, <2>3, <2>4
<1> QED
  BY <1>2, <1>3, <1>4, <1>5, <1>6 DEF Inv
-----------------------------------------------------------------------------
\* The first in a queue.
LEMMA HeadIs ==
  ASSUME Inv, NEW s \in 1..6, backlog[s] # <<>>, NEW c \in Clients, c = Head(backlog[s])
  PROVE  /\ s = Service[kind[c]] /\ s \in Socks /\ cpc[c] # "connect" /\ mpc # "dead"
         /\ fd[c] = 0 /\ slave[c] # "running" /\ answers[c] = 0 /\ got[c] = 0
         /\ s # 6 => conn[c] = "queued" /\ stored[c] = 0 /\ kind[c] # "UDPdaytime"
         /\ s = 6 => conn[c] = "new" /\ kind[c] = "UDPdaytime"
         /\ backlog[s] \in Seq(Clients) /\ Tail(backlog[s]) \in Seq(Clients)
         /\ Len(Tail(backlog[s])) + 1 = Len(backlog[s]) /\ Len(backlog[s]) \in Nat
         /\ \A i \in 1..Len(Tail(backlog[s])) : /\ i + 1 \in 1..Len(backlog[s])
                                                /\ Tail(backlog[s])[i] = backlog[s][i + 1]
                                                /\ Tail(backlog[s])[i] # c
<1> USE Numbers
<1>1. backlog[s] \in Seq(Clients)
  BY InQueue DEF Inv
<1>2. /\ Head(backlog[s]) = backlog[s][1] /\ Len(backlog[s]) \in Nat /\ Len(backlog[s]) > 0
      /\ Tail(backlog[s]) \in Seq(Clients) /\ Len(Tail(backlog[s])) = Len(backlog[s]) - 1
      /\ \A i \in 1..Len(Tail(backlog[s])) : Tail(backlog[s])[i] = backlog[s][i + 1]
  BY <1>1, HeadTailProperties, EmptySeq, LenProperties
<1>3. 1 \in 1..Len(backlog[s]) /\ c = backlog[s][1] /\ c \in Clients
  BY <1>1, <1>2, ElementOfSeq
<1>4. /\ s = Service[kind[c]] /\ cpc[c] # "connect" /\ mpc # "dead"
      /\ s # 6 => conn[c] = "queued"
      /\ s = 6 => answers[c] = 0 /\ got[c] = 0
      /\ \A j \in 1..Len(backlog[s]) : c = backlog[s][j] => j = 1
  BY <1>2, <1>3 DEF Inv, Queues
<1>5. s = 6 <=> kind[c] = "UDPdaytime"
  BY <1>3, <1>4, Services DEF Inv, Types, ServerTypes
<1>6. s \in Socks
  BY <1>3, <1>4 DEF Inv, Asking
<1>7. conn[c] \in {"new", "queued"} /\ (s = 6 => conn[c] = "new")
  BY <1>3, <1>4, <1>5 DEF Inv, Held
<1>8. s # 6 => answers[c] = 0 /\ got[c] = 0 /\ stored[c] = 0
  BY <1>3, <1>5, <1>7 DEF Inv, Held
<1>9. fd[c] = 0 /\ slave[c] # "running"
  BY <1>3, <1>7 DEF Inv, Held
<1>10. \A i \in 1..Len(Tail(backlog[s])) :
         i + 1 \in 1..Len(backlog[s]) /\ Tail(backlog[s])[i] = backlog[s][i + 1]
         /\ Tail(backlog[s])[i] # c
  <2>1. ASSUME NEW i \in 1..Len(Tail(backlog[s]))
        PROVE  i + 1 \in 1..Len(backlog[s]) /\ i + 1 # 1
    BY <1>2
  <2> QED
    BY <1>2, <1>4, <2>1
<1>11. answers[c] = 0 /\ got[c] = 0
  BY <1>4, <1>8
<1>12. s = 6 => conn[c] = "new" /\ kind[c] = "UDPdaytime"
  BY <1>5, <1>7
<1>13. s # 6 => conn[c] = "queued" /\ stored[c] = 0 /\ kind[c] # "UDPdaytime"
  BY <1>4, <1>5, <1>8
<1>14. Len(Tail(backlog[s])) + 1 = Len(backlog[s])
  BY <1>2
<1> QED
  BY <1>1, <1>2, <1>4, <1>6, <1>9, <1>10, <1>11, <1>12, <1>13, <1>14

\* The first leaves its queue.
LEMMA TailQueues ==
  ASSUME Inv, Onward, mpc' # "dead", NEW s \in 1..6, backlog[s] # <<>>,
         backlog' = [backlog EXCEPT ![s] = Tail(backlog[s])],
         \A d \in Clients : d # Head(backlog[s]) =>
           cpc'[d] = cpc[d] /\ conn'[d] = conn[d] /\ answers'[d] = answers[d] /\ got'[d] = got[d]
  PROVE  /\ backlog' \in [1..Udp -> Seq(Clients)] /\ Queues'
         /\ \A t \in 1..6 : t # s => backlog'[t] = backlog[t]
<1> USE Numbers
<1> DEFINE c == Head(backlog[s])
<1>0. c \in Clients
  BY InQueue, HeadTailProperties, EmptySeq DEF Inv
<1>1. /\ c \in Clients /\ s = Service[kind[c]]
      /\ Tail(backlog[s]) \in Seq(Clients) /\ Len(Tail(backlog[s])) + 1 = Len(backlog[s])
      /\ Len(backlog[s]) \in Nat
      /\ \A i \in 1..Len(Tail(backlog[s])) : /\ i + 1 \in 1..Len(backlog[s])
                                             /\ Tail(backlog[s])[i] = backlog[s][i + 1]
                                             /\ Tail(backlog[s])[i] # c
  BY <1>0, HeadIs
<1>2. /\ backlog' \in [1..Udp -> Seq(Clients)] /\ backlog'[s] = Tail(backlog[s])
      /\ \A t \in 1..6 : t # s => backlog'[t] = backlog[t]
  <2>1. backlog \in [1..Udp -> Seq(Clients)] /\ Tail(backlog[s]) \in Seq(Clients)
    BY <1>1 DEF Inv, Types, WireTypes
  <2> QED
    BY <2>1
<1>3. ASSUME NEW t \in 1..6, NEW i \in 1..Len(backlog[t])
      PROVE  /\ t = Service[kind[backlog[t][i]]] /\ cpc[backlog[t][i]] # "connect"
             /\ t # 6 => conn[backlog[t][i]] = "queued"
             /\ t = 6 => answers[backlog[t][i]] = 0 /\ got[backlog[t][i]] = 0
             /\ \A j \in 1..Len(backlog[t]) : backlog[t][i] = backlog[t][j] => i = j
             /\ backlog[t][i] \in Clients
  <2>1. Types /\ Queues
    BY DEF Inv
  <2>2. backlog[t][i] \in Clients
    BY <1>3, <2>1, InQueue
  <2> QED
    BY <1>3, <2>1, <2>2 DEF Queues
<1> HIDE DEF c
<1> DEFINE Fine(t, d) == /\ t = Service[kind'[d]] /\ cpc'[d] # "connect"
                         /\ t # 6 => conn'[d] = "queued"
                         /\ t = 6 => answers'[d] = 0 /\ got'[d] = 0
           Once(q) == \A i, j \in 1..Len(q) : q[i] = q[j] => i = j
<1>4. \A t \in 1..6 : \A i \in 1..Len(backlog[t]) : backlog[t][i] # c => Fine(t, backlog[t][i])
  <2>1. ASSUME NEW t \in 1..6, NEW i \in 1..Len(backlog[t]), backlog[t][i] # c
        PROVE  Fine(t, backlog[t][i])
    <3> DEFINE d == backlog[t][i]
    <3>1. /\ d \in Clients /\ t = Service[kind[d]] /\ cpc[d] # "connect"
          /\ t # 6 => conn[d] = "queued"
          /\ t = 6 => answers[d] = 0 /\ got[d] = 0
      BY <1>3, <2>1
    <3>2. /\ kind' = kind /\ cpc'[d] = cpc[d] /\ conn'[d] = conn[d]
          /\ answers'[d] = answers[d] /\ got'[d] = got[d]
      BY <2>1, <3>1 DEF Onward, c
    <3> HIDE DEF d
    <3>3. Fine(t, d)
      BY <3>1, <3>2
    <3> QED
      BY <3>3 DEF d
  <2> QED
    BY <2>1
<1>5. \A t \in 1..6 : Once(backlog[t])
  BY <1>3
<1>6. Once(backlog'[s])
  <2>1. ASSUME NEW i \in 1..Len(backlog'[s]), NEW j \in 1..Len(backlog'[s]),
               backlog'[s][i] = backlog'[s][j]
        PROVE  i = j
    <3>1. /\ i + 1 \in 1..Len(backlog[s]) /\ backlog'[s][i] = backlog[s][i + 1]
          /\ j + 1 \in 1..Len(backlog[s]) /\ backlog'[s][j] = backlog[s][j + 1]
      BY <1>1, <1>2
    <3>2. i + 1 = j + 1
      BY <1>5, <2>1, <3>1
    <3> QED
      BY <3>2
  <2> QED
    BY <2>1
<1> HIDE DEF Fine
<1>7. \A i \in 1..Len(backlog'[s]) : Fine(s, backlog'[s][i])
  <2>1. ASSUME NEW i \in 1..Len(backlog'[s])
        PROVE  i + 1 \in 1..Len(backlog[s]) /\ backlog'[s][i] = backlog[s][i + 1]
               /\ backlog[s][i + 1] # c
    BY <1>1, <1>2
  <2> QED
    BY <1>4, <2>1
<1>8. ASSUME NEW t \in 1..6, t # s, NEW i \in 1..Len(backlog'[t]) PROVE Fine(t, backlog'[t][i])
  <2>1. backlog'[t] = backlog[t] /\ i \in 1..Len(backlog[t])
    BY <1>2, <1>8
  <2>2. backlog[t][i] # c
    BY <1>1, <1>3, <1>8, <2>1
  <2> QED
    BY <1>4, <2>1, <2>2
<1>9. \A t \in 1..6 : Once(backlog'[t])
  <2>1. ASSUME NEW t \in 1..6 PROVE Once(backlog'[t])
    <3>1. CASE t = s
      BY <1>6, <3>1
    <3>2. CASE t # s
      <4>1. backlog'[t] = backlog[t]
        BY <1>2, <3>2
      <4>2. Once(backlog[t])
        BY <1>5
      <4> HIDE DEF Once
      <4> QED
        BY <4>1, <4>2
    <3> QED
      BY <3>1, <3>2
  <2> QED
    BY <2>1
<1>10. \A t \in 1..6 : \A i \in 1..Len(backlog'[t]) : Fine(t, backlog'[t][i])
  BY <1>7, <1>8
<1>11. Queues'
  <2>1. ASSUME NEW t \in 1..6, NEW i \in 1..Len(backlog'[t])
        PROVE  /\ t = Service[kind'[backlog'[t][i]]] /\ cpc'[backlog'[t][i]] # "connect"
               /\ t # Udp => conn'[backlog'[t][i]] = "queued"
               /\ t = Udp => answers'[backlog'[t][i]] = 0 /\ got'[backlog'[t][i]] = 0
               /\ \A j \in 1..Len(backlog'[t]) : backlog'[t][i] = backlog'[t][j] => i = j
    <3>1. Fine(t, backlog'[t][i])
      BY <1>10, <2>1
    <3>2. Once(backlog'[t])
      BY <1>9
    <3>3. \A j \in 1..Len(backlog'[t]) : backlog'[t][i] = backlog'[t][j] => i = j
      BY <2>1, <3>2
    <3> QED
      BY <3>1, <3>3 DEF Fine
  <2> QED
    BY <2>1 DEF Queues
<1> QED
  BY <1>2, <1>11
-----------------------------------------------------------------------------
\* A step of the server that changes no client and no connection.
LEMMA ServerOnly ==
  ASSUME Inv, UNCHANGED <<program, kind, fd, afds, fd2svc, ConnTable, stored, refused, wires,
                          clients, lost, faults>>,
         now <= now', now' \in 1..MaxTime, ServerTypes', mpc' # "dead", mpc # "dead",
         slave' \in [Clients -> {"none", "running", "zombie", "reaped"}],
         \A c \in Clients : slave'[c] = "running" <=> slave[c] = "running",
         \/ UNCHANGED <<mpc, rfds>>
         \/ mpc # "recv" /\ mpc' = "select"
         \/ mpc # "recv" /\ mpc' = "serve" /\ \A s \in rfds' : s \in 1..Udp => backlog[s] # <<>>
  PROVE  Inv'
<1> USE Numbers DEF wires, clients
<1>1. Types'
  BY DEF Inv, Types, TableTypes, WireTypes, ClientTypes, Gone
<1>2. Queues'
  BY KeptQueues DEF Onward
<1>3. Watched'
  BY DEF Inv, Watched
<1>4. Table'
  <2>1. Timed' = Timed
    BY DEF Timed
  <2>2. \A i \in Entries : ConnTable[i].closeTm <= now'
    BY DEF Inv, Types, TableTypes, Table
  <2>3. \A c \in Clients : stored[c] <= now'
    BY DEF Inv, Types, TableTypes, Table
  <2> QED
    BY <2>1, <2>2, <2>3 DEF Inv, Table
<1>5. ASSUME NEW c \in Clients PROVE Asking(c)' /\ Held(c)' /\ Ending(c)'
  <2>1. Asking(c)'
    BY DEF Inv, Asking, Socks
  <2>2. Held(c)'
    <3>1. fd[c] # 0 /\ program = "TCP_xdr_server" => UNCHANGED <<mpc, rfds>>
      BY DEF Inv, Held
    <3> QED
      BY <3>1 DEF Inv, Held, Gone
  <2>3. Ending(c)'
    BY DEF Inv, Ending, Excused, Gone
  <2> QED
    BY <2>1, <2>2, <2>3
<1> QED
  BY <1>1, <1>2, <1>3, <1>4, <1>5 DEF Inv

\* select finds what is ready, or fails; then all is served; and the reaper and the clock.
LEMMA SelectInvariant == ASSUME Inv, select PROVE Inv'
<1> USE Numbers
<1>1. mpc = "select" /\ UNCHANGED <<program, kind, afds, fd2svc, slave, sigchld, tables, sent,
                                    answers, broken, clients, lost, faults>>
  BY DEF select
<1>2. CASE errexit
  BY <1>1, <1>2, ErrexitInv DEF Inv, Types, ClientTypes
<1>3. CASE /\ rfds' = {s \in Socks : backlog[s] # <<>>} \cup {f \in afds : Ready(f)}
           /\ mpc' = "serve" /\ UNCHANGED <<fd, backlog, conn>>
  <2>1. \A s \in rfds' : s \in 1..Udp => backlog[s] # <<>>
    BY <1>3 DEF Inv, Types, ServerTypes
  <2>2. ServerTypes'
    BY <1>1, <1>3 DEF Inv, Types, ServerTypes, Socks
  <2>3. now' = now /\ now \in 1..MaxTime /\ now <= now'
    BY <1>1 DEF tables, Inv, Types, TableTypes
  <2> QED
    BY <1>1, <1>3, <2>1, <2>2, <2>3, ServerOnly DEF tables, wires, clients, Inv, Types, ServerTypes
<1> QED
  BY <1>2, <1>3 DEF select

LEMMA QuietInv == ASSUME Inv, served \/ reaper \/ tick PROVE Inv'
<1> USE Numbers
<1>1. UNCHANGED <<program, kind, fd, afds, fd2svc, ConnTable, stored, refused, wires, clients,
                  lost, faults>>
  BY DEF served, reaper, tick, server, tables
<1>2. now <= now' /\ now' \in 1..MaxTime
  BY DEF served, reaper, tick, server, tables, Inv, Types, TableTypes
<1>3. CASE tick /\ mpc = "dead"
  <2>1. UNCHANGED <<server, ConnTable, stored, refused>>
    BY <1>3 DEF tick
  <2>2. Types'
    BY <1>1, <1>2, <2>1 DEF server, wires, clients, Inv, Types, ServerTypes, TableTypes, WireTypes,
                            ClientTypes, Gone, Socks
  <2>3. Queues' /\ Watched'
    BY <1>1, <2>1, KeptQueues DEF server, wires, clients, Inv, Watched, Onward
  <2>4. Table'
    <3>1. Timed' = Timed
      BY <1>1 DEF Timed
    <3>2. \A i \in Entries : ConnTable[i].closeTm <= now'
      BY <1>2 DEF Inv, Types, TableTypes, Table
    <3>3. \A c \in Clients : stored[c] <= now'
      BY <1>2 DEF Inv, Types, TableTypes, Table
    <3> QED
      BY <1>1, <3>1, <3>2, <3>3 DEF Inv, Table
  <2>5. ASSUME NEW c \in Clients PROVE Asking(c)' /\ Held(c)' /\ Ending(c)'
    <3>1. Onward /\ Same(c)
      BY <1>1, <2>1 DEF server, wires, clients, Onward, Same
    <3>2. fd[c] = 0
      BY <1>3 DEF Inv, Held
    <3> QED
      BY <3>1, <3>2, KeptClient
  <2> QED
    BY <2>2, <2>3, <2>4, <2>5 DEF Inv
<1>4. CASE ~(tick /\ mpc = "dead")
  <2>1. ServerTypes'
    BY DEF served, reaper, tick, server, Inv, Types, ServerTypes, Socks
  <2>2. /\ mpc # "dead" /\ mpc' # "dead"
        /\ \/ UNCHANGED <<mpc, rfds>>
           \/ mpc # "recv" /\ mpc' = "select"
    BY <1>4 DEF served, reaper, tick, server
  <2>3. /\ slave' \in [Clients -> {"none", "running", "zombie", "reaped"}]
        /\ \A c \in Clients : slave'[c] = "running" <=> slave[c] = "running"
    BY DEF served, reaper, tick, server, Inv, Types, ServerTypes
  <2> QED
    BY <1>1, <1>2, <2>1, <2>2, <2>3, ServerOnly
<1> QED
  BY <1>3, <1>4
-----------------------------------------------------------------------------
\* A descriptor that is given out is nobody's.
LEMMA FreeOne ==
  ASSUME Inv, Free # {}
  PROVE  /\ First(Free) \in FDs /\ First(Free) > 6 /\ First(Free) # 0
         /\ \A d \in Clients : fd[d] # First(Free)
<1>1. Free \in SUBSET Nat /\ Free \subseteq FDs
  BY Numbers DEF Free
<1>2. First(Free) \in Free
  BY <1>1, FirstIs
<1>3. \A f \in Free : f \in FDs /\ f > 6 /\ \A d \in Clients : fd[d] # f
  BY Numbers DEF Free, Owner
<1> QED
  BY <1>2, <1>3

\* An answer, to a client that has none.
LEMMA AnswerTypes ==
  ASSUME Inv, NEW c \in Clients, Answer(c), answers[c] = 0, cpc' = cpc
  PROVE  /\ answers' \in [Clients -> 0..1] /\ broken' \subseteq Gone'
         /\ answers'[c] \in 0..1 /\ (answers'[c] = 0 <=> c \in Gone)
         /\ \A d \in Clients : d # c => answers'[d] = answers[d] /\ (d \in broken' => d \in broken)
<1>1. Gone' = Gone
  BY DEF Gone
<1>2. answers \in [Clients -> 0..1] /\ broken \subseteq Gone
  BY DEF Inv, Types, WireTypes
<1>3. answers' = [answers EXCEPT ![c] = IF c \in Gone THEN 0 ELSE 1]
  BY DEF Answer
<1>4. broken' \subseteq broken \cup {c} /\ (c \notin Gone => broken' = broken)
  BY DEF Answer
<1> QED
  BY <1>1, <1>2, <1>3, <1>4

\* The next ready socket is the one whose queue the server takes the first client of.
LEMMA NextSocket ==
  ASSUME Inv, NEW s \in 1..Udp, mpc = "serve", s \in rfds
  PROVE  s \in 1..6 /\ backlog[s] # <<>>
  BY Numbers DEF Inv, Watched

\* The server takes client c from its queue and leaves the others alone.
LEMMA Taken ==
  ASSUME Inv, Onward, mpc = "serve", mpc' # "dead", cpc' = cpc, got' = got,
         NEW s \in 1..6, s \in rfds, NEW c \in Clients, c = Head(backlog[s]),
         backlog' = [backlog EXCEPT ![s] = Tail(@)],
         \A d \in Clients : d # c => Same(d) /\ (fd[d] # 0 => fd2svc'[fd[d]] = fd2svc[fd[d]])
  PROVE  /\ backlog' \in [1..Udp -> Seq(Clients)] /\ Queues'
         /\ \A t \in rfds \ {s} : t \in 1..Udp => backlog'[t] # <<>>
         /\ \A d \in Clients : d # c => Asking(d)' /\ Held(d)' /\ Ending(d)'
<1> USE Numbers
<1>1. backlog[s] # <<>>
  BY NextSocket
<1>2. \A d \in Clients : d # Head(backlog[s]) =>
        cpc'[d] = cpc[d] /\ conn'[d] = conn[d] /\ answers'[d] = answers[d] /\ got'[d] = got[d]
  BY DEF Same
<1>3. /\ backlog' \in [1..Udp -> Seq(Clients)] /\ Queues'
      /\ \A t \in 1..6 : t # s => backlog'[t] = backlog[t]
  BY <1>1, <1>2, TailQueues
<1>4. \A t \in rfds \ {s} : t \in 1..Udp => backlog'[t] # <<>>
  BY <1>3 DEF Inv, Watched
<1>5. ASSUME NEW d \in Clients, d # c PROVE Asking(d)' /\ Held(d)' /\ Ending(d)'
  <2>1. fd[d] # 0 => program # "TCP_xdr_server"
    BY DEF Inv, Held
  <2> QED
    BY <1>5, <2>1, KeptClient
<1> QED
  BY <1>3, <1>4, <1>5

\* No client that waits has asked the other sort of socket.
LEMMA TakenKind ==
  ASSUME Inv, NEW s \in 1..Xdr, mpc = "serve", s \in rfds, NEW c \in Clients,
         c = Head(backlog[s])
  PROVE  /\ s \in 1..6 /\ s \in Socks /\ Service[kind[c]] = s /\ kind[c] # "UDPdaytime"
         /\ conn[c] = "queued" /\ answers[c] = 0 /\ got[c] = 0 /\ stored[c] = 0 /\ fd[c] = 0
         /\ slave[c] # "running" /\ cpc[c] # "connect"
         /\ kind[c] = "TCPdaytime" => cpc[c] # "end"
         /\ (cpc[c] = "end" /\ sent[c]) => kind[c] = "TCP_xdr_client"
         /\ (c \in broken /\ program = "exc_14_3") => cpc[c] = "killed"
<1> USE Numbers
<1>1. s \in 1..6 /\ backlog[s] # <<>>
  BY NextSocket
<1>2. /\ s = Service[kind[c]] /\ s \in Socks /\ cpc[c] # "connect"
      /\ fd[c] = 0 /\ slave[c] # "running" /\ answers[c] = 0 /\ got[c] = 0
      /\ conn[c] = "queued" /\ stored[c] = 0 /\ kind[c] # "UDPdaytime"
  BY <1>1, HeadIs
<1> QED
  BY <1>1, <1>2 DEF Inv, Ending

\* A connection is kept.
LEMMA AcceptKeepInv ==
  ASSUME Inv, NEW s \in 1..Xdr, NEW c \in Clients, accept_keep(s, c)
  PROVE  Inv'
<1> USE Numbers DEF tables, clients
<1> DEFINE f == First(Free)
<1>1. /\ mpc = "serve" /\ s \in rfds /\ c = Head(backlog[s]) /\ Free # {}
      /\ program = "TCPmdaytimed" \/ (program = "exc_14_3" /\ s # Daytime)
      /\ rfds' = rfds \ {s} /\ backlog' = [backlog EXCEPT ![s] = Tail(@)]
      /\ fd' = [fd EXCEPT ![c] = f] /\ afds' = afds \cup {f}
      /\ fd2svc' = IF program = "exc_14_3" THEN [fd2svc EXCEPT ![f] = s] ELSE fd2svc
      /\ conn' = [conn EXCEPT ![c] = "open"]
      /\ UNCHANGED <<program, kind, mpc, slave, sigchld, tables, sent, answers, broken, clients,
                     lost, faults>>
  BY DEF accept_keep, Accepting, Accepted
<1>2. f \in FDs /\ f > 6 /\ f # 0 /\ \A d \in Clients : fd[d] # f
  BY <1>1, FreeOne
<1> HIDE DEF f
<1>3. /\ s \in 1..6 /\ s \in Socks /\ Service[kind[c]] = s /\ kind[c] # "UDPdaytime"
      /\ conn[c] = "queued" /\ answers[c] = 0 /\ got[c] = 0 /\ stored[c] = 0 /\ fd[c] = 0
      /\ slave[c] # "running" /\ cpc[c] # "connect"
      /\ kind[c] = "TCPdaytime" => cpc[c] # "end"
      /\ (cpc[c] = "end" /\ sent[c]) => kind[c] = "TCP_xdr_client"
      /\ (c \in broken /\ program = "exc_14_3") => cpc[c] = "killed"
  BY <1>1, TakenKind
<1>4. /\ fd'[c] = f /\ conn'[c] = "open" /\ (program = "exc_14_3" => fd2svc'[f] = s)
      /\ \A d \in Clients : d # c => /\ fd'[d] = fd[d] /\ conn'[d] = conn[d]
                                     /\ fd[d] # 0 => fd2svc'[fd[d]] = fd2svc[fd[d]]
  BY <1>1, <1>2 DEF Inv, Types, ServerTypes, WireTypes
<1>5. Onward /\ \A d \in Clients : d # c => Same(d) /\ (fd[d] # 0 => fd2svc'[fd[d]] = fd2svc[fd[d]])
  BY <1>1, <1>4 DEF Onward, Same
<1>6. /\ backlog' \in [1..Udp -> Seq(Clients)] /\ Queues'
      /\ \A t \in rfds \ {s} : t \in 1..Udp => backlog'[t] # <<>>
      /\ \A d \in Clients : d # c => Asking(d)' /\ Held(d)' /\ Ending(d)'
  BY <1>1, <1>3, <1>5, Taken
<1>7. Types'
  <2>1. fd2svc' \in [FDs -> {0, Echo, Chargen, Time}]
    <3>1. program = "exc_14_3" => s \in {0, Echo, Chargen, Time}
      BY <1>1, <1>3, Sockets DEF Inv, Types, ServerTypes
    <3> QED
      BY <1>1, <1>2, <3>1 DEF Inv, Types, ServerTypes
  <2>2. ServerTypes'
    BY <1>1, <1>2, <2>1 DEF Inv, Types, ServerTypes, Socks
  <2>3. WireTypes'
    BY <1>1, <1>6 DEF Inv, Types, WireTypes, Gone
  <2>4. TableTypes' /\ ClientTypes'
    BY <1>1 DEF Inv, Types, TableTypes, ClientTypes
  <2> QED
    BY <2>2, <2>3, <2>4 DEF Types
<1>8. Watched'
  <2>1. \A d, e \in Clients : (fd'[d] = fd'[e] /\ fd'[d] # 0) => d = e
    BY <1>2, <1>4 DEF Inv, Watched
  <2>2. \A g \in afds' : \E d \in Clients : fd'[d] = g
    <3>1. \A g \in afds : \E d \in Clients : fd[d] = g /\ d # c
      BY <1>1, <1>3 DEF Inv, Watched, Types, ServerTypes
    <3> QED
      BY <1>1, <1>4, <3>1
  <2> QED
    BY <1>1, <1>6, <2>1, <2>2 DEF Watched
<1>9. Table'
  BY <1>1, KeptTable
<1>10. Asking(c)'
  BY <1>1, <1>3 DEF Inv, Asking, Socks
<1>11. Held(c)'
  BY <1>1, <1>3, <1>4 DEF Held
<1>12. Ending(c)'
  BY <1>1, <1>3, <1>4 DEF Inv, Ending, Excused
<1> QED
  BY <1>6, <1>7, <1>8, <1>9, <1>10, <1>11, <1>12 DEF Inv

\* A DAYTIME connection is answered at once.
LEMMA AcceptAnswerInv ==
  ASSUME Inv, NEW s \in 1..Xdr, NEW c \in Clients, accept_answer(s, c)
  PROVE  Inv'
<1> USE Numbers DEF tables, clients
<1> DEFINE f == First(Free)
           listed == program = "exc_13_5" /\ c \notin Authorised
<1>1. /\ mpc = "serve" /\ s \in rfds /\ c = Head(backlog[s]) /\ Free # {} /\ s = 3
      /\ program \notin {"TCPmdaytimed", "exc_13_1", "exc_10_7"}
      /\ rfds' = rfds \ {s} /\ backlog' = [backlog EXCEPT ![s] = Tail(@)]
      /\ fd' = IF program = "exc_10_5" THEN [fd EXCEPT ![c] = f] ELSE fd
      /\ conn' = [conn EXCEPT ![c] = IF program = "exc_10_5" THEN "open" ELSE "closed"]
      /\ IF listed THEN UNCHANGED <<answers, broken>> ELSE Answer(c)
      /\ UNCHANGED <<program, kind, mpc, afds, fd2svc, slave, sigchld, tables, sent, clients,
                     lost, faults>>
  BY DEF accept_answer, Accepting, Accepted
<1>2. f \in FDs /\ f > 6 /\ f # 0 /\ \A d \in Clients : fd[d] # f
  BY <1>1, FreeOne
<1> HIDE DEF f, listed
<1>3. /\ s \in 1..6 /\ s \in Socks /\ Service[kind[c]] = 3
      /\ conn[c] = "queued" /\ answers[c] = 0 /\ got[c] = 0 /\ stored[c] = 0 /\ fd[c] = 0
      /\ slave[c] # "running" /\ cpc[c] # "connect"
      /\ kind[c] = "TCPdaytime" => cpc[c] # "end"
  BY <1>1, TakenKind
<1>4. kind[c] \in DaytimeKinds /\ kind[c] \notin Writers /\ kind[c] # "TCP_xdr_client"
      /\ kind[c] # "UDPdaytime" /\ ~sent[c]
  <2>1. kind[c] \in DaytimeKinds
    BY <1>3, Services DEF Inv, Types, ServerTypes
  <2> QED
    BY <2>1 DEF Inv, Asking, DaytimeKinds, Writers
<1>5. /\ answers' \in [Clients -> 0..1] /\ broken' \subseteq Gone' /\ answers'[c] \in 0..1
      /\ answers'[c] = 0 => c \in Gone \/ listed
      /\ \A d \in Clients : d # c => answers'[d] = answers[d] /\ (d \in broken' => d \in broken)
  <2>1. CASE listed
    BY <1>1, <1>3, <2>1 DEF Inv, Types, WireTypes, Gone
  <2>2. CASE ~listed
    BY <1>1, <1>3, <2>2, AnswerTypes
  <2> QED
    BY <2>1, <2>2
<1>6. /\ fd'[c] = (IF program = "exc_10_5" THEN f ELSE 0)
      /\ conn'[c] = (IF program = "exc_10_5" THEN "open" ELSE "closed")
      /\ \A d \in Clients : d # c => fd'[d] = fd[d] /\ conn'[d] = conn[d]
  BY <1>1, <1>3 DEF Inv, Types, ServerTypes, WireTypes
<1>7. Onward /\ \A d \in Clients : d # c => Same(d) /\ (fd[d] # 0 => fd2svc'[fd[d]] = fd2svc[fd[d]])
  BY <1>1, <1>5, <1>6 DEF Onward, Same
<1>8. /\ backlog' \in [1..Udp -> Seq(Clients)] /\ Queues'
      /\ \A t \in rfds \ {s} : t \in 1..Udp => backlog'[t] # <<>>
      /\ \A d \in Clients : d # c => Asking(d)' /\ Held(d)' /\ Ending(d)'
  BY <1>1, <1>3, <1>7, Taken
<1>9. Types'
  <2>1. ServerTypes'
    BY <1>1, <1>2 DEF Inv, Types, ServerTypes, Socks
  <2>2. WireTypes'
    BY <1>1, <1>5, <1>8 DEF Inv, Types, WireTypes
  <2>3. TableTypes' /\ ClientTypes'
    BY <1>1 DEF Inv, Types, TableTypes, ClientTypes
  <2> QED
    BY <2>1, <2>2, <2>3 DEF Types
<1>10. Watched'
  <2>1. \A d, e \in Clients : (fd'[d] = fd'[e] /\ fd'[d] # 0) => d = e
    BY <1>2, <1>6 DEF Inv, Watched
  <2>2. \A g \in afds' : \E d \in Clients : fd'[d] = g
    <3>1. \A g \in afds : \E d \in Clients : fd[d] = g /\ d # c
      BY <1>1, <1>3 DEF Inv, Watched, Types, ServerTypes
    <3> QED
      BY <1>1, <1>6, <3>1
  <2>3. afds' # {} => program' \in {"TCPmdaytimed", "exc_14_3"}
    BY <1>1 DEF Inv, Watched
  <2> QED
    BY <1>1, <1>8, <2>1, <2>2, <2>3 DEF Watched
<1>11. Table'
  BY <1>1, KeptTable
<1>12. Asking(c)'
  BY <1>1, <1>3, <1>4, <1>5 DEF Inv, Asking, Socks
<1>13. Held(c)'
  BY <1>1, <1>3, <1>4, <1>6 DEF Held
<1>14. Ending(c)'
  BY <1>1, <1>3, <1>4, <1>5, <1>6 DEF Ending, Excused, Gone, listed
<1> QED
  BY <1>8, <1>9, <1>10, <1>11, <1>12, <1>13, <1>14 DEF Inv

\* A slave gets the connection, or fork fails.
LEMMA AcceptForkInv ==
  ASSUME Inv, NEW s \in 1..Xdr, NEW c \in Clients, accept_fork(s, c)
  PROVE  Inv'
<1> USE Numbers DEF tables, clients
<1>1. /\ mpc = "serve" /\ s \in rfds /\ c = Head(backlog[s]) /\ program = "exc_13_1"
      /\ UNCHANGED <<program, kind, afds, fd2svc, sigchld, tables, sent, answers, broken, clients,
                     lost>>
  BY DEF accept_fork, Accepting
<1>2. CASE Fault /\ errexit /\ UNCHANGED slave
  BY <1>1, <1>2, ErrexitInv DEF Inv, Types, ClientTypes, Fault
<1>3. CASE /\ rfds' = rfds \ {s} /\ backlog' = [backlog EXCEPT ![s] = Tail(@)]
           /\ slave' = [slave EXCEPT ![c] = "running"]
           /\ conn' = [conn EXCEPT ![c] = "open"]
           /\ UNCHANGED <<mpc, fd, faults>>
  <2>1. /\ s \in 1..6 /\ s \in Socks /\ Service[kind[c]] = s
        /\ conn[c] = "queued" /\ answers[c] = 0 /\ got[c] = 0 /\ stored[c] = 0 /\ fd[c] = 0
        /\ cpc[c] # "connect" /\ kind[c] # "UDPdaytime"
        /\ kind[c] = "TCPdaytime" => cpc[c] # "end"
    BY <1>1, TakenKind
  <2>2. kind[c] \in DaytimeKinds /\ kind[c] # "TCP_xdr_client" /\ ~sent[c]
    <3>1. s = 3
      BY <1>1, <2>1, Sockets DEF Inv, Types, ServerTypes
    <3>2. kind[c] \in DaytimeKinds
      BY <2>1, <3>1, Services DEF Inv, Types, ServerTypes
    <3> QED
      BY <3>2 DEF Inv, Asking, DaytimeKinds, Writers
  <2>3. /\ slave'[c] = "running" /\ conn'[c] = "open"
        /\ \A d \in Clients : d # c => slave'[d] = slave[d] /\ conn'[d] = conn[d]
    BY <1>3 DEF Inv, Types, ServerTypes, WireTypes
  <2>4. Onward /\ \A d \in Clients : d # c => Same(d) /\ (fd[d] # 0 => fd2svc'[fd[d]] = fd2svc[fd[d]])
    BY <1>1, <1>3, <2>3 DEF Onward, Same
  <2>5. /\ backlog' \in [1..Udp -> Seq(Clients)] /\ Queues'
        /\ \A t \in rfds \ {s} : t \in 1..Udp => backlog'[t] # <<>>
        /\ \A d \in Clients : d # c => Asking(d)' /\ Held(d)' /\ Ending(d)'
    BY <1>1, <1>3, <2>1, <2>4, Taken
  <2>6. Types'
    <3>1. ServerTypes'
      BY <1>1, <1>3 DEF Inv, Types, ServerTypes, Socks
    <3>2. WireTypes'
      BY <1>1, <1>3, <2>5 DEF Inv, Types, WireTypes, Gone
    <3>3. TableTypes' /\ ClientTypes'
      BY <1>1, <1>3 DEF Inv, Types, TableTypes, ClientTypes
    <3> QED
      BY <3>1, <3>2, <3>3 DEF Types
  <2>7. Watched'
    BY <1>1, <1>3, <2>5 DEF Inv, Watched
  <2>8. Table'
    BY <1>1, KeptTable
  <2>9. Asking(c)'
    BY <1>1, <1>3, <2>1 DEF Inv, Asking, Socks
  <2>10. Held(c)'
    BY <1>1, <1>3, <2>1, <2>3 DEF Held
  <2>11. Ending(c)'
    BY <1>1, <1>3, <2>1, <2>2, <2>3 DEF Ending
  <2> QED
    BY <2>5, <2>6, <2>7, <2>8, <2>9, <2>10, <2>11 DEF Inv
<1> QED
  BY <1>2, <1>3 DEF accept_fork, Accepted

\* accept fails, and ends the server.
LEMMA AcceptFailsInv ==
  ASSUME Inv, NEW s \in 1..Xdr, NEW c \in Clients, accept_fails(s, c)
  PROVE  Inv'
<1>1. mpc # "dead" /\ errexit
      /\ UNCHANGED <<program, kind, afds, fd2svc, slave, sigchld, tables, sent, answers, broken,
                     clients, lost>>
  BY DEF accept_fails, Accepting
<1>2. faults' \in 0..Faults
  BY Numbers DEF accept_fails, Fault, Inv, Types, ClientTypes
<1> QED
  BY <1>1, <1>2, ErrexitInv

\* The iterative XDR server accepts.
LEMMA AcceptXdrInv ==
  ASSUME Inv, NEW s \in 1..Xdr, NEW c \in Clients, accept_xdr(s, c)
  PROVE  Inv'
<1> USE Numbers DEF tables, clients
<1> DEFINE f == First(Free)
<1>1. /\ mpc = "serve" /\ s \in rfds /\ c = Head(backlog[s]) /\ Free # {}
      /\ program = "TCP_xdr_server" /\ mpc' = "recv" /\ rfds' = {f}
      /\ backlog' = [backlog EXCEPT ![s] = Tail(@)]
      /\ fd' = [fd EXCEPT ![c] = f] /\ conn' = [conn EXCEPT ![c] = "open"]
      /\ UNCHANGED <<program, kind, afds, fd2svc, slave, sigchld, tables, sent, answers, broken,
                     clients, lost, faults>>
  BY DEF accept_xdr, Accepting
<1>2. f \in FDs /\ f > 6 /\ f # 0 /\ \A d \in Clients : fd[d] # f
  BY <1>1, FreeOne
<1> HIDE DEF f
<1>3. /\ s \in 1..6 /\ s \in Socks /\ Service[kind[c]] = s /\ kind[c] # "UDPdaytime"
      /\ conn[c] = "queued" /\ answers[c] = 0 /\ got[c] = 0 /\ stored[c] = 0 /\ fd[c] = 0
      /\ slave[c] # "running" /\ cpc[c] # "connect"
      /\ kind[c] = "TCPdaytime" => cpc[c] # "end"
      /\ (cpc[c] = "end" /\ sent[c]) => kind[c] = "TCP_xdr_client"
  BY <1>1, TakenKind
<1>4. /\ fd'[c] = f /\ conn'[c] = "open"
      /\ \A d \in Clients : d # c => fd'[d] = fd[d] /\ conn'[d] = conn[d]
  BY <1>1 DEF Inv, Types, ServerTypes, WireTypes
<1>5. Onward /\ \A d \in Clients : d # c => Same(d) /\ (fd[d] # 0 => fd2svc'[fd[d]] = fd2svc[fd[d]])
  BY <1>1, <1>4 DEF Onward, Same
<1>6. /\ backlog' \in [1..Udp -> Seq(Clients)] /\ Queues'
      /\ \A d \in Clients : d # c => Asking(d)' /\ Held(d)' /\ Ending(d)'
  BY <1>1, <1>3, <1>5, Taken
<1>7. Types'
  <2>1. ServerTypes'
    BY <1>1, <1>2 DEF Inv, Types, ServerTypes, Socks
  <2>2. WireTypes'
    BY <1>1, <1>6 DEF Inv, Types, WireTypes, Gone
  <2>3. TableTypes' /\ ClientTypes'
    BY <1>1 DEF Inv, Types, TableTypes, ClientTypes
  <2> QED
    BY <2>1, <2>2, <2>3 DEF Types
<1>8. Watched'
  <2>1. \A d, e \in Clients : (fd'[d] = fd'[e] /\ fd'[d] # 0) => d = e
    BY <1>2, <1>4 DEF Inv, Watched
  <2>2. afds' = {}
    BY <1>1 DEF Inv, Watched
  <2> QED
    BY <1>1, <1>2, <2>1, <2>2 DEF Watched
<1>9. Table'
  BY <1>1, KeptTable
<1>10. Asking(c)'
  BY <1>1, <1>3 DEF Inv, Asking, Socks
<1>11. Held(c)'
  BY <1>1, <1>3, <1>4 DEF Held
<1>12. Ending(c)'
  BY <1>1, <1>3, <1>4 DEF Inv, Ending, Excused
<1> QED
  BY <1>6, <1>7, <1>8, <1>9, <1>10, <1>11, <1>12 DEF Inv

\* A datagram.
LEMMA RecvfromInv == ASSUME Inv, NEW c \in Clients, recvfrom(c) PROVE Inv'
<1> USE Numbers DEF tables, clients
<1>1. /\ mpc = "serve" /\ 6 \in rfds /\ c = Head(backlog[6])
      /\ rfds' = rfds \ {6} /\ backlog' = [backlog EXCEPT ![6] = Tail(@)]
      /\ UNCHANGED <<program, kind, mpc, afds, fd2svc, fd, slave, sigchld, tables, conn, sent,
                     broken, clients, lost, faults>>
      /\ \/ UNCHANGED answers
         \/ answers' = [answers EXCEPT ![c] = @ + 1]
  BY DEF recvfrom, Accepted
<1>2. 6 \in 1..6 /\ backlog[6] # <<>>
  BY <1>1, NextSocket
<1>3. /\ cpc[c] # "connect" /\ answers[c] = 0 /\ got[c] = 0 /\ fd[c] = 0 /\ slave[c] # "running"
      /\ conn[c] = "new" /\ kind[c] = "UDPdaytime"
  BY <1>1, <1>2, HeadIs
<1>4. /\ answers' \in [Clients -> 0..1] /\ answers'[c] \in 0..1
      /\ \A d \in Clients : d # c => answers'[d] = answers[d]
  <2>1. answers \in [Clients -> 0..1]
    BY DEF Inv, Types, WireTypes
  <2>2. answers' = answers \/ answers' = [answers EXCEPT ![c] = 1]
    BY <1>1, <1>3
  <2> QED
    BY <2>1, <2>2
<1>5. Onward /\ \A d \in Clients : d # c => Same(d) /\ (fd[d] # 0 => fd2svc'[fd[d]] = fd2svc[fd[d]])
  BY <1>1, <1>4 DEF Onward, Same
<1>6. /\ backlog' \in [1..Udp -> Seq(Clients)] /\ Queues'
      /\ \A t \in rfds \ {6} : t \in 1..Udp => backlog'[t] # <<>>
      /\ \A d \in Clients : d # c => Asking(d)' /\ Held(d)' /\ Ending(d)'
  BY <1>1, <1>2, <1>5, Taken
<1>7. Types'
  BY <1>1, <1>4, <1>6 DEF Inv, Types, ServerTypes, TableTypes, WireTypes, ClientTypes, Socks, Gone
<1>8. Watched'
  BY <1>1, <1>6 DEF Inv, Watched
<1>9. Table'
  BY <1>1, KeptTable
<1>10. ~sent[c] /\ kind[c] \notin Writers
  BY <1>3 DEF Inv, Asking, Writers
<1>11. Asking(c)'
  BY <1>1, <1>3, <1>4, <1>10 DEF Inv, Asking, Socks
<1>12. Held(c)'
  BY <1>1, <1>3 DEF Held
<1>13. Ending(c)'
  BY <1>1, <1>3 DEF Inv, Ending
<1> QED
  BY <1>6, <1>7, <1>8, <1>9, <1>11, <1>12, <1>13 DEF Inv
-----------------------------------------------------------------------------
\* Entries of ConnTable that keep their closeTm or lose it.
LEMMA TableLoses ==
  ASSUME Inv, UNCHANGED <<now, stored>>,
         \A i \in Entries : ConnTable'[i].closeTm = 0 \/ ConnTable'[i].closeTm = ConnTable[i].closeTm
  PROVE  Table'
<1>1. Timed' \subseteq Timed /\ \A i \in Timed' : ConnTable'[i].closeTm = ConnTable[i].closeTm
  BY DEF Timed
<1>2. PICK w \in [Timed -> Clients] : /\ \A i \in Timed : stored[w[i]] = ConnTable[i].closeTm
                                      /\ \A i, j \in Timed : w[i] = w[j] => i = j
  BY DEF Inv, Table
<1> DEFINE v == [i \in Timed' |-> w[i]]
<1>3. /\ v \in [Timed' -> Clients]
      /\ \A i \in Timed' : stored[v[i]] = ConnTable'[i].closeTm
      /\ \A i, j \in Timed' : v[i] = v[j] => i = j
  BY <1>1, <1>2
<1>4. \A i \in Entries : ConnTable'[i].closeTm <= now
  <2>1. now \in Nat /\ 0 <= now
    BY Numbers DEF Inv, Types, TableTypes
  <2> QED
    BY <2>1 DEF Inv, Table
<1>5. \A c \in Clients : stored[c] <= now
  BY DEF Inv, Table
<1> HIDE DEF v
<1>6. \E u \in [Timed' -> Clients] : /\ \A i \in Timed' : stored[u[i]] = ConnTable'[i].closeTm
                                     /\ \A i, j \in Timed' : u[i] = u[j] => i = j
  BY <1>3
<1> QED
  BY <1>4, <1>5, <1>6 DEF Table

\* What preprocessingRequest leaves of the table.
TableNow == [i \in Entries |-> IF Expired(ConnTable[i]) THEN NoSlot ELSE ConnTable[i]]

\* exc_10_7 accepts: the client is answered and kept, or turned away.
LEMMA PreprocessingInv ==
  ASSUME Inv, NEW s \in 1..Xdr, NEW c \in Clients, preprocessingRequest(s, c)
  PROVE  Inv'
<1> USE Numbers DEF tables, clients
<1> DEFINE f == First(Free)
           slots == {i \in Entries : TableNow[i] = NoSlot}
<1>1. /\ mpc = "serve" /\ s \in rfds /\ c = Head(backlog[s]) /\ Free # {}
      /\ program = "exc_10_7" /\ backlog' = [backlog EXCEPT ![s] = Tail(@)]
      /\ UNCHANGED <<program, kind, afds, fd2svc, slave, sigchld, now, stored, sent, clients,
                     lost, faults>>
      /\ IF slots = {}
         THEN /\ ConnTable' = TableNow /\ refused' = refused \cup {c}
              /\ conn' = [conn EXCEPT ![c] = "closed"] /\ rfds' = {}
              /\ UNCHANGED <<mpc, fd, answers, broken>>
         ELSE /\ \E p \in Ports(c) : ConnTable' = [TableNow EXCEPT ![First(slots)].port = p]
              /\ mpc' = "post" /\ Answer(c)
              /\ fd' = [fd EXCEPT ![c] = f]
              /\ conn' = [conn EXCEPT ![c] = "open"] /\ rfds' = {f}
              /\ UNCHANGED refused
  BY DEF preprocessingRequest, Accepting, TableNow, Entries
<1>2. f \in FDs /\ f > 6 /\ f # 0 /\ \A d \in Clients : fd[d] # f
  BY <1>1, FreeOne
<1>3. /\ s \in 1..6 /\ s \in Socks /\ Service[kind[c]] = s /\ kind[c] # "UDPdaytime"
      /\ conn[c] = "queued" /\ answers[c] = 0 /\ got[c] = 0 /\ stored[c] = 0 /\ fd[c] = 0
      /\ slave[c] # "running" /\ cpc[c] # "connect"
      /\ kind[c] = "TCPdaytime" => cpc[c] # "end"
  BY <1>1, TakenKind
<1>4. kind[c] \in DaytimeKinds /\ kind[c] \notin Writers /\ kind[c] # "TCP_xdr_client" /\ ~sent[c]
  <2>1. s = 3
    BY <1>1, <1>3, Sockets DEF Inv, Types, ServerTypes
  <2>2. kind[c] \in DaytimeKinds
    BY <1>3, <2>1, Services DEF Inv, Types, ServerTypes
  <2> QED
    BY <2>2 DEF Inv, Asking, DaytimeKinds, Writers
<1>5. /\ ConnTable' \in [Entries -> [port : Int, closeTm : Nat]]
      /\ \A i \in Entries : ConnTable'[i].closeTm = 0 \/ ConnTable'[i].closeTm = ConnTable[i].closeTm
  <2>1. /\ TableNow \in [Entries -> [port : Int, closeTm : Nat]]
        /\ \A i \in Entries : TableNow[i].closeTm = 0 \/ TableNow[i].closeTm = ConnTable[i].closeTm
    BY DEF TableNow, NoSlot, Inv, Types, TableTypes
  <2>2. CASE slots = {}
    BY <1>1, <2>1, <2>2
  <2>3. CASE slots # {}
    <3>1. Ports(c) \subseteq Int
      BY ConstantsAssumption DEF Ports
    <3> HIDE DEF slots
    <3> DEFINE k == First(slots)
    <3>2. PICK p \in Int : ConnTable' = [TableNow EXCEPT ![k].port = p]
      BY <1>1, <2>3, <3>1
    <3> HIDE DEF k
    <3>3. \A i \in Entries : ConnTable'[i] = IF i = k THEN [TableNow[i] EXCEPT !.port = p]
                                                      ELSE TableNow[i]
      BY <2>1, <3>2
    <3>4. \A i \in Entries : ConnTable'[i].closeTm = TableNow[i].closeTm
      BY <2>1, <3>3
    <3>5. ConnTable' \in [Entries -> [port : Int, closeTm : Nat]]
      BY <2>1, <3>2
    <3> QED
      BY <2>1, <3>4, <3>5
  <2> QED
    BY <2>2, <2>3
<1> HIDE DEF slots, f
<1>6. /\ answers' \in [Clients -> 0..1] /\ broken' \subseteq Gone' /\ answers'[c] \in 0..1
      /\ answers'[c] = 0 => slots = {} \/ c \in Gone
      /\ \A d \in Clients : d # c => answers'[d] = answers[d] /\ (d \in broken' => d \in broken)
  <2>1. CASE slots = {}
    BY <1>1, <1>3, <2>1 DEF Inv, Types, WireTypes, Gone
  <2>2. CASE slots # {}
    BY <1>1, <1>3, <2>2, AnswerTypes
  <2> QED
    BY <2>1, <2>2
<1>7. /\ fd' \in [Clients -> {0} \cup FDs] /\ fd'[c] = (IF slots = {} THEN 0 ELSE f)
      /\ conn' \in [Clients -> {"new", "queued", "open", "closed"}]
      /\ conn'[c] = (IF slots = {} THEN "closed" ELSE "open")
      /\ \A d \in Clients : d # c => fd'[d] = fd[d] /\ conn'[d] = conn[d]
      /\ mpc' = (IF slots = {} THEN "serve" ELSE "post")
      /\ rfds' \subseteq FDs /\ (slots = {} => rfds' = {} /\ c \in refused')
      /\ refused \subseteq refused' /\ refused' \subseteq Clients
  <2>1. /\ fd \in [Clients -> {0} \cup FDs] /\ refused \subseteq Clients
        /\ conn \in [Clients -> {"new", "queued", "open", "closed"}]
    BY DEF Inv, Types, ServerTypes, WireTypes, TableTypes
  <2>2. CASE slots = {}
    BY <1>1, <1>3, <2>1, <2>2
  <2>3. CASE slots # {}
    BY <1>1, <1>2, <2>1, <2>3
  <2> QED
    BY <2>2, <2>3
<1>8. Onward /\ \A d \in Clients : d # c => Same(d) /\ (fd[d] # 0 => fd2svc'[fd[d]] = fd2svc[fd[d]])
  BY <1>1, <1>6, <1>7 DEF Onward, Same
<1>9. /\ backlog' \in [1..Udp -> Seq(Clients)] /\ Queues'
      /\ \A t \in rfds \ {s} : t \in 1..Udp => backlog'[t] # <<>>
      /\ \A d \in Clients : d # c => Asking(d)' /\ Held(d)' /\ Ending(d)'
  BY <1>1, <1>3, <1>7, <1>8, Taken
<1>10. Types'
  <2>1. ServerTypes'
    BY <1>1, <1>7 DEF Inv, Types, ServerTypes, Socks
  <2>2. WireTypes'
    BY <1>1, <1>6, <1>7, <1>9 DEF Inv, Types, WireTypes
  <2>3. TableTypes' /\ ClientTypes'
    BY <1>1, <1>5, <1>7 DEF Inv, Types, TableTypes, ClientTypes
  <2> QED
    BY <2>1, <2>2, <2>3 DEF Types
<1>11. Watched'
  <2>1. \A d, e \in Clients : (fd'[d] = fd'[e] /\ fd'[d] # 0) => d = e
    BY <1>2, <1>7 DEF Inv, Watched
  <2>2. afds' = {}
    BY <1>1 DEF Inv, Watched
  <2>3. \A t \in rfds' : t > 6
    BY <1>7
  <2> QED
    BY <1>1, <1>7, <2>1, <2>2, <2>3 DEF Watched
<1>12. Table'
  BY <1>1, <1>5, TableLoses
<1>13. Asking(c)'
  BY <1>1, <1>3, <1>4, <1>6 DEF Inv, Asking, Socks
<1>14. Held(c)'
  BY <1>1, <1>3, <1>6, <1>7 DEF Held, Gone
<1>15. Ending(c)'
  BY <1>1, <1>3, <1>4, <1>6, <1>7 DEF Ending, Excused, Gone
<1> QED
  BY <1>9, <1>10, <1>11, <1>12, <1>13, <1>14, <1>15 DEF Inv
-----------------------------------------------------------------------------
\* What Close leaves.
LEMMA Closed ==
  ASSUME Inv, NEW c \in Clients, fd[c] # 0, Close(c)
  PROVE  /\ fd' \in [Clients -> {0} \cup FDs] /\ afds' \subseteq afds
         /\ fd2svc' \in [FDs -> {0, Echo, Chargen, Time}]
         /\ conn' \in [Clients -> {"new", "queued", "open", "closed"}]
         /\ fd'[c] = 0 /\ conn'[c] = "closed"
         /\ \A d \in Clients : d # c => /\ fd'[d] = fd[d] /\ conn'[d] = conn[d]
                                        /\ fd[d] # 0 => fd2svc'[fd[d]] = fd2svc[fd[d]]
         /\ \A d, e \in Clients : (fd'[d] = fd'[e] /\ fd'[d] # 0) => d = e
         /\ mpc # "dead" => \A g \in afds' : \E d \in Clients : fd'[d] = g
<1>1. /\ fd \in [Clients -> {0} \cup FDs] /\ fd2svc \in [FDs -> {0, Echo, Chargen, Time}]
      /\ conn \in [Clients -> {"new", "queued", "open", "closed"}]
  BY DEF Inv, Types, ServerTypes, WireTypes
<1>2. fd[c] \in FDs /\ \A d \in Clients : (fd[d] = fd[c] => d = c)
  BY <1>1 DEF Inv, Watched
<1>3. /\ fd' = [fd EXCEPT ![c] = 0] /\ conn' = [conn EXCEPT ![c] = "closed"]
      /\ fd2svc' = [fd2svc EXCEPT ![fd[c]] = 0] /\ afds' = afds \ {fd[c]}
  BY DEF Close
<1>4. /\ fd' \in [Clients -> {0} \cup FDs] /\ afds' \subseteq afds
      /\ fd2svc' \in [FDs -> {0, Echo, Chargen, Time}]
      /\ conn' \in [Clients -> {"new", "queued", "open", "closed"}]
      /\ fd'[c] = 0 /\ conn'[c] = "closed"
      /\ \A d \in Clients : d # c => fd'[d] = fd[d] /\ conn'[d] = conn[d]
  BY <1>1, <1>3
<1>5. \A d \in Clients : (d # c /\ fd[d] # 0) => fd2svc'[fd[d]] = fd2svc[fd[d]]
  BY <1>1, <1>2, <1>3
<1>6. \A d, e \in Clients : (fd'[d] = fd'[e] /\ fd'[d] # 0) => d = e
  BY <1>4 DEF Inv, Watched
<1>7. ASSUME mpc # "dead", NEW g \in afds' PROVE \E d \in Clients : fd'[d] = g
  <2>1. PICK d \in Clients : fd[d] = g
    BY <1>3, <1>7 DEF Inv, Watched
  <2> QED
    BY <1>3, <1>4, <1>7, <2>1
<1> QED
  BY <1>4, <1>5, <1>6, <1>7

\* A step of the server that leaves the queues alone, and all clients but one whose
\* connection is open.
LEMMA Worked ==
  ASSUME Inv, Onward, backlog' = backlog, cpc' = cpc, got' = got, mpc' = "dead" => mpc = "dead",
         NEW c \in Clients, conn[c] = "open",
         \A d \in Clients : d # c => /\ Same(d)
                                     /\ fd[d] # 0 => /\ program # "TCP_xdr_server"
                                                     /\ fd2svc'[fd[d]] = fd2svc[fd[d]]
  PROVE  Queues' /\ \A d \in Clients : d # c => Asking(d)' /\ Held(d)' /\ Ending(d)'
<1>1. kind[c] # "UDPdaytime"
  BY DEF Inv, Held
<1>2. \A d \in Clients : /\ cpc[d] # "connect" => cpc'[d] # "connect"
                         /\ conn[d] = "queued" => conn'[d] = "queued"
                         /\ kind[d] = "UDPdaytime" /\ answers[d] = 0 /\ got[d] = 0
                              => answers'[d] = 0 /\ got'[d] = 0
  BY <1>1 DEF Same
<1>3. Queues'
  BY <1>2, KeptQueues
<1>4. ASSUME NEW d \in Clients, d # c PROVE Asking(d)' /\ Held(d)' /\ Ending(d)'
  <2>1. fd[d] # 0 => mpc' # "dead"
    BY DEF Inv, Held
  <2> QED
    BY <1>4, <2>1, KeptClient
<1> QED
  BY <1>3, <1>4

\* The connection served is one that select found.
LEMMA Served ==
  ASSUME Inv, NEW c \in Clients, Serving(c)
  PROVE  /\ mpc = "serve" /\ fd[c] \in rfds /\ fd[c] # 0 /\ fd[c] \in FDs /\ fd[c] > 6
         /\ conn[c] = "open" /\ stored[c] = 0 /\ program # "TCP_xdr_server"
<1>1. rfds \in SUBSET Nat /\ rfds # {} /\ 0 \notin rfds /\ fd[c] \in {0} \cup FDs
  <2>1. Socks \subseteq 1..6 /\ FDs \subseteq Nat
    BY Sockets, Numbers DEF Inv, Types, ServerTypes
  <2>2. rfds \subseteq Socks \cup FDs /\ fd[c] \in {0} \cup FDs
    BY DEF Inv, Types, ServerTypes
  <2>3. 0 \notin Socks /\ 0 \notin FDs
    BY <2>1, Numbers
  <2> QED
    BY <2>1, <2>2, <2>3 DEF Serving
<1>2. fd[c] \in rfds
  BY <1>1, FirstIs DEF Serving
<1>3. fd[c] # 0 /\ mpc = "serve"
  BY <1>1, <1>2 DEF Serving
<1>4. fd[c] \in FDs /\ fd[c] > 6
  BY <1>1, <1>3, Numbers
<1>5. conn[c] = "open" /\ stored[c] = 0 /\ program # "TCP_xdr_server"
  BY <1>3 DEF Inv, Held
<1> QED
  BY <1>2, <1>3, <1>4, <1>5

\* TCPmdaytimed answers and closes.
LEMMA DaytimedInv == ASSUME Inv, NEW c \in Clients, daytimed(c) PROVE Inv'
<1> USE Numbers DEF tables, clients
<1>1. /\ program = "TCPmdaytimed" /\ Serving(c) /\ rfds' = rfds \ {fd[c]} /\ Close(c) /\ Answer(c)
      /\ UNCHANGED <<program, kind, mpc, slave, sigchld, tables, backlog, sent, clients, lost,
                     faults>>
  BY DEF daytimed
<1>2. mpc = "serve" /\ fd[c] # 0 /\ conn[c] = "open" /\ stored[c] = 0
  BY <1>1, Served
<1>3. /\ answers[c] = 0 /\ got[c] = 0 /\ kind[c] # "UDPdaytime" /\ slave[c] # "running"
      /\ kind[c] = "TCPdaytime" => cpc[c] # "end"
  BY <1>1, <1>2 DEF Inv, Held, Ending
<1>4. kind[c] \in DaytimeKinds /\ kind[c] \notin Writers /\ kind[c] # "TCP_xdr_client" /\ ~sent[c]
  <2>1. Service[kind[c]] = 3
    BY <1>1, Sockets DEF Inv, Types, ServerTypes, Asking
  <2>2. kind[c] \in DaytimeKinds
    BY <2>1, Services DEF Inv, Types, ServerTypes
  <2> QED
    BY <2>2 DEF Inv, Asking, DaytimeKinds, Writers
<1>5. /\ answers' \in [Clients -> 0..1] /\ broken' \subseteq Gone' /\ answers'[c] \in 0..1
      /\ answers'[c] = 0 => c \in Gone
      /\ \A d \in Clients : d # c => answers'[d] = answers[d] /\ (d \in broken' => d \in broken)
  BY <1>1, <1>3, AnswerTypes
<1>6. /\ fd' \in [Clients -> {0} \cup FDs] /\ afds' \subseteq afds
      /\ fd2svc' \in [FDs -> {0, Echo, Chargen, Time}]
      /\ conn' \in [Clients -> {"new", "queued", "open", "closed"}]
      /\ fd'[c] = 0 /\ conn'[c] = "closed"
      /\ \A d \in Clients : d # c => /\ fd'[d] = fd[d] /\ conn'[d] = conn[d]
                                     /\ fd[d] # 0 => fd2svc'[fd[d]] = fd2svc[fd[d]]
      /\ \A d, e \in Clients : (fd'[d] = fd'[e] /\ fd'[d] # 0) => d = e
      /\ mpc # "dead" => \A g \in afds' : \E d \in Clients : fd'[d] = g
  BY <1>1, <1>2, Closed
<1>7. Onward /\ \A d \in Clients : d # c => /\ Same(d)
                                            /\ fd[d] # 0 => /\ program # "TCP_xdr_server"
                                                            /\ fd2svc'[fd[d]] = fd2svc[fd[d]]
  BY <1>1, <1>5, <1>6 DEF Onward, Same
<1>8. Queues' /\ \A d \in Clients : d # c => Asking(d)' /\ Held(d)' /\ Ending(d)'
  BY <1>1, <1>2, <1>7, Worked
<1>9. Types'
  <2>1. ServerTypes'
    BY <1>1, <1>6 DEF Inv, Types, ServerTypes, Socks
  <2>2. WireTypes'
    BY <1>1, <1>5, <1>6 DEF Inv, Types, WireTypes
  <2>3. TableTypes' /\ ClientTypes'
    BY <1>1 DEF Inv, Types, TableTypes, ClientTypes
  <2> QED
    BY <2>1, <2>2, <2>3 DEF Types
<1>10. Watched'
  BY <1>1, <1>2, <1>6 DEF Inv, Watched
<1>11. Table'
  BY <1>1, KeptTable
<1>12. Asking(c)'
  BY <1>1, <1>2, <1>3, <1>4, <1>5 DEF Inv, Asking, Socks
<1>13. Held(c)'
  BY <1>1, <1>3, <1>6 DEF Held
<1>14. Ending(c)'
  BY <1>1, <1>3, <1>4, <1>5, <1>6 DEF Ending, Gone
<1> QED
  BY <1>8, <1>9, <1>10, <1>11, <1>12, <1>13, <1>14 DEF Inv

\* A request of exc_14_3 is answered.
LEMMA SvFuncInv == ASSUME Inv, NEW c \in Clients, sv_func(c) PROVE Inv'
<1> USE Numbers DEF tables, clients
<1>1. /\ program = "exc_14_3" /\ Serving(c) /\ sent[c] /\ rfds' = rfds \ {fd[c]}
      /\ sent' = [sent EXCEPT ![c] = FALSE] /\ Answer(c)
      /\ Close(c) \/ UNCHANGED <<afds, fd2svc, fd, conn>>
      /\ UNCHANGED <<program, kind, mpc, slave, sigchld, tables, backlog, clients, lost, faults>>
  BY DEF sv_func
<1>2. mpc = "serve" /\ fd[c] # 0 /\ conn[c] = "open" /\ stored[c] = 0
  BY <1>1, Served
<1>3. /\ answers[c] = 0 /\ kind[c] \in Writers /\ cpc[c] \in {"read", "end", "killed"}
      /\ kind[c] # "UDPdaytime" /\ kind[c] # "TCPdaytime" /\ slave[c] # "running"
      /\ kind[c] # "TCP_xdr_client"
  <2>1. answers[c] = 0 /\ kind[c] \in Writers /\ cpc[c] \in {"read", "end", "killed"}
    BY <1>1 DEF Inv, Asking
  <2>2. Service[kind[c]] # 5
    BY <1>1, Sockets DEF Inv, Types, ServerTypes, Asking
  <2>3. kind[c] # "TCP_xdr_client"
    BY <2>2, Services DEF Inv, Types, ServerTypes
  <2>4. slave[c] # "running"
    BY <1>1 DEF Inv, Held
  <2> QED
    BY <2>1, <2>3, <2>4 DEF Writers
<1>4. cpc[c] # "end"
  BY <1>1, <1>2, <1>3 DEF Inv, Ending
<1>5. /\ answers' \in [Clients -> 0..1] /\ broken' \subseteq Gone' /\ answers'[c] \in 0..1
      /\ \A d \in Clients : d # c => answers'[d] = answers[d] /\ (d \in broken' => d \in broken)
  BY <1>1, <1>3, AnswerTypes
<1>6. /\ fd' \in [Clients -> {0} \cup FDs] /\ afds' \subseteq afds
      /\ fd2svc' \in [FDs -> {0, Echo, Chargen, Time}]
      /\ conn' \in [Clients -> {"new", "queued", "open", "closed"}]
      /\ \/ fd'[c] = 0 /\ conn'[c] = "closed"
         \/ fd'[c] = fd[c] /\ conn'[c] = "open" /\ fd2svc' = fd2svc
      /\ \A d \in Clients : d # c => /\ fd'[d] = fd[d] /\ conn'[d] = conn[d]
                                     /\ fd[d] # 0 => fd2svc'[fd[d]] = fd2svc[fd[d]]
      /\ \A d, e \in Clients : (fd'[d] = fd'[e] /\ fd'[d] # 0) => d = e
      /\ mpc # "dead" => \A g \in afds' : \E d \in Clients : fd'[d] = g
  <2>1. CASE Close(c)
    BY <1>2, <2>1, Closed
  <2>2. CASE UNCHANGED <<afds, fd2svc, fd, conn>>
    BY <1>2, <2>2 DEF Inv, Types, ServerTypes, WireTypes, Watched
  <2> QED
    BY <1>1, <2>1, <2>2
<1>7. sent' \in [Clients -> BOOLEAN] /\ ~sent'[c] /\ \A d \in Clients : d # c => sent'[d] = sent[d]
  BY <1>1 DEF Inv, Types, WireTypes
<1>8. Onward /\ \A d \in Clients : d # c => /\ Same(d)
                                            /\ fd[d] # 0 => /\ program # "TCP_xdr_server"
                                                            /\ fd2svc'[fd[d]] = fd2svc[fd[d]]
  BY <1>1, <1>5, <1>6, <1>7 DEF Onward, Same
<1>9. Queues' /\ \A d \in Clients : d # c => Asking(d)' /\ Held(d)' /\ Ending(d)'
  BY <1>1, <1>2, <1>8, Worked
<1>10. Types'
  <2>1. ServerTypes'
    BY <1>1, <1>6 DEF Inv, Types, ServerTypes, Socks
  <2>2. WireTypes'
    BY <1>1, <1>5, <1>6, <1>7 DEF Inv, Types, WireTypes
  <2>3. TableTypes' /\ ClientTypes'
    BY <1>1 DEF Inv, Types, TableTypes, ClientTypes
  <2> QED
    BY <2>1, <2>2, <2>3 DEF Types
<1>11. Watched'
  BY <1>1, <1>2, <1>6 DEF Inv, Watched
<1>12. Table'
  BY <1>1, KeptTable
<1>13. Asking(c)'
  BY <1>1, <1>3, <1>7 DEF Inv, Asking, Socks
<1>14. Held(c)'
  BY <1>1, <1>2, <1>3, <1>6 DEF Inv, Held
<1>15. Ending(c)'
  <2>1. c \in broken' => cpc'[c] = "killed"
    BY <1>1, <1>4, <1>5 DEF Gone
  <2> QED
    BY <1>1, <1>3, <1>7, <2>1 DEF Ending
<1> QED
  BY <1>9, <1>10, <1>11, <1>12, <1>13, <1>14, <1>15 DEF Inv

\* The end of a connection of exc_14_3, or of the server.
LEMMA SvFuncEofInv == ASSUME Inv, NEW c \in Clients, sv_func_eof(c) PROVE Inv'
<1> USE Numbers DEF tables, clients
<1>1. /\ program = "exc_14_3" /\ Serving(c) /\ ~sent[c]
      /\ UNCHANGED <<program, kind, slave, sigchld, tables, sent, answers, broken, clients, lost,
                     faults>>
  BY DEF sv_func_eof
<1>2. mpc = "serve" /\ fd[c] # 0 /\ fd[c] \in FDs /\ conn[c] = "open" /\ stored[c] = 0
  BY <1>1, Served
<1>3. CASE errexit /\ UNCHANGED <<afds, fd2svc>>
  BY <1>1, <1>2, <1>3, ErrexitInv DEF Inv, Types, ClientTypes
<1>4. CASE rfds' = rfds \ {fd[c]} /\ Close(c) /\ UNCHANGED <<mpc, backlog>>
  <2>1. /\ kind[c] \notin DaytimeKinds /\ kind[c] # "TCP_xdr_client" /\ kind[c] # "UDPdaytime"
        /\ slave[c] # "running"
    <3>1. fd2svc[fd[c]] = Service[kind[c]] /\ slave[c] # "running"
      BY <1>1, <1>2 DEF Inv, Held
    <3>2. Service[kind[c]] \in {0, 1, 2, 4}
      BY <1>2, <3>1 DEF Inv, Types, ServerTypes
    <3> QED
      BY <3>1, <3>2, Services DEF Inv, Types, ServerTypes
  <2>2. /\ fd' \in [Clients -> {0} \cup FDs] /\ afds' \subseteq afds
        /\ fd2svc' \in [FDs -> {0, Echo, Chargen, Time}]
        /\ conn' \in [Clients -> {"new", "queued", "open", "closed"}]
        /\ fd'[c] = 0 /\ conn'[c] = "closed"
        /\ \A d \in Clients : d # c => /\ fd'[d] = fd[d] /\ conn'[d] = conn[d]
                                       /\ fd[d] # 0 => fd2svc'[fd[d]] = fd2svc[fd[d]]
        /\ \A d, e \in Clients : (fd'[d] = fd'[e] /\ fd'[d] # 0) => d = e
        /\ mpc # "dead" => \A g \in afds' : \E d \in Clients : fd'[d] = g
    BY <1>2, <1>4, Closed
  <2>3. Onward /\ \A d \in Clients : d # c => /\ Same(d)
                                              /\ fd[d] # 0 => /\ program # "TCP_xdr_server"
                                                              /\ fd2svc'[fd[d]] = fd2svc[fd[d]]
    BY <1>1, <1>4, <2>2 DEF Onward, Same
  <2>4. Queues' /\ \A d \in Clients : d # c => Asking(d)' /\ Held(d)' /\ Ending(d)'
    BY <1>1, <1>2, <1>4, <2>3, Worked
  <2>5. Types'
    <3>1. ServerTypes'
      BY <1>1, <1>4, <2>2 DEF Inv, Types, ServerTypes, Socks
    <3>2. WireTypes'
      BY <1>1, <1>4, <2>2 DEF Inv, Types, WireTypes, Gone
    <3>3. TableTypes' /\ ClientTypes'
      BY <1>1 DEF Inv, Types, TableTypes, ClientTypes
    <3> QED
      BY <3>1, <3>2, <3>3 DEF Types
  <2>6. Watched'
    BY <1>1, <1>2, <1>4, <2>2 DEF Inv, Watched
  <2>7. Table'
    BY <1>1, KeptTable
  <2>8. Asking(c)'
    BY <1>1, <1>2, <2>2 DEF Inv, Asking, Socks
  <2>9. Held(c)'
    BY <1>1, <2>1, <2>2 DEF Held
  <2>10. Ending(c)'
    BY <1>1, <2>1, <2>2 DEF Ending, DaytimeKinds
  <2> QED
    BY <2>4, <2>5, <2>6, <2>7, <2>8, <2>9, <2>10 DEF Inv
<1> QED
  BY <1>3, <1>4 DEF sv_func_eof

\* TCP_xdr_server answers a message, or gives up; then it closes.
LEMMA RecvNBytesInv == ASSUME Inv, NEW c \in Clients, recvNBytes(c) PROVE Inv'
<1> USE Numbers DEF tables
<1>1. /\ mpc = "recv" /\ fd[c] \in rfds /\ mpc' = "select" /\ rfds' = {} /\ Close(c)
      /\ \/ /\ sent[c] /\ Answer(c) /\ sent' = [sent EXCEPT ![c] = FALSE] /\ gaveup' = gaveup
         \/ /\ ~sent[c] /\ gaveup' = IF c \in Gone THEN gaveup ELSE gaveup \cup {c}
            /\ UNCHANGED <<answers, broken, sent>>
      /\ UNCHANGED <<program, kind, slave, sigchld, tables, backlog, cpc, round, got, lost, faults>>
  BY DEF recvNBytes
<1>2. program = "TCP_xdr_server" /\ fd[c] # 0
  BY <1>1 DEF Inv, Watched
<1>3. /\ conn[c] = "open" /\ stored[c] = 0 /\ rfds = {fd[c]} /\ kind[c] # "UDPdaytime"
      /\ slave[c] # "running" /\ \A d \in Clients : d # c => fd[d] = 0
  <2>1. conn[c] = "open" /\ stored[c] = 0 /\ rfds = {fd[c]} /\ kind[c] # "UDPdaytime"
        /\ slave[c] # "running"
    BY <1>2 DEF Inv, Held
  <2>2. ASSUME NEW d \in Clients, fd[d] # 0 PROVE d = c
    <3>1. rfds = {fd[d]}
      BY <1>2, <2>2 DEF Inv, Held
    <3>2. fd[d] = fd[c]
      BY <2>1, <3>1
    <3> QED
      BY <2>2, <3>2 DEF Inv, Watched
  <2> QED
    BY <2>1, <2>2
<1>4. kind[c] = "TCP_xdr_client"
  <2>1. Service[kind[c]] = 5
    BY <1>2, Sockets DEF Inv, Types, ServerTypes, Asking
  <2> QED
    BY <2>1, Services DEF Inv, Types, ServerTypes
<1>5. /\ answers' \in [Clients -> 0..1] /\ broken' \subseteq Gone' /\ answers'[c] \in 0..1
      /\ sent' \in [Clients -> BOOLEAN] /\ ~sent'[c]
      /\ gaveup' \subseteq Clients /\ gaveup \subseteq gaveup'
      /\ answers'[c] > 0 \/ c \in Gone \/ c \in gaveup'
      /\ cpc[c] = "write" => answers'[c] = 0 \/ sent[c]
      /\ \A d \in Clients : d # c => /\ answers'[d] = answers[d] /\ sent'[d] = sent[d]
                                     /\ d \in broken' => d \in broken
  <2>1. CASE sent[c] /\ Answer(c) /\ sent' = [sent EXCEPT ![c] = FALSE] /\ gaveup' = gaveup
    <3>1. answers[c] = 0
      BY <2>1 DEF Inv, Asking
    <3>2. /\ answers' \in [Clients -> 0..1] /\ broken' \subseteq Gone'
          /\ answers'[c] \in 0..1 /\ (answers'[c] = 0 <=> c \in Gone)
          /\ \A d \in Clients : d # c => answers'[d] = answers[d] /\ (d \in broken' => d \in broken)
      BY <1>1, <2>1, <3>1, AnswerTypes
    <3>3. /\ sent' \in [Clients -> BOOLEAN] /\ ~sent'[c]
          /\ \A d \in Clients : d # c => sent'[d] = sent[d]
      BY <2>1 DEF Inv, Types, WireTypes
    <3>4. gaveup' \subseteq Clients /\ gaveup \subseteq gaveup'
      BY <2>1 DEF Inv, Types, ClientTypes
    <3> QED
      BY <2>1, <3>2, <3>3, <3>4
  <2>2. CASE /\ ~sent[c] /\ gaveup' = IF c \in Gone THEN gaveup ELSE gaveup \cup {c}
             /\ UNCHANGED <<answers, broken, sent>>
    <3>1. Gone' = Gone
      BY <1>1 DEF Gone
    <3>2. /\ gaveup' \subseteq Clients /\ gaveup \subseteq gaveup' /\ (c \in Gone \/ c \in gaveup')
      BY <2>2 DEF Inv, Types, ClientTypes
    <3>3. cpc[c] = "write" => answers[c] = 0
      BY DEF Inv, Asking
    <3> QED
      BY <2>2, <3>1, <3>2, <3>3 DEF Inv, Types, WireTypes
  <2> QED
    BY <1>1, <2>1, <2>2
<1>6. /\ fd' \in [Clients -> {0} \cup FDs] /\ afds' \subseteq afds
      /\ fd2svc' \in [FDs -> {0, Echo, Chargen, Time}]
      /\ conn' \in [Clients -> {"new", "queued", "open", "closed"}]
      /\ fd'[c] = 0 /\ conn'[c] = "closed"
      /\ \A d \in Clients : d # c => fd'[d] = fd[d] /\ conn'[d] = conn[d]
      /\ \A d, e \in Clients : (fd'[d] = fd'[e] /\ fd'[d] # 0) => d = e
      /\ \A g \in afds' : \E d \in Clients : fd'[d] = g
  BY <1>1, <1>2, Closed
<1>7. Onward /\ \A d \in Clients : d # c => Same(d) /\ fd[d] = 0
  BY <1>1, <1>3, <1>5, <1>6 DEF Onward, Same
<1>8. Queues' /\ \A d \in Clients : d # c => Asking(d)' /\ Held(d)' /\ Ending(d)'
  BY <1>1, <1>3, <1>7, Worked
<1>9. Types'
  <2>1. ServerTypes'
    BY <1>1, <1>6 DEF Inv, Types, ServerTypes, Socks
  <2>2. WireTypes'
    BY <1>1, <1>5, <1>6 DEF Inv, Types, WireTypes
  <2>3. TableTypes' /\ ClientTypes'
    BY <1>1, <1>5 DEF Inv, Types, TableTypes, ClientTypes
  <2> QED
    BY <2>1, <2>2, <2>3 DEF Types
<1>10. Watched'
  <2>1. afds' = {}
    BY <1>2, <1>6 DEF Inv, Watched
  <2> QED
    BY <1>1, <1>6, <2>1 DEF Watched
<1>11. Table'
  BY <1>1, KeptTable
<1>12. Asking(c)'
  <2>1. /\ Service[kind'[c]] \in Socks' /\ cpc'[c] = cpc[c] /\ cpc[c] # "connect"
        /\ cpc'[c] = "write" => kind'[c] \in Writers /\ answers'[c] = 0
    BY <1>1, <1>3, <1>5 DEF Inv, Asking, Socks
  <2>2. /\ got'[c] = got[c] /\ round'[c] = round[c] /\ kind'[c] = kind[c]
        /\ kind[c] \in Writers
    BY <1>1, <1>4 DEF Writers
  <2> QED
    BY <1>5, <2>1, <2>2 DEF Inv, Asking
<1>13. Held(c)'
  BY <1>1, <1>3, <1>6 DEF Held
<1>14. Ending(c)'
  <2>1. got[c] \in Nat
    BY DEF Inv, Types, ClientTypes
  <2>2. got[c] + answers'[c] > 0 \/ c \in Gone \/ Excused(c)'
    BY <1>1, <1>4, <1>5, <2>1 DEF Excused
  <2>3. cpc[c] = "end" => got[c] > 0 \/ Excused(c)'
    BY <1>1, <1>3, <1>4, <1>5 DEF Inv, Ending, Excused
  <2> QED
    BY <1>1, <1>2, <1>4, <1>5, <1>6, <2>2, <2>3 DEF Ending, Gone
<1> QED
  BY <1>8, <1>9, <1>10, <1>11, <1>12, <1>13, <1>14 DEF Inv

\* A slave answers, closes and ends.
LEMMA SlaveEndsInv == ASSUME Inv, NEW c \in Clients, slave_ends(c) PROVE Inv'
<1> USE Numbers DEF tables, clients
<1>1. /\ slave[c] = "running" /\ conn' = [conn EXCEPT ![c] = "closed"] /\ Answer(c)
      /\ slave' = [slave EXCEPT ![c] = IF mpc = "dead" THEN "reaped" ELSE "zombie"]
      /\ sigchld' = (mpc # "dead")
      /\ UNCHANGED <<program, kind, mpc, rfds, afds, fd2svc, fd, tables, backlog, sent, clients,
                     lost, faults>>
  BY DEF slave_ends
<1>2. conn[c] = "open" /\ program = "exc_13_1" /\ answers[c] = 0 /\ got[c] = 0
      /\ kind[c] # "UDPdaytime" /\ cpc[c] # "connect" /\ fd[c] = 0
  BY <1>1 DEF Inv, Held, Asking
<1>3. kind[c] \in DaytimeKinds /\ kind[c] \notin Writers /\ kind[c] # "TCP_xdr_client" /\ ~sent[c]
      /\ (kind[c] = "TCPdaytime" => cpc[c] # "end")
  <2>1. Service[kind[c]] \in {3, 6}
    BY <1>2, Sockets DEF Inv, Types, ServerTypes, Asking
  <2>2. kind[c] \in DaytimeKinds
    BY <1>2, <2>1, Services DEF Inv, Types, ServerTypes
  <2> QED
    BY <1>2, <2>2 DEF Inv, Asking, Ending, DaytimeKinds, Writers
<1>4. /\ answers' \in [Clients -> 0..1] /\ broken' \subseteq Gone' /\ answers'[c] \in 0..1
      /\ answers'[c] = 0 => c \in Gone
      /\ \A d \in Clients : d # c => answers'[d] = answers[d] /\ (d \in broken' => d \in broken)
  BY <1>1, <1>2, AnswerTypes
<1>5. /\ conn' \in [Clients -> {"new", "queued", "open", "closed"}] /\ conn'[c] = "closed"
      /\ slave' \in [Clients -> {"none", "running", "zombie", "reaped"}] /\ slave'[c] # "running"
      /\ \A d \in Clients : d # c => conn'[d] = conn[d] /\ slave'[d] = slave[d]
  BY <1>1 DEF Inv, Types, ServerTypes, WireTypes
<1>6. Onward /\ \A d \in Clients : d # c => /\ Same(d)
                                            /\ fd[d] # 0 => /\ program # "TCP_xdr_server"
                                                            /\ fd2svc'[fd[d]] = fd2svc[fd[d]]
  BY <1>1, <1>2, <1>4, <1>5 DEF Onward, Same
<1>7. Queues' /\ \A d \in Clients : d # c => Asking(d)' /\ Held(d)' /\ Ending(d)'
  BY <1>1, <1>2, <1>6, Worked
<1>8. Types'
  <2>1. ServerTypes'
    BY <1>1, <1>5 DEF Inv, Types, ServerTypes, Socks
  <2>2. WireTypes'
    BY <1>1, <1>4, <1>5 DEF Inv, Types, WireTypes
  <2>3. TableTypes' /\ ClientTypes'
    BY <1>1 DEF Inv, Types, TableTypes, ClientTypes
  <2> QED
    BY <2>1, <2>2, <2>3 DEF Types
<1>9. Watched'
  BY <1>1 DEF Inv, Watched
<1>10. Table'
  BY <1>1, KeptTable
<1>11. Asking(c)'
  BY <1>1, <1>2, <1>3, <1>4 DEF Inv, Asking, Socks
<1>12. Held(c)'
  BY <1>1, <1>2, <1>5 DEF Held
<1>13. Ending(c)'
  BY <1>1, <1>2, <1>3, <1>4, <1>5 DEF Ending, Gone
<1> QED
  BY <1>7, <1>8, <1>9, <1>10, <1>11, <1>12, <1>13 DEF Inv

\* An entry without a time gets the one that client c's connection was closed at.
LEMMA TableGains ==
  ASSUME Inv, now' = now, NEW c \in Clients, stored[c] = 0, NEW k \in Entries,
         ConnTable' = [ConnTable EXCEPT ![k].closeTm = now],
         stored' = [stored EXCEPT ![c] = now]
  PROVE  Table' /\ ConnTable' \in [Entries -> [port : Int, closeTm : Nat]]
<1>1. /\ now \in Nat /\ now > 0 /\ stored \in [Clients -> Nat]
      /\ ConnTable \in [Entries -> [port : Int, closeTm : Nat]]
  BY Numbers DEF Inv, Types, TableTypes
<1>2. ConnTable' = [ConnTable EXCEPT ![k] = [ConnTable[k] EXCEPT !.closeTm = now]]
  OBVIOUS
<1>3. /\ ConnTable' \in [Entries -> [port : Int, closeTm : Nat]]
      /\ \A i \in Entries : ConnTable'[i].closeTm = IF i = k THEN now ELSE ConnTable[i].closeTm
  BY <1>1, <1>2
<1>4. \A d \in Clients : stored'[d] = IF d = c THEN now ELSE stored[d]
  BY <1>1
<1>5. /\ \A i \in Entries : ConnTable'[i].closeTm <= now'
      /\ \A d \in Clients : stored'[d] <= now'
  BY <1>1, <1>3, <1>4 DEF Inv, Table
<1>6. PICK w \in [Timed -> Clients] : /\ \A i \in Timed : stored[w[i]] = ConnTable[i].closeTm
                                      /\ \A i, j \in Timed : w[i] = w[j] => i = j
  BY DEF Inv, Table
<1>7. Timed' = Timed \cup {k}
  BY <1>1, <1>3 DEF Timed
<1>8. \A i \in Timed : w[i] # c
  BY <1>6 DEF Timed
<1> DEFINE v == [i \in Timed' |-> IF i = k THEN c ELSE w[i]]
<1>9. v \in [Timed' -> Clients] /\ \A i, j \in Timed' : v[i] = v[j] => i = j
  BY <1>6, <1>7, <1>8
<1>10. \A i \in Timed' : stored'[v[i]] = ConnTable'[i].closeTm
  <2>1. ASSUME NEW i \in Timed' PROVE stored'[v[i]] = ConnTable'[i].closeTm
    <3>1. CASE i = k
      BY <1>3, <1>4, <3>1
    <3>2. CASE i # k
      <4>1. i \in Timed /\ i \in Entries /\ v[i] = w[i] /\ w[i] # c /\ w[i] \in Clients
        BY <1>6, <1>7, <1>8, <3>2 DEF Timed
      <4> QED
        BY <1>3, <1>4, <1>6, <3>2, <4>1
    <3> QED
      BY <3>1, <3>2
  <2> QED
    BY <2>1
<1> HIDE DEF v
<1>11. \E u \in [Timed' -> Clients] : /\ \A i \in Timed' : stored'[u[i]] = ConnTable'[i].closeTm
                                      /\ \A i, j \in Timed' : u[i] = u[j] => i = j
  BY <1>9, <1>10
<1> QED
  BY <1>3, <1>5, <1>11 DEF Table

\* exc_10_7 stores the time and closes, if it finds the port.
LEMMA PostprocessingInv == ASSUME Inv, NEW c \in Clients, postprocessingReply(c) PROVE Inv'
<1> USE Numbers DEF tables, clients
<1>1. /\ mpc = "post" /\ fd[c] \in rfds /\ mpc' = "select" /\ rfds' = {}
      /\ UNCHANGED <<program, kind, afds, fd2svc, slave, sigchld, now, refused, backlog, sent,
                     answers, broken, clients, lost, faults>>
  BY DEF postprocessingReply
<1>2. program = "exc_10_7" /\ fd[c] # 0
  BY <1>1 DEF Inv, Watched
<1>3. /\ conn[c] = "open" /\ stored[c] = 0 /\ kind[c] # "UDPdaytime" /\ slave[c] # "running"
      /\ got[c] + answers[c] > 0 \/ c \in Gone
  BY <1>2 DEF Inv, Held
<1>4. kind[c] \in DaytimeKinds /\ kind[c] # "TCP_xdr_client" /\ ~sent[c]
      /\ (kind[c] = "TCPdaytime" => cpc[c] # "end")
  <2>1. Service[kind[c]] = 3
    BY <1>2, Sockets DEF Inv, Types, ServerTypes, Asking
  <2>2. kind[c] \in DaytimeKinds
    BY <2>1, Services DEF Inv, Types, ServerTypes
  <2> QED
    BY <1>3, <2>2 DEF Inv, Asking, Ending, DaytimeKinds, Writers
<1>5. /\ Table' /\ ConnTable' \in [Entries -> [port : Int, closeTm : Nat]]
      /\ stored' \in [Clients -> Nat] /\ fd' \in [Clients -> {0} \cup FDs]
      /\ conn' \in [Clients -> {"new", "queued", "open", "closed"}]
      /\ \/ stored'[c] = stored[c] /\ fd'[c] = fd[c] /\ conn'[c] = conn[c]
         \/ fd'[c] = 0 /\ conn'[c] = "closed"
      /\ \A d \in Clients : d # c => stored'[d] = stored[d] /\ fd'[d] = fd[d] /\ conn'[d] = conn[d]
  <2>1. PICK p \in Ports(c) :
          LET found == {i \in Entries : ConnTable[i].port = p} IN
          IF found = {} THEN UNCHANGED <<ConnTable, stored, fd, conn>>
          ELSE /\ ConnTable' = [ConnTable EXCEPT ![First(found)].closeTm = now]
               /\ stored' = [stored EXCEPT ![c] = now]
               /\ fd' = [fd EXCEPT ![c] = 0]
               /\ conn' = [conn EXCEPT ![c] = "closed"]
    BY DEF postprocessingReply, Entries
  <2> DEFINE found == {i \in Entries : ConnTable[i].port = p}
             k == First(found)
  <2>2. CASE found = {}
    BY <1>1, <2>1, <2>2, KeptTable DEF Inv, Types, ServerTypes, TableTypes, WireTypes
  <2>3. CASE found # {}
    <3>1. k \in Entries
      <4>1. found \in SUBSET Nat
        BY DEF Entries
      <4>2. k \in found
        BY <2>3, <4>1, FirstIs
      <4> QED
        BY <4>2
    <3>2. /\ ConnTable' = [ConnTable EXCEPT ![k].closeTm = now]
          /\ stored' = [stored EXCEPT ![c] = now]
          /\ fd' = [fd EXCEPT ![c] = 0] /\ conn' = [conn EXCEPT ![c] = "closed"]
      BY <2>1, <2>3
    <3> HIDE DEF k, found
    <3>3. Table' /\ ConnTable' \in [Entries -> [port : Int, closeTm : Nat]]
      BY <1>1, <1>3, <3>1, <3>2, TableGains
    <3>4. /\ stored' \in [Clients -> Nat] /\ fd' \in [Clients -> {0} \cup FDs]
          /\ conn' \in [Clients -> {"new", "queued", "open", "closed"}]
          /\ fd'[c] = 0 /\ conn'[c] = "closed"
          /\ \A d \in Clients : d # c => stored'[d] = stored[d] /\ fd'[d] = fd[d] /\ conn'[d] = conn[d]
      <4>1. /\ stored \in [Clients -> Nat] /\ fd \in [Clients -> {0} \cup FDs]
            /\ conn \in [Clients -> {"new", "queued", "open", "closed"}]
        BY DEF Inv, Types, ServerTypes, TableTypes, WireTypes
      <4>2. now \in Nat
        BY DEF Inv, Types, TableTypes
      <4> QED
        BY <3>2, <4>1, <4>2
    <3> QED
      BY <3>3, <3>4
  <2> QED
    BY <2>2, <2>3
<1>6. Onward /\ \A d \in Clients : d # c => /\ Same(d)
                                            /\ fd[d] # 0 => /\ program # "TCP_xdr_server"
                                                            /\ fd2svc'[fd[d]] = fd2svc[fd[d]]
  BY <1>1, <1>2, <1>5 DEF Onward, Same
<1>7. Queues' /\ \A d \in Clients : d # c => Asking(d)' /\ Held(d)' /\ Ending(d)'
  BY <1>1, <1>3, <1>6, Worked
<1>8. Types'
  <2>1. ServerTypes'
    BY <1>1, <1>5 DEF Inv, Types, ServerTypes, Socks
  <2>2. WireTypes'
    BY <1>1, <1>5 DEF Inv, Types, WireTypes, Gone
  <2>3. TableTypes' /\ ClientTypes'
    BY <1>1, <1>5 DEF Inv, Types, TableTypes, ClientTypes
  <2> QED
    BY <2>1, <2>2, <2>3 DEF Types
<1>9. Watched'
  <2>1. \A d, e \in Clients : (fd'[d] = fd'[e] /\ fd'[d] # 0) => d = e
    <3>1. \A d \in Clients : fd'[d] = fd[d] \/ fd'[d] = 0
      BY <1>5
    <3>2. \A d, e \in Clients : (fd[d] = fd[e] /\ fd[d] # 0) => d = e
      BY DEF Inv, Watched
    <3> QED
      BY <3>1, <3>2
  <2>2. afds' = {}
    BY <1>1, <1>2 DEF Inv, Watched
  <2> QED
    BY <1>1, <2>1, <2>2 DEF Watched
<1>10. Asking(c)'
  BY <1>1, <1>3, <1>5 DEF Inv, Asking, Socks
<1>11. Held(c)'
  BY <1>1, <1>2, <1>3, <1>5 DEF Inv, Held, Gone
<1>12. Ending(c)'
  BY <1>1, <1>2, <1>3, <1>4, <1>5 DEF Ending, Gone
<1> QED
  BY <1>5, <1>7, <1>8, <1>9, <1>10, <1>11, <1>12 DEF Inv
-----------------------------------------------------------------------------
\* It holds at the start, and every step keeps it.
LEMMA InitInv == ASSUME Init PROVE Inv
<1> USE Numbers
<1>1. /\ program \in Programs /\ kind \in [Clients -> DOMAIN Service]
      /\ \A c \in Clients : Service[kind[c]] \in Socks
  <2>1. ClientKinds \in [Clients -> SUBSET DOMAIN Service]
    BY ConstantsAssumption
  <2>2. /\ kind \in [Clients -> UNION {ClientKinds[c] : c \in Clients}]
        /\ \A c \in Clients : kind[c] \in ClientKinds[c] /\ Service[kind[c]] \in Socks
    BY DEF Init
  <2>3. \A c \in Clients : kind[c] \in DOMAIN Service
    BY <2>1, <2>2
  <2> QED
    BY <2>2, <2>3 DEF Init
<1>2. Types
  <2>1. ServerTypes
    BY <1>1 DEF Init, ServerTypes
  <2>2. TableTypes
    BY DEF Init, TableTypes, Entries, NoSlot
  <2>3. WireTypes
    <3>1. <<>> \in Seq(Clients)
      OBVIOUS
    <3> QED
      BY <3>1 DEF Init, WireTypes
  <2>4. ClientTypes
    BY DEF Init, ClientTypes
  <2> QED
    BY <2>1, <2>2, <2>3, <2>4 DEF Types
<1>3. Queues
  BY DEF Init, Queues
<1>4. Watched
  BY DEF Init, Watched
<1>5. Table
  <2>1. now = 1 /\ ConnTable = [i \in Entries |-> NoSlot] /\ stored = [c \in Clients |-> 0]
    BY DEF Init, Entries
  <2>2. \A i \in Entries : ConnTable[i].closeTm = 0
    BY <2>1 DEF NoSlot
  <2>3. Timed = {}
    BY <2>2 DEF Timed
  <2> DEFINE w == [i \in Timed |-> CHOOSE c \in Clients : TRUE]
  <2>4. w \in [Timed -> Clients] /\ \A i, j \in Timed : w[i] = w[j] => i = j
    BY <2>3
  <2>5. \A i \in Timed : stored[w[i]] = ConnTable[i].closeTm
    BY <2>3
  <2>6. /\ \A i \in Entries : ConnTable[i].closeTm <= now
        /\ \A c \in Clients : stored[c] <= now
    BY <2>1, <2>2
  <2> HIDE DEF w
  <2> QED
    BY <2>4, <2>5, <2>6 DEF Table
<1>6. ASSUME NEW c \in Clients PROVE Asking(c) /\ Held(c) /\ Ending(c)
  <2>1. /\ cpc[c] = "connect" /\ conn[c] = "new" /\ answers[c] = 0 /\ got[c] = 0 /\ ~sent[c]
        /\ fd[c] = 0 /\ slave[c] = "none" /\ stored[c] = 0 /\ c \notin broken
        /\ round[c] = IF kind[c] \in {"TCPchargen2", "TCPecho"} THEN Rounds ELSE 1
    BY DEF Init
  <2>2. Asking(c)
    BY <1>1, <2>1 DEF Asking
  <2> QED
    BY <2>1, <2>2 DEF Held, Ending
<1> QED
  BY <1>2, <1>3, <1>4, <1>5, <1>6 DEF Inv

LEMMA NextInv == ASSUME Inv, [Next]_vars PROVE Inv'
<1>1. CASE UNCHANGED vars
  <2>1. Types'
    BY <1>1 DEF vars, Inv, Types, ServerTypes, TableTypes, WireTypes, ClientTypes, Socks, Gone
  <2>2. Queues' /\ Watched'
    BY <1>1 DEF vars, Inv, Queues, Watched
  <2>3. Table'
    BY <1>1, KeptTable DEF vars
  <2>4. ASSUME NEW c \in Clients PROVE Asking(c)' /\ Held(c)' /\ Ending(c)'
    BY <1>1 DEF vars, Inv, Asking, Held, Ending, Excused, Gone, Socks
  <2> QED
    BY <2>1, <2>2, <2>3, <2>4 DEF Inv
<1>2. ASSUME NEW s \in 1..Xdr, NEW c \in Clients, Accept(s, c) PROVE Inv'
  BY <1>2, AcceptFailsInv, AcceptKeepInv, AcceptAnswerInv, AcceptForkInv, PreprocessingInv,
     AcceptXdrInv DEF Accept
<1>3. CASE ServerStep
  BY <1>2, <1>3, SelectInvariant, QuietInv, RecvfromInv, DaytimedInv, SvFuncInv, SvFuncEofInv,
     PostprocessingInv, SlaveEndsInv, RecvNBytesInv DEF ServerStep
<1>4. CASE ClientStep
  BY <1>4, ConnectInv, WriteInv, ReadInv, ReadEndInv DEF ClientStep
<1>5. CASE tick \/ \E c \in Clients : killed(c)
  BY <1>5, QuietInv, KilledInv
<1> QED
  BY <1>1, <1>3, <1>4, <1>5 DEF Next

LEMMA Invariance == Spec => []Inv
<1>1. Init => Inv
  BY InitInv
<1>2. Inv /\ [Next]_vars => Inv'
  BY NextInv
<1> QED
  BY <1>1, <1>2, PTL DEF Spec
-----------------------------------------------------------------------------
\* In every state the variables have their types, and each descriptor that select is given
\* is the open connection of one client, down for the service it asked for: neither the
\* descriptors used again within a pass, nor clients that die, nor forks that fail break it.
THEOREM SelectSafe == Spec => []SelectInv
<1> USE Numbers
<1>1. ASSUME Inv PROVE TypeOK
  <2>1. \A f \in FDs : Cardinality(Owner(f)) <= 1
    <3>1. ASSUME NEW f \in FDs PROVE Cardinality(Owner(f)) <= 1
      <4>1. \A c, d \in Owner(f) : c = d
        BY <1>1 DEF Inv, Watched, Owner
      <4>2. CASE Owner(f) = {}
        BY <4>2, FS_EmptySet
      <4>3. ASSUME NEW c \in Owner(f) PROVE Cardinality(Owner(f)) <= 1
        <5>1. Owner(f) = {c}
          BY <4>1, <4>3
        <5>2. Cardinality({c}) = 1
          BY FS_Singleton
        <5> QED
          BY <5>1, <5>2
      <4> QED
        BY <4>2, <4>3
    <3> QED
      BY <3>1
  <2>2. ServerTypes /\ WireTypes /\ ClientTypes
    BY <1>1 DEF Inv, Types
  <2>3. /\ \A i \in 1..TABLE_LEN : ConnTable[i].port \in Int /\ ConnTable[i].closeTm \in 0..now
        /\ now \in 1..MaxTime /\ refused \subseteq Clients
        /\ \A c \in Clients : stored[c] \in 0..now
    BY <1>1 DEF Inv, Types, TableTypes, Table, Entries
  <2> QED
    BY <2>1, <2>2, <2>3 DEF TypeOK, ServerTypes, WireTypes, ClientTypes
<1>2. ASSUME Inv PROVE SelectOpen
  <2>1. ASSUME mpc = "select", NEW f \in afds
        PROVE  \E c \in Clients : /\ Owner(f) = {c} /\ conn[c] = "open"
                                  /\ program = "exc_14_3" => fd2svc[f] = Service[kind[c]]
    <3>1. PICK c \in Clients : fd[c] = f
      BY <1>2, <2>1 DEF Inv, Watched
    <3>2. f # 0
      BY <1>2, <2>1 DEF Inv, Types, ServerTypes
    <3>3. Owner(f) = {c}
      BY <1>2, <3>1, <3>2 DEF Inv, Watched, Owner
    <3>4. conn[c] = "open" /\ (program = "exc_14_3" => fd2svc[f] = Service[kind[c]])
      BY <1>2, <3>1, <3>2 DEF Inv, Held
    <3> QED
      BY <3>3, <3>4
  <2> QED
    BY <2>1 DEF SelectOpen
<1> QED
  BY <1>1, <1>2, Invariance, PTL DEF SelectInv

\* TCPdaytime, at its end, has been answered exactly once, unless it was turned away or the
\* server has ended; and TCP_xdr_client, unless one of the ends gave up.
THEOREM Answered == Spec => []AnsweredOnce
<1>1. ASSUME Inv PROVE AnsweredOnce
  <2>1. ASSUME NEW c \in Clients, cpc[c] = "end", conn[c] # "new", kind[c] = "TCPdaytime"
        PROVE  \/ got[c] = 1
               \/ got[c] = 0 /\ \/ program = "exc_13_5" /\ c \notin Authorised
                                \/ c \in refused \/ mpc = "dead"
    <3>1. got[c] > 0 \/ Excused(c)
      BY <1>1, <2>1 DEF Inv, Ending
    <3>2. got[c] + answers[c] <= 1
      BY <1>1, <2>1 DEF Inv, Asking, Writers
    <3>3. got[c] \in Nat /\ answers[c] \in Nat
      <4>1. answers \in [Clients -> 0..1] /\ got \in [Clients -> 0..Rounds]
        BY <1>1 DEF Inv, Types, WireTypes, ClientTypes
      <4>2. answers[c] \in 0..1 /\ got[c] \in 0..Rounds
        BY <4>1
      <4> QED
        BY <4>2, Numbers
    <3> QED
      BY <2>1, <3>1, <3>2, <3>3 DEF Excused
  <2>2. ASSUME NEW c \in Clients, cpc[c] = "end", conn[c] # "new", kind[c] = "TCP_xdr_client",
               got[c] = 0
        PROVE  c \in gaveup \/ mpc = "dead"
    BY <1>1, <2>2 DEF Inv, Ending, Excused
  <2> QED
    BY <2>1, <2>2 DEF AnsweredOnce
<1> QED
  BY <1>1, Invariance, PTL

\* No select ends the server; an accept does so only with a fault, or without descriptors
\* in the servers that keep connections; and a client's reset ends exc_14_3 only.
THEOREM ServerSurvives == Spec => Survives
<1> USE Numbers
<1> DEFINE Lives == mpc # "dead" /\ mpc' = "dead" =>
              \/ faults' < faults /\ program \in Iterative \cup {"exc_13_1"}
              \/ Free = {} /\ program \in {"exc_14_3", "TCPmdaytimed", "exc_10_5", "exc_10_7"}
              \/ program = "exc_14_3" /\ \E c \in Clients : cpc[c] = "killed"
<1>1. ASSUME Inv, select PROVE Lives
  <2>1. mpc = "select" => \A f \in afds : Owner(f) # {}
    BY <1>1 DEF Inv, Watched, Owner
  <2> QED
    BY <1>1, <2>1 DEF select
<1>2. ASSUME Inv, NEW s \in 1..Xdr, NEW c \in Clients, accept_fails(s, c) PROVE Lives
  <2>1. CASE Free = {}
    <3>1. 7 \in FDs
      BY DEF FDs
    <3>2. Owner(7) # {}
      BY <2>1, <3>1 DEF Free
    <3>3. PICK d \in Clients : fd[d] = 7
      BY <3>2 DEF Owner
    <3>4. mpc = "serve"
      BY <1>2 DEF accept_fails, Accepting
    <3>5. program \in {"exc_14_3", "TCPmdaytimed", "exc_10_5", "exc_10_7"}
      BY <1>2, <3>3, <3>4 DEF Inv, Held
    <3> QED
      BY <2>1, <3>5
  <2>2. CASE program \in Iterative /\ Fault
    <3>1. faults \in Nat
      BY <1>2 DEF Inv, Types, ClientTypes
    <3> QED
      BY <2>2, <3>1 DEF Fault
  <2> QED
    BY <1>2, <2>1, <2>2 DEF accept_fails
<1>3. ASSUME Inv, NEW s \in 1..Xdr, NEW c \in Clients, accept_fork(s, c) PROVE Lives
  <2>1. faults \in Nat
    BY <1>3 DEF Inv, Types, ClientTypes
  <2> QED
    BY <1>3, <2>1 DEF accept_fork, Fault
<1>4. ASSUME Inv, NEW c \in Clients, sv_func_eof(c) PROVE Lives
  <2>1. conn[c] = "open" /\ program = "exc_14_3"
    BY <1>4, Served DEF sv_func_eof
  <2>2. c \in broken => cpc[c] = "killed"
    BY <1>4, <2>1 DEF Inv, Ending
  <2> QED
    BY <1>4, <2>1, <2>2 DEF sv_func_eof
<1>5. ASSUME NEW s \in 1..Xdr, NEW c \in Clients,
             \/ accept_keep(s, c) \/ accept_answer(s, c) \/ preprocessingRequest(s, c)
             \/ accept_xdr(s, c)
      PROVE  mpc' = mpc \/ mpc' # "dead"
  BY <1>5 DEF accept_keep, accept_answer, preprocessingRequest, accept_xdr
<1>6. ASSUME NEW c \in Clients,
             \/ recvfrom(c) \/ daytimed(c) \/ sv_func(c) \/ postprocessingReply(c)
             \/ slave_ends(c) \/ recvNBytes(c)
      PROVE  mpc' = mpc \/ mpc' # "dead"
  BY <1>6 DEF recvfrom, daytimed, sv_func, postprocessingReply, slave_ends, recvNBytes
<1>7. ASSUME served \/ reaper \/ tick \/ ClientStep \/ (\E c \in Clients : killed(c))
             \/ UNCHANGED vars
      PROVE  mpc' = mpc \/ mpc' # "dead"
  BY <1>7 DEF served, reaper, tick, ClientStep, connect, write, read, read_eof, read_empty,
              killed, server, vars
<1> HIDE DEF Lives
<1>8. (mpc' = mpc \/ mpc' # "dead") => Lives
  BY DEF Lives
<1>9. ASSUME Inv, NEW s \in 1..Xdr, NEW c \in Clients, Accept(s, c) PROVE Lives
  BY <1>2, <1>3, <1>5, <1>8, <1>9 DEF Accept
<1>10. ASSUME Inv, [Next]_vars PROVE Lives
  BY <1>1, <1>4, <1>6, <1>7, <1>8, <1>9, <1>10 DEF Next, ServerStep
<1>11. Inv /\ [Next]_vars => [Lives]_vars
  BY <1>10
<1> QED
  BY <1>11, Invariance, PTL DEF Spec, Survives, Lives

\* exc_10_7 turns a client away only if every entry has the time of another connection,
\* of the last four minutes: no port that getpeername leaves alone, or that two hosts
\* have, makes the table look fuller than it is.
THEOREM RefusedBusy == Spec => RefusedOnlyBusy
<1> USE Numbers
<1> DEFINE Busy == {d \in Clients : stored[d] > 0 /\ now - stored[d] <= MinSlot}
           Fair == \A c \in refused' \ refused : Cardinality(Busy) >= TABLE_LEN
<1>1. ASSUME Inv, \A i \in Entries : TableNow[i] # NoSlot PROVE Cardinality(Busy) >= TABLE_LEN
  <2>1. PICK w \in [Timed -> Clients] : /\ \A i \in Timed : stored[w[i]] = ConnTable[i].closeTm
                                        /\ \A i, j \in Timed : w[i] = w[j] => i = j
    BY <1>1 DEF Inv, Table
  <2>2. \A i \in Entries : ConnTable[i].closeTm \in Nat
    BY <1>1 DEF Inv, Types, TableTypes
  <2>3. \A i \in Entries : ConnTable[i].closeTm > 0 /\ now - ConnTable[i].closeTm <= MinSlot
    <3>1. now \in Nat
      BY <1>1 DEF Inv, Types, TableTypes
    <3>2. \A i \in Entries : ~Expired(ConnTable[i])
      BY <1>1 DEF TableNow
    <3> QED
      BY <2>2, <3>1, <3>2 DEF Expired
  <2>4. Timed = Entries
    BY <2>3 DEF Timed
  <2>5. w \in [Entries -> Busy]
    BY <2>1, <2>3, <2>4
  <2>6. IsFiniteSet(Entries) /\ Cardinality(Entries) = TABLE_LEN
    BY FS_Interval DEF Entries
  <2>7. IsFiniteSet(Busy) /\ Cardinality(Busy) \in Nat
    BY ConstantsAssumption, FS_Subset, FS_CardinalityType
  <2> HIDE DEF Busy
  <2>8. ~(Cardinality(Busy) < Cardinality(Entries))
    BY <2>1, <2>4, <2>5, <2>6, <2>7, FS_PigeonHole
  <2> QED
    BY <2>6, <2>7, <2>8
<1> HIDE DEF Busy
<1>2. ASSUME Inv, NEW s \in 1..Xdr, NEW c \in Clients, preprocessingRequest(s, c) PROVE Fair
  <2>1. \/ \A i \in Entries : TableNow[i] # NoSlot
        \/ refused' = refused
    BY <1>2 DEF preprocessingRequest, TableNow, Entries
  <2> QED
    BY <1>1, <1>2, <2>1
<1>3. ASSUME NEW s \in 1..Xdr, NEW c \in Clients,
             \/ accept_fails(s, c) \/ accept_keep(s, c) \/ accept_answer(s, c)
             \/ accept_fork(s, c) \/ accept_xdr(s, c)
      PROVE  refused' = refused
  BY <1>3 DEF accept_fails, accept_keep, accept_answer, accept_fork, accept_xdr, tables
<1>4. ASSUME NEW c \in Clients,
             \/ recvfrom(c) \/ daytimed(c) \/ sv_func(c) \/ sv_func_eof(c)
             \/ postprocessingReply(c) \/ slave_ends(c) \/ recvNBytes(c)
      PROVE  refused' = refused
  BY <1>4 DEF recvfrom, daytimed, sv_func, sv_func_eof, postprocessingReply, slave_ends,
              recvNBytes, tables
<1>5. ASSUME select \/ served \/ reaper \/ tick \/ ClientStep \/ (\E c \in Clients : killed(c))
             \/ UNCHANGED vars
      PROVE  refused' = refused
  BY <1>5 DEF select, served, reaper, tick, ClientStep, connect, write, read, read_eof,
              read_empty, killed, tables, vars
<1> HIDE DEF Fair
<1>6. refused' = refused => Fair
  BY DEF Fair
<1>7. ASSUME Inv, NEW s \in 1..Xdr, NEW c \in Clients, Accept(s, c) PROVE Fair
  BY <1>2, <1>3, <1>6, <1>7 DEF Accept
<1>8. ASSUME Inv, [Next]_vars PROVE Fair
  BY <1>4, <1>5, <1>6, <1>7, <1>8 DEF Next, ServerStep
<1>9. Inv /\ [Next]_vars => [Fair]_vars
  BY <1>8
<1> QED
  BY <1>9, Invariance, PTL DEF Spec, RefusedOnlyBusy, Fair, Busy
=============================================================================
