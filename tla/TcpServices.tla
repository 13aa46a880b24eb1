----------------------------- MODULE TcpServices -----------------------------
(***************************************************************************)
(* The servers that answer TCP connections in one process, and the DAYTIME *)
(* servers for two transports, with their clients.  The servers:           *)
(*   exc_14_3      echo, chargen, daytime and time (with sv_funcs.c)       *)
(*   TCPmdaytimed  accepts in one pass of select, answers in a later one   *)
(*   daytimed      TCP and UDP (chapter13/daytimed.c, exc_13_3.c)          *)
(*   exc_13_1      the same with a slave for each connection               *)
(*   exc_13_4      with the UDP socket only                                *)
(*   exc_13_5      which answers the hosts of a list only                  *)
(*   TCPdaytimed   accept, answer, close (chapter10, also exc_10_3.c,      *)
(*                 exc_10_4.c and exc_time_wait.c)                         *)
(*   exc_10_5      which does not close                                    *)
(*   exc_10_7      which keeps a table of connections closed lately        *)
(*   TCP_xdr_server  accept, read a message, answer, close (chapter 19)    *)
(* A client is a program of chapter 7, 14 or 19.  Answers are counted, not *)
(* told apart.                                                             *)
(***************************************************************************)
EXTENDS Integers, Sequences, FiniteSets

CONSTANTS Clients,
          ClientKinds,  \* ClientKinds[c]: the programs that c may be
          Authorised,   \* the clients whose host is in authorization_list
          Port,         \* Port[c]: its port; clients of two hosts may have the same
          Rounds,       \* lines that TCPchargen2 and TCPecho ask for
          NFD,          \* descriptors the server has for connections
          TABLE_LEN,    \* entries of ConnTable
          MinSlot,      \* the four minutes an entry is kept after its closeTm
          MaxTime,      \* bound: the clock
          Faults        \* bound: clients killed, forks that fail, datagrams lost,
                        \* connects that time out, lengths not initialised

\* The listening sockets, in the order they are opened; connections come after.
Echo == 1  Chargen == 2  Daytime == 3  Time == 4  Xdr == 5  Udp == 6
FDs == 7..(6 + NFD)

DaytimeKinds == {"TCPdaytime", "TCPdaytime_nonblk", "exc_10_6"}
Service == [k \in DaytimeKinds \cup {"TCPecho", "TCPchargen", "TCPchargen2", "TCPtime",
                                   "UDPdaytime", "TCP_xdr_client"} |->
              CASE k \in DaytimeKinds                  -> Daytime
                [] k = "TCPecho"                       -> Echo
                [] k \in {"TCPchargen", "TCPchargen2"} -> Chargen
                [] k = "TCPtime"                       -> Time
                [] k = "UDPdaytime"                    -> Udp
                [] k = "TCP_xdr_client"                -> Xdr]
Iterative == {"TCPdaytimed", "exc_10_5", "exc_10_7", "TCP_xdr_server"}
Programs  == {"exc_14_3", "TCPmdaytimed", "daytimed", "exc_13_1", "exc_13_4", "exc_13_5"}
             \cup Iterative

ASSUME ConstantsAssumption ==
  /\ IsFiniteSet(Clients) /\ ClientKinds \in [Clients -> SUBSET DOMAIN Service]
  /\ Authorised \subseteq Clients /\ Port \in [Clients -> Nat \ {0}]
  /\ {Rounds, NFD, TABLE_LEN, MinSlot, MaxTime} \subseteq Nat \ {0} /\ Faults \in Nat

VARIABLES
  program, kind,  \* which server, which clients (the same in all states)
  mpc,       \* where the server is
  rfds,      \* sockets and connections select found ready and not yet served
  afds,      \* connections select is to watch
  fd2svc,    \* exc_14_3: the service of a connection, or 0
  fd,        \* fd[c]: the server's descriptor of c's connection, or 0
  slave,     \* slave[c]: exc_13_1's slave for c
  sigchld,
  ConnTable, now, \* exc_10_7: entries (empty, or a port and a closeTm) and the clock
  backlog,   \* connections and datagrams that wait at a socket
  conn,      \* conn[c]: "new", "queued", "open", or "closed" by the server
  sent,      \* sent[c]: does a request of c wait at the server?
  answers,   \* answers[c]: those c has not yet read
  broken,    \* connections that a client has reset
  cpc, round, got,  \* where client c is, rounds left, answers it has read
  stored, refused,  \* history: when c's closeTm was stored; who met a full table
  gaveup,    \* history: clients of TCP_xdr_server for which either end gave up
  lost,      \* history: clients that lost a datagram
  faults

server  == <<mpc, rfds, afds, fd2svc, fd, slave, sigchld>>
tables  == <<ConnTable, now, stored, refused>>
wires   == <<backlog, conn, sent, answers, broken>>
clients == <<cpc, round, got, gaveup>>
vars == <<program, kind, mpc, rfds, afds, fd2svc, fd, slave, sigchld, ConnTable, now,
          backlog, conn, sent, answers, broken, cpc, round, got, gaveup, stored, refused, lost, faults>>

Socks == CASE program = "exc_14_3" -> {Echo, Chargen, Daytime, Time}
           [] program = "exc_13_4" -> {Udp}
           [] program = "TCP_xdr_server" -> {Xdr}
           [] program \in {"daytimed", "exc_13_1", "exc_13_5"} -> {Daytime, Udp}
           [] OTHER -> {Daytime}

NoSlot == [port |-> -1, closeTm |-> 0]

Init == /\ program \in Programs
        /\ kind \in [Clients -> UNION {ClientKinds[c] : c \in Clients}]
        /\ \A c \in Clients : kind[c] \in ClientKinds[c] /\ Service[kind[c]] \in Socks
        /\ mpc = "select" /\ rfds = {} /\ afds = {}
        /\ fd2svc = [f \in FDs |-> 0] /\ fd = [c \in Clients |-> 0]
        /\ slave = [c \in Clients |-> "none"] /\ sigchld = FALSE
        /\ ConnTable = [i \in 1..TABLE_LEN |-> NoSlot] /\ now = 1
        /\ backlog = [s \in 1..Udp |-> <<>>]
        /\ conn = [c \in Clients |-> "new"] /\ sent = [c \in Clients |-> FALSE]
        /\ answers = [c \in Clients |-> 0] /\ broken = {}
        /\ cpc = [c \in Clients |-> "connect"]
        /\ round = [c \in Clients |-> IF kind[c] \in {"TCPchargen2", "TCPecho"} THEN Rounds ELSE 1]
        /\ got = [c \in Clients |-> 0]
        /\ stored = [c \in Clients |-> 0] /\ refused = {} /\ gaveup = {} /\ lost = {} /\ faults = Faults

Fault == faults > 0 /\ faults' = faults - 1
Gone  == {c \in Clients : cpc[c] \in {"end", "killed"}}
-----------------------------------------------------------------------------
(* The clients. *)

\* try_connect_tcp, which fails when there is no server, or after ten seconds; or the
\* UDP client's request.
connect(c) ==
  /\ cpc[c] = "connect"
  /\ \/ /\ \/ mpc = "dead" /\ UNCHANGED faults
           \/ kind[c] # "UDPdaytime" /\ Fault
        /\ cpc' = [cpc EXCEPT ![c] = "end"]
        /\ UNCHANGED <<backlog, conn, lost>>
     \/ /\ mpc # "dead"
        /\ cpc' = [cpc EXCEPT ![c] = IF kind[c] \in {"TCPecho", "TCPchargen2", "TCPtime",
                                                  "TCP_xdr_client"}
                                     THEN "write" ELSE "read"]
        /\ \/ /\ backlog' = [backlog EXCEPT ![Service[kind[c]]] = Append(@, c)]
              /\ conn' = [conn EXCEPT ![c] = IF kind[c] = "UDPdaytime" THEN @ ELSE "queued"]
              /\ UNCHANGED <<lost, faults>>
           \/ /\ kind[c] = "UDPdaytime" /\ Fault /\ lost' = lost \cup {c}
              /\ UNCHANGED <<backlog, conn>>
  /\ UNCHANGED <<program, kind, server, tables, sent, answers, broken, round, got, gaveup>>

\* A write, which a connection that has been reset makes fail.
write(c) == /\ cpc[c] = "write"
            /\ cpc' = [cpc EXCEPT ![c] = IF conn[c] = "closed" THEN "end" ELSE "read"]
            /\ sent' = [sent EXCEPT ![c] = conn[c] # "closed"]
            /\ UNCHANGED <<program, kind, server, tables, backlog, conn, answers, broken,
                           round, got, gaveup, lost, faults>>

\* Mutant of read: the last round is not noticed.
MutantRead(c) ==
  /\ cpc[c] = "read" /\ answers[c] > 0
  /\ answers' = [answers EXCEPT ![c] = @ - 1]
  /\ got' = [got EXCEPT ![c] = @ + 1]
  /\ IF kind[c] \in {"TCPdaytime", "TCPchargen", "exc_10_6"} THEN UNCHANGED <<cpc, round>>
     ELSE /\ round' = [round EXCEPT ![c] = @ - 1]
          /\ cpc' = [cpc EXCEPT ![c] = "write"]
  /\ UNCHANGED <<program, kind, server, tables, backlog, conn, sent, broken, gaveup, lost, faults>>

\* An answer.  TCPdaytime, exc_10_6 and TCPchargen read on.
read(c) == /\ cpc[c] = "read" /\ answers[c] > 0
           /\ answers' = [answers EXCEPT ![c] = @ - 1]
           /\ got' = [got EXCEPT ![c] = @ + 1]
           /\ IF kind[c] \in {"TCPdaytime", "TCPchargen", "exc_10_6"} THEN UNCHANGED <<cpc, round>>
              ELSE /\ round' = [round EXCEPT ![c] = @ - 1]
                   /\ cpc' = [cpc EXCEPT ![c] = IF round[c] = 1 THEN "end" ELSE "write"]
           /\ UNCHANGED <<program, kind, server, tables, backlog, conn, sent, broken,
                          gaveup, lost, faults>>

\* The end of the connection: TCPdaytime is done, the others complain and exit.
read_eof(c) == /\ cpc[c] = "read" /\ answers[c] = 0 /\ conn[c] = "closed"
               /\ cpc' = [cpc EXCEPT ![c] = "end"]
               /\ UNCHANGED <<program, kind, server, tables, wires, round, got, gaveup, lost, faults>>

\* exc_10_6 takes "nothing yet" of a socket that does not block for the end, and
\* TCP_xdr_client does when it has tried for fifteen milliseconds; it then prints
\* its request where it would print the answer.
read_empty(c) == /\ kind[c] \in {"exc_10_6", "TCP_xdr_client"} /\ cpc[c] = "read" /\ answers[c] = 0
                 /\ cpc' = [cpc EXCEPT ![c] = "end"]
                 /\ gaveup' = IF kind[c] = "exc_10_6" THEN gaveup ELSE gaveup \cup {c}
                 /\ UNCHANGED <<program, kind, server, tables, wires, round, got, lost, faults>>

\* A client is killed: its connection is reset if it holds an answer not yet read.
killed(c) == /\ cpc[c] \in {"write", "read"} /\ Fault
             /\ cpc' = [cpc EXCEPT ![c] = "killed"]
             /\ broken' = IF answers[c] > 0 THEN broken \cup {c} ELSE broken
             /\ UNCHANGED <<program, kind, server, tables, backlog, conn, sent, answers,
                            round, got, gaveup, lost>>
-----------------------------------------------------------------------------
(* The server: select, or accept in the iterative ones. *)

Owner(f) == {c \in Clients : fd[c] = f}

\* A connection is ready when there is something to read, or, for TCPmdaytimed,
\* when it can be written to.
Ready(f) == \/ program = "TCPmdaytimed"
            \/ \E c \in Owner(f) : sent[c] \/ c \in Gone

\* errexit: the kernel closes what was open, and resets what was queued.
errexit == /\ mpc' = "dead" /\ rfds' = {} /\ fd' = [c \in Clients |-> 0]
           /\ backlog' = [s \in 1..Udp |-> <<>>]
           /\ conn' = [c \in Clients |-> IF conn[c] \in {"queued", "open"} /\ slave[c] # "running"
                                         THEN "closed" ELSE conn[c]]

\* select fails when afds has a descriptor that is not open.
select ==
  /\ mpc = "select"
  /\ \/ /\ \E f \in afds : Owner(f) = {}
        /\ errexit
     \/ /\ \A f \in afds : Owner(f) # {}
        /\ rfds' = {s \in Socks : backlog[s] # <<>>} \cup {f \in afds : Ready(f)}
        /\ rfds' # {} /\ mpc' = "serve"
        /\ UNCHANGED <<fd, backlog, conn>>
  /\ UNCHANGED <<program, kind, afds, fd2svc, slave, sigchld, tables, sent, answers, broken,
                 clients, lost, faults>>

served == /\ mpc = "serve" /\ rfds = {} /\ mpc' = "select"
          /\ UNCHANGED <<program, kind, rfds, afds, fd2svc, fd, slave, sigchld, tables, wires,
                         clients, lost, faults>>

Free == {f \in FDs : Owner(f) = {}}
First(S) == CHOOSE x \in S : \A y \in S : x <= y

\* The next ready socket is TCP socket s, and c the first in its backlog.
Accepting(s, c) == /\ mpc = "serve" /\ s \in rfds /\ s = First(rfds) /\ s \in 1..Xdr
                   /\ c = Head(backlog[s])

Accepted(s, c) == /\ rfds' = rfds \ {s}
                  /\ backlog' = [backlog EXCEPT ![s] = Tail(@)]

\* A write to a client that has gone is answered by a reset.
Answer(c) == /\ answers' = [answers EXCEPT ![c] = IF c \in Gone THEN @ ELSE @ + 1]
             /\ broken' = IF c \in Gone THEN broken \cup {c} ELSE broken

\* There is no descriptor left; or the length is not initialised, in chapter 10.
accept_fails(s, c) ==
  /\ Accepting(s, c)
  /\ \/ Free = {} /\ UNCHANGED faults
     \/ program \in Iterative /\ Fault
  /\ errexit
  /\ UNCHANGED <<program, kind, afds, fd2svc, slave, sigchld, tables, sent, answers, broken,
                 clients, lost>>

\* Mutant of accept_keep: the connection is not put into afds.
MutantAcceptKeep(s, c) ==
  /\ Accepting(s, c) /\ Free # {}
  /\ program = "TCPmdaytimed" \/ (program = "exc_14_3" /\ s # Daytime)
  /\ Accepted(s, c)
  /\ fd' = [fd EXCEPT ![c] = First(Free)]
  /\ fd2svc' = IF program = "exc_14_3" THEN [fd2svc EXCEPT ![First(Free)] = s] ELSE fd2svc
  /\ conn' = [conn EXCEPT ![c] = "open"]
  /\ UNCHANGED <<program, kind, mpc, afds, slave, sigchld, tables, sent, answers, broken,
                 clients, lost, faults>>

\* The connection is kept for later passes.
accept_keep(s, c) ==
  /\ Accepting(s, c) /\ Free # {}
  /\ program = "TCPmdaytimed" \/ (program = "exc_14_3" /\ s # Daytime)
  /\ Accepted(s, c)
  /\ fd' = [fd EXCEPT ![c] = First(Free)]
  /\ afds' = afds \cup {First(Free)}
  /\ fd2svc' = IF program = "exc_14_3" THEN [fd2svc EXCEPT ![First(Free)] = s] ELSE fd2svc
  /\ conn' = [conn EXCEPT ![c] = "open"]
  /\ UNCHANGED <<program, kind, mpc, slave, sigchld, tables, sent, answers, broken, clients,
                 lost, faults>>

\* Mutant of accept_answer: a write that fails ends the server.
MutantAcceptAnswer(s, c) ==
  /\ Accepting(s, c) /\ Free # {} /\ s = Daytime
  /\ program \notin {"TCPmdaytimed", "exc_13_1", "exc_10_7"}
  /\ IF c \in Gone THEN errexit /\ UNCHANGED <<answers, broken>>
     ELSE /\ Accepted(s, c) /\ Answer(c)
          /\ conn' = [conn EXCEPT ![c] = "closed"]
          /\ UNCHANGED <<mpc, fd>>
  /\ UNCHANGED <<program, kind, afds, fd2svc, slave, sigchld, tables, sent, clients, lost,
                 faults>>

\* It is answered at once and closed, by exc_10_5 not closed, and by exc_13_5
\* answered only if the list has the client's host.
accept_answer(s, c) ==
  /\ Accepting(s, c) /\ Free # {} /\ s = Daytime
  /\ program \notin {"TCPmdaytimed", "exc_13_1", "exc_10_7"}
  /\ Accepted(s, c)
  /\ fd' = IF program = "exc_10_5" THEN [fd EXCEPT ![c] = First(Free)] ELSE fd
  /\ conn' = [conn EXCEPT ![c] = IF program = "exc_10_5" THEN "open" ELSE "closed"]
  /\ IF program = "exc_13_5" /\ c \notin Authorised THEN UNCHANGED <<answers, broken>>
                                                    ELSE Answer(c)
  /\ UNCHANGED <<program, kind, mpc, afds, fd2svc, slave, sigchld, tables, sent, clients,
                 lost, faults>>

\* exc_13_1 forks a slave; if fork fails, it ends.
accept_fork(s, c) ==
  /\ program = "exc_13_1" /\ Accepting(s, c)
  /\ \/ /\ Accepted(s, c)
        /\ slave' = [slave EXCEPT ![c] = "running"]
        /\ conn' = [conn EXCEPT ![c] = "open"]
        /\ UNCHANGED <<mpc, fd, faults>>
     \/ Fault /\ errexit /\ UNCHANGED slave
  /\ UNCHANGED <<program, kind, afds, fd2svc, sigchld, tables, sent, answers, broken, clients,
                 lost>>

slave_ends(c) == /\ slave[c] = "running"
                 /\ slave' = [slave EXCEPT ![c] = IF mpc = "dead" THEN "reaped" ELSE "zombie"]
                 /\ sigchld' = (mpc # "dead")
                 /\ conn' = [conn EXCEPT ![c] = "closed"]
                 /\ Answer(c)
                 /\ UNCHANGED <<program, kind, mpc, rfds, afds, fd2svc, fd, tables, backlog,
                                sent, clients, lost, faults>>

reaper == /\ mpc # "dead" /\ sigchld /\ sigchld' = FALSE
          /\ slave' = [c \in Clients |-> IF slave[c] = "zombie" THEN "reaped" ELSE slave[c]]
          /\ UNCHANGED <<program, kind, mpc, rfds, afds, fd2svc, fd, tables, wires, clients,
                         lost, faults>>

\* A datagram.  (sendto may fail; nobody looks.)
recvfrom(c) ==
  /\ mpc = "serve" /\ Udp \in rfds /\ Udp = First(rfds) /\ c = Head(backlog[Udp])
  /\ Accepted(Udp, c)
  /\ IF (program = "exc_13_5" /\ c \notin Authorised) \/ c \in Gone THEN UNCHANGED answers
     ELSE answers' = [answers EXCEPT ![c] = @ + 1]
  /\ UNCHANGED <<program, kind, mpc, afds, fd2svc, fd, slave, sigchld, tables, conn, sent,
                 broken, clients, lost, faults>>
-----------------------------------------------------------------------------
(* The server: connections that it has kept. *)

\* Mutant of Close: the descriptor stays in afds.
MutantClose(c) == /\ fd' = [fd EXCEPT ![c] = 0]
                  /\ fd2svc' = [fd2svc EXCEPT ![fd[c]] = 0]
                  /\ conn' = [conn EXCEPT ![c] = "closed"]
                  /\ UNCHANGED afds

Close(c) == /\ fd' = [fd EXCEPT ![c] = 0]
            /\ fd2svc' = [fd2svc EXCEPT ![fd[c]] = 0]
            /\ conn' = [conn EXCEPT ![c] = "closed"]
            /\ afds' = afds \ {fd[c]}

\* c's connection is the next ready one.
Serving(c) == mpc = "serve" /\ rfds # {} /\ fd[c] = First(rfds)

\* Mutant of daytimed: it closes only in the next pass.
MutantDaytimed(c) == /\ program = "TCPmdaytimed" /\ Serving(c)
                     /\ rfds' = rfds \ {fd[c]}
                     /\ Answer(c)
                     /\ IF got[c] + answers[c] > 0 THEN Close(c)
                        ELSE UNCHANGED <<afds, fd2svc, fd, conn>>
                     /\ UNCHANGED <<program, kind, mpc, slave, sigchld, tables, backlog, sent,
                                    clients, lost, faults>>

\* TCPmdaytimed answers and closes, whatever the write returns.
daytimed(c) == /\ program = "TCPmdaytimed" /\ Serving(c)
               /\ rfds' = rfds \ {fd[c]}
               /\ Close(c) /\ Answer(c)
               /\ UNCHANGED <<program, kind, mpc, slave, sigchld, tables, backlog, sent,
                              clients, lost, faults>>

\* TCPechod2, TCPchargend2 or TCPtimed of exc_14_3: a request is read and answered.
\* TCPtimed returns 0, and its connection is closed.  (The send does not fail: a client
\* has one request under way, and one that was killed with an answer unread, which is
\* what resets a connection, has none.)
sv_func(c) ==
  /\ program = "exc_14_3" /\ Serving(c) /\ sent[c]
  /\ rfds' = rfds \ {fd[c]}
  /\ sent' = [sent EXCEPT ![c] = FALSE]
  /\ Answer(c)
  /\ IF fd2svc[fd[c]] = Time THEN Close(c) ELSE UNCHANGED <<afds, fd2svc, fd, conn>>
  /\ UNCHANGED <<program, kind, mpc, slave, sigchld, tables, backlog, clients, lost, faults>>

\* Their read finds the end of the connection; or that the client has reset it:
\* then errexit ends the server, and with it everybody's connections.
sv_func_eof(c) ==
  /\ program = "exc_14_3" /\ Serving(c) /\ ~sent[c]
  /\ IF c \in broken THEN errexit /\ UNCHANGED <<afds, fd2svc>>
     ELSE rfds' = rfds \ {fd[c]} /\ Close(c) /\ UNCHANGED <<mpc, backlog>>
  /\ UNCHANGED <<program, kind, slave, sigchld, tables, sent, answers, broken, clients, lost,
                 faults>>
-----------------------------------------------------------------------------
(* TCP_xdr_server. *)

accept_xdr(s, c) ==
  /\ program = "TCP_xdr_server" /\ Accepting(s, c) /\ Free # {}
  /\ backlog' = [backlog EXCEPT ![s] = Tail(@)]
  /\ mpc' = "recv"
  /\ fd' = [fd EXCEPT ![c] = First(Free)]
  /\ conn' = [conn EXCEPT ![c] = "open"]
  /\ rfds' = {First(Free)}
  /\ UNCHANGED <<program, kind, afds, fd2svc, slave, sigchld, tables, sent, answers, broken,
                 clients, lost, faults>>

\* recvNBytes has a whole message, which is answered; or it finds the end of the
\* connection, or gives up after five reads of nothing, and what had come is
\* dropped.  The connection is closed.
recvNBytes(c) ==
  /\ mpc = "recv" /\ fd[c] \in rfds /\ mpc' = "select" /\ rfds' = {}
  /\ \/ /\ sent[c] /\ Answer(c)
        /\ sent' = [sent EXCEPT ![c] = FALSE]
        /\ UNCHANGED gaveup
     \/ /\ ~sent[c]
        /\ gaveup' = IF c \in Gone THEN gaveup ELSE gaveup \cup {c}
        /\ UNCHANGED <<answers, broken, sent>>
  /\ Close(c)
  /\ UNCHANGED <<program, kind, slave, sigchld, tables, backlog, cpc, round, got, lost, faults>>
-----------------------------------------------------------------------------
(* exc_10_7: the connection table. *)

\* Mutant of Expired: an entry without a closeTm is in use.
MutantExpired(e) == e.closeTm # 0 /\ now - e.closeTm > MinSlot

\* (A closeTm that was never stored is long ago.)
Expired(e) == e.closeTm = 0 \/ now - e.closeTm > MinSlot

\* getpeername, with a length that is not initialised, gives the port or leaves
\* what the stack held.
Ports(c) == {Port[c], 0}

preprocessingRequest(s, c) ==
  LET table == [i \in 1..TABLE_LEN |-> IF Expired(ConnTable[i]) THEN NoSlot ELSE ConnTable[i]]
      slots == {i \in 1..TABLE_LEN : table[i] = NoSlot}
  IN  /\ program = "exc_10_7" /\ Accepting(s, c) /\ Free # {}
      /\ backlog' = [backlog EXCEPT ![s] = Tail(@)]
      /\ IF slots = {}
         THEN /\ ConnTable' = table /\ refused' = refused \cup {c}
              /\ conn' = [conn EXCEPT ![c] = "closed"]
              /\ rfds' = {}
              /\ UNCHANGED <<mpc, fd, answers, broken>>
         ELSE /\ \E p \in Ports(c) : ConnTable' = [table EXCEPT ![First(slots)].port = p]
              /\ mpc' = "post" /\ Answer(c)
              /\ fd' = [fd EXCEPT ![c] = First(Free)]
              /\ conn' = [conn EXCEPT ![c] = "open"]
              /\ rfds' = {First(Free)}
              /\ UNCHANGED refused
      /\ UNCHANGED <<program, kind, afds, fd2svc, slave, sigchld, now, stored, sent, clients,
                     lost, faults>>

\* The first entry with the port is given the time, and only then is the
\* connection closed.
postprocessingReply(c) ==
  /\ mpc = "post" /\ fd[c] \in rfds /\ mpc' = "select" /\ rfds' = {}
  /\ \E p \in Ports(c) :
       LET found == {i \in 1..TABLE_LEN : ConnTable[i].port = p} IN
       IF found = {} THEN UNCHANGED <<ConnTable, stored, fd, conn>>
       ELSE /\ ConnTable' = [ConnTable EXCEPT ![First(found)].closeTm = now]
            /\ stored' = [stored EXCEPT ![c] = now]
            /\ fd' = [fd EXCEPT ![c] = 0]
            /\ conn' = [conn EXCEPT ![c] = "closed"]
  /\ UNCHANGED <<program, kind, afds, fd2svc, slave, sigchld, now, refused, backlog, sent,
                 answers, broken, clients, lost, faults>>

tick == /\ program = "exc_10_7" /\ now < MaxTime /\ now' = now + 1
        /\ UNCHANGED <<program, kind, server, ConnTable, stored, refused, wires, clients, lost,
                       faults>>
-----------------------------------------------------------------------------
Accept(s, c) == \/ accept_fails(s, c) \/ accept_keep(s, c) \/ accept_answer(s, c)
                \/ accept_fork(s, c) \/ preprocessingRequest(s, c) \/ accept_xdr(s, c)
ServerStep == \/ select \/ served \/ reaper
              \/ \E c \in Clients : \/ \E s \in 1..Xdr : Accept(s, c)
                                    \/ recvfrom(c) \/ daytimed(c) \/ sv_func(c)
                                    \/ sv_func_eof(c) \/ postprocessingReply(c) \/ slave_ends(c)
                                    \/ recvNBytes(c)
ClientStep == \E c \in Clients : connect(c) \/ write(c) \/ read(c) \/ read_eof(c) \/ read_empty(c)

Next == ServerStep \/ ClientStep \/ tick \/ \E c \in Clients : killed(c)

Spec == Init /\ [][Next]_vars

\* Everybody is scheduled, and SIGCHLD is delivered.
FairSpec == Spec /\ WF_vars(ServerStep) /\ WF_vars(ClientStep)
-----------------------------------------------------------------------------
TypeOK ==
  /\ program \in Programs /\ kind \in [Clients -> DOMAIN Service]
  /\ mpc \in {"select", "serve", "post", "recv", "dead"} /\ rfds \subseteq Socks \cup FDs
  /\ afds \subseteq FDs /\ fd2svc \in [FDs -> {0, Echo, Chargen, Time}]
  /\ fd \in [Clients -> {0} \cup FDs] /\ \A f \in FDs : Cardinality(Owner(f)) <= 1
  /\ slave \in [Clients -> {"none", "running", "zombie", "reaped"}] /\ sigchld \in BOOLEAN
  /\ \A i \in 1..TABLE_LEN : ConnTable[i].port \in Int /\ ConnTable[i].closeTm \in 0..now
  /\ now \in 1..MaxTime
  /\ \A s \in 1..Udp : backlog[s] \in Seq(Clients)
  /\ conn \in [Clients -> {"new", "queued", "open", "closed"}] /\ sent \in [Clients -> BOOLEAN]
  /\ answers \in [Clients -> 0..1] /\ broken \subseteq Gone
  /\ cpc \in [Clients -> {"connect", "write", "read", "end", "killed"}]
  /\ \A c \in Clients : round[c] \in 0..Rounds /\ got[c] \in 0..Rounds
                        /\ stored[c] \in 0..now
  /\ refused \subseteq Clients /\ gaveup \subseteq Clients /\ lost \subseteq Clients /\ faults \in 0..Faults

\* Every descriptor that select is given is the open connection of one client, and
\* exc_14_3 has it down for the service that the client asked for, although
\* descriptors are used again by other services within the same pass.
SelectOpen ==
  mpc = "select" => \A f \in afds : \E c \in Clients :
    /\ Owner(f) = {c} /\ conn[c] = "open"
    /\ program = "exc_14_3" => fd2svc[f] = Service[kind[c]]

\* With the types of the variables.
SelectInv == TypeOK /\ SelectOpen

\* A DAYTIME client that has seen the end of its connection has been answered
\* exactly once, unless its host is not in the list, ConnTable was full, or the
\* server has ended.  TCP_xdr_client prints its own request for the answer only if
\* one of the two ends has given up, or the server has ended.
AnsweredOnce ==
  \A c \in Clients : cpc[c] = "end" /\ conn[c] # "new" =>
    /\ kind[c] = "TCPdaytime" =>
         \/ got[c] = 1
         \/ got[c] = 0 /\ \/ program = "exc_13_5" /\ c \notin Authorised
                          \/ c \in refused \/ mpc = "dead"
    /\ kind[c] = "TCP_xdr_client" /\ got[c] = 0 => c \in gaveup \/ mpc = "dead"

\* A server ends only if a fork or an accept fails, or if it runs out of
\* descriptors, which the servers that close each connection at once never do; a
\* client that is killed is the end of exc_14_3 alone.
Survives ==
  [][mpc # "dead" /\ mpc' = "dead" =>
       \/ faults' < faults /\ program \in Iterative \cup {"exc_13_1"}
       \/ Free = {} /\ program \in {"exc_14_3", "TCPmdaytimed", "exc_10_5", "exc_10_7"}
       \/ program = "exc_14_3" /\ \E c \in Clients : cpc[c] = "killed"]_vars

\* exc_10_7 turns a client away only if it has closed as many connections as the
\* table has entries within the last four minutes.
RefusedOnlyBusy ==
  [][\A c \in refused' \ refused :
       Cardinality({d \in Clients : stored[d] > 0 /\ now - stored[d] <= MinSlot}) >= TABLE_LEN]_vars

\* Every client comes to its end; but TCPchargen never does (and exc_14_3 sends it
\* nothing, because it asks for nothing), TCPdaytime waits for ever for an end of
\* the connection that exc_10_5, or exc_10_7 when it does not find the port, never
\* sends, and UDPdaytime for an answer that never comes.
ClientsEnd ==
  \A c \in Clients : <>[](\/ c \in Gone
                          \/ kind[c] = "TCPchargen"
                          \/ kind[c] = "TCPdaytime" /\ conn[c] = "open" /\ got[c] = 1
                             /\ program \in {"exc_10_5", "exc_10_7"}
                          \/ kind[c] = "UDPdaytime" /\ (c \in lost \/ mpc = "dead" \/
                               (program = "exc_13_5" /\ c \notin Authorised)))
=============================================================================
