---------------------------- MODULE SuperServer ----------------------------
(***************************************************************************)
(* The super-servers of chapter 14: a master that listens on one socket    *)
(* per entry of svent, waits in select, and forks a slave for each TCP     *)
(* connection.                                                             *)
(*   superd     the slave closes all else and calls the service function   *)
(*   exc_14_1   looks the service up in svent, and closes what svent lists *)
(*   exc_14_4   has a UDP service too, which the master itself serves      *)
(*   exc_14_6   the slave executes the service's program; SIGHUP sets      *)
(*              readCfg, and the master then closes its listening sockets  *)
(*              and opens new ones                                         *)
(* SIGHUP ends the other three.  A signal that is handled interrupts a     *)
(* select that blocks.                                                     *)
(*                                                                         *)
(* A listening socket lives as long as a process holds a descriptor of it, *)
(* and a slave holds copies of all from its fork to its close loop.  The   *)
(* sockets are bound with SO_REUSEPORT, so that an old one and a new one   *)
(* can listen on the port of one service side by side.                     *)
(***************************************************************************)
EXTENDS Naturals, Sequences, FiniteSets

CONSTANTS Clients,   \* each connects once, and has the slave forked for it
          NSV,       \* the number of services in svent
          QLEN,      \* the backlog of a listening socket
          MaxHups,   \* bound: SIGHUPs sent to the master
          Faults     \* bound: forks that fail

ASSUME ConstantsAssumption ==
  /\ IsFiniteSet(Clients) /\ NSV \in Nat \ {0}
  /\ QLEN \in Nat /\ MaxHups \in Nat /\ Faults \in Nat

Master == "master"
ASSUME MasterAssumption == Master \notin Clients

svent == 1..NSV
Programs == {"superd", "exc_14_1", "exc_14_4", "exc_14_6"}
Socks == svent \X (0..MaxHups)     \* a service's listening sockets, by reset
NoClient == "none"

VARIABLES
  program,   \* which super-server (the same in all states)
  mpc,       \* where the master is
  psv,       \* the loop variable of resetServerFrmCfg
  reset,     \* resets begun after the first: names the sockets they open
  afds,      \* the services whose socket is in afds
  fd2sv,     \* fd2sv[s]: the reset that opened the socket of s
  rfds,      \* the services select found ready and not yet served
  ssock,     \* the client accepted last
  readCfg,   \* set by the SIGHUP handler
  holders,   \* holders[x]: the master and slaves that hold listening socket x
  backlog,   \* backlog[x]: connections of socket x not yet accepted
  conn,      \* conn[c]: "new", "refused", "queued", "reset", "open", "closed"
  slave,     \* slave[c]: "none", "forked", "running", "zombie", "reaped"
  sigchld,   \* is a SIGCHLD pending at the master?
  hups,      \* SIGHUPs sent so far
  missed,    \* history: has one come after the test of readCfg and before the
             \* select, or during a reset?
  faults

server == <<mpc, psv, reset, afds, fd2sv, rfds, ssock, readCfg, program, missed>>
world  == <<holders, backlog, conn, slave, sigchld, hups, faults>>
vars   == <<mpc, psv, reset, afds, fd2sv, rfds, ssock, readCfg, program, missed,
            holders, backlog, conn, slave, sigchld, hups, faults>>

useTCP(s) == program # "exc_14_4" \/ s # NSV   \* the last service of exc_14_4 is UDP

\* main has opened a socket for each service and installed its handlers.
Init == /\ program \in Programs /\ mpc = "top" /\ psv = 1 /\ reset = 0
        /\ afds = svent /\ fd2sv = [s \in svent |-> 0]
        /\ rfds = {} /\ ssock = NoClient /\ readCfg = FALSE /\ missed = FALSE
        /\ holders = [x \in Socks |-> IF x[2] = 0 THEN {Master} ELSE {}]
        /\ backlog = [x \in Socks |-> <<>>]
        /\ conn = [c \in Clients |-> "new"] /\ slave = [c \in Clients |-> "none"]
        /\ sigchld = FALSE /\ hups = 0 /\ faults = Faults

Goto(from, to) == mpc = from /\ mpc' = to

\* p closes its descriptors of sockets X and connections C.  A socket nobody
\* holds any more is gone, and what waits in its backlog is reset.
Close(p, X, C) ==
  LET h == [x \in Socks |-> IF x \in X THEN holders[x] \ {p} ELSE holders[x]]
      gone == {x \in X : h[x] = {}}
  IN  /\ holders' = h
      /\ conn' = [c \in Clients |->
                    IF \E x \in gone : \E i \in DOMAIN backlog[x] : backlog[x][i] = c
                    THEN "reset" ELSE IF c \in C THEN "closed" ELSE conn[c]]
      /\ backlog' = [x \in Socks |-> IF x \in gone THEN <<>> ELSE backlog[x]]
-----------------------------------------------------------------------------
(* The clients: a connection, or a datagram for a UDP service. *)

Listening(s) == {x \in Socks : x[1] = s /\ holders[x] # {}}

connect(c, s) ==
  /\ conn[c] = "new"
  /\ \/ /\ Listening(s) = {}
        /\ conn' = [conn EXCEPT ![c] = "refused"]
        /\ UNCHANGED backlog
     \/ \E x \in Listening(s) :
          /\ Len(backlog[x]) <= QLEN
          /\ conn' = [conn EXCEPT ![c] = "queued"]
          /\ backlog' = [backlog EXCEPT ![x] = Append(@, c)]
  /\ UNCHANGED <<server, holders, slave, sigchld, hups, faults>>
-----------------------------------------------------------------------------
(* The master: main and resetServerFrmCfg. *)

top == /\ mpc = "top"
       /\ mpc' = IF readCfg THEN "close" ELSE "select"
       /\ IF readCfg THEN reset' = reset + 1 /\ psv' = 1
                     ELSE UNCHANGED <<reset, psv>>
       /\ UNCHANGED <<program, missed, afds, fd2sv, rfds, ssock, readCfg, world>>

\* Mutant of reset_close: the second loop goes on where the first one ended.
MutantNoRestart ==
  /\ mpc = "close"
  /\ Close(Master, {<<psv, fd2sv[psv]>>}, {})
  /\ afds' = afds \ {psv}
  /\ psv' = psv + 1
  /\ mpc' = IF psv = NSV THEN "open" ELSE "close"
  /\ UNCHANGED <<reset, fd2sv, rfds, ssock, readCfg, program, missed, slave, sigchld, hups, faults>>

\* The first loop of resetServerFrmCfg, once.
reset_close ==
  /\ mpc = "close"
  /\ Close(Master, {<<psv, fd2sv[psv]>>}, {})
  /\ afds' = afds \ {psv}
  /\ psv' = IF psv = NSV THEN 1 ELSE psv + 1
  /\ mpc' = IF psv = NSV THEN "open" ELSE "close"
  /\ UNCHANGED <<reset, fd2sv, rfds, ssock, readCfg, program, missed, slave, sigchld, hups, faults>>

\* Mutant of reset_open: the new socket is not put into afds.
MutantOpen ==
  /\ mpc = "open"
  /\ holders' = [holders EXCEPT ![<<psv, reset>>] = {Master}]
  /\ fd2sv' = [fd2sv EXCEPT ![psv] = reset]
  /\ psv' = IF psv = NSV THEN 1 ELSE psv + 1
  /\ mpc' = IF psv = NSV THEN "clear" ELSE "open"
  /\ UNCHANGED <<reset, afds, rfds, ssock, readCfg, program, missed, backlog, conn, slave, sigchld,
                 hups, faults>>

\* Its second loop, once: passiveTCP gives the service a new socket.
reset_open ==
  /\ mpc = "open"
  /\ holders' = [holders EXCEPT ![<<psv, reset>>] = {Master}]
  /\ fd2sv' = [fd2sv EXCEPT ![psv] = reset]
  /\ afds' = afds \cup {psv}
  /\ psv' = IF psv = NSV THEN 1 ELSE psv + 1
  /\ mpc' = IF psv = NSV THEN "clear" ELSE "open"
  /\ UNCHANGED <<reset, rfds, ssock, readCfg, program, missed, backlog, conn, slave, sigchld,
                 hups, faults>>

clear == /\ Goto("clear", "select")
         /\ readCfg' = FALSE
         /\ UNCHANGED <<psv, reset, afds, fd2sv, rfds, ssock, program, missed, world>>

Ready == {s \in afds : backlog[<<s, fd2sv[s]>>] # <<>>}

\* select finds sockets ready, or blocks until there are some.
select == /\ mpc \in {"select", "blocked"}
          /\ IF Ready = {} THEN Goto("select", "blocked") /\ UNCHANGED rfds
                           ELSE mpc' = "serve" /\ rfds' = Ready
          /\ UNCHANGED <<psv, reset, afds, fd2sv, ssock, readCfg, program, missed, world>>

\* Mutant of accept: the service is served until it has no connection left.
MutantAccept ==
  LET s == CHOOSE t \in rfds : \A u \in rfds : t <= u
      x == <<s, fd2sv[s]>>
  IN  /\ mpc = "serve" /\ rfds # {} /\ backlog[x] # <<>> /\ useTCP(s)
      /\ mpc' = "fork"
      /\ ssock' = Head(backlog[x])
      /\ conn' = [conn EXCEPT ![Head(backlog[x])] = "open"]
      /\ backlog' = [backlog EXCEPT ![x] = Tail(@)]
      /\ UNCHANGED <<psv, reset, afds, fd2sv, rfds, readCfg, program, missed, holders, slave,
                     sigchld, hups, faults>>

\* doTCP for the first service that is ready: accept,
accept ==
  LET s == CHOOSE t \in rfds : \A u \in rfds : t <= u
      x == <<s, fd2sv[s]>>
  IN  /\ mpc = "serve" /\ rfds # {} /\ backlog[x] # <<>> /\ useTCP(s)
      /\ mpc' = "fork"
      /\ ssock' = Head(backlog[x])
      /\ conn' = [conn EXCEPT ![Head(backlog[x])] = "open"]
      /\ backlog' = [backlog EXCEPT ![x] = Tail(@)]
      /\ rfds' = rfds \ {s}
      /\ UNCHANGED <<psv, reset, afds, fd2sv, readCfg, program, missed, holders, slave, sigchld,
                     hups, faults>>

\* and fork: the slave has a copy of every descriptor, the master closes the
\* connection.
fork == /\ Goto("fork", "serve")
        /\ slave' = [slave EXCEPT ![ssock] = "forked"]
        /\ holders' = [x \in Socks |-> IF Master \in holders[x]
                                       THEN holders[x] \cup {ssock} ELSE holders[x]]
        /\ UNCHANGED <<psv, reset, afds, fd2sv, rfds, ssock, readCfg, program, missed,
                       backlog, conn, sigchld, hups, faults>>

\* fork fails, and errexit ends the master.
fork_fails == /\ Goto("fork", "dead") /\ faults > 0
              /\ faults' = faults - 1
              /\ Close(Master, Socks, {ssock})
              /\ UNCHANGED <<psv, reset, afds, fd2sv, rfds, ssock, readCfg, program, missed,
                             slave, sigchld, hups>>

\* UDPtimed, in the master: a datagram is answered; errexit if sendto fails.
UDPtimed ==
  LET s == CHOOSE t \in rfds : \A u \in rfds : t <= u
      x == <<s, fd2sv[s]>>
  IN  /\ mpc = "serve" /\ rfds # {} /\ backlog[x] # <<>> /\ ~useTCP(s)
      /\ rfds' = rfds \ {s}
      /\ \/ /\ backlog' = [backlog EXCEPT ![x] = Tail(@)]
            /\ conn' = [conn EXCEPT ![Head(backlog[x])] = "closed"]
            /\ UNCHANGED <<mpc, holders, faults>>
         \/ /\ faults > 0 /\ faults' = faults - 1 /\ mpc' = "dead"
            /\ Close(Master, Socks, {})
      /\ UNCHANGED <<psv, reset, afds, fd2sv, ssock, readCfg, program, missed, slave, sigchld, hups>>

served == /\ Goto("serve", "top") /\ rfds = {}
          /\ UNCHANGED <<psv, reset, afds, fd2sv, rfds, ssock, readCfg, program, missed, world>>

\* A handler that ran while select blocked makes it fail with EINTR.
Interrupt == mpc' = IF mpc = "blocked" THEN "top" ELSE mpc

\* Mutant of cfgreader: a select that blocks goes on.
MutantCfgreader == /\ program = "exc_14_6" /\ hups < MaxHups /\ mpc # "dead"
                   /\ hups' = hups + 1
                   /\ readCfg' = TRUE
                   /\ missed' = (missed \/ mpc \in {"select", "close", "open", "clear"})
                   /\ UNCHANGED <<mpc, psv, reset, afds, fd2sv, rfds, ssock, program,
                                  holders, backlog, conn, slave, sigchld, faults>>

\* SIGHUP, where it is handled,
cfgreader == /\ program = "exc_14_6" /\ hups < MaxHups /\ mpc # "dead"
             /\ hups' = hups + 1
             /\ readCfg' = TRUE
             /\ missed' = (missed \/ mpc \in {"select", "close", "open", "clear"})
             /\ Interrupt
             /\ UNCHANGED <<psv, reset, afds, fd2sv, rfds, ssock, program,
                            holders, backlog, conn, slave, sigchld, faults>>

\* and where it is not.
hangup == /\ program # "exc_14_6" /\ hups < MaxHups /\ mpc # "dead"
          /\ hups' = hups + 1
          /\ mpc' = "dead"
          /\ Close(Master, Socks, IF mpc = "fork" THEN {ssock} ELSE {})
          /\ UNCHANGED <<psv, reset, afds, fd2sv, rfds, ssock, readCfg, program, missed, slave,
                         sigchld, faults>>

\* SIGCHLD.
reaper == /\ sigchld /\ mpc # "dead"
          /\ sigchld' = FALSE
          /\ slave' = [c \in Clients |-> IF slave[c] = "zombie" THEN "reaped" ELSE slave[c]]
          /\ Interrupt
          /\ UNCHANGED <<psv, reset, afds, fd2sv, rfds, ssock, readCfg, program, missed,
                         holders, backlog, conn, hups, faults>>
-----------------------------------------------------------------------------
(* A slave: the rest of doTCP, and the service program. *)

\* Mutant of slave_exec: the close loop starts below the listening sockets.
MutantExec(c) == /\ slave[c] = "forked"
                 /\ slave' = [slave EXCEPT ![c] = "running"]
                 /\ UNCHANGED <<server, holders, backlog, conn, sigchld, hups, faults>>

\* The slave closes all descriptors but its connection, or at least the listening
\* sockets, and calls the service function or executes the program.
slave_exec(c) == /\ slave[c] = "forked"
                 /\ slave' = [slave EXCEPT ![c] = "running"]
                 /\ Close(c, Socks, {})
                 /\ UNCHANGED <<server, sigchld, hups, faults>>

\* The program ends, and the connection with it.
slave_ends(c) == /\ slave[c] = "running"
                 /\ slave' = [slave EXCEPT ![c] = "zombie"]
                 /\ conn' = [conn EXCEPT ![c] = "closed"]
                 /\ sigchld' = (mpc # "dead")
                 /\ UNCHANGED <<server, holders, backlog, hups, faults>>
-----------------------------------------------------------------------------
MasterStep == \/ top \/ reset_close \/ reset_open \/ clear \/ select
              \/ accept \/ fork \/ UDPtimed \/ served

Next == \/ MasterStep \/ fork_fails \/ cfgreader \/ hangup \/ reaper
        \/ \E c \in Clients : \/ \E s \in svent : connect(c, s)
                              \/ slave_exec(c) \/ slave_ends(c)

Spec == Init /\ [][Next]_vars

\* The master and the slaves are scheduled and SIGCHLD arrives; nobody has to
\* send SIGHUP, and a service program may run for ever.
Fairness == /\ WF_vars(MasterStep) /\ WF_vars(reaper)
            /\ \A c \in Clients : WF_vars(slave_exec(c))
FairSpec == Spec /\ Fairness
-----------------------------------------------------------------------------
TypeOK == /\ program \in Programs
          /\ mpc \in {"top", "close", "open", "clear", "select", "blocked", "serve",
                      "fork", "dead"}
          /\ psv \in svent /\ reset \in 0..MaxHups
          /\ afds \subseteq svent /\ fd2sv \in [svent -> 0..MaxHups]
          /\ rfds \subseteq svent /\ ssock \in Clients \cup {NoClient}
          /\ readCfg \in BOOLEAN /\ hups \in 0..MaxHups /\ faults \in 0..Faults
          /\ \A x \in Socks : /\ holders[x] \subseteq Clients \cup {Master}
                              /\ backlog[x] \in Seq(Clients) /\ Len(backlog[x]) <= QLEN + 1
          /\ conn \in [Clients -> {"new", "refused", "queued", "reset", "open", "closed"}]
          /\ slave \in [Clients -> {"none", "forked", "running", "zombie", "reaped"}]
          /\ sigchld \in BOOLEAN /\ missed \in BOOLEAN

\* A service the master is about to serve has an open socket (its fd2sv entry is
\* not NULL) and a connection to accept: whatever signals came since select, the
\* master never blocks in accept and never follows a stale map entry.
AcceptReady ==
  mpc = "serve" => \A s \in rfds : /\ s \in afds
                                   /\ Master \in holders[<<s, fd2sv[s]>>]
                                   /\ backlog[<<s, fd2sv[s]>>] # <<>>

\* Outside a reset, and once the slaves have got to their programs, exactly one
\* socket listens for each service and only the master holds it: no reset and no
\* slave leaves an old socket behind that would take connections nobody accepts.
OneListener ==
  /\ mpc \notin {"close", "open", "dead"}
  /\ \A c \in Clients : slave[c] # "forked"
  => \A s \in svent : /\ Listening(s) = {<<s, fd2sv[s]>>}
                      /\ holders[<<s, fd2sv[s]>>] = {Master}

\* The listening sockets, through resets, forks and signals: the types of the
\* variables, and the two properties above.
ListenInv == TypeOK /\ AcceptReady /\ OneListener

\* A connection in a backlog does not wait for ever: it is accepted, or a reset
\* (or the end of the master) resets it, old sockets of slaves included.
QueuedServed ==
  \A c \in Clients : conn[c] = "queued" ~> conn[c] # "queued"

\* A SIGHUP makes the master open new sockets, even when it comes while select
\* blocks.  Two moments are excepted.  After readCfg has been tested and before
\* select, the signal interrupts nothing and waits for the next connection; and
\* during a reset, it is forgotten when readCfg is cleared (line 83 of exc_14_6.c).
ReloadHappens == readCfg /\ ~missed ~> mpc \in {"close", "open", "clear", "dead"}
=============================================================================
