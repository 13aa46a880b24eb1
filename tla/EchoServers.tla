---------------------------- MODULE EchoServers ----------------------------
(***************************************************************************)
(* The TCP echo servers of chapters 11, 12 and 15 that differ in who       *)
(* serves a connection:                                                    *)
(*   TCPechod    a slave forked for it (chapter11/TCPechod.c, exc_11_0.c,  *)
(*               exc_11_1.c); SIGCHLD runs a reaper that goes on until     *)
(*               wait3 fails, that is, until there are no slaves           *)
(*   no_wait     the same without the reaper: the master calls wait3 once  *)
(*               per connection (chapter11/test_no_wait.c)                 *)
(*   exc_11_3    the one process, to the end (chapter11/exc_11_3.c)        *)
(*   preallctn   whichever of the processes forked at the start accepts it *)
(*               (chapter15/tcp_preallctn_echod.c)                         *)
(*   TCPmechod   the one process, a message at a time, as select finds     *)
(*               them (chapter12/TCPmechod.c)                              *)
(* Connections have finite buffers, so that a server blocks in a write to  *)
(* a client that does not read.  Messages are counted; a blocking write is *)
(* done when the buffers can take all of it.                               *)
(***************************************************************************)
EXTENDS Naturals, Sequences, FiniteSets

CONSTANTS Clients,   \* each connects once
          None,      \* no connection
          NCRTLVL,   \* the slaves of preallctn; elsewhere at most as many at once
          QLEN,      \* the backlog of msock
          BUFSIZE,   \* what one read returns at most, in messages
          CAP,       \* what is written to a client that does not read, at most
          MaxSent,   \* bound: messages of each client
          Parties,   \* bound: the sets of clients that come in one behaviour
          Faults     \* bound: connections reset, forks that fail

ASSUME ConstantsAssumption ==
  /\ IsFiniteSet(Clients) /\ None \notin Clients
  /\ NCRTLVL \in Nat \ {0} /\ QLEN \in Nat /\ BUFSIZE \in Nat \ {0}
  /\ CAP \in Nat /\ CAP >= BUFSIZE /\ MaxSent \in [Clients -> Nat]
  /\ Parties \subseteq SUBSET Clients /\ Faults \in Nat

Master == 0
Slaves == 1..NCRTLVL
Procs  == {Master} \cup Slaves
Forking  == {"TCPechod", "no_wait"}
Programs == Forking \cup {"exc_11_3", "preallctn", "TCPmechod"}

VARIABLES
  program,   \* which server (the same in all states)
  pc,        \* pc[p]: where process p is; "none" if there is no such process
  l,         \* preallctn: how many slaves the root has forked
  ssock,     \* ssock[p]: the connection p serves
  fds,       \* fds[p]: the connections p holds a descriptor of
  buf,       \* buf[p]: messages read and not yet written back
  rfds,      \* TCPmechod: what select found, msock as None
  reaping,   \* TCPechod: is the reaper on top of the master?
  sigchld,   \* is a SIGCHLD pending at the master?
  backlog,   \* connections not yet accepted
  conn,      \* conn[c]: "new", "open", "fin" (client sends no more) or "rst"
  inq, outq, \* inq[c], outq[c]: messages on their way to the server, to c
  sent, got, \* per client, messages sent and received
  faults

procs == <<pc, l, ssock, fds, buf, rfds, reaping, sigchld>>
net   == <<backlog, conn, inq, outq, sent, got, faults>>
vars  == <<program, pc, l, ssock, fds, buf, rfds, reaping, sigchld,
           backlog, conn, inq, outq, sent, got, faults>>

Top == IF program = "TCPmechod" THEN "select" ELSE "accept"

Init == /\ program \in Programs
        /\ pc = [p \in Procs |->
                   IF p # Master THEN "none"
                   ELSE IF program = "preallctn" THEN "prefork" ELSE Top]
        /\ l = 0 /\ ssock = [p \in Procs |-> None] /\ fds = [p \in Procs |-> {}]
        /\ buf = [p \in Procs |-> 0]
        /\ rfds = {} /\ reaping = FALSE /\ sigchld = FALSE
        /\ backlog = <<>> /\ conn = [c \in Clients |-> "new"]
        /\ inq = [c \in Clients |-> 0] /\ outq = [c \in Clients |-> 0]
        /\ sent = [c \in Clients |-> 0] /\ got = [c \in Clients |-> 0]
        /\ faults = Faults

At(p, label)    == pc[p] = label /\ ~(p = Master /\ reaping)
Goto(p, from, to) == At(p, from) /\ pc' = [pc EXCEPT ![p] = to]

Children == {s \in Slaves : pc[s] # "none"}
Zombies  == {s \in Slaves : pc[s] = "zombie"}
-----------------------------------------------------------------------------
(* The clients and TCP. *)

connect(c) == /\ conn[c] = "new" /\ Len(backlog) <= QLEN
              /\ \E P \in Parties : {d \in Clients : conn[d] # "new"} \cup {c} \subseteq P
              /\ conn' = [conn EXCEPT ![c] = "open"]
              /\ backlog' = Append(backlog, c)
              /\ UNCHANGED <<program, procs, inq, outq, sent, got, faults>>

send(c) == /\ conn[c] = "open" /\ sent[c] < MaxSent[c]
           /\ sent' = [sent EXCEPT ![c] = @ + 1] /\ inq' = [inq EXCEPT ![c] = @ + 1]
           /\ UNCHANGED <<program, procs, backlog, conn, outq, got, faults>>

receive(c) == /\ conn[c] \in {"open", "fin"} /\ outq[c] > 0
              /\ got' = [got EXCEPT ![c] = @ + outq[c]]
              /\ outq' = [outq EXCEPT ![c] = 0]
              /\ UNCHANGED <<program, procs, backlog, conn, inq, sent, faults>>

finish(c) == /\ conn[c] = "open"
             /\ conn' = [conn EXCEPT ![c] = "fin"]
             /\ UNCHANGED <<program, procs, backlog, inq, outq, sent, got, faults>>

reset(c) == /\ conn[c] \in {"open", "fin"} /\ faults > 0
            /\ conn' = [conn EXCEPT ![c] = "rst"]
            /\ faults' = faults - 1
            /\ UNCHANGED <<program, procs, backlog, inq, outq, sent, got>>
-----------------------------------------------------------------------------
(* The end of a process: exit, errexit or SIGPIPE. *)

\* A slave's parent is told while it lives; a dead one's slaves are init's.
Ends(p) ==
  /\ pc' = [q \in Procs |->
              CASE q = p /\ p = Master -> "dead"
                [] q = p /\ p # Master -> IF pc[Master] = "dead" THEN "none" ELSE "zombie"
                [] q # p -> IF p = Master /\ pc[q] = "zombie" THEN "none" ELSE pc[q]]
  /\ ssock' = [ssock EXCEPT ![p] = None]
  /\ fds' = [fds EXCEPT ![p] = {}]
  /\ buf' = [buf EXCEPT ![p] = 0]
  /\ sigchld' = (p # Master /\ pc[Master] # "dead")
  /\ rfds' = IF p = Master THEN {} ELSE rfds
  /\ reaping' = (reaping /\ p # Master)
-----------------------------------------------------------------------------
(* main of the forking servers, and of preallctn. *)

\* accept returns a connection.
accept(p) ==
  LET c == Head(backlog) IN
  /\ At(p, "accept") /\ backlog # <<>>
  /\ pc' = [pc EXCEPT ![p] = IF program \in Forking THEN "fork" ELSE "read"]
  /\ ssock' = [ssock EXCEPT ![p] = c]
  /\ fds' = [fds EXCEPT ![p] = @ \cup {c}]
  /\ backlog' = Tail(backlog)
  /\ UNCHANGED <<program, l, buf, rfds, reaping, sigchld, conn, inq, outq, sent, got, faults>>

\* fork: the slave has a copy of the master's descriptors.  (Slaves differ in nothing
\* but their number here: the new one has the first that is free.)
fork(s) == /\ At(Master, "fork")
           /\ pc[s] = "none" /\ \A r \in 1..(s - 1) : pc[r] # "none"
           /\ pc' = [pc EXCEPT ![Master] = "close", ![s] = "read"]
           /\ ssock' = [ssock EXCEPT ![s] = ssock[Master]]
           /\ fds' = [fds EXCEPT ![s] = fds[Master]]
           /\ UNCHANGED <<program, l, buf, rfds, reaping, sigchld, net>>

\* fork fails, and errexit ends the master.
fork_fails == /\ At(Master, "fork") \/ At(Master, "prefork")
              /\ faults > 0 /\ faults' = faults - 1
              /\ Ends(Master)
              /\ UNCHANGED <<program, l, backlog, conn, inq, outq, sent, got>>

\* Mutant of parent_close: the master keeps its descriptor.
MutantKeepsOpen ==
  /\ Goto(Master, "close", IF program = "no_wait" THEN "wait" ELSE "accept")
  /\ ssock' = [ssock EXCEPT ![Master] = None]
  /\ UNCHANGED <<program, l, fds, buf, rfds, reaping, sigchld, net>>

\* The master closes its descriptor of the connection.
parent_close ==
  /\ Goto(Master, "close", IF program = "no_wait" THEN "wait" ELSE "accept")
  /\ fds' = [fds EXCEPT ![Master] = @ \ {ssock[Master]}]
  /\ ssock' = [ssock EXCEPT ![Master] = None]
  /\ UNCHANGED <<program, l, buf, rfds, reaping, sigchld, net>>

\* test_no_wait.c: one slave is waited for, if one has ended.
wait3 == /\ At(Master, "wait")
         /\ \/ Zombies = {} /\ pc' = [pc EXCEPT ![Master] = "accept"]
            \/ \E z \in Zombies :
                 pc' = [pc EXCEPT ![z] = "none", ![Master] = "accept"]
         /\ UNCHANGED <<program, l, ssock, fds, buf, rfds, reaping, sigchld, net>>

\* The root forks the slaves, and becomes one of them.
prefork == /\ At(Master, "prefork")
           /\ l' = l + 1
           /\ pc' = [pc EXCEPT ![l + 1] = "accept",
                               ![Master] = IF l + 1 = NCRTLVL THEN "accept" ELSE "prefork"]
           /\ UNCHANGED <<program, ssock, fds, buf, rfds, reaping, sigchld, net>>
-----------------------------------------------------------------------------
(* SIGCHLD. *)

\* Mutant of reaper: one wait3 for one signal.
MutantOneWait ==
  /\ sigchld /\ ~reaping /\ pc[Master] # "dead"
  /\ program \in {"TCPechod", "preallctn"}
  /\ sigchld' = FALSE
  /\ \/ Zombies = {} /\ pc' = pc
     \/ \E z \in Zombies : pc' = [pc EXCEPT ![z] = "none"]
  /\ UNCHANGED <<program, l, ssock, fds, buf, rfds, reaping, net>>

\* preallctn's reaper waits for all slaves that have ended, and returns.
reaper ==
  /\ sigchld /\ ~reaping /\ pc[Master] # "dead"
  /\ program \in {"TCPechod", "preallctn"}
  /\ sigchld' = FALSE
  /\ reaping' = (program = "TCPechod")
  /\ pc' = IF program = "preallctn"
           THEN [p \in Procs |-> IF p \in Zombies THEN "none" ELSE pc[p]] ELSE pc
  /\ UNCHANGED <<program, l, ssock, fds, buf, rfds, net>>

\* TCPechod's reaper: wait3 returns a slave that has ended.  (It returns 0, and
\* nothing changes, while there are only slaves that live.)
reap(z) == /\ reaping /\ z \in Zombies
           /\ pc' = [pc EXCEPT ![z] = "none"]
           /\ UNCHANGED <<program, l, ssock, fds, buf, rfds, reaping, sigchld, net>>

\* Mutant of reaper_returns: wait3's -1 does not end the loop either.
MutantNoReturn == FALSE /\ UNCHANGED vars

\* wait3 fails with ECHILD.
reaper_returns == /\ reaping /\ Children = {}
                  /\ reaping' = FALSE
                  /\ UNCHANGED <<program, pc, l, ssock, fds, buf, rfds, sigchld, net>>
-----------------------------------------------------------------------------
(* TCPechod and echo: the service itself. *)

\* Mutant of read: the length of the buffer instead of what was read.
MutantRead(p) ==
  LET c == ssock[p] IN
  /\ Goto(p, "read", "write") /\ inq[c] > 0
  /\ inq' = [inq EXCEPT ![c] = IF @ > BUFSIZE THEN @ - BUFSIZE ELSE 0]
  /\ buf' = [buf EXCEPT ![p] = BUFSIZE]
  /\ UNCHANGED <<program, l, ssock, fds, rfds, reaping, sigchld,
                 backlog, conn, outq, sent, got, faults>>

\* Mutant of read: it waits until the buffer is full.
MutantFullRead(p) ==
  LET c == ssock[p] IN
  /\ Goto(p, "read", "write") /\ inq[c] >= BUFSIZE
  /\ inq' = [inq EXCEPT ![c] = @ - BUFSIZE]
  /\ buf' = [buf EXCEPT ![p] = BUFSIZE]
  /\ UNCHANGED <<program, l, ssock, fds, rfds, reaping, sigchld,
                 backlog, conn, outq, sent, got, faults>>

read(p) ==
  LET c == ssock[p] IN
  /\ Goto(p, "read", "write") /\ inq[c] > 0
  /\ inq' = [inq EXCEPT ![c] = IF @ > BUFSIZE THEN @ - BUFSIZE ELSE 0]
  /\ buf' = [buf EXCEPT ![p] = IF inq[c] > BUFSIZE THEN BUFSIZE ELSE inq[c]]
  /\ UNCHANGED <<program, l, ssock, fds, rfds, reaping, sigchld,
                 backlog, conn, outq, sent, got, faults>>

\* read returns 0: the client sends no more and all was read.
read_eof(p) ==
  LET c == ssock[p] IN
  /\ At(p, "read") /\ inq[c] = 0 /\ conn[c] = "fin"
  /\ IF program \in Forking
     THEN Ends(p)
     ELSE /\ pc' = [pc EXCEPT ![p] = IF program = "TCPmechod" THEN "loop" ELSE "accept"]
          /\ fds' = [fds EXCEPT ![p] = @ \ {c}]
          /\ ssock' = [ssock EXCEPT ![p] = None]
          /\ UNCHANGED <<buf, rfds, reaping, sigchld>>
  /\ UNCHANGED <<program, l, net>>

\* read fails, or write does, on a connection that was reset: errexit, SIGPIPE.
fails(p) == /\ \/ At(p, "read") /\ inq[ssock[p]] = 0
               \/ At(p, "write")
            /\ conn[ssock[p]] = "rst"
            /\ Ends(p)
            /\ UNCHANGED <<program, l, net>>

write(p) ==
  LET c == ssock[p] IN
  /\ Goto(p, "write", IF program = "TCPmechod" THEN "loop" ELSE "read")
  /\ conn[c] # "rst" /\ outq[c] + buf[p] <= CAP
  /\ outq' = [outq EXCEPT ![c] = @ + buf[p]]
  /\ buf' = [buf EXCEPT ![p] = 0]
  /\ UNCHANGED <<program, l, ssock, fds, rfds, reaping, sigchld,
                 backlog, conn, inq, sent, got, faults>>
-----------------------------------------------------------------------------
(* TCPmechod's main. *)

Ready == {c \in fds[Master] : inq[c] > 0 \/ conn[c] \in {"fin", "rst"}}
           \cup (IF backlog # <<>> THEN {None} ELSE {})

select == /\ Goto(Master, "select", "loop") /\ Ready # {}
          /\ rfds' = Ready
          /\ UNCHANGED <<program, l, ssock, fds, buf, reaping, sigchld, net>>

\* msock is in rfds: a connection is accepted, and put into afds.
loop_accept == /\ At(Master, "loop") /\ None \in rfds
               /\ rfds' = rfds \ {None}
               /\ fds' = [fds EXCEPT ![Master] = @ \cup {Head(backlog)}]
               /\ backlog' = Tail(backlog)
               /\ UNCHANGED <<program, pc, l, ssock, buf, reaping, sigchld,
                              conn, inq, outq, sent, got, faults>>

\* Mutant of loop_echo: descriptors that select did not return are read too.
MutantAllRead(c) ==
  /\ Goto(Master, "loop", "read") /\ None \notin rfds /\ c \in fds[Master]
  /\ rfds' = rfds \ {c}
  /\ ssock' = [ssock EXCEPT ![Master] = c]
  /\ UNCHANGED <<program, l, fds, buf, reaping, sigchld, net>>

\* echo is called for a connection in rfds.
loop_echo(c) == /\ Goto(Master, "loop", "read") /\ None \notin rfds /\ c \in rfds
                /\ rfds' = rfds \ {c}
                /\ ssock' = [ssock EXCEPT ![Master] = c]
                /\ UNCHANGED <<program, l, fds, buf, reaping, sigchld, net>>

loop_done == /\ Goto(Master, "loop", "select") /\ rfds = {}
             /\ UNCHANGED <<program, l, ssock, fds, buf, rfds, reaping, sigchld, net>>
-----------------------------------------------------------------------------
ProcStep(p)   == accept(p) \/ read(p) \/ read_eof(p) \/ fails(p) \/ write(p)
MasterStep    == \/ parent_close \/ wait3 \/ prefork
                 \/ select \/ loop_accept \/ loop_done
                 \/ \E s \in Slaves : fork(s)
                 \/ \E c \in Clients : loop_echo(c)
Signal        == reaper \/ reaper_returns \/ \E z \in Slaves : reap(z)
ClientStep(c) == connect(c) \/ send(c) \/ receive(c) \/ finish(c) \/ reset(c)

Next == \/ \E p \in Procs : ProcStep(p)
        \/ MasterStep \/ Signal \/ fork_fails
        \/ \E c \in Clients : ClientStep(c)

Spec == Init /\ [][Next]_vars

\* Processes are scheduled and SIGCHLD is delivered; the clients owe nothing.
Fairness == /\ \A p \in Procs : WF_vars(ProcStep(p))
            /\ WF_vars(MasterStep) /\ WF_vars(Signal)
FairSpec == Spec /\ Fairness
-----------------------------------------------------------------------------
TypeOK == /\ program \in Programs
          /\ pc \in [Procs -> {"none", "prefork", "accept", "fork", "close", "wait", "read",
                               "write", "select", "loop", "zombie", "dead"}]
          /\ l \in 0..NCRTLVL /\ ssock \in [Procs -> Clients \cup {None}]
          /\ fds \in [Procs -> SUBSET Clients] /\ buf \in [Procs -> 0..BUFSIZE]
          /\ rfds \subseteq Clients \cup {None}
          /\ reaping \in BOOLEAN /\ sigchld \in BOOLEAN
          /\ backlog \in Seq(Clients) /\ Len(backlog) <= QLEN + 1
          /\ conn \in [Clients -> {"new", "open", "fin", "rst"}]
          /\ inq \in [Clients -> Nat] /\ outq \in [Clients -> 0..CAP]
          /\ sent \in [Clients -> Nat] /\ got \in [Clients -> Nat]
          /\ \A c \in Clients : inq[c] <= sent[c] /\ got[c] <= sent[c]
                                /\ sent[c] <= MaxSent[c]
          /\ faults \in 0..Faults

Queued(c)   == \E i \in DOMAIN backlog : backlog[i] = c
Held(c)     == \E p \in Procs : c \in fds[p]
Stalled(c)  == \E p \in Procs :      \* c does not read its echo
                 ssock[p] = c /\ pc[p] = "write" /\ outq[c] + buf[p] > CAP
Blocked     == program = "TCPmechod" /\ \E d \in Clients : Stalled(d)

\* Every message is on its way to the server, in one process, on its way back or
\* received, and in one of them only; a reset may lose some.
EchoExact ==
  \A c \in Clients :
    LET P == {p \in Procs : ssock[p] = c /\ buf[p] > 0}
        held == IF P = {} THEN 0 ELSE buf[CHOOSE p \in P : TRUE]
        all == inq[c] + held + outq[c] + got[c]
    IN  /\ Cardinality(P) <= 1
        /\ all <= sent[c]
        /\ conn[c] # "rst" => all = sent[c]

\* Whoever select or accept gives a descriptor reads it without waiting for a
\* quiet client: TCPmechod blocks only in a write.
SelectReads == program = "TCPmechod" /\ pc[Master] = "read" =>
                 inq[ssock[Master]] > 0 \/ conn[ssock[Master]] \in {"fin", "rst"}

\* What is read is there and is echoed: the types of the variables, and the two
\* properties above.
EchoInv == TypeOK /\ EchoExact /\ SelectReads

\* A client that is connected gets its echo, unless it resets or for ever leaves
\* unread what it got: other clients may be quiet, stop reading or reset without
\* it noticing.  Except that in TCPmechod one who does not read blocks all, one
\* who resets kills all, and that in TCPechod a SIGCHLD between accept and fork
\* keeps the one just accepted waiting while the reaper goes round.
Answered ==
  \A c \in Clients : \A n \in 1..MaxSent[c] :
    <>[](Held(c) /\ conn[c] # "rst" /\ sent[c] >= n /\ got[c] + outq[c] < n)
      => <>[](\/ Stalled(c)
              \/ Blocked
              \/ c \in fds[Master] /\ reaping /\ Children # {})

\* A connection waits in the backlog for ever only if every process that could
\* accept it is for ever busy with another client: for TCPechod that includes a
\* reaper that goes round as long as a slave lives.
Accepted ==
  \A c \in Clients :
    <>[]Queued(c) => <>[](\/ pc[Master] = "dead" /\ program # "preallctn"
                          \/ reaping /\ Children # {}
                          \/ Blocked
                          \/ /\ program \in {"exc_11_3", "preallctn"}
                             /\ \A p \in Procs : pc[p] \notin {"prefork", "accept"})

\* A client that has sent all and reads what comes sees its connection closed, in
\* every process; but not while a reaper keeps the master from its close(ssock).
ClosedEverywhere ==
  \A c \in Clients :
    <>[](conn[c] = "fin" /\ Held(c))
      => <>[](\/ Stalled(c)
              \/ Blocked
              \/ c \in fds[Master] /\ reaping /\ Children # {})

\* No slave that has ended stays a zombie, although SIGCHLDs that come at once
\* are one: test_no_wait.c, which has no reaper, is the counterexample.
Reaped == \A s \in Slaves : pc[s] = "zombie" ~> pc[s] # "zombie" \/ program = "no_wait"
=============================================================================
