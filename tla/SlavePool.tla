------------------------------ MODULE SlavePool ------------------------------
(***************************************************************************)
(* The echo server of chapter15/exc_15_6.c: a master that multiplexes its  *)
(* listening socket, its clients and the reply pipes of a fixed pool of    *)
(* slave processes with select, and slaves that read a pipe, transform     *)
(* what they read and write it to another pipe.  A table gives each client *)
(* a slave for as long as it is connected.                                 *)
(*                                                                         *)
(* Data is counted in blocks.  A block is the client that sent it: that is *)
(* all that matters for where a reply goes.  Pipes hold PIPE blocks, one   *)
(* recv or read returns at most BUF.                                       *)
(***************************************************************************)
EXTENDS Naturals, Sequences, FiniteSets, SequencesExt

CONSTANTS Clients,          \* each connects once
          Free,             \* ssock = 0, a free entry of clientTbl
          MAX_CONCUR_LVL,   \* the number of slaves and of table entries
          PIPE, BUF,        \* capacity of a pipe, and BUFSIZE, in blocks
          MaxSent,          \* bound: blocks sent by one client
          Faults            \* bound: connections reset by clients

ASSUME ConstantsAssumption ==
  /\ IsFiniteSet(Clients) /\ Free \notin Clients
  /\ MAX_CONCUR_LVL \in Nat \ {0} /\ BUF \in Nat \ {0}
  /\ PIPE \in Nat /\ PIPE >= 2 * BUF
  /\ MaxSent \in Nat /\ Faults \in Nat

Slots == 1..MAX_CONCUR_LVL

VARIABLES
  ssock,    \* clientTbl[i].ssock
  in,       \* in[i]: the pipe from the master to slave i
  held,     \* held[i]: what slave i has read and not yet written
  out,      \* out[i]: the pipe from slave i to the master
  mpc,      \* the master: "select", "loop", "write" or "dead"
  rfds,     \* what select found: listening socket, slots, clients
  post,     \* the slot and the blocks of the master's blocked write
  backlog,  \* clients waiting to be accepted
  conn,     \* conn[c]: "new", "queued", "open", "fin", "rst", "closed"
  inq,      \* inq[c]: blocks in the receive queue of c's connection
  sent,     \* sent[c]: blocks sent by c
  got,      \* got[c]: for each client, how many of its blocks c received
  faults

slaves == <<in, held, out>>
net    == <<backlog, conn, inq, sent, got, faults>>
vars   == <<ssock, in, held, out, mpc, rfds, post, backlog, conn, inq, sent, got, faults>>

Nothing == [listen |-> FALSE, slots |-> {}, clients |-> {}]

Init == /\ ssock = [i \in Slots |-> Free]
        /\ in = [i \in Slots |-> <<>>] /\ held = [i \in Slots |-> <<>>]
        /\ out = [i \in Slots |-> <<>>]
        /\ mpc = "select" /\ rfds = Nothing /\ post = [slot |-> 1, blocks |-> <<>>]
        /\ backlog = <<>> /\ conn = [c \in Clients |-> "new"]
        /\ inq = [c \in Clients |-> 0] /\ sent = [c \in Clients |-> 0]
        /\ got = [c \in Clients |-> [d \in Clients |-> 0]]
        /\ faults = Faults

Least(m, n) == IF m <= n THEN m ELSE n
Upto(s, n)  == SubSeq(s, 1, Least(n, Len(s)))              \* what a read of n returns
Rest(s, n)  == SubSeq(s, Least(n, Len(s)) + 1, Len(s))     \* and leaves
Mine(c, s)  == {k \in DOMAIN s : s[k] = c}                 \* where a block of c is
-----------------------------------------------------------------------------
(* The clients. *)

connect(c) == /\ conn[c] = "new"
              /\ conn' = [conn EXCEPT ![c] = "queued"]
              /\ backlog' = Append(backlog, c)
              /\ UNCHANGED <<ssock, slaves, mpc, rfds, post, inq, sent, got, faults>>

send(c) == /\ conn[c] \in {"queued", "open"} /\ sent[c] < MaxSent
           /\ sent' = [sent EXCEPT ![c] = @ + 1]
           /\ inq' = [inq EXCEPT ![c] = @ + 1]
           /\ UNCHANGED <<ssock, slaves, mpc, rfds, post, backlog, conn, got, faults>>

finish(c) == /\ conn[c] = "open"
             /\ conn' = [conn EXCEPT ![c] = "fin"]
             /\ UNCHANGED <<ssock, slaves, mpc, rfds, post, backlog, inq, sent, got, faults>>

reset(c) == /\ conn[c] = "open" /\ faults > 0
            /\ conn' = [conn EXCEPT ![c] = "rst"]
            /\ faults' = faults - 1
            /\ UNCHANGED <<ssock, slaves, mpc, rfds, post, backlog, inq, sent, got>>
-----------------------------------------------------------------------------
(* A slave: ChildServiceHandler. *)

\* The slave turns what it read around, all but the newline at its end.
slave_read(i) == /\ held[i] = <<>> /\ in[i] # <<>>
                 /\ held' = [held EXCEPT ![i] = Reverse(Upto(in[i], BUF))]
                 /\ in' = [in EXCEPT ![i] = Rest(@, BUF)]
                 /\ UNCHANGED <<ssock, out, mpc, rfds, post, net>>

slave_write(i) == /\ held[i] # <<>> /\ Len(out[i]) + Len(held[i]) <= PIPE
                  /\ out' = [out EXCEPT ![i] = @ \o held[i]]
                  /\ held' = [held EXCEPT ![i] = <<>>]
                  /\ UNCHANGED <<ssock, in, mpc, rfds, post, net>>
-----------------------------------------------------------------------------
(* The master: ServiceHandler and its helpers. *)

Watched  == {c \in Clients : \E i \in Slots : ssock[i] = c}
Readable(c) == inq[c] > 0 \/ conn[c] \in {"fin", "rst"}

\* Mutant of Ready: the reply pipes are not in the set select watches.
MutantReady == [listen  |-> backlog # <<>>,
                slots   |-> {},
                clients |-> {c \in Watched : Readable(c)}]

\* select blocks until a descriptor it watches is readable.
Ready == [listen  |-> backlog # <<>>,
          slots   |-> {i \in Slots : out[i] # <<>>},
          clients |-> {c \in Watched : Readable(c)}]

select == /\ mpc = "select" /\ Ready # Nothing
          /\ rfds' = Ready /\ mpc' = "loop"
          /\ UNCHANGED <<ssock, slaves, post, net>>

\* The listening socket comes first.  updateClientTbl takes the first free
\* entry; with none the connection is closed at once.
accept ==
  LET c == Head(backlog)
      free == {i \in Slots : ssock[i] = Free}
  IN  /\ mpc = "loop" /\ rfds.listen
      /\ backlog' = Tail(backlog)
      /\ IF free = {}
         THEN /\ conn' = [conn EXCEPT ![c] = "closed"]
              /\ UNCHANGED ssock
         ELSE /\ ssock' = [ssock EXCEPT ![CHOOSE i \in free : \A j \in free : i <= j] = c]
              /\ conn' = [conn EXCEPT ![c] = "open"]
      /\ rfds' = [rfds EXCEPT !.listen = FALSE]
      /\ UNCHANGED <<slaves, mpc, post, inq, sent, got, faults>>

\* The pipes have the lower descriptors: the replies are next.
RepliesFirst == mpc = "loop" /\ ~rfds.listen

\* Mutant of echoGetFrmThrd: what it delivers stays in the pipe.
MutantGet(i) ==
  LET blocks == Upto(out[i], BUF)
      c == ssock[i]
  IN  /\ RepliesFirst /\ i \in rfds.slots /\ \A j \in rfds.slots : i <= j
      /\ rfds' = [rfds EXCEPT !.slots = @ \ {i}]
      /\ IF c = Free \/ conn[c] = "rst"
         THEN UNCHANGED got
         ELSE got' = [got EXCEPT ![c] = [d \in Clients |->
                        @[d] + Cardinality(Mine(d, blocks))]]
      /\ mpc' = IF c # Free /\ conn[c] = "rst" THEN "dead" ELSE "loop"
      /\ UNCHANGED <<ssock, slaves, post, backlog, conn, inq, sent, faults>>

\* echoGetFrmThrd: what comes from slave i goes to the client that has entry i
\* now, if any.  Sending on a connection that was reset ends the master.
echoGetFrmThrd(i) ==
  LET blocks == Upto(out[i], BUF)
      c == ssock[i]
  IN  /\ RepliesFirst /\ i \in rfds.slots /\ \A j \in rfds.slots : i <= j
      /\ out' = [out EXCEPT ![i] = Rest(@, BUF)]
      /\ rfds' = [rfds EXCEPT !.slots = @ \ {i}]
      /\ IF c = Free \/ conn[c] = "rst"
         THEN UNCHANGED got
         ELSE got' = [got EXCEPT ![c] = [d \in Clients |->
                        @[d] + Cardinality(Mine(d, blocks))]]
      /\ mpc' = IF c # Free /\ conn[c] = "rst" THEN "dead" ELSE "loop"
      /\ UNCHANGED <<ssock, in, held, post, backlog, conn, inq, sent, faults>>

ThenClients == RepliesFirst /\ rfds.slots = {}

\* echoPost2Thrd: what the client sent goes to the slave of its entry; the
\* write blocks while the pipe is full.
echoPost2Thrd(c) ==
  LET n == Least(inq[c], BUF)
      i == CHOOSE j \in Slots : ssock[j] = c
  IN  /\ ThenClients /\ c \in rfds.clients /\ inq[c] > 0
      /\ inq' = [inq EXCEPT ![c] = @ - n]
      /\ rfds' = [rfds EXCEPT !.clients = @ \ {c}]
      /\ mpc' = "write"
      /\ post' = [slot |-> i, blocks |-> [k \in 1..n |-> c]]
      /\ UNCHANGED <<ssock, slaves, backlog, conn, sent, got, faults>>

pipe_write == /\ mpc = "write"
              /\ Len(in[post.slot]) + Len(post.blocks) <= PIPE
              /\ in' = [in EXCEPT ![post.slot] = @ \o post.blocks]
              /\ post' = [post EXCEPT !.blocks = <<>>]
              /\ mpc' = "loop"
              /\ UNCHANGED <<ssock, held, out, rfds, net>>

\* Mutant of clearClientTbl: the table entry is left.
MutantClear(c) ==
  /\ ThenClients /\ c \in rfds.clients /\ inq[c] = 0 /\ conn[c] = "fin"
  /\ conn' = [conn EXCEPT ![c] = "closed"]
  /\ rfds' = [rfds EXCEPT !.clients = @ \ {c}]
  /\ UNCHANGED <<ssock, slaves, mpc, post, backlog, inq, sent, got, faults>>

\* recv returned 0: the descriptor is closed and its table entry cleared.
clearClientTbl(c) ==
  /\ ThenClients /\ c \in rfds.clients /\ inq[c] = 0 /\ conn[c] = "fin"
  /\ ssock' = [i \in Slots |-> IF ssock[i] = c THEN Free ELSE ssock[i]]
  /\ conn' = [conn EXCEPT ![c] = "closed"]
  /\ rfds' = [rfds EXCEPT !.clients = @ \ {c}]
  /\ UNCHANGED <<slaves, mpc, post, backlog, inq, sent, got, faults>>

\* recv failed: errexit ends the master.
recv_fails(c) == /\ ThenClients /\ c \in rfds.clients /\ inq[c] = 0 /\ conn[c] = "rst"
                 /\ mpc' = "dead"
                 /\ UNCHANGED <<ssock, slaves, rfds, post, net>>

loop_done == /\ ThenClients /\ rfds.clients = {}
             /\ mpc' = "select"
             /\ UNCHANGED <<ssock, slaves, rfds, post, net>>

MasterStep == \/ select \/ accept \/ pipe_write \/ loop_done
              \/ \E i \in Slots : echoGetFrmThrd(i)
              \/ \E c \in Clients : echoPost2Thrd(c) \/ clearClientTbl(c) \/ recv_fails(c)
SlaveStep(i)  == slave_read(i) \/ slave_write(i)
ClientStep(c) == connect(c) \/ send(c) \/ finish(c) \/ reset(c)

Next == \/ MasterStep
        \/ \E i \in Slots : SlaveStep(i)
        \/ \E c \in Clients : ClientStep(c)

Spec == Init /\ [][Next]_vars

\* The master and the slaves are scheduled; the clients owe nothing.
Fairness == WF_vars(MasterStep) /\ \A i \in Slots : WF_vars(SlaveStep(i))
FairSpec == Spec /\ Fairness
-----------------------------------------------------------------------------
TypeOK == /\ ssock \in [Slots -> Clients \cup {Free}]
          /\ \A i \in Slots : /\ in[i] \in Seq(Clients) /\ Len(in[i]) <= PIPE
                              /\ out[i] \in Seq(Clients) /\ Len(out[i]) <= PIPE
                              /\ held[i] \in Seq(Clients) /\ Len(held[i]) <= BUF
          /\ mpc \in {"select", "loop", "write", "dead"}
          /\ rfds \in [listen : BOOLEAN, slots : SUBSET Slots, clients : SUBSET Clients]
          /\ post.slot \in Slots /\ post.blocks \in Seq(Clients)
          /\ backlog \in Seq(Clients)
          /\ conn \in [Clients -> {"new", "queued", "open", "fin", "rst", "closed"}]
          /\ inq \in [Clients -> 0..MaxSent] /\ sent \in [Clients -> 0..MaxSent]
          /\ got \in [Clients -> [Clients -> 0..MaxSent]] /\ faults \in 0..Faults

\* Master and slave never wait for each other: when the pipe to a slave cannot
\* take what the master writes, the slave can still write its reply.  (Because a
\* round of the master drains a reply for each post: at most a pipe and two
\* buffers are under way.)
NoPipeDeadlock ==
  \A i \in Slots :
    mpc = "write" /\ post.slot = i /\ Len(in[i]) + Len(post.blocks) > PIPE
      => Len(out[i]) + Len(held[i]) <= PIPE

\* Each connection the master watches has exactly one table entry, and only
\* those do: errexit("Echo Client could not be found") is never reached.
TableMatches ==
  \A c \in Clients :
    (mpc # "dead" /\ conn[c] \in {"open", "fin", "rst"})
      <=> Cardinality({i \in Slots : ssock[i] = c}) = 1 /\ mpc # "dead"

\* Where the blocks of c are: not yet read, in what the master writes, with slave i or
\* its pipes, or with a client that got them.
WithSlave(i, c) == {<<"in", i, k>> : k \in Mine(c, in[i])}
                     \cup {<<"held", i, k>> : k \in Mine(c, held[i])}
                     \cup {<<"out", i, k>> : k \in Mine(c, out[i])}
GotBy(d, c) == {<<"got", d, k>> : k \in 1..got[d][c]}
Places(c) == {<<"unread", c, k>> : k \in 1..inq[c]}
               \cup {<<"post", c, k>> : k \in Mine(c, post.blocks)}
               \cup (UNION {WithSlave(i, c) : i \in Slots})
               \cup (UNION {GotBy(d, c) : d \in Clients})

\* A reply is delivered once: the blocks of c that are under way or were delivered,
\* to whomever, are never more than c sent.
DeliveredOnce == \A c \in Clients : Cardinality(Places(c)) <= sent[c]

\* The table and what is under way belong to each other: the types of the
\* variables, and the two properties above.
TableInv == TypeOK /\ TableMatches /\ DeliveredOnce

\* A client that stays connected is answered, whatever the others do, unless the
\* reset of a connection ends the master.
Answered ==
  \A c \in Clients : \A n \in 1..MaxSent :
    (conn[c] = "open" /\ sent[c] = n)
      ~> (got[c][c] >= n \/ conn[c] # "open" \/ mpc = "dead")

\* exc_15_6.c:40 "TCP server for ECHO service": what a client gets is what this
\* client sent.
EchoedToSender == \A c, d \in Clients : got[c][d] > 0 => c = d
=============================================================================
