-------------------------- MODULE DelayedAllocShm --------------------------
(***************************************************************************)
(* The TCP echo server with delayed allocation, adaptive persistence and a *)
(* concurrency limit, chapter15/tcp_delayed_allctn_ad_persist_shm.c.  The  *)
(* master serves a client itself, under a timer.  When the timer goes off, *)
(* the handler forks: the slave goes on with the client where the master   *)
(* was interrupted, and the master jumps back to the top of its loop.  A   *)
(* slave that has finished a client stays for another one as long as the   *)
(* shared count of slaves is within the limit and a client comes in time.  *)
(*                                                                         *)
(* A process is its server loop and, on top of it, a frame of the SIGCHLD  *)
(* handler `reaper' and a frame of the SIGALRM handler.  SIGALRM may come  *)
(* while the reaper runs: the slave then inherits the reaper's frame, and  *)
(* the master's siglongjmp throws its own away.                            *)
(***************************************************************************)
EXTENDS Integers, FiniteSets, Sequences

CONSTANTS Slaves,      \* process ids for slaves; an id is reused when reaped
          Clients,     \* each connects once
          None,        \* the descriptor 0: no connection
          QLEN,        \* the backlog of msock
          MAXCRTLVL,   \* the limit on the number of slaves
          MaxSent,     \* bound: messages of one client
          Faults       \* bound: resets, failed forks, interrupted writes

ASSUME ConstantsAssumption ==
  /\ IsFiniteSet(Slaves) /\ IsFiniteSet(Clients) /\ None \notin Clients
  /\ QLEN \in Nat /\ MAXCRTLVL \in Nat /\ MaxSent \in Nat /\ Faults \in Nat

Master == "master"
ASSUME MasterAssumption == Master \notin Slaves

Procs  == {Master} \cup Slaves
Frames == Procs \X {"body", "reaper"}
Body(p)    == <<p, "body">>
Reaper(p)  == <<p, "reaper">>

VARIABLES
  sem, shmdata, gpc, op, data,  \* the object that counts slaves, see GlbShm
  pc,       \* pc[p]: where the server loop of p is
  resume,   \* resume[s]: where s goes on when its SIGALRM handler returns
  rpc,      \* rpc[p]: where p's reaper frame is, "none" without one
  ssock,    \* ssock[p]: the variable ssock
  fds,      \* fds[p]: the connections p has a descriptor of
  buf,      \* buf[p]: messages read and not yet written back
  armed,    \* is the master's alarm set?
  sigchld,  \* is a SIGCHLD pending at the master?
  kept,     \* history: the slaves that passed the limit check
  backlog,  \* connections not yet accepted
  conn,     \* conn[c]: "new", "open", "fin" (closed by the client) or "rst"
  inq,      \* inq[c]: messages in the receive queue of c's connection
  sent, echoed,  \* per client, messages sent and messages echoed
  faults    \* faults still to come

shm    == <<sem, shmdata, gpc, op, data>>
procs  == <<pc, resume, rpc, ssock, fds, buf, armed, sigchld, kept>>
net    == <<backlog, conn, inq, sent, echoed, faults>>
vars   == <<sem, shmdata, gpc, op, data, pc, resume, rpc, ssock, fds, buf,
            armed, sigchld, kept, backlog, conn, inq, sent, echoed, faults>>

Shm == INSTANCE GlbShm WITH Callers <- Frames, Args <- {},
                            Failures <- TRUE, Window <- 0

Init == /\ Shm!Init
        /\ pc = [p \in Procs |-> IF p = Master THEN "accept" ELSE "none"]
        /\ resume = [s \in Slaves |-> "none"]
        /\ rpc = [p \in Procs |-> "none"]
        /\ ssock = [p \in Procs |-> None]
        /\ fds = [p \in Procs |-> {}]
        /\ buf = [p \in Procs |-> 0]
        /\ armed = FALSE /\ sigchld = FALSE /\ kept = {}
        /\ backlog = <<>>
        /\ conn = [c \in Clients |-> "new"]
        /\ inq = [c \in Clients |-> 0]
        /\ sent = [c \in Clients |-> 0] /\ echoed = [c \in Clients |-> 0]
        /\ faults = Faults

Alive(p) == pc[p] \notin {"none", "zombie", "dead"}

\* The server loop of p runs only while no handler runs on top of it.
At(p, label) == pc[p] = label /\ rpc[p] = "none"
Goto(p, label) == pc' = [pc EXCEPT ![p] = label]
-----------------------------------------------------------------------------
(* The clients and the network. *)

\* Linux completes connections while at most QLEN wait to be accepted.
connect(c) == /\ conn[c] = "new" /\ Len(backlog) <= QLEN
              /\ conn' = [conn EXCEPT ![c] = "open"]
              /\ backlog' = Append(backlog, c)
              /\ UNCHANGED <<shm, procs, inq, sent, echoed, faults>>

send(c) == /\ conn[c] = "open" /\ sent[c] < MaxSent
           /\ sent' = [sent EXCEPT ![c] = @ + 1]
           /\ inq' = [inq EXCEPT ![c] = @ + 1]
           /\ UNCHANGED <<shm, procs, backlog, conn, echoed, faults>>

finish(c) == /\ conn[c] = "open"
             /\ conn' = [conn EXCEPT ![c] = "fin"]
             /\ UNCHANGED <<shm, procs, backlog, inq, sent, echoed, faults>>

reset(c) == /\ conn[c] \in {"open", "fin"} /\ faults > 0
            /\ conn' = [conn EXCEPT ![c] = "rst"]
            /\ faults' = faults - 1
            /\ UNCHANGED <<shm, procs, backlog, inq, sent, echoed>>
-----------------------------------------------------------------------------
(* The end of a process: errexit, SIGPIPE, or main's return. *)

\* A frame that ends inside the critical section leaves the semaphore taken.
Frozen(g) == IF g \in Shm!Section THEN "died" ELSE "idle"

\* The parent of a slave is told while it lives; init reaps for a dead one.
Ends(p) ==
  /\ pc' = [q \in Procs |->
              CASE q = p /\ q = Master        -> "dead"
                [] q = p /\ q # Master        -> IF Alive(Master) THEN "zombie" ELSE "none"
                [] q # p /\ p = Master        -> IF pc[q] = "zombie" THEN "none" ELSE pc[q]
                [] q # p /\ p # Master        -> pc[q]]
  /\ gpc' = [f \in Frames |-> IF f[1] = p THEN Frozen(gpc[f]) ELSE gpc[f]]
  /\ rpc' = [rpc EXCEPT ![p] = "none"]
  /\ ssock' = [ssock EXCEPT ![p] = None]
  /\ fds' = [fds EXCEPT ![p] = {}]
  /\ buf' = [buf EXCEPT ![p] = 0]
  /\ resume' = [s \in Slaves |-> IF s = p THEN "none" ELSE resume[s]]
  /\ kept' = kept \ {p}
  /\ armed' = (armed /\ p # Master)
  /\ sigchld' = (p # Master /\ (sigchld \/ Alive(Master)))
  /\ UNCHANGED <<sem, shmdata, op, data>>
-----------------------------------------------------------------------------
(* serviceHandler and TCPechod, the loop the master and the slaves run. *)

\* accept returns a connection; a slave was in select before.
accept(p) ==
  /\ At(p, "accept") /\ backlog # <<>>
  /\ backlog' = Tail(backlog)
  /\ ssock' = [ssock EXCEPT ![p] = Head(backlog)]
  /\ fds' = [fds EXCEPT ![p] = @ \cup {Head(backlog)}]
  /\ Goto(p, IF p = Master THEN "arm" ELSE "read")
  /\ UNCHANGED <<shm, resume, rpc, buf, armed, sigchld, kept,
                 conn, inq, sent, echoed, faults>>

\* alarm(5), in the master only.
arm == /\ At(Master, "arm") /\ Goto(Master, "read")
       /\ armed' = TRUE
       /\ UNCHANGED <<shm, resume, rpc, ssock, fds, buf, sigchld, kept, net>>

\* read returns what has come.
read(p) ==
  LET c == ssock[p] IN
  /\ At(p, "read") /\ inq[c] > 0
  /\ buf' = [buf EXCEPT ![p] = inq[c]]
  /\ inq' = [inq EXCEPT ![c] = 0]
  /\ Goto(p, "write")
  /\ UNCHANGED <<shm, resume, rpc, ssock, fds, armed, sigchld, kept,
                 backlog, conn, sent, echoed, faults>>

\* read returns 0: the client closed its side and all it sent was read.
read_eof(p) == /\ At(p, "read") /\ inq[ssock[p]] = 0 /\ conn[ssock[p]] = "fin"
               /\ Goto(p, "close")
               /\ UNCHANGED <<shm, resume, rpc, ssock, fds, buf, armed, sigchld, kept, net>>

\* read fails with ECONNRESET and errexit ends the process.
read_reset(p) == /\ At(p, "read") /\ inq[ssock[p]] = 0 /\ conn[ssock[p]] = "rst"
                 /\ Ends(p)
                 /\ UNCHANGED net

\* Mutant of write: one more byte than was read, the string's terminator.
MutantWrite(p) ==
  LET c == ssock[p] IN
  /\ At(p, "write") /\ conn[c] # "rst"
  /\ echoed' = [echoed EXCEPT ![c] = @ + buf[p] + 1]
  /\ buf' = [buf EXCEPT ![p] = 0]
  /\ Goto(p, "read")
  /\ UNCHANGED <<shm, resume, rpc, ssock, fds, armed, sigchld, kept,
                 backlog, conn, inq, sent, faults>>

write(p) ==
  LET c == ssock[p] IN
  /\ At(p, "write") /\ conn[c] # "rst"
  /\ echoed' = [echoed EXCEPT ![c] = @ + buf[p]]
  /\ buf' = [buf EXCEPT ![p] = 0]
  /\ Goto(p, "read")
  /\ UNCHANGED <<shm, resume, rpc, ssock, fds, armed, sigchld, kept,
                 backlog, conn, inq, sent, faults>>

\* A write on a connection that was reset raises SIGPIPE.
write_reset(p) == /\ At(p, "write") /\ conn[ssock[p]] = "rst"
                  /\ Ends(p)
                  /\ UNCHANGED net

\* close(ssock): the slot of the descriptor is free, the variable still set.
close(p) == /\ At(p, "close") /\ Goto(p, "zero")
            /\ fds' = [fds EXCEPT ![p] = @ \ {ssock[p]}]
            /\ UNCHANGED <<shm, resume, rpc, ssock, buf, armed, sigchld, kept, net>>

\* ssock = 0; a slave goes to the top of its loop from here.
zero(p) == /\ At(p, "zero") /\ Goto(p, IF p = Master THEN "disarm" ELSE "limit")
           /\ ssock' = [ssock EXCEPT ![p] = None]
           /\ UNCHANGED <<shm, resume, rpc, fds, buf, armed, sigchld, kept, net>>

\* Mutant of disarm: the timer is not cancelled.
MutantDisarm == /\ At(Master, "disarm") /\ Goto(Master, "accept")
                /\ UNCHANGED <<shm, resume, rpc, ssock, fds, buf, armed,
                               sigchld, kept, net>>

\* alarm(0), in the master only.
disarm == /\ At(Master, "disarm") /\ Goto(Master, "accept")
          /\ armed' = FALSE
          /\ UNCHANGED <<shm, resume, rpc, ssock, fds, buf, sigchld, kept, net>>

\* Mutant of jumped: the master keeps its descriptor.
MutantJumped == /\ At(Master, "jumped") /\ Goto(Master, "accept")
                /\ UNCHANGED <<shm, resume, rpc, ssock, fds, buf, armed,
                               sigchld, kept, net>>

\* sigsetjmp returned 1: the master closes its descriptor of the connection
\* the slave took over, if ssock is set (the descriptor may be closed already).
jumped == /\ At(Master, "jumped") /\ Goto(Master, "accept")
          /\ fds' = [fds EXCEPT ![Master] = @ \ {ssock[Master]}]
          /\ UNCHANGED <<shm, resume, rpc, ssock, buf, armed, sigchld, kept, net>>

\* A slave asks for the count of slaves,
limit(s) == /\ At(s, "limit") /\ Goto(s, "check")
            /\ Shm!Call(Body(s), "read", 0, TRUE)
            /\ UNCHANGED <<resume, rpc, ssock, fds, buf, armed, sigchld, kept, net>>

\* Mutant of within_limit: the slave does not count itself.
MutantWithin(s) ==
  /\ At(s, "check") /\ gpc[Body(s)] = "idle" /\ data[Body(s)] - 1 <= MAXCRTLVL
  /\ Goto(s, "select")
  /\ kept' = kept \cup {s}
  /\ UNCHANGED <<shm, resume, rpc, ssock, fds, buf, armed, sigchld, net>>

\* goes on to wait for a client if it is within the limit,
within_limit(s) ==
  /\ At(s, "check") /\ gpc[Body(s)] = "idle" /\ data[Body(s)] <= MAXCRTLVL
  /\ Goto(s, "select")
  /\ kept' = kept \cup {s}
  /\ UNCHANGED <<shm, resume, rpc, ssock, fds, buf, armed, sigchld, net>>

\* and ends otherwise.
over_limit(s) ==
  /\ At(s, "check") /\ gpc[Body(s)] = "idle" /\ data[Body(s)] > MAXCRTLVL
  /\ Ends(s)
  /\ UNCHANGED net

\* select finds a connection to accept; another process may be faster.
select(s) == /\ At(s, "select") /\ backlog # <<>>
             /\ Goto(s, "accept")
             /\ UNCHANGED <<shm, resume, rpc, ssock, fds, buf, armed, sigchld, kept, net>>

\* select finds none in time: serviceHandler returns, and so does main.
inactive(s) == /\ At(s, "select") /\ backlog = <<>>
               /\ Ends(s)
               /\ UNCHANGED net
-----------------------------------------------------------------------------
(* The signals. *)

\* SIGCHLD: the reaper runs on top of the master's loop; what it interrupts is
\* restarted (signal() gives SA_RESTART, and the master's loop has no semop).
reaper == /\ sigchld /\ Alive(Master) /\ rpc[Master] = "none"
          /\ rpc' = [rpc EXCEPT ![Master] = "wait3"]
          /\ sigchld' = FALSE
          /\ UNCHANGED <<shm, pc, resume, ssock, fds, buf, armed, kept, net>>

\* wait3 finds a zombie, and the reaper calls update_glb_data to count it off.
wait3(z) == /\ rpc[Master] = "wait3" /\ pc[z] = "zombie"
            /\ Goto(z, "none")
            /\ rpc' = [rpc EXCEPT ![Master] = "update"]
            /\ Shm!Call(Reaper(Master), "dec", data[Reaper(Master)], TRUE)
            /\ UNCHANGED <<resume, ssock, fds, buf, armed, sigchld, kept, net>>

\* No (more) zombies: the reaper returns.  A slave that inherited a reaper has
\* no children.
reaped(p) == /\ rpc[p] = "wait3" /\ pc[p] # "handler"
             /\ p = Master => \A z \in Slaves : pc[z] # "zombie"
             /\ rpc' = [rpc EXCEPT ![p] = "none"]
             /\ UNCHANGED <<shm, pc, resume, ssock, fds, buf, armed, sigchld, kept, net>>

\* update_glb_data returned in the reaper of p.
updated(p) == /\ rpc[p] = "update" /\ pc[p] # "handler" /\ gpc[Reaper(p)] = "idle"
              /\ rpc' = [rpc EXCEPT ![p] = "wait3"]
              /\ UNCHANGED <<shm, pc, resume, ssock, fds, buf, armed, sigchld, kept, net>>

\* Mutant of Child: the master longjmps nowhere and goes on with its reaper too.
MutantTwoReapers(s, blocked) ==
  /\ resume' = [resume EXCEPT ![s] =
                   IF pc[Master] = "disarm" THEN "limit" ELSE pc[Master]]
  /\ ssock' = [ssock EXCEPT ![s] = ssock[Master]]
  /\ fds' = [fds EXCEPT ![s] = fds[Master]]
  /\ gpc' = [gpc EXCEPT ![Body(s)] = "wait", ![Reaper(s)] = gpc[Reaper(Master)]]
  /\ op' = [op EXCEPT ![Body(s)] = [kind |-> "inc", fits |-> TRUE],
                      ![Reaper(s)] = op[Reaper(Master)]]
  /\ data' = [data EXCEPT ![Body(s)] = 0, ![Reaper(s)] = data[Reaper(Master)]]
  /\ rpc' = [rpc EXCEPT ![s] = rpc[Master]]

\* Mutant of Child: the slave looks at the count and does not raise it.
MutantNotCounted(s, blocked) ==
  /\ resume' = [resume EXCEPT ![s] =
                   IF pc[Master] = "disarm" THEN "limit" ELSE pc[Master]]
  /\ ssock' = [ssock EXCEPT ![s] = ssock[Master]]
  /\ fds' = [fds EXCEPT ![s] = fds[Master]]
  /\ gpc' = [gpc EXCEPT ![Body(s)] = "wait",
                        ![Reaper(s)] = gpc[Reaper(Master)],
                        ![Reaper(Master)] = "idle"]
  /\ op' = [op EXCEPT ![Body(s)] = [kind |-> "read", fits |-> TRUE],
                      ![Reaper(s)] = op[Reaper(Master)]]
  /\ data' = [data EXCEPT ![Body(s)] = 0, ![Reaper(s)] = data[Reaper(Master)]]
  /\ rpc' = [rpc EXCEPT ![s] = rpc[Master], ![Master] = "none"]

\* The child of the handler's fork: a copy of the master, its reaper's frame
\* included, about to count itself in.  A system call the signal interrupted
\* fails in the child with EINTR, which ends it in a semop that had blocked, and
\* in a write that had blocked before its first byte (blocked counts as a fault).
Child(s, blocked) ==
  /\ resume' = [resume EXCEPT ![s] =
                   CASE blocked                -> "write_eintr"
                     [] pc[Master] = "disarm"  -> "limit"
                     [] OTHER                  -> pc[Master]]
  /\ ssock' = [ssock EXCEPT ![s] = ssock[Master]]
  /\ fds' = [fds EXCEPT ![s] = fds[Master]]
  /\ gpc' = [gpc EXCEPT ![Body(s)] = "wait",
                        ![Reaper(s)] = gpc[Reaper(Master)],
                        ![Reaper(Master)] = "idle"]
  /\ op' = [op EXCEPT ![Body(s)] = [kind |-> "inc", fits |-> TRUE],
                      ![Reaper(s)] = op[Reaper(Master)]]
  /\ data' = [data EXCEPT ![Body(s)] = 0, ![Reaper(s)] = data[Reaper(Master)]]
  /\ \/ rpc' = [rpc EXCEPT ![s] = rpc[Master], ![Master] = "none"]
     \/ /\ gpc[Reaper(Master)] = "wait" /\ sem = 0
        /\ rpc' = [rpc EXCEPT ![s] = "eintr", ![Master] = "none"]

\* Mutant of delayed_alloctn_cb: the parent returns to the client it handed over.
MutantNoJump(s) ==
  /\ armed /\ pc[s] = "none"
  /\ armed' = FALSE
  /\ pc' = [pc EXCEPT ![s] = "handler"]
  /\ buf' = [buf EXCEPT ![s] = buf[Master]]
  /\ Child(s, FALSE)
  /\ UNCHANGED <<sem, shmdata, sigchld, kept, backlog, conn, inq, sent, echoed, faults>>

\* SIGALRM: fork; the parent siglongjmps out of whatever was interrupted.
delayed_alloctn_cb(s) ==
  /\ armed /\ pc[s] = "none"
  /\ armed' = FALSE
  /\ pc' = [pc EXCEPT ![s] = "handler", ![Master] = "jumped"]
  /\ buf' = [buf EXCEPT ![s] = buf[Master], ![Master] = 0]
  /\ \/ Child(s, FALSE) /\ UNCHANGED faults
     \/ /\ At(Master, "write") /\ faults > 0
        /\ Child(s, TRUE) /\ faults' = faults - 1
  /\ UNCHANGED <<sem, shmdata, sigchld, kept, backlog, conn, inq, sent, echoed>>

\* SIGALRM and fork fails: the handler ends the master.
fork_fails == /\ armed /\ faults > 0
              /\ faults' = faults - 1
              /\ Ends(Master)
              /\ UNCHANGED <<backlog, conn, inq, sent, echoed>>

\* The handler returns in the slave, once the slave has counted itself in.
handler_returns(s) ==
  /\ pc[s] = "handler" /\ gpc[Body(s)] = "idle"
  /\ resume[s] # "write_eintr" /\ rpc[s] # "eintr"
  /\ Goto(s, resume[s])
  /\ resume' = [resume EXCEPT ![s] = "none"]
  /\ UNCHANGED <<shm, rpc, ssock, fds, buf, armed, sigchld, kept, net>>

\* It returns into a system call that then fails.
interrupted(s) ==
  /\ pc[s] = "handler" /\ gpc[Body(s)] = "idle"
  /\ resume[s] = "write_eintr" \/ rpc[s] = "eintr"
  /\ Ends(s)
  /\ UNCHANGED net

\* A step inside glb_shm_obj.c, by the frame of p that is on top.
object_step(p) ==
  /\ \/ Shm!Step(Body(p))
     \/ pc[p] # "handler" /\ Shm!Step(Reaper(p))
  /\ UNCHANGED <<procs, net>>
-----------------------------------------------------------------------------
Loop(p) == \/ accept(p) \/ read(p) \/ read_eof(p) \/ read_reset(p)
           \/ write(p) \/ write_reset(p) \/ close(p) \/ zero(p)
           \/ object_step(p) \/ reaped(p) \/ updated(p)
MasterOnly == \/ arm \/ disarm \/ jumped \/ reaper
              \/ \E z \in Slaves : wait3(z)
SlaveOnly(s) == \/ limit(s) \/ within_limit(s) \/ over_limit(s)
                \/ select(s) \/ inactive(s)
                \/ handler_returns(s) \/ interrupted(s)
ClientStep(c) == connect(c) \/ send(c) \/ finish(c) \/ reset(c)

Next == \/ \E p \in Procs : Loop(p)
        \/ MasterOnly \/ fork_fails
        \/ \E s \in Slaves : SlaveOnly(s) \/ delayed_alloctn_cb(s)
        \/ \E c \in Clients : ClientStep(c)

Spec == Init /\ [][Next]_vars

\* Processes are scheduled, semop serves its queue in order, SIGCHLD and a set
\* alarm arrive, and a slave's select times out.  The clients owe nothing.
Fairness ==
  /\ \A p \in Procs : WF_vars(Loop(p)) /\ SF_vars(object_step(p))
  /\ WF_vars(MasterOnly)
  /\ \A s \in Slaves : WF_vars(SlaveOnly(s)) /\ WF_vars(delayed_alloctn_cb(s))
FairSpec == Spec /\ Fairness
-----------------------------------------------------------------------------
Labels == {"accept", "arm", "read", "write", "close", "zero", "disarm", "jumped",
           "limit", "check", "select", "handler", "none", "zombie", "dead"}

TypeOK == /\ Shm!TypeOK
          /\ pc \in [Procs -> Labels]
          /\ resume \in [Slaves -> Labels \cup {"write_eintr"}]
          /\ rpc \in [Procs -> {"none", "wait3", "update", "eintr"}]
          /\ ssock \in [Procs -> Clients \cup {None}]
          /\ fds \in [Procs -> SUBSET Clients]
          /\ buf \in [Procs -> 0..MaxSent]
          /\ armed \in BOOLEAN /\ sigchld \in BOOLEAN /\ kept \subseteq Slaves
          /\ backlog \in Seq(Clients) /\ Len(backlog) <= QLEN + 1
          /\ conn \in [Clients -> {"new", "open", "fin", "rst"}]
          /\ inq \in [Clients -> 0..MaxSent] /\ sent \in [Clients -> 0..MaxSent]
          /\ echoed \in [Clients -> 0..MaxSent] /\ faults \in 0..Faults

\* The semaphore stays a mutex although siglongjmp tears frames down and fork
\* copies them: it is taken exactly when one frame is inside the section, and
\* that may be the frame a slave inherited and cannot go on with.
SemAccounted == Shm!SemAccounted

\* The slaves the shared count must cover: those that counted themselves in and
\* were not reaped.
Counted == {s \in Slaves : \/ pc[s] \notin {"none", "handler"}
                           \/ pc[s] = "handler" /\ gpc[Body(s)] \in {"stored", "idle"}}

\* However signals interrupt the counting, the count is never below the number
\* of slaves: it may only drift upwards.
CountCoversSlaves == shmdata >= Cardinality(Counted)

\* At most MAXCRTLVL slaves outlive the client they were forked for.
KeptWithinLimit == Cardinality(kept) <= MAXCRTLVL

\* p is between a read and a write of c's connection, or will be once its
\* handler returns.
Serves(p, c) == /\ ssock[p] = c
                /\ \/ pc[p] \in {"read", "write"}
                   \/ pc[p] = "handler" /\ resume[p] \in {"read", "write", "write_eintr"}

\* The hand-over of a client from the master to a slave is exclusive: never do
\* two processes read from one connection.
OneServer == \A c \in Clients : \A p, q \in Procs :
               Serves(p, c) /\ Serves(q, c) => p = q

\* No message is echoed twice, not even one the alarm caught between its read
\* and its write, when both processes have it in their buffer.
EchoedOnce ==
  \A c \in Clients : \A p \in Procs :
    echoed[c] + inq[c] + (IF Serves(p, c) THEN buf[p] ELSE 0) <= sent[c]

\* Whoever goes to accept has closed every connection it had; otherwise clients
\* would never see the end of a connection its slave closed.
NoLeakAtAccept ==
  \A p \in Procs : pc[p] \in {"accept", "limit", "select"} => fds[p] = {}

\* The alarm of one client never goes off on another, nor on the wait for one.
AlarmOnlyOnClient ==
  armed => pc[Master] \in {"read", "write", "close", "zero", "disarm"}

\* The hand-over of a client by the alarm: one process serves the client, nobody
\* keeps a connection that another one serves, and the alarm is never late.
HandOverInv == TypeOK /\ OneServer /\ NoLeakAtAccept /\ AlarmOnlyOnClient
=============================================================================
