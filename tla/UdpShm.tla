------------------------------- MODULE UdpShm -------------------------------
(***************************************************************************)
(* The preallocated UDP time server of chapter15/exc_15_udp_shm.c: the     *)
(* root forks NCRTLVL slaves and then becomes a slave itself; all of them  *)
(* receive from one socket, answer, and then count the request in a global *)
(* shared memory object with a read and, separately, a write.  The server  *)
(* of chapter15/udp_preallctn_timed.c is this one without the counter.     *)
(*                                                                         *)
(* A process ends when a system call fails.  SIGCHLD runs the root's       *)
(* reaper, which interrupts the root only in a semop that blocks (recvfrom *)
(* and sendto restart).                                                    *)
(***************************************************************************)
EXTENDS Integers, FiniteSets

CONSTANTS NCRTLVL,      \* how many slaves the root forks
          MaxRequests   \* bound: datagrams the clients send

ASSUME LevelAssumption    == NCRTLVL \in Nat \ {0}
ASSUME RequestsAssumption == MaxRequests \in Nat

Root  == 0
Kids  == 1..NCRTLVL
Procs == {Root} \cup Kids

VARIABLES sem, shmdata, gpc, op, data,   \* the object, see GlbShm
          pc,         \* pc[p]: where process p is
          l,          \* the root's loop counter: slaves forked so far
          sigchld,    \* is a SIGCHLD pending at the root?
          sent,       \* datagrams sent by the clients
          queue,      \* datagrams in the receive queue of msock
          replies     \* answers sent

shm  == <<sem, shmdata, gpc, op, data>>
vars == <<sem, shmdata, gpc, op, data, pc, l, sigchld, sent, queue, replies>>

\* The object's callers are the processes: each has one call at a time.
Shm == INSTANCE GlbShm WITH Callers <- Procs, Args <- 0..MaxRequests,
                            Failures <- FALSE, Window <- MaxRequests

Init == /\ Shm!Init
        /\ pc = [p \in Procs |-> IF p = Root THEN "fork" ELSE "unborn"]
        /\ l = 0 /\ sigchld = FALSE /\ sent = 0 /\ queue = 0 /\ replies = 0

Goto(p, from, to) == pc[p] = from /\ pc' = [pc EXCEPT ![p] = to]

\* Not forked yet, or ended: with nothing in its hands, with a datagram it did not
\* answer, or with a request it answered and did not count.
Gone(p) == pc[p] \in {"unborn", "exited", "unanswered", "uncounted"}

\* A slave that ends leaves a SIGCHLD for its parent.
Chld(p) == sigchld' = (sigchld \/ (p # Root /\ ~Gone(Root)))

client_send == /\ sent < MaxRequests
               /\ sent' = sent + 1 /\ queue' = queue + 1
               /\ UNCHANGED <<sem, shmdata, gpc, op, data, pc, l, sigchld, replies>>

\* Mutant of fork: the loop runs once too often.
MutantFork == /\ pc[Root] = "fork"
              /\ l' = l + 1
              /\ pc' = [pc EXCEPT ![l + 1] = "recvfrom",
                                  ![Root] = IF l' > NCRTLVL THEN "recvfrom" ELSE "fork"]
              /\ UNCHANGED <<sem, shmdata, gpc, op, data, sigchld, sent, queue, replies>>

\* main's loop: the slave starts at once; after the last one, so does the root.
fork == /\ pc[Root] = "fork"
        /\ l' = l + 1
        /\ pc' = [pc EXCEPT ![l + 1] = "recvfrom",
                            ![Root] = IF l' = NCRTLVL THEN "recvfrom" ELSE "fork"]
        /\ UNCHANGED <<sem, shmdata, gpc, op, data, sigchld, sent, queue, replies>>

\* Fork failed: the root exits, the slaves already forked serve on.
fork_fails == /\ Goto(Root, "fork", "exited")
              /\ UNCHANGED <<sem, shmdata, gpc, op, data, l, sigchld, sent, queue, replies>>

\* Mutant of recvfrom: the datagram is looked at, not taken (MSG_PEEK).
MutantPeek(p) == /\ Goto(p, "recvfrom", "sendto")
                 /\ queue > 0
                 /\ UNCHANGED <<sem, shmdata, gpc, op, data, l, sigchld, sent, queue, replies>>

\* One datagram wakes one of the processes blocked in recvfrom.
recvfrom(p) == /\ Goto(p, "recvfrom", "sendto")
               /\ queue > 0 /\ queue' = queue - 1
               /\ UNCHANGED <<sem, shmdata, gpc, op, data, l, sigchld, sent, replies>>

\* recvfrom or sendto fails, and errexit ends the process.
recvfrom_fails(p) == /\ Goto(p, "recvfrom", "exited")
                     /\ Chld(p)
                     /\ UNCHANGED <<sem, shmdata, gpc, op, data, l, sent, queue, replies>>
sendto_fails(p) == /\ Goto(p, "sendto", "unanswered")
                   /\ Chld(p)
                   /\ UNCHANGED <<sem, shmdata, gpc, op, data, l, sent, queue, replies>>

sendto(p) == /\ Goto(p, "sendto", "read_glb_data")
             /\ replies' = replies + 1
             /\ UNCHANGED <<sem, shmdata, gpc, op, data, l, sigchld, sent, queue>>

\* The call of read_glb_data, into numCount.
call_read(p) == /\ Goto(p, "read_glb_data", "count")
                /\ Shm!Call(p, "read", data[p], TRUE)
                /\ UNCHANGED <<l, sigchld, sent, queue, replies>>

\* Mutant of call_write: the counter is decremented.
MutantWrite(p) == /\ Goto(p, "count", "wrote")
                  /\ Shm!Call(p, "write", data[p] - 1, TRUE)
                  /\ UNCHANGED <<l, sigchld, sent, queue, replies>>

\* numCount is incremented and write_glb_data called, once the read returned.
call_write(p) == /\ Goto(p, "count", "wrote")
                 /\ Shm!Call(p, "write", data[p] + 1, TRUE)
                 /\ UNCHANGED <<l, sigchld, sent, queue, replies>>

\* write_glb_data returned: back to the top of the loop.
again(p) == /\ Goto(p, "wrote", "recvfrom")
            /\ gpc[p] = "idle"
            /\ UNCHANGED <<sem, shmdata, gpc, op, data, l, sigchld, sent, queue, replies>>

\* The root's reaper collects the slaves that ended.  A semop that was blocked
\* then fails with EINTR, and sem_wait takes the root down, between an answer and
\* its count.
reaper ==
  /\ sigchld /\ ~Gone(Root)
  /\ sigchld' = FALSE
  /\ \/ /\ gpc[Root] = "wait" /\ sem = 0
        /\ Shm!sem_wait_fails(Root)
        /\ pc' = [pc EXCEPT ![Root] = "uncounted"]
     \/ /\ ~(gpc[Root] = "wait" /\ sem = 0)
        /\ UNCHANGED <<sem, shmdata, gpc, op, data, pc>>
  /\ UNCHANGED <<l, sent, queue, replies>>

\* A step inside glb_shm_obj.c.
object_step(p) == /\ Shm!Step(p)
                  /\ UNCHANGED <<pc, l, sigchld, sent, queue, replies>>

Next == \/ client_send \/ fork \/ fork_fails \/ reaper
        \/ \E p \in Procs : \/ recvfrom(p) \/ sendto(p)
                            \/ recvfrom_fails(p) \/ sendto_fails(p)
                            \/ call_read(p) \/ call_write(p) \/ again(p)
                            \/ object_step(p)

Spec == Init /\ [][Next]_vars
-----------------------------------------------------------------------------
Counting(p) == pc[p] \in {"read_glb_data", "count", "wrote"}
Quiescent   == \A p \in Procs : ~Counting(p)

TypeOK == /\ Shm!TypeOK
          /\ pc \in [Procs -> {"unborn", "fork", "exited", "recvfrom", "sendto",
                               "read_glb_data", "count", "wrote",
                               "unanswered", "uncounted"}]
          /\ l \in 0..NCRTLVL /\ sigchld \in BOOLEAN
          /\ sent \in 0..MaxRequests /\ queue \in 0..sent /\ replies \in 0..sent

\* No datagram is answered twice, and one is lost only with a process whose sendto
\* failed: what was sent is in the queue, answered, in the hands of one process, or
\* was in the hands of one that ended for it.
AnsweredOnce ==
  sent = queue + replies
           + Cardinality({p \in Procs : pc[p] \in {"sendto", "unanswered"}})

\* The counter never runs ahead of the answers, and it is not at zero once an answer
\* was counted, whatever updates are lost: the only answer that nobody counts is one
\* the root was about to count when its reaper interrupted it.
CounterBounds ==
  /\ shmdata <= replies
  /\ Quiescent /\ replies > Cardinality({p \in Procs : pc[p] = "uncounted"})
       => shmdata > 0

\* The invariant of the processes and of their count: the types of the variables,
\* and the two properties above.
CounterInv == TypeOK /\ AnsweredOnce /\ CounterBounds
=============================================================================
