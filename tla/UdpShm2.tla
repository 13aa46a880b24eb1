------------------------------ MODULE UdpShm2 ------------------------------
(***************************************************************************)
(* The second preallocated UDP time server, chapter15/exc_15_udp_shm2.c: a *)
(* process counts each request atomically, with update_glb_data, before it *)
(* answers; the process whose count passes the limit shuts down without    *)
(* answering, and the root takes its slaves with it.                       *)
(*                                                                         *)
(* Signals are modelled: SIGTERM ends a process some time after it was     *)
(* sent, wherever the process is, the critical section included; SIGCHLD   *)
(* runs the root's reaper, which interrupts the root only in a semop that  *)
(* blocks (recvfrom and sendto restart).                                   *)
(***************************************************************************)
EXTENDS Integers, FiniteSets

CONSTANTS NCRTLVL,      \* how many slaves the root forks
          Limit,        \* the shutdown limit (5 in the source)
          MaxRequests   \* bound: datagrams the clients send

ASSUME LevelAssumption    == NCRTLVL \in Nat \ {0}
ASSUME LimitAssumption    == Limit \in Nat
ASSUME RequestsAssumption == MaxRequests \in Nat

Root  == 0
Kids  == 1..NCRTLVL
Procs == {Root} \cup Kids

VARIABLES sem, shmdata, gpc, op, data,   \* the object; data[p] is p's numCount
          pc,         \* pc[p]: where process p is
          l,          \* the root's loop counter, of forks and later of kills
          term,       \* slaves with a SIGTERM on its way
          sigchld,    \* is a SIGCHLD pending at the root?
          queue,      \* datagrams in the receive queue of msock
          sent,       \* datagrams sent by the clients
          replies     \* answers sent

shm  == <<sem, shmdata, gpc, op, data>>
vars == <<sem, shmdata, gpc, op, data, pc, l, term, sigchld, queue, sent, replies>>

Shm == INSTANCE GlbShm WITH Callers <- Procs, Args <- {},
                            Failures <- TRUE, Window <- MaxRequests

Gone(p) == pc[p] \in {"unborn", "dead"}

Init == /\ Shm!Init
        /\ pc = [p \in Procs |-> IF p = Root THEN "fork" ELSE "unborn"]
        /\ l = 0 /\ term = {} /\ sigchld = FALSE
        /\ queue = 0 /\ sent = 0 /\ replies = 0

Goto(p, from, to) == pc[p] = from /\ pc' = [pc EXCEPT ![p] = to]

\* A slave that ends leaves a SIGCHLD for its parent.
Chld(p) == sigchld' = (sigchld \/ (p # Root /\ ~Gone(Root)))

client_send == /\ sent < MaxRequests
               /\ sent' = sent + 1 /\ queue' = queue + 1
               /\ UNCHANGED <<sem, shmdata, gpc, op, data, pc, l, term, sigchld, replies>>

fork == /\ pc[Root] = "fork"
        /\ l' = l + 1
        /\ pc' = [pc EXCEPT ![l + 1] = "recvfrom",
                            ![Root] = IF l' = NCRTLVL THEN "recvfrom" ELSE "fork"]
        /\ UNCHANGED <<sem, shmdata, gpc, op, data, term, sigchld, queue, sent, replies>>

\* Fork failed: the root exits, the slaves already forked serve on.
fork_fails == /\ Goto(Root, "fork", "dead")
              /\ UNCHANGED <<sem, shmdata, gpc, op, data, l, term, sigchld, queue, sent, replies>>

recvfrom(p) == /\ Goto(p, "recvfrom", "update_glb_data")
               /\ queue > 0 /\ queue' = queue - 1
               /\ UNCHANGED <<sem, shmdata, gpc, op, data, l, term, sigchld, sent, replies>>

\* The call of update_glb_data with the incrementing callback.
call_update(p) == /\ Goto(p, "update_glb_data", "limit")
                  /\ Shm!Call(p, "inc", data[p], TRUE)
                  /\ UNCHANGED <<l, term, sigchld, queue, sent, replies>>

object_step(p) == /\ Shm!Step(p)
                  /\ UNCHANGED <<pc, l, term, sigchld, queue, sent, replies>>

\* Mutant of limit_check: the limit is tested as it was before the increment.
MutantLimit(p) == /\ pc[p] = "limit" /\ gpc[p] = "idle"
                  /\ pc' = [pc EXCEPT ![p] =
                       IF data[p] > Limit + 1 THEN "kill_self" ELSE "sendto"]
                  /\ UNCHANGED <<sem, shmdata, gpc, op, data, l, term, sigchld, queue, sent, replies>>

\* Mutant of limit_check: the test is made in the callback, before sem_signal.
MutantInside(p) ==
  /\ pc[p] = "limit" /\ gpc[p] \in {"idle", "stored"}
  /\ LET over == data[p] > Limit
     IN  /\ pc' = [pc EXCEPT ![p] = CASE ~over              -> "sendto"
                                      [] over /\ p = Root   -> "kill_kids"
                                      [] over /\ p # Root   -> "kill_self"]
         /\ l' = IF over /\ p = Root THEN 0 ELSE l
  /\ UNCHANGED <<sem, shmdata, gpc, op, data, term, sigchld, queue, sent, replies>>

\* update_glb_data returned: past the limit a slave kills itself, the root
\* starts killing its slaves; within it the request is answered.
limit_check(p) ==
  /\ pc[p] = "limit" /\ gpc[p] = "idle"
  /\ LET over == data[p] > Limit
     IN  /\ pc' = [pc EXCEPT ![p] = CASE ~over              -> "sendto"
                                      [] over /\ p = Root   -> "kill_kids"
                                      [] over /\ p # Root   -> "kill_self"]
         /\ l' = IF over /\ p = Root THEN 0 ELSE l
  /\ UNCHANGED <<sem, shmdata, gpc, op, data, term, sigchld, queue, sent, replies>>

\* Mutant of kill_kid: the loop stops one slave short.
MutantKill ==
  /\ pc[Root] = "kill_kids"
  /\ l' = l + 1
  /\ term' = IF l' = NCRTLVL THEN term ELSE term \cup ({l + 1} \ {p \in Kids : Gone(p)})
  /\ pc' = [pc EXCEPT ![Root] = IF l' = NCRTLVL THEN "kill_self" ELSE "kill_kids"]
  /\ UNCHANGED <<sem, shmdata, gpc, op, data, sigchld, queue, sent, replies>>

\* Mutant of kill_kid: the loop runs once too often.
MutantOneMore ==
  /\ pc[Root] = "kill_kids"
  /\ l' = l + 1
  /\ term' = term \cup ({l + 1} \ {p \in Kids : Gone(p)})
  /\ pc' = [pc EXCEPT ![Root] = IF l' > NCRTLVL THEN "kill_self" ELSE "kill_kids"]
  /\ UNCHANGED <<sem, shmdata, gpc, op, data, sigchld, queue, sent, replies>>

\* kill(childProcessIds[l], SIGTERM): nothing happens to a slave that is gone.
kill_kid ==
  /\ pc[Root] = "kill_kids"
  /\ l' = l + 1
  /\ term' = term \cup ({l + 1} \ {p \in Kids : Gone(p)})
  /\ pc' = [pc EXCEPT ![Root] = IF l' = NCRTLVL THEN "kill_self" ELSE "kill_kids"]
  /\ UNCHANGED <<sem, shmdata, gpc, op, data, sigchld, queue, sent, replies>>

\* kill(getpid(), SIGTERM) does not return.
kill_self(p) == /\ Goto(p, "kill_self", "dead")
                /\ Shm!killed(p)
                /\ Chld(p)
                /\ term' = term \ {p}
                /\ UNCHANGED <<l, queue, sent, replies>>

sendto(p) == /\ Goto(p, "sendto", "recvfrom")
             /\ replies' = replies + 1
             /\ UNCHANGED <<sem, shmdata, gpc, op, data, l, term, sigchld, queue, sent>>

\* recvfrom or sendto fails and errexit ends the process, in the second case with a
\* request that it counted and does not answer.
errexit(p) == /\ pc[p] \in {"recvfrom", "sendto"}
              /\ pc' = [pc EXCEPT ![p] = "dead"]
              /\ Shm!killed(p)
              /\ Chld(p)
              /\ term' = term \ {p}
              /\ UNCHANGED <<l, queue, sent, replies>>

\* The SIGTERM sent by the root arrives.
sigterm(p) == /\ p \in term
              /\ pc' = [pc EXCEPT ![p] = "dead"]
              /\ term' = term \ {p}
              /\ Shm!killed(p)
              /\ Chld(p)
              /\ UNCHANGED <<l, queue, sent, replies>>

\* The root's reaper collects the slaves that ended.  A semop that was blocked
\* then fails with EINTR, and sem_wait takes the root down.
reaper ==
  /\ sigchld /\ ~Gone(Root)
  /\ sigchld' = FALSE
  /\ \/ /\ gpc[Root] = "wait" /\ sem = 0
        /\ Shm!sem_wait_fails(Root)
        /\ pc' = [pc EXCEPT ![Root] = "dead"]
     \/ /\ ~(gpc[Root] = "wait" /\ sem = 0)
        /\ UNCHANGED <<sem, shmdata, gpc, op, data, pc>>
  /\ UNCHANGED <<l, term, queue, sent, replies>>

Proc(p) == \/ recvfrom(p) \/ call_update(p) \/ object_step(p) \/ limit_check(p)
           \/ kill_self(p) \/ sendto(p) \/ sigterm(p)
RootOnly == fork \/ kill_kid \/ reaper

Next == \/ client_send \/ fork_fails \/ RootOnly
        \/ \E p \in Procs : Proc(p) \/ errexit(p)

Spec == Init /\ [][Next]_vars

\* Processes are scheduled, semop serves its queue in order and signals arrive;
\* the clients owe nothing.
Fairness == /\ WF_vars(fork \/ kill_kid) /\ WF_vars(reaper)
            /\ \A p \in Procs : /\ WF_vars(Proc(p)) /\ WF_vars(sigterm(p))
                                 /\ SF_vars(object_step(p))
FairSpec == Spec /\ Fairness
-----------------------------------------------------------------------------
TypeOK == /\ Shm!TypeOK
          /\ pc \in [Procs -> {"unborn", "fork", "dead", "recvfrom", "limit", "sendto",
                               "update_glb_data", "kill_kids", "kill_self"}]
          /\ l \in 0..NCRTLVL
          /\ term \subseteq {p \in Kids : ~Gone(p)} /\ sigchld \in BOOLEAN
          /\ sent \in 0..MaxRequests /\ queue \in 0..sent /\ replies \in 0..sent

\* The server never answers more requests than its shutdown limit, however its
\* processes interleave: the counter gives each request a number of its own,
\* and the requests numbered past the limit are not answered.
AnswersBounded == replies <= Limit

\* The root is shutting the tree down and p is among those it has doomed.
Doomed(p) == \/ p \in term \/ Gone(p)
             \/ p = Root /\ pc[p] \in {"kill_kids", "kill_self"}
             \/ p # Root /\ pc[Root] = "kill_kids" /\ p > l

\* A slave killed between sem_wait and sem_signal leaves the semaphore taken for
\* good; that blocks nobody who was meant to live, since only the root kills
\* others, and only to shut the whole tree down.
LostOnlyInShutdown ==
  (\E p \in Procs : gpc[p] = "died") => \A p \in Procs : Doomed(p)

\* exc_15_udp_shm2.c:92 "Kill process tree on shutdown limit reached": when it is
\* the root that reaches the limit every process ends.  (A slave kills itself.)
RootLimitKillsTree ==
  pc[Root] = "kill_kids" ~> \A p \in Procs : Gone(p)

\* With the types of the variables: the invariant of the shutdown.
ShutdownInv == TypeOK /\ LostOnlyInShutdown
=============================================================================
