---------------------------- MODULE DelayedAlloc ----------------------------
(***************************************************************************)
(* The TCP echo servers with delayed allocation and without a shared       *)
(* count: chapter15/tcp_delayed_allctn.c, whose slaves serve the client    *)
(* they were forked for and end (persist = FALSE), and                     *)
(* chapter15/tcp_delayed_allctn_ad_persist.c, whose slaves stay until no   *)
(* client comes for ten seconds (persist = TRUE).                          *)
(*                                                                         *)
(* The reaper only waits for children here: it changes nothing the master  *)
(* or a slave acts on, and a reaped process id is simply free again.       *)
(*                                                                         *)
(* A process ends when a system call fails, and its descriptors with it:   *)
(* a client may be reset, the handler's fork may fail, and the alarm makes *)
(* a write that had blocked fail in the slave.                             *)
(***************************************************************************)
EXTENDS Integers, FiniteSets, Sequences

CONSTANTS Slaves,      \* process ids for slaves
          Clients,     \* each connects once
          None,        \* the descriptor 0: no connection
          QLEN,        \* the backlog of msock
          MaxSent,     \* bound: messages of one client
          Faults       \* bound: resets, failed forks, interrupted writes

ASSUME ConstantsAssumption ==
  /\ IsFiniteSet(Slaves) /\ IsFiniteSet(Clients) /\ None \notin Clients
  /\ QLEN \in Nat /\ MaxSent \in Nat /\ Faults \in Nat

Master == "master"
ASSUME MasterAssumption == Master \notin Slaves

Procs == {Master} \cup Slaves

VARIABLES
  persist,  \* do slaves stay for another client?  (the same in all states)
  pc,       \* pc[p]: where the server loop of p is
  ssock,    \* ssock[p]: the variable ssock
  fds,      \* fds[p]: the connections p has a descriptor of
  buf,      \* buf[p]: messages read and not yet written back
  armed,    \* is the master's alarm set?
  backlog,  \* connections not yet accepted
  conn,     \* conn[c]: "new", "open", "fin" (closed by the client) or "rst"
  inq,      \* inq[c]: messages in the receive queue of c's connection
  sent, echoed,  \* per client, messages sent and messages echoed
  faults    \* faults still to come

procs == <<pc, ssock, fds, buf, armed>>
net   == <<backlog, conn, inq, sent, echoed, faults>>
vars  == <<persist, pc, ssock, fds, buf, armed, backlog, conn, inq, sent, echoed, faults>>

Init == /\ persist \in BOOLEAN
        /\ pc = [p \in Procs |-> IF p = Master THEN "accept" ELSE "none"]
        /\ ssock = [p \in Procs |-> None] /\ fds = [p \in Procs |-> {}]
        /\ buf = [p \in Procs |-> 0] /\ armed = FALSE
        /\ backlog = <<>> /\ conn = [c \in Clients |-> "new"]
        /\ inq = [c \in Clients |-> 0]
        /\ sent = [c \in Clients |-> 0] /\ echoed = [c \in Clients |-> 0]
        /\ faults = Faults

Goto(p, from, to) == pc[p] = from /\ pc' = [pc EXCEPT ![p] = to]

\* Linux completes connections while at most QLEN wait to be accepted.
connect(c) == /\ conn[c] = "new" /\ Len(backlog) <= QLEN
              /\ conn' = [conn EXCEPT ![c] = "open"]
              /\ backlog' = Append(backlog, c)
              /\ UNCHANGED <<procs, inq, sent, echoed, faults, persist>>

send(c) == /\ conn[c] = "open" /\ sent[c] < MaxSent
           /\ sent' = [sent EXCEPT ![c] = @ + 1]
           /\ inq' = [inq EXCEPT ![c] = @ + 1]
           /\ UNCHANGED <<procs, backlog, conn, echoed, faults, persist>>

finish(c) == /\ conn[c] = "open"
             /\ conn' = [conn EXCEPT ![c] = "fin"]
             /\ UNCHANGED <<procs, backlog, inq, sent, echoed, faults, persist>>

reset(c) == /\ conn[c] \in {"open", "fin"} /\ faults > 0
            /\ conn' = [conn EXCEPT ![c] = "rst"]
            /\ faults' = faults - 1
            /\ UNCHANGED <<procs, backlog, inq, sent, echoed, persist>>

\* The end of a process by errexit or SIGPIPE: the kernel closes its descriptors.
Ends(p) == /\ pc' = [pc EXCEPT ![p] = IF p = Master THEN "dead" ELSE "none"]
           /\ ssock' = [ssock EXCEPT ![p] = None]
           /\ fds' = [fds EXCEPT ![p] = {}]
           /\ buf' = [buf EXCEPT ![p] = 0]
           /\ armed' = (armed /\ p # Master)
           /\ UNCHANGED persist

\* accept returns a connection; what comes next the master does under a timer.
accept(p) == /\ Goto(p, "accept", IF p = Master THEN "arm" ELSE "read")
             /\ backlog # <<>> /\ backlog' = Tail(backlog)
             /\ ssock' = [ssock EXCEPT ![p] = Head(backlog)]
             /\ fds' = [fds EXCEPT ![p] = @ \cup {Head(backlog)}]
             /\ UNCHANGED <<buf, armed, conn, inq, sent, echoed, faults, persist>>

\* Mutant of arm: the timer is set for no client.
MutantArm == /\ Goto(Master, "arm", "read")
             /\ UNCHANGED <<ssock, fds, buf, armed, net, persist>>

arm == /\ Goto(Master, "arm", "read")
       /\ armed' = TRUE
       /\ UNCHANGED <<ssock, fds, buf, net, persist>>

read(p) == /\ Goto(p, "read", "write")
           /\ inq[ssock[p]] > 0
           /\ buf' = [buf EXCEPT ![p] = inq[ssock[p]]]
           /\ inq' = [inq EXCEPT ![ssock[p]] = 0]
           /\ UNCHANGED <<ssock, fds, armed, backlog, conn, sent, echoed, faults, persist>>

read_eof(p) == /\ Goto(p, "read", "close")
               /\ inq[ssock[p]] = 0 /\ conn[ssock[p]] = "fin"
               /\ UNCHANGED <<ssock, fds, buf, armed, net, persist>>

\* read fails with ECONNRESET and errexit ends the process.
read_reset(p) == /\ pc[p] = "read" /\ inq[ssock[p]] = 0 /\ conn[ssock[p]] = "rst"
                 /\ Ends(p)
                 /\ UNCHANGED net

\* Mutant of write: one more byte than was read.
MutantWrite(p) == /\ Goto(p, "write", "read") /\ conn[ssock[p]] # "rst"
                  /\ echoed' = [echoed EXCEPT ![ssock[p]] = @ + buf[p] + 1]
                  /\ buf' = [buf EXCEPT ![p] = 0]
                  /\ UNCHANGED <<ssock, fds, armed, backlog, conn, inq, sent, faults, persist>>

write(p) == /\ Goto(p, "write", "read") /\ conn[ssock[p]] # "rst"
            /\ echoed' = [echoed EXCEPT ![ssock[p]] = @ + buf[p]]
            /\ buf' = [buf EXCEPT ![p] = 0]
            /\ UNCHANGED <<ssock, fds, armed, backlog, conn, inq, sent, faults, persist>>

\* A write on a connection that was reset raises SIGPIPE.
write_reset(p) == /\ pc[p] = "write" /\ conn[ssock[p]] = "rst"
                  /\ Ends(p)
                  /\ UNCHANGED net

close(p) == /\ Goto(p, "close", "zero")
            /\ fds' = [fds EXCEPT ![p] = @ \ {ssock[p]}]
            /\ UNCHANGED <<ssock, buf, armed, net, persist>>

\* ssock = 0, and with it the end of the loop's body: a slave stays or ends.
zero(p) == /\ Goto(p, "zero", CASE p = Master              -> "disarm"
                                [] p # Master /\ persist   -> "select"
                                [] p # Master /\ ~persist  -> "none")
           /\ ssock' = [ssock EXCEPT ![p] = None]
           /\ UNCHANGED <<fds, buf, armed, net, persist>>

disarm == /\ Goto(Master, "disarm", "accept")
          /\ armed' = FALSE
          /\ UNCHANGED <<ssock, fds, buf, net, persist>>

\* A slave that stays waits at most ten seconds for a connection; another
\* process may accept the one select has seen.
select(s)   == /\ Goto(s, "select", "accept") /\ backlog # <<>>
               /\ UNCHANGED <<ssock, fds, buf, armed, net, persist>>
inactive(s) == /\ Goto(s, "select", "none") /\ backlog = <<>>
               /\ UNCHANGED <<ssock, fds, buf, armed, net, persist>>

\* The alarm interrupted the write the slave inherited: it fails with EINTR (there is
\* no SA_RESTART), and errexit ends the slave.
interrupted(s) == /\ pc[s] = "write_eintr"
                  /\ Ends(s)
                  /\ UNCHANGED net

\* Mutant of delayed_alloctn_cb: the parent returns to the client it handed over.
MutantNoJump(s) ==
  /\ armed /\ pc[s] = "none"
  /\ armed' = FALSE
  /\ pc' = [pc EXCEPT ![s] = pc[Master]]
  /\ ssock' = [ssock EXCEPT ![s] = ssock[Master]]
  /\ fds' = [fds EXCEPT ![s] = fds[Master]]
  /\ buf' = [buf EXCEPT ![s] = buf[Master]]
  /\ UNCHANGED <<net, persist>>

\* SIGALRM: the slave goes on where the master was, the master jumps.  A write may
\* have blocked before its first byte (that counts as a fault).
delayed_alloctn_cb(s) ==
  /\ armed /\ pc[s] = "none"
  /\ armed' = FALSE
  /\ \/ /\ pc' = [pc EXCEPT ![s] = IF pc[Master] # "disarm" THEN pc[Master]
                                   ELSE IF persist THEN "select" ELSE "none",
                            ![Master] = "jumped"]
        /\ UNCHANGED faults
     \/ /\ pc[Master] = "write" /\ faults > 0
        /\ pc' = [pc EXCEPT ![s] = "write_eintr", ![Master] = "jumped"]
        /\ faults' = faults - 1
  /\ ssock' = [ssock EXCEPT ![s] = ssock[Master]]
  /\ fds' = [fds EXCEPT ![s] = fds[Master]]
  /\ buf' = [buf EXCEPT ![s] = buf[Master], ![Master] = 0]
  /\ UNCHANGED <<backlog, conn, inq, sent, echoed, persist>>

\* SIGALRM and fork fails: the handler ends the master.
fork_fails == /\ armed /\ faults > 0
              /\ faults' = faults - 1
              /\ Ends(Master)
              /\ UNCHANGED <<backlog, conn, inq, sent, echoed>>

\* Mutant of jumped: the master keeps its descriptor.
MutantJumped == /\ Goto(Master, "jumped", "accept")
                /\ UNCHANGED <<ssock, fds, buf, armed, net, persist>>

\* sigsetjmp returned 1: the master closes what the slave took over.
jumped == /\ Goto(Master, "jumped", "accept")
          /\ fds' = [fds EXCEPT ![Master] = @ \ {ssock[Master]}]
          /\ UNCHANGED <<ssock, buf, armed, net, persist>>

Loop(p) == \/ accept(p) \/ read(p) \/ read_eof(p) \/ read_reset(p)
           \/ write(p) \/ write_reset(p) \/ close(p) \/ zero(p)
MasterOnly == arm \/ disarm \/ jumped
SlaveOnly(s) == select(s) \/ inactive(s) \/ interrupted(s)
Alarm == \E s \in Slaves : delayed_alloctn_cb(s)
ClientStep(c) == connect(c) \/ send(c) \/ finish(c) \/ reset(c)

Next == \/ \E p \in Procs : Loop(p)
        \/ MasterOnly \/ Alarm \/ fork_fails
        \/ \E s \in Slaves : SlaveOnly(s)
        \/ \E c \in Clients : ClientStep(c)

Spec == Init /\ [][Next]_vars

\* Processes are scheduled, a set alarm goes off, a select times out.  Only the
\* connection is asked of a client, because TCP retries it; a client may send
\* nothing and never close.
Fairness == /\ \A p \in Procs : WF_vars(Loop(p))
            /\ WF_vars(MasterOnly) /\ WF_vars(Alarm)
            /\ \A s \in Slaves : WF_vars(SlaveOnly(s))
FairSpec == Spec /\ Fairness
-----------------------------------------------------------------------------
TypeOK == /\ persist \in BOOLEAN
          /\ pc \in [Procs -> {"accept", "arm", "read", "write", "close", "zero",
                              "disarm", "jumped", "select", "write_eintr",
                              "none", "dead"}]
          /\ ssock \in [Procs -> Clients \cup {None}]
          /\ fds \in [Procs -> SUBSET Clients]
          /\ buf \in [Procs -> 0..MaxSent] /\ armed \in BOOLEAN
          /\ backlog \in Seq(Clients) /\ Len(backlog) <= QLEN + 1
          /\ conn \in [Clients -> {"new", "open", "fin", "rst"}]
          /\ inq \in [Clients -> 0..MaxSent] /\ sent \in [Clients -> 0..MaxSent]
          /\ echoed \in [Clients -> 0..MaxSent] /\ faults \in 0..Faults

\* The process that serves c, or would accept it, has failed: c was reset, the slave
\* that c was handed to ends with c's message, or the master ended and no slave has c.
Failed(c) == \/ conn[c] = "rst"
             \/ \E s \in Slaves : pc[s] = "write_eintr" /\ ssock[s] = c
             \/ pc[Master] = "dead" /\ \A s \in Slaves : c \notin fds[s]

\* No message is echoed twice, whatever fails; and every message of a client is echoed,
\* whichever process the timer hands the client to, however long other clients keep
\* quiet and whatever ends the processes of others, unless its own process fails.
Service == INSTANCE EchoService
ImplementsEcho ==
  Service!Spec /\ \A c \in Clients : <>Failed(c) \/ Service!Live(c)

\* A client that waits to be accepted is accepted, although every client before
\* it may stay connected for ever: this is what the allocation of slaves is for.
\* Only the end of the master can leave it waiting.
Waits(c) == \E i \in DOMAIN backlog : backlog[i] = c
BacklogServed == \A c \in Clients : Waits(c) ~> ~Waits(c) \/ pc[Master] = "dead"

\* A client that has closed sees the server close too, in every process, whatever
\* fails.
ClosedEverywhere == \A c \in Clients :
  conn[c] = "fin" ~> \A p \in Procs : c \notin fds[p]
=============================================================================
