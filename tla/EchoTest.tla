------------------------------- MODULE EchoTest -------------------------------
(***************************************************************************)
(* The ECHO clients composed with the ECHO servers.  The test clients of   *)
(* chapter 16 send ccount characters on each of several connections and    *)
(* count what comes back:                                                  *)
(*   TCPtecho    one process that selects for reading and writing          *)
(*   TCPtecho2   a process that writes to all connections, and one that    *)
(*               reads from all of them                                    *)
(*   TCPtecho3   a process for each connection                             *)
(* The clients of chapter 7 send a line and read until all of it is back:  *)
(*   TCPecho, exc_7_9 (which ends with a shutdown), exc_7_6, whose lines   *)
(*   are longer than what a connection takes at once, and exc_11_1, which  *)
(*   reads its file again and again (without a file it is TCPecho).        *)
(* Their sockets do not block (chapter16/connectsock.c, line 100), those   *)
(* of the servers do.  A server is "concurrent" (a slave per connection),  *)
(* "iterative" (a connection to its end, then the next) or "select".       *)
(* Characters are counted; a connection holds CAP of them in a direction.  *)
(***************************************************************************)
EXTENDS Integers, FiniteSets, SequencesExt

CONSTANTS N,        \* connections of a test client
          CCOUNT,   \* ccount: characters sent on each
          BUFSIZE,  \* the most that a client or a server sends or reads at once
          CAP,      \* what a connection holds in each direction
          LINES,    \* lines of the clients of chapter 7
          Faults    \* bound: forks that fail, connections a server breaks

ASSUME ConstantsAssumption ==
  /\ {N, CCOUNT, BUFSIZE, CAP, LINES} \subseteq Nat \ {0} /\ Faults \in Nat

Tests    == {"TCPtecho", "TCPtecho2", "TCPtecho3"}
Liners   == {"TCPecho", "exc_7_9", "exc_7_6", "exc_11_1"}
Servers  == {"concurrent", "iterative", "select"}
Parent == 0   Writer == -1   Reader == -2   Stray == -3   \* a child of TCPtecho3 is its c
Procs  == Stray..N

VARIABLES
  program, server,  \* who is tested with whom (the same in all states)
  stray,     \* TCPtecho3: has afds, never cleared, the bit of a low descriptor?
  pc,        \* pc[p]: where p is, or "none", "zombie", "gone", "done" (main has returned)
  i,         \* TCPtecho3: the loop variable of main
  hcount,    \* hcount[p]: process p's copy of it
  wc, rc,    \* per connection: characters to send, and to be read
  lines,     \* lines still to be sent, of the file that is open
  shut,      \* connections shut down for writing
  closed,    \* closed[p]: connections whose descriptor p has closed
  sigchld,   \* is a SIGCHLD pending at the parent?
  early,     \* history: has TCPtecho2's reaper run before hcount was set?
  inq, outq, \* per connection: characters on their way to the server, back
  hand,      \* read by the server and not yet written back
  sv,        \* "queued", "read", "write", "closed", or "broken" by the server
  faults

procs == <<pc, i, hcount, wc, rc, lines, shut, closed, sigchld, early>>
net   == <<inq, outq, hand, sv, faults>>
vars  == <<program, server, stray, pc, i, hcount, wc, rc, lines, shut, closed, sigchld,
           early, inq, outq, hand, sv, faults>>

Conns == IF program \in Tests THEN 1..N ELSE {1}
Count == IF program \in Tests THEN CCOUNT ELSE 0
LineLen == IF program = "exc_7_6" THEN CAP + 1 ELSE CAP

\* main has opened the connections.
Init == /\ program \in Tests \cup Liners /\ server \in Servers
        /\ stray \in BOOLEAN /\ (stray => program = "TCPtecho3")
        /\ pc = [p \in Procs |-> IF p # Parent THEN "none"
                                 ELSE IF program \in {"TCPtecho2", "TCPtecho3"} THEN "fork"
                                 ELSE "run"]
        /\ i = IF stray THEN Stray ELSE 1
        /\ hcount = [p \in Procs |-> Cardinality(Conns)]
        /\ wc = [c \in 1..N |-> Count] /\ rc = [c \in 1..N |-> Count]
        /\ lines = IF program = "exc_11_1" THEN 0 ELSE LINES
        /\ shut = {} /\ closed = [p \in Procs |-> {}]
        /\ sigchld = FALSE /\ early = FALSE
        /\ inq = [c \in 1..N |-> 0] /\ outq = [c \in 1..N |-> 0] /\ hand = [c \in 1..N |-> 0]
        /\ sv = [c \in 1..N |-> IF c \in Conns THEN "queued" ELSE "closed"]
        /\ faults = Faults

Least(x, y) == IF x < y THEN x ELSE y
Live  == {p \in Procs : pc[p] \notin {"none", "zombie", "gone", "done"}}
Fault == faults > 0 /\ faults' = faults - 1
Goto(p, from, to) == pc[p] = from /\ pc' = [pc EXCEPT ![p] = to]

\* Process p ends.  Its parent is told, if it lives; init waits for orphans.
Ends(p) == /\ pc' = [q \in Procs |-> CASE q = p -> IF p # Parent /\ Parent \in Live THEN "zombie"
                                                  ELSE "gone"
                                      [] q # p -> IF p = Parent /\ pc[q] = "zombie" THEN "gone"
                                                  ELSE pc[q]]
           /\ sigchld' = (Parent \in Live /\ p # Parent)

\* The server sees the end of a connection that was shut down or that nobody
\* has open any more.
Fin(c) == c \in shut \/ \A p \in Live : c \in closed[p]
-----------------------------------------------------------------------------
(* The servers. *)

Serving == {c \in 1..N : sv[c] \in {"read", "write"}}

accept(c) == /\ sv[c] = "queued" /\ \A b \in 1..(c - 1) : sv[b] # "queued"
             /\ server = "iterative" => Serving = {}
             /\ sv' = [sv EXCEPT ![c] = "read"]
             /\ UNCHANGED <<program, server, stray, procs, inq, outq, hand, faults>>

\* A server that selects is in one blocking write at a time.
read(c) == /\ sv[c] = "read" /\ inq[c] > 0
           /\ server = "select" => \A b \in 1..N : sv[b] # "write"
           /\ sv' = [sv EXCEPT ![c] = "write"]
           /\ hand' = [hand EXCEPT ![c] = Least(BUFSIZE, inq[c])]
           /\ inq' = [inq EXCEPT ![c] = @ - Least(BUFSIZE, inq[c])]
           /\ UNCHANGED <<program, server, stray, procs, outq, faults>>

write(c) == LET k == Least(hand[c], CAP - outq[c]) IN
            /\ sv[c] = "write" /\ k > 0 /\ \E p \in Live : c \notin closed[p]
            /\ hand' = [hand EXCEPT ![c] = @ - k]
            /\ outq' = [outq EXCEPT ![c] = @ + k]
            /\ sv' = [sv EXCEPT ![c] = IF k = hand[c] THEN "read" ELSE "write"]
            /\ UNCHANGED <<program, server, stray, procs, inq, faults>>

read_eof(c) == /\ sv[c] = "read" /\ inq[c] = 0 /\ Fin(c)
               /\ sv' = [sv EXCEPT ![c] = "closed"]
               /\ UNCHANGED <<program, server, stray, procs, inq, outq, hand, faults>>

\* The server ends, and with it all its connections; or only its slave for c does.
Ended(c, how) == [b \in 1..N |-> IF b = c \/ (server # "concurrent" /\ sv[b] # "closed")
                                 THEN how ELSE sv[b]]

\* A write to a client that has gone.
write_fails(c) == /\ sv[c] = "write" /\ \A p \in Live : c \in closed[p]
                  /\ sv' = Ended(c, "closed") /\ hand' = [hand EXCEPT ![c] = 0]
                  /\ UNCHANGED <<program, server, stray, procs, inq, outq, faults>>

breaks(c) == /\ c \in Serving /\ Fault
             /\ sv' = Ended(c, "broken")
             /\ UNCHANGED <<program, server, stray, procs, inq, outq, hand>>
-----------------------------------------------------------------------------
(* What the clients' send and recv do: both return what they can. *)

\* Mutant of Send: the whole buffer, whatever is left to send.
MutantSend(c, count) == LET cc == Least(BUFSIZE, CAP - inq[c]) IN
  /\ cc > 0 /\ sv[c] # "broken"
  /\ wc' = [wc EXCEPT ![c] = count - cc]
  /\ inq' = [inq EXCEPT ![c] = @ + cc]
  /\ UNCHANGED <<outq, hand, sv, faults>>

Send(c, count) == LET cc == Least(Least(BUFSIZE, count), CAP - inq[c]) IN
  /\ cc > 0 /\ sv[c] # "broken"
  /\ wc' = [wc EXCEPT ![c] = count - cc]
  /\ inq' = [inq EXCEPT ![c] = @ + cc]
  /\ UNCHANGED <<outq, hand, sv, faults>>

\* (A recv that returns 0 changes nothing, and the loop goes on.)
Recv(c) == LET cc == Least(BUFSIZE, outq[c]) IN
  /\ rc[c] > 0 /\ cc > 0
  /\ rc' = [rc EXCEPT ![c] = @ - cc]
  /\ outq' = [outq EXCEPT ![c] = @ - cc]
  /\ UNCHANGED <<inq, hand, sv, faults>>

\* A process of a client that uses a connection the server has broken: SIGPIPE,
\* or errexit after ECONNRESET.
fails(p) == /\ p \in Live \ {Stray}
            /\ p = Parent => pc[p] = "run"
            /\ \E c \in Conns \ closed[p] :
                 /\ sv[c] = "broken" /\ (p \in 1..N => p = c)
                 /\ p = Writer => wc[c] > 0
            /\ Ends(p)
            /\ UNCHANGED <<program, server, stray, i, hcount, wc, rc, lines, shut, closed,
                           early, net>>
-----------------------------------------------------------------------------
(* TCPtecho. *)

\* Mutant of TCPtecho_writer: the connection counts as done once all is sent.
MutantTCPtecho_writer(c) ==
  /\ program = "TCPtecho" /\ pc[Parent] = "run" /\ wc[c] > 0 /\ c \notin closed[Parent]
  /\ Send(c, wc[c])
  /\ IF wc'[c] = 0
     THEN /\ shut' = shut \cup {c}
          /\ hcount' = [hcount EXCEPT ![Parent] = @ - 1]
          /\ pc' = [pc EXCEPT ![Parent] = IF hcount'[Parent] = 0 THEN "done" ELSE "run"]
     ELSE UNCHANGED <<shut, hcount, pc>>
  /\ UNCHANGED <<program, server, stray, i, rc, lines, closed, sigchld, early>>

TCPtecho_writer(c) ==
  /\ program = "TCPtecho" /\ pc[Parent] = "run" /\ wc[c] > 0 /\ c \notin closed[Parent]
  /\ Send(c, wc[c])
  /\ shut' = IF wc'[c] = 0 THEN shut \cup {c} ELSE shut
  /\ UNCHANGED <<program, server, stray, pc, i, hcount, rc, lines, closed, sigchld, early>>

TCPtecho_reader(c) ==
  /\ program = "TCPtecho" /\ pc[Parent] = "run" /\ c \notin closed[Parent]
  /\ Recv(c)
  /\ IF rc'[c] = 0
     THEN /\ closed' = [closed EXCEPT ![Parent] = @ \cup {c}]
          /\ hcount' = [hcount EXCEPT ![Parent] = @ - 1]
          /\ pc' = [pc EXCEPT ![Parent] = IF hcount'[Parent] = 0 THEN "done" ELSE "run"]
     ELSE UNCHANGED <<closed, hcount, pc>>
  /\ UNCHANGED <<program, server, stray, i, wc, lines, shut, sigchld, early>>
-----------------------------------------------------------------------------
(* TCPtecho2. *)

\* The first fork, of the writer, and the second, of the reader.  Each has a
\* copy of hcount as it is at that moment.
fork2(p) == /\ program = "TCPtecho2"
            /\ p = IF pc[Parent] = "fork" THEN Writer ELSE Reader
            /\ pc[Parent] \in {"fork", "fork2"}
            /\ pc' = [pc EXCEPT ![Parent] = IF p = Writer THEN "fork2" ELSE "set", ![p] = "run"]
            /\ hcount' = [hcount EXCEPT ![p] = hcount[Parent]]
            /\ UNCHANGED <<program, server, stray, i, wc, rc, lines, shut, closed, sigchld,
                           early, net>>

\* Mutant of set: only one of the two is waited for.
MutantSet == /\ Goto(Parent, "set", "wait")
             /\ hcount' = [hcount EXCEPT ![Parent] = 1]
             /\ UNCHANGED <<program, server, stray, i, wc, rc, lines, shut, closed, sigchld,
                            early, net>>

\* hcount = 2
set == /\ Goto(Parent, "set", "wait")
       /\ hcount' = [hcount EXCEPT ![Parent] = 2]
       /\ UNCHANGED <<program, server, stray, i, wc, rc, lines, shut, closed, sigchld, early, net>>

\* The writer closes a connection when it has sent all; the reader, when it has
\* read all.  Neither is the last to have it open.
Done(p, c) == /\ closed' = [closed EXCEPT ![p] = @ \cup {c}]
              /\ hcount' = [hcount EXCEPT ![p] = @ - 1]

TCPtechoOutputSlave(c) ==
  /\ program = "TCPtecho2" /\ pc[Writer] = "run" /\ hcount[Writer] > 0 /\ wc[c] > 0
  /\ Send(c, wc[c])
  /\ IF wc'[c] = 0 THEN Done(Writer, c) ELSE UNCHANGED <<closed, hcount>>
  /\ UNCHANGED <<program, server, stray, pc, i, rc, lines, shut, sigchld, early>>

TCPtechoInputSlave(c) ==
  /\ program = "TCPtecho2" /\ pc[Reader] = "run" /\ hcount[Reader] > 0
  /\ Recv(c)
  /\ IF rc'[c] = 0 THEN Done(Reader, c) ELSE UNCHANGED <<closed, hcount>>
  /\ UNCHANGED <<program, server, stray, pc, i, wc, lines, shut, sigchld, early>>

slave_ends(p) == /\ p \in {Writer, Reader} /\ pc[p] = "run" /\ hcount[p] = 0
                 /\ Ends(p)
                 /\ UNCHANGED <<program, server, stray, i, hcount, wc, rc, lines, shut, closed,
                                early, net>>
-----------------------------------------------------------------------------
(* TCPtecho3. *)

\* A child for each descriptor in afds.
fork3 == /\ program = "TCPtecho3" /\ pc[Parent] = "fork"
         /\ i' = IF i = Stray THEN 1 ELSE i + 1
         /\ pc' = [pc EXCEPT ![i] = "run", ![Parent] = IF i = N THEN "wait" ELSE "fork"]
         /\ UNCHANGED <<program, server, stray, hcount, wc, rc, lines, shut, closed, sigchld,
                        early, net>>

\* TCPtecho of one connection.  (That of a low descriptor finds rc and wc zero,
\* and does nothing for ever.)
child_writer(c) ==
  /\ program = "TCPtecho3" /\ pc[c] = "run" /\ wc[c] > 0
  /\ Send(c, wc[c])
  /\ shut' = IF wc'[c] = 0 THEN shut \cup {c} ELSE shut
  /\ UNCHANGED <<program, server, stray, pc, i, hcount, rc, lines, closed, sigchld, early>>

child_reader(c) ==
  /\ program = "TCPtecho3" /\ pc[c] = "run"
  /\ Recv(c)
  /\ IF rc'[c] = 0 THEN Ends(c) ELSE UNCHANGED <<pc, sigchld>>
  /\ UNCHANGED <<program, server, stray, i, hcount, wc, lines, shut, closed, early>>
-----------------------------------------------------------------------------
(* The parent of TCPtecho2 and TCPtecho3. *)

\* Mutant of reaper: one child is counted for one signal.
MutantReaper ==
  /\ sigchld /\ Parent \in Live
  /\ sigchld' = FALSE
  /\ pc' = [p \in Procs |-> IF pc[p] = "zombie" THEN "gone" ELSE pc[p]]
  /\ hcount' = [hcount EXCEPT ![Parent] = @ - 1]
  /\ early' = (early \/ pc[Parent] \in {"fork2", "set"})
  /\ UNCHANGED <<program, server, stray, i, wc, rc, lines, shut, closed, net>>

\* SIGCHLD.
reaper ==
  /\ sigchld /\ Parent \in Live
  /\ sigchld' = FALSE
  /\ pc' = [p \in Procs |-> IF pc[p] = "zombie" THEN "gone" ELSE pc[p]]
  /\ hcount' = [hcount EXCEPT ![Parent] = @ - Cardinality({p \in Procs : pc[p] = "zombie"})]
  /\ early' = (early \/ pc[Parent] \in {"fork2", "set"})
  /\ UNCHANGED <<program, server, stray, i, wc, rc, lines, shut, closed, net>>

fork_fails == /\ pc[Parent] \in {"fork", "fork2"} /\ Fault
              /\ Ends(Parent)
              /\ UNCHANGED <<program, server, stray, i, hcount, wc, rc, lines, shut, closed,
                             early, inq, outq, hand, sv>>

\* The loop on hcount ends: all tests are complete.
complete == /\ Goto(Parent, "wait", "done") /\ hcount[Parent] = 0
            /\ UNCHANGED <<program, server, stray, i, hcount, wc, rc, lines, shut, closed,
                           sigchld, early, net>>
-----------------------------------------------------------------------------
(* The clients of chapter 7. *)

\* write, or send, of a line.  It may take less than the line: the result is
\* only compared with 0.
send_line == LET k == Least(LineLen, CAP - inq[1]) IN
  /\ program \in Liners /\ pc[Parent] = "run" /\ rc[1] = 0 /\ lines > 0 /\ k > 0
  /\ sv[1] # "broken"
  /\ inq' = [inq EXCEPT ![1] = @ + k]
  /\ rc' = [rc EXCEPT ![1] = LineLen]
  /\ lines' = lines - 1
  /\ UNCHANGED <<program, server, stray, pc, i, hcount, wc, shut, closed, sigchld, early,
                 outq, hand, sv, faults>>

\* exc_7_9: the last line is Bye, and is followed by a shutdown.
bye == /\ program = "exc_7_9" /\ pc[Parent] = "run" /\ lines = 0 /\ shut = {}
       /\ shut' = {1}
       /\ UNCHANGED <<program, server, stray, pc, i, hcount, wc, rc, lines, closed, sigchld,
                      early, net>>

\* read, again and again until the whole line is back.
read_line == /\ program \in Liners /\ pc[Parent] = "run"
             /\ Recv(1)
             /\ UNCHANGED <<program, server, stray, pc, i, hcount, wc, lines, shut, closed,
                            sigchld, early>>

\* exc_11_1: fopen finds the file.
open == /\ program = "exc_11_1" /\ pc[Parent] = "run" /\ lines = 0 /\ rc[1] = 0
        /\ lines' = LINES
        /\ UNCHANGED <<program, server, stray, pc, i, hcount, wc, rc, shut, closed, sigchld,
                       early, net>>

\* close, after the last line; for exc_11_1, when fopen fails.
close == /\ program \in Liners /\ Goto(Parent, "run", "done")
         /\ lines = 0 /\ rc[1] = 0 /\ (program = "exc_7_9" => shut # {})
         /\ UNCHANGED <<program, server, stray, i, hcount, wc, rc, lines, shut, closed, sigchld,
                        early, net>>
-----------------------------------------------------------------------------
ServerStep(c) == accept(c) \/ read(c) \/ write(c) \/ write_fails(c) \/ read_eof(c)
WriterStep == \E c \in 1..N : TCPtecho_writer(c) \/ TCPtechoOutputSlave(c) \/ child_writer(c)
ReaderStep == \E c \in 1..N : TCPtecho_reader(c) \/ TCPtechoInputSlave(c) \/ child_reader(c)
LineStep   == send_line \/ bye \/ read_line \/ open \/ close
ParentStep == \/ fork3 \/ set \/ complete
              \/ \E p \in {Writer, Reader} : fork2(p) \/ slave_ends(p)

Next == \/ \E c \in 1..N : ServerStep(c) \/ breaks(c)
        \/ WriterStep \/ ReaderStep \/ LineStep \/ ParentStep
        \/ reaper \/ fork_fails
        \/ \E p \in Procs : fails(p)

Spec == Init /\ [][Next]_vars

\* Clients and servers are scheduled, and SIGCHLD is delivered.  A client of
\* chapter 7 that reads the end of its connection exits; the test clients need
\* not notice that a server has gone.
Fairness == /\ WF_vars(\E c \in 1..N : ServerStep(c))
            /\ WF_vars(WriterStep \/ ReaderStep \/ LineStep)
            /\ WF_vars(ParentStep \/ reaper)
            /\ WF_vars(program \in Liners /\ fails(Parent))
FairSpec == Spec /\ Fairness
-----------------------------------------------------------------------------
TypeOK ==
  /\ program \in Tests \cup Liners /\ server \in Servers /\ stray \in BOOLEAN
  /\ pc \in [Procs -> {"none", "run", "fork", "fork2", "set", "wait", "zombie", "gone", "done"}]
  /\ i \in {Stray} \cup (1..(N + 1))
  /\ \A p \in Procs : hcount[p] \in (IF p = Parent /\ N < 2 THEN -1..2 ELSE 0..N)
  /\ \A c \in 1..N : /\ wc[c] \in 0..CCOUNT /\ rc[c] \in 0..(IF CCOUNT > CAP THEN CCOUNT ELSE CAP + 1)
                     /\ inq[c] \in 0..CAP /\ outq[c] \in 0..CAP /\ hand[c] \in 0..BUFSIZE
                     /\ sv[c] \in {"queued", "read", "write", "closed", "broken"}
                     /\ sv[c] = "write" => hand[c] > 0
  /\ lines \in 0..LINES /\ shut \subseteq Conns /\ closed \in [Procs -> SUBSET Conns]
  /\ sigchld \in BOOLEAN /\ early \in BOOLEAN /\ faults \in 0..Faults

Broken == \E c \in 1..N : sv[c] = "broken"

\* "Tests complete" is printed, and a client of chapter 7 ends, only when all
\* that was to be sent has been sent and has come back; if no server went away.
Complete == pc[Parent] = "done" /\ ~Broken
            => \A c \in Conns : wc[c] = 0 /\ rc[c] = 0 /\ lines \in {0, LINES}

\* With the types of the variables.
CompleteInv == TypeOK /\ Complete

\* The test ends.  It does not if a server goes away (a recv of 0 changes no
\* count), if TCPtecho2 has reaped a child before it sets hcount (which
\* overwrites the count), with TCPtecho2 on an iterative server (the parent keeps
\* the first connection open, so that the server never comes to the second), and
\* for a line of which write has taken only a part.  exc_11_1 may go on as long as
\* it finds its file; it comes to the end of it each time.
TestEnds ==
  /\ <>[](\/ pc[Parent] \in {"done", "gone"}
          \/ Broken /\ program \in Tests
          \/ early
          \/ program = "TCPtecho2" /\ server = "iterative" /\ N > 1
          \/ program \in {"exc_7_6", "exc_11_1"})
  /\ program = "exc_11_1"
       => []<>(pc[Parent] \in {"done", "gone"} \/ (lines = 0 /\ rc[1] = 0))

\* Once the test is complete no process of the client is left, and the server
\* sees the end of every connection; but the child that TCPtecho3 may have forked
\* for a low descriptor stays for ever.
NothingLeft ==
  pc[Parent] = "done" ~> /\ Live \subseteq {Stray} /\ (Stray \in Live => stray)
                         /\ \A c \in Conns : sv[c] \in {"closed", "broken"}
=============================================================================
