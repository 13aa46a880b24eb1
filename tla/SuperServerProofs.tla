--------------------------- MODULE SuperServerProofs ---------------------------
(***************************************************************************)
(* Proofs about SuperServer, for any number of services, clients, SIGHUPs  *)
(* and failures: the master's map of its listening sockets is exact        *)
(* through resets, forks and signals, and accept never blocks.             *)
(***************************************************************************)
EXTENDS SuperServer, SequenceTheorems, WellFoundedInduction, TLAPS

Resetting == {"close", "open", "clear"}
Cur(s)    == <<s, fd2sv[s]>>      \* the socket that fd2sv gives for s

\* The variables that have functions as their values, and the rest of TypeOK.
Types == /\ program \in Programs
         /\ mpc \in {"top", "close", "open", "clear", "select", "blocked", "serve",
                     "fork", "dead"}
         /\ psv \in svent /\ reset \in Nat /\ hups \in 0..MaxHups /\ faults \in 0..Faults
         /\ ssock \in Clients \cup {NoClient} /\ (mpc = "fork" => ssock \in Clients)
         /\ readCfg \in BOOLEAN /\ sigchld \in BOOLEAN /\ missed \in BOOLEAN
         /\ holders \in [Socks -> SUBSET (Clients \cup {Master})]
         /\ backlog \in [Socks -> Seq(Clients)]
         /\ \A x \in Socks : Len(backlog[x]) <= QLEN + 1
         /\ conn \in [Clients -> {"new", "refused", "queued", "reset", "open", "closed"}]
         /\ slave \in [Clients -> {"none", "forked", "running", "zombie", "reaped"}]

\* Each reset answers a SIGHUP of its own: the name of the next socket exists.
HupsCover == /\ reset <= hups
             /\ readCfg /\ mpc \notin Resetting => reset < hups

\* Where a reset has got to is what afds and fd2sv say.
Progress ==
  /\ afds \subseteq svent /\ fd2sv \in [svent -> Nat]
  /\ mpc \notin {"close", "open", "dead"} =>
       afds = svent /\ \A s \in svent : fd2sv[s] = reset
  /\ mpc = "close" =>
       /\ \A s \in svent : (s \in afds <=> s >= psv) /\ fd2sv[s] + 1 = reset
  /\ mpc = "open" =>
       /\ \A s \in svent : s \in afds <=> s < psv
       /\ \A s \in svent : fd2sv[s] = IF s < psv THEN reset ELSE reset - 1
  /\ \A s \in svent : fd2sv[s] <= MaxHups

\* The master holds the sockets of afds and no others; a slave holds sockets only
\* until it has closed them.
MasterHolds ==
  mpc # "dead" => \A s \in svent, n \in 0..MaxHups :
                    Master \in holders[<<s, n>>] <=> s \in afds /\ n = fd2sv[s]
SlavesHold == \A x \in Socks : \A c \in Clients : c \in holders[x] => slave[c] = "forked"

\* What select has found ready stays ready: only the master accepts.
StillReady ==
  mpc \in {"serve", "fork"} => \A s \in rfds : s \in svent /\ backlog[Cur(s)] # <<>>
RfdsType == rfds \subseteq svent

Inv == /\ Types /\ HupsCover /\ Progress /\ MasterHolds /\ SlavesHold
       /\ StillReady /\ RfdsType

\* A set of services that is not empty has a first element.
LEMMA FirstReady ==
  ASSUME NEW S \in SUBSET svent, S # {}
  PROVE  \E s \in S : \A t \in S : s <= t
<1>1. S \subseteq Nat
  BY ConstantsAssumption DEF svent
<1>2. \E s \in S : \A t \in S : ~(<<t, s>> \in OpToRel(<, Nat))
  BY <1>1, NatLessThanWellFounded, WFMin
<1>3. \A s, t \in Nat : ~(<<t, s>> \in OpToRel(<, Nat)) => s <= t
  BY DEF OpToRel
<1> QED
  BY <1>1, <1>2, <1>3

\* What is closed is held by one process less; a socket nobody holds has lost its
\* backlog, and no other has.
LEMMA CloseEffect ==
  ASSUME Types, NEW p, NEW X, NEW C, Close(p, X, C)
  PROVE  /\ holders' \in [Socks -> SUBSET (Clients \cup {Master})]
         /\ \A x \in Socks : holders'[x] = IF x \in X THEN holders[x] \ {p} ELSE holders[x]
         /\ backlog' \in [Socks -> Seq(Clients)]
         /\ \A x \in Socks : \/ backlog'[x] = backlog[x]
                             \/ backlog'[x] = <<>> /\ holders'[x] = {}
         /\ \A x \in Socks : Len(backlog'[x]) <= QLEN + 1
         /\ conn' \in [Clients -> {"new", "refused", "queued", "reset", "open", "closed"}]
<1> DEFINE h == [x \in Socks |-> IF x \in X THEN holders[x] \ {p} ELSE holders[x]]
           gone == {x \in X : h[x] = {}}
<1>1. holders' = h /\ backlog' = [x \in Socks |-> IF x \in gone THEN <<>> ELSE backlog[x]]
  BY DEF Close
<1>2. conn' \in [Clients -> {"new", "refused", "queued", "reset", "open", "closed"}]
  <2>1. conn' = [c \in Clients |->
                   IF \E x \in gone : \E i \in DOMAIN backlog[x] : backlog[x][i] = c
                   THEN "reset" ELSE IF c \in C THEN "closed" ELSE conn[c]]
    BY DEF Close
  <2> HIDE DEF gone
  <2> QED
    BY <2>1 DEF Types
<1>3. \A x \in Socks : x \in gone => holders'[x] = {}
  BY <1>1
<1>4. \A x \in Socks : holders[x] \subseteq Clients \cup {Master} /\ backlog[x] \in Seq(Clients)
                       /\ Len(backlog[x]) <= QLEN + 1
  BY DEF Types
<1>5. <<>> \in Seq(Clients) /\ Len(<<>>) <= QLEN + 1
  BY ConstantsAssumption
<1>6. holders' \in [Socks -> SUBSET (Clients \cup {Master})]
      /\ \A x \in Socks : holders'[x] = IF x \in X THEN holders[x] \ {p} ELSE holders[x]
  BY <1>1, <1>4
<1> HIDE DEF h, gone
<1> QED
  BY <1>1, <1>2, <1>3, <1>4, <1>5, <1>6

\* The sockets, by service and by reset.
LEMMA SockPairs ==
  /\ \A s \in svent, n \in 0..MaxHups : <<s, n>> \in Socks
  /\ \A x \in Socks : \E s \in svent, n \in 0..MaxHups : x = <<s, n>>
  /\ \A s, t, m, n : <<s, m>> = <<t, n>> <=> s = t /\ m = n
  /\ svent \subseteq Nat /\ NSV \in svent /\ 1 \in svent
  BY ConstantsAssumption DEF Socks, svent

\* The initial state satisfies the invariant.
LEMMA InitInv == Init => Inv
<1> SUFFICES ASSUME Init PROVE Inv
  OBVIOUS
<1> USE ConstantsAssumption, MasterAssumption, SockPairs
<1>1. holders \in [Socks -> SUBSET (Clients \cup {Master})]
  BY DEF Init
<1>2. backlog \in [Socks -> Seq(Clients)] /\ \A x \in Socks : Len(backlog[x]) <= QLEN + 1
  BY DEF Init
<1>3. Types
  <2>1. reset \in Nat /\ hups \in 0..MaxHups /\ faults \in 0..Faults /\ psv \in svent
    BY DEF Init
  <2>2. /\ conn \in [Clients -> {"new", "refused", "queued", "reset", "open", "closed"}]
        /\ slave \in [Clients -> {"none", "forked", "running", "zombie", "reaped"}]
    BY DEF Init
  <2> QED
    BY <1>1, <1>2, <2>1, <2>2 DEF Init, Types
<1>4. HupsCover /\ Progress /\ StillReady /\ RfdsType
  BY DEF Init, HupsCover, Progress, StillReady, RfdsType
<1>5. MasterHolds /\ SlavesHold
  BY DEF Init, MasterHolds, SlavesHold
<1> QED
  BY <1>3, <1>4, <1>5 DEF Inv

\* The steps of the clients, and those of the slaves that close nothing.
LEMMA OthersStep ==
  ASSUME Inv, \/ reaper
              \/ \E c \in Clients : (\E s \in svent : connect(c, s)) \/ slave_ends(c)
  PROVE  Inv'
<1> USE SockPairs, ConstantsAssumption, MasterAssumption DEF Inv
<1>1. ASSUME NEW c \in Clients, NEW s \in svent, connect(c, s)
      PROVE  Inv'
  <2>1. /\ UNCHANGED <<mpc, psv, reset, afds, fd2sv, rfds, ssock, readCfg, program, missed,
                       holders, slave, sigchld, hups, faults>>
        /\ conn' \in [Clients -> {"new", "refused", "queued", "reset", "open", "closed"}]
    BY <1>1 DEF connect, server, Types
  <2>2. /\ backlog' \in [Socks -> Seq(Clients)]
        /\ \A x \in Socks : /\ Len(backlog'[x]) <= QLEN + 1
                            /\ backlog[x] # <<>> => backlog'[x] # <<>>
    <3>1. CASE UNCHANGED backlog
      BY <3>1 DEF Types
    <3>2. ASSUME NEW x \in Socks, Len(backlog[x]) <= QLEN,
                 backlog' = [backlog EXCEPT ![x] = Append(@, c)]
          PROVE  /\ backlog' \in [Socks -> Seq(Clients)]
                 /\ \A y \in Socks : /\ Len(backlog'[y]) <= QLEN + 1
                                     /\ backlog[y] # <<>> => backlog'[y] # <<>>
      <4>1. backlog[x] \in Seq(Clients)
        BY DEF Types
      <4>2. /\ Append(backlog[x], c) \in Seq(Clients)
            /\ Len(Append(backlog[x], c)) = Len(backlog[x]) + 1
        BY <4>1
      <4>3. Len(backlog[x]) \in Nat /\ Len(<<>>) = 0
        BY <4>1
      <4>4. Append(backlog[x], c) # <<>>
        BY <4>1, AppendProperties
      <4> QED
        BY <3>2, <4>2, <4>3, <4>4 DEF Types
    <3>3. \A x \in Listening(s) : x \in Socks
      BY DEF Listening
    <3> QED
      BY <1>1, <3>1, <3>2, <3>3 DEF connect
  <2>3. Types' /\ HupsCover' /\ Progress' /\ MasterHolds' /\ SlavesHold' /\ RfdsType'
    <3>1. Types' /\ HupsCover'
      BY <2>1, <2>2 DEF Types, HupsCover
    <3>2. Progress' /\ RfdsType'
      BY <2>1 DEF Progress, RfdsType
    <3>3. MasterHolds' /\ SlavesHold'
      BY <2>1 DEF MasterHolds, SlavesHold
    <3> QED
      BY <3>1, <3>2, <3>3
  <2>4. StillReady'
    <3>1. \A t \in svent : mpc \in {"serve", "fork"} => Cur(t) \in Socks
      BY DEF Progress, Cur
    <3> QED
      BY <2>1, <2>2, <3>1 DEF StillReady, Cur
  <2> QED
    BY <2>3, <2>4
<1>2. ASSUME NEW c \in Clients, slave_ends(c)
      PROVE  Inv'
  <2>1. /\ UNCHANGED <<mpc, psv, reset, afds, fd2sv, rfds, ssock, readCfg, program, missed,
                       holders, backlog, hups, faults>>
        /\ slave[c] = "running" /\ slave' = [slave EXCEPT ![c] = "zombie"]
        /\ conn' = [conn EXCEPT ![c] = "closed"] /\ sigchld' \in BOOLEAN
    BY <1>2 DEF slave_ends, server
  <2>2. Types' /\ SlavesHold'
    BY <2>1 DEF Types, SlavesHold
  <2>3. HupsCover' /\ Progress' /\ MasterHolds' /\ StillReady' /\ RfdsType'
    BY <2>1 DEF HupsCover, Progress, MasterHolds, StillReady, RfdsType, Cur
  <2> QED
    BY <2>2, <2>3
<1>3. CASE reaper
  <2>1. /\ UNCHANGED <<psv, reset, afds, fd2sv, rfds, ssock, readCfg, program, missed,
                       holders, backlog, conn, hups, faults>>
        /\ mpc # "dead" /\ sigchld' = FALSE
        /\ slave' = [c \in Clients |-> IF slave[c] = "zombie" THEN "reaped" ELSE slave[c]]
        /\ mpc' = IF mpc = "blocked" THEN "top" ELSE mpc
    BY <1>3 DEF reaper, Interrupt
  <2>2. Types' /\ SlavesHold'
    BY <2>1 DEF Types, SlavesHold
  <2>3. HupsCover' /\ Progress' /\ MasterHolds' /\ StillReady' /\ RfdsType'
    BY <2>1 DEF HupsCover, Progress, MasterHolds, StillReady, RfdsType, Cur, Resetting
  <2> QED
    BY <2>2, <2>3
<1> QED
  BY <1>1, <1>2, <1>3

\* A slave that closes the listening sockets: the master holds the current ones.
LEMMA ExecStep ==
  ASSUME Inv, NEW c \in Clients, slave_exec(c)
  PROVE  Inv'
<1> USE SockPairs, ConstantsAssumption, MasterAssumption DEF Inv
<1>1. /\ UNCHANGED <<mpc, psv, reset, afds, fd2sv, rfds, ssock, readCfg, program, missed,
                     sigchld, hups, faults>>
      /\ slave[c] = "forked" /\ slave' = [slave EXCEPT ![c] = "running"]
      /\ Close(c, Socks, {})
  BY DEF slave_exec, server
<1>2. /\ holders' \in [Socks -> SUBSET (Clients \cup {Master})]
      /\ \A x \in Socks : holders'[x] = holders[x] \ {c}
      /\ backlog' \in [Socks -> Seq(Clients)]
      /\ \A x \in Socks : \/ backlog'[x] = backlog[x]
                          \/ backlog'[x] = <<>> /\ holders'[x] = {}
      /\ \A x \in Socks : Len(backlog'[x]) <= QLEN + 1
      /\ conn' \in [Clients -> {"new", "refused", "queued", "reset", "open", "closed"}]
  BY <1>1, CloseEffect
<1>3. Types'
  BY <1>1, <1>2 DEF Types
<1>4. HupsCover' /\ Progress' /\ RfdsType'
  BY <1>1 DEF HupsCover, Progress, RfdsType
<1>5. MasterHolds'
  <2>1. \A x \in Socks : Master \in holders'[x] <=> Master \in holders[x]
    BY <1>2
  <2> QED
    BY <1>1, <2>1 DEF MasterHolds
<1>6. SlavesHold'
  BY <1>1, <1>2 DEF SlavesHold, Types
<1>7. StillReady'
  <2> SUFFICES ASSUME mpc \in {"serve", "fork"}, NEW s \in rfds
               PROVE  s \in svent /\ backlog'[Cur(s)] # <<>>
    BY <1>1 DEF StillReady, Cur
  <2>1. s \in svent /\ backlog[Cur(s)] # <<>> /\ s \in afds /\ fd2sv[s] \in 0..MaxHups
    <3>1. s \in svent /\ backlog[Cur(s)] # <<>>
      BY DEF StillReady
    <3>2. afds = svent /\ fd2sv[s] \in Nat /\ fd2sv[s] <= MaxHups
      BY <3>1 DEF Progress
    <3> QED
      BY <3>1, <3>2
  <2>2. Cur(s) \in Socks /\ Master \in holders[Cur(s)]
    BY <2>1 DEF MasterHolds, Cur
  <2> QED
    BY <1>2, <2>1, <2>2
<1> QED
  BY <1>3, <1>4, <1>5, <1>6, <1>7

\* The steps of the master that open, close and accept nothing.
LEMMA TurnStep ==
  ASSUME Inv, top \/ clear \/ select \/ served \/ cfgreader
  PROVE  Inv'
<1> USE SockPairs, ConstantsAssumption DEF Inv, Goto
<1>1. UNCHANGED <<program, afds, fd2sv, ssock, holders, backlog, conn, slave, sigchld, faults>>
  BY DEF top, clear, select, served, cfgreader, world
<1>2. SlavesHold'
  BY <1>1 DEF SlavesHold
<1>3. CASE top
  <2>1. /\ mpc = "top" /\ UNCHANGED <<rfds, readCfg, missed, hups>>
        /\ \/ readCfg /\ mpc' = "close" /\ reset' = reset + 1 /\ psv' = 1
           \/ ~readCfg /\ mpc' = "select" /\ UNCHANGED <<reset, psv>>
    BY <1>3 DEF top, world
  <2>2. HupsCover'
    BY <2>1 DEF HupsCover, Resetting, Types
  <2>3. Progress'
    <3>1. /\ afds = svent /\ fd2sv \in [svent -> Nat]
          /\ \A s \in svent : fd2sv[s] = reset /\ fd2sv[s] <= MaxHups
      BY <2>1 DEF Progress
    <3>2. \A s \in svent : s >= 1
      BY DEF svent
    <3>3. CASE readCfg
      BY <1>1, <2>1, <3>1, <3>2, <3>3 DEF Progress
    <3>4. CASE ~readCfg
      BY <1>1, <2>1, <3>1, <3>4 DEF Progress
    <3> QED
      BY <3>3, <3>4
  <2>4. Types' /\ MasterHolds' /\ StillReady' /\ RfdsType'
    BY <1>1, <2>1 DEF Types, MasterHolds, StillReady, RfdsType
  <2> QED
    BY <1>2, <2>2, <2>3, <2>4
<1>4. CASE clear
  <2>1. /\ mpc = "clear" /\ mpc' = "select" /\ readCfg' = FALSE
        /\ UNCHANGED <<psv, reset, rfds, missed, hups>>
    BY <1>4 DEF clear, world
  <2>2. Types'
    BY <1>1, <2>1 DEF Types
  <2>3. HupsCover'
    BY <2>1 DEF HupsCover
  <2>4. Progress' /\ RfdsType'
    BY <1>1, <2>1 DEF Progress, RfdsType
  <2>5. MasterHolds' /\ StillReady'
    BY <1>1, <2>1 DEF MasterHolds, StillReady
  <2> QED
    BY <1>2, <2>2, <2>3, <2>4, <2>5
<1>5. CASE select
  <2>1. /\ mpc \in {"select", "blocked"} /\ UNCHANGED <<psv, reset, readCfg, missed, hups>>
        /\ \/ mpc' = "blocked" /\ rfds' = rfds
           \/ mpc' = "serve" /\ rfds' = Ready
    BY <1>5 DEF select, world
  <2>2. Types' /\ HupsCover' /\ Progress' /\ MasterHolds' /\ RfdsType'
    <3>1. Types' /\ HupsCover'
      BY <1>1, <2>1 DEF Types, HupsCover, Resetting
    <3>2. Progress'
      BY <1>1, <2>1 DEF Progress
    <3>3. MasterHolds'
      BY <1>1, <2>1 DEF MasterHolds
    <3>4. RfdsType'
      BY <2>1 DEF RfdsType, Ready, Progress
    <3> QED
      BY <3>1, <3>2, <3>3, <3>4
  <2>3. StillReady'
    BY <1>1, <2>1 DEF StillReady, Progress, Ready, Cur
  <2> QED
    BY <1>2, <2>2, <2>3
<1>6. CASE served
  <2>1. mpc = "serve" /\ mpc' = "top" /\ UNCHANGED <<psv, reset, rfds, readCfg, missed, hups>>
    BY <1>6 DEF served, world
  <2> QED
    BY <1>1, <1>2, <2>1 DEF Types, HupsCover, Progress, MasterHolds, StillReady, RfdsType, Resetting
<1>7. CASE cfgreader
  <2>1. /\ mpc # "dead" /\ hups < MaxHups /\ hups' = hups + 1 /\ readCfg' = TRUE
        /\ UNCHANGED <<psv, reset, rfds>>
        /\ mpc' = IF mpc = "blocked" THEN "top" ELSE mpc
    BY <1>7 DEF cfgreader, Interrupt
  <2>2. missed' \in BOOLEAN
    BY <1>7 DEF cfgreader
  <2>3. Types' /\ HupsCover' /\ Progress' /\ MasterHolds' /\ RfdsType'
    BY <1>1, <2>1, <2>2 DEF Types, HupsCover, Progress, MasterHolds, RfdsType
  <2>4. StillReady'
    BY <1>1, <2>1 DEF StillReady, Cur
  <2> QED
    BY <1>2, <2>3, <2>4
<1> QED
  BY <1>3, <1>4, <1>5, <1>6, <1>7

\* One turn of the first loop of a reset: the master holds one socket less.
LEMMA ResetCloseStep ==
  ASSUME Inv, reset_close
  PROVE  Inv'
<1> USE SockPairs, ConstantsAssumption, MasterAssumption DEF Inv
<1>1. /\ mpc = "close" /\ afds' = afds \ {psv}
      /\ Close(Master, {Cur(psv)}, {})
      /\ psv' = IF psv = NSV THEN 1 ELSE psv + 1
      /\ mpc' = IF psv = NSV THEN "open" ELSE "close"
      /\ UNCHANGED <<reset, fd2sv, rfds, ssock, readCfg, program, missed, slave, sigchld, hups, faults>>
  BY DEF reset_close, Cur
<1>2. /\ holders' \in [Socks -> SUBSET (Clients \cup {Master})]
      /\ \A x \in Socks : holders'[x] = IF x = Cur(psv) THEN holders[x] \ {Master} ELSE holders[x]
      /\ backlog' \in [Socks -> Seq(Clients)]
      /\ \A x \in Socks : Len(backlog'[x]) <= QLEN + 1
      /\ conn' \in [Clients -> {"new", "refused", "queued", "reset", "open", "closed"}]
  <2> DEFINE X == {Cur(psv)}
  <2>1. \A x : x \in X <=> x = Cur(psv)
    OBVIOUS
  <2>2. Close(Master, X, {})
    BY <1>1
  <2> HIDE DEF X
  <2>3. \A x \in Socks : holders'[x] = IF x \in X THEN holders[x] \ {Master} ELSE holders[x]
    BY <2>2, CloseEffect
  <2> QED
    BY <2>1, <2>2, <2>3, CloseEffect
<1>3. psv \in svent /\ psv' \in svent
  BY <1>1 DEF Types, svent
<1>4. Types' /\ HupsCover' /\ RfdsType' /\ StillReady'
  BY <1>1, <1>2, <1>3 DEF Types, HupsCover, RfdsType, StillReady, Resetting
<1>5. Progress'
  <2>1. /\ \A s \in svent : (s \in afds <=> s >= psv) /\ fd2sv[s] + 1 = reset
        /\ fd2sv \in [svent -> Nat] /\ \A s \in svent : fd2sv[s] <= MaxHups
        /\ afds' \subseteq svent
    BY <1>1 DEF Progress
  <2>2. CASE psv = NSV
    <3>1. \A s \in svent : s \notin afds' /\ s >= 1
      BY <1>1, <2>1, <2>2 DEF svent
    <3> QED
      BY <1>1, <2>1, <2>2, <3>1 DEF Progress, Types
  <2>3. CASE psv # NSV
    <3>1. \A s \in svent : s \in afds' <=> s >= psv + 1
      BY <1>1, <1>3, <2>1
    <3> QED
      BY <1>1, <2>1, <2>3, <3>1 DEF Progress
  <2> QED
    BY <2>2, <2>3
<1>6. MasterHolds'
  <2> SUFFICES ASSUME NEW s \in svent, NEW n \in 0..MaxHups
               PROVE  Master \in holders'[<<s, n>>] <=> s \in afds' /\ n = fd2sv[s]
    BY <1>1 DEF MasterHolds
  <2>1. Master \in holders[<<s, n>>] <=> s \in afds /\ n = fd2sv[s]
    BY <1>1 DEF MasterHolds
  <2>2. <<s, n>> \in Socks /\ (<<s, n>> = Cur(psv) <=> s = psv /\ n = fd2sv[psv])
    BY DEF Cur
  <2>3. s \in afds' <=> s \in afds /\ s # psv
    BY <1>1
  <2>4. Master \in holders'[<<s, n>>] <=> Master \in holders[<<s, n>>] /\ <<s, n>> # Cur(psv)
    <3>1. holders'[<<s, n>>] =
            IF <<s, n>> = Cur(psv) THEN holders[<<s, n>>] \ {Master} ELSE holders[<<s, n>>]
      BY <1>2, <2>2
    <3> QED
      BY <3>1
  <2> QED
    BY <2>1, <2>2, <2>3, <2>4
<1>7. SlavesHold'
  <2> SUFFICES ASSUME NEW x \in Socks, NEW c \in Clients, c \in holders'[x]
               PROVE  slave[c] = "forked"
    BY <1>1 DEF SlavesHold
  <2>1. c \in holders[x]
    <3>1. holders'[x] = IF x = Cur(psv) THEN holders[x] \ {Master} ELSE holders[x]
      BY <1>2
    <3> QED
      BY <3>1
  <2> QED
    BY <2>1 DEF SlavesHold
<1> QED
  BY <1>4, <1>5, <1>6, <1>7

\* One turn of the second loop: the new socket is the one fd2sv gives.
LEMMA ResetOpenStep ==
  ASSUME Inv, reset_open
  PROVE  Inv'
<1> USE SockPairs, ConstantsAssumption, MasterAssumption DEF Inv
<1>1. /\ mpc = "open" /\ afds' = afds \cup {psv} /\ fd2sv' = [fd2sv EXCEPT ![psv] = reset]
      /\ holders' = [holders EXCEPT ![<<psv, reset>>] = {Master}]
      /\ psv' = IF psv = NSV THEN 1 ELSE psv + 1
      /\ mpc' = IF psv = NSV THEN "clear" ELSE "open"
      /\ UNCHANGED <<reset, rfds, ssock, readCfg, program, missed, backlog, conn, slave,
                     sigchld, hups, faults>>
  BY DEF reset_open
<1>2. psv \in svent /\ psv' \in svent /\ reset \in 0..MaxHups
  BY <1>1 DEF Types, svent, HupsCover
<1>3. <<psv, reset>> \in Socks
  BY <1>2
<1>4. holders' \in [Socks -> SUBSET (Clients \cup {Master})]
      /\ \A x \in Socks : holders'[x] = IF x = <<psv, reset>> THEN {Master} ELSE holders[x]
  BY <1>1, <1>3 DEF Types
<1>5. Types' /\ HupsCover' /\ RfdsType' /\ StillReady'
  BY <1>1, <1>2, <1>4 DEF Types, HupsCover, RfdsType, StillReady, Resetting
<1>6. /\ \A s \in svent : s \in afds <=> s < psv
      /\ \A s \in svent : fd2sv[s] = IF s < psv THEN reset ELSE reset - 1
      /\ fd2sv \in [svent -> Nat] /\ \A s \in svent : fd2sv[s] <= MaxHups
      /\ afds' \subseteq svent
  BY <1>1, <1>2 DEF Progress
<1>7. \A s \in svent : /\ s \in afds' <=> s <= psv
                      /\ fd2sv'[s] = IF s <= psv THEN reset ELSE reset - 1
  BY <1>1, <1>2, <1>6
<1>8. Progress'
  <2>0. fd2sv' \in [svent -> Nat] /\ \A s \in svent : fd2sv'[s] <= MaxHups
    BY <1>1, <1>2, <1>6
  <2>1. CASE psv = NSV
    <3>1. afds' = svent /\ \A s \in svent : fd2sv'[s] = reset
      <4>1. \A s \in svent : s <= psv
        BY <2>1 DEF svent
      <4> QED
        <5>1. \A s \in svent : s \in afds' /\ fd2sv'[s] = reset
          BY <1>7, <4>1
        <5> QED
          BY <1>6, <5>1
    <3> QED
      BY <1>1, <1>6, <2>0, <2>1, <3>1 DEF Progress
  <2>2. CASE psv # NSV
    <3>1. \A s \in svent : s <= psv <=> s < psv + 1
      BY <1>2
    <3> QED
      BY <1>1, <1>6, <1>7, <2>0, <2>2, <3>1 DEF Progress
  <2> QED
    BY <2>1, <2>2
<1>9. MasterHolds'
  <2> SUFFICES ASSUME NEW s \in svent, NEW n \in 0..MaxHups
               PROVE  Master \in holders'[<<s, n>>] <=> s \in afds' /\ n = fd2sv'[s]
    BY DEF MasterHolds
  <2>1. Master \in holders[<<s, n>>] <=> s \in afds /\ n = fd2sv[s]
    BY <1>1 DEF MasterHolds
  <2>2. CASE s = psv
    <3>1. psv \notin afds /\ psv \in afds' /\ fd2sv'[psv] = reset
      BY <1>2, <1>6, <1>7
    <3>2. n = reset <=> <<s, n>> = <<psv, reset>>
      BY <2>2
    <3>3. CASE n = reset
      BY <1>4, <2>2, <3>1, <3>2, <3>3
    <3>4. CASE n # reset
      BY <1>4, <2>1, <2>2, <3>1, <3>2, <3>4
    <3> QED
      BY <3>3, <3>4
  <2>3. CASE s # psv
    BY <1>1, <1>4, <2>1, <2>3
  <2> QED
    BY <2>2, <2>3
<1>10. SlavesHold'
  BY <1>1, <1>4 DEF SlavesHold
<1> QED
  BY <1>5, <1>8, <1>9, <1>10

\* A counter within its bound may stay, and move by one if that leaves it within.
LEMMA SameOrNext ==
  /\ \A h \in 0..MaxHups : h \in h..MaxHups /\ (h < MaxHups => h + 1 \in h..MaxHups /\ h + 1 > h)
  /\ \A f \in 0..Faults : f > 0 => f - 1 \in 0..Faults
  BY ConstantsAssumption

\* The end of the master: what it held is closed, and nothing is promised but that
\* the slaves keep what they have.
LEMMA DeadStep ==
  ASSUME Inv, NEW C, mpc' = "dead", Close(Master, Socks, C), hups' \in hups..MaxHups,
         faults' \in 0..Faults, rfds' \subseteq svent,
         UNCHANGED <<psv, reset, afds, fd2sv, ssock, readCfg, program, missed, slave, sigchld>>,
         mpc \in Resetting => hups' > hups
  PROVE  Inv'
<1> USE ConstantsAssumption, MasterAssumption DEF Inv
<1>1. /\ holders' \in [Socks -> SUBSET (Clients \cup {Master})]
      /\ \A x \in Socks : holders'[x] = holders[x] \ {Master}
      /\ backlog' \in [Socks -> Seq(Clients)]
      /\ \A x \in Socks : Len(backlog'[x]) <= QLEN + 1
      /\ conn' \in [Clients -> {"new", "refused", "queued", "reset", "open", "closed"}]
  BY CloseEffect
<1>2. hups' \in 0..MaxHups
  BY DEF Types
<1>3. Types'
  BY <1>1, <1>2 DEF Types
<1>4. HupsCover'
  BY DEF HupsCover, Resetting, Types
<1>5. Progress' /\ MasterHolds' /\ StillReady' /\ RfdsType'
  BY DEF Progress, MasterHolds, StillReady, RfdsType
<1>6. SlavesHold'
  BY <1>1 DEF SlavesHold
<1> QED
  BY <1>3, <1>4, <1>5, <1>6

\* accept, and a datagram answered: one connection leaves one backlog, and the
\* service is not served again before the next select.
LEMMA ServeStep ==
  ASSUME Inv, accept \/ UDPtimed
  PROVE  Inv'
<1> USE SockPairs, ConstantsAssumption, MasterAssumption DEF Inv
<1> DEFINE s == CHOOSE t \in rfds : \A u \in rfds : t <= u
           x == <<s, fd2sv[s]>>
<1>1. mpc = "serve" /\ rfds # {} /\ rfds' = rfds \ {s} /\ backlog[x] # <<>>
  BY DEF accept, UDPtimed
<1>2. s \in rfds
  <2>1. \E t \in rfds : \A u \in rfds : t <= u
    BY <1>1, FirstReady DEF RfdsType
  <2> QED
    BY <2>1
<1> HIDE DEF s
<1>3. s \in svent /\ x \in Socks /\ \A t \in svent : fd2sv[t] = reset
  <2>1. s \in svent
    BY <1>2 DEF RfdsType
  <2>2. fd2sv \in [svent -> Nat] /\ (\A t \in svent : fd2sv[t] = reset)
        /\ (\A t \in svent : fd2sv[t] <= MaxHups)
    BY <1>1 DEF Progress
  <2>3. fd2sv[s] \in 0..MaxHups
    BY <2>1, <2>2
  <2> QED
    BY <2>1, <2>2, <2>3
<1>4. backlog[x] \in Seq(Clients) /\ Len(backlog[x]) <= QLEN + 1
  BY <1>3 DEF Types
<1>5. /\ Head(backlog[x]) \in Clients /\ Tail(backlog[x]) \in Seq(Clients)
      /\ Len(Tail(backlog[x])) <= QLEN + 1
  <2>1. Len(backlog[x]) \in Nat /\ Len(Tail(backlog[x])) = Len(backlog[x]) - 1
    BY <1>1, <1>4, HeadTailProperties, LenProperties
  <2> QED
    BY <1>1, <1>4, <2>1, HeadTailProperties
<1>6. ASSUME backlog' = [backlog EXCEPT ![x] = Tail(@)],
             conn' \in [Clients -> {"new", "refused", "queued", "reset", "open", "closed"}],
             \/ mpc' = "serve" /\ ssock' = ssock
             \/ mpc' = "fork" /\ ssock' \in Clients,
             UNCHANGED <<psv, reset, afds, fd2sv, readCfg, program, missed, holders, slave,
                         sigchld, hups, faults>>
      PROVE  Inv'
  <2>1. /\ backlog' \in [Socks -> Seq(Clients)]
        /\ \A y \in Socks : Len(backlog'[y]) <= QLEN + 1 /\ (y # x => backlog'[y] = backlog[y])
    <3>1. \A y \in Socks : backlog'[y] = IF y = x THEN Tail(backlog[x]) ELSE backlog[y]
      BY <1>3, <1>6 DEF Types
    <3>2. backlog' \in [Socks -> Seq(Clients)]
      BY <1>3, <1>5, <1>6 DEF Types
    <3>3. \A y \in Socks : Len(backlog[y]) <= QLEN + 1
      BY DEF Types
    <3> QED
      BY <1>5, <3>1, <3>2, <3>3
  <2>2. Types'
    <3>1. /\ mpc' \in {"top", "close", "open", "clear", "select", "blocked", "serve",
                       "fork", "dead"}
          /\ ssock' \in Clients \cup {NoClient} /\ (mpc' = "fork" => ssock' \in Clients)
      BY <1>6 DEF Types
    <3> QED
      BY <1>6, <2>1, <3>1 DEF Types
  <2>3. HupsCover' /\ Progress' /\ MasterHolds' /\ SlavesHold' /\ RfdsType'
    BY <1>1, <1>6 DEF HupsCover, Progress, MasterHolds, SlavesHold, RfdsType, Resetting
  <2>4. StillReady'
    <3> SUFFICES ASSUME NEW t \in rfds, t # s
                 PROVE  t \in svent /\ backlog'[Cur(t)] # <<>>
      BY <1>1, <1>6 DEF StillReady, Cur
    <3>1. t \in svent /\ backlog[Cur(t)] # <<>> /\ Cur(t) \in Socks /\ Cur(t) # x
      <4>1. t \in svent /\ backlog[Cur(t)] # <<>>
        BY <1>1 DEF StillReady
      <4>2. fd2sv[t] \in 0..MaxHups
        BY <4>1 DEF Progress
      <4> QED
        BY <4>1, <4>2 DEF Cur
    <3> QED
      BY <2>1, <3>1
  <2> QED
    BY <2>2, <2>3, <2>4
<1>7. CASE accept
  <2>1. conn' = [conn EXCEPT ![Head(backlog[x])] = "open"] /\ mpc' = "fork"
        /\ ssock' = Head(backlog[x]) /\ backlog' = [backlog EXCEPT ![x] = Tail(@)]
        /\ UNCHANGED <<psv, reset, afds, fd2sv, readCfg, program, missed, holders, slave,
                       sigchld, hups, faults>>
    BY <1>7 DEF accept, s
  <2> QED
    BY <1>5, <1>6, <2>1 DEF Types
<1>8. CASE UDPtimed
  <2>1. UNCHANGED <<psv, reset, afds, fd2sv, ssock, readCfg, program, missed, slave, sigchld, hups>>
    BY <1>8 DEF UDPtimed
  <2>2. CASE /\ backlog' = [backlog EXCEPT ![x] = Tail(@)]
             /\ conn' = [conn EXCEPT ![Head(backlog[x])] = "closed"]
             /\ UNCHANGED <<mpc, holders, faults>>
    BY <1>1, <1>5, <1>6, <2>1, <2>2 DEF Types
  <2>3. CASE /\ faults > 0 /\ faults' = faults - 1 /\ mpc' = "dead"
             /\ Close(Master, Socks, {})
    <3>1. hups' \in hups..MaxHups /\ faults' \in 0..Faults /\ rfds' \subseteq svent
      BY <1>1, <2>1, <2>3, SameOrNext DEF Types, RfdsType
    <3> QED
      BY <1>1, <2>1, <2>3, <3>1, DeadStep DEF Resetting
  <2> QED
    BY <1>8, <2>2, <2>3 DEF UDPtimed, s
<1> QED
  BY <1>7, <1>8

\* fork: the slave has a copy of every socket the master holds.
LEMMA ForkStep ==
  ASSUME Inv, fork
  PROVE  Inv'
<1> USE SockPairs, ConstantsAssumption, MasterAssumption DEF Inv, Goto
<1>1. /\ mpc = "fork" /\ mpc' = "serve" /\ ssock \in Clients
      /\ slave' = [slave EXCEPT ![ssock] = "forked"]
      /\ UNCHANGED <<psv, reset, afds, fd2sv, rfds, ssock, readCfg, program, missed, backlog,
                     conn, sigchld, hups, faults>>
  BY DEF fork, Types
<1>2. holders' = [x \in Socks |-> IF Master \in holders[x]
                                 THEN holders[x] \cup {ssock} ELSE holders[x]]
  BY DEF fork
<1>3. holders' \in [Socks -> SUBSET (Clients \cup {Master})]
      /\ \A y \in Socks : /\ Master \in holders'[y] <=> Master \in holders[y]
                          /\ \A c \in Clients : c \in holders'[y] => c \in holders[y] \/ c = ssock
  BY <1>1, <1>2 DEF Types
<1>4. Types'
  BY <1>1, <1>3 DEF Types
<1>5. HupsCover' /\ Progress' /\ StillReady' /\ RfdsType'
  BY <1>1 DEF HupsCover, Progress, StillReady, RfdsType, Cur, Resetting
<1>6. MasterHolds'
  BY <1>1, <1>3 DEF MasterHolds
<1>7. SlavesHold'
  BY <1>1, <1>3 DEF SlavesHold, Types
<1> QED
  BY <1>4, <1>5, <1>6, <1>7

\* A fork that fails and a SIGHUP that is not handled end the master.
LEMMA EndStep ==
  ASSUME Inv, fork_fails \/ hangup
  PROVE  Inv'
<1> USE DEF Inv, Goto
<1>1. CASE fork_fails
  <2>1. hups' \in hups..MaxHups /\ faults' \in 0..Faults /\ rfds' \subseteq svent
    BY <1>1, SameOrNext DEF fork_fails, Types, RfdsType
  <2> QED
    BY <1>1, <2>1, DeadStep DEF fork_fails, Resetting
<1>2. CASE hangup
  <2>1. hups' \in hups..MaxHups /\ hups' > hups /\ faults' \in 0..Faults /\ rfds' \subseteq svent
    BY <1>2, SameOrNext DEF hangup, Types, RfdsType
  <2> QED
    BY <1>2, <2>1, DeadStep DEF hangup
<1> QED
  BY <1>1, <1>2

\* Every step preserves the invariant.
LEMMA NextInv == Inv /\ [Next]_vars => Inv'
<1> SUFFICES ASSUME Inv, [Next]_vars PROVE Inv'
  OBVIOUS
<1>1. CASE MasterStep
  BY <1>1, TurnStep, ResetCloseStep, ResetOpenStep, ServeStep, ForkStep DEF MasterStep
<1>2. CASE fork_fails \/ hangup
  BY <1>2, EndStep
<1>3. CASE cfgreader
  BY <1>3, TurnStep
<1>4. CASE reaper
  BY <1>4, OthersStep
<1>5. ASSUME NEW c \in Clients,
             (\E s \in svent : connect(c, s)) \/ slave_exec(c) \/ slave_ends(c)
      PROVE  Inv'
  BY <1>5, OthersStep, ExecStep
<1>6. CASE UNCHANGED vars
  BY <1>6 DEF vars, Inv, Types, HupsCover, Progress, MasterHolds, SlavesHold, StillReady,
              RfdsType, Cur
<1> QED
  BY <1>1, <1>2, <1>3, <1>4, <1>5, <1>6 DEF Next

\* The master never blocks in accept and never follows a stale entry of its map, and
\* outside a reset exactly one socket listens for each service.
THEOREM ListensExactly == Spec => []ListenInv
<1>1. Inv => ListenInv
  <2> SUFFICES ASSUME Inv PROVE ListenInv
    OBVIOUS
  <2> USE SockPairs, ConstantsAssumption, MasterAssumption DEF Inv
  <2>1. TypeOK
    <3>1. reset \in 0..MaxHups /\ fd2sv \in [svent -> 0..MaxHups]
      BY DEF Types, HupsCover, Progress
    <3>2. \A x \in Socks : /\ holders[x] \subseteq Clients \cup {Master}
                          /\ backlog[x] \in Seq(Clients) /\ Len(backlog[x]) <= QLEN + 1
      BY DEF Types
    <3> QED
      BY <3>1, <3>2 DEF TypeOK, Types, Progress, RfdsType
  <2>2. AcceptReady
    <3> SUFFICES ASSUME mpc = "serve", NEW s \in rfds
                 PROVE  s \in afds /\ Master \in holders[Cur(s)] /\ backlog[Cur(s)] # <<>>
      BY DEF AcceptReady, Cur
    <3>1. s \in svent /\ backlog[Cur(s)] # <<>>
      BY DEF StillReady
    <3>2. s \in afds /\ fd2sv[s] \in 0..MaxHups
      BY <3>1 DEF Progress
    <3>3. Master \in holders[<<s, fd2sv[s]>>]
      BY <3>1, <3>2 DEF MasterHolds
    <3> QED
      BY <3>1, <3>2, <3>3 DEF Cur
  <2>3. OneListener
    <3> SUFFICES ASSUME mpc \notin {"close", "open", "dead"},
                        \A c \in Clients : slave[c] # "forked",
                        NEW s \in svent
                 PROVE  Listening(s) = {Cur(s)} /\ holders[Cur(s)] = {Master}
      BY DEF OneListener, Cur
    <3>1. s \in afds /\ fd2sv[s] \in 0..MaxHups /\ Cur(s) \in Socks
      BY DEF Progress, Cur
    <3>2. \A x \in Socks : holders[x] \subseteq {Master}
      BY DEF Types, SlavesHold
    <3>3. \A n \in 0..MaxHups : Master \in holders[<<s, n>>] <=> n = fd2sv[s]
      BY <3>1 DEF MasterHolds
    <3>4. holders[Cur(s)] = {Master}
      BY <3>1, <3>2, <3>3 DEF Cur
    <3>5. \A n \in 0..MaxHups : holders[<<s, n>>] # {} <=> n = fd2sv[s]
      BY <3>2, <3>3, <3>4 DEF Cur
    <3>6. \A y \in Listening(s) : \E n \in 0..MaxHups : y = <<s, n>> /\ holders[y] # {}
      BY DEF Listening, Socks
    <3>7. Cur(s) \in Listening(s)
      BY <3>1, <3>4 DEF Listening, Cur
    <3> QED
      BY <3>4, <3>5, <3>6, <3>7 DEF Cur
  <2> QED
    BY <2>1, <2>2, <2>3 DEF ListenInv
<1> QED
  BY <1>1, InitInv, NextInv, PTL DEF Spec
=============================================================================
