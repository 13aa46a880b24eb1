--------------------------- MODULE UdpShm2Proofs ---------------------------
(***************************************************************************)
(* Proofs about UdpShm2, for any number of slaves, any limit and any       *)
(* number of requests: the server never answers more requests than its     *)
(* shutdown limit, and goes down in order.  At the end, proofs about       *)
(* UdpShm, the server without a limit, with an invariant of its own,       *)
(* CountInv.  What is proved of the shared memory object in GlbShmProofs   *)
(* is used here for the processes of both.                                 *)
(***************************************************************************)
EXTENDS UdpShm2, FiniteSetTheorems, TLAPS

Obj == INSTANCE GlbShmProofs WITH Callers <- Procs, Args <- {},
                                  Failures <- TRUE, Window <- MaxRequests

\* The processes that hold the number of a request they may still answer: the
\* number was taken from the counter, and is within the limit.
Ticketed(p) == \/ pc[p] = "limit" /\ gpc[p] \in {"stored", "idle"}
               \/ pc[p] = "sendto"
Holders == {p \in Procs : Ticketed(p) /\ data[p] <= Limit}

\* Each request within the limit has a number of its own: the answers and the
\* numbers still held are no more than were drawn, and than the limit.
Numbered == /\ replies + Cardinality(Holders) <= shmdata
            /\ replies + Cardinality(Holders) <= Limit

\* Calls of the object are made at one place only, and only increments; an
\* answer is sent with a number within the limit.
CallsMatch ==
  \A p \in Procs :
    /\ gpc[p] \notin {"idle", "exited", "died"} => pc[p] = "limit"
    /\ gpc[p] \notin {"idle", "exited", "died"} => op[p].kind = "inc"
    /\ pc[p] \in {"unborn", "fork", "update_glb_data", "sendto", "recvfrom"}
         => gpc[p] = "idle"
    /\ pc[p] = "sendto" => data[p] <= Limit

\* The root forks its slaves in order.
Forking == /\ l \in Int
           /\ pc[Root] = "fork" =>
                 /\ l \in 0..(NCRTLVL - 1) /\ term = {}
                 /\ \A k \in Kids : k > l => pc[k] = "unborn"

PcType == pc \in [Procs -> {"unborn", "fork", "dead", "recvfrom", "limit", "sendto",
                            "update_glb_data", "kill_kids", "kill_self"}]

Inv == /\ Obj!IInv /\ PcType /\ replies \in Nat
       /\ Forking /\ CallsMatch /\ Numbered

\* Every process that has a datagram in its hands took it from the queue.
InHand   == {p \in Procs : pc[p] \in {"update_glb_data", "limit", "sendto"}}
Accounts == queue + replies + Cardinality(InHand) <= sent

\* The other variables; a SIGTERM is on its way to living slaves only.
VarTypes == /\ l \in 0..NCRTLVL /\ (pc[Root] = "kill_kids" => l < NCRTLVL)
            /\ term \subseteq {p \in Kids : ~Gone(p)} /\ sigchld \in BOOLEAN
            /\ sent \in 0..MaxRequests /\ queue \in Nat

\* From the moment the root has seen the limit nobody is spared, and nobody dies in
\* the critical section before that.
AllDoomed == \A p \in Procs : Doomed(p)
Shutdown  == /\ pc[Root] \in {"kill_kids", "kill_self"} => AllDoomed
             /\ term # {} => AllDoomed
             /\ (\E p \in Procs : gpc[p] = "died") => AllDoomed
             /\ \A p \in Procs : op[p].fits

DownInv == Inv /\ VarTypes /\ Accounts /\ Shutdown

\* The processes are finitely many.
LEMMA ProcsFinite == IsFiniteSet(Procs) /\ Obj!IsFiniteSet(Procs)
<1>1. IsFiniteSet(Kids)
  BY LevelAssumption, FS_Interval DEF Kids
<1>2. IsFiniteSet(Procs)
  BY <1>1, FS_AddElement DEF Procs
<1> QED
  BY <1>2 DEF IsFiniteSet, Obj!IsFiniteSet

\* A set of holders is finite, and its cardinality is a number.
LEMMA HoldersFinite == IsFiniteSet(Holders) /\ Cardinality(Holders) \in Nat
  BY ProcsFinite, FS_Subset, FS_CardinalityType DEF Holders

\* The object's invariant is preserved by what this server does to the object.
LEMMA ObjectPreserved ==
  ASSUME Obj!IInv, NEW p \in Procs, Obj!Operation(p)
  PROVE  Obj!IInv'
  BY Obj!OperationIInv, ProcsFinite, RequestsAssumption

\* A step that draws no number and answers nothing leaves Numbered true.
LEMMA NoNewHolder ==
  ASSUME Numbered, replies \in Nat, shmdata \in Int,
         Holders' \subseteq Holders, UNCHANGED <<shmdata, replies>>
  PROVE  Numbered'
<1>1. Cardinality(Holders') <= Cardinality(Holders) /\ Cardinality(Holders') \in Nat
  BY HoldersFinite, FS_Subset, FS_CardinalityType
<1> QED
  BY <1>1, HoldersFinite, LimitAssumption DEF Numbered

\* The initial state satisfies the invariant.
LEMMA InitInv == Init => Inv
<1> SUFFICES ASSUME Init PROVE Inv
  OBVIOUS
<1>1. Obj!Init
  BY DEF Init, Shm!Init, Obj!Init
<1>2. Obj!IInv
  BY <1>1, Obj!InitIInv, ProcsFinite, RequestsAssumption
<1>3. Holders = {} /\ Cardinality(Holders) = 0
  BY FS_EmptySet DEF Init, Holders, Ticketed, Procs
<1>4. Numbered
  BY <1>3, LimitAssumption DEF Init, Shm!Init, Numbered
<1>5. PcType /\ CallsMatch
  BY DEF Init, Shm!Init, PcType, CallsMatch
<1>6. Forking
  BY LevelAssumption DEF Init, Forking, Procs, Kids, Root
<1> QED
  BY <1>2, <1>4, <1>5, <1>6 DEF Init, Inv

\* The server's calls and steps are operations of the object.
LEMMA OperationsMatch ==
  ASSUME NEW p \in Procs, data \in [Procs -> Int],
         \/ Shm!Call(p, "inc", data[p], TRUE) \/ Shm!Step(p)
         \/ Shm!killed(p) \/ Shm!sem_wait_fails(p)
  PROVE  Obj!Operation(p)
<1>1. CASE Shm!Call(p, "inc", data[p], TRUE)
  <2>1. Obj!Call(p, "inc", data[p], TRUE)
    BY <1>1 DEF Shm!Call, Obj!Call
  <2>2. data[p] \in Int /\ "inc" \in Obj!Kinds
    BY DEF Obj!Kinds
  <2> QED
    BY <2>1, <2>2 DEF Obj!Operation
<1>2. CASE Shm!Step(p)
  BY <1>2 DEF Obj!Operation, Shm!Step, Obj!Step,
       Shm!sem_wait, Obj!sem_wait, Shm!length_error, Obj!length_error,
       Shm!read_copy, Obj!read_copy, Shm!write_copy, Obj!write_copy,
       Shm!update_load, Obj!update_load, Shm!update_store, Obj!update_store,
       Shm!sem_signal, Obj!sem_signal, Shm!Removed, Obj!Removed
<1>3. CASE Shm!killed(p)
  BY <1>3 DEF Obj!Operation, Shm!killed, Obj!killed, Shm!Section, Obj!Section
<1>4. CASE Shm!sem_wait_fails(p)
  BY <1>4 DEF Obj!Operation, Shm!sem_wait_fails, Obj!sem_wait_fails
<1> QED
  BY <1>1, <1>2, <1>3, <1>4

\* What the invariant says of the object's variables.
LEMMA ObjectTypes ==
  ASSUME Obj!IInv
  PROVE  /\ data \in [Procs -> Int] /\ shmdata \in Int
         /\ gpc \in [Procs -> {"held", "loaded", "stored", "idle", "wait", "exited", "died"}]
         /\ op \in [Procs -> [kind : {"read", "write", "inc", "dec"}, fits : BOOLEAN]]
         /\ \A p \in Procs : gpc[p] = "loaded" => data[p] = shmdata
  BY DEF Obj!IInv, Obj!TypeOK, Obj!LoadedIsCurrent, Obj!Section, Obj!Kinds

\* The steps inside the object.  The store draws a number; no other step does.
LEMMA ObjectStep ==
  ASSUME Inv, NEW p \in Procs, object_step(p)
  PROVE  Inv'
<1> USE ObjectTypes DEF Inv, PcType, object_step
<1>1. Obj!IInv' /\ Obj!Operation(p)
  BY OperationsMatch, ObjectPreserved
<1>2. PcType' /\ replies' \in Nat /\ Forking'
  BY DEF Forking
<1>3. CASE Shm!update_store(p)
  <2>1. /\ pc[p] = "limit" /\ op[p].kind = "inc" /\ data[p] = shmdata
        /\ gpc[p] = "loaded"
    BY <1>3 DEF Shm!update_store, CallsMatch
  <2>2. /\ gpc' = [gpc EXCEPT ![p] = "stored"] /\ op' = op
        /\ shmdata' = shmdata + 1 /\ data' = [data EXCEPT ![p] = shmdata + 1]
    BY <1>3, <2>1 DEF Shm!update_store
  <2>3. CallsMatch'
    BY <2>1, <2>2 DEF CallsMatch
  <2>4. CASE shmdata + 1 <= Limit
    <3>1. p \notin Holders /\ Holders' = Holders \cup {p}
      BY <2>1, <2>2, <2>4 DEF Holders, Ticketed
    <3>2. Cardinality(Holders') = Cardinality(Holders) + 1
      BY <3>1, HoldersFinite, FS_AddElement
    <3> QED
      BY <1>1, <1>2, <2>2, <2>3, <2>4, <3>2, HoldersFinite, LimitAssumption
         DEF Numbered
  <2>5. CASE ~(shmdata + 1 <= Limit)
    <3>1. Holders' = Holders
      BY <2>1, <2>2, <2>5, LimitAssumption DEF Holders, Ticketed
    <3> QED
      BY <1>1, <1>2, <2>2, <2>3, <3>1, HoldersFinite, LimitAssumption
         DEF Numbered
  <2> QED
    BY <2>4, <2>5
<1>4. CASE ~Shm!update_store(p)
  <2>1. gpc[p] \notin {"idle", "exited", "died"}
    BY DEF Shm!Step, Shm!sem_wait, Shm!length_error, Shm!read_copy, Shm!update_load,
           Shm!write_copy, Shm!update_store, Shm!sem_signal
  <2>2. pc[p] = "limit" /\ op[p].kind = "inc"
    BY <2>1 DEF CallsMatch
  <2>3. /\ shmdata' = shmdata /\ op' = op
        /\ \E g \in {"held", "loaded", "died", "idle", "exited"} :
              /\ gpc' = [gpc EXCEPT ![p] = g]
              /\ g = "idle" => gpc[p] = "stored"
        /\ \A q \in Procs : q # p \/ gpc[p] = "stored" => data'[q] = data[q]
    BY <1>4, <2>2 DEF Shm!Step, Shm!sem_wait, Shm!length_error, Shm!read_copy,
           Shm!update_load, Shm!write_copy, Shm!update_store, Shm!sem_signal
  <2>4. CallsMatch'
    BY <2>2, <2>3 DEF CallsMatch
  <2>5. Holders' \subseteq Holders
    BY <2>2, <2>3 DEF Holders, Ticketed
  <2> QED
    BY <1>1, <1>2, <2>3, <2>4, <2>5, NoNewHolder
<1> QED
  BY <1>3, <1>4

\* Inv speaks of these variables only.
LEMMA Unchanged ==
  ASSUME Inv, UNCHANGED <<sem, shmdata, gpc, op, data, pc, replies, l, term>>
  PROVE  Inv'
  BY DEF Inv, Obj!IInv, Obj!TypeOK, Obj!OneInside, Obj!TakenIffInside, Obj!Inside,
         Obj!LoadedIsCurrent, Obj!OnlyUpdatesLoad, PcType, Forking, CallsMatch,
         Numbered, Holders, Ticketed

\* The steps that leave the object alone, the answer aside.
LEMMA OutsideStep ==
  ASSUME Inv,
         \/ client_send \/ fork \/ fork_fails \/ kill_kid
         \/ \E p \in Procs : recvfrom(p) \/ limit_check(p)
  PROVE  Inv'
<1> USE ObjectTypes DEF Inv, PcType, Goto
<1>1. UNCHANGED <<sem, shmdata, gpc, op, data, replies>>
  BY DEF client_send, fork, fork_fails, kill_kid, recvfrom, limit_check
<1>2. Obj!IInv'
  BY <1>1 DEF Obj!IInv, Obj!TypeOK, Obj!OneInside, Obj!TakenIffInside, Obj!Inside,
              Obj!LoadedIsCurrent, Obj!OnlyUpdatesLoad
<1>3. CASE client_send
  <2>1. PcType' /\ Forking' /\ CallsMatch' /\ Holders' = Holders
    BY <1>1, <1>3 DEF client_send, Forking, CallsMatch, Holders, Ticketed
  <2> QED
    BY <1>1, <1>2, <2>1, NoNewHolder
<1>4. CASE fork
  <2>1. l \in 0..(NCRTLVL - 1) /\ pc[l + 1] = "unborn" /\ l + 1 \in Kids
    BY <1>4, LevelAssumption DEF fork, Forking, Kids
  <2>2. Root \in Procs /\ Root # l + 1 /\ l + 1 \in Procs
    BY <2>1 DEF Procs, Root
  <2>3. PcType' /\ CallsMatch'
    BY <1>1, <1>4, <2>1, <2>2 DEF fork, CallsMatch
  <2>4. Forking'
    BY <1>4, <2>1, <2>2, LevelAssumption DEF fork, Forking, Kids, Procs
  <2>5. Holders' \subseteq Holders
    BY <1>1, <1>4, <2>1, <2>2 DEF fork, Holders, Ticketed
  <2> QED
    BY <1>1, <1>2, <2>3, <2>4, <2>5, NoNewHolder
<1>5. CASE fork_fails
  <2>1. PcType' /\ Forking' /\ CallsMatch' /\ Holders' \subseteq Holders
    BY <1>1, <1>5 DEF fork_fails, Forking, CallsMatch, Holders, Ticketed, Procs
  <2> QED
    BY <1>1, <1>2, <2>1, NoNewHolder
<1>6. CASE kill_kid
  <2>1. PcType' /\ Forking' /\ CallsMatch' /\ Holders' \subseteq Holders
    BY <1>1, <1>6 DEF kill_kid, Forking, CallsMatch, Holders, Ticketed, Procs
  <2> QED
    BY <1>1, <1>2, <2>1, NoNewHolder
<1>7. ASSUME NEW p \in Procs, recvfrom(p)
      PROVE  Inv'
  <2>1. PcType' /\ CallsMatch' /\ Holders' \subseteq Holders
    BY <1>1, <1>7 DEF recvfrom, CallsMatch, Holders, Ticketed
  <2>2. Forking'
    BY <1>7 DEF recvfrom, Forking, Procs, Kids, Root
  <2> QED
    BY <1>1, <1>2, <2>1, <2>2, NoNewHolder
<1>8. ASSUME NEW p \in Procs, limit_check(p)
      PROVE  Inv'
  <2>1. /\ pc[p] = "limit" /\ gpc[p] = "idle" /\ l' \in Int
        /\ \E w \in {"sendto", "kill_kids", "kill_self"} :
             pc' = [pc EXCEPT ![p] = w] /\ (w = "sendto" => data[p] <= Limit)
    <3>1. pc[p] = "limit" /\ gpc[p] = "idle" /\ l' \in Int
      BY <1>8 DEF limit_check, Forking
    <3>2. CASE data[p] > Limit
      BY <1>8, <3>1, <3>2 DEF limit_check
    <3>3. CASE ~(data[p] > Limit)
      <4>1. pc' = [pc EXCEPT ![p] = "sendto"]
        BY <1>8, <3>3 DEF limit_check
      <4>2. data[p] <= Limit
        BY <3>3, LimitAssumption
      <4> QED
        BY <3>1, <4>1, <4>2
    <3> QED
      BY <3>1, <3>2, <3>3
  <2>2. PcType' /\ CallsMatch' /\ Holders' \subseteq Holders
    BY <1>1, <2>1 DEF CallsMatch, Holders, Ticketed
  <2>3. Forking'
    <3>1. CASE p = Root
      BY <2>1, <3>1 DEF Forking
    <3>2. CASE p # Root
      BY <1>8, <2>1, <3>2 DEF limit_check, Forking, Procs, Kids, Root
    <3> QED
      BY <3>1, <3>2
  <2> QED
    BY <1>1, <1>2, <2>2, <2>3, NoNewHolder
<1> QED
  BY <1>3, <1>4, <1>5, <1>6, <1>7, <1>8

\* An answer gives up the number it used.
LEMMA AnswerStep ==
  ASSUME Inv, NEW p \in Procs, sendto(p)
  PROVE  Inv'
<1> USE ObjectTypes DEF Inv, PcType, Goto, sendto
<1>1. Obj!IInv'
  BY DEF Obj!IInv, Obj!TypeOK, Obj!OneInside, Obj!TakenIffInside, Obj!Inside,
         Obj!LoadedIsCurrent, Obj!OnlyUpdatesLoad
<1>2. PcType' /\ CallsMatch' /\ Forking' /\ replies' \in Nat
  BY DEF CallsMatch, Forking
<1>3. p \in Holders
  BY DEF Holders, Ticketed, CallsMatch
<1>4. Holders' = Holders \ {p}
  BY DEF Holders, Ticketed
<1>5. Cardinality(Holders') = Cardinality(Holders) - 1
  BY <1>3, <1>4, HoldersFinite, FS_RemoveElement
<1> QED
  BY <1>1, <1>2, <1>5, HoldersFinite, LimitAssumption DEF Numbered

\* A process that asks for a number holds none.
LEMMA CallStep ==
  ASSUME Inv, NEW p \in Procs, call_update(p)
  PROVE  Inv'
<1> USE ObjectTypes DEF Inv, PcType, Goto, call_update
<1>1. Obj!IInv'
  BY OperationsMatch, ObjectPreserved
<1>2. /\ pc[p] = "update_glb_data" /\ pc' = [pc EXCEPT ![p] = "limit"]
      /\ gpc' = [gpc EXCEPT ![p] = "wait"]
      /\ op' = [op EXCEPT ![p] = [kind |-> "inc", fits |-> TRUE]]
      /\ \A q \in Procs : data'[q] = data[q]
      /\ UNCHANGED <<shmdata, replies, l>>
  BY DEF Shm!Call
<1>3. PcType' /\ CallsMatch' /\ Forking' /\ Holders' \subseteq Holders
  BY <1>2 DEF CallsMatch, Forking, Holders, Ticketed
<1> QED
  BY <1>1, <1>2, <1>3, NoNewHolder

\* The ends of processes: a number they held is never used.
LEMMA DeathStep ==
  ASSUME Inv, reaper \/ \E p \in Procs : kill_self(p) \/ sigterm(p) \/ errexit(p)
  PROVE  Inv'
<1> USE ObjectTypes DEF Inv, PcType, Goto
<1> DEFINE Dies(p) == /\ pc' = [pc EXCEPT ![p] = "dead"]
                      /\ \E g \in {"died", "exited"} : gpc' = [gpc EXCEPT ![p] = g]
                      /\ UNCHANGED <<shmdata, data, op, replies, l>>
<1>1. ASSUME NEW p \in Procs, Dies(p), Obj!IInv', term' \subseteq term,
             pc[p] # "unborn" \/ pc[Root] # "fork"
      PROVE  Inv'
  <2>1. PcType' /\ CallsMatch' /\ Holders' \subseteq Holders
    BY <1>1 DEF CallsMatch, Holders, Ticketed
  <2>2. Forking'
    <3>1. Root \in Procs /\ Kids \subseteq Procs
      BY DEF Procs
    <3>2. CASE p = Root
      BY <1>1, <3>1, <3>2 DEF Forking
    <3>3. CASE p # Root
      BY <1>1, <3>1, <3>3 DEF Forking
    <3> QED
      BY <3>2, <3>3
  <2> QED
    BY <1>1, <2>1, <2>2, NoNewHolder
<1>2. ASSUME NEW p \in Procs, kill_self(p) \/ sigterm(p) \/ errexit(p)
      PROVE  Inv'
  <2>1. Dies(p) /\ term' \subseteq term
    BY <1>2 DEF kill_self, sigterm, errexit, Shm!killed
  <2>2. Obj!IInv'
    BY <1>2, OperationsMatch, ObjectPreserved DEF kill_self, sigterm, errexit
  <2>3. pc[p] # "unborn" \/ pc[Root] # "fork"
    BY <1>2 DEF kill_self, sigterm, errexit, Forking
  <2> QED
    BY <1>1, <2>1, <2>2, <2>3
<1>3. CASE reaper
  <2>1. CASE gpc[Root] = "wait" /\ sem = 0
    <3>1. Root \in Procs /\ pc[Root] # "unborn"
      BY <1>3 DEF reaper, Gone, Procs
    <3>2. Shm!sem_wait_fails(Root) /\ Dies(Root) /\ term' = term
      BY <1>3, <2>1 DEF reaper, Shm!sem_wait_fails
    <3>3. Obj!IInv'
      BY <3>1, <3>2, OperationsMatch, ObjectPreserved
    <3> QED
      BY <1>1, <3>1, <3>2, <3>3
  <2>2. CASE ~(gpc[Root] = "wait" /\ sem = 0)
    <3>1. UNCHANGED <<sem, shmdata, gpc, op, data, pc, replies, l, term>>
      BY <1>3, <2>2 DEF reaper
    <3> QED
      BY <3>1, Unchanged
  <2> QED
    BY <2>1, <2>2
<1> QED
  BY <1>2, <1>3

\* Every step preserves the invariant.
LEMMA NextInv == Inv /\ [Next]_vars => Inv'
<1> SUFFICES ASSUME Inv, [Next]_vars PROVE Inv'
  OBVIOUS
<1>1. CASE client_send \/ fork_fails \/ fork \/ kill_kid
  BY <1>1, OutsideStep
<1>2. CASE reaper
  BY <1>2, DeathStep
<1>3. ASSUME NEW p \in Procs, Proc(p)
      PROVE  Inv'
  BY <1>3, OutsideStep, CallStep, ObjectStep, DeathStep, AnswerStep DEF Proc
<1>4. CASE \E p \in Procs : errexit(p)
  BY <1>4, DeathStep
<1>5. CASE UNCHANGED vars
  BY <1>5, Unchanged DEF vars
<1> QED
  BY <1>1, <1>2, <1>3, <1>4, <1>5 DEF Next, RootOnly

\* The server never answers more requests than its shutdown limit.
THEOREM LimitRespected == Spec => []AnswersBounded
<1>1. Inv => AnswersBounded
  BY HoldersFinite, LimitAssumption DEF Inv, Numbered, AnswersBounded
<1> QED
  BY <1>1, InitInv, NextInv, PTL DEF Spec
-----------------------------------------------------------------------------
\* The facts about the processes and the variables' types that every step needs.
LEMMA DownTypes ==
  ASSUME DownInv
  PROVE  /\ Root \in Procs /\ Root \notin Kids /\ Procs = {Root} \cup Kids /\ Kids \subseteq Nat
         /\ pc \in [Procs -> {"unborn", "fork", "dead", "recvfrom", "limit", "sendto",
                              "update_glb_data", "kill_kids", "kill_self"}]
         /\ gpc \in [Procs -> {"held", "loaded", "stored", "idle", "wait", "exited", "died"}]
         /\ l \in Nat /\ sent \in Nat /\ queue \in Nat /\ replies \in Nat
         /\ term \subseteq Kids
         /\ Cardinality(InHand) \in Nat
         /\ \A p \in Procs : gpc[p] \notin {"idle", "exited", "died"} => pc[p] = "limit"
<1>1. InHand \in SUBSET Procs /\ IsFiniteSet(Procs)
  BY ProcsFinite DEF InHand
<1>2. Cardinality(InHand) \in Nat
  BY <1>1, FS_Subset, FS_CardinalityType
<1>3. l \in Nat /\ sent \in Nat
  BY LevelAssumption, RequestsAssumption DEF DownInv, VarTypes
<1>4. Root \in Procs /\ Root \notin Kids /\ Procs = {Root} \cup Kids /\ Kids \subseteq Nat
  BY LevelAssumption DEF Procs, Kids, Root
<1> QED
  BY <1>2, <1>3, <1>4, ObjectTypes DEF DownInv, Inv, PcType, CallsMatch, VarTypes

\* One step of a process that is none of the deaths: what it does to the place the
\* process is at, and to what the shutdown is about.
LEMMA LivingStep ==
  ASSUME DownInv, NEW p \in Procs,
         \/ recvfrom(p) \/ call_update(p) \/ object_step(p) \/ limit_check(p) \/ sendto(p)
  PROVE  /\ pc[p] \in {"recvfrom", "update_glb_data", "limit", "sendto"}
         /\ \E w \in {"recvfrom", "update_glb_data", "limit", "sendto", "kill_kids", "kill_self"} :
               /\ pc' = [pc EXCEPT ![p] = w]
               /\ w = "kill_kids" => p = Root /\ l' = 0
               /\ w = "kill_self" => p # Root
               /\ w # "kill_kids" => l' = l
         /\ UNCHANGED <<term, sigchld, sent>>
         /\ \A q \in Procs : gpc'[q] = "died" => gpc[q] = "died"
         /\ \A q \in Procs : op'[q].fits
<1> USE DownTypes DEF Goto
<1>0. /\ op \in [Procs -> [kind : {"read", "write", "inc", "dec"}, fits : BOOLEAN]]
      /\ \A q \in Procs : op[q].fits
      /\ \A q \in Procs : gpc[q] \notin {"idle", "exited", "died"} => op[q].kind = "inc"
  BY ObjectTypes DEF DownInv, Inv, CallsMatch, Shutdown
<1>1. CASE recvfrom(p)
  BY <1>0, <1>1 DEF recvfrom
<1>2. CASE call_update(p)
  BY <1>0, <1>2 DEF call_update, Shm!Call
<1>3. CASE object_step(p)
  <2>1. pc[p] = "limit" /\ pc' = pc /\ UNCHANGED <<l, term, sigchld, sent>> /\ op' = op
    BY <1>3 DEF object_step, Shm!Step, Shm!sem_wait, Shm!length_error, Shm!read_copy,
         Shm!update_load, Shm!write_copy, Shm!update_store, Shm!sem_signal
  <2>2. \E g \in {"held", "loaded", "stored", "idle", "exited"} : gpc' = [gpc EXCEPT ![p] = g]
    BY <1>0, <1>3 DEF object_step, Shm!Step, Shm!sem_wait, Shm!length_error, Shm!read_copy,
         Shm!update_load, Shm!write_copy, Shm!update_store, Shm!sem_signal
  <2> QED
    BY <1>0, <2>1, <2>2
<1>4. CASE limit_check(p)
  <2>1. pc[p] = "limit" /\ UNCHANGED <<gpc, op, term, sigchld, sent>>
    BY <1>4 DEF limit_check
  <2>2. CASE data[p] > Limit
    BY <1>0, <1>4, <2>1, <2>2 DEF limit_check
  <2>3. CASE ~(data[p] > Limit)
    BY <1>0, <1>4, <2>1, <2>3 DEF limit_check
  <2> QED
    BY <2>2, <2>3
<1>5. CASE sendto(p)
  BY <1>0, <1>5 DEF sendto
<1> QED
  BY <1>1, <1>2, <1>3, <1>4, <1>5

\* A process that ends, by a signal or because a system call failed.
LEMMA EndStep ==
  ASSUME DownInv, NEW p \in Procs, kill_self(p) \/ sigterm(p) \/ errexit(p)
  PROVE  /\ pc[p] \in {"kill_self", "recvfrom", "sendto"} \/ p \in term
         /\ pc' = [pc EXCEPT ![p] = "dead"] /\ term' = term \ {p}
         /\ \A q \in Procs : gpc'[q] = "died" => gpc[q] = "died" \/ p \in term
         /\ sigchld' \in BOOLEAN /\ UNCHANGED <<l, op, queue, sent, replies>>
<1> USE DownTypes DEF Goto
<1>1. CASE kill_self(p)
  <2>1. gpc[p] \in {"idle", "exited", "died"} /\ gpc' = [gpc EXCEPT ![p] = "exited"]
    BY <1>1 DEF kill_self, Shm!killed, Shm!Section
  <2> QED
    BY <1>1, <2>1 DEF kill_self, Chld, Shm!killed, DownInv, VarTypes
<1>2. CASE sigterm(p)
  <2>1. \E g : gpc' = [gpc EXCEPT ![p] = g]
    BY <1>2 DEF sigterm, Shm!killed
  <2> QED
    BY <1>2, <2>1 DEF sigterm, Chld, Shm!killed, DownInv, VarTypes
<1>3. CASE errexit(p)
  <2>1. gpc[p] \in {"idle", "exited", "died"} /\ gpc' = [gpc EXCEPT ![p] = "exited"]
    BY <1>3 DEF errexit, Shm!killed, Shm!Section
  <2> QED
    BY <1>3, <2>1 DEF errexit, Chld, Shm!killed, DownInv, VarTypes
<1> QED
  BY <1>1, <1>2, <1>3

\* The root's reaper.
LEMMA ReaperStep ==
  ASSUME DownInv, reaper
  PROVE  /\ \/ pc[Root] = "limit" /\ pc' = [pc EXCEPT ![Root] = "dead"]
            \/ pc' = pc
         /\ \A q \in Procs : gpc'[q] = "died" => gpc[q] = "died"
         /\ sigchld' = FALSE /\ UNCHANGED <<l, term, op, queue, sent, replies>>
<1> USE DownTypes
<1>1. CASE gpc[Root] = "wait" /\ sem = 0
  BY <1>1 DEF reaper, Shm!sem_wait_fails
<1>2. CASE ~(gpc[Root] = "wait" /\ sem = 0)
  BY <1>2 DEF reaper
<1> QED
  BY <1>1, <1>2

\* Once nobody is spared, that does not change.
LEMMA DoomedStays ==
  ASSUME DownInv, Next, AllDoomed
  PROVE  AllDoomed'
<1> USE DownTypes DEF Goto
<1>1. pc[Root] \in {"unborn", "dead", "kill_kids", "kill_self"}
  BY DEF AllDoomed, Doomed, Gone
<1>2. CASE client_send
  BY <1>2 DEF client_send, AllDoomed, Doomed, Gone
<1>3. CASE fork \/ fork_fails
  BY <1>1, <1>3 DEF fork, fork_fails
<1>4. CASE reaper
  BY <1>1, <1>4, ReaperStep DEF AllDoomed, Doomed, Gone
<1>5. CASE kill_kid
  <2>1. /\ pc[Root] = "kill_kids" /\ l' = l + 1
        /\ term \subseteq term' /\ l + 1 \in term' \cup {q \in Kids : Gone(q)}
        /\ \E w \in {"kill_kids", "kill_self"} :
              pc' = [pc EXCEPT ![Root] = w] /\ (w = "kill_self" => l + 1 = NCRTLVL)
    BY <1>5 DEF kill_kid
  <2>2. ASSUME NEW q \in Kids
        PROVE  Doomed(q)'
    <3>1. CASE q \in term \/ Gone(q)
      BY <2>1, <3>1 DEF Doomed, Gone
    <3>2. CASE q > l
      BY <2>1, <3>2, LevelAssumption DEF Doomed, Gone, Kids
    <3> QED
      BY <3>1, <3>2 DEF AllDoomed, Doomed
  <2>3. Doomed(Root)'
    BY <2>1 DEF Doomed
  <2> QED
    BY <2>2, <2>3 DEF AllDoomed
<1>6. ASSUME NEW p \in Procs,
             recvfrom(p) \/ call_update(p) \/ object_step(p) \/ limit_check(p) \/ sendto(p)
      PROVE  AllDoomed'
  <2>1. p # Root
    BY <1>1, <1>6, LivingStep
  <2> QED
    BY <1>6, <2>1, LivingStep DEF AllDoomed, Doomed, Gone
<1>7. ASSUME NEW p \in Procs, kill_self(p) \/ sigterm(p) \/ errexit(p)
      PROVE  AllDoomed'
  BY <1>7, EndStep DEF AllDoomed, Doomed, Gone
<1> QED
  BY <1>2, <1>3, <1>4, <1>5, <1>6, <1>7 DEF Next, RootOnly, Proc

\* The shutdown begins when the root has seen the limit, and nothing else can begin it.
LEMMA ShutdownStep ==
  ASSUME DownInv, Next
  PROVE  Shutdown'
<1> USE DownTypes DEF Goto
<1>0. (\A p \in Procs : op[p].fits) /\ op \in [Procs -> [kind : {"read", "write", "inc", "dec"}, fits : BOOLEAN]]
  BY ObjectTypes DEF DownInv, Inv, Shutdown
<1>1. \A p \in Procs : op'[p].fits
  <2>1. CASE client_send \/ fork \/ fork_fails \/ kill_kid
    BY <1>0, <2>1 DEF client_send, fork, fork_fails, kill_kid
  <2>2. CASE reaper
    BY <1>0, <2>2, ReaperStep
  <2>3. ASSUME NEW p \in Procs, Proc(p) \/ errexit(p)
        PROVE  \A q \in Procs : op'[q].fits
    BY <1>0, <2>3, LivingStep, EndStep DEF Proc
  <2> QED
    BY <2>1, <2>2, <2>3 DEF Next, RootOnly
<1>2. CASE AllDoomed
  BY <1>1, <1>2, DoomedStays DEF Shutdown
<1>3. CASE ~AllDoomed
  <2>1. /\ pc[Root] \notin {"kill_kids", "kill_self"} /\ term = {}
        /\ \A p \in Procs : gpc[p] # "died"
    BY <1>3 DEF DownInv, Shutdown
  <2>2. CASE client_send \/ fork_fails
    BY <1>1, <2>1, <2>2 DEF client_send, fork_fails, Shutdown
  <2>3. CASE fork
    <3>1. l + 1 \in Kids
      BY <2>3, LevelAssumption DEF fork, DownInv, Inv, Forking, Kids
    <3> QED
      BY <1>1, <2>1, <2>3, <3>1 DEF fork, Shutdown
  <2>4. CASE reaper
    BY <1>1, <2>1, <2>4, ReaperStep DEF Shutdown
  <2>5. ASSUME NEW p \in Procs,
               recvfrom(p) \/ call_update(p) \/ object_step(p) \/ limit_check(p) \/ sendto(p)
        PROVE  Shutdown'
    <3>1. PICK w \in {"recvfrom", "update_glb_data", "limit", "sendto", "kill_kids", "kill_self"} :
             /\ pc' = [pc EXCEPT ![p] = w]
             /\ w = "kill_kids" => p = Root /\ l' = 0
             /\ w = "kill_self" => p # Root
      BY <2>5, LivingStep
    <3>2. term' = {} /\ \A q \in Procs : gpc'[q] # "died"
      BY <2>1, <2>5, LivingStep
    <3>3. pc'[Root] # "kill_self"
      BY <2>1, <3>1
    <3>4. CASE w = "kill_kids"
      <4>1. pc'[Root] = "kill_kids" /\ l' = 0
        BY <3>1, <3>4
      <4>2. \A q \in Kids : q > 0
        BY LevelAssumption DEF Kids
      <4>3. AllDoomed'
        BY <4>1, <4>2 DEF AllDoomed, Doomed
      <4> QED
        BY <1>1, <4>3 DEF Shutdown
    <3>5. CASE w # "kill_kids"
      BY <1>1, <2>1, <3>1, <3>2, <3>3, <3>5 DEF Shutdown
    <3> QED
      BY <3>4, <3>5
  <2>6. ASSUME NEW p \in Procs, kill_self(p) \/ sigterm(p) \/ errexit(p)
        PROVE  Shutdown'
    BY <1>1, <2>1, <2>6, EndStep DEF Shutdown
  <2>7. ~kill_kid
    BY <2>1 DEF kill_kid
  <2> QED
    BY <2>2, <2>3, <2>4, <2>5, <2>6, <2>7 DEF Next, RootOnly, Proc
<1> QED
  BY <1>2, <1>3

\* A SIGTERM is on its way to slaves that live, and the root's loops end in time.
LEMMA VarTypesStep ==
  ASSUME DownInv, Next
  PROVE  VarTypes'
<1> USE DownTypes, RequestsAssumption, LevelAssumption DEF Goto
<1>0. VarTypes
  BY DEF DownInv
<1>1. CASE client_send
  BY <1>0, <1>1 DEF client_send, VarTypes, Gone
<1>2. CASE fork
  <2>1. l < NCRTLVL /\ l + 1 \in Kids /\ term = {}
    BY <1>2 DEF fork, DownInv, Inv, Forking, Kids
  <2>2. l' \in 0..NCRTLVL /\ pc'[Root] # "kill_kids" /\ term' = {}
    BY <1>2, <2>1 DEF fork
  <2> QED
    BY <1>0, <1>2, <2>2 DEF fork, VarTypes
<1>3. CASE fork_fails
  BY <1>0, <1>3 DEF fork_fails, VarTypes, Gone
<1>4. CASE reaper
  BY <1>0, <1>4, ReaperStep DEF VarTypes, Gone
<1>5. CASE kill_kid
  <2>1. /\ l < NCRTLVL /\ l' = l + 1 /\ l + 1 \in Kids
        /\ term' \subseteq {q \in Kids : ~Gone(q)}
        /\ UNCHANGED <<sigchld, sent, queue>>
    <3>1. l < NCRTLVL
      BY <1>0, <1>5 DEF kill_kid, VarTypes
    <3>2. l + 1 \in Kids
      BY <3>1 DEF Kids
    <3> QED
      BY <1>0, <1>5, <3>1, <3>2 DEF kill_kid, VarTypes
  <2>2. /\ pc'[Root] = "kill_kids" => l' < NCRTLVL
        /\ \A q \in Kids : pc'[q] = pc[q]
    <3>1. CASE l + 1 = NCRTLVL
      BY <1>5, <2>1, <3>1 DEF kill_kid
    <3>2. CASE l + 1 # NCRTLVL
      BY <1>5, <2>1, <3>2 DEF kill_kid
    <3> QED
      BY <3>1, <3>2
  <2> QED
    BY <1>0, <2>1, <2>2 DEF VarTypes, Gone
<1>6. ASSUME NEW p \in Procs,
             recvfrom(p) \/ call_update(p) \/ object_step(p) \/ limit_check(p) \/ sendto(p)
      PROVE  VarTypes'
  <2>1. queue' \in Nat
    <3>1. (queue' = queue - 1 /\ queue > 0) \/ queue' = queue
      BY <1>6 DEF recvfrom, call_update, object_step, limit_check, sendto
    <3> QED
      BY <3>1
  <2>2. l' \in 0..NCRTLVL /\ (pc'[Root] = "kill_kids" => l' < NCRTLVL)
    BY <1>0, <1>6, LivingStep DEF VarTypes
  <2>3. term' \subseteq {q \in Kids : ~(pc'[q] \in {"unborn", "dead"})}
    BY <1>0, <1>6, LivingStep DEF VarTypes, Gone
  <2> QED
    BY <1>0, <1>6, <2>1, <2>2, <2>3, LivingStep DEF VarTypes, Gone
<1>7. ASSUME NEW p \in Procs, kill_self(p) \/ sigterm(p) \/ errexit(p)
      PROVE  VarTypes'
  BY <1>0, <1>7, EndStep DEF VarTypes, Gone
<1> QED
  BY <1>1, <1>2, <1>3, <1>4, <1>5, <1>6, <1>7 DEF Next, RootOnly, Proc

\* A set of processes that gains or loses one is one larger or smaller.
LEMMA CountOne ==
  ASSUME NEW S \in SUBSET Procs, NEW p \in Procs
  PROVE  /\ Cardinality(S) \in Nat
         /\ p \notin S => Cardinality(S \cup {p}) = Cardinality(S) + 1
         /\ p \in S => Cardinality(S \ {p}) = Cardinality(S) - 1
         /\ p \notin S => S \ {p} = S
<1>1. IsFiniteSet(S)
  BY ProcsFinite, FS_Subset
<1> QED
  BY <1>1, FS_CardinalityType, FS_AddElement, FS_RemoveElement

\* A datagram that was sent is in the queue, in the hands of one process, answered,
\* or was dropped by a process that ended.
LEMMA AccountsStep ==
  ASSUME DownInv, Next
  PROVE  Accounts'
<1> USE DownTypes DEF Goto
<1>0. queue + replies + Cardinality(InHand) <= sent /\ InHand \in SUBSET Procs
  BY DEF DownInv, Accounts, InHand
<1>1. ASSUME InHand' = InHand, UNCHANGED <<queue, replies>>, sent' \in Nat, sent' >= sent
      PROVE  Accounts'
  BY <1>0, <1>1 DEF Accounts
<1>2. ASSUME NEW p \in Procs, InHand' = InHand \ {p}, UNCHANGED <<queue, replies, sent>>
      PROVE  Accounts'
  <2>1. Cardinality(InHand') <= Cardinality(InHand) /\ Cardinality(InHand') \in Nat
    <3>1. CASE p \in InHand
      BY <1>0, <1>2, <3>1, CountOne
    <3>2. CASE p \notin InHand
      <4>1. InHand' = InHand
        BY <1>2, <3>2
      <4> QED
        BY <4>1
    <3> QED
      BY <3>1, <3>2
  <2> QED
    BY <1>0, <1>2, <2>1 DEF Accounts
<1>3. CASE client_send
  <2>1. InHand' = InHand
    BY <1>3 DEF client_send, InHand
  <2> QED
    BY <1>0, <1>3, <2>1 DEF client_send, Accounts
<1>4. CASE fork
  <2>1. l + 1 \in Kids /\ pc[l + 1] = "unborn"
    BY <1>4, LevelAssumption DEF fork, DownInv, Inv, Forking, Kids
  <2>2. InHand' = InHand
    BY <1>4, <2>1 DEF fork, InHand
  <2> QED
    BY <1>1, <1>4, <2>2 DEF fork
<1>5. CASE fork_fails \/ kill_kid
  <2>1. InHand' = InHand
    BY <1>5 DEF fork_fails, kill_kid, InHand
  <2> QED
    BY <1>1, <1>5, <2>1 DEF fork_fails, kill_kid
<1>6. CASE reaper
  <2>1. InHand' = InHand \ {Root} \/ InHand' = InHand
    BY <1>6, ReaperStep DEF InHand
  <2> QED
    BY <1>1, <1>2, <1>6, <2>1, ReaperStep
<1>7. ASSUME NEW p \in Procs, recvfrom(p)
      PROVE  Accounts'
  <2>1. p \notin InHand /\ InHand' = InHand \cup {p}
    BY <1>7 DEF recvfrom, InHand
  <2>2. Cardinality(InHand') = Cardinality(InHand) + 1
    BY <1>0, <2>1, CountOne
  <2> QED
    BY <1>0, <1>7, <2>2 DEF recvfrom, Accounts
<1>8. ASSUME NEW p \in Procs, sendto(p)
      PROVE  Accounts'
  <2>1. p \in InHand /\ InHand' = InHand \ {p}
    BY <1>8 DEF sendto, InHand
  <2>2. Cardinality(InHand') = Cardinality(InHand) - 1
    BY <1>0, <2>1, CountOne
  <2> QED
    BY <1>0, <1>8, <2>2 DEF sendto, Accounts
<1>9. ASSUME NEW p \in Procs, call_update(p) \/ object_step(p)
      PROVE  Accounts'
  <2>1. InHand' = InHand
    BY <1>9 DEF call_update, object_step, InHand
  <2>2. UNCHANGED <<queue, replies, sent>>
    BY <1>9 DEF call_update, object_step
  <2> QED
    BY <1>1, <2>1, <2>2
<1>10. ASSUME NEW p \in Procs, limit_check(p)
       PROVE  Accounts'
  <2>1. InHand' = InHand \/ InHand' = InHand \ {p}
    BY <1>10, LivingStep DEF limit_check, InHand
  <2> QED
    BY <1>1, <1>2, <1>10, <2>1 DEF limit_check
<1>11. ASSUME NEW p \in Procs, kill_self(p) \/ sigterm(p) \/ errexit(p)
       PROVE  Accounts'
  <2>1. InHand' = InHand \ {p}
    BY <1>11, EndStep DEF InHand
  <2> QED
    BY <1>2, <1>11, <2>1, EndStep
<1> QED
  BY <1>3, <1>4, <1>5, <1>6, <1>7, <1>8, <1>9, <1>10, <1>11 DEF Next, RootOnly, Proc

\* A slave killed inside the critical section keeps the semaphore, but only when the
\* whole server is going down; the variables have their types.
THEOREM DownInOrder == Spec => []ShutdownInv
<1>1. Init => DownInv
  <2> SUFFICES ASSUME Init PROVE DownInv
    OBVIOUS
  <2>1. InHand = {}
    BY DEF Init, InHand
  <2>2. Accounts
    BY <2>1, FS_EmptySet DEF Init, Accounts
  <2>3. VarTypes
    <3>1. l = 0 /\ term = {} /\ sent = 0 /\ queue = 0 /\ sigchld = FALSE /\ pc[Root] = "fork"
      BY DEF Init, Procs
    <3> QED
      <4>1. 0 \in 0..NCRTLVL /\ 0 \in 0..MaxRequests /\ 0 \in Nat
        BY LevelAssumption, RequestsAssumption
      <4>2. term \subseteq {q \in Kids : ~Gone(q)}
        BY <3>1
      <4>3. pc[Root] # "kill_kids"
        BY <3>1
      <4> QED
        BY <3>1, <4>1, <4>2, <4>3 DEF VarTypes
  <2>4. Shutdown
    BY DEF Init, Shm!Init, Shutdown, Procs
  <2> QED
    BY InitInv, <2>2, <2>3, <2>4 DEF DownInv
<1>2. DownInv /\ [Next]_vars => DownInv'
  <2> SUFFICES ASSUME DownInv, [Next]_vars PROVE DownInv'
    OBVIOUS
  <2>1. Inv'
    BY NextInv DEF DownInv
  <2>2. CASE Next
    BY <2>1, <2>2, VarTypesStep, AccountsStep, ShutdownStep DEF DownInv
  <2>3. CASE UNCHANGED vars
    BY <2>1, <2>3 DEF vars, DownInv, VarTypes, Accounts, Shutdown, AllDoomed, Doomed, Gone,
                      InHand
  <2> QED
    BY <2>2, <2>3
<1>3. DownInv => ShutdownInv
  <2> SUFFICES ASSUME DownInv PROVE ShutdownInv
    OBVIOUS
  <2> USE DownTypes
  <2>1. Shm!TypeOK
    BY DEF DownInv, Inv, Obj!IInv, Obj!TypeOK, Shm!TypeOK, Obj!Section, Shm!Section,
           Obj!Kinds, Shm!Kinds, Obj!Removed, Shm!Removed
  <2>2. TypeOK
    BY <2>1, RequestsAssumption DEF DownInv, VarTypes, Accounts, TypeOK
  <2>3. LostOnlyInShutdown
    BY DEF DownInv, Shutdown, AllDoomed, LostOnlyInShutdown
  <2> QED
    BY <2>2, <2>3 DEF ShutdownInv
<1> QED
  BY <1>1, <1>2, <1>3, PTL DEF Spec
-----------------------------------------------------------------------------
(* The server without a limit: proofs about UdpShm, whose processes have the same
   variables.  A datagram received is answered once or its process ends, and the
   counter that is read and written in two critical sections never runs ahead of the
   answers. *)

Count == INSTANCE UdpShm
CountObj == INSTANCE GlbShmProofs WITH Callers <- Count!Procs, Args <- 0..MaxRequests,
                                       Failures <- FALSE, Window <- MaxRequests

\* The processes with a request they have not answered, and those with one that they
\* have answered and not counted, the processes that ended with it included.
CountInHand == {p \in Count!Procs : pc[p] \in {"sendto", "unanswered"}}
Uncounted == {p \in Count!Procs : \/ pc[p] \in {"read_glb_data", "count", "uncounted"}
                                  \/ pc[p] = "wrote" /\ gpc[p] \in {"wait", "held"}}

\* What p read, once it has read: the counter it is going to increment.
HasRead(p) == pc[p] = "count" /\ gpc[p] \in {"stored", "idle"}
Writing(p) == pc[p] = "wrote" /\ gpc[p] \in {"wait", "held"}

\* The counter, and every copy of it that will be written back, leaves room for
\* all that is still to be counted.
RoomToCount ==
  /\ shmdata + Cardinality(Uncounted) <= replies
  /\ \A p \in Count!Procs : HasRead(p) => data[p] + Cardinality(Uncounted) <= replies
  /\ \A p \in Count!Procs : Writing(p) => data[p] - 1 + Cardinality(Uncounted) <= replies

\* Nothing is decremented, what is written back is not zero, and it was written back
\* for an answer that is counted.
CountPositive == /\ shmdata >= 0
                 /\ \A p \in Count!Procs : data[p] >= 0 /\ (Writing(p) => data[p] > 0)
                 /\ replies > Cardinality(Uncounted) => shmdata > 0

\* The calls made of the object: they fit, one reads and one writes, and the
\* object is never removed.
CountCallsMatch ==
  /\ sem # -1
  /\ \A p \in Count!Procs :
       /\ op[p].fits
       /\ gpc[p] \in {"idle", "wait", "held", "stored", "exited"}
       /\ gpc[p] = "exited" => pc[p] = "uncounted"
       /\ gpc[p] \notin {"idle", "exited"} =>
                             \/ pc[p] = "count" /\ op[p].kind = "read"
                             \/ pc[p] = "wrote" /\ op[p].kind = "write"

\* The root forks its slaves in order.
CountForking == pc[Count!Root] = "fork" =>
             /\ l < NCRTLVL
             /\ \A k \in Count!Kids : k > l => pc[k] = "unborn"

\* The types of the server's own variables, and its accounts of the datagrams.
CountVarTypes == /\ pc \in [Count!Procs -> {"unborn", "fork", "exited", "recvfrom", "sendto",
                                      "read_glb_data", "count", "wrote",
                                      "unanswered", "uncounted"}]
                 /\ sigchld \in BOOLEAN
                 /\ l \in 0..NCRTLVL /\ sent \in 0..MaxRequests
                 /\ queue \in Nat /\ replies \in Nat
CountAccounts == sent = queue + replies + Cardinality(CountInHand)

CountInv == /\ CountObj!IInv /\ CountVarTypes /\ CountAccounts
            /\ RoomToCount /\ CountPositive /\ CountCallsMatch /\ CountForking

\* The processes are finitely many.
LEMMA CountProcsFinite == IsFiniteSet(Count!Procs) /\ CountObj!IsFiniteSet(Count!Procs)
<1>1. IsFiniteSet(Count!Kids)
  BY LevelAssumption, FS_Interval DEF Count!Kids
<1>2. IsFiniteSet(Count!Procs)
  BY <1>1, FS_AddElement DEF Count!Procs
<1> QED
  BY <1>2 DEF IsFiniteSet, CountObj!IsFiniteSet

\* So are those that are counted, and a set that gains or loses one process is
\* one larger or smaller.
LEMMA Counted ==
  ASSUME NEW S \in SUBSET Count!Procs, NEW p \in Count!Procs
  PROVE  /\ Cardinality(S) \in Nat
         /\ Cardinality(S) = 0 <=> S = {}
         /\ p \notin S => Cardinality(S \cup {p}) = Cardinality(S) + 1
         /\ p \in S => Cardinality(S \ {p}) = Cardinality(S) - 1
<1>1. IsFiniteSet(S)
  BY CountProcsFinite, FS_Subset
<1> QED
  BY <1>1, FS_CardinalityType, FS_EmptySet, FS_AddElement, FS_RemoveElement

\* The two sets of processes that the invariant counts.
LEMMA CountSets == /\ CountInHand \in SUBSET Count!Procs /\ Uncounted \in SUBSET Count!Procs
                   /\ Cardinality(CountInHand) \in Nat /\ Cardinality(Uncounted) \in Nat
                   /\ Count!Root \in Count!Procs /\ Count!Kids \subseteq Count!Procs
<1>1. /\ CountInHand \in SUBSET Count!Procs /\ Uncounted \in SUBSET Count!Procs
      /\ Count!Root \in Count!Procs /\ Count!Kids \subseteq Count!Procs
  BY DEF CountInHand, Uncounted, Count!Procs
<1> QED
  BY <1>1, Counted

\* What the invariant says of the variables' types.
LEMMA CountTypes ==
  ASSUME CountInv
  PROVE  /\ sem \in {0, 1} /\ shmdata \in Int /\ data \in [Count!Procs -> Int]
         /\ gpc \in [Count!Procs -> {"held", "loaded", "stored", "idle", "wait", "exited", "died"}]
         /\ op \in [Count!Procs -> [kind : {"read", "write", "inc", "dec"}, fits : BOOLEAN]]
         /\ pc \in [Count!Procs -> {"unborn", "fork", "exited", "recvfrom", "sendto",
                               "read_glb_data", "count", "wrote",
                               "unanswered", "uncounted"}]
         /\ l \in Nat /\ sent \in Nat /\ queue \in Nat /\ replies \in Nat
         /\ sent <= MaxRequests
         /\ sent = queue + replies + Cardinality(CountInHand)
<1>1. l \in Nat /\ sent \in Nat /\ sent <= MaxRequests
  BY LevelAssumption, RequestsAssumption DEF CountInv, CountVarTypes
<1> QED
  BY <1>1 DEF CountInv, CountVarTypes, CountAccounts, CountCallsMatch, CountObj!IInv,
              CountObj!TypeOK, CountObj!Section, CountObj!Kinds, CountObj!Removed

\* The object's invariant is preserved by what this server does to the object.
LEMMA CountObjectPreserved ==
  ASSUME CountObj!IInv, NEW p \in Count!Procs, CountObj!Operation(p)
  PROVE  CountObj!IInv'
<1>1. 0..MaxRequests \subseteq Int
  OBVIOUS
<1> QED
  BY <1>1, CountObj!OperationIInv, CountProcsFinite, RequestsAssumption

\* The server's calls and steps are operations of the object.
LEMMA CountOperationsMatch ==
  ASSUME NEW p \in Count!Procs, data \in [Count!Procs -> Int],
         \/ Count!Shm!Call(p, "read", data[p], TRUE)
         \/ data[p] + 1 \in 0..MaxRequests /\ Count!Shm!Call(p, "write", data[p] + 1, TRUE)
         \/ Count!Shm!Step(p) \/ Count!Shm!sem_wait_fails(p)
  PROVE  CountObj!Operation(p)
<1>1. CASE Count!Shm!Call(p, "read", data[p], TRUE)
  <2>1. CountObj!Call(p, "read", data[p], TRUE) /\ data[p] \in Int /\ "read" \in CountObj!Kinds
    BY <1>1 DEF Count!Shm!Call, CountObj!Call, CountObj!Kinds
  <2> QED
    BY <2>1 DEF CountObj!Operation
<1>2. CASE data[p] + 1 \in 0..MaxRequests /\ Count!Shm!Call(p, "write", data[p] + 1, TRUE)
  <2>1. /\ CountObj!Call(p, "write", data[p] + 1, TRUE)
        /\ data[p] + 1 \in Int /\ "write" \in CountObj!Kinds
    BY <1>2 DEF Count!Shm!Call, CountObj!Call, CountObj!Kinds
  <2> QED
    BY <1>2, <2>1 DEF CountObj!Operation
<1>3. CASE Count!Shm!Step(p)
  BY <1>3 DEF CountObj!Operation, Count!Shm!Step, CountObj!Step, Count!Shm!sem_wait,
              CountObj!sem_wait, Count!Shm!length_error, CountObj!length_error,
              Count!Shm!read_copy, CountObj!read_copy, Count!Shm!write_copy,
              CountObj!write_copy, Count!Shm!update_load, CountObj!update_load,
              Count!Shm!update_store, CountObj!update_store, Count!Shm!sem_signal,
              CountObj!sem_signal, Count!Shm!Removed, CountObj!Removed
<1>4. CASE Count!Shm!sem_wait_fails(p)
  BY <1>4 DEF CountObj!Operation, Count!Shm!sem_wait_fails, CountObj!sem_wait_fails
<1> QED
  BY <1>1, <1>2, <1>3, <1>4

\* The initial state satisfies the invariant.
LEMMA CountInitInv == Count!Init => CountInv
<1> SUFFICES ASSUME Count!Init PROVE CountInv
  OBVIOUS
<1>1. CountObj!Init
  BY DEF Count!Init, Count!Shm!Init, CountObj!Init
<1>2. CountObj!IInv
  <2>1. 0..MaxRequests \subseteq Int
    OBVIOUS
  <2> QED
    BY <1>1, <2>1, CountObj!InitIInv, CountProcsFinite, RequestsAssumption
<1>3. CountInHand = {} /\ Uncounted = {}
  BY DEF Count!Init, CountInHand, Uncounted
<1>4. Cardinality(CountInHand) = 0 /\ Cardinality(Uncounted) = 0
  BY <1>3, FS_EmptySet
<1>5. CountVarTypes /\ CountAccounts
  <2>1. sigchld \in BOOLEAN
    BY DEF Count!Init
  <2> QED
    BY <1>4, <2>1, LevelAssumption, RequestsAssumption DEF Count!Init, CountVarTypes,
           CountAccounts
<1>6. RoomToCount /\ CountPositive /\ CountCallsMatch
  BY <1>3, <1>4 DEF Count!Init, Count!Shm!Init, RoomToCount, CountPositive, CountCallsMatch,
                    HasRead, Writing
<1>7. CountForking
  BY LevelAssumption DEF Count!Init, CountForking, Count!Procs, Count!Kids, Count!Root
<1> QED
  BY <1>2, <1>5, <1>6, <1>7 DEF CountInv

\* The steps that leave the object and its callers alone: clients, forks, the receipt
\* of a datagram, and the processes that end because a system call failed.
LEMMA CountOutsideStep ==
  ASSUME CountInv,
         \/ Count!client_send \/ Count!fork \/ Count!fork_fails
         \/ \E p \in Count!Procs : \/ Count!recvfrom(p)
                                  \/ Count!recvfrom_fails(p) \/ Count!sendto_fails(p)
  PROVE  CountInv'
<1> USE CountTypes, CountSets
<1>1. UNCHANGED <<sem, shmdata, gpc, op, data, replies>>
  BY DEF Count!client_send, Count!fork, Count!fork_fails, Count!recvfrom,
         Count!recvfrom_fails, Count!sendto_fails
<1>2. CountObj!IInv'
  BY <1>1 DEF CountInv, CountObj!IInv, CountObj!TypeOK, CountObj!OneInside,
              CountObj!TakenIffInside, CountObj!Inside, CountObj!LoadedIsCurrent,
              CountObj!OnlyUpdatesLoad
<1>3. ASSUME \A p \in Count!Procs : pc'[p] # pc[p] =>
               /\ pc[p] \in {"unborn", "fork", "recvfrom", "sendto"}
               /\ pc'[p] \in {"fork", "exited", "recvfrom", "sendto", "unanswered"}
      PROVE  RoomToCount' /\ CountPositive' /\ CountCallsMatch'
  <2>1. Uncounted' = Uncounted
    BY <1>1, <1>3 DEF Uncounted
  <2>2. \A p \in Count!Procs : (HasRead(p)' <=> HasRead(p)) /\ (Writing(p)' <=> Writing(p))
    BY <1>1, <1>3 DEF HasRead, Writing
  <2>3. CountCallsMatch'
    BY <1>1, <1>3 DEF CountInv, CountCallsMatch
  <2> QED
    BY <1>1, <2>1, <2>2, <2>3 DEF CountInv, RoomToCount, CountPositive
<1>4. CASE Count!client_send
  <2>1. CountInHand' = CountInHand
    BY <1>4 DEF Count!client_send, CountInHand
  <2>2. CountVarTypes' /\ CountAccounts'
    BY <1>1, <1>2, <1>4, <2>1, RequestsAssumption DEF Count!client_send, CountInv,
           CountVarTypes, CountAccounts
  <2>3. RoomToCount' /\ CountPositive' /\ CountCallsMatch' /\ CountForking'
    BY <1>3, <1>4 DEF Count!client_send, CountInv, CountForking
  <2> QED
    BY <1>2, <2>2, <2>3 DEF CountInv
<1>5. CASE Count!fork
  <2>1. l < NCRTLVL /\ l + 1 \in Count!Kids /\ pc[l + 1] = "unborn" /\ Count!Root # l + 1
    BY <1>5, LevelAssumption DEF Count!fork, CountInv, CountForking, Count!Kids, Count!Root
  <2>2. \E w \in {"fork", "recvfrom"} :
           /\ pc' = [pc EXCEPT ![l + 1] = "recvfrom", ![Count!Root] = w]
           /\ w = "fork" => l + 1 < NCRTLVL
    <3>1. l' = l + 1 /\ l \in Nat /\ NCRTLVL \in Nat
      BY <1>5, LevelAssumption DEF Count!fork
    <3>2. CASE l + 1 = NCRTLVL
      BY <1>5, <3>1, <3>2 DEF Count!fork
    <3>3. CASE l + 1 # NCRTLVL
      BY <1>5, <2>1, <3>1, <3>3 DEF Count!fork
    <3> QED
      BY <3>2, <3>3
  <2>3. CountInHand' = CountInHand
    BY <1>5, <2>1, <2>2 DEF Count!fork, CountInHand
  <2>4. CountVarTypes' /\ CountAccounts'
    <3>1. pc' \in [Count!Procs -> {"unborn", "fork", "exited", "recvfrom", "sendto",
                             "read_glb_data", "count", "wrote",
                             "unanswered", "uncounted"}]
      BY <2>1, <2>2
    <3>2. l' \in 0..NCRTLVL /\ sent' \in 0..MaxRequests
      BY <1>5, <2>1, LevelAssumption DEF Count!fork, CountInv, CountVarTypes, CountAccounts
    <3> QED
      BY <1>1, <1>5, <2>3, <3>1, <3>2 DEF Count!fork, CountInv, CountVarTypes, CountAccounts
  <2>5. CountForking'
    BY <1>5, <2>1, <2>2, LevelAssumption DEF Count!fork, CountInv, CountForking, Count!Kids,
           Count!Root
  <2>6. RoomToCount' /\ CountPositive' /\ CountCallsMatch'
    BY <1>3, <1>5, <2>1, <2>2 DEF Count!fork
  <2> QED
    BY <1>2, <2>4, <2>5, <2>6 DEF CountInv
<1>6. CASE Count!fork_fails
  <2>1. CountInHand' = CountInHand
    BY <1>6 DEF Count!fork_fails, Count!Goto, CountInHand
  <2>2. CountVarTypes' /\ CountAccounts'
    BY <1>1, <1>2, <1>6, <2>1 DEF Count!fork_fails, Count!Goto, CountInv, CountVarTypes,
           CountAccounts
  <2>3. RoomToCount' /\ CountPositive' /\ CountCallsMatch' /\ CountForking'
    BY <1>3, <1>6 DEF Count!fork_fails, Count!Goto, CountInv, CountForking
  <2> QED
    BY <1>2, <2>2, <2>3 DEF CountInv
<1>7. ASSUME NEW p \in Count!Procs, Count!recvfrom(p)
      PROVE  CountInv'
  <2>1. p \notin CountInHand /\ CountInHand' = CountInHand \cup {p}
    BY <1>7 DEF Count!recvfrom, Count!Goto, CountInHand
  <2>2. Cardinality(CountInHand') = Cardinality(CountInHand) + 1
    BY <2>1, Counted
  <2>3. CountVarTypes' /\ CountAccounts'
    <3>1. pc' = [pc EXCEPT ![p] = "sendto"] /\ queue > 0 /\ queue' = queue - 1
          /\ UNCHANGED <<l, sigchld, sent, replies>>
      BY <1>7 DEF Count!recvfrom, Count!Goto
    <3>2. CountVarTypes'
      BY <3>1 DEF CountInv, CountVarTypes
    <3>3. CountAccounts'
      BY <2>2, <3>1 DEF CountAccounts
    <3> QED
      BY <3>2, <3>3
  <2>4. RoomToCount' /\ CountPositive' /\ CountCallsMatch'
    BY <1>3, <1>7 DEF Count!recvfrom, Count!Goto
  <2>5. CountForking'
    BY <1>7 DEF Count!recvfrom, Count!Goto, CountInv, CountForking
  <2> QED
    BY <1>2, <2>3, <2>4, <2>5 DEF CountInv
<1>8. ASSUME NEW p \in Count!Procs, Count!recvfrom_fails(p) \/ Count!sendto_fails(p)
      PROVE  CountInv'
  <2>1. /\ \/ pc[p] = "recvfrom" /\ pc' = [pc EXCEPT ![p] = "exited"]
           \/ pc[p] = "sendto" /\ pc' = [pc EXCEPT ![p] = "unanswered"]
        /\ sigchld' \in BOOLEAN
        /\ UNCHANGED <<l, sent, queue, replies>>
    BY <1>8 DEF Count!recvfrom_fails, Count!sendto_fails, Count!Goto, Count!Chld, CountInv,
                CountVarTypes
  <2>2. CountInHand' = CountInHand
    BY <2>1 DEF CountInHand
  <2>3. CountVarTypes' /\ CountAccounts'
    BY <2>1, <2>2 DEF CountInv, CountVarTypes, CountAccounts
  <2>4. RoomToCount' /\ CountPositive' /\ CountCallsMatch'
    BY <1>3, <2>1
  <2>5. CountForking'
    BY <2>1 DEF CountInv, CountForking
  <2> QED
    BY <1>2, <2>3, <2>4, <2>5 DEF CountInv
<1> QED
  BY <1>4, <1>5, <1>6, <1>7, <1>8

\* An answer is one request less to answer, and one more to count.
LEMMA CountAnswerStep ==
  ASSUME CountInv, NEW p \in Count!Procs, Count!sendto(p)
  PROVE  CountInv'
<1> USE CountTypes, CountSets DEF Count!sendto, Count!Goto
<1>1. CountObj!IInv'
  BY DEF CountInv, CountObj!IInv, CountObj!TypeOK, CountObj!OneInside, CountObj!TakenIffInside,
         CountObj!Inside, CountObj!LoadedIsCurrent, CountObj!OnlyUpdatesLoad
<1>2. p \in CountInHand /\ CountInHand' = CountInHand \ {p}
  BY DEF CountInHand
<1>3. Cardinality(CountInHand') = Cardinality(CountInHand) - 1
  BY <1>2, Counted
<1>4. p \notin Uncounted /\ Uncounted' = Uncounted \cup {p}
  BY DEF Uncounted
<1>5. Cardinality(Uncounted') = Cardinality(Uncounted) + 1
  BY <1>4, Counted
<1>6. CountVarTypes' /\ CountAccounts'
  BY <1>3 DEF CountInv, CountVarTypes, CountAccounts
<1>7. \A q \in Count!Procs : (HasRead(q)' <=> HasRead(q)) /\ (Writing(q)' <=> Writing(q))
  BY DEF HasRead, Writing
<1>8. RoomToCount'
  BY <1>5, <1>7 DEF CountInv, RoomToCount
<1>9. CountPositive'
  BY <1>5, <1>7 DEF CountInv, CountPositive
<1>10. CountCallsMatch' /\ CountForking'
  BY DEF CountInv, CountCallsMatch, CountForking
<1> QED
  BY <1>1, <1>6, <1>8, <1>9, <1>10 DEF CountInv

\* The calls: a request is still to be counted while it is read and written back,
\* and the counter a process has read leaves it room to write one more.
LEMMA CountCallStep ==
  ASSUME CountInv, NEW p \in Count!Procs, Count!call_read(p) \/ Count!call_write(p)
  PROVE  CountInv'
<1> USE CountTypes, CountSets DEF Count!Goto
<1>1. p \in Uncounted
  BY DEF Count!call_read, Count!call_write, Uncounted
<1>2. Cardinality(Uncounted) >= 1
  <2>1. Cardinality(Uncounted) # 0
    BY <1>1, Counted
  <2> QED
    BY <2>1
<1>3. /\ pc[p] \in {"read_glb_data", "count"} /\ pc'[p] \in {"count", "wrote"}
      /\ gpc[p] = "idle" /\ gpc' = [gpc EXCEPT ![p] = "wait"]
      /\ \A q \in Count!Procs : q # p => pc'[q] = pc[q] /\ gpc'[q] = gpc[q] /\ data'[q] = data[q]
      /\ UNCHANGED <<sem, shmdata, l, sigchld, sent, queue, replies>>
  BY DEF Count!call_read, Count!call_write, Count!Shm!Call
<1>4. CountInHand' = CountInHand /\ Uncounted' = Uncounted
  BY <1>3 DEF CountInHand, Uncounted
<1>5. CASE Count!call_read(p)
  <2>1. /\ pc' = [pc EXCEPT ![p] = "count"] /\ data'[p] = data[p]
        /\ op' = [op EXCEPT ![p] = [kind |-> "read", fits |-> TRUE]]
    BY <1>5 DEF Count!call_read, Count!Shm!Call
  <2>2. CountObj!IInv'
    BY <1>5, CountOperationsMatch, CountObjectPreserved DEF Count!call_read, CountInv
  <2>3. CountVarTypes' /\ CountAccounts'
    BY <1>3, <1>4, <2>1 DEF CountInv, CountVarTypes, CountAccounts
  <2>4. \A q \in Count!Procs : (HasRead(q)' => HasRead(q)) /\ (Writing(q)' => Writing(q))
    BY <1>3, <2>1 DEF HasRead, Writing
  <2>5. RoomToCount' /\ CountPositive'
    BY <1>3, <1>4, <2>1, <2>4 DEF CountInv, RoomToCount, CountPositive
  <2>6. CountCallsMatch' /\ CountForking'
    BY <1>3, <2>1 DEF CountInv, CountCallsMatch, CountForking
  <2> QED
    BY <2>2, <2>3, <2>5, <2>6 DEF CountInv
<1>6. CASE Count!call_write(p)
  <2>1. /\ pc[p] = "count" /\ pc' = [pc EXCEPT ![p] = "wrote"]
        /\ data' = [data EXCEPT ![p] = data[p] + 1]
        /\ op' = [op EXCEPT ![p] = [kind |-> "write", fits |-> TRUE]]
    BY <1>6 DEF Count!call_write, Count!Shm!Call
  <2>2. data[p] >= 0 /\ data[p] + Cardinality(Uncounted) <= replies
    BY <1>3, <2>1 DEF CountInv, RoomToCount, CountPositive, HasRead
  <2>3. data[p] + 1 \in 0..MaxRequests
    BY <1>2, <2>2, RequestsAssumption
  <2>4. CountObj!IInv'
    BY <1>6, <2>3, CountOperationsMatch, CountObjectPreserved DEF Count!call_write, CountInv
  <2>5. CountVarTypes' /\ CountAccounts'
    BY <1>3, <1>4, <2>1 DEF CountInv, CountVarTypes, CountAccounts
  <2>6. \A q \in Count!Procs : (HasRead(q)' => HasRead(q) /\ q # p)
                         /\ (Writing(q)' /\ q # p => Writing(q))
    BY <1>3, <2>1 DEF HasRead, Writing
  <2>7. RoomToCount' /\ CountPositive'
    BY <1>3, <1>4, <2>1, <2>2, <2>6 DEF CountInv, RoomToCount, CountPositive
  <2>8. CountCallsMatch' /\ CountForking'
    BY <1>3, <2>1 DEF CountInv, CountCallsMatch, CountForking
  <2> QED
    BY <2>4, <2>5, <2>7, <2>8 DEF CountInv
<1> QED
  BY <1>5, <1>6

\* The steps inside the object: a write counts the request of its process, and what
\* others have read is then all the more within the answers.
LEMMA CountObjectStep ==
  ASSUME CountInv, NEW p \in Count!Procs, Count!object_step(p)
  PROVE  CountInv'
<1> USE CountTypes, CountSets DEF Count!object_step
<1>1. CountObj!IInv'
  BY CountOperationsMatch, CountObjectPreserved DEF CountInv
<1>2. CountInHand' = CountInHand /\ CountVarTypes' /\ CountAccounts' /\ CountForking'
  BY DEF CountInHand, CountInv, CountVarTypes, CountAccounts, CountForking
<1>3. /\ op[p].fits /\ gpc[p] \in {"idle", "wait", "held", "stored", "exited"}
      /\ gpc[p] \notin {"idle", "exited"} =>
                            \/ pc[p] = "count" /\ op[p].kind = "read"
                            \/ pc[p] = "wrote" /\ op[p].kind = "write"
      /\ sem # Count!Shm!Removed
  BY DEF CountInv, CountCallsMatch, Count!Shm!Removed
<1>4. CASE Count!Shm!sem_wait(p) \/ Count!Shm!sem_signal(p)
  <2>1. /\ \/ gpc[p] = "wait" /\ gpc' = [gpc EXCEPT ![p] = "held"]
           \/ gpc[p] = "stored" /\ gpc' = [gpc EXCEPT ![p] = "idle"]
        /\ sem' # -1
        /\ UNCHANGED <<shmdata, op, data, pc, replies>>
    BY <1>3, <1>4 DEF Count!Shm!sem_wait, Count!Shm!sem_signal
  <2>2. Uncounted' = Uncounted
    BY <2>1 DEF Uncounted
  <2>3. \A q \in Count!Procs : (HasRead(q)' => HasRead(q)) /\ (Writing(q)' => Writing(q))
    BY <2>1 DEF HasRead, Writing
  <2>4. RoomToCount' /\ CountPositive' /\ CountCallsMatch'
    BY <2>1, <2>2, <2>3 DEF CountInv, RoomToCount, CountPositive, CountCallsMatch
  <2> QED
    BY <1>1, <1>2, <2>4 DEF CountInv
<1>5. CASE Count!Shm!read_copy(p)
  <2>1. /\ pc[p] = "count" /\ gpc[p] = "held" /\ gpc' = [gpc EXCEPT ![p] = "stored"]
        /\ data' = [data EXCEPT ![p] = shmdata]
        /\ UNCHANGED <<sem, shmdata, op, pc, replies>>
    BY <1>3, <1>5 DEF Count!Shm!read_copy
  <2>2. Uncounted' = Uncounted
    BY <2>1 DEF Uncounted
  <2>3. \A q \in Count!Procs : (HasRead(q)' => HasRead(q) \/ q = p)
                         /\ (Writing(q)' => Writing(q) /\ q # p)
    BY <2>1 DEF HasRead, Writing
  <2>4. RoomToCount' /\ CountPositive' /\ CountCallsMatch'
    BY <2>1, <2>2, <2>3 DEF CountInv, RoomToCount, CountPositive, CountCallsMatch
  <2> QED
    BY <1>1, <1>2, <2>4 DEF CountInv
<1>6. CASE Count!Shm!write_copy(p)
  <2>1. /\ pc[p] = "wrote" /\ gpc[p] = "held" /\ gpc' = [gpc EXCEPT ![p] = "stored"]
        /\ shmdata' = data[p]
        /\ UNCHANGED <<sem, data, op, pc, replies>>
    BY <1>3, <1>6 DEF Count!Shm!write_copy
  <2>2. p \in Uncounted /\ Uncounted' = Uncounted \ {p}
    BY <2>1 DEF Uncounted
  <2>3. Cardinality(Uncounted') = Cardinality(Uncounted) - 1
    BY <2>2, Counted
  <2>4. Writing(p) /\ \A q \in Count!Procs : (HasRead(q)' => HasRead(q))
                                        /\ (Writing(q)' => Writing(q))
    BY <2>1 DEF HasRead, Writing
  <2>5. data[p] - 1 + Cardinality(Uncounted) <= replies /\ data[p] > 0
    BY <2>4 DEF CountInv, RoomToCount, CountPositive
  <2>6. RoomToCount'
    BY <2>1, <2>3, <2>4, <2>5 DEF CountInv, RoomToCount
  <2>7. CountPositive'
    BY <2>1, <2>4, <2>5 DEF CountInv, CountPositive
  <2>8. CountCallsMatch'
    BY <2>1 DEF CountInv, CountCallsMatch
  <2> QED
    BY <1>1, <1>2, <2>6, <2>7, <2>8 DEF CountInv
<1> QED
  BY <1>3, <1>4, <1>5, <1>6 DEF Count!Shm!Step, Count!Shm!length_error, Count!Shm!update_load,
         Count!Shm!update_store

\* The reaper: a root that it interrupts in the semop leaves its request uncounted.
LEMMA CountReaperStep ==
  ASSUME CountInv, Count!reaper
  PROVE  CountInv'
<1> USE CountTypes, CountSets DEF Count!reaper
<1>1. CASE gpc[Count!Root] = "wait" /\ sem = 0
  <2>1. /\ pc' = [pc EXCEPT ![Count!Root] = "uncounted"]
        /\ gpc' = [gpc EXCEPT ![Count!Root] = "exited"]
        /\ pc[Count!Root] \in {"count", "wrote"} /\ gpc[Count!Root] = "wait"
        /\ sigchld' = FALSE
        /\ UNCHANGED <<sem, shmdata, op, data, l, sent, queue, replies>>
    BY <1>1 DEF Count!Shm!sem_wait_fails, CountInv, CountCallsMatch
  <2>2. CountObj!IInv'
    BY <1>1, CountOperationsMatch, CountObjectPreserved DEF CountInv
  <2>3. CountInHand' = CountInHand /\ Uncounted' = Uncounted
    BY <2>1 DEF CountInHand, Uncounted
  <2>4. \A q \in Count!Procs : (HasRead(q)' => HasRead(q)) /\ (Writing(q)' => Writing(q))
    BY <2>1 DEF HasRead, Writing
  <2>5. CountVarTypes' /\ CountAccounts' /\ CountForking'
    BY <2>1, <2>3 DEF CountInv, CountVarTypes, CountAccounts, CountForking
  <2>6. RoomToCount' /\ CountPositive' /\ CountCallsMatch'
    BY <2>1, <2>3, <2>4 DEF CountInv, RoomToCount, CountPositive, CountCallsMatch
  <2> QED
    BY <2>2, <2>5, <2>6 DEF CountInv
<1>2. CASE ~(gpc[Count!Root] = "wait" /\ sem = 0)
  <2>1. /\ UNCHANGED <<sem, shmdata, gpc, op, data, pc, l, sent, queue, replies>>
        /\ sigchld' = FALSE
    BY <1>2
  <2>2. CountObj!IInv'
    BY <2>1 DEF CountInv, CountObj!IInv, CountObj!TypeOK, CountObj!OneInside,
                CountObj!TakenIffInside, CountObj!Inside, CountObj!LoadedIsCurrent,
                CountObj!OnlyUpdatesLoad
  <2>3. CountVarTypes'
    BY <2>1 DEF CountInv, CountVarTypes
  <2> QED
    BY <2>1, <2>2, <2>3 DEF CountInv, CountAccounts, CountInHand, RoomToCount, Uncounted,
                HasRead, Writing, CountPositive, CountCallsMatch, CountForking
<1> QED
  BY <1>1, <1>2

\* Back to the top of the loop.
LEMMA CountAgainStep ==
  ASSUME CountInv, NEW p \in Count!Procs, Count!again(p)
  PROVE  CountInv'
<1> USE CountTypes, CountSets DEF Count!again, Count!Goto
<1>1. CountObj!IInv'
  BY DEF CountInv, CountObj!IInv, CountObj!TypeOK, CountObj!OneInside, CountObj!TakenIffInside,
         CountObj!Inside, CountObj!LoadedIsCurrent, CountObj!OnlyUpdatesLoad
<1>2. CountInHand' = CountInHand /\ Uncounted' = Uncounted
  BY DEF CountInHand, Uncounted
<1>3. \A q \in Count!Procs : (HasRead(q)' => HasRead(q)) /\ (Writing(q)' => Writing(q))
  BY DEF HasRead, Writing
<1>4. CountVarTypes' /\ CountAccounts' /\ CountCallsMatch' /\ CountForking'
  BY <1>2 DEF CountInv, CountVarTypes, CountAccounts, CountCallsMatch, CountForking
<1>5. RoomToCount' /\ CountPositive'
  BY <1>2, <1>3 DEF CountInv, RoomToCount, CountPositive
<1> QED
  BY <1>1, <1>4, <1>5 DEF CountInv

\* Every step preserves the invariant.
LEMMA CountNextInv == CountInv /\ [Count!Next]_(Count!vars) => CountInv'
<1> SUFFICES ASSUME CountInv, [Count!Next]_(Count!vars) PROVE CountInv'
  OBVIOUS
<1>1. CASE Count!client_send \/ Count!fork \/ Count!fork_fails
  BY <1>1, CountOutsideStep
<1>2. ASSUME NEW p \in Count!Procs,
             \/ Count!recvfrom(p) \/ Count!recvfrom_fails(p) \/ Count!sendto_fails(p)
             \/ Count!sendto(p) \/ Count!call_read(p) \/ Count!call_write(p)
             \/ Count!again(p) \/ Count!object_step(p)
      PROVE  CountInv'
  BY <1>2, CountOutsideStep, CountAnswerStep, CountCallStep, CountAgainStep, CountObjectStep
<1>3. CASE UNCHANGED Count!vars
  BY <1>3 DEF Count!vars, CountInv, CountObj!IInv, CountObj!TypeOK, CountObj!OneInside,
              CountObj!TakenIffInside, CountObj!Inside, CountObj!LoadedIsCurrent,
              CountObj!OnlyUpdatesLoad, CountVarTypes, CountAccounts, CountInHand, RoomToCount,
              Uncounted, HasRead, Writing, CountPositive, CountCallsMatch, CountForking
<1> QED
  BY <1>1, <1>2, <1>3, CountReaperStep DEF Count!Next

\* The counter that is read and written in two critical sections, and the requests,
\* with failed system calls and the root interrupted in a semop: no datagram is
\* answered twice, and it is lost only with a process that ended for it; the counter,
\* which may lose updates, never runs ahead of the answers, and is not at zero when
\* an answer was counted.
THEOREM CounterKept == Count!Spec => []Count!CounterInv
<1>1. CountInv => Count!CounterInv
  <2> SUFFICES ASSUME CountInv PROVE Count!CounterInv
    OBVIOUS
  <2> USE CountTypes, CountSets
  <2>1. Count!Shm!TypeOK
    BY DEF CountInv, CountObj!IInv, CountObj!TypeOK, Count!Shm!TypeOK, CountObj!Section,
           Count!Shm!Section, CountObj!Kinds, Count!Shm!Kinds, CountObj!Removed,
           Count!Shm!Removed
  <2>2. Count!TypeOK
    BY <2>1, RequestsAssumption DEF CountInv, CountVarTypes, Count!TypeOK
  <2>3. Count!AnsweredOnce
    BY DEF Count!AnsweredOnce, CountAccounts, CountInHand, Cardinality, Count!Cardinality
  <2>4. Count!Quiescent => Uncounted = {p \in Count!Procs : pc[p] = "uncounted"}
    BY DEF Count!Quiescent, Count!Counting, Uncounted
  <2>5. shmdata <= replies
    BY DEF CountInv, RoomToCount
  <2>6. Count!Quiescent => (replies > Cardinality({p \in Count!Procs : pc[p] = "uncounted"})
                              => shmdata > 0)
    BY <2>4 DEF CountInv, CountPositive
  <2>7. Count!CounterBounds
    BY <2>5, <2>6 DEF Count!CounterBounds, Cardinality, Count!Cardinality
  <2> QED
    BY <2>2, <2>3, <2>7 DEF Count!CounterInv
<1> QED
  BY <1>1, CountInitInv, CountNextInv, PTL DEF Count!Spec
=============================================================================
