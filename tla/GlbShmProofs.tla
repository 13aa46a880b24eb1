---------------------------- MODULE GlbShmProofs ----------------------------
(***************************************************************************)
(* Proofs about GlbShm, for any finite set of callers: the semaphore of    *)
(* glb_shm_obj.c is a mutex that is accounted for, no update is lost, and  *)
(* the object implements AtomicCell even when callers die.                 *)
(***************************************************************************)
EXTENDS GlbShm, FiniteSetTheorems, TLAPS

\* At most one caller is, or died, inside the critical section.
OneInside == \A c, d \in Inside : c = d

\* While the semaphore set exists, it is taken exactly when somebody is inside.
TakenIffInside == sem # Removed => (sem = 0 <=> Inside # {})

\* Only the callbacks of update_glb_data are ever between a load and a store.
OnlyUpdatesLoad ==
  \A c \in Callers : gpc[c] = "loaded" => op[c].kind \in {"inc", "dec"}

\* The inductive invariant: TypeOK bounds the semaphore by 1, which needs the
\* mutual exclusion, and LoadedIsCurrent needs it too.
IInv == /\ TypeOK /\ OneInside /\ TakenIffInside
        /\ LoadedIsCurrent /\ OnlyUpdatesLoad

Gone == {"exited", "died"}

\* One operation of one caller, whatever its arguments.
Operation(c) ==
  \/ \E k \in Kinds, v \in Int, fits \in BOOLEAN :
       (k = "write" => v \in Args) /\ Call(c, k, v, fits)
  \/ Step(c)
  \/ update_length_error(c) \/ sem_wait_fails(c) \/ killed(c)
  \/ destroy_glb_data(c)

\* A step of the specification is one operation of one caller.
LEMMA NextIsOperation ==
  ASSUME Next
  PROVE  \E c \in Callers : Operation(c)
<1>1. PICK c \in Callers : NewCall(c) \/ Step(c) \/ Failure(c)
  BY DEF Next
<1>2. CASE NewCall(c)
  <2>1. PICK fits \in BOOLEAN :
          \/ Call(c, "read", 0, fits)
          \/ \E v \in Args : Call(c, "write", v, fits)
          \/ Call(c, "inc", 0, fits)
          \/ Call(c, "dec", 0, fits)
    BY <1>2 DEF NewCall
  <2>2. \E k \in Kinds, v \in Int :
          (k = "write" => v \in Args) /\ Call(c, k, v, fits)
    BY <2>1, ArgsAssumption DEF Kinds
  <2> QED
    BY <2>2 DEF Operation
<1>3. CASE Step(c)
  BY <1>3 DEF Operation
<1>4. CASE Failure(c)
  BY <1>4 DEF Failure, Operation
<1> QED
  BY <1>1, <1>2, <1>3, <1>4

\* The initial state satisfies the inductive invariant.
LEMMA InitIInv == Init => IInv
<1> SUFFICES ASSUME Init PROVE IInv
  OBVIOUS
<1>1. Inside = {}
  BY DEF Init, Inside, Section
<1> QED
  BY <1>1 DEF Init, IInv, TypeOK, OneInside, TakenIffInside,
              LoadedIsCurrent, OnlyUpdatesLoad, Section, Kinds, Removed

\* Every operation, the failures included, preserves the inductive invariant.
LEMMA OperationIInv == \A c \in Callers : IInv /\ Operation(c) => IInv'
<1> SUFFICES ASSUME IInv, NEW c \in Callers, Operation(c)
             PROVE  IInv'
  OBVIOUS
<1> USE DEF IInv, TypeOK, Section, Kinds, Removed
<1>0. OnlyUpdatesLoad'
  BY DEF OnlyUpdatesLoad, Operation, Step, Call, sem_wait, length_error,
         read_copy, write_copy, update_load, update_store, sem_signal,
         update_length_error, sem_wait_fails, killed, destroy_glb_data
<1>1. CASE \E k \in Kinds, v \in Int, fits \in BOOLEAN :
             (k = "write" => v \in Args) /\ Call(c, k, v, fits)
  <2> PICK k \in Kinds, v \in Int, fits \in BOOLEAN : Call(c, k, v, fits)
    BY <1>1
  <2>0. /\ gpc' = [gpc EXCEPT ![c] = "wait"]
        /\ op' = [op EXCEPT ![c] = [kind |-> k, fits |-> fits]]
        /\ data' = [data EXCEPT ![c] = v]
        /\ UNCHANGED <<sem, shmdata>>
    BY DEF Call
  <2>1. TypeOK'
    BY <2>0
  <2>2. Inside' = Inside
    BY <1>1 DEF Call, TakenIffInside, LoadedIsCurrent, Inside
  <2>3. TakenIffInside'
    BY <1>1, <2>2 DEF Call, TakenIffInside, LoadedIsCurrent
  <2>4. LoadedIsCurrent'
    BY <1>1 DEF Call, TakenIffInside, LoadedIsCurrent, Inside
  <2> QED
    BY <1>0, <2>1, <2>2, <2>3, <2>4 DEF OneInside
<1>2. CASE sem_wait(c)
  <2>0. sem = 1 /\ sem' = 0 /\ Inside = {}
    BY <1>2 DEF sem_wait, TakenIffInside
  <2>1. TypeOK'
    BY <1>2, <2>0 DEF sem_wait
  <2>2. Inside' = {c}
    BY <1>2, <2>0 DEF sem_wait, Inside
  <2>3. TakenIffInside'
    BY <2>0, <2>2 DEF TakenIffInside
  <2>4. LoadedIsCurrent'
    BY <1>2 DEF sem_wait, TakenIffInside, LoadedIsCurrent, Inside
  <2> QED
    BY <1>0, <2>1, <2>2, <2>3, <2>4 DEF OneInside
<1>3. CASE length_error(c)
  <2>1. TypeOK'
    BY <1>3 DEF length_error, TakenIffInside, LoadedIsCurrent
  <2>2. Inside' = Inside
    BY <1>3 DEF length_error, TakenIffInside, LoadedIsCurrent, Inside
  <2>3. TakenIffInside'
    BY <1>3, <2>2 DEF length_error, TakenIffInside, LoadedIsCurrent
  <2>4. LoadedIsCurrent'
    BY <1>3 DEF length_error, TakenIffInside, LoadedIsCurrent, Inside
  <2> QED
    BY <1>0, <2>1, <2>2, <2>3, <2>4 DEF OneInside
<1>4. CASE read_copy(c)
  <2>1. TypeOK'
    BY <1>4 DEF read_copy, TakenIffInside, LoadedIsCurrent
  <2>2. Inside' = Inside
    BY <1>4 DEF read_copy, TakenIffInside, LoadedIsCurrent, Inside
  <2>3. TakenIffInside'
    BY <1>4, <2>2 DEF read_copy, TakenIffInside, LoadedIsCurrent
  <2>4. LoadedIsCurrent'
    BY <1>4 DEF read_copy, TakenIffInside, LoadedIsCurrent, Inside
  <2> QED
    BY <1>0, <2>1, <2>2, <2>3, <2>4 DEF OneInside
<1>5. CASE write_copy(c)
  <2>1. TypeOK'
    BY <1>5 DEF write_copy, TakenIffInside, LoadedIsCurrent, OneInside
  <2>2. Inside' = Inside
    BY <1>5 DEF write_copy, TakenIffInside, LoadedIsCurrent, OneInside, Inside
  <2>3. TakenIffInside'
    BY <1>5, <2>2 DEF write_copy, TakenIffInside, LoadedIsCurrent, OneInside
  <2>4. LoadedIsCurrent'
    BY <1>5 DEF write_copy, TakenIffInside, LoadedIsCurrent, OneInside, Inside
  <2> QED
    BY <1>0, <2>1, <2>2, <2>3, <2>4 DEF OneInside
<1>6. CASE update_load(c)
  <2>1. TypeOK'
    BY <1>6 DEF update_load, TakenIffInside, LoadedIsCurrent
  <2>2. Inside' = Inside
    BY <1>6 DEF update_load, TakenIffInside, LoadedIsCurrent, Inside
  <2>3. TakenIffInside'
    BY <1>6, <2>2 DEF update_load, TakenIffInside, LoadedIsCurrent
  <2>4. LoadedIsCurrent'
    BY <1>6 DEF update_load, TakenIffInside, LoadedIsCurrent, Inside
  <2> QED
    BY <1>0, <2>1, <2>2, <2>3, <2>4 DEF OneInside
<1>7. CASE update_store(c)
  <2>0. data'[c] \in Int /\ data' \in [Callers -> Int]
    BY <1>7 DEF update_store
  <2>1. TypeOK'
    BY <1>7, <2>0 DEF update_store
  <2>2. Inside' = Inside
    BY <1>7 DEF update_store, TakenIffInside, LoadedIsCurrent, OneInside, Inside
  <2>3. TakenIffInside'
    BY <1>7, <2>2 DEF update_store, TakenIffInside, LoadedIsCurrent, OneInside
  <2>4. LoadedIsCurrent'
    <3>1. \A d \in Callers : gpc[d] = "loaded" => d = c
      BY <1>7 DEF update_store, OneInside, Inside
    <3>2. \A d \in Callers : gpc'[d] # "loaded"
      BY <1>7, <3>1 DEF update_store
    <3> QED
      BY <3>2 DEF LoadedIsCurrent
  <2> QED
    BY <1>0, <2>1, <2>2, <2>3, <2>4 DEF OneInside
<1>8. CASE sem_signal(c)
  <2>1. c \in Inside /\ Inside = {c}
    BY <1>8 DEF sem_signal, Inside, OneInside
  <2>2. sem # Removed => sem = 0 /\ sem' = 1
    BY <1>8, <2>1 DEF sem_signal, TakenIffInside
  <2>3. sem = Removed => sem' = Removed
    BY <1>8 DEF sem_signal
  <2>4. TypeOK'
    BY <1>8, <2>2, <2>3 DEF sem_signal
  <2>5. Inside' = {}
    BY <1>8, <2>1 DEF sem_signal, Inside
  <2>6. TakenIffInside'
    BY <2>2, <2>3, <2>5 DEF TakenIffInside
  <2>7. LoadedIsCurrent'
    BY <1>8 DEF sem_signal, LoadedIsCurrent
  <2> QED
    BY <1>0, <2>4, <2>5, <2>6, <2>7 DEF OneInside
<1>9. CASE update_length_error(c) \/ sem_wait_fails(c)
  <2>1. TypeOK'
    BY <1>9 DEF update_length_error, sem_wait_fails, TakenIffInside, LoadedIsCurrent
  <2>2. Inside' = Inside
    BY <1>9 DEF update_length_error, sem_wait_fails, TakenIffInside, LoadedIsCurrent, Inside
  <2>3. TakenIffInside'
    BY <1>9, <2>2 DEF update_length_error, sem_wait_fails, TakenIffInside, LoadedIsCurrent
  <2>4. LoadedIsCurrent'
    BY <1>9 DEF update_length_error, sem_wait_fails, TakenIffInside, LoadedIsCurrent, Inside
  <2> QED
    BY <1>0, <2>1, <2>2, <2>3, <2>4 DEF OneInside
<1>10. CASE killed(c)
  <2>1. TypeOK'
    BY <1>10 DEF killed, TakenIffInside, LoadedIsCurrent
  <2>2. Inside' = Inside
    BY <1>10 DEF killed, TakenIffInside, LoadedIsCurrent, Inside
  <2>3. TakenIffInside'
    BY <1>10, <2>2 DEF killed, TakenIffInside, LoadedIsCurrent
  <2>4. LoadedIsCurrent'
    BY <1>10 DEF killed, TakenIffInside, LoadedIsCurrent, Inside
  <2> QED
    BY <1>0, <2>1, <2>2, <2>3, <2>4 DEF OneInside
<1>11. CASE destroy_glb_data(c)
  <2>1. TypeOK'
    BY <1>11 DEF destroy_glb_data, TakenIffInside, LoadedIsCurrent
  <2>2. Inside' = Inside
    BY <1>11 DEF destroy_glb_data, TakenIffInside, LoadedIsCurrent, Inside
  <2>3. TakenIffInside'
    BY <1>11, <2>2 DEF destroy_glb_data, TakenIffInside, LoadedIsCurrent
  <2>4. LoadedIsCurrent'
    BY <1>11 DEF destroy_glb_data, TakenIffInside, LoadedIsCurrent, Inside
  <2> QED
    BY <1>0, <2>1, <2>2, <2>3, <2>4 DEF OneInside
<1> QED
  BY <1>1, <1>2, <1>3, <1>4, <1>5, <1>6, <1>7, <1>8, <1>9, <1>10, <1>11
     DEF Operation, Step

\* The inductive invariant holds in every reachable state.
THEOREM IInvHolds == Spec => []IInv
<1>1. IInv /\ [Next]_vars => IInv'
  <2> SUFFICES ASSUME IInv, [Next]_vars PROVE IInv'
    OBVIOUS
  <2>1. CASE Next
    BY <2>1, NextIsOperation, OperationIInv
  <2>2. CASE UNCHANGED vars
    BY <2>2 DEF vars, IInv, TypeOK, OneInside, TakenIffInside,
                LoadedIsCurrent, Inside, OnlyUpdatesLoad
  <2> QED
    BY <2>1, <2>2
<1> QED
  BY <1>1, InitIInv, PTL DEF Spec

\* Type correctness: the semaphore in particular never exceeds one.
THEOREM TypeCorrect == Spec => []TypeOK
  BY IInvHolds, PTL DEF IInv

\* No update is lost: what a callback is about to replace is what it read.
THEOREM NoLostUpdate == Spec => []LoadedIsCurrent
  BY IInvHolds, PTL DEF IInv

\* The semaphore is taken exactly while one caller is inside, dead or alive.
THEOREM Accounted == Spec => []SemAccounted
<1>1. IInv => SemAccounted
  <2> SUFFICES ASSUME IInv, sem # Removed
               PROVE  Cardinality(Inside) = 1 - sem
    BY DEF SemAccounted
  <2>1. CASE Inside = {}
    BY <2>1, FS_EmptySet DEF IInv, TypeOK, TakenIffInside
  <2>2. CASE Inside # {}
    <3>1. PICK c : c \in Inside
      BY <2>2
    <3>2. Inside = {c}
      BY <3>1 DEF IInv, OneInside
    <3>3. Cardinality(Inside) = 1
      BY <3>2, FS_Singleton
    <3> QED
      BY <2>2, <3>3 DEF IInv, TakenIffInside
  <2> QED
    BY <2>1, <2>2
<1> QED
  BY <1>1, IInvHolds, PTL
-----------------------------------------------------------------------------
\* The object starts as the abstract cell does.
LEMMA InitRefines == Init => Cell!Init
  BY DEF Init, Cell!Init, Cell!Requests, AbsSt, AbsReq, AbsRes

\* A call, its effect, its return and a death are those of the abstract cell;
\* taking the semaphore and loading the value are invisible there.
LEMMA OperationRefines ==
  ASSUME IInv, NEW c \in Callers, Operation(c)
  PROVE  Cell!Next \/ UNCHANGED Cell!vars
<1> USE DEF IInv, TypeOK, Section, Kinds
<1> DEFINE Hidden == UNCHANGED <<AbsSt, AbsReq, AbsRes, shmdata>>
           Death  == /\ AbsSt' = [AbsSt EXCEPT ![c] = "gone"]
                     /\ AbsRes' = [AbsRes EXCEPT ![c] = <<>>]
                     /\ UNCHANGED <<shmdata, AbsReq>>
           Effect(v) == /\ AbsSt[c] = "pending"
                        /\ AbsSt' = [AbsSt EXCEPT ![c] = "applied"]
                        /\ shmdata' = v
                        /\ AbsRes' = [AbsRes EXCEPT ![c] = <<v>>]
                        /\ UNCHANGED AbsReq
<1>h. Hidden => UNCHANGED Cell!vars
  BY DEF Cell!vars
<1>d. Death => Cell!Next
  BY DEF Cell!Next, Cell!Die
<1>e. \A v : Effect(v) /\ v = Cell!After(AbsReq[c], shmdata) => Cell!Next
  BY DEF Cell!Next, Cell!Apply
<1>1. CASE \E k \in Kinds, v \in Int, fits \in BOOLEAN :
             (k = "write" => v \in Args) /\ Call(c, k, v, fits)
  <2>1. PICK k \in Kinds, v \in Int, fits \in BOOLEAN :
               (k = "write" => v \in Args) /\ Call(c, k, v, fits)
    BY <1>1
  <2> DEFINE r == [kind |-> k, arg |-> IF k = "write" THEN v ELSE 0]
  <2>2. r \in Cell!Requests
    BY <2>1 DEF Cell!Requests
  <2>3. AbsSt[c] = "idle" /\ AbsSt' = [AbsSt EXCEPT ![c] = "pending"]
    BY <2>1 DEF Call, AbsSt
  <2>4. AbsReq' = [AbsReq EXCEPT ![c] = r]
    BY <2>1 DEF Call, AbsReq
  <2>5. AbsRes' = [AbsRes EXCEPT ![c] = <<>>] /\ shmdata' = shmdata
    BY <2>1 DEF Call, AbsRes
  <2> QED
    BY <2>2, <2>3, <2>4, <2>5 DEF Cell!Next, Cell!Call
<1>2. CASE sem_wait(c)
  BY <1>2, <1>h DEF sem_wait, AbsSt, AbsReq, AbsRes
<1>3. CASE update_load(c)
  BY <1>3, <1>h DEF update_load, AbsSt, AbsReq, AbsRes
<1>4. CASE read_copy(c)
  <2>1. Effect(shmdata)
    BY <1>4 DEF read_copy, AbsSt, AbsReq, AbsRes
  <2>2. shmdata = Cell!After(AbsReq[c], shmdata)
    BY <1>4 DEF read_copy, AbsReq, Cell!After
  <2> QED
    BY <2>1, <2>2, <1>e
<1>5. CASE write_copy(c)
  <2>1. Effect(data[c])
    BY <1>5 DEF write_copy, AbsSt, AbsReq, AbsRes
  <2>2. data[c] = Cell!After(AbsReq[c], shmdata)
    BY <1>5 DEF write_copy, AbsReq, Cell!After
  <2> QED
    BY <2>1, <2>2, <1>e
<1>6. CASE update_store(c)
  <2> DEFINE v == IF op[c].kind = "inc" THEN shmdata + 1 ELSE shmdata - 1
  <2>1. c \in Inside /\ data[c] = shmdata
    BY <1>6 DEF update_store, Inside, LoadedIsCurrent
  <2>2. data' = [data EXCEPT ![c] = v] /\ shmdata' = v
    BY <1>6, <2>1 DEF update_store
  <2>3. Effect(v) \/ op[c].kind \notin {"inc", "dec"}
    BY <1>6, <2>2 DEF update_store, AbsSt, AbsReq, AbsRes
  <2>4. v = Cell!After(AbsReq[c], shmdata) \/ op[c].kind \notin {"inc", "dec"}
    BY DEF AbsReq, Cell!After
  <2>5. op[c].kind \in {"inc", "dec"}
    BY <1>6 DEF update_store, OnlyUpdatesLoad
  <2> QED
    BY <2>3, <2>4, <2>5, <1>e
<1>7. CASE sem_signal(c)
  <2>1. CASE sem = Removed
    BY <1>7, <2>1, <1>d DEF sem_signal, AbsSt, AbsReq, AbsRes
  <2>2. CASE sem # Removed
    <3>1. /\ AbsSt[c] = "applied"
          /\ AbsSt' = [AbsSt EXCEPT ![c] = "idle"]
          /\ UNCHANGED <<shmdata, AbsReq, AbsRes>>
      BY <1>7, <2>2 DEF sem_signal, AbsSt, AbsReq, AbsRes
    <3> QED
      BY <3>1 DEF Cell!Next, Cell!Return
  <2> QED
    BY <2>1, <2>2
<1>8. CASE length_error(c)
  BY <1>8, <1>d DEF length_error, AbsSt, AbsReq, AbsRes
<1>9. CASE update_length_error(c) \/ sem_wait_fails(c)
  BY <1>9, <1>d DEF update_length_error, sem_wait_fails, AbsSt, AbsReq, AbsRes
<1>10. CASE killed(c)
  BY <1>10, <1>d DEF killed, AbsSt, AbsReq, AbsRes
<1>11. CASE destroy_glb_data(c)
  BY <1>11, <1>d DEF destroy_glb_data, AbsSt, AbsReq, AbsRes
<1> QED
  BY <1>1, <1>2, <1>3, <1>4, <1>5, <1>6, <1>7, <1>8, <1>9, <1>10, <1>11
     DEF Operation, Step

\* glb_shm_obj.c implements the atomic cell, for any number of callers and
\* whichever of them die.
THEOREM Refines == Spec => ImplementsCell
<1>1. IInv /\ [Next]_vars => [Cell!Next]_(Cell!vars)
  <2> SUFFICES ASSUME IInv, [Next]_vars PROVE [Cell!Next]_(Cell!vars)
    OBVIOUS
  <2>1. CASE Next
    BY <2>1, NextIsOperation, OperationRefines
  <2>2. CASE UNCHANGED vars
    BY <2>2 DEF vars, Cell!vars, AbsSt, AbsReq, AbsRes
  <2> QED
    BY <2>1, <2>2
<1> QED
  BY <1>1, InitRefines, IInvHolds, PTL DEF Spec, ImplementsCell, Cell!Spec
=============================================================================
