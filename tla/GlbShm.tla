------------------------------- MODULE GlbShm -------------------------------
(***************************************************************************)
(* The global shared memory object of chapter15/glb_shm_obj.c: an integer  *)
(* in System V shared memory, guarded by a System V semaphore.  Callers    *)
(* are activations (stack frames) of read_glb_data, write_glb_data and     *)
(* update_glb_data, in as many processes; the servers of chapter 15 that   *)
(* use the object instantiate this module with their own frames.           *)
(*                                                                         *)
(* The two callbacks the servers hand to update_glb_data load the integer  *)
(* into the caller's buffer, add or subtract one there, and store it back: *)
(* the load and the store are separate steps, so that what the semaphore   *)
(* excludes can happen when it does not.                                   *)
(***************************************************************************)
EXTENDS Integers, FiniteSets

CONSTANTS Callers,    \* activations of the object's operations
          Args,       \* the integers a caller may write
          Failures,   \* may a caller be killed, pass a bad length, or destroy?
          Window      \* bound: inc and dec are called only inside the window

ASSUME CallersAssumption == IsFiniteSet(Callers)
ASSUME ArgsAssumption    == Args \subseteq Int
ASSUME FailuresAssumption == Failures \in BOOLEAN
ASSUME WindowAssumption  == Window \in Nat

VARIABLES sem,        \* the value of the semaphore, or Removed
          shmdata,    \* the shared integer
          gpc,        \* gpc[c]: where caller c is
          op,         \* op[c]: the operation of c's last call
          data        \* data[c]: the caller's buffer, `void *data'

vars == <<sem, shmdata, gpc, op, data>>

Removed == -1
Kinds   == {"read", "write", "inc", "dec"}
Section == {"held", "loaded", "stored"}  \* between sem_wait and sem_signal

\* The callers inside the critical section, those that died there included:
\* the semaphore is taken without SEM_UNDO, so a death gives nothing back.
Inside == {c \in Callers : gpc[c] \in Section \cup {"died"}}

\* Mutant of Init: the semaphore is set to the number of processes it serves.
MutantInit == /\ sem = 2 /\ shmdata = 0
              /\ gpc = [c \in Callers |-> "idle"]
              /\ op = [c \in Callers |-> [kind |-> "read", fits |-> TRUE]]
              /\ data = [c \in Callers |-> 0]

Init == /\ sem = 1 /\ shmdata = 0
        /\ gpc = [c \in Callers |-> "idle"]
        /\ op = [c \in Callers |-> [kind |-> "read", fits |-> TRUE]]
        /\ data = [c \in Callers |-> 0]

\* The call instruction: v is what the buffer holds, fits is len <= shmdatalen.
Call(c, k, v, fits) ==
  /\ gpc[c] = "idle"
  /\ k \in {"inc", "dec"} => fits
  /\ gpc' = [gpc EXCEPT ![c] = "wait"]
  /\ op' = [op EXCEPT ![c] = [kind |-> k, fits |-> fits]]
  /\ data' = [data EXCEPT ![c] = v]
  /\ UNCHANGED <<sem, shmdata>>

\* update_glb_data tests the length before it takes the semaphore.
update_length_error(c) ==
  /\ gpc[c] = "idle"
  /\ gpc' = [gpc EXCEPT ![c] = "exited"]
  /\ UNCHANGED <<sem, shmdata, op, data>>

\* Mutant of sem_wait: IPC_NOWAIT, with the failure of semop not looked at.
MutantNoWait(c) ==
  /\ gpc[c] = "wait" /\ sem # Removed
  /\ sem' = 0
  /\ gpc' = [gpc EXCEPT ![c] = "held"]
  /\ UNCHANGED <<shmdata, op, data>>

sem_wait(c) ==
  /\ gpc[c] = "wait" /\ sem > 0
  /\ sem' = sem - 1
  /\ gpc' = [gpc EXCEPT ![c] = "held"]
  /\ UNCHANGED <<shmdata, op, data>>

\* semop fails (EINTR: it is never restarted after a handler; EIDRM: the set
\* was removed) and sem_wait takes the process down.
sem_wait_fails(c) ==
  /\ gpc[c] = "wait"
  /\ gpc' = [gpc EXCEPT ![c] = "exited"]
  /\ UNCHANGED <<sem, shmdata, op, data>>

\* read_glb_data and write_glb_data test the length inside the section.
length_error(c) ==
  /\ gpc[c] = "held" /\ ~op[c].fits
  /\ gpc' = [gpc EXCEPT ![c] = "died"]
  /\ UNCHANGED <<sem, shmdata, op, data>>

read_copy(c) ==
  /\ gpc[c] = "held" /\ op[c].kind = "read" /\ op[c].fits
  /\ data' = [data EXCEPT ![c] = shmdata]
  /\ gpc' = [gpc EXCEPT ![c] = "stored"]
  /\ UNCHANGED <<sem, shmdata, op>>

write_copy(c) ==
  /\ gpc[c] = "held" /\ op[c].kind = "write" /\ op[c].fits
  /\ shmdata' = data[c]
  /\ gpc' = [gpc EXCEPT ![c] = "stored"]
  /\ UNCHANGED <<sem, op, data>>

\* The callback's first memcpy.
update_load(c) ==
  /\ gpc[c] = "held" /\ op[c].kind \in {"inc", "dec"}
  /\ data' = [data EXCEPT ![c] = shmdata]
  /\ gpc' = [gpc EXCEPT ![c] = "loaded"]
  /\ UNCHANGED <<sem, shmdata, op>>

\* The callback's addition and its second memcpy.
update_store(c) ==
  /\ gpc[c] = "loaded"
  /\ data' = [data EXCEPT ![c] = IF op[c].kind = "inc" THEN @ + 1 ELSE @ - 1]
  /\ shmdata' = data'[c]
  /\ gpc' = [gpc EXCEPT ![c] = "stored"]
  /\ UNCHANGED <<sem, op>>

\* Mutant of sem_signal: the read returns early, without the release.
MutantReadKeeps(c) ==
  /\ gpc[c] = "stored"
  /\ sem' = IF op[c].kind = "read" \/ sem = Removed THEN sem ELSE sem + 1
  /\ gpc' = [gpc EXCEPT ![c] = IF sem = Removed THEN "exited" ELSE "idle"]
  /\ UNCHANGED <<shmdata, op, data>>

\* semop(+1); on a removed set it fails and takes the process down.
sem_signal(c) ==
  /\ gpc[c] = "stored"
  /\ sem' = IF sem = Removed THEN sem ELSE sem + 1
  /\ gpc' = [gpc EXCEPT ![c] = IF sem = Removed THEN "exited" ELSE "idle"]
  /\ UNCHANGED <<shmdata, op, data>>

\* The steps of a call, from the wait to the return.
Step(c) == \/ sem_wait(c) \/ length_error(c)
           \/ read_copy(c) \/ write_copy(c)
           \/ update_load(c) \/ update_store(c)
           \/ sem_signal(c)

\* A signal whose action is to terminate the process.
killed(c) ==
  /\ gpc[c] \notin {"exited", "died"}
  /\ gpc' = [gpc EXCEPT ![c] = IF @ \in Section THEN "died" ELSE "exited"]
  /\ UNCHANGED <<sem, shmdata, op, data>>

\* The caller detaches the memory and removes the semaphore set under the
\* feet of the others; the memory itself lives while others are attached.
destroy_glb_data(c) ==
  /\ gpc[c] = "idle" /\ sem # Removed
  /\ sem' = Removed
  /\ gpc' = [gpc EXCEPT ![c] = "exited"]
  /\ UNCHANGED <<shmdata, op, data>>

\* Calls made inside the window that bounds the counter.
NewCall(c) ==
  \E fits \in IF Failures THEN BOOLEAN ELSE {TRUE} :
    \/ Call(c, "read", 0, fits)
    \/ \E v \in Args : Call(c, "write", v, fits)
    \/ shmdata < Window /\ Call(c, "inc", 0, fits)
    \/ shmdata > -Window /\ Call(c, "dec", 0, fits)

Failure(c) == /\ Failures
              /\ \/ update_length_error(c) \/ sem_wait_fails(c)
                 \/ killed(c) \/ destroy_glb_data(c)

Next == \E c \in Callers : NewCall(c) \/ Step(c) \/ Failure(c)

Spec == Init /\ [][Next]_vars

\* A process that is scheduled takes the steps of its call.  semop serves the
\* waiting processes in the order they came, so none is overtaken for ever, and
\* fails in all of them when the set is removed.
Fairness == \A c \in Callers : /\ WF_vars(Step(c)) /\ SF_vars(sem_wait(c))
                                /\ WF_vars(sem = Removed /\ sem_wait_fails(c))
FairSpec == Spec /\ Fairness
-----------------------------------------------------------------------------
TypeOK == /\ sem \in {Removed, 0, 1}
          /\ shmdata \in Int
          /\ gpc \in [Callers -> Section \cup {"idle", "wait", "exited", "died"}]
          /\ op \in [Callers -> [kind : Kinds, fits : BOOLEAN]]
          /\ data \in [Callers -> Int]

\* The semaphore is a mutex and is accounted for: while the set exists, at most
\* one caller is (or died) between sem_wait and sem_signal, and the semaphore
\* is taken exactly then (glb_shm_obj.c, semop -1 and +1 without SEM_UNDO).
SemAccounted == sem # Removed => Cardinality(Inside) = 1 - sem

\* Nothing is stored between a callback's load and its store: the value it is
\* about to replace is the one it read (the whole point of update_glb_data).
LoadedIsCurrent == \A c \in Callers : gpc[c] = "loaded" => data[c] = shmdata

\* Nobody starves on the semaphore: every call returns, unless its caller ends,
\* or a caller ended inside the critical section and so keeps the semaphore.
CallReturns ==
  \A c \in Callers :
    gpc[c] = "wait" ~> gpc[c] \in {"idle", "exited"} \/ \E d \in Callers : gpc[d] = "died"
-----------------------------------------------------------------------------
\* The refinement: an operation takes effect when its copy or store is done.
AbsSt  == [c \in Callers |->
             CASE gpc[c] = "idle"   -> "idle"
               [] gpc[c] = "stored" -> "applied"
               [] gpc[c] \in {"wait", "held", "loaded"} -> "pending"
               [] OTHER -> "gone"]
AbsReq == [c \in Callers |->
             [kind |-> op[c].kind,
              arg  |-> IF op[c].kind = "write" THEN data[c] ELSE 0]]
AbsRes == [c \in Callers |->
             IF gpc[c] \in {"stored", "idle"} THEN <<data[c]>> ELSE <<>>]

Cell == INSTANCE AtomicCell WITH val <- shmdata, st <- AbsSt,
                                 req <- AbsReq, res <- AbsRes

\* Each operation of glb_shm_obj.c takes effect at one instant between its call
\* and its return, and leaves in the buffer what it read or wrote.
ImplementsCell == Cell!Spec
=============================================================================
