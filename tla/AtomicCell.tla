----------------------------- MODULE AtomicCell -----------------------------
(***************************************************************************)
(* What glb_shm_obj.c promises its callers: one shared integer on which a  *)
(* read, a write, an increment and a decrement each take effect at a       *)
(* single instant between the call and the return.  A caller may die at    *)
(* any moment; a call it had not finished then took effect or did not.     *)
(***************************************************************************)
EXTENDS Integers

CONSTANTS Callers,   \* the activations of the object's operations
          Args       \* the integers a write may store

VARIABLES val,       \* the shared integer
          st,        \* st[c]: "idle", "pending", "applied" or "gone"
          req,       \* req[c]: what c asked for last
          res        \* res[c]: <<what the call left in c's buffer>>, or <<>>

vars == <<val, st, req, res>>

Requests == [kind : {"read", "inc", "dec"}, arg : {0}]
              \cup [kind : {"write"}, arg : Args]

\* The value the cell has after request r is applied to v.
After(r, v) == CASE r.kind = "read"  -> v
                 [] r.kind = "write" -> r.arg
                 [] r.kind = "inc"   -> v + 1
                 [] r.kind = "dec"   -> v - 1

Init == /\ val = 0
        /\ st = [c \in Callers |-> "idle"]
        /\ req \in [Callers -> Requests]
        /\ res = [c \in Callers |-> <<0>>]

Call(c, r) == /\ st[c] = "idle"
              /\ st' = [st EXCEPT ![c] = "pending"]
              /\ req' = [req EXCEPT ![c] = r]
              /\ res' = [res EXCEPT ![c] = <<>>]
              /\ UNCHANGED val

Apply(c) == /\ st[c] = "pending"
            /\ st' = [st EXCEPT ![c] = "applied"]
            /\ val' = After(req[c], val)
            /\ res' = [res EXCEPT ![c] = <<val'>>]
            /\ UNCHANGED req

Return(c) == /\ st[c] = "applied"
             /\ st' = [st EXCEPT ![c] = "idle"]
             /\ UNCHANGED <<val, req, res>>

Die(c) == /\ st' = [st EXCEPT ![c] = "gone"]
          /\ res' = [res EXCEPT ![c] = <<>>]
          /\ UNCHANGED <<val, req>>

Next == \E c \in Callers : \/ \E r \in Requests : Call(c, r)
                           \/ Apply(c)
                           \/ Return(c)
                           \/ Die(c)

Spec == Init /\ [][Next]_vars
=============================================================================
