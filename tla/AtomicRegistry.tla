--------------------------- MODULE AtomicRegistry ---------------------------
(***************************************************************************)
(* What internal/registry promises to its callers, without lock file or     *)
(* storage: each call of Load, Append or MarkDeleted takes effect at most   *)
(* once, in one instant between its start and its answer; "ok" means that   *)
(* it took effect, an error means that it may or may not have; the answer   *)
(* of a Load is the registry of that instant.                               *)
(***************************************************************************)
EXTENDS RegistryDomain

CONSTANT Clients

VARIABLES store, state, op, arg, took, result, outcome

vars == <<store, state, op, arg, took, result, outcome>>

Idle(p) ==
    /\ state' = [state EXCEPT ![p] = "idle"]
    /\ op' = [op EXCEPT ![p] = "load"]
    /\ arg' = [arg EXCEPT ![p] = NoEntry]
    /\ took' = [took EXCEPT ![p] = FALSE]
    /\ result' = [result EXCEPT ![p] = {}]
    /\ outcome' = [outcome EXCEPT ![p] = "error"]

Init ==
    /\ store = NoRegistry
    /\ state = [p \in Clients |-> "idle"]
    /\ op = [p \in Clients |-> "load"]
    /\ arg = [p \in Clients |-> NoEntry]
    /\ took = [p \in Clients |-> FALSE]
    /\ result = [p \in Clients |-> {}]
    /\ outcome = [p \in Clients |-> "error"]

Start(p) ==
    /\ state[p] = "idle"
    /\ state' = [state EXCEPT ![p] = "pending"]
    /\ \/ /\ \E o \in {"load", "recover"} : op' = [op EXCEPT ![p] = o]
          /\ arg' = [arg EXCEPT ![p] = NoEntry]
       \/ /\ \E o \in {"append", "mark"} : op' = [op EXCEPT ![p] = o]
          /\ \E e \in Entry : arg' = [arg EXCEPT ![p] = e]
    /\ UNCHANGED <<store, took, result, outcome>>

\* What each operation does to the registry.
Effect(o, e) ==
    \/ o \in {"load", "recover"} /\ store' = store
    \/ /\ o = "recover" /\ store = NoRegistry
       /\ \E F \in SUBSET Files : F # {} /\ Valid(Rebuilt(F)) /\ store' = Rebuilt(F)
    \/ /\ o = "append" /\ CanAppend(Contents(store), e)
       /\ store' = Contents(store) \cup {e}
    \/ o = "mark" /\ store' = Marked(Contents(store), e)

TakeEffect(p) ==
    /\ state[p] = "pending"
    /\ ~took[p]
    /\ took' = [took EXCEPT ![p] = TRUE]
    /\ Effect(op[p], arg[p])
    /\ result' = [result EXCEPT ![p] = Contents(store')]
    /\ UNCHANGED <<state, op, arg, outcome>>

Respond(p, r) ==
    /\ state[p] = "pending"
    /\ r = "ok" => took[p]
    /\ state' = [state EXCEPT ![p] = "done"]
    /\ outcome' = [outcome EXCEPT ![p] = r]
    /\ UNCHANGED <<store, op, arg, took, result>>

\* The answer is taken, or the caller dies.
End(p) == state[p] # "idle" /\ Idle(p) /\ UNCHANGED store

Next ==
    \E p \in Clients :
        \/ Start(p)
        \/ TakeEffect(p)
        \/ \E r \in {"ok", "error"} : Respond(p, r)
        \/ End(p)

Spec == Init /\ [][Next]_vars
=============================================================================
