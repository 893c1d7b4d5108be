--------------------------- MODULE AcceptedHistory --------------------------
(***************************************************************************)
(* What the authority, the event log and the ledger promise together: one  *)
(* durable history of accepted transitions, each id in it at most once,    *)
(* that only grows; and callers are told of recorded transitions only, at  *)
(* the place they keep.  Nothing here is lost by a crash, a lost or late   *)
(* message or a retry.                                                     *)
(***************************************************************************)
EXTENDS Naturals, Sequences

CONSTANTS ID, Body

Transition == [id : ID, body : Body]
Promise == [id : ID, body : Body, seq : Nat]

VARIABLES
    history,   \* the recorded transitions
    promised   \* the transitions a caller was told are accepted

vars == <<history, promised>>

TypeOK ==
    /\ history \in Seq(Transition)
    /\ promised \subseteq Promise

Init == history = <<>> /\ promised = {}

\* A transition with a new id is recorded.
Record ==
    /\ \E e \in Transition :
         /\ \A n \in 1..Len(history) : history[n].id # e.id
         /\ history' = Append(history, e)
    /\ UNCHANGED promised

\* A caller is told of a recorded transition.
Tell ==
    /\ \E n \in 1..Len(history) :
         promised' = promised \cup
           {[id |-> history[n].id, body |-> history[n].body, seq |-> n]}
    /\ UNCHANGED history

Next == Record \/ Tell

Spec == Init /\ [][Next]_vars
============================================================================
