------------------------------ MODULE Worklist ------------------------------
(***************************************************************************)
(* What a reconcile loop makes of the names it is told about, without how. *)
(* A name that it has heard of stays on the list until the worker takes    *)
(* it; when its pass fails it is put back, MaxRetries times in a row, and  *)
(* only the end of the process clears the list.                            *)
(***************************************************************************)
EXTENDS Naturals

CONSTANTS Names, None, MaxRetries

VARIABLES
    todo,    \* the names that a pass is to come for
    job,     \* the name that the worker is at, or None
    fails    \* how often each name was put back since its last success

vars == <<todo, job, fails>>

Init == todo = {} /\ job = None /\ fails = [n \in Names |-> 0]

Hear == todo \subseteq todo' /\ todo' \subseteq Names /\ UNCHANGED <<job, fails>>

\* The name may be on the list for a second reason, and stay there.
Take ==
    /\ job = None
    /\ \E n \in todo : job' = n /\ todo' \in {todo, todo \ {n}}
    /\ UNCHANGED fails

\* The pass succeeds, or is given up.
Settle ==
    /\ \E n \in Names : job = n /\ fails' = [fails EXCEPT ![n] = 0]
    /\ job' = None
    /\ UNCHANGED todo

PutBack ==
    /\ \E n \in Names :
          /\ job = n /\ fails[n] < MaxRetries
          /\ fails' = [fails EXCEPT ![n] = @ + 1]
          /\ todo' = todo \cup {n}
    /\ job' = None

End == todo' = {} /\ job' = None /\ fails' = [n \in Names |-> 0]

Next == Hear \/ Take \/ Settle \/ PutBack \/ End

Step == [Next]_vars

Spec == Init /\ [][Next]_vars
=============================================================================
