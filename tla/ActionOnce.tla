----------------------------- MODULE ActionOnce -----------------------------
(***************************************************************************)
(* What the recipe actions of a session promise: the command of a step     *)
(* runs at most once where the step's phase says so, in the order of the   *)
(* recipe, and only a command that ran to its end is confirmed.            *)
(*                                                                         *)
(* An occurrence is a record with the fields phase, step, obj (the system  *)
(* disk) and gen (the runtime generation).                                 *)
(***************************************************************************)
EXTENDS Naturals

CONSTANTS
    Occurrence,        \* the occurrences that may happen
    Before(_, _),      \* Before(p, o): p is due before o
    Same(_, _)         \* Same(p, o): p and o are the same piece of work

VARIABLES
    runs,       \* how often the command of an occurrence was started
    ended,      \* occurrences whose command exited successfully
    confirmed,  \* occurrences recorded as succeeded
    skipped     \* occurrences the operator chose to do without

vars == <<runs, ended, confirmed, skipped>>

Init ==
    /\ runs = [o \in Occurrence |-> 0]
    /\ ended = {} /\ confirmed = {} /\ skipped = {}

(* The only way a command starts: none of the same work ran before, nobody *)
(* gave it up, and everything due earlier is settled.                      *)
Run(o) ==
    /\ \A p \in Occurrence : Same(p, o) => runs[p] = 0 /\ p \notin skipped
    /\ \A p \in Occurrence : Before(p, o) =>
          \E q \in confirmed \cup skipped : Same(q, p)
    /\ runs' = [runs EXCEPT ![o] = 1]
    /\ UNCHANGED <<ended, confirmed, skipped>>

End(o) ==
    /\ runs[o] = 1
    /\ ended' = ended \cup {o}
    /\ UNCHANGED <<runs, confirmed, skipped>>

Confirm(o) ==
    /\ o \in ended \ skipped
    /\ confirmed' = confirmed \cup {o}
    /\ UNCHANGED <<runs, ended, skipped>>

Skip(o) ==
    /\ o \notin confirmed
    /\ skipped' = skipped \cup {o}
    /\ UNCHANGED <<runs, ended, confirmed>>

Next == \E o \in Occurrence : Run(o) \/ End(o) \/ Confirm(o) \/ Skip(o)

Spec == Init /\ [][Next]_vars
=============================================================================
