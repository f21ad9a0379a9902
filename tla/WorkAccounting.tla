--------------------------- MODULE WorkAccounting ---------------------------
(***************************************************************************)
(* What the budget of a chain promises, whatever launches, crashes and     *)
(* recoveries happen (maintenance-budget-store.js, header): a work         *)
(* identity owns one reservation, taken before anything is launched in its *)
(* name; it is charged at most once; it is given back only if nothing was  *)
(* launched; and the executions charged never exceed the cap.              *)
(***************************************************************************)
EXTENDS Naturals, FiniteSets

CONSTANTS
    Workers,        \* work identities (workerRefs)
    MaxExecs        \* structural limit on a chain's executions

VARIABLES
    account,        \* account[w]: what the budget says of w
    launched        \* identities that something was launched for

Accounts == {"none", "reserved", "settled", "refunded"}
Execs == {w \in Workers : account[w] \in {"reserved", "settled"}}

Init ==
    /\ account = [w \in Workers |-> "none"]
    /\ launched = {}

\* One attempt to launch w: reserved first, then launched or not; the charge
\* is open, final, or given back when nothing was launched.
Attempt(w) ==
    /\ account[w] = "none"
    /\ Cardinality(Execs) < MaxExecs
    /\ \E outcome \in {"reserved", "settled", "refunded"}, began \in BOOLEAN :
        /\ outcome = "refunded" => ~began
        /\ account' = [account EXCEPT ![w] = outcome]
        /\ launched' = IF began THEN launched \cup {w} ELSE launched

Settle(w) ==
    /\ account[w] = "reserved"
    /\ account' = [account EXCEPT ![w] = "settled"]
    /\ UNCHANGED launched

Next == \E w \in Workers : Attempt(w) \/ Settle(w)

Spec == Init /\ [][Next]_<<account, launched>>
=============================================================================
