--------------------------- MODULE TaskOwnership ---------------------------
(***************************************************************************)
(* What the durable board claims promise: a task is owned by one scheduler *)
(* at a time, its worker runs under that scheduler's claim, and the claim  *)
(* is not given up while a worker may be left.                             *)
(***************************************************************************)
CONSTANT Tasks

VARIABLES
    owner,          \* owner[t]: the scheduler whose claim protects the task
    worker,         \* worker[t]: what works on it
    settled         \* settled[t]: its room has ended for good

Owners == {"none", "in_box", "external"}
Workers == {"none", "box", "orphan", "room"}

Init ==
    /\ owner = [t \in Tasks |-> "none"]
    /\ worker = [t \in Tasks |-> "none"]
    /\ settled = [t \in Tasks |-> FALSE]

\* A worker starts under its scheduler's own claim, where none was left; an
\* in-box one may outlive its gate; any may end.
WorkerStep(t) ==
    \/ worker'[t] = worker[t]
    \/ worker[t] = "none" /\ worker'[t] = "box" /\ owner[t] = "in_box"
    \/ worker[t] = "none" /\ worker'[t] = "room" /\ owner[t] = "external" /\ ~settled[t]
    \/ worker[t] = "box" /\ worker'[t] = "orphan"
    \/ worker'[t] = "none"

\* A claim is taken on a free task, and dropped once nothing works under it.
OwnerStep(t) ==
    \/ owner'[t] = owner[t]
    \/ owner[t] = "none" /\ worker'[t] = "none" /\ (owner'[t] = "external" => ~settled[t])
    \/ owner'[t] = "none" /\ worker'[t] = "none"

\* A room is settled as its claim is dropped, and never runs again.
SettleStep(t) ==
    \/ settled'[t] = settled[t]
    \/ settled'[t] /\ owner[t] = "external" /\ owner'[t] = "none"

Next ==
    /\ owner' \in [Tasks -> Owners] /\ worker' \in [Tasks -> Workers]
    /\ settled' \in [Tasks -> BOOLEAN]
    /\ \A t \in Tasks : WorkerStep(t) /\ OwnerStep(t) /\ SettleStep(t)

Spec == Init /\ [][Next]_<<owner, worker, settled>>
=============================================================================
