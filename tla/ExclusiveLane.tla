--------------------------- MODULE ExclusiveLane ---------------------------
(***************************************************************************)
(* What a heavyweight-process lane promises to the rest of AgentHost,      *)
(* whatever asks it for a process: a lane has at most one owner, only the  *)
(* owner may have a running process tree, and the lane is freed only once  *)
(* that tree is gone.  AgentLane implements this.                          *)
(***************************************************************************)
CONSTANTS
    Lane,       \* the lanes of the box
    Tenant,     \* everything that can own a lane
    Nobody      \* the owner of a free lane

VARIABLES
    owner,      \* owner[l]: the tenant holding lane l, or Nobody
    running     \* running[l]: the tenants of lane l with a live process tree

vars == <<owner, running>>

Init == /\ owner = [l \in Lane |-> Nobody]
        /\ running = [l \in Lane |-> {}]

\* A free lane with nothing running on it is taken and a tree appears.
Launch(l, t) ==
    /\ owner[l] = Nobody
    /\ running[l] = {}
    /\ owner' = [owner EXCEPT ![l] = t]
    /\ running' = [running EXCEPT ![l] = {t}]

\* The lane is taken but the tree is already gone when the launch returns.
LaunchStillborn(l, t) ==
    /\ owner[l] = Nobody
    /\ running[l] = {}
    /\ owner' = [owner EXCEPT ![l] = t]
    /\ UNCHANGED running

\* Process trees end, on their own or killed, several lanes at a time.
Exit(R) ==
    /\ \A l \in Lane : R[l] \subseteq running[l]
    /\ running' = R
    /\ UNCHANGED owner

\* The owner gives the lane back; nothing may be running on it any more.
Free(l) ==
    /\ running[l] = {}
    /\ owner' = [owner EXCEPT ![l] = Nobody]
    /\ UNCHANGED running

Next ==
    \/ \E l \in Lane, t \in Tenant : Launch(l, t) \/ LaunchStillborn(l, t)
    \/ \E R \in [Lane -> SUBSET Tenant] : Exit(R)
    \/ \E l \in Lane : Free(l)

Spec == Init /\ [][Next]_vars
=============================================================================
