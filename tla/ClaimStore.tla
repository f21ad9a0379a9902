----------------------------- MODULE ClaimStore -----------------------------
(***************************************************************************)
(* The durable board claims of claim-store.js: one row per task at most,   *)
(* and one terminal receipt per room.  Each operator is one SQLite         *)
(* transaction.                                                            *)
(*                                                                         *)
(* A private holder carries the version of its row.  A row's version moves *)
(* with its own holder, or when another holder is issued, which leaves the *)
(* first one stale: keepers says where a current holder is kept.           *)
(***************************************************************************)
EXTENDS FiniteSets

CONSTANTS
    Tasks,          \* board tasks
    None,           \* no task
    Requests        \* lifecycle requests of desktop rooms, in flight at once

ASSUME KeeperAssumption == Requests \cap {"job", "cache"} = {}
ASSUME NoneAssumption == None \notin Tasks

VARIABLES
    claim,          \* claim[t]: the row of task t and who can speak for it
    receipt         \* receipt[t]: how the room of task t ended

LiveStates == {"active", "running", "awaiting_review", "completed"}
Keepers == {"job", "cache"} \cup Requests
Claims == [state : LiveStates \cup {"recovering", "none"},
           kind : {"in_box", "external", "none"},
           fresh : BOOLEAN,     \* the lease has not expired
           old : BOOLEAN,       \* acquired before the machine's last boot
           keepers : SUBSET Keepers]
NoClaim == [state |-> "none", kind |-> "none", fresh |-> FALSE, old |-> FALSE, keepers |-> {}]
Receipts == {"none", "done", "blocked"}

Row(t) == claim[t].state # "none"
External(t) == claim[t].kind = "external"
Live(t) == claim[t].state \in LiveStates /\ claim[t].fresh
Current(t, who) == Live(t) /\ who \in claim[t].keepers

\* A new row, and its only holder.
Acquired(kind, who) ==
    [state |-> "active", kind |-> kind, fresh |-> TRUE, old |-> FALSE, keepers |-> {who}]

\* Mutant: an expired row is taken over.
TakeExpired(t, kind, who) ==
    /\ ~Live(t)
    /\ claim' = [claim EXCEPT ![t] = Acquired(kind, who)]

TryAcquire(t, kind, who) ==
    /\ ~Row(t)
    /\ claim' = [claim EXCEPT ![t] = Acquired(kind, who)]

Transition(t, who, from, to) ==
    /\ Current(t, who) /\ claim[t].state = from
    /\ claim' = [claim EXCEPT ![t].state = to]

\* A current holder deletes its row.
Release(t, who) ==
    /\ Current(t, who)
    /\ claim' = [claim EXCEPT ![t] = NoClaim]

\* release as most callers use it: a refusal leaves the row.
ReleaseOrLeave(t, who) ==
    \/ Release(t, who)
    \/ ~Current(t, who) /\ UNCHANGED claim

\* The supervisor's capability issues a fresh holder for a live external row.
CanReattach(t) == External(t) /\ Live(t)

\* The supervisor's capability takes an external row whose lease is over, or
\* that is already recovering, and records kill, reap and bind revocation.
BeginExternalRecovery(t, who) ==
    /\ External(t) /\ ~Live(t)
    /\ claim' = [claim EXCEPT ![t].state = "recovering", ![t].keepers = {who}]

\* A terminal receipt replaces the row, in one transaction.
Receipt(t, how) ==
    /\ claim' = [claim EXCEPT ![t] = NoClaim]
    /\ receipt' = [receipt EXCEPT ![t] = how]

ReleaseExternalTerminal(t, who, how) ==
    /\ External(t) /\ Current(t, who)
    /\ Receipt(t, how)

ReleaseExternalRecovered(t, who, how) ==
    /\ External(t) /\ claim[t].state = "recovering" /\ who \in claim[t].keepers
    /\ Receipt(t, how)

\* Mutant: every in-box row is reaped, whenever it was acquired.
ReapAllAtStart(t, rebooted, reaps) ==
    LET c == [claim[t] EXCEPT !.keepers = {}]
    IN  IF reaps /\ c.kind = "in_box" THEN NoClaim ELSE c

\* What is left at the start of a gate: holders are private to a process,
\* and rows of in-box work acquired before the machine's boot are deleted,
\* unless the boot time or the store cannot be read.
AtStart(t, rebooted, reaps) ==
    LET c == [claim[t] EXCEPT !.keepers = {},
                              !.old = claim[t].kind = "in_box" /\ (@ \/ rebooted)]
    IN  IF reaps /\ c.old THEN NoClaim ELSE c
=============================================================================
