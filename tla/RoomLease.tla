----------------------------- MODULE RoomLease -----------------------------
(***************************************************************************)
(* Desktop agent rooms over the durable claims: the lifecycle calls of     *)
(* gate.js (claim, heartbeat, complete, stop, recover), each of which      *)
(* awaits Hermes between a durable read and a durable write.               *)
(*                                                                         *)
(* A room's supervisor is outside the repository.  It starts its worker on *)
(* a grant, may ask again whenever an answer is lost, and completes, stops *)
(* or recovers (with its three attestations) only once its worker is gone. *)
(* An abandoned request goes on in the gate.                               *)
(***************************************************************************)
EXTENDS ClaimStore, HermesBoard

VARIABLES
    cache,          \* cache[t]: externalBoardClaims has an entry for t
    req,            \* req[q]: where a lifecycle request awaits, and its task
    room            \* room[t]: what runs in the room of task t

roomVars == <<cache, req, room>>

RoomStates == {"out", "live", "ended"}
Waits == {"idle", "claiming", "reclaiming", "resuming", "completing", "stopping", "recovering"}
NoRequest == [at |-> "idle", task |-> None]

Await(q, t, at) == req' = [req EXCEPT ![q] = [at |-> at, task |-> t]]
Answer(q) == req' = [req EXCEPT ![q] = NoRequest]
Forget(t) == cache' = [cache EXCEPT ![t] = FALSE]

\* The room hears a grant, or its answer is lost.
Granted(t) ==
    \/ room' = [room EXCEPT ![t] = IF @ = "out" THEN "live" ELSE @]
    \/ UNCHANGED room
\* The room hears that its lease is over.
Refused(t) ==
    \/ room' = [room EXCEPT ![t] = IF @ = "out" THEN "ended" ELSE @]
    \/ UNCHANGED room

\* The cached holder is current and its row runs.
Cached(t) == cache[t] /\ Current(t, "cache") /\ claim[t].state = "running"

-----------------------------------------------------------------------------
(* claim                                                                   *)

ClaimFromCache(t) ==
    /\ Cached(t) /\ Granted(t)
    /\ UNCHANGED <<claim, receipt, card, cache, req>>

\* Another scheduler's row, or a row that only recovery may touch.
ClaimRefused(t) ==
    /\ ~Cached(t) /\ Row(t) /\ ~CanReattach(t)
    /\ Forget(t)
    /\ IF External(t) THEN Refused(t) ELSE UNCHANGED room
    /\ UNCHANGED <<claim, receipt, card, req>>

\* A restart lost the holder: the same supervisor gets a new one.
ClaimReattached(q, t) ==
    /\ ~Cached(t) /\ CanReattach(t)
    /\ IF claim[t].state = "active"
       THEN /\ claim' = [claim EXCEPT ![t].keepers = {q}]
            /\ Forget(t) /\ Await(q, t, "resuming") /\ UNCHANGED room
       ELSE /\ claim' = [claim EXCEPT ![t].keepers = {"cache"}]
            /\ cache' = [cache EXCEPT ![t] = TRUE]
            /\ Granted(t) /\ UNCHANGED req
    /\ UNCHANGED <<receipt, card>>

ClaimReceipted(t) ==
    /\ ~Row(t) /\ receipt[t] # "none"
    /\ Forget(t) /\ Refused(t)
    /\ UNCHANGED <<claim, receipt, card, req>>

\* Mutant: the receipt of the room is not looked at.
ClaimUnread(q, t) ==
    /\ TryAcquire(t, "external", q)
    /\ Forget(t) /\ Await(q, t, "claiming")
    /\ UNCHANGED <<receipt, card, room>>

ClaimFresh(q, t) ==
    /\ receipt[t] = "none"
    /\ TryAcquire(t, "external", q)
    /\ Forget(t) /\ Await(q, t, "claiming")
    /\ UNCHANGED <<receipt, card, room>>

ClaimRequest(q, t) ==
    /\ req[q] = NoRequest
    /\ \/ ClaimFromCache(t) \/ ClaimRefused(t) \/ ClaimReattached(q, t)
       \/ ClaimReceipted(t) \/ ClaimFresh(q, t)

\* The row runs: the holder is cached and the room is told.
Grant(q, t) ==
    /\ Current(t, q) /\ claim[t].state = "active"
    /\ claim' = [claim EXCEPT ![t].state = "running", ![t].keepers = (@ \ {q}) \cup {"cache"}]
    /\ cache' = [cache EXCEPT ![t] = TRUE]
    /\ Granted(t)

\* Hermes answered the claim of a new row.
ClaimAnswered(q, t) ==
    /\ req[q] = [at |-> "claiming", task |-> t]
    /\ \E h \in Hermes("claim", card[t]) :
        /\ card' = [card EXCEPT ![t] = h.card]
        /\ \/ ~h.ok /\ ReleaseOrLeave(t, q) /\ Answer(q) /\ UNCHANGED <<cache, room>>
           \/ h.ok /\ Grant(q, t) /\ Answer(q)
           \/ h.ok /\ ~(Current(t, q) /\ claim[t].state = "active")
              /\ Await(q, t, "reclaiming") /\ UNCHANGED <<claim, cache, room>>
    /\ UNCHANGED receipt

\* The row could not run: the card was given back, and so is the row.
ClaimUndone(q, t) ==
    /\ req[q] = [at |-> "reclaiming", task |-> t]
    /\ card' \in {[card EXCEPT ![t] = d] : d \in After("reclaim", card[t])}
    /\ ReleaseOrLeave(t, q) /\ Answer(q)
    /\ UNCHANGED <<receipt, cache, room>>

\* Hermes shows the card running, after a claim if need be; or it does not.
ClaimResumed(q, t) ==
    /\ req[q] = [at |-> "resuming", task |-> t]
    /\ \E d \in After("claim", card[t]) :
        /\ card' = [card EXCEPT ![t] = d]
        /\ \/ d = "running" /\ Grant(q, t)
           \/ /\ d # "running" \/ "hermes" \in Faults
                \/ ~(Current(t, q) /\ claim[t].state = "active")
              /\ claim' = [claim EXCEPT ![t].keepers = @ \ {q}]
              /\ UNCHANGED <<cache, room>>
    /\ Answer(q)
    /\ UNCHANGED receipt

-----------------------------------------------------------------------------
(* The calls of a room that holds a lease: externalLeaseEntry              *)

\* A missing entry is reattached, a stale one is deleted.
LeaseRefused(t) ==
    /\ ~Cached(t) /\ (cache[t] \/ ~CanReattach(t) \/ claim[t].state # "running")
    /\ Forget(t)
    /\ claim' = [claim EXCEPT ![t].keepers =
                    IF ~cache[t] /\ CanReattach(t) THEN {} ELSE @ \ {"cache"}]

\* who gets the holder: the cache, and the request that goes on with it.
LeaseFor(t, who) ==
    /\ Cached(t) \/ (~cache[t] /\ CanReattach(t) /\ claim[t].state = "running")
    /\ cache' = [cache EXCEPT ![t] = TRUE]
    /\ claim' = [claim EXCEPT ![t].keepers =
                    (IF Cached(t) THEN @ ELSE {"cache"}) \cup who]

\* A renewal: the row's own holder moves its version and its expiry.
Heartbeat(t) ==
    /\ room[t] # "out"
    /\ LeaseRefused(t) \/ LeaseFor(t, {})
    /\ UNCHANGED <<receipt, card, req, room>>

\* complete or stop begins.
EndRequest(q, t, at) ==
    /\ req[q] = NoRequest /\ room[t] = "ended"
    /\ \/ LeaseRefused(t) /\ UNCHANGED req
       \/ LeaseFor(t, {q}) /\ Await(q, t, at)
    /\ UNCHANGED <<receipt, card, room>>

\* Hermes took the command: the receipt replaces the row, or the row stays.
Ended(q, t, how) ==
    \/ /\ ReleaseExternalTerminal(t, q, how)
       /\ Forget(t)
    \/ /\ ~Current(t, q)
       /\ claim' = [claim EXCEPT ![t].keepers = @ \ {q}]
       /\ UNCHANGED <<receipt, cache>>

NotEnded(q, t) ==
    /\ claim' = [claim EXCEPT ![t].keepers = @ \ {q}]
    /\ UNCHANGED <<receipt, cache>>

\* complete: accepted, and shown finished.
Completed(q, t) ==
    /\ req[q] = [at |-> "completing", task |-> t]
    /\ \E h \in Hermes("complete", card[t]) :
        /\ card' = [card EXCEPT ![t] = h.card]
        /\ IF h.ok /\ h.card = "done" THEN Ended(q, t, "done") ELSE NotEnded(q, t)
    /\ Answer(q)
    /\ UNCHANGED room

\* stop: the block was accepted, which is not checked on the card.
Stopped(q, t) ==
    /\ req[q] = [at |-> "stopping", task |-> t]
    /\ \E h \in Hermes("block", card[t]) :
        /\ card' = [card EXCEPT ![t] = h.card]
        /\ IF h.ok THEN Ended(q, t, "blocked") ELSE NotEnded(q, t)
    /\ Answer(q)
    /\ UNCHANGED room

-----------------------------------------------------------------------------
(* recover                                                                 *)

RecoverRequest(q, t) ==
    /\ req[q] = NoRequest /\ room[t] = "ended"
    /\ BeginExternalRecovery(t, q)
    /\ cache' = [cache EXCEPT ![t] = TRUE]
    /\ Await(q, t, "recovering")
    /\ UNCHANGED <<receipt, card, room>>

\* reclaim, claim, block: where they may leave a card that is still open.
Withdrawn(c) ==
    UNION {UNION {After("block", e) : e \in After("claim", d)} : d \in After("reclaim", c)}

\* The card is shown; an open one is withdrawn; the row gives way to a receipt.
Recovered(q, t) ==
    /\ req[q] = [at |-> "recovering", task |-> t]
    /\ \E d \in IF card[t] \in Terminal THEN {card[t]} ELSE Withdrawn(card[t]) :
        /\ card' = [card EXCEPT ![t] = d]
        /\ \/ /\ d \in Terminal
              /\ ReleaseExternalRecovered(t, q, d)
              /\ Forget(t)
           \/ /\ \/ d \notin Terminal \/ "hermes" \in Faults
                 \/ ~(External(t) /\ claim[t].state = "recovering" /\ q \in claim[t].keepers)
              /\ NotEnded(q, t)
    /\ Answer(q)
    /\ UNCHANGED room

-----------------------------------------------------------------------------
RoomInit ==
    /\ cache = [t \in Tasks |-> FALSE]
    /\ req = [q \in Requests |-> NoRequest]
    /\ room = [t \in Tasks |-> "out"]

RoomStep(q, t) ==
    \/ ClaimRequest(q, t) \/ ClaimAnswered(q, t) \/ ClaimUndone(q, t) \/ ClaimResumed(q, t)
    \/ EndRequest(q, t, "completing") \/ Completed(q, t)
    \/ EndRequest(q, t, "stopping") \/ Stopped(q, t)
    \/ RecoverRequest(q, t) \/ Recovered(q, t)
=============================================================================
