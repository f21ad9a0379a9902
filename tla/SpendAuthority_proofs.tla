----------------------- MODULE SpendAuthority_proofs -----------------------
(***************************************************************************)
(* What the spending authority guarantees for every set of runs, requests  *)
(* and limits and under every set of faults, as far as no amount matters:  *)
(* the phases of requests and runs and the reservations that back them.    *)
(* SpendAccounting_proofs builds the amounts on it.                        *)
(***************************************************************************)
EXTENDS SpendAuthority, TLAPS

USE RunAssumption

\* The fields of the records, and the phases: the typing without amounts.
Shape ==
    /\ DOMAIN file = {"limits", "settled", "held"}
    /\ DOMAIN synced = {"limits", "settled", "held"}
    /\ DOMAIN run = Runs /\ DOMAIN req = Requests
    /\ \A r \in Runs : /\ DOMAIN run[r] = {"phase", "limits", "day", "settled"}
                       /\ run[r].phase \in RunPhases
    /\ \A q \in Requests : /\ DOMAIN req[q] = {"phase", "day", "usd", "bill"}
                           /\ req[q].phase \in ReqPhases

\* A request that may leave has a reservation in both images of the file.
Backed(q) ==
    req[q].phase \in {"admitted", "sent"} =>
        \E h \in file.held : h \in synced.held /\ h.req = q

\* A settled request holds nothing any more.
Cleared(q) == req[q].phase = "ended" => \A h \in file.held : h.req # q

\* A request does not outrun the phases of its own run.
InStep(q) ==
    /\ req[q].phase # "idle" => run[RunOf[q]].phase # "idle"
    /\ req[q].phase = "lost" => run[RunOf[q]].phase = "lost"
    /\ run[RunOf[q]].phase = "closed" => req[q].phase \in {"idle", "denied", "ended"}

SInv == Shape /\ \A q \in Requests : Backed(q) /\ Cleared(q) /\ InStep(q)

-----------------------------------------------------------------------------
(* The file                                                                *)

\* The reservations of other requests survive every write about q, and so
\* do those of q itself unless they are cancelled.
LEMMA Writes ==
    ASSUME Shape, NEW q \in Requests, NEW new,
           \/ \E d, usd : new = Reserved(Reservation(q, d, usd))
           \/ new = Cancelled(q)
           \/ \E usd : new = Settled(q, usd)
    PROVE  /\ DOMAIN new = {"limits", "settled", "held"}
           /\ \A h : h.req # q => (h \in new.held <=> h \in file.held)
<1>1. ASSUME NEW d, NEW usd, new = Reserved(Reservation(q, d, usd))
      PROVE  /\ DOMAIN new = {"limits", "settled", "held"}
             /\ new.held = file.held \cup {Reservation(q, d, usd)}
             /\ Reservation(q, d, usd).req = q
  BY <1>1 DEF Shape, Reserved, Reservation
<1>2. /\ DOMAIN Cancelled(q) = {"limits", "settled", "held"}
      /\ Cancelled(q).held = file.held \ HeldFor(q)
  BY DEF Shape, Cancelled
<1>3. ASSUME NEW usd
      PROVE  /\ DOMAIN Settled(q, usd) = {"limits", "settled", "held"}
             /\ Settled(q, usd).held = file.held \ HeldFor(q)
  BY <1>2 DEF Settled
<1> QED
  BY <1>1, <1>2, <1>3 DEF HeldFor

\* What a write about q, refused or not, leaves of the other reservations.
OthersKept(q) ==
    /\ DOMAIN file' = {"limits", "settled", "held"}
    /\ DOMAIN synced' = {"limits", "settled", "held"}
    /\ \A h : h.req # q => /\ h \in file'.held <=> h \in file.held
                           /\ h \in file.held /\ h \in synced.held => h \in synced'.held

LEMMA WriteStep ==
    ASSUME Shape, NEW q \in Requests, NEW new,
           \/ \E d, usd : new = Reserved(Reservation(q, d, usd))
           \/ new = Cancelled(q)
           \/ \E usd : new = Settled(q, usd),
           Saved(new) \/ NotSaved(new)
    PROVE  OthersKept(q)
  BY Writes DEF Saved, NotSaved, OthersKept, Shape

\* Only q moves among the requests, into a phase; runs keep their shape.
Moves(q, phase) ==
    /\ DOMAIN req' = Requests /\ \A p \in Requests \ {q} : req'[p] = req[p]
    /\ DOMAIN req'[q] = {"phase", "day", "usd", "bill"} /\ req'[q].phase = phase
RunsShaped ==
    /\ DOMAIN run' = Runs
    /\ \A r \in Runs : /\ DOMAIN run'[r] = {"phase", "limits", "day", "settled"}
                       /\ run'[r].phase \in RunPhases

\* A step about q keeps the invariant if it keeps it for q, and the run of q
\* stays in step with its other requests.
LEMMA StepAbout ==
    ASSUME SInv, NEW q \in Requests, NEW phase \in ReqPhases, Moves(q, phase), RunsShaped,
           OthersKept(q),
           \A p \in Requests \ {q} : InStep(p)',
           Backed(q)', Cleared(q)', InStep(q)'
    PROVE  SInv'
<1>1. ASSUME NEW p \in Requests \ {q} PROVE Backed(p)' /\ Cleared(p)'
  <2>1. Backed(p) /\ Cleared(p)
    BY DEF SInv
  <2> QED
    BY <2>1 DEF OthersKept, Backed, Cleared, Moves
<1>2. Shape'
  BY DEF SInv, Shape, Moves, RunsShaped, OthersKept
<1> QED
  BY <1>1, <1>2 DEF SInv

\* A run that goes on, refuses or fails stays in step with its requests; so
\* does the run of a turn, which has no other.
LEMMA RunGoesOn ==
    ASSUME SInv, NEW q \in Requests, \A p \in Requests \ {q} : req'[p] = req[p],
           \A r \in Runs \ {RunOf[q]} : run'[r].phase = run[r].phase,
           \/ run'[RunOf[q]].phase = run[RunOf[q]].phase
           \/ /\ run'[RunOf[q]].phase \in {"open", "refusing", "failed"}
              /\ run[RunOf[q]].phase # "lost"
           \/ RunOf[q] \notin Relayed
    PROVE  \A p \in Requests \ {q} : InStep(p)'
<1> SUFFICES ASSUME NEW p \in Requests \ {q} PROVE InStep(p)'
  OBVIOUS
<1>1. InStep(p) /\ req'[p] = req[p] /\ RunOf[p] \in Runs
  BY DEF SInv
<1> QED
  BY <1>1, OneRequestPerTurn DEF InStep

-----------------------------------------------------------------------------
(* The steps                                                               *)

\* A reservation is written ahead, and then the request may go on.
LEMMA Reserves ==
    ASSUME SInv, NEW q \in Requests, NEW d, NEW usd, NEW phase \in {"admitted", "sent"},
           Saved(Reserved(Reservation(q, d, usd))), Moves(q, phase), RunsShaped,
           run'[RunOf[q]].phase = "open", \A p \in Requests \ {q} : InStep(p)'
    PROVE  SInv'
<1>0. Shape
  BY DEF SInv
<1>1. OthersKept(q)
  BY <1>0, WriteStep
<1>2. /\ Reservation(q, d, usd) \in Reserved(Reservation(q, d, usd)).held
      /\ Reservation(q, d, usd).req = q
  BY <1>0 DEF Reservation, Reserved, Shape
<1>3. Backed(q)'
  BY <1>2 DEF Backed, Saved
<1>4. Cleared(q)' /\ InStep(q)' /\ phase \in ReqPhases
  BY DEF Cleared, InStep, Moves, ReqPhases
<1> QED
  BY <1>1, <1>3, <1>4, StepAbout

\* A request is denied, or its accounting failed: what it left is kept.
LEMMA Fails ==
    ASSUME SInv, NEW q \in Requests, NEW phase \in {"denied", "stuck"}, Moves(q, phase),
           RunsShaped, OthersKept(q), run'[RunOf[q]].phase # "idle",
           phase = "stuck" => run'[RunOf[q]].phase # "closed",
           \A p \in Requests \ {q} : InStep(p)'
    PROVE  SInv'
<1>1. Backed(q)' /\ Cleared(q)' /\ InStep(q)' /\ phase \in ReqPhases
  BY DEF Backed, Cleared, InStep, Moves, ReqPhases
<1> QED
  BY <1>1, StepAbout

\* A request is settled, or cancelled: it holds nothing any more.
LEMMA Settles ==
    ASSUME SInv, NEW q \in Requests, NEW new, new = Cancelled(q) \/ \E usd : new = Settled(q, usd),
           Saved(new), Moves(q, "ended"), RunsShaped,
           run'[RunOf[q]].phase # "idle", \A p \in Requests \ {q} : InStep(p)'
    PROVE  SInv'
<1>0. Shape
  BY DEF SInv
<1>1. OthersKept(q)
  BY <1>0, WriteStep
<1>2. new.held = file.held \ HeldFor(q)
  BY <1>0 DEF Shape, Settled, Cancelled
<1>3. Cleared(q)'
  BY <1>2 DEF Cleared, Saved, HeldFor
<1>4. Backed(q)' /\ InStep(q)' /\ "ended" \in ReqPhases
  BY DEF Backed, InStep, Moves, ReqPhases
<1> QED
  BY <1>1, <1>3, <1>4, StepAbout

\* A request of a contained run is reserved, or denied.
LEMMA AdmitStep ==
    ASSUME SInv, NEW q \in Requests, Admit(q)
    PROVE  SInv'
<1> DEFINE r == RunOf[q]
           d == run[r].day
           usd == Amount(Available(run[r].limits, run[r].settled, r, d))
           new == Reserved(Reservation(q, d, usd))
<1>0. Shape /\ req[q].phase = "idle" /\ UNCHANGED run /\ run[r].phase = "open" /\ r \in Runs
  BY DEF SInv, Admit
<1>1. /\ \A p \in Requests \ {q} : InStep(p)' \/ req'[p] # req[p]
      /\ RunsShaped
  BY <1>0 DEF SInv, InStep, RunsShaped, Shape
<1>2. CASE /\ Saved(new)
           /\ req' = [req EXCEPT ![q] = [phase |-> "admitted", day |-> d, usd |-> usd, bill |-> 0]]
  <2>1. Moves(q, "admitted")
    BY <1>0, <1>2 DEF Shape, Moves
  <2> QED
    BY <1>0, <1>1, <1>2, <2>1, Reserves DEF Moves
<1>3. CASE /\ NotSaved(new)
           /\ req' = [req EXCEPT ![q] = [phase |-> "denied", day |-> d, usd |-> usd, bill |-> 0]]
  <2>1. Moves(q, "denied") /\ OthersKept(q)
    BY <1>0, <1>3, WriteStep DEF Shape, Moves
  <2> QED
    BY <1>0, <1>1, <2>1, Fails DEF Moves
<1>4. CASE req' = [req EXCEPT ![q].phase = "denied"] /\ UNCHANGED <<file, synced>>
  <2>1. Moves(q, "denied") /\ OthersKept(q)
    BY <1>0, <1>4 DEF Shape, Moves, OthersKept
  <2> QED
    BY <1>0, <1>1, <2>1, Fails DEF Moves
<1> QED
  BY <1>2, <1>3, <1>4 DEF Admit

\* A turn reserves and sends in one step, or is over.
LEMMA TurnStep ==
    ASSUME SInv, NEW q \in Requests, Turn(q)
    PROVE  SInv'
<1> DEFINE r == RunOf[q]
           usd == Amount(Available(file.limits, 0, r, today))
           new == Reserved(Reservation(q, today, usd))
           opened == [phase |-> "open", limits |-> file.limits, day |-> today, settled |-> 0]
<1>0. Shape /\ r \notin Relayed /\ r \in Runs
  BY DEF SInv, Turn
<1>1. \/ run' = [run EXCEPT ![r] = opened]
      \/ run' = [run EXCEPT ![r] = [opened EXCEPT !.phase = "closed"]]
  BY DEF Turn
<1>2. /\ RunsShaped /\ run'[r].phase \in {"open", "closed"}
      /\ \A s \in Runs \ {r} : run'[s].phase = run[s].phase
  BY <1>0, <1>1 DEF Shape, RunsShaped, RunPhases
<1>3. (\A p \in Requests \ {q} : req'[p] = req[p]) => \A p \in Requests \ {q} : InStep(p)'
  BY <1>0, <1>2, RunGoesOn
<1>4. CASE /\ Saved(new) /\ run' = [run EXCEPT ![r] = opened]
           /\ \E bill \in Bills(usd) :
                req' = [req EXCEPT ![q] = [phase |-> "sent", day |-> today, usd |-> usd, bill |-> bill]]
  <2>1. Moves(q, "sent") /\ run'[r].phase = "open"
    BY <1>0, <1>4 DEF Shape, Moves
  <2> QED
    BY <1>2, <1>3, <1>4, <2>1, Reserves DEF Moves
<1>5. CASE /\ NotSaved(new)
           /\ req' = [req EXCEPT ![q] = [phase |-> "denied", day |-> today, usd |-> usd, bill |-> 0]]
  <2>1. Moves(q, "denied") /\ OthersKept(q)
    BY <1>0, <1>5, WriteStep DEF Shape, Moves
  <2> QED
    BY <1>2, <1>3, <2>1, Fails DEF Moves
<1>6. CASE req' = [req EXCEPT ![q].phase = "denied"] /\ UNCHANGED <<file, synced>>
  <2>1. Moves(q, "denied") /\ OthersKept(q)
    BY <1>0, <1>6 DEF Shape, Moves, OthersKept
  <2> QED
    BY <1>2, <1>3, <2>1, Fails DEF Moves
<1> QED
  BY <1>4, <1>5, <1>6 DEF Turn

\* An admitted request leaves: its reservation is already there.
LEMMA SendStep ==
    ASSUME SInv, NEW q \in Requests, Send(q)
    PROVE  SInv'
<1>0. Shape /\ Backed(q) /\ InStep(q) /\ RunOf[q] \in Runs
  BY DEF SInv
<1>1. Moves(q, "sent")
  BY <1>0 DEF Send, Shape, Moves
<1>2. UNCHANGED <<file, synced, run>> /\ req[q].phase = "admitted" /\ run[RunOf[q]].phase = "open"
  BY DEF Send
<1>3. RunsShaped /\ OthersKept(q)
  BY <1>0, <1>2 DEF Shape, RunsShaped, OthersKept
<1>4. Backed(q)' /\ Cleared(q)' /\ InStep(q)'
  BY <1>0, <1>1, <1>2 DEF Backed, Cleared, InStep, Moves
<1>5. \A p \in Requests \ {q} : InStep(p)'
  BY <1>1, <1>2 DEF SInv, Moves, InStep
<1> QED
  BY <1>1, <1>3, <1>4, <1>5, StepAbout DEF ReqPhases

\* A run that is marked failed refuses if it was open, and is as it was if not.
LEMMA Marked ==
    ASSUME Shape, NEW r \in Runs
    PROVE  /\ DOMAIN MarkFailed(r) = Runs
           /\ \A s \in Runs : /\ DOMAIN MarkFailed(r)[s] = {"phase", "limits", "day", "settled"}
                              /\ MarkFailed(r)[s].phase \in RunPhases
           /\ \A s \in Runs \ {r} : MarkFailed(r)[s].phase = run[s].phase
           /\ \/ MarkFailed(r)[r].phase = run[r].phase
              \/ MarkFailed(r)[r].phase = "refusing" /\ run[r].phase = "open"
<1>1. CASE run[r].phase = "open"
  <2>1. MarkFailed(r) = [run EXCEPT ![r].phase = "refusing"]
    BY <1>1 DEF MarkFailed
  <2> QED
    BY <1>1, <2>1 DEF Shape, RunPhases
<1>2. CASE run[r].phase # "open"
  BY <1>2 DEF MarkFailed, Shape
<1> QED
  BY <1>1, <1>2

\* What a request that is accounted for may do to its run.
RunAfter(r) ==
    /\ RunsShaped
    /\ \A s \in Runs \ {r} : run'[s].phase = run[s].phase
    /\ \/ run'[r].phase = run[r].phase
       \/ run'[r].phase = "refusing" /\ run[r].phase = "open"

\* An outstanding request is settled or cancelled, or sticks.
LEMMA AccountStep ==
    ASSUME SInv, NEW q \in Requests, req[q].phase \in {"admitted", "sent"}, RunAfter(RunOf[q]),
           NEW new, new = Cancelled(q) \/ \E usd : new = Settled(q, usd),
           \/ Saved(new) /\ req' = [req EXCEPT ![q].phase = "ended"]
           \/ NotSaved(new) /\ req' = [req EXCEPT ![q].phase = "stuck"]
    PROVE  SInv'
<1>0. Shape /\ InStep(q) /\ RunOf[q] \in Runs
  BY DEF SInv
<1>1. RunsShaped /\ run'[RunOf[q]].phase \notin {"idle", "closed"}
  BY <1>0 DEF RunAfter, InStep
<1>2. \A p \in Requests \ {q} : req'[p] = req[p]
  BY <1>0 DEF Shape
<1>3. \A p \in Requests \ {q} : InStep(p)'
  BY <1>0, <1>2, RunGoesOn DEF RunAfter
<1>4. CASE Saved(new) /\ req' = [req EXCEPT ![q].phase = "ended"]
  <2>1. Moves(q, "ended")
    BY <1>0, <1>4 DEF Shape, Moves
  <2> QED
    BY <1>1, <1>3, <1>4, <2>1, Settles
<1>5. CASE NotSaved(new) /\ req' = [req EXCEPT ![q].phase = "stuck"]
  <2>1. Moves(q, "stuck") /\ OthersKept(q)
    BY <1>0, <1>5, WriteStep DEF Shape, Moves
  <2> QED
    BY <1>1, <1>3, <2>1, Fails
<1> QED
  BY <1>4, <1>5

\* A request that never reached the provider is cancelled, or sticks.
LEMMA WithdrawStep ==
    ASSUME SInv, NEW q \in Requests, Withdraw(q)
    PROVE  SInv'
<1>0. Shape /\ RunOf[q] \in Runs
  BY DEF SInv
<1>1. run' = run \/ run' = MarkFailed(RunOf[q])
  BY DEF Withdraw
<1>2. RunAfter(RunOf[q])
  BY <1>0, <1>1, Marked DEF RunAfter, RunsShaped, Shape
<1> QED
  BY <1>2, AccountStep DEF Withdraw, Unsettled

\* A relayed request ends with a cost, or its accounting fails.
LEMMA RelayEndStep ==
    ASSUME SInv, NEW q \in Requests, RelayEnd(q)
    PROVE  SInv'
<1> DEFINE r == RunOf[q]
<1>0. Shape /\ r \in Runs /\ req[q].phase = "sent"
  BY DEF SInv, RelayEnd
<1> SUFFICES ASSUME NEW trusted \in BOOLEAN,
                    \/ /\ Saved(Settled(q, Cost(q, trusted)))
                       /\ req' = [req EXCEPT ![q].phase = "ended"]
                       /\ run' = [(IF Exceeds(q, trusted) THEN MarkFailed(r) ELSE run) EXCEPT
                                    ![r].settled = @ + Cost(q, trusted)]
                    \/ /\ Unsettled(q, Settled(q, Cost(q, trusted)))
                       /\ run' = MarkFailed(r)
             PROVE  SInv'
  BY DEF RelayEnd
<1>1. CASE /\ Saved(Settled(q, Cost(q, trusted)))
           /\ req' = [req EXCEPT ![q].phase = "ended"]
           /\ run' = [(IF Exceeds(q, trusted) THEN MarkFailed(r) ELSE run) EXCEPT
                        ![r].settled = @ + Cost(q, trusted)]
  <2>1. PICK after \in {run, MarkFailed(r)} :
            run' = [after EXCEPT ![r].settled = @ + Cost(q, trusted)]
    BY <1>1
  <2>2. /\ DOMAIN after = Runs
        /\ \A s \in Runs : /\ DOMAIN after[s] = {"phase", "limits", "day", "settled"}
                           /\ after[s].phase \in RunPhases
        /\ \A s \in Runs \ {r} : after[s].phase = run[s].phase
        /\ \/ after[r].phase = run[r].phase
           \/ after[r].phase = "refusing" /\ run[r].phase = "open"
    BY <1>0, Marked DEF Shape
  <2>3. RunAfter(r)
    BY <1>0, <2>1, <2>2 DEF RunAfter, RunsShaped
  <2> QED
    BY <1>0, <1>1, <2>3, AccountStep
<1>2. CASE Unsettled(q, Settled(q, Cost(q, trusted))) /\ run' = MarkFailed(r)
  <2>1. RunAfter(r)
    BY <1>0, <1>2, Marked DEF RunAfter, RunsShaped
  <2> QED
    BY <1>0, <1>2, <2>1, AccountStep DEF Unsettled
<1> QED
  BY <1>1, <1>2

\* A turn ends with its request, which is its only one.
LEMMA TurnEndStep ==
    ASSUME SInv, NEW q \in Requests, TurnEnd(q)
    PROVE  SInv'
<1> DEFINE r == RunOf[q]
<1>0. Shape /\ r \in Runs /\ r \notin Relayed
  BY DEF SInv, TurnEnd
<1> SUFFICES ASSUME NEW usd,
                    \/ /\ Saved(Settled(q, usd)) /\ req' = [req EXCEPT ![q].phase = "ended"]
                       /\ run' = [run EXCEPT ![r].phase = "closed", ![r].settled = @ + usd]
                    \/ /\ Unsettled(q, Settled(q, usd))
                       /\ run' = [run EXCEPT ![r].phase = "failed"]
             PROVE  SInv'
  BY DEF TurnEnd
<1>1. \A p \in Requests \ {q} : req'[p] = req[p]
  BY <1>0 DEF Shape, Unsettled
<1>2. CASE /\ Saved(Settled(q, usd)) /\ req' = [req EXCEPT ![q].phase = "ended"]
           /\ run' = [run EXCEPT ![r].phase = "closed", ![r].settled = @ + usd]
  <2> DEFINE closed == [run EXCEPT ![r].phase = "closed"]
  <2>1. run' = [closed EXCEPT ![r].settled = @ + usd]
    BY <1>0, <1>2 DEF Shape
  <2>2. RunsShaped /\ run'[r].phase = "closed" /\ \A s \in Runs \ {r} : run'[s].phase = run[s].phase
    BY <1>0, <2>1 DEF Shape, RunsShaped, RunPhases
  <2>3. Moves(q, "ended")
    BY <1>0, <1>2 DEF Shape, Moves
  <2>4. \A p \in Requests \ {q} : InStep(p)'
    BY <1>0, <1>1, <2>2, RunGoesOn
  <2> QED
    BY <1>2, <2>2, <2>3, <2>4, Settles
<1>3. CASE Unsettled(q, Settled(q, usd)) /\ run' = [run EXCEPT ![r].phase = "failed"]
  <2>1. RunsShaped /\ run'[r].phase = "failed" /\ \A s \in Runs \ {r} : run'[s].phase = run[s].phase
    BY <1>0, <1>3 DEF Shape, RunsShaped, RunPhases
  <2>2. Moves(q, "stuck") /\ OthersKept(q)
    BY <1>0, <1>3, WriteStep DEF Shape, Moves, Unsettled
  <2>3. \A p \in Requests \ {q} : InStep(p)'
    BY <1>0, <1>1, <2>1, RunGoesOn
  <2> QED
    BY <2>1, <2>2, <2>3, Fails
<1> QED
  BY <1>2, <1>3

\* A step of a run that moves no request and writes no file.
LEMMA RunStep ==
    ASSUME SInv, NEW r \in Runs, Begin(r) \/ Stop(r) \/ Close(r) \/ Forget(r)
    PROVE  SInv'
<1>0. Shape /\ UNCHANGED <<file, synced, req>>
  BY DEF SInv, Begin, Stop, Close, Forget
<1>1. \A q \in Requests : Backed(q)' /\ Cleared(q)'
  BY <1>0 DEF SInv, Backed, Cleared
<1>2. CASE Begin(r)
  <2>1. run[r].phase = "idle" /\ r \in Runs
        /\ run' = [run EXCEPT ![r] = [phase |-> "open", limits |-> file.limits, day |-> today,
                                      settled |-> 0]]
    BY <1>2 DEF Begin
  <2>2. Shape' /\ run'[r].phase = "open" /\ \A s \in Runs \ {r} : run'[s] = run[s]
    BY <1>0, <2>1 DEF Shape, RunPhases
  <2>3. \A q \in Requests : InStep(q)'
    BY <1>0, <2>1, <2>2 DEF SInv, InStep
  <2> QED
    BY <1>1, <2>2, <2>3 DEF SInv
<1>3. CASE Stop(r)
  <2>1. run[r].phase = "open" /\ run' = [run EXCEPT ![r].phase = "refusing"]
    BY <1>3 DEF Stop
  <2>2. Shape' /\ run'[r].phase = "refusing" /\ \A s \in Runs \ {r} : run'[s] = run[s]
    BY <1>0, <2>1 DEF Shape, RunPhases
  <2>3. \A q \in Requests : InStep(q)'
    BY <1>0, <2>1, <2>2 DEF SInv, InStep
  <2> QED
    BY <1>1, <2>2, <2>3 DEF SInv
<1>4. CASE Close(r)
  <2>1. PICK phase \in {"closed", "failed"} :
            /\ run[r].phase = "refusing" /\ run' = [run EXCEPT ![r].phase = phase]
            /\ phase = "closed" => Outstanding(r) = {}
    BY <1>4 DEF Close
  <2>2. Shape' /\ run'[r].phase = phase /\ \A s \in Runs \ {r} : run'[s] = run[s]
    BY <1>0, <2>1 DEF Shape, RunPhases
  <2>3. ASSUME NEW q \in Requests PROVE InStep(q)'
    <3>1. InStep(q) /\ req[q].phase \in ReqPhases
      BY <1>0 DEF SInv, Shape
    <3>2. phase = "closed" /\ RunOf[q] = r =>
              req[q].phase \notin {"admitted", "sent", "stuck"}
      BY <2>1 DEF Outstanding
    <3> QED
      BY <1>0, <2>1, <2>2, <3>1, <3>2 DEF InStep, ReqPhases
  <2> QED
    BY <1>1, <2>2, <2>3 DEF SInv
<1>5. CASE Forget(r)
  BY <1>0, <1>1, <1>5 DEF SInv, Shape, InStep, Forget
<1> QED
  BY <1>2, <1>3, <1>4, <1>5

\* A change of the limits keeps every reservation, whether it is written or not.
LEMMA SetLimitsStep ==
    ASSUME SInv, NEW limits \in Limits, SetLimits(limits)
    PROVE  SInv'
<1> DEFINE new == [file EXCEPT !.limits = limits]
<1>0. Shape /\ UNCHANGED <<run, req>>
  BY DEF SInv, SetLimits
<1>1. DOMAIN new = {"limits", "settled", "held"} /\ new.held = file.held
  BY <1>0 DEF Shape
<1>2. file' \in {file, new} /\ synced' \in {synced, new} /\ (synced' = new => file' = new \/ synced' = synced)
  BY DEF SetLimits, Saved, NotSaved
<1>3. Shape'
  BY <1>0, <1>1, <1>2 DEF Shape
<1>4. \A q \in Requests : Backed(q)' /\ Cleared(q)' /\ InStep(q)'
  BY <1>0, <1>1, <1>2 DEF SInv, Backed, Cleared, InStep
<1> QED
  BY <1>3, <1>4 DEF SInv

\* A restart loses every run and request that had begun, whichever of the two
\* images of the file it finds.
LEMMA RestartStep ==
    ASSUME SInv, Restarted, file' \in {file, synced}, synced' \in {file, synced}
    PROVE  SInv'
<1>0. Shape
  BY DEF SInv
<1>1. /\ run' = [r \in Runs |-> IF run[r].phase = "idle" THEN run[r]
                                 ELSE [FreshRun EXCEPT !.phase = "lost"]]
      /\ req' = [q \in Requests |-> IF req[q].phase = "idle" THEN req[q]
                                    ELSE [req[q] EXCEPT !.phase = "lost"]]
  BY DEF Restarted
<1>2. [FreshRun EXCEPT !.phase = "lost"] =
          [phase |-> "lost", limits |-> FirstLimits, day |-> 1, settled |-> 0]
  BY DEF FreshRun
<1>3. ASSUME NEW r \in Runs
      PROVE  /\ DOMAIN run'[r] = {"phase", "limits", "day", "settled"}
             /\ run'[r].phase = IF run[r].phase = "idle" THEN "idle" ELSE "lost"
  BY <1>0, <1>1, <1>2 DEF Shape
<1>4. ASSUME NEW q \in Requests
      PROVE  /\ DOMAIN req'[q] = {"phase", "day", "usd", "bill"}
             /\ req'[q].phase = IF req[q].phase = "idle" THEN "idle" ELSE "lost"
  BY <1>0, <1>1 DEF Shape
<1>5. Shape'
  BY <1>0, <1>1, <1>3, <1>4 DEF Shape, RunPhases, ReqPhases
<1>6. ASSUME NEW q \in Requests PROVE Backed(q)' /\ Cleared(q)' /\ InStep(q)'
  <2>1. InStep(q) /\ RunOf[q] \in Runs
    BY DEF SInv
  <2> QED
    BY <1>3, <1>4, <2>1 DEF Backed, Cleared, InStep
<1> QED
  BY <1>5, <1>6 DEF SInv

-----------------------------------------------------------------------------
(* The theorems                                                            *)

LEMMA InitHolds == Init => SInv
<1> SUFFICES ASSUME Init PROVE SInv
  OBVIOUS
<1>1. \A r \in Runs : run[r] = FreshRun
  BY DEF Init
<1>2. \A q \in Requests : req[q] = FreshReq
  BY DEF Init
<1>3. Shape
  BY <1>1, <1>2 DEF Init, Shape, FreshRun, FreshReq, RunPhases, ReqPhases
<1>4. \A q \in Requests : Backed(q) /\ Cleared(q) /\ InStep(q)
  BY <1>1, <1>2 DEF Backed, Cleared, InStep, FreshRun, FreshReq
<1> QED
  BY <1>3, <1>4 DEF SInv

LEMMA InvStep == SInv /\ [Next]_vars => SInv'
<1> SUFFICES ASSUME SInv, [Next]_vars PROVE SInv'
  OBVIOUS
<1>1. ASSUME NEW r \in Runs, Begin(r) \/ Stop(r) \/ Close(r) \/ Forget(r)
      PROVE  SInv'
  BY <1>1, RunStep
<1>2. ASSUME NEW q \in Requests,
             Admit(q) \/ Send(q) \/ Withdraw(q) \/ RelayEnd(q) \/ Turn(q) \/ TurnEnd(q)
      PROVE  SInv'
  BY <1>2, AdmitStep, SendStep, WithdrawStep, RelayEndStep, TurnStep, TurnEndStep
<1>3. ASSUME NEW limits \in Limits, SetLimits(limits) PROVE SInv'
  BY <1>3, SetLimitsStep
<1>4. CASE Midnight \/ UNCHANGED vars
  <2>1. UNCHANGED <<file, synced, run, req>>
    BY <1>4 DEF Midnight, vars
  <2> QED
    BY <2>1 DEF SInv, Shape, Backed, Cleared, InStep
<1>5. CASE GateCrash \/ MachineCrash
  BY <1>5, RestartStep DEF GateCrash, MachineCrash
<1> QED
  BY <1>1, <1>2, <1>3, <1>4, <1>5 DEF Next

LEMMA Invariance == Spec => []SInv
  BY InitHolds, InvStep, PTL DEF Spec

\* No run's budget closes while one of its requests is unsettled, and what was
\* settled or withdrawn keeps no reservation: a finish that races the relay's
\* cancel settles each request once, whatever write fails and whenever the
\* gate or the machine dies.
THEOREM Closed == Spec => []ClosedIsSettled
<1>1. SInv => ClosedIsSettled
  BY DEF SInv, Cleared, InStep, ClosedIsSettled, HeldFor
<1> QED
  BY <1>1, Invariance, PTL

\* Every request that is on its way to the provider has its reservation in the
\* file, and in what a crash of the machine would leave of it.
THEOREM WrittenAhead == Spec => []WriteAhead
<1>1. SInv => WriteAhead
  BY DEF SInv, Backed, WriteAhead
<1> QED
  BY <1>1, Invariance, PTL
=============================================================================
