---------------------------- MODULE HermesBoard ----------------------------
(***************************************************************************)
(* The Hermes kanban board as the gate uses it: a CLI that is not in the   *)
(* repository, asked by hermesKanban (gate.js) one command at a time.      *)
(* The lanes of a card are those of canonical-board.js that the claims     *)
(* tell apart; a command that does not apply leaves the card where it is.  *)
(***************************************************************************)
EXTENDS FiniteSets

CONSTANT Faults     \* the faults of this instance

ASSUME FaultAssumption == Faults \subseteq {"hermes", "list", "restart", "reboot"}

VARIABLE card       \* card[t]: the lane of a task's card

Cards == {"queued", "running", "blocked", "done"}
Terminal == {"blocked", "done"}
Verbs == {"claim", "block", "complete", "reclaim", "unblock", "reassign"}

\* Where a command moves a card.
Effect(verb, c) ==
    CASE verb = "claim" /\ c = "queued" -> "running"
      [] verb = "block" /\ c = "running" -> "blocked"
      [] verb = "complete" /\ c = "running" -> "done"
      [] verb = "reclaim" /\ c = "running" -> "queued"
      [] verb = "unblock" /\ c = "blocked" -> "queued"
      [] verb = "reassign" /\ c \in {"running", "blocked"} -> "queued"
      [] OTHER -> c

\* The CLI refuses what does not apply, but block silently does nothing to
\* a card that does not run.
Accepts(verb, c) == verb = "block" \/ Effect(verb, c) # c

\* hermesKanban answers null on any failure, a timeout of its own included:
\* the command may or may not have landed.
Hermes(verb, c) ==
    {[card |-> Effect(verb, c), ok |-> Accepts(verb, c)]}
    \cup IF "hermes" \in Faults
         THEN {[card |-> d, ok |-> FALSE] : d \in {c, Effect(verb, c)}}
         ELSE {}

After(verb, c) == {h.card : h \in Hermes(verb, c)}

\* forceBlock: block and look; a card that is not blocked and had no durable
\* row when forceBlock began is claimed, then blocked again.
ForceBlocked(c, free) ==
    LET Again(d) == UNION {After("block", e) : e \in After("claim", d)}
    IN  UNION {IF d = "blocked" \/ ~free THEN {d} ELSE Again(d) : d \in After("block", c)}
=============================================================================
