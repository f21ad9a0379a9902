---------------------------- MODULE MCAgentLane ----------------------------
(* Small instances of AgentLane for TLC. *)
EXTENDS AgentLane, TLC

CONSTANTS r1, r2, w1, c1, c2

MCRuns == {r1, r2}
MCWorkers == {w1}
MCConns == {c1, c2}

\* A gate that keeps a run id to one engine: r1 is a chat or author run, r2 the
\* assistant's.
OneEngine == (r1 :> {"chat", "autonomous"}) @@ (r2 :> {"assist"})

\* A gate that names any engine with the id r1, which competes with r2 for the
\* agent lane.
AnyEngine == (r1 :> Kinds) @@ (r2 :> {"chat"})

ConnSymmetry == Permutations(MCConns)
=============================================================================
