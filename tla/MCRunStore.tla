----------------------------- MODULE MCRunStore -----------------------------
(* Instances of RunStore for TLC.                                          *)
EXTENDS RunStore, TLC

CONSTANTS r1, r2, r3, w1, w2, w3, chat, other, board, mail, core

TwoRuns == {r1, r2}
ThreeRuns == {r1, r2, r3}

(* Adapter Runs of one chat, of one App: r2 is a retry slot for r1.        *)
ManualSession == [r \in TwoRuns |-> chat]
ManualApp == [r \in TwoRuns |-> mail]

(* Three Runs: r1 and r2 in one chat, r3 in another.                       *)
MixedSession == (r1 :> chat) @@ (r2 :> chat) @@ (r3 :> other)
MixedApp == (r1 :> core) @@ (r2 :> mail) @@ (r3 :> mail)

PairApp == (r1 :> core) @@ (r2 :> mail)
AgentApp == [r \in TwoRuns |-> core]

(* Coordinator incarnations are interchangeable; so are the two Agent Runs *)
(* of one session, which differ only in when they are created.             *)
WorkerSymmetry == Permutations(Workers)
AgentSymmetry == Permutations(Workers) \cup Permutations(Runs)
=============================================================================
