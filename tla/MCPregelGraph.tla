---------------------------- MODULE MCPregelGraph ----------------------------
(* A graph for PregelGraph: two nodes side by side joined before a third,     *)
(* which leads to a fourth; that one leads back, or to a fifth and a sixth.   *)
EXTENDS PregelGraph

CONSTANTS a, b, c, d, e, f

LoopEdges == {<<Start, a>>, <<Start, b>>, <<c, d>>}
LoopJoins == {[from |-> {a, b}, to |-> c]}
LoopChoices ==
  [n \in AllNodes |-> CASE n = d -> {a, b, e} [] n = e -> {f} [] OTHER -> {}]

\* b asks one question, d asks two
LoopAsks == [n \in AllNodes |-> CASE n = b -> 1 [] n = d -> 2 [] OTHER -> 0]
=============================================================================
