----------------------------- MODULE StepMemo -----------------------------
(* What a durable step engine promises its runs: a step is performed only  *)
(* while no result is remembered for it and only after every earlier step  *)
(* of its run is remembered, and what is remembered is never forgotten.    *)
EXTENDS Naturals

CONSTANTS Runs,   \* the runs, each a sequence of steps
          Steps   \* the steps of a run, 1..n

VARIABLES effects, \* how often each step's side effect happened
          done     \* the steps whose result is remembered

memoVars == <<effects, done>>

Init ==
  /\ effects = [k \in Runs \X Steps |-> 0]
  /\ done = {}

Perform(r, s) ==
  /\ <<r, s>> \notin done
  /\ \A t \in Steps : t < s => <<r, t>> \in done
  /\ effects' = [effects EXCEPT ![<<r, s>>] = @ + 1]
  /\ UNCHANGED done

Remember(k) ==
  /\ effects[k] > 0
  /\ done' = done \union {k}
  /\ UNCHANGED effects

Next ==
  \/ \E r \in Runs, s \in Steps : Perform(r, s)
  \/ \E k \in Runs \X Steps : Remember(k)

Spec == Init /\ [][Next]_memoVars
=============================================================================
