------------------------------ MODULE SlotLine ------------------------------
(* What the manager of the subagents promises those that share its slots: a *)
(* slot is given at once only if nobody waits for one, else in the order of *)
(* asking; no slot is given beyond the limit and the spare ones; and nobody *)
(* is left waiting while fewer slots are in use than the limit.             *)
EXTENDS Naturals, Sequences, FiniteSets

CONSTANTS
  Children,      \* those that ask for slots
  Limits,        \* the limits that may be set
  DefaultLimit

VARIABLES
  holding,       \* those that have a slot
  line,          \* those that wait for one, first come first
  limit,
  spare          \* slots in addition to the limit

slotVars == <<holding, line, limit, spare>>

Init ==
  /\ holding = {}
  /\ line = <<>>
  /\ limit = DefaultLimit
  /\ spare = 0

\* One who asks gets a slot, ahead of nobody.
Take(c) ==
  /\ c \notin holding
  /\ line = <<>>
  /\ holding' = holding \union {c}
  /\ Cardinality(holding') <= limit + spare
  /\ UNCHANGED <<line, limit, spare>>

\* One who asks waits behind all others, since the slots are in use.
Wait(c) ==
  /\ c \notin holding
  /\ \A i \in DOMAIN line : line[i] # c
  /\ Cardinality(holding) >= limit
  /\ line' = Append(line, c)
  /\ UNCHANGED <<holding, limit, spare>>

\* The first k in line get slots besides those that keep theirs, and the line
\* stays where it is only if all slots are in use then.
Serve(k, kept) ==
  /\ holding' = kept \union {line[i] : i \in 1..k}
  /\ line' = SubSeq(line, k + 1, Len(line))
  /\ k > 0 => Cardinality(holding') <= limit' + spare'
  /\ k < Len(line) => Cardinality(holding') >= limit'

Release(c) ==
  /\ c \in holding
  /\ \E k \in 0..Len(line) : Serve(k, holding \ {c})
  /\ UNCHANGED <<limit, spare>>

SetLimit(l) ==
  /\ limit' = l
  /\ \E k \in 0..Len(line) : Serve(k, holding)
  /\ UNCHANGED spare

AddSpare ==
  /\ spare' = spare + 1
  /\ \E k \in 0..Len(line) : Serve(k, holding)
  /\ UNCHANGED limit

\* All who wait are sent away.
Dismiss ==
  /\ line' = <<>>
  /\ UNCHANGED <<holding, limit, spare>>

Next ==
  \/ \E c \in Children : Take(c) \/ Wait(c) \/ Release(c)
  \/ \E l \in Limits : SetLimit(l)
  \/ AddSpare
  \/ Dismiss

Spec == Init /\ [][Next]_slotVars
=============================================================================
