------------------------- MODULE SubagentPoolProofs -------------------------
(* Slots are given within the limit, nobody waits beside a free slot, a     *)
(* stopped child stays stopped, and the manager implements SlotLine, for    *)
(* any number of children and disposals.                                    *)
(*                                                                          *)
(* None of it is inductive by itself. The queue must hold exactly the       *)
(* parked children, each once (QueueSound), so that waking a prefix of it   *)
(* leaves the others parked; a child that is stopped or let out without a   *)
(* slot must have its signal aborted (SignalSound), so that it never runs;  *)
(* and the counter may lag behind the children that hold a slot by no more  *)
(* than disposal gave away (SlotsCounted).                                  *)
EXTENDS SubagentPool, SequenceTheorems, FiniteSetTheorems, TLAPS

HeldIn(places) ==
  {c \in Children : places[c] \in {"granted", "running", "closing"}}

QueueSound ==
  /\ \A i \in 1..Len(queue) : at[queue[i]] = "parked"
  /\ \A i, j \in 1..Len(queue) : queue[i] = queue[j] => i = j
  /\ \A c \in Children : at[c] = "parked" => \E i \in 1..Len(queue) : queue[i] = c

SignalSound ==
  \A c \in Children :
    /\ at[c] = "flushed" => aborted[c]
    /\ c \in UnderWay /\ status[c] = "stopped" => aborted[c]
    /\ at[c] \in {"parked", "granted", "flushed"} => status[c] \in {"queued", "stopped"}

SlotsCounted == Cardinality(Holders) <= active + returned

IInv == TypeOK /\ QueueSound /\ SignalSound /\ NobodyWaitsInVain /\ SlotsCounted

------------------------------------------------------------------------------
LEMMA HeldFinite ==
  ASSUME NEW places
  PROVE  IsFiniteSet(HeldIn(places)) /\ Cardinality(HeldIn(places)) \in Nat
<1>1. HeldIn(places) \subseteq Children /\ IsFiniteSet(Children)
  BY PoolAssumption DEF HeldIn
<1>2. IsFiniteSet(HeldIn(places))
  BY <1>1, FS_Subset
<1> QED BY <1>2, FS_CardinalityType

\* Fewer or as many places hold a slot when none is taken.
LEMMA HeldShrinks ==
  ASSUME NEW p, NEW q, HeldIn(q) \subseteq HeldIn(p)
  PROVE  Cardinality(HeldIn(q)) <= Cardinality(HeldIn(p))
BY HeldFinite, FS_Subset

\* One place less holds a slot when one is given back.
LEMMA HeldReleases ==
  ASSUME NEW p, NEW q, NEW c \in HeldIn(p), HeldIn(q) \subseteq HeldIn(p) \ {c}
  PROVE  Cardinality(HeldIn(q)) <= Cardinality(HeldIn(p)) - 1
<1>1. /\ IsFiniteSet(HeldIn(p) \ {c})
      /\ Cardinality(HeldIn(p) \ {c}) = Cardinality(HeldIn(p)) - 1
  BY HeldFinite, FS_RemoveElement
<1> QED BY <1>1, FS_Subset

\* One place more when one is taken.
LEMMA HeldTakes ==
  ASSUME NEW p, NEW q, NEW c, HeldIn(q) \subseteq HeldIn(p) \cup {c}
  PROVE  Cardinality(HeldIn(q)) <= Cardinality(HeldIn(p)) + 1
<1>1. /\ IsFiniteSet(HeldIn(p) \cup {c})
      /\ Cardinality(HeldIn(p) \cup {c}) <= Cardinality(HeldIn(p)) + 1
  BY HeldFinite, FS_AddElement
<1>2. Cardinality(HeldIn(q)) <= Cardinality(HeldIn(p) \cup {c})
  BY <1>1, FS_Subset
<1>3. Cardinality(HeldIn(p) \cup {c}) \in Nat
  BY <1>1, FS_CardinalityType
<1> QED BY <1>1, <1>2, <1>3, HeldFinite

\* The first k entries of a queue are no more than k children.
LEMMA PrefixBounded ==
  ASSUME NEW q \in Seq(Children), NEW k \in 0..Len(q)
  PROVE  LET S == {q[i] : i \in 1..k}
         IN  IsFiniteSet(S) /\ S \subseteq Children /\ Cardinality(S) <= k
<1> DEFINE S == {q[i] : i \in 1..k}
           f == [i \in 1..k |-> q[i]]
<1>1. IsFiniteSet(1..k) /\ Cardinality(1..k) = k
  BY FS_Interval
<1>2. f \in Surjection(1..k, S)
  BY DEF Surjection
<1>3. IsFiniteSet(S) /\ Cardinality(S) <= k
  BY <1>1, <1>2, FS_Surjection
<1>4. S \subseteq Children
  BY LenProperties
<1> QED BY <1>3, <1>4

\* drainQueue gives slots to parked children only, within the limit, and
\* leaves the rest of the queue in order; places are those of the generators
\* after the caller's own change.
LEMMA Drained ==
  ASSUME TypeOK, QueueSound, NEW n \in Nat, NEW limit \in Limits,
         NEW places \in [Children -> Places],
         \A c \in Children : places[c] = "parked" <=> at[c] = "parked",
         DrainQueue(n, limit, places)
  PROVE  /\ at' \in [Children -> Places] /\ active' \in Nat /\ queue' \in Seq(Children)
         /\ QueueSound'
         /\ \A c \in Children : at'[c] = "parked" => active' >= limit
         /\ \A c \in Children :
              at'[c] = places[c] \/ (at[c] = "parked" /\ at'[c] = "granted")
         /\ (\E c \in Children : at'[c] # places[c]) => active' <= limit
         /\ Cardinality(HeldIn(at')) <= Cardinality(HeldIn(places)) + (active' - n)
<1> DEFINE woken == IF Room(n, limit) < Len(queue) THEN Room(n, limit) ELSE Len(queue)
           granted == {queue[i] : i \in 1..woken}
<1>1. /\ limit \in Nat \ {0} /\ queue \in Seq(Children) /\ Len(queue) \in Nat
      /\ Room(n, limit) \in Nat
  BY PoolAssumption, LenProperties DEF TypeOK, Room
<1>2. /\ woken \in 0..Len(queue)
      /\ woken > 0 => n + woken <= limit
      /\ woken < Len(queue) => n + woken >= limit
  BY <1>1 DEF Room
<1>3. /\ active' = n + woken
      /\ queue' = SubSeq(queue, woken + 1, Len(queue))
      /\ at' = [c \in Children |-> IF c \in granted THEN "granted" ELSE places[c]]
  BY DEF DrainQueue
<1> HIDE DEF woken
<1>4. /\ queue' \in Seq(Children)
      /\ Len(queue') = Len(queue) - woken
      /\ \A i \in 1..Len(queue') : queue'[i] = queue[i + woken]
  <2>1. \A i \in (woken + 1)..Len(queue) : queue[i] \in Children
    BY <1>1, <1>2, LenProperties
  <2>2. woken + 1 \in Int /\ Len(queue) \in Int
    BY <1>1, <1>2
  <2>3. /\ SubSeq(queue, woken + 1, Len(queue)) \in Seq(Children)
        /\ Len(SubSeq(queue, woken + 1, Len(queue))) =
             IF woken + 1 <= Len(queue) THEN Len(queue) - (woken + 1) + 1 ELSE 0
        /\ \A i \in 1..(Len(queue) - (woken + 1) + 1) :
             SubSeq(queue, woken + 1, Len(queue))[i] = queue[(woken + 1) + i - 1]
    BY <2>1, <2>2, SubSeqProperties
  <2> QED BY <1>1, <1>2, <1>3, <2>3
<1>5. /\ IsFiniteSet(granted) /\ granted \subseteq Children
      /\ Cardinality(granted) <= woken
      /\ \A c \in granted : at[c] = "parked" /\ places[c] = "parked"
  <2>1. IsFiniteSet(granted) /\ granted \subseteq Children /\ Cardinality(granted) <= woken
    BY <1>1, <1>2, PrefixBounded
  <2>2. \A c \in granted : at[c] = "parked"
    BY <1>2, <1>1 DEF QueueSound
  <2> QED BY <2>1, <2>2
<1>6. at' \in [Children -> Places] /\ active' \in Nat
  BY <1>1, <1>2, <1>3 DEF Places
<1>7. \A c \in Children :
        at'[c] = places[c] \/ (at[c] = "parked" /\ at'[c] = "granted")
  BY <1>3, <1>5
<1>8. QueueSound'
  <2>1. \A i \in 1..Len(queue') : at'[queue'[i]] = "parked"
    <3> SUFFICES ASSUME NEW i \in 1..Len(queue') PROVE at'[queue'[i]] = "parked"
      OBVIOUS
    <3>1. i + woken \in 1..Len(queue) /\ i + woken > woken
      BY <1>1, <1>2, <1>4
    <3>2. queue'[i] = queue[i + woken] /\ queue[i + woken] \in Children
      BY <1>1, <1>4, <3>1, LenProperties
    <3>3. queue[i + woken] \notin granted
      <4> SUFFICES ASSUME queue[i + woken] \in granted PROVE FALSE
        OBVIOUS
      <4>1. PICK j \in 1..woken : queue[j] = queue[i + woken]
        OBVIOUS
      <4>2. j \in 1..Len(queue) /\ j # i + woken
        BY <1>1, <1>2, <3>1
      <4> QED BY <3>1, <4>1, <4>2 DEF QueueSound
    <3>4. at[queue[i + woken]] = "parked"
      BY <3>1 DEF QueueSound
    <3> QED BY <1>3, <3>2, <3>3, <3>4
  <2>2. \A i, j \in 1..Len(queue') : queue'[i] = queue'[j] => i = j
    <3> SUFFICES ASSUME NEW i \in 1..Len(queue'), NEW j \in 1..Len(queue'),
                        queue'[i] = queue'[j]
                 PROVE  i = j
      OBVIOUS
    <3>1. /\ i + woken \in 1..Len(queue) /\ j + woken \in 1..Len(queue)
          /\ queue[i + woken] = queue[j + woken]
      BY <1>1, <1>2, <1>4
    <3>2. i + woken = j + woken
      BY <3>1 DEF QueueSound
    <3> QED BY <1>2, <3>2
  <2>3. \A c \in Children : at'[c] = "parked" =>
          \E i \in 1..Len(queue') : queue'[i] = c
    <3> SUFFICES ASSUME NEW c \in Children, at'[c] = "parked"
                 PROVE  \E i \in 1..Len(queue') : queue'[i] = c
      OBVIOUS
    <3>1. at[c] = "parked" /\ c \notin granted
      BY <1>3
    <3>2. PICK i \in 1..Len(queue) : queue[i] = c
      BY <3>1 DEF QueueSound
    <3>3. i > woken
      BY <1>2, <3>1, <3>2
    <3>4. i - woken \in 1..Len(queue') /\ queue'[i - woken] = c
      BY <1>1, <1>2, <1>4, <3>2, <3>3
    <3> QED BY <3>4
  <2> QED BY <2>1, <2>2, <2>3 DEF QueueSound
<1>9. \A c \in Children : at'[c] = "parked" => active' >= limit
  BY <1>1, <1>2, <1>3, <1>4, <1>8 DEF QueueSound
<1>10. (\E c \in Children : at'[c] # places[c]) => active' <= limit
  BY <1>2, <1>3
<1>11. Cardinality(HeldIn(at')) <= Cardinality(HeldIn(places)) + (active' - n)
  <2>1. HeldIn(at') \subseteq HeldIn(places) \cup granted
    BY <1>3 DEF HeldIn
  <2>2. /\ IsFiniteSet(HeldIn(places) \cup granted)
        /\ Cardinality(HeldIn(places) \cup granted) =
             Cardinality(HeldIn(places)) + Cardinality(granted)
               - Cardinality(HeldIn(places) \cap granted)
    BY <1>5, HeldFinite, FS_Union
  <2>3. /\ Cardinality(HeldIn(places) \cap granted) \in Nat
        /\ Cardinality(granted) \in Nat
        /\ Cardinality(HeldIn(places) \cup granted) \in Nat
    <3>1. IsFiniteSet(HeldIn(places) \cap granted)
      BY <1>5, FS_Intersection
    <3> QED BY <3>1, <1>5, <2>2, FS_CardinalityType
  <2>4. Cardinality(HeldIn(at')) <= Cardinality(HeldIn(places) \cup granted)
    BY <2>1, <2>2, FS_Subset
  <2> QED BY <1>1, <1>2, <1>3, <1>5, <2>2, <2>3, <2>4, HeldFinite
<1> QED BY <1>4, <1>6, <1>7, <1>8, <1>9, <1>10, <1>11

------------------------------------------------------------------------------
\* A generator that ends gives back its slot, or one it never had.
LEMMA ReleaseSound ==
  ASSUME IInv, NEW c \in Children, at[c] \notin {"parked", "none", "over"},
         ReleaseSlot(c)
  PROVE  /\ at' \in [Children -> Places] /\ active' \in Nat /\ queue' \in Seq(Children)
         /\ returned' \in Nat
         /\ QueueSound'
         /\ \A d \in Children : at'[d] = "parked" => active' >= maxConcurrent
         /\ at'[c] = "over"
         /\ \A d \in Children \ {c} :
              at'[d] = at[d] \/ (at[d] = "parked" /\ at'[d] = "granted")
         /\ (\E d \in Children : at[d] # "granted" /\ at'[d] = "granted")
              => active' <= maxConcurrent
         /\ SlotsCounted'
<1> DEFINE places == [at EXCEPT ![c] = "over"]
<1>1. /\ Released \in Nat /\ places \in [Children -> Places] /\ maxConcurrent \in Limits
      /\ active \in Nat /\ returned \in Nat /\ returned' \in Nat
      /\ TypeOK /\ QueueSound
  BY DEF IInv, TypeOK, Released, Places, ReleaseSlot
<1>2. \A d \in Children : places[d] = "parked" <=> at[d] = "parked"
  BY DEF IInv, TypeOK
<1>3. DrainQueue(Released, maxConcurrent, places)
  BY DEF ReleaseSlot
<1>4. /\ at' \in [Children -> Places] /\ active' \in Nat /\ queue' \in Seq(Children)
      /\ QueueSound'
      /\ \A d \in Children : at'[d] = "parked" => active' >= maxConcurrent
      /\ \A d \in Children :
           at'[d] = places[d] \/ (at[d] = "parked" /\ at'[d] = "granted")
      /\ (\E d \in Children : at'[d] # places[d]) => active' <= maxConcurrent
      /\ Cardinality(HeldIn(at')) <= Cardinality(HeldIn(places)) + (active' - Released)
  BY <1>1, <1>2, <1>3, Drained
<1>5. /\ at'[c] = "over"
      /\ \A d \in Children \ {c} :
           at'[d] = at[d] \/ (at[d] = "parked" /\ at'[d] = "granted")
  BY <1>1, <1>4 DEF TypeOK
<1>6. (\E d \in Children : at[d] # "granted" /\ at'[d] = "granted")
        => active' <= maxConcurrent
  BY <1>1, <1>4, <1>5 DEF TypeOK
<1>7. Cardinality(HeldIn(at)) <= active + returned
  BY DEF IInv, SlotsCounted, Holders, HeldIn
<1>8. Cardinality(HeldIn(places)) <= Released + returned'
  <2>1. CASE at[c] = "flushed"
    <3>1. HeldIn(places) \subseteq HeldIn(at) /\ returned' = returned + 1
      BY <1>1, <2>1 DEF HeldIn, ReleaseSlot
    <3>2. Cardinality(HeldIn(places)) <= Cardinality(HeldIn(at))
      BY <3>1, HeldShrinks
    <3> QED BY <1>1, <1>7, <3>1, <3>2, HeldFinite DEF Released
  <2>2. CASE at[c] # "flushed"
    <3>1. c \in HeldIn(at) /\ HeldIn(places) \subseteq HeldIn(at) \ {c} /\ returned' = returned
      BY <1>1, <2>2 DEF HeldIn, ReleaseSlot, TypeOK, Places
    <3>2. Cardinality(HeldIn(places)) <= Cardinality(HeldIn(at)) - 1
      BY <3>1, HeldReleases
    <3> QED BY <1>1, <1>7, <3>1, <3>2, HeldFinite DEF Released
  <2> QED BY <2>1, <2>2
<1>9. SlotsCounted'
  <2>1. Cardinality(HeldIn(at')) <= active' + returned'
    BY <1>1, <1>4, <1>8, HeldFinite
  <2> QED BY <2>1 DEF SlotsCounted, Holders, HeldIn
<1> QED BY <1>1, <1>4, <1>5, <1>6, <1>9

------------------------------------------------------------------------------
GrantStep ==
  (\E c \in Children : at[c] # "granted" /\ at'[c] = "granted")
    => active' <= maxConcurrent'

StoppedStep ==
  \A c \in UnderWay : status[c] = "stopped" => status'[c] \in {"stopped", "error"}

Sound == IInv' /\ GrantStep /\ StoppedStep

LEMMA InitSound == Init => IInv
<1> SUFFICES ASSUME Init PROVE IInv
  OBVIOUS
<1>1. TypeOK
  BY PoolAssumption DEF Init, TypeOK, Places, Statuses
<1>2. QueueSound /\ SignalSound /\ NobodyWaitsInVain
  BY DEF Init, QueueSound, SignalSound, NobodyWaitsInVain, UnderWay
<1>3. SlotsCounted
  <2>1. HeldIn(at) = {}
    BY DEF Init, HeldIn
  <2> QED BY <2>1, FS_EmptySet DEF Init, SlotsCounted, Holders, HeldIn
<1> QED BY <1>1, <1>2, <1>3 DEF IInv

\* Steps that only move generators between places that hold no slot, or
\* between places that hold one, keep the count.
LEMMA CountKept ==
  ASSUME IInv, HeldIn(at') \subseteq HeldIn(at), UNCHANGED <<active, returned>>
  PROVE  SlotsCounted'
<1>1. Cardinality(HeldIn(at')) <= Cardinality(HeldIn(at))
  BY HeldShrinks
<1>2. Cardinality(HeldIn(at)) <= active + returned /\ active \in Nat /\ returned \in Nat
  BY DEF IInv, TypeOK, SlotsCounted, Holders, HeldIn
<1>3. Cardinality(HeldIn(at')) <= active' + returned'
  BY <1>1, <1>2, HeldFinite
<1> QED BY <1>3 DEF SlotsCounted, Holders, HeldIn

LEMMA SpawnSound ==
  ASSUME IInv, NEW c \in Children, Spawn(c)
  PROVE  Sound
<1>1. TypeOK /\ QueueSound /\ SignalSound /\ NobodyWaitsInVain
  BY DEF IInv
<1>2. /\ maxConcurrent \in Nat \ {0} /\ active \in Nat /\ returned \in Nat
      /\ queue \in Seq(Children) /\ Len(queue) \in Nat
  BY <1>1, PoolAssumption, LenProperties DEF TypeOK
<1>3. StoppedStep
  BY <1>1 DEF Spawn, StoppedStep, UnderWay, TypeOK
<1>4. CASE active < maxConcurrent
  <2>1. /\ active' = active + 1 /\ at' = [at EXCEPT ![c] = "granted"]
        /\ queue' = queue /\ maxConcurrent' = maxConcurrent /\ returned' = returned
    BY <1>2, <1>4 DEF Spawn
  <2>2. TypeOK'
    BY <1>1, <2>1 DEF TypeOK, Places, Statuses, Spawn
  <2>3. \A d \in Children : at[d] # "parked"
    BY <1>1, <1>2, <1>4 DEF NobodyWaitsInVain
  <2>4. QueueSound' /\ NobodyWaitsInVain'
    <3>1. \A d \in Children : at'[d] # "parked"
      BY <1>1, <2>1, <2>3 DEF TypeOK
    <3>2. \A i \in 1..Len(queue) : queue[i] \in Children
      BY <1>2, LenProperties
    <3>3. 1..Len(queue) = {}
      BY <1>1, <2>3, <3>2 DEF QueueSound
    <3> QED BY <2>1, <3>1, <3>3 DEF QueueSound, NobodyWaitsInVain
  <2>5. SignalSound'
    BY <1>1, <2>1 DEF SignalSound, TypeOK, Spawn, UnderWay
  <2>6. SlotsCounted'
    <3>1. HeldIn(at') \subseteq HeldIn(at) \cup {c}
      BY <1>1, <2>1 DEF HeldIn, TypeOK
    <3>2. Cardinality(HeldIn(at')) <= Cardinality(HeldIn(at)) + 1
      BY <3>1, HeldTakes
    <3>3. Cardinality(HeldIn(at)) <= active + returned
      BY DEF IInv, SlotsCounted, Holders, HeldIn
    <3>4. Cardinality(HeldIn(at')) <= active' + returned'
      BY <1>2, <2>1, <3>2, <3>3, HeldFinite
    <3> QED BY <3>4 DEF SlotsCounted, Holders, HeldIn
  <2>7. GrantStep
    BY <1>2, <1>4, <2>1 DEF GrantStep
  <2> QED BY <1>3, <2>2, <2>4, <2>5, <2>6, <2>7 DEF Sound, IInv
<1>5. CASE ~(active < maxConcurrent)
  <2>1. /\ active' = active /\ at' = [at EXCEPT ![c] = "parked"]
        /\ queue' = Append(queue, c) /\ maxConcurrent' = maxConcurrent
        /\ returned' = returned /\ at[c] \in {"none", "over"}
    BY <1>1, <1>2, <1>5 DEF Spawn, Parked, UnderWay
  <2>2. /\ queue' \in Seq(Children) /\ Len(queue') = Len(queue) + 1
        /\ \A i \in 1..Len(queue) : queue'[i] = queue[i]
        /\ queue'[Len(queue) + 1] = c
    BY <1>2, <2>1, AppendProperties
  <2>3. TypeOK'
    BY <1>1, <2>1, <2>2 DEF TypeOK, Places, Statuses, Spawn
  <2>4. QueueSound'
    <3>1. \A i \in 1..Len(queue) : queue[i] \in Children /\ queue[i] # c
      BY <1>1, <1>2, <2>1, LenProperties DEF QueueSound
    <3>2. \A i \in 1..Len(queue') : at'[queue'[i]] = "parked"
      BY <1>1, <1>2, <2>1, <2>2, <3>1 DEF QueueSound, TypeOK
    <3>3. \A i, j \in 1..Len(queue') : queue'[i] = queue'[j] => i = j
      BY <1>1, <1>2, <2>2, <3>1 DEF QueueSound
    <3>4. \A d \in Children : at'[d] = "parked" =>
            \E i \in 1..Len(queue') : queue'[i] = d
      <4> SUFFICES ASSUME NEW d \in Children, at'[d] = "parked"
                   PROVE  \E i \in 1..Len(queue') : queue'[i] = d
        OBVIOUS
      <4>1. CASE d = c
        BY <1>2, <2>2, <4>1
      <4>2. CASE d # c
        <5>1. PICK i \in 1..Len(queue) : queue[i] = d
          BY <1>1, <2>1, <4>2 DEF QueueSound, TypeOK
        <5>2. i \in 1..Len(queue') /\ queue'[i] = d
          BY <1>2, <2>2, <5>1
        <5> QED BY <5>2
      <4> QED BY <4>1, <4>2
    <3> QED BY <3>2, <3>3, <3>4 DEF QueueSound
  <2>5. NobodyWaitsInVain' /\ GrantStep
    BY <1>1, <1>2, <1>5, <2>1 DEF NobodyWaitsInVain, GrantStep, TypeOK
  <2>6. SignalSound'
    BY <1>1, <2>1 DEF SignalSound, TypeOK, Spawn, UnderWay
  <2>7. SlotsCounted'
    BY <1>1, <2>1, CountKept DEF HeldIn, TypeOK
  <2> QED BY <1>3, <2>3, <2>4, <2>5, <2>6, <2>7 DEF Sound, IInv
<1> QED BY <1>4, <1>5

\* A generator that moves on without touching slots or queue.
LEMMA MoveSound ==
  ASSUME IInv, NEW c \in Children, NEW p \in {"running", "closing"},
         at[c] \notin {"none", "over", "parked", "flushed"},
         at' = [at EXCEPT ![c] = p], TypeOK', SignalSound',
         UNCHANGED <<maxConcurrent, active, queue, returned>>
  PROVE  IInv' /\ GrantStep
<1>1. TypeOK /\ QueueSound /\ NobodyWaitsInVain
  BY DEF IInv
<1>2. \A i \in 1..Len(queue) : queue[i] \in Children /\ queue[i] # c
  BY <1>1, LenProperties DEF QueueSound, TypeOK
<1>3. QueueSound'
  BY <1>1, <1>2 DEF QueueSound, TypeOK
<1>4. NobodyWaitsInVain' /\ GrantStep
  BY <1>1 DEF NobodyWaitsInVain, GrantStep, TypeOK
<1>5. c \in HeldIn(at)
  BY <1>1 DEF HeldIn, TypeOK, Places
<1>6. SlotsCounted'
  BY <1>1, <1>5, CountKept DEF HeldIn, TypeOK
<1> QED BY <1>3, <1>4, <1>6 DEF IInv

LEMMA StartSound ==
  ASSUME IInv, NEW c \in Children, Start(c)
  PROVE  Sound
<1>1. TypeOK /\ SignalSound
  BY DEF IInv
<1>2. at[c] = "granted" /\ ~aborted[c] /\ status[c] = "queued"
  BY <1>1 DEF Start, Resumed, SignalSound, UnderWay
<1>3. TypeOK' /\ SignalSound'
  BY <1>1, <1>2 DEF Start, TypeOK, Places, Statuses, SignalSound, UnderWay
<1>4. StoppedStep
  BY <1>1, <1>2 DEF Start, StoppedStep, TypeOK, UnderWay
<1>5. IInv' /\ GrantStep
  BY <1>2, <1>3, MoveSound DEF Start
<1> QED BY <1>4, <1>5 DEF Sound

LEMMA RunnerEndsSound ==
  ASSUME IInv, NEW c \in Children, RunnerEnds(c)
  PROVE  Sound
<1>1. TypeOK /\ SignalSound
  BY DEF IInv
<1>2. PICK s \in {Outcome(c), "error"} : status' = [status EXCEPT ![c] = s]
  BY DEF RunnerEnds
<1>3. TypeOK' /\ SignalSound'
  BY <1>1, <1>2 DEF RunnerEnds, Outcome, TypeOK, Places, Statuses, SignalSound, UnderWay
<1>4. StoppedStep
  BY <1>1, <1>2 DEF RunnerEnds, Outcome, StoppedStep, SignalSound, TypeOK, UnderWay
<1>5. IInv' /\ GrantStep
  BY <1>3, MoveSound DEF RunnerEnds
<1> QED BY <1>4, <1>5 DEF Sound

\* A generator that ends.
LEMMA EndSound ==
  ASSUME IInv, NEW c \in Children, NEW s \in {"completed", "stopped", "error"},
         at[c] \notin {"parked", "none", "over"}, ReleaseSlot(c),
         status' = [status EXCEPT ![c] = s], status[c] = "stopped" => s \in {"stopped", "error"},
         UNCHANGED <<aborted, maxConcurrent, doomed, disposals>>
  PROVE  Sound
<1>1. TypeOK /\ SignalSound
  BY DEF IInv
<1>2. /\ at' \in [Children -> Places] /\ active' \in Nat /\ queue' \in Seq(Children)
      /\ returned' \in Nat /\ QueueSound' /\ SlotsCounted'
      /\ \A d \in Children : at'[d] = "parked" => active' >= maxConcurrent
      /\ at'[c] = "over"
      /\ \A d \in Children \ {c} :
           at'[d] = at[d] \/ (at[d] = "parked" /\ at'[d] = "granted")
      /\ (\E d \in Children : at[d] # "granted" /\ at'[d] = "granted")
           => active' <= maxConcurrent
  BY ReleaseSound
<1>3. TypeOK'
  BY <1>1, <1>2 DEF TypeOK, Statuses
<1>4. SignalSound'
  BY <1>1, <1>2 DEF SignalSound, TypeOK, UnderWay
<1>5. StoppedStep
  BY <1>1 DEF StoppedStep, TypeOK, UnderWay
<1>6. NobodyWaitsInVain' /\ GrantStep
  BY <1>2 DEF NobodyWaitsInVain, GrantStep
<1> QED BY <1>2, <1>3, <1>4, <1>5, <1>6 DEF Sound, IInv

LEMMA WithdrawSound ==
  ASSUME IInv, NEW c \in Children, Withdraw(c)
  PROVE  Sound
BY EndSound DEF Withdraw, Resumed

LEMMA CloseSound ==
  ASSUME IInv, NEW c \in Children, Close(c)
  PROVE  Sound
<1> DEFINE s == IF Terminal(status[c]) THEN status[c] ELSE Outcome(c)
<1>1. TypeOK
  BY DEF IInv
<1>2. s \in {"completed", "stopped", "error"} /\ (status[c] = "stopped" => s \in {"stopped", "error"})
  BY DEF Terminal, Outcome
<1>3. status' = [status EXCEPT ![c] = s]
  BY <1>1 DEF Close, TypeOK
<1>4. /\ at[c] \notin {"parked", "none", "over"} /\ ReleaseSlot(c)
      /\ UNCHANGED <<aborted, maxConcurrent, doomed, disposals>>
  BY DEF Close
<1> HIDE DEF s
<1> QED BY <1>2, <1>3, <1>4, EndSound

\* Steps that leave slots, queue and places alone.
LEMMA StillSound ==
  ASSUME IInv, TypeOK', SignalSound', UNCHANGED <<at, maxConcurrent, active, queue, returned>>
  PROVE  IInv' /\ GrantStep
<1>1. QueueSound' /\ NobodyWaitsInVain' /\ GrantStep
  BY DEF IInv, QueueSound, NobodyWaitsInVain, GrantStep
<1>2. SlotsCounted'
  BY CountKept DEF HeldIn
<1> QED BY <1>1, <1>2 DEF IInv

LEMMA AbortSound ==
  ASSUME IInv, NEW c \in Children, Abort(c)
  PROVE  Sound
<1>1. TypeOK /\ SignalSound
  BY DEF IInv
<1>2. TypeOK'
  BY <1>1 DEF Abort, TypeOK, Statuses
<1>3. SignalSound'
  BY <1>1 DEF Abort, SignalSound, TypeOK, UnderWay
<1>4. StoppedStep
  BY <1>1 DEF Abort, StoppedStep, TypeOK, UnderWay
<1>5. IInv' /\ GrantStep
  BY <1>2, <1>3, StillSound DEF Abort
<1> QED BY <1>4, <1>5 DEF Sound

LEMMA CancelSound ==
  ASSUME IInv, NEW children \in SUBSET Children, CancelParent(children)
  PROVE  Sound
<1>1. TypeOK /\ SignalSound
  BY DEF IInv
<1>2. TypeOK'
  BY <1>1 DEF CancelParent, TypeOK
<1>3. SignalSound'
  BY <1>1 DEF CancelParent, SignalSound, TypeOK, UnderWay
<1>4. StoppedStep
  BY DEF CancelParent, StoppedStep, UnderWay
<1>5. IInv' /\ GrantStep
  BY <1>2, <1>3, StillSound DEF CancelParent
<1> QED BY <1>4, <1>5 DEF Sound

LEMMA LimitSound ==
  ASSUME IInv, NEW limit \in Limits, SetMaxConcurrent(limit)
  PROVE  Sound
<1>1. /\ TypeOK /\ SignalSound /\ QueueSound
      /\ active \in Nat /\ returned \in Nat /\ at \in [Children -> Places]
  BY DEF IInv, TypeOK
<1>2. DrainQueue(active, limit, at) /\ maxConcurrent' = limit /\ returned' = returned
  BY DEF SetMaxConcurrent
<1>3. /\ at' \in [Children -> Places] /\ active' \in Nat /\ queue' \in Seq(Children)
      /\ QueueSound'
      /\ \A c \in Children : at'[c] = "parked" => active' >= limit
      /\ \A c \in Children : at'[c] = at[c] \/ (at[c] = "parked" /\ at'[c] = "granted")
      /\ (\E c \in Children : at'[c] # at[c]) => active' <= limit
      /\ Cardinality(HeldIn(at')) <= Cardinality(HeldIn(at)) + (active' - active)
  BY <1>1, <1>2, Drained
<1>4. TypeOK'
  BY <1>1, <1>2, <1>3 DEF TypeOK, SetMaxConcurrent
<1>5. SignalSound'
  BY <1>1, <1>3 DEF SignalSound, SetMaxConcurrent, UnderWay
<1>6. NobodyWaitsInVain' /\ GrantStep
  BY <1>2, <1>3 DEF NobodyWaitsInVain, GrantStep
<1>7. StoppedStep
  BY DEF StoppedStep, SetMaxConcurrent, UnderWay
<1>8. SlotsCounted'
  <2>1. Cardinality(HeldIn(at)) <= active + returned
    BY DEF IInv, SlotsCounted, Holders, HeldIn
  <2>2. Cardinality(HeldIn(at')) <= active' + returned'
    BY <1>1, <1>2, <1>3, <2>1, HeldFinite
  <2> QED BY <2>2 DEF SlotsCounted, Holders, HeldIn
<1> QED BY <1>3, <1>4, <1>5, <1>6, <1>7, <1>8 DEF Sound, IInv

LEMMA DisposeSound ==
  ASSUME IInv, DisposeAll
  PROVE  Sound
<1>1. TypeOK /\ SignalSound
  BY DEF IInv
<1>2. TypeOK'
  BY <1>1, PoolAssumption DEF DisposeAll, TypeOK, Places, Statuses, UnderWay
<1>3. \A c \in Children : at'[c] # "parked"
  BY <1>1 DEF DisposeAll, TypeOK
<1>4. QueueSound' /\ NobodyWaitsInVain' /\ GrantStep
  BY <1>1, <1>3 DEF DisposeAll, QueueSound, NobodyWaitsInVain, GrantStep, TypeOK
<1>5. SignalSound'
  BY <1>1 DEF DisposeAll, SignalSound, TypeOK, UnderWay, Unsettled, Terminal
<1>6. StoppedStep
  BY <1>1 DEF DisposeAll, StoppedStep, TypeOK, UnderWay
<1>7. SlotsCounted'
  BY <1>1, CountKept DEF DisposeAll, HeldIn, TypeOK
<1> QED BY <1>2, <1>4, <1>5, <1>6, <1>7 DEF Sound, IInv

LEMMA NextSound ==
  ASSUME IInv, [Next]_vars
  PROVE  Sound
<1>1. CASE \E c \in Children : Spawn(c)
  BY <1>1, SpawnSound
<1>2. CASE \E c \in Children : Start(c)
  BY <1>2, StartSound
<1>3. CASE \E c \in Children : Withdraw(c)
  BY <1>3, WithdrawSound
<1>4. CASE \E c \in Children : RunnerEnds(c)
  BY <1>4, RunnerEndsSound
<1>5. CASE \E c \in Children : Close(c)
  BY <1>5, CloseSound
<1>6. CASE \E c \in Children : Abort(c)
  BY <1>6, AbortSound
<1>7. CASE \E children \in SUBSET Children : CancelParent(children)
  BY <1>7, CancelSound
<1>8. CASE \E limit \in Limits : SetMaxConcurrent(limit)
  BY <1>8, LimitSound
<1>9. CASE DisposeAll
  BY <1>9, DisposeSound
<1>10. CASE UNCHANGED vars
  <2>1. TypeOK' /\ SignalSound' /\ StoppedStep
    BY <1>10 DEF vars, IInv, TypeOK, SignalSound, StoppedStep, UnderWay
  <2>2. IInv' /\ GrantStep
    BY <1>10, <2>1, StillSound DEF vars
  <2> QED BY <2>1, <2>2 DEF Sound
<1> QED BY <1>1, <1>2, <1>3, <1>4, <1>5, <1>6, <1>7, <1>8, <1>9, <1>10 DEF Next

\* From the count and the limit of the moment.
LEMMA GrantCounted ==
  ASSUME IInv, Sound, NEW c \in Children, at[c] # "granted", at'[c] = "granted"
  PROVE  Cardinality(Holders') <= maxConcurrent' + returned'
<1>1. active' <= maxConcurrent' /\ active' \in Nat /\ returned' \in Nat /\ maxConcurrent' \in Nat
  BY PoolAssumption DEF Sound, GrantStep, IInv, TypeOK
<1>2. Cardinality(HeldIn(at')) <= active' + returned'
  BY DEF Sound, IInv, SlotsCounted, Holders, HeldIn
<1>3. Cardinality(HeldIn(at')) <= maxConcurrent' + returned'
  BY <1>1, <1>2, HeldFinite
<1> QED BY <1>3 DEF Holders, HeldIn

------------------------------------------------------------------------------
THEOREM PoolInvariant == Spec => []IInv
<1>1. IInv /\ [Next]_vars => IInv'
  BY NextSound DEF Sound
<1> QED BY InitSound, <1>1, PTL DEF Spec

\* The slot counter never falls below zero, although disposeAll gives slots
\* back that were never taken, and the queue holds children.
THEOREM PoolTypeOK == Spec => []TypeOK
<1>1. IInv => TypeOK
  BY DEF IInv
<1> QED BY PoolInvariant, <1>1, PTL

\* A child parked in acquireSlot never waits beside a free slot, whatever the
\* limit is set to and whoever ends, is aborted or disposed of.
THEOREM PoolNobodyWaitsInVain == Spec => []NobodyWaitsInVain
<1>1. IInv => NobodyWaitsInVain
  BY DEF IInv
<1> QED BY PoolInvariant, <1>1, PTL

\* A slot is given only within the limit of that moment, but for the slots
\* that disposeAll let children give back which they never had.
THEOREM PoolGrantsWithinLimit == Spec => GrantsWithinLimit
<1>1. IInv /\ [Next]_vars =>
        [\A c \in Children : at[c] # "granted" /\ at'[c] = "granted" =>
           Cardinality(Holders') <= maxConcurrent' + returned']_vars
  <2> SUFFICES ASSUME IInv, [Next]_vars, NEW c \in Children,
                      at[c] # "granted", at'[c] = "granted"
               PROVE  Cardinality(Holders') <= maxConcurrent' + returned'
    OBVIOUS
  <2> QED BY NextSound, GrantCounted
<1> QED BY PoolInvariant, <1>1, PTL DEF Spec, GrantsWithinLimit

\* A child shown as stopped is never shown as running or completed again.
THEOREM PoolStoppedStays == Spec => StoppedStays
<1>1. IInv /\ [Next]_vars =>
        [\A c \in UnderWay :
           status[c] = "stopped" => status'[c] \in {"stopped", "error"}]_vars
  BY NextSound DEF Sound, StoppedStep
<1> QED BY PoolInvariant, <1>1, PTL DEF Spec, StoppedStays

------------------------------------------------------------------------------
\* The counter counts no more slots than there are children that hold one, so
\* that whoever is parked beside a full counter is parked beside full slots.
SlotsTaken == active <= Cardinality(Holders)

\* SlotLine counts as this module does.
LEMMA LineCardinality ==
  ASSUME NEW S
  PROVE  Line!Cardinality(S) = Cardinality(S)
BY Zenon DEF Line!Cardinality, Cardinality

\* drainQueue wakes a prefix of the queue, whose children are distinct and held
\* no slot before; n counts the slots as it starts.
LEMMA DrainServes ==
  ASSUME TypeOK, QueueSound, NEW n \in Nat, NEW limit \in Limits,
         NEW places \in [Children -> Places],
         \A c \in Children : places[c] = "parked" <=> at[c] = "parked",
         DrainQueue(n, limit, places)
  PROVE  \E k \in 0..Len(queue) :
           /\ active' = n + k
           /\ queue' = SubSeq(queue, k + 1, Len(queue))
           /\ HeldIn(at') = HeldIn(places) \cup {queue[i] : i \in 1..k}
           /\ Cardinality(HeldIn(at')) = Cardinality(HeldIn(places)) + k
           /\ k > 0 => n + k <= limit
           /\ k < Len(queue) => n + k >= limit
<1> DEFINE k == IF Room(n, limit) < Len(queue) THEN Room(n, limit) ELSE Len(queue)
           granted == {queue[i] : i \in 1..k}
           f == [i \in 1..k |-> queue[i]]
<1>1. /\ limit \in Nat \ {0} /\ queue \in Seq(Children) /\ Len(queue) \in Nat
      /\ Room(n, limit) \in Nat
  BY PoolAssumption, LenProperties DEF TypeOK, Room
<1>2. /\ k \in 0..Len(queue)
      /\ k > 0 => n + k <= limit
      /\ k < Len(queue) => n + k >= limit
  BY <1>1 DEF Room
<1>3. /\ active' = n + k
      /\ queue' = SubSeq(queue, k + 1, Len(queue))
      /\ at' = [c \in Children |-> IF c \in granted THEN "granted" ELSE places[c]]
  BY DEF DrainQueue
<1> HIDE DEF k
<1>4. /\ IsFiniteSet(granted) /\ granted \subseteq Children
      /\ \A c \in granted : places[c] = "parked"
  <2>1. IsFiniteSet(granted) /\ granted \subseteq Children
    BY <1>1, <1>2, PrefixBounded
  <2>2. \A c \in granted : at[c] = "parked"
    BY <1>1, <1>2 DEF QueueSound
  <2> QED BY <2>1, <2>2
<1>5. HeldIn(at') = HeldIn(places) \cup granted
  BY <1>3, <1>4 DEF HeldIn
<1>6. Cardinality(granted) = k
  <2>1. f \in Bijection(1..k, granted)
    <3>1. f \in Surjection(1..k, granted)
      BY DEF Surjection
    <3>2. \A i, j \in 1..k : f[i] = f[j] => i = j
      BY <1>1, <1>2 DEF QueueSound
    <3>3. f \in Injection(1..k, granted)
      BY <3>2 DEF Injection, IsInjective
    <3> QED BY <3>1, <3>3 DEF Bijection
  <2>2. IsFiniteSet(1..k) /\ Cardinality(1..k) = k
    BY <1>2, FS_Interval
  <2>3. ExistsBijection(1..k, granted)
    BY <2>1 DEF ExistsBijection
  <2> QED BY <2>2, <2>3, FS_Bijection
<1>7. HeldIn(places) \cap granted = {}
  BY <1>4 DEF HeldIn
<1>8. Cardinality(HeldIn(at')) = Cardinality(HeldIn(places)) + k
  <2>1. Cardinality(HeldIn(places) \cup granted) =
          Cardinality(HeldIn(places)) + Cardinality(granted) - Cardinality({})
    BY <1>4, <1>7, HeldFinite, FS_Union
  <2> QED BY <1>2, <1>5, <1>6, <2>1, HeldFinite, FS_EmptySet
<1> QED BY <1>2, <1>3, <1>5, <1>8

\* The children of that prefix are served as SlotLine serves its line, if the
\* count was right when drainQueue was called.
LEMMA Served ==
  ASSUME IInv, NEW n \in Nat, NEW places \in [Children -> Places],
         \A c \in Children : places[c] = "parked" <=> at[c] = "parked",
         maxConcurrent' \in Limits, returned' \in Nat,
         DrainQueue(n, maxConcurrent', places),
         n <= Cardinality(HeldIn(places)),
         Cardinality(HeldIn(places)) <= n + returned'
  PROVE  SlotsTaken' /\ \E k \in 0..Len(queue) : Line!Serve(k, HeldIn(places))
<1>1. PICK k \in 0..Len(queue) :
        /\ active' = n + k
        /\ queue' = SubSeq(queue, k + 1, Len(queue))
        /\ HeldIn(at') = HeldIn(places) \cup {queue[i] : i \in 1..k}
        /\ Cardinality(HeldIn(at')) = Cardinality(HeldIn(places)) + k
        /\ k > 0 => n + k <= maxConcurrent'
        /\ k < Len(queue) => n + k >= maxConcurrent'
  BY DrainServes DEF IInv
<1>2. /\ maxConcurrent' \in Nat /\ Cardinality(HeldIn(places)) \in Nat
      /\ k \in Nat /\ Holders' = HeldIn(at')
  <2>1. queue \in Seq(Children) /\ Len(queue) \in Nat
    BY LenProperties DEF IInv, TypeOK
  <2>2. Cardinality(HeldIn(places)) \in Nat
    BY HeldFinite
  <2>3. Holders' = HeldIn(at')
    BY DEF Holders, HeldIn
  <2> QED BY <2>1, <2>2, <2>3, PoolAssumption
<1>3. SlotsTaken'
  BY <1>1, <1>2 DEF SlotsTaken
<1>4. /\ k > 0 => Cardinality(Holders') <= maxConcurrent' + returned'
      /\ k < Len(queue) => Cardinality(Holders') >= maxConcurrent'
  BY <1>1, <1>2
<1>5. Line!Serve(k, HeldIn(places))
  BY <1>1, <1>2, <1>4, LineCardinality DEF Line!Serve
<1> QED BY <1>3, <1>5

\* A generator that ends is SlotLine's Release, or adds a spare slot.
LEMMA ReleaseServes ==
  ASSUME IInv, SlotsTaken, NEW c \in Children, at[c] \notin {"parked", "none", "over"},
         ReleaseSlot(c), UNCHANGED maxConcurrent
  PROVE  SlotsTaken' /\ (Line!Release(c) \/ Line!AddSpare)
<1> DEFINE places == [at EXCEPT ![c] = "over"]
<1>1. /\ Released \in Nat /\ places \in [Children -> Places]
      /\ maxConcurrent' \in Limits /\ active \in Nat /\ returned \in Nat
      /\ returned' \in Nat /\ at \in [Children -> Places]
  BY DEF IInv, TypeOK, Released, Places, ReleaseSlot
<1>2. \A d \in Children : places[d] = "parked" <=> at[d] = "parked"
  BY <1>1
<1>3. DrainQueue(Released, maxConcurrent', places)
  BY DEF ReleaseSlot
<1>4. /\ Holders = HeldIn(at) /\ Cardinality(HeldIn(at)) \in Nat
      /\ Cardinality(HeldIn(at)) <= active + returned
      /\ active <= Cardinality(HeldIn(at))
  BY HeldFinite DEF IInv, SlotsCounted, SlotsTaken, Holders, HeldIn
<1>5. CASE at[c] = "flushed"
  <2>1. HeldIn(places) = HeldIn(at) /\ returned' = returned + 1
    BY <1>1, <1>5 DEF HeldIn, ReleaseSlot
  <2>2. /\ Released <= Cardinality(HeldIn(places))
        /\ Cardinality(HeldIn(places)) <= Released + returned'
    BY <1>1, <1>4, <2>1 DEF Released
  <2>3. SlotsTaken' /\ \E k \in 0..Len(queue) : Line!Serve(k, HeldIn(places))
    BY <1>1, <1>2, <1>3, <2>2, Served
  <2> QED BY <1>4, <2>1, <2>3 DEF Line!AddSpare
<1>6. CASE at[c] # "flushed"
  <2>1. /\ HeldIn(places) = HeldIn(at) \ {c} /\ c \in HeldIn(at)
        /\ returned' = returned
    BY <1>1, <1>6 DEF HeldIn, ReleaseSlot, Places
  <2>2. Cardinality(HeldIn(places)) = Cardinality(HeldIn(at)) - 1
    BY <2>1, HeldFinite, FS_RemoveElement
  <2>3. /\ Released <= Cardinality(HeldIn(places))
        /\ Cardinality(HeldIn(places)) <= Released + returned'
    <3>1. Cardinality(HeldIn(places)) \in Nat
      BY HeldFinite
    <3> QED BY <1>1, <1>4, <2>1, <2>2, <3>1 DEF Released
  <2>4. SlotsTaken' /\ \E k \in 0..Len(queue) : Line!Serve(k, HeldIn(places))
    BY <1>1, <1>2, <1>3, <2>3, Served
  <2> QED BY <1>4, <2>1, <2>4 DEF Line!Release
<1> QED BY <1>5, <1>6

LEMMA SpawnServes ==
  ASSUME IInv, SlotsTaken, NEW c \in Children, Spawn(c)
  PROVE  SlotsTaken' /\ (Line!Take(c) \/ Line!Wait(c))
<1>1. /\ maxConcurrent \in Nat /\ active \in Nat /\ returned \in Nat
      /\ queue \in Seq(Children) /\ Len(queue) \in Nat /\ at \in [Children -> Places]
      /\ at[c] \in {"none", "over"}
  BY PoolAssumption, LenProperties DEF IInv, TypeOK, Spawn, UnderWay
<1>2. /\ Holders = HeldIn(at) /\ Holders' = HeldIn(at')
      /\ IsFiniteSet(Holders) /\ Cardinality(Holders) \in Nat
      /\ Cardinality(Holders) <= active + returned
      /\ active <= Cardinality(Holders)
  BY HeldFinite DEF IInv, SlotsCounted, SlotsTaken, Holders, HeldIn
<1>3. c \notin Holders
  BY <1>1 DEF Holders
<1>4. CASE active < maxConcurrent
  <2>1. /\ active' = active + 1 /\ at' = [at EXCEPT ![c] = "granted"]
        /\ queue' = queue /\ maxConcurrent' = maxConcurrent /\ returned' = returned
    BY <1>1, <1>4 DEF Spawn
  <2>2. queue = <<>>
    <3>1. \A d \in Children : at[d] # "parked"
      BY <1>1, <1>4 DEF IInv, NobodyWaitsInVain
    <3>2. 1..Len(queue) = {}
      BY <1>1, <3>1, LenProperties DEF IInv, QueueSound
    <3>3. Len(queue) = 0
      <4>1. Len(queue) # 0 => 1 \in 1..Len(queue)
        BY <1>1
      <4> QED BY <3>2, <4>1
    <3> QED BY <1>1, <3>3, EmptySeq
  <2>3. Holders' = Holders \cup {c}
    BY <1>1, <2>1 DEF Holders
  <2>4. Cardinality(Holders') = Cardinality(Holders) + 1
    BY <1>2, <1>3, <2>3, FS_AddElement
  <2>5. SlotsTaken'
    BY <1>1, <1>2, <2>1, <2>4 DEF SlotsTaken
  <2>6. Cardinality(Holders') <= maxConcurrent + returned
    BY <1>1, <1>2, <1>4, <2>4
  <2> QED BY <1>3, <2>1, <2>2, <2>3, <2>5, <2>6, LineCardinality DEF Line!Take
<1>5. CASE ~(active < maxConcurrent)
  <2>1. /\ active' = active /\ at' = [at EXCEPT ![c] = "parked"]
        /\ queue' = Append(queue, c) /\ maxConcurrent' = maxConcurrent
        /\ returned' = returned
    BY <1>1, <1>5 DEF Spawn, Parked
  <2>2. Holders' = Holders
    BY <1>1, <2>1 DEF Holders
  <2>3. \A i \in DOMAIN queue : queue[i] # c
    BY <1>1, LenProperties DEF IInv, QueueSound
  <2>4. Cardinality(Holders) >= maxConcurrent /\ SlotsTaken'
    BY <1>1, <1>2, <1>5, <2>1, <2>2 DEF SlotsTaken
  <2> QED BY <1>3, <2>1, <2>2, <2>3, <2>4, LineCardinality DEF Line!Wait
<1> QED BY <1>4, <1>5

LEMMA LimitServes ==
  ASSUME IInv, SlotsTaken, NEW limit \in Limits, SetMaxConcurrent(limit)
  PROVE  SlotsTaken' /\ Line!SetLimit(limit)
<1>1. /\ active \in Nat /\ returned \in Nat /\ at \in [Children -> Places]
      /\ maxConcurrent' = limit /\ returned' = returned
      /\ DrainQueue(active, maxConcurrent', at)
  BY DEF IInv, TypeOK, SetMaxConcurrent
<1>2. /\ Holders = HeldIn(at)
      /\ Cardinality(HeldIn(at)) <= active + returned'
      /\ active <= Cardinality(HeldIn(at))
  BY <1>1 DEF IInv, SlotsCounted, SlotsTaken, Holders, HeldIn
<1>3. SlotsTaken' /\ \E k \in 0..Len(queue) : Line!Serve(k, HeldIn(at))
  BY <1>1, <1>2, Served
<1> QED BY <1>1, <1>2, <1>3 DEF Line!SetLimit

\* Every step of the manager is one of SlotLine's, or leaves its line alone.
LEMMA LineStep ==
  ASSUME IInv, SlotsTaken, [Next]_vars
  PROVE  SlotsTaken' /\ [Line!Next]_(Line!slotVars)
<1> USE DEF Line!slotVars
<1>1. ASSUME NEW c \in Children, Spawn(c)
      PROVE  SlotsTaken' /\ [Line!Next]_(Line!slotVars)
  BY <1>1, SpawnServes DEF Line!Next
<1>2. ASSUME NEW c \in Children, Withdraw(c) \/ Close(c)
      PROVE  SlotsTaken' /\ [Line!Next]_(Line!slotVars)
  <2>1. /\ at[c] \notin {"parked", "none", "over"} /\ ReleaseSlot(c)
        /\ UNCHANGED maxConcurrent
    BY <1>2 DEF Withdraw, Close, Resumed
  <2> QED BY <2>1, ReleaseServes DEF Line!Next
<1>3. ASSUME NEW limit \in Limits, SetMaxConcurrent(limit)
      PROVE  SlotsTaken' /\ [Line!Next]_(Line!slotVars)
  BY <1>3, LimitServes DEF Line!Next
<1>4. ASSUME NEW c \in Children, Start(c) \/ RunnerEnds(c)
      PROVE  SlotsTaken' /\ [Line!Next]_(Line!slotVars)
  <2>1. at[c] # "flushed"
    BY <1>4 DEF Start, RunnerEnds, IInv, SignalSound
  <2>2. Holders' = Holders
    BY <1>4, <2>1 DEF Start, RunnerEnds, Resumed, Holders, IInv, TypeOK
  <2>3. UNCHANGED <<queue, maxConcurrent, returned, active>>
    BY <1>4 DEF Start, RunnerEnds
  <2> QED BY <2>2, <2>3 DEF SlotsTaken
<1>5. CASE (\E c \in Children : Abort(c)) \/ (\E cs \in SUBSET Children : CancelParent(cs))
             \/ UNCHANGED vars
  <2>1. UNCHANGED <<at, queue, maxConcurrent, returned, active>>
    BY <1>5 DEF Abort, CancelParent, vars
  <2> QED BY <2>1 DEF SlotsTaken, Holders
<1>6. CASE DisposeAll
  <2>1. Holders' = Holders
    BY <1>6 DEF DisposeAll, Holders, IInv, TypeOK
  <2>2. queue' = <<>> /\ UNCHANGED <<maxConcurrent, returned, active>>
    BY <1>6 DEF DisposeAll
  <2> QED BY <2>1, <2>2 DEF SlotsTaken, Line!Next, Line!Dismiss
<1> QED BY <1>1, <1>2, <1>3, <1>4, <1>5, <1>6 DEF Next

\* The manager implements SlotLine: children get slots in the order of asking,
\* none beyond the limit and the spare ones, and none is left waiting while
\* fewer than the limit are in use.
THEOREM PoolServedInLine == Spec => ServedInLine
<1>1. Init => Line!Init /\ SlotsTaken
  <2> SUFFICES ASSUME Init PROVE Line!Init /\ SlotsTaken
    OBVIOUS
  <2>1. Holders = {}
    BY DEF Init, Holders
  <2> QED BY <2>1, FS_EmptySet DEF Init, Line!Init, SlotsTaken
<1>2. IInv /\ SlotsTaken /\ [Next]_vars => SlotsTaken' /\ [Line!Next]_(Line!slotVars)
  BY LineStep
<1> QED BY PoolInvariant, <1>1, <1>2, PTL DEF Spec, ServedInLine, Line!Spec
=============================================================================
