------------------------- MODULE DesignPageletProofs -------------------------
(* What is proved of DesignPagelet, for any calls, polls and requests.      *)
(* IInv: cancelling reaches the call that runs; the writer has no part in   *)
(* it. LInv: where the text of every delta is, through the writer's buffer, *)
(* flush and callers. NInv: no event goes ahead of text streamed before it. *)
(* SInv: where the items on their way lead the run's status, and that the   *)
(* run store follows. Facts on lists of numbered things, on the deltas and  *)
(* the status of sequences of items and on Hand come before them.           *)
EXTENDS DesignPagelet, FiniteSetTheorems, WellFoundedInduction, TLAPS

EventTypes == {"none", "run_started", "tool_call", "run_completed",
               "run_failed", "run_cancelled"}
Call == [at : {"unused", "creating", "activating", "running", "saving",
               "closing", "done"},
         aborted : BOOLEAN,
         said : {"nothing", "started", "over"},
         event : EventTypes]

IInv ==
  /\ calls \in [Calls -> Call]
  /\ activeRun \in Calls \union {None}
  /\ CancelReaches

\* A call that moves to another of its awaits, without beginning to run.
LEMMA MoveSound ==
  ASSUME NEW k \in Calls, NEW call \in Call, IInv,
         UNCHANGED <<activeRun, stray>>,
         calls' = [calls EXCEPT ![k] = call],
         call.aborted = calls[k].aborted,
         call.at \in {"running", "saving"} => Executing(k)
  PROVE  IInv'
BY DEF IInv, CancelReaches, Executing

\* Another call's end: it takes the controller, whosever it is, and that call,
\* if it still runs, is a stray one from then on.
LEMMA EndSound ==
  ASSUME NEW k \in Calls, NEW call \in Call, IInv, FinishRun(k),
         calls' = [calls EXCEPT ![k] = call],
         call.at \notin {"running", "saving"}
  PROVE  IInv'
BY DesignAssumption DEF IInv, CancelReaches, FinishRun, Executing

\* Aborting reaches the registered call and leaves every other as it is.
LEMMA AbortedCalls ==
  ASSUME IInv
  PROVE  /\ Aborted \in [Calls -> Call]
         /\ \A j \in Calls : /\ Aborted[j].at = calls[j].at
                             /\ j = activeRun => Aborted[j].aborted
                             /\ j # activeRun => Aborted[j] = calls[j]
<1>1. CASE activeRun = None
  BY <1>1, DesignAssumption DEF IInv, Aborted
<1>2. CASE activeRun \in Calls
  <2> DEFINE call == [calls[activeRun] EXCEPT !.aborted = TRUE]
  <2>1. Aborted = [calls EXCEPT ![activeRun] = call]
    BY <1>2, DesignAssumption DEF Aborted
  <2>2. call \in Call /\ call.at = calls[activeRun].at /\ call.aborted
    BY <1>2 DEF IInv, Call
  <2> HIDE DEF call
  <2> QED
    BY <1>2, <2>1, <2>2 DEF IInv
<1> QED
  BY <1>1, <1>2 DEF IInv

LEMMA AbortSound ==
  ASSUME IInv, calls' = Aborted, UNCHANGED <<activeRun, stray>>
  PROVE  IInv'
BY AbortedCalls DEF IInv, CancelReaches, Executing

LEMMA StartSound ==
  ASSUME NEW k \in Calls, IInv, StartRun(k)
  PROVE  IInv'
<1> DEFINE call == [Aborted[k] EXCEPT !.at = "running"]
<1>1. /\ calls' = [Aborted EXCEPT ![k] = call]
      /\ activeRun' = k /\ UNCHANGED stray
  BY DEF StartRun, historyVars
<1>2. call \in Call
  BY AbortedCalls DEF Call
<1> HIDE DEF call
<1> QED
  BY <1>1, <1>2, AbortedCalls DEF IInv, CancelReaches, Executing

\* What a call does between its beginning and its end.
LEMMA CallSound ==
  ASSUME NEW k \in Calls, IInv,
         \/ CallStep(k) \/ YieldEvent(k) \/ EmitEvent(k) \/ ReturnClosed(k)
  PROVE  IInv'
<1>0. calls[k] \in Call
  BY DEF IInv
<1>1. CASE CreateRun(k)
  <2> DEFINE call == [calls[k] EXCEPT !.at = "activating"]
  <2>1. call \in Call /\ call.aborted = calls[k].aborted /\ call.at = "activating"
    BY <1>0 DEF Call
  <2>2. calls' = [calls EXCEPT ![k] = call] /\ UNCHANGED <<activeRun, stray>>
    BY <1>1 DEF CreateRun, historyVars
  <2> HIDE DEF call
  <2> QED
    BY <2>1, <2>2, MoveSound
<1>2. CASE StartRun(k)
  BY <1>2, StartSound
<1>3. CASE CloseRun(k)
  <2>1. PICK type \in {"run_cancelled", "run_failed"} :
          calls' = [calls EXCEPT ![k].at = "closing", ![k].event = type]
    BY <1>3 DEF CloseRun
  <2> DEFINE call == [calls[k] EXCEPT !.at = "closing", !.event = type]
  <2>2. call \in Call /\ call.at = "closing"
    BY <1>0 DEF Call, EventTypes
  <2>3. calls' = [calls EXCEPT ![k] = call] /\ FinishRun(k)
    BY <1>3, <2>1, <1>0 DEF CloseRun, IInv, Call
  <2> HIDE DEF call
  <2> QED
    BY <2>2, <2>3, EndSound
<1>4. CASE CompleteRun(k)
  <2> DEFINE call == [calls[k] EXCEPT !.at = "done"]
  <2>1. call \in Call /\ call.at = "done"
    BY <1>0 DEF Call
  <2>2. calls' = [calls EXCEPT ![k] = call] /\ FinishRun(k)
    BY <1>4 DEF CompleteRun
  <2> HIDE DEF call
  <2> QED
    BY <2>1, <2>2, EndSound
<1>5. CASE YieldEvent(k)
  <2>1. PICK type \in EventTypes, said \in {"started", "over"} :
          calls' = [calls EXCEPT ![k].at = "saving", ![k].said = said,
                                 ![k].event = type]
    BY <1>5 DEF YieldEvent, Save, EventTypes
  <2> DEFINE call == [calls[k] EXCEPT !.at = "saving", !.said = said,
                                      !.event = type]
  <2>2. call \in Call /\ call.aborted = calls[k].aborted
    BY <1>0 DEF Call
  <2>3. /\ calls' = [calls EXCEPT ![k] = call] /\ UNCHANGED <<activeRun, stray>>
        /\ Executing(k)
    BY <1>0, <1>5, <2>1 DEF YieldEvent, Executing, IInv, Call
  <2> HIDE DEF call
  <2> QED
    BY <2>2, <2>3, MoveSound
<1>6. CASE EmitEvent(k)
  <2> DEFINE call == [calls[k] EXCEPT !.at = "running"]
  <2>1. call \in Call /\ call.aborted = calls[k].aborted
    BY <1>0 DEF Call
  <2>2. /\ calls' = [calls EXCEPT ![k] = call] /\ UNCHANGED <<activeRun, stray>>
        /\ Executing(k)
    BY <1>6 DEF EmitEvent, historyVars, Executing
  <2> HIDE DEF call
  <2> QED
    BY <2>1, <2>2, MoveSound
<1>7. CASE ReturnClosed(k)
  <2> DEFINE call == [calls[k] EXCEPT !.at = "done"]
  <2>1. call \in Call /\ call.aborted = calls[k].aborted /\ call.at = "done"
    BY <1>0 DEF Call
  <2>2. calls' = [calls EXCEPT ![k] = call] /\ UNCHANGED <<activeRun, stray>>
    BY <1>7 DEF ReturnClosed, historyVars
  <2> HIDE DEF call
  <2> QED
    BY <2>1, <2>2, MoveSound
<1> QED
  BY <1>1, <1>2, <1>3, <1>4, <1>5, <1>6, <1>7 DEF CallStep

\* A call is begun, by the renderer or a poll; it has no controller yet.
LEMMA BeginSound ==
  ASSUME IInv, Begin, UNCHANGED <<activeRun, stray>>
  PROVE  IInv'
<1>1. PICK k \in Calls : calls' = [calls EXCEPT ![k].at = "creating"]
  BY DEF Begin
<1> DEFINE call == [calls[k] EXCEPT !.at = "creating"]
<1>2. call \in Call /\ call.aborted = calls[k].aborted /\ call.at = "creating"
  BY DEF IInv, Call
<1>3. calls' = [calls EXCEPT ![k] = call]
  BY <1>1
<1> HIDE DEF call
<1> QED
  BY <1>2, <1>3, MoveSound

LEMMA RestSound ==
  ASSUME IInv, UNCHANGED <<calls, activeRun, stray>>
  PROVE  IInv'
BY DEF IInv, CancelReaches, Executing

\* Writer, readers and polls have no part in it.
LEMMA OthersRest ==
  ASSUME \/ \E c \in Callers : GoOn(c)
         \/ WriterStep \/ DeleteRuns \/ Activate
         \/ \E k \in Calls, q \in Requests : YieldDelta(k, q)
         \/ \E p \in Polls : ListIntents(p) \/ TakeIntent(p)
         \/ ReadRun \/ DeleteSession \/ RequestIntent
  PROVE  UNCHANGED <<calls, activeRun, stray>>
BY DEF GoOn, WriterStep, WriteBatch, EndFlush, RejectBatch, FlushTimer,
       DeleteRuns, Activate, YieldDelta, ListIntents, TakeIntent, ReadRun,
       DeleteSession, RequestIntent, runVars, historyVars, ledgerVars

LEMMA CallsBegin == Init => IInv
BY DEF Init, IInv, CancelReaches, Executing, Unused, Call, EventTypes

LEMMA CallsStep ==
  ASSUME IInv, [Next]_vars
  PROVE  IInv'
<1>1. ASSUME NEW k \in Calls,
             \/ CallStep(k) \/ YieldEvent(k) \/ EmitEvent(k) \/ ReturnClosed(k)
      PROVE  IInv'
  BY <1>1, CallSound
<1>2. CASE CancelListed
  BY <1>2, AbortSound, RestSound DEF CancelListed, historyVars
<1>3. CASE CancelRun
  BY <1>3, AbortSound DEF CancelRun, historyVars
<1>4. CASE SendFromRenderer
  BY <1>4, BeginSound DEF SendFromRenderer, historyVars
<1>5. ASSUME NEW p \in Polls, ClaimIntent(p)
      PROVE  IInv'
  BY <1>5, BeginSound DEF ClaimIntent, historyVars
<1>6. CASE UNCHANGED vars
  BY <1>6, RestSound DEF vars, runVars, historyVars
<1> QED
  BY <1>1, <1>2, <1>3, <1>4, <1>5, <1>6, OthersRest, RestSound
     DEF Next, Resume, Task, PollStep

\* A call that runs and is not aborted is the one cancelling reaches, except
\* where the end of a call it replaced took its controller
\* (AgentRunControl.startRun, cancelRun and finishRun).
THEOREM DesignCancelReaches == Spec => []CancelReaches
<1>1. IInv /\ [Next]_vars => IInv'
  BY CallsStep
<1>2. IInv => CancelReaches
  BY DEF IInv
<1> QED
  BY CallsBegin, <1>1, <1>2, PTL DEF Spec
------------------------------------------------------------------------------
\* A nonempty set of naturals has a least element.
LEMMA LeastNatural ==
  ASSUME NEW T, T \subseteq Nat, T # {}
  PROVE  \E x \in T : \A y \in T : x <= y
<1> DEFINE R == OpToRel(<, Nat)
<1>1. IsWellFoundedOn(R, Nat)
  BY NatLessThanWellFounded
<1>2. \A x, y \in Nat : y < x => <<y, x>> \in R
  BY DEF OpToRel
<1> HIDE DEF R
<1>3. PICK x \in T : \A y \in T : <<y, x>> \notin R
  BY <1>1, WFMin
<1>4. ASSUME NEW y \in T
    PROVE  x <= y
  <2>1. x \in Nat /\ y \in Nat /\ ~(y < x)
    BY <1>2, <1>3
  <2> QED
    BY <2>1
<1> QED
  BY <1>4

\* A nonempty set of numbers up to n has a greatest element.
LEMMA GreatestNatural ==
  ASSUME NEW n \in Nat, NEW T, T \subseteq 1..n, T # {}
  PROVE  \E x \in T : \A y \in T : y <= x
<1> DEFINE U == {k \in Nat : \A y \in T : y <= k}
<1>1. n \in U
  OBVIOUS
<1>2. PICK k \in U : \A m \in U : k <= m
  BY <1>1, LeastNatural
<1>3. CASE k \in T
  BY <1>2, <1>3
<1>4. CASE k \notin T
  <2>1. k # 0
    <3>1. PICK y \in T : y \in 1..n /\ y <= k
      BY <1>2
    <3> QED
      BY <3>1
  <2>2. k - 1 \in Nat /\ ~(k <= k - 1)
    BY <1>2, <2>1
  <2>3. \A y \in T : y <= k - 1
    BY <1>2, <1>4, <2>1
  <2>4. k - 1 \in U
    BY <2>2, <2>3
  <2> QED
    BY <1>2, <2>2, <2>4
<1> QED
  BY <1>3, <1>4

\* A finite set whose members have numbers of their own can be listed in the
\* order of these: the place of a member is how many are not behind it.
LEMMA SortedListing ==
  ASSUME NEW S, IsFiniteSet(S), NEW num \in [S -> Nat],
         \A p, q \in S : num[p] = num[q] => p = q
  PROVE  \E s \in [1..Cardinality(S) -> S] :
           \A i, j \in 1..Cardinality(S) : i < j => num[s[i]] < num[s[j]]
<1> DEFINE size == Cardinality(S)
           upto(q) == {p \in S : num[p] <= num[q]}
           place == [q \in S |-> Cardinality(upto(q))]
<1>1. size \in Nat
  BY FS_CardinalityType
<1>2. ASSUME NEW q \in S
      PROVE  /\ IsFiniteSet(upto(q)) /\ place[q] \in Nat
             /\ place[q] >= 1 /\ place[q] <= size
  <2>1. upto(q) \in SUBSET S /\ q \in upto(q)
    OBVIOUS
  <2> HIDE DEF upto
  <2>2. IsFiniteSet(upto(q)) /\ Cardinality(upto(q)) <= size
    BY <2>1, FS_Subset
  <2>3. Cardinality(upto(q)) \in Nat /\ Cardinality(upto(q)) # 0
    BY <2>1, <2>2, FS_CardinalityType, FS_EmptySet
  <2> QED
    BY <2>2, <2>3
<1>3. ASSUME NEW p \in S, NEW q \in S, num[p] < num[q]
      PROVE  place[p] < place[q]
  <2>1. upto(p) \in SUBSET upto(q) /\ q \in upto(q) /\ q \notin upto(p)
    BY <1>3
  <2>2. IsFiniteSet(upto(q)) /\ place[p] \in Nat /\ place[q] \in Nat
    BY <1>2
  <2> HIDE DEF upto
  <2>3. Cardinality(upto(p)) <= Cardinality(upto(q))
        /\ Cardinality(upto(q)) # Cardinality(upto(p))
    BY <2>1, <2>2, FS_Subset
  <2> QED
    BY <2>2, <2>3
<1> HIDE DEF upto, place
<1>4. place \in Injection(S, 1..size)
  <2>1. place \in [S -> 1..size]
    BY <1>1, <1>2 DEF place
  <2>2. \A p, q \in S : num[p] < num[q] \/ num[q] < num[p] \/ p = q
    OBVIOUS
  <2>3. ASSUME NEW p \in S, NEW q \in S, place[p] = place[q]
        PROVE  p = q
    BY <1>2, <1>3, <2>2, <2>3
  <2> QED
    BY <2>1, <2>3 DEF Injection, IsInjective
<1>5. place \in Surjection(S, 1..size)
  <2>1. IsFiniteSet(1..size) /\ Cardinality(1..size) = size
    BY <1>1, FS_Interval
  <2> QED
    BY <1>4, <2>1, FS_Injection
<1>6. \A i \in 1..size : \E q \in S : place[q] = i
  BY <1>5 DEF Surjection
<1> DEFINE s == [i \in 1..size |-> CHOOSE q \in S : place[q] = i]
<1>7. \A i \in 1..size : s[i] \in S /\ place[s[i]] = i
  BY <1>6
<1> HIDE DEF s
<1>8. ASSUME NEW i \in 1..size, NEW j \in 1..size, i < j
      PROVE  num[s[i]] < num[s[j]]
  <2>1. num[s[j]] < num[s[i]] => j < i
    BY <1>3, <1>7
  <2>2. num[s[j]] = num[s[i]] => i = j
    BY <1>7
  <2> QED
    BY <1>7, <1>8, <2>1, <2>2
<1>9. s \in [1..size -> S]
  BY <1>7 DEF s
<1> QED
  BY <1>8, <1>9

------------------------------------------------------------------------------
\* What callers append, what of it is an event or a message, and its deltas
Types == EventTypes \ {"none"}
Letter == [type : Types, after : Nat]
            \union [type : {"assistant_message"}, req : Requests,
                    deltas : SUBSET Nat]
Item == Letter \union {Flush}
Own(item) == IF item.type = "assistant_message" THEN item.deltas ELSE {}

LEMMA FlushApart == Flush \notin Letter
BY DEF Flush, Letter, Types, EventTypes

LEMMA DeltasOf ==
  ASSUME NEW s \in Seq(Item)
  PROVE  \A n : n \in Deltas(s) <=> \E i \in 1..Len(s) : n \in Own(s[i])
BY DEF Deltas, Own

LEMMA DeltasNone == Deltas(<<>>) = {}
BY DEF Deltas

LEMMA DeltasAppended ==
  ASSUME NEW s \in Seq(Item), NEW item \in Item
  PROVE  Deltas(Append(s, item)) = Deltas(s) \union Own(item)
<1> DEFINE t == Append(s, item)
<1>1. /\ t \in Seq(Item) /\ Len(t) = Len(s) + 1 /\ Len(s) \in Nat
      /\ \A i \in 1..Len(s) : t[i] = s[i]
      /\ t[Len(s) + 1] = item
  OBVIOUS
<1> HIDE DEF t
<1>2. ASSUME NEW n
      PROVE  n \in Deltas(t) <=> n \in Deltas(s) \/ n \in Own(item)
  <2>1. (\E i \in 1..Len(t) : n \in Own(t[i]))
          <=> (\E i \in 1..Len(s) : n \in Own(s[i])) \/ n \in Own(item)
    BY <1>1
  <2> QED
    BY <1>1, <2>1, DeltasOf
<1> QED
  BY <1>2 DEF t

LEMMA DeltasJoined ==
  ASSUME NEW s \in Seq(Item), NEW u \in Seq(Item)
  PROVE  Deltas(s \o u) = Deltas(s) \union Deltas(u)
<1> DEFINE t == s \o u
<1>1. /\ t \in Seq(Item) /\ Len(t) = Len(s) + Len(u)
      /\ Len(s) \in Nat /\ Len(u) \in Nat
      /\ \A i \in 1..Len(s) : t[i] = s[i]
      /\ \A i \in 1..Len(u) : t[Len(s) + i] = u[i]
      /\ \A i \in 1..Len(t) : i \in 1..Len(s) \/ i - Len(s) \in 1..Len(u)
      /\ \A i \in 1..Len(u) : Len(s) + i \in 1..Len(t)
      /\ \A i \in 1..Len(s) : i \in 1..Len(t)
  OBVIOUS
<1> HIDE DEF t
<1>2. ASSUME NEW n
      PROVE  n \in Deltas(t) <=> n \in Deltas(s) \/ n \in Deltas(u)
  <2>1. ASSUME NEW i \in 1..Len(t), n \in Own(t[i])
        PROVE  n \in Deltas(s) \/ n \in Deltas(u)
    <3>1. CASE i \in 1..Len(s)
      BY <1>1, <2>1, <3>1, DeltasOf
    <3>2. CASE i - Len(s) \in 1..Len(u)
      <4>1. i = Len(s) + (i - Len(s))
        BY <1>1
      <4>2. t[i] = u[i - Len(s)]
        BY <1>1, <3>2, <4>1
      <4> QED
        BY <2>1, <3>2, <4>2, DeltasOf
    <3> QED
      BY <1>1, <3>1, <3>2
  <2>2. ASSUME NEW i \in 1..Len(s), n \in Own(s[i])
        PROVE  n \in Deltas(t)
    BY <1>1, <2>2, DeltasOf
  <2>3. ASSUME NEW i \in 1..Len(u), n \in Own(u[i])
        PROVE  n \in Deltas(t)
    BY <1>1, <2>3, DeltasOf
  <2> QED
    BY <1>1, <2>1, <2>2, <2>3, DeltasOf
<1> QED
  BY <1>2 DEF t

\* The first item and those behind it
LEMMA DeltasSplit ==
  ASSUME NEW s \in Seq(Item), s # <<>>
  PROVE  /\ Head(s) \in Item /\ Tail(s) \in Seq(Item)
         /\ Deltas(s) = Own(Head(s)) \union Deltas(Tail(s))
<1>1. /\ Len(s) \in Nat /\ Len(s) >= 1 /\ s = <<s[1]>> \o Tail(s)
      /\ Head(s) = s[1] /\ s[1] \in Item /\ Tail(s) \in Seq(Item)
      /\ <<s[1]>> \in Seq(Item)
  OBVIOUS
<1>2. Deltas(<<s[1]>>) = Own(s[1])
  <2> DEFINE one == <<s[1]>>
  <2>1. one \in Seq(Item) /\ 1..Len(one) = {1} /\ one[1] = s[1]
    BY <1>1
  <2> HIDE DEF one
  <2>2. \A n : n \in Deltas(one) <=> n \in Own(s[1])
    BY <2>1, DeltasOf
  <2> QED
    BY <2>2 DEF one
<1>3. Deltas(s) = Deltas(<<s[1]>>) \union Deltas(Tail(s))
  BY <1>1, DeltasJoined
<1> QED
  BY <1>1, <1>2, <1>3

------------------------------------------------------------------------------
\* patchForEvent: the last event that tells of the status decides it.
Telling(s) == {i \in DOMAIN s : s[i].type \in DOMAIN StatusAfter}

LEMMA PatchedLast ==
  ASSUME NEW s \in Seq(Item), NEW status, NEW i \in Telling(s),
         \A j \in Telling(s) : j <= i
  PROVE  Patched(status, s) = StatusAfter[s[i].type]
<1> DEFINE last == CHOOSE k \in Telling(s) : \A j \in Telling(s) : j <= k
<1>1. last \in Telling(s) /\ \A j \in Telling(s) : j <= last
  OBVIOUS
<1>2. last = i
  BY <1>1 DEF Telling
<1>3. Patched(status, s) = StatusAfter[s[last].type]
  BY DEF Patched, Telling
<1> QED
  BY <1>2, <1>3

LEMMA PatchedSame ==
  ASSUME NEW s, NEW status, Telling(s) = {}
  PROVE  Patched(status, s) = status
BY DEF Patched, Telling

LEMMA TellingLast ==
  ASSUME NEW s \in Seq(Item), Telling(s) # {}
  PROVE  \E i \in Telling(s) : \A j \in Telling(s) : j <= i
<1>1. Len(s) \in Nat /\ Telling(s) \subseteq 1..Len(s)
  BY DEF Telling
<1> QED
  BY <1>1, GreatestNatural

LEMMA PatchedJoined ==
  ASSUME NEW s \in Seq(Item), NEW u \in Seq(Item), NEW status
  PROVE  Patched(status, s \o u) = Patched(Patched(status, s), u)
<1> DEFINE t == s \o u
<1>1. /\ t \in Seq(Item) /\ Len(t) = Len(s) + Len(u)
      /\ Len(s) \in Nat /\ Len(u) \in Nat
      /\ DOMAIN t = 1..Len(t) /\ DOMAIN s = 1..Len(s) /\ DOMAIN u = 1..Len(u)
      /\ \A i \in 1..Len(s) : t[i] = s[i]
      /\ \A i \in 1..Len(u) : t[Len(s) + i] = u[i]
  OBVIOUS
<1> HIDE DEF t
<1>2. \A i \in 1..Len(s) : i \in Telling(t) <=> i \in Telling(s)
  BY <1>1 DEF Telling
<1>3. \A i \in 1..Len(u) : Len(s) + i \in Telling(t) <=> i \in Telling(u)
  BY <1>1 DEF Telling
<1>4. \A j \in Telling(t) : j \in 1..Len(s)
                            \/ \E i \in 1..Len(u) : j = Len(s) + i
  <2>1. ASSUME NEW j \in Telling(t), j \notin 1..Len(s)
        PROVE  \E i \in 1..Len(u) : j = Len(s) + i
    <3>1. j \in 1..Len(t)
      BY <1>1 DEF Telling
    <3>2. j - Len(s) \in 1..Len(u) /\ j = Len(s) + (j - Len(s))
      BY <1>1, <2>1, <3>1
    <3> QED
      BY <3>2
  <2> QED
    BY <2>1
<1>5. CASE Telling(u) # {}
  <2>1. PICK i \in Telling(u) : \A j \in Telling(u) : j <= i
    BY <1>5, TellingLast
  <2>2. i \in 1..Len(u)
    BY <1>1 DEF Telling
  <2>3. Len(s) + i \in Telling(t) /\ \A j \in Telling(t) : j <= Len(s) + i
    BY <1>1, <1>3, <1>4, <2>1, <2>2
  <2>4. Patched(status, t) = StatusAfter[t[Len(s) + i].type]
    BY <1>1, <2>3, PatchedLast
  <2>5. Patched(Patched(status, s), u) = StatusAfter[u[i].type]
    BY <2>1, PatchedLast
  <2> QED
    BY <1>1, <2>2, <2>4, <2>5 DEF t
<1>6. CASE Telling(u) = {} /\ Telling(s) # {}
  <2>1. PICK i \in Telling(s) : \A j \in Telling(s) : j <= i
    BY <1>6, TellingLast
  <2>2. i \in 1..Len(s)
    BY <1>1 DEF Telling
  <2>3. i \in Telling(t) /\ \A j \in Telling(t) : j <= i
    BY <1>2, <1>3, <1>4, <1>6, <2>1, <2>2
  <2>4. Patched(status, t) = StatusAfter[t[i].type]
    BY <1>1, <2>3, PatchedLast
  <2>5. Patched(status, s) = StatusAfter[s[i].type]
    BY <2>1, PatchedLast
  <2> QED
    BY <1>1, <1>6, <2>2, <2>4, <2>5, PatchedSame DEF t
<1>7. CASE Telling(u) = {} /\ Telling(s) = {}
  <2>1. Telling(t) = {}
    BY <1>2, <1>3, <1>4, <1>7
  <2> QED
    BY <1>7, <2>1, PatchedSame DEF t
<1> QED
  BY <1>5, <1>6, <1>7

LEMMA PatchedOne ==
  ASSUME NEW item \in Item, NEW status
  PROVE  Patched(status, <<item>>) = IF item.type \in DOMAIN StatusAfter
                                     THEN StatusAfter[item.type] ELSE status
<1>1. <<item>> \in Seq(Item)
  OBVIOUS
<1>2. CASE item.type \in DOMAIN StatusAfter
  <2> DEFINE one == <<item>>
  <2>1. one \in Seq(Item) /\ one[1] = item /\ Telling(one) = {1}
    BY <1>2 DEF Telling
  <2> HIDE DEF one
  <2>2. 1 \in Telling(one) /\ \A j \in Telling(one) : j <= 1
    BY <2>1
  <2>3. Patched(status, one) = StatusAfter[one[1].type]
    BY <2>1, <2>2, PatchedLast
  <2> QED
    BY <1>2, <2>1, <2>3 DEF one
<1>3. CASE item.type \notin DOMAIN StatusAfter
  <2>1. Telling(<<item>>) = {}
    BY <1>3 DEF Telling
  <2> QED
    BY <1>3, <2>1, PatchedSame
<1> QED
  BY <1>2, <1>3

\* A record stays one: a batch makes a status of it, and not "absent".
Statuses == {"queued", "running"} \union Terminal

LEMMA PatchedTyped ==
  ASSUME NEW s \in Seq(Item), NEW status \in Statuses
  PROVE  Patched(status, s) \in Statuses
<1>1. CASE Telling(s) = {}
  BY <1>1, PatchedSame
<1>2. CASE Telling(s) # {}
  <2>1. PICK i \in Telling(s) : \A j \in Telling(s) : j <= i
    BY <1>2, TellingLast
  <2>2. Patched(status, s) = StatusAfter[s[i].type]
    BY <2>1, PatchedLast
  <2>3. s[i].type \in DOMAIN StatusAfter
    BY DEF Telling
  <2> QED
    BY <2>2, <2>3 DEF StatusAfter, Statuses, Terminal
<1> QED
  BY <1>1, <1>2

------------------------------------------------------------------------------
\* The writer's text, items and flushes are typed; a flush that is not there
\* has nothing in it.
TInv ==
  /\ record \in Statuses \union {"absent"}
  /\ heard \in Nat /\ written \subseteq Nat /\ dropped \subseteq Nat
  /\ text \in [Requests -> SUBSET Nat]
  /\ job \in [Callers -> Seq(Item)]
  /\ waiting \in Seq(Callers)
  /\ buffer \in Seq(Letter)
  /\ flight \in [at : {"none", "writing", "publishing"}, batch : Seq(Letter)]
  /\ flight.at = "none" => flight = NoFlight
  /\ deletion \in {"none", "flushing", "deleting", "done"}
  /\ mixed \in BOOLEAN

LEMMA Callees ==
  /\ Calls \subseteq Callers /\ "console" \in Callers /\ "deletion" \in Callers
  /\ \A k \in Calls : k # "console" /\ k # "deletion"
BY DesignAssumption DEF Callers

LEMMA LettersAreItems == \A s \in Seq(Letter) : s \in Seq(Item)
<1>1. Letter \subseteq Item
  BY DEF Item
<1> QED
  BY <1>1

\* Items whose deltas are no other's
Apart(s) == \A i, j \in 1..Len(s) : i # j => Own(s[i]) \cap Own(s[j]) = {}

LEMMA ApartSplit ==
  ASSUME NEW s \in Seq(Item), s # <<>>, Apart(s)
  PROVE  Own(Head(s)) \cap Deltas(Tail(s)) = {} /\ Apart(Tail(s))
<1> DEFINE t == Tail(s)
<1>1. /\ Len(s) \in Nat /\ Len(s) >= 1 /\ Head(s) = s[1]
      /\ t \in Seq(Item) /\ Len(t) = Len(s) - 1
      /\ \A i \in 1..Len(t) : t[i] = s[i + 1]
  OBVIOUS
<1> HIDE DEF t
<1>2. \A i \in 1..Len(t) : i + 1 \in 1..Len(s) /\ i + 1 # 1 /\ 1 \in 1..Len(s)
  BY <1>1
<1>3. Apart(t)
  <2>1. \A i, j \in 1..Len(t) : i # j => i + 1 # j + 1
    BY <1>1
  <2> QED
    BY <1>1, <1>2, <2>1 DEF Apart
<1>4. \A i \in 1..Len(t) : Own(s[1]) \cap Own(t[i]) = {}
  BY <1>1, <1>2 DEF Apart
<1>5. Own(s[1]) \cap Deltas(t) = {}
  BY <1>1, <1>4, DeltasOf
<1> QED
  BY <1>1, <1>3, <1>5 DEF t

\* Text of a delta is gathered under one request.
TextApart == \A p, q \in Requests : p # q => text[p] \cap text[q] = {}
AllText == UNION {text[q] : q \in Requests}

\* The requests that wait can be listed in the order their text began, and
\* Streaming is such a list.
LEMMA StreamingLists ==
  ASSUME text \in [Requests -> SUBSET Nat], TextApart
  PROVE  /\ Cardinality(Waits) \in Nat
         /\ Streaming \in [1..Cardinality(Waits) -> Waits]
         /\ \A i, j \in 1..Cardinality(Waits) :
              i # j => Streaming[i] # Streaming[j]
         /\ \A q \in Waits : \E i \in 1..Cardinality(Waits) : Streaming[i] = q
<1> DEFINE size == Cardinality(Waits)
           least(q) == CHOOSE n \in text[q] : \A m \in text[q] : n <= m
           num == [q \in Waits |-> least(q)]
<1>1. IsFiniteSet(Waits) /\ size \in Nat
  <2>1. Waits \in SUBSET Requests
    BY DEF Waits
  <2> QED
    BY <2>1, DesignAssumption, FS_Subset, FS_CardinalityType
<1>2. ASSUME NEW q \in Waits
      PROVE  /\ num[q] \in text[q] /\ num[q] \in Nat
             /\ \A m \in text[q] : m \in Nat /\ num[q] <= m
  <2>1. text[q] \subseteq Nat /\ text[q] # {}
    BY DEF Waits
  <2>2. \E n \in text[q] : \A m \in text[q] : n <= m
    BY <2>1, LeastNatural
  <2> QED
    BY <2>1, <2>2
<1> HIDE DEF num
<1>3. num \in [Waits -> Nat]
  BY <1>2 DEF num
<1>4. \A p, q \in Waits : num[p] = num[q] => p = q
  BY <1>2 DEF TextApart, Waits
<1>5. PICK s \in [1..size -> Waits] :
        \A i, j \in 1..size : i < j => num[s[i]] < num[s[j]]
  BY <1>1, <1>3, <1>4, SortedListing
<1>6. ASSUME NEW p \in Waits, NEW q \in Waits, num[p] < num[q]
      PROVE  BeganBefore(p, q)
  <2>1. \A m \in text[q] : num[p] < m
    BY <1>2, <1>6
  <2> QED
    BY <1>2, <2>1 DEF BeganBefore
<1>7. \A i, j \in DOMAIN s : i < j => BeganBefore(s[i], s[j])
  BY <1>5, <1>6
<1>8. /\ Streaming \in [1..size -> Waits]
      /\ \A i, j \in DOMAIN Streaming :
           i < j => BeganBefore(Streaming[i], Streaming[j])
  BY <1>7 DEF Streaming
<1>9. ASSUME NEW i \in 1..size, NEW j \in 1..size, i < j
      PROVE  Streaming[i] # Streaming[j]
  <2>1. BeganBefore(Streaming[i], Streaming[j])
    BY <1>8, <1>9
  <2>2. Streaming[i] \in Waits
    BY <1>8
  <2>3. text[Streaming[i]] \subseteq Nat
    BY <2>2 DEF Waits
  <2> QED
    BY <2>1, <2>3 DEF BeganBefore
<1>10. \A i, j \in 1..size : i # j => Streaming[i] # Streaming[j]
  <2>1. \A i, j \in 1..size : i # j => i < j \/ j < i
    BY <1>1
  <2> QED
    BY <1>9, <2>1
<1>11. Streaming \in Surjection(1..size, Waits)
  <2>1. Streaming \in Injection(1..size, Waits)
    BY <1>8, <1>10 DEF Injection, IsInjective
  <2>2. IsFiniteSet(1..size) /\ Cardinality(1..size) = size
    BY <1>1, FS_Interval
  <2> QED
    BY <1>1, <2>1, <2>2, FS_Injection
<1>12. \A q \in Waits : \E i \in 1..size : Streaming[i] = q
  BY <1>11 DEF Surjection
<1> QED
  BY <1>1, <1>8, <1>10, <1>12

\* The messages made of the text hold it all, each delta once.
LEMMA MessagesHold ==
  ASSUME text \in [Requests -> SUBSET Nat], TextApart
  PROVE  /\ Messages \in Seq(Item)
         /\ Len(Messages) \in Nat /\ Len(Messages) = Cardinality(Waits)
         /\ \A i \in 1..Len(Messages) :
              /\ Messages[i] = Message(Streaming[i]) /\ Streaming[i] \in Waits
              /\ Own(Messages[i]) = text[Streaming[i]]
         /\ Apart(Messages)
         /\ Deltas(Messages) = AllText
<1> DEFINE size == Cardinality(Waits)
<1>1. /\ size \in Nat /\ Streaming \in [1..size -> Waits]
      /\ \A i, j \in 1..size : i # j => Streaming[i] # Streaming[j]
      /\ \A q \in Waits : \E i \in 1..size : Streaming[i] = q
  BY StreamingLists
<1> HIDE DEF size
<1>2. ASSUME NEW q \in Waits
      PROVE  Message(q) \in Item /\ Own(Message(q)) = text[q] /\ q \in Requests
  <2>1. q \in Requests /\ text[q] \in SUBSET Nat
    BY DEF Waits
  <2> QED
    BY <2>1 DEF Message, Item, Letter, Own
<1>3. Messages = [i \in 1..size |-> Message(Streaming[i])]
  BY <1>1 DEF Messages
<1>4. Messages \in Seq(Item) /\ Len(Messages) = size
  <2>1. Messages \in [1..size -> Item]
    BY <1>1, <1>2, <1>3
  <2> QED
    BY <1>1, <2>1
<1>5. \A i \in 1..size : /\ Messages[i] = Message(Streaming[i])
                         /\ Streaming[i] \in Waits /\ Streaming[i] \in Requests
                         /\ Own(Messages[i]) = text[Streaming[i]]
  BY <1>1, <1>2, <1>3
<1>6. Apart(Messages)
  BY <1>1, <1>4, <1>5 DEF Apart, TextApart
<1>7. ASSUME NEW n
      PROVE  n \in Deltas(Messages) <=> n \in AllText
  <2>1. n \in Deltas(Messages) <=> \E i \in 1..size : n \in text[Streaming[i]]
    BY <1>4, <1>5, DeltasOf
  <2>2. n \in AllText <=> \E q \in Waits : n \in text[q]
    BY DEF AllText, Waits
  <2> QED
    BY <1>1, <2>1, <2>2
<1> QED
  BY <1>1, <1>4, <1>5, <1>6, <1>7 DEF size

------------------------------------------------------------------------------
\* What the append or flushRun of an item adds to what goes to the log
Sent(item) == IF item = Flush THEN <<>> ELSE <<item>>
Batched == IF flight.at = "writing" THEN flight.batch ELSE <<>>
InFlight == IF flight.at = "writing" THEN Deltas(flight.batch) ELSE {}

LEMMA SentLetters ==
  ASSUME NEW item \in Item
  PROVE  /\ Sent(item) \in Seq(Letter) /\ Sent(item) \in Seq(Item)
         /\ Deltas(Sent(item)) = Own(item)
         /\ item # Flush => item \in Letter
<1>1. CASE item = Flush
  <2>1. Own(item) = {}
    BY <1>1 DEF Own, Flush
  <2>2. Sent(item) = <<>>
    BY <1>1 DEF Sent
  <2> QED
    BY <1>1, <2>1, <2>2, DeltasNone
<1>2. CASE item # Flush
  <2>1. item \in Letter /\ Sent(item) = <<item>>
    BY <1>2 DEF Item, Sent
  <2>2. <<item>> \in Seq(Letter) /\ <<item>> \in Seq(Item) /\ <<item>> # <<>>
        /\ Head(<<item>>) = item /\ Tail(<<item>>) = <<>>
    BY <2>1
  <2>3. Deltas(<<item>>) = Own(item) \union Deltas(<<>>)
    <3> DEFINE one == <<item>>
    <3>1. one \in Seq(Item) /\ one # <<>> /\ Head(one) = item /\ Tail(one) = <<>>
      BY <2>2
    <3> HIDE DEF one
    <3>2. Deltas(one) = Own(item) \union Deltas(<<>>)
      BY <3>1, DeltasSplit
    <3> QED
      BY <3>2 DEF one
  <2> QED
    BY <2>1, <2>2, <2>3, DeltasNone
<1> QED
  BY <1>1, <1>2

LEMMA PipelineTyped ==
  ASSUME TInv
  PROVE  /\ Pipeline \in Seq(Letter) /\ Pipeline \in Seq(Item)
         /\ Batched \in Seq(Letter) /\ Pipeline = Batched \o buffer
         /\ Deltas(Pipeline) = InFlight \union Deltas(buffer)
         /\ Deltas(Batched) = InFlight
<1>1. /\ Batched \in Seq(Letter) /\ buffer \in Seq(Letter)
      /\ Pipeline = Batched \o buffer /\ flight.batch \in Seq(Letter)
  BY DEF TInv, Pipeline, Batched
<1>2. Batched \in Seq(Item) /\ buffer \in Seq(Item)
  BY <1>1, LettersAreItems
<1>3. Deltas(Batched) = InFlight
  BY DeltasNone DEF Batched, InFlight
<1>4. Batched \o buffer \in Seq(Letter)
  BY <1>1
<1>5. Deltas(Batched \o buffer) = Deltas(Batched) \union Deltas(buffer)
  BY <1>2, DeltasJoined
<1> QED
  BY <1>1, <1>3, <1>4, <1>5, LettersAreItems

\* An append or flushRun puts its item at the end of what goes to the log, and
\* begins a flush of all of it or leaves it with what waits for one.
LEMMA HandSound ==
  ASSUME TInv, NEW c \in Callers, NEW items \in Seq(Item), items # <<>>,
         Hand(c, items)
  PROVE  /\ job' = [job EXCEPT ![c] = Tail(items)]
         /\ job' \in [Callers -> Seq(Item)] /\ waiting' \in Seq(Callers)
         /\ buffer' \in Seq(Letter)
         /\ flight' \in [at : {"none", "writing", "publishing"},
                         batch : Seq(Letter)]
         /\ flight'.at = "none" => flight' = NoFlight
         /\ Pipeline' = Pipeline \o Sent(Head(items))
         /\ \/ /\ InFlight' = InFlight
               /\ Deltas(buffer)' = Deltas(buffer) \union Own(Head(items))
            \/ /\ InFlight = {} /\ Deltas(buffer)' = {}
               /\ InFlight' = Deltas(buffer) \union Own(Head(items))
<1> DEFINE item == Head(items)
           pending == IF item = Flush THEN buffer ELSE Append(buffer, item)
           nothing == flight = NoFlight /\ pending = <<>>
<1>1. item \in Item /\ Tail(items) \in Seq(Item)
  BY DeltasSplit
<1>2. /\ buffer \in Seq(Letter) /\ buffer \in Seq(Item)
      /\ Sent(item) \in Seq(Letter) /\ Sent(item) \in Seq(Item)
      /\ Deltas(Sent(item)) = Own(item)
  BY <1>1, SentLetters, LettersAreItems DEF TInv
<1>3. pending = buffer \o Sent(item)
  <2>1. CASE item = Flush
    BY <1>2, <2>1 DEF Sent
  <2>2. CASE item # Flush
    <3>1. item \in Letter
      BY <1>1, <2>2, SentLetters
    <3>2. pending = Append(buffer, item) /\ Sent(item) = <<item>>
      BY <2>2 DEF Sent
    <3> HIDE DEF item
    <3>3. Append(buffer, item) = buffer \o <<item>>
      BY <1>2, <3>1
    <3> QED
      BY <3>2, <3>3
  <2> QED
    BY <2>1, <2>2
<1> HIDE DEF item, pending
<1>4. pending \in Seq(Letter) /\ Deltas(pending) = Deltas(buffer) \union Own(item)
  <2>1. Deltas(buffer \o Sent(item)) = Deltas(buffer) \union Deltas(Sent(item))
    BY <1>2, DeltasJoined
  <2> QED
    BY <1>2, <1>3, <2>1
<1>5. /\ job' = [job EXCEPT ![c] = Tail(items)]
      /\ waiting' = IF nothing THEN waiting ELSE Append(waiting, c)
      /\ IF flight = NoFlight /\ ~nothing
         THEN flight' = Writing(pending) /\ buffer' = <<>>
         ELSE buffer' = pending /\ UNCHANGED flight
  BY DEF Hand, item, pending
<1> HIDE DEF nothing
<1>6. job' \in [Callers -> Seq(Item)]
  BY <1>1, <1>5 DEF TInv
<1>7. waiting' \in Seq(Callers)
  BY <1>5 DEF TInv
<1>8. CASE flight = NoFlight /\ ~nothing
  <2>1. flight' = Writing(pending) /\ buffer' = <<>>
    BY <1>5, <1>8
  <2>2. /\ flight'.at = "writing" /\ flight'.batch = pending
        /\ flight' \in [at : {"none", "writing", "publishing"},
                        batch : Seq(Letter)]
    BY <1>4, <2>1 DEF Writing
  <2>3. flight.at = "none"
    BY <1>8 DEF NoFlight
  <2>4. Pipeline = buffer /\ Pipeline' = pending
    BY <1>2, <1>4, <2>1, <2>2, <2>3 DEF Pipeline
  <2>5. InFlight = {} /\ InFlight' = Deltas(pending) /\ Deltas(buffer)' = {}
    BY <2>1, <2>2, <2>3, DeltasNone DEF InFlight, Deltas
  <2> QED
    BY <1>3, <1>4, <1>5, <1>6, <1>7, <2>1, <2>2, <2>4, <2>5 DEF item
<1>9. CASE ~(flight = NoFlight /\ ~nothing)
  <2>1. buffer' = pending /\ UNCHANGED flight
    BY <1>5, <1>9
  <2>2. Batched \in Seq(Letter) /\ Pipeline = Batched \o buffer /\ Batched' = Batched
    BY <2>1, PipelineTyped DEF Batched
  <2>3. Pipeline' = Batched \o (buffer \o Sent(item))
    BY <1>3, <2>1, <2>2 DEF Pipeline, Batched
  <2>4. Batched \o (buffer \o Sent(item)) = (Batched \o buffer) \o Sent(item)
    BY <1>2, <2>2
  <2>5. InFlight' = InFlight /\ Deltas(buffer)' = Deltas(buffer) \union Own(item)
    BY <1>4, <2>1 DEF InFlight, Deltas
  <2> QED
    BY <1>4, <1>5, <1>6, <1>7, <2>1, <2>2, <2>3, <2>4, <2>5 DEF TInv, item
<1> QED
  BY <1>8, <1>9

LEMMA ApartJoined ==
  ASSUME NEW s \in Seq(Item), NEW u \in Seq(Item), Apart(s), Deltas(u) = {}
  PROVE  Apart(s \o u)
<1> DEFINE t == s \o u
<1>1. /\ Len(t) = Len(s) + Len(u) /\ Len(s) \in Nat /\ Len(u) \in Nat
      /\ \A i \in 1..Len(s) : t[i] = s[i]
      /\ \A i \in 1..Len(t) : i \notin 1..Len(s) => /\ i - Len(s) \in 1..Len(u)
                                                     /\ t[i] = u[i - Len(s)]
  OBVIOUS
<1> HIDE DEF t
<1>2. \A i \in 1..Len(t) : i \notin 1..Len(s) => Own(t[i]) = {}
  BY <1>1, DeltasOf
<1>3. ASSUME NEW i \in 1..Len(t), NEW j \in 1..Len(t), i # j
      PROVE  Own(t[i]) \cap Own(t[j]) = {}
  <2>1. CASE i \in 1..Len(s) /\ j \in 1..Len(s)
    BY <1>1, <1>3, <2>1 DEF Apart
  <2>2. CASE i \notin 1..Len(s) \/ j \notin 1..Len(s)
    BY <1>2, <2>2
  <2> QED
    BY <2>1, <2>2
<1> QED
  BY <1>3 DEF Apart, t

------------------------------------------------------------------------------
\* Every delta is in one place: the log, what was dropped, a flush that is
\* being written, the buffer, what a caller holds, or the text of a request.
Held == UNION {Deltas(job[c]) : c \in Callers}

Located ==
  /\ written \union dropped \union InFlight \union Deltas(buffer) \union Held
       \union AllText = 1..heard
  /\ written \cap (dropped \union InFlight \union Deltas(buffer) \union Held
                     \union AllText) = {}
  /\ dropped \cap (InFlight \union Deltas(buffer) \union Held
                     \union AllText) = {}
  /\ InFlight \cap (Deltas(buffer) \union Held \union AllText) = {}
  /\ Deltas(buffer) \cap (Held \union AllText) = {}
  /\ Held \cap AllText = {}
  /\ \A b, c \in Callers : b # c => Deltas(job[b]) \cap Deltas(job[c]) = {}
  /\ TextApart

\* No caller holds a delta twice.
Distinct == \A c \in Callers : Apart(job[c])

\* A call holds items only while its event is saved, deleting while it flushes.
Idle ==
  /\ \A k \in Calls : calls[k].at \notin {"saving", "closing"} => job[k] = <<>>
  /\ deletion # "flushing" => job["deletion"] = <<>>

\* No run streams before there is a record of it.
Unborn ==
  record = "absent" /\ deletion # "done" =>
    /\ heard = 0
    /\ \A k \in Calls : calls[k].at \in {"unused", "creating"}

LInv == IInv /\ TInv /\ Located /\ Distinct /\ Idle /\ Unborn

\* A caller hands its first item on and holds the others: those it held
\* before, or what it made of the text.
LEMMA PassSound ==
  ASSUME TInv, Located, Distinct, NEW c \in Callers, NEW items \in Seq(Item),
         items # <<>>, Apart(items), Hand(c, items),
         UNCHANGED <<record, written, heard, dropped>>,
         text' \in [Requests -> SUBSET Nat], TextApart', mixed' \in BOOLEAN,
         deletion' \in {"none", "flushing", "deleting", "done"},
         Deltas(items) \union AllText' = Deltas(job[c]) \union AllText,
         Deltas(items) \cap AllText' = {}
  PROVE  /\ TInv' /\ Located' /\ Distinct'
         /\ job' = [job EXCEPT ![c] = Tail(items)]
<1> DEFINE first == Own(Head(items))
           rest == Deltas(Tail(items))
           there == InFlight
           here == Deltas(buffer)
<1>1. /\ job' = [job EXCEPT ![c] = Tail(items)]
      /\ job' \in [Callers -> Seq(Item)] /\ waiting' \in Seq(Callers)
      /\ buffer' \in Seq(Letter)
      /\ flight' \in [at : {"none", "writing", "publishing"},
                      batch : Seq(Letter)]
      /\ flight'.at = "none" => flight' = NoFlight
      /\ \/ there' = there /\ here' = here \union first
         \/ there = {} /\ here' = {} /\ there' = here \union first
  BY HandSound
<1>2. Deltas(items) = first \union rest /\ first \cap rest = {}
      /\ Apart(Tail(items))
  BY DeltasSplit, ApartSplit
<1>3. TInv'
  BY <1>1 DEF TInv
<1>4. Distinct'
  BY <1>1, <1>2 DEF Distinct, TInv
<1>5. /\ Deltas(job'[c]) = rest
      /\ \A b \in Callers : b # c => job'[b] = job[b]
  BY <1>1 DEF TInv
<1> DEFINE others == UNION {Deltas(job[b]) : b \in Callers \ {c}}
<1>6. Held = Deltas(job[c]) \union others /\ Held' = rest \union others
  BY <1>5 DEF Held
<1>7. others \cap Deltas(job[c]) = {}
  BY DEF Located
<1>8. TextApart' /\ AllText' \subseteq Deltas(job[c]) \union AllText
  OBVIOUS
<1> DEFINE texts == AllText
           own == Deltas(job[c])
<1>9. /\ Located
      /\ first \union rest \union texts' = own \union texts
      /\ (first \union rest) \cap texts' = {} /\ first \cap rest = {}
      /\ Held = own \union others /\ Held' = rest \union others
      /\ others \cap own = {}
      /\ UNCHANGED <<written, heard, dropped>>
  BY <1>2, <1>6, <1>7
<1>10. ASSUME NEW b1 \in Callers, NEW b2 \in Callers, b1 # b2
       PROVE  Deltas(job'[b1]) \cap Deltas(job'[b2]) = {}
  <2>1. rest \subseteq own \union texts
    BY <1>9
  <2>2. texts \cap Held = {}
    BY DEF Located
  <2>3. ASSUME NEW b \in Callers, b # c
        PROVE  /\ Deltas(job'[b]) = Deltas(job[b])
               /\ Deltas(job[b]) \cap rest = {}
    <3>1. Deltas(job[b]) \cap own = {} /\ Deltas(job[b]) \subseteq Held
      BY <2>3 DEF Located, Held
    <3> QED
      BY <1>5, <2>1, <2>2, <2>3, <3>1
  <2>4. CASE b1 # c /\ b2 # c
    BY <1>10, <2>3, <2>4 DEF Located
  <2>5. CASE b1 = c \/ b2 = c
    BY <1>5, <1>10, <2>3, <2>5
  <2> QED
    BY <2>4, <2>5
<1> HIDE DEF first, rest, there, here, others, texts, own
<1>11. /\ written \union dropped \union there \union here \union Held
            \union texts = 1..heard
       /\ written \cap (dropped \union there \union here \union Held
                     \union texts) = {}
       /\ dropped \cap (there \union here \union Held \union texts) = {}
       /\ there \cap (here \union Held \union texts) = {}
       /\ here \cap (Held \union texts) = {}
       /\ Held \cap texts = {}
  BY DEF Located, there, here, texts
<1>12. /\ written \union dropped \union there' \union here' \union Held'
             \union texts' = 1..heard
       /\ written \cap (dropped \union there' \union here' \union Held'
                     \union texts') = {}
       /\ dropped \cap (there' \union here' \union Held' \union texts') = {}
       /\ there' \cap (here' \union Held' \union texts') = {}
       /\ here' \cap (Held' \union texts') = {}
       /\ Held' \cap texts' = {}
  <2>0. Held' \cap texts' = {}
    BY <1>9, <1>11
  <2>1. CASE there' = there /\ here' = here \union first
    BY <1>9, <1>11, <2>0, <2>1
  <2>2. CASE there = {} /\ here' = {} /\ there' = here \union first
    BY <1>9, <1>11, <2>0, <2>2
  <2> QED
    BY <1>1, <2>1, <2>2
<1>13. Located'
  BY <1>8, <1>9, <1>10, <1>12 DEF Located, there, here, texts
<1> QED
  BY <1>1, <1>3, <1>4, <1>13

\* What a caller with nothing to append makes of the text goes before what it
\* appends, and none is left in memory.
LEMMA TakeSound ==
  ASSUME TInv, Located, Distinct, NEW c \in Callers, job[c] = <<>>,
         NEW items \in Seq(Item), items # <<>>, Deltas(items) = {},
         TakeText(c, items),
         UNCHANGED <<record, written, heard, dropped>>,
         deletion' \in {"none", "flushing", "deleting", "done"}
  PROVE  /\ TInv' /\ Located' /\ Distinct'
         /\ job' = [job EXCEPT ![c] = Tail(Messages \o items)]
<1>1. /\ Messages \in Seq(Item) /\ Len(Messages) \in Nat
      /\ Apart(Messages) /\ Deltas(Messages) = AllText
  BY MessagesHold DEF TInv, Located
<1> DEFINE all == Messages \o items
<1>2. all \in Seq(Item) /\ all # <<>>
  BY <1>1
<1>3. Apart(all) /\ Deltas(all) = AllText
  <2>1. Apart(all)
    BY <1>1, ApartJoined
  <2>2. Deltas(all) = Deltas(Messages) \union Deltas(items)
    BY <1>1, DeltasJoined
  <2> QED
    BY <1>1, <2>1, <2>2
<1> HIDE DEF all
<1>4. Hand(c, all) /\ text' = [q \in Requests |-> {}] /\ mixed' \in BOOLEAN
  BY DEF TakeText, all, TInv
<1>5. text' \in [Requests -> SUBSET Nat] /\ TextApart' /\ AllText' = {}
  BY <1>4 DEF TextApart, AllText
<1>6. Deltas(job[c]) = {}
  BY DeltasNone
<1> QED
  BY <1>2, <1>3, <1>4, <1>5, <1>6, PassSound DEF all

\* An event's append, which takes the text where it closes a piece of it
LEMMA AppendSound ==
  ASSUME TInv, Located, Distinct, NEW c \in Callers, job[c] = <<>>,
         NEW type \in Types, AppendEvent(c, type),
         UNCHANGED <<record, written, heard, dropped, deletion>>
  PROVE  /\ TInv' /\ Located' /\ Distinct'
         /\ \A b \in Callers : b # c => job'[b] = job[b]
<1>0. deletion' \in {"none", "flushing", "deleting", "done"}
  BY DEF TInv
<1>1. CASE type \in Boundary
  <2> DEFINE items == <<Event(type, heard)>>
  <2>1. Event(type, heard) \in Item /\ Own(Event(type, heard)) = {}
    BY DEF Event, Item, Letter, Own, TInv, Types, EventTypes
  <2>2. items \in Seq(Item) /\ items # <<>> /\ Head(items) = Event(type, heard)
        /\ Tail(items) = <<>>
    BY <2>1
  <2>3. TakeText(c, items)
    BY <1>1 DEF AppendEvent
  <2> HIDE DEF items
  <2>4. Deltas(items) = {}
    BY <2>1, <2>2, DeltasSplit, DeltasNone
  <2>5. /\ TInv' /\ Located' /\ Distinct'
        /\ job' = [job EXCEPT ![c] = Tail(Messages \o items)]
    BY <1>0, <2>2, <2>3, <2>4, TakeSound
  <2> QED
    BY <2>5 DEF TInv
<1>2. CASE type \notin Boundary
  <2> DEFINE items == <<Event(type, 0)>>
  <2>1. Event(type, 0) \in Item /\ Own(Event(type, 0)) = {}
    BY DEF Event, Item, Letter, Own, Types, EventTypes
  <2>2. items \in Seq(Item) /\ items # <<>> /\ Head(items) = Event(type, 0)
        /\ Tail(items) = <<>> /\ Len(items) = 1
    BY <2>1
  <2>3. Hand(c, items) /\ UNCHANGED <<text, mixed>>
    BY <1>2 DEF AppendEvent
  <2> HIDE DEF items
  <2>4. Deltas(items) = {}
    BY <2>1, <2>2, DeltasSplit, DeltasNone
  <2>5. Apart(items)
    BY <2>2 DEF Apart
  <2>6. /\ text' \in [Requests -> SUBSET Nat] /\ TextApart' /\ AllText' = AllText
        /\ mixed' \in BOOLEAN
    BY <2>3 DEF TInv, Located, TextApart, AllText
  <2>7. Deltas(job[c]) = {}
    BY DeltasNone
  <2>8. /\ TInv' /\ Located' /\ Distinct'
        /\ job' = [job EXCEPT ![c] = Tail(items)]
    BY <1>0, <2>2, <2>3, <2>4, <2>5, <2>6, <2>7, PassSound
  <2> QED
    BY <2>8 DEF TInv
<1> QED
  BY <1>1, <1>2

LEMMA FlushSound ==
  ASSUME TInv, Located, Distinct, NEW c \in Callers, job[c] = <<>>, FlushRun(c),
         UNCHANGED <<record, written, heard, dropped, deletion>>
  PROVE  /\ TInv' /\ Located' /\ Distinct'
         /\ \A b \in Callers : b # c => job'[b] = job[b]
<1>0. deletion' \in {"none", "flushing", "deleting", "done"}
  BY DEF TInv
<1> DEFINE items == <<Flush>>
<1>1. Flush \in Item /\ Own(Flush) = {}
  BY DEF Flush, Item, Own
<1>2. items \in Seq(Item) /\ items # <<>> /\ Head(items) = Flush
      /\ Tail(items) = <<>>
  BY <1>1
<1>3. TakeText(c, items)
  BY DEF FlushRun
<1> HIDE DEF items
<1>4. Deltas(items) = {}
  BY <1>1, <1>2, DeltasSplit, DeltasNone
<1>5. /\ TInv' /\ Located' /\ Distinct'
      /\ job' = [job EXCEPT ![c] = Tail(Messages \o items)]
  BY <1>0, <1>2, <1>3, <1>4, TakeSound
<1> QED
  BY <1>5 DEF TInv

LEMMA DeleteSound ==
  ASSUME TInv, Located, Distinct, job["deletion"] = <<>>, DeleteSession
  PROVE  /\ TInv' /\ Located' /\ Distinct'
         /\ \A b \in Callers : b # "deletion" => job'[b] = job[b]
<1>0. /\ deletion' \in {"none", "flushing", "deleting", "done"}
      /\ UNCHANGED <<record, written, heard, dropped>>
      /\ "deletion" \in Callers
  BY Callees DEF DeleteSession
<1> DEFINE items == IF Messages = <<>> THEN <<Flush>> ELSE <<Flush, Flush>>
<1>1. Flush \in Item /\ Own(Flush) = {}
  BY DEF Flush, Item, Own
<1>2. items \in Seq(Item) /\ items # <<>> /\ \A i \in 1..Len(items) : items[i] = Flush
  BY <1>1
<1>3. TakeText("deletion", items)
  BY DEF DeleteSession
<1> HIDE DEF items
<1>4. Deltas(items) = {}
  BY <1>1, <1>2, DeltasOf
<1>5. /\ TInv' /\ Located' /\ Distinct'
      /\ job' = [job EXCEPT !["deletion"] = Tail(Messages \o items)]
  BY <1>0, <1>2, <1>3, <1>4, TakeSound
<1> QED
  BY <1>5 DEF TInv

------------------------------------------------------------------------------
\* What the parts of the state a step leaves alone carry over
LEMMA RestLocated ==
  ASSUME TInv, Located, Distinct,
         UNCHANGED <<written, heard, dropped, text, job, buffer, InFlight>>
  PROVE  Located' /\ Distinct'
<1>1. UNCHANGED <<Held, AllText, Deltas(buffer)>>
  BY DEF Held, AllText, Deltas
<1> QED
  BY <1>1 DEF Located, Distinct, TextApart

\* A batch that is written moves its text to the log.
LEMMA WriteSound ==
  ASSUME TInv, Located, Distinct, WriteBatch
  PROVE  TInv' /\ Located' /\ Distinct' /\ record' # "absent"
<1>1. /\ flight.at = "writing" /\ record \in Statuses
      /\ record' = Patched(record, flight.batch)
      /\ written' = written \union InFlight
      /\ flight' = [flight EXCEPT !.at = "publishing"]
      /\ UNCHANGED <<heard, text, job, waiting, buffer, dropped, mixed, deletion>>
  BY DEF WriteBatch, Present, InFlight, TInv, clientVars, historyVars
<1>2. /\ flight'.at = "publishing" /\ flight'.batch = flight.batch
      /\ flight' \in [at : {"none", "writing", "publishing"},
                      batch : Seq(Letter)]
  BY <1>1 DEF TInv
<1>3. record' \in Statuses
  <2>1. flight.batch \in Seq(Item)
    BY LettersAreItems DEF TInv
  <2> QED
    BY <1>1, <2>1, PatchedTyped
<1>4. InFlight \subseteq Nat
  BY DEF Located, TInv
<1>5. TInv'
  BY <1>1, <1>2, <1>3, <1>4 DEF TInv
<1>6. InFlight' = {}
  BY <1>2 DEF InFlight
<1>7. UNCHANGED <<Held, AllText, Deltas(buffer), TextApart>>
  BY <1>1 DEF Held, AllText, Deltas, TextApart
<1>8. Located'
  BY <1>1, <1>6, <1>7 DEF Located
<1> QED
  BY <1>1, <1>3, <1>5, <1>8 DEF Distinct, Statuses, Terminal

LEMMA SettledTyped ==
  ASSUME TInv, NEW ignored, Settle(ignored)
  PROVE  /\ flight' = NoFlight /\ waiting' \in Seq(Callers) /\ InFlight' = {}
         /\ flight' \in [at : {"none", "writing", "publishing"},
                         batch : Seq(Letter)]
<1>1. flight' = NoFlight /\ waiting' = <<>>
  BY DEF Settle
<1> QED
  BY <1>1 DEF NoFlight, InFlight

LEMMA EndFlushSound ==
  ASSUME TInv, Located, Distinct, EndFlush
  PROVE  TInv' /\ Located' /\ Distinct'
<1>1. /\ flight.at = "publishing" /\ Settle(IF job["console"] = <<>> THEN {"console"} ELSE {})
      /\ UNCHANGED <<record, written, heard, text, job, buffer, dropped, mixed,
                     deletion>>
  BY DEF EndFlush, clientVars, historyVars
<1>2. /\ flight' = NoFlight /\ waiting' \in Seq(Callers) /\ InFlight' = {}
      /\ flight' \in [at : {"none", "writing", "publishing"},
                      batch : Seq(Letter)]
  BY <1>1, SettledTyped
<1>3. InFlight' = InFlight
  BY <1>1, <1>2 DEF InFlight
<1>4. Located' /\ Distinct'
  BY <1>1, <1>3, RestLocated
<1> QED
  BY <1>1, <1>2, <1>4 DEF TInv

\* A batch that finds no record is dropped, and so is what the rejected held.
LEMMA RejectSound ==
  ASSUME TInv, Located, Distinct, RejectBatch
  PROVE  /\ TInv' /\ Located' /\ Distinct'
         /\ \A c \in Callers : job'[c] = <<>> \/ job'[c] = job[c]
         /\ dropped' \subseteq dropped \union InFlight \union Held
         /\ \/ deletion' = deletion
            \/ deletion' = "done" /\ job'["deletion"] = <<>>
<1> DEFINE rejected == ToSet(waiting)
           lost == UNION {Deltas(job[c]) : c \in rejected}
<1>1. /\ flight.at = "writing"
      /\ Settle({"console", "deletion"})
      /\ job' = [c \in Callers |-> IF c \in rejected THEN <<>> ELSE job[c]]
      /\ dropped' = dropped \union InFlight \union lost
      /\ deletion' = IF "deletion" \in rejected THEN "done" ELSE deletion
      /\ UNCHANGED <<record, written, heard, text, buffer, mixed>>
  BY DEF RejectBatch, InFlight
<1>2. rejected \subseteq Callers
  <2>1. \A i \in DOMAIN waiting : waiting[i] \in Callers
    BY DEF TInv
  <2> QED
    BY <2>1 DEF ToSet
<1> HIDE DEF rejected
<1>3. /\ flight' = NoFlight /\ waiting' \in Seq(Callers) /\ InFlight' = {}
      /\ flight' \in [at : {"none", "writing", "publishing"},
                      batch : Seq(Letter)]
  BY <1>1, SettledTyped
<1>4. /\ job' \in [Callers -> Seq(Item)]
      /\ \A c \in Callers : job'[c] = IF c \in rejected THEN <<>> ELSE job[c]
  <2>1. <<>> \in Seq(Item) /\ \A c \in Callers : job[c] \in Seq(Item)
    BY DEF TInv
  <2> QED
    BY <1>1, <2>1
<1> DEFINE kept == UNION {Deltas(job[c]) : c \in Callers \ rejected}
<1>5. Held = kept \union lost /\ Held' = kept
  <2>1. \A c \in Callers \ rejected : Deltas(job'[c]) = Deltas(job[c])
    BY <1>4
  <2>2. \A c \in rejected : Deltas(job'[c]) = {}
    BY <1>2, <1>4, DeltasNone
  <2>3. Held' = kept
    BY <2>1, <2>2 DEF Held
  <2> QED
    BY <1>2, <2>3 DEF Held
<1>6. kept \cap lost = {}
  BY <1>2 DEF Located
<1> HIDE DEF kept, lost
<1>7. UNCHANGED <<AllText, Deltas(buffer), TextApart>>
  BY <1>1 DEF AllText, Deltas, TextApart
<1>8. \A b, c \in Callers : b # c => Deltas(job'[b]) \cap Deltas(job'[c]) = {}
  BY <1>4, DeltasNone DEF Located
<1>9. Located'
  BY <1>1, <1>3, <1>5, <1>6, <1>7, <1>8 DEF Located
<1>10. Distinct'
  <2>1. Apart(<<>>)
    BY DEF Apart
  <2> QED
    BY <1>4, <2>1 DEF Distinct
<1>11. dropped' \subseteq Nat
  BY <1>1, <1>5 DEF Located, TInv
<1>12. TInv'
  BY <1>1, <1>3, <1>4, <1>11 DEF TInv
<1>13. "deletion" \in Callers
  BY Callees
<1> QED
  BY <1>1, <1>4, <1>5, <1>9, <1>10, <1>12, <1>13 DEF rejected

LEMMA TimerSound ==
  ASSUME TInv, Located, Distinct, FlushTimer
  PROVE  TInv' /\ Located' /\ Distinct'
<1>1. /\ flight = NoFlight /\ flight' = Writing(buffer) /\ buffer' = <<>>
      /\ UNCHANGED <<record, written, heard, text, job, waiting, dropped, mixed,
                     deletion>>
  BY DEF FlushTimer, clientVars, historyVars
<1>2. /\ flight'.at = "writing" /\ flight'.batch = buffer
      /\ flight' \in [at : {"none", "writing", "publishing"},
                      batch : Seq(Letter)]
      /\ buffer' \in Seq(Letter)
  BY <1>1 DEF TInv, Writing
<1>3. TInv'
  BY <1>1, <1>2 DEF TInv
<1>4. InFlight = {} /\ InFlight' = Deltas(buffer) /\ Deltas(buffer)' = {}
  BY <1>1, <1>2, DeltasNone DEF InFlight, NoFlight, Deltas
<1>5. UNCHANGED <<Held, AllText, TextApart>>
  BY <1>1 DEF Held, AllText, Deltas, TextApart
<1>6. Located'
  BY <1>1, <1>4, <1>5 DEF Located
<1> QED
  BY <1>1, <1>3, <1>6 DEF Distinct

\* A delta gets the next number and waits under its request.
LEMMA DeltaSound ==
  ASSUME TInv, Located, Distinct, NEW k \in Calls, NEW q \in Requests,
         YieldDelta(k, q)
  PROVE  TInv' /\ Located' /\ Distinct'
<1>1. /\ heard' = heard + 1 /\ heard \in Nat
      /\ text' = [text EXCEPT ![q] = @ \union {heard + 1}]
      /\ UNCHANGED <<record, written, job, waiting, buffer, flight, dropped,
                     mixed, deletion>>
  BY DEF YieldDelta, writerVars, clientVars, historyVars, TInv
<1>2. text' \in [Requests -> SUBSET Nat]
  BY <1>1 DEF TInv
<1>3. TInv'
  BY <1>1, <1>2 DEF TInv
<1>4. AllText' = AllText \union {heard + 1}
  <2>1. /\ text'[q] = text[q] \union {heard + 1}
        /\ \A p \in Requests : p # q => text'[p] = text[p]
    BY <1>1 DEF TInv
  <2> QED
    BY <2>1 DEF AllText
<1>5. 1..heard' = (1..heard) \union {heard + 1} /\ heard + 1 \notin 1..heard
  BY <1>1
<1>6. UNCHANGED <<Held, Deltas(buffer), InFlight>>
  BY <1>1 DEF Held, Deltas, InFlight
<1>7. TextApart'
  <2>1. \A p \in Requests : heard + 1 \notin text[p]
    BY <1>5 DEF Located, AllText
  <2> QED
    BY <1>1, <2>1 DEF TextApart, Located, TInv
<1>8. \A b, c \in Callers : b # c => Deltas(job'[b]) \cap Deltas(job'[c]) = {}
  BY <1>1 DEF Located
<1>9. /\ written \union dropped \union InFlight \union Deltas(buffer)
           \union Held = (1..heard) \ AllText
      /\ heard + 1 \notin written /\ heard + 1 \notin dropped
      /\ heard + 1 \notin InFlight /\ heard + 1 \notin Deltas(buffer)
      /\ heard + 1 \notin Held /\ heard + 1 \notin AllText
  BY <1>5 DEF Located
<1>10. Located'
  BY <1>1, <1>4, <1>5, <1>6, <1>7, <1>8, <1>9 DEF Located
<1> QED
  BY <1>1, <1>3, <1>10 DEF Distinct

------------------------------------------------------------------------------
\* A call or the deletion moves on, while the text stays where it is.
LEMMA MoveRests ==
  ASSUME LInv, IInv',
         UNCHANGED <<record, written, heard, text, job, waiting, buffer, flight,
                     dropped, mixed>>,
         \A k \in Calls :
           \/ calls'[k].at = calls[k].at
           \/ /\ job[k] = <<>>
              /\ calls[k].at \in {"unused", "creating"}
                   => calls'[k].at \in {"unused", "creating"},
         \/ deletion' = deletion
         \/ /\ deletion # "done" /\ job["deletion"] = <<>>
            /\ deletion' \in {"none", "flushing", "deleting", "done"}
  PROVE  LInv'
<1>1. TInv'
  BY DEF LInv, TInv
<1>2. Located' /\ Distinct'
  BY RestLocated DEF LInv, InFlight
<1>3. Idle' /\ Unborn'
  BY DEF LInv, Idle, Unborn
<1> QED
  BY <1>1, <1>2, <1>3 DEF LInv

LEMMA EventRests ==
  ASSUME LInv, IInv', NEW k \in Calls, NEW type \in Types, AppendEvent(k, type),
         calls[k].at = "running", calls'[k].at \in {"saving", "closing"},
         \A j \in Calls : j # k => calls'[j] = calls[j],
         UNCHANGED <<record, written, heard, dropped, deletion>>
  PROVE  LInv'
<1>1. job[k] = <<>> /\ k \in Callers /\ k # "deletion" /\ "deletion" \in Callers
      /\ \A j \in Calls : j \in Callers
  BY Callees DEF LInv, Idle
<1>2. /\ TInv' /\ Located' /\ Distinct'
      /\ \A b \in Callers : b # k => job'[b] = job[b]
  BY <1>1, AppendSound DEF LInv
<1>3. Idle'
  BY <1>1, <1>2 DEF LInv, Idle
<1>4. Unborn'
  BY DEF LInv, Unborn
<1> QED
  BY <1>2, <1>3, <1>4 DEF LInv

\* What a call does, from its beginning to its return
LEMMA CallRests ==
  ASSUME LInv, IInv', NEW k \in Calls,
         \/ CallStep(k) \/ YieldEvent(k) \/ EmitEvent(k) \/ ReturnClosed(k)
         \/ \E q \in Requests : YieldDelta(k, q)
  PROVE  LInv'
<1>0. calls \in [Calls -> Call]
  BY DEF LInv, IInv
<1>1. CASE CreateRun(k)
  <2>1. /\ calls[k].at = "creating" /\ calls' = [calls EXCEPT ![k].at = "activating"]
        /\ record' = IF Present THEN record ELSE "queued"
        /\ UNCHANGED <<written, heard, text, job, waiting, buffer, flight,
                       dropped, mixed, deletion>>
    BY <1>1 DEF CreateRun, writerVars, clientVars, historyVars
  <2>2. record' \in Statuses
    BY <2>1 DEF Present, LInv, TInv, Statuses, Terminal
  <2>3. record' # "absent"
    BY <2>2 DEF Statuses, Terminal
  <2>4. TInv'
    BY <2>1, <2>2 DEF LInv, TInv
  <2>5. Located' /\ Distinct'
    BY <2>1, RestLocated DEF LInv, InFlight
  <2>6. Idle' /\ Unborn'
    BY <1>0, <2>1, <2>3 DEF LInv, Idle, Unborn
  <2> QED
    BY <2>4, <2>5, <2>6 DEF LInv
<1>2. CASE StartRun(k)
  <2>1. /\ calls[k].at = "activating" /\ calls' = [Aborted EXCEPT ![k].at = "running"]
        /\ UNCHANGED <<record, written, heard, text, job, waiting, buffer,
                       flight, dropped, mixed, deletion>>
    BY <1>2 DEF StartRun, ledgerVars, writerVars, clientVars, historyVars
  <2>2. \A j \in Calls : j # k => calls'[j].at = calls[j].at
    BY <2>1, AbortedCalls DEF LInv
  <2>3. job[k] = <<>>
    BY <2>1 DEF LInv, Idle
  <2> QED
    BY <2>1, <2>2, <2>3, MoveRests
<1>3. CASE CloseRun(k)
  <2>1. PICK type \in {"run_cancelled", "run_failed"} :
          /\ calls' = [calls EXCEPT ![k].at = "closing", ![k].event = type]
          /\ AppendEvent(k, type)
    BY <1>3 DEF CloseRun
  <2>2. /\ calls[k].at = "running"
        /\ UNCHANGED <<record, written, heard, dropped, deletion>>
    BY <1>3 DEF CloseRun, clientVars
  <2>3. calls'[k].at = "closing" /\ \A j \in Calls : j # k => calls'[j] = calls[j]
    BY <1>0, <2>1 DEF Call
  <2>4. type \in Types
    BY DEF Types, EventTypes
  <2> QED
    BY <2>1, <2>2, <2>3, <2>4, EventRests
<1>4. CASE CompleteRun(k)
  <2>1. /\ calls[k].at = "running" /\ calls' = [calls EXCEPT ![k].at = "done"]
        /\ UNCHANGED <<record, written, heard, text, job, waiting, buffer,
                       flight, dropped, mixed, deletion>>
    BY <1>4 DEF CompleteRun, ledgerVars, writerVars, clientVars
  <2>2. \A j \in Calls : j # k => calls'[j] = calls[j]
    BY <1>0, <2>1
  <2>3. job[k] = <<>>
    BY <2>1 DEF LInv, Idle
  <2> QED
    BY <2>1, <2>2, <2>3, MoveRests
<1>5. CASE YieldEvent(k)
  <2>1. PICK type \in Types, said \in {"started", "over"} :
          /\ calls' = [calls EXCEPT ![k].at = "saving", ![k].said = said,
                                    ![k].event = type]
          /\ AppendEvent(k, type)
    BY <1>5 DEF YieldEvent, Save, Types, EventTypes
  <2>2. /\ calls[k].at = "running"
        /\ UNCHANGED <<record, written, heard, dropped, deletion>>
    BY <1>5 DEF YieldEvent, clientVars
  <2>3. calls'[k].at = "saving" /\ \A j \in Calls : j # k => calls'[j] = calls[j]
    BY <1>0, <2>1 DEF Call
  <2> QED
    BY <2>1, <2>2, <2>3, EventRests
<1>6. CASE EmitEvent(k) \/ ReturnClosed(k)
  <2>1. /\ job[k] = <<>> /\ calls[k].at \in {"saving", "closing"}
        /\ \E at \in {"running", "done"} : calls' = [calls EXCEPT ![k].at = at]
        /\ UNCHANGED <<record, written, heard, text, job, waiting, buffer,
                       flight, dropped, mixed, deletion>>
    BY <1>6 DEF EmitEvent, ReturnClosed, Returns, clientVars, historyVars
  <2>2. \A j \in Calls : j # k => calls'[j] = calls[j]
    BY <1>0, <2>1
  <2> QED
    BY <2>1, <2>2, MoveRests
<1>7. ASSUME NEW q \in Requests, YieldDelta(k, q)
      PROVE  LInv'
  <2>1. TInv' /\ Located' /\ Distinct'
    BY <1>7, DeltaSound DEF LInv
  <2>2. /\ calls[k].at = "running"
        /\ UNCHANGED <<record, job, calls, deletion>>
    BY <1>7 DEF YieldDelta, writerVars, runVars, clientVars
  <2>3. Idle' /\ Unborn'
    BY <2>2 DEF LInv, Idle, Unborn
  <2> QED
    BY <2>1, <2>3 DEF LInv
<1> QED
  BY <1>1, <1>2, <1>3, <1>4, <1>5, <1>6, <1>7 DEF CallStep

\* What a caller holds goes on, item by item.
LEMMA GoOnRests ==
  ASSUME LInv, IInv', NEW c \in Callers, GoOn(c)
  PROVE  LInv'
<1>1. /\ Hand(c, job[c]) /\ job[c] # <<>>
      /\ UNCHANGED <<record, written, heard, text, calls, dropped, mixed,
                     deletion>>
  BY DEF GoOn, runVars, clientVars, historyVars
<1>2. /\ job[c] \in Seq(Item) /\ Apart(job[c])
      /\ text' \in [Requests -> SUBSET Nat] /\ TextApart' /\ AllText' = AllText
      /\ mixed' \in BOOLEAN
      /\ deletion' \in {"none", "flushing", "deleting", "done"}
  BY <1>1 DEF LInv, TInv, Distinct, Located, TextApart, AllText
<1>3. Deltas(job[c]) \cap AllText' = {}
  BY <1>2 DEF LInv, Located, Held
<1>4. TInv' /\ Located' /\ Distinct' /\ job' = [job EXCEPT ![c] = Tail(job[c])]
  <2>1. LInv => TInv /\ Located /\ Distinct
    BY DEF LInv
  <2> QED
    BY <1>1, <1>2, <1>3, <2>1, PassSound
<1>5. \A b \in Callers : b # c => job'[b] = job[b]
  BY <1>4 DEF LInv, TInv
<1>6. Idle' /\ Unborn'
  BY <1>1, <1>5, Callees DEF LInv, Idle, Unborn
<1> QED
  BY <1>4, <1>6 DEF LInv

\* The writer's own steps, its readers, and the deletion
LEMMA WriterRests ==
  ASSUME LInv, IInv', WriterStep
  PROVE  LInv'
<1>0. /\ TInv /\ Located /\ Distinct
      /\ UNCHANGED calls /\ "deletion" \in Callers /\ Calls \subseteq Callers
  BY Callees DEF LInv, WriterStep, WriteBatch, EndFlush, RejectBatch, FlushTimer,
                 runVars
<1>1. CASE WriteBatch
  <2>1. TInv' /\ Located' /\ Distinct' /\ record' # "absent"
    BY <1>0, <1>1, WriteSound
  <2>2. UNCHANGED <<heard, job, deletion>>
    BY <1>1 DEF WriteBatch, clientVars
  <2>3. Idle' /\ Unborn'
    BY <1>0, <2>1, <2>2 DEF LInv, Idle, Unborn
  <2> QED
    BY <2>1, <2>3 DEF LInv
<1>2. CASE EndFlush \/ FlushTimer
  <2>1. TInv' /\ Located' /\ Distinct'
    BY <1>0, <1>2, EndFlushSound, TimerSound
  <2>2. UNCHANGED <<record, heard, job, deletion>>
    BY <1>2 DEF EndFlush, FlushTimer, clientVars
  <2>3. Idle' /\ Unborn'
    BY <1>0, <2>2 DEF LInv, Idle, Unborn
  <2> QED
    BY <2>1, <2>3 DEF LInv
<1>3. CASE RejectBatch
  <2>1. /\ TInv' /\ Located' /\ Distinct'
        /\ \A c \in Callers : job'[c] = <<>> \/ job'[c] = job[c]
        /\ \/ deletion' = deletion
           \/ deletion' = "done" /\ job'["deletion"] = <<>>
    BY <1>0, <1>3, RejectSound
  <2>2. UNCHANGED <<record, heard>>
    BY <1>3 DEF RejectBatch
  <2>3. Idle'
    BY <1>0, <2>1 DEF LInv, Idle
  <2>4. Unborn'
    BY <1>0, <2>1, <2>2 DEF LInv, Unborn
  <2> QED
    BY <2>1, <2>3, <2>4 DEF LInv
<1> QED
  BY <1>1, <1>2, <1>3 DEF WriterStep

LEMMA ReadRests ==
  ASSUME LInv, IInv', ReadRun
  PROVE  LInv'
<1>1. /\ job["console"] = <<>> /\ FlushRun("console")
      /\ UNCHANGED <<record, written, heard, calls, dropped, deletion>>
  BY DEF ReadRun, runVars, clientVars
<1>2. /\ TInv' /\ Located' /\ Distinct'
      /\ \A b \in Callers : b # "console" => job'[b] = job[b]
  BY <1>1, Callees, FlushSound DEF LInv
<1>3. Idle' /\ Unborn'
  BY <1>1, <1>2, Callees DEF LInv, Idle, Unborn
<1> QED
  BY <1>2, <1>3 DEF LInv

LEMMA DeletionRests ==
  ASSUME LInv, IInv', DeleteSession \/ CancelListed \/ DeleteRuns
  PROVE  LInv'
<1>1. CASE DeleteSession
  <2>1. /\ deletion = "none" /\ deletion' = "flushing"
        /\ job["deletion"] = <<>> /\ UNCHANGED <<record, heard, calls>>
    BY <1>1 DEF DeleteSession, runVars, LInv, Idle
  <2>2. /\ TInv' /\ Located' /\ Distinct'
        /\ \A b \in Callers : b # "deletion" => job'[b] = job[b]
    BY <1>1, <2>1, DeleteSound DEF LInv
  <2>3. Idle' /\ Unborn'
    BY <2>1, <2>2, Callees DEF LInv, Idle, Unborn
  <2> QED
    BY <2>2, <2>3 DEF LInv
<1>2. CASE CancelListed
  <2>1. /\ job["deletion"] = <<>> /\ deletion = "flushing" /\ deletion' = "deleting"
        /\ calls' = Aborted \/ calls' = calls
        /\ UNCHANGED <<record, written, heard, text, job, waiting, buffer,
                       flight, dropped, mixed>>
    BY <1>2 DEF CancelListed, Returns, historyVars
  <2>2. \A k \in Calls : calls'[k].at = calls[k].at
    BY <2>1, AbortedCalls DEF LInv
  <2> QED
    BY <2>1, <2>2, MoveRests
<1>3. CASE DeleteRuns
  <2>1. /\ deletion = "deleting" /\ deletion' = "done" /\ record' = "absent"
        /\ UNCHANGED <<written, heard, text, job, waiting, buffer, flight,
                       calls, dropped, mixed>>
    BY <1>3 DEF DeleteRuns, writerVars, runVars, historyVars
  <2>2. TInv'
    BY <2>1 DEF LInv, TInv
  <2>3. Located' /\ Distinct'
    BY <2>1, RestLocated DEF LInv, InFlight
  <2>4. Idle' /\ Unborn'
    BY <2>1 DEF LInv, Idle, Unborn
  <2> QED
    BY <2>2, <2>3, <2>4 DEF LInv
<1> QED
  BY <1>1, <1>2, <1>3

\* A call is begun or aborted, or nothing of it or of the text changes.
LEMMA OthersKeep ==
  ASSUME LInv, IInv',
         \/ SendFromRenderer \/ CancelRun \/ Activate \/ RequestIntent
         \/ \E p \in Polls : PollStep(p)
         \/ UNCHANGED vars
  PROVE  LInv'
<1>1. /\ UNCHANGED <<record, written, heard, text, job, waiting, buffer,
                     flight, dropped, mixed, deletion>>
      /\ Begin \/ calls' = Aborted \/ calls' = calls
  BY DEF SendFromRenderer, CancelRun, Activate, RequestIntent, PollStep,
         ListIntents, TakeIntent, ClaimIntent, vars, ledgerVars, writerVars,
         runVars, clientVars, historyVars
<1>2. CASE Begin
  <2>1. \A k \in Calls : \/ calls'[k].at = calls[k].at
                         \/ calls[k].at = "unused" /\ calls'[k].at = "creating"
    BY <1>2 DEF Begin, LInv, IInv
  <2>2. \A k \in Calls : calls[k].at = "unused" => job[k] = <<>>
    BY DEF LInv, Idle
  <2> QED
    BY <1>1, <2>1, <2>2, MoveRests
<1>3. CASE calls' = Aborted \/ calls' = calls
  <2>1. \A k \in Calls : calls'[k].at = calls[k].at
    BY <1>3, AbortedCalls DEF LInv
  <2> QED
    BY <1>1, <2>1, MoveRests
<1> QED
  BY <1>1, <1>2, <1>3

LEMMA LedgerBegin == Init => LInv
<1> SUFFICES ASSUME Init
             PROVE  LInv
  OBVIOUS
<1>1. IInv
  BY CallsBegin
<1>2. TInv
  <2>1. <<>> \in Seq(Item) /\ <<>> \in Seq(Letter) /\ <<>> \in Seq(Callers)
    OBVIOUS
  <2>2. /\ text \in [Requests -> SUBSET Nat] /\ job \in [Callers -> Seq(Item)]
        /\ waiting \in Seq(Callers) /\ buffer \in Seq(Letter)
    BY <2>1 DEF Init
  <2>3. /\ flight = NoFlight
        /\ flight \in [at : {"none", "writing", "publishing"},
                       batch : Seq(Letter)]
    BY <2>1 DEF Init, NoFlight
  <2> QED
    BY <2>2, <2>3 DEF Init, TInv
<1>3. \A c \in Callers : job[c] = <<>> /\ Deltas(job[c]) = {}
  BY DeltasNone DEF Init
<1>4. Located
  <2>1. AllText = {} /\ TextApart /\ Held = {} /\ InFlight = {}
        /\ Deltas(buffer) = {} /\ 1..heard = {}
    BY <1>3, DeltasNone DEF Init, AllText, TextApart, Held, InFlight, NoFlight
  <2> QED
    BY <1>3, <2>1 DEF Located, Init
<1>5. Distinct
  BY <1>3 DEF Distinct, Apart
<1>6. Idle /\ Unborn
  BY <1>3, Callees DEF Idle, Unborn, Init, Unused
<1> QED
  BY <1>1, <1>2, <1>4, <1>5, <1>6 DEF LInv

LEMMA LedgerStep ==
  ASSUME LInv, [Next]_vars
  PROVE  LInv'
<1>1. IInv'
  BY CallsStep DEF LInv
<1>2. ASSUME NEW k \in Calls,
             \/ CallStep(k) \/ YieldEvent(k) \/ EmitEvent(k) \/ ReturnClosed(k)
             \/ \E q \in Requests : YieldDelta(k, q)
      PROVE  LInv'
  BY <1>1, <1>2, CallRests
<1>3. ASSUME NEW c \in Callers, GoOn(c)
      PROVE  LInv'
  BY <1>1, <1>3, GoOnRests
<1>4. CASE WriterStep
  BY <1>1, <1>4, WriterRests
<1>5. CASE ReadRun
  BY <1>1, <1>5, ReadRests
<1>6. CASE DeleteSession \/ CancelListed \/ DeleteRuns
  BY <1>1, <1>6, DeletionRests
<1>7. CASE \/ SendFromRenderer \/ CancelRun \/ Activate \/ RequestIntent
           \/ \E p \in Polls : PollStep(p)
           \/ UNCHANGED vars
  BY <1>1, <1>7, OthersKeep
<1> QED
  BY <1>2, <1>3, <1>4, <1>5, <1>6, <1>7 DEF Next, Resume, Task

LEMMA LedgerAlways == Spec => []LInv
<1>1. LInv /\ [Next]_vars => LInv'
  BY LedgerStep
<1> QED
  BY LedgerBegin, <1>1, PTL DEF Spec

------------------------------------------------------------------------------
\* Where there is a record no text is dropped, and before there is one none is
\* streamed.
Undropped == deletion = "done" \/ dropped = {}

LEMMA UndroppedStep ==
  ASSUME LInv, Undropped, [Next]_vars
  PROVE  Undropped'
<1>1. CASE RejectBatch
  <2>1. /\ record = "absent" /\ dropped' \subseteq dropped \union InFlight \union Held
        /\ deletion' = deletion \/ deletion' = "done"
    BY <1>1, RejectSound DEF RejectBatch, Present, LInv
  <2>2. CASE deletion # "done"
    <3>1. 1..heard = {}
      BY <2>1, <2>2 DEF LInv, Unborn
    <3>2. dropped \union InFlight \union Held \subseteq 1..heard
      BY DEF LInv, Located
    <3> QED
      BY <2>1, <3>1, <3>2 DEF Undropped
  <2> QED
    BY <2>1, <2>2 DEF Undropped
<1>2. CASE DeleteSession \/ CancelListed \/ DeleteRuns
  BY <1>2 DEF DeleteSession, CancelListed, DeleteRuns, historyVars, Undropped
<1>3. CASE UNCHANGED <<dropped, deletion>>
  BY <1>3 DEF Undropped
<1>4. \/ RejectBatch \/ DeleteSession \/ CancelListed \/ DeleteRuns
      \/ UNCHANGED <<dropped, deletion>>
  <2>1. ASSUME NEW c \in Callers, GoOn(c)
        PROVE  UNCHANGED <<dropped, deletion>>
    BY <2>1 DEF GoOn, clientVars, historyVars
  <2>2. ASSUME NEW k \in Calls,
               \/ CallStep(k) \/ YieldEvent(k) \/ EmitEvent(k)
               \/ ReturnClosed(k) \/ \E q \in Requests : YieldDelta(k, q)
        PROVE  UNCHANGED <<dropped, deletion>>
    BY <2>2 DEF CallStep, CreateRun, StartRun, CloseRun, CompleteRun,
         YieldEvent, YieldDelta, EmitEvent, ReturnClosed, clientVars, historyVars
  <2>3. ASSUME \/ WriteBatch \/ EndFlush \/ FlushTimer \/ Activate \/ ReadRun
               \/ CancelRun \/ SendFromRenderer \/ RequestIntent
               \/ \E p \in Polls : PollStep(p)
               \/ UNCHANGED vars
        PROVE  UNCHANGED <<dropped, deletion>>
    BY <2>3 DEF WriteBatch, EndFlush, FlushTimer, Activate, ReadRun, CancelRun,
         SendFromRenderer, RequestIntent, PollStep, ListIntents, TakeIntent,
         ClaimIntent, clientVars, historyVars, vars
  <2> QED
    BY <2>1, <2>2, <2>3 DEF Next, Resume, Task, WriterStep
<1> QED
  BY <1>1, <1>2, <1>3, <1>4

LEMMA OnePlace ==
  ASSUME Located, NEW n \in 1..heard
  PROVE  Cardinality(Places(n)) = 1
<1> DEFINE logged == IF n \in written THEN {<<"log", "all">>} ELSE {}
           lost == IF n \in dropped THEN {<<"dropped", "all">>} ELSE {}
           flying == IF flight.at = "writing" /\ n \in Deltas(flight.batch)
                     THEN {<<"flight", "all">>} ELSE {}
           buffered == IF n \in Deltas(buffer) THEN {<<"buffer", "all">>} ELSE {}
           holders == {c \in Callers : n \in Deltas(job[c])}
           requests == {q \in Requests : n \in text[q]}
           held == {<<"held", c>> : c \in holders}
           texts == {<<"text", q>> : q \in requests}
<1>1. Places(n) = logged \union lost \union flying \union buffered
                    \union held \union texts
  BY DEF Places
<1>2. /\ (n \in Held) <=> (holders # {})
      /\ (n \in AllText) <=> (requests # {})
      /\ (n \in InFlight) <=> (flight.at = "writing" /\ n \in Deltas(flight.batch))
  BY DEF Held, AllText, InFlight
<1>3. /\ \A b, c \in holders : b = c
      /\ \A p, q \in requests : p = q
  BY DEF Located, TextApart
<1>4. /\ n \in written \/ n \in dropped \/ n \in InFlight \/ n \in Deltas(buffer)
         \/ n \in Held \/ n \in AllText
      /\ n \in written => /\ n \notin dropped /\ n \notin InFlight
                          /\ n \notin Deltas(buffer) /\ n \notin Held
                          /\ n \notin AllText
      /\ n \in dropped => /\ n \notin InFlight /\ n \notin Deltas(buffer)
                          /\ n \notin Held /\ n \notin AllText
      /\ n \in InFlight => /\ n \notin Deltas(buffer) /\ n \notin Held
                           /\ n \notin AllText
      /\ n \in Deltas(buffer) => n \notin Held /\ n \notin AllText
      /\ n \in Held => n \notin AllText
  BY DEF Located
<1> HIDE DEF holders, requests
<1>5. \E place : Places(n) = {place}
  <2>1. CASE n \in Held
    <3>1. PICK c \in holders : holders = {c}
      BY <1>2, <1>3, <2>1
    <3>2. held = {<<"held", c>>} /\ texts = {}
      BY <1>2, <1>4, <2>1, <3>1
    <3>3. logged = {} /\ lost = {} /\ flying = {} /\ buffered = {}
      BY <1>2, <1>4, <2>1
    <3> QED
      BY <1>1, <3>2, <3>3
  <2>2. CASE n \in AllText
    <3>1. PICK q \in requests : requests = {q}
      BY <1>2, <1>3, <2>2
    <3>2. texts = {<<"text", q>>} /\ held = {}
      BY <1>2, <1>4, <2>2, <3>1
    <3>3. logged = {} /\ lost = {} /\ flying = {} /\ buffered = {}
      BY <1>2, <1>4, <2>2
    <3> QED
      BY <1>1, <3>2, <3>3
  <2>3. CASE n \notin Held /\ n \notin AllText
    <3>1. held = {} /\ texts = {}
      BY <1>2, <2>3
    <3> HIDE DEF held, texts
    <3>2. CASE n \in written
      <4>1. logged = {<<"log", "all">>} /\ lost = {} /\ flying = {} /\ buffered = {}
        BY <1>2, <1>4, <3>2
      <4> QED
        BY <1>1, <3>1, <4>1
    <3>3. CASE n \in dropped
      <4>1. lost = {<<"dropped", "all">>} /\ logged = {} /\ flying = {} /\ buffered = {}
        BY <1>2, <1>4, <3>3
      <4> QED
        BY <1>1, <3>1, <4>1
    <3>4. CASE n \in InFlight
      <4>1. flying = {<<"flight", "all">>} /\ logged = {} /\ lost = {} /\ buffered = {}
        BY <1>2, <1>4, <3>4
      <4> QED
        BY <1>1, <3>1, <4>1
    <3>5. CASE n \in Deltas(buffer)
      <4>1. buffered = {<<"buffer", "all">>} /\ logged = {} /\ lost = {} /\ flying = {}
        BY <1>2, <1>4, <3>5
      <4> QED
        BY <1>1, <3>1, <4>1
    <3> QED
      BY <1>4, <2>3, <3>2, <3>3, <3>4, <3>5
  <2> QED
    BY <2>1, <2>2, <2>3
<1> QED
  BY <1>5, FS_Singleton

\* Whoever flushes in between, every delta is in one place from memory to the
\* log, and is dropped only where a deletion took the record away
\* (DesignRunLedgerWriter, BufferedAgentRunEventWriter.append and flush).
THEOREM DesignTextKept == Spec => []TextKept
<1>1. Init => Undropped
  BY DEF Init, Undropped
<1>2. LInv /\ Undropped /\ [Next]_vars => Undropped'
  BY UndroppedStep
<1>3. LInv /\ Undropped => TextKept
  BY OnePlace DEF LInv, Undropped, TextKept
<1> QED
  BY LedgerAlways, <1>1, <1>2, <1>3, PTL DEF Spec

------------------------------------------------------------------------------
\* What TextBeforeEvents asks of an item with that text ahead of it
Fits(item, ahead) ==
  IF item.type = "assistant_message"
  THEN \A n \in item.deltas : \A m \in 1..n : m \in ahead \union item.deltas
  ELSE 1..item.after \subseteq ahead

\* The text of the items before one, and a sequence whose items all fit behind
\* those before them and what is written
Before(s, i) == UNION {Own(s[j]) : j \in 1..(i - 1)}
Ordered(base, s) == \A i \in 1..Len(s) : Fits(s[i], base \union Before(s, i))

LEMMA FitsMore ==
  ASSUME NEW item, NEW few, NEW many, few \subseteq many, Fits(item, few)
  PROVE  Fits(item, many)
BY DEF Fits

LEMMA BeforeIsAhead ==
  ASSUME NEW s \in Seq(Item), NEW i \in 1..Len(s)
  PROVE  Deltas(SubSeq(s, 1, i - 1)) = Before(s, i)
<1> DEFINE t == SubSeq(s, 1, i - 1)
<1>1. /\ t \in Seq(Item) /\ Len(t) = i - 1 /\ \A j \in 1..Len(t) : t[j] = s[j]
  OBVIOUS
<1> HIDE DEF t
<1>2. \A n : n \in Deltas(t) <=> n \in Before(s, i)
  BY <1>1, DeltasOf DEF Before
<1> QED
  BY <1>2 DEF t

\* A sequence is in order when its end is, behind its beginning.
LEMMA OrderedJoined ==
  ASSUME NEW s \in Seq(Item), NEW u \in Seq(Item), NEW base
  PROVE  Ordered(base, s \o u)
           <=> Ordered(base, s) /\ Ordered(base \union Deltas(s), u)
<1> DEFINE t == s \o u
<1>1. /\ Len(t) = Len(s) + Len(u) /\ Len(s) \in Nat /\ Len(u) \in Nat
      /\ \A i \in 1..Len(s) : t[i] = s[i] /\ i \in 1..Len(t)
      /\ \A i \in 1..Len(u) : t[Len(s) + i] = u[i] /\ Len(s) + i \in 1..Len(t)
      /\ \A i \in 1..Len(t) : i \notin 1..Len(s) => /\ i - Len(s) \in 1..Len(u)
                                                     /\ Len(s) + (i - Len(s)) = i
  OBVIOUS
<1> HIDE DEF t
<1>2. ASSUME NEW i \in 1..Len(s)
      PROVE  Before(t, i) = Before(s, i)
  <2>1. \A j \in 1..(i - 1) : j \in 1..Len(s)
    BY <1>1
  <2> QED
    BY <1>1, <2>1 DEF Before
<1>3. ASSUME NEW i \in 1..Len(u)
      PROVE  Before(t, Len(s) + i) = Deltas(s) \union Before(u, i)
  <2>1. ASSUME NEW j \in 1..(Len(s) + i - 1), j \notin 1..Len(s)
        PROVE  j - Len(s) \in 1..(i - 1) /\ t[j] = u[j - Len(s)]
    <3>1. j \in 1..Len(t) /\ j - Len(s) \in 1..(i - 1)
      BY <1>1, <2>1
    <3> QED
      BY <1>1, <2>1, <3>1
  <2>2. ASSUME NEW n
        PROVE  n \in Before(t, Len(s) + i) <=> n \in Deltas(s) \/ n \in Before(u, i)
    <3>1. ASSUME n \in Before(t, Len(s) + i)
          PROVE  n \in Deltas(s) \/ n \in Before(u, i)
      <4>1. PICK j \in 1..(Len(s) + i - 1) : n \in Own(t[j])
        BY <3>1 DEF Before
      <4>2. CASE j \in 1..Len(s)
        BY <1>1, <4>1, <4>2, DeltasOf
      <4>3. CASE j \notin 1..Len(s)
        BY <2>1, <4>1, <4>3 DEF Before
      <4> QED
        BY <4>2, <4>3
    <3>2. ASSUME n \in Deltas(s)
          PROVE  n \in Before(t, Len(s) + i)
      <4>1. PICK j \in 1..Len(s) : n \in Own(s[j])
        BY <3>2, DeltasOf
      <4>2. j \in 1..(Len(s) + i - 1) /\ t[j] = s[j]
        BY <1>1
      <4> QED
        BY <4>1, <4>2 DEF Before
    <3>3. ASSUME n \in Before(u, i)
          PROVE  n \in Before(t, Len(s) + i)
      <4>1. PICK j \in 1..(i - 1) : n \in Own(u[j])
        BY <3>3 DEF Before
      <4>2. j \in 1..Len(u) /\ Len(s) + j \in 1..(Len(s) + i - 1)
        BY <1>1
      <4>3. n \in Own(t[Len(s) + j])
        BY <1>1, <4>1, <4>2
      <4> QED
        BY <4>2, <4>3 DEF Before
    <3> QED
      BY <3>1, <3>2, <3>3
  <2> QED
    BY <2>2
<1>4. ASSUME Ordered(base, t)
      PROVE  Ordered(base, s) /\ Ordered(base \union Deltas(s), u)
  <2>1. \A i \in 1..Len(s) : Fits(s[i], base \union Before(s, i))
    BY <1>1, <1>2, <1>4 DEF Ordered
  <2>2. ASSUME NEW i \in 1..Len(u)
        PROVE  Fits(u[i], (base \union Deltas(s)) \union Before(u, i))
    <3>1. Fits(t[Len(s) + i], base \union Before(t, Len(s) + i))
      BY <1>1, <1>4 DEF Ordered
    <3>2. base \union Before(t, Len(s) + i)
            = (base \union Deltas(s)) \union Before(u, i)
      BY <1>3
    <3> QED
      BY <1>1, <3>1, <3>2
  <2> QED
    BY <2>1, <2>2 DEF Ordered
<1>5. ASSUME Ordered(base, s), Ordered(base \union Deltas(s), u),
             NEW i \in 1..Len(t)
      PROVE  Fits(t[i], base \union Before(t, i))
  <2>1. CASE i \in 1..Len(s)
    BY <1>1, <1>2, <1>5, <2>1 DEF Ordered
  <2>2. CASE i \notin 1..Len(s)
    <3> DEFINE j == i - Len(s)
    <3>1. j \in 1..Len(u) /\ Len(s) + j = i /\ t[i] = u[j]
      BY <1>1, <2>2
    <3> HIDE DEF j
    <3>2. Fits(u[j], (base \union Deltas(s)) \union Before(u, j))
      BY <1>5, <3>1 DEF Ordered
    <3>3. base \union Before(t, i) = (base \union Deltas(s)) \union Before(u, j)
      BY <1>3, <3>1
    <3> QED
      BY <3>1, <3>2, <3>3
  <2> QED
    BY <2>1, <2>2
<1> QED
  BY <1>4, <1>5 DEF Ordered, t

LEMMA OrderedOne ==
  ASSUME NEW item \in Item, NEW base, item # Flush => Fits(item, base)
  PROVE  Ordered(base, Sent(item))
<1>1. CASE item = Flush
  BY <1>1 DEF Sent, Ordered
<1>2. CASE item # Flush
  <2> DEFINE one == Sent(item)
  <2>1. Len(one) = 1 /\ one[1] = item /\ Before(one, 1) = {}
    BY <1>2 DEF Sent, Before
  <2> HIDE DEF one
  <2>2. \A i \in 1..Len(one) : i = 1
    BY <2>1
  <2>3. Fits(one[1], base \union Before(one, 1))
    BY <1>2, <2>1
  <2> QED
    BY <2>2, <2>3 DEF Ordered, one
<1> QED
  BY <1>1, <1>2

------------------------------------------------------------------------------
\* As long as no flush took the text of several requests, callers hold no
\* text, and what they hold fits behind all that has gone to the log or will.
Gone == written \union dropped
Ahead == Gone \union Deltas(Pipeline)
HeldFits(c) ==
  /\ Deltas(job[c]) = {}
  /\ \A i \in 1..Len(job[c]) : job[c][i] # Flush => Fits(job[c][i], Ahead)
NInv == mixed \/ (Ordered(Gone, Pipeline) /\ \A c \in Callers : HeldFits(c))

\* An item that fits goes behind what goes to the log.
LEMMA PushOrdered ==
  ASSUME TInv, NEW c \in Callers, NEW items \in Seq(Item), items # <<>>,
         Hand(c, items), UNCHANGED <<written, dropped>>, Ordered(Gone, Pipeline),
         Head(items) # Flush => Fits(Head(items), Ahead)
  PROVE  Ordered(Gone, Pipeline)' /\ Ahead' = Ahead \union Own(Head(items))
<1> DEFINE item == Head(items)
<1>1. item \in Item
  BY DeltasSplit
<1>2. Pipeline' = Pipeline \o Sent(item) /\ Gone' = Gone
  BY HandSound DEF Gone
<1>3. /\ Pipeline \in Seq(Item) /\ Sent(item) \in Seq(Item)
      /\ Deltas(Sent(item)) = Own(item)
  BY <1>1, PipelineTyped, SentLetters
<1> HIDE DEF item
<1>4. Ordered(Ahead, Sent(item))
  BY <1>1, OrderedOne DEF item
<1>5. Ordered(Gone, Pipeline \o Sent(item))
  BY <1>3, <1>4, OrderedJoined DEF Ahead
<1>6. Ordered(Gone', Pipeline')
  BY <1>2, <1>5
<1>7. Deltas(Pipeline \o Sent(item)) = Deltas(Pipeline) \union Own(item)
  BY <1>3, DeltasJoined
<1>8. Ahead' = Ahead \union Own(item)
  <2>1. Ahead' = Gone' \union Deltas(Pipeline')
    BY DEF Ahead, Deltas
  <2> QED
    BY <1>2, <1>7, <2>1 DEF Ahead
<1> QED
  BY <1>6, <1>8 DEF item, Ordered, Fits, Before

\* What the others hold fits still where more has gone ahead.
LEMMA HeldFitsMore ==
  ASSUME TInv, NEW c \in Callers, HeldFits(c), job'[c] = job[c], Ahead \subseteq Ahead'
  PROVE  HeldFits(c)'
<1>1. Deltas(job'[c]) = {}
  BY DEF HeldFits
<1>2. \A i \in 1..Len(job'[c]) : job'[c][i] # Flush => Fits(job'[c][i], Ahead')
  BY FitsMore DEF HeldFits
<1> QED
  BY <1>1, <1>2 DEF HeldFits, Deltas, Fits

LEMMA SeqsSame ==
  ASSUME NEW s \in Seq(Item), NEW u \in Seq(Item), Len(s) = Len(u),
         \A i \in 1..Len(s) : s[i] = u[i]
  PROVE  s = u
OBVIOUS

LEMMA OneJoined ==
  ASSUME NEW s \in Seq(Item), NEW u \in Seq(Item), Len(s) = 1
  PROVE  /\ s \o u \in Seq(Item) /\ s \o u # <<>>
         /\ Head(s \o u) = s[1] /\ Tail(s \o u) = u /\ s[1] \in Item
<1>0. ASSUME NEW v \in Seq(Item)
      PROVE  /\ v \o u \in Seq(Item) /\ Len(v \o u) = Len(v) + Len(u)
             /\ Len(u) \in Nat
             /\ \A i \in 1..Len(v) : (v \o u)[i] = v[i]
             /\ \A i \in 1..Len(u) : (v \o u)[Len(v) + i] = u[i]
  OBVIOUS
<1> DEFINE t == s \o u
<1>1. /\ t \in Seq(Item) /\ Len(t) = Len(s) + Len(u) /\ Len(u) \in Nat
      /\ \A i \in 1..Len(s) : t[i] = s[i]
      /\ \A i \in 1..Len(u) : t[Len(s) + i] = u[i]
  BY <1>0
<1> HIDE DEF t
<1>2. s[1] \in Item /\ t[1] = s[1] /\ Len(t) = Len(u) + 1
  BY <1>1
<1>3. t # <<>> /\ Head(t) = t[1]
  BY <1>1, <1>2
<1>4. /\ Tail(t) \in Seq(Item) /\ Len(Tail(t)) = Len(u)
      /\ \A i \in 1..Len(u) : Tail(t)[i] = t[i + 1]
  BY <1>1, <1>2, <1>3
<1>5. \A i \in 1..Len(u) : t[i + 1] = u[i]
  <2>1. \A i \in 1..Len(u) : i + 1 = Len(s) + i
    BY <1>1
  <2> QED
    BY <1>1, <2>1
<1>6. Tail(t) = u
  BY <1>4, <1>5, SeqsSame
<1> QED
  BY <1>1, <1>2, <1>3, <1>6 DEF t

\* What is handed on fits, and so does the rest: the order is kept.
LEMMA PassOrdered ==
  ASSUME TInv, NEW c \in Callers, NEW items \in Seq(Item), items # <<>>,
         Hand(c, items), UNCHANGED <<written, dropped>>, Ordered(Gone, Pipeline),
         \A b \in Callers : b # c => HeldFits(b),
         Head(items) # Flush => Fits(Head(items), Ahead),
         Deltas(Tail(items)) = {},
         \A i \in 1..Len(Tail(items)) :
           Tail(items)[i] # Flush
             => Fits(Tail(items)[i], Ahead \union Own(Head(items)))
  PROVE  NInv'
<1>1. Ordered(Gone, Pipeline)' /\ Ahead' = Ahead \union Own(Head(items))
  BY PushOrdered
<1>2. job' = [job EXCEPT ![c] = Tail(items)]
  BY HandSound
<1>3. job'[c] = Tail(items) /\ \A b \in Callers : b # c => job'[b] = job[b]
  BY <1>2 DEF TInv
<1>4. HeldFits(c)'
  <2>1. Deltas(job'[c]) = {}
    BY <1>3
  <2>2. \A i \in 1..Len(job'[c]) : job'[c][i] # Flush => Fits(job'[c][i], Ahead')
    BY <1>1, <1>3
  <2> QED
    BY <2>1, <2>2 DEF HeldFits, Deltas, Fits
<1>5. \A b \in Callers : b # c => HeldFits(b)'
  BY <1>1, <1>3, HeldFitsMore
<1> QED
  BY <1>1, <1>4, <1>5 DEF NInv

\* A take of at most one request's text hands it on at once, so that all text
\* streamed so far is ahead of what follows.
LEMMA TakeOrdered ==
  ASSUME LInv, NInv, NEW c \in Callers, job[c] = <<>>,
         NEW items \in Seq(Item), items # <<>>, Deltas(items) = {},
         \A i \in 1..Len(items) : items[i] # Flush => Fits(items[i], 1..heard),
         TakeText(c, items), UNCHANGED <<written, dropped>>
  PROVE  NInv'
<1> SUFFICES ASSUME ~mixed'
             PROVE  NInv'
  BY DEF NInv
<1>1. /\ TInv /\ Located /\ TextApart /\ text \in [Requests -> SUBSET Nat]
      /\ heard \in Nat
  BY DEF LInv, Located, TInv
<1>2. /\ Messages \in Seq(Item) /\ Len(Messages) \in Nat
      /\ Deltas(Messages) = AllText
  BY <1>1, MessagesHold
<1>3. ~mixed /\ Len(Messages) <= 1 /\ Hand(c, Messages \o items)
  <2>1. /\ mixed' = (mixed \/ Len(Messages) > 1)
        /\ Hand(c, Messages \o items)
    BY DEF TakeText
  <2>2. ~mixed /\ ~(Len(Messages) > 1)
    BY <2>1, Zenon
  <2>3. Len(Messages) <= 1
    BY <1>2, <2>2
  <2> QED
    BY <2>1, <2>2, <2>3
<1>4. Ordered(Gone, Pipeline) /\ \A b \in Callers : HeldFits(b)
  BY <1>3 DEF NInv
<1>5. 1..heard = Ahead \union AllText
  <2>1. Held = {}
    BY <1>4 DEF HeldFits, Held
  <2>2. Deltas(Pipeline) = InFlight \union Deltas(buffer)
    BY <1>1, PipelineTyped
  <2> QED
    BY <1>1, <2>1, <2>2 DEF Located, Ahead, Gone
<1>6. /\ Head(items) \in Item /\ Tail(items) \in Seq(Item)
      /\ Own(Head(items)) = {} /\ Deltas(Tail(items)) = {}
  BY DeltasSplit
<1>7. /\ Head(items) = items[1] /\ 1 \in 1..Len(items)
      /\ \A i \in 1..Len(Tail(items)) : /\ Tail(items)[i] = items[i + 1]
                                        /\ i + 1 \in 1..Len(items)
  OBVIOUS
<1>8. CASE Len(Messages) = 0
  <2>1. Messages \o items = items /\ AllText = {}
    <3>1. Messages = <<>>
      BY <1>2, <1>8
    <3> QED
      BY <1>2, <3>1, DeltasNone
  <2>2. Hand(c, items)
    BY <1>3, <2>1
  <2>3. Head(items) # Flush => Fits(Head(items), Ahead)
    BY <1>5, <1>7, <2>1
  <2>4. \A i \in 1..Len(Tail(items)) :
          Tail(items)[i] # Flush
            => Fits(Tail(items)[i], Ahead \union Own(Head(items)))
    BY <1>5, <1>6, <1>7, <2>1
  <2> QED
    BY <1>1, <1>4, <1>6, <2>2, <2>3, <2>4, PassOrdered
<1>9. CASE Len(Messages) = 1
  <2> DEFINE all == Messages \o items
             message == Messages[1]
  <2>1. /\ all \in Seq(Item) /\ all # <<>> /\ Head(all) = message
        /\ Tail(all) = items /\ message \in Item
    <3> QED
      BY <1>2, <1>9, OneJoined
  <2>2. Own(message) = AllText /\ message.type = "assistant_message"
        /\ Own(message) = message.deltas
    <3>1. Own(message) = AllText
      <4>1. Deltas(all) = Own(message) \union Deltas(items)
        BY <2>1, DeltasSplit
      <4>2. Deltas(all) = AllText \union Deltas(items)
        BY <1>2, DeltasJoined
      <4> QED
        BY <4>1, <4>2
    <3>2. message = Message(Streaming[1])
      BY <1>1, <1>9, MessagesHold
    <3> QED
      BY <3>1, <3>2 DEF Message, Own
  <2> HIDE DEF all, message
  <2>3. Fits(message, Ahead)
    <3>1. ASSUME NEW n \in message.deltas, NEW m \in 1..n
          PROVE  m \in Ahead \union message.deltas
      <4>1. n \in 1..heard
        BY <1>5, <2>2
      <4>2. m \in 1..heard
        BY <1>1, <4>1
      <4> QED
        BY <1>5, <2>2, <4>2
    <3> QED
      BY <2>2, <3>1 DEF Fits
  <2>4. \A i \in 1..Len(items) :
          items[i] # Flush => Fits(items[i], Ahead \union Own(message))
    BY <1>5, <2>2
  <2>5. Hand(c, all)
    BY <1>3 DEF all
  <2> QED
    BY <1>1, <1>4, <2>1, <2>3, <2>4, <2>5, PassOrdered
<1>10. Len(Messages) = 0 \/ Len(Messages) = 1
  <2>1. \A n \in Nat : n <= 1 => n = 0 \/ n = 1
    OBVIOUS
  <2> QED
    BY <1>2, <1>3, <2>1
<1> QED
  BY <1>8, <1>9, <1>10

LEMMA EventFits ==
  ASSUME NEW type \in Types, NEW n \in Nat, NEW ahead, 1..n \subseteq ahead
  PROVE  /\ Event(type, n) \in Item /\ Own(Event(type, n)) = {}
         /\ Fits(Event(type, n), ahead)
<1>1. Event(type, n).type = type /\ Event(type, n).after = n
      /\ type # "assistant_message"
  BY DEF Event, Types, EventTypes
<1>2. Event(type, n) \in Item
  BY DEF Event, Item, Letter
<1> QED
  BY <1>1, <1>2 DEF Own, Fits

LEMMA AppendOrdered ==
  ASSUME LInv, NInv, NEW c \in Callers, job[c] = <<>>, NEW type \in Types,
         AppendEvent(c, type), UNCHANGED <<written, dropped>>
  PROVE  NInv'
<1>1. CASE type \in Boundary
  <2> DEFINE items == <<Event(type, heard)>>
  <2>1. /\ Event(type, heard) \in Item /\ Own(Event(type, heard)) = {}
        /\ Fits(Event(type, heard), 1..heard)
    BY EventFits DEF LInv, TInv
  <2>2. /\ items \in Seq(Item) /\ items # <<>> /\ Head(items) = Event(type, heard)
        /\ Tail(items) = <<>>
        /\ \A i \in 1..Len(items) : items[i] = Event(type, heard)
    BY <2>1
  <2>3. TakeText(c, items)
    BY <1>1 DEF AppendEvent
  <2> HIDE DEF items
  <2>4. Deltas(items) = {}
    BY <2>1, <2>2, DeltasSplit, DeltasNone
  <2> QED
    BY <2>1, <2>2, <2>3, <2>4, TakeOrdered
<1>2. CASE type \notin Boundary
  <2> DEFINE items == <<Event(type, 0)>>
  <2>1. /\ Event(type, 0) \in Item /\ Own(Event(type, 0)) = {}
        /\ Fits(Event(type, 0), Ahead)
    BY EventFits
  <2>2. /\ items \in Seq(Item) /\ items # <<>> /\ Head(items) = Event(type, 0)
        /\ Tail(items) = <<>>
    BY <2>1
  <2>3. Hand(c, items) /\ UNCHANGED mixed
    BY <1>2 DEF AppendEvent
  <2> HIDE DEF items
  <2>4. Deltas(Tail(items)) = {} /\ Len(Tail(items)) = 0
    BY <2>2, DeltasNone
  <2>5. CASE ~mixed
    <3>1. Ordered(Gone, Pipeline) /\ \A b \in Callers : HeldFits(b)
      BY <2>5 DEF NInv
    <3>2. TInv
      BY DEF LInv
    <3>3. \A i \in 1..Len(Tail(items)) :
            Tail(items)[i] # Flush
              => Fits(Tail(items)[i], Ahead \union Own(Head(items)))
      BY <2>4
    <3>4. Head(items) # Flush => Fits(Head(items), Ahead)
      BY <2>1, <2>2
    <3> QED
      BY <2>2, <2>3, <2>4, <3>1, <3>2, <3>3, <3>4, PassOrdered
  <2>6. CASE mixed
    BY <2>3, <2>6 DEF NInv
  <2> QED
    BY <2>5, <2>6
<1> QED
  BY <1>1, <1>2

LEMMA FlushesOrdered ==
  ASSUME LInv, NInv, NEW c \in Callers, job[c] = <<>>,
         \/ FlushRun(c)
         \/ TakeText(c, IF Messages = <<>> THEN <<Flush>> ELSE <<Flush, Flush>>),
         UNCHANGED <<written, dropped>>
  PROVE  NInv'
<1>1. PICK items \in {<<Flush>>, <<Flush, Flush>>} : TakeText(c, items)
  BY DEF FlushRun
<1>2. Flush \in Item /\ Own(Flush) = {}
  BY DEF Flush, Item, Own
<1>3. items \in Seq(Item) /\ items # <<>> /\ \A i \in 1..Len(items) : items[i] = Flush
  <2>1. CASE items = <<Flush>>
    BY <1>2, <2>1
  <2>2. CASE items = <<Flush, Flush>>
    BY <1>2, <2>2
  <2> QED
    BY <2>1, <2>2
<1>4. Deltas(items) = {}
  BY <1>2, <1>3, DeltasOf
<1> QED
  BY <1>1, <1>3, <1>4, TakeOrdered

LEMMA GoOnOrdered ==
  ASSUME LInv, NInv, NEW c \in Callers, GoOn(c)
  PROVE  NInv'
<1>1. /\ Hand(c, job[c]) /\ job[c] # <<>> /\ job[c] \in Seq(Item)
      /\ UNCHANGED <<written, dropped, mixed>>
  BY DEF GoOn, historyVars, LInv, TInv
<1>2. CASE mixed
  BY <1>1, <1>2 DEF NInv
<1>3. CASE ~mixed
  <2> DEFINE items == job[c]
  <2>1. Ordered(Gone, Pipeline) /\ \A b \in Callers : HeldFits(b)
    BY <1>3 DEF NInv
  <2>2. /\ Deltas(items) = {}
        /\ \A i \in 1..Len(items) : items[i] # Flush => Fits(items[i], Ahead)
    BY <2>1 DEF HeldFits
  <2>3. items \in Seq(Item) /\ items # <<>> /\ Hand(c, items)
    BY <1>1
  <2> HIDE DEF items
  <2>4. Own(Head(items)) = {} /\ Deltas(Tail(items)) = {}
    BY <2>2, <2>3, DeltasSplit
  <2>5. /\ Head(items) = items[1] /\ 1 \in 1..Len(items)
        /\ \A i \in 1..Len(Tail(items)) : /\ Tail(items)[i] = items[i + 1]
                                          /\ i + 1 \in 1..Len(items)
    BY <2>3
  <2>6. Head(items) # Flush => Fits(Head(items), Ahead)
    BY <2>2, <2>5
  <2>7. \A i \in 1..Len(Tail(items)) :
          Tail(items)[i] # Flush
            => Fits(Tail(items)[i], Ahead \union Own(Head(items)))
    BY <2>2, <2>4, <2>5
  <2> QED
    BY <1>1, <2>1, <2>3, <2>4, <2>6, <2>7, PassOrdered DEF LInv
<1> QED
  BY <1>2, <1>3

LEMMA RestOrdered ==
  ASSUME NInv, UNCHANGED <<written, dropped, job, Pipeline, mixed>>
  PROVE  NInv'
<1>1. UNCHANGED <<Gone, Ahead>>
  BY DEF Gone, Ahead, Deltas
<1>2. ASSUME NEW c \in Callers, HeldFits(c)
      PROVE  HeldFits(c)'
  BY <1>1, <1>2 DEF HeldFits, Deltas, Fits
<1>3. Ordered(Gone, Pipeline) => Ordered(Gone, Pipeline)'
  BY <1>1 DEF Ordered, Before, Own, Fits
<1> QED
  BY <1>2, <1>3 DEF NInv

\* A batch that leaves for the log, or is dropped, leaves the rest in order.
LEMMA SettledOrdered ==
  ASSUME TInv, NInv, flight.at = "writing", flight'.at # "writing",
         UNCHANGED <<buffer, mixed>>,
         Gone \union Deltas(flight.batch) \subseteq Gone',
         \A c \in Callers : job'[c] = <<>> \/ job'[c] = job[c]
  PROVE  NInv'
<1> SUFFICES ASSUME ~mixed
             PROVE  NInv'
  BY DEF NInv
<1>1. Ordered(Gone, Pipeline) /\ \A c \in Callers : HeldFits(c)
  BY DEF NInv
<1>2. /\ flight.batch \in Seq(Item) /\ buffer \in Seq(Item)
      /\ Pipeline = flight.batch \o buffer /\ Pipeline' = buffer
  <2>1. /\ flight.batch \in Seq(Item) /\ buffer \in Seq(Item)
        /\ Pipeline = flight.batch \o buffer /\ Pipeline' = <<>> \o buffer
    BY LettersAreItems DEF TInv, Pipeline
  <2> QED
    BY <2>1
<1>3. Ordered(Gone \union Deltas(flight.batch), buffer)
  BY <1>1, <1>2, OrderedJoined
<1>4. Ordered(Gone', buffer)
  <2>1. ASSUME NEW i \in 1..Len(buffer)
        PROVE  Fits(buffer[i], Gone' \union Before(buffer, i))
    <3>1. Fits(buffer[i], (Gone \union Deltas(flight.batch)) \union Before(buffer, i))
      BY <1>3 DEF Ordered
    <3>2. (Gone \union Deltas(flight.batch)) \union Before(buffer, i)
            \subseteq Gone' \union Before(buffer, i)
      OBVIOUS
    <3> QED
      BY <3>1, <3>2, FitsMore
  <2> QED
    BY <2>1 DEF Ordered
<1>5. Ordered(Gone, Pipeline)'
  <2>1. Ordered(Gone', Pipeline')
    BY <1>2, <1>4
  <2> QED
    BY <2>1 DEF Ordered, Before, Fits
<1>6. Ahead \subseteq Ahead'
  <2>1. Ahead = Gone \union Deltas(flight.batch) \union Deltas(buffer)
    BY <1>2, DeltasJoined DEF Ahead
  <2>2. Ahead' = Gone' \union Deltas(buffer)
    BY <1>2 DEF Ahead, Deltas
  <2> QED
    BY <2>1, <2>2
<1>7. ASSUME NEW c \in Callers
      PROVE  HeldFits(c)'
  <2>1. CASE job'[c] = job[c]
    BY <1>1, <1>6, <2>1, HeldFitsMore
  <2>2. CASE job'[c] = <<>>
    <3>1. Deltas(job'[c]) = {} /\ Len(job'[c]) = 0
      BY <2>2, DeltasNone
    <3> QED
      BY <3>1 DEF HeldFits, Deltas
  <2> QED
    BY <2>1, <2>2
<1> QED
  BY <1>5, <1>7 DEF NInv

LEMMA WriterOrdered ==
  ASSUME LInv, NInv, WriterStep
  PROVE  NInv'
<1>0. TInv /\ Located /\ Distinct
  BY DEF LInv
<1>1. CASE WriteBatch
  <2>1. /\ flight.at = "writing" /\ flight'.at = "publishing"
        /\ written' = written \union Deltas(flight.batch)
        /\ UNCHANGED <<buffer, mixed, job, dropped>>
    BY <1>0, <1>1 DEF WriteBatch, historyVars, TInv
  <2>2. Gone \union Deltas(flight.batch) \subseteq Gone'
    BY <2>1 DEF Gone
  <2> QED
    BY <1>0, <2>1, <2>2, SettledOrdered
<1>2. CASE EndFlush
  <2>1. flight.at = "publishing" /\ flight' = NoFlight
        /\ UNCHANGED <<written, dropped, job, buffer, mixed>>
    BY <1>2 DEF EndFlush, Settle, historyVars
  <2>2. Pipeline' = Pipeline
    BY <2>1 DEF Pipeline, NoFlight
  <2> QED
    BY <2>1, <2>2, RestOrdered
<1>3. CASE RejectBatch
  <2>1. /\ flight.at = "writing" /\ flight' = NoFlight
        /\ dropped \union Deltas(flight.batch) \subseteq dropped'
        /\ UNCHANGED <<buffer, mixed, written>>
    BY <1>3 DEF RejectBatch, Settle
  <2>2. Gone \union Deltas(flight.batch) \subseteq Gone' /\ flight'.at # "writing"
    BY <2>1 DEF Gone, NoFlight
  <2>3. \A c \in Callers : job'[c] = <<>> \/ job'[c] = job[c]
    BY <1>0, <1>3, RejectSound
  <2> QED
    BY <1>0, <2>1, <2>2, <2>3, SettledOrdered
<1>4. CASE FlushTimer
  <2>1. /\ flight = NoFlight /\ flight' = Writing(buffer) /\ buffer' = <<>>
        /\ UNCHANGED <<written, dropped, job, mixed>>
    BY <1>4 DEF FlushTimer, historyVars
  <2>2. buffer \in Seq(Letter)
    BY <1>0 DEF TInv
  <2>3. Pipeline = buffer /\ Pipeline' = buffer
    BY <2>1, <2>2 DEF Pipeline, NoFlight, Writing
  <2> QED
    BY <2>1, <2>3, RestOrdered
<1> QED
  BY <1>1, <1>2, <1>3, <1>4 DEF WriterStep

LEMMA CallOrdered ==
  ASSUME LInv, NInv, NEW k \in Calls, CloseRun(k) \/ YieldEvent(k)
  PROVE  NInv'
<1>1. PICK type \in Types : AppendEvent(k, type)
  BY DEF CloseRun, YieldEvent, Save, Types, EventTypes
<1>2. calls[k].at = "running" /\ UNCHANGED <<written, dropped>>
  BY DEF CloseRun, YieldEvent
<1>3. k \in Callers /\ job[k] = <<>>
  BY <1>2, Callees DEF LInv, Idle
<1> QED
  BY <1>1, <1>2, <1>3, AppendOrdered

LEMMA OrderStep ==
  ASSUME LInv, NInv, [Next]_vars
  PROVE  NInv'
<1>1. ASSUME NEW k \in Calls, CloseRun(k) \/ YieldEvent(k)
      PROVE  NInv'
  BY <1>1, CallOrdered
<1>2. ASSUME NEW c \in Callers, GoOn(c)
      PROVE  NInv'
  BY <1>2, GoOnOrdered
<1>3. CASE WriterStep
  BY <1>3, WriterOrdered
<1>4. CASE ReadRun
  <2>1. job["console"] = <<>> /\ FlushRun("console") /\ UNCHANGED <<written, dropped>>
    BY <1>4 DEF ReadRun
  <2> QED
    BY <2>1, Callees, FlushesOrdered
<1>5. CASE DeleteSession
  <2>1. /\ job["deletion"] = <<>> /\ UNCHANGED <<written, dropped>>
        /\ TakeText("deletion",
                    IF Messages = <<>> THEN <<Flush>> ELSE <<Flush, Flush>>)
    BY <1>5 DEF DeleteSession, LInv, Idle
  <2> QED
    BY <2>1, Callees, FlushesOrdered
<1>6. ASSUME UNCHANGED <<written, dropped, job, buffer, flight, mixed>>
      PROVE  NInv'
  BY <1>6, RestOrdered DEF Pipeline
<1>7. ASSUME NEW k \in Calls,
             \/ CreateRun(k) \/ StartRun(k) \/ CompleteRun(k) \/ EmitEvent(k)
             \/ ReturnClosed(k) \/ \E q \in Requests : YieldDelta(k, q)
      PROVE  UNCHANGED <<written, dropped, job, buffer, flight, mixed>>
  BY <1>7 DEF CreateRun, StartRun, CompleteRun, EmitEvent, ReturnClosed,
       YieldDelta, ledgerVars, writerVars, historyVars
<1>8. ASSUME \/ CancelListed \/ DeleteRuns \/ Activate \/ CancelRun
             \/ SendFromRenderer \/ RequestIntent
             \/ \E p \in Polls : PollStep(p)
             \/ UNCHANGED vars
      PROVE  UNCHANGED <<written, dropped, job, buffer, flight, mixed>>
  BY <1>8 DEF CancelListed, DeleteRuns, Activate, CancelRun, SendFromRenderer,
       RequestIntent, PollStep, ListIntents, TakeIntent, ClaimIntent,
       ledgerVars, writerVars, historyVars, vars
<1> QED
  BY <1>1, <1>2, <1>3, <1>4, <1>5, <1>6, <1>7, <1>8
     DEF Next, Resume, Task, CallStep

\* An event that closes a piece of text is written behind all text streamed
\* before it, and messages in the order of their text, unless one flush took
\* the text of several requests (DesignRunLedgerWriter.append and
\* flushAssistantMessages).
THEOREM DesignTextBeforeEvents == Spec => []TextBeforeEvents
<1>1. Init => NInv
  <2>1. Init => Pipeline = <<>> /\ \A c \in Callers : job[c] = <<>>
    BY DEF Init, Pipeline, NoFlight
  <2>2. Len(<<>>) = 0
    OBVIOUS
  <2> QED
    BY <2>1, <2>2, DeltasNone DEF NInv, Ordered, HeldFits
<1>2. LInv /\ NInv /\ [Next]_vars => NInv'
  BY OrderStep
<1>3. LInv /\ NInv => TextBeforeEvents
  <2> SUFFICES ASSUME LInv, NInv, ~mixed, NEW i \in DOMAIN Pipeline
               PROVE  Fits(Pipeline[i],
                           written \union dropped
                             \union Deltas(SubSeq(Pipeline, 1, i - 1)))
    BY DEF TextBeforeEvents, Fits
  <2>1. Pipeline \in Seq(Item)
    BY PipelineTyped DEF LInv
  <2>2. i \in 1..Len(Pipeline)
    BY <2>1
  <2>3. Fits(Pipeline[i], Gone \union Before(Pipeline, i))
    BY <2>2 DEF NInv, Ordered
  <2> QED
    BY <2>1, <2>2, <2>3, BeforeIsAhead DEF Gone
<1> QED
  BY LedgerAlways, <1>1, <1>2, <1>3, PTL DEF Spec

------------------------------------------------------------------------------
\* The status once all that goes to the log, and then what a caller holds, is
\* written
Reached == Patched(record, Pipeline)
Outcome(c) == Patched(Reached, job[c])

LEMMA TellingJoined ==
  ASSUME NEW s \in Seq(Item), NEW u \in Seq(Item), Telling(s) = {}, Telling(u) = {}
  PROVE  Telling(s \o u) = {}
<1> DEFINE t == s \o u
<1>1. /\ DOMAIN t = 1..Len(t) /\ DOMAIN s = 1..Len(s) /\ DOMAIN u = 1..Len(u)
      /\ \A i \in 1..Len(s) : t[i] = s[i]
      /\ \A i \in 1..Len(t) : i \notin 1..Len(s) => /\ i - Len(s) \in 1..Len(u)
                                                     /\ t[i] = u[i - Len(s)]
  OBVIOUS
<1> HIDE DEF t
<1>2. \A i \in 1..Len(t) : t[i].type \notin DOMAIN StatusAfter
  BY <1>1 DEF Telling
<1> QED
  BY <1>1, <1>2 DEF Telling, t

LEMMA TellingTail ==
  ASSUME NEW s \in Seq(Item), s # <<>>, Telling(s) = {}
  PROVE  Head(s).type \notin DOMAIN StatusAfter /\ Telling(Tail(s)) = {}
<1> DEFINE t == Tail(s)
<1>1. /\ Head(s) = s[1] /\ 1 \in DOMAIN s /\ DOMAIN t = 1..Len(t)
      /\ \A i \in 1..Len(t) : t[i] = s[i + 1] /\ i + 1 \in DOMAIN s
  OBVIOUS
<1> HIDE DEF t
<1> QED
  BY <1>1 DEF Telling, t

LEMMA MessagesUntelling ==
  ASSUME TInv, Located
  PROVE  Messages \in Seq(Item) /\ Telling(Messages) = {}
<1>1. /\ Messages \in Seq(Item)
      /\ \A i \in 1..Len(Messages) : Messages[i] = Message(Streaming[i])
  BY MessagesHold DEF TInv, Located
<1>2. \A i \in 1..Len(Messages) : Messages[i].type = "assistant_message"
  <2>1. \A q : Message(q).type = "assistant_message"
    BY DEF Message
  <2> QED
    BY <1>1, <2>1
<1>3. "assistant_message" \notin DOMAIN StatusAfter
  BY DEF StatusAfter
<1>4. DOMAIN Messages = 1..Len(Messages)
  BY <1>1
<1> QED
  BY <1>1, <1>2, <1>3, <1>4 DEF Telling

LEMMA FlushUntelling ==
  /\ Flush \in Item /\ Flush.type \notin DOMAIN StatusAfter
  /\ <<Flush>> \in Seq(Item) /\ <<Flush, Flush>> \in Seq(Item)
  /\ Telling(<<Flush>>) = {} /\ Telling(<<Flush, Flush>>) = {}
<1>1. Flush \in Item /\ Flush.type = "flush" /\ "flush" \notin DOMAIN StatusAfter
  BY DEF Flush, Item, StatusAfter
<1>2. <<Flush>> \in Seq(Item) /\ <<Flush, Flush>> \in Seq(Item)
  BY <1>1
<1>3. /\ \A i \in DOMAIN <<Flush>> : <<Flush>>[i] = Flush
      /\ \A i \in DOMAIN <<Flush, Flush>> : <<Flush, Flush>>[i] = Flush
  OBVIOUS
<1> QED
  BY <1>1, <1>2, <1>3 DEF Telling

\* Handing an item on does not change where its caller's items lead; it changes
\* where those of the others lead only if it tells of the status.
LEMMA HandOutcome ==
  ASSUME TInv, NEW c \in Callers, NEW items \in Seq(Item), items # <<>>,
         Hand(c, items), UNCHANGED record
  PROVE  /\ Outcome(c)' = Patched(Reached, items)
         /\ Head(items).type \notin DOMAIN StatusAfter =>
              \A b \in Callers : b # c => Outcome(b)' = Outcome(b)
<1> DEFINE item == Head(items)
           rest == Tail(items)
<1>1. item \in Item /\ rest \in Seq(Item)
  BY DeltasSplit
<1>2. /\ job' = [job EXCEPT ![c] = rest]
      /\ Pipeline' = Pipeline \o Sent(item)
  BY HandSound
<1>3. items = <<item>> \o rest /\ <<item>> \in Seq(Item)
  OBVIOUS
<1>4. job'[c] = rest /\ \A b \in Callers : b # c => job'[b] = job[b]
  BY <1>2 DEF TInv
<1> HIDE DEF item, rest
<1>5. Pipeline \in Seq(Item) /\ Sent(item) \in Seq(Item)
  BY <1>1, PipelineTyped, SentLetters
<1>6. Reached' = Patched(Reached, Sent(item))
  <2>1. Patched(record, Pipeline \o Sent(item)) = Patched(Reached, Sent(item))
    BY <1>5, PatchedJoined DEF Reached
  <2>2. Reached' = Patched(record', Pipeline')
    BY DEF Reached, Patched
  <2> QED
    BY <1>2, <2>1, <2>2
<1>7. Patched(Reached, Sent(item)) = Patched(Reached, <<item>>)
  <2>1. CASE item = Flush
    <3>1. Sent(item) = <<>> /\ Telling(<<>>) = {} /\ Telling(<<item>>) = {}
      BY <2>1, FlushUntelling DEF Sent, Telling
    <3> QED
      BY <3>1, PatchedSame
  <2>2. CASE item # Flush
    BY <2>2 DEF Sent
  <2> QED
    BY <2>1, <2>2
<1>8. Outcome(c)' = Patched(Reached', rest)
  BY <1>4 DEF Outcome, Patched
<1>9. Patched(Reached, items) = Patched(Patched(Reached, <<item>>), rest)
  BY <1>1, <1>3, PatchedJoined
<1>10. ASSUME item.type \notin DOMAIN StatusAfter, NEW b \in Callers, b # c
       PROVE  Outcome(b)' = Outcome(b)
  <2>1. Reached' = Reached
    BY <1>1, <1>6, <1>7, <1>10, PatchedOne
  <2>2. Outcome(b)' = Patched(Reached', job'[b])
    BY DEF Outcome, Patched
  <2> QED
    BY <1>4, <1>10, <2>1, <2>2 DEF Outcome
<1> QED
  BY <1>6, <1>7, <1>8, <1>9, <1>10 DEF item

\* Readers and the deletion append nothing that tells of the status.
Quiet == Telling(job["console"]) = {} /\ Telling(job["deletion"]) = {}

\* A call whose loop has not begun has no outcome.
Fresh ==
  \A k \in Calls : calls[k].at \in {"unused", "creating", "activating"}
                     => calls[k].said # "over"

\* What the only call has told leads to the status the store has, or will have
\* when the call goes on.
Terminals == {"run_completed", "run_failed", "run_cancelled"}
Told(k) == calls[k].event \in Terminals
Saying(k) == \/ calls[k].at = "closing"
             \/ calls[k].at \in {"saving", "running"} /\ calls[k].said = "over"
Lasts(k) ==
  /\ Saying(k) => Told(k) /\ Outcome(k) = StatusAfter[calls[k].event]
  /\ calls[k].at = "done" => store = Outcome(k)
SInv ==
  /\ Quiet /\ Fresh
  /\ \A k \in Calls : Started = {k} /\ deletion = "none" => Lasts(k)

LEMMA AbortedSame ==
  ASSUME IInv, NEW k \in Calls
  PROVE  /\ Aborted[k].at = calls[k].at /\ Aborted[k].said = calls[k].said
         /\ Aborted[k].event = calls[k].event
<1>1. CASE activeRun = k
  <2>1. Aborted = [calls EXCEPT ![k].aborted = TRUE]
    BY <1>1, DesignAssumption DEF Aborted
  <2> QED
    BY <2>1 DEF IInv, Call
<1>2. CASE activeRun # k
  <2>1. Aborted[k] = calls[k]
    BY <1>2, AbortedCalls
  <2> QED
    BY <2>1
<1> QED
  BY <1>1, <1>2

LEMMA TakeQuiet ==
  ASSUME LInv, Quiet, NEW c \in Callers, NEW items \in Seq(Item), items # <<>>,
         job[c] = <<>>, TakeText(c, items), UNCHANGED record,
         c \in {"console", "deletion"} => Telling(items) = {}
  PROVE  Quiet'
<1>1. TInv /\ Located
  BY DEF LInv
<1>2. Messages \in Seq(Item) /\ Telling(Messages) = {}
  BY <1>1, MessagesUntelling
<1> DEFINE all == Messages \o items
<1>3. all \in Seq(Item) /\ all # <<>>
  BY <1>2
<1>4. c \in {"console", "deletion"} => Telling(all) = {}
  BY <1>2, TellingJoined
<1>5. Hand(c, all)
  BY DEF TakeText
<1> HIDE DEF all
<1>6. job' = [job EXCEPT ![c] = Tail(all)]
  BY <1>1, <1>3, <1>5, HandSound
<1>7. c \in {"console", "deletion"} => Telling(Tail(all)) = {}
  BY <1>3, <1>4, TellingTail
<1>8. job'[c] = Tail(all) /\ \A b \in Callers : b # c => job'[b] = job[b]
  BY <1>1, <1>6 DEF TInv
<1> QED
  BY <1>7, <1>8, Callees DEF Quiet, Telling

\* A take by a reader leads nobody's items elsewhere.
LEMMA TakeOutcome ==
  ASSUME LInv, NEW c \in Callers, NEW items \in Seq(Item), items # <<>>,
         TakeText(c, items), UNCHANGED record
  PROVE  /\ Outcome(c)' = Patched(Reached, items)
         /\ Telling(items) = {} =>
              \A b \in Callers : b # c => Outcome(b)' = Outcome(b)
<1>1. TInv /\ Located
  BY DEF LInv
<1>2. Messages \in Seq(Item) /\ Telling(Messages) = {}
  BY <1>1, MessagesUntelling
<1> DEFINE all == Messages \o items
<1>3. all \in Seq(Item) /\ all # <<>>
  BY <1>2
<1>4. Telling(items) = {} => Telling(all) = {}
  BY <1>2, TellingJoined
<1>5. Patched(Reached, all) = Patched(Reached, items)
  BY <1>2, PatchedJoined, PatchedSame
<1>6. Hand(c, all)
  BY DEF TakeText
<1> HIDE DEF all
<1>7. /\ Outcome(c)' = Patched(Reached, all)
      /\ Head(all).type \notin DOMAIN StatusAfter =>
           \A b \in Callers : b # c => Outcome(b)' = Outcome(b)
  BY <1>1, <1>3, <1>6, HandOutcome
<1>8. Telling(items) = {} => Head(all).type \notin DOMAIN StatusAfter
  BY <1>3, <1>4, TellingTail
<1> QED
  BY <1>5, <1>7, <1>8

LEMMA AppendQuiet ==
  ASSUME LInv, Quiet, NEW k \in Calls, job[k] = <<>>, NEW type \in Types,
         AppendEvent(k, type), UNCHANGED record
  PROVE  /\ Quiet'
         /\ type \in Terminals => Outcome(k)' = StatusAfter[type]
<1>0. k \in Callers /\ k \notin {"console", "deletion"} /\ TInv /\ heard \in Nat
  BY Callees DEF LInv, TInv
<1>1. CASE type \in Boundary
  <2> DEFINE event == Event(type, heard)
             items == <<event>>
  <2>1. event \in Item /\ event.type = type
    BY <1>0 DEF Event, Item, Letter
  <2> HIDE DEF event
  <2>2. items \in Seq(Item) /\ items # <<>>
    BY <2>1
  <2>3. TakeText(k, items)
    BY <1>1 DEF AppendEvent, event
  <2>4. Patched(Reached, items) = IF event.type \in DOMAIN StatusAfter
                                  THEN StatusAfter[event.type] ELSE Reached
    BY <2>1, PatchedOne
  <2> HIDE DEF items
  <2>5. Quiet'
    BY <1>0, <2>2, <2>3, TakeQuiet
  <2>6. Outcome(k)' = Patched(Reached, items)
    BY <1>0, <2>2, <2>3, TakeOutcome
  <2>7. type \in Terminals => type \in DOMAIN StatusAfter
    BY DEF Terminals, StatusAfter
  <2> QED
    BY <2>1, <2>4, <2>5, <2>6, <2>7
<1>2. CASE type \notin Boundary
  <2> DEFINE items == <<Event(type, 0)>>
  <2>1. Event(type, 0) \in Item
    BY DEF Event, Item, Letter
  <2>2. items \in Seq(Item) /\ items # <<>>
    BY <2>1
  <2>3. Hand(k, items)
    BY <1>2 DEF AppendEvent
  <2> HIDE DEF items
  <2>4. job' = [job EXCEPT ![k] = Tail(items)]
    BY <1>0, <2>2, <2>3, HandSound
  <2>5. Quiet'
    BY <1>0, <2>4, Callees DEF Quiet, Telling, TInv
  <2>6. type \notin Terminals
    BY <1>2 DEF Boundary, Terminals
  <2> QED
    BY <2>5, <2>6
<1> QED
  BY <1>1, <1>2

\* A step that leaves the call, the store and where its items lead alone
LEMMA RestLasts ==
  ASSUME SInv, UNCHANGED <<store, deletion>>, Quiet',
         \A k \in Calls : /\ calls'[k].at = calls[k].at
                          /\ calls'[k].said = calls[k].said
                          /\ calls'[k].event = calls[k].event,
         deletion = "none" =>
           \A k \in Calls : Started = {k} => UNCHANGED Outcome(k)
  PROVE  SInv'
<1>1. Fresh'
  BY DEF SInv, Fresh
<1>2. Started' = Started
  BY DEF Started
<1>3. ASSUME NEW k \in Calls, Started = {k}, deletion = "none"
      PROVE  Lasts(k)'
  <2>1. Lasts(k) /\ Outcome(k)' = Outcome(k)
    BY <1>3 DEF SInv
  <2>2. /\ Saying(k)' <=> Saying(k)
        /\ Told(k)' <=> Told(k)
    BY DEF Saying, Told
  <2> QED
    BY <2>1, <2>2 DEF Lasts
<1> QED
  BY <1>1, <1>2, <1>3 DEF SInv

LEMMA KeepsOutcome ==
  ASSUME UNCHANGED <<record, job, buffer, flight>>, Quiet
  PROVE  Quiet' /\ \A c : UNCHANGED Outcome(c)
<1>1. Reached' = Reached
  BY DEF Reached, Patched, Pipeline
<1> QED
  BY <1>1 DEF Quiet, Telling, Outcome, Patched

LEMMA GoOnLasts ==
  ASSUME LInv, SInv, NEW c \in Callers, GoOn(c)
  PROVE  SInv'
<1>1. /\ Hand(c, job[c]) /\ job[c] # <<>> /\ job[c] \in Seq(Item) /\ TInv
      /\ UNCHANGED <<record, store, calls, deletion>>
  BY DEF GoOn, runVars, clientVars, LInv, TInv
<1>2. job' = [job EXCEPT ![c] = Tail(job[c])]
  BY <1>1, HandSound
<1>3. job'[c] = Tail(job[c]) /\ \A b \in Callers : b # c => job'[b] = job[b]
  BY <1>1, <1>2 DEF TInv
<1>4. c \in {"console", "deletion"} => /\ Telling(Tail(job[c])) = {}
                                        /\ Head(job[c]).type \notin DOMAIN StatusAfter
  BY <1>1, TellingTail DEF SInv, Quiet
<1>5. Quiet'
  BY <1>3, <1>4, Callees DEF SInv, Quiet, Telling
<1>6. /\ Outcome(c)' = Outcome(c)
      /\ Head(job[c]).type \notin DOMAIN StatusAfter =>
           \A b \in Callers : b # c => Outcome(b)' = Outcome(b)
  <2>1. Outcome(c)' = Patched(Reached, job[c])
    BY <1>1, HandOutcome
  <2> QED
    BY <1>1, <2>1, HandOutcome DEF Outcome
<1>7. ASSUME NEW k \in Calls, Started = {k}
      PROVE  Outcome(k)' = Outcome(k)
  <2>1. CASE c = k
    BY <1>6, <2>1
  <2>2. CASE c \in {"console", "deletion"}
    BY <1>4, <1>6, <2>2, Callees
  <2>3. CASE c \in Calls /\ c # k
    <3>1. calls[c].at = "unused"
      BY <1>7, <2>3 DEF Started
    <3> QED
      BY <1>1, <2>3, <3>1 DEF LInv, Idle
  <2> QED
    BY <2>1, <2>2, <2>3 DEF Callers
<1> QED
  BY <1>1, <1>5, <1>7, RestLasts

LEMMA WriterLasts ==
  ASSUME LInv, SInv, WriterStep
  PROVE  SInv'
<1>0. TInv /\ Located /\ Distinct /\ UNCHANGED <<calls, store>>
  BY DEF LInv, WriterStep, WriteBatch, EndFlush, RejectBatch, FlushTimer, runVars
<1>1. CASE WriteBatch
  <2>1. /\ record' = Patched(record, flight.batch) /\ flight.at = "writing"
        /\ flight'.at = "publishing" /\ UNCHANGED <<job, buffer, deletion>>
    BY <1>0, <1>1 DEF WriteBatch, clientVars, TInv
  <2>2. /\ flight.batch \in Seq(Item) /\ buffer \in Seq(Item)
        /\ Pipeline = flight.batch \o buffer /\ Pipeline' = <<>> \o buffer
    BY <1>0, <2>1, LettersAreItems DEF TInv, Pipeline
  <2>3. Pipeline' = buffer
    BY <2>2
  <2>4. Reached' = Patched(record', Pipeline')
    BY DEF Reached, Patched
  <2>5. Reached' = Reached
    BY <2>1, <2>2, <2>3, <2>4, PatchedJoined DEF Reached
  <2>6. \A k : UNCHANGED Outcome(k)
    BY <2>1, <2>5 DEF Outcome, Patched
  <2>7. Quiet'
    BY <2>1 DEF SInv, Quiet, Telling
  <2> QED
    BY <1>0, <2>1, <2>6, <2>7, RestLasts
<1>2. CASE EndFlush \/ FlushTimer
  <2>1. UNCHANGED <<record, job, deletion>>
    BY <1>2 DEF EndFlush, FlushTimer, clientVars
  <2>2. Pipeline' = Pipeline
    <3>1. CASE EndFlush
      BY <3>1 DEF EndFlush, Settle, NoFlight, Pipeline
    <3>2. CASE FlushTimer
      <4>1. flight = NoFlight /\ flight' = Writing(buffer) /\ buffer' = <<>>
        BY <3>2 DEF FlushTimer
      <4>2. buffer \in Seq(Letter)
        BY <1>0 DEF TInv
      <4> QED
        BY <4>1, <4>2 DEF Pipeline, NoFlight, Writing
    <3> QED
      BY <1>2, <3>1, <3>2
  <2>3. Reached' = Reached
    BY <2>1, <2>2 DEF Reached, Patched
  <2>4. \A k : UNCHANGED Outcome(k)
    BY <2>1, <2>3 DEF Outcome, Patched
  <2>5. Quiet'
    BY <2>1 DEF SInv, Quiet, Telling
  <2> QED
    BY <1>0, <2>1, <2>4, <2>5, RestLasts
<1>3. CASE RejectBatch
  <2>1. /\ record = "absent"
        /\ \A c \in Callers : job'[c] = <<>> \/ job'[c] = job[c]
        /\ deletion' = deletion \/ deletion' = "done"
    BY <1>0, <1>3, RejectSound DEF RejectBatch, Present
  <2>2. Quiet'
    <3>1. Telling(<<>>) = {}
      BY DEF Telling
    <3>2. "console" \in Callers /\ "deletion" \in Callers
      BY Callees
    <3>3. Telling(job'["console"]) = {} /\ Telling(job'["deletion"]) = {}
      BY <2>1, <3>1, <3>2 DEF SInv, Quiet
    <3> QED
      BY <3>3 DEF Quiet, Telling
  <2>3. Fresh' /\ Started' = Started
    BY <1>0 DEF SInv, Fresh, Started
  <2>4. ASSUME NEW k \in Calls, deletion' = "none"
        PROVE  Lasts(k)'
    <3>1. calls[k].at \in {"unused", "creating"}
      BY <2>1, <2>4 DEF LInv, Unborn
    <3> QED
      BY <1>0, <3>1 DEF Lasts, Saying
  <2> QED
    BY <2>2, <2>3, <2>4 DEF SInv
<1> QED
  BY <1>1, <1>2, <1>3 DEF WriterStep

\* A call that moves on: its own outcome is where its items lead.
LEMMA MoveLasts ==
  ASSUME SInv, Quiet', NEW k \in Calls, calls' \in [Calls -> Call],
         \A j \in Calls : j # k => /\ calls'[j].at = calls[j].at
                                   /\ calls'[j].said = calls[j].said,
         calls'[k].at # "unused", UNCHANGED deletion,
         calls'[k].at \in {"creating", "activating"} => calls'[k].said # "over",
         Started \subseteq {k} /\ deletion = "none" => Lasts(k)'
  PROVE  SInv'
<1>1. Fresh'
  BY DEF SInv, Fresh
<1>2. k \in Started' /\ Started \subseteq Started' \union {k}
  BY DEF Started
<1>3. ASSUME NEW j \in Calls, Started' = {j}, deletion' = "none"
      PROVE  Lasts(j)'
  BY <1>2, <1>3
<1> QED
  BY <1>1, <1>3 DEF SInv

LEMMA CallLasts ==
  ASSUME LInv, IInv', SInv, NEW k \in Calls,
         \/ CallStep(k) \/ YieldEvent(k) \/ EmitEvent(k) \/ ReturnClosed(k)
         \/ \E q \in Requests : YieldDelta(k, q)
  PROVE  SInv'
<1>0. /\ calls \in [Calls -> Call] /\ calls' \in [Calls -> Call] /\ Quiet /\ IInv
      /\ Started \subseteq {k} /\ calls[k].at # "unused" => Started = {k}
  BY DEF LInv, IInv, SInv, Started
<1>1. CASE CreateRun(k)
  <2>1. /\ calls[k].at = "creating" /\ calls' = [calls EXCEPT ![k].at = "activating"]
        /\ UNCHANGED <<job, deletion>>
    BY <1>1 DEF CreateRun, writerVars, clientVars
  <2>2. /\ calls'[k].at = "activating" /\ calls'[k].said = calls[k].said
        /\ \A j \in Calls : j # k => calls'[j] = calls[j]
    BY <1>0, <2>1 DEF Call
  <2>3. Quiet' /\ calls'[k].said # "over"
    BY <2>1, <2>2 DEF SInv, Quiet, Telling, Fresh
  <2>4. Lasts(k)'
    BY <2>2, <2>3 DEF Lasts, Saying
  <2> QED
    BY <1>0, <2>1, <2>2, <2>3, <2>4, MoveLasts
<1>2. CASE StartRun(k)
  <2>1. /\ calls[k].at = "activating" /\ calls' = [Aborted EXCEPT ![k].at = "running"]
        /\ UNCHANGED <<job, deletion>>
    BY <1>2 DEF StartRun, ledgerVars, writerVars, clientVars
  <2>2. /\ calls'[k].at = "running" /\ calls'[k].said = calls[k].said
        /\ \A j \in Calls : j # k => calls'[j] = Aborted[j]
    <3>1. Aborted \in [Calls -> Call] /\ Aborted[k].said = calls[k].said
      BY <1>0, AbortedCalls, AbortedSame
    <3> QED
      BY <2>1, <3>1 DEF Call
  <2>3. \A j \in Calls : j # k => /\ calls'[j].at = calls[j].at
                                  /\ calls'[j].said = calls[j].said
    BY <1>0, <2>2, AbortedSame
  <2>4. Quiet' /\ calls'[k].said # "over"
    BY <2>1, <2>2 DEF SInv, Quiet, Telling, Fresh
  <2>5. Lasts(k)'
    BY <2>2, <2>4 DEF Lasts, Saying
  <2> QED
    BY <1>0, <2>1, <2>2, <2>3, <2>4, <2>5, MoveLasts
<1>3. CASE CloseRun(k)
  <2>1. PICK type \in {"run_cancelled", "run_failed"} :
          /\ calls' = [calls EXCEPT ![k].at = "closing", ![k].event = type]
          /\ AppendEvent(k, type)
    BY <1>3 DEF CloseRun
  <2>2. calls[k].at = "running" /\ UNCHANGED <<record, deletion>>
    BY <1>3 DEF CloseRun, clientVars
  <2>3. /\ calls'[k].at = "closing" /\ calls'[k].event = type
        /\ \A j \in Calls : j # k => calls'[j] = calls[j]
    BY <1>0, <2>1 DEF Call
  <2>4. type \in Types /\ type \in Terminals
    BY DEF Types, EventTypes, Terminals
  <2>5. job[k] = <<>>
    BY <2>2 DEF LInv, Idle
  <2>6. Quiet' /\ Outcome(k)' = StatusAfter[type]
    BY <1>0, <2>1, <2>2, <2>4, <2>5, AppendQuiet
  <2>7. Lasts(k)'
    BY <2>3, <2>4, <2>6 DEF Lasts, Saying, Told
  <2> QED
    BY <1>0, <2>2, <2>3, <2>6, <2>7, MoveLasts
<1>4. CASE CompleteRun(k)
  <2>1. /\ calls[k].at = "running" /\ calls[k].said = "over"
        /\ calls' = [calls EXCEPT ![k].at = "done"]
        /\ store' = StoreAfter(calls[k].event)
        /\ UNCHANGED <<record, job, buffer, flight, deletion>>
    BY <1>4 DEF CompleteRun, ledgerVars, writerVars, clientVars
  <2>2. /\ calls'[k].at = "done"
        /\ \A j \in Calls : j # k => calls'[j] = calls[j]
    BY <1>0, <2>1 DEF Call
  <2>3. Quiet' /\ Outcome(k)' = Outcome(k)
    BY <1>0, <2>1, KeepsOutcome
  <2>4. ASSUME Started \subseteq {k}, deletion = "none"
        PROVE  Lasts(k)'
    <3>1. Told(k) /\ Outcome(k) = StatusAfter[calls[k].event]
      BY <1>0, <2>1, <2>4 DEF SInv, Lasts, Saying
    <3>2. store' = Outcome(k)
      BY <2>1, <3>1 DEF StoreAfter, Told, Terminals
    <3> QED
      BY <2>2, <2>3, <3>2 DEF Lasts, Saying
  <2> QED
    BY <1>0, <2>1, <2>2, <2>3, <2>4, MoveLasts
<1>5. CASE YieldEvent(k)
  <2>1. PICK type \in Types, said \in {"started", "over"} :
          /\ calls' = [calls EXCEPT ![k].at = "saving", ![k].said = said,
                                    ![k].event = type]
          /\ AppendEvent(k, type)
          /\ said = "over" => type \in Terminals
    BY <1>5 DEF YieldEvent, Save, Types, EventTypes, Terminals
  <2>2. calls[k].at = "running" /\ UNCHANGED <<record, deletion>>
    BY <1>5 DEF YieldEvent, clientVars
  <2>3. /\ calls'[k].at = "saving" /\ calls'[k].event = type
        /\ calls'[k].said = said
        /\ \A j \in Calls : j # k => calls'[j] = calls[j]
    BY <1>0, <2>1 DEF Call
  <2>4. job[k] = <<>>
    BY <2>2 DEF LInv, Idle
  <2>5. Quiet' /\ (type \in Terminals => Outcome(k)' = StatusAfter[type])
    BY <1>0, <2>1, <2>2, <2>4, AppendQuiet
  <2>6. Lasts(k)'
    BY <2>1, <2>3, <2>5 DEF Lasts, Saying, Told
  <2> QED
    BY <1>0, <2>2, <2>3, <2>5, <2>6, MoveLasts
<1>6. CASE EmitEvent(k)
  <2>1. /\ calls[k].at = "saving" /\ calls' = [calls EXCEPT ![k].at = "running"]
        /\ UNCHANGED <<record, job, buffer, flight, deletion>>
    BY <1>6 DEF EmitEvent, clientVars
  <2>2. /\ calls'[k].at = "running" /\ calls'[k].said = calls[k].said
        /\ calls'[k].event = calls[k].event
        /\ \A j \in Calls : j # k => calls'[j] = calls[j]
    BY <1>0, <2>1 DEF Call
  <2>3. Quiet' /\ Outcome(k)' = Outcome(k)
    BY <1>0, <2>1, KeepsOutcome
  <2>4. ASSUME Started \subseteq {k}, deletion = "none"
        PROVE  Lasts(k)'
    <3>1. Lasts(k)
      BY <1>0, <2>1, <2>4 DEF SInv
    <3> QED
      BY <2>1, <2>2, <2>3, <3>1 DEF Lasts, Saying, Told
  <2> QED
    BY <1>0, <2>1, <2>2, <2>3, <2>4, MoveLasts
<1>7. CASE ReturnClosed(k)
  <2>1. /\ calls[k].at = "closing" /\ calls' = [calls EXCEPT ![k].at = "done"]
        /\ store' = StoreAfter(calls[k].event)
        /\ UNCHANGED <<record, job, buffer, flight, deletion>>
    BY <1>7 DEF ReturnClosed, clientVars
  <2>2. /\ calls'[k].at = "done"
        /\ \A j \in Calls : j # k => calls'[j] = calls[j]
    BY <1>0, <2>1 DEF Call
  <2>3. Quiet' /\ Outcome(k)' = Outcome(k)
    BY <1>0, <2>1, KeepsOutcome
  <2>4. ASSUME Started \subseteq {k}, deletion = "none"
        PROVE  Lasts(k)'
    <3>1. Told(k) /\ Outcome(k) = StatusAfter[calls[k].event]
      BY <1>0, <2>1, <2>4 DEF SInv, Lasts, Saying
    <3>2. store' = Outcome(k)
      BY <2>1, <3>1 DEF StoreAfter, Told, Terminals
    <3> QED
      BY <2>2, <2>3, <3>2 DEF Lasts, Saying
  <2> QED
    BY <1>0, <2>1, <2>2, <2>3, <2>4, MoveLasts
<1>8. ASSUME NEW q \in Requests, YieldDelta(k, q)
      PROVE  SInv'
  <2>1. UNCHANGED <<record, job, buffer, flight, calls, store, deletion>>
    BY <1>8 DEF YieldDelta, writerVars, runVars, clientVars
  <2>2. Quiet' /\ \A c : UNCHANGED Outcome(c)
    BY <1>0, <2>1, KeepsOutcome
  <2> QED
    BY <2>1, <2>2, RestLasts
<1> QED
  BY <1>1, <1>2, <1>3, <1>4, <1>5, <1>6, <1>7, <1>8 DEF CallStep

\* While the run is deleted nothing is said of what the store tells.
LEMMA DeletionLasts ==
  ASSUME LInv, SInv, DeleteSession \/ CancelListed \/ DeleteRuns
  PROVE  SInv'
<1>0. TInv /\ IInv /\ Quiet
  BY DEF LInv, SInv
<1>1. deletion' # "none"
  BY DEF DeleteSession, CancelListed, DeleteRuns
<1>2. \A k \in Calls : calls'[k].at = calls[k].at /\ calls'[k].said = calls[k].said
  <2>1. calls' = calls \/ calls' = Aborted
    BY DEF DeleteSession, CancelListed, DeleteRuns, runVars
  <2> QED
    BY <1>0, <2>1, AbortedSame
<1>3. CASE DeleteSession
  <2>1. PICK items \in {<<Flush>>, <<Flush, Flush>>} : TakeText("deletion", items)
    BY <1>3 DEF DeleteSession
  <2>2. items \in Seq(Item) /\ Telling(items) = {}
    BY FlushUntelling
  <2>3. items # <<>> /\ job["deletion"] = <<>> /\ UNCHANGED record
    BY <1>3 DEF DeleteSession, LInv, Idle
  <2>4. Quiet'
    BY <1>0, <2>1, <2>2, <2>3, Callees, TakeQuiet
  <2> QED
    BY <1>1, <1>2, <2>4 DEF SInv, Fresh
<1>4. CASE CancelListed \/ DeleteRuns
  <2>1. UNCHANGED job
    BY <1>4 DEF CancelListed, DeleteRuns, writerVars
  <2>2. Quiet'
    BY <2>1 DEF SInv, Quiet, Telling
  <2> QED
    BY <1>1, <1>2, <2>2 DEF SInv, Fresh
<1> QED
  BY <1>3, <1>4

LEMMA ReadLasts ==
  ASSUME LInv, SInv, ReadRun
  PROVE  SInv'
<1>1. /\ TakeText("console", <<Flush>>) /\ job["console"] = <<>>
      /\ UNCHANGED <<record, calls, store, deletion>>
  BY DEF ReadRun, FlushRun, runVars, clientVars
<1>2. <<Flush>> \in Seq(Item) /\ <<Flush>> # <<>> /\ Telling(<<Flush>>) = {}
  BY FlushUntelling
<1>3. Quiet'
  BY <1>1, <1>2, Callees, TakeQuiet DEF SInv
<1>4. \A k \in Calls : Outcome(k)' = Outcome(k)
  BY <1>1, <1>2, Callees, TakeOutcome
<1> QED
  BY <1>1, <1>3, <1>4, RestLasts

LEMMA OthersLast ==
  ASSUME LInv, IInv', SInv,
         \/ SendFromRenderer \/ CancelRun \/ Activate \/ RequestIntent
         \/ \E p \in Polls : PollStep(p)
         \/ UNCHANGED vars
  PROVE  SInv'
<1>0. IInv /\ Quiet /\ calls \in [Calls -> Call] /\ calls' \in [Calls -> Call]
  BY DEF LInv, IInv, SInv
<1>1. /\ UNCHANGED <<record, job, buffer, flight, store, deletion>>
      /\ Begin \/ calls' = Aborted \/ calls' = calls
  BY DEF SendFromRenderer, CancelRun, Activate, RequestIntent, PollStep,
         ListIntents, TakeIntent, ClaimIntent, vars, ledgerVars, writerVars,
         runVars, clientVars
<1>2. Quiet' /\ \A c : UNCHANGED Outcome(c)
  BY <1>0, <1>1, KeepsOutcome
<1>3. CASE Begin
  <2>1. PICK k \in Calls : /\ calls[k].at = "unused"
                           /\ calls' = [calls EXCEPT ![k].at = "creating"]
    BY <1>3 DEF Begin
  <2>2. /\ calls'[k].at = "creating" /\ calls'[k].said = calls[k].said
        /\ \A j \in Calls : j # k => calls'[j] = calls[j]
    BY <1>0, <2>1 DEF Call
  <2>3. calls'[k].said # "over"
    BY <2>1, <2>2 DEF SInv, Fresh
  <2>4. Lasts(k)'
    BY <2>2 DEF Lasts, Saying
  <2> QED
    BY <1>0, <1>1, <1>2, <2>2, <2>3, <2>4, MoveLasts
<1>4. CASE calls' = Aborted \/ calls' = calls
  <2>1. \A k \in Calls : /\ calls'[k].at = calls[k].at
                         /\ calls'[k].said = calls[k].said
                         /\ calls'[k].event = calls[k].event
    BY <1>0, <1>4, AbortedSame
  <2> QED
    BY <1>1, <1>2, <2>1, RestLasts
<1> QED
  BY <1>1, <1>3, <1>4

LEMMA StoreStep ==
  ASSUME LInv, SInv, [Next]_vars
  PROVE  SInv'
<1>1. IInv'
  BY CallsStep DEF LInv
<1>2. ASSUME NEW k \in Calls,
             \/ CallStep(k) \/ YieldEvent(k) \/ EmitEvent(k) \/ ReturnClosed(k)
             \/ \E q \in Requests : YieldDelta(k, q)
      PROVE  SInv'
  BY <1>1, <1>2, CallLasts
<1>3. ASSUME NEW c \in Callers, GoOn(c)
      PROVE  SInv'
  BY <1>3, GoOnLasts
<1>4. CASE WriterStep
  BY <1>4, WriterLasts
<1>5. CASE ReadRun
  BY <1>5, ReadLasts
<1>6. CASE DeleteSession \/ CancelListed \/ DeleteRuns
  BY <1>6, DeletionLasts
<1>7. CASE \/ SendFromRenderer \/ CancelRun \/ Activate \/ RequestIntent
           \/ \E p \in Polls : PollStep(p)
           \/ UNCHANGED vars
  BY <1>1, <1>7, OthersLast
<1> QED
  BY <1>2, <1>3, <1>4, <1>5, <1>6, <1>7 DEF Next, Resume, Task

\* Once all is written and returned the store shows the outcome the ledger has,
\* whatever cancellation met the end of the run (handleSendAgent, its catch and
\* DesignRunStore; patchForEvent in the ledger).
THEOREM DesignStoreTellsLedger == Spec => []StoreTellsLedger
<1>1. Init => SInv
  <2> SUFFICES ASSUME Init
               PROVE  SInv
    OBVIOUS
  <2>1. Telling(<<>>) = {}
    BY DEF Telling
  <2>2. Quiet
    BY <2>1, Callees DEF Init, Quiet
  <2>3. Fresh /\ Started = {}
    BY DEF Init, Fresh, Unused, Started
  <2> QED
    BY <2>2, <2>3 DEF SInv
<1>2. LInv /\ SInv /\ [Next]_vars => SInv'
  BY StoreStep
<1>3. LInv /\ SInv => StoreTellsLedger
  <2> SUFFICES ASSUME LInv, SInv, NEW k \in Calls, Started = {k},
                      \A j \in Calls : ~Alive(j), Pipeline = <<>>,
                      deletion = "none"
               PROVE  store = record
    BY DEF StoreTellsLedger
  <2>1. calls[k].at = "done" /\ job[k] = <<>>
    BY DEF Started, Alive, LInv, Idle
  <2>2. store = Outcome(k)
    BY <2>1 DEF SInv, Lasts
  <2>3. Telling(<<>>) = {}
    BY DEF Telling
  <2>4. Reached = record /\ Outcome(k) = Reached
    BY <2>1, <2>3, PatchedSame DEF Reached, Outcome
  <2> QED
    BY <2>2, <2>4
<1> QED
  BY LedgerAlways, <1>1, <1>2, <1>3, PTL DEF Spec
=============================================================================
