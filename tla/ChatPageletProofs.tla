-------------------------- MODULE ChatPageletProofs --------------------------
(* What the broker is told of the pagelet's runs, for any runs, overlapping   *)
(* calls and polls, lost calls and deaths of the pagelet: no projection runs  *)
(* ahead of the ledger, and at rest each is the record as it stands.          *)
(*                                                                            *)
(* NeverAhead is not inductive: what a flush or an early publication is       *)
(* about to tell the broker must have been the record as well, and stay so    *)
(* when the record moves on or is deleted. RestsCurrent needs that what is on *)
(* its way is no newer than the record, and that the newest is on its way     *)
(* wherever the broker has not got it (Sound).                                *)
EXTENDS ChatPagelet, WellFoundedInduction, TLAPS

Domains ==
  /\ DOMAIN past = Runs
  /\ DOMAIN early = Runs
  /\ DOMAIN flight = Runs
  /\ DOMAIN projection = Runs

\* All that is being published has been the record of its run.
NewsSound ==
  \A r \in Runs :
    /\ early[r] \subseteq past[r]
    /\ flight[r].at = "sending" => flight[r].news \in past[r]

IInv == Domains /\ NewsSound /\ NeverAhead

\* Steps of the senders, the polls, the handler and the deletion, which publish
\* nothing themselves: they begin flushes at most.
Begins ==
  /\ UNCHANGED <<past, early, projection>>
  /\ DOMAIN flight' = Runs
  /\ \A r \in Runs : flight'[r] = flight[r] \/ flight'[r].at # "sending"

\* Registering a publication keeps every projection one of its run's past.
LEMMA RegisterSound ==
  ASSUME NEW r \in Runs, NEW news, IInv, UNCHANGED past,
         news \in past[r], Register(r, news)
  PROVE  DOMAIN projection' = Runs /\ NeverAhead'
BY DEF IInv, Domains, NeverAhead, Register

\* A flush that settles leaves nothing of it to publish.
LEMMA SettleSound ==
  ASSUME NEW r \in Runs, IInv, UNCHANGED <<past, early>>, Settle(r)
  PROVE  /\ DOMAIN past' = Runs /\ DOMAIN early' = Runs /\ DOMAIN flight' = Runs
         /\ NewsSound'
BY DEF IInv, Domains, NewsSound, Settle, NoFlight

LEMMA BeginsSound ==
  ASSUME IInv, Begins
  PROVE  IInv'
BY DEF IInv, Domains, NewsSound, NeverAhead, Begins

LEMMA AppendBegins ==
  ASSUME NEW r \in Runs, NEW event, Domains, AppendEvent(r, event),
         UNCHANGED <<past, early, projection>>
  PROVE  Begins
BY DEF Domains, AppendEvent, Begins, Writing

\* A publication takes effect, is skipped or is lost.
LEMMA WriterSound ==
  ASSUME NEW r \in Runs, IInv, WriterStep(r)
  PROVE  IInv'
<1>1. CASE WriteBatch(r)
  <2> DEFINE next == Patched(record[r], flight[r].batch)
  <2>1. CASE Found(r)
    <3>1. /\ past' = [past EXCEPT ![r] = @ \union {next}]
          /\ flight' = [flight EXCEPT ![r] = Sending(News(r, next))]
          /\ UNCHANGED <<early, projection>>
      BY <1>1, <2>1 DEF WriteBatch, brokerVars
    <3>2. News(r, next) = next
      BY DEF News, Patched, Record
    <3>3. past'[r] = past[r] \union {next}
      BY <3>1 DEF IInv, Domains
    <3>4. flight'[r].news \in past'[r]
      BY <3>1, <3>2, <3>3 DEF IInv, Domains, Sending
    <3>5. \A q \in Runs \ {r} : past'[q] = past[q] /\ flight'[q] = flight[q]
      BY <3>1 DEF IInv, Domains
    <3> QED
      BY <3>1, <3>3, <3>4, <3>5 DEF IInv, Domains, NewsSound, NeverAhead
  <2>2. CASE ~Found(r)
    <3>1. Settle(r) /\ UNCHANGED <<past, early, projection>>
      BY <1>1, <2>2 DEF WriteBatch, brokerVars
    <3> QED
      BY <3>1, SettleSound DEF IInv, Domains, NeverAhead
  <2> QED
    BY <2>1, <2>2
<1>2. CASE PublishFlush(r)
  <2>1. /\ flight[r].news \in past[r] /\ UNCHANGED <<past, early>>
        /\ Register(r, flight[r].news) /\ Settle(r)
    BY <1>2 DEF PublishFlush, IInv, NewsSound
  <2> QED
    BY <2>1, RegisterSound, SettleSound DEF IInv, Domains
<1>3. CASE SkipFlush(r)
  <2>1. Settle(r) /\ UNCHANGED <<past, early, projection>>
    BY <1>3 DEF SkipFlush, brokerVars
  <2> QED
    BY <2>1, SettleSound DEF IInv, Domains, NeverAhead
<1>4. CASE FlushTimer(r)
  <2>1. Begins
    BY <1>4 DEF FlushTimer, Begins, IInv, Domains, brokerVars, Writing
  <2> QED
    BY <2>1, BeginsSound
<1>5. ASSUME NEW news \in early[r], PublishEarly(r, news)
      PROVE  IInv'
  <2>1. /\ news \in past[r]
        /\ early' = [early EXCEPT ![r] = @ \ {news}]
        /\ UNCHANGED <<past, flight>>
    BY <1>5 DEF PublishEarly, ledgerVars, IInv, NewsSound
  <2>2. DOMAIN early' = Runs /\ NewsSound'
    BY <2>1 DEF IInv, Domains, NewsSound
  <2>3. CASE Register(r, news)
    BY <2>1, <2>2, <2>3, RegisterSound DEF IInv, Domains
  <2>4. CASE UNCHANGED projection
    BY <2>1, <2>2, <2>4 DEF IInv, Domains, NeverAhead
  <2> QED
    BY <1>5, <2>3, <2>4 DEF PublishEarly, brokerVars
<1> QED
  BY <1>1, <1>2, <1>3, <1>4, <1>5 DEF WriterStep

\* handleSend: only createRun says something of the run, and to the ledger too.
LEMMA SendSound ==
  ASSUME NEW r \in Runs, NEW k \in Sends, IInv, SendStep(r, k)
  PROVE  IInv'
<1>1. CASE CreateRun(r, k)
  <2>1. PICK rec : /\ past' = [past EXCEPT ![r] = @ \union {rec}]
                   /\ early' = [early EXCEPT ![r] = @ \union {rec}]
                   /\ UNCHANGED <<flight, projection>>
    BY <1>1 DEF CreateRun, brokerVars
  <2> QED
    BY <2>1 DEF IInv, Domains, NewsSound, NeverAhead
<1>2. CASE YieldEvent(r, k)
  <2>1. PICK event : AppendEvent(r, event) /\ UNCHANGED <<past, early, projection>>
    BY <1>2 DEF YieldEvent, SaveEvent, brokerVars
  <2> QED
    BY <2>1, AppendBegins, BeginsSound DEF IInv
<1>3. CASE CloseSend(r, k)
  <2>1. PICK event : AppendEvent(r, event) /\ UNCHANGED <<past, early, projection>>
    BY <1>3 DEF CloseSend, brokerVars
  <2> QED
    BY <2>1, AppendBegins, BeginsSound DEF IInv
<1>4. CASE EndSend(r, k)
  BY <1>4, BeginsSound DEF EndSend, ledgerVars, brokerVars, Begins, IInv, Domains
<1> QED
  BY <1>1, <1>2, <1>3, <1>4 DEF SendStep

LEMMA CommandSound ==
  ASSUME NEW r \in Runs, IInv, CommandStep(r)
  PROVE  IInv'
<1>1. CASE LogCommand(r)
  <2>1. UNCHANGED <<past, early, projection>>
    BY <1>1 DEF LogCommand, brokerVars
  <2>2. CASE AppendEvent(r, "runtime_log")
    BY <2>1, <2>2, AppendBegins, BeginsSound DEF IInv
  <2>3. CASE UNCHANGED flight
    BY <2>1, <2>3, BeginsSound DEF Begins, IInv, Domains
  <2> QED
    BY <1>1, <2>2, <2>3 DEF LogCommand
<1>2. CASE ApplyCommand(r)
  BY <1>2, BeginsSound DEF ApplyCommand, ledgerVars, brokerVars, Begins, IInv,
                           Domains
<1>3. CASE MarkApplied(r)
  BY <1>3, BeginsSound DEF MarkApplied, ledgerVars, Begins, IInv, Domains
<1> QED
  BY <1>1, <1>2, <1>3 DEF CommandStep

LEMMA PollSound ==
  ASSUME NEW p \in Polls, IInv, PollStep(p)
  PROVE  IInv'
<1>1. UNCHANGED <<ledgerVars, early, projection>>
  BY DEF PollStep, ListIntents, ClaimIntent, SendClaimed, TakeIntent, brokerVars
<1> QED
  BY <1>1, BeginsSound DEF ledgerVars, Begins, IInv, Domains

LEMMA DeletionSound ==
  ASSUME IInv, DeleteSession \/ DeletionStep
  PROVE  IInv'
<1>1. CASE DeleteSession
  <2>1. Begins
    BY <1>1 DEF DeleteSession, brokerVars, Begins, IInv, Domains, Writing
  <2> QED
    BY <2>1, BeginsSound
<1>2. CASE AbortRuns
  BY <1>2, BeginsSound DEF AbortRuns, ledgerVars, brokerVars, Begins, IInv, Domains
<1>3. ASSUME NEW r \in Runs, DeleteRun(r)
      PROVE  IInv'
  BY <1>3, BeginsSound DEF DeleteRun, brokerVars, Begins, IInv, Domains
<1>4. CASE DeleteProjections
  <2>1. UNCHANGED <<past, early, flight>>
    BY <1>4 DEF DeleteProjections, ledgerVars
  <2>2. projection' = [r \in Runs |-> NoRecord] \/ UNCHANGED projection
    BY <1>4 DEF DeleteProjections
  <2> QED
    BY <2>1, <2>2 DEF IInv, Domains, NewsSound, NeverAhead
<1> QED
  BY <1>1, <1>2, <1>3, <1>4 DEF DeletionStep

\* A crash forgets what was being published, a restart publishes what it wrote.
LEMMA ProcessSound ==
  ASSUME IInv, Crash \/ Restart
  PROVE  IInv'
<1>1. CASE Crash
  <2>1. /\ flight' = [r \in Runs |-> NoFlight]
        /\ early' = [r \in Runs |-> {}]
        /\ UNCHANGED <<past, projection>>
    BY <1>1 DEF Crash, brokerVars
  <2> QED
    BY <2>1 DEF IInv, Domains, NewsSound, NeverAhead, NoFlight
<1>2. CASE Restart
  <2> DEFINE active == {r \in Runs : record[r].status \in Unfinished}
             recovered(r) == Record("recovered", record[r].count)
  <2>1. /\ past' = [r \in Runs |-> IF r \in active
                                   THEN past[r] \union {recovered(r)} ELSE past[r]]
        /\ early' = [r \in Runs |-> IF r \in active THEN {recovered(r)} ELSE {}]
        /\ UNCHANGED <<flight, projection>>
    BY <1>2 DEF Restart, brokerVars
  <2> HIDE DEF active, recovered
  <2> QED
    BY <2>1 DEF IInv, Domains, NewsSound, NeverAhead
<1> QED
  BY <1>1, <1>2

\* The broker's projection of a run is one its ledger record has been, whatever
\* is published late, lost or cut off (publishRunProjection).
THEOREM ChatNeverAhead == Spec => []NeverAhead
<1>1. Init => IInv
  BY DEF Init, IInv, Domains, NewsSound, NeverAhead, NoFlight
<1>2. IInv /\ [Next]_vars => IInv'
  <2> SUFFICES ASSUME IInv, [Next]_vars
               PROVE  IInv'
    OBVIOUS
  <2>1. ASSUME NEW r \in Runs, \/ SendFromRenderer(r) \/ Cancel(r)
                               \/ RequestIntent(r) \/ RequestCommand(r)
        PROVE  IInv'
    <3>1. UNCHANGED <<ledgerVars, early, projection>>
      BY <2>1 DEF SendFromRenderer, Cancel, RequestIntent, RequestCommand,
                  brokerVars
    <3> QED
      BY <3>1, BeginsSound DEF ledgerVars, Begins, IInv, Domains
  <2>2. CASE UNCHANGED vars
    BY <2>2, BeginsSound DEF vars, ledgerVars, brokerVars, Begins, IInv, Domains
  <2> QED
    BY <2>1, <2>2, WriterSound, SendSound, CommandSound, PollSound,
       DeletionSound, ProcessSound DEF Next
<1>3. IInv => NeverAhead
  BY DEF IInv
<1> QED
  BY <1>1, <1>2, <1>3, PTL DEF Spec

------------------------------------------------------------------------------
\* A nonempty set of naturals has a least element.
LEMMA LeastNatural ==
  ASSUME NEW T, T \subseteq Nat, T # {}
  PROVE  \E x \in T : \A y \in T : x <= y
<1> DEFINE R == OpToRel(<, Nat)
<1>1. IsWellFoundedOn(R, Nat)
  BY NatLessThanWellFounded
<1>2. \A x, y \in Nat : y < x => <<y, x>> \in R
  BY DEF OpToRel
<1> HIDE DEF R
<1>3. PICK x \in T : \A y \in T : <<y, x>> \notin R
  BY <1>1, WFMin
<1>4. ASSUME NEW y \in T
    PROVE  x <= y
  <2>1. x \in Nat /\ y \in Nat /\ ~(y < x)
    BY <1>2, <1>3
  <2> QED
    BY <2>1
<1> QED
  BY <1>4

\* A nonempty set of numbers up to n has a greatest element.
LEMMA GreatestNatural ==
  ASSUME NEW n \in Nat, NEW T, T \subseteq 1..n, T # {}
  PROVE  \E x \in T : \A y \in T : y <= x
<1> DEFINE U == {k \in Nat : \A y \in T : y <= k}
<1>1. n \in U
  OBVIOUS
<1>2. PICK k \in U : \A m \in U : k <= m
  BY <1>1, LeastNatural
<1>3. CASE k \in T
  BY <1>2, <1>3
<1>4. CASE k \notin T
  <2>1. k # 0
    <3>1. PICK y \in T : y \in 1..n /\ y <= k
      BY <1>2
    <3> QED
      BY <3>1
  <2>2. k - 1 \in Nat /\ ~(k <= k - 1)
    BY <1>2, <2>1
  <2>3. \A y \in T : y <= k - 1
    BY <1>2, <1>4, <2>1
  <2>4. k - 1 \in U
    BY <2>2, <2>3
  <2> QED
    BY <1>2, <2>2, <2>4
<1> QED
  BY <1>3, <1>4

\* What patchForEvent makes of a record and a batch is a record again.
LEMMA PatchedTyped ==
  ASSUME NEW rec \in RecordType, NEW batch \in Seq(Events)
  PROVE  /\ Patched(rec, batch) \in RecordType
         /\ Patched(rec, batch).count = rec.count + Len(batch)
<1> DEFINE telling == {i \in DOMAIN batch : batch[i] # "runtime_log"}
           last == CHOOSE i \in telling : \A j \in telling : j <= i
           status == IF telling = {} THEN rec.status ELSE StatusAfter[batch[last]]
<1>1. status \in Statuses
  <2>1. CASE telling = {}
    BY <2>1 DEF RecordType
  <2>2. CASE telling # {}
    <3>1. \E i \in telling : \A j \in telling : j <= i
      <4>1. Len(batch) \in Nat /\ telling \subseteq 1..Len(batch)
        OBVIOUS
      <4> HIDE DEF telling
      <4> QED
        BY <4>1, <2>2, GreatestNatural
    <3>2. last \in telling
      BY <3>1
    <3>3. batch[last] \in Events \ {"runtime_log"}
      BY <3>2
    <3> QED
      BY <2>2, <3>3 DEF Events, StatusAfter, Statuses, Terminal
  <2> QED
    BY <2>1, <2>2
<1>2. rec.count + Len(batch) \in Nat
  BY DEF RecordType
<1>3. Patched(rec, batch) = Record(status, rec.count + Len(batch))
  BY DEF Patched
<1> HIDE DEF status
<1> QED
  BY <1>1, <1>2, <1>3 DEF Record, RecordType

PollsOK == \A p \in Polls : polls[p].at # "idle" => polls[p].run \in Runs

TInv == TypeOK /\ PollsOK

FlightType == [at : {"none", "writing", "sending"}, batch : Seq(Events),
               news : Told]
Awaits == {"unused", "creating", "running", "saving", "closing", "closed",
           "done", "gone"}
SendType == [at : Awaits,
             aborted : BOOLEAN, said : {"nothing", "started", "over"}]
DeletionType == [at : {"none", "flushing", "deleting", "done"},
                 awaits : SUBSET Runs, doomed : SUBSET Runs]

LEMMA MadeTyped ==
  /\ NoRecord \in Told /\ NoFlight \in FlightType
  /\ \A batch \in Seq(Events) : Writing(batch) \in FlightType
  /\ \A news \in Told : Sending(news) \in FlightType
  /\ Unused \in SendType
BY DEF NoRecord, Record, Told, NoFlight, FlightType, Writing, Sending, Unused,
       SendType, Awaits

LEMMA AppendTyped ==
  ASSUME NEW r \in Runs, NEW event \in Events, TInv, AppendEvent(r, event)
  PROVE  buffer' \in [Runs -> Seq(Events)] /\ flight' \in [Runs -> FlightType]
<1>1. Append(buffer[r], event) \in Seq(Events)
  BY DEF TInv, TypeOK
<1>2. buffer \in [Runs -> Seq(Events)] /\ flight \in [Runs -> FlightType]
  BY DEF TInv, TypeOK, FlightType
<1>3. <<>> \in Seq(Events)
  OBVIOUS
<1> DEFINE pending == Append(buffer[r], event)
<1>4. CASE flight[r].at = "none"
  <2>1. /\ flight' = [flight EXCEPT ![r] = Writing(pending)]
        /\ buffer' = [buffer EXCEPT ![r] = <<>>]
    BY <1>4 DEF AppendEvent
  <2> HIDE DEF pending
  <2>2. Writing(pending) \in FlightType
    BY <1>1, MadeTyped DEF pending
  <2> QED
    BY <1>2, <1>3, <2>1, <2>2
<1>5. CASE flight[r].at # "none"
  <2>1. buffer' = [buffer EXCEPT ![r] = pending] /\ UNCHANGED flight
    BY <1>5 DEF AppendEvent
  <2> QED
    BY <1>1, <1>2, <2>1
<1> QED
  BY <1>4, <1>5

LEMMA SettleTyped ==
  ASSUME NEW r \in Runs, TInv, Settle(r)
  PROVE  /\ flight' \in [Runs -> FlightType]
         /\ sends' \in [Runs -> [Sends -> SendType]]
         /\ handler' \in [Runs -> {"idle", "reading", "logging", "acting",
                                   "marking"}]
         /\ deletion' \in DeletionType
<1>1. flight' \in [Runs -> FlightType]
  BY MadeTyped DEF Settle, TInv, TypeOK, FlightType
<1>2. ASSUME NEW k \in Sends
      PROVE  Resumed(sends[r][k]) \in SendType
  <2> DEFINE was == sends[r][k]
             at == IF was.at = "saving" THEN "running"
                   ELSE IF was.at = "closing" THEN "closed" ELSE was.at
  <2>1. was \in SendType
    BY DEF TInv, TypeOK, SendType, Awaits
  <2>2. at \in {"unused", "creating", "running", "saving", "closing", "closed",
                "done", "gone"}
    BY <2>1 DEF SendType, Awaits
  <2>3. Resumed(was) = [was EXCEPT !.at = at]
    BY DEF Resumed
  <2> HIDE DEF was, at
  <2>4. Resumed(was) \in SendType
    BY <2>1, <2>2, <2>3 DEF SendType, Awaits
  <2> QED
    BY <2>4 DEF was
<1>3. sends' \in [Runs -> [Sends -> SendType]]
  BY <1>2 DEF Settle, TInv, TypeOK, SendType, Awaits
<1>4. deletion' \in DeletionType
  BY DEF Settle, TInv, TypeOK, DeletionType
<1> QED
  BY <1>1, <1>3, <1>4 DEF Settle, TInv, TypeOK

LEMMA RegisterTyped ==
  ASSUME NEW r \in Runs, NEW news \in Told, TInv, Register(r, news)
  PROVE  projection' \in [Runs -> Told] /\ late' \subseteq Runs
BY DEF Register, TInv, TypeOK

LEMMA LoseTyped ==
  ASSUME NEW r \in Runs, TInv, LoseCall(r)
  PROVE  lost' \subseteq Runs /\ losses' \in 0..MaxLost
BY ChatAssumption DEF LoseCall, TInv, TypeOK

LEMMA AbortedTyped ==
  ASSUME TInv, NEW runs
  PROVE  /\ Aborted(runs) \in [Runs -> [Sends -> SendType]]
         /\ Released(runs) \in [Runs -> Sends \union {None}]
<1>1. ASSUME NEW r \in Runs, r \in runs, Controlled(r)
      PROVE  [sends[r] EXCEPT ![activeRuns[r]].aborted = TRUE] \in [Sends -> SendType]
  <2>1. activeRuns[r] \in Sends /\ sends[r][activeRuns[r]] \in SendType
    BY <1>1 DEF Controlled, TInv, TypeOK, SendType, Awaits
  <2>2. [sends[r][activeRuns[r]] EXCEPT !.aborted = TRUE] \in SendType
    BY <2>1 DEF SendType, Awaits
  <2> QED
    BY <2>1, <2>2 DEF TInv, TypeOK, SendType, Awaits
<1>2. \A r \in Runs : sends[r] \in [Sends -> SendType]
  BY DEF TInv, TypeOK, SendType, Awaits
<1> QED
  BY <1>1, <1>2 DEF Aborted, Released, TInv, TypeOK

LEMMA WriterTyped ==
  ASSUME NEW r \in Runs, TInv, WriterStep(r)
  PROVE  TInv'
<1>0. record[r] \in Told /\ (Present(r) => record[r] \in RecordType)
  BY DEF TInv, TypeOK, Told, Present, NoRecord, Record
<1>1. CASE WriteBatch(r)
  <2> DEFINE next == Patched(record[r], flight[r].batch)
  <2>1. CASE Found(r)
    <3>1. next \in RecordType
      BY <1>0, <2>1, PatchedTyped DEF Found, TInv, TypeOK
    <3>2. News(r, next) \in Told
      BY <3>1 DEF News, Record, Told, RecordType
    <3>3. /\ record' = [record EXCEPT ![r] = next]
          /\ past' = [past EXCEPT ![r] = @ \union {next}]
          /\ flight' = [flight EXCEPT ![r] = Sending(News(r, next))]
          /\ UNCHANGED <<sends, handler, deletion, buffer, early, activeRuns,
                         polls, up, brokerVars, historyVars>>
      BY <1>1, <2>1 DEF WriteBatch
    <3>4. Sending(News(r, next)) \in FlightType
      BY <3>2, MadeTyped
    <3> HIDE DEF next
    <3> QED
      BY <3>1, <3>3, <3>4 DEF TInv, TypeOK, PollsOK, brokerVars, historyVars, Told,
                              FlightType
  <2>2. CASE ~Found(r)
    BY <1>1, <2>2, SettleTyped
       DEF WriteBatch, TInv, TypeOK, PollsOK, brokerVars, historyVars, FlightType,
           SendType, Awaits, DeletionType
  <2> QED
    BY <2>1, <2>2
<1>2. CASE PublishFlush(r)
  <2>1. flight[r].news \in Told
    BY DEF TInv, TypeOK
  <2> QED
    BY <1>2, <2>1, SettleTyped, RegisterTyped
       DEF PublishFlush, Register, TInv, TypeOK, PollsOK, FlightType, SendType, Awaits,
           DeletionType
<1>3. CASE SkipFlush(r)
  <2>1. lost' \subseteq Runs /\ losses' \in 0..MaxLost
    BY <1>3, LoseTyped DEF SkipFlush, TInv, TypeOK
  <2> QED
    BY <1>3, <2>1, SettleTyped
       DEF SkipFlush, TInv, TypeOK, PollsOK, brokerVars, FlightType, SendType, Awaits,
           DeletionType
<1>4. CASE FlushTimer(r)
  <2>1. Writing(buffer[r]) \in FlightType
    BY MadeTyped DEF TInv, TypeOK
  <2>2. <<>> \in Seq(Events)
    OBVIOUS
  <2> QED
    BY <1>4, <2>1, <2>2 DEF FlushTimer, TInv, TypeOK, PollsOK, FlightType,
       pageletVars, brokerVars, historyVars
<1>5. ASSUME NEW news \in early[r], PublishEarly(r, news)
      PROVE  TInv'
  <2>1. news \in Told
    BY DEF TInv, TypeOK, Told
  <2>2. CASE Register(r, news) /\ UNCHANGED <<lost, losses>>
    BY <1>5, <2>1, <2>2, RegisterTyped
       DEF PublishEarly, Register, TInv, TypeOK, PollsOK, ledgerVars, pageletVars
  <2>3. CASE LoseCall(r) /\ UNCHANGED <<brokerVars, late>>
    BY <1>5, <2>3, LoseTyped
       DEF PublishEarly, TInv, TypeOK, PollsOK, ledgerVars, pageletVars, brokerVars
  <2> QED
    BY <1>5, <2>2, <2>3 DEF PublishEarly
<1> QED
  BY <1>1, <1>2, <1>3, <1>4, <1>5 DEF WriterStep

\* A call moves to another await, and to what it says next.
LEMMA MovedTyped ==
  ASSUME NEW r \in Runs, NEW k \in Sends, TInv,
         NEW at \in Awaits, NEW said \in {"nothing", "started", "over"}
  PROVE  /\ [sends EXCEPT ![r][k].at = at] \in [Runs -> [Sends -> SendType]]
         /\ [sends EXCEPT ![r][k].at = at, ![r][k].said = said]
              \in [Runs -> [Sends -> SendType]]
<1>1. /\ sends \in [Runs -> [Sends -> SendType]]
      /\ sends[r] \in [Sends -> SendType] /\ sends[r][k] \in SendType
  BY DEF TInv, TypeOK, SendType, Awaits
<1> DEFINE moved == [sends[r][k] EXCEPT !.at = at]
           told == [sends[r][k] EXCEPT !.at = at, !.said = said]
<1>2. moved \in SendType /\ told \in SendType
  BY <1>1 DEF SendType, Awaits
<1>3. [sends EXCEPT ![r][k].at = at] = [sends EXCEPT ![r] = [@ EXCEPT ![k] = moved]]
  BY <1>1
<1>4. [sends EXCEPT ![r][k].at = at, ![r][k].said = said]
        = [sends EXCEPT ![r] = [@ EXCEPT ![k] = told]]
  BY <1>1
<1> HIDE DEF moved, told
<1>5. /\ [sends[r] EXCEPT ![k] = moved] \in [Sends -> SendType]
      /\ [sends[r] EXCEPT ![k] = told] \in [Sends -> SendType]
  BY <1>1, <1>2
<1> QED
  BY <1>1, <1>3, <1>4, <1>5

LEMMA StartTyped ==
  ASSUME NEW r \in Runs, TInv, StartSend(r)
  PROVE  /\ sends' \in [Runs -> [Sends -> SendType]]
         /\ activeRuns' \in [Runs -> Sends \union {None}]
<1>1. PICK k \in Sends :
        /\ sends' = [sends EXCEPT ![r][k].at = "creating"]
        /\ activeRuns' = [activeRuns EXCEPT ![r] = k]
  BY DEF StartSend
<1> QED
  BY <1>1, MovedTyped DEF TInv, TypeOK, Awaits

LEMMA SendTyped ==
  ASSUME NEW r \in Runs, NEW k \in Sends, TInv, SendStep(r, k)
  PROVE  TInv'
<1>1. CASE CreateRun(r, k)
  <2> DEFINE rec == IF Present(r) THEN record[r] ELSE Record("queued", 0)
  <2>1. rec \in RecordType
    BY DEF TInv, TypeOK, Told, Present, NoRecord, Record, RecordType, Statuses
  <2>2. /\ sends' = [sends EXCEPT ![r][k].at = "running"]
        /\ record' = [record EXCEPT ![r] = rec]
        /\ past' = [past EXCEPT ![r] = @ \union {rec}]
        /\ early' = [early EXCEPT ![r] = @ \union {rec}]
        /\ late' \in {late, late \union {r}}
        /\ UNCHANGED <<buffer, flight, activeRuns, polls, handler, deletion, up,
                       brokerVars, dropped, lost, crashes, losses>>
    BY <1>1 DEF CreateRun
  <2>3. sends' \in [Runs -> [Sends -> SendType]]
    BY <2>2, MovedTyped DEF Awaits
  <2> HIDE DEF rec
  <2> QED
    BY <2>1, <2>2, <2>3 DEF TInv, TypeOK, PollsOK, Told, brokerVars, SendType, Awaits
<1>2. CASE YieldEvent(r, k)
  <2>1. PICK event \in Events, said \in {"started", "over"} :
          /\ AppendEvent(r, event)
          /\ sends' = [sends EXCEPT ![r][k].at = "saving", ![r][k].said = said]
    BY <1>2 DEF YieldEvent, SaveEvent, Events
  <2>2. sends' \in [Runs -> [Sends -> SendType]]
    BY <2>1, MovedTyped DEF Awaits
  <2> QED
    BY <1>2, <2>1, <2>2, AppendTyped
       DEF YieldEvent, TInv, TypeOK, PollsOK, brokerVars, historyVars, FlightType,
           SendType, Awaits
<1>3. CASE CloseSend(r, k)
  <2>1. PICK event \in Events : AppendEvent(r, event)
    BY <1>3 DEF CloseSend, Events
  <2>2. sends' \in [Runs -> [Sends -> SendType]]
    BY <1>3, MovedTyped DEF CloseSend, Awaits
  <2> QED
    BY <1>3, <2>1, <2>2, AppendTyped
       DEF CloseSend, TInv, TypeOK, PollsOK, brokerVars, historyVars, FlightType,
           SendType, Awaits
<1>4. CASE EndSend(r, k)
  <2>1. sends' \in [Runs -> [Sends -> SendType]]
    BY <1>4, MovedTyped DEF EndSend, Awaits
  <2> QED
    BY <1>4, <2>1 DEF EndSend, TInv, TypeOK, PollsOK, ledgerVars, brokerVars,
                      historyVars, SendType, Awaits
<1> QED
  BY <1>1, <1>2, <1>3, <1>4 DEF SendStep

LEMMA ClientTyped ==
  ASSUME NEW r \in Runs, TInv,
         \/ SendFromRenderer(r) \/ Cancel(r)
         \/ RequestIntent(r) \/ RequestCommand(r) \/ CommandStep(r)
  PROVE  TInv'
<1>1. CASE SendFromRenderer(r)
  BY <1>1, StartTyped DEF SendFromRenderer, TInv, TypeOK, PollsOK, ledgerVars,
                          brokerVars, historyVars, SendType, Awaits
<1>2. CASE Cancel(r)
  BY <1>2, AbortedTyped DEF Cancel, TInv, TypeOK, PollsOK, ledgerVars, brokerVars,
                            historyVars, SendType, Awaits
<1>3. CASE RequestIntent(r)
  BY <1>3 DEF RequestIntent, TInv, TypeOK, PollsOK, ledgerVars, pageletVars,
              historyVars
<1>4. CASE RequestCommand(r)
  BY <1>4 DEF RequestCommand, TInv, TypeOK, PollsOK, ledgerVars, historyVars
<1>5. CASE LogCommand(r)
  <2>1. "runtime_log" \in Events
    BY DEF Events
  <2>2. CASE Present(r)
    BY <1>5, <2>1, <2>2, AppendTyped
       DEF LogCommand, TInv, TypeOK, PollsOK, brokerVars, historyVars, FlightType
  <2>3. CASE ~Present(r)
    BY <1>5, <2>3 DEF LogCommand, TInv, TypeOK, PollsOK, brokerVars, historyVars
  <2> QED
    BY <2>2, <2>3
<1>6. CASE ApplyCommand(r)
  BY <1>6, AbortedTyped DEF ApplyCommand, TInv, TypeOK, PollsOK, ledgerVars,
                            brokerVars, historyVars, SendType, Awaits
<1>7. CASE MarkApplied(r)
  BY <1>7, LoseTyped DEF MarkApplied, TInv, TypeOK, PollsOK, ledgerVars
<1> QED
  BY <1>1, <1>2, <1>3, <1>4, <1>5, <1>6, <1>7 DEF CommandStep

PollType == [at : {"idle", "claiming", "claimed"}, todo : SUBSET Runs,
             run : Runs \union {None}]

\* A poll that is on its way to a run knows which.
LEMMA PollMoved ==
  ASSUME NEW p \in Polls, TInv, NEW poll \in PollType,
         poll.at # "idle" => poll.run \in Runs,
         polls' = [polls EXCEPT ![p] = poll]
  PROVE  polls' \in [Polls -> PollType] /\ PollsOK'
BY DEF TInv, TypeOK, PollsOK, PollType

LEMMA PollTyped ==
  ASSUME NEW p \in Polls, TInv, PollStep(p)
  PROVE  TInv'
<1>0. polls[p] \in PollType /\ polls \in [Polls -> PollType]
  BY DEF TInv, TypeOK, PollType
<1>1. CASE ListIntents(p)
  BY <1>1 DEF ListIntents, TInv, TypeOK, PollsOK, ledgerVars, brokerVars, historyVars
<1>2. ASSUME NEW r \in polls[p].todo, TakeIntent(p, r)
      PROVE  TInv'
  <2> DEFINE poll == [polls[p] EXCEPT
                        !.todo = @ \ {r},
                        !.at = IF Controlled(r) THEN @ ELSE "claiming",
                        !.run = IF Controlled(r) THEN None ELSE r]
  <2>1. r \in Runs
    BY DEF TInv, TypeOK
  <2>2. poll \in PollType /\ (poll.at # "idle" => poll.run \in Runs)
    BY <1>0, <1>2, <2>1 DEF PollType, TakeIntent
  <2>3. polls' = [polls EXCEPT ![p] = poll]
    BY <1>0, <1>2 DEF TakeIntent
  <2> HIDE DEF poll
  <2>4. polls' \in [Polls -> PollType] /\ PollsOK'
    BY <2>2, <2>3, PollMoved
  <2> QED
    BY <1>2, <2>4 DEF TakeIntent, TInv, TypeOK, PollType, ledgerVars, brokerVars,
                      historyVars
<1>3. CASE ClaimIntent(p)
  <2>1. polls[p].run \in Runs
    BY <1>3 DEF ClaimIntent, TInv, PollsOK
  <2>2. CASE LoseCall(polls[p].run) /\ polls' = [polls EXCEPT ![p] = Resting]
             /\ UNCHANGED intent
    <3>1. Resting \in PollType /\ Resting.at = "idle"
      BY DEF Resting, PollType
    <3>2. polls' \in [Polls -> PollType] /\ PollsOK'
      BY <2>2, <3>1, PollMoved
    <3> QED
      BY <1>3, <2>1, <2>2, <3>2, LoseTyped
         DEF ClaimIntent, TInv, TypeOK, PollType, ledgerVars
  <2>3. CASE /\ intent' = [intent EXCEPT ![polls[p].run] = "claimed"]
             /\ polls' = [polls EXCEPT ![p].at = "claimed"]
             /\ UNCHANGED <<lost, losses>>
    <3> DEFINE poll == [polls[p] EXCEPT !.at = "claimed"]
    <3>1. poll \in PollType /\ poll.run \in Runs
      BY <1>0, <2>1 DEF PollType
    <3>2. polls' = [polls EXCEPT ![p] = poll]
      BY <1>0, <2>3
    <3> HIDE DEF poll
    <3>3. polls' \in [Polls -> PollType] /\ PollsOK'
      BY <3>1, <3>2, PollMoved
    <3> QED
      BY <1>3, <2>1, <2>3, <3>3
         DEF ClaimIntent, TInv, TypeOK, PollType, ledgerVars
  <2> QED
    BY <1>3, <2>2, <2>3 DEF ClaimIntent
<1>4. CASE SendClaimed(p)
  <2> DEFINE poll == [polls[p] EXCEPT !.at = "idle", !.run = None]
  <2>1. polls[p].run \in Runs
    BY <1>4 DEF SendClaimed, TInv, PollsOK
  <2>2. poll \in PollType /\ poll.at = "idle"
    BY <1>0 DEF PollType
  <2>3. polls' = [polls EXCEPT ![p] = poll]
    BY <1>0, <1>4 DEF SendClaimed
  <2> HIDE DEF poll
  <2>4. polls' \in [Polls -> PollType] /\ PollsOK'
    BY <2>2, <2>3, PollMoved
  <2> QED
    BY <1>4, <2>1, <2>4, StartTyped
       DEF SendClaimed, TInv, TypeOK, PollType, ledgerVars, brokerVars, historyVars,
           SendType, Awaits
<1> QED
  BY <1>1, <1>2, <1>3, <1>4 DEF PollStep

LEMMA DeletionTyped ==
  ASSUME TInv, DeleteSession \/ DeletionStep
  PROVE  TInv'
<1>1. CASE DeleteSession
  <2>1. \A r \in Runs : Writing(buffer[r]) \in FlightType
    BY MadeTyped DEF TInv, TypeOK
  <2>2. <<>> \in Seq(Events)
    OBVIOUS
  <2>3. /\ flight' \in [Runs -> FlightType]
        /\ buffer' \in [Runs -> Seq(Events)]
    BY <1>1, <2>1, <2>2 DEF DeleteSession, TInv, TypeOK, FlightType
  <2>4. deletion' \in DeletionType
    BY <1>1 DEF DeleteSession, TInv, TypeOK, DeletionType
  <2> QED
    BY <1>1, <2>3, <2>4 DEF DeleteSession, TInv, TypeOK, PollsOK, brokerVars,
                            historyVars, FlightType, DeletionType
<1>2. CASE AbortRuns
  BY <1>2, AbortedTyped DEF AbortRuns, TInv, TypeOK, PollsOK, ledgerVars,
                            brokerVars, historyVars, SendType, Awaits
<1>3. ASSUME NEW r \in Runs, DeleteRun(r)
      PROVE  TInv'
  BY <1>3, MadeTyped DEF DeleteRun, TInv, TypeOK, PollsOK, brokerVars, historyVars
<1>4. CASE DeleteProjections
  <2>1. losses < MaxLost /\ losses' = losses + 1 => losses' \in 0..MaxLost
    BY ChatAssumption DEF TInv, TypeOK
  <2> QED
    BY <1>4, <2>1, MadeTyped DEF DeleteProjections, TInv, TypeOK, PollsOK, ledgerVars
<1> QED
  BY <1>1, <1>2, <1>3, <1>4 DEF DeletionStep

LEMMA ProcessTyped ==
  ASSUME TInv, Crash \/ Restart
  PROVE  TInv'
<1>1. CASE Crash
  <2>1. sends' \in [Runs -> [Sends -> SendType]]
    <3>1. ASSUME NEW r \in Runs, NEW k \in Sends
          PROVE  /\ sends[r][k] \in SendType
                 /\ [sends[r][k] EXCEPT !.at = "gone"] \in SendType
      <4>1. sends[r][k] \in SendType
        BY DEF TInv, TypeOK, SendType, Awaits
      <4> QED
        BY <4>1 DEF SendType, Awaits
    <3> QED
      BY <1>1, <3>1 DEF Crash
  <2>2. crashes' \in 0..MaxCrashes
    BY <1>1, ChatAssumption DEF Crash, TInv, TypeOK
  <2>3. deletion' \in DeletionType
    BY <1>1 DEF Crash, TInv, TypeOK, DeletionType
  <2>4. /\ flight' \in [Runs -> FlightType]
        /\ buffer' \in [Runs -> Seq(Events)]
    BY <1>1, MadeTyped DEF Crash
  <2>5. dropped' \subseteq Runs /\ lost' \subseteq Runs
    BY <1>1 DEF Crash, TInv, TypeOK
  <2> QED
    BY <1>1, <2>1, <2>2, <2>3, <2>4, <2>5
       DEF Crash, TInv, TypeOK, PollsOK, brokerVars, FlightType, SendType, Awaits,
           DeletionType, Resting
<1>2. CASE Restart
  <2>1. \A r \in Runs : Record("recovered", record[r].count) \in RecordType
    BY DEF TInv, TypeOK, Record, RecordType, Told, NoRecord, Statuses, Terminal
  <2> QED
    BY <1>2, <2>1 DEF Restart, TInv, TypeOK, PollsOK, brokerVars, historyVars, Told
<1> QED
  BY <1>1, <1>2

LEMMA TypedAlways == Spec => []TInv
<1>1. Init => TInv
  BY MadeTyped, ChatAssumption
     DEF Init, TInv, TypeOK, PollsOK, FlightType, SendType, Awaits, Resting
<1>2. TInv /\ [Next]_vars => TInv'
  <2> SUFFICES ASSUME TInv, [Next]_vars
               PROVE  TInv'
    OBVIOUS
  <2>1. CASE UNCHANGED vars
    BY <2>1 DEF vars, ledgerVars, pageletVars, brokerVars, historyVars, TInv, TypeOK,
                PollsOK
  <2> QED
    BY <2>1, WriterTyped, SendTyped, ClientTyped, PollTyped, DeletionTyped,
       ProcessTyped DEF Next
<1> QED
  BY <1>1, <1>2, PTL DEF Spec

\* Ledger, pagelet and broker keep the types the worker declares, for any runs,
\* calls and polls (ChatPageletWorker).
THEOREM ChatTypeOK == Spec => []TypeOK
<1>1. TInv => TypeOK
  BY DEF TInv
<1> QED
  BY <1>1, TypedAlways, PTL

------------------------------------------------------------------------------
\* A flush writes something, so that the count of a record only grows.
NonEmpty == \A r \in Runs : flight[r].at = "writing" => flight[r].batch # <<>>

\* What is known of a run no publication of which was lost or came late: the
\* broker has the record, or will be told of it by what is on its way.
Sound(r) ==
  /\ \A news \in early[r] :
       Present(r) => news = record[r] \/ news.count < record[r].count
  /\ flight[r].at = "sending" /\ Present(r) => flight[r].news = record[r]
  /\ Present(r) => \/ projection[r] = record[r]
                   \/ record[r] \in early[r]
                   \/ flight[r].at = "sending"
  /\ ~Present(r) => projection[r] = NoRecord \/ deletion.at = "deleting"

Sounds == \A r \in Runs \ (lost \union late) : Sound(r)

\* A pagelet that is down has nothing in memory.
Down ==
  ~up => /\ \A r \in Runs : /\ buffer[r] = <<>> /\ flight[r] = NoFlight
                            /\ early[r] = {} /\ handler[r] = "idle"
                            /\ ~Controlled(r)
                            /\ \A k \in Sends : ~Alive(sends[r][k])
         /\ \A p \in Polls : polls[p] = Resting
         /\ deletion.at \in {"none", "done"}

SInv == TInv /\ NonEmpty /\ Down /\ Sounds

\* While the pagelet is down there are requests to the broker, and the restart.
LEMMA DownRests ==
  ASSUME TInv, Down, ~up, [Next]_vars
  PROVE  \/ Restart
         \/ UNCHANGED <<record, buffer, flight, early, sends, activeRuns, polls,
                        handler, deletion, up, projection, lost, late>>
<1>1. \A r \in Runs : ~WriterStep(r) /\ ~CommandStep(r)
  BY DEF Down, WriterStep, WriteBatch, PublishFlush, SkipFlush, FlushTimer,
         CommandStep, LogCommand, ApplyCommand, MarkApplied, NoFlight
<1>2. \A r \in Runs, k \in Sends : ~SendStep(r, k)
  BY DEF Down, Alive, SendStep, CreateRun, YieldEvent, CloseSend, EndSend
<1>3. \A p \in Polls : ~PollStep(p)
  BY DEF Down, Resting, PollStep, ListIntents, PollDue, ClaimIntent, SendClaimed
<1>4. ~DeleteSession /\ ~DeletionStep /\ ~Crash
  BY DEF Down, DeleteSession, DeletionStep, AbortRuns, DeleteProjections, DeleteRun,
         Crash
<1>5. \A r \in Runs : ~SendFromRenderer(r) /\ ~Cancel(r)
  BY DEF Down, SendFromRenderer, Cancel
<1>6. ASSUME NEW r \in Runs, RequestIntent(r) \/ RequestCommand(r)
      PROVE  UNCHANGED <<record, buffer, flight, early, sends, activeRuns, polls,
                         handler, deletion, up, projection, lost, late>>
  <2>1. CASE RequestIntent(r)
    BY <2>1 DEF RequestIntent, ledgerVars, pageletVars, historyVars
  <2>2. CASE RequestCommand(r)
    <3>1. handler' = [handler EXCEPT ![r] = handler[r]]
      BY <2>2 DEF RequestCommand
    <3>2. handler' = handler
      BY <3>1 DEF TInv, TypeOK
    <3> QED
      BY <2>2, <3>2 DEF RequestCommand, ledgerVars, historyVars
  <2> QED
    BY <1>6, <2>1, <2>2
<1>7. CASE UNCHANGED vars
  BY <1>7 DEF vars, ledgerVars, pageletVars, brokerVars, historyVars
<1> QED
  BY <1>1, <1>2, <1>3, <1>4, <1>5, <1>6, <1>7 DEF Next

LEMMA DownKept ==
  ASSUME TInv, Down, [Next]_vars
  PROVE  Down'
<1>1. CASE ~up
  <2>1. CASE Restart
    BY <2>1 DEF Restart, Down
  <2>2. CASE UNCHANGED <<record, buffer, flight, early, sends, activeRuns, polls,
                         handler, deletion, up, projection, lost, late>>
    BY <2>2 DEF Down, Controlled
  <2> QED
    BY <1>1, <2>1, <2>2, DownRests
<1>2. CASE up
  <2>1. CASE Crash
    <3>1. /\ buffer' = [r \in Runs |-> <<>>] /\ flight' = [r \in Runs |-> NoFlight]
          /\ early' = [r \in Runs |-> {}] /\ handler' = [r \in Runs |-> "idle"]
          /\ activeRuns' = [r \in Runs |-> None]
          /\ polls' = [p \in Polls |-> Resting]
      BY <2>1 DEF Crash
    <3>2. \A r \in Runs, k \in Sends : ~Alive(sends'[r][k])
      <4>1. ASSUME NEW r \in Runs, NEW k \in Sends
            PROVE  sends'[r][k].at \in {"unused", "done", "gone"}
        <5>1. sends[r][k] \in SendType
          BY DEF TInv, TypeOK, SendType, Awaits
        <5>2. [sends[r][k] EXCEPT !.at = "gone"].at = "gone"
          BY <5>1 DEF SendType
        <5> QED
          BY <2>1, <5>2 DEF Crash, Alive
      <4> QED
        BY <4>1 DEF Alive
    <3>3. deletion'.at \in {"none", "done"}
      BY <2>1 DEF Crash, TInv, TypeOK
    <3> QED
      BY <3>1, <3>2, <3>3 DEF Down, Controlled
  <2>2. CASE ~Crash
    <3>1. up'
      BY <1>2, <2>2
         DEF Next, vars, WriterStep, WriteBatch, PublishFlush, SkipFlush, FlushTimer,
             PublishEarly, CommandStep, LogCommand, ApplyCommand, MarkApplied,
             SendStep, CreateRun, YieldEvent, CloseSend, EndSend, SendFromRenderer,
             Cancel, RequestIntent, RequestCommand, PollStep, ListIntents,
             TakeIntent, ClaimIntent, SendClaimed, DeleteSession, DeletionStep,
             AbortRuns, DeleteProjections, DeleteRun, Restart, pageletVars
    <3> QED
      BY <3>1 DEF Down
  <2> QED
    BY <2>1, <2>2
<1> QED
  BY <1>1, <1>2

\* A step that says nothing new of run q, and nothing of it to the broker
Keeps(q) ==
  /\ record'[q] = record[q] /\ early'[q] = early[q]
  /\ projection'[q] = projection[q]
  /\ \/ flight'[q] = flight[q]
     \/ flight[q].at # "sending" /\ flight'[q].at # "sending"
  /\ deletion.at = "deleting" => deletion'.at = "deleting"

LEMMA SoundsKept ==
  ASSUME Sounds, lost \subseteq lost', late \subseteq late',
         \A q \in Runs \ (lost' \union late') : Keeps(q) \/ Sound(q)'
  PROVE  Sounds'
BY DEF Sounds, Sound, Keeps, Present

\* An event appended is written by a flush that is not empty.
LEMMA AppendKeeps ==
  ASSUME NEW r \in Runs, NEW event \in Events, TInv, NonEmpty,
         AppendEvent(r, event)
  PROVE  /\ NonEmpty'
         /\ UNCHANGED <<record, early, projection, deletion>>
              => \A q \in Runs : Keeps(q)
<1> DEFINE pending == Append(buffer[r], event)
<1>1. pending # <<>>
  <2>1. buffer[r] \in Seq(Events)
    BY DEF TInv, TypeOK
  <2>2. Len(pending) = Len(buffer[r]) + 1 /\ Len(buffer[r]) \in Nat
    BY <2>1
  <2> QED
    BY <2>2
<1>2. DOMAIN flight = Runs
  BY DEF TInv, TypeOK
<1>3. CASE flight[r].at = "none"
  <2>1. flight' = [flight EXCEPT ![r] = Writing(pending)]
    BY <1>3 DEF AppendEvent
  <2> HIDE DEF pending
  <2>2. /\ flight'[r] = Writing(pending)
        /\ \A q \in Runs \ {r} : flight'[q] = flight[q]
    BY <1>2, <2>1
  <2> QED
    BY <1>1, <1>3, <2>2 DEF NonEmpty, Writing, Keeps
<1>4. CASE flight[r].at # "none"
  BY <1>4 DEF AppendEvent, NonEmpty, Keeps
<1> QED
  BY <1>3, <1>4

\* A flush that settles leaves the flights of other runs alone.
LEMMA SettleKeeps ==
  ASSUME NEW r \in Runs, TInv, NonEmpty, Settle(r)
  PROVE  /\ NonEmpty' /\ flight'[r] = NoFlight /\ deletion'.at = deletion.at
         /\ \A q \in Runs \ {r} : flight'[q] = flight[q]
BY DEF Settle, NonEmpty, NoFlight, TInv, TypeOK

\* A publication that is not overtaken tells of the record as it is, and one
\* that is overtaken is told late.
LEMMA RegisterKeeps ==
  ASSUME NEW r \in Runs, NEW news, TInv, Register(r, news)
  PROVE  /\ late \subseteq late' /\ projection'[r] = news
         /\ \A q \in Runs \ {r} : projection'[q] = projection[q]
         /\ r \in late' \/ ~Overtaken(r, news)
BY DEF Register, TInv, TypeOK

LEMMA WriterKeeps ==
  ASSUME NEW r \in Runs, SInv, WriterStep(r)
  PROVE  NonEmpty' /\ Sounds'
<1> USE DEF SInv
<1>0. /\ DOMAIN record = Runs /\ DOMAIN flight = Runs /\ DOMAIN early = Runs
      /\ DOMAIN projection = Runs
      /\ Present(r) => record[r] \in RecordType
  BY DEF TInv, TypeOK, Told, Present, NoRecord, Record
<1>1. CASE WriteBatch(r)
  <2> DEFINE next == Patched(record[r], flight[r].batch)
  <2>1. CASE Found(r)
    <3>1. /\ record' = [record EXCEPT ![r] = next]
          /\ flight' = [flight EXCEPT ![r] = Sending(News(r, next))]
          /\ UNCHANGED <<early, projection, deletion, lost, late>>
      BY <1>1, <2>1 DEF WriteBatch, brokerVars, historyVars
    <3>2. flight[r].batch \in Seq(Events) /\ flight[r].batch # <<>>
      BY <1>1 DEF WriteBatch, NonEmpty, TInv, TypeOK
    <3>3. /\ next \in RecordType /\ next.count \in Nat
          /\ record[r].count \in Nat /\ record[r].count < next.count
      <4>1. Len(flight[r].batch) \in Nat /\ Len(flight[r].batch) > 0
        BY <3>2
      <4>2. next \in RecordType /\ next.count = record[r].count + Len(flight[r].batch)
        BY <1>0, <2>1, <3>2, PatchedTyped DEF Found
      <4>3. record[r].count \in Nat
        BY <1>0, <2>1 DEF Found, RecordType
      <4> QED
        BY <4>1, <4>2, <4>3
    <3>4. News(r, next) = next
      BY DEF News, Patched, Record
    <3> HIDE DEF next
    <3>5. record'[r] = next /\ flight'[r] = Sending(next)
      BY <1>0, <3>1, <3>4
    <3>6. \A q \in Runs \ {r} : Keeps(q)
      BY <1>0, <3>1 DEF Keeps
    <3>7. r \notin lost \union late => Sound(r)'
      <4> SUFFICES ASSUME r \notin lost \union late
                   PROVE  Sound(r)'
        OBVIOUS
      <4>1. \A news \in early[r] : news.count \in Nat /\ news.count <= record[r].count
        <5>1. Sound(r) /\ Present(r)
          BY <2>1 DEF Sounds, Found
        <5>2. \A news \in early[r] : news.count \in Nat
          BY DEF TInv, TypeOK, RecordType
        <5>3. \A news \in early[r] : news = record[r] \/ news.count < record[r].count
          BY <5>1 DEF Sound
        <5> QED
          BY <3>3, <5>2, <5>3
      <4>2. \A news \in early'[r] : news.count < record'[r].count
        BY <3>1, <3>3, <3>5, <4>1
      <4>3. flight'[r].at = "sending" /\ flight'[r].news = record'[r]
        BY <3>5 DEF Sending
      <4>4. Present(r)'
        BY <3>3, <3>5 DEF Present, RecordType, Statuses, Terminal
      <4> QED
        BY <4>2, <4>3, <4>4 DEF Sound
    <3>8. NonEmpty'
      BY <1>0, <3>1, <3>5 DEF NonEmpty, Sending
    <3> QED
      BY <3>1, <3>6, <3>7, <3>8, SoundsKept
  <2>2. CASE ~Found(r)
    <3>1. Settle(r) /\ flight[r].at = "writing"
          /\ UNCHANGED <<record, early, projection, lost, late>>
      BY <1>1, <2>2 DEF WriteBatch, brokerVars, historyVars
    <3>2. NonEmpty' /\ \A q \in Runs : Keeps(q)
      BY <3>1, SettleKeeps DEF Keeps, NoFlight
    <3> QED
      BY <3>1, <3>2, SoundsKept
  <2> QED
    BY <2>1, <2>2
<1>2. CASE PublishFlush(r)
  <2>1. /\ flight[r].at = "sending" /\ Register(r, flight[r].news) /\ Settle(r)
        /\ UNCHANGED <<record, early, lost>>
    BY <1>2 DEF PublishFlush
  <2>2. \A q \in Runs \ {r} : Keeps(q)
    BY <2>1, SettleKeeps, RegisterKeeps DEF Keeps
  <2>3. r \notin lost' \union late' => Sound(r)'
    <3>1. ASSUME r \notin lost' \union late'
          PROVE  Present(r) /\ projection'[r] = record[r]
      <4>1. Sound(r)
        BY <2>1, <3>1, RegisterKeeps DEF Sounds
      <4>2. ~Overtaken(r, flight[r].news)
        BY <2>1, <3>1, RegisterKeeps
      <4>3. Present(r) /\ flight[r].news = record[r]
        BY <2>1, <4>1, <4>2 DEF Overtaken, Sound
      <4> QED
        BY <2>1, <4>3, RegisterKeeps
    <3>2. flight'[r].at = "none"
      BY <2>1, SettleKeeps DEF NoFlight
    <3> QED
      BY <2>1, <3>1, <3>2, RegisterKeeps DEF Sound, Present, Sounds
  <2> QED
    BY <2>1, <2>2, <2>3, SettleKeeps, RegisterKeeps, SoundsKept
<1>3. CASE SkipFlush(r)
  <2>1. /\ Settle(r) /\ UNCHANGED <<record, early, projection, late>>
        /\ lost \subseteq lost' /\ (Present(r) => r \in lost')
    BY <1>3 DEF SkipFlush, brokerVars, LoseCall
  <2>2. \A q \in Runs \ {r} : Keeps(q)
    BY <2>1, SettleKeeps DEF Keeps
  <2>3. r \notin lost' \union late' => Sound(r)'
    BY <2>1, SettleKeeps DEF Sounds, Sound, Present, NoFlight
  <2> QED
    BY <2>1, <2>2, <2>3, SettleKeeps, SoundsKept
<1>4. CASE FlushTimer(r)
  <2>1. /\ flight[r].at = "none" /\ buffer[r] # <<>>
        /\ flight' = [flight EXCEPT ![r] = Writing(buffer[r])]
        /\ UNCHANGED <<record, early, projection, deletion, lost, late>>
    BY <1>4 DEF FlushTimer, pageletVars, brokerVars, historyVars
  <2>2. NonEmpty' /\ \A q \in Runs : Keeps(q)
    BY <1>0, <2>1 DEF Keeps, NonEmpty, Writing
  <2> QED
    BY <2>1, <2>2, SoundsKept
<1>5. ASSUME NEW news \in early[r], PublishEarly(r, news)
      PROVE  NonEmpty' /\ Sounds'
  <2>1. /\ early' = [early EXCEPT ![r] = @ \ {news}]
        /\ UNCHANGED <<record, flight, deletion>> /\ lost \subseteq lost'
    BY <1>5 DEF PublishEarly, ledgerVars, pageletVars, LoseCall
  <2>2. NonEmpty'
    BY <2>1 DEF NonEmpty
  <2>3. CASE Register(r, news)
    <3>1. \A q \in Runs \ {r} : Keeps(q)
      BY <1>0, <2>1, <2>3, RegisterKeeps DEF Keeps
    <3>2. ASSUME r \notin lost' \union late'
          PROVE  Sound(r)'
      <4>1. Sound(r)
        BY <2>1, <2>3, <3>2, RegisterKeeps DEF Sounds
      <4>2. Present(r) /\ ~(news.count < projection[r].count)
        BY <2>3, <3>2, RegisterKeeps DEF Overtaken
      <4>3. /\ news.count \in Nat /\ record[r].count \in Nat
        BY <1>0, <4>2 DEF TInv, TypeOK, RecordType
      <4>4. CASE news = record[r]
        BY <1>0, <2>1, <2>3, <4>1, <4>2, <4>4, RegisterKeeps DEF Sound, Present
      <4>5. CASE news # record[r]
        <5>1. news.count < record[r].count
          BY <1>5, <4>1, <4>2, <4>5 DEF Sound
        <5>2. projection[r] # record[r]
          BY <4>2, <4>3, <5>1
        <5>3. record[r] \in early'[r] \/ flight'[r].at = "sending"
          BY <1>0, <2>1, <4>1, <4>2, <4>5, <5>2 DEF Sound
        <5> QED
          BY <1>0, <2>1, <4>1, <4>2, <5>3 DEF Sound, Present
      <4> QED
        BY <4>4, <4>5
    <3> QED
      BY <2>1, <2>2, <2>3, <3>1, <3>2, RegisterKeeps, SoundsKept
  <2>4. CASE LoseCall(r) /\ UNCHANGED <<brokerVars, late>>
    <3>1. r \in lost' /\ \A q \in Runs \ {r} : Keeps(q)
      BY <1>0, <2>1, <2>4 DEF Keeps, LoseCall, brokerVars
    <3> QED
      BY <2>1, <2>2, <2>4, <3>1, SoundsKept
  <2> QED
    BY <1>5, <2>3, <2>4 DEF PublishEarly
<1> QED
  BY <1>1, <1>2, <1>3, <1>4, <1>5 DEF WriterStep

LEMMA SendKeeps ==
  ASSUME NEW r \in Runs, NEW k \in Sends, SInv, SendStep(r, k)
  PROVE  NonEmpty' /\ Sounds'
<1> USE DEF SInv
<1>1. CASE CreateRun(r, k)
  <2> DEFINE rec == IF Present(r) THEN record[r] ELSE Record("queued", 0)
  <2>1. /\ record' = [record EXCEPT ![r] = rec]
        /\ early' = [early EXCEPT ![r] = @ \union {rec}]
        /\ late' = IF ~Present(r) /\ Untold(r) THEN late \union {r} ELSE late
        /\ UNCHANGED <<flight, projection, deletion, lost>>
    BY <1>1 DEF CreateRun, brokerVars
  <2>2. Present(r) => rec = record[r]
    OBVIOUS
  <2>3. ~Present(r) => rec.status # "absent"
    BY DEF Record
  <2> HIDE DEF rec
  <2>4. /\ record'[r] = rec /\ early'[r] = early[r] \union {rec}
        /\ \A q \in Runs \ {r} : Keeps(q)
    BY <2>1 DEF TInv, TypeOK, Keeps
  <2>5. r \notin lost' \union late' => Sound(r)'
    <3>1. CASE Present(r)
      BY <2>1, <2>2, <2>4, <3>1 DEF Sounds, Sound, Present
    <3>2. CASE ~Present(r) /\ early[r] = {} /\ flight[r].at # "sending"
      BY <2>1, <2>3, <2>4, <3>2 DEF Sound, Present
    <3>3. CASE ~Present(r) /\ Untold(r)
      BY <2>1, <3>3
    <3> QED
      BY <3>1, <3>2, <3>3 DEF Untold
  <2>6. NonEmpty'
    BY <2>1 DEF NonEmpty
  <2> QED
    BY <2>1, <2>4, <2>5, <2>6, SoundsKept
<1>2. CASE YieldEvent(r, k)
  <2>1. PICK event \in Events : AppendEvent(r, event)
    BY <1>2 DEF YieldEvent, SaveEvent, Events
  <2> QED
    BY <1>2, <2>1, AppendKeeps, SoundsKept DEF YieldEvent, brokerVars, historyVars
<1>3. CASE CloseSend(r, k)
  <2>1. PICK event \in Events : AppendEvent(r, event)
    BY <1>3 DEF CloseSend, Events
  <2> QED
    BY <1>3, <2>1, AppendKeeps, SoundsKept DEF CloseSend, brokerVars, historyVars
<1>4. CASE EndSend(r, k)
  BY <1>4, SoundsKept DEF EndSend, ledgerVars, brokerVars, historyVars, NonEmpty,
                          Keeps
<1> QED
  BY <1>1, <1>2, <1>3, <1>4 DEF SendStep

LEMMA ClientKeeps ==
  ASSUME NEW r \in Runs, SInv,
         \/ SendFromRenderer(r) \/ Cancel(r)
         \/ RequestIntent(r) \/ RequestCommand(r) \/ CommandStep(r)
  PROVE  NonEmpty' /\ Sounds'
<1> USE DEF SInv
<1>1. CASE LogCommand(r)
  <2>1. UNCHANGED <<record, early, projection, deletion, lost, late>>
    BY <1>1 DEF LogCommand, brokerVars, historyVars
  <2>2. CASE Present(r)
    BY <1>1, <2>1, <2>2, AppendKeeps, SoundsKept DEF LogCommand, Events
  <2>3. CASE ~Present(r)
    BY <1>1, <2>1, <2>3, SoundsKept DEF LogCommand, NonEmpty, Keeps
  <2> QED
    BY <2>2, <2>3
<1>2. CASE ~LogCommand(r)
  <2>1. /\ UNCHANGED <<record, flight, early, projection, deletion, late>>
        /\ lost \subseteq lost'
    BY <1>2 DEF SendFromRenderer, Cancel, RequestIntent, RequestCommand, CommandStep,
                ApplyCommand, MarkApplied, LoseCall, ledgerVars, pageletVars,
                brokerVars, historyVars
  <2> QED
    BY <2>1, SoundsKept DEF NonEmpty, Keeps
<1> QED
  BY <1>1, <1>2

LEMMA PollKeeps ==
  ASSUME NEW p \in Polls, SInv, PollStep(p)
  PROVE  NonEmpty' /\ Sounds'
<1>1. /\ UNCHANGED <<record, flight, early, projection, deletion, late>>
      /\ lost \subseteq lost'
  BY DEF PollStep, ListIntents, TakeIntent, ClaimIntent, SendClaimed, LoseCall,
         ledgerVars, brokerVars, historyVars
<1> QED
  BY <1>1, SoundsKept DEF SInv, NonEmpty, Keeps

LEMMA DeletionKeeps ==
  ASSUME SInv, DeleteSession \/ DeletionStep
  PROVE  NonEmpty' /\ Sounds'
<1> USE DEF SInv
<1>1. CASE DeleteSession
  <2>1. /\ UNCHANGED <<record, early, projection, lost, late>>
        /\ deletion.at = "none"
        /\ \A q \in Runs : \/ flight'[q] = flight[q]
                           \/ /\ flight[q].at = "none" /\ buffer[q] # <<>>
                              /\ flight'[q] = Writing(buffer[q])
    BY <1>1 DEF DeleteSession, brokerVars, historyVars
  <2>2. \A q \in Runs : \/ flight'[q] = flight[q]
                       \/ /\ flight[q].at = "none" /\ flight'[q].at = "writing"
                          /\ flight'[q].batch # <<>>
    <3>1. \A batch : Writing(batch).at = "writing" /\ Writing(batch).batch = batch
      BY DEF Writing
    <3> QED
      BY <2>1, <3>1
  <2>3. NonEmpty'
    BY <2>2 DEF NonEmpty
  <2>4. \A q \in Runs : Keeps(q)
    BY <2>1, <2>2 DEF Keeps
  <2> QED
    BY <2>1, <2>3, <2>4, SoundsKept
<1>2. CASE AbortRuns
  BY <1>2, SoundsKept DEF AbortRuns, ledgerVars, brokerVars, historyVars, NonEmpty,
                          Keeps
<1>3. ASSUME NEW r \in Runs, DeleteRun(r)
      PROVE  NonEmpty' /\ Sounds'
  <2>1. /\ record' = [record EXCEPT ![r] = NoRecord] /\ deletion.at = "deleting"
        /\ deletion'.at = "deleting"
        /\ UNCHANGED <<flight, early, projection, lost, late>>
    BY <1>3 DEF DeleteRun, brokerVars, historyVars, TInv, TypeOK
  <2>2. ~Present(r)' /\ \A q \in Runs \ {r} : Keeps(q)
    BY <2>1 DEF Present, NoRecord, Record, Keeps, TInv, TypeOK
  <2> QED
    BY <2>1, <2>2, SoundsKept DEF NonEmpty, Sound
<1>4. CASE DeleteProjections
  <2>1. /\ UNCHANGED <<record, flight, early>>
        /\ lost \subseteq lost' \/ lost' = Runs
    BY <1>4 DEF DeleteProjections, ledgerVars
  <2>2. NonEmpty'
    BY <2>1 DEF NonEmpty
  <2>3. CASE /\ projection' = [r \in Runs |-> NoRecord]
             /\ late' = late \union {r \in Runs : Present(r)}
             /\ UNCHANGED lost
    <3>1. ASSUME NEW q \in Runs \ (lost' \union late')
          PROVE  Sound(q)'
      <4>1. ~Present(q) /\ projection'[q] = NoRecord
        BY <2>3, <3>1
      <4> QED
        BY <2>1, <4>1 DEF Sound, Present
    <3> QED
      BY <2>2, <3>1 DEF Sounds
  <2>4. CASE lost' = Runs
    BY <2>2, <2>4 DEF Sounds
  <2> QED
    BY <1>4, <2>3, <2>4 DEF DeleteProjections
<1> QED
  BY <1>1, <1>2, <1>3, <1>4 DEF DeletionStep

LEMMA ProcessKeeps ==
  ASSUME SInv, Crash \/ Restart
  PROVE  NonEmpty' /\ Sounds'
<1> USE DEF SInv
<1>1. CASE Crash
  <2>1. /\ flight' = [r \in Runs |-> NoFlight] /\ early' = [r \in Runs |-> {}]
        /\ UNCHANGED <<record, projection, late>>
        /\ lost' = lost \union {r \in Runs : \/ flight[r].at = "sending"
                                            \/ early[r] # {}
                                            \/ deletion.at = "deleting"}
    BY <1>1 DEF Crash, brokerVars
  <2>2. ASSUME NEW q \in Runs \ (lost' \union late')
        PROVE  Sound(q)'
    <3>1. /\ Sound(q) /\ flight[q].at # "sending" /\ early[q] = {}
          /\ deletion.at # "deleting"
      BY <2>1 DEF Sounds
    <3> QED
      BY <2>1, <3>1 DEF Sound, Present, NoFlight
  <2> QED
    BY <2>1, <2>2 DEF NonEmpty, NoFlight, Sounds
<1>2. CASE Restart
  <2> DEFINE active == {r \in Runs : record[r].status \in Unfinished}
             recovered(r) == Record("recovered", record[r].count)
  <2>1. /\ ~up /\ UNCHANGED <<flight, projection, deletion, lost, late>>
        /\ record' = [r \in Runs |-> IF r \in active THEN recovered(r) ELSE record[r]]
        /\ early' = [r \in Runs |-> IF r \in active THEN {recovered(r)} ELSE {}]
    BY <1>2 DEF Restart, brokerVars, historyVars
  <2>2. ASSUME NEW q \in Runs \ (lost' \union late')
        PROVE  Sound(q)'
    <3>1. Sound(q) /\ early[q] = {} /\ flight[q].at = "none"
      BY <2>1 DEF Sounds, Down, NoFlight
    <3>2. CASE q \in active
      <4>1. record'[q] = recovered(q) /\ early'[q] = {recovered(q)}
        BY <2>1, <3>2
      <4>2. recovered(q).status # "absent"
        BY DEF Record
      <4> HIDE DEF active, recovered
      <4> QED
        BY <2>1, <3>1, <4>1, <4>2 DEF Sound, Present
    <3>3. CASE q \notin active
      <4>1. record'[q] = record[q] /\ early'[q] = {}
        BY <2>1, <3>3
      <4> HIDE DEF active, recovered
      <4> QED
        BY <2>1, <3>1, <4>1 DEF Sound, Present
    <3> QED
      BY <3>2, <3>3
  <2> QED
    BY <2>1, <2>2 DEF NonEmpty, Sounds
<1> QED
  BY <1>1, <1>2

\* At rest the broker shows each run as its record is, whatever was published
\* in which order, unless a call was lost or a publication overtaken
\* (publishRunProjection, publishRecoveredRunProjections, deleteSessionRuns).
THEOREM ChatRestsCurrent == Spec => []RestsCurrent
<1>1. Init => NonEmpty /\ Down /\ Sounds
  BY DEF Init, NonEmpty, Down, Sounds, Sound, NoFlight, Present, NoRecord, Record
<1>2. TInv /\ NonEmpty /\ Down /\ Sounds /\ [Next]_vars
        => (NonEmpty /\ Down /\ Sounds)'
  <2> SUFFICES ASSUME SInv, [Next]_vars
               PROVE  (NonEmpty /\ Down /\ Sounds)'
    BY DEF SInv
  <2>1. Down'
    BY DownKept DEF SInv
  <2>2. CASE UNCHANGED vars
    BY <2>1, <2>2, SoundsKept
       DEF SInv, vars, ledgerVars, pageletVars, brokerVars, historyVars, NonEmpty,
           Keeps
  <2> QED
    BY <2>1, <2>2, WriterKeeps, SendKeeps, ClientKeeps, PollKeeps, DeletionKeeps,
       ProcessKeeps DEF Next
<1>3. TInv /\ Sounds => RestsCurrent
  <2> SUFFICES ASSUME TInv, Sounds, NEW r \in Runs \ (lost \union late), Quiet(r)
               PROVE  projection[r] = record[r]
    BY DEF RestsCurrent
  <2>1. ~Present(r) => record[r] = NoRecord
    BY DEF TInv, TypeOK, Told, Present, RecordType, Statuses, Terminal
  <2> QED
    BY <2>1 DEF Sounds, Sound, Quiet
<1> QED
  BY <1>1, <1>2, <1>3, TypedAlways, PTL DEF Spec
==============================================================================
