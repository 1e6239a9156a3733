------------------------- MODULE RemoteControlProofs -------------------------
(* No message becomes two intents within one memory of it, no update is     *)
(* confirmed before it is handled and no reply is skipped, for any posts,   *)
(* updates, cursors, losses and restarts.                                   *)
(*                                                                          *)
(* What makes each inductive: a message the guard does not know has a       *)
(* memory left to spend (MemorySpent); every update below one that waits in *)
(* the batch waits too or has been handled, and so have all below the       *)
(* offset (BatchSound); and an answer on its way is followed by the         *)
(* furthest projection of its run (NewsFollows).                            *)
EXTENDS RemoteControl, SequenceTheorems, FiniteSetTheorems, TLAPS

MemorySpent ==
  \A m \in Messages :
    Copies(m) + calls[m] + (IF m \in seen THEN 0 ELSE 1) <= memories[m]

BatchSound ==
  /\ 1..confirmed \subseteq attempted
  /\ 1..(offset - 1) \subseteq attempted
  /\ \A u \in batch : \A v \in 1..(u - 1) : v \in attempted \/ v \in batch

NewsFollows ==
  /\ \A n \in 1..Len(inbox) : inbox[n].cursor <= furthest[inbox[n].intent]
  /\ \A n \in 1..Len(inbox) :
       LET i == inbox[n].intent
       IN  inbox[n].cursor = 0 =>
             \/ furthest[i] = 0
             \/ \E k \in 1..Len(inbox) :
                  k > n /\ inbox[k].intent = i /\ inbox[k].cursor = furthest[i]
  /\ \A i \in Tracked :
       /\ told[i] <= furthest[i]
       /\ \/ told[i] = furthest[i]
          \/ \E k \in 1..Len(inbox) :
               inbox[k].intent = i /\ inbox[k].cursor = furthest[i]

------------------------------------------------------------------------------
\* The types, by who keeps them.
IngressOK ==
  /\ seen \subseteq Messages
  /\ calls \in [Messages -> Nat]
  /\ memories \in [Messages -> Nat]
  /\ news \in Nat /\ forgets \in Nat /\ restarts \in Nat

SharedOK ==
  /\ intents \in Seq(Messages)
  /\ furthest \in Seq(0..MaxCursor)
  /\ Len(furthest) = Len(intents)

OutboxOK ==
  /\ inbox \in Seq([intent : Intents, cursor : 0..MaxCursor])
  /\ Tracked \subseteq Intents
  /\ told \in [Tracked -> 0..MaxCursor]

LoopOK ==
  /\ arrived \in 0..MaxUpdates
  /\ confirmed \in 0..arrived
  /\ offset \in 0..(arrived + 1)
  /\ current \in 0..arrived
  /\ batch \subseteq 1..arrived
  /\ loop \in {"poll", "handle", "submit", "deliver"}
  /\ attempted \subseteq Updates

LEMMA TypesByKeeper == TypeOK <=> IngressOK /\ SharedOK /\ OutboxOK /\ LoopOK
BY DEF TypeOK, IngressOK, SharedOK, OutboxOK, LoopOK

LEMMA IngressStep ==
  ASSUME IngressOK, LoopOK, [Next]_vars
  PROVE  IngressOK'
<1> USE DEF IngressOK
<1>1. CASE HandleUpdate
  <2>1. PICK u \in batch :
          UNCHANGED <<seen, calls>> \/ Submit(u)
    BY <1>1 DEF HandleUpdate
  <2>2. u \in Messages
    BY RemoteAssumption DEF LoopOK, Messages, Updates
  <2> QED BY <1>1, <2>1, <2>2 DEF HandleUpdate, Submit, Remember, sharedVars
<1>2. ASSUME NEW m \in Posts, Post(m) PROVE IngressOK'
  BY <1>2 DEF Post, Submit, Remember, Messages, sharedVars
<1>3. ASSUME NEW m \in Messages, SubmissionFails(m) PROVE IngressOK'
  BY <1>3 DEF SubmissionFails, sharedVars
<1>4. ASSUME NEW m \in Messages, CreateIntent(m) PROVE IngressOK'
  BY <1>4 DEF CreateIntent
<1>5. ASSUME NEW i \in Intents, NEW c \in 1..MaxCursor, RegisterProjection(i, c)
      PROVE  IngressOK'
  BY <1>5 DEF RegisterProjection, ingressVars
<1>6. ASSUME NEW m \in Messages, Forget(m) PROVE IngressOK'
  BY <1>6 DEF Forget, sharedVars
<1>7. CASE Restart
  BY <1>7 DEF Restart, sharedVars
<1>8. CASE UNCHANGED <<ingressVars, news, restarts>>
  BY <1>8 DEF ingressVars
<1> QED
  BY <1>1, <1>2, <1>3, <1>4, <1>5, <1>6, <1>7, <1>8
     DEF Next, PollLoop, CallAnswered, Receive, Arrive, Poll, PollFails, Deliver,
         BatchDone, ReceiveCreated, ReceiveProjection, vars, sharedVars

LEMMA SharedStep ==
  ASSUME SharedOK, [Next]_vars
  PROVE  SharedOK' /\ Intents \subseteq Intents'
<1> USE DEF SharedOK
<1>1. ASSUME NEW m \in Messages, CreateIntent(m)
      PROVE  SharedOK' /\ Intents \subseteq Intents'
  <2>1. /\ intents' \in Seq(Messages)
        /\ Intents' = 1..(Len(intents) + 1) /\ Intents = 1..Len(intents)
    BY <1>1 DEF CreateIntent, Intents
  <2>2. furthest' = Append(furthest, 0) /\ 0 \in 0..MaxCursor
    BY <1>1, RemoteAssumption DEF CreateIntent
  <2>3. furthest' \in Seq(0..MaxCursor) /\ Len(furthest') = Len(furthest) + 1
    BY <2>2, AppendProperties
  <2>4. Len(intents') = Len(intents) + 1 /\ 1..Len(intents) \subseteq 1..(Len(intents) + 1)
    BY <1>1, AppendProperties, LenProperties DEF CreateIntent
  <2> QED BY <2>1, <2>3, <2>4
<1>2. ASSUME NEW i \in Intents, NEW c \in 1..MaxCursor, RegisterProjection(i, c)
      PROVE  SharedOK' /\ Intents \subseteq Intents'
  <2>1. furthest' = [furthest EXCEPT ![i] = Higher(furthest[i], c)] /\ intents' = intents
    BY <1>2 DEF RegisterProjection
  <2>2. i \in 1..Len(furthest) /\ furthest[i] \in 0..MaxCursor
    BY ElementOfSeq, LenProperties DEF Intents
  <2>3. Higher(furthest[i], c) \in 0..MaxCursor
    BY <2>2, RemoteAssumption DEF Higher
  <2>4. furthest' \in Seq(0..MaxCursor) /\ Len(furthest') = Len(furthest)
    BY <2>1, <2>2, <2>3, ExceptSeq
  <2> QED BY <2>1, <2>4 DEF Intents
<1>3. CASE UNCHANGED <<intents, furthest>>
  BY <1>3 DEF Intents
<1> QED
  BY <1>1, <1>2, <1>3
     DEF Next, PollLoop, CallAnswered, Receive, Arrive, Poll, PollFails, HandleUpdate,
         Deliver, BatchDone, Post, SubmissionFails, ReceiveCreated, ReceiveProjection,
         Forget, Restart, vars, sharedVars

EventsOf(S) == [intent : S, cursor : 0..MaxCursor]

LEMMA OutboxStep ==
  ASSUME SharedOK, OutboxOK, [Next]_vars
  PROVE  OutboxOK'
<1> USE DEF OutboxOK
<1>1. SharedOK' /\ Intents \subseteq Intents'
  BY SharedStep
<1>2. inbox \in Seq(EventsOf(Intents'))
  <2>1. inbox \in Seq(EventsOf(Intents)) /\ EventsOf(Intents) \subseteq EventsOf(Intents')
    BY <1>1 DEF EventsOf
  <2> QED BY <2>1, SeqMonotonic
<1>3. ASSUME NEW m \in Messages, CreateIntent(m) PROVE OutboxOK'
  <2>1. Len(intents) + 1 \in Intents'
    <3>1. intents' \in Seq(Messages) /\ intents' = Append(intents, m) /\ intents \in Seq(Messages)
      BY <1>1, <1>3 DEF CreateIntent, SharedOK
    <3> QED BY <3>1 DEF Intents
  <2>2. News(Len(intents) + 1, 0) \in EventsOf(Intents')
    BY <2>1, RemoteAssumption DEF News, EventsOf
  <2>3. inbox' \in Seq(EventsOf(Intents'))
    BY <1>2, <1>3, <2>2, AppendProperties DEF CreateIntent
  <2>4. UNCHANGED told
    BY <1>3 DEF CreateIntent
  <2> QED BY <1>1, <2>3, <2>4 DEF EventsOf, Tracked
<1>4. ASSUME NEW i \in Intents, NEW c \in 1..MaxCursor, RegisterProjection(i, c)
      PROVE  OutboxOK'
  <2>1. News(i, c) \in EventsOf(Intents')
    BY <1>1, RemoteAssumption DEF News, EventsOf
  <2>2. inbox' \in Seq(EventsOf(Intents')) /\ UNCHANGED told
    BY <1>2, <1>4, <2>1, AppendProperties DEF RegisterProjection
  <2> QED BY <1>1, <2>2 DEF EventsOf, Tracked
<1>5. CASE ReceiveCreated
  <2>1. inbox' \in Seq(EventsOf(Intents')) /\ Head(inbox) \in EventsOf(Intents')
    BY <1>2, <1>5, HeadTailProperties DEF ReceiveCreated
  <2>2. /\ Tracked' = Tracked \union {Head(inbox).intent}
        /\ \A j \in Tracked' : told'[j] = IF j = Head(inbox).intent THEN 0 ELSE told[j]
        /\ told' = [j \in Tracked' |-> told'[j]]
    BY <1>5 DEF ReceiveCreated, Tracked
  <2>3. Tracked' \subseteq Intents'
    BY <1>1, <2>1, <2>2 DEF EventsOf
  <2>4. told' \in [Tracked' -> 0..MaxCursor]
    BY <2>2, RemoteAssumption
  <2> QED BY <2>1, <2>3, <2>4 DEF EventsOf
<1>6. CASE ReceiveProjection
  <2>1. inbox' \in Seq(EventsOf(Intents')) /\ Head(inbox) \in EventsOf(Intents')
    BY <1>2, <1>6, HeadTailProperties DEF ReceiveProjection
  <2>2. Head(inbox).cursor \in 0..MaxCursor
    BY <2>1 DEF EventsOf
  <2>3. told' \in [Tracked -> 0..MaxCursor] /\ Tracked' = Tracked
    BY <1>6, <2>2 DEF ReceiveProjection, Tracked
  <2> QED BY <1>1, <2>1, <2>3 DEF EventsOf
<1>7. CASE Restart
  <2>1. inbox' \in Seq(EventsOf(Intents'))
    BY <1>7, EmptySeq DEF Restart
  <2>2. Tracked' = {} /\ told' \in [Tracked' -> 0..MaxCursor]
    BY <1>7 DEF Restart, Tracked
  <2> QED BY <2>1, <2>2 DEF EventsOf
<1>8. CASE UNCHANGED <<inbox, told>>
  BY <1>1, <1>2, <1>8 DEF EventsOf, Tracked
<1> QED
  BY <1>3, <1>4, <1>5, <1>6, <1>7, <1>8
     DEF Next, PollLoop, CallAnswered, Receive, Arrive, Poll, PollFails, HandleUpdate,
         Deliver, BatchDone, Post, SubmissionFails, Forget, vars

LEMMA LoopStep ==
  ASSUME LoopOK, [Next]_vars
  PROVE  LoopOK'
<1> USE RemoteAssumption DEF LoopOK
<1>1. CASE Arrive
  BY <1>1 DEF Arrive, loopVars
<1>2. CASE Poll
  <2>1. Higher(confirmed, offset - 1) \in 0..arrived
    BY DEF Higher
  <2>2. Offered(offset) \subseteq 1..arrived
    BY DEF Offered, Higher
  <2> QED BY <1>2, <2>1, <2>2 DEF Poll
<1>3. CASE PollFails
  <2>1. Higher(confirmed, offset - 1) \in 0..arrived
    BY DEF Higher
  <2> QED BY <1>3, <2>1 DEF PollFails, loopVars
<1>4. CASE HandleUpdate
  <2>1. PICK u \in batch :
          /\ current' = u /\ offset' = u + 1 /\ attempted' = attempted \union {u}
          /\ loop' \in {"poll", "submit", "deliver"} /\ batch' \subseteq batch
    BY <1>4 DEF HandleUpdate, OffsetPast, DropBatch
  <2> QED BY <1>4, <2>1 DEF HandleUpdate, Updates
<1>5. CASE Deliver
  BY <1>5 DEF Deliver, DropBatch, telegramVars
<1>6. CASE BatchDone
  BY <1>6 DEF BatchDone, DropBatch, telegramVars
<1>7. ASSUME NEW m \in Messages, SubmissionFails(m) PROVE LoopOK'
  BY <1>7 DEF SubmissionFails, DropBatch, telegramVars
<1>8. CASE ReceiveCreated
  BY <1>8 DEF ReceiveCreated, telegramVars
<1>9. CASE Restart
  BY <1>9 DEF Restart, DropBatch, telegramVars
<1>10. CASE UNCHANGED <<telegramVars, loopVars>>
  BY <1>10 DEF telegramVars, loopVars
<1> QED
  BY <1>1, <1>2, <1>3, <1>4, <1>5, <1>6, <1>7, <1>8, <1>9, <1>10
     DEF Next, PollLoop, CallAnswered, Receive, Post, CreateIntent, RegisterProjection,
         ReceiveProjection, Forget, vars

LEMMA TypesInit == Init => TypeOK
<1> SUFFICES ASSUME Init PROVE IngressOK /\ SharedOK /\ OutboxOK /\ LoopOK
  BY TypesByKeeper
<1>1. IngressOK /\ LoopOK
  BY RemoteAssumption DEF Init, IngressOK, LoopOK
<1>2. SharedOK
  BY DEF Init, SharedOK, Intents
<1>3. OutboxOK
  BY EmptySeq DEF Init, OutboxOK, Tracked
<1> QED BY <1>1, <1>2, <1>3

LEMMA TypesStep == TypeOK /\ [Next]_vars => TypeOK'
<1> SUFFICES ASSUME TypeOK, [Next]_vars
             PROVE  IngressOK' /\ SharedOK' /\ OutboxOK' /\ LoopOK'
  BY DEF TypeOK, IngressOK, SharedOK, OutboxOK, LoopOK
<1> QED BY TypesByKeeper, IngressStep, SharedStep, OutboxStep, LoopStep

\* The state's types: no step leaves them.
THEOREM RemoteTypeOK == Spec => []TypeOK
BY TypesInit, TypesStep, PTL DEF Spec

------------------------------------------------------------------------------
\* Messages and their memories.

MadeOf(made, m) == {i \in DOMAIN made : made[i] = m}

LEMMA CopiesNat ==
  ASSUME NEW made \in Seq(Messages), NEW m
  PROVE  IsFiniteSet(MadeOf(made, m)) /\ Cardinality(MadeOf(made, m)) \in Nat
<1>1. Len(made) \in Int /\ 1 \in Int /\ MadeOf(made, m) \subseteq 1..Len(made)
  BY LenProperties DEF MadeOf
<1>2. IsFiniteSet(1..Len(made))
  BY <1>1, FS_Interval
<1> QED BY <1>1, <1>2, FS_Subset, FS_CardinalityType

\* One more message makes one more copy, of that message only.
LEMMA CopiesAppend ==
  ASSUME NEW made \in Seq(Messages), NEW m \in Messages, NEW n \in Messages
  PROVE  Cardinality(MadeOf(Append(made, n), m)) =
           Cardinality(MadeOf(made, m)) + (IF m = n THEN 1 ELSE 0)
<1>1. /\ DOMAIN Append(made, n) = 1..(Len(made) + 1)
      /\ DOMAIN made = 1..Len(made) /\ Len(made) \in Nat
      /\ Append(made, n)[Len(made) + 1] = n
      /\ \A i \in 1..Len(made) : Append(made, n)[i] = made[i]
  BY AppendProperties, LenProperties
<1>2. CASE m = n
  <2>1. MadeOf(Append(made, n), m) = MadeOf(made, m) \union {Len(made) + 1}
    BY <1>1, <1>2 DEF MadeOf
  <2>2. Len(made) + 1 \notin MadeOf(made, m)
    BY <1>1 DEF MadeOf
  <2> QED BY <1>2, <2>1, <2>2, CopiesNat, FS_AddElement
<1>3. CASE m # n
  <2>1. MadeOf(Append(made, n), m) = MadeOf(made, m)
    BY <1>1, <1>3 DEF MadeOf
  <2> QED BY <1>3, <2>1, CopiesNat
<1> QED BY <1>2, <1>3

LEMMA CopiesMade == \A m : Copies(m) = Cardinality(MadeOf(intents, m))
BY DEF Copies, MadeOf, Intents

LEMMA MemoryStep ==
  ASSUME TypeOK, MemorySpent, [Next]_vars
  PROVE  MemorySpent'
<1>1. TypeOK'
  BY TypesStep
<1>2. \A m \in Messages :
        /\ Copies(m) = Cardinality(MadeOf(intents, m)) /\ Copies(m) \in Nat
        /\ Copies(m)' = Cardinality(MadeOf(intents', m)) /\ Copies(m)' \in Nat
  BY <1>1, CopiesNat DEF TypeOK, Copies, MadeOf, Intents
<1> SUFFICES ASSUME NEW m \in Messages
             PROVE  Copies(m)' + calls'[m] + (IF m \in seen' THEN 0 ELSE 1) <= memories'[m]
  BY DEF MemorySpent
<1>3. /\ Copies(m) + calls[m] + (IF m \in seen THEN 0 ELSE 1) <= memories[m]
      /\ Copies(m) \in Nat /\ calls[m] \in Nat /\ memories[m] \in Nat
      /\ calls \in [Messages -> Nat] /\ memories \in [Messages -> Nat]
  BY <1>2 DEF MemorySpent, TypeOK
<1>4. ASSUME UNCHANGED intents PROVE Copies(m)' = Copies(m)
  BY <1>4 DEF Copies, Intents
<1>5. ASSUME NEW n \in Messages, n \notin seen, Submit(n), UNCHANGED <<intents, memories>>
      PROVE  Copies(m)' + calls'[m] + (IF m \in seen' THEN 0 ELSE 1) <= memories'[m]
  BY <1>3, <1>4, <1>5 DEF Submit, Remember
<1>6. CASE UNCHANGED <<seen, calls, intents, memories>>
  BY <1>3, <1>4, <1>6
<1>7. CASE HandleUpdate
  <2>1. PICK u \in batch :
          \/ UNCHANGED <<seen, calls>>
          \/ u \notin seen /\ Submit(u)
    BY <1>7 DEF HandleUpdate
  <2>2. u \in Messages /\ UNCHANGED <<intents, memories>>
    BY <1>7, RemoteAssumption DEF HandleUpdate, sharedVars, TypeOK, Messages, Updates
  <2> QED BY <1>5, <1>6, <2>1, <2>2
<1>8. ASSUME NEW n \in Posts, Post(n)
      PROVE  Copies(m)' + calls'[m] + (IF m \in seen' THEN 0 ELSE 1) <= memories'[m]
  BY <1>5, <1>8 DEF Post, sharedVars, Messages
<1>9. ASSUME NEW n \in Messages, SubmissionFails(n)
      PROVE  Copies(m)' + calls'[m] + (IF m \in seen' THEN 0 ELSE 1) <= memories'[m]
  BY <1>3, <1>4, <1>9 DEF SubmissionFails, sharedVars
<1>10. ASSUME NEW n \in Messages, CreateIntent(n)
       PROVE  Copies(m)' + calls'[m] + (IF m \in seen' THEN 0 ELSE 1) <= memories'[m]
  <2>1. Copies(m)' = Copies(m) + (IF m = n THEN 1 ELSE 0)
    BY <1>2, <1>10, CopiesAppend DEF CreateIntent, TypeOK
  <2>2. calls'[m] = calls[m] - (IF m = n THEN 1 ELSE 0) /\ UNCHANGED <<seen, memories>>
    BY <1>3, <1>10 DEF CreateIntent
  <2> QED BY <1>3, <2>1, <2>2
<1>11. ASSUME NEW n \in Messages, Forget(n)
       PROVE  Copies(m)' + calls'[m] + (IF m \in seen' THEN 0 ELSE 1) <= memories'[m]
  BY <1>3, <1>4, <1>11 DEF Forget, sharedVars
<1>12. CASE Restart
  BY <1>3, <1>4, <1>12 DEF Restart, sharedVars
<1> QED
  BY <1>6, <1>7, <1>8, <1>9, <1>10, <1>11, <1>12
     DEF Next, PollLoop, CallAnswered, Receive, Arrive, Poll, PollFails, Deliver,
         BatchDone, RegisterProjection, ReceiveCreated, ReceiveProjection, vars,
         ingressVars, sharedVars

\* A message becomes an intent once for every memory of it, for any messages,
\* losses and restarts.
THEOREM RemoteOncePerMemory == Spec => []OncePerMemory
<1>1. Init => MemorySpent
  <2> SUFFICES ASSUME Init, NEW m \in Messages PROVE Copies(m) = 0
    BY DEF Init, MemorySpent
  <2>1. {i \in Intents : intents[i] = m} = {}
    BY DEF Init, Intents
  <2> QED BY <2>1, FS_EmptySet DEF Copies
<1>2. TypeOK /\ MemorySpent => OncePerMemory
  <2> SUFFICES ASSUME TypeOK, MemorySpent, NEW m \in Messages
               PROVE  Copies(m) + calls[m] <= memories[m]
    BY DEF OncePerMemory
  <2>1. Copies(m) \in Nat
    BY CopiesNat, CopiesMade DEF TypeOK
  <2>2. calls[m] \in Nat /\ memories[m] \in Nat
    BY DEF TypeOK
  <2> QED BY <2>1, <2>2 DEF MemorySpent
<1> QED
  BY <1>1, <1>2, TypesInit, TypesStep, MemoryStep, PTL DEF Spec

------------------------------------------------------------------------------
\* Updates and the offset.

LEMMA BatchStep ==
  ASSUME TypeOK, BatchSound, [Next]_vars
  PROVE  BatchSound'
<1> USE DEF BatchSound
<1>0. /\ arrived \in Nat /\ confirmed \in 0..arrived /\ offset \in 0..(arrived + 1)
      /\ batch \subseteq 1..arrived
  BY RemoteAssumption DEF TypeOK
<1>1. CASE Poll
  <2>1. 1..confirmed' \subseteq attempted' /\ 1..(offset' - 1) \subseteq attempted'
    BY <1>0, <1>1 DEF Poll, Higher
  <2>2. ASSUME NEW u \in batch', NEW v \in 1..(u - 1)
        PROVE  v \in attempted' \/ v \in batch'
    BY <1>0, <1>1, <2>2 DEF Poll, Offered, Higher
  <2> QED BY <2>1, <2>2
<1>2. CASE PollFails
  BY <1>0, <1>2 DEF PollFails, Higher, loopVars
<1>3. CASE HandleUpdate
  <2>1. PICK u \in batch :
          /\ \A v \in batch : u <= v
          /\ offset' = u + 1 /\ attempted' = attempted \union {u}
          /\ batch' = {} \/ batch' = batch \ {u}
          /\ UNCHANGED confirmed
    BY <1>3 DEF HandleUpdate, OffsetPast, DropBatch
  <2>2. 1..(offset' - 1) \subseteq attempted'
    <3> SUFFICES ASSUME NEW v \in 1..u PROVE v \in attempted \/ v = u
      BY <1>0, <2>1
    <3> QED BY <1>0, <2>1
  <2> QED BY <1>0, <2>1, <2>2
<1>4. CASE /\ UNCHANGED <<confirmed, attempted, offset>>
           /\ batch' = {} \/ batch' = batch
  BY <1>4
<1>5. CASE Restart
  BY <1>0, <1>5 DEF Restart, DropBatch, telegramVars
<1> QED
  BY <1>1, <1>2, <1>3, <1>4, <1>5
     DEF Next, PollLoop, CallAnswered, Receive, Arrive, Deliver, BatchDone, Post,
         SubmissionFails, CreateIntent, RegisterProjection, ReceiveCreated,
         ReceiveProjection, Forget, DropBatch, vars, telegramVars, loopVars

\* Telegram forgets no update that was not handled, for any updates, failures
\* and restarts.
THEOREM RemoteConfirmedWasHandled == Spec => []ConfirmedWasHandled
<1>1. Init => BatchSound
  BY DEF Init, BatchSound
<1>2. BatchSound => ConfirmedWasHandled
  BY DEF BatchSound, ConfirmedWasHandled
<1> QED BY <1>1, <1>2, TypesInit, TypesStep, BatchStep, PTL DEF Spec

------------------------------------------------------------------------------
\* Projections and replies.

\* A step that leaves Shared, the connection and the outbox alone.
LEMMA NewsKept ==
  ASSUME NewsFollows, UNCHANGED <<furthest, inbox, told>>
  PROVE  NewsFollows'
BY DEF NewsFollows, Tracked

\* What is on its way, as facts about each place of the inbox.
LEMMA InboxFacts ==
  ASSUME TypeOK
  PROVE  /\ Len(inbox) \in Nat /\ Len(furthest) \in Nat
         /\ Intents = 1..Len(furthest)
         /\ \A n \in 1..Len(inbox) :
              /\ inbox[n].intent \in 1..Len(furthest)
              /\ inbox[n].cursor \in Nat
         /\ \A i \in 1..Len(furthest) : furthest[i] \in Nat
         /\ \A i \in Tracked : i \in 1..Len(furthest) /\ told[i] \in Nat
<1>1. Intents = 1..Len(furthest) /\ Len(furthest) \in Nat
  BY LenProperties DEF TypeOK, Intents
<1>2. \A n \in 1..Len(inbox) : inbox[n] \in [intent : Intents, cursor : 0..MaxCursor]
  BY ElementOfSeq DEF TypeOK
<1>3. \A i \in 1..Len(furthest) : furthest[i] \in 0..MaxCursor
  BY ElementOfSeq DEF TypeOK
<1>4. \A n \in 1..Len(inbox) : inbox[n].intent \in Intents /\ inbox[n].cursor \in Nat
  BY <1>2
<1>5. \A i \in Tracked : i \in Intents /\ told[i] \in Nat
  BY DEF TypeOK
<1>6. \A i \in 1..Len(furthest) : furthest[i] \in Nat
  BY <1>3
<1>7. Len(inbox) \in Nat
  BY LenProperties DEF TypeOK
<1> QED BY <1>1, <1>4, <1>5, <1>6, <1>7

LEMMA AppendAt ==
  ASSUME NEW S, NEW s \in Seq(S), NEW e
  PROVE  /\ Len(Append(s, e)) = Len(s) + 1
         /\ \A n \in 1..Len(s) : Append(s, e)[n] = s[n]
         /\ Append(s, e)[Len(s) + 1] = e
<1>1. s \in Seq(S \union {e})
  BY SeqMonotonic
<1> QED BY <1>1, AppendProperties

LEMMA NewsStep ==
  ASSUME TypeOK, NewsFollows, [Next]_vars
  PROVE  NewsFollows'
<1>0. /\ Len(inbox) \in Nat /\ Len(furthest) \in Nat
      /\ Intents = 1..Len(furthest)
      /\ \A n \in 1..Len(inbox) :
           inbox[n].intent \in 1..Len(furthest) /\ inbox[n].cursor \in Nat
      /\ \A i \in 1..Len(furthest) : furthest[i] \in Nat
      /\ \A i \in Tracked : i \in 1..Len(furthest) /\ told[i] \in Nat
  BY InboxFacts
<1>8. \A n \in 1..Len(inbox) : inbox[n].cursor <= furthest[inbox[n].intent]
  BY DEF NewsFollows
<1>9. \A n \in 1..Len(inbox) :
        inbox[n].cursor = 0 =>
          \/ furthest[inbox[n].intent] = 0
          \/ \E k \in 1..Len(inbox) :
               /\ k > n /\ inbox[k].intent = inbox[n].intent
               /\ inbox[k].cursor = furthest[inbox[n].intent]
  BY DEF NewsFollows
<1>10. \A i \in Tracked :
         /\ told[i] <= furthest[i]
         /\ \/ told[i] = furthest[i]
            \/ \E k \in 1..Len(inbox) :
                 inbox[k].intent = i /\ inbox[k].cursor = furthest[i]
  BY DEF NewsFollows
<1>1. ASSUME NEW m \in Messages, CreateIntent(m) PROVE NewsFollows'
  <2>1. /\ inbox' = Append(inbox, News(Len(intents) + 1, 0))
        /\ furthest' = Append(furthest, 0)
        /\ UNCHANGED told /\ Len(intents) = Len(furthest)
    BY <1>1 DEF CreateIntent, TypeOK
  <2>2. /\ Len(inbox') = Len(inbox) + 1
        /\ \A n \in 1..Len(inbox) : inbox'[n] = inbox[n]
        /\ inbox'[Len(inbox) + 1].intent = Len(furthest) + 1
        /\ inbox'[Len(inbox) + 1].cursor = 0
    BY <2>1, AppendAt DEF TypeOK, News
  <2>3. /\ Len(furthest') = Len(furthest) + 1
        /\ \A i \in 1..Len(furthest) : furthest'[i] = furthest[i]
        /\ furthest'[Len(furthest) + 1] = 0
    BY <2>1, AppendAt DEF TypeOK
  <2>4. ASSUME NEW n \in 1..Len(inbox')
        PROVE  inbox'[n].cursor <= furthest'[inbox'[n].intent]
    <3>1. CASE n \in 1..Len(inbox)
      <4>1. /\ inbox[n].cursor <= furthest[inbox[n].intent] /\ inbox'[n] = inbox[n]
            /\ inbox[n].intent \in 1..Len(furthest) /\ inbox[n].cursor \in Nat
            /\ furthest[inbox[n].intent] \in Nat
        BY <1>0, <1>8, <2>2, <3>1
      <4> QED BY <2>3, <4>1
    <3>2. CASE n = Len(inbox) + 1
      BY <2>2, <2>3, <3>2
    <3> QED BY <1>0, <2>2, <3>1, <3>2
  <2>5. ASSUME NEW n \in 1..Len(inbox'), inbox'[n].cursor = 0,
               furthest'[inbox'[n].intent] # 0
        PROVE  \E k \in 1..Len(inbox') :
                 /\ k > n /\ inbox'[k].intent = inbox'[n].intent
                 /\ inbox'[k].cursor = furthest'[inbox'[n].intent]
    <3>1. n \in 1..Len(inbox)
      BY <1>0, <2>2, <2>3, <2>5
    <3>2. PICK k \in 1..Len(inbox) : k > n /\ inbox[k].intent = inbox[n].intent
                                     /\ inbox[k].cursor = furthest[inbox[n].intent]
      BY <1>0, <1>9, <2>2, <2>3, <2>5, <3>1
    <3>3. /\ k \in 1..Len(inbox') /\ inbox'[k] = inbox[k] /\ inbox'[n] = inbox[n]
          /\ furthest'[inbox[n].intent] = furthest[inbox[n].intent]
      BY <1>0, <2>2, <2>3, <3>1
    <3> QED BY <3>2, <3>3
  <2>6. ASSUME NEW i \in Tracked
        PROVE  /\ told'[i] <= furthest'[i]
               /\ \/ told'[i] = furthest'[i]
                  \/ \E k \in 1..Len(inbox') :
                       inbox'[k].intent = i /\ inbox'[k].cursor = furthest'[i]
    BY <1>0, <1>10, <2>1, <2>2, <2>3
  <2> QED BY <2>1, <2>4, <2>5, <2>6 DEF Tracked, NewsFollows
<1>2. ASSUME NEW i \in Intents, NEW c \in 1..MaxCursor, RegisterProjection(i, c)
      PROVE  NewsFollows'
  <2>1. /\ inbox' = Append(inbox, News(i, c)) /\ UNCHANGED told
        /\ furthest' = [furthest EXCEPT ![i] = Higher(furthest[i], c)]
    BY <1>2 DEF RegisterProjection
  <2>2. /\ Len(inbox') = Len(inbox) + 1
        /\ \A n \in 1..Len(inbox) : inbox'[n] = inbox[n]
        /\ inbox'[Len(inbox) + 1].intent = i
        /\ inbox'[Len(inbox) + 1].cursor = c
    BY <2>1, AppendAt DEF TypeOK, News
  <2>3. /\ furthest[i] \in Nat /\ c \in Nat \ {0}
        /\ furthest'[i] = IF furthest[i] > c THEN furthest[i] ELSE c
        /\ \A j \in 1..Len(furthest) : j # i => furthest'[j] = furthest[j]
    <3>1. DOMAIN furthest = 1..Len(furthest) /\ i \in 1..Len(furthest)
      BY <1>0, LenProperties DEF TypeOK
    <3> QED BY <1>0, <2>1, <3>1 DEF Higher
  <2>4. ASSUME NEW n \in 1..Len(inbox')
        PROVE  inbox'[n].cursor <= furthest'[inbox'[n].intent]
    <3>1. CASE n \in 1..Len(inbox)
      <4>1. /\ inbox[n].cursor <= furthest[inbox[n].intent] /\ inbox'[n] = inbox[n]
            /\ inbox[n].intent \in 1..Len(furthest) /\ inbox[n].cursor \in Nat
            /\ furthest[inbox[n].intent] \in Nat
        BY <1>0, <1>8, <2>2, <3>1
      <4> QED BY <2>3, <4>1
    <3>2. CASE n = Len(inbox) + 1
      BY <2>2, <2>3, <3>2
    <3> QED BY <1>0, <2>2, <3>1, <3>2
  <2>5. ASSUME NEW n \in 1..Len(inbox'), inbox'[n].cursor = 0,
               furthest'[inbox'[n].intent] # 0
        PROVE  \E k \in 1..Len(inbox') :
                 /\ k > n /\ inbox'[k].intent = inbox'[n].intent
                 /\ inbox'[k].cursor = furthest'[inbox'[n].intent]
    <3>1. n \in 1..Len(inbox) /\ inbox[n].cursor = 0
      BY <1>0, <2>2, <2>3, <2>5
    <3>2. CASE inbox[n].intent = i /\ furthest'[i] = c
      BY <1>0, <2>2, <3>1, <3>2
    <3>3. CASE furthest'[inbox[n].intent] = furthest[inbox[n].intent]
      <4>1. PICK k \in 1..Len(inbox) : k > n /\ inbox[k].intent = inbox[n].intent
                                       /\ inbox[k].cursor = furthest[inbox[n].intent]
        BY <1>0, <1>9, <2>2, <2>5, <3>1, <3>3
      <4> QED BY <1>0, <2>2, <3>1, <3>3, <4>1
    <3> QED BY <1>0, <2>2, <2>3, <3>1, <3>2, <3>3
  <2>6. ASSUME NEW j \in Tracked
        PROVE  /\ told'[j] <= furthest'[j]
               /\ \/ told'[j] = furthest'[j]
                  \/ \E k \in 1..Len(inbox') :
                       inbox'[k].intent = j /\ inbox'[k].cursor = furthest'[j]
    <3>1. j \in 1..Len(furthest) /\ told[j] \in Nat /\ told'[j] = told[j]
      BY <1>0, <2>1
    <3>2. told[j] <= furthest[j]
      BY <1>10
    <3>3. CASE furthest'[j] = furthest[j]
      <4>1. CASE told[j] = furthest[j]
        BY <1>0, <3>1, <3>3, <4>1
      <4>2. ASSUME NEW k \in 1..Len(inbox), inbox[k].intent = j, inbox[k].cursor = furthest[j]
            PROVE  k \in 1..Len(inbox') /\ inbox'[k].intent = j
                   /\ inbox'[k].cursor = furthest'[j]
        BY <1>0, <2>2, <3>3, <4>2
      <4> QED BY <1>10, <3>1, <3>2, <3>3, <4>1, <4>2
    <3>4. CASE j = i /\ furthest'[i] = c
      <4>1. /\ Len(inbox) + 1 \in 1..Len(inbox')
            /\ inbox'[Len(inbox) + 1].intent = j
            /\ inbox'[Len(inbox) + 1].cursor = furthest'[j]
        BY <1>0, <2>2, <3>4
      <4>2. told[j] <= furthest'[j]
        BY <2>3, <3>1, <3>2, <3>4
      <4> QED BY <3>1, <4>1, <4>2
    <3> QED BY <2>3, <3>1, <3>3, <3>4
  <2> QED BY <2>1, <2>4, <2>5, <2>6 DEF Tracked, NewsFollows
<1>3. ASSUME inbox # <<>>, inbox' = Tail(inbox), UNCHANGED furthest
      PROVE  /\ Len(inbox') = Len(inbox) - 1 /\ Len(inbox) >= 1
             /\ \A n \in 1..Len(inbox') : inbox'[n] = inbox[n + 1]
             /\ Head(inbox) = inbox[1]
             /\ \A n \in 1..Len(inbox') : inbox'[n].cursor <= furthest'[inbox'[n].intent]
             /\ \A n \in 1..Len(inbox') :
                  inbox'[n].cursor = 0 =>
                    \/ furthest'[inbox'[n].intent] = 0
                    \/ \E k \in 1..Len(inbox') :
                         /\ k > n /\ inbox'[k].intent = inbox'[n].intent
                         /\ inbox'[k].cursor = furthest'[inbox'[n].intent]
             /\ \A k \in 1..Len(inbox) : k > 1 =>
                  k - 1 \in 1..Len(inbox') /\ inbox'[k - 1] = inbox[k]
  <2>1. /\ Len(inbox') = Len(inbox) - 1 /\ Len(inbox) >= 1
        /\ \A n \in 1..Len(inbox') : inbox'[n] = inbox[n + 1]
        /\ Head(inbox) = inbox[1]
    BY <1>0, <1>3, HeadTailProperties, EmptySeq DEF TypeOK
  <2>2. \A k \in 1..Len(inbox) : k > 1 =>
          k - 1 \in 1..Len(inbox') /\ inbox'[k - 1] = inbox[k]
    BY <1>0, <2>1
  <2>3. \A n \in 1..Len(inbox') : inbox'[n].cursor <= furthest'[inbox'[n].intent]
    BY <1>0, <1>3, <1>8, <2>1
  <2>4. ASSUME NEW n \in 1..Len(inbox'), inbox'[n].cursor = 0,
               furthest'[inbox'[n].intent] # 0
        PROVE  \E k \in 1..Len(inbox') :
                 /\ k > n /\ inbox'[k].intent = inbox'[n].intent
                 /\ inbox'[k].cursor = furthest'[inbox'[n].intent]
    <3>1. n + 1 \in 1..Len(inbox) /\ inbox[n + 1] = inbox'[n]
      BY <1>0, <2>1
    <3>2. PICK k \in 1..Len(inbox) :
            /\ k > n + 1 /\ inbox[k].intent = inbox[n + 1].intent
            /\ inbox[k].cursor = furthest[inbox[n + 1].intent]
      BY <1>3, <1>9, <2>4, <3>1
    <3>3. k - 1 \in 1..Len(inbox') /\ inbox'[k - 1] = inbox[k] /\ k - 1 > n
      BY <1>0, <2>2, <3>1, <3>2
    <3> QED BY <1>3, <3>1, <3>2, <3>3
  <2> QED BY <2>1, <2>2, <2>3, <2>4
<1>4. CASE ReceiveCreated
  <2> DEFINE i == Head(inbox).intent
  <2>1. /\ inbox # <<>> /\ inbox' = Tail(inbox) /\ UNCHANGED furthest
        /\ Head(inbox).cursor = 0
        /\ Tracked' = Tracked \union {i}
        /\ \A j \in Tracked' : told'[j] = IF j = i THEN 0 ELSE told[j]
    BY <1>4 DEF ReceiveCreated, sharedVars, Tracked
  <2>2. ASSUME NEW j \in Tracked'
        PROVE  /\ told'[j] <= furthest'[j]
               /\ \/ told'[j] = furthest'[j]
                  \/ \E k \in 1..Len(inbox') :
                       inbox'[k].intent = j /\ inbox'[k].cursor = furthest'[j]
    <3>0. 1 \in 1..Len(inbox) /\ inbox[1] = Head(inbox)
      BY <1>0, <1>3, <2>1
    <3>1. CASE j = i
      <4>1. \/ furthest[i] = 0
            \/ \E k \in 1..Len(inbox) :
                 k > 1 /\ inbox[k].intent = i /\ inbox[k].cursor = furthest[i]
        BY <1>9, <2>1, <3>0
      <4>2. furthest[i] \in Nat
        BY <1>0, <3>0
      <4> QED BY <1>3, <2>1, <3>1, <4>1, <4>2
    <3>2. CASE j # i
      <4>1. j \in Tracked /\ told'[j] = told[j]
        BY <2>1, <3>2
      <4>2. \/ told[j] = furthest[j]
            \/ \E k \in 1..Len(inbox) :
                 k > 1 /\ inbox[k].intent = j /\ inbox[k].cursor = furthest[j]
        BY <1>0, <1>10, <3>0, <3>2, <4>1
      <4>3. told[j] <= furthest[j]
        BY <1>10, <4>1
      <4>4. ASSUME NEW k \in 1..Len(inbox), k > 1, inbox[k].intent = j,
                   inbox[k].cursor = furthest[j]
            PROVE  /\ k - 1 \in 1..Len(inbox') /\ inbox'[k - 1].intent = j
                   /\ inbox'[k - 1].cursor = furthest'[j]
        BY <1>3, <2>1, <4>4
      <4> QED BY <2>1, <4>1, <4>2, <4>3, <4>4
    <3> QED BY <3>1, <3>2
  <2> HIDE DEF i
  <2> QED BY <1>3, <2>1, <2>2 DEF NewsFollows
<1>5. CASE ReceiveProjection
  <2> DEFINE i == Head(inbox).intent
             c == Head(inbox).cursor
  <2>1. /\ inbox # <<>> /\ inbox' = Tail(inbox) /\ UNCHANGED furthest
        /\ told' = IF IsNews(i, c) THEN [told EXCEPT ![i] = c] ELSE told
        /\ Tracked' = Tracked
    BY <1>5 DEF ReceiveProjection, sharedVars, Tracked
  <2>2. ASSUME NEW j \in Tracked
        PROVE  /\ told'[j] <= furthest'[j]
               /\ \/ told'[j] = furthest'[j]
                  \/ \E k \in 1..Len(inbox') :
                       inbox'[k].intent = j /\ inbox'[k].cursor = furthest'[j]
    <3>0. 1 \in 1..Len(inbox) /\ inbox[1] = Head(inbox)
      BY <1>0, <1>3, <2>1
    <3>1. told'[j] = IF j = i /\ c > told[j] THEN c ELSE told[j]
      BY <2>1 DEF IsNews, Tracked
    <3>2. c \in Nat /\ c <= furthest[i]
      BY <1>0, <1>8, <3>0
    <3>3. \/ told'[j] = furthest[j]
          \/ \E k \in 1..Len(inbox) :
               k > 1 /\ inbox[k].intent = j /\ inbox[k].cursor = furthest[j]
      BY <1>0, <1>10, <3>0, <3>1, <3>2
    <3>4. told'[j] <= furthest[j]
      BY <1>0, <1>10, <3>1, <3>2
    <3>5. ASSUME NEW k \in 1..Len(inbox), k > 1, inbox[k].intent = j,
                 inbox[k].cursor = furthest[j]
          PROVE  /\ k - 1 \in 1..Len(inbox') /\ inbox'[k - 1].intent = j
                 /\ inbox'[k - 1].cursor = furthest'[j]
      BY <1>3, <2>1, <3>5
    <3> QED BY <2>1, <3>3, <3>4, <3>5
  <2> HIDE DEF i, c
  <2> QED BY <1>3, <2>1, <2>2 DEF NewsFollows
<1>6. CASE Restart
  <2>1. inbox' = <<>> /\ Tracked' = {}
    BY <1>6 DEF Restart, Tracked
  <2>2. 1..Len(inbox') = {}
    BY <2>1
  <2> QED BY <2>1, <2>2 DEF NewsFollows
<1>7. CASE UNCHANGED <<furthest, inbox, told>>
  BY <1>7, NewsKept
<1> QED
  BY <1>1, <1>2, <1>4, <1>5, <1>6, <1>7
     DEF Next, PollLoop, CallAnswered, Receive, Arrive, Poll, PollFails, HandleUpdate,
         Deliver, BatchDone, Post, SubmissionFails, Forget, vars, sharedVars

\* No projection is skipped between the broker and the channel's replies, for
\* any cursors in any order.
THEOREM RemoteNothingUntold == Spec => []NothingUntold
<1>1. Init => NewsFollows
  BY DEF Init, NewsFollows, Tracked
<1>2. TypeOK /\ NewsFollows => NothingUntold
  <2> SUFFICES ASSUME TypeOK, NewsFollows, NEW i \in Tracked
               PROVE  furthest[i] \in Due(i) /\ \A c \in Due(i) : c <= furthest[i]
    BY DEF NothingUntold
  <2>1. DOMAIN inbox = 1..Len(inbox)
    BY LenProperties DEF TypeOK
  <2>2. Due(i) = {told[i]} \union
                   {inbox[n].cursor : n \in {k \in 1..Len(inbox) : inbox[k].intent = i}}
    BY <2>1 DEF Due
  <2> QED BY <2>2 DEF NewsFollows
<1> QED BY <1>1, <1>2, TypesInit, TypesStep, NewsStep, PTL DEF Spec
=============================================================================
