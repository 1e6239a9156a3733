---------------------------- MODULE RemoteControl ----------------------------
(* The remote-control pagelet's worker between its channels and the run     *)
(* broker: the Telegram poll loop, messages posted by the other channels,   *)
(* the guard against replays, the intents made of messages, and the replies *)
(* that tell a channel how its run goes.                                    *)
(*                                                                          *)
(* Shared answers and tells of projections over one connection that keeps   *)
(* their order. What is remembered of a message ends with its ten minutes,  *)
(* with the thousandth newer one, or with the process.                      *)
EXTENDS Integers, Sequences, FiniteSets

CONSTANTS
  Posts,        \* messages of channels that call submitExternalMessage
  MaxUpdates,   \* bound: updates Telegram has for the bot, numbered from 1
  MaxCursor,    \* bound: cursors of a run's projections, from 1
  MaxInbox,     \* bound: what Shared has sent and the worker not taken
  MaxIntents,   \* bound: intents made
  MaxNews,      \* bound: projections registered
  MaxForgets,   \* bound: messages forgotten while the process lives
  MaxRestarts   \* bound: deaths of the pagelet process

Updates == 1..MaxUpdates
Messages == Posts \union Updates

ASSUME RemoteAssumption ==
  /\ Posts \intersect Nat = {}
  /\ IsFiniteSet(Posts)
  /\ MaxUpdates \in Nat /\ MaxCursor \in Nat /\ MaxInbox \in Nat
  /\ MaxIntents \in Nat /\ MaxNews \in Nat
  /\ MaxForgets \in Nat /\ MaxRestarts \in Nat

VARIABLES
  seen,       \* ingressPolicy: the messages it remembers
  calls,      \* calls of createRunIntent under way, by message
  intents,    \* Shared: the message each intent was made of
  furthest,   \* Shared: the highest cursor registered for each intent's run
  inbox,      \* from Shared: an answer (cursor 0) or a projection
  told,       \* replyOutbox: lastCursor of each intent it replies for,
              \* 0 while there is the queued reply only
  arrived,    \* Telegram: updates it has got from users
  confirmed,  \* Telegram: updates it will not hand out again
  offset,     \* the adapter's next update, 0 before the first
  batch,      \* the updates fetched and not handled yet
  loop,       \* where pollLoop is
  current,    \* the update it handles, or handled last
  attempted,  \* history: updates a handler was called with
  memories,   \* history: how often a message may have been new
  news, forgets, restarts

ingressVars == <<seen, calls, memories, forgets>>
sharedVars == <<intents, furthest, news>>
telegramVars == <<arrived, confirmed, attempted>>
loopVars == <<offset, current, batch, loop>>
vars == <<ingressVars, sharedVars, inbox, told, telegramVars, loopVars,
          restarts>>

------------------------------------------------------------------------------
Higher(a, b) == IF a > b THEN a ELSE b
Intents == DOMAIN intents
Tracked == DOMAIN told
Copies(m) == Cardinality({i \in Intents : intents[i] = m})
News(i, c) == [intent |-> i, cursor |-> c]

\* The updates Telegram hands out to a poll from offset on.
Offered(from) == Higher(confirmed + 1, from)..arrived

\* fault: the offset is moved past all that has arrived
OffsetPastBatch(u) == arrived + 1

\* fault: the update is asked for again
OffsetAt(u) == u

\* handling an update starts by moving the offset past it
OffsetPast(u) == u + 1

\* A handler threw: the rest of the batch is dropped and fetched again.
DropBatch ==
  /\ loop' = "poll"
  /\ batch' = {}

\* fault: a message is remembered once its intent is there
RememberLater(m) == UNCHANGED seen

\* accept, before anything is awaited
Remember(m) == seen' = seen \union {m}

Submit(m) ==
  /\ Remember(m)
  /\ calls' = [calls EXCEPT ![m] = @ + 1]

------------------------------------------------------------------------------
\* The Telegram poll loop.

\* A user sends the bot a message.
Arrive ==
  /\ arrived < MaxUpdates
  /\ arrived' = arrived + 1
  /\ UNCHANGED <<ingressVars, sharedVars, inbox, told, confirmed,
                 attempted, loopVars, restarts>>

\* getUpdates: what lies before the offset is confirmed by asking.
Poll ==
  /\ loop = "poll"
  /\ confirmed' = Higher(confirmed, offset - 1)
  /\ Offered(offset) # {}
  /\ batch' = Offered(offset)
  /\ loop' = "handle"
  /\ UNCHANGED <<ingressVars, sharedVars, inbox, told, arrived, attempted,
                 offset, current, restarts>>

\* getUpdates fails after Telegram has read it.
PollFails ==
  /\ loop = "poll"
  /\ confirmed' = Higher(confirmed, offset - 1)
  /\ UNCHANGED <<ingressVars, sharedVars, inbox, told, arrived,
                 attempted, loopVars, restarts>>

\* The next update of the batch: a prompt seen before throws, a new one is
\* submitted and awaited, a command such as /runs has its reply at once.
HandleUpdate ==
  /\ loop = "handle"
  /\ \E u \in batch :
       /\ \A v \in batch : u <= v
       /\ current' = u
       /\ offset' = OffsetPast(u)
       /\ attempted' = attempted \union {u}
       /\ \/ u \in seen /\ DropBatch /\ UNCHANGED <<seen, calls>>
          \/ /\ u \notin seen
             /\ Submit(u)
             /\ loop' = "submit"
             /\ batch' = batch \ {u}
          \/ /\ loop' = "deliver"
             /\ batch' = batch \ {u}
             /\ UNCHANGED <<seen, calls>>
  /\ UNCHANGED <<memories, forgets, sharedVars, inbox, told, arrived,
                 confirmed, restarts>>

\* deliverReply: a send that fails throws.
Deliver ==
  /\ loop = "deliver"
  /\ \/ loop' = "handle" /\ UNCHANGED batch
     \/ DropBatch
  /\ UNCHANGED <<ingressVars, sharedVars, inbox, told, telegramVars,
                 offset, current, restarts>>

\* for (const update of updates) is through
BatchDone ==
  /\ loop = "handle"
  /\ batch = {}
  /\ DropBatch
  /\ UNCHANGED <<ingressVars, sharedVars, inbox, told, telegramVars,
                 offset, current, restarts>>

------------------------------------------------------------------------------
\* submitExternalMessage and the replies of its run.

\* A channel posts m; posting it again while it is remembered is refused.
Post(m) ==
  /\ m \notin seen
  /\ Submit(m)
  /\ UNCHANGED <<memories, forgets, sharedVars, inbox, told,
                 telegramVars, loopVars, restarts>>

\* The loop awaits the submission of the update it took last.
Awaited(m) == loop = "submit" /\ m = current

\* The rate limit or the device binding refuses m, or the call fails.
SubmissionFails(m) ==
  /\ calls[m] > 0
  /\ calls' = [calls EXCEPT ![m] = @ - 1]
  /\ IF Awaited(m) THEN DropBatch ELSE UNCHANGED <<loop, batch>>
  /\ UNCHANGED <<seen, memories, forgets, sharedVars, inbox, told,
                 telegramVars, offset, current, restarts>>

\* Shared makes the intent and answers.
CreateIntent(m) ==
  /\ calls[m] > 0
  /\ Len(inbox) < MaxInbox
  /\ Len(intents) < MaxIntents
  /\ calls' = [calls EXCEPT ![m] = @ - 1]
  /\ intents' = Append(intents, m)
  /\ furthest' = Append(furthest, 0)
  /\ inbox' = Append(inbox, News(Len(intents) + 1, 0))
  /\ UNCHANGED <<news, seen, memories, forgets, told, telegramVars, loopVars,
                 restarts>>

\* A pagelet registers a projection of the intent's run. The broker takes
\* any cursor and tells its subscribers.
RegisterProjection(i, c) ==
  /\ Len(inbox) < MaxInbox
  /\ news < MaxNews
  /\ news' = news + 1
  /\ furthest' = [furthest EXCEPT ![i] = Higher(@, c)]
  /\ inbox' = Append(inbox, News(i, c))
  /\ UNCHANGED <<ingressVars, intents, told, telegramVars, loopVars,
                 restarts>>

\* trackSubmission, with the queued reply
ReceiveCreated ==
  /\ inbox # <<>>
  /\ Head(inbox).cursor = 0
  /\ LET i == Head(inbox).intent
     IN  /\ told' = [j \in Tracked \union {i} |-> IF j = i THEN 0 ELSE told[j]]
         /\ loop' = IF Awaited(intents[i]) THEN "deliver" ELSE loop
  /\ inbox' = Tail(inbox)
  /\ UNCHANGED <<ingressVars, sharedVars, telegramVars, offset, current,
                 batch, restarts>>

\* fault: a projection is told of whatever its cursor
IsNewsAlways(i, c) == i \in Tracked

\* recordProjection: of a run it tracks, later than the last reply
IsNews(i, c) == i \in Tracked /\ c > told[i]

ReceiveProjection ==
  /\ inbox # <<>>
  /\ Head(inbox).cursor > 0
  /\ LET i == Head(inbox).intent
         c == Head(inbox).cursor
     IN  told' = IF IsNews(i, c) THEN [told EXCEPT ![i] = c] ELSE told
  /\ inbox' = Tail(inbox)
  /\ UNCHANGED <<ingressVars, sharedVars, telegramVars, loopVars,
                 restarts>>

------------------------------------------------------------------------------
\* What is lost.

\* Ten minutes pass, or a thousand newer messages come.
Forget(m) ==
  /\ m \in seen
  /\ forgets < MaxForgets
  /\ forgets' = forgets + 1
  /\ seen' = seen \ {m}
  /\ memories' = [memories EXCEPT ![m] = @ + 1]
  /\ UNCHANGED <<calls, sharedVars, inbox, told, telegramVars, loopVars,
                 restarts>>

\* The process dies and is started again; nothing of this is on disk. Calls
\* and answers under way are gone with the connection.
Restart ==
  /\ restarts < MaxRestarts
  /\ restarts' = restarts + 1
  /\ seen' = {}
  /\ memories' = [m \in Messages |->
                    IF m \in seen THEN memories[m] + 1 ELSE memories[m]]
  /\ calls' = [m \in Messages |-> 0]
  /\ inbox' = <<>>
  /\ told' = [i \in {} |-> 0]
  /\ offset' = 0
  /\ current' = 0
  /\ DropBatch
  /\ UNCHANGED <<sharedVars, telegramVars, forgets>>

------------------------------------------------------------------------------
Init ==
  /\ seen = {}
  /\ calls = [m \in Messages |-> 0]
  /\ intents = <<>>
  /\ furthest = <<>>
  /\ inbox = <<>>
  /\ told = [i \in {} |-> 0]
  /\ arrived = 0
  /\ confirmed = 0
  /\ offset = 0
  /\ current = 0
  /\ batch = {}
  /\ loop = "poll"
  /\ attempted = {}
  /\ memories = [m \in Messages |-> 1]
  /\ news = 0
  /\ forgets = 0
  /\ restarts = 0

CallAnswered(m) == CreateIntent(m) \/ SubmissionFails(m)
PollLoop == Poll \/ HandleUpdate \/ Deliver \/ BatchDone
Receive == ReceiveCreated \/ ReceiveProjection

Next ==
  \/ Arrive
  \/ PollLoop
  \/ PollFails
  \/ \E m \in Posts : Post(m)
  \/ \E m \in Messages : CallAnswered(m)
  \/ \E i \in Intents, c \in 1..MaxCursor : RegisterProjection(i, c)
  \/ Receive
  \/ \E m \in Messages : Forget(m)
  \/ Restart

Spec == Init /\ [][Next]_vars

\* The worker runs on, the connection delivers, and a call is answered or
\* rejected.
FairSpec ==
  /\ Spec
  /\ WF_vars(PollLoop)
  /\ WF_vars(Receive)
  /\ WF_vars(\E m \in Messages : CallAnswered(m))

------------------------------------------------------------------------------
\* Properties

TypeOK ==
  /\ seen \subseteq Messages
  /\ calls \in [Messages -> Nat]
  /\ intents \in Seq(Messages)
  /\ furthest \in Seq(0..MaxCursor)
  /\ Len(furthest) = Len(intents)
  /\ inbox \in Seq([intent : Intents, cursor : 0..MaxCursor])
  /\ Tracked \subseteq Intents
  /\ told \in [Tracked -> 0..MaxCursor]
  /\ arrived \in 0..MaxUpdates
  /\ confirmed \in 0..arrived
  /\ offset \in 0..(arrived + 1)
  /\ current \in 0..arrived
  /\ batch \subseteq 1..arrived
  /\ loop \in {"poll", "handle", "submit", "deliver"}
  /\ attempted \subseteq Updates
  /\ memories \in [Messages -> Nat]
  /\ news \in Nat
  /\ forgets \in Nat
  /\ restarts \in Nat

\* The cursors told of intent i, or on their way to the worker.
Due(i) ==
  {told[i]} \union
    {inbox[n].cursor : n \in {k \in DOMAIN inbox : inbox[k].intent = i}}

\* What a channel has been told of an intent's run, or will be by what the
\* worker has not taken yet, is the furthest the run has got: replies stop
\* neither because the projection came before the intent's answer nor because
\* a stale one came in between (trackSubmission, recordProjection).
NothingUntold ==
  \A i \in Tracked :
    /\ furthest[i] \in Due(i)
    /\ \A c \in Due(i) : c <= furthest[i]

\* A message becomes an intent once for every time the guard has known
\* nothing of it: redeliveries, however they fall between the call and its
\* answer, run nothing twice (RemoteControlIngressPolicy.accept).
OncePerMemory ==
  \A m \in Messages : Copies(m) + calls[m] <= memories[m]

\* What Telegram will not hand out again has been handled: a batch dropped
\* half way, a poll that fails or a restart loses no update (pollLoop).
ConfirmedWasHandled == 1..confirmed \subseteq attempted

\* Every update is handled, even when one before it in its batch always
\* fails (pollLoop, deliverReply).
EveryUpdateAttempted ==
  \A u \in Updates : (u <= arrived) ~> (u \in attempted)
=============================================================================
