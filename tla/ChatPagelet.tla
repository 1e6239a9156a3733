----------------------------- MODULE ChatPagelet -----------------------------
(* The Chat pagelet's worker between its ledger and the run broker: runs    *)
(* started by the renderer or from queued intents, the events they write,   *)
(* the projections published of them, remote commands, session deletion,    *)
(* and a pagelet process that dies.                                         *)
(*                                                                          *)
(* The ledger's own steps are AgentRunLedger's and the broker's are         *)
(* RunBroker's: here an append, a creation, a deletion and a call of the    *)
(* broker is one step each. A call counts as sent when it takes effect.     *)
EXTENDS Naturals, Sequences

CONSTANTS
  Runs,        \* run ids; one session holds them all
  Sends,       \* handleSend calls that may be made for each run
  Polls,       \* consumeQueuedRunIntents calls that may overlap
  None,        \* no handleSend call, or no run
  MaxCrashes,  \* bound: deaths of the pagelet process
  MaxLost      \* bound: calls of the broker that fail

ASSUME ChatAssumption ==
  /\ None \notin Sends
  /\ None \notin Runs
  /\ MaxCrashes \in Nat
  /\ MaxLost \in Nat

VARIABLES
  record,      \* the ledger's record of each run: status and eventCount
  buffer,      \* events appended and not taken by a flush
  flight,      \* the flush in flight of each run
  early,       \* publications of a run that no flush waits for
  sends,       \* where each handleSend call is
  activeRuns,  \* the call whose controller is registered for the run
  polls,       \* where each poll for intents is
  handler,     \* where handleRunControlCommand is for the run's command
  deletion,    \* where deleteSessionRuns is
  up,          \* the pagelet process runs
  projection,  \* broker: the run's projection
  intent,      \* broker: the status of the intent that asks for the run
  command,     \* broker: the status of the run's one cancel command
  past,        \* history: all a record has been
  dropped,     \* history: runs whose intent was claimed and then forgotten
  lost,        \* history: runs of which a publication was lost
  late,        \* history: runs told of late, or deleted beside a creation
  crashes, losses

ledgerVars == <<record, buffer, flight, past>>
pageletVars == <<sends, activeRuns, polls, handler, deletion, up>>
brokerVars == <<projection, intent, command>>
historyVars == <<dropped, lost, late, crashes, losses>>
vars == <<ledgerVars, early, pageletVars, brokerVars, historyVars>>

------------------------------------------------------------------------------
Terminal == {"completed", "failed", "cancelled", "recovered"}
Statuses == {"queued", "running"} \union Terminal
Events == {"run_started", "run_completed", "run_failed", "run_cancelled",
           "runtime_log"}

\* What the ledger has of a run, and what a publication tells the broker of it.
Record(status, count) == [status |-> status, count |-> count]
NoRecord == Record("absent", 0)
Present(r) == record[r].status # "absent"

\* fault: only running runs are settled on start
UnfinishedRunning == {"running"}
Unfinished == {"queued", "running"}

StatusAfter == [run_started |-> "running", run_completed |-> "completed",
                run_failed |-> "failed", run_cancelled |-> "cancelled"]

\* patchForEvent over a batch: every event counts, the last that says
\* something of the status decides it
Patched(rec, batch) ==
  LET telling == {i \in DOMAIN batch : batch[i] # "runtime_log"}
      last == CHOOSE i \in telling : \A j \in telling : j <= i
  IN  Record(IF telling = {} THEN rec.status ELSE StatusAfter[batch[last]],
             rec.count + Len(batch))

NoFlight == [at |-> "none", batch |-> <<>>, news |-> NoRecord]
Writing(batch) == [at |-> "writing", batch |-> batch, news |-> NoRecord]
Sending(news) == [at |-> "sending", batch |-> <<>>, news |-> news]
Unused == [at |-> "unused", aborted |-> FALSE, said |-> "nothing"]
Resting == [at |-> "idle", todo |-> {}, run |-> None]
Alive(s) == s.at \notin {"unused", "done", "gone"}
Controlled(r) == activeRuns[r] # None
Started(r) == {k \in Sends : sends[r][k].at # "unused"}

\* append, which flushes at once unless a flush is in flight
AppendEvent(r, event) ==
  LET pending == Append(buffer[r], event)
  IN  IF flight[r].at = "none"
      THEN /\ flight' = [flight EXCEPT ![r] = Writing(pending)]
           /\ buffer' = [buffer EXCEPT ![r] = <<>>]
      ELSE /\ buffer' = [buffer EXCEPT ![r] = pending]
           /\ UNCHANGED flight

\* A call that awaited the flush goes on.
Resumed(s) == [s EXCEPT !.at = IF @ = "saving" THEN "running"
                               ELSE IF @ = "closing" THEN "closed" ELSE @]

\* The flush in flight settles, and with it all that await its promise.
Settle(r) ==
  /\ flight' = [flight EXCEPT ![r] = NoFlight]
  /\ sends' = [sends EXCEPT ![r] = [k \in Sends |-> Resumed(sends[r][k])]]
  /\ handler' = [handler EXCEPT ![r] = IF @ = "logging" THEN "acting" ELSE @]
  /\ deletion' = [deletion EXCEPT !.awaits = @ \ {r}]

\* A later publication or the deletion of the run came before this one.
Overtaken(r, news) ==
  \/ news.count < projection[r].count
  \/ ~Present(r) \/ record[r].count < news.count

\* fault: a projection gives way only to one with a later cursor
RegisterNewer(r, news) ==
  /\ projection' = [projection EXCEPT ![r] =
       IF @ = NoRecord \/ news.count > @.count THEN news ELSE @]
  /\ late' = IF Overtaken(r, news) THEN late \union {r} ELSE late
  /\ UNCHANGED <<intent, command>>

\* registerRunProjection takes what it is given.
Register(r, news) ==
  /\ projection' = [projection EXCEPT ![r] = news]
  /\ late' = IF Overtaken(r, news) THEN late \union {r} ELSE late
  /\ UNCHANGED <<intent, command>>

\* fault: events that are not written yet are counted
NewsBuffered(r, rec) == Record(rec.status, rec.count + Len(buffer[r]))

\* What a flush publishes: the status and the seq of its last event.
News(r, rec) == Record(rec.status, rec.count)

\* A call of the broker for run r fails; the pagelet ignores it.
LoseCall(r) ==
  /\ losses < MaxLost
  /\ losses' = losses + 1
  /\ lost' = lost \union {r}

------------------------------------------------------------------------------
\* The writer: flush, onFlush, and the timer for what a flush left behind.

\* fault: the record is written whether or not the run is still there
FoundAlways(r) == TRUE

\* requireRun, when the batch's turn has come
Found(r) == Present(r)

WriteBatch(r) ==
  /\ flight[r].at = "writing"
  /\ LET next == Patched(record[r], flight[r].batch)
     IN  IF Found(r)
         THEN /\ record' = [record EXCEPT ![r] = next]
              /\ past' = [past EXCEPT ![r] = @ \union {next}]
              /\ flight' = [flight EXCEPT ![r] = Sending(News(r, next))]
              /\ UNCHANGED <<sends, handler, deletion>>
         ELSE Settle(r) /\ UNCHANGED <<record, past>>
  /\ UNCHANGED <<buffer, early, activeRuns, polls, up, brokerVars, historyVars>>

PublishFlush(r) ==
  /\ flight[r].at = "sending"
  /\ Register(r, flight[r].news)
  /\ Settle(r)
  /\ UNCHANGED <<record, buffer, past, early, activeRuns, polls, up, dropped,
                 lost, crashes, losses>>

\* onFlush finds no record, or the broker does not answer.
SkipFlush(r) ==
  /\ flight[r].at = "sending"
  /\ \/ ~Present(r) /\ UNCHANGED <<lost, losses>>
     \/ LoseCall(r)
  /\ Settle(r)
  /\ UNCHANGED <<record, buffer, past, early, activeRuns, polls, up,
                 brokerVars, dropped, late, crashes>>

FlushTimer(r) ==
  /\ flight[r].at = "none"
  /\ buffer[r] # <<>>
  /\ flight' = [flight EXCEPT ![r] = Writing(buffer[r])]
  /\ buffer' = [buffer EXCEPT ![r] = <<>>]
  /\ UNCHANGED <<record, past, early, pageletVars, brokerVars, historyVars>>

\* A publication that nothing waits for: of a created or a recovered run.
PublishEarly(r, news) ==
  /\ news \in early[r]
  /\ early' = [early EXCEPT ![r] = @ \ {news}]
  /\ \/ Register(r, news) /\ UNCHANGED <<lost, losses>>
     \/ LoseCall(r) /\ UNCHANGED <<brokerVars, late>>
  /\ UNCHANGED <<ledgerVars, pageletVars, dropped, crashes>>

------------------------------------------------------------------------------
\* handleSend

\* The run's controller replaces the one registered before.
StartSend(r) ==
  \E k \in Sends :
    /\ sends[r][k].at = "unused"
    /\ sends' = [sends EXCEPT ![r][k].at = "creating"]
    /\ activeRuns' = [activeRuns EXCEPT ![r] = k]

\* The renderer sends under a run id of its own.
SendFromRenderer(r) ==
  /\ up
  /\ intent[r] = "none"
  /\ ~Present(r) /\ Started(r) = {}
  /\ StartSend(r)
  /\ UNCHANGED <<ledgerVars, early, polls, handler, deletion, up, brokerVars,
                 historyVars>>

\* What a run's pagelet has begun to tell of it and not told yet
Untold(r) == early[r] # {} \/ flight[r].at = "sending"

\* createRun returns the record it finds, and either is published. A run that
\* was deleted and is created again may be told of as it was before.
CreateRun(r, k) ==
  LET rec == IF Present(r) THEN record[r] ELSE Record("queued", 0)
  IN  /\ sends[r][k].at = "creating"
      /\ sends' = [sends EXCEPT ![r][k].at = "running"]
      /\ record' = [record EXCEPT ![r] = rec]
      /\ past' = [past EXCEPT ![r] = @ \union {rec}]
      /\ early' = [early EXCEPT ![r] = @ \union {rec}]
      /\ late' = IF ~Present(r) /\ Untold(r) THEN late \union {r} ELSE late
      /\ UNCHANGED <<buffer, flight, activeRuns, polls, handler, deletion, up,
                     brokerVars, dropped, lost, crashes, losses>>

\* The loop persists what the harness yields and awaits it.
SaveEvent(r, k, event, said) ==
  /\ AppendEvent(r, event)
  /\ sends' = [sends EXCEPT ![r][k].at = "saving", ![r][k].said = said]

YieldEvent(r, k) ==
  /\ sends[r][k].at = "running"
  /\ ~sends[r][k].aborted
  /\ \/ /\ sends[r][k].said = "nothing"
        /\ SaveEvent(r, k, "run_started", "started")
     \/ /\ sends[r][k].said = "started"
        /\ \E event \in {"run_completed", "run_failed"} :
              SaveEvent(r, k, event, "over")
  /\ UNCHANGED <<record, past, early, activeRuns, polls, handler, deletion, up,
                 brokerVars, historyVars>>

\* The loop ends or is left with an outcome of handleSend's own: cancelled
\* where the signal is aborted, failed where the harness throws, as it can
\* before its first event and while it commits messages after its last.
CloseSend(r, k) ==
  /\ sends[r][k].at = "running"
  /\ \/ sends[r][k].aborted /\ AppendEvent(r, "run_cancelled")
     \/ sends[r][k].said # "started" /\ AppendEvent(r, "run_failed")
  /\ sends' = [sends EXCEPT ![r][k].at = "closing"]
  /\ UNCHANGED <<record, past, early, activeRuns, polls, handler, deletion, up,
                 brokerVars, historyVars>>

\* handleSend returns; whatever controller the run has is forgotten.
EndSend(r, k) ==
  /\ \/ sends[r][k].at = "closed"
     \/ /\ sends[r][k].at = "running" /\ sends[r][k].said = "over"
        /\ ~sends[r][k].aborted
  /\ sends' = [sends EXCEPT ![r][k].at = "done"]
  /\ activeRuns' = [activeRuns EXCEPT ![r] = None]
  /\ UNCHANGED <<ledgerVars, early, polls, handler, deletion, up, brokerVars,
                 historyVars>>

\* controller.abort() for the call whose controller each of these runs has
Aborted(runs) ==
  [r \in Runs |-> IF r \in runs /\ Controlled(r)
                  THEN [sends[r] EXCEPT ![activeRuns[r]].aborted = TRUE]
                  ELSE sends[r]]
Released(runs) == [r \in Runs |-> IF r \in runs THEN None ELSE activeRuns[r]]

\* cancel, from the renderer
Cancel(r) ==
  /\ Controlled(r)
  /\ sends' = Aborted({r})
  /\ activeRuns' = Released({r})
  /\ UNCHANGED <<ledgerVars, early, polls, handler, deletion, up, brokerVars,
                 historyVars>>

------------------------------------------------------------------------------
\* Intents

RequestIntent(r) ==
  /\ intent[r] = "none"
  /\ ~Present(r) /\ Started(r) = {}
  /\ intent' = [intent EXCEPT ![r] = "queued"]
  /\ UNCHANGED <<ledgerVars, early, pageletVars, projection, command,
                 historyVars>>

\* fault: a poll that failed is the last
PollsUntilFailure(p) == up /\ polls[p] = Resting /\ losses = 0

\* setInterval: a poll begins whatever became of the one before.
PollDue(p) == up /\ polls[p] = Resting

ListIntents(p) ==
  /\ PollDue(p)
  /\ \E r \in Runs : intent[r] = "queued"
  /\ polls' = [polls EXCEPT ![p].todo = {r \in Runs : intent[r] = "queued"}]
  /\ UNCHANGED <<ledgerVars, early, sends, activeRuns, handler, deletion, up,
                 brokerVars, historyVars>>

\* An intent whose run is active is passed over.
TakeIntent(p, r) ==
  /\ polls[p].at = "idle" /\ r \in polls[p].todo
  /\ polls' = [polls EXCEPT ![p].todo = @ \ {r},
                            ![p].at = IF Controlled(r) THEN @ ELSE "claiming",
                            ![p].run = IF Controlled(r) THEN None ELSE r]
  /\ UNCHANGED <<ledgerVars, early, sends, activeRuns, handler, deletion, up,
                 brokerVars, historyVars>>

\* An intent this pagelet has claimed before is handed to it again. A failing
\* call ends the poll.
ClaimIntent(p) ==
  /\ polls[p].at = "claiming"
  /\ \/ /\ intent' = [intent EXCEPT ![polls[p].run] = "claimed"]
        /\ polls' = [polls EXCEPT ![p].at = "claimed"]
        /\ UNCHANGED <<lost, losses>>
     \/ /\ LoseCall(polls[p].run)
        /\ polls' = [polls EXCEPT ![p] = Resting]
        /\ UNCHANGED intent
  /\ UNCHANGED <<ledgerVars, early, sends, activeRuns, handler, deletion, up,
                 projection, command, dropped, late, crashes>>

SendClaimed(p) ==
  /\ polls[p].at = "claimed"
  /\ StartSend(polls[p].run)
  /\ polls' = [polls EXCEPT ![p].at = "idle", ![p].run = None]
  /\ UNCHANGED <<ledgerVars, early, handler, deletion, up, brokerVars,
                 historyVars>>

------------------------------------------------------------------------------
\* The cancel command

\* requestRunControlCommand; its event reaches the pagelet if there is one.
RequestCommand(r) ==
  LET allowed == projection[r].status \notin Terminal \union {"absent"}
  IN  /\ command[r] = "none"
      /\ command' = [command EXCEPT ![r] =
                       IF allowed THEN "accepted" ELSE "rejected"]
      /\ handler' = [handler EXCEPT ![r] =
                       IF allowed /\ up THEN "reading" ELSE @]
      /\ UNCHANGED <<ledgerVars, early, sends, activeRuns, polls, deletion, up,
                     projection, intent, historyVars>>

LogCommand(r) ==
  /\ handler[r] = "reading"
  /\ IF Present(r)
     THEN /\ AppendEvent(r, "runtime_log")
          /\ handler' = [handler EXCEPT ![r] = "logging"]
     ELSE /\ handler' = [handler EXCEPT ![r] = "idle"]
          /\ UNCHANGED <<buffer, flight>>
  /\ UNCHANGED <<record, past, early, sends, activeRuns, polls, deletion, up,
                 brokerVars, historyVars>>

\* The controller is looked up only after the log is written.
ApplyCommand(r) ==
  /\ handler[r] = "acting"
  /\ handler' = [handler EXCEPT ![r] = IF Controlled(r) THEN "marking" ELSE "idle"]
  /\ sends' = Aborted({r})
  /\ activeRuns' = Released({r})
  /\ UNCHANGED <<ledgerVars, early, polls, deletion, up, brokerVars,
                 historyVars>>

MarkApplied(r) ==
  /\ handler[r] = "marking"
  /\ handler' = [handler EXCEPT ![r] = "idle"]
  /\ \/ command' = [command EXCEPT ![r] = "applied"] /\ UNCHANGED <<lost, losses>>
     \/ LoseCall(r) /\ UNCHANGED command
  /\ UNCHANGED <<ledgerVars, early, sends, activeRuns, polls, deletion, up,
                 projection, intent, dropped, late, crashes>>

------------------------------------------------------------------------------
\* deleteSessionRuns

\* flushAll; one deletion is enough for what a second would do
DeleteSession ==
  LET waiting == {r \in Runs : flight[r].at # "none" \/ buffer[r] # <<>>}
      idle == {r \in waiting : flight[r].at = "none"}
  IN  /\ up
      /\ deletion.at = "none"
      /\ deletion' = [deletion EXCEPT !.at = "flushing", !.awaits = waiting]
      /\ flight' = [r \in Runs |->
            IF r \in idle THEN Writing(buffer[r]) ELSE flight[r]]
      /\ buffer' = [r \in Runs |-> IF r \in idle THEN <<>> ELSE buffer[r]]
      /\ UNCHANGED <<record, past, early, sends, activeRuns, polls, handler, up,
                     brokerVars, historyVars>>

AbortRuns ==
  LET doomed == {r \in Runs : Present(r)}
  IN  /\ deletion.at = "flushing" /\ deletion.awaits = {}
      /\ deletion' = [at |-> "deleting", awaits |-> {}, doomed |-> doomed]
      /\ sends' = Aborted(doomed)
      /\ activeRuns' = Released(doomed)
      /\ UNCHANGED <<ledgerVars, early, polls, handler, up, brokerVars,
                     historyVars>>

DeleteRun(r) ==
  /\ deletion.at = "deleting" /\ r \in deletion.doomed
  /\ deletion' = [deletion EXCEPT !.doomed = @ \ {r}]
  /\ record' = [record EXCEPT ![r] = NoRecord]
  /\ UNCHANGED <<buffer, flight, past, early, sends, activeRuns, polls, handler,
                 up, brokerVars, historyVars>>

\* deleteRunProjectionsForSession, when every record is gone; a run created
\* meanwhile loses its projection too
DeleteProjections ==
  /\ deletion.at = "deleting" /\ deletion.doomed = {}
  /\ deletion' = [deletion EXCEPT !.at = "done"]
  /\ \/ /\ projection' = [r \in Runs |-> NoRecord]
        /\ late' = late \union {r \in Runs : Present(r)}
        /\ UNCHANGED <<lost, losses>>
     \/ /\ losses < MaxLost
        /\ losses' = losses + 1
        /\ lost' = Runs
        /\ UNCHANGED <<projection, late>>
  /\ UNCHANGED <<ledgerVars, early, sends, activeRuns, polls, handler, up,
                 intent, command, dropped, crashes>>

------------------------------------------------------------------------------
\* The pagelet process dies with all it has in memory.
Crash ==
  /\ up /\ crashes < MaxCrashes
  /\ crashes' = crashes + 1
  /\ up' = FALSE
  /\ lost' = lost \union {r \in Runs : \/ flight[r].at = "sending"
                                      \/ early[r] # {}
                                      \/ deletion.at = "deleting"}
  /\ dropped' = dropped \union
       {r \in Runs : \/ \E p \in Polls : polls[p].at = "claimed" /\ polls[p].run = r
                     \/ \E k \in Sends : sends[r][k].at = "creating"}
  /\ buffer' = [r \in Runs |-> <<>>]
  /\ flight' = [r \in Runs |-> NoFlight]
  /\ early' = [r \in Runs |-> {}]
  /\ sends' = [r \in Runs |-> [k \in Sends |->
       IF Alive(sends[r][k]) THEN [sends[r][k] EXCEPT !.at = "gone"]
       ELSE sends[r][k]]]
  /\ activeRuns' = [r \in Runs |-> None]
  /\ polls' = [p \in Polls |-> Resting]
  /\ handler' = [r \in Runs |-> "idle"]
  /\ deletion' = [deletion EXCEPT
       !.at = IF @ = "none" THEN @ ELSE "done", !.awaits = {}, !.doomed = {}]
  /\ UNCHANGED <<record, past, brokerVars, late, losses>>

\* markRunningRunsRecovered, and publishRecoveredRunProjections begins
Restart ==
  LET active == {r \in Runs : record[r].status \in Unfinished}
      recovered(r) == Record("recovered", record[r].count)
  IN  /\ ~up
      /\ up' = TRUE
      /\ record' = [r \in Runs |-> IF r \in active THEN recovered(r) ELSE record[r]]
      /\ past' = [r \in Runs |-> IF r \in active THEN past[r] \union {recovered(r)}
                                 ELSE past[r]]
      /\ early' = [r \in Runs |-> IF r \in active THEN {recovered(r)} ELSE {}]
      /\ UNCHANGED <<buffer, flight, sends, activeRuns, polls, handler, deletion,
                     brokerVars, historyVars>>

------------------------------------------------------------------------------
Init ==
  /\ record = [r \in Runs |-> NoRecord]
  /\ buffer = [r \in Runs |-> <<>>]
  /\ flight = [r \in Runs |-> NoFlight]
  /\ past = [r \in Runs |-> {}]
  /\ early = [r \in Runs |-> {}]
  /\ sends = [r \in Runs |-> [k \in Sends |-> Unused]]
  /\ activeRuns = [r \in Runs |-> None]
  /\ polls = [p \in Polls |-> Resting]
  /\ handler = [r \in Runs |-> "idle"]
  /\ deletion = [at |-> "none", awaits |-> {}, doomed |-> {}]
  /\ up = TRUE
  /\ projection = [r \in Runs |-> NoRecord]
  /\ intent = [r \in Runs |-> "none"]
  /\ command = [r \in Runs |-> "none"]
  /\ dropped = {} /\ lost = {} /\ late = {}
  /\ crashes = 0 /\ losses = 0

WriterStep(r) ==
  \/ WriteBatch(r) \/ PublishFlush(r) \/ SkipFlush(r) \/ FlushTimer(r)
  \/ \E news \in early[r] : PublishEarly(r, news)

SendStep(r, k) ==
  CreateRun(r, k) \/ YieldEvent(r, k) \/ CloseSend(r, k) \/ EndSend(r, k)

PollStep(p) ==
  \/ ListIntents(p) \/ ClaimIntent(p) \/ SendClaimed(p)
  \/ \E r \in polls[p].todo : TakeIntent(p, r)

CommandStep(r) == LogCommand(r) \/ ApplyCommand(r) \/ MarkApplied(r)

DeletionStep == AbortRuns \/ DeleteProjections \/ \E r \in Runs : DeleteRun(r)

Next ==
  \/ \E r \in Runs :
       \/ WriterStep(r) \/ CommandStep(r)
       \/ \E k \in Sends : SendStep(r, k)
       \/ SendFromRenderer(r) \/ Cancel(r) \/ RequestIntent(r) \/ RequestCommand(r)
  \/ \E p \in Polls : PollStep(p)
  \/ DeleteSession \/ DeletionStep
  \/ Crash \/ Restart

Spec == Init /\ [][Next]_vars

\* File operations and calls complete, timers fire, polls come round, a run
\* that is aborted ends, and the supervisor restarts the pagelet. A run that is
\* left alone need not end.
Fairness ==
  /\ \A r \in Runs :
       /\ WF_vars(WriterStep(r))
       /\ WF_vars(CommandStep(r))
       /\ \A k \in Sends :
            WF_vars(CreateRun(r, k) \/ CloseSend(r, k) \/ EndSend(r, k))
  /\ \A p \in Polls : WF_vars(PollStep(p))
  /\ WF_vars(DeletionStep)
  /\ WF_vars(Restart)

FairSpec == Spec /\ Fairness

------------------------------------------------------------------------------
RecordType == [status : Statuses, count : Nat]
Told == RecordType \union {NoRecord}

\* Ledger, pagelet and broker hold what the worker's types declare, and each
\* call, poll and publication is at one of its awaits.
TypeOK ==
  /\ record \in [Runs -> Told]
  /\ buffer \in [Runs -> Seq(Events)]
  /\ flight \in [Runs -> [at : {"none", "writing", "sending"},
                          batch : Seq(Events), news : Told]]
  /\ past \in [Runs -> SUBSET RecordType]
  /\ early \in [Runs -> SUBSET RecordType]
  /\ sends \in [Runs -> [Sends ->
       [at : {"unused", "creating", "running", "saving", "closing", "closed",
              "done", "gone"},
        aborted : BOOLEAN, said : {"nothing", "started", "over"}]]]
  /\ activeRuns \in [Runs -> Sends \union {None}]
  /\ polls \in [Polls -> [at : {"idle", "claiming", "claimed"},
                         todo : SUBSET Runs, run : Runs \union {None}]]
  /\ handler \in [Runs -> {"idle", "reading", "logging", "acting", "marking"}]
  /\ deletion \in [at : {"none", "flushing", "deleting", "done"},
                   awaits : SUBSET Runs, doomed : SUBSET Runs]
  /\ up \in BOOLEAN
  /\ projection \in [Runs -> Told]
  /\ intent \in [Runs -> {"none", "queued", "claimed"}]
  /\ command \in [Runs -> {"none", "accepted", "rejected", "applied"}]
  /\ dropped \subseteq Runs /\ lost \subseteq Runs /\ late \subseteq Runs
  /\ crashes \in 0..MaxCrashes /\ losses \in 0..MaxLost

\* What the broker shows of a run has been its record: no projection runs
\* ahead of the ledger, wherever the pagelet dies.
NeverAhead == \A r \in Runs : projection[r] \in past[r] \union {NoRecord}

Quiet(r) ==
  /\ up
  /\ flight[r].at = "none" /\ buffer[r] = <<>> /\ early[r] = {}
  /\ deletion.at \in {"none", "done"}

\* At rest the projection is the record; it is stale only where a call was
\* lost, or a publication overtaken by a later one, or by the run's deletion.
RestsCurrent ==
  \A r \in Runs \ (lost \union late) : Quiet(r) => projection[r] = record[r]

Over(r) == record[r].status \in Terminal \/ ~Present(r)

\* A cancel command the broker accepted is applied, or its run is over.
\* (Polls that overlap can start a run twice; then the first call to end
\* forgets the controller of the second, and this fails.)
CommandAnswered ==
  \A r \in Runs :
    command[r] = "accepted" ~>
      command[r] = "applied" \/ Over(r) \/ r \in lost

\* A queued intent becomes a run, unless the pagelet dies between claiming it
\* and recording the run.
IntentBecomesRun ==
  \A r \in Runs : intent[r] = "queued" ~> Present(r) \/ r \in dropped
==============================================================================
