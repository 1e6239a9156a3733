---------------------------- MODULE DesignPagelet ----------------------------
(* The Design pagelet's worker around one run: the handleSendAgent calls    *)
(* made for it, the abort controllers of AgentRunControl, the run store the *)
(* renderer is shown, and DesignRunLedgerWriter, which keeps the text the   *)
(* model streams in memory and writes it as messages before other events.   *)
(*                                                                          *)
(* Creating a run, writing a batch, deleting a run and a call of Shared are *)
(* one step each. The publications of the run and its control commands are  *)
(* those of ChatPagelet: what a command does here, append a log event,      *)
(* flush and abort, ReadRun and CancelRun do.                               *)
EXTENDS Naturals, Sequences, FiniteSets, SequencesExt

CONSTANTS
  Calls,     \* handleSendAgent calls that may be made for the run
  Polls,     \* consumeQueuedRunIntents calls that may overlap
  Requests,  \* model requests the run streams text of
  None,      \* no call
  MaxDeltas  \* bound: deltas streamed

ASSUME DesignAssumption ==
  /\ None \notin Calls
  /\ Calls \cap {"console", "deletion"} = {}
  /\ IsFiniteSet(Requests)
  /\ MaxDeltas \in Nat

VARIABLES
  record,      \* the ledger's status of the run
  written,     \* deltas whose text is in a message of the log
  heard,       \* deltas streamed so far; they are numbered as they come
  text,        \* assistantTextByRequest: deltas not made a message yet
  job,         \* what each caller of the writer has still to append
  waiting,     \* the callers that await the flush in flight, in their order
  ready,       \* the callers whose promise has settled, in their order
  buffer,      \* events appended and not taken by a flush
  flight,      \* the flush in flight
  calls,       \* where each handleSendAgent call is
  activeRun,   \* the call whose controller AgentRunControl has
  store,       \* DesignRunStore's status of the run
  activated,   \* extensionsReady has resolved
  intent,      \* Shared: the status of the intent that asks for the run
  polls,       \* where each poll is
  deletion,    \* where deleteAgentSessionRuns is
  dropped,     \* history: deltas whose message found no record
  mixed,       \* history: one take of text was of several requests
  stray        \* history: calls whose controller another call's end removed

writerVars == <<job, waiting, ready, buffer, flight>>
ledgerVars == <<record, written, heard, text, writerVars>>
runVars == <<calls, activeRun, store, activated>>
clientVars == <<intent, polls, deletion>>
historyVars == <<dropped, mixed, stray>>
vars == <<ledgerVars, runVars, clientVars, historyVars>>

------------------------------------------------------------------------------
Terminal == {"completed", "failed", "cancelled"}
Present == record # "absent"
Callers == Calls \union {"console", "deletion"}

\* What is appended: an event with the deltas streamed before it, a message
\* with the deltas it is made of, or the flush that ends flushRun.
Event(type, after) == [type |-> type, after |-> after]
Message(q) == [type |-> "assistant_message", req |-> q, deltas |-> text[q]]
Flush == [type |-> "flush"]

StatusAfter == [run_started |-> "running", run_completed |-> "completed",
                run_failed |-> "failed", run_cancelled |-> "cancelled"]

\* shouldFlushDesignAssistantSnapshot
Boundary == {"tool_call", "run_completed", "run_failed", "run_cancelled"}

\* patchForEvent over a batch: the last event that says something of the
\* status decides it
Patched(status, batch) ==
  LET telling == {i \in DOMAIN batch : batch[i].type \in DOMAIN StatusAfter}
      last == CHOOSE i \in telling : \A j \in telling : j <= i
  IN  IF telling = {} THEN status ELSE StatusAfter[batch[last].type]

\* The deltas of the messages in a sequence of items
Deltas(items) ==
  UNION {items[i].deltas : i \in {j \in DOMAIN items :
                                    items[j].type = "assistant_message"}}

NoFlight == [at |-> "none", batch |-> <<>>]
Writing(batch) == [at |-> "writing", batch |-> batch]

\* What is ready goes on before the event loop takes up anything else, and
\* appends that follow each other before their callers.
Turn == ready = <<>>
Goes(c) ==
  LET holding == SelectSeq(ready, LAMBDA b : job[b] # <<>>)
  IN  ~Turn /\ c = IF holding = <<>> THEN Head(ready) ELSE Head(holding)

\* A caller's append or flushRun returns to it.
Returns(c) == Goes(c) /\ job[c] = <<>>
Leaves(c) == ready' = Remove(ready, c)

------------------------------------------------------------------------------
\* DesignRunLedgerWriter over BufferedAgentRunEventWriter

\* The caller's next append or flushRun of the buffered writer. Either begins
\* a flush of the whole buffer or waits for the one in flight; a flushRun with
\* nothing to do returns at once.
Hand(c, items) ==
  LET item == Head(items)
      pending == IF item = Flush THEN buffer ELSE Append(buffer, item)
      nothing == flight = NoFlight /\ pending = <<>>
  IN  /\ job' = [job EXCEPT ![c] = Tail(items)]
      /\ waiting' = IF nothing THEN waiting ELSE Append(waiting, c)
      /\ ready' = Remove(ready, c) \o (IF nothing THEN <<c>> ELSE <<>>)
      /\ IF flight = NoFlight /\ ~nothing
         THEN flight' = Writing(pending) /\ buffer' = <<>>
         ELSE buffer' = pending /\ UNCHANGED flight

\* Requests whose text waits, in the order their text began
Waits == {q \in Requests : text[q] # {}}
BeganBefore(p, q) == \E n \in text[p] : \A m \in text[q] : n < m
Streaming ==
  CHOOSE s \in [1..Cardinality(Waits) -> Waits] :
    \A i, j \in DOMAIN s : i < j => BeganBefore(s[i], s[j])

\* flushAssistantMessages
Messages == [i \in DOMAIN Streaming |-> Message(Streaming[i])]

\* fault: the text taken is not cleared
TakeTextKeeping(c, items) ==
  /\ Hand(c, Messages \o items)
  /\ UNCHANGED text
  /\ mixed' = (mixed \/ Len(Messages) > 1)

\* The text is taken and what follows it goes on behind it.
TakeText(c, items) ==
  /\ Hand(c, Messages \o items)
  /\ text' = [q \in Requests |-> {}]
  /\ mixed' = (mixed \/ Len(Messages) > 1)

\* fault: the event goes first
AppendEventFirst(c, type) ==
  IF type \in Boundary
  THEN /\ Hand(c, <<Event(type, heard)>> \o Messages)
       /\ text' = [q \in Requests |-> {}]
       /\ mixed' = (mixed \/ Len(Messages) > 1)
  ELSE Hand(c, <<Event(type, 0)>>) /\ UNCHANGED <<text, mixed>>

\* append of an event that is persisted
AppendEvent(c, type) ==
  IF type \in Boundary
  THEN TakeText(c, <<Event(type, heard)>>)
  ELSE Hand(c, <<Event(type, 0)>>) /\ UNCHANGED <<text, mixed>>

\* flushRun
FlushRun(c) == TakeText(c, <<Flush>>)

\* The caller's append of a message has returned and the next item follows.
GoOn(c) ==
  /\ Goes(c) /\ job[c] # <<>>
  /\ Hand(c, job[c])
  /\ UNCHANGED <<record, written, heard, text, runVars, clientVars, historyVars>>

\* appendEvents where there is a record
WriteBatch ==
  /\ flight.at = "writing" /\ Present
  /\ record' = Patched(record, flight.batch)
  /\ written' = written \union Deltas(flight.batch)
  /\ flight' = [flight EXCEPT !.at = "publishing"]
  /\ UNCHANGED <<heard, text, job, waiting, ready, buffer, runVars, clientVars,
                 historyVars>>

\* The flush settles, and all that await it go on but these.
Settle(ignored) ==
  /\ flight' = NoFlight /\ waiting' = <<>>
  /\ ready' = SelectSeq(waiting, LAMBDA c : c \notin ignored)

\* onFlush has published what it could.
EndFlush ==
  /\ flight.at = "publishing"
  /\ Settle(IF job["console"] = <<>> THEN {"console"} ELSE {})
  /\ UNCHANGED <<record, written, heard, text, job, buffer, runVars,
                 clientVars, historyVars>>

\* requireRun finds no record. Those who waited are rejected: what they had
\* left to append is forgotten, and an append's caller goes on, since
\* persistRunEvent ignores it, but a flushRun's does not.
RejectBatch ==
  LET rejected == ToSet(waiting)
  IN  /\ flight.at = "writing" /\ ~Present
      /\ Settle({"console", "deletion"})
      /\ job' = [c \in Callers |-> IF c \in rejected THEN <<>> ELSE job[c]]
      /\ dropped' = dropped \union Deltas(flight.batch)
                            \union UNION {Deltas(job[c]) : c \in rejected}
      /\ deletion' = IF "deletion" \in rejected THEN "done" ELSE deletion
      /\ UNCHANGED <<record, written, heard, text, buffer, runVars, intent,
                     polls, mixed, stray>>

FlushTimer ==
  /\ flight = NoFlight /\ buffer # <<>>
  /\ flight' = Writing(buffer)
  /\ buffer' = <<>>
  /\ UNCHANGED <<record, written, heard, text, job, waiting, ready, runVars,
                 clientVars, historyVars>>

\* The renderer reads a run or its events, for which the writer is flushed.
ReadRun ==
  /\ job["console"] = <<>> /\ ~Contains(waiting, "console")
  /\ flight # NoFlight \/ buffer # <<>> \/ \E q \in Requests : text[q] # {}
  /\ FlushRun("console")
  /\ UNCHANGED <<record, written, heard, runVars, clientVars, dropped, stray>>

------------------------------------------------------------------------------
\* AgentRunControl and handleSendAgent

Unused == [at |-> "unused", aborted |-> FALSE, said |-> "nothing",
           event |-> "none"]
Alive(k) == calls[k].at \notin {"unused", "done"}
Executing(k) == calls[k].at \in {"running", "saving"}
Started == {k \in Calls : calls[k].at # "unused"}

Begin ==
  \E k \in Calls :
    /\ calls[k].at = "unused"
    /\ calls' = [calls EXCEPT ![k].at = "creating"]

\* The renderer sends under a run id of its own.
SendFromRenderer ==
  /\ intent = "none" /\ Started = {}
  /\ Begin
  /\ UNCHANGED <<ledgerVars, activeRun, store, activated, clientVars,
                 historyVars>>

\* createRun returns the record it finds.
CreateRun(k) ==
  /\ calls[k].at = "creating"
  /\ calls' = [calls EXCEPT ![k].at = "activating"]
  /\ record' = IF Present THEN record ELSE "queued"
  /\ UNCHANGED <<written, heard, text, writerVars, activeRun, store, activated,
                 clientVars, historyVars>>

\* activateExtensions, which the pagelet begins when it starts
Activate ==
  /\ ~activated
  /\ activated' = TRUE
  /\ UNCHANGED <<ledgerVars, calls, activeRun, store, clientVars, historyVars>>

\* The calls once the one whose controller is registered is aborted
Aborted == IF activeRun = None THEN calls
           ELSE [calls EXCEPT ![activeRun].aborted = TRUE]

\* fault: the controller registered before is replaced and not aborted
StartRunBeside(k) ==
  /\ calls[k].at = "activating" /\ activated
  /\ calls' = [calls EXCEPT ![k].at = "running"]
  /\ activeRun' = k
  /\ store' = "running"
  /\ UNCHANGED <<ledgerVars, activated, clientVars, historyVars>>

\* startRun aborts the run's previous controller and registers its own.
StartRun(k) ==
  /\ calls[k].at = "activating" /\ activated
  /\ calls' = [Aborted EXCEPT ![k].at = "running"]
  /\ activeRun' = k
  /\ store' = "running"
  /\ UNCHANGED <<ledgerVars, activated, clientVars, historyVars>>

\* The harness streams text, which is only gathered.
YieldDelta(k, q) ==
  /\ calls[k].at = "running" /\ ~calls[k].aborted
  /\ calls[k].said = "started"
  /\ heard < MaxDeltas
  /\ heard' = heard + 1
  /\ text' = [text EXCEPT ![q] = @ \union {heard + 1}]
  /\ UNCHANGED <<record, written, writerVars, runVars, clientVars,
                 historyVars>>

\* An event is persisted, and the loop waits for that.
Save(k, type, said) ==
  /\ calls' = [calls EXCEPT ![k].at = "saving", ![k].said = said,
                            ![k].event = type]
  /\ AppendEvent(k, type)

\* The harness yields an event: a failure of its own preparations may be the
\* first, and a runtime may end as cancelled though nobody has aborted it.
YieldEvent(k) ==
  /\ calls[k].at = "running" /\ ~calls[k].aborted
  /\ \/ calls[k].said = "nothing" /\ Save(k, "run_started", "started")
     \/ calls[k].said = "nothing" /\ Save(k, "run_failed", "over")
     \/ calls[k].said = "started" /\ Save(k, "tool_call", "started")
     \/ /\ calls[k].said = "started"
        /\ \E type \in {"run_completed", "run_failed", "run_cancelled"} :
             Save(k, type, "over")
  /\ UNCHANGED <<record, written, heard, activeRun, store, activated,
                 clientVars, dropped, stray>>

\* fault: a cancelled run goes on in the store
StoreAfterOutcome(type) ==
  IF type \in {"run_completed", "run_failed"} THEN StatusAfter[type] ELSE store

\* What the run store makes of an event of the stream
StoreAfter(type) ==
  IF type \in {"run_completed", "run_failed", "run_cancelled"}
  THEN StatusAfter[type] ELSE store

\* The event is saved, or could not be; the renderer is told of it.
EmitEvent(k) ==
  /\ Returns(k) /\ calls[k].at = "saving"
  /\ Leaves(k)
  /\ calls' = [calls EXCEPT ![k].at = "running"]
  /\ store' = StoreAfter(calls[k].event)
  /\ UNCHANGED <<record, written, heard, text, job, waiting, buffer, flight,
                 activeRun, activated, clientVars, historyVars>>

\* finishRun removes whatever controller the run has.
FinishRun(k) ==
  /\ activeRun' = None
  /\ stray' = IF activeRun \in {None, k} THEN stray ELSE stray \union {activeRun}

\* The loop is over, or was left, with an outcome of handleSendAgent's own:
\* cancelled where the signal is aborted, failed where the harness throws, as
\* it can before its first event and after its last.
CloseRun(k) ==
  /\ calls[k].at = "running"
  /\ \E type \in {"run_cancelled", "run_failed"} :
       /\ IF type = "run_cancelled" THEN calls[k].aborted
          ELSE calls[k].said # "started"
       /\ calls' = [calls EXCEPT ![k].at = "closing", ![k].event = type]
       /\ AppendEvent(k, type)
  /\ FinishRun(k)
  /\ UNCHANGED <<record, written, heard, store, activated, clientVars, dropped>>

\* The loop is over with the outcome the harness told.
CompleteRun(k) ==
  /\ calls[k].at = "running" /\ calls[k].said = "over" /\ ~calls[k].aborted
  /\ calls' = [calls EXCEPT ![k].at = "done"]
  /\ store' = StoreAfter(calls[k].event)
  /\ FinishRun(k)
  /\ UNCHANGED <<ledgerVars, activated, clientVars, dropped, mixed>>

\* The call returns once its own outcome is saved.
ReturnClosed(k) ==
  /\ Returns(k) /\ calls[k].at = "closing"
  /\ Leaves(k)
  /\ calls' = [calls EXCEPT ![k].at = "done"]
  /\ store' = StoreAfter(calls[k].event)
  /\ UNCHANGED <<record, written, heard, text, job, waiting, buffer, flight,
                 activeRun, activated, clientVars, historyVars>>

\* cancelAgent, from the renderer. The controller stays registered.
CancelRun ==
  /\ activeRun # None
  /\ calls' = Aborted
  /\ UNCHANGED <<ledgerVars, activeRun, store, activated, clientVars,
                 historyVars>>

------------------------------------------------------------------------------
\* Intents

RequestIntent ==
  /\ intent = "none" /\ Started = {}
  /\ intent' = "queued"
  /\ UNCHANGED <<ledgerVars, runVars, polls, deletion, historyVars>>

\* A poll that finds the intent queued claims it unless the store has its run.
ListIntents(p) ==
  /\ polls[p] = "idle" /\ intent = "queued"
  /\ polls' = [polls EXCEPT ![p] = "listed"]
  /\ UNCHANGED <<ledgerVars, runVars, intent, deletion, historyVars>>

TakeIntent(p) ==
  /\ polls[p] = "listed"
  /\ polls' = [polls EXCEPT ![p] =
                 IF store = "absent" THEN "claiming" ELSE "idle"]
  /\ UNCHANGED <<ledgerVars, runVars, intent, deletion, historyVars>>

\* An intent this pagelet has claimed before is handed to it again, and its
\* run is begun like the first time.
ClaimIntent(p) ==
  /\ polls[p] = "claiming"
  /\ polls' = [polls EXCEPT ![p] = "idle"]
  /\ intent' = "claimed"
  /\ Begin
  /\ UNCHANGED <<ledgerVars, activeRun, store, activated, deletion, historyVars>>

------------------------------------------------------------------------------
\* deleteAgentSessionRuns

\* flushAll: the runs with text first, then all that have events
DeleteSession ==
  /\ deletion = "none" /\ Started # {}
  /\ deletion' = "flushing"
  /\ TakeText("deletion",
              IF Messages = <<>> THEN <<Flush>> ELSE <<Flush, Flush>>)
  /\ UNCHANGED <<record, written, heard, runVars, intent, polls, dropped, stray>>

\* The runs the ledger lists are cancelled.
CancelListed ==
  /\ Returns("deletion") /\ deletion = "flushing"
  /\ Leaves("deletion")
  /\ deletion' = "deleting"
  /\ calls' = IF Present THEN Aborted ELSE calls
  /\ UNCHANGED <<record, written, heard, text, job, waiting, buffer, flight,
                 activeRun, store, activated, intent, polls, historyVars>>

\* deleteRunsForSession lists them again.
DeleteRuns ==
  /\ deletion = "deleting"
  /\ deletion' = "done"
  /\ record' = "absent"
  /\ UNCHANGED <<written, heard, text, writerVars, runVars, intent, polls,
                 historyVars>>

------------------------------------------------------------------------------
Init ==
  /\ record = "absent"
  /\ written = {} /\ heard = 0
  /\ text = [q \in Requests |-> {}]
  /\ job = [c \in Callers |-> <<>>]
  /\ waiting = <<>> /\ ready = <<>>
  /\ buffer = <<>>
  /\ flight = NoFlight
  /\ calls = [k \in Calls |-> Unused]
  /\ activeRun = None
  /\ store = "absent"
  /\ activated = FALSE
  /\ intent = "none"
  /\ polls = [p \in Polls |-> "idle"]
  /\ deletion = "none"
  /\ dropped = {} /\ stray = {}
  /\ mixed = FALSE

Resume ==
  \/ \E c \in Callers : GoOn(c)
  \/ \E k \in Calls : EmitEvent(k) \/ ReturnClosed(k)
  \/ CancelListed

WriterStep == WriteBatch \/ EndFlush \/ RejectBatch \/ FlushTimer

CallStep(k) == CreateRun(k) \/ StartRun(k) \/ CloseRun(k) \/ CompleteRun(k)

PollStep(p) == ListIntents(p) \/ TakeIntent(p) \/ ClaimIntent(p)

Task ==
  \/ WriterStep \/ DeleteRuns \/ Activate
  \/ \E k \in Calls :
       CallStep(k) \/ YieldEvent(k) \/ \E q \in Requests : YieldDelta(k, q)
  \/ \E p \in Polls : PollStep(p)
  \/ ReadRun \/ CancelRun \/ DeleteSession
  \/ SendFromRenderer \/ RequestIntent

Next == Resume \/ (Turn /\ Task)

Spec == Init /\ [][Next]_vars

------------------------------------------------------------------------------
\* A call that runs and is not aborted is the one cancelling the run reaches,
\* however calls, their ends and their successors overlap; except those whose
\* controller the end of a call they had replaced took away.
CancelReaches ==
  \A k \in Calls \ stray :
    Executing(k) /\ ~calls[k].aborted => activeRun = k

\* Where the text of a delta is.
Places(n) ==
  (IF n \in written THEN {<<"log", "all">>} ELSE {})
  \union (IF n \in dropped THEN {<<"dropped", "all">>} ELSE {})
  \union (IF flight.at = "writing" /\ n \in Deltas(flight.batch)
          THEN {<<"flight", "all">>} ELSE {})
  \union (IF n \in Deltas(buffer) THEN {<<"buffer", "all">>} ELSE {})
  \union {<<"held", c>> : c \in {c \in Callers : n \in Deltas(job[c])}}
  \union {<<"text", q>> : q \in {q \in Requests : n \in text[q]}}

\* Every delta streamed is in one place, from memory to the log, whoever
\* flushes in between; it is dropped only for want of a record, which only a
\* deletion takes away.
TextKept ==
  /\ \A n \in 1..heard : Cardinality(Places(n)) = 1
  /\ deletion = "done" \/ dropped = {}

\* What is on its way to the log, in its order
Pipeline == (IF flight.at = "writing" THEN flight.batch ELSE <<>>) \o buffer

\* An event that closes a piece of text is written behind all text streamed
\* before it, and messages in the order of their text; unless one flush took
\* the text of several requests, of which it appends only the first at once.
TextBeforeEvents ==
  mixed \/
  \A i \in DOMAIN Pipeline :
    LET ahead == written \union dropped \union Deltas(SubSeq(Pipeline, 1, i - 1))
        item == Pipeline[i]
    IN  IF item.type = "assistant_message"
        THEN \A n \in item.deltas : \A m \in 1..n : m \in ahead \union item.deltas
        ELSE 1..item.after \subseteq ahead

\* When all is written and returned, the run store shows the outcome the
\* ledger has, whatever cancellation met the run's end.
StoreTellsLedger ==
  /\ \A k \in Calls : ~Alive(k)
  /\ Pipeline = <<>> /\ deletion = "none" /\ store # "absent"
  /\ \E k \in Calls : Started = {k}
  => store = record
=============================================================================
