--------------------------- MODULE AgentRunLedger ---------------------------
(***************************************************************************)
(* A pagelet's durable run ledger: FileAgentRunRepository, one record.json *)
(* and one events.jsonl per run, under BufferedAgentRunEventWriter, which  *)
(* batches the events of the model stream before they are appended.        *)
(*                                                                         *)
(* Writes to a run's files go through its queue, one task at a time; a     *)
(* task is a few file operations, each a step of its own, and the process  *)
(* can die between any two.  createRun and importRunBundle check that the  *)
(* run is absent and write outside the queue.  Renaming the temporary file *)
(* over record.json and removing a run's directory are each one step.      *)
(*                                                                         *)
(* Callers: a run's main loop appends its stream one event at a time and   *)
(* awaits each append; the bridges and hooks of the pagelet append "log"   *)
(* events to any run that has a record, and await nothing.                 *)
(***************************************************************************)
EXTENDS Naturals, Sequences, FiniteSets

CONSTANTS Runs,
          StreamKinds,  \* what a main loop appends: [type, request] records
          Imported,     \* runs that trace bundles name
          MaxBatch,     \* maxBatchSize, 32 by default
          MaxEvents,    \* bound of this model: events appended to a run
          MaxCreates,   \* bound of this model: overlapping createRun calls
          MaxFaults,    \* bound of this model: file operations that fail
          MaxCrashes    \* bound of this model: deaths of the process

LedgerBounds == {MaxBatch, MaxEvents, MaxCreates, MaxFaults, MaxCrashes}

Outcome == [run_started |-> "running", run_completed |-> "completed",
            run_failed |-> "failed", run_cancelled |-> "cancelled"]
Terminal == {"run_completed", "run_failed", "run_cancelled"}
Buffered == {"assistant_delta", "model_event"}
EventTypes == DOMAIN Outcome \cup Buffered \cup {"tool_result", "log"}

ASSUME LedgerAssumption ==
    /\ LedgerBounds \subseteq Nat
    /\ MaxBatch > 0
    /\ Imported \subseteq Runs
    /\ \A k \in StreamKinds : k.type \in EventTypes /\ k.request \in Nat

VARIABLES
    record,     \* record.json of each run
    lines,      \* events.jsonl of each run
    queue,      \* runQueues: the write tasks of each run, the first running
    step,       \* what the running task has done: "start", "read", "appended"
    held,       \* the record the running task has in memory
    creating,   \* createRun calls that found no record and will write one
    importing,  \* importRunBundle: record written, event count still to write
    ready,      \* recoveredRunsReady has resolved
    toRecover,  \* runs markRunningRunsRecovered has still to update
    events,     \* pending.events of each run
    timer,      \* pending.timer of each run is armed
    flushing,   \* pending.flushing: "none", "writing" or "publishing"
    live,       \* runs whose main loop is running
    awaiting,   \* what append a run's main loop awaits: "none", "event", "terminal"
    returned,   \* runs whose main loop's terminal append returned, with no error
    appended,   \* events passed to append, over the life of a run
    harmed,     \* runs that met a crash, a fault, a deletion or a race
    bundled,    \* runs that a trace bundle was imported under
    faults, crashes

files == <<record, lines>>
tasks == <<queue, step, held>>
buffers == <<events, timer, flushing>>
callers == <<live, awaiting, returned, appended>>
boot == <<ready, toRecover>>
outside == <<creating, importing>>
history == <<harmed, bundled, faults, crashes>>
vars == <<files, tasks, buffers, callers, boot, outside, history>>

-----------------------------------------------------------------------------
(* Records, events and tasks. *)

Active == {"queued", "running"}
Record == [status: {"absent", "queued", "running", "completed", "failed",
                    "cancelled"},
           count: Nat]
NoRecord == [status |-> "absent", count |-> 0]
Present(r) == record[r].status # "absent"

\* from..to: the append calls an event carries, several once compacted
Event == [type: EventTypes, request: Nat, from: Nat, to: Nat]
Line == [seq: Nat \ {0}, from: Nat, to: Nat]
Task == [op: {"append", "recover", "delete"}, batch: Seq(Event)]

isSameAssistantDeltaStream(e, f) ==
    /\ e.type = "assistant_delta"
    /\ f.type = "assistant_delta"
    /\ e.request = f.request

\* fault: the earlier text is dropped
JoinedLast(first, last) == last
Joined(first, last) == [last EXCEPT !.from = first.from]

\* each stretch of consecutive deltas of one request becomes one event
compactBufferedEvents(es) ==
    LET starts == {i \in DOMAIN es :
                      i = 1 \/ ~isSameAssistantDeltaStream(es[i - 1], es[i])}
        start(k) == CHOOSE i \in starts : Cardinality({j \in starts : j < i}) = k - 1
        n == Cardinality(starts)
        end(k) == IF k = n THEN Len(es) ELSE start(k + 1) - 1
    IN  [k \in 1..n |-> Joined(es[start(k)], es[end(k)])]

\* fault: a batch counts as one event
CountedOnce(rec, batch) == rec.count + 1
Counted(rec, batch) == rec.count + Len(batch)

\* the record after the batch: its last run outcome, if it has one, counts
patched(rec, batch) ==
    LET outcomes == {i \in DOMAIN batch : batch[i].type \in DOMAIN Outcome}
        last == CHOOSE i \in outcomes : \A j \in outcomes : j <= i
    IN  [status |-> IF outcomes = {} THEN rec.status ELSE Outcome[batch[last].type],
         count |-> Counted(rec, batch)]

NextSeq(rec, i) == rec.count + i

Numbered(rec, batch) ==
    [i \in DOMAIN batch |-> [seq |-> NextSeq(rec, i),
                            from |-> batch[i].from, to |-> batch[i].to]]

-----------------------------------------------------------------------------
(* BufferedAgentRunEventWriter. *)

shouldBufferEvent(type) == type \in Buffered

Enqueue(r, op, batch) ==
    queue' = [queue EXCEPT ![r] = Append(@, [op |-> op, batch |-> batch])]

\* flushRun with `es' pending: one flush at a time, later events wait for it
flushRun(r, es) ==
    IF flushing[r] = "none"
    THEN /\ events' = [events EXCEPT ![r] = <<>>]
         /\ timer' = [timer EXCEPT ![r] = FALSE]
         /\ flushing' = [flushing EXCEPT ![r] = "writing"]
         /\ Enqueue(r, "append", compactBufferedEvents(es))
    ELSE /\ events' = [events EXCEPT ![r] = es]
         /\ UNCHANGED <<timer, flushing, queue>>

\* append: TRUE in `waits' when the caller gets the flush's promise
append(r, e, waits) ==
    LET es == Append(events[r], e)
    IN  /\ waits = ~(shouldBufferEvent(e.type) /\ Len(es) < MaxBatch)
        /\ IF waits
           THEN flushRun(r, es)
           ELSE /\ events' = [events EXCEPT ![r] = es]
                /\ timer' = [timer EXCEPT ![r] = TRUE]
                /\ UNCHANGED <<flushing, queue>>
        /\ appended' = [appended EXCEPT ![r] = @ + 1]

NewEvent(r, type, request) ==
    [type |-> type, request |-> request,
     from |-> appended[r] + 1, to |-> appended[r] + 1]

\* the main loop's next event; a terminal one is its last
AppendStream(r, kind, waits) ==
    /\ r \in live
    /\ awaiting[r] = "none"
    /\ appended[r] < MaxEvents
    /\ append(r, NewEvent(r, kind.type, kind.request), waits)
    /\ awaiting' = [awaiting EXCEPT ![r] =
            CASE kind.type \in Terminal -> "terminal"
              [] kind.type \notin Terminal /\ waits -> "event"
              [] OTHER -> "none"]
    /\ live' = IF kind.type \in Terminal THEN live \ {r} ELSE live
    /\ UNCHANGED <<files, step, held, boot, outside, returned, history>>

AppendLog(r, waits) ==
    /\ Present(r)
    /\ appended[r] < MaxEvents
    /\ append(r, NewEvent(r, "log", 0), waits)
    /\ UNCHANGED <<files, step, held, boot, outside, live, awaiting, returned,
                   history>>

FlushTimer(r) ==
    /\ timer[r]
    /\ IF flushing[r] = "none"
       THEN flushRun(r, events[r])
       ELSE /\ timer' = [timer EXCEPT ![r] = FALSE]
            /\ UNCHANGED <<events, flushing, queue>>
    /\ UNCHANGED <<files, step, held, boot, outside, callers, history>>

\* a reader of the ledger flushes the run first
Flush(r) ==
    /\ flushing[r] = "none"
    /\ events[r] # <<>>
    /\ flushRun(r, events[r])
    /\ UNCHANGED <<files, step, held, boot, outside, callers, history>>

\* fault: events that came meanwhile are left to the next append
RearmedNever(r) == FALSE
Rearmed(r) == events[r] # <<>>

\* the finally of a flush: whoever awaits it returns, the rest is rescheduled
SettleFlush(r, ok) ==
    /\ flushing' = [flushing EXCEPT ![r] = "none"]
    /\ timer' = [timer EXCEPT ![r] = Rearmed(r)]
    /\ awaiting' = [awaiting EXCEPT ![r] = "none"]
    /\ returned' = IF ok /\ awaiting[r] = "terminal" THEN returned \cup {r} ELSE returned

\* onFlush has published the run's projection
Published(r) ==
    /\ flushing[r] = "publishing"
    /\ SettleFlush(r, TRUE)
    /\ UNCHANGED <<files, tasks, boot, outside, events, live, appended, history>>

-----------------------------------------------------------------------------
(* FileAgentRunRepository. *)

Running(r, op) == queue[r] # <<>> /\ Head(queue[r]).op = op

EndTask(r) ==
    /\ queue' = [queue EXCEPT ![r] = Tail(@)]
    /\ step' = [step EXCEPT ![r] = "start"]
    /\ held' = [held EXCEPT ![r] = NoRecord]

\* a failed recovery update ends markRunningRunsRecovered: the pagelet catches
\* it and starts with the other runs as they are
RejectTask(r) ==
    /\ EndTask(r)
    /\ harmed' = harmed \cup {r}
    /\ IF Running(r, "append")
       THEN /\ SettleFlush(r, FALSE)
            /\ UNCHANGED boot
       ELSE /\ ready' = (ready \/ Running(r, "recover"))
            /\ toRecover' = IF Running(r, "recover") THEN {} ELSE toRecover
            /\ UNCHANGED <<timer, flushing, awaiting, returned>>
    /\ UNCHANGED <<files, outside, events, live, appended>>

\* requireRun, the first thing appendEvents and updateRun do
ReadRecord(r) ==
    /\ Running(r, "append") \/ Running(r, "recover")
    /\ step[r] = "start"
    /\ IF Present(r)
       THEN /\ held' = [held EXCEPT ![r] = record[r]]
            /\ step' = [step EXCEPT ![r] = "read"]
            /\ UNCHANGED <<files, queue, buffers, callers, boot, outside, history>>
       ELSE RejectTask(r) /\ UNCHANGED <<bundled, faults, crashes>>

AppendLines(r) ==
    /\ Running(r, "append")
    /\ step[r] = "read"
    /\ LET batch == Head(queue[r]).batch
       IN  /\ lines' = [lines EXCEPT ![r] = @ \o Numbered(held[r], batch)]
           /\ held' = [held EXCEPT ![r] = patched(@, batch)]
    /\ step' = [step EXCEPT ![r] = "appended"]
    /\ UNCHANGED <<record, queue, buffers, callers, boot, outside, history>>

\* writeRunRecord; the flush goes on to onFlush
WriteRecord(r) ==
    /\ Running(r, "append")
    /\ step[r] = "appended"
    /\ record' = [record EXCEPT ![r] = held[r]]
    /\ EndTask(r)
    /\ flushing' = [flushing EXCEPT ![r] = "publishing"]
    /\ UNCHANGED <<lines, events, timer, callers, boot, outside, history>>

\* deleteRun
RemoveRun(r) ==
    /\ Running(r, "delete")
    /\ record' = [record EXCEPT ![r] = NoRecord]
    /\ lines' = [lines EXCEPT ![r] = <<>>]
    /\ harmed' = harmed \cup {r}
    /\ EndTask(r)
    /\ UNCHANGED <<buffers, callers, boot, outside, bundled, faults, crashes>>

\* a file operation of the running task is rejected
Fault(r) ==
    /\ faults < MaxFaults
    /\ queue[r] # <<>>
    /\ RejectTask(r)
    /\ faults' = faults + 1
    /\ UNCHANGED <<bundled, crashes>>

Orphaned(r) == record[r].status \in Active

\* fault: queued runs are passed over
RecoverableIfRunning(r) == record[r].status = "running"
Recoverable(r) == record[r].status \in Active

\* markRunningRunsRecovered: the listing, and one queued update after another
ListOrphans ==
    /\ ~ready
    /\ toRecover = {}
    /\ toRecover' = {r \in Runs : Recoverable(r)}
    /\ ready' = (toRecover' = {})
    /\ UNCHANGED <<files, tasks, buffers, callers, outside, history>>

RecoverNext(r) ==
    /\ r \in toRecover
    /\ \A q \in Runs : \A i \in DOMAIN queue[q] : queue[q][i].op # "recover"
    /\ Enqueue(r, "recover", <<>>)
    /\ UNCHANGED <<files, step, held, buffers, callers, boot, outside, history>>

Recovered(r) ==
    /\ Running(r, "recover")
    /\ step[r] = "read"
    /\ record' = [record EXCEPT ![r] = [held[r] EXCEPT !.status = "failed"]]
    /\ EndTask(r)
    /\ toRecover' = toRecover \ {r}
    /\ ready' = (toRecover' = {})
    /\ UNCHANGED <<lines, buffers, callers, outside, history>>

\* handleSend: createRun returns the record it finds, or writes one later
CreateRun(r) ==
    /\ ready
    /\ IF Present(r)
       THEN /\ live' = live \cup {r}
            /\ returned' = returned \ {r}
            /\ UNCHANGED creating
       ELSE /\ creating[r] < MaxCreates
            /\ creating' = [creating EXCEPT ![r] = @ + 1]
            /\ UNCHANGED <<live, returned>>
    /\ UNCHANGED <<files, tasks, buffers, boot, importing, awaiting, appended,
                   history>>

\* fault: the events file is created even if there is one
EmptyLines(r) == <<>>
\* the events file is created only if there is none
KeptLines(r) == lines[r]

WriteNewRecord(r) ==
    /\ creating[r] > 0
    /\ creating' = [creating EXCEPT ![r] = @ - 1]
    /\ record' = [record EXCEPT ![r] = [status |-> "queued", count |-> 0]]
    /\ lines' = [lines EXCEPT ![r] = KeptLines(r)]
    /\ live' = live \cup {r}
    /\ returned' = returned \ {r}
    /\ harmed' = IF Present(r) \/ lines[r] # <<>> THEN harmed \cup {r} ELSE harmed
    /\ UNCHANGED <<tasks, buffers, boot, importing, awaiting, appended, bundled,
                   faults, crashes>>

DeleteRun(r) ==
    /\ ready
    /\ Present(r)
    /\ \A i \in DOMAIN queue[r] : queue[r][i].op # "delete"
    /\ Enqueue(r, "delete", <<>>)
    /\ UNCHANGED <<files, step, held, buffers, callers, boot, outside, history>>

\* importRunBundle: the record as the bundle has it, then the events file; a
\* bundle of one event is enough
ImportRecord(r, status, count) ==
    /\ ready
    /\ ~Present(r)
    /\ record' = [record EXCEPT ![r] = [status |-> status, count |-> count]]
    /\ importing' = [importing EXCEPT ![r] = count + 1]
    /\ harmed' = harmed \cup {r}
    /\ bundled' = bundled \cup {r}
    /\ UNCHANGED <<lines, tasks, buffers, callers, boot, creating, faults, crashes>>

ImportEvents(r) ==
    /\ importing[r] > 0
    /\ lines' = [lines EXCEPT ![r] =
                    [i \in 1..(importing[r] - 1) |-> [seq |-> i, from |-> 0, to |-> 0]]]
    /\ importing' = [importing EXCEPT ![r] = 0]
    /\ UNCHANGED <<record, tasks, buffers, callers, boot, creating, history>>

\* The pagelet process dies and another one boots: only the files are left.
Crash ==
    /\ crashes < MaxCrashes
    /\ crashes' = crashes + 1
    /\ harmed' = harmed \cup
            {r \in Runs : events[r] # <<>> \/ queue[r] # <<>> \/ importing[r] > 0}
    /\ queue' = [r \in Runs |-> <<>>]
    /\ step' = [r \in Runs |-> "start"]
    /\ held' = [r \in Runs |-> NoRecord]
    /\ events' = [r \in Runs |-> <<>>]
    /\ timer' = [r \in Runs |-> FALSE]
    /\ flushing' = [r \in Runs |-> "none"]
    /\ creating' = [r \in Runs |-> 0]
    /\ importing' = [r \in Runs |-> 0]
    /\ ready' = FALSE
    /\ toRecover' = {}
    /\ live' = {}
    /\ awaiting' = [r \in Runs |-> "none"]
    /\ returned' = {}
    /\ UNCHANGED <<files, appended, bundled, faults>>

-----------------------------------------------------------------------------

Init ==
    /\ record = [r \in Runs |-> NoRecord]
    /\ lines = [r \in Runs |-> <<>>]
    /\ queue = [r \in Runs |-> <<>>]
    /\ step = [r \in Runs |-> "start"]
    /\ held = [r \in Runs |-> NoRecord]
    /\ creating = [r \in Runs |-> 0]
    /\ importing = [r \in Runs |-> 0]
    /\ ready = FALSE
    /\ toRecover = {}
    /\ events = [r \in Runs |-> <<>>]
    /\ timer = [r \in Runs |-> FALSE]
    /\ flushing = [r \in Runs |-> "none"]
    /\ live = {}
    /\ awaiting = [r \in Runs |-> "none"]
    /\ returned = {}
    /\ appended = [r \in Runs |-> 0]
    /\ harmed = {}
    /\ bundled = {}
    /\ faults = 0
    /\ crashes = 0

TaskStep(r) ==
    \/ ReadRecord(r)
    \/ AppendLines(r)
    \/ WriteRecord(r)
    \/ RemoveRun(r)
    \/ Recovered(r)

WriterStep(r) == FlushTimer(r) \/ Published(r)

CallerStep(r) ==
    \/ \E kind \in StreamKinds, waits \in BOOLEAN : AppendStream(r, kind, waits)
    \/ \E waits \in BOOLEAN : AppendLog(r, waits)
    \/ Flush(r)
    \/ CreateRun(r)
    \/ DeleteRun(r)

ImportStep ==
    \E r \in Imported :
        \/ \E status \in {"running", "completed"} : ImportRecord(r, status, 1)
        \/ ImportEvents(r)

Next ==
    \/ \E r \in Runs :
          \/ TaskStep(r)
          \/ WriterStep(r)
          \/ CallerStep(r)
          \/ WriteNewRecord(r)
          \/ RecoverNext(r)
          \/ Fault(r)
    \/ ListOrphans
    \/ ImportStep
    \/ Crash

Spec == Init /\ [][Next]_vars

\* File operations complete, timers fire and the recovery loop goes on.
LedgerFairness ==
    /\ WF_vars(ListOrphans)
    /\ \A r \in Runs :
          /\ WF_vars(TaskStep(r))
          /\ WF_vars(WriterStep(r))
          /\ WF_vars(RecoverNext(r))

FairSpec == Spec /\ LedgerFairness
-----------------------------------------------------------------------------
(* Properties. *)

\* Every file, queue and buffer holds what the repository's types declare.
TypeOK ==
    /\ record \in [Runs -> Record]
    /\ lines \in [Runs -> Seq(Line)]
    /\ queue \in [Runs -> Seq(Task)]
    /\ step \in [Runs -> {"start", "read", "appended"}]
    /\ held \in [Runs -> Record]
    /\ creating \in [Runs -> Nat]
    /\ importing \in [Runs -> Nat]
    /\ ready \in BOOLEAN
    /\ toRecover \subseteq Runs
    /\ events \in [Runs -> Seq(Event)]
    /\ timer \in [Runs -> BOOLEAN]
    /\ flushing \in [Runs -> {"none", "writing", "publishing"}]
    /\ live \subseteq Runs
    /\ awaiting \in [Runs -> {"none", "event", "terminal"}]
    /\ returned \subseteq Runs
    /\ appended \in [Runs -> Nat]
    /\ harmed \subseteq Runs
    /\ bundled \subseteq Runs
    /\ faults \in Nat
    /\ crashes \in Nat

Seqs(r) == {lines[r][i].seq : i \in DOMAIN lines[r]}

\* The record never counts an event the log lacks, wherever the process dies:
\* the lines are written first.  (A run an import wrote has no such promise.)
CountedIsLogged ==
    \A r \in Runs \ bundled : 1..record[r].count \subseteq Seqs(r)

\* the flushes among a run's tasks, and what they have not put in the file yet
Flushes(q) == {i \in DOMAIN q : q[i].op = "append"}
Queued(r) ==
    IF step[r] = "appended" \/ Flushes(queue[r]) = {} THEN <<>>
    ELSE queue[r][CHOOSE i \in Flushes(queue[r]) : TRUE].batch

Covers(pieces, n) ==
    /\ pieces = <<>> => n = 0
    /\ \A i \in DOMAIN pieces :
          /\ pieces[i].from = IF i = 1 THEN 1 ELSE pieces[i - 1].to + 1
          /\ i = Len(pieces) => pieces[i].to = n

Ascends(pieces) ==
    \A i, j \in DOMAIN pieces :
        /\ pieces[i].from <= pieces[i].to
        /\ i < j => pieces[i].to < pieces[j].from

\* Buffering, compaction and the queue lose, repeat and reorder nothing: at most
\* one flush of a run is in the queue, and file, flush and buffer together are all
\* that was appended, in order.  A crash, a failed file operation, a deletion or a
\* race of creations may lose some of it, but repeats and reorders none.
NothingLost ==
    \A r \in Runs :
        /\ \A i, j \in Flushes(queue[r]) : i = j
        /\ r \notin harmed => Covers(lines[r] \o Queued(r) \o events[r], appended[r])
        /\ r \notin bundled => Ascends(lines[r] \o Queued(r) \o events[r])

\* Undisturbed, a log is numbered without gap or repeat, and between tasks the
\* record's count is its length.
NumberedInOrder ==
    \A r \in Runs \ harmed :
        /\ \A i \in DOMAIN lines[r] : lines[r][i].seq = i
        /\ step[r] # "appended" => record[r].count = Len(lines[r])

\* What is buffered is written although no later event comes to push it out.
BufferDrains == \A r \in Runs : events[r] # <<>> ~> events[r] = <<>>

\* A run that is queued or running on disk, and that no main loop of this
\* process drives, does not stay so: its outcome is flushed or, after a crash,
\* recovery fails it.  A failed file operation or an import can leave it so.
OrphansSettle ==
    \A r \in Runs :
        Orphaned(r) /\ r \notin live ~>
            ~Orphaned(r) \/ r \in live \cup bundled \/ faults > 0

\* Once a main loop's terminal append has returned, and with it the agent run,
\* the record on disk has the run's outcome.
ReturnedIsSettled == \A r \in returned \ harmed : ~Orphaned(r)
=============================================================================
