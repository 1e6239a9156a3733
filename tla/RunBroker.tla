----------------------------- MODULE RunBroker -----------------------------
(***************************************************************************)
(* The Shared process's RunBrokerStore: run intents, run projections,      *)
(* approvals and run-control commands, each with a bounded change history, *)
(* snapshotted to one JSON file after every mutation.                      *)
(*                                                                         *)
(* Every store method is synchronous: it changes the maps, appends the     *)
(* change event to a history, calls the listeners and then rewrites the    *)
(* snapshot file.  No other method runs before the write has ended, but    *)
(* the process can die first, or the write can throw: `unsaved' marks that *)
(* window.  A write that throws fails the call and undoes nothing: memory  *)
(* stays ahead of the file, and the methods go on answering from it, until *)
(* a later mutation writes all of it or a restart forgets it.              *)
(*                                                                         *)
(* approvalHistory and runControlHistory are arrays pushed in cursor order *)
(* and always read sorted by cursor, so they are sets of events here; that *)
(* a cursor names one event is a property (LogCursorsSound), not a shape.  *)
(* A method called for a record it leaves alone (an intent that exists, an *)
(* approval that is decided) returns it and writes nothing, also when the  *)
(* write of that record has thrown: a stutter.                             *)
(***************************************************************************)
EXTENDS Naturals, Sequences, FiniteSets

CONSTANTS Runs, Sessions, Pagelets,
          IntentIds, ApprovalIds, CommandIds,
          Statuses,      \* projection statuses the pagelets report
          None,          \* an absent optional field
          HistoryLimit,  \* projectionHistoryLimit, 500 in SharedWorker
          MaxRunCursor,  \* bound of this model on the runs' own cursors
          MaxTime,       \* bound of this model on reported times
          MaxFaults,     \* bound of this model on writes failing in a row
          MaxCursor      \* bound of this model on the two change counters

ProjectionStatus ==
    {"queued", "running", "completed", "failed", "cancelled", "recovered"}

ASSUME BrokerAssumption ==
    /\ HistoryLimit \in Nat \ {0}
    /\ MaxRunCursor \in Nat
    /\ MaxTime \in Nat
    /\ MaxFaults \in Nat
    /\ MaxCursor \in Nat
    /\ Statuses \subseteq ProjectionStatus
    /\ None \notin Runs \cup Sessions \cup Pagelets \cup Nat

VARIABLES
    intents,                \* IntentIds -> intent record
    projections,            \* Runs -> projection record
    projectionHistory,      \* Runs -> sequence of registered projections
    approvals,              \* ApprovalIds -> approval record
    approvalHistory,        \* set of approval change events
    approvalChangeCursor,
    commands,               \* CommandIds -> run-control command record
    runControlHistory,      \* set of command change events
    runControlChangeCursor,
    disk,                   \* the snapshot file
    unsaved,                \* a method has changed the maps, its write is due
    failedWrites,           \* writes that threw since the last that succeeded
    doomed,                 \* runs a session deletion still has to delete
    purged                  \* runs deleted since the file was written (history)

projectionVars == <<projections, projectionHistory>>
approvalVars == <<approvals, approvalHistory, approvalChangeCursor>>
controlVars == <<commands, runControlHistory, runControlChangeCursor>>
memory == <<intents, projectionVars, approvalVars, controlVars>>
vars == <<memory, disk, unsaved, failedWrites, doomed, purged>>

-----------------------------------------------------------------------------
(* Records. *)

Intent == [status: {"absent", "queued", "claimed"},
           target: Pagelets \cup {None},
           claimedBy: Pagelets \cup {None},
           run: Runs \cup {None}]
NoIntent == [status |-> "absent", target |-> None, claimedBy |-> None, run |-> None]

Projection == [status: ProjectionStatus \cup {"absent"},
               session: Sessions \cup {None},
               pagelet: Pagelets \cup {None},
               cursor: Nat,
               error: BOOLEAN,
               updatedAt: Nat]
NoProjection == [status |-> "absent", session |-> None, pagelet |-> None,
                 cursor |-> 0, error |-> FALSE, updatedAt |-> 0]

Approval == [status: {"absent", "pending", "approved", "denied"},
             run: Runs \cup {None}]
NoApproval == [status |-> "absent", run |-> None]

Kinds == {"pause", "cancel", "stop"}
Command == [status: {"absent", "accepted", "rejected", "applied"},
            run: Runs \cup {None},
            kind: Kinds \cup {None}]
NoCommand == [status |-> "absent", run |-> None, kind |-> None]

ApprovalEvent == [id: ApprovalIds, record: Approval, cursor: Nat]
CommandEvent == [id: CommandIds, record: Command, cursor: Nat]

Snapshot == [intents |-> intents,
             projections |-> projections,
             projectionHistory |-> projectionHistory,
             approvals |-> approvals,
             approvalHistory |-> approvalHistory,
             commands |-> commands,
             runControlHistory |-> runControlHistory]

-----------------------------------------------------------------------------
(* Histories. *)

Cursors(log) == {e.cursor : e \in log}

\* fault: one event too many is kept
RecordedLate(log, e) ==
    LET all == log \cup {e}
    IN  IF Cardinality(all) > HistoryLimit + 1
        THEN {x \in all : \E y \in all : y.cursor < x.cursor}
        ELSE all

\* push, then drop the oldest event once the log is longer than the limit
Recorded(log, e) ==
    LET all == log \cup {e}
    IN  IF Cardinality(all) > HistoryLimit
        THEN {x \in all : \E y \in all : y.cursor < x.cursor}
        ELSE all

\* fault: the newest end is dropped
RecordedProjectionHead(history, p) ==
    IF Len(history) < HistoryLimit THEN Append(history, p) ELSE history

RecordedProjection(history, p) ==
    LET all == Append(history, p)
    IN  IF Len(all) > HistoryLimit
        THEN SubSeq(all, Len(all) - HistoryLimit + 1, Len(all))
        ELSE all

\* fault: the cursor is counted from the log, which deletions shorten
ChangeByLength(id, record, log, counter) ==
    [id |-> id, record |-> record, cursor |-> Cardinality(log) + 1]
Change(id, record, log, counter) ==
    [id |-> id, record |-> record, cursor |-> counter + 1]

EmitApprovalChanged(a, record) ==
    /\ approvalChangeCursor < MaxCursor
    /\ approvals' = [approvals EXCEPT ![a] = record]
    /\ approvalChangeCursor' = approvalChangeCursor + 1
    /\ approvalHistory' = Recorded(approvalHistory,
            Change(a, record, approvalHistory, approvalChangeCursor))

EmitRunControlChanged(c, record) ==
    /\ runControlChangeCursor < MaxCursor
    /\ commands' = [commands EXCEPT ![c] = record]
    /\ runControlChangeCursor' = runControlChangeCursor + 1
    /\ runControlHistory' = Recorded(runControlHistory,
            Change(c, record, runControlHistory, runControlChangeCursor))

\* what every mutating method does last: persist is due, and nothing else runs
Idle == ~unsaved /\ doomed = {}
\* fault: persist is forgotten
MutatedOnly == UNCHANGED <<disk, unsaved, failedWrites>>
Mutated == unsaved' = TRUE /\ UNCHANGED <<disk, failedWrites>>

-----------------------------------------------------------------------------
(* Methods. *)

CreateRunIntent(i, p) ==
    /\ Idle
    /\ intents[i].status = "absent"
    /\ intents' = [intents EXCEPT ![i] = [NoIntent EXCEPT !.status = "queued",
                                                          !.target = p]]
    /\ Mutated
    /\ UNCHANGED <<projectionVars, approvalVars, controlVars, doomed, purged>>

ClaimRunIntent(i, p, r) ==
    /\ Idle
    /\ intents[i].status = "queued"
    /\ intents' = [intents EXCEPT ![i].status = "claimed",
                                  ![i].claimedBy = p,
                                  ![i].run = r]
    /\ Mutated
    /\ UNCHANGED <<projectionVars, approvalVars, controlVars, doomed, purged>>

NextRunCursor(current, cursor) ==
    IF cursor # None THEN cursor ELSE current.cursor + 1

\* Absent input fields keep the current record's value, error included.  The
\* reported cursor, status and time are taken as they come, forwards or backwards.
RegisterRunProjection(r, status, p, session, cursor, error, at) ==
    LET current == projections[r]
        next == [status |-> status,
                 session |-> IF session # None THEN session ELSE current.session,
                 pagelet |-> p,
                 cursor |-> NextRunCursor(current, cursor),
                 error |-> error \/ current.error,
                 updatedAt |-> at]
    IN  /\ Idle
        /\ cursor = None => current.cursor < MaxRunCursor
        /\ projections' = [projections EXCEPT ![r] = next]
        /\ projectionHistory' = [projectionHistory EXCEPT
                                    ![r] = RecordedProjection(@, next)]
        /\ Mutated
        /\ UNCHANGED <<intents, approvalVars, controlVars, doomed, purged>>

DeleteRunProjectionsForSession(session, pagelets) ==
    LET matching == {r \in Runs : /\ projections[r].status # "absent"
                                  /\ projections[r].session = session
                                  /\ projections[r].pagelet \in pagelets}
    IN  /\ Idle
        /\ doomed' = matching
        /\ UNCHANGED <<memory, disk, unsaved, failedWrites, purged>>

\* fault: the log keeps the deleted run's events
WithoutNone(log, r) == log
Without(log, r) == {e \in log : e.record.run # r}

\* fault: the run's records stay
ClearedNone(records, none, r) == records
Cleared(records, none, r) ==
    [x \in DOMAIN records |-> IF records[x].run = r THEN none ELSE records[x]]

\* one iteration of the deletion: the projection and all that names its run
DeleteRunProjection(r) ==
    /\ ~unsaved
    /\ r \in doomed
    /\ doomed' = doomed \ {r}
    /\ purged' = purged \cup {r}
    /\ projections' = [projections EXCEPT ![r] = NoProjection]
    /\ projectionHistory' = [projectionHistory EXCEPT ![r] = <<>>]
    /\ approvals' = Cleared(approvals, NoApproval, r)
    /\ approvalHistory' = Without(approvalHistory, r)
    /\ commands' = Cleared(commands, NoCommand, r)
    /\ runControlHistory' = Without(runControlHistory, r)
    /\ Mutated
    /\ UNCHANGED <<intents, approvalChangeCursor, runControlChangeCursor>>

RequestApproval(a, r) ==
    /\ Idle
    /\ approvals[a].status = "absent"
    /\ EmitApprovalChanged(a, [status |-> "pending", run |-> r])
    /\ Mutated
    /\ UNCHANGED <<intents, projectionVars, controlVars, doomed, purged>>

\* fault: an earlier decision is not looked at
DecidableTwice(a) == approvals[a].status # "absent"
Decidable(a) == approvals[a].status = "pending"

DecideApproval(a, granted) ==
    /\ Idle
    /\ Decidable(a)
    /\ EmitApprovalChanged(a, [approvals[a] EXCEPT
            !.status = IF granted THEN "approved" ELSE "denied"])
    /\ Mutated
    /\ UNCHANGED <<intents, projectionVars, controlVars, doomed, purged>>

\* evaluateRunControlCommand
Allowed(status, kind) ==
    status \in (IF kind = "cancel" THEN {"queued", "running"} ELSE {"running"})

RequestRunControlCommand(c, r, kind) ==
    /\ Idle
    /\ commands[c].status = "absent"
    /\ EmitRunControlChanged(c,
            [status |-> IF Allowed(projections[r].status, kind)
                        THEN "accepted" ELSE "rejected",
             run |-> r, kind |-> kind])
    /\ Mutated
    /\ UNCHANGED <<intents, projectionVars, approvalVars, doomed, purged>>

MarkRunControlCommandApplied(c) ==
    /\ Idle
    /\ commands[c].status = "accepted"
    /\ EmitRunControlChanged(c, [commands[c] EXCEPT !.status = "applied"])
    /\ Mutated
    /\ UNCHANGED <<intents, projectionVars, approvalVars, doomed, purged>>

\* persist: the temporary file is renamed over the snapshot, all or nothing
Save ==
    /\ unsaved
    /\ disk' = Snapshot
    /\ unsaved' = FALSE
    /\ failedWrites' = 0
    /\ purged' = {}
    /\ UNCHANGED <<memory, doomed>>

\* Making the directory, writing the temporary file or renaming it throws.  The
\* error ends the method, and with it the loop of a session deletion.
SaveFails ==
    /\ unsaved
    /\ failedWrites < MaxFaults
    /\ failedWrites' = failedWrites + 1
    /\ unsaved' = FALSE
    /\ doomed' = {}
    /\ UNCHANGED <<memory, disk, purged>>

\* The process dies, at any moment, and a new one hydrates the snapshot.  The
\* counters are not in the file: each becomes the largest cursor in its log.
Restart ==
    /\ intents' = disk.intents
    /\ projections' = disk.projections
    /\ projectionHistory' = disk.projectionHistory
    /\ approvals' = disk.approvals
    /\ approvalHistory' = disk.approvalHistory
    /\ commands' = disk.commands
    /\ runControlHistory' = disk.runControlHistory
    /\ approvalChangeCursor' \in
         {n \in {0} \cup Cursors(disk.approvalHistory) :
             \A m \in Cursors(disk.approvalHistory) : m <= n}
    /\ runControlChangeCursor' \in
         {n \in {0} \cup Cursors(disk.runControlHistory) :
             \A m \in Cursors(disk.runControlHistory) : m <= n}
    /\ unsaved' = FALSE
    /\ failedWrites' = 0
    /\ doomed' = {}
    /\ purged' = {}
    /\ UNCHANGED disk

-----------------------------------------------------------------------------

Init ==
    /\ intents = [i \in IntentIds |-> NoIntent]
    /\ projections = [r \in Runs |-> NoProjection]
    /\ projectionHistory = [r \in Runs |-> <<>>]
    /\ approvals = [a \in ApprovalIds |-> NoApproval]
    /\ approvalHistory = {}
    /\ approvalChangeCursor = 0
    /\ commands = [c \in CommandIds |-> NoCommand]
    /\ runControlHistory = {}
    /\ runControlChangeCursor = 0
    /\ disk = Snapshot
    /\ unsaved = FALSE
    /\ failedWrites = 0
    /\ doomed = {}
    /\ purged = {}

IntentStep ==
    \E i \in IntentIds, p \in Pagelets :
        \/ CreateRunIntent(i, p)
        \/ \E r \in Runs : ClaimRunIntent(i, p, r)

ProjectionStep ==
    \/ \E r \in Runs, status \in Statuses, p \in Pagelets,
          session \in Sessions \cup {None}, cursor \in (0..MaxRunCursor) \cup {None} :
          \E error \in {FALSE, status = "failed"}, at \in 0..MaxTime :
              RegisterRunProjection(r, status, p, session, cursor, error, at)
    \/ \E session \in Sessions :
          \/ DeleteRunProjectionsForSession(session, Pagelets)
          \/ \E p \in Pagelets : DeleteRunProjectionsForSession(session, {p})
    \/ \E r \in Runs : DeleteRunProjection(r)

ApprovalStep ==
    \E a \in ApprovalIds :
        \/ \E r \in Runs : RequestApproval(a, r)
        \/ \E granted \in BOOLEAN : DecideApproval(a, granted)

ControlStep ==
    \E c \in CommandIds :
        \/ \E r \in Runs, kind \in Kinds : RequestRunControlCommand(c, r, kind)
        \/ MarkRunControlCommandApplied(c)

Next ==
    \/ IntentStep
    \/ ProjectionStep
    \/ ApprovalStep
    \/ ControlStep
    \/ Save
    \/ SaveFails
    \/ Restart

Spec == Init /\ [][Next]_vars
-----------------------------------------------------------------------------
(* Properties. *)

\* Every map, log and counter holds the records the store's types declare.
TypeOK ==
    /\ intents \in [IntentIds -> Intent]
    /\ projections \in [Runs -> Projection]
    /\ projectionHistory \in [Runs -> Seq(Projection)]
    /\ approvals \in [ApprovalIds -> Approval]
    /\ approvalHistory \subseteq ApprovalEvent
    /\ approvalChangeCursor \in Nat
    /\ commands \in [CommandIds -> Command]
    /\ runControlHistory \subseteq CommandEvent
    /\ runControlChangeCursor \in Nat
    /\ unsaved \in BOOLEAN
    /\ failedWrites \in 0..MaxFaults
    /\ doomed \subseteq Runs
    /\ purged \subseteq Runs

\* Whenever a caller can be answered the file holds exactly what the maps and
\* logs hold, so a crash between two calls loses nothing a caller was told,
\* except from a write that threw until the next write that succeeds, whichever
\* method's it is: it brings the file level with all that was missed.
AnsweredIsSaved == ~unsaved /\ failedWrites = 0 => disk = Snapshot

LogSound(log, counter) ==
    /\ \A e, f \in log : e.cursor = f.cursor => e = f
    /\ \A e \in log : e.cursor \in 1..counter

\* While a change is in the log or in the file's log, its cursor names no other
\* change of either, and the changes to come get larger ones, whatever was
\* trimmed or deleted and whichever writes threw: what `event.cursor >
\* afterCursor' selects are the later changes.  It says nothing of a cursor in
\* neither log: a restart counts from the file, and gives out again those above.
LogCursorsSound ==
    /\ LogSound(approvalHistory \cup disk.approvalHistory, approvalChangeCursor)
    /\ LogSound(runControlHistory \cup disk.runControlHistory,
                runControlChangeCursor)

EndsInPresent(log, records) ==
    \A e \in log :
        /\ records[e.id].status # "absent"
        /\ e.record.run = records[e.id].run
        /\ \/ e.record = records[e.id]
           \/ \E f \in log : f.id = e.id /\ f.cursor > e.cursor

\* The newest change of an approval or command still in its log carries the
\* record's present state, and no log names a record that was deleted: a
\* subscriber that replays a log ends with what the store holds.
ReplayEndsInPresent ==
    /\ EndsInPresent(approvalHistory, approvals)
    /\ EndsInPresent(runControlHistory, commands)

\* A run's projection history ends with its projection, and is empty once the
\* projection is deleted, whatever the trimming and the restarts.
ProjectionHistoryCurrent ==
    \A r \in Runs :
        IF projections[r].status = "absent"
        THEN projectionHistory[r] = <<>>
        ELSE /\ projectionHistory[r] # <<>>
             /\ projectionHistory[r][Len(projectionHistory[r])] = projections[r]

\* No log outgrows projectionHistoryLimit, also one rebuilt by hydrate.
HistoriesBounded ==
    /\ Cardinality(approvalHistory) <= HistoryLimit
    /\ Cardinality(runControlHistory) <= HistoryLimit
    /\ \A r \in Runs : Len(projectionHistory[r]) <= HistoryLimit

RunsKnown(cmds, projs) ==
    \A c \in CommandIds :
        cmds[c].status \in {"accepted", "applied"} =>
            projs[cmds[c].run].status # "absent"

\* A command that was accepted, applied or not, is for a run the broker still
\* knows: deleting a run leaves no command for a pagelet to act on.
LiveCommandsHaveRun == RunsKnown(commands, projections)

\* the claims, decisions and verdicts of a snapshot are those of a later one,
\* except those of runs that are gone
Final(before, later, gone) ==
    /\ \A i \in IntentIds :
          before.intents[i].status = "claimed" =>
              later.intents[i] = before.intents[i]
    /\ \A a \in ApprovalIds :
          before.approvals[a].status \in {"approved", "denied"} =>
              \/ later.approvals[a] = before.approvals[a]
              \/ before.approvals[a].run \in gone
    /\ \A c \in CommandIds :
          before.commands[c].status # "absent" =>
              \/ later.commands[c] = before.commands[c]
              \/ /\ before.commands[c].status = "accepted"
                 /\ later.commands[c] = [before.commands[c] EXCEPT !.status = "applied"]
              \/ before.commands[c].run \in gone

\* a restart that forgets what no write has brought to the file
Forgets == Restart /\ (unsaved \/ failedWrites > 0)

OutcomesKept ==
    /\ Final(disk, disk', purged)
    /\ Forgets \/ Final(Snapshot, Snapshot', doomed)

\* A claim keeps its claimant and run, an approval its first decision and a
\* command its verdict, whoever calls again; only deleting the run takes one
\* away.  Of what the file once held this is true over any crashes and failed
\* writes: a write never carries an outcome that overturns one it replaces.  Of
\* what is held in memory it is true until a restart that comes before the write,
\* or after one that threw: a caller answered in between is then contradicted.
OutcomesFinal == [][OutcomesKept]_vars
=============================================================================
