-------------------------- MODULE RunBrokerProofs --------------------------
(***************************************************************************)
(* Proofs about RunBroker for any sets of runs, approvals, commands and    *)
(* intents and any history limit, and about RunBrokerGateway, which        *)
(* extends it, for any clients.                                            *)
(*                                                                         *)
(* A restart replaces the maps and logs by the file's, so nothing about    *)
(* them can be invariant unless the same holds of the file.  The invariant *)
(* therefore states one predicate, SnapshotOK, of both.  A write that throws *)
(* leaves memory ahead of the file by any number of changes; what ties the *)
(* two is that their logs share no cursor (CountersOK) and that memory keeps *)
(* the outcomes the file holds (Final), so that a later write overturns none. *)
(***************************************************************************)
EXTENDS RunBrokerGateway, FiniteSetTheorems, SequenceTheorems, WellFoundedInduction,
        TLAPS

SnapshotType ==
    [intents: [IntentIds -> Intent],
     projections: [Runs -> Projection],
     projectionHistory: [Runs -> Seq(Projection)],
     approvals: [ApprovalIds -> Approval],
     approvalHistory: SUBSET ApprovalEvent,
     commands: [CommandIds -> Command],
     runControlHistory: SUBSET CommandEvent]

\* no two events share a cursor, and cursors start at 1
CursorsUnique(log) ==
    /\ \A e, f \in log : e.cursor = f.cursor => e = f
    /\ \A e \in log : e.cursor >= 1

SnapshotOK(s) ==
    /\ s \in SnapshotType
    /\ CursorsUnique(s.approvalHistory)
    /\ CursorsUnique(s.runControlHistory)
    /\ EndsInPresent(s.approvalHistory, s.approvals)
    /\ EndsInPresent(s.runControlHistory, s.commands)
    /\ RunsKnown(s.commands, s.projections)

\* a log's events and a counter none of them is beyond
Fits(log, counter) ==
    /\ \A e \in log : e.cursor \in Nat /\ e.cursor <= counter
    /\ counter \in Nat

\* the events of a log in memory or in the file have a cursor each, which the
\* counter has passed
Counted(log, saved, counter) ==
    /\ CursorsUnique(log \cup saved)
    /\ Fits(log \cup saved, counter)

CountersOK ==
    /\ Counted(approvalHistory, disk.approvalHistory, approvalChangeCursor)
    /\ Counted(runControlHistory, disk.runControlHistory, runControlChangeCursor)

\* what only the steps that save or fail to save touch
WritesOK ==
    /\ unsaved \in BOOLEAN
    /\ failedWrites \in 0..MaxFaults
    /\ doomed \subseteq Runs
    /\ purged \subseteq Runs

IInv ==
    /\ SnapshotOK(Snapshot)
    /\ SnapshotOK(disk)
    /\ AnsweredIsSaved
    /\ CountersOK
    /\ Final(disk, Snapshot, purged)
    /\ WritesOK

-----------------------------------------------------------------------------
(* Logs.  Both kinds of event have the fields id, record and cursor.       *)

\* Whatever the limit trims, the log keeps the new event.
LEMMA NewEventKept ==
    ASSUME NEW log, NEW e, NEW counter \in Nat, Fits(log, counter),
           e.cursor = counter + 1
    PROVE  /\ e \in Recorded(log, e)
           /\ Recorded(log, e) \subseteq log \cup {e}
<1> DEFINE all == log \cup {e}
<1>1. CASE Cardinality(all) > HistoryLimit
  <2>1. all # {e}
    BY <1>1, FS_Singleton, BrokerAssumption
  <2>2. PICK f \in log : f # e
    BY <2>1
  <2>3. f.cursor < e.cursor
    BY <2>2 DEF Fits
  <2> QED BY <1>1, <2>2, <2>3 DEF Recorded
<1>2. CASE ~(Cardinality(all) > HistoryLimit)
  BY <1>2 DEF Recorded
<1> QED BY <1>1, <1>2

\* One emitted change keeps a log sound and in step with its records, provided
\* the record is new to the log or keeps its run.
LEMMA ChangeKeepsLog ==
    ASSUME NEW log, NEW records, NEW id \in DOMAIN records, NEW rec,
           \A e \in log : e.id \in DOMAIN records,
           NEW counter \in Nat,
           Fits(log, counter), CursorsUnique(log), EndsInPresent(log, records),
           rec.status # "absent",
           records[id].status = "absent" \/ rec.run = records[id].run,
           NEW log2, log2 = Recorded(log, Change(id, rec, log, counter)),
           NEW records2, records2[id] = rec,
           \A x \in DOMAIN records \ {id} : records2[x] = records[x]
    PROVE  /\ CursorsUnique(log2)
           /\ Fits(log2, counter + 1)
           /\ EndsInPresent(log2, records2)
           /\ log2 \subseteq log \cup {Change(id, rec, log, counter)}
<1> DEFINE e0 == Change(id, rec, log, counter)
<1>1. /\ e0.id = id
      /\ e0.record = rec
      /\ e0.cursor = counter + 1
  BY DEF Change
<1> HIDE DEF e0
<1>2. /\ e0 \in log2
      /\ log2 \subseteq log \cup {e0}
  BY <1>1, NewEventKept DEF e0
<1>3. CursorsUnique(log2)
  BY <1>1, <1>2 DEF CursorsUnique, Fits
<1>4. Fits(log2, counter + 1)
  BY <1>1, <1>2 DEF Fits
<1>5. ASSUME NEW e \in log2
      PROVE  /\ records2[e.id].status # "absent"
             /\ e.record.run = records2[e.id].run
             /\ \/ e.record = records2[e.id]
                \/ \E f \in log2 : f.id = e.id /\ f.cursor > e.cursor
  <2>1. CASE e = e0
    BY <2>1, <1>1
  <2>2. CASE e # e0 /\ e.id = id
    <3>1. e \in log /\ e.cursor < e0.cursor
      BY <2>2, <1>1, <1>2, <1>5 DEF Fits
    <3> QED BY <2>2, <3>1, <1>1, <1>2 DEF EndsInPresent
  <2>3. CASE e # e0 /\ e.id # id
    <3>1. e \in log /\ records2[e.id] = records[e.id]
      BY <2>3, <1>2, <1>5
    <3>2. CASE \E f \in log : f.id = e.id /\ f.cursor > e.cursor
      <4>1. PICK f \in log : f.id = e.id /\ f.cursor > e.cursor
        BY <3>2
      <4>2. f \in log2
        BY <4>1, <3>1, <1>5 DEF Recorded, Fits
      <4> QED BY <4>1, <4>2, <3>1 DEF EndsInPresent
    <3> QED BY <3>1, <3>2 DEF EndsInPresent
  <2> QED BY <2>1, <2>2, <2>3
<1>6. EndsInPresent(log2, records2)
  BY <1>5 DEF EndsInPresent
<1> QED BY <1>2, <1>3, <1>4, <1>6 DEF e0

LEMMA NoFaultYet == 0 \in 0..MaxFaults
BY BrokerAssumption

\* An event with the next cursor is unlike all that are in memory or in the file.
LEMMA ChangeCounted ==
    ASSUME NEW log, NEW saved, NEW counter, Counted(log, saved, counter),
           NEW id, NEW rec, NEW log2,
           log2 \subseteq log \cup {Change(id, rec, log, counter)}
    PROVE  Counted(log2, saved, counter + 1)
<1> DEFINE e0 == Change(id, rec, log, counter)
           all == log2 \cup saved
<1>1. e0.cursor = counter + 1
  BY DEF Change
<1> HIDE DEF e0
<1>2. all \subseteq (log \cup saved) \cup {e0}
  BY DEF e0
<1> HIDE DEF all
<1>3. CursorsUnique(all)
  BY <1>1, <1>2 DEF Counted, CursorsUnique, Fits
<1>4. Fits(all, counter + 1)
  BY <1>1, <1>2 DEF Counted, Fits
<1> QED BY <1>3, <1>4 DEF Counted, all

\* Fewer events are counted as well.
LEMMA PartCounted ==
    ASSUME NEW log, NEW saved, NEW counter, Counted(log, saved, counter),
           NEW log2, NEW saved2, log2 \cup saved2 \subseteq log \cup saved
    PROVE  Counted(log2, saved2, counter)
BY DEF Counted, CursorsUnique, Fits

\* Deleting a run's records and their events leaves the others as they were.
LEMMA DeletionKeepsLog ==
    ASSUME NEW log, NEW records, NEW none, NEW r, none.status = "absent",
           \A e \in log : e.id \in DOMAIN records,
           CursorsUnique(log), EndsInPresent(log, records)
    PROVE  /\ CursorsUnique(Without(log, r))
           /\ EndsInPresent(Without(log, r), Cleared(records, none, r))
<1>1. CursorsUnique(Without(log, r))
  BY DEF CursorsUnique, Without
<1>2. ASSUME NEW e \in Without(log, r)
      PROVE  /\ Cleared(records, none, r)[e.id] = records[e.id]
             /\ e \in log
  BY DEF Without, Cleared, EndsInPresent
<1>3. ASSUME NEW e \in Without(log, r), NEW f \in log, f.id = e.id
      PROVE  f \in Without(log, r)
  BY <1>3, <1>2 DEF Without, EndsInPresent
<1>4. EndsInPresent(Without(log, r), Cleared(records, none, r))
  BY <1>2, <1>3 DEF EndsInPresent
<1> QED BY <1>1, <1>4

-----------------------------------------------------------------------------
(* Outcomes.                                                               *)

LEMMA FinalSame == ASSUME NEW s, NEW gone PROVE Final(s, s, gone)
BY DEF Final

LEMMA FinalTransitive ==
    ASSUME NEW s \in SnapshotType, NEW t, NEW u, NEW g1, NEW g2, NEW gone,
           Final(s, t, g1), Final(t, u, g2), g1 \cup g2 \subseteq gone
    PROVE  Final(s, u, gone)
<1>1. ASSUME NEW i \in IntentIds, s.intents[i].status = "claimed"
      PROVE  u.intents[i] = s.intents[i]
  BY <1>1 DEF Final
<1>2. ASSUME NEW a \in ApprovalIds, s.approvals[a].status \in {"approved", "denied"}
      PROVE  u.approvals[a] = s.approvals[a] \/ s.approvals[a].run \in gone
  BY <1>2 DEF Final
<1>3. ASSUME NEW c \in CommandIds, s.commands[c].status # "absent"
      PROVE  \/ u.commands[c] = s.commands[c]
             \/ /\ s.commands[c].status = "accepted"
                /\ u.commands[c] = [s.commands[c] EXCEPT !.status = "applied"]
             \/ s.commands[c].run \in gone
  <2>1. s.commands[c] \in Command
    BY DEF SnapshotType
  <2>2. CASE t.commands[c] = s.commands[c]
    BY <1>3, <2>2 DEF Final
  <2>3. CASE /\ s.commands[c].status = "accepted"
             /\ t.commands[c] = [s.commands[c] EXCEPT !.status = "applied"]
    <3>1. t.commands[c].status = "applied" /\ t.commands[c].run = s.commands[c].run
      BY <2>1, <2>3 DEF Command
    <3> QED BY <2>3, <3>1 DEF Final
  <2>4. CASE s.commands[c].run \in g1
    BY <2>4
  <2> QED BY <1>3, <2>2, <2>3, <2>4 DEF Final
<1> QED BY <1>1, <1>2, <1>3 DEF Final

\* A method keeps every outcome, except that a deletion takes those of the run
\* it deletes.
LEMMA MethodKeepsOutcomes ==
    ASSUME Snapshot \in SnapshotType,
           IntentStep \/ ProjectionStep \/ ApprovalStep \/ ControlStep
    PROVE  Final(Snapshot, Snapshot', doomed \cap purged')
<1>1. /\ intents \in [IntentIds -> Intent]
      /\ approvals \in [ApprovalIds -> Approval]
      /\ commands \in [CommandIds -> Command]
  BY DEF SnapshotType, Snapshot
<1> USE DEF Final, Snapshot
<1>2. CASE IntentStep
  BY <1>1, <1>2 DEF IntentStep, CreateRunIntent, ClaimRunIntent, approvalVars,
                    controlVars
<1>3. CASE ProjectionStep
  <2>1. CASE UNCHANGED <<intents, approvals, commands>>
    BY <2>1
  <2>2. ASSUME NEW r \in Runs, DeleteRunProjection(r)
        PROVE  /\ r \in doomed \cap purged'
               /\ UNCHANGED intents
               /\ \A a \in ApprovalIds :
                     approvals'[a] = IF approvals[a].run = r THEN NoApproval
                                     ELSE approvals[a]
               /\ \A c \in CommandIds :
                     commands'[c] = IF commands[c].run = r THEN NoCommand
                                    ELSE commands[c]
    BY <1>1, <2>2 DEF DeleteRunProjection, Cleared
  <2>3. ASSUME NEW session, NEW pagelets,
               DeleteRunProjectionsForSession(session, pagelets)
        PROVE  UNCHANGED <<intents, approvals, commands>>
    BY <2>3 DEF DeleteRunProjectionsForSession, memory, approvalVars, controlVars
  <2>4. ASSUME NEW r, NEW status, NEW p, NEW session, NEW cursor, NEW error, NEW at,
               RegisterRunProjection(r, status, p, session, cursor, error, at)
        PROVE  UNCHANGED <<intents, approvals, commands>>
    BY <2>4 DEF RegisterRunProjection, approvalVars, controlVars
  <2> QED BY <1>3, <2>1, <2>2, <2>3, <2>4 DEF ProjectionStep
<1>4. CASE ApprovalStep
  BY <1>1, <1>4 DEF ApprovalStep, RequestApproval, DecideApproval, Decidable,
                    EmitApprovalChanged, controlVars
<1>5. CASE ControlStep
  BY <1>1, <1>5 DEF ControlStep, RequestRunControlCommand, EmitRunControlChanged,
                    MarkRunControlCommandApplied, approvalVars
<1> QED BY <1>2, <1>3, <1>4, <1>5

-----------------------------------------------------------------------------
(* The invariant, action by action.                                        *)

LEMMA InitIInv == Init => IInv
<1> SUFFICES ASSUME Init PROVE IInv
  OBVIOUS
<1>1. Snapshot \in SnapshotType
  BY DEF Init, Snapshot, SnapshotType, Intent, NoIntent, Projection, NoProjection,
         Approval, NoApproval, Command, NoCommand
<1>2. SnapshotOK(Snapshot)
  BY <1>1 DEF Init, Snapshot, SnapshotOK, CursorsUnique, EndsInPresent, RunsKnown,
              NoCommand
<1>3. CountersOK
  BY DEF Init, Snapshot, CountersOK, Counted, CursorsUnique, Fits
<1>4. Final(disk, Snapshot, purged)
  BY FinalSame DEF Init
<1>5. WritesOK
  BY NoFaultYet DEF Init, WritesOK
<1> QED BY <1>2, <1>3, <1>4, <1>5 DEF Init, IInv, AnsweredIsSaved

\* What every mutating method shares: the file keeps its old content, and the
\* window before persist is open.
LEMMA MutationIInv ==
    ASSUME IInv, Mutated, SnapshotOK(Snapshot)', CountersOK',
           doomed' \subseteq Runs, purged \subseteq purged', purged' \subseteq Runs,
           IntentStep \/ ProjectionStep \/ ApprovalStep \/ ControlStep
    PROVE  IInv'
<1>1. Snapshot \in SnapshotType /\ disk \in SnapshotType
  BY DEF IInv, SnapshotOK
<1>2. Final(Snapshot, Snapshot', doomed \cap purged')
  BY <1>1, MethodKeepsOutcomes
<1>3. Final(disk, Snapshot', purged')
  BY <1>1, <1>2, FinalTransitive DEF IInv
<1> QED BY <1>3 DEF IInv, Mutated, AnsweredIsSaved, WritesOK

LEMMA IntentIInv == ASSUME IInv, IntentStep PROVE IInv'
<1>1. PICK i \in IntentIds, p \in Pagelets :
         \/ CreateRunIntent(i, p)
         \/ \E r \in Runs : ClaimRunIntent(i, p, r)
  BY DEF IntentStep
<1>2. intents' \in [IntentIds -> Intent]
  <2>1. intents \in [IntentIds -> Intent]
    BY DEF IInv, SnapshotOK, SnapshotType, Snapshot
  <2>2. CASE CreateRunIntent(i, p)
    <3>1. [NoIntent EXCEPT !.status = "queued", !.target = p] \in Intent
      BY DEF Intent, NoIntent
    <3> QED BY <2>1, <2>2, <3>1 DEF CreateRunIntent
  <2>3. ASSUME NEW r \in Runs, ClaimRunIntent(i, p, r)
        PROVE  intents' \in [IntentIds -> Intent]
    <3>1. [intents[i] EXCEPT !.status = "claimed", !.claimedBy = p, !.run = r]
             \in Intent
      BY <2>1 DEF Intent
    <3> QED BY <2>1, <2>3, <3>1 DEF ClaimRunIntent
  <2> QED BY <1>1, <2>2, <2>3
<1>3. /\ Mutated
      /\ UNCHANGED <<projectionVars, approvalVars, controlVars, doomed, purged>>
  BY <1>1 DEF CreateRunIntent, ClaimRunIntent
<1>4. SnapshotOK(Snapshot)' /\ CountersOK'
  BY <1>2, <1>3 DEF IInv, SnapshotOK, SnapshotType, Snapshot, CountersOK, Mutated,
                    projectionVars, approvalVars, controlVars
<1> QED BY <1>3, <1>4, MutationIInv DEF IInv, WritesOK

\* What a registration makes of the maps; of the logs it leaves both alone.
LEMMA RegisterSnapshot ==
    ASSUME IInv, NEW r \in Runs, NEW status \in ProjectionStatus, NEW p \in Pagelets,
           NEW session \in Sessions \cup {None},
           NEW cursor \in Nat \cup {None}, NEW error \in BOOLEAN, NEW at \in Nat,
           RegisterRunProjection(r, status, p, session, cursor, error, at)
    PROVE  SnapshotOK(Snapshot)' /\ CountersOK'
<1> DEFINE next == [status |-> status,
                    session |-> IF session # None THEN session
                                ELSE projections[r].session,
                    pagelet |-> p,
                    cursor |-> NextRunCursor(projections[r], cursor),
                    error |-> error \/ projections[r].error,
                    updatedAt |-> at]
<1>1. /\ projections' = [projections EXCEPT ![r] = next]
      /\ projectionHistory' = [projectionHistory EXCEPT
                                   ![r] = RecordedProjection(@, next)]
      /\ Mutated
      /\ UNCHANGED <<intents, approvalVars, controlVars, doomed, purged>>
  BY DEF RegisterRunProjection
<1>2. /\ projections \in [Runs -> Projection]
      /\ projectionHistory \in [Runs -> Seq(Projection)]
  BY DEF IInv, SnapshotOK, SnapshotType, Snapshot
<1>3. next \in Projection /\ next.status # "absent"
  <2>1. NextRunCursor(projections[r], cursor) \in Nat
    BY <1>2, BrokerAssumption DEF NextRunCursor, Projection
  <2>2. (error \/ projections[r].error) \in BOOLEAN
    OBVIOUS
  <2>3. status \in ProjectionStatus /\ status # "absent"
    BY DEF ProjectionStatus
  <2>4. projections[r].session \in Sessions \cup {None}
    BY <1>2 DEF Projection
  <2> QED BY <2>1, <2>2, <2>3, <2>4 DEF Projection
<1> HIDE DEF next
<1>4. RecordedProjection(projectionHistory[r], next) \in Seq(Projection)
  <2> DEFINE all == Append(projectionHistory[r], next)
  <2>1. all \in Seq(Projection) /\ Len(all) \in Nat
    BY <1>2, <1>3
  <2> HIDE DEF all
  <2>2. CASE Len(all) > HistoryLimit
    BY <2>1, <2>2, BrokerAssumption, SubSeqProperties
       DEF all, RecordedProjection
  <2> QED BY <2>1, <2>2 DEF all, RecordedProjection
<1>5. /\ projections' \in [Runs -> Projection]
      /\ projectionHistory' \in [Runs -> Seq(Projection)]
  BY <1>1, <1>2, <1>3, <1>4
<1>6. RunsKnown(commands, projections')
  BY <1>1, <1>2, <1>3 DEF IInv, SnapshotOK, Snapshot, RunsKnown
<1> QED BY <1>1, <1>5, <1>6 DEF IInv, SnapshotOK, SnapshotType, Snapshot,
                                CountersOK, Mutated, approvalVars, controlVars


LEMMA DeleteIInv ==
    ASSUME IInv, NEW r \in Runs, DeleteRunProjection(r)
    PROVE  IInv'
<1>1. /\ Snapshot \in SnapshotType
      /\ \A e \in approvalHistory : e.id \in DOMAIN approvals
      /\ \A e \in runControlHistory : e.id \in DOMAIN commands
  BY DEF IInv, SnapshotOK, SnapshotType, Snapshot, ApprovalEvent, CommandEvent
<1>2. Snapshot' \in SnapshotType
  <2>1. NoProjection \in Projection /\ NoApproval \in Approval /\ NoCommand \in Command
    BY DEF NoProjection, Projection, NoApproval, Approval, NoCommand, Command
  <2>2. /\ projections' \in [Runs -> Projection]
        /\ projectionHistory' \in [Runs -> Seq(Projection)]
        /\ UNCHANGED intents
    BY <1>1, <2>1 DEF DeleteRunProjection, SnapshotType, Snapshot
  <2>3. /\ approvals' \in [ApprovalIds -> Approval]
        /\ approvalHistory' \subseteq ApprovalEvent
    BY <1>1, <2>1 DEF DeleteRunProjection, SnapshotType, Snapshot, Cleared, Without
  <2>4. /\ commands' \in [CommandIds -> Command]
        /\ runControlHistory' \subseteq CommandEvent
    BY <1>1, <2>1 DEF DeleteRunProjection, SnapshotType, Snapshot, Cleared, Without
  <2> QED BY <1>1, <2>2, <2>3, <2>4 DEF SnapshotType, Snapshot
<1>3. /\ CursorsUnique(approvalHistory')
      /\ EndsInPresent(approvalHistory', approvals')
  BY <1>1, DeletionKeepsLog
     DEF DeleteRunProjection, IInv, SnapshotOK, Snapshot, NoApproval
<1>4. /\ CursorsUnique(runControlHistory')
      /\ EndsInPresent(runControlHistory', commands')
  BY <1>1, DeletionKeepsLog
     DEF DeleteRunProjection, IInv, SnapshotOK, Snapshot, NoCommand
<1>5. RunsKnown(commands', projections')
  <2>1. ASSUME NEW c \in CommandIds, commands'[c].status \in {"accepted", "applied"}
        PROVE  commands'[c] = commands[c] /\ commands[c].run # r
    BY <1>1, <2>1 DEF DeleteRunProjection, Cleared, NoCommand, SnapshotType, Snapshot
  <2>2. ASSUME NEW s, s # r
        PROVE  projections'[s] = projections[s]
    BY <1>1, <2>2 DEF DeleteRunProjection, SnapshotType, Snapshot
  <2> QED BY <2>1, <2>2 DEF RunsKnown, IInv, SnapshotOK, Snapshot
<1>6. CountersOK'
  <2>1. /\ approvalHistory' \subseteq approvalHistory
        /\ runControlHistory' \subseteq runControlHistory
        /\ UNCHANGED <<disk, approvalChangeCursor, runControlChangeCursor>>
    BY DEF DeleteRunProjection, Without, Mutated
  <2>2. Counted(approvalHistory', disk.approvalHistory, approvalChangeCursor)
    BY <2>1, PartCounted DEF IInv, CountersOK
  <2>3. Counted(runControlHistory', disk.runControlHistory, runControlChangeCursor)
    BY <2>1, PartCounted DEF IInv, CountersOK
  <2> QED BY <2>1, <2>2, <2>3 DEF CountersOK
<1>7. SnapshotOK(Snapshot)'
  BY <1>2, <1>3, <1>4, <1>5 DEF SnapshotOK, Snapshot
<1>8. ProjectionStep
  BY DEF ProjectionStep
<1> QED BY <1>6, <1>7, <1>8, MutationIInv DEF IInv, WritesOK, DeleteRunProjection

LEMMA ApprovalIInv == ASSUME IInv, ApprovalStep PROVE IInv'
<1>1. PICK a \in ApprovalIds, rec \in Approval :
         /\ EmitApprovalChanged(a, rec)
         /\ rec.status # "absent"
         /\ approvals[a].status = "absent" \/ rec.run = approvals[a].run
         /\ Mutated
         /\ UNCHANGED <<intents, projectionVars, controlVars, doomed, purged>>
  <2>1. ASSUME NEW a \in ApprovalIds, NEW r \in Runs, RequestApproval(a, r)
        PROVE  [status |-> "pending", run |-> r] \in Approval
    BY DEF Approval
  <2>2. ASSUME NEW a \in ApprovalIds, NEW granted \in BOOLEAN,
               DecideApproval(a, granted)
        PROVE  LET rec == [approvals[a] EXCEPT
                                !.status = IF granted THEN "approved" ELSE "denied"]
               IN  /\ rec \in Approval
                   /\ rec.status # "absent"
                   /\ rec.run = approvals[a].run
    BY DEF IInv, SnapshotOK, SnapshotType, Snapshot, Approval
  <2> QED BY <2>1, <2>2 DEF ApprovalStep, RequestApproval, DecideApproval
<1>2. /\ approvals \in [ApprovalIds -> Approval]
      /\ approvalHistory \subseteq ApprovalEvent
      /\ CursorsUnique(approvalHistory)
      /\ EndsInPresent(approvalHistory, approvals)
      /\ approvalChangeCursor \in Nat
      /\ Fits(approvalHistory, approvalChangeCursor)
      /\ Counted(approvalHistory, disk.approvalHistory, approvalChangeCursor)
  BY DEF IInv, SnapshotOK, SnapshotType, Snapshot, CountersOK, Counted, Fits, ApprovalEvent
<1>3. /\ CursorsUnique(approvalHistory')
      /\ Fits(approvalHistory', approvalChangeCursor')
      /\ EndsInPresent(approvalHistory', approvals')
      /\ approvalHistory' \subseteq approvalHistory \cup
             {Change(a, rec, approvalHistory, approvalChangeCursor)}
      /\ Counted(approvalHistory', disk.approvalHistory, approvalChangeCursor')
  <2>1. /\ a \in DOMAIN approvals
        /\ approvalHistory' = Recorded(approvalHistory, Change(a, rec, approvalHistory, approvalChangeCursor))
        /\ approvalChangeCursor' = approvalChangeCursor + 1
        /\ approvals'[a] = rec
        /\ \A x \in DOMAIN approvals \ {a} : approvals'[x] = approvals[x]
        /\ \A e \in approvalHistory : e.id \in DOMAIN approvals
    BY <1>1, <1>2 DEF EmitApprovalChanged, ApprovalEvent
  <2>2. /\ CursorsUnique(approvalHistory')
        /\ Fits(approvalHistory', approvalChangeCursor')
        /\ EndsInPresent(approvalHistory', approvals')
        /\ approvalHistory' \subseteq approvalHistory \cup
               {Change(a, rec, approvalHistory, approvalChangeCursor)}
    BY <1>1, <1>2, <2>1, ChangeKeepsLog
  <2>3. Counted(approvalHistory', disk.approvalHistory, approvalChangeCursor')
    BY <1>2, <2>1, <2>2, ChangeCounted
  <2> QED BY <2>2, <2>3
<1>4. /\ approvals' \in [ApprovalIds -> Approval]
      /\ approvalHistory' \subseteq ApprovalEvent
  BY <1>1, <1>2, <1>3 DEF EmitApprovalChanged, ApprovalEvent, Change
<1>5. SnapshotOK(Snapshot)' /\ CountersOK'
  BY <1>1, <1>3, <1>4 DEF IInv, SnapshotOK, SnapshotType, Snapshot, CountersOK,
                          projectionVars, controlVars, Mutated
<1> QED BY <1>1, <1>5, MutationIInv DEF IInv, WritesOK

LEMMA ControlIInv == ASSUME IInv, ControlStep PROVE IInv'
<1>1. PICK c \in CommandIds, rec \in Command :
         /\ EmitRunControlChanged(c, rec)
         /\ rec.status # "absent"
         /\ commands[c].status = "absent" \/ rec.run = commands[c].run
         /\ rec.status \in {"accepted", "applied"} =>
                projections[rec.run].status # "absent"
         /\ Mutated
         /\ UNCHANGED <<intents, projectionVars, approvalVars, doomed, purged>>
  <2>1. ASSUME NEW c \in CommandIds, NEW r \in Runs, NEW kind \in Kinds,
               RequestRunControlCommand(c, r, kind)
        PROVE  LET rec == [status |-> IF Allowed(projections[r].status, kind)
                                         THEN "accepted" ELSE "rejected",
                              run |-> r, kind |-> kind]
               IN  /\ rec \in Command
                   /\ rec.status \in {"accepted", "applied"} =>
                          projections[rec.run].status # "absent"
    BY DEF Command, Allowed
  <2>2. ASSUME NEW c \in CommandIds, MarkRunControlCommandApplied(c)
        PROVE  LET rec == [commands[c] EXCEPT !.status = "applied"]
               IN  /\ rec \in Command
                   /\ rec.status # "absent"
                   /\ rec.run = commands[c].run
                   /\ projections[rec.run].status # "absent"
    BY <2>2 DEF IInv, SnapshotOK, SnapshotType, Snapshot, Command, RunsKnown,
                MarkRunControlCommandApplied
  <2> QED BY <2>1, <2>2
          DEF ControlStep, RequestRunControlCommand, MarkRunControlCommandApplied
<1>2. /\ commands \in [CommandIds -> Command]
      /\ runControlHistory \subseteq CommandEvent
      /\ CursorsUnique(runControlHistory)
      /\ EndsInPresent(runControlHistory, commands)
      /\ runControlChangeCursor \in Nat
      /\ Fits(runControlHistory, runControlChangeCursor)
      /\ Counted(runControlHistory, disk.runControlHistory, runControlChangeCursor)
  BY DEF IInv, SnapshotOK, SnapshotType, Snapshot, CountersOK, Counted, Fits, CommandEvent
<1>3. /\ CursorsUnique(runControlHistory')
      /\ Fits(runControlHistory', runControlChangeCursor')
      /\ EndsInPresent(runControlHistory', commands')
      /\ runControlHistory' \subseteq runControlHistory \cup
             {Change(c, rec, runControlHistory, runControlChangeCursor)}
      /\ Counted(runControlHistory', disk.runControlHistory, runControlChangeCursor')
  <2>1. /\ c \in DOMAIN commands
        /\ runControlHistory' = Recorded(runControlHistory, Change(c, rec, runControlHistory, runControlChangeCursor))
        /\ runControlChangeCursor' = runControlChangeCursor + 1
        /\ commands'[c] = rec
        /\ \A x \in DOMAIN commands \ {c} : commands'[x] = commands[x]
        /\ \A e \in runControlHistory : e.id \in DOMAIN commands
    BY <1>1, <1>2 DEF EmitRunControlChanged, CommandEvent
  <2>2. /\ CursorsUnique(runControlHistory')
        /\ Fits(runControlHistory', runControlChangeCursor')
        /\ EndsInPresent(runControlHistory', commands')
        /\ runControlHistory' \subseteq runControlHistory \cup
               {Change(c, rec, runControlHistory, runControlChangeCursor)}
    BY <1>1, <1>2, <2>1, ChangeKeepsLog
  <2>3. Counted(runControlHistory', disk.runControlHistory, runControlChangeCursor')
    BY <1>2, <2>1, <2>2, ChangeCounted
  <2> QED BY <2>2, <2>3
<1>4. /\ commands' \in [CommandIds -> Command]
      /\ runControlHistory' \subseteq CommandEvent
  BY <1>1, <1>2, <1>3 DEF EmitRunControlChanged, CommandEvent, Change
<1>5. RunsKnown(commands', projections')
  BY <1>1, <1>2 DEF EmitRunControlChanged, IInv, SnapshotOK, Snapshot, RunsKnown,
                    projectionVars
<1>6. SnapshotOK(Snapshot)' /\ CountersOK'
  BY <1>1, <1>3, <1>4, <1>5 DEF IInv, SnapshotOK, SnapshotType, Snapshot,
                          CountersOK, projectionVars, approvalVars, Mutated
<1> QED BY <1>1, <1>6, MutationIInv DEF IInv, WritesOK

LEMMA SaveIInv == ASSUME IInv, Save PROVE IInv'
<1>1. Snapshot' = Snapshot /\ disk' = Snapshot
  BY DEF Save, Snapshot, memory, projectionVars, approvalVars, controlVars
<1>2. CountersOK'
  <2>1. /\ Counted(approvalHistory, approvalHistory, approvalChangeCursor)
        /\ Counted(runControlHistory, runControlHistory, runControlChangeCursor)
    BY PartCounted DEF IInv, CountersOK
  <2>2. UNCHANGED <<approvalVars, controlVars>>
    BY DEF Save, memory
  <2> QED BY <1>1, <2>1, <2>2 DEF CountersOK, Snapshot, approvalVars, controlVars
<1>3. Final(disk', Snapshot', purged')
  BY <1>1, FinalSame
<1>4. WritesOK'
  BY NoFaultYet DEF IInv, Save, WritesOK
<1> QED BY <1>1, <1>2, <1>3, <1>4 DEF IInv, AnsweredIsSaved

LEMMA SaveFailsIInv == ASSUME IInv, SaveFails PROVE IInv'
<1>1. /\ Snapshot' = Snapshot
      /\ UNCHANGED <<disk, purged, approvalVars, controlVars>>
  BY DEF SaveFails, Snapshot, memory, projectionVars, approvalVars, controlVars
<1>2. failedWrites' \in 0..MaxFaults /\ failedWrites' # 0
  BY BrokerAssumption DEF IInv, SaveFails, WritesOK
<1>3. WritesOK'
  BY <1>2 DEF IInv, SaveFails, WritesOK
<1> QED BY <1>1, <1>2, <1>3 DEF IInv, AnsweredIsSaved, CountersOK, approvalVars,
                                controlVars

LEMMA RestartIInv == ASSUME IInv, Restart PROVE IInv'
<1>1. Snapshot' = disk /\ disk' = disk
  BY DEF Restart, IInv, SnapshotOK, SnapshotType, Snapshot
<1>2. \A e \in disk.approvalHistory \cup disk.runControlHistory : e.cursor \in Nat
  BY DEF IInv, SnapshotOK, SnapshotType, ApprovalEvent, CommandEvent
<1>3. CountersOK'
  <2>1. /\ Fits(disk.approvalHistory, approvalChangeCursor')
        /\ Fits(disk.runControlHistory, runControlChangeCursor')
    BY <1>2 DEF Restart, Fits, Cursors
  <2>2. /\ approvalHistory' \cup disk'.approvalHistory = disk.approvalHistory
        /\ runControlHistory' \cup disk'.runControlHistory = disk.runControlHistory
    BY DEF Restart
  <2> QED BY <2>1, <2>2 DEF CountersOK, Counted, IInv, SnapshotOK
<1>4. Final(disk', Snapshot', purged')
  BY <1>1, FinalSame
<1>5. WritesOK'
  BY NoFaultYet DEF Restart, WritesOK
<1> QED BY <1>1, <1>3, <1>4, <1>5 DEF IInv, AnsweredIsSaved

LEMMA RegisterIInv ==
    ASSUME IInv, NEW r \in Runs, NEW status \in ProjectionStatus, NEW p \in Pagelets,
           NEW session \in Sessions \cup {None},
           NEW cursor \in Nat \cup {None}, NEW error \in BOOLEAN, NEW at \in Nat,
           RegisterRunProjection(r, status, p, session, cursor, error, at)
    PROVE  IInv'
<1>1. /\ Mutated
      /\ UNCHANGED <<intents, approvalVars, controlVars, doomed, purged>>
  BY DEF RegisterRunProjection
<1>2. SnapshotOK(Snapshot)' /\ CountersOK'
  BY RegisterSnapshot
<1>3. Final(Snapshot, Snapshot', {})
  BY <1>1 DEF Final, Snapshot, approvalVars, controlVars
<1>4. Final(disk, Snapshot', purged)
  <2>1. disk \in SnapshotType /\ Final(disk, Snapshot, purged)
    BY DEF IInv, SnapshotOK
  <2> QED BY <1>3, <2>1, FinalTransitive
<1> QED BY <1>1, <1>2, <1>4 DEF IInv, Mutated, AnsweredIsSaved, WritesOK

LEMMA NextIInv == IInv /\ [Next]_vars => IInv'
<1> SUFFICES ASSUME IInv, [Next]_vars PROVE IInv'
  OBVIOUS
<1>1. CASE ProjectionStep
  <2>1. CASE \E session \in Sessions :
               \/ DeleteRunProjectionsForSession(session, Pagelets)
               \/ \E p \in Pagelets : DeleteRunProjectionsForSession(session, {p})
    <3>1. /\ UNCHANGED <<memory, disk, unsaved, failedWrites, purged>>
          /\ doomed' \subseteq Runs
      BY <2>1 DEF DeleteRunProjectionsForSession
    <3>2. Snapshot' = Snapshot
      BY <3>1 DEF memory, projectionVars, approvalVars, controlVars, Snapshot
    <3> QED BY <3>1, <3>2 DEF IInv, memory, approvalVars, controlVars,
                        AnsweredIsSaved, CountersOK, WritesOK
  <2>2. CASE \E r \in Runs : DeleteRunProjection(r)
    BY <2>2, DeleteIInv
  <2>3. ASSUME NEW r \in Runs, NEW status \in Statuses, NEW p \in Pagelets,
               NEW session \in Sessions \cup {None},
               NEW cursor \in (0..MaxRunCursor) \cup {None},
               NEW error \in {FALSE, status = "failed"}, NEW at \in 0..MaxTime,
               RegisterRunProjection(r, status, p, session, cursor, error, at)
        PROVE  IInv'
    <3>1. error \in BOOLEAN
      OBVIOUS
    <3>3. at \in Nat
      OBVIOUS
    <3>2. status \in ProjectionStatus /\ cursor \in Nat \cup {None}
      BY BrokerAssumption
    <3> QED BY <2>3, <3>1, <3>2, <3>3, RegisterIInv
  <2> QED BY <1>1, <2>1, <2>2, <2>3 DEF ProjectionStep
<1>2. CASE UNCHANGED vars
  <2>1. /\ Snapshot' = Snapshot
        /\ UNCHANGED <<disk, unsaved, failedWrites, doomed, purged, approvalVars,
                       controlVars>>
    BY <1>2 DEF vars, memory, projectionVars, approvalVars, controlVars, Snapshot
  <2> QED BY <2>1 DEF IInv, approvalVars, controlVars, AnsweredIsSaved, CountersOK,
                      WritesOK
<1> QED BY <1>1, <1>2, IntentIInv, ApprovalIInv, ControlIInv, SaveIInv, SaveFailsIInv,
           RestartIInv
        DEF Next

LEMMA BrokerInvariant == Spec => []IInv
BY InitIInv, NextIInv, PTL DEF Spec

-----------------------------------------------------------------------------
(* What the invariant says. *)

\* Maps, logs and counters stay within the declared record types.
THEOREM BrokerTypeOK == Spec => []TypeOK
<1>1. IInv => TypeOK
  BY DEF IInv, SnapshotOK, SnapshotType, Snapshot, CountersOK, Counted, Fits,
         WritesOK, TypeOK
<1> QED BY <1>1, BrokerInvariant, PTL

\* A crash between two answered calls loses nothing, unless a write has thrown
\* since the last that did not.
THEOREM BrokerAnsweredIsSaved == Spec => []AnsweredIsSaved
<1>1. IInv => AnsweredIsSaved
  BY DEF IInv
<1> QED BY <1>1, BrokerInvariant, PTL

\* Cursors name one change each in memory and file together, and the next is
\* larger than all of theirs.
THEOREM BrokerLogCursorsSound == Spec => []LogCursorsSound
<1>1. IInv => LogCursorsSound
  BY DEF IInv, CountersOK, Counted, CursorsUnique, Fits, LogCursorsSound, LogSound
<1> QED BY <1>1, BrokerInvariant, PTL

\* A full replay of a log ends with the records as they are.
THEOREM BrokerReplayEndsInPresent == Spec => []ReplayEndsInPresent
<1>1. IInv => ReplayEndsInPresent
  BY DEF IInv, SnapshotOK, Snapshot, ReplayEndsInPresent
<1> QED BY <1>1, BrokerInvariant, PTL

\* No accepted or applied command outlives its run's projection.
THEOREM BrokerLiveCommandsHaveRun == Spec => []LiveCommandsHaveRun
<1>1. IInv => LiveCommandsHaveRun
  BY DEF IInv, SnapshotOK, Snapshot, LiveCommandsHaveRun
<1> QED BY <1>1, BrokerInvariant, PTL

LEMMA MethodKeepsFile ==
    ASSUME IntentStep \/ ProjectionStep \/ ApprovalStep \/ ControlStep
    PROVE  disk' = disk
<1>1. CASE IntentStep
  BY <1>1 DEF IntentStep, CreateRunIntent, ClaimRunIntent, Mutated
<1>2. CASE ProjectionStep
  <2>1. ASSUME NEW r, NEW status, NEW p, NEW session, NEW cursor, NEW error, NEW at,
               RegisterRunProjection(r, status, p, session, cursor, error, at)
        PROVE  disk' = disk
    BY <2>1 DEF RegisterRunProjection, Mutated
  <2>2. ASSUME NEW r, NEW session, NEW pagelets,
               \/ DeleteRunProjectionsForSession(session, pagelets)
               \/ DeleteRunProjection(r)
        PROVE  disk' = disk
    BY <2>2 DEF DeleteRunProjectionsForSession, DeleteRunProjection, Mutated
  <2> QED BY <1>2, <2>1, <2>2 DEF ProjectionStep
<1>3. CASE ApprovalStep
  BY <1>3 DEF ApprovalStep, RequestApproval, DecideApproval, Mutated
<1>4. CASE ControlStep
  BY <1>4 DEF ControlStep, RequestRunControlCommand, MarkRunControlCommandApplied,
              Mutated
<1> QED BY <1>1, <1>2, <1>3, <1>4

\* Every step keeps the file's outcomes, and memory's unless it forgets them.
LEMMA StepKeepsOutcomes == ASSUME IInv, [Next]_vars PROVE OutcomesKept
<1>1. Snapshot \in SnapshotType
  BY DEF IInv, SnapshotOK
<1>2. CASE IntentStep \/ ProjectionStep \/ ApprovalStep \/ ControlStep
  <2>1. Final(Snapshot, Snapshot', doomed \cap purged')
    BY <1>1, <1>2, MethodKeepsOutcomes
  <2>2. Final(Snapshot, Snapshot', doomed)
    BY <1>1, <2>1, FinalSame, FinalTransitive
  <2>3. disk' = disk
    BY <1>2, MethodKeepsFile
  <2> QED BY <2>2, <2>3, FinalSame DEF OutcomesKept
<1>3. CASE Save
  <2>1. Snapshot' = Snapshot /\ disk' = Snapshot
    BY <1>3 DEF Save, Snapshot, memory, projectionVars, approvalVars, controlVars
  <2> QED BY <2>1, FinalSame DEF OutcomesKept, IInv
<1>4. CASE SaveFails \/ UNCHANGED vars
  <2>1. Snapshot' = Snapshot /\ disk' = disk
    BY <1>4 DEF SaveFails, Snapshot, vars, memory, projectionVars, approvalVars,
                controlVars
  <2> QED BY <2>1, FinalSame DEF OutcomesKept
<1>5. CASE Restart
  <2>1. Snapshot' = disk /\ disk' = disk
    BY <1>5 DEF Restart, IInv, SnapshotOK, SnapshotType, Snapshot
  <2>2. CASE ~unsaved /\ failedWrites = 0
    BY <2>1, <2>2, FinalSame DEF OutcomesKept, IInv, AnsweredIsSaved
  <2>3. CASE unsaved \/ failedWrites > 0
    BY <1>5, <2>1, <2>3, FinalSame DEF OutcomesKept, Forgets
  <2> QED BY <2>2, <2>3 DEF IInv, WritesOK
<1> QED BY <1>2, <1>3, <1>4, <1>5 DEF Next

\* A claim, a decision and a command's verdict are final: in the file over any
\* crashes and failed writes, in memory until a restart that forgets them.
THEOREM BrokerOutcomesFinal == Spec => OutcomesFinal
<1>1. IInv /\ [Next]_vars => [OutcomesKept]_vars
  BY StepKeepsOutcomes
<1> QED BY <1>1, BrokerInvariant, PTL DEF Spec, OutcomesFinal

-----------------------------------------------------------------------------
(* How long the histories are and how those of projections end.            *)

LogBounded(log) ==
    /\ IsFiniteSet(log)
    /\ Cardinality(log) <= HistoryLimit

HistoryOf(history, p) ==
    /\ Len(history) <= HistoryLimit
    /\ IF p.status = "absent"
       THEN history = <<>>
       ELSE history # <<>> /\ history[Len(history)] = p

ProjectionsOK(s) ==
    \A r \in Runs : HistoryOf(s.projectionHistory[r], s.projections[r])

HistoriesOK(s) ==
    /\ LogBounded(s.approvalHistory)
    /\ LogBounded(s.runControlHistory)
    /\ ProjectionsOK(s)

HInv == HistoriesOK(Snapshot) /\ HistoriesOK(disk)

\* A nonempty set of naturals has a least element.
LEMMA LeastNatural ==
    ASSUME NEW T, T \subseteq Nat, T # {}
    PROVE  \E x \in T : \A y \in T : x <= y
<1> DEFINE R == OpToRel(<, Nat)
<1>1. IsWellFoundedOn(R, Nat)
  BY NatLessThanWellFounded
<1>2. \A x, y \in Nat : y < x => <<y, x>> \in R
  BY DEF OpToRel
<1> HIDE DEF R
<1>3. PICK x \in T : \A y \in T : <<y, x>> \notin R
  BY <1>1, WFMin
<1>4. ASSUME NEW y \in T
      PROVE  x <= y
  <2>1. x \in Nat /\ y \in Nat /\ ~(y < x)
    BY <1>2, <1>3
  <2> QED BY <2>1
<1> QED BY <1>4

\* The oldest of the events that a log is about to be cut to.
LEMMA Oldest ==
    ASSUME NEW all, all # {}, \A e \in all : e.cursor \in Nat
    PROVE  \E x \in all : \A y \in all : x.cursor <= y.cursor
<1>1. Cursors(all) \subseteq Nat /\ Cursors(all) # {}
  BY DEF Cursors
<1>2. PICK n \in Cursors(all) : \A m \in Cursors(all) : n <= m
  BY <1>1, LeastNatural
<1> QED BY <1>2 DEF Cursors

LEMMA PartBounded ==
    ASSUME NEW log, LogBounded(log), NEW part \in SUBSET log
    PROVE  LogBounded(part)
<1>1. /\ IsFiniteSet(part)
      /\ Cardinality(part) <= Cardinality(log)
      /\ Cardinality(part) \in Nat /\ Cardinality(log) \in Nat
  BY FS_Subset, FS_CardinalityType DEF LogBounded
<1> QED BY <1>1, BrokerAssumption DEF LogBounded

\* Recording an event that is newer than all others keeps to the limit.
LEMMA RecordedBounded ==
    ASSUME NEW log, LogBounded(log), NEW e, NEW counter \in Nat,
           Fits(log, counter), e.cursor = counter + 1
    PROVE  LogBounded(Recorded(log, e))
<1> DEFINE all == log \cup {e}
<1>1. /\ IsFiniteSet(all)
      /\ Cardinality(all) \in Nat
      /\ Cardinality(all) <= HistoryLimit + 1
  <2>1. /\ IsFiniteSet(log)
        /\ Cardinality(log) \in Nat
        /\ Cardinality(log) <= HistoryLimit
    BY FS_CardinalityType DEF LogBounded
  <2>2. /\ IsFiniteSet(all)
        /\ \/ Cardinality(all) = Cardinality(log)
           \/ Cardinality(all) = Cardinality(log) + 1
    BY <2>1, FS_AddElement
  <2> HIDE DEF all
  <2> QED BY <2>1, <2>2, BrokerAssumption
<1>3. CASE ~(Cardinality(all) > HistoryLimit)
  BY <1>1, <1>3, BrokerAssumption DEF LogBounded, Recorded
<1>4. CASE Cardinality(all) > HistoryLimit
  <2> DEFINE kept == {x \in all : \E y \in all : y.cursor < x.cursor}
  <2>1. \A y \in all : y.cursor \in Nat
    BY DEF Fits
  <2>2. PICK x \in all : \A y \in all : x.cursor <= y.cursor
    <3> HIDE DEF all
    <3>1. all # {}
      BY DEF all
    <3> QED BY <2>1, <3>1, Oldest
  <2>3. kept \in SUBSET (all \ {x})
    BY <2>1, <2>2
  <2>4. /\ IsFiniteSet(all \ {x})
        /\ Cardinality(all \ {x}) = Cardinality(all) - 1
    BY <1>1, <2>2, FS_RemoveElement
  <2>5. /\ IsFiniteSet(kept)
        /\ Cardinality(kept) <= Cardinality(all) - 1
        /\ Cardinality(kept) \in Nat
    BY <2>3, <2>4, FS_Subset, FS_CardinalityType
  <2>6. Cardinality(kept) <= HistoryLimit
    BY <1>1, <2>5, BrokerAssumption
  <2>7. kept = Recorded(log, e)
    BY <1>4 DEF Recorded
  <2> QED BY <2>5, <2>6, <2>7 DEF LogBounded
<1> QED BY <1>3, <1>4

\* A registered projection ends its run's history, which keeps to the limit and
\* has nothing else that is new.
LEMMA RegisteredHistory ==
    ASSUME NEW history \in Seq(Projection), NEW p \in Projection,
           Len(history) <= HistoryLimit, p.status # "absent",
           NEW longer, longer = RecordedProjection(history, p)
    PROVE  /\ longer \in Seq(Projection)
           /\ HistoryOf(longer, p)
           /\ \A i \in DOMAIN longer :
                 longer[i] = p \/ \E j \in DOMAIN history : longer[i] = history[j]
<1> DEFINE all == Append(history, p)
<1>1. /\ all \in Seq(Projection)
      /\ Len(all) = Len(history) + 1
      /\ Len(history) \in Nat
      /\ \A i \in 1..Len(history) : all[i] = history[i]
      /\ all[Len(all)] = p
  OBVIOUS
<1>2. CASE ~(Len(all) > HistoryLimit)
  <2>1. longer = all
    BY <1>2 DEF RecordedProjection
  <2>2. Len(longer) <= HistoryLimit
    BY <1>1, <1>2, <2>1, BrokerAssumption
  <2>3. longer # <<>>
    BY <1>1, <2>1
  <2>4. \A i \in DOMAIN longer :
           longer[i] = p \/ \E j \in DOMAIN history : longer[i] = history[j]
    <3>1. DOMAIN all = 1..(Len(history) + 1) /\ DOMAIN history = 1..Len(history)
      BY <1>1
    <3>2. \A i \in DOMAIN all : i = Len(all) \/ i \in DOMAIN history
      BY <3>1, <1>1
    <3> QED BY <2>1, <1>1, <3>1, <3>2
  <2> QED BY <1>1, <2>1, <2>2, <2>3, <2>4 DEF HistoryOf
<1>3. CASE Len(all) > HistoryLimit
  <2>1. Len(all) = HistoryLimit + 1
    BY <1>1, <1>3, BrokerAssumption
  <2>2. longer = SubSeq(all, 2, Len(all))
    <3>1. Len(all) - HistoryLimit + 1 = 2
      BY <2>1, BrokerAssumption
    <3> QED BY <1>3, <3>1 DEF RecordedProjection
  <2> HIDE DEF all
  <2>3. /\ longer \in Seq(Projection)
        /\ Len(longer) = HistoryLimit
        /\ \A i \in 1..HistoryLimit : longer[i] = all[i + 1]
    BY <1>1, <2>1, <2>2, BrokerAssumption, SubSeqProperties
  <2>4. longer # <<>> /\ longer[Len(longer)] = p
    BY <1>1, <2>1, <2>3, BrokerAssumption
  <2>5. ASSUME NEW i \in DOMAIN longer
        PROVE  longer[i] = p \/ \E j \in DOMAIN history : longer[i] = history[j]
    <3>1. i \in 1..HistoryLimit /\ longer[i] = all[i + 1]
      BY <2>3
    <3>3. CASE i = HistoryLimit
      BY <3>1, <3>3, <1>1, <2>1
    <3>4. CASE i # HistoryLimit
      <4>1. i + 1 \in 1..Len(history)
        BY <3>1, <3>4, <1>1, <2>1, BrokerAssumption
      <4>2. all[i + 1] = history[i + 1] /\ i + 1 \in DOMAIN history
        BY <4>1, <1>1
      <4> QED BY <3>1, <4>2
    <3> QED BY <3>3, <3>4
  <2> QED BY <2>3, <2>4, <2>5, BrokerAssumption DEF HistoryOf
<1> QED BY <1>2, <1>3

\* Where the changes of a history are after a registration: all at the place they
\* were, or each one place earlier and the first gone.
LEMMA RegisteredPlaces ==
    ASSUME NEW history \in Seq(Projection), NEW p \in Projection,
           Len(history) <= HistoryLimit,
           NEW longer, longer = RecordedProjection(history, p)
    PROVE  \E gone \in {0, 1} :
              /\ Len(longer) = Len(history) + 1 - gone
              /\ longer[Len(longer)] = p
              /\ \A i \in DOMAIN longer : i # Len(longer) =>
                    i + gone \in DOMAIN history /\ longer[i] = history[i + gone]
<1> DEFINE all == Append(history, p)
<1>1. /\ all \in Seq(Projection)
      /\ Len(all) = Len(history) + 1
      /\ Len(history) \in Nat
      /\ DOMAIN history = 1..Len(history)
      /\ DOMAIN all = 1..(Len(history) + 1)
      /\ \A i \in 1..Len(history) : all[i] = history[i]
      /\ all[Len(all)] = p
  OBVIOUS
<1>2. CASE ~(Len(all) > HistoryLimit)
  <2>1. longer = all
    BY <1>2 DEF RecordedProjection
  <2> HIDE DEF all
  <2>2. \A i \in DOMAIN longer : i # Len(longer) =>
           i + 0 \in DOMAIN history /\ longer[i] = history[i + 0]
    BY <2>1, <1>1
  <2> QED BY <2>1, <2>2, <1>1
<1>3. CASE Len(all) > HistoryLimit
  <2>1. Len(all) = HistoryLimit + 1
    BY <1>1, <1>3, BrokerAssumption
  <2>2. longer = SubSeq(all, 2, Len(all))
    <3>1. Len(all) - HistoryLimit + 1 = 2
      BY <2>1, BrokerAssumption
    <3> QED BY <1>3, <3>1 DEF RecordedProjection
  <2> HIDE DEF all
  <2>3. /\ longer \in Seq(Projection)
        /\ Len(longer) = HistoryLimit
        /\ DOMAIN longer = 1..HistoryLimit
        /\ \A i \in 1..HistoryLimit : longer[i] = all[i + 1]
    BY <1>1, <2>1, <2>2, BrokerAssumption, SubSeqProperties
  <2>4. ASSUME NEW i \in DOMAIN longer, i # Len(longer)
        PROVE  i + 1 \in DOMAIN history /\ longer[i] = history[i + 1]
    <3>1. i \in 1..HistoryLimit /\ i + 1 \in 1..Len(history)
      BY <2>3, <2>4, <1>1, <2>1, BrokerAssumption
    <3> QED BY <3>1, <2>3, <1>1
  <2>5. Len(longer) = Len(history) + 1 - 1 /\ longer[Len(longer)] = p
    <3>0. /\ Len(all) = Len(history) + 1 /\ Len(history) \in Nat
          /\ Len(all) = HistoryLimit + 1
          /\ HistoryLimit \in Nat \ {0}
      BY <2>1, <1>1, BrokerAssumption
    <3>1. HistoryLimit = Len(history) /\ HistoryLimit \in 1..HistoryLimit
      BY <3>0
    <3>2. longer[HistoryLimit] = all[HistoryLimit + 1]
      BY <2>3, <3>1
    <3> QED BY <2>1, <2>3, <3>1, <3>2, <1>1, BrokerAssumption
  <2> QED BY <2>4, <2>5
<1> QED BY <1>2, <1>3

\* One registration keeps all histories of projections.
LEMMA RegisterKeepsHistories ==
    ASSUME Snapshot \in SnapshotType, ProjectionsOK(Snapshot),
           NEW r \in Runs, NEW p \in Projection, p.status # "absent",
           projections' = [projections EXCEPT ![r] = p],
           projectionHistory' = [projectionHistory EXCEPT
                                    ![r] = RecordedProjection(@, p)]
    PROVE  ProjectionsOK(Snapshot')
<1>1. /\ projections \in [Runs -> Projection]
      /\ projectionHistory \in [Runs -> Seq(Projection)]
  BY DEF SnapshotType, Snapshot
<1>2. HistoryOf(projectionHistory'[r], projections'[r])
  <2>1. Len(projectionHistory[r]) <= HistoryLimit
    BY DEF ProjectionsOK, Snapshot, HistoryOf
  <2>2. /\ projectionHistory'[r] = RecordedProjection(projectionHistory[r], p)
        /\ projections'[r] = p
    BY <1>1
  <2> QED BY <1>1, <2>1, <2>2, RegisteredHistory
<1>3. ASSUME NEW s \in Runs, s # r
      PROVE  HistoryOf(projectionHistory'[s], projections'[s])
  <2>1. /\ projectionHistory'[s] = projectionHistory[s]
        /\ projections'[s] = projections[s]
    BY <1>1, <1>3
  <2> QED BY <2>1 DEF ProjectionsOK, Snapshot
<1> QED BY <1>2, <1>3 DEF ProjectionsOK, Snapshot

LEMMA RegisterHInv ==
    ASSUME IInv, HInv, NEW r \in Runs, NEW status \in ProjectionStatus,
           NEW p \in Pagelets, NEW session \in Sessions \cup {None},
           NEW cursor \in Nat \cup {None}, NEW error \in BOOLEAN, NEW at \in Nat,
           RegisterRunProjection(r, status, p, session, cursor, error, at)
    PROVE  HInv'
<1> DEFINE next == projections'[r]
<1>1. Snapshot \in SnapshotType
  BY DEF IInv, SnapshotOK
<1>2. /\ projections' = [projections EXCEPT ![r] = next]
      /\ projectionHistory' = [projectionHistory EXCEPT
                                  ![r] = RecordedProjection(@, next)]
      /\ next.status = status
      /\ UNCHANGED <<approvalVars, controlVars, disk>>
  BY <1>1 DEF RegisterRunProjection, Mutated, SnapshotType, Snapshot
<1>3. next \in Projection
  <2>1. IInv'
    BY RegisterIInv
  <2> QED BY <2>1 DEF IInv, SnapshotOK, SnapshotType, Snapshot
<1>4. status # "absent"
  BY DEF ProjectionStatus
<1>5. ProjectionsOK(Snapshot')
  <2> HIDE DEF next
  <2> QED BY <1>1, <1>2, <1>3, <1>4, RegisterKeepsHistories DEF HInv, HistoriesOK
<1> QED BY <1>2, <1>5 DEF HInv, HistoriesOK, Snapshot, approvalVars, controlVars

LEMMA InitHInv == Init => HInv
<1> SUFFICES ASSUME Init PROVE HInv
  OBVIOUS
<1>1. LogBounded({})
  BY FS_EmptySet, BrokerAssumption DEF LogBounded
<1>2. ProjectionsOK(Snapshot)
  <2>1. Len(<<>>) = 0
    OBVIOUS
  <2> QED BY <2>1, BrokerAssumption
          DEF Init, ProjectionsOK, HistoryOf, Snapshot, NoProjection
<1> QED BY <1>1, <1>2 DEF Init, HInv, HistoriesOK, Snapshot

LEMMA NextHInv == IInv /\ HInv /\ [Next]_vars => HInv'
<1> SUFFICES ASSUME IInv, HInv, [Next]_vars PROVE HInv'
  OBVIOUS
<1>0. /\ Snapshot \in SnapshotType
      /\ Fits(approvalHistory, approvalChangeCursor)
      /\ Fits(runControlHistory, runControlChangeCursor)
  BY DEF IInv, SnapshotOK, SnapshotType, Snapshot, CountersOK, Counted, Fits,
         ApprovalEvent, CommandEvent
<1>1. CASE IntentStep
  <2>1. UNCHANGED <<projectionVars, approvalVars, controlVars, disk>>
    BY <1>1 DEF IntentStep, CreateRunIntent, ClaimRunIntent, Mutated
  <2> QED BY <2>1 DEF HInv, HistoriesOK, ProjectionsOK, Snapshot, projectionVars,
                      approvalVars, controlVars
<1>2. CASE ProjectionStep
  <2>1. ASSUME NEW session, NEW pagelets,
               DeleteRunProjectionsForSession(session, pagelets)
        PROVE  HInv'
    BY <2>1 DEF DeleteRunProjectionsForSession, HInv, Snapshot, memory,
                projectionVars, approvalVars, controlVars
  <2>2. ASSUME NEW r \in Runs, DeleteRunProjection(r)
        PROVE  HInv'
    <3>1. /\ approvalHistory' \in SUBSET approvalHistory
          /\ runControlHistory' \in SUBSET runControlHistory
          /\ UNCHANGED disk
      BY <2>2 DEF DeleteRunProjection, Without, Mutated
    <3>2. LogBounded(approvalHistory') /\ LogBounded(runControlHistory')
      BY <3>1, PartBounded DEF HInv, HistoriesOK, Snapshot
    <3>3. ASSUME NEW s \in Runs
          PROVE  HistoryOf(projectionHistory'[s], projections'[s])
      <4>1. /\ projectionHistory'[s] =
                 IF s = r THEN <<>> ELSE projectionHistory[s]
            /\ projections'[s] = IF s = r THEN NoProjection ELSE projections[s]
        BY <1>0, <2>2 DEF DeleteRunProjection, SnapshotType, Snapshot
      <4>2. Len(<<>>) <= HistoryLimit
        BY BrokerAssumption
      <4> QED BY <4>1, <4>2
              DEF HInv, HistoriesOK, ProjectionsOK, Snapshot, HistoryOf, NoProjection
    <3> QED BY <3>1, <3>2, <3>3 DEF HInv, HistoriesOK, ProjectionsOK, Snapshot
  <2>3. ASSUME NEW r \in Runs, NEW status \in Statuses, NEW p \in Pagelets,
               NEW session \in Sessions \cup {None},
               NEW cursor \in (0..MaxRunCursor) \cup {None},
               NEW error \in {FALSE, status = "failed"}, NEW at \in 0..MaxTime,
               RegisterRunProjection(r, status, p, session, cursor, error, at)
        PROVE  HInv'
    <3>1. error \in BOOLEAN
      OBVIOUS
    <3>3. at \in Nat
      OBVIOUS
    <3>2. status \in ProjectionStatus /\ cursor \in Nat \cup {None}
      BY BrokerAssumption
    <3> QED BY <2>3, <3>1, <3>2, <3>3, RegisterHInv
  <2> QED BY <1>2, <2>1, <2>2, <2>3 DEF ProjectionStep
<1>3. CASE ApprovalStep
  <2>0. PICK a \in ApprovalIds :
           \E rec : /\ EmitApprovalChanged(a, rec)
                       /\ UNCHANGED <<projectionVars, controlVars, disk>>
    BY <1>3 DEF ApprovalStep, RequestApproval, DecideApproval, Mutated
  <2>1. PICK rec : /\ EmitApprovalChanged(a, rec)
                      /\ UNCHANGED <<projectionVars, controlVars, disk>>
    BY <2>0
  <2>2. LogBounded(approvalHistory')
    <3> DEFINE e == Change(a, rec, approvalHistory, approvalChangeCursor)
    <3>1. e.cursor = approvalChangeCursor + 1 /\ approvalChangeCursor \in Nat
      BY <1>0 DEF Change, Fits
    <3>2. approvalHistory' = Recorded(approvalHistory, e)
      BY <2>1 DEF EmitApprovalChanged
    <3> HIDE DEF e
    <3> QED BY <1>0, <3>1, <3>2, RecordedBounded DEF HInv, HistoriesOK, Snapshot
  <2> QED BY <2>1, <2>2 DEF HInv, HistoriesOK, ProjectionsOK, Snapshot,
                            projectionVars, controlVars
<1>4. CASE ControlStep
  <2>0. PICK c \in CommandIds :
           \E rec : /\ EmitRunControlChanged(c, rec)
                       /\ UNCHANGED <<projectionVars, approvalVars, disk>>
    BY <1>4 DEF ControlStep, RequestRunControlCommand, MarkRunControlCommandApplied,
                Mutated
  <2>1. PICK rec : /\ EmitRunControlChanged(c, rec)
                      /\ UNCHANGED <<projectionVars, approvalVars, disk>>
    BY <2>0
  <2>2. LogBounded(runControlHistory')
    <3> DEFINE e == Change(c, rec, runControlHistory, runControlChangeCursor)
    <3>1. e.cursor = runControlChangeCursor + 1 /\ runControlChangeCursor \in Nat
      BY <1>0 DEF Change, Fits
    <3>2. runControlHistory' = Recorded(runControlHistory, e)
      BY <2>1 DEF EmitRunControlChanged
    <3> HIDE DEF e
    <3> QED BY <1>0, <3>1, <3>2, RecordedBounded DEF HInv, HistoriesOK, Snapshot
  <2> QED BY <2>1, <2>2 DEF HInv, HistoriesOK, ProjectionsOK, Snapshot,
                            projectionVars, approvalVars
<1>5. CASE Save \/ SaveFails \/ UNCHANGED vars
  BY <1>5 DEF Save, SaveFails, HInv, Snapshot, vars, memory, projectionVars, approvalVars,
              controlVars
<1>6. CASE Restart
  <2>1. Snapshot' = disk /\ disk' = disk
    BY <1>6 DEF Restart, IInv, SnapshotOK, SnapshotType, Snapshot
  <2> QED BY <2>1 DEF HInv
<1> QED BY <1>1, <1>2, <1>3, <1>4, <1>5, <1>6 DEF Next

LEMMA HistoriesInvariant == Spec => []HInv
BY InitHInv, NextHInv, BrokerInvariant, PTL DEF Spec

\* Trimming keeps every history within the limit, for any limit and any
\* deletions and restarts between the changes.
THEOREM BrokerHistoriesBounded == Spec => []HistoriesBounded
<1>1. HInv => HistoriesBounded
  BY DEF HInv, HistoriesOK, LogBounded, ProjectionsOK, HistoryOf, Snapshot,
         HistoriesBounded
<1> QED BY <1>1, HistoriesInvariant, PTL

\* A run's projection history ends with its projection and is gone with it.
THEOREM BrokerProjectionHistoryCurrent == Spec => []ProjectionHistoryCurrent
<1>1. HInv => ProjectionHistoryCurrent
  BY DEF HInv, HistoriesOK, ProjectionsOK, HistoryOf, Snapshot,
         ProjectionHistoryCurrent
<1> QED BY <1>1, HistoriesInvariant, PTL

------------------------------------------------------------------------------
(***************************************************************************)
(* The gateway, for any clients, any restarts and any limits.  What a      *)
(* subscriber is owed is what the broker's history holds, so how histories *)
(* grow, are cut and end, which the lemmas above say, is what is needed of *)
(* the broker.  That a full replay is ReplayLimit different events needs   *)
(* more: the pagelet's record is ahead of every change it has published    *)
(* (RecordAhead), so no two changes of a history are the same event.       *)
(***************************************************************************)

\* every change a history holds is of a projection that was there
ChangesPresent(s) ==
    \A i \in DOMAIN s.projectionHistory[Run] :
        s.projectionHistory[Run][i].status # "absent"

BrokerInv ==
    /\ IInv
    /\ HInv
    /\ ChangesPresent(Snapshot)
    /\ ChangesPresent(disk)

\* what a history can hold, given what the pagelet has published
RecordAhead(history) ==
    /\ record.status = "absent" => history = <<>>
    /\ \A i \in DOMAIN history : history[i].cursor <= record.cursor
    /\ record.status = "running" =>
          \A i \in DOMAIN history : history[i].status # "recovered"
    /\ \A i, j \in DOMAIN history : Event(history[i]) = Event(history[j]) => i = j

RecordInv ==
    /\ RecordAhead(projectionHistory[Run])
    /\ RecordAhead(disk.projectionHistory[Run])

SeenFinite == \A c \in Clients : IsFiniteSet(seen[c])

GatewayInv ==
    /\ BrokerInv
    /\ GatewayTypeOK
    /\ RecordInv
    /\ SeenFinite

\* the replay of changes is through, and the listener still there
Replayed(c) == phase[c] \in {"empty", "on"} /\ listening[c]

\* NothingMissed from the replay on, also for what is fetched afterwards
HistorySeen ==
    \A c \in Clients : Replayed(c) =>
        \A i \in Selected(projectionHistory[Run], after[c]) :
            \/ Event(projectionHistory[Run][i]) \in seen[c]
            \/ CutBefore(c, projectionHistory[Run][i])

\* FreshSeesPresent from the replay on
FreshCurrent ==
    \A c \in Clients :
        Replayed(c) /\ after[c] = None /\ projections[Run].status # "absent"
            => \/ view[c] = Event(projections[Run])
               \/ Len(projectionHistory[Run]) > ReplayLimit
               \/ \E i \in DOMAIN projectionHistory[Run] :
                     Later(projectionHistory[Run][i], projections[Run])

-----------------------------------------------------------------------------
(* The broker under the gateway.                                           *)

LEMMA BrokerTyped ==
    ASSUME BrokerInv
    PROVE  /\ projections \in [Runs -> Projection]
           /\ projectionHistory \in [Runs -> Seq(Projection)]
           /\ projectionHistory[Run] \in Seq(Projection)
           /\ HistoryOf(projectionHistory[Run], projections[Run])
           /\ \A i \in DOMAIN projectionHistory[Run] :
                 projectionHistory[Run][i].status # "absent"
<1>1. Run \in Runs
  BY GatewayAssumption
<1>2. /\ projections \in [Runs -> Projection]
      /\ projectionHistory \in [Runs -> Seq(Projection)]
  BY DEF BrokerInv, IInv, SnapshotOK, SnapshotType, Snapshot
<1>3. HistoryOf(projectionHistory[Run], projections[Run])
  BY <1>1 DEF BrokerInv, HInv, HistoriesOK, ProjectionsOK, Snapshot
<1>4. \A i \in DOMAIN projectionHistory[Run] :
         projectionHistory[Run][i].status # "absent"
  BY DEF BrokerInv, ChangesPresent, Snapshot
<1> QED BY <1>1, <1>2, <1>3, <1>4

\* A change becomes an event a client can receive.
LEMMA EventTyped ==
    ASSUME NEW p \in Projection, p.status # "absent"
    PROVE  Event(p) \in EventType
BY DEF Event, EventType, Projection

\* The three publications are one operation with different arguments, which name
\* an event that was not published before.
FreshEvent(status, cursor) ==
    \/ record.status = "absent"
    \/ /\ record.status = "running"
       /\ \/ cursor > record.cursor
          \/ cursor = record.cursor /\ status = "recovered"

PublishStep ==
    \/ PublishRecord
    \/ \E at \in 0..MaxTime :
          \/ \E status \in Statuses : PublishFlushed(status, at)
          \/ PublishRecovered(at)

LEMMA Published ==
    ASSUME GatewayTypeOK, PublishStep
    PROVE  \E status \in ProjectionStatus, cursor \in Nat, at \in Nat :
              Publish(status, cursor, at) /\ FreshEvent(status, cursor)
<1>1. record.status # "absent" => record.cursor \in Nat
  BY DEF GatewayTypeOK, EventType, Event, NoProjection
<1>2. CASE PublishRecord
  BY <1>2 DEF PublishRecord, ProjectionStatus, FreshEvent
<1>3. ASSUME NEW status \in Statuses, NEW at \in 0..MaxTime,
             PublishFlushed(status, at)
      PROVE  /\ Publish(status, record.cursor + 1, at)
             /\ FreshEvent(status, record.cursor + 1)
             /\ status \in ProjectionStatus /\ record.cursor + 1 \in Nat /\ at \in Nat
  BY <1>1, <1>3, BrokerAssumption DEF PublishFlushed, FreshEvent
<1>4. ASSUME NEW at \in 0..MaxTime, PublishRecovered(at)
      PROVE  /\ Publish("recovered", record.cursor, at)
             /\ FreshEvent("recovered", record.cursor)
             /\ "recovered" \in ProjectionStatus
             /\ record.cursor \in Nat /\ at \in Nat
  BY <1>1, <1>4 DEF PublishRecovered, FreshEvent, ProjectionStatus
<1> QED BY <1>2, <1>3, <1>4 DEF PublishStep

\* What publishing does to the broker: one change is added, which is the run's
\* projection and the event sent.
LEMMA PublishBroker ==
    ASSUME BrokerInv, NEW status \in ProjectionStatus, NEW cursor \in Nat,
           NEW at \in Nat, Publish(status, cursor, at)
    PROVE  /\ BrokerInv'
           /\ Event(projections'[Run])
                = [status |-> status, cursor |-> cursor, updatedAt |-> at]
           /\ projections'[Run] \in Projection
           /\ disk' = disk
           /\ projectionHistory'[Run]
                = RecordedProjection(projectionHistory[Run], projections'[Run])
           /\ \A i \in DOMAIN projectionHistory'[Run] :
                 \/ projectionHistory'[Run][i] = projections'[Run]
                 \/ \E j \in DOMAIN projectionHistory[Run] :
                       projectionHistory'[Run][i] = projectionHistory[Run][j]
<1> DEFINE next == projections'[Run]
<1>0. Run \in Runs /\ Pagelet \in Pagelets /\ cursor # None
  BY GatewayAssumption, BrokerAssumption
<1>1. RegisterRunProjection(Run, status, Pagelet, None, cursor, FALSE, at)
  BY DEF Publish
<1>2. IInv' /\ HInv'
  <2>1. /\ None \in Sessions \cup {None}
        /\ cursor \in Nat \cup {None}
        /\ FALSE \in BOOLEAN
    OBVIOUS
  <2> QED BY <1>0, <1>1, <2>1, RegisterIInv, RegisterHInv DEF BrokerInv
<1>3. /\ projectionHistory'[Run] = RecordedProjection(projectionHistory[Run], next)
      /\ next.status = status
      /\ next.cursor = cursor
      /\ next.updatedAt = at
      /\ disk' = disk
  BY <1>0, <1>1, BrokerTyped
     DEF RegisterRunProjection, NextRunCursor, Mutated
<1>4. next \in Projection /\ next.status # "absent"
  <2>1. next \in Projection
    BY <1>0, <1>2 DEF IInv, SnapshotOK, SnapshotType, Snapshot
  <2> QED BY <1>3, <2>1 DEF ProjectionStatus
<1>5. \A i \in DOMAIN projectionHistory'[Run] :
         \/ projectionHistory'[Run][i] = next
         \/ \E j \in DOMAIN projectionHistory[Run] :
               projectionHistory'[Run][i] = projectionHistory[Run][j]
  <2> HIDE DEF next
  <2>1. Len(projectionHistory[Run]) <= HistoryLimit
    BY BrokerTyped DEF HistoryOf
  <2> QED BY <1>3, <1>4, <2>1, BrokerTyped, RegisteredHistory
<1>6. ChangesPresent(Snapshot)'
  BY <1>4, <1>5, BrokerTyped DEF ChangesPresent, Snapshot
<1>7. ChangesPresent(disk)'
  BY <1>3 DEF BrokerInv, ChangesPresent
<1> QED BY <1>2, <1>3, <1>4, <1>5, <1>6, <1>7 DEF BrokerInv, Event

\* The other steps of the composition are steps of the broker, or leave it alone.
LEMMA QuietBroker ==
    ASSUME BrokerInv, Save \/ SaveFails \/ Restart \/ UNCHANGED vars
    PROVE  BrokerInv'
<1>1. [Next]_vars
  BY DEF Next
<1>2. IInv' /\ HInv'
  BY <1>1, NextIInv, NextHInv DEF BrokerInv
<1>3. ChangesPresent(Snapshot)' /\ ChangesPresent(disk)'
  <2>1. CASE Save \/ SaveFails \/ UNCHANGED vars
    BY <2>1 DEF BrokerInv, ChangesPresent, Snapshot, Save, SaveFails, vars, memory,
                projectionVars
  <2>2. CASE Restart
    BY <2>2 DEF BrokerInv, ChangesPresent, Snapshot, Restart
  <2> QED BY <2>1, <2>2
<1> QED BY <1>2, <1>3 DEF BrokerInv

ClientStep(c) ==
    Attach(c) \/ Replay(c) \/ ReplayProjection(c) \/ ReplayFails(c) \/ Detach(c)

\* The client's part of the composition leaves the broker and the pagelet alone.
LEMMA ClientStepQuiet ==
    ASSUME NEW c \in Clients, ClientStep(c)
    PROVE  UNCHANGED <<vars, record>>
BY DEF ClientStep, Attach, Replay, ReplayProjection, ReplayFails, Detach

LEMMA BrokerInvStep ==
    ASSUME BrokerInv, GatewayTypeOK, [GatewayNext]_gatewayVars
    PROVE  BrokerInv'
<1>1. CASE PublishStep
  BY <1>1, Published, PublishBroker
<1>2. CASE SaveStep \/ RestartShared
  BY <1>2, QuietBroker DEF SaveStep, RestartShared
<1>3. CASE (\E c \in Clients : ClientStep(c)) \/ UNCHANGED gatewayVars
  BY <1>3, QuietBroker, ClientStepQuiet DEF gatewayVars
<1> QED BY <1>1, <1>2, <1>3 DEF GatewayNext, PublishStep, ClientStep

\* An event that is fresh to the record is fresh to every history the record is
\* ahead of, which keeps it ahead of the history with the event added.
LEMMA RecordStep ==
    ASSUME BrokerInv, GatewayTypeOK, RecordInv, [GatewayNext]_gatewayVars
    PROVE  RecordInv'
<1>1. CASE PublishStep
  <2>1. PICK status \in ProjectionStatus, cursor \in Nat, at \in Nat :
           Publish(status, cursor, at) /\ FreshEvent(status, cursor)
    BY <1>1, Published
  <2> DEFINE history == projectionHistory[Run]
             longer == projectionHistory'[Run]
             next == projections'[Run]
  <2>2. /\ record' = [status |-> status, cursor |-> cursor, updatedAt |-> at]
        /\ Event(next) = record'
        /\ next \in Projection
        /\ longer = RecordedProjection(history, next)
        /\ disk' = disk
    BY <2>1, PublishBroker DEF Publish
  <2>3. /\ record'.status # "absent" /\ record'.status = status
        /\ record'.cursor = cursor
        /\ next.status = status /\ next.cursor = cursor
    BY <2>2 DEF Event, ProjectionStatus
  <2>4. record.cursor \in Nat
    BY DEF GatewayTypeOK, EventType, Event, NoProjection
  <2>5. ASSUME NEW h, RecordAhead(h), \A i \in DOMAIN h : h[i].cursor \in Nat
        PROVE  /\ \A i \in DOMAIN h : h[i].cursor <= cursor
               /\ status = "running" => \A i \in DOMAIN h : h[i].status # "recovered"
               /\ \A i \in DOMAIN h : Event(h[i]) # record'
    <3>1. CASE record.status = "absent"
      <4>1. DOMAIN h = {}
        BY <2>5, <3>1 DEF RecordAhead
      <4> QED BY <4>1
    <3>2. CASE /\ record.status = "running"
               /\ cursor > record.cursor
      BY <2>2, <2>4, <2>5, <3>2 DEF RecordAhead, Event
    <3>3. CASE /\ record.status = "running"
               /\ cursor = record.cursor /\ status = "recovered"
      BY <2>2, <2>4, <2>5, <3>3 DEF RecordAhead, Event
    <3> QED BY <2>1, <3>1, <3>2, <3>3 DEF FreshEvent
  <2>6. RecordAhead(disk.projectionHistory[Run])'
    <3>1. \A i \in DOMAIN disk.projectionHistory[Run] :
             disk.projectionHistory[Run][i].cursor \in Nat
      <4>1. disk.projectionHistory[Run] \in Seq(Projection)
        BY GatewayAssumption DEF BrokerInv, IInv, SnapshotOK, SnapshotType
      <4>2. \A i \in DOMAIN disk.projectionHistory[Run] :
               disk.projectionHistory[Run][i] \in Projection
        BY <4>1
      <4> QED BY <4>2 DEF Projection
    <3> QED BY <2>2, <2>3, <2>5, <3>1 DEF RecordInv, RecordAhead
  <2>7. RecordAhead(projectionHistory[Run])'
    <3>0. history \in Seq(Projection) /\ Len(history) <= HistoryLimit
      BY BrokerTyped DEF HistoryOf
    <3>1. \A i \in DOMAIN history : history[i].cursor \in Nat
      <4>1. \A i \in DOMAIN history : history[i] \in Projection
        BY <3>0
      <4> QED BY <4>1 DEF Projection
    <3>2. /\ \A i \in DOMAIN history : history[i].cursor <= cursor
          /\ status = "running" =>
                \A i \in DOMAIN history : history[i].status # "recovered"
          /\ \A i \in DOMAIN history : Event(history[i]) # record'
      BY <2>5, <3>1 DEF RecordInv
    <3>3. \A i, j \in DOMAIN history :
             Event(history[i]) = Event(history[j]) => i = j
      BY DEF RecordInv, RecordAhead
    <3>4. longer \in Seq(Projection)
      <4>1. BrokerInv'
        BY <2>1, PublishBroker
      <4> QED BY <4>1, GatewayAssumption
              DEF BrokerInv, IInv, SnapshotOK, SnapshotType, Snapshot
    <3> HIDE DEF longer, history, next
    <3>5. PICK gone \in {0, 1} :
             /\ Len(longer) = Len(history) + 1 - gone
             /\ longer[Len(longer)] = next
             /\ \A i \in DOMAIN longer : i # Len(longer) =>
                   i + gone \in DOMAIN history /\ longer[i] = history[i + gone]
      BY <2>2, <3>0, RegisteredPlaces
    <3>6. ASSUME NEW i \in DOMAIN longer
          PROVE  /\ longer[i].cursor <= cursor
                 /\ status = "running" => longer[i].status # "recovered"
                 /\ i # Len(longer) => Event(longer[i]) # record'
                 /\ i = Len(longer) => Event(longer[i]) = record'
      BY <2>2, <2>3, <3>2, <3>5
    <3>7. ASSUME NEW i \in DOMAIN longer, NEW j \in DOMAIN longer,
                 Event(longer[i]) = Event(longer[j])
          PROVE  i = j
      <4>1. CASE i = Len(longer) \/ j = Len(longer)
        BY <4>1, <3>6, <3>7
      <4>2. CASE i # Len(longer) /\ j # Len(longer)
        <5>1. i + gone = j + gone
          BY <4>2, <3>3, <3>5, <3>7
        <5>2. i \in Nat /\ j \in Nat /\ gone \in Nat
          BY <3>4, <3>5
        <5> QED BY <5>1, <5>2
      <4> QED BY <4>1, <4>2
    <3> QED BY <2>3, <3>6, <3>7 DEF RecordAhead, longer
  <2> QED BY <2>6, <2>7 DEF RecordInv
<1>2. CASE SaveStep
  BY <1>2 DEF RecordInv, RecordAhead, SaveStep, Save, SaveFails, Snapshot, memory,
              projectionVars
<1>3. CASE RestartShared
  BY <1>3 DEF RecordInv, RecordAhead, RestartShared, Restart
<1>4. CASE (\E c \in Clients : ClientStep(c)) \/ UNCHANGED gatewayVars
  BY <1>4, ClientStepQuiet
     DEF RecordInv, RecordAhead, gatewayVars, vars, memory, projectionVars
<1> QED BY <1>1, <1>2, <1>3, <1>4 DEF GatewayNext, PublishStep, ClientStep

-----------------------------------------------------------------------------
(* Replays.                                                                *)

\* What is replayed are changes of the history.
LEMMA ReplayedEvents ==
    ASSUME BrokerInv, NEW cursor,
           NEW first \in ListRunProjectionChanges(projectionHistory[Run], cursor)
    PROVE  /\ first \subseteq Selected(projectionHistory[Run], cursor)
           /\ first \subseteq 1..Len(projectionHistory[Run])
           /\ \A i \in first : Event(projectionHistory[Run][i]) \in EventType
<1>1. /\ DOMAIN projectionHistory[Run] = 1..Len(projectionHistory[Run])
      /\ \A i \in DOMAIN projectionHistory[Run] :
            Event(projectionHistory[Run][i]) \in EventType
  BY BrokerTyped, EventTyped
<1> QED BY <1>1 DEF ListRunProjectionChanges, Selected

\* A replay that leaves out a change asked for is as long as it may be.
LEMMA CutReplayFull ==
    ASSUME BrokerInv, NEW cursor,
           NEW first \in ListRunProjectionChanges(projectionHistory[Run], cursor),
           first # Selected(projectionHistory[Run], cursor)
    PROVE  Cardinality(first) = ReplayLimit
<1> DEFINE later == Selected(projectionHistory[Run], cursor)
<1>1. IsFiniteSet(later)
  <2>1. IsFiniteSet(1..Len(projectionHistory[Run]))
    BY BrokerTyped, FS_Interval
  <2>2. later \in SUBSET (1..Len(projectionHistory[Run]))
    BY BrokerTyped DEF Selected
  <2> HIDE DEF later
  <2> QED BY <2>1, <2>2, FS_Subset
<1>2. /\ first \in SUBSET later
      /\ Cardinality(first) = IF Cardinality(later) > ReplayLimit
                              THEN ReplayLimit ELSE Cardinality(later)
  BY DEF ListRunProjectionChanges
<1> HIDE DEF later
<1>3. Cardinality(first) # Cardinality(later)
  BY <1>1, <1>2, FS_Subset DEF later
<1> QED BY <1>2, <1>3

\* What receiving changes of a history does to what clients have.
LEMMA ReceiveTyped ==
    ASSUME GatewayTypeOK, SeenFinite, NEW c \in Clients, NEW history, NEW places,
           NEW n \in Nat, places \subseteq 1..n,
           \A i \in places : Event(history[i]) \in EventType,
           Receive(c, history, places)
    PROVE  /\ seen' \in [Clients -> SUBSET EventType]
           /\ view' \in [Clients -> EventType \cup {None}]
           /\ SeenFinite'
           /\ \A d \in Clients : seen[d] \subseteq seen'[d]
           /\ \A i \in places : Event(history[i]) \in seen'[c]
           /\ \A d \in Clients \ {c} : seen'[d] = seen[d] /\ view'[d] = view[d]
<1> DEFINE events == {Event(history[i]) : i \in places}
<1>1. events \subseteq EventType
  OBVIOUS
<1>2. IsFiniteSet(events)
  <2> DEFINE f == [i \in places |-> Event(history[i])]
  <2>1. IsFiniteSet(places)
    <3>1. IsFiniteSet(1..n)
      BY FS_Interval
    <3> QED BY <3>1, FS_Subset
  <2>2. f \in Surjection(places, events)
    BY DEF Surjection
  <2> HIDE DEF f, events
  <2> QED BY <2>1, <2>2, FS_Surjection
<1>3. seen' = [seen EXCEPT ![c] = @ \union events]
  BY DEF Receive
<1>4. view' \in [Clients -> EventType \cup {None}]
  BY DEF Receive, GatewayTypeOK
<1>5. \A i \in places : Event(history[i]) \in events
  OBVIOUS
<1>6. \A d \in Clients \ {c} : view'[d] = view[d]
  BY DEF Receive, GatewayTypeOK
<1> HIDE DEF events
<1>7. seen' \in [Clients -> SUBSET EventType]
  BY <1>1, <1>3 DEF GatewayTypeOK
<1>8. SeenFinite'
  <2>1. IsFiniteSet(seen[c] \union events)
    BY <1>2, FS_Union DEF SeenFinite
  <2> QED BY <1>3, <2>1 DEF SeenFinite, GatewayTypeOK
<1> QED BY <1>3, <1>4, <1>5, <1>6, <1>7, <1>8 DEF GatewayTypeOK

\* The projection that is fetched is one change, or none.
LEMMA FetchedEvent ==
    ASSUME BrokerInv
    PROVE  /\ DOMAIN Fetched \subseteq 1..1
           /\ \A i \in DOMAIN Fetched : Event(Fetched[i]) \in EventType
           /\ projections[Run].status # "absent" =>
                 /\ DOMAIN Fetched = {1}
                 /\ Fetched[1] = projections[Run]
<1>1. projections[Run] \in Projection
  BY BrokerTyped, GatewayAssumption
<1>2. CASE projections[Run].status = "absent"
  BY <1>2 DEF Fetched
<1>3. CASE projections[Run].status # "absent"
  <2>1. Event(projections[Run]) \in EventType
    BY <1>1, <1>3, EventTyped
  <2>2. Fetched = <<projections[Run]>>
    BY <1>3 DEF Fetched
  <2> HIDE DEF Fetched
  <2> QED BY <2>1, <2>2
<1> QED BY <1>2, <1>3

LEMMA TypeStep ==
    ASSUME BrokerInv, GatewayTypeOK, SeenFinite, [GatewayNext]_gatewayVars
    PROVE  GatewayTypeOK' /\ SeenFinite'
<1>1. CASE PublishStep
  <2>1. PICK status \in ProjectionStatus, cursor \in Nat, at \in Nat :
           Publish(status, cursor, at)
    BY <1>1, Published
  <2> DEFINE event == [status |-> status, cursor |-> cursor, updatedAt |-> at]
  <2>2. event \in EventType
    BY DEF EventType
  <2>3. /\ record' = event
        /\ UNCHANGED <<phase, listening, after>>
        /\ seen' = [c \in Clients |->
                      IF Listens(c) THEN seen[c] \union {event} ELSE seen[c]]
        /\ view' = [c \in Clients |-> IF Listens(c) THEN event ELSE view[c]]
    BY <2>1 DEF Publish
  <2> HIDE DEF event
  <2>4. /\ seen' \in [Clients -> SUBSET EventType]
        /\ view' \in [Clients -> EventType \cup {None}]
    BY <2>2, <2>3 DEF GatewayTypeOK
  <2>5. SeenFinite'
    <3>1. ASSUME NEW c \in Clients
          PROVE  IsFiniteSet(seen[c] \union {event})
      BY FS_AddElement DEF SeenFinite
    <3> QED BY <2>3, <3>1 DEF SeenFinite
  <2> QED BY <2>2, <2>3, <2>4, <2>5 DEF GatewayTypeOK
<1>2. CASE SaveStep \/ RestartShared \/ UNCHANGED gatewayVars
  BY <1>2 DEF GatewayTypeOK, SeenFinite, SaveStep, RestartShared, gatewayVars,
              clientVars
<1>3. ASSUME NEW c \in Clients, Attach(c)
      PROVE  GatewayTypeOK' /\ SeenFinite'
  <2>1. /\ phase' \in [Clients -> Phases]
        /\ listening' \in [Clients -> BOOLEAN]
        /\ \A d \in Clients : listening'[d] => phase'[d] # "off"
        /\ UNCHANGED <<record, view>>
    BY <1>3 DEF GatewayTypeOK, Attach, Phases
  <2>2. view[c] # None => view[c].cursor \in Nat
    BY DEF GatewayTypeOK, EventType
  <2>3. after' \in [Clients -> Nat \cup {None}]
    BY <1>3, <2>2 DEF GatewayTypeOK, Attach
  <2>4. seen' \in [Clients -> SUBSET EventType] /\ SeenFinite'
    BY <1>3, FS_EmptySet DEF GatewayTypeOK, SeenFinite, Attach
  <2> QED BY <2>1, <2>3, <2>4 DEF GatewayTypeOK
<1>4. ASSUME NEW c \in Clients, Replay(c)
      PROVE  GatewayTypeOK' /\ SeenFinite'
  <2>1. /\ phase' \in [Clients -> Phases]
        /\ \A d \in Clients : phase'[d] = "off" => phase[d] = "off"
        /\ UNCHANGED <<record, listening, after>>
    BY <1>4 DEF GatewayTypeOK, Replay, Phases
  <2>2. PICK first \in ListRunProjectionChanges(projectionHistory[Run], after[c]) :
           Receive(c, projectionHistory[Run], first)
    BY <1>4 DEF Replay
  <2>3. Len(projectionHistory[Run]) \in Nat
    BY BrokerTyped
  <2>4. /\ seen' \in [Clients -> SUBSET EventType]
        /\ view' \in [Clients -> EventType \cup {None}]
        /\ SeenFinite'
    BY <2>2, <2>3, ReplayedEvents, ReceiveTyped
  <2> QED BY <2>1, <2>4 DEF GatewayTypeOK
<1>5. ASSUME NEW c \in Clients, ReplayProjection(c)
      PROVE  GatewayTypeOK' /\ SeenFinite'
  <2>1. /\ phase' \in [Clients -> Phases]
        /\ \A d \in Clients : phase'[d] = "off" => phase[d] = "off"
        /\ UNCHANGED <<record, listening, after>>
        /\ Receive(c, Fetched, DOMAIN Fetched)
    BY <1>5 DEF GatewayTypeOK, ReplayProjection, Phases
  <2>2. /\ seen' \in [Clients -> SUBSET EventType]
        /\ view' \in [Clients -> EventType \cup {None}]
        /\ SeenFinite'
    BY <2>1, FetchedEvent, ReceiveTyped
  <2> QED BY <2>1, <2>2 DEF GatewayTypeOK
<1>6. ASSUME NEW c \in Clients, ReplayFails(c) \/ Detach(c)
      PROVE  GatewayTypeOK' /\ SeenFinite'
  BY <1>6 DEF GatewayTypeOK, SeenFinite, ReplayFails, Detach, Phases
<1> QED BY <1>1, <1>2, <1>3, <1>4, <1>5, <1>6 DEF GatewayNext, PublishStep

LEMMA GatewayStart == GatewayInit => GatewayInv
<1> SUFFICES ASSUME GatewayInit PROVE GatewayInv
  OBVIOUS
<1>1. IInv /\ HInv
  BY InitIInv, InitHInv DEF GatewayInit
<1>2. ChangesPresent(Snapshot) /\ ChangesPresent(disk)
  BY GatewayAssumption DEF GatewayInit, Init, ChangesPresent, Snapshot
<1>3. GatewayTypeOK
  BY DEF GatewayInit, GatewayTypeOK, Phases
<1>4. RecordInv
  BY GatewayAssumption DEF GatewayInit, Init, RecordInv, RecordAhead, Snapshot
<1>5. SeenFinite
  BY FS_EmptySet DEF GatewayInit, SeenFinite
<1> QED BY <1>1, <1>2, <1>3, <1>4, <1>5 DEF BrokerInv, GatewayInv

LEMMA GatewayInvariant == GatewaySpec => []GatewayInv
<1>1. GatewayInv /\ [GatewayNext]_gatewayVars => GatewayInv'
  BY BrokerInvStep, RecordStep, TypeStep DEF GatewayInv
<1> QED BY GatewayStart, <1>1, PTL DEF GatewaySpec

\* Clients receive nothing but projection change events, a projection that is
\* not there included, and every subscription is at one of the handler's awaits.
THEOREM GatewayTyped == GatewaySpec => []GatewayTypeOK
<1>1. GatewayInv => GatewayTypeOK
  BY DEF GatewayInv
<1> QED BY GatewayInvariant, <1>1, PTL

-----------------------------------------------------------------------------
(* What subscribers are owed.                                              *)

\* A replay that was full stays so, whatever else is received.
LEMMA CutStays ==
    ASSUME NEW few, NEW many, few \subseteq many, IsFiniteSet(many), NEW p,
           Cardinality({e \in few : ~Later(e, p)}) >= ReplayLimit
    PROVE  Cardinality({e \in many : ~Later(e, p)}) >= ReplayLimit
<1> DEFINE part == {e \in few : ~Later(e, p)}
           whole == {e \in many : ~Later(e, p)}
<1>1. part \in SUBSET whole /\ whole \in SUBSET many
  OBVIOUS
<1> HIDE DEF part, whole
<1>2. IsFiniteSet(whole)
  BY <1>1, FS_Subset
<1>3. IsFiniteSet(part) /\ Cardinality(part) <= Cardinality(whole)
  BY <1>1, <1>2, FS_Subset
<1>4. Cardinality(part) \in Nat /\ Cardinality(whole) \in Nat
  BY <1>2, <1>3, FS_CardinalityType
<1>5. Cardinality(part) >= ReplayLimit
  BY DEF part
<1>6. Cardinality(whole) >= ReplayLimit
  BY <1>3, <1>4, <1>5, GatewayAssumption
<1> QED BY <1>6 DEF whole

\* A change that a replay leaves out comes after ReplayLimit others, which are
\* different events because the record was ahead of each when it was published.
LEMMA LeftOutIsLate ==
    ASSUME GatewayInv, NEW cursor,
           NEW first \in ListRunProjectionChanges(projectionHistory[Run], cursor),
           NEW i \in Selected(projectionHistory[Run], cursor), i \notin first,
           NEW received, IsFiniteSet(received),
           \A k \in first : Event(projectionHistory[Run][k]) \in received
    PROVE  Cardinality({e \in received : ~Later(e, projectionHistory[Run][i])})
              >= ReplayLimit
<1> DEFINE history == projectionHistory[Run]
           early == {e \in received : ~Later(e, history[i])}
           f == [k \in first |-> Event(history[k])]
<1>1. Cardinality(first) = ReplayLimit
  BY CutReplayFull DEF GatewayInv
<1>2. first \subseteq DOMAIN history /\ i \in DOMAIN history
  BY DEF ListRunProjectionChanges, Selected
<1>3. \A k \in DOMAIN history :
         history[k].updatedAt \in Nat /\ history[k].cursor \in Nat
  <2>1. \A k \in DOMAIN history : history[k] \in Projection
    BY BrokerTyped DEF GatewayInv
  <2> QED BY <2>1 DEF Projection
<1>4. \A k \in first : Event(history[k]) \in early
  <2> TAKE k \in first
  <2>1. Before(history, k, i)
    BY DEF ListRunProjectionChanges
  <2>2. ~Later(history[k], history[i])
    BY <1>2, <1>3, <2>1 DEF Before, Later
  <2>3. ~Later(Event(history[k]), history[i])
    BY <2>2 DEF Later, Event
  <2> QED BY <2>3
<1>5. \A k, l \in first : Event(history[k]) = Event(history[l]) => k = l
  BY <1>2 DEF GatewayInv, RecordInv, RecordAhead
<1>6. IsFiniteSet(early)
  <2>1. early \in SUBSET received
    OBVIOUS
  <2> HIDE DEF early
  <2> QED BY <2>1, FS_Subset
<1> HIDE DEF history, early
<1>7. f \in Injection(first, early)
  BY <1>4, <1>5 DEF Injection, IsInjective
<1> HIDE DEF f
<1>8. Cardinality(early) >= ReplayLimit
  <2>1. IsFiniteSet(first) /\ Cardinality(first) <= Cardinality(early)
    BY <1>6, <1>7, FS_Injection
  <2>2. Cardinality(early) \in Nat
    BY <1>6, FS_CardinalityType
  <2> QED BY <1>1, <2>1, <2>2, GatewayAssumption
<1> QED BY <1>8 DEF early, history

\* What clients are owed stays with them while the history stays as it is and
\* they receive more.
LEMMA SeenKept ==
    ASSUME HistorySeen, SeenFinite',
           projectionHistory' = projectionHistory,
           NEW d \in Clients, Replayed(d), after'[d] = after[d],
           seen[d] \subseteq seen'[d],
           NEW i \in Selected(projectionHistory'[Run], after'[d])
    PROVE  \/ Event(projectionHistory'[Run][i]) \in seen'[d]
           \/ CutBefore(d, projectionHistory[Run][i])'
<1>1. \/ Event(projectionHistory[Run][i]) \in seen[d]
      \/ CutBefore(d, projectionHistory[Run][i])
  BY DEF HistorySeen
<1>2. ASSUME CutBefore(d, projectionHistory[Run][i])
      PROVE  Cardinality({e \in seen'[d] : ~Later(e, projectionHistory[Run][i])})
                >= ReplayLimit
  <2>1. Cardinality({e \in seen[d] : ~Later(e, projectionHistory[Run][i])})
           >= ReplayLimit
    BY <1>2 DEF CutBefore
  <2>2. IsFiniteSet(seen'[d])
    BY DEF SeenFinite
  <2> QED BY <2>1, <2>2, CutStays
<1> QED BY <1>1, <1>2 DEF CutBefore

LEMMA SeenStep ==
    ASSUME GatewayInv, GatewayInv', HistorySeen, [GatewayNext]_gatewayVars
    PROVE  HistorySeen'
<1>0. GatewayTypeOK /\ SeenFinite'
  BY DEF GatewayInv
<1>1. CASE PublishStep
  <2>1. PICK status \in ProjectionStatus, cursor \in Nat, at \in Nat :
           Publish(status, cursor, at)
    BY <1>0, <1>1, Published
  <2> DEFINE event == [status |-> status, cursor |-> cursor, updatedAt |-> at]
  <2>2. /\ Event(projections'[Run]) = event
        /\ \A i \in DOMAIN projectionHistory'[Run] :
              \/ projectionHistory'[Run][i] = projections'[Run]
              \/ \E j \in DOMAIN projectionHistory[Run] :
                    projectionHistory'[Run][i] = projectionHistory[Run][j]
    BY <2>1, PublishBroker DEF GatewayInv
  <2> SUFFICES ASSUME NEW c \in Clients, Replayed(c)',
                      NEW i \in Selected(projectionHistory'[Run], after'[c])
               PROVE  \/ Event(projectionHistory'[Run][i]) \in seen'[c]
                      \/ Cardinality({e \in seen'[c] :
                            ~Later(e, projectionHistory'[Run][i])}) >= ReplayLimit
    BY DEF HistorySeen, CutBefore
  <2>3. /\ after'[c] = after[c]
        /\ Replayed(c)
        /\ seen'[c] = seen[c] \union {event}
    BY <2>1 DEF Publish, Replayed, Listens
  <2> HIDE DEF event
  <2>4. CASE projectionHistory'[Run][i] = projections'[Run]
    BY <2>2, <2>3, <2>4
  <2>5. CASE \E j \in DOMAIN projectionHistory[Run] :
                projectionHistory'[Run][i] = projectionHistory[Run][j]
    <3>1. PICK j \in DOMAIN projectionHistory[Run] :
             projectionHistory'[Run][i] = projectionHistory[Run][j]
      BY <2>5
    <3> DEFINE p == projectionHistory[Run][j]
    <3>2. j \in Selected(projectionHistory[Run], after[c])
      BY <2>3, <3>1 DEF Selected, After
    <3>3. \/ Event(p) \in seen[c]
          \/ Cardinality({e \in seen[c] : ~Later(e, p)}) >= ReplayLimit
      BY <2>3, <3>2 DEF HistorySeen, CutBefore
    <3>4. seen[c] \subseteq seen'[c] /\ IsFiniteSet(seen'[c])
      BY <1>0, <2>3 DEF SeenFinite
    <3> HIDE DEF p
    <3>5. \/ Event(p) \in seen'[c]
          \/ Cardinality({e \in seen'[c] : ~Later(e, p)}) >= ReplayLimit
      BY <3>3, <3>4, CutStays
    <3> QED BY <3>1, <3>5 DEF p
  <2> QED BY <2>2, <2>4, <2>5 DEF Selected
<1>2. CASE SaveStep \/ UNCHANGED gatewayVars
  BY <1>2 DEF HistorySeen, CutBefore, Replayed, SaveStep, Save, SaveFails,
              gatewayVars, vars, memory, projectionVars, clientVars
<1>3. CASE RestartShared
  BY <1>3 DEF HistorySeen, Replayed, RestartShared
<1>4. ASSUME NEW c \in Clients, ClientStep(c)
      PROVE  HistorySeen'
  <2>0. projectionHistory' = projectionHistory
    BY <1>4, ClientStepQuiet DEF vars, memory, projectionVars
  <2> SUFFICES ASSUME NEW d \in Clients, Replayed(d)',
                      NEW i \in Selected(projectionHistory'[Run], after'[d])
               PROVE  \/ Event(projectionHistory'[Run][i]) \in seen'[d]
                      \/ CutBefore(d, projectionHistory[Run][i])'
    BY <2>0 DEF HistorySeen
  <2>1. CASE Attach(c) \/ Detach(c) \/ ReplayFails(c)
    <3>1. d # c
      BY <1>0, <2>1 DEF Attach, Detach, ReplayFails, Replayed, GatewayTypeOK
    <3>2. Replayed(d) /\ after'[d] = after[d] /\ seen'[d] = seen[d]
      BY <1>0, <2>1, <3>1 DEF Attach, Detach, ReplayFails, Replayed, GatewayTypeOK
    <3> QED BY <1>0, <2>0, <3>2, SeenKept
  <2>2. CASE Replay(c)
    <3>1. PICK first \in ListRunProjectionChanges(projectionHistory[Run], after[c]) :
             Receive(c, projectionHistory[Run], first)
      BY <2>2 DEF Replay
    <3>2. Len(projectionHistory[Run]) \in Nat
      BY BrokerTyped DEF GatewayInv
    <3>3. /\ \A b \in Clients : seen[b] \subseteq seen'[b]
          /\ \A k \in first : Event(projectionHistory[Run][k]) \in seen'[c]
      BY <3>1, <3>2, ReplayedEvents, ReceiveTyped DEF GatewayInv
    <3>4. after' = after
      BY <2>2 DEF Replay
    <3>5. CASE d = c
      <4>1. CASE i \in first
        BY <2>0, <3>3, <3>5, <4>1
      <4>2. CASE i \notin first
        <5>1. /\ i \in Selected(projectionHistory[Run], after[c])
              /\ IsFiniteSet(seen'[c])
          BY <1>0, <2>0, <3>4, <3>5 DEF SeenFinite
        <5>2. Cardinality({e \in seen'[c] : ~Later(e, projectionHistory[Run][i])})
                 >= ReplayLimit
          BY <3>3, <4>2, <5>1, LeftOutIsLate
        <5> QED BY <2>0, <3>5, <5>2 DEF CutBefore
      <4> QED BY <4>1, <4>2
    <3>6. CASE d # c
      <4>1. Replayed(d)
        BY <1>0, <2>2, <3>6 DEF Replay, Replayed, GatewayTypeOK
      <4> QED BY <1>0, <2>0, <3>3, <3>4, <4>1, SeenKept
    <3> QED BY <3>5, <3>6
  <2>3. CASE ReplayProjection(c)
    <3>1. Receive(c, Fetched, DOMAIN Fetched) /\ after' = after
      BY <2>3 DEF ReplayProjection
    <3>2. \A b \in Clients : seen[b] \subseteq seen'[b]
      BY <3>1, FetchedEvent, ReceiveTyped DEF GatewayInv
    <3>3. Replayed(d)
      BY <1>0, <2>3 DEF ReplayProjection, Replayed, GatewayTypeOK
    <3> QED BY <1>0, <2>0, <3>1, <3>2, <3>3, SeenKept
  <2> QED BY <1>4, <2>1, <2>2, <2>3 DEF ClientStep
<1> QED BY <1>1, <1>2, <1>3, <1>4 DEF GatewayNext, PublishStep, ClientStep

\* The last change sent by a whole replay of a history whose end is no earlier
\* than the rest is that end.
LEMMA WholeReplayEnds ==
    ASSUME GatewayInv, NEW c \in Clients, projections[Run].status # "absent",
           NEW first \in ListRunProjectionChanges(projectionHistory[Run], None),
           Receive(c, projectionHistory[Run], first),
           ~(Len(projectionHistory[Run]) > ReplayLimit),
           ~\E i \in DOMAIN projectionHistory[Run] :
                Later(projectionHistory[Run][i], projections[Run])
    PROVE  view'[c] = Event(projections[Run])
<1> DEFINE history == projectionHistory[Run]
<1>1. /\ Len(history) \in Nat
      /\ DOMAIN history = 1..Len(history)
      /\ history # <<>>
      /\ history[Len(history)] = projections[Run]
  BY BrokerTyped DEF HistoryOf, GatewayInv
<1>2. Len(history) # 0
  BY <1>1, BrokerTyped DEF GatewayInv
<1>3. Selected(history, None) = 1..Len(history)
  BY <1>1 DEF Selected, After
<1>4. first = 1..Len(history)
  <2>1. IsFiniteSet(1..Len(history)) /\ Cardinality(1..Len(history)) = Len(history)
    BY <1>1, FS_Interval
  <2>2. first \in SUBSET (1..Len(history)) /\ Cardinality(first) = Len(history)
    <3> HIDE DEF history
    <3>1. ~(Cardinality(Selected(history, None)) > ReplayLimit)
      BY <1>3, <2>1 DEF history
    <3> QED BY <1>3, <2>1, <3>1 DEF ListRunProjectionChanges, history
  <2> HIDE DEF history
  <2> QED BY <2>1, <2>2, FS_Subset
<1>5. Len(history) \in first
  BY <1>1, <1>2, <1>4
<1>6. PICK last \in first :
         /\ \A i \in first \ {last} : Before(history, i, last)
         /\ view' = [view EXCEPT ![c] = Event(history[last])]
  BY <1>5 DEF Receive
<1>7. last = Len(history)
  <2> SUFFICES ASSUME last # Len(history) PROVE FALSE
    OBVIOUS
  <2>1. Before(history, Len(history), last)
    BY <1>5, <1>6
  <2>2. ~Later(history[last], history[Len(history)])
    BY <1>1, <1>4, <1>6
  <2>3. last \in Nat /\ last <= Len(history)
    BY <1>1, <1>4, <1>6
  <2> HIDE DEF history
  <2> QED BY <1>1, <2>1, <2>2, <2>3 DEF Before
<1> QED BY <1>1, <1>6, <1>7 DEF GatewayInv, GatewayTypeOK

LEMMA FreshStep ==
    ASSUME GatewayInv, FreshCurrent, [GatewayNext]_gatewayVars
    PROVE  FreshCurrent'
<1>0. GatewayTypeOK
  BY DEF GatewayInv
<1>1. CASE PublishStep
  <2>1. PICK status \in ProjectionStatus, cursor \in Nat, at \in Nat :
           Publish(status, cursor, at)
    BY <1>0, <1>1, Published
  <2> DEFINE event == [status |-> status, cursor |-> cursor, updatedAt |-> at]
  <2>2. Event(projections'[Run]) = event
    BY <2>1, PublishBroker DEF GatewayInv
  <2>3. \A c \in Clients : Replayed(c)' => view'[c] = event
    BY <2>1 DEF Publish, Replayed, Listens
  <2> HIDE DEF event
  <2> QED BY <2>2, <2>3 DEF FreshCurrent
<1>2. CASE SaveStep \/ UNCHANGED gatewayVars
  BY <1>2 DEF FreshCurrent, Replayed, SaveStep, Save, SaveFails, gatewayVars, vars,
              memory, projectionVars, clientVars
<1>3. CASE RestartShared
  BY <1>3 DEF FreshCurrent, Replayed, RestartShared
<1>4. ASSUME NEW c \in Clients, ClientStep(c)
      PROVE  FreshCurrent'
  <2>0. UNCHANGED <<projections, projectionHistory>>
    BY <1>4, ClientStepQuiet DEF vars, memory, projectionVars
  <2> SUFFICES ASSUME NEW d \in Clients, Replayed(d)', after'[d] = None,
                      projections[Run].status # "absent",
                      ~(Len(projectionHistory[Run]) > ReplayLimit),
                      ~\E i \in DOMAIN projectionHistory[Run] :
                           Later(projectionHistory[Run][i], projections[Run])
               PROVE  view'[d] = Event(projections[Run])
    BY <2>0 DEF FreshCurrent
  <2>1. CASE Attach(c) \/ Detach(c) \/ ReplayFails(c)
    <3>1. d # c
      BY <1>0, <2>1 DEF Attach, Detach, ReplayFails, Replayed, GatewayTypeOK
    <3>2. Replayed(d) /\ after'[d] = after[d] /\ view'[d] = view[d]
      BY <1>0, <2>1, <3>1 DEF Attach, Detach, ReplayFails, Replayed, GatewayTypeOK
    <3> QED BY <3>2 DEF FreshCurrent
  <2>2. CASE Replay(c)
    <3>1. PICK first \in ListRunProjectionChanges(projectionHistory[Run], after[c]) :
             Receive(c, projectionHistory[Run], first)
      BY <2>2 DEF Replay
    <3>2. after' = after
      BY <2>2 DEF Replay
    <3>3. CASE d = c
      <4>1. after[c] = None
        BY <3>2, <3>3
      <4> QED BY <3>1, <3>3, <4>1, WholeReplayEnds
    <3>4. CASE d # c
      <4>1. Replayed(d) /\ view'[d] = view[d]
        BY <1>0, <2>2, <3>1, <3>4 DEF Replay, Receive, Replayed, GatewayTypeOK
      <4> QED BY <3>2, <4>1 DEF FreshCurrent
    <3> QED BY <3>3, <3>4
  <2>3. CASE ReplayProjection(c)
    <3>1. Receive(c, Fetched, DOMAIN Fetched) /\ after' = after
      BY <2>3 DEF ReplayProjection
    <3>2. DOMAIN Fetched = {1} /\ Fetched[1] = projections[Run]
      BY FetchedEvent DEF GatewayInv
    <3>3. CASE d = c
      <4> HIDE DEF Fetched
      <4>1. view' = [view EXCEPT ![c] = Event(Fetched[1])]
        BY <3>1, <3>2 DEF Receive
      <4> QED BY <1>0, <3>2, <3>3, <4>1 DEF GatewayTypeOK
    <3>4. CASE d # c
      <4>1. Replayed(d) /\ view'[d] = view[d]
        BY <1>0, <2>3, <3>1, <3>4 DEF ReplayProjection, Receive, Replayed,
                                      GatewayTypeOK
      <4> QED BY <3>1, <4>1 DEF FreshCurrent
    <3> QED BY <3>3, <3>4
  <2> QED BY <1>4, <2>1, <2>2, <2>3 DEF ClientStep
<1> QED BY <1>1, <1>2, <1>3, <1>4 DEF GatewayNext, PublishStep, ClientStep

\* Once its replay is through, a client with a listener has received every change
\* still kept that is later than the cursor it gave, or a full replay of earlier
\* ones, for any limits and any number of clients that attach, are cut off, go
\* deaf with a restart and attach again while the run is published.
THEOREM GatewayNothingMissed == GatewaySpec => []NothingMissed
<1>1. GatewayInit => HistorySeen
  BY DEF GatewayInit, HistorySeen, Replayed
<1>2. GatewayInv /\ GatewayInv' /\ HistorySeen /\ [GatewayNext]_gatewayVars
        => HistorySeen'
  BY SeenStep
<1>3. HistorySeen => NothingMissed
  BY DEF HistorySeen, NothingMissed, Replayed
<1> QED BY GatewayInvariant, <1>1, <1>2, <1>3, PTL DEF GatewaySpec

\* The last event a client attached without a cursor has received is the run's
\* present projection, for any limits, unless more changes are kept than a replay
\* holds or one of them is later than the present one.
THEOREM GatewayFreshSeesPresent == GatewaySpec => []FreshSeesPresent
<1>1. GatewayInit => FreshCurrent
  BY DEF GatewayInit, FreshCurrent, Replayed
<1>2. GatewayInv /\ FreshCurrent /\ [GatewayNext]_gatewayVars => FreshCurrent'
  BY FreshStep
<1>3. FreshCurrent => FreshSeesPresent
  BY DEF FreshCurrent, FreshSeesPresent, Replayed
<1> QED BY GatewayInvariant, <1>1, <1>2, <1>3, PTL DEF GatewaySpec
=============================================================================
