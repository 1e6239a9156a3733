---------------------------- MODULE SubagentPool ----------------------------
(* SubagentManager: the child runs of all parent runs of a pagelet share    *)
(* slots. Each child is a generator (spawnAndWait) that waits for a slot,   *)
(* runs, and gives the slot back; children are aborted one by one, with     *)
(* their parent, or all together by disposeAll. What runs without an await  *)
(* in between is one step.                                                  *)
EXTENDS Naturals, Sequences, FiniteSets

CONSTANTS
  Children,      \* child run ids; one is spawned again once its run is over
  Limits,        \* the limits setMaxConcurrent may leave
  DefaultLimit,  \* options.maxConcurrent ?? 4
  MaxDisposals   \* bound: calls of disposeAll

ASSUME PoolAssumption ==
  /\ IsFiniteSet(Children)
  /\ Limits \subseteq Nat \ {0}
  /\ DefaultLimit \in Limits
  /\ MaxDisposals \in Nat

VARIABLES
  at,            \* where each child's generator is
  status,        \* record.status
  aborted,       \* record.abortController.signal.aborted
  maxConcurrent,
  active,
  queue,         \* the children parked in acquireSlot, first come first
  doomed,        \* history: children under way when disposeAll was called
  returned,      \* history: slots given back by children that had none
  disposals

vars == <<at, status, aborted, maxConcurrent, active, queue, doomed, returned,
          disposals>>

Terminal(s) == s \in {"completed", "stopped", "error"}
UnderWay == {c \in Children : at[c] \notin {"none", "over"}}

\* The children a slot was counted for.
Holders == {c \in Children : at[c] \in {"granted", "running", "closing"}}

------------------------------------------------------------------------------
\* fault: one slot too many
RoomOneMore(n, limit) == IF n <= limit THEN limit + 1 - n ELSE 0

Room(n, limit) == IF n < limit THEN limit - n ELSE 0

\* drainQueue, from n active children and these places of the generators.
DrainQueue(n, limit, places) ==
  LET woken == IF Room(n, limit) < Len(queue) THEN Room(n, limit) ELSE Len(queue)
      granted == {queue[i] : i \in 1..woken}
  IN  /\ active' = n + woken
      /\ queue' = SubSeq(queue, woken + 1, Len(queue))
      /\ at' = [c \in Children |-> IF c \in granted THEN "granted" ELSE places[c]]

Released == IF active = 0 THEN 0 ELSE active - 1

\* releaseSlot at the end of c's generator, whether or not it had a slot.
ReleaseSlot(c) ==
  /\ DrainQueue(Released, maxConcurrent, [at EXCEPT ![c] = "over"])
  /\ returned' = IF at[c] = "flushed" THEN returned + 1 ELSE returned

\* fault: last come first
ParkedFirst(c) == <<c>> \o queue

Parked(c) == Append(queue, c)

\* spawnAndWait up to its first await; the parent's signal may be aborted.
Spawn(c) ==
  /\ c \notin UnderWay
  /\ status' = [status EXCEPT ![c] = "queued"]
  /\ \E b \in BOOLEAN : aborted' = [aborted EXCEPT ![c] = b]
  /\ doomed' = doomed \ {c}
  /\ \/ /\ active < maxConcurrent
        /\ active' = active + 1
        /\ at' = [at EXCEPT ![c] = "granted"]
        /\ UNCHANGED queue
     \/ /\ active >= maxConcurrent
        /\ at' = [at EXCEPT ![c] = "parked"]
        /\ queue' = Parked(c)
        /\ UNCHANGED active
  /\ UNCHANGED <<maxConcurrent, returned, disposals>>

\* acquireSlot has resolved.
Resumed(c) == at[c] \in {"granted", "flushed"}

Start(c) ==
  /\ Resumed(c)
  /\ ~aborted[c]
  /\ status' = [status EXCEPT ![c] = "running"]
  /\ at' = [at EXCEPT ![c] = "running"]
  /\ UNCHANGED <<aborted, maxConcurrent, active, queue, doomed, returned, disposals>>

Withdraw(c) ==
  /\ Resumed(c)
  /\ aborted[c]
  /\ status' = [status EXCEPT ![c] = "stopped"]
  /\ ReleaseSlot(c)
  /\ UNCHANGED <<aborted, maxConcurrent, doomed, disposals>>

\* fault: the signal is not looked at
OutcomeCompleted(c) == "completed"

Outcome(c) == IF aborted[c] THEN "stopped" ELSE "completed"

\* The runner's stream ends or fails. It sets the status and yields its last
\* events; the slot is held until they are consumed.
RunnerEnds(c) ==
  /\ at[c] = "running"
  /\ at' = [at EXCEPT ![c] = "closing"]
  /\ \E s \in {Outcome(c), "error"} : status' = [status EXCEPT ![c] = s]
  /\ UNCHANGED <<aborted, maxConcurrent, active, queue, doomed, returned, disposals>>

\* The finally block: after the runner's last event, or because the consumer
\* left the loop and the generator is closed where it stands.
Close(c) ==
  /\ at[c] \in {"running", "closing"}
  /\ status' = [status EXCEPT ![c] = IF Terminal(@) THEN @ ELSE Outcome(c)]
  /\ ReleaseSlot(c)
  /\ UNCHANGED <<aborted, maxConcurrent, doomed, disposals>>

------------------------------------------------------------------------------
\* abort(id); the generator notices later.
Abort(c) ==
  /\ c \in UnderWay
  /\ ~Terminal(status[c])
  /\ aborted' = [aborted EXCEPT ![c] = TRUE]
  /\ status' = [status EXCEPT ![c] = "stopped"]
  /\ UNCHANGED <<at, maxConcurrent, active, queue, doomed, returned, disposals>>

\* A parent run is cancelled: the signal its children share is aborted, their
\* records are left as they are.
CancelParent(children) ==
  /\ children # {}
  /\ children \subseteq UnderWay
  /\ aborted' = [c \in Children |-> aborted[c] \/ c \in children]
  /\ UNCHANGED <<at, status, maxConcurrent, active, queue, doomed, returned,
                 disposals>>

\* fault: parked children wait for the next run to end
SetMaxConcurrentOnly(limit) ==
  /\ maxConcurrent' = limit
  /\ UNCHANGED <<at, status, aborted, active, queue, doomed, returned, disposals>>

SetMaxConcurrent(limit) ==
  /\ maxConcurrent' = limit
  /\ DrainQueue(active, limit, at)
  /\ UNCHANGED <<status, aborted, doomed, returned, disposals>>

\* fault: queued records are passed over
UnsettledRunning == {c \in UnderWay : status[c] = "running"}

Unsettled == {c \in UnderWay : ~Terminal(status[c])}

\* Every record that is not settled is aborted, and the parked generators go
\* on without a slot being counted for them.
DisposeAll ==
  /\ disposals < MaxDisposals
  /\ disposals' = disposals + 1
  /\ doomed' = UnderWay
  /\ aborted' = [c \in Children |-> aborted[c] \/ c \in Unsettled]
  /\ status' = [c \in Children |-> IF c \in Unsettled THEN "stopped" ELSE status[c]]
  /\ at' = [c \in Children |-> IF at[c] = "parked" THEN "flushed" ELSE at[c]]
  /\ queue' = <<>>
  /\ UNCHANGED <<maxConcurrent, active, returned>>

------------------------------------------------------------------------------
Init ==
  /\ at = [c \in Children |-> "none"]
  /\ status = [c \in Children |-> "none"]
  /\ aborted = [c \in Children |-> FALSE]
  /\ maxConcurrent = DefaultLimit
  /\ active = 0
  /\ queue = <<>>
  /\ doomed = {}
  /\ returned = 0
  /\ disposals = 0

Next ==
  \/ \E c \in Children :
       \/ Spawn(c) \/ Start(c) \/ Withdraw(c) \/ RunnerEnds(c) \/ Close(c)
       \/ Abort(c)
  \/ \E children \in SUBSET Children : CancelParent(children)
  \/ \E limit \in Limits : SetMaxConcurrent(limit)
  \/ DisposeAll

Spec == Init /\ [][Next]_vars

\* A resolved promise goes on, a generator whose runner has ended is read to
\* its end, and a runner stops once its signal is aborted. A child that nobody
\* aborts need not end.
Fairness ==
  \A c \in Children :
    /\ WF_vars(Start(c) \/ Withdraw(c))
    /\ WF_vars(at[c] = "closing" /\ Close(c))
    /\ WF_vars(aborted[c] /\ (RunnerEnds(c) \/ Close(c)))

FairSpec == Spec /\ Fairness

------------------------------------------------------------------------------
Places == {"none", "parked", "granted", "flushed", "running", "closing", "over"}
Statuses == {"none", "queued", "running", "completed", "stopped", "error"}

\* Every record has one of the declared statuses, every generator is at one of
\* its awaits, and the manager's count of slots taken never goes below zero.
TypeOK ==
  /\ at \in [Children -> Places]
  /\ status \in [Children -> Statuses]
  /\ aborted \in [Children -> BOOLEAN]
  /\ maxConcurrent \in Limits
  /\ active \in Nat
  /\ queue \in Seq(Children)
  /\ doomed \subseteq Children
  /\ returned \in Nat
  /\ disposals \in 0..MaxDisposals

\* When a child is given a slot, no more children have one than the limit of
\* that moment, whatever it was before - but for the slots that disposeAll let
\* children give back which they never had.
GrantsWithinLimit ==
  [][\A c \in Children : at[c] # "granted" /\ at'[c] = "granted" =>
       Cardinality(Holders') <= maxConcurrent' + returned']_vars

\* A child is parked only while every slot is taken: no change of the limit,
\* end of a run or disposal leaves one waiting beside a free slot.
NobodyWaitsInVain ==
  \A c \in Children : at[c] = "parked" => active >= maxConcurrent

\* A child shown as stopped is not shown as running or completed afterwards,
\* although its generator goes on after the abort.
StoppedStays ==
  [][\A c \in UnderWay :
       status[c] = "stopped" => status'[c] \in {"stopped", "error"}]_vars

\* The manager serves the children as SlotLine says: who is spawned later does
\* not overtake who is parked, through changes of the limit, aborts and
\* disposals, whose slots given back without having been taken are the spare
\* ones.
Line == INSTANCE SlotLine
          WITH holding <- Holders, line <- queue, limit <- maxConcurrent,
               spare <- returned
ServedInLine == Line!Spec

\* A parked child gets its turn, if no other runs for ever.
ParkedProceeds ==
  (\A d \in Children : []<>(at[d] # "running")) =>
    \A c \in Children : at[c] = "parked" ~> at[c] # "parked"

\* Whatever was under way when disposeAll was called comes to its end.
DisposalEnds ==
  \A c \in Children : c \in doomed ~> at[c] = "over"
=============================================================================
