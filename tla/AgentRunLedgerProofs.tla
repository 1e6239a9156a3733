------------------------ MODULE AgentRunLedgerProofs ------------------------
(***************************************************************************)
(* The write-ahead discipline of the run ledger, for any runs, bounds and  *)
(* event kinds: a record never counts an event its log lacks.              *)
(*                                                                         *)
(* CountedIsLogged is not inductive: the record a task holds in memory is  *)
(* written later, so the same must hold of it, and the lists the tasks     *)
(* carry must be sequences for the lengths to add up.                      *)
(***************************************************************************)
EXTENDS AgentRunLedger, FiniteSetTheorems, SequenceTheorems, WellFoundedInduction,
        TLAPS

\* a sequence of anything: what an event carries does not matter here
SeqLike(s) == \E S : s \in Seq(S)

EventsSound ==
    /\ DOMAIN events = Runs
    /\ \A r \in Runs : SeqLike(events[r])

QueuesSound ==
    /\ DOMAIN queue = Runs
    /\ \A r \in Runs :
          /\ SeqLike(queue[r])
          /\ \A i \in 1..Len(queue[r]) : SeqLike(queue[r][i].batch)

\* a record that may be on disk or held by a task counts only logged events
Backed(r, rec) ==
    /\ rec.count \in Nat
    /\ r \in bundled \/ 1..rec.count \subseteq Seqs(r)

FilesSound ==
    /\ DOMAIN record = Runs
    /\ DOMAIN held = Runs
    /\ DOMAIN lines = Runs
    /\ importing \in [Runs -> Nat]
    /\ \A r \in Runs :
          /\ SeqLike(lines[r])
          /\ Backed(r, record[r])
          /\ Backed(r, held[r])
          /\ importing[r] > 0 => r \in bundled

IInv == EventsSound /\ QueuesSound /\ FilesSound

-----------------------------------------------------------------------------
(* Sequences. *)

\* Concatenation: its length and its elements.
LEMMA ConcatLike ==
    ASSUME NEW s, NEW t, SeqLike(s), SeqLike(t)
    PROVE  /\ SeqLike(s \o t)
           /\ Len(s) \in Nat /\ Len(t) \in Nat
           /\ DOMAIN s = 1..Len(s) /\ DOMAIN t = 1..Len(t)
           /\ DOMAIN (s \o t) = 1..(Len(s) + Len(t))
           /\ Len(s \o t) = Len(s) + Len(t)
           /\ \A i \in 1..Len(s) : (s \o t)[i] = s[i]
           /\ \A i \in 1..Len(t) : (s \o t)[Len(s) + i] = t[i]
<1>1. PICK S : s \in Seq(S)
  BY DEF SeqLike
<1>2. PICK T : t \in Seq(T)
  BY DEF SeqLike
<1>3. s \in Seq(S \cup T) /\ t \in Seq(S \cup T)
  BY <1>1, <1>2
<1>4. s \o t \in Seq(S \cup T)
  BY <1>3
<1> QED
  BY <1>3, <1>4 DEF SeqLike

\* Adding one element to a sequence.
LEMMA AppendLike ==
    ASSUME NEW s, NEW x, SeqLike(s)
    PROVE  /\ SeqLike(Append(s, x))
           /\ Len(s) \in Nat
           /\ Len(Append(s, x)) = Len(s) + 1
           /\ \A i \in 1..Len(s) : Append(s, x)[i] = s[i]
           /\ Append(s, x)[Len(s) + 1] = x
<1>1. PICK S : s \in Seq(S)
  BY DEF SeqLike
<1>2. s \in Seq(S \cup {x}) /\ x \in S \cup {x}
  BY <1>1
<1>3. Append(s, x) \in Seq(S \cup {x})
  BY <1>2
<1> QED
  BY <1>2, <1>3 DEF SeqLike

\* Dropping the first element of a sequence that has one.
LEMMA TailLike ==
    ASSUME NEW s, SeqLike(s), s # <<>>
    PROVE  /\ SeqLike(Tail(s))
           /\ Len(s) \in Nat \ {0}
           /\ Len(Tail(s)) = Len(s) - 1
           /\ \A i \in 1..Len(Tail(s)) : Tail(s)[i] = s[i + 1]
           /\ Head(s) = s[1]
<1>1. PICK S : s \in Seq(S)
  BY DEF SeqLike
<1>2. Tail(s) \in Seq(S)
  BY <1>1
<1> QED
  BY <1>1, <1>2 DEF SeqLike

\* A function on 1..n is a sequence.
LEMMA FunctionLike ==
    ASSUME NEW n \in Nat, NEW f, DOMAIN f = 1..n, f = [i \in 1..n |-> f[i]]
    PROVE  SeqLike(f) /\ Len(f) = n
<1> DEFINE S == {f[i] : i \in 1..n}
<1>1. f \in [1..n -> S]
  OBVIOUS
<1>2. f \in Seq(S)
  BY <1>1
<1>3. SeqLike(f)
  BY <1>2 DEF SeqLike
<1>4. Len(f) = n
  BY <1>1
<1> QED
  BY <1>3, <1>4

LEMMA EmptyLike == SeqLike(<<>>)
<1>1. <<>> \in Seq({})
  OBVIOUS
<1> QED
  BY <1>1 DEF SeqLike

\* Compaction makes a sequence, whatever it merges.
LEMMA CompactLike ==
    ASSUME NEW es, SeqLike(es)
    PROVE  SeqLike(compactBufferedEvents(es))
<1> DEFINE starts == {i \in DOMAIN es :
                         i = 1 \/ ~isSameAssistantDeltaStream(es[i - 1], es[i])}
           n == Cardinality(starts)
<1>1. PICK S : es \in Seq(S)
  BY DEF SeqLike
<1>2. Len(es) \in Nat /\ DOMAIN es = 1..Len(es)
  BY <1>1
<1>3. IsFiniteSet(DOMAIN es)
  BY <1>2, FS_Interval
<1>4. IsFiniteSet(starts)
  BY <1>3, FS_Subset
<1>5. n \in Nat
  BY <1>4, FS_CardinalityType
<1> HIDE DEF n
<1>6. QED
  <2> DEFINE f == compactBufferedEvents(es)
  <2>1. DOMAIN f = 1..n /\ f = [i \in 1..n |-> f[i]]
    BY DEF compactBufferedEvents, n
  <2> HIDE DEF f
  <2>2. SeqLike(f)
    BY <1>5, <2>1, FunctionLike
  <2> QED
    BY <2>2 DEF f

-----------------------------------------------------------------------------
(* Buffers and queues. *)

\* Queueing a task.
LEMMA EnqueueSound ==
    ASSUME QueuesSound, NEW r \in Runs, NEW op, NEW batch, SeqLike(batch),
           Enqueue(r, op, batch)
    PROVE  QueuesSound'
<1> DEFINE task == [op |-> op, batch |-> batch]
<1>1. queue' = [queue EXCEPT ![r] = Append(queue[r], task)]
  BY DEF Enqueue
<1>2. DOMAIN queue' = Runs
  BY <1>1 DEF QueuesSound
<1>3. ASSUME NEW q \in Runs
      PROVE  /\ SeqLike(queue'[q])
             /\ \A i \in 1..Len(queue'[q]) : SeqLike(queue'[q][i].batch)
  <2>1. CASE q # r
    BY <1>1, <2>1 DEF QueuesSound
  <2>2. CASE q = r
    <3>1. queue'[q] = Append(queue[r], task)
      BY <1>1, <2>2 DEF QueuesSound
    <3>2. /\ SeqLike(queue'[q])
          /\ Len(queue[r]) \in Nat
          /\ Len(queue'[q]) = Len(queue[r]) + 1
          /\ \A i \in 1..Len(queue[r]) : queue'[q][i] = queue[r][i]
          /\ queue'[q][Len(queue[r]) + 1] = task
      BY <3>1, AppendLike DEF QueuesSound
    <3>3. ASSUME NEW i \in 1..Len(queue'[q])
          PROVE  SeqLike(queue'[q][i].batch)
      <4>1. CASE i \in 1..Len(queue[r])
        BY <3>2, <4>1 DEF QueuesSound
      <4>2. CASE i = Len(queue[r]) + 1
        <5>1. queue'[q][i].batch = batch
          BY <3>2, <4>2
        <5> QED
          BY <5>1
      <4> QED
        BY <3>2, <4>1, <4>2
    <3> QED
      BY <3>2, <3>3
  <2> QED
    BY <2>1, <2>2
<1> QED
  BY <1>2, <1>3 DEF QueuesSound

\* Ending the running task.
LEMMA EndTaskSound ==
    ASSUME QueuesSound, NEW r \in Runs, queue[r] # <<>>, EndTask(r)
    PROVE  QueuesSound'
<1>1. queue' = [queue EXCEPT ![r] = Tail(queue[r])]
  BY DEF EndTask
<1>2. DOMAIN queue' = Runs
  BY <1>1 DEF QueuesSound
<1>3. ASSUME NEW q \in Runs
      PROVE  /\ SeqLike(queue'[q])
             /\ \A i \in 1..Len(queue'[q]) : SeqLike(queue'[q][i].batch)
  <2>1. CASE q # r
    BY <1>1, <2>1 DEF QueuesSound
  <2>2. CASE q = r
    <3>1. queue'[q] = Tail(queue[r])
      BY <1>1, <2>2 DEF QueuesSound
    <3>2. /\ SeqLike(queue'[q])
          /\ Len(queue[r]) \in Nat \ {0}
          /\ Len(queue'[q]) = Len(queue[r]) - 1
          /\ \A i \in 1..Len(queue'[q]) : queue'[q][i] = queue[r][i + 1]
      BY <3>1, TailLike DEF QueuesSound
    <3> QED
      BY <3>2 DEF QueuesSound
  <2> QED
    BY <2>1, <2>2
<1> QED
  BY <1>2, <1>3 DEF QueuesSound

\* Replacing one run's pending events.
LEMMA EventsReplaced ==
    ASSUME EventsSound, NEW r \in Runs, NEW es, SeqLike(es),
           events' = [events EXCEPT ![r] = es]
    PROVE  EventsSound'
  BY DEF EventsSound

\* A flush takes the pending events or leaves them.
LEMMA FlushSound ==
    ASSUME EventsSound, QueuesSound, NEW r \in Runs, NEW es, SeqLike(es),
           flushRun(r, es)
    PROVE  EventsSound' /\ QueuesSound'
<1>1. CASE flushing[r] = "none"
  <2>1. events' = [events EXCEPT ![r] = <<>>]
    BY <1>1 DEF flushRun
  <2>2. Enqueue(r, "append", compactBufferedEvents(es))
    BY <1>1 DEF flushRun
  <2>3. EventsSound'
    BY <2>1, EmptyLike, EventsReplaced
  <2>4. QueuesSound'
    BY <2>2, CompactLike, EnqueueSound
  <2> QED
    BY <2>3, <2>4
<1>2. CASE flushing[r] # "none"
  <2>1. events' = [events EXCEPT ![r] = es] /\ queue' = queue
    BY <1>2 DEF flushRun
  <2>2. EventsSound'
    BY <2>1, EventsReplaced
  <2> QED
    BY <2>1, <2>2 DEF QueuesSound
<1> QED
  BY <1>1, <1>2

LEMMA AppendSound ==
    ASSUME EventsSound, QueuesSound, NEW r \in Runs, NEW e, NEW waits \in BOOLEAN,
           append(r, e, waits)
    PROVE  EventsSound' /\ QueuesSound'
<1> DEFINE es == Append(events[r], e)
<1>1. SeqLike(es)
  BY AppendLike DEF EventsSound
<1>2. CASE waits
  <2>1. flushRun(r, es)
    BY <1>2 DEF append
  <2> QED
    BY <1>1, <2>1, FlushSound
<1>3. CASE ~waits
  <2>1. events' = [events EXCEPT ![r] = es] /\ queue' = queue
    BY <1>3 DEF append
  <2>2. EventsSound'
    BY <1>1, <2>1, EventsReplaced
  <2> QED
    BY <2>1, <2>2 DEF QueuesSound
<1> QED
  BY <1>2, <1>3

-----------------------------------------------------------------------------
(* Files. *)

LEMMA NoneBacked == \A r \in Runs : Backed(r, NoRecord) /\ Backed(r, NoRecord)'
<1>1. NoRecord.count = 0
  BY DEF NoRecord
<1>2. 1..0 = {}
  OBVIOUS
<1> QED
  BY <1>1, <1>2 DEF Backed

\* A step that leaves the files and the held records alone.
LEMMA FilesKept ==
    ASSUME FilesSound, UNCHANGED <<record, lines, held, importing, bundled>>
    PROVE  FilesSound'
  BY DEF FilesSound, Backed, Seqs

\* A step that changes one run's files or held record.
LEMMA FilesChanged ==
    ASSUME FilesSound, NEW r \in Runs,
           importing' \in [Runs -> Nat], bundled \subseteq bundled',
           \A q \in Runs : importing'[q] > 0 => q \in bundled',
           DOMAIN record' = Runs, DOMAIN held' = Runs, DOMAIN lines' = Runs,
           \A q \in Runs \ {r} : /\ record'[q] = record[q]
                                /\ held'[q] = held[q]
                                /\ lines'[q] = lines[q],
           SeqLike(lines'[r]),
           Backed(r, record[r])',
           Backed(r, held[r])'
    PROVE  FilesSound'
<1>1. ASSUME NEW q \in Runs \ {r}
      PROVE  SeqLike(lines'[q]) /\ Backed(q, record[q])' /\ Backed(q, held[q])'
  BY <1>1 DEF FilesSound, Backed, Seqs
<1> QED
  BY <1>1 DEF FilesSound

\* As above, when the log stays as it is.
LEMMA RecordsChanged ==
    ASSUME FilesSound, NEW r \in Runs,
           importing' \in [Runs -> Nat], bundled \subseteq bundled',
           \A q \in Runs : importing'[q] > 0 => q \in bundled',
           DOMAIN record' = Runs, DOMAIN held' = Runs, DOMAIN lines' = Runs,
           \A q \in Runs \ {r} : record'[q] = record[q] /\ held'[q] = held[q],
           \A q \in Runs : lines'[q] = lines[q],
           Backed(r, record'[r]),
           Backed(r, held'[r])
    PROVE  FilesSound'
<1>1. SeqLike(lines'[r])
  BY DEF FilesSound
<1>2. Seqs(r)' = Seqs(r)
  BY DEF Seqs
<1>3. Backed(r, record[r])' /\ Backed(r, held[r])'
  BY <1>2 DEF Backed
<1> QED
  BY <1>1, <1>3, FilesChanged

LEMMA HeldDropped ==
    ASSUME FilesSound, NEW r \in Runs, EndTask(r),
           UNCHANGED <<record, lines, importing, bundled>>
    PROVE  FilesSound'
<1>1. held' = [held EXCEPT ![r] = NoRecord]
  BY DEF EndTask
<1>2. Backed(r, held'[r])
  BY <1>1, NoneBacked DEF FilesSound
<1> QED
  BY <1>1, <1>2, RecordsChanged DEF FilesSound

LEMMA RejectSound ==
    ASSUME IInv, NEW r \in Runs, queue[r] # <<>>, RejectTask(r), UNCHANGED bundled
    PROVE  IInv'
<1>1. EndTask(r) /\ UNCHANGED <<record, lines, importing, events>>
  BY DEF RejectTask, files, outside
<1>2. QueuesSound'
  BY <1>1, EndTaskSound DEF IInv
<1>3. FilesSound'
  BY <1>1, HeldDropped DEF IInv
<1> QED
  BY <1>1, <1>2, <1>3 DEF IInv, EventsSound

-----------------------------------------------------------------------------
(* The steps that touch the files. *)

LEMMA ReadRecordSound ==
    ASSUME IInv, NEW r \in Runs, ReadRecord(r)
    PROVE  IInv'
<1>1. CASE Present(r)
  <2>1. /\ held' = [held EXCEPT ![r] = record[r]]
        /\ UNCHANGED <<record, lines, importing, bundled, events, queue>>
    BY <1>1 DEF ReadRecord, files, outside, buffers, history
  <2>2. Backed(r, record'[r]) /\ Backed(r, held'[r])
    BY <2>1 DEF IInv, FilesSound
  <2>3. FilesSound'
    BY <2>1, <2>2, RecordsChanged DEF IInv, FilesSound
  <2> QED
    BY <2>1, <2>3 DEF IInv, EventsSound, QueuesSound
<1>2. CASE ~Present(r)
  <2>1. RejectTask(r) /\ queue[r] # <<>> /\ UNCHANGED bundled
    BY <1>2 DEF ReadRecord, Running
  <2> QED
    BY <2>1, RejectSound
<1> QED
  BY <1>1, <1>2

\* The lines added are numbered on from the held count.
LEMMA AppendLinesSound ==
    ASSUME IInv, NEW r \in Runs, AppendLines(r)
    PROVE  IInv'
<1> DEFINE batch == Head(queue[r]).batch
           added == Numbered(held[r], batch)
           n == held[r].count
<1>1. /\ lines' = [lines EXCEPT ![r] = lines[r] \o added]
      /\ held' = [held EXCEPT ![r] = patched(held[r], batch)]
      /\ UNCHANGED <<record, importing, bundled, events, queue>>
  BY DEF AppendLines, buffers, outside, history
<1>2. SeqLike(batch)
  <2>1. queue[r] # <<>>
    BY DEF AppendLines, Running
  <2>2. Head(queue[r]) = queue[r][1] /\ 1 \in 1..Len(queue[r])
    BY <2>1, TailLike DEF IInv, QueuesSound
  <2> QED
    BY <2>2 DEF IInv, QueuesSound
<1>3. Len(batch) \in Nat /\ DOMAIN batch = 1..Len(batch)
  BY <1>2, ConcatLike
<1>4. n \in Nat
  BY DEF IInv, FilesSound, Backed
<1>5. /\ SeqLike(added)
      /\ Len(added) = Len(batch)
      /\ \A i \in 1..Len(batch) : added[i].seq = n + i
  <2> HIDE DEF batch
  <2>1. DOMAIN added = 1..Len(batch) /\ added = [i \in 1..Len(batch) |-> added[i]]
    BY <1>3 DEF Numbered
  <2>2. \A i \in 1..Len(batch) : added[i].seq = n + i
    BY <1>3 DEF Numbered, NextSeq
  <2> HIDE DEF added
  <2> QED
    BY <1>3, <2>1, <2>2, FunctionLike
<1>6. SeqLike(lines[r])
  BY DEF IInv, FilesSound
<1>7. lines'[r] = lines[r] \o added
  BY <1>1 DEF IInv, FilesSound
<1> HIDE DEF added, batch, n
<1>8. /\ SeqLike(lines'[r])
      /\ Len(lines[r]) \in Nat
      /\ DOMAIN lines[r] = 1..Len(lines[r])
      /\ DOMAIN lines'[r] = 1..(Len(lines[r]) + Len(batch))
      /\ \A i \in 1..Len(lines[r]) : lines'[r][i] = lines[r][i]
      /\ \A i \in 1..Len(batch) : lines'[r][Len(lines[r]) + i] = added[i]
  <2>1. /\ SeqLike(lines[r] \o added)
        /\ Len(lines[r]) \in Nat
        /\ DOMAIN lines[r] = 1..Len(lines[r])
        /\ DOMAIN (lines[r] \o added) = 1..(Len(lines[r]) + Len(added))
        /\ \A i \in 1..Len(lines[r]) : (lines[r] \o added)[i] = lines[r][i]
        /\ \A i \in 1..Len(added) : (lines[r] \o added)[Len(lines[r]) + i] = added[i]
    BY <1>5, <1>6, ConcatLike
  <2> QED
    BY <1>5, <1>7, <2>1
<1>9. Seqs(r) \subseteq Seqs(r)'
  <2>1. \A i \in DOMAIN lines[r] :
            i \in DOMAIN lines'[r] /\ lines'[r][i].seq = lines[r][i].seq
    BY <1>3, <1>8
  <2> QED
    BY <2>1 DEF Seqs
<1>10. (n + 1)..(n + Len(batch)) \subseteq Seqs(r)'
  <2> SUFFICES ASSUME NEW k \in (n + 1)..(n + Len(batch))
               PROVE  k \in Seqs(r)'
    OBVIOUS
  <2>1. k - n \in 1..Len(batch)
    BY <1>3, <1>4
  <2>2. Len(lines[r]) + (k - n) \in DOMAIN lines'[r]
    BY <1>3, <1>4, <1>8, <2>1
  <2>3. lines'[r][Len(lines[r]) + (k - n)] = added[k - n]
    BY <1>8, <2>1
  <2>4. added[k - n].seq = n + (k - n)
    BY <1>5, <2>1
  <2>5. n + (k - n) = k
    BY <1>4
  <2> QED
    BY <2>2, <2>3, <2>4, <2>5 DEF Seqs
<1>11. held'[r].count = n + Len(batch)
  BY <1>1 DEF IInv, FilesSound, patched, Counted, n
<1>12. Backed(r, held[r])'
  <2>1. CASE r \in bundled
    BY <1>1, <1>3, <1>4, <1>11, <2>1 DEF Backed
  <2>2. CASE r \notin bundled
    <3>1. 1..n \subseteq Seqs(r)'
      BY <1>9, <2>2 DEF IInv, FilesSound, Backed, n
    <3>2. 1..(n + Len(batch)) \subseteq (1..n) \cup ((n + 1)..(n + Len(batch)))
      BY <1>3, <1>4
    <3> QED
      BY <1>3, <1>4, <1>10, <1>11, <3>1, <3>2 DEF Backed
  <2> QED
    BY <2>1, <2>2
<1>13. Backed(r, record[r])'
  BY <1>1, <1>9 DEF IInv, FilesSound, Backed
<1>14. FilesSound'
  BY <1>1, <1>8, <1>12, <1>13, FilesChanged DEF IInv, FilesSound
<1> QED
  BY <1>1, <1>14 DEF IInv, EventsSound, QueuesSound

LEMMA WriteRecordSound ==
    ASSUME IInv, NEW r \in Runs, WriteRecord(r) \/ Recovered(r)
    PROVE  IInv'
<1>1. /\ EndTask(r)
      /\ queue[r] # <<>>
      /\ UNCHANGED <<lines, importing, bundled, events>>
  BY DEF WriteRecord, Recovered, Running, outside, buffers, history
<1>2. PICK rec \in {held[r], [held[r] EXCEPT !.status = "failed"]} :
        rec.count = held[r].count /\ record' = [record EXCEPT ![r] = rec]
  <2>1. [held[r] EXCEPT !.status = "failed"].count = held[r].count
    OBVIOUS
  <2> QED
    BY <2>1 DEF WriteRecord, Recovered
<1>3. QueuesSound'
  BY <1>1, EndTaskSound DEF IInv
<1>4. held' = [held EXCEPT ![r] = NoRecord]
  BY <1>1 DEF EndTask
<1>5. record'[r] = rec /\ held'[r] = NoRecord
  BY <1>2, <1>4 DEF IInv, FilesSound
<1>6. Backed(r, rec)
  BY <1>2 DEF IInv, FilesSound, Backed
<1>7. FilesSound'
  BY <1>1, <1>2, <1>4, <1>5, <1>6, NoneBacked, RecordsChanged DEF IInv, FilesSound
<1> QED
  BY <1>1, <1>3, <1>7 DEF IInv, EventsSound

LEMMA RemoveRunSound ==
    ASSUME IInv, NEW r \in Runs, RemoveRun(r)
    PROVE  IInv'
<1>1. /\ record' = [record EXCEPT ![r] = NoRecord]
      /\ lines' = [lines EXCEPT ![r] = <<>>]
      /\ EndTask(r)
      /\ queue[r] # <<>>
      /\ UNCHANGED <<importing, bundled, events>>
  BY DEF RemoveRun, Running, buffers, outside
<1>2. held' = [held EXCEPT ![r] = NoRecord]
  BY <1>1 DEF EndTask
<1>3. QueuesSound'
  BY <1>1, EndTaskSound DEF IInv
<1>4. record'[r] = NoRecord /\ held'[r] = NoRecord /\ lines'[r] = <<>>
  BY <1>1, <1>2 DEF IInv, FilesSound
<1>5. Backed(r, record[r])' /\ Backed(r, held[r])'
  BY <1>4, NoneBacked
<1>6. SeqLike(lines'[r])
  BY <1>4, EmptyLike
<1>7. FilesSound'
  BY <1>1, <1>2, <1>5, <1>6, FilesChanged DEF IInv, FilesSound
<1> QED
  BY <1>1, <1>3, <1>7 DEF IInv, EventsSound

LEMMA WriteNewRecordSound ==
    ASSUME IInv, NEW r \in Runs, WriteNewRecord(r)
    PROVE  IInv'
<1> DEFINE rec == [status |-> "queued", count |-> 0]
<1>1. /\ record' = [record EXCEPT ![r] = rec]
      /\ lines' = [lines EXCEPT ![r] = lines[r]]
      /\ UNCHANGED <<held, importing, bundled, events, queue>>
  BY DEF WriteNewRecord, KeptLines, tasks, buffers
<1>2. Backed(r, rec)
  <2>1. rec.count = 0 /\ 1..0 = {}
    OBVIOUS
  <2> QED
    BY <2>1 DEF Backed
<1>3. record'[r] = rec /\ held'[r] = held[r]
  BY <1>1 DEF IInv, FilesSound
<1>4. \A q \in Runs : lines'[q] = lines[q]
  BY <1>1 DEF IInv, FilesSound
<1> HIDE DEF rec
<1>5. FilesSound'
  BY <1>1, <1>2, <1>3, <1>4, RecordsChanged DEF IInv, FilesSound
<1> QED
  BY <1>1, <1>5 DEF IInv, EventsSound, QueuesSound

\* An import writes a count the log may not cover, so it is left out of Backed.
LEMMA ImportSound ==
    ASSUME IInv, ImportStep
    PROVE  IInv'
<1>1. ASSUME NEW r \in Imported, NEW status, ImportRecord(r, status, 1)
      PROVE  IInv'
  <2> DEFINE rec == [status |-> status, count |-> 1]
  <2>1. /\ record' = [record EXCEPT ![r] = rec]
        /\ importing' = [importing EXCEPT ![r] = 1 + 1]
        /\ bundled' = bundled \cup {r}
        /\ UNCHANGED <<lines, held, events, queue>>
    BY <1>1 DEF ImportRecord, tasks, buffers
  <2>2. r \in Runs
    BY LedgerAssumption
  <2>3. record'[r] = rec /\ held'[r] = held[r] /\ rec.count \in Nat
    BY <2>1, <2>2 DEF IInv, FilesSound
  <2>4. Backed(r, record[r])' /\ Backed(r, held[r])'
    BY <2>1, <2>2, <2>3 DEF IInv, FilesSound, Backed
  <2>5. /\ importing' \in [Runs -> Nat]
        /\ \A q \in Runs : importing'[q] > 0 => q \in bundled'
    BY <2>1, <2>2 DEF IInv, FilesSound
  <2> HIDE DEF rec
  <2>6. FilesSound'
    BY <2>1, <2>2, <2>3, <2>4, <2>5, FilesChanged DEF IInv, FilesSound
  <2> QED
    BY <2>1, <2>6 DEF IInv, EventsSound, QueuesSound
<1>2. ASSUME NEW r \in Imported, ImportEvents(r)
      PROVE  IInv'
  <2> DEFINE n == importing[r] - 1
             log == [i \in 1..n |-> [seq |-> i, from |-> 0, to |-> 0]]
  <2>1. /\ lines' = [lines EXCEPT ![r] = log]
        /\ importing[r] > 0
        /\ importing' = [importing EXCEPT ![r] = 0]
        /\ UNCHANGED <<record, held, bundled, events, queue>>
    BY <1>2 DEF ImportEvents, tasks, buffers, history
  <2>2. r \in Runs
    BY LedgerAssumption
  <2>3. n \in Nat
    BY <2>1, <2>2 DEF IInv, FilesSound
  <2>4. SeqLike(log)
    <3> HIDE DEF n
    <3>1. DOMAIN log = 1..n /\ log = [i \in 1..n |-> log[i]]
      OBVIOUS
    <3> HIDE DEF log
    <3> QED
      BY <2>3, <3>1, FunctionLike
  <2>5. /\ importing' \in [Runs -> Nat]
        /\ \A q \in Runs : importing'[q] > 0 => q \in bundled'
    BY <2>1, <2>2 DEF IInv, FilesSound
  <2> HIDE DEF log
  <2>6. lines'[r] = log
    BY <2>1, <2>2 DEF IInv, FilesSound
  <2>7. Backed(r, record[r])' /\ Backed(r, held[r])'
    BY <2>1, <2>2 DEF IInv, FilesSound, Backed
  <2>8. FilesSound'
    BY <2>1, <2>2, <2>4, <2>5, <2>6, <2>7, FilesChanged DEF IInv, FilesSound
  <2> QED
    BY <2>1, <2>8 DEF IInv, EventsSound, QueuesSound
<1> QED
  BY <1>1, <1>2 DEF ImportStep

LEMMA CrashSound ==
    ASSUME IInv, Crash
    PROVE  IInv'
<1>1. /\ events' = [r \in Runs |-> <<>>]
      /\ queue' = [r \in Runs |-> <<>>]
      /\ held' = [r \in Runs |-> NoRecord]
      /\ importing' = [r \in Runs |-> 0]
      /\ UNCHANGED <<record, lines, bundled>>
  BY DEF Crash, files
<1>2. EventsSound' /\ QueuesSound'
  BY <1>1, EmptyLike DEF EventsSound, QueuesSound
<1>3. \A r \in Runs : Backed(r, NoRecord)'
  BY NoneBacked
<1>4. \A r \in Runs : Backed(r, record[r])'
  BY <1>1 DEF IInv, FilesSound, Backed, Seqs
<1>5. FilesSound'
  BY <1>1, <1>3, <1>4 DEF IInv, FilesSound
<1> QED
  BY <1>2, <1>5 DEF IInv

\* The steps of the writer and its callers leave the files alone.
LEMMA CallerSound ==
    ASSUME IInv, NEW r \in Runs, CallerStep(r) \/ WriterStep(r)
    PROVE  IInv'
<1>1. UNCHANGED <<record, lines, held, importing, bundled>>
  BY DEF CallerStep, WriterStep, AppendStream, AppendLog, Flush, CreateRun, DeleteRun,
         FlushTimer, Published, files, tasks, outside, history
<1>2. FilesSound'
  BY <1>1, FilesKept DEF IInv
<1>3. SeqLike(events[r])
  BY DEF IInv, EventsSound
<1>4. CASE \E kind \in StreamKinds, waits \in BOOLEAN : AppendStream(r, kind, waits)
  <2>1. PICK kind \in StreamKinds, waits \in BOOLEAN : AppendStream(r, kind, waits)
    BY <1>4
  <2>2. append(r, NewEvent(r, kind.type, kind.request), waits)
    BY <2>1 DEF AppendStream
  <2> QED
    BY <1>2, <2>2, AppendSound DEF IInv
<1>5. CASE \E waits \in BOOLEAN : AppendLog(r, waits)
  <2>1. PICK waits \in BOOLEAN : AppendLog(r, waits)
    BY <1>5
  <2>2. append(r, NewEvent(r, "log", 0), waits)
    BY <2>1 DEF AppendLog
  <2> QED
    BY <1>2, <2>2, AppendSound DEF IInv
<1>6. CASE Flush(r) \/ (FlushTimer(r) /\ flushing[r] = "none")
  <2>1. flushRun(r, events[r])
    BY <1>6 DEF Flush, FlushTimer
  <2> QED
    BY <1>2, <1>3, <2>1, FlushSound DEF IInv
<1>7. CASE CreateRun(r) \/ Published(r) \/ (FlushTimer(r) /\ flushing[r] # "none")
  <2>1. UNCHANGED <<events, queue>>
    BY <1>7 DEF CreateRun, Published, FlushTimer, tasks, buffers
  <2> QED
    BY <1>2, <2>1 DEF IInv, EventsSound, QueuesSound
<1>8. CASE DeleteRun(r)
  <2>1. Enqueue(r, "delete", <<>>) /\ UNCHANGED events
    BY <1>8 DEF DeleteRun, buffers
  <2>2. QueuesSound'
    BY <2>1, EmptyLike, EnqueueSound DEF IInv
  <2> QED
    BY <1>2, <2>1, <2>2 DEF IInv, EventsSound
<1> QED
  BY <1>4, <1>5, <1>6, <1>7, <1>8 DEF CallerStep, WriterStep

LEMMA RecoverNextSound ==
    ASSUME IInv, NEW r \in Runs, RecoverNext(r)
    PROVE  IInv'
<1>1. /\ Enqueue(r, "recover", <<>>)
      /\ UNCHANGED <<record, lines, held, importing, bundled, events>>
  BY DEF RecoverNext, files, outside, buffers, history
<1>2. QueuesSound'
  BY <1>1, EmptyLike, EnqueueSound DEF IInv
<1>3. FilesSound'
  BY <1>1, FilesKept DEF IInv
<1> QED
  BY <1>1, <1>2, <1>3 DEF IInv, EventsSound

-----------------------------------------------------------------------------
(* The theorem. *)

LEMMA InitSound == Init => IInv
<1> SUFFICES ASSUME Init
             PROVE  IInv
  OBVIOUS
<1>1. EventsSound /\ QueuesSound
  BY EmptyLike DEF Init, EventsSound, QueuesSound
<1>2. FilesSound
  BY EmptyLike, NoneBacked DEF Init, FilesSound
<1> QED
  BY <1>1, <1>2 DEF IInv

LEMMA NextSound == IInv /\ [Next]_vars => IInv'
<1> SUFFICES ASSUME IInv, [Next]_vars
             PROVE  IInv'
  OBVIOUS
<1>1. ASSUME NEW r \in Runs, TaskStep(r)
      PROVE  IInv'
  BY <1>1, ReadRecordSound, AppendLinesSound, WriteRecordSound, RemoveRunSound
     DEF TaskStep
<1>2. ASSUME NEW r \in Runs, WriterStep(r) \/ CallerStep(r)
      PROVE  IInv'
  BY <1>2, CallerSound
<1>3. ASSUME NEW r \in Runs, WriteNewRecord(r)
      PROVE  IInv'
  BY <1>3, WriteNewRecordSound
<1>4. ASSUME NEW r \in Runs, RecoverNext(r)
      PROVE  IInv'
  BY <1>4, RecoverNextSound
<1>5. ASSUME NEW r \in Runs, Fault(r)
      PROVE  IInv'
  BY <1>5, RejectSound DEF Fault
<1>6. CASE ListOrphans
  <2>1. UNCHANGED <<record, lines, held, importing, bundled, events, queue>>
    BY <1>6 DEF ListOrphans, files, tasks, buffers, outside, history
  <2> QED
    BY <2>1, FilesKept DEF IInv, EventsSound, QueuesSound
<1>7. CASE ImportStep
  BY <1>7, ImportSound
<1>8. CASE Crash
  BY <1>8, CrashSound
<1>9. CASE UNCHANGED vars
  <2>1. UNCHANGED <<record, lines, held, importing, bundled, events, queue>>
    BY <1>9 DEF vars, files, tasks, buffers, outside, history
  <2> QED
    BY <2>1, FilesKept DEF IInv, EventsSound, QueuesSound
<1> QED
  BY <1>1, <1>2, <1>3, <1>4, <1>5, <1>6, <1>7, <1>8, <1>9 DEF Next

\* Wherever the process dies, whatever file operation fails and however creations
\* overlap, a record counts no event its log lacks: `appendEvents' appends the
\* lines before it writes the record, and no write outside the queue shrinks a log.
THEOREM LedgerCountedIsLogged == Spec => []CountedIsLogged
<1>1. IInv => CountedIsLogged
  BY DEF IInv, FilesSound, Backed, CountedIsLogged
<1> QED
  BY <1>1, InitSound, NextSound, PTL DEF Spec
-----------------------------------------------------------------------------
(* The numbering of an undisturbed log: what the running task holds.  Each   *)
(* part is about one run, and a run that is harmed is out of it for good.    *)

NumberedPart(r) ==
    /\ \A i \in DOMAIN lines[r] : lines[r][i].seq = i
    /\ step[r] # "appended" => record[r].count = Len(lines[r])
    /\ step[r] = "appended" => held[r].count = Len(lines[r])
    /\ step[r] = "read" => held[r].count = record[r].count
    /\ step[r] # "start" => Present(r) /\ queue[r] # <<>>

NInv ==
    /\ DOMAIN step = Runs
    /\ \A r \in Runs :
          /\ importing[r] > 0 => r \in harmed
          /\ r \notin harmed => NumberedPart(r)

\* A step that leaves one run's files, task and import alone.
LEMMA NumberedKept ==
    ASSUME NEW r, r \in harmed \/ NumberedPart(r), harmed \subseteq harmed',
           record'[r] = record[r], lines'[r] = lines[r], held'[r] = held[r],
           step'[r] = step[r], step[r] # "start" => queue'[r] # <<>>
    PROVE  r \notin harmed' => NumberedPart(r)'
  BY DEF NumberedPart, Present

\* A queue that grows is not empty, and the other queues are as they were.
LEMMA EnqueueKeeps ==
    ASSUME QueuesSound, NEW r \in Runs, NEW op, NEW batch, Enqueue(r, op, batch),
           NEW q \in Runs, queue[q] # <<>>
    PROVE  queue'[q] # <<>>
<1>1. CASE q # r
  BY <1>1 DEF Enqueue, QueuesSound
<1>2. CASE q = r
  <2>1. queue'[q] = Append(queue[r], [op |-> op, batch |-> batch])
    BY <1>2 DEF Enqueue, QueuesSound
  <2>2. Len(queue'[q]) = Len(queue[r]) + 1 /\ Len(queue[r]) \in Nat
    BY <2>1, AppendLike DEF QueuesSound
  <2>3. Len(<<>>) = 0
    OBVIOUS
  <2> QED
    BY <2>2, <2>3
<1> QED
  BY <1>1, <1>2

LEMMA NumberedRead ==
    ASSUME IInv, NInv, NEW r \in Runs, ReadRecord(r)
    PROVE  NInv'
<1>1. CASE Present(r)
  <2>1. /\ held' = [held EXCEPT ![r] = record[r]]
        /\ step' = [step EXCEPT ![r] = "read"]
        /\ step[r] = "start" /\ queue[r] # <<>>
        /\ UNCHANGED <<record, lines, importing, harmed, queue>>
    BY <1>1 DEF ReadRecord, Running, files, outside, history
  <2>2. DOMAIN step' = Runs /\ step'[r] = "read" /\ held'[r] = record[r]
    BY <2>1 DEF NInv, IInv, FilesSound
  <2>3. r \notin harmed => NumberedPart(r)'
    BY <1>1, <2>1, <2>2 DEF NInv, NumberedPart, Present
  <2>4. ASSUME NEW q \in Runs, q # r
        PROVE  q \notin harmed' => NumberedPart(q)'
    BY <2>1, <2>4, NumberedKept DEF NInv, NumberedPart
  <2> QED
    BY <2>1, <2>2, <2>3, <2>4 DEF NInv
<1>2. CASE ~Present(r)
  <2>1. /\ queue' = [queue EXCEPT ![r] = Tail(queue[r])]
        /\ step' = [step EXCEPT ![r] = "start"]
        /\ held' = [held EXCEPT ![r] = NoRecord]
        /\ harmed' = harmed \cup {r}
        /\ UNCHANGED <<record, lines, importing>>
    BY <1>2 DEF ReadRecord, RejectTask, EndTask, files, outside
  <2>2. ASSUME NEW q \in Runs, q # r
        PROVE  q \notin harmed' => NumberedPart(q)'
    BY <2>1, <2>2, NumberedKept DEF NInv, NumberedPart, IInv, FilesSound, QueuesSound
  <2> QED
    BY <2>1, <2>2 DEF NInv
<1> QED
  BY <1>1, <1>2

LEMMA NumberedReject ==
    ASSUME IInv, NInv, NEW r \in Runs, RejectTask(r) \/ RemoveRun(r)
    PROVE  NInv'
<1>1. /\ queue' = [queue EXCEPT ![r] = Tail(queue[r])]
      /\ step' = [step EXCEPT ![r] = "start"]
      /\ held' = [held EXCEPT ![r] = NoRecord]
      /\ harmed' = harmed \cup {r}
      /\ \A q \in Runs \ {r} : record'[q] = record[q] /\ lines'[q] = lines[q]
      /\ UNCHANGED importing
  BY DEF RejectTask, RemoveRun, EndTask, files, outside, IInv, FilesSound
<1>2. ASSUME NEW q \in Runs, q # r
      PROVE  q \notin harmed' => NumberedPart(q)'
  BY <1>1, <1>2, NumberedKept DEF NInv, NumberedPart, IInv, FilesSound, QueuesSound
<1> QED
  BY <1>1, <1>2 DEF NInv

\* The lines are numbered on from the count that was read, the log's length.
LEMMA NumberedAppend ==
    ASSUME IInv, NInv, NEW r \in Runs, AppendLines(r)
    PROVE  NInv'
<1> DEFINE batch == Head(queue[r]).batch
           added == Numbered(held[r], batch)
<1>1. /\ lines' = [lines EXCEPT ![r] = lines[r] \o added]
      /\ held' = [held EXCEPT ![r] = patched(held[r], batch)]
      /\ step' = [step EXCEPT ![r] = "appended"]
      /\ step[r] = "read" /\ queue[r] # <<>>
      /\ UNCHANGED <<record, importing, harmed, queue>>
  BY DEF AppendLines, Running, buffers, outside, history
<1>2. SeqLike(batch)
  <2>1. Head(queue[r]) = queue[r][1] /\ 1 \in 1..Len(queue[r])
    BY <1>1, TailLike DEF IInv, QueuesSound
  <2> QED
    BY <2>1 DEF IInv, QueuesSound
<1>3. Len(batch) \in Nat /\ DOMAIN batch = 1..Len(batch)
  BY <1>2, ConcatLike
<1>4. held[r].count \in Nat
  BY DEF IInv, FilesSound, Backed
<1>5. /\ SeqLike(added)
      /\ Len(added) = Len(batch)
      /\ \A i \in 1..Len(batch) : added[i].seq = held[r].count + i
  <2> HIDE DEF batch
  <2>1. DOMAIN added = 1..Len(batch) /\ added = [i \in 1..Len(batch) |-> added[i]]
    BY <1>3 DEF Numbered
  <2>2. \A i \in 1..Len(batch) : added[i].seq = held[r].count + i
    BY <1>3 DEF Numbered, NextSeq
  <2> HIDE DEF added
  <2> QED
    BY <1>3, <2>1, <2>2, FunctionLike
<1>6. /\ lines'[r] = lines[r] \o added
      /\ held'[r].count = held[r].count + Len(batch)
      /\ step'[r] = "appended"
  BY <1>1 DEF IInv, FilesSound, NInv, patched, Counted
<1> HIDE DEF added, batch
<1>7. /\ Len(lines[r]) \in Nat
      /\ DOMAIN lines[r] = 1..Len(lines[r])
      /\ SeqLike(lines'[r])
      /\ DOMAIN lines'[r] = 1..(Len(lines[r]) + Len(batch))
      /\ \A i \in 1..Len(lines[r]) : lines'[r][i] = lines[r][i]
      /\ \A i \in 1..Len(batch) : lines'[r][Len(lines[r]) + i] = added[i]
      /\ Len(lines'[r]) = Len(lines[r]) + Len(batch)
  <2>1. SeqLike(lines[r])
    BY DEF IInv, FilesSound
  <2>2. /\ SeqLike(lines[r] \o added)
        /\ Len(lines[r]) \in Nat
        /\ DOMAIN lines[r] = 1..Len(lines[r])
        /\ DOMAIN (lines[r] \o added) = 1..(Len(lines[r]) + Len(added))
        /\ Len(lines[r] \o added) = Len(lines[r]) + Len(added)
        /\ \A i \in 1..Len(lines[r]) : (lines[r] \o added)[i] = lines[r][i]
        /\ \A i \in 1..Len(added) : (lines[r] \o added)[Len(lines[r]) + i] = added[i]
    BY <1>5, <2>1, ConcatLike
  <2> QED
    BY <1>5, <1>6, <2>2
<1>9. ASSUME r \notin harmed
      PROVE  NumberedPart(r)'
  <2>1. /\ held[r].count = Len(lines[r])
        /\ \A i \in 1..Len(lines[r]) : lines[r][i].seq = i
        /\ Present(r)
    BY <1>1, <1>7, <1>9 DEF NInv, NumberedPart
  <2>2. ASSUME NEW i \in DOMAIN lines'[r]
        PROVE  lines'[r][i].seq = i
    <3>1. CASE i \in 1..Len(lines[r])
      BY <1>7, <2>1, <3>1
    <3>2. CASE i \notin 1..Len(lines[r])
      <4>1. i - Len(lines[r]) \in 1..Len(batch)
        BY <1>3, <1>7, <3>2
      <4>2. i = Len(lines[r]) + (i - Len(lines[r]))
        BY <1>7
      <4>3. lines'[r][i] = added[i - Len(lines[r])]
        BY <1>7, <4>1, <4>2
      <4> QED
        BY <1>5, <2>1, <4>1, <4>2, <4>3
    <3> QED
      BY <3>1, <3>2
  <2> QED
    BY <1>1, <1>6, <1>7, <2>1, <2>2 DEF NumberedPart, Present
<1>10. ASSUME NEW q \in Runs, q # r
       PROVE  q \notin harmed' => NumberedPart(q)'
  BY <1>1, <1>10, NumberedKept DEF NInv, NumberedPart, IInv, FilesSound, QueuesSound
<1> QED
  BY <1>1, <1>9, <1>10 DEF NInv

LEMMA NumberedWrite ==
    ASSUME IInv, NInv, NEW r \in Runs, WriteRecord(r) \/ Recovered(r)
    PROVE  NInv'
<1>1. /\ queue' = [queue EXCEPT ![r] = Tail(queue[r])]
      /\ step' = [step EXCEPT ![r] = "start"]
      /\ held' = [held EXCEPT ![r] = NoRecord]
      /\ WriteRecord(r) => step[r] = "appended"
      /\ Recovered(r) => step[r] = "read"
      /\ UNCHANGED <<lines, importing, harmed>>
  BY DEF WriteRecord, Recovered, EndTask, outside, history
<1>2. PICK rec \in {held[r], [held[r] EXCEPT !.status = "failed"]} :
        rec.count = held[r].count /\ record' = [record EXCEPT ![r] = rec]
  <2>1. [held[r] EXCEPT !.status = "failed"].count = held[r].count
    OBVIOUS
  <2> QED
    BY <2>1 DEF WriteRecord, Recovered
<1>3. record'[r].count = held[r].count /\ step'[r] = "start"
  BY <1>1, <1>2 DEF NInv, IInv, FilesSound
<1>4. r \notin harmed => NumberedPart(r)'
  BY <1>1, <1>3 DEF NInv, NumberedPart
<1>5. ASSUME NEW q \in Runs, q # r
      PROVE  q \notin harmed' => NumberedPart(q)'
  BY <1>1, <1>2, <1>5, NumberedKept DEF NInv, NumberedPart, IInv, FilesSound, QueuesSound
<1> QED
  BY <1>1, <1>4, <1>5 DEF NInv

\* A creation that finds a record or a log of the run harms it.
LEMMA NumberedCreate ==
    ASSUME IInv, NInv, NEW r \in Runs, WriteNewRecord(r)
    PROVE  NInv'
<1>1. /\ record' = [record EXCEPT ![r] = [status |-> "queued", count |-> 0]]
      /\ lines' = [lines EXCEPT ![r] = lines[r]]
      /\ harmed' = IF Present(r) \/ lines[r] # <<>> THEN harmed \cup {r} ELSE harmed
      /\ UNCHANGED <<queue, step, held, importing>>
  BY DEF WriteNewRecord, KeptLines, tasks
<1>2. /\ record'[r] = [status |-> "queued", count |-> 0]
      /\ \A q \in Runs : lines'[q] = lines[q]
      /\ \A q \in Runs : q # r => record'[q] = record[q]
  BY <1>1 DEF IInv, FilesSound
<1>3. r \notin harmed' => NumberedPart(r)'
  <2> SUFFICES ASSUME r \notin harmed'
               PROVE  NumberedPart(r)'
    OBVIOUS
  <2>1. ~Present(r) /\ lines[r] = <<>> /\ r \notin harmed
    BY <1>1
  <2>2. Len(<<>>) = 0
    OBVIOUS
  <2> QED
    BY <1>1, <1>2, <2>1, <2>2 DEF NInv, NumberedPart
<1>4. ASSUME NEW q \in Runs, q # r
      PROVE  q \notin harmed' => NumberedPart(q)'
  BY <1>1, <1>2, <1>4, NumberedKept DEF NInv, NumberedPart
<1> QED
  BY <1>1, <1>3, <1>4 DEF NInv

LEMMA NumberedImport ==
    ASSUME IInv, NInv, ImportStep
    PROVE  NInv'
<1>1. PICK r \in Imported :
        (\E status \in {"running", "completed"} : ImportRecord(r, status, 1)) \/ ImportEvents(r)
  BY DEF ImportStep
<1>2. r \in Runs
  BY LedgerAssumption
<1>3. /\ r \in harmed'
      /\ harmed \subseteq harmed'
      /\ \A q \in Runs \ {r} : /\ record'[q] = record[q]
                              /\ lines'[q] = lines[q]
                              /\ importing'[q] = importing[q]
      /\ UNCHANGED <<queue, step, held>>
  BY <1>1, <1>2 DEF ImportRecord, ImportEvents, tasks, history, NInv, IInv, FilesSound
<1>4. ASSUME NEW q \in Runs, q # r
      PROVE  q \notin harmed' => NumberedPart(q)'
  BY <1>3, <1>4, NumberedKept DEF NInv, NumberedPart
<1> QED
  BY <1>3, <1>4 DEF NInv

LEMMA NumberedCrash ==
    ASSUME IInv, NInv, Crash
    PROVE  NInv'
<1>1. /\ harmed' = harmed \cup
            {r \in Runs : events[r] # <<>> \/ queue[r] # <<>> \/ importing[r] > 0}
      /\ step' = [r \in Runs |-> "start"]
      /\ importing' = [r \in Runs |-> 0]
      /\ UNCHANGED <<record, lines>>
  BY DEF Crash, files
<1>2. ASSUME NEW q \in Runs, q \notin harmed'
      PROVE  NumberedPart(q)'
  <2>1. q \notin harmed /\ queue[q] = <<>>
    BY <1>1, <1>2
  <2>2. step[q] = "start"
    BY <2>1 DEF NInv, NumberedPart
  <2> QED
    BY <1>1, <2>1, <2>2 DEF NInv, NumberedPart
<1> QED
  BY <1>1, <1>2 DEF NInv

\* The writer and its callers only lengthen queues.
LEMMA NumberedQueued ==
    ASSUME IInv, NInv,
           UNCHANGED <<record, lines, held, step, importing, harmed>>,
           \A q \in Runs : queue[q] # <<>> => queue'[q] # <<>>
    PROVE  NInv'
<1>1. \A q \in Runs : q \notin harmed' => NumberedPart(q)'
  BY NumberedKept DEF NInv, NumberedPart
<1> QED
  BY <1>1 DEF NInv

LEMMA FlushKeeps ==
    ASSUME QueuesSound, NEW r \in Runs, NEW es, flushRun(r, es), NEW q \in Runs,
           queue[q] # <<>>
    PROVE  queue'[q] # <<>>
  BY EnqueueKeeps DEF flushRun

LEMMA NumberedCaller ==
    ASSUME IInv, NInv, NEW r \in Runs, CallerStep(r) \/ WriterStep(r)
    PROVE  NInv'
<1>1. UNCHANGED <<record, lines, held, step, importing, harmed>>
  BY DEF CallerStep, WriterStep, AppendStream, AppendLog, Flush, CreateRun, DeleteRun,
         FlushTimer, Published, files, tasks, outside, history
<1>2. ASSUME NEW q \in Runs, queue[q] # <<>>
      PROVE  queue'[q] # <<>>
  <2>1. QueuesSound
    BY DEF IInv
  <2>2. \/ UNCHANGED queue
        \/ \E op, batch : Enqueue(r, op, batch)
        \/ \E es : flushRun(r, es)
    BY DEF CallerStep, WriterStep, AppendStream, AppendLog, Flush, CreateRun, DeleteRun,
           FlushTimer, Published, append, tasks
  <2> QED
    BY <1>2, <2>1, <2>2, EnqueueKeeps, FlushKeeps
<1> QED
  BY <1>1, <1>2, NumberedQueued

LEMMA NumberedStep == IInv /\ NInv /\ [Next]_vars => NInv'
<1> SUFFICES ASSUME IInv, NInv, [Next]_vars
             PROVE  NInv'
  OBVIOUS
<1>1. ASSUME NEW r \in Runs, TaskStep(r)
      PROVE  NInv'
  BY <1>1, NumberedRead, NumberedAppend, NumberedWrite, NumberedReject DEF TaskStep
<1>2. ASSUME NEW r \in Runs, WriterStep(r) \/ CallerStep(r)
      PROVE  NInv'
  BY <1>2, NumberedCaller
<1>3. ASSUME NEW r \in Runs, WriteNewRecord(r)
      PROVE  NInv'
  BY <1>3, NumberedCreate
<1>4. ASSUME NEW r \in Runs, RecoverNext(r)
      PROVE  NInv'
  <2>1. /\ Enqueue(r, "recover", <<>>)
        /\ UNCHANGED <<record, lines, held, step, importing, harmed>>
    BY <1>4 DEF RecoverNext, files, outside, history
  <2> QED
    BY <2>1, EnqueueKeeps, NumberedQueued DEF IInv
<1>5. ASSUME NEW r \in Runs, Fault(r)
      PROVE  NInv'
  BY <1>5, NumberedReject DEF Fault
<1>6. CASE ListOrphans \/ UNCHANGED vars
  <2>1. UNCHANGED <<record, lines, held, step, importing, harmed, queue>>
    BY <1>6 DEF ListOrphans, vars, files, tasks, outside, history
  <2> QED
    BY <2>1, NumberedQueued
<1>7. CASE ImportStep
  BY <1>7, NumberedImport
<1>8. CASE Crash
  BY <1>8, NumberedCrash
<1> QED
  BY <1>1, <1>2, <1>3, <1>4, <1>5, <1>6, <1>7, <1>8 DEF Next

LEMMA NumberedInit == Init => NInv
<1> SUFFICES ASSUME Init
             PROVE  NInv
  OBVIOUS
<1>1. Len(<<>>) = 0 /\ DOMAIN <<>> = {} /\ NoRecord.count = 0
  BY DEF NoRecord
<1> QED
  BY <1>1 DEF Init, NInv, NumberedPart

\* However a run's stream, its log events, its timers, the crashes of others and the
\* recovery interleave, `appendEvents' numbers an undisturbed log 1, 2, 3, ... and
\* the record it leaves counts every line.
THEOREM LedgerNumberedInOrder == Spec => []NumberedInOrder
<1>1. NInv => NumberedInOrder
  BY DEF NInv, NumberedPart, NumberedInOrder
<1> QED
  BY <1>1, InitSound, NextSound, NumberedInit, NumberedStep, PTL DEF Spec
-----------------------------------------------------------------------------
(* Counting the members of a set of numbers.                                *)

\* A nonempty set of naturals has a least element.
LEMMA LeastNatural ==
    ASSUME NEW T, T \subseteq Nat, T # {}
    PROVE  \E x \in T : \A y \in T : x <= y
<1> DEFINE R == OpToRel(<, Nat)
<1>1. IsWellFoundedOn(R, Nat)
  BY NatLessThanWellFounded
<1>2. \A x, y \in Nat : y < x => <<y, x>> \in R
  BY DEF OpToRel
<1> HIDE DEF R
<1>3. PICK x \in T : \A y \in T : <<y, x>> \notin R
  BY <1>1, WFMin
<1>4. ASSUME NEW y \in T
      PROVE  x <= y
  <2>1. x \in Nat /\ y \in Nat /\ ~(y < x)
    BY <1>2, <1>3
  <2> QED
    BY <2>1
<1> QED
  BY <1>4

\* A nonempty set of numbers up to n has a greatest element.
LEMMA GreatestNatural ==
    ASSUME NEW n \in Nat, NEW T, T \subseteq 1..n, T # {}
    PROVE  \E x \in T : \A y \in T : y <= x
<1> DEFINE U == {k \in Nat : \A y \in T : y <= k}
<1>1. n \in U
  OBVIOUS
<1>2. PICK k \in U : \A m \in U : k <= m
  BY <1>1, LeastNatural
<1>3. CASE k \in T
  BY <1>2, <1>3
<1>4. CASE k \notin T
  <2>1. k # 0
    <3>1. PICK y \in T : y \in 1..n /\ y <= k
      BY <1>2
    <3> QED
      BY <3>1
  <2>2. k - 1 \in Nat /\ ~(k <= k - 1)
    BY <1>2, <2>1
  <2>3. \A y \in T : y <= k - 1
    BY <1>2, <1>4, <2>1
  <2>4. k - 1 \in U
    BY <2>2, <2>3
  <2> QED
    BY <1>2, <2>2, <2>4
<1> QED
  BY <1>3, <1>4

Below(T, i) == Cardinality({j \in T : j < i})

\* Counting the members below a place: nothing below the first, one more after
\* each member, all of them past the end.
LEMMA BelowSteps ==
    ASSUME NEW n \in Nat, NEW T, T \subseteq 1..n
    PROVE  /\ IsFiniteSet(T) /\ Cardinality(T) \in Nat
           /\ Below(T, 1) = 0
           /\ Below(T, n + 1) = Cardinality(T)
           /\ \A i \in Nat : /\ Below(T, i) \in Nat
                            /\ Below(T, i) <= Cardinality(T)
                            /\ Below(T, i + 1) = IF i \in T THEN Below(T, i) + 1 ELSE Below(T, i)
<1>0. IsFiniteSet(1..n) /\ \A j \in T : j \in Nat /\ 1 <= j /\ j <= n
  BY FS_Interval
<1>1. IsFiniteSet(T)
  BY <1>0, FS_Subset
<1>2. Cardinality(T) \in Nat
  BY <1>1, FS_CardinalityType
<1>3. {j \in T : j < 1} = {} /\ {j \in T : j < n + 1} = T
  <2>1. \A j \in T : ~(j < 1) /\ j < n + 1
    BY <1>0
  <2> QED
    BY <2>1
<1>4. ASSUME NEW i \in Nat
      PROVE  /\ Below(T, i) \in Nat
             /\ Below(T, i) <= Cardinality(T)
             /\ Below(T, i + 1) = IF i \in T THEN Below(T, i) + 1 ELSE Below(T, i)
  <2> DEFINE B == {j \in T : j < i}
  <2>1. IsFiniteSet(B) /\ Cardinality(B) <= Cardinality(T)
    BY <1>1, FS_Subset
  <2>2. Cardinality(B) \in Nat
    BY <2>1, FS_CardinalityType
  <2>3. CASE i \in T
    <3>0. (\A j \in T : j < i + 1 <=> (j < i \/ j = i)) /\ ~(i < i)
      BY <1>0, <2>3
    <3>1. {j \in T : j < i + 1} = B \cup {i} /\ i \notin B
      BY <2>3, <3>0
    <3>2. Cardinality(B \cup {i}) = Cardinality(B) + 1
      BY <2>1, <3>1, FS_AddElement
    <3> QED
      BY <2>1, <2>2, <2>3, <3>1, <3>2 DEF Below
  <2>4. CASE i \notin T
    <3>0. \A j \in T : j < i + 1 <=> j < i
      BY <1>0, <2>4
    <3>1. {j \in T : j < i + 1} = B
      BY <3>0
    <3> QED
      BY <2>1, <2>2, <2>4, <3>1 DEF Below
  <2> QED
    BY <2>3, <2>4
<1> QED
  BY <1>1, <1>2, <1>3, <1>4, FS_EmptySet DEF Below

\* A set of numbers has a k-th member for each k up to its size.
LEMMA KthMember ==
    ASSUME NEW n \in Nat, NEW T, T \subseteq 1..n, NEW k \in 1..Cardinality(T)
    PROVE  \E i \in T : Below(T, i) = k - 1
<1> DEFINE U == {i \in Nat : Below(T, i) >= k}
<1>1. /\ Cardinality(T) \in Nat
      /\ Below(T, n + 1) = Cardinality(T)
      /\ Below(T, 1) = 0
      /\ \A i \in Nat : /\ Below(T, i) \in Nat
                       /\ Below(T, i) <= Cardinality(T)
                       /\ Below(T, i + 1) = IF i \in T THEN Below(T, i) + 1 ELSE Below(T, i)
  BY BelowSteps
<1>2. n + 1 \in U
  BY <1>1
<1>3. PICK m \in U : \A i \in U : m <= i
  BY <1>2, LeastNatural
<1>4. m # 0
  <2>1. 0 \notin T
    OBVIOUS
  <2>2. Below(T, 0 + 1) = Below(T, 0)
    BY <1>1, <2>1
  <2>3. Below(T, 0) = 0
    BY <1>1, <2>2
  <2> QED
    BY <2>3
<1>5. m - 1 \in Nat /\ (m - 1) + 1 = m /\ ~(m <= m - 1)
  BY <1>3, <1>4
<1>6. Below(T, m - 1) < k
  BY <1>1, <1>3, <1>5
<1>7. Below(T, m) >= k
  BY <1>3
<1>8. Below(T, m) = IF m - 1 \in T THEN Below(T, m - 1) + 1 ELSE Below(T, m - 1)
  BY <1>1, <1>5
<1>9. m - 1 \in T /\ Below(T, m - 1) = k - 1
  BY <1>1, <1>5, <1>6, <1>7, <1>8
<1> QED
  BY <1>9

\* ... and only one; the members are counted in their order.
LEMMA BelowOrder ==
    ASSUME NEW n \in Nat, NEW T, T \subseteq 1..n, NEW i \in T, NEW j \in T, i < j
    PROVE  Below(T, i) < Below(T, j)
<1>0. i \in Nat /\ j \in Nat /\ \A x \in T : x \in Nat
  OBVIOUS
<1>1. {x \in T : x < i + 1} \subseteq {x \in T : x < j}
  <2>1. \A x \in T : x < i + 1 => x < j
    BY <1>0
  <2> QED
    BY <2>1
<1>2. IsFiniteSet({x \in T : x < j})
  BY BelowSteps, FS_Subset
<1>3. Below(T, i + 1) <= Below(T, j)
  BY <1>1, <1>2, FS_Subset DEF Below
<1>4. Below(T, i) \in Nat /\ Below(T, j) \in Nat /\ Below(T, i + 1) = Below(T, i) + 1
  BY <1>0, BelowSteps
<1> QED
  BY <1>3, <1>4

-----------------------------------------------------------------------------
(* Compaction: the starts of its stretches, in order.                       *)

Stretches(es, n, st) ==
    /\ st \in [1..n -> 1..Len(es)]
    /\ st[1] = 1
    /\ \A k \in 1..n : k # n => st[k] < st[k + 1]
    /\ \A k, l \in 1..n : k < l => st[k] < st[l]
    /\ compactBufferedEvents(es) =
          [k \in 1..n |-> Joined(es[st[k]],
              es[IF k = n THEN Len(es) ELSE st[k + 1] - 1])]

LEMMA CompactPlaces ==
    ASSUME NEW S, NEW es \in Seq(S), es # <<>>
    PROVE  \E n \in Nat \ {0} : \E st : Stretches(es, n, st)
<1> DEFINE starts == {i \in DOMAIN es :
                         i = 1 \/ ~isSameAssistantDeltaStream(es[i - 1], es[i])}
           n == Cardinality(starts)
           start(k) == CHOOSE i \in starts : Cardinality({j \in starts : j < i}) = k - 1
           st == [k \in 1..n |-> start(k)]
<1>1. Len(es) \in Nat \ {0} /\ DOMAIN es = 1..Len(es)
  OBVIOUS
<1>2. starts \subseteq 1..Len(es) /\ 1 \in starts
  BY <1>1
<1>3. n \in Nat /\ IsFiniteSet(starts)
  BY <1>1, <1>2, BelowSteps
<1>4. n # 0
  BY <1>2, <1>3, FS_EmptySet
<1>5. compactBufferedEvents(es) =
         [k \in 1..n |-> Joined(es[start(k)], es[IF k = n THEN Len(es) ELSE start(k + 1) - 1])]
  BY DEF compactBufferedEvents
<1> HIDE DEF starts
<1>6. ASSUME NEW k \in 1..n
      PROVE  start(k) \in starts /\ Below(starts, start(k)) = k - 1
  <2>1. \E i \in starts : Below(starts, i) = k - 1
    BY <1>1, <1>2, KthMember
  <2> QED
    BY <2>1 DEF Below
<1> HIDE DEF n, start
<1>7. st \in [1..n -> 1..Len(es)]
  BY <1>2, <1>6
<1>8. ASSUME NEW i \in starts, NEW j \in starts, Below(starts, i) < Below(starts, j)
      PROVE  i < j
  <2>1. i \in Nat /\ j \in Nat
    BY <1>1, <1>2
  <2>2. Below(starts, i) \in Nat /\ Below(starts, j) \in Nat
    BY <1>1, <1>2, <2>1, BelowSteps
  <2>3. j < i => Below(starts, j) < Below(starts, i)
    BY <1>1, <1>2, BelowOrder
  <2> QED
    BY <1>8, <2>1, <2>2, <2>3
<1>9. \A k \in 1..n : k # n => st[k] < st[k + 1]
  <2> SUFFICES ASSUME NEW k \in 1..n, k # n
               PROVE  st[k] < st[k + 1]
    OBVIOUS
  <2>1. k + 1 \in 1..n
    BY <1>3
  <2>2. /\ start(k) \in starts /\ Below(starts, start(k)) = k - 1
        /\ start(k + 1) \in starts /\ Below(starts, start(k + 1)) = (k + 1) - 1
    BY <1>6, <2>1
  <2>3. k - 1 < (k + 1) - 1
    BY <1>3
  <2>4. start(k) < start(k + 1)
    BY <1>8, <2>2, <2>3
  <2> QED
    BY <2>1, <2>4
<1>10. st[1] = 1
  <2>1. 1 \in 1..n
    BY <1>3, <1>4
  <2>2. start(1) \in starts /\ Below(starts, start(1)) = 0
    BY <1>6, <2>1
  <2>3. Below(starts, 1) = 0
    BY <1>1, <1>2, BelowSteps
  <2>4. 1 < start(1) => Below(starts, 1) < Below(starts, start(1))
    BY <1>1, <1>2, <2>2, BelowOrder
  <2>5. start(1) \in Nat /\ 1 <= start(1)
    <3>1. start(1) \in 1..Len(es)
      BY <1>2, <2>2
    <3> HIDE DEF start
    <3> QED
      BY <1>1, <3>1
  <2> QED
    BY <2>1, <2>2, <2>3, <2>4, <2>5
<1>11. compactBufferedEvents(es) =
         [k \in 1..n |-> Joined(es[st[k]], es[IF k = n THEN Len(es) ELSE st[k + 1] - 1])]
  <2>1. \A k \in 1..n : k # n => k + 1 \in 1..n
    BY <1>3
  <2> QED
    BY <1>5, <2>1
<1>12. \A k, l \in 1..n : k < l => st[k] < st[l]
  <2> SUFFICES ASSUME NEW k \in 1..n, NEW l \in 1..n, k < l
               PROVE  st[k] < st[l]
    OBVIOUS
  <2>1. /\ start(k) \in starts /\ Below(starts, start(k)) = k - 1
        /\ start(l) \in starts /\ Below(starts, start(l)) = l - 1
    BY <1>6
  <2>2. k - 1 < l - 1
    BY <1>3
  <2> QED
    BY <1>8, <2>1, <2>2
<1> QED
  <2>1. Stretches(es, n, st)
    BY <1>7, <1>9, <1>10, <1>11, <1>12 DEF Stretches
  <2> QED
    BY <1>3, <1>4, <2>1

\* Nothing compacts to nothing.
LEMMA CompactEmpty == compactBufferedEvents(<<>>) = <<>>
<1> DEFINE es == <<>>
           starts == {i \in DOMAIN es :
                        i = 1 \/ ~isSameAssistantDeltaStream(es[i - 1], es[i])}
           c == compactBufferedEvents(es)
<1>1. starts = {} /\ 1..0 = {}
  OBVIOUS
<1>2. Cardinality(starts) = 0
  BY <1>1, FS_EmptySet
<1> HIDE DEF starts
<1>3. DOMAIN c = 1..0 /\ c = [k \in 1..0 |-> c[k]]
  BY <1>1, <1>2 DEF compactBufferedEvents, starts
<1> HIDE DEF c
<1>4. c \in Seq({}) /\ Len(c) = 0
  BY <1>3
<1>5. c = <<>>
  BY <1>4
<1> QED
  BY <1>5 DEF c

\* Compaction makes events of events.
LEMMA CompactTyped ==
    ASSUME NEW es \in Seq(Event)
    PROVE  compactBufferedEvents(es) \in Seq(Event)
<1>1. CASE es = <<>>
  BY <1>1, CompactEmpty
<1>2. CASE es # <<>>
  <2>1. PICK n \in Nat \ {0} : \E st : Stretches(es, n, st)
    BY <1>2, CompactPlaces
  <2>2. PICK st : Stretches(es, n, st)
    BY <2>1
  <2> USE DEF Stretches
  <2>3. \A e, f \in Event : Joined(e, f) \in Event
    BY DEF Joined, Event
  <2>4. \A i \in 1..Len(es) : es[i] \in Event
    OBVIOUS
  <2>5. Len(es) \in 1..Len(es)
    BY <1>2
  <2>6. ASSUME NEW k \in 1..n, k # n
        PROVE  st[k + 1] - 1 \in 1..Len(es)
    <3>1. st[k] \in 1..Len(es) /\ st[k + 1] \in 1..Len(es) /\ st[k] < st[k + 1]
      BY <2>2, <2>6
    <3> QED
      BY <3>1
  <2>7. \A k \in 1..n : Joined(es[st[k]], es[IF k = n THEN Len(es) ELSE st[k + 1] - 1]) \in Event
    BY <2>2, <2>3, <2>4, <2>5, <2>6
  <2> QED
    BY <2>2, <2>7
<1> QED
  BY <1>1, <1>2

-----------------------------------------------------------------------------
(* Type correctness.                                                        *)

LEMMA AppendTyped ==
    ASSUME NEW S, NEW s \in Seq(S), NEW x \in S
    PROVE  Append(s, x) \in Seq(S)
  OBVIOUS

\* The record after a batch of events.
LEMMA PatchedTyped ==
    ASSUME NEW rec \in Record, NEW batch \in Seq(Event)
    PROVE  patched(rec, batch) \in Record
<1> DEFINE outcomes == {i \in DOMAIN batch : batch[i].type \in DOMAIN Outcome}
           last == CHOOSE i \in outcomes : \A j \in outcomes : j <= i
<1>1. Len(batch) \in Nat /\ DOMAIN batch = 1..Len(batch) /\ rec.count \in Nat
  BY DEF Record
<1>2. patched(rec, batch) =
        [status |-> IF outcomes = {} THEN rec.status ELSE Outcome[batch[last].type],
         count |-> rec.count + Len(batch)]
  BY DEF patched, Counted
<1>3. ASSUME outcomes # {}
      PROVE  Outcome[batch[last].type] \in {"running", "completed", "failed", "cancelled"}
  <2>1. \E i \in outcomes : \A j \in outcomes : j <= i
    BY <1>1, <1>3, GreatestNatural
  <2>2. last \in outcomes
    BY <2>1
  <2>3. batch[last].type \in DOMAIN Outcome
    BY <2>2
  <2> HIDE DEF last
  <2> QED
    BY <2>3 DEF Outcome
<1> HIDE DEF outcomes, last
<1>4. rec.status \in {"absent", "queued", "running", "completed", "failed", "cancelled"}
  BY DEF Record
<1> QED
  BY <1>1, <1>2, <1>3, <1>4 DEF Record

\* The lines of a batch.
LEMMA NumberedTyped ==
    ASSUME NEW rec \in Record, NEW batch \in Seq(Event)
    PROVE  Numbered(rec, batch) \in Seq(Line)
<1>1. Len(batch) \in Nat /\ DOMAIN batch = 1..Len(batch) /\ rec.count \in Nat
  BY DEF Record
<1>2. ASSUME NEW i \in 1..Len(batch)
      PROVE  [seq |-> rec.count + i, from |-> batch[i].from, to |-> batch[i].to] \in Line
  <2>1. batch[i] \in Event
    OBVIOUS
  <2>2. rec.count + i \in Nat \ {0}
    BY <1>1
  <2> QED
    BY <2>1, <2>2 DEF Event, Line
<1>3. Numbered(rec, batch) = [i \in 1..Len(batch) |->
         [seq |-> rec.count + i, from |-> batch[i].from, to |-> batch[i].to]]
  BY <1>1 DEF Numbered, NextSeq
<1> QED
  BY <1>1, <1>2, <1>3

LEMMA EmptyTyped == \A S : <<>> \in Seq(S)
  OBVIOUS

LEMMA EnqueueTyped ==
    ASSUME TypeOK, NEW r \in Runs, NEW op \in {"append", "recover", "delete"},
           NEW batch \in Seq(Event), Enqueue(r, op, batch)
    PROVE  queue' \in [Runs -> Seq(Task)]
<1>1. [op |-> op, batch |-> batch] \in Task
  BY DEF Task
<1>2. Append(queue[r], [op |-> op, batch |-> batch]) \in Seq(Task)
  BY <1>1, AppendTyped DEF TypeOK
<1> QED
  BY <1>2 DEF Enqueue, TypeOK

LEMMA EndTaskTyped ==
    ASSUME TypeOK, NEW r \in Runs, queue[r] # <<>>, EndTask(r)
    PROVE  /\ queue' \in [Runs -> Seq(Task)]
           /\ step' \in [Runs -> {"start", "read", "appended"}]
           /\ held' \in [Runs -> Record]
<1>1. Tail(queue[r]) \in Seq(Task)
  BY DEF TypeOK
<1>2. NoRecord \in Record
  BY DEF NoRecord, Record
<1> QED
  BY <1>1, <1>2 DEF EndTask, TypeOK

LEMMA FlushTyped ==
    ASSUME TypeOK, NEW r \in Runs, NEW es \in Seq(Event), flushRun(r, es)
    PROVE  /\ events' \in [Runs -> Seq(Event)]
           /\ timer' \in [Runs -> BOOLEAN]
           /\ flushing' \in [Runs -> {"none", "writing", "publishing"}]
           /\ queue' \in [Runs -> Seq(Task)]
<1>1. compactBufferedEvents(es) \in Seq(Event) /\ <<>> \in Seq(Event)
  BY CompactTyped
<1> HIDE DEF compactBufferedEvents
<1>2. CASE flushing[r] = "none"
  <2>1. queue' \in [Runs -> Seq(Task)]
    BY <1>1, <1>2, EnqueueTyped DEF flushRun
  <2> QED
    BY <1>1, <1>2, <2>1 DEF flushRun, TypeOK
<1>3. CASE flushing[r] # "none"
  BY <1>3 DEF flushRun, TypeOK
<1> QED
  BY <1>2, <1>3

LEMMA AppendCallTyped ==
    ASSUME TypeOK, NEW r \in Runs, NEW type \in EventTypes, NEW request \in Nat,
           NEW waits \in BOOLEAN, append(r, NewEvent(r, type, request), waits)
    PROVE  /\ events' \in [Runs -> Seq(Event)]
           /\ timer' \in [Runs -> BOOLEAN]
           /\ flushing' \in [Runs -> {"none", "writing", "publishing"}]
           /\ queue' \in [Runs -> Seq(Task)]
           /\ appended' \in [Runs -> Nat]
<1> DEFINE es == Append(events[r], NewEvent(r, type, request))
<1>1. NewEvent(r, type, request) \in Event
  BY DEF NewEvent, Event, TypeOK
<1>2. es \in Seq(Event)
  BY <1>1, AppendTyped DEF TypeOK
<1>3. appended' \in [Runs -> Nat]
  BY DEF append, TypeOK
<1>4. CASE waits
  <2>1. flushRun(r, es)
    BY <1>4 DEF append
  <2> QED
    BY <1>2, <1>3, <2>1, FlushTyped
<1>5. CASE ~waits
  <2>1. /\ events' = [events EXCEPT ![r] = es]
        /\ timer' = [timer EXCEPT ![r] = TRUE]
        /\ UNCHANGED <<flushing, queue>>
    BY <1>5 DEF append
  <2> HIDE DEF es
  <2> QED
    BY <1>2, <1>3, <2>1 DEF TypeOK
<1> QED
  BY <1>4, <1>5

LEMMA RejectTyped ==
    ASSUME TypeOK, NEW r \in Runs, queue[r] # <<>>, RejectTask(r),
           UNCHANGED bundled, faults' \in Nat, crashes' \in Nat
    PROVE  TypeOK'
<1>1. /\ queue' \in [Runs -> Seq(Task)]
      /\ step' \in [Runs -> {"start", "read", "appended"}]
      /\ held' \in [Runs -> Record]
  BY EndTaskTyped DEF RejectTask
<1>2. /\ timer' \in [Runs -> BOOLEAN]
      /\ flushing' \in [Runs -> {"none", "writing", "publishing"}]
      /\ awaiting' \in [Runs -> {"none", "event", "terminal"}]
      /\ returned' \subseteq Runs
      /\ ready' \in BOOLEAN /\ toRecover' \subseteq Runs
      /\ harmed' \subseteq Runs
  BY DEF RejectTask, SettleFlush, Rearmed, Running, boot, TypeOK
<1>3. UNCHANGED <<record, lines, creating, importing, events, live, appended, bundled>>
  BY DEF RejectTask, files, outside
<1> QED
  BY <1>1, <1>2, <1>3 DEF TypeOK

LEMMA TaskTyped ==
    ASSUME TypeOK, NEW r \in Runs, TaskStep(r)
    PROVE  TypeOK'
<1>1. CASE ReadRecord(r)
  <2>1. queue[r] # <<>>
    BY <1>1 DEF ReadRecord, Running
  <2>2. CASE Present(r)
    BY <1>1, <2>2 DEF ReadRecord, TypeOK, files, buffers, callers, boot, outside, history
  <2>3. CASE ~Present(r)
    <3>1. RejectTask(r) /\ UNCHANGED <<bundled, faults, crashes>>
      BY <1>1, <2>3 DEF ReadRecord
    <3>2. faults \in Nat /\ crashes \in Nat
      BY DEF TypeOK
    <3> QED
      BY <2>1, <3>1, <3>2, RejectTyped
  <2> QED
    BY <2>2, <2>3
<1>2. CASE AppendLines(r)
  <2> DEFINE batch == Head(queue[r]).batch
  <2>1. batch \in Seq(Event)
    <3>1. queue[r] # <<>> /\ queue[r] \in Seq(Task)
      BY <1>2 DEF AppendLines, Running, TypeOK
    <3>2. Head(queue[r]) \in Task
      BY <3>1
    <3> QED
      BY <3>2 DEF Task
  <2>2. held[r] \in Record /\ lines[r] \in Seq(Line)
    BY DEF TypeOK
  <2> HIDE DEF batch
  <2>3. patched(held[r], batch) \in Record /\ Numbered(held[r], batch) \in Seq(Line)
    BY <2>1, <2>2, PatchedTyped, NumberedTyped
  <2>4. lines[r] \o Numbered(held[r], batch) \in Seq(Line)
    BY <2>2, <2>3
  <2>5. /\ lines' = [lines EXCEPT ![r] = lines[r] \o Numbered(held[r], batch)]
        /\ held' = [held EXCEPT ![r] = patched(held[r], batch)]
        /\ step' = [step EXCEPT ![r] = "appended"]
        /\ UNCHANGED <<record, queue, buffers, callers, boot, outside, history>>
    BY <1>2 DEF AppendLines, batch
  <2> QED
    BY <2>3, <2>4, <2>5 DEF TypeOK, buffers, callers, boot, outside, history
<1>3. CASE WriteRecord(r) \/ Recovered(r)
  <2>1. queue[r] # <<>> /\ EndTask(r)
    BY <1>3 DEF WriteRecord, Recovered, Running
  <2>2. /\ queue' \in [Runs -> Seq(Task)]
        /\ step' \in [Runs -> {"start", "read", "appended"}]
        /\ held' \in [Runs -> Record]
    BY <2>1, EndTaskTyped
  <2>3. held[r] \in Record /\ [held[r] EXCEPT !.status = "failed"] \in Record
    BY DEF TypeOK, Record
  <2>4. record' \in [Runs -> Record]
    BY <1>3, <2>3 DEF WriteRecord, Recovered, TypeOK
  <2> QED
    BY <1>3, <2>2, <2>4
       DEF WriteRecord, Recovered, TypeOK, buffers, callers, boot, outside, history
<1>4. CASE RemoveRun(r)
  <2>1. queue[r] # <<>> /\ EndTask(r)
    BY <1>4 DEF RemoveRun, Running
  <2>2. /\ queue' \in [Runs -> Seq(Task)]
        /\ step' \in [Runs -> {"start", "read", "appended"}]
        /\ held' \in [Runs -> Record]
    BY <2>1, EndTaskTyped
  <2>3. NoRecord \in Record /\ <<>> \in Seq(Line)
    BY DEF NoRecord, Record
  <2> QED
    BY <1>4, <2>2, <2>3 DEF RemoveRun, TypeOK, buffers, callers, boot, outside
<1> QED
  BY <1>1, <1>2, <1>3, <1>4 DEF TaskStep

LEMMA CallerTyped ==
    ASSUME TypeOK, NEW r \in Runs, CallerStep(r) \/ WriterStep(r)
    PROVE  TypeOK'
<1>1. ASSUME NEW kind \in StreamKinds, NEW waits \in BOOLEAN, AppendStream(r, kind, waits)
      PROVE  TypeOK'
  <2>1. kind.type \in EventTypes /\ kind.request \in Nat
    BY LedgerAssumption
  <2>2. append(r, NewEvent(r, kind.type, kind.request), waits)
    BY <1>1 DEF AppendStream
  <2>3. /\ events' \in [Runs -> Seq(Event)]
        /\ timer' \in [Runs -> BOOLEAN]
        /\ flushing' \in [Runs -> {"none", "writing", "publishing"}]
        /\ queue' \in [Runs -> Seq(Task)]
        /\ appended' \in [Runs -> Nat]
    BY <2>1, <2>2, AppendCallTyped
  <2>4. /\ awaiting' \in [Runs -> {"none", "event", "terminal"}]
        /\ live' \subseteq Runs
    BY <1>1 DEF AppendStream, TypeOK
  <2> QED
    BY <1>1, <2>3, <2>4 DEF AppendStream, TypeOK, files, boot, outside, history
<1>2. ASSUME NEW waits \in BOOLEAN, AppendLog(r, waits)
      PROVE  TypeOK'
  <2>1. append(r, NewEvent(r, "log", 0), waits) /\ "log" \in EventTypes
    BY <1>2 DEF AppendLog, EventTypes
  <2>2. /\ events' \in [Runs -> Seq(Event)]
        /\ timer' \in [Runs -> BOOLEAN]
        /\ flushing' \in [Runs -> {"none", "writing", "publishing"}]
        /\ queue' \in [Runs -> Seq(Task)]
        /\ appended' \in [Runs -> Nat]
    BY <2>1, AppendCallTyped
  <2> QED
    BY <1>2, <2>2 DEF AppendLog, TypeOK, files, boot, outside, history
<1>3. CASE Flush(r) \/ FlushTimer(r)
  <2>1. UNCHANGED <<files, step, held, boot, outside, callers, history>>
    BY <1>3 DEF Flush, FlushTimer
  <2>2. CASE flushRun(r, events[r])
    <3>1. events[r] \in Seq(Event)
      BY DEF TypeOK
    <3>2. /\ events' \in [Runs -> Seq(Event)]
          /\ timer' \in [Runs -> BOOLEAN]
          /\ flushing' \in [Runs -> {"none", "writing", "publishing"}]
          /\ queue' \in [Runs -> Seq(Task)]
      BY <2>2, <3>1, FlushTyped
    <3> QED
      BY <2>1, <3>2 DEF TypeOK, files, boot, outside, callers, history
  <2>3. CASE timer' = [timer EXCEPT ![r] = FALSE] /\ UNCHANGED <<events, flushing, queue>>
    BY <2>1, <2>3 DEF TypeOK, files, boot, outside, callers, history
  <2> QED
    BY <1>3, <2>2, <2>3 DEF Flush, FlushTimer
<1>4. CASE Published(r)
  BY <1>4 DEF Published, SettleFlush, Rearmed, TypeOK, files, tasks, boot, outside, history
<1>5. CASE CreateRun(r)
  <2>1. creating' \in [Runs -> Nat] /\ live' \subseteq Runs /\ returned' \subseteq Runs
    <3>1. \/ live' = live \cup {r} /\ returned' = returned \ {r} /\ creating' = creating
          \/ /\ creating' = [creating EXCEPT ![r] = creating[r] + 1]
             /\ live' = live /\ returned' = returned
      BY <1>5 DEF CreateRun
    <3>2. creating \in [Runs -> Nat] /\ live \subseteq Runs /\ returned \subseteq Runs
      BY DEF TypeOK
    <3>3. [creating EXCEPT ![r] = creating[r] + 1] \in [Runs -> Nat]
      BY <3>2
    <3> QED
      BY <3>1, <3>2, <3>3
  <2> QED
    BY <1>5, <2>1 DEF CreateRun, TypeOK, files, tasks, buffers, boot, history
<1>6. CASE DeleteRun(r)
  <2>1. queue' \in [Runs -> Seq(Task)]
    <3>1. Enqueue(r, "delete", <<>>) /\ <<>> \in Seq(Event)
      BY <1>6, EmptyTyped DEF DeleteRun
    <3> QED
      BY <3>1, EnqueueTyped
  <2> QED
    BY <1>6, <2>1 DEF DeleteRun, TypeOK, files, buffers, callers, boot, outside, history
<1>7. CASE CallerStep(r)
  <2>1. \/ \E kind \in StreamKinds, waits \in BOOLEAN : AppendStream(r, kind, waits)
        \/ \E waits \in BOOLEAN : AppendLog(r, waits)
        \/ Flush(r) \/ CreateRun(r) \/ DeleteRun(r)
    BY <1>7 DEF CallerStep
  <2> QED
    BY <1>1, <1>2, <1>3, <1>5, <1>6, <2>1
<1>8. CASE WriterStep(r)
  BY <1>3, <1>4, <1>8 DEF WriterStep
<1> QED
  BY <1>7, <1>8

LEMMA OutsideTyped ==
    ASSUME TypeOK, ImportStep \/ \E r \in Runs : WriteNewRecord(r)
    PROVE  TypeOK'
<1>1. ASSUME NEW r \in Runs, WriteNewRecord(r)
      PROVE  TypeOK'
  <2>1. [status |-> "queued", count |-> 0] \in Record
    BY DEF Record
  <2>2. creating' \in [Runs -> Nat]
    BY <1>1 DEF WriteNewRecord, TypeOK
  <2> QED
    BY <1>1, <2>1, <2>2
       DEF WriteNewRecord, KeptLines, TypeOK, tasks, buffers, boot
<1>2. ASSUME NEW r \in Imported, NEW status \in {"running", "completed"},
             ImportRecord(r, status, 1)
      PROVE  TypeOK'
  <2>1. [status |-> status, count |-> 1] \in Record /\ r \in Runs
    BY LedgerAssumption DEF Record
  <2> QED
    BY <1>2, <2>1 DEF ImportRecord, TypeOK, tasks, buffers, callers, boot
<1>3. ASSUME NEW r \in Imported, ImportEvents(r)
      PROVE  TypeOK'
  <2> DEFINE n == importing[r] - 1
             log == [i \in 1..n |-> [seq |-> i, from |-> 0, to |-> 0]]
  <2>1. r \in Runs
    BY LedgerAssumption
  <2>2. n \in Nat
    BY <1>3, <2>1 DEF ImportEvents, TypeOK
  <2>3. log \in Seq(Line)
    <3> HIDE DEF n
    <3>1. \A i \in 1..n : [seq |-> i, from |-> 0, to |-> 0] \in Line
      BY <2>2 DEF Line
    <3> QED
      BY <2>2, <3>1
  <2> HIDE DEF log
  <2> QED
    BY <1>3, <2>1, <2>3
       DEF ImportEvents, TypeOK, tasks, buffers, callers, boot, history, log
<1> QED
  BY <1>1, <1>2, <1>3 DEF ImportStep

LEMMA TypeStep == TypeOK /\ [Next]_vars => TypeOK'
<1> SUFFICES ASSUME TypeOK, [Next]_vars
             PROVE  TypeOK'
  OBVIOUS
<1>1. ASSUME NEW r \in Runs, RecoverNext(r)
      PROVE  TypeOK'
  <2>1. queue' \in [Runs -> Seq(Task)]
    <3>1. Enqueue(r, "recover", <<>>) /\ <<>> \in Seq(Event)
      BY <1>1, EmptyTyped DEF RecoverNext
    <3> QED
      BY <3>1, EnqueueTyped
  <2> QED
    BY <1>1, <2>1 DEF RecoverNext, TypeOK, files, buffers, callers, boot, outside, history
<1>2. ASSUME NEW r \in Runs, Fault(r)
      PROVE  TypeOK'
  <2>1. faults' \in Nat /\ crashes' \in Nat
    BY <1>2 DEF Fault, TypeOK
  <2> QED
    BY <1>2, <2>1, RejectTyped DEF Fault
<1>3. CASE ListOrphans
  BY <1>3 DEF ListOrphans, TypeOK, files, tasks, buffers, callers, outside, history
<1>4. CASE Crash
  <2>1. NoRecord \in Record
    BY DEF NoRecord, Record
  <2>2. queue' \in [Runs -> Seq(Task)] /\ events' \in [Runs -> Seq(Event)]
    BY <1>4, EmptyTyped DEF Crash
  <2>3. held' \in [Runs -> Record] /\ step' \in [Runs -> {"start", "read", "appended"}]
    BY <1>4, <2>1 DEF Crash
  <2>4. crashes' \in Nat /\ harmed' \subseteq Runs
    BY <1>4 DEF Crash, TypeOK
  <2>5. /\ creating' \in [Runs -> Nat] /\ importing' \in [Runs -> Nat]
        /\ timer' \in [Runs -> BOOLEAN]
        /\ flushing' \in [Runs -> {"none", "writing", "publishing"}]
        /\ awaiting' \in [Runs -> {"none", "event", "terminal"}]
    BY <1>4 DEF Crash
  <2>6. /\ ready' = FALSE /\ toRecover' = {} /\ live' = {} /\ returned' = {}
        /\ UNCHANGED <<record, lines, appended, bundled, faults>>
    BY <1>4 DEF Crash, files
  <2> QED
    BY <2>2, <2>3, <2>4, <2>5, <2>6 DEF TypeOK
<1>5. CASE UNCHANGED vars
  BY <1>5 DEF vars, TypeOK, files, tasks, buffers, callers, boot, outside, history
<1> QED
  BY <1>1, <1>2, <1>3, <1>4, <1>5, TaskTyped, CallerTyped, OutsideTyped DEF Next

LEMMA TypeInit == Init => TypeOK
<1> SUFFICES ASSUME Init
             PROVE  TypeOK
  OBVIOUS
<1>1. NoRecord \in Record
  BY DEF NoRecord, Record
<1>2. /\ lines \in [Runs -> Seq(Line)]
      /\ queue \in [Runs -> Seq(Task)]
      /\ events \in [Runs -> Seq(Event)]
  BY EmptyTyped DEF Init
<1>3. record \in [Runs -> Record] /\ held \in [Runs -> Record]
  BY <1>1 DEF Init
<1> QED
  BY <1>2, <1>3 DEF Init, TypeOK

\* Every record, line, task, buffer and count stays of the type the repository
\* declares; compaction in `BufferedAgentRunEventWriter' makes events of events.
THEOREM LedgerTypeOK == Spec => []TypeOK
  BY TypeInit, TypeStep, PTL DEF Spec

-----------------------------------------------------------------------------
(* Nothing is lost.  A chain from a to b is a list of pieces that carry the *)
(* append calls a + 1 to b, in order and without overlap.                   *)

Chain(s, a, b) ==
    /\ s = <<>> => a = b
    /\ s # <<>> => s[Len(s)].to = b
    /\ \A i \in 1..Len(s) : s[i].from = (IF i = 1 THEN a ELSE s[i - 1].to) + 1

LEMMA ChainConcat ==
    ASSUME NEW s, NEW t, SeqLike(s), SeqLike(t), NEW a, NEW b, NEW c,
           Chain(s, a, b), Chain(t, b, c)
    PROVE  Chain(s \o t, a, c)
<1>1. /\ SeqLike(s \o t)
      /\ Len(s) \in Nat /\ Len(t) \in Nat
      /\ Len(s \o t) = Len(s) + Len(t)
      /\ \A i \in 1..Len(s) : (s \o t)[i] = s[i]
      /\ \A i \in 1..Len(t) : (s \o t)[Len(s) + i] = t[i]
  BY ConcatLike
<1>2. (s = <<>> <=> Len(s) = 0) /\ (t = <<>> <=> Len(t) = 0) /\ (s \o t = <<>> <=> Len(s \o t) = 0)
  <2>1. \A u : SeqLike(u) => (u = <<>> <=> Len(u) = 0)
    <3> SUFFICES ASSUME NEW u, NEW S, u \in Seq(S)
                 PROVE  u = <<>> <=> Len(u) = 0
      BY DEF SeqLike
    <3> QED
      OBVIOUS
  <2> QED
    BY <1>1, <2>1
<1>3. CASE Len(t) = 0
  <2>1. b = c /\ Len(s \o t) = Len(s)
    BY <1>1, <1>2, <1>3 DEF Chain
  <2>2. \A i \in 1..Len(s) : (s \o t)[i].from = (IF i = 1 THEN a ELSE (s \o t)[i - 1].to) + 1
    <3> SUFFICES ASSUME NEW i \in 1..Len(s)
                 PROVE  (s \o t)[i].from = (IF i = 1 THEN a ELSE (s \o t)[i - 1].to) + 1
      OBVIOUS
    <3>1. i # 1 => i - 1 \in 1..Len(s)
      BY <1>1
    <3> QED
      BY <1>1, <3>1 DEF Chain
  <2>3. s # <<>> => (s \o t)[Len(s)].to = b
    <3>1. s # <<>> => Len(s) \in 1..Len(s)
      BY <1>1, <1>2
    <3> QED
      BY <1>1, <3>1 DEF Chain
  <2> QED
    BY <1>1, <1>2, <2>1, <2>2, <2>3 DEF Chain
<1>4. CASE Len(t) # 0
  <2>1. (s \o t)[Len(s \o t)].to = c
    <3>1. Len(t) \in 1..Len(t)
      BY <1>1, <1>4
    <3>2. (s \o t)[Len(s) + Len(t)] = t[Len(t)]
      BY <1>1, <3>1
    <3> QED
      BY <1>1, <1>2, <1>4, <3>2 DEF Chain
  <2>2. ASSUME NEW i \in 1..(Len(s) + Len(t))
        PROVE  (s \o t)[i].from = (IF i = 1 THEN a ELSE (s \o t)[i - 1].to) + 1
    <3>1. CASE i <= Len(s)
      <4>1. i \in 1..Len(s) /\ (i # 1 => i - 1 \in 1..Len(s))
        BY <1>1, <3>1
      <4> QED
        BY <1>1, <4>1 DEF Chain
    <3>2. CASE i = Len(s) + 1
      <4>1. (s \o t)[i] = t[1] /\ t[1].from = b + 1
        <5>1. 1 \in 1..Len(t)
          BY <1>1, <1>4
        <5> QED
          BY <1>1, <3>2, <5>1 DEF Chain
      <4>2. CASE Len(s) = 0
        BY <1>2, <3>2, <4>1, <4>2 DEF Chain
      <4>3. CASE Len(s) # 0
        <5>1. Len(s) \in 1..Len(s) /\ i - 1 = Len(s) /\ i # 1
          BY <1>1, <3>2, <4>3
        <5> QED
          BY <1>1, <1>2, <4>1, <4>3, <5>1 DEF Chain
      <4> QED
        BY <4>2, <4>3
    <3>3. CASE i > Len(s) + 1
      <4> DEFINE j == i - Len(s)
      <4>1. /\ j \in 1..Len(t) /\ j # 1 /\ j - 1 \in 1..Len(t)
            /\ i = Len(s) + j /\ i - 1 = Len(s) + (j - 1) /\ i # 1
        BY <1>1, <3>3
      <4> HIDE DEF j
      <4>2. (s \o t)[i] = t[j] /\ (s \o t)[i - 1] = t[j - 1]
        BY <1>1, <4>1
      <4> QED
        BY <4>1, <4>2 DEF Chain
    <3> QED
      BY <1>1, <3>1, <3>2, <3>3
  <2> QED
    BY <1>1, <1>2, <1>4, <2>1, <2>2 DEF Chain
<1> QED
  BY <1>3, <1>4

\* One more append call.
LEMMA ChainAppend ==
    ASSUME NEW s, SeqLike(s), NEW e, NEW a, NEW b \in Nat, Chain(s, a, b),
           e.from = b + 1, e.to = b + 1
    PROVE  Chain(Append(s, e), a, b + 1)
<1>1. SeqLike(<<e>>) /\ Append(s, e) = s \o <<e>>
  <2>1. PICK S : s \in Seq(S)
    BY DEF SeqLike
  <2>2. s \in Seq(S \cup {e}) /\ <<e>> \in Seq(S \cup {e}) /\ e \in S \cup {e}
    BY <2>1
  <2>3. Append(s, e) = s \o <<e>>
    BY <2>2, AppendIsConcat
  <2> QED
    BY <2>2, <2>3 DEF SeqLike
<1>2. Chain(<<e>>, b, b + 1)
  <2>1. Len(<<e>>) = 1 /\ <<e>>[1] = e /\ <<e>> # <<>> /\ 1..1 = {1}
    OBVIOUS
  <2> QED
    BY <2>1 DEF Chain
<1> QED
  BY <1>1, <1>2, ChainConcat

\* Numbering keeps what the events carry.
LEMMA ChainNumbered ==
    ASSUME NEW rec, NEW batch \in Seq(Event), NEW a, NEW b, Chain(batch, a, b)
    PROVE  Chain(Numbered(rec, batch), a, b)
<1>1. Len(batch) \in Nat /\ DOMAIN batch = 1..Len(batch)
  OBVIOUS
<1>2. /\ DOMAIN Numbered(rec, batch) = 1..Len(batch)
      /\ Numbered(rec, batch) = [i \in 1..Len(batch) |-> Numbered(rec, batch)[i]]
      /\ \A i \in 1..Len(batch) : /\ Numbered(rec, batch)[i].from = batch[i].from
                                 /\ Numbered(rec, batch)[i].to = batch[i].to
  BY <1>1 DEF Numbered
<1>3. Len(Numbered(rec, batch)) = Len(batch) /\ SeqLike(Numbered(rec, batch))
  BY <1>1, <1>2, FunctionLike
<1>4. (batch = <<>> <=> Len(batch) = 0) /\ (Numbered(rec, batch) = <<>> <=> Len(batch) = 0)
  <2>1. \A u : SeqLike(u) => (u = <<>> <=> Len(u) = 0)
    <3> SUFFICES ASSUME NEW u, NEW S, u \in Seq(S)
                 PROVE  u = <<>> <=> Len(u) = 0
      BY DEF SeqLike
    <3> QED
      OBVIOUS
  <2> QED
    BY <1>3, <2>1
<1>5. Len(batch) # 0 => Len(batch) \in 1..Len(batch)
  BY <1>1
<1>6. \A i \in 1..Len(batch) : i # 1 => i - 1 \in 1..Len(batch)
  BY <1>1
<1> QED
  BY <1>2, <1>3, <1>4, <1>5, <1>6 DEF Chain

\* Compaction keeps what the events carry.
LEMMA ChainCompact ==
    ASSUME NEW es \in Seq(Event), NEW a, NEW b, Chain(es, a, b)
    PROVE  Chain(compactBufferedEvents(es), a, b)
<1> SUFFICES ASSUME es # <<>>
             PROVE  Chain(compactBufferedEvents(es), a, b)
  BY CompactEmpty
<1>1. PICK n \in Nat \ {0} : \E st : Stretches(es, n, st)
  BY CompactPlaces
<1>2. PICK st : Stretches(es, n, st)
  BY <1>1
<1> USE DEF Stretches
<1> DEFINE c == compactBufferedEvents(es)
           end(k) == IF k = n THEN Len(es) ELSE st[k + 1] - 1
<1>3. DOMAIN c = 1..n /\ c = [k \in 1..n |-> c[k]]
  BY <1>2
<1>4. Len(c) = n /\ SeqLike(c)
  BY <1>3, FunctionLike
<1>5. Len(es) \in Nat /\ Len(es) \in 1..Len(es) /\ \A i \in 1..Len(es) : es[i] \in Event
  OBVIOUS
<1>6. ASSUME NEW k \in 1..n
      PROVE  st[k] \in 1..Len(es) /\ end(k) \in 1..Len(es) /\ (k # n => st[k + 1] = end(k) + 1)
  <2>1. CASE k = n
    BY <1>2, <1>5, <2>1
  <2>2. CASE k # n
    <3>1. k + 1 \in 1..n
      BY <2>2
    <3>2. st[k] \in 1..Len(es) /\ st[k + 1] \in 1..Len(es) /\ st[k] < st[k + 1]
      BY <1>2, <2>2, <3>1
    <3> QED
      BY <2>2, <3>2
  <2> QED
    BY <2>1, <2>2
<1>7. ASSUME NEW k \in 1..n
      PROVE  c[k].from = es[st[k]].from /\ c[k].to = es[end(k)].to
  <2>1. c[k] = Joined(es[st[k]], es[end(k)])
    BY <1>2
  <2>2. es[st[k]] \in Event /\ es[end(k)] \in Event
    BY <1>5, <1>6
  <2>3. \A e, f \in Event : Joined(e, f).from = e.from /\ Joined(e, f).to = f.to
    BY DEF Joined, Event
  <2> QED
    BY <2>1, <2>2, <2>3
<1>8. c # <<>>
  BY <1>3
<1>9. c[n].to = b
  <2>1. n \in 1..n /\ end(n) = Len(es)
    OBVIOUS
  <2> QED
    BY <1>7, <2>1 DEF Chain
<1>10. ASSUME NEW k \in 1..n
       PROVE  c[k].from = (IF k = 1 THEN a ELSE c[k - 1].to) + 1
  <2>1. CASE k = 1
    BY <1>2, <1>5, <1>7, <2>1 DEF Chain
  <2>2. CASE k # 1
    <3>1. k - 1 \in 1..n /\ k - 1 # n /\ (k - 1) + 1 = k
      BY <2>2
    <3>2. st[k] = end(k - 1) + 1 /\ end(k - 1) \in 1..Len(es) /\ st[k] \in 1..Len(es)
      BY <1>6, <3>1
    <3> HIDE DEF end
    <3>3. st[k] # 1 /\ st[k] - 1 = end(k - 1)
      BY <3>2
    <3>4. es[st[k]].from = es[end(k - 1)].to + 1
      BY <3>2, <3>3 DEF Chain
    <3> QED
      BY <1>7, <2>2, <3>1, <3>4
  <2> QED
    BY <2>1, <2>2
<1> HIDE DEF c
<1>11. Chain(c, a, b)
  BY <1>4, <1>8, <1>9, <1>10 DEF Chain
<1> QED
  BY <1>11 DEF c

\* A run's file, its flush in the queue and its buffer carry the append calls up
\* to n; st is the step of the task that runs.
Carried(log, q, st, es, n) ==
    \E b, c \in Nat :
        /\ Chain(log, 0, b)
        /\ st = "appended" \/ Flushes(q) = {} => b = c
        /\ st # "appended" => \A i \in Flushes(q) : Chain(q[i].batch, b, c)
        /\ Chain(es, c, n)

\* fl is the state of the run's writer: one flush at a time.
OneFlush(q, fl, st) ==
    /\ fl = "writing" <=> Flushes(q) # {}
    /\ \A i, j \in Flushes(q) : i = j
    /\ st = "appended" => q # <<>> /\ q[1].op = "append"

LEMMA QueueGrows ==
    ASSUME NEW q \in Seq(Task), NEW task \in Task
    PROVE  /\ Len(q) \in Nat
           /\ \A i \in 1..Len(q) : Append(q, task)[i] = q[i]
           /\ Append(q, task)[Len(q) + 1] = task
           /\ Flushes(Append(q, task)) = IF task.op = "append" THEN Flushes(q) \cup {Len(q) + 1} ELSE Flushes(q)
           /\ Flushes(q) \subseteq 1..Len(q)
           /\ Append(q, task) # <<>>
           /\ q # <<>> => Append(q, task)[1] = q[1]
<1> DEFINE q2 == Append(q, task)
<1>1. /\ Len(q) \in Nat /\ DOMAIN q = 1..Len(q)
      /\ DOMAIN q2 = 1..(Len(q) + 1)
      /\ \A i \in 1..Len(q) : q2[i] = q[i]
      /\ q2[Len(q) + 1] = task
  OBVIOUS
<1> HIDE DEF q2
<1>2. q # <<>> => 1 \in 1..Len(q)
  OBVIOUS
<1>3. q2 # <<>>
  BY <1>1
<1>5. 1..(Len(q) + 1) = 1..Len(q) \cup {Len(q) + 1}
  BY <1>1
<1>6. Flushes(q2) = IF task.op = "append" THEN Flushes(q) \cup {Len(q) + 1} ELSE Flushes(q)
  BY <1>1, <1>5 DEF Flushes
<1> QED
  BY <1>1, <1>2, <1>3, <1>6 DEF Flushes, q2

\* A flush is queued only when none is.
LEMMA FlushOne ==
    ASSUME NEW q \in Seq(Task), NEW batch \in Seq(Event), NEW st, OneFlush(q, "none", st),
           NEW q2, q2 = Append(q, [op |-> "append", batch |-> batch])
    PROVE  /\ Flushes(q) = {} /\ st # "appended"
           /\ Flushes(q2) = {Len(q) + 1}
           /\ q2[Len(q) + 1].batch = batch
           /\ OneFlush(q2, "writing", st)
<1>1. Flushes(q) = {} /\ st # "appended"
  <2>1. Flushes(q) = {}
    BY DEF OneFlush
  <2>2. q # <<>> => 1 \in DOMAIN q
    OBVIOUS
  <2> QED
    BY <2>1, <2>2 DEF OneFlush, Flushes
<1>2. Flushes(q2) = {Len(q) + 1} /\ q2[Len(q) + 1].batch = batch
  <2> DEFINE task == [op |-> "append", batch |-> batch]
  <2>1. task \in Task /\ task.op = "append" /\ task.batch = batch
    BY DEF Task
  <2> HIDE DEF task
  <2>2. q2[Len(q) + 1] = task /\ Flushes(q2) = Flushes(q) \cup {Len(q) + 1}
    <3>1. q2 = Append(q, task)
      BY DEF task
    <3> QED
      BY <2>1, <3>1, QueueGrows
  <2> QED
    BY <1>1, <2>1, <2>2
<1> QED
  BY <1>1, <1>2 DEF OneFlush

\* A flush takes the buffer into the queue.
LEMMA FlushCarried ==
    ASSUME NEW q \in Seq(Task), NEW es \in Seq(Event), NEW n \in Nat, NEW st, NEW log,
           OneFlush(q, "none", st), Carried(log, q, st, es, n),
           NEW q2, q2 = Append(q, [op |-> "append", batch |-> compactBufferedEvents(es)])
    PROVE  OneFlush(q2, "writing", st) /\ Carried(log, q2, st, <<>>, n)
<1>1. compactBufferedEvents(es) \in Seq(Event)
  BY CompactTyped
<1>2. Flushes(q) = {} /\ st # "appended" /\ OneFlush(q2, "writing", st)
  BY <1>1, FlushOne
<1>3. Flushes(q2) = {Len(q) + 1} /\ q2[Len(q) + 1].batch = compactBufferedEvents(es)
  BY <1>1, FlushOne
<1>4. PICK b \in Nat : Chain(log, 0, b) /\ Chain(es, b, n)
  BY <1>2 DEF Carried
<1>5. Chain(compactBufferedEvents(es), b, n)
  BY <1>4, ChainCompact
<1>6. Chain(<<>>, n, n)
  <2>1. Len(<<>>) = 0 /\ 1..0 = {}
    OBVIOUS
  <2> QED
    BY <2>1 DEF Chain
<1>7. Carried(log, q2, st, <<>>, n)
  BY <1>2, <1>3, <1>4, <1>5, <1>6 DEF Carried
<1> QED
  BY <1>2, <1>7

\* A task of another kind joins the queue.
LEMMA EnqueueCarried ==
    ASSUME NEW q \in Seq(Task), NEW op \in {"recover", "delete"}, NEW q2,
           q2 = Append(q, [op |-> op, batch |-> <<>>]), NEW fl, NEW st, NEW log, NEW es,
           NEW n, OneFlush(q, fl, st)
    PROVE  /\ OneFlush(q2, fl, st)
           /\ Carried(log, q, st, es, n) => Carried(log, q2, st, es, n)
<1> DEFINE task == [op |-> op, batch |-> <<>>]
<1>1. task \in Task /\ task.op # "append"
  BY EmptyTyped DEF Task
<1>2. /\ \A i \in 1..Len(q) : q2[i] = q[i]
      /\ Flushes(q2) = Flushes(q)
      /\ Flushes(q) \subseteq 1..Len(q)
      /\ q2 # <<>>
      /\ q # <<>> => q2[1] = q[1]
  <2>1. q2 = Append(q, task)
    OBVIOUS
  <2> HIDE DEF task
  <2> QED
    BY <1>1, <2>1, QueueGrows
<1> QED
  BY <1>2 DEF OneFlush, Carried

\* The running task ends.
LEMMA EndCarried ==
    ASSUME NEW q \in Seq(Task), q # <<>>, NEW fl, NEW st, NEW log, NEW es, NEW n,
           OneFlush(q, fl, st)
    PROVE  /\ Head(q).op = "append" =>
                 /\ \A done : done # "writing" => OneFlush(Tail(q), done, "start")
                 /\ st = "appended" /\ Carried(log, q, st, es, n) =>
                       Carried(log, Tail(q), "start", es, n)
           /\ Head(q).op # "append" =>
                 /\ OneFlush(Tail(q), fl, "start")
                 /\ Carried(log, q, st, es, n) => Carried(log, Tail(q), "start", es, n)
<1>1. /\ Len(q) \in Nat \ {0} /\ DOMAIN q = 1..Len(q)
      /\ DOMAIN Tail(q) = 1..(Len(q) - 1)
      /\ \A i \in 1..(Len(q) - 1) : Tail(q)[i] = q[i + 1]
      /\ Head(q) = q[1]
  OBVIOUS
<1>2. \A i : i \in Flushes(Tail(q)) <=> i \in 1..(Len(q) - 1) /\ i + 1 \in Flushes(q)
  <2>1. \A i \in 1..(Len(q) - 1) : i + 1 \in DOMAIN q
    BY <1>1
  <2> QED
    BY <1>1, <2>1 DEF Flushes
<1>3. ASSUME Head(q).op = "append"
      PROVE  Flushes(Tail(q)) = {}
  <2>1. 1 \in Flushes(q)
    BY <1>1, <1>3 DEF Flushes
  <2>2. \A i \in 1..(Len(q) - 1) : i + 1 # 1
    BY <1>1
  <2> QED
    BY <1>2, <2>1, <2>2 DEF OneFlush
<1>4. ASSUME Head(q).op # "append"
      PROVE  /\ st # "appended"
             /\ Flushes(Tail(q)) = {} <=> Flushes(q) = {}
             /\ \A i \in Flushes(Tail(q)) : i + 1 \in Flushes(q) /\ Tail(q)[i] = q[i + 1]
             /\ \A i, j \in Flushes(Tail(q)) : i = j
  <2>1. st # "appended" /\ 1 \notin Flushes(q)
    BY <1>1, <1>4 DEF OneFlush, Flushes
  <2>2. ASSUME NEW k \in Flushes(q)
        PROVE  k - 1 \in Flushes(Tail(q))
    <3>1. k \in 1..Len(q) /\ k # 1
      BY <1>1, <2>1 DEF Flushes
    <3>2. k - 1 \in 1..(Len(q) - 1) /\ (k - 1) + 1 = k
      BY <1>1, <3>1
    <3> QED
      BY <1>2, <3>2
  <2>3. \A i \in Flushes(Tail(q)) :
            i \in Nat /\ i + 1 \in Flushes(q) /\ Tail(q)[i] = q[i + 1]
    BY <1>1, <1>2
  <2>4. \A i, j \in Flushes(Tail(q)) : i = j
    <3> SUFFICES ASSUME NEW i \in Flushes(Tail(q)), NEW j \in Flushes(Tail(q))
                 PROVE  i = j
      OBVIOUS
    <3>1. i + 1 = j + 1 /\ i \in Nat /\ j \in Nat
      BY <2>3 DEF OneFlush
    <3> QED
      BY <3>1
  <2> QED
    BY <2>1, <2>2, <2>3, <2>4
<1>5. Head(q).op = "append" => \A done : done # "writing" => OneFlush(Tail(q), done, "start")
  BY <1>3 DEF OneFlush
<1>6. ASSUME Head(q).op = "append", st = "appended", Carried(log, q, st, es, n)
      PROVE  Carried(log, Tail(q), "start", es, n)
  BY <1>3, <1>6 DEF Carried
<1>7. Head(q).op # "append" => OneFlush(Tail(q), fl, "start")
  BY <1>4 DEF OneFlush
<1>8. ASSUME Head(q).op # "append", Carried(log, q, st, es, n)
      PROVE  Carried(log, Tail(q), "start", es, n)
  BY <1>4, <1>8 DEF Carried
<1> QED
  BY <1>5, <1>6, <1>7, <1>8

\* The running flush puts its batch in the file.
LEMMA WrittenCarried ==
    ASSUME NEW q \in Seq(Task), q # <<>>, Head(q).op = "append", NEW fl, NEW rec,
           NEW log \in Seq(Line), NEW es, NEW n,
           OneFlush(q, fl, "read")
    PROVE  /\ OneFlush(q, fl, "appended")
           /\ Carried(log, q, "read", es, n) =>
                 Carried(log \o Numbered(rec, Head(q).batch), q, "appended", es, n)
<1>1. Head(q) = q[1] /\ 1 \in DOMAIN q /\ Head(q) \in Task
  OBVIOUS
<1>2. OneFlush(q, fl, "appended")
  BY <1>1 DEF OneFlush
<1>3. ASSUME Carried(log, q, "read", es, n)
      PROVE  Carried(log \o Numbered(rec, Head(q).batch), q, "appended", es, n)
  <2> DEFINE batch == Head(q).batch
  <2>1. 1 \in Flushes(q) /\ batch \in Seq(Event)
    BY <1>1 DEF Flushes, Task
  <2>2. PICK b, c \in Nat : Chain(log, 0, b) /\ Chain(batch, b, c) /\ Chain(es, c, n)
    BY <1>1, <1>3, <2>1 DEF Carried
  <2> HIDE DEF batch
  <2>3. Chain(Numbered(rec, batch), b, c)
    BY <2>1, <2>2, ChainNumbered
  <2>4. SeqLike(log) /\ SeqLike(Numbered(rec, batch))
    <3>1. Len(batch) \in Nat /\ DOMAIN batch = 1..Len(batch)
      BY <2>1
    <3>2. /\ DOMAIN Numbered(rec, batch) = 1..Len(batch)
          /\ Numbered(rec, batch) = [i \in 1..Len(batch) |-> Numbered(rec, batch)[i]]
      BY <3>1 DEF Numbered
    <3> QED
      BY <3>1, <3>2, FunctionLike DEF SeqLike
  <2>5. Chain(log \o Numbered(rec, batch), 0, c)
    BY <2>2, <2>3, <2>4, ChainConcat
  <2> QED
    BY <2>2, <2>5 DEF Carried, batch
<1> QED
  BY <1>2, <1>3

LInv ==
    \A r \in Runs :
        /\ OneFlush(queue[r], flushing[r], step[r])
        /\ r \notin harmed =>
              Carried(lines[r], queue[r], step[r], events[r], appended[r])

\* A step at one run: the others are as they were.
LEMMA LostElsewhere ==
    ASSUME LInv, NEW r, harmed \subseteq harmed',
           \A q \in Runs \ {r} : /\ lines'[q] = lines[q]
                                /\ queue'[q] = queue[q]
                                /\ step'[q] = step[q]
                                /\ events'[q] = events[q]
                                /\ appended'[q] = appended[q]
                                /\ flushing'[q] = flushing[q],
           r \in Runs => /\ OneFlush(queue'[r], flushing'[r], step'[r])
                         /\ r \notin harmed' =>
                               Carried(lines'[r], queue'[r], step'[r], events'[r], appended'[r])
    PROVE  LInv'
<1>1. ASSUME NEW q \in Runs
      PROVE  /\ OneFlush(queue'[q], flushing'[q], step'[q])
             /\ q \notin harmed' =>
                   Carried(lines'[q], queue'[q], step'[q], events'[q], appended'[q])
  <2>1. CASE q = r
    BY <2>1
  <2>2. CASE q # r
    BY <2>2 DEF LInv
  <2> QED
    BY <2>1, <2>2
<1> QED
  BY <1>1 DEF LInv

\* The writer takes over the buffer of a run, after n append calls in all.
LEMMA LostFlush ==
    ASSUME TypeOK, LInv, NEW r \in Runs, NEW es \in Seq(Event), flushRun(r, es),
           NEW n \in Nat,
           r \notin harmed => Carried(lines[r], queue[r], step[r], es, n)
    PROVE  /\ OneFlush(queue'[r], flushing'[r], step[r])
           /\ r \notin harmed => Carried(lines[r], queue'[r], step[r], events'[r], n)
           /\ \A q \in Runs \ {r} : /\ queue'[q] = queue[q]
                                   /\ events'[q] = events[q]
                                   /\ flushing'[q] = flushing[q]
<1>0. /\ queue \in [Runs -> Seq(Task)]
      /\ events \in [Runs -> Seq(Event)]
      /\ flushing \in [Runs -> {"none", "writing", "publishing"}]
  BY DEF TypeOK
<1>1. CASE flushing[r] = "none"
  <2>1. /\ queue' = [queue EXCEPT ![r] =
               Append(queue[r], [op |-> "append", batch |-> compactBufferedEvents(es)])]
        /\ events' = [events EXCEPT ![r] = <<>>]
        /\ flushing' = [flushing EXCEPT ![r] = "writing"]
    BY <1>1 DEF flushRun, Enqueue
  <2>2. /\ queue'[r] = Append(queue[r], [op |-> "append", batch |-> compactBufferedEvents(es)])
        /\ events'[r] = <<>>
        /\ flushing'[r] = "writing"
        /\ queue[r] \in Seq(Task)
    BY <1>0, <2>1
  <2>3. OneFlush(queue[r], "none", step[r])
    BY <1>1 DEF LInv
  <2>4. CASE r \in harmed
    <3>1. OneFlush(queue'[r], "writing", step[r])
      BY <2>2, <2>3, CompactTyped, FlushOne
    <3> QED
      BY <1>0, <2>1, <2>2, <2>4, <3>1
  <2>5. CASE r \notin harmed
    <3>1. OneFlush(queue'[r], "writing", step[r]) /\ Carried(lines[r], queue'[r], step[r], <<>>, n)
      BY <2>2, <2>3, <2>5, FlushCarried
    <3> QED
      BY <1>0, <2>1, <2>2, <3>1
  <2> QED
    BY <2>4, <2>5
<1>2. CASE flushing[r] # "none"
  <2>1. events' = [events EXCEPT ![r] = es] /\ queue' = queue /\ flushing' = flushing
    BY <1>2 DEF flushRun
  <2> QED
    BY <1>0, <2>1 DEF LInv
<1> QED
  BY <1>1, <1>2

LEMMA LostAppend ==
    ASSUME TypeOK, LInv, NEW r \in Runs, NEW type \in EventTypes, NEW request \in Nat,
           NEW waits \in BOOLEAN, append(r, NewEvent(r, type, request), waits),
           UNCHANGED <<lines, step, harmed>>
    PROVE  LInv'
<1> DEFINE e == NewEvent(r, type, request)
           es == Append(events[r], e)
           n == appended[r] + 1
<1>1. /\ e \in Event /\ e.from = appended[r] + 1 /\ e.to = appended[r] + 1
      /\ appended \in [Runs -> Nat] /\ events \in [Runs -> Seq(Event)]
  <2>1. appended \in [Runs -> Nat] /\ events \in [Runs -> Seq(Event)]
    BY DEF TypeOK
  <2>2. appended[r] + 1 \in Nat
    BY <2>1
  <2> QED
    BY <2>1, <2>2 DEF NewEvent, Event
<1>2. es \in Seq(Event) /\ SeqLike(events[r]) /\ n \in Nat
  BY <1>1 DEF SeqLike
<1>3. appended' = [appended EXCEPT ![r] = n]
  BY DEF append
<1>4. appended'[r] = n /\ \A q \in Runs \ {r} : appended'[q] = appended[q]
  BY <1>1, <1>3
<1>5. ASSUME r \notin harmed
      PROVE  Carried(lines[r], queue[r], step[r], es, n)
  <2>1. PICK b, c \in Nat :
        /\ Chain(lines[r], 0, b)
        /\ step[r] = "appended" \/ Flushes(queue[r]) = {} => b = c
        /\ step[r] # "appended" => \A i \in Flushes(queue[r]) : Chain(queue[r][i].batch, b, c)
        /\ Chain(events[r], c, appended[r])
    BY <1>5 DEF LInv, Carried
  <2>2. appended[r] \in Nat
    BY <1>1
  <2> HIDE DEF e
  <2>3. Chain(es, c, n)
    BY <1>1, <1>2, <2>1, <2>2, ChainAppend
  <2> HIDE DEF es, n
  <2> QED
    BY <2>1, <2>3 DEF Carried
<1> HIDE DEF n
<1>6. CASE waits
  <2>1. flushRun(r, es)
    BY <1>6 DEF append
  <2> HIDE DEF es
  <2>2. /\ OneFlush(queue'[r], flushing'[r], step[r])
        /\ r \notin harmed => Carried(lines[r], queue'[r], step[r], events'[r], n)
        /\ \A q \in Runs \ {r} : /\ queue'[q] = queue[q]
                                /\ events'[q] = events[q]
                                /\ flushing'[q] = flushing[q]
    BY <1>2, <1>5, <2>1, LostFlush
  <2> QED
    BY <1>4, <2>2, LostElsewhere
<1>7. CASE ~waits
  <2>1. events' = [events EXCEPT ![r] = es] /\ queue' = queue /\ flushing' = flushing
    BY <1>7 DEF append
  <2> HIDE DEF es
  <2>2. events'[r] = es /\ \A q \in Runs \ {r} : events'[q] = events[q]
    BY <1>1, <2>1
  <2>3. OneFlush(queue'[r], flushing'[r], step'[r])
    BY <2>1 DEF LInv
  <2> QED
    BY <1>4, <1>5, <2>1, <2>2, <2>3, LostElsewhere
<1> QED
  BY <1>6, <1>7

LEMMA LostTask ==
    ASSUME TypeOK, LInv, NEW r \in Runs, TaskStep(r) \/ Fault(r)
    PROVE  LInv'
<1>0. /\ queue \in [Runs -> Seq(Task)] /\ lines \in [Runs -> Seq(Line)]
      /\ step \in [Runs -> {"start", "read", "appended"}]
      /\ flushing \in [Runs -> {"none", "writing", "publishing"}]
      /\ queue[r] \in Seq(Task)
      /\ queue[r] # <<>>
      /\ UNCHANGED <<events, appended>>
  BY DEF TypeOK, TaskStep, Fault, ReadRecord, AppendLines, WriteRecord, RemoveRun, Recovered,
         RejectTask, Running, buffers, callers
<1>1. OneFlush(queue[r], flushing[r], step[r])
  BY DEF LInv
<1>2. ASSUME RejectTask(r) \/ RemoveRun(r)
      PROVE  LInv'
  <2>1. /\ queue' = [queue EXCEPT ![r] = Tail(queue[r])]
        /\ step' = [step EXCEPT ![r] = "start"]
        /\ r \in harmed' /\ harmed \subseteq harmed'
        /\ \A q \in Runs \ {r} : lines'[q] = lines[q]
        /\ \/ Head(queue[r]).op = "append" /\ flushing' = [flushing EXCEPT ![r] = "none"]
           \/ Head(queue[r]).op # "append" /\ flushing' = flushing
    BY <1>0, <1>2
       DEF RejectTask, RemoveRun, EndTask, SettleFlush, Running, files, buffers
  <2>2. OneFlush(Tail(queue[r]), flushing'[r], "start")
    BY <1>0, <1>1, <2>1, EndCarried
  <2>3. OneFlush(queue'[r], flushing'[r], step'[r])
    BY <1>0, <2>1, <2>2
  <2> QED
    BY <1>0, <2>1, <2>3, LostElsewhere
<1>3. CASE ReadRecord(r) /\ Present(r)
  <2>1. /\ step' = [step EXCEPT ![r] = "read"] /\ step[r] = "start"
        /\ UNCHANGED <<lines, queue, flushing, harmed>>
    BY <1>3 DEF ReadRecord, files, buffers, history
  <2>2. step'[r] = "read"
    BY <1>0, <2>1
  <2>3. /\ OneFlush(queue[r], flushing[r], "read")
        /\ Carried(lines[r], queue[r], "start", events[r], appended[r]) =>
              Carried(lines[r], queue[r], "read", events[r], appended[r])
    BY <1>1, <2>1 DEF OneFlush, Carried
  <2>4. r \notin harmed => Carried(lines[r], queue[r], "start", events[r], appended[r])
    BY <2>1 DEF LInv
  <2> QED
    BY <1>0, <2>1, <2>2, <2>3, <2>4, LostElsewhere
<1>4. CASE AppendLines(r)
  <2>1. /\ lines' = [lines EXCEPT ![r] = lines[r] \o Numbered(held[r], Head(queue[r]).batch)]
        /\ step' = [step EXCEPT ![r] = "appended"] /\ step[r] = "read"
        /\ Head(queue[r]).op = "append"
        /\ UNCHANGED <<queue, flushing, harmed>>
    BY <1>4 DEF AppendLines, Running, buffers, history
  <2>2. /\ lines'[r] = lines[r] \o Numbered(held[r], Head(queue[r]).batch)
        /\ step'[r] = "appended" /\ lines[r] \in Seq(Line)
        /\ \A q \in Runs \ {r} : lines'[q] = lines[q] /\ step'[q] = step[q]
    BY <1>0, <2>1
  <2>3. OneFlush(queue[r], flushing[r], "read")
    BY <1>1, <2>1
  <2>4. r \notin harmed => Carried(lines[r], queue[r], "read", events[r], appended[r])
    BY <2>1 DEF LInv
  <2>5. /\ OneFlush(queue[r], flushing[r], "appended")
        /\ r \notin harmed => Carried(lines'[r], queue[r], "appended", events[r], appended[r])
    BY <1>0, <2>1, <2>2, <2>3, <2>4, WrittenCarried
  <2> QED
    BY <1>0, <2>1, <2>2, <2>5, LostElsewhere
<1>5. CASE WriteRecord(r)
  <2>1. /\ queue' = [queue EXCEPT ![r] = Tail(queue[r])]
        /\ step' = [step EXCEPT ![r] = "start"] /\ step[r] = "appended"
        /\ flushing' = [flushing EXCEPT ![r] = "publishing"]
        /\ Head(queue[r]).op = "append"
        /\ UNCHANGED <<lines, harmed>>
    BY <1>5 DEF WriteRecord, EndTask, Running, history
  <2>2. /\ OneFlush(Tail(queue[r]), "publishing", "start")
        /\ r \notin harmed => Carried(lines[r], Tail(queue[r]), "start", events[r], appended[r])
    BY <1>0, <1>1, <2>1, EndCarried DEF LInv
  <2>3. /\ queue'[r] = Tail(queue[r]) /\ step'[r] = "start" /\ flushing'[r] = "publishing"
        /\ \A q \in Runs \ {r} : /\ queue'[q] = queue[q] /\ step'[q] = step[q]
                                /\ flushing'[q] = flushing[q]
    BY <1>0, <2>1
  <2> QED
    BY <1>0, <2>1, <2>2, <2>3, LostElsewhere
<1>6. CASE Recovered(r)
  <2>1. /\ queue' = [queue EXCEPT ![r] = Tail(queue[r])]
        /\ step' = [step EXCEPT ![r] = "start"]
        /\ Head(queue[r]).op # "append"
        /\ UNCHANGED <<lines, flushing, harmed>>
    BY <1>6 DEF Recovered, EndTask, Running, buffers, history
  <2>2. /\ OneFlush(Tail(queue[r]), flushing[r], "start")
        /\ r \notin harmed => Carried(lines[r], Tail(queue[r]), "start", events[r], appended[r])
    BY <1>0, <1>1, <2>1, EndCarried DEF LInv
  <2>3. /\ queue'[r] = Tail(queue[r]) /\ step'[r] = "start"
        /\ \A q \in Runs \ {r} : queue'[q] = queue[q] /\ step'[q] = step[q]
    BY <1>0, <2>1
  <2> QED
    BY <1>0, <2>1, <2>2, <2>3, LostElsewhere
<1> QED
  BY <1>2, <1>3, <1>4, <1>5, <1>6 DEF TaskStep, Fault, ReadRecord

\* A task of another kind joins a queue.
LEMMA LostEnqueue ==
    ASSUME TypeOK, LInv, NEW r \in Runs, NEW op \in {"recover", "delete"},
           Enqueue(r, op, <<>>),
           UNCHANGED <<lines, step, events, appended, flushing, harmed>>
    PROVE  LInv'
<1>1. /\ queue \in [Runs -> Seq(Task)]
      /\ queue' = [queue EXCEPT ![r] = Append(queue[r], [op |-> op, batch |-> <<>>])]
  BY DEF TypeOK, Enqueue
<1>2. /\ queue[r] \in Seq(Task)
      /\ queue'[r] = Append(queue[r], [op |-> op, batch |-> <<>>])
      /\ \A q \in Runs \ {r} : queue'[q] = queue[q]
  BY <1>1
<1>3. OneFlush(queue[r], flushing[r], step[r])
  BY DEF LInv
<1>4. /\ OneFlush(queue'[r], flushing[r], step[r])
      /\ r \notin harmed => Carried(lines[r], queue'[r], step[r], events[r], appended[r])
  BY <1>2, <1>3, EnqueueCarried DEF LInv
<1> QED
  BY <1>2, <1>4, LostElsewhere

LEMMA LostCaller ==
    ASSUME TypeOK, LInv, NEW r \in Runs, CallerStep(r) \/ WriterStep(r) \/ RecoverNext(r)
    PROVE  LInv'
<1>0. UNCHANGED <<lines, step, harmed>>
  BY DEF CallerStep, WriterStep, AppendStream, AppendLog, Flush, CreateRun, DeleteRun,
         FlushTimer, Published, RecoverNext, files, tasks, history
<1>1. ASSUME NEW kind \in StreamKinds, NEW waits \in BOOLEAN, AppendStream(r, kind, waits)
      PROVE  LInv'
  <2>1. kind.type \in EventTypes /\ kind.request \in Nat
    BY LedgerAssumption
  <2>2. append(r, NewEvent(r, kind.type, kind.request), waits)
    BY <1>1 DEF AppendStream
  <2> QED
    BY <1>0, <2>1, <2>2, LostAppend
<1>2. ASSUME NEW waits \in BOOLEAN, AppendLog(r, waits)
      PROVE  LInv'
  <2>1. append(r, NewEvent(r, "log", 0), waits) /\ "log" \in EventTypes
    BY <1>2 DEF AppendLog, EventTypes
  <2> QED
    BY <1>0, <2>1, LostAppend
<1>3. CASE flushRun(r, events[r]) /\ UNCHANGED appended
  <2>1. /\ events[r] \in Seq(Event) /\ appended[r] \in Nat
        /\ r \notin harmed => Carried(lines[r], queue[r], step[r], events[r], appended[r])
    BY DEF TypeOK, LInv
  <2>2. /\ OneFlush(queue'[r], flushing'[r], step[r])
        /\ r \notin harmed => Carried(lines[r], queue'[r], step[r], events'[r], appended[r])
        /\ \A q \in Runs \ {r} : /\ queue'[q] = queue[q]
                                /\ events'[q] = events[q]
                                /\ flushing'[q] = flushing[q]
    BY <1>3, <2>1, LostFlush
  <2> QED
    BY <1>0, <1>3, <2>2, LostElsewhere
<1>4. CASE UNCHANGED <<events, queue, flushing, appended>>
  BY <1>0, <1>4 DEF LInv
<1>5. CASE Published(r)
  <2>1. /\ flushing' = [flushing EXCEPT ![r] = "none"] /\ flushing[r] = "publishing"
        /\ UNCHANGED <<queue, events, appended>>
    BY <1>5 DEF Published, SettleFlush, tasks
  <2>2. flushing'[r] = "none" /\ \A q \in Runs \ {r} : flushing'[q] = flushing[q]
    BY <2>1 DEF TypeOK
  <2>3. OneFlush(queue[r], "none", step[r])
    BY <2>1 DEF LInv, OneFlush
  <2>4. r \notin harmed => Carried(lines[r], queue[r], step[r], events[r], appended[r])
    BY DEF LInv
  <2> QED
    BY <1>0, <2>1, <2>2, <2>3, <2>4, LostElsewhere
<1>6. CASE DeleteRun(r) \/ RecoverNext(r)
  <2>1. PICK op \in {"recover", "delete"} : Enqueue(r, op, <<>>)
    BY <1>6 DEF DeleteRun, RecoverNext
  <2>2. UNCHANGED <<events, appended, flushing>>
    BY <1>6 DEF DeleteRun, RecoverNext, buffers, callers
  <2> QED
    BY <1>0, <2>1, <2>2, LostEnqueue
<1>7. CASE Flush(r) \/ FlushTimer(r) \/ CreateRun(r)
  <2>1. \/ flushRun(r, events[r]) /\ UNCHANGED appended
        \/ UNCHANGED <<events, queue, flushing, appended>>
    BY <1>7 DEF Flush, FlushTimer, CreateRun, tasks, buffers, callers
  <2> QED
    BY <1>3, <1>4, <2>1
<1> QED
  <2>1. CASE CallerStep(r)
    <3>1. \/ \E kind \in StreamKinds, waits \in BOOLEAN : AppendStream(r, kind, waits)
          \/ \E waits \in BOOLEAN : AppendLog(r, waits)
          \/ Flush(r) \/ CreateRun(r) \/ DeleteRun(r)
      BY <2>1 DEF CallerStep
    <3> QED
      BY <1>1, <1>2, <1>6, <1>7, <3>1
  <2>2. CASE WriterStep(r)
    BY <1>5, <1>7, <2>2 DEF WriterStep
  <2> QED
    BY <1>6, <2>1, <2>2

LEMMA LostOutside ==
    ASSUME TypeOK, IInv, NInv, LInv, ImportStep \/ \E r \in Runs : WriteNewRecord(r)
    PROVE  LInv'
<1>1. ASSUME NEW r \in Runs, WriteNewRecord(r)
      PROVE  LInv'
  <2>1. /\ harmed \subseteq harmed'
        /\ lines' = [lines EXCEPT ![r] = lines[r]]
        /\ UNCHANGED <<queue, step, events, flushing, appended>>
    BY <1>1 DEF WriteNewRecord, KeptLines, tasks, buffers
  <2>2. \A q \in Runs : lines'[q] = lines[q]
    BY <2>1 DEF TypeOK
  <2> QED
    BY <2>1, <2>2 DEF LInv
<1>2. ASSUME NEW r \in Imported,
             (\E status \in {"running", "completed"} : ImportRecord(r, status, 1)) \/ ImportEvents(r)
      PROVE  LInv'
  <2>1. r \in Runs
    BY LedgerAssumption
  <2>2. /\ harmed \subseteq harmed' /\ r \in harmed'
        /\ \A q \in Runs \ {r} : lines'[q] = lines[q]
        /\ UNCHANGED <<queue, step, events, flushing, appended>>
    BY <1>2, <2>1 DEF ImportRecord, ImportEvents, tasks, buffers, callers, history, TypeOK, NInv
  <2>3. OneFlush(queue[r], flushing[r], step[r])
    BY <2>1 DEF LInv
  <2> QED
    BY <2>2, <2>3, LostElsewhere
<1> QED
  BY <1>1, <1>2 DEF ImportStep

LEMMA LostCrash ==
    ASSUME TypeOK, LInv, Crash
    PROVE  LInv'
<1>1. /\ harmed' = harmed \cup
            {r \in Runs : events[r] # <<>> \/ queue[r] # <<>> \/ importing[r] > 0}
      /\ queue' = [r \in Runs |-> <<>>]
      /\ step' = [r \in Runs |-> "start"]
      /\ events' = [r \in Runs |-> <<>>]
      /\ flushing' = [r \in Runs |-> "none"]
      /\ UNCHANGED <<lines, appended>>
  BY DEF Crash, files
<1>2. Flushes(<<>>) = {}
  BY DEF Flushes
<1>3. ASSUME NEW r \in Runs
      PROVE  OneFlush(queue'[r], flushing'[r], step'[r])
  BY <1>1, <1>2 DEF OneFlush
<1>4. ASSUME NEW r \in Runs, r \notin harmed'
      PROVE  Carried(lines'[r], queue'[r], step'[r], events'[r], appended'[r])
  <2>1. r \notin harmed /\ queue[r] = <<>> /\ events[r] = <<>>
    BY <1>1, <1>4
  <2>2. Carried(lines[r], <<>>, step[r], <<>>, appended[r])
    BY <2>1 DEF LInv
  <2>3. Carried(lines[r], <<>>, "start", <<>>, appended[r])
    BY <1>2, <2>2 DEF Carried
  <2> QED
    BY <1>1, <2>3
<1> QED
  BY <1>3, <1>4 DEF LInv

LEMMA LostInit == Init => LInv
<1> SUFFICES ASSUME Init
             PROVE  LInv
  OBVIOUS
<1>1. Flushes(<<>>) = {} /\ Len(<<>>) = 0 /\ 1..0 = {}
  BY DEF Flushes
<1>2. Chain(<<>>, 0, 0)
  BY <1>1 DEF Chain
<1>3. ASSUME NEW r \in Runs
      PROVE  /\ OneFlush(queue[r], flushing[r], step[r])
             /\ Carried(lines[r], queue[r], step[r], events[r], appended[r])
  <2>1. /\ queue[r] = <<>> /\ flushing[r] = "none" /\ step[r] = "start"
        /\ lines[r] = <<>> /\ events[r] = <<>> /\ appended[r] = 0
    BY DEF Init
  <2>2. OneFlush(<<>>, "none", "start")
    BY <1>1 DEF OneFlush
  <2>3. Carried(<<>>, <<>>, "start", <<>>, 0)
    BY <1>1, <1>2 DEF Carried
  <2> QED
    BY <2>1, <2>2, <2>3
<1> QED
  BY <1>3 DEF LInv

LEMMA LostStep == TypeOK /\ IInv /\ NInv /\ LInv /\ [Next]_vars => LInv'
<1> SUFFICES ASSUME TypeOK, IInv, NInv, LInv, [Next]_vars
             PROVE  LInv'
  OBVIOUS
<1>1. CASE ListOrphans \/ UNCHANGED vars
  <2>1. UNCHANGED <<lines, queue, step, events, flushing, appended, harmed>>
    BY <1>1 DEF ListOrphans, vars, files, tasks, buffers, callers, history
  <2> QED
    BY <2>1 DEF LInv
<1> QED
  BY <1>1, LostTask, LostCaller, LostOutside, LostCrash DEF Next

-----------------------------------------------------------------------------
(* Nothing is repeated or reordered, whatever happens.  A rising list       *)
(* between a and b holds pieces of the append calls a + 1 to b, in order    *)
(* and without overlap; some may be missing.                                *)

Rising(s, a, b) ==
    /\ a \in Nat /\ b \in Nat /\ a <= b
    /\ \A i \in 1..Len(s) :
          /\ s[i].from \in Nat /\ s[i].to \in Nat
          /\ a < s[i].from /\ s[i].from <= s[i].to /\ s[i].to <= b
    /\ \A i, j \in 1..Len(s) : i < j => s[i].to < s[j].from

LEMMA RisingEmpty ==
    ASSUME NEW a \in Nat, NEW b \in Nat, a <= b
    PROVE  Rising(<<>>, a, b)
<1>1. Len(<<>>) = 0 /\ 1..0 = {}
  OBVIOUS
<1> QED
  BY <1>1 DEF Rising

LEMMA RisingWider ==
    ASSUME NEW s, SeqLike(s), NEW a, NEW b, NEW c \in Nat, Rising(s, a, b), b <= c
    PROVE  Rising(s, a, c)
BY DEF Rising

LEMMA RisingConcat ==
    ASSUME NEW s, NEW t, SeqLike(s), SeqLike(t), NEW a, NEW b, NEW c,
           Rising(s, a, b), Rising(t, b, c)
    PROVE  Rising(s \o t, a, c)
<1>1. /\ Len(s) \in Nat /\ Len(t) \in Nat
      /\ Len(s \o t) = Len(s) + Len(t)
      /\ \A i \in 1..Len(s) : (s \o t)[i] = s[i]
      /\ \A i \in 1..Len(t) : (s \o t)[Len(s) + i] = t[i]
  BY ConcatLike
<1>2. \A i \in 1..(Len(s) + Len(t)) :
          \/ i \in 1..Len(s)
          \/ i > Len(s) /\ i - Len(s) \in 1..Len(t) /\ i = Len(s) + (i - Len(s))
  BY <1>1
<1>3. a \in Nat /\ b \in Nat /\ c \in Nat /\ a <= b /\ b <= c
  BY DEF Rising
<1>4. ASSUME NEW i \in 1..Len(s)
      PROVE  /\ (s \o t)[i] = s[i] /\ s[i].from \in Nat /\ s[i].to \in Nat
             /\ a < s[i].from /\ s[i].from <= s[i].to /\ s[i].to <= b
  BY <1>1 DEF Rising
<1>5. ASSUME NEW i \in 1..(Len(s) + Len(t)), i > Len(s)
      PROVE  /\ i - Len(s) \in 1..Len(t) /\ (s \o t)[i] = t[i - Len(s)]
             /\ t[i - Len(s)].from \in Nat /\ t[i - Len(s)].to \in Nat
             /\ b < t[i - Len(s)].from /\ t[i - Len(s)].from <= t[i - Len(s)].to
             /\ t[i - Len(s)].to <= c
  <2> DEFINE k == i - Len(s)
  <2>1. k \in 1..Len(t) /\ i = Len(s) + k
    BY <1>1, <1>5
  <2> HIDE DEF k
  <2>2. /\ (s \o t)[i] = t[k] /\ t[k].from \in Nat /\ t[k].to \in Nat
        /\ b < t[k].from /\ t[k].from <= t[k].to /\ t[k].to <= c
    BY <1>1, <2>1 DEF Rising
  <2> QED
    BY <2>1, <2>2 DEF k
<1>6. ASSUME NEW i \in 1..(Len(s) + Len(t))
      PROVE  /\ (s \o t)[i].from \in Nat /\ (s \o t)[i].to \in Nat
             /\ a < (s \o t)[i].from /\ (s \o t)[i].from <= (s \o t)[i].to
             /\ (s \o t)[i].to <= c
  <2>1. CASE i \in 1..Len(s)
    BY <1>3, <1>4, <2>1
  <2>2. CASE i > Len(s)
    BY <1>3, <1>5, <2>2
  <2> QED
    BY <1>2, <2>1, <2>2
<1>7. ASSUME NEW i \in 1..(Len(s) + Len(t)), NEW j \in 1..(Len(s) + Len(t)), i < j
      PROVE  (s \o t)[i].to < (s \o t)[j].from
  <2>1. CASE i \in 1..Len(s) /\ j \in 1..Len(s)
    <3>1. s[i].to < s[j].from
      BY <1>7, <2>1 DEF Rising
    <3> QED
      BY <1>4, <2>1, <3>1
  <2>2. CASE i \in 1..Len(s) /\ j > Len(s)
    BY <1>3, <1>4, <1>5, <2>2
  <2>3. CASE i > Len(s) /\ j > Len(s)
    <3> DEFINE k == i - Len(s)
               l == j - Len(s)
    <3>1. k \in 1..Len(t) /\ l \in 1..Len(t) /\ k < l
      BY <1>1, <1>5, <1>7, <2>3
    <3>2. (s \o t)[i] = t[k] /\ (s \o t)[j] = t[l]
      BY <1>5, <2>3
    <3> HIDE DEF k, l
    <3> QED
      BY <3>1, <3>2 DEF Rising
  <2> QED
    BY <1>1, <1>2, <1>7, <2>1, <2>2, <2>3
<1> QED
  BY <1>1, <1>3, <1>6, <1>7 DEF Rising

\* One more append call.
LEMMA RisingAppend ==
    ASSUME NEW s, SeqLike(s), NEW e, NEW a, NEW b, Rising(s, a, b),
           e.from = b + 1, e.to = b + 1
    PROVE  Rising(Append(s, e), a, b + 1)
<1>1. SeqLike(<<e>>) /\ Append(s, e) = s \o <<e>>
  <2>1. PICK S : s \in Seq(S)
    BY DEF SeqLike
  <2>2. s \in Seq(S \cup {e}) /\ <<e>> \in Seq(S \cup {e}) /\ e \in S \cup {e}
    BY <2>1
  <2>3. Append(s, e) = s \o <<e>>
    BY <2>2, AppendIsConcat
  <2> QED
    BY <2>2, <2>3 DEF SeqLike
<1>2. Rising(<<e>>, b, b + 1)
  <2>1. Len(<<e>>) = 1 /\ <<e>>[1] = e /\ 1..1 = {1}
    OBVIOUS
  <2>2. b \in Nat
    BY DEF Rising
  <2> QED
    BY <2>1, <2>2 DEF Rising
<1> QED
  BY <1>1, <1>2, RisingConcat

\* Numbering keeps what the events carry.
LEMMA RisingNumbered ==
    ASSUME NEW rec, NEW batch \in Seq(Event), NEW a, NEW b, Rising(batch, a, b)
    PROVE  Rising(Numbered(rec, batch), a, b) /\ SeqLike(Numbered(rec, batch))
<1>1. Len(batch) \in Nat /\ DOMAIN batch = 1..Len(batch)
  OBVIOUS
<1>2. /\ DOMAIN Numbered(rec, batch) = 1..Len(batch)
      /\ Numbered(rec, batch) = [i \in 1..Len(batch) |-> Numbered(rec, batch)[i]]
      /\ \A i \in 1..Len(batch) : /\ Numbered(rec, batch)[i].from = batch[i].from
                                 /\ Numbered(rec, batch)[i].to = batch[i].to
  BY <1>1 DEF Numbered
<1>3. Len(Numbered(rec, batch)) = Len(batch) /\ SeqLike(Numbered(rec, batch))
  BY <1>1, <1>2, FunctionLike
<1> QED
  BY <1>2, <1>3 DEF Rising

\* Compaction keeps the order: a stretch ends before the next one starts.
LEMMA RisingCompact ==
    ASSUME NEW es \in Seq(Event), NEW a, NEW b, Rising(es, a, b)
    PROVE  Rising(compactBufferedEvents(es), a, b)
<1> SUFFICES ASSUME es # <<>>
             PROVE  Rising(compactBufferedEvents(es), a, b)
  BY CompactEmpty
<1>1. PICK n \in Nat \ {0} : \E st : Stretches(es, n, st)
  BY CompactPlaces
<1>2. PICK st : Stretches(es, n, st)
  BY <1>1
<1> USE DEF Stretches
<1> DEFINE c == compactBufferedEvents(es)
           end(k) == IF k = n THEN Len(es) ELSE st[k + 1] - 1
<1>3. DOMAIN c = 1..n /\ c = [k \in 1..n |-> c[k]]
  BY <1>2
<1>4. Len(c) = n
  BY <1>3, FunctionLike
<1>5. Len(es) \in Nat /\ Len(es) \in 1..Len(es) /\ \A i \in 1..Len(es) : es[i] \in Event
  OBVIOUS
<1>6. ASSUME NEW k \in 1..n
      PROVE  st[k] \in 1..Len(es) /\ end(k) \in 1..Len(es) /\ st[k] <= end(k)
  <2>1. CASE k = n
    BY <1>2, <1>5, <2>1
  <2>2. CASE k # n
    <3>1. k + 1 \in 1..n
      BY <2>2
    <3>2. st[k] \in 1..Len(es) /\ st[k + 1] \in 1..Len(es) /\ st[k] < st[k + 1]
      BY <1>2, <2>2, <3>1
    <3> QED
      BY <2>2, <3>2
  <2> QED
    BY <2>1, <2>2
<1>7. ASSUME NEW k \in 1..n
      PROVE  c[k].from = es[st[k]].from /\ c[k].to = es[end(k)].to
  <2>1. c[k] = Joined(es[st[k]], es[end(k)])
    BY <1>2
  <2>2. es[st[k]] \in Event /\ es[end(k)] \in Event
    BY <1>5, <1>6
  <2>3. \A e, f \in Event : Joined(e, f).from = e.from /\ Joined(e, f).to = f.to
    BY DEF Joined, Event
  <2> QED
    BY <2>1, <2>2, <2>3
<1>8. ASSUME NEW k \in 1..n, NEW l \in 1..n, k < l
      PROVE  end(k) < st[l]
  <2>1. k # n /\ k + 1 \in 1..n /\ (k + 1 = l \/ k + 1 < l)
    BY <1>8
  <2>2. st[k + 1] \in Nat /\ st[l] \in Nat /\ (st[k + 1] = st[l] \/ st[k + 1] < st[l])
    BY <1>2, <1>6, <2>1
  <2> QED
    BY <2>1, <2>2
<1> HIDE DEF c, end
<1>9. ASSUME NEW k \in 1..n
      PROVE  /\ c[k].from \in Nat /\ c[k].to \in Nat
             /\ a < c[k].from /\ c[k].from <= c[k].to /\ c[k].to <= b
  <2>1. /\ es[st[k]].from \in Nat /\ es[st[k]].to \in Nat
        /\ es[end(k)].from \in Nat /\ es[end(k)].to \in Nat
        /\ a < es[st[k]].from /\ es[st[k]].from <= es[st[k]].to
        /\ es[end(k)].from <= es[end(k)].to /\ es[end(k)].to <= b
    BY <1>6 DEF Rising
  <2>2. es[st[k]].from <= es[end(k)].to
    <3>1. CASE st[k] = end(k)
      BY <2>1, <3>1
    <3>2. CASE st[k] # end(k)
      <4>1. st[k] < end(k)
        BY <1>6, <3>2
      <4>2. es[st[k]].to < es[end(k)].from
        BY <1>6, <4>1 DEF Rising
      <4> QED
        BY <2>1, <4>2
    <3> QED
      BY <3>1, <3>2
  <2> QED
    BY <1>7, <2>1, <2>2
<1>10. ASSUME NEW k \in 1..n, NEW l \in 1..n, k < l
       PROVE  c[k].to < c[l].from
  <2>1. es[end(k)].to < es[st[l]].from
    BY <1>6, <1>8, <1>10 DEF Rising
  <2> QED
    BY <1>7, <2>1
<1>11. Rising(c, a, b)
  BY <1>4, <1>9, <1>10 DEF Rising
<1> QED
  BY <1>11 DEF c

\* A run's file, its flush in the queue and its buffer hold pieces of the append
\* calls up to n in their order; st is the step of the task that runs.
Kept(log, q, st, es, n) ==
    \E b, c \in Nat :
        /\ Rising(log, 0, b)
        /\ b <= c
        /\ st # "appended" => \A i \in Flushes(q) : Rising(q[i].batch, b, c)
        /\ Rising(es, c, n)

\* A flush takes the buffer into the queue.
LEMMA FlushKept ==
    ASSUME NEW q \in Seq(Task), NEW es \in Seq(Event), NEW n \in Nat, NEW st, NEW log,
           SeqLike(log), OneFlush(q, "none", st), Kept(log, q, st, es, n),
           NEW q2, q2 = Append(q, [op |-> "append", batch |-> compactBufferedEvents(es)])
    PROVE  Kept(log, q2, st, <<>>, n)
<1>1. compactBufferedEvents(es) \in Seq(Event)
  BY CompactTyped
<1>2. Flushes(q2) = {Len(q) + 1} /\ q2[Len(q) + 1].batch = compactBufferedEvents(es)
  BY <1>1, FlushOne
<1>3. PICK b, c \in Nat : Rising(log, 0, b) /\ b <= c /\ Rising(es, c, n)
  BY DEF Kept
<1>4. Rising(log, 0, c) /\ Rising(compactBufferedEvents(es), c, n)
  BY <1>3, RisingWider, RisingCompact
<1>5. Rising(<<>>, n, n) /\ c <= n
  BY <1>3, RisingEmpty DEF Rising
<1> QED
  BY <1>2, <1>4, <1>5 DEF Kept

\* A task of another kind joins the queue.
LEMMA EnqueueKept ==
    ASSUME NEW q \in Seq(Task), NEW op \in {"recover", "delete"}, NEW q2,
           q2 = Append(q, [op |-> op, batch |-> <<>>]), NEW st, NEW log, NEW es,
           NEW n, Kept(log, q, st, es, n)
    PROVE  Kept(log, q2, st, es, n)
<1> DEFINE task == [op |-> op, batch |-> <<>>]
<1>1. task \in Task /\ task.op # "append"
  BY EmptyTyped DEF Task
<1>2. /\ \A i \in 1..Len(q) : q2[i] = q[i]
      /\ Flushes(q2) = Flushes(q)
      /\ Flushes(q) \subseteq 1..Len(q)
  <2>1. q2 = Append(q, task)
    OBVIOUS
  <2> HIDE DEF task
  <2> QED
    BY <1>1, <2>1, QueueGrows
<1> QED
  BY <1>2 DEF Kept

\* The running task ends, well or not, and leaves the log or empties it.
LEMMA EndKept ==
    ASSUME NEW q \in Seq(Task), q # <<>>, NEW fl, NEW st, NEW log, NEW log2, NEW es,
           NEW n, OneFlush(q, fl, st), Kept(log, q, st, es, n), log2 \in {log, <<>>}
    PROVE  Kept(log2, Tail(q), "start", es, n)
<1>1. /\ Len(q) \in Nat \ {0} /\ DOMAIN q = 1..Len(q)
      /\ DOMAIN Tail(q) = 1..(Len(q) - 1)
      /\ \A i \in 1..(Len(q) - 1) : Tail(q)[i] = q[i + 1]
  OBVIOUS
<1>2. \A i \in Flushes(Tail(q)) : i \in Nat \ {0} /\ i + 1 \in Flushes(q) /\ Tail(q)[i] = q[i + 1]
  <2>1. \A i \in 1..(Len(q) - 1) : i + 1 \in DOMAIN q
    BY <1>1
  <2> QED
    BY <1>1, <2>1 DEF Flushes
<1>3. st = "appended" => Flushes(Tail(q)) = {}
  <2>1. st = "appended" => 1 \in Flushes(q)
    BY <1>1 DEF OneFlush, Flushes
  <2>2. \A i \in Nat \ {0} : i + 1 # 1
    OBVIOUS
  <2> QED
    BY <1>2, <2>1, <2>2 DEF OneFlush
<1>4. PICK b, c \in Nat :
        /\ Rising(log, 0, b)
        /\ b <= c
        /\ st # "appended" => \A i \in Flushes(q) : Rising(q[i].batch, b, c)
        /\ Rising(es, c, n)
  BY DEF Kept
<1>5. Rising(log2, 0, b)
  BY <1>4, RisingEmpty
<1>6. \A i \in Flushes(Tail(q)) : Rising(Tail(q)[i].batch, b, c)
  BY <1>2, <1>3, <1>4
<1> QED
  BY <1>4, <1>5, <1>6 DEF Kept

\* The running flush puts its batch in the file.
LEMMA WrittenKept ==
    ASSUME NEW q \in Seq(Task), q # <<>>, Head(q).op = "append", NEW rec, NEW log,
           SeqLike(log), NEW es, NEW n, Kept(log, q, "read", es, n)
    PROVE  Kept(log \o Numbered(rec, Head(q).batch), q, "appended", es, n)
<1> DEFINE batch == Head(q).batch
<1>1. Head(q) = q[1] /\ 1 \in Flushes(q) /\ batch \in Seq(Event)
  <2>1. Head(q) = q[1] /\ 1 \in DOMAIN q /\ Head(q) \in Task
    OBVIOUS
  <2> QED
    BY <2>1 DEF Flushes, Task
<1>2. PICK b, c \in Nat : Rising(log, 0, b) /\ Rising(batch, b, c) /\ Rising(es, c, n)
  BY <1>1 DEF Kept
<1> HIDE DEF batch
<1>3. Rising(log \o Numbered(rec, batch), 0, c)
  BY <1>1, <1>2, RisingNumbered, RisingConcat
<1> QED
  BY <1>2, <1>3 DEF Kept, batch

KInv ==
    \A r \in Runs \ bundled : Kept(lines[r], queue[r], step[r], events[r], appended[r])

\* A step at one run: the others are as they were.
LEMMA KeptElsewhere ==
    ASSUME KInv, NEW r, bundled \subseteq bundled',
           \A q \in Runs \ {r} : /\ lines'[q] = lines[q]
                                /\ queue'[q] = queue[q]
                                /\ step'[q] = step[q]
                                /\ events'[q] = events[q]
                                /\ appended'[q] = appended[q],
           r \in Runs \ bundled' =>
               Kept(lines'[r], queue'[r], step'[r], events'[r], appended'[r])
    PROVE  KInv'
<1>1. ASSUME NEW q \in Runs \ bundled'
      PROVE  Kept(lines'[q], queue'[q], step'[q], events'[q], appended'[q])
  <2>1. CASE q = r
    BY <2>1
  <2>2. CASE q # r
    BY <2>2 DEF KInv
  <2> QED
    BY <2>1, <2>2
<1> QED
  BY <1>1 DEF KInv

\* The writer takes over the buffer of a run, after n append calls in all.
LEMMA KeptFlush ==
    ASSUME TypeOK, LInv, NEW r \in Runs, NEW es \in Seq(Event), flushRun(r, es),
           NEW n \in Nat, Kept(lines[r], queue[r], step[r], es, n)
    PROVE  /\ Kept(lines[r], queue'[r], step[r], events'[r], n)
           /\ \A q \in Runs \ {r} : queue'[q] = queue[q] /\ events'[q] = events[q]
<1>0. /\ queue \in [Runs -> Seq(Task)] /\ events \in [Runs -> Seq(Event)]
      /\ SeqLike(lines[r])
  BY DEF TypeOK, SeqLike
<1>1. CASE flushing[r] = "none"
  <2>1. /\ queue' = [queue EXCEPT ![r] =
               Append(queue[r], [op |-> "append", batch |-> compactBufferedEvents(es)])]
        /\ events' = [events EXCEPT ![r] = <<>>]
    BY <1>1 DEF flushRun, Enqueue
  <2>2. /\ queue'[r] = Append(queue[r], [op |-> "append", batch |-> compactBufferedEvents(es)])
        /\ events'[r] = <<>>
        /\ queue[r] \in Seq(Task)
    BY <1>0, <2>1
  <2>3. OneFlush(queue[r], "none", step[r])
    BY <1>1 DEF LInv
  <2>4. Kept(lines[r], queue'[r], step[r], <<>>, n)
    BY <1>0, <2>2, <2>3, FlushKept
  <2> QED
    BY <1>0, <2>1, <2>2, <2>4
<1>2. CASE flushing[r] # "none"
  <2>1. events' = [events EXCEPT ![r] = es] /\ queue' = queue
    BY <1>2 DEF flushRun
  <2> QED
    BY <1>0, <2>1
<1> QED
  BY <1>1, <1>2

LEMMA KeptAppend ==
    ASSUME TypeOK, LInv, KInv, NEW r \in Runs, NEW type \in EventTypes, NEW request \in Nat,
           NEW waits \in BOOLEAN, append(r, NewEvent(r, type, request), waits),
           UNCHANGED <<lines, step, bundled>>
    PROVE  KInv'
<1> DEFINE e == NewEvent(r, type, request)
           es == Append(events[r], e)
           n == appended[r] + 1
<1>1. /\ e \in Event /\ e.from = appended[r] + 1 /\ e.to = appended[r] + 1
      /\ appended \in [Runs -> Nat] /\ events \in [Runs -> Seq(Event)]
  <2>1. appended \in [Runs -> Nat] /\ events \in [Runs -> Seq(Event)]
    BY DEF TypeOK
  <2>2. appended[r] + 1 \in Nat
    BY <2>1
  <2> QED
    BY <2>1, <2>2 DEF NewEvent, Event
<1>2. es \in Seq(Event) /\ SeqLike(events[r]) /\ n \in Nat
  BY <1>1 DEF SeqLike
<1>3. appended' = [appended EXCEPT ![r] = n]
  BY DEF append
<1>4. appended'[r] = n /\ \A q \in Runs \ {r} : appended'[q] = appended[q]
  BY <1>1, <1>3
<1>5. ASSUME r \notin bundled
      PROVE  Kept(lines[r], queue[r], step[r], es, n)
  <2>1. PICK b, c \in Nat :
        /\ Rising(lines[r], 0, b)
        /\ b <= c
        /\ step[r] # "appended" => \A i \in Flushes(queue[r]) : Rising(queue[r][i].batch, b, c)
        /\ Rising(events[r], c, appended[r])
    BY <1>5 DEF KInv, Kept
  <2> HIDE DEF e
  <2>2. Rising(es, c, n)
    BY <1>1, <1>2, <2>1, RisingAppend
  <2> HIDE DEF es, n
  <2> QED
    BY <2>1, <2>2 DEF Kept
<1> HIDE DEF n
<1>6. CASE waits
  <2>1. flushRun(r, es)
    BY <1>6 DEF append
  <2> HIDE DEF es
  <2>2. \A q \in Runs \ {r} : queue'[q] = queue[q] /\ events'[q] = events[q]
    BY <2>1 DEF flushRun, Enqueue, TypeOK
  <2>3. r \notin bundled => Kept(lines[r], queue'[r], step[r], events'[r], n)
    BY <1>2, <1>5, <2>1, KeptFlush
  <2> QED
    BY <1>4, <2>2, <2>3, KeptElsewhere
<1>7. CASE ~waits
  <2>1. events' = [events EXCEPT ![r] = es] /\ queue' = queue
    BY <1>7 DEF append
  <2> HIDE DEF es
  <2>2. events'[r] = es /\ \A q \in Runs \ {r} : events'[q] = events[q]
    BY <1>1, <2>1
  <2> QED
    BY <1>4, <1>5, <2>1, <2>2, KeptElsewhere
<1> QED
  BY <1>6, <1>7

LEMMA KeptTask ==
    ASSUME TypeOK, LInv, KInv, NEW r \in Runs, TaskStep(r) \/ Fault(r)
    PROVE  KInv'
<1>0. /\ queue \in [Runs -> Seq(Task)] /\ lines \in [Runs -> Seq(Line)]
      /\ step \in [Runs -> {"start", "read", "appended"}]
      /\ queue[r] \in Seq(Task)
      /\ queue[r] # <<>>
      /\ SeqLike(lines[r])
      /\ OneFlush(queue[r], flushing[r], step[r])
      /\ r \notin bundled => Kept(lines[r], queue[r], step[r], events[r], appended[r])
      /\ UNCHANGED <<events, appended, bundled>>
  BY DEF TypeOK, SeqLike, LInv, KInv, TaskStep, Fault, ReadRecord, AppendLines, WriteRecord,
         RemoveRun, Recovered, RejectTask, Running, buffers, callers, history
<1>1. ASSUME RejectTask(r) \/ RemoveRun(r) \/ WriteRecord(r) \/ Recovered(r)
      PROVE  KInv'
  <2>1. /\ queue' = [queue EXCEPT ![r] = Tail(queue[r])]
        /\ step' = [step EXCEPT ![r] = "start"]
        /\ lines' = lines \/ lines' = [lines EXCEPT ![r] = <<>>]
    BY <1>1 DEF RejectTask, RemoveRun, WriteRecord, Recovered, EndTask, files
  <2>2. /\ queue'[r] = Tail(queue[r]) /\ step'[r] = "start" /\ lines'[r] \in {lines[r], <<>>}
        /\ \A q \in Runs \ {r} : /\ queue'[q] = queue[q] /\ step'[q] = step[q]
                                /\ lines'[q] = lines[q]
    BY <1>0, <2>1
  <2>3. r \notin bundled => Kept(lines'[r], queue'[r], step'[r], events[r], appended[r])
    BY <1>0, <2>2, EndKept
  <2> QED
    BY <1>0, <2>2, <2>3, KeptElsewhere
<1>2. CASE ReadRecord(r) /\ Present(r)
  <2>1. /\ step' = [step EXCEPT ![r] = "read"] /\ step[r] = "start"
        /\ UNCHANGED <<lines, queue>>
    BY <1>2 DEF ReadRecord, files
  <2>2. step'[r] = "read" /\ \A q \in Runs \ {r} : step'[q] = step[q]
    BY <1>0, <2>1
  <2>3. r \notin bundled => Kept(lines[r], queue[r], "read", events[r], appended[r])
    BY <1>0, <2>1 DEF Kept
  <2> QED
    BY <1>0, <2>1, <2>2, <2>3, KeptElsewhere
<1>3. CASE AppendLines(r)
  <2>1. /\ lines' = [lines EXCEPT ![r] = lines[r] \o Numbered(held[r], Head(queue[r]).batch)]
        /\ step' = [step EXCEPT ![r] = "appended"] /\ step[r] = "read"
        /\ Head(queue[r]).op = "append"
        /\ queue' = queue
    BY <1>3 DEF AppendLines, Running
  <2>2. /\ lines'[r] = lines[r] \o Numbered(held[r], Head(queue[r]).batch)
        /\ step'[r] = "appended"
        /\ \A q \in Runs \ {r} : lines'[q] = lines[q] /\ step'[q] = step[q]
    BY <1>0, <2>1
  <2>3. r \notin bundled => Kept(lines'[r], queue[r], "appended", events[r], appended[r])
    BY <1>0, <2>1, <2>2, WrittenKept
  <2> QED
    BY <1>0, <2>1, <2>2, <2>3, KeptElsewhere
<1> QED
  BY <1>1, <1>2, <1>3 DEF TaskStep, Fault, ReadRecord

LEMMA KeptCaller ==
    ASSUME TypeOK, LInv, KInv, NEW r \in Runs, CallerStep(r) \/ WriterStep(r) \/ RecoverNext(r)
    PROVE  KInv'
<1>0. UNCHANGED <<lines, step, bundled>>
  BY DEF CallerStep, WriterStep, AppendStream, AppendLog, Flush, CreateRun, DeleteRun,
         FlushTimer, Published, RecoverNext, files, tasks, history
<1>1. ASSUME NEW kind \in StreamKinds, NEW waits \in BOOLEAN, AppendStream(r, kind, waits)
      PROVE  KInv'
  <2>1. kind.type \in EventTypes /\ kind.request \in Nat
    BY LedgerAssumption
  <2>2. append(r, NewEvent(r, kind.type, kind.request), waits)
    BY <1>1 DEF AppendStream
  <2> QED
    BY <1>0, <2>1, <2>2, KeptAppend
<1>2. ASSUME NEW waits \in BOOLEAN, AppendLog(r, waits)
      PROVE  KInv'
  <2>1. append(r, NewEvent(r, "log", 0), waits) /\ "log" \in EventTypes
    BY <1>2 DEF AppendLog, EventTypes
  <2> QED
    BY <1>0, <2>1, KeptAppend
<1>3. CASE flushRun(r, events[r]) /\ UNCHANGED appended
  <2>1. events[r] \in Seq(Event) /\ appended[r] \in Nat
    BY DEF TypeOK
  <2>2. \A q \in Runs \ {r} : queue'[q] = queue[q] /\ events'[q] = events[q]
    BY <1>3 DEF flushRun, Enqueue, TypeOK
  <2>3. r \notin bundled => Kept(lines[r], queue'[r], step[r], events'[r], appended[r])
    BY <1>3, <2>1, KeptFlush DEF KInv
  <2> QED
    BY <1>0, <1>3, <2>2, <2>3, KeptElsewhere
<1>4. CASE UNCHANGED <<events, queue, appended>>
  BY <1>0, <1>4 DEF KInv
<1>5. CASE DeleteRun(r) \/ RecoverNext(r)
  <2>1. PICK op \in {"recover", "delete"} : Enqueue(r, op, <<>>)
    BY <1>5 DEF DeleteRun, RecoverNext
  <2>2. UNCHANGED <<events, appended>>
    BY <1>5 DEF DeleteRun, RecoverNext, buffers, callers
  <2>3. /\ queue[r] \in Seq(Task)
        /\ queue'[r] = Append(queue[r], [op |-> op, batch |-> <<>>])
        /\ \A q \in Runs \ {r} : queue'[q] = queue[q]
    BY <2>1 DEF TypeOK, Enqueue
  <2>4. r \notin bundled => Kept(lines[r], queue'[r], step[r], events[r], appended[r])
    BY <2>3, EnqueueKept DEF KInv
  <2> QED
    BY <1>0, <2>2, <2>3, <2>4, KeptElsewhere
<1>6. CASE Flush(r) \/ FlushTimer(r) \/ CreateRun(r) \/ Published(r)
  <2>1. \/ flushRun(r, events[r]) /\ UNCHANGED appended
        \/ UNCHANGED <<events, queue, appended>>
    BY <1>6 DEF Flush, FlushTimer, CreateRun, Published, tasks, buffers, callers
  <2> QED
    BY <1>3, <1>4, <2>1
<1> QED
  BY <1>1, <1>2, <1>5, <1>6 DEF CallerStep, WriterStep

LEMMA KeptOutside ==
    ASSUME TypeOK, IInv, KInv, ImportStep \/ \E r \in Runs : WriteNewRecord(r)
    PROVE  KInv'
<1>1. ASSUME NEW r \in Runs, WriteNewRecord(r)
      PROVE  KInv'
  <2>1. /\ lines' = [lines EXCEPT ![r] = lines[r]]
        /\ UNCHANGED <<queue, step, events, appended, bundled>>
    BY <1>1 DEF WriteNewRecord, KeptLines, tasks, buffers
  <2>2. \A q \in Runs : lines'[q] = lines[q]
    BY <2>1 DEF TypeOK
  <2> QED
    BY <2>1, <2>2 DEF KInv
<1>2. ASSUME NEW r \in Imported,
             (\E status \in {"running", "completed"} : ImportRecord(r, status, 1)) \/ ImportEvents(r)
      PROVE  KInv'
  <2>1. r \in Runs
    BY LedgerAssumption
  <2>2. /\ bundled \subseteq bundled' /\ r \in bundled'
        /\ \A q \in Runs \ {r} : lines'[q] = lines[q]
        /\ UNCHANGED <<queue, step, events, appended>>
    BY <1>2, <2>1 DEF ImportRecord, ImportEvents, tasks, buffers, callers, history, TypeOK,
                      IInv, FilesSound
  <2> QED
    BY <2>2, KeptElsewhere
<1> QED
  BY <1>1, <1>2 DEF ImportStep

\* What was in memory is gone; what was in the file was first.
LEMMA KeptCrash ==
    ASSUME TypeOK, KInv, Crash
    PROVE  KInv'
<1>1. /\ queue' = [r \in Runs |-> <<>>]
      /\ step' = [r \in Runs |-> "start"]
      /\ events' = [r \in Runs |-> <<>>]
      /\ UNCHANGED <<lines, appended, bundled>>
  BY DEF Crash, files
<1>2. Flushes(<<>>) = {}
  BY DEF Flushes
<1>3. ASSUME NEW r \in Runs \ bundled
      PROVE  Kept(lines[r], <<>>, "start", <<>>, appended[r])
  <2>1. PICK b, c \in Nat :
          Rising(lines[r], 0, b) /\ b <= c /\ Rising(events[r], c, appended[r])
    BY DEF KInv, Kept
  <2>2. appended[r] \in Nat /\ c <= appended[r] /\ Rising(<<>>, c, appended[r])
    BY <2>1, RisingEmpty DEF Rising
  <2> QED
    BY <1>2, <2>1, <2>2 DEF Kept
<1> QED
  BY <1>1, <1>3 DEF KInv

LEMMA KeptInit == Init => KInv
<1> SUFFICES ASSUME Init
             PROVE  KInv
  OBVIOUS
<1>1. Flushes(<<>>) = {} /\ Rising(<<>>, 0, 0)
  BY RisingEmpty DEF Flushes
<1>2. Kept(<<>>, <<>>, "start", <<>>, 0)
  BY <1>1 DEF Kept
<1> QED
  BY <1>2 DEF Init, KInv

LEMMA KeptStep == TypeOK /\ IInv /\ LInv /\ KInv /\ [Next]_vars => KInv'
<1> SUFFICES ASSUME TypeOK, IInv, LInv, KInv, [Next]_vars
             PROVE  KInv'
  OBVIOUS
<1>1. CASE ListOrphans \/ UNCHANGED vars
  <2>1. UNCHANGED <<lines, queue, step, events, appended, bundled>>
    BY <1>1 DEF ListOrphans, vars, files, tasks, buffers, callers, history
  <2> QED
    BY <2>1 DEF KInv
<1> QED
  BY <1>1, KeptTask, KeptCaller, KeptOutside, KeptCrash DEF Next

\* The whole of file, flush and buffer rises.
LEMMA KeptAscends ==
    ASSUME TypeOK, LInv, KInv, NEW r \in Runs \ bundled
    PROVE  Ascends(lines[r] \o Queued(r) \o events[r])
<1>1. PICK b, c \in Nat :
        /\ Rising(lines[r], 0, b)
        /\ b <= c
        /\ step[r] # "appended" => \A i \in Flushes(queue[r]) : Rising(queue[r][i].batch, b, c)
        /\ Rising(events[r], c, appended[r])
  BY DEF KInv, Kept
<1>2. SeqLike(lines[r]) /\ SeqLike(events[r]) /\ queue[r] \in Seq(Task)
  BY DEF TypeOK, SeqLike
<1>3. Rising(Queued(r), b, c) /\ SeqLike(Queued(r))
  <2>1. CASE step[r] = "appended" \/ Flushes(queue[r]) = {}
    <3>1. Queued(r) = <<>>
      BY <2>1 DEF Queued
    <3> QED
      BY <1>1, <3>1, EmptyLike, RisingEmpty
  <2>2. CASE ~(step[r] = "appended" \/ Flushes(queue[r]) = {})
    <3>1. PICK i \in Flushes(queue[r]) : Queued(r) = queue[r][i].batch
      BY <2>2 DEF Queued
    <3>2. queue[r][i] \in Task
      BY <1>2 DEF Flushes
    <3> QED
      BY <1>1, <2>2, <3>1, <3>2 DEF Task, SeqLike
  <2> QED
    BY <2>1, <2>2
<1>4. Rising(lines[r] \o Queued(r), 0, c) /\ SeqLike(lines[r] \o Queued(r))
  BY <1>1, <1>2, <1>3, RisingConcat, ConcatLike
<1> DEFINE s == (lines[r] \o Queued(r)) \o events[r]
<1>5. Rising(s, 0, appended[r]) /\ SeqLike(s)
  BY <1>1, <1>2, <1>4, RisingConcat, ConcatLike
<1> HIDE DEF s
<1>6. DOMAIN s = 1..Len(s)
  BY <1>5, ConcatLike
<1>7. Ascends(s)
  BY <1>5, <1>6 DEF Rising, Ascends
<1> QED
  BY <1>7 DEF s

-----------------------------------------------------------------------------
\* A chain from nothing covers the append calls up to its end.
LEMMA ChainCovers ==
    ASSUME NEW s, SeqLike(s), NEW n, Chain(s, 0, n)
    PROVE  Covers(s, n)
<1>1. Len(s) \in Nat /\ DOMAIN s = 1..Len(s)
  BY ConcatLike
<1>2. \A i \in DOMAIN s : s # <<>>
  <2>1. DOMAIN <<>> = {}
    OBVIOUS
  <2> QED
    BY <2>1
<1> QED
  BY <1>1, <1>2 DEF Chain, Covers

LEMMA LostNothing == TypeOK /\ LInv /\ KInv => NothingLost
<1> SUFFICES ASSUME TypeOK, LInv, KInv, NEW r \in Runs
             PROVE  /\ \A i, j \in Flushes(queue[r]) : i = j
                    /\ r \notin harmed =>
                          Covers(lines[r] \o Queued(r) \o events[r], appended[r])
                    /\ r \notin bundled => Ascends(lines[r] \o Queued(r) \o events[r])
  BY DEF NothingLost
<1>1. \A i, j \in Flushes(queue[r]) : i = j
  BY DEF LInv, OneFlush
<1>2. ASSUME r \notin harmed
      PROVE  Covers(lines[r] \o Queued(r) \o events[r], appended[r])
  <2>1. PICK b, c \in Nat :
        /\ Chain(lines[r], 0, b)
        /\ step[r] = "appended" \/ Flushes(queue[r]) = {} => b = c
        /\ step[r] # "appended" => \A i \in Flushes(queue[r]) : Chain(queue[r][i].batch, b, c)
        /\ Chain(events[r], c, appended[r])
    BY <1>2 DEF LInv, Carried
  <2>2. SeqLike(lines[r]) /\ SeqLike(events[r]) /\ queue[r] \in Seq(Task)
    BY DEF TypeOK, SeqLike
  <2>3. Chain(Queued(r), b, c) /\ SeqLike(Queued(r))
    <3>1. CASE step[r] = "appended" \/ Flushes(queue[r]) = {}
      <4>1. Queued(r) = <<>> /\ Len(<<>>) = 0 /\ 1..0 = {} /\ b = c
        BY <2>1, <3>1 DEF Queued
      <4> QED
        BY <4>1, EmptyLike DEF Chain
    <3>2. CASE ~(step[r] = "appended" \/ Flushes(queue[r]) = {})
      <4>1. PICK i \in Flushes(queue[r]) : Queued(r) = queue[r][i].batch
        BY <3>2 DEF Queued
      <4>2. queue[r][i] \in Task
        BY <2>2 DEF Flushes
      <4> QED
        BY <2>1, <3>2, <4>1, <4>2 DEF Task, SeqLike
    <3> QED
      BY <3>1, <3>2
  <2>4. Chain(lines[r] \o Queued(r), 0, c) /\ SeqLike(lines[r] \o Queued(r))
    BY <2>1, <2>2, <2>3, ChainConcat, ConcatLike
  <2>5. Chain((lines[r] \o Queued(r)) \o events[r], 0, appended[r])
    BY <2>1, <2>2, <2>4, ChainConcat
  <2>6. SeqLike((lines[r] \o Queued(r)) \o events[r])
    BY <2>2, <2>4, ConcatLike
  <2> QED
    BY <2>5, <2>6, ChainCovers
<1> QED
  BY <1>1, <1>2, KeptAscends

\* Whatever the batch size, the timers and the interleaving, the file, the flush in
\* the queue and the buffer of an undisturbed run are, end to end, all that its main
\* loop and its hooks appended; and whatever crashed, failed or was deleted, they are
\* pieces of it in order, none of them twice (`compactBufferedEvents', `flushRun' and
\* the write queue).
THEOREM LedgerNothingLost == Spec => []NothingLost
<1> DEFINE Inv == TypeOK /\ IInv /\ NInv /\ LInv /\ KInv
<1>1. Init => Inv
  BY TypeInit, InitSound, NumberedInit, LostInit, KeptInit
<1>2. Inv /\ [Next]_vars => Inv'
  BY TypeStep, NextSound, NumberedStep, LostStep, KeptStep
<1>3. Inv => NothingLost
  BY LostNothing
<1> QED
  BY <1>1, <1>2, <1>3, PTL DEF Spec
=============================================================================
