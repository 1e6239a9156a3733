---------------------------- MODULE DurableSteps ----------------------------
(* LedgerBackedDurableRunEngine over a FileDurableStepLedger: each run      *)
(* executes its steps in order, as DesignBuildDurableSpike.run does, and    *)
(* starts again from the first when a call rejects, a step fails or the     *)
(* process crashes. All runs of a process share one ledger object: one map  *)
(* in memory, one file and one temporary file beside it.                    *)
(*                                                                          *)
(* A step is identified by its run and its place in it, which is what its   *)
(* idempotency key encodes. A record is its status: outputs, errors and     *)
(* times are left out.                                                      *)
(*                                                                          *)
(* writeFile is what it is to the file system: the temporary file is opened *)
(* and emptied, then the bytes follow, into whatever that file has become.  *)
(* Saves that overlap so meet in one file, under either of its names.       *)
EXTENDS Naturals

CONSTANTS Runs,          \* the runs that share the ledger
          StepCount,     \* steps of a run
          NoFile,        \* in place of the content of a file that is not there
          Blank,         \* the content of a file that was opened for writing
          Torn,          \* any content that JSON.parse rejects
          MaxCrashes,    \* bound: crashes of the process
          MaxPutFaults,  \* bound: mkdir, writeFile or rename that fail
          MaxReadFaults, \* bound: readFile of the ledger that fails
          MaxEffects     \* bound: how often one executor resolves

ASSUME DurableAssumption ==
  /\ StepCount \in Nat \ {0}
  /\ {NoFile, Blank, Torn} \intersect
       [Runs \X (1..StepCount) -> {"none", "running", "completed", "failed"}] = {}
  /\ NoFile \notin {Blank, Torn}
  /\ Blank # Torn
  /\ MaxCrashes \in Nat
  /\ MaxPutFaults \in Nat
  /\ MaxReadFaults \in Nat
  /\ MaxEffects \in Nat

VARIABLES
  file,       \* the ledger file: a status for each key, "none" without a record
  temp,       \* the temporary file, NoFile when there is none
  text,       \* what each run's writeFile is to write
  handle,     \* what the file each run's writeFile opened is by now
  opened,     \* this.records is not null
  mem,        \* this.records
  loaded,     \* what readFile returned and ensureLoaded has yet to merge
  step,       \* the step each run is at
  pc,         \* where in executeStep each run is
  putting,    \* the status each run's ledger.put carries
  effects,    \* history: how often the executor of each key resolved
  repeats,    \* history: how often one did that had before
  answered,   \* the keys executeStep has answered "completed" for
  clashed,    \* history: the runs whose save under way met another's
  spoilt,     \* history: saves have met, and none that met no other came since
  crashes, putFaults, readFaults

disk == <<file, temp>>
writing == <<text, handle>>
cache == <<opened, mem, loaded>>
calls == <<step, pc, putting>>
performed == <<effects, repeats>>
meetings == <<clashed, spoilt>>
counts == <<crashes, putFaults, readFaults>>
vars == <<disk, writing, cache, calls, performed, answered, meetings, counts>>

Steps == 1..StepCount
Keys == Runs \X Steps
Status == {"none", "running", "completed", "failed"}
Contents == [Keys -> Status]
Empty == [k \in Keys |-> "none"]
Unreadable == {NoFile, Blank, Torn}

Key(r) == <<r, step[r]>>

Goto(r, label) == pc' = [pc EXCEPT ![r] = label]

\* The call rejects, or its step failed: the run is over and may be run again.
GiveUp(r) ==
  /\ Goto(r, "call")
  /\ step' = [step EXCEPT ![r] = 1]

\* executeStep returns a completed record and the run goes on to its next step.
Answer(r) ==
  /\ answered' = answered \union {Key(r)}
  /\ Goto(r, "call")
  /\ step' = [step EXCEPT ![r] = IF @ = StepCount THEN 1 ELSE @ + 1]

\* ledger.put of a record with this status.
StartPut(r, status) ==
  /\ putting' = [putting EXCEPT ![r] = status]
  /\ Goto(r, "put")

------------------------------------------------------------------------------
\* executeStep calls ledger.get; the first to do so makes an empty map and
\* starts to read the file, the others find the map.
Execute(r) ==
  /\ pc[r] = "call"
  /\ opened' = TRUE
  /\ Goto(r, IF opened THEN "get" ELSE "read")
  /\ UNCHANGED <<disk, writing, mem, loaded, step, putting, performed, answered,
                 meetings, counts>>

ReadFile(r) ==
  /\ pc[r] = "read"
  /\ file \notin Unreadable
  /\ loaded' = file
  /\ Goto(r, "fill")
  /\ UNCHANGED <<disk, writing, opened, mem, step, putting, performed, answered,
                 meetings, counts>>

\* JSON.parse throws, which is not ENOENT: the call rejects, the empty map stays.
ReadUnreadable(r) ==
  /\ pc[r] = "read"
  /\ file \in Unreadable
  /\ GiveUp(r)
  /\ UNCHANGED <<disk, writing, cache, putting, performed, answered, meetings, counts>>

\* fault: readFile fails with anything but ENOENT; the empty map stays.
ReadFails(r) ==
  /\ pc[r] = "read"
  /\ readFaults < MaxReadFaults
  /\ readFaults' = readFaults + 1
  /\ GiveUp(r)
  /\ UNCHANGED <<disk, writing, cache, putting, performed, answered, meetings,
                 crashes, putFaults>>

\* fault: the records that were read are not put into the map
MergedNone == mem

\* A record of the file replaces the one the map may have got meanwhile.
Merged == [k \in Keys |-> IF loaded[k] = "none" THEN mem[k] ELSE loaded[k]]

Fill(r) ==
  /\ pc[r] = "fill"
  /\ mem' = Merged
  /\ loaded' = Empty
  /\ Goto(r, "get")
  /\ UNCHANGED <<disk, writing, opened, step, putting, performed, answered,
                 meetings, counts>>

\* fault: a step that was started is taken for done
ReusableStarted(status) == status \in {"running", "completed"}

\* A completed record is returned again; anything else starts the step.
Reusable(status) == status = "completed"

Reuse(r) ==
  /\ pc[r] = "get"
  /\ Reusable(mem[Key(r)])
  /\ Answer(r)
  /\ UNCHANGED <<disk, writing, cache, putting, performed, meetings, counts>>

\* fault: the executor runs before the ledger says so
BeginAtOnce(r) ==
  /\ pc[r] = "get"
  /\ ~Reusable(mem[Key(r)])
  /\ Goto(r, "exec")
  /\ UNCHANGED <<disk, writing, cache, step, putting, performed, answered,
                 meetings, counts>>

Begin(r) ==
  /\ pc[r] = "get"
  /\ ~Reusable(mem[Key(r)])
  /\ StartPut(r, "running")
  /\ UNCHANGED <<disk, writing, cache, step, performed, answered, meetings, counts>>

Put(r) ==
  /\ pc[r] = "put"
  /\ mem' = [mem EXCEPT ![Key(r)] = putting[r]]
  /\ Goto(r, "write")
  /\ UNCHANGED <<disk, writing, opened, loaded, step, putting, performed, answered,
                 meetings, counts>>

Saving(r) == pc[r] \in {"open", "bytes", "rename"}

\* mkdir has resolved: the whole map is what writeFile is called with.
StartWrite(r) ==
  LET others == {q \in Runs : Saving(q)} IN
  /\ pc[r] = "write"
  /\ text' = [text EXCEPT ![r] = mem]
  /\ Goto(r, "open")
  /\ clashed' = IF others = {} THEN clashed ELSE clashed \union others \union {r}
  /\ spoilt' = (spoilt \/ others # {})
  /\ UNCHANGED <<disk, handle, cache, step, putting, performed, answered, counts>>

\* writeFile makes or empties the temporary file.
OpenTemp(r) ==
  /\ pc[r] = "open"
  /\ temp' = Blank
  /\ handle' = [handle EXCEPT ![r] = "temp"]
  /\ Goto(r, "bytes")
  /\ UNCHANGED <<file, text, cache, step, putting, performed, answered, meetings, counts>>

\* A file that was empty and is written by nobody else holds what is written;
\* otherwise the end of a longer text may show, or a part be missing.
Opened(r) == IF handle[r] = "file" THEN file ELSE temp

Written(r) ==
  IF Opened(r) = Blank /\ \A q \in Runs : handle[q] = handle[r] => q = r
    THEN {text[r]}
    ELSE {text[r], Torn}

\* These bytes get to the file that was opened, whatever its name is now.
Lands(r, content) ==
  /\ file' = IF handle[r] = "file" THEN content ELSE file
  /\ temp' = IF handle[r] = "temp" THEN content ELSE temp

Close(r) ==
  /\ handle' = [handle EXCEPT ![r] = "gone"]
  /\ text' = [text EXCEPT ![r] = Empty]

WriteBytes(r) ==
  /\ pc[r] = "bytes"
  /\ \E content \in Written(r) : Lands(r, content)
  /\ Close(r)
  /\ Goto(r, "rename")
  /\ UNCHANGED <<cache, step, putting, performed, answered, meetings, counts>>

\* The put resolves: the executor may run, or the call returns its record. The
\* file that was there is gone, but for those who are writing to it.
Rename(r) ==
  /\ pc[r] = "rename"
  /\ temp # NoFile
  /\ file' = temp
  /\ temp' = NoFile
  /\ handle' = [q \in Runs |-> IF handle[q] = "temp" THEN "file" ELSE "gone"]
  /\ clashed' = clashed \ {r}
  /\ spoilt' = (spoilt /\ r \in clashed)
  /\ \/ /\ putting[r] = "running"
        /\ Goto(r, "exec")
        /\ UNCHANGED <<step, answered>>
     \/ /\ putting[r] = "completed"
        /\ Answer(r)
     \/ /\ putting[r] = "failed"
        /\ GiveUp(r)
        /\ UNCHANGED answered
  /\ UNCHANGED <<text, cache, putting, performed, counts>>

\* What a rejected put of this status makes of the call: only the put of the
\* completed record is inside the try.
PutRejected(r) ==
  \/ /\ putting[r] = "completed"
     /\ StartPut(r, "failed")
     /\ UNCHANGED step
  \/ /\ putting[r] # "completed"
     /\ GiveUp(r)
     /\ UNCHANGED putting

\* Another run's rename has taken the temporary file away.
RenameMissing(r) ==
  /\ pc[r] = "rename"
  /\ temp = NoFile
  /\ PutRejected(r)
  /\ clashed' = clashed \ {r}
  /\ UNCHANGED <<disk, writing, cache, performed, answered, spoilt, counts>>

\* fault: mkdir, the opening, the writing, which may leave a part, or rename
\* fails.
PutFault(r) ==
  /\ pc[r] \in {"write", "open", "bytes", "rename"}
  /\ putFaults < MaxPutFaults
  /\ putFaults' = putFaults + 1
  /\ PutRejected(r)
  /\ Close(r)
  /\ clashed' = clashed \ {r}
  /\ \/ UNCHANGED disk
     \/ pc[r] = "bytes" /\ Lands(r, Torn)
  /\ UNCHANGED <<cache, performed, answered, spoilt, crashes, readFaults>>

Perform(r) ==
  /\ pc[r] = "exec"
  /\ effects[Key(r)] < MaxEffects
  /\ effects' = [effects EXCEPT ![Key(r)] = @ + 1]
  /\ repeats' = IF effects[Key(r)] = 0 THEN repeats ELSE repeats + 1
  /\ StartPut(r, "completed")
  /\ UNCHANGED <<disk, writing, cache, step, answered, meetings, counts>>

ExecutorRejects(r) ==
  /\ pc[r] = "exec"
  /\ StartPut(r, "failed")
  /\ UNCHANGED <<disk, writing, cache, step, performed, answered, meetings, counts>>

\* The process ends and a new engine with a new ledger object takes over; the
\* files stay, the temporary one too.
Crash ==
  /\ crashes < MaxCrashes
  /\ crashes' = crashes + 1
  /\ opened' = FALSE
  /\ mem' = Empty
  /\ loaded' = Empty
  /\ pc' = [r \in Runs |-> "call"]
  /\ step' = [r \in Runs |-> 1]
  /\ text' = [r \in Runs |-> Empty]
  /\ handle' = [r \in Runs |-> "gone"]
  /\ clashed' = {}
  /\ UNCHANGED <<disk, putting, performed, answered, spoilt, putFaults, readFaults>>

------------------------------------------------------------------------------
Init ==
  /\ file = Empty
  /\ temp = NoFile
  /\ text = [r \in Runs |-> Empty]
  /\ handle = [r \in Runs |-> "gone"]
  /\ opened = FALSE
  /\ mem = Empty
  /\ loaded = Empty
  /\ step = [r \in Runs |-> 1]
  /\ pc = [r \in Runs |-> "call"]
  /\ putting = [r \in Runs |-> "running"]
  /\ effects = [k \in Keys |-> 0]
  /\ repeats = 0
  /\ answered = {}
  /\ clashed = {}
  /\ spoilt = FALSE
  /\ crashes = 0
  /\ putFaults = 0
  /\ readFaults = 0

Next ==
  \/ \E r \in Runs :
       \/ Execute(r) \/ ReadFile(r) \/ ReadUnreadable(r) \/ ReadFails(r)
       \/ Fill(r) \/ Reuse(r) \/ Begin(r) \/ Put(r)
       \/ StartWrite(r) \/ OpenTemp(r) \/ WriteBytes(r) \/ Rename(r)
       \/ RenameMissing(r) \/ PutFault(r) \/ Perform(r) \/ ExecutorRejects(r)
  \/ Crash

Spec == Init /\ [][Next]_vars

------------------------------------------------------------------------------
\* The ledger file, its temporary file and the map in memory hold one status
\* for each key, and each run's call is at one of executeStep's awaits.
TypeOK ==
  /\ file \in Contents \union {Blank, Torn}
  /\ temp \in Contents \union Unreadable
  /\ text \in [Runs -> Contents]
  /\ handle \in [Runs -> {"temp", "file", "gone"}]
  /\ opened \in BOOLEAN
  /\ mem \in Contents
  /\ loaded \in Contents
  /\ step \in [Runs -> Steps]
  /\ pc \in [Runs -> {"call", "read", "fill", "get", "put", "write",
                      "open", "bytes", "rename", "exec"}]
  /\ putting \in [Runs -> Status \ {"none"}]
  /\ effects \in [Keys -> Nat]
  /\ repeats \in Nat
  /\ answered \in SUBSET Keys
  /\ clashed \in SUBSET Runs
  /\ spoilt \in BOOLEAN
  /\ crashes \in 0..MaxCrashes
  /\ putFaults \in 0..MaxPutFaults
  /\ readFaults \in 0..MaxReadFaults

\* What a reader of this content is told of a step.
HasRecord(content, k) == content \notin Unreadable /\ content[k] # "none"
SaysDone(content, k) == content \notin Unreadable /\ content[k] = "completed"

\* A run that has the ledger to itself and can always read it gets what
\* StepMemo promises, whatever else fails and whenever the process dies: the
\* steps recorded completed in the file are what is remembered.
Memo == INSTANCE StepMemo
          WITH done <- {k \in Keys : SaysDone(file, k)}
RemembersSteps == Memo!Spec

\* A completed answer survives: the file holds it as completed from then on.
AnsweredIsOnFile == \A k \in answered : SaysDone(file, k)

\* Each crash and each failed write of the ledger costs at most one repetition
\* of one side effect.
RepeatsBounded == repeats <= crashes + putFaults

\* Nothing happens that a later reader of the file could not know of: while an
\* executor runs, and until its outcome is recorded, the file can be read and
\* has a record of the step. Saves that met each other break that, and only the
\* rename of a save that met no other mends it. And never does a file that can
\* be read say completed without a side effect behind it.
FileTellsOfSteps ==
  /\ ~spoilt => /\ file \notin Unreadable
                /\ \A r \in Runs :
                     pc[r] = "exec" \/ (pc[r] \in {"put", "write", "open", "bytes", "rename"}
                                          /\ putting[r] # "running")
                       => HasRecord(file, Key(r))
  /\ \A k \in Keys : SaysDone(file, k) => effects[k] > 0

\* A step recorded completed in the file is not performed again.
CompletedNotRepeated ==
  [][\A k \in Keys : SaysDone(file, k) => effects'[k] = effects[k]]_vars
=============================================================================
