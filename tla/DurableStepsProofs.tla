------------------------- MODULE DurableStepsProofs -------------------------
(* Proofs about DurableSteps: what the file tells of the steps of any runs  *)
(* that share it, and that a run which has the ledger to itself and can     *)
(* read it gets what StepMemo promises and repeats a side effect only after *)
(* a crash or a failed write.                                               *)
EXTENDS DurableSteps, TLAPS

\* The calls whose put is under way, and those with a record of their step
\* already in the file.
InPut(r) == pc[r] \in {"put", "write", "open", "bytes", "rename"}
Told(r) == pc[r] = "exec" \/ (InPut(r) /\ putting[r] # "running")

\* Only a writeFile under way holds a file open, and one that meets no other
\* the temporary file it has just emptied. Saves under way together are clashed.
Apart ==
  /\ \A r \in clashed : Saving(r)
  /\ clashed # {} => spoilt
  /\ \A r, q \in Runs : Saving(r) /\ Saving(q) /\ r # q => r \in clashed
  /\ \A r \in Runs :
       /\ handle[r] # "gone" => pc[r] = "bytes"
       /\ r \notin clashed /\ pc[r] = "bytes" => handle[r] = "temp" /\ temp = Blank

\* Wherever a record says completed, the executor did resolve.
Sound ==
  /\ \A k \in Keys :
       SaysDone(file, k) \/ SaysDone(temp, k) \/ mem[k] = "completed"
         \/ loaded[k] = "completed" \/ (\E r \in Runs : text[r][k] = "completed")
       => effects[k] > 0
  /\ \A r \in Runs :
       InPut(r) /\ putting[r] = "completed" => effects[Key(r)] > 0

\* The steps being executed have a record in the map, in the file unless saves
\* have met, and in what a save that meets no other is about to put there.
Recorded ==
  /\ \A r \in Runs : pc[r] = "write" \/ Saving(r) \/ Told(r) => mem[Key(r)] # "none"
  /\ ~spoilt => file \in Contents /\ \A r \in Runs : Told(r) => file[Key(r)] # "none"
  /\ \A r \in Runs :
       pc[r] \in {"open", "bytes"} /\ r \notin clashed
         => \A q \in Runs : q = r \/ Told(q) => text[r][Key(q)] # "none"
  /\ \A r \in Runs :
       pc[r] = "rename" /\ r \notin clashed
         => /\ temp \in Contents
            /\ \A q \in Runs : q = r \/ Told(q) => temp[Key(q)] # "none"

FileInv == TypeOK /\ Apart /\ Sound /\ Recorded

\* The rest is about one run alone with the ledger.
Alone == (\A r, q \in Runs : r = q) /\ MaxReadFaults = 0

\* What is in memory, and where it may differ from the file.
Loading ==
  /\ clashed = {} /\ ~spoilt
  /\ ~opened => mem = Empty /\ \A r \in Runs : pc[r] = "call"
  /\ \A r \in Runs :
       /\ pc[r] \in {"read", "fill"} => mem = Empty
       /\ IF pc[r] = "fill" THEN loaded = file ELSE loaded = Empty
       /\ pc[r] = "write" \/ Saving(r) => mem[Key(r)] = putting[r]
       /\ pc[r] = "exec" => mem[Key(r)] = "running"
       /\ pc[r] \in {"open", "bytes"} => text[r] = mem
       /\ pc[r] = "rename" => temp = mem

Busy(r) == InPut(r) \/ pc[r] = "exec"
Cached == opened /\ \A r \in Runs : pc[r] \notin {"read", "fill"}

\* The map and the file agree on what is completed, but for the step in hand.
Agree ==
  /\ \A r \in Runs : Busy(r) => file[Key(r)] # "completed"
  /\ Cached => \A k \in Keys : file[k] = "completed" => mem[k] = "completed"
  /\ \A k \in Keys :
       mem[k] = "completed" /\ (\A r \in Runs : Busy(r) => k # Key(r))
         => file[k] = "completed"

InOrder ==
  \A r \in Runs : \A t \in Steps : t < step[r] => file[<<r, t>>] = "completed"

OnFile == \A k \in answered : file[k] = "completed"

AloneInv == FileInv /\ Loading /\ Agree /\ InOrder /\ OnFile

------------------------------------------------------------------------------
LEMMA KeyType ==
  ASSUME TypeOK, NEW r \in Runs
  PROVE  Key(r) \in Keys
  BY DEF TypeOK, Key, Keys

LEMMA StepsType ==
  /\ 1 \in Steps
  /\ \A s \in Steps : s # StepCount => s + 1 \in Steps
  BY DurableAssumption DEF Steps

LEMMA ContentsReadable == \A content \in Contents : content \notin Unreadable
  BY DurableAssumption DEF Contents, Keys, Steps, Status, Unreadable

\* Every action keeps the types.
LEMMA TypeInit == Init => TypeOK
<1> SUFFICES ASSUME Init PROVE TypeOK
  OBVIOUS
<1>1. file \in Contents /\ mem \in Contents /\ loaded \in Contents
  BY DEF Init, Contents, Empty, Status
<1>2. step \in [Runs -> Steps] /\ effects \in [Keys -> Nat]
  BY StepsType DEF Init
<1>3. pc \in [Runs -> {"call", "read", "fill", "get", "put", "write",
                      "open", "bytes", "rename", "exec"}]
  BY DEF Init
<1>4. putting \in [Runs -> Status \ {"none"}]
  BY DEF Init, Status
<1>5. /\ crashes \in 0..MaxCrashes /\ putFaults \in 0..MaxPutFaults
      /\ readFaults \in 0..MaxReadFaults
  BY DurableAssumption DEF Init
<1>6. temp \in Contents \union Unreadable /\ opened \in BOOLEAN
        /\ text \in [Runs -> Contents] /\ handle \in [Runs -> {"temp", "file", "gone"}]
        /\ clashed \in SUBSET Runs /\ spoilt \in BOOLEAN
        /\ answered \in SUBSET Keys /\ repeats \in Nat
  BY <1>1 DEF Init, Unreadable
<1>7. QED
  BY <1>1, <1>2, <1>3, <1>4, <1>5, <1>6 DEF TypeOK

LEMMA TypeStep == TypeOK /\ [Next]_vars => TypeOK'
<1> SUFFICES ASSUME TypeOK, [Next]_vars PROVE TypeOK'
  OBVIOUS
<1> USE DEF TypeOK, disk, writing, cache, calls, performed, meetings, counts
<1>k. \A r \in Runs : Key(r) \in Keys
  BY KeyType
<1>e. Empty \in Contents /\ "none" \in Status /\ "running" \in Status
        /\ "failed" \in Status /\ "completed" \in Status
  BY DEF Empty, Contents, Status
<1>1. ASSUME NEW r \in Runs, Execute(r) PROVE TypeOK'
  BY <1>k, <1>1 DEF Execute, Goto
<1>2. ASSUME NEW r \in Runs, ReadFile(r) PROVE TypeOK'
  BY <1>k, <1>2 DEF ReadFile, Goto, Unreadable
<1>2a. ASSUME NEW r \in Runs, ReadUnreadable(r) PROVE TypeOK'
  BY <1>k, <1>2a, StepsType DEF ReadUnreadable, GiveUp, Goto
<1>3. ASSUME NEW r \in Runs, ReadFails(r) PROVE TypeOK'
  BY <1>k, <1>3, StepsType, DurableAssumption DEF ReadFails, GiveUp, Goto
<1>4. ASSUME NEW r \in Runs, Fill(r) PROVE TypeOK'
  BY <1>k, <1>4, <1>e DEF Fill, Merged, Goto, Contents
<1>5. ASSUME NEW r \in Runs, Reuse(r) PROVE TypeOK'
  BY <1>k, <1>5, StepsType DEF Reuse, Answer, Goto
<1>6. ASSUME NEW r \in Runs, Begin(r) PROVE TypeOK'
  BY <1>k, <1>6, <1>e DEF Begin, StartPut, Goto
<1>7. ASSUME NEW r \in Runs, Put(r) PROVE TypeOK'
  BY <1>k, <1>7, <1>e DEF Put, Goto, Contents
<1>8. ASSUME NEW r \in Runs, StartWrite(r) PROVE TypeOK'
  BY <1>k, <1>8 DEF StartWrite, Saving, Goto
<1>8a. ASSUME NEW r \in Runs, OpenTemp(r) PROVE TypeOK'
  BY <1>k, <1>8a DEF OpenTemp, Goto, Unreadable
<1>8b. ASSUME NEW r \in Runs, WriteBytes(r) PROVE TypeOK'
  <2>1. Written(r) \subseteq Contents \union {Torn}
    BY <1>8b DEF Written
  <2> QED
    BY <1>k, <1>e, <1>8b, <2>1 DEF WriteBytes, Lands, Close, Goto, Unreadable
<1>9. ASSUME NEW r \in Runs, Rename(r) PROVE TypeOK'
  BY <1>k, <1>9, StepsType DEF Rename, Answer, GiveUp, Goto, Unreadable
<1>10. ASSUME NEW r \in Runs, RenameMissing(r) PROVE TypeOK'
  BY <1>k, <1>10, StepsType, <1>e DEF RenameMissing, PutRejected, StartPut, GiveUp, Goto
<1>11. ASSUME NEW r \in Runs, PutFault(r) PROVE TypeOK'
  <2>1. file' \in Contents \union {Blank, Torn} /\ temp' \in Contents \union Unreadable
    BY <1>11 DEF PutFault, Lands, Unreadable
  <2>2. text' \in [Runs -> Contents] /\ handle' \in [Runs -> {"temp", "file", "gone"}]
    BY <1>11, <1>e DEF PutFault, Close
  <2>3. step' \in [Runs -> Steps] /\ putting' \in [Runs -> Status \ {"none"}]
    BY <1>11, <1>e, StepsType DEF PutFault, PutRejected, StartPut, GiveUp, Status
  <2>4. pc' \in [Runs -> {"call", "read", "fill", "get", "put", "write",
                         "open", "bytes", "rename", "exec"}]
    BY <1>11 DEF PutFault, PutRejected, StartPut, GiveUp, Goto
  <2>5. putFaults' \in 0..MaxPutFaults
    BY <1>11, DurableAssumption DEF PutFault
  <2> QED
    BY <1>11, <2>1, <2>2, <2>3, <2>4, <2>5 DEF PutFault
<1>12. ASSUME NEW r \in Runs, Perform(r) PROVE TypeOK'
  BY <1>k, <1>12, <1>e DEF Perform, StartPut, Goto, performed
<1>13. ASSUME NEW r \in Runs, ExecutorRejects(r) PROVE TypeOK'
  BY <1>k, <1>13, <1>e DEF ExecutorRejects, StartPut, Goto
<1>14. CASE Crash
  <2>1. step' \in [Runs -> Steps]
    BY <1>14, StepsType DEF Crash
  <2>2. crashes' \in 0..MaxCrashes
    BY <1>14, DurableAssumption DEF Crash
  <2>3. QED
    BY <1>14, <1>e, <2>1, <2>2 DEF Crash
<1>15. CASE UNCHANGED vars
  BY <1>15 DEF vars
<1>16. QED
  BY <1>1, <1>2, <1>2a, <1>3, <1>4, <1>5, <1>6, <1>7, <1>8, <1>8a, <1>8b, <1>9,
     <1>10, <1>11, <1>12, <1>13, <1>14, <1>15 DEF Next
------------------------------------------------------------------------------
\* Saves that are under way together know of each other.
LEMMA ApartStep == TypeOK /\ Apart /\ [Next]_vars => Apart'
<1> SUFFICES ASSUME TypeOK /\ Apart, [Next]_vars PROVE Apart'
  OBVIOUS
<1> USE DEF disk, writing, cache, calls, performed, meetings, counts, TypeOK, Apart, Saving
<1>t. TypeOK /\ TypeOK'
  BY TypeStep
<1>1. ASSUME NEW r \in Runs, Execute(r) PROVE Apart'
  BY <1>1, <1>t DEF Execute, Goto
<1>2. ASSUME NEW r \in Runs, ReadFile(r) PROVE Apart'
  BY <1>2, <1>t DEF ReadFile, Goto
<1>2a. ASSUME NEW r \in Runs, ReadUnreadable(r) PROVE Apart'
  BY <1>2a, <1>t DEF ReadUnreadable, GiveUp, Goto
<1>3. ASSUME NEW r \in Runs, ReadFails(r) PROVE Apart'
  BY <1>3, <1>t DEF ReadFails, GiveUp, Goto
<1>4. ASSUME NEW r \in Runs, Fill(r) PROVE Apart'
  BY <1>4, <1>t DEF Fill, Goto
<1>5. ASSUME NEW r \in Runs, Reuse(r) PROVE Apart'
  BY <1>5, <1>t DEF Reuse, Answer, Goto
<1>6. ASSUME NEW r \in Runs, Begin(r) PROVE Apart'
  BY <1>6, <1>t DEF Begin, StartPut, Goto
<1>7. ASSUME NEW r \in Runs, Put(r) PROVE Apart'
  BY <1>7, <1>t DEF Put, Goto
<1>8. ASSUME NEW r \in Runs, StartWrite(r) PROVE Apart'
  <2>1. /\ pc[r] = "write" /\ pc' = [pc EXCEPT ![r] = "open"]
        /\ UNCHANGED <<temp, handle>>
    BY <1>8 DEF StartWrite, Goto
  <2>2. CASE {q \in Runs : Saving(q)} = {}
    <3>1. clashed' = clashed /\ spoilt' = spoilt /\ \A q \in Runs : ~Saving(q)
      BY <1>8, <2>2 DEF StartWrite
    <3> QED
      BY <2>1, <3>1, <1>t
  <2>3. CASE {q \in Runs : Saving(q)} # {}
    <3>1. /\ clashed' = clashed \union {q \in Runs : Saving(q)} \union {r}
          /\ spoilt'
      BY <1>8, <2>3 DEF StartWrite
    <3> QED
      BY <2>1, <3>1, <1>t
  <2> QED
    BY <2>2, <2>3
<1>8a. ASSUME NEW r \in Runs, OpenTemp(r) PROVE Apart'
  BY <1>8a, <1>t DEF OpenTemp, Goto
<1>8b. ASSUME NEW r \in Runs, WriteBytes(r) PROVE Apart'
  BY <1>8b, <1>t DEF WriteBytes, Lands, Close, Goto
<1>9. ASSUME NEW r \in Runs, Rename(r) PROVE Apart'
  <2>1. /\ pc[r] = "rename" /\ clashed' = clashed \ {r}
        /\ spoilt' = (spoilt /\ r \in clashed)
        /\ handle' = [q \in Runs |-> IF handle[q] = "temp" THEN "file" ELSE "gone"]
    BY <1>9 DEF Rename
  <2>2. pc'[r] \in {"exec", "call"} /\ \A q \in Runs : q # r => pc'[q] = pc[q]
    BY <1>9, <1>t DEF Rename, Answer, GiveUp, Goto
  <2>3. \A q \in Runs : q # r /\ Saving(q) => q \in clashed /\ r \in clashed
    BY <2>1
  <2> QED
    BY <2>1, <2>2, <2>3, <1>t
<1>10. ASSUME NEW r \in Runs, RenameMissing(r) PROVE Apart'
  BY <1>10, <1>t DEF RenameMissing, PutRejected, StartPut, GiveUp, Goto
<1>11. ASSUME NEW r \in Runs, PutFault(r) PROVE Apart'
  BY <1>11, <1>t DEF PutFault, Lands, Close, PutRejected, StartPut, GiveUp, Goto
<1>12. ASSUME NEW r \in Runs, Perform(r) PROVE Apart'
  BY <1>12, <1>t DEF Perform, StartPut, Goto
<1>13. ASSUME NEW r \in Runs, ExecutorRejects(r) PROVE Apart'
  BY <1>13, <1>t DEF ExecutorRejects, StartPut, Goto
<1>14. CASE Crash
  BY <1>14, <1>t DEF Crash
<1>15. CASE UNCHANGED vars
  BY <1>15 DEF vars
<1>16. QED
  BY <1>1, <1>2, <1>2a, <1>3, <1>4, <1>5, <1>6, <1>7, <1>8, <1>8a, <1>8b, <1>9,
     <1>10, <1>11, <1>12, <1>13, <1>14, <1>15 DEF Next

\* No action makes a record say completed before the executor resolved.
LEMMA SoundStep == TypeOK /\ Sound /\ [Next]_vars => Sound'
<1> SUFFICES ASSUME TypeOK /\ Sound, [Next]_vars PROVE Sound'
  OBVIOUS
<1> USE DEF disk, writing, cache, calls, performed, meetings, counts, TypeOK, Sound, SaysDone, InPut, Key, Contents
<1>t. TypeOK /\ TypeOK'
  BY TypeStep
<1>k. \A r \in Runs : Key(r) \in Keys
  BY <1>t, KeyType
<1>u. Blank \in Unreadable /\ Torn \in Unreadable /\ NoFile \in Unreadable
  BY DEF Unreadable
<1>1. ASSUME NEW r \in Runs, Execute(r) PROVE Sound'
  BY <1>1, <1>k, <1>t DEF Execute, Goto
<1>2. ASSUME NEW r \in Runs, ReadFile(r) PROVE Sound'
  BY <1>2, <1>k, <1>t DEF ReadFile, Goto
<1>2a. ASSUME NEW r \in Runs, ReadUnreadable(r) PROVE Sound'
  BY <1>2a, <1>k, <1>t DEF ReadUnreadable, GiveUp, Goto
<1>3. ASSUME NEW r \in Runs, ReadFails(r) PROVE Sound'
  BY <1>3, <1>k, <1>t DEF ReadFails, GiveUp, Goto
<1>4. ASSUME NEW r \in Runs, Fill(r) PROVE Sound'
  BY <1>4, <1>k, <1>t DEF Fill, Merged, Empty, Goto
<1>5. ASSUME NEW r \in Runs, Reuse(r) PROVE Sound'
  BY <1>5, <1>k, <1>t DEF Reuse, Answer, Reusable, Goto
<1>6. ASSUME NEW r \in Runs, Begin(r) PROVE Sound'
  BY <1>6, <1>k, <1>t DEF Begin, StartPut, Reusable, Goto
<1>7. ASSUME NEW r \in Runs, Put(r) PROVE Sound'
  BY <1>7, <1>k, <1>t DEF Put, Goto
<1>8. ASSUME NEW r \in Runs, StartWrite(r) PROVE Sound'
  BY <1>8, <1>k, <1>t DEF StartWrite, Saving, Goto
<1>8a. ASSUME NEW r \in Runs, OpenTemp(r) PROVE Sound'
  BY <1>8a, <1>k, <1>t, <1>u DEF OpenTemp, Goto
<1>8b. ASSUME NEW r \in Runs, WriteBytes(r) PROVE Sound'
  <2>1. PICK content \in Written(r) : Lands(r, content)
    BY <1>8b DEF WriteBytes
  <2>2. content = text[r] \/ content = Torn
    BY <2>1 DEF Written
  <2>3. \A k \in Keys : SaysDone(file', k) \/ SaysDone(temp', k)
          => SaysDone(file, k) \/ SaysDone(temp, k) \/ text[r][k] = "completed"
    BY <2>1, <2>2, <1>u DEF Lands
  <2>4. \A k \in Keys, q \in Runs : text'[q][k] = "completed" => text[q][k] = "completed"
    BY <1>8b, <1>t DEF WriteBytes, Close, Empty
  <2>5. \A q \in Runs : InPut(q)' => InPut(q)
    BY <1>8b, <1>t DEF WriteBytes, Goto
  <2> QED
    BY <1>8b, <1>k, <2>3, <2>4, <2>5 DEF WriteBytes
<1>9. ASSUME NEW r \in Runs, Rename(r) PROVE Sound'
  <2>1. \A k \in Keys : SaysDone(file', k) \/ SaysDone(temp', k) => SaysDone(temp, k)
    BY <1>9, <1>u DEF Rename
  <2>2. \A q \in Runs : InPut(q)' => InPut(q) /\ q # r
    BY <1>9, <1>t DEF Rename, Answer, GiveUp, Goto
  <2>3. \A q \in Runs : q # r => Key(q)' = Key(q)
    BY <1>9, <1>t DEF Rename, Answer, GiveUp
  <2>4. text' = text /\ mem' = mem /\ loaded' = loaded /\ effects' = effects /\ putting' = putting
    BY <1>9 DEF Rename
  <2> QED
    BY <2>1, <2>2, <2>3, <2>4
<1>10. ASSUME NEW r \in Runs, RenameMissing(r) PROVE Sound'
  <2>1. UNCHANGED <<file, temp, text, mem, loaded, effects>>
    BY <1>10 DEF RenameMissing
  <2>2. \A q \in Runs : InPut(q)' /\ putting'[q] = "completed"
          => InPut(q) /\ putting[q] = "completed" /\ Key(q)' = Key(q)
    <3>1. CASE putting[r] = "completed"
      BY <1>10, <3>1, <1>t DEF RenameMissing, PutRejected, StartPut, Goto
    <3>2. CASE putting[r] # "completed"
      BY <1>10, <3>2, <1>t DEF RenameMissing, PutRejected, GiveUp, Goto
    <3> QED
      BY <3>1, <3>2
  <2> QED
    BY <2>1, <2>2
<1>11. ASSUME NEW r \in Runs, PutFault(r) PROVE Sound'
  <2>1. /\ UNCHANGED <<mem, loaded, effects>>
        /\ \A k \in Keys : SaysDone(file', k) \/ SaysDone(temp', k)
             => SaysDone(file, k) \/ SaysDone(temp, k)
    BY <1>11, <1>u DEF PutFault, Lands
  <2>2. \A k \in Keys, q \in Runs : text'[q][k] = "completed" => text[q][k] = "completed"
    BY <1>11, <1>t DEF PutFault, Close, Empty
  <2>3. \A q \in Runs : InPut(q)' /\ putting'[q] = "completed"
          => InPut(q) /\ putting[q] = "completed" /\ Key(q)' = Key(q)
    <3>1. CASE putting[r] = "completed"
      BY <1>11, <3>1, <1>t DEF PutFault, PutRejected, StartPut, Goto
    <3>2. CASE putting[r] # "completed"
      BY <1>11, <3>2, <1>t DEF PutFault, PutRejected, GiveUp, Goto
    <3> QED
      BY <3>1, <3>2
  <2> QED
    BY <2>1, <2>2, <2>3
<1>12. ASSUME NEW r \in Runs, Perform(r) PROVE Sound'
  BY <1>12, <1>k, <1>t DEF Perform, StartPut, Goto
<1>13. ASSUME NEW r \in Runs, ExecutorRejects(r) PROVE Sound'
  BY <1>13, <1>k, <1>t DEF ExecutorRejects, StartPut, Goto
<1>14. CASE Crash
  BY <1>14, <1>k, <1>t DEF Crash, Empty
<1>15. CASE UNCHANGED vars
  BY <1>15 DEF vars
<1>16. QED
  BY <1>1, <1>2, <1>2a, <1>3, <1>4, <1>5, <1>6, <1>7, <1>8, <1>8a, <1>8b, <1>9,
     <1>10, <1>11, <1>12, <1>13, <1>14, <1>15 DEF Next

\* No action loses the record of a step that is being executed.
LEMMA RecordedStep == TypeOK /\ Apart /\ Recorded /\ [Next]_vars => Recorded'
<1> SUFFICES ASSUME TypeOK /\ Apart /\ Recorded, [Next]_vars PROVE Recorded'
  OBVIOUS
<1> USE DEF disk, writing, cache, calls, performed, meetings, counts, TypeOK, Apart, Recorded, Told, InPut, Saving, Key, Contents
<1>t. TypeOK /\ TypeOK'
  BY TypeStep
<1>k. \A r \in Runs : Key(r) \in Keys
  BY <1>t, KeyType
<1>1. ASSUME NEW r \in Runs, Execute(r) PROVE Recorded'
  BY <1>1, <1>k, <1>t DEF Execute, Goto
<1>2. ASSUME NEW r \in Runs, ReadFile(r) PROVE Recorded'
  BY <1>2, <1>k, <1>t DEF ReadFile, Goto
<1>2a. ASSUME NEW r \in Runs, ReadUnreadable(r) PROVE Recorded'
  BY <1>2a, <1>k, <1>t DEF ReadUnreadable, GiveUp, Goto
<1>3. ASSUME NEW r \in Runs, ReadFails(r) PROVE Recorded'
  BY <1>3, <1>k, <1>t DEF ReadFails, GiveUp, Goto
<1>4. ASSUME NEW r \in Runs, Fill(r) PROVE Recorded'
  BY <1>4, <1>k, <1>t DEF Fill, Merged, Empty, Goto
<1>5. ASSUME NEW r \in Runs, Reuse(r) PROVE Recorded'
  BY <1>5, <1>k, <1>t DEF Reuse, Answer, Reusable, Goto
<1>6. ASSUME NEW r \in Runs, Begin(r) PROVE Recorded'
  BY <1>6, <1>k, <1>t DEF Begin, StartPut, Reusable, Goto
<1>7. ASSUME NEW r \in Runs, Put(r) PROVE Recorded'
  BY <1>7, <1>k, <1>t DEF Put, Goto
<1>8. ASSUME NEW r \in Runs, StartWrite(r) PROVE Recorded'
  BY <1>8, <1>k, <1>t DEF StartWrite, Saving, Goto
<1>8a. ASSUME NEW r \in Runs, OpenTemp(r) PROVE Recorded'
  BY <1>8a, <1>k, <1>t DEF OpenTemp, Saving, Goto
<1>8b. ASSUME NEW r \in Runs, WriteBytes(r) PROVE Recorded'
  BY <1>8b, <1>k, <1>t DEF WriteBytes, Written, Opened, Lands, Close, Saving, Goto
<1>9. ASSUME NEW r \in Runs, Rename(r) PROVE Recorded'
  <2>1. /\ pc[r] = "rename" /\ file' = temp
        /\ UNCHANGED <<mem, text, putting>> /\ clashed' = clashed \ {r}
        /\ spoilt' = (spoilt /\ r \in clashed)
    BY <1>9 DEF Rename
  <2>2. \A q \in Runs : Told(q)' => (q = r \/ Told(q)) /\ Key(q)' = Key(q)
    BY <1>9, <1>t DEF Rename, Answer, GiveUp, Goto
  <2>3. \A q \in Runs : q # r => pc'[q] = pc[q] /\ Key(q)' = Key(q)
    BY <1>9, <1>t DEF Rename, Answer, GiveUp, Goto
  <2>4. pc'[r] \in {"exec", "call"}
    BY <1>9, <1>t DEF Rename, Answer, GiveUp, Goto
  <2>5. \A q \in Runs : q # r /\ Saving(q) => q \in clashed /\ r \in clashed
    BY <2>1
  <2>6. \A q \in Runs : Saving(q)' => Saving(q) /\ q # r /\ q \in clashed'
    BY <2>1, <2>3, <2>4, <2>5
  <2>7. \A q \in Runs : pc'[q] = "write" \/ Saving(q)' \/ Told(q)' => mem'[Key(q)'] # "none"
    BY <2>1, <2>2, <2>3, <2>4
  <2>8. ~spoilt' => file' \in Contents /\ \A q \in Runs : Told(q)' => file'[Key(q)'] # "none"
    BY <2>1, <2>2
  <2> QED
    BY <2>6, <2>7, <2>8
<1>10. ASSUME NEW r \in Runs, RenameMissing(r) PROVE Recorded'
  <2>1. /\ UNCHANGED <<mem, spoilt>> /\ clashed' = clashed \ {r}
    BY <1>10 DEF RenameMissing
  <2>2. /\ \A q \in Runs : q # r => pc'[q] = pc[q] /\ Key(q)' = Key(q)
        /\ pc'[r] \in {"put", "call"}
        /\ \A q \in Runs : Told(q)' => Told(q) /\ Key(q)' = Key(q)
    <3>1. CASE putting[r] = "completed"
      BY <1>10, <3>1, <1>t DEF RenameMissing, PutRejected, StartPut, Goto
    <3>2. CASE putting[r] # "completed"
      BY <1>10, <3>2, <1>t DEF RenameMissing, PutRejected, GiveUp, Goto
    <3> QED
      BY <3>1, <3>2
  <2>3. pc[r] = "rename" /\ file' = file
    BY <1>10 DEF RenameMissing
  <2>4. \A q \in Runs : Saving(q)' => q \in clashed'
    BY <2>1, <2>2, <2>3
  <2> QED
    BY <2>1, <2>2, <2>3, <2>4
<1>11. ASSUME NEW r \in Runs, PutFault(r) PROVE Recorded'
  <2>1. /\ UNCHANGED <<mem, spoilt>> /\ clashed' = clashed \ {r}
    BY <1>11 DEF PutFault
  <2>2. /\ \A q \in Runs : q # r => pc'[q] = pc[q] /\ Key(q)' = Key(q)
        /\ pc'[r] \in {"put", "call"}
        /\ \A q \in Runs : Told(q)' => Told(q) /\ Key(q)' = Key(q)
    <3>1. CASE putting[r] = "completed"
      BY <1>11, <3>1, <1>t DEF PutFault, PutRejected, StartPut, Goto
    <3>2. CASE putting[r] # "completed"
      BY <1>11, <3>2, <1>t DEF PutFault, PutRejected, GiveUp, Goto
    <3> QED
      BY <3>1, <3>2
  <2>3. ~spoilt => file' = file
    BY <1>11 DEF PutFault, Lands
  <2>4. CASE pc[r] = "write"
    <3>1. temp' = temp /\ clashed' = clashed
          /\ \A q \in Runs : q # r => text'[q] = text[q]
      BY <1>11, <1>t, <2>1, <2>4 DEF PutFault, Close
    <3>2. \A q \in Runs : Saving(q)' => Saving(q) /\ q # r
      BY <2>2
    <3> QED
      BY <2>1, <2>2, <2>3, <3>1, <3>2
  <2>5. CASE Saving(r)
    <3>1. \A q \in Runs : Saving(q)' => q \in clashed'
      BY <2>1, <2>2, <2>5
    <3> QED
      BY <2>1, <2>2, <2>3, <3>1
  <2> QED
    BY <1>11, <2>4, <2>5 DEF PutFault
<1>12. ASSUME NEW r \in Runs, Perform(r) PROVE Recorded'
  BY <1>12, <1>k, <1>t DEF Perform, StartPut, Goto
<1>13. ASSUME NEW r \in Runs, ExecutorRejects(r) PROVE Recorded'
  BY <1>13, <1>k, <1>t DEF ExecutorRejects, StartPut, Goto
<1>14. CASE Crash
  BY <1>14, <1>k, <1>t DEF Crash, Empty
<1>15. CASE UNCHANGED vars
  BY <1>15 DEF vars
<1>16. QED
  BY <1>1, <1>2, <1>2a, <1>3, <1>4, <1>5, <1>6, <1>7, <1>8, <1>8a, <1>8b, <1>9,
     <1>10, <1>11, <1>12, <1>13, <1>14, <1>15 DEF Next

LEMMA FileInit == Init => FileInv
  BY TypeInit DEF Init, FileInv, TypeOK, Apart, Sound, SaysDone, Recorded, Told, InPut, Saving,
     Empty, Keys, Steps, Unreadable

\* Every call is at one of executeStep's awaits and within its run's steps, and
\* file, temporary file and map hold one status for each step.
THEOREM DurableTypeOK == Spec => []TypeOK
BY TypeInit, TypeStep, PTL DEF Spec

\* Whatever runs share the ledger, and whatever fails: an executor runs only
\* once the file has a record of its step, until two saves meet and again when
\* one has been renamed that met no other; and no record of a file that can be
\* read says completed without a side effect behind it.
THEOREM DurableFileTellsOfSteps == Spec => []FileTellsOfSteps
<1>1. FileInv /\ [Next]_vars => FileInv'
  BY TypeStep, ApartStep, SoundStep, RecordedStep DEF FileInv
<1>2. FileInv => FileTellsOfSteps
  BY ContentsReadable
  DEF FileInv, Sound, Recorded, Told, InPut, FileTellsOfSteps, HasRecord
<1>3. QED
  BY FileInit, <1>1, <1>2, PTL DEF Spec

------------------------------------------------------------------------------
\* A run alone can read its file, writes to an emptied temporary file, and finds
\* it there afterwards.
LEMMA AloneFile ==
  ASSUME Alone, FileInv, Loading
  PROVE  /\ file \in Contents /\ file \notin Unreadable
         /\ \A r \in Runs :
              /\ ~ReadUnreadable(r) /\ ~RenameMissing(r)
              /\ pc[r] = "bytes" => handle[r] = "temp" /\ Written(r) = {text[r]}
<1>1. file \in Contents /\ file \notin Unreadable
  BY ContentsReadable DEF FileInv, Recorded, Loading
<1>2. ASSUME NEW r \in Runs PROVE ~RenameMissing(r)
  <2>1. pc[r] = "rename" => temp \in Contents
    BY DEF Loading, FileInv, Recorded
  <2> QED
    BY <2>1, ContentsReadable DEF RenameMissing, Unreadable
<1>3. ASSUME NEW r \in Runs, pc[r] = "bytes"
      PROVE  handle[r] = "temp" /\ Written(r) = {text[r]}
  <2>1. handle[r] = "temp" /\ temp = Blank
    BY <1>3 DEF FileInv, Apart, Loading
  <2> QED
    BY <2>1 DEF Written, Opened, Alone
<1> QED
  BY <1>1, <1>2, <1>3 DEF ReadUnreadable

\* A run alone finds in the map what it put there.
LEMMA LoadingStep == Alone /\ FileInv /\ Loading /\ [Next]_vars => Loading'
<1> SUFFICES ASSUME Alone /\ FileInv /\ Loading, [Next]_vars PROVE Loading'
  OBVIOUS
<1> USE DEF disk, writing, cache, calls, performed, meetings, counts,
            Alone, FileInv, Apart, TypeOK, Loading, InPut, Saving, Key, Contents
<1>t. TypeOK /\ TypeOK'
  BY TypeStep
<1>k. \A r \in Runs : Key(r) \in Keys
  BY <1>t, KeyType
<1>1. ASSUME NEW r \in Runs, Execute(r) PROVE Loading'
  BY <1>1, <1>k, <1>t DEF Execute, Goto
<1>2. ASSUME NEW r \in Runs, ReadFile(r) PROVE Loading'
  BY <1>2, <1>k, <1>t DEF ReadFile, Goto
<1>2a. ASSUME NEW r \in Runs, ReadUnreadable(r) PROVE Loading'
  BY <1>2a, AloneFile
<1>3. ASSUME NEW r \in Runs, ReadFails(r) PROVE Loading'
  BY <1>3, <1>k, <1>t DEF ReadFails, GiveUp, Goto
<1>4. ASSUME NEW r \in Runs, Fill(r) PROVE Loading'
  BY <1>4, <1>k, <1>t DEF Fill, Merged, Empty, Goto
<1>5. ASSUME NEW r \in Runs, Reuse(r) PROVE Loading'
  BY <1>5, <1>k, <1>t DEF Reuse, Answer, Reusable, Goto
<1>6. ASSUME NEW r \in Runs, Begin(r) PROVE Loading'
  BY <1>6, <1>k, <1>t DEF Begin, StartPut, Reusable, Goto
<1>7. ASSUME NEW r \in Runs, Put(r) PROVE Loading'
  BY <1>7, <1>k, <1>t DEF Put, Goto
<1>8. ASSUME NEW r \in Runs, StartWrite(r) PROVE Loading'
  BY <1>8, <1>k, <1>t DEF StartWrite, Saving, Goto
<1>8a. ASSUME NEW r \in Runs, OpenTemp(r) PROVE Loading'
  BY <1>8a, <1>k, <1>t DEF OpenTemp, Saving, Goto
<1>8b. ASSUME NEW r \in Runs, WriteBytes(r) PROVE Loading'
  <2>1. /\ pc[r] = "bytes" /\ file' = file /\ temp' = text[r]
        /\ UNCHANGED <<mem, opened, loaded, step, putting, answered, clashed, spoilt>>
    BY <1>8b, AloneFile DEF WriteBytes, Lands
  <2>2. pc' = [pc EXCEPT ![r] = "rename"]
    BY <1>8b DEF WriteBytes, Goto
  <2> QED
    BY <2>1, <2>2, <1>k, <1>t
<1>9. ASSUME NEW r \in Runs, Rename(r) PROVE Loading'
  <2>1. /\ pc[r] = "rename" /\ opened /\ clashed' = {} /\ ~spoilt'
        /\ UNCHANGED <<mem, loaded, opened, putting>>
    BY <1>9 DEF Rename
  <2>2. pc'[r] = "exec" \/ pc'[r] = "call"
    BY <1>9, <1>t DEF Rename, Answer, GiveUp, Goto
  <2>3. pc'[r] = "exec" => putting[r] = "running" /\ step' = step
    BY <1>9, <1>t DEF Rename, Answer, GiveUp, Goto
  <2>4. loaded = Empty /\ mem[Key(r)] = putting[r]
    BY <2>1
  <2>5. pc'[r] = "exec" => mem'[Key(r)'] = "running"
    BY <2>1, <2>3, <2>4
  <2>6. \A q \in Runs : q = r
    OBVIOUS
  <2> HIDE DEF Key
  <2> QED
    BY <2>1, <2>2, <2>4, <2>5, <2>6
<1>10. ASSUME NEW r \in Runs, RenameMissing(r) PROVE Loading'
  BY <1>10, AloneFile
<1>11. ASSUME NEW r \in Runs, PutFault(r) PROVE Loading'
  <2>f. /\ file' = file /\ clashed' = {} /\ ~spoilt' /\ opened
        /\ UNCHANGED <<mem, opened, loaded, answered>>
    BY <1>11, AloneFile DEF PutFault, Lands
  <2>1. CASE putting[r] = "completed"
    <3>1. /\ pc' = [pc EXCEPT ![r] = "put"] /\ putting' = [putting EXCEPT ![r] = "failed"]
          /\ step' = step
      BY <1>11, <2>1 DEF PutFault, PutRejected, StartPut, Goto
    <3> QED
      BY <1>11, <2>f, <2>1, <3>1, <1>k, <1>t DEF PutFault
  <2>2. CASE putting[r] # "completed"
    <3>1. /\ pc' = [pc EXCEPT ![r] = "call"] /\ putting' = putting
          /\ step' = [step EXCEPT ![r] = 1]
      BY <1>11, <2>2 DEF PutFault, PutRejected, GiveUp, Goto
    <3> QED
      BY <1>11, <2>f, <2>2, <3>1, <1>k, <1>t DEF PutFault
  <2>3. QED
    BY <2>1, <2>2
<1>12. ASSUME NEW r \in Runs, Perform(r) PROVE Loading'
  BY <1>12, <1>k, <1>t DEF Perform, StartPut, Goto
<1>13. ASSUME NEW r \in Runs, ExecutorRejects(r) PROVE Loading'
  BY <1>13, <1>k, <1>t DEF ExecutorRejects, StartPut, Goto
<1>14. CASE Crash
  BY <1>14, <1>k, <1>t DEF Crash, Empty
<1>15. CASE UNCHANGED vars
  BY <1>15 DEF vars
<1>16. QED
  BY <1>1, <1>2, <1>2a, <1>3, <1>4, <1>5, <1>6, <1>7, <1>8, <1>8a, <1>8b, <1>9,
     <1>10, <1>11, <1>12, <1>13, <1>14, <1>15 DEF Next

\* A run alone never loses a completed record, neither in the map nor in the file.
LEMMA AgreeStep == Alone /\ FileInv /\ Loading /\ Agree /\ [Next]_vars => Agree'
<1> SUFFICES ASSUME Alone /\ FileInv /\ Loading /\ Agree, [Next]_vars PROVE Agree'
  OBVIOUS
<1> USE DEF disk, writing, cache, calls, performed, meetings, counts,
            Alone, FileInv, Apart, TypeOK, Loading, Agree, Cached, Busy, InPut, Saving, Key, Contents
<1>t. TypeOK /\ TypeOK'
  BY TypeStep
<1>k. \A r \in Runs : Key(r) \in Keys
  BY <1>t, KeyType
<1>1. ASSUME NEW r \in Runs, Execute(r) PROVE Agree'
  BY <1>1, <1>k, <1>t DEF Execute, Goto
<1>2. ASSUME NEW r \in Runs, ReadFile(r) PROVE Agree'
  BY <1>2, <1>k, <1>t DEF ReadFile, Goto
<1>2a. ASSUME NEW r \in Runs, ReadUnreadable(r) PROVE Agree'
  BY <1>2a, AloneFile
<1>3. ASSUME NEW r \in Runs, ReadFails(r) PROVE Agree'
  BY <1>3, <1>k, <1>t DEF ReadFails, GiveUp, Goto
<1>4. ASSUME NEW r \in Runs, Fill(r) PROVE Agree'
  <2>1. pc[r] = "fill" /\ loaded = file /\ mem = Empty /\ mem' = Merged
    BY <1>4 DEF Fill
  <2>2. \A k \in Keys : mem'[k] = file[k]
    BY <2>1, <1>t DEF Merged, Empty, Status
  <2>3. QED
    BY <1>4, <1>k, <1>t, <2>1, <2>2 DEF Fill, Goto
<1>5. ASSUME NEW r \in Runs, Reuse(r) PROVE Agree'
  BY <1>5, <1>k, <1>t DEF Reuse, Answer, Reusable, Goto
<1>6. ASSUME NEW r \in Runs, Begin(r) PROVE Agree'
  BY <1>6, <1>k, <1>t DEF Begin, StartPut, Reusable, Goto
<1>7. ASSUME NEW r \in Runs, Put(r) PROVE Agree'
  BY <1>7, <1>k, <1>t DEF Put, Goto
<1>8. ASSUME NEW r \in Runs, StartWrite(r) PROVE Agree'
  BY <1>8, <1>k, <1>t DEF StartWrite, Saving, Goto
<1>8a. ASSUME NEW r \in Runs, OpenTemp(r) PROVE Agree'
  BY <1>8a, <1>k, <1>t DEF OpenTemp, Saving, Goto
<1>8b. ASSUME NEW r \in Runs, WriteBytes(r) PROVE Agree'
  <2>1. /\ pc[r] = "bytes" /\ file' = file /\ temp' = text[r]
        /\ UNCHANGED <<mem, opened, loaded, step, putting, answered, clashed, spoilt>>
    BY <1>8b, AloneFile DEF WriteBytes, Lands
  <2>2. pc' = [pc EXCEPT ![r] = "rename"]
    BY <1>8b DEF WriteBytes, Goto
  <2> QED
    BY <2>1, <2>2, <1>k, <1>t
<1>9. ASSUME NEW r \in Runs, Rename(r) PROVE Agree'
  <2>1. /\ pc[r] = "rename" /\ file' = mem /\ mem' = mem /\ opened' = opened
        /\ mem[Key(r)] = putting[r] /\ putting' = putting
        /\ \A k \in Keys : file[k] = "completed" => mem[k] = "completed"
    BY <1>9, <1>t, <1>k DEF Rename
  <2>2. CASE putting[r] = "running"
    BY <1>9, <2>1, <2>2, <1>k, <1>t DEF Rename, Answer, GiveUp, Goto
  <2>3. CASE putting[r] = "completed"
    BY <1>9, <2>1, <2>3, <1>k, <1>t DEF Rename, Answer, GiveUp, Goto
  <2>4. CASE putting[r] = "failed"
    BY <1>9, <2>1, <2>4, <1>k, <1>t DEF Rename, Answer, GiveUp, Goto
  <2>5. QED
    BY <1>9, <2>2, <2>3, <2>4 DEF Rename
<1>10. ASSUME NEW r \in Runs, RenameMissing(r) PROVE Agree'
  BY <1>10, AloneFile
<1>11. ASSUME NEW r \in Runs, PutFault(r) PROVE Agree'
  <2>f. /\ file' = file /\ clashed' = {} /\ ~spoilt' /\ opened
        /\ UNCHANGED <<mem, opened, loaded, answered>>
    BY <1>11, AloneFile DEF PutFault, Lands
  <2>1. CASE putting[r] = "completed"
    <3>1. /\ pc' = [pc EXCEPT ![r] = "put"] /\ putting' = [putting EXCEPT ![r] = "failed"]
          /\ step' = step
      BY <1>11, <2>1 DEF PutFault, PutRejected, StartPut, Goto
    <3> QED
      BY <1>11, <2>f, <2>1, <3>1, <1>k, <1>t DEF PutFault
  <2>2. CASE putting[r] # "completed"
    <3>1. /\ pc' = [pc EXCEPT ![r] = "call"] /\ putting' = putting
          /\ step' = [step EXCEPT ![r] = 1]
      BY <1>11, <2>2 DEF PutFault, PutRejected, GiveUp, Goto
    <3> QED
      BY <1>11, <2>f, <2>2, <3>1, <1>k, <1>t DEF PutFault
  <2>3. QED
    BY <2>1, <2>2
<1>12. ASSUME NEW r \in Runs, Perform(r) PROVE Agree'
  BY <1>12, <1>k, <1>t DEF Perform, StartPut, Goto
<1>13. ASSUME NEW r \in Runs, ExecutorRejects(r) PROVE Agree'
  BY <1>13, <1>k, <1>t DEF ExecutorRejects, StartPut, Goto
<1>14. CASE Crash
  BY <1>14, <1>k, <1>t DEF Crash, Empty
<1>15. CASE UNCHANGED vars
  BY <1>15 DEF vars
<1>16. QED
  BY <1>1, <1>2, <1>2a, <1>3, <1>4, <1>5, <1>6, <1>7, <1>8, <1>8a, <1>8b, <1>9,
     <1>10, <1>11, <1>12, <1>13, <1>14, <1>15 DEF Next


\* A run that is answered for a step which is on file is past steps on file.
LEMMA AnswerKeeps ==
  ASSUME TypeOK, TypeOK', InOrder, OnFile, NEW r \in Runs, Answer(r),
         \A k \in Keys : file[k] = "completed" => file'[k] = "completed",
         file'[Key(r)] = "completed"
  PROVE  (InOrder /\ OnFile)'
<1>1. /\ answered' = answered \union {Key(r)}
      /\ step' = [step EXCEPT ![r] = IF step[r] = StepCount THEN 1 ELSE step[r] + 1]
  BY DEF Answer
<1>2. OnFile'
  BY <1>1 DEF OnFile, TypeOK
<1>3. ASSUME NEW q \in Runs, NEW t \in Steps, t < step'[q]
      PROVE  file'[<<q, t>>] = "completed"
  <2>1. step \in [Runs -> Steps] /\ Steps \subseteq Nat \ {0}
    BY DurableAssumption DEF TypeOK, Steps
  <2>2. t < step[q] \/ (q = r /\ t = step[r])
    <3>1. CASE q = r
      <4>1. step'[q] = IF step[q] = StepCount THEN 1 ELSE step[q] + 1
        BY <1>1, <2>1, <3>1
      <4>2. t \in Nat \ {0} /\ step[q] \in Nat \ {0}
        BY <2>1
      <4> QED
        BY <1>3, <3>1, <4>1, <4>2
    <3>2. CASE q # r
      BY <1>1, <1>3, <2>1, <3>2
    <3> QED
      BY <3>1, <3>2
  <2>3. <<q, t>> \in Keys
    BY DEF Keys
  <2> QED
    BY <2>2, <2>3 DEF InOrder, Key
<1> QED
  BY <1>2, <1>3 DEF InOrder

\* Completed records of the file stay, so the earlier steps stay on it.
LEMMA OrderStep ==
  Alone /\ FileInv /\ Loading /\ Agree /\ InOrder /\ OnFile /\ [Next]_vars
    => (InOrder /\ OnFile)'
<1> SUFFICES ASSUME Alone /\ FileInv /\ Loading /\ Agree /\ InOrder
                      /\ OnFile, [Next]_vars
             PROVE  (InOrder /\ OnFile)'
  OBVIOUS
<1> USE DEF disk, writing, cache, calls, performed, meetings, counts,
            Alone, FileInv, TypeOK, Loading, Agree, Cached, InOrder,
            OnFile, Busy, InPut, Saving, Key, Steps, Contents
<1>t. TypeOK /\ TypeOK'
  BY TypeStep
<1>k. \A r \in Runs : Key(r) \in Keys
  BY <1>t, KeyType
<1>1. ASSUME NEW r \in Runs, Execute(r) PROVE (InOrder /\ OnFile)'
  BY <1>1, <1>k, <1>t DEF Execute, Goto
<1>2. ASSUME NEW r \in Runs, ReadFile(r) PROVE (InOrder /\ OnFile)'
  BY <1>2, <1>k, <1>t DEF ReadFile, Goto
<1>2a. ASSUME NEW r \in Runs, ReadUnreadable(r) PROVE (InOrder /\ OnFile)'
  BY <1>2a, AloneFile
<1>3. ASSUME NEW r \in Runs, ReadFails(r) PROVE (InOrder /\ OnFile)'
  BY <1>3, <1>k, <1>t DEF ReadFails, GiveUp, Goto
<1>4. ASSUME NEW r \in Runs, Fill(r) PROVE (InOrder /\ OnFile)'
  BY <1>4, <1>k, <1>t DEF Fill, Merged, Empty, Goto
<1>5. ASSUME NEW r \in Runs, Reuse(r) PROVE (InOrder /\ OnFile)'
  <2>1. mem[Key(r)] = "completed" /\ file' = file /\ pc[r] = "get" /\ Answer(r)
    BY <1>5 DEF Reuse, Reusable
  <2>2. file[Key(r)] = "completed"
    BY <2>1, <1>k
  <2> HIDE DEF InOrder, OnFile, TypeOK
  <2> QED
    BY <2>1, <2>2, <1>t, AnswerKeeps
<1>6. ASSUME NEW r \in Runs, Begin(r) PROVE (InOrder /\ OnFile)'
  BY <1>6, <1>k, <1>t DEF Begin, StartPut, Reusable, Goto
<1>7. ASSUME NEW r \in Runs, Put(r) PROVE (InOrder /\ OnFile)'
  BY <1>7, <1>k, <1>t DEF Put, Goto
<1>8. ASSUME NEW r \in Runs, StartWrite(r) PROVE (InOrder /\ OnFile)'
  BY <1>8, <1>k, <1>t DEF StartWrite, Saving, Goto
<1>8a. ASSUME NEW r \in Runs, OpenTemp(r) PROVE (InOrder /\ OnFile)'
  BY <1>8a, <1>k, <1>t DEF OpenTemp, Saving, Goto
<1>8b. ASSUME NEW r \in Runs, WriteBytes(r) PROVE (InOrder /\ OnFile)'
  <2>1. /\ pc[r] = "bytes" /\ file' = file /\ temp' = text[r]
        /\ UNCHANGED <<mem, opened, loaded, step, putting, answered, clashed, spoilt>>
    BY <1>8b, AloneFile DEF WriteBytes, Lands
  <2>2. pc' = [pc EXCEPT ![r] = "rename"]
    BY <1>8b DEF WriteBytes, Goto
  <2> QED
    BY <2>1, <2>2, <1>k, <1>t
<1>9. ASSUME NEW r \in Runs, Rename(r) PROVE (InOrder /\ OnFile)'
  <2>1. /\ pc[r] = "rename" /\ file' = mem /\ mem[Key(r)] = putting[r]
        /\ \A k \in Keys : file[k] = "completed" => mem[k] = "completed"
    BY <1>9, <1>t, <1>k DEF Rename
  <2>2. \A k \in Keys : file[k] = "completed" => file'[k] = "completed"
    BY <2>1
  <2>3. \A q \in Runs, t \in Steps : <<q, t>> \in Keys
    BY DEF Keys
  <2>4. CASE putting[r] = "completed"
    <3>1. file'[Key(r)] = "completed" /\ Answer(r)
      BY <1>9, <2>1, <2>4 DEF Rename
    <3> HIDE DEF InOrder, OnFile, TypeOK
    <3> QED
      BY <1>t, <2>2, <3>1, AnswerKeeps
  <2>5. CASE putting[r] # "completed"
    <3>1. /\ answered' = answered
          /\ step' = step \/ step' = [step EXCEPT ![r] = 1]
      BY <1>9, <2>5 DEF Rename, GiveUp
    <3>2. OnFile'
      BY <1>t, <2>2, <3>1
    <3>3. InOrder'
      BY <1>t, <2>2, <2>3, <3>1
    <3>4. QED
      BY <3>2, <3>3
  <2>6. QED
    BY <2>4, <2>5
<1>10. ASSUME NEW r \in Runs, RenameMissing(r) PROVE (InOrder /\ OnFile)'
  BY <1>10, AloneFile
<1>11. ASSUME NEW r \in Runs, PutFault(r) PROVE (InOrder /\ OnFile)'
  <2>f. /\ file' = file /\ clashed' = {} /\ ~spoilt' /\ opened
        /\ UNCHANGED <<mem, opened, loaded, answered>>
    BY <1>11, AloneFile DEF PutFault, Lands
  <2>1. CASE putting[r] = "completed"
    <3>1. /\ pc' = [pc EXCEPT ![r] = "put"] /\ putting' = [putting EXCEPT ![r] = "failed"]
          /\ step' = step
      BY <1>11, <2>1 DEF PutFault, PutRejected, StartPut, Goto
    <3> QED
      BY <1>11, <2>f, <2>1, <3>1, <1>k, <1>t DEF PutFault
  <2>2. CASE putting[r] # "completed"
    <3>1. /\ pc' = [pc EXCEPT ![r] = "call"] /\ putting' = putting
          /\ step' = [step EXCEPT ![r] = 1]
      BY <1>11, <2>2 DEF PutFault, PutRejected, GiveUp, Goto
    <3> QED
      BY <1>11, <2>f, <2>2, <3>1, <1>k, <1>t DEF PutFault
  <2>3. QED
    BY <2>1, <2>2
<1>12. ASSUME NEW r \in Runs, Perform(r) PROVE (InOrder /\ OnFile)'
  BY <1>12, <1>k, <1>t DEF Perform, StartPut, Goto
<1>13. ASSUME NEW r \in Runs, ExecutorRejects(r) PROVE (InOrder /\ OnFile)'
  BY <1>13, <1>k, <1>t DEF ExecutorRejects, StartPut, Goto
<1>14. CASE Crash
  BY <1>14, <1>k, <1>t DEF Crash, Empty
<1>15. CASE UNCHANGED vars
  BY <1>15 DEF vars
<1>16. QED
  BY <1>1, <1>2, <1>2a, <1>3, <1>4, <1>5, <1>6, <1>7, <1>8, <1>8a, <1>8b, <1>9,
     <1>10, <1>11, <1>12, <1>13, <1>14, <1>15 DEF Next

LEMMA AloneInit == Init => Loading /\ Agree /\ InOrder /\ OnFile
<1> SUFFICES ASSUME Init PROVE Loading /\ Agree /\ InOrder /\ OnFile
  OBVIOUS
<1>1. Loading
  BY DEF Init, Loading, Saving, Empty
<1>2. \A k \in Keys : file[k] = "none" /\ mem[k] = "none"
  BY DEF Init, Empty
<1>3. Agree
  BY <1>2 DEF Init, Agree, Cached, Busy, InPut
<1>4. InOrder
  BY DEF Init, InOrder, Steps
<1>5. OnFile
  BY DEF Init, OnFile
<1>6. QED
  BY <1>1, <1>3, <1>4, <1>5

LEMMA AloneStep == Alone /\ AloneInv /\ [Next]_vars => AloneInv'
  BY TypeStep, ApartStep, SoundStep, RecordedStep, LoadingStep, AgreeStep, OrderStep
  DEF AloneInv, FileInv

\* A run alone with a ledger it can read: an answer of "completed" is on file,
\* through crashes and failed writes.
THEOREM DurableAnsweredIsOnFile == ASSUME Alone PROVE Spec => []AnsweredIsOnFile
<1>1. Init => AloneInv
  BY AloneInit, FileInit DEF AloneInv
<1>2. AloneInv /\ [Next]_vars => AloneInv'
  BY AloneStep
<1>3. Alone /\ AloneInv => AnsweredIsOnFile
  BY AloneFile DEF AloneInv, OnFile, AnsweredIsOnFile, SaysDone
<1>4. QED
  BY <1>1, <1>2, <1>3, PTL DEF Spec

\* What a run alone may have to do again: a side effect whose record is neither
\* on file nor on its way there. There is at most one, the first step that is
\* not recorded completed.
Landing(k) == \E r \in Runs : k = Key(r) /\ InPut(r) /\ putting[r] = "completed"
Lost(k) == effects[k] > 0 /\ file[k] # "completed" /\ ~Landing(k)

\* A step is performed only when those before it are recorded.
PerformedInOrder ==
  \A r \in Runs, t \in Steps :
    effects[<<r, t>>] > 0 => \A u \in Steps : u < t => file[<<r, u>>] = "completed"

\* Every repetition has been paid for, and a lost side effect already is.
Paid ==
  /\ repeats <= crashes + putFaults
  /\ (\E k \in Keys : Lost(k)) => repeats + 1 <= crashes + putFaults

RepeatInv == AloneInv /\ PerformedInOrder /\ Paid

\* For a run alone, completed records stay on file.
LEMMA FileKeeps ==
  ASSUME Alone, AloneInv, [Next]_vars
  PROVE  \A k \in Keys : file[k] = "completed" => file'[k] = "completed"
<1>1. ASSUME NEW r \in Runs, Rename(r)
      PROVE  \A k \in Keys : file[k] = "completed" => file'[k] = "completed"
  BY <1>1 DEF Rename, Alone, AloneInv, FileInv, TypeOK, Loading, Agree, Cached
<1>2. ASSUME NEW r \in Runs, WriteBytes(r) \/ PutFault(r)
      PROVE  UNCHANGED file
  BY <1>2, AloneFile DEF AloneInv, WriteBytes, PutFault, Lands, disk
<1>3. ASSUME ~\E r \in Runs : Rename(r) \/ WriteBytes(r) \/ PutFault(r)
      PROVE  UNCHANGED file
  BY <1>3 DEF disk, vars, Next, Execute, ReadFile, ReadUnreadable, ReadFails, Fill, Reuse,
     Begin, Put, StartWrite, OpenTemp, RenameMissing, Perform, ExecutorRejects, Crash
<1> QED
  BY <1>1, <1>2, <1>3

LEMMA PerformedOrderStep ==
  ASSUME Alone, AloneInv, PerformedInOrder, [Next]_vars
  PROVE  PerformedInOrder'
<1>1. \A k \in Keys : file[k] = "completed" => file'[k] = "completed"
  BY FileKeeps
<1>2. \A r \in Runs, t \in Steps : <<r, t>> \in Keys
  BY DEF Keys
<1>3. ASSUME NEW q \in Runs, Perform(q)
      PROVE  PerformedInOrder'
  <2>1. /\ effects' = [effects EXCEPT ![<<q, step[q]>>] = @ + 1]
        /\ effects \in [Keys -> Nat]
    BY <1>3 DEF Perform, Key, AloneInv, FileInv, TypeOK
  <2>2. ASSUME NEW r \in Runs, NEW t \in Steps, effects'[<<r, t>>] > 0,
               NEW u \in Steps, u < t
        PROVE  file'[<<r, u>>] = "completed"
    <3>1. CASE <<r, t>> = <<q, step[q]>>
      <4>1. r = q /\ t = step[q]
        BY <3>1
      <4>2. file[<<r, u>>] = "completed"
        BY <2>2, <4>1 DEF AloneInv, InOrder
      <4> QED
        BY <1>1, <1>2, <4>2
    <3>2. CASE <<r, t>> # <<q, step[q]>>
      <4>1. effects'[<<r, t>>] = effects[<<r, t>>]
        BY <1>2, <2>1, <3>2
      <4> QED
        BY <1>1, <1>2, <2>2, <4>1 DEF PerformedInOrder
    <3> QED
      BY <3>1, <3>2
  <2> QED
    BY <2>2 DEF PerformedInOrder
<1>4. ASSUME ~\E q \in Runs : Perform(q)
      PROVE  UNCHANGED effects
  BY <1>4 DEF performed, vars, Next, Execute, ReadFile, ReadUnreadable, ReadFails, Fill, Reuse, Begin,
     Put, StartWrite, OpenTemp, WriteBytes, Rename, RenameMissing, PutFault, ExecutorRejects, Crash
<1> QED
  BY <1>1, <1>2, <1>3, <1>4 DEF PerformedInOrder

\* Only the step in hand can be lost: those before it are recorded, and none
\* behind it has been performed.
LEMMA OneLost ==
  ASSUME Alone, AloneInv, PerformedInOrder, NEW r \in Runs, NEW k \in Keys,
         effects[k] > 0, file[k] # "completed", file[Key(r)] # "completed"
  PROVE  k = Key(r)
<1>1. PICK q \in Runs, t \in Steps : k = <<q, t>>
  BY DEF Keys
<1>2. q = r /\ step[r] \in Steps /\ t \in Nat /\ step[r] \in Nat
  BY DEF Alone, AloneInv, FileInv, TypeOK, Steps
<1>3. ~(t < step[r])
  BY <1>1, <1>2 DEF AloneInv, InOrder
<1>4. ~(step[r] < t)
  BY <1>1, <1>2 DEF PerformedInOrder, Key
<1> QED
  BY <1>1, <1>2, <1>3, <1>4 DEF Key

\* A step that costs nothing loses nothing.
LEMMA FreeStep ==
  ASSUME Alone, AloneInv, PerformedInOrder, Paid, NEW r \in Runs,
         UNCHANGED <<effects, repeats, crashes, putFaults>>,
         \A k \in Keys : file[k] = "completed" => file'[k] = "completed",
         \A k \in Keys : Landing(k) => Landing(k)' \/ file'[k] = "completed"
  PROVE  Paid'
<1>1. \A k \in Keys : Lost(k)' => Lost(k)
  BY DEF Lost
<1> QED
  BY <1>1 DEF Paid

\* A crash, or a failed write, pays for one repetition, and that is what the
\* step in hand may cost when the executor resolves once more.
LEMMA PaidStep ==
  ASSUME Alone, AloneInv, PerformedInOrder, Paid, [Next]_vars
  PROVE  Paid'
<1> USE DEF disk, writing, cache, calls, performed, meetings, counts
<1>t. TypeOK /\ TypeOK'
  BY TypeStep DEF AloneInv, FileInv
<1>f. \A k \in Keys : file[k] = "completed" => file'[k] = "completed"
  BY FileKeeps
<1>n. /\ repeats \in Nat /\ crashes \in Nat /\ putFaults \in Nat
  BY <1>t DEF TypeOK
<1>1. ASSUME NEW r \in Runs,
             Execute(r) \/ ReadFile(r) \/ ReadFails(r)
               \/ Fill(r) \/ Reuse(r) \/ Begin(r) \/ ExecutorRejects(r)
      PROVE  Paid'
  <2>1. ~InPut(r) /\ UNCHANGED <<effects, repeats, crashes, putFaults>>
    BY <1>1 DEF InPut, Execute, ReadFile, ReadFails, Fill, Reuse, Begin,
       ExecutorRejects
  <2>2. \A k \in Keys : ~Landing(k)
    BY <2>1 DEF Landing, Alone
  <2> QED
    BY <1>f, <2>1, <2>2, FreeStep
<1>2. ASSUME NEW r \in Runs,
             Put(r) \/ StartWrite(r) \/ OpenTemp(r) \/ WriteBytes(r)
      PROVE  Paid'
  <2>1. /\ InPut(r)' /\ putting' = putting /\ step' = step
        /\ UNCHANGED <<effects, repeats, crashes, putFaults>>
    BY <1>2, <1>t DEF InPut, Put, StartWrite, OpenTemp, WriteBytes, Goto, TypeOK
  <2>2. \A k \in Keys : Landing(k) => Landing(k)'
    BY <2>1 DEF Landing, Alone, Key
  <2> QED
    BY <1>f, <2>1, <2>2, FreeStep
<1>3. ASSUME NEW r \in Runs, Rename(r)
      PROVE  Paid'
  <2>1. /\ file' = mem /\ mem[Key(r)] = putting[r]
        /\ UNCHANGED <<effects, repeats, crashes, putFaults>>
    BY <1>3 DEF Rename, AloneInv, Loading, Saving
  <2>2. \A k \in Keys : Landing(k) => file'[k] = "completed"
    BY <2>1 DEF Landing, Alone
  <2> QED
    BY <1>f, <2>1, <2>2, FreeStep
<1>4. ASSUME NEW r \in Runs, PutFault(r)
      PROVE  Paid'
  BY <1>4, <1>n DEF PutFault, Paid
<1>5. CASE Crash
  BY <1>5, <1>n DEF Crash, Paid
<1>6. ASSUME NEW r \in Runs, Perform(r)
      PROVE  Paid'
  <2>1. /\ Key(r) \in Keys /\ pc[r] = "exec" /\ file[Key(r)] # "completed"
        /\ UNCHANGED <<file, step, crashes, putFaults>>
    BY <1>6, <1>t, KeyType DEF Perform, AloneInv, Agree, Busy
  <2>2. \A k \in Keys : k = Key(r) => Landing(k)'
    BY <1>6, <1>t DEF Perform, StartPut, Goto, Landing, InPut, Key, TypeOK
  <2>3. \A k \in Keys : k # Key(r) => effects'[k] = effects[k]
    BY <1>6, <1>t DEF Perform, TypeOK
  <2>4. \A k \in Keys : ~Lost(k)'
    <3>1. SUFFICES ASSUME NEW k \in Keys, Lost(k)' PROVE FALSE
      OBVIOUS
    <3>2. k # Key(r)
      BY <2>2, <3>1 DEF Lost
    <3>3. effects[k] > 0 /\ file[k] # "completed"
      BY <2>1, <2>3, <3>1, <3>2 DEF Lost
    <3> QED
      BY <2>1, <3>2, <3>3, OneLost
  <2>5. CASE effects[Key(r)] = 0
    BY <1>6, <2>1, <2>4, <2>5 DEF Perform, Paid
  <2>6. CASE effects[Key(r)] # 0
    <3>1. Lost(Key(r))
      <4>1. effects[Key(r)] > 0
        BY <1>t, <2>1, <2>6 DEF TypeOK
      <4>2. ~Landing(Key(r))
        BY <2>1 DEF Landing, InPut, Alone
      <4> QED
        BY <2>1, <4>1, <4>2 DEF Lost
    <3>2. repeats + 1 <= crashes + putFaults
      BY <2>1, <3>1 DEF Paid
    <3> QED
      BY <1>6, <2>1, <2>4, <2>6, <3>2 DEF Perform, Paid
  <2> QED
    BY <2>5, <2>6
<1>7. CASE UNCHANGED vars
  BY <1>7 DEF vars, Paid, Lost, Landing, Key, InPut
<1> QED
  BY <1>1, <1>2, <1>3, <1>4, <1>5, <1>6, <1>7, AloneFile DEF Next, AloneInv

\* A run alone with a ledger it can read: each crash and each failed write of
\* the ledger costs at most one repetition of one side effect.
THEOREM DurableRepeatsBounded == ASSUME Alone PROVE Spec => []RepeatsBounded
<1>1. Init => RepeatInv
  <2> SUFFICES ASSUME Init PROVE RepeatInv
    OBVIOUS
  <2>1. AloneInv
    BY AloneInit, FileInit DEF AloneInv
  <2>2. \A k \in Keys : effects[k] = 0
    BY DEF Init
  <2>3. PerformedInOrder
    BY <2>2 DEF PerformedInOrder, Keys
  <2>4. Paid
    BY <2>2 DEF Paid, Lost, Init
  <2> QED
    BY <2>1, <2>3, <2>4 DEF RepeatInv
<1>2. RepeatInv /\ [Next]_vars => RepeatInv'
  BY AloneStep, PerformedOrderStep, PaidStep DEF RepeatInv
<1>3. RepeatInv => RepeatsBounded
  BY DEF RepeatInv, Paid, RepeatsBounded
<1> QED
  BY <1>1, <1>2, <1>3, PTL DEF Spec

------------------------------------------------------------------------------
\* The steps the file has as completed, which only a rename changes.
Done == {k \in Keys : SaysDone(file, k)}

LEMMA DoneIsOnFile ==
  ASSUME Alone, AloneInv
  PROVE  Done = {k \in Keys : file[k] = "completed"}
  BY AloneFile DEF AloneInv, Done, SaysDone

LEMMA DoneStep ==
  ASSUME Alone, AloneInv, AloneInv', NEW r \in Runs, Rename(r)
  PROVE  Done' = Done \/ (effects[Key(r)] > 0 /\ Done' = Done \union {Key(r)})
<1>d. /\ Done = {k \in Keys : file[k] = "completed"}
      /\ Done' = {k \in Keys : file'[k] = "completed"}
  <2>1. Alone'
    BY DEF Alone
  <2>2. Done' = {k \in Keys : file'[k] = "completed"}
    <3>1. (file \notin Unreadable)'
      <4>1. file' \in Contents
        BY DEF AloneInv, FileInv, Recorded, Loading
      <4> QED
        BY <4>1, ContentsReadable DEF Unreadable
    <3> QED
      BY <3>1 DEF Done, SaysDone
  <2> QED
    BY <2>2, DoneIsOnFile
<1> USE DEF AloneInv, FileInv, Alone
<1>1. /\ pc[r] = "rename" /\ file' = mem /\ mem[Key(r)] = putting[r]
      /\ Key(r) \in Keys
      /\ \A k \in Keys : file[k] = "completed" => mem[k] = "completed"
  BY KeyType DEF Rename, Loading, Saving, Agree, Cached, TypeOK
<1>2. \A k \in Keys : k # Key(r) => (file'[k] = "completed" <=> file[k] = "completed")
  BY <1>1 DEF Agree
<1>3. CASE putting[r] = "completed"
  BY <1>d, <1>1, <1>2, <1>3 DEF Sound, InPut
<1>4. CASE putting[r] # "completed"
  BY <1>d, <1>1, <1>2, <1>4 DEF Agree, Busy, InPut
<1>5. QED
  BY <1>3, <1>4

\* Every step of a run alone is one of StepMemo's, or leaves what it is about
\* alone.
LEMMA MemoStep ==
  Alone /\ AloneInv /\ AloneInv' /\ [Next]_vars => [Memo!Next]_<<effects, Done>>
<1> SUFFICES ASSUME Alone, AloneInv, AloneInv', [Next]_vars,
                    ~UNCHANGED <<effects, Done>>
             PROVE  Memo!Next
  BY Zenon
<1> USE DEF AloneInv, FileInv
<1>d. Done = {k \in Keys : file[k] = "completed"}
  BY DoneIsOnFile
<1>1. ASSUME NEW r \in Runs, Perform(r) PROVE Memo!Next
  <2>1. Key(r) \notin Done /\ step[r] \in Steps
    BY <1>1, <1>d DEF Perform, Agree, Busy, TypeOK
  <2>2. \A t \in Steps : t < step[r] => <<r, t>> \in Done
    BY <1>d DEF InOrder, Keys
  <2>3. effects' = [effects EXCEPT ![<<r, step[r]>>] = @ + 1] /\ Done' = Done
    BY <1>1 DEF Perform, Key, Done, SaysDone, disk
  <2>4. Memo!Perform(r, step[r])
    BY <2>1, <2>2, <2>3 DEF Memo!Perform, Done, SaysDone, Key
  <2>5. QED
    BY <2>1, <2>4 DEF Memo!Next
<1>2. ASSUME NEW r \in Runs, Rename(r) PROVE Memo!Next
  <2>1. effects' = effects
    BY <1>2 DEF Rename, performed
  <2>2. effects[Key(r)] > 0 /\ Done' = Done \union {Key(r)}
    BY <1>2, <2>1, DoneStep
  <2>3. Key(r) \in Keys
    BY KeyType
  <2>4. \E k \in Keys : Memo!Remember(k)
    BY <2>1, <2>2, <2>3 DEF Memo!Remember, Done, SaysDone
  <2>5. QED
    BY <2>4 DEF Memo!Next, Keys
<1>3. ASSUME ~\E r \in Runs : Perform(r) \/ Rename(r) PROVE UNCHANGED <<effects, Done>>
  <2>1. ASSUME NEW r \in Runs, WriteBytes(r) \/ PutFault(r)
        PROVE  UNCHANGED <<effects, file>>
    BY <2>1, AloneFile DEF WriteBytes, PutFault, Lands, disk, performed
  <2>2. ASSUME ~\E r \in Runs : WriteBytes(r) \/ PutFault(r)
        PROVE  UNCHANGED <<effects, file>>
    BY <1>3, <2>2 DEF disk, performed, vars, Next, Execute, ReadFile, ReadUnreadable,
       ReadFails, Fill, Reuse, Begin, Put, StartWrite, OpenTemp, RenameMissing,
       ExecutorRejects, Crash
  <2> QED
    BY <2>1, <2>2 DEF Done, SaysDone
<1>4. QED
  BY <1>1, <1>2, <1>3

\* A run alone with a ledger it can read implements StepMemo: no step whose
\* result is on file is performed again, none before the steps it follows, and
\* no result is forgotten.
THEOREM DurableRemembersSteps == ASSUME Alone PROVE Spec => RemembersSteps
<1>1. Init => AloneInv
  BY AloneInit, FileInit DEF AloneInv
<1>2. AloneInv /\ [Next]_vars => AloneInv'
  BY AloneStep
<1>3. Init => Memo!Init
  <2>1. Init => Empty \in Contents /\ file = Empty
    BY TypeInit DEF Init, TypeOK
  <2> QED
    BY <2>1, ContentsReadable DEF Init, Memo!Init, SaysDone, Empty, Keys
<1>4. AloneInv /\ AloneInv' /\ [Next]_vars => [Memo!Next]_(Memo!memoVars)
  BY MemoStep DEF Memo!memoVars, Done, SaysDone
<1>5. QED
  BY <1>1, <1>2, <1>3, <1>4, PTL DEF Spec, RemembersSteps, Memo!Spec
=============================================================================
