-------------------------- MODULE PregelGraphProofs --------------------------
(* What holds of PregelGraph for every graph and every bound: versions and    *)
(* what nodes have seen of them tell which nodes the edges ask for.           *)
EXTENDS PregelGraph, TLAPS

\* The nodes that a channel with a value triggers.
Owing == {n \in AllNodes : \E c \in Triggers(n) : Available(c)}

\* Whatever is available has not been seen.
Fresh ==
  \A n \in AllNodes : \A c \in Triggers(n) :
    Available(c) => versions[c] > seen[n][c]

\* All that the joins have heard is what n has to come by.
Settled(n, h) ==
  \A j \in Joins : h[j] = {} \/ (h[j] = j.from /\ j.to = n)

Tops(m, v) ==
  /\ m \in {0} \union {v[c] : c \in Channels}
  /\ \A c \in Channels : v[c] <= m

SeenWithin(s, v) == \A n \in AllNodes : \A c \in Channels : s[n][c] <= v[c]

CountsOK == Tops(maxVersion, versions) /\ SeenWithin(seen, versions)

SavedOK ==
  saved # NoCheckpoint =>
    /\ \E m \in Nat : Tops(m, saved.versions)
    /\ SeenWithin(saved.seen, saved.versions)
    /\ saved.paused \in AllNodes /\ ~saved.forgot =>
         saved.owed = {saved.paused} /\ Settled(saved.paused, saved.heard)

Matched == owed = Owing /\ heard = barrier

PrepareOK ==
  phase = "prepare" =>
    /\ result = "none"
    /\ ~resumed => ~Unguided /\ Fresh /\ (~forgot => Matched)
    /\ resumed =>
         /\ interrupted # Nobody
         /\ filled = {} /\ \A j \in Joins : barrier[j] = {}
         /\ ~Unguided /\ ~forgot =>
              owed = {interrupted} /\ Settled(interrupted, heard)

\* A full join has brought its node here.
CameBy ==
  \A j \in Joins :
    barrier[j] = j.from => j.to \in DOMAIN tasks /\ j \in tasks[j.to]

\* A join differs from what it has heard only where a resumed node came by it.
HeardOf ==
  \A j \in Joins :
    \/ barrier[j] = heard[j]
    \/ barrier[j] = {} /\ heard[j] = j.from /\ j.to \in DOMAIN tasks

ExecuteOK ==
  phase = "execute" =>
    /\ result = "none"
    /\ ~resumed /\ ~Unguided
    /\ CameBy
    /\ ~forgot => owed = DOMAIN tasks /\ HeardOf

IInv == TypeOK /\ CountsOK /\ SavedOK /\ PrepareOK /\ ExecuteOK /\ EdgesFollowed

------------------------------------------------------------------------------
LEMMA Kinds ==
  /\ Start \in AllNodes /\ Nodes \subseteq AllNodes
  /\ Nobody \notin AllNodes /\ Unnamed \notin AllNodes /\ Unnamed # Nobody
  /\ AllNodes \subseteq Channels /\ Joins \subseteq Channels
  /\ Joins \intersect AllNodes = {}
  /\ \A j \in Joins : j.from \subseteq Nodes /\ j.from # {} /\ j.to \in Nodes
  /\ \A n \in AllNodes : Triggers(n) \subseteq Channels
  /\ Edges \subseteq AllNodes \X Nodes
  /\ \A n \in AllNodes : Choices[n] \subseteq Nodes
<1>1. \A j \in Joins : j.from \subseteq Nodes /\ j.from # {} /\ j.to \in Nodes
  BY GraphAssumption
<1>2. \A n \in AllNodes : Choices[n] \subseteq Nodes
  BY GraphAssumption DEF AllNodes
<1> QED BY <1>1, <1>2, GraphAssumption DEF AllNodes, Channels, Triggers

LEMMA NewestTops ==
  ASSUME NEW v \in [Channels -> Nat], \E m \in Nat : Tops(m, v)
  PROVE  Newest(v) \in Nat /\ Tops(Newest(v), v)
<1>1. \E m \in {0} \union {v[c] : c \in Channels} :
        \A c \in Channels : v[c] <= m
  BY DEF Tops
<1>2. Newest(v) \in {0} \union {v[c] : c \in Channels}
        /\ \A c \in Channels : v[c] <= Newest(v)
  BY <1>1 DEF Newest
<1> QED BY <1>2 DEF Tops

\* What the newest checkpoint is restored to.
LEMMA OldOK ==
  ASSUME TypeOK, SavedOK
  PROVE  /\ OldVersions \in [Channels -> Nat]
         /\ OldSeen \in [AllNodes -> [Channels -> Nat \union {-1}]]
         /\ \E m \in Nat : Tops(m, OldVersions)
         /\ SeenWithin(OldSeen, OldVersions)
<1>1. CASE saved = NoCheckpoint
  <2>1. Tops(0, OldVersions) BY <1>1 DEF Tops, OldVersions
  <2> QED BY <1>1, <2>1 DEF OldVersions, OldSeen, SeenWithin
<1>2. CASE saved # NoCheckpoint
  BY <1>2 DEF TypeOK, SavedOK, Checkpoints, OldVersions, OldSeen
<1> QED BY <1>1, <1>2

LEMMA LeadsToNodes ==
  ASSUME TypeOK, NEW n \in AllNodes
  PROVE  LeadsTo(n) \subseteq Nodes
BY DEF TypeOK, LeadsTo

------------------------------------------------------------------------------
\* What applying the writes of F leaves.
Kept == [j \in Joins |-> IF j \in Consumed(tasks) THEN {} ELSE barrier[j]]
Written(F) == UNION {LeadsTo(n) : n \in F}
Grown(F) == {j \in Joins : ~(j.from \intersect F \subseteq Kept[j])}
Updated(F) == Consumed(tasks) \union Written(F) \union Grown(F)

LEMMA Applied ==
  ASSUME TypeOK, NEW F \in SUBSET AllNodes, ApplyWrites(F)
  PROVE  /\ seen' = [n \in AllNodes |-> [c \in Channels |->
                      IF n \in DOMAIN tasks /\ c \in tasks[n]
                      THEN versions[c] ELSE seen[n][c]]]
         /\ filled' = Written(F) /\ Written(F) \subseteq Nodes
         /\ barrier' = [j \in Joins |-> Kept[j] \union (j.from \intersect F)]
         /\ maxVersion' = IF Updated(F) = {} THEN maxVersion ELSE maxVersion + 1
         /\ versions' = [c \in Channels |->
                          IF c \in Updated(F) THEN maxVersion + 1
                                              ELSE versions[c]]
         /\ Updated(F) \subseteq Channels
<1>1. Written(F) \subseteq Nodes BY LeadsToNodes DEF Written
<1>2. Updated(F) \subseteq Channels
  BY <1>1, Kinds DEF Updated, Consumed, Grown
<1> QED BY <1>1, <1>2 DEF ApplyWrites, Kept, Written, Grown, Updated

LEMMA AppliedTypes ==
  ASSUME TypeOK, NEW F \in SUBSET AllNodes, ApplyWrites(F)
  PROVE  /\ filled' \subseteq AllNodes
         /\ barrier' \in [Joins -> SUBSET Nodes]
         /\ versions' \in [Channels -> Nat]
         /\ seen' \in [AllNodes -> [Channels -> Nat \union {-1}]]
         /\ maxVersion' \in Nat
<1>1. filled' \subseteq AllNodes BY Applied, Kinds
<1>2. barrier' \in [Joins -> SUBSET Nodes]
  <2>1. Kept \in [Joins -> SUBSET Nodes] BY DEF Kept, TypeOK
  <2> QED BY <2>1, Applied, Kinds
<1>3. versions' \in [Channels -> Nat]
  <2>1. versions \in [Channels -> Nat] /\ maxVersion \in Nat BY DEF TypeOK
  <2> QED BY <2>1, Applied
<1>4. seen' \in [AllNodes -> [Channels -> Nat \union {-1}]]
  BY Applied DEF TypeOK
<1>5. maxVersion' \in Nat BY Applied DEF TypeOK
<1> QED BY <1>1, <1>2, <1>3, <1>4, <1>5

LEMMA AppliedCounts ==
  ASSUME TypeOK, CountsOK, NEW F \in SUBSET AllNodes, ApplyWrites(F)
  PROVE  CountsOK'
<1>1. Tops(maxVersion', versions')
  <2>1. CASE Updated(F) = {}
    <3>1. maxVersion' = maxVersion BY <2>1, Applied
    <3>2. \A c \in Channels : versions'[c] = versions[c] BY <2>1, Applied
    <3> QED BY <3>1, <3>2 DEF CountsOK, Tops
  <2>2. CASE Updated(F) # {}
    <3>1. PICK u \in Updated(F) : TRUE BY <2>2
    <3>2. u \in Channels /\ versions'[u] = maxVersion + 1
      BY <3>1, Applied
    <3>3. maxVersion' = maxVersion + 1 BY <2>2, Applied
    <3>4. \A c \in Channels : versions'[c] <= maxVersion + 1
      <4>1. versions \in [Channels -> Nat] /\ maxVersion \in Nat BY DEF TypeOK
      <4>2. \A c \in Channels : versions[c] <= maxVersion
        BY DEF CountsOK, Tops
      <4> QED BY <4>1, <4>2, Applied
    <3> QED BY <3>2, <3>3, <3>4 DEF Tops
  <2> QED BY <2>1, <2>2
<1>2. SeenWithin(seen', versions')
  <2> SUFFICES ASSUME NEW n \in AllNodes, NEW c \in Channels
               PROVE  seen'[n][c] <= versions'[c]
    BY DEF SeenWithin
  <2>1. versions[c] \in Nat /\ maxVersion \in Nat /\ seen[n][c] \in Nat \union {-1}
    BY DEF TypeOK
  <2>2. versions[c] <= maxVersion /\ seen[n][c] <= versions[c]
    BY DEF CountsOK, Tops, SeenWithin
  <2>3. versions'[c] = maxVersion + 1 \/ versions'[c] = versions[c]
    BY Applied
  <2>4. seen'[n][c] = versions[c] \/ seen'[n][c] = seen[n][c]
    BY Applied
  <2> QED BY <2>1, <2>2, <2>3, <2>4
<1> QED BY <1>1, <1>2 DEF CountsOK

LEMMA AppliedFresh ==
  ASSUME TypeOK, CountsOK, CameBy, NEW F \in SUBSET AllNodes, ApplyWrites(F)
  PROVE  Fresh'
<1> SUFFICES ASSUME NEW n \in AllNodes, NEW c \in Triggers(n), Available(c)'
             PROVE  versions'[c] > seen'[n][c]
  BY DEF Fresh, Triggers
<1>1. c \in Channels BY Kinds
<1>2. c \in Updated(F)
  <2>1. CASE c \notin Joins
    BY <2>1, Applied DEF Available, Updated
  <2>2. CASE c \in Joins /\ c \notin Updated(F)
    <3>1. Kept[c] = barrier[c] BY <2>2 DEF Updated, Kept
    <3>2. barrier'[c] = c.from BY <2>2 DEF Available
    <3>3. barrier'[c] = Kept[c] \union (c.from \intersect F)
      BY <2>2, Applied
    <3>4. c.from \intersect F \subseteq Kept[c]
      BY <2>2 DEF Updated, Grown
    <3>5. barrier[c] = c.from BY <3>1, <3>2, <3>3, <3>4
    <3>6. c \in Consumed(tasks) BY <2>2, <3>5 DEF CameBy, Consumed
    <3> QED BY <2>2, <3>6 DEF Updated
  <2> QED BY <2>1, <2>2
<1>3. versions'[c] = maxVersion + 1 BY <1>1, <1>2, Applied
<1>4. versions[c] \in Nat /\ maxVersion \in Nat /\ seen[n][c] \in Nat \union {-1}
  BY <1>1 DEF TypeOK
<1>5. versions[c] <= maxVersion /\ seen[n][c] <= versions[c]
  BY <1>1 DEF CountsOK, Tops, SeenWithin
<1>6. seen'[n][c] = versions[c] \/ seen'[n][c] = seen[n][c]
  BY <1>1, Applied
<1> QED BY <1>3, <1>4, <1>5, <1>6

\* Once all the nodes that were owed have returned, the edges and the channels
\* agree on the next.
LEMMA AppliedMatched ==
  ASSUME TypeOK, CameBy, HeardOf, owed = DOMAIN tasks,
         ApplyWrites(DOMAIN tasks), Owe(DOMAIN tasks)
  PROVE  Matched'
<1> DEFINE D == DOMAIN tasks
           Begun == [j \in Joins |->
                       IF heard[j] = j.from /\ j.to \in D THEN {} ELSE heard[j]]
<1>0. D \in SUBSET AllNodes BY DEF TypeOK
<1>1. ASSUME NEW j \in Joins PROVE Begun[j] = Kept[j]
  <2>1. CASE barrier[j] = heard[j] /\ barrier[j] = j.from
    <3>1. j \in Consumed(tasks) /\ j.to \in D
      BY <2>1 DEF CameBy, Consumed
    <3> QED BY <2>1, <3>1 DEF Kept
  <2>2. CASE barrier[j] = heard[j] /\ barrier[j] # j.from
    BY <2>2 DEF Kept, Consumed
  <2>3. CASE barrier[j] = {} /\ heard[j] = j.from /\ j.to \in D
    BY <2>3, Kinds DEF Kept, Consumed
  <2> QED BY <2>1, <2>2, <2>3 DEF HeardOf
<1>2. heard' = [j \in Joins |-> Begun[j] \union (j.from \intersect D)]
  BY DEF Owe
<1>3. heard' = barrier'
  <2>1. \A j \in Joins : heard'[j] = barrier'[j]
    BY <1>0, <1>1, <1>2, Applied
  <2>2. barrier' = [j \in Joins |-> Kept[j] \union (j.from \intersect D)]
    BY <1>0, Applied
  <2> QED BY <1>1, <1>2, <2>2
<1>4. owed' = filled' \union {j.to : j \in {i \in Joins : barrier'[i] = i.from}}
  <2> DEFINE Led == UNION {LeadsTo(n) : n \in D}
             Heard == {j.to : j \in {i \in Joins : heard'[i] = i.from}}
  <2>1. owed' = (owed \ D) \union Led \union Heard BY DEF Owe
  <2>2. filled' = Led BY <1>0, Applied DEF Written
  <2>3. owed \ D = {} OBVIOUS
  <2>4. owed' = filled' \union Heard
    <3> HIDE DEF Led, Heard
    <3> QED BY <2>1, <2>2, <2>3
  <2> QED BY <1>3, <2>4
<1>5. owed' = Owing'
  <2>1. filled' \subseteq AllNodes BY <1>0, AppliedTypes
  <2>2. ASSUME NEW n \in owed' PROVE n \in Owing'
    <3>1. CASE n \in filled'
      BY <2>1, <3>1, Kinds DEF Owing, Triggers, Available
    <3>2. CASE \E j \in Joins : j.to = n /\ barrier'[j] = j.from
      BY <3>2, Kinds DEF Owing, Triggers, Available
    <3> QED BY <1>4, <3>1, <3>2
  <2>3. ASSUME NEW n \in Owing' PROVE n \in owed'
    <3>1. PICK c \in Triggers(n) : Available(c)' BY <2>3 DEF Owing
    <3>2. n \in AllNodes BY <2>3 DEF Owing
    <3>3. CASE c = n BY <1>4, <3>1, <3>2, <3>3, Kinds DEF Available
    <3>4. CASE c \in Joins /\ c.to = n
      BY <1>4, <3>1, <3>4 DEF Available
    <3> QED BY <3>1, <3>3, <3>4 DEF Triggers
  <2> QED BY <2>2, <2>3
<1> QED BY <1>3, <1>5 DEF Matched

\* Fresh channels make the nodes that are ready those that are owing.
LEMMA FreshReady == Fresh => Ready = Owing
BY DEF Fresh, Ready, Owing, Triggered

LEMMA OweTypes ==
  ASSUME TypeOK, NEW F \in SUBSET AllNodes, Owe(F)
  PROVE  owed' \subseteq AllNodes /\ heard' \in [Joins -> SUBSET Nodes]
<1> DEFINE Begun == [j \in Joins |->
                       IF heard[j] = j.from /\ j.to \in F THEN {} ELSE heard[j]]
           Led == UNION {LeadsTo(n) : n \in F}
           Heard == {j.to : j \in {i \in Joins : heard'[i] = i.from}}
<1>1. Begun \in [Joins -> SUBSET Nodes] BY DEF TypeOK
<1>2. heard' = [j \in Joins |-> Begun[j] \union (j.from \intersect F)]
  BY DEF Owe
<1>3. heard' \in [Joins -> SUBSET Nodes] BY <1>1, <1>2, Kinds
<1>4. owed' = (owed \ F) \union Led \union Heard BY DEF Owe
<1>5. Led \subseteq AllNodes BY LeadsToNodes, Kinds
<1>6. Heard \subseteq AllNodes BY Kinds
<1> QED BY <1>3, <1>4, <1>5, <1>6 DEF TypeOK

LEMMA SaveTypes ==
  ASSUME NEW n \in AllNodes \union {Nobody, Unnamed},
         versions' \in [Channels -> Nat],
         seen' \in [AllNodes -> [Channels -> Nat \union {-1}]],
         owed' \subseteq AllNodes, heard' \in [Joins -> SUBSET Nodes],
         forgot' \in BOOLEAN, Save(n)
  PROVE  saved' \in Checkpoints
BY DEF Save, Checkpoints

LEMMA SaveOK ==
  ASSUME NEW n \in AllNodes \union {Nobody, Unnamed},
         CountsOK', maxVersion' \in Nat, Save(n), saved' \in Checkpoints,
         n \notin AllNodes \/ forgot' \/ ~Forgets(n, owed', heard')
  PROVE  SavedOK'
<1>1. Tops(maxVersion', saved'.versions)
        /\ SeenWithin(saved'.seen, saved'.versions)
  BY DEF Save, CountsOK
<1>2. saved'.paused = n /\ saved'.owed = owed' /\ saved'.heard = heard'
        /\ saved'.forgot = forgot'
  BY DEF Save
<1>3. n \in AllNodes /\ ~forgot' => owed' = {n} /\ Settled(n, heard')
  BY DEF Forgets, Settled
<1> QED BY <1>1, <1>2, <1>3 DEF SavedOK

------------------------------------------------------------------------------
LEMMA InitIInv == Init => IInv
<1> SUFFICES ASSUME Init PROVE IInv OBVIOUS
<1>1. TypeOK
  BY Kinds DEF Init, TypeOK
<1>2. CountsOK BY DEF Init, CountsOK, Tops, SeenWithin
<1> QED BY <1>1, <1>2 DEF Init, IInv, SavedOK, PrepareOK, ExecuteOK, EdgesFollowed

LEMMA InvokeInputIInv ==
  ASSUME IInv, NEW k \in Nat, InvokeInput(k)
  PROVE  IInv'
<1> USE DEF IInv
<1> DEFINE Old == OldVersions
<1>1. /\ Old \in [Channels -> Nat]
      /\ OldSeen \in [AllNodes -> [Channels -> Nat \union {-1}]]
      /\ \E m \in Nat : Tops(m, Old)
      /\ SeenWithin(OldSeen, Old)
  BY OldOK
<1>2. Newest(Old) \in Nat /\ Tops(Newest(Old), Old) BY <1>1, NewestTops
<1>3. /\ versions' = [Old EXCEPT ![Start] = Newest(Old) + 1]
      /\ maxVersion' = Newest(Old) + 1 /\ seen' = OldSeen
      /\ filled' = {Start} /\ barrier' = [j \in Joins |-> {}]
      /\ owed' = {Start} /\ heard' = [j \in Joins |-> {}]
      /\ phase' = "prepare" /\ result' = "none" /\ resumed' = FALSE
  BY DEF InvokeInput, Invoke
<1> HIDE DEF Old
<1>4. Start \in Channels BY Kinds
<1>5. CountsOK'
  <2>1. Tops(maxVersion', versions')
    BY <1>1, <1>2, <1>3, <1>4 DEF Tops
  <2>2. SeenWithin(seen', versions')
    <3> SUFFICES ASSUME NEW n \in AllNodes, NEW c \in Channels
                 PROVE  seen'[n][c] <= versions'[c]
      BY DEF SeenWithin
    <3>1. seen'[n][c] <= Old[c] /\ Old[c] <= Newest(Old)
      BY <1>2, <1>1, <1>3 DEF SeenWithin, Tops
    <3>2. Old[c] \in Nat /\ seen'[n][c] \in Nat \union {-1} BY <1>1, <1>3
    <3> QED BY <1>1, <1>2, <1>3, <3>1, <3>2
  <2> QED BY <2>1, <2>2 DEF CountsOK
<1>6. /\ versions' \in [Channels -> Nat] /\ maxVersion' \in Nat
      /\ seen' \in [AllNodes -> [Channels -> Nat \union {-1}]]
      /\ owed' \subseteq AllNodes /\ heard' \in [Joins -> SUBSET Nodes]
  BY <1>1, <1>2, <1>3, Kinds
<1>7. saved' \in Checkpoints
  BY <1>6, SaveTypes DEF InvokeInput
<1>8. SavedOK' BY <1>5, <1>6, <1>7, SaveOK, Kinds DEF InvokeInput
<1>9. TypeOK'
  <2>1. forgot' = FALSE /\ interrupted' = Nobody /\ answers' = k
        /\ invokes' = invokes + 1 /\ step' = 0 /\ UNCHANGED taskVars
    BY DEF InvokeInput, Invoke
  <2>2. filled' \subseteq AllNodes /\ barrier' \in [Joins -> SUBSET Nodes]
    BY <1>3, Kinds
  <2>3. tasks' = tasks /\ finished' = finished /\ routes' = routes
    BY <2>1 DEF taskVars
  <2>4. phase' \in {"idle", "prepare", "execute"}
        /\ result' \in {"none", "done", "paused", "failed"}
    BY <1>3
  <2>5. invokes' \in Nat /\ step' \in Nat /\ answers' \in Nat
    BY <2>1 DEF TypeOK
  <2>6. interrupted' \in AllNodes \union {Nobody, Unnamed}
        /\ resumed' \in BOOLEAN /\ forgot' \in BOOLEAN
    BY <1>3, <2>1
  <2> QED BY <1>6, <1>7, <2>2, <2>3, <2>4, <2>5, <2>6 DEF TypeOK
<1>10. Fresh'
  <2> SUFFICES ASSUME NEW n \in AllNodes, NEW c \in Triggers(n), Available(c)'
               PROVE  versions'[c] > seen'[n][c]
    BY DEF Fresh, Triggers
  <2>1. c = Start
    <3>1. c \notin Joins BY <1>3, Kinds DEF Available
    <3> QED BY <1>3, <3>1 DEF Available
  <2>2. seen'[n][Start] <= Old[Start] /\ Old[Start] <= Newest(Old)
    BY <1>2, <1>1, <1>3, <1>4 DEF SeenWithin, Tops
  <2>3. Old[Start] \in Nat /\ seen'[n][Start] \in Nat \union {-1}
    BY <1>1, <1>3, <1>4
  <2>4. versions'[Start] = Newest(Old) + 1 BY <1>1, <1>3, <1>4
  <2> QED BY <1>2, <2>1, <2>2, <2>3, <2>4
<1>11. Matched'
  <2>1. \A j \in Joins : ~Available(j)' BY <1>3, Kinds DEF Available
  <2>2. \A n \in AllNodes : Available(n)' <=> n = Start
    BY <1>3, Kinds DEF Available
  <2>3. Owing' = {Start} BY <2>1, <2>2, Kinds DEF Owing, Triggers
  <2> QED BY <1>3, <2>3 DEF Matched
<1>12. PrepareOK'
  <2>1. ~Unguided' BY Kinds DEF InvokeInput, Unguided
  <2> QED BY <1>3, <1>10, <1>11, <2>1 DEF PrepareOK
<1>13. ExecuteOK' /\ EdgesFollowed' BY <1>3 DEF ExecuteOK, EdgesFollowed
<1> QED BY <1>5, <1>8, <1>9, <1>12, <1>13

LEMMA InvokeResumeIInv ==
  ASSUME IInv, NEW k \in Nat, InvokeResume(k)
  PROVE  IInv'
<1> USE DEF IInv
<1>1. /\ OldVersions \in [Channels -> Nat]
      /\ OldSeen \in [AllNodes -> [Channels -> Nat \union {-1}]]
      /\ \E m \in Nat : Tops(m, OldVersions)
      /\ SeenWithin(OldSeen, OldVersions)
  BY OldOK
<1>2. Newest(OldVersions) \in Nat /\ Tops(Newest(OldVersions), OldVersions)
  BY <1>1, NewestTops
<1>3. /\ versions' = OldVersions /\ maxVersion' = Newest(OldVersions)
      /\ seen' = OldSeen /\ filled' = {} /\ barrier' = [j \in Joins |-> {}]
      /\ owed' = saved.owed /\ heard' = saved.heard /\ forgot' = saved.forgot
      /\ saved # NoCheckpoint /\ saved.paused # Nobody
      /\ interrupted' = saved.paused /\ resumed' = TRUE
      /\ phase' = "prepare" /\ result' = "none" /\ saved' = saved
  BY DEF InvokeResume, Invoke, Paused
<1>4. CountsOK' BY <1>1, <1>2, <1>3 DEF CountsOK
<1>5. saved \in Checkpoints BY <1>3 DEF TypeOK
<1>6. TypeOK'
  <2>1. /\ saved.paused \in AllNodes \union {Nobody, Unnamed}
        /\ saved.owed \subseteq AllNodes
        /\ saved.heard \in [Joins -> SUBSET Nodes]
        /\ saved.forgot \in BOOLEAN
    BY <1>5 DEF Checkpoints
  <2> QED BY <1>1, <1>2, <1>3, <1>5, <2>1
          DEF InvokeResume, Invoke, TypeOK, taskVars
<1>7. SavedOK' BY <1>3 DEF SavedOK
<1>8. PrepareOK'
  <2>1. saved.paused \in AllNodes \union {Unnamed}
    BY <1>3, <1>5 DEF Checkpoints
  <2>2. saved.paused # Unnamed /\ ~saved.forgot => saved.owed = {saved.paused}
                           /\ Settled(saved.paused, saved.heard)
    BY <1>3, <2>1 DEF SavedOK
  <2> QED BY <1>3, <2>2 DEF PrepareOK, Unguided
<1>9. ExecuteOK' /\ EdgesFollowed' BY <1>3 DEF ExecuteOK, EdgesFollowed
<1> QED BY <1>4, <1>6, <1>7, <1>8, <1>9

LEMMA InvokeCommandIInv ==
  ASSUME IInv, InvokeCommand
  PROVE  IInv'
<1> USE DEF IInv
<1>1. /\ OldVersions \in [Channels -> Nat]
      /\ OldSeen \in [AllNodes -> [Channels -> Nat \union {-1}]]
      /\ \E m \in Nat : Tops(m, OldVersions)
      /\ SeenWithin(OldSeen, OldVersions)
  BY OldOK
<1>2. Newest(OldVersions) \in Nat /\ Tops(Newest(OldVersions), OldVersions)
  BY <1>1, NewestTops
<1>3. /\ versions' = OldVersions /\ maxVersion' = Newest(OldVersions)
      /\ seen' = OldSeen /\ filled' = {} /\ barrier' = [j \in Joins |-> {}]
      /\ owed' = {} /\ heard' = [j \in Joins |-> {}] /\ forgot' = FALSE
      /\ interrupted' = Nobody /\ resumed' = FALSE
      /\ phase' = "prepare" /\ result' = "none"
      /\ answers' = 0 /\ step' = 0 /\ invokes' = invokes + 1
      /\ UNCHANGED <<tasks, finished, routes>>
  BY DEF InvokeCommand, Invoke, taskVars
<1>4. CountsOK' BY <1>1, <1>2, <1>3 DEF CountsOK
<1>5. heard' \in [Joins -> SUBSET Nodes] /\ barrier' \in [Joins -> SUBSET Nodes]
  BY <1>3
<1>6. saved' \in Checkpoints
  BY <1>1, <1>3, <1>5, SaveTypes DEF InvokeCommand
<1>7. SavedOK' BY <1>2, <1>3, <1>4, <1>6, SaveOK, Kinds DEF InvokeCommand
<1>8. TypeOK'
  <2>1. /\ DOMAIN tasks' \subseteq AllNodes
        /\ tasks' \in [DOMAIN tasks' -> SUBSET Channels]
        /\ finished' \subseteq DOMAIN tasks' /\ routes' \in [AllNodes -> SUBSET Nodes]
    BY <1>3 DEF TypeOK
  <2>2. invokes' \in Nat BY <1>3 DEF TypeOK
  <2> QED BY <1>1, <1>2, <1>3, <1>5, <1>6, <2>1, <2>2 DEF TypeOK
<1>9. \A n \in AllNodes : \A c \in Triggers(n) : ~Available(c)'
  BY <1>3, Kinds DEF Triggers, Available
<1>10. Fresh' /\ Matched'
  BY <1>3, <1>9 DEF Fresh, Matched, Owing, Triggers
<1>11. PrepareOK' BY <1>3, <1>10, Kinds DEF PrepareOK, Unguided
<1>12. ExecuteOK' /\ EdgesFollowed' BY <1>3 DEF ExecuteOK, EdgesFollowed
<1> QED BY <1>4, <1>7, <1>8, <1>11, <1>12

\* Nothing runs where a pause without a node is resumed.
LEMMA UnguidedRunsNothing ==
  ASSUME IInv, phase = "prepare", Unguided
  PROVE  DOMAIN Tasks = {}
<1>1. resumed /\ filled = {} /\ \A j \in Joins : barrier[j] = {}
  BY DEF IInv, PrepareOK
<1>2. \A n \in AllNodes : \A c \in Triggers(n) : ~Available(c)
  BY <1>1, Kinds DEF Triggers, Available
<1>3. Ready = {} BY <1>2 DEF Ready, Triggered
<1> QED BY <1>3 DEF Tasks, Unguided

\* The next superstep is what the edges ask for.
LEMMA OwedRuns == IInv => RunsWhatIsOwed
<1> SUFFICES ASSUME IInv, phase = "prepare", ~forgot
             PROVE  DOMAIN Tasks = IF Unguided THEN {} ELSE owed
  BY DEF RunsWhatIsOwed
<1>1. CASE Unguided BY <1>1, UnguidedRunsNothing
<1>2. CASE resumed /\ ~Unguided
  BY <1>2 DEF IInv, PrepareOK, Tasks, Unguided
<1>3. CASE ~resumed
  BY <1>3, FreshReady DEF IInv, PrepareOK, Matched, Tasks
<1> QED BY <1>1, <1>2, <1>3 DEF IInv, TypeOK

LEMMA TasksTypes ==
  ASSUME IInv, phase = "prepare"
  PROVE  DOMAIN Tasks \subseteq AllNodes /\ Tasks \in [DOMAIN Tasks -> SUBSET Channels]
<1>1. CASE resumed /\ interrupted # Unnamed
  <2>1. interrupted \in AllNodes BY <1>1 DEF IInv, TypeOK, PrepareOK
  <2> QED BY <1>1, <2>1, Kinds DEF Tasks
<1>2. CASE ~(resumed /\ interrupted # Unnamed)
  BY <1>2, Kinds DEF Tasks, Ready, Triggered
<1> QED BY <1>1, <1>2

LEMMA PrepareIInv ==
  ASSUME IInv, Prepare
  PROVE  IInv'
<1> USE DEF IInv
<1>1. phase = "prepare" /\ UNCHANGED <<filled, barrier, versions, seen, maxVersion>>
      /\ UNCHANGED <<step, interrupted, answers, invokes>>
  BY DEF Prepare, channelVars, callVars
<1>2. CountsOK' BY <1>1 DEF CountsOK
<1>3. CASE /\ DOMAIN Tasks = {}
           /\ End("done")
           /\ UNCHANGED <<taskVars, resumed, saved, history>>
  <2>1. TypeOK' BY <1>1, <1>3 DEF TypeOK, End, taskVars, history
  <2>2. SavedOK' BY <1>3 DEF SavedOK
  <2>3. PrepareOK' /\ ExecuteOK' BY <1>3 DEF End, PrepareOK, ExecuteOK
  <2>4. EdgesFollowed'
    <3>1. ~forgot /\ ~Unguided => DOMAIN Tasks = owed
      BY <1>1, OwedRuns DEF RunsWhatIsOwed
    <3>2. owed' = owed /\ forgot' = forgot /\ Unguided' = Unguided
      BY <1>1, <1>3 DEF history, Unguided
    <3> QED BY <1>3, <3>1, <3>2 DEF EdgesFollowed
  <2> QED BY <1>2, <2>1, <2>2, <2>3, <2>4
<1>4. ASSUME NEW n \in PauseBefore \intersect DOMAIN Tasks,
             forgot' = (forgot \/ Forgets(n, owed, heard)),
             saved' = [versions |-> versions, seen |-> seen, paused |-> n,
                       owed |-> owed, heard |-> heard, forgot |-> forgot'],
             End("paused"), UNCHANGED <<taskVars, resumed, owed, heard>>
      PROVE  IInv'
  <2>1. n \in AllNodes BY TasksTypes, <1>1
  <2>2. Save(n) BY <1>1, <1>4 DEF Save
  <2>3. forgot' \in BOOLEAN BY <1>4 DEF TypeOK, Forgets
  <2>4. saved' \in Checkpoints
    BY <1>1, <1>4, <2>1, <2>2, <2>3, SaveTypes DEF TypeOK
  <2>5. SavedOK'
    BY <1>1, <1>2, <1>4, <2>1, <2>2, <2>4, SaveOK DEF TypeOK, Forgets
  <2>6. TypeOK' BY <1>1, <1>4, <2>3, <2>4 DEF TypeOK, End, taskVars
  <2>7. PrepareOK' /\ ExecuteOK' /\ EdgesFollowed'
    BY <1>4 DEF End, PrepareOK, ExecuteOK, EdgesFollowed
  <2> QED BY <1>2, <2>5, <2>6, <2>7
<1>5. CASE /\ DOMAIN Tasks # {}
           /\ tasks' = Tasks
           /\ finished' = {}
           /\ routes' = [n \in AllNodes |-> {}]
           /\ resumed' = FALSE
           /\ phase' = "execute"
           /\ UNCHANGED <<saved, result, history>>
  <2>1. TypeOK'
    <3>1. DOMAIN tasks' \subseteq AllNodes
          /\ tasks' \in [DOMAIN tasks' -> SUBSET Channels]
      BY <1>1, <1>5, TasksTypes
    <3>2. finished' \subseteq DOMAIN tasks' BY <1>5
    <3> QED BY <1>1, <1>5, <3>1, <3>2 DEF TypeOK, history
  <2>2. SavedOK' BY <1>5 DEF SavedOK
  <2>0. ~Unguided BY <1>1, <1>5, UnguidedRunsNothing
  <2>3. CameBy'
    <3> SUFFICES ASSUME NEW j \in Joins, barrier[j] = j.from
                 PROVE  j.to \in DOMAIN Tasks /\ j \in Tasks[j.to]
      BY <1>1, <1>5 DEF CameBy
    <3>1. ~resumed BY <1>1, Kinds DEF PrepareOK
    <3>2. j.to \in AllNodes /\ j \in Triggers(j.to) BY Kinds DEF Triggers
    <3>3. Available(j) BY DEF Available
    <3>4. j \in Triggered(j.to)
      BY <1>1, <3>1, <3>2, <3>3 DEF PrepareOK, Fresh, Triggered
    <3>5. j.to \in Ready BY <3>2, <3>4 DEF Ready
    <3> QED BY <3>1, <3>4, <3>5 DEF Tasks
  <2>4. ~forgot => owed = DOMAIN Tasks
    BY <1>1, <2>0, OwedRuns DEF RunsWhatIsOwed
  <2>5. ~forgot => HeardOf'
    <3> SUFFICES ASSUME ~forgot PROVE HeardOf' OBVIOUS
    <3>1. CASE resumed
      <4>1. DOMAIN Tasks = {interrupted} BY <2>0, <3>1 DEF Tasks, Unguided
      <4>2. Settled(interrupted, heard) /\ \A j \in Joins : barrier[j] = {}
        BY <1>1, <2>0, <3>1 DEF PrepareOK
      <4>3. heard' = heard BY <1>5 DEF history
      <4> QED BY <1>1, <1>5, <4>1, <4>2, <4>3 DEF HeardOf, Settled
    <3>2. CASE ~resumed
      <4>1. heard = barrier BY <1>1, <3>2 DEF PrepareOK, Matched
      <4>2. heard' = heard BY <1>5 DEF history
      <4> QED BY <1>1, <4>1, <4>2 DEF HeardOf
    <3> QED BY <3>1, <3>2
  <2>6. owed' = owed /\ forgot' = forgot /\ result' = result
    BY <1>5 DEF history
  <2>7. ExecuteOK'
    BY <1>1, <1>5, <2>0, <2>3, <2>4, <2>5, <2>6
    DEF ExecuteOK, PrepareOK, Unguided
  <2>8. PrepareOK' /\ EdgesFollowed'
    BY <1>1, <1>5, <2>6 DEF PrepareOK, EdgesFollowed
  <2> QED BY <1>2, <2>1, <2>2, <2>7, <2>8
<1> QED BY <1>3, <1>4, <1>5 DEF Prepare

LEMMA NodeReturnsIInv ==
  ASSUME IInv, NEW n \in AllNodes, NodeReturns(n)
  PROVE  IInv'
<1> USE DEF IInv
<1>1. PICK to \in SUBSET Choices[n] : routes' = [routes EXCEPT ![n] = to]
  BY DEF NodeReturns
<1>2. to \subseteq Nodes BY <1>1, Kinds
<1>3. /\ phase = "execute" /\ n \in DOMAIN tasks
      /\ finished' = finished \union {n} /\ tasks' = tasks
      /\ UNCHANGED <<filled, barrier, versions, seen, maxVersion, saved, phase,
                     step, interrupted, answers, invokes, resumed, result,
                     owed, heard, forgot>>
  BY DEF NodeReturns, channelVars, callVars, history
<1>4. TypeOK' BY <1>1, <1>2, <1>3 DEF TypeOK
<1>5. CountsOK' /\ SavedOK' /\ EdgesFollowed'
  BY <1>3 DEF CountsOK, SavedOK, EdgesFollowed, Unguided
<1>6. PrepareOK' BY <1>3 DEF PrepareOK
<1>7. ExecuteOK' BY <1>3 DEF ExecuteOK, CameBy, HeardOf, Unguided
<1> QED BY <1>4, <1>5, <1>6, <1>7

LEMMA NodeInterruptsIInv ==
  ASSUME IInv, NEW n \in AllNodes, NodeInterrupts(n)
  PROVE  IInv'
<1> USE DEF IInv
<1>1. /\ phase = "execute" /\ ApplyWrites(finished) /\ Owe(finished)
      /\ forgot' = (forgot \/ Forgets(n, owed', heard'))
      /\ Save(n) /\ phase' = "idle" /\ result' = "paused"
      /\ UNCHANGED <<step, tasks, finished, routes, interrupted, answers,
                     invokes, resumed>>
  BY DEF NodeInterrupts, End, taskVars, callVars
<1>2. finished \in SUBSET AllNodes BY DEF TypeOK
<1>3. forgot' \in BOOLEAN BY <1>1 DEF TypeOK, Forgets
<1>4. CountsOK' BY <1>1, <1>2, AppliedCounts
<1>5. /\ filled' \subseteq AllNodes
      /\ barrier' \in [Joins -> SUBSET Nodes]
      /\ versions' \in [Channels -> Nat]
      /\ seen' \in [AllNodes -> [Channels -> Nat \union {-1}]]
      /\ maxVersion' \in Nat
  BY <1>1, <1>2, AppliedTypes
<1>6. owed' \subseteq AllNodes /\ heard' \in [Joins -> SUBSET Nodes]
  BY <1>1, <1>2, OweTypes
<1>7. saved' \in Checkpoints BY <1>1, <1>3, <1>5, <1>6, SaveTypes
<1>8. SavedOK' BY <1>1, <1>3, <1>4, <1>5, <1>7, SaveOK
<1>9. TypeOK' BY <1>1, <1>3, <1>5, <1>6, <1>7 DEF TypeOK
<1>10. PrepareOK' /\ ExecuteOK' /\ EdgesFollowed'
  BY <1>1 DEF PrepareOK, ExecuteOK, EdgesFollowed
<1> QED BY <1>4, <1>8, <1>9, <1>10

LEMMA NodeThrowsIInv ==
  ASSUME IInv, NEW n \in AllNodes, NodeThrows(n)
  PROVE  IInv'
<1> USE DEF IInv
<1>1. /\ phase = "execute" /\ ApplyWrites(finished) /\ Owe(finished)
      /\ forgot' = forgot
      /\ Save(Unnamed) /\ phase' = "idle" /\ result' = "paused"
      /\ UNCHANGED <<step, tasks, finished, routes, interrupted, answers,
                     invokes, resumed>>
  BY DEF NodeThrows, End, taskVars, callVars
<1>2. finished \in SUBSET AllNodes BY DEF TypeOK
<1>3. forgot' \in BOOLEAN BY <1>1 DEF TypeOK
<1>4. CountsOK' BY <1>1, <1>2, AppliedCounts
<1>5. /\ filled' \subseteq AllNodes
      /\ barrier' \in [Joins -> SUBSET Nodes]
      /\ versions' \in [Channels -> Nat]
      /\ seen' \in [AllNodes -> [Channels -> Nat \union {-1}]]
      /\ maxVersion' \in Nat
  BY <1>1, <1>2, AppliedTypes
<1>6. owed' \subseteq AllNodes /\ heard' \in [Joins -> SUBSET Nodes]
  BY <1>1, <1>2, OweTypes
<1>7. saved' \in Checkpoints BY <1>1, <1>3, <1>5, <1>6, SaveTypes
<1>8. SavedOK' BY <1>1, <1>4, <1>5, <1>7, SaveOK, Kinds
<1>9. TypeOK' BY <1>1, <1>3, <1>5, <1>6, <1>7 DEF TypeOK
<1>10. PrepareOK' /\ ExecuteOK' /\ EdgesFollowed'
  BY <1>1 DEF PrepareOK, ExecuteOK, EdgesFollowed
<1> QED BY <1>4, <1>8, <1>9, <1>10

LEMMA FinishStepIInv ==
  ASSUME IInv, FinishStep
  PROVE  IInv'
<1> USE DEF IInv
<1>1. /\ phase = "execute" /\ finished = DOMAIN tasks
      /\ ApplyWrites(DOMAIN tasks) /\ Owe(DOMAIN tasks)
      /\ UNCHANGED <<tasks, finished, routes, interrupted, answers, invokes,
                     resumed>>
  BY DEF FinishStep, taskVars, callVars
<1>2. DOMAIN tasks \in SUBSET AllNodes BY DEF TypeOK
<1>3. CountsOK' BY <1>1, <1>2, AppliedCounts
<1>4. /\ filled' \subseteq AllNodes
      /\ barrier' \in [Joins -> SUBSET Nodes]
      /\ versions' \in [Channels -> Nat]
      /\ seen' \in [AllNodes -> [Channels -> Nat \union {-1}]]
      /\ maxVersion' \in Nat
  BY <1>1, <1>2, AppliedTypes
<1>5. owed' \subseteq AllNodes /\ heard' \in [Joins -> SUBSET Nodes]
  BY <1>1, <1>2, OweTypes
<1>6. CameBy /\ ~resumed /\ ~Unguided /\ result = "none"
  BY <1>1 DEF ExecuteOK
<1>7. Fresh' BY <1>1, <1>2, <1>6, AppliedFresh
<1>8. ~forgot => Matched' BY <1>1, AppliedMatched DEF ExecuteOK
<1>9. ASSUME NEW n \in PauseAfter \intersect DOMAIN tasks, forgot' = TRUE,
             Save(n), End("paused"), UNCHANGED step
      PROVE  IInv'
  <2>1. n \in AllNodes BY <1>2
  <2>2. saved' \in Checkpoints BY <1>4, <1>5, <1>9, <2>1, SaveTypes
  <2>3. SavedOK' BY <1>3, <1>4, <1>9, <2>1, <2>2, SaveOK
  <2>4. TypeOK' BY <1>1, <1>4, <1>5, <1>9, <2>2 DEF TypeOK, End
  <2>5. PrepareOK' /\ ExecuteOK' /\ EdgesFollowed'
    BY <1>9 DEF End, PrepareOK, ExecuteOK, EdgesFollowed
  <2> QED BY <1>3, <2>3, <2>4, <2>5
<1>10. CASE /\ UNCHANGED forgot
            /\ Save(Nobody)
            /\ step' = step + 1
            /\ IF step' < RecursionLimit
               THEN phase' = "prepare" /\ UNCHANGED result
               ELSE End(IF Exceeded THEN "failed" ELSE "done")
  <2>1. saved' \in Checkpoints BY <1>4, <1>5, <1>10, SaveTypes DEF TypeOK
  <2>2. SavedOK' BY <1>3, <1>4, <1>10, <2>1, SaveOK, Kinds
  <2>3. \/ phase' = "prepare" /\ result' = "none"
        \/ phase' = "idle" /\ result' = "failed"
        \/ phase' = "idle" /\ result' = "done" /\ Ready' = {}
    BY <1>6, <1>10 DEF End, Exceeded
  <2>4. TypeOK' BY <1>1, <1>4, <1>5, <1>10, <2>1, <2>3 DEF TypeOK
  <2>5. ExecuteOK' BY <2>3 DEF ExecuteOK
  <2>6. PrepareOK'
    BY <1>1, <1>6, <1>7, <1>8, <1>10, <2>3 DEF PrepareOK, Unguided
  <2>7. EdgesFollowed'
    <3>1. (Fresh => Ready = Owing)' BY FreshReady, PTL
    <3> QED BY <1>7, <1>8, <1>10, <2>3, <3>1 DEF EdgesFollowed, Matched
  <2> QED BY <1>3, <2>2, <2>4, <2>5, <2>6, <2>7
<1> QED BY <1>9, <1>10 DEF FinishStep

LEMMA FailIInv ==
  ASSUME IInv, Fail
  PROVE  IInv'
<1>1. /\ phase' = "idle" /\ result' = "failed"
      /\ UNCHANGED <<filled, barrier, versions, seen, maxVersion, saved, step,
                     tasks, finished, routes, interrupted, answers, invokes,
                     resumed, owed, heard, forgot>>
  BY DEF Fail, End, channelVars, taskVars, callVars, history
<1>2. TypeOK' BY <1>1 DEF IInv, TypeOK
<1>3. CountsOK' /\ SavedOK' BY <1>1 DEF IInv, CountsOK, SavedOK
<1>4. PrepareOK' /\ ExecuteOK' /\ EdgesFollowed'
  BY <1>1 DEF PrepareOK, ExecuteOK, EdgesFollowed
<1> QED BY <1>2, <1>3, <1>4 DEF IInv

LEMMA StutterIInv ==
  ASSUME IInv, UNCHANGED vars
  PROVE  IInv'
<1>1. UNCHANGED <<filled, barrier, versions, seen, maxVersion, saved, phase,
                  step, tasks, finished, routes, interrupted, answers,
                  invokes, resumed, result, owed, heard, forgot>>
  BY DEF vars, channelVars, taskVars, callVars, history
<1>2. TypeOK' BY <1>1 DEF IInv, TypeOK
<1>3. CountsOK' /\ SavedOK' BY <1>1 DEF IInv, CountsOK, SavedOK
<1>4. PrepareOK'
  BY <1>1 DEF IInv, PrepareOK, Fresh, Matched, Owing, Available, Unguided
<1>5. ExecuteOK' BY <1>1 DEF IInv, ExecuteOK, CameBy, HeardOf, Unguided
<1>6. EdgesFollowed' BY <1>1 DEF IInv, EdgesFollowed, Unguided
<1> QED BY <1>2, <1>3, <1>4, <1>5, <1>6 DEF IInv

LEMMA NextIInv == IInv /\ [Next]_vars => IInv'
<1> SUFFICES ASSUME IInv, [Next]_vars PROVE IInv' OBVIOUS
<1>1. Questions \subseteq Nat BY GraphAssumption DEF Questions
<1>2. CASE UNCHANGED vars BY <1>2, StutterIInv
<1>3. ASSUME NEW k \in Questions \union {0}, InvokeInput(k) PROVE IInv'
  BY <1>1, <1>3, InvokeInputIInv
<1>4. ASSUME NEW k \in Questions \union {1}, InvokeResume(k) PROVE IInv'
  BY <1>1, <1>4, InvokeResumeIInv
<1>5. CASE Prepare BY <1>5, PrepareIInv
<1>6. ASSUME NEW n \in AllNodes,
             NodeReturns(n) \/ NodeInterrupts(n) \/ NodeThrows(n)
      PROVE  IInv'
  BY <1>6, NodeReturnsIInv, NodeInterruptsIInv, NodeThrowsIInv
<1>7. CASE FinishStep BY <1>7, FinishStepIInv
<1>8. CASE Fail BY <1>8, FailIInv
<1>9. CASE InvokeCommand BY <1>9, InvokeCommandIInv
<1> QED BY <1>2, <1>3, <1>4, <1>5, <1>6, <1>7, <1>8, <1>9 DEF Next

LEMMA InvariantIInv == Spec => []IInv
BY InitIInv, NextIInv, PTL DEF Spec

------------------------------------------------------------------------------
\* Types: executePregelGraph's locals, and that a pause is of a node or of none.
THEOREM GraphTypeOK == Spec => []TypeOK
<1>1. IInv => TypeOK BY DEF IInv
<1> QED BY InvariantIInv, <1>1, PTL

\* For every graph, every interleaving of its nodes, interrupts, failures and
\* invocations: comparing versions finds exactly the nodes the edges ask for,
\* and none at all where a pause that names no node is resumed.
THEOREM GraphRunsWhatIsOwed == Spec => []RunsWhatIsOwed
BY InvariantIInv, OwedRuns, PTL

\* For every graph and recursion limit, invoke returns only when every edge has
\* been followed, unless it resumed a pause that left more than one node, or
\* that names none.
THEOREM GraphEdgesFollowed == Spec => []EdgesFollowed
<1>1. IInv => EdgesFollowed BY DEF IInv
<1> QED BY InvariantIInv, <1>1, PTL
=============================================================================
