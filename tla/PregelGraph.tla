----------------------------- MODULE PregelGraph -----------------------------
(* The graph engine of orchestrator-core: a compiled StateGraph invoked on   *)
(* one thread of a checkpointer.  executePregelGraph runs supersteps: every  *)
(* node with a trigger channel newer than what it has seen runs, their       *)
(* writes are applied together, a checkpoint is saved.  An interrupt ends    *)
(* the invocation; a later one with Command.resume goes on from the newest   *)
(* checkpoint, with the node the interrupt names: a NodeInterrupt that a     *)
(* node throws names none.                                                   *)
(*                                                                           *)
(* A channel is named after what it triggers: branch:to:n is n, the channel  *)
(* START is Start, a join is its record.  State keys trigger nothing and are *)
(* left out with their versions; the channels updated in one superstep get   *)
(* one new version.  Invocations of a thread do not overlap.                 *)
EXTENDS Integers

CONSTANTS
  Nodes, Start,
  Edges,        \* addEdge: pairs; an edge to END is no edge
  Joins,        \* addEdge of several sources: [from, to] records
  Choices,      \* where a node's conditional edges or Command may lead
  Asks,         \* how often a node calls interrupt()
  Throwers,     \* the nodes that may throw a NodeInterrupt
  PauseBefore, PauseAfter,  \* interruptBefore, interruptAfter
  RecursionLimit,
  Nobody,       \* in place of a node
  Unnamed,      \* in place of the node of an interrupt without a nodeId
  NoCheckpoint,
  MaxInvokes    \* bound: invocations of the thread

AllNodes == Nodes \union {Start}
Channels == AllNodes \union Joins

ASSUME GraphAssumption ==
  /\ Start \notin Nodes
  /\ Nobody \notin AllNodes /\ Unnamed \notin AllNodes \union {Nobody}
  /\ Joins \subseteq [from : (SUBSET Nodes) \ {{}}, to : Nodes]
  /\ Joins \intersect AllNodes = {}
  /\ Edges \subseteq AllNodes \X Nodes
  /\ Choices \in [AllNodes -> SUBSET Nodes]
  /\ Asks \in [AllNodes -> Nat] /\ Throwers \subseteq Nodes
  /\ PauseBefore \subseteq Nodes /\ PauseAfter \subseteq Nodes
  /\ RecursionLimit \in Nat \ {0}
  /\ MaxInvokes \in Nat

Checkpoints == [versions : [Channels -> Nat],
                seen : [AllNodes -> [Channels -> Nat \union {-1}]],
                paused : AllNodes \union {Nobody, Unnamed},
                owed : SUBSET AllNodes,
                heard : [Joins -> SUBSET Nodes],
                forgot : BOOLEAN]
ASSUME NoCheckpointAssumption == NoCheckpoint \notin Checkpoints

VARIABLES
  filled,       \* the ephemeral channels that hold a value
  barrier,      \* NamedBarrierValue.seen of each join
  versions,     \* channelVersions
  seen,         \* versionsSeen, -1 for a channel a node has never seen
  maxVersion,
  saved,        \* the thread's newest checkpoint; paused is the node of its
                \* last INTERRUPT write
  phase,        \* "idle", "prepare" or "execute"
  step,
  tasks,        \* the superstep's nodes, each with the channels it came by
  finished,     \* those that have returned
  routes,       \* where a node's conditional edges led when it returned
  interrupted,  \* interruptedNodeName
  resumed,      \* resumedFromInterrupt
  answers,      \* how many resumeValues the invocation has
  result,       \* of the last invocation
  owed,         \* history: the nodes that, by the graph's edges, are to run
  heard,        \* history: the sources a join has had since its node ran
  forgot,       \* history: a pause left owed what resuming cannot know of
  invokes

channelVars == <<filled, barrier, versions, seen, maxVersion>>
taskVars == <<tasks, finished, routes>>
callVars == <<interrupted, answers, invokes>>
history == <<owed, heard, forgot>>
vars == <<channelVars, saved, phase, step, taskVars, callVars, resumed,
          result, history>>

------------------------------------------------------------------------------
Triggers(n) == {n} \union {j \in Joins : j.to = n}

Available(c) == IF c \in Joins THEN barrier[c] = c.from ELSE c \in filled

\* the channels that n has not seen as they are
Triggered(n) ==
  {c \in Triggers(n) : Available(c) /\ versions[c] > seen[n][c]}

\* prepareTasks
Ready == {n \in AllNodes : Triggered(n) # {}}

\* fault: versions are counted from the start again
NewestNone(v) == 0

\* the version counter, as it is restored
Newest(v) ==
  CHOOSE m \in {0} \union {v[c] : c \in Channels} :
    \A c \in Channels : v[c] <= m

\* fault: a join stays full
ConsumedNone(T) == {}

\* consume: the joins that nodes of T came by are emptied
Consumed(T) ==
  {j \in Joins : barrier[j] = j.from /\ \E n \in DOMAIN T : j \in T[n]}

\* Where the writers of node n write to
LeadsTo(n) == {m \in Nodes : <<n, m>> \in Edges} \union routes[n]

\* applyWrites, when of the nodes of tasks those in F have returned
ApplyWrites(F) ==
  LET emptied == Consumed(tasks)
      kept == [j \in Joins |-> IF j \in emptied THEN {} ELSE barrier[j]]
      written == UNION {LeadsTo(n) : n \in F}
      grown == {j \in Joins : ~(j.from \intersect F \subseteq kept[j])}
      updated == emptied \union written \union grown
  IN  /\ seen' = [n \in AllNodes |-> [c \in Channels |->
                    IF n \in DOMAIN tasks /\ c \in tasks[n]
                    THEN versions[c] ELSE seen[n][c]]]
      /\ filled' = written
      /\ barrier' = [j \in Joins |-> kept[j] \union (j.from \intersect F)]
      /\ maxVersion' = IF updated = {} THEN maxVersion ELSE maxVersion + 1
      /\ versions' = [c \in Channels |->
                        IF c \in updated THEN maxVersion + 1 ELSE versions[c]]

\* What the edges ask for once the nodes of F have returned.
Owe(F) ==
  LET begun == [j \in Joins |->
                  IF heard[j] = j.from /\ j.to \in F THEN {} ELSE heard[j]]
  IN  /\ heard' = [j \in Joins |-> begun[j] \union (j.from \intersect F)]
      /\ owed' = (owed \ F) \union (UNION {LeadsTo(n) : n \in F})
                   \union {j.to : j \in {i \in Joins : heard'[i] = i.from}}

\* Resuming runs n and no other node, with every join empty.
Forgets(n, o, h) ==
  \/ o # {n}
  \/ \E j \in Joins : h[j] # {} /\ ~(h[j] = j.from /\ j.to = n)

\* a checkpoint of the channels as they are now, with an INTERRUPT of n
Save(n) ==
  saved' = [versions |-> versions', seen |-> seen', paused |-> n,
            owed |-> owed', heard |-> heard', forgot |-> forgot']

End(outcome) ==
  /\ phase' = "idle"
  /\ result' = outcome

------------------------------------------------------------------------------
Paused == saved # NoCheckpoint /\ saved.paused # Nobody

OldVersions == IF saved = NoCheckpoint THEN [c \in Channels |-> 0]
                                       ELSE saved.versions

OldSeen == IF saved = NoCheckpoint
           THEN [n \in AllNodes |-> [c \in Channels |-> -1]] ELSE saved.seen

\* invoke: the channels from the newest checkpoint, the ephemeral ones and
\* the joins empty.
Invoke(values) ==
  /\ phase = "idle"
  /\ invokes < MaxInvokes
  /\ invokes' = invokes + 1
  /\ answers' = values
  /\ seen' = OldSeen
  /\ barrier' = [j \in Joins |-> {}]
  /\ phase' = "prepare"
  /\ step' = 0
  /\ result' = "none"
  /\ UNCHANGED taskVars

\* invoke with new input: whatever the thread was paused at is left.
InvokeInput(values) ==
  /\ Invoke(values)
  /\ values > 0 => ~Paused
  /\ interrupted' = Nobody
  /\ resumed' = FALSE
  /\ filled' = {Start}
  /\ maxVersion' = Newest(OldVersions) + 1
  /\ versions' = [OldVersions EXCEPT ![Start] = maxVersion']
  /\ owed' = {Start}
  /\ heard' = [j \in Joins |-> {}]
  /\ forgot' = FALSE
  /\ Save(Nobody)

\* invoke with a Command that neither resumes nor updates: nothing is applied,
\* and as with new input whatever the thread was paused at is left.
InvokeCommand ==
  /\ Invoke(0)
  /\ interrupted' = Nobody
  /\ resumed' = FALSE
  /\ filled' = {}
  /\ maxVersion' = Newest(OldVersions)
  /\ versions' = OldVersions
  /\ owed' = {}
  /\ heard' = [j \in Joins |-> {}]
  /\ forgot' = FALSE
  /\ Save(Nobody)

\* invoke with Command.resume on a paused thread
InvokeResume(values) ==
  /\ Invoke(values)
  /\ values > 0
  /\ Paused
  /\ interrupted' = saved.paused
  /\ resumed' = TRUE
  /\ filled' = {}
  /\ maxVersion' = Newest(OldVersions)
  /\ versions' = OldVersions
  /\ owed' = saved.owed
  /\ heard' = saved.heard
  /\ forgot' = saved.forgot
  /\ UNCHANGED saved

\* The superstep's tasks: on resuming the interrupted node, by all its
\* triggers, when it has a name.
Tasks ==
  IF resumed /\ interrupted # Unnamed
             THEN [n \in {interrupted} |-> Triggers(n)]
             ELSE [n \in Ready |-> Triggered(n)]

Prepare ==
  /\ phase = "prepare"
  /\ \/ /\ DOMAIN Tasks = {}
        /\ End("done")
        /\ UNCHANGED <<taskVars, resumed, saved, history>>
     \/ \E n \in PauseBefore \intersect DOMAIN Tasks :
          /\ ~resumed
          /\ forgot' = (forgot \/ Forgets(n, owed, heard))
          /\ saved' = [versions |-> versions, seen |-> seen, paused |-> n,
                       owed |-> owed, heard |-> heard, forgot |-> forgot']
          /\ End("paused")
          /\ UNCHANGED <<taskVars, resumed, owed, heard>>
     \/ /\ DOMAIN Tasks # {}
        /\ resumed \/ PauseBefore \intersect DOMAIN Tasks = {}
        /\ tasks' = Tasks
        /\ finished' = {}
        /\ routes' = [n \in AllNodes |-> {}]
        /\ resumed' = FALSE
        /\ phase' = "execute"
        /\ UNCHANGED <<saved, result, history>>
  /\ UNCHANGED <<channelVars, step, callVars>>

\* A node returns, having taken one resume value for each of its questions.
NodeReturns(n) ==
  /\ phase = "execute"
  /\ n \in DOMAIN tasks \ finished
  /\ Asks[n] <= answers
  /\ finished' = finished \union {n}
  /\ \E to \in SUBSET Choices[n] : routes' = [routes EXCEPT ![n] = to]
  /\ UNCHANGED <<channelVars, saved, phase, step, tasks, callVars, resumed,
                 result, history>>

\* interrupt() finds no value: Promise.all rejects, what has returned by now
\* is applied, what has not is never heard of.
NodeInterrupts(n) ==
  /\ phase = "execute"
  /\ n \in DOMAIN tasks \ finished
  /\ Asks[n] > answers
  /\ ApplyWrites(finished)
  /\ Owe(finished)
  /\ forgot' = (forgot \/ Forgets(n, owed', heard'))
  /\ Save(n)
  /\ End("paused")
  /\ UNCHANGED <<step, taskVars, callVars, resumed>>

\* A node throws a NodeInterrupt, whatever values there are: as above, but what
\* is saved of the pause has no node.
NodeThrows(n) ==
  /\ phase = "execute"
  /\ n \in Throwers \intersect (DOMAIN tasks \ finished)
  /\ ApplyWrites(finished)
  /\ Owe(finished)
  /\ UNCHANGED forgot
  /\ Save(Unnamed)
  /\ End("paused")
  /\ UNCHANGED <<step, taskVars, callVars, resumed>>

\* fault: the loop ends at its limit whatever is left to run
ExceededNever == FALSE

\* prepareTasks at the limit finds nodes to run.
Exceeded == Ready' # {}

\* All have returned: a checkpoint, and interruptAfter.
FinishStep ==
  /\ phase = "execute"
  /\ finished = DOMAIN tasks
  /\ ApplyWrites(finished)
  /\ Owe(finished)
  /\ \/ \E n \in PauseAfter \intersect DOMAIN tasks :
          /\ forgot' = TRUE
          /\ Save(n)
          /\ End("paused")
          /\ UNCHANGED step
     \/ /\ PauseAfter \intersect DOMAIN tasks = {}
        /\ UNCHANGED forgot
        /\ Save(Nobody)
        /\ step' = step + 1
        /\ IF step' < RecursionLimit
           THEN phase' = "prepare" /\ UNCHANGED result
           ELSE End(IF Exceeded THEN "failed" ELSE "done")
  /\ UNCHANGED <<taskVars, callVars, resumed>>

\* A node throws, two write the same key, or the signal has been aborted:
\* nothing of the superstep is saved.
Fail ==
  /\ phase # "idle"
  /\ End("failed")
  /\ UNCHANGED <<channelVars, saved, step, taskVars, callVars, resumed,
                 history>>

------------------------------------------------------------------------------
Init ==
  /\ filled = {}
  /\ barrier = [j \in Joins |-> {}]
  /\ versions = [c \in Channels |-> 0]
  /\ seen = [n \in AllNodes |-> [c \in Channels |-> -1]]
  /\ maxVersion = 0
  /\ saved = NoCheckpoint
  /\ phase = "idle"
  /\ step = 0
  /\ tasks = [n \in {} |-> {}]
  /\ finished = {}
  /\ routes = [n \in AllNodes |-> {}]
  /\ interrupted = Nobody
  /\ resumed = FALSE
  /\ answers = 0
  /\ result = "none"
  /\ owed = {}
  /\ heard = [j \in Joins |-> {}]
  /\ forgot = FALSE
  /\ invokes = 0

Questions == {Asks[n] : n \in AllNodes}

Next ==
  \/ \E k \in Questions \union {0} : InvokeInput(k)
  \/ \E k \in Questions \union {1} : InvokeResume(k)
  \/ InvokeCommand
  \/ Prepare
  \/ \E n \in AllNodes : NodeReturns(n) \/ NodeInterrupts(n) \/ NodeThrows(n)
  \/ FinishStep
  \/ Fail

Spec == Init /\ [][Next]_vars

------------------------------------------------------------------------------
\* Properties

TypeOK ==
  /\ filled \subseteq AllNodes
  /\ barrier \in [Joins -> SUBSET Nodes]
  /\ versions \in [Channels -> Nat]
  /\ seen \in [AllNodes -> [Channels -> Nat \union {-1}]]
  /\ maxVersion \in Nat
  /\ saved \in Checkpoints \union {NoCheckpoint}
  /\ phase \in {"idle", "prepare", "execute"}
  /\ step \in Nat
  /\ DOMAIN tasks \subseteq AllNodes
  /\ tasks \in [DOMAIN tasks -> SUBSET Channels]
  /\ finished \subseteq DOMAIN tasks
  /\ routes \in [AllNodes -> SUBSET Nodes]
  /\ interrupted \in AllNodes \union {Nobody, Unnamed}
  /\ resumed \in BOOLEAN
  /\ answers \in Nat
  /\ result \in {"none", "done", "paused", "failed"}
  /\ owed \subseteq AllNodes
  /\ heard \in [Joins -> SUBSET Nodes]
  /\ forgot \in BOOLEAN
  /\ invokes \in Nat

\* The invocation resumed a pause that names no node: it finds nothing to run
\* and returns, though the node is owed and the thread stays paused.
Unguided == interrupted = Unnamed

\* The nodes of the next superstep, found by comparing versions, are exactly
\* those the edges ask for: no node is overlooked because a channel was seen
\* before, none runs again for a value it has had, a join waits for all its
\* sources; across invocations too, whose counters are restored. Only where a
\* NodeInterrupt is resumed is it none of them.
RunsWhatIsOwed ==
  phase = "prepare" /\ ~forgot => DOMAIN Tasks = IF Unguided THEN {} ELSE owed

\* An invocation that returns has followed every edge, unless it resumed a
\* pause that left more behind than one node, or that names none; in particular
\* it does not return at the recursion limit with nodes still to run.
EdgesFollowed == result = "done" /\ ~forgot /\ ~Unguided => owed = {}
=============================================================================
