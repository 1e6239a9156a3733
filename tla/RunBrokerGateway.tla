-------------------------- MODULE RunBrokerGateway --------------------------
(* RunBrokerSocketGateway over the run broker: clients that attach to one   *)
(* run's projection, are cut off and attach again with the cursor they saw  *)
(* last, while a pagelet publishes the run and the Shared process restarts. *)
(*                                                                          *)
(* The gateway runs in the cli-gateway pagelet and subscribes at the broker *)
(* over a call proxy.  A restart of the Shared process takes the listeners  *)
(* and leaves the sockets: a client stays connected, hears nothing more and *)
(* is not told, until it attaches again.                                    *)
(*                                                                          *)
(* Broker, gateway and client talk over ordered channels, so an event the   *)
(* broker emits counts as received; what a broken connection loses on its   *)
(* way is lost by breaking it earlier. Approvals and run-control commands   *)
(* are subscribed to in the same way; only projections are followed here.   *)
EXTENDS RunBroker

CONSTANTS Clients,     \* the sockets that attach
          Run,         \* the run they attach to
          Pagelet,     \* the pagelet that publishes it
          ReplayLimit  \* options.limit ?? 100

ASSUME GatewayAssumption ==
  /\ Run \in Runs
  /\ Pagelet \in Pagelets
  /\ ReplayLimit \in Nat \ {0}

VARIABLES
  record,     \* the pagelet's own record of the run, as the event it publishes
  phase,      \* where each client's subscription is
  listening,  \* the broker process has the subscription's listener
  after,      \* options.afterCursor of the subscription, None when absent
  seen,       \* every event a client received since it attached
  view        \* the last event it received, None before the first

clientVars == <<phase, listening, after, seen, view>>
gatewayVars == <<vars, record, clientVars>>

Phases == {"off", "subscribed", "empty", "on"}

\* What a client makes of a projection change event.
Event(p) == [status |-> p.status, cursor |-> p.cursor, updatedAt |-> p.updatedAt]
EventType == [status : ProjectionStatus, cursor : Nat, updatedAt : Nat]

\* fault: the listener is registered once the replay is through
ListensLate(c) == listening[c] /\ phase[c] = "on"

\* An event the broker emits reaches the client.
Listens(c) == listening[c]

\* The order of replays: by the time of the projection, then by its cursor.
Later(p, q) ==
  \/ p.updatedAt > q.updatedAt
  \/ p.updatedAt = q.updatedAt /\ p.cursor > q.cursor

\* The sort is stable: changes alike in both stay in the order of the history.
Before(history, i, j) ==
  \/ Later(history[j], history[i])
  \/ ~Later(history[i], history[j]) /\ i < j

\* fault: the newest event comes first
ReceiveReversed(c, history, places) ==
  /\ seen' = [seen EXCEPT ![c] = @ \union {Event(history[i]) : i \in places}]
  /\ \/ places = {} /\ view' = view
     \/ \E last \in places :
          /\ \A i \in places \ {last} : Before(history, last, i)
          /\ view' = [view EXCEPT ![c] = Event(history[last])]

\* The client receives the changes at these places of a history, sorted.
Receive(c, history, places) ==
  /\ seen' = [seen EXCEPT ![c] = @ \union {Event(history[i]) : i \in places}]
  /\ \/ places = {} /\ view' = view
     \/ \E last \in places :
          /\ \A i \in places \ {last} : Before(history, i, last)
          /\ view' = [view EXCEPT ![c] = Event(history[last])]

------------------------------------------------------------------------------
\* publishRunProjection with this status, cursor and time: the broker registers
\* it and emitProjectionChanged calls the listener of every subscription, whatever
\* its cursor. Cursor and time are the pagelet's, which the broker's restarts
\* leave alone.
Publish(status, cursor, at) ==
  LET event == [status |-> status, cursor |-> cursor, updatedAt |-> at]
  IN  /\ RegisterRunProjection(Run, status, Pagelet, None, cursor, FALSE, at)
      /\ record' = event
      /\ seen' = [c \in Clients |->
                    IF Listens(c) THEN seen[c] \union {event} ELSE seen[c]]
      /\ view' = [c \in Clients |-> IF Listens(c) THEN event ELSE view[c]]
      /\ UNCHANGED <<phase, listening, after>>

\* A new record has counted no event yet, and nothing is earlier than it.
PublishRecord ==
  /\ record.status = "absent"
  /\ Publish("running", 0, 0)

\* A flush publishes the seq and the time of its last event. A decision that is
\* recorded late carries its own, earlier time.
PublishFlushed(status, at) ==
  /\ record.status = "running"
  /\ record.cursor < MaxRunCursor
  /\ Publish(status, record.cursor + 1, at)

\* publishRecoveredRunProjections: the run is settled without a new event. Its
\* time is that of the last event, or of the recovery when there was none.
PublishRecovered(at) ==
  /\ record.status = "running"
  /\ record.cursor # 0 => at = record.updatedAt
  /\ Publish("recovered", record.cursor, at)

\* The broker's process dies, and with it every listener. The clients' sockets
\* are the gateway's and stay as they are.
RestartShared ==
  /\ Restart
  /\ listening' = [c \in Clients |-> FALSE]
  /\ UNCHANGED <<record, phase, after, seen, view>>

\* A write that throws fails the pagelet's call, which it ignores.
SaveStep ==
  /\ Save \/ SaveFails
  /\ UNCHANGED <<record, clientVars>>

------------------------------------------------------------------------------
\* subscribeRunProjections: the listener first, the replay after the answer.
Attach(c) ==
  /\ Idle
  /\ phase[c] = "off"
  /\ phase' = [phase EXCEPT ![c] = "subscribed"]
  /\ listening' = [listening EXCEPT ![c] = TRUE]
  /\ after' \in {[after EXCEPT ![c] = None],
                 [after EXCEPT ![c] = IF view[c] = None THEN None
                                      ELSE view[c].cursor]}
  /\ seen' = [seen EXCEPT ![c] = {}]
  /\ UNCHANGED <<vars, record, view>>

\* A cursor of 0 selects nothing, like an absent one.
After(event, cursor) == cursor \in {None, 0} \/ event.cursor > cursor

Selected(history, cursor) == {i \in DOMAIN history : After(history[i], cursor)}

\* What listRunProjectionChanges may answer: of the changes selected the first
\* ReplayLimit in the order of replays, as places of the history.
ListRunProjectionChanges(history, cursor) ==
  LET later == Selected(history, cursor)
  IN  {first \in SUBSET later :
         /\ \A i \in first, j \in later \ first : Before(history, i, j)
         /\ Cardinality(first) = IF Cardinality(later) > ReplayLimit
                                 THEN ReplayLimit ELSE Cardinality(later)}

\* initialProjectionEvents
Replay(c) ==
  LET history == projectionHistory[Run]
  IN  \E replayed \in ListRunProjectionChanges(history, after[c]) :
        /\ Idle
        /\ phase[c] = "subscribed"
        /\ Receive(c, history, replayed)
        /\ phase' = [phase EXCEPT ![c] =
              IF after[c] # None \/ replayed # {} THEN "on" ELSE "empty"]
        /\ UNCHANGED <<vars, record, listening, after>>

\* fault: a projection that is not there is sent as one
FetchedAny == <<projections[Run]>>

Fetched == IF projections[Run].status = "absent" THEN <<>> ELSE <<projections[Run]>>

\* With no change to replay the run's projection is fetched instead.
ReplayProjection(c) ==
  /\ Idle
  /\ phase[c] = "empty"
  /\ phase' = [phase EXCEPT ![c] = "on"]
  /\ Receive(c, Fetched, DOMAIN Fetched)
  /\ UNCHANGED <<vars, record, listening, after>>

\* The call for what is replayed fails with the broker's process: the client is
\* sent the error and nothing else.
ReplayFails(c) ==
  /\ phase[c] \in {"subscribed", "empty"}
  /\ ~listening[c]
  /\ phase' = [phase EXCEPT ![c] = "on"]
  /\ UNCHANGED <<vars, record, listening, after, seen, view>>

\* The client goes, or its connection breaks; the listener is removed.
Detach(c) ==
  /\ phase[c] # "off"
  /\ phase' = [phase EXCEPT ![c] = "off"]
  /\ listening' = [listening EXCEPT ![c] = FALSE]
  /\ UNCHANGED <<vars, record, after, seen, view>>

------------------------------------------------------------------------------
GatewayInit ==
  /\ Init
  /\ record = Event(NoProjection)
  /\ phase = [c \in Clients |-> "off"]
  /\ listening = [c \in Clients |-> FALSE]
  /\ after = [c \in Clients |-> None]
  /\ seen = [c \in Clients |-> {}]
  /\ view = [c \in Clients |-> None]

GatewayNext ==
  \/ PublishRecord
  \/ \E at \in 0..MaxTime :
       \/ \E status \in Statuses : PublishFlushed(status, at)
       \/ PublishRecovered(at)
  \/ SaveStep
  \/ RestartShared
  \/ \E c \in Clients :
       \/ Attach(c)
       \/ Replay(c)
       \/ ReplayProjection(c)
       \/ ReplayFails(c)
       \/ Detach(c)

GatewaySpec == GatewayInit /\ [][GatewayNext]_gatewayVars

------------------------------------------------------------------------------
\* What clients were sent are projection change events, each subscription is at
\* one of the awaits of the gateway's subscribe handler, and the broker calls no
\* listener of a client that is gone.
GatewayTypeOK ==
  /\ record \in EventType \union {Event(NoProjection)}
  /\ phase \in [Clients -> Phases]
  /\ listening \in [Clients -> BOOLEAN]
  /\ after \in [Clients -> Nat \union {None}]
  /\ seen \in [Clients -> SUBSET EventType]
  /\ view \in [Clients -> EventType \union {None}]
  /\ \A c \in Clients : listening[c] => phase[c] # "off"

\* the client's replay was as long as it may be, and all of it no later than p
CutBefore(c, p) ==
  Cardinality({e \in seen[c] : ~Later(e, p)}) >= ReplayLimit

\* A client whose replay is through and whose listener the broker has, has
\* received every change the broker still keeps that is later than the cursor it
\* gave, or a full replay of changes no later than it: nothing falls between
\* replay and live events, and what the limit cuts off is the latest part.
NothingMissed ==
  \A c \in Clients : phase[c] = "on" /\ listening[c] =>
    \A i \in Selected(projectionHistory[Run], after[c]) :
      LET p == projectionHistory[Run][i]
      IN  Event(p) \in seen[c] \/ CutBefore(c, p)

\* The last event received by a client that attached without a cursor and is
\* still listened for is the run's present projection, although replay and live
\* events overlap, unless more changes are kept than a replay holds, or one of
\* them has a later time than the present one and is replayed after it.
FreshSeesPresent ==
  \A c \in Clients :
    /\ phase[c] = "on"
    /\ listening[c]
    /\ after[c] = None
    /\ projections[Run].status # "absent"
    => LET history == projectionHistory[Run]
       IN  \/ view[c] = Event(projections[Run])
           \/ Len(history) > ReplayLimit
           \/ \E i \in DOMAIN history : Later(history[i], projections[Run])
=============================================================================
