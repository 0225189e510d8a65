----------------------------- MODULE Connector -----------------------------
(***************************************************************************)
(* Connector of flash/src/network/connector.rs: one WebSocket task per     *)
(* exchange, the map of handles through which callers reach the tasks, the *)
(* two bounded channels that lead out of them, and the connected gauge.    *)
(*                                                                         *)
(* A handle's state is Connected as long as the handle is in the map: no   *)
(* task removes its own.  send keeps its handle locked (DashMap::get_mut)  *)
(* while it waits for room in the outgoing channel.  Payloads are left     *)
(* and statistics are left out; the messages in a channel are counted.  An *)
(* answered ping, a pong and a raw frame change nothing.                   *)
(***************************************************************************)
EXTENDS Naturals, Sequences, FiniteSets, SequencesExt

CONSTANTS Exchanges, Callers,
          MaxConns,        \* bound on the connections ever made
          MaxReceived,     \* bound on the messages they receive together
          EventSize,       \* EVENT_CHANNEL_SIZE
          MessageSize,     \* MESSAGE_CHANNEL_SIZE
          OutgoingSize     \* OUTGOING_CHANNEL_SIZE

ASSUME ConnectorAssumption == "none" \notin Exchanges

VARIABLES conns,      \* the tasks, in the order in which they were spawned
          handle,     \* connections: the index of the task in the map, or 0
          call,       \* what each caller is doing
          events,     \* messages in the event channel
          messages,   \* messages in the raw message channel
          open,       \* the receiver of the raw messages still exists
          gauge,      \* websocket_connected per exchange
          clash       \* history: a connect overlapped another call, or an
                      \* older task still running, for the same exchange

connVars == <<conns, handle, call, events, messages, open, gauge, clash>>

Idle == [op |-> "idle", exchange |-> "none", id |-> 0, todo |-> {}]

\* Connector::new and with_tap.
ConnectorInit ==
  /\ conns = <<>>
  /\ handle = [e \in Exchanges |-> 0]
  /\ call = [c \in Callers |-> Idle]
  /\ events = 0 /\ messages = 0 /\ open = TRUE
  /\ gauge = [e \in Exchanges |-> FALSE]
  /\ clash = [e \in Exchanges |-> FALSE]

Running(id) == conns[id].phase # "done"
LiveFor(e) == {id \in DOMAIN conns : conns[id].exchange = e /\ Running(id)}

\* What the tasks have received together (only for the bound).
Received == FoldLeft(LAMBDA n, t : n + t.received, 0, conns)

\* The entry of exchange e is locked by a send that waits.
Locked(e) == \E c \in Callers : call[c].op = "sending" /\ call[c].exchange = e

\* A call for exchange e is under way.
Busy(e) == \E c \in Callers : e \in call[c].todo \cup {call[c].exchange}

\* emit_connected, emit_disconnected, emit_connection_failed and
\* emit_state_change: try_send of n events; what does not fit is dropped.
EmitAll(n) == IF events + n <= EventSize THEN events + n ELSE EventSize

\* The receivers of the two channels, somewhere in the program.
TakeEvent == events > 0 /\ events' = events - 1
             /\ UNCHANGED <<conns, handle, call, messages, open, gauge, clash>>
TakeMessage == messages > 0 /\ messages' = messages - 1
               /\ UNCHANGED <<conns, handle, call, events, open, gauge, clash>>
DropReceiver == open /\ open' = FALSE /\ messages' = 0
                /\ UNCHANGED <<conns, handle, call, events, gauge, clash>>

-----------------------------------------------------------------------------
\* state and is_connected: a handle in the map is Connected, and there is no
\* other state.
state(e) == IF handle[e] = 0 THEN "Disconnected" ELSE "Connected"
connected_exchanges == {e \in Exchanges : state(e) = "Connected"}

\* connect, up to the handshake.
ConnectBegin(c, e) ==
  /\ call[c] = Idle
  /\ Len(conns) + Cardinality({d \in Callers : call[d].op = "connecting"}) < MaxConns
  /\ events' = EmitAll(1)
  /\ call' = [call EXCEPT ![c] = [Idle EXCEPT !.op = "connecting", !.exchange = e]]
  /\ clash' = [clash EXCEPT ![e] = @ \/ LiveFor(e) # {} \/ Busy(e)]
  /\ UNCHANGED <<conns, handle, messages, open, gauge>>

\* The URL does not parse (no second event), the handshake fails or times out.
ConnectFail(c) ==
  /\ call[c].op = "connecting"
  /\ \E n \in {0, 2} : events' = EmitAll(n)
  /\ call' = [call EXCEPT ![c] = Idle]
  /\ UNCHANGED <<conns, handle, messages, open, gauge, clash>>

\* spawn_connection_task: the task runs before its handle is in the map.
ConnectSpawn(c) ==
  /\ call[c].op = "connecting"
  /\ conns' = Append(conns, [exchange |-> call[c].exchange, phase |-> "select",
                             out |-> 0, received |-> 0,
                             shutdown |-> FALSE])
  /\ call' = [call EXCEPT ![c].op = "spawned", ![c].id = Len(conns) + 1]
  /\ UNCHANGED <<handle, events, messages, open, gauge, clash>>

\* Mutant: the handle of an earlier connection is kept alive elsewhere.
ConnectInsertKeepsOld(c) ==
  /\ call[c].op = "spawned"
  /\ ~Locked(call[c].exchange)
  /\ handle' = [handle EXCEPT ![call[c].exchange] = call[c].id]
  /\ call' = [call EXCEPT ![c].op = "inserted"]
  /\ UNCHANGED <<conns, events, messages, open, gauge, clash>>

\* connections.insert: the handle it replaces is dropped, and with it the
\* sender its task waits on.
ConnectInsert(c) ==
  LET e == call[c].exchange
  IN  /\ call[c].op = "spawned"
      /\ ~Locked(e)
      /\ conns' = [id \in DOMAIN conns |->
                     IF id = handle[e] THEN [conns[id] EXCEPT !.shutdown = TRUE]
                     ELSE conns[id]]
      /\ handle' = [handle EXCEPT ![e] = call[c].id]
      /\ call' = [call EXCEPT ![c].op = "inserted"]
      /\ UNCHANGED <<events, messages, open, gauge, clash>>

\* The rest of connect: two events and the gauge.
ConnectDone(c) ==
  /\ call[c].op = "inserted"
  /\ events' = EmitAll(2)
  /\ gauge' = [gauge EXCEPT ![call[c].exchange] = TRUE]
  /\ call' = [call EXCEPT ![c] = Idle]
  /\ UNCHANGED <<conns, handle, messages, open, clash>>

\* disconnect(e), and disconnect_all for todo = every exchange in the map.
DisconnectBegin(c, todo) ==
  /\ call[c] = Idle
  /\ todo # {}
  /\ call' = [call EXCEPT ![c] = [Idle EXCEPT !.op = "removing", !.todo = todo]]
  /\ clash' = [e \in Exchanges |-> clash[e] \/ (e \in todo /\ Busy(e))]
  /\ UNCHANGED <<conns, handle, events, messages, open, gauge>>

\* connections.remove and the shutdown signal, or nothing to remove.
DisconnectRemove(c, e) ==
  /\ call[c].op = "removing"
  /\ e \in call[c].todo
  /\ ~Locked(e)
  /\ LET id == handle[e]
         rest == call[c].todo \ {e}
     IN  IF id # 0
         THEN /\ conns' = [conns EXCEPT ![id].shutdown = TRUE]
              /\ handle' = [handle EXCEPT ![e] = 0]
              /\ call' = [call EXCEPT ![c] = [op |-> "joining", exchange |-> e,
                                              id |-> id, todo |-> rest]]
         ELSE /\ call' = [call EXCEPT ![c] = IF rest = {} THEN Idle
                                             ELSE [@ EXCEPT !.todo = rest]]
              /\ UNCHANGED <<conns, handle>>
  /\ UNCHANGED <<events, messages, open, gauge, clash>>

\* The task has ended, or five seconds have passed.
DisconnectDone(c) ==
  /\ call[c].op = "joining"
  /\ events' = EmitAll(1)
  /\ gauge' = [gauge EXCEPT ![call[c].exchange] = FALSE]
  /\ call' = [call EXCEPT ![c] = IF call[c].todo = {} THEN Idle
                                 ELSE [Idle EXCEPT !.op = "removing", !.todo = call[c].todo]]
  /\ UNCHANGED <<conns, handle, messages, open, clash>>

\* send: the entry is locked until the message is in the outgoing channel.
SendBegin(c, e) ==
  /\ call[c] = Idle
  /\ handle[e] # 0
  /\ ~Locked(e)
  /\ call' = [call EXCEPT ![c] = [Idle EXCEPT !.op = "sending", !.exchange = e,
                                              !.id = handle[e]]]
  /\ UNCHANGED <<conns, handle, events, messages, open, gauge, clash>>

SendQueued(c) ==
  LET id == call[c].id
  IN  /\ call[c].op = "sending"
      /\ Running(id)
      /\ conns[id].out < OutgoingSize
      /\ conns' = [conns EXCEPT ![id].out = @ + 1]
      /\ call' = [call EXCEPT ![c] = Idle]
      /\ UNCHANGED <<handle, events, messages, open, gauge, clash>>

\* Mutant: the closed channel is not noticed.
SendClosedNever(c) == FALSE /\ call' = call /\ UNCHANGED <<conns, handle, events, messages, open, gauge, clash>>

\* ChannelClosed: the task, and with it the receiver, is gone.
SendClosed(c) ==
  /\ call[c].op = "sending"
  /\ ~Running(call[c].id)
  /\ call' = [call EXCEPT ![c] = Idle]
  /\ UNCHANGED <<conns, handle, events, messages, open, gauge, clash>>

-----------------------------------------------------------------------------
(* The task of one connection (the body of spawn_connection_task): a       *)
(* select! over the socket, the outgoing channel and the shutdown signal,  *)
(* whose handlers run to their end before the next select.                 *)

Phase(id, p) == conns' = [conns EXCEPT ![id].phase = p]

\* A text or binary message arrives; a text is announced on the event
\* channel first, a binary one that is not UTF-8 goes no further.
TaskReceive(id, next) ==
  /\ conns[id].phase = "select"
  /\ Received < MaxReceived
  /\ next \in {"announce", "forward", "select"}
  /\ conns' = [conns EXCEPT ![id].phase = next, ![id].received = @ + 1]
  /\ UNCHANGED <<handle, call, events, messages, open, gauge, clash>>

TaskAnnounce(id) ==
  /\ conns[id].phase = "announce"
  /\ events < EventSize
  /\ events' = events + 1
  /\ Phase(id, "forward")
  /\ UNCHANGED <<handle, call, messages, open, gauge, clash>>

TaskForward(id) ==
  /\ conns[id].phase = "forward"
  /\ open
  /\ messages < MessageSize
  /\ messages' = messages + 1
  /\ Phase(id, "select")
  /\ UNCHANGED <<handle, call, events, open, gauge, clash>>

\* Read timeout, close frame, read error or end of stream: the task waits
\* for room in the event channel before it ends.
TaskRemoteEnd(id) ==
  /\ conns[id].phase = "select"
  /\ Phase(id, "disconnected")
  /\ UNCHANGED <<handle, call, events, messages, open, gauge, clash>>

\* The task ends; it sets the gauge to false whoever is connected by then.
TaskEnds(id) ==
  /\ conns' = [conns EXCEPT ![id].phase = "done", ![id].out = 0]
  /\ gauge' = [gauge EXCEPT ![conns[id].exchange] = FALSE]

TaskSaysDisconnected(id) ==
  /\ conns[id].phase = "disconnected"
  /\ events < EventSize
  /\ events' = events + 1
  /\ TaskEnds(id)
  /\ UNCHANGED <<handle, call, messages, open, clash>>

\* The raw messages have no receiver any more: the task ends without an event.
TaskForwardFails(id) ==
  /\ conns[id].phase = "forward"
  /\ ~open
  /\ TaskEnds(id)
  /\ UNCHANGED <<handle, call, events, messages, open, clash>>

\* A queued message is written.
TaskWrite(id) ==
  /\ conns[id].phase = "select"
  /\ conns[id].out > 0
  /\ conns' = [conns EXCEPT ![id].out = @ - 1]
  /\ UNCHANGED <<handle, call, events, messages, open, gauge, clash>>

\* The write fails: the task ends without an event.
TaskWriteFails(id) ==
  /\ conns[id].phase = "select"
  /\ conns[id].out > 0
  /\ TaskEnds(id)
  /\ UNCHANGED <<handle, call, events, messages, open, clash>>

\* The shutdown signal, or the drop of its sender.
TaskShutdown(id) ==
  /\ conns[id].phase = "select"
  /\ conns[id].shutdown
  /\ TaskEnds(id)
  /\ UNCHANGED <<handle, call, events, messages, open, clash>>

TaskStep(id) ==
  \/ \E next \in {"announce", "forward", "select"} : TaskReceive(id, next)
  \/ TaskAnnounce(id) \/ TaskForward(id)
  \/ TaskForwardFails(id) \/ TaskRemoteEnd(id) \/ TaskSaysDisconnected(id)
  \/ TaskWrite(id) \/ TaskWriteFails(id) \/ TaskShutdown(id)

ConnectorNext ==
  \/ \E c \in Callers, e \in Exchanges :
       ConnectBegin(c, e) \/ DisconnectRemove(c, e) \/ SendBegin(c, e)
  \/ \E c \in Callers :
       \/ ConnectFail(c) \/ ConnectSpawn(c) \/ ConnectInsert(c) \/ ConnectDone(c)
       \/ \E todo \in {{e} : e \in Exchanges} \cup {connected_exchanges} :
            DisconnectBegin(c, todo)
       \/ DisconnectDone(c) \/ SendQueued(c) \/ SendClosed(c)
  \/ \E id \in DOMAIN conns : TaskStep(id)
  \/ TakeEvent \/ TakeMessage \/ DropReceiver

ConnectorSafety == ConnectorInit /\ [][ConnectorNext]_connVars

\* The tasks and both receivers are scheduled for ever, select! takes a
\* ready branch sooner or later, a channel hands free places to those who
\* wait in turn (tokio's semaphore is fair), as does a lock of the map, a
\* handshake ends and a wait of five seconds is over some time.
CallerGoesOn(c) ==
  \/ ConnectFail(c) \/ ConnectSpawn(c) \/ ConnectInsert(c) \/ ConnectDone(c)
  \/ \E e \in Exchanges : DisconnectRemove(c, e)
  \/ DisconnectDone(c) \/ SendQueued(c) \/ SendClosed(c)

TaskGoesOn(id) ==
  /\ id \in DOMAIN conns
  /\ \/ TaskAnnounce(id) \/ TaskForward(id) \/ TaskForwardFails(id)
     \/ TaskSaysDisconnected(id) \/ TaskWrite(id) \/ TaskWriteFails(id)
     \/ TaskShutdown(id)

ConnectorFairness ==
  /\ \A c \in Callers : SF_connVars(CallerGoesOn(c))
  /\ \A id \in 1..MaxConns : SF_connVars(TaskGoesOn(id))
  /\ WF_connVars(TakeEvent) /\ WF_connVars(TakeMessage)

-----------------------------------------------------------------------------
\* No task runs on unowned: one that is neither in the map nor about to be
\* put there has been told to stop.  Connecting twice, and disconnecting
\* while somebody connects, leave no connection behind that nobody can end.
NoOrphan ==
  \A id \in DOMAIN conns :
    Running(id) =>
      \/ handle[conns[id].exchange] = id
      \/ conns[id].shutdown
      \/ \E c \in Callers : call[c].op = "spawned" /\ call[c].id = id

\* The gauge does not hide a connection: as long as no connect for e
\* overlapped another call or a running task, a connected exchange whose
\* calls have returned is shown as connected.
GaugeShowsLive ==
  \A e \in Exchanges :
    /\ ~clash[e] /\ handle[e] # 0 /\ Running(handle[e])
    /\ \A c \in Callers : call[c].exchange # e
    => gauge[e]

\* Every call returns although send waits for room with the entry locked
\* and the tasks wait for room in the channels out.  (The callers are alike,
\* so one of them stands for all.)
CallsReturn ==
  LET c == CHOOSE c \in Callers : TRUE
  IN  call[c] # Idle ~> call[c] = Idle

\* The connector keeps hold of its tasks and tells the truth about them: none
\* runs on that nobody can end, and the gauge does not hide a live one.
ConnectorSound == NoOrphan /\ GaugeShowsLive
=============================================================================
