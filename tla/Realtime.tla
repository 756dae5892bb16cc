------------------------------ MODULE Realtime ------------------------------
(***************************************************************************)
(* The realtime channel of one user's browser tab: the client of           *)
(* frontend/lib/websocket.ts with its reconnect timers, the sockets it     *)
(* opens, and the server's table of connections.                           *)
(*                                                                         *)
(* A socket keeps its identity until the server has forgotten it as well.  *)
(* Delays of timers are not modelled: a pending timer fires at any time.   *)
(***************************************************************************)
EXTENDS Naturals, FiniteSets

CONSTANTS
  Sockets,         \* bound: sockets that exist at a time
  MaxReconnects,   \* maxReconnectAttempts, 10 in the code
  MaxBreaks,       \* bound: connections lost in a behaviour
  MaxMounts        \* bound: times the hook mounts or unmounts

ASSUME RealtimeAssumption ==
  /\ MaxReconnects \in Nat
  /\ MaxBreaks \in Nat
  /\ MaxMounts \in Nat
  /\ "none" \notin Sockets

VARIABLES
  ws,           \* the client's current socket
  socket,       \* socket[s]: its readyState, as the browser sees it
  state,        \* the ConnectionState shown to the user
  reconnects,   \* reconnectAttempts
  timers,       \* pending timers of scheduleReconnect
  table,        \* active_connections[user] of the server
  up,           \* the server can be reached
  crossed,      \* history: a socket was given up before its onclose ran
  breaks, mounts

realtimeVars ==
  <<ws, socket, state, reconnects, timers, table, up, crossed, breaks, mounts>>

NoSocket == "none"

Alive(s) == socket[s] \in {"CONNECTING", "OPEN"}

Closes(s) == socket' = [socket EXCEPT ![s] = "CLOSING"]

-----------------------------------------------------------------------------
(* The client *)

(* Fault: a socket that is still connecting is not waited for. *)
OnlyOpen == ws # NoSocket /\ socket[ws] = "OPEN"

Connected == ws # NoSocket /\ Alive(ws)

connect ==
  IF Connected THEN UNCHANGED <<ws, socket, state, crossed>>
  ELSE \E s \in Sockets :
         /\ socket[s] = "NONE" /\ s \notin table
         /\ socket' = [socket EXCEPT ![s] = "CONNECTING"]
         /\ ws' = s
         /\ state' = IF reconnects > 0 THEN "RECONNECTING" ELSE "CONNECTING"
         /\ crossed' = (crossed \/ (ws # NoSocket /\ ~ Alive(ws)))

(* The hook mounts, or the token has changed. *)
Mount ==
  /\ mounts < MaxMounts
  /\ mounts' = mounts + 1
  /\ connect
  /\ UNCHANGED <<reconnects, timers, table, up, breaks>>

TimerFires ==
  /\ timers > 0
  /\ timers' = timers - 1
  /\ connect
  /\ UNCHANGED <<reconnects, table, up, breaks, mounts>>

(* onopen: the handshake is done. *)
OnOpen(s) ==
  /\ socket[s] = "CONNECTING"
  /\ up
  /\ socket' = [socket EXCEPT ![s] = "OPEN"]
  /\ reconnects' = 0
  /\ state' = "CONNECTED"
  /\ UNCHANGED <<ws, timers, table, up, crossed, breaks, mounts>>

(* Fault: the timer is forgotten. *)
NoReconnect == UNCHANGED <<reconnects, timers>>

(* Fault: the attempts are counted without an end. *)
ReconnectForever == reconnects' = reconnects + 1 /\ timers' = timers + 1

ScheduleReconnect ==
  IF reconnects < MaxReconnects
    THEN reconnects' = reconnects + 1 /\ timers' = timers + 1
    ELSE UNCHANGED <<reconnects, timers>>

(* onclose clears whichever socket is the current one by now. *)
OnClose(s) ==
  /\ socket[s] = "CLOSING"
  /\ socket' = [socket EXCEPT ![s] = "NONE"]
  /\ ws' = NoSocket
  /\ state' = "DISCONNECTED"
  /\ ScheduleReconnect
  /\ UNCHANGED <<table, up, crossed, breaks, mounts>>

(* disconnect: the hook unmounts. *)
Disconnect ==
  /\ mounts < MaxMounts
  /\ mounts' = mounts + 1
  /\ ws # NoSocket
  /\ Closes(ws)
  /\ ws' = NoSocket
  /\ crossed' = TRUE
  /\ UNCHANGED <<state, reconnects, timers, table, up, breaks>>

-----------------------------------------------------------------------------
(* The network and the server *)

(* The server goes away, or the connection breaks. *)
Break(s) ==
  /\ breaks < MaxBreaks
  /\ breaks' = breaks + 1
  /\ Alive(s)
  /\ Closes(s)
  /\ up' \in BOOLEAN
  /\ UNCHANGED <<ws, state, reconnects, timers, table, crossed, mounts>>

Refuse(s) ==
  /\ socket[s] = "CONNECTING"
  /\ ~ up
  /\ Closes(s)
  /\ UNCHANGED <<ws, state, reconnects, timers, table, up, crossed, breaks, mounts>>

Restart ==
  /\ ~ up
  /\ up' = TRUE
  /\ UNCHANGED <<ws, socket, state, reconnects, timers, table, crossed, breaks, mounts>>

(* WebSocketManager.connect registers the socket after it has accepted it. *)
Register(s) ==
  /\ socket[s] = "OPEN"
  /\ s \notin table
  /\ table' = table \cup {s}
  /\ UNCHANGED <<ws, socket, state, reconnects, timers, up, crossed, breaks, mounts>>

(* Its receive or a send fails, and the socket is forgotten. *)
Unregister(s) ==
  /\ s \in table
  /\ socket[s] \in {"CLOSING", "NONE"}
  /\ table' = table \ {s}
  /\ UNCHANGED <<ws, socket, state, reconnects, timers, up, crossed, breaks, mounts>>

-----------------------------------------------------------------------------

RealtimeInit ==
  /\ ws = NoSocket
  /\ socket = [s \in Sockets |-> "NONE"]
  /\ state = "DISCONNECTED"
  /\ reconnects = 0
  /\ timers = 0
  /\ table = {}
  /\ up = TRUE
  /\ crossed = FALSE
  /\ breaks = 0
  /\ mounts = 0

Transport(s) == OnOpen(s) \/ OnClose(s) \/ Refuse(s) \/ Register(s) \/ Unregister(s)

RealtimeNext ==
  \/ Mount \/ Disconnect \/ TimerFires \/ Restart
  \/ \E s \in Sockets : Transport(s) \/ Break(s)

(* The browser runs its timers and callbacks, the server answers; neither   *)
(* mounts, breaks nor the server's return are owed.                         *)
RealtimeFairness ==
  /\ WF_realtimeVars(TimerFires)
  /\ \A s \in Sockets : WF_realtimeVars(Transport(s))

RealtimeSpec == RealtimeInit /\ [][RealtimeNext]_realtimeVars /\ RealtimeFairness

-----------------------------------------------------------------------------
(* Properties *)

RealtimeTypeOK ==
  /\ ws \in Sockets \cup {NoSocket}
  /\ socket \in [Sockets -> {"NONE", "CONNECTING", "OPEN", "CLOSING"}]
  /\ state \in {"CONNECTED", "CONNECTING", "RECONNECTING", "DISCONNECTED"}
  /\ reconnects \in 0..MaxReconnects
  /\ timers \in Nat
  /\ table \subseteq Sockets

(***************************************************************************)
(* A tab holds one socket, so that it gets an event once, whatever timers  *)
(* and mounts meet: unless a socket was given up before its onclose ran,   *)
(* which then clears its successor and opens another one.                  *)
(***************************************************************************)
OneSocket == ~ crossed => Cardinality({s \in Sockets : Alive(s)}) <= 1

(***************************************************************************)
(* A tab that has lost its connection gets it back, or has used its        *)
(* attempts, once the server stays reachable.                              *)
(***************************************************************************)
Reconnects ==
  <>[]up => [](state = "DISCONNECTED" /\ mounts > 0 =>
                 <>(state = "CONNECTED" \/ reconnects = MaxReconnects))

=============================================================================
