---------------------------- MODULE SocketClients ----------------------------
(***************************************************************************)
(* The two WebSocket clients of the daemon: BookingWebSocketClient, one for *)
(* each booking server, and SaunaScheduleClient.  A behaviour follows one   *)
(* of them.  The socket (the ws library, the network) and the server are    *)
(* modelled from how the clients use them: a connection is up or, silently, *)
(* down; the frames of a connection arrive in order or not at all; a server *)
(* tells a new connection all it has, and an open one each change.         *)
(***************************************************************************)
EXTENDS Integers, Sequences, FiniteSets

CONSTANTS
  Clients,       \* subset of {"booking", "schedule"}
  Items,         \* the access grants of a booking server, the plans of the schedule server
  MaxSockets,    \* bound: sockets that are not closed
  MaxChanges,    \* bound: changes at the server
  MaxFaults      \* bound: links that break, sockets that close or err, late pongs

ASSUME SocketsAssumption ==
  /\ Clients \subseteq {"booking", "schedule"} /\ IsFiniteSet(Items)
  /\ MaxSockets \in Nat \ {0} /\ MaxChanges \in Nat /\ MaxFaults \in Nat

Sockets == 1..MaxSockets
None == 0

VARIABLES
  client,
  ws, isConnected, reconnectTimer,
  heartbeatTimer, pongTimer,   \* of the booking client
  watchdogTimer,               \* of the schedule client
  known,                       \* what the handlers of the messages were told
  stopping,                    \* disconnect() was called: the daemon is about to exit
  state, up, listening, inbox, \* of each socket; listening: its listeners are attached
  served,                      \* the grants that live, or the plan in force
  missed,                      \* history: grants that ended without word of it
  changes, faults

timers == <<reconnectTimer, heartbeatTimer, pongTimer, watchdogTimer>>
daemon == <<ws, isConnected, timers, known, stopping>>
sockets == <<state, up, listening, inbox>>
server == <<served, missed>>
bounds == <<changes, faults>>
vars == <<client, daemon, sockets, server, bounds>>

Booking == client = "booking"
Schedule == client = "schedule"

\* connect() makes the first socket
Init ==
  /\ client \in Clients
  /\ ws = 1 /\ isConnected = FALSE
  /\ reconnectTimer = FALSE /\ heartbeatTimer = FALSE /\ pongTimer = FALSE /\ watchdogTimer = FALSE
  /\ known = {} /\ stopping = FALSE
  /\ state = [s \in Sockets |-> IF s = 1 THEN "connecting" ELSE "closed"]
  /\ up = [s \in Sockets |-> TRUE]
  /\ listening = [s \in Sockets |-> s = 1]
  /\ inbox = [s \in Sockets |-> <<>>]
  /\ served \in IF client = "schedule" THEN {{i} : i \in Items} ELSE {{}}
  /\ missed = {}
  /\ changes = 0 /\ faults = 0

-----------------------------------------------------------------------------
(* The socket and its frames. *)

Fault == faults < MaxFaults /\ faults' = faults + 1 /\ UNCHANGED changes
NoFault == UNCHANGED bounds

Tell(i) == [op |-> IF Schedule THEN "plan" ELSE "add", item |-> i]
Forget(i) == [op |-> "remove", item |-> i]

\* in some order
Orders(S) == {f \in [1..Cardinality(S) -> S] : \A x, y \in DOMAIN f : f[x] = f[y] => x = y}
Snapshots == {[n \in DOMAIN f |-> Tell(f[n])] : f \in Orders(served)}

Ended(frames) == {frames[n].item : n \in {m \in DOMAIN frames : frames[m].op = "remove"}}

\* the frames of these sockets are lost
Losing(S) ==
  /\ inbox' = [s \in Sockets |-> IF s \in S THEN <<>> ELSE inbox[s]]
  /\ missed' = missed \cup UNION {Ended(inbox[s]) : s \in S}

\* terminate(), or close(): the event comes later; a handshake is aborted
Leaves(s) ==
  /\ state' = [state EXCEPT ![s] = IF @ = "connecting" THEN "aborted"
                                   ELSE IF @ = "open" THEN "closing" ELSE @]
  /\ Losing({s})

-----------------------------------------------------------------------------
(* What both clients do with the events of a socket. *)

stopHeartbeat == heartbeatTimer' = FALSE /\ pongTimer' = FALSE
clearWatchdog == watchdogTimer' = FALSE

\* Mutant: nobody reconnects.
OnCloseForGood ==
  /\ isConnected' = FALSE /\ ws' = None
  /\ UNCHANGED reconnectTimer
  /\ stopHeartbeat /\ clearWatchdog

\* the handler of 'close', of whichever socket; scheduleReconnect keeps a timer that runs
OnClose ==
  /\ isConnected' = FALSE /\ ws' = None
  /\ reconnectTimer' = TRUE
  /\ stopHeartbeat /\ clearWatchdog

\* the handler of 'open': startHeartbeat, or resetWatchdog
OnOpen ==
  /\ isConnected' = TRUE /\ reconnectTimer' = FALSE
  /\ heartbeatTimer' = Booking /\ pongTimer' = FALSE
  /\ watchdogTimer' = Schedule

Opens ==
  /\ \E s \in Sockets :
       /\ state[s] = "connecting"
       /\ state' = [state EXCEPT ![s] = "open"]
       /\ \E frames \in Snapshots : inbox' = [inbox EXCEPT ![s] = frames]
  /\ OnOpen
  /\ UNCHANGED <<client, ws, known, stopping, up, listening, server, bounds>>

\* the handler of 'error': the booking client waits for 'close', the schedule client drops
\* the socket it holds, whichever has the error
OnError ==
  IF Booking THEN UNCHANGED <<listening, ws, isConnected, timers>>
  ELSE /\ listening' = IF ws = None THEN listening ELSE [listening EXCEPT ![ws] = FALSE]
       /\ OnClose

\* a handshake that fails, or was aborted: 'error', then 'close' to who still listens
ConnectFails ==
  /\ \E s \in Sockets :
       /\ \/ state[s] = "connecting" /\ Fault
          \/ state[s] = "aborted" /\ NoFault
       /\ state' = [state EXCEPT ![s] = "closed"]
       /\ listening' = IF Schedule /\ ws # None THEN [listening EXCEPT ![ws] = FALSE] ELSE listening
       /\ OnClose
  /\ UNCHANGED <<client, known, stopping, up, inbox, server>>

\* a bad frame: the library closes the socket
SocketError ==
  /\ Fault
  /\ \E s \in Sockets :
       /\ state[s] = "open" /\ listening[s]
       /\ state' = [state EXCEPT ![s] = "closing"]
       /\ Losing({s})
       /\ OnError
  /\ UNCHANGED <<client, known, stopping, up, served>>

\* the end of a socket that was left, or that the peer closes
CloseEvent ==
  /\ \E s \in Sockets :
       /\ \/ state[s] = "closing" /\ NoFault
          \/ state[s] = "open" /\ Fault
       /\ state' = [state EXCEPT ![s] = "closed"]
       /\ Losing({s})
       /\ IF listening[s] THEN OnClose ELSE UNCHANGED <<ws, isConnected, timers>>
  /\ UNCHANGED <<client, known, stopping, up, listening, served>>

\* the daemon's books after the handlers of a message
Handled(m) ==
  CASE m.op = "add" -> known \cup {m.item}
    [] m.op = "remove" -> known \ {m.item}
    [] m.op = "plan" -> {m.item}

\* a frame counts as liveness for the schedule client
Message ==
  /\ \E s \in Sockets :
       /\ state[s] = "open" /\ up[s] /\ inbox[s] # <<>>
       /\ inbox' = [inbox EXCEPT ![s] = Tail(@)]
       /\ IF listening[s]
          THEN known' = Handled(Head(inbox[s])) /\ watchdogTimer' = (watchdogTimer \/ Schedule)
          ELSE UNCHANGED <<known, watchdogTimer>>
  /\ UNCHANGED <<client, ws, isConnected, reconnectTimer, heartbeatTimer, pongTimer, stopping,
                 state, up, listening, server, bounds>>

-----------------------------------------------------------------------------
(* Timers. *)

\* connect()
Reconnect ==
  /\ reconnectTimer
  /\ reconnectTimer' = FALSE
  /\ \E s \in Sockets :
       /\ state[s] = "closed" /\ \A r \in 1..(s - 1) : state[r] # "closed"
       /\ ws' = s
       /\ state' = [state EXCEPT ![s] = "connecting"]
       /\ up' = [up EXCEPT ![s] = TRUE]
       /\ listening' = [listening EXCEPT ![s] = TRUE]
  /\ UNCHANGED <<client, isConnected, heartbeatTimer, pongTimer, watchdogTimer, known, stopping,
                 inbox, server, bounds>>

\* the interval of startHeartbeat
Ping ==
  /\ heartbeatTimer /\ ~pongTimer
  /\ ws # None /\ state[ws] = "open"
  /\ pongTimer' = TRUE
  /\ UNCHANGED <<client, ws, isConnected, reconnectTimer, heartbeatTimer, watchdogTimer, known,
                 stopping, sockets, server, bounds>>

Pong ==
  /\ pongTimer
  /\ \E s \in Sockets : state[s] = "open" /\ up[s]
  /\ pongTimer' = FALSE
  /\ UNCHANGED <<client, ws, isConnected, reconnectTimer, heartbeatTimer, watchdogTimer, known,
                 stopping, sockets, server, bounds>>

\* a live connection is only taken for a dead one when its answer is late
Late == IF ws # None /\ state[ws] = "open" /\ up[ws] THEN Fault ELSE NoFault

\* Mutant: the dead connection is kept.
TerminateNothing == UNCHANGED <<state, inbox, missed>>
Terminate == IF ws = None THEN UNCHANGED <<state, inbox, missed>> ELSE Leaves(ws)

PongTimeout ==
  /\ pongTimer /\ Late
  /\ pongTimer' = FALSE
  /\ Terminate
  /\ UNCHANGED <<client, ws, isConnected, reconnectTimer, heartbeatTimer, watchdogTimer, known,
                 stopping, up, listening, served>>

WatchdogTimeout ==
  /\ watchdogTimer /\ Late
  /\ watchdogTimer' = FALSE
  /\ Terminate
  /\ UNCHANGED <<client, ws, isConnected, reconnectTimer, heartbeatTimer, pongTimer, known,
                 stopping, up, listening, served>>

-----------------------------------------------------------------------------
(* What others ask of the booking client, and the end. *)

\* Mutant: the next connection does not wait for the end of this one.
DropAndSchedule == reconnectTimer' = TRUE /\ Terminate
DropConnection ==
  IF ws # None THEN Leaves(ws) /\ UNCHANGED reconnectTimer
  ELSE reconnectTimer' = TRUE /\ UNCHANGED <<state, inbox, missed>>

\* adoptLock asks for the snapshot
reconnect ==
  /\ Booking
  /\ changes < MaxChanges /\ changes' = changes + 1 /\ UNCHANGED faults
  /\ DropConnection
  /\ UNCHANGED <<client, ws, isConnected, heartbeatTimer, pongTimer, watchdogTimer, known, stopping,
                 up, listening, served>>

\* the watchdog of the schedule client is left to run
disconnect ==
  /\ ~stopping /\ stopping' = TRUE
  /\ reconnectTimer' = FALSE
  /\ IF Booking THEN stopHeartbeat ELSE UNCHANGED <<heartbeatTimer, pongTimer>>
  /\ Terminate
  /\ ws' = None /\ isConnected' = FALSE
  /\ UNCHANGED <<client, watchdogTimer, known, up, listening, served, bounds>>

-----------------------------------------------------------------------------
(* The server and the network. *)

LinkBreaks ==
  /\ Fault
  /\ \E s \in Sockets :
       /\ state[s] = "open" /\ up[s]
       /\ up' = [up EXCEPT ![s] = FALSE]
       /\ Losing({s})
  /\ UNCHANGED <<client, daemon, state, listening, served>>

\* to every connection that is up; word of an end that no connection carries is missed
Sends(frame) ==
  LET to == {s \in Sockets : state[s] = "open" /\ up[s]} IN
  /\ inbox' = [s \in Sockets |-> IF s \in to THEN Append(inbox[s], frame) ELSE inbox[s]]
  /\ missed' = IF frame.op = "remove" /\ to = {} THEN missed \cup {frame.item}
               ELSE missed

ServerChanges ==
  /\ changes < MaxChanges /\ changes' = changes + 1 /\ UNCHANGED faults
  /\ \E i \in Items :
       \/ i \notin served /\ Sends(Tell(i))
          /\ served' = IF Schedule THEN {i} ELSE served \cup {i}
       \/ Booking /\ i \in served /\ Sends(Forget(i)) /\ served' = served \ {i}
  /\ UNCHANGED <<client, daemon, state, up, listening>>

Next ==
  \/ Opens \/ ConnectFails \/ SocketError \/ CloseEvent \/ Message
  \/ Reconnect \/ Ping \/ Pong \/ PongTimeout \/ WatchdogTimeout
  \/ reconnect \/ disconnect
  \/ LinkBreaks \/ ServerChanges

\* Timers fire, and frames on a connection that is up arrive; a handshake ends (by the
\* operating system's patience at the latest), and so does the closing of a socket.
Fairness ==
  /\ WF_vars(Reconnect) /\ WF_vars(Ping)
  /\ WF_vars(NoFault /\ PongTimeout) /\ WF_vars(NoFault /\ WatchdogTimeout)
  /\ WF_vars(Pong) /\ WF_vars(Message)
  /\ WF_vars(Opens) /\ WF_vars(NoFault /\ ConnectFails) /\ WF_vars(NoFault /\ CloseEvent)

Spec == Init /\ [][Next]_vars /\ Fairness

-----------------------------------------------------------------------------
(* Properties. *)

Frames == [op : {"add", "remove", "plan"}, item : Items]
States == {"connecting", "aborted", "open", "closing", "closed"}
Live(s) == state[s] # "closed"

\* The variables keep their types.
TypeOK ==
  /\ ws \in Sockets \cup {None} /\ client \in Clients
  /\ {isConnected, reconnectTimer, heartbeatTimer, pongTimer, watchdogTimer, stopping} \subseteq BOOLEAN
  /\ known \subseteq Items
  /\ state \in [Sockets -> States]
  /\ up \in [Sockets -> BOOLEAN] /\ listening \in [Sockets -> BOOLEAN]
  /\ served \subseteq Items /\ missed \subseteq Items
  /\ inbox \in [Sockets -> Seq(Frames)]

\* Until the daemon stops, no other socket than the one it holds hands on messages or
\* events, whatever ends a socket and whoever asks for the next.
OneListener == \A s \in Sockets : ~stopping /\ Live(s) /\ listening[s] => s = ws

\* An open connection that is dead fires no event: nothing but a timer finds it out.
Watched == state[ws] = "open" => heartbeatTimer \/ watchdogTimer

\* Until the daemon stops, it holds a socket whose end it will hear of or find out, or is
\* about to make one: there is no way to be left without either.
NeverStranded ==
  stopping \/ reconnectTimer \/ (ws # None /\ Live(ws) /\ listening[ws] /\ Watched)

\* getConnectionStatus, by which the monitor tells an outage of the Pi's own network
\* (localNetworkOutage): a socket that is connected is one that opened and is not over.
StatusIsTrue == stopping \/ (isConnected <=> ws # None /\ state[ws] \in {"open", "closing"})

\* In the end the daemon knows every grant that lives and the plan in force, and no other
\* but the grants whose end no connection carried, however connections broke, were taken
\* for dead, or were dropped to have the snapshot sent again.
CatchesUp == <>[](stopping \/ (served \subseteq known /\ known \ served \subseteq missed))
=============================================================================
