------------------------ MODULE SocketClients_proofs ------------------------
(***************************************************************************)
(* For every number of sockets, every set of grants or plans and any       *)
(* number of faults: the variables keep their types, one socket at most is *)
(* listened to, the client is never left without a socket or a timer, and  *)
(* getConnectionStatus tells the truth.                                    *)
(*                                                                         *)
(* None of the three is inductive alone.  A close event forgets whatever   *)
(* socket the client holds, which is harmless only because every other     *)
(* socket is closed, or is about to be and has lost its listeners          *)
(* (Others); and a reconnect timer makes a second socket only if one is    *)
(* held while it runs (Held).                                              *)
(***************************************************************************)
EXTENDS SocketClients, FiniteSetTheorems, TLAPS

Others == \A s \in Sockets : s # ws => state[s] = "closed" \/ (state[s] = "closing" /\ ~listening[s])

Held ==
  /\ ws = None <=> reconnectTimer
  /\ ws # None => Live(ws) /\ listening[ws] /\ Watched

IInv == TypeOK /\ (~stopping => Others /\ Held /\ StatusIsTrue)

-----------------------------------------------------------------------------
(* Types. *)

LEMMA TellTyped == \A i \in Items : Tell(i) \in Frames /\ Forget(i) \in Frames
BY DEF Tell, Forget, Frames

LEMMA SnapshotsTyped ==
  ASSUME TypeOK, NEW frames \in Snapshots
  PROVE  frames \in Seq(Frames)
<1>1. PICK f \in Orders(served) : frames = [n \in DOMAIN f |-> Tell(f[n])]
  BY DEF Snapshots
<1>2. served \subseteq Items /\ IsFiniteSet(served)
  BY SocketsAssumption, FS_Subset DEF TypeOK
<1>3. Cardinality(served) \in Nat
  BY <1>2, FS_CardinalityType
<1>4. f \in [1..Cardinality(served) -> served]
  BY DEF Orders
<1>5. frames \in [1..Cardinality(served) -> Frames]
  BY <1>1, <1>2, <1>4, TellTyped
<1> QED
  BY <1>3, <1>5

LEMMA EndedTyped ==
  ASSUME NEW frames \in Seq(Frames)
  PROVE  Ended(frames) \subseteq Items
<1>1. \A n \in DOMAIN frames : frames[n] \in Frames
  OBVIOUS
<1>2. \A n \in DOMAIN frames : frames[n].item \in Items
  BY <1>1 DEF Frames
<1> QED
  BY <1>2 DEF Ended

\* Losing and what it leaves when nothing is lost.
Kept == state' \in [Sockets -> States] /\ inbox' \in [Sockets -> Seq(Frames)] /\ missed' \subseteq Items

LEMMA LosingTyped ==
  ASSUME TypeOK, NEW S \in SUBSET Sockets, Losing(S)
  PROVE  inbox' \in [Sockets -> Seq(Frames)] /\ missed' \subseteq Items
<1>1. \A s \in S : Ended(inbox[s]) \subseteq Items
  BY EndedTyped DEF TypeOK
<1>2. missed' = missed \cup UNION {Ended(inbox[s]) : s \in S}
  BY DEF Losing
<1>3. missed' \subseteq Items
  BY <1>1, <1>2 DEF TypeOK
<1>4. inbox' \in [Sockets -> Seq(Frames)]
  BY DEF Losing, TypeOK
<1> QED
  BY <1>3, <1>4

LEMMA LeavesTyped ==
  ASSUME TypeOK, NEW s \in Sockets, Leaves(s)
  PROVE  Kept
<1>1. Losing({s}) /\ {s} \in SUBSET Sockets
  BY DEF Leaves
<1>2. inbox' \in [Sockets -> Seq(Frames)] /\ missed' \subseteq Items
  BY <1>1, LosingTyped
<1>3. state' \in [Sockets -> States]
  BY DEF Leaves, TypeOK, States
<1> QED
  BY <1>2, <1>3 DEF Kept

LEMMA TerminateTyped ==
  ASSUME TypeOK, Terminate
  PROVE  Kept
<1>1. CASE ws = None
  BY <1>1 DEF Terminate, TypeOK, Kept
<1>2. CASE ws # None
  <2>1. ws \in Sockets /\ Leaves(ws)
    BY <1>2 DEF TypeOK, Terminate
  <2> QED
    BY <2>1, LeavesTyped
<1> QED
  BY <1>1, <1>2

\* After OnClose the variables of the daemon have their types.
LEMMA OnCloseTyped ==
  ASSUME TypeOK, OnClose
  PROVE  /\ ws' = None
         /\ {isConnected', reconnectTimer', heartbeatTimer', pongTimer', watchdogTimer'} \subseteq BOOLEAN
BY DEF OnClose, stopHeartbeat, clearWatchdog

LEMMA TypeInit == Init => TypeOK
<1> SUFFICES ASSUME Init PROVE TypeOK
  OBVIOUS
<1>1. ws \in Sockets
  BY SocketsAssumption DEF Init, Sockets
<1>2. served \subseteq Items
  BY DEF Init
<1>3. inbox \in [Sockets -> Seq(Frames)]
  BY DEF Init
<1> QED
  BY <1>1, <1>2, <1>3, SocketsAssumption DEF Init, TypeOK, States

LEMMA MessageTyped ==
  ASSUME TypeOK, NEW s \in Sockets, inbox[s] # <<>>
  PROVE  Tail(inbox[s]) \in Seq(Frames) /\ Handled(Head(inbox[s])) \subseteq Items
<1> DEFINE m == Head(inbox[s])
<1>1. inbox[s] \in Seq(Frames)
  BY DEF TypeOK
<1>2. Tail(inbox[s]) \in Seq(Frames) /\ m \in Frames
  BY <1>1
<1>3. m.op \in {"add", "remove", "plan"} /\ m.item \in Items
  BY <1>2 DEF Frames
<1>4. known \subseteq Items
  BY DEF TypeOK
<1> HIDE DEF m
<1>5. Handled(m) \subseteq Items
  BY <1>3, <1>4 DEF Handled
<1> QED
  BY <1>2, <1>5 DEF m

LEMMA TypeStep == TypeOK /\ [Next]_vars => TypeOK'
<1> SUFFICES ASSUME TypeOK, [Next]_vars PROVE TypeOK'
  OBVIOUS
<1>1. CASE Opens
  <2>1. PICK s \in Sockets : /\ state' = [state EXCEPT ![s] = "open"]
                             /\ \E frames \in Snapshots : inbox' = [inbox EXCEPT ![s] = frames]
    BY <1>1 DEF Opens
  <2>2. inbox' \in [Sockets -> Seq(Frames)]
    BY <2>1, SnapshotsTyped DEF TypeOK
  <2>3. state' \in [Sockets -> States]
    BY <2>1 DEF TypeOK, States
  <2>4. {isConnected', reconnectTimer', heartbeatTimer', pongTimer', watchdogTimer'} \subseteq BOOLEAN
    BY <1>1 DEF Opens, OnOpen, Booking, Schedule
  <2> QED
    BY <1>1, <2>2, <2>3, <2>4 DEF Opens, server, TypeOK
<1>2. CASE ConnectFails
  <2>1. OnClose /\ state' \in [Sockets -> States] /\ listening' \in [Sockets -> BOOLEAN]
    BY <1>2 DEF ConnectFails, TypeOK, States
  <2> QED
    BY <1>2, <2>1, OnCloseTyped DEF ConnectFails, server, TypeOK
<1>3. CASE SocketError
  <2>1. PICK s \in Sockets : state' = [state EXCEPT ![s] = "closing"] /\ Losing({s}) /\ OnError
    BY <1>3 DEF SocketError
  <2>2. inbox' \in [Sockets -> Seq(Frames)] /\ missed' \subseteq Items
    BY <2>1, LosingTyped
  <2>3. state' \in [Sockets -> States]
    BY <2>1 DEF TypeOK, States
  <2>4. CASE Booking
    BY <1>3, <2>1, <2>2, <2>3, <2>4 DEF OnError, SocketError, timers, TypeOK
  <2>5. CASE ~Booking
    <3>1. OnClose /\ listening' \in [Sockets -> BOOLEAN]
      BY <2>1, <2>5 DEF OnError, TypeOK
    <3> QED
      BY <1>3, <2>2, <2>3, <3>1, OnCloseTyped DEF SocketError, TypeOK
  <2> QED
    BY <2>4, <2>5
<1>4. CASE CloseEvent
  <2>1. PICK s \in Sockets :
          /\ state' = [state EXCEPT ![s] = "closed"] /\ Losing({s})
          /\ IF listening[s] THEN OnClose ELSE UNCHANGED <<ws, isConnected, timers>>
    BY <1>4 DEF CloseEvent
  <2>2. inbox' \in [Sockets -> Seq(Frames)] /\ missed' \subseteq Items
    BY <2>1, LosingTyped
  <2>3. state' \in [Sockets -> States]
    BY <2>1 DEF TypeOK, States
  <2>4. /\ ws' \in Sockets \cup {None}
        /\ {isConnected', reconnectTimer', heartbeatTimer', pongTimer', watchdogTimer'} \subseteq BOOLEAN
    BY <2>1, OnCloseTyped DEF timers, TypeOK
  <2> QED
    BY <1>4, <2>2, <2>3, <2>4 DEF CloseEvent, TypeOK
<1>5. CASE Message
  <2>1. PICK s \in Sockets :
          /\ inbox[s] # <<>> /\ inbox' = [inbox EXCEPT ![s] = Tail(@)]
          /\ IF listening[s]
             THEN known' = Handled(Head(inbox[s])) /\ watchdogTimer' = (watchdogTimer \/ Schedule)
             ELSE UNCHANGED <<known, watchdogTimer>>
    BY <1>5 DEF Message
  <2>2. Tail(inbox[s]) \in Seq(Frames) /\ Handled(Head(inbox[s])) \subseteq Items
    BY <2>1, MessageTyped
  <2>3. inbox' \in [Sockets -> Seq(Frames)]
    BY <2>1, <2>2 DEF TypeOK
  <2>4. known' \subseteq Items /\ watchdogTimer' \in BOOLEAN
    BY <2>1, <2>2 DEF Schedule, TypeOK
  <2> QED
    BY <1>5, <2>3, <2>4 DEF Message, server, TypeOK
<1>6. CASE Reconnect
  <2>1. ws' \in Sockets /\ state' \in [Sockets -> States] /\ up' \in [Sockets -> BOOLEAN]
        /\ listening' \in [Sockets -> BOOLEAN]
    BY <1>6 DEF Reconnect, TypeOK, States
  <2> QED
    BY <1>6, <2>1 DEF Reconnect, server, TypeOK
<1>7. CASE Ping \/ Pong
  BY <1>7 DEF Ping, Pong, sockets, server, TypeOK
<1>8. CASE PongTimeout \/ WatchdogTimeout
  <2>1. Kept
    BY <1>8, TerminateTyped DEF PongTimeout, WatchdogTimeout
  <2> QED
    BY <1>8, <2>1 DEF PongTimeout, WatchdogTimeout, Kept, TypeOK
<1>9. CASE reconnect
  <2>1. Kept
    <3>1. CASE ws = None
      BY <1>9, <3>1 DEF reconnect, DropConnection, Kept, TypeOK
    <3>2. CASE ws # None
      BY <1>9, <3>2, LeavesTyped DEF reconnect, DropConnection, TypeOK
    <3> QED
      BY <3>1, <3>2
  <2>2. reconnectTimer' \in BOOLEAN
    BY <1>9 DEF reconnect, DropConnection, TypeOK
  <2> QED
    BY <1>9, <2>1, <2>2 DEF reconnect, Kept, TypeOK
<1>10. CASE disconnect
  <2>1. Kept
    BY <1>10, TerminateTyped DEF disconnect
  <2>2. {heartbeatTimer', pongTimer'} \subseteq BOOLEAN
    BY <1>10 DEF disconnect, stopHeartbeat, TypeOK
  <2> QED
    BY <1>10, <2>1, <2>2 DEF disconnect, Kept, TypeOK
<1>11. CASE LinkBreaks
  <2>1. PICK s \in Sockets : up' = [up EXCEPT ![s] = FALSE] /\ Losing({s})
    BY <1>11 DEF LinkBreaks
  <2>2. up' \in [Sockets -> BOOLEAN] /\ inbox' \in [Sockets -> Seq(Frames)] /\ missed' \subseteq Items
    BY <2>1, LosingTyped DEF TypeOK
  <2> QED
    BY <1>11, <2>2 DEF LinkBreaks, daemon, timers, TypeOK
<1>12. CASE ServerChanges
  <2>1. PICK i \in Items :
          \/ Sends(Tell(i)) /\ served' = IF Schedule THEN {i} ELSE served \cup {i}
          \/ Sends(Forget(i)) /\ served' = served \ {i}
    BY <1>12 DEF ServerChanges
  <2>2. PICK frame \in {Tell(i), Forget(i)} : Sends(frame)
    BY <2>1
  <2>3. frame \in Frames /\ frame.item \in Items
    BY <2>2, TellTyped DEF Frames
  <2>4. inbox' \in [Sockets -> Seq(Frames)]
    BY <2>2, <2>3 DEF Sends, TypeOK
  <2>5. missed' \subseteq Items
    BY <2>2, <2>3 DEF Sends, TypeOK
  <2>6. served' \subseteq Items
    BY <2>1 DEF TypeOK
  <2> QED
    BY <1>12, <2>4, <2>5, <2>6 DEF ServerChanges, daemon, timers, TypeOK
<1>13. CASE UNCHANGED vars
  BY <1>13 DEF vars, daemon, timers, sockets, server, bounds, TypeOK
<1> QED
  BY <1>1, <1>2, <1>3, <1>4, <1>5, <1>6, <1>7, <1>8, <1>9, <1>10, <1>11, <1>12, <1>13 DEF Next

\* Whatever comes, the variables keep their types.
THEOREM TypeCorrect == Spec => []TypeOK
<1> QED
  BY TypeInit, TypeStep, PTL DEF Spec

-----------------------------------------------------------------------------
(* The socket that is held. *)

\* What OnClose leaves if every other socket is out of the game.
LEMMA OnCloseHeld ==
  ASSUME OnClose, \A s \in Sockets : state'[s] = "closed" \/ (state'[s] = "closing" /\ ~listening'[s])
  PROVE  Others' /\ Held' /\ StatusIsTrue'
BY DEF OnClose, Others, Held, StatusIsTrue

\* Leaving the held socket leaves it held.
LEMMA LeavesHeld ==
  ASSUME IInv, ~stopping, ws # None, Leaves(ws), UNCHANGED <<ws, listening, isConnected, reconnectTimer>>
  PROVE  Others' /\ Held' /\ StatusIsTrue'
<1>1. ws \in Sockets /\ state \in [Sockets -> States]
  BY DEF IInv, TypeOK
<1>2. Others /\ Held /\ StatusIsTrue
  BY DEF IInv
<1>3. /\ \A s \in Sockets : s # ws => state'[s] = state[s]
      /\ state'[ws] # "closed" /\ state'[ws] # "open"
      /\ state[ws] = "open" <=> state'[ws] = "closing" /\ state[ws] # "closing"
      /\ state[ws] = "closing" => state'[ws] = "closing"
  BY <1>1, <1>2 DEF Leaves, States, Held, Live
<1>4. Others'
  BY <1>2, <1>3 DEF Others
<1>5. Held'
  BY <1>2, <1>3 DEF Held, Live, Watched
<1>6. StatusIsTrue'
  BY <1>1, <1>2, <1>3 DEF StatusIsTrue
<1> QED
  BY <1>4, <1>5, <1>6

LEMMA TerminateHeld ==
  ASSUME IInv, ~stopping, ws # None, Terminate,
         UNCHANGED <<ws, listening, isConnected, reconnectTimer>>
  PROVE  Others' /\ Held' /\ StatusIsTrue'
BY LeavesHeld DEF Terminate

LEMMA HeldInit == Init => (Others /\ Held /\ StatusIsTrue)
<1> SUFFICES ASSUME Init PROVE Others /\ Held /\ StatusIsTrue
  OBVIOUS
<1>1. ws = 1 /\ 1 \in Sockets /\ ws # None
  BY SocketsAssumption DEF Init, Sockets, None
<1>2. \A s \in Sockets : state[s] = (IF s = 1 THEN "connecting" ELSE "closed") /\ listening[s] = (s = 1)
  BY DEF Init
<1>3. ~isConnected /\ ~reconnectTimer
  BY DEF Init
<1>4. Others
  BY <1>1, <1>2 DEF Others
<1>5. Held
  BY <1>1, <1>2, <1>3 DEF Held, Live, Watched
<1>6. StatusIsTrue
  BY <1>1, <1>2, <1>3 DEF StatusIsTrue
<1> QED
  BY <1>4, <1>5, <1>6

LEMMA HeldStep ==
  ASSUME IInv, [Next]_vars, ~stopping, ~stopping'
  PROVE  Others' /\ Held' /\ StatusIsTrue'
<1>1. Others /\ Held /\ StatusIsTrue
  BY DEF IInv
<1>2. TypeOK
  BY DEF IInv
<1>3. \A s \in Sockets : state[s] \in {"connecting", "aborted", "open"} \/ (Live(s) /\ listening[s]) => s = ws
  BY <1>1 DEF Others, Live
<1>4. \A s \in Sockets : s # None
  BY DEF Sockets, None
<1>5. CASE Opens
  <2>1. PICK s \in Sockets : state[s] = "connecting" /\ state' = [state EXCEPT ![s] = "open"]
    BY <1>5 DEF Opens
  <2>2. s = ws /\ ws' = ws /\ listening' = listening /\ ws # None /\ OnOpen
    BY <1>3, <1>4, <1>5, <2>1 DEF Opens
  <2>3. /\ state'[ws] = "open"
        /\ \A r \in Sockets : r # ws => state'[r] = state[r]
    BY <1>2, <2>1, <2>2 DEF TypeOK
  <2>4. heartbeatTimer' \/ watchdogTimer'
    BY <1>2, <2>2, SocketsAssumption DEF OnOpen, Booking, Schedule, TypeOK
  <2>5. Others'
    BY <1>1, <2>2, <2>3 DEF Others
  <2>6. Held'
    BY <1>1, <2>2, <2>3, <2>4 DEF OnOpen, Held, Live, Watched
  <2>7. StatusIsTrue'
    BY <2>2, <2>3 DEF OnOpen, StatusIsTrue
  <2> QED
    BY <2>5, <2>6, <2>7
<1>6. CASE ConnectFails
  <2>1. PICK s \in Sockets :
          /\ state[s] \in {"connecting", "aborted"} /\ state' = [state EXCEPT ![s] = "closed"]
          /\ listening' = IF Schedule /\ ws # None THEN [listening EXCEPT ![ws] = FALSE] ELSE listening
          /\ OnClose
    BY <1>6 DEF ConnectFails
  <2>2. s = ws
    BY <1>3, <2>1
  <2>3. \A r \in Sockets : state'[r] = "closed" \/ (state'[r] = "closing" /\ ~listening'[r])
    BY <1>1, <1>2, <2>1, <2>2 DEF Others, TypeOK
  <2> QED
    BY <2>1, <2>3, OnCloseHeld
<1>7. CASE SocketError
  <2>1. PICK s \in Sockets : /\ state[s] = "open" /\ state' = [state EXCEPT ![s] = "closing"] /\ OnError
    BY <1>7 DEF SocketError
  <2>2. s = ws /\ ws # None
    BY <1>3, <1>4, <2>1
  <2>3. state'[ws] = "closing" /\ \A r \in Sockets : r # ws => state'[r] = state[r]
    BY <1>2, <2>1, <2>2 DEF TypeOK
  <2>4. CASE Booking
    <3>1. UNCHANGED <<listening, ws, isConnected, reconnectTimer>>
      BY <2>1, <2>4 DEF OnError, timers
    <3>2. Others'
      BY <1>1, <2>3, <3>1 DEF Others
    <3>3. Held'
      BY <1>1, <2>2, <2>3, <3>1 DEF Held, Live, Watched
    <3>4. StatusIsTrue'
      BY <1>1, <2>1, <2>2, <2>3, <3>1 DEF StatusIsTrue
    <3> QED
      BY <3>2, <3>3, <3>4
  <2>5. CASE ~Booking
    <3>1. listening' = [listening EXCEPT ![ws] = FALSE] /\ OnClose
      BY <2>1, <2>2, <2>5 DEF OnError
    <3>2. \A r \in Sockets : state'[r] = "closed" \/ (state'[r] = "closing" /\ ~listening'[r])
      BY <1>1, <1>2, <2>2, <2>3, <3>1 DEF Others, TypeOK
    <3> QED
      BY <3>1, <3>2, OnCloseHeld
  <2> QED
    BY <2>4, <2>5
<1>8. CASE CloseEvent
  <2>1. PICK s \in Sockets :
          /\ state[s] \in {"closing", "open"} /\ state' = [state EXCEPT ![s] = "closed"]
          /\ IF listening[s] THEN OnClose ELSE UNCHANGED <<ws, isConnected, timers>>
    BY <1>8 DEF CloseEvent
  <2>2. listening' = listening /\ \A r \in Sockets : state'[r] = IF r = s THEN "closed" ELSE state[r]
    BY <1>2, <1>8, <2>1 DEF CloseEvent, TypeOK
  <2>3. CASE listening[s]
    <3>1. s = ws
      BY <1>3, <2>1, <2>3 DEF Live
    <3>2. \A r \in Sockets : state'[r] = "closed" \/ (state'[r] = "closing" /\ ~listening'[r])
      BY <1>1, <2>2, <3>1 DEF Others
    <3> QED
      BY <2>1, <2>3, <3>2, OnCloseHeld
  <2>4. CASE ~listening[s]
    <3>1. s # ws
      BY <1>1, <1>4, <2>4 DEF Held
    <3>2. UNCHANGED <<ws, isConnected, reconnectTimer, heartbeatTimer, watchdogTimer>>
      BY <2>1, <2>4 DEF timers
    <3>3. Others'
      BY <1>1, <2>2, <3>2 DEF Others
    <3>4. ws # None => state'[ws] = state[ws]
      BY <1>2, <2>2, <3>1 DEF TypeOK
    <3>5. Held'
      BY <1>1, <2>2, <3>2, <3>4 DEF Held, Live, Watched
    <3>6. StatusIsTrue'
      BY <1>1, <3>2, <3>4 DEF StatusIsTrue
    <3> QED
      BY <3>3, <3>5, <3>6
  <2> QED
    BY <2>3, <2>4
<1>9. CASE Message
  <2>1. UNCHANGED <<ws, isConnected, reconnectTimer, heartbeatTimer, state, listening>>
    BY <1>9 DEF Message
  <2>2. watchdogTimer => watchdogTimer'
    BY <1>9 DEF Message
  <2> QED
    BY <1>1, <2>1, <2>2 DEF Others, Held, Live, Watched, StatusIsTrue
<1>10. CASE Reconnect
  <2>1. PICK s \in Sockets : /\ state[s] = "closed" /\ ws' = s
                             /\ state' = [state EXCEPT ![s] = "connecting"]
                             /\ listening' = [listening EXCEPT ![s] = TRUE]
    BY <1>10 DEF Reconnect
  <2>2. ws = None /\ ~reconnectTimer' /\ ~isConnected'
    BY <1>1, <1>10 DEF Reconnect, Held, StatusIsTrue
  <2>3. /\ state'[s] = "connecting" /\ listening'[s]
        /\ \A r \in Sockets : r # s => state'[r] = state[r] /\ listening'[r] = listening[r]
    BY <1>2, <2>1 DEF TypeOK
  <2>4. Others'
    BY <1>1, <1>4, <2>1, <2>2, <2>3 DEF Others
  <2>5. Held'
    BY <1>4, <2>1, <2>2, <2>3 DEF Held, Live, Watched
  <2>6. StatusIsTrue'
    BY <2>1, <2>2, <2>3 DEF StatusIsTrue
  <2> QED
    BY <2>4, <2>5, <2>6
<1>11. CASE Ping \/ Pong \/ LinkBreaks \/ ServerChanges
  <2>1. UNCHANGED <<ws, isConnected, reconnectTimer, heartbeatTimer, watchdogTimer, state, listening>>
    BY <1>11 DEF Ping, Pong, LinkBreaks, ServerChanges, sockets, daemon, timers
  <2> QED
    BY <1>1, <2>1 DEF Others, Held, Live, Watched, StatusIsTrue
<1>12. CASE PongTimeout \/ WatchdogTimeout
  <2>1. Terminate /\ UNCHANGED <<ws, isConnected, reconnectTimer, listening>>
    BY <1>12 DEF PongTimeout, WatchdogTimeout
  <2>2. CASE ws # None
    BY <2>1, <2>2, TerminateHeld
  <2>3. CASE ws = None
    <3>1. UNCHANGED state
      BY <2>1, <2>3 DEF Terminate
    <3> QED
      BY <1>1, <2>1, <2>3, <3>1 DEF Others, Held, StatusIsTrue
  <2> QED
    BY <2>2, <2>3
<1>13. CASE reconnect
  <2>1. DropConnection /\ UNCHANGED <<ws, isConnected, listening>>
    BY <1>13 DEF reconnect
  <2>2. CASE ws # None
    BY <2>1, <2>2, LeavesHeld DEF DropConnection
  <2>3. CASE ws = None
    <3>1. reconnectTimer' /\ UNCHANGED state
      BY <2>1, <2>3 DEF DropConnection
    <3> QED
      BY <1>1, <2>1, <2>3, <3>1 DEF Others, Held, StatusIsTrue
  <2> QED
    BY <2>2, <2>3
<1>14. CASE disconnect
  BY <1>14 DEF disconnect
<1>15. CASE UNCHANGED vars
  BY <1>1, <1>15 DEF vars, daemon, timers, sockets, Others, Held, Live, Watched, StatusIsTrue
<1> QED
  BY <1>5, <1>6, <1>7, <1>8, <1>9, <1>10, <1>11, <1>12, <1>13, <1>14, <1>15 DEF Next

\* Nothing takes the decision to stop back.
LEMMA StoppingStays == [Next]_vars /\ stopping => stopping'
BY DEF Next, vars, daemon, Opens, ConnectFails, SocketError, CloseEvent, Message, Reconnect, Ping, Pong,
       PongTimeout, WatchdogTimeout, reconnect, disconnect, LinkBreaks, ServerChanges

LEMMA InvInductive == Spec => []IInv
<1>1. Init => IInv
  BY TypeInit, HeldInit DEF IInv
<1>2. IInv /\ [Next]_vars => IInv'
  <2> SUFFICES ASSUME IInv, [Next]_vars PROVE IInv'
    OBVIOUS
  <2>1. TypeOK'
    BY TypeStep DEF IInv
  <2>2. ~stopping' => Others' /\ Held' /\ StatusIsTrue'
    BY HeldStep, StoppingStays
  <2> QED
    BY <2>1, <2>2 DEF IInv
<1> QED
  BY <1>1, <1>2, PTL DEF Spec

\* Until the daemon stops, no socket but the one that is held has listeners.
THEOREM OneListenerHolds == Spec => []OneListener
<1>1. IInv => OneListener
  BY DEF IInv, Others, Live, OneListener
<1> QED
  BY <1>1, InvInductive, PTL

\* Until the daemon stops, the client holds a socket it hears of, or is about to make one.
THEOREM NeverStrandedHolds == Spec => []NeverStranded
<1>1. IInv => NeverStranded
  BY DEF IInv, Held, NeverStranded
<1> QED
  BY <1>1, InvInductive, PTL

\* Until the daemon stops, getConnectionStatus says what the socket is.
THEOREM StatusIsTrueHolds == Spec => []StatusIsTrue
<1>1. IInv => StatusIsTrue
  BY DEF IInv, StatusIsTrue
<1> QED
  BY <1>1, InvInductive, PTL
=============================================================================
