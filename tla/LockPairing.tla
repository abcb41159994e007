---------------------------- MODULE LockPairing ----------------------------
(***************************************************************************)
(* Assisted re-pairing of a lock: the state machine of src/lockPairing.ts, *)
(* the lock groups it adopts into and retires from with the mapping file   *)
(* they are saved in (src/lockGroups.ts), the start of the daemon that     *)
(* reads it (src/index.ts), and the Z-Wave controller around them.         *)
(*                                                                         *)
(* Node ids are given out in increasing order and never again; the network *)
(* may have had other nodes than the locks of config.json.                 *)
(***************************************************************************)
EXTENDS Naturals

CONSTANTS
  Servers,      \* the lock servers of config.json
  Config,       \* server -> node ids config.json gives it
  MaxNode,      \* bound: the last node id given out
  MaxStarts,    \* bound: requests to start exclusion or inclusion
  MaxFailures,  \* bound: controller stops that throw, files not written
  MaxRestarts   \* bound: restarts of the daemon

Nodes == 1..MaxNode
NoNode == 0
Configured == UNION {Config[s] : s \in Servers}

ASSUME PairingAssumption ==
  /\ MaxNode \in Nat /\ MaxStarts \in Nat /\ MaxFailures \in Nat /\ MaxRestarts \in Nat
  /\ Config \in [Servers -> SUBSET Nodes]
  /\ \A s, r \in Servers : s # r => Config[s] \cap Config[r] = {}

VARIABLES
  mode,         \* st.mode
  flag,         \* pairingInProgress (lockHealth.ts)
  timer,        \* the pairing timeout is armed
  chosen,       \* st.serverUrl and st.replacesNodeId
  added,        \* st.addedNode: NoNode or the node id
  prompt,       \* st.dskPrompt is set
  pinResolver,  \* the driver waits for a PIN
  beginning,    \* starts that await beginExclusion or beginInclusion
  stopping,     \* stops that await stopExclusion or stopInclusion, by mode
  groups,       \* server -> node ids of its managers; none for one not served
  served,       \* the servers with a registered group
  file,         \* the mapping file: server -> node ids, for the servers saved
  controller,   \* what the controller is doing
  lateStop,     \* "inclusion stopped" is still to come for a lock that joined
  network,      \* the nodes in the network
  interviewing, \* nodes whose "ready" onNodeAdded waits for
  nextNode,     \* the next node id
  asked,        \* history: what the request the controller accepted asked for
  askedFor,     \* history: the same, for each node that joined on it
  collided,     \* history: a start was refused because the controller was busy
  starts, failures, restarts

daemon == <<mode, flag, timer, chosen, added, prompt, pinResolver, beginning, stopping>>
books == <<groups, served, file>>
zwave == <<controller, lateStop, network, interviewing, nextNode>>
history == <<asked, askedFor, collided>>
bounds == <<starts, failures, restarts>>
pairingVars == <<daemon, books, zwave, history, bounds>>

Request == [server : Servers \cup {"none"}, replaces : Nodes \cup {NoNode}]
NoRequest == [server |-> "none", replaces |-> NoNode]
Modes == {"excluding", "including"}

PairingTypeOK ==
  /\ mode \in {"idle"} \cup Modes
  /\ {flag, timer, prompt, pinResolver, lateStop, collided} \subseteq BOOLEAN
  /\ chosen \in Request /\ asked \in Request
  /\ added \in {NoNode} \cup Nodes
  /\ beginning \subseteq Modes /\ stopping \subseteq Modes
  /\ groups \in [Servers -> SUBSET Nodes] /\ served \subseteq Servers
  /\ \E saved \in SUBSET Servers : file \in [saved -> SUBSET Nodes]
  /\ controller \in {"idle", "excluding", "including", "bootstrapping"}
  /\ network \subseteq Nodes /\ interviewing \subseteq Nodes
  /\ nextNode \in 1..(MaxNode + 1)
  /\ askedFor \in [Nodes -> Request]
  /\ starts \in 0..MaxStarts /\ failures \in 0..MaxFailures /\ restarts \in 0..MaxRestarts

-----------------------------------------------------------------------------
(* lockGroups.ts: a change of the groups, and the file saved after it      *)

\* saveOverrides writes every registered group.
Saved(g) == [s \in served |-> g[s]]

\* A write that fails is logged; the file is as an earlier write left it.
\* Mutant: the file is written before the group changes.
SaveBefore(earlier) == file' = Saved(groups) /\ UNCHANGED failures
Save(earlier) ==
  \/ file' = Saved(groups') /\ UNCHANGED failures
  \/ failures < MaxFailures /\ failures' = failures + 1 /\ file' \in {file} \cup earlier

Managed == UNION {groups[s] : s \in Servers}
Without(n) == [s \in Servers |-> groups[s] \ {n}]

\* retireLock.  Mutant: only while a lock is being excluded.
RetireWhileExcluding(n) ==
  IF n \in Managed /\ mode = "excluding"
  THEN groups' = Without(n) /\ Save({})
  ELSE UNCHANGED <<groups, file, failures>>
RetireLock(n) ==
  IF n \in Managed
  THEN groups' = Without(n) /\ Save({})
  ELSE UNCHANGED <<groups, file, failures>>

\* adoptLock: the lock it replaces is retired first, which saves the file too.
Adopt(server, n, replaces) ==
  LET left == Without(replaces)
  IN /\ groups' = [left EXCEPT ![server] = @ \cup {n}]
     /\ Save(IF left = groups THEN {} ELSE {Saved(left)})

-----------------------------------------------------------------------------
(* finish and the handlers of the controller's events                      *)

\* Mutant: the flag stays up.
FinishFlagged ==
  /\ mode' = "idle" /\ timer' = FALSE
  /\ pinResolver' = FALSE
  /\ prompt' = IF pinResolver THEN FALSE ELSE prompt
  /\ UNCHANGED <<flag, chosen, beginning>>

Finish ==
  /\ mode' = "idle" /\ flag' = FALSE /\ timer' = FALSE
  /\ pinResolver' = FALSE
  /\ prompt' = IF pinResolver THEN FALSE ELSE prompt
  /\ UNCHANGED <<chosen, beginning>>

Unfinished == UNCHANGED <<mode, flag, timer, chosen, prompt, pinResolver, beginning>>

\* The controller is in a mode, and the start that asked for it has gone on.
In(m) == controller = m /\ m \notin beginning

\* 'exclusion stopped'
ExclusionStops ==
  /\ In("excluding") /\ controller' = "idle"
  /\ IF mode = "excluding" THEN Finish ELSE Unfinished
  /\ UNCHANGED <<added, stopping, books, lateStop, network, interviewing, nextNode, history,
                 bounds>>

\* 'inclusion stopped'
OnInclusionStopped ==
  /\ IF mode = "including" /\ added = NoNode THEN Finish ELSE Unfinished
  /\ UNCHANGED <<added, stopping>>

InclusionStops ==
  /\ In("including") /\ controller' = "idle"
  /\ OnInclusionStopped
  /\ UNCHANGED <<books, lateStop, network, interviewing, nextNode, history, bounds>>

\* 'exclusion failed', 'inclusion failed'
Fails ==
  /\ (In("excluding") \/ In("including")) /\ controller' = "idle"
  /\ Finish
  /\ UNCHANGED <<added, stopping, books, lateStop, network, interviewing, nextNode, history,
                 bounds>>

\* 'node removed': excluded, reset, or removed as failed, at any time.
NodeRemoved(n) ==
  /\ n \in network
  /\ network' = network \ {n}
  /\ interviewing' = interviewing \ {n}
  /\ RetireLock(n)
  /\ UNCHANGED <<daemon, served, controller, lateStop, nextNode, history, starts, restarts>>

\* 'node found': the controller leaves inclusion mode, and says so now or later.
NodeFound ==
  /\ In("including") /\ nextNode <= MaxNode
  /\ controller' = "bootstrapping"
  /\ \/ OnInclusionStopped /\ UNCHANGED lateStop
     \/ lateStop' = TRUE /\ UNCHANGED daemon
  /\ UNCHANGED <<books, network, interviewing, nextNode, history, bounds>>

LateInclusionStopped ==
  /\ lateStop /\ lateStop' = FALSE
  /\ OnInclusionStopped
  /\ UNCHANGED <<books, controller, network, interviewing, nextNode, history, bounds>>

\* validateDSKAndEnterPIN
PromptForPin ==
  /\ controller = "bootstrapping"
  /\ pinResolver' = TRUE /\ prompt' = TRUE
  /\ UNCHANGED <<mode, flag, timer, chosen, added, beginning, stopping,
                 books, zwave, history, bounds>>

\* enterPin with a PIN or null, or the driver's abort.
PinAnswered ==
  /\ pinResolver
  /\ pinResolver' = FALSE /\ prompt' = FALSE
  /\ UNCHANGED <<mode, flag, timer, chosen, added, beginning, stopping,
                 books, zwave, history, bounds>>

\* onReady: the node is adopted, unless another flow has begun since.  Mutant:
\* whatever has begun since.
OnReadyRegardless(n, current) ==
  Finish /\ Adopt(chosen.server, n, chosen.replaces)
OnReady(n, current) ==
  IF current = n
  THEN Finish /\ Adopt(chosen.server, n, chosen.replaces)
  ELSE Unfinished /\ UNCHANGED <<groups, file, failures>>

\* 'node added': a lock without security is not adopted, and one with it when
\* its interview is over.
NodeAdded ==
  LET n == nextNode
  IN /\ controller = "bootstrapping" /\ ~pinResolver
     /\ controller' = "idle" /\ nextNode' = n + 1
     /\ network' = network \cup {n}
     /\ askedFor' = [askedFor EXCEPT ![n] = asked]
     /\ added' = n
     /\ \/ \* lowSecurity, or no security class
           Finish /\ UNCHANGED <<interviewing, groups, file, failures>>
        \/ \* node.ready
           OnReady(n, n) /\ UNCHANGED interviewing
        \/ /\ interviewing' = interviewing \cup {n}
           /\ timer' = FALSE
           /\ UNCHANGED <<mode, flag, chosen, prompt, pinResolver, beginning, groups, file,
                          failures>>
     /\ UNCHANGED <<stopping, served, lateStop, asked, collided, starts, restarts>>

\* 'ready'; an interview may also fail and never be ready.
NodeReady(n) ==
  /\ n \in interviewing
  /\ interviewing' = interviewing \ {n}
  /\ OnReady(n, added)
  /\ UNCHANGED <<added, stopping, served, controller, lateStop, network, nextNode, history,
                 starts, restarts>>

-----------------------------------------------------------------------------
(* What the admin asks for                                                 *)

Ready == controller = "idle" /\ ~lateStop

\* The synchronous part of a start, and the controller's answer.  A start the
\* controller refuses leaves what it has already written.
Start(to) ==
  /\ served # {} /\ mode = "idle"
  /\ starts < MaxStarts /\ starts' = starts + 1
  /\ added' = NoNode /\ prompt' = FALSE
  /\ IF Ready
     THEN controller' = to /\ beginning' = beginning \cup {to} /\ UNCHANGED collided
     ELSE collided' = TRUE /\ UNCHANGED <<controller, beginning>>
  /\ UNCHANGED <<mode, flag, timer, pinResolver, stopping, books, lateStop, network,
                 interviewing, nextNode, askedFor, failures, restarts>>

StartExclusion == Start("excluding") /\ UNCHANGED <<chosen, asked>>

StartInclusion(server, replaces) ==
  /\ server \in served
  /\ Start("including")
  /\ chosen' = [server |-> server, replaces |-> replaces]
  /\ asked' = IF Ready THEN chosen' ELSE asked

\* beginExclusion or beginInclusion returned true.  Mutant: no timeout.
BegunUntimed(to) ==
  /\ to \in beginning
  /\ beginning' = beginning \ {to}
  /\ mode' = to /\ flag' = TRUE
  /\ UNCHANGED <<timer, chosen, added, prompt, pinResolver, stopping, books, zwave, history,
                 bounds>>
Begun(to) ==
  /\ to \in beginning
  /\ beginning' = beginning \ {to}
  /\ mode' = to /\ flag' = TRUE /\ timer' = TRUE
  /\ UNCHANGED <<chosen, added, prompt, pinResolver, stopping, books, zwave, history, bounds>>

\* It returned false after all: the controller could not do it.
BeginFails(to) ==
  /\ to \in beginning
  /\ beginning' = beginning \ {to}
  /\ controller' = "idle"
  /\ UNCHANGED <<mode, flag, timer, chosen, added, prompt, pinResolver, stopping, books,
                 lateStop, network, interviewing, nextNode, history, bounds>>

\* stop() up to its await.
Stop ==
  /\ mode # "idle" /\ mode \notin stopping
  /\ stopping' = stopping \cup {mode}
  /\ UNCHANGED <<mode, flag, timer, chosen, added, prompt, pinResolver, beginning,
                 books, zwave, history, bounds>>

TimerFires ==
  /\ timer /\ timer' = FALSE
  /\ stopping' = IF mode = "idle" THEN stopping ELSE stopping \cup {mode}
  /\ UNCHANGED <<mode, flag, chosen, added, prompt, pinResolver, beginning,
                 books, zwave, history, bounds>>

\* stopExclusion or stopInclusion returned, true or false.
StopReturns(m) ==
  /\ m \in stopping
  /\ controller' = IF controller = m THEN "idle" ELSE controller
  /\ Finish
  /\ stopping' = stopping \ {m}
  /\ UNCHANGED <<added, books, lateStop, network, interviewing, nextNode,
                 history, bounds>>

StopThrows(m) ==
  /\ m \in stopping /\ failures < MaxFailures /\ failures' = failures + 1
  /\ stopping' = stopping \ {m}
  /\ UNCHANGED <<mode, flag, timer, chosen, added, prompt, pinResolver, beginning,
                 books, zwave, history, starts, restarts>>

-----------------------------------------------------------------------------
(* Start and restart of the daemon                                         *)

\* applyLockNodeOverrides, and the locks the driver knows.
Loaded(overrides, s) ==
  (IF s \in DOMAIN overrides THEN overrides[s] ELSE Config[s]) \cap network

\* A server without a lock gets no group; a daemon without a group exits.
Restart ==
  /\ restarts < MaxRestarts /\ restarts' = restarts + 1
  /\ mode' = "idle" /\ flag' = FALSE /\ timer' = FALSE /\ chosen' = NoRequest
  /\ added' = NoNode /\ prompt' = FALSE /\ pinResolver' = FALSE
  /\ beginning' = {} /\ stopping' = {}
  /\ groups' = [s \in Servers |-> Loaded(file, s)]
  /\ served' = {s \in Servers : Loaded(file, s) # {}}
  /\ controller' = "idle" /\ lateStop' = FALSE /\ interviewing' = {}
  /\ UNCHANGED <<file, network, nextNode, history, starts, failures>>

PairingInit ==
  /\ mode = "idle" /\ flag = FALSE /\ timer = FALSE /\ chosen = NoRequest
  /\ added = NoNode /\ prompt = FALSE /\ pinResolver = FALSE
  /\ beginning = {} /\ stopping = {}
  /\ groups = Config /\ served = {s \in Servers : Config[s] # {}}
  /\ file = [s \in {} |-> {}]
  /\ controller = "idle" /\ lateStop = FALSE /\ interviewing = {}
  /\ network = Configured
  /\ nextNode \in 1..(MaxNode + 1) /\ \A n \in Configured : n < nextNode
  /\ asked = NoRequest /\ askedFor = [n \in Nodes |-> NoRequest] /\ collided = FALSE
  /\ starts = 0 /\ failures = 0 /\ restarts = 0

ControllerStep == ExclusionStops \/ InclusionStops \/ Fails \/ NodeFound \/ NodeAdded

PairingNext ==
  \/ ControllerStep
  \/ LateInclusionStopped \/ PromptForPin \/ PinAnswered
  \/ \E n \in Nodes : NodeRemoved(n) \/ NodeReady(n)
  \/ StartExclusion
  \/ \E s \in Servers, r \in Managed \cup {NoNode} : StartInclusion(s, r)
  \/ \E m \in Modes : Begun(m) \/ BeginFails(m) \/ StopReturns(m) \/ StopThrows(m)
  \/ Stop \/ TimerFires \/ Restart

PairingSpec == PairingInit /\ [][PairingNext]_pairingVars

\* Timers fire and calls to the controller return.  An interview need not end
\* well, and nobody need press stop.
Fairness ==
  /\ WF_pairingVars(TimerFires)
  /\ \A m \in Modes : WF_pairingVars(Begun(m) \/ BeginFails(m)) /\ WF_pairingVars(StopReturns(m))
  /\ WF_pairingVars(ControllerStep) /\ WF_pairingVars(LateInclusionStopped) /\ WF_pairingVars(PinAnswered)

FairSpec == PairingSpec /\ Fairness

-----------------------------------------------------------------------------
(* Properties *)

\* The flag that silences the watchdog of every lock is up exactly while a flow
\* is, however starts, stops, timeouts and the controller's events interleave.
FlagFollowsMode == flag <=> mode # "idle"

\* Until a lock has joined, a flow has a way out that needs nobody: its timeout,
\* or a stop under way.  A stop that throws uses the way out up.
WaitIsTimed ==
  mode # "idle" /\ added = NoNode /\ failures = 0 => timer \/ stopping # {}

\* No server keeps a manager for a lock that is not in the network.
ManagedInNetwork == \A s \in Servers : groups[s] \subseteq network

\* A restart gives every server the locks it had, whatever was paired, replaced
\* and excluded since config.json was written.
RestartKeepsLocks ==
  [][restarts' # restarts /\ failures = 0 => \A s \in served : groups'[s] = groups[s]]_pairingVars

Adopted(s) == groups'[s] \ groups[s]

\* A lock is adopted for the server, and in place of the lock, that the request
\* named on which it joined, whatever other flows were begun and stopped since.  A start
\* that the busy controller refused has overwritten the request by then.
AdoptedAsAsked ==
  [][restarts' = restarts /\ ~collided =>
       \A s \in Servers : \A n \in Adopted(s) :
         /\ askedFor'[n].server = s
         /\ \A r \in Managed \ Managed' : askedFor'[n].replaces = r]_pairingVars

-----------------------------------------------------------------------------
(* What the code does not keep *)

\* "The pairing times out and stops on its own": the flag does not stay up.
PairingGivesUp == []<>(failures > 0 \/ ~flag)
=============================================================================
