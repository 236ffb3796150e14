---------------------------- MODULE AgentSession ----------------------------
(***************************************************************************)
(* The agent's connection to the center and the commands it carries: the    *)
(* runtime of src/admin/agent/client.ts, the deferral queue of each         *)
(* connection's dispatcher (agent/commands.ts, agent/queue.ts) and the      *)
(* bridge that forwards upgrade events and drains the queue                 *)
(* (lib/upgrade-event-bridge.ts).  Of the upgrade pipeline only its state,  *)
(* its start and its last event are kept; Upgrade models the rest.          *)
(*                                                                         *)
(* A connection attempt is a number; its dispatcher and queue have the same *)
(* number.  The start of a pipeline inside a drain resumes in a microtask,  *)
(* so while one is entering nothing else moves.                             *)
(***************************************************************************)
EXTENDS Integers, Sequences, FiniteSets

CONSTANTS
    MaxReads,          \* bound: connect() calls awaiting TLS files at once; a reload
                       \* that overtakes such an await makes two
    MaxSockets,        \* bound: connection attempts that get a socket
    MaxCommands,       \* bound: commands the center sends
    MaxUiUpgrades      \* bound: upgrades started from the admin UI

ASSUME AgentSessionAssumption ==
    /\ MaxReads \in Nat /\ MaxSockets \in Nat /\ MaxCommands \in Nat /\ MaxUiUpgrades \in Nat

VARIABLES
    active,       \* the runtime is started with a CENTER_URL
    tls,          \* mTLS files are configured: connect() awaits their reading
    connecting,   \* connect()'s guard flag
    reads,        \* connect() invocations waiting for the TLS files
    overtaken,    \* history: a reload has overtaken such a wait
    timer,        \* the reconnect timer is armed
    made,         \* sockets created so far
    conn,         \* each socket as the network sees it
    socket,       \* the runtime's socket, 0 when null
    shaken,       \* sockets whose handshake is complete
    dispatcher,   \* currentDispatcher, 0 when null
    target,       \* eventTarget, 0 when null
    bridge,       \* the bridge is subscribed to upgrade events
    queue,        \* each dispatcher's deferral queue
    arrived,      \* commands sent by the center so far
    deferred,     \* history: commands put into a queue since the last start
    executed,     \* history: commands dispatched, in order
    running,      \* the upgrade's currentState is "running"
    entering,     \* runUpgrade calls between their running check and its effect
    pipelines,    \* pipelines in progress
    started       \* upgrades started from the UI so far

link == <<active, tls, connecting, reads, overtaken, timer, made, conn, socket, shaken,
          dispatcher, target>>
work == <<queue, arrived, deferred, executed>>
upgrade == <<running, entering, pipelines, started>>
vars == <<active, tls, connecting, reads, overtaken, timer, made, conn, socket, shaken,
          dispatcher, target, bridge, queue, arrived, deferred, executed, running, entering,
          pipelines, started>>

Sockets == 1..MaxSockets
Ids == 1..MaxCommands
Kinds == {"upgrade", "other"}    \* commands of any other type are refused and change nothing
Commands == [id : Ids, kind : Kinds, on : Sockets]

Init ==
    /\ active = FALSE /\ tls = FALSE /\ connecting = FALSE /\ reads = 0
    /\ overtaken = FALSE /\ timer = FALSE
    /\ made = 0 /\ conn = [n \in Sockets |-> "none"] /\ socket = 0 /\ shaken = {}
    /\ dispatcher = 0 /\ target = 0 /\ bridge = FALSE
    /\ queue = [n \in Sockets |-> <<>>] /\ arrived = 0 /\ deferred = {} /\ executed = <<>>
    /\ running = FALSE /\ entering = 0 /\ pipelines = 0 /\ started = 0

Quiescent == entering = 0

-----------------------------------------------------------------------------
(***************************************************************************)
(* connect(): from its guard to the socket, in one stretch without TLS      *)
(* files and in two with them.                                              *)
(***************************************************************************)
\* The socket and its dispatcher; "was" is the network's view before.
Create(was) ==
    /\ made < MaxSockets
    /\ made' = made + 1
    /\ socket' = made + 1
    /\ dispatcher' = made + 1
    /\ conn' = [was EXCEPT ![made + 1] = "opening"]

\* MUTANT: only a failed attempt, never a lost connection, arms the timer.
ReconnectsAfterAttempt == active /\ connecting
\* scheduleReconnect: the timer is armed afterwards.
Reconnects == active

\* The catch block; "now" is the socket it finds.
CreateFails(was, now) ==
    /\ connecting' = FALSE
    /\ dispatcher' = 0
    /\ timer' = active'
    /\ socket' = now
    /\ conn' = was
    /\ UNCHANGED made

\* connect() past its guard, with no socket and the settings of the last start.
Connect(was, withTls) ==
    /\ \/ /\ withTls
          /\ reads' = reads + 1
          /\ connecting' = TRUE
          /\ socket' = 0 /\ conn' = was /\ timer' = FALSE
          /\ UNCHANGED made
       \/ /\ ~withTls
          /\ \/ Create(was) /\ connecting' = TRUE /\ timer' = FALSE
             \/ CreateFails(was, 0)
          /\ UNCHANGED reads

\* MUTANT: stop() forgets to close the socket it drops.
ClosedNot(n) == conn
Closed(n) == IF n = 0 THEN conn ELSE [conn EXCEPT ![n] = "closed"]

\* startAgent at boot, and reloadAgent: stop(), then start() with the new settings.
Reload(on, withTls) ==
    /\ Quiescent /\ (on => reads < MaxReads)
    /\ active' = on /\ tls' = (on /\ withTls)
    /\ overtaken' = (overtaken \/ (on /\ reads > 0))
    /\ bridge' = FALSE /\ target' = 0
    /\ \/ /\ on /\ Connect(Closed(socket), withTls)
          /\ withTls => dispatcher' = 0
       \/ /\ ~on
          /\ connecting' = FALSE /\ timer' = FALSE
          /\ socket' = 0 /\ dispatcher' = 0 /\ conn' = Closed(socket)
          /\ UNCHANGED <<made, reads>>
    /\ deferred' = {}
    /\ UNCHANGED <<queue, arrived, executed, upgrade, shaken>>

TimerFires ==
    /\ Quiescent /\ timer /\ reads < MaxReads
    /\ UNCHANGED <<active, tls, overtaken, shaken, target, bridge, work, upgrade>>
    /\ \/ /\ ~connecting /\ socket = 0
          /\ Connect(conn, tls)
          /\ tls => UNCHANGED dispatcher
       \/ /\ connecting \/ socket # 0
          /\ timer' = FALSE
          /\ UNCHANGED <<connecting, reads, made, conn, socket, dispatcher>>

\* The TLS files are read, or cannot be.
ReadDone ==
    /\ Quiescent /\ reads > 0
    /\ reads' = reads - 1
    /\ UNCHANGED <<active, tls, overtaken, shaken, target, bridge, work, upgrade>>
    /\ \/ CreateFails(conn, socket)
       \/ active /\ Create(conn) /\ UNCHANGED <<connecting, timer>>
       \/ /\ ~active /\ connecting' = FALSE
          /\ UNCHANGED <<timer, made, conn, socket, dispatcher>>

-----------------------------------------------------------------------------
(* The socket's callbacks. *)

\* MUTANT: the bridge stays subscribed.
DetachedNot == bridge
Detached == FALSE

\* disconnect(), once the network has closed n.
Disconnect(n) ==
    /\ conn' = [conn EXCEPT ![n] = "closed"]
    /\ socket' = 0 /\ connecting' = FALSE
    /\ bridge' = Detached /\ target' = 0 /\ dispatcher' = 0
    /\ timer' = Reconnects
    /\ UNCHANGED <<active, tls, overtaken, reads, made, shaken>>

Opened(n) ==
    /\ Quiescent /\ conn[n] = "opening"
    /\ conn' = [conn EXCEPT ![n] = "open"]
    /\ connecting' = (connecting /\ ~(active /\ socket = n))
    /\ UNCHANGED <<active, tls, overtaken, reads, timer, made, socket, shaken, dispatcher,
                   target, bridge, work, upgrade>>

\* onerror or onclose: only the runtime's own socket counts.
Lost(n) ==
    /\ Quiescent /\ conn[n] \in {"opening", "open"}
    /\ \/ socket = n /\ Disconnect(n)
       \/ /\ socket # n
          /\ conn' = [conn EXCEPT ![n] = "closed"]
          /\ UNCHANGED <<active, tls, overtaken, connecting, reads, timer, made, socket, shaken,
                         dispatcher, target, bridge>>
    /\ UNCHANGED <<work, upgrade>>

Listening(n) == Quiescent /\ active /\ socket = n /\ conn[n] = "open"

HelloAck(n) ==
    /\ Listening(n) /\ n \notin shaken
    /\ shaken' = shaken \cup {n}
    /\ target' = n
    /\ bridge' = TRUE
    /\ UNCHANGED <<active, tls, overtaken, connecting, reads, timer, made, conn, socket,
                   dispatcher, work, upgrade>>

\* Any other message before hello_ack.
Unexpected(n) ==
    /\ Listening(n) /\ n \notin shaken
    /\ Disconnect(n)
    /\ UNCHANGED <<work, upgrade>>

\* A command is handed to its operation, which goes on by itself; that of an upgrade
\* enters runUpgrade.
Dispatch(c) ==
    /\ executed' = Append(executed, c)
    /\ entering' = IF c.kind = "upgrade" THEN entering + 1 ELSE entering

\* A command of the center: deferred while an upgrade runs, else dispatched.
Handle(n, kind) ==
    /\ Listening(n) /\ n \in shaken
    /\ arrived < MaxCommands
    /\ arrived' = arrived + 1
    /\ LET c == [id |-> arrived + 1, kind |-> kind, on |-> n] IN
       \/ /\ running
          /\ queue' = [queue EXCEPT ![n] = Append(@, c)]
          /\ deferred' = deferred \cup {c}
          /\ UNCHANGED <<executed, entering>>
       \/ /\ ~running
          /\ Dispatch(c)
          /\ UNCHANGED <<queue, deferred>>
    /\ UNCHANGED <<link, bridge, running, pipelines, started>>

-----------------------------------------------------------------------------
(* The upgrade, and what its last event does to the queue. *)

\* The end of cleanup, its failure, or the failure of an earlier step.
LastEvents == {"cleanup", "cleanup failure", "failure"}

\* The drained commands, in the order they are dispatched.
Drained(q) == q

\* MUTANT: dispatched commands stay queued.
LeftOver(q) == q
Left(q) == <<>>

\* MUTANT: only the event of a successful cleanup is terminal.
TerminalSuccess(kind) == kind = "cleanup"
\* isTerminalUpgradeEvent: a failure of any step, or the end of cleanup.
Terminal(kind) == kind \in LastEvents

\* The bridge forwards the last event; flushDeferredCommands runs right after the state
\* change; an event of cleanup detaches the bridge.
LastEvent(kind, entered) ==
    /\ \/ /\ bridge /\ dispatcher # 0 /\ Terminal(kind)
          /\ LET q == queue[dispatcher] IN
             /\ executed' = executed \o Drained(q)
             /\ queue' = [queue EXCEPT ![dispatcher] = Left(q)]
             /\ entering' = entered + Cardinality({i \in 1..Len(q) : q[i].kind = "upgrade"})
       \/ /\ ~(bridge /\ dispatcher # 0 /\ Terminal(kind))
          /\ entering' = entered
          /\ UNCHANGED <<executed, queue>>
    /\ bridge' = (bridge /\ kind = "failure")
    /\ UNCHANGED <<link, arrived, deferred, started>>

StartFromUi ==
    /\ Quiescent /\ ~running /\ started < MaxUiUpgrades
    /\ started' = started + 1
    /\ entering' = 1
    /\ UNCHANGED <<link, bridge, work, running, pipelines>>

\* runUpgrade resumes: refuse, fail on a broken overlay, or run.
Enter ==
    /\ entering > 0
    /\ \/ /\ entering' = entering - 1
          /\ UNCHANGED <<link, bridge, work, running, pipelines, started>>
       \/ /\ running' = FALSE
          /\ LastEvent("failure", entering - 1)
          /\ UNCHANGED pipelines
       \/ /\ running' = TRUE
          /\ entering' = entering - 1
          /\ pipelines' = pipelines + 1
          /\ UNCHANGED <<link, bridge, work, started>>

End(kind) ==
    /\ Quiescent /\ pipelines > 0
    /\ pipelines' = pipelines - 1
    /\ running' = FALSE
    /\ LastEvent(kind, 0)

Next ==
    \/ \E on, withTls \in BOOLEAN : Reload(on, withTls)
    \/ TimerFires \/ ReadDone
    \/ \E n \in Sockets : Opened(n) \/ Lost(n) \/ HelloAck(n) \/ Unexpected(n)
    \/ \E n \in Sockets, kind \in Kinds : Handle(n, kind)
    \/ StartFromUi \/ Enter
    \/ \E kind \in LastEvents : End(kind)

Spec == Init /\ [][Next]_vars

\* Microtasks run and pipelines end (Upgrade!UpgradeSettles).
FairSpec == Spec /\ WF_vars(Enter) /\ WF_vars(\E kind \in LastEvents : End(kind))

-----------------------------------------------------------------------------
\* Type correctness of the runtime, the queues and the histories.
TypeOK ==
    /\ active \in BOOLEAN /\ tls \in BOOLEAN /\ connecting \in BOOLEAN /\ reads \in 0..MaxReads
    /\ overtaken \in BOOLEAN /\ timer \in BOOLEAN
    /\ made \in 0..MaxSockets /\ conn \in [Sockets -> {"none", "opening", "open", "closed"}]
    /\ socket \in 0..MaxSockets /\ shaken \subseteq Sockets
    /\ dispatcher \in 0..MaxSockets /\ target \in 0..MaxSockets /\ bridge \in BOOLEAN
    /\ queue \in [Sockets -> Seq(Commands)] /\ arrived \in 0..MaxCommands
    /\ deferred \subseteq Commands /\ executed \in Seq(Commands)
    /\ running \in BOOLEAN /\ entering \in Nat /\ pipelines \in Nat
    /\ started \in 0..MaxUiUpgrades

\* connect, disconnect, reload and the timer between them never strand a started agent:
\* it has a socket, a connection attempt under way, or an armed reconnect timer.
NeverStranded == active => socket # 0 \/ reads > 0 \/ timer

\* The center never sees two connections of one agent, whatever is replaced is closed,
\* unless a reload overtook connect()'s wait for the TLS files: then the reload's socket
\* and the late one both live, and only one of them is heard.
OneConnection ==
    overtaken \/ \A n \in Sockets : conn[n] \in {"opening", "open"} => n = socket

\* Upgrade events go to the handshaken socket of the moment or nowhere, with the same
\* exception.
BridgeFollowsSocket == bridge /\ ~overtaken => socket \in shaken /\ target = socket

\* However connections drop, upgrades overlap and the queue drains, no command is
\* dispatched twice, nor dispatched and still queued.
AtMostOnce ==
    /\ \A i, j \in 1..Len(executed) : executed[i].id = executed[j].id => i = j
    /\ \A n \in Sockets : \A i \in 1..Len(queue[n]), j \in 1..Len(executed) :
            queue[n][i].id # executed[j].id

\* A command deferred while the bridge is attached is dispatched, unless the connection
\* goes first.
DeferredSettles ==
    \A n \in Sockets :
        (bridge /\ ~overtaken /\ socket = n /\ queue[n] # <<>>)
            ~> (overtaken \/ queue[n] = <<>> \/ socket # n)

-----------------------------------------------------------------------------
(* Statements of the repository that the code does not keep. *)

\* "after the upgrade completes, queued commands execute in FIFO order": none is overtaken.
FifoOrder ==
    \A n \in Sockets : \A i \in 1..Len(queue[n]), j \in 1..Len(executed) :
        executed[j].on = n => executed[j].id < queue[n][i].id

\* "WHEN queued commands exist and the connection drops THEN the queue is retained AND after
\* a successful reconnect, the queued commands execute".
QueueRetained ==
    bridge /\ ~overtaken =>
        \A c \in deferred :
            \/ \E i \in 1..Len(executed) : executed[i] = c
            \/ \E i \in 1..Len(queue[dispatcher]) : queue[dispatcher][i] = c
=============================================================================
