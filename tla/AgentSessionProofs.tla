-------------------------- MODULE AgentSessionProofs --------------------------
(***************************************************************************)
(* Theorems about AgentSession.  Three independent parts make the inductive *)
(* invariant: Reach says how a started agent gets, or will get, its socket; *)
(* Single that only the newest socket can be alive; Distinct that every     *)
(* command is in one place.                                                 *)
(***************************************************************************)
EXTENDS AgentSession, FiniteSetTheorems, SequenceTheorems, TLAPS

\* A stopped agent holds nothing; a started one whose guard is up has a socket or waits for
\* its TLS files.
Reach ==
    /\ ~active => ~timer /\ ~connecting /\ socket = 0
    /\ connecting => socket # 0 \/ reads > 0

\* The runtime's socket is the newest one; as long as no reload overtook a wait, at most one
\* connect() waits, and then there is no socket and the guard is up.
Single ==
    /\ socket \in {0, made}
    /\ \A n \in Sockets : conn[n] # "none" => n <= made
    /\ ~overtaken /\ reads > 0 => reads = 1 /\ socket = 0 /\ (active => connecting)

\* A command has one place, in a queue or among the dispatched ones, and has arrived.
Distinct ==
    /\ \A n \in Sockets : \A i \in 1..Len(queue[n]) : queue[n][i].id <= arrived
    /\ \A j \in 1..Len(executed) : executed[j].id <= arrived
    /\ \A m, n \in Sockets : \A i \in 1..Len(queue[m]), j \in 1..Len(queue[n]) :
            queue[m][i].id = queue[n][j].id => m = n /\ i = j

IInv ==
    /\ TypeOK /\ Reach /\ Single /\ Distinct
    /\ NeverStranded /\ OneConnection /\ BridgeFollowsSocket /\ AtMostOnce
-----------------------------------------------------------------------------
(* Type correctness. *)

LEMMA ConnectTypes ==
    ASSUME TypeOK, NEW was \in [Sockets -> {"none", "opening", "open", "closed"}],
           NEW withTls \in BOOLEAN, reads < MaxReads, active' \in BOOLEAN, Connect(was, withTls)
    PROVE  /\ connecting' \in BOOLEAN /\ timer' \in BOOLEAN /\ reads' \in 0..MaxReads
           /\ made' \in 0..MaxSockets /\ socket' \in 0..MaxSockets
           /\ conn' \in [Sockets -> {"none", "opening", "open", "closed"}]
           /\ ~withTls => dispatcher' \in 0..MaxSockets
<1>1. connecting' \in BOOLEAN /\ timer' \in BOOLEAN
  BY DEF Connect, CreateFails
<1>2. /\ reads' \in 0..MaxReads
      /\ made' \in 0..MaxSockets /\ socket' \in 0..MaxSockets
      /\ conn' \in [Sockets -> {"none", "opening", "open", "closed"}]
  <2>1. CASE withTls /\ reads' = reads + 1 /\ socket' = 0 /\ conn' = was /\ UNCHANGED made
    BY <2>1, AgentSessionAssumption DEF TypeOK
  <2>2. CASE Create(was) /\ UNCHANGED reads
    BY <2>2, AgentSessionAssumption DEF TypeOK, Create, Sockets
  <2>3. CASE socket' = 0 /\ conn' = was /\ UNCHANGED <<made, reads>>
    BY <2>3, AgentSessionAssumption DEF TypeOK
  <2> QED BY <2>1, <2>2, <2>3 DEF Connect, CreateFails
<1>3. ~withTls => dispatcher' \in 0..MaxSockets
  <2>1. ~withTls => (dispatcher' = made + 1 /\ made < MaxSockets) \/ dispatcher' = 0
    BY DEF Connect, Create, CreateFails
  <2> QED BY <2>1, AgentSessionAssumption DEF TypeOK
<1> QED BY <1>1, <1>2, <1>3

LEMMA ClosedTypes ==
    ASSUME TypeOK, NEW n \in 0..MaxSockets
    PROVE  Closed(n) \in [Sockets -> {"none", "opening", "open", "closed"}]
BY DEF TypeOK, Closed

\* An upgrade's last event leaves the queues and the histories well formed.
LEMMA LastEventTypes ==
    ASSUME TypeOK, NEW kind \in LastEvents, NEW entered \in Nat, LastEvent(kind, entered)
    PROVE  /\ queue' \in [Sockets -> Seq(Commands)] /\ executed' \in Seq(Commands)
           /\ entering' \in Nat /\ bridge' \in BOOLEAN
<1>1. bridge' \in BOOLEAN
  BY DEF LastEvent
<1>2. CASE ~(bridge /\ dispatcher # 0 /\ Terminal(kind))
  BY <1>1, <1>2 DEF LastEvent, TypeOK
<1>3. CASE bridge /\ dispatcher # 0 /\ Terminal(kind)
  <2> DEFINE q == queue[dispatcher]
             upgrades == {i \in 1..Len(q) : q[i].kind = "upgrade"}
  <2>1. /\ executed' = executed \o q /\ queue' = [queue EXCEPT ![dispatcher] = <<>>]
        /\ entering' = entered + Cardinality(upgrades)
    BY <1>3 DEF LastEvent, Drained, Left
  <2>2. q \in Seq(Commands) /\ executed \in Seq(Commands)
    BY <1>3 DEF TypeOK, Sockets
  <2>3. Cardinality(upgrades) \in Nat
    <3>1. IsFiniteSet(1..Len(q))
      BY <2>2, FS_Interval
    <3>2. IsFiniteSet(upgrades)
      BY <3>1, FS_Subset
    <3> QED BY <3>2, FS_CardinalityType
  <2>4. executed' \in Seq(Commands)
    BY <2>1, <2>2
  <2>5. queue' \in [Sockets -> Seq(Commands)]
    <3>1. <<>> \in Seq(Commands) /\ queue \in [Sockets -> Seq(Commands)]
      BY DEF TypeOK
    <3> QED BY <2>1, <3>1
  <2>6. entering' \in Nat
    BY <2>1, <2>3
  <2> QED BY <1>1, <2>4, <2>5, <2>6
<1> QED BY <1>2, <1>3

LEMMA DisconnectTypes ==
    ASSUME TypeOK, NEW n \in Sockets, Disconnect(n), UNCHANGED <<work, upgrade>>
    PROVE  TypeOK'
<1>1. /\ active' \in BOOLEAN /\ tls' \in BOOLEAN /\ connecting' \in BOOLEAN
      /\ overtaken' \in BOOLEAN /\ timer' \in BOOLEAN /\ bridge' \in BOOLEAN
      /\ running' \in BOOLEAN
  BY DEF TypeOK, Disconnect, Detached, Reconnects, upgrade
<1>2. /\ conn' \in [Sockets -> {"none", "opening", "open", "closed"}]
      /\ UNCHANGED <<reads, made, shaken, queue, arrived, deferred, executed, entering,
                     pipelines, started>>
      /\ socket' = 0 /\ dispatcher' = 0 /\ target' = 0
  BY DEF TypeOK, Disconnect, work, upgrade
<1> QED BY <1>1, <1>2, AgentSessionAssumption DEF TypeOK

LEMMA HandleTypes ==
    ASSUME TypeOK, NEW n \in Sockets, NEW kind \in Kinds, Handle(n, kind)
    PROVE  TypeOK'
<1> DEFINE c == [id |-> arrived + 1, kind |-> kind, on |-> n]
<1>1. c \in Commands /\ arrived' \in 0..MaxCommands
  BY AgentSessionAssumption DEF TypeOK, Handle, Commands, Ids, Kinds
<1>2. /\ queue \in [Sockets -> Seq(Commands)] /\ deferred \subseteq Commands
      /\ executed \in Seq(Commands) /\ entering \in Nat
  BY DEF TypeOK
<1>3. /\ queue' \in [Sockets -> Seq(Commands)] /\ deferred' \subseteq Commands
      /\ executed' \in Seq(Commands) /\ entering' \in Nat
  <2>1. CASE queue' = [queue EXCEPT ![n] = Append(@, c)] /\ deferred' = deferred \cup {c}
             /\ UNCHANGED <<executed, entering>>
    <3>1. Append(queue[n], c) \in Seq(Commands)
      BY <1>1, <1>2
    <3> QED BY <1>1, <1>2, <2>1, <3>1
  <2>2. CASE Dispatch(c) /\ UNCHANGED <<queue, deferred>>
    <3> HIDE DEF c
    <3>1. executed' = Append(executed, c) /\ entering' \in {entering, entering + 1}
      BY <2>2 DEF Dispatch
    <3> QED BY <1>1, <1>2, <2>2, <3>1
  <2> QED BY <2>1, <2>2 DEF Handle
<1>4. UNCHANGED <<link, bridge, running, pipelines, started>>
  BY DEF Handle
<1> QED BY <1>1, <1>3, <1>4 DEF TypeOK, link

LEMMA TypeNext == TypeOK /\ [Next]_vars => TypeOK'
<1> SUFFICES ASSUME TypeOK, [Next]_vars PROVE TypeOK'
  OBVIOUS
<1>1. ASSUME NEW on \in BOOLEAN, NEW withTls \in BOOLEAN, Reload(on, withTls) PROVE TypeOK'
  <2>1. Closed(socket) \in [Sockets -> {"none", "opening", "open", "closed"}]
    BY ClosedTypes DEF TypeOK
  <2>2. active' \in BOOLEAN
    BY <1>1 DEF Reload
  <2>3. /\ tls' \in BOOLEAN /\ overtaken' \in BOOLEAN /\ bridge' \in BOOLEAN
        /\ target' = 0 /\ deferred' = {}
        /\ UNCHANGED <<queue, arrived, executed, running, entering, pipelines, started, shaken>>
    BY <1>1 DEF Reload, upgrade
  <2>4. CASE on /\ Connect(Closed(socket), withTls) /\ (withTls => dispatcher' = 0)
    <3>1. reads < MaxReads
      BY <1>1, <2>4 DEF Reload
    <3>2. /\ connecting' \in BOOLEAN /\ timer' \in BOOLEAN /\ reads' \in 0..MaxReads
          /\ made' \in 0..MaxSockets /\ socket' \in 0..MaxSockets
          /\ conn' \in [Sockets -> {"none", "opening", "open", "closed"}]
          /\ ~withTls => dispatcher' \in 0..MaxSockets
      BY <2>1, <2>2, <2>4, <3>1, ConnectTypes
    <3>3. dispatcher' \in 0..MaxSockets
      BY <2>4, <3>2, AgentSessionAssumption
    <3> QED BY <2>2, <2>3, <3>2, <3>3, AgentSessionAssumption DEF TypeOK
  <2>5. CASE /\ ~on /\ connecting' = FALSE /\ timer' = FALSE
             /\ socket' = 0 /\ dispatcher' = 0 /\ conn' = Closed(socket)
             /\ UNCHANGED <<made, reads>>
    <3>1. connecting' \in BOOLEAN /\ timer' \in BOOLEAN
      BY <2>5
    <3>2. /\ socket' \in 0..MaxSockets /\ dispatcher' \in 0..MaxSockets
          /\ conn' \in [Sockets -> {"none", "opening", "open", "closed"}]
      <4>1. socket' = 0 /\ dispatcher' = 0 /\ conn' = Closed(socket)
        BY <2>5
      <4> QED BY <2>1, <4>1, AgentSessionAssumption
    <3>3. UNCHANGED <<made, reads>>
      BY <2>5
    <3> QED BY <2>2, <2>3, <3>1, <3>2, <3>3, AgentSessionAssumption DEF TypeOK
  <2> QED BY <1>1, <2>4, <2>5 DEF Reload
<1>2. CASE TimerFires
  <2>1. active' \in BOOLEAN /\ tls \in BOOLEAN /\ reads < MaxReads
    BY <1>2 DEF TypeOK, TimerFires
  <2>2. UNCHANGED <<active, tls, overtaken, shaken, target, bridge, queue, arrived, deferred,
                    executed, running, entering, pipelines, started>>
    BY <1>2 DEF TimerFires, work, upgrade
  <2>3. CASE Connect(conn, tls) /\ (tls => UNCHANGED dispatcher)
    <3>1. /\ connecting' \in BOOLEAN /\ timer' \in BOOLEAN /\ reads' \in 0..MaxReads
          /\ made' \in 0..MaxSockets /\ socket' \in 0..MaxSockets
          /\ conn' \in [Sockets -> {"none", "opening", "open", "closed"}]
          /\ ~tls => dispatcher' \in 0..MaxSockets
      <4>1. conn \in [Sockets -> {"none", "opening", "open", "closed"}] /\ active' \in BOOLEAN
        BY <2>1, <2>2 DEF TypeOK
      <4> QED BY <2>1, <2>3, <4>1, ConnectTypes
    <3>2. dispatcher' \in 0..MaxSockets
      BY <2>3, <3>1 DEF TypeOK
    <3> QED BY <2>2, <3>1, <3>2 DEF TypeOK
  <2>4. CASE timer' = FALSE /\ UNCHANGED <<connecting, reads, made, conn, socket, dispatcher>>
    BY <2>2, <2>4 DEF TypeOK
  <2> QED BY <1>2, <2>3, <2>4 DEF TimerFires
<1>3. CASE ReadDone
  <2>1. reads' \in 0..MaxReads
    BY <1>3, AgentSessionAssumption DEF TypeOK, ReadDone
  <2>2. CASE CreateFails(conn, socket)
    <3>1. connecting' \in BOOLEAN /\ timer' \in BOOLEAN
      BY <1>3, <2>2 DEF TypeOK, ReadDone, CreateFails
    <3>2. dispatcher' = 0 /\ socket' = socket /\ conn' = conn /\ made' = made
      BY <2>2 DEF CreateFails
    <3>3. UNCHANGED <<active, tls, overtaken, shaken, target, bridge, work, upgrade>>
      BY <1>3 DEF ReadDone
    <3> QED BY <2>1, <3>1, <3>2, <3>3, AgentSessionAssumption DEF TypeOK, work, upgrade
  <2>3. CASE Create(conn) /\ UNCHANGED <<connecting, timer>>
    BY <1>3, <2>1, <2>3, AgentSessionAssumption DEF TypeOK, ReadDone, Create, Sockets, work, upgrade
  <2>4. CASE connecting' = FALSE /\ UNCHANGED <<timer, made, conn, socket, dispatcher>>
    BY <1>3, <2>1, <2>4 DEF TypeOK, ReadDone, work, upgrade
  <2> QED BY <1>3, <2>2, <2>3, <2>4 DEF ReadDone
<1>4. ASSUME NEW n \in Sockets, Opened(n) PROVE TypeOK'
  BY <1>4 DEF TypeOK, Opened, work, upgrade
<1>5. ASSUME NEW n \in Sockets, Lost(n) PROVE TypeOK'
  <2>1. CASE socket = n /\ Disconnect(n)
    BY <1>5, <2>1, DisconnectTypes DEF Lost
  <2>2. CASE socket # n
    BY <1>5, <2>2 DEF TypeOK, Lost, work, upgrade
  <2> QED BY <1>5, <2>1, <2>2 DEF Lost
<1>6. ASSUME NEW n \in Sockets, HelloAck(n) PROVE TypeOK'
  BY <1>6 DEF TypeOK, HelloAck, work, upgrade, Sockets
<1>7. ASSUME NEW n \in Sockets, Unexpected(n) PROVE TypeOK'
  BY <1>7, DisconnectTypes DEF Unexpected
<1>8. ASSUME NEW n \in Sockets, NEW kind \in Kinds, Handle(n, kind) PROVE TypeOK'
  BY <1>8, HandleTypes
<1>9. CASE StartFromUi
  BY <1>9, AgentSessionAssumption DEF TypeOK, StartFromUi, link, work
<1>10. CASE Enter
  <2>1. entering - 1 \in Nat
    BY <1>10 DEF TypeOK, Enter
  <2>2. CASE entering' = entering - 1 /\ UNCHANGED <<link, bridge, work, running, pipelines, started>>
    BY <2>1, <2>2 DEF TypeOK, link, work
  <2>3. CASE running' = FALSE /\ LastEvent("failure", entering - 1) /\ UNCHANGED pipelines
    <3>1. LastEvent("failure", entering - 1) /\ "failure" \in LastEvents
      BY <2>3 DEF LastEvents
    <3>2. /\ queue' \in [Sockets -> Seq(Commands)] /\ executed' \in Seq(Commands)
          /\ entering' \in Nat /\ bridge' \in BOOLEAN
      BY <2>1, <3>1, LastEventTypes
    <3> QED BY <2>3, <3>2 DEF TypeOK, LastEvent, link
  <2>4. CASE /\ running' = TRUE /\ entering' = entering - 1 /\ pipelines' = pipelines + 1
             /\ UNCHANGED <<link, bridge, work, started>>
    BY <2>1, <2>4 DEF TypeOK, link, work
  <2> QED BY <1>10, <2>2, <2>3, <2>4 DEF Enter
<1>11. ASSUME NEW kind \in LastEvents, End(kind) PROVE TypeOK'
  <2>1. LastEvent(kind, 0) /\ pipelines' \in Nat /\ running' = FALSE
    BY <1>11 DEF End, TypeOK
  <2>2. /\ queue' \in [Sockets -> Seq(Commands)] /\ executed' \in Seq(Commands)
        /\ entering' \in Nat /\ bridge' \in BOOLEAN
    BY <2>1, LastEventTypes
  <2> QED BY <2>1, <2>2 DEF TypeOK, LastEvent, link
<1>12. CASE UNCHANGED vars
  BY <1>12 DEF TypeOK, vars
<1> QED BY <1>1, <1>2, <1>3, <1>4, <1>5, <1>6, <1>7, <1>8, <1>9, <1>10, <1>11, <1>12 DEF Next
-----------------------------------------------------------------------------
(* The connection. *)

Link == Reach /\ Single /\ NeverStranded /\ OneConnection /\ BridgeFollowsSocket

\* A fresh attempt after the previous socket is gone; "was" is the network's view, in which
\* nothing is alive but what a late connect() left.
LEMMA ConnectLink ==
    ASSUME TypeOK, Single, NEW withTls \in BOOLEAN, active' = TRUE, overtaken' \in BOOLEAN,
           NEW was \in [Sockets -> {"none", "opening", "open", "closed"}],
           \A n \in Sockets : was[n] # "none" => n <= made,
           ~overtaken' => \A n \in Sockets : was[n] \notin {"opening", "open"},
           ~overtaken' => reads = 0 /\ ~bridge',
           Connect(was, withTls)
    PROVE  Link'
<1>1. made \in Nat /\ reads \in Nat
  BY AgentSessionAssumption DEF TypeOK
<1>2. CASE /\ withTls /\ reads' = reads + 1 /\ connecting' = TRUE
           /\ socket' = 0 /\ conn' = was /\ timer' = FALSE /\ UNCHANGED made
  <2>1. Reach' /\ NeverStranded'
    BY <1>1, <1>2 DEF Reach, NeverStranded
  <2>2. Single'
    BY <1>1, <1>2 DEF Single
  <2>3. OneConnection'
    BY <1>2 DEF OneConnection
  <2>4. BridgeFollowsSocket'
    BY DEF BridgeFollowsSocket
  <2> QED BY <2>1, <2>2, <2>3, <2>4 DEF Link
<1>3. CASE Create(was) /\ connecting' = TRUE /\ timer' = FALSE /\ UNCHANGED reads
  <2>1. /\ made' = made + 1 /\ socket' = made + 1 /\ made + 1 \in Sockets
        /\ conn' = [was EXCEPT ![made + 1] = "opening"]
    BY <1>1, <1>3, AgentSessionAssumption DEF Create, Sockets
  <2>2. Reach' /\ NeverStranded'
    BY <1>1, <1>3, <2>1 DEF Reach, NeverStranded
  <2>3. Single'
    <3>1. \A n \in Sockets : conn'[n] # "none" => n <= made'
      BY <1>1, <2>1 DEF Sockets
    <3>2. ~overtaken' => reads' = 0
      BY <1>3
    <3> QED BY <2>1, <3>1, <3>2 DEF Single
  <2>4. OneConnection'
    BY <2>1 DEF OneConnection
  <2>5. BridgeFollowsSocket'
    BY DEF BridgeFollowsSocket
  <2> QED BY <2>2, <2>3, <2>4, <2>5 DEF Link
<1>4. CASE CreateFails(was, 0) /\ UNCHANGED reads
  <2>1. connecting' = FALSE /\ timer' /\ socket' = 0 /\ conn' = was /\ made' = made
    BY <1>4 DEF CreateFails
  <2>2. Reach' /\ NeverStranded'
    BY <2>1 DEF Reach, NeverStranded
  <2>3. Single'
    BY <1>4, <2>1 DEF Single
  <2>4. OneConnection'
    BY <2>1 DEF OneConnection
  <2>5. BridgeFollowsSocket'
    BY DEF BridgeFollowsSocket
  <2> QED BY <2>2, <2>3, <2>4, <2>5 DEF Link
<1> QED BY <1>2, <1>3, <1>4 DEF Connect

LEMMA ClosedAlive ==
    ASSUME TypeOK, Single, OneConnection
    PROVE  /\ \A n \in Sockets : Closed(socket)[n] # "none" => n <= made
           /\ ~overtaken => \A n \in Sockets : Closed(socket)[n] \notin {"opening", "open"}
<1>1. socket \in 0..MaxSockets /\ conn \in [Sockets -> {"none", "opening", "open", "closed"}]
  BY DEF TypeOK
<1>2. CASE socket = 0
  BY <1>1, <1>2 DEF Closed, Single, OneConnection, Sockets
<1>3. CASE socket # 0
  <2>1. Closed(socket) = [conn EXCEPT ![socket] = "closed"] /\ socket = made
    BY <1>3 DEF Closed, Single
  <2> QED BY <1>1, <1>3, <2>1, AgentSessionAssumption DEF Single, OneConnection, Sockets
<1> QED BY <1>2, <1>3

LEMMA ReloadLink ==
    ASSUME TypeOK, Link, NEW on \in BOOLEAN, NEW withTls \in BOOLEAN, Reload(on, withTls)
    PROVE  Link'
<1>1. /\ \A n \in Sockets : Closed(socket)[n] # "none" => n <= made
      /\ ~overtaken => \A n \in Sockets : Closed(socket)[n] \notin {"opening", "open"}
  BY ClosedAlive DEF Link
<1>2. Closed(socket) \in [Sockets -> {"none", "opening", "open", "closed"}]
  BY ClosedTypes DEF TypeOK
<1>3. bridge' = FALSE /\ reads \in Nat
  BY AgentSessionAssumption DEF TypeOK, Reload
<1>4. CASE on /\ Connect(Closed(socket), withTls)
  <2>1. active' = TRUE /\ overtaken' \in BOOLEAN
    BY <1>4 DEF Reload
  <2>2. ~overtaken' => ~overtaken /\ reads = 0
    <3>1. overtaken' = (overtaken \/ (on /\ reads > 0))
      BY DEF Reload
    <3>2. ~overtaken' => ~overtaken /\ ~(reads > 0)
      BY <1>4, <3>1, Zenon
    <3> QED BY <1>3, <3>2
  <2>3. Single
    BY DEF Link
  <2>4. ~overtaken' => \A n \in Sockets : Closed(socket)[n] \notin {"opening", "open"}
    BY <1>1, <2>2
  <2>5. ~overtaken' => reads = 0 /\ ~bridge'
    BY <1>3, <2>2
  <2> QED BY <1>1, <1>2, <1>4, <2>1, <2>3, <2>4, <2>5, ConnectLink
<1>5. CASE /\ ~on /\ connecting' = FALSE /\ timer' = FALSE /\ socket' = 0
           /\ conn' = Closed(socket) /\ UNCHANGED <<made, reads>>
  <2>1. active' = FALSE
    BY <1>5 DEF Reload
  <2>2. ~overtaken' => ~overtaken
    BY DEF Reload
  <2>3. Reach' /\ NeverStranded' /\ BridgeFollowsSocket'
    BY <1>3, <1>5, <2>1 DEF Reach, NeverStranded, BridgeFollowsSocket
  <2>4. Single'
    BY <1>1, <1>5, <2>1, <2>2 DEF Link, Single
  <2>5. OneConnection'
    BY <1>1, <1>5, <2>2 DEF OneConnection
  <2> QED BY <2>3, <2>4, <2>5 DEF Link
<1> QED BY <1>4, <1>5 DEF Reload
LEMMA TimerLink ==
    ASSUME TypeOK, Link, TimerFires
    PROVE  Link'
<1>1. /\ Reach /\ Single /\ OneConnection /\ BridgeFollowsSocket
      /\ UNCHANGED <<active, overtaken, shaken, target, bridge>> /\ timer
  BY DEF Link, TimerFires
<1>2. active
  BY <1>1 DEF Reach
<1>3. CASE ~connecting /\ socket = 0 /\ Connect(conn, tls)
  <2>1. /\ active' = TRUE /\ overtaken' \in BOOLEAN /\ tls \in BOOLEAN
        /\ conn \in [Sockets -> {"none", "opening", "open", "closed"}]
    BY <1>1, <1>2 DEF TypeOK
  <2>2. \A n \in Sockets : conn[n] # "none" => n <= made
    BY <1>1 DEF Single
  <2>3. ~overtaken' => \A n \in Sockets : conn[n] \notin {"opening", "open"}
    BY <1>1, <1>3 DEF OneConnection, Sockets
  <2>4. ~overtaken' => reads = 0 /\ ~bridge'
    <3>1. ~overtaken => ~(reads > 0)
      BY <1>1, <1>2, <1>3 DEF Single
    <3>2. ~overtaken => ~bridge
      BY <1>1, <1>3 DEF BridgeFollowsSocket, TypeOK, Sockets
    <3> QED BY <1>1, <3>1, <3>2, AgentSessionAssumption DEF TypeOK
  <2>5. Single
    BY <1>1
  <2> QED BY <1>3, <2>1, <2>2, <2>3, <2>4, <2>5, ConnectLink
<1>4. CASE /\ connecting \/ socket # 0
           /\ timer' = FALSE /\ UNCHANGED <<connecting, reads, made, conn, socket, dispatcher>>
  <2>1. socket # 0 \/ reads > 0
    BY <1>1, <1>4 DEF Reach
  <2>2. Reach' /\ NeverStranded'
    BY <1>1, <1>2, <1>4, <2>1 DEF Reach, NeverStranded
  <2>3. Single' /\ OneConnection' /\ BridgeFollowsSocket'
    BY <1>1, <1>4 DEF Single, OneConnection, BridgeFollowsSocket
  <2> QED BY <2>2, <2>3 DEF Link
<1> QED BY <1>3, <1>4 DEF TimerFires

LEMMA ReadLink ==
    ASSUME TypeOK, Link, ReadDone
    PROVE  Link'
<1>1. /\ Reach /\ Single /\ OneConnection /\ BridgeFollowsSocket
      /\ UNCHANGED <<active, overtaken, shaken, target, bridge>>
      /\ reads > 0 /\ reads' = reads - 1 /\ reads \in Nat /\ made \in Nat /\ made <= MaxSockets
  BY AgentSessionAssumption DEF Link, ReadDone, TypeOK
<1>2. ~overtaken => reads' = 0 /\ socket = 0 /\ (active => connecting)
  BY <1>1 DEF Single
<1>3. ~overtaken => ~bridge
  BY <1>1, <1>2 DEF BridgeFollowsSocket, TypeOK, Sockets
<1>4. BridgeFollowsSocket'
  BY <1>1, <1>3 DEF BridgeFollowsSocket
<1>5. CASE CreateFails(conn, socket)
  <2>1. /\ connecting' = FALSE /\ socket' = socket /\ conn' = conn /\ made' = made
        /\ timer' = active'
    BY <1>5 DEF CreateFails
  <2>2. Reach' /\ NeverStranded'
    <3>1. ~active' => ~timer' /\ ~connecting' /\ socket' = 0
      BY <1>1, <2>1 DEF Reach
    <3>2. active' => timer'
      BY <2>1
    <3> QED BY <2>1, <3>1, <3>2 DEF Reach, NeverStranded
  <2>3. Single' /\ OneConnection'
    BY <1>1, <1>2, <2>1 DEF Single, OneConnection
  <2> QED BY <1>4, <2>2, <2>3 DEF Link
<1>6. CASE active /\ Create(conn) /\ UNCHANGED <<connecting, timer>>
  <2>1. /\ made' = made + 1 /\ socket' = made + 1 /\ made + 1 \in Sockets
        /\ conn' = [conn EXCEPT ![made + 1] = "opening"]
        /\ conn \in [Sockets -> {"none", "opening", "open", "closed"}]
    BY <1>1, <1>6, AgentSessionAssumption DEF Create, Sockets, TypeOK
  <2>2. Reach' /\ NeverStranded'
    BY <1>1, <1>6, <2>1 DEF Reach, NeverStranded
  <2>3. Single'
    <3>1. \A n \in Sockets : conn'[n] # "none" => n <= made'
      BY <1>1, <2>1 DEF Single, Sockets
    <3>2. ~overtaken' => ~(reads' > 0)
      BY <1>1, <1>2
    <3> QED BY <2>1, <3>1, <3>2 DEF Single
  <2>4. OneConnection'
    BY <1>1, <1>2, <2>1 DEF OneConnection, Sockets
  <2> QED BY <1>4, <2>2, <2>3, <2>4 DEF Link
<1>7. CASE /\ ~active /\ connecting' = FALSE
           /\ UNCHANGED <<timer, made, conn, socket, dispatcher>>
  <2>1. Reach' /\ NeverStranded'
    BY <1>1, <1>7 DEF Reach, NeverStranded
  <2>2. Single' /\ OneConnection'
    BY <1>1, <1>2, <1>7 DEF Single, OneConnection
  <2> QED BY <1>4, <2>1, <2>2 DEF Link
<1> QED BY <1>5, <1>6, <1>7 DEF ReadDone

LEMMA OpenedLink ==
    ASSUME TypeOK, Link, NEW n \in Sockets, Opened(n)
    PROVE  Link'
<1>1. /\ Reach /\ Single /\ OneConnection /\ BridgeFollowsSocket /\ NeverStranded
      /\ UNCHANGED <<active, overtaken, shaken, target, bridge, reads, timer, made, socket>>
      /\ conn[n] = "opening" /\ conn' = [conn EXCEPT ![n] = "open"]
      /\ conn \in [Sockets -> {"none", "opening", "open", "closed"}]
  BY DEF Link, Opened, TypeOK
<1>2. connecting' => connecting
  BY DEF Opened
<1>3. socket = 0 /\ connecting => connecting'
  <2>1. socket = 0 => socket # n
    BY DEF Sockets
  <2>2. connecting' = (connecting /\ ~(active /\ socket = n))
    BY DEF Opened
  <2> QED BY <2>1, <2>2, Zenon
<1>4. Reach' /\ NeverStranded' /\ BridgeFollowsSocket'
  BY <1>1, <1>2 DEF Reach, NeverStranded, BridgeFollowsSocket
<1>5. Single'
  BY <1>1, <1>3 DEF Single
<1>6. OneConnection'
  BY <1>1 DEF OneConnection
<1> QED BY <1>4, <1>5, <1>6 DEF Link

LEMMA DisconnectLink ==
    ASSUME TypeOK, Link, NEW n \in Sockets, socket = n, Disconnect(n)
    PROVE  Link'
<1>1. /\ Reach /\ Single /\ OneConnection /\ reads \in Nat
      /\ UNCHANGED <<active, overtaken, shaken, reads, made>>
      /\ socket' = 0 /\ connecting' = FALSE /\ bridge' = FALSE
      /\ conn' = [conn EXCEPT ![n] = "closed"]
      /\ conn \in [Sockets -> {"none", "opening", "open", "closed"}]
  BY DEF Link, Disconnect, Detached, TypeOK
<1>2. n # 0
  BY DEF Sockets
<1>3. active /\ timer' = TRUE
  BY <1>1, <1>2 DEF Reach, Disconnect, Reconnects
<1>4. Reach' /\ NeverStranded' /\ BridgeFollowsSocket'
  BY <1>1, <1>3 DEF Reach, NeverStranded, BridgeFollowsSocket
<1>5. Single'
  BY <1>1, <1>2, AgentSessionAssumption DEF Single, Sockets
<1>6. OneConnection'
  BY <1>1 DEF OneConnection
<1> QED BY <1>4, <1>5, <1>6 DEF Link

\* What only loses somebody else's socket, shakes hands, or detaches the bridge.
LEMMA QuietLink ==
    ASSUME TypeOK, Link,
           UNCHANGED <<active, connecting, reads, overtaken, timer, made, socket>>,
           \/ UNCHANGED conn
           \/ \E n \in Sockets : conn[n] # "none" /\ conn' = [conn EXCEPT ![n] = "closed"],
           bridge' => \/ bridge /\ UNCHANGED <<shaken, target>>
                      \/ socket \in shaken' /\ target' = socket
    PROVE  Link'
<1>1. /\ Reach /\ Single /\ OneConnection /\ BridgeFollowsSocket /\ NeverStranded
      /\ conn \in [Sockets -> {"none", "opening", "open", "closed"}]
  BY DEF Link, TypeOK
<1>2. Reach' /\ NeverStranded' /\ BridgeFollowsSocket'
  BY <1>1 DEF Reach, NeverStranded, BridgeFollowsSocket
<1>3. \A m \in Sockets : conn'[m] = conn[m] \/ (conn'[m] = "closed" /\ conn[m] # "none")
  BY <1>1
<1>4. Single' /\ OneConnection'
  BY <1>1, <1>3 DEF Single, OneConnection
<1> QED BY <1>2, <1>4 DEF Link

LEMMA LastEventLink ==
    ASSUME TypeOK, Link, NEW kind \in LastEvents, NEW entered, LastEvent(kind, entered)
    PROVE  Link'
BY QuietLink DEF LastEvent, link

LEMMA LinkNext == TypeOK /\ Link /\ [Next]_vars => Link'
<1> SUFFICES ASSUME TypeOK, Link, [Next]_vars PROVE Link'
  OBVIOUS
<1>1. ASSUME NEW on \in BOOLEAN, NEW withTls \in BOOLEAN, Reload(on, withTls) PROVE Link'
  BY <1>1, ReloadLink
<1>2. ASSUME NEW n \in Sockets, Opened(n) PROVE Link'
  BY <1>2, OpenedLink
<1>3. ASSUME NEW n \in Sockets, Lost(n) PROVE Link'
  <2>1. CASE socket = n /\ Disconnect(n)
    BY <2>1, DisconnectLink
  <2>2. CASE socket # n
    <3>1. /\ UNCHANGED <<active, connecting, reads, overtaken, timer, made, socket, bridge,
                         shaken, target>>
          /\ conn[n] # "none" /\ conn' = [conn EXCEPT ![n] = "closed"]
      BY <1>3, <2>2 DEF Lost
    <3> QED BY <3>1, QuietLink
  <2> QED BY <1>3, <2>1, <2>2 DEF Lost
<1>4. ASSUME NEW n \in Sockets, HelloAck(n) PROVE Link'
  <2>1. /\ UNCHANGED <<active, connecting, reads, overtaken, timer, made, socket, conn>>
        /\ socket \in shaken' /\ target' = socket
    BY <1>4 DEF HelloAck, Listening
  <2> QED BY <2>1, QuietLink
<1>5. ASSUME NEW n \in Sockets, Unexpected(n) PROVE Link'
  BY <1>5, DisconnectLink DEF Unexpected, Listening
<1>6. ASSUME NEW n \in Sockets, NEW kind \in Kinds, Handle(n, kind) PROVE Link'
  BY <1>6, QuietLink DEF Handle, link
<1>7. CASE StartFromUi
  BY <1>7, QuietLink DEF StartFromUi, link
<1>8. CASE Enter
  <2>1. CASE LastEvent("failure", entering - 1)
    BY <2>1, LastEventLink DEF LastEvents
  <2>2. CASE UNCHANGED <<link, bridge>>
    BY <2>2, QuietLink DEF link
  <2> QED BY <1>8, <2>1, <2>2 DEF Enter
<1>9. ASSUME NEW kind \in LastEvents, End(kind) PROVE Link'
  BY <1>9, LastEventLink DEF End
<1>10. CASE UNCHANGED vars
  BY <1>10, QuietLink DEF vars
<1> QED BY <1>1, <1>2, <1>3, <1>4, <1>5, <1>6, <1>7, <1>8, <1>9, <1>10, TimerLink, ReadLink DEF Next
-----------------------------------------------------------------------------
(* The commands. *)

Once == Distinct /\ AtMostOnce

\* Places and commands that only move.
LEMMA OnceStays ==
    ASSUME Once, UNCHANGED <<queue, executed, arrived>>
    PROVE  Once'
BY DEF Once, Distinct, AtMostOnce

LEMMA HandleOnce ==
    ASSUME TypeOK, Once, NEW n \in Sockets, NEW kind \in Kinds, Handle(n, kind)
    PROVE  Once'
<1> DEFINE c == [id |-> arrived + 1, kind |-> kind, on |-> n]
<1>1. c \in Commands /\ c.id = arrived + 1 /\ arrived \in Nat /\ arrived' = arrived + 1
  BY AgentSessionAssumption DEF TypeOK, Handle, Commands, Ids, Kinds
<1>2. executed \in Seq(Commands) /\ queue \in [Sockets -> Seq(Commands)]
  BY DEF TypeOK
<1>3. /\ \A m \in Sockets : \A i \in 1..Len(queue[m]) : queue[m][i].id \in Nat
      /\ \A j \in 1..Len(executed) : executed[j].id \in Nat
  <2>1. \A d \in Commands : d.id \in Nat
    BY AgentSessionAssumption DEF Commands, Ids, Kinds
  <2>2. \A j \in 1..Len(executed) : executed[j] \in Commands
    BY <1>2
  <2>3. \A m \in Sockets : \A i \in 1..Len(queue[m]) : queue[m][i] \in Commands
    BY <1>2
  <2> QED BY <2>1, <2>2, <2>3
<1>4. CASE queue' = [queue EXCEPT ![n] = Append(@, c)] /\ UNCHANGED executed
  <2> HIDE DEF c
  <2>1. /\ Len(queue'[n]) = Len(queue[n]) + 1 /\ queue'[n][Len(queue[n]) + 1] = c
        /\ \A i \in 1..Len(queue[n]) : queue'[n][i] = queue[n][i]
        /\ \A m \in Sockets \ {n} : queue'[m] = queue[m]
        /\ \A m \in Sockets : Len(queue[m]) \in Nat
    BY <1>1, <1>2, <1>4
  <2>2. \A m \in Sockets : \A i \in 1..Len(queue'[m]) :
           \/ i \in 1..Len(queue[m]) /\ queue'[m][i] = queue[m][i]
           \/ m = n /\ i = Len(queue[n]) + 1 /\ queue'[m][i] = c
    BY <2>1
  <2>3. /\ \A m \in Sockets : \A i \in 1..Len(queue'[m]) : queue'[m][i].id <= arrived'
        /\ \A j \in 1..Len(executed') : executed'[j].id <= arrived'
    BY <1>1, <1>3, <1>4, <2>2 DEF Once, Distinct
  <2>4. \A l, m \in Sockets : \A i \in 1..Len(queue'[l]), j \in 1..Len(queue'[m]) :
           queue'[l][i].id = queue'[m][j].id => l = m /\ i = j
    <3> SUFFICES ASSUME NEW l \in Sockets, NEW m \in Sockets,
                        NEW i \in 1..Len(queue'[l]), NEW j \in 1..Len(queue'[m]),
                        queue'[l][i].id = queue'[m][j].id
                 PROVE  l = m /\ i = j
      OBVIOUS
    <3>1. \A k \in Sockets : \A h \in 1..Len(queue[k]) :
             queue[k][h].id <= arrived /\ queue[k][h].id \in Nat
      BY <1>3 DEF Once, Distinct
    <3>2. CASE i \in 1..Len(queue[l]) /\ queue'[l][i] = queue[l][i]
      <4>1. CASE j \in 1..Len(queue[m]) /\ queue'[m][j] = queue[m][j]
        BY <3>2, <4>1 DEF Once, Distinct
      <4>2. CASE queue'[m][j] = c
        BY <1>1, <3>1, <3>2, <4>2
      <4> QED BY <2>2, <4>1, <4>2
    <3>3. CASE l = n /\ i = Len(queue[n]) + 1 /\ queue'[l][i] = c
      <4>1. CASE j \in 1..Len(queue[m]) /\ queue'[m][j] = queue[m][j]
        BY <1>1, <3>1, <3>3, <4>1
      <4>2. CASE m = n /\ j = Len(queue[n]) + 1
        BY <3>3, <4>2
      <4> QED BY <2>2, <4>1, <4>2
    <3> QED BY <2>2, <3>2, <3>3
  <2>5. AtMostOnce'
    <3>1. \A i, j \in 1..Len(executed') : executed'[i].id = executed'[j].id => i = j
      BY <1>4 DEF Once, AtMostOnce
    <3>2. \A m \in Sockets : \A i \in 1..Len(queue'[m]), j \in 1..Len(executed') :
             queue'[m][i].id # executed'[j].id
      <4> SUFFICES ASSUME NEW m \in Sockets, NEW i \in 1..Len(queue'[m]),
                          NEW j \in 1..Len(executed)
                   PROVE  queue'[m][i].id # executed[j].id
        BY <1>4
      <4>1. executed[j].id <= arrived /\ executed[j].id \in Nat
        BY <1>3 DEF Once, Distinct
      <4>2. CASE queue'[m][i] = c
        BY <1>1, <4>1, <4>2
      <4>3. CASE i \in 1..Len(queue[m]) /\ queue'[m][i] = queue[m][i]
        BY <4>3 DEF Once, AtMostOnce
      <4> QED BY <2>2, <4>2, <4>3
    <3> QED BY <3>1, <3>2 DEF AtMostOnce
  <2> QED BY <2>3, <2>4, <2>5 DEF Once, Distinct
<1>5. CASE executed' = Append(executed, c) /\ UNCHANGED queue
  <2> HIDE DEF c
  <2>1. /\ Len(executed') = Len(executed) + 1 /\ executed'[Len(executed) + 1] = c
        /\ \A i \in 1..Len(executed) : executed'[i] = executed[i]
        /\ Len(executed) \in Nat
    BY <1>1, <1>2, <1>5
  <2>2. \A i \in 1..Len(executed') :
           \/ i \in 1..Len(executed) /\ executed'[i] = executed[i]
           \/ i = Len(executed) + 1 /\ executed'[i] = c
    BY <2>1
  <2>3. Distinct'
    BY SMTT(30), <1>1, <1>3, <1>5, <2>2 DEF Once, Distinct
  <2>4. \A i, j \in 1..Len(executed') : executed'[i].id = executed'[j].id => i = j
    <3> SUFFICES ASSUME NEW i \in 1..Len(executed'), NEW j \in 1..Len(executed'),
                        executed'[i].id = executed'[j].id
                 PROVE  i = j
      OBVIOUS
    <3>1. \A h \in 1..Len(executed) : executed[h].id <= arrived /\ executed[h].id \in Nat
      BY <1>3 DEF Once, Distinct
    <3>2. CASE i \in 1..Len(executed) /\ j \in 1..Len(executed)
      BY <2>1, <3>2 DEF Once, AtMostOnce
    <3>3. CASE i = Len(executed) + 1 \/ j = Len(executed) + 1
      BY <1>1, <2>1, <2>2, <3>1, <3>3
    <3> QED BY <2>2, <3>2, <3>3
  <2>5. \A m \in Sockets : \A i \in 1..Len(queue'[m]), j \in 1..Len(executed') :
           queue'[m][i].id # executed'[j].id
    <3> SUFFICES ASSUME NEW m \in Sockets, NEW i \in 1..Len(queue[m]),
                        NEW j \in 1..Len(executed')
                 PROVE  queue[m][i].id # executed'[j].id
      BY <1>5
    <3>1. queue[m][i].id <= arrived /\ queue[m][i].id \in Nat
      BY <1>3 DEF Once, Distinct
    <3>2. CASE executed'[j] = c
      BY <1>1, <3>1, <3>2
    <3>3. CASE j \in 1..Len(executed) /\ executed'[j] = executed[j]
      BY <3>3 DEF Once, AtMostOnce
    <3> QED BY <2>2, <3>2, <3>3
  <2> QED BY <2>3, <2>4, <2>5 DEF Once, AtMostOnce
<1> QED BY <1>4, <1>5 DEF Handle, Dispatch

\* A drain moves a whole queue behind the dispatched commands.
LEMMA LastEventOnce ==
    ASSUME TypeOK, Once, NEW kind \in LastEvents, NEW entered, LastEvent(kind, entered)
    PROVE  Once'
<1>1. arrived' = arrived
  BY DEF LastEvent
<1>2. CASE UNCHANGED <<executed, queue>>
  BY <1>1, <1>2, OnceStays
<1>3. CASE bridge /\ dispatcher # 0 /\ Terminal(kind)
  <2> DEFINE q == queue[dispatcher]
  <2>1. /\ executed' = executed \o q /\ queue' = [queue EXCEPT ![dispatcher] = <<>>]
        /\ dispatcher \in Sockets
    BY <1>3 DEF LastEvent, Drained, Left, TypeOK, Sockets
  <2>2. q \in Seq(Commands) /\ executed \in Seq(Commands) /\ queue \in [Sockets -> Seq(Commands)]
    BY <2>1 DEF TypeOK
  <2>3. /\ Len(executed') = Len(executed) + Len(q) /\ Len(q) \in Nat /\ Len(executed) \in Nat
        /\ \A i \in 1..Len(executed) + Len(q) :
              executed'[i] = IF i <= Len(executed) THEN executed[i] ELSE q[i - Len(executed)]
    BY <2>1, <2>2, ConcatProperties
  <2>4. \A i \in 1..Len(executed') :
           \/ i \in 1..Len(executed) /\ executed'[i] = executed[i]
           \/ /\ i - Len(executed) \in 1..Len(q)
              /\ executed'[i] = q[i - Len(executed)]
    BY <2>3
  <2>5. \A m \in Sockets : \A i \in 1..Len(queue'[m]) :
           m # dispatcher /\ queue'[m] = queue[m] /\ i \in 1..Len(queue[m])
    BY <2>1, <2>2
  <2>6. Distinct'
    <3>1. \A m \in Sockets : \A i \in 1..Len(queue'[m]) : queue'[m][i].id <= arrived'
      BY <1>1, <2>5 DEF Once, Distinct
    <3>2. \A j \in 1..Len(executed') : executed'[j].id <= arrived'
      BY <1>1, <2>1, <2>4 DEF Once, Distinct
    <3>3. \A l, m \in Sockets : \A i \in 1..Len(queue'[l]), j \in 1..Len(queue'[m]) :
             queue'[l][i].id = queue'[m][j].id => l = m /\ i = j
      BY <2>5 DEF Once, Distinct
    <3> QED BY <3>1, <3>2, <3>3 DEF Distinct
  <2>7. \A i, j \in 1..Len(executed') : executed'[i].id = executed'[j].id => i = j
    <3> SUFFICES ASSUME NEW i \in 1..Len(executed'), NEW j \in 1..Len(executed'),
                        executed'[i].id = executed'[j].id
                 PROVE  i = j
      OBVIOUS
    <3>1. CASE i \in 1..Len(executed) /\ executed'[i] = executed[i]
      <4>1. CASE j \in 1..Len(executed) /\ executed'[j] = executed[j]
        BY <3>1, <4>1 DEF Once, AtMostOnce
      <4>2. CASE j - Len(executed) \in 1..Len(q) /\ executed'[j] = q[j - Len(executed)]
        BY <2>1, <3>1, <4>2 DEF Once, AtMostOnce
      <4> QED BY <2>4, <4>1, <4>2
    <3>2. CASE i - Len(executed) \in 1..Len(q) /\ executed'[i] = q[i - Len(executed)]
      <4>1. CASE j \in 1..Len(executed) /\ executed'[j] = executed[j]
        BY <2>1, <3>2, <4>1 DEF Once, AtMostOnce
      <4>2. CASE j - Len(executed) \in 1..Len(q) /\ executed'[j] = q[j - Len(executed)]
        <5>1. i - Len(executed) = j - Len(executed)
          BY SMTT(30), <2>1, <3>2, <4>2 DEF Once, Distinct
        <5> QED BY <2>3, <5>1
      <4> QED BY <2>4, <4>1, <4>2
    <3> QED BY <2>4, <3>1, <3>2
  <2>8. \A m \in Sockets : \A i \in 1..Len(queue'[m]), j \in 1..Len(executed') :
           queue'[m][i].id # executed'[j].id
    <3> SUFFICES ASSUME NEW m \in Sockets, NEW i \in 1..Len(queue'[m]), NEW j \in 1..Len(executed')
                 PROVE  queue'[m][i].id # executed'[j].id
      OBVIOUS
    <3>1. m # dispatcher /\ queue'[m] = queue[m] /\ i \in 1..Len(queue[m])
      BY <2>5
    <3>2. CASE j \in 1..Len(executed) /\ executed'[j] = executed[j]
      BY <3>1, <3>2 DEF Once, AtMostOnce
    <3>3. CASE j - Len(executed) \in 1..Len(q) /\ executed'[j] = q[j - Len(executed)]
      BY <2>1, <3>1, <3>3 DEF Once, Distinct
    <3> QED BY <2>4, <3>2, <3>3
  <2> QED BY <2>6, <2>7, <2>8 DEF Once, AtMostOnce
<1> QED BY <1>2, <1>3 DEF LastEvent

LEMMA OnceNext == TypeOK /\ Once /\ [Next]_vars => Once'
<1> SUFFICES ASSUME TypeOK, Once, [Next]_vars PROVE Once'
  OBVIOUS
<1>1. ASSUME NEW on \in BOOLEAN, NEW withTls \in BOOLEAN, Reload(on, withTls) PROVE Once'
  BY <1>1, OnceStays DEF Reload
<1>2. ASSUME NEW n \in Sockets, Opened(n) \/ Lost(n) \/ HelloAck(n) \/ Unexpected(n) PROVE Once'
  BY <1>2, OnceStays DEF Opened, Lost, HelloAck, Unexpected, work
<1>3. ASSUME NEW n \in Sockets, NEW kind \in Kinds, Handle(n, kind) PROVE Once'
  BY <1>3, HandleOnce
<1>4. CASE TimerFires \/ ReadDone \/ StartFromUi
  BY <1>4, OnceStays DEF TimerFires, ReadDone, StartFromUi, work
<1>5. CASE Enter
  <2>1. CASE LastEvent("failure", entering - 1)
    BY <2>1, LastEventOnce DEF LastEvents
  <2>2. CASE UNCHANGED work
    BY <2>2, OnceStays DEF work
  <2> QED BY <1>5, <2>1, <2>2 DEF Enter
<1>6. ASSUME NEW kind \in LastEvents, End(kind) PROVE Once'
  BY <1>6, LastEventOnce DEF End
<1>7. CASE UNCHANGED vars
  BY <1>7, OnceStays DEF vars
<1> QED BY <1>1, <1>2, <1>3, <1>4, <1>5, <1>6, <1>7 DEF Next

-----------------------------------------------------------------------------
(* The invariant and what follows from it. *)

LEMMA InitIInv == Init => IInv
<1> SUFFICES ASSUME Init PROVE IInv
  OBVIOUS
<1>1. TypeOK
  <2>1. <<>> \in Seq(Commands) /\ 0 \in 0..MaxReads /\ 0 \in 0..MaxSockets
        /\ 0 \in 0..MaxCommands /\ 0 \in 0..MaxUiUpgrades
    BY AgentSessionAssumption
  <2>2. /\ active \in BOOLEAN /\ tls \in BOOLEAN /\ connecting \in BOOLEAN
        /\ overtaken \in BOOLEAN /\ timer \in BOOLEAN /\ bridge \in BOOLEAN
        /\ running \in BOOLEAN
    BY DEF Init
  <2>3. /\ conn \in [Sockets -> {"none", "opening", "open", "closed"}]
        /\ queue \in [Sockets -> Seq(Commands)]
    BY <2>1 DEF Init
  <2>4. /\ reads = 0 /\ made = 0 /\ socket = 0 /\ dispatcher = 0 /\ target = 0
        /\ arrived = 0 /\ entering = 0 /\ pipelines = 0 /\ started = 0
        /\ shaken = {} /\ deferred = {} /\ executed = <<>>
    BY DEF Init
  <2> QED BY <2>1, <2>2, <2>3, <2>4 DEF TypeOK
<1>2. Reach /\ Single /\ NeverStranded /\ OneConnection /\ BridgeFollowsSocket
  BY DEF Init, Reach, Single, NeverStranded, OneConnection, BridgeFollowsSocket
<1>3. Distinct /\ AtMostOnce
  BY DEF Init, Distinct, AtMostOnce
<1> QED BY <1>1, <1>2, <1>3 DEF IInv

LEMMA NextIInv == IInv /\ [Next]_vars => IInv'
BY TypeNext, LinkNext, OnceNext DEF IInv, Link, Once

LEMMA Invariance == Spec => []IInv
BY InitIInv, NextIInv, PTL DEF Spec

\* The runtime's flags, sockets and counters keep their ranges, and the queues and the
\* dispatched commands hold commands of the center only.
THEOREM TypeCorrect == Spec => []TypeOK
<1>1. IInv => TypeOK
  BY DEF IInv
<1> QED BY <1>1, Invariance, PTL

\* Whatever drops, reloads or fails to read its TLS files, a started agent has a socket, a
\* connection attempt under way or an armed reconnect timer.
THEOREM StaysReachable == Spec => []NeverStranded
<1>1. IInv => NeverStranded
  BY DEF IInv
<1> QED BY <1>1, Invariance, PTL

\* Unless a reload overtook a wait for the TLS files, only the runtime's own socket is alive.
THEOREM OneSocketAlive == Spec => []OneConnection
<1>1. IInv => OneConnection
  BY DEF IInv
<1> QED BY <1>1, Invariance, PTL

\* With the same exception, an attached bridge forwards to the socket that shook hands.
THEOREM EventsToTheSocket == Spec => []BridgeFollowsSocket
<1>1. IInv => BridgeFollowsSocket
  BY DEF IInv
<1> QED BY <1>1, Invariance, PTL

\* For any number of connections, commands and overlapping upgrades, no command is dispatched
\* twice, nor dispatched while still queued.
THEOREM DispatchedOnce == Spec => []AtMostOnce
<1>1. IInv => AtMostOnce
  BY DEF IInv
<1> QED BY <1>1, Invariance, PTL
=============================================================================
