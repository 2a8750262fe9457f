----------------------- MODULE ClientsControllerProofs -----------------------
(***************************************************************************)
(* Proofs about ClientsController: its invariants, for any set of sockets, *)
(* transports, filters and levels; that no step but one, which hands a     *)
(* client's log configuration to the driver as it is, takes a log          *)
(* transport of the application off the driver; and that it implements     *)
(* LogStream.                                                              *)
(***************************************************************************)
EXTENDS ClientsController, TLAPS

USE DEF ConnectedClients, ScheduleClientCleanup

-----------------------------------------------------------------------------
(* The helpers on the log forwarder                                         *)

\* Starting attaches a fresh transport to the given ones, and no other.
LEMMA StartAttaches ==
    ASSUME NEW f, NEW ts, NEW l, StartForwarder(f, ts, l)
    PROVE  /\ serverTransport' \in Transport
           /\ serverTransport' # None
           /\ transports' = ts \cup {serverTransport'}
           /\ detached' = FALSE
BY DistinctTransports DEF StartForwarder

\* After configureLoggingEventForwarder the forwarder is started, with its
\* transport as the only one of the server, and no foreign transport is lost.
LEMMA ConfigureStarts ==
    ASSUME NEW f, TypeOK, OwnTransportOnly, ConfigureForwarder(f)
    PROVE  /\ serverTransport' \in Transport
           /\ serverTransport' # None
           /\ transports \subseteq transports'
           /\ transports' \subseteq transports \cup Transport
           /\ OwnTransportOnly'
<1>1. CASE Started
  BY <1>1, DistinctTransports
  DEF Started, ConfigureForwarder, ForwarderUnchanged, OwnTransportOnly, TypeOK
<1>2. CASE ~Started
  <2>1. StartForwarder(f, transports, level)
    BY <1>2 DEF ConfigureForwarder
  <2>2. /\ serverTransport' \in Transport
        /\ serverTransport' # None
        /\ transports' = transports \cup {serverTransport'}
        /\ detached' = FALSE
    BY <2>1, StartAttaches
  <2>3. transports \cap Transport = {}
    BY <1>2 DEF Started, OwnTransportOnly
  <2> QED
    BY <2>2, <2>3 DEF OwnTransportOnly
<1> QED
  BY <1>1, <1>2

\* restartIfNeeded replaces the transport by another one, or leaves it: the
\* forwarder is started after it exactly when it was before.
LEMMA RestartReplaces ==
    ASSUME NEW l, TypeOK, OwnTransportOnly, RestartIfNeeded(transports, l)
    PROVE  /\ serverTransport' \in Transport \cup {None}
           /\ Started' = Started
           /\ transports \cap ForeignTransport \subseteq transports'
           /\ transports' \subseteq transports \cup Transport
           /\ OwnTransportOnly'
<1>1. CASE Started /\ attrs[serverTransport].level # l
  <2>1. StartForwarder(NoFilter, transports \ {serverTransport}, l)
    BY <1>1 DEF RestartIfNeeded
  <2>2. /\ serverTransport' \in Transport
        /\ serverTransport' # None
        /\ transports' = (transports \ {serverTransport}) \cup {serverTransport'}
        /\ detached' = FALSE
    BY <2>1, StartAttaches
  <2>3. serverTransport \in Transport /\ transports \cap Transport \subseteq {serverTransport}
    BY <1>1, DistinctTransports DEF Started, OwnTransportOnly, TypeOK
  <2>4. OwnTransportOnly'
    BY <2>2, <2>3 DEF OwnTransportOnly
  <2> QED
    BY <1>1, <2>2, <2>3, <2>4, DistinctTransports DEF Started
<1>2. CASE ~(Started /\ attrs[serverTransport].level # l)
  BY <1>2 DEF RestartIfNeeded, OwnTransportOnly, TypeOK, Started
<1> QED
  BY <1>1, <1>2

\* cleanupLoggingEventForwarder detaches the server's transport, and that one
\* only, or changes nothing; it changes something only when none of the given
\* clients has a log subscription, and then leaves the forwarder stopped.
LEMMA CleanupDetaches ==
    ASSUME NEW cs, NEW logs, TypeOK, OwnTransportOnly, CleanupForwarder(cs, logs)
    PROVE  /\ serverTransport' \in {serverTransport, None}
           /\ serverTransport' = None \/ \E c \in cs : logs[c]
           /\ serverTransport' # serverTransport => \A c \in cs : ~logs[c]
           /\ attrs' = attrs
           /\ transports' \subseteq transports
           /\ transports \cap ForeignTransport \subseteq transports'
           /\ OwnTransportOnly'
<1>1. CASE Started /\ \A c \in cs : ~logs[c]
  <2>1. StopForwarder
    BY <1>1 DEF CleanupForwarder
  <2>2. serverTransport \in Transport
    BY <1>1 DEF Started, TypeOK
  <2> QED
    BY <1>1, <2>1, <2>2, DistinctTransports DEF StopForwarder, OwnTransportOnly
<1>2. CASE ~(Started /\ \A c \in cs : ~logs[c])
  BY <1>2 DEF CleanupForwarder, ForwarderUnchanged, Started, OwnTransportOnly
<1> QED
  BY <1>1, <1>2

-----------------------------------------------------------------------------
(* Type correctness                                                         *)

LEMMA InitTypeOK == Init => TypeOK
<1> SUFFICES ASSUME Init PROVE TypeOK
  OBVIOUS
<1>1. attrs \in [Transport -> [level : Level, filter : AnyFilter]]
  BY DEF Init, AnyFilter
<1>2. sock \in [Client -> SockState] /\ asked \in [Client -> AnyFilter]
  BY DEF Init, AnyFilter, SockState
<1>3. /\ receiveEvents \in [Client -> BOOLEAN]
      /\ receiveLogs \in [Client -> BOOLEAN]
  BY DEF Init
<1> QED
  BY <1>1, <1>2, <1>3 DEF Init, TypeOK

\* Only starting the forwarder gives a transport attributes.
LEMMA StartTypes ==
    ASSUME NEW f \in AnyFilter, NEW l \in Level, NEW ts, TypeOK,
           ts \subseteq Transport \cup ForeignTransport,
           StartForwarder(f, ts, l)
    PROVE  /\ serverTransport' \in Transport \cup {None}
           /\ attrs' \in [Transport -> [level : Level, filter : AnyFilter]]
           /\ transports' \subseteq Transport \cup ForeignTransport
BY DEF StartForwarder, TypeOK

\* Starting, stopping and leaving the forwarder settle whether it is detached.
LEMMA DetachedTypes ==
    ASSUME TypeOK,
           \/ \E f, ts, l : StartForwarder(f, ts, l)
           \/ \E cs, logs : CleanupForwarder(cs, logs)
           \/ ForwarderUnchanged
           \/ UNCHANGED detached
    PROVE  detached' \in BOOLEAN
BY DEF StartForwarder, CleanupForwarder, StopForwarder, ForwarderUnchanged, TypeOK

\* The driver's own update keeps to the transports there are.
LEMMA OptionsTypes ==
    ASSUME NEW c \in Client, NEW l \in Level, NEW sent \in {None, {}}, TypeOK,
           DriverUpdateOptions(c, l, sent)
    PROVE  /\ transports' \subseteq transports
           /\ sent = None => transports' = transports
           /\ sent # None => transports' = {}
           /\ detached' \in BOOLEAN
BY DEF DriverUpdateOptions, TakeSentTransports, TypeOK

\* Every action keeps every variable within its type.
LEMMA StepTypeOK ==
    ASSUME TypeOK, OwnTransportOnly, [Next]_vars
    PROVE  TypeOK'
<1> USE DEF SockState
<1>1. ASSUME NEW c \in Client, AddSocket(c) PROVE TypeOK'
  BY <1>1 DEF AddSocket, TypeOK, logVars
<1>2. ASSUME NEW c \in Client, PeerClose(c) PROVE TypeOK'
  BY <1>2 DEF PeerClose, TypeOK, logVars
<1>3. ASSUME NEW c \in Client, SocketClosed(c) PROVE TypeOK'
  BY <1>3 DEF SocketClosed, TypeOK, logVars
<1>4. ASSUME NEW c \in Client, UnparsableMessage(c) PROVE TypeOK'
  BY <1>4 DEF UnparsableMessage, TypeOK, logVars
<1>5. ASSUME NEW c \in Client, StartListening(c) PROVE TypeOK'
  BY <1>5 DEF StartListening, TypeOK, sockVars, logVars
<1>6. ASSUME NEW c \in Client, NEW f \in AnyFilter, StartListeningLogs(c, f)
      PROVE  TypeOK'
  <2>1. /\ serverTransport' \in Transport \cup {None}
        /\ attrs' \in [Transport -> [level : Level, filter : AnyFilter]]
        /\ transports' \subseteq Transport \cup ForeignTransport
    BY <1>6, StartTypes
    DEF StartListeningLogs, ConfigureForwarder, ForwarderUnchanged, TypeOK
  <2>2. detached' \in BOOLEAN
    BY <1>6, DetachedTypes DEF StartListeningLogs, ConfigureForwarder
  <2> QED
    BY <1>6, <2>1, <2>2 DEF StartListeningLogs, TypeOK, sockVars
<1>7. ASSUME NEW c \in Client, StopListeningLogs(c) PROVE TypeOK'
  <2>1. CleanupForwarder(clients, receiveLogs')
    BY <1>7 DEF StopListeningLogs
  <2>2. /\ serverTransport' \in {serverTransport, None}
        /\ attrs' = attrs
        /\ transports' \subseteq transports
    BY <2>1, CleanupDetaches
  <2>3. detached' \in BOOLEAN
    BY <2>1, DetachedTypes
  <2> QED
    BY <1>7, <2>2, <2>3 DEF StopListeningLogs, TypeOK, sockVars
<1>8. ASSUME NEW c \in Client, NEW l \in Level, NEW sent,
             ServerUpdateLogConfig(c, l, sent)
      PROVE  TypeOK'
  BY <1>8 DEF ServerUpdateLogConfig, PreserveLogTransports, TypeOK, sockVars
<1>9. ASSUME NEW c \in Client, NEW l \in Level, NEW sent,
             DriverUpdateLogConfig(c, l, sent)
      PROVE  TypeOK'
  <2>1. /\ serverTransport' \in Transport \cup {None}
        /\ attrs' \in [Transport -> [level : Level, filter : AnyFilter]]
        /\ transports' \subseteq Transport \cup ForeignTransport
    <3>1. NoFilter \in AnyFilter /\ transports \ {serverTransport} \subseteq Transport \cup ForeignTransport
      BY DEF AnyFilter, TypeOK
    <3> QED
      BY <1>9, <3>1, StartTypes
      DEF DriverUpdateLogConfig, PreserveLogTransports, RestartIfNeeded, TypeOK
  <2>2. detached' \in BOOLEAN
    BY <1>9, DetachedTypes DEF DriverUpdateLogConfig, RestartIfNeeded
  <2> QED
    BY <1>9, <2>1, <2>2 DEF DriverUpdateLogConfig, TypeOK, sockVars
<1>10. CASE CleanupClients
  <2>1. CleanupForwarder(clients', receiveLogs)
    BY <1>10 DEF CleanupClients
  <2>2. /\ serverTransport' \in {serverTransport, None}
        /\ attrs' = attrs
        /\ transports' \subseteq transports
    BY <2>1, CleanupDetaches
  <2>3. detached' \in BOOLEAN
    BY <2>1, DetachedTypes
  <2> QED
    BY <1>10, <2>2, <2>3 DEF CleanupClients, TypeOK
<1>11. CASE PingTick
  BY <1>11 DEF PingTick, TypeOK, logVars
<1>12. CASE Disconnect
  <2>1. CleanupForwarder({}, receiveLogs)
    BY <1>12 DEF Disconnect
  <2>2. /\ serverTransport' \in {serverTransport, None}
        /\ attrs' = attrs
        /\ transports' \subseteq transports
    BY <2>1, CleanupDetaches
  <2>3. detached' \in BOOLEAN
    BY <2>1, DetachedTypes
  <2> QED
    BY <1>12, <2>2, <2>3 DEF Disconnect, TypeOK
<1>13. CASE UNCHANGED vars
  BY <1>13 DEF vars, TypeOK
<1>14. ASSUME NEW c \in Client, NEW l \in Level, NEW sent \in {None, {}},
              DriverUpdateOptions(c, l, sent)
       PROVE  TypeOK'
  BY <1>14, OptionsTypes DEF DriverUpdateOptions, TypeOK, sockVars
<1> QED
  BY <1>1, <1>2, <1>3, <1>4, <1>5, <1>6, <1>7, <1>8, <1>9, <1>10, <1>11, <1>12, <1>13, <1>14
  DEF Next, Message

-----------------------------------------------------------------------------
(* The inductive invariant                                                  *)

LEMMA InitIInv == Init => IInv
<1> SUFFICES ASSUME Init PROVE IInv
  OBVIOUS
<1>1. TypeOK
  BY InitTypeOK
<1>2. OwnTransportOnly
  BY DistinctTransports DEF Init, OwnTransportOnly
<1> QED
  BY <1>1, <1>2
  DEF Init, IInv, ConnectedAreListed, ListedWereAccepted, FreshUnsubscribed,
      ListedLogsStarted, ListedEventForwarder, ClosedClientsAwaitCleanup,
      IdleForwarderIsTransient, IsConnected, Started

\* The conjuncts about sockets and the list of clients, which do not depend
\* on the forwarder.
SocketParts ==
    /\ ConnectedAreListed
    /\ ListedWereAccepted
    /\ FreshUnsubscribed
    /\ ListedEventForwarder
    /\ ClosedClientsAwaitCleanup

\* Every action keeps the socket conjuncts.
LEMMA StepSocketParts ==
    ASSUME TypeOK, SocketParts, [Next]_vars
    PROVE  SocketParts'
<1> USE DEF SocketParts, ConnectedAreListed, ListedWereAccepted,
            FreshUnsubscribed, ListedEventForwarder,
            ClosedClientsAwaitCleanup, IsConnected, CanReceive, Closing
<1>1. ASSUME NEW c \in Client, AddSocket(c) PROVE SocketParts'
  BY <1>1 DEF AddSocket, TypeOK, sockVars
<1>2. ASSUME NEW c \in Client, PeerClose(c) PROVE SocketParts'
  BY <1>2 DEF PeerClose, TypeOK, sockVars
<1>3. ASSUME NEW c \in Client, SocketClosed(c) PROVE SocketParts'
  BY <1>3 DEF SocketClosed, TypeOK, sockVars
<1>4. ASSUME NEW c \in Client, UnparsableMessage(c) PROVE SocketParts'
  BY <1>4 DEF UnparsableMessage, TypeOK, sockVars
<1>5. ASSUME NEW c \in Client, StartListening(c) PROVE SocketParts'
  BY <1>5 DEF StartListening, TypeOK, sockVars
<1>6. ASSUME NEW c \in Client, StopListeningLogs(c) PROVE SocketParts'
  BY <1>6 DEF StopListeningLogs, TypeOK, sockVars
<1>7. ASSUME NEW c \in Client, NEW f \in AnyFilter, StartListeningLogs(c, f)
      PROVE  SocketParts'
  BY <1>7 DEF StartListeningLogs, TypeOK, sockVars
<1>8. ASSUME NEW c \in Client, NEW l \in Level, NEW sent,
             ServerUpdateLogConfig(c, l, sent)
      PROVE  SocketParts'
  BY <1>8 DEF ServerUpdateLogConfig, sockVars
<1>9. ASSUME NEW c \in Client, NEW l \in Level, NEW sent,
             DriverUpdateLogConfig(c, l, sent)
      PROVE  SocketParts'
  BY <1>9 DEF DriverUpdateLogConfig, sockVars
<1>10. CASE CleanupClients
  BY <1>10 DEF CleanupClients, TypeOK
<1>11. CASE PingTick
  BY <1>11 DEF PingTick, TypeOK
<1>12. CASE Disconnect
  BY <1>12 DEF Disconnect, TypeOK
<1>13. CASE UNCHANGED vars
  BY <1>13 DEF vars
<1>14. ASSUME NEW c \in Client, NEW l \in Level, NEW sent,
              DriverUpdateOptions(c, l, sent)
       PROVE  SocketParts'
  BY <1>14 DEF DriverUpdateOptions, sockVars
<1> QED
  BY <1>1, <1>2, <1>3, <1>4, <1>5, <1>6, <1>7, <1>8, <1>9, <1>10, <1>11, <1>12, <1>13, <1>14
  DEF Next, Message

\* Every action leaves the driver with the forwarder's transport as the only
\* one of the server.
LEMMA StepOwnTransport ==
    ASSUME TypeOK, OwnTransportOnly, [Next]_vars
    PROVE  OwnTransportOnly'
<1>1. ASSUME NEW c \in Client, NEW f \in AnyFilter, StartListeningLogs(c, f)
      PROVE  OwnTransportOnly'
  BY <1>1, ConfigureStarts DEF StartListeningLogs
<1>2. ASSUME NEW c \in Client, StopListeningLogs(c)
      PROVE  OwnTransportOnly'
  <2>1. CleanupForwarder(clients, receiveLogs')
    BY <1>2 DEF StopListeningLogs
  <2> QED
    BY <2>1, CleanupDetaches
<1>3. ASSUME NEW c \in Client, NEW l \in Level, NEW sent,
             DriverUpdateLogConfig(c, l, sent)
      PROVE  OwnTransportOnly'
  BY <1>3, RestartReplaces DEF DriverUpdateLogConfig, PreserveLogTransports
<1>4. CASE CleanupClients
  <2>1. CleanupForwarder(clients', receiveLogs)
    BY <1>4 DEF CleanupClients
  <2> QED
    BY <2>1, CleanupDetaches
<1>5. CASE Disconnect
  <2>1. CleanupForwarder({}, receiveLogs)
    BY <1>5 DEF Disconnect
  <2> QED
    BY <2>1, CleanupDetaches
<1>6. CASE UNCHANGED <<serverTransport, transports, detached>>
  BY <1>6 DEF OwnTransportOnly
<1>7. ASSUME NEW c \in Client,
             \/ AddSocket(c) \/ PeerClose(c) \/ SocketClosed(c)
             \/ UnparsableMessage(c) \/ StartListening(c)
             \/ \E l \in Level, sent \in {None, {}} :
                   ServerUpdateLogConfig(c, l, sent)
      PROVE  UNCHANGED <<serverTransport, transports, detached>>
  BY <1>7 DEF AddSocket, PeerClose, SocketClosed, UnparsableMessage,
              StartListening, ServerUpdateLogConfig, PreserveLogTransports,
              logVars
<1>8. PingTick \/ UNCHANGED vars => UNCHANGED <<serverTransport, transports, detached>>
  BY DEF PingTick, vars, logVars
<1>9. ASSUME NEW c \in Client, NEW l \in Level, NEW sent \in {None, {}},
             DriverUpdateOptions(c, l, sent)
      PROVE  OwnTransportOnly'
  <2>1. CASE sent = None
    BY <1>9, <2>1, OptionsTypes DEF DriverUpdateOptions, OwnTransportOnly
  <2>2. CASE sent # None
    BY <1>9, <2>2, OptionsTypes
    DEF DriverUpdateOptions, OwnTransportOnly, Started
  <2> QED
    BY <2>1, <2>2
<1> QED
  BY <1>1, <1>2, <1>3, <1>4, <1>5, <1>6, <1>7, <1>8, <1>9 DEF Next, Message

\* Whoever is listed with a log subscription finds the forwarder started: no
\* action stops it while one is listed, none lists one without starting it.
LEMMA StepListedLogsStarted ==
    ASSUME TypeOK, SocketParts, OwnTransportOnly, ListedLogsStarted, [Next]_vars
    PROVE  ListedLogsStarted'
<1> USE DEF ListedLogsStarted
<1>1. ASSUME NEW c \in Client, NEW f \in AnyFilter, StartListeningLogs(c, f)
      PROVE  ListedLogsStarted'
  BY <1>1, ConfigureStarts DEF StartListeningLogs, Started
<1>2. ASSUME NEW c \in Client, StopListeningLogs(c)
      PROVE  ListedLogsStarted'
  <2>1. CleanupForwarder(clients, receiveLogs')
    BY <1>2 DEF StopListeningLogs
  <2>2. \/ serverTransport' = serverTransport
        \/ \A d \in clients : ~receiveLogs'[d]
    BY <2>1, CleanupDetaches
  <2>3. clients' = clients /\ \A d \in Client : receiveLogs'[d] => receiveLogs[d]
    BY <1>2 DEF StopListeningLogs, sockVars, TypeOK
  <2> QED
    BY <2>2, <2>3 DEF Started, TypeOK
<1>3. ASSUME NEW c \in Client, NEW l \in Level, NEW sent,
             DriverUpdateLogConfig(c, l, sent)
      PROVE  ListedLogsStarted'
  <2>1. Started' = Started
    BY <1>3, RestartReplaces DEF DriverUpdateLogConfig, PreserveLogTransports
  <2> QED
    BY <1>3, <2>1 DEF DriverUpdateLogConfig, sockVars
<1>4. CASE CleanupClients
  <2>1. CleanupForwarder(clients', receiveLogs)
    BY <1>4 DEF CleanupClients
  <2>2. \/ serverTransport' = serverTransport
        \/ \A d \in clients' : ~receiveLogs[d]
    BY <2>1, CleanupDetaches
  <2> QED
    BY <1>4, <2>2 DEF CleanupClients, Started
<1>5. CASE Disconnect
  BY <1>5 DEF Disconnect
<1>6. ASSUME NEW c \in Client, AddSocket(c)
      PROVE  ListedLogsStarted'
  BY <1>6 DEF AddSocket, SocketParts, FreshUnsubscribed, Started, logVars
<1>7. ASSUME NEW c \in Client,
             \/ PeerClose(c) \/ SocketClosed(c)
             \/ UnparsableMessage(c) \/ StartListening(c)
             \/ \E l \in Level, sent \in {None, {}} :
                   \/ ServerUpdateLogConfig(c, l, sent)
                   \/ DriverUpdateOptions(c, l, sent)
      PROVE  ListedLogsStarted'
  BY <1>7 DEF PeerClose, SocketClosed, UnparsableMessage, StartListening,
              ServerUpdateLogConfig, DriverUpdateOptions, sockVars, logVars,
              Started
<1>8. CASE PingTick \/ UNCHANGED vars
  BY <1>8 DEF PingTick, vars, logVars, Started
<1> QED
  BY <1>1, <1>2, <1>3, <1>4, <1>5, <1>6, <1>7, <1>8 DEF Next, Message

\* A started forwarder without a connected subscriber waits for a callback
\* that will reconsider it.
LEMMA StepIdle ==
    ASSUME TypeOK, SocketParts, OwnTransportOnly, IdleForwarderIsTransient,
           [Next]_vars
    PROVE  IdleForwarderIsTransient'
<1> USE DEF IdleForwarderIsTransient, LogSubscribers, IsConnected, Closing
<1>1. ASSUME NEW c \in Client, NEW f \in AnyFilter, StartListeningLogs(c, f)
      PROVE  IdleForwarderIsTransient'
  BY <1>1 DEF StartListeningLogs, CanReceive, TypeOK, sockVars
<1>2. ASSUME NEW c \in Client, StopListeningLogs(c), Started'
      PROVE  IdleForwarderIsTransient'
  <2>1. CleanupForwarder(clients, receiveLogs')
    BY <1>2 DEF StopListeningLogs
  <2>2. PICK d \in clients : receiveLogs'[d]
    BY <1>2, <2>1, CleanupDetaches DEF Started
  <2>3. d \in Client /\ sock[d] \in SockState \ {"none"}
    BY DEF SocketParts, ListedWereAccepted, TypeOK
  <2>4. sock[d] = "closed" => cleanupScheduled
    BY DEF SocketParts, ClosedClientsAwaitCleanup
  <2> QED
    BY <1>2, <2>2, <2>3, <2>4 DEF StopListeningLogs, SockState, sockVars
<1>3. ASSUME NEW c \in Client, NEW l \in Level, NEW sent,
             DriverUpdateLogConfig(c, l, sent)
      PROVE  IdleForwarderIsTransient'
  <2>1. Started' = Started
    BY <1>3, RestartReplaces DEF DriverUpdateLogConfig, PreserveLogTransports
  <2> QED
    BY <1>3, <2>1 DEF DriverUpdateLogConfig, sockVars
<1>4. ASSUME CleanupClients, Started'
      PROVE  IdleForwarderIsTransient'
  <2>1. CleanupForwarder(clients', receiveLogs)
    BY <1>4 DEF CleanupClients
  <2>2. \E d \in clients' : receiveLogs[d]
    BY <1>4, <2>1, CleanupDetaches DEF Started
  <2> QED
    BY <1>4, <2>2 DEF CleanupClients, TypeOK
<1>5. ASSUME Disconnect
      PROVE  ~Started'
  <2>1. CleanupForwarder({}, receiveLogs)
    BY <1>5 DEF Disconnect
  <2> QED
    BY <2>1, CleanupDetaches DEF Started
<1>6. ASSUME NEW c \in Client,
             \/ AddSocket(c) \/ PeerClose(c)
             \/ UnparsableMessage(c) \/ StartListening(c)
             \/ \E l \in Level, sent \in {None, {}} :
                   \/ ServerUpdateLogConfig(c, l, sent)
                   \/ DriverUpdateOptions(c, l, sent)
      PROVE  IdleForwarderIsTransient'
  BY <1>6 DEF AddSocket, PeerClose, UnparsableMessage, StartListening,
              ServerUpdateLogConfig, DriverUpdateOptions, CanReceive, sockVars,
              logVars, Started, TypeOK
<1>7. ASSUME NEW c \in Client, SocketClosed(c)
      PROVE  IdleForwarderIsTransient'
  BY <1>7 DEF SocketClosed
<1>8. CASE PingTick \/ UNCHANGED vars
  BY <1>8 DEF PingTick, vars, logVars, Started
<1> QED
  BY <1>1, <1>2, <1>3, <1>4, <1>5, <1>6, <1>7, <1>8 DEF Next, Message

-----------------------------------------------------------------------------
(* The theorems                                                             *)

\* IInv is an invariant.
THEOREM InvariantHolds == Spec => []IInv
<1>1. Init => IInv
  BY InitIInv
<1>2. IInv /\ [Next]_vars => IInv'
  <2> SUFFICES ASSUME IInv, [Next]_vars PROVE IInv'
    OBVIOUS
  <2>1. TypeOK /\ SocketParts /\ OwnTransportOnly
    BY DEF IInv, SocketParts
  <2>2. TypeOK'
    BY <2>1, StepTypeOK
  <2>3. SocketParts'
    BY <2>1, StepSocketParts
  <2>4. OwnTransportOnly'
    BY <2>1, StepOwnTransport
  <2>5. ListedLogsStarted'
    BY <2>1, StepListedLogsStarted DEF IInv
  <2>6. IdleForwarderIsTransient'
    BY <2>1, StepIdle DEF IInv
  <2> QED
    BY <2>2, <2>3, <2>4, <2>5, <2>6 DEF IInv, SocketParts
<1> QED
  BY <1>1, <1>2, PTL DEF Spec

\* Every variable keeps to its type.
THEOREM TypeCorrect == Spec => []TypeOK
BY InvariantHolds, PTL DEF IInv

\* A connected log subscriber is listed and the forwarder is started for it,
\* with its transport attached unless driver.update_options has detached it.
THEOREM LogSubscribersAreServed == Spec => []LogSubscribersServed
<1>1. IInv => LogSubscribersServed
  BY DEF IInv, TypeOK, ConnectedAreListed, ListedLogsStarted, OwnTransportOnly,
         LogSubscribersServed, LogSubscribers, LogRecipients, Started
<1> QED
  BY <1>1, InvariantHolds, PTL

\* A connected event subscriber is listed and the driver's events forwarded.
THEOREM EventSubscribersAreServed == Spec => []EventSubscribersServed
<1>1. IInv => EventSubscribersServed
  BY DEF IInv, ConnectedAreListed, ListedEventForwarder,
         EventSubscribersServed, EventSubscribers, EventRecipients
<1> QED
  BY <1>1, InvariantHolds, PTL

\* The server never has two transports on the driver, nor one it has lost: it
\* has the forwarder's there, or none after a driver.update_options took it.
THEOREM OneTransport == Spec => []OwnTransportOnly
BY InvariantHolds, PTL DEF IInv

\* An idle forwarder is always about to be reconsidered.
THEOREM IdleIsTransient == Spec => []IdleForwarderIsTransient
BY InvariantHolds, PTL DEF IInv

\* No step but a driver.update_options that names transports takes a log
\* transport of the application off the driver: starting, stopping and
\* restarting the forwarder and both update_log_config commands keep them all.
THEOREM ForeignTransportsStay == Spec => ForeignTransportsKept
<1> DEFINE Taken == \E c \in Client, l \in Level : DriverUpdateOptions(c, l, {})
           Kept == transports \cap ForeignTransport \subseteq transports' \/ Taken
<1> HIDE DEF Taken
<1>1. ASSUME TypeOK, OwnTransportOnly, [Next]_vars
      PROVE  [Kept]_vars
  <2>1. ASSUME NEW c \in Client, NEW f \in AnyFilter, StartListeningLogs(c, f)
        PROVE  Kept
    BY <1>1, <2>1, ConfigureStarts DEF StartListeningLogs
  <2>2. ASSUME NEW c \in Client, StopListeningLogs(c)
        PROVE  Kept
    <3>1. CleanupForwarder(clients, receiveLogs')
      BY <2>2 DEF StopListeningLogs
    <3> QED
      BY <1>1, <3>1, CleanupDetaches
  <2>3. ASSUME NEW c \in Client, NEW l \in Level, NEW sent,
               DriverUpdateLogConfig(c, l, sent)
        PROVE  Kept
    BY <1>1, <2>3, RestartReplaces
    DEF DriverUpdateLogConfig, PreserveLogTransports
  <2>4. ASSUME CleanupClients
        PROVE  Kept
    <3>1. CleanupForwarder(clients', receiveLogs)
      BY <2>4 DEF CleanupClients
    <3> QED
      BY <1>1, <3>1, CleanupDetaches
  <2>5. ASSUME Disconnect
        PROVE  Kept
    <3>1. CleanupForwarder({}, receiveLogs)
      BY <2>5 DEF Disconnect
    <3> QED
      BY <1>1, <3>1, CleanupDetaches
  <2>6. ASSUME NEW c \in Client,
               \/ AddSocket(c) \/ PeerClose(c) \/ SocketClosed(c)
               \/ UnparsableMessage(c) \/ StartListening(c)
               \/ \E l \in Level, sent \in {None, {}} :
                     ServerUpdateLogConfig(c, l, sent)
        PROVE  Kept
    BY <2>6 DEF AddSocket, PeerClose, SocketClosed, UnparsableMessage,
                StartListening, ServerUpdateLogConfig, PreserveLogTransports,
                logVars
  <2>7. ASSUME PingTick
        PROVE  Kept
    BY <2>7 DEF PingTick, logVars
  <2>8. ASSUME NEW c \in Client, NEW l \in Level, NEW sent \in {None, {}},
               DriverUpdateOptions(c, l, sent)
        PROVE  Kept
    <3>1. CASE sent = None
      BY <1>1, <2>8, <3>1, OptionsTypes
    <3>2. CASE sent = {}
      BY <2>8, <3>2 DEF Taken
    <3> QED
      BY <3>1, <3>2
  <2> QED
    BY <1>1, <2>1, <2>2, <2>3, <2>4, <2>5, <2>6, <2>7, <2>8 DEF Next, Message
<1>2. IInv => TypeOK /\ OwnTransportOnly
  BY DEF IInv
<1> QED
  BY <1>1, <1>2, InvariantHolds, PTL DEF Spec, ForeignTransportsKept, Taken

-----------------------------------------------------------------------------
(* The controller implements the abstract log stream                        *)

LEMMA InitSimulates == Init => LS!Init
BY DEF Init, LS!Init, LogSubscribers, IsConnected, Started

\* A step that changes neither who subscribes nor whether logs flow.
LEMMA StutterSimulates ==
    ASSUME Started' = Started, LogSubscribers' = LogSubscribers
    PROVE  [LS!Next]_(LS!vars)
BY DEF LS!vars

\* A step after which some subscribers are gone, and which stops the forwarder
\* only when nobody is left.
LEMMA LeaveSimulates ==
    ASSUME LogSubscribers' \subseteq LogSubscribers,
           Started' = Started \/ (~Started' /\ LogSubscribers' = {})
    PROVE  [LS!Next]_(LS!vars)
<1> DEFINE gone == LogSubscribers \ LogSubscribers'
<1>1. gone \in SUBSET LogSubscribers /\ LogSubscribers' = LogSubscribers \ gone
  OBVIOUS
<1>2. UNCHANGED Started \/ (LogSubscribers' = {} /\ Started' = FALSE)
  BY DEF Started
<1>3. LS!Leave
  BY <1>1, <1>2 DEF LS!Leave
<1> QED
  BY <1>3 DEF LS!Next

\* Every step of the controller is a step of the log stream or stutters there.
LEMMA StepSimulates ==
    ASSUME IInv, [Next]_vars
    PROVE  [LS!Next]_(LS!vars)
<1>0. TypeOK /\ OwnTransportOnly
  BY DEF IInv
<1>1. ASSUME NEW c \in Client, NEW f \in AnyFilter, StartListeningLogs(c, f)
      PROVE  [LS!Next]_(LS!vars)
  <2>1. Started' = TRUE
    BY <1>0, <1>1, ConfigureStarts DEF StartListeningLogs, Started
  <2>2. CASE IsConnected(c)
    <3>1. LogSubscribers' = LogSubscribers \cup {c}
      BY <1>0, <1>1, <2>2
      DEF StartListeningLogs, LogSubscribers, IsConnected, TypeOK, sockVars
    <3> QED
      BY <2>1, <3>1 DEF LS!Next, LS!Subscribe
  <2>3. CASE ~IsConnected(c)
    <3>1. LogSubscribers' = LogSubscribers
      BY <1>0, <1>1, <2>3
      DEF StartListeningLogs, LogSubscribers, IsConnected, TypeOK, sockVars
    <3> QED
      BY <2>1, <3>1 DEF LS!Next, LS!LateSubscribe
  <2> QED
    BY <2>2, <2>3
<1>2. ASSUME NEW c \in Client, StopListeningLogs(c)
      PROVE  [LS!Next]_(LS!vars)
  <2>1. CleanupForwarder(clients, receiveLogs')
    BY <1>2 DEF StopListeningLogs
  <2>2. LogSubscribers' \subseteq LogSubscribers
    BY <1>0, <1>2
    DEF StopListeningLogs, LogSubscribers, IsConnected, TypeOK, sockVars
  <2>3. Started' = Started \/ (~Started' /\ \A d \in clients : ~receiveLogs'[d])
    BY <1>0, <2>1, CleanupDetaches DEF Started
  <2>4. LogSubscribers' \subseteq {d \in clients : receiveLogs'[d]}
    BY <1>2 DEF StopListeningLogs, LogSubscribers, IsConnected, IInv,
                ConnectedAreListed, sockVars
  <2> QED
    BY <2>2, <2>3, <2>4, LeaveSimulates
<1>3. ASSUME NEW c \in Client, NEW l \in Level, NEW sent,
             DriverUpdateLogConfig(c, l, sent)
      PROVE  [LS!Next]_(LS!vars)
  <2>1. Started' = Started
    BY <1>0, <1>3, RestartReplaces DEF DriverUpdateLogConfig, PreserveLogTransports
  <2>2. LogSubscribers' = LogSubscribers
    BY <1>3 DEF DriverUpdateLogConfig, LogSubscribers, IsConnected, sockVars
  <2> QED
    BY <2>1, <2>2, StutterSimulates
<1>4. ASSUME CleanupClients
      PROVE  [LS!Next]_(LS!vars)
  <2>1. CleanupForwarder(clients', receiveLogs)
    BY <1>4 DEF CleanupClients
  <2>2. LogSubscribers' = LogSubscribers
    BY <1>4 DEF CleanupClients, LogSubscribers, IsConnected
  <2>3. Started' = Started \/ (~Started' /\ \A d \in clients' : ~receiveLogs[d])
    BY <1>0, <2>1, CleanupDetaches DEF Started
  <2>4. LogSubscribers \subseteq {d \in clients' : receiveLogs[d]}
    BY <1>4 DEF CleanupClients, LogSubscribers, IsConnected, IInv,
                ConnectedAreListed
  <2> QED
    BY <2>2, <2>3, <2>4, LeaveSimulates
<1>5. ASSUME Disconnect
      PROVE  [LS!Next]_(LS!vars)
  <2>1. LogSubscribers' = {}
    BY <1>0, <1>5 DEF Disconnect, LogSubscribers, IsConnected, IInv,
                ConnectedAreListed, TypeOK
  <2>2. CleanupForwarder({}, receiveLogs)
    BY <1>5 DEF Disconnect
  <2>3. ~Started'
    BY <1>0, <2>2, CleanupDetaches DEF Started
  <2> QED
    BY <2>1, <2>3, LeaveSimulates
<1>6. ASSUME NEW c \in Client,
             \/ PeerClose(c) \/ SocketClosed(c) \/ UnparsableMessage(c)
      PROVE  [LS!Next]_(LS!vars)
  <2>1. LogSubscribers' \subseteq LogSubscribers
    BY <1>0, <1>6 DEF PeerClose, SocketClosed, UnparsableMessage, Closing,
                LogSubscribers, IsConnected, TypeOK
  <2>2. Started' = Started
    BY <1>6 DEF PeerClose, SocketClosed, UnparsableMessage, Started, logVars
  <2> QED
    BY <2>1, <2>2, LeaveSimulates
<1>7. ASSUME NEW c \in Client,
             \/ AddSocket(c) \/ StartListening(c)
             \/ \E l \in Level, sent \in {None, {}} :
                   \/ ServerUpdateLogConfig(c, l, sent)
                   \/ DriverUpdateOptions(c, l, sent)
      PROVE  [LS!Next]_(LS!vars)
  <2>1. Started' = Started
    BY <1>7 DEF AddSocket, StartListening, ServerUpdateLogConfig,
                DriverUpdateOptions, Started, logVars
  <2>2. LogSubscribers' = LogSubscribers
    BY <1>0, <1>7 DEF AddSocket, StartListening, ServerUpdateLogConfig,
                DriverUpdateOptions, LogSubscribers, IsConnected, IInv, FreshUnsubscribed, TypeOK,
                sockVars
  <2> QED
    BY <2>1, <2>2, StutterSimulates
<1>8. CASE PingTick \/ UNCHANGED vars
  <2>1. Started' = Started /\ LogSubscribers' = LogSubscribers
    BY <1>8 DEF PingTick, vars, logVars, Started, LogSubscribers, IsConnected
  <2> QED
    BY <2>1, StutterSimulates
<1> QED
  BY <1>1, <1>2, <1>3, <1>4, <1>5, <1>6, <1>7, <1>8 DEF Next, Message

\* ClientsController implements LogStream: nothing it does stops the logs of a
\* connected subscriber, and nothing but a subscription starts them.
THEOREM Implementation == Spec => ImplementsLogStream
BY InitSimulates, StepSimulates, InvariantHolds, PTL
DEF Spec, ImplementsLogStream, LS!Spec

=============================================================================
