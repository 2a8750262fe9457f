-------------------------- MODULE ClientsController --------------------------
(***************************************************************************)
(* The set of connected clients of a zwave-js-server, their subscriptions  *)
(* to events and to logs, and the log forwarder they share                 *)
(* (lib/server.ts: Client, ClientsController; lib/logging.ts).             *)
(*                                                                         *)
(* JavaScript runs one callback at a time, so an action is one callback: a *)
(* socket event, a message handler (the ones modelled here never await), a *)
(* timer.  What interleaves is the order of the callbacks: a socket stops  *)
(* being OPEN some time before its 'close' event, that event some time     *)
(* before the deferred cleanup it schedules, and messages still arrive on  *)
(* a socket the server has begun to close.                                 *)
(*                                                                         *)
(* A Client is one socket and is never reused: a peer that reconnects is   *)
(* another Client.                                                         *)
(***************************************************************************)
EXTENDS Naturals, FiniteSets

CONSTANTS
    Client,            \* the sockets the server may accept
    Transport,         \* identities of the WebSocketLogTransports it creates
    ForeignTransport,  \* log transports of the application, not the server's
    Filter,            \* log filters of start_listening_logs
    NoFilter,          \* ... and its absence
    Level,             \* log levels
    None               \* the JavaScript value undefined

ASSUME DistinctTransports ==
    /\ Transport \cap ForeignTransport = {}
    /\ None \notin Transport
    /\ Level # {}

VARIABLES
    sock,              \* Client -> readyState of its socket (see SockState)
    clients,           \* ClientsController.clients
    receiveEvents,     \* Client -> Client.receiveEvents
    receiveLogs,       \* Client -> Client.receiveLogs
    cleanupScheduled,  \* ClientsController.cleanupScheduled
    pingInterval,      \* ClientsController.pingInterval is set
    eventForwarder,    \* ClientsController.eventForwarder is set (and started)
    serverTransport,   \* LoggingEventForwarder.serverTransport
    attrs,             \* Transport -> its level and filter
    transports,        \* the transports of the driver's log configuration
    level,             \* the level of the driver's log configuration
    destroyed,         \* ZwavejsServer.destroy has begun
    asked,             \* Client -> filter of its last start_listening_logs
    detached           \* history: driver.update_options has taken the running
                       \* forwarder's transport off the driver

sockVars == <<sock, clients, cleanupScheduled, pingInterval, destroyed>>
logVars  == <<serverTransport, attrs, transports, level, detached>>
vars == <<sock, clients, receiveEvents, receiveLogs, cleanupScheduled,
          pingInterval, eventForwarder, serverTransport, attrs, transports,
          level, destroyed, asked, detached>>

(***************************************************************************)
(* The life of a socket.  "closing": the server has called close() and     *)
(* waits for the peer's close frame, messages still come in.  "ending":    *)
(* the peer's close frame or end of stream has been seen, none come in any *)
(* more.  "closed": the 'close' event has been emitted.                    *)
(***************************************************************************)
SockState == {"none", "open", "closing", "ending", "closed"}

IsConnected(c) == sock[c] = "open"
CanReceive(c)  == sock[c] \in {"open", "closing"}
Closing(c)     == sock[c] \in {"closing", "ending"}

AnyFilter == Filter \cup {NoFilter}

TypeOK ==
    /\ sock \in [Client -> SockState]
    /\ clients \subseteq Client
    /\ receiveEvents \in [Client -> BOOLEAN]
    /\ receiveLogs \in [Client -> BOOLEAN]
    /\ cleanupScheduled \in BOOLEAN
    /\ pingInterval \in BOOLEAN
    /\ eventForwarder \in BOOLEAN
    /\ serverTransport \in Transport \cup {None}
    /\ attrs \in [Transport -> [level : Level, filter : AnyFilter]]
    /\ transports \subseteq Transport \cup ForeignTransport
    /\ level \in Level
    /\ destroyed \in BOOLEAN
    /\ asked \in [Client -> AnyFilter]
    /\ detached \in BOOLEAN

Init ==
    /\ sock = [c \in Client |-> "none"]
    /\ clients = {}
    /\ receiveEvents = [c \in Client |-> FALSE]
    /\ receiveLogs = [c \in Client |-> FALSE]
    /\ cleanupScheduled = FALSE
    /\ pingInterval = FALSE
    /\ eventForwarder = FALSE
    /\ serverTransport = None
    /\ level \in Level
    /\ attrs = [t \in Transport |-> [level |-> level, filter |-> NoFilter]]
    /\ transports = ForeignTransport
    /\ destroyed = FALSE
    /\ asked = [c \in Client |-> NoFilter]
    /\ detached = FALSE

-----------------------------------------------------------------------------
(* The log forwarder (lib/logging.ts)                                       *)

Started == serverTransport # None

\* start(filter): a new transport at the level l of the driver, pushed on a
\* copy of the transports ts the driver has.
StartForwarder(filter, ts, l) ==
    \E t \in Transport \ transports :
        /\ serverTransport' = t
        /\ attrs' = [attrs EXCEPT ![t] = [level |-> l, filter |-> filter]]
        /\ transports' = ts \cup {t}
        /\ detached' = FALSE

\* Mutant: the transport is forgotten but stays attached.
StopWithoutDetach ==
    /\ serverTransport' = None
    /\ detached' = FALSE
    /\ UNCHANGED <<attrs, transports>>

\* stop(): this server's transport, and no other, leaves the driver's.
StopForwarder ==
    /\ transports' = transports \ {serverTransport}
    /\ serverTransport' = None
    /\ detached' = FALSE
    /\ UNCHANGED attrs

ForwarderUnchanged == UNCHANGED <<serverTransport, attrs, transports, detached>>

\* restartIfNeeded(), when the driver's transports and level have become ts
\* and l: the new transport is started without a filter.
RestartIfNeeded(ts, l) ==
    IF Started /\ attrs[serverTransport].level # l
    THEN StartForwarder(NoFilter, ts \ {serverTransport}, l)
    ELSE transports' = ts /\ UNCHANGED <<serverTransport, attrs, detached>>

\* The driver's own update (external): the transports of a log configuration
\* that names some replace the ones it has.  driver.update_options hands it
\* the client's; a command that forgets preserveLogTransports would too.
TakeSentTransports(sent) == IF sent = None THEN transports ELSE sent

\* preserveLogTransports, then the driver's update: the transports a client
\* sends (None: it sends none) are replaced by the ones the driver has.
PreserveLogTransports(sent) == transports

\* configureLoggingEventForwarder: only a stopped forwarder takes the filter.
ConfigureForwarder(filter) ==
    IF Started THEN ForwarderUnchanged
    ELSE StartForwarder(filter, transports, level)

\* Mutant: the other subscribers are not looked at.
CleanupRegardless(cs, logs) ==
    IF Started THEN StopForwarder ELSE ForwarderUnchanged

\* Mutant: the forwarder is stopped with the last client, not with the last
\* subscriber.
CleanupWhenAlone(cs, logs) ==
    IF Started /\ cs = {} THEN StopForwarder ELSE ForwarderUnchanged

\* cleanupLoggingEventForwarder, with the list of clients cs and the
\* subscriptions logs.
CleanupForwarder(cs, logs) ==
    IF Started /\ \A c \in cs : ~logs[c]
    THEN StopForwarder
    ELSE ForwarderUnchanged

-----------------------------------------------------------------------------
(* Sockets, timers and the end of the server                                *)

\* addSocket.  The list, the keep-alive timer and the event forwarder are set
\* up by the first client and shared by the next ones.
AddSocket(c) ==
    /\ ~destroyed
    /\ sock[c] = "none"
    /\ sock' = [sock EXCEPT ![c] = "open"]
    /\ clients' = clients \cup {c}
    /\ pingInterval' = TRUE
    /\ eventForwarder' = TRUE
    /\ UNCHANGED <<receiveEvents, receiveLogs, cleanupScheduled, destroyed,
                   asked, logVars>>

\* The peer closes, or answers the server's close; the library stops reading.
PeerClose(c) ==
    /\ CanReceive(c)
    /\ sock' = [sock EXCEPT ![c] = "ending"]
    /\ UNCHANGED <<clients, receiveEvents, receiveLogs, cleanupScheduled,
                   pingInterval, eventForwarder, destroyed, asked, logVars>>

\* Mutant: the 'close' event schedules nothing.
ScheduleNothing == UNCHANGED cleanupScheduled

\* scheduleClientCleanup: at most one zero timeout is pending.
ScheduleClientCleanup == cleanupScheduled' = TRUE

\* Mutant: the filter inverted.
DisconnectedClients == {c \in clients : ~IsConnected(c)}

\* The clients both cleanups keep.
ConnectedClients == {c \in clients : IsConnected(c)}

\* The 'close' event of a socket: scheduleClientCleanup.
SocketClosed(c) ==
    /\ Closing(c)
    /\ sock' = [sock EXCEPT ![c] = "closed"]
    /\ ScheduleClientCleanup
    /\ UNCHANGED <<clients, receiveEvents, receiveLogs, pingInterval,
                   eventForwarder, destroyed, asked, logVars>>

\* cleanupClients, the zero timeout scheduleClientCleanup sets.
CleanupClients ==
    /\ cleanupScheduled
    /\ cleanupScheduled' = FALSE
    /\ clients' = ConnectedClients
    /\ CleanupForwarder(clients', receiveLogs)
    /\ UNCHANGED <<sock, receiveEvents, receiveLogs, pingInterval,
                   eventForwarder, level, destroyed, asked>>

\* The callback of pingInterval: forgets the clients that are not connected,
\* and closes them again, which changes nothing on a socket that is closing.
PingTick ==
    /\ pingInterval
    /\ clients' = ConnectedClients
    /\ UNCHANGED <<sock, receiveEvents, receiveLogs, cleanupScheduled,
                   pingInterval, eventForwarder, destroyed, asked, logVars>>

\* ClientsController.disconnect, the first step of ZwavejsServer.destroy.
Disconnect ==
    /\ ~destroyed
    /\ destroyed' = TRUE
    /\ pingInterval' = FALSE
    /\ sock' = [c \in Client |-> IF c \in clients /\ IsConnected(c)
                                 THEN "closing" ELSE sock[c]]
    /\ clients' = {}
    /\ CleanupForwarder({}, receiveLogs)
    /\ UNCHANGED <<receiveEvents, receiveLogs, cleanupScheduled,
                   eventForwarder, level, asked>>

-----------------------------------------------------------------------------
(* Messages                                                                 *)

\* Data that is not JSON: the server closes the socket.
UnparsableMessage(c) ==
    /\ CanReceive(c)
    /\ sock' = [sock EXCEPT ![c] = "closing"]
    /\ UNCHANGED <<clients, receiveEvents, receiveLogs, cleanupScheduled,
                   pingInterval, eventForwarder, destroyed, asked, logVars>>

\* start_listening.  The snapshot is dumped and sent in the same callback.
StartListening(c) ==
    /\ CanReceive(c)
    /\ receiveEvents' = [receiveEvents EXCEPT ![c] = TRUE]
    /\ UNCHANGED <<sockVars, receiveLogs, eventForwarder, asked, logVars>>

\* start_listening_logs and driver.start_listening_logs.
StartListeningLogs(c, filter) ==
    /\ CanReceive(c)
    /\ receiveLogs' = [receiveLogs EXCEPT ![c] = TRUE]
    /\ asked' = [asked EXCEPT ![c] = filter]
    /\ ConfigureForwarder(filter)
    /\ UNCHANGED <<sockVars, receiveEvents, eventForwarder, level>>

\* stop_listening_logs and driver.stop_listening_logs.
StopListeningLogs(c) ==
    /\ CanReceive(c)
    /\ receiveLogs' = [receiveLogs EXCEPT ![c] = FALSE]
    /\ CleanupForwarder(clients, receiveLogs')
    /\ UNCHANGED <<sockVars, receiveEvents, eventForwarder, level, asked>>

\* update_log_config, the command of the server itself.
ServerUpdateLogConfig(c, l, sent) ==
    /\ CanReceive(c)
    /\ level' = l
    /\ transports' = PreserveLogTransports(sent)
    /\ UNCHANGED <<sockVars, receiveEvents, receiveLogs, eventForwarder,
                   serverTransport, attrs, asked, detached>>

\* driver.update_log_config: the same, then the forwarder is restarted when
\* its level is not the driver's any more.
DriverUpdateLogConfig(c, l, sent) ==
    /\ CanReceive(c)
    /\ level' = l
    /\ RestartIfNeeded(PreserveLogTransports(sent), l)
    /\ UNCHANGED <<sockVars, receiveEvents, receiveLogs, eventForwarder, asked>>

\* driver.update_options, whose options may hold a log configuration: it goes
\* to the driver as it is, without preserveLogTransports and without
\* restartIfNeeded.
DriverUpdateOptions(c, l, sent) ==
    /\ CanReceive(c)
    /\ level' = l
    /\ transports' = TakeSentTransports(sent)
    /\ detached' = (detached \/ (Started /\ sent # None))
    /\ UNCHANGED <<sockVars, receiveEvents, receiveLogs, eventForwarder,
                   serverTransport, attrs, asked>>

Message(c) ==
    \/ UnparsableMessage(c)
    \/ StartListening(c)
    \/ \E f \in AnyFilter : StartListeningLogs(c, f)
    \/ StopListeningLogs(c)
    \/ \E l \in Level, sent \in {None, {}} :
          \/ ServerUpdateLogConfig(c, l, sent)
          \/ DriverUpdateLogConfig(c, l, sent)
          \/ DriverUpdateOptions(c, l, sent)

Next ==
    \/ \E c \in Client :
          AddSocket(c) \/ PeerClose(c) \/ SocketClosed(c) \/ Message(c)
    \/ CleanupClients
    \/ PingTick
    \/ Disconnect

\* The library closes every socket it has begun to close (a timer destroys the
\* ones whose peer does not answer), and a zero timeout fires.
Fairness ==
    /\ \A c \in Client : WF_vars(SocketClosed(c))
    /\ WF_vars(CleanupClients)

Spec == Init /\ [][Next]_vars

FairSpec == Spec /\ Fairness

-----------------------------------------------------------------------------
(* What the component promises                                              *)

\* Who a log entry is forwarded to (WebSocketLogTransport.log), provided it
\* passes the filter of an attached transport.
LogRecipients == {c \in clients : receiveLogs[c] /\ IsConnected(c)}

\* Who a broadcast event is sent to (sendEventToListeningClients), schema
\* versions apart.
EventRecipients == {c \in clients : receiveEvents[c] /\ IsConnected(c)}

LogSubscribers   == {c \in Client : IsConnected(c) /\ receiveLogs[c]}
EventSubscribers == {c \in Client : IsConnected(c) /\ receiveEvents[c]}

\* A connected client that has subscribed to logs is reached by them: it is in
\* the list the transport reads and the forwarder's transport is attached to
\* the driver, whatever the other clients, the two cleanups and the restarts
\* of the forwarder did meanwhile.  One thing undoes it, until the forwarder
\* is started again: a driver.update_options whose log configuration names
\* transports, while the forwarder runs.
LogSubscribersServed ==
    LogSubscribers # {} =>
        /\ LogSubscribers \subseteq LogRecipients
        /\ Started
        /\ serverTransport \in transports \/ detached

\* A connected client that has subscribed to events is in the list broadcasts
\* go through, and the driver's events are being forwarded to that list.
EventSubscribersServed ==
    EventSubscribers # {} =>
        /\ EventSubscribers \subseteq EventRecipients
        /\ eventForwarder

\* The driver has the transport of the forwarder and no other transport of the
\* server: a restart leaves none behind, log entries are never sent twice.
\* (It has none once driver.update_options has detached that one.)
OwnTransportOnly ==
    transports \cap Transport =
        IF detached THEN {} ELSE {serverTransport} \ {None}

\* The forwarder runs without a connected subscriber only as long as some
\* callback that will reconsider it is still to come: the 'close' event of a
\* subscriber that is going away, or a cleanup.
IdleForwarderIsTransient ==
    Started => \/ LogSubscribers # {}
               \/ \E c \in Client : Closing(c) /\ receiveLogs[c]
               \/ cleanupScheduled

\* A socket whose 'close' event has been emitted stays in the list only until
\* the cleanup that event scheduled: no further event will remove it.
ClosedClientsAwaitCleanup ==
    (\E c \in clients : sock[c] = "closed") => cleanupScheduled

\* What makes the above inductive: connected sockets are listed, listed ones
\* were accepted, an accepted socket starts without subscriptions, whoever is
\* listed with a log subscription finds the forwarder started, and the event
\* forwarder outlives the first client.
ConnectedAreListed   == \A c \in Client : IsConnected(c) => c \in clients
ListedWereAccepted   == \A c \in clients : sock[c] # "none"
FreshUnsubscribed    == \A c \in Client : sock[c] = "none" =>
                            ~receiveLogs[c] /\ ~receiveEvents[c]
ListedLogsStarted    == \A c \in clients : receiveLogs[c] => Started
ListedEventForwarder == clients # {} => eventForwarder

IInv ==
    /\ TypeOK
    /\ ConnectedAreListed
    /\ ListedWereAccepted
    /\ FreshUnsubscribed
    /\ ListedLogsStarted
    /\ ListedEventForwarder
    /\ OwnTransportOnly
    /\ ClosedClientsAwaitCleanup
    /\ IdleForwarderIsTransient

\* Neither the start, stop and restart of the forwarder nor a client's
\* update_log_config, whatever transports it sends, removes a log transport
\* the application has given the driver.  The only step that does is a
\* driver.update_options whose log configuration names transports.
ForeignTransportsKept ==
    [][\/ transports \cap ForeignTransport \subseteq transports'
       \/ \E c \in Client, l \in Level : DriverUpdateOptions(c, l, {})]_vars

\* A closed socket does not stay in the list of clients.
ClosedClientsForgotten ==
    \A c \in Client : sock[c] = "closed" ~> c \notin clients

\* Every log entry a client receives passes the filter it asked for.
OnlyMatchingLogs ==
    \A c \in LogRecipients :
        Started /\ asked[c] # NoFilter =>
            attrs[serverTransport].filter = asked[c]

\* The transport picks up the driver's new log configuration.
ForwarderFollowsLevel ==
    Started => attrs[serverTransport].level = level

-----------------------------------------------------------------------------
(* The abstract view: a stream of log entries and its subscribers           *)

LS == INSTANCE LogStream WITH
          subscribers <- LogSubscribers,
          streaming   <- Started

\* The controller implements a shared log stream: every callback is a step of
\* LogStream or leaves it alone, so that no callback stops the forwarder under
\* a connected subscriber, not even in the step that removes another one.
\* (Whether the forwarder's transport is still on the driver is a question of
\* its own: LogSubscribersServed.)
ImplementsLogStream == LS!Spec

\* ... and the stream is switched off once nobody listens and nobody
\* subscribes again, even when the last subscriber just disappeared.
ImplementsFairLogStream == LS!FairSpec

=============================================================================
