---------------------------- MODULE EventForwarder ----------------------------
(***************************************************************************)
(* The events of the driver, the controller and the nodes, as the clients  *)
(* get them (lib/forward.ts), and the picture of the network a client can  *)
(* keep from the snapshot of start_listening and the events after it.      *)
(*                                                                         *)
(* Sending is part of the callback of the event, and a WebSocket delivers  *)
(* in order, so what a client has been sent is what it will know.  A node  *)
(* is abstracted to whether it is ready and one value; an event to its     *)
(* name, and the ranges of schema versions its forms are sent to.          *)
(*                                                                         *)
(* The driver is external: a node of the controller's list is announced by *)
(* "node added" only at the end of its inclusion, and a reset replaces the *)
(* controller and the nodes, which "driver ready" announces.               *)
(***************************************************************************)
EXTENDS Naturals, FiniteSets, Functions

CONSTANTS
    Client,    \* sockets, never reused
    Node,      \* node ids
    Value,     \* values of the one value of a node
    LogConfig, \* log configurations of the driver
    Version,   \* schema versions a client may speak
    MaxResets  \* bound: resets of the controller

\* maxSchemaVersion
Latest == 50

\* What is known of a node without its value is not a value.
ASSUME EventForwarderConstants ==
    /\ \A v \in Version : v \in 0..Latest
    /\ "absent" \notin Value /\ "unready" \notin Value
    /\ MaxResets \in Nat

-----------------------------------------------------------------------------
(* The forms of the events: <<oldest, latest>> schema version of each.      *)
(* Events without a version are sent to every version.                      *)

\* Mutant: the version the event came with is left out.
FromNext(v) == {<<v + 1, Latest>>}

\* minSchemaVersion alone; no option at all.
From(v) == {<<v, Latest>>}
Always  == {<<0, Latest>>}

\* Mutant: the old form is still sent to the first version of the new one.
SplitAtTwice(v) == {<<0, v>>, <<v, Latest>>}

\* Two forms: maxSchemaVersion v - 1 and minSchemaVersion v.
SplitAt(v) == {<<0, v - 1>>, <<v, Latest>>}

DriverVariants ==
    [ e \in {"driver ready", "firmware update progress",
             "firmware update finished", "all nodes ready", "error",
             "bootloader ready", "log config updated"} |->
        CASE e = "driver ready" -> From(40)
          [] e \in {"all nodes ready", "error", "bootloader ready"} -> From(47)
          [] OTHER -> Always ]

ControllerVariants ==
    [ e \in {"node added", "node found", "inclusion state changed",
             "inclusion started", "node removed", "rebuild routes progress",
             "rebuild routes done", "status changed", "statistics updated",
             "identify", "network found", "network joined", "network left",
             "joining network failed", "leaving network failed"} |->
        CASE e = "node found"              -> From(19)
          [] e = "inclusion state changed" -> From(38)
          [] e = "inclusion started"       -> SplitAt(37)
          [] e = "node removed"            -> SplitAt(29)
          [] e \in {"rebuild routes progress", "rebuild routes done"} -> SplitAt(32)
          [] e \in {"status changed", "identify"} -> From(31)
          [] e \in {"network found", "network joined", "network left",
                    "joining network failed", "leaving network failed"} -> From(47)
          [] OTHER -> Always ]

\* A notification of any command class; Notification CC has a form before 3.
NotificationVariants == {<<3, 20>>, <<21, 31>>, <<32, Latest>>}

NodeVariants ==
    [ e \in {"ready", "alive", "interview started", "interview progress",
             "value updated", "metadata updated", "notification",
             "Notification CC notification", "node firmware update",
             "user added"} |->
        CASE e = "interview progress"   -> From(50)
          [] e = "notification"         -> NotificationVariants
          [] e = "Notification CC notification" ->
                 NotificationVariants \cup {<<0, 2>>}
          [] e = "node firmware update" -> SplitAt(24)
          [] e = "user added"           -> From(48)
          [] OTHER -> Always ]

\* Node events that are not forwarded while the node is not ready.
ReadyOnly == {"value updated", "metadata updated", "notification",
              "Notification CC notification", "node firmware update"}

\* Events that a handler sends to every client: those of a Zniffer, and those
\* of begin_joining_network.
HandlerVariants ==
    [ e \in {"zniffer ready", "zniffer frame", "zniffer corrupted frame",
             "zniffer error", "joining network show dsk",
             "joining network done"} |->
        IF e \in {"joining network show dsk", "joining network done"}
        THEN From(47) ELSE From(38) ]

Variants(e) ==
    IF e \in DOMAIN DriverVariants THEN DriverVariants[e]
    ELSE IF e \in DOMAIN HandlerVariants THEN HandlerVariants[e]
    ELSE IF e \in DOMAIN ControllerVariants THEN ControllerVariants[e]
    ELSE NodeVariants[e]

\* The events whose only effect here is to be sent.
PlainDriverEvents     == DOMAIN DriverVariants \ {"driver ready", "log config updated"}
PlainControllerEvents == DOMAIN ControllerVariants \ {"node added", "node removed"}
PlainNodeEvents       == DOMAIN NodeVariants \
                            {"ready", "interview started", "value updated"}

-----------------------------------------------------------------------------
VARIABLES
    conn,      \* Client -> "new", "connected", "listening" or "gone"
    schema,    \* Client -> Client.schemaVersion
    forwarder, \* the EventForwarder has been started
    up,        \* the controller is usable (between two resets)
    node,      \* Node -> "none", "joining" (listed, not announced), "added"
    ready,     \* Node -> the node is ready
    value,     \* Node -> its value
    bound,     \* Node -> times setupNode has bound the node
    listeners, \* times the controller has been bound
    early,     \* nodes bound by setupControllerAndNodes before "node added"
    view,      \* Client -> Node -> what the client knows of it
    stale,     \* clients whose picture is of a controller that was reset
    told,      \* clients that have been sent "driver ready" since
    excused,   \* clients that did not know "driver ready" when it was sent
    config,    \* the log configuration of the driver
    viewConfig,\* Client -> the log configuration the client knows
    untold,    \* history: clients that were listening when the configuration
               \* was changed without an event
    last,      \* the last event that was forwarded
    times,     \* how many times it was, once for each binding
    resets

vars == <<conn, schema, forwarder, up, node, ready, value, bound, listeners,
          early, view, stale, told, excused, config, viewConfig, untold,
          last, times, resets>>
clientVars == <<conn, schema, forwarder>>
driverVars == <<up, node, ready, value, resets>>
bindVars   == <<bound, listeners, early>>
staleVars  == <<stale, told, excused>>
configVars == <<config, viewConfig, untold>>
lastVars   == <<last, times>>
viewVars   == <<view, staleVars, configVars, lastVars>>

NoEvent == "no event"
Known   == Value \cup {"absent", "unready"}

TypeOK ==
    /\ conn \in [Client -> {"new", "connected", "listening", "gone"}]
    /\ schema \in [Client -> Version]
    /\ forwarder \in BOOLEAN /\ up \in BOOLEAN
    /\ node \in [Node -> {"none", "joining", "added"}]
    /\ ready \in [Node -> BOOLEAN] /\ value \in [Node -> Value]
    /\ bound \in [Node -> 0..2] /\ listeners \in 0..1 /\ early \subseteq Node
    /\ view \in [Client -> [Node -> Known]]
    /\ stale \subseteq Client /\ told \subseteq Client /\ excused \subseteq Client
    /\ config \in LogConfig /\ viewConfig \in [Client -> LogConfig]
    /\ untold \subseteq Client
    /\ times \in 0..2
    /\ resets \in 0..MaxResets

Init ==
    /\ conn = [c \in Client |-> "new"]
    /\ schema \in [Client -> Version]
    /\ forwarder = FALSE
    /\ up = TRUE
    /\ node \in [Node -> {"none", "added"}]
    /\ ready = [n \in Node |-> FALSE]
    /\ value \in [Node -> Value]
    /\ bound = [n \in Node |-> 0]
    /\ listeners = 0
    /\ early = {}
    /\ view = [c \in Client |-> [n \in Node |-> "absent"]]
    /\ stale = {} /\ told = {} /\ excused = {}
    /\ config \in LogConfig
    /\ viewConfig = [c \in Client |-> config]
    /\ untold = {}
    /\ last = NoEvent /\ times = 0
    /\ resets = 0

-----------------------------------------------------------------------------
(* Dumping and sending                                                      *)

\* dumpNode: the values of a node are part of it only when it is ready.
DumpNode(n) == IF ready[n] THEN value[n] ELSE "unready"

\* dumpState: every node of the controller's list, announced or not.
DumpState == [n \in Node |-> IF node[n] = "none" THEN "absent" ELSE DumpNode(n)]

\* The messages with event e that a client of version v is sent, each time.
Forms(e, v) == {r \in Variants(e) : r[1] <= v /\ v <= r[2]}

\* sendEventToListeningClients, by k bindings of the event.
Receives(c, e, k) == k > 0 /\ conn[c] = "listening" /\ Forms(e, schema[c]) # {}

Send(e, k) == last' = e /\ times' = k

NoSend == last' = NoEvent /\ times' = 0

\* An event with news of node n, for those who receive it.
Tell(e, k, n, news) ==
    /\ Send(e, k)
    /\ view' = [c \in Client |-> IF Receives(c, e, k)
                                 THEN [view[c] EXCEPT ![n] = news] ELSE view[c]]
    /\ UNCHANGED <<staleVars, configVars>>

\* setupControllerAndNodes
Listed(n) == node[n] # "none"

SetupControllerAndNodes ==
    /\ listeners' = listeners + 1
    /\ bound' = [n \in Node |-> IF Listed(n) THEN bound[n] + 1 ELSE bound[n]]
    /\ early' = early \cup {n \in Node : node[n] = "joining"}

\* Mutant: every client starts a forwarder.
StartEveryTime == SetupControllerAndNodes

\* The first client starts the forwarder, which binds what there is.
StartEventForwarder ==
    IF forwarder THEN UNCHANGED bindVars ELSE SetupControllerAndNodes

-----------------------------------------------------------------------------
(* Clients                                                                  *)

\* addSocket.  The forwarder, which the first client starts, is only loaded
\* once the driver is ready; the next clients come at any time.
Connect(c) ==
    /\ conn[c] = "new"
    /\ up \/ forwarder
    /\ conn' = [conn EXCEPT ![c] = "connected"]
    /\ forwarder' = TRUE
    /\ StartEventForwarder
    /\ UNCHANGED <<schema, driverVars, viewVars>>

\* start_listening, which a client may repeat to refresh its picture.
StartListening(c) ==
    /\ conn[c] \in {"connected", "listening"}
    /\ up
    /\ conn' = [conn EXCEPT ![c] = "listening"]
    /\ view' = [view EXCEPT ![c] = DumpState]
    /\ viewConfig' = [viewConfig EXCEPT ![c] = config]
    /\ stale' = stale \ {c}
    /\ told' = told \ {c}
    /\ untold' = untold \ {c}
    /\ NoSend
    /\ UNCHANGED <<schema, forwarder, excused, config, driverVars, bindVars>>

\* initialize, set_api_schema: at any time, also by a client that listens.
SetSchema(c, v) ==
    /\ conn[c] \in {"connected", "listening"}
    /\ schema[c] # v
    /\ schema' = [schema EXCEPT ![c] = v]
    /\ NoSend
    /\ UNCHANGED <<conn, forwarder, driverVars, bindVars, view, staleVars, configVars>>

\* cleanupClients: what the client knew is gone with it.
Leave(c) ==
    /\ conn[c] \in {"connected", "listening"}
    /\ conn' = [conn EXCEPT ![c] = "gone"]
    /\ view' = [view EXCEPT ![c] = [n \in Node |-> "absent"]]
    /\ stale' = stale \ {c}
    /\ told' = told \ {c}
    /\ excused' = excused \ {c}
    /\ untold' = untold \ {c}
    /\ NoSend
    /\ UNCHANGED <<schema, forwarder, driverVars, bindVars, config, viewConfig>>

-----------------------------------------------------------------------------
(* The log configuration                                                    *)

\* Mutant: the event is made before the driver is updated.
TellOldConfig(l) == config

\* dumpLogConfig, after the driver has been updated.
ToldConfig(l) == l

\* driver.update_log_config: whoever sends it, every listening client is told.
DriverUpdateLogConfig(l) ==
    /\ \E c \in Client : conn[c] \in {"connected", "listening"}
    /\ config' = l
    /\ viewConfig' = [c \in Client |-> IF Receives(c, "log config updated", 1)
                                       THEN ToldConfig(l) ELSE viewConfig[c]]
    /\ untold' = {}
    /\ Send("log config updated", 1)
    /\ UNCHANGED <<clientVars, driverVars, bindVars, view, staleVars>>

\* The driver's log configuration changes and no event is sent: the clients
\* that listen do not learn of it.
ChangeUntold(l) ==
    /\ config' = l
    /\ untold' = IF l = config THEN untold
                 ELSE untold \cup {c \in Client : conn[c] = "listening"}
    /\ NoSend
    /\ UNCHANGED <<clientVars, driverVars, bindVars, view, staleVars, viewConfig>>

\* update_log_config, the older command of the server.
ServerUpdateLogConfig(l) ==
    /\ \E c \in Client : conn[c] \in {"connected", "listening"}
    /\ ChangeUntold(l)

\* driver.update_options, whose options may hold a log configuration.
DriverUpdateOptions(l) ==
    /\ \E c \in Client : conn[c] \in {"connected", "listening"}
    /\ ChangeUntold(l)

-----------------------------------------------------------------------------
(* Nodes                                                                    *)

\* The controller lists a node whose inclusion is not over: no event yet.
NodeJoins(n) ==
    /\ up
    /\ node[n] = "none"
    /\ node' = [node EXCEPT ![n] = "joining"]
    /\ ready' = [ready EXCEPT ![n] = FALSE]
    /\ UNCHANGED <<clientVars, up, value, resets, bindVars, viewVars>>

\* Mutant: setupNode is not called.
BindNothing(n) == UNCHANGED <<bound, listeners, early>>

\* setupNode, by each binding of "node added".
SetupNode(n) ==
    /\ bound' = [bound EXCEPT ![n] = @ + listeners]
    /\ UNCHANGED <<listeners, early>>

\* "node added": forwarded, then the node is bound.
NodeAdded(n) ==
    /\ up
    /\ node[n] = "joining"
    /\ node' = [node EXCEPT ![n] = "added"]
    /\ Tell("node added", listeners, n, DumpNode(n))
    /\ SetupNode(n)
    /\ UNCHANGED <<clientVars, up, ready, value, resets>>

NodeRemoved(n) ==
    /\ up
    /\ node[n] = "added"
    /\ node' = [node EXCEPT ![n] = "none"]
    /\ ready' = [ready EXCEPT ![n] = FALSE]
    /\ Tell("node removed", listeners, n, "absent")
    /\ bound' = [bound EXCEPT ![n] = 0]
    /\ early' = early \ {n}
    /\ UNCHANGED <<clientVars, up, value, resets, listeners>>

\* "ready": the event carries the whole node.
NodeReady(n) ==
    /\ up
    /\ node[n] = "added" /\ ~ready[n]
    /\ ready' = [ready EXCEPT ![n] = TRUE]
    /\ Tell("ready", bound[n], n, value[n])
    /\ UNCHANGED <<clientVars, up, node, value, resets, bindVars>>

\* The node is interviewed again; its values are not forwarded meanwhile.
InterviewStarted(n) ==
    /\ up
    /\ node[n] = "added" /\ ready[n]
    /\ ready' = [ready EXCEPT ![n] = FALSE]
    /\ Send("interview started", bound[n])
    /\ UNCHANGED <<clientVars, up, node, value, resets, bindVars, view, staleVars, configVars>>

\* Mutant: the test for a ready node is negated.
ForwardsUnready(n) == ~ready[n]

ForwardsValues(n) == ready[n]

\* "value updated", and the other value events alike.
ValueUpdated(n, v) ==
    /\ up
    /\ Listed(n) /\ value[n] # v
    /\ value' = [value EXCEPT ![n] = v]
    /\ IF ForwardsValues(n)
       THEN Tell("value updated", bound[n], n, v)
       ELSE UNCHANGED viewVars
    /\ UNCHANGED <<clientVars, up, node, ready, resets, bindVars>>

\* Every other event, of a node, the controller or the driver.
PlainEvent ==
    /\ up
    /\ \/ \E n \in Node, e \in PlainNodeEvents :
             /\ Listed(n)
             /\ e \in ReadyOnly => ready[n]
             /\ Send(e, bound[n])
       \/ \E e \in PlainControllerEvents : Send(e, listeners)
       \/ \E e \in PlainDriverEvents : Send(e, IF forwarder THEN 1 ELSE 0)
       \/ /\ \E c \in Client : conn[c] \in {"connected", "listening"}
          /\ \E e \in DOMAIN HandlerVariants : Send(e, 1)
    /\ UNCHANGED <<clientVars, driverVars, bindVars, view, staleVars, configVars>>

-----------------------------------------------------------------------------
(* Resets                                                                   *)

\* The controller and the nodes are replaced: new objects, nothing bound.
Reset ==
    /\ up /\ resets < MaxResets
    /\ resets' = resets + 1
    /\ up' = FALSE
    /\ node' \in [Node -> {"none", "added"}]
    /\ value' \in [Node -> Value]
    /\ ready' = [n \in Node |-> FALSE]
    /\ bound' = [n \in Node |-> 0]
    /\ listeners' = 0
    /\ early' = {}
    /\ stale' = {c \in Client : conn[c] = "listening"}
    /\ told' = {} /\ excused' = {}
    /\ NoSend
    /\ UNCHANGED <<clientVars, view, configVars>>

\* "driver ready": the new objects are bound, then the clients are told.
DriverReady ==
    /\ ~up
    /\ up' = TRUE
    /\ IF forwarder THEN SetupControllerAndNodes ELSE UNCHANGED bindVars
    /\ LET k == IF forwarder THEN 1 ELSE 0
       IN  /\ Send("driver ready", k)
           /\ told' = told \cup {c \in Client : Receives(c, "driver ready", k)}
    /\ excused' = {c \in stale : schema[c] < 40}
    /\ UNCHANGED <<clientVars, node, ready, value, resets, view, stale, configVars>>

Next ==
    \/ \E c \in Client :
          \/ Connect(c) \/ StartListening(c) \/ Leave(c)
          \/ \E v \in Version : SetSchema(c, v)
    \/ \E l \in LogConfig :
          \/ DriverUpdateLogConfig(l)
          \/ ServerUpdateLogConfig(l)
          \/ DriverUpdateOptions(l)
    \/ \E n \in Node :
          \/ NodeJoins(n) \/ NodeAdded(n) \/ NodeRemoved(n)
          \/ NodeReady(n) \/ InterviewStarted(n)
          \/ \E v \in Value : ValueUpdated(n, v)
    \/ PlainEvent
    \/ Reset
    \/ DriverReady

Spec == Init /\ [][Next]_vars

-----------------------------------------------------------------------------
(* Properties                                                               *)

Listening(c) == conn[c] = "listening"

\* What a listening client makes of the snapshot and the events is the state
\* of the driver: it knows exactly the nodes there are, and the current value
\* of every node that is ready.  (A node that joins is in the picture or not;
\* while the controller is being replaced, until the client listens again,
\* the picture is of the old one.)
PictureIsCurrent ==
    \A c \in Client : Listening(c) /\ c \notin stale =>
        \A n \in Node :
            /\ node[n] = "none" => view[c][n] = "absent"
            /\ node[n] = "added" => view[c][n] # "absent"
            /\ ready[n] => view[c][n] = value[n]

\* A listening client knows the log configuration, whoever changed it and
\* whenever the client listened.  The exception are the two commands that
\* change it without an event, update_log_config and driver.update_options: who
\* was listening then knows it again from the next driver.update_log_config, of
\* any client, or start_listening of its own.
LogConfigIsCurrent ==
    \A c \in Client : Listening(c) /\ c \notin untold => viewConfig[c] = config

\* Once the controller has been replaced, every client that knew the event
\* when it was sent has been told to refresh its picture, whatever version it
\* speaks by now.
StaleClientsAreTold ==
    \A c \in stale \ excused : up /\ Listening(c) => c \in told

\* The events of a node are bound once it is announced, and once only, except
\* for a node that was joining when the first client came.
BoundOnce ==
    forwarder /\ up =>
        /\ listeners = 1
        /\ \A n \in Node : node[n] = "added" =>
               bound[n] = IF n \in early THEN 2 ELSE 1

Events == DOMAIN DriverVariants \cup DOMAIN ControllerVariants
              \cup DOMAIN NodeVariants \cup DOMAIN HandlerVariants

\* Events of which a client of any version gets one form, or none if it is
\* older than all of them: the ranges neither overlap nor leave a gap.
OneFormEvents ==
    {e \in Events : \A v \in 0..Latest :
        /\ Cardinality(Forms(e, v)) <= 1
        /\ Forms(e, v) = {} => \A r \in Variants(e) : v < r[1]}

\* A listening client of any version gets an event once, in one form: it is
\* forwarded by one binding, unless the node was bound twice or not yet, and
\* its forms share the versions out.
OneFormForEveryVersion ==
    (\E c \in Client : Listening(c)) /\ last # NoEvent /\ early = {} =>
        /\ last \in OneFormEvents
        /\ times <= 1
        /\ times = 0 => \E n \in Node : node[n] = "joining"

-----------------------------------------------------------------------------
(* The inductive invariant                                                  *)

InUse(c) == conn[c] \in {"connected", "listening"}

\* How often the events of a node are bound while there is a forwarder and a
\* controller: once it is announced, and once more if it was found joining.
Bindings(n) == (IF n \in early THEN 1 ELSE 0) + (IF node[n] = "added" THEN 1 ELSE 0)

\* Nothing is bound before the first client, nor between a reset and
\* "driver ready"; at any other time everything the controller has is.
BindingsOK ==
    /\ \A c \in Client : InUse(c) => forwarder
    /\ forwarder /\ up => /\ listeners = 1
                          /\ \A n \in Node : bound[n] = Bindings(n)
    /\ ~(forwarder /\ up) => /\ listeners = 0 /\ early = {}
                             /\ \A n \in Node : bound[n] = 0
    /\ \A n \in early : node[n] # "none"
    /\ \A n \in Node : ready[n] => node[n] = "added"
    /\ ~up => \A n \in Node : node[n] # "joining"

\* Until "driver ready", every listening client has an old picture.
ResetsOK ==
    /\ \A c \in stale : Listening(c)
    /\ ~up => \A c \in Client : Listening(c) => c \in stale

\* The last event is one of the tables'.  It went out twice only by a node
\* bound early, which has not gone since, and to a listening client not at all
\* only if the node was joining, which one of them still is.
ForwardingOK ==
    /\ last \in Events \cup {NoEvent}
    /\ times = 2 => early # {}
    /\ last # NoEvent /\ times = 0 /\ (\E c \in Client : Listening(c)) =>
           \E n \in Node : node[n] = "joining"

\* What the pictures of the clients rest on, inductive by itself.
PictureInv ==
    /\ TypeOK /\ BindingsOK /\ ResetsOK
    /\ PictureIsCurrent /\ LogConfigIsCurrent /\ StaleClientsAreTold

\* The inductive invariant: every property above is part of it or follows.
IInv == PictureInv /\ ForwardingOK

=============================================================================
