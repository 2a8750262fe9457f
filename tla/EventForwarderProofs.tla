------------------------- MODULE EventForwarderProofs -------------------------
(***************************************************************************)
(* The picture of the network a listening client keeps is the state of the *)
(* driver, for any number of clients and nodes, any values and any schema  *)
(* versions, across inclusions, interviews and resets.                     *)
(***************************************************************************)
EXTENDS EventForwarder, FiniteSetTheorems, TLAPS

-----------------------------------------------------------------------------
(* The forms of the events                                                  *)

LEMMA InRange ==
    ASSUME NEW e, NEW v \in Nat, NEW a \in Nat, NEW b \in Nat,
           <<a, b>> \in Variants(e), a <= v, v <= b
    PROVE  Forms(e, v) # {}
<1>1. <<a, b>> \in Forms(e, v)
  BY DEF Forms
<1> QED
  BY <1>1

\* The events a picture is made of have a form for every version.
LEMMA PictureEvents ==
    ASSUME NEW v \in 0..Latest
    PROVE  /\ Forms("node added", v) # {} /\ Forms("node removed", v) # {}
           /\ Forms("ready", v) # {} /\ Forms("value updated", v) # {}
           /\ Forms("log config updated", v) # {}
<1>1. /\ <<0, Latest>> \in Variants("node added")
      /\ <<0, Latest>> \in Variants("ready")
      /\ <<0, Latest>> \in Variants("value updated")
      /\ <<0, Latest>> \in Variants("log config updated")
  BY DEF Variants, DriverVariants, ControllerVariants, NodeVariants,
         HandlerVariants, Always
<1>2. <<0, 28>> \in Variants("node removed") /\ <<29, Latest>> \in Variants("node removed")
  BY DEF Variants, DriverVariants, ControllerVariants, NodeVariants,
         HandlerVariants, SplitAt
<1>3. 0 <= v /\ v <= Latest /\ (v <= 28 \/ 29 <= v)
  BY DEF Latest
<1> QED
  <2>1. /\ Latest \in Nat /\ 0 \in Nat /\ 28 \in Nat /\ 29 \in Nat /\ v \in Nat
    BY DEF Latest
  <2> HIDE DEF Latest
  <2>2. Forms("node removed", v) # {}
    BY <1>2, <1>3, <2>1, InRange
  <2>3. /\ Forms("node added", v) # {} /\ Forms("ready", v) # {}
        /\ Forms("value updated", v) # {} /\ Forms("log config updated", v) # {}
    BY <1>1, <1>3, <2>1, InRange
  <2> QED
    BY <2>2, <2>3

\* "driver ready" has one for those who know it.
LEMMA DriverReadyEvent ==
    ASSUME NEW v \in 0..Latest, v >= 40
    PROVE  Forms("driver ready", v) # {}
<1>1. <<40, Latest>> \in Variants("driver ready")
  BY DEF Variants, DriverVariants, ControllerVariants, NodeVariants,
         HandlerVariants, From
<1>2. 40 \in Nat /\ Latest \in Nat /\ v \in Nat /\ 40 <= v /\ v <= Latest
  BY DEF Latest
<1> QED
  BY <1>1, <1>2, InRange

\* A listening client receives an event of the picture that is bound.
LEMMA Received ==
    ASSUME TypeOK, NEW c \in Client, Listening(c), NEW k \in Nat, k > 0,
           NEW e \in {"node added", "node removed", "ready", "value updated",
                      "log config updated"}
    PROVE  Receives(c, e, k)
<1>1. schema[c] \in 0..Latest
  BY EventForwarderConstants DEF TypeOK
<1> QED
  BY <1>1, PictureEvents DEF Receives, Listening

\* Nobody who does not listen receives anything.
LEMMA ReceiversListen ==
    ASSUME NEW c \in Client, NEW e, NEW k, Receives(c, e, k) PROVE Listening(c)
BY DEF Receives, Listening

-----------------------------------------------------------------------------
(* How the tables of events share the versions out                          *)

\* Version v is in the range r.
Covers(r, v) == r[1] <= v /\ v <= r[2]

\* The ranges R share the versions out: no version is in two of them, and one
\* that is in none is older than all of them.
ShareOut(R) ==
    \A v \in 0..Latest :
        /\ \A r, s \in R : Covers(r, v) /\ Covers(s, v) => r = s
        /\ (\A r \in R : ~Covers(r, v)) => \A r \in R : v < r[1]

\* Such ranges give one form at most.
LEMMA SharedOutIsOneForm ==
    ASSUME NEW e \in Events, ShareOut(Variants(e)) PROVE e \in OneFormEvents
<1> SUFFICES ASSUME NEW v \in 0..Latest
             PROVE  /\ Cardinality(Forms(e, v)) <= 1
                    /\ Forms(e, v) = {} => \A r \in Variants(e) : v < r[1]
  BY DEF OneFormEvents
<1>1. Forms(e, v) = {r \in Variants(e) : Covers(r, v)}
  BY DEF Forms, Covers
<1>2. \A r, s \in Forms(e, v) : r = s
  BY <1>1 DEF ShareOut
<1>3. Cardinality(Forms(e, v)) <= 1
  <2>1. CASE Forms(e, v) = {}
    BY <2>1, FS_EmptySet
  <2>2. CASE Forms(e, v) # {}
    <3>1. PICK r : Forms(e, v) = {r}
      BY <1>2, <2>2
    <3>2. Cardinality(Forms(e, v)) = 1
      BY <3>1, FS_Singleton
    <3> QED
      BY <3>2
  <2> QED
    BY <2>1, <2>2
<1>4. Forms(e, v) = {} => \A r \in Variants(e) : v < r[1]
  BY <1>1 DEF ShareOut
<1> QED
  BY <1>3, <1>4

\* Each way the code gives an event its forms shares the versions out.
LEMMA WaysShareOut ==
    /\ ShareOut(Always)
    /\ \A v \in 0..Latest : ShareOut(From(v))
    /\ \A v \in 1..Latest : ShareOut(SplitAt(v))
    /\ ShareOut(NotificationVariants)
    /\ ShareOut(NotificationVariants \cup {<<0, 2>>})
<1>1. ShareOut(Always) /\ \A v \in 0..Latest : ShareOut(From(v))
  BY DEF ShareOut, Covers, Always, From, Latest
<1>2. \A v \in 1..Latest : ShareOut(SplitAt(v))
  <2> SUFFICES ASSUME NEW v \in 1..Latest PROVE ShareOut(SplitAt(v))
    OBVIOUS
  <2> QED
  BY DEF ShareOut, Covers, SplitAt, Latest
<1>3. ShareOut(NotificationVariants)
  BY DEF ShareOut, Covers, NotificationVariants, Latest
<1>4. ShareOut(NotificationVariants \cup {<<0, 2>>})
  BY DEF ShareOut, Covers, NotificationVariants, Latest
<1> QED
  BY <1>1, <1>2, <1>3, <1>4

\* Every event is sent in one of these ways.
LEMMA EventsShareOut == \A e \in Events : ShareOut(Variants(e))
<1>0. \A v \in {19, 31, 38, 40, 47, 48, 50} : ShareOut(From(v))
  BY WaysShareOut DEF Latest
<1>5. \A v \in {24, 29, 32, 37} : ShareOut(SplitAt(v))
  BY WaysShareOut DEF Latest
<1> HIDE DEF From, Always, SplitAt, NotificationVariants, ShareOut
<1>1. \A e \in DOMAIN DriverVariants : ShareOut(DriverVariants[e])
  BY <1>0, WaysShareOut, Zenon DEF DriverVariants
<1>2. \A e \in DOMAIN ControllerVariants : ShareOut(ControllerVariants[e])
  BY <1>0, <1>5, WaysShareOut, Zenon DEF ControllerVariants
<1>3. \A e \in DOMAIN NodeVariants : ShareOut(NodeVariants[e])
  BY <1>0, <1>5, WaysShareOut, Zenon DEF NodeVariants
<1>4. \A e \in DOMAIN HandlerVariants : ShareOut(HandlerVariants[e])
  BY <1>0, WaysShareOut, Zenon DEF HandlerVariants
<1> QED
  BY <1>1, <1>2, <1>3, <1>4, Zenon DEF Variants, Events

-----------------------------------------------------------------------------
(* News of a node                                                           *)

\* What an event of node n does to the pictures, if it is told to those who
\* listen: the picture of n is the news, and the rest is as it was.
LEMMA TellsNews ==
    ASSUME TypeOK, NEW n \in Node, NEW k \in Nat, NEW news \in Known,
           NEW e \in {"node added", "node removed", "ready", "value updated"},
           Tell(e, k, n, news),
           \A c \in Client : Listening(c) => k > 0
    PROVE  /\ view' \in [Client -> [Node -> Known]]
           /\ \A c \in Client : Listening(c) =>
                 \A m \in Node : view'[c][m] = IF m = n THEN news ELSE view[c][m]
           /\ UNCHANGED <<staleVars, configVars>>
<1>1. \A c \in Client : Listening(c) => Receives(c, e, k)
  BY Received
<1>2. view' = [c \in Client |-> IF Receives(c, e, k)
                                THEN [view[c] EXCEPT ![n] = news] ELSE view[c]]
  BY DEF Tell
<1>3. UNCHANGED <<staleVars, configVars>>
  BY DEF Tell
<1> QED
  BY <1>1, <1>2, <1>3 DEF TypeOK

-----------------------------------------------------------------------------
(* The invariant                                                            *)

USE DEF Latest

LEMMA InitPicture == Init => PictureInv
<1> SUFFICES ASSUME Init PROVE PictureInv
  OBVIOUS
<1>1. TypeOK
  <2>1. view \in [Client -> [Node -> Known]]
    BY DEF Init, Known
  <2>2. /\ bound \in [Node -> 0..2] /\ listeners \in 0..1 /\ times \in 0..2
        /\ resets \in 0..MaxResets
    BY EventForwarderConstants DEF Init
  <2>3. /\ conn \in [Client -> {"new", "connected", "listening", "gone"}]
        /\ node \in [Node -> {"none", "joining", "added"}]
        /\ ready \in [Node -> BOOLEAN]
        /\ viewConfig \in [Client -> LogConfig]
    BY DEF Init
  <2> QED
    BY <2>1, <2>2, <2>3 DEF Init, TypeOK
<1>2. BindingsOK /\ ResetsOK
  BY DEF Init, BindingsOK, ResetsOK, InUse, Bindings, Listening
<1>3. PictureIsCurrent /\ LogConfigIsCurrent /\ StaleClientsAreTold
  BY DEF Init, PictureIsCurrent, LogConfigIsCurrent, StaleClientsAreTold, Listening
<1> QED
  BY <1>1, <1>2, <1>3 DEF PictureInv

\* The steps of the clients.
LEMMA ClientSteps ==
    ASSUME PictureInv, NEW c \in Client,
           \/ Connect(c) \/ StartListening(c) \/ Leave(c)
           \/ \E v \in Version : SetSchema(c, v)
    PROVE  PictureInv'
<1> USE EventForwarderConstants
<1>0. TypeOK
  BY DEF PictureInv
<1>1. CASE Connect(c)
  <2>1. /\ conn' = [conn EXCEPT ![c] = "connected"] /\ conn[c] = "new"
        /\ up \/ forwarder
        /\ forwarder' = TRUE
        /\ \/ forwarder /\ UNCHANGED bindVars
           \/ /\ ~forwarder
              /\ listeners' = listeners + 1
              /\ bound' = [n \in Node |-> IF node[n] # "none" THEN bound[n] + 1 ELSE bound[n]]
              /\ early' = early \cup {n \in Node : node[n] = "joining"}
        /\ UNCHANGED <<schema, driverVars, viewVars>>
    BY <1>1 DEF Connect, StartEventForwarder, SetupControllerAndNodes, Listed
  <2>2. TypeOK'
    BY <2>1 DEF PictureInv, TypeOK, BindingsOK, bindVars, driverVars, viewVars,
       staleVars, configVars, lastVars, Known
  <2>3. BindingsOK'
    BY <2>1 DEF PictureInv, TypeOK, BindingsOK, InUse, Bindings, bindVars, driverVars
  <2>4. \A d \in Client : Listening(d)' <=> Listening(d)
    BY <1>0, <2>1 DEF TypeOK, Listening
  <2>5. (ResetsOK /\ PictureIsCurrent /\ LogConfigIsCurrent /\ StaleClientsAreTold)'
    BY <2>1, <2>4 DEF PictureInv, TypeOK, ResetsOK, PictureIsCurrent, LogConfigIsCurrent,
       StaleClientsAreTold, driverVars, viewVars, staleVars, configVars
  <2> QED
    BY <2>2, <2>3, <2>5 DEF PictureInv
<1>2. CASE StartListening(c)
  <2>1. /\ up /\ conn' = [conn EXCEPT ![c] = "listening"]
        /\ conn[c] \in {"connected", "listening"}
        /\ view' = [view EXCEPT ![c] = DumpState]
        /\ viewConfig' = [viewConfig EXCEPT ![c] = config]
        /\ stale' = stale \ {c} /\ told' = told \ {c}
        /\ untold' = untold \ {c}
        /\ last' = NoEvent /\ times' = 0
        /\ UNCHANGED <<schema, forwarder, excused, config, driverVars, bindVars>>
    BY <1>2 DEF StartListening, NoSend
  <2>2. DumpState \in [Node -> Known]
    BY <1>0 DEF TypeOK, DumpState, DumpNode, Known
  <2>3. TypeOK'
    BY <1>0, <2>1, <2>2 DEF TypeOK, driverVars, bindVars
  <2>4. BindingsOK'
    BY <2>1 DEF PictureInv, TypeOK, BindingsOK, InUse, Bindings, bindVars, driverVars
  <2>5. \A d \in Client : d # c => (Listening(d)' <=> Listening(d))
    BY <1>0, <2>1 DEF TypeOK, Listening
  <2>6. PictureIsCurrent'
    <3>1. \A n \in Node : /\ node[n] = "none" => DumpState[n] = "absent"
                          /\ node[n] = "added" => DumpState[n] # "absent"
                          /\ ready[n] => DumpState[n] = value[n]
      BY DEF PictureInv, TypeOK, BindingsOK, DumpState, DumpNode
    <3>2. view'[c] = DumpState /\ \A d \in Client : d # c => view'[d] = view[d]
      BY <1>0, <2>1 DEF TypeOK
    <3> QED
      BY <2>1, <2>5, <3>1, <3>2 DEF PictureInv, PictureIsCurrent, driverVars
  <2>7. (ResetsOK /\ LogConfigIsCurrent /\ StaleClientsAreTold)'
    BY <2>1, <2>5 DEF PictureInv, TypeOK, ResetsOK, LogConfigIsCurrent,
       StaleClientsAreTold, driverVars
  <2> QED
    BY <2>3, <2>4, <2>6, <2>7 DEF PictureInv
<1>3. CASE Leave(c)
  <2>1. /\ conn' = [conn EXCEPT ![c] = "gone"]
        /\ view' = [view EXCEPT ![c] = [n \in Node |-> "absent"]]
        /\ stale' = stale \ {c} /\ told' = told \ {c} /\ excused' = excused \ {c}
        /\ untold' = untold \ {c}
        /\ last' = NoEvent /\ times' = 0
        /\ UNCHANGED <<schema, forwarder, driverVars, bindVars, config, viewConfig>>
    BY <1>3 DEF Leave, NoSend
  <2>2. TypeOK'
    BY <1>0, <2>1 DEF TypeOK, driverVars, bindVars, Known
  <2>3. BindingsOK'
    BY <2>1 DEF PictureInv, TypeOK, BindingsOK, InUse, Bindings, bindVars, driverVars
  <2>4. /\ ~Listening(c)'
        /\ \A d \in Client : d # c => (Listening(d)' <=> Listening(d)) /\ view'[d] = view[d]
    BY <1>0, <2>1 DEF TypeOK, Listening
  <2>5. ResetsOK' /\ StaleClientsAreTold'
    BY <2>1, <2>4 DEF PictureInv, TypeOK, ResetsOK, StaleClientsAreTold, driverVars
  <2>6. PictureIsCurrent'
    BY <2>1, <2>4 DEF PictureInv, PictureIsCurrent, driverVars
  <2>7. LogConfigIsCurrent'
    BY <2>1, <2>4 DEF PictureInv, LogConfigIsCurrent
  <2> QED
    BY <2>2, <2>3, <2>5, <2>6, <2>7 DEF PictureInv
<1>4. ASSUME NEW v \in Version, SetSchema(c, v)
      PROVE  PictureInv'
  BY <1>4 DEF SetSchema, NoSend, PictureInv, TypeOK, BindingsOK, InUse, Bindings, ResetsOK,
     PictureIsCurrent, LogConfigIsCurrent, StaleClientsAreTold, Listening,
     driverVars, bindVars, staleVars, configVars
<1> QED
  BY <1>1, <1>2, <1>3, <1>4

\* The steps that leave the clients, the nodes and the bindings alone.
LEMMA OtherSteps ==
    ASSUME PictureInv,
           \/ \E l \in LogConfig :
                 \/ DriverUpdateLogConfig(l)
                 \/ ServerUpdateLogConfig(l)
                 \/ DriverUpdateOptions(l)
           \/ PlainEvent \/ UNCHANGED vars
    PROVE  PictureInv'
<1>0. TypeOK
  BY DEF PictureInv
<1>1. UNCHANGED <<clientVars, driverVars, bindVars, view, staleVars>>
  BY DEF DriverUpdateLogConfig, ServerUpdateLogConfig, DriverUpdateOptions,
         ChangeUntold, PlainEvent, vars,
         clientVars, driverVars, bindVars, staleVars
<1>2. TypeOK' /\ LogConfigIsCurrent'
  <2>1. ASSUME NEW l \in LogConfig, DriverUpdateLogConfig(l)
        PROVE  TypeOK' /\ LogConfigIsCurrent'
    <3> DEFINE received == [c \in Client |-> Receives(c, "log config updated", 1)]
    <3>1. \A c \in Client : Listening(c) => received[c]
      <4>1. 1 \in Nat /\ 1 > 0
        OBVIOUS
      <4> QED
        BY <1>0, <4>1, Received
    <3>2. /\ config' = l /\ untold' = {} /\ times' = 1
          /\ viewConfig' = [c \in Client |-> IF received[c] THEN l ELSE viewConfig[c]]
      BY <2>1 DEF DriverUpdateLogConfig, ToldConfig, Send
    <3> HIDE DEF received
    <3>3. TypeOK'
      <4>1. times' \in 0..2 /\ viewConfig' \in [Client -> LogConfig]
        BY <1>0, <3>2 DEF TypeOK
      <4> QED
        BY <1>0, <1>1, <3>2, <4>1 DEF TypeOK, clientVars, driverVars, bindVars, staleVars
    <3> QED
      BY <1>1, <3>1, <3>2, <3>3 DEF LogConfigIsCurrent, Listening, clientVars
  <2>2. ASSUME NEW l \in LogConfig, ServerUpdateLogConfig(l) \/ DriverUpdateOptions(l)
        PROVE  TypeOK' /\ LogConfigIsCurrent'
    <3>1. /\ config' = l /\ viewConfig' = viewConfig /\ times' = 0
          /\ untold' = IF l = config THEN untold
                       ELSE untold \cup {c \in Client : Listening(c)}
      BY <2>2 DEF ServerUpdateLogConfig, DriverUpdateOptions, ChangeUntold, NoSend,
                  Listening
    <3>2. untold' \subseteq Client
      BY <1>0, <3>1 DEF TypeOK
    <3>3. TypeOK'
      BY <1>0, <1>1, <3>1, <3>2 DEF TypeOK, clientVars, driverVars, bindVars, staleVars
    <3>4. LogConfigIsCurrent'
      BY <1>1, <3>1 DEF PictureInv, LogConfigIsCurrent, Listening, clientVars
    <3> QED
      BY <3>3, <3>4
  <2>3. CASE PlainEvent
    <3>1. UNCHANGED configVars /\ times' \in 0..2
      BY <1>0, <2>3 DEF PlainEvent, Send, TypeOK
    <3> QED
      BY <1>0, <1>1, <3>1 DEF PictureInv, TypeOK, LogConfigIsCurrent, Listening, clientVars,
         driverVars, bindVars, staleVars, configVars
  <2>4. CASE UNCHANGED vars
    BY <1>0, <2>4 DEF PictureInv, TypeOK, LogConfigIsCurrent, Listening, vars
  <2> QED
    BY <2>1, <2>2, <2>3, <2>4
<1>3. BindingsOK'
  BY <1>1 DEF PictureInv, BindingsOK, InUse, Bindings, clientVars, driverVars, bindVars
<1>4. (ResetsOK /\ PictureIsCurrent /\ StaleClientsAreTold)'
  BY <1>1 DEF PictureInv, ResetsOK, PictureIsCurrent, StaleClientsAreTold, Listening,
     clientVars, driverVars, staleVars
<1> QED
  BY <1>2, <1>3, <1>4 DEF PictureInv

\* The steps of the nodes.
LEMMA NodeSteps ==
    ASSUME PictureInv, NEW n \in Node,
           \/ NodeJoins(n) \/ NodeAdded(n) \/ NodeRemoved(n)
           \/ NodeReady(n) \/ InterviewStarted(n)
           \/ \E v \in Value : ValueUpdated(n, v)
    PROVE  PictureInv'
<1>0. TypeOK /\ BindingsOK /\ ResetsOK /\ PictureIsCurrent
  BY DEF PictureInv
<1>1. up /\ UNCHANGED <<clientVars, up, resets>>
  BY DEF NodeJoins, NodeAdded, NodeRemoved, NodeReady, InterviewStarted, ValueUpdated,
         clientVars, driverVars
<1>2. /\ \A c \in Client : Listening(c)' <=> Listening(c)
      /\ \A c \in Client : Listening(c) => forwarder
  BY <1>0, <1>1 DEF Listening, clientVars, BindingsOK, InUse
<1>3. /\ listeners \in Nat /\ bound[n] \in Nat
      /\ forwarder => listeners > 0
      /\ forwarder /\ node[n] = "added" => bound[n] > 0
  BY <1>0, <1>1 DEF TypeOK, BindingsOK, Bindings
\* Told of or not, an event leaves the rest as it is.
<1>4. ASSUME UNCHANGED <<staleVars, configVars>>
      PROVE  (ResetsOK /\ LogConfigIsCurrent /\ StaleClientsAreTold)'
  <2>1. ResetsOK'
    BY <1>0, <1>1, <1>2, <1>4 DEF TypeOK, ResetsOK, staleVars
  <2>2. LogConfigIsCurrent'
    BY <1>2, <1>4 DEF PictureInv, LogConfigIsCurrent, configVars
  <2>3. StaleClientsAreTold'
    BY <1>0, <1>1, <1>2, <1>4 DEF PictureInv, TypeOK, StaleClientsAreTold, staleVars
  <2> QED
    BY <2>1, <2>2, <2>3
<1>5. CASE NodeJoins(n)
  <2>1. /\ node[n] = "none" /\ node' = [node EXCEPT ![n] = "joining"]
        /\ ready' = [ready EXCEPT ![n] = FALSE]
        /\ UNCHANGED <<value, bindVars, viewVars>>
    BY <1>5 DEF NodeJoins
  <2>2. TypeOK'
    BY <1>0, <1>1, <2>1 DEF TypeOK, clientVars, bindVars, viewVars, staleVars,
       configVars, lastVars
  <2>3. BindingsOK'
    BY <1>0, <1>1, <2>1 DEF TypeOK, BindingsOK, InUse, Bindings, clientVars, bindVars
  <2>4. PictureIsCurrent'
    BY <1>0, <1>2, <2>1 DEF TypeOK, PictureIsCurrent, viewVars, staleVars
  <2> QED
    BY <1>4, <2>1, <2>2, <2>3, <2>4 DEF PictureInv, viewVars
<1>6. CASE NodeAdded(n)
  <2>1. /\ node[n] = "joining" /\ node' = [node EXCEPT ![n] = "added"]
        /\ bound' = [bound EXCEPT ![n] = bound[n] + listeners]
        /\ UNCHANGED <<ready, value, listeners, early>>
        /\ times' = listeners
    BY <1>6 DEF NodeAdded, SetupNode, Tell, Send
  <2>2. DumpNode(n) = "unready" /\ DumpNode(n) \in Known
    BY <1>0, <2>1 DEF TypeOK, BindingsOK, DumpNode, Known
  <2>3. /\ view' \in [Client -> [Node -> Known]]
        /\ \A c \in Client : Listening(c) => \A m \in Node :
              view'[c][m] = IF m = n THEN DumpNode(n) ELSE view[c][m]
        /\ UNCHANGED <<staleVars, configVars>>
    <3>1. Tell("node added", listeners, n, DumpNode(n))
      BY <1>6 DEF NodeAdded
    <3> QED
      BY <1>0, <1>2, <1>3, <2>2, <3>1, TellsNews
  <2>4. BindingsOK'
    BY <1>0, <1>1, <2>1 DEF TypeOK, BindingsOK, InUse, Bindings, clientVars
  <2>5. TypeOK'
    BY <1>0, <1>1, <2>1, <2>3 DEF TypeOK, BindingsOK, Bindings, clientVars, staleVars, configVars
  <2>6. PictureIsCurrent'
    BY <1>0, <1>2, <2>1, <2>2, <2>3 DEF TypeOK, BindingsOK, PictureIsCurrent, staleVars
  <2> QED
    BY <1>4, <2>3, <2>4, <2>5, <2>6 DEF PictureInv
<1>7. CASE NodeRemoved(n)
  <2>1. /\ node[n] = "added" /\ node' = [node EXCEPT ![n] = "none"]
        /\ ready' = [ready EXCEPT ![n] = FALSE]
        /\ bound' = [bound EXCEPT ![n] = 0] /\ early' = early \ {n}
        /\ UNCHANGED <<value, listeners>>
        /\ times' = listeners
    BY <1>7 DEF NodeRemoved, Tell, Send
  <2>2. /\ view' \in [Client -> [Node -> Known]]
        /\ \A c \in Client : Listening(c) => \A m \in Node :
              view'[c][m] = IF m = n THEN "absent" ELSE view[c][m]
        /\ UNCHANGED <<staleVars, configVars>>
    <3>1. Tell("node removed", listeners, n, "absent") /\ "absent" \in Known
      BY <1>7 DEF NodeRemoved, Known
    <3> QED
      BY <1>0, <1>2, <1>3, <3>1, TellsNews
  <2>3. BindingsOK'
    BY <1>0, <1>1, <2>1 DEF TypeOK, BindingsOK, InUse, Bindings, clientVars
  <2>4. TypeOK'
    BY <1>0, <1>1, <2>1, <2>2 DEF TypeOK, clientVars, staleVars, configVars
  <2>5. PictureIsCurrent'
    BY <1>0, <1>2, <2>1, <2>2 DEF TypeOK, PictureIsCurrent, staleVars
  <2> QED
    BY <1>4, <2>2, <2>3, <2>4, <2>5 DEF PictureInv
<1>8. CASE NodeReady(n)
  <2>1. /\ node[n] = "added" /\ ready' = [ready EXCEPT ![n] = TRUE]
        /\ UNCHANGED <<node, value, bindVars>>
        /\ times' = bound[n]
    BY <1>8 DEF NodeReady, Tell, Send
  <2>2. value[n] \in Value /\ value[n] \in Known
    BY <1>0 DEF TypeOK, Known
  <2>3. /\ view' \in [Client -> [Node -> Known]]
        /\ \A c \in Client : Listening(c) => \A m \in Node :
              view'[c][m] = IF m = n THEN value[n] ELSE view[c][m]
        /\ UNCHANGED <<staleVars, configVars>>
    <3>1. Tell("ready", bound[n], n, value[n])
      BY <1>8 DEF NodeReady
    <3> QED
      BY <1>0, <1>2, <1>3, <2>1, <2>2, <3>1, TellsNews
  <2>4. BindingsOK'
    BY <1>0, <1>1, <2>1 DEF TypeOK, BindingsOK, InUse, Bindings, clientVars, bindVars
  <2>5. TypeOK'
    BY <1>0, <1>1, <2>1, <2>3 DEF TypeOK, clientVars, staleVars, configVars, bindVars
  <2>6. PictureIsCurrent'
    BY <1>0, <1>2, <2>1, <2>2, <2>3, EventForwarderConstants
    DEF TypeOK, PictureIsCurrent, staleVars
  <2> QED
    BY <1>4, <2>3, <2>4, <2>5, <2>6 DEF PictureInv
<1>9. CASE InterviewStarted(n)
  <2>1. /\ ready' = [ready EXCEPT ![n] = FALSE] /\ times' = bound[n]
        /\ UNCHANGED <<node, value, bindVars, view, staleVars, configVars>>
    BY <1>9 DEF InterviewStarted, Send
  <2>2. TypeOK'
    BY <1>0, <1>1, <2>1 DEF TypeOK, clientVars, bindVars, staleVars, configVars
  <2>3. BindingsOK'
    BY <1>0, <1>1, <2>1 DEF TypeOK, BindingsOK, InUse, Bindings, clientVars, bindVars
  <2>4. PictureIsCurrent'
    BY <1>0, <1>2, <2>1 DEF TypeOK, PictureIsCurrent, staleVars
  <2> QED
    BY <1>4, <2>1, <2>2, <2>3, <2>4 DEF PictureInv
<1>10. ASSUME NEW v \in Value, ValueUpdated(n, v)
       PROVE  PictureInv'
  <2>1. /\ value' = [value EXCEPT ![n] = v]
        /\ UNCHANGED <<node, ready, bindVars>>
        /\ \/ ready[n] /\ times' = bound[n]
           \/ ~ready[n] /\ UNCHANGED viewVars
    BY <1>10 DEF ValueUpdated, ForwardsValues, Tell, Send
  <2>2. BindingsOK'
    BY <1>0, <1>1, <2>1 DEF TypeOK, BindingsOK, InUse, Bindings, clientVars, bindVars
  <2>3. CASE ready[n]
    <3>1. node[n] = "added" /\ v \in Known
      BY <1>0, <2>3 DEF BindingsOK, Known
    <3>2. /\ view' \in [Client -> [Node -> Known]]
          /\ \A c \in Client : Listening(c) => \A m \in Node :
                view'[c][m] = IF m = n THEN v ELSE view[c][m]
          /\ UNCHANGED <<staleVars, configVars>>
      <4>1. Tell("value updated", bound[n], n, v)
        BY <1>10, <2>3 DEF ValueUpdated, ForwardsValues
      <4> QED
        BY <1>0, <1>2, <1>3, <2>3, <3>1, <4>1, TellsNews
    <3>3. TypeOK'
      BY <1>0, <1>1, <2>1, <2>3, <3>2 DEF TypeOK, clientVars, staleVars, configVars, bindVars
    <3>4. PictureIsCurrent'
      BY <1>0, <1>2, <2>1, <3>1, <3>2, EventForwarderConstants
      DEF TypeOK, PictureIsCurrent, staleVars
    <3> QED
      BY <1>4, <2>2, <3>2, <3>3, <3>4 DEF PictureInv
  <2>4. CASE ~ready[n]
    <3>1. UNCHANGED <<view, staleVars, configVars, lastVars>>
      BY <2>1, <2>4 DEF viewVars
    <3>2. TypeOK'
      BY <1>0, <1>1, <2>1, <3>1 DEF TypeOK, clientVars, staleVars, configVars, bindVars, lastVars
    <3>3. PictureIsCurrent'
      BY <1>0, <1>2, <2>1, <2>4, <3>1 DEF TypeOK, PictureIsCurrent, staleVars
    <3> QED
      BY <1>4, <2>2, <3>1, <3>2, <3>3 DEF PictureInv
  <2> QED
    BY <2>3, <2>4
<1> QED
  BY <1>5, <1>6, <1>7, <1>8, <1>9, <1>10

\* A reset, and its end.
LEMMA ResetSteps == ASSUME PictureInv, Reset \/ DriverReady PROVE PictureInv'
<1>0. TypeOK
  BY DEF PictureInv
<1>1. CASE Reset
  <2>1. TypeOK'
    <3>1. /\ bound' \in [Node -> 0..2] /\ listeners' \in 0..1 /\ times' \in 0..2
          /\ resets' \in 0..MaxResets
      BY <1>0, <1>1, EventForwarderConstants DEF Reset, TypeOK, NoSend
    <3>2. node' \in [Node -> {"none", "joining", "added"}]
      BY <1>1 DEF Reset
    <3> QED
      BY <1>0, <1>1, <3>1, <3>2 DEF Reset, TypeOK, clientVars, configVars
  <2>2. BindingsOK'
    BY <1>1 DEF PictureInv, Reset, BindingsOK, InUse, clientVars
  <2>3. (ResetsOK /\ PictureIsCurrent /\ LogConfigIsCurrent /\ StaleClientsAreTold)'
    BY <1>1 DEF PictureInv, Reset, ResetsOK, PictureIsCurrent, LogConfigIsCurrent,
       StaleClientsAreTold, Listening, clientVars, configVars
  <2> QED
    BY <2>1, <2>2, <2>3 DEF PictureInv
<1>2. CASE DriverReady
  <2> DEFINE k == IF forwarder THEN 1 ELSE 0
             receivers == {c \in Client : Receives(c, "driver ready", k)}
  <2>1. /\ ~up /\ up'
        /\ told' = told \cup receivers
        /\ excused' = {c \in stale : schema[c] < 40}
        /\ times' = k
        /\ UNCHANGED <<clientVars, node, ready, value, resets, view, stale, configVars>>
        /\ \/ ~forwarder /\ UNCHANGED bindVars
           \/ /\ forwarder
              /\ listeners' = listeners + 1
              /\ bound' = [n \in Node |-> IF node[n] # "none" THEN bound[n] + 1 ELSE bound[n]]
              /\ early' = early \cup {n \in Node : node[n] = "joining"}
    BY <1>2 DEF DriverReady, SetupControllerAndNodes, Send, Listed
  <2> HIDE DEF receivers
  <2>2. TypeOK'
    <3>1. /\ bound' \in [Node -> 0..2] /\ listeners' \in 0..1 /\ times' \in 0..2
          /\ early' \subseteq Node
      BY <2>1 DEF PictureInv, TypeOK, BindingsOK, bindVars
    <3>2. receivers \subseteq Client /\ excused' \subseteq Client
      BY <1>0, <2>1 DEF TypeOK, receivers
    <3> QED
      BY <1>0, <2>1, <3>1, <3>2 DEF TypeOK, clientVars, configVars
  <2>3. BindingsOK'
    BY <2>1 DEF PictureInv, TypeOK, BindingsOK, InUse, Bindings, clientVars, bindVars
  <2>4. (ResetsOK /\ PictureIsCurrent /\ LogConfigIsCurrent)'
    BY <2>1 DEF PictureInv, ResetsOK, PictureIsCurrent, LogConfigIsCurrent, Listening,
       clientVars, configVars
  <2>5. StaleClientsAreTold'
    <3>1. ASSUME NEW c \in stale, schema[c] >= 40 PROVE c \in told'
      <4>1. c \in Client /\ Listening(c) /\ forwarder /\ k > 0
        BY DEF PictureInv, TypeOK, ResetsOK, BindingsOK, InUse, Listening
      <4>2. schema[c] \in 0..Latest
        BY <4>1, EventForwarderConstants DEF PictureInv, TypeOK
      <4>3. Forms("driver ready", schema[c]) # {}
        BY <3>1, <4>2, DriverReadyEvent
      <4>4. Receives(c, "driver ready", k)
        BY <4>1, <4>3 DEF Receives, Listening
      <4>5. c \in receivers
        BY <4>1, <4>4 DEF receivers
      <4> QED
        BY <2>1, <4>5
    <3>2. \A c \in stale : c \in Client /\ schema[c] \in Nat
      BY <1>0, EventForwarderConstants DEF TypeOK
    <3>3. \A c \in stale : c \notin excused' => schema[c] >= 40
      BY <2>1, <3>2
    <3> QED
      BY <2>1, <3>1, <3>3 DEF StaleClientsAreTold
  <2> QED
    BY <2>2, <2>3, <2>4, <2>5 DEF PictureInv
<1> QED
  BY <1>1, <1>2

LEMMA PictureStep == ASSUME PictureInv, [Next]_vars PROVE PictureInv'
BY ClientSteps, OtherSteps, NodeSteps, ResetSteps DEF Next

-----------------------------------------------------------------------------
(* The last event                                                           *)

LEMMA EventNames ==
    /\ {"node added", "node removed", "ready", "interview started",
        "value updated", "log config updated", "driver ready"} \subseteq Events
    /\ PlainNodeEvents \subseteq Events /\ PlainControllerEvents \subseteq Events
    /\ PlainDriverEvents \subseteq Events /\ DOMAIN HandlerVariants \subseteq Events
<1>1. /\ "node added" \in DOMAIN ControllerVariants
      /\ "node removed" \in DOMAIN ControllerVariants
      /\ "ready" \in DOMAIN NodeVariants
      /\ "interview started" \in DOMAIN NodeVariants
      /\ "value updated" \in DOMAIN NodeVariants
      /\ "log config updated" \in DOMAIN DriverVariants
      /\ "driver ready" \in DOMAIN DriverVariants
  BY Zenon DEF DriverVariants, ControllerVariants, NodeVariants
<1>2. /\ PlainNodeEvents \subseteq Events /\ PlainControllerEvents \subseteq Events
      /\ PlainDriverEvents \subseteq Events /\ DOMAIN HandlerVariants \subseteq Events
  BY Zenon DEF Events, PlainNodeEvents, PlainControllerEvents, PlainDriverEvents
<1> QED
  BY <1>1, <1>2, Zenon DEF Events

\* An event that is sent as often as it should be.
LEMMA SentOnce ==
    ASSUME NEW e \in Events, NEW k, Send(e, k),
           k = 2 => early' # {},
           k = 0 /\ (\E c \in Client : Listening(c)') =>
               \E n \in Node : node'[n] = "joining"
    PROVE  ForwardingOK'
BY DEF Send, ForwardingOK

LEMMA NothingSent == ASSUME NoSend PROVE ForwardingOK'
BY DEF NoSend, ForwardingOK

\* Steps after which the last event is still that of before.
LEMMA StillTheLast ==
    ASSUME ForwardingOK, UNCHANGED lastVars, early \subseteq early',
           \A c \in Client : Listening(c)' => Listening(c),
           \A n \in Node : node[n] = "joining" => node'[n] = "joining"
    PROVE  ForwardingOK'
BY DEF ForwardingOK, lastVars

\* What a binding of the forwarder is worth while somebody listens.
LEMMA ListenersBind ==
    ASSUME PictureInv, up
    PROVE  /\ listeners \in 0..1 /\ \A n \in Node : bound[n] \in 0..2
           /\ \A n \in Node : bound[n] = 2 => n \in early
           /\ (\E c \in Client : Listening(c)) =>
                 /\ forwarder /\ listeners = 1
                 /\ \A n \in Node : node[n] = "added" => bound[n] > 0
BY DEF PictureInv, TypeOK, BindingsOK, Bindings, InUse, Listening

LEMMA ForwardingStep == ASSUME IInv, [Next]_vars PROVE ForwardingOK'
<1>0. PictureInv /\ ForwardingOK /\ TypeOK
  BY DEF IInv, PictureInv
<1>1. ASSUME NEW c \in Client,
             \/ Connect(c) \/ StartListening(c) \/ Leave(c)
             \/ \E v \in Version : SetSchema(c, v)
      PROVE  ForwardingOK'
  <2>1. CASE Connect(c)
    <3>1. early \subseteq early'
      BY <2>1 DEF Connect, StartEventForwarder, SetupControllerAndNodes, bindVars
    <3>2. UNCHANGED <<lastVars, node>> /\ conn' = [conn EXCEPT ![c] = "connected"]
      BY <2>1 DEF Connect, viewVars, driverVars
    <3>3. \A d \in Client : Listening(d)' => Listening(d)
      BY <1>0, <3>2 DEF Listening, TypeOK
    <3> QED
      BY <1>0, <3>1, <3>2, <3>3, StillTheLast
  <2>2. CASE StartListening(c) \/ Leave(c) \/ \E v \in Version : SetSchema(c, v)
    BY <2>2, NothingSent DEF StartListening, Leave, SetSchema
  <2> QED
    BY <1>1, <2>1, <2>2
<1>2. ASSUME NEW l \in LogConfig,
             \/ DriverUpdateLogConfig(l)
             \/ ServerUpdateLogConfig(l)
             \/ DriverUpdateOptions(l)
      PROVE  ForwardingOK'
  <2>1. CASE DriverUpdateLogConfig(l)
    <3> DEFINE e == "log config updated"
    <3>1. Send(e, 1) /\ e \in Events
      BY <2>1, EventNames, Zenon DEF DriverUpdateLogConfig
    <3> HIDE DEF e
    <3> QED
      BY <3>1, SentOnce
  <2>2. CASE ServerUpdateLogConfig(l) \/ DriverUpdateOptions(l)
    BY <2>2, NothingSent DEF ServerUpdateLogConfig, DriverUpdateOptions, ChangeUntold
  <2> QED
    BY <1>2, <2>1, <2>2
<1>3. ASSUME NEW n \in Node,
             \/ NodeJoins(n) \/ NodeAdded(n) \/ NodeRemoved(n)
             \/ NodeReady(n) \/ InterviewStarted(n)
             \/ \E v \in Value : ValueUpdated(n, v)
      PROVE  ForwardingOK'
  <2>1. up /\ UNCHANGED conn /\ \A c \in Client : Listening(c)' <=> Listening(c)
    BY <1>3 DEF NodeJoins, NodeAdded, NodeRemoved, NodeReady, InterviewStarted,
       ValueUpdated, clientVars, Listening
  <2>2. CASE NodeJoins(n)
    BY <1>0, <2>1, <2>2, StillTheLast DEF NodeJoins, viewVars, bindVars, TypeOK
  <2>3. CASE NodeAdded(n) \/ NodeRemoved(n)
    <3>1. \E e \in Events : Send(e, listeners)
      BY <2>3, EventNames, Zenon DEF NodeAdded, NodeRemoved, Tell
    <3>2. PICK e \in Events : Send(e, listeners)
      BY <3>1
    <3> QED
      BY <1>0, <2>1, <3>2, SentOnce, ListenersBind
  <2>4. CASE \/ NodeReady(n) \/ InterviewStarted(n)
             \/ ready[n] /\ \E v \in Value : ValueUpdated(n, v)
    <3>1. \E e \in Events : Send(e, bound[n])
      BY <2>4, EventNames, Zenon
      DEF NodeReady, InterviewStarted, ValueUpdated, ForwardsValues, Tell
    <3>2. PICK e \in Events : Send(e, bound[n])
      BY <3>1
    <3>3. node[n] = "added" /\ UNCHANGED early
      BY <1>0, <2>4 DEF NodeReady, InterviewStarted, ValueUpdated, bindVars,
         PictureInv, BindingsOK
    <3> QED
      BY <1>0, <2>1, <3>2, <3>3, SentOnce, ListenersBind
  <2>5. CASE ~ready[n] /\ \E v \in Value : ValueUpdated(n, v)
    BY <1>0, <2>1, <2>5, StillTheLast
    DEF ValueUpdated, ForwardsValues, viewVars, bindVars
  <2> QED
    BY <1>3, <2>2, <2>3, <2>4, <2>5
<1>4. CASE PlainEvent
  <2>1. up /\ UNCHANGED <<conn, node, early>>
    BY <1>4 DEF PlainEvent, clientVars, driverVars, bindVars
  <2>2. \A c \in Client : Listening(c)' <=> Listening(c)
    BY <2>1 DEF Listening
  <2>3. \E e \in Events :
           \/ \E n \in Node : Listed(n) /\ Send(e, bound[n])
           \/ Send(e, listeners)
           \/ Send(e, IF forwarder THEN 1 ELSE 0)
           \/ Send(e, 1)
    BY <1>4, EventNames, Zenon DEF PlainEvent
  <2>4. PICK e \in Events :
           \/ \E n \in Node : Listed(n) /\ Send(e, bound[n])
           \/ Send(e, listeners)
           \/ Send(e, IF forwarder THEN 1 ELSE 0)
           \/ Send(e, 1)
    BY <2>3
  <2>5. ASSUME NEW n \in Node, Listed(n), Send(e, bound[n]) PROVE ForwardingOK'
    <3>1. node[n] = "added" \/ node[n] = "joining"
      BY <1>0, <2>5 DEF Listed, TypeOK
    <3> QED
      BY <1>0, <2>1, <2>2, <2>5, <3>1, SentOnce, ListenersBind
  <2> QED
    BY <1>0, <2>1, <2>2, <2>4, <2>5, SentOnce, ListenersBind
<1>5. CASE Reset
  BY <1>5, NothingSent DEF Reset
<1>6. CASE DriverReady
  <2> DEFINE k == IF forwarder THEN 1 ELSE 0
  <2>1. \E e \in Events : Send(e, k)
    BY <1>6, EventNames, Zenon DEF DriverReady
  <2>2. PICK e \in Events : Send(e, k)
    BY <2>1
  <2>3. \A c \in Client : Listening(c)' => forwarder
    BY <1>0, <1>6 DEF DriverReady, clientVars, PictureInv, BindingsOK, InUse, Listening
  <2> QED
    BY <2>2, <2>3, SentOnce
<1>7. CASE UNCHANGED vars
  BY <1>0, <1>7, StillTheLast DEF vars, lastVars, Listening
<1> QED
  BY <1>1, <1>2, <1>3, <1>4, <1>5, <1>6, <1>7 DEF Next

THEOREM InvariantHolds == Spec => []IInv
<1>1. Init => IInv
  BY InitPicture DEF Init, IInv, ForwardingOK
<1>2. IInv /\ [Next]_vars => IInv'
  BY PictureStep, ForwardingStep DEF IInv
<1> QED
  BY <1>1, <1>2, PTL DEF Spec

-----------------------------------------------------------------------------

\* Types are kept, whatever the clients and the driver do.
THEOREM TypesHold == Spec => []TypeOK
BY InvariantHolds, PTL DEF IInv, PictureInv

\* The picture of a client is the state of the driver, for any network.
THEOREM PicturesAreCurrent == Spec => []PictureIsCurrent
BY InvariantHolds, PTL DEF IInv, PictureInv

\* So is what the client knows of the log configuration, unless one of the two
\* commands that send no event changed it while the client was listening.
THEOREM LogConfigsAreCurrent == Spec => []LogConfigIsCurrent
BY InvariantHolds, PTL DEF IInv, PictureInv

\* A client that knew "driver ready" when it was sent has been told to refresh
\* a picture of the old controller.
THEOREM StaleClientsKnow == Spec => []StaleClientsAreTold
BY InvariantHolds, PTL DEF IInv, PictureInv

LEMMA BindingsSuffice == IInv => BoundOnce
BY DEF IInv, PictureInv, BindingsOK, Bindings, BoundOnce

\* Every node is bound once, or twice if it was found joining.
THEOREM NodesAreBoundOnce == Spec => []BoundOnce
BY InvariantHolds, BindingsSuffice, PTL

LEMMA OneFormSuffices == IInv => OneFormForEveryVersion
<1> SUFFICES ASSUME IInv, \E c \in Client : Listening(c), last # NoEvent, early = {}
             PROVE  /\ last \in OneFormEvents /\ times <= 1
                    /\ times = 0 => \E n \in Node : node[n] = "joining"
  BY DEF OneFormForEveryVersion
<1>1. last \in Events /\ ShareOut(Variants(last))
  BY EventsShareOut DEF IInv, ForwardingOK
<1>2. last \in OneFormEvents
  BY <1>1, SharedOutIsOneForm
<1>3. times \in 0..2 /\ times # 2
  BY DEF IInv, PictureInv, TypeOK, ForwardingOK
<1>4. times = 0 => \E n \in Node : node[n] = "joining"
  BY DEF IInv, ForwardingOK
<1> QED
  BY <1>2, <1>3, <1>4

\* A listening client, whatever version of 0 to 50 it speaks, gets each event
\* of the tables in one form and once; the exceptions are a node the first
\* client found joining, and one that has not been announced.
THEOREM OneFormForAll == Spec => []OneFormForEveryVersion
BY InvariantHolds, OneFormSuffices, PTL

=============================================================================
