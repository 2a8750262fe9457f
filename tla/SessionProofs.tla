----------------------------- MODULE SessionProofs -----------------------------
(***************************************************************************)
(* Proofs about Session, for any number of requests in flight and any      *)
(* versions: the types, the inductive invariant with the forms and the     *)
(* order of what is sent, and that a connection implements Requests.       *)
(***************************************************************************)
EXTENDS Session, SequenceTheorems, TLAPS

USE DEF CurrentSchema, SessionConstants

\* What is sent without being asked for.
Events == NetworkEvents \cup OwnEvents

LEMMA ZeroIsNoRequest == 0 \notin Request
BY SessionConstants DEF Request

\* What SendData does to the messages sent.
LEMMA Sending ==
    ASSUME TypeOK, NEW kind \in {"answer", "state", "error"} \cup Events,
           NEW r \in Request \cup {0}, NEW form \in Nat, SendData(kind, r, form)
    PROVE  sent' \in Seq(Message)
<1>1. [kind |-> kind, req |-> r, form |-> form] \in Message
  BY DEF Message, Events
<1> QED
  BY <1>1, AppendProperties DEF SendData, TypeOK

LEMMA VersionsAreNumbers == TypeOK => schemaVersion \in Nat /\ \A r \in Request : made[r] \in Nat
<1>1. Version \cup {0} \subseteq Nat
  BY SessionConstants
<1> QED
  BY <1>1 DEF TypeOK

-----------------------------------------------------------------------------
(* The types                                                                *)

LEMMA InitType == Init => TypeOK
<1> SUFFICES ASSUME Init PROVE TypeOK
  OBVIOUS
<1>1. sent \in Seq(Message)
  BY DEF Init
<1>2. /\ command \in [Request -> Commands]
      /\ stage \in [Request -> {"unsent", "answered"} \cup Waiting \cup Microtask]
  BY DEF Init, Commands
<1>3. inForce \in [Request -> SUBSET (Version \cup {0})]
  BY DEF Init
<1> QED
  BY <1>1, <1>2, <1>3 DEF Init, TypeOK

\* The version noted for some requests is one of the versions.
LEMMA NotingType ==
    ASSUME TypeOK, NEW r \in Request, NEW v \in Version \cup {0}, NoteVersion(r, v)
    PROVE  inForce' \in [Request -> SUBSET (Version \cup {0})]
BY DEF NoteVersion, TypeOK

\* The answers that are given at once.
LEMMA AnsweringType ==
    ASSUME TypeOK, NEW r \in Request, NEW c \in Commands, Take(r, c),
           NEW v \in Version \cup {0}, NoteVersion(r, v), schemaVersion' = v,
           receiveEvents' \in BOOLEAN, receiveLogs' \in BOOLEAN,
           \/ \E kind \in {"answer", "state"}, form \in {v, schemaVersion} :
                 SendResultSuccess(r, kind, form)
           \/ SendResultError(r, v) \/ SendResultError(r, schemaVersion),
           UNCHANGED <<socket, made, callVars, resetVars>>
    PROVE  TypeOK'
<1>1. v \in Nat /\ schemaVersion \in Nat
  BY VersionsAreNumbers, SessionConstants
<1>2. sent' \in Seq(Message)
  <2>1. ASSUME NEW kind \in {"answer", "state"}, NEW form \in {v, schemaVersion},
               SendResultSuccess(r, kind, form)
        PROVE  sent' \in Seq(Message)
    BY <1>1, <2>1, Sending DEF SendResultSuccess
  <2>2. CASE SendResultError(r, v) \/ SendResultError(r, schemaVersion)
    BY <1>1, <2>2, Sending DEF SendResultError
  <2> QED
    BY <2>1, <2>2
<1>3. stage' \in [Request -> {"unsent", "answered"} \cup Waiting \cup Microtask]
  BY DEF TypeOK, SendResultSuccess, SendResultError
<1>4. command' \in [Request -> Commands]
  BY DEF TypeOK, Take
<1> QED
  BY <1>2, <1>3, <1>4, NotingType DEF TypeOK, callVars, resetVars

LEMMA StepType == ASSUME TypeOK, [Next]_vars PROVE TypeOK'
<1>1. ASSUME NEW r \in Request, NEW v \in Version, SetSchemaVersion(r, v)
      PROVE  TypeOK'
  BY <1>1, AnsweringType DEF SetSchemaVersion, TypeOK, Commands, subVars
<1>2. ASSUME NEW r \in Request,
             StartListening(r) \/ UnknownCommand(r) \/ \E on \in BOOLEAN : ListenLogs(r, on)
      PROVE  TypeOK'
  <2>1. CASE StartListening(r) \/ UnknownCommand(r)
    BY <2>1, AnsweringType
    DEF StartListening, UnknownCommand, Listen, TypeOK, Commands, subVars
  <2>2. ASSUME NEW on \in BOOLEAN, ListenLogs(r, on) PROVE TypeOK'
    BY <2>2, AnsweringType DEF ListenLogs, TypeOK, Commands
  <2> QED
    BY <1>2, <2>1, <2>2
<1>3. ASSUME NEW r \in Request, NEW c \in Commands, NEW found \in BOOLEAN,
             Handle(r, c, found)
      PROVE  TypeOK'
  <2>1. command' \in [Request -> Commands]
    BY <1>3 DEF Handle, Take, TypeOK
  <2>2. inForce' \in [Request -> SUBSET (Version \cup {0})]
    BY <1>3, NotingType DEF Handle, TypeOK
  <2> QED
    BY <1>3, <2>1, <2>2 DEF Handle, Finish, TypeOK, subVars, resetVars, Waiting, Microtask
<1>4. ASSUME NEW r \in Request,
             HardReset(r) \/ \E on \in BOOLEAN : DriverListenLogs(r, on)
      PROVE  TypeOK'
  <2>1. command' \in [Request -> Commands]
    BY <1>4 DEF HardReset, DriverListenLogs, Take, TypeOK, Commands
  <2>2. inForce' \in [Request -> SUBSET (Version \cup {0})]
    BY <1>4, NotingType DEF HardReset, DriverListenLogs, TypeOK
  <2>3. CASE HardReset(r)
    BY <2>1, <2>2, <2>3
    DEF HardReset, Finish, ResetLater, TypeOK, subVars, callVars, Microtask
  <2>4. ASSUME NEW on \in BOOLEAN, DriverListenLogs(r, on) PROVE TypeOK'
    BY <2>1, <2>2, <2>4
    DEF DriverListenLogs, Finish, TypeOK, callVars, resetVars, Microtask
  <2> QED
    BY <1>4, <2>3, <2>4
<1>5. ASSUME NEW r \in Request, Answer(r)
      PROVE  TypeOK'
  <2>1. sent' \in Seq(Message)
    BY <1>5, Sending, VersionsAreNumbers DEF Answer, SendResultSuccess, SendResultError
  <2> QED
    BY <1>5, <2>1
    DEF Answer, SendResultSuccess, SendResultError, TypeOK, subVars, callVars, resetVars
<1>6. ASSUME NEW r \in Request, NEW ok \in BOOLEAN,
             Prepared(r, ok) \/ DriverSettles(r, ok) \/ FloatingSettles(r, ok)
             \/ TimerFires(r, ok)
      PROVE  TypeOK'
  <2>1. CASE Prepared(r, ok)
    BY <2>1 DEF Prepared, Finish, TypeOK, subVars, resetVars, Waiting, Microtask
  <2>2. CASE DriverSettles(r, ok)
    BY <2>2 DEF DriverSettles, Finish, NoteOutcome, TypeOK, subVars, resetVars, Microtask
  <2>3. CASE FloatingSettles(r, ok)
    BY <2>3 DEF FloatingSettles, NoteOutcome, TypeOK, subVars
  <2>4. CASE TimerFires(r, ok)
    BY <2>4 DEF TimerFires, NoteOutcome, TypeOK, subVars
  <2> QED
    BY <1>6, <2>1, <2>2, <2>3, <2>4
<1>7. ASSUME (\E r \in Request : Progress(r) \/ AskClient(r)) \/ LogEntry
      PROVE  TypeOK'
  <2>1. /\ UNCHANGED <<socket, schemaVersion, subVars, stage, command, made,
                       inForce, callVars, resetVars>>
        /\ \/ sent' = sent
           \/ \E q \in Request \cup {0}, kind \in Events : SendData(kind, q, schemaVersion)
    BY <1>7 DEF Progress, AskClient, LogEntry, TrySendEvent, Events, NetworkEvents, OwnEvents
  <2>2. sent' \in Seq(Message)
    BY <2>1, Sending, VersionsAreNumbers DEF TypeOK
  <2> QED
    BY <2>1, <2>2 DEF TypeOK, subVars, callVars, resetVars
<1>8. CASE Unparsable \/ Close
  BY <1>8 DEF Unparsable, Close, TypeOK, subVars, callVars, resetVars
<1>9. CASE DriverReady
  <2>1. sent' = sent \/ SendData("driver ready", 0, schemaVersion)
    BY <1>9 DEF DriverReady, TrySendEvent
  <2>2. sent' \in Seq(Message)
    BY <2>1, Sending, VersionsAreNumbers DEF TypeOK, Events, NetworkEvents
  <2> QED
    BY <1>9, <2>2 DEF DriverReady, TypeOK, subVars, callVars
<1>10. CASE UNCHANGED vars
  BY <1>10 DEF vars, TypeOK, subVars, callVars, resetVars
<1> QED
  BY <1>1, <1>2, <1>3, <1>4, <1>5, <1>6, <1>7, <1>8, <1>9, <1>10
  DEF Next, ReceiveMessage, Commands

-----------------------------------------------------------------------------
(* The inductive invariant                                                  *)

\* The part of OrderInv about the messages sent, and the part about the requests.
SentOK ==
    /\ \A i \in DOMAIN sent : IsAnswer(sent[i]) =>
           sent[i].req \in Request /\ stage[sent[i].req] = "answered"
    /\ receiveEvents /\ socket = "open" =>
           \E j \in DOMAIN sent : sent[j].kind = "state"
    /\ AnswersInForce
    /\ StateBeforeEvents

FlightOK ==
    /\ \A r \in Request : InFlight(r) => schemaVersion \in inForce[r]
    /\ \A r \in Request : stage[r] \in Microtask => made[r] \in inForce[r]
    /\ \A r \in timers : stage[r] \in Microtask \cup {"answered"}
    /\ ResetAfterAnswer

LEMMA Parts == OrderInv <=> TypeOK /\ SentOK /\ FlightOK
BY DEF OrderInv, SentOK, FlightOK

\* What was noted stays noted, and what was answered stays answered.
Kept == \A r \in Request : /\ inForce[r] \subseteq inForce'[r]
                           /\ stage[r] = "answered" => stage'[r] = "answered"

\* A step that sends nothing, and does not turn events on for an open socket.
LEMMA Silent ==
    ASSUME SentOK, sent' = sent, Kept,
           receiveEvents' /\ socket' = "open" => receiveEvents /\ socket = "open"
    PROVE  SentOK'
BY DEF SentOK, Kept, AnswersInForce, StateBeforeEvents

\* A sequence of messages with one more at its end.
LEMMA OneMore ==
    ASSUME NEW s \in Seq(Message), NEW m \in Message
    PROVE  /\ Len(s) \in Nat /\ DOMAIN s = 1..Len(s)
           /\ DOMAIN Append(s, m) = 1..(Len(s) + 1)
           /\ \A i \in 1..Len(s) : Append(s, m)[i] = s[i]
           /\ Append(s, m)[Len(s) + 1] = m
           /\ \A i \in 1..(Len(s) + 1) : i \in 1..Len(s) \/ i = Len(s) + 1
           /\ \A i \in 1..Len(s) : i \in 1..(Len(s) + 1)
           /\ Len(s) + 1 \in 1..(Len(s) + 1)
BY AppendProperties

LEMMA Indices ==
    ASSUME NEW s \in Seq(Message)
    PROVE  DOMAIN s = 1..Len(s) /\ \A i \in DOMAIN s : \A j \in 1..(i - 1) : j \in DOMAIN s
OBVIOUS

\* What holds of every message, and of the one that is sent.
LEMMA EveryMessage ==
    ASSUME NEW s \in Seq(Message), NEW m \in Message, NEW P,
           \A i \in DOMAIN s : s[i] \in P, m \in P
    PROVE  \A i \in DOMAIN Append(s, m) : Append(s, m)[i] \in P
BY OneMore

\* The state is among the messages after a message has followed it.
LEMMA StateStaysSent ==
    ASSUME NEW s \in Seq(Message), NEW m \in Message,
           m.kind = "state" \/ \E j \in DOMAIN s : s[j].kind = "state"
    PROVE  \E j \in DOMAIN Append(s, m) : Append(s, m)[j].kind = "state"
BY OneMore

\* An event of the network that is sent after the state keeps the order.
LEMMA OrderStays ==
    ASSUME NEW s \in Seq(Message), NEW m \in Message,
           \A i \in DOMAIN s : s[i].kind \in NetworkEvents =>
               \E j \in 1..(i - 1) : s[j].kind = "state",
           m.kind \in NetworkEvents => \E j \in DOMAIN s : s[j].kind = "state"
    PROVE  \A i \in DOMAIN Append(s, m) : Append(s, m)[i].kind \in NetworkEvents =>
               \E j \in 1..(i - 1) : Append(s, m)[j].kind = "state"
<1>1. ASSUME NEW i \in 1..Len(s), s[i].kind \in NetworkEvents
      PROVE  \E j \in 1..(i - 1) : Append(s, m)[j].kind = "state"
  <2>1. PICK j \in 1..(i - 1) : s[j].kind = "state"
    BY <1>1, OneMore
  <2>2. j \in 1..Len(s)
    BY OneMore
  <2> QED
    BY <2>1, <2>2, OneMore
<1>2. ASSUME m.kind \in NetworkEvents
      PROVE  \E j \in 1..((Len(s) + 1) - 1) : Append(s, m)[j].kind = "state"
  <2>1. PICK j \in 1..Len(s) : s[j].kind = "state"
    BY <1>2, OneMore
  <2>2. (Len(s) + 1) - 1 = Len(s)
    BY OneMore
  <2> QED
    BY <2>1, <2>2, OneMore
<1> QED
  BY <1>1, <1>2, OneMore

\* A step that sends one message.
LEMMA Speaks ==
    ASSUME TypeOK, SentOK, Kept,
           NEW kind \in {"answer", "state", "error"} \cup Events,
           NEW r \in Request \cup {0}, NEW form \in Nat, SendData(kind, r, form),
           kind \in {"answer", "state", "error"} =>
               r \in Request /\ form \in inForce'[r] /\ stage'[r] = "answered",
           kind \in NetworkEvents => receiveEvents,
           socket' = socket,
           receiveEvents' => receiveEvents \/ kind = "state"
    PROVE  SentOK'
<1>1. CASE socket # "open"
  BY <1>1, Silent DEF SendData
<1>2. CASE socket = "open"
  <2>1. PICK m \in Message : /\ sent' = Append(sent, m)
                             /\ m.kind = kind /\ m.req = r /\ m.form = form
    <3>1. [kind |-> kind, req |-> r, form |-> form] \in Message
      BY DEF Message, Events
    <3> QED
      BY <1>2, <3>1 DEF SendData
  <2>2. sent \in Seq(Message)
    BY DEF TypeOK
  <2>3. \A i \in DOMAIN sent' : IsAnswer(sent'[i]) =>
            /\ sent'[i].req \in Request
            /\ stage'[sent'[i].req] = "answered"
            /\ sent'[i].form \in inForce'[sent'[i].req]
    <3> DEFINE P == {x \in Message : IsAnswer(x) => /\ x.req \in Request
                                                    /\ stage'[x.req] = "answered"
                                                    /\ x.form \in inForce'[x.req]}
    <3>1. \A i \in DOMAIN sent : sent[i] \in P
      <4>1. \A i \in DOMAIN sent : sent[i] \in Message
        BY <2>1, <2>2, OneMore, ElementOfSeq
      <4> QED
        BY <4>1 DEF SentOK, Kept, AnswersInForce
    <3>2. m \in P
      BY <2>1 DEF IsAnswer
    <3>3. \A i \in DOMAIN sent' : sent'[i] \in P
      <4> HIDE DEF P
      <4> QED
        BY <2>1, <2>2, <3>1, <3>2, EveryMessage
    <3> QED
      BY <3>3
  <2>4. StateBeforeEvents'
    <3>1. m.kind \in NetworkEvents => \E j \in DOMAIN sent : sent[j].kind = "state"
      BY <1>2, <2>1 DEF SentOK
    <3>2. \A i \in DOMAIN sent : sent[i].kind \in NetworkEvents =>
              \E j \in 1..(i - 1) : sent[j].kind = "state"
      BY DEF SentOK, StateBeforeEvents
    <3>3. \A i \in DOMAIN sent' : sent'[i].kind \in NetworkEvents =>
              \E j \in 1..(i - 1) : sent'[j].kind = "state"
      BY <2>1, <2>2, <3>1, <3>2, OrderStays
    <3> QED
      BY <3>3 DEF StateBeforeEvents
  <2>5. receiveEvents' => \E j \in DOMAIN sent' : sent'[j].kind = "state"
    <3>1. receiveEvents' => m.kind = "state" \/ \E j \in DOMAIN sent : sent[j].kind = "state"
      BY <1>2, <2>1 DEF SentOK
    <3> QED
      BY <2>1, <2>2, <3>1, StateStaysSent
  <2> QED
    BY <2>3, <2>4, <2>5 DEF SentOK, AnswersInForce, IsAnswer
<1> QED
  BY <1>1, <1>2

\* The steps that send events, to whom.
LEMMA EventsSent ==
    ASSUME (\E r \in Request : Progress(r) \/ AskClient(r)) \/ LogEntry \/ DriverReady
    PROVE  \/ sent' = sent
           \/ \E r \in Request \cup {0}, kind \in Events :
                  /\ kind \in NetworkEvents => receiveEvents
                  /\ SendData(kind, r, schemaVersion)
<1>1. ASSUME NEW r \in Request, Progress(r)
      PROVE  sent' = sent \/ (receiveEvents /\ SendData("progress", r, schemaVersion))
  BY <1>1 DEF Progress, TrySendEvent
<1>2. ASSUME NEW r \in Request, AskClient(r)
      PROVE  SendData("question", r, schemaVersion)
  BY <1>2 DEF AskClient
<1>3. LogEntry => SendData("log", 0, schemaVersion)
  BY DEF LogEntry
<1>4. DriverReady =>
        sent' = sent \/ (receiveEvents /\ SendData("driver ready", 0, schemaVersion))
  BY DEF DriverReady, TrySendEvent
<1>5. /\ {"progress", "driver ready", "log", "question"} \subseteq Events
      /\ "log" \notin NetworkEvents /\ "question" \notin NetworkEvents
  BY DEF Events, NetworkEvents, OwnEvents
<1> QED
  BY <1>1, <1>2, <1>3, <1>4, <1>5

LEMMA InitOrderInv == Init => OrderInv
<1> SUFFICES ASSUME Init PROVE OrderInv
  OBVIOUS
<1>1. TypeOK
  BY InitType
<1>2. DOMAIN sent = {}
  BY DEF Init
<1>3. SentOK
  BY <1>2 DEF Init, SentOK, AnswersInForce, StateBeforeEvents
<1>4. FlightOK
  BY DEF Init, FlightOK, InFlight, Waiting, Microtask, ResetAfterAnswer
<1> QED
  BY <1>1, <1>3, <1>4, Parts

\* The version is noted for the new request and for every one in flight.
LEMMA Noting ==
    ASSUME TypeOK, NEW r \in Request, NEW v, NoteVersion(r, v)
    PROVE  /\ v \in inForce'[r]
           /\ \A q \in Request : inForce[q] \subseteq inForce'[q]
           /\ \A q \in Request : InFlight(q) => v \in inForce'[q]
BY DEF NoteVersion, TypeOK

\* A request that is answered in the step that reads it.
LEMMA AnswersAtOnce ==
    ASSUME OrderInv, NEW r \in Request, NEW c, Take(r, c), NoteVersion(r, schemaVersion'),
           NEW kind \in {"answer", "state", "error"}, NEW form \in Nat,
           SendData(kind, r, form), form \in inForce'[r],
           stage' = [stage EXCEPT ![r] = "answered"],
           socket' = socket, receiveEvents' => receiveEvents \/ kind = "state",
           UNCHANGED <<made, callVars, resetVars>>
    PROVE  SentOK' /\ FlightOK'
<1>1. TypeOK /\ SentOK /\ FlightOK
  BY Parts
<1>2. \A q \in Request : stage'[q] = IF q = r THEN "answered" ELSE stage[q]
  BY <1>1 DEF TypeOK
<1>3. Kept
  BY <1>1, <1>2, Noting DEF Kept
<1>4. SentOK'
  <2>1. kind \notin NetworkEvents
    BY DEF NetworkEvents
  <2> QED
    BY <1>1, <1>2, <1>3, <2>1, Speaks
<1>5. FlightOK'
  BY <1>1, <1>2, Noting
  DEF FlightOK, InFlight, Waiting, Microtask, ResetAfterAnswer, TypeOK, resetVars
<1> QED
  BY <1>4, <1>5

LEMMA StepOrderInv == ASSUME OrderInv, [Next]_vars PROVE OrderInv'
<1>0. TypeOK /\ SentOK /\ FlightOK
  BY Parts
<1>1. TypeOK'
  BY <1>0, StepType
<1> SUFFICES SentOK' /\ FlightOK'
  BY <1>1, Parts DEF OrderInv, SentOK, FlightOK
<1>2. ASSUME NEW r \in Request, NEW v \in Version, SetSchemaVersion(r, v)
      PROVE  SentOK' /\ FlightOK'
  <2>1. v \in Nat /\ v \in inForce'[r]
    BY <1>0, <1>2, Noting, SessionConstants DEF SetSchemaVersion
  <2> QED
    BY <1>2, <2>1, AnswersAtOnce
    DEF SetSchemaVersion, SendResultSuccess, SendResultError, subVars
<1>3. ASSUME NEW r \in Request,
             StartListening(r) \/ UnknownCommand(r) \/ \E on \in BOOLEAN : ListenLogs(r, on)
      PROVE  SentOK' /\ FlightOK'
  <2>1. schemaVersion \in Nat /\ schemaVersion \in inForce'[r]
    BY <1>0, <1>3, Noting, VersionsAreNumbers
    DEF StartListening, UnknownCommand, ListenLogs
  <2>2. CASE StartListening(r) \/ UnknownCommand(r)
    BY <2>1, <2>2, AnswersAtOnce
    DEF StartListening, UnknownCommand, Listen, SendResultSuccess, SendResultError, subVars
  <2>3. ASSUME NEW on \in BOOLEAN, ListenLogs(r, on) PROVE SentOK' /\ FlightOK'
    BY <2>1, <2>3, AnswersAtOnce DEF ListenLogs, SendResultSuccess
  <2> QED
    BY <1>3, <2>2, <2>3
<1>4. ASSUME NEW r \in Request, NEW c \in Commands, NEW found \in BOOLEAN,
             Handle(r, c, found) \/ HardReset(r)
             \/ \E on \in BOOLEAN : DriverListenLogs(r, on)
      PROVE  SentOK' /\ FlightOK'
  <2>1. /\ NoteVersion(r, schemaVersion)
        /\ UNCHANGED <<socket, schemaVersion, receiveEvents, sent, began>>
        /\ timers' \subseteq timers \cup {r}
        /\ stage[r] = "unsent"
    BY <1>4 DEF Handle, HardReset, DriverListenLogs, Take, Finish, subVars, resetVars, ResetLater
  <2>2. /\ \A q \in Request \ {r} : stage'[q] = stage[q] /\ made'[q] = made[q]
        /\ stage'[r] \in Waiting \cup Microtask
        /\ stage'[r] \in Microtask => made'[r] = schemaVersion
        /\ r \in timers' \ timers => stage'[r] \in Microtask
    BY <1>0, <1>4
    DEF Handle, HardReset, DriverListenLogs, Finish, ResetLater, resetVars, TypeOK,
        Waiting, Microtask
  <2>3. Kept
    BY <1>0, <2>1, <2>2, Noting DEF Kept
  <2>4. SentOK'
    BY <1>0, <2>1, <2>3, Silent
  <2>5. FlightOK'
    BY <1>0, <2>1, <2>2, Noting
    DEF FlightOK, InFlight, Waiting, Microtask, ResetAfterAnswer, TypeOK
  <2> QED
    BY <2>4, <2>5
<1>5. ASSUME NEW r \in Request, Answer(r)
      PROVE  SentOK' /\ FlightOK'
  <2>1. /\ \A q \in Request : stage'[q] = IF q = r THEN "answered" ELSE stage[q]
        /\ \A q \in Request \ {r} : made'[q] = made[q]
        /\ UNCHANGED <<socket, schemaVersion, receiveEvents, inForce, timers, began>>
    BY <1>0, <1>5
    DEF Answer, SendResultSuccess, SendResultError, TypeOK, subVars, resetVars
  <2>2. Kept
    BY <2>1 DEF Kept
  <2>3. SentOK'
    <3>1. made[r] \in inForce'[r] /\ schemaVersion \in inForce'[r]
      BY <1>0, <1>5, <2>1 DEF Answer, FlightOK, InFlight
    <3>2. made[r] \in Nat /\ schemaVersion \in Nat
      BY <1>0, VersionsAreNumbers
    <3>3. PICK kind \in {"answer", "error"}, form \in {made[r], schemaVersion} :
              SendData(kind, r, form)
      BY <1>5 DEF Answer, SendResultSuccess, SendResultError
    <3>4. stage'[r] = "answered" /\ socket' = socket /\ receiveEvents' = receiveEvents
      BY <2>1
    <3> QED
      BY <1>0, <2>2, <3>1, <3>2, <3>3, <3>4, Speaks DEF NetworkEvents
  <2>4. FlightOK'
    BY <1>0, <2>1
    DEF FlightOK, InFlight, Waiting, Microtask, ResetAfterAnswer, TypeOK
  <2> QED
    BY <2>3, <2>4
<1>6. ASSUME NEW r \in Request, NEW ok \in BOOLEAN,
             Prepared(r, ok) \/ DriverSettles(r, ok)
      PROVE  SentOK' /\ FlightOK'
  <2>1. /\ UNCHANGED <<socket, schemaVersion, receiveEvents, sent, inForce, timers, began>>
        /\ stage[r] \in Waiting
    BY <1>6 DEF Prepared, DriverSettles, Finish, subVars, resetVars, Waiting
  <2>2. /\ \A q \in Request \ {r} : stage'[q] = stage[q] /\ made'[q] = made[q]
        /\ stage'[r] \in Waiting \cup Microtask
        /\ stage'[r] \in Microtask => made'[r] = schemaVersion
    BY <1>0, <1>6 DEF Prepared, DriverSettles, Finish, TypeOK, Waiting, Microtask
  <2>3. Kept
    BY <2>1, <2>2 DEF Kept, Waiting
  <2>4. SentOK'
    BY <1>0, <2>1, <2>3, Silent
  <2>5. FlightOK'
    BY <1>0, <2>1, <2>2
    DEF FlightOK, InFlight, Waiting, Microtask, ResetAfterAnswer, TypeOK
  <2> QED
    BY <2>4, <2>5
<1>7. ASSUME NEW r \in Request, NEW ok \in BOOLEAN,
             FloatingSettles(r, ok) \/ TimerFires(r, ok)
      PROVE  SentOK' /\ FlightOK'
  <2>1. /\ UNCHANGED <<socket, schemaVersion, receiveEvents, stage, made, inForce, sent>>
        /\ timers' \subseteq timers
        /\ began' \subseteq began \cup timers
        /\ began' # began => \A q \in Request : stage[q] \notin Microtask
    BY <1>7 DEF FloatingSettles, TimerFires, Idle, subVars
  <2>2. SentOK'
    BY <1>0, <2>1, Silent DEF Kept
  <2>3. FlightOK'
    BY <1>0, <2>1 DEF FlightOK, InFlight, ResetAfterAnswer, TypeOK
  <2> QED
    BY <2>2, <2>3
<1>8. ASSUME (\E r \in Request : Progress(r) \/ AskClient(r)) \/ LogEntry \/ DriverReady
      PROVE  SentOK' /\ FlightOK'
  <2>1. UNCHANGED <<socket, schemaVersion, receiveEvents, stage, made, inForce,
                    timers, began>>
    BY <1>8 DEF Progress, AskClient, LogEntry, DriverReady, subVars, resetVars
  <2>2. schemaVersion \in Nat
    BY <1>0, VersionsAreNumbers
  <2>3. SentOK'
    <3>1. CASE sent' = sent
      BY <1>0, <2>1, <3>1, Silent DEF Kept
    <3>2. ASSUME NEW r \in Request \cup {0}, NEW kind \in Events,
                 kind \in NetworkEvents => receiveEvents,
                 SendData(kind, r, schemaVersion)
          PROVE  SentOK'
      <4>1. kind \notin {"answer", "state", "error"}
        BY DEF Events, NetworkEvents, OwnEvents
      <4> QED
        BY <1>0, <2>1, <2>2, <3>2, <4>1, Speaks DEF Kept
    <3> QED
      BY <1>8, <3>1, <3>2, EventsSent
  <2>4. FlightOK'
    BY <1>0, <2>1 DEF FlightOK, InFlight, ResetAfterAnswer
  <2> QED
    BY <2>3, <2>4
<1>9. CASE Unparsable \/ Close \/ UNCHANGED vars
  <2>1. /\ UNCHANGED <<schemaVersion, receiveEvents, stage, made, inForce, sent,
                       timers, began>>
        /\ socket' = "open" => socket = "open"
    BY <1>9 DEF Unparsable, Close, vars, subVars, resetVars
  <2>2. SentOK'
    BY <1>0, <2>1, Silent DEF Kept
  <2>3. FlightOK'
    BY <1>0, <2>1 DEF FlightOK, InFlight, ResetAfterAnswer
  <2> QED
    BY <2>2, <2>3
<1> QED
  BY <1>2, <1>3, <1>4, <1>5, <1>6, <1>7, <1>8, <1>9 DEF Next, ReceiveMessage, Commands

-----------------------------------------------------------------------------
(* Rejections                                                               *)

\* An answer that is sent is one more answer to its request, and no event is.
LEMMA AnswersGrow ==
    ASSUME TypeOK, NEW m \in Message, sent' = Append(sent, m), NEW q \in Request
    PROVE  AnswersTo(q)' = IF q = m.req /\ IsAnswer(m)
                           THEN AnswersTo(q) \cup {Len(sent) + 1} ELSE AnswersTo(q)
<1>1. sent \in Seq(Message)
  BY DEF TypeOK
<1>2. \A i \in DOMAIN sent : i \in DOMAIN sent' /\ sent'[i] = sent[i]
  BY <1>1, OneMore
<1>3. /\ Len(sent) + 1 \in DOMAIN sent' /\ sent'[Len(sent) + 1] = m
      /\ \A i \in DOMAIN sent' : i \in DOMAIN sent \/ i = Len(sent) + 1
  BY <1>1, OneMore
<1> QED
  BY <1>2, <1>3 DEF AnswersTo, IsAnswer

\* Nothing is sent for a request before its answer.
LEMMA NoneBefore ==
    ASSUME OrderInv, NEW r \in Request, stage[r] # "answered"
    PROVE  AnswersTo(r) = {}
BY DEF OrderInv, AnswersTo

AllErrors(q) == \A i \in AnswersTo(q) : sent[i].kind = "error"

\* A step that does not answer q.
LEMMA NoNewAnswer ==
    ASSUME TypeOK, NEW q \in Request, AllErrors(q),
           \/ sent' = sent
           \/ \E m \in Message : sent' = Append(sent, m) /\ ~(m.req = q /\ IsAnswer(m))
    PROVE  AllErrors(q)'
<1>1. CASE sent' = sent
  BY <1>1 DEF AllErrors, AnswersTo, IsAnswer
<1>2. ASSUME NEW m \in Message, sent' = Append(sent, m), ~(m.req = q /\ IsAnswer(m))
      PROVE  AllErrors(q)'
  <2>1. AnswersTo(q)' = AnswersTo(q)
    BY <1>2, AnswersGrow
  <2>2. \A i \in AnswersTo(q) : sent'[i] = sent[i]
    BY <1>2, OneMore DEF TypeOK, AnswersTo
  <2> QED
    BY <2>1, <2>2 DEF AllErrors
<1> QED
  BY <1>1, <1>2

\* What is sent stays where it is.
LEMMA AppendedLast ==
    ASSUME TypeOK, NEW m \in Message, sent' = Append(sent, m)
    PROVE  /\ \A i \in DOMAIN sent : sent'[i] = sent[i]
           /\ sent'[Len(sent) + 1] = m
<1>1. sent \in Seq(Message)
  BY DEF TypeOK
<1> QED
  BY <1>1, OneMore

\* A step that sends, for r if it is an answer.
LEMMA SendsFor ==
    ASSUME TypeOK, NEW kind \in {"answer", "state", "error"} \cup Events,
           NEW r \in Request \cup {0}, NEW form \in Nat, SendData(kind, r, form),
           NEW q \in Request, AllErrors(q),
           q = r => kind \notin {"answer", "state"}
    PROVE  AllErrors(q)'
<1>1. CASE socket # "open"
  BY <1>1, NoNewAnswer DEF SendData
<1>2. CASE socket = "open"
  <2>1. PICK m \in Message : /\ sent' = Append(sent, m)
                             /\ m.kind = kind /\ m.req = r
    <3>1. [kind |-> kind, req |-> r, form |-> form] \in Message
      BY DEF Message, Events
    <3> QED
      BY <1>2, <3>1 DEF SendData
  <2>2. CASE m.req = q /\ IsAnswer(m)
    <3>1. AnswersTo(q)' = AnswersTo(q) \cup {Len(sent) + 1} /\ m.kind = "error"
      BY <2>1, <2>2, AnswersGrow DEF IsAnswer
    <3>2. /\ \A i \in AnswersTo(q) : sent'[i] = sent[i]
          /\ sent'[Len(sent) + 1] = m
      BY <2>1, AppendedLast DEF AnswersTo
    <3> QED
      BY <3>1, <3>2 DEF AllErrors
  <2>3. CASE ~(m.req = q /\ IsAnswer(m))
    BY <2>1, <2>3, NoNewAnswer
  <2> QED
    BY <2>2, <2>3
<1> QED
  BY <1>1, <1>2

\* The calls whose handlers wait for them.
AwaitedCall(r) == command[r] \notin {"virtual", "hard_reset"}

\* The first parts of RejectionInv, without the answers.
RejectedOK ==
    /\ \A r \in Request : stage[r] \in Waiting => AwaitedCall(r)
    /\ \A r \in floating : command[r] = "virtual" /\ stage[r] \in {"result", "answered"}
    /\ \A r \in timers : command[r] = "hard_reset"
    /\ \A r \in rejected : stage[r] = "answered" \/ (stage[r] = "failed" /\ AwaitedCall(r))

LEMMA RejectionParts ==
    RejectionInv <=>
        /\ RejectedOK
        /\ \A r \in rejected : stage[r] = "answered" /\ AwaitedCall(r) => AllErrors(r)
BY DEF RejectionInv, RejectedOK, AwaitedCall, AllErrors, AwaitedFailuresAreAnswered

LEMMA RejectionPartsNext ==
    ASSUME RejectedOK',
           \A r \in rejected' : stage'[r] = "answered" /\ AwaitedCall(r)' => AllErrors(r)'
    PROVE  RejectionInv'
BY DEF RejectionInv, RejectedOK, AwaitedCall, AllErrors, AwaitedFailuresAreAnswered

LEMMA InitRejectionInv == Init => RejectionInv
BY DEF Init, RejectionInv, AwaitedFailuresAreAnswered, Waiting

LEMMA StepRejectionInv == ASSUME OrderInv, RejectionInv, [Next]_vars PROVE RejectionInv'
<1>0. TypeOK /\ RejectedOK /\ \A q \in Request : stage[q] # "answered" => AllErrors(q)
  BY RejectionParts, NoneBefore DEF OrderInv, AllErrors
<1>1. \A q \in rejected : AwaitedCall(q) => q \in Request /\ AllErrors(q)
  BY <1>0, RejectionParts DEF RejectedOK, TypeOK
\* A request that is read was not known before.
<1>2. ASSUME NEW r \in Request, stage[r] = "unsent",
             NEW c \in Commands, command' = [command EXCEPT ![r] = c],
             \A q \in Request \ {r} : stage'[q] = stage[q],
             rejected' = rejected,
             \/ timers' = timers
             \/ c = "hard_reset" /\ timers' = timers \cup {r},
             \/ floating' = floating
             \/ c = "virtual" /\ stage'[r] = "result" /\ floating' = floating \cup {r},
             stage'[r] \in Waiting => c \notin {"virtual", "hard_reset"},
             \A q \in Request \ {r} : AllErrors(q) => AllErrors(q)'
      PROVE  RejectionInv'
  <2>1. r \notin floating /\ r \notin rejected /\ r \notin timers
    BY <1>0, <1>2 DEF RejectedOK, OrderInv, Microtask
  <2>2. \A q \in Request : command'[q] = IF q = r THEN c ELSE command[q]
    BY <1>0, <1>2 DEF TypeOK
  <2>3. RejectedOK'
    BY <1>0, <1>2, <2>1, <2>2 DEF RejectedOK, AwaitedCall, TypeOK
  <2>4. \A q \in rejected' : AwaitedCall(q)' => AllErrors(q)'
    BY <1>0, <1>1, <1>2, <2>1, <2>2 DEF AwaitedCall, TypeOK
  <2> QED
    BY <2>3, <2>4, RejectionPartsNext
<1>3. ASSUME NEW r \in Request, NEW v \in Version, SetSchemaVersion(r, v)
      PROVE  RejectionInv'
  <2>1. v \in Nat
    BY SessionConstants
  <2>2. ASSUME NEW q \in Request \ {r}, AllErrors(q) PROVE AllErrors(q)'
    BY <1>0, <1>3, <2>1, <2>2, SendsFor
    DEF SetSchemaVersion, SendResultSuccess, SendResultError
  <2>3. /\ stage[r] = "unsent" /\ command' = [command EXCEPT ![r] = "set_api_schema"]
        /\ \A q \in Request \ {r} : stage'[q] = stage[q]
        /\ UNCHANGED <<rejected, timers, floating>> /\ "set_api_schema" \in Commands
        /\ stage'[r] \notin Waiting
    BY <1>0, <1>3 DEF SetSchemaVersion, Take, SendResultSuccess, SendResultError,
       callVars, resetVars, TypeOK, Commands, Waiting
  <2> QED
    BY <2>2, <2>3, <1>2
<1>4. ASSUME NEW r \in Request,
             StartListening(r) \/ UnknownCommand(r) \/ \E on \in BOOLEAN : ListenLogs(r, on)
      PROVE  RejectionInv'
  <2>1. schemaVersion \in Nat
    BY <1>0, VersionsAreNumbers
  <2>2. ASSUME NEW q \in Request \ {r}, AllErrors(q) PROVE AllErrors(q)'
    BY <1>0, <1>4, <2>1, <2>2, SendsFor
    DEF StartListening, UnknownCommand, ListenLogs, Listen, SendResultSuccess,
        SendResultError
  <2>3. PICK c \in Commands : command' = [command EXCEPT ![r] = c]
    BY <1>4 DEF StartListening, UnknownCommand, ListenLogs, Take, Commands
  <2>4. /\ stage[r] = "unsent"
        /\ \A q \in Request \ {r} : stage'[q] = stage[q]
        /\ UNCHANGED <<rejected, timers, floating>> /\ stage'[r] \notin Waiting
    BY <1>0, <1>4 DEF StartListening, UnknownCommand, ListenLogs, Listen, Take,
       SendResultSuccess, SendResultError, callVars, resetVars, TypeOK, Waiting
  <2> QED
    BY <2>2, <2>3, <2>4, <1>2
<1>5. ASSUME NEW r \in Request, NEW found \in BOOLEAN,
             NEW c \in {"query", "call", "firmware", "inclusion", "virtual"},
             Handle(r, c, found)
      PROVE  RejectionInv'
  <2>1. \A q \in Request : AllErrors(q) => AllErrors(q)'
    BY <1>0, <1>5, NoNewAnswer DEF Handle, Finish
  <2>2. /\ stage[r] = "unsent" /\ command' = [command EXCEPT ![r] = c]
        /\ \A q \in Request \ {r} : stage'[q] = stage[q]
        /\ UNCHANGED <<rejected, timers>>
        /\ \/ floating' = floating
           \/ c = "virtual" /\ stage'[r] = "result" /\ floating' = floating \cup {r}
        /\ stage'[r] \in Waiting => c \notin {"virtual", "hard_reset"}
        /\ c \in Commands
    BY <1>0, <1>5
    DEF Handle, Take, Finish, Floats, resetVars, TypeOK, Commands, Waiting, Microtask
  <2> QED
    BY <2>1, <2>2, <1>2
<1>6. ASSUME NEW r \in Request,
             HardReset(r) \/ \E on \in BOOLEAN : DriverListenLogs(r, on)
      PROVE  RejectionInv'
  <2>1. \A q \in Request : AllErrors(q) => AllErrors(q)'
    BY <1>0, <1>6, NoNewAnswer DEF HardReset, DriverListenLogs, Finish
  <2>2. PICK c \in Commands :
            /\ command' = [command EXCEPT ![r] = c]
            /\ timers' = timers \/ (c = "hard_reset" /\ timers' = timers \cup {r})
    BY <1>6 DEF HardReset, DriverListenLogs, ResetLater, resetVars, Take, Commands
  <2>3. /\ stage[r] = "unsent"
        /\ \A q \in Request \ {r} : stage'[q] = stage[q]
        /\ UNCHANGED <<rejected, floating>> /\ stage'[r] \notin Waiting
    BY <1>0, <1>6
    DEF HardReset, DriverListenLogs, Take, Finish, callVars, TypeOK, Waiting
  <2> QED
    BY <2>1, <2>2, <2>3, <1>2
\* A rejected call that was awaited comes out of the catch clause.
<1>7. ASSUME NEW r \in Request, Answer(r)
      PROVE  RejectionInv'
  <2>1. /\ \A q \in Request : stage'[q] = IF q = r THEN "answered" ELSE stage[q]
        /\ UNCHANGED <<command, floating, rejected, timers>>
        /\ stage[r] \in Microtask
    BY <1>0, <1>7 DEF Answer, SendResultSuccess, SendResultError, callVars, resetVars,
       TypeOK
  <2>2. made[r] \in Nat /\ schemaVersion \in Nat
    BY <1>0, VersionsAreNumbers
  <2>3. RejectedOK'
    BY <1>0, <2>1 DEF RejectedOK, AwaitedCall, Waiting, TypeOK
  <2>4. ASSUME NEW q \in rejected, AwaitedCall(q) PROVE AllErrors(q)'
    <3>1. q \in Request /\ AllErrors(q)
      BY <1>1, <2>4
    <3>2. q = r => stage[r] = "failed"
      BY <1>0, <2>1, <2>4 DEF RejectedOK, Microtask
    <3>3. PICK kind \in {"answer", "error"}, form \in {made[r], schemaVersion} :
              SendData(kind, r, form) /\ (stage[r] = "failed" => kind = "error")
      BY <1>7 DEF Answer, SendResultSuccess, SendResultError
    <3> QED
      BY <1>0, <2>2, <3>1, <3>2, <3>3, SendsFor
  <2> QED
    BY <2>1, <2>3, <2>4, RejectionPartsNext DEF AwaitedCall
<1>8. ASSUME NEW r \in Request, NEW ok \in BOOLEAN,
             Prepared(r, ok) \/ DriverSettles(r, ok)
      PROVE  RejectionInv'
  <2>1. /\ stage[r] \in Waiting /\ stage'[r] \in Waiting \cup Microtask
        /\ \A q \in Request \ {r} : stage'[q] = stage[q]
        /\ UNCHANGED <<command, floating, timers, sent>>
        /\ \/ rejected' = rejected
           \/ stage'[r] = "failed" /\ rejected' = rejected \cup {r}
    BY <1>0, <1>8 DEF Prepared, DriverSettles, Finish, NoteOutcome, callVars, resetVars,
       TypeOK, Waiting, Microtask
  <2>2. r \notin floating /\ r \notin timers /\ r \notin rejected
    BY <1>0, <2>1 DEF RejectedOK, OrderInv, Waiting, Microtask
  <2>3. rejected' # rejected => AwaitedCall(r)
    BY <1>0, <2>1 DEF RejectedOK
  <2>4. RejectedOK'
    BY <1>0, <2>1, <2>2, <2>3 DEF RejectedOK, AwaitedCall, TypeOK, Waiting, Microtask
  <2>5. ASSUME NEW q \in rejected', stage'[q] = "answered", AwaitedCall(q)'
        PROVE  AllErrors(q)'
    BY <1>0, <1>1, <2>1, <2>2, <2>5, NoNewAnswer DEF AwaitedCall, Waiting, Microtask
  <2> QED
    BY <2>4, <2>5, RejectionPartsNext
<1>9. ASSUME NEW r \in Request, NEW ok \in BOOLEAN,
             FloatingSettles(r, ok) \/ TimerFires(r, ok)
      PROVE  RejectionInv'
  <2>1. /\ UNCHANGED <<command, stage, sent>>
        /\ floating' \subseteq floating /\ timers' \subseteq timers
        /\ rejected' \subseteq rejected \cup {r}
        /\ r \in floating \/ r \in timers
        /\ stage[r] \notin Microtask
    BY <1>9 DEF FloatingSettles, TimerFires, NoteOutcome, Idle
  <2>2. stage[r] = "answered" /\ ~AwaitedCall(r)
    BY <1>0, <2>1 DEF RejectedOK, OrderInv, Microtask, AwaitedCall
  <2>3. RejectedOK'
    BY <1>0, <2>1, <2>2 DEF RejectedOK, AwaitedCall
  <2>4. ASSUME NEW q \in rejected', AwaitedCall(q)' PROVE AllErrors(q)'
    BY <1>0, <1>1, <2>1, <2>2, <2>4, NoNewAnswer DEF AwaitedCall
  <2> QED
    BY <2>3, <2>4, RejectionPartsNext
<1>10. ASSUME (\E r \in Request : Progress(r) \/ AskClient(r)) \/ LogEntry \/ DriverReady
       PROVE  RejectionInv'
  <2>1. UNCHANGED <<command, stage, floating, rejected, timers>>
    BY <1>10 DEF Progress, AskClient, LogEntry, DriverReady, callVars, resetVars
  <2>2. ASSUME NEW q \in Request, AllErrors(q) PROVE AllErrors(q)'
    <3>1. CASE sent' = sent
      BY <1>0, <2>2, <3>1, NoNewAnswer
    <3>2. CASE sent' # sent
      <4>1. PICK r \in Request \cup {0}, kind \in Events :
                SendData(kind, r, schemaVersion)
        BY <1>10, <3>2, EventsSent
      <4>2. kind \notin {"answer", "state"}
        BY DEF Events, NetworkEvents, OwnEvents
      <4> QED
        BY <1>0, <2>2, <4>1, <4>2, SendsFor, VersionsAreNumbers
    <3> QED
      BY <3>1, <3>2
  <2>3. RejectedOK'
    BY <1>0, <2>1 DEF RejectedOK, AwaitedCall
  <2> QED
    BY <1>1, <2>1, <2>2, <2>3, RejectionPartsNext DEF AwaitedCall
<1>11. CASE Unparsable \/ Close \/ UNCHANGED vars
  <2>1. UNCHANGED <<command, stage, floating, rejected, timers, sent>>
    BY <1>11 DEF Unparsable, Close, vars, callVars, resetVars
  <2>2. \A q \in Request : AllErrors(q) => AllErrors(q)'
    BY <1>0, <2>1, NoNewAnswer
  <2>3. RejectedOK'
    BY <1>0, <2>1 DEF RejectedOK, AwaitedCall
  <2> QED
    BY <1>1, <2>1, <2>2, <2>3, RejectionPartsNext DEF AwaitedCall
<1> QED
  BY <1>3, <1>4, <1>5, <1>6, <1>7, <1>8, <1>9, <1>10, <1>11
  DEF Next, ReceiveMessage, Commands

-----------------------------------------------------------------------------
(* What is sent unasked                                                     *)

\* The parts of AskedInv about the requests.
OrderlyOK ==
    /\ \A r \in Request : stage[r] = "unsent" => command[r] = "none"
    /\ \A q, r \in Request : q < r /\ stage[r] # "unsent" => stage[q] # "unsent"
    /\ receiveLogs =>
           \E p \in Request :
               /\ command[p] = "start_listening_logs"
               /\ \A q \in Request : command[q] = "stop_listening_logs" => q < p
    /\ \A r \in including : command[r] = "inclusion"

LEMMA AskedParts == AskedInv <=> OrderlyOK /\ LogsWereAskedFor /\ QuestionsWereAskedFor
BY DEF AskedInv, OrderlyOK

LEMMA AskedPartsNext ==
    ASSUME OrderlyOK', LogsWereAskedFor', QuestionsWereAskedFor' PROVE AskedInv'
BY DEF AskedInv, OrderlyOK

\* A step sends nothing, or one message: a log entry only while they are on, a
\* question only about an inclusion.
Speech ==
    \/ sent' = sent
    \/ \E m \in Message :
          /\ sent' = Append(sent, m)
          /\ m.kind = "log" => receiveLogs
          /\ m.kind = "question" => m.req \in Request /\ command[m.req] = "inclusion"

LEMMA SpeechOf ==
    ASSUME TypeOK, NEW kind \in {"answer", "state", "error"} \cup Events,
           NEW r \in Request \cup {0}, NEW form \in Nat, SendData(kind, r, form),
           kind = "log" => receiveLogs,
           kind = "question" => r \in Request /\ command[r] = "inclusion"
    PROVE  Speech
<1>1. [kind |-> kind, req |-> r, form |-> form] \in Message
  BY DEF Message, Events
<1> QED
  BY <1>1 DEF Speech, SendData

\* Commands of requests that were read stay what they are.
LEMMA AskedForStays ==
    ASSUME OrderInv, AskedInv, Speech,
           \A q \in Request : stage[q] # "unsent" => command'[q] = command[q]
    PROVE  LogsWereAskedFor' /\ QuestionsWereAskedFor'
<1>0. sent \in Seq(Message)
  BY DEF OrderInv, TypeOK
<1>1. \A i \in DOMAIN sent : IsAnswer(sent[i]) =>
          sent[i].req \in Request /\ command'[sent[i].req] = command[sent[i].req]
  BY DEF OrderInv
<1>2. \A p \in Request : command[p] # "none" => command'[p] = command[p]
  BY DEF AskedInv
<1>3. CASE sent' = sent
  <2>1. ASSUME NEW i \in DOMAIN sent, sent[i].kind = "log"
        PROVE  \E p \in Request :
                   /\ command'[p] = "start_listening_logs"
                   /\ \A j \in 1..(i - 1) : IsAnswer(sent[j])
                         /\ command'[sent[j].req] = "stop_listening_logs" => sent[j].req < p
    <3>1. PICK p \in Request :
              /\ command[p] = "start_listening_logs"
              /\ \A j \in 1..(i - 1) : IsAnswer(sent[j])
                    /\ command[sent[j].req] = "stop_listening_logs" => sent[j].req < p
      BY <2>1 DEF AskedInv, LogsWereAskedFor
    <3>2. \A j \in 1..(i - 1) : j \in DOMAIN sent
      BY <1>0, Indices
    <3> QED
      BY <1>1, <1>2, <3>1, <3>2
  <2>2. LogsWereAskedFor'
    BY <1>3, <2>1 DEF LogsWereAskedFor, IsAnswer
  <2>3. QuestionsWereAskedFor'
    BY <1>2, <1>3 DEF AskedInv, QuestionsWereAskedFor
  <2> QED
    BY <2>2, <2>3
<1>4. ASSUME NEW m \in Message, sent' = Append(sent, m),
             m.kind = "log" => receiveLogs,
             m.kind = "question" => m.req \in Request /\ command[m.req] = "inclusion"
      PROVE  LogsWereAskedFor' /\ QuestionsWereAskedFor'
  <2>1. /\ DOMAIN sent = 1..Len(sent) /\ Len(sent) \in Nat
        /\ DOMAIN sent' = 1..(Len(sent) + 1)
        /\ \A i \in 1..Len(sent) : sent'[i] = sent[i]
        /\ sent'[Len(sent) + 1] = m
    BY <1>0, <1>4, OneMore
  <2>2. ASSUME NEW i \in DOMAIN sent', sent'[i].kind = "log"
        PROVE  \E p \in Request :
                   /\ command'[p] = "start_listening_logs"
                   /\ \A j \in 1..(i - 1) : IsAnswer(sent'[j])
                         /\ command'[sent'[j].req] = "stop_listening_logs" => sent'[j].req < p
    <3>1. PICK p \in Request :
              /\ command[p] = "start_listening_logs"
              /\ \A j \in 1..(i - 1) : IsAnswer(sent[j])
                    /\ command[sent[j].req] = "stop_listening_logs" => sent[j].req < p
      <4>1. CASE i \in DOMAIN sent
        BY <2>1, <2>2, <4>1 DEF AskedInv, LogsWereAskedFor
      <4>2. CASE i = Len(sent) + 1
        <5>1. PICK p \in Request :
                  /\ command[p] = "start_listening_logs"
                  /\ \A q \in Request : command[q] = "stop_listening_logs" => q < p
          BY <1>4, <2>1, <2>2, <4>2 DEF AskedInv
        <5>2. \A j \in 1..(i - 1) : j \in DOMAIN sent
          BY <2>1, <4>2
        <5> QED
          BY <1>1, <5>1, <5>2
      <4> QED
        BY <2>1, <4>1, <4>2
    <3>2. \A j \in 1..(i - 1) : j \in DOMAIN sent /\ sent'[j] = sent[j]
      BY <2>1
    <3> QED
      BY <1>1, <1>2, <3>1, <3>2
  <2>3. LogsWereAskedFor'
    BY <2>2 DEF LogsWereAskedFor, IsAnswer
  <2>4. ASSUME NEW i \in DOMAIN sent', sent'[i].kind = "question"
        PROVE  sent'[i].req \in Request /\ command'[sent'[i].req] = "inclusion"
    <3>1. sent'[i].req \in Request /\ command[sent'[i].req] = "inclusion"
      BY <1>4, <2>1, <2>4 DEF AskedInv, QuestionsWereAskedFor
    <3> QED
      BY <1>2, <3>1
  <2>5. QuestionsWereAskedFor'
    BY <2>4 DEF QuestionsWereAskedFor
  <2> QED
    BY <2>3, <2>5
<1> QED
  BY <1>3, <1>4 DEF Speech

\* A request that is read: it is the next one, and it may turn log entries on
\* or off.
LEMMA Taken ==
    ASSUME OrderInv, AskedInv, Speech, NEW r \in Request, NEW c, Take(r, c),
           stage'[r] # "unsent", \A q \in Request \ {r} : stage'[q] = stage[q],
           including' = including,
           \/ receiveLogs' = receiveLogs /\ c # "stop_listening_logs"
           \/ receiveLogs' /\ c = "start_listening_logs"
           \/ ~receiveLogs'
    PROVE  AskedInv'
<1>1. /\ stage[r] = "unsent" /\ command[r] = "none"
      /\ \A q \in Request : command'[q] = IF q = r THEN c ELSE command[q]
  BY DEF Take, OrderInv, TypeOK, AskedInv
<1>2. \A q \in Request : stage[q] # "unsent" => q < r
  BY <1>1 DEF AskedInv, Request
<1>3. \A q \in Request : q < r => stage[q] # "unsent"
  BY DEF Take, Request
<1>4. /\ \A q \in Request : stage'[q] = "unsent" => command'[q] = "none"
      /\ \A q \in Request : stage'[q] # "unsent" <=> q = r \/ stage[q] # "unsent"
  BY <1>1 DEF AskedInv
<1>5. \A p, q \in Request : p < q /\ stage'[q] # "unsent" => stage'[p] # "unsent"
  BY <1>3, <1>4 DEF AskedInv
<1>6. receiveLogs' => \E p \in Request :
          /\ command'[p] = "start_listening_logs"
          /\ \A q \in Request : command'[q] = "stop_listening_logs" => q < p
  <2>1. CASE c = "start_listening_logs"
    BY <1>1, <1>2, <2>1 DEF AskedInv
  <2>2. CASE receiveLogs /\ c # "stop_listening_logs"
    BY <1>1, <2>2 DEF AskedInv
  <2> QED
    BY <2>1, <2>2
<1>7. \A q \in including' : command'[q] = "inclusion"
  BY <1>1 DEF AskedInv, OrderInv, TypeOK
<1>8. OrderlyOK'
  BY <1>4, <1>5, <1>6, <1>7 DEF OrderlyOK
<1>9. LogsWereAskedFor' /\ QuestionsWereAskedFor'
  BY <1>1, AskedForStays
<1> QED
  BY <1>8, <1>9, AskedPartsNext

\* A step that reads no request.
LEMMA NotTaken ==
    ASSUME OrderInv, AskedInv, Speech,
           \A q \in Request : stage'[q] # "unsent" <=> stage[q] # "unsent",
           UNCHANGED <<command, receiveLogs>>,
           \A q \in including' : q \in including \/ command[q] = "inclusion"
    PROVE  AskedInv'
<1>1. OrderlyOK'
  BY DEF OrderlyOK, AskedInv
<1>2. LogsWereAskedFor' /\ QuestionsWereAskedFor'
  BY AskedForStays
<1> QED
  BY <1>1, <1>2, AskedPartsNext

LEMMA InitAskedInv == Init => AskedInv
BY DEF Init, AskedInv, LogsWereAskedFor, QuestionsWereAskedFor

LEMMA StepAskedInv == ASSUME OrderInv, AskedInv, [Next]_vars PROVE AskedInv'
<1>0. TypeOK /\ schemaVersion \in Nat /\ \A r \in Request : made[r] \in Nat
  BY VersionsAreNumbers DEF OrderInv
<1>1. ASSUME NEW r \in Request, NEW kind \in {"answer", "state", "error"},
             NEW form \in Nat, SendData(kind, r, form)
      PROVE  Speech
  <2>1. kind # "log" /\ kind # "question"
    OBVIOUS
  <2> QED
    BY <1>0, <1>1, <2>1, SpeechOf
<1>2. sent' = sent => Speech
  BY DEF Speech
<1>3. ASSUME NEW r \in Request, NEW v \in Version, SetSchemaVersion(r, v)
      PROVE  AskedInv'
  <2>1. v \in Nat
    BY SessionConstants
  <2>2. Speech
    BY <1>1, <1>3, <2>1 DEF SetSchemaVersion, SendResultSuccess, SendResultError
  <2>3. /\ stage' = [stage EXCEPT ![r] = "answered"] /\ Take(r, "set_api_schema")
        /\ UNCHANGED <<receiveLogs, including>>
    BY <1>3 DEF SetSchemaVersion, SendResultSuccess, SendResultError, subVars, callVars
  <2>4. stage'[r] # "unsent" /\ \A q \in Request \ {r} : stage'[q] = stage[q]
    BY <1>0, <2>3 DEF TypeOK
  <2> QED
    BY <2>2, <2>3, <2>4, Taken
<1>4. ASSUME NEW r \in Request,
             StartListening(r) \/ UnknownCommand(r) \/ \E on \in BOOLEAN : ListenLogs(r, on)
      PROVE  AskedInv'
  <2>1. Speech
    BY <1>0, <1>1, <1>4
    DEF StartListening, UnknownCommand, ListenLogs, Listen, SendResultSuccess,
        SendResultError
  <2>2. /\ stage' = [stage EXCEPT ![r] = "answered"]
        /\ including' = including
    BY <1>4 DEF StartListening, UnknownCommand, ListenLogs, Listen, SendResultSuccess,
       SendResultError, callVars
  <2>3. PICK c : /\ Take(r, c)
                 /\ \/ receiveLogs' = receiveLogs /\ c # "stop_listening_logs"
                    \/ receiveLogs' /\ c = "start_listening_logs"
                    \/ ~receiveLogs'
    BY <1>4 DEF StartListening, UnknownCommand, ListenLogs, subVars
  <2>4. stage'[r] # "unsent" /\ \A q \in Request \ {r} : stage'[q] = stage[q]
    BY <1>0, <2>2 DEF TypeOK
  <2> QED
    BY <2>1, <2>2, <2>3, <2>4, Taken
<1>5. ASSUME NEW r \in Request, NEW found \in BOOLEAN,
             NEW c \in {"query", "call", "firmware", "inclusion", "virtual"},
             Handle(r, c, found)
      PROVE  AskedInv'
  <2>1. Take(r, c) /\ c # "stop_listening_logs" /\ UNCHANGED <<receiveLogs, including, sent>>
    BY <1>5 DEF Handle, Finish, subVars
  <2>2. stage'[r] # "unsent" /\ \A q \in Request \ {r} : stage'[q] = stage[q]
    BY <1>0, <1>5 DEF Handle, Finish, TypeOK
  <2> QED
    BY <1>2, <2>1, <2>2, Taken
<1>6. ASSUME NEW r \in Request,
             HardReset(r) \/ \E on \in BOOLEAN : DriverListenLogs(r, on)
      PROVE  AskedInv'
  <2>1. UNCHANGED <<including, sent>>
    BY <1>6 DEF HardReset, DriverListenLogs, Finish, callVars
  <2>2. PICK c : /\ Take(r, c)
                 /\ \/ receiveLogs' = receiveLogs /\ c # "stop_listening_logs"
                    \/ receiveLogs' /\ c = "start_listening_logs"
                    \/ ~receiveLogs'
    <3>1. HardReset(r) => Take(r, "hard_reset") /\ receiveLogs' = receiveLogs
      BY DEF HardReset, subVars
    <3>2. ASSUME NEW on \in BOOLEAN, DriverListenLogs(r, on)
          PROVE  \/ receiveLogs' /\ Take(r, "start_listening_logs")
                 \/ ~receiveLogs' /\ Take(r, "stop_listening_logs")
      BY <3>2 DEF DriverListenLogs
    <3> QED
      BY <1>6, <3>1, <3>2
  <2>3. stage'[r] # "unsent" /\ \A q \in Request \ {r} : stage'[q] = stage[q]
    BY <1>0, <1>6 DEF HardReset, DriverListenLogs, Finish, TypeOK
  <2> QED
    BY <1>2, <2>1, <2>2, <2>3, Taken
<1>7. ASSUME NEW r \in Request, Answer(r)
      PROVE  AskedInv'
  <2>1. Speech
    BY <1>0, <1>1, <1>7 DEF Answer, SendResultSuccess, SendResultError
  <2>2. /\ stage[r] \in Microtask /\ stage' = [stage EXCEPT ![r] = "answered"]
        /\ UNCHANGED <<command, receiveLogs, including>>
    BY <1>7 DEF Answer, SendResultSuccess, SendResultError, subVars, callVars
  <2>3. \A q \in Request : stage'[q] # "unsent" <=> stage[q] # "unsent"
    BY <1>0, <2>2 DEF TypeOK, Microtask
  <2> QED
    BY <2>1, <2>2, <2>3, NotTaken
<1>8. ASSUME NEW r \in Request, NEW ok \in BOOLEAN,
             \/ Prepared(r, ok) \/ DriverSettles(r, ok)
             \/ FloatingSettles(r, ok) \/ TimerFires(r, ok)
      PROVE  AskedInv'
  <2>1. /\ UNCHANGED <<command, receiveLogs, sent>>
        /\ \A q \in including' : q \in including \/ command[q] = "inclusion"
    BY <1>8 DEF Prepared, DriverSettles, FloatingSettles, TimerFires, Finish, subVars
  <2>2. \A q \in Request : stage'[q] # "unsent" <=> stage[q] # "unsent"
    BY <1>0, <1>8 DEF Prepared, DriverSettles, FloatingSettles, TimerFires, Finish, TypeOK
  <2> QED
    BY <1>2, <2>1, <2>2, NotTaken
<1>9. ASSUME (\E r \in Request : Progress(r) \/ AskClient(r)) \/ LogEntry \/ DriverReady
      PROVE  AskedInv'
  <2>1. Speech
    <3>1. ASSUME NEW r \in Request, Progress(r) PROVE Speech
      BY <1>0, <1>2, <3>1, SpeechOf DEF Progress, TrySendEvent, Events, NetworkEvents
    <3>2. ASSUME NEW r \in Request, AskClient(r) PROVE Speech
      <4>1. command[r] = "inclusion" /\ SendData("question", r, schemaVersion)
        BY <3>2 DEF AskClient, AskedInv
      <4> QED
        BY <1>0, <4>1, SpeechOf DEF Events, OwnEvents
    <3>3. CASE LogEntry
      BY <1>0, <3>3, SpeechOf DEF LogEntry, Events, OwnEvents
    <3>4. CASE DriverReady
      BY <1>0, <1>2, <3>4, SpeechOf DEF DriverReady, TrySendEvent, Events, NetworkEvents
    <3> QED
      BY <1>9, <3>1, <3>2, <3>3, <3>4
  <2>2. UNCHANGED <<command, stage, receiveLogs, including>>
    BY <1>9 DEF Progress, AskClient, LogEntry, DriverReady, subVars, callVars
  <2> QED
    BY <2>1, <2>2, NotTaken
<1>10. CASE Unparsable \/ Close \/ UNCHANGED vars
  <2>1. UNCHANGED <<command, stage, receiveLogs, including, sent>>
    BY <1>10 DEF Unparsable, Close, vars, subVars, callVars
  <2> QED
    BY <1>2, <2>1, NotTaken
<1> QED
  BY <1>3, <1>4, <1>5, <1>6, <1>7, <1>8, <1>9, <1>10 DEF Next, ReceiveMessage

-----------------------------------------------------------------------------

\* The inductive invariant holds in every reachable state, for any number of
\* requests and any versions.
THEOREM InvariantHolds == Spec => []IInv
<1>1. Init => IInv
  BY InitOrderInv, InitRejectionInv, InitAskedInv DEF IInv
<1>2. IInv /\ [Next]_vars => IInv'
  BY StepOrderInv, StepRejectionInv, StepAskedInv DEF IInv
<1> QED
  BY <1>1, <1>2, PTL DEF Spec

\* No answer is in the form of a version that was in force only before its
\* request or after it, whatever the client asks for meanwhile.
THEOREM AnswersAreInForce == Spec => []AnswersInForce
BY InvariantHolds, PTL DEF IInv, OrderInv

\* Nothing comes unasked, with any number of requests whose handlers overtake
\* each other: a client that does not have the state gets no event of the
\* network, and of the events sent without asking whether it listens only log
\* entries it subscribed to and questions of an inclusion it began.
THEOREM EventsAreAskedFor == Spec => []EventsWereAskedFor
<1>1. IInv => EventsWereAskedFor
  BY DEF IInv, OrderInv, AskedInv, EventsWereAskedFor
<1> QED
  BY <1>1, InvariantHolds, PTL

\* No reset begins before its request is answered.
THEOREM ResetsComeLater == Spec => []ResetAfterAnswer
BY InvariantHolds, PTL DEF IInv, OrderInv

\* A command whose call the driver rejects is answered with an error and with
\* nothing else, unless its handler does not await the call: only invoke_cc_api
\* of virtual nodes is answered as a success before it fails.
THEOREM AwaitedFailuresAnswered == Spec => []AwaitedFailuresAreAnswered
BY InvariantHolds, PTL DEF IInv, RejectionInv

-----------------------------------------------------------------------------
(* The refinement                                                           *)

\* The phases and the answers that the abstract connection sees.
Phases    == [q \in Request |-> Phase(q)]
Delivered == [q \in Request |-> AnswersTo(q)]

LEMMA AnswersStay == sent' = sent => Delivered' = Delivered
BY DEF Delivered, AnswersTo, IsAnswer

\* A step that answers r delivers one answer, or none if the socket is not open.
LEMMA Delivers ==
    ASSUME OrderInv, NEW r \in Request, stage[r] # "answered",
           NEW kind \in {"answer", "state", "error"}, NEW form \in Nat,
           SendData(kind, r, form),
           stage' = [stage EXCEPT ![r] = "answered"],
           UNCHANGED <<socket, crashed>>
    PROVE  Connection!Deliver(r)
<1>1. TypeOK
  BY DEF OrderInv
<1>2. Phases' = [Phases EXCEPT ![r] = "answered"]
  <2>1. \A q \in Request : stage'[q] = IF q = r THEN "answered" ELSE stage[q]
    BY <1>1 DEF TypeOK
  <2>2. \A q \in Request : Phase(q)' = IF q = r THEN "answered" ELSE Phase(q)
    BY <2>1 DEF Phase
  <2> QED
    BY <2>2 DEF Phases
<1>3. CASE socket = "open"
  <2>0. AnswersTo(r) = {}
    BY NoneBefore
  <2> DEFINE m == [kind |-> kind, req |-> r, form |-> form]
  <2>1. ASSUME NEW q \in Request
        PROVE  AnswersTo(q)' = IF q = r THEN {Len(sent) + 1} ELSE AnswersTo(q)
    <3>1. m \in Message /\ m.req = r /\ IsAnswer(m)
      BY DEF Message, IsAnswer
    <3>2. sent' = Append(sent, m)
      BY <1>3 DEF SendData
    <3> HIDE DEF m
    <3>3. AnswersTo(q)' = IF q = m.req /\ IsAnswer(m)
                          THEN AnswersTo(q) \cup {Len(sent) + 1} ELSE AnswersTo(q)
      BY <1>1, <3>1, <3>2, AnswersGrow
    <3> QED
      BY <2>0, <3>1, <3>3
  <2>2. /\ Len(sent) + 1 \in Delivered'[r]
        /\ Delivered' = [Delivered EXCEPT ![r] = {Len(sent) + 1}]
    BY <2>1 DEF Delivered
  <2> QED
    BY <1>2, <1>3, <2>2 DEF Connection!Deliver, Phases, Delivered
<1>4. CASE socket # "open"
  <2>1. Delivered' = Delivered
    BY <1>4, AnswersStay DEF SendData
  <2> QED
    BY <1>2, <1>4, <2>1 DEF Connection!Deliver, Phases, Delivered
<1> QED
  BY <1>3, <1>4

\* A step that the client cannot see.
LEMMA Unseen ==
    ASSUME Phases' = Phases, Delivered' = Delivered, UNCHANGED crashed,
           socket' = "open" <=> socket = "open"
    PROVE  UNCHANGED Connection!vars
BY DEF Connection!vars, Phases, Delivered

LEMMA StepRefines ==
    ASSUME OrderInv, [Next]_vars PROVE [Connection!Next]_(Connection!vars)
<1>0. TypeOK
  BY DEF OrderInv
<1>1. ASSUME NEW r \in Request,
             \/ \E v \in Version : SetSchemaVersion(r, v)
             \/ StartListening(r) \/ UnknownCommand(r)
             \/ \E on \in BOOLEAN : ListenLogs(r, on)
      PROVE  Connection!AskAndAnswer(r)
  <2>1. /\ stage[r] = "unsent" /\ crashed = FALSE
        /\ stage' = [stage EXCEPT ![r] = "answered"]
        /\ UNCHANGED <<socket, crashed>>
    BY <1>0, <1>1 DEF SetSchemaVersion, StartListening, UnknownCommand, ListenLogs, Listen, Take,
       SendResultSuccess, SendResultError, resetVars, TypeOK
  <2>2. PICK kind \in {"answer", "state", "error"}, form \in Version \cup {0} :
            SendData(kind, r, form)
    BY <1>0, <1>1 DEF SetSchemaVersion, StartListening, UnknownCommand, ListenLogs, Listen,
       SendResultSuccess, SendResultError, TypeOK
  <2>3. form \in Nat
    BY SessionConstants
  <2>4. Connection!Deliver(r)
    BY <2>1, <2>2, <2>3, Delivers
  <2> QED
    BY <2>1, <2>4 DEF Connection!AskAndAnswer, Phase
<1>2. ASSUME NEW r \in Request, NEW c \in Commands, NEW found \in BOOLEAN,
             Handle(r, c, found) \/ HardReset(r)
             \/ \E on \in BOOLEAN : DriverListenLogs(r, on)
      PROVE  Connection!Ask(r)
  <2>1. /\ stage[r] = "unsent" /\ crashed = FALSE
        /\ UNCHANGED <<socket, crashed, sent>>
    BY <1>0, <1>2 DEF Handle, HardReset, DriverListenLogs, Take, Finish, ResetLater,
       resetVars, TypeOK
  <2>2. /\ \A q \in Request : q # r => stage'[q] = stage[q]
        /\ stage'[r] \in Waiting \cup Microtask
    BY <1>0, <1>2 DEF Handle, HardReset, DriverListenLogs, Finish, TypeOK, Waiting, Microtask
  <2>3. Phases' = [Phases EXCEPT ![r] = "asked"]
    <3>1. \A q \in Request : Phase(q)' = IF q = r THEN "asked" ELSE Phase(q)
      BY <2>2 DEF Phase, Waiting, Microtask
    <3> QED
      BY <3>1 DEF Phases
  <2> QED
    BY <2>1, <2>3, AnswersStay DEF Connection!Ask, Phases, Delivered, Phase
<1>3. ASSUME NEW r \in Request, Answer(r)
      PROVE  Connection!Answer(r)
  <2>1. /\ stage[r] \in Microtask /\ crashed = FALSE
        /\ stage' = [stage EXCEPT ![r] = "answered"]
        /\ UNCHANGED <<socket, crashed>>
    BY <1>0, <1>3 DEF Answer, SendResultSuccess, SendResultError, resetVars, TypeOK
  <2>2. PICK kind \in {"answer", "error"}, form \in {made[r], schemaVersion} :
            SendData(kind, r, form)
    BY <1>3 DEF Answer, SendResultSuccess, SendResultError
  <2>3. form \in Nat
    BY <1>0, VersionsAreNumbers
  <2>4. Connection!Deliver(r)
    BY <2>1, <2>2, <2>3, Delivers DEF Microtask
  <2> QED
    BY <2>1, <2>4 DEF Connection!Answer, Phase, Microtask
<1>4. ASSUME NEW r \in Request, NEW ok \in BOOLEAN,
             Prepared(r, ok) \/ DriverSettles(r, ok)
      PROVE  UNCHANGED Connection!vars
  <2>1. /\ UNCHANGED <<socket, crashed, sent>>
        /\ stage[r] \in Waiting /\ stage'[r] \in Waiting \cup Microtask
        /\ \A q \in Request \ {r} : stage'[q] = stage[q]
    BY <1>0, <1>4 DEF Prepared, DriverSettles, Finish, resetVars, TypeOK,
       Waiting, Microtask
  <2>2. Phases' = Phases
    BY <2>1 DEF Phases, Phase, Waiting, Microtask
  <2> QED
    BY <2>1, <2>2, AnswersStay, Unseen
<1>5. ASSUME NEW r \in Request, NEW ok \in BOOLEAN,
             FloatingSettles(r, ok) \/ TimerFires(r, ok)
      PROVE  [Connection!Next]_(Connection!vars)
  <2>1. /\ UNCHANGED <<socket, stage, sent>>
        /\ crashed = FALSE /\ crashed' \in BOOLEAN
    BY <1>0, <1>5 DEF FloatingSettles, TimerFires, TypeOK
  <2>2. Phases' = Phases /\ Delivered' = Delivered
    BY <2>1, AnswersStay DEF Phases, Phase
  <2>3. CASE crashed'
    BY <2>1, <2>2, <2>3 DEF Connection!Next, Connection!Die, Phases, Delivered
  <2>4. CASE ~crashed'
    BY <2>1, <2>2, <2>4, Unseen
  <2> QED
    BY <2>3, <2>4
<1>6. ASSUME (\E r \in Request : Progress(r) \/ AskClient(r)) \/ LogEntry \/ DriverReady
      PROVE  UNCHANGED Connection!vars
  <2>1. UNCHANGED <<socket, stage, crashed>>
    BY <1>6 DEF Progress, AskClient, LogEntry, DriverReady, resetVars
  <2>2. \/ sent' = sent
        \/ \E r \in Request \cup {0}, kind \in Events :
              SendData(kind, r, schemaVersion)
    BY <1>6, EventsSent
  <2>3. Delivered' = Delivered
    <3>1. CASE sent' = sent
      BY <3>1, AnswersStay
    <3>2. ASSUME NEW r \in Request \cup {0}, NEW kind \in Events,
                 SendData(kind, r, schemaVersion)
          PROVE  Delivered' = Delivered
      <4>1. CASE socket = "open"
        <5> DEFINE m == [kind |-> kind, req |-> r, form |-> schemaVersion]
        <5>1. m \in Message /\ ~IsAnswer(m)
          BY <1>0, <3>2, VersionsAreNumbers
          DEF Message, IsAnswer, Events, NetworkEvents, OwnEvents
        <5>2. sent' = Append(sent, m)
          BY <3>2, <4>1 DEF SendData
        <5> HIDE DEF m
        <5>3. \A q \in Request : AnswersTo(q)' = AnswersTo(q)
          BY <1>0, <5>1, <5>2, AnswersGrow
        <5> QED
          BY <5>3 DEF Delivered
      <4>2. CASE socket # "open"
        BY <3>2, <4>2, AnswersStay DEF SendData
      <4> QED
        BY <4>1, <4>2
    <3> QED
      BY <2>2, <3>1, <3>2
  <2> QED
    BY <2>1, <2>3, Unseen DEF Phases, Phase
<1>7. CASE Unparsable \/ Close
  <2>1. /\ UNCHANGED <<stage, sent, crashed>> /\ crashed = FALSE
        /\ socket' # "open"
    BY <1>0, <1>7 DEF Unparsable, Close, resetVars, TypeOK
  <2>2. Phases' = Phases /\ Delivered' = Delivered
    BY <2>1, AnswersStay DEF Phases, Phase
  <2>3. CASE socket = "open"
    BY <2>1, <2>2, <2>3 DEF Connection!Next, Connection!Disconnect, Phases, Delivered
  <2>4. CASE socket # "open"
    BY <2>1, <2>2, <2>4, Unseen
  <2> QED
    BY <2>3, <2>4
<1>8. CASE UNCHANGED vars
  BY <1>8, AnswersStay, Unseen DEF vars, Phases, Phase
<1> QED
  BY <1>1, <1>2, <1>3, <1>4, <1>5, <1>6, <1>7, <1>8
  DEF Next, ReceiveMessage, Commands, Connection!Next

LEMMA InitRefines == Init => Connection!Init
<1> SUFFICES ASSUME Init PROVE Connection!Init
  OBVIOUS
<1>1. \A q \in Request : Phase(q) = "unasked" /\ AnswersTo(q) = {}
  BY DEF Init, Phase, AnswersTo
<1> QED
  BY <1>1 DEF Init, Connection!Init

\* Every behaviour of a connection is one its client was promised: one answer
\* to each request, whatever the versions, the resets and the failures.
THEOREM Implementation == Spec => ImplementsRequests
<1>1. OrderInv /\ [Next]_vars => [Connection!Next]_(Connection!vars)
  BY StepRefines
<1>2. IInv => OrderInv
  BY DEF IInv
<1> QED
  BY <1>1, <1>2, InitRefines, InvariantHolds, PTL
  DEF Spec, ImplementsRequests, Connection!Spec

=============================================================================
