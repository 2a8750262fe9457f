------------------------------- MODULE Session -------------------------------
(***************************************************************************)
(* The requests of one connection and their answers (Client in             *)
(* lib/server.ts, and the message handlers it dispatches to).              *)
(*                                                                         *)
(* The commands of the handlers are of few shapes, which differ in where   *)
(* they stop to wait.  One of each is modelled:                            *)
(*   query       answered from what the driver knows (node.get_state)      *)
(*   call        awaits one call of the driver (node.set_value), which may *)
(*               report progress meanwhile (controller.backup_nvm_raw)     *)
(*   firmware    awaits a file or code to be parsed, then the driver       *)
(*   inclusion   awaits its options, then the driver, which asks the       *)
(*               client from then on, also after the answer                *)
(*               (begin_inclusion and replace_failed_node,                 *)
(*               without provisioning information)                         *)
(*   virtual     calls the driver and does not wait (invoke_cc_api of a    *)
(*               multicast group or of the broadcast node)                 *)
(*   hard_reset  starts a timer and is answered                            *)
(* and the commands that turn log entries on and off, which the server     *)
(* itself answers at once and the driver's handler like a query.           *)
(* A message is abstracted to the version of the schema it was made for.   *)
(*                                                                         *)
(* Every handler is awaited, so that even a result that is there at once   *)
(* is sent one microtask later.  Microtasks run before the next timer or   *)
(* event of the network or the driver, but not before the next message     *)
(* that came in the same packet.                                           *)
(*                                                                         *)
(* The driver is external: it settles every call, between a hard reset and *)
(* its end there is no controller to ask, and how long an inclusion lasts  *)
(* after its command is left open.                                         *)
(***************************************************************************)
EXTENDS Naturals, Sequences

CONSTANTS
    MaxRequests,  \* bound: requests of the client
    MaxProgress,  \* bound: progress reports, questions and log entries
    Version       \* versions the client asks for, supported or not

\* maxSchemaVersion; minSchemaVersion is 0.
Latest == 50

ASSUME SessionConstants ==
    MaxRequests \in Nat /\ MaxProgress \in Nat /\ Version \subseteq Nat

Request == 1..MaxRequests

VARIABLES
    socket,        \* "open", "closed", or "closing"
    schemaVersion, \* Client.schemaVersion
    receiveEvents, \* Client.receiveEvents
    receiveLogs,   \* Client.receiveLogs
    stage,         \* Request -> how far its handling is
    command,       \* Request -> the shape of the command
    made,          \* Request -> version its result was made for, until it is sent
    inForce,       \* Request -> versions in force from request to answer
    sent,          \* the messages sent on the socket, in order
    floating,      \* requests whose driver call nobody waits for
    rejected,      \* requests whose driver call was rejected
    including,     \* inclusions whose callbacks the driver has
    timers,        \* hard_reset requests whose timer runs
    began,         \* hard_reset requests whose reset has begun
    up,            \* the driver has a controller
    crashed        \* an unhandled rejection has ended the process

vars == <<socket, schemaVersion, receiveEvents, receiveLogs, stage, command,
          made, inForce, sent, floating, rejected, including, timers, began,
          up, crashed>>
subVars   == <<receiveEvents, receiveLogs>>
callVars  == <<floating, rejected, including>>
resetVars == <<timers, began, up, crashed>>

Waiting    == {"preparing", "driver"}
Microtask  == {"result", "failed"}
Commands   == {"none", "set_api_schema", "start_listening", "unknown",
               "start_listening_logs", "stop_listening_logs", "query", "call",
               "firmware", "inclusion", "virtual", "hard_reset"}

\* Events: of the network, to the clients that listen; and to this one client.
NetworkEvents == {"progress", "driver ready"}
OwnEvents     == {"log", "question"}

Message == [kind : {"answer", "state", "error"} \cup NetworkEvents \cup OwnEvents,
            req  : Request \cup {0},
            form : Nat]

TypeOK ==
    /\ socket \in {"open", "closing", "closed"}
    /\ schemaVersion \in Version \cup {0}
    /\ receiveEvents \in BOOLEAN /\ receiveLogs \in BOOLEAN
    /\ stage \in [Request -> {"unsent", "answered"} \cup Waiting \cup Microtask]
    /\ command \in [Request -> Commands]
    /\ made \in [Request -> Version \cup {0}]
    /\ inForce \in [Request -> SUBSET (Version \cup {0})]
    /\ sent \in Seq(Message)
    /\ floating \subseteq Request /\ rejected \subseteq Request
    /\ including \subseteq Request
    /\ timers \subseteq Request /\ began \subseteq Request
    /\ up \in BOOLEAN /\ crashed \in BOOLEAN

Init ==
    /\ socket = "open"
    /\ schemaVersion = 0
    /\ receiveEvents = FALSE /\ receiveLogs = FALSE
    /\ stage = [r \in Request |-> "unsent"]
    /\ command = [r \in Request |-> "none"]
    /\ made = [r \in Request |-> 0]
    /\ inForce = [r \in Request |-> {}]
    /\ sent = <<>>
    /\ floating = {} /\ rejected = {} /\ including = {}
    /\ timers = {} /\ began = {}
    /\ up \in BOOLEAN
    /\ crashed = FALSE

-----------------------------------------------------------------------------
(* Sending                                                                  *)

InFlight(r) == stage[r] \in Waiting \cup Microtask

\* No microtask is left, so the next timer or event may run.
Idle == \A r \in Request : stage[r] \notin Microtask

\* sendData: on a socket that is not open the message is dropped.
SendData(kind, r, form) ==
    sent' = IF socket = "open"
            THEN Append(sent, [kind |-> kind, req |-> r, form |-> form])
            ELSE sent

\* sendResultSuccess
SendResultSuccess(r, kind, form) ==
    /\ SendData(kind, r, form)
    /\ stage' = [stage EXCEPT ![r] = "answered"]

\* Mutant: the error is logged and not sent.
LogOnly(r, form) == stage' = [stage EXCEPT ![r] = "failed"] /\ sent' = sent

\* sendResultError, sendResultZWaveError: what the catch clause sends.
SendResultError(r, form) ==
    /\ SendData("error", r, form)
    /\ stage' = [stage EXCEPT ![r] = "answered"]

\* trySendEvent, and sendEventToListeningClients as far as this client goes
TrySendEvent(kind, r) ==
    IF receiveEvents THEN SendData(kind, r, schemaVersion) ELSE sent' = sent

\* Mutant: an answer is made for the newest version.
LatestSchema == Latest

\* The version a result is made for: the client's at that moment.
CurrentSchema == schemaVersion

-----------------------------------------------------------------------------
(* receiveMessage                                                           *)

\* Requests come in the order of their numbers, also on a socket the server
\* has begun to close.
Take(r, c) ==
    /\ ~crashed
    /\ socket # "closed"
    /\ stage[r] = "unsent"
    /\ \A q \in 1..(r - 1) : stage[q] # "unsent"
    /\ command' = [command EXCEPT ![r] = c]

\* Version v is in force, for r and for all that are in flight.
NoteVersion(r, v) ==
    inForce' = [q \in Request |-> IF q = r \/ InFlight(q)
                                  THEN inForce[q] \cup {v} ELSE inForce[q]]

\* The handler has a result, for the version at this moment, or has thrown.
Finish(r, ok) ==
    /\ stage' = [stage EXCEPT ![r] = IF ok THEN "result" ELSE "failed"]
    /\ made' = [made EXCEPT ![r] = CurrentSchema]
    /\ sent' = sent

\* initialize, set_api_schema: the version is kept, then checked.
SetSchemaVersion(r, v) ==
    /\ Take(r, "set_api_schema")
    /\ schemaVersion' = v
    /\ NoteVersion(r, v)
    /\ IF v \in 0..Latest THEN SendResultSuccess(r, "answer", v)
                          ELSE SendResultError(r, v)
    /\ UNCHANGED <<socket, subVars, made, callVars, resetVars>>

\* Mutant: events are turned on before the state is dumped.
ListenFirst(r) ==
    /\ receiveEvents' = TRUE
    /\ IF up THEN SendResultSuccess(r, "state", CurrentSchema)
             ELSE SendResultError(r, schemaVersion)

\* Mutant: the return is missing, so that the dispatch is reached too.
ListenAndGoOn(r) ==
    IF up THEN /\ SendData("state", r, CurrentSchema)
               /\ stage' = [stage EXCEPT ![r] = "failed"]
               /\ receiveEvents' = TRUE
          ELSE SendResultError(r, schemaVersion) /\ UNCHANGED receiveEvents

\* The dump throws while there is no controller; then nothing is turned on.
Listen(r) ==
    IF up THEN SendResultSuccess(r, "state", CurrentSchema) /\ receiveEvents' = TRUE
          ELSE SendResultError(r, schemaVersion) /\ UNCHANGED receiveEvents

StartListening(r) ==
    /\ Take(r, "start_listening")
    /\ NoteVersion(r, schemaVersion)
    /\ Listen(r)
    /\ UNCHANGED <<socket, schemaVersion, receiveLogs, made, callVars, resetVars>>

\* start_listening_logs and stop_listening_logs, of the server.
ListenLogs(r, on) ==
    /\ Take(r, IF on THEN "start_listening_logs" ELSE "stop_listening_logs")
    /\ NoteVersion(r, schemaVersion)
    /\ receiveLogs' = on
    /\ SendResultSuccess(r, "answer", CurrentSchema)
    /\ UNCHANGED <<socket, schemaVersion, receiveEvents, made, callVars, resetVars>>

\* A command without a handler.
UnknownCommand(r) ==
    /\ Take(r, "unknown")
    /\ NoteVersion(r, schemaVersion)
    /\ SendResultError(r, schemaVersion)
    /\ UNCHANGED <<socket, schemaVersion, subVars, made, callVars, resetVars>>

\* Text that is not JSON has no message id to answer to.
Unparsable ==
    /\ ~crashed /\ socket = "open"   \* closing it again changes nothing
    /\ socket' = "closing"
    /\ UNCHANGED <<schemaVersion, subVars, stage, command, made, inForce,
                   sent, callVars, resetVars>>

\* The client closes the connection, or it is lost.
Close ==
    /\ ~crashed /\ socket # "closed" /\ Idle
    /\ socket' = "closed"
    /\ UNCHANGED <<schemaVersion, subVars, stage, command, made, inForce,
                   sent, callVars, resetVars>>

-----------------------------------------------------------------------------
(* The handlers                                                             *)

\* invokeCCAPI of a virtual node: the promise of the call is the result.
Floats(c) == c = "virtual"

\* handle(): a query has its result at once, and so has a call that nobody
\* waits for; the other commands begin to wait; each throws if there is no
\* controller or no such node, and there the query stands for all.
Handle(r, c, found) ==
    /\ Take(r, c)
    /\ (up /\ found) \/ c = "query"
    /\ NoteVersion(r, schemaVersion)
    /\ IF ~up \/ ~found THEN Finish(r, FALSE) /\ UNCHANGED floating
       ELSE IF Floats(c) THEN Finish(r, TRUE) /\ floating' = floating \cup {r}
       ELSE IF c = "query" THEN Finish(r, TRUE) /\ UNCHANGED floating
       ELSE /\ stage' = [stage EXCEPT ![r] = IF c \in {"firmware", "inclusion"}
                                             THEN "preparing" ELSE "driver"]
            /\ UNCHANGED <<made, sent, floating>>
    /\ UNCHANGED <<socket, schemaVersion, subVars, rejected, including, resetVars>>

\* driver.start_listening_logs and driver.stop_listening_logs.
DriverListenLogs(r, on) ==
    /\ Take(r, IF on THEN "start_listening_logs" ELSE "stop_listening_logs")
    /\ NoteVersion(r, schemaVersion)
    /\ receiveLogs' = on
    /\ Finish(r, TRUE)
    /\ UNCHANGED <<socket, schemaVersion, receiveEvents, callVars, resetVars>>

\* Mutant: the reset is begun by the handler.
ResetAtOnce(r) ==
    /\ began' = began \cup {r}
    /\ up' = FALSE
    /\ UNCHANGED <<timers, crashed>>

\* setTimeout(hardResetController, 1)
ResetLater(r) ==
    /\ timers' = timers \cup {r}
    /\ UNCHANGED <<began, up, crashed>>

HardReset(r) ==
    /\ Take(r, "hard_reset")
    /\ NoteVersion(r, schemaVersion)
    /\ Finish(r, TRUE)
    /\ ResetLater(r)
    /\ UNCHANGED <<socket, schemaVersion, subVars, callVars>>

\* The file is parsed, or the options of an inclusion are there, with its
\* callbacks, and the driver is called; or they are no good.
Prepared(r, ok) ==
    /\ ~crashed
    /\ stage[r] = "preparing"
    /\ IF ok THEN /\ stage' = [stage EXCEPT ![r] = "driver"]
                  /\ including' = IF command[r] = "inclusion"
                                  THEN including \cup {r} ELSE including
                  /\ UNCHANGED <<made, sent>>
             ELSE Finish(r, FALSE) /\ UNCHANGED including
    /\ UNCHANGED <<socket, schemaVersion, subVars, command, inForce, floating,
                   rejected, resetVars>>

\* The driver rejects the call of r, or does not.
NoteOutcome(r, ok) == rejected' = IF ok THEN rejected ELSE rejected \cup {r}

\* The driver's call settles: the handler goes on, for the version of now.
DriverSettles(r, ok) ==
    /\ ~crashed /\ Idle
    /\ stage[r] = "driver"
    /\ Finish(r, ok)
    /\ NoteOutcome(r, ok)
    /\ including' = IF ok THEN including ELSE including \ {r}
    /\ UNCHANGED <<socket, schemaVersion, subVars, command, inForce,
                   floating, resetVars>>

\* A call that nobody waits for settles; nobody handles its rejection.
FloatingSettles(r, ok) ==
    /\ ~crashed /\ Idle
    /\ r \in floating
    /\ floating' = floating \ {r}
    /\ NoteOutcome(r, ok)
    /\ crashed' = ~ok
    /\ UNCHANGED <<socket, schemaVersion, subVars, stage, command, made,
                   inForce, sent, including, timers, began, up>>

\* receiveMessage goes on after the await, or in its catch clause.
Answer(r) ==
    /\ ~crashed
    /\ stage[r] \in Microtask
    /\ IF stage[r] = "result" THEN SendResultSuccess(r, "answer", made[r])
                              ELSE SendResultError(r, schemaVersion)
    /\ made' = [made EXCEPT ![r] = 0]
    /\ UNCHANGED <<socket, schemaVersion, subVars, command, inForce, callVars,
                   resetVars>>

Reports == Len(SelectSeq(sent, LAMBDA m : m.kind \in {"progress"} \cup OwnEvents))

\* The driver reports the progress of a call.
Progress(r) ==
    /\ ~crashed /\ Idle
    /\ stage[r] = "driver" /\ command[r] = "call"
    /\ Reports < MaxProgress
    /\ TrySendEvent("progress", r)
    /\ UNCHANGED <<socket, schemaVersion, subVars, stage, command, made,
                   inForce, callVars, resetVars>>

\* The callbacks of an inclusion: a question to the client that began it, or
\* that the inclusion was aborted.  It need not listen.
AskClient(r) ==
    /\ ~crashed /\ Idle
    /\ r \in including
    /\ Reports < MaxProgress
    /\ SendData("question", r, schemaVersion)
    /\ UNCHANGED <<socket, schemaVersion, subVars, stage, command, made,
                   inForce, callVars, resetVars>>

\* The driver writes a log entry, in a callback of its own or in the middle of
\* a handler.
LogEntry ==
    /\ ~crashed
    /\ Reports < MaxProgress
    /\ receiveLogs
    /\ SendData("log", 0, schemaVersion)
    /\ UNCHANGED <<socket, schemaVersion, subVars, stage, command, made,
                   inForce, callVars, resetVars>>

\* The timer fires: the driver begins the reset, or rejects, which nobody
\* handles.
TimerFires(r, ok) ==
    /\ ~crashed /\ Idle
    /\ r \in timers
    /\ timers' = timers \ {r}
    /\ began' = began \cup {r}
    /\ IF ok THEN up' = FALSE /\ UNCHANGED crashed
             ELSE crashed' = TRUE /\ UNCHANGED up
    /\ NoteOutcome(r, ok)
    /\ UNCHANGED <<socket, schemaVersion, subVars, stage, command, made,
                   inForce, sent, floating, including>>

\* "driver ready": there is a controller again.
DriverReady ==
    /\ ~crashed /\ Idle
    /\ ~up
    /\ up' = TRUE
    /\ IF schemaVersion >= 40 THEN TrySendEvent("driver ready", 0) ELSE sent' = sent
    /\ UNCHANGED <<socket, schemaVersion, subVars, stage, command, made,
                   inForce, callVars, timers, began, crashed>>

ReceiveMessage(r) ==
    \/ \E v \in Version : SetSchemaVersion(r, v)
    \/ StartListening(r)
    \/ UnknownCommand(r)
    \/ \E on \in BOOLEAN : ListenLogs(r, on) \/ DriverListenLogs(r, on)
    \/ \E c \in {"query", "call", "firmware", "inclusion", "virtual"}, found \in BOOLEAN :
          Handle(r, c, found)
    \/ HardReset(r)

Next ==
    \/ \E r \in Request :
          \/ ReceiveMessage(r)
          \/ Answer(r)
          \/ Progress(r) \/ AskClient(r)
          \/ \E ok \in BOOLEAN :
                \/ Prepared(r, ok) \/ DriverSettles(r, ok)
                \/ FloatingSettles(r, ok) \/ TimerFires(r, ok)
    \/ Unparsable
    \/ Close
    \/ DriverReady
    \/ LogEntry

Spec == Init /\ [][Next]_vars

\* A handler goes on: files and options settle, the driver settles its calls,
\* and microtasks run.
Continue(r) == Answer(r) \/ \E ok \in BOOLEAN : Prepared(r, ok) \/ DriverSettles(r, ok)

FairSpec == Spec /\ \A r \in Request : WF_vars(Continue(r))

-----------------------------------------------------------------------------
(* Properties                                                               *)

IsAnswer(m) == m.kind \in {"answer", "state", "error"}

\* Where the answers to r are among the messages sent.
AnswersTo(r) == {i \in DOMAIN sent : IsAnswer(sent[i]) /\ sent[i].req = r}

Phase(r) == IF stage[r] = "unsent" THEN "unasked"
            ELSE IF stage[r] = "answered" THEN "answered" ELSE "asked"

Connection == INSTANCE Requests WITH
    phase     <- [r \in Request |-> Phase(r)],
    delivered <- [r \in Request |-> AnswersTo(r)],
    open      <- (socket = "open"),
    alive     <- ~crashed

\* Whichever way a handler ends, its request gets one answer: a result that
\* was sent is not followed by the error of what comes after it, an answer is
\* dropped only on a closed connection, and a crash answers nothing.
ImplementsRequests == Connection!Spec

\* The client has the whole state before the first event of the network, also
\* when the state could not be dumped at its first attempt.
StateBeforeEvents ==
    \A i \in DOMAIN sent : sent[i].kind \in NetworkEvents =>
        \E j \in 1..(i - 1) : sent[j].kind = "state"

\* A log entry is sent for a start_listening_logs, and none is sent any more
\* once a stop_listening_logs after it has been answered, whichever of the two
\* kinds of command each was and however their answers overtook each other.
LogsWereAskedFor ==
    \A i \in DOMAIN sent : sent[i].kind = "log" =>
        \E p \in Request :
            /\ command[p] = "start_listening_logs"
            /\ \A j \in 1..(i - 1) :
                  IsAnswer(sent[j]) /\ command[sent[j].req] = "stop_listening_logs" =>
                      sent[j].req < p

\* A question is about an inclusion the client itself has begun.
QuestionsWereAskedFor ==
    \A i \in DOMAIN sent : sent[i].kind = "question" =>
        sent[i].req \in Request /\ command[sent[i].req] = "inclusion"

\* Nothing comes unasked: the events of the network follow the state that
\* start_listening answers with; what is sent to a client that does not listen
\* is the log it subscribed to, not after its end, and the questions of an
\* inclusion of its own.
EventsWereAskedFor == StateBeforeEvents /\ LogsWereAskedFor /\ QuestionsWereAskedFor

\* An answer is in the form of a version that was in force at some time
\* between the request and the answer, though the handler reads the version
\* before or after the wait.
AnswersInForce ==
    \A i \in DOMAIN sent : IsAnswer(sent[i]) => sent[i].form \in inForce[sent[i].req]

\* The answer to hard_reset is on its way before the reset takes the
\* controller away.
ResetAfterAnswer == \A r \in began : stage[r] = "answered"

\* What makes the forms and the order above last, whatever comes next: the version
\* in force is noted for every request in flight, a result is made for one of
\* those noted, a socket that is open has had the state if events are on, no
\* reset waits for a request still being handled, and nothing is sent for a
\* request before it is answered.
OrderInv ==
    /\ TypeOK
    /\ \A r \in Request : InFlight(r) => schemaVersion \in inForce[r]
    /\ \A r \in Request : stage[r] \in Microtask => made[r] \in inForce[r]
    /\ \A i \in DOMAIN sent : IsAnswer(sent[i]) =>
           sent[i].req \in Request /\ stage[sent[i].req] = "answered"
    /\ receiveEvents /\ socket = "open" =>
           \E j \in DOMAIN sent : sent[j].kind = "state"
    /\ \A r \in timers : stage[r] \in Microtask \cup {"answered"}
    /\ AnswersInForce
    /\ StateBeforeEvents
    /\ ResetAfterAnswer

\* A command whose call of the driver is rejected is answered with an error
\* (a hard reset is not part of the command that starts its timer).
FailuresAreAnswered ==
    \A r \in rejected : stage[r] = "answered" /\ command[r] # "hard_reset" =>
        \A i \in AnswersTo(r) : sent[i].kind = "error"

\* It is so for every command whose handler awaits the driver, whatever happens
\* between the rejection and the answer.
AwaitedFailuresAreAnswered ==
    \A r \in rejected :
        stage[r] = "answered" /\ command[r] \notin {"virtual", "hard_reset"} =>
            \A i \in AnswersTo(r) : sent[i].kind = "error"

\* Who can be rejected when: a call that floats, and a reset, when the handler
\* has had its result; any other only on the way to the catch clause.
RejectionInv ==
    /\ \A r \in Request : stage[r] \in Waiting => command[r] \notin {"virtual", "hard_reset"}
    /\ \A r \in floating : command[r] = "virtual" /\ stage[r] \in {"result", "answered"}
    /\ \A r \in timers : command[r] = "hard_reset"
    /\ \A r \in rejected :
          \/ stage[r] = "answered"
          \/ stage[r] = "failed" /\ command[r] \notin {"virtual", "hard_reset"}
    /\ AwaitedFailuresAreAnswered

\* Why nothing comes unasked: requests come in order; while logs are on, the
\* request that turned them on came after every one that turned them off; and
\* the driver has the callbacks of inclusions only.
AskedInv ==
    /\ \A r \in Request : stage[r] = "unsent" => command[r] = "none"
    /\ \A q, r \in Request : q < r /\ stage[r] # "unsent" => stage[q] # "unsent"
    /\ receiveLogs =>
           \E p \in Request :
               /\ command[p] = "start_listening_logs"
               /\ \A q \in Request : command[q] = "stop_listening_logs" => q < p
    /\ \A r \in including : command[r] = "inclusion"
    /\ LogsWereAskedFor
    /\ QuestionsWereAskedFor

\* The inductive invariant.
IInv == OrderInv /\ RejectionInv /\ AskedInv

\* Every request is answered, unless the process ends.
RequestsAreAnswered ==
    \A r \in Request : InFlight(r) ~> (stage[r] = "answered" \/ crashed)

=============================================================================
