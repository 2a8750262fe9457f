# A TLA+ model of zwave-js-server

`zwave-js-server` puts a Z-Wave JS driver behind a WebSocket: clients send
commands, get the answers and, if they ask for them, the events and the log of
the driver. This directory holds a model of its server side in TLA+, the TLC
runs that check it, and proofs TLAPS checks. Paths below are relative to the
repository's `src/`.

How to run: `tlc -config X.cfg MCModule` for a run of the table below, `tlapm
XProofs.tla` for the proofs.

## The system

| part | code | state | operations |
|---|---|---|---|
| Client session | `lib/server.ts` `Client` | socket, `schemaVersion`, `receiveEvents`, `receiveLogs` | `receiveMessage` and the handlers it dispatches to, answers, `trySendEvent` |
| Clients controller | `lib/server.ts` `ClientsController` | list of clients, ping timer, cleanup timer, the two forwarders, two slots for inclusion questions | `addSocket`, cleanups, broadcasts, `disconnect` |
| Log forwarder | `lib/logging.ts` | the one transport, attached to the driver | `start`, `stop`, `restartIfNeeded` |
| Event forwarder | `lib/forward.ts` | listeners on driver, controller and nodes | one callback for each event, in forms by schema version |
| State dumps | `lib/state.ts`, `lib/common.ts` | none | `dumpState` and its parts, conversion of results |
| Inclusion dialogue | `lib/inclusion_user_callbacks.ts`, `lib/controller/message_handler.ts` | the two promises of the clients controller | begin, grant, validate, abort |
| Zniffer | `lib/zniffer/message_handler.ts` | a slot for one Zniffer per client | `init`, `start`, `stop`, `destroy` |
| Server | `lib/server.ts` `ZwavejsServer` | HTTP server, WebSocket server, DNS-SD service | `start`, `destroy` |
| Process | `bin/server.ts` | `driver`, `server`, `closing`, retries | `startDriverWithRetry`, `handleShutdown`, the driver's events |
| Other handlers | `lib/*/message_handler.ts` | none | decode a request, pass it to the driver and its result back |

They interact in one thread. A session calls the clients controller and the
driver; the driver calls the event forwarder, the log transport and the
inclusion callbacks, and these send to the clients of the controller's list.
The server owns the controller, the process owns server and driver. What makes
it hard is not parallelism but what runs between the two sides of an `await`,
between an event of a socket and the timer it starts, and between failures of
the driver and signals:

- the log forwarder and the inclusion slots are shared by clients that do not
  know of each other;
- a closing socket is still read, and is forgotten by two independent timers;
- slots (`zniffer`, the promises, `driver`, `server`, the fields of a server)
  are read before an `await` and written after it;
- a reset of the controller replaces the objects listeners are bound to;
- fifty schema versions are spoken at once, and a client may change its own.

`PROJECT.json` lists these hazards one by one, each at its line, with the
properties that cover it or the reason none does.

What each part owes the others:

- clients controller: a subscriber that is connected is served, one that has
  gone is forgotten, and the driver's log transports are left as they were;
- session: one answer for each request, in a form the client has asked for, and
  no event it has not asked for;
- handlers: a request means the same in whichever of its forms it comes, and
  the result has the keys its type declares;
- event forwarder: snapshot plus events are the state of the driver, and its
  log configuration;
- dumps: at every version the keys of the declared type, each fact once;
- inclusion: the question the driver waits on can be answered, and no other;
- Zniffer: a destroyed one is silent and blocks nothing;
- process: one driver on the serial port, one server on the TCP port, a failed
  driver is replaced, and a shutdown ends.

## The modules

| module | models | composed with |
|---|---|---|
| `ClientsController` | clients controller, subscriptions, log forwarder | refines `LogStream` |
| `LogStream` | what subscribers to logs are promised | |
| `Session` | requests in flight of one connection | refines `Requests` |
| `Requests` | what a client is promised for its requests | |
| `EventForwarder` | event forwarder, snapshot, a client's picture | |
| `Inclusion` | inclusion dialogue | refines `Dialogue` |
| `Dialogue` | what the driver may rely on when it asks the clients | |
| `Zniffer` | Zniffer handlers of several clients | |
| `ServerLifecycle` | `bin/server.ts` with `ZwavejsServer.start` and `destroy` | refines `Service` |
| `Service` | what the process owes the controller and the clients | |
| `StateDump` | keys of the dumps, by version | extended by `StateTypes` |
| `StateTypes` | the declared types of the dumps | extended by `Messages` |
| `Results` | results of all commands, and their declared types | extended by `Messages` |
| `RequestForms` | optional, older and conflicting fields of requests | extended by `Messages` |
| `Messages` | both directions at every version | |
| `*Proofs` | theorems on `ClientsController`, `Session`, `EventForwarder`, `Inclusion`, `Zniffer`, `ServerLifecycle`, `Messages` | extend their module |
| `ServiceProofs` | that `ServerLifecycle` implements `Service` | extends `ServerLifecycleProofs` |
| `MC*` | instances for TLC | |

An action is one callback: everything up to the next `await`, or the rest of a
function after one. Two exceptions are named in the modules: in `Session` a
handler and the microtask that sends its result are two actions, because other
messages of the same packet are handled in between; and in `ServerLifecycle`
`destroy()` is an action for every `await` it contains. Definitions marked
*Mutant* are not part of the model: they are plausible mistakes, each replacing
the definition it stands before, with which a property has to fail.

**ClientsController.** `clients` is the list, `sock` the life of each socket in
the `ws` library (`open`, `closing` by us, `ending` after the peer's close
frame, `closed`); a closing socket still delivers messages, an ending one does
not. `cleanupScheduled` and `pingInterval` are the two timers. `serverTransport`
is the forwarder's, `attrs` gives level and filter of every transport,
`transports` is the driver's list including the application's own
(`ForeignTransport`). `AddSocket`, `SocketClosed`, `CleanupClients`, `PingTick`,
`Disconnect` are the methods and timers, `StartListening`,
`StartListeningLogs`, `StopListeningLogs`, `ServerUpdateLogConfig`,
`DriverUpdateLogConfig` and `DriverUpdateOptions` the commands. Of the three
that change the log configuration only the two that update it preserve the
driver's transports, and only the driver's own restarts the forwarder;
`driver.update_options` does neither. `asked` (the filter a client asked for) and
`detached` (`driver.update_options` has taken the running forwarder's transport
off the driver) are history variables. A start takes any transport that is not
attached.

**LogStream.** The abstract promise: a subscriber is served at once and for as
long as it stays, and the stream is switched off some time after the last one
has left. `ClientsController` maps its subscribers and `Started` to it, as a
safety refinement and, with fairness, including the switching off.

**Inclusion.** `slot` holds the two promises of the controller as numbers in
the order of their creation, `awaiting` the one the driver waits for, `phase`
the driver's inclusion. `BeginInclusion`, `BeginWithQRCode` with
`QRCodeParsed`, `ReplaceFailedNode`, `Answer`, `StopInclusion` are commands;
`Ask` and `Abort` the callbacks; `DriverBegin`, `GiveUp` and `DriverBeginsItself`
what the driver does by itself. `finally()` of a promise runs before whoever
awaits it, so it is part of `Answer`. Whom a question is sent to is not here:
any client may answer it. `Session` has the events of the callbacks.

**Dialogue.** The abstract promise: the driver waits for one question at a time,
and no other is open (`Ask`); a client answers an open question (`Answer`), or
the driver stops waiting (`GiveUp`) and the question is withdrawn (`Withdraw`).
The mapping counts the promises issued and settled, and reads the open questions
off the two slots and the one awaited off `awaiting`.

**Zniffer.** One slot per client, any number of Zniffers, one serial port.
`InitCommand`/`InitSettles` and `DestroyCommand`/`DestroySettles` are the two
sides of the awaits, and either promise may be rejected. A rejected destroy
(`DestroyFails`) skips the rest of the command: the Zniffer stays in its slot,
with its port if it holds it and without listeners, and the command can be sent
again; `refused` remembers it until then. A `Patient` client does not send two
destroy commands at a time.

**EventForwarder.** The forms of the events are tables of version ranges
(`DriverVariants`, `ControllerVariants`, `NodeVariants`, and `HandlerVariants`
for the events the message handlers send by themselves), in which one event
stands for those forwarded the same way. `bound` and `listeners` count bindings,
so a double binding shows as a second copy. `view` is what a client can work out
from the snapshot and the events it was sent, `viewConfig` what it knows of the
log configuration, which three commands change: `DriverUpdateLogConfig` sends an
event, the older `ServerUpdateLogConfig` and `DriverUpdateOptions` do not, which
`untold` remembers. A client may change its version at any time (`SetSchema`),
around a reset too: `excused` are those that did not know "driver ready" when it
was sent.

**Session.** One of each shape of command; the handlers of nodes, endpoints,
controller, driver, access control, config manager, utils, broadcast, multicast
and Zniffer are all of these shapes. A `query` also stands for every command
that throws at once. A `virtual` command is not awaited: its
call of the driver goes on in `floating` after the answer, and a rejection then
ends the process. Events come in two kinds. Those of the network (`TrySendEvent`:
the progress of a call, "driver ready") look at `receiveEvents`. Those for this
one client do not: the questions of an inclusion it has begun (`AskClient`, for
as long as the driver has the callbacks of `including`), and log entries
(`LogEntry`), which look at `receiveLogs`, turned on and off by two commands of
the server, answered at once, and two of the driver's handler, answered a
microtask later. `inForce` is a history variable: the versions in force from a
request to its answer. `Idle` says that microtasks run before the next timer or
I/O event. A message that is JSON but no object is left out.

**Requests.** The abstract promise: each request is answered once, in any order;
only a connection that is not open loses an answer; the process may end. The
mapping reads the stage of a request and the places of its answers in `sent`.

**StateDump, StateTypes.** The first is translated from the functions, the
second from the TypeScript types, `Omit` and `Modify` included. A key whose
type changed carries its form in its name. `limits` stands for the keys `min`
to `unit` of a value's metadata, which come together or not at all here. The
conversion of the value type `buffer` before version 2 is left out.

**Results.** For every command of every handler the keys of the object it
returns, grouped as the handlers group them, beside the keys its declaration in
`outgoing_message.ts` requires and allows. `OutgoingMessage` is the change of a
result at version 29.

**RequestForms.** A request is a record whose fields range over `Absent`, the
members a test for truth takes for absent (0 where the driver's enumeration or
mask has one, an empty text), and something else. An operator named after the
handler gives the arguments of its call of the driver, or `Refused`; it tests
for presence (`Given`, `Else`) or for truth (`Truthy`) as the code does.
`Understood` says what a client may rely on, without the operators of the
handlers: where one thing can be said in several forms, always the same of those
used counts (`FirstCounts`), with the meaning it has by itself, and the others
change nothing; fields that contradict each other are refused. Thus beside
`options` the older fields of an inclusion or exclusion do not count, and
`unprovision` counts before `strategy`.

**ServerLifecycle.** A call of `startDriverWithRetry` creates at most one
driver and that at most one server, so the number of the call names all three.
`pc` and `object` say what each call awaits and of which object; `Shutdown` is
the call of `handleShutdown`. `RetryTimer` starts calls, as `retryTimer` is
never assigned in the code, which is why nobody clears it. What keeps two
restarts apart is only that each has one cause: a call on its way, a timer, or a
driver that can fail (`OneRestartAtATime`). DNS-SD, which an option can turn off
and whose service and responder `destroy()` awaits one after the other, is one
part here and always on: it comes last in `destroy()`, after both ports.

**Service.** The abstract promise: one driver on the serial port, one server for
it on the TCP port, and both handed over in order. A driver is opened, or
released, only when no client is served and the TCP port is free (`Open`,
`Release`); it is served once, while it holds the port (`Serve`); clients are
cut off before the port is given back (`CutOff`, `FreePort`), and the process
may end at any time (`End`). The mapping (`Holders` to `OnPort`) reads which
drivers hold the port and which servers accept or bind, without the variables
`driver` and `server` by which the code finds them.

## The runs

| run | instance and bounds | shows |
|---|---|---|
| `clients` | 2 clients, 1 filter, 2 levels, 2 transports of the server besides the application's (828 932 states) | the subscribers' properties and both refinements |
| `log_filters`, `log_level` | the same, one property each | violated, see below |
| `session` | 3 requests, 1 event (progress, question or log entry), versions 39, 40 and the unsupported 51 (1 200 597) | single, timely answers in a form in force; no event unasked; `Requests` |
| `virtual_calls` | 2 requests | violated, see below |
| `event_forwarder` | 2 clients at versions 39 and 40, 1 node, 2 values, 2 log configurations, 1 reset (303 153) | a current picture, told clients, single binding, one form for every version |
| `inclusion` | 2 clients, 3 questions: enough for an inclusion that asks twice and the start of the next (5 194) | no answer reaches an old question; `Dialogue`, and with fairness that every question ends |
| `zniffer` | 2 clients, 3 Zniffers: an overlap on one client beside another client (103 620) | silence, freed slots, also when a destroy is rejected |
| `zniffer_orphan` | the same without the assumption on patience | violated, see below |
| `messages` | all 51 versions, all traits, all forms of the requests (12 852): exhaustive | dumps and answers fit their types; renamed keys; requests mean one thing in all their forms |
| `lifecycle` | 4 calls of `startDriverWithRetry` (11 119) | ports handed over in order (`Service`), no rejection from a restart alone, recovery, shutdown |
| `lifecycle_shutdown` | 2 calls | violated, see below |

Two clients suffice where clients are told apart only as "this one" and
"another one": no code compares or orders them. Three requests give one in
flight, one that changes the version meanwhile, and one more; four calls give a
failure during a retry that follows a failure. The proofs below hold for any
number of each. In `event_forwarder` the two versions are the two sides of "driver
ready"; the ranges of all events are checked there against every version from 0
to 50, whatever the clients speak (`OneFormEvents`). Where a cfg turns off the
check for deadlock, it says what the system has come to: connections that have
ended, or a process that has.

Every property of a passing run is paired in `PROJECT.json` with a mutant of
the code that violates it.

### What the violated runs show

- `log_filters`: `README.md:161` says a client gets only the logs that match
  its filter. There is one transport with the filter of the subscriber that
  started it; a later filter is ignored, and a restart forgets the first.
- `log_level`: a comment in `lib/driver/message_handler.ts:54` says the
  forwarder is to be restarted to pick up a new configuration. The server-level
  `update_log_config` (`lib/server.ts:171`) does not do so, and the transport
  goes on filtering with the old level. Nor does `driver.update_options`.
- `virtual_calls`: `invoke_cc_api` of a multicast group or the broadcast node
  (`lib/broadcast_node/message_handler.ts:53`) puts the promise of the driver's
  call into the result. The client is told of a success with an empty response,
  though `README.md:2434` says that a command that results in an error is
  answered with one; the rejection is unhandled and ends the process. The same
  command of an endpoint is awaited (`lib/endpoint/message_handler.ts:69`).
- `zniffer_orphan`: destroy, destroy, the first ends, init, the second ends: it
  clears the slot of the new Zniffer, which goes on running, holds the port, and
  cannot be reached any more: "Zniffer is not running".
- `lifecycle_shutdown`: Driver_Failed restarts, a signal shuts down (or in the
  other order), and both await `server.destroy()`. The second to resume calls a
  method of a field that is undefined by then (`lib/server.ts:610`); the
  unhandled rejection ends the process and the driver is not destroyed.

### Noticed on the way, without a run

- Process: the first retry comes after 2 s, where `bin/server.ts:212` says 1 s.
  `server.start()` never returns if the server is destroyed before it listens.
  A shutdown that awaits the same driver as a restart may end the process right
  after the restart has created the next driver, without destroying that one.
- Clients: `Client.checkAlive` is never called. A version that `set_api_schema`
  rejects stays in force. The client that begins an inclusion is asked although
  it may never have sent `start_listening`.
- Driver: `driver.update_options` (`lib/driver/message_handler.ts:118`) hands the
  driver a log configuration as the client sends it. Transports it names replace
  the application's and that of the running log forwarder, which goes on as if
  it were started, and other clients are sent no "log config updated". The
  properties on the log configuration name this command as their exception
  (`ForeignTransportsKept`, `LogSubscribersServed`, `LogConfigIsCurrent`).
- Driver: a rejected `driver.hardReset()` after `hard_reset` is unhandled, and
  so ends the process.
- Controller: `beginExclusion` ignores `strategy` when `unprovision` is given too
  (`lib/controller/message_handler.ts:742`).
- Nodes: `firmware` is parsed with the node looked up before
  (`lib/node/message_handler.ts:73`); `set_name` and `set_location` keep the
  local change when the command to the device fails (`:248`); `README.md`
  says the format of a firmware file is guessed first and the file unpacked if
  that fails, and the code unpacks first. A virtual `invoke_cc_api` does not
  convert serialised buffers among its arguments, as an endpoint's does.
- Zniffer: a `zniffer.destroy` that is rejected has taken off the listeners; the
  Zniffer, if it still runs, is silent until it is destroyed by another.
- Documents: `API_SCHEMA.md` dates the `driver` state 4 and the controller's
  `statistics` and `inclusionState` 7 and 14; code and declared types have them
  at every version.
- Zniffer: the event "error" carries an `Error`, whose message JSON leaves out
  (`lib/zniffer/message_handler.ts:65`).

## Fairness

Only what the platform or the libraries do by themselves is assumed to happen:

- `ClientsController`: a socket that has begun to close is closed (`ws` destroys
  it after 30 s without an answer) and a zero timeout fires. Neither the peer
  nor the ping interval is assumed to do anything.
- `Inclusion`: the driver's S2 bootstrap times out when the user does not
  answer, and calls `abort`; no client is assumed to answer.
- `Zniffer`: the promises of `init` and `destroy` settle.
- `Session`: microtasks run, files and options are parsed, and the driver
  settles every call. A timer, the end of a reset, and the client are not
  assumed to do anything.
- `ServerLifecycle`: what is told to close closes (`ws` and HTTP server, DNS-SD
  service), the driver's `start` and `destroy` settle, timers fire. Failures
  and signals are never assumed.

`Close`, `Leave`, `DriverFails`, `HandleShutdown` and all commands may happen at
any time or never.

## What is proved

For all values of the constants under the `ASSUME`s of the modules (the bounds
included: any number of requests, resets, Zniffers, questions and restarts).
Each module has one inductive invariant, from which every theorem on it follows.
It is called `IInv`, stands in the module with the properties, and is checked by
the module's run as well. `Messages` needs only that the version is one of the
51: its properties hold of every request, object and version.

`ClientsControllerProofs`: the inductive invariant `IInv` joins `TypeOK`,
`OwnTransportOnly` and `IdleForwarderIsTransient` to six facts about the list:
connected sockets are in it (`ConnectedAreListed`), closed ones await a cleanup
(`ClosedClientsAwaitCleanup`), what is in it was accepted, a socket starts
without subscriptions, a listed log subscriber finds the forwarder started
(`ListedLogsStarted`), and a list that is not empty has an event forwarder. They
are needed because cleanups decide from the list and not from the sockets: that
one leaves a subscriber's forwarder on follows only if no connected subscriber
is missing from the list, and that the rest of the list is right depends on what
the two timers keep. That a stop or restart takes off the right transport needs
that only the remembered one is attached. There is one lemma for each action.
From `IInv` follow `LogSubscribersServed`, `EventSubscribersServed` and the
others, the action property `ForeignTransportsKept` (every step but a
`driver.update_options` that names transports), and the refinement
`ImplementsLogStream`: initial states map to initial states of `LogStream`, and
every action maps to one of its steps or a stutter.

`SessionProofs`: `IInv` (`OrderInv`, `RejectionInv` and `AskedInv`) adds to
`AnswersInForce`, `StateBeforeEvents` and `ResetAfterAnswer` what makes them
last: the version in force is noted for every request in flight, a result
waiting for its microtask was made for a noted version, what was sent for a
request was sent because it is answered, events are on only after a state, and a
timer for a reset is not of a request still being handled. `AskedInv` is about
the events that do not depend on `receiveEvents`: requests come in order, while
logs are on some request turned them on after every one that turned them off,
and only inclusions leave callbacks with the driver. With `StateBeforeEvents`
this gives `EventsAreAskedFor`: nothing reaches a client that it has not asked
for. `RejectionInv` is about the calls of the driver that fail: a call is
awaited by the handler of its request or floats for a virtual node, and what a
handler makes of a failure it awaited is an error. So `AwaitedFailuresAnswered`:
where the driver rejects a call, the client is answered with an error and
nothing else, unless nobody awaits the call: those of virtual nodes, which
`virtual_calls` is about, and the reset that `hard_reset` starts after its
answer. The refinement `ImplementsRequests` maps the steps that settle a request
to `Answer` or `AskAndAnswer` of `Requests`; that they add exactly one place to
the answers of one request rests on the lemmas about appending to `sent`.

`EventForwarderProofs`: `IInv` adds to `PictureIsCurrent`, `LogConfigIsCurrent`
and `StaleClientsAreTold` how the listeners are bound (`BindingsOK`: nothing is
bound without a forwarder or during a reset, a node that was announced once, one
found joining by the first client twice) and that nobody has a current picture
during a reset (`ResetsOK`). A picture can only be current if every event that
changes it has a binding and a form for every version, which lemmas about the
tables of versions show. `TypesHold` and `BoundOnce` are consequences.
`ForwardingOK` adds to that how often the last event went out: twice only where
a node was bound early, and to a listening client not at all only while a node
is joining. That it then goes in one form to a client of any version
(`OneFormForAll`) is a fact about the tables: the ranges of the forms of an event
share out the versions from 0 to 50, none left out and none in two
(`EventsShareOut`).

`InclusionProofs`: `IInv` adds to `AnswerCanArrive` and `NoStaleQuestion` that
at most one slot is taken, that a promise in a slot is not settled, and that
settled ones have been issued; from it follow both and, for `Answer`, the action
property `AnswersAreCurrent`. For the refinement the two slots
have to be one: as at most one is taken, an open question is the only one
(`OneIsOpen`), and outside the two phases in which the driver asks it awaits none,
nor is one open unless it aborts (`SilentOtherwise`). Of the
actions only `Ask`, `Answer`, `Abort` and `GiveUp` are steps of `Dialogue`; the
commands and the rest of the driver leave its variables alone (`Quiet`).

`ZnifferProofs`: `IInv` adds to `DestroyedIsSilent` and `SlotIsNotDead` that
what a patient client owns or is destroying is in its slot, and that at most one
of its destroy commands awaits it (`PatientSlot`). Without patience this is
false, which is what `zniffer_orphan` shows. A destroy that is rejected does not
disturb it, because it leaves the slot alone.

`ServerLifecycleProofs`: nothing in the code keeps restarts apart, and
`OneDriverHoldsThePort` alone is not inductive. `HandoverInv` says why they are
apart: a call on its way, a pending timer and a driver that can fail exclude
each other (`OneRestartAtATime`); the variable `driver` still holds what a call
awaits and whoever holds the port (`AwaitedIsCurrent`); only the last server has
parts left, and none when the next driver is about to start
(`OldServersAreGone`). Every restart and shutdown ends in one of three ways,
each with a lemma: it awaits a part of the server, it awaits the driver, or it
creates one. `AnnouncedWhenUp` (a server that is still binding has announced
nothing) and `RestartIsAlone` (until a shutdown begins, nothing else closes what
a restart awaits) make up the rest of `IInv`. From the latter follows
`RestartsNeverReject`: the rejection `lifecycle_shutdown` shows needs a
shutdown; however often the driver fails or does not start, restarts alone never
end the process that way.

`ServiceProofs`: initial states map to initial states of `Service`, and every
action maps to one of its steps or to a stutter. That a step is *only* what
`Service` allows is where `IInv` is used: the driver a call is about to replace
holds the port alone, and by then its server has no part left. Most actions are
quiet (`QuietStep`) or end the process (`ExitEnds`); the lemmas for the others
say which of `Open`, `Release`, `Serve`, `CutOff` and `FreePort` they are.

`MessagesProofs`: one lemma for each handler of `RequestForms` says that it
takes every request at its word or refuses it; `FormsMeanOneThing` puts them
together. That the precedence of the handlers' nested tests is the one
`Understood` states is `FirstOfTwo` and `FirstOfThree`. `EachFactHasOneName`
follows from the versions at which each old name ends and the new one begins,
read off the stages of the dumps. `TypesAreKept` is about the casts: the last
type among those a version reaches is the declared one (`Declares`), and between
two returns the stages tell at least what that type requires, whatever the
object knows, and nothing it does not have (`Fits`, a lemma for each kind of
dump). The answers follow handler by handler; the type of a version is told by
tests written the other way round (`VersionsMeet`).

## What is only model-checked

- Liveness everywhere (`ClosedClientsForgotten`, `ImplementsFairLogStream`,
  `ImplementsFairDialogue`, `DestroyFreesSlot`, `RequestsAreAnswered`,
  `FailedDriverIsReplaced`, `ShutdownEnds`): it needs fairness and ENABLED,
  which TLAPS does not reason about.

## What is not modelled

- Values: arguments and results of commands beyond their keys, payloads of
  events, values of dumps. The properties do not tell them apart. Of the requests
  `RequestForms` has those in which a field is optional, older or conflicts with
  another; the rest are passed on field by field. A field is absent or of its
  declared type: `null` is left out. So is the conversion of serialised buffers
  among the arguments of `endpoint.invoke_cc_api` (`README.md:1287`).
- The driver, `ws`, the HTTP server and DNS-SD, except for what they promise the
  code here; definitions of it are marked external in `PROJECT.json`. A virtual
  node is created for each command and has no state.
- The command line client (`bin/client.ts`), the mock driver, formatting of logs,
  parsing of the configuration file in `bin/server.ts`, JSON encoding of maps.
- Captures of the Zniffer: data of the library.
- Time: timers fire eventually, so back-off and ping period are not checked.

## Plan

1. `Session` with several connections: progress events of one must not reach
   another, and a command of one may change what a query of the other reads.
2. `Inclusion` with exclusion and SmartStart provisioning, which share the
   driver's state but not the slots.
3. An abstract specification of a network's picture that `EventForwarder`
   implements, with `Session`'s sending between the two.
