--------------------------- MODULE ServerLifecycle ---------------------------
(***************************************************************************)
(* The life of the process: the driver is started, restarted when it fails *)
(* and, while it is ready, served by a ZwavejsServer; a signal shuts all   *)
(* of it down (bin/server.ts; ZwavejsServer.start and destroy in           *)
(* lib/server.ts).                                                         *)
(*                                                                         *)
(* startDriverWithRetry and handleShutdown are asynchronous functions over *)
(* the two shared variables driver and server; an action runs one of them  *)
(* from an await to the next.  Nothing keeps two of them from running at   *)
(* the same time, and the fields of a server are deleted by whoever        *)
(* resumes first: the next one finds them undefined, and the rejection,    *)
(* which nobody handles, ends the process.                                 *)
(*                                                                         *)
(* The n-th call of startDriverWithRetry is n.  It creates at most one     *)
(* driver, which is n too, and a driver gets at most one server.           *)
(*                                                                         *)
(* The driver is external: start() resolves when the serial port is open,  *)
(* "driver ready" comes later and once, Driver_Failed once, in between or  *)
(* after, but not from a driver that is being destroyed.                   *)
(***************************************************************************)
EXTENDS Naturals

CONSTANT MaxCalls  \* bound: calls of startDriverWithRetry

ASSUME CallsBounded == MaxCalls \in Nat \ {0}

Call     == 1..MaxCalls
Shutdown == MaxCalls + 1     \* the call of handleShutdown
Process  == Call \cup {Shutdown}
None     == 0

\* What a server owns, in the order destroy() takes it down.
Ws    == "wsServer"  \* and sockets
Http  == "server"
Dns   == "service"   \* and responder
Part  == {Ws, Http, Dns}
Order == [i \in Part |-> IF i = Ws THEN 1 ELSE IF i = Http THEN 2 ELSE 3]

VARIABLES
    driver,    \* the variable driver: a call or None
    server,    \* the variable server: the driver it was created for, or None
    drv,       \* Call -> life of the driver
    part,      \* Call -> Part -> life of the part of its server
    pc,        \* Process -> the await it is in
    object,    \* Process -> the driver or server it awaits
    calls,     \* startDriverWithRetry has been called so many times
    timers,    \* pending retry timers
    reconnect, \* --reconnect
    closing,   \* the variable closing
    exited     \* how the process has ended

vars == <<driver, server, drv, part, pc, object, calls, timers, reconnect,
          closing, exited>>

DriverState == {"none", "opening", "open", "ready", "failed", "closing", "destroyed"}
PartState   == {"none", "binding", "up", "closing", "closed", "deleted"}
Await       == {"none", "driver", "start", "catch", "returned"} \cup Part

\* The driver uses the serial port, or is about to.
Holds(d) == drv[d] \in {"opening", "open", "ready", "failed", "closing"}

TypeOK ==
    /\ driver \in Call \cup {None} /\ server \in Call \cup {None}
    /\ drv \in [Call -> DriverState]
    /\ part \in [Call -> [Part -> PartState]]
    /\ pc \in [Process -> Await]
    /\ object \in [Process -> Call \cup {None}]
    /\ calls \in 0..MaxCalls /\ timers \in 0..MaxCalls
    /\ reconnect \in BOOLEAN /\ closing \in BOOLEAN
    /\ exited \in {"no", "graceful", "forced", "failed", "rejected"}

Running == exited = "no"

-----------------------------------------------------------------------------
(* The steps of the asynchronous functions.  ds is what the drivers have    *)
(* become in the step so far.                                               *)

\* The process ends.
Exit(how) ==
    /\ exited' = how
    /\ UNCHANGED <<driver, drv, part, pc, object>>

\* new Driver, its listeners, and the call of its start().
CreateDriver(p, ds) ==
    /\ driver' = p
    /\ drv' = [ds EXCEPT ![p] = "opening"]
    /\ pc' = [pc EXCEPT ![p] = "start"]
    /\ object' = [object EXCEPT ![p] = p]
    /\ UNCHANGED exited

Return(p, ds) ==
    /\ pc' = [pc EXCEPT ![p] = "returned"]
    /\ drv' = ds
    /\ UNCHANGED <<driver, object, exited>>

\* Mutant: handleShutdown leaves it to the event loop to end the process.
AfterDriverReturn(p, ds) ==
    IF p = Shutdown THEN Return(p, ds) ELSE CreateDriver(p, ds)

\* What follows the end of the old driver.
AfterDriver(p, ds) ==
    IF p = Shutdown
    THEN exited' = "graceful" /\ drv' = ds /\ UNCHANGED <<driver, pc, object>>
    ELSE CreateDriver(p, ds)

\* await driver.destroy()
AwaitDriver(p, await, ds) ==
    /\ drv' = [ds EXCEPT ![driver] = IF @ = "destroyed" THEN @ ELSE "closing"]
    /\ pc' = [pc EXCEPT ![p] = await]
    /\ object' = [object EXCEPT ![p] = driver]
    /\ UNCHANGED <<driver, exited>>

\* Mutant: nobody waits for the old driver.
AfterServerAtOnce(p, ds) == AfterDriver(p, ds)

\* What follows the end of the old server.
AfterServer(p, ds) ==
    IF driver # None THEN AwaitDriver(p, "driver", ds) ELSE AfterDriver(p, ds)

\* Mutant: the HTTP server is not taken down.
PresentButHttp(ps) == {i \in Part \ {Http} : ps[i] \notin {"none", "deleted"}}

\* The fields of a server that are not undefined.
Present(ps) == {i \in Part : ps[i] \notin {"none", "deleted"}}

\* The part that destroy() takes down next.
First(ps) ==
    CHOOSE i \in Present(ps) : \A j \in Present(ps) : Order[i] <= Order[j]

\* destroy() of server s, from where its parts are ps: the first field that is
\* left is told to close and awaited.
DestroyServer(p, s, ps, ds) ==
    IF Present(ps) = {}
    THEN part' = [part EXCEPT ![s] = ps] /\ AfterServer(p, ds)
    ELSE /\ part' = [part EXCEPT ![s] =
                [ps EXCEPT ![First(ps)] = IF @ = "closed" THEN @ ELSE "closing"]]
         /\ pc' = [pc EXCEPT ![p] = First(ps)]
         /\ object' = [object EXCEPT ![p] = s]
         /\ drv' = ds
         /\ UNCHANGED <<driver, exited>>

\* Mutant: only the driver is taken down.
TakeDownDriver(p, ds) == AfterServer(p, ds) /\ UNCHANGED part

\* if (server) await server.destroy(); if (driver) await driver.destroy(); ...
TakeDown(p, ds) ==
    IF server # None THEN DestroyServer(p, server, part[server], ds)
    ELSE AfterServer(p, ds) /\ UNCHANGED part

\* A call of startDriverWithRetry, up to its first await.  It looks at the old
\* server only if there is a driver.
StartDriverWithRetry(ds) ==
    /\ calls < MaxCalls
    /\ calls' = calls + 1
    /\ IF driver # None THEN TakeDown(calls', ds)
       ELSE CreateDriver(calls', ds) /\ UNCHANGED part

-----------------------------------------------------------------------------

Init ==
    /\ driver = 1 /\ server = None
    /\ drv = [d \in Call |-> IF d = 1 THEN "opening" ELSE "none"]
    /\ part = [d \in Call |-> [i \in Part |-> "none"]]
    /\ pc = [p \in Process |-> IF p = 1 THEN "start" ELSE "none"]
    /\ object = [p \in Process |-> IF p = 1 THEN 1 ELSE None]
    /\ calls = 1 /\ timers = 0
    /\ reconnect \in BOOLEAN
    /\ closing = FALSE
    /\ exited = "no"

\* A part of server s has closed: the last client of its WebSocket server has
\* gone, the last connection of its HTTP server has ended, ...
PartCloses(s, i) ==
    /\ part[s][i] = "closing"
    /\ part' = [part EXCEPT ![s][i] = "closed"]
    /\ UNCHANGED <<driver, server, drv, pc, object, calls, timers, reconnect,
                   closing, exited>>

\* ... and destroy() resumes: it deletes the field, unless somebody else has.
Resume(p) ==
    /\ pc[p] \in Part
    /\ LET s == object[p]
           i == pc[p]
       IN  \/ /\ part[s][i] = "closed"
              /\ DestroyServer(p, s, [part[s] EXCEPT ![i] = "deleted"], drv)
           \/ /\ part[s][i] = "deleted"
              /\ Exit("rejected")
    /\ UNCHANGED <<server, calls, timers, reconnect, closing>>

\* The driver's destroy() resolves.
DriverDestroyed(p) ==
    /\ pc[p] = "driver"
    /\ AfterDriver(p, [drv EXCEPT ![object[p]] = "destroyed"])
    /\ UNCHANGED <<server, part, calls, timers, reconnect, closing>>

\* The driver's start() resolves, which ends the call of startDriverWithRetry.
DriverStarted(p) ==
    /\ pc[p] = "start" /\ drv[p] = "opening"
    /\ Return(p, [drv EXCEPT ![p] = "open"])
    /\ UNCHANGED <<server, part, calls, timers, reconnect, closing>>

\* It is rejected, also because the driver is being destroyed: whatever driver
\* the variable holds now is destroyed ...
DriverStartFails(p) ==
    /\ pc[p] = "start" /\ drv[p] \in {"opening", "closing", "destroyed"}
    /\ IF driver # None THEN AwaitDriver(p, "catch", drv) /\ UNCHANGED part
       ELSE Exit("rejected")
    /\ UNCHANGED <<server, calls, timers, reconnect, closing>>

\* ... and forgotten, and a timer started.
StartFailureHandled(p) ==
    /\ pc[p] = "catch"
    /\ drv' = [drv EXCEPT ![object[p]] = "destroyed"]
    /\ driver' = None
    /\ pc' = [pc EXCEPT ![p] = "returned"]
    /\ IF reconnect
       THEN timers' = timers + 1 /\ UNCHANGED exited
       ELSE exited' = "failed" /\ UNCHANGED timers
    /\ UNCHANGED <<server, part, object, calls, reconnect, closing>>

\* The retry timer.  The variable retryTimer is never set, so nobody clears it.
RetryTimer ==
    /\ timers > 0
    /\ timers' = timers - 1
    /\ StartDriverWithRetry(drv)
    /\ UNCHANGED <<server, reconnect, closing>>

\* Mutant: a variable of the callback shadows server.
ShadowServer(d) == UNCHANGED server

RememberServer(d) == server' = d

\* "driver ready": a server for the driver of the variable, which must be ready.
DriverReady(d) ==
    /\ drv[d] = "open"
    /\ IF driver = d
       THEN /\ RememberServer(d)
            /\ drv' = [drv EXCEPT ![d] = "ready"]
            /\ part' = [part EXCEPT ![d] = [@ EXCEPT ![Ws] = "up", ![Http] = "binding"]]
            /\ UNCHANGED <<driver, pc, object, exited>>
       ELSE Exit("rejected") /\ UNCHANGED server
    /\ UNCHANGED <<calls, timers, reconnect, closing>>

\* "listening": start() resumes and announces the server.
Listening(s) ==
    /\ part[s][Http] = "binding"
    /\ part' = [part EXCEPT ![s] = [@ EXCEPT ![Http] = "up", ![Dns] = "up"]]
    /\ UNCHANGED <<driver, server, drv, pc, object, calls, timers, reconnect,
                   closing, exited>>

\* The port is taken: nobody handles the error.
ListenFails(s) ==
    /\ part[s][Http] = "binding"
    /\ Exit("failed")
    /\ UNCHANGED <<server, calls, timers, reconnect, closing>>

\* Mutant: the failure is only logged.
LogError(ds) ==
    drv' = ds /\ UNCHANGED <<driver, part, pc, object, calls, exited>>

\* The handler of Driver_Failed.
OnDriverFailed(ds) ==
    IF reconnect THEN StartDriverWithRetry(ds)
    ELSE /\ exited' = "failed" /\ drv' = ds
         /\ UNCHANGED <<driver, part, pc, object, calls>>

\* Mutant: every error of the driver is taken for its failure.
DriverErrs(d) ==
    /\ drv[d] \in {"opening", "open", "ready"}
    /\ OnDriverFailed(drv)
    /\ UNCHANGED <<server, timers, reconnect, closing>>

\* The driver fails, and says so.
DriverFails(d) ==
    /\ drv[d] \in {"open", "ready"}
    /\ OnDriverFailed([drv EXCEPT ![d] = "failed"])
    /\ UNCHANGED <<server, timers, reconnect, closing>>

\* SIGINT and SIGTERM: the second one exits at once.
HandleShutdown ==
    /\ closing' = TRUE
    /\ IF closing THEN Exit("forced") ELSE TakeDown(Shutdown, drv)
    /\ UNCHANGED <<server, calls, timers, reconnect>>

Next ==
    /\ Running
    /\ \/ \E p \in Process : Resume(p) \/ DriverDestroyed(p)
       \/ \E p \in Call :
             \/ DriverStarted(p) \/ DriverStartFails(p) \/ StartFailureHandled(p)
             \/ DriverReady(p) \/ DriverFails(p)
             \/ Listening(p) \/ ListenFails(p)
             \/ \E i \in Part : PartCloses(p, i)
       \/ RetryTimer
       \/ HandleShutdown

Spec == Init /\ [][Next]_vars

\* What is told to close closes (ws ends its sockets after a timeout), promises
\* settle, timers fire.
FairSpec ==
    /\ Spec
    /\ \A p \in Process :
          /\ WF_vars(Running /\ Resume(p))
          /\ WF_vars(Running /\ DriverDestroyed(p))
    /\ \A p \in Call :
          /\ WF_vars(Running /\ (DriverStarted(p) \/ DriverStartFails(p)))
          /\ WF_vars(Running /\ StartFailureHandled(p))
          /\ \A i \in Part : WF_vars(Running /\ PartCloses(p, i))
    /\ WF_vars(Running /\ RetryTimer)

-----------------------------------------------------------------------------
(* Properties                                                               *)

\* The types, and that the variable server holds the last server created.
TypeInvariant ==
    /\ TypeOK
    /\ \A s \in Call : part[s][Ws] # "none" => drv[s] # "none" /\ s <= server
    /\ server # None => part[server][Ws] # "none"

\* At most one driver has the serial port or tries to open it, however the
\* failures, the retries and a shutdown interleave.
OneDriverHoldsThePort ==
    \A d, e \in Call : Holds(d) /\ Holds(e) => d = e

\* At most one server has the TCP port: the next one never finds it taken by
\* its predecessor.
OneServerListens ==
    \A s, t \in Call :
        /\ part[s][Http] \in {"binding", "up", "closing"}
        /\ part[t][Http] \in {"binding", "up", "closing"}
        => s = t

\* Clients are only accepted for the current driver, and before anybody has
\* begun to destroy it: no client talks to a dead driver.
ServedDriverIsCurrent ==
    \A s \in Call : part[s][Ws] = "up" =>
        driver = s /\ server = s /\ drv[s] \in {"ready", "failed"}

\* Call p is on its way from the old driver to the start of its own.
Restarting(p) == pc[p] \in Part \cup {"driver", "start", "catch"}

\* Nothing of server s is left.
Gone(s) == \A i \in Part : part[s][i] \in {"none", "deleted"}

\* There is one thread of restarts, although nothing in the code says so: a
\* call on its way, a retry timer, or a driver that can fail.
OneRestartAtATime ==
    /\ timers <= 1
    /\ \A p \in Call : Restarting(p) => p = calls /\ timers = 0
    /\ \A d \in Call : drv[d] \in {"open", "ready"} =>
          timers = 0 /\ \A p \in Call : ~Restarting(p)

\* What a call that awaits a driver relies on: the variable still holds it.
AwaitedIsCurrent ==
    /\ \A d \in Call : Holds(d) => driver = d
    /\ driver # None =>
          drv[driver] # "none" /\ \A d \in Call : drv[d] # "none" => d <= driver
    /\ \A p \in Process :
          /\ pc[p] # "none" => object[p] # None
          /\ pc[p] \in {"driver", "catch"} =>
                drv[object[p]] \in {"closing", "destroyed"}
    /\ \A p \in Call :
          /\ pc[p] \in {"driver", "catch"} => object[p] = driver
          /\ calls < p \/ pc[p] \in Part \cup {"driver"} => drv[p] = "none"

\* Only the last server has anything left, and it has nothing left when its
\* driver is destroyed and the next is about to start, so that the next server
\* is alone.
OldServersAreGone ==
    /\ \A s \in Call : Gone(s) \/ server = s
    /\ \/ timers > 0
       \/ \E p \in Call : pc[p] \in {"driver", "start", "catch"}
       \/ \E d \in Call : drv[d] \in {"open", "closing"}
       => \A s \in Call : Gone(s)
    /\ \A s \in Call : drv[s] \in {"none", "opening", "open"} =>
          \A i \in Part : part[s][i] = "none"
    /\ \A s \in Call : part[s][Ws] = "up" =>
          \A i \in Part : part[s][i] \in {"none", "binding", "up"}

\* What keeps drivers and servers apart, inductive by itself.
HandoverInv ==
    /\ TypeInvariant
    /\ OneRestartAtATime
    /\ AwaitedIsCurrent
    /\ OldServersAreGone
    /\ ServedDriverIsCurrent

\* A server is announced only when it listens: what its start() has yet to
\* announce, nobody takes down.
AnnouncedWhenUp ==
    \A s \in Call : part[s][Http] = "binding" => part[s][Dns] = "none"

\* Until a shutdown, nobody takes away what a restart awaits: the driver that
\* starts is not being destroyed, and the part that closes is not deleted.
RestartIsAlone ==
    ~closing =>
        /\ exited # "rejected"
        /\ pc[Shutdown] = "none"
        /\ \A p \in Call :
              /\ pc[p] = "start" => drv[p] = "opening"
              /\ pc[p] \in Part => part[object[p]][pc[p]] \in {"closing", "closed"}

\* The inductive invariant.
IInv == HandoverInv /\ AnnouncedWhenUp /\ RestartIsAlone

\* What Service sees of drivers and servers.
Holders  == {d \in Call : Holds(d)}
Used     == {d \in Call : drv[d] # "none"}
Serving  == {s \in Call : part[s][Ws] = "up"}
Served   == {s \in Call : part[s][Ws] # "none"}
OnPort   == {s \in Call : part[s][Http] \in {"binding", "up", "closing"}}

\* The process keeps the promises of Service, whatever fails when.
Promised == INSTANCE Service WITH
    Driver <- Call, holders <- Holders, used <- Used, serving <- Serving,
    served <- Served, listening <- OnPort, ended <- ~Running

ImplementsService == Promised!Spec

\* A restart by itself never ends the process with an unhandled rejection: it
\* takes a shutdown that takes down what the restart does.
RestartsDoNotReject == exited = "rejected" => closing

\* With --reconnect, a driver that has failed is replaced, unless the process
\* ends.  (The bound on calls stops it from failing after the last one.)
FailedDriverIsReplaced ==
    \A d \in Call : drv[d] = "failed" ~> driver # d \/ ~Running

\* A shutdown ends the process.
ShutdownEnds == closing ~> ~Running

\* A shutdown closes gracefully, or a second signal cuts it short; it does not
\* end with an exception.
GracefulShutdown == closing => exited # "rejected"

=============================================================================
