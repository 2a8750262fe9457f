----------------------------- MODULE ServiceProofs -----------------------------
(***************************************************************************)
(* bin/server.ts and ZwavejsServer keep the promises of Service, however   *)
(* many times the driver fails, does not start and is restarted, and       *)
(* whenever a signal comes: every step of ServerLifecycle is a step of     *)
(* Service, or invisible to it.                                            *)
(*                                                                         *)
(* The steps are told apart by what they do to the drivers and by what     *)
(* they do to the parts of the servers; most do nothing to either that     *)
(* Service can see.  That the old server is gone when the next driver is   *)
(* created is the inductive invariant of ServerLifecycleProofs.            *)
(***************************************************************************)
EXTENDS ServerLifecycleProofs

\* Service sees nothing of what happens to the drivers ...
SameDrivers ==
    \A d \in Call :
        /\ Holds(d)' <=> Holds(d)
        /\ drv'[d] = "none" <=> drv[d] = "none"

\* ... and to the servers.
SameParts ==
    \A s \in Call :
        /\ part'[s][Ws] = "up" <=> part[s][Ws] = "up"
        /\ part'[s][Ws] = "none" <=> part[s][Ws] = "none"
        /\ part'[s][Http] \in {"binding", "up", "closing"} <=>
              part[s][Http] \in {"binding", "up", "closing"}

\* A step of Service, or none.
Step == [Promised!Next]_Promised!vars

\* The drivers in the middle of a step: one may just have failed.
Failing(ds) ==
    /\ ds \in [Call -> DriverState]
    /\ \A d \in Call :
          ds[d] = drv[d] \/ (ds[d] = "failed" /\ drv[d] \in {"open", "ready"})

LEMMA DriversStay == ASSUME SameDrivers PROVE Holders' = Holders /\ Used' = Used
BY DEF SameDrivers, Holders, Used

LEMMA PartsStay ==
    ASSUME SameParts
    PROVE  Serving' = Serving /\ Served' = Served /\ OnPort' = OnPort
BY DEF SameParts, Serving, Served, OnPort

LEMMA QuietStep == ASSUME SameDrivers, SameParts, exited' = exited PROVE Step
BY DriversStay, PartsStay DEF Step, Promised!vars, Running

\* A process that ends and leaves everything as it is.
LEMMA AbruptEnd == ASSUME Running, SameDrivers, SameParts, exited' # "no" PROVE Step
BY DriversStay, PartsStay DEF Step, Promised!Next, Promised!End, Running

LEMMA ExitEnds == ASSUME Running, NEW how, how # "no", Exit(how) PROVE Step
<1>1. SameDrivers /\ SameParts
  BY DEF Exit, SameDrivers, SameParts, Holds
<1> QED
  BY <1>1, AbruptEnd DEF Exit

\* Nothing accepts clients and nothing has the TCP port.
LEMMA GoneIsClear ==
    ASSUME \A s \in Call : Gone(s) PROVE Serving = {} /\ OnPort = {}
BY DEF Gone, Part, Serving, OnPort

\* The next driver is created once nothing is left of the last one.
LEMMA CreateOpens ==
    ASSUME HandoverInv, HandoverInv', Running, NEW p \in Call, NEW ds,
           CreateDriver(p, ds), SameParts, drv[p] = "none",
           ds \in [Call -> DriverState],
           \A d \in Call : ds[d] = "none" <=> drv[d] = "none"
    PROVE  Step
<1>1. /\ drv' = [ds EXCEPT ![p] = "opening"] /\ exited' = exited /\ driver' = p
      /\ p \in Process
  BY Processes DEF CreateDriver
<1>2. pc'[p] = "start"
  BY <1>1 DEF CreateDriver, HandoverInv, TypeInvariant, TypeOK
<1>3. \A s \in Call : Gone(s)'
  BY <1>2 DEF HandoverInv, OldServersAreGone
<1>4. Serving = {} /\ OnPort = {} /\ UNCHANGED <<Serving, Served, OnPort>>
  <2>1. \A s \in Call :
           /\ part'[s][Ws] # "up"
           /\ part'[s][Http] \notin {"binding", "up", "closing"}
    BY <1>3 DEF Gone, Part
  <2>2. Serving = {} /\ OnPort = {}
    BY <2>1 DEF SameParts, Serving, OnPort
  <2> QED
    BY <2>2, PartsStay
<1>5. Holders' = {p}
  <2>1. \A d \in Call : Holds(d)' => d = p
    BY <1>1 DEF HandoverInv, AwaitedIsCurrent
  <2>2. Holds(p)'
    BY <1>1 DEF Holds
  <2> QED
    BY <2>1, <2>2 DEF Holders
<1>6. Used' = Used \cup {p} /\ p \notin Used
  BY <1>1 DEF Used
<1> QED
  BY <1>1, <1>4, <1>5, <1>6 DEF Step, Promised!Next, Promised!Open, Running

\* A driver that is being destroyed keeps the port until it is.
LEMMA AwaitIsQuiet ==
    ASSUME HandoverInv, NEW p, NEW await, NEW ds, Failing(ds), driver # None,
           AwaitDriver(p, await, ds)
    PROVE  SameDrivers /\ exited' = exited
<1>1. driver \in Call /\ drv[driver] # "none"
  BY DEF HandoverInv, AwaitedIsCurrent, TypeInvariant, TypeOK
<1>2. drv' = [ds EXCEPT ![driver] = IF ds[driver] = "destroyed" THEN ds[driver]
                                    ELSE "closing"]
  BY DEF AwaitDriver
<1>3. ASSUME NEW d \in Call
      PROVE  /\ Holds(d)' <=> Holds(d)
             /\ drv'[d] = "none" <=> drv[d] = "none"
  <2>1. CASE d = driver
    <3>1. drv'[d] = IF ds[d] = "destroyed" THEN "destroyed" ELSE "closing"
      BY <1>1, <1>2, <2>1 DEF Failing
    <3> QED
      BY <1>1, <2>1, <3>1 DEF Holds, Failing, HandoverInv, TypeInvariant, TypeOK,
         DriverState
  <2>2. CASE d # driver
    <3>1. drv'[d] = ds[d]
      BY <1>1, <1>2, <2>2 DEF Failing
    <3> QED
      BY <3>1 DEF Holds, Failing
  <2> QED
    BY <2>1, <2>2
<1> QED
  BY <1>3 DEF AwaitDriver, SameDrivers

LEMMA AfterServerKeeps ==
    ASSUME HandoverInv, HandoverInv', Running, NEW p \in Process, NEW ds,
           Failing(ds), AfterServer(p, ds), SameParts,
           p \in Call => drv[p] = "none"
    PROVE  Step
<1>1. CASE driver # None
  BY <1>1, AwaitIsQuiet, QuietStep DEF AfterServer
<1>2. CASE driver = None /\ p = Shutdown
  <2>1. drv' = ds /\ exited' = "graceful"
    BY <1>2 DEF AfterServer, AfterDriver
  <2>2. SameDrivers
    BY <2>1 DEF SameDrivers, Holds, Failing
  <2> QED
    BY <2>1, <2>2, AbruptEnd
<1>3. CASE driver = None /\ p # Shutdown
  <2>1. p \in Call /\ CreateDriver(p, ds)
    BY <1>3, Processes DEF AfterServer, AfterDriver
  <2> QED
    BY <2>1, CreateOpens DEF Failing
<1> QED
  BY <1>1, <1>2, <1>3

\* Taking down a server cuts the clients off first; what follows in its wake is
\* invisible.  ps is what is left of the server, one part less than there was.
LEMMA DestructionKeeps ==
    ASSUME HandoverInv, HandoverInv', Running, NEW p \in Process, NEW ds,
           Failing(ds), NEW s \in Call, NEW ps \in [Part -> PartState],
           DestroyServer(p, s, ps, ds),
           \A i \in Part : ps[i] = part[s][i] \/
                           (ps[i] = "deleted" /\ part[s][i] = "closed"),
           p \in Call => drv[p] = "none"
    PROVE  Step
<1>1. part \in [Call -> [Part -> PartState]] /\ Part = {Ws, Http, Dns}
  BY DEF HandoverInv, TypeInvariant, TypeOK, Part
<1>2. CASE Present(ps) = {}
  <2>1. part' = [part EXCEPT ![s] = ps] /\ AfterServer(p, ds)
    BY <1>2 DEF DestroyServer
  <2>2. SameParts
    BY <1>1, <2>1 DEF SameParts
  <2> QED
    BY <2>1, <2>2, AfterServerKeeps
<1>3. CASE Present(ps) # {}
  <2> DEFINE next == First(ps)
  <2>1. /\ next \in Part /\ ps[next] \notin {"none", "deleted"}
        /\ ps[Ws] \notin {"none", "deleted"} => next = Ws
    BY <1>3, FirstIsPresent
  <2>2. /\ part' = [part EXCEPT ![s] =
                [ps EXCEPT ![next] = IF ps[next] = "closed" THEN ps[next] ELSE "closing"]]
        /\ drv' = ds /\ exited' = exited
    BY <1>3 DEF DestroyServer
  <2> HIDE DEF next
  <2>3. SameDrivers
    BY <2>2 DEF SameDrivers, Holds, Failing
  <2>4. /\ \A t \in Call \ {s} : part'[t] = part[t]
        /\ \A i \in Part \ {next} : part'[s][i] = ps[i]
        /\ part'[s][next] = IF ps[next] = "closed" THEN "closed" ELSE "closing"
    BY <1>1, <2>1, <2>2
  <2>5. /\ Ws \in Part /\ Http \in Part /\ Ws # Http
        /\ ps[next] \in PartState
    BY <2>1 DEF Part, Ws, Http
  <2>6. CASE part[s][Ws] = "up"
    <3>1. next = Ws /\ ps[Ws] = "up"
      BY <2>1, <2>5, <2>6
    <3>2. \A t \in Call : part[t][Ws] = "up" => t = s
      BY <2>6 DEF HandoverInv, ServedDriverIsCurrent
    <3>3. Serving' = {}
      BY <2>4, <3>1, <3>2 DEF Serving
    <3>4. Served' = Served
      BY <2>4, <2>6, <3>1 DEF Served
    <3>5. OnPort' = OnPort
      BY <2>4, <2>5, <3>1 DEF OnPort
    <3> QED
      BY <2>2, <2>3, <3>3, <3>4, <3>5, DriversStay
      DEF Step, Promised!Next, Promised!CutOff, Running
  <2>7. CASE part[s][Ws] # "up"
    <3>1. \A t \in Call \ {s} : part'[t][Ws] = part[t][Ws] /\ part'[t][Http] = part[t][Http]
      BY <2>4
    <3>2. /\ part'[s][Ws] # "up"
          /\ part'[s][Ws] = "none" <=> part[s][Ws] = "none"
      BY <2>1, <2>4, <2>5, <2>7
    <3>3. part'[s][Http] \in {"binding", "up", "closing"} <=>
             part[s][Http] \in {"binding", "up", "closing"}
      BY <2>1, <2>4, <2>5 DEF PartState
    <3>4. SameParts
      BY <2>7, <3>1, <3>2, <3>3 DEF SameParts
    <3> QED
      BY <2>2, <2>3, <3>4, QuietStep
  <2> QED
    BY <2>6, <2>7
<1> QED
  BY <1>2, <1>3

LEMMA TakeDownKeeps ==
    ASSUME HandoverInv, HandoverInv', Running, NEW p \in Process, NEW ds,
           Failing(ds), TakeDown(p, ds), p \in Call => drv[p] = "none"
    PROVE  Step
<1>1. CASE server = None
  <2>1. AfterServer(p, ds) /\ SameParts
    BY <1>1 DEF TakeDown, SameParts
  <2> QED
    BY <2>1, AfterServerKeeps
<1>2. CASE server # None
  <2>1. PICK s \in Call : s = server
    BY <1>2 DEF HandoverInv, TypeInvariant, TypeOK
  <2>2. PICK ps \in [Part -> PartState] : ps = part[s]
    BY DEF HandoverInv, TypeInvariant, TypeOK
  <2>3. DestroyServer(p, s, ps, ds)
    BY <1>2, <2>1, <2>2 DEF TakeDown, DestroyServer, AfterServer, AwaitDriver,
       AfterDriver, CreateDriver
  <2> QED
    BY <2>2, <2>3, DestructionKeeps
<1> QED
  BY <1>1, <1>2

LEMMA RestartKeeps ==
    ASSUME HandoverInv, HandoverInv', Running, NEW ds, Failing(ds),
           StartDriverWithRetry(ds)
    PROVE  Step
<1>1. PICK p \in Call : p = calls'
  BY CallsBounded DEF StartDriverWithRetry, Call, HandoverInv, TypeInvariant, TypeOK
<1>2. p \in Process /\ drv[p] = "none"
  BY <1>1, Processes DEF StartDriverWithRetry, HandoverInv, AwaitedIsCurrent,
     TypeInvariant, TypeOK
<1>3. CASE driver = None
  <2>1. CreateDriver(p, ds) /\ SameParts
    BY <1>1, <1>3 DEF StartDriverWithRetry, CreateDriver, SameParts
  <2> QED
    BY <1>2, <2>1, CreateOpens DEF Failing
<1>4. CASE driver # None
  <2>1. TakeDown(p, ds)
    BY <1>1, <1>4 DEF StartDriverWithRetry, TakeDown, DestroyServer, AfterServer,
       AwaitDriver, AfterDriver, CreateDriver
  <2> QED
    BY <1>2, <2>1, TakeDownKeeps
<1> QED
  BY <1>3, <1>4

-----------------------------------------------------------------------------
(* Step by step.                                                            *)

LEMMA ResumeKeeps ==
    ASSUME HandoverInv, HandoverInv', Running, NEW p \in Process, Resume(p)
    PROVE  Step
<1>1. CASE Exit("rejected")
  BY <1>1, ExitEnds
<1>2. CASE ~Exit("rejected")
  <2>1. pc[p] \in Part /\ object[p] \in Call \cup {None} /\ object[p] # None
    BY PartsAreNoPromises DEF Resume, HandoverInv, TypeInvariant, TypeOK, AwaitedIsCurrent
  <2>2. PICK s \in Call : s = object[p]
    BY <2>1
  <2>3. PICK ps : ps = [part[s] EXCEPT ![pc[p]] = "deleted"]
    OBVIOUS
  <2>4. PICK ds : ds = drv
    OBVIOUS
  <2>5. part[s][pc[p]] = "closed" /\ DestroyServer(p, s, ps, ds)
    BY <1>2, <2>2, <2>3, <2>4 DEF Resume, DestroyServer, AfterServer, AwaitDriver,
       AfterDriver, CreateDriver
  <2>6. /\ part[s] \in [Part -> PartState]
        /\ ds \in [Call -> DriverState]
    BY <2>4 DEF HandoverInv, TypeInvariant, TypeOK
  <2>7. /\ ps \in [Part -> PartState]
        /\ \A i \in Part : ps[i] = part[s][i] \/
                           (ps[i] = "deleted" /\ part[s][i] = "closed")
    BY <2>3, <2>5, <2>6 DEF PartState
  <2>8. Failing(ds)
    BY <2>4, <2>6 DEF Failing
  <2>9. p \in Call => drv[p] = "none"
    BY <2>1 DEF HandoverInv, AwaitedIsCurrent
  <2> QED
    BY <2>5, <2>7, <2>8, <2>9, DestructionKeeps
<1> QED
  BY <1>1, <1>2

\* The old driver is off the port: the next one takes it, or the process ends.
LEMMA DriverDestroyedKeeps ==
    ASSUME HandoverInv, HandoverInv', Running, NEW p \in Process, DriverDestroyed(p)
    PROVE  Step
<1>1. /\ drv \in [Call -> DriverState] /\ pc[p] = "driver"
      /\ object[p] \in Call \cup {None} /\ object[p] # None
      /\ drv[object[p]] \in {"closing", "destroyed"}
  BY DEF DriverDestroyed, HandoverInv, TypeInvariant, TypeOK, AwaitedIsCurrent
<1>2. SameParts
  BY DEF DriverDestroyed, SameParts
<1>3. PICK ds : ds = [drv EXCEPT ![object[p]] = "destroyed"]
  OBVIOUS
<1>4. /\ ds \in [Call -> DriverState]
      /\ \A d \in Call : ds[d] = "none" <=> drv[d] = "none"
  BY <1>1, <1>3 DEF DriverState
<1>5. CASE p = Shutdown
  <2>1. drv' = ds /\ exited' = "graceful"
    BY <1>3, <1>5 DEF DriverDestroyed, AfterDriver
  <2>2. Used' = Used
    BY <1>4, <2>1 DEF Used
  <2>3. CASE drv[object[p]] = "destroyed"
    <3>1. Holders' = Holders
      BY <1>1, <1>3, <2>1, <2>3 DEF Holders, Holds
    <3> QED
      BY <1>2, <2>1, <2>2, <3>1, PartsStay
      DEF Step, Promised!Next, Promised!End, Running
  <2>4. CASE drv[object[p]] = "closing"
    <3>1. \A s \in Call : Gone(s)
      BY <1>1, <2>4 DEF HandoverInv, OldServersAreGone
    <3>2. \A d \in Call : Holds(d) => d = object[p]
      BY <1>1, <2>4 DEF HandoverInv, AwaitedIsCurrent, Holds
    <3>3. Holders' = {}
      BY <1>1, <1>3, <2>1, <3>2 DEF Holders, Holds
    <3> QED
      BY <1>2, <2>1, <2>2, <3>1, <3>3, PartsStay, GoneIsClear
      DEF Step, Promised!Next, Promised!End, Running
  <2> QED
    BY <1>1, <2>3, <2>4
<1>6. CASE p # Shutdown
  <2>1. p \in Call /\ CreateDriver(p, ds) /\ drv[p] = "none"
    BY <1>1, <1>3, <1>6, Processes
    DEF DriverDestroyed, AfterDriver, CreateDriver, HandoverInv, AwaitedIsCurrent
  <2> QED
    BY <1>2, <1>4, <2>1, CreateOpens
<1> QED
  BY <1>5, <1>6

LEMMA StartSettlesKeeps ==
    ASSUME HandoverInv, HandoverInv', Running, NEW p \in Call,
           DriverStarted(p) \/ DriverStartFails(p) \/ StartFailureHandled(p)
    PROVE  Step
<1>1. /\ drv \in [Call -> DriverState] /\ p \in Process
      /\ object[p] \in Call \cup {None}
  BY Processes DEF HandoverInv, TypeInvariant, TypeOK
<1>2. CASE DriverStarted(p)
  <2>1. SameDrivers /\ SameParts /\ exited' = exited
    BY <1>1, <1>2 DEF DriverStarted, Return, SameDrivers, SameParts, Holds
  <2> QED
    BY <2>1, QuietStep
<1>3. CASE DriverStartFails(p)
  <2>1. CASE driver # None
    <3>1. PICK ds, await : ds = drv /\ await = "catch"
      OBVIOUS
    <3>2. AwaitDriver(p, await, ds) /\ Failing(ds) /\ SameParts
      BY <1>1, <1>3, <2>1, <3>1 DEF DriverStartFails, AwaitDriver, Failing, SameParts
    <3> QED
      BY <2>1, <3>2, AwaitIsQuiet, QuietStep
  <2>2. CASE driver = None
    BY <1>3, <2>2, ExitEnds DEF DriverStartFails
  <2> QED
    BY <2>1, <2>2
<1>4. CASE StartFailureHandled(p)
  <2>1. /\ pc[p] = "catch" /\ object[p] = driver /\ object[p] # None
        /\ drv' = [drv EXCEPT ![object[p]] = "destroyed"]
        /\ drv[object[p]] \in {"closing", "destroyed"}
    BY <1>1, <1>4 DEF StartFailureHandled, HandoverInv, AwaitedIsCurrent
  <2>2. \A s \in Call : Gone(s)
    BY <2>1 DEF HandoverInv, OldServersAreGone
  <2>3. SameParts
    BY <1>4 DEF StartFailureHandled, SameParts
  <2>4. \A d \in Call : Holds(d) => d = driver
    BY DEF HandoverInv, AwaitedIsCurrent
  <2>5. Holders' = {} /\ Used' = Used
    BY <1>1, <2>1, <2>4 DEF Holders, Holds, Used
  <2>6. exited' \in {"no", "failed"}
    BY <1>4 DEF StartFailureHandled, Running
  <2> QED
    BY <2>2, <2>3, <2>5, <2>6, GoneIsClear, PartsStay
    DEF Step, Promised!Next, Promised!Release, Promised!End, Running
<1> QED
  BY <1>2, <1>3, <1>4

LEMMA DriverReadyKeeps ==
    ASSUME HandoverInv, HandoverInv', Running, NEW d \in Call, DriverReady(d)
    PROVE  Step
<1>1. CASE driver # d
  BY <1>1, ExitEnds DEF DriverReady
<1>2. CASE driver = d
  <2>1. /\ drv[d] = "open" /\ drv' = [drv EXCEPT ![d] = "ready"]
        /\ part' = [part EXCEPT ![d] = [part[d] EXCEPT ![Ws] = "up", ![Http] = "binding"]]
        /\ exited' = exited
    BY <1>2 DEF DriverReady
  <2>2. /\ drv \in [Call -> DriverState] /\ part \in [Call -> [Part -> PartState]]
        /\ Ws \in Part /\ Http \in Part /\ Ws # Http
    BY DEF HandoverInv, TypeInvariant, TypeOK, Part, Ws, Http
  <2>3. (\A s \in Call : Gone(s)) /\ \A i \in Part : part[d][i] = "none"
    BY <2>1 DEF HandoverInv, OldServersAreGone
  <2>4. Holders = {d} /\ Holders' = Holders /\ Used' = Used
    <3>1. \A e \in Call : Holds(e) => e = d
      BY <1>2 DEF HandoverInv, AwaitedIsCurrent
    <3>2. SameDrivers /\ Holds(d)
      BY <2>1, <2>2 DEF SameDrivers, Holds
    <3> QED
      BY <3>1, <3>2, DriversStay DEF Holders
  <2>5. \A s \in Call \ {d} : /\ part'[s] = part[s] /\ part[s][Ws] # "up"
                              /\ part[s][Http] \notin {"binding", "up", "closing"}
    BY <2>1, <2>2, <2>3 DEF Gone
  <2>6. part'[d][Ws] = "up" /\ part'[d][Http] = "binding"
    BY <2>1, <2>2
  <2>7. Serving' = {d} /\ OnPort' = {d} /\ Served' = Served \cup {d}
    BY <2>5, <2>6 DEF Serving, OnPort, Served
  <2>8. d \notin Served
    BY <2>2, <2>3 DEF Served
  <2> QED
    BY <2>1, <2>3, <2>4, <2>7, <2>8, GoneIsClear
    DEF Step, Promised!Next, Promised!Serve, Running
<1> QED
  BY <1>1, <1>2

LEMMA DriverFailsKeeps ==
    ASSUME HandoverInv, HandoverInv', Running, NEW d \in Call, DriverFails(d)
    PROVE  Step
<1>1. PICK ds : ds = [drv EXCEPT ![d] = "failed"]
  OBVIOUS
<1>2. Failing(ds)
  BY <1>1 DEF DriverFails, Failing, DriverState, HandoverInv, TypeInvariant, TypeOK
<1>3. CASE reconnect
  <2>1. StartDriverWithRetry(ds)
    BY <1>1, <1>3 DEF DriverFails, OnDriverFailed, StartDriverWithRetry, TakeDown,
       DestroyServer, AfterServer, AwaitDriver, AfterDriver, CreateDriver
  <2> QED
    BY <1>2, <2>1, RestartKeeps
<1>4. CASE ~reconnect
  <2>1. exited' = "failed" /\ drv' = ds /\ SameParts
    BY <1>1, <1>4 DEF DriverFails, OnDriverFailed, SameParts
  <2>2. SameDrivers
    BY <1>2, <2>1 DEF SameDrivers, Holds, Failing
  <2> QED
    BY <2>1, <2>2, AbruptEnd
<1> QED
  BY <1>3, <1>4

\* The TCP port is given back after the clients have been cut off.
LEMMA PartKeeps ==
    ASSUME HandoverInv, HandoverInv', Running, NEW s \in Call,
           Listening(s) \/ ListenFails(s) \/ \E i \in Part : PartCloses(s, i)
    PROVE  Step
<1>1. /\ part \in [Call -> [Part -> PartState]]
      /\ Part = {Ws, Http, Dns} /\ Ws # Http /\ Ws # Dns /\ Http # Dns
  BY DEF HandoverInv, TypeInvariant, TypeOK, Part, Ws, Http, Dns
<1>2. CASE Listening(s)
  <2>1. /\ part' = [part EXCEPT ![s] = [part[s] EXCEPT ![Http] = "up", ![Dns] = "up"]]
        /\ part[s][Http] = "binding" /\ drv' = drv /\ exited' = exited
    BY <1>2 DEF Listening
  <2>2. SameParts /\ SameDrivers
    BY <1>1, <2>1 DEF SameParts, SameDrivers, Holds
  <2> QED
    BY <2>1, <2>2, QuietStep
<1>3. CASE ListenFails(s)
  BY <1>3, ExitEnds DEF ListenFails
<1>4. ASSUME NEW i \in Part, PartCloses(s, i)
      PROVE  Step
  <2>1. /\ part' = [part EXCEPT ![s] = [part[s] EXCEPT ![i] = "closed"]]
        /\ part[s][i] = "closing" /\ drv' = drv /\ exited' = exited
    BY <1>4 DEF PartCloses
  <2>2. SameDrivers
    BY <2>1 DEF SameDrivers, Holds
  <2>3. CASE i # Http
    <3>1. SameParts
      BY <1>1, <2>1, <2>3 DEF SameParts
    <3> QED
      BY <2>1, <2>2, <3>1, QuietStep
  <2>4. CASE i = Http
    <3>1. \A t \in Call \ {s} : Gone(t)
      BY <1>1, <2>1 DEF HandoverInv, OldServersAreGone, Gone
    <3>2. part[s][Ws] # "up"
      BY <1>1, <2>1, <2>4 DEF HandoverInv, OldServersAreGone
    <3>3. Serving = {}
      BY <1>1, <3>1, <3>2 DEF Serving, Gone
    <3>4. Serving' = Serving /\ Served' = Served /\ OnPort' = {}
      BY <1>1, <2>1, <2>4, <3>1 DEF Serving, Served, OnPort, Gone
    <3> QED
      BY <2>1, <2>2, <3>3, <3>4, DriversStay
      DEF Step, Promised!Next, Promised!FreePort, Running
  <2> QED
    BY <2>3, <2>4
<1> QED
  BY <1>2, <1>3, <1>4

LEMMA ShutdownKeeps ==
    ASSUME HandoverInv, HandoverInv', Running, HandleShutdown
    PROVE  Step
<1>1. CASE closing
  BY <1>1, ExitEnds DEF HandleShutdown
<1>2. CASE ~closing
  <2>1. PICK p, ds : p \in Process /\ p = Shutdown /\ ds = drv
    BY Processes
  <2>2. TakeDown(p, ds) /\ Failing(ds) /\ p \notin Call
    BY <1>2, <2>1, Processes DEF HandleShutdown, TakeDown, DestroyServer, AfterServer,
       AwaitDriver, AfterDriver, CreateDriver, Failing, HandoverInv, TypeInvariant, TypeOK
  <2> QED
    BY <2>1, <2>2, TakeDownKeeps
<1> QED
  BY <1>1, <1>2

LEMMA NextKeeps ==
    ASSUME HandoverInv, HandoverInv', [Next]_vars
    PROVE  Step
<1>1. CASE RetryTimer /\ Running
  <2>1. PICK ds : ds = drv
    OBVIOUS
  <2>2. StartDriverWithRetry(ds) /\ Failing(ds)
    BY <1>1, <2>1 DEF RetryTimer, StartDriverWithRetry, TakeDown, DestroyServer,
       AfterServer, AwaitDriver, AfterDriver, CreateDriver, Failing, HandoverInv,
       TypeInvariant, TypeOK
  <2> QED
    BY <1>1, <2>2, RestartKeeps
<1>2. CASE UNCHANGED vars
  <2>1. SameDrivers /\ SameParts /\ exited' = exited
    BY <1>2 DEF vars, SameDrivers, SameParts, Holds
  <2> QED
    BY <2>1, QuietStep
<1> QED
  BY <1>1, <1>2, ResumeKeeps, DriverDestroyedKeeps, StartSettlesKeeps, DriverReadyKeeps,
     DriverFailsKeeps, PartKeeps, ShutdownKeeps DEF Next

-----------------------------------------------------------------------------

\* Whatever fails when, the serial port goes from driver to driver only while
\* no client is served and the TCP port is free; a server serves the driver on
\* the serial port, once; and it gives the TCP port back after it has cut its
\* clients off (startDriverWithRetry, handleShutdown, ZwavejsServer.destroy).
THEOREM Implementation == Spec => ImplementsService
<1>1. Init => Promised!Init
  <2> SUFFICES ASSUME Init PROVE Promised!Init
    OBVIOUS
  <2>1. 1 \in Call /\ Part = {Ws, Http, Dns}
    BY CallsBounded DEF Call, Part
  <2>2. Holders = {1} /\ Used = {1}
    BY <2>1 DEF Init, Holders, Holds, Used
  <2>3. Serving = {} /\ Served = {} /\ OnPort = {}
    BY <2>1 DEF Init, Serving, Served, OnPort
  <2> QED
    BY <2>1, <2>2, <2>3 DEF Promised!Init, Init, Running
<1>2. IInv => HandoverInv
  BY DEF IInv
<1>3. HandoverInv /\ HandoverInv' /\ [Next]_vars => [Promised!Next]_Promised!vars
  BY NextKeeps DEF Step
<1> QED
  BY <1>1, <1>2, <1>3, InvariantHolds, PTL DEF Spec, ImplementsService, Promised!Spec

=============================================================================
