------------------------- MODULE ServerLifecycleProofs -------------------------
(***************************************************************************)
(* One driver on the serial port, one server on the TCP port, and clients  *)
(* only for the current driver, however many times the driver fails, does  *)
(* not start and is restarted, and whenever a signal comes.                *)
(*                                                                         *)
(* The steps of a restart or a shutdown end in one of three ways: a part   *)
(* of the server is awaited, the driver is awaited, or (not in a shutdown) *)
(* the next driver is created.  There is a lemma for each.                 *)
(***************************************************************************)
EXTENDS ServerLifecycle, TLAPS

\* A step of p that takes down what is there: what it may find, and what it
\* does besides.  ds are the drivers, of which one may just have failed.
TakesDown(p, ds) ==
    /\ ds \in [Call -> DriverState]
    /\ \A d \in Call :
          ds[d] = drv[d] \/ (ds[d] = "failed" /\ drv[d] \in {"open", "ready"})
    /\ server' = server /\ reconnect' = reconnect /\ closing' \in BOOLEAN
    /\ IF p = Shutdown
       THEN ds = drv /\ calls' = calls /\ timers' = timers
       ELSE /\ calls' \in {calls, calls + 1} /\ calls' \in Call
            /\ p = calls' /\ timers' = 0
            /\ \A d \in Call : ds[d] \notin {"open", "ready"}
            /\ \A q \in Call : Restarting(q) => q = p

\* A server loses parts and gets none.
PartsGo ==
    /\ part' \in [Call -> [Part -> PartState]]
    /\ \A s \in Call : \A i \in Part : part'[s][i] = "none" <=> part[s][i] = "none"

LEMMA Processes ==
    /\ Shutdown \in Process /\ Shutdown \notin Call /\ Call \subseteq Process
    /\ Shutdown \in Nat /\ None \notin Call /\ None \notin Process
    /\ \A p \in Process : p \in Call \/ p = Shutdown
    /\ \A p \in Call : p \in Nat /\ p >= 1
BY CallsBounded DEF Call, Shutdown, Process, None

\* The first of the parts that are left is one of them, and it is the
\* WebSocket server if that is left.
LEMMA FirstIsPresent ==
    ASSUME NEW ps \in [Part -> PartState], Present(ps) # {}
    PROVE  /\ First(ps) \in Part /\ ps[First(ps)] \notin {"none", "deleted"}
           /\ ps[Ws] \notin {"none", "deleted"} => First(ps) = Ws
           /\ ps[Http] \notin {"none", "deleted"} => First(ps) # Dns
<1>1. Order[Ws] = 1 /\ Order[Http] = 2 /\ Order[Dns] = 3
  BY DEF Order, Part, Ws, Http, Dns
<1>2. \E i \in Present(ps) : \A j \in Present(ps) : Order[i] <= Order[j]
  <2>1. CASE Ws \in Present(ps)
    BY <1>1, <2>1 DEF Present, Part
  <2>2. CASE Ws \notin Present(ps) /\ Http \in Present(ps)
    BY <1>1, <2>2 DEF Present, Part
  <2>3. CASE Ws \notin Present(ps) /\ Http \notin Present(ps)
    BY <1>1, <2>3 DEF Present, Part
  <2> QED
    BY <2>1, <2>2, <2>3
<1>3. /\ First(ps) \in Present(ps)
      /\ \A j \in Present(ps) : Order[First(ps)] <= Order[j]
  BY <1>2 DEF First
<1>4. First(ps) \in Part /\ ps[First(ps)] \notin {"none", "deleted"}
  BY <1>3 DEF Present
<1>5. ASSUME ps[Ws] \notin {"none", "deleted"} PROVE First(ps) = Ws
  <2>1. Ws \in Present(ps)
    BY <1>5 DEF Present, Part
  <2>2. Order[First(ps)] <= 1
    BY <2>1, <1>1, <1>3
  <2> QED
    BY <2>2, <1>1, <1>4 DEF Part
<1>6. ASSUME ps[Http] \notin {"none", "deleted"} PROVE First(ps) # Dns
  <2>1. Http \in Present(ps)
    BY <1>6 DEF Present, Part
  <2>2. Order[First(ps)] <= 2
    BY <2>1, <1>1, <1>3
  <2> QED
    BY <2>2, <1>1
<1> QED
  BY <1>4, <1>5, <1>6

\* The next driver is created when nobody holds the serial port and nothing is
\* left of a server.
LEMMA CreatePreserves ==
    ASSUME HandoverInv, PartsGo, NEW p \in Call, NEW ds \in [Call -> DriverState],
           CreateDriver(p, ds),
           calls' \in {calls, calls + 1}, calls' \in Call, p = calls', timers' = 0,
           server' = server, reconnect' = reconnect, closing' \in BOOLEAN,
           \A d \in Call : ds[d] \in {"none", "destroyed"},
           \A d \in Call : ds[d] = "none" <=> drv[d] = "none",
           drv[p] = "none",
           \A q \in Call : Restarting(q) => q = p,
           \A s \in Call : Gone(s)'
    PROVE  HandoverInv'
<1> USE Processes DEF HandoverInv, TypeInvariant, TypeOK, PartsGo, CreateDriver
<1>1. /\ driver' = p /\ drv' = [ds EXCEPT ![p] = "opening"]
      /\ pc' = [pc EXCEPT ![p] = "start"] /\ object' = [object EXCEPT ![p] = p]
      /\ exited' = exited
  OBVIOUS
<1>2. TypeInvariant'
  <2>1. TypeOK'
    <3>1. calls' \in 0..MaxCalls /\ timers' \in 0..MaxCalls
      BY CallsBounded DEF Call
    <3>2. drv' \in [Call -> DriverState] /\ pc' \in [Process -> Await]
      BY <1>1 DEF DriverState, Await
    <3>3. object' \in [Process -> Call \cup {None}]
      BY <1>1
    <3> QED
      BY <1>1, <3>1, <3>2, <3>3
  <2>2. \A s \in Call : part[s][Ws] # "none" => drv'[s] # "none"
    BY <1>1
  <2> QED
    BY <2>1, <2>2 DEF Part
<1>3. OneRestartAtATime'
  BY <1>1 DEF OneRestartAtATime, Restarting
<1>4. AwaitedIsCurrent'
  <2> USE DEF AwaitedIsCurrent
  <2>1. \A d \in Call : Holds(d)' => driver' = d
    BY <1>1 DEF Holds
  <2>2. \A d \in Call : drv'[d] # "none" => d <= driver'
    BY <1>1
  <2>3. \A q \in Process : pc'[q] # "none" => object'[q] # None
    BY <1>1
  <2>4. \A q \in Process : pc'[q] \in {"driver", "catch"} =>
           drv'[object'[q]] \in {"closing", "destroyed"}
    <3> SUFFICES ASSUME NEW q \in Process, pc'[q] \in {"driver", "catch"}
                 PROVE  drv'[object'[q]] = "destroyed"
      OBVIOUS
    <3>1. q # p /\ pc[q] \in {"driver", "catch"} /\ object'[q] = object[q]
      BY <1>1
    <3>2. object[q] \in Call /\ drv[object[q]] # "none"
      BY <3>1
    <3>3. object[q] # p /\ ds[object[q]] = "destroyed"
      BY <3>2
    <3> QED
      BY <1>1, <3>1, <3>2, <3>3
  <2>5. \A q \in Call \ {p} : pc'[q] \notin Part \cup {"driver", "catch"}
    BY <1>1 DEF Restarting
  <2>6. \A q \in Call : calls' < q => drv'[q] = "none"
    BY <1>1
  <2> QED
    BY <1>1, <2>1, <2>2, <2>3, <2>4, <2>5, <2>6 DEF Part, Ws, Http, Dns
<1>5. OldServersAreGone'
  BY <1>1 DEF OldServersAreGone, Gone, Part
<1>6. ServedDriverIsCurrent'
  BY DEF ServedDriverIsCurrent, Gone, Part
<1> QED
  BY <1>2, <1>3, <1>4, <1>5, <1>6

\* The driver is awaited when nothing is left of a server.
LEMMA AwaitDriverPreserves ==
    ASSUME HandoverInv, PartsGo, \A s \in Call : Gone(s)',
           NEW p \in Process, NEW ds, TakesDown(p, ds), driver # None,
           NEW await \in {"driver", "catch"}, AwaitDriver(p, await, ds),
           p \in Call => (await = "catch" \/ drv[p] = "none")
    PROVE  HandoverInv'
<1> USE Processes DEF HandoverInv, TypeInvariant, TypeOK
<1>1. /\ drv' = [ds EXCEPT ![driver] = IF @ = "destroyed" THEN @ ELSE "closing"]
      /\ pc' = [pc EXCEPT ![p] = await]
      /\ object' = [object EXCEPT ![p] = driver]
      /\ UNCHANGED <<driver, exited>>
  BY DEF AwaitDriver
<1>2. /\ driver \in Call /\ drv[driver] # "none"
      /\ \A d \in Call : drv[d] # "none" => d <= driver
      /\ \A d \in Call : Holds(d) => driver = d
  BY DEF AwaitedIsCurrent
<1>3. /\ \A d \in Call \ {driver} : drv'[d] = drv[d]
      /\ drv'[driver] \in {"closing", "destroyed"}
      /\ drv' \in [Call -> DriverState]
      /\ \A d \in Call : drv'[d] = "none" <=> drv[d] = "none"
      /\ \A d \in Call : drv[d] \in {"closing", "destroyed"} => drv'[d] \in {"closing", "destroyed"}
  <2>1. \A d \in Call \ {driver} : ds[d] = drv[d]
    BY <1>2 DEF TakesDown, Holds
  <2>2. ds[driver] # "none" /\ ds \in [Call -> DriverState]
    BY <1>2 DEF TakesDown
  <2> QED
    BY <1>1, <1>2, <2>1, <2>2 DEF DriverState
<1>4. TypeInvariant'
  <2>1. calls' \in 0..MaxCalls /\ timers' \in 0..MaxCalls
    BY CallsBounded DEF Call, TakesDown
  <2>2. pc' \in [Process -> Await] /\ object' \in [Process -> Call \cup {None}]
    BY <1>1, <1>2 DEF Await
  <2>3. TypeOK'
    BY <1>1, <1>3, <2>1, <2>2 DEF PartsGo, TakesDown
  <2> QED
    BY <1>3, <2>3 DEF TakesDown, PartsGo, Part
<1>5. OneRestartAtATime'
  <2>1. CASE p = Shutdown
    BY <1>1, <1>3, <2>1 DEF OneRestartAtATime, Restarting, TakesDown
  <2>2. CASE p \in Call
    <3>1. timers' = 0 /\ p = calls' /\ \A q \in Call : Restarting(q)' => q = p
      BY <1>1, <2>2 DEF TakesDown, Restarting
    <3>2. \A d \in Call : drv'[d] \notin {"open", "ready"}
      BY <1>1, <1>3, <2>2 DEF TakesDown
    <3> QED
      BY <3>1, <3>2 DEF OneRestartAtATime
  <2> QED
    BY <2>1, <2>2
<1>6. AwaitedIsCurrent'
  <2> USE DEF AwaitedIsCurrent
  <2>1. \A d \in Call : Holds(d)' => driver' = d
    BY <1>1, <1>2, <1>3 DEF Holds
  <2>2. drv'[driver'] # "none" /\ \A d \in Call : drv'[d] # "none" => d <= driver'
    BY <1>1, <1>2, <1>3
  <2>3. \A q \in Process :
           /\ pc'[q] # "none" => object'[q] # None
           /\ pc'[q] \in {"driver", "catch"} =>
                 drv'[object'[q]] \in {"closing", "destroyed"}
    <3> TAKE q \in Process
    <3>1. CASE q = p
      BY <3>1, <1>1, <1>2, <1>3
    <3>2. CASE q # p
      <4>1. pc'[q] = pc[q] /\ object'[q] = object[q]
        BY <3>2, <1>1
      <4>2. /\ pc[q] # "none" => object[q] # None
            /\ object[q] \in Call \cup {None}
        OBVIOUS
      <4>3. CASE pc[q] \in {"driver", "catch"}
        <5>1. object[q] \in Call /\ drv[object[q]] \in {"closing", "destroyed"}
          BY <4>2, <4>3
        <5>2. drv'[object[q]] \in {"closing", "destroyed"}
          BY ONLY <5>1, <1>3
        <5> QED
          BY <4>1, <4>2, <5>2
      <4> QED
        BY <4>1, <4>2, <4>3
    <3> QED
      BY <3>1, <3>2
  <2>4. \A q \in Call : pc'[q] \in {"driver", "catch"} => object'[q] = driver'
    BY <1>1
  <2>5. \A q \in Call : calls' < q => drv'[q] = "none"
    BY <1>3 DEF TakesDown
  <2>6. \A q \in Call : pc'[q] \in Part \cup {"driver"} => drv'[q] = "none"
    <3>1. await = "catch" => await \notin Part \cup {"driver"}
      BY DEF Part, Ws, Http, Dns
    <3> QED
      BY <3>1, <1>1, <1>3
  <2> QED
    BY <2>1, <2>2, <2>3, <2>4, <2>5, <2>6
<1>7. OldServersAreGone'
  <2>1. \A s \in Call : drv'[s] \in {"none", "opening", "open"} =>
           \A i \in Part : part'[s][i] = "none"
    <3>1. \A s \in Call : drv'[s] \in {"none", "opening", "open"} => drv'[s] = drv[s]
      BY <1>3
    <3> QED
      BY <3>1 DEF OldServersAreGone, PartsGo
  <2> QED
    BY <2>1 DEF OldServersAreGone, Gone, Part
<1>8. ServedDriverIsCurrent'
  BY DEF ServedDriverIsCurrent, Gone, Part
<1> QED
  BY <1>4, <1>5, <1>6, <1>7, <1>8

\* The driver is awaited, or the next one created.
LEMMA AfterServerPreserves ==
    ASSUME HandoverInv, PartsGo, \A s \in Call : Gone(s)',
           NEW p \in Process, p \in Call => drv[p] = "none",
           NEW ds, TakesDown(p, ds), AfterServer(p, ds)
    PROVE  HandoverInv'
<1> USE Processes DEF HandoverInv, TypeInvariant, TypeOK
<1>1. CASE driver # None
  <2>1. AwaitDriver(p, "driver", ds)
    BY <1>1 DEF AfterServer
  <2> HIDE DEF HandoverInv
  <2> QED
    BY <1>1, <2>1, AwaitDriverPreserves
<1>2. CASE driver = None /\ p = Shutdown
  <2>1. drv' = drv /\ UNCHANGED <<driver, pc, object, server, calls, timers, reconnect>>
    BY <1>2 DEF AfterServer, AfterDriver, TakesDown
  <2>2. exited' = "graceful" /\ closing' \in BOOLEAN
    BY <1>2 DEF AfterServer, AfterDriver, TakesDown
  <2>3. TypeInvariant'
    BY <2>1, <2>2 DEF PartsGo, Part
  <2>4. OneRestartAtATime' /\ AwaitedIsCurrent'
    BY <2>1 DEF OneRestartAtATime, Restarting, AwaitedIsCurrent, Holds
  <2>5. OldServersAreGone'
    BY <2>1 DEF OldServersAreGone, Gone, Part, PartsGo
  <2>6. ServedDriverIsCurrent'
    BY DEF ServedDriverIsCurrent, Gone, Part
  <2> QED
    BY <2>3, <2>4, <2>5, <2>6
<1>3. CASE driver = None /\ p \in Call
  <2>1. CreateDriver(p, ds)
    BY <1>3 DEF AfterServer, AfterDriver
  <2>2. \A d \in Call : drv[d] \in {"none", "destroyed"}
    BY <1>3 DEF AwaitedIsCurrent, Holds, DriverState
  <2>3. ds \in [Call -> DriverState] /\ \A d \in Call : ds[d] = drv[d]
    BY <2>2 DEF TakesDown
  <2> HIDE DEF HandoverInv
  <2> QED
    BY <1>3, <2>1, <2>2, <2>3, CreatePreserves DEF TakesDown
<1> QED
  BY <1>1, <1>2, <1>3

\* What is left of the last server is taken down, one part after the other.
LEMMA DestroyServerPreserves ==
    ASSUME HandoverInv, NEW p \in Process, p \in Call => drv[p] = "none",
           NEW ds, TakesDown(p, ds), NEW s \in Call, s = server,
           NEW ps \in [Part -> PartState],
           \A i \in Part : ps[i] = part[s][i] \/ (ps[i] = "deleted" /\ part[s][i] = "closed"),
           DestroyServer(p, s, ps, ds)
    PROVE  HandoverInv'
<1> USE Processes DEF HandoverInv, TypeInvariant, TypeOK
<1>1. CASE Present(ps) = {}
  <2>1. part' = [part EXCEPT ![s] = ps] /\ AfterServer(p, ds)
    BY <1>1 DEF DestroyServer
  <2>2. PartsGo
    BY <2>1 DEF PartsGo
  <2>3. \A i \in Part : ps[i] \in {"none", "deleted"}
    BY <1>1 DEF Present
  <2>4. \A t \in Call : Gone(t)'
    BY <2>1, <2>3 DEF OldServersAreGone, Gone
  <2> HIDE DEF HandoverInv
  <2> QED
    BY <2>1, <2>2, <2>4, AfterServerPreserves
<1>2. CASE Present(ps) # {}
  <2> DEFINE next == First(ps)
  <2>1. /\ next \in Part /\ ps[next] \notin {"none", "deleted"}
        /\ ps[Ws] \notin {"none", "deleted"} => next = Ws
    BY <1>2, FirstIsPresent
  <2>2. /\ part' = [part EXCEPT ![s] =
                [ps EXCEPT ![next] = IF @ = "closed" THEN @ ELSE "closing"]]
        /\ pc' = [pc EXCEPT ![p] = next]
        /\ object' = [object EXCEPT ![p] = s]
        /\ drv' = ds
        /\ UNCHANGED <<driver, exited>>
    BY <1>2 DEF DestroyServer
  <2> HIDE DEF next
  <2>3. \E i \in Part : part[s][i] \notin {"none", "deleted"}
    BY <2>1
  <2>4. /\ \A t \in Call \ {s} : part'[t] = part[t]
        /\ \A i \in Part \ {next} : part'[s][i] = ps[i]
        /\ part'[s][next] \in {"closing", "closed"}
    BY <2>1, <2>2
  <2>5. PartsGo
    <3>1. part' \in [Call -> [Part -> PartState]]
      BY <2>2, <2>1 DEF PartState
    <3> QED
      BY <3>1, <2>1, <2>4 DEF PartsGo
  <2>6. part'[s][Ws] # "up"
    BY <2>1, <2>4 DEF Part
  <2>7. /\ \A d \in Call : drv'[d] = drv[d] \/ (drv'[d] = "failed" /\ drv[d] \in {"open", "ready"})
        /\ drv' \in [Call -> DriverState]
    BY <2>2 DEF TakesDown
  <2>8. TypeInvariant'
    <3>1. calls' \in 0..MaxCalls /\ timers' \in 0..MaxCalls
      BY CallsBounded DEF Call, TakesDown
    <3>2. pc' \in [Process -> Await] /\ object' \in [Process -> Call \cup {None}]
      BY <2>1, <2>2 DEF Await
    <3>3. TypeOK'
      BY <2>2, <2>7, <3>1, <3>2, <2>5 DEF PartsGo, TakesDown
    <3> QED
      BY <2>5, <2>7, <3>3 DEF TakesDown, PartsGo, Part
  <2>9. OneRestartAtATime'
    <3>1. CASE p = Shutdown
      BY <2>2, <3>1 DEF OneRestartAtATime, Restarting, TakesDown
    <3>2. CASE p \in Call
      <4>1. timers' = 0 /\ p = calls' /\ \A q \in Call : Restarting(q)' => q = p
        BY <2>2, <3>2 DEF TakesDown, Restarting
      <4>2. \A d \in Call : drv'[d] \notin {"open", "ready"}
        BY <2>2, <3>2 DEF TakesDown
      <4> QED
        BY <4>1, <4>2 DEF OneRestartAtATime
    <3> QED
      BY <3>1, <3>2
  <2>10. AwaitedIsCurrent'
    <3> USE DEF AwaitedIsCurrent
    <3>1. \A d \in Call : Holds(d)' => driver' = d
      BY <2>2, <2>7 DEF Holds
    <3>2. driver' # None => drv'[driver'] # "none" /\ \A d \in Call : drv'[d] # "none" => d <= driver'
      BY <2>2, <2>7
    <3>3. next \notin {"driver", "catch"}
      BY <2>1 DEF Part, Ws, Http, Dns
    <3>4. \A q \in Process :
             /\ pc'[q] # "none" => object'[q] # None
             /\ pc'[q] \in {"driver", "catch"} =>
                   drv'[object'[q]] \in {"closing", "destroyed"}
      <4> TAKE q \in Process
      <4>1. CASE q = p
        BY <4>1, <2>2, <3>3
      <4>2. CASE q # p
        <5>1. pc'[q] = pc[q] /\ object'[q] = object[q]
          BY <4>2, <2>2
        <5>2. /\ pc[q] # "none" => object[q] # None
              /\ object[q] \in Call \cup {None}
          OBVIOUS
        <5>3. CASE pc[q] \in {"driver", "catch"}
          <6>1. object[q] \in Call /\ drv[object[q]] \in {"closing", "destroyed"}
            BY <5>2, <5>3
          <6>2. drv'[object[q]] \in {"closing", "destroyed"}
            BY ONLY <6>1, <2>7
          <6> QED
            BY <5>1, <5>2, <6>2
        <5> QED
          BY <5>1, <5>2, <5>3
      <4> QED
        BY <4>1, <4>2
    <3>5. \A q \in Call : pc'[q] \in {"driver", "catch"} => object'[q] = driver'
      BY <2>2, <3>3
    <3>6. \A q \in Call : calls' < q \/ pc'[q] \in Part \cup {"driver"} => drv'[q] = "none"
      BY <2>2, <2>7 DEF TakesDown
    <3> QED
      BY <3>1, <3>2, <3>4, <3>5, <3>6
  <2>11. OldServersAreGone'
    <3> USE DEF OldServersAreGone
    <3>1. \A t \in Call : Gone(t)' \/ server' = t
      BY <2>4 DEF TakesDown, Gone
    <3>2. /\ timers' = 0
          /\ \A q \in Call : pc'[q] \notin {"driver", "start", "catch"}
          /\ \A d \in Call : drv'[d] \notin {"open", "closing"}
      <4>1. ~Gone(s)
        BY <2>3 DEF Gone
      <4>2. /\ timers = 0
            /\ \A q \in Call : pc[q] \notin {"driver", "start", "catch"}
            /\ \A d \in Call : drv[d] \notin {"open", "closing"}
        BY <4>1
      <4>3. next \notin {"driver", "start", "catch"}
        BY <2>1 DEF Part, Ws, Http, Dns
      <4> QED
        BY <2>2, <2>7, <4>2, <4>3 DEF TakesDown
    <3>3. \A t \in Call : drv'[t] \in {"none", "opening", "open"} =>
             \A i \in Part : part'[t][i] = "none"
      BY <2>5, <2>7 DEF PartsGo
    <3>4. \A t \in Call : part'[t][Ws] = "up" =>
             \A i \in Part : part'[t][i] \in {"none", "binding", "up"}
      BY <2>4, <2>6
    <3> QED
      BY <3>1, <3>2, <3>3, <3>4
  <2>12. ServedDriverIsCurrent'
    BY <2>2, <2>4, <2>6, <2>7 DEF ServedDriverIsCurrent, TakesDown
  <2> QED
    BY <2>8, <2>9, <2>10, <2>11, <2>12
<1> QED
  BY <1>1, <1>2

LEMMA TakeDownPreserves ==
    ASSUME HandoverInv, NEW p \in Process, p \in Call => drv[p] = "none",
           NEW ds, TakesDown(p, ds), TakeDown(p, ds)
    PROVE  HandoverInv'
<1> USE Processes
<1>1. part \in [Call -> [Part -> PartState]] /\ server \in Call \cup {None}
  BY DEF HandoverInv, TypeInvariant, TypeOK
<1>2. CASE server # None
  <2>1. PICK s \in Call : s = server
    BY <1>1, <1>2
  <2>2. PICK ps \in [Part -> PartState] : ps = part[s]
    BY <1>1
  <2>3. DestroyServer(p, s, ps, ds)
    BY <1>2, <2>1, <2>2 DEF TakeDown, DestroyServer
  <2>4. \A i \in Part : ps[i] = part[s][i] \/ (ps[i] = "deleted" /\ part[s][i] = "closed")
    BY <2>2
  <2> QED
    BY <2>1, <2>3, <2>4, DestroyServerPreserves
<1>3. CASE server = None
  <2>1. AfterServer(p, ds) /\ part' = part
    BY <1>3 DEF TakeDown
  <2>2. \A s \in Call : Gone(s)'
    BY <1>3, <2>1 DEF HandoverInv, OldServersAreGone, Gone
  <2>3. PartsGo
    BY <1>1, <2>1 DEF PartsGo
  <2> QED
    BY <2>1, <2>2, <2>3, AfterServerPreserves
<1> QED
  BY <1>2, <1>3

\* A call of startDriverWithRetry, when no other is on its way.
LEMMA StartPreserves ==
    ASSUME HandoverInv, NEW ds \in [Call -> DriverState],
           \A d \in Call :
              \/ ds[d] = drv[d] /\ drv[d] \notin {"open", "ready"}
              \/ ds[d] = "failed" /\ drv[d] \in {"open", "ready"},
           \A q \in Call : ~Restarting(q),
           driver = None => \A s \in Call : Gone(s),
           server' = server, reconnect' = reconnect, closing' \in BOOLEAN, timers' = 0,
           StartDriverWithRetry(ds)
    PROVE  HandoverInv'
<1> USE Processes
<1>1. calls \in 0..MaxCalls /\ calls < MaxCalls /\ calls' = calls + 1
  BY DEF HandoverInv, TypeInvariant, TypeOK, StartDriverWithRetry
<1>2. PICK p \in Call : p = calls'
  BY <1>1, CallsBounded DEF Call
<1>3. drv[p] = "none"
  BY <1>1, <1>2 DEF HandoverInv, AwaitedIsCurrent
<1>4. p # Shutdown /\ p \in Process
  BY <1>2
<1>5. TakesDown(p, ds)
  BY <1>1, <1>2, <1>3, <1>4 DEF TakesDown
<1>6. CASE driver # None
  <2>1. TakeDown(p, ds)
    BY <1>2, <1>6 DEF StartDriverWithRetry, TakeDown, AfterServer, DestroyServer,
       AwaitDriver, AfterDriver, CreateDriver
  <2> QED
    BY <1>3, <1>4, <1>5, <2>1, TakeDownPreserves
<1>7. CASE driver = None
  <2>1. CreateDriver(p, ds) /\ part' = part
    BY <1>2, <1>7 DEF StartDriverWithRetry, CreateDriver
  <2>2. PartsGo /\ \A s \in Call : Gone(s)'
    BY <1>7, <2>1 DEF PartsGo, Gone, HandoverInv, TypeInvariant, TypeOK
  <2>3. \A d \in Call : drv[d] \in {"none", "destroyed"}
    BY <1>7 DEF HandoverInv, TypeInvariant, TypeOK, AwaitedIsCurrent, Holds, DriverState
  <2>4. \A d \in Call : ds[d] = drv[d]
    BY <2>3
  <2> QED
    BY <1>1, <1>2, <1>3, <2>1, <2>2, <2>3, <2>4, CreatePreserves
<1> QED
  BY <1>6, <1>7

LEMMA InitHandoverInv == Init => HandoverInv
<1> SUFFICES ASSUME Init PROVE HandoverInv
  OBVIOUS
<1> USE Processes, CallsBounded DEF Init
<1>1. 1 \in Call
  BY DEF Call
<1>2. TypeInvariant
  <2>1. calls \in 0..MaxCalls /\ timers \in 0..MaxCalls
    OBVIOUS
  <2>2. drv \in [Call -> DriverState] /\ pc \in [Process -> Await]
    BY DEF DriverState, Await
  <2>3. part \in [Call -> [Part -> PartState]]
    BY DEF PartState
  <2>4. object \in [Process -> Call \cup {None}]
    BY <1>1
  <2> QED
    BY <1>1, <2>1, <2>2, <2>3, <2>4 DEF TypeInvariant, TypeOK, Part, Ws
<1>3. OneRestartAtATime /\ ServedDriverIsCurrent
  BY <1>1 DEF OneRestartAtATime, Restarting, ServedDriverIsCurrent, Part, Ws, Http, Dns
<1>4. AwaitedIsCurrent
  BY <1>1 DEF AwaitedIsCurrent, Holds, Part, Ws, Http, Dns, None, Call
<1>5. OldServersAreGone
  BY DEF OldServersAreGone, Gone, Part
<1> QED
  BY <1>2, <1>3, <1>4, <1>5 DEF HandoverInv

\* destroy() resumes: what it awaited belongs to the last server, unless
\* somebody else has deleted it.
LEMMA ResumePreserves ==
    ASSUME HandoverInv, NEW p \in Process, Resume(p)
    PROVE  HandoverInv'
<1> USE Processes
<1>1. /\ pc[p] \in Part /\ pc[p] # "none"
      /\ UNCHANGED <<server, calls, timers, reconnect, closing>>
  BY DEF Resume, Part, Ws, Http, Dns
<1>2. PICK s \in Call : s = object[p]
  BY <1>1 DEF HandoverInv, TypeInvariant, TypeOK, AwaitedIsCurrent
<1>3. PICK i \in Part : i = pc[p]
  BY <1>1
<1>4. CASE part[s][i] = "closed"
  <2>1. PICK ps : ps = [part[s] EXCEPT ![i] = "deleted"]
    OBVIOUS
  <2>2. PICK ds : ds = drv
    OBVIOUS
  <2>3. DestroyServer(p, s, ps, ds)
    BY <1>2, <1>3, <1>4, <2>1, <2>2 DEF Resume, DestroyServer, AfterServer,
       AwaitDriver, AfterDriver, CreateDriver
  <2>4. /\ ps \in [Part -> PartState]
        /\ \A j \in Part : ps[j] = part[s][j] \/ (ps[j] = "deleted" /\ part[s][j] = "closed")
    BY <1>4, <2>1 DEF HandoverInv, TypeInvariant, TypeOK, PartState
  <2>5. s = server
    BY <1>4 DEF HandoverInv, OldServersAreGone, Gone
  <2>6. p \in Call => drv[p] = "none"
    BY <1>1 DEF HandoverInv, AwaitedIsCurrent
  <2>7. TakesDown(p, ds)
    <3>1. ds \in [Call -> DriverState] /\ closing \in BOOLEAN
      BY <2>2 DEF HandoverInv, TypeInvariant, TypeOK
    <3>2. CASE p = Shutdown
      BY <1>1, <2>2, <3>1, <3>2 DEF TakesDown
    <3>3. CASE p \in Call
      <4>1. Restarting(p)
        BY <1>1 DEF Restarting
      <4>2. /\ p = calls /\ timers = 0 /\ \A q \in Call : Restarting(q) => q = p
            /\ \A d \in Call : drv[d] \notin {"open", "ready"}
        BY <3>3, <4>1 DEF HandoverInv, OneRestartAtATime
      <4>3. calls \in Call /\ calls' = calls /\ calls' \in {calls, calls + 1} /\ p # Shutdown
        BY <1>1, <3>3, <4>2
      <4> QED
        BY <1>1, <2>2, <3>1, <4>2, <4>3 DEF TakesDown
    <3> QED
      BY <3>2, <3>3
  <2> QED
    BY <2>3, <2>4, <2>5, <2>6, <2>7, DestroyServerPreserves
<1>5. CASE part[s][i] # "closed"
  <2>1. exited' = "rejected" /\ UNCHANGED <<driver, drv, part, pc, object>>
    BY <1>2, <1>3, <1>5 DEF Resume, Exit
  <2> QED
    BY <1>1, <2>1 DEF HandoverInv, TypeInvariant, TypeOK, OneRestartAtATime, Restarting,
       AwaitedIsCurrent, Holds, OldServersAreGone, Gone, ServedDriverIsCurrent
<1> QED
  BY <1>4, <1>5

\* The awaited driver is destroyed: a restart creates its own.
LEMMA DriverDestroyedPreserves ==
    ASSUME HandoverInv, NEW p \in Process, DriverDestroyed(p)
    PROVE  HandoverInv'
<1> USE Processes
<1>1. /\ pc[p] = "driver" /\ part' = part
      /\ UNCHANGED <<server, calls, timers, reconnect, closing>>
  BY DEF DriverDestroyed
<1>2. /\ object[p] \in Call /\ drv[object[p]] \in {"closing", "destroyed"}
      /\ drv \in [Call -> DriverState] /\ part \in [Call -> [Part -> PartState]]
      /\ closing \in BOOLEAN
  BY <1>1 DEF HandoverInv, TypeInvariant, TypeOK, AwaitedIsCurrent
<1>3. PICK ds : ds = [drv EXCEPT ![object[p]] = "destroyed"]
  OBVIOUS
<1>4. /\ ds \in [Call -> DriverState]
      /\ \A d \in Call : ds[d] = drv[d] \/ (ds[d] = "destroyed" /\ drv[d] \in {"closing", "destroyed"})
  BY <1>2, <1>3 DEF DriverState
<1>5. CASE p = Shutdown
  <2>1. /\ exited' = "graceful" /\ drv' = ds /\ UNCHANGED <<driver, pc, object>>
    BY <1>3, <1>5 DEF DriverDestroyed, AfterDriver
  <2>2. TypeInvariant'
    BY <1>1, <1>4, <2>1 DEF HandoverInv, TypeInvariant, TypeOK
  <2>3. OneRestartAtATime'
    BY <1>1, <1>4, <2>1 DEF HandoverInv, OneRestartAtATime, Restarting
  <2>4. AwaitedIsCurrent'
    <3>1. \A q \in Process : pc[q] \in {"driver", "catch"} => object[q] \in Call
      BY DEF HandoverInv, TypeInvariant, TypeOK, AwaitedIsCurrent
    <3>2. \A q \in Process : pc[q] \in {"driver", "catch"} =>
             ds[object[q]] \in {"closing", "destroyed"}
      BY <1>4, <3>1 DEF HandoverInv, AwaitedIsCurrent
    <3>3. driver # None => driver \in Call
      BY DEF HandoverInv, TypeInvariant, TypeOK
    <3>4. \A d \in Call : ds[d] = "none" <=> drv[d] = "none"
      BY <1>4
    <3>5. \A d \in Call : Holds(d)' => driver' = d
      BY <1>4, <2>1 DEF HandoverInv, AwaitedIsCurrent, Holds
    <3> QED
      BY <1>1, <2>1, <3>2, <3>3, <3>4, <3>5 DEF HandoverInv, AwaitedIsCurrent
  <2>5. OldServersAreGone'
    BY <1>1, <1>4, <2>1 DEF HandoverInv, OldServersAreGone, Gone
  <2>6. ServedDriverIsCurrent'
    BY <1>1, <1>4, <2>1 DEF HandoverInv, ServedDriverIsCurrent
  <2> QED
    BY <2>2, <2>3, <2>4, <2>5, <2>6 DEF HandoverInv
<1>6. CASE p \in Call
  <2>1. CreateDriver(p, ds)
    BY <1>3, <1>6 DEF DriverDestroyed, AfterDriver, CreateDriver
  <2>2. Restarting(p) /\ p # Shutdown
    BY <1>1, <1>6 DEF Restarting
  <2>3. /\ p = calls /\ timers = 0 /\ \A q \in Call : Restarting(q) => q = p
        /\ object[p] = driver /\ drv[p] = "none"
        /\ \A d \in Call : Holds(d) => driver = d
    BY <1>1, <1>6, <2>2 DEF HandoverInv, OneRestartAtATime, AwaitedIsCurrent
  <2>4. \A d \in Call : ds[d] \in {"none", "destroyed"}
    BY <1>2, <1>3, <1>4, <2>3 DEF Holds, DriverState
  <2>5. \A d \in Call : ds[d] = "none" <=> drv[d] = "none"
    BY <1>4
  <2>6. PartsGo /\ \A s \in Call : Gone(s)'
    BY <1>1, <1>2, <1>6 DEF PartsGo, Gone, HandoverInv, OldServersAreGone
  <2>7. /\ calls' \in Call /\ calls' \in {calls, calls + 1} /\ p = calls' /\ timers' = 0
        /\ server' = server /\ reconnect' = reconnect /\ closing' \in BOOLEAN
    BY <1>1, <1>2, <1>6, <2>3
  <2> QED
    BY <1>4, <1>6, <2>1, <2>3, <2>4, <2>5, <2>6, <2>7, CreatePreserves
<1> QED
  BY <1>5, <1>6

\* start() of the driver has settled.
LEMMA StartSettlesPreserves ==
    ASSUME HandoverInv, NEW p \in Call,
           DriverStarted(p) \/ DriverStartFails(p) \/ StartFailureHandled(p)
    PROVE  HandoverInv'
<1> USE Processes
<1>1. /\ pc[p] \in {"start", "catch"}
      /\ UNCHANGED <<server, part, calls, reconnect, closing>>
  BY DEF DriverStarted, DriverStartFails, StartFailureHandled, Exit
<1>2. /\ p = calls /\ timers = 0 /\ \A q \in Call : Restarting(q) => q = p
      /\ \A d \in Call : drv[d] \notin {"open", "ready"}
      /\ p # Shutdown
  <2>1. Restarting(p)
    BY <1>1 DEF Restarting
  <2> QED
    BY <2>1 DEF HandoverInv, OneRestartAtATime
<1>3. \A s \in Call : Gone(s) /\ Gone(s)'
  BY <1>1 DEF HandoverInv, OldServersAreGone, Gone
<1>4. drv \in [Call -> DriverState] /\ closing \in BOOLEAN /\ pc \in [Process -> Await]
      /\ part \in [Call -> [Part -> PartState]] /\ driver \in Call \cup {None}
  BY DEF HandoverInv, TypeInvariant, TypeOK
<1>5. ServedDriverIsCurrent'
  BY <1>3 DEF ServedDriverIsCurrent, Gone, Part
<1>6. CASE DriverStarted(p)
  <2>1. /\ drv[p] = "opening" /\ drv' = [drv EXCEPT ![p] = "open"]
        /\ pc' = [pc EXCEPT ![p] = "returned"] /\ UNCHANGED <<driver, object, exited, timers>>
    BY <1>6 DEF DriverStarted, Return
  <2>2. TypeInvariant'
    BY <1>1, <1>4, <2>1 DEF HandoverInv, TypeInvariant, TypeOK, DriverState, Await
  <2>3. OneRestartAtATime'
    BY <1>1, <1>2, <1>4, <2>1 DEF HandoverInv, OneRestartAtATime, Restarting, Part, Ws, Http, Dns
  <2>4. AwaitedIsCurrent'
    <3>1. \A q \in Process : pc[q] \in {"driver", "catch"} => object[q] \in Call \ {p}
      BY <2>1 DEF HandoverInv, TypeInvariant, TypeOK, AwaitedIsCurrent
    <3>2. "returned" \notin Part \cup {"driver", "catch"}
      BY DEF Part, Ws, Http, Dns
    <3> QED
      BY <1>1, <1>4, <2>1, <3>1, <3>2 DEF HandoverInv, AwaitedIsCurrent, Holds
  <2>5. OldServersAreGone'
    BY <1>1, <1>3, <1>4, <2>1 DEF HandoverInv, OldServersAreGone
  <2> QED
    BY <1>5, <2>2, <2>3, <2>4, <2>5 DEF HandoverInv
<1>7. CASE DriverStartFails(p) /\ driver # None
  <2>1. PICK ds : ds = drv
    OBVIOUS
  <2>2. AwaitDriver(p, "catch", ds) /\ timers' = timers
    BY <1>7, <2>1 DEF DriverStartFails, AwaitDriver
  <2>3. TakesDown(p, ds)
    BY <1>1, <1>2, <1>4, <2>1, <2>2 DEF TakesDown
  <2>4. PartsGo
    BY <1>1, <1>4 DEF PartsGo
  <2> QED
    BY <1>3, <1>7, <2>2, <2>3, <2>4, AwaitDriverPreserves
<1>8. CASE DriverStartFails(p) /\ driver = None
  <2>1. exited' = "rejected" /\ UNCHANGED <<driver, drv, pc, object, timers>>
    BY <1>8 DEF DriverStartFails, Exit
  <2> QED
    BY <1>1, <1>5, <2>1 DEF HandoverInv, TypeInvariant, TypeOK, OneRestartAtATime, Restarting,
       AwaitedIsCurrent, Holds, OldServersAreGone, Gone
<1>9. CASE StartFailureHandled(p)
  <2>1. /\ pc[p] = "catch" /\ drv' = [drv EXCEPT ![object[p]] = "destroyed"]
        /\ driver' = None /\ object' = object
        /\ pc' = [pc EXCEPT ![p] = "returned"]
        /\ timers' \in {0, 1}
        /\ exited' \in {exited, "failed"}
    BY <1>2, <1>9 DEF StartFailureHandled
  <2>2. /\ object[p] \in Call /\ object[p] = driver
        /\ drv[object[p]] \in {"closing", "destroyed"}
        /\ \A d \in Call : Holds(d) => driver = d
    BY <2>1 DEF HandoverInv, TypeInvariant, TypeOK, AwaitedIsCurrent
  <2>3. /\ drv' \in [Call -> DriverState]
        /\ \A d \in Call : drv'[d] = drv[d] \/ (drv'[d] = "destroyed" /\ drv[d] = "closing")
        /\ \A d \in Call : drv'[d] \in {"none", "destroyed"}
    BY <1>4, <2>1, <2>2 DEF Holds, DriverState
  <2>4. TypeInvariant'
    <3>1. timers' \in 0..MaxCalls
      BY <2>1, CallsBounded
    <3> QED
      BY <1>1, <1>4, <2>1, <2>3, <3>1 DEF HandoverInv, TypeInvariant, TypeOK, Await
  <2>5. OneRestartAtATime'
    BY <1>1, <1>2, <1>4, <2>1, <2>3 DEF OneRestartAtATime, Restarting, Part, Ws, Http, Dns
  <2>6. AwaitedIsCurrent'
    <3>1. \A q \in Process : pc[q] \in {"driver", "catch"} => object[q] \in Call
      BY DEF HandoverInv, TypeInvariant, TypeOK, AwaitedIsCurrent
    <3>2. "returned" \notin Part \cup {"driver", "catch"}
      BY DEF Part, Ws, Http, Dns
    <3>3. \A q \in Call : pc'[q] \notin Part \cup {"driver", "catch"}
      BY <1>2, <1>4, <2>1, <3>2 DEF Restarting
    <3>4. \A d \in Call : drv'[d] = "none" <=> drv[d] = "none"
      BY <2>3
    <3>5. \A q \in Process : pc'[q] \in {"driver", "catch"} =>
             drv'[object'[q]] \in {"closing", "destroyed"}
      BY <1>4, <2>1, <2>3, <3>1 DEF HandoverInv, AwaitedIsCurrent
    <3>6. \A q \in Process : pc'[q] # "none" => object'[q] # None
      BY <1>4, <2>1 DEF HandoverInv, AwaitedIsCurrent
    <3> QED
      BY <1>1, <2>1, <2>3, <3>3, <3>4, <3>5, <3>6 DEF HandoverInv, AwaitedIsCurrent, Holds
  <2>7. OldServersAreGone'
    BY <1>1, <1>3, <2>3 DEF HandoverInv, OldServersAreGone
  <2> QED
    BY <1>5, <2>4, <2>5, <2>6, <2>7 DEF HandoverInv
<1> QED
  BY <1>6, <1>7, <1>8, <1>9

\* "driver ready": the new server is the only one.
LEMMA DriverReadyPreserves ==
    ASSUME HandoverInv, NEW d \in Call, DriverReady(d)
    PROVE  HandoverInv'
<1> USE Processes
<1>1. drv[d] = "open" /\ UNCHANGED <<calls, timers, reconnect, closing>>
  BY DEF DriverReady
<1>2. /\ timers = 0 /\ \A q \in Call : ~Restarting(q)
      /\ driver = d /\ \A e \in Call : Holds(e) => e = d
      /\ \A s \in Call : Gone(s)
      /\ \A i \in Part : part[d][i] = "none"
  <2>1. Holds(d)
    BY <1>1 DEF Holds
  <2>2. driver = d /\ \A e \in Call : Holds(e) => e = d
    BY <2>1 DEF HandoverInv, AwaitedIsCurrent
  <2>3. timers = 0 /\ \A q \in Call : ~Restarting(q)
    BY <1>1 DEF HandoverInv, OneRestartAtATime
  <2>4. \A s \in Call : Gone(s)
    BY <1>1 DEF HandoverInv, OldServersAreGone
  <2>5. \A i \in Part : part[d][i] = "none"
    BY <1>1 DEF HandoverInv, OldServersAreGone
  <2> QED
    BY <2>2, <2>3, <2>4, <2>5
<1>3. /\ server' = d /\ drv' = [drv EXCEPT ![d] = "ready"]
      /\ part' = [part EXCEPT ![d] = [@ EXCEPT ![Ws] = "up", ![Http] = "binding"]]
      /\ UNCHANGED <<driver, pc, object, exited>>
  BY <1>2 DEF DriverReady, RememberServer
<1>4. /\ drv \in [Call -> DriverState] /\ part \in [Call -> [Part -> PartState]]
  BY DEF HandoverInv, TypeInvariant, TypeOK
<1>5. /\ \A s \in Call \ {d} : part'[s] = part[s] /\ drv'[s] = drv[s]
      /\ \A i \in Part : part'[d][i] \in {"none", "up", "binding"}
      /\ part'[d][Ws] = "up" /\ drv'[d] = "ready"
      /\ part' \in [Call -> [Part -> PartState]] /\ drv' \in [Call -> DriverState]
  <2>1. Ws \in Part /\ Http \in Part /\ Dns \in Part /\ Ws # Http
    BY DEF Part, Ws, Http, Dns
  <2> QED
    BY <1>2, <1>3, <1>4, <2>1 DEF PartState, DriverState
<1>6. \A e \in Call \ {d} : drv[e] \in {"none", "destroyed"}
  BY <1>2, <1>4 DEF Holds, DriverState
<1>7. TypeInvariant'
  <2>1. \A s \in Call : drv'[s] # "none" => s <= d
    BY <1>1, <1>2, <1>5, <1>6 DEF HandoverInv, AwaitedIsCurrent
  <2>2. TypeOK'
    BY <1>1, <1>3, <1>5 DEF HandoverInv, TypeInvariant, TypeOK
  <2>3. \A s \in Call : part'[s][Ws] # "none" => drv'[s] # "none"
    BY <1>1, <1>5 DEF HandoverInv, TypeInvariant
  <2> QED
    BY <1>3, <1>5, <2>1, <2>2, <2>3 DEF TypeInvariant
<1>8. OneRestartAtATime'
  BY <1>1, <1>2, <1>3 DEF HandoverInv, OneRestartAtATime, Restarting
<1>9. AwaitedIsCurrent'
  <2>1. \A q \in Process : pc[q] \in {"driver", "catch"} => object[q] \in Call \ {d}
    BY <1>1 DEF HandoverInv, TypeInvariant, TypeOK, AwaitedIsCurrent
  <2>2. \A e \in Call : drv'[e] = "none" <=> drv[e] = "none"
    BY <1>1, <1>5
  <2>3. \A e \in Call : Holds(e)' => driver' = e
    BY <1>2, <1>3, <1>5 DEF Holds
  <2> QED
    BY <1>1, <1>2, <1>3, <1>5, <2>1, <2>2, <2>3 DEF HandoverInv, AwaitedIsCurrent
<1>10. OldServersAreGone'
  <2>1. \A s \in Call : Gone(s)' \/ server' = s
    BY <1>2, <1>3, <1>5 DEF Gone
  <2>2. /\ timers' = 0
        /\ \A q \in Call : pc'[q] \notin {"driver", "start", "catch"}
        /\ \A e \in Call : drv'[e] \notin {"open", "closing"}
    BY <1>1, <1>2, <1>3, <1>5, <1>6 DEF Restarting
  <2>3. \A s \in Call : drv'[s] \in {"none", "opening", "open"} =>
           \A i \in Part : part'[s][i] = "none"
    BY <1>5 DEF HandoverInv, OldServersAreGone
  <2>4. \A s \in Call : part'[s][Ws] = "up" =>
           \A i \in Part : part'[s][i] \in {"none", "binding", "up"}
    BY <1>5 DEF HandoverInv, OldServersAreGone
  <2> QED
    BY <2>1, <2>2, <2>3, <2>4 DEF OldServersAreGone
<1>11. ServedDriverIsCurrent'
  BY <1>2, <1>3, <1>5 DEF ServedDriverIsCurrent, Gone, Part
<1> QED
  BY <1>7, <1>8, <1>9, <1>10, <1>11 DEF HandoverInv

\* A server that is left binds its port, or loses a part.
LEMMA PartPreserves ==
    ASSUME HandoverInv, NEW s \in Call,
           Listening(s) \/ \E i \in Part : PartCloses(s, i)
    PROVE  HandoverInv'
<1> USE Processes
<1>1. UNCHANGED <<driver, server, drv, pc, object, calls, timers, reconnect, closing, exited>>
  BY DEF Listening, PartCloses
<1>2. /\ part \in [Call -> [Part -> PartState]]
      /\ Ws \in Part /\ Http \in Part /\ Dns \in Part /\ Ws # Http /\ Ws # Dns /\ Http # Dns
  BY DEF HandoverInv, TypeInvariant, TypeOK, Part, Ws, Http, Dns
<1> DEFINE
      Effect == /\ part' \in [Call -> [Part -> PartState]]
                /\ \A t \in Call \ {s} : part'[t] = part[t]
                /\ part'[s][Ws] = "none" <=> part[s][Ws] = "none"
                /\ part'[s][Ws] = "up" => part[s][Ws] = "up"
                /\ ~Gone(s)
                /\ part'[s][Ws] = "up" =>
                      \A i \in Part : part'[s][i] \in {"none", "binding", "up"}
<1>3. \A t \in Call : part[t][Ws] = "up" =>
         \A i \in Part : part[t][i] \in {"none", "binding", "up"}
  BY DEF HandoverInv, OldServersAreGone
<1>4. Effect
  <2>1. CASE Listening(s)
    BY <1>2, <1>3, <2>1 DEF Listening, PartState, Gone
  <2>2. ASSUME NEW i \in Part, PartCloses(s, i)
        PROVE  Effect
    <3>1. /\ part[s][i] = "closing"
          /\ part' = [part EXCEPT ![s] = [part[s] EXCEPT ![i] = "closed"]]
      BY <1>2, <2>2 DEF PartCloses
    <3>2. part[s][Ws] # "up" /\ ~Gone(s)
      BY <1>3, <3>1 DEF Gone
    <3>3. part' \in [Call -> [Part -> PartState]]
      BY <1>2, <3>1 DEF PartState
    <3>4. \A t \in Call \ {s} : part'[t] = part[t]
      BY <1>2, <3>1
    <3>5. \A j \in Part : part'[s][j] = part[s][j] \/ (j = i /\ part'[s][j] = "closed")
      BY <1>2, <3>1
    <3> QED
      BY <1>2, <3>1, <3>2, <3>3, <3>4, <3>5
  <2> QED
    BY <2>1, <2>2
<1> HIDE DEF Effect
<1>5. TypeInvariant'
  BY <1>1, <1>2, <1>4 DEF Effect, HandoverInv, TypeInvariant, TypeOK
<1>6. OneRestartAtATime' /\ AwaitedIsCurrent'
  BY <1>1 DEF HandoverInv, OneRestartAtATime, Restarting, AwaitedIsCurrent, Holds
<1>7. OldServersAreGone'
  <2>1. server = s
    BY <1>4 DEF Effect, HandoverInv, OldServersAreGone
  <2>2. \A t \in Call : Gone(t)' \/ server' = t
    BY <1>1, <1>4, <2>1 DEF Effect, HandoverInv, OldServersAreGone, Gone
  <2>3. /\ ~(timers' > 0)
        /\ ~\E q \in Call : pc'[q] \in {"driver", "start", "catch"}
        /\ ~\E d \in Call : drv'[d] \in {"open", "closing"}
    BY <1>1, <1>4 DEF Effect, HandoverInv, OldServersAreGone
  <2>4. \A t \in Call : drv'[t] \in {"none", "opening", "open"} =>
           \A i \in Part : part'[t][i] = "none"
    <3>1. ~(drv[s] \in {"none", "opening", "open"})
      BY <1>4 DEF Effect, HandoverInv, OldServersAreGone, Gone
    <3> QED
      BY <1>1, <1>4, <3>1 DEF Effect, HandoverInv, OldServersAreGone
  <2>5. \A t \in Call : part'[t][Ws] = "up" =>
           \A i \in Part : part'[t][i] \in {"none", "binding", "up"}
    BY <1>3, <1>4 DEF Effect
  <2> QED
    BY <2>2, <2>3, <2>4, <2>5 DEF OldServersAreGone
<1>8. ServedDriverIsCurrent'
  BY <1>1, <1>4 DEF Effect, HandoverInv, ServedDriverIsCurrent
<1> QED
  BY <1>5, <1>6, <1>7, <1>8 DEF HandoverInv

LEMMA StepHandoverInv == HandoverInv /\ [Next]_vars => HandoverInv'
<1> SUFFICES ASSUME HandoverInv, [Next]_vars PROVE HandoverInv'
  OBVIOUS
<1> USE Processes
<1>0. closing \in BOOLEAN /\ drv \in [Call -> DriverState] /\ timers \in Nat
  BY DEF HandoverInv, TypeInvariant, TypeOK
<1> DEFINE ExitOnly == /\ exited' \in {"graceful", "forced", "failed", "rejected"}
                       /\ UNCHANGED <<driver, server, drv, part, pc, object, calls, timers, reconnect>>
                       /\ closing' \in BOOLEAN
<1>1. ASSUME ExitOnly PROVE HandoverInv'
  BY <1>1 DEF HandoverInv, TypeInvariant, TypeOK, OneRestartAtATime, Restarting, AwaitedIsCurrent,
     Holds, OldServersAreGone, Gone, ServedDriverIsCurrent
<1> HIDE DEF ExitOnly
<1>2. ASSUME NEW p \in Process, Resume(p) \/ DriverDestroyed(p)
      PROVE  HandoverInv'
  BY <1>2, ResumePreserves, DriverDestroyedPreserves
<1>3. ASSUME NEW p \in Call, DriverStarted(p) \/ DriverStartFails(p) \/ StartFailureHandled(p)
      PROVE  HandoverInv'
  BY <1>3, StartSettlesPreserves
<1>4. ASSUME NEW p \in Call, DriverReady(p)
      PROVE  HandoverInv'
  BY <1>4, DriverReadyPreserves
<1>5. ASSUME NEW d \in Call, DriverFails(d)
      PROVE  HandoverInv'
  <2>1. /\ drv[d] \in {"open", "ready"}
        /\ UNCHANGED <<server, timers, reconnect, closing>>
    BY <1>5 DEF DriverFails
  <2>2. /\ timers = 0 /\ \A q \in Call : ~Restarting(q)
        /\ driver = d /\ \A e \in Call : Holds(e) => e = d
    <3>1. Holds(d)
      BY <2>1 DEF Holds
    <3> QED
      BY <2>1, <3>1 DEF HandoverInv, OneRestartAtATime, AwaitedIsCurrent
  <2>3. PICK ds : ds = [drv EXCEPT ![d] = "failed"]
    OBVIOUS
  <2>4. /\ ds \in [Call -> DriverState] /\ ds[d] = "failed"
        /\ \A e \in Call \ {d} : ds[e] = drv[e] /\ drv[e] \in {"none", "destroyed"}
    BY <1>0, <2>2, <2>3 DEF DriverState, Holds
  <2>5. CASE reconnect
    <3>1. StartDriverWithRetry(ds)
      BY <1>5, <2>3, <2>5 DEF DriverFails, OnDriverFailed, StartDriverWithRetry, TakeDown,
         DestroyServer, AfterServer, AwaitDriver, AfterDriver, CreateDriver
    <3>2. driver # None
      BY <2>2
    <3>3. \A e \in Call :
             \/ ds[e] = drv[e] /\ drv[e] \notin {"open", "ready"}
             \/ ds[e] = "failed" /\ drv[e] \in {"open", "ready"}
      BY <2>1, <2>4
    <3> QED
      BY <1>0, <2>1, <2>2, <2>4, <3>1, <3>2, <3>3, StartPreserves
  <2>6. CASE ~reconnect
    <3>1. exited' = "failed" /\ drv' = ds /\ UNCHANGED <<driver, part, pc, object, calls>>
      BY <1>5, <2>3, <2>6 DEF DriverFails, OnDriverFailed
    <3>2. TypeInvariant'
      BY <2>1, <2>4, <3>1 DEF HandoverInv, TypeInvariant, TypeOK
    <3>3. OneRestartAtATime'
      BY <2>1, <2>2, <2>4, <3>1 DEF OneRestartAtATime, Restarting
    <3>4. AwaitedIsCurrent'
      <4>1. \A q \in Process : pc[q] \in {"driver", "catch"} => object[q] \in Call \ {d}
        BY <2>1 DEF HandoverInv, TypeInvariant, TypeOK, AwaitedIsCurrent
      <4>2. \A e \in Call : drv'[e] = "none" <=> drv[e] = "none"
        BY <2>1, <2>4, <3>1
      <4>3. \A e \in Call : Holds(e)' => driver' = e
        BY <2>2, <2>4, <3>1 DEF Holds
      <4> QED
        BY <2>1, <2>2, <2>4, <3>1, <4>1, <4>2, <4>3 DEF HandoverInv, AwaitedIsCurrent
    <3>5. OldServersAreGone'
      BY <2>1, <2>4, <3>1 DEF HandoverInv, OldServersAreGone, Gone
    <3>6. ServedDriverIsCurrent'
      BY <2>1, <2>4, <3>1 DEF HandoverInv, ServedDriverIsCurrent
    <3> QED
      BY <3>2, <3>3, <3>4, <3>5, <3>6 DEF HandoverInv
  <2> QED
    BY <2>5, <2>6
<1>6. ASSUME NEW s \in Call, Listening(s) \/ \E i \in Part : PartCloses(s, i)
      PROVE  HandoverInv'
  BY <1>6, PartPreserves
<1>7. ASSUME NEW s \in Call, ListenFails(s)
      PROVE  HandoverInv'
  BY <1>0, <1>1, <1>7 DEF ListenFails, Exit, ExitOnly
<1>8. CASE RetryTimer
  <2>1. timers > 0 /\ timers' = timers - 1 /\ UNCHANGED <<server, reconnect, closing>>
    BY <1>8 DEF RetryTimer
  <2>2. /\ timers' = 0 /\ \A q \in Call : ~Restarting(q)
        /\ \A d \in Call : drv[d] \notin {"open", "ready"}
        /\ \A s \in Call : Gone(s)
    <3>1. timers = 1
      BY <1>0, <2>1 DEF HandoverInv, OneRestartAtATime
    <3> QED
      BY <2>1, <3>1 DEF HandoverInv, OneRestartAtATime, OldServersAreGone
  <2>3. PICK ds : ds = drv
    OBVIOUS
  <2>4. StartDriverWithRetry(ds)
    BY <1>8, <2>3 DEF RetryTimer, StartDriverWithRetry, TakeDown,
       DestroyServer, AfterServer, AwaitDriver, AfterDriver, CreateDriver
  <2> QED
    BY <1>0, <2>1, <2>2, <2>3, <2>4, StartPreserves
<1>9. CASE HandleShutdown
  <2>1. closing' = TRUE /\ UNCHANGED <<server, calls, timers, reconnect>>
    BY <1>9 DEF HandleShutdown
  <2>2. CASE closing
    BY <1>1, <1>9, <2>1, <2>2 DEF HandleShutdown, Exit, ExitOnly
  <2>3. CASE ~closing
    <3>1. PICK ds : ds = drv
      OBVIOUS
    <3>2. TakeDown(Shutdown, ds)
      BY <1>9, <2>3, <3>1 DEF HandleShutdown, TakeDown,
         DestroyServer, AfterServer, AwaitDriver, AfterDriver, CreateDriver
    <3>3. TakesDown(Shutdown, ds)
      BY <1>0, <2>1, <3>1 DEF TakesDown
    <3> QED
      BY <3>2, <3>3, TakeDownPreserves
  <2> QED
    BY <2>2, <2>3
<1>10. CASE UNCHANGED vars
  BY <1>10 DEF vars, HandoverInv, TypeInvariant, TypeOK, OneRestartAtATime, Restarting, AwaitedIsCurrent,
     Holds, OldServersAreGone, Gone, ServedDriverIsCurrent
<1> QED
  BY <1>2, <1>3, <1>4, <1>5, <1>6, <1>7, <1>8, <1>9, <1>10 DEF Next

-----------------------------------------------------------------------------
(* A restart by itself                                                      *)

\* What call p has come to await is there to be awaited.
Awaits(p) ==
    /\ exited' = exited
    /\ pc' = [pc EXCEPT ![p] = pc'[p]]
    /\ pc'[p] = "start" => drv'[p] = "opening"
    /\ pc'[p] \in Part => part'[object'[p]][pc'[p]] \in {"closing", "closed"}

LEMMA PartsAreNoPromises == Part \cap {"driver", "start", "catch", "returned", "none"} = {}
BY DEF Part, Ws, Http, Dns

LEMMA AwaitsAfterServer ==
    ASSUME HandoverInv, NEW p \in Call, NEW ds \in [Call -> DriverState],
           AfterServer(p, ds)
    PROVE  Awaits(p)
<1> USE Processes, PartsAreNoPromises
<1>1. pc \in [Process -> Await] /\ p \in Process /\ p # Shutdown
  BY DEF HandoverInv, TypeInvariant, TypeOK
<1>2. CASE driver # None
  BY <1>1, <1>2 DEF AfterServer, AwaitDriver, Awaits
<1>3. CASE driver = None
  BY <1>1, <1>3 DEF AfterServer, AfterDriver, CreateDriver, Awaits
<1> QED
  BY <1>2, <1>3

LEMMA AwaitsDestruction ==
    ASSUME HandoverInv, NEW p \in Call, NEW ds \in [Call -> DriverState],
           NEW s \in Call, NEW ps \in [Part -> PartState],
           DestroyServer(p, s, ps, ds)
    PROVE  Awaits(p)
<1> USE Processes
<1>1. CASE Present(ps) = {}
  BY <1>1, AwaitsAfterServer DEF DestroyServer
<1>2. CASE Present(ps) # {}
  <2> DEFINE next == First(ps)
  <2>1. next \in Part
    BY <1>2, FirstIsPresent
  <2>2. /\ part' = [part EXCEPT ![s] =
                [ps EXCEPT ![next] = IF @ = "closed" THEN @ ELSE "closing"]]
        /\ pc' = [pc EXCEPT ![p] = next]
        /\ object' = [object EXCEPT ![p] = s]
        /\ exited' = exited
    BY <1>2 DEF DestroyServer
  <2> HIDE DEF next
  <2>3. /\ pc \in [Process -> Await] /\ object \in [Process -> Call \cup {None}]
        /\ part \in [Call -> [Part -> PartState]] /\ p \in Process
    BY DEF HandoverInv, TypeInvariant, TypeOK
  <2>4. pc'[p] = next /\ object'[p] = s /\ part'[s][next] \in {"closing", "closed"}
    BY <2>1, <2>2, <2>3
  <2> QED
    BY <2>1, <2>2, <2>4, PartsAreNoPromises DEF Awaits
<1> QED
  BY <1>1, <1>2

LEMMA AwaitsRestart ==
    ASSUME HandoverInv, NEW ds \in [Call -> DriverState], NEW p \in Call, p = calls',
           StartDriverWithRetry(ds)
    PROVE  Awaits(p)
<1> USE Processes
<1>1. /\ part \in [Call -> [Part -> PartState]] /\ server \in Call \cup {None}
      /\ pc \in [Process -> Await] /\ p \in Process
  BY DEF HandoverInv, TypeInvariant, TypeOK
<1>2. CASE driver = None
  <2>1. CreateDriver(p, ds)
    BY <1>2 DEF StartDriverWithRetry, CreateDriver
  <2> QED
    BY <1>1, <2>1, PartsAreNoPromises DEF CreateDriver, Awaits
<1>3. CASE driver # None /\ server = None
  <2>1. AfterServer(p, ds)
    BY <1>3 DEF StartDriverWithRetry, TakeDown, AfterServer, AwaitDriver, AfterDriver,
       CreateDriver
  <2> QED
    BY <2>1, AwaitsAfterServer
<1>4. CASE driver # None /\ server # None
  <2>1. PICK s \in Call : s = server
    BY <1>1, <1>4
  <2>2. PICK ps \in [Part -> PartState] : ps = part[s]
    BY <1>1
  <2>3. DestroyServer(p, s, ps, ds)
    BY <1>4, <2>1, <2>2 DEF StartDriverWithRetry, TakeDown, DestroyServer, AfterServer,
       AwaitDriver, AfterDriver, CreateDriver
  <2> QED
    BY <2>3, AwaitsDestruction
<1> QED
  BY <1>2, <1>3, <1>4

\* The step of the one restart there is.
LEMMA AwaitsAlone ==
    ASSUME HandoverInv, RestartIsAlone, NEW p \in Call, Awaits(p), closing' = closing,
           \A q \in Call : Restarting(q) => q = p
    PROVE  RestartIsAlone'
<1> USE Processes
<1> SUFFICES ASSUME ~closing
             PROVE  /\ exited' # "rejected" /\ pc'[Shutdown] = "none"
                    /\ \A q \in Call :
                          /\ pc'[q] = "start" => drv'[q] = "opening"
                          /\ pc'[q] \in Part =>
                                part'[object'[q]][pc'[q]] \in {"closing", "closed"}
  BY DEF RestartIsAlone
<1>1. pc \in [Process -> Await]
  BY DEF HandoverInv, TypeInvariant, TypeOK
<1>2. exited' # "rejected" /\ pc'[Shutdown] = "none"
  BY <1>1 DEF RestartIsAlone, Awaits
<1>3. \A q \in Call \ {p} : pc'[q] \notin Part \cup {"start"}
  BY <1>1 DEF Awaits, Restarting
<1> QED
  BY <1>2, <1>3 DEF Awaits

LEMMA DestructionInOrder ==
    ASSUME HandoverInv, AnnouncedWhenUp, NEW p, NEW ds, NEW s \in Call,
           NEW ps \in [Part -> PartState], DestroyServer(p, s, ps, ds),
           ps[Http] = "binding" => ps[Dns] = "none"
    PROVE  AnnouncedWhenUp'
<1>1. part \in [Call -> [Part -> PartState]]
  BY DEF HandoverInv, TypeInvariant, TypeOK
<1>2. CASE Present(ps) = {}
  BY <1>1, <1>2 DEF DestroyServer, AnnouncedWhenUp
<1>3. CASE Present(ps) # {}
  <2> DEFINE next == First(ps)
  <2>1. /\ next \in Part /\ ps[next] \notin {"none", "deleted"}
        /\ ps[Http] \notin {"none", "deleted"} => next # Dns
    BY <1>3, FirstIsPresent
  <2>2. part' = [part EXCEPT ![s] =
                [ps EXCEPT ![next] = IF @ = "closed" THEN @ ELSE "closing"]]
    BY <1>3 DEF DestroyServer
  <2> HIDE DEF next
  <2>3. \A t \in Call \ {s} : part'[t] = part[t]
    BY <1>1, <2>2
  <2>4. ASSUME part'[s][Http] = "binding" PROVE part'[s][Dns] = "none"
    <3>1. next # Http /\ ps[Http] = "binding"
      BY <1>1, <2>1, <2>2, <2>4 DEF Part
    <3>2. next # Dns
      BY <2>1, <3>1
    <3> QED
      BY <1>1, <2>2, <3>1, <3>2 DEF Part
  <2> QED
    BY <2>3, <2>4 DEF AnnouncedWhenUp
<1> QED
  BY <1>2, <1>3

LEMMA TakeDownInOrder ==
    ASSUME HandoverInv, AnnouncedWhenUp, NEW p, NEW ds, TakeDown(p, ds)
    PROVE  AnnouncedWhenUp'
<1>1. CASE server = None
  BY <1>1 DEF TakeDown, AnnouncedWhenUp
<1>2. CASE server # None
  <2>1. PICK s \in Call : s = server
    BY <1>2 DEF HandoverInv, TypeInvariant, TypeOK
  <2>2. PICK ps \in [Part -> PartState] : ps = part[s]
    BY DEF HandoverInv, TypeInvariant, TypeOK
  <2>3. DestroyServer(p, s, ps, ds)
    BY <1>2, <2>1, <2>2 DEF TakeDown, DestroyServer, AfterServer, AwaitDriver,
       AfterDriver, CreateDriver
  <2>4. ps[Http] = "binding" => ps[Dns] = "none"
    BY <2>2 DEF AnnouncedWhenUp
  <2> QED
    BY <2>3, <2>4, DestructionInOrder
<1> QED
  BY <1>1, <1>2

LEMMA AnnouncedWhenUpStays ==
    ASSUME HandoverInv, AnnouncedWhenUp, [Next]_vars PROVE AnnouncedWhenUp'
<1>1. part \in [Call -> [Part -> PartState]]
  BY DEF HandoverInv, TypeInvariant, TypeOK
<1>2. ASSUME NEW p \in Process, Resume(p)
      PROVE  AnnouncedWhenUp'
  <2>1. CASE Exit("rejected")
    BY <2>1 DEF Exit, AnnouncedWhenUp
  <2>2. CASE part[object[p]][pc[p]] = "closed" /\ ~Exit("rejected")
    <3>1. pc[p] \in Part /\ object[p] \in Call \cup {None} /\ object[p] # None
      BY <1>2, PartsAreNoPromises DEF Resume, HandoverInv, TypeInvariant, TypeOK,
         AwaitedIsCurrent
    <3>2. PICK s \in Call : s = object[p]
      BY <3>1
    <3>3. PICK ps : ps = [part[s] EXCEPT ![pc[p]] = "deleted"]
      OBVIOUS
    <3>4. PICK ds : ds = drv
      OBVIOUS
    <3>5. DestroyServer(p, s, ps, ds)
      BY <1>2, <2>2, <3>2, <3>3, <3>4 DEF Resume, DestroyServer, AfterServer,
         AwaitDriver, AfterDriver, CreateDriver
    <3>6. ps \in [Part -> PartState]
      BY <1>1, <3>2, <3>3 DEF PartState
    <3>7. ps[Http] = "binding" => ps[Dns] = "none"
      BY <1>1, <2>2, <3>1, <3>2, <3>3 DEF AnnouncedWhenUp, Part
    <3> QED
      BY <3>5, <3>6, <3>7, DestructionInOrder
  <2> QED
    BY <1>2, <2>1, <2>2 DEF Resume
<1>3. ASSUME NEW ds, StartDriverWithRetry(ds)
      PROVE  AnnouncedWhenUp'
  <2>1. CASE driver = None
    BY <1>3, <2>1 DEF StartDriverWithRetry, AnnouncedWhenUp
  <2>2. CASE driver # None
    <3>1. PICK p : p = calls'
      OBVIOUS
    <3>2. TakeDown(p, ds)
      BY <1>3, <2>2, <3>1 DEF StartDriverWithRetry, TakeDown, DestroyServer,
         AfterServer, AwaitDriver, AfterDriver, CreateDriver
    <3> QED
      BY <3>2, TakeDownInOrder
  <2> QED
    BY <2>1, <2>2
<1>4. ASSUME NEW d \in Call, DriverFails(d)
      PROVE  AnnouncedWhenUp'
  <2>1. CASE reconnect
    <3>1. PICK ds : ds = [drv EXCEPT ![d] = "failed"]
      OBVIOUS
    <3>2. StartDriverWithRetry(ds)
      BY <1>4, <2>1, <3>1 DEF DriverFails, OnDriverFailed, StartDriverWithRetry,
         TakeDown, DestroyServer, AfterServer, AwaitDriver, AfterDriver, CreateDriver
    <3> QED
      BY <3>2, <1>3
  <2>2. CASE ~reconnect
    BY <1>4, <2>2 DEF DriverFails, OnDriverFailed, AnnouncedWhenUp
  <2> QED
    BY <2>1, <2>2
<1>5. CASE RetryTimer
  <2>1. PICK ds : ds = drv
    OBVIOUS
  <2>2. StartDriverWithRetry(ds)
    BY <1>5, <2>1 DEF RetryTimer, StartDriverWithRetry, TakeDown, DestroyServer,
       AfterServer, AwaitDriver, AfterDriver, CreateDriver
  <2> QED
    BY <2>2, <1>3
<1>6. CASE HandleShutdown
  <2>1. CASE closing
    BY <1>6, <2>1 DEF HandleShutdown, Exit, AnnouncedWhenUp
  <2>2. CASE ~closing
    <3>1. PICK p, ds : p = Shutdown /\ ds = drv
      OBVIOUS
    <3>2. TakeDown(p, ds)
      BY <1>6, <2>2, <3>1 DEF HandleShutdown, TakeDown, DestroyServer,
         AfterServer, AwaitDriver, AfterDriver, CreateDriver
    <3> QED
      BY <3>2, TakeDownInOrder
  <2> QED
    BY <2>1, <2>2
<1>7. ASSUME NEW d \in Call, DriverReady(d)
      PROVE  AnnouncedWhenUp'
  <2>1. part[d][Dns] = "none"
    BY <1>7 DEF DriverReady, HandoverInv, OldServersAreGone, Part
  <2>2. CASE driver = d
    <3>1. part' = [part EXCEPT ![d] = [part[d] EXCEPT ![Ws] = "up", ![Http] = "binding"]]
      BY <1>7, <2>2 DEF DriverReady
    <3> QED
      BY <1>1, <2>1, <3>1 DEF AnnouncedWhenUp, Part, Ws, Http, Dns
  <2>3. CASE driver # d
    BY <1>7, <2>3 DEF DriverReady, Exit, AnnouncedWhenUp
  <2> QED
    BY <2>2, <2>3
<1>8. ASSUME NEW s \in Call, Listening(s)
      PROVE  AnnouncedWhenUp'
  BY <1>1, <1>8 DEF Listening, AnnouncedWhenUp, Part, Ws, Http, Dns
<1>9. ASSUME NEW s \in Call, NEW i \in Part, PartCloses(s, i)
      PROVE  AnnouncedWhenUp'
  BY <1>1, <1>9 DEF PartCloses, AnnouncedWhenUp, Part, Ws, Http, Dns
<1>10. ASSUME UNCHANGED part
       PROVE  AnnouncedWhenUp'
  BY <1>10 DEF AnnouncedWhenUp
<1>11. ASSUME NEW p \in Process, DriverDestroyed(p)
       PROVE  UNCHANGED part
  BY <1>11 DEF DriverDestroyed
<1>12. ASSUME NEW p \in Call, \/ DriverStarted(p) \/ DriverStartFails(p)
                               \/ StartFailureHandled(p) \/ ListenFails(p)
       PROVE  UNCHANGED part
  BY <1>12 DEF DriverStarted, DriverStartFails, StartFailureHandled, ListenFails, Exit
<1>13. CASE UNCHANGED vars
  BY <1>10, <1>13 DEF vars
<1> QED
  BY <1>2, <1>4, <1>5, <1>6, <1>7, <1>8, <1>9, <1>10, <1>11, <1>12, <1>13 DEF Next

\* Steps after which every call awaits what it did, and finds it.
LEMMA StaysAlone ==
    ASSUME HandoverInv, RestartIsAlone, UNCHANGED <<pc, object>>, closing' = closing,
           exited' = exited \/ exited' # "rejected",
           \A d \in Call : drv[d] = "opening" => drv'[d] = "opening",
           \A s \in Call : \A i \in Part :
              part[s][i] \in {"closing", "closed"} => part'[s][i] \in {"closing", "closed"}
    PROVE  RestartIsAlone'
<1>1. ASSUME NEW p \in Call, pc[p] \in Part
      PROVE  object[p] \in Call
  <2>1. p \in Process /\ pc[p] # "none"
    BY <1>1, Processes, PartsAreNoPromises
  <2> QED
    BY <2>1 DEF HandoverInv, AwaitedIsCurrent, TypeInvariant, TypeOK
<1> QED
  BY <1>1 DEF RestartIsAlone

LEMMA RestartStaysAlone ==
    ASSUME HandoverInv, AnnouncedWhenUp, RestartIsAlone, [Next]_vars
    PROVE  RestartIsAlone'
<1> USE Processes
<1>0. /\ drv \in [Call -> DriverState] /\ pc \in [Process -> Await] /\ timers \in Nat
      /\ object \in [Process -> Call \cup {None}] /\ closing \in BOOLEAN
      /\ part \in [Call -> [Part -> PartState]]
      /\ calls \in 0..MaxCalls /\ driver \in Call \cup {None}
  BY DEF HandoverInv, TypeInvariant, TypeOK
<1> SUFFICES ASSUME ~closing' PROVE RestartIsAlone'
  BY DEF RestartIsAlone
<1>1. ASSUME NEW p \in Process, Resume(p)
      PROVE  RestartIsAlone'
  <2>1. closing' = closing /\ pc[p] \in Part /\ pc[p] # "none"
    BY <1>1, PartsAreNoPromises DEF Resume
  <2>2. p \in Call /\ part[object[p]][pc[p]] \in {"closing", "closed"}
    BY <2>1 DEF RestartIsAlone
  <2>3. \A q \in Call : Restarting(q) => q = p
    BY <2>1, <2>2 DEF HandoverInv, OneRestartAtATime, Restarting
  <2>4. PICK s \in Call : s = object[p]
    <3>1. object[p] \in Call \cup {None} /\ object[p] # None
      BY <1>0, <2>1 DEF HandoverInv, AwaitedIsCurrent
    <3> QED
      BY <3>1
  <2>5. PICK ps : ps = [part[s] EXCEPT ![pc[p]] = "deleted"]
    OBVIOUS
  <2>6. PICK ds : ds = drv
    OBVIOUS
  <2>7. DestroyServer(p, s, ps, ds)
    BY <1>1, <2>2, <2>4, <2>5, <2>6 DEF Resume, DestroyServer, AfterServer,
       AwaitDriver, AfterDriver, CreateDriver
  <2>8. ps \in [Part -> PartState] /\ ds \in [Call -> DriverState]
    BY <1>0, <2>5, <2>6 DEF PartState
  <2>9. Awaits(p)
    BY <2>2, <2>7, <2>8, AwaitsDestruction
  <2> QED
    BY <2>1, <2>2, <2>3, <2>9, AwaitsAlone
<1>2. ASSUME NEW p \in Process, DriverDestroyed(p)
      PROVE  RestartIsAlone'
  <2>1. closing' = closing /\ pc[p] = "driver"
    BY <1>2 DEF DriverDestroyed
  <2>2. p \in Call /\ p # Shutdown
    BY <2>1 DEF RestartIsAlone
  <2>3. \A q \in Call : Restarting(q) => q = p
    BY <2>1, <2>2 DEF HandoverInv, OneRestartAtATime, Restarting
  <2>4. PICK ds : ds = [drv EXCEPT ![object[p]] = "destroyed"]
    OBVIOUS
  <2>5. CreateDriver(p, ds) /\ ds \in [Call -> DriverState]
    BY <1>0, <1>2, <2>2, <2>4 DEF DriverDestroyed, AfterDriver, CreateDriver, DriverState
  <2>6. Awaits(p)
    BY <1>0, <2>2, <2>5, PartsAreNoPromises DEF CreateDriver, Awaits
  <2> QED
    BY <2>1, <2>2, <2>3, <2>6, AwaitsAlone
<1>3. ASSUME NEW p \in Call, DriverStarted(p) \/ DriverStartFails(p) \/ StartFailureHandled(p)
      PROVE  RestartIsAlone'
  <2>1. closing' = closing /\ pc[p] \in {"start", "catch"}
    BY <1>3 DEF DriverStarted, DriverStartFails, StartFailureHandled, Exit
  <2>2. \A q \in Call : Restarting(q) => q = p
    BY <2>1 DEF HandoverInv, OneRestartAtATime, Restarting
  <2>3. \A q \in Call \ {p} : pc[q] \notin Part \cup {"start"}
    BY <2>2 DEF Restarting
  <2>4. CASE DriverStarted(p)
    BY <1>0, <2>1, <2>2, <2>4, AwaitsAlone, PartsAreNoPromises
    DEF DriverStarted, Return, Awaits
  <2>5. CASE DriverStartFails(p)
    <3>1. pc[p] = "start" /\ drv[p] = "opening"
      BY <2>1, <2>5 DEF DriverStartFails, RestartIsAlone
    <3>2. driver # None
      BY <3>1 DEF HandoverInv, AwaitedIsCurrent, Holds
    <3>3. Awaits(p)
      BY <1>0, <2>5, <3>2, PartsAreNoPromises DEF DriverStartFails, AwaitDriver, Awaits
    <3> QED
      BY <2>1, <2>2, <3>3, AwaitsAlone
  <2>6. CASE StartFailureHandled(p)
    <3>1. pc' = [pc EXCEPT ![p] = "returned"] /\ exited' \in {exited, "failed"}
      BY <2>6 DEF StartFailureHandled
    <3> QED
      BY <1>0, <2>1, <2>3, <3>1, PartsAreNoPromises DEF RestartIsAlone
  <2> QED
    BY <1>3, <2>4, <2>5, <2>6
<1>4. ASSUME NEW d \in Call, DriverReady(d)
      PROVE  RestartIsAlone'
  <2>1. drv[d] = "open" /\ closing' = closing
    BY <1>4 DEF DriverReady
  <2>2. driver = d
    BY <2>1 DEF HandoverInv, AwaitedIsCurrent, Holds
  <2>3. \A i \in Part : part[d][i] = "none"
    BY <2>1 DEF HandoverInv, OldServersAreGone
  <2>4. /\ drv' = [drv EXCEPT ![d] = "ready"]
        /\ part' = [part EXCEPT ![d] = [part[d] EXCEPT ![Ws] = "up", ![Http] = "binding"]]
        /\ UNCHANGED <<driver, pc, object, exited>>
    BY <1>0, <1>4, <2>2 DEF DriverReady
  <2>5. \A s \in Call : s # d => part'[s] = part[s]
    BY <1>0, <2>4
  <2> QED
    BY <1>0, <2>1, <2>3, <2>4, <2>5, StaysAlone
<1>5. ASSUME NEW d \in Call, DriverFails(d)
      PROVE  RestartIsAlone'
  <2>1. drv[d] \in {"open", "ready"} /\ closing' = closing
    BY <1>5 DEF DriverFails
  <2>2. \A q \in Call : ~Restarting(q)
    BY <2>1 DEF HandoverInv, OneRestartAtATime
  <2>3. PICK ds : ds = [drv EXCEPT ![d] = "failed"]
    OBVIOUS
  <2>4. CASE reconnect
    <3>1. StartDriverWithRetry(ds) /\ ds \in [Call -> DriverState]
      BY <1>0, <1>5, <2>3, <2>4 DEF DriverFails, OnDriverFailed, StartDriverWithRetry,
         TakeDown, DestroyServer, AfterServer, AwaitDriver, AfterDriver, CreateDriver,
         DriverState
    <3>2. PICK p \in Call : p = calls'
      BY <1>0, <3>1, CallsBounded DEF StartDriverWithRetry, Call
    <3>3. Awaits(p)
      BY <3>1, <3>2, AwaitsRestart
    <3> QED
      BY <2>1, <2>2, <3>3, AwaitsAlone
  <2>5. CASE ~reconnect
    BY <1>0, <2>1, <2>5, <1>5, StaysAlone DEF DriverFails, OnDriverFailed
  <2> QED
    BY <2>4, <2>5
<1>6. ASSUME NEW s \in Call, Listening(s)
      PROVE  RestartIsAlone'
  <2>1. /\ part' = [part EXCEPT ![s] = [part[s] EXCEPT ![Http] = "up", ![Dns] = "up"]]
        /\ part[s][Http] = "binding" /\ UNCHANGED <<drv, pc, object, closing, exited>>
    BY <1>0, <1>6 DEF Listening
  <2>2. closing' = closing /\ \A t \in Call \cup {None} : t # s => part'[t] = part[t]
    BY <1>0, <2>1
  <2>3. ~\E q \in Call : pc[q] = "start"
    BY <2>1 DEF HandoverInv, OldServersAreGone, Gone, Part
  <2>4. ASSUME NEW q \in Call, pc[q] \in Part
        PROVE  part'[object[q]][pc[q]] \in {"closing", "closed"}
    <3>1. part[object[q]][pc[q]] \in {"closing", "closed"}
      BY <2>2, <2>4 DEF RestartIsAlone
    <3>2. object[q] = s => pc[q] = Ws
      BY <2>1, <2>4, <3>1 DEF AnnouncedWhenUp, Part
    <3>3. object[q] = s => part'[s][Ws] = part[s][Ws]
      BY <1>0, <2>1 DEF Part, Ws, Http, Dns
    <3>4. object[q] \in Call \cup {None}
      BY <1>0
    <3> QED
      BY <2>2, <3>1, <3>2, <3>3, <3>4
  <2> QED
    BY <2>1, <2>2, <2>3, <2>4 DEF RestartIsAlone
<1>7. ASSUME NEW s \in Call, NEW i \in Part, PartCloses(s, i)
      PROVE  RestartIsAlone'
  <2>1. /\ part' = [part EXCEPT ![s] = [part[s] EXCEPT ![i] = "closed"]]
        /\ UNCHANGED <<drv, pc, object, closing, exited>>
    BY <1>0, <1>7 DEF PartCloses
  <2>2. \A t \in Call : \A j \in Part :
           part'[t][j] = part[t][j] \/ part'[t][j] = "closed"
    BY <1>0, <2>1
  <2> QED
    BY <1>0, <2>1, <2>2, StaysAlone
<1>8. ASSUME NEW s \in Call, ListenFails(s)
      PROVE  RestartIsAlone'
  BY <1>0, <1>8, StaysAlone DEF ListenFails, Exit
<1>9. CASE RetryTimer
  <2>1. timers > 0 /\ closing' = closing
    BY <1>9 DEF RetryTimer
  <2>2. \A q \in Call : ~Restarting(q)
    BY <1>0, <2>1 DEF HandoverInv, OneRestartAtATime
  <2>3. PICK ds : ds = drv
    OBVIOUS
  <2>4. StartDriverWithRetry(ds)
    BY <1>9, <2>3 DEF RetryTimer, StartDriverWithRetry, TakeDown,
       DestroyServer, AfterServer, AwaitDriver, AfterDriver, CreateDriver
  <2>5. PICK p \in Call : p = calls'
    BY <1>0, <2>4, CallsBounded DEF StartDriverWithRetry, Call
  <2>6. Awaits(p)
    BY <1>0, <2>3, <2>4, <2>5, AwaitsRestart
  <2> QED
    BY <2>1, <2>2, <2>6, AwaitsAlone
<1>10. CASE HandleShutdown
  BY <1>10 DEF HandleShutdown
<1>11. CASE UNCHANGED vars
  BY <1>0, <1>11, StaysAlone DEF vars
<1> QED
  BY <1>1, <1>2, <1>3, <1>4, <1>5, <1>6, <1>7, <1>8, <1>9, <1>10, <1>11 DEF Next

-----------------------------------------------------------------------------

\* The inductive invariant holds in every reachable state, however often the
\* driver is restarted.
THEOREM InvariantHolds == Spec => []IInv
<1>1. ASSUME Init PROVE AnnouncedWhenUp /\ RestartIsAlone
  <2>1. /\ \A s \in Call : part[s][Http] = "none"
        /\ \A p \in Process : pc[p] = IF p = 1 THEN "start" ELSE "none"
        /\ drv = [d \in Call |-> IF d = 1 THEN "opening" ELSE "none"]
    BY <1>1 DEF Init, Part
  <2>2. exited = "no" /\ Shutdown # 1 /\ 1 \in Call
    BY <1>1, CallsBounded DEF Init, Shutdown, Call
  <2> QED
    BY <2>1, <2>2, Processes, PartsAreNoPromises DEF AnnouncedWhenUp, RestartIsAlone
<1>2. IInv /\ [Next]_vars => IInv'
  BY StepHandoverInv, AnnouncedWhenUpStays, RestartStaysAlone DEF IInv
<1>3. Init => IInv
  BY <1>1, InitHandoverInv DEF IInv
<1> QED
  BY <1>2, <1>3, PTL DEF Spec

\* At most one driver holds the serial port: bin/server.ts creates a driver
\* only when the last one has ended, although nothing keeps a retry, a restart
\* after Driver_Failed and a shutdown apart.
THEOREM OneDriverAtATime == Spec => []OneDriverHoldsThePort
<1>1. IInv => OneDriverHoldsThePort
  BY DEF IInv, HandoverInv, AwaitedIsCurrent, OneDriverHoldsThePort
<1> QED
  BY <1>1, InvariantHolds, PTL

\* At most one server binds the TCP port: the last one is taken down in full
\* before the next driver starts (ZwavejsServer.destroy).
THEOREM OneServerAtATime == Spec => []OneServerListens
<1>1. IInv => OneServerListens
  BY DEF IInv, HandoverInv, OldServersAreGone, Gone, Part, OneServerListens
<1> QED
  BY <1>1, InvariantHolds, PTL

\* Clients are accepted only for the driver of the variable, before anybody has
\* begun to destroy it.
THEOREM ServedDriversAreCurrent == Spec => []ServedDriverIsCurrent
<1>1. IInv => ServedDriverIsCurrent
  BY DEF IInv, HandoverInv
<1> QED
  BY <1>1, InvariantHolds, PTL

\* A driver that fails and is restarted never ends the process with an unhandled
\* rejection: whoever takes the last driver and server down is alone, until a
\* signal comes (no lock keeps two calls of startDriverWithRetry apart).
THEOREM RestartsNeverReject == Spec => []RestartsDoNotReject
<1>1. IInv => RestartsDoNotReject
  BY DEF IInv, RestartIsAlone, RestartsDoNotReject
<1> QED
  BY <1>1, InvariantHolds, PTL

=============================================================================
