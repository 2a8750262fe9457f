---------------------------- MODULE ZnifferProofs ----------------------------
(***************************************************************************)
(* The slots of the Zniffer handlers, for any number of clients and of     *)
(* Zniffers: a Zniffer that is destroyed is silent and leaves no slot      *)
(* taken, and "Zniffer is not running" is so for a client that sends one   *)
(* destroy command at a time, whatever the others send.                    *)
(***************************************************************************)
EXTENDS Zniffer, TLAPS

LEMMA InitIInv == Init => IInv
BY ZnifferConstants
DEF Init, IInv, TypeInvariant, TypeOK, State, MaxDestroys, DestroyedIsSilent,
    SlotIsNotDead, PatientSlot, Owned

LEMMA StepIInv == IInv /\ [Next]_vars => IInv'
<1> SUFFICES ASSUME IInv, [Next]_vars PROVE IInv'
  OBVIOUS
<1> USE ZnifferConstants DEF IInv, TypeInvariant, TypeOK, State, MaxDestroys
<1>1. ASSUME NEW c \in Client, NEW z \in Instance, InitCommand(c, z)
      PROVE  IInv'
  <2>1. /\ zniffer[c] = None /\ state[z] = "unused" /\ destroying[z] = 0 /\ z \notin refused
        /\ zniffer' = [zniffer EXCEPT ![c] = z]
        /\ state' = [state EXCEPT ![z] = "created"]
        /\ creator' = [creator EXCEPT ![z] = c]
        /\ listeners' = listeners \cup {z} /\ initing' = initing \cup {z}
        /\ UNCHANGED <<connected, destroying, refused>>
    BY <1>1 DEF InitCommand, TakeSlot
  <2>2. \A d \in Client : zniffer[d] # z
    BY <2>1
  <2>3. TypeInvariant'
    BY <2>1, <2>2
  <2>4. DestroyedIsSilent' /\ SlotIsNotDead'
    BY <2>1, <2>2 DEF DestroyedIsSilent, SlotIsNotDead
  <2>5. PatientSlot'
    BY <2>1, <2>2 DEF PatientSlot, Owned
  <2> QED
    BY <2>1, <2>3, <2>4, <2>5
<1>2. ASSUME NEW z \in Instance, NEW ok \in BOOLEAN, InitSettles(z, ok)
      PROVE  IInv'
  <2>1. /\ UNCHANGED <<connected, zniffer, listeners, creator, destroying, refused>>
        /\ initing' \subseteq initing
        /\ \/ state' = state
           \/ /\ state[z] = "created"
              /\ \/ state' = [state EXCEPT ![z] = "ready"]
                 \/ state' = [state EXCEPT ![z] = "failed"]
    BY <1>2 DEF InitSettles
  <2> QED
    BY <2>1 DEF DestroyedIsSilent, SlotIsNotDead, PatientSlot, Owned
<1>3. ASSUME NEW c \in Client, StartCommand(c) \/ StopCommand(c)
      PROVE  IInv'
  <2>1. PICK z \in Instance :
          /\ UNCHANGED <<connected, zniffer, listeners, creator, destroying, initing,
                         refused>>
          /\ state[z] \in {"ready", "capturing"}
          /\ \/ state' = [state EXCEPT ![z] = "ready"]
             \/ state' = [state EXCEPT ![z] = "capturing"]
    BY <1>3 DEF StartCommand, StopCommand
  <2> QED
    BY <2>1 DEF DestroyedIsSilent, SlotIsNotDead, PatientSlot, Owned
<1>4. ASSUME NEW c \in Client, DestroyCommand(c)
      PROVE  IInv'
  <2> DEFINE z == zniffer[c]
  <2>1. /\ z \in Instance /\ zniffer[c] = z /\ creator[z] = c
        /\ destroying[z] < 2 /\ (c \in Patient => destroying[z] < 1)
        /\ destroying' = [destroying EXCEPT ![z] = destroying[z] + 1]
        /\ listeners' = listeners \ {z} /\ refused' = refused \ {z}
        /\ UNCHANGED <<connected, zniffer, state, creator, initing>>
    BY <1>4 DEF DestroyCommand, RemoveAllListeners
  <2> HIDE DEF z
  <2>2. TypeInvariant'
    BY <2>1
  <2>3. DestroyedIsSilent' /\ SlotIsNotDead'
    BY <2>1 DEF DestroyedIsSilent, SlotIsNotDead
  <2>4. PatientSlot'
    BY <2>1 DEF PatientSlot, Owned
  <2> QED
    BY <2>1, <2>2, <2>3, <2>4
<1>5. ASSUME NEW z \in Instance, NEW ok \in BOOLEAN, DestroySettles(z, ok)
      PROVE  IInv'
  <2>1. /\ destroying[z] > 0 /\ creator[z] \in Client
        /\ destroying' = [destroying EXCEPT ![z] = destroying[z] - 1]
        /\ UNCHANGED <<connected, listeners, creator, initing>>
    BY <1>5 DEF DestroySettles
  <2>2. CASE /\ state' = [state EXCEPT ![z] = "destroyed"]
             /\ zniffer' = [zniffer EXCEPT ![creator[z]] = None]
             /\ UNCHANGED refused
    <3>1. TypeInvariant'
      BY <2>1, <2>2
    <3>2. DestroyedIsSilent' /\ SlotIsNotDead'
      BY <2>1, <2>2 DEF DestroyedIsSilent, SlotIsNotDead
    <3>3. PatientSlot'
      \* For a patient client, no other Zniffer of its own was in the slot.
      BY <2>1, <2>2 DEF PatientSlot, Owned
    <3> QED
      BY <2>1, <2>2, <3>1, <3>2, <3>3
  <2>3. CASE UNCHANGED <<zniffer, state>> /\ refused' = refused \cup {z}
    \* The listeners are gone already, and what is left stays in the slot.
    <3>1. TypeInvariant'
      BY <2>1, <2>3
    <3>2. DestroyedIsSilent'
      BY <2>1, <2>3 DEF DestroyedIsSilent
    <3>3. SlotIsNotDead' /\ PatientSlot'
      BY <2>1, <2>3 DEF SlotIsNotDead, PatientSlot, Owned
    <3> QED
      BY <2>1, <2>3, <3>1, <3>2, <3>3
  <2> QED
    BY <1>5, <2>2, <2>3 DEF DestroySettles, EmptySlot, DestroyFails
<1>6. ASSUME NEW c \in Client, Disconnect(c)
      PROVE  IInv'
  BY <1>6 DEF Disconnect, DestroyedIsSilent, SlotIsNotDead, PatientSlot, Owned
<1>7. CASE UNCHANGED vars
  BY <1>7 DEF vars, DestroyedIsSilent, SlotIsNotDead, PatientSlot, Owned
<1> QED
  BY <1>1, <1>2, <1>3, <1>4, <1>5, <1>6, <1>7 DEF Next

\* The inductive invariant holds in every reachable state, for any clients and
\* Zniffers.
THEOREM InvariantHolds == Spec => []IInv
BY InitIInv, StepIInv, PTL DEF Spec

\* The types, and that a slot never holds the Zniffer of another client.
THEOREM TypesHold == Spec => []TypeInvariant
BY InvariantHolds, PTL DEF IInv

\* A Zniffer a destroy command was received for forwards no event any more,
\* for any number of commands and clients.
THEOREM DestroyedStaysSilent == Spec => []DestroyedIsSilent
BY InvariantHolds, PTL DEF IInv

\* No slot is taken for good by a Zniffer that has been destroyed.
THEOREM SlotsAreFreed == Spec => []SlotIsNotDead
BY InvariantHolds, PTL DEF IInv

LEMMA PatientSlotSuffices == IInv => PatientNotRunning
<1> SUFFICES ASSUME IInv, NEW c \in Patient, NEW z \in Instance,
                    creator[z] = c, Live(z)
             PROVE  zniffer[c] # None
  BY DEF PatientNotRunning, NotRunningIsTrue
<1>1. zniffer[c] = z
  BY DEF IInv, PatientSlot, Owned, Live
<1> QED
  BY <1>1, ZnifferConstants

\* "Zniffer is not running" is so for every client that sends one destroy
\* command at a time, whatever the other clients do.
THEOREM NotRunningIsSo == Spec => []PatientNotRunning
BY InvariantHolds, PatientSlotSuffices, PTL

=============================================================================
