------------------------------- MODULE Zniffer -------------------------------
(***************************************************************************)
(* The Zniffer commands of the clients (lib/zniffer/message_handler.ts).   *)
(* Every client has a handler of its own with one slot for a Zniffer; init *)
(* and destroy await the Zniffer, and meanwhile the handler serves other   *)
(* commands of the same client.  All Zniffers here are on one serial port, *)
(* which one of them at a time can hold.                                   *)
(*                                                                         *)
(* The Zniffer class is external: init() opens the port or is rejected,    *)
(* destroy() releases it or is rejected, also when called again.           *)
(***************************************************************************)
EXTENDS Naturals, FiniteSets

CONSTANTS
    Client,
    Patient,    \* clients that never send two destroy commands at a time
    Instance,   \* bound: the Zniffers created over the whole run
    None        \* undefined

ASSUME ZnifferConstants ==
    /\ None \notin Instance /\ None \notin Client
    /\ Patient \subseteq Client

VARIABLES
    connected,  \* the clients whose connection is up
    zniffer,    \* Client -> ZnifferMessageHandler.zniffer
    state,      \* Instance -> life of the Zniffer
    listeners,  \* the Zniffers whose events are forwarded to the clients
    creator,    \* Instance -> the client that created it
    destroying, \* Instance -> number of destroy commands that await it
    initing,    \* the Zniffers whose init is awaited
    refused     \* history: the Zniffers whose destroy() was rejected, until the
                \* next destroy command

vars == <<connected, zniffer, state, listeners, creator, destroying, initing,
          refused>>

State == {"unused", "created", "ready", "capturing", "failed", "destroyed"}

\* A Zniffer that holds the serial port.
Live(z) == state[z] \in {"ready", "capturing"}

\* Bound: destroy commands that await the same Zniffer.
MaxDestroys == 2

TypeOK ==
    /\ connected \subseteq Client
    /\ zniffer \in [Client -> Instance \cup {None}]
    /\ state \in [Instance -> State]
    /\ listeners \subseteq Instance
    /\ creator \in [Instance -> Client \cup {None}]
    /\ destroying \in [Instance -> 0..MaxDestroys]
    /\ initing \subseteq Instance
    /\ refused \subseteq Instance

Init ==
    /\ connected = Client
    /\ zniffer = [c \in Client |-> None]
    /\ state = [z \in Instance |-> "unused"]
    /\ listeners = {}
    /\ creator = [z \in Instance |-> None]
    /\ destroying = [z \in Instance |-> 0]
    /\ initing = {}
    /\ refused = {}

\* Mutant: one slot shared by the handlers of all clients.
TakeEverySlot(c, z) == zniffer' = [d \in Client |-> z]

\* Every client has a handler, hence a slot, of its own.
TakeSlot(c, z) == zniffer' = [zniffer EXCEPT ![c] = z]

\* zniffer.init, up to its await: refused while the slot is taken.
InitCommand(c, z) ==
    /\ c \in connected
    /\ zniffer[c] = None
    /\ state[z] = "unused"
    /\ TakeSlot(c, z)
    /\ state' = [state EXCEPT ![z] = "created"]
    /\ creator' = [creator EXCEPT ![z] = c]
    /\ listeners' = listeners \cup {z}
    /\ initing' = initing \cup {z}
    /\ UNCHANGED <<connected, destroying, refused>>

\* init() settles.  When it is rejected the command fails, and the Zniffer
\* stays in the slot.
InitSettles(z, ok) ==
    /\ z \in initing
    /\ initing' = initing \ {z}
    /\ ok => \A y \in Instance : ~Live(y)
    /\ state' = IF state[z] # "created" THEN state
                ELSE [state EXCEPT ![z] = IF ok THEN "ready" ELSE "failed"]
    /\ UNCHANGED <<connected, zniffer, listeners, creator, destroying, refused>>

\* zniffer.start and zniffer.stop, passed through to whatever the slot holds.
StartCommand(c) ==
    /\ c \in connected
    /\ zniffer[c] # None
    /\ state[zniffer[c]] = "ready"
    /\ state' = [state EXCEPT ![zniffer[c]] = "capturing"]
    /\ UNCHANGED <<connected, zniffer, listeners, creator, destroying, initing,
                   refused>>

StopCommand(c) ==
    /\ c \in connected
    /\ zniffer[c] # None
    /\ state[zniffer[c]] = "capturing"
    /\ state' = [state EXCEPT ![zniffer[c]] = "ready"]
    /\ UNCHANGED <<connected, zniffer, listeners, creator, destroying, initing,
                   refused>>

\* Mutant: the listeners are left.
KeepListeners(z) == UNCHANGED listeners

RemoveAllListeners(z) == listeners' = listeners \ {z}

\* zniffer.destroy, up to its await.  The slot is still taken.
DestroyCommand(c) ==
    /\ c \in connected
    /\ zniffer[c] # None
    /\ destroying[zniffer[c]] < (IF c \in Patient THEN 1 ELSE MaxDestroys)
    /\ RemoveAllListeners(zniffer[c])
    /\ destroying' = [destroying EXCEPT ![zniffer[c]] = @ + 1]
    /\ refused' = refused \ {zniffer[c]}
    /\ UNCHANGED <<connected, zniffer, state, creator, initing>>

\* Mutants: the slot is not emptied; it is emptied only when the port was open.
KeepSlot(z)         == UNCHANGED zniffer
EmptySlotOfLive(z)  == zniffer' = IF Live(z) THEN [zniffer EXCEPT ![creator[z]] = None]
                                  ELSE zniffer

EmptySlot(z) == zniffer' = [zniffer EXCEPT ![creator[z]] = None]

\* Mutant: the slot is emptied whether or not the Zniffer was destroyed, as
\* by a finally.
EmptySlotAnyway(z) == EmptySlot(z) /\ refused' = refused \cup {z} /\ UNCHANGED state

\* The rejection skips the assignment: the Zniffer stays in the slot, without
\* its listeners, and with the port if it held it.
DestroyFails(z) == UNCHANGED <<zniffer, state>> /\ refused' = refused \cup {z}

\* destroy() settles.  When it resolves the command empties the slot of its
\* handler, whichever Zniffer it holds by now; when it is rejected the command
\* fails.
DestroySettles(z, ok) ==
    /\ destroying[z] > 0
    /\ destroying' = [destroying EXCEPT ![z] = @ - 1]
    /\ \/ /\ ok
          /\ state' = [state EXCEPT ![z] = "destroyed"]
          /\ EmptySlot(z)
          /\ UNCHANGED refused
       \/ ~ok /\ DestroyFails(z)
    /\ UNCHANGED <<connected, listeners, creator, initing>>

\* The connection ends: its handler receives no command any more, and keeps
\* the Zniffer.
Disconnect(c) ==
    /\ c \in connected
    /\ connected' = connected \ {c}
    /\ UNCHANGED <<zniffer, state, listeners, creator, destroying, initing, refused>>

Next ==
    \/ \E c \in Client :
          \/ \E z \in Instance : InitCommand(c, z)
          \/ StartCommand(c) \/ StopCommand(c) \/ DestroyCommand(c)
          \/ Disconnect(c)
    \/ \E z \in Instance :
          \E ok \in BOOLEAN : InitSettles(z, ok) \/ DestroySettles(z, ok)

Spec == Init /\ [][Next]_vars

\* The promises of the Zniffer settle, one way or the other.
FairSpec ==
    /\ Spec
    /\ \A z \in Instance :
          /\ WF_vars(\E ok \in BOOLEAN : InitSettles(z, ok))
          /\ WF_vars(\E ok \in BOOLEAN : DestroySettles(z, ok))

-----------------------------------------------------------------------------
(* Properties                                                               *)

\* A Zniffer a destroy command was received for forwards no event any more,
\* to anybody, even while another command for it is still awaited, and even
\* if the command has failed.
DestroyedIsSilent ==
    \A z \in Instance :
        destroying[z] > 0 \/ state[z] = "destroyed" \/ z \in refused =>
            z \notin listeners

\* A handler never keeps a Zniffer that has been destroyed, however its destroy
\* commands overlapped and whichever of them failed: "Zniffer is already
\* running" is never said of one that was destroyed.
SlotIsNotDead ==
    \A c \in Client : zniffer[c] # None => state[zniffer[c]] # "destroyed"

\* The types, and that a slot holds a Zniffer its own client has created.
TypeInvariant ==
    /\ TypeOK
    /\ \A z \in Instance : state[z] = "unused" <=> creator[z] = None
    /\ \A c \in Client : zniffer[c] # None => creator[zniffer[c]] = c

\* A destroy command ends with the slot free for another Zniffer, or with an
\* error because the Zniffer's own destroy() was rejected; also when it overlaps
\* an init that is still awaited, or the client is gone.
DestroyFreesSlot ==
    \A c \in Client, z \in Instance :
        zniffer[c] = z /\ destroying[z] > 0 ~> zniffer[c] # z \/ z \in refused

\* What the handler of a client says, "Zniffer is not running", is so: no
\* Zniffer the client has created holds the port.
NotRunningIsTrue(c) ==
    \A z \in Instance : creator[z] = c /\ Live(z) => zniffer[c] # None

\* It is so for a client that waits for the answer to destroy before it sends
\* another, whatever it does while init is awaited and whatever others do: also
\* when destroy fails, it can send it again to the Zniffer that is left.
PatientNotRunning == \A c \in Patient : NotRunningIsTrue(c)

\* It is so for every client.
EveryoneNotRunning == \A c \in Client : NotRunningIsTrue(c)

\* A Zniffer that its client still has to destroy.
Owned(z) == state[z] \in {"created", "ready", "capturing", "failed"}

\* What a patient client owns, or is destroying, is in its slot: so the slot
\* is free only when nothing is left, and the command that empties it finds
\* in it the Zniffer it was sent for.
PatientSlot ==
    \A z \in Instance : creator[z] \in Patient =>
        /\ destroying[z] <= 1
        /\ Owned(z) \/ destroying[z] > 0 => zniffer[creator[z]] = z

\* The inductive invariant.
IInv ==
    /\ TypeInvariant
    /\ \A z \in Instance : state[z] = "unused" => destroying[z] = 0 /\ z \notin refused
    /\ DestroyedIsSilent /\ SlotIsNotDead /\ PatientSlot

=============================================================================
