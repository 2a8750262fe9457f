------------------------------ MODULE Inclusion ------------------------------
(***************************************************************************)
(* The dialogue a secure inclusion needs: the driver asks the user, through *)
(* the server, which security classes to grant and for the PIN of the      *)
(* device (lib/inclusion_user_callbacks.ts, lib/controller/                *)
(* message_handler.ts).                                                    *)
(*                                                                         *)
(* A question is a deferred promise.  ClientsController has one slot for   *)
(* each kind of question, shared by all clients, and an answer of any      *)
(* client resolves the promise in the slot of its kind; neither the        *)
(* question nor the answer says which inclusion it belongs to.             *)
(*                                                                         *)
(* The driver is external.  It is modelled by the contract the callbacks   *)
(* rely on: one inclusion at a time, a grant before a PIN, and a call of   *)
(* abort() whenever it stops without an answer, not necessarily in the     *)
(* same callback as the timeout that makes it stop.                        *)
(***************************************************************************)
EXTENDS Naturals

CONSTANTS
    Client,      \* sockets, never reused
    Everyone,    \* owner of an inclusion the driver began by itself
    Nobody,      \* owner of an inclusion without callbacks
    MaxPrompts   \* bound: questions asked over the whole run

ASSUME InclusionConstants ==
    /\ MaxPrompts \in Nat
    /\ Everyone \notin Client /\ Nobody \notin Client /\ Everyone # Nobody

Kind == {"grant", "pin"}

\* The n-th deferred promise is n; 0 is an empty slot.
Prompt == 0..MaxPrompts

VARIABLES
    conn,      \* Client -> "new", "connected" or "gone"
    parsing,   \* clients whose begin_inclusion waits for a QR code to be parsed
    slot,      \* Kind -> grantSecurityClassesPromise, validateDSKAndEnterPin...
    phase,     \* the driver's inclusion
    awaiting,  \* the promise the driver waits on
    owner,     \* whose callbacks the driver's inclusion uses
    issued,    \* number of promises created so far
    settled    \* the promises that have been resolved

vars == <<conn, parsing, slot, phase, awaiting, owner, issued, settled>>
driverVars == <<phase, awaiting, owner>>
promptVars == <<slot, issued, settled>>

Phase == {"idle", "including", "grant", "granted", "pin", "finishing", "aborting"}

Connected(c) == conn[c] = "connected"

TypeOK ==
    /\ conn \in [Client -> {"new", "connected", "gone"}]
    /\ parsing \subseteq Client
    /\ slot \in [Kind -> Prompt]
    /\ phase \in Phase
    /\ awaiting \in Prompt
    /\ owner \in Client \cup {Everyone, Nobody}
    /\ issued \in Prompt
    /\ settled \subseteq Prompt \ {0}

Init ==
    /\ conn = [c \in Client |-> "new"]
    /\ parsing = {}
    /\ slot = [k \in Kind |-> 0]
    /\ phase = "idle"
    /\ awaiting = 0
    /\ owner = Nobody
    /\ issued = 0
    /\ settled = {}

-----------------------------------------------------------------------------
(* Clients come and go                                                      *)

Connect(c) ==
    /\ conn[c] = "new"
    /\ conn' = [conn EXCEPT ![c] = "connected"]
    /\ UNCHANGED <<parsing, driverVars, promptVars>>

\* A client that goes leaves its questions and its running commands behind.
Leave(c) ==
    /\ Connected(c)
    /\ conn' = [conn EXCEPT ![c] = "gone"]
    /\ UNCHANGED <<parsing, driverVars, promptVars>>

-----------------------------------------------------------------------------
(* Commands                                                                 *)

\* What the driver does of beginInclusion and replaceFailedNode: it includes
\* if it is idle, and answers false otherwise.
DriverBegin(o) ==
    IF phase = "idle"
    THEN phase' = "including" /\ owner' = o /\ UNCHANGED awaiting
    ELSE UNCHANGED driverVars

\* begin_inclusion is refused while a question is open.
NoQuestionOpen == \A k \in Kind : slot[k] = 0

\* begin_inclusion with a strategy that prompts, and then the callbacks are
\* the ones of this client, or with one that does not.
BeginInclusion(c, prompts) ==
    /\ Connected(c)
    /\ NoQuestionOpen
    /\ DriverBegin(IF prompts THEN c ELSE Nobody)
    /\ UNCHANGED <<conn, parsing, promptVars>>

\* begin_inclusion with a QR code string: parsed before the driver is called,
\* other callbacks run in between.
BeginWithQRCode(c) ==
    /\ Connected(c)
    /\ NoQuestionOpen
    /\ parsing' = parsing \cup {c}
    /\ UNCHANGED <<conn, driverVars, promptVars>>

QRCodeParsed(c) ==
    /\ c \in parsing
    /\ parsing' = parsing \ {c}
    /\ DriverBegin(Nobody)
    /\ UNCHANGED <<conn, promptVars>>

\* replace_failed_node takes the same options without the guard.
ReplaceFailedNode(c, prompts) ==
    /\ Connected(c)
    /\ DriverBegin(IF prompts THEN c ELSE Nobody)
    /\ UNCHANGED <<conn, parsing, promptVars>>

\* Mutant: an answered question stays in its slot.
FinallyNothing(k) == UNCHANGED slot

\* The finally() of a promise, which runs before whoever awaits it goes on.
Finally(k) == slot' = [slot EXCEPT ![k] = 0]

Granted(k) == IF k = "grant" THEN "granted" ELSE "finishing"

\* grant_security_classes and validate_dsk_and_enter_pin: the promise in the
\* slot is resolved, its finally() empties the slot, and the driver goes on if
\* that is the promise it waits for.  Refused (~ok), it ends the bootstrap,
\* with a call of abort or without.
Answer(c, k, ok) ==
    /\ Connected(c)
    /\ slot[k] # 0
    /\ settled' = settled \cup {slot[k]}
    /\ Finally(k)
    /\ IF awaiting = slot[k]
       THEN /\ awaiting' = 0
            /\ phase' \in IF ok THEN {Granted(k)} ELSE {"finishing", "aborting"}
       ELSE UNCHANGED <<phase, awaiting>>
    /\ UNCHANGED <<conn, parsing, owner, issued>>

\* stop_inclusion, or the end of the inclusion: only when no secure bootstrap
\* is under way.
StopInclusion ==
    /\ phase \in {"including", "finishing"}
    /\ phase' = "idle"
    /\ owner' = Nobody
    /\ UNCHANGED <<conn, parsing, awaiting, promptVars>>

-----------------------------------------------------------------------------
(* The driver                                                               *)

\* An inclusion a client of the server did not ask for (SmartStart, another
\* controller): the callbacks of the driver's options, for every client.
DriverBeginsItself ==
    /\ phase = "idle"
    /\ DriverBegin(Everyone)
    /\ UNCHANGED <<conn, parsing, promptVars>>

\* Mutant: the question for the PIN is put in the slot of the grant.
TakeGrantSlot(k, n) == slot' = [slot EXCEPT !["grant"] = n]

\* A new promise takes the slot of its kind, whatever that held.
TakeSlot(k, n) == slot' = [slot EXCEPT ![k] = n]

\* The callbacks grantSecurityClasses and validateDSKAndEnterPIN, which the
\* driver then waits for.  Whom they send the question to is left out: any
\* client may answer, whether it has been asked or not.
Ask(k) ==
    /\ phase = (IF k = "grant" THEN "including" ELSE "granted")
    /\ owner # Nobody
    /\ issued < MaxPrompts
    /\ issued' = issued + 1
    /\ TakeSlot(k, issued')
    /\ awaiting' = issued'
    /\ phase' = k
    /\ UNCHANGED <<conn, parsing, owner, settled>>

\* The device or the user takes too long, the bootstrap is cancelled
\* (cancel_secure_bootstrap_s2) or fails.
GiveUp ==
    /\ phase \notin {"idle", "aborting"}
    /\ phase' = "aborting"
    /\ awaiting' = 0
    /\ UNCHANGED <<conn, parsing, owner, promptVars>>

\* Mutants: abort forgets one of the slots.
EmptyGrantSlot == slot' = [slot EXCEPT !["grant"] = 0]
EmptyPinSlot   == slot' = [slot EXCEPT !["pin"] = 0]

EmptySlots == slot' = [k \in Kind |-> 0]

\* The callback abort: both slots are emptied, no promise is settled.
Abort ==
    /\ phase = "aborting"
    /\ phase' = "idle"
    /\ owner' = Nobody
    /\ EmptySlots
    /\ UNCHANGED <<conn, parsing, awaiting, issued, settled>>

Next ==
    \/ \E c \in Client :
          \/ Connect(c) \/ Leave(c)
          \/ \E prompts \in BOOLEAN :
                BeginInclusion(c, prompts) \/ ReplaceFailedNode(c, prompts)
          \/ BeginWithQRCode(c) \/ QRCodeParsed(c)
          \/ \E k \in Kind, ok \in BOOLEAN : Answer(c, k, ok)
    \/ StopInclusion
    \/ DriverBeginsItself
    \/ \E k \in Kind : Ask(k)
    \/ GiveUp
    \/ Abort

Spec == Init /\ [][Next]_vars

\* The driver's S2 timers run, and what they abandon it reports.
FairSpec == Spec /\ WF_vars(GiveUp) /\ WF_vars(Abort)

-----------------------------------------------------------------------------
(* Properties                                                               *)

\* While the driver waits for the user, the slot of the question holds the
\* promise it waits on, still unresolved: some client can answer it.
AnswerCanArrive ==
    phase \in Kind =>
        /\ awaiting = slot[phase]
        /\ awaiting \notin settled \cup {0}

\* A slot is taken only by an inclusion that is asking or being aborted, and
\* by its latest question: when the driver is idle, begin_inclusion is not
\* refused because of an inclusion that has ended.
NoStaleQuestion ==
    \A k \in Kind : slot[k] # 0 =>
        /\ phase \in {k, "aborting"}
        /\ slot[k] = issued

\* An answer resolves the latest question asked or nothing, never the
\* question of an inclusion that has been aborted, or one already answered.
AnswersAreCurrent ==
    [][\A n \in settled' \ settled : n = issued /\ phase # "idle"]_vars

\* What makes the above inductive.
IInv ==
    /\ TypeOK
    /\ AnswerCanArrive
    /\ NoStaleQuestion
    /\ phase \notin Kind => awaiting = 0
    /\ slot["grant"] = 0 \/ slot["pin"] = 0
    /\ \A k \in Kind : slot[k] \notin settled
    /\ \A n \in settled : n <= issued

\* What Dialogue sees of the slots.
Open == IF slot["grant"] # 0 THEN slot["grant"] ELSE slot["pin"]

Asking == INSTANCE Dialogue WITH
    asked <- issued, open <- Open, waiting <- awaiting, answered <- settled

\* The two slots are one dialogue: a question is asked when none is open, and
\* answered once or withdrawn.
ImplementsDialogue == Asking!Spec

\* And every question is, even if the client it was sent to is gone.
ImplementsFairDialogue == Asking!FairSpec

=============================================================================
