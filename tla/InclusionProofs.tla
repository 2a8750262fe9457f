-------------------------- MODULE InclusionProofs --------------------------
(***************************************************************************)
(* Proofs about Inclusion: whatever clients do, come and go, the driver's  *)
(* open question can be answered, an ended inclusion blocks no other, and  *)
(* answers resolve the latest question only.                               *)
(***************************************************************************)
EXTENDS Inclusion, TLAPS

USE DEF TakeSlot, Finally, EmptySlots

LEMMA ZeroIsPrompt == 0 \in Prompt
BY InclusionConstants DEF Prompt

LEMMA InitIInv == Init => IInv
BY InclusionConstants
DEF Init, IInv, TypeOK, AnswerCanArrive, NoStaleQuestion, Kind, Prompt, Phase

\* The driver's acceptance of an inclusion keeps the types and leaves the
\* phases that ask or abort alone.
LEMMA DriverBeginPhases ==
    ASSUME NEW o \in Client \cup {Everyone, Nobody}, TypeOK, DriverBegin(o)
    PROVE  /\ phase' \in Phase
           /\ owner' \in Client \cup {Everyone, Nobody}
           /\ awaiting' = awaiting
           /\ phase' = phase \/ (phase = "idle" /\ phase' = "including")
BY DEF DriverBegin, driverVars, TypeOK, Phase

\* A step that changes no question and starts at most an inclusion.
LEMMA NoQuestionChanged ==
    ASSUME IInv, TypeOK', UNCHANGED promptVars, awaiting' = awaiting,
           phase' = phase \/ (phase = "idle" /\ phase' = "including")
    PROVE  IInv'
BY DEF IInv, AnswerCanArrive, NoStaleQuestion, Kind, promptVars

LEMMA StepIInv == ASSUME IInv, [Next]_vars PROVE IInv'
<1>0. TypeOK
  BY DEF IInv
<1>1. ASSUME NEW c \in Client, Connect(c) \/ Leave(c)
      PROVE  IInv'
  <2>1. TypeOK'
    BY <1>0, <1>1 DEF Connect, Leave, TypeOK, driverVars, promptVars
  <2> QED
    BY <1>1, <2>1, NoQuestionChanged DEF Connect, Leave, driverVars
<1>2. ASSUME NEW c \in Client, NEW prompts \in BOOLEAN,
             BeginInclusion(c, prompts) \/ ReplaceFailedNode(c, prompts)
      PROVE  IInv'
  <2>1. PICK o \in Client \cup {Everyone, Nobody} : DriverBegin(o)
    BY <1>2 DEF BeginInclusion, ReplaceFailedNode
  <2>2. TypeOK'
    BY <1>0, <1>2, <2>1, DriverBeginPhases
    DEF BeginInclusion, ReplaceFailedNode, TypeOK, promptVars
  <2> QED
    BY <1>0, <1>2, <2>1, <2>2, DriverBeginPhases, NoQuestionChanged
    DEF BeginInclusion, ReplaceFailedNode
<1>3. ASSUME NEW c \in Client, BeginWithQRCode(c)
      PROVE  IInv'
  <2>1. TypeOK'
    BY <1>0, <1>3 DEF BeginWithQRCode, TypeOK, driverVars, promptVars
  <2> QED
    BY <1>3, <2>1, NoQuestionChanged DEF BeginWithQRCode, driverVars
<1>4. ASSUME NEW c \in Client, QRCodeParsed(c)
      PROVE  IInv'
  <2>1. DriverBegin(Nobody)
    BY <1>4 DEF QRCodeParsed
  <2>2. TypeOK'
    BY <1>0, <1>4, <2>1, DriverBeginPhases DEF QRCodeParsed, TypeOK, promptVars
  <2> QED
    BY <1>0, <1>4, <2>1, <2>2, DriverBeginPhases, NoQuestionChanged DEF QRCodeParsed
<1>5. ASSUME NEW c \in Client, NEW k \in Kind, NEW ok \in BOOLEAN, Answer(c, k, ok)
      PROVE  IInv'
  <2>1. slot[k] \in Prompt \ {0} /\ slot[k] = issued /\ phase \in {k, "aborting"}
    BY <1>0, <1>5 DEF Answer, IInv, NoStaleQuestion, TypeOK
  <2>2. TypeOK'
    <3>1. /\ phase' \in Phase
          /\ awaiting' \in Prompt
      BY <1>0, <1>5, ZeroIsPrompt DEF Answer, Granted, TypeOK, Phase
    <3>2. /\ slot' \in [Kind -> Prompt]
          /\ settled' \subseteq Prompt \ {0}
      BY <1>0, <1>5, <2>1, ZeroIsPrompt DEF Answer, TypeOK
    <3> QED
      BY <1>0, <1>5, <3>1, <3>2 DEF Answer, TypeOK
  <2>3. phase' \notin Kind
    BY <1>5, <2>1 DEF Answer, Granted, Kind, IInv, AnswerCanArrive
  <2>4. \A j \in Kind : slot'[j] = 0
    BY <1>0, <1>5 DEF Answer, IInv, TypeOK, Kind
  <2>5. awaiting' = 0
    BY <1>5, <2>1 DEF Answer, IInv, AnswerCanArrive, Kind
  <2>6. settled' = settled \cup {issued} /\ issued' = issued /\ issued \in Nat \ {0}
    BY <1>0, <1>5, <2>1, InclusionConstants DEF Answer, Prompt
  <2>7. 0 \notin settled' /\ \A n \in settled' : n <= issued'
    BY <1>0, <2>6 DEF IInv, TypeOK
  <2> QED
    BY <2>2, <2>3, <2>4, <2>5, <2>7
    DEF IInv, AnswerCanArrive, NoStaleQuestion, Kind
<1>6. CASE StopInclusion
  <2>1. TypeOK'
    BY <1>0, <1>6 DEF StopInclusion, TypeOK, Phase, promptVars
  <2> QED
    BY <1>6, <2>1 DEF StopInclusion, IInv, AnswerCanArrive, NoStaleQuestion,
                      Kind, promptVars
<1>7. CASE DriverBeginsItself
  <2>1. DriverBegin(Everyone)
    BY <1>7 DEF DriverBeginsItself
  <2>2. TypeOK'
    BY <1>0, <1>7, <2>1, DriverBeginPhases DEF DriverBeginsItself, TypeOK, promptVars
  <2> QED
    BY <1>0, <1>7, <2>1, <2>2, DriverBeginPhases, NoQuestionChanged
    DEF DriverBeginsItself
<1>8. ASSUME NEW k \in Kind, Ask(k)
      PROVE  IInv'
  <2>1. issued' \in Prompt \ {0} /\ issued' = issued + 1 /\ issued \in Nat
    BY <1>0, <1>8, InclusionConstants DEF Ask, TypeOK, Prompt
  <2>2. TypeOK'
    <3>1. slot' \in [Kind -> Prompt]
      BY <1>0, <1>8, <2>1 DEF Ask, TypeOK
    <3> QED
      BY <1>0, <1>8, <2>1, <3>1 DEF Ask, TypeOK, Phase, Kind
  <2>3. \A j \in Kind : slot[j] = 0
    BY <1>8 DEF Ask, IInv, NoStaleQuestion, Kind
  <2>4. /\ slot'[k] = issued'
        /\ \A j \in Kind \ {k} : slot'[j] = 0
    BY <1>0, <1>8, <2>3 DEF Ask, TypeOK
  <2>5. issued' \notin settled' /\ settled' = settled /\ 0 \notin settled
    BY <1>0, <1>8, <2>1 DEF Ask, IInv, TypeOK, Prompt
  <2>6. \A n \in settled' : n <= issued'
    BY <1>0, <2>1, <2>5, InclusionConstants DEF IInv, TypeOK, Prompt
  <2> QED
    BY <1>8, <2>1, <2>2, <2>4, <2>5, <2>6
    DEF Ask, IInv, AnswerCanArrive, NoStaleQuestion, Kind
<1>9. CASE GiveUp
  <2>1. TypeOK'
    BY <1>0, <1>9, ZeroIsPrompt DEF GiveUp, TypeOK, Phase, promptVars
  <2> QED
    BY <1>9, <2>1 DEF GiveUp, IInv, AnswerCanArrive, NoStaleQuestion, Kind,
                      promptVars
<1>10. CASE Abort
  <2>1. TypeOK'
    BY <1>0, <1>10, ZeroIsPrompt DEF Abort, TypeOK, Phase
  <2> QED
    BY <1>0, <1>10, <2>1 DEF Abort, IInv, AnswerCanArrive, NoStaleQuestion,
                      TypeOK, Kind
<1>11. CASE UNCHANGED vars
  BY <1>11 DEF vars, IInv, TypeOK, AnswerCanArrive, NoStaleQuestion
<1> QED
  BY <1>1, <1>2, <1>3, <1>4, <1>5, <1>6, <1>7, <1>8, <1>9, <1>10, <1>11 DEF Next

\* IInv is an invariant.
THEOREM InvariantHolds == Spec => []IInv
BY InitIInv, StepIInv, PTL DEF Spec

\* The question the driver waits on is always in its slot, unanswered.
THEOREM QuestionsCanBeAnswered == Spec => []AnswerCanArrive
BY InvariantHolds, PTL DEF IInv

\* No inclusion that has ended keeps a slot, and with it begin_inclusion, taken.
THEOREM EndedInclusionsLeaveNothing == Spec => []NoStaleQuestion
BY InvariantHolds, PTL DEF IInv

\* An answer resolves the question asked last, while its inclusion lasts.
THEOREM OnlyCurrentAnswers == Spec => AnswersAreCurrent
<1> DEFINE Current == \A n \in settled' \ settled : n = issued /\ phase # "idle"
<1>1. ASSUME IInv, [Next]_vars
      PROVE  [Current]_vars
  <2>1. ASSUME NEW c \in Client, NEW k \in Kind, NEW ok \in BOOLEAN, Answer(c, k, ok)
        PROVE  Current
    BY <1>1, <2>1 DEF Answer, IInv, NoStaleQuestion, Kind
  <2>2. ASSUME ~ \E c \in Client, k \in Kind, ok \in BOOLEAN : Answer(c, k, ok)
        PROVE  settled' = settled
    BY <1>1, <2>2 DEF Next, Connect, Leave, BeginInclusion,
       ReplaceFailedNode, BeginWithQRCode, QRCodeParsed, StopInclusion,
       DriverBeginsItself, Ask, GiveUp, Abort, vars, promptVars
  <2> QED
    BY <2>1, <2>2
<1> QED
  BY <1>1, InvariantHolds, PTL DEF Spec, AnswersAreCurrent

-----------------------------------------------------------------------------
(* The dialogue                                                             *)

\* Dialogue sees one question where the code has two slots.
LEMMA OneIsOpen ==
    ASSUME IInv
    PROVE  /\ \A k \in Kind : slot[k] # 0 => Open = slot[k]
           /\ Open # 0 => \E k \in Kind : slot[k] = Open
           /\ (\A k \in Kind : slot[k] = 0) => Open = 0
BY DEF IInv, Open, Kind

\* A question is open or awaited only while the driver asks or aborts.
LEMMA SilentOtherwise ==
    ASSUME IInv, phase \notin Kind
    PROVE  awaiting = 0 /\ (phase # "aborting" => Open = 0)
BY DEF IInv, NoStaleQuestion, Open, Kind

LEMMA Quiet ==
    ASSUME UNCHANGED promptVars, awaiting' = awaiting
    PROVE  [Asking!Next]_Asking!vars
BY DEF promptVars, Open, Asking!vars

LEMMA StepAsks == ASSUME IInv, IInv', [Next]_vars PROVE [Asking!Next]_Asking!vars
<1>1. ASSUME NEW c \in Client, NEW k \in Kind, NEW ok \in BOOLEAN, Answer(c, k, ok)
      PROVE  Asking!Answer
  <2>1. Open = slot[k] /\ Open # 0
    BY <1>1, OneIsOpen DEF Answer
  <2>2. awaiting' = 0
    <3>1. phase \in {k, "aborting"}
      BY <1>1 DEF Answer, IInv, NoStaleQuestion
    <3>2. awaiting \in {0, slot[k]}
      BY <1>1, <3>1 DEF IInv, AnswerCanArrive, Kind
    <3> QED
      BY <1>1, <3>2 DEF Answer
  <2>3. Open' = 0
    BY <1>1 DEF Answer, IInv, TypeOK, Open, Kind
  <2> QED
    BY <1>1, <2>1, <2>2, <2>3 DEF Answer, Asking!Answer
<1>2. ASSUME NEW k \in Kind, Ask(k)
      PROVE  Asking!Ask
  <2>1. phase \notin Kind /\ phase # "aborting"
    BY <1>2 DEF Ask, Kind
  <2>2. awaiting = 0 /\ Open = 0
    BY <2>1, SilentOtherwise
  <2>3. Open' = issued'
    <3>1. slot'[k] = issued' /\ issued' # 0
      BY <1>2, InclusionConstants DEF Ask, IInv, TypeOK, Prompt
    <3>2. \A j \in Kind : slot[j] = 0
      BY <2>1 DEF IInv, NoStaleQuestion, Kind
    <3> QED
      BY <1>2, <3>1, <3>2 DEF Ask, IInv, TypeOK, Open, Kind
  <2> QED
    BY <1>2, <2>2, <2>3 DEF Ask, Asking!Ask
<1>3. CASE GiveUp
  <2>1. Open' = Open /\ UNCHANGED <<issued, settled>> /\ awaiting' = 0
    BY <1>3 DEF GiveUp, promptVars, Open
  <2>2. CASE awaiting = 0
    BY <2>1, <2>2 DEF Asking!vars
  <2>3. CASE awaiting # 0
    BY <2>1, <2>3 DEF Asking!Next, Asking!GiveUp
  <2> QED BY <2>2, <2>3
<1>4. CASE Abort
  <2>1. awaiting = 0
    BY <1>4, SilentOtherwise DEF Abort, Kind
  <2>2. Open' = 0 /\ UNCHANGED <<issued, settled, awaiting>>
    BY <1>4 DEF Abort, Open, Kind
  <2>3. CASE Open = 0
    BY <2>2, <2>3 DEF Asking!vars
  <2>4. CASE Open # 0
    BY <2>1, <2>2, <2>4 DEF Asking!Next, Asking!Withdraw
  <2> QED BY <2>3, <2>4
<1>5. ASSUME NEW c \in Client, \/ Connect(c) \/ Leave(c)
                               \/ BeginWithQRCode(c) \/ QRCodeParsed(c)
      PROVE  [Asking!Next]_Asking!vars
  BY <1>5, Quiet DEF Connect, Leave, BeginWithQRCode, QRCodeParsed,
                     DriverBegin, driverVars
<1>6. ASSUME NEW c \in Client, NEW prompts \in BOOLEAN,
             BeginInclusion(c, prompts) \/ ReplaceFailedNode(c, prompts)
      PROVE  [Asking!Next]_Asking!vars
  <2>1. UNCHANGED promptVars /\ \E o : DriverBegin(o)
    BY <1>6 DEF BeginInclusion, ReplaceFailedNode
  <2> QED
    BY <2>1, Quiet DEF DriverBegin, driverVars
<1>7. CASE StopInclusion \/ DriverBeginsItself
  BY <1>7, Quiet DEF StopInclusion, DriverBeginsItself, DriverBegin, driverVars
<1>8. CASE UNCHANGED vars
  BY <1>8, Quiet DEF vars, promptVars
<1> QED
  BY <1>1, <1>2, <1>3, <1>4, <1>5, <1>6, <1>7, <1>8 DEF Next, Asking!Next

LEMMA InitAsks == Init => Asking!Init
BY DEF Init, Asking!Init, Open, Kind

\* Two slots that every client can write, and answers without an address, are
\* one dialogue of a driver and its user: each question is asked when no other
\* is open, and is answered once or withdrawn, for any clients and inclusions
\* (lib/inclusion_user_callbacks.ts, lib/controller/message_handler.ts).
THEOREM Implementation == Spec => ImplementsDialogue
<1>1. IInv /\ IInv' /\ [Next]_vars => [Asking!Next]_Asking!vars
  BY StepAsks
<1> QED
  BY <1>1, InitAsks, InvariantHolds, PTL DEF Spec, ImplementsDialogue, Asking!Spec

=============================================================================
