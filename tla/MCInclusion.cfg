\* Three questions: a whole dialogue and the next one, or three aborted ones.
SPECIFICATION FairSpec
CONSTANTS
    Client = {c1, c2}
    Everyone = Everyone
    Nobody = Nobody
    MaxPrompts = 3
INVARIANTS
    AnswerCanArrive
    NoStaleQuestion
    IInv
PROPERTIES
    AnswersAreCurrent
    ImplementsDialogue
    ImplementsFairDialogue
