\* Three Zniffers: a second one after an overlapping destroy, one of the other client.
SPECIFICATION FairSpec
CONSTANTS
    Client = {c1, c2}
    Patient = {c1}
    Instance = {z1, z2, z3}
    None = None
\* When the connections are gone and every promise has settled, nothing is left.
CHECK_DEADLOCK FALSE
INVARIANTS
    IInv
    DestroyedIsSilent
    SlotIsNotDead
    PatientNotRunning
PROPERTY
    DestroyFreesSlot
