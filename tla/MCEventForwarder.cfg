\* Two clients, either side of the version that brought "driver ready".
SPECIFICATION Spec
CONSTANTS
    Client = {c1, c2}
    Node = {n1}
    Value = {v1, v2}
    LogConfig = {l1, l2}
    Version = {39, 40}
    MaxResets = 1
SYMMETRY Symmetries
INVARIANTS
    IInv
    PictureIsCurrent
    LogConfigIsCurrent
    StaleClientsAreTold
    BoundOnce
    OneFormForEveryVersion
