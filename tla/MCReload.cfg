\* Two listeners start while the operator edits the file and asks for reloads.
SPECIFICATION FairSpec
CONSTANTS
    Listeners = {l1, l2}
    MaxEdits = 2
    MaxCalls = 1
INVARIANTS
    TypeOK
    NoReloadLost
PROPERTIES
    ConfigForward
    ReloadReaches
