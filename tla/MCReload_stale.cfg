\* Does every listener run the options stored last?
SPECIFICATION Spec
CONSTANTS
    Listeners = {l1}
    MaxEdits = 1
    MaxCalls = 1
INVARIANT
    ListenersNotified
