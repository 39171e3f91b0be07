\* Does a listener that starts after a reload authenticate?
SPECIFICATION Spec
CONSTANTS
    Listeners = {l1}
    MaxEdits = 1
    MaxCalls = 1
INVARIANT
    AuthKept
