\* A device that creates a pin and then refuses to bring it into a state.
SPECIFICATION Spec
CONSTANTS
    Handles = {h1, h2, h3}
    Nil = Nil
    MaxAttempts = 2
INVARIANT FallbackIsOpen
CHECK_DEADLOCK FALSE
