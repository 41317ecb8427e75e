CONSTANTS
    Hold <- LongHold
    Close <- CloseTicks
    Pulse <- PulseTicks
    Prompt = TRUE
SPECIFICATION Spec
INVARIANT StopIsNotLost
