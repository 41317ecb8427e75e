CONSTANTS
    Hold <- LongHold
    Close <- CloseTicks
    Pulse <- PulseTicks
    Prompt = TRUE
SPECIFICATION FairSpec
INVARIANTS TypeOK NoLostGrant RestsClosed MinimumOpening StopEndsPulses
PROPERTIES ImplementsDoor
