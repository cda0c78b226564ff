SPECIFICATION RelaySpec
CONSTANTS
    s1 = s1
    MaxTurns = 2
    MaxOut = 2
    MaxLag = 1
    Stops = {s1}
    MaxFaults = 1
INVARIANTS TranscriptInOrder NothingVanishes NoGhost FenceIsAimed OfflineShown ShownIsStored
CHECK_DEADLOCK FALSE
