\* A drive that takes no inhibit, only 1 (older firmware), or both.
SPECIFICATION FairSpec
CONSTANTS
    None = None
    Firmwares = {{}, {1}, {1, 2}}
INVARIANTS
    ProtectionIsKnown
    ConfirmedModePersists
PROPERTIES
    ModeIsWrittenToKeep
    ProtectionReturns
