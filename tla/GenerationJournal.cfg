\* Three calls at a time on a file that is compacted at three lines.
SPECIFICATION JournalSpec
CONSTANTS
    Caller = {c1, c2, c3}
    Torn = Torn
    Legacy <- MCLegacy
    CompactAt = 3
    MaxLines = 4
    RecoveryMax = 5
    MaxReserved = 3
SYMMETRY Callers
INVARIANTS
    JournalRecovers
PROPERTIES
    RecordSpec
