SPECIFICATION LocationSpec
CONSTANTS
    Eoats = {e1, e2}
    Machines = {m1, m2, m3}
    m1 = m1
    m2 = m2
    m3 = m3
    Number <- MCNumber
    MaxDay = 1
    MaxWrites = 4
    MaxAudits = 2
SYMMETRY Symmetry
INVARIANTS LastMoveShown TwoShownOnlyByAudit
