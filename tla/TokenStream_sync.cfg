SPECIFICATION Spec

CONSTANTS
    c1 = c1
    c2 = c2
    Client <- TwoClients
    MaxDeltas = 3
    MaxAttach = 5

SYMMETRY ClientSymmetry

INVARIANTS
    InSync

PROPERTIES
    OnlyFirstTokenLate

\* The deltas and the attachments are bounded.
CHECK_DEADLOCK FALSE
