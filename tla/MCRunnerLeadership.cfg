SPECIFICATION Spec
CONSTANTS
    Holders = {h1, h2}
    LeaseTerm = 2
    MaxFencingToken = 2
    MaxTime = 3
    None = None
SYMMETRY HolderSymmetry
INVARIANTS
    TypeOK
    UnexpiredLeaseIsCurrent
    UnexpiredWriterIsLeader
    StoppedIsQuiet
PROPERTIES
    AuthorityNeverRegresses
