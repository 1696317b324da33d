SPECIFICATION ReachableSpec
INVARIANTS
    TypeOK
    BitTracksLink
    AttemptPending
PROPERTIES
    ServesInTheEnd
