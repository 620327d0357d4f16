SPECIFICATION FairSpec
CONSTANTS
    first = first
    other = other
    garbled = garbled
    dated = dated
    one = one
    two = two
    Messages = {first, other, garbled, dated}
    Transcripts = {one, two}
    Unreadable = Unreadable
    About <- AboutThem
    Dated = {dated}
    MaxMessages = 2
    MaxFaults = 2
    MaxExpiries = 1
    MaxCrashes = 1
INVARIANT TypeOK
INVARIANT AckedIsStaged
PROPERTY UnreadableIsDropped
PROPERTY ImplementsInbox
