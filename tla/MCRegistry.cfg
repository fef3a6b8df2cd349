SPECIFICATION FairSpec
CONSTANTS
    A = A
    B = B
    C = C
    a0 = a0
    a1 = a1
    a2 = a2
    b1 = b1
    b2 = b2
    c1 = c1
    c2 = c2
    Name = {A, B, C}
    Channel = {latest, staging}
    Latest = latest
    Body = {a1, a2, b1, b2, c1, c2}
    NameOf <- BodyNames
    Refs <- Calls
    Accepted <- Fits
    Client = {x}
    MaxVersion = 4
    MaxRequests = 3
INVARIANTS EveryReferenceResolves ChildrenAcceptInput ChannelAfterRequest
PROPERTIES VersionsAreImmutable RequestsEnd
CHECK_DEADLOCK FALSE
