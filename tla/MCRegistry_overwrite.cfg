SPECIFICATION Spec
CONSTANTS
    A = A
    B = B
    C = C
    a0 = a0
    a1 = a1
    a2 = a2
    b1 = b1
    b2 = b2
    c1 = c1
    c2 = c2
    Name = {A, B}
    Channel = {latest, staging}
    Latest = latest
    Body = {a0, a1, b1}
    NameOf <- BodyNames
    Refs <- Calls
    Accepted <- Fits
    Client = {x, y}
    MaxVersion = 4
    MaxRequests = 3
PROPERTY VersionsAreImmutable
CHECK_DEADLOCK FALSE
