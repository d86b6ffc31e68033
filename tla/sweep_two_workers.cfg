CONSTANTS
    w1 = w1  w2 = w2  c1 = c1  c2 = c2  c3 = c3  d1 = d1  d2 = d2
    alice = alice  bob = bob  None = None
    Workers = {w1, w2}
    Cards = {c1, c2}
    Digests = {d1, d2}
    Image <- SharedImage
    Users = {alice, bob}
    Owner <- TwoUsers
    Retention = TRUE
    MaxFaults = 0
    MaxCrashes = 0
SPECIFICATION Spec
INVARIANTS
    ReferencedImagesExist
CHECK_DEADLOCK FALSE
