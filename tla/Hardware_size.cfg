CONSTANTS
    NumSlots = 2
    h1 = h1
    h2 = h2
    h3 = h3
    w1 = w1
    w2 = w2
    w3 = w3
    a = a
    b = b
    c = c
    k = k
    Points <- SixPoints
    Watches = {w1, w2, w3}
    AddressOf <- SixAddresses
    ModeOf <- SixModes
    SizeOf <- WideSizes
    Code = {a, b}
    Refused = {k}
    None = None
SPECIFICATION Spec
INVARIANT ExecuteSizeIsOne
