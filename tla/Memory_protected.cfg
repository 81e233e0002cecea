CONSTANTS
    Size = 6
    Word = 2
    Page = 3
    ReadablePages = {0}
    PokeablePages = {0, 1}
    Bytes = {B, Int3, Zero}
    B = B
    Int3 = Int3
    Zero = Zero
    SiteAddrs = {1, 2}
    MaxLength = 3
    None = None
SPECIFICATION Spec
INVARIANT ReadsBack
