---------------------- MODULE MCHardwareStoppoints ----------------------
(***************************************************************************)
(* Hardware breakpoint sites and watchpoints for the model checker.        *)
(***************************************************************************)
EXTENDS HardwareStoppoints, TLC

CONSTANTS h1, h2, h3, w1, w2, w3, a, b, c, k

\* Two sites, one at an address of the kernel's, a watchpoint on data, one of a size the code
\* cannot encode, and one for execution; w2 and w3 share the address of the site h2.
SixPoints    == {h1, h2, h3, w1, w2, w3}
SixAddresses == h1 :> a @@ h2 :> b @@ h3 :> k @@ w1 :> c @@ w2 :> b @@ w3 :> b
SixModes     == h1 :> "execute" @@ h2 :> "execute" @@ h3 :> "execute" @@ w1 :> "read_write"
                @@ w2 :> "write" @@ w3 :> "execute"
OddSizes     == h1 :> 1 @@ h2 :> 1 @@ h3 :> 1 @@ w1 :> 4 @@ w2 :> 3 @@ w3 :> 1

\* The watchpoint for execution has 8 bytes.
WideSizes    == [OddSizes EXCEPT ![w3] = 8]
=============================================================================
