---------------------------- MODULE MCRegisters -----------------------------
(***************************************************************************)
(* A word of two bytes with ax and ah in it, a debug register, and     *)
(* three bytes of floating point registers: mxcsr and a vector of two.     *)
(* The kernel refuses 255 in the debug register and 15 in mxcsr.           *)
(***************************************************************************)
EXTENDS Registers

CONSTANTS Leftovers, Throws

P == INSTANCE Parse

MCRegs == {"ax", "ah", "dr", "mxcsr", "xmm"}

MCOffset == [r \in MCRegs |-> CASE r = "ax" -> 0 [] r = "ah" -> 1
                                [] r = "dr" -> 2 [] r = "mxcsr" -> 4 [] r = "xmm" -> 5]
MCSize   == [r \in MCRegs |-> IF r \in {"ax", "xmm"} THEN 2 ELSE 1]
MCFormat == [r \in MCRegs |-> IF r = "xmm" THEN "vector" ELSE "uint"]
MCFprs   == 4 .. 6
MCBytes  == 0 .. 255

MCRefused == {<<2, 255>>, <<4, 15>>}

MCValues == {[signed |-> TRUE, bytes |-> <<255>>], [signed |-> FALSE, bytes |-> <<255>>]}

MCTexts ==
    {<<>>, <<"0", "x">>, <<"x", "f">>, <<"f", "x">>, <<"f">>, <<"0", "x", "f", "f">>, <<"f", "f", "f">>, <<"0", "x", "f", "f", "f", "f", "f">>,
     <<"[", "0", "0", "f", "f", ",", "0", "x", "0", "f", "]">>,
     <<"[", "0", "x", "f", "]">>,
     <<"[", "0", "x", "0", "f", ",", "0", "x", "f", "f">>,
     <<"[", "0", "x", "0", "f", ",", "0", "x", "f", "f", "]", "f">>,
     <<"[", "0", "x", "0", "f", ",", "f", "f", "f", "f", "]">>,
     <<"[", "0", "x", "0", "f", ";", "0", "x", "f", "f", "]">>}

ParseTable == [r \in MCRegs, text \in MCTexts |->
                 P!parse_register_value(MCFormat[r], MCSize[r], text)]
MeantTable == [r \in MCRegs, text \in MCTexts |-> P!Meaning(MCFormat[r], MCSize[r], text)]

MCParsed(r, text) == ParseTable[r, text]
MCMeant(r, text)  == MeantTable[r, text]
MCSignOf(b)       == IF b < 128 THEN 0 ELSE 255
=============================================================================
