----------------------------- MODULE MCSession ------------------------------
(***************************************************************************)
(* Two instructions, the first an int3 of the program's own, an address of *)
(* code where nothing is mapped and that no debug register takes, and a    *)
(* word of data, with nothing after it; the second instruction is not      *)
(* aligned to the size 3, which the debug registers cannot say; two debug  *)
(* registers.                                                              *)
(***************************************************************************)
EXTENDS Session

CONSTANT Failed, Throws, Unfit

P == INSTANCE Parse WITH Leftovers <- {0}

MCCatchLists == {{"write"}, {"write", "nosuch"}, {"1", "12ab"}}

MCWordOf(w) ==
    CASE w = "write" -> 1 [] w = "1" -> 1 [] w = "999" -> 999
      [] w = "nosuch" -> Unknown [] w = "12ab" -> NoNumber

MCVectorTexts ==
    {<<"[", "0", "x", "0", "1", "]">>, <<"[", "0", "x", "1", "]">>,
     <<"[", "0", "x", "0", "1">>, <<"[", "]">>,
     <<"[", "0", "x", "0", "1", ",", "0", "x", "0", "0", "]">>,
     <<"[", "0", "x", "0", "0", ",", "]">>}

\* A word of memory stands for a byte of the vector.
BytesTable ==
    [text \in MCVectorTexts |->
        {CASE r = Throws -> NoNumber [] r = Failed -> NoFormat
           [] OTHER -> r : r \in P!parse_vector(text)}]

MCBytesOf(text) == BytesTable[text]

\* No action reads what was printed last, and the properties about it are of steps; without a
\* tracee nothing depends on its memory or on the policy, and nothing follows a crash.
MCView ==
    CASE phase \in {"prompt", "running"} -> <<phase, points, next_id, force, shown, mem, policy>>
      [] phase = "gone"    -> <<phase, points, next_id, force, shown>>
      [] phase = "crashed" -> <<phase>>
=============================================================================
