----------------------------- MODULE MCLogFormat -----------------------------
(* Every format of up to five characters over one letter and %, with up to *)
(* two values: a number, or a string of two or no characters.              *)
EXTENDS LogFormat

CONSTANTS x, num, c1, c2

MCChar     == {x}
MCElement  == {num, c1, c2}
MCFormats  == UNION {[1 .. n -> {x, Percent}] : n \in 0 .. 5}
MCArgLists == UNION {[1 .. n -> {<<num>>, <<c1, c2>>, <<>>}] : n \in 0 .. 2}

=============================================================================
