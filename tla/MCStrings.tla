------------------------------ MODULE MCStrings ------------------------------
(***************************************************************************)
(* Small programs over strings.  Bytes are 0 .. 3; a character may be      *)
(* wider than a byte (5, which is cut to 1) and one (4) is cut to the      *)
(* terminator.  The line buffer holds three bytes and its terminator.      *)
(***************************************************************************)
EXTENDS Strings

MCChars == {4, 5}
MCLiterals == {<<>>, <<3, 1>>}
MCInputs == {<<1, 2, 3, 2>>, <<1, 0, 1, 3>>}

(* Two lines, for the readings that should follow one another.             *)
TwoLines == {<<1, 2, 3, 2>>}
=============================================================================
