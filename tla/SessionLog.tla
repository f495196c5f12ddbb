----------------------------- MODULE SessionLog -----------------------------
(***************************************************************************)
(* What a session promises about what it keeps, whatever it does with it:  *)
(* a log of statements that only ever grows, by a whole line at a time,    *)
(* and that is a well-typed program at every moment.                       *)
(***************************************************************************)
EXTENDS Sequences

CONSTANTS
  Lines,     \* what a line can hold: sequences of statements
  WellTyped  \* the well-typed programs

VARIABLES open, log

vars == <<open, log>>

Init == ~open /\ log = <<>>

\* The session starts with a program, or with nothing.
Open == ~open /\ open' /\ log' \in WellTyped \cup {<<>>}

\* A line is kept, all of it.
Accept(line) ==
  /\ open /\ UNCHANGED open
  /\ log' = log \o line
  /\ log' \in WellTyped

Next == Open \/ \E line \in Lines : Accept(line)

Spec == Init /\ [][Next]_vars
=============================================================================
