------------------------------- MODULE Strings -------------------------------
(***************************************************************************)
(* The builtins of Merlin that loop over memory: `tochars`, `fromchars`,   *)
(* `readin` and `+` on strings.  The code generator emits them as MLIR;    *)
(* an action is what one iteration of an emitted loop, one level of the    *)
(* recursion or one call of libc does when the compiled program runs.      *)
(*                                                                         *)
(* A string is a buffer of bytes that ends at its first NUL.  A list is    *)
(* null or the address of a cell `{ head, tail }`.  What malloc returns    *)
(* holds Junk until it is written.                                         *)
(***************************************************************************)
EXTENDS Integers, Sequences

CONSTANTS
  Radix,       \* bytes are 0 .. Radix - 1 (256 in the code)
  NewLine,     \* the byte `readin` stops at
  BufferSize,  \* what `readin` allocates (1024 in the code)
  Chars,       \* the i32 values of character literals
  Literals,    \* the string literals of the program
  Inputs,      \* what there may be on standard input
  MaxStrings,  \* bounds: no literal is made beyond so many strings,
  MaxCells,    \* no cell by `::` beyond so many cells,
  MaxCalls,    \* no builtin called after so many calls
  Junk         \* the content of memory not yet written

Byte == 0 .. Radix - 1
Null == 0

ASSUME StringsAssumption ==
  /\ Radix \in Nat \ {0}
  /\ NewLine \in Byte \ {0}
  /\ BufferSize \in Nat \ {0}
  /\ Chars \subseteq Nat
  /\ Literals \subseteq Seq(Byte)
  /\ Inputs \subseteq Seq(Byte)
  /\ MaxStrings \in Nat
  /\ MaxCells \in Nat
  /\ MaxCalls \in Nat
  /\ Junk \notin Nat

VARIABLES
  strs,    \* the finished strings; a string value is an index
  cells,   \* the cons cells; a list value is an index or Null
  lists,   \* (history) of each list made the addresses of its cells, in order
  input,   \* all that will ever be on standard input
  taken,   \* how many bytes of it have been read
  pc,      \* where the running builtin is
  args,    \* its arguments
  ptr,     \* the list pointer its loop carries
  n,       \* the counter or offset its loop carries
  len,     \* the length `fromchars` has counted
  buf,     \* the buffer it has allocated
  frames,  \* the bytes the pending calls of `tochars` have loaded
  path,    \* (history) the addresses of the cells it has built
  log      \* (history) the calls that have returned

vars == <<strs, cells, lists, input, taken, pc, args, ptr, n, len,
          buf, frames, path, log>>

program == <<strs, cells, lists, log>>
stdin == <<input, taken>>
loop == <<ptr, n, len, frames, path>>

Cell == [head : Nat, tail : Nat]

Operations == {"fromchars", "tochars", "+", "readin"}

(* Mutant: the i32 is stored as it is.                                     *)
Trunc_Wide(c) == c

Trunc(c) == c % Radix

(***************************************************************************)
(* The k-th cell of a list, which is null behind the last one.             *)
(***************************************************************************)
Pointer(addresses, k) == IF k \in 1 .. Len(addresses) THEN addresses[k] ELSE Null

Fresh(size) == [i \in 1 .. size |-> Junk]

(***************************************************************************)
(* strlen and strcspn: how many bytes come before the first that ends the  *)
(* string.                                                                 *)
(***************************************************************************)
FirstOf(b, Ends) == CHOOSE k \in 0 .. Len(b) - 1 :
                      b[k + 1] \in Ends /\ \A i \in 1 .. k : b[i] \notin Ends
StrLen(b) == FirstOf(b, {0})
CString(b) == SubSeq(b, 1, StrLen(b))

Terminated(b) == \E k \in 1 .. Len(b) : b[k] = 0 /\ \A i \in 1 .. k : b[i] \in Byte

(***************************************************************************)
(* A store through a pointer into `buf`: outside of what was allocated the *)
(* behaviour is undefined.                                                 *)
(***************************************************************************)
Fits(offset, bytes) == offset + Len(bytes) <= Len(buf)

Written(offset, bytes) ==
  [i \in 1 .. Len(buf) |->
     IF i - offset \in 1 .. Len(bytes) THEN bytes[i - offset] ELSE buf[i]]

Store(offset, bytes, next) ==
  /\ buf' = Written(offset, bytes)
  /\ pc' = IF Fits(offset, bytes) THEN next ELSE "fault"

(***************************************************************************)
(* A builtin ends: its registers are gone.  Those that make a string end   *)
(* with a store of the terminator.                                         *)
(***************************************************************************)
LeaveFrame ==
  /\ args' = <<>>
  /\ ptr' = Null
  /\ n' = 0
  /\ len' = 0
  /\ buf' = <<>>
  /\ frames' = <<>>
  /\ path' = <<>>

ReturnString(op, offset, bytes) ==
  /\ strs' = Append(strs, Written(offset, bytes))
  /\ log' = Append(log, [op |-> op, args |-> args, result |-> Len(strs) + 1])
  /\ pc' = IF Fits(offset, bytes) THEN "idle" ELSE "fault"
  /\ LeaveFrame
  /\ UNCHANGED <<cells, lists, stdin>>

-----------------------------------------------------------------------------
Init ==
  /\ strs = <<>>
  /\ cells = <<>>
  /\ lists = << <<>> >>
  /\ input \in Inputs
  /\ taken = 0
  /\ pc = "idle"
  /\ args = <<>>
  /\ ptr = Null
  /\ n = 0
  /\ len = 0
  /\ buf = <<>>
  /\ frames = <<>>
  /\ path = <<>>
  /\ log = <<>>

(***************************************************************************)
(* What the program does itself: string literals and `c :: l`.  The empty  *)
(* list is there from the start.                                           *)
(***************************************************************************)
StringLiteral(bytes) ==
  /\ pc = "idle"
  /\ Len(strs) < MaxStrings
  /\ strs' = Append(strs, Append(bytes, 0))
  /\ UNCHANGED <<cells, lists, stdin, pc, args, loop, buf, log>>

ConsChar(c, l) ==
  /\ pc = "idle"
  /\ Len(cells) < MaxCells
  /\ cells' = Append(cells, [head |-> c, tail |-> Pointer(lists[l], 1)])
  /\ lists' = Append(lists, <<Len(cells) + 1>> \o lists[l])
  /\ UNCHANGED <<strs, stdin, pc, args, loop, buf, log>>

-----------------------------------------------------------------------------
(***************************************************************************)
(* `fromchars`: count the list, allocate, fill, terminate.                 *)
(***************************************************************************)
FromChars(l) ==
  /\ pc = "idle"
  /\ Len(log) < MaxCalls
  /\ args' = <<l>>
  /\ ptr' = Pointer(lists[l], 1)
  /\ n' = 0
  /\ pc' = "count"
  /\ UNCHANGED <<program, stdin, len, buf, frames, path>>

Count ==
  /\ pc = "count"
  /\ ptr # Null
  /\ ptr' = cells[ptr].tail
  /\ n' = n + 1
  /\ UNCHANGED <<program, stdin, pc, args, len, buf, frames, path>>

(* Mutant: no room for the terminator.                                     *)
AllocateString_Exact ==
  /\ pc = "count"
  /\ ptr = Null
  /\ len' = n
  /\ buf' = Fresh(n)
  /\ ptr' = Pointer(lists[args[1]], 1)
  /\ n' = 0
  /\ pc' = "fill"
  /\ UNCHANGED <<program, stdin, args, frames, path>>

AllocateString ==
  /\ pc = "count"
  /\ ptr = Null
  /\ len' = n
  /\ buf' = Fresh(n + 1)
  /\ ptr' = Pointer(lists[args[1]], 1)
  /\ n' = 0
  /\ pc' = "fill"
  /\ UNCHANGED <<program, stdin, args, frames, path>>

Fill ==
  /\ pc = "fill"
  /\ ptr # Null
  /\ Store(n, <<Trunc(cells[ptr].head)>>, "fill")
  /\ ptr' = cells[ptr].tail
  /\ n' = n + 1
  /\ UNCHANGED <<program, stdin, args, len, frames, path>>

TerminateString ==
  /\ pc = "fill"
  /\ ptr = Null
  /\ ReturnString("fromchars", len, <<0>>)

-----------------------------------------------------------------------------
(***************************************************************************)
(* `tochars` calls itself on the rest of the string before it allocates    *)
(* the cell, so that the last byte's cell is the first.                    *)
(***************************************************************************)
ToChars(s) ==
  /\ pc = "idle"
  /\ Len(log) < MaxCalls
  /\ args' = <<s>>
  /\ frames' = <<>>
  /\ pc' = "scan"
  /\ UNCHANGED <<program, stdin, ptr, n, len, buf, path>>

Here == Len(frames) + 1

Descend ==
  /\ pc = "scan"
  /\ IF Here \in DOMAIN strs[args[1]]
     THEN /\ strs[args[1]][Here] # 0
          /\ frames' = Append(frames, strs[args[1]][Here])
          /\ pc' = pc
     ELSE /\ frames' = frames
          /\ pc' = "fault"
  /\ UNCHANGED <<program, stdin, args, ptr, n, len, buf, path>>

Bottom ==
  /\ pc = "scan"
  /\ Here \in DOMAIN strs[args[1]]
  /\ strs[args[1]][Here] = 0
  /\ ptr' = Null
  /\ path' = <<>>
  /\ pc' = "build"
  /\ UNCHANGED <<program, stdin, args, n, len, buf, frames>>

(* Mutant: the first byte gets the last cell.                              *)
BuildCell_InReverse ==
  /\ pc = "build"
  /\ frames # <<>>
  /\ cells' = Append(cells, [head |-> frames[1], tail |-> ptr])
  /\ ptr' = Len(cells) + 1
  /\ path' = <<Len(cells) + 1>> \o path
  /\ frames' = Tail(frames)
  /\ UNCHANGED <<strs, lists, log, stdin, pc, args, n, len, buf>>

BuildCell ==
  /\ pc = "build"
  /\ frames # <<>>
  /\ cells' = Append(cells, [head |-> frames[Len(frames)], tail |-> ptr])
  /\ ptr' = Len(cells) + 1
  /\ path' = <<Len(cells) + 1>> \o path
  /\ frames' = SubSeq(frames, 1, Len(frames) - 1)
  /\ UNCHANGED <<strs, lists, log, stdin, pc, args, n, len, buf>>

ReturnList ==
  /\ pc = "build"
  /\ frames = <<>>
  /\ lists' = Append(lists, path)
  /\ log' = Append(log, [op |-> "tochars", args |-> args, result |-> Len(lists) + 1])
  /\ pc' = "idle"
  /\ LeaveFrame
  /\ UNCHANGED <<strs, cells, stdin>>

-----------------------------------------------------------------------------
(***************************************************************************)
(* `s + t`: the calls of strlen and malloc, then strcpy, then strcat, each *)
(* of which writes the terminator too.                                     *)
(***************************************************************************)
Concat(s, t) ==
  /\ pc = "idle"
  /\ Len(log) < MaxCalls
  /\ args' = <<s, t>>
  /\ buf' = Fresh(StrLen(strs[s]) + StrLen(strs[t]) + 1)
  /\ pc' = "strcpy"
  /\ UNCHANGED <<program, stdin, loop>>

CopyFirst ==
  /\ pc = "strcpy"
  /\ Store(0, Append(CString(strs[args[1]]), 0), "strcat")
  /\ UNCHANGED <<program, stdin, args, loop>>

(* Mutant: the terminator of the second string is not copied.              *)
AppendSecond_NotItsEnd ==
  /\ pc = "strcat"
  /\ ReturnString("+", StrLen(buf), CString(strs[args[2]]))

(* Mutant: strcpy where strcat is meant.                                   *)
AppendSecond_AtStart ==
  /\ pc = "strcat"
  /\ ReturnString("+", 0, Append(CString(strs[args[2]]), 0))

AppendSecond ==
  /\ pc = "strcat"
  /\ ReturnString("+", StrLen(buf), Append(CString(strs[args[2]]), 0))

-----------------------------------------------------------------------------
(***************************************************************************)
(* `readin`.  The read is external: it gives some of the bytes there are,  *)
(* at most as many as asked for and none at the end or after an error,     *)
(* whose -1 the code takes for 0.                                          *)
(***************************************************************************)
ReadIn ==
  /\ pc = "idle"
  /\ Len(log) < MaxCalls
  /\ buf' = Fresh(BufferSize)
  /\ pc' = "read"
  /\ UNCHANGED <<program, stdin, args, loop>>

Asked == BufferSize - 1

(* Mutant: a read that gives nothing is tried again.                       *)
Read_Retries(k) ==
  /\ pc = "read"
  /\ k \in 1 .. Asked
  /\ Store(0, SubSeq(input, taken + 1, taken + k), "cut")
  /\ n' = k
  /\ args' = <<taken, k>>
  /\ taken' = taken + k
  /\ UNCHANGED <<program, input, ptr, len, frames, path>>

Read(k) ==
  /\ pc = "read"
  /\ k <= Asked
  /\ Store(0, SubSeq(input, taken + 1, taken + k), "cut")
  /\ n' = k
  /\ args' = <<taken, k>>
  /\ taken' = taken + k
  /\ UNCHANGED <<program, input, ptr, len, frames, path>>

CutAtRead ==
  /\ pc = "cut"
  /\ Store(n, <<0>>, "strip")
  /\ UNCHANGED <<program, stdin, args, loop>>

(* Mutant: the line keeps its newline.                                     *)
StripNewLine_AtEnd ==
  /\ pc = "strip"
  /\ ReturnString("readin", StrLen(buf), <<0>>)

StripNewLine ==
  /\ pc = "strip"
  /\ ReturnString("readin", FirstOf(buf, {0, NewLine}), <<0>>)

-----------------------------------------------------------------------------
Program ==
  \/ \E bytes \in Literals : StringLiteral(bytes)
  \/ \E c \in Chars : \E l \in 1 .. Len(lists) : ConsChar(c, l)
  \/ \E l \in 1 .. Len(lists) : FromChars(l)
  \/ \E s \in 1 .. Len(strs) : ToChars(s)
  \/ \E s, t \in 1 .. Len(strs) : Concat(s, t)
  \/ ReadIn

Builtin ==
  \/ Count \/ AllocateString \/ Fill \/ TerminateString
  \/ Descend \/ Bottom \/ BuildCell \/ ReturnList
  \/ CopyFirst \/ AppendSecond
  \/ \E k \in 0 .. Len(input) - taken : Read(k)
  \/ CutAtRead \/ StripNewLine

Next == Program \/ Builtin

Spec == Init /\ [][Next]_vars /\ WF_vars(Builtin)
-----------------------------------------------------------------------------
(***************************************************************************)
(* The type invariant.                                                     *)
(***************************************************************************)
TypeOK ==
  /\ strs \in Seq(Seq(Byte \cup {Junk}))
  /\ cells \in Seq(Cell)
  /\ lists \in Seq(Seq(Nat))
  /\ input \in Seq(Byte)
  /\ taken \in 0 .. Len(input)
  /\ pc \in {"idle", "count", "fill", "scan", "build", "strcpy", "strcat", "read",
            "cut", "strip", "fault"}
  /\ args \in Seq(Nat)
  /\ ptr \in Nat
  /\ n \in Nat
  /\ len \in Nat
  /\ buf \in Seq(Byte \cup {Junk})
  /\ frames \in Seq(Byte)
  /\ path \in Seq(Nat)
  /\ log \in Seq([op : Operations, args : Seq(Nat), result : Nat])

(***************************************************************************)
(* No builtin reads or writes a byte outside of what was allocated: the    *)
(* two passes of `fromchars` agree, the terminator has room, a full read   *)
(* leaves a byte for it, and the scan of `tochars` stops in time.          *)
(***************************************************************************)
MemorySafe == pc # "fault"

(***************************************************************************)
(* Every string handed to the program ends inside its buffer, with no byte *)
(* before the end that was never written, so that strlen, strcmp and the   *)
(* next builtin may walk it.                                               *)
(***************************************************************************)
StringsEnd == \A s \in 1 .. Len(strs) : Terminated(strs[s])

Returned(op) == {r \in {log[i] : i \in 1 .. Len(log)} : r.op = op}

CharsOf(l) == [k \in 1 .. Len(lists[l]) |-> cells[lists[l][k]].head]

(***************************************************************************)
(* `fromchars` copies every char of the list, truncated to a byte, in      *)
(* order and nothing more, however often the list is shared; `tochars`     *)
(* makes a list of the bytes before the end.                               *)
(***************************************************************************)
CopiesChars ==
  /\ \A r \in Returned("fromchars") :
       LET chars == CharsOf(r.args[1])
       IN  strs[r.result] = Append([k \in 1 .. Len(chars) |-> Trunc(chars[k])], 0)
  /\ \A r \in Returned("tochars") : CharsOf(r.result) = CString(strs[r.args[1]])

(***************************************************************************)
(* `fromchars (tochars s) == s` for every string (the test                 *)
(* tochars_fromchars_roundtrip): a consequence of CopiesChars.             *)
(***************************************************************************)
RoundTrip ==
  \A there \in Returned("tochars"), back \in Returned("fromchars") :
    back.args[1] = there.result =>
      CString(strs[back.result]) = CString(strs[there.args[1]])

(***************************************************************************)
(* `+` is concatenation, also of a string with itself and of the empty     *)
(* string.                                                                 *)
(***************************************************************************)
Concatenates ==
  \A r \in Returned("+") :
    CString(strs[r.result]) = CString(strs[r.args[1]]) \o CString(strs[r.args[2]])

(***************************************************************************)
(* Where in the input the reads among the first i calls have come to.      *)
(***************************************************************************)
IsRead(i) == log[i].op = "readin"

EndsAt(i, at) ==
  /\ (\A j \in 1 .. i : ~ IsRead(j)) => at = 0
  /\ \A j \in 1 .. i :
       IsRead(j) /\ (\A k \in j + 1 .. i : ~ IsRead(k)) =>
         at = log[j].args[1] + log[j].args[2]

(***************************************************************************)
(* A line is the first of the `count` bytes of the input behind `at`: it   *)
(* goes up to a newline, a NUL or the last of them.                        *)
(***************************************************************************)
IsFirstLine(line, at, count) ==
  /\ Len(line) <= count
  /\ line = SubSeq(input, at + 1, at + Len(line))
  /\ Len(line) < count => input[at + Len(line) + 1] \in {0, NewLine}
  /\ \A k \in 1 .. Len(line) : line[k] \notin {0, NewLine}

(***************************************************************************)
(* What `readin` returns is the first line of what one read gave it, and   *)
(* the reads follow one another in the input: no byte is seen twice.       *)
(***************************************************************************)
ReadsInOrder ==
  \A i \in 1 .. Len(log) :
    IsRead(i) =>
      /\ EndsAt(i - 1, log[i].args[1])
      /\ IsFirstLine(CString(strs[log[i].result]), log[i].args[1], log[i].args[2])

(***************************************************************************)
(* "Reads one line from stdin" (stmt.rs:850): what the next `readin`       *)
(* returns begins behind the line the one before returned and its newline. *)
(***************************************************************************)
LinesFollow ==
  \A i, j \in 1 .. Len(log) :
    LET end == log[i].args[1] + Len(CString(strs[log[i].result]))
    IN  i < j /\ IsRead(i) /\ IsRead(j) /\ (\A k \in i + 1 .. j - 1 : ~ IsRead(k)) =>
          log[j].args[1] = IF end < Len(input) /\ input[end + 1] = NewLine
                           THEN end + 1 ELSE end

(***************************************************************************)
(* Every builtin returns: lists are finite and strings end.                *)
(***************************************************************************)
BuiltinsReturn == pc # "idle" ~> pc = "idle"
=============================================================================
