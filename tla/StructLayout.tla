---------------------------- MODULE StructLayout ----------------------------
(***************************************************************************)
(* How a struct is laid out (codegen/types.rs:149-170): each field at the  *)
(* next multiple of its alignment, the whole rounded up to the largest.    *)
(* The code generator sizes payloads so, and LLVM lays structs out so, but *)
(* each with its own sizes and alignments of the fields.                   *)
(***************************************************************************)
EXTENDS Integers, Sequences

(* `n.div_ceil(align) * align`                                             *)
RoundUp(n, align) == ((n + align - 1) \div align) * align

(* Where a field ends, each at its alignment; the last is the struct's.    *)
Ends(sizes, aligns) ==
  LET end[i \in 0 .. Len(sizes)] ==
        IF i = 0 THEN 0 ELSE RoundUp(end[i - 1], aligns[i]) + sizes[i]
  IN end

Offset(sizes, aligns, i) == RoundUp(Ends(sizes, aligns)[i - 1], aligns[i])

LargestAlign(aligns) ==
  LET all == {1} \cup {aligns[i] : i \in DOMAIN aligns}
  IN CHOOSE a \in all : \A b \in all : b <= a

StructSize(sizes, aligns) ==
  RoundUp(Ends(sizes, aligns)[Len(sizes)], LargestAlign(aligns))
=============================================================================
