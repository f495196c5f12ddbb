------------------------------- MODULE Layout -------------------------------
(***************************************************************************)
(* Objects on the heap: cons cells, enum payloads, closure environments.   *)
(* Compiled code allocates bytes the code generator has computed and       *)
(* stores fields where LLVM lays them out; `execute` walks a list that is  *)
(* handed back by offsets of its own (codegen/types.rs, lists.rs,          *)
(* enums.rs, closures.rs, execute.rs).                                     *)
(*                                                                         *)
(* A type is a record of its kind k, "bool", "int" (also char, unit and    *)
(* float), "ptr" (strings, lists, enums), "tuple" or "rec", and its parts. *)
(***************************************************************************)
EXTENDS StructLayout, SequencesExt

CONSTANTS
  Types,         \* the types of fields, and the types those are built of
  Depth(_),      \* how deep structs are nested in a type
  Elements,      \* the types lists are built of
  Payloads,      \* the sequences of types payloads are built of
  Environments,  \* the sequences of types closures capture
  MaxCells       \* the longest list

Pointer == [k |-> "ptr", parts |-> <<>>]

(* A struct's fields are nested less deep than the struct.                 *)
ASSUME LayoutAssumption ==
  /\ \A t \in Types :
       /\ t.parts \in Seq(Types)
       /\ Depth(t) \in Nat
       /\ \A i \in DOMAIN t.parts : Depth(t.parts[i]) < Depth(t)
  /\ Pointer \in Types
  /\ Elements \subseteq Types
  /\ Payloads \subseteq Seq(Types)
  /\ Environments \subseteq Seq(Types)
  /\ MaxCells \in Nat

VARIABLES
  objects,  \* each with its kind, its fields' types, its bytes and its memory
  left,     \* how many fields of the newest object are still to be stored
  walk,     \* what execute has read of the last list: cells and tails
  reading   \* whether it still reads

vars == <<objects, left, walk, reading>>

-----------------------------------------------------------------------------
(* Sizes *)

(* monotype_align: a tuple has the largest alignment there is.             *)
MonotypeAlign[t \in Types] ==
  CASE t.k = "bool"             -> 1
    [] t.k = "int"              -> 4
    [] t.k \in {"ptr", "tuple"} -> 8
    [] OTHER -> LargestAlign([i \in DOMAIN t.parts |-> MonotypeAlign[t.parts[i]]])

MonotypeAligns(types) == [i \in DOMAIN types |-> MonotypeAlign[types[i]]]

(* monotype_size                                                           *)
MonotypeSize[t \in Types] ==
  CASE t.k = "bool" -> 1
    [] t.k = "int"  -> 4
    [] t.k = "ptr"  -> 8
    [] OTHER        -> StructSize([i \in DOMAIN t.parts |-> MonotypeSize[t.parts[i]]],
                                  MonotypeAligns(t.parts))

MonotypeSizes(types) == [i \in DOMAIN types |-> MonotypeSize[types[i]]]

(* Mutant: the 8 bytes per field types.rs:116 says were assumed once.      *)
TupleSize_Slots(types) == 8 * Len(types)

TupleSize(types) == StructSize(MonotypeSizes(types), MonotypeAligns(types))

(* The same under LLVM's data layout, of the type that lower_type gives.   *)
LLVMAlign[t \in Types] ==
  CASE t.k = "bool" -> 1
    [] t.k = "int"  -> 4
    [] t.k = "ptr"  -> 8
    [] OTHER        -> LargestAlign([i \in DOMAIN t.parts |-> LLVMAlign[t.parts[i]]])

LLVMAligns(types) == [i \in DOMAIN types |-> LLVMAlign[types[i]]]

LLVMSize[t \in Types] ==
  CASE t.k = "bool" -> 1
    [] t.k = "int"  -> 4
    [] t.k = "ptr"  -> 8
    [] OTHER        -> StructSize([i \in DOMAIN t.parts |-> LLVMSize[t.parts[i]]],
                                  LLVMAligns(t.parts))

LLVMSizes(types) == [i \in DOMAIN types |-> LLVMSize[types[i]]]

FieldAt(types, i) == Offset(LLVMSizes(types), LLVMAligns(types), i)

-----------------------------------------------------------------------------
(* Building *)

Init ==
  /\ objects = <<>>
  /\ left = 0
  /\ walk = <<>>
  /\ reading = FALSE

Newest == objects[Len(objects)]

Malloc(kind, types, bytes, tail) ==
  /\ left = 0
  /\ walk = <<>>
  /\ objects' = Append(objects, [kind |-> kind, types |-> types, bytes |-> bytes, tail |-> tail,
                                 memory |-> {}])
  /\ left' = Len(types)
  /\ UNCHANGED <<walk, reading>>

(* build_cons, onto the empty list (0) or the list built before            *)
BuildCons(t) ==
  /\ \A i \in DOMAIN objects : objects[i].kind = "cons" /\ objects[i].types[1] = t
  /\ Len(objects) < MaxCells
  /\ Malloc("cons", <<t, Pointer>>, 16, Len(objects))

(* build_payload, of the size lower_application asks for                   *)
BuildPayload(types) ==
  /\ objects = <<>>
  /\ Malloc("payload", types, TupleSize(types), 0)

(* The environment of build_closure.                                       *)
BuildEnv(types) ==
  /\ objects = <<>>
  /\ Malloc("env", types, 8 * Len(types), 0)

(* store_field: the field's bytes go to the memory from its offset on.     *)
StoreField ==
  /\ left > 0
  /\ LET i == Len(Newest.types) - left + 1
         at == FieldAt(Newest.types, i)
         size == LLVMSize[Newest.types[i]]
     IN objects' = [objects EXCEPT ![Len(objects)].memory =
          {m \in @ : m.byte \notin at .. at + size - 1}
            \cup {[byte |-> at + k, field |-> i, k |-> k] : k \in 0 .. size - 1}]
  /\ left' = left - 1
  /\ UNCHANGED <<walk, reading>>

-----------------------------------------------------------------------------
(* Reading a list back *)

ReturnList ==
  /\ objects # <<>>
  /\ left = 0
  /\ Newest.kind = "cons"
  /\ walk = <<>>
  /\ reading' = TRUE
  /\ walk' = <<Len(objects)>>
  /\ UNCHANGED <<objects, left>>

(* Mutant: the tail is where the head ends.                                *)
TailOffset_Packed == LLVMSize[objects[Last(walk)].types[1]]

(* "it always sits at offset 8" *)
TailOffset == 8

(* The bytes read are the tail pointer, whole, or no pointer at all.       *)
BytesRead(object, from) == {m \in object.memory : m.byte \in from .. from + 7}
Tail8(object) ==
  IF BytesRead(object, TailOffset) = {[byte |-> TailOffset + k, field |-> 2, k |-> k] : k \in 0 .. 7}
  THEN object.tail
  ELSE -1

FollowTail ==
  /\ reading
  /\ walk' = Append(walk, Tail8(objects[Last(walk)]))
  /\ reading' = (Last(walk') > 0)
  /\ UNCHANGED <<objects, left>>

Next ==
  \/ \E t \in Elements : BuildCons(t)
  \/ \E types \in Payloads : BuildPayload(types)
  \/ \E types \in Environments : BuildEnv(types)
  \/ StoreField
  \/ ReturnList
  \/ FollowTail

Spec == Init /\ [][Next]_vars

-----------------------------------------------------------------------------
(* Properties *)

(***************************************************************************)
(* No field is stored outside of what was allocated for it, whatever is    *)
(* nested in an enum's payload: the code generator's sizes, alignments and *)
(* order of fields never come to less than LLVM's.                         *)
(***************************************************************************)
FieldsFit ==
  \A i \in DOMAIN objects : \A m \in objects[i].memory : m.byte < objects[i].bytes

(***************************************************************************)
(* "the tail pointer is the second field of the cons-cell struct; with the *)
(* element types supported here it always sits at offset 8"                *)
(* (execute.rs:196): the walk of a returned list goes from cell to cell to *)
(* the end of the list, never through bytes that are not a tail.           *)
(***************************************************************************)
WalksTheList ==
  \A i \in DOMAIN walk : walk[i] = Len(objects) - i + 1
=============================================================================
