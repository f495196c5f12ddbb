--------------------------- MODULE EqualityTypes ---------------------------
(***************************************************************************)
(* The types that `==` compares values of, as the parameters of module     *)
(* Equality.  A record is compared field by field in the order of its row, *)
(* an enum by the fields of the variant the two values have, with the      *)
(* enum's parameters replaced by its arguments.                            *)
(***************************************************************************)
EXTENDS Unification, Equality

CONSTANT Enums  \* module.enums: of each enum its params and variants' fields

RECURSIVE RecordFields(_)
RecordFields(row) == IF row.f = "RowExt" THEN <<row.a[1]>> \o RecordFields(row.a[2]) ELSE <<>>

KindOf(t) ==
  CASE IsVar(t) -> "var"
    [] t = TFloat -> "float"
    [] t \in {TInt, TBool, TChar, TUnit, TStr} -> "scalar"
    [] OTHER -> t.f

(* The fields of a variant, with the enum's parameters replaced.           *)
EnumVariantFields(t, variant) ==
  LET params == Enums[t.n].params
      theta == [x \in ToSet(params) |-> t.a[CHOOSE i \in DOMAIN params : params[i] = x]]
      fields == Enums[t.n].variants[variant]
  IN [j \in DOMAIN fields |-> ApplyOnce(fields[j], theta)]

FieldsOf(t) == [v \in DOMAIN Enums[t.n].variants |-> EnumVariantFields(t, v)]

(* The types a helper for t compares values of, in the order it is lowered *)
PartsOf(t) ==
  CASE t.f = "List"  -> <<t.a[1]>>
    [] t.f = "Tuple" -> t.a
    [] t.f = "Rec"   -> RecordFields(t.a[1])
    [] t.f = "Enum"  -> FlattenSeq(FieldsOf(t))

(* Whether a value of type t has a NaN in it.                              *)
RECURSIVE NaNIn(_, _)
NaNIn(t, v) ==
  IF IsScalar(t) THEN IsNaN(t, v)
  ELSE LET types == CASE t.f = "List" -> <<t.a[1], t>>
                      [] t.f = "Enum" -> EnumVariantFields(t, v.n)
                      [] OTHER -> PartsOf(t)
       IN \E i \in DOMAIN v.c : NaNIn(DefaultFreeVars(types[i]), v.c[i])

-----------------------------------------------------------------------------
(* Properties *)

(***************************************************************************)
(* "a self-referential enum [resolves] to the in-progress symbol instead   *)
(* of infinitely recursing at codegen time" (equality.rs:5): the helper of *)
(* an enum that is begun within one of the same enum is for a smaller      *)
(* type, as for Tree(Tree(int)).                                           *)
(***************************************************************************)
RECURSIVE Size(_)
Size(t) == 1 + FoldLeft(+, 0, [i \in DOMAIN t.a |-> Size(t.a[i])])

RecursionDescends ==
  \A i, j \in DOMAIN pending \ {1} :
    (i < j /\ pending[i].t.f = "Enum" /\ pending[j].t.f = "Enum" /\ pending[i].t.n = pending[j].t.n)
      => Size(pending[j].t) < Size(pending[i].t)
=============================================================================
