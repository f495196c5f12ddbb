------------------------------ MODULE MCLayout ------------------------------
(***************************************************************************)
(* The payloads of enums hold scalars, structs and structs in structs.     *)
(* What lists hold and closures capture is at most a pointer wide in       *)
(* Narrow; Wide has the pair of pointers of tests/codegen.rs:787,          *)
(* `[(Some(Some(42)), None)]`.                                             *)
(***************************************************************************)
EXTENDS Layout

Scalar(k) == [k |-> k, parts |-> <<>>]
Scalars == {Scalar("bool"), Scalar("int"), Scalar("ptr")}

Structs(parts) == {[k |-> k, parts |-> p] : k \in {"tuple", "rec"}, p \in parts}
UpTo(n, S) == UNION {[1 .. m -> S] : m \in 1 .. n}

Flat == Structs(UpTo(2, Scalars))
Nested == Structs({<<a, b>> : a \in Scalars, b \in Flat} \cup {<<b, a>> : a \in Scalars, b \in Flat})

Wide == {[k |-> "tuple", parts |-> <<Scalar("ptr"), Scalar("ptr")>>]}
MCTypes == Scalars \cup Flat \cup Nested

MCDepth(t) ==
  IF t \in Scalars THEN 0
  ELSE IF t \in Flat THEN 1
  ELSE 2

MCPayloads == UpTo(3, Scalars) \cup UpTo(2, Scalars \cup Flat) \cup UpTo(1, Nested)
Narrow == {t \in Scalars \cup Flat : LLVMSize[t] <= 8}
NarrowEnvironments == UpTo(2, Narrow)

Nothing == {}
=============================================================================
