----------------------------- MODULE LayoutProofs -----------------------------
(***************************************************************************)
(* Padding never makes up for a field that is too small: laid out with     *)
(* sizes and alignments that are at least as large, a struct is at least   *)
(* as large.  That is why the bytes the code generator asks for hold the   *)
(* struct LLVM lays out, although it gives every tuple an alignment of 8.  *)
(***************************************************************************)
EXTENDS Layout, SequenceTheorems, WellFoundedInduction, TLAPS

Alignments == {1, 2, 4, 8}

LEMMA RoundUpNat ==
  ASSUME NEW n \in Nat, NEW a \in Alignments
  PROVE  RoundUp(n, a) \in Nat /\ RoundUp(n, a) >= n
<1>1. CASE a = 1
  BY <1>1, SMT DEF RoundUp
<1>2. CASE a = 2
  BY <1>2, SMT DEF RoundUp
<1>3. CASE a = 4
  BY <1>3, SMT DEF RoundUp
<1>4. CASE a = 8
  BY <1>4, SMT DEF RoundUp
<1> QED  BY <1>1, <1>2, <1>3, <1>4 DEF Alignments

(* A larger end, rounded up to a larger alignment, is larger.              *)
LEMMA RoundUpMonotone ==
  ASSUME NEW m \in Nat, NEW n \in Nat, m <= n,
         NEW a \in Alignments, NEW b \in Alignments, a <= b
  PROVE  RoundUp(m, a) <= RoundUp(n, b)
<1>1. CASE a = 1
  <2>1. CASE b = 1  BY <1>1, <2>1, SMT DEF RoundUp
  <2>2. CASE b = 2  BY <1>1, <2>2, SMT DEF RoundUp
  <2>3. CASE b = 4  BY <1>1, <2>3, SMT DEF RoundUp
  <2>4. CASE b = 8  BY <1>1, <2>4, SMT DEF RoundUp
  <2> QED  BY <2>1, <2>2, <2>3, <2>4 DEF Alignments
<1>2. CASE a = 2
  <2>2. CASE b = 2  BY <1>2, <2>2, SMT DEF RoundUp
  <2>3. CASE b = 4  BY <1>2, <2>3, SMT DEF RoundUp
  <2>4. CASE b = 8  BY <1>2, <2>4, SMT DEF RoundUp
  <2> QED  BY <1>2, <2>2, <2>3, <2>4 DEF Alignments
<1>3. CASE a = 4
  <2>3. CASE b = 4  BY <1>3, <2>3, SMT DEF RoundUp
  <2>4. CASE b = 8  BY <1>3, <2>4, SMT DEF RoundUp
  <2> QED  BY <1>3, <2>3, <2>4 DEF Alignments
<1>4. CASE a = 8
  <2>4. b = 8  BY <1>4 DEF Alignments
  <2> QED  BY <1>4, <2>4, SMT DEF RoundUp
<1> QED  BY <1>1, <1>2, <1>3, <1>4 DEF Alignments

-----------------------------------------------------------------------------
(* The recursive function Ends exists and has values in Nat: there is no   *)
(* first field up to which it could not be defined.                        *)

LessThan == {pair \in Nat \X Nat : pair[1] < pair[2]}

LEMMA Least ==
  ASSUME NEW T \in SUBSET Nat, T # {}
  PROVE  \E m \in T : \A k \in T : m <= k
<1>1. IsWellFoundedOn(LessThan, Nat)
  BY NatLessThanWellFounded DEF OpToRel, LessThan
<1>2. PICK m \in T : \A k \in T : <<k, m>> \notin LessThan
  BY <1>1, WFMin
<1>3. ASSUME NEW k \in T PROVE m <= k
  <2>1. <<k, m>> \in Nat \X Nat
    OBVIOUS
  <2>2. ~ (k < m)
    BY <1>2, <2>1 DEF LessThan
  <2> QED
    BY <2>2
<1> QED
  BY <1>3

EndAfter(sizes, aligns, end, i) ==
  IF i = 0 THEN 0 ELSE RoundUp(end[i - 1], aligns[i]) + sizes[i]

LEMMA EndsExist ==
  ASSUME NEW sizes \in Seq(Nat), NEW aligns \in Seq(Alignments), Len(sizes) = Len(aligns)
  PROVE  \E end \in [0 .. Len(sizes) -> Nat] :
           \A i \in 0 .. Len(sizes) : end[i] = EndAfter(sizes, aligns, end, i)
<1> DEFINE n == Len(sizes)
           Fns == [0 .. n -> Nat]
           UpTo(end, k) == \A i \in 0 .. k : end[i] = EndAfter(sizes, aligns, end, i)
           Undefined == {k \in 0 .. n : ~ \E end \in Fns : UpTo(end, k)}
<1>1. n \in Nat
  OBVIOUS
<1>2. 0 \notin Undefined
  <2> DEFINE zero == [i \in 0 .. n |-> 0]
  <2>1. zero \in Fns /\ UpTo(zero, 0)
    BY <1>1 DEF EndAfter
  <2> HIDE DEF zero
  <2> QED
    BY <2>1
<1>3. ASSUME NEW k \in 0 .. n, k + 1 \in 0 .. n, k \notin Undefined
      PROVE  k + 1 \notin Undefined
  <2>1. PICK end \in Fns : UpTo(end, k)
    BY <1>3
  <2> DEFINE v == RoundUp(end[k], aligns[k + 1]) + sizes[k + 1]
             longer == [end EXCEPT ![k + 1] = v]
  <2>2. v \in Nat
    <3>1. k + 1 \in 1 .. n
      BY <1>1, <1>3
    <3>2. aligns[k + 1] \in Alignments /\ sizes[k + 1] \in Nat
      BY <3>1
    <3>3. end[k] \in Nat
      OBVIOUS
    <3>4. RoundUp(end[k], aligns[k + 1]) \in Nat
      BY <3>2, <3>3, RoundUpNat
    <3> QED
      BY <3>2, <3>4
  <2>3. longer \in Fns
    BY <2>2
  <2>4. ASSUME NEW i \in 0 .. k + 1
        PROVE  longer[i] = EndAfter(sizes, aligns, longer, i)
    <3>1. CASE i = k + 1
      <4>1. longer[i] = v /\ longer[i - 1] = end[k] /\ i # 0 /\ i - 1 = k
        BY <3>1, <1>1, <1>3
      <4> QED
        BY <4>1, <3>1 DEF EndAfter
    <3>2. CASE i # k + 1
      <4>1. i \in 0 .. k
        BY <3>2, <1>1
      <4>2. longer[i] = end[i] /\ (i # 0 => longer[i - 1] = end[i - 1])
        BY <4>1, <1>1, <1>3
      <4>3. end[i] = EndAfter(sizes, aligns, end, i)
        BY <2>1, <4>1
      <4> HIDE DEF longer
      <4> QED
        BY <4>2, <4>3 DEF EndAfter
    <3> QED
      BY <3>1, <3>2
  <2> HIDE DEF longer
  <2> QED
    BY <2>3, <2>4
<1>4. Undefined = {}
  <2> SUFFICES ASSUME Undefined # {} PROVE FALSE
    OBVIOUS
  <2>1. PICK m \in Undefined : \A k \in Undefined : m <= k
    <3>1. Undefined \in SUBSET Nat
      BY <1>1
    <3> HIDE DEF Undefined
    <3> QED
      BY <3>1, Least
  <2>2. m \in 0 .. n /\ m # 0
    BY <1>2
  <2>3. m - 1 \in 0 .. n /\ (m - 1) + 1 = m
    BY <2>2, <1>1
  <2>4. m - 1 \notin Undefined
    <3> HIDE DEF Undefined
    <3> QED
      BY <2>1, <2>2, <2>3
  <2> HIDE DEF Undefined
  <2> QED
    BY <1>3, <2>2, <2>3, <2>4
<1>5. n \notin Undefined
  BY <1>4
<1> QED
  BY <1>1, <1>5

LEMMA EndsEquation ==
  ASSUME NEW sizes \in Seq(Nat), NEW aligns \in Seq(Alignments), Len(sizes) = Len(aligns)
  PROVE  /\ Ends(sizes, aligns) \in [0 .. Len(sizes) -> Nat]
         /\ \A i \in 0 .. Len(sizes) :
              Ends(sizes, aligns)[i] = EndAfter(sizes, aligns, Ends(sizes, aligns), i)
<1> DEFINE Fixed(f) == f = [i \in 0 .. Len(sizes) |->
                              IF i = 0 THEN 0 ELSE RoundUp(f[i - 1], aligns[i]) + sizes[i]]
<1>1. PICK end \in [0 .. Len(sizes) -> Nat] :
           \A i \in 0 .. Len(sizes) : end[i] = EndAfter(sizes, aligns, end, i)
  BY EndsExist
<1>2. Fixed(end)
  BY <1>1 DEF EndAfter
<1>3. Ends(sizes, aligns) = CHOOSE f : Fixed(f)
  BY DEF Ends
<1>4. Fixed(Ends(sizes, aligns))
  <2> HIDE DEF Fixed
  <2> QED
    BY <1>2, <1>3
<1> DEFINE g == Ends(sizes, aligns)
           n == Len(sizes)
<1>n. n \in Nat
  OBVIOUS
<1>5. g = [i \in 0 .. n |-> IF i = 0 THEN 0 ELSE RoundUp(g[i - 1], aligns[i]) + sizes[i]]
  <2> HIDE DEF g
  <2>1. Fixed(g)
    BY <1>4 DEF g
  <2> QED
    BY <2>1
<1> HIDE DEF g, Fixed
<1>6. \A i \in 0 .. n : g[i] = EndAfter(sizes, aligns, g, i)
  BY <1>5 DEF EndAfter
<1>7. \A i \in 0 .. n : g[i] \in Nat
  <2> DEFINE Bad == {i \in 0 .. n : g[i] \notin Nat}
  <2> SUFFICES ASSUME Bad # {} PROVE FALSE
    OBVIOUS
  <2>1. PICK m \in Bad : \A k \in Bad : m <= k
    <3>1. Bad \in SUBSET Nat
      BY <1>n
    <3> HIDE DEF Bad
    <3> QED
      BY <3>1, Least
  <2>2. CASE m = 0
    <3>1. 0 \in 0 .. n /\ g[0] \notin Nat
      BY <2>2, <1>n
    <3>2. g[0] = 0
      BY <3>1, <1>6 DEF EndAfter
    <3> QED
      BY <3>1, <3>2
  <2>3. CASE m # 0
    <3>1. m \in 1 .. n /\ m - 1 \in 0 .. n /\ m - 1 < m
      BY <2>3, <1>n
    <3>2. g[m - 1] \in Nat
      BY <2>1, <3>1
    <3>3. aligns[m] \in Alignments /\ sizes[m] \in Nat
      BY <3>1
    <3>4. g[m] = RoundUp(g[m - 1], aligns[m]) + sizes[m]
      BY <1>6, <2>3 DEF EndAfter
    <3>5. RoundUp(g[m - 1], aligns[m]) \in Nat
      BY <3>2, <3>3, RoundUpNat
    <3> QED
      BY <3>3, <3>4, <3>5
  <2> QED
    BY <2>2, <2>3
<1>8. g \in [0 .. n -> Nat]
  <2>1. DOMAIN g = 0 .. n /\ g = [i \in DOMAIN g |-> g[i]]
    BY <1>5
  <2> QED
    BY <2>1, <1>7
<1> QED
  BY <1>6, <1>8 DEF g

(* Field by field, what is laid out with larger sizes ends later.          *)
LEMMA EndsMonotone ==
  ASSUME NEW sizes \in Seq(Nat), NEW aligns \in Seq(Alignments),
         NEW wide \in Seq(Nat), NEW strict \in Seq(Alignments),
         Len(aligns) = Len(sizes), Len(wide) = Len(sizes), Len(strict) = Len(sizes),
         \A i \in 1 .. Len(sizes) : sizes[i] <= wide[i] /\ aligns[i] <= strict[i]
  PROVE  \A i \in 0 .. Len(sizes) : Ends(sizes, aligns)[i] <= Ends(wide, strict)[i]
<1> DEFINE n == Len(sizes)
           f == Ends(sizes, aligns)
           g == Ends(wide, strict)
           Bad == {i \in 0 .. n : ~(f[i] <= g[i])}
<1>1. n \in Nat
  OBVIOUS
<1>2. f \in [0 .. n -> Nat] /\ \A i \in 0 .. n : f[i] = EndAfter(sizes, aligns, f, i)
  BY EndsEquation
<1>3. g \in [0 .. n -> Nat] /\ \A i \in 0 .. n : g[i] = EndAfter(wide, strict, g, i)
  BY EndsEquation
<1> HIDE DEF f, g
<1> SUFFICES ASSUME Bad # {} PROVE FALSE
  BY DEF f, g
<1>4. PICK m \in Bad : \A k \in Bad : m <= k
  <2>1. Bad \in SUBSET Nat
    BY <1>1
  <2> HIDE DEF Bad
  <2> QED
    BY <2>1, Least
<1>5. CASE m = 0
  BY <1>5, <1>1, <1>2, <1>3 DEF EndAfter
<1>6. CASE m # 0
  <2>1. m \in 1 .. n /\ m - 1 \in 0 .. n /\ m - 1 < m
    BY <1>6, <1>1
  <2>2. f[m - 1] <= g[m - 1] /\ f[m - 1] \in Nat /\ g[m - 1] \in Nat
    <3>1. m - 1 \notin Bad
      <4> HIDE DEF Bad
      <4> QED
        BY <1>4, <2>1
    <3> QED
      BY <3>1, <2>1, <1>2, <1>3
  <2>3. aligns[m] \in Alignments /\ strict[m] \in Alignments /\ aligns[m] <= strict[m]
    BY <2>1
  <2>4. sizes[m] \in Nat /\ wide[m] \in Nat /\ sizes[m] <= wide[m]
    BY <2>1
  <2>5. RoundUp(f[m - 1], aligns[m]) <= RoundUp(g[m - 1], strict[m])
    BY <2>2, <2>3, RoundUpMonotone
  <2>6. RoundUp(f[m - 1], aligns[m]) \in Nat /\ RoundUp(g[m - 1], strict[m]) \in Nat
    BY <2>2, <2>3, RoundUpNat
  <2>7. f[m] = RoundUp(f[m - 1], aligns[m]) + sizes[m]
    BY <1>2, <1>6, <2>1 DEF EndAfter
  <2>8. g[m] = RoundUp(g[m - 1], strict[m]) + wide[m]
    BY <1>3, <1>6, <2>1 DEF EndAfter
  <2>9. f[m] <= g[m]
    BY <2>4, <2>5, <2>6, <2>7, <2>8, SMTT(30)
  <2> QED
    BY <2>9
<1> QED
  BY <1>5, <1>6

(* The largest alignment is one of the fields', or 1.                      *)
LEMMA LargestAlignIs ==
  ASSUME NEW aligns \in Seq(Alignments)
  PROVE  /\ LargestAlign(aligns) \in {1} \cup {aligns[i] : i \in DOMAIN aligns}
         /\ LargestAlign(aligns) \in Alignments
         /\ 1 <= LargestAlign(aligns)
         /\ \A i \in DOMAIN aligns : aligns[i] <= LargestAlign(aligns)
<1> DEFINE all == {1} \cup {aligns[i] : i \in DOMAIN aligns}
           Is(a) == a \in all /\ \A b \in all : b <= a
<1>1. all \in SUBSET Alignments /\ 1 \in all
  BY DEF Alignments
<1>2. \E a \in all : \A b \in all : b <= a
  <2> HIDE DEF all
  <2>0. \A b \in all : b = 1 \/ b = 2 \/ b = 4 \/ b = 8
    BY <1>1 DEF Alignments
  <2>1. CASE 8 \in all
    <3>1. \A b \in all : b <= 8
      BY <2>0, <2>1
    <3> QED
      BY <3>1, <2>1
  <2>2. CASE 8 \notin all /\ 4 \in all
    <3>1. \A b \in all : b <= 4
      BY <2>0, <2>2
    <3> QED
      BY <3>1, <2>2
  <2>3. CASE 8 \notin all /\ 4 \notin all /\ 2 \in all
    <3>1. \A b \in all : b <= 2
      BY <2>0, <2>3
    <3> QED
      BY <3>1, <2>3
  <2>4. CASE 8 \notin all /\ 4 \notin all /\ 2 \notin all
    <3>1. \A b \in all : b <= 1
      BY <2>0, <2>4
    <3> QED
      BY <3>1, <2>4, <1>1
  <2> QED
    BY <2>1, <2>2, <2>3, <2>4
<1>3. LargestAlign(aligns) \in all /\ \A b \in all : b <= LargestAlign(aligns)
  <2>1. LargestAlign(aligns) = CHOOSE a \in all : \A b \in all : b <= a
    BY DEF LargestAlign
  <2> HIDE DEF all
  <2> QED
    BY <1>2, <2>1
<1> QED
  BY <1>1, <1>3

(* Stricter alignments of the fields make no laxer one of the struct.      *)
LEMMA LargestAlignMonotone ==
  ASSUME NEW aligns \in Seq(Alignments), NEW strict \in Seq(Alignments),
         Len(strict) = Len(aligns), \A i \in 1 .. Len(aligns) : aligns[i] <= strict[i]
  PROVE  LargestAlign(aligns) <= LargestAlign(strict)
<1>1. CASE LargestAlign(aligns) = 1
  BY <1>1, LargestAlignIs
<1>2. CASE \E i \in DOMAIN aligns : LargestAlign(aligns) = aligns[i]
  <2>1. PICK i \in DOMAIN aligns : LargestAlign(aligns) = aligns[i]
    BY <1>2
  <2>2. i \in 1 .. Len(aligns) /\ i \in DOMAIN strict
    OBVIOUS
  <2>3. aligns[i] <= strict[i] /\ strict[i] <= LargestAlign(strict)
    BY <2>2, LargestAlignIs
  <2>4. aligns[i] \in Nat /\ strict[i] \in Nat /\ LargestAlign(strict) \in Nat
    <3>1. aligns[i] \in Alignments /\ strict[i] \in Alignments /\ LargestAlign(strict) \in Alignments
      BY <2>2, LargestAlignIs
    <3>2. Alignments \in SUBSET Nat
      BY DEF Alignments
    <3> QED
      BY <3>1, <3>2
  <2> QED
    BY <2>1, <2>3, <2>4
<1> QED
  BY <1>1, <1>2, LargestAlignIs

(***************************************************************************)
(* tuple_size never asks for too few bytes: a struct laid out with sizes   *)
(* and alignments of its fields that are nowhere smaller than LLVM's is    *)
(* nowhere smaller than LLVM's struct, however many fields it has.         *)
(***************************************************************************)
THEOREM StructSizeMonotone ==
  ASSUME NEW sizes \in Seq(Nat), NEW aligns \in Seq(Alignments),
         NEW wide \in Seq(Nat), NEW strict \in Seq(Alignments),
         Len(aligns) = Len(sizes), Len(wide) = Len(sizes), Len(strict) = Len(sizes),
         \A i \in 1 .. Len(sizes) : sizes[i] <= wide[i] /\ aligns[i] <= strict[i]
  PROVE  StructSize(sizes, aligns) <= StructSize(wide, strict)
<1>1. LargestAlign(aligns) <= LargestAlign(strict)
  BY LargestAlignMonotone
<1>2. /\ Ends(sizes, aligns)[Len(sizes)] \in Nat
      /\ Ends(wide, strict)[Len(wide)] \in Nat
  BY EndsEquation
<1>3. Ends(sizes, aligns)[Len(sizes)] <= Ends(wide, strict)[Len(wide)]
  <2>1. Len(sizes) \in 0 .. Len(sizes)
    OBVIOUS
  <2> QED
    BY <2>1, EndsMonotone
<1>4. LargestAlign(aligns) \in Alignments /\ LargestAlign(strict) \in Alignments
  BY LargestAlignIs
<1> QED
  BY <1>1, <1>2, <1>3, <1>4, RoundUpMonotone DEF StructSize

(* No field ends behind one that comes after it.                           *)
LEMMA EndsGrow ==
  ASSUME NEW sizes \in Seq(Nat), NEW aligns \in Seq(Alignments), Len(sizes) = Len(aligns),
         NEW i \in 0 .. Len(sizes)
  PROVE  Ends(sizes, aligns)[i] <= Ends(sizes, aligns)[Len(sizes)]
<1> DEFINE n == Len(sizes)
           f == Ends(sizes, aligns)
           Bad == {k \in Nat : k <= n /\ ~(f[n - k] <= f[n])}
<1>1. n \in Nat /\ i \in 0 .. n
  OBVIOUS
<1>2. f \in [0 .. n -> Nat] /\ \A j \in 0 .. n : f[j] = EndAfter(sizes, aligns, f, j)
  BY EndsEquation
<1>a. \A j \in 1 .. n : aligns[j] \in Alignments /\ sizes[j] \in Nat
  OBVIOUS
<1> HIDE DEF f, n
<1>b. \A j \in 0 .. n : f[j] \in Nat
  BY <1>2
<1>c. \A j \in 1 .. n : f[j] = RoundUp(f[j - 1], aligns[j]) + sizes[j]
  <2> SUFFICES ASSUME NEW j \in 1 .. n PROVE f[j] = RoundUp(f[j - 1], aligns[j]) + sizes[j]
    OBVIOUS
  <2>1. j \in 0 .. n /\ j # 0
    BY <1>1
  <2> QED
    BY <2>1, <1>2 DEF EndAfter
<1>3. Bad = {}
  <2> SUFFICES ASSUME Bad # {} PROVE FALSE
    OBVIOUS
  <2>1. PICK m \in Bad : \A k \in Bad : m <= k
    <3>1. Bad \in SUBSET Nat
      OBVIOUS
    <3> HIDE DEF Bad
    <3> QED
      BY <3>1, Least
  <2>2. m \in Nat /\ m <= n /\ ~(f[n - m] <= f[n])
    OBVIOUS
  <2>3. m # 0
    <3>1. f[n] \in Nat /\ n - 0 = n
      BY <1>1, <1>b
    <3> QED
      BY <2>2, <3>1
  <2>4. m - 1 \notin Bad
    <3>1. m - 1 < m
      BY <2>2, <2>3
    <3> HIDE DEF Bad
    <3> QED
      BY <2>1, <2>2, <3>1
  <2>5. f[n - (m - 1)] <= f[n]
    BY <2>2, <2>3, <2>4, <1>1
  <2> DEFINE j == n - (m - 1)
  <2>6. j \in 1 .. n /\ j - 1 = n - m /\ j - 1 \in 0 .. n
    BY <2>2, <2>3, <1>1
  <2>7. aligns[j] \in Alignments /\ sizes[j] \in Nat
    BY <2>6, <1>a
  <2>8. f[j] = RoundUp(f[j - 1], aligns[j]) + sizes[j] /\ f[j - 1] \in Nat
    <3> HIDE DEF j
    <3> QED
      BY <2>6, <1>b, <1>c
  <2>9. RoundUp(f[j - 1], aligns[j]) \in Nat /\ RoundUp(f[j - 1], aligns[j]) >= f[j - 1]
    BY <2>7, <2>8, RoundUpNat
  <2>10. f[n - m] <= f[n]
    <3>1. f[j] \in Nat /\ f[n] \in Nat /\ f[j - 1] = f[n - m] /\ f[j] <= f[n]
      <4>1. j \in 0 .. n /\ n \in 0 .. n /\ f[j] <= f[n]
        BY <2>5, <2>6, <1>1
      <4> HIDE DEF j
      <4> QED
        BY <4>1, <2>6, <1>b
    <3> HIDE DEF j
    <3> QED
      BY <2>7, <2>8, <2>9, <3>1, SMTT(30)
  <2> QED
    BY <2>2, <2>10
<1>4. n - i \notin Bad /\ n - i \in Nat /\ n - i <= n /\ n - (n - i) = i
  <2>1. n - i \in Nat /\ n - i <= n /\ n - (n - i) = i
    BY <1>1
  <2> HIDE DEF Bad
  <2> QED
    BY <1>3, <2>1
<1>5. f[i] <= f[n]
  BY <1>4
<1> QED
  BY <1>5 DEF f, n

(***************************************************************************)
(* A field stored where LLVM puts it ends within the bytes tuple_size asks *)
(* for: what FieldsFit checks of payloads, for any number of fields.       *)
(***************************************************************************)
THEOREM StoresFit ==
  ASSUME NEW sizes \in Seq(Nat), NEW aligns \in Seq(Alignments),
         NEW wide \in Seq(Nat), NEW strict \in Seq(Alignments),
         Len(aligns) = Len(sizes), Len(wide) = Len(sizes), Len(strict) = Len(sizes),
         \A i \in 1 .. Len(sizes) : sizes[i] <= wide[i] /\ aligns[i] <= strict[i],
         NEW i \in 1 .. Len(sizes)
  PROVE  Offset(sizes, aligns, i) + sizes[i] <= StructSize(wide, strict)
<1> DEFINE f == Ends(sizes, aligns)
           n == Len(sizes)
<1>1. f \in [0 .. n -> Nat] /\ \A j \in 0 .. n : f[j] = EndAfter(sizes, aligns, f, j)
  BY EndsEquation
<1>2. i \in 0 .. n /\ i # 0 /\ n \in 0 .. n
  OBVIOUS
<1>3. Offset(sizes, aligns, i) + sizes[i] = f[i]
  BY <1>1, <1>2 DEF Offset, EndAfter
<1>4. f[i] <= f[n]
  BY <1>2, EndsGrow
<1>5. f[n] <= StructSize(sizes, aligns) /\ StructSize(sizes, aligns) \in Nat
  BY <1>1, <1>2, LargestAlignIs, RoundUpNat DEF StructSize
<1>6. StructSize(sizes, aligns) <= StructSize(wide, strict)
  BY StructSizeMonotone
<1>7. StructSize(wide, strict) \in Nat
  <2>1. Ends(wide, strict)[Len(wide)] \in Nat
    BY EndsEquation
  <2> QED
    BY <2>1, LargestAlignIs, RoundUpNat DEF StructSize
<1>8. f[i] \in Nat /\ f[n] \in Nat
  BY <1>1, <1>2
<1> HIDE DEF f, n
<1> QED
  BY <1>3, <1>4, <1>5, <1>6, <1>7, <1>8

-----------------------------------------------------------------------------
(* Types are nested to some depth: what holds of a type whenever it holds  *)
(* of its parts holds of all types, and a function that is defined from    *)
(* its values for the parts exists.                                        *)

LEMMA PartsAreTypes ==
  ASSUME NEW t \in Types
  PROVE  /\ t.parts \in Seq(Types) /\ Depth(t) \in Nat
         /\ \A i \in DOMAIN t.parts : /\ t.parts[i] \in Types
                                      /\ Depth(t.parts[i]) \in Nat
                                      /\ Depth(t.parts[i]) < Depth(t)
<1>1. /\ t.parts \in Seq(Types) /\ Depth(t) \in Nat
      /\ \A i \in DOMAIN t.parts : Depth(t.parts[i]) < Depth(t)
  BY LayoutAssumption
<1>2. \A i \in DOMAIN t.parts : t.parts[i] \in Types
  BY <1>1
<1>3. \A u \in Types : Depth(u) \in Nat
  BY LayoutAssumption
<1> QED
  BY <1>1, <1>2, <1>3

LEMMA TypeInduction ==
  ASSUME NEW Good,
         \A t \in Types : (\A i \in DOMAIN t.parts : t.parts[i] \in Good) => t \in Good
  PROVE  Types \subseteq Good
<1> DEFINE Depths == {n \in Nat : \E t \in Types : t \notin Good /\ Depth(t) = n}
<1>1. SUFFICES ASSUME Depths # {} PROVE FALSE
  <2>1. \A t \in Types : Depth(t) \in Nat
    BY PartsAreTypes
  <2> QED
    BY <2>1
<1>2. PICK n \in Depths : \A k \in Depths : n <= k
  <2>1. Depths \in SUBSET Nat
    OBVIOUS
  <2> HIDE DEF Depths
  <2> QED
    BY <1>1, <2>1, Least
<1>3. PICK t \in Types : t \notin Good /\ Depth(t) = n
  OBVIOUS
<1>4. PICK i \in DOMAIN t.parts : t.parts[i] \notin Good
  BY <1>3
<1>5. t.parts[i] \in Types /\ Depth(t.parts[i]) \in Nat /\ Depth(t.parts[i]) < n
  BY <1>3, PartsAreTypes
<1>6. Depth(t.parts[i]) \in Depths
  BY <1>4, <1>5
<1>7. n <= Depth(t.parts[i]) /\ n \in Nat
  BY <1>2, <1>6
<1> QED
  BY <1>5, <1>7

Steps(S) == [[Types -> S] \X Types -> S]

(* A step that looks at a function's values for a type's parts only.       *)
FromParts(step, S) ==
  \A f, g \in [Types -> S] : \A t \in Types :
    (\A i \in DOMAIN t.parts : f[t.parts[i]] = g[t.parts[i]])
      => step[<<f, t>>] = step[<<g, t>>]

Follows(f, step) == \A t \in Types : f[t] = step[<<f, t>>]

LEMMA RecursionOverTypes ==
  ASSUME NEW S, NEW zero \in S, NEW step \in Steps(S), FromParts(step, S)
  PROVE  \E f \in [Types -> S] : Follows(f, step)
<1> DEFINE Fns == [Types -> S]
           UpTo(f, n) == \A t \in Types : Depth(t) < n => f[t] = step[<<f, t>>]
<1> USE DEF Steps, FromParts, Follows
<1>0. \A t \in Types : Depth(t) \in Nat
  BY PartsAreTypes
<1>1. \A n \in Nat : \E f \in Fns : UpTo(f, n)
  <2> DEFINE Bad == {n \in Nat : ~ \E f \in Fns : UpTo(f, n)}
  <2> SUFFICES ASSUME Bad # {} PROVE FALSE
    OBVIOUS
  <2>1. PICK m \in Bad : \A k \in Bad : m <= k
    <3>1. Bad \in SUBSET Nat
      OBVIOUS
    <3> HIDE DEF Bad
    <3> QED
      BY <3>1, Least
  <2>0. m \in Nat
    OBVIOUS
  <2>2. m # 0
    <3> DEFINE none == [t \in Types |-> zero]
    <3>1. none \in Fns /\ \A t \in Types : ~(Depth(t) < 0)
      BY <1>0
    <3> HIDE DEF none
    <3> QED
      BY <3>1
  <2>3. m - 1 \in Nat /\ m - 1 < m /\ m - 1 \notin Bad
    <3>1. m - 1 \in Nat /\ m - 1 < m
      BY <2>0, <2>2
    <3> HIDE DEF Bad
    <3>2. m - 1 \in Bad => m <= m - 1
      BY <2>1
    <3> QED
      BY <2>0, <3>1, <3>2
  <2>4. PICK f \in Fns : UpTo(f, m - 1)
    BY <2>3
  <2> DEFINE g == [t \in Types |-> step[<<f, t>>]]
  <2>5. g \in Fns /\ \A t \in Types : g[t] = step[<<f, t>>]
    OBVIOUS
  <2> HIDE DEF g
  <2>6. ASSUME NEW t \in Types, Depth(t) < m
        PROVE  g[t] = step[<<g, t>>]
    <3>1. \A i \in DOMAIN t.parts : g[t.parts[i]] = f[t.parts[i]]
      <4> SUFFICES ASSUME NEW i \in DOMAIN t.parts PROVE g[t.parts[i]] = f[t.parts[i]]
        OBVIOUS
      <4>1. t.parts[i] \in Types /\ Depth(t.parts[i]) \in Nat /\ Depth(t.parts[i]) < Depth(t)
        BY PartsAreTypes
      <4>2. Depth(t.parts[i]) < m - 1
        BY <4>1, <2>6, <1>0
      <4> QED
        BY <4>1, <4>2, <2>4, <2>5
    <3>2. step[<<g, t>>] = step[<<f, t>>]
      BY <3>1, <2>5
    <3> QED
      BY <3>2, <2>5
  <2>7. UpTo(g, m)
    BY <2>6
  <2> QED
    BY <2>5, <2>7
<1>2. ASSUME NEW f \in Fns, NEW g \in Fns, NEW n \in Nat, UpTo(f, n), UpTo(g, n)
      PROVE  \A t \in Types : Depth(t) < n => f[t] = g[t]
  <2> DEFINE Good == {t \in Types : Depth(t) < n => f[t] = g[t]}
  <2>1. ASSUME NEW t \in Types, \A i \in DOMAIN t.parts : t.parts[i] \in Good
        PROVE  t \in Good
    <3> SUFFICES ASSUME Depth(t) < n PROVE f[t] = g[t]
      OBVIOUS
    <3>1. \A i \in DOMAIN t.parts : f[t.parts[i]] = g[t.parts[i]]
      <4> SUFFICES ASSUME NEW i \in DOMAIN t.parts PROVE f[t.parts[i]] = g[t.parts[i]]
        OBVIOUS
      <4>1. Depth(t.parts[i]) \in Nat /\ Depth(t.parts[i]) < Depth(t)
        BY PartsAreTypes
      <4>2. Depth(t.parts[i]) < n
        BY <4>1, <1>0
      <4> QED
        BY <4>2, <2>1
    <3>2. step[<<f, t>>] = step[<<g, t>>]
      BY <3>1
    <3> QED
      BY <3>2, <1>2
  <2>2. Types \subseteq Good
    <3> HIDE DEF Good
    <3> QED
      BY <2>1, TypeInduction
  <2> QED
    BY <2>2
<1> DEFINE at == [n \in Nat |-> CHOOSE f \in Fns : UpTo(f, n)]
           limit == [t \in Types |-> at[Depth(t) + 1][t]]
<1>3. ASSUME NEW n \in Nat PROVE at[n] \in Fns /\ UpTo(at[n], n)
  <2>1. at[n] = CHOOSE f \in Fns : UpTo(f, n)
    OBVIOUS
  <2> HIDE DEF UpTo, at, Fns
  <2> QED
    BY <1>1, <2>1
<1> HIDE DEF at
<1>4. limit \in Fns /\ \A t \in Types : limit[t] = at[Depth(t) + 1][t]
  <2>1. \A t \in Types : at[Depth(t) + 1][t] \in S
    <3> SUFFICES ASSUME NEW t \in Types PROVE at[Depth(t) + 1][t] \in S
      OBVIOUS
    <3>1. at[Depth(t) + 1] \in Fns
      BY <1>0, <1>3
    <3> QED
      BY <3>1
  <2> QED
    BY <2>1
<1> HIDE DEF limit
<1>5. ASSUME NEW t \in Types PROVE limit[t] = step[<<limit, t>>]
  <2> DEFINE n == Depth(t) + 1
  <2>1. n \in Nat /\ Depth(t) < n
    BY <1>0
  <2>2. at[n] \in Fns /\ at[n][t] = step[<<at[n], t>>] /\ UpTo(at[n], n)
    BY <1>3, <2>1
  <2>3. \A i \in DOMAIN t.parts : limit[t.parts[i]] = at[n][t.parts[i]]
    <3> SUFFICES ASSUME NEW i \in DOMAIN t.parts PROVE limit[t.parts[i]] = at[n][t.parts[i]]
      OBVIOUS
    <3> DEFINE p == t.parts[i]
               k == Depth(p) + 1
    <3>1. p \in Types /\ k \in Nat /\ k <= n /\ Depth(p) < k
      BY PartsAreTypes, <1>0
    <3>2. at[k] \in Fns /\ UpTo(at[k], k)
      BY <1>3, <3>1
    <3>3. UpTo(at[n], k)
      <4> SUFFICES ASSUME NEW u \in Types, Depth(u) < k PROVE at[n][u] = step[<<at[n], u>>]
        OBVIOUS
      <4>1. Depth(u) \in Nat
        BY <1>0
      <4>2. Depth(u) < n
        <5> HIDE DEF k, n
        <5> QED
          BY <2>1, <3>1, <4>1
      <4> QED
        BY <2>2, <4>2
    <3> HIDE DEF k, n, p, UpTo, Fns
    <3>4. at[k][p] = at[n][p]
      BY <1>2, <2>2, <3>1, <3>2, <3>3
    <3> QED
      BY <1>4, <3>1, <3>4 DEF k, p
  <2>4. step[<<limit, t>>] = step[<<at[n], t>>]
    <3> HIDE DEF n
    <3> QED
      BY <2>2, <2>3, <1>4
  <2> QED
    BY <2>2, <2>4, <1>4
<1> QED
  BY <1>4, <1>5

-----------------------------------------------------------------------------
(* The four functions are what their definitions say.                      *)

Mapped(f, types) == [i \in DOMAIN types |-> f[types[i]]]

LEMMA MappedLen ==
  ASSUME NEW f, NEW types \in Seq(Types)
  PROVE  Len(Mapped(f, types)) = Len(types)
BY DEF Mapped

LEMMA OfParts ==
  ASSUME NEW S, NEW f, NEW types \in Seq(Types), \A i \in DOMAIN types : f[types[i]] \in S
  PROVE  Mapped(f, types) \in Seq(S)
<1> DEFINE n == Len(types)
<1>1. DOMAIN types = 1 .. n /\ n \in Nat
  OBVIOUS
<1>2. Mapped(f, types) \in [1 .. n -> S]
  BY <1>1 DEF Mapped
<1> QED
  BY <1>1, <1>2

LEMMA StructSizeNat ==
  ASSUME NEW sizes \in Seq(Nat), NEW aligns \in Seq(Alignments), Len(sizes) = Len(aligns)
  PROVE  StructSize(sizes, aligns) \in Nat
<1>1. Ends(sizes, aligns)[Len(sizes)] \in Nat
  BY EndsEquation
<1> QED
  BY <1>1, LargestAlignIs, RoundUpNat DEF StructSize

(* One unfolding of monotype_align.                                        *)
MonotypeAlignOf(f, t) ==
  CASE t.k = "bool"             -> 1
    [] t.k = "int"              -> 4
    [] t.k \in {"ptr", "tuple"} -> 8
    [] OTHER -> LargestAlign([i \in DOMAIN t.parts |-> f[t.parts[i]]])

LEMMA MonotypeAlignEquation ==
  /\ MonotypeAlign \in [Types -> Alignments]
  /\ \A t \in Types : MonotypeAlign[t] = MonotypeAlignOf(MonotypeAlign, t)
<1> DEFINE Fns == [Types -> Alignments]
           Fixed(f) == f = [t \in Types |->
             CASE t.k = "bool"             -> 1
               [] t.k = "int"              -> 4
               [] t.k \in {"ptr", "tuple"} -> 8
               [] OTHER -> LargestAlign([i \in DOMAIN t.parts |-> f[t.parts[i]]])]
           step == [p \in Fns \X Types |-> MonotypeAlignOf(p[1], p[2])]
<1>1. ASSUME NEW f, NEW t \in Types, \A i \in DOMAIN t.parts : f[t.parts[i]] \in Alignments
      PROVE  MonotypeAlignOf(f, t) \in Alignments
  <2>0. t.parts \in Seq(Types)
    BY PartsAreTypes
  <2>1. Mapped(f, t.parts) \in Seq(Alignments)
    BY <1>1, <2>0, OfParts, Zenon
  <2>2. LargestAlign(Mapped(f, t.parts)) \in Alignments
    BY <2>1, LargestAlignIs
  <2> QED
    BY <2>2 DEF MonotypeAlignOf, Alignments, Mapped
<1>2. ASSUME NEW f, NEW g, NEW t \in Types,
             \A i \in DOMAIN t.parts : f[t.parts[i]] = g[t.parts[i]]
      PROVE  MonotypeAlignOf(f, t) = MonotypeAlignOf(g, t)
  <2>1. [i \in DOMAIN t.parts |-> f[t.parts[i]]] = [i \in DOMAIN t.parts |-> g[t.parts[i]]]
    BY <1>2
  <2> QED
    BY <2>1 DEF MonotypeAlignOf
<1>3. \A f \in Fns : \A t \in Types : step[<<f, t>>] = MonotypeAlignOf(f, t)
  OBVIOUS
<1>4. \A f \in Fns : \A t \in Types : MonotypeAlignOf(f, t) \in Alignments
  <2> SUFFICES ASSUME NEW f \in Fns, NEW t \in Types PROVE MonotypeAlignOf(f, t) \in Alignments
    OBVIOUS
  <2>1. \A i \in DOMAIN t.parts : f[t.parts[i]] \in Alignments
    BY PartsAreTypes
  <2> QED
    BY <1>1, <2>1
<1>5. step \in [Fns \X Types -> Alignments]
  BY <1>4
<1>6. PICK f \in Fns : \A t \in Types : f[t] = MonotypeAlignOf(f, t)
  <2> HIDE DEF step
  <2>1. FromParts(step, Alignments)
    BY <1>2, <1>3 DEF FromParts
  <2>2. 1 \in Alignments
    BY DEF Alignments
  <2>3. step \in Steps(Alignments)
    BY <1>5 DEF Steps
  <2>4. PICK f \in Fns : Follows(f, step)
    BY <2>1, <2>2, <2>3, RecursionOverTypes, Zenon
  <2> QED
    BY <1>3, <2>4 DEF Follows
<1>7. Fixed(f)
  BY <1>6 DEF MonotypeAlignOf
<1>8. MonotypeAlign = CHOOSE g : Fixed(g)
  BY DEF MonotypeAlign
<1>9. Fixed(MonotypeAlign)
  <2> HIDE DEF Fixed
  <2> QED
    BY <1>7, <1>8
<1>10. /\ MonotypeAlign = [t \in Types |-> MonotypeAlign[t]]
       /\ \A t \in Types : MonotypeAlign[t] = MonotypeAlignOf(MonotypeAlign, t)
  <2> DEFINE g == MonotypeAlign
  <2>1. Fixed(g)
    BY <1>9
  <2> HIDE DEF g
  <2>2. g = [t \in Types |-> MonotypeAlignOf(g, t)]
    BY <2>1 DEF MonotypeAlignOf
  <2>3. g = [t \in Types |-> g[t]] /\ \A t \in Types : g[t] = MonotypeAlignOf(g, t)
    BY <2>2
  <2> QED
    BY <2>3 DEF g
<1> DEFINE Good == {t \in Types : MonotypeAlign[t] \in Alignments}
<1>11. \A t \in Types : (\A i \in DOMAIN t.parts : t.parts[i] \in Good) => t \in Good
  BY <1>1, <1>10
<1>12. Types \subseteq Good
  <2> HIDE DEF Good
  <2> QED
    BY <1>11, TypeInduction
<1> QED
  BY <1>10, <1>12

(* One unfolding of monotype_size.                                         *)
MonotypeSizeOf(f, t) ==
  CASE t.k = "bool" -> 1
    [] t.k = "int"  -> 4
    [] t.k = "ptr"  -> 8
    [] OTHER        -> StructSize([i \in DOMAIN t.parts |-> f[t.parts[i]]],
                                  MonotypeAligns(t.parts))

LEMMA MonotypeSizeEquation ==
  /\ MonotypeSize \in [Types -> Nat]
  /\ \A t \in Types : MonotypeSize[t] = MonotypeSizeOf(MonotypeSize, t)
<1> DEFINE Fns == [Types -> Nat]
           Fixed(f) == f = [t \in Types |->
             CASE t.k = "bool" -> 1
               [] t.k = "int"  -> 4
               [] t.k = "ptr"  -> 8
               [] OTHER        -> StructSize([i \in DOMAIN t.parts |-> f[t.parts[i]]],
                                             MonotypeAligns(t.parts))]
           step == [p \in Fns \X Types |-> MonotypeSizeOf(p[1], p[2])]
<1>1. ASSUME NEW f, NEW t \in Types, \A i \in DOMAIN t.parts : f[t.parts[i]] \in Nat
      PROVE  MonotypeSizeOf(f, t) \in Nat
  <2>0. t.parts \in Seq(Types)
    BY PartsAreTypes
  <2>1. Mapped(f, t.parts) \in Seq(Nat) /\ Len(Mapped(f, t.parts)) = Len(t.parts)
    <3>1. Mapped(f, t.parts) \in Seq(Nat)
      BY <1>1, <2>0, OfParts, Zenon
    <3>2. Len(Mapped(f, t.parts)) = Len(t.parts)
      BY <1>1, <2>0, MappedLen
    <3> QED
      BY <3>1, <3>2
  <2>2. MonotypeAligns(t.parts) \in Seq(Alignments) /\ Len(MonotypeAligns(t.parts)) = Len(t.parts)
    <3>1. \A i \in DOMAIN t.parts : MonotypeAlign[t.parts[i]] \in Alignments
      BY PartsAreTypes, MonotypeAlignEquation
    <3>2. MonotypeAligns(t.parts) = Mapped(MonotypeAlign, t.parts)
      BY DEF MonotypeAligns, Mapped
    <3>3. Mapped(MonotypeAlign, t.parts) \in Seq(Alignments)
      BY <2>0, <3>1, OfParts, Zenon
    <3>4. Len(Mapped(MonotypeAlign, t.parts)) = Len(t.parts)
      BY <2>0, MappedLen
    <3> QED
      BY <3>2, <3>3, <3>4
  <2>3. StructSize(Mapped(f, t.parts), MonotypeAligns(t.parts)) \in Nat
    BY <2>1, <2>2, StructSizeNat
  <2> QED
    BY <2>3 DEF MonotypeSizeOf, Mapped
<1>2. ASSUME NEW f, NEW g, NEW t \in Types,
             \A i \in DOMAIN t.parts : f[t.parts[i]] = g[t.parts[i]]
      PROVE  MonotypeSizeOf(f, t) = MonotypeSizeOf(g, t)
  <2>1. [i \in DOMAIN t.parts |-> f[t.parts[i]]] = [i \in DOMAIN t.parts |-> g[t.parts[i]]]
    BY <1>2
  <2> QED
    BY <2>1 DEF MonotypeSizeOf
<1>3. \A f \in Fns : \A t \in Types : step[<<f, t>>] = MonotypeSizeOf(f, t)
  OBVIOUS
<1>4. \A f \in Fns : \A t \in Types : MonotypeSizeOf(f, t) \in Nat
  <2> SUFFICES ASSUME NEW f \in Fns, NEW t \in Types PROVE MonotypeSizeOf(f, t) \in Nat
    OBVIOUS
  <2>1. \A i \in DOMAIN t.parts : f[t.parts[i]] \in Nat
    BY PartsAreTypes
  <2> QED
    BY <1>1, <2>1
<1>5. step \in [Fns \X Types -> Nat]
  BY <1>4
<1>6. PICK f \in Fns : \A t \in Types : f[t] = MonotypeSizeOf(f, t)
  <2> HIDE DEF step
  <2>1. FromParts(step, Nat)
    BY <1>2, <1>3 DEF FromParts
  <2>2. 0 \in Nat
    BY DEF Alignments
  <2>3. step \in Steps(Nat)
    BY <1>5 DEF Steps
  <2>4. PICK f \in Fns : Follows(f, step)
    BY <2>1, <2>2, <2>3, RecursionOverTypes, Zenon
  <2> QED
    BY <1>3, <2>4 DEF Follows
<1>7. Fixed(f)
  BY <1>6 DEF MonotypeSizeOf
<1>8. MonotypeSize = CHOOSE g : Fixed(g)
  BY DEF MonotypeSize
<1>9. Fixed(MonotypeSize)
  <2> HIDE DEF Fixed
  <2> QED
    BY <1>7, <1>8
<1>10. /\ MonotypeSize = [t \in Types |-> MonotypeSize[t]]
       /\ \A t \in Types : MonotypeSize[t] = MonotypeSizeOf(MonotypeSize, t)
  <2> DEFINE g == MonotypeSize
  <2>1. Fixed(g)
    BY <1>9
  <2> HIDE DEF g
  <2>2. g = [t \in Types |-> MonotypeSizeOf(g, t)]
    BY <2>1 DEF MonotypeSizeOf
  <2>3. g = [t \in Types |-> g[t]] /\ \A t \in Types : g[t] = MonotypeSizeOf(g, t)
    BY <2>2
  <2> QED
    BY <2>3 DEF g
<1> DEFINE Good == {t \in Types : MonotypeSize[t] \in Nat}
<1>11. \A t \in Types : (\A i \in DOMAIN t.parts : t.parts[i] \in Good) => t \in Good
  BY <1>1, <1>10
<1>12. Types \subseteq Good
  <2> HIDE DEF Good
  <2> QED
    BY <1>11, TypeInduction
<1> QED
  BY <1>10, <1>12

(* One unfolding of the alignment under LLVM's data layout.                *)
LLVMAlignOf(f, t) ==
  CASE t.k = "bool" -> 1
    [] t.k = "int"  -> 4
    [] t.k = "ptr"  -> 8
    [] OTHER        -> LargestAlign([i \in DOMAIN t.parts |-> f[t.parts[i]]])

LEMMA LLVMAlignEquation ==
  /\ LLVMAlign \in [Types -> Alignments]
  /\ \A t \in Types : LLVMAlign[t] = LLVMAlignOf(LLVMAlign, t)
<1> DEFINE Fns == [Types -> Alignments]
           Fixed(f) == f = [t \in Types |->
             CASE t.k = "bool" -> 1
               [] t.k = "int"  -> 4
               [] t.k = "ptr"  -> 8
               [] OTHER        -> LargestAlign([i \in DOMAIN t.parts |-> f[t.parts[i]]])]
           step == [p \in Fns \X Types |-> LLVMAlignOf(p[1], p[2])]
<1>1. ASSUME NEW f, NEW t \in Types, \A i \in DOMAIN t.parts : f[t.parts[i]] \in Alignments
      PROVE  LLVMAlignOf(f, t) \in Alignments
  <2>0. t.parts \in Seq(Types)
    BY PartsAreTypes
  <2>1. Mapped(f, t.parts) \in Seq(Alignments)
    BY <1>1, <2>0, OfParts, Zenon
  <2>2. LargestAlign(Mapped(f, t.parts)) \in Alignments
    BY <2>1, LargestAlignIs
  <2> QED
    BY <2>2 DEF LLVMAlignOf, Alignments, Mapped
<1>2. ASSUME NEW f, NEW g, NEW t \in Types,
             \A i \in DOMAIN t.parts : f[t.parts[i]] = g[t.parts[i]]
      PROVE  LLVMAlignOf(f, t) = LLVMAlignOf(g, t)
  <2>1. [i \in DOMAIN t.parts |-> f[t.parts[i]]] = [i \in DOMAIN t.parts |-> g[t.parts[i]]]
    BY <1>2
  <2> QED
    BY <2>1 DEF LLVMAlignOf
<1>3. \A f \in Fns : \A t \in Types : step[<<f, t>>] = LLVMAlignOf(f, t)
  OBVIOUS
<1>4. \A f \in Fns : \A t \in Types : LLVMAlignOf(f, t) \in Alignments
  <2> SUFFICES ASSUME NEW f \in Fns, NEW t \in Types PROVE LLVMAlignOf(f, t) \in Alignments
    OBVIOUS
  <2>1. \A i \in DOMAIN t.parts : f[t.parts[i]] \in Alignments
    BY PartsAreTypes
  <2> QED
    BY <1>1, <2>1
<1>5. step \in [Fns \X Types -> Alignments]
  BY <1>4
<1>6. PICK f \in Fns : \A t \in Types : f[t] = LLVMAlignOf(f, t)
  <2> HIDE DEF step
  <2>1. FromParts(step, Alignments)
    BY <1>2, <1>3 DEF FromParts
  <2>2. 1 \in Alignments
    BY DEF Alignments
  <2>3. step \in Steps(Alignments)
    BY <1>5 DEF Steps
  <2>4. PICK f \in Fns : Follows(f, step)
    BY <2>1, <2>2, <2>3, RecursionOverTypes, Zenon
  <2> QED
    BY <1>3, <2>4 DEF Follows
<1>7. Fixed(f)
  BY <1>6 DEF LLVMAlignOf
<1>8. LLVMAlign = CHOOSE g : Fixed(g)
  BY DEF LLVMAlign
<1>9. Fixed(LLVMAlign)
  <2> HIDE DEF Fixed
  <2> QED
    BY <1>7, <1>8
<1>10. /\ LLVMAlign = [t \in Types |-> LLVMAlign[t]]
       /\ \A t \in Types : LLVMAlign[t] = LLVMAlignOf(LLVMAlign, t)
  <2> DEFINE g == LLVMAlign
  <2>1. Fixed(g)
    BY <1>9
  <2> HIDE DEF g
  <2>2. g = [t \in Types |-> LLVMAlignOf(g, t)]
    BY <2>1 DEF LLVMAlignOf
  <2>3. g = [t \in Types |-> g[t]] /\ \A t \in Types : g[t] = LLVMAlignOf(g, t)
    BY <2>2
  <2> QED
    BY <2>3 DEF g
<1> DEFINE Good == {t \in Types : LLVMAlign[t] \in Alignments}
<1>11. \A t \in Types : (\A i \in DOMAIN t.parts : t.parts[i] \in Good) => t \in Good
  BY <1>1, <1>10
<1>12. Types \subseteq Good
  <2> HIDE DEF Good
  <2> QED
    BY <1>11, TypeInduction
<1> QED
  BY <1>10, <1>12

(* One unfolding of the size under LLVM's data layout.                     *)
LLVMSizeOf(f, t) ==
  CASE t.k = "bool" -> 1
    [] t.k = "int"  -> 4
    [] t.k = "ptr"  -> 8
    [] OTHER        -> StructSize([i \in DOMAIN t.parts |-> f[t.parts[i]]],
                                  LLVMAligns(t.parts))

LEMMA LLVMSizeEquation ==
  /\ LLVMSize \in [Types -> Nat]
  /\ \A t \in Types : LLVMSize[t] = LLVMSizeOf(LLVMSize, t)
<1> DEFINE Fns == [Types -> Nat]
           Fixed(f) == f = [t \in Types |->
             CASE t.k = "bool" -> 1
               [] t.k = "int"  -> 4
               [] t.k = "ptr"  -> 8
               [] OTHER        -> StructSize([i \in DOMAIN t.parts |-> f[t.parts[i]]],
                                             LLVMAligns(t.parts))]
           step == [p \in Fns \X Types |-> LLVMSizeOf(p[1], p[2])]
<1>1. ASSUME NEW f, NEW t \in Types, \A i \in DOMAIN t.parts : f[t.parts[i]] \in Nat
      PROVE  LLVMSizeOf(f, t) \in Nat
  <2>0. t.parts \in Seq(Types)
    BY PartsAreTypes
  <2>1. Mapped(f, t.parts) \in Seq(Nat) /\ Len(Mapped(f, t.parts)) = Len(t.parts)
    <3>1. Mapped(f, t.parts) \in Seq(Nat)
      BY <1>1, <2>0, OfParts, Zenon
    <3>2. Len(Mapped(f, t.parts)) = Len(t.parts)
      BY <1>1, <2>0, MappedLen
    <3> QED
      BY <3>1, <3>2
  <2>2. LLVMAligns(t.parts) \in Seq(Alignments) /\ Len(LLVMAligns(t.parts)) = Len(t.parts)
    <3>1. \A i \in DOMAIN t.parts : LLVMAlign[t.parts[i]] \in Alignments
      BY PartsAreTypes, LLVMAlignEquation
    <3>2. LLVMAligns(t.parts) = Mapped(LLVMAlign, t.parts)
      BY DEF LLVMAligns, Mapped
    <3>3. Mapped(LLVMAlign, t.parts) \in Seq(Alignments)
      BY <2>0, <3>1, OfParts, Zenon
    <3>4. Len(Mapped(LLVMAlign, t.parts)) = Len(t.parts)
      BY <2>0, MappedLen
    <3> QED
      BY <3>2, <3>3, <3>4
  <2>3. StructSize(Mapped(f, t.parts), LLVMAligns(t.parts)) \in Nat
    BY <2>1, <2>2, StructSizeNat
  <2> QED
    BY <2>3 DEF LLVMSizeOf, Mapped
<1>2. ASSUME NEW f, NEW g, NEW t \in Types,
             \A i \in DOMAIN t.parts : f[t.parts[i]] = g[t.parts[i]]
      PROVE  LLVMSizeOf(f, t) = LLVMSizeOf(g, t)
  <2>1. [i \in DOMAIN t.parts |-> f[t.parts[i]]] = [i \in DOMAIN t.parts |-> g[t.parts[i]]]
    BY <1>2
  <2> QED
    BY <2>1 DEF LLVMSizeOf
<1>3. \A f \in Fns : \A t \in Types : step[<<f, t>>] = LLVMSizeOf(f, t)
  OBVIOUS
<1>4. \A f \in Fns : \A t \in Types : LLVMSizeOf(f, t) \in Nat
  <2> SUFFICES ASSUME NEW f \in Fns, NEW t \in Types PROVE LLVMSizeOf(f, t) \in Nat
    OBVIOUS
  <2>1. \A i \in DOMAIN t.parts : f[t.parts[i]] \in Nat
    BY PartsAreTypes
  <2> QED
    BY <1>1, <2>1
<1>5. step \in [Fns \X Types -> Nat]
  BY <1>4
<1>6. PICK f \in Fns : \A t \in Types : f[t] = LLVMSizeOf(f, t)
  <2> HIDE DEF step
  <2>1. FromParts(step, Nat)
    BY <1>2, <1>3 DEF FromParts
  <2>2. 0 \in Nat
    BY DEF Alignments
  <2>3. step \in Steps(Nat)
    BY <1>5 DEF Steps
  <2>4. PICK f \in Fns : Follows(f, step)
    BY <2>1, <2>2, <2>3, RecursionOverTypes, Zenon
  <2> QED
    BY <1>3, <2>4 DEF Follows
<1>7. Fixed(f)
  BY <1>6 DEF LLVMSizeOf
<1>8. LLVMSize = CHOOSE g : Fixed(g)
  BY DEF LLVMSize
<1>9. Fixed(LLVMSize)
  <2> HIDE DEF Fixed
  <2> QED
    BY <1>7, <1>8
<1>10. /\ LLVMSize = [t \in Types |-> LLVMSize[t]]
       /\ \A t \in Types : LLVMSize[t] = LLVMSizeOf(LLVMSize, t)
  <2> DEFINE g == LLVMSize
  <2>1. Fixed(g)
    BY <1>9
  <2> HIDE DEF g
  <2>2. g = [t \in Types |-> LLVMSizeOf(g, t)]
    BY <2>1 DEF LLVMSizeOf
  <2>3. g = [t \in Types |-> g[t]] /\ \A t \in Types : g[t] = LLVMSizeOf(g, t)
    BY <2>2
  <2> QED
    BY <2>3 DEF g
<1> DEFINE Good == {t \in Types : LLVMSize[t] \in Nat}
<1>11. \A t \in Types : (\A i \in DOMAIN t.parts : t.parts[i] \in Good) => t \in Good
  BY <1>1, <1>10
<1>12. Types \subseteq Good
  <2> HIDE DEF Good
  <2> QED
    BY <1>11, TypeInduction
<1> QED
  BY <1>10, <1>12

-----------------------------------------------------------------------------
(* What the code generator takes for a type's size is enough for it.       *)

LEMMA LayoutsOf ==
  ASSUME NEW types \in Seq(Types)
  PROVE  /\ LLVMSizes(types) \in Seq(Nat) /\ Len(LLVMSizes(types)) = Len(types)
         /\ LLVMAligns(types) \in Seq(Alignments) /\ Len(LLVMAligns(types)) = Len(types)
         /\ MonotypeSizes(types) \in Seq(Nat) /\ Len(MonotypeSizes(types)) = Len(types)
         /\ MonotypeAligns(types) \in Seq(Alignments) /\ Len(MonotypeAligns(types)) = Len(types)
         /\ \A i \in 1 .. Len(types) :
              /\ types[i] \in Types
              /\ LLVMSizes(types)[i] = LLVMSize[types[i]]
              /\ LLVMAligns(types)[i] = LLVMAlign[types[i]]
              /\ MonotypeSizes(types)[i] = MonotypeSize[types[i]]
              /\ MonotypeAligns(types)[i] = MonotypeAlign[types[i]]
<1>1. /\ LLVMSizes(types) = Mapped(LLVMSize, types)
      /\ LLVMAligns(types) = Mapped(LLVMAlign, types)
      /\ MonotypeSizes(types) = Mapped(MonotypeSize, types)
      /\ MonotypeAligns(types) = Mapped(MonotypeAlign, types)
  BY DEF LLVMSizes, LLVMAligns, MonotypeSizes, MonotypeAligns, Mapped
<1>2. \A i \in DOMAIN types : types[i] \in Types
  OBVIOUS
<1>3. Mapped(LLVMSize, types) \in Seq(Nat)
  <2>1. \A i \in DOMAIN types : LLVMSize[types[i]] \in Nat
    BY <1>2, LLVMSizeEquation
  <2> QED
    BY <2>1, OfParts, Zenon
<1>4. Mapped(MonotypeSize, types) \in Seq(Nat)
  <2>1. \A i \in DOMAIN types : MonotypeSize[types[i]] \in Nat
    BY <1>2, MonotypeSizeEquation
  <2> QED
    BY <2>1, OfParts, Zenon
<1>5. Mapped(LLVMAlign, types) \in Seq(Alignments)
  <2>1. \A i \in DOMAIN types : LLVMAlign[types[i]] \in Alignments
    BY <1>2, LLVMAlignEquation
  <2> QED
    BY <2>1, OfParts, Zenon
<1>6. Mapped(MonotypeAlign, types) \in Seq(Alignments)
  <2>1. \A i \in DOMAIN types : MonotypeAlign[types[i]] \in Alignments
    BY <1>2, MonotypeAlignEquation
  <2> QED
    BY <2>1, OfParts, Zenon
<1>7. /\ Len(Mapped(LLVMSize, types)) = Len(types)
      /\ Len(Mapped(LLVMAlign, types)) = Len(types)
      /\ Len(Mapped(MonotypeSize, types)) = Len(types)
      /\ Len(Mapped(MonotypeAlign, types)) = Len(types)
  BY MappedLen
<1>8. \A i \in 1 .. Len(types) :
        /\ types[i] \in Types
        /\ LLVMSizes(types)[i] = LLVMSize[types[i]]
        /\ LLVMAligns(types)[i] = LLVMAlign[types[i]]
        /\ MonotypeSizes(types)[i] = MonotypeSize[types[i]]
        /\ MonotypeAligns(types)[i] = MonotypeAlign[types[i]]
  BY DEF LLVMSizes, LLVMAligns, MonotypeSizes, MonotypeAligns
<1> QED
  BY <1>1, <1>3, <1>4, <1>5, <1>6, <1>7, <1>8

(***************************************************************************)
(* monotype_size and monotype_align (codegen/types.rs:117-147) never come  *)
(* to less than the size and the alignment LLVM gives the lowered type, of *)
(* any type, however deep structs are nested in it.                        *)
(***************************************************************************)
THEOREM NeverUnderestimated ==
  \A t \in Types : LLVMSize[t] <= MonotypeSize[t] /\ LLVMAlign[t] <= MonotypeAlign[t]
<1> DEFINE Good == {t \in Types : LLVMSize[t] <= MonotypeSize[t]
                                   /\ LLVMAlign[t] <= MonotypeAlign[t]}
<1>1. ASSUME NEW t \in Types, \A i \in DOMAIN t.parts : t.parts[i] \in Good
      PROVE  t \in Good
  <2> DEFINE parts == t.parts
  <2>1. parts \in Seq(Types) /\ DOMAIN parts = 1 .. Len(parts)
    BY PartsAreTypes
  <2>2. /\ LLVMAlign[t] = LLVMAlignOf(LLVMAlign, t)
        /\ LLVMSize[t] = LLVMSizeOf(LLVMSize, t)
        /\ MonotypeAlign[t] = MonotypeAlignOf(MonotypeAlign, t)
        /\ MonotypeSize[t] = MonotypeSizeOf(MonotypeSize, t)
        /\ LLVMAlign[t] \in Alignments
    BY LLVMAlignEquation, LLVMSizeEquation, MonotypeAlignEquation, MonotypeSizeEquation
  <2>3. \A i \in 1 .. Len(parts) : /\ LLVMSizes(parts)[i] <= MonotypeSizes(parts)[i]
                                   /\ LLVMAligns(parts)[i] <= MonotypeAligns(parts)[i]
    BY <1>1, <2>1, LayoutsOf
  <2>4. StructSize(LLVMSizes(parts), LLVMAligns(parts))
          <= StructSize(MonotypeSizes(parts), MonotypeAligns(parts))
    <3> HIDE DEF parts
    <3> QED
      BY <2>1, <2>3, LayoutsOf, StructSizeMonotone
  <2>5. LargestAlign(LLVMAligns(parts)) <= LargestAlign(MonotypeAligns(parts))
    <3> HIDE DEF parts
    <3> QED
      BY <2>1, <2>3, LayoutsOf, LargestAlignMonotone
  <2>6. LLVMAlign[t] <= 8
    BY <2>2 DEF Alignments
  <2>7. LLVMSize[t] <= MonotypeSize[t]
    BY <2>2, <2>4 DEF LLVMSizeOf, MonotypeSizeOf, LLVMSizes, MonotypeSizes
  <2>8. LLVMAlign[t] <= MonotypeAlign[t]
    BY <2>2, <2>5, <2>6 DEF LLVMAlignOf, MonotypeAlignOf, LLVMAligns, MonotypeAligns
  <2> QED
    BY <2>7, <2>8
<1>2. Types \subseteq Good
  <2> HIDE DEF Good
  <2> QED
    BY <1>1, TypeInduction
<1> QED
  BY <1>2

-----------------------------------------------------------------------------
(* Each field fits where it is stored.                                     *)

(* Heads of lists and captures that are no wider than a pointer: a cons    *)
(* cell has 16 bytes and an environment 8 for each capture, whatever they  *)
(* hold.                                                                   *)
NarrowFields ==
  /\ \A t \in Elements : LLVMSize[t] <= 8
  /\ \A types \in Environments : \A i \in DOMAIN types : LLVMSize[types[i]] <= 8

(* Fields of at most 8 bytes each end within 8 bytes each.                 *)
LEMMA NarrowEnds ==
  ASSUME NEW types \in Seq(Types), \A i \in DOMAIN types : LLVMSize[types[i]] <= 8
  PROVE  \A i \in 0 .. Len(types) : Ends(LLVMSizes(types), LLVMAligns(types))[i] <= 8 * i
<1> DEFINE n == Len(types)
           f == Ends(LLVMSizes(types), LLVMAligns(types))
           Bad == {i \in 0 .. n : ~(f[i] <= 8 * i)}
<1>1. n \in Nat
  OBVIOUS
<1>2. /\ f \in [0 .. n -> Nat]
      /\ \A i \in 0 .. n : f[i] = EndAfter(LLVMSizes(types), LLVMAligns(types), f, i)
  BY LayoutsOf, EndsEquation
<1>3. \A i \in 1 .. n : /\ LLVMSizes(types)[i] \in Nat /\ LLVMSizes(types)[i] <= 8
                        /\ LLVMAligns(types)[i] \in Alignments
  <2> SUFFICES ASSUME NEW i \in 1 .. n
               PROVE  /\ LLVMSizes(types)[i] \in Nat /\ LLVMSizes(types)[i] <= 8
                      /\ LLVMAligns(types)[i] \in Alignments
    OBVIOUS
  <2>1. LLVMSizes(types)[i] = LLVMSize[types[i]] /\ LLVMSize[types[i]] <= 8
    BY LayoutsOf
  <2>2. LLVMSizes(types)[i] \in Nat /\ LLVMAligns(types)[i] \in Alignments
    BY LayoutsOf
  <2> QED
    BY <2>1, <2>2
<1> HIDE DEF f
<1> SUFFICES ASSUME Bad # {} PROVE FALSE
  BY DEF f
<1>4. PICK m \in Bad : \A k \in Bad : m <= k
  <2>1. Bad \in SUBSET Nat
    BY <1>1
  <2> HIDE DEF Bad
  <2> QED
    BY <2>1, Least
<1>5. CASE m = 0
  BY <1>5, <1>1, <1>2 DEF EndAfter
<1>6. CASE m # 0
  <2>1. m \in 1 .. n /\ m - 1 \in 0 .. n /\ m - 1 < m
    BY <1>6, <1>1
  <2>2. f[m - 1] <= 8 * (m - 1) /\ f[m - 1] \in Nat /\ 8 * (m - 1) \in Nat
    <3>1. m - 1 \notin Bad
      <4> HIDE DEF Bad
      <4> QED
        BY <1>4, <2>1
    <3> QED
      BY <3>1, <2>1, <1>2
  <2> DEFINE a == LLVMAligns(types)[m]
  <2>3. a \in Alignments /\ a <= 8 /\ 8 \in Alignments
    BY <2>1, <1>3 DEF Alignments
  <2>4. RoundUp(f[m - 1], a) <= RoundUp(8 * (m - 1), 8)
    BY <2>2, <2>3, RoundUpMonotone
  <2>5. RoundUp(8 * (m - 1), 8) = 8 * (m - 1)
    BY <2>1 DEF RoundUp
  <2>6. f[m] = RoundUp(f[m - 1], a) + LLVMSizes(types)[m]
    BY <1>2, <1>6, <2>1 DEF EndAfter
  <2>7. RoundUp(f[m - 1], a) \in Nat
    BY <2>2, <2>3, RoundUpNat
  <2>8. f[m] <= 8 * m
    <3>1. LLVMSizes(types)[m] \in Nat /\ LLVMSizes(types)[m] <= 8 /\ m \in Nat
      BY <1>3, <2>1
    <3> HIDE DEF a
    <3> QED
      BY <2>4, <2>5, <2>6, <2>7, <3>1
  <2> QED
    BY <2>8
<1> QED
  BY <1>5, <1>6

LEMMA FieldEnds ==
  ASSUME NEW types \in Seq(Types), NEW i \in DOMAIN types
  PROVE  /\ FieldAt(types, i) \in Nat /\ LLVMSize[types[i]] \in Nat
         /\ FieldAt(types, i) + LLVMSize[types[i]] = Ends(LLVMSizes(types), LLVMAligns(types))[i]
<1> DEFINE f == Ends(LLVMSizes(types), LLVMAligns(types))
<1>1. /\ f \in [0 .. Len(types) -> Nat]
      /\ \A j \in 0 .. Len(types) : f[j] = EndAfter(LLVMSizes(types), LLVMAligns(types), f, j)
  BY LayoutsOf, EndsEquation
<1>2. i \in 0 .. Len(types) /\ i # 0 /\ i \in 1 .. Len(types) /\ i - 1 \in 0 .. Len(types)
  OBVIOUS
<1>3. /\ LLVMSizes(types)[i] = LLVMSize[types[i]] /\ LLVMSizes(types)[i] \in Nat
      /\ LLVMAligns(types)[i] \in Alignments
  BY <1>2, LayoutsOf
<1> HIDE DEF f
<1>4. f[i] = RoundUp(f[i - 1], LLVMAligns(types)[i]) + LLVMSizes(types)[i]
  BY <1>1, <1>2 DEF EndAfter
<1>5. f[i - 1] \in Nat
  BY <1>1, <1>2
<1>6. RoundUp(f[i - 1], LLVMAligns(types)[i]) \in Nat
  BY <1>3, <1>5, RoundUpNat
<1>7. FieldAt(types, i) = RoundUp(f[i - 1], LLVMAligns(types)[i])
  BY DEF FieldAt, Offset, f
<1> QED
  BY <1>3, <1>4, <1>6, <1>7 DEF f

(* How many bytes the three kinds of objects are built with.               *)
IsCell(o, tail) ==
  /\ o.kind = "cons" /\ o.bytes = 16 /\ o.tail = tail
  /\ \E t \in Elements : o.types = <<t, Pointer>>

AsBuilt(o, tail) ==
  \/ IsCell(o, tail)
  \/ o.kind = "payload" /\ o.bytes = TupleSize(o.types)
  \/ o.kind = "env" /\ o.types \in Environments /\ o.bytes = 8 * Len(o.types)

LEMMA PointerIs == Pointer \in Types /\ LLVMSize[Pointer] = 8 /\ LLVMAlign[Pointer] = 8
<1>1. Pointer \in Types
  BY LayoutAssumption
<1>2. /\ LLVMSize[Pointer] = LLVMSizeOf(LLVMSize, Pointer)
      /\ LLVMAlign[Pointer] = LLVMAlignOf(LLVMAlign, Pointer)
  BY <1>1, LLVMSizeEquation, LLVMAlignEquation
<1>3. Pointer.k = "ptr"
  BY DEF Pointer
<1> QED
  BY <1>1, <1>2, <1>3 DEF LLVMSizeOf, LLVMAlignOf

(* Whatever an object is built of, its fields end within its bytes.        *)
LEMMA BuiltToFit ==
  ASSUME NarrowFields, NEW o, NEW tail, o.types \in Seq(Types), AsBuilt(o, tail),
         NEW i \in DOMAIN o.types
  PROVE  FieldAt(o.types, i) + LLVMSize[o.types[i]] <= o.bytes
<1> DEFINE types == o.types
           end == FieldAt(types, i) + LLVMSize[types[i]]
<1>1. types \in Seq(Types) /\ i \in DOMAIN types /\ i \in 1 .. Len(types) /\ Len(types) \in Nat
  OBVIOUS
<1>2. ASSUME \A j \in DOMAIN types : LLVMSize[types[j]] <= 8
      PROVE  end <= 8 * Len(types)
  <2>1. end = Ends(LLVMSizes(types), LLVMAligns(types))[i] /\ end \in Nat
    BY <1>1, FieldEnds
  <2>2. Ends(LLVMSizes(types), LLVMAligns(types))[i] <= 8 * i
    <3>1. i \in 0 .. Len(types)
      BY <1>1
    <3> HIDE DEF types
    <3> QED
      BY <1>1, <1>2, <3>1, NarrowEnds
  <2> HIDE DEF types, end
  <2> QED
    BY <1>1, <2>1, <2>2
<1>3. CASE IsCell(o, tail)
  <2>1. PICK t \in Elements : types = <<t, Pointer>>
    BY <1>3 DEF IsCell
  <2>2. \A j \in DOMAIN types : LLVMSize[types[j]] <= 8
    <3>1. LLVMSize[t] <= 8 /\ LLVMSize[Pointer] <= 8
      BY PointerIs DEF NarrowFields
    <3>2. DOMAIN types = 1 .. 2 /\ types[1] = t /\ types[2] = Pointer
      BY <2>1
    <3> QED
      BY <3>1, <3>2
  <2>3. o.bytes = 8 * Len(types)
    BY <1>3, <2>1 DEF IsCell
  <2> QED
    BY <1>2, <2>2, <2>3
<1>4. CASE o.kind = "payload" /\ o.bytes = TupleSize(o.types)
  <2>1. \A j \in 1 .. Len(types) : /\ LLVMSizes(types)[j] <= MonotypeSizes(types)[j]
                                   /\ LLVMAligns(types)[j] <= MonotypeAligns(types)[j]
    BY LayoutsOf, NeverUnderestimated
  <2>2. Offset(LLVMSizes(types), LLVMAligns(types), i) + LLVMSizes(types)[i]
          <= StructSize(MonotypeSizes(types), MonotypeAligns(types))
    <3> HIDE DEF types
    <3> QED
      BY <1>1, <2>1, LayoutsOf, StoresFit
  <2>3. LLVMSizes(types)[i] = LLVMSize[types[i]]
    BY <1>1, LayoutsOf
  <2> QED
    BY <1>4, <2>2, <2>3 DEF TupleSize, FieldAt
<1>5. CASE o.kind = "env" /\ o.types \in Environments /\ o.bytes = 8 * Len(o.types)
  <2>1. \A j \in DOMAIN types : LLVMSize[types[j]] <= 8
    BY <1>5 DEF NarrowFields
  <2> QED
    BY <1>2, <1>5, <2>1
<1> QED
  BY <1>3, <1>4, <1>5 DEF AsBuilt

-----------------------------------------------------------------------------
(* What is built: the invariant of objects, from which FieldsFit follows.  *)

Object == [kind : {"cons", "payload", "env"}, types : Seq(Types), bytes : Nat, tail : Nat,
           memory : SUBSET [byte : Nat, field : Nat, k : Nat]]

(* What is in an object's memory was stored where one of its fields goes.  *)
Placed(o) ==
  \A m \in o.memory : \E i \in DOMAIN o.types :
    m.byte \in FieldAt(o.types, i) .. FieldAt(o.types, i) + LLVMSize[o.types[i]] - 1

ObjectsInv ==
  /\ objects \in Seq(Object)
  /\ left \in Nat
  /\ left > 0 => objects # <<>> /\ left <= Len(objects[Len(objects)].types)
  /\ \A i \in DOMAIN objects : AsBuilt(objects[i], i - 1) /\ Placed(objects[i])

LEMMA MallocKeepsObjects ==
  ASSUME ObjectsInv, NEW kind, NEW types, NEW bytes, NEW tail,
         [kind |-> kind, types |-> types, bytes |-> bytes, tail |-> tail, memory |-> {}] \in Object,
         AsBuilt([kind |-> kind, types |-> types, bytes |-> bytes, tail |-> tail, memory |-> {}],
                 Len(objects)),
         Malloc(kind, types, bytes, tail)
  PROVE  ObjectsInv'
<1> DEFINE o == [kind |-> kind, types |-> types, bytes |-> bytes, tail |-> tail, memory |-> {}]
           n == Len(objects)
<1>1. o \in Object /\ AsBuilt(o, n) /\ Placed(o) /\ o.types = types
  BY DEF Placed
<1>2. objects' = Append(objects, o) /\ left' = Len(types) /\ types \in Seq(Types)
  BY DEF Malloc, Object
<1>3. objects \in Seq(Object) /\ n \in Nat
  BY DEF ObjectsInv
<1> HIDE DEF o
<1>4. /\ objects' \in Seq(Object) /\ Len(objects') = n + 1 /\ objects'[n + 1] = o
      /\ \A i \in 1 .. n : objects'[i] = objects[i]
      /\ DOMAIN objects' = 1 .. n + 1 /\ DOMAIN objects = 1 .. n
  BY <1>1, <1>2, <1>3
<1> HIDE DEF n
<1>5. left' \in Nat
  BY <1>2
<1>6. objects' # <<>> /\ left' <= Len(objects'[Len(objects')].types)
  BY <1>1, <1>2, <1>3, <1>4
<1>7. ASSUME NEW i \in DOMAIN objects'
      PROVE  AsBuilt(objects'[i], i - 1) /\ Placed(objects'[i])
  <2>1. CASE i = n + 1
    <3>1. i - 1 = n
      BY <1>3, <2>1
    <3> QED
      BY <1>1, <1>4, <2>1, <3>1
  <2>2. CASE i # n + 1
    <3>1. i \in 1 .. n
      BY <1>3, <1>4, <2>2
    <3>2. AsBuilt(objects[i], i - 1) /\ Placed(objects[i])
      BY <3>1, <1>4 DEF ObjectsInv
    <3> QED
      BY <1>4, <3>1, <3>2
  <2> QED
    BY <2>1, <2>2
<1>8. \A i \in DOMAIN objects' : AsBuilt(objects'[i], i - 1) /\ Placed(objects'[i])
  BY <1>7
<1> QED
  BY <1>4, <1>5, <1>6, <1>8 DEF ObjectsInv, AsBuilt, IsCell, Placed, TupleSize, FieldAt

(* The object that a store leaves.                                         *)
Stored(o, i) ==
  [o EXCEPT !.memory =
     {m \in @ : m.byte \notin FieldAt(o.types, i) .. FieldAt(o.types, i) + LLVMSize[o.types[i]] - 1}
       \cup {[byte |-> FieldAt(o.types, i) + k, field |-> i, k |-> k] :
               k \in 0 .. LLVMSize[o.types[i]] - 1}]

LEMMA StoreFieldIs ==
  ASSUME ObjectsInv, StoreField
  PROVE  LET n == Len(objects)
             i == Len(objects[n].types) - left + 1
         IN /\ n \in DOMAIN objects /\ objects[n] \in Object /\ i \in DOMAIN objects[n].types
            /\ objects' = [objects EXCEPT ![n] = Stored(objects[n], i)]
            /\ left' = left - 1 /\ left' \in Nat
<1> DEFINE n == Len(objects)
           i == Len(objects[n].types) - left + 1
<1>1. /\ objects \in Seq(Object) /\ left \in Nat /\ left > 0 /\ objects # <<>>
      /\ left <= Len(objects[n].types)
  BY DEF ObjectsInv, StoreField
<1>2. n \in DOMAIN objects /\ objects[n] \in Object
  BY <1>1
<1>3. objects[n].types \in Seq(Types)
  BY <1>2 DEF Object
<1>4. i \in DOMAIN objects[n].types
  <2> DEFINE types == objects[n].types
  <2>1. types \in Seq(Types) /\ left <= Len(types) /\ left > 0 /\ left \in Nat
    BY <1>1, <1>3
  <2> HIDE DEF types
  <2>2. Len(types) - left + 1 \in DOMAIN types
    BY <2>1
  <2> QED
    BY <2>2 DEF types
<1>5. objects' = [objects EXCEPT ![n] = Stored(objects[n], i)]
  BY <1>2 DEF StoreField, Newest, Stored
<1>6. left' = left - 1
  BY DEF StoreField
<1> QED
  BY <1>1, <1>2, <1>4, <1>5, <1>6

LEMMA StoredIs ==
  ASSUME NEW o \in Object, NEW i \in DOMAIN o.types
  PROVE  /\ Stored(o, i) \in Object
         /\ Stored(o, i).kind = o.kind /\ Stored(o, i).types = o.types
         /\ Stored(o, i).bytes = o.bytes /\ Stored(o, i).tail = o.tail
         /\ Stored(o, i).memory =
              {m \in o.memory :
                 m.byte \notin FieldAt(o.types, i) .. FieldAt(o.types, i) + LLVMSize[o.types[i]] - 1}
                \cup {[byte |-> FieldAt(o.types, i) + k, field |-> i, k |-> k] :
                        k \in 0 .. LLVMSize[o.types[i]] - 1}
<1> DEFINE kept == {m \in o.memory :
                      m.byte \notin FieldAt(o.types, i) .. FieldAt(o.types, i) + LLVMSize[o.types[i]] - 1}
           new == {[byte |-> FieldAt(o.types, i) + k, field |-> i, k |-> k] :
                     k \in 0 .. LLVMSize[o.types[i]] - 1}
<1>1. o.types \in Seq(Types)
  BY DEF Object
<1>2. FieldAt(o.types, i) \in Nat /\ LLVMSize[o.types[i]] \in Nat /\ i \in Nat
  BY <1>1, FieldEnds
<1>3. new \in SUBSET [byte : Nat, field : Nat, k : Nat]
  BY <1>2
<1>4. kept \in SUBSET [byte : Nat, field : Nat, k : Nat]
  BY DEF Object
<1>5. Stored(o, i) = [o EXCEPT !.memory = kept \cup new]
  BY DEF Stored, Object
<1> HIDE DEF kept, new
<1>6. kept \cup new \in SUBSET [byte : Nat, field : Nat, k : Nat]
  BY <1>3, <1>4
<1>7. /\ Stored(o, i) \in Object
      /\ Stored(o, i).kind = o.kind /\ Stored(o, i).types = o.types
      /\ Stored(o, i).bytes = o.bytes /\ Stored(o, i).tail = o.tail
      /\ Stored(o, i).memory = kept \cup new
  BY <1>5, <1>6 DEF Object
<1> QED
  BY <1>7 DEF kept, new

LEMMA StoreKeepsObjects ==
  ASSUME ObjectsInv, StoreField
  PROVE  ObjectsInv'
<1> DEFINE n == Len(objects)
           i == Len(objects[n].types) - left + 1
<1>1. /\ n \in DOMAIN objects /\ objects[n] \in Object /\ i \in DOMAIN objects[n].types
      /\ objects' = [objects EXCEPT ![n] = Stored(objects[n], i)]
      /\ left' = left - 1 /\ left' \in Nat
  BY StoreFieldIs
<1>2. objects \in Seq(Object) /\ left <= Len(objects[n].types) /\ left \in Nat
  BY DEF ObjectsInv, StoreField
<1>t. objects[n].types \in Seq(Types)
  BY <1>1 DEF Object
<1>3. /\ Stored(objects[n], i) \in Object
      /\ Stored(objects[n], i).kind = objects[n].kind
      /\ Stored(objects[n], i).types = objects[n].types
      /\ Stored(objects[n], i).bytes = objects[n].bytes
      /\ Stored(objects[n], i).tail = objects[n].tail
      /\ Stored(objects[n], i).memory =
              {m \in objects[n].memory :
                 m.byte \notin FieldAt(objects[n].types, i)
                                 .. FieldAt(objects[n].types, i) + LLVMSize[objects[n].types[i]] - 1}
                \cup {[byte |-> FieldAt(objects[n].types, i) + k, field |-> i, k |-> k] :
                        k \in 0 .. LLVMSize[objects[n].types[i]] - 1}
  <2> HIDE DEF n, i
  <2> QED
    BY <1>1, StoredIs
<1>p. PICK o : o = Stored(objects[n], i)
  OBVIOUS
<1>q. PICK at : at = FieldAt(objects[n].types, i)
  OBVIOUS
<1>r. PICK f \in DOMAIN objects[n].types : f = i
  BY <1>1
<1>s. at \in Nat /\ LLVMSize[objects[n].types[f]] \in Nat
  <2> HIDE DEF n, i
  <2> QED
    BY <1>q, <1>r, <1>t, FieldEnds
<1> HIDE DEF i
<1>4. Placed(o)
  <2> SUFFICES ASSUME NEW m \in o.memory
               PROVE  \E j \in DOMAIN o.types :
                        m.byte \in FieldAt(o.types, j)
                                     .. FieldAt(o.types, j) + LLVMSize[o.types[j]] - 1
    BY DEF Placed
  <2>0. o.types = objects[n].types
    BY <1>3, <1>p
  <2>1. CASE m \in objects[n].memory
    <3>1. Placed(objects[n])
      BY <1>1 DEF ObjectsInv
    <3> QED
      BY <2>0, <2>1, <3>1 DEF Placed
  <2>2. CASE m \notin objects[n].memory
    <3>1. PICK k \in 0 .. LLVMSize[objects[n].types[f]] - 1 : m.byte = at + k
      BY <1>3, <1>p, <1>q, <1>r, <2>2
    <3>2. m.byte \in at .. at + LLVMSize[objects[n].types[f]] - 1
      BY <1>s, <3>1
    <3> QED
      BY <1>q, <1>r, <2>0, <3>2
  <2> QED
    BY <2>1, <2>2
<1>5. AsBuilt(o, n - 1)
  <2>1. AsBuilt(objects[n], n - 1)
    BY <1>1 DEF ObjectsInv
  <2>2. o.kind = objects[n].kind /\ o.types = objects[n].types /\ o.bytes = objects[n].bytes
        /\ o.tail = objects[n].tail
    BY <1>3, <1>p
  <2> QED
    BY <2>1, <2>2 DEF AsBuilt, IsCell
<1>6. /\ objects' \in Seq(Object) /\ Len(objects') = n /\ objects'[n] = o
      /\ \A j \in DOMAIN objects : j # n => objects'[j] = objects[j]
      /\ DOMAIN objects' = DOMAIN objects
  BY <1>1, <1>2, <1>3, <1>p
<1>7. o.types = objects[n].types
  BY <1>3, <1>p
<1> HIDE DEF n
<1>8. left' > 0 => objects' # <<>> /\ left' <= Len(objects'[Len(objects')].types)
  <2>1. Len(objects[n].types) \in Nat
    BY <1>t
  <2> QED
    BY <1>1, <1>2, <1>6, <1>7, <2>1
<1>9. \A j \in DOMAIN objects' : AsBuilt(objects'[j], j - 1) /\ Placed(objects'[j])
  <2> SUFFICES ASSUME NEW j \in DOMAIN objects PROVE AsBuilt(objects'[j], j - 1) /\ Placed(objects'[j])
    BY <1>6
  <2>1. CASE j = n
    BY <1>4, <1>5, <1>6, <2>1
  <2>2. CASE j # n
    <3>1. AsBuilt(objects[j], j - 1) /\ Placed(objects[j])
      BY DEF ObjectsInv
    <3> QED
      BY <1>6, <2>2, <3>1
  <2> QED
    BY <2>1, <2>2
<1> QED
  BY <1>1, <1>6, <1>8, <1>9 DEF ObjectsInv, AsBuilt, IsCell, Placed, TupleSize, FieldAt

LEMMA TupleSizeNat ==
  ASSUME NEW types \in Seq(Types)
  PROVE  TupleSize(types) \in Nat
BY LayoutsOf, StructSizeNat DEF TupleSize

LEMMA ObjectsInductive == Spec => []ObjectsInv
<1>1. Init => ObjectsInv
  BY DEF Init, ObjectsInv
<1>2. ObjectsInv /\ [Next]_vars => ObjectsInv'
  <2> SUFFICES ASSUME ObjectsInv, [Next]_vars PROVE ObjectsInv'
    OBVIOUS
  <2>0. Len(objects) \in Nat
    BY DEF ObjectsInv
  <2>1. ASSUME NEW t \in Elements, BuildCons(t) PROVE ObjectsInv'
    <3> DEFINE types == <<t, Pointer>>
               o == [kind |-> "cons", types |-> types, bytes |-> 16, tail |-> Len(objects),
                     memory |-> {}]
    <3>1. t \in Types
      BY LayoutAssumption
    <3>2. types \in Seq(Types)
      BY <3>1, PointerIs
    <3>3. o \in Object
      BY <2>0, <3>2 DEF Object
    <3>4. AsBuilt(o, Len(objects))
      BY DEF AsBuilt, IsCell
    <3>5. Malloc("cons", types, 16, Len(objects))
      BY <2>1 DEF BuildCons
    <3> QED
      BY <3>3, <3>4, <3>5, MallocKeepsObjects
  <2>2. ASSUME NEW types \in Payloads, BuildPayload(types) PROVE ObjectsInv'
    <3> DEFINE o == [kind |-> "payload", types |-> types, bytes |-> TupleSize(types), tail |-> 0,
                     memory |-> {}]
    <3>1. types \in Seq(Types)
      BY LayoutAssumption
    <3>2. o \in Object
      BY <3>1, TupleSizeNat DEF Object
    <3>3. AsBuilt(o, Len(objects))
      BY DEF AsBuilt
    <3>4. Malloc("payload", types, TupleSize(types), 0)
      BY <2>2 DEF BuildPayload
    <3> QED
      BY <3>2, <3>3, <3>4, MallocKeepsObjects
  <2>3. ASSUME NEW types \in Environments, BuildEnv(types) PROVE ObjectsInv'
    <3> DEFINE o == [kind |-> "env", types |-> types, bytes |-> 8 * Len(types), tail |-> 0,
                     memory |-> {}]
    <3>1. types \in Seq(Types)
      BY LayoutAssumption
    <3>2. o \in Object
      <4>1. 8 * Len(types) \in Nat
        BY <3>1
      <4> QED
        BY <3>1, <4>1 DEF Object
    <3>3. AsBuilt(o, Len(objects))
      BY DEF AsBuilt
    <3>4. Malloc("env", types, 8 * Len(types), 0)
      BY <2>3 DEF BuildEnv
    <3> QED
      BY <3>2, <3>3, <3>4, MallocKeepsObjects
  <2>4. CASE StoreField
    BY <2>4, StoreKeepsObjects
  <2>5. ASSUME objects' = objects, left' = left PROVE ObjectsInv'
    BY <2>5 DEF ObjectsInv
  <2>6. CASE ReturnList
    BY <2>5, <2>6 DEF ReturnList
  <2>7. CASE FollowTail
    BY <2>5, <2>7 DEF FollowTail
  <2>8. CASE UNCHANGED vars
    BY <2>5, <2>8 DEF vars
  <2> QED
    BY <2>1, <2>2, <2>3, <2>4, <2>6, <2>7, <2>8 DEF Next
<1> QED
  BY <1>1, <1>2, PTL DEF Spec

(***************************************************************************)
(* No field is stored outside of the bytes allocated for it: in payloads   *)
(* of any types (build_payload, enums.rs:51), in cons cells and            *)
(* environments of fields no wider than a pointer (lists.rs:189,           *)
(* closures.rs:415), for any number of fields and any nesting of structs.  *)
(***************************************************************************)
THEOREM FieldsStayInside ==
  ASSUME NarrowFields
  PROVE  Spec => []FieldsFit
<1>1. ObjectsInv => FieldsFit
  <2> SUFFICES ASSUME ObjectsInv, NEW i \in DOMAIN objects, NEW m \in objects[i].memory
               PROVE  m.byte < objects[i].bytes
    BY DEF FieldsFit
  <2>1. objects[i] \in Object /\ AsBuilt(objects[i], i - 1) /\ Placed(objects[i])
    BY DEF ObjectsInv
  <2>2. PICK o : o = objects[i]
    OBVIOUS
  <2>3. o.types \in Seq(Types) /\ o.bytes \in Nat
    BY <2>1, <2>2 DEF Object
  <2>4. PICK j \in DOMAIN o.types :
               m.byte \in FieldAt(o.types, j) .. FieldAt(o.types, j) + LLVMSize[o.types[j]] - 1
    BY <2>1, <2>2 DEF Placed
  <2>5. FieldAt(o.types, j) \in Nat /\ LLVMSize[o.types[j]] \in Nat
    BY <2>3, FieldEnds
  <2>6. FieldAt(o.types, j) + LLVMSize[o.types[j]] <= o.bytes
    BY <2>1, <2>2, <2>3, BuiltToFit
  <2>7. m.byte < o.bytes
    BY <2>3, <2>4, <2>5, <2>6
  <2> QED
    BY <2>2, <2>7
<1> QED
  BY <1>1, ObjectsInductive, PTL

-----------------------------------------------------------------------------
(* Reading a list back: the invariant of cells and of the walk.            *)

(* The tail of a cell lies where execute reads it.                         *)
TailIsRead(o) ==
  BytesRead(o, TailOffset) = {[byte |-> TailOffset + k, field |-> 2, k |-> k] : k \in 0 .. 7}

OnlyCells == \A i \in DOMAIN objects : objects[i].kind = "cons"

WalkInv ==
  /\ Len(objects) > 1 => OnlyCells
  /\ \A i \in DOMAIN objects :
       objects[i].kind = "cons" /\ (i < Len(objects) \/ left = 0) => TailIsRead(objects[i])
  /\ walk \in Seq(Int)
  /\ walk # <<>> => left = 0 /\ OnlyCells /\ objects # <<>>
  /\ WalksTheList
  /\ reading => walk # <<>> /\ Len(walk) <= Len(objects)

(* The head of a cell takes the first 8 bytes, the tail the next.          *)
LEMMA TailAt ==
  ASSUME NEW t \in Types, LLVMSize[t] \in 1 .. 8
  PROVE  FieldAt(<<t, Pointer>>, 2) = 8
<1> DEFINE types == <<t, Pointer>>
           f == Ends(LLVMSizes(types), LLVMAligns(types))
<1>1. types \in Seq(Types) /\ Len(types) = 2 /\ types[1] = t /\ types[2] = Pointer
  BY PointerIs
<1>2. /\ f \in [0 .. 2 -> Nat]
      /\ \A j \in 0 .. 2 : f[j] = EndAfter(LLVMSizes(types), LLVMAligns(types), f, j)
  <2> HIDE DEF types
  <2> QED
    BY <1>1, LayoutsOf, EndsEquation
<1>3. /\ LLVMSizes(types)[1] = LLVMSize[t] /\ LLVMAligns(types)[1] \in Alignments
      /\ LLVMAligns(types)[2] = 8
  <2> HIDE DEF types
  <2>1. 1 \in 1 .. Len(types) /\ 2 \in 1 .. Len(types)
    BY <1>1
  <2>2. LLVMSizes(types)[1] = LLVMSize[types[1]] /\ LLVMAligns(types)[2] = LLVMAlign[types[2]]
    BY <1>1, <2>1, LayoutsOf
  <2>4. LLVMAligns(types)[1] \in Alignments
    <3>1. LLVMAligns(types)[1] = LLVMAlign[t]
      BY <1>1, <2>1, LayoutsOf
    <3> QED
      BY <3>1, LLVMAlignEquation
  <2> QED
    BY <1>1, <2>2, <2>4, PointerIs
<1> HIDE DEF f, types
<1>4. f[0] = 0
  BY <1>2 DEF EndAfter
<1>5. f[1] = RoundUp(f[0], LLVMAligns(types)[1]) + LLVMSizes(types)[1]
  BY <1>2 DEF EndAfter
<1>6. RoundUp(0, LLVMAligns(types)[1]) = 0
  BY <1>3 DEF RoundUp, Alignments
<1>7. f[1] \in 1 .. 8
  BY <1>3, <1>4, <1>5, <1>6
<1>8. RoundUp(f[1], 8) = 8
  BY <1>7 DEF RoundUp
<1>9. FieldAt(types, 2) = RoundUp(f[1], 8)
  BY <1>3 DEF FieldAt, Offset, f
<1> QED
  BY <1>8, <1>9 DEF types

LEMMA CellsAre ==
  ASSUME ObjectsInv, NEW i \in DOMAIN objects, objects[i].kind = "cons"
  PROVE  objects[i] \in Object /\ IsCell(objects[i], i - 1)
BY DEF ObjectsInv, AsBuilt

(* Once its second field is stored, the tail of a cell is there whole,     *)
(* whatever the first field left.                                          *)
LEMMA TailIsStored ==
  ASSUME \A t \in Elements : LLVMSize[t] \in 1 .. 8,
         NEW o \in Object, NEW tail, IsCell(o, tail)
  PROVE  TailIsRead(Stored(o, 2))
<1>1. PICK t \in Elements : o.types = <<t, Pointer>>
  BY DEF IsCell
<1>2. t \in Types /\ LLVMSize[t] \in 1 .. 8
  BY LayoutAssumption
<1>3. FieldAt(o.types, 2) = 8 /\ LLVMSize[o.types[2]] = 8 /\ 2 \in DOMAIN o.types
  <2>1. o.types[2] = Pointer /\ 2 \in DOMAIN o.types
    BY <1>1
  <2> QED
    BY <1>1, <1>2, <2>1, TailAt, PointerIs
<1>4. Stored(o, 2).memory = {m \in o.memory : m.byte \notin 8 .. 15}
                              \cup {[byte |-> 8 + k, field |-> 2, k |-> k] : k \in 0 .. 7}
  <2>1. 8 + 8 - 1 = 15 /\ 8 - 1 = 7
    OBVIOUS
  <2> QED
    BY <1>3, <2>1, StoredIs
<1>5. \A k \in 0 .. 7 : [byte |-> 8 + k, field |-> 2, k |-> k].byte \in 8 .. 15
  OBVIOUS
<1>6. {m \in Stored(o, 2).memory : m.byte \in 8 .. 15}
        = {[byte |-> 8 + k, field |-> 2, k |-> k] : k \in 0 .. 7}
  BY <1>4, <1>5
<1> QED
  BY <1>6 DEF TailIsRead, BytesRead, TailOffset

LEMMA WalkInductive ==
  ASSUME \A t \in Elements : LLVMSize[t] \in 1 .. 8
  PROVE  Spec => []WalkInv
<1>1. Init => WalkInv
  BY DEF Init, WalkInv, WalksTheList, OnlyCells
<1>2. ObjectsInv /\ WalkInv /\ [Next]_vars => WalkInv'
  <2> SUFFICES ASSUME ObjectsInv, WalkInv, [Next]_vars PROVE WalkInv'
    OBVIOUS
  <2>0. objects \in Seq(Object) /\ Len(objects) \in Nat /\ left \in Nat /\ walk \in Seq(Int)
    BY DEF ObjectsInv, WalkInv
  <2>1. ASSUME NEW kind, NEW types, NEW bytes, NEW tail, Malloc(kind, types, bytes, tail),
               kind = "cons" => OnlyCells /\ Len(types) # 0,
               kind # "cons" => objects = <<>>
        PROVE  WalkInv'
    <3> DEFINE o == [kind |-> kind, types |-> types, bytes |-> bytes, tail |-> tail, memory |-> {}]
               n == Len(objects)
    <3>1. /\ objects' = Append(objects, o) /\ o.kind = kind
          /\ left = 0 /\ walk = <<>> /\ walk' = walk /\ reading' = reading
          /\ left' = Len(types)
      BY <2>1 DEF Malloc
    <3> HIDE DEF o
    <3>2. /\ Len(objects') = n + 1 /\ objects'[n + 1] = o /\ DOMAIN objects' = 1 .. n + 1
          /\ \A i \in 1 .. n : objects'[i] = objects[i]
          /\ DOMAIN objects = 1 .. n /\ n \in Nat
      BY <2>0, <3>1
    <3> HIDE DEF n
    <3>3. Len(objects') > 1 => OnlyCells'
      <4> SUFFICES ASSUME n > 0, NEW i \in 1 .. n + 1 PROVE objects'[i].kind = "cons"
        BY <3>2 DEF OnlyCells
      <4>1. kind = "cons" /\ OnlyCells
        <5>1. objects # <<>>
          BY <3>2
        <5> QED
          BY <5>1, <2>1
      <4>2. CASE i = n + 1
        BY <3>1, <3>2, <4>1, <4>2
      <4>3. CASE i # n + 1
        <5>1. i \in 1 .. n
          BY <3>2, <4>3
        <5> QED
          BY <5>1, <3>2, <4>1 DEF OnlyCells
      <4> QED
        BY <4>2, <4>3
    <3>4. ASSUME NEW i \in DOMAIN objects', objects'[i].kind = "cons",
                 i < Len(objects') \/ left' = 0
          PROVE  TailIsRead(objects'[i])
      <4>1. CASE i = n + 1
        BY <2>1, <3>1, <3>2, <3>4, <4>1
      <4>2. CASE i # n + 1
        <5>1. i \in 1 .. n /\ i \in DOMAIN objects /\ objects'[i] = objects[i]
          BY <3>2, <4>2
        <5> QED
          BY <5>1, <3>1, <3>4 DEF WalkInv
      <4> QED
        BY <4>1, <4>2
    <3>5. ~reading
      BY <3>1 DEF WalkInv
    <3>6. \A i \in DOMAIN objects' :
            objects'[i].kind = "cons" /\ (i < Len(objects') \/ left' = 0) => TailIsRead(objects'[i])
      BY <3>4
    <3>7. WalksTheList'
      BY <3>1 DEF WalksTheList
    <3> QED
      BY <3>1, <3>3, <3>5, <3>6, <3>7 DEF WalkInv, TailIsRead, BytesRead, TailOffset
  <2>2. ASSUME NEW t \in Elements, BuildCons(t) PROVE WalkInv'
    <3>1. OnlyCells /\ Malloc("cons", <<t, Pointer>>, 16, Len(objects))
      BY <2>2 DEF BuildCons, OnlyCells
    <3> QED
      BY <2>1, <3>1
  <2>3. ASSUME NEW types \in Payloads, BuildPayload(types) PROVE WalkInv'
    <3>1. objects = <<>> /\ Malloc("payload", types, TupleSize(types), 0)
      BY <2>3 DEF BuildPayload
    <3> QED
      BY <2>1, <3>1
  <2>4. ASSUME NEW types \in Environments, BuildEnv(types) PROVE WalkInv'
    <3>1. objects = <<>> /\ Malloc("env", types, 8 * Len(types), 0)
      BY <2>4 DEF BuildEnv
    <3> QED
      BY <2>1, <3>1
  <2>5. CASE StoreField
    <3> DEFINE n == Len(objects)
               f == Len(objects[n].types) - left + 1
    <3>1. /\ n \in DOMAIN objects /\ objects[n] \in Object /\ f \in DOMAIN objects[n].types
          /\ objects' = [objects EXCEPT ![n] = Stored(objects[n], f)]
          /\ left' = left - 1
      BY <2>5, StoreFieldIs
    <3>2. left > 0 /\ walk = <<>> /\ ~reading /\ walk' = walk /\ reading' = reading
      BY <2>0, <2>5 DEF StoreField, WalkInv
    <3>t. objects[n].types \in Seq(Types)
      BY <3>1 DEF Object
    <3>3. Stored(objects[n], f).kind = objects[n].kind /\ Stored(objects[n], f) \in Object
      <4> HIDE DEF f, n
      <4> QED
        BY <3>1, StoredIs
    <3>u. objects[n].kind = "cons" /\ left' = 0 => f = 2
      <4> SUFFICES ASSUME objects[n].kind = "cons", left' = 0 PROVE f = 2
        OBVIOUS
      <4>1. IsCell(objects[n], n - 1)
        BY <3>1, CellsAre
      <4>2. Len(objects[n].types) = 2
        BY <4>1 DEF IsCell
      <4> QED
        BY <2>0, <3>1, <4>2
    <3> HIDE DEF f
    <3>4. /\ Len(objects') = n /\ DOMAIN objects' = DOMAIN objects
          /\ objects'[n] = Stored(objects[n], f)
          /\ \A i \in DOMAIN objects : i # n => objects'[i] = objects[i]
      BY <2>0, <3>1, <3>3
    <3>5. \A i \in DOMAIN objects : objects'[i].kind = objects[i].kind
      BY <3>3, <3>4
    <3>6. Len(objects') > 1 => OnlyCells'
      BY <3>4, <3>5 DEF WalkInv, OnlyCells
    <3>7. ASSUME NEW i \in DOMAIN objects, objects'[i].kind = "cons", i < n \/ left' = 0
          PROVE  TailIsRead(objects'[i])
      <4>1. CASE i = n
        <5>1. objects[n].kind = "cons" /\ left' = 0
          BY <2>0, <3>5, <3>7, <4>1
        <5>2. IsCell(objects[n], n - 1)
          BY <3>1, <5>1, CellsAre
        <5>3. f = 2
          BY <3>u, <5>1
        <5> QED
          BY <3>1, <3>4, <4>1, <5>2, <5>3, TailIsStored
      <4>2. CASE i # n
        <5>1. i < n
          BY <2>0, <4>2
        <5> QED
          BY <3>4, <3>5, <3>7, <4>2, <5>1 DEF WalkInv
      <4> QED
        BY <4>1, <4>2
    <3>8. \A i \in DOMAIN objects' :
            objects'[i].kind = "cons" /\ (i < Len(objects') \/ left' = 0) => TailIsRead(objects'[i])
      BY <3>4, <3>7
    <3>9. WalksTheList'
      BY <3>2 DEF WalksTheList
    <3> HIDE DEF n
    <3> QED
      BY <3>2, <3>6, <3>8, <3>9 DEF WalkInv, TailIsRead, BytesRead, TailOffset
  <2>6. CASE ReturnList
    <3> DEFINE n == Len(objects)
    <3>1. /\ objects # <<>> /\ left = 0 /\ objects[n].kind = "cons"
          /\ reading' = TRUE /\ walk' = <<n>> /\ objects' = objects /\ left' = left
      BY <2>6 DEF ReturnList, Newest
    <3>2. OnlyCells
      BY <2>0, <3>1 DEF OnlyCells, WalkInv
    <3>3. walk' \in Seq(Int) /\ Len(walk') = 1 /\ walk'[1] = n /\ DOMAIN walk' = {1} /\ walk' # <<>>
      BY <2>0, <3>1
    <3>4. WalksTheList'
      <4>1. n = n - 1 + 1
        BY <2>0
      <4> QED
        BY <3>1, <3>3, <4>1 DEF WalksTheList
    <3>5. Len(walk') <= Len(objects')
      BY <2>0, <3>1, <3>3
    <3>6. OnlyCells'
      BY <3>1, <3>2 DEF OnlyCells
    <3> QED
      BY <3>1, <3>3, <3>4, <3>5, <3>6 DEF WalkInv, TailIsRead, BytesRead, TailOffset
  <2>7. CASE FollowTail
    <3> DEFINE n == Len(objects)
               l == Len(walk)
               j == n - l + 1
    <3>1. /\ reading /\ walk # <<>> /\ l <= n /\ left = 0 /\ OnlyCells
          /\ objects' = objects /\ left' = left
          /\ walk' = Append(walk, Tail8(objects[Last(walk)]))
          /\ reading' = (Last(walk') > 0)
      BY <2>7 DEF FollowTail, WalkInv
    <3>2. l \in 1 .. n /\ j \in 1 .. n /\ l \in DOMAIN walk /\ j \in DOMAIN objects
      BY <2>0, <3>1
    <3>3. Last(walk) = j
      BY <3>2 DEF Last, WalkInv, WalksTheList
    <3>4. objects[j].kind = "cons"
      BY <3>1, <3>2 DEF OnlyCells
    <3>5. TailIsRead(objects[j]) /\ IsCell(objects[j], j - 1)
      BY <3>1, <3>2, <3>4, CellsAre DEF WalkInv
    <3>6. Tail8(objects[j]) = j - 1
      BY <3>5 DEF Tail8, TailIsRead, IsCell
    <3>7. walk' = Append(walk, n - l)
      BY <2>0, <3>1, <3>2, <3>3, <3>6
    <3> HIDE DEF j
    <3>8. /\ walk' \in Seq(Int) /\ Len(walk') = l + 1 /\ walk' # <<>> /\ DOMAIN walk' = 1 .. l + 1
          /\ walk'[l + 1] = n - l /\ \A i \in 1 .. l : walk'[i] = walk[i]
      BY <2>0, <3>2, <3>7
    <3>9. WalksTheList'
      <4> SUFFICES ASSUME NEW i \in 1 .. l + 1 PROVE walk'[i] = n - i + 1
        BY <3>1, <3>8 DEF WalksTheList
      <4>1. CASE i = l + 1
        BY <2>0, <3>2, <3>8, <4>1
      <4>2. CASE i # l + 1
        <5>1. i \in 1 .. l /\ i \in DOMAIN walk
          BY <3>2, <4>2, <2>0
        <5>2. walk[i] = n - i + 1
          BY <5>1 DEF WalkInv, WalksTheList
        <5> QED
          BY <3>8, <5>1, <5>2
      <4> QED
        BY <4>1, <4>2
    <3>10. reading' => Len(walk') <= Len(objects')
      <4>1. Last(walk') = n - l
        BY <3>8 DEF Last
      <4>2. reading' => Last(walk') > 0
        BY <3>1, Zenon
      <4> QED
        BY <2>0, <3>1, <3>2, <3>8, <4>1, <4>2
    <3>11. OnlyCells' /\ objects' # <<>>
      BY <2>0, <3>1, <3>2 DEF OnlyCells
    <3> HIDE DEF n, l
    <3> QED
      BY <3>1, <3>8, <3>9, <3>10, <3>11 DEF WalkInv, TailIsRead, BytesRead, TailOffset
  <2>8. CASE UNCHANGED vars
    BY <2>8 DEF vars, WalkInv, WalksTheList, OnlyCells
  <2> QED
    BY <2>2, <2>3, <2>4, <2>5, <2>6, <2>7, <2>8 DEF Next
<1> QED
  BY <1>1, <1>2, ObjectsInductive, PTL DEF Spec

(***************************************************************************)
(* execute walks a returned list by a tail at offset 8 of every cell       *)
(* (execute.rs:196) from its first cell to its end, for lists of any       *)
(* length whose heads take some bytes and at most a pointer's.             *)
(***************************************************************************)
THEOREM WalkFollowsTails ==
  ASSUME \A t \in Elements : LLVMSize[t] \in 1 .. 8
  PROVE  Spec => []WalksTheList
<1>1. WalkInv => WalksTheList
  BY DEF WalkInv
<1> QED
  BY <1>1, WalkInductive, PTL
=============================================================================
