---------------------------- MODULE MatchingProofs ----------------------------
(***************************************************************************)
(* When the cases of a match cover its type, the body that runs is that of *)
(* the first case that matches, with the parts of the scrutinee in its     *)
(* names, and nothing is loaded through a null pointer on the way.         *)
(***************************************************************************)
EXTENDS Matching, SequenceTheorems, WellFoundedInduction, TLAPS

-----------------------------------------------------------------------------
(* Functions that are defined by their values for what is ranked lower     *)
(* exist.                                                                  *)

LessThan == {pair \in Nat \X Nat : pair[1] < pair[2]}

LEMMA Least ==
  ASSUME NEW T \in SUBSET Nat, T # {}
  PROVE  \E m \in T : \A k \in T : m <= k
<1>1. IsWellFoundedOn(LessThan, Nat)
  BY NatLessThanWellFounded DEF OpToRel, LessThan
<1>2. PICK m \in T : \A k \in T : <<k, m>> \notin LessThan
  BY <1>1, WFMin
<1>3. ASSUME NEW k \in T PROVE m <= k
  <2>1. <<k, m>> \in Nat \X Nat
    OBVIOUS
  <2>2. ~ (k < m)
    BY <1>2, <2>1 DEF LessThan
  <2> QED
    BY <2>2
<1> QED
  BY <1>3

(* Induction over Nat, for a set of good numbers.                          *)
LEMMA Induction ==
  ASSUME NEW Good, 0 \in Good, \A n \in Nat : n \in Good => n + 1 \in Good
  PROVE  Nat \subseteq Good
<1> DEFINE Bad == {n \in Nat : n \notin Good}
<1> SUFFICES ASSUME Bad # {} PROVE FALSE
  OBVIOUS
<1>1. PICK m \in Bad : \A k \in Bad : m <= k
  <2>1. Bad \in SUBSET Nat
    OBVIOUS
  <2> HIDE DEF Bad
  <2> QED
    BY <2>1, Least
<1>2. m \in Nat /\ m # 0
  OBVIOUS
<1>3. m - 1 \in Nat /\ m - 1 \notin Bad
  BY <1>1, <1>2
<1>4. m - 1 \in Good
  BY <1>3
<1>5. (m - 1) + 1 \in Good
  BY <1>3, <1>4
<1>6. m \in Good
  BY <1>2, <1>5
<1> QED
  BY <1>6

Ranked(rank, D) == rank \in [D -> Nat]

(* A step that looks at a function's values for what is ranked lower only. *)
FromBelow(step, rank, D, S) ==
  /\ step \in [[D -> S] \X D -> S]
  /\ \A f, g \in [D -> S] : \A d \in D :
       (\A e \in D : rank[e] < rank[d] => f[e] = g[e]) => step[<<f, d>>] = step[<<g, d>>]

Follows(f, step, D) == \A d \in D : f[d] = step[<<f, d>>]

LEMMA Recursion ==
  ASSUME NEW D, NEW S, NEW zero \in S, NEW rank, Ranked(rank, D), NEW step, FromBelow(step, rank, D, S)
  PROVE  \E f \in [D -> S] : Follows(f, step, D)
<1> DEFINE Fns == [D -> S]
           UpTo(f, n) == \A d \in D : rank[d] < n => f[d] = step[<<f, d>>]
<1>0. /\ \A d \in D : rank[d] \in Nat
      /\ \A f \in Fns : \A d \in D : step[<<f, d>>] \in S
  BY DEF Ranked, FromBelow
<1>00. \A f, g \in Fns : \A d \in D :
         (\A e \in D : rank[e] < rank[d] => f[e] = g[e]) => step[<<f, d>>] = step[<<g, d>>]
  BY DEF FromBelow
<1>1. ASSUME NEW n \in Nat PROVE \E f \in Fns : UpTo(f, n)
  <2> DEFINE Good == {k \in Nat : \E f \in Fns : UpTo(f, k)}
  <2>1. 0 \in Good
    <3> DEFINE none == [d \in D |-> zero]
    <3>1. none \in Fns /\ \A d \in D : ~(rank[d] < 0)
      BY <1>0
    <3> HIDE DEF none
    <3> QED
      BY <3>1
  <2>2. ASSUME NEW k \in Nat, k \in Good PROVE k + 1 \in Good
    <3>1. PICK f \in Fns : UpTo(f, k)
      BY <2>2
    <3> DEFINE g == [d \in D |-> step[<<f, d>>]]
    <3>2. g \in Fns /\ \A d \in D : g[d] = step[<<f, d>>]
      BY <1>0
    <3> HIDE DEF g
    <3>3. ASSUME NEW d \in D, rank[d] < k + 1 PROVE g[d] = step[<<g, d>>]
      <4>1. ASSUME NEW e \in D, rank[e] < rank[d] PROVE g[e] = f[e]
        <5>1. rank[e] < k
          BY <1>0, <3>3, <4>1
        <5> QED
          BY <3>1, <3>2, <5>1
      <4>2. step[<<g, d>>] = step[<<f, d>>]
        BY <1>00, <3>2, <4>1
      <4> QED
        BY <3>2, <4>2
    <3> QED
      BY <3>2, <3>3
  <2> HIDE DEF Good
  <2>3. n \in Good
    BY <2>1, <2>2, Induction
  <2> QED
    BY <2>3 DEF Good
<1>2. ASSUME NEW f \in Fns, NEW g \in Fns, NEW n \in Nat, UpTo(f, n), UpTo(g, n)
      PROVE  \A d \in D : rank[d] < n => f[d] = g[d]
  <2> DEFINE Good == {k \in Nat : k <= n => \A d \in D : rank[d] < k => f[d] = g[d]}
  <2>1. 0 \in Good
    BY <1>0
  <2>2. ASSUME NEW k \in Nat, k \in Good PROVE k + 1 \in Good
    <3> SUFFICES ASSUME k + 1 <= n, NEW d \in D, rank[d] < k + 1 PROVE f[d] = g[d]
      OBVIOUS
    <3>1. \A e \in D : rank[e] < rank[d] => f[e] = g[e]
      <4> SUFFICES ASSUME NEW e \in D, rank[e] < rank[d] PROVE f[e] = g[e]
        OBVIOUS
      <4>1. rank[e] < k /\ k <= n
        BY <1>0
      <4> QED
        BY <2>2, <4>1
    <3>2. step[<<f, d>>] = step[<<g, d>>]
      BY <1>00, <3>1
    <3>3. rank[d] < n
      BY <1>0
    <3> QED
      BY <1>2, <3>2, <3>3
  <2> HIDE DEF Good
  <2>3. n \in Good
    BY <2>1, <2>2, Induction
  <2> QED
    BY <2>3 DEF Good
<1> DEFINE at == [n \in Nat |-> CHOOSE f \in Fns : UpTo(f, n)]
           limit == [d \in D |-> at[rank[d] + 1][d]]
<1>3. ASSUME NEW n \in Nat PROVE at[n] \in Fns /\ UpTo(at[n], n)
  <2>1. at[n] = CHOOSE f \in Fns : UpTo(f, n)
    OBVIOUS
  <2> HIDE DEF UpTo, at, Fns
  <2> QED
    BY <1>1, <2>1
<1> HIDE DEF at
<1>4. limit \in Fns /\ \A d \in D : limit[d] = at[rank[d] + 1][d]
  <2>1. \A d \in D : at[rank[d] + 1][d] \in S
    <3> SUFFICES ASSUME NEW d \in D PROVE at[rank[d] + 1][d] \in S
      OBVIOUS
    <3>1. at[rank[d] + 1] \in Fns
      BY <1>0, <1>3
    <3> QED
      BY <3>1
  <2> QED
    BY <2>1
<1> HIDE DEF limit
<1>5. ASSUME NEW d \in D PROVE limit[d] = step[<<limit, d>>]
  <2> DEFINE n == rank[d] + 1
  <2>1. n \in Nat /\ rank[d] < n
    BY <1>0
  <2>2. at[n] \in Fns /\ at[n][d] = step[<<at[n], d>>] /\ UpTo(at[n], n)
    BY <1>3, <2>1
  <2>3. ASSUME NEW e \in D, rank[e] < rank[d] PROVE limit[e] = at[n][e]
    <3> DEFINE k == rank[e] + 1
    <3>1. k \in Nat /\ k <= n /\ rank[e] < k
      BY <1>0, <2>3
    <3>2. at[k] \in Fns /\ UpTo(at[k], k)
      BY <1>3, <3>1
    <3>3. UpTo(at[n], k)
      <4> SUFFICES ASSUME NEW u \in D, rank[u] < k PROVE at[n][u] = step[<<at[n], u>>]
        OBVIOUS
      <4>1. rank[u] \in Nat
        BY <1>0
      <4>2. rank[u] < n
        <5> HIDE DEF k, n
        <5> QED
          BY <2>1, <3>1, <4>1
      <4> QED
        BY <2>2, <4>2
    <3> HIDE DEF k, n, UpTo, Fns
    <3>4. at[k][e] = at[n][e]
      BY <1>2, <2>2, <3>1, <3>2, <3>3
    <3> QED
      BY <1>4, <3>1, <3>4 DEF k
  <2>4. step[<<limit, d>>] = step[<<at[n], d>>]
    <3> HIDE DEF n
    <3> QED
      BY <1>00, <2>2, <2>3, <1>4
  <2> QED
    BY <2>2, <2>4, <1>4
<1> QED
  BY <1>4, <1>5 DEF Follows

-----------------------------------------------------------------------------
(* Sequences put one after another                                         *)

(* f[i] is the first i sequences, one after another.                       *)
IsConcat(f, seqs, i) == f[i] = IF i = 1 THEN seqs[1] ELSE f[i - 1] \o seqs[i]

LEMMA ConcatsExist ==
  ASSUME NEW S, NEW seqs \in Seq(Seq(S))
  PROVE  \E f \in [1 .. Len(seqs) -> Seq(S)] : \A i \in 1 .. Len(seqs) : IsConcat(f, seqs, i)
<1> DEFINE n == Len(seqs)
           Fns == [1 .. n -> Seq(S)]
           UpTo(f, k) == \A i \in 1 .. k : IsConcat(f, seqs, i)
           Bad == {k \in 0 .. n : ~ \E f \in Fns : UpTo(f, k)}
<1>1. n \in Nat /\ \A i \in 1 .. n : seqs[i] \in Seq(S)
  OBVIOUS
<1>2. 0 \notin Bad
  <2>1. seqs \in Fns /\ UpTo(seqs, 0)
    BY <1>1
  <2> QED  BY <2>1
<1>3. ASSUME NEW k \in 0 .. n, k + 1 \in 0 .. n, k \notin Bad
      PROVE  k + 1 \notin Bad
  <2>1. PICK f \in Fns : UpTo(f, k)
    BY <1>3
  <2> DEFINE v == IF k = 0 THEN seqs[1] ELSE f[k] \o seqs[k + 1]
             g == [f EXCEPT ![k + 1] = v]
  <2>2. v \in Seq(S)
    <3>1. CASE k = 0
      BY <1>1, <1>3, <3>1
    <3>2. CASE k # 0
      <4>1. k \in 1 .. n /\ k + 1 \in 1 .. n
        BY <1>1, <1>3, <3>2
      <4>2. f[k] \in Seq(S) /\ seqs[k + 1] \in Seq(S)
        BY <4>1, <1>1
      <4>3. f[k] \o seqs[k + 1] \in Seq(S)
        BY <4>2
      <4> QED  BY <3>2, <4>3
    <3> QED  BY <3>1, <3>2
  <2>3. g \in Fns
    BY <2>2
  <2>4. ASSUME NEW i \in 1 .. k + 1
        PROVE  IsConcat(g, seqs, i)
    <3>1. CASE i = k + 1
      <4>1. g[i] = v /\ (k # 0 => g[i - 1] = f[k]) /\ (k = 0 <=> i = 1)
        BY <3>1, <1>1, <1>3
      <4> QED  BY <4>1, <3>1 DEF IsConcat
    <3>2. CASE i # k + 1
      <4>1. i \in 1 .. k
        BY <3>2, <1>1
      <4>2. g[i] = f[i] /\ (i # 1 => g[i - 1] = f[i - 1])
        BY <4>1, <1>1, <1>3
      <4>3. IsConcat(f, seqs, i)
        BY <2>1, <4>1
      <4> HIDE DEF g
      <4> QED  BY <4>2, <4>3 DEF IsConcat
    <3> QED  BY <3>1, <3>2
  <2> HIDE DEF g
  <2> QED  BY <2>3, <2>4
<1>4. Bad = {}
  <2> SUFFICES ASSUME Bad # {} PROVE FALSE
    OBVIOUS
  <2>1. PICK m \in Bad : \A k \in Bad : m <= k
    <3>1. Bad \in SUBSET Nat
      BY <1>1
    <3> HIDE DEF Bad
    <3> QED  BY <3>1, Least
  <2>2. m \in 0 .. n /\ m # 0
    BY <1>2
  <2>3. m - 1 \in 0 .. n /\ (m - 1) + 1 = m
    BY <2>2, <1>1
  <2>4. m - 1 \notin Bad
    <3> HIDE DEF Bad
    <3> QED  BY <2>1, <2>2, <2>3
  <2> HIDE DEF Bad
  <2> QED  BY <1>3, <2>2, <2>3, <2>4
<1>5. n \notin Bad
  BY <1>4
<1> QED  BY <1>1, <1>5

LEMMA FlattenIs ==
  ASSUME NEW S, NEW seqs \in Seq(Seq(S)), Len(seqs) # 0,
         NEW f, f = [i \in 1 .. Len(seqs) |-> f[i]],
         \A i \in 1 .. Len(seqs) : IsConcat(f, seqs, i)
  PROVE  FlattenSeq(seqs) = f[Len(seqs)]
<1> DEFINE n == Len(seqs)
           Fixed(g) == g = [i \in 1 .. Len(seqs) |-> IF i = 1 THEN seqs[i] ELSE g[i - 1] \o seqs[i]]
<1>1. n \in Nat
  OBVIOUS
<1>2. Fixed(f)
  BY DEF IsConcat
<1>3. FlattenSeq(seqs) = (CHOOSE g : Fixed(g))[n]
  BY DEF FlattenSeq
<1>4. PICK h : h = CHOOSE g : Fixed(g)
  OBVIOUS
<1>5. Fixed(h)
  <2> HIDE DEF Fixed
  <2> QED  BY <1>2, <1>4
<1>6. \A i \in 1 .. n : IsConcat(h, seqs, i)
  BY <1>5 DEF IsConcat
<1> DEFINE Bad == {i \in 1 .. n : h[i] # f[i]}
<1>7. Bad = {}
  <2> SUFFICES ASSUME Bad # {} PROVE FALSE
    OBVIOUS
  <2>1. PICK m \in Bad : \A k \in Bad : m <= k
    <3>1. Bad \in SUBSET Nat
      BY <1>1
    <3> HIDE DEF Bad
    <3> QED  BY <3>1, Least
  <2>2. m \in 1 .. n /\ h[m] # f[m]
    OBVIOUS
  <2>3. m # 1
    BY <1>6, <2>2 DEF IsConcat
  <2>4. m - 1 \in 1 .. n /\ m - 1 < m
    BY <1>1, <2>2, <2>3
  <2>5. h[m - 1] = f[m - 1]
    <3>1. m - 1 \notin Bad
      <4> HIDE DEF Bad
      <4> QED  BY <2>1, <2>4, <2>2
    <3> QED  BY <3>1, <2>4
  <2> QED  BY <1>6, <2>2, <2>3, <2>5 DEF IsConcat
<1>8. h[n] = f[n]
  <2>1. n \in 1 .. n
    BY <1>1
  <2> QED  BY <1>7, <2>1
<1> HIDE DEF Fixed
<1> QED  BY <1>3, <1>4, <1>8


-----------------------------------------------------------------------------
(* Patterns and the values that they are matched against                   *)

LEMMA PatternShape ==
  ASSUME NEW p \in Patterns
  PROVE  /\ p.k \in {"any", "literal", "empty", "cons", "ctor", "tuple", "record"}
         /\ p.label \in STRING
         /\ Depth(p) \in Nat
         /\ p.parts \in Seq([p : Patterns, at : Nat \ {0}, l : STRING])
         /\ Len(p.parts) \in Nat /\ DOMAIN p.parts = 1 .. Len(p.parts)
         /\ p.k \in {"any", "literal", "empty"} => p.parts = <<>>
         /\ p.k = "any" => p.label # Faulted
         /\ \A i \in DOMAIN p.parts :
              p.parts[i].p \in Patterns /\ Depth(p.parts[i].p) \in Nat /\ Depth(p.parts[i].p) < Depth(p)
<1> DEFINE R == [p : Patterns, at : Nat \ {0}, l : STRING]
           K == {"any", "literal", "empty", "cons", "ctor", "tuple", "record"}
           T == {q.typ : q \in Patterns}
<1>1. p \in [k : K, label : STRING, typ : T, parts : Seq(R)]
  BY MatchingAssumption DEF PatternsOf
<1>2. p.k \in K /\ p.label \in STRING /\ p.parts \in Seq(R)
  <2> HIDE DEF R, K, T
  <2> QED
    BY <1>1
<1>3. Len(p.parts) \in Nat /\ DOMAIN p.parts = 1 .. Len(p.parts) /\ \A i \in DOMAIN p.parts : p.parts[i] \in R
  <2> HIDE DEF R
  <2> QED
    BY <1>2
<1>4. \A i \in DOMAIN p.parts : p.parts[i].p \in Patterns
  BY <1>3
<1>5. /\ Depth(p) \in Nat
      /\ \A i \in DOMAIN p.parts : Depth(p.parts[i].p) < Depth(p)
      /\ p.k \in {"any", "literal", "empty"} => p.parts = <<>>
      /\ p.k = "any" => p.label # Faulted
  BY MatchingAssumption
<1>6. \A i \in DOMAIN p.parts : Depth(p.parts[i].p) \in Nat
  BY <1>4, MatchingAssumption
<1> QED
  BY <1>2, <1>3, <1>4, <1>5, <1>6

LEMMA LoadShape ==
  ASSUME NEW x \in Loads
  PROVE  /\ x = <<x[1], x[2]>>
         /\ x[1] \in Patterns
         /\ x[2] \in Memory \cup {Undefined}
         /\ x[2] = Undefined \/ x[2] \in ValuesOf(x[1].typ)
BY DEF Loads

LEMMA LoadIn ==
  ASSUME NEW p \in Patterns, NEW v, v = Undefined \/ v \in ValuesOf(p.typ)
  PROVE  <<p, v>> \in Loads
<1>1. v \in Memory \cup {Undefined}
  BY DEF Memory
<1> QED
  BY <1>1 DEF Loads

(* What the test of a pattern lets through is made as the pattern is, and  *)
(* has its parts where they are loaded from.                               *)
LEMMA Typed ==
  ASSUME WellTyped, NEW p \in Patterns, NEW v \in ValuesOf(p.typ)
  PROVE  /\ v # Undefined
         /\ Passes(p, v) <=> MadeAs(p, v)
         /\ MadeAs(p, v) => \A i \in DOMAIN p.parts :
              /\ Load(v, p.parts[i].at) = PartOf(p, v, i)
              /\ PartOf(p, v, i) \in ValuesOf(p.parts[i].p.typ)
              /\ <<p.parts[i].p, PartOf(p, v, i)>> \in Loads
<1>1. /\ v # Undefined
      /\ p.k # "any" => v.k \in MayHold(p)
      /\ MadeAs(p, v) => \A i \in DOMAIN p.parts :
           /\ Load(v, p.parts[i].at) = PartOf(p, v, i)
           /\ PartOf(p, v, i) \in ValuesOf(p.parts[i].p.typ)
  BY DEF WellTyped
<1>2. Passes(p, v) <=> MadeAs(p, v)
  BY <1>1, PatternShape DEF Passes, MadeAs, MayHold
<1>3. ASSUME MadeAs(p, v), NEW i \in DOMAIN p.parts
      PROVE  <<p.parts[i].p, PartOf(p, v, i)>> \in Loads
  BY <1>1, <1>3, LoadIn, PatternShape
<1> QED
  BY <1>1, <1>2, <1>3

-----------------------------------------------------------------------------
(* The recursive functions, unfolded once                                  *)

DepthOf == [x \in Loads |-> Depth(x[1])]

LEMMA LoadsRanked ==
  Ranked(DepthOf, Loads) /\ \A p \in Patterns : \A v : <<p, v>> \in Loads => DepthOf[<<p, v>>] = Depth(p)
<1>1. \A x \in Loads : DepthOf[x] = Depth(x[1]) /\ Depth(x[1]) \in Nat
  BY LoadShape, PatternShape DEF DepthOf
<1>2. DepthOf \in [Loads -> Nat]
  BY <1>1 DEF DepthOf
<1> QED
  BY <1>1, <1>2 DEF Ranked

(* The parts that pattern x[1] loads of the value x[2].                    *)
Below(x, i) == <<x[1].parts[i].p, Load(x[2], x[1].parts[i].at)>>

LEMMA BelowIn ==
  ASSUME WellTyped, NEW x \in Loads, x[2] # Undefined, Passes(x[1], x[2]), NEW i \in DOMAIN x[1].parts
  PROVE  Below(x, i) \in Loads /\ DepthOf[Below(x, i)] < DepthOf[x]
<1> DEFINE p == x[1]
           v == x[2]
<1>1. p \in Patterns /\ v \in ValuesOf(p.typ) /\ x = <<p, v>>
  BY LoadShape
<1>2. Load(v, p.parts[i].at) = PartOf(p, v, i) /\ <<p.parts[i].p, PartOf(p, v, i)>> \in Loads
  BY <1>1, Typed
<1>3. p.parts[i].p \in Patterns /\ Depth(p.parts[i].p) < Depth(p)
  BY <1>1, PatternShape
<1>4. Below(x, i) \in Loads
  BY <1>2 DEF Below
<1>5. DepthOf[Below(x, i)] = Depth(p.parts[i].p) /\ DepthOf[x] = Depth(p)
  BY <1>1, <1>3, <1>4, LoadsRanked DEF Below
<1> QED
  BY <1>3, <1>4, <1>5

CondBelow(f, x) ==
  IF x[2] = Undefined THEN "fault"
  ELSE Guarded(x[1], x[2], [i \in DOMAIN x[1].parts |-> f[Below(x, i)]])

LEMMA CondEquation ==
  ASSUME WellTyped
  PROVE  \A x \in Loads : Cond[x] = CondBelow(Cond, x)
<1> DEFINE S == {"yes", "no", "fault"}
           Fns == [Loads -> S]
           Fixed(f) == f = [x \in Loads |->
             IF x[2] = Undefined THEN "fault"
             ELSE Guarded(x[1], x[2], [i \in DOMAIN x[1].parts |-> f[<<x[1].parts[i].p, Load(x[2], x[1].parts[i].at)>>]])]
           step == [z \in Fns \X Loads |-> CondBelow(z[1], z[2])]
<1>1. ASSUME NEW f \in Fns, NEW x \in Loads PROVE CondBelow(f, x) \in S
  BY DEF CondBelow, Guarded, AndAll
<1>2. ASSUME NEW f \in Fns, NEW g \in Fns, NEW x \in Loads,
             \A y \in Loads : DepthOf[y] < DepthOf[x] => f[y] = g[y]
      PROVE  CondBelow(f, x) = CondBelow(g, x)
  <2>1. CASE x[2] = Undefined \/ ~Passes(x[1], x[2])
    BY <2>1 DEF CondBelow, Guarded
  <2>2. CASE x[2] # Undefined /\ Passes(x[1], x[2])
    <3>1. \A i \in DOMAIN x[1].parts : f[Below(x, i)] = g[Below(x, i)]
      BY <1>2, <2>2, BelowIn
    <3>2. [i \in DOMAIN x[1].parts |-> f[Below(x, i)]] = [i \in DOMAIN x[1].parts |-> g[Below(x, i)]]
      BY <3>1
    <3> QED
      BY <2>2, <3>2 DEF CondBelow
  <2> QED
    BY <2>1, <2>2
<1>3. PICK f \in Fns : \A x \in Loads : f[x] = CondBelow(f, x)
  <2>1. "no" \in S
    OBVIOUS
  <2>2. \A g \in Fns : \A x \in Loads : step[<<g, x>>] = CondBelow(g, x)
    OBVIOUS
  <2>3. step \in [Fns \X Loads -> S]
    BY <1>1
  <2> HIDE DEF step, S
  <2>4. FromBelow(step, DepthOf, Loads, S)
    BY <1>2, <2>2, <2>3 DEF FromBelow
  <2>5. \E g \in [Loads -> S] : Follows(g, step, Loads)
    BY <2>1, <2>4, LoadsRanked, Recursion, Zenon
  <2> QED
    BY <2>2, <2>5 DEF Follows
<1>4. Fixed(f)
  BY <1>3 DEF CondBelow, Below
<1>5. Cond = CHOOSE g : Fixed(g)
  BY DEF Cond
<1>6. Fixed(Cond)
  <2> HIDE DEF Fixed
  <2> QED
    BY <1>4, <1>5
<1> DEFINE g == Cond
<1>7. Fixed(g)
  BY <1>6
<1> HIDE DEF g
<1>8. g = [x \in Loads |-> CondBelow(g, x)]
  BY <1>7 DEF CondBelow, Below
<1> QED
  BY <1>8 DEF g

-----------------------------------------------------------------------------
(* The parts that the reference looks at.                                  *)
PartAt(x, i) == <<x[1].parts[i].p, PartOf(x[1], x[2], i)>>

LEMMA PartAtIn ==
  ASSUME WellTyped, NEW x \in Loads, MadeAs(x[1], x[2]), NEW i \in DOMAIN x[1].parts
  PROVE  PartAt(x, i) \in Loads /\ DepthOf[PartAt(x, i)] < DepthOf[x]
<1> DEFINE p == x[1]
           v == x[2]
<1>1. p \in Patterns /\ x = <<p, v>>
  BY LoadShape
<1>2. v # Undefined
  <2> SUFFICES ASSUME v = Undefined PROVE FALSE
    OBVIOUS
  <2>1. v.k = "undefined"
    BY DEF Undefined
  <2>2. p.k = "any"
    BY <1>1, <2>1, PatternShape DEF MadeAs
  <2>3. p.parts = <<>>
    BY <1>1, <2>2, PatternShape
  <2> QED
    BY <2>3
<1>3. v \in ValuesOf(p.typ)
  BY <1>2, LoadShape
<1>4. <<p.parts[i].p, PartOf(p, v, i)>> \in Loads
  BY <1>1, <1>3, Typed
<1>5. p.parts[i].p \in Patterns /\ Depth(p.parts[i].p) < Depth(p)
  BY <1>1, PatternShape
<1>6. DepthOf[PartAt(x, i)] = Depth(p.parts[i].p) /\ DepthOf[x] = Depth(p)
  BY <1>1, <1>4, <1>5, LoadsRanked DEF PartAt
<1> QED
  BY <1>4, <1>5, <1>6 DEF PartAt

MatchedBelow(f, x) == MadeAs(x[1], x[2]) /\ \A i \in DOMAIN x[1].parts : f[PartAt(x, i)]

LEMMA MatchedEquation ==
  ASSUME WellTyped
  PROVE  \A x \in Loads : Matched[x] = MatchedBelow(Matched, x)
<1> DEFINE S == BOOLEAN
           Fns == [Loads -> S]
           Fixed(f) == f = [x \in Loads |->
             MadeAs(x[1], x[2]) /\ \A i \in DOMAIN x[1].parts : f[<<x[1].parts[i].p, PartOf(x[1], x[2], i)>>]]
           step == [z \in Fns \X Loads |-> MatchedBelow(z[1], z[2])]
<1>1. ASSUME NEW f \in Fns, NEW x \in Loads PROVE MatchedBelow(f, x) \in S
  BY LoadShape, PatternShape DEF MatchedBelow, MadeAs
<1>2. ASSUME NEW f \in Fns, NEW g \in Fns, NEW x \in Loads,
             \A y \in Loads : DepthOf[y] < DepthOf[x] => f[y] = g[y]
      PROVE  MatchedBelow(f, x) = MatchedBelow(g, x)
  <2>1. CASE ~MadeAs(x[1], x[2])
    BY <2>1 DEF MatchedBelow
  <2>2. CASE MadeAs(x[1], x[2])
    <3>1. \A i \in DOMAIN x[1].parts : f[PartAt(x, i)] = g[PartAt(x, i)]
      BY <1>2, <2>2, PartAtIn
    <3> QED
      BY <2>2, <3>1 DEF MatchedBelow
  <2> QED
    BY <2>1, <2>2
<1>3. PICK f \in Fns : \A x \in Loads : f[x] = MatchedBelow(f, x)
  <2>1. FALSE \in S
    OBVIOUS
  <2>2. \A g \in Fns : \A x \in Loads : step[<<g, x>>] = MatchedBelow(g, x)
    OBVIOUS
  <2>3. step \in [Fns \X Loads -> S]
    BY <1>1
  <2> HIDE DEF step, S
  <2>4. FromBelow(step, DepthOf, Loads, S)
    BY <1>2, <2>2, <2>3 DEF FromBelow
  <2>5. \E g \in [Loads -> S] : Follows(g, step, Loads)
    BY <2>1, <2>4, LoadsRanked, Recursion, Zenon
  <2> QED
    BY <2>2, <2>5 DEF Follows
<1>4. Fixed(f)
  BY <1>3 DEF MatchedBelow, PartAt
<1>5. Matched = CHOOSE g : Fixed(g)
  BY DEF Matched
<1>6. Fixed(Matched)
  <2> HIDE DEF Fixed
  <2> QED
    BY <1>4, <1>5
<1> DEFINE g == Matched
<1>7. Fixed(g)
  BY <1>6
<1> HIDE DEF g
<1>8. g = [x \in Loads |-> MatchedBelow(g, x)]
  BY <1>7 DEF MatchedBelow, PartAt
<1> QED
  BY <1>8 DEF g

PlacesBelow(f, x) ==
  IF x[1].k = "any" THEN {<<x[1].label, x[2]>>}
  ELSE IF MadeAs(x[1], x[2]) THEN UNION {f[PartAt(x, i)] : i \in DOMAIN x[1].parts} ELSE {}

LEMMA PlacesEquation ==
  ASSUME WellTyped
  PROVE  \A x \in Loads : Places[x] = PlacesBelow(Places, x)
<1> DEFINE S == SUBSET (STRING \X (Memory \cup {Undefined}))
           Fns == [Loads -> S]
           Fixed(f) == f = [x \in Loads |->
             IF x[1].k = "any" THEN {<<x[1].label, x[2]>>}
             ELSE IF MadeAs(x[1], x[2]) THEN UNION {f[<<x[1].parts[i].p, PartOf(x[1], x[2], i)>>] : i \in DOMAIN x[1].parts}
             ELSE {}]
           step == [z \in Fns \X Loads |-> PlacesBelow(z[1], z[2])]
<1>1. ASSUME NEW f \in Fns, NEW x \in Loads PROVE PlacesBelow(f, x) \in S
  <2>1. CASE x[1].k = "any"
    BY <2>1, LoadShape, PatternShape DEF PlacesBelow
  <2>2. CASE x[1].k # "any" /\ MadeAs(x[1], x[2])
    <3>1. \A i \in DOMAIN x[1].parts : f[PartAt(x, i)] \in S
      BY <2>2, PartAtIn
    <3> QED
      BY <2>2, <3>1 DEF PlacesBelow
  <2>3. CASE x[1].k # "any" /\ ~MadeAs(x[1], x[2])
    BY <2>3 DEF PlacesBelow
  <2> QED
    BY <2>1, <2>2, <2>3
<1>2. ASSUME NEW f \in Fns, NEW g \in Fns, NEW x \in Loads,
             \A y \in Loads : DepthOf[y] < DepthOf[x] => f[y] = g[y]
      PROVE  PlacesBelow(f, x) = PlacesBelow(g, x)
  <2>1. CASE x[1].k = "any" \/ ~MadeAs(x[1], x[2])
    BY <2>1 DEF PlacesBelow
  <2>2. CASE MadeAs(x[1], x[2])
    <3>1. \A i \in DOMAIN x[1].parts : f[PartAt(x, i)] = g[PartAt(x, i)]
      BY <1>2, <2>2, PartAtIn
    <3>2. {f[PartAt(x, i)] : i \in DOMAIN x[1].parts} = {g[PartAt(x, i)] : i \in DOMAIN x[1].parts}
      BY <3>1
    <3> QED
      BY <3>2 DEF PlacesBelow
  <2> QED
    BY <2>1, <2>2
<1>3. PICK f \in Fns : \A x \in Loads : f[x] = PlacesBelow(f, x)
  <2>1. {} \in S
    OBVIOUS
  <2>2. \A g \in Fns : \A x \in Loads : step[<<g, x>>] = PlacesBelow(g, x)
    OBVIOUS
  <2>3. step \in [Fns \X Loads -> S]
    BY <1>1
  <2> HIDE DEF step, S
  <2>4. FromBelow(step, DepthOf, Loads, S)
    BY <1>2, <2>2, <2>3 DEF FromBelow
  <2>5. \E g \in [Loads -> S] : Follows(g, step, Loads)
    BY <2>1, <2>4, LoadsRanked, Recursion, Zenon
  <2> QED
    BY <2>2, <2>5 DEF Follows
<1>4. Fixed(f)
  BY <1>3 DEF PlacesBelow, PartAt
<1>5. Places = CHOOSE g : Fixed(g)
  BY DEF Places
<1>6. Fixed(Places)
  <2> HIDE DEF Fixed
  <2> QED
    BY <1>4, <1>5
<1> DEFINE g == Places
<1>7. Fixed(g)
  BY <1>6
<1> HIDE DEF g
<1>8. g = [x \in Loads |-> PlacesBelow(g, x)]
  BY <1>7 DEF PlacesBelow, PartAt
<1> QED
  BY <1>8 DEF g

-----------------------------------------------------------------------------
NamesBelow(f, p) ==
  IF p.k = "any" THEN {p.label} ELSE UNION {f[p.parts[i].p] : i \in DOMAIN p.parts}

LEMMA NamesEquation == \A p \in Patterns : NamesOf[p] = NamesBelow(NamesOf, p)
<1> DEFINE S == SUBSET STRING
           Fns == [Patterns -> S]
           Fixed(f) == f = [p \in Patterns |->
             IF p.k = "any" THEN {p.label} ELSE UNION {f[p.parts[i].p] : i \in DOMAIN p.parts}]
           rank == [p \in Patterns |-> Depth(p)]
           step == [z \in Fns \X Patterns |-> NamesBelow(z[1], z[2])]
<1>1. ASSUME NEW f \in Fns, NEW p \in Patterns PROVE NamesBelow(f, p) \in S
  BY PatternShape DEF NamesBelow
<1>2. ASSUME NEW f \in Fns, NEW g \in Fns, NEW p \in Patterns,
             \A q \in Patterns : Depth(q) < Depth(p) => f[q] = g[q]
      PROVE  NamesBelow(f, p) = NamesBelow(g, p)
  <2>1. \A i \in DOMAIN p.parts : f[p.parts[i].p] = g[p.parts[i].p]
    BY <1>2, PatternShape
  <2>2. {f[p.parts[i].p] : i \in DOMAIN p.parts} = {g[p.parts[i].p] : i \in DOMAIN p.parts}
    BY <2>1
  <2> QED
    BY <2>2 DEF NamesBelow
<1>3. PICK f \in Fns : \A p \in Patterns : f[p] = NamesBelow(f, p)
  <2>1. {} \in S
    OBVIOUS
  <2>2. \A g \in Fns : \A p \in Patterns : step[<<g, p>>] = NamesBelow(g, p)
    OBVIOUS
  <2>3. step \in [Fns \X Patterns -> S]
    BY <1>1
  <2>4. Ranked(rank, Patterns) /\ \A p \in Patterns : rank[p] = Depth(p)
    BY PatternShape DEF Ranked
  <2> HIDE DEF step, S, rank
  <2>5. FromBelow(step, rank, Patterns, S)
    BY <1>2, <2>2, <2>3, <2>4 DEF FromBelow
  <2>6. \E g \in [Patterns -> S] : Follows(g, step, Patterns)
    BY <2>1, <2>4, <2>5, Recursion, Zenon
  <2> QED
    BY <2>2, <2>6 DEF Follows
<1>4. Fixed(f)
  BY <1>3 DEF NamesBelow
<1>5. NamesOf = CHOOSE g : Fixed(g)
  BY DEF NamesOf
<1>6. Fixed(NamesOf)
  <2> HIDE DEF Fixed
  <2> QED
    BY <1>4, <1>5
<1> DEFINE g == NamesOf
<1>7. Fixed(g)
  BY <1>6
<1> HIDE DEF g
<1>8. g = [p \in Patterns |-> NamesBelow(g, p)]
  BY <1>7 DEF NamesBelow
<1> QED
  BY <1>8 DEF g

-----------------------------------------------------------------------------
LEMMA ToSetConcat ==
  ASSUME NEW S, NEW s \in Seq(S), NEW t \in Seq(S)
  PROVE  s \o t \in Seq(S) /\ ToSet(s \o t) = ToSet(s) \cup ToSet(t)
<1>1. /\ s \o t \in Seq(S) /\ Len(s \o t) = Len(s) + Len(t) /\ Len(s) \in Nat /\ Len(t) \in Nat
      /\ \A i \in 1 .. Len(s) + Len(t) : (s \o t)[i] = IF i <= Len(s) THEN s[i] ELSE t[i - Len(s)]
      /\ DOMAIN s = 1 .. Len(s) /\ DOMAIN t = 1 .. Len(t) /\ DOMAIN (s \o t) = 1 .. Len(s) + Len(t)
  BY ConcatProperties
<1> DEFINE st == s \o t
<1> HIDE DEF st
<1>2. ASSUME NEW i \in DOMAIN st PROVE st[i] \in ToSet(s) \cup ToSet(t)
  <2>1. CASE i <= Len(s)
    <3>1. i \in DOMAIN s /\ st[i] = s[i]
      BY <1>1, <2>1 DEF st
    <3> QED
      BY <3>1 DEF ToSet
  <2>2. CASE ~(i <= Len(s))
    <3>1. i - Len(s) \in DOMAIN t /\ st[i] = t[i - Len(s)]
      BY <1>1, <2>2 DEF st
    <3> QED
      BY <3>1 DEF ToSet
  <2> QED
    BY <2>1, <2>2
<1>3. ASSUME NEW i \in DOMAIN s PROVE s[i] \in ToSet(st)
  <2>1. i \in DOMAIN st /\ st[i] = s[i]
    BY <1>1 DEF st
  <2> QED
    BY <2>1 DEF ToSet
<1>4. ASSUME NEW i \in DOMAIN t PROVE t[i] \in ToSet(st)
  <2>1. Len(s) + i \in DOMAIN st /\ st[Len(s) + i] = t[i]
    BY <1>1 DEF st
  <2> QED
    BY <2>1 DEF ToSet
<1>5. ToSet(st) = ToSet(s) \cup ToSet(t)
  BY <1>2, <1>3, <1>4 DEF ToSet
<1> QED
  BY <1>1, <1>5 DEF st

(* What is in sequences is in them put one after another.                  *)
LEMMA FlattenElements ==
  ASSUME NEW S, NEW seqs \in Seq(Seq(S))
  PROVE  /\ FlattenSeq(seqs) \in Seq(S)
         /\ ToSet(FlattenSeq(seqs)) = UNION {ToSet(seqs[i]) : i \in DOMAIN seqs}
<1> DEFINE n == Len(seqs)
<1>1. n \in Nat /\ DOMAIN seqs = 1 .. n /\ \A i \in 1 .. n : seqs[i] \in Seq(S)
  OBVIOUS
<1>2. CASE n = 0
  <2>1. FlattenSeq(seqs) = <<>>
    BY <1>2 DEF FlattenSeq
  <2>2. ToSet(<<>>) = {}
    BY DEF ToSet
  <2>3. {ToSet(seqs[i]) : i \in DOMAIN seqs} = {}
    BY <1>1, <1>2
  <2>4. <<>> \in Seq(S)
    OBVIOUS
  <2> QED
    BY <2>1, <2>2, <2>3, <2>4
<1>3. CASE n # 0
  <2>1. PICK f \in [1 .. n -> Seq(S)] : \A i \in 1 .. n : IsConcat(f, seqs, i)
    BY ConcatsExist
  <2>2. f = [i \in 1 .. n |-> f[i]] /\ \A i \in 1 .. n : f[i] \in Seq(S)
    OBVIOUS
  <2>3. FlattenSeq(seqs) = f[n]
    BY <1>3, <2>1, <2>2, FlattenIs
  <2> HIDE DEF n
  <2> DEFINE All(k) == UNION {ToSet(seqs[i]) : i \in 1 .. k}
             Bad == {k \in 1 .. n : ToSet(f[k]) # All(k)}
  <2>4. Bad = {}
    <3> SUFFICES ASSUME Bad # {} PROVE FALSE
      OBVIOUS
    <3>1. PICK m \in Bad : \A k \in Bad : m <= k
      <4>1. Bad \in SUBSET Nat
        BY <1>1
      <4> HIDE DEF Bad
      <4> QED
        BY <4>1, Least
    <3>2. m \in 1 .. n /\ ToSet(f[m]) # All(m)
      OBVIOUS
    <3>3. CASE m = 1
      <4>1. f[1] = seqs[1]
        BY <2>1, <3>2, <3>3 DEF IsConcat
      <4>2. 1 .. 1 = {1}
        OBVIOUS
      <4>3. All(1) = ToSet(seqs[1])
        BY <4>2
      <4> QED
        BY <3>2, <3>3, <4>1, <4>3
    <3>4. CASE m # 1
      <4>1. m - 1 \in 1 .. n /\ m - 1 < m
        BY <1>1, <3>2, <3>4
      <4>2. ToSet(f[m - 1]) = All(m - 1)
        <5>1. m - 1 \notin Bad
          <6> HIDE DEF Bad
          <6> QED
            BY <1>1, <3>1, <3>2, <4>1
        <5> QED
          BY <4>1, <5>1
      <4>3. f[m] = f[m - 1] \o seqs[m]
        BY <2>1, <3>2, <3>4 DEF IsConcat
      <4>4. ToSet(f[m]) = ToSet(f[m - 1]) \cup ToSet(seqs[m])
        <5>1. f[m - 1] \in Seq(S) /\ seqs[m] \in Seq(S)
          BY <1>1, <2>2, <3>2, <4>1
        <5>2. ToSet(f[m - 1] \o seqs[m]) = ToSet(f[m - 1]) \cup ToSet(seqs[m])
          BY <5>1, ToSetConcat
        <5> QED
          BY <4>3, <5>2
      <4>5. 1 .. m = (1 .. m - 1) \cup {m}
        BY <1>1, <3>2, <3>4
      <4>6. All(m) = All(m - 1) \cup ToSet(seqs[m])
        BY <4>5
      <4> HIDE DEF All
      <4> QED
        BY <3>2, <4>2, <4>4, <4>6
    <3> QED
      BY <3>3, <3>4
  <2>5. n \in 1 .. n
    BY <1>1, <1>3
  <2>6. ToSet(f[n]) = All(n)
    BY <2>4, <2>5
  <2> QED
    BY <1>1, <2>2, <2>3, <2>5, <2>6
<1> QED
  BY <1>2, <1>3

-----------------------------------------------------------------------------
(* What is destructured for part i of pattern x[1].                        *)
Loaded(x, i) == <<x[1].parts[i].p, LoadPart(x[1], x[2], i)>>

LEMMA LoadedIn ==
  ASSUME WellTyped, NEW x \in Loads, x[2] # Undefined, NEW i \in DOMAIN x[1].parts
  PROVE  Loaded(x, i) \in Loads /\ DepthOf[Loaded(x, i)] < DepthOf[x]
<1>1. CASE Passes(x[1], x[2])
  <2>1. Loaded(x, i) = Below(x, i)
    BY <1>1 DEF Loaded, Below, LoadPart
  <2> QED
    BY <1>1, <2>1, BelowIn
<1>2. CASE ~Passes(x[1], x[2])
  <2>1. Loaded(x, i) = <<x[1].parts[i].p, Undefined>>
    BY <1>2 DEF Loaded, LoadPart
  <2>2. x[1] \in Patterns /\ x = <<x[1], x[2]>> /\ x[1].parts[i].p \in Patterns
    BY LoadShape, PatternShape
  <2>3. <<x[1].parts[i].p, Undefined>> \in Loads
    BY <2>2, LoadIn
  <2>4. Depth(x[1].parts[i].p) < Depth(x[1])
    BY <2>2, PatternShape
  <2>5. DepthOf[x] = Depth(x[1]) /\ DepthOf[Loaded(x, i)] = Depth(x[1].parts[i].p)
    BY <2>1, <2>2, <2>3, LoadsRanked
  <2> QED
    BY <2>1, <2>3, <2>4, <2>5
<1> QED
  BY <1>1, <1>2

Bindings == (STRING \cup {Faulted}) \X (Memory \cup {Undefined})

PartsBound(f, x) == [i \in DOMAIN x[1].parts |-> IF Skipped(x[1], i) THEN <<>> ELSE f[Loaded(x, i)]]

DestructureBelow(f, x) ==
  IF x[2] = Undefined THEN <<<<Faulted, x[2]>>>>
  ELSE IF BindsNothing(x[1]) THEN <<>>
  ELSE IF x[1].k = "any" THEN <<<<x[1].label, x[2]>>>>
  ELSE FlattenSeq(PartsBound(f, x))

LEMMA PartsBoundIn ==
  ASSUME WellTyped, NEW x \in Loads, x[2] # Undefined, NEW f \in [Loads -> Seq(Bindings)]
  PROVE  /\ PartsBound(f, x) \in Seq(Seq(Bindings))
         /\ DOMAIN PartsBound(f, x) = DOMAIN x[1].parts
         /\ \A i \in DOMAIN x[1].parts :
              PartsBound(f, x)[i] = IF Skipped(x[1], i) THEN <<>> ELSE f[Loaded(x, i)]
<1> DEFINE n == Len(x[1].parts)
           B == Seq(Bindings)
<1>1. n \in Nat /\ DOMAIN x[1].parts = 1 .. n
  BY LoadShape, PatternShape
<1>2. \A i \in 1 .. n : (IF Skipped(x[1], i) THEN <<>> ELSE f[Loaded(x, i)]) \in B
  <2> SUFFICES ASSUME NEW i \in 1 .. n PROVE (IF Skipped(x[1], i) THEN <<>> ELSE f[Loaded(x, i)]) \in B
    OBVIOUS
  <2>1. <<>> \in B
    OBVIOUS
  <2>2. f[Loaded(x, i)] \in B
    <3>1. Loaded(x, i) \in Loads
      BY <1>1, LoadedIn
    <3> HIDE DEF B
    <3>2. f \in [Loads -> B]
      BY DEF B
    <3> QED
      BY <3>1, <3>2
  <2> QED
    BY <2>1, <2>2
<1>3. PartsBound(f, x) = [i \in 1 .. n |-> IF Skipped(x[1], i) THEN <<>> ELSE f[Loaded(x, i)]]
  BY <1>1 DEF PartsBound
<1> HIDE DEF B, n
<1>4. PartsBound(f, x) \in Seq(B)
  BY <1>1, <1>2, <1>3
<1> QED
  BY <1>1, <1>3, <1>4 DEF B

LEMMA DestructureEquation ==
  ASSUME WellTyped
  PROVE  /\ Destructure \in [Loads -> Seq(Bindings)]
         /\ \A x \in Loads : Destructure[x] = DestructureBelow(Destructure, x)
<1> DEFINE S == Seq(Bindings)
           Fns == [Loads -> S]
           Fixed(f) == f = [x \in Loads |->
             IF x[2] = Undefined THEN <<<<Faulted, x[2]>>>>
             ELSE IF BindsNothing(x[1]) THEN <<>>
             ELSE IF x[1].k = "any" THEN <<<<x[1].label, x[2]>>>>
             ELSE FlattenSeq([i \in DOMAIN x[1].parts |->
                    IF Skipped(x[1], i) THEN <<>> ELSE f[<<x[1].parts[i].p, LoadPart(x[1], x[2], i)>>]])]
           step == [z \in Fns \X Loads |-> DestructureBelow(z[1], z[2])]
<1>1. ASSUME NEW f \in Fns, NEW x \in Loads PROVE DestructureBelow(f, x) \in S
  <2>1. \A s \in STRING \cup {Faulted} : <<<<s, x[2]>>>> \in S
    <3>1. \A s \in STRING \cup {Faulted} : <<s, x[2]>> \in Bindings
      BY LoadShape DEF Bindings
    <3>2. \A b \in Bindings : <<b>> \in Seq(Bindings)
      OBVIOUS
    <3> QED
      BY <3>1, <3>2
  <2>2. <<>> \in S
    OBVIOUS
  <2>3. Faulted \in STRING \cup {Faulted}
    OBVIOUS
  <2>label. x[1].label \in STRING
    BY LoadShape, PatternShape
  <2>4. ASSUME x[2] # Undefined PROVE FlattenSeq(PartsBound(f, x)) \in S
    BY <2>4, PartsBoundIn, FlattenElements
  <2> HIDE DEF S
  <2> QED
    BY <2>1, <2>2, <2>3, <2>label, <2>4 DEF DestructureBelow
<1>2. ASSUME NEW f \in Fns, NEW g \in Fns, NEW x \in Loads,
             \A y \in Loads : DepthOf[y] < DepthOf[x] => f[y] = g[y]
      PROVE  DestructureBelow(f, x) = DestructureBelow(g, x)
  <2>1. CASE x[2] = Undefined
    BY <2>1 DEF DestructureBelow
  <2>2. CASE x[2] # Undefined
    <3>1. \A i \in DOMAIN x[1].parts : f[Loaded(x, i)] = g[Loaded(x, i)]
      BY <1>2, <2>2, LoadedIn
    <3>2. PartsBound(f, x) = PartsBound(g, x)
      BY <3>1 DEF PartsBound
    <3> QED
      BY <3>2 DEF DestructureBelow
  <2> QED
    BY <2>1, <2>2
<1>3. PICK f \in Fns : \A x \in Loads : f[x] = DestructureBelow(f, x)
  <2>1. <<>> \in S
    OBVIOUS
  <2>2. \A g \in Fns : \A x \in Loads : step[<<g, x>>] = DestructureBelow(g, x)
    OBVIOUS
  <2>3. step \in [Fns \X Loads -> S]
    BY <1>1
  <2> HIDE DEF step, S
  <2>4. FromBelow(step, DepthOf, Loads, S)
    BY <1>2, <2>2, <2>3 DEF FromBelow
  <2>5. \E g \in [Loads -> S] : Follows(g, step, Loads)
    BY <2>1, <2>4, LoadsRanked, Recursion, Zenon
  <2> QED
    BY <2>2, <2>5 DEF Follows
<1>4. Fixed(f)
  BY <1>3 DEF DestructureBelow, PartsBound, Loaded
<1>5. Destructure = CHOOSE g : Fixed(g)
  BY DEF Destructure
<1>6. Fixed(Destructure)
  <2> HIDE DEF Fixed
  <2> QED
    BY <1>4, <1>5
<1> DEFINE g == Destructure
<1>7. Fixed(g)
  BY <1>6
<1> HIDE DEF g
<1>8. g = [x \in Loads |-> DestructureBelow(g, x)]
  BY <1>7 DEF DestructureBelow, PartsBound, Loaded
<1>9. \A x \in Loads : g[x] = DestructureBelow(g, x)
  BY <1>8
<1>10. g \in Fns
  <2> DEFINE Good == {n \in Nat : \A x \in Loads : DepthOf[x] < n => g[x] = f[x]}
  <2>0. \A x \in Loads : DepthOf[x] \in Nat
    BY LoadsRanked DEF Ranked
  <2>1. 0 \in Good
    BY <2>0
  <2>2. ASSUME NEW n \in Nat, n \in Good PROVE n + 1 \in Good
    <3> SUFFICES ASSUME NEW x \in Loads, DepthOf[x] < n + 1 PROVE g[x] = f[x]
      OBVIOUS
    <3>1. \A y \in Loads : DepthOf[y] < DepthOf[x] => g[y] = f[y]
      BY <2>0, <2>2
    <3>2. CASE x[2] = Undefined
      BY <1>3, <1>9, <3>2 DEF DestructureBelow
    <3>3. CASE x[2] # Undefined
      <4>1. \A i \in DOMAIN x[1].parts : g[Loaded(x, i)] = f[Loaded(x, i)]
        BY <3>1, <3>3, LoadedIn
      <4>2. PartsBound(g, x) = PartsBound(f, x)
        BY <4>1 DEF PartsBound
      <4> QED
        BY <1>3, <1>9, <4>2 DEF DestructureBelow
    <3> QED
      BY <3>2, <3>3
  <2> HIDE DEF Good
  <2>3. Nat \subseteq Good
    BY <2>1, <2>2, Induction
  <2>4. ASSUME NEW x \in Loads PROVE g[x] = f[x]
    <3>1. DepthOf[x] + 1 \in Good /\ DepthOf[x] < DepthOf[x] + 1
      BY <2>0, <2>3
    <3> QED
      BY <3>1 DEF Good
  <2>5. g = [x \in Loads |-> f[x]]
    BY <1>8, <2>4
  <2> QED
    BY <2>5
<1> QED
  BY <1>9, <1>10 DEF g

-----------------------------------------------------------------------------
(* The compiled test, and what it binds                                    *)

LEMMA PatternInduction ==
  ASSUME NEW Good,
         \A p \in Patterns : (\A q \in Patterns : Depth(q) < Depth(p) => q \in Good) => p \in Good
  PROVE  Patterns \subseteq Good
<1> DEFINE Deep == {n \in Nat : \A p \in Patterns : Depth(p) < n => p \in Good}
<1>1. 0 \in Deep
  BY PatternShape
<1>2. ASSUME NEW n \in Nat, n \in Deep PROVE n + 1 \in Deep
  <2> SUFFICES ASSUME NEW p \in Patterns, Depth(p) < n + 1 PROVE p \in Good
    OBVIOUS
  <2>1. \A q \in Patterns : Depth(q) < Depth(p) => Depth(q) < n
    BY PatternShape
  <2>2. \A q \in Patterns : Depth(q) < Depth(p) => q \in Good
    BY <1>2, <2>1
  <2> QED
    BY <2>2
<1> HIDE DEF Deep
<1>3. Nat \subseteq Deep
  BY <1>1, <1>2, Induction
<1>4. ASSUME NEW p \in Patterns PROVE p \in Good
  <2>1. Depth(p) + 1 \in Deep /\ Depth(p) \in Nat /\ Depth(p) < Depth(p) + 1
    BY <1>3, PatternShape
  <2> QED
    BY <2>1 DEF Deep
<1> QED
  BY <1>4

LEMMA ValueIn ==
  ASSUME WellTyped, NEW p \in Patterns, NEW v \in ValuesOf(p.typ)
  PROVE  /\ <<p, v>> \in Loads /\ v # Undefined
         /\ Matched[<<p, v>>] <=> MadeAs(p, v) /\ \A i \in DOMAIN p.parts : Matched[<<p.parts[i].p, PartOf(p, v, i)>>]
<1>1. <<p, v>> \in Loads /\ v # Undefined
  BY LoadIn, Typed
<1>2. Matched[<<p, v>>] = MatchedBelow(Matched, <<p, v>>)
  BY <1>1, MatchedEquation
<1> QED
  BY <1>1, <1>2 DEF MatchedBelow, PartAt

(***************************************************************************)
(* The test that is compiled for a pattern finds out whether the value is  *)
(* matched: it loads nothing through a null pointer and reads no payload   *)
(* of another variant on the way, although `andi` does not short-circuit   *)
(* (case_condition, codegen/expr.rs:829).                                  *)
(***************************************************************************)
THEOREM TestDecides ==
  ASSUME WellTyped
  PROVE  \A p \in Patterns : \A v \in ValuesOf(p.typ) :
           Cond[<<p, v>>] = IF Matched[<<p, v>>] THEN "yes" ELSE "no"
<1> DEFINE Decides(p, v) == Cond[<<p, v>>] = IF Matched[<<p, v>>] THEN "yes" ELSE "no"
           Good == {p \in Patterns : \A v \in ValuesOf(p.typ) : Decides(p, v)}
<1>1. ASSUME NEW p \in Patterns, \A q \in Patterns : Depth(q) < Depth(p) => q \in Good
      PROVE  p \in Good
  <2> SUFFICES ASSUME NEW v \in ValuesOf(p.typ) PROVE Decides(p, v)
    OBVIOUS
  <2> DEFINE x == <<p, v>>
             conds == [i \in DOMAIN p.parts |-> Cond[<<p.parts[i].p, Load(v, p.parts[i].at)>>]]
  <2>1. Cond[x] = Guarded(p, v, conds)
    <3>1. Cond[x] = CondBelow(Cond, x)
      BY ValueIn, CondEquation
    <3> QED
      BY <3>1, ValueIn DEF CondBelow, Below
  <2>2. CASE ~MadeAs(p, v)
    <3>1. ~Matched[x]
      BY <2>2, ValueIn
    <3>2. ~Passes(p, v)
      BY <2>2, Typed
    <3> QED
      BY <2>1, <3>1, <3>2 DEF Guarded
  <2>3. CASE MadeAs(p, v)
    <3> DEFINE y(i) == <<p.parts[i].p, PartOf(p, v, i)>>
    <3>1. ASSUME NEW i \in DOMAIN p.parts
          PROVE  conds[i] = IF Matched[y(i)] THEN "yes" ELSE "no"
      <4>1. p.parts[i].p \in Good
        BY <1>1, PatternShape
      <4>2. Load(v, p.parts[i].at) = PartOf(p, v, i) /\ PartOf(p, v, i) \in ValuesOf(p.parts[i].p.typ)
        BY <2>3, Typed
      <4>3. Decides(p.parts[i].p, PartOf(p, v, i))
        BY <4>1, <4>2
      <4> QED
        BY <4>2, <4>3
    <3>2. Guarded(p, v, conds) = AndAll(conds)
      BY <2>3, Typed DEF Guarded
    <3>3. DOMAIN conds = DOMAIN p.parts
      OBVIOUS
    <3> HIDE DEF conds
    <3>4. ToSet(conds) \subseteq {"yes", "no"}
      BY <3>1, <3>3 DEF ToSet
    <3>5. ToSet(conds) \subseteq {"yes"} <=> \A i \in DOMAIN p.parts : Matched[y(i)]
      BY <3>1, <3>3 DEF ToSet
    <3>6. Matched[x] <=> \A i \in DOMAIN p.parts : Matched[y(i)]
      BY <2>3, ValueIn
    <3>7. "fault" \notin ToSet(conds)
      BY <3>4
    <3> QED
      BY <2>1, <3>2, <3>5, <3>6, <3>7 DEF AndAll
  <2> QED
    BY <2>2, <2>3
<1> HIDE DEF Good
<1>2. Patterns \subseteq Good
  BY <1>1, PatternInduction
<1> QED
  BY <1>2 DEF Good

Named(p, places) ==
  /\ {b[1] : b \in places} = NamesOf[p]
  /\ NamedOnce => \A b, c \in places : b[1] = c[1] => b = c

(* A matched value has a part in the place of each name, and one only of a *)
(* name that is used once.                                                 *)
LEMMA PlacesNamed ==
  ASSUME WellTyped
  PROVE  \A p \in Patterns : \A v \in ValuesOf(p.typ) : Matched[<<p, v>>] => Named(p, Places[<<p, v>>])
<1> DEFINE Good == {p \in Patterns : \A v \in ValuesOf(p.typ) : Matched[<<p, v>>] => Named(p, Places[<<p, v>>])}
<1>1. ASSUME NEW p \in Patterns, \A q \in Patterns : Depth(q) < Depth(p) => q \in Good
      PROVE  p \in Good
  <2> SUFFICES ASSUME NEW v \in ValuesOf(p.typ), Matched[<<p, v>>] PROVE Named(p, Places[<<p, v>>])
    OBVIOUS
  <2> DEFINE x == <<p, v>>
             at(i) == Places[PartAt(x, i)]
             sub(i) == NamesOf[p.parts[i].p]
  <2>1. Places[x] = PlacesBelow(Places, x) /\ NamesOf[p] = NamesBelow(NamesOf, p)
    BY ValueIn, PlacesEquation, NamesEquation
  <2>2. CASE p.k = "any"
    <3>1. Places[x] = {<<p.label, v>>} /\ NamesOf[p] = {p.label}
      BY <2>1, <2>2 DEF PlacesBelow, NamesBelow
    <3>2. \A b \in {<<p.label, v>>} : b = <<p.label, v>> /\ b[1] = p.label
      OBVIOUS
    <3> QED
      BY <3>1, <3>2 DEF Named
  <2>3. CASE p.k # "any"
    <3>1. Places[x] = UNION {at(i) : i \in DOMAIN p.parts} /\ NamesOf[p] = UNION {sub(i) : i \in DOMAIN p.parts}
      BY <2>1, <2>3, ValueIn DEF PlacesBelow, NamesBelow
    <3>2. ASSUME NEW i \in DOMAIN p.parts PROVE Named(p.parts[i].p, at(i))
      <4>1. p.parts[i].p \in Good
        BY <1>1, PatternShape
      <4>2. PartOf(p, v, i) \in ValuesOf(p.parts[i].p.typ) /\ Matched[<<p.parts[i].p, PartOf(p, v, i)>>]
        BY ValueIn, Typed
      <4> QED
        BY <4>1, <4>2 DEF PartAt
    <3>3. NamedOnce => \A i, j \in DOMAIN p.parts : i # j => sub(i) \cap sub(j) = {}
      BY DEF NamedOnce
    <3>4. \A i \in DOMAIN p.parts : {b[1] : b \in at(i)} = sub(i)
      BY <3>2 DEF Named
    <3>5. NamedOnce => \A i \in DOMAIN p.parts : \A b, c \in at(i) : b[1] = c[1] => b = c
      BY <3>2 DEF Named
    <3> HIDE DEF at, sub
    <3>6. {b[1] : b \in Places[x]} = NamesOf[p]
      BY <3>1, <3>4
    <3>7. ASSUME NamedOnce, NEW b \in Places[x], NEW c \in Places[x], b[1] = c[1] PROVE b = c
      <4>1. PICK i \in DOMAIN p.parts : b \in at(i)
        BY <3>1
      <4>2. PICK j \in DOMAIN p.parts : c \in at(j)
        BY <3>1
      <4>3. b[1] \in sub(i) /\ c[1] \in sub(j)
        BY <3>4, <4>1, <4>2
      <4>4. i = j
        BY <3>3, <3>7, <4>3
      <4> QED
        BY <3>5, <3>7, <4>1, <4>2, <4>4
    <3> QED
      BY <3>6, <3>7 DEF Named
  <2> QED
    BY <2>2, <2>3
<1> HIDE DEF Good
<1>2. Patterns \subseteq Good
  BY <1>1, PatternInduction
<1> QED
  BY <1>2 DEF Good

LEMMA NamesNotEmpty == \A p \in Patterns : Faulted \notin NamesOf[p]
<1> DEFINE Good == {p \in Patterns : Faulted \notin NamesOf[p]}
<1>1. ASSUME NEW p \in Patterns, \A q \in Patterns : Depth(q) < Depth(p) => q \in Good
      PROVE  p \in Good
  <2>1. NamesOf[p] = IF p.k = "any" THEN {p.label} ELSE UNION {NamesOf[p.parts[i].p] : i \in DOMAIN p.parts}
    BY NamesEquation DEF NamesBelow
  <2>2. \A i \in DOMAIN p.parts : Faulted \notin NamesOf[p.parts[i].p]
    BY <1>1, PatternShape
  <2>3. p.k = "any" => p.label # Faulted
    BY PatternShape
  <2> HIDE DEF Faulted
  <2>4. Faulted \notin NamesOf[p]
    BY <2>1, <2>2, <2>3
  <2> QED
    BY <2>4
<1> HIDE DEF Good
<1>2. Patterns \subseteq Good
  BY <1>1, PatternInduction
<1> QED
  BY <1>2 DEF Good

LEMMA NoPlaces ==
  ASSUME WellTyped, NEW x \in Loads, BindsNothing(x[1])
  PROVE  Places[x] = {}
<1>1. x[1].k # "any" /\ x[1].parts = <<>>
  BY LoadShape, PatternShape DEF BindsNothing
<1>2. Places[x] = PlacesBelow(Places, x)
  BY PlacesEquation
<1>3. {Places[PartAt(x, i)] : i \in DOMAIN x[1].parts} = {}
  BY <1>1
<1> QED
  BY <1>1, <1>2, <1>3 DEF PlacesBelow

(***************************************************************************)
(* What a pattern binds of a value that it matches is what is in the place *)
(* of each of its names (the destructurings of codegen/enums.rs): the      *)
(* parts that are skipped have no names.                                   *)
(***************************************************************************)
THEOREM BindsPlaces ==
  ASSUME WellTyped
  PROVE  \A p \in Patterns : \A v \in ValuesOf(p.typ) :
           Matched[<<p, v>>] => ToSet(Destructure[<<p, v>>]) = Places[<<p, v>>]
<1> DEFINE Good == {p \in Patterns : \A v \in ValuesOf(p.typ) :
                      Matched[<<p, v>>] => ToSet(Destructure[<<p, v>>]) = Places[<<p, v>>]}
<1>1. ASSUME NEW p \in Patterns, \A q \in Patterns : Depth(q) < Depth(p) => q \in Good
      PROVE  p \in Good
  <2> SUFFICES ASSUME NEW v \in ValuesOf(p.typ), Matched[<<p, v>>]
               PROVE  ToSet(Destructure[<<p, v>>]) = Places[<<p, v>>]
    OBVIOUS
  <2> DEFINE x == <<p, v>>
             D == Destructure
             seqs == PartsBound(D, x)
  <2>0. x \in Loads /\ v # Undefined /\ MadeAs(p, v)
    BY ValueIn
  <2>1. D[x] = DestructureBelow(D, x) /\ Places[x] = PlacesBelow(Places, x)
    BY <2>0, DestructureEquation, PlacesEquation
  <2>2. CASE BindsNothing(p)
    <3>1. D[x] = <<>>
      BY <2>0, <2>1, <2>2 DEF DestructureBelow
    <3>2. Places[x] = {}
      BY <2>0, <2>2, NoPlaces
    <3>3. ToSet(<<>>) = {}
      BY DEF ToSet
    <3> QED
      BY <3>1, <3>2, <3>3
  <2>3. CASE p.k = "any"
    <3>1. D[x] = <<<<p.label, v>>>>
      BY <2>0, <2>1, <2>3 DEF DestructureBelow, BindsNothing
    <3>2. Places[x] = {<<p.label, v>>}
      BY <2>1, <2>3 DEF PlacesBelow
    <3>3. \A b : ToSet(<<b>>) = {b}
      BY DEF ToSet
    <3> QED
      BY <3>1, <3>2, <3>3
  <2>4. CASE ~BindsNothing(p) /\ p.k # "any"
    <3>1. D[x] = FlattenSeq(seqs)
      BY <2>0, <2>1, <2>4 DEF DestructureBelow
    <3>2. /\ seqs \in Seq(Seq(Bindings)) /\ DOMAIN seqs = DOMAIN p.parts
          /\ \A i \in DOMAIN p.parts : seqs[i] = IF Skipped(p, i) THEN <<>> ELSE D[Loaded(x, i)]
      BY <2>0, DestructureEquation, PartsBoundIn
    <3>3. Places[x] = UNION {Places[PartAt(x, i)] : i \in DOMAIN p.parts}
      BY <2>0, <2>1, <2>4 DEF PlacesBelow
    <3>4. ASSUME NEW i \in DOMAIN p.parts PROVE ToSet(seqs[i]) = Places[PartAt(x, i)]
      <4> DEFINE q == p.parts[i].p
                 w == PartOf(p, v, i)
      <4>1. w \in ValuesOf(q.typ) /\ Load(v, p.parts[i].at) = w /\ Matched[<<q, w>>] /\ <<q, w>> \in Loads
        BY <2>0, ValueIn, Typed
      <4>2. PartAt(x, i) = <<q, w>>
        BY DEF PartAt
      <4>3. CASE Skipped(p, i)
        <5>1. BindsNothing(q)
          BY <4>3 DEF Skipped
        <5>2. Places[<<q, w>>] = {}
          BY <4>1, <5>1, NoPlaces
        <5>3. seqs[i] = <<>>
          <6> HIDE DEF seqs, D
          <6> QED
            BY <3>2, <4>3
        <5>4. ToSet(<<>>) = {}
          BY DEF ToSet
        <5> QED
          BY <4>2, <5>2, <5>3, <5>4
      <4>4. CASE ~Skipped(p, i)
        <5>1. Loaded(x, i) = <<q, w>>
          BY <2>0, <4>1, Typed DEF Loaded, LoadPart
        <5>2. q \in Good
          BY <1>1, PatternShape
        <5>3. ToSet(D[<<q, w>>]) = Places[<<q, w>>]
          BY <4>1, <5>2
        <5>4. seqs[i] = D[<<q, w>>]
          BY <3>2, <4>4, <5>1
        <5> QED
          BY <4>2, <5>3, <5>4
      <4> QED
        BY <4>3, <4>4
    <3>5. ToSet(FlattenSeq(seqs)) = UNION {ToSet(seqs[i]) : i \in DOMAIN seqs}
      BY <3>2, FlattenElements
    <3> HIDE DEF seqs
    <3>6. {ToSet(seqs[i]) : i \in DOMAIN seqs} = {Places[PartAt(x, i)] : i \in DOMAIN p.parts}
      BY <3>2, <3>4
    <3> QED
      BY <3>1, <3>3, <3>5, <3>6
  <2> QED
    BY <2>2, <2>3, <2>4
<1> HIDE DEF Good
<1>2. Patterns \subseteq Good
  BY <1>1, PatternInduction
<1> QED
  BY <1>2 DEF Good

LEMMA EnvNames == \A binds : DOMAIN EnvOf(binds) = {b[1] : b \in ToSet(binds)}
BY DEF EnvOf

(* What an environment made of bindings holds, when each name is bound to  *)
(* one value.                                                              *)
LEMMA EnvHolds ==
  ASSUME NEW binds \in Seq(Bindings), \A b, c \in ToSet(binds) : b[1] = c[1] => b = c
  PROVE  {<<x, EnvOf(binds)[x]>> : x \in DOMAIN EnvOf(binds)} = ToSet(binds)
<1> DEFINE IsLast(i) == \A j \in DOMAIN binds : j > i => binds[j][1] # binds[i][1]
           Names == {b[1] : b \in ToSet(binds)}
           Index(x) == CHOOSE i \in DOMAIN binds : binds[i][1] = x /\ IsLast(i)
           env == EnvOf(binds)
<1>1. Len(binds) \in Nat /\ DOMAIN binds = 1 .. Len(binds) /\ \A i \in DOMAIN binds : binds[i] \in Bindings
  OBVIOUS
<1>2. env = [x \in Names |-> binds[Index(x)][2]]
  BY DEF EnvOf
<1>3. ASSUME NEW x \in Names PROVE Index(x) \in DOMAIN binds /\ binds[Index(x)][1] = x
  <2> DEFINE At == {i \in DOMAIN binds : binds[i][1] = x}
             Rest == {Len(binds) - i : i \in At}
  <2>1. Rest # {} /\ Rest \in SUBSET Nat
    BY <1>1 DEF ToSet
  <2>2. PICK m \in Rest : \A k \in Rest : m <= k
    <3> HIDE DEF Rest
    <3> QED
      BY <2>1, Least
  <2>3. PICK i \in At : m = Len(binds) - i
    OBVIOUS
  <2>4. ASSUME NEW j \in DOMAIN binds, j > i, binds[j][1] = binds[i][1] PROVE FALSE
    <3>1. Len(binds) - j \in Rest
      BY <2>3, <2>4
    <3>2. Len(binds) - i <= Len(binds) - j
      BY <2>2, <2>3, <3>1
    <3> QED
      BY <1>1, <2>3, <2>4, <3>2
  <2>5. IsLast(i) /\ i \in DOMAIN binds /\ binds[i][1] = x
    BY <2>3, <2>4
  <2> HIDE DEF IsLast
  <2> QED
    BY <2>5
<1>4. ASSUME NEW b \in ToSet(binds) PROVE b = <<b[1], env[b[1]]>> /\ b[1] \in Names
  <2>1. b \in Bindings /\ b[1] \in Names
    BY <1>1 DEF ToSet
  <2>2. binds[Index(b[1])] \in ToSet(binds) /\ binds[Index(b[1])][1] = b[1]
    BY <1>3, <2>1 DEF ToSet
  <2>3. binds[Index(b[1])] = b
    BY <2>2
  <2>4. env[b[1]] = b[2]
    BY <1>2, <2>1, <2>3
  <2>5. \A A, B : b \in A \X B => b = <<b[1], b[2]>>
    OBVIOUS
  <2>6. b = <<b[1], b[2]>>
    <3> HIDE DEF env, Names, Index
    <3> QED
      BY <2>1, <2>5 DEF Bindings
  <2> HIDE DEF env, Names
  <2> QED
    BY <2>1, <2>4, <2>6
<1>5. DOMAIN env = Names
  BY <1>2
<1> HIDE DEF env
<1>6. ASSUME NEW x \in Names PROVE <<x, env[x]>> \in ToSet(binds)
  <2>1. PICK b \in ToSet(binds) : b[1] = x
    OBVIOUS
  <2>2. b = <<x, env[x]>>
    BY <1>4, <2>1
  <2> QED
    BY <2>1, <2>2
<1> HIDE DEF Names
<1>7. {<<x, env[x]>> : x \in Names} = ToSet(binds)
  BY <1>4, <1>6
<1> QED
  BY <1>5, <1>7 DEF env, Names

-----------------------------------------------------------------------------
(* The inductive invariant of the run: the cases before the one that is    *)
(* being tested do not match, a case that passed its test matches, and a   *)
(* load faults only in a last case that does not match.                    *)
RunInv ==
  /\ match \in MatchExprs
  /\ stage \in {"test", "body", "fault"} =>
       /\ scrut = Build(match.scrutinee)
       /\ case \in 1 .. LastCase
       /\ \A i \in 1 .. case - 1 : ~MatchesHere(i)
  /\ stage = "body" =>
       /\ bound = EnvOf(Destructure[<<match.cases[case], scrut>>])
       /\ case < LastCase => MatchesHere(case)
  /\ stage = "fault" => case = LastCase /\ ~MatchesHere(case)

(* A case is matched against a value of its type.                          *)
LEMMA CaseIn ==
  ASSUME WellTyped, NEW m \in MatchExprs, NEW i \in 1 .. Len(m.cases)
  PROVE  /\ m.cases[i] \in Patterns
         /\ Build(m.scrutinee) \in ValuesOf(m.cases[i].typ)
<1>1. m.cases \in Seq(Patterns)
  BY MatchingAssumption
<1>2. m.cases[i] \in Patterns /\ i \in DOMAIN m.cases
  BY <1>1
<1> QED
  BY <1>2 DEF WellTyped

(* The bindings of a case that matches.                                    *)
LEMMA CaseBinds ==
  ASSUME WellTyped, NEW m \in MatchExprs, NEW i \in 1 .. Len(m.cases),
         Matched[<<m.cases[i], Build(m.scrutinee)>>]
  PROVE  LET x == <<m.cases[i], Build(m.scrutinee)>>
             env == EnvOf(Destructure[x])
         IN /\ DOMAIN env = m.names[i] /\ Faulted \notin DOMAIN env
            /\ NamedOnce => {<<n, env[n]>> : n \in DOMAIN env} = Places[x]
<1> DEFINE p == m.cases[i]
           v == Build(m.scrutinee)
           binds == Destructure[<<p, v>>]
<1>1. p \in Patterns /\ v \in ValuesOf(p.typ) /\ <<p, v>> \in Loads
  BY CaseIn, LoadIn
<1>2. binds \in Seq(Bindings)
  BY <1>1, DestructureEquation
<1>3. ToSet(binds) = Places[<<p, v>>]
  BY <1>1, BindsPlaces
<1>4. Named(p, Places[<<p, v>>])
  BY <1>1, PlacesNamed
<1>5. i \in DOMAIN m.cases
  BY MatchingAssumption
<1>6. m.names[i] = NamesOf[p] /\ Faulted \notin NamesOf[p]
  BY <1>1, <1>5, NamesNotEmpty DEF WellTyped
<1> HIDE DEF binds, p, v
<1>7. DOMAIN EnvOf(binds) = NamesOf[p]
  BY <1>3, <1>4, EnvNames DEF Named
<1>8. ASSUME NamedOnce PROVE {<<n, EnvOf(binds)[n]>> : n \in DOMAIN EnvOf(binds)} = Places[<<p, v>>]
  <2>1. \A b, c \in ToSet(binds) : b[1] = c[1] => b = c
    BY <1>3, <1>4, <1>8 DEF Named
  <2> QED
    BY <1>2, <1>3, <2>1, EnvHolds
<1> QED
  BY <1>6, <1>7, <1>8 DEF binds, p, v

LEMMA RunInvInit == Init => RunInv
BY DEF Init, RunInv

(* A case that is tested matches or is passed over; its test never faults. *)
LEMMA RunInvTest ==
  ASSUME WellTyped, RunInv, TestCase
  PROVE  RunInv'
<1> DEFINE p == match.cases[case]
<1>1. /\ match \in MatchExprs /\ scrut = Build(match.scrutinee)
      /\ case \in 1 .. LastCase /\ case < LastCase /\ \A i \in 1 .. case - 1 : ~MatchesHere(i)
      /\ LastCase \in Nat
  BY MatchingAssumption DEF RunInv, TestCase, LastCase
<1>2. p \in Patterns /\ scrut \in ValuesOf(p.typ)
  BY <1>1, CaseIn DEF LastCase
<1>3. Outcome = IF MatchesHere(case) THEN "yes" ELSE "no"
  BY <1>2, TestDecides DEF Outcome, MatchesHere
<1>4. CASE Outcome = "yes"
  <2>1. Take(Destructure[<<p, scrut>>])
    BY <1>4 DEF TestCase
  <2>2. MatchesHere(case)
    BY <1>3, <1>4
  <2>3. Faulted \notin DOMAIN EnvOf(Destructure[<<p, scrut>>])
    BY <1>1, <2>2, CaseBinds DEF MatchesHere, LastCase
  <2>4. /\ UNCHANGED <<match, case, scrut>>
        /\ bound' = EnvOf(Destructure[<<p, scrut>>]) /\ stage' = "body"
    BY <2>1, <2>3 DEF Take
  <2> QED
    BY <1>1, <2>2, <2>4 DEF RunInv, MatchesHere, LastCase
<1>5. CASE Outcome = "no"
  <2>1. case' = case + 1 /\ UNCHANGED <<match, stage, scrut, bound>> /\ stage = "test"
    BY <1>5 DEF TestCase
  <2>2. ~MatchesHere(case)
    BY <1>3, <1>5
  <2>3. \A i \in 1 .. case' - 1 : i \in 1 .. case - 1 \/ i = case
    BY <1>1, <2>1
  <2>4. case' \in 1 .. LastCase
    BY <1>1, <2>1
  <2> QED
    BY <1>1, <2>1, <2>2, <2>3, <2>4 DEF RunInv, MatchesHere, LastCase
<1> QED
  BY <1>3, <1>4, <1>5

(* The bindings of the last case fault only if it does not match.          *)
LEMMA RunInvLast ==
  ASSUME WellTyped, RunInv, TakeLast
  PROVE  RunInv'
<1> DEFINE p == match.cases[case]
<1>1. /\ match \in MatchExprs /\ scrut = Build(match.scrutinee)
      /\ case \in 1 .. LastCase /\ case = LastCase /\ \A i \in 1 .. case - 1 : ~MatchesHere(i)
      /\ LastCase \in Nat
  BY MatchingAssumption DEF RunInv, TakeLast, LastCase
<1>2. /\ UNCHANGED <<match, case, scrut>>
      /\ bound' = EnvOf(Destructure[<<p, scrut>>])
      /\ stage' = IF Faulted \in DOMAIN bound' THEN "fault" ELSE "body"
  BY DEF TakeLast, Take
<1>3. MatchesHere(case) => stage' = "body"
  BY <1>1, <1>2, CaseBinds DEF MatchesHere, LastCase
<1>4. CASE stage' = "body"
  <2>1. ~(case < LastCase)
    BY <1>1
  <2>2. LastCase' = LastCase /\ \A i \in 1 .. case' - 1 : ~MatchesHere(i)'
    BY <1>1, <1>2 DEF LastCase, MatchesHere
  <2>3. bound' = EnvOf(Destructure[<<match'.cases[case'], scrut'>>])
    BY <1>2
  <2> QED
    BY <1>1, <1>2, <1>4, <2>1, <2>2, <2>3 DEF RunInv
<1>5. CASE stage' = "fault"
  <2>1. ~MatchesHere(case)
    BY <1>3, <1>5
  <2> QED
    BY <1>1, <1>2, <1>5, <2>1 DEF RunInv, MatchesHere, LastCase
<1> QED
  BY <1>2, <1>4, <1>5

LEMMA RunInvNext ==
  ASSUME WellTyped, RunInv, [Next]_vars
  PROVE  RunInv'
<1>1. CASE Lower
  BY <1>1 DEF Lower, RunInv
<1>2. CASE Evaluate
  <2>1. match \in MatchExprs /\ match' = match /\ scrut' = Build(match.scrutinee) /\ case' = 1 /\ stage' = "test"
    BY <1>2 DEF Evaluate, RunInv
  <2>2. Len(match.cases) \in Nat \ {0}
    BY <2>1, MatchingAssumption
  <2> QED
    BY <2>1, <2>2 DEF RunInv, LastCase
<1>3. CASE TestCase
  BY <1>3, RunInvTest
<1>4. CASE TakeLast
  BY <1>4, RunInvLast
<1>5. CASE UNCHANGED vars
  BY <1>5 DEF vars, RunInv, MatchesHere, LastCase
<1> QED
  BY <1>1, <1>2, <1>3, <1>4, <1>5 DEF Next

(* When the cases cover the type, the case that is in its body matches.    *)
LEMMA BodyMatches ==
  ASSUME WellTyped, RunInv, Covered, stage \in {"body", "fault"}
  PROVE  stage = "body" /\ MatchesHere(case)
<1>1. scrut \in ValuesOf(match.typ) /\ case \in 1 .. LastCase /\ \A i \in 1 .. case - 1 : ~MatchesHere(i)
  BY DEF RunInv, WellTyped
<1>2. PICK i \in 1 .. LastCase : MatchesHere(i)
  BY <1>1 DEF Covered, MatchesHere
<1>3. LastCase \in Nat
  BY MatchingAssumption DEF RunInv, LastCase
<1>4. case = LastCase => i = case
  BY <1>1, <1>2, <1>3
<1> QED
  BY <1>1, <1>2, <1>3, <1>4 DEF RunInv

-----------------------------------------------------------------------------
(***************************************************************************)
(* The run of a match keeps its invariant, whether or not its cases cover  *)
(* the type.                                                               *)
(***************************************************************************)
THEOREM SpecRunInv ==
  ASSUME WellTyped
  PROVE  Spec => []RunInv
<1>1. Init => RunInv
  BY RunInvInit
<1>2. RunInv /\ [Next]_vars => RunInv'
  BY RunInvNext
<1> QED
  BY <1>1, <1>2, PTL DEF Spec

(***************************************************************************)
(* The case that is taken is the first that matches the scrutinee, the     *)
(* untested last one included, for patterns of any depth.                  *)
(***************************************************************************)
THEOREM SpecFirstMatch ==
  ASSUME WellTyped
  PROVE  Spec => []FirstMatch
<1>1. RunInv => FirstMatch
  BY BodyMatches DEF FirstMatch, RunInv
<1> QED
  BY <1>1, SpecRunInv, PTL

(***************************************************************************)
(* Neither a test nor the bindings of the case that is taken load through  *)
(* a null list or from the payload of another variant.                     *)
(***************************************************************************)
THEOREM SpecNoNullLoads ==
  ASSUME WellTyped
  PROVE  Spec => []NoNullLoads
<1>1. RunInv => NoNullLoads
  BY BodyMatches DEF NoNullLoads
<1> QED
  BY <1>1, SpecRunInv, PTL

(***************************************************************************)
(* The body that runs sees exactly the names that were type-checked, each  *)
(* with the part of the scrutinee that is in its place.                    *)
(***************************************************************************)
THEOREM SpecBindsTheParts ==
  ASSUME WellTyped, NamedOnce
  PROVE  Spec => []BindsTheParts
<1>1. ASSUME RunInv PROVE BindsTheParts
  <2> SUFFICES ASSUME stage = "body", Covered
               PROVE  /\ DOMAIN bound = match.names[case]
                      /\ {<<x, bound[x]>> : x \in DOMAIN bound} = Places[<<match.cases[case], scrut>>]
    BY DEF BindsTheParts
  <2>1. /\ match \in MatchExprs /\ scrut = Build(match.scrutinee) /\ case \in 1 .. LastCase
        /\ bound = EnvOf(Destructure[<<match.cases[case], scrut>>])
    BY <1>1 DEF RunInv
  <2>2. MatchesHere(case)
    BY <1>1, BodyMatches
  <2> DEFINE x == <<match.cases[case], Build(match.scrutinee)>>
             env == EnvOf(Destructure[x])
  <2>3. Matched[x]
    BY <2>1, <2>2 DEF MatchesHere
  <2>4. DOMAIN env = match.names[case] /\ {<<n, env[n]>> : n \in DOMAIN env} = Places[x]
    <3> HIDE DEF x
    <3> QED
      BY <2>1, <2>3, CaseBinds DEF x, LastCase
  <2>5. bound = env /\ x = <<match.cases[case], scrut>>
    BY <2>1
  <2> HIDE DEF env, x
  <2> QED
    BY <2>4, <2>5
<1> QED
  BY <1>1, SpecRunInv, PTL
=============================================================================
