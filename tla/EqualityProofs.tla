--------------------------- MODULE EqualityProofs ---------------------------
(***************************************************************************)
(* The helpers of Equality and the answers of the program that calls them, *)
(* for any types and values: what a type is, which types are in it and     *)
(* which values it has is given by the operators that are parameters of    *)
(* Equality.  The theorems hold for every set of types that has with each  *)
(* aggregate its parts, as the set of all types does, and for all values   *)
(* of them that have their components.                                     *)
(*                                                                         *)
(* The invariant is of three parts: each type has one helper               *)
(* (HelpersAgree); a helper compares the parts of its type in order        *)
(* (PartsAgree); and of the calls that have not returned each is to find   *)
(* out about the part that the one before has come to (RunAgrees).         *)
(***************************************************************************)
EXTENDS Equality, FiniteSetTheorems, SequenceTheorems, WellFoundedInduction, TLAPS

Refs(Types) == [t : Types, helper : Nat]
Begun(Types) ==
  [t : Types \cup Asked, helper : Nat, todo : Seq(Types), refs : Seq(Refs(Types))]

(* A helper is the one registered for a type, or the program itself.       *)
IsHelperOf(t, h) == h # Inline => t \in DOMAIN registry /\ registry[t] = h

RegistryCounts ==
  /\ counter \in Nat
  /\ IsFiniteSet(DOMAIN registry) /\ Cardinality(DOMAIN registry) = counter
  /\ \A t \in DOMAIN registry : registry[t] \in 1 .. counter
  /\ \A t, u \in DOMAIN registry : registry[t] = registry[u] => t = u

PendingIs(Types) ==
  /\ pending \in Seq(Begun(Types))
  /\ \A i \in 1 .. Len(pending) :
       /\ pending[i].helper \in 0 .. counter \ DOMAIN code
       /\ IsHelperOf(pending[i].t, pending[i].helper)
       /\ \A k \in 1 .. Len(pending[i].refs) :
            IsHelperOf(pending[i].refs[k].t, pending[i].refs[k].helper)
  /\ \A i, j \in 1 .. Len(pending) : pending[i].helper = pending[j].helper => i = j

CodeIs(Types) ==
  \A h \in DOMAIN code :
    /\ h \in 0 .. counter
    /\ IsHelperOf(code[h].t, h)
    /\ code[h].refs \in Seq(Refs(Types))
    /\ \A k \in 1 .. Len(code[h].refs) :
         IsHelperOf(code[h].refs[k].t, code[h].refs[k].helper)

(* Every helper is emitted or about to be.                                 *)
NoneIsLost ==
  \A h \in 1 .. counter :
    h \in DOMAIN code \/ \E i \in 1 .. Len(pending) : pending[i].helper = h

Stages ==
  /\ pc \in {"lower", "refused", "ready", "run", "answered", "fault"}
  /\ pc = "lower" => pending # <<>>
  /\ pc \notin {"lower", "refused"} => pending = <<>>

HelpersAgree(Types) ==
  RegistryCounts /\ PendingIs(Types) /\ CodeIs(Types) /\ NoneIsLost /\ Stages

LEMMA AgreeingIsEnough ==
  ASSUME NEW Types, HelpersAgree(Types)
  PROVE  OneHelperPerType
<1> USE DEF HelpersAgree
<1>1. \A t, u \in DOMAIN registry : registry[t] = registry[u] => t = u
  BY DEF RegistryCounts
<1>2. counter = Cardinality(DOMAIN registry)
  BY DEF RegistryCounts
<1>3. DOMAIN pending = 1 .. Len(pending)
  BY DEF PendingIs
<1>4. \A i, j \in DOMAIN pending : pending[i].helper = pending[j].helper => i = j
  BY <1>3 DEF PendingIs
<1>5. \A i \in DOMAIN pending : pending[i].helper \notin DOMAIN code
  BY <1>3 DEF PendingIs
<1>6. ASSUME pc \notin {"lower", "refused"},
             NEW h \in DOMAIN code, NEW i \in DOMAIN code[h].refs,
             code[h].refs[i].helper # Inline
      PROVE  LET ref == code[h].refs[i]
             IN  ref.helper \in DOMAIN code /\ code[ref.helper].t = ref.t
  <2>1. i \in 1 .. Len(code[h].refs)
    BY DEF CodeIs
  <2>2. PICK ref : ref = code[h].refs[i]
    OBVIOUS
  <2>3. ref.t \in DOMAIN registry /\ registry[ref.t] = ref.helper
    BY <1>6, <2>1, <2>2 DEF CodeIs, IsHelperOf
  <2>4. ref.helper \in 1 .. counter
    BY <2>3 DEF RegistryCounts
  <2>5. Len(pending) = 0
    BY <1>6 DEF Stages
  <2>6. ref.helper \in DOMAIN code
    BY <2>4, <2>5 DEF NoneIsLost
  <2>7. code[ref.helper].t \in DOMAIN registry /\ registry[code[ref.helper].t] = ref.helper
    BY <1>6, <2>2, <2>6 DEF CodeIs, IsHelperOf
  <2>8. code[ref.helper].t = ref.t
    BY <1>1, <2>3, <2>7
  <2> QED  BY <2>2, <2>6, <2>8
<1> QED  BY <1>1, <1>2, <1>4, <1>5, <1>6 DEF OneHelperPerType

LEMMA AgreeInitially ==
  ASSUME NEW Types, Closed(Types, Asked), Init
  PROVE  HelpersAgree(Types)
<1>1. asked \in Seq(Types)
  BY DEF Init, Closed
<1>2. PICK b : b = Begin(asked, Inline, asked)
  OBVIOUS
<1>3. b \in Begun(Types) /\ b.helper = 0 /\ b.refs = <<>>
  BY <1>1, <1>2 DEF Begin, Begun, Inline, Init
<1>4. pending = <<b>> /\ counter = 0 /\ registry = <<>> /\ code = <<>> /\ pc = "lower"
  BY <1>2 DEF Init
<1>5. DOMAIN registry = {} /\ DOMAIN code = {}
  BY <1>4
<1>6. RegistryCounts
  BY <1>4, <1>5, FS_EmptySet DEF RegistryCounts
<1>7. /\ pending \in Seq(Begun(Types)) /\ Len(pending) = 1
      /\ \A i \in 1 .. Len(pending) : i = 1 /\ pending[i] = b
  BY <1>3, <1>4
<1>8. PendingIs(Types)
  BY <1>3, <1>4, <1>5, <1>7 DEF PendingIs, IsHelperOf, Inline
<1>9. CodeIs(Types) /\ NoneIsLost
  BY <1>4, <1>5 DEF CodeIs, NoneIsLost
<1>10. Stages
  BY <1>4, <1>7 DEF Stages
<1> QED  BY <1>6, <1>8, <1>9, <1>10 DEF HelpersAgree

(* What is left of the helper being lowered after one part.                *)
LEMMA ComparedIs ==
  ASSUME NEW Types, NEW stack \in Seq(Begun(Types)), stack # <<>>,
         stack[Len(stack)].todo # <<>>, NEW r \in Refs(Types)
  PROVE  LET next == Compared(stack, r)
             top == stack[Len(stack)]
         IN  /\ next \in Seq(Begun(Types)) /\ Len(next) = Len(stack)
             /\ \A i \in 1 .. Len(stack) :
                  next[i].t = stack[i].t /\ next[i].helper = stack[i].helper
             /\ \A i \in 1 .. Len(stack) : i # Len(stack) => next[i] = stack[i]
             /\ next[Len(stack)].refs = Append(top.refs, r)
             /\ next[Len(stack)].todo = Tail(top.todo)
<1>1. Len(stack) \in 1 .. Len(stack) /\ stack[Len(stack)] \in Begun(Types)
  OBVIOUS
<1>2. PICK top : top = stack[Len(stack)]
  OBVIOUS
<1>3. PICK new : new = [top EXCEPT !.todo = Tail(@), !.refs = Append(@, r)]
  OBVIOUS
<1>4. top.todo \in Seq(Types) /\ top.refs \in Seq(Refs(Types)) /\ top.todo # <<>>
  BY <1>1, <1>2 DEF Begun
<1>5. Tail(top.todo) \in Seq(Types) /\ Append(top.refs, r) \in Seq(Refs(Types))
  BY <1>4
<1>6. /\ new \in Begun(Types) /\ new.t = top.t /\ new.helper = top.helper
      /\ new.refs = Append(top.refs, r) /\ new.todo = Tail(top.todo)
  BY <1>1, <1>2, <1>3, <1>5 DEF Begun
<1>7. Compared(stack, r) = [stack EXCEPT ![Len(stack)] = new]
  BY <1>1, <1>2, <1>3 DEF Compared
<1> QED  BY <1>1, <1>2, <1>6, <1>7

LEMMA NextTypeIs ==
  ASSUME NEW Types, Closed(Types, Asked), HelpersAgree(Types), Lowers
  PROVE  /\ pending \in Seq(Begun(Types)) /\ pending # <<>>
         /\ Len(pending) \in 1 .. Len(pending)
         /\ pending[Len(pending)].todo # <<>>
         /\ NextType \in Types
         /\ IsAggregate(NextType) => Parts(NextType) \in Seq(Types)
<1>1. pending \in Seq(Begun(Types)) /\ pending # <<>> /\ Top.todo # <<>>
  BY DEF HelpersAgree, PendingIs, Stages, Lowers
<1>2. Len(pending) \in 1 .. Len(pending) /\ Top \in Begun(Types)
  BY <1>1 DEF Top
<1>3. Head(Top.todo) \in Types
  BY <1>1, <1>2 DEF Begun
<1> QED  BY <1>1, <1>2, <1>3 DEF Top, NextType, Closed

(* One more part is compared inline or by a helper that is registered.     *)
LEMMA PartAgrees ==
  ASSUME NEW Types, Closed(Types, Asked), HelpersAgree(Types), Lowers,
         NEW r \in Refs(Types), IsHelperOf(r.t, r.helper),
         pending' = Compared(pending, r), UNCHANGED <<pc, registry, counter, code>>
  PROVE  HelpersAgree(Types)'
<1>1. /\ pending \in Seq(Begun(Types)) /\ pending # <<>>
      /\ Len(pending) \in 1 .. Len(pending)
      /\ pending[Len(pending)].todo # <<>>
  BY NextTypeIs
<1>2. PICK next : next = Compared(pending, r)
  OBVIOUS
<1>3. PICK n : n = Len(pending)
  OBVIOUS
<1>4. /\ next \in Seq(Begun(Types)) /\ Len(next) = n
      /\ \A i \in 1 .. n : next[i].t = pending[i].t /\ next[i].helper = pending[i].helper
      /\ \A i \in 1 .. n : i # n => next[i] = pending[i]
      /\ next[n].refs = Append(pending[n].refs, r)
  BY <1>1, <1>2, <1>3, ComparedIs
<1>5. n \in Nat /\ n \in 1 .. n
  BY <1>1, <1>3
<1>6. RegistryCounts'
  BY DEF HelpersAgree, RegistryCounts
<1>7. CodeIs(Types)'
  BY DEF HelpersAgree, CodeIs, IsHelperOf
<1>8. \A i \in 1 .. n :
        /\ next[i].helper \in 0 .. counter \ DOMAIN code
        /\ IsHelperOf(next[i].t, next[i].helper)
  BY <1>3, <1>4 DEF HelpersAgree, PendingIs
<1>9. ASSUME NEW i \in 1 .. n, NEW k \in 1 .. Len(next[i].refs)
      PROVE  IsHelperOf(next[i].refs[k].t, next[i].refs[k].helper)
  <2>1. CASE i # n
    BY <1>3, <1>4, <1>9, <2>1 DEF HelpersAgree, PendingIs
  <2>2. CASE i = n
    <3>1. PICK refs : refs = pending[n].refs
      OBVIOUS
    <3>2. refs \in Seq(Refs(Types))
      <4>1. pending[n] \in Begun(Types)
        BY <1>1, <1>3, <1>5
      <4> QED  BY <3>1, <4>1 DEF Begun
    <3>3. \A j \in 1 .. Len(refs) : IsHelperOf(refs[j].t, refs[j].helper)
      BY <1>3, <1>5, <3>1 DEF HelpersAgree, PendingIs
    <3>4. next[i].refs = Append(refs, r)
      BY <1>4, <2>2, <3>1
    <3>5. \/ k \in 1 .. Len(refs) /\ Append(refs, r)[k] = refs[k]
          \/ Append(refs, r)[k] = r
      BY <1>9, <3>2, <3>4
    <3> QED  BY <3>3, <3>4, <3>5
  <2> QED  BY <2>1, <2>2
<1>10. \A i, j \in 1 .. n : next[i].helper = next[j].helper => i = j
  BY <1>3, <1>4 DEF HelpersAgree, PendingIs
<1>11. pending' = next
  BY <1>2
<1>12. PendingIs(Types)'
  BY <1>4, <1>8, <1>9, <1>10, <1>11 DEF PendingIs, IsHelperOf
<1>13. NoneIsLost'
  <2>1. \A h \in 1 .. counter :
          h \in DOMAIN code \/ \E i \in 1 .. n : pending[i].helper = h
    BY <1>3 DEF HelpersAgree, NoneIsLost
  <2> QED  BY <1>4, <1>11, <2>1 DEF NoneIsLost
<1>14. Stages'
  <2>1. pc' = pc /\ pc = "lower"
    BY DEF Lowers
  <2>2. pending' # <<>>
    BY <1>4, <1>5, <1>11
  <2> QED  BY <2>1, <2>2 DEF Stages
<1> QED  BY <1>6, <1>7, <1>12, <1>13, <1>14 DEF HelpersAgree

LEMMA ScalarAgrees ==
  ASSUME NEW Types, Closed(Types, Asked), HelpersAgree(Types), LowerScalar
  PROVE  HelpersAgree(Types)'
<1>1. Lowers /\ pending' = Compared(pending, Ref(NextType, Inline))
      /\ UNCHANGED <<pc, registry, counter, code>>
  BY DEF LowerScalar
<1>2. NextType \in Types
  BY <1>1, NextTypeIs
<1>3. PICK r : r = Ref(NextType, Inline)
  OBVIOUS
<1>4. r \in Refs(Types) /\ IsHelperOf(r.t, r.helper)
  BY <1>2, <1>3 DEF Ref, Refs, Inline, IsHelperOf
<1> QED  BY <1>1, <1>3, <1>4, PartAgrees

LEMMA RegisteredAgrees ==
  ASSUME NEW Types, Closed(Types, Asked), HelpersAgree(Types), CallRegistered
  PROVE  HelpersAgree(Types)'
<1>1. /\ Lowers /\ pending' = Compared(pending, Ref(NextType, registry[NextType]))
      /\ NextType \in DOMAIN registry
      /\ UNCHANGED <<pc, registry, counter, code>>
  BY DEF CallRegistered
<1>2. NextType \in Types
  BY <1>1, NextTypeIs
<1>3. registry[NextType] \in Nat
  <2>1. registry[NextType] \in 1 .. counter /\ counter \in Nat
    BY <1>1 DEF HelpersAgree, RegistryCounts
  <2> QED  BY <2>1
<1>4. PICK r : r = Ref(NextType, registry[NextType])
  OBVIOUS
<1>5. r \in Refs(Types) /\ IsHelperOf(r.t, r.helper)
  BY <1>1, <1>2, <1>3, <1>4 DEF Ref, Refs, IsHelperOf
<1> QED  BY <1>1, <1>4, <1>5, PartAgrees

(* The new helper's number is one no other has, and what was registered    *)
(* stays.                                                                  *)
LEMMA BegunAgrees ==
  ASSUME NEW Types, Closed(Types, Asked), HelpersAgree(Types), BeginHelper
  PROVE  HelpersAgree(Types)'
<1>1. PICK t : t = NextType
  OBVIOUS
<1>2. PICK c : c = counter + 1
  OBVIOUS
<1>3. /\ Lowers /\ IsAggregate(t) /\ t \notin DOMAIN registry
      /\ counter' = c
      /\ registry' = [u \in DOMAIN registry \cup {t} |-> IF u = t THEN c ELSE registry[u]]
      /\ pending' = Append(Compared(pending, Ref(t, c)), Begin(t, c, Parts(t)))
      /\ code' = code /\ pc' = pc /\ pc = "lower"
  BY <1>1, <1>2 DEF BeginHelper, Lowers
<1>4. /\ pending \in Seq(Begun(Types)) /\ pending # <<>>
      /\ Len(pending) \in 1 .. Len(pending)
      /\ pending[Len(pending)].todo # <<>>
      /\ t \in Types /\ Parts(t) \in Seq(Types)
  BY <1>1, <1>3, NextTypeIs
<1>5. /\ counter \in Nat /\ c \in Nat /\ c > counter /\ c \in 1 .. c
      /\ \A h \in 0 .. counter : h \in 0 .. c
      /\ \A h \in 1 .. counter : h \in 1 .. c
      /\ \A h \in 1 .. c : h = c \/ h \in 1 .. counter
  BY <1>2 DEF HelpersAgree, RegistryCounts
<1>6. /\ t \in DOMAIN registry' /\ registry'[t] = c
      /\ DOMAIN registry' = DOMAIN registry \cup {t}
      /\ \A u \in DOMAIN registry : registry'[u] = registry[u]
  BY <1>3
<1>7. \A u, h : IsHelperOf(u, h) => IsHelperOf(u, h)'
  BY <1>6 DEF IsHelperOf
<1>8. PICK r : r = Ref(t, c)
  OBVIOUS
<1>9. r \in Refs(Types) /\ r.t = t /\ r.helper = c
  BY <1>4, <1>5, <1>8 DEF Ref, Refs
<1>10. PICK b : b = Begin(t, c, Parts(t))
  OBVIOUS
<1>11. b \in Begun(Types) /\ b.t = t /\ b.helper = c /\ b.refs = <<>>
  BY <1>4, <1>5, <1>10 DEF Begin, Begun
<1>12. PICK next : next = Compared(pending, r)
  OBVIOUS
<1>13. PICK n : n = Len(pending)
  OBVIOUS
<1>14. /\ n \in Nat /\ n \in 1 .. n /\ n + 1 \in 1 .. n + 1
       /\ \A i \in 1 .. n + 1 : i = n + 1 \/ i \in 1 .. n
       /\ \A i \in 1 .. n : i \in 1 .. n + 1 /\ i # n + 1
  BY <1>4, <1>13
<1>15. /\ next \in Seq(Begun(Types)) /\ Len(next) = n
       /\ \A i \in 1 .. n : next[i].t = pending[i].t /\ next[i].helper = pending[i].helper
       /\ \A i \in 1 .. n : i # n => next[i] = pending[i]
       /\ next[n].refs = Append(pending[n].refs, r)
  BY <1>4, <1>9, <1>12, <1>13, ComparedIs
<1>16. PICK last : last = pending'
  OBVIOUS
<1>17. /\ last \in Seq(Begun(Types)) /\ Len(last) = n + 1 /\ last[n + 1] = b
       /\ \A i \in 1 .. n : last[i] = next[i]
  <2>1. last = Append(next, b)
    BY <1>3, <1>8, <1>10, <1>12, <1>16
  <2> QED  BY <1>11, <1>14, <1>15, <2>1
<1>18. RegistryCounts'
  <2>1. IsFiniteSet(DOMAIN registry') /\ Cardinality(DOMAIN registry') = c
    <3>1. IsFiniteSet(DOMAIN registry) /\ Cardinality(DOMAIN registry) = counter
      BY DEF HelpersAgree, RegistryCounts
    <3> QED  BY <1>2, <1>3, <1>6, <3>1, FS_AddElement
  <2>2. \A u \in DOMAIN registry : registry[u] \in 1 .. counter
    BY DEF HelpersAgree, RegistryCounts
  <2>3. \A u \in DOMAIN registry' : registry'[u] \in 1 .. c
    BY <1>5, <1>6, <2>2
  <2>4. \A u, v \in DOMAIN registry' : registry'[u] = registry'[v] => u = v
    <3>1. \A u, v \in DOMAIN registry : registry[u] = registry[v] => u = v
      BY DEF HelpersAgree, RegistryCounts
    <3>2. \A u \in DOMAIN registry : registry[u] # c
      BY <1>5, <2>2
    <3> QED  BY <1>6, <3>1, <3>2
  <2> QED  BY <1>3, <1>5, <2>1, <2>3, <2>4 DEF RegistryCounts
<1>19. CodeIs(Types)'
  BY <1>3, <1>5, <1>7 DEF HelpersAgree, CodeIs
<1>20. \A i \in 1 .. n :
         /\ next[i].helper \in 0 .. counter \ DOMAIN code
         /\ IsHelperOf(next[i].t, next[i].helper)
  BY <1>13, <1>15 DEF HelpersAgree, PendingIs
<1>21. c \notin DOMAIN code
  BY <1>5 DEF HelpersAgree, CodeIs
<1>22. IsHelperOf(t, c)'
  BY <1>6 DEF IsHelperOf
<1>23. ASSUME NEW i \in 1 .. n, NEW k \in 1 .. Len(next[i].refs)
       PROVE  IsHelperOf(next[i].refs[k].t, next[i].refs[k].helper)'
  <2>1. CASE i # n
    <3>1. IsHelperOf(next[i].refs[k].t, next[i].refs[k].helper)
      BY <1>13, <1>15, <1>23, <2>1 DEF HelpersAgree, PendingIs
    <3> QED  BY <1>7, <3>1
  <2>2. CASE i = n
    <3>1. PICK refs : refs = pending[n].refs
      OBVIOUS
    <3>2. refs \in Seq(Refs(Types))
      <4>1. pending[n] \in Begun(Types)
        BY <1>4, <1>13, <1>14
      <4> QED  BY <3>1, <4>1 DEF Begun
    <3>3. \A j \in 1 .. Len(refs) : IsHelperOf(refs[j].t, refs[j].helper)
      BY <1>13, <1>14, <3>1 DEF HelpersAgree, PendingIs
    <3>4. next[i].refs = Append(refs, r)
      BY <1>15, <2>2, <3>1
    <3>5. \/ k \in 1 .. Len(refs) /\ Append(refs, r)[k] = refs[k]
          \/ Append(refs, r)[k] = r
      BY <1>23, <3>2, <3>4
    <3> QED  BY <1>7, <1>9, <1>22, <3>3, <3>4, <3>5
  <2> QED  BY <2>1, <2>2
<1>24. \A i, j \in 1 .. n : next[i].helper = next[j].helper => i = j
  BY <1>13, <1>15 DEF HelpersAgree, PendingIs
<1>25. \A i \in 1 .. n + 1 :
         /\ last[i].helper \in 0 .. c \ DOMAIN code
         /\ IsHelperOf(last[i].t, last[i].helper)'
  <2>1. \A i \in 1 .. n :
          /\ last[i].helper \in 0 .. c \ DOMAIN code
          /\ IsHelperOf(last[i].t, last[i].helper)'
    BY <1>5, <1>7, <1>17, <1>20
  <2>2. last[n + 1].helper \in 0 .. c \ DOMAIN code
        /\ IsHelperOf(last[n + 1].t, last[n + 1].helper)'
    BY <1>5, <1>11, <1>17, <1>21, <1>22
  <2> QED  BY <1>14, <2>1, <2>2
<1>26. \A i \in 1 .. n + 1 : \A k \in 1 .. Len(last[i].refs) :
         IsHelperOf(last[i].refs[k].t, last[i].refs[k].helper)'
  <2>1. Len(last[n + 1].refs) = 0
    BY <1>11, <1>17
  <2>2. \A i \in 1 .. n : last[i] = next[i]
    BY <1>17
  <2> QED  BY <1>14, <1>23, <2>1, <2>2
<1>27. \A i, j \in 1 .. n + 1 : last[i].helper = last[j].helper => i = j
  <2>1. \A i \in 1 .. n : last[i].helper # c /\ last[i].helper = next[i].helper
    BY <1>5, <1>17, <1>20
  <2> QED  BY <1>11, <1>14, <1>17, <1>24, <2>1
<1>28. PendingIs(Types)'
  BY <1>3, <1>16, <1>17, <1>25, <1>26, <1>27 DEF PendingIs
<1>29. NoneIsLost'
  <2>1. \A h \in 1 .. counter :
          h \in DOMAIN code \/ \E i \in 1 .. n : pending[i].helper = h
    BY <1>13 DEF HelpersAgree, NoneIsLost
  <2>2. \A i \in 1 .. n : last[i].helper = pending[i].helper
    BY <1>15, <1>17
  <2>3. \A h \in 1 .. c :
          h \in DOMAIN code \/ \E i \in 1 .. n + 1 : last[i].helper = h
    <3> SUFFICES ASSUME NEW h \in 1 .. c, h \notin DOMAIN code
                 PROVE  \E i \in 1 .. n + 1 : last[i].helper = h
      OBVIOUS
    <3>1. CASE h = c
      BY <1>11, <1>14, <1>17, <3>1
    <3>2. CASE h \in 1 .. counter
      BY <1>14, <2>1, <2>2, <3>2
    <3>3. h = c \/ h \in 1 .. counter
      BY <1>2, <1>5
    <3> QED  BY <3>1, <3>2, <3>3
  <2> QED  BY <1>3, <1>16, <1>17, <2>3 DEF NoneIsLost
<1>30. Stages'
  BY <1>3, <1>14, <1>16, <1>17 DEF Stages
<1> QED  BY <1>18, <1>19, <1>28, <1>29, <1>30 DEF HelpersAgree

(* The helper on top is emitted with all of its parts.                     *)
LEMMA EmittedAgrees ==
  ASSUME NEW Types, HelpersAgree(Types), EmitHelper
  PROVE  HelpersAgree(Types)'
<1>1. PICK n : n = Len(pending)
  OBVIOUS
<1>2. PICK top : top = pending[n]
  OBVIOUS
<1>3. /\ pending \in Seq(Begun(Types)) /\ n \in Nat /\ n \in 1 .. n
      /\ \A i \in 1 .. n - 1 : i \in 1 .. n /\ i # n
      /\ \A i \in 1 .. n : i = n \/ i \in 1 .. n - 1
      /\ top \in Begun(Types)
  BY <1>1, <1>2 DEF HelpersAgree, PendingIs, Stages, EmitHelper
<1>4. /\ code' = [h \in DOMAIN code \cup {top.helper} |->
                    IF h = top.helper THEN [t |-> top.t, refs |-> top.refs] ELSE code[h]]
      /\ pending' = Front(pending)
      /\ pc = "lower" /\ pc' = IF pending' = <<>> THEN "ready" ELSE pc
      /\ registry' = registry /\ counter' = counter
  BY <1>1, <1>2 DEF EmitHelper, Emitted, Top
<1>5. /\ pending' \in Seq(Begun(Types)) /\ Len(pending') = n - 1
      /\ \A i \in 1 .. n - 1 : pending'[i] = pending[i]
  <2>1. \A i \in 1 .. n - 1 : pending[i] \in Begun(Types)
    BY <1>1, <1>3
  <2>2. pending' = SubSeq(pending, 1, n - 1)
    BY <1>1, <1>4 DEF Front
  <2> QED  BY <1>3, <2>1, <2>2, SubSeqProperties
<1>6. /\ DOMAIN code' = DOMAIN code \cup {top.helper}
      /\ code'[top.helper].t = top.t /\ code'[top.helper].refs = top.refs
      /\ \A h \in DOMAIN code : h # top.helper => code'[h] = code[h]
  BY <1>4
<1>7. /\ top.helper \in 0 .. counter /\ top.helper \notin DOMAIN code
      /\ IsHelperOf(top.t, top.helper)
      /\ \A k \in 1 .. Len(top.refs) : IsHelperOf(top.refs[k].t, top.refs[k].helper)
  BY <1>1, <1>2, <1>3 DEF HelpersAgree, PendingIs
<1>8. \A u, h : IsHelperOf(u, h) => IsHelperOf(u, h)'
  BY <1>4 DEF IsHelperOf
<1>9. RegistryCounts'
  BY <1>4 DEF HelpersAgree, RegistryCounts
<1>10. CodeIs(Types)'
  <2>1. top.refs \in Seq(Refs(Types))
    BY <1>3 DEF Begun
  <2>2. PICK emitted : emitted = code'
    OBVIOUS
  <2>3. ASSUME NEW h \in DOMAIN emitted
        PROVE  /\ h \in 0 .. counter
               /\ IsHelperOf(emitted[h].t, h)'
               /\ emitted[h].refs \in Seq(Refs(Types))
               /\ \A k \in 1 .. Len(emitted[h].refs) :
                    IsHelperOf(emitted[h].refs[k].t, emitted[h].refs[k].helper)'
    <3>1. CASE h = top.helper
      <4>1. emitted[h].t = top.t /\ emitted[h].refs = top.refs
        BY <1>6, <2>2, <3>1
      <4> QED  BY <1>7, <1>8, <2>1, <3>1, <4>1
    <3>2. CASE h # top.helper
      <4>1. h \in DOMAIN code /\ emitted[h] = code[h]
        BY <1>6, <2>2, <3>2
      <4>2. /\ h \in 0 .. counter
            /\ IsHelperOf(code[h].t, h)
            /\ code[h].refs \in Seq(Refs(Types))
            /\ \A k \in 1 .. Len(code[h].refs) :
                 IsHelperOf(code[h].refs[k].t, code[h].refs[k].helper)
        BY <4>1 DEF HelpersAgree, CodeIs
      <4> QED  BY <1>8, <4>1, <4>2
    <3> QED  BY <3>1, <3>2
  <2>4. counter' = counter
    BY <1>4
  <2> QED  BY <2>2, <2>3, <2>4 DEF CodeIs, IsHelperOf
<1>11. PendingIs(Types)'
  <2>1. \A i \in 1 .. n : /\ pending[i].helper \in 0 .. counter \ DOMAIN code
                          /\ IsHelperOf(pending[i].t, pending[i].helper)
                          /\ \A k \in 1 .. Len(pending[i].refs) :
                               IsHelperOf(pending[i].refs[k].t, pending[i].refs[k].helper)
    BY <1>1 DEF HelpersAgree, PendingIs
  <2>2. \A i, j \in 1 .. n : pending[i].helper = pending[j].helper => i = j
    BY <1>1 DEF HelpersAgree, PendingIs
  <2>3. PICK rest : rest = pending'
    OBVIOUS
  <2>4. \A i \in 1 .. n - 1 :
          /\ rest[i] = pending[i]
          /\ rest[i].helper \in 0 .. counter \ DOMAIN code'
          /\ IsHelperOf(rest[i].t, rest[i].helper)'
          /\ \A k \in 1 .. Len(rest[i].refs) :
               IsHelperOf(rest[i].refs[k].t, rest[i].refs[k].helper)'
    <3> SUFFICES ASSUME NEW i \in 1 .. n - 1
                 PROVE  /\ rest[i] = pending[i]
                        /\ rest[i].helper \in 0 .. counter \ DOMAIN code'
                        /\ IsHelperOf(rest[i].t, rest[i].helper)'
                        /\ \A k \in 1 .. Len(rest[i].refs) :
                             IsHelperOf(rest[i].refs[k].t, rest[i].refs[k].helper)'
      OBVIOUS
    <3>1. rest[i] = pending[i] /\ i \in 1 .. n /\ i # n
      BY <1>3, <1>5, <2>3
    <3>2. pending[i].helper # top.helper
      BY <1>2, <1>3, <2>2, <3>1
    <3>3. rest[i].helper \in 0 .. counter \ DOMAIN code'
      BY <1>6, <2>1, <3>1, <3>2
    <3> QED  BY <1>8, <2>1, <3>1, <3>3
  <2>5. \A i, j \in 1 .. n - 1 : rest[i].helper = rest[j].helper => i = j
    BY <1>3, <2>2, <2>4
  <2> QED  BY <1>4, <1>5, <2>3, <2>4, <2>5 DEF PendingIs
<1>12. NoneIsLost'
  <2> SUFFICES ASSUME NEW h \in 1 .. counter
               PROVE  h \in DOMAIN code' \/ \E i \in 1 .. n - 1 : pending'[i].helper = h
    BY <1>4, <1>5 DEF NoneIsLost
  <2>1. h \in DOMAIN code \/ \E i \in 1 .. n : pending[i].helper = h
    BY <1>1 DEF HelpersAgree, NoneIsLost
  <2>2. CASE h \in DOMAIN code
    BY <1>6, <2>2
  <2>3. ASSUME NEW i \in 1 .. n, pending[i].helper = h
        PROVE  h \in DOMAIN code' \/ \E j \in 1 .. n - 1 : pending'[j].helper = h
    BY <1>2, <1>3, <1>5, <1>6, <2>3
  <2> QED  BY <2>1, <2>2, <2>3
<1>13. Stages'
  BY <1>4 DEF Stages
<1> QED  BY <1>9, <1>10, <1>11, <1>12, <1>13 DEF HelpersAgree

(* The compiled program leaves the helpers as they are.                    *)
LEMMA RunningAgrees ==
  ASSUME NEW Types, HelpersAgree(Types), UNCHANGED lowering,
         pc \notin {"lower", "refused"},
         pc' \in {"ready", "run", "answered", "fault"}
  PROVE  HelpersAgree(Types)'
<1>1. UNCHANGED <<pending, registry, counter, code>>
  BY DEF lowering
<1>2. RegistryCounts' /\ CodeIs(Types)' /\ NoneIsLost'
  BY <1>1 DEF HelpersAgree, RegistryCounts, CodeIs, NoneIsLost, IsHelperOf
<1>3. PendingIs(Types)'
  BY <1>1 DEF HelpersAgree, PendingIs, IsHelperOf
<1>4. Stages'
  BY <1>1 DEF HelpersAgree, Stages
<1> QED  BY <1>2, <1>3, <1>4 DEF HelpersAgree

LEMMA AgreeInductive ==
  ASSUME NEW Types, Closed(Types, Asked), HelpersAgree(Types), [Next]_vars
  PROVE  HelpersAgree(Types)'
<1>1. CASE LowerScalar
  BY <1>1, ScalarAgrees
<1>2. CASE CallRegistered
  BY <1>2, RegisteredAgrees
<1>3. CASE BeginHelper
  BY <1>3, BegunAgrees
<1>4. CASE Refuse
  <2>1. UNCHANGED <<pending, registry, counter, code>> /\ pc' = "refused" /\ pc = "lower"
    BY <1>4 DEF Refuse, lowering, Lowers
  <2>2. RegistryCounts' /\ CodeIs(Types)' /\ NoneIsLost'
    BY <2>1 DEF HelpersAgree, RegistryCounts, CodeIs, NoneIsLost, IsHelperOf
  <2>3. PendingIs(Types)'
    BY <2>1 DEF HelpersAgree, PendingIs, IsHelperOf
  <2>4. Stages'
    BY <2>1 DEF HelpersAgree, Stages
  <2> QED  BY <2>2, <2>3, <2>4 DEF HelpersAgree
<1>5. CASE EmitHelper
  BY <1>5, EmittedAgrees
<1>6. ASSUME NEW i \in DOMAIN asked, NEW l, NEW r, Ask(i, l, r)
      PROVE  HelpersAgree(Types)'
  <2>1. pc = "ready" /\ pc' \in {"answered", "run"} /\ UNCHANGED lowering
    BY <1>6 DEF Ask
  <2> QED  BY <2>1, RunningAgrees
<1>7. CASE CompareScalars
  <2>1. pc = "run" /\ pc' \in {"run", "fault"} /\ UNCHANGED lowering
    BY <1>7 DEF CompareScalars, Walks, Loading
  <2> QED  BY <2>1, RunningAgrees
<1>8. CASE CallHelper
  <2>1. pc = "run" /\ pc' \in {"run", "fault"} /\ UNCHANGED lowering
    BY <1>8 DEF CallHelper, Walks, Loading
  <2> QED  BY <2>1, RunningAgrees
<1>9. CASE Return
  <2>1. pc = "run" /\ pc' \in {"run", "answered"} /\ UNCHANGED lowering
    BY <1>9 DEF Return
  <2> QED  BY <2>1, RunningAgrees
<1>10. CASE UNCHANGED vars
  <2>1. UNCHANGED <<pc, pending, registry, counter, code>>
    BY <1>10 DEF vars
  <2>2. RegistryCounts' /\ CodeIs(Types)' /\ NoneIsLost' /\ Stages'
    BY <2>1
       DEF HelpersAgree, RegistryCounts, CodeIs, NoneIsLost, Stages, IsHelperOf
  <2>3. PendingIs(Types)'
    BY <2>1 DEF HelpersAgree, PendingIs, IsHelperOf
  <2> QED  BY <2>2, <2>3 DEF HelpersAgree
<1> QED
  BY <1>1, <1>2, <1>3, <1>4, <1>5, <1>6, <1>7, <1>8, <1>9, <1>10
     DEF Next, Lowering, Running

(* Every type that is compared, or is inside one that is, has a helper of  *)
(* its own, although a helper is registered before and called from within  *)
(* its own body (equality.rs:69-93); in the end each helper that is called *)
(* is emitted and compares values of the type it is called for.            *)
THEOREM HelpersMatchTypes ==
  ASSUME NEW Types, Closed(Types, Asked)
  PROVE  Spec => []OneHelperPerType
<1>1. Init => HelpersAgree(Types)
  BY AgreeInitially
<1>2. HelpersAgree(Types) /\ [Next]_vars => HelpersAgree(Types)'
  BY AgreeInductive
<1>3. HelpersAgree(Types) => OneHelperPerType
  BY AgreeingIsEnough
<1> QED  BY <1>1, <1>2, <1>3, PTL DEF Spec

-----------------------------------------------------------------------------
(* The parts of an enum are the fields of its variants, one after another: *)
(* where FlattenSeq puts the fields of a variant.                          *)

LEMMA Least ==
  ASSUME NEW T \in SUBSET Nat, T # {}
  PROVE  \E m \in T : \A k \in T : m <= k
<1> DEFINE LessThan == {pair \in Nat \X Nat : pair[1] < pair[2]}
<1>1. IsWellFoundedOn(LessThan, Nat)
  BY NatLessThanWellFounded DEF OpToRel
<1> HIDE DEF LessThan
<1>2. PICK m \in T : \A k \in T : <<k, m>> \notin LessThan
  BY <1>1, WFMin
<1>3. ASSUME NEW k \in T PROVE m <= k
  <2>1. <<k, m>> \in Nat \X Nat
    OBVIOUS
  <2>2. ~ (k < m)
    BY <1>2, <2>1 DEF LessThan
  <2> QED  BY <2>2
<1> QED  BY <1>3

(* f[i] is the first i sequences, one after another.                       *)
IsConcat(f, seqs, i) == f[i] = IF i = 1 THEN seqs[1] ELSE f[i - 1] \o seqs[i]

LEMMA ConcatsExist ==
  ASSUME NEW S, NEW seqs \in Seq(Seq(S))
  PROVE  \E f \in [1 .. Len(seqs) -> Seq(S)] : \A i \in 1 .. Len(seqs) : IsConcat(f, seqs, i)
<1> DEFINE n == Len(seqs)
           Fns == [1 .. n -> Seq(S)]
           UpTo(f, k) == \A i \in 1 .. k : IsConcat(f, seqs, i)
           Bad == {k \in 0 .. n : ~ \E f \in Fns : UpTo(f, k)}
<1>1. n \in Nat /\ \A i \in 1 .. n : seqs[i] \in Seq(S)
  OBVIOUS
<1>2. 0 \notin Bad
  <2>1. seqs \in Fns /\ UpTo(seqs, 0)
    BY <1>1
  <2> QED  BY <2>1
<1>3. ASSUME NEW k \in 0 .. n, k + 1 \in 0 .. n, k \notin Bad
      PROVE  k + 1 \notin Bad
  <2>1. PICK f \in Fns : UpTo(f, k)
    BY <1>3
  <2> DEFINE v == IF k = 0 THEN seqs[1] ELSE f[k] \o seqs[k + 1]
             g == [f EXCEPT ![k + 1] = v]
  <2>2. v \in Seq(S)
    <3>1. CASE k = 0
      BY <1>1, <1>3, <3>1
    <3>2. CASE k # 0
      <4>1. k \in 1 .. n /\ k + 1 \in 1 .. n
        BY <1>1, <1>3, <3>2
      <4>2. f[k] \in Seq(S) /\ seqs[k + 1] \in Seq(S)
        BY <4>1, <1>1
      <4>3. f[k] \o seqs[k + 1] \in Seq(S)
        BY <4>2
      <4> QED  BY <3>2, <4>3
    <3> QED  BY <3>1, <3>2
  <2>3. g \in Fns
    BY <2>2
  <2>4. ASSUME NEW i \in 1 .. k + 1
        PROVE  IsConcat(g, seqs, i)
    <3>1. CASE i = k + 1
      <4>1. g[i] = v /\ (k # 0 => g[i - 1] = f[k]) /\ (k = 0 <=> i = 1)
        BY <3>1, <1>1, <1>3
      <4> QED  BY <4>1, <3>1 DEF IsConcat
    <3>2. CASE i # k + 1
      <4>1. i \in 1 .. k
        BY <3>2, <1>1
      <4>2. g[i] = f[i] /\ (i # 1 => g[i - 1] = f[i - 1])
        BY <4>1, <1>1, <1>3
      <4>3. IsConcat(f, seqs, i)
        BY <2>1, <4>1
      <4> HIDE DEF g
      <4> QED  BY <4>2, <4>3 DEF IsConcat
    <3> QED  BY <3>1, <3>2
  <2> HIDE DEF g
  <2> QED  BY <2>3, <2>4
<1>4. Bad = {}
  <2> SUFFICES ASSUME Bad # {} PROVE FALSE
    OBVIOUS
  <2>1. PICK m \in Bad : \A k \in Bad : m <= k
    <3>1. Bad \in SUBSET Nat
      BY <1>1
    <3> HIDE DEF Bad
    <3> QED  BY <3>1, Least
  <2>2. m \in 0 .. n /\ m # 0
    BY <1>2
  <2>3. m - 1 \in 0 .. n /\ (m - 1) + 1 = m
    BY <2>2, <1>1
  <2>4. m - 1 \notin Bad
    <3> HIDE DEF Bad
    <3> QED  BY <2>1, <2>2, <2>3
  <2> HIDE DEF Bad
  <2> QED  BY <1>3, <2>2, <2>3, <2>4
<1>5. n \notin Bad
  BY <1>4
<1> QED  BY <1>1, <1>5

LEMMA FlattenIs ==
  ASSUME NEW S, NEW seqs \in Seq(Seq(S)), Len(seqs) # 0,
         NEW f, f = [i \in 1 .. Len(seqs) |-> f[i]],
         \A i \in 1 .. Len(seqs) : IsConcat(f, seqs, i)
  PROVE  FlattenSeq(seqs) = f[Len(seqs)]
<1> DEFINE n == Len(seqs)
           Fixed(g) == g = [i \in 1 .. Len(seqs) |-> IF i = 1 THEN seqs[i] ELSE g[i - 1] \o seqs[i]]
<1>1. n \in Nat
  OBVIOUS
<1>2. Fixed(f)
  BY DEF IsConcat
<1>3. FlattenSeq(seqs) = (CHOOSE g : Fixed(g))[n]
  BY DEF FlattenSeq
<1>4. PICK h : h = CHOOSE g : Fixed(g)
  OBVIOUS
<1>5. Fixed(h)
  <2> HIDE DEF Fixed
  <2> QED  BY <1>2, <1>4
<1>6. \A i \in 1 .. n : IsConcat(h, seqs, i)
  BY <1>5 DEF IsConcat
<1> DEFINE Bad == {i \in 1 .. n : h[i] # f[i]}
<1>7. Bad = {}
  <2> SUFFICES ASSUME Bad # {} PROVE FALSE
    OBVIOUS
  <2>1. PICK m \in Bad : \A k \in Bad : m <= k
    <3>1. Bad \in SUBSET Nat
      BY <1>1
    <3> HIDE DEF Bad
    <3> QED  BY <3>1, Least
  <2>2. m \in 1 .. n /\ h[m] # f[m]
    OBVIOUS
  <2>3. m # 1
    BY <1>6, <2>2 DEF IsConcat
  <2>4. m - 1 \in 1 .. n /\ m - 1 < m
    BY <1>1, <2>2, <2>3
  <2>5. h[m - 1] = f[m - 1]
    <3>1. m - 1 \notin Bad
      <4> HIDE DEF Bad
      <4> QED  BY <2>1, <2>4, <2>2
    <3> QED  BY <3>1, <2>4
  <2> QED  BY <1>6, <2>2, <2>3, <2>5 DEF IsConcat
<1>8. h[n] = f[n]
  <2>1. n \in 1 .. n
    BY <1>1
  <2> QED  BY <1>7, <2>1
<1> HIDE DEF Fixed
<1> QED  BY <1>3, <1>4, <1>8

(* Field j of variant v comes j-th behind the fields of the variants       *)
(* before.                                                                 *)
LEMMA FlattenAt ==
  ASSUME NEW S, NEW seqs \in Seq(Seq(S)), NEW v \in 1 .. Len(seqs), NEW j \in 1 .. Len(seqs[v])
  PROVE  LET at == Len(FlattenSeq(SubSeq(seqs, 1, v - 1))) + j
         IN  at \in 1 .. Len(FlattenSeq(seqs)) /\ FlattenSeq(seqs)[at] = seqs[v][j]
<1> DEFINE n == Len(seqs)
<1>1. n \in Nat /\ n # 0 /\ \A i \in 1 .. n : seqs[i] \in Seq(S)
  OBVIOUS
<1>2. PICK f \in [1 .. n -> Seq(S)] : \A i \in 1 .. n : IsConcat(f, seqs, i)
  BY ConcatsExist
<1>types. \A k \in 1 .. n : f[k] \in Seq(S) /\ Len(f[k]) \in Nat
  <2>1. \A k \in 1 .. n : f[k] \in Seq(S)
    OBVIOUS
  <2> HIDE DEF n
  <2> QED  BY <2>1
<1>3. ASSUME NEW k \in 1 .. n
      PROVE  FlattenSeq(SubSeq(seqs, 1, k)) = f[k]
  <2> DEFINE ss == SubSeq(seqs, 1, k)
             g == [i \in 1 .. k |-> f[i]]
  <2>1. ss \in Seq(Seq(S)) /\ Len(ss) = k /\ \A i \in 1 .. k : ss[i] = seqs[i]
    BY <1>1, SubSeqProperties
  <2>2. \A i \in 1 .. k : IsConcat(g, ss, i)
    <3> SUFFICES ASSUME NEW i \in 1 .. k PROVE IsConcat(g, ss, i)
      OBVIOUS
    <3>1. i \in 1 .. n /\ g[i] = f[i] /\ (i # 1 => g[i - 1] = f[i - 1])
      BY <1>1
    <3>2. ss[i] = seqs[i] /\ ss[1] = seqs[1]
      BY <2>1
    <3>3. IsConcat(f, seqs, i)
      BY <1>2, <3>1
    <3> HIDE DEF g, ss
    <3> QED  BY <3>1, <3>2, <3>3 DEF IsConcat
  <2>3. g = [i \in 1 .. Len(ss) |-> g[i]] /\ Len(ss) # 0
    BY <2>1
  <2>4. g[k] = f[k]
    OBVIOUS
  <2> HIDE DEF g, ss
  <2>5. FlattenSeq(ss) = g[Len(ss)]
    BY <2>1, <2>2, <2>3, FlattenIs
  <2> QED  BY <2>1, <2>4, <2>5 DEF ss
<1>4. FlattenSeq(seqs) = f[n]
  <2>1. f = [i \in 1 .. n |-> f[i]]
    OBVIOUS
  <2> QED  BY <1>1, <1>2, <2>1, FlattenIs
<1>5. PICK before \in Seq(S) : /\ before = FlattenSeq(SubSeq(seqs, 1, v - 1))
                               /\ f[v] = before \o seqs[v]
  <2>1. CASE v = 1
    <3>1. SubSeq(seqs, 1, v - 1) = <<>>
      BY <2>1
    <3>2. FlattenSeq(SubSeq(seqs, 1, v - 1)) = <<>>
      BY <3>1 DEF FlattenSeq
    <3>3. f[v] = seqs[1] /\ seqs[1] \in Seq(S)
      BY <1>1, <1>2, <2>1 DEF IsConcat
    <3>4. f[v] = <<>> \o seqs[v] /\ <<>> \in Seq(S)
      BY <2>1, <3>3
    <3> WITNESS <<>> \in Seq(S)
    <3> QED  BY <3>2, <3>4
  <2>2. CASE v # 1
    <3>1. v - 1 \in 1 .. n
      BY <1>1, <2>2
    <3> QED  BY <1>2, <1>3, <2>2, <3>1 DEF IsConcat
  <2> QED  BY <2>1, <2>2
<1> DEFINE Grows(k) == /\ Len(f[v]) <= Len(f[k])
                       /\ \A i \in 1 .. Len(f[v]) : f[k][i] = f[v][i]
           Bad == {k \in v .. n : ~ Grows(k)}
<1>6. Bad = {}
  <2> SUFFICES ASSUME Bad # {} PROVE FALSE
    OBVIOUS
  <2>1. PICK m \in Bad : \A k \in Bad : m <= k
    <3>1. Bad \in SUBSET Nat
      BY <1>1
    <3> HIDE DEF Bad
    <3> QED  BY <3>1, Least
  <2>2. m \in v .. n /\ ~ Grows(m)
    OBVIOUS
  <2>3. m # v
    <3>1. Len(f[v]) \in Nat
      BY <1>2
    <3> QED  BY <2>2, <3>1
  <2>4. m - 1 \in v .. n /\ m - 1 < m /\ m - 1 \in 1 .. n /\ m \in 1 .. n /\ m # 1
    BY <1>1, <2>2, <2>3
  <2>5. Grows(m - 1)
    <3>1. m - 1 \notin Bad
      <4> HIDE DEF Bad
      <4> QED  BY <2>1, <2>4, <2>2
    <3> HIDE DEF Grows
    <3> QED  BY <3>1, <2>4
  <2>6. f[m] = f[m - 1] \o seqs[m]
    BY <1>2, <2>4 DEF IsConcat
  <2>7. PICK a, b \in Seq(S) : a = f[m - 1] /\ b = seqs[m]
    BY <1>1, <1>types, <2>4
  <2>8. /\ Len(a \o b) = Len(a) + Len(b) /\ Len(a) \in Nat /\ Len(b) \in Nat
        /\ \A i \in 1 .. Len(a) : (a \o b)[i] = a[i]
    <3>1. Len(a) \in Nat /\ Len(b) \in Nat
      <4>1. Len(f[m - 1]) \in Nat /\ Len(f[m]) \in Nat
        BY <1>types, <2>4
      <4> HIDE DEF Bad, Grows
      <4>2. Len(b) \in Nat
        BY <2>7, SMTT(30)
      <4> QED  BY <2>7, <4>1, <4>2
    <3>2. /\ Len(a \o b) = Len(a) + Len(b)
          /\ \A i \in 1 .. Len(a) + Len(b) : (a \o b)[i] =
               IF i <= Len(a) THEN a[i] ELSE b[i - Len(a)]
      BY ConcatProperties, Zenon
    <3>3. ASSUME NEW i \in 1 .. Len(a) PROVE (a \o b)[i] = a[i]
      <4>1. i \in 1 .. Len(a) + Len(b) /\ i <= Len(a)
        BY <3>1
      <4> QED  BY <3>2, <4>1, Zenon
    <3>4. Len(a \o b) = Len(a) + Len(b)
      BY <3>2
    <3> QED  BY <3>1, <3>3, <3>4
  <2>9. Len(f[v]) \in Nat
    BY <1>types
  <2>10. Grows(m)
    <3>1. /\ Len(f[v]) <= Len(a)
          /\ \A i \in 1 .. Len(f[v]) : a[i] = f[v][i]
      BY <2>5, <2>7
    <3>2. f[m] = a \o b
      BY <2>6, <2>7
    <3> QED  BY <2>8, <2>9, <3>1, <3>2
  <2> QED  BY <2>2, <2>10
<1>7. Grows(n)
  <2>1. n \in v .. n
    BY <1>1
  <2> HIDE DEF Grows
  <2> QED  BY <1>6, <2>1
<1>8. /\ Len(before) \in Nat /\ Len(seqs[v]) \in Nat
      /\ Len(f[v]) = Len(before) + Len(seqs[v])
      /\ f[v][Len(before) + j] = seqs[v][j]
  BY <1>1, <1>5
<1>9. Len(before) + j \in 1 .. Len(f[v]) /\ Len(f[n]) \in Nat
  <2>1. n \in 1 .. n
    BY <1>1
  <2> QED  BY <1>types, <1>8, <2>1
<1>10. PICK at : at = Len(before) + j
  OBVIOUS
<1>11. at \in 1 .. Len(f[n]) /\ f[n][at] = f[v][at]
  <2>1. at \in 1 .. Len(f[v]) /\ Len(f[v]) \in Nat
    BY <1>9, <1>10, <1>types
  <2> QED  BY <1>7, <1>9, <2>1
<1> HIDE DEF n
<1> QED  BY <1>4, <1>5, <1>8, <1>10, <1>11

-----------------------------------------------------------------------------
(* What a helper compares: all the parts of its type, in order.            *)

Concretes(Types) == {Concrete(u) : u \in Types}

(* A part of type u is compared inline, or by a helper, as r says.         *)
ComparedAs(u, r) ==
  /\ r.t = Concrete(u)
  /\ \/ IsScalar(r.t) /\ r.helper = Inline
     \/ IsAggregate(r.t) /\ r.helper # Inline

Whole(t, helper) == IF helper = Inline THEN asked ELSE Parts(t)

OfAggregate(Types, t, helper) ==
  helper # Inline => t \in Concretes(Types) /\ IsAggregate(t)

(* The parts are compared up to those that are left.                       *)
Halfway(whole, refs, todo) ==
  /\ Len(whole) = Len(refs) + Len(todo)
  /\ \A k \in 1 .. Len(refs) : ComparedAs(whole[k], refs[k])
  /\ \A k \in 1 .. Len(todo) : todo[k] = whole[Len(refs) + k]

PendingCompares(Types) ==
  \A i \in 1 .. Len(pending) :
    /\ OfAggregate(Types, pending[i].t, pending[i].helper)
    /\ Halfway(Whole(pending[i].t, pending[i].helper), pending[i].refs, pending[i].todo)

CodeCompares(Types) ==
  \A h \in DOMAIN code :
    /\ OfAggregate(Types, code[h].t, h)
    /\ Halfway(Whole(code[h].t, h), code[h].refs, <<>>)

ProgramIsLowered ==
  Inline \in DOMAIN code \/ \E i \in 1 .. Len(pending) : pending[i].helper = Inline

PartsAgree(Types) ==
  /\ asked \in Seq(Types)
  /\ PendingCompares(Types)
  /\ CodeCompares(Types)
  /\ ProgramIsLowered

LEMMA PartsInitially ==
  ASSUME NEW Types, Closed(Types, Asked), Init
  PROVE  PartsAgree(Types)
<1>1. asked \in Seq(Types)
  BY DEF Init, Closed
<1>2. PICK b : b = Begin(asked, Inline, asked)
  OBVIOUS
<1>3. b.helper = 0 /\ b.refs = <<>> /\ b.todo = asked
  BY <1>2 DEF Begin, Inline
<1>4. Len(pending) = 1 /\ pending[1] = b /\ DOMAIN code = {}
  BY <1>2 DEF Init
<1>5. Halfway(asked, <<>>, asked)
  BY <1>1 DEF Halfway
<1>6. PendingCompares(Types)
  <2>1. \A i \in 1 .. Len(pending) : i = 1
    BY <1>4
  <2> QED  BY <1>3, <1>4, <1>5, <2>1 DEF PendingCompares, OfAggregate, Whole, Inline
<1>7. CodeCompares(Types) /\ ProgramIsLowered
  BY <1>3, <1>4 DEF CodeCompares, ProgramIsLowered, Inline
<1> QED  BY <1>1, <1>6, <1>7 DEF PartsAgree

LEMMA HalfwayOn ==
  ASSUME NEW S, NEW T, NEW whole, NEW refs \in Seq(S), NEW todo \in Seq(T),
         Halfway(whole, refs, todo), todo # <<>>, NEW r \in S, ComparedAs(Head(todo), r)
  PROVE  Halfway(whole, Append(refs, r), Tail(todo))
<1>1. Len(refs) \in Nat /\ Len(todo) \in Nat /\ Len(todo) # 0
  OBVIOUS
<1>2. PICK n : n = Len(refs)
  OBVIOUS
<1>3. PICK more : more = Append(refs, r)
  OBVIOUS
<1>4. PICK rest : rest = Tail(todo)
  OBVIOUS
<1>5. /\ Len(more) = n + 1 /\ more[n + 1] = r
      /\ \A k \in 1 .. n : more[k] = refs[k]
  BY <1>1, <1>2, <1>3
<1>6. /\ Len(rest) = Len(todo) - 1
      /\ \A k \in 1 .. Len(rest) : rest[k] = todo[k + 1]
  BY <1>1, <1>4
<1>7. Len(whole) = Len(more) + Len(rest)
  BY <1>1, <1>2, <1>5, <1>6 DEF Halfway
<1>8. whole[n + 1] = Head(todo)
  <2>1. 1 \in 1 .. Len(todo) /\ Head(todo) = todo[1]
    BY <1>1
  <2> QED  BY <1>2, <2>1 DEF Halfway
<1>9. ASSUME NEW k \in 1 .. Len(more) PROVE ComparedAs(whole[k], more[k])
  <2>1. k = n + 1 \/ k \in 1 .. n
    BY <1>1, <1>2, <1>5
  <2>2. CASE k = n + 1
    BY <1>5, <1>8, <2>2
  <2>3. CASE k \in 1 .. n
    BY <1>2, <1>5, <2>3 DEF Halfway
  <2> QED  BY <2>1, <2>2, <2>3
<1>10. ASSUME NEW k \in 1 .. Len(rest) PROVE rest[k] = whole[Len(more) + k]
  <2>1. k + 1 \in 1 .. Len(todo)
    BY <1>1, <1>6
  <2>2. todo[k + 1] = whole[n + (k + 1)]
    BY <1>2, <2>1 DEF Halfway
  <2>3. n + (k + 1) = Len(more) + k
    BY <1>1, <1>2, <1>5
  <2> QED  BY <1>6, <2>2, <2>3
<1> QED  BY <1>3, <1>4, <1>7, <1>9, <1>10 DEF Halfway

(* The next part of the helper on top is compared as r says.               *)
LEMMA StackCompares ==
  ASSUME NEW Types, Closed(Types, Asked), HelpersAgree(Types), PartsAgree(Types), Lowers,
         NEW r \in Refs(Types), ComparedAs(Head(Top.todo), r)
  PROVE  LET next == Compared(pending, r)
         IN  /\ next \in Seq(Begun(Types)) /\ Len(next) = Len(pending)
             /\ \A i \in 1 .. Len(pending) :
                  /\ next[i].helper = pending[i].helper
                  /\ OfAggregate(Types, next[i].t, next[i].helper)
                  /\ Halfway(Whole(next[i].t, next[i].helper), next[i].refs, next[i].todo)
<1>1. /\ pending \in Seq(Begun(Types)) /\ pending # <<>>
      /\ Len(pending) \in 1 .. Len(pending)
      /\ pending[Len(pending)].todo # <<>>
  BY NextTypeIs
<1>2. PICK next : next = Compared(pending, r)
  OBVIOUS
<1>3. PICK n : n = Len(pending)
  OBVIOUS
<1>4. /\ next \in Seq(Begun(Types)) /\ Len(next) = n
      /\ \A i \in 1 .. n : next[i].t = pending[i].t /\ next[i].helper = pending[i].helper
      /\ \A i \in 1 .. n : i # n => next[i] = pending[i]
      /\ next[n].refs = Append(pending[n].refs, r)
      /\ next[n].todo = Tail(pending[n].todo)
  BY <1>1, <1>2, <1>3, ComparedIs
<1>5. \A i \in 1 .. n :
        /\ OfAggregate(Types, pending[i].t, pending[i].helper)
        /\ Halfway(Whole(pending[i].t, pending[i].helper), pending[i].refs, pending[i].todo)
  BY <1>3 DEF PartsAgree, PendingCompares
<1>6. n \in 1 .. n /\ Top = pending[n]
  BY <1>1, <1>3 DEF Top
<1>7. PICK top : top = pending[n]
  OBVIOUS
<1>8. top.refs \in Seq(Refs(Types)) /\ top.todo \in Seq(Types) /\ top.todo # <<>>
  <2>1. pending[n] \in Begun(Types)
    BY <1>1, <1>3, <1>6
  <2> QED  BY <1>1, <1>3, <1>7, <2>1 DEF Begun
<1>9. Halfway(Whole(top.t, top.helper), Append(top.refs, r), Tail(top.todo))
  <2>1. Halfway(Whole(top.t, top.helper), top.refs, top.todo)
    BY <1>5, <1>6, <1>7
  <2>2. ComparedAs(Head(top.todo), r)
    BY <1>6, <1>7
  <2> QED  BY <1>8, <2>1, <2>2, HalfwayOn
<1>10. ASSUME NEW i \in 1 .. n
       PROVE  /\ OfAggregate(Types, next[i].t, next[i].helper)
              /\ Halfway(Whole(next[i].t, next[i].helper), next[i].refs, next[i].todo)
  <2>1. CASE i # n
    BY <1>4, <1>5, <2>1
  <2>2. CASE i = n
    <3>1. next[n].t = top.t /\ next[n].helper = top.helper
      BY <1>4, <1>6, <1>7
    <3>2. OfAggregate(Types, top.t, top.helper)
      BY <1>5, <1>6, <1>7
    <3> QED  BY <1>4, <1>7, <1>9, <2>2, <3>1, <3>2
  <2> QED  BY <2>1, <2>2
<1> QED  BY <1>2, <1>3, <1>4, <1>10

LEMMA ComparedKeeps ==
  ASSUME NEW Types, Closed(Types, Asked), HelpersAgree(Types), PartsAgree(Types), Lowers,
         NEW r \in Refs(Types), ComparedAs(Head(Top.todo), r),
         pending' = Compared(pending, r), UNCHANGED <<asked, code>>
  PROVE  PartsAgree(Types)'
<1>1. PICK next : next = pending'
  OBVIOUS
<1>2. PICK n : n = Len(pending)
  OBVIOUS
<1>3. /\ Len(next) = n
      /\ \A i \in 1 .. n :
           /\ next[i].helper = pending[i].helper
           /\ OfAggregate(Types, next[i].t, next[i].helper)
           /\ Halfway(Whole(next[i].t, next[i].helper), next[i].refs, next[i].todo)
  BY <1>1, <1>2, StackCompares
<1>5. PendingCompares(Types)'
  BY <1>1, <1>3 DEF PendingCompares, Whole
<1>6. CodeCompares(Types)'
  BY DEF PartsAgree, CodeCompares, Whole
<1>7. ProgramIsLowered'
  BY <1>1, <1>2, <1>3 DEF PartsAgree, ProgramIsLowered
<1> QED  BY <1>5, <1>6, <1>7 DEF PartsAgree

LEMMA BegunKeeps ==
  ASSUME NEW Types, Closed(Types, Asked), HelpersAgree(Types), PartsAgree(Types), BeginHelper
  PROVE  PartsAgree(Types)'
<1>1. PICK t : t = NextType
  OBVIOUS
<1>2. PICK c : c = counter + 1
  OBVIOUS
<1>3. /\ Lowers /\ IsAggregate(t)
      /\ pending' = Append(Compared(pending, Ref(t, c)), Begin(t, c, Parts(t)))
      /\ code' = code /\ asked' = asked
  BY <1>1, <1>2 DEF BeginHelper
<1>4. /\ t \in Types /\ Parts(t) \in Seq(Types) /\ t = Concrete(Head(Top.todo))
      /\ Head(Top.todo) \in Types
      /\ pending \in Seq(Begun(Types)) /\ Len(pending) \in 1 .. Len(pending)
  <2>1. Top.todo # <<>> /\ Top \in Begun(Types)
    BY <1>3, NextTypeIs DEF Top, Lowers
  <2>2. Head(Top.todo) \in Types
    BY <2>1 DEF Begun
  <2> QED  BY <1>1, <1>3, <2>2, NextTypeIs DEF NextType
<1>5. c \in Nat /\ c # Inline
  BY <1>2 DEF HelpersAgree, RegistryCounts, Inline
<1>6. PICK r : r = Ref(t, c)
  OBVIOUS
<1>7. r \in Refs(Types) /\ ComparedAs(Head(Top.todo), r)
  BY <1>3, <1>4, <1>5, <1>6 DEF Ref, Refs, ComparedAs
<1>8. PICK b : b = Begin(t, c, Parts(t))
  OBVIOUS
<1>9. b \in Begun(Types) /\ b.t = t /\ b.helper = c /\ b.refs = <<>> /\ b.todo = Parts(t)
  BY <1>4, <1>5, <1>8 DEF Begin, Begun
<1>10. PICK next : next = Compared(pending, r)
  OBVIOUS
<1>11. PICK n : n = Len(pending)
  OBVIOUS
<1>12. /\ next \in Seq(Begun(Types)) /\ Len(next) = n /\ n \in Nat
       /\ \A i \in 1 .. n :
            /\ next[i].helper = pending[i].helper
            /\ OfAggregate(Types, next[i].t, next[i].helper)
            /\ Halfway(Whole(next[i].t, next[i].helper), next[i].refs, next[i].todo)
  BY <1>3, <1>4, <1>7, <1>10, <1>11, StackCompares
<1>13. PICK last : last = pending'
  OBVIOUS
<1>14. /\ Len(last) = n + 1 /\ last[n + 1] = b
       /\ \A i \in 1 .. n : last[i] = next[i]
       /\ \A i \in 1 .. n + 1 : i = n + 1 \/ i \in 1 .. n
       /\ \A i \in 1 .. n : i \in 1 .. n + 1
  <2>1. last = Append(next, b)
    BY <1>3, <1>6, <1>8, <1>10, <1>13
  <2> QED  BY <1>9, <1>12, <2>1
<1>15. OfAggregate(Types, b.t, b.helper) /\ Halfway(Whole(b.t, b.helper), b.refs, b.todo)
  <2>1. t \in Concretes(Types)
    BY <1>4 DEF Concretes
  <2>2. Halfway(Parts(t), <<>>, Parts(t))
    BY <1>4 DEF Halfway
  <2> QED  BY <1>3, <1>5, <1>9, <2>1, <2>2 DEF OfAggregate, Whole
<1>16. \A i \in 1 .. n + 1 :
         /\ OfAggregate(Types, last[i].t, last[i].helper)
         /\ Halfway(Whole(last[i].t, last[i].helper), last[i].refs, last[i].todo)
  BY <1>12, <1>14, <1>15
<1>17. PendingCompares(Types)'
  BY <1>3, <1>13, <1>14, <1>16 DEF PendingCompares, Whole
<1>18. CodeCompares(Types)'
  BY <1>3 DEF PartsAgree, CodeCompares, Whole
<1>19. ProgramIsLowered'
  <2>1. Inline \in DOMAIN code \/ \E i \in 1 .. n : pending[i].helper = Inline
    BY <1>11 DEF PartsAgree, ProgramIsLowered
  <2>2. \A i \in 1 .. n : last[i].helper = pending[i].helper /\ i \in 1 .. n + 1
    BY <1>12, <1>14
  <2> QED  BY <1>3, <1>13, <1>14, <2>1, <2>2 DEF ProgramIsLowered
<1> QED  BY <1>3, <1>17, <1>18, <1>19 DEF PartsAgree

LEMMA EmittedKeeps ==
  ASSUME NEW Types, HelpersAgree(Types), PartsAgree(Types), EmitHelper
  PROVE  PartsAgree(Types)'
<1>1. PICK n : n = Len(pending)
  OBVIOUS
<1>2. PICK top : top = pending[n]
  OBVIOUS
<1>3. /\ pending \in Seq(Begun(Types)) /\ n \in Nat /\ n \in 1 .. n
      /\ \A i \in 1 .. n - 1 : i \in 1 .. n /\ i # n
      /\ \A i \in 1 .. n : i = n \/ i \in 1 .. n - 1
      /\ top \in Begun(Types)
  BY <1>1, <1>2 DEF HelpersAgree, PendingIs, Stages, EmitHelper
<1>4. /\ code' = [h \in DOMAIN code \cup {top.helper} |->
                    IF h = top.helper THEN [t |-> top.t, refs |-> top.refs] ELSE code[h]]
      /\ pending' = Front(pending) /\ top.todo = <<>> /\ asked' = asked
  BY <1>1, <1>2 DEF EmitHelper, Emitted, Top
<1>5. PICK rest : rest = pending'
  OBVIOUS
<1>6. Len(rest) = n - 1 /\ \A i \in 1 .. n - 1 : rest[i] = pending[i]
  <2>1. \A i \in 1 .. n - 1 : pending[i] \in Begun(Types)
    BY <1>1, <1>3
  <2>2. pending' = SubSeq(pending, 1, n - 1)
    BY <1>1, <1>4 DEF Front
  <2> QED  BY <1>3, <1>5, <2>1, <2>2, SubSeqProperties
<1>7. PICK emitted : emitted = code'
  OBVIOUS
<1>8. /\ DOMAIN emitted = DOMAIN code \cup {top.helper}
      /\ emitted[top.helper].t = top.t /\ emitted[top.helper].refs = top.refs
      /\ \A h \in DOMAIN code : h # top.helper => emitted[h] = code[h]
  BY <1>4, <1>7
<1>9. \A i \in 1 .. n :
        /\ OfAggregate(Types, pending[i].t, pending[i].helper)
        /\ Halfway(Whole(pending[i].t, pending[i].helper), pending[i].refs, pending[i].todo)
  BY <1>1 DEF PartsAgree, PendingCompares
<1>10. \A h \in DOMAIN emitted :
         /\ OfAggregate(Types, emitted[h].t, h)
         /\ Halfway(Whole(emitted[h].t, h), emitted[h].refs, <<>>)
  <2>1. OfAggregate(Types, top.t, top.helper) /\ Halfway(Whole(top.t, top.helper), top.refs, <<>>)
    BY <1>2, <1>3, <1>4, <1>9
  <2>2. \A h \in DOMAIN code :
          /\ OfAggregate(Types, code[h].t, h)
          /\ Halfway(Whole(code[h].t, h), code[h].refs, <<>>)
    BY DEF PartsAgree, CodeCompares
  <2> QED  BY <1>8, <2>1, <2>2
<1>11. PendingCompares(Types)'
  <2>1. \A i \in 1 .. n - 1 :
          /\ OfAggregate(Types, rest[i].t, rest[i].helper)
          /\ Halfway(Whole(rest[i].t, rest[i].helper), rest[i].refs, rest[i].todo)
    BY <1>3, <1>6, <1>9
  <2> QED  BY <1>4, <1>5, <1>6, <2>1 DEF PendingCompares, Whole
<1>12. CodeCompares(Types)'
  BY <1>4, <1>7, <1>10 DEF CodeCompares, Whole
<1>13. ProgramIsLowered'
  <2>1. Inline \in DOMAIN code \/ \E i \in 1 .. n : pending[i].helper = Inline
    BY <1>1 DEF PartsAgree, ProgramIsLowered
  <2>2. CASE Inline \in DOMAIN code
    BY <1>7, <1>8, <2>2 DEF ProgramIsLowered
  <2>3. ASSUME NEW i \in 1 .. n, pending[i].helper = Inline PROVE ProgramIsLowered'
    <3>1. CASE i = n
      BY <1>2, <1>7, <1>8, <2>3, <3>1 DEF ProgramIsLowered
    <3>2. CASE i \in 1 .. n - 1
      BY <1>5, <1>6, <2>3, <3>2 DEF ProgramIsLowered
    <3> QED  BY <1>3, <3>1, <3>2
  <2> QED  BY <2>1, <2>2, <2>3
<1> QED  BY <1>4, <1>11, <1>12, <1>13 DEF PartsAgree

LEMMA PartsInductive ==
  ASSUME NEW Types, Closed(Types, Asked), HelpersAgree(Types), PartsAgree(Types), [Next]_vars
  PROVE  PartsAgree(Types)'
<1>1. CASE LowerScalar
  <2>1. PICK r : r = Ref(NextType, Inline)
    OBVIOUS
  <2>2. /\ Lowers /\ pending' = Compared(pending, r) /\ UNCHANGED <<asked, code>>
        /\ IsScalar(NextType)
    BY <1>1, <2>1 DEF LowerScalar
  <2>3. NextType \in Types
    BY <2>2, NextTypeIs
  <2>4. r \in Refs(Types) /\ ComparedAs(Head(Top.todo), r)
    BY <2>1, <2>2, <2>3 DEF Ref, Refs, Inline, ComparedAs, NextType
  <2> QED  BY <2>2, <2>4, ComparedKeeps
<1>2. CASE CallRegistered
  <2>1. PICK r : r = Ref(NextType, registry[NextType])
    OBVIOUS
  <2>2. /\ Lowers /\ pending' = Compared(pending, r) /\ UNCHANGED <<asked, code>>
        /\ IsAggregate(NextType) /\ NextType \in DOMAIN registry
    BY <1>2, <2>1 DEF CallRegistered
  <2>3. NextType \in Types
    BY <2>2, NextTypeIs
  <2>4. registry[NextType] \in Nat /\ registry[NextType] # Inline
    BY <2>2 DEF HelpersAgree, RegistryCounts, Inline
  <2>5. r \in Refs(Types) /\ ComparedAs(Head(Top.todo), r)
    BY <2>1, <2>2, <2>3, <2>4 DEF Ref, Refs, ComparedAs, NextType
  <2> QED  BY <2>2, <2>5, ComparedKeeps
<1>3. CASE BeginHelper
  BY <1>3, BegunKeeps
<1>4. CASE EmitHelper
  BY <1>4, EmittedKeeps
<1>5. CASE UNCHANGED lowering
  BY <1>5 DEF lowering, PartsAgree, PendingCompares, CodeCompares, ProgramIsLowered, Whole
<1>6. [Next]_vars => \/ LowerScalar \/ CallRegistered \/ BeginHelper \/ EmitHelper
                     \/ UNCHANGED lowering
  BY DEF Next, Lowering, Running, Refuse, Ask, CompareScalars, CallHelper, Return,
         Loading, vars, lowering
<1> QED  BY <1>1, <1>2, <1>3, <1>4, <1>5, <1>6

-----------------------------------------------------------------------------
(* What a call of a helper has yet to find out.                            *)

IsFrame(Values, f) ==
  /\ f = [helper |-> f.helper, l |-> f.l, r |-> f.r, at |-> f.at, acc |-> f.acc]
  /\ f.helper \in DOMAIN code /\ f.helper # Inline
  /\ f.l \in Values[TypeOf(f)] /\ f.r \in Values[TypeOf(f)]
  /\ f.at \in Nat /\ f.at # 0
  /\ f.acc \in BOOLEAN
  /\ Kind(TypeOf(f)) = "List" => f.at = 1

EqualFrom(t, l, r, at) ==
  \A k \in DOMAIN Inside(t, l) :
    k >= at => StructurallyEqual(Concrete(Inside(t, l)[k]), l.c[k], r.c[k])

Meaning(f) ==
  /\ f.acc
  /\ IF Kind(TypeOf(f)) = "List"
     THEN StructurallyEqual(TypeOf(f), f.l, f.r)
     ELSE f.l.n = f.r.n /\ EqualFrom(TypeOf(f), f.l, f.r, f.at)

Lowered(Types) ==
  HelpersAgree(Types) /\ PartsAgree(Types) /\ pc \notin {"lower", "refused"}

LEMMA RefIs ==
  ASSUME NEW Types, Lowered(Types), NEW h \in DOMAIN code,
         NEW k \in 1 .. Len(Whole(code[h].t, h))
  PROVE  LET ref == code[h].refs[k]
         IN  /\ ComparedAs(Whole(code[h].t, h)[k], ref)
             /\ ref.helper # Inline => ref.helper \in DOMAIN code /\ code[ref.helper].t = ref.t
<1>1. Halfway(Whole(code[h].t, h), code[h].refs, <<>>) /\ code[h].refs \in Seq(Refs(Types))
  BY DEF Lowered, PartsAgree, CodeCompares, HelpersAgree, CodeIs
<1>2. k \in 1 .. Len(code[h].refs) /\ k \in DOMAIN code[h].refs
  BY <1>1 DEF Halfway
<1>3. ComparedAs(Whole(code[h].t, h)[k], code[h].refs[k])
  BY <1>1, <1>2 DEF Halfway
<1>4. OneHelperPerType
  BY AgreeingIsEnough DEF Lowered
<1> QED  BY <1>2, <1>3, <1>4 DEF OneHelperPerType, Lowered

LEMMA HelperTypes ==
  ASSUME NEW Types, Lowered(Types), NEW h \in DOMAIN code, h # Inline
  PROVE  code[h].t \in Concretes(Types) /\ IsAggregate(code[h].t)
BY DEF Lowered, PartsAgree, CodeCompares, OfAggregate

LEMMA InlineIsLowered ==
  ASSUME NEW Types, Lowered(Types)
  PROVE  Inline \in DOMAIN code
<1>1. Len(pending) = 0
  BY DEF Lowered, HelpersAgree, Stages
<1> QED  BY <1>1 DEF Lowered, PartsAgree, ProgramIsLowered

LEMMA InsideIs ==
  ASSUME NEW Types, Closed(Types, Asked), NEW Values, Valued(Types, Values),
         NEW t \in Concretes(Types), IsAggregate(t), NEW v \in Values[t]
  PROVE  Inside(t, v) \in Seq(Types)
<1>1. t \in Types /\ Parts(t) \in Seq(Types)
  <2>1. PICK u \in Types : t = Concrete(u)
    BY DEF Concretes
  <2> QED  BY <2>1 DEF Closed
<1>2. CASE Kind(t) = "List"
  <2>1. Len(Parts(t)) = 1
    BY <1>2 DEF Valued, Concretes
  <2>2. Parts(t)[1] \in Types
    <3>1. 1 \in 1 .. Len(Parts(t))
      BY <2>1
    <3> QED  BY <1>1, <3>1
  <2>3. <<Parts(t)[1], t>> \in Seq(Types) /\ <<>> \in Seq(Types)
    BY <1>1, <2>2
  <2>4. Inside(t, v) = IF IsNull(v) THEN <<>> ELSE <<Parts(t)[1], t>>
    BY <1>2 DEF Inside
  <2> QED  BY <2>3, <2>4
<1>3. CASE Kind(t) = "Enum"
  <2>1. VariantFields(t) \in Seq(Seq(Types)) /\ v.n \in DOMAIN VariantFields(t)
    BY <1>3 DEF Valued, Concretes, IsTerm
  <2>2. Inside(t, v) = VariantFields(t)[v.n]
    BY <1>3 DEF Inside
  <2> QED  BY <2>1, <2>2
<1>4. CASE Kind(t) \in {"Rec", "Tuple"}
  <2>1. Inside(t, v) = Parts(t)
    BY <1>4 DEF Inside
  <2> QED  BY <1>1, <2>1
<1> QED  BY <1>2, <1>3, <1>4 DEF IsAggregate

ShapedAs(Values, t, v) ==
  /\ v = [k |-> v.k, n |-> v.n, c |-> v.c]
  /\ v.c = [i \in DOMAIN Inside(t, v) |-> v.c[i]]
  /\ DOMAIN v.c = DOMAIN Inside(t, v)
  /\ \A i \in DOMAIN v.c : v.c[i] \in Values[Concrete(Inside(t, v)[i])]
  /\ HasNaN(t, v) <=> \E i \in DOMAIN v.c : HasNaN(Concrete(Inside(t, v)[i]), v.c[i])
  /\ Kind(t) = "List" => v.k \in {"nil", "cell"} /\ v.n = 0
  /\ Kind(t) = "Enum" => v.k = "enum" /\ v.n \in DOMAIN VariantFields(t)
  /\ Kind(t) \in {"Rec", "Tuple"} => v.k = "struct" /\ v.n = 0

LEMMA ValueIs ==
  ASSUME NEW Types, NEW Values, Valued(Types, Values),
         NEW t \in Concretes(Types), IsAggregate(t), NEW v \in Values[t]
  PROVE  ShapedAs(Values, t, v)
<1>1. /\ IsTerm(t, v)
      /\ v.c = [i \in DOMAIN Inside(t, v) |-> v.c[i]]
      /\ \A i \in DOMAIN v.c : v.c[i] \in Values[Concrete(Inside(t, v)[i])]
      /\ HasNaN(t, v) <=> \E i \in DOMAIN v.c : HasNaN(Concrete(Inside(t, v)[i]), v.c[i])
  BY DEF Valued, Concretes
<1>2. DOMAIN v.c = DOMAIN Inside(t, v)
  BY <1>1
<1> QED  BY <1>1, <1>2 DEF IsTerm, ShapedAs

(* Two values are equal when they are of the same form and their parts are *)
(* equal, one by one.                                                      *)
LEMMA EqualByParts ==
  ASSUME NEW Types, Closed(Types, Asked), NEW Values, Valued(Types, Values),
         NEW t \in Concretes(Types), IsAggregate(t), NEW l \in Values[t], NEW r \in Values[t]
  PROVE  StructurallyEqual(t, l, r) <=>
           /\ l.k = r.k /\ l.n = r.n /\ DOMAIN l.c = DOMAIN r.c
           /\ EqualFrom(t, l, r, 1)
<1>shaped. ShapedAs(Values, t, l) /\ ShapedAs(Values, t, r)
  BY ValueIs
<1>1. /\ l = [k |-> l.k, n |-> l.n, c |-> l.c] /\ r = [k |-> r.k, n |-> r.n, c |-> r.c]
      /\ l.c = [i \in DOMAIN Inside(t, l) |-> l.c[i]]
      /\ r.c = [i \in DOMAIN Inside(t, r) |-> r.c[i]]
      /\ HasNaN(t, l) <=> \E i \in DOMAIN l.c : HasNaN(Concrete(Inside(t, l)[i]), l.c[i])
  BY <1>shaped DEF ShapedAs
<1>2. DOMAIN l.c = DOMAIN Inside(t, l) /\ DOMAIN r.c = DOMAIN Inside(t, r)
  BY <1>shaped DEF ShapedAs
<1>3. \A k \in DOMAIN Inside(t, l) : k >= 1
  <2>1. Inside(t, l) \in Seq(Types)
    BY InsideIs
  <2> QED  BY <2>1
<1>4. ASSUME StructurallyEqual(t, l, r)
      PROVE  /\ l.k = r.k /\ l.n = r.n /\ DOMAIN l.c = DOMAIN r.c
             /\ EqualFrom(t, l, r, 1)
  BY <1>1, <1>2, <1>4 DEF StructurallyEqual, EqualFrom
<1>5. ASSUME l.k = r.k, l.n = r.n, DOMAIN l.c = DOMAIN r.c, EqualFrom(t, l, r, 1)
      PROVE  StructurallyEqual(t, l, r)
  <2>1. \A k \in DOMAIN l.c :
          l.c[k] = r.c[k] /\ ~ HasNaN(Concrete(Inside(t, l)[k]), l.c[k])
    BY <1>2, <1>3, <1>5 DEF EqualFrom, StructurallyEqual
  <2>2. l.c = r.c
    BY <1>1, <1>2, <1>5, <2>1
  <2>3. l = r
    BY <1>1, <1>5, <2>2
  <2> QED  BY <1>1, <2>1, <2>3 DEF StructurallyEqual
<1> QED  BY <1>4, <1>5

(* Two cells are equal when their heads and their tails are.               *)
LEMMA CellsEqual ==
  ASSUME NEW Types, Closed(Types, Asked), NEW Values, Valued(Types, Values),
         NEW t \in Concretes(Types), Kind(t) = "List",
         NEW l \in Values[t], NEW r \in Values[t], ~ IsNull(l), ~ IsNull(r)
  PROVE  /\ DOMAIN l.c = 1 .. 2 /\ DOMAIN r.c = 1 .. 2
         /\ l.c[2] \in Values[t] /\ r.c[2] \in Values[t]
         /\ Inside(t, l)[1] = Parts(t)[1] /\ Inside(t, r)[1] = Parts(t)[1]
         /\ StructurallyEqual(t, l, r) <=>
              /\ StructurallyEqual(Concrete(Parts(t)[1]), l.c[1], r.c[1])
              /\ StructurallyEqual(t, l.c[2], r.c[2])
<1>1. /\ Inside(t, l) = <<Parts(t)[1], t>> /\ Inside(t, r) = <<Parts(t)[1], t>>
      /\ IsAggregate(t)
  BY DEF Inside, IsAggregate
<1>2. Concrete(t) = t
  BY DEF Closed, Concretes
<1>3. /\ DOMAIN Inside(t, l) = 1 .. 2 /\ DOMAIN Inside(t, r) = 1 .. 2
      /\ Inside(t, l)[1] = Parts(t)[1] /\ Inside(t, l)[2] = t
      /\ Inside(t, r)[1] = Parts(t)[1] /\ Inside(t, r)[2] = t
  BY <1>1
<1>4. /\ DOMAIN l.c = DOMAIN Inside(t, l) /\ DOMAIN r.c = DOMAIN Inside(t, r)
      /\ \A i \in DOMAIN l.c : l.c[i] \in Values[Concrete(Inside(t, l)[i])]
      /\ \A i \in DOMAIN r.c : r.c[i] \in Values[Concrete(Inside(t, r)[i])]
      /\ l.k \in {"nil", "cell"} /\ l.n = 0 /\ r.k \in {"nil", "cell"} /\ r.n = 0
  <2>1. ShapedAs(Values, t, l) /\ ShapedAs(Values, t, r)
    BY <1>1, ValueIs
  <2> QED  BY <2>1 DEF ShapedAs
<1>5. l.k = r.k /\ l.n = r.n
  BY <1>4 DEF IsNull
<1>6. EqualFrom(t, l, r, 1) <=>
        /\ StructurallyEqual(Concrete(Parts(t)[1]), l.c[1], r.c[1])
        /\ StructurallyEqual(t, l.c[2], r.c[2])
  <2>1. \A k \in 1 .. 2 : k >= 1 /\ (k = 1 \/ k = 2)
    OBVIOUS
  <2>2. 1 \in 1 .. 2 /\ 2 \in 1 .. 2
    OBVIOUS
  <2> QED  BY <1>2, <1>3, <2>1, <2>2 DEF EqualFrom
<1>7. StructurallyEqual(t, l, r) <=> EqualFrom(t, l, r, 1)
  BY <1>1, <1>3, <1>4, <1>5, EqualByParts
<1>8. l.c[2] \in Values[t] /\ r.c[2] \in Values[t]
  <2>1. 2 \in 1 .. 2
    OBVIOUS
  <2> QED  BY <1>2, <1>3, <1>4, <2>1
<1> QED  BY <1>3, <1>4, <1>6, <1>7, <1>8

LEMMA FrameTypes ==
  ASSUME NEW Types, Closed(Types, Asked), NEW Values, Valued(Types, Values), Lowered(Types),
         NEW f, IsFrame(Values, f)
  PROVE  /\ TypeOf(f) \in Concretes(Types) /\ IsAggregate(TypeOf(f))
         /\ f.l \in Values[TypeOf(f)] /\ f.r \in Values[TypeOf(f)]
         /\ Inside(TypeOf(f), f.l) \in Seq(Types)
         /\ Inside(TypeOf(f), f.r) \in Seq(Types)
<1>1. TypeOf(f) \in Concretes(Types) /\ IsAggregate(TypeOf(f))
  BY HelperTypes DEF IsFrame, TypeOf
<1>2. f.l \in Values[TypeOf(f)] /\ f.r \in Values[TypeOf(f)]
  BY DEF IsFrame
<1> QED  BY <1>1, <1>2, InsideIs

(* The variant that is compared is the one the left value has.             *)
LEMMA BranchIs ==
  ASSUME NEW Types, NEW Values, Valued(Types, Values),
         NEW t \in Concretes(Types), Kind(t) = "Enum", NEW v \in Values[t]
  PROVE  BranchOn(t, v.n) = v.n /\ VariantFields(t)[BranchOn(t, v.n)] = Inside(t, v)
<1>1. v.n \in DOMAIN VariantFields(t)
  BY DEF Valued, Concretes, IsTerm
<1>2. Inside(t, v) = VariantFields(t)[v.n]
  BY DEF Inside
<1> QED  BY <1>1, <1>2 DEF BranchOn

(* A call that has ended returns what it had to find out.                  *)
LEMMA FinishedMeans ==
  ASSUME NEW Types, Closed(Types, Asked), NEW Values, Valued(Types, Values), Lowered(Types),
         NEW f, IsFrame(Values, f), Finished(f)
  PROVE  Result(f) <=> Meaning(f)
<1>1. PICK t : t = TypeOf(f)
  OBVIOUS
<1>2. /\ t \in Concretes(Types) /\ IsAggregate(t)
      /\ f.l \in Values[t] /\ f.r \in Values[t]
      /\ Inside(t, f.l) \in Seq(Types)
  BY <1>1, FrameTypes
<1>shaped. ShapedAs(Values, t, f.l) /\ ShapedAs(Values, t, f.r)
  BY <1>2, ValueIs
<1>3. CASE Kind(t) = "List"
  <2>1. IsNull(f.l) \/ IsNull(f.r) \/ ~ f.acc
    BY <1>1, <1>3 DEF Finished
  <2>2. Result(f) <=> f.acc /\ IsNull(f.l) /\ IsNull(f.r)
    BY <1>1, <1>3 DEF Result
  <2>3. Meaning(f) <=> f.acc /\ StructurallyEqual(t, f.l, f.r)
    BY <1>1, <1>3 DEF Meaning
  <2>4. ASSUME IsNull(f.l), IsNull(f.r) PROVE StructurallyEqual(t, f.l, f.r)
    <3>1. Inside(t, f.l) = <<>> /\ Inside(t, f.r) = <<>>
      BY <1>3, <2>4 DEF Inside
    <3>2. /\ f.l.n = 0 /\ f.r.n = 0 /\ f.l.k = f.r.k
          /\ DOMAIN f.l.c = DOMAIN f.r.c
      BY <1>shaped, <1>3, <2>4, <3>1 DEF IsNull, ShapedAs
    <3>3. EqualFrom(t, f.l, f.r, 1)
      BY <3>1 DEF EqualFrom
    <3> QED  BY <1>2, <3>2, <3>3, EqualByParts
  <2>5. ASSUME StructurallyEqual(t, f.l, f.r) PROVE IsNull(f.l) <=> IsNull(f.r)
    BY <2>5 DEF StructurallyEqual
  <2> QED  BY <2>1, <2>2, <2>3, <2>4, <2>5
<1>4. CASE Kind(t) = "Enum"
  <2>1. f.l.n # f.r.n \/ f.at > Len(Inside(t, f.l))
    BY <1>1, <1>2, <1>4, BranchIs DEF Finished
  <2>2. Result(f) <=> f.acc /\ f.l.n = f.r.n
    BY <1>1, <1>4 DEF Result
  <2>3. Meaning(f) <=> f.acc /\ f.l.n = f.r.n /\ EqualFrom(t, f.l, f.r, f.at)
    BY <1>1, <1>4 DEF Meaning
  <2>4. ASSUME f.at > Len(Inside(t, f.l)) PROVE EqualFrom(t, f.l, f.r, f.at)
    BY <1>2, <2>4 DEF EqualFrom, IsFrame
  <2> QED  BY <2>1, <2>2, <2>3, <2>4
<1>5. CASE Kind(t) \in {"Rec", "Tuple"}
  <2>1. Inside(t, f.l) = Parts(t)
    BY <1>5 DEF Inside
  <2>2. f.at > Len(Parts(t))
    BY <1>1, <1>5 DEF Finished
  <2>3. Result(f) <=> f.acc
    BY <1>1, <1>5 DEF Result
  <2>4. Meaning(f) <=> f.acc /\ f.l.n = f.r.n /\ EqualFrom(t, f.l, f.r, f.at)
    BY <1>1, <1>5 DEF Meaning
  <2>5. EqualFrom(t, f.l, f.r, f.at)
    BY <1>2, <2>1, <2>2 DEF EqualFrom, IsFrame
  <2>6. f.l.n = f.r.n
    BY <1>shaped, <1>5 DEF ShapedAs
  <2> QED  BY <2>3, <2>4, <2>5, <2>6
<1> QED  BY <1>2, <1>3, <1>4, <1>5 DEF IsAggregate

(* What the part is that a call has come to: both values have it, and it   *)
(* is compared as values of its type are.                                  *)
ComesTo(Values, f) ==
  /\ f.at \in DOMAIN Inside(TypeOf(f), f.l)
  /\ Inside(TypeOf(f), f.l) = Inside(TypeOf(f), f.r)
  /\ Loads(f)
  /\ ComparedAs(Inside(TypeOf(f), f.l)[f.at], FrameRef(f))
  /\ f.l.c[f.at] \in Values[FrameRef(f).t] /\ f.r.c[f.at] \in Values[FrameRef(f).t]
  /\ FrameRef(f).helper # Inline =>
       FrameRef(f).helper \in DOMAIN code /\ code[FrameRef(f).helper].t = FrameRef(f).t
  /\ f.l.n = f.r.n

LEMMA PartIs ==
  ASSUME NEW Types, Closed(Types, Asked), NEW Values, Valued(Types, Values), Lowered(Types),
         NEW f, IsFrame(Values, f), ~ Finished(f)
  PROVE  ComesTo(Values, f)
<1>1. PICK t : t = TypeOf(f)
  OBVIOUS
<1>2. /\ t \in Concretes(Types) /\ IsAggregate(t)
      /\ f.l \in Values[t] /\ f.r \in Values[t]
      /\ Inside(t, f.l) \in Seq(Types) /\ Inside(t, f.r) \in Seq(Types)
      /\ f.at \in Nat /\ f.at # 0
  BY <1>1, FrameTypes DEF IsFrame
<1>shaped. ShapedAs(Values, t, f.l) /\ ShapedAs(Values, t, f.r)
  BY <1>2, ValueIs
<1>list. Kind(t) = "List" => Len(Parts(t)) = 1
  BY <1>2 DEF Valued, Concretes
<1>enum. Kind(t) = "Enum" =>
           VariantFields(t) \in Seq(Seq(Types)) /\ Parts(t) = FlattenSeq(VariantFields(t))
  BY <1>2 DEF Valued, Concretes
<1>3. /\ DOMAIN f.l.c = DOMAIN Inside(t, f.l) /\ DOMAIN f.r.c = DOMAIN Inside(t, f.r)
      /\ \A i \in DOMAIN f.l.c : f.l.c[i] \in Values[Concrete(Inside(t, f.l)[i])]
      /\ \A i \in DOMAIN f.r.c : f.r.c[i] \in Values[Concrete(Inside(t, f.r)[i])]
  BY <1>shaped DEF ShapedAs
<1>4. f.helper \in DOMAIN code /\ Whole(code[f.helper].t, f.helper) = Parts(t)
  BY <1>1 DEF IsFrame, Whole, TypeOf
<1>5. \A k \in 1 .. Len(Parts(t)) :
        LET ref == code[f.helper].refs[k]
        IN  /\ ComparedAs(Parts(t)[k], ref)
            /\ ref.helper # Inline => ref.helper \in DOMAIN code /\ code[ref.helper].t = ref.t
  BY <1>4, RefIs
<1>6. ASSUME f.at \in DOMAIN Inside(t, f.l), Inside(t, f.l) = Inside(t, f.r), f.l.n = f.r.n,
             NEW k \in 1 .. Len(Parts(t)), Parts(t)[k] = Inside(t, f.l)[f.at],
             FrameRef(f) = code[f.helper].refs[k]
      PROVE  ComesTo(Values, f)
  <2>1. ComparedAs(Inside(t, f.l)[f.at], FrameRef(f))
    BY <1>5, <1>6
  <2>2. FrameRef(f).t = Concrete(Inside(t, f.l)[f.at])
    BY <2>1 DEF ComparedAs
  <2>3. /\ f.at \in DOMAIN f.l.c /\ f.at \in DOMAIN f.r.c
        /\ f.l.c[f.at] \in Values[FrameRef(f).t] /\ f.r.c[f.at] \in Values[FrameRef(f).t]
    BY <1>3, <1>6, <2>2
  <2>4. FrameRef(f).helper # Inline =>
          FrameRef(f).helper \in DOMAIN code /\ code[FrameRef(f).helper].t = FrameRef(f).t
    BY <1>5, <1>6
  <2> QED  BY <1>1, <1>6, <2>1, <2>3, <2>4 DEF ComesTo, Loads
<1>7. CASE Kind(t) = "List"
  <2>1. ~ IsNull(f.l) /\ ~ IsNull(f.r)
    BY <1>1, <1>7 DEF Finished
  <2>2. /\ Inside(t, f.l) = <<Parts(t)[1], t>> /\ Inside(t, f.r) = <<Parts(t)[1], t>>
    BY <1>7, <2>1 DEF Inside
  <2>3. f.at = 1 /\ FrameRef(f) = code[f.helper].refs[f.at]
    BY <1>1, <1>7 DEF IsFrame, FrameRef
  <2>4. 1 \in 1 .. Len(Parts(t))
    <3>1. Len(Parts(t)) = 1
      BY <1>list, <1>7
    <3> QED  BY <3>1
  <2>5. f.l.n = f.r.n
    BY <1>shaped, <1>7 DEF ShapedAs
  <2>6. 1 \in DOMAIN Inside(t, f.l) /\ Inside(t, f.l)[1] = Parts(t)[1]
    BY <2>2
  <2> QED  BY <1>6, <2>2, <2>3, <2>4, <2>5, <2>6
<1>8. CASE Kind(t) = "Enum"
  <2>1. /\ BranchOn(t, f.l.n) = f.l.n
        /\ VariantFields(t)[BranchOn(t, f.l.n)] = Inside(t, f.l)
    BY <1>2, <1>8, BranchIs
  <2>2. f.l.n = f.r.n /\ ~ (f.at > Len(Inside(t, f.l)))
    BY <1>1, <1>8, <2>1 DEF Finished
  <2>3. PICK v : v = f.l.n
    OBVIOUS
  <2>4. /\ v \in DOMAIN VariantFields(t) /\ Inside(t, f.l) = VariantFields(t)[v]
        /\ Inside(t, f.r) = VariantFields(t)[v]
    <3>1. v \in DOMAIN VariantFields(t)
      BY <1>shaped, <1>8, <2>3 DEF ShapedAs
    <3> QED  BY <1>8, <2>2, <2>3, <3>1 DEF Inside
  <2>5. VariantFields(t) \in Seq(Seq(Types)) /\ Parts(t) = FlattenSeq(VariantFields(t))
    BY <1>enum, <1>8
  <2>6. v \in 1 .. Len(VariantFields(t)) /\ f.at \in 1 .. Len(VariantFields(t)[v])
    <3>1. Len(Inside(t, f.l)) \in Nat
      BY <1>2
    <3>2. v \in 1 .. Len(VariantFields(t))
      BY <2>4, <2>5
    <3> QED  BY <1>2, <2>2, <2>4, <3>1, <3>2
  <2>7. PICK k : k = Offset(t, v) + f.at
    OBVIOUS
  <2>8. k \in 1 .. Len(Parts(t)) /\ Parts(t)[k] = VariantFields(t)[v][f.at]
    <3>1. LET at == Len(FlattenSeq(SubSeq(VariantFields(t), 1, v - 1))) + f.at
          IN  /\ at \in 1 .. Len(FlattenSeq(VariantFields(t)))
              /\ FlattenSeq(VariantFields(t))[at] = VariantFields(t)[v][f.at]
      BY <2>5, <2>6, FlattenAt
    <3> QED  BY <2>5, <2>7, <3>1 DEF Offset
  <2>9. FrameRef(f) = code[f.helper].refs[k]
    BY <1>1, <1>8, <2>1, <2>3, <2>7 DEF FrameRef
  <2>10. f.at \in DOMAIN Inside(t, f.l)
    BY <1>2, <2>4, <2>6
  <2> QED  BY <1>6, <2>2, <2>4, <2>8, <2>9, <2>10
<1>9. CASE Kind(t) \in {"Rec", "Tuple"}
  <2>1. Inside(t, f.l) = Parts(t) /\ Inside(t, f.r) = Parts(t)
    BY <1>9 DEF Inside
  <2>2. ~ (f.at > Len(Parts(t)))
    BY <1>1, <1>9 DEF Finished
  <2>3. FrameRef(f) = code[f.helper].refs[f.at]
    BY <1>1, <1>9 DEF FrameRef
  <2>4. f.at \in 1 .. Len(Parts(t)) /\ f.at \in DOMAIN Inside(t, f.l)
    <3>1. Parts(t) \in Seq(Types)
      BY <1>2, <2>1
    <3> QED  BY <1>2, <2>1, <2>2, <3>1
  <2>5. f.l.n = f.r.n
    BY <1>shaped, <1>9 DEF ShapedAs
  <2> QED  BY <1>6, <2>1, <2>3, <2>4, <2>5
<1> QED  BY <1>2, <1>7, <1>8, <1>9 DEF IsAggregate

LEMMA ScalarsEqual ==
  ASSUME NEW Types, NEW Values, Valued(Types, Values),
         NEW t \in Concretes(Types), IsScalar(t), NEW l \in Values[t], NEW r \in Values[t]
  PROVE  ScalarEq(t, l, r) <=> StructurallyEqual(t, l, r)
<1>1. /\ IsTerm(t, l) /\ IsTerm(t, r)
      /\ HasNaN(t, l) <=> IsNaN(t, l)
  BY DEF Valued, Concretes
<1>2. /\ l = [k |-> l.k, n |-> l.n, c |-> l.c] /\ r = [k |-> r.k, n |-> r.n, c |-> r.c]
      /\ l.k = r.k /\ l.c = r.c
  BY <1>1 DEF IsTerm
<1>3. l.n = r.n => l = r
  BY <1>2
<1> QED  BY <1>1, <1>3 DEF ScalarEq, StructurallyEqual

(* A call that begins has everything to find out.                          *)
LEMMA CallMeans ==
  ASSUME NEW Types, Closed(Types, Asked), NEW Values, Valued(Types, Values), Lowered(Types),
         NEW h \in DOMAIN code, h # Inline, NEW l \in Values[code[h].t], NEW r \in Values[code[h].t]
  PROVE  /\ IsFrame(Values, Call(h, l, r))
         /\ Meaning(Call(h, l, r)) <=> StructurallyEqual(code[h].t, l, r)
<1>1. PICK t : t = code[h].t
  OBVIOUS
<1>2. PICK f : f = Call(h, l, r)
  OBVIOUS
<1>3. /\ f = [helper |-> h, l |-> l, r |-> r, at |-> 1, acc |-> TRUE]
      /\ f.helper = h /\ f.l = l /\ f.r = r /\ f.at = 1 /\ f.acc = TRUE /\ TypeOf(f) = t
  BY <1>1, <1>2 DEF Call, TypeOf
<1>4. t \in Concretes(Types) /\ IsAggregate(t)
  BY <1>1, HelperTypes
<1>5. IsFrame(Values, f)
  BY <1>1, <1>3 DEF IsFrame
<1>6. ShapedAs(Values, t, l) /\ ShapedAs(Values, t, r)
  BY <1>1, <1>4, ValueIs
<1>7. CASE Kind(t) = "List"
  BY <1>1, <1>2, <1>3, <1>5, <1>7 DEF Meaning
<1>8. CASE Kind(t) \in {"Enum", "Rec", "Tuple"}
  <2>1. Meaning(f) <=> l.n = r.n /\ EqualFrom(t, l, r, 1)
    BY <1>3, <1>8 DEF Meaning
  <2>2. ASSUME l.n = r.n PROVE l.k = r.k /\ DOMAIN l.c = DOMAIN r.c
    <3>1. l.k = r.k
      BY <1>6, <1>8 DEF ShapedAs
    <3>2. Inside(t, l) = Inside(t, r)
      BY <1>8, <2>2 DEF Inside
    <3> QED  BY <1>6, <3>1, <3>2 DEF ShapedAs
  <2>3. StructurallyEqual(t, l, r) <=>
          l.k = r.k /\ l.n = r.n /\ DOMAIN l.c = DOMAIN r.c /\ EqualFrom(t, l, r, 1)
    BY <1>1, <1>4, EqualByParts
  <2> QED  BY <1>1, <1>2, <1>5, <2>1, <2>2, <2>3
<1> QED  BY <1>4, <1>7, <1>8 DEF IsAggregate

Asking(f) == StructurallyEqual(FrameRef(f).t, f.l.c[f.at], f.r.c[f.at])

(* The answer for a part leaves the rest to be found out.                  *)
LEMMA AfterMeans ==
  ASSUME NEW Types, Closed(Types, Asked), NEW Values, Valued(Types, Values), Lowered(Types),
         NEW f, IsFrame(Values, f), ~ Finished(f), NEW e \in BOOLEAN, e <=> Asking(f)
  PROVE  /\ IsFrame(Values, After(f, e))
         /\ Meaning(After(f, e)) <=> Meaning(f)
<1>1. PICK t : t = TypeOf(f)
  OBVIOUS
<1>2. /\ t \in Concretes(Types) /\ IsAggregate(t)
      /\ f.l \in Values[t] /\ f.r \in Values[t]
      /\ Inside(t, f.l) \in Seq(Types)
  BY <1>1, FrameTypes
<1>3. ComesTo(Values, f)
  BY PartIs
<1>4. FrameRef(f).t = Concrete(Inside(t, f.l)[f.at])
  BY <1>1, <1>3 DEF ComesTo, ComparedAs
<1>5. f = [helper |-> f.helper, l |-> f.l, r |-> f.r, at |-> f.at, acc |-> f.acc]
      /\ f.acc \in BOOLEAN /\ f.at \in Nat /\ f.at # 0
  BY DEF IsFrame
<1>6. PICK g : g = After(f, e)
  OBVIOUS
<1>7. CASE Kind(t) = "List"
  <2>1. ~ IsNull(f.l) /\ ~ IsNull(f.r) /\ f.at = 1
    BY <1>1, <1>7 DEF Finished, IsFrame
  <2>2. /\ f.l.c[2] \in Values[t] /\ f.r.c[2] \in Values[t]
        /\ Inside(t, f.l)[1] = Parts(t)[1]
        /\ StructurallyEqual(t, f.l, f.r) <=>
             /\ StructurallyEqual(Concrete(Parts(t)[1]), f.l.c[1], f.r.c[1])
             /\ StructurallyEqual(t, f.l.c[2], f.r.c[2])
    BY <1>2, <1>7, <2>1, CellsEqual
  <2>3. e <=> StructurallyEqual(Concrete(Parts(t)[1]), f.l.c[1], f.r.c[1])
    BY <1>4, <2>1, <2>2 DEF Asking
  <2>4. g = [f EXCEPT !.l = f.l.c[2], !.r = f.r.c[2], !.acc = f.acc /\ e]
    BY <1>1, <1>6, <1>7 DEF After
  <2>5. /\ g = [helper |-> f.helper, l |-> f.l.c[2], r |-> f.r.c[2], at |-> f.at,
                acc |-> (f.acc /\ e)]
        /\ g.helper = f.helper /\ g.l = f.l.c[2] /\ g.r = f.r.c[2] /\ g.at = f.at
    BY <1>5, <2>4
  <2>6. g.acc = (f.acc /\ e)
    BY <2>5, Zenon
  <2>7. TypeOf(g) = t
    BY <1>1, <2>5 DEF TypeOf
  <2>8. IsFrame(Values, g)
    BY <1>1, <2>1, <2>2, <2>5, <2>6, <2>7 DEF IsFrame
  <2>9. Meaning(g) <=> g.acc /\ StructurallyEqual(t, f.l.c[2], f.r.c[2])
    BY <1>7, <2>5, <2>7 DEF Meaning
  <2>10. Meaning(f) <=> f.acc /\ StructurallyEqual(t, f.l, f.r)
    BY <1>1, <1>7 DEF Meaning
  <2> QED  BY <1>6, <2>2, <2>3, <2>6, <2>8, <2>9, <2>10
<1>8. CASE Kind(t) \in {"Enum", "Rec", "Tuple"}
  <2>1. g = [f EXCEPT !.at = f.at + 1, !.acc = f.acc /\ e]
    BY <1>1, <1>6, <1>8 DEF After
  <2>2. /\ g = [helper |-> f.helper, l |-> f.l, r |-> f.r, at |-> f.at + 1,
                acc |-> (f.acc /\ e)]
        /\ g.helper = f.helper /\ g.l = f.l /\ g.r = f.r /\ g.at = f.at + 1
    BY <1>5, <2>1
  <2>3. g.acc = (f.acc /\ e)
    BY <2>2, Zenon
  <2>4. TypeOf(g) = t
    BY <1>1, <2>2 DEF TypeOf
  <2>5. IsFrame(Values, g)
    BY <1>1, <1>5, <1>8, <2>2, <2>3, <2>4 DEF IsFrame
  <2>6. e <=> StructurallyEqual(Concrete(Inside(t, f.l)[f.at]), f.l.c[f.at], f.r.c[f.at])
    BY <1>4 DEF Asking
  <2>7. EqualFrom(t, f.l, f.r, f.at) <=> e /\ EqualFrom(t, f.l, f.r, f.at + 1)
    <3>1. f.at \in DOMAIN Inside(t, f.l)
      BY <1>1, <1>3 DEF ComesTo
    <3>2. \A k \in DOMAIN Inside(t, f.l) : k >= f.at <=> k = f.at \/ k >= f.at + 1
      BY <1>2, <1>5
    <3>3. f.at >= f.at
      BY <1>5
    <3> QED  BY <2>6, <3>1, <3>2, <3>3 DEF EqualFrom
  <2>8. Meaning(g) <=> g.acc /\ f.l.n = f.r.n /\ EqualFrom(t, f.l, f.r, f.at + 1)
    BY <1>8, <2>2, <2>4 DEF Meaning
  <2>9. Meaning(f) <=> f.acc /\ f.l.n = f.r.n /\ EqualFrom(t, f.l, f.r, f.at)
    BY <1>1, <1>8 DEF Meaning
  <2> QED  BY <1>6, <2>3, <2>5, <2>7, <2>8, <2>9
<1> QED  BY <1>2, <1>7, <1>8 DEF IsAggregate

-----------------------------------------------------------------------------
(* The calls that have not returned: each has the part it has come to      *)
(* compared by the next, and the first has the whole question.             *)

Terms(Types, Values) == UNION {Values[t] : t \in Concretes(Types)}
Calls(Types, Values) ==
  [helper : Nat, l : Terms(Types, Values), r : Terms(Types, Values), at : Nat, acc : BOOLEAN]

TheQuestion == StructurallyEqual(Concrete(question[1]), question[2], question[3])

CallsAgree(Types, Values) ==
  /\ frames \in Seq(Calls(Types, Values)) /\ frames # <<>>
  /\ \A i \in 1 .. Len(frames) : IsFrame(Values, frames[i])
  /\ Meaning(frames[1]) <=> TheQuestion
  /\ \A i \in 1 .. Len(frames) - 1 :
       ~ Finished(frames[i]) /\ (Meaning(frames[i + 1]) <=> Asking(frames[i]))

RunAgrees(Types, Values) ==
  /\ pc = "run" => CallsAgree(Types, Values)
  /\ pc = "answered" => answer \in BOOLEAN /\ (answer <=> TheQuestion)
  /\ pc # "fault"

LEMMA FrameIsCall ==
  ASSUME NEW Types, Closed(Types, Asked), NEW Values, Valued(Types, Values), Lowered(Types),
         NEW f, IsFrame(Values, f)
  PROVE  f \in Calls(Types, Values)
<1>1. TypeOf(f) \in Concretes(Types) /\ f.l \in Values[TypeOf(f)] /\ f.r \in Values[TypeOf(f)]
  BY FrameTypes
<1>2. f.l \in Terms(Types, Values) /\ f.r \in Terms(Types, Values)
  BY <1>1 DEF Terms
<1>3. f.helper \in Nat
  <2>1. f.helper \in DOMAIN code
    BY DEF IsFrame
  <2>2. f.helper \in 0 .. counter /\ counter \in Nat
    BY <2>1 DEF Lowered, HelpersAgree, CodeIs, RegistryCounts
  <2> QED  BY <2>2
<1>4. /\ f = [helper |-> f.helper, l |-> f.l, r |-> f.r, at |-> f.at, acc |-> f.acc]
      /\ f.at \in Nat /\ f.acc \in BOOLEAN
  BY DEF IsFrame
<1>5. [helper |-> f.helper, l |-> f.l, r |-> f.r, at |-> f.at, acc |-> f.acc]
        \in Calls(Types, Values)
  BY <1>2, <1>3, <1>4 DEF Calls
<1> QED  BY <1>4, <1>5

(* While it runs, the program's helpers are what they are.                 *)
LEMMA CodeStays ==
  ASSUME code' = code
  PROVE  /\ \A V, f : IsFrame(V, f)' <=> IsFrame(V, f)
         /\ \A f : Meaning(f)' <=> Meaning(f)
         /\ \A f : Finished(f)' <=> Finished(f)
         /\ \A f : Asking(f)' <=> Asking(f)
<1>1. \A f : TypeOf(f)' = TypeOf(f)
  BY DEF TypeOf
<1>2. \A f : FrameRef(f)' = FrameRef(f)
  BY <1>1 DEF FrameRef
<1>3. ASSUME NEW V, NEW f PROVE IsFrame(V, f)' <=> IsFrame(V, f)
  BY <1>1 DEF IsFrame
<1>4. ASSUME NEW f PROVE Meaning(f)' <=> Meaning(f)
  BY <1>1 DEF Meaning
<1>5. ASSUME NEW f PROVE Finished(f)' <=> Finished(f)
  BY <1>1 DEF Finished
<1>6. ASSUME NEW f PROVE Asking(f)' <=> Asking(f)
  BY <1>2 DEF Asking
<1> QED  BY <1>3, <1>4, <1>5, <1>6

(* What to show of the calls after a step.                                 *)
LEMMA CallsAgreeNext ==
  ASSUME NEW Types, NEW Values, code' = code, NEW next, next = frames',
         next \in Seq(Calls(Types, Values)), next # <<>>,
         \A i \in 1 .. Len(next) : IsFrame(Values, next[i]),
         Meaning(next[1]) <=> TheQuestion',
         \A i \in 1 .. Len(next) - 1 :
           ~ Finished(next[i]) /\ (Meaning(next[i + 1]) <=> Asking(next[i]))
  PROVE  CallsAgree(Types, Values)'
<1>1. \A i \in 1 .. Len(next) : IsFrame(Values, next[i])'
  BY CodeStays
<1>2. Meaning(next[1])' <=> TheQuestion'
  BY CodeStays
<1>3. \A i \in 1 .. Len(next) - 1 :
        ~ Finished(next[i])' /\ (Meaning(next[i + 1])' <=> Asking(next[i])')
  BY CodeStays
<1> QED  BY <1>1, <1>2, <1>3 DEF CallsAgree

LEMMA AskAgrees ==
  ASSUME NEW Types, Closed(Types, Asked), NEW Values, Valued(Types, Values),
         HelpersAgree(Types), PartsAgree(Types),
         NEW i \in DOMAIN asked, NEW l \in Operands(Concrete(asked[i])),
         NEW r \in Operands(Concrete(asked[i])), Ask(i, l, r)
  PROVE  RunAgrees(Types, Values)'
<1>1. PICK ref : ref = code[Inline].refs[i]
  OBVIOUS
<1>2. /\ pc = "ready" /\ question' = <<asked[i], l, r>>
      /\ ref.helper = Inline =>
           answer' = ScalarEq(ref.t, l, r) /\ pc' = "answered"
      /\ ref.helper # Inline => frames' = <<Call(ref.helper, l, r)>> /\ pc' = "run"
      /\ code' = code
  BY <1>1 DEF Ask, lowering
<1>3. Lowered(Types)
  BY <1>2 DEF Lowered
<1>4. PICK u : u = asked[i]
  OBVIOUS
<1>5. u \in Types /\ i \in 1 .. Len(asked) /\ Concrete(u) \in Concretes(Types)
  BY <1>4 DEF PartsAgree, Concretes
<1>6. l \in Values[Concrete(u)] /\ r \in Values[Concrete(u)]
  BY <1>4, <1>5 DEF Valued, Concretes
<1>7. ComparedAs(u, ref) /\ (ref.helper # Inline =>
        ref.helper \in DOMAIN code /\ code[ref.helper].t = ref.t)
  <2>1. Inline \in DOMAIN code /\ Whole(code[Inline].t, Inline) = asked
    BY <1>3, InlineIsLowered DEF Whole
  <2> QED  BY <1>1, <1>3, <1>4, <1>5, <2>1, RefIs
<1>8. ref.t = Concrete(u)
  BY <1>7 DEF ComparedAs
<1>9. PICK same \in BOOLEAN : same <=> StructurallyEqual(Concrete(u), l, r)
  OBVIOUS
<1>10. TheQuestion' <=> same
  BY <1>2, <1>4, <1>9 DEF TheQuestion
<1>11. CASE ref.helper = Inline
  <2>1. IsScalar(ref.t)
    BY <1>7, <1>11 DEF ComparedAs, IsAggregate, IsScalar
  <2>2. ScalarEq(ref.t, l, r) <=> same
    BY <1>5, <1>6, <1>8, <1>9, <2>1, ScalarsEqual
  <2>3. answer' \in BOOLEAN /\ (answer' <=> same)
    <3>1. answer' = ScalarEq(ref.t, l, r)
      BY <1>2, <1>11
    <3>2. ScalarEq(ref.t, l, r) \in BOOLEAN
      BY DEF ScalarEq
    <3> QED  BY <2>2, <3>1, <3>2, Zenon
  <2> QED  BY <1>2, <1>10, <1>11, <2>3 DEF RunAgrees
<1>12. CASE ref.helper # Inline
  <2>1. PICK f : f = Call(ref.helper, l, r)
    OBVIOUS
  <2>2. IsFrame(Values, f) /\ (Meaning(f) <=> same)
    BY <1>3, <1>6, <1>7, <1>8, <1>9, <1>12, <2>1, CallMeans
  <2>3. f \in Calls(Types, Values)
    BY <1>3, <2>2, FrameIsCall
  <2>4. PICK next : next = frames'
    OBVIOUS
  <2>5. next = <<f>>
    BY <1>2, <1>12, <2>1, <2>4
  <2>6. /\ next \in Seq(Calls(Types, Values)) /\ next # <<>>
        /\ Len(next) = 1 /\ next[1] = f /\ 1 .. Len(next) - 1 = {}
        /\ \A k \in 1 .. Len(next) : k = 1
    BY <2>3, <2>5
  <2>7. CallsAgree(Types, Values)'
    BY <1>2, <1>10, <2>2, <2>4, <2>6, CallsAgreeNext
  <2> QED  BY <1>2, <1>12, <2>7 DEF RunAgrees
<1> QED  BY <1>11, <1>12

(* The topmost call, and what is known of the calls.                       *)
LEMMA TopmostIs ==
  ASSUME NEW Types, NEW Values, HelpersAgree(Types), PartsAgree(Types),
         RunAgrees(Types, Values), pc = "run"
  PROVE  /\ Lowered(Types) /\ CallsAgree(Types, Values)
         /\ Len(frames) \in Nat /\ Len(frames) \in 1 .. Len(frames)
         /\ Frame = frames[Len(frames)] /\ IsFrame(Values, Frame)
<1>1. Lowered(Types) /\ CallsAgree(Types, Values)
  BY DEF Lowered, RunAgrees
<1>2. Len(frames) \in Nat /\ Len(frames) \in 1 .. Len(frames)
  BY <1>1 DEF CallsAgree
<1> QED  BY <1>1, <1>2 DEF CallsAgree, Frame

(* The topmost call goes on after the answer for its part.                 *)
LEMMA StackGoesOn ==
  ASSUME NEW Types, Closed(Types, Asked), NEW Values, Valued(Types, Values), Lowered(Types),
         CallsAgree(Types, Values), code' = code, question' = question,
         NEW n \in 1 .. Len(frames), ~ Finished(frames[n]), NEW e \in BOOLEAN, e <=> Asking(frames[n]),
         frames' = [SubSeq(frames, 1, n) EXCEPT ![n] = After(frames[n], e)]
  PROVE  CallsAgree(Types, Values)'
<1>1. PICK next : next = frames'
  OBVIOUS
<1>2. PICK g : g = After(frames[n], e)
  OBVIOUS
<1>3. /\ frames \in Seq(Calls(Types, Values)) /\ Len(frames) \in Nat
      /\ n \in Nat /\ n # 0 /\ n <= Len(frames)
      /\ \A i \in 1 .. n : i \in 1 .. Len(frames)
      /\ \A i \in 1 .. n - 1 : i \in 1 .. Len(frames) - 1 /\ i + 1 \in 1 .. n /\ i \in 1 .. n
  BY DEF CallsAgree
<1>4. IsFrame(Values, g) /\ (Meaning(g) <=> Meaning(frames[n])) /\ g \in Calls(Types, Values)
  <2>1. IsFrame(Values, frames[n])
    BY DEF CallsAgree
  <2>2. IsFrame(Values, g) /\ (Meaning(g) <=> Meaning(frames[n]))
    BY <1>2, <2>1, AfterMeans
  <2> QED  BY <2>2, FrameIsCall
<1>5. PICK upto : upto = SubSeq(frames, 1, n)
  OBVIOUS
<1>6. /\ upto \in Seq(Calls(Types, Values)) /\ Len(upto) = n
      /\ \A i \in 1 .. n : upto[i] = frames[i]
  BY <1>3, <1>5, SubSeqProperties
<1>7. next = [upto EXCEPT ![n] = g]
  BY <1>1, <1>2, <1>5
<1>8. /\ next \in Seq(Calls(Types, Values)) /\ Len(next) = n /\ next # <<>>
      /\ next[n] = g /\ \A i \in 1 .. n : i # n => next[i] = frames[i]
  BY <1>3, <1>4, <1>6, <1>7
<1>9. \A i \in 1 .. n : IsFrame(Values, next[i]) /\ (Meaning(next[i]) <=> Meaning(frames[i]))
  BY <1>3, <1>4, <1>8 DEF CallsAgree
<1>10. TheQuestion' <=> TheQuestion
  BY DEF TheQuestion
<1>11. \A i \in 1 .. n - 1 :
         ~ Finished(next[i]) /\ (Meaning(next[i + 1]) <=> Asking(next[i]))
  <2> SUFFICES ASSUME NEW i \in 1 .. n - 1
               PROVE  ~ Finished(next[i]) /\ (Meaning(next[i + 1]) <=> Asking(next[i]))
    OBVIOUS
  <2>1. next[i] = frames[i] /\ i + 1 \in 1 .. n /\ i \in 1 .. Len(frames) - 1
    BY <1>3, <1>8
  <2>2. ~ Finished(frames[i]) /\ (Meaning(frames[i + 1]) <=> Asking(frames[i]))
    BY <2>1 DEF CallsAgree
  <2> QED  BY <1>9, <2>1, <2>2
<1>12. Meaning(next[1]) <=> TheQuestion'
  BY <1>3, <1>9, <1>10 DEF CallsAgree
<1> QED  BY <1>1, <1>8, <1>9, <1>11, <1>12, CallsAgreeNext

LEMMA ScalarsAgree ==
  ASSUME NEW Types, Closed(Types, Asked), NEW Values, Valued(Types, Values),
         HelpersAgree(Types), PartsAgree(Types), RunAgrees(Types, Values), CompareScalars
  PROVE  RunAgrees(Types, Values)'
<1>1. pc = "run" /\ ~ Finished(Frame) /\ FrameRef(Frame).helper = Inline
  BY DEF CompareScalars, Walks
<1>2. PICK n : n = Len(frames)
  OBVIOUS
<1>3. PICK f : f = frames[n]
  OBVIOUS
<1>4. /\ Lowered(Types) /\ CallsAgree(Types, Values)
      /\ n \in Nat /\ n \in 1 .. n /\ Frame = f /\ IsFrame(Values, f)
  BY <1>1, <1>2, <1>3, TopmostIs
<1>5. ComesTo(Values, f)
  BY <1>1, <1>4, PartIs
<1>6. Loads(f)
  BY <1>5 DEF ComesTo
<1>7. PICK e : e = ScalarEq(FrameRef(f).t, f.l.c[f.at], f.r.c[f.at])
  OBVIOUS
<1>8. frames' = [frames EXCEPT ![n] = After(f, e)] /\ pc' = pc
      /\ code' = code /\ question' = question
  BY <1>2, <1>3, <1>4, <1>6, <1>7 DEF CompareScalars, Loading, lowering
<1>9. e \in BOOLEAN /\ (e <=> Asking(f))
  <2>1. e \in BOOLEAN
    BY <1>7 DEF ScalarEq
  <2>2. /\ ComparedAs(Inside(TypeOf(f), f.l)[f.at], FrameRef(f))
        /\ f.l.c[f.at] \in Values[FrameRef(f).t] /\ f.r.c[f.at] \in Values[FrameRef(f).t]
        /\ f.at \in DOMAIN Inside(TypeOf(f), f.l)
    BY <1>5 DEF ComesTo
  <2>3. FrameRef(f).t \in Concretes(Types)
    <3>1. Inside(TypeOf(f), f.l) \in Seq(Types)
      BY <1>4, FrameTypes
    <3>2. Inside(TypeOf(f), f.l)[f.at] \in Types
      BY <2>2, <3>1
    <3> QED  BY <2>2, <3>2 DEF ComparedAs, Concretes
  <2>4. IsScalar(FrameRef(f).t)
    BY <1>1, <1>4, <2>2 DEF ComparedAs
  <2>5. ScalarEq(FrameRef(f).t, f.l.c[f.at], f.r.c[f.at]) <=> Asking(f)
    BY <2>2, <2>3, <2>4, ScalarsEqual DEF Asking
  <2> QED  BY <1>7, <2>1, <2>5
<1>10. frames' = [SubSeq(frames, 1, n) EXCEPT ![n] = After(frames[n], e)]
  <2>1. SubSeq(frames, 1, n) = frames
    BY <1>2, <1>4, SubSeqFull DEF CallsAgree
  <2> QED  BY <1>3, <1>8, <2>1
<1>11. CallsAgree(Types, Values)'
  BY <1>1, <1>2, <1>3, <1>4, <1>8, <1>9, <1>10, StackGoesOn
<1> QED  BY <1>1, <1>8, <1>11 DEF RunAgrees

LEMMA HelperCallAgrees ==
  ASSUME NEW Types, Closed(Types, Asked), NEW Values, Valued(Types, Values),
         HelpersAgree(Types), PartsAgree(Types), RunAgrees(Types, Values), CallHelper
  PROVE  RunAgrees(Types, Values)'
<1>1. pc = "run" /\ ~ Finished(Frame) /\ FrameRef(Frame).helper # Inline
  BY DEF CallHelper, Walks
<1>2. PICK n : n = Len(frames)
  OBVIOUS
<1>3. PICK f : f = frames[n]
  OBVIOUS
<1>4. /\ Lowered(Types) /\ CallsAgree(Types, Values)
      /\ n \in Nat /\ n \in 1 .. n /\ Frame = f /\ IsFrame(Values, f)
  BY <1>1, <1>2, <1>3, TopmostIs
<1>5. ComesTo(Values, f)
  BY <1>1, <1>4, PartIs
<1>6. PICK h : h = FrameRef(f).helper
  OBVIOUS
<1>7. /\ Loads(f) /\ h \in DOMAIN code /\ h # Inline /\ code[h].t = FrameRef(f).t
      /\ f.l.c[f.at] \in Values[code[h].t] /\ f.r.c[f.at] \in Values[code[h].t]
  BY <1>1, <1>4, <1>5, <1>6 DEF ComesTo
<1>8. PICK g : g = Call(h, f.l.c[f.at], f.r.c[f.at])
  OBVIOUS
<1>9. frames' = Append(frames, g) /\ pc' = pc /\ code' = code /\ question' = question
  BY <1>4, <1>6, <1>7, <1>8 DEF CallHelper, Loading, lowering
<1>10. IsFrame(Values, g) /\ (Meaning(g) <=> Asking(f))
  BY <1>4, <1>7, <1>8, CallMeans DEF Asking
<1>11. g \in Calls(Types, Values)
  BY <1>4, <1>10, FrameIsCall
<1>12. PICK next : next = frames'
  OBVIOUS
<1>13. /\ next \in Seq(Calls(Types, Values)) /\ Len(next) = n + 1 /\ next # <<>>
       /\ next[n + 1] = g /\ \A i \in 1 .. n : next[i] = frames[i]
  BY <1>2, <1>4, <1>9, <1>11, <1>12 DEF CallsAgree
<1>14. \A i \in 1 .. Len(next) : IsFrame(Values, next[i])
  <2>1. \A i \in 1 .. Len(next) : i = n + 1 \/ i \in 1 .. n
    BY <1>4, <1>13
  <2> QED  BY <1>2, <1>4, <1>10, <1>13, <2>1 DEF CallsAgree
<1>15. Meaning(next[1]) <=> TheQuestion'
  <2>1. 1 \in 1 .. n
    BY <1>4
  <2> QED  BY <1>4, <1>9, <1>13, <2>1 DEF CallsAgree, TheQuestion
<1>16. \A i \in 1 .. Len(next) - 1 :
         ~ Finished(next[i]) /\ (Meaning(next[i + 1]) <=> Asking(next[i]))
  <2> SUFFICES ASSUME NEW i \in 1 .. Len(next) - 1
               PROVE  ~ Finished(next[i]) /\ (Meaning(next[i + 1]) <=> Asking(next[i]))
    OBVIOUS
  <2>1. i \in 1 .. n /\ (i = n \/ (i \in 1 .. n - 1 /\ i + 1 \in 1 .. n))
    BY <1>4, <1>13
  <2>2. CASE i = n
    BY <1>1, <1>3, <1>4, <1>10, <1>13, <2>2
  <2>3. CASE i \in 1 .. n - 1 /\ i + 1 \in 1 .. n
    <3>1. ~ Finished(frames[i]) /\ (Meaning(frames[i + 1]) <=> Asking(frames[i]))
      BY <1>2, <1>4, <2>3 DEF CallsAgree
    <3> QED  BY <1>13, <2>1, <2>3, <3>1
  <2> QED  BY <2>1, <2>2, <2>3
<1>17. CallsAgree(Types, Values)'
  BY <1>9, <1>12, <1>13, <1>14, <1>15, <1>16, CallsAgreeNext
<1> QED  BY <1>1, <1>9, <1>17 DEF RunAgrees

LEMMA ReturnAgrees ==
  ASSUME NEW Types, Closed(Types, Asked), NEW Values, Valued(Types, Values),
         HelpersAgree(Types), PartsAgree(Types), RunAgrees(Types, Values), Return
  PROVE  RunAgrees(Types, Values)'
<1>1. pc = "run" /\ Finished(Frame) /\ code' = code /\ question' = question
  BY DEF Return, lowering
<1>2. PICK n : n = Len(frames)
  OBVIOUS
<1>3. PICK f : f = frames[n]
  OBVIOUS
<1>4. /\ Lowered(Types) /\ CallsAgree(Types, Values)
      /\ n \in Nat /\ n \in 1 .. n /\ Frame = f /\ IsFrame(Values, f)
  BY <1>1, <1>2, <1>3, TopmostIs
<1>5. Result(f) <=> Meaning(f)
  BY <1>1, <1>4, FinishedMeans
<1>6. PICK e : e = Result(f)
  OBVIOUS
<1>7. e \in BOOLEAN
  <2>1. f.acc \in BOOLEAN
    BY <1>4 DEF IsFrame
  <2>2. TypeOf(f) \in Concretes(Types) /\ IsAggregate(TypeOf(f))
    BY <1>4, FrameTypes
  <2>3. CASE Kind(TypeOf(f)) = "List"
    <3>1. Result(f) = (f.acc /\ IsNull(f.l) /\ IsNull(f.r))
      BY <2>3 DEF Result
    <3> QED  BY <1>6, <3>1
  <2>4. CASE Kind(TypeOf(f)) = "Enum"
    <3>1. Result(f) = (f.acc /\ f.l.n = f.r.n)
      BY <2>4 DEF Result
    <3> QED  BY <1>6, <3>1
  <2>5. CASE Kind(TypeOf(f)) \in {"Rec", "Tuple"}
    <3>1. Result(f) = f.acc
      BY <2>5 DEF Result
    <3> QED  BY <1>6, <2>1, <3>1
  <2> QED  BY <2>2, <2>3, <2>4, <2>5 DEF IsAggregate
<1>8. CASE n = 1
  <2>1. answer' = e /\ pc' = "answered"
    BY <1>2, <1>4, <1>6, <1>8 DEF Return
  <2>2. Meaning(f) <=> TheQuestion
    BY <1>3, <1>4, <1>8 DEF CallsAgree
  <2>3. TheQuestion' <=> TheQuestion
    BY <1>1 DEF TheQuestion
  <2>4. e <=> TheQuestion'
    BY <1>5, <1>6, <2>2, <2>3
  <2>5. answer' \in BOOLEAN /\ (answer' <=> TheQuestion')
    BY <1>7, <2>1, <2>4
  <2> QED  BY <2>1, <2>5 DEF RunAgrees
<1>9. CASE n # 1
  <2>1. frames' = [Front(frames) EXCEPT ![n - 1] = After(@, e)] /\ pc' = pc
    BY <1>2, <1>4, <1>6, <1>9 DEF Return
  <2>2. n - 1 \in 1 .. Len(frames) /\ n - 1 \in 1 .. Len(frames) - 1 /\ (n - 1) + 1 = n
    BY <1>2, <1>4, <1>9
  <2>3. ~ Finished(frames[n - 1]) /\ (e <=> Asking(frames[n - 1]))
    <3>1. ~ Finished(frames[n - 1]) /\ (Meaning(frames[(n - 1) + 1]) <=> Asking(frames[n - 1]))
      BY <1>4, <2>2 DEF CallsAgree
    <3> QED  BY <1>3, <1>5, <1>6, <2>2, <3>1
  <2>4. frames' = [SubSeq(frames, 1, n - 1) EXCEPT ![n - 1] = After(frames[n - 1], e)]
    <3>1. frames \in Seq(Calls(Types, Values))
      BY <1>4 DEF CallsAgree
    <3>2. PICK front : front = SubSeq(frames, 1, n - 1)
      OBVIOUS
    <3>3. front[n - 1] = frames[n - 1]
      BY <2>2, <3>1, <3>2, SubSeqProperties
    <3>4. Front(frames) = front
      BY <1>2, <3>2 DEF Front
    <3> QED  BY <2>1, <3>2, <3>3, <3>4
  <2>5. CallsAgree(Types, Values)'
    BY <1>1, <1>4, <1>7, <2>2, <2>3, <2>4, StackGoesOn
  <2> QED  BY <1>1, <2>1, <2>5 DEF RunAgrees
<1> QED  BY <1>8, <1>9

LEMMA RunInductive ==
  ASSUME NEW Types, Closed(Types, Asked), NEW Values, Valued(Types, Values),
         HelpersAgree(Types), PartsAgree(Types), RunAgrees(Types, Values), [Next]_vars
  PROVE  RunAgrees(Types, Values)'
<1>1. CASE Lowering
  <2>1. pc = "lower" /\ pc' \in {"lower", "ready", "refused"}
    BY <1>1 DEF Lowering, LowerScalar, CallRegistered, BeginHelper, Refuse, EmitHelper, Lowers
  <2> QED  BY <2>1 DEF RunAgrees
<1>2. ASSUME NEW i \in DOMAIN asked, NEW l \in Operands(Concrete(asked[i])),
             NEW r \in Operands(Concrete(asked[i])), Ask(i, l, r)
      PROVE  RunAgrees(Types, Values)'
  BY <1>2, AskAgrees
<1>3. CASE CompareScalars
  BY <1>3, ScalarsAgree
<1>4. CASE CallHelper
  BY <1>4, HelperCallAgrees
<1>5. CASE Return
  BY <1>5, ReturnAgrees
<1>6. CASE UNCHANGED vars
  <2>1. /\ pc' = pc /\ answer' = answer /\ question' = question /\ code' = code
        /\ frames' = frames
    BY <1>6 DEF vars
  <2>2. TheQuestion' <=> TheQuestion
    BY <2>1 DEF TheQuestion
  <2>3. CASE pc = "run"
    <3>1. CallsAgree(Types, Values)
      BY <2>3 DEF RunAgrees
    <3>2. CallsAgree(Types, Values)'
      BY <2>1, <2>2, <3>1, CallsAgreeNext DEF CallsAgree
    <3> QED  BY <2>1, <2>3, <3>2 DEF RunAgrees
  <2>4. CASE pc # "run"
    BY <2>1, <2>2, <2>4 DEF RunAgrees
  <2> QED  BY <2>3, <2>4
<1> QED  BY <1>1, <1>2, <1>3, <1>4, <1>5, <1>6 DEF Next, Running

AllAgree(Types, Values) ==
  HelpersAgree(Types) /\ PartsAgree(Types) /\ RunAgrees(Types, Values)

LEMMA AllAgreeAlways ==
  ASSUME NEW Types, Closed(Types, Asked), NEW Values, Valued(Types, Values)
  PROVE  Spec => []AllAgree(Types, Values)
<1>1. Init => AllAgree(Types, Values)
  <2>1. Init => RunAgrees(Types, Values)
    BY DEF Init, RunAgrees
  <2> QED  BY <2>1, AgreeInitially, PartsInitially DEF AllAgree
<1>2. AllAgree(Types, Values) /\ [Next]_vars => AllAgree(Types, Values)'
  BY AgreeInductive, PartsInductive, RunInductive DEF AllAgree
<1> QED  BY <1>1, <1>2, PTL DEF Spec

(* The compiled `==` answers for any two values of any types that have     *)
(* their parts whether they are the same term without NaN, however deep    *)
(* the lists and enums are nested (equality.rs:195-562).                   *)
THEOREM AnswersAreEquality ==
  ASSUME NEW Types, Closed(Types, Asked), NEW Values, Valued(Types, Values)
  PROVE  Spec => []AnswersEquality
<1>1. AllAgree(Types, Values) => AnswersEquality
  <2> SUFFICES ASSUME AllAgree(Types, Values), pc = "answered"
               PROVE  answer = StructurallyEqual(Concrete(question[1]), question[2], question[3])
    BY DEF AnswersEquality
  <2>1. /\ answer \in BOOLEAN
        /\ answer <=> StructurallyEqual(Concrete(question[1]), question[2], question[3])
    BY DEF AllAgree, RunAgrees, TheQuestion
  <2>2. StructurallyEqual(Concrete(question[1]), question[2], question[3]) \in BOOLEAN
    BY DEF StructurallyEqual
  <2>3. PICK same \in BOOLEAN :
          same = StructurallyEqual(Concrete(question[1]), question[2], question[3])
    BY <2>2
  <2>4. answer <=> same
    BY <2>1, <2>3, Zenon
  <2>5. answer = same
    BY <2>1, <2>4
  <2> QED  BY <2>3, <2>5
<1> QED  BY <1>1, AllAgreeAlways, PTL

(* No head, tail or payload is loaded that a value does not have: the loop *)
(* stops at the end of either list, and the payloads compared are those of *)
(* one variant (equality.rs:264-273, 358-387).                             *)
THEOREM NothingNullIsLoaded ==
  ASSUME NEW Types, Closed(Types, Asked), NEW Values, Valued(Types, Values)
  PROVE  Spec => [](pc # "fault")
<1>1. AllAgree(Types, Values) => pc # "fault"
  BY DEF AllAgree, RunAgrees
<1> QED  BY <1>1, AllAgreeAlways, PTL
=============================================================================
