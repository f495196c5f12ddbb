------------------------ MODULE LoweringNamesProofs -------------------------
(***************************************************************************)
(* Proofs about the names Lowering gives and looks up: no symbol is given  *)
(* out twice, no instantiation is compiled twice, no function is left      *)
(* without a body; and in a program whose names do not clash, looking a    *)
(* name up is looking its binder up.                                       *)
(***************************************************************************)
EXTENDS LoweringProofs, FiniteSetTheorems

-----------------------------------------------------------------------------
(* The functions that are emitted                                          *)

Numbered == {"spec", "partial", "closure"}

(* A function f is begun: what becomes of the counters and the cache.      *)
BeginsValue(f) == f.kind = "val" /\ UNCHANGED <<ctr, specs>>

BeginsSpec(f) ==
  /\ f.kind = "spec" /\ f.n = ctr.spec /\ ctr' = SpecCounted
  /\ Key(f.of, f.ty, f.caps) \notin DOMAIN specs
  /\ specs' = Put(specs, Key(f.of, f.ty, f.caps), NextFn)

BeginsPartial(f) ==
  f.kind = "partial" /\ f.n = ctr.spec /\ ctr' = SpecCounted /\ UNCHANGED specs

BeginsClosure(f) ==
  /\ f.kind = "closure" /\ f.n = ctr.closure
  /\ ctr' = [ctr EXCEPT !.closure = @ + 1] /\ UNCHANGED specs

Begins(f) == /\ funcs' = Append(funcs, f)
             /\ \/ BeginsValue(f) \/ BeginsSpec(f)
                \/ BeginsPartial(f) \/ BeginsClosure(f)

BeginsNone == /\ UNCHANGED <<funcs, specs>>
              /\ ctr'.spec = ctr.spec /\ ctr'.closure = ctr.closure

Finishes(i) == funcs' = [funcs EXCEPT ![i].done = TRUE] /\ UNCHANGED <<ctr, specs>>

-----------------------------------------------------------------------------

(* Specializing begins a specialization or nothing. *)
LEMMA SpecializeBegins ==
  ASSUME NEW sym, NEW self, NEW ty, NEW caps, NEW cont,
         Specialize(sym, self, ty, caps, cont)
  PROVE  BeginsNone \/ \E f : Begins(f)
  <1> DEFINE key == Key(sym, ty, caps)
             f == Fn("spec", abstractions[sym], sym, ctr.spec, ty, caps)
  <1>1. key[1] = sym /\ key[2] = ty /\ key = Key(f.of, f.ty, f.caps)
        /\ f.kind = "spec" /\ f.n = ctr.spec
    BY DEF Key, Fn
  <1> HIDE DEF key
  <1>2. CASE ReuseSpecialization(key, cont)
    BY <1>2 DEF ReuseSpecialization, BeginsNone
  <1>3. CASE NewSpecialization(key, self, caps, cont)
    <2>1. /\ key \notin DOMAIN specs /\ specs' = Put(specs, key, NextFn)
          /\ funcs' = Append(funcs, f) /\ ctr' = SpecCounted
      BY <1>1, <1>3 DEF NewSpecialization, Cached, Enter
    <2> HIDE DEF f
    <2>2. BeginsSpec(f)
      BY <1>1, <2>1 DEF BeginsSpec
    <2>3. QED BY <2>1, <2>2 DEF Begins
  <1>4. QED BY <1>2, <1>3 DEF Specialize, key

(* A step begins a function, finishes one, or does neither. *)
LEMMA FunctionStep ==
  ASSUME Linked, [Next]_vars
  PROVE  BeginsNone \/ (\E f : Begins(f)) \/ (\E i : Finishes(i))
  <1>1. ASSUME NEW how, Fail(how) PROVE BeginsNone
    BY <1>1 DEF Fail, BeginsNone
  <1>2. CASE \/ UNCHANGED vars \/ DeclareLambda \/ DeclareInlineable \/ LowerExprStmt
             \/ EnterScope \/ LeaveScope \/ LetValue \/ BindValue \/ ReadLocal \/ Inline
    <2>1. UNCHANGED <<funcs, specs, ctr>>
      BY <1>2 DEF vars, DeclareLambda, DeclareInlineable, LowerExprStmt, EnterScope,
           LeaveScope, LetValue, BindValue, ReadLocal, Inline
    <2>2. QED BY <2>1 DEF BeginsNone
  <1>3. CASE ReadSymbol \/ ApplyValue
    BY <1>1, <1>3 DEF ReadSymbol, ApplyValue, BeginsNone
  <1>4. CASE DeclareValue
    <2> DEFINE b == prog.top[pc].b
               f == Fn("val", b, prog.name[b], 0, DefaultType, NoCaptures)
    <2>1. funcs' = Append(funcs, f) /\ f.kind = "val" /\ UNCHANGED <<ctr, specs>>
      BY <1>4 DEF DeclareValue, Fn
    <2>2. QED BY <2>1 DEF Begins, BeginsValue
  <1>5. CASE EmitEntry
    BY <1>5 DEF EmitEntry, Finishes
  <1>6. CASE Finish
    <2>1. CASE Top.fn = MainFn
      BY <1>6, <2>1 DEF Finish, BeginsNone
    <2>2. CASE Top.fn # MainFn
      BY <1>6, <2>2 DEF Finish, Finishes, Appended
    <2>3. QED BY <2>1, <2>2
  <1>7. ASSUME NEW cont, Specialize(CalleeOf(Top.env, NowName), NowName, NowType, NoCaptures, cont)
        PROVE  BeginsNone \/ \E f : Begins(f)
    BY <1>7, SpecializeBegins
  <1>8. CASE ReferenceLambda
    <2>1. PICK cont : Specialize(CalleeOf(Top.env, NowName), NowName, NowType, NoCaptures, cont)
                      \/ Fail("error")
      BY <1>8 DEF ReferenceLambda
    <2>2. CASE Fail("error")
      BY <1>1, <2>2
    <2>3. CASE ~Fail("error")
      BY <1>7, <2>1, <2>3
    <2>4. QED BY <2>2, <2>3
  <1>9. CASE PartialApply
    <2>1. PICK cont : Specialize(CalleeOf(Top.env, NowName), NowName, NowType, NoCaptures, cont)
                      \/ Fail("error")
      BY <1>9 DEF PartialApply
    <2>2. CASE Fail("error")
      BY <1>1, <2>2
    <2>3. CASE ~Fail("error")
      BY <1>7, <2>1, <2>3
    <2>4. QED BY <2>2, <2>3
  <1>10. CASE Call
    <2> DEFINE sym == CalleeOf(Top.env, NowName)
               caps == LambdaCaptures(abstractions[sym], NowName, Top.env)
               cont == Replace(Uses(Now.args))
    <2>1. Specialize(sym, NowName, NowType, caps, cont)
      BY <1>10 DEF Call
    <2> HIDE DEF sym, caps, cont
    <2>2. QED BY <2>1, SpecializeBegins
  <1>11. CASE CaptureLambda
    <2>1. PICK n, ty, cont : Specialize(Top.env[n].sym, n, ty, NoCaptures, cont)
      BY <1>11 DEF CaptureLambda
    <2>2. QED BY <2>1, SpecializeBegins
  <1>12. CASE Wrap
    <2> DEFINE f == Fn("partial", Now.b, funcs[Now.to].of, ctr.spec, NowType, NoCaptures)
    <2>1. CASE Len(Now.args) > Len(prog.params[Now.b])
      BY <1>1, <1>12, <2>1 DEF Wrap
    <2>2. CASE ~(Len(Now.args) > Len(prog.params[Now.b]))
      <3>1. funcs' = Append(funcs, f) /\ ctr' = SpecCounted /\ UNCHANGED specs
        BY <1>12, <2>2 DEF Wrap, Enter
      <3>2. f.kind = "partial" /\ f.n = ctr.spec
        BY DEF Fn
      <3>3. QED BY <3>1, <3>2 DEF Begins, BeginsPartial
    <2>3. QED BY <2>1, <2>2
  <1>13. CASE EmitClosure
    <2> DEFINE f == Fn("closure", Now.b, prog.name[Now.b], ctr.closure, Top.ty, NoCaptures)
    <2>1. funcs' = Append(funcs, f) /\ ctr' = [ctr EXCEPT !.closure = @ + 1] /\ UNCHANGED specs
      BY <1>13 DEF EmitClosure, Enter
    <2>2. f.kind = "closure" /\ f.n = ctr.closure
      BY DEF Fn
    <2>3. QED BY <2>1, <2>2 DEF Begins, BeginsClosure
  <1>14. CASE LetLambda
    BY <1>14 DEF LetLambda, BeginsNone, Linked
  <1>15. QED BY <1>2, <1>3, <1>4, <1>5, <1>6, <1>8, <1>9, <1>10, <1>11, <1>12, <1>13, <1>14 DEF Next

(* The functions there were keep all that names them, and one may be new.  *)
LEMMA FunctionsKept ==
  ASSUME Linked, [Next]_vars
  PROVE  /\ Len(funcs') \in {Len(funcs), Len(funcs) + 1} /\ Len(funcs) \in Nat
         /\ DOMAIN funcs = 1 .. Len(funcs) /\ DOMAIN funcs' = 1 .. Len(funcs')
         /\ \A i \in DOMAIN funcs :
              /\ funcs'[i].kind = funcs[i].kind /\ funcs'[i].n = funcs[i].n
              /\ funcs'[i].of = funcs[i].of /\ funcs'[i].ty = funcs[i].ty
              /\ funcs'[i].caps = funcs[i].caps /\ funcs'[i].b = funcs[i].b
  <1>1. funcs \in Seq(Fns) /\ Len(funcs) \in Nat /\ \A i \in DOMAIN funcs : funcs[i] \in Fns
    BY DEF Linked
  <1>2. CASE BeginsNone
    BY <1>1, <1>2 DEF BeginsNone
  <1>3. CASE \E f : Begins(f)
    BY <1>1, <1>3 DEF Begins
  <1>4. CASE \E i : Finishes(i)
    <2>1. PICK i : funcs' = [funcs EXCEPT ![i].done = TRUE]
      BY <1>4 DEF Finishes
    <2>2. \A j \in DOMAIN funcs :
              /\ funcs'[j].kind = funcs[j].kind /\ funcs'[j].n = funcs[j].n
              /\ funcs'[j].of = funcs[j].of /\ funcs'[j].ty = funcs[j].ty
              /\ funcs'[j].caps = funcs[j].caps /\ funcs'[j].b = funcs[j].b
      BY <1>1, <2>1 DEF Fns
    <2>3. Len(funcs') = Len(funcs) /\ DOMAIN funcs' = 1 .. Len(funcs')
      BY <1>1, <2>1, SeqExcept
    <2>4. QED BY <1>1, <2>2, <2>3
  <1>5. QED BY <1>2, <1>3, <1>4, FunctionStep

-----------------------------------------------------------------------------
(* Symbols *)

CounterOf(c, kind) == IF kind = "closure" THEN c.closure ELSE c.spec

(* A number given out is below its counter: what makes the next one new.   *)
NumbersTaken ==
  \A i \in DOMAIN funcs :
    funcs[i].kind \in Numbered => funcs[i].n < CounterOf(ctr, funcs[i].kind)

LEMMA NumbersInit == ASSUME Init PROVE NumbersTaken /\ SymbolsUnique
  <1>1. DOMAIN funcs = {1} /\ funcs[1].kind = "main"
    BY DEF Init
  <1>2. QED BY <1>1 DEF NumbersTaken, SymbolsUnique, Numbered

LEMMA NumbersStep ==
  ASSUME Linked, NumbersTaken, SymbolsUnique, [Next]_vars
  PROVE  NumbersTaken' /\ SymbolsUnique'
  <1>1. /\ Len(funcs') \in {Len(funcs), Len(funcs) + 1} /\ Len(funcs) \in Nat
        /\ DOMAIN funcs = 1 .. Len(funcs) /\ DOMAIN funcs' = 1 .. Len(funcs')
        /\ \A i \in DOMAIN funcs : /\ funcs'[i].kind = funcs[i].kind /\ funcs'[i].n = funcs[i].n
                                   /\ funcs[i].n \in Nat
    <2>1. \A i \in DOMAIN funcs : funcs[i].n \in Nat
      <3>1. \A i \in DOMAIN funcs : funcs[i] \in Fns
        BY DEF Linked
      <3>2. QED BY <3>1 DEF Fns
    <2>2. QED BY <2>1, FunctionsKept
  <1>2. ctr \in [spec : Nat, let : Nat, closure : Nat]
    BY DEF Linked
  (* a function begun takes the value of its counter, which moves on *)
  <1>3. CASE \E f : Begins(f)
    <2>1. PICK f : Begins(f)
      BY <1>3
    <2> DEFINE new == Len(funcs) + 1
    <2>2. DOMAIN funcs' = DOMAIN funcs \cup {new} /\ funcs'[new] = f /\ new \notin DOMAIN funcs
      BY <1>1, <2>1 DEF Begins, Linked
    <2>3. CounterOf(ctr', "spec") >= CounterOf(ctr, "spec")
          /\ CounterOf(ctr', "closure") >= CounterOf(ctr, "closure")
          /\ CounterOf(ctr, "spec") \in Nat /\ CounterOf(ctr, "closure") \in Nat
          /\ CounterOf(ctr', "spec") \in Nat /\ CounterOf(ctr', "closure") \in Nat
      BY <1>2, <2>1 DEF Begins, BeginsValue, BeginsSpec, BeginsPartial, BeginsClosure,
           SpecCounted, CounterOf
    <2>4. f.kind \in Numbered => /\ f.n = CounterOf(ctr, f.kind)
                                 /\ CounterOf(ctr', f.kind) = CounterOf(ctr, f.kind) + 1
      BY <1>2, <2>1 DEF Begins, BeginsValue, BeginsSpec, BeginsPartial, BeginsClosure,
           SpecCounted, CounterOf, Numbered
    <2>5. \A i \in DOMAIN funcs :
            funcs[i].kind \in Numbered => funcs'[i].n < CounterOf(ctr', funcs'[i].kind)
      <3>1. ASSUME NEW i \in DOMAIN funcs, funcs[i].kind \in Numbered
            PROVE  funcs'[i].n < CounterOf(ctr', funcs'[i].kind)
        <4>1. funcs[i].n < CounterOf(ctr, funcs[i].kind) /\ funcs[i].n \in Nat
          BY <1>1, <3>1 DEF NumbersTaken
        <4>2. CounterOf(ctr', funcs[i].kind) >= CounterOf(ctr, funcs[i].kind)
          BY <2>3 DEF CounterOf
        <4>3. CounterOf(ctr', funcs[i].kind) \in Nat /\ CounterOf(ctr, funcs[i].kind) \in Nat
          BY <2>3 DEF CounterOf
        <4>4. funcs'[i].n = funcs[i].n /\ funcs'[i].kind = funcs[i].kind
          BY <1>1
        <4>5. QED BY <4>1, <4>2, <4>3, <4>4
      <3>2. QED BY <3>1
    <2>6. NumbersTaken'
      <3>1. f.kind \in Numbered => f.n < CounterOf(ctr', f.kind)
        <4>1. CounterOf(ctr, f.kind) \in Nat
          BY <2>3 DEF CounterOf
        <4>2. QED BY <2>4, <4>1
      <3>2. QED BY <1>1, <2>2, <2>5, <3>1 DEF NumbersTaken
    <2>7. ASSUME NEW i \in DOMAIN funcs, funcs[i].kind = f.kind, f.kind \in Numbered
          PROVE  funcs[i].n # f.n
      <3>1. funcs[i].n < CounterOf(ctr, f.kind) /\ funcs[i].n \in Nat
        BY <1>1, <2>7 DEF NumbersTaken
      <3>2. QED BY <2>4, <2>7, <3>1
    <2>8. SymbolsUnique'
      BY <1>1, <2>2, <2>7 DEF SymbolsUnique, Numbered
    <2>9. QED BY <2>6, <2>8
  <1>4. CASE BeginsNone \/ \E i : Finishes(i)
    <2>1. Len(funcs') = Len(funcs) /\ ctr'.spec = ctr.spec /\ ctr'.closure = ctr.closure
      <3>1. CASE BeginsNone
        BY <3>1 DEF BeginsNone
      <3>2. CASE \E i : Finishes(i)
        BY <3>2, SeqExcept DEF Finishes, Linked
      <3>3. QED BY <1>4, <3>1, <3>2
    <2>2. QED BY <1>1, <2>1 DEF NumbersTaken, SymbolsUnique, CounterOf
  <1>5. QED BY <1>3, <1>4, FunctionStep

(* The symbols of specializations, of partial-application wrappers and of  *)
(* closures are all different, for every program and however specializing  *)
(* nests: each takes its number before its body takes any, from a counter  *)
(* that never goes back.                                                   *)
THEOREM SymbolsNeverReused == Spec => []SymbolsUnique
  <1>1. Init => NumbersTaken /\ SymbolsUnique
    BY NumbersInit
  <1>2. Linked /\ Linked' /\ NumbersTaken /\ SymbolsUnique /\ [Next]_vars
          => (NumbersTaken /\ SymbolsUnique)'
    BY NumbersStep
  <1>3. QED BY <1>1, <1>2, AlwaysLinked, PTL DEF Spec

-----------------------------------------------------------------------------
(* Instantiations *)

(* Every specialization is in the cache under its own instantiation: what  *)
(* makes one not in the cache new.                                         *)
KeyOf(f) == Key(f.of, f.ty, f.caps)

Holds(cache, f, i) == KeyOf(f) \in DOMAIN cache /\ cache[KeyOf(f)] = i

Recorded == \A i \in DOMAIN funcs : funcs[i].kind = "spec" => Holds(specs, funcs[i], i)

LEMMA RecordedInit == ASSUME Init PROVE Recorded
  <1>1. DOMAIN funcs = {1} /\ funcs[1].kind = "main"
    BY DEF Init
  <1>2. QED BY <1>1 DEF Recorded

LEMMA RecordedStep ==
  ASSUME Linked, Recorded, [Next]_vars
  PROVE  Recorded'
  <1>1. /\ DOMAIN funcs = 1 .. Len(funcs) /\ DOMAIN funcs' = 1 .. Len(funcs')
        /\ Len(funcs) \in Nat /\ Len(funcs') \in {Len(funcs), Len(funcs) + 1}
        /\ \A i \in DOMAIN funcs : /\ funcs'[i].kind = funcs[i].kind
                                   /\ KeyOf(funcs'[i]) = KeyOf(funcs[i])
    BY FunctionsKept DEF KeyOf
  <1>2. \A i \in DOMAIN funcs : funcs[i].kind = "spec" => Holds(specs, funcs[i], i)
    BY DEF Recorded
  <1>3. SUFFICES \A i \in DOMAIN funcs' : funcs'[i].kind = "spec" => Holds(specs', funcs'[i], i)
    BY DEF Recorded
  <1>4. CASE UNCHANGED specs /\ Len(funcs') = Len(funcs)
    BY <1>1, <1>2, <1>4 DEF Holds
  <1>5. CASE \E f : Begins(f)
    <2>1. PICK f : Begins(f)
      BY <1>5
    <2>2. DOMAIN funcs' = DOMAIN funcs \cup {NextFn} /\ funcs'[NextFn] = f
      BY <1>1, <2>1 DEF Begins, Linked, NextFn
    <2>3. CASE BeginsSpec(f)
      <3>1. KeyOf(f) \notin DOMAIN specs /\ specs' = Put(specs, KeyOf(f), NextFn)
        BY <2>3 DEF BeginsSpec, KeyOf
      <3>2. \A i \in DOMAIN funcs : funcs[i].kind = "spec" => Holds(specs', funcs'[i], i)
        BY <1>1, <1>2, <3>1 DEF Put, Holds
      <3>3. Holds(specs', f, NextFn)
        BY <3>1 DEF Put, Holds
      <3>4. QED BY <1>1, <2>2, <3>2, <3>3
    <2>4. CASE ~BeginsSpec(f)
      <3>1. f.kind # "spec" /\ UNCHANGED specs
        BY <2>1, <2>4 DEF Begins, BeginsValue, BeginsPartial, BeginsClosure
      <3>2. QED BY <1>1, <1>2, <2>2, <3>1 DEF Holds
    <2>5. QED BY <2>3, <2>4
  <1>6. CASE BeginsNone \/ \E i : Finishes(i)
    <2>1. UNCHANGED specs /\ Len(funcs') = Len(funcs)
      BY <1>6, SeqExcept DEF BeginsNone, Finishes, Linked
    <2>2. QED BY <1>4, <2>1
  <1>7. QED BY <1>5, <1>6, FunctionStep

(* specialize_binding compiles each instantiation of a registered lambda   *)
(* once, recursive and nested uses included: the key goes into the cache   *)
(* in the step that begins the function.                                   *)
THEOREM SpecializedAtMostOnce == Spec => []SpecializedOnce
  <1>1. Recorded => SpecializedOnce
    BY DEF Recorded, Holds, KeyOf, SpecializedOnce, Key
  <1>2. Init => Recorded
    BY RecordedInit
  <1>3. Linked /\ Recorded /\ [Next]_vars => Recorded'
    BY RecordedStep
  <1>4. QED BY <1>1, <1>2, <1>3, AlwaysLinked, PTL DEF Spec

-----------------------------------------------------------------------------
(* Bodies *)

Building == {stack[j].fn : j \in DOMAIN stack}

(* A function begun is finished or on the stack, but for the entry         *)
(* function, which is emitted last: what is left to do when the stack is   *)
(* empty is the entry function alone.                                      *)
NothingForgotten ==
  \A i \in DOMAIN funcs : funcs[i].done \/ i = MainFn \/ i \in Building

AllFinished == outcome = "ok" => \A i \in DOMAIN funcs : funcs[i].done

LEMMA ReplaceFn ==
  ASSUME Linked, stack # <<>>, NEW items
  PROVE  /\ Replace(items).fn = Top.fn
         /\ \A n, e : [Replace(items) EXCEPT !.env = Put(@, n, e)].fn = Top.fn
  <1>1. Top \in Frames
    BY TopParts
  <1> DEFINE todo == items \o Tail(Top.todo)
  <1>2. Replace(items) = [Top EXCEPT !.todo = todo]
    BY DEF Replace
  <1> HIDE DEF todo
  <1>3. QED BY <1>1, <1>2 DEF Frames

LEMMA ResumeBuilding ==
  ASSUME Linked, stack # <<>>, NEW frame, frame.fn = Top.fn, Resume(frame)
  PROVE  Building \subseteq Building'
  <1>1. DOMAIN stack = 1 .. Len(stack) /\ Len(stack) \in DOMAIN stack
    BY DEF Linked
  <1>2. stack' = [stack EXCEPT ![Len(stack)] = frame] /\ Top = stack[Len(stack)]
    BY DEF Resume, Top
  <1>3. DOMAIN stack' = DOMAIN stack /\ \A j \in DOMAIN stack : stack'[j].fn = stack[j].fn
    BY <1>1, <1>2
  <1>4. QED BY <1>3 DEF Building

(* Pushing a frame upon another that takes the last one's place. *)
LEMMA Pushed ==
  ASSUME NEW S, NEW s \in Seq(S), s # <<>>, NEW cont \in S, NEW frame \in S
  PROVE  LET t == Append([s EXCEPT ![Len(s)] = cont], frame) IN
         /\ DOMAIN t = 1 .. (Len(s) + 1)
         /\ t[Len(s) + 1] = frame
         /\ \A j \in 1 .. Len(s) : t[j] = IF j = Len(s) THEN cont ELSE s[j]
  <1> DEFINE r == [s EXCEPT ![Len(s)] = cont]
             t == Append(r, frame)
  <1>1. r \in Seq(S) /\ Len(r) = Len(s) /\ Len(s) \in Nat
    BY SeqExcept
  <1>2. \A j \in 1 .. Len(s) : r[j] = IF j = Len(s) THEN cont ELSE s[j]
    OBVIOUS
  <1> HIDE DEF r
  <1>3. /\ t \in Seq(S) /\ Len(t) = Len(s) + 1 /\ t[Len(s) + 1] = frame
        /\ \A j \in 1 .. Len(s) : t[j] = r[j]
    BY <1>1
  <1> HIDE DEF t
  <1>4. DOMAIN t = 1 .. (Len(s) + 1)
    BY <1>3
  <1>5. QED BY <1>2, <1>3, <1>4 DEF t, r

LEMMA PushBuilding ==
  ASSUME Linked, stack # <<>>, NEW cont, cont.fn = Top.fn, NEW frame,
         stack' = Append([stack EXCEPT ![Len(stack)] = cont], frame)
  PROVE  Building \cup {frame.fn} \subseteq Building'
  <1> DEFINE n == Len(stack)
             S == {stack[j] : j \in DOMAIN stack} \cup {cont, frame}
  <1>1. DOMAIN stack = 1 .. n /\ n \in Nat /\ Top = stack[n] /\ stack \in Seq(S)
    BY DEF Linked, Top
  <1>2. /\ DOMAIN stack' = 1 .. (n + 1)
        /\ stack'[n + 1] = frame
        /\ \A j \in 1 .. n : stack'[j] = IF j = n THEN cont ELSE stack[j]
    <2>1. cont \in S /\ frame \in S
      OBVIOUS
    <2>2. stack \in Seq(S) /\ stack # <<>>
      BY <1>1
    <2> HIDE DEF S, n
    <2>3. LET t == Append([stack EXCEPT ![Len(stack)] = cont], frame) IN
          /\ DOMAIN t = 1 .. (Len(stack) + 1)
          /\ t[Len(stack) + 1] = frame
          /\ \A j \in 1 .. Len(stack) : t[j] = IF j = Len(stack) THEN cont ELSE stack[j]
      BY ONLY <2>1, <2>2, Pushed
    <2>4. QED BY <2>3, Zenon DEF n
  <1> HIDE DEF n, S
  <1>3. \A j \in DOMAIN stack : j \in DOMAIN stack' /\ stack'[j].fn = stack[j].fn
    BY <1>1, <1>2
  <1>4. n + 1 \in DOMAIN stack' /\ stack'[n + 1].fn = frame.fn
    BY <1>1, <1>2
  <1>5. QED BY <1>3, <1>4 DEF Building

LEMMA EnterBuilding ==
  ASSUME Linked, stack # <<>>, NEW frame, frame.fn = NextFn, NEW cont, cont.fn = Top.fn,
         NEW f, Enter(f, frame, cont)
  PROVE  /\ funcs' = Append(funcs, f)
         /\ Building \cup {NextFn} \subseteq Building'
  BY PushBuilding DEF Enter

Kept == UNCHANGED funcs /\ Building \subseteq Building' \cup {MainFn}

Deeper == \E f : funcs' = Append(funcs, f) /\ Building \cup {NextFn} \subseteq Building'

Shallower == \E i : funcs' = [funcs EXCEPT ![i].done = TRUE] /\ Building \subseteq Building' \cup {i}

LEMMA ReplacedKept ==
  ASSUME Linked, stack # <<>>, NEW items, Resume(Replace(items)), UNCHANGED funcs
  PROVE  Kept
  BY ReplaceFn, ResumeBuilding DEF Kept

LEMMA SpecializeBuilding ==
  ASSUME Linked, stack # <<>>, NEW sym, NEW self, NEW ty, NEW caps, NEW items,
         Specialize(sym, self, ty, caps, Replace(items))
  PROVE  Kept \/ Deeper
  <1> DEFINE key == Key(sym, ty, caps)
             cont == Replace(items)
  <1>1. cont.fn = Top.fn
    BY ReplaceFn
  <1> HIDE DEF key, cont
  <1>2. CASE ReuseSpecialization(key, cont)
    BY <1>1, <1>2, ResumeBuilding DEF ReuseSpecialization, Kept
  <1>3. CASE NewSpecialization(key, self, caps, cont)
    <2>1. PICK f, ty2, env, todo : Enter(f, Frame(NextFn, ty2, env, todo), cont)
      BY <1>3 DEF NewSpecialization
    <2>2. Frame(NextFn, ty2, env, todo).fn = NextFn
      BY DEF Frame
    <2>3. QED BY <1>1, <2>1, <2>2, EnterBuilding DEF Deeper
  <1>4. QED BY <1>2, <1>3 DEF Specialize, key, cont

(* The last frame leaves when its function is finished. *)
LEMMA PopBuilding ==
  ASSUME Linked, Done, stack' = SubSeq(stack, 1, Len(stack) - 1)
  PROVE  Building \subseteq Building' \cup {Top.fn}
  <1>1. /\ DOMAIN stack = 1 .. Len(stack) /\ Len(stack) \in Nat /\ Len(stack) # 0
        /\ Top = stack[Len(stack)]
    BY DEF Linked, Done, Top
  <1>2. /\ DOMAIN stack' = 1 .. (Len(stack) - 1)
        /\ \A j \in 1 .. (Len(stack) - 1) : stack'[j] = stack[j]
    BY <1>1
  <1>3. \A j \in DOMAIN stack : j = Len(stack) \/ (j \in DOMAIN stack' /\ stack'[j] = stack[j])
    BY <1>1, <1>2
  <1>4. QED BY <1>1, <1>3 DEF Building

LEMMA BuildingStep ==
  ASSUME Linked, [Next]_vars
  PROVE  Kept \/ Deeper \/ Shallower
  <1>1. ASSUME NEW how, Fail(how) PROVE Kept
    BY <1>1 DEF Fail, Kept, Building
  <1>2. CASE UNCHANGED vars \/ DeclareLambda \/ DeclareInlineable
    BY <1>2 DEF vars, DeclareLambda, DeclareInlineable, Kept, Building
  <1>3. CASE LowerExprStmt
    <2>1. UNCHANGED funcs /\ Building = {}
      BY <1>3 DEF LowerExprStmt, AtStmt, Building
    <2>2. QED BY <2>1 DEF Kept
  <1>4. CASE DeclareValue
    <2> DEFINE b == prog.top[pc].b
               f == Fn("val", b, prog.name[b], 0, DefaultType, NoCaptures)
               frame == Frame(NextFn, DefaultType, EmptyEnv, prog.body[b])
    <2>1. Building = {} /\ funcs' = Append(funcs, f) /\ stack' = <<frame>>
      BY <1>4 DEF DeclareValue, AtStmt, Building
    <2>2. frame.fn = NextFn
      BY DEF Frame
    <2> HIDE DEF f, frame
    <2>3. NextFn \in Building'
      <3>1. 1 \in DOMAIN stack' /\ stack'[1].fn = NextFn
        BY <2>1, <2>2
      <3>2. QED BY <3>1 DEF Building
    <2>4. QED BY <2>1, <2>3 DEF Deeper
  <1>5. CASE EmitEntry
    BY <1>5 DEF EmitEntry, AtStmt, Building, Shallower
  <1>6. CASE Finish
    <2>1. CASE Top.fn = MainFn
      BY <1>6, <2>1, PopBuilding DEF Finish, Kept
    <2>2. CASE Top.fn # MainFn
      BY <1>6, <2>2, PopBuilding DEF Finish, Shallower, Appended
    <2>3. QED BY <2>1, <2>2
  <1>7. CASE LetValue \/ ReadLocal \/ Inline
    BY <1>7, ReplacedKept DEF LetValue, ReadLocal, Inline, At
  <1>8. CASE BindValue
    <2>1. PICK n, e : Resume([Replace(<<>>) EXCEPT !.env = Put(@, n, e)])
      BY <1>8 DEF BindValue
    <2>2. stack # <<>> /\ UNCHANGED funcs
      BY <1>8 DEF BindValue, At
    <2>3. [Replace(<<>>) EXCEPT !.env = Put(@, n, e)].fn = Top.fn
      BY <2>2, ReplaceFn
    <2>4. QED BY <2>1, <2>2, <2>3, ResumeBuilding DEF Kept
  <1>9. CASE LetLambda
    <2>1. PICK n, e : Resume([Replace(<<>>) EXCEPT !.env = Put(@, n, e)])
      BY <1>9 DEF LetLambda
    <2>2. stack # <<>> /\ UNCHANGED funcs
      BY <1>9 DEF LetLambda, At
    <2>3. [Replace(<<>>) EXCEPT !.env = Put(@, n, e)].fn = Top.fn
      BY <2>2, ReplaceFn
    <2>4. QED BY <2>1, <2>2, <2>3, ResumeBuilding DEF Kept
  <1>10. CASE ReferenceLambda
    <2>1. CASE Fail("error")
      BY <1>1, <2>1
    <2>2. CASE ~Fail("error")
      <3>1. stack # <<>>
            /\ Specialize(CalleeOf(Top.env, NowName), NowName, NowType, NoCaptures, Replace(<<>>))
        BY <1>10, <2>2 DEF ReferenceLambda, At
      <3>2. QED BY <3>1, SpecializeBuilding
    <2>3. QED BY <2>1, <2>2
  <1>11. CASE PartialApply
    <2>1. CASE Fail("error")
      BY <1>1, <2>1
    <2>2. CASE ~Fail("error")
      <3>1. stack # <<>> /\ \E items :
              Specialize(CalleeOf(Top.env, NowName), NowName, NowType, NoCaptures, Replace(items))
        BY <1>11, <2>2 DEF PartialApply, AtKnown, At
      <3>2. QED BY <3>1, SpecializeBuilding
    <2>3. QED BY <2>1, <2>2
  <1>12. CASE ReadSymbol
    BY <1>1, <1>12, ReplacedKept DEF ReadSymbol, At
  <1>13. CASE Call
    <2> DEFINE sym == CalleeOf(Top.env, NowName)
               caps == LambdaCaptures(abstractions[sym], NowName, Top.env)
               items == Uses(Now.args)
    <2>1. stack # <<>> /\ Specialize(sym, NowName, NowType, caps, Replace(items))
      BY <1>13 DEF Call, AtKnown, At
    <2> HIDE DEF sym, caps, items
    <2>2. QED BY <2>1, SpecializeBuilding
  <1>14. CASE CaptureLambda
    <2>1. PICK n, ty, items : Specialize(Top.env[n].sym, n, ty, NoCaptures, Replace(items))
      BY <1>14 DEF CaptureLambda
    <2>2. stack # <<>>
      BY <1>14 DEF CaptureLambda, At
    <2>3. QED BY <2>1, <2>2, SpecializeBuilding
  <1>15. CASE ApplyValue
    <2>1. CASE Fail("error")
      BY <1>1, <2>1
    <2>2. CASE ~Fail("error")
      <3>1. stack # <<>> /\ UNCHANGED funcs /\ \E items : Resume(Replace(items))
        BY <1>15, <2>2 DEF ApplyValue, At
      <3>2. QED BY <3>1, ReplacedKept
    <2>3. QED BY <2>1, <2>2
  <1>16. CASE Wrap
    <2>1. CASE Fail("panic")
      BY <1>1, <2>1
    <2>2. CASE ~Fail("panic")
      <3>1. stack # <<>> /\ \E f, ty, env, todo :
              Enter(f, Frame(NextFn, ty, env, todo), Replace(<<>>))
        BY <1>16, <2>2 DEF Wrap, At
      <3>2. PICK f, ty, env, todo : Enter(f, Frame(NextFn, ty, env, todo), Replace(<<>>))
        BY <3>1
      <3>3. Frame(NextFn, ty, env, todo).fn = NextFn /\ Replace(<<>>).fn = Top.fn
        BY <3>1, ReplaceFn DEF Frame
      <3>4. QED BY <3>1, <3>2, <3>3, EnterBuilding DEF Deeper
    <2>3. QED BY <2>1, <2>2
  <1>17. CASE EmitClosure
    <2>1. stack # <<>> /\ \E f, ty, env, todo :
            Enter(f, Frame(NextFn, ty, env, todo), Replace(<<>>))
      BY <1>17 DEF EmitClosure, At
    <2>2. PICK f, ty, env, todo : Enter(f, Frame(NextFn, ty, env, todo), Replace(<<>>))
      BY <2>1
    <2>3. Frame(NextFn, ty, env, todo).fn = NextFn /\ Replace(<<>>).fn = Top.fn
      BY <2>1, ReplaceFn DEF Frame
    <2>4. QED BY <2>1, <2>2, <2>3, EnterBuilding DEF Deeper
  <1>18. CASE EnterScope
    <2>1. PICK frame : stack' = Append([stack EXCEPT ![Len(stack)] = Replace(<<>>)], frame)
      BY <1>18 DEF EnterScope
    <2>2. stack # <<>> /\ UNCHANGED funcs /\ Replace(<<>>).fn = Top.fn
      BY <1>18, ReplaceFn DEF EnterScope, At
    <2>3. Building \subseteq Building'
      BY <2>1, <2>2, PushBuilding
    <2>4. QED BY <2>2, <2>3 DEF Kept
  <1>19. CASE LeaveScope
    <2>1. Building \subseteq Building' \cup {Top.fn} /\ UNCHANGED funcs
      BY <1>19, PopBuilding DEF LeaveScope
    <2>2. Top.fn \in Building'
      <3>1. stack' = SubSeq(stack, 1, Len(stack) - 1) /\ Len(stack) > 1
            /\ stack[Len(stack) - 1].fn = Top.fn
        BY <1>19 DEF LeaveScope, InScope
      <3>2. Len(stack) - 1 \in DOMAIN stack' /\ stack'[Len(stack) - 1] = stack[Len(stack) - 1]
        BY <3>1 DEF Linked
      <3>3. QED BY <3>1, <3>2 DEF Building
    <2>3. QED BY <2>1, <2>2 DEF Kept
  <1>20. QED BY <1>2, <1>3, <1>4, <1>5, <1>6, <1>7, <1>8, <1>9, <1>10, <1>11, <1>12,
               <1>13, <1>14, <1>15, <1>16, <1>17, <1>18, <1>19 DEF Next

(* "ok" comes from emitting the entry function, after which nothing        *)
(* happens.                                                                *)
LEMMA OutcomeStep ==
  ASSUME [Next]_vars
  PROVE  outcome' = "ok" => EmitEntry \/ UNCHANGED vars
  <1>1. ASSUME NEW how, Fail(how), how # "ok" PROVE outcome' # "ok"
    BY <1>1 DEF Fail
  <1>2. CASE \/ DeclareLambda \/ DeclareInlineable \/ DeclareValue \/ LowerExprStmt
             \/ Finish \/ EnterScope \/ LeaveScope \/ LetValue \/ BindValue \/ LetLambda \/ ReadLocal \/ Inline
    BY <1>2 DEF DeclareLambda, DeclareInlineable, DeclareValue, LowerExprStmt, Finish,
         EnterScope, LeaveScope, Done, LetValue, BindValue, LetLambda, ReadLocal, Inline,
         AtStmt, At
  <1>3. CASE ReferenceLambda
    BY <1>1, <1>3 DEF ReferenceLambda, At
  <1>4. CASE ReadSymbol
    BY <1>1, <1>4 DEF ReadSymbol, At
  <1>5. CASE Call
    BY <1>5 DEF Call, AtKnown, At
  <1>6. CASE PartialApply
    BY <1>1, <1>6 DEF PartialApply, AtKnown, At
  <1>7. CASE Wrap
    BY <1>1, <1>7 DEF Wrap, At
  <1>8. CASE ApplyValue
    BY <1>1, <1>8 DEF ApplyValue, At
  <1>9. CASE CaptureLambda \/ EmitClosure
    BY <1>9 DEF CaptureLambda, EmitClosure, At
  <1>10. QED BY <1>2, <1>3, <1>4, <1>5, <1>6, <1>7, <1>8, <1>9 DEF Next

LEMMA FinishedStep ==
  ASSUME Linked, NothingForgotten, AllFinished, [Next]_vars
  PROVE  NothingForgotten' /\ AllFinished'
  <1>1. funcs \in Seq(Fns) /\ Len(funcs) \in Nat /\ DOMAIN funcs = 1 .. Len(funcs)
        /\ \A i \in DOMAIN funcs : funcs[i] \in Fns
    BY DEF Linked
  <1>2. NothingForgotten'
    <2>1. CASE Kept
      BY <2>1 DEF Kept, NothingForgotten
    <2>2. CASE Deeper
      <3>1. PICK f : funcs' = Append(funcs, f) /\ Building \cup {NextFn} \subseteq Building'
        BY <2>2 DEF Deeper
      <3>2. DOMAIN funcs' = DOMAIN funcs \cup {NextFn}
            /\ \A i \in DOMAIN funcs : funcs'[i] = funcs[i]
        BY <1>1, <3>1 DEF NextFn
      <3>3. QED BY <3>1, <3>2 DEF NothingForgotten
    <2>3. CASE Shallower
      <3>1. PICK i : funcs' = [funcs EXCEPT ![i].done = TRUE]
                     /\ Building \subseteq Building' \cup {i}
        BY <2>3 DEF Shallower
      <3>2. DOMAIN funcs' = DOMAIN funcs
            /\ \A j \in DOMAIN funcs : funcs'[j].done = (funcs[j].done \/ j = i)
        BY <1>1, <3>1 DEF Fns
      <3>3. QED BY <3>1, <3>2 DEF NothingForgotten
    <2>4. QED BY <2>1, <2>2, <2>3, BuildingStep
  <1>3. AllFinished'
    <2>1. CASE EmitEntry
      <3>1. stack = <<>> /\ funcs' = [funcs EXCEPT ![MainFn].done = TRUE]
        BY <2>1 DEF EmitEntry
      <3>2. \A i \in DOMAIN funcs : funcs[i].done \/ i = MainFn
        BY <3>1 DEF NothingForgotten, Building
      <3>3. \A i \in DOMAIN funcs' : funcs'[i].done
        BY <1>1, <3>1, <3>2 DEF Fns
      <3>4. QED BY <3>3 DEF AllFinished
    <2>2. CASE UNCHANGED vars
      BY <2>2 DEF vars, AllFinished
    <2>3. CASE outcome' # "ok"
      BY <2>3 DEF AllFinished
    <2>4. QED BY <2>1, <2>2, <2>3, OutcomeStep
  <1>4. QED BY <1>2, <1>3

(* A module handed on has no function without a body and no reference to a *)
(* function that was never begun, for every program and whatever order     *)
(* specializing, closing over and wrapping nest in.                        *)
THEOREM ModulesAreClosed == Spec => []ModuleClosed
  <1>1. Init => NothingForgotten /\ AllFinished
    <2>1. ASSUME Init PROVE DOMAIN funcs = {MainFn} /\ outcome = "running"
      BY <2>1 DEF Init, MainFn
    <2>2. QED BY <2>1 DEF NothingForgotten, AllFinished
  <1>2. Linked /\ NothingForgotten /\ AllFinished /\ [Next]_vars
          => (NothingForgotten /\ AllFinished)'
    BY FinishedStep
  <1>3. Linked /\ AllFinished => ModuleClosed
    <2>1. ASSUME Linked PROVE \A r \in refs : r.to \in {BuiltinFn} \cup DOMAIN funcs
      <3>1. funcs \in Seq(Fns) /\ \A r \in refs : r.to \in 0 .. Len(funcs)
        BY <2>1 DEF Linked, GoodRefs
      <3>2. QED BY <3>1 DEF BuiltinFn
    <2>2. QED BY <2>1 DEF AllFinished, ModuleClosed
  <1>4. QED BY <1>1, <1>2, <1>3, AlwaysLinked, PTL DEF Spec

-----------------------------------------------------------------------------
(* The scopes of names                                                     *)


(* The identifiers format!("let_{n}") has made for n < k. *)
Generated(k) == {LetName[i] : i \in DOMAIN LetName \cap 1 .. k}

(* The frames in which a name leads to the binder of that name: the        *)
(* binder of an entry, the lambda registered under the symbol of one, the  *)
(* function to be wrapped.                                                 *)
NamedFrames(p, lambdas, fns) ==
  {fr \in Frames :
     /\ \A n \in DOMAIN fr.env :
          /\ p.name[fr.env[n].b] = n
          /\ fr.env[n].kind = "abs" => /\ fr.env[n].sym \in DOMAIN lambdas
                                       /\ lambdas[fr.env[n].sym] = fr.env[n].b
     /\ \A k \in DOMAIN fr.todo : fr.todo[k].op = "wrap" =>
          /\ fr.todo[k].to \in DOMAIN fns /\ fns[fr.todo[k].to].b = fr.todo[k].f}

(* A registry holds binders under their own names; a lambda may also be    *)
(* under a generated one.  A cached instantiation is one of the lambda     *)
(* registered.                                                             *)
NamedLambdas == \A n \in DOMAIN abstractions :
                  n \in Generated(ctr.let) \/ prog.name[abstractions[n]] = n

NamedSymbols == \A n \in DOMAIN symbols : prog.name[symbols[n].b] = n

NamedValues == \A i \in DOMAIN funcs :
                 funcs[i].kind = "val" => funcs[i].of = prog.name[funcs[i].b]

CachedLambdas == \A key \in DOMAIN specs :
                   /\ key[1] \in DOMAIN abstractions
                   /\ funcs[specs[key]].b = abstractions[key[1]]

NamedStack == stack \in Seq(NamedFrames(prog, abstractions, funcs))

Named == NamedLambdas /\ NamedSymbols /\ NamedValues /\ CachedLambdas /\ NamedStack
           /\ LexicalResolution

-----------------------------------------------------------------------------
(* Frames *)

(* More lambdas and more functions leave a named frame named. *)
LEMMA NamedFramesGrow ==
  ASSUME NEW p, NEW l, NEW m, NEW f, NEW g,
         \A n \in DOMAIN l : n \in DOMAIN m /\ m[n] = l[n],
         \A i \in DOMAIN f : i \in DOMAIN g /\ g[i].b = f[i].b
  PROVE  NamedFrames(p, l, f) \subseteq NamedFrames(p, m, g)
  BY DEF NamedFrames

(* The names of the frame on top. *)
LEMMA TopNamed ==
  ASSUME Named, stack # <<>>
  PROVE  /\ Top \in NamedFrames(prog, abstractions, funcs)
         /\ \A n \in DOMAIN Top.env :
              /\ prog.name[Top.env[n].b] = n
              /\ Top.env[n].kind = "abs" => /\ Top.env[n].sym \in DOMAIN abstractions
                                            /\ abstractions[Top.env[n].sym] = Top.env[n].b
  <1>1. Top \in NamedFrames(prog, abstractions, funcs)
    BY LastElement DEF Named, NamedStack, Top
  <1>2. QED BY <1>1 DEF NamedFrames

(* Items put in front of what is left of the top frame. *)
LEMMA ReplaceNamed ==
  ASSUME Linked, Named, stack # <<>>, Top.todo # <<>>, NEW items \in Seq(Item), NEW fns,
         \A i \in DOMAIN funcs : i \in DOMAIN fns /\ fns[i].b = funcs[i].b,
         \A k \in DOMAIN items : items[k].op = "wrap" =>
           items[k].to \in DOMAIN fns /\ fns[items[k].to].b = items[k].f
  PROVE  Replace(items) \in NamedFrames(prog, abstractions, fns)
  <1> DEFINE good(s) == \A k \in DOMAIN s : s[k].op = "wrap" =>
                           s[k].to \in DOMAIN fns /\ fns[s[k].to].b = s[k].f
             rest == Tail(Top.todo)
  <1>1. Top \in NamedFrames(prog, abstractions, fns)
    <2>1. NamedFrames(prog, abstractions, funcs) \subseteq NamedFrames(prog, abstractions, fns)
      BY NamedFramesGrow
    <2>2. QED BY <2>1, TopNamed
  <1>2. good(Top.todo)
    BY <1>1 DEF NamedFrames
  <1>3. rest \in Seq(Item) /\ Top.todo \in Seq(Item)
    BY TopParts, NowParts
  <1>4. good(rest)
    <2>1. \A k \in DOMAIN rest : k + 1 \in DOMAIN Top.todo /\ rest[k] = Top.todo[k + 1]
      BY <1>3
    <2> HIDE DEF rest
    <2>2. QED BY <1>2, <2>1
  <1> DEFINE todo == items \o rest
  <1>5. /\ Replace(items) \in Frames /\ Replace(items).env = Top.env
        /\ Replace(items).todo = todo
    BY ReplaceKind
  <1> HIDE DEF rest
  <1>6. good(todo)
    <2>1. TAKE k \in DOMAIN todo
    <2>2. CASE k \in DOMAIN items
      <3>1. todo[k] = items[k]
        BY <1>3, <2>2
      <3>2. QED BY <2>2, <3>1
    <2>3. CASE k \notin DOMAIN items
      <3>1. k - Len(items) \in DOMAIN rest /\ todo[k] = rest[k - Len(items)]
        BY <1>3, <2>3
      <3>2. QED BY <1>4, <3>1
    <2>4. QED BY <2>2, <2>3
  <1> HIDE DEF todo
  <1>7. QED BY <1>1, <1>5, <1>6 DEF NamedFrames

(* Items none of which is to be wrapped. *)
LEMMA CarryOnNamed ==
  ASSUME Linked, Named, stack # <<>>, Top.todo # <<>>, NEW items \in Seq(Item), NEW fns,
         \A i \in DOMAIN funcs : i \in DOMAIN fns /\ fns[i].b = funcs[i].b,
         \A k \in DOMAIN items : items[k].op # "wrap"
  PROVE  Replace(items) \in NamedFrames(prog, abstractions, fns)
  BY ReplaceNamed

(* A new frame whose environment is named and whose items are a body's. *)
LEMMA NewFrameNamed ==
  ASSUME NEW p, NEW l, NEW f, NEW fn \in Nat, NEW ty \in Types, NEW env \in FromNames(Entry),
         NEW todo \in Seq(Item), \A k \in DOMAIN todo : todo[k].op # "wrap",
         \A n \in DOMAIN env :
           /\ p.name[env[n].b] = n
           /\ env[n].kind = "abs" => env[n].sym \in DOMAIN l /\ l[env[n].sym] = env[n].b
  PROVE  Frame(fn, ty, env, todo) \in NamedFrames(p, l, f)
  BY DEF Frame, NamedFrames, Frames

(* The functions begun are still what they were compiled from. *)
LEMMA BindersKept ==
  ASSUME Linked, [Next]_vars
  PROVE  \A i \in DOMAIN funcs : i \in DOMAIN funcs' /\ funcs'[i].b = funcs[i].b
  BY FunctionsKept

-----------------------------------------------------------------------------
(* Names *)

(* No generated name is that of a binder. *)
LEMMA NotGenerated ==
  ASSUME NamesDistinct(prog), NEW b \in Binder, NEW k
  PROVE  prog.name[b] \notin Generated(k)
  BY DEF NamesDistinct, Generated

(* The next generated name has not been registered. *)
LEMMA LetSymbolFresh ==
  ASSUME Linked, Named, NamesDistinct(prog), ctr.let < Len(LetName)
  PROVE  /\ LetSymbol \notin DOMAIN abstractions
         /\ LetSymbol \notin Generated(ctr.let) /\ LetSymbol \in Generated(ctr.let + 1)
         /\ Generated(ctr.let) \subseteq Generated(ctr.let + 1)
  <1>1. /\ ctr.let \in Nat /\ LetName \in Seq(Name)
        /\ \A i, j \in DOMAIN LetName : LetName[i] = LetName[j] => i = j
    BY ConstantAssumption DEF Linked
  <1>2. ctr.let + 1 \in DOMAIN LetName /\ LetSymbol = LetName[ctr.let + 1]
    BY <1>1 DEF LetSymbol
  <1>3. LetSymbol \notin Generated(ctr.let)
    BY <1>1, <1>2 DEF Generated
  <1>4. LetSymbol \in Generated(ctr.let + 1) /\ Generated(ctr.let) \subseteq Generated(ctr.let + 1)
    BY <1>1, <1>2 DEF Generated
  <1>5. ASSUME LetSymbol \in DOMAIN abstractions PROVE FALSE
    <2>1. prog.name[abstractions[LetSymbol]] = LetSymbol
      BY <1>3, <1>5 DEF Named, NamedLambdas
    <2>2. abstractions[LetSymbol] \in Binder
      BY <1>5, FromNamesDef DEF Linked
    <2>3. QED BY <1>2, <2>1, <2>2 DEF NamesDistinct
  <1>6. QED BY <1>3, <1>4, <1>5

(* A registered lambda that goes by a name of the source is the binder of  *)
(* that name.                                                              *)
LEMMA RegisteredBinder ==
  ASSUME Linked, Named, NamesDistinct(prog), NEW b \in Binder,
         prog.name[b] \in DOMAIN abstractions
  PROVE  abstractions[prog.name[b]] = b
  <1>1. prog.name[b] \notin Generated(ctr.let)
    BY NotGenerated
  <1>2. prog.name[abstractions[prog.name[b]]] = prog.name[b]
    BY <1>1 DEF Named, NamedLambdas
  <1>3. abstractions[prog.name[b]] \in Binder
    BY FromNamesDef DEF Linked
  <1>4. QED BY <1>2, <1>3 DEF NamesDistinct

(* An entry of the environment is that of the binder of its name. *)
LEMMA LocalBinder ==
  ASSUME Linked, Named, NamesDistinct(prog), stack # <<>>, NEW b \in Binder,
         prog.name[b] \in DOMAIN Top.env
  PROVE  Top.env[prog.name[b]].b = b
  <1>1. prog.name[Top.env[prog.name[b]].b] = prog.name[b]
    BY TopNamed
  <1>2. Top.env[prog.name[b]].b \in Binder
    <2>1. Top.env \in FromNames(Entry)
      BY TopParts
    <2>2. Top.env[prog.name[b]] \in Entry
      BY <2>1, FromNamesDef
    <2>3. QED BY <2>2 DEF Entry
  <1>3. QED BY <1>1, <1>2 DEF NamesDistinct

(* What is called is the lambda the use names. *)
LEMMA CalleeNamed ==
  ASSUME Linked, Named, NamesDistinct(prog), At("use"),
         \/ ReferencesLambda(Top.env, NowName)
         \/ CalleeOf(Top.env, NowName) \in DOMAIN abstractions
  PROVE  abstractions[CalleeOf(Top.env, NowName)] = Now.f
  <1>1. stack # <<>> /\ Now.f \in Binder /\ NowName = prog.name[Now.f]
    BY AtParts DEF NowName
  <1>2. CASE IsLambda(Top.env, NowName)
    <2>1. NowName \in DOMAIN Top.env /\ Top.env[NowName].kind = "abs"
          /\ CalleeOf(Top.env, NowName) = Top.env[NowName].sym
      BY <1>2 DEF IsLambda, CalleeOf
    <2>2. abstractions[Top.env[NowName].sym] = Top.env[NowName].b
      BY <1>1, <2>1, TopNamed
    <2>3. QED BY <1>1, <2>1, <2>2, LocalBinder
  <1>3. CASE ~IsLambda(Top.env, NowName)
    <2>1. CalleeOf(Top.env, NowName) = NowName /\ NowName \in DOMAIN abstractions
      BY <1>3 DEF CalleeOf, ReferencesLambda
    <2>2. QED BY <1>1, <2>1, RegisteredBinder
  <1>4. QED BY <1>2, <1>3

-----------------------------------------------------------------------------
(* Steps *)

(* A step within a statement that leaves the registries alone. *)
LEMMA NamedWithin ==
  ASSUME Linked, Named, [Next]_vars, UNCHANGED <<prog, registries>>, ctr'.let = ctr.let,
         \A i \in DOMAIN funcs' \ DOMAIN funcs : funcs'[i].kind # "val",
         CachedLambdas', NamedStack',
         \A r \in refs' : r \in refs \/ r.got = r.use
  PROVE  Named'
  <1>1. NamedLambdas' /\ NamedSymbols'
    BY DEF Named, NamedLambdas, NamedSymbols, registries
  <1>2. NamedValues'
    BY FunctionsKept DEF Named, NamedValues
  <1>3. LexicalResolution'
    BY DEF Named, LexicalResolution
  <1>4. QED BY <1>1, <1>2, <1>3 DEF Named

(* The cache stays right while nothing is added to it. *)
LEMMA CacheKept ==
  ASSUME Linked, Named, [Next]_vars, UNCHANGED <<abstractions, specs>>
  PROVE  CachedLambdas'
  <1>1. \A key \in DOMAIN specs : specs[key] \in DOMAIN funcs
    BY FunctionsKept DEF Linked
  <1>2. QED BY <1>1, FunctionsKept DEF Named, CachedLambdas

(* A step that begins no function. *)
LEMMA NamedQuiet ==
  ASSUME Linked, Named, [Next]_vars, UNCHANGED <<prog, registries, specs, ctr, funcs>>,
         NamedStack', \A r \in refs' : r \in refs \/ r.got = r.use
  PROVE  Named'
  <1>1. CachedLambdas'
    BY CacheKept DEF registries
  <1>2. QED BY <1>1, NamedWithin

LEMMA FailNamed ==
  ASSUME Linked, Named, [Next]_vars, NEW how, Fail(how)
  PROVE  Named'
  BY DEF Fail, registries, Named, NamedLambdas, NamedSymbols, NamedValues, CachedLambdas,
         NamedStack, LexicalResolution

(* A value read, a name inlined, a value applied: the item becomes uses. *)
Unfolds == \E items \in Seq(Item) : /\ \A k \in DOMAIN items : items[k].op = "use"
                                    /\ Resume(Replace(items))

LEMMA InlineUnfolds == ASSUME Linked, Inline PROVE Unfolds
  <1> DEFINE it == prog.body[inlineable[NowName]][1]
             rhs == Declared(it)
             args == [i \in DOMAIN rhs.args |-> Declared(rhs.args[i])]
             all == args \o Now.args
             item == [rhs EXCEPT !.args = all]
             items == <<item>>
  <1>1. At("use") /\ NowName \in DOMAIN inlineable /\ Resume(Replace(items))
    BY DEF Inline
  <1>2. it \in Item /\ it.op = "use"
    <2>1. inlineable[NowName] \in Binder /\ prog.body[inlineable[NowName]] # <<>>
          /\ it.op = "use"
      BY <1>1, FromNamesDef, SMTT(30) DEF Linked
    <2>2. prog.body[inlineable[NowName]] \in Seq(Item)
      BY <2>1, BodyItems DEF Linked
    <2>3. QED BY <2>1, <2>2
  <1> HIDE DEF it
  <1>3. rhs \in Item /\ rhs.op = "use"
    BY <1>2, ConstantAssumption DEF Declared, Item
  <1> HIDE DEF rhs
  <1>4. all \in Seq(Arg)
    <2>1. rhs.args \in Seq(Arg) /\ \A a \in Arg : Declared(a) \in Arg
      BY <1>3, ConstantAssumption DEF Item, Declared, Arg
    <2>2. args \in Seq(Arg)
      <3>1. \A i \in DOMAIN rhs.args : rhs.args[i] \in Arg
        BY <2>1
      <3>2. QED BY <2>1, <3>1
    <2> HIDE DEF args
    <2>3. QED BY <1>1, <2>2, AtParts
  <1> HIDE DEF all
  <1>5. item \in Item /\ item.op = "use"
    BY <1>3, <1>4 DEF Item
  <1> HIDE DEF item
  <1>6. items \in Seq(Item) /\ \A k \in DOMAIN items : items[k].op = "use"
    BY <1>5
  <1> HIDE DEF items
  <1>7. QED BY <1>1, <1>6 DEF Unfolds

LEMMA ApplyValueUnfolds == ASSUME Linked, ApplyValue, ~Fail("error") PROVE Unfolds
  <1> DEFINE value == Use(Now.f, Now.ty)
             args == Uses(Now.args)
             all == <<value>> \o args
             last == <<value, args[Len(args)]>>
  <1>1. At("use") /\ Now.args # <<>> /\ (Resume(Replace(all)) \/ Resume(Replace(last)))
    BY DEF ApplyValue
  <1>2. Now.f \in Binder /\ Now.ty \in Types \cup {Same} /\ Now.args \in Seq(Arg)
    BY <1>1, AtParts
  <1>3. args \in Seq(Item) /\ DOMAIN args = DOMAIN Now.args
        /\ \A k \in DOMAIN args : args[k].op = "use"
    BY <1>2, UsesKind DEF Uses, Use
  <1>4. args # <<>>
    <2>1. DOMAIN Now.args # {} /\ DOMAIN <<>> = {}
      BY <1>1, <1>2, NonEmptyDomain, NothingToDo
    <2> HIDE DEF args
    <2>2. QED BY <1>3, <2>1
  <1>5. value \in Item /\ value.op = "use"
    BY <1>2, UseKind DEF Use
  <1> HIDE DEF value, args
  <1>6. all \in Seq(Item) /\ last \in Seq(Item)
    BY <1>3, <1>4, <1>5, ValueAndArgs
  <1>7. (\A k \in DOMAIN all : all[k].op = "use") /\ \A k \in DOMAIN last : last[k].op = "use"
    BY <1>3, <1>4, <1>5
  <1> HIDE DEF all, last
  <1>8. QED BY <1>1, <1>6, <1>7 DEF Unfolds

LEMMA ReadUnfolds ==
  ASSUME Resume(Replace(<<>>))
  PROVE  Unfolds
  BY NothingToDo DEF Unfolds

LEMMA UnfoldsNamed ==
  ASSUME Linked, Named, [Next]_vars, Unfolds, stack # <<>>, Top.todo # <<>>,
         UNCHANGED <<prog, registries, specs, ctr, funcs>>,
         \A r \in refs' : r \in refs \/ r.got = r.use
  PROVE  Named'
  <1>1. PICK items \in Seq(Item) : /\ \A k \in DOMAIN items : items[k].op = "use"
                                   /\ Resume(Replace(items))
    BY DEF Unfolds
  <1>2. Replace(items) \in NamedFrames(prog, abstractions, funcs)
    BY <1>1, CarryOnNamed
  <1>3. NamedStack'
    BY <1>1, <1>2, ResumeSeq DEF Named, NamedStack, registries
  <1>4. QED BY <1>3, NamedQuiet

(* Reading a name is reading the binder it is the name of. *)
LEMMA UseNamed ==
  ASSUME Linked, Named, NamesDistinct(prog), [Next]_vars,
         ReadLocal \/ Inline \/ ReadSymbol \/ ApplyValue
  PROVE  Named'
  <1>1. CASE Fail("error")
    BY <1>1, FailNamed
  <1>2. CASE ReadLocal
    <2> DEFINE r == Ref(Top.fn, Now.f, Top.env[NowName].b, BuiltinFn, NoCaptures)
    <2>1. /\ At("use") /\ NowName \in DOMAIN Top.env /\ refs' = refs \cup {r}
          /\ Resume(Replace(<<>>))
          /\ UNCHANGED <<prog, registries, specs, ctr, funcs>>
      BY <1>2 DEF ReadLocal, IsValue
    <2>2. r.got = r.use
      <3>1. stack # <<>> /\ Now.f \in Binder /\ NowName = prog.name[Now.f]
        BY <2>1, AtParts DEF NowName
      <3>2. Top.env[NowName].b = Now.f
        BY <2>1, <3>1, LocalBinder
      <3>3. QED BY <3>2 DEF Ref
    <2> HIDE DEF r
    <2>3. QED BY <2>1, <2>2, AtParts, ReadUnfolds, UnfoldsNamed
  <1>3. CASE Inline
    <2>1. At("use") /\ UNCHANGED <<prog, registries, specs, ctr, funcs, refs>>
      BY <1>3 DEF Inline
    <2>2. QED BY <1>3, <2>1, AtParts, InlineUnfolds, UnfoldsNamed
  <1>4. CASE ReadSymbol /\ ~Fail("error")
    <2> DEFINE r == Ref(Top.fn, Now.f, symbols[NowName].b, symbols[NowName].fn, NoCaptures)
    <2>1. /\ At("use") /\ NowName \in DOMAIN symbols /\ refs' = refs \cup {r}
          /\ Resume(Replace(<<>>))
          /\ UNCHANGED <<prog, registries, specs, ctr, funcs>>
      BY <1>4 DEF ReadSymbol
    <2>2. r.got = r.use
      <3>1. Now.f \in Binder /\ NowName = prog.name[Now.f]
        BY <2>1, AtParts DEF NowName
      <3>2. symbols[NowName].b \in Binder /\ prog.name[symbols[NowName].b] = NowName
        <4>1. symbols \in FromNames(GoodSymbols(Len(funcs)))
          BY DEF Linked
        <4>2. symbols[NowName] \in GoodSymbols(Len(funcs))
          BY <2>1, <4>1, FromNamesDef
        <4>3. QED BY <2>1, <4>2 DEF GoodSymbols, Symbol, Named, NamedSymbols
      <3>3. symbols[NowName].b = Now.f
        BY <3>1, <3>2 DEF NamesDistinct
      <3>4. QED BY <3>3 DEF Ref
    <2> HIDE DEF r
    <2>3. QED BY <2>1, <2>2, AtParts, ReadUnfolds, UnfoldsNamed
  <1>5. CASE ApplyValue /\ ~Fail("error")
    <2>1. At("use") /\ UNCHANGED <<prog, registries, specs, ctr, funcs, refs>>
      BY <1>5 DEF ApplyValue
    <2>2. QED BY <1>5, <2>1, AtParts, ApplyValueUnfolds, UnfoldsNamed
  <1>6. QED BY <1>1, <1>2, <1>3, <1>4, <1>5

-----------------------------------------------------------------------------
(* Statements *)

(* Nothing is being lowered between two statements. *)
LEMMA EmptyStackNamed ==
  ASSUME NEW p, NEW l, NEW f
  PROVE  <<>> \in Seq(NamedFrames(p, l, f))
  OBVIOUS

LEMMA DeclareLambdaNamed ==
  ASSUME Linked, Named, NamesDistinct(prog), [Next]_vars, DeclareLambda
  PROVE  Named'
  <1> DEFINE b == prog.top[pc].b
  <1>1. b \in Binder /\ abstractions' = Put(abstractions, prog.name[b], b) /\ stack = <<>>
        /\ UNCHANGED <<prog, stack, inlineable, symbols, specs, ctr, funcs, refs>>
    BY StatementParts DEF DeclareLambda, AtStmt
  <1> HIDE DEF b
  <1>2. \A n \in DOMAIN abstractions : n \in DOMAIN abstractions' /\ abstractions'[n] = abstractions[n]
    BY <1>1, RegisteredBinder DEF Put
  <1>3. NamedLambdas'
    BY <1>1 DEF Named, NamedLambdas, Put
  <1>4. CachedLambdas'
    BY <1>1, <1>2 DEF Named, CachedLambdas
  <1>5. NamedStack'
    BY <1>1, EmptyStackNamed DEF NamedStack
  <1>6. NamedSymbols' /\ NamedValues' /\ LexicalResolution'
    BY <1>1 DEF Named, NamedSymbols, NamedValues, LexicalResolution
  <1>7. QED BY <1>3, <1>4, <1>5, <1>6 DEF Named

LEMMA FirstFrameNamed ==
  ASSUME prog \in Programs, NEW fn \in Nat, NEW l, NEW f, NEW b \in Binder
  PROVE  Frame(fn, DefaultType, EmptyEnv, prog.body[b]) \in NamedFrames(prog, l, f)
  <1>1. EmptyEnv \in FromNames(Entry) /\ DOMAIN EmptyEnv = {}
    BY FromNamesEmpty DEF EmptyEnv
  <1>2. prog.body[b] \in Seq(Item) /\ \A k \in DOMAIN prog.body[b] : prog.body[b][k].op # "wrap"
    BY BodyItems, BodyHasNoWrap
  <1>3. QED BY <1>1, <1>2, NewFrameNamed, ConstantAssumption

LEMMA DeclareValueNamed ==
  ASSUME Linked, Named, NamesDistinct(prog), [Next]_vars, DeclareValue
  PROVE  Named'
  <1> DEFINE b == prog.top[pc].b
             f == Fn("val", b, prog.name[b], 0, DefaultType, NoCaptures)
             frame == Frame(NextFn, DefaultType, EmptyEnv, prog.body[b])
  <1>1. b \in Binder /\ funcs' = Append(funcs, f) /\ stack' = <<frame>>
        /\ UNCHANGED <<prog, registries, specs, ctr, refs>>
    BY StatementParts DEF DeclareValue
  <1>2. f.kind = "val" /\ f.of = prog.name[f.b]
    BY DEF Fn
  <1>3. NextFn \in Nat /\ funcs \in Seq(Fns)
    BY DEF NextFn, Linked
  <1>4. \A i \in DOMAIN funcs' : i \notin DOMAIN funcs => funcs'[i] = f
    BY <1>1, <1>3
  <1>5. frame \in NamedFrames(prog, abstractions, funcs')
    BY <1>1, <1>3, FirstFrameNamed DEF Linked
  <1> HIDE DEF f, frame, b
  <1>6. NamedStack'
    BY <1>1, <1>5 DEF NamedStack, registries
  <1>7. NamedValues'
    BY <1>1, <1>2, <1>4, FunctionsKept DEF Named, NamedValues
  <1>8. CachedLambdas'
    BY <1>1, CacheKept DEF registries
  <1>9. NamedLambdas' /\ NamedSymbols' /\ LexicalResolution'
    BY <1>1 DEF Named, NamedLambdas, NamedSymbols, LexicalResolution, registries
  <1>10. QED BY <1>6, <1>7, <1>8, <1>9 DEF Named

LEMMA OtherStmtNamed ==
  ASSUME Linked, Named, NamesDistinct(prog), [Next]_vars,
         DeclareInlineable \/ LowerExprStmt \/ EmitEntry
  PROVE  Named'
  <1>1. CASE DeclareInlineable
    BY <1>1 DEF DeclareInlineable, Named, NamedLambdas, NamedSymbols, NamedValues,
         CachedLambdas, NamedStack, LexicalResolution
  <1>2. CASE LowerExprStmt
    <2> DEFINE frame == Frame(MainFn, DefaultType, EmptyEnv, prog.body[prog.top[pc].b])
    <2>1. prog.top[pc].b \in Binder /\ stack' = <<frame>>
          /\ UNCHANGED <<prog, registries, specs, ctr, funcs, refs>>
      BY <1>2, StatementParts DEF LowerExprStmt
    <2>2. frame \in NamedFrames(prog, abstractions, funcs)
      BY <2>1, FirstFrameNamed DEF Linked, MainFn
    <2> HIDE DEF frame
    <2>3. NamedStack'
      BY <2>1, <2>2 DEF NamedStack, registries
    <2>4. QED BY <2>1, <2>3, NamedQuiet
  <1>3. CASE EmitEntry
    <2>1. funcs' = [funcs EXCEPT ![MainFn].done = TRUE] /\ stack = <<>>
          /\ UNCHANGED <<prog, pc, stack, registries, specs, ctr, refs>>
      BY <1>3 DEF EmitEntry
    <2>2. DOMAIN funcs' = DOMAIN funcs
      BY <2>1
    <2>3. NamedStack'
      BY <2>1, EmptyStackNamed DEF NamedStack
    <2>4. CachedLambdas'
      BY <2>1, CacheKept DEF registries
    <2>5. QED BY <2>1, <2>2, <2>3, <2>4, NamedWithin
  <1>4. QED BY <1>1, <1>2, <1>3

(* A finished value is registered as a symbol under its own name. *)
LEMMA FinishNamed ==
  ASSUME Linked, Named, NamesDistinct(prog), [Next]_vars, Finish
  PROVE  Named'
  <1> DEFINE f == funcs[Top.fn]
  <1>1. stack # <<>> /\ stack' = SubSeq(stack, 1, Len(stack) - 1)
        /\ UNCHANGED <<prog, abstractions, specs, ctr, refs>>
    BY DEF Finish, Done
  <1>2. Top.fn \in DOMAIN funcs
    <2>1. Top.fn \in 1 .. Len(funcs)
      BY <1>1, TopParts DEF GoodFrames
    <2>2. QED BY <2>1, FunctionsKept
  <1>3. \A i \in DOMAIN funcs : i \in DOMAIN funcs' /\ funcs'[i].b = funcs[i].b
    BY FunctionsKept
  <1>4. NamedStack'
    <2>1. NamedFrames(prog, abstractions, funcs) \subseteq NamedFrames(prog, abstractions, funcs')
      BY <1>3, NamedFramesGrow
    <2>2. stack \in Seq(NamedFrames(prog, abstractions, funcs'))
      BY <2>1, SeqMonotone DEF Named, NamedStack
    <2>3. stack' \in Seq(NamedFrames(prog, abstractions, funcs'))
      BY <1>1, <2>2, PopSeq
    <2>4. QED BY <1>1, <2>3 DEF NamedStack
  <1>5. NamedSymbols'
    <2>1. CASE symbols' = symbols
      BY <1>1, <2>1 DEF Named, NamedSymbols
    <2>2. CASE symbols' # symbols
      <3>1. f.kind = "val" /\ symbols' = Put(symbols, f.of, [b |-> f.b, fn |-> Top.fn])
        BY <2>2 DEF Finish
      <3>2. f.of = prog.name[f.b]
        BY <1>2, <3>1 DEF Named, NamedValues
      <3> HIDE DEF f
      <3>3. QED BY <1>1, <3>1, <3>2 DEF Named, NamedSymbols, Put
    <2>3. QED BY <2>1, <2>2
  <1>6. NamedValues'
    <2>1. DOMAIN funcs' = DOMAIN funcs
      BY DEF Finish, Appended
    <2>2. QED BY <1>1, <2>1, FunctionsKept DEF Named, NamedValues
  <1>7. CachedLambdas'
    BY <1>1, CacheKept
  <1>8. NamedLambdas' /\ LexicalResolution'
    BY <1>1 DEF Named, NamedLambdas, LexicalResolution
  <1>9. QED BY <1>4, <1>5, <1>6, <1>7, <1>8 DEF Named

-----------------------------------------------------------------------------
(* Scopes and bindings *)

LEMMA ScopeNamed ==
  ASSUME Linked, Named, [Next]_vars, EnterScope \/ LeaveScope
  PROVE  Named'
  <1> DEFINE S == NamedFrames(prog, abstractions, funcs)
  <1>1. UNCHANGED <<prog, registries, specs, ctr, funcs, refs>>
    BY DEF EnterScope, LeaveScope
  <1>2. CASE EnterScope
    <2> DEFINE frame == Frame(Top.fn, Top.ty, Top.env, prog.body[Now.b])
               resumed == [stack EXCEPT ![Len(stack)] = Replace(<<>>)]
    <2>1. At("scope") /\ stack' = Append(resumed, frame)
      BY <1>2 DEF EnterScope
    <2>2. /\ stack # <<>> /\ Top.todo # <<>> /\ Now.b \in Binder /\ prog \in Programs
          /\ Top.fn \in Nat /\ Top.ty \in Types /\ Top.env \in FromNames(Entry)
      BY <2>1, AtParts, TopParts DEF Linked
    <2>3. frame \in S
      BY <2>2, TopNamed, BodyItems, BodyHasNoWrap, NewFrameNamed
    <2>4. Replace(<<>>) \in S
      BY <2>2, NothingToDo, CarryOnNamed
    <2> HIDE DEF frame
    <2>5. stack \in Seq(S)
      BY DEF Named, NamedStack
    <2> HIDE DEF S
    <2>6. resumed \in Seq(S)
      BY <2>4, <2>5, SeqExcept
    <2> HIDE DEF resumed
    <2>7. stack' \in Seq(S)
      BY <2>1, <2>3, <2>6
    <2>8. QED BY <1>1, <2>7, NamedQuiet DEF NamedStack, S, registries
  <1>3. CASE LeaveScope
    <2>1. stack # <<>> /\ stack' = SubSeq(stack, 1, Len(stack) - 1) /\ stack \in Seq(S)
      BY <1>3 DEF LeaveScope, Done, Named, NamedStack
    <2> HIDE DEF S
    <2>2. stack' \in Seq(S)
      BY <2>1, PopSeq
    <2>3. QED BY <1>1, <2>2, NamedQuiet DEF NamedStack, S, registries
  <1>4. QED BY <1>2, <1>3

LEMMA LetValueNamed ==
  ASSUME Linked, Named, [Next]_vars, LetValue
  PROVE  Named'
  <1> DEFINE use == [Now EXCEPT !.op = "use"]
             bind == [Now EXCEPT !.op = "bind"]
             items == <<use, bind>>
  <1>1. At("let") /\ Resume(Replace(items))
        /\ UNCHANGED <<prog, registries, specs, ctr, funcs, refs>>
    BY DEF LetValue
  <1>2. use \in Item /\ bind \in Item /\ use.op = "use" /\ bind.op = "bind"
    <2>1. Now \in Item
      BY <1>1, AtParts
    <2>2. QED BY <2>1 DEF Item, Ops
  <1> HIDE DEF use, bind
  <1>3. items \in Seq(Item) /\ \A k \in DOMAIN items : items[k].op # "wrap"
    BY <1>2
  <1> HIDE DEF items
  <1>4. Replace(items) \in NamedFrames(prog, abstractions, funcs)
    BY <1>1, <1>3, AtParts, CarryOnNamed
  <1>5. NamedStack'
    BY <1>1, <1>4, ResumeSeq DEF Named, NamedStack, registries
  <1>6. QED BY <1>1, <1>5, NamedQuiet

(* Binding an entry under the name of its binder. *)
LEMMA BindNamed ==
  ASSUME Linked, Named, stack # <<>>, Top.todo # <<>>, NEW e \in Entry, NEW l,
         \A n \in DOMAIN abstractions : n \in DOMAIN l /\ l[n] = abstractions[n],
         e.kind = "abs" => e.sym \in DOMAIN l /\ l[e.sym] = e.b
  PROVE  [Replace(<<>>) EXCEPT !.env = Put(@, prog.name[e.b], e)] \in NamedFrames(prog, l, funcs)
  <1> DEFINE fr == Replace(<<>>)
             n == prog.name[e.b]
             env == Put(Top.env, n, e)
             new == [fr EXCEPT !.env = env]
  <1>1. fr \in NamedFrames(prog, l, funcs)
    <2>1. NamedFrames(prog, abstractions, funcs) \subseteq NamedFrames(prog, l, funcs)
      BY NamedFramesGrow
    <2>2. QED BY <2>1, NothingToDo, CarryOnNamed
  <1>2. fr.env = Top.env /\ fr \in Frames
    BY NothingToDo, ReplaceKind
  <1>3. e.b \in Binder /\ n \in Name
    BY ProgramParts DEF Entry, Linked
  <1>4. env \in FromNames(Entry)
    BY <1>3, TopParts, FromNamesPut
  <1>5. \A m \in DOMAIN env :
          /\ prog.name[env[m].b] = m
          /\ env[m].kind = "abs" => env[m].sym \in DOMAIN l /\ l[env[m].sym] = env[m].b
    <2>1. \A m \in DOMAIN Top.env :
            /\ prog.name[Top.env[m].b] = m
            /\ Top.env[m].kind = "abs" => Top.env[m].sym \in DOMAIN l /\ l[Top.env[m].sym] = Top.env[m].b
      BY TopNamed
    <2>2. QED BY <2>1 DEF Put
  <1>6. [fr EXCEPT !.env = Put(@, n, e)] = new
    BY <1>2
  <1> HIDE DEF env, fr, n
  <1>7. new \in Frames /\ new.env = env /\ new.todo = fr.todo
    BY <1>2, <1>4 DEF Frames
  <1> HIDE DEF new
  <1>8. new \in NamedFrames(prog, l, funcs)
    BY <1>1, <1>5, <1>7 DEF NamedFrames
  <1>9. QED BY <1>6, <1>8 DEF fr, n

LEMMA BindValueNamed ==
  ASSUME Linked, Named, [Next]_vars, BindValue
  PROVE  Named'
  <1> DEFINE e == ValueEntry(Now.b, Top.fn, NowType)
             frame == [Replace(<<>>) EXCEPT !.env = Put(@, prog.name[Now.b], e)]
  <1>1. At("bind") /\ Resume(frame)
        /\ UNCHANGED <<prog, registries, specs, ctr, funcs, refs>>
    BY DEF BindValue
  <1>2. e \in Entry /\ e.kind = "val" /\ e.b = Now.b
    <2>1. Now.b \in Binder /\ NowType \in Types /\ Top.fn \in Nat /\ prog.name[Now.b] \in Name
      BY <1>1, AtParts, TopParts, ProgramParts DEF Linked
    <2>2. QED BY <2>1 DEF ValueEntry, Entry
  <1> HIDE DEF e
  <1>3. frame \in NamedFrames(prog, abstractions, funcs)
    BY <1>1, <1>2, AtParts, BindNamed
  <1> HIDE DEF frame
  <1>4. NamedStack'
    BY <1>1, <1>3, ResumeSeq DEF Named, NamedStack, registries
  <1>5. QED BY <1>1, <1>4, NamedQuiet

(* A local lambda is registered under a name nothing leads to yet. *)
LEMMA LetLambdaNamed ==
  ASSUME Linked, Named, NamesDistinct(prog), [Next]_vars, LetLambda
  PROVE  Named'
  <1> DEFINE e == LambdaEntry(Now.b, LetSymbol, Top.fn, Top.ty)
             frame == [Replace(<<>>) EXCEPT !.env = Put(@, prog.name[Now.b], e)]
             S == NamedFrames(prog, abstractions', funcs)
  <1>1. At("letfn") /\ Resume(frame) /\ ctr.let < Len(LetName)
        /\ abstractions' = Put(abstractions, LetSymbol, Now.b)
        /\ ctr'.let = ctr.let + 1
        /\ UNCHANGED <<prog, symbols, specs, funcs, refs>>
    BY DEF LetLambda, Linked
  <1>2. /\ LetSymbol \notin DOMAIN abstractions
        /\ LetSymbol \notin Generated(ctr.let) /\ LetSymbol \in Generated(ctr.let + 1)
        /\ Generated(ctr.let) \subseteq Generated(ctr.let + 1)
    BY <1>1, LetSymbolFresh
  <1>3. /\ \A n \in DOMAIN abstractions : n \in DOMAIN abstractions' /\ abstractions'[n] = abstractions[n]
        /\ LetSymbol \in DOMAIN abstractions' /\ abstractions'[LetSymbol] = Now.b
        /\ \A n \in DOMAIN abstractions' : n \in DOMAIN abstractions \/ n = LetSymbol
    BY <1>1, <1>2 DEF Put
  <1>4. e \in Entry /\ e.kind = "abs" /\ e.sym = LetSymbol /\ e.b = Now.b
    <2>1. Now.b \in Binder /\ Top.fn \in Nat /\ Top.ty \in Types
      BY <1>1, AtParts, TopParts
    <2>2. LetSymbol \in Name
      <3>1. ctr.let + 1 \in 1 .. Len(LetName)
        BY <1>1, ConstantAssumption DEF Linked
      <3>2. QED BY <3>1, ConstantAssumption DEF LetSymbol
    <2>3. QED BY <2>1, <2>2 DEF LambdaEntry, Entry
  <1> HIDE DEF e
  <1>5. frame \in S
    BY <1>1, <1>3, <1>4, AtParts, BindNamed
  <1>6. stack \in Seq(S)
    <2>1. NamedFrames(prog, abstractions, funcs) \subseteq S
      BY <1>3, NamedFramesGrow
    <2>2. QED BY <2>1, SeqMonotone DEF Named, NamedStack
  <1> HIDE DEF frame, S
  <1>7. stack' \in Seq(S)
    BY <1>1, <1>5, <1>6, ResumeSeq
  <1>8. NamedStack'
    BY <1>1, <1>7 DEF NamedStack, S
  <1>9. NamedLambdas'
    BY <1>1, <1>2, <1>3 DEF Named, NamedLambdas
  <1>10. CachedLambdas'
    BY <1>1, <1>3 DEF Named, CachedLambdas
  <1>11. NamedSymbols' /\ NamedValues' /\ LexicalResolution'
    BY <1>1 DEF Named, NamedSymbols, NamedValues, LexicalResolution
  <1>12. QED BY <1>8, <1>9, <1>10, <1>11 DEF Named

-----------------------------------------------------------------------------
(* Specializing *)

NamedCaptures(caps) == \A n \in DOMAIN caps : prog.name[caps[n].b] = n

(* Captures are under the names of their binders. *)
LEMMA CapturesNamed ==
  ASSUME Linked, Named, stack # <<>>, NEW b, NEW self
  PROVE  NamedCaptures(LambdaCaptures(b, self, Top.env))
  BY TopNamed DEF LambdaCaptures, NamedCaptures

LEMMA NoCapturesNamed == NamedCaptures(NoCaptures)
  <1>1. DOMAIN <<>> = {}
    OBVIOUS
  <1>2. QED BY <1>1 DEF NamedCaptures, NoCaptures

(* So is everything in the environment of a specialization. *)
LEMMA SpecEnvNamed ==
  ASSUME Linked, Named, NEW sym \in DOMAIN abstractions, NEW self \in Name, NEW ty \in Types,
         prog.name[abstractions[sym]] = self,
         NEW caps \in FromNames(Captured), NamedCaptures(caps), NEW fn \in Nat
  PROVE  LET env == SpecEnv(sym, self, ty, caps, fn) IN
         \A n \in DOMAIN env :
           /\ prog.name[env[n].b] = n
           /\ env[n].kind = "abs" => /\ env[n].sym \in DOMAIN abstractions
                                     /\ abstractions[env[n].sym] = env[n].b
  <1> DEFINE c(n) == ValueEntry(caps[n].b, fn, caps[n].ty)
             captured == [n \in DOMAIN caps |-> c(n)]
             params == ParamEnv(prog.params[abstractions[sym]], fn, ty)
             inputs == Hide(captured, params)
             lambda == LambdaEntry(abstractions[sym], sym, fn, ty)
             own(env) == \A n \in DOMAIN env : env[n].kind = "val" /\ prog.name[env[n].b] = n
  <1>1. prog \in Programs /\ abstractions[sym] \in Binder
    BY FromNamesDef DEF Linked
  <1>2. own(captured)
    BY DEF ValueEntry, NamedCaptures
  <1>3. own(params)
    <2>1. prog.params[abstractions[sym]] \in Seq(Binder)
      BY <1>1, ProgramParts
    <2>2. QED BY <1>1, <2>1, ParamEnvKind
  <1>4. lambda.sym = sym /\ lambda.b = abstractions[sym]
    BY DEF LambdaEntry
  <1>5. SpecEnv(sym, self, ty, caps, fn) = IF self # sym THEN Put(inputs, self, lambda) ELSE inputs
    BY DEF SpecEnv, InputEnv
  <1> HIDE DEF captured, params, lambda
  <1>6. own(inputs)
    BY <1>2, <1>3 DEF Hide
  <1> HIDE DEF inputs
  <1> DEFINE env == SpecEnv(sym, self, ty, caps, fn)
  <1>7. \A n \in DOMAIN env : \/ n = self /\ env[n] = lambda
                              \/ n \in DOMAIN inputs /\ env[n] = inputs[n]
    BY <1>5 DEF Put
  <1> HIDE DEF env
  <1>8. \A n \in DOMAIN env :
           /\ prog.name[env[n].b] = n
           /\ env[n].kind = "abs" => /\ env[n].sym \in DOMAIN abstractions
                                     /\ abstractions[env[n].sym] = env[n].b
    BY <1>4, <1>6, <1>7
  <1>9. QED BY <1>8 DEF env

(* The function a specialization comes to is one of the lambda asked for.  *)
LEMMA SpecTarget ==
  ASSUME Linked, Named, [Next]_vars, NEW sym \in DOMAIN abstractions, NEW self, NEW ty,
         NEW caps, NEW cont, Specialize(sym, self, ty, caps, cont)
  PROVE  LET key == Key(sym, ty, caps) IN
         /\ CompiledFrom(sym, key) = abstractions[sym]
         /\ TargetOf(key) \in DOMAIN funcs'
         /\ funcs'[TargetOf(key)].b = abstractions[sym]
         /\ \A k \in DOMAIN specs' : /\ k[1] \in DOMAIN abstractions
                                     /\ funcs'[specs'[k]].b = abstractions[k[1]]
         /\ \A i \in DOMAIN funcs' : i \notin DOMAIN funcs => funcs'[i].kind = "spec"
  <1> DEFINE key == Key(sym, ty, caps)
             f == Fn("spec", abstractions[sym], sym, ctr.spec, ty, caps)
  <1>1. key[1] = sym /\ key[2] = ty
    BY DEF Key
  <1>2. /\ \A k \in DOMAIN specs : specs[k] \in DOMAIN funcs
        /\ \A i \in DOMAIN funcs : i \in DOMAIN funcs' /\ funcs'[i].b = funcs[i].b
        /\ funcs \in Seq(Fns)
    BY FunctionsKept DEF Linked
  <1>3. \A k \in DOMAIN specs : /\ k[1] \in DOMAIN abstractions
                                /\ funcs[specs[k]].b = abstractions[k[1]]
    BY DEF Named, CachedLambdas
  <1> HIDE DEF key
  <1>4. CASE key \in DOMAIN specs
    <2>1. UNCHANGED <<specs, funcs>>
      BY <1>4 DEF Specialize, ReuseSpecialization, NewSpecialization, key
    <2>2. TargetOf(key) = specs[key] /\ CompiledFrom(sym, key) = funcs[specs[key]].b
      BY <1>4 DEF TargetOf, CompiledFrom
    <2>3. QED BY <1>1, <1>2, <1>3, <1>4, <2>1, <2>2 DEF key
  <1>5. CASE key \notin DOMAIN specs
    <2>1. specs' = Put(specs, key, NextFn) /\ funcs' = Append(funcs, f)
      BY <1>1, <1>5 DEF Specialize, ReuseSpecialization, NewSpecialization, key, Cached, Enter
    <2>2. TargetOf(key) = NextFn /\ CompiledFrom(sym, key) = abstractions[sym]
      BY <1>5 DEF TargetOf, CompiledFrom
    <2>3. f.b = abstractions[sym] /\ f.kind = "spec"
      BY DEF Fn
    <2> HIDE DEF f
    <2>4. /\ NextFn \in DOMAIN funcs' /\ funcs'[NextFn] = f
          /\ \A i \in DOMAIN funcs' : i \notin DOMAIN funcs => funcs'[i] = f
      BY <1>2, <2>1 DEF NextFn
    <2>5. \A k \in DOMAIN specs' : \/ k \in DOMAIN specs /\ specs'[k] = specs[k]
                                   \/ k = key /\ specs'[k] = NextFn
      BY <2>1 DEF Put
    <2>6. \A k \in DOMAIN specs' : /\ k[1] \in DOMAIN abstractions
                                   /\ funcs'[specs'[k]].b = abstractions[k[1]]
      BY <1>1, <1>2, <1>3, <2>3, <2>4, <2>5
    <2>7. QED BY <2>2, <2>3, <2>4, <2>6 DEF key
  <1>6. QED BY <1>4, <1>5

(* A step that specializes the lambda a name leads to. *)
LEMMA SpecializeNamed ==
  ASSUME Linked, Named, [Next]_vars, stack # <<>>, UNCHANGED <<prog, registries>>,
         NEW sym \in DOMAIN abstractions, NEW self \in Name, NEW ty \in Types,
         prog.name[abstractions[sym]] = self,
         NEW caps \in FromNames(Captured), NamedCaptures(caps),
         NEW cont, cont \in NamedFrames(prog, abstractions, funcs'),
         Specialize(sym, self, ty, caps, cont),
         \A r \in refs' : r \in refs \/ r.got = r.use
  PROVE  Named'
  <1> DEFINE S == NamedFrames(prog, abstractions, funcs')
             key == Key(sym, ty, caps)
             b == abstractions[sym]
             f == Fn("spec", b, sym, ctr.spec, ty, caps)
             frame == Frame(NextFn, ty, SpecEnv(sym, self, ty, caps, NextFn), prog.body[b])
  <1>1. /\ \A k \in DOMAIN specs' : /\ k[1] \in DOMAIN abstractions
                                    /\ funcs'[specs'[k]].b = abstractions[k[1]]
        /\ \A i \in DOMAIN funcs' : i \notin DOMAIN funcs => funcs'[i].kind = "spec"
    BY SpecTarget
  <1>2. key[1] = sym /\ key[2] = ty
    BY DEF Key
  <1> HIDE DEF key
  <1>3. stack \in Seq(S)
    <2>1. NamedFrames(prog, abstractions, funcs) \subseteq S
      BY FunctionsKept, NamedFramesGrow
    <2>2. QED BY <2>1, SeqMonotone DEF Named, NamedStack
  <1>4. ctr'.let = ctr.let /\ stack' \in Seq(S)
    <2>1. CASE ReuseSpecialization(key, cont)
      BY <1>3, <2>1, ResumeSeq DEF ReuseSpecialization
    <2>2. CASE NewSpecialization(key, self, caps, cont)
      <3>1. Enter(f, frame, cont) /\ ctr' = [ctr EXCEPT !.spec = @ + 1]
        BY <1>2, <2>2 DEF NewSpecialization, SpecCounted
      <3>2. frame \in S
        <4>1. prog \in Programs /\ b \in Binder /\ NextFn \in Nat
          BY FromNamesDef DEF Linked, NextFn
        <4>2. SpecEnv(sym, self, ty, caps, NextFn) \in FromNames(Entry)
          BY <4>1, SpecEnvKind
        <4>3. prog.body[b] \in Seq(Item) /\ \A k \in DOMAIN prog.body[b] : prog.body[b][k].op # "wrap"
          BY <4>1, BodyItems, BodyHasNoWrap
        <4>4. QED BY <4>1, <4>2, <4>3, SpecEnvNamed, NewFrameNamed
      <3> HIDE DEF f, frame, S
      <3>3. stack' \in Seq(S)
        BY <1>3, <3>1, <3>2, EnterSeq DEF S
      <3>4. QED BY <3>1, <3>3 DEF Linked
    <2>3. QED BY <2>1, <2>2 DEF Specialize, key
  <1> HIDE DEF S
  <1>5. NamedStack'
    BY <1>4 DEF NamedStack, S, registries
  <1>6. CachedLambdas'
    BY <1>1 DEF CachedLambdas, registries
  <1>7. QED BY <1>1, <1>4, <1>5, <1>6, NamedWithin

(* What the uses of a lambda have in common. *)
LEMMA CalleeParts ==
  ASSUME Linked, Named, NamesDistinct(prog), At("use"),
         \/ ReferencesLambda(Top.env, NowName)
         \/ CalleeOf(Top.env, NowName) \in DOMAIN abstractions
  PROVE  LET sym == CalleeOf(Top.env, NowName) IN
         /\ sym \in DOMAIN abstractions /\ abstractions[sym] = Now.f
         /\ prog.name[abstractions[sym]] = NowName
         /\ stack # <<>> /\ Top.todo # <<>> /\ Now.f \in Binder /\ Now.args \in Seq(Arg)
         /\ NowName \in Name /\ NowType \in Types
  BY CalleeRegistered, CalleeNamed, AtParts DEF NowName

LEMMA ReferenceLambdaNamed ==
  ASSUME Linked, Named, NamesDistinct(prog), [Next]_vars, ReferenceLambda
  PROVE  Named'
  <1> DEFINE sym == CalleeOf(Top.env, NowName)
             caps == LambdaCaptures(abstractions[sym], NowName, Top.env)
             key == Key(sym, NowType, NoCaptures)
             r == SpecRef(Now.f, sym, key, NoCaptures)
  <1>1. At("use") /\ ReferencesLambda(Top.env, NowName)
    BY DEF ReferenceLambda
  <1>2. CASE caps # NoCaptures
    BY <1>2, FailNamed DEF ReferenceLambda
  <1>3. CASE caps = NoCaptures
    <2>1. /\ Specialize(sym, NowName, NowType, NoCaptures, Replace(<<>>))
          /\ refs' = refs \cup {r}
          /\ UNCHANGED <<prog, registries>>
      BY <1>3 DEF ReferenceLambda
    <2>2. /\ sym \in DOMAIN abstractions /\ abstractions[sym] = Now.f
          /\ prog.name[abstractions[sym]] = NowName
          /\ stack # <<>> /\ Top.todo # <<>> /\ NowName \in Name /\ NowType \in Types
      BY <1>1, CalleeParts
    <2> HIDE DEF sym, caps
    <2>3. CompiledFrom(sym, key) = Now.f
      BY <2>1, <2>2, SpecTarget
    <2>4. r.got = r.use
      BY <2>3 DEF SpecRef, Ref
    <2>5. Replace(<<>>) \in NamedFrames(prog, abstractions, funcs')
      BY <2>2, NothingToDo, BindersKept, CarryOnNamed
    <2> HIDE DEF r
    <2>6. QED BY <2>1, <2>2, <2>4, <2>5, NoCapturesKind, NoCapturesNamed, SpecializeNamed
  <1>4. QED BY <1>2, <1>3

LEMMA CallNamed ==
  ASSUME Linked, Named, NamesDistinct(prog), [Next]_vars, Call
  PROVE  Named'
  <1> DEFINE sym == CalleeOf(Top.env, NowName)
             caps == LambdaCaptures(abstractions[sym], NowName, Top.env)
             key == Key(sym, NowType, caps)
             cont == Replace(Uses(Now.args))
             r == SpecRef(Now.f, sym, key, caps)
  <1>1. /\ At("use") /\ CalleeOf(Top.env, NowName) \in DOMAIN abstractions
        /\ Specialize(sym, NowName, NowType, caps, cont)
        /\ refs' = refs \cup {r}
        /\ UNCHANGED <<prog, registries>>
    BY DEF Call, AtKnown
  <1>2. /\ sym \in DOMAIN abstractions /\ abstractions[sym] = Now.f
        /\ prog.name[abstractions[sym]] = NowName
        /\ stack # <<>> /\ Top.todo # <<>> /\ NowName \in Name /\ NowType \in Types
        /\ Now.f \in Binder /\ Now.args \in Seq(Arg)
    BY <1>1, CalleeParts
  <1>3. caps \in FromNames(Captured) /\ NamedCaptures(caps)
    BY <1>1, <1>2, AtParts, LambdaCapturesKind, CapturesNamed
  <1>4. cont \in NamedFrames(prog, abstractions, funcs')
    BY <1>2, UsesKind, UsesHaveNoWrap, BindersKept, CarryOnNamed
  <1> HIDE DEF sym, caps, cont
  <1>5. CompiledFrom(sym, key) = Now.f
    BY <1>1, <1>2, SpecTarget
  <1>6. r.got = r.use
    BY <1>5 DEF SpecRef, Ref
  <1> HIDE DEF r
  <1>7. QED BY <1>1, <1>2, <1>3, <1>4, <1>6, SpecializeNamed

LEMMA PartialApplyNamed ==
  ASSUME Linked, Named, NamesDistinct(prog), [Next]_vars, PartialApply
  PROVE  Named'
  <1> DEFINE sym == CalleeOf(Top.env, NowName)
             caps == LambdaCaptures(abstractions[sym], NowName, Top.env)
             key == Key(sym, NowType, NoCaptures)
             to == TargetOf(key)
             wrap == [Now EXCEPT !.op = "wrap", !.b = abstractions[sym], !.to = to]
             cont == Replace(<<wrap>>)
  <1>1. At("use") /\ sym \in DOMAIN abstractions
    BY DEF PartialApply, AtKnown
  <1>2. CASE caps # NoCaptures
    BY <1>2, FailNamed DEF PartialApply
  <1>3. CASE caps = NoCaptures
    <2>1. /\ Specialize(sym, NowName, NowType, NoCaptures, cont)
          /\ UNCHANGED <<prog, registries, refs>>
      BY <1>3 DEF PartialApply
    <2>2. /\ sym \in DOMAIN abstractions /\ abstractions[sym] = Now.f
          /\ prog.name[abstractions[sym]] = NowName
          /\ stack # <<>> /\ Top.todo # <<>> /\ NowName \in Name /\ NowType \in Types
          /\ Now \in Item /\ Now.f \in Binder
      BY <1>1, CalleeParts, AtParts
    <2> HIDE DEF caps, sym
    <2>3. to \in DOMAIN funcs' /\ funcs'[to].b = Now.f
      <3> HIDE DEF wrap
      <3>1. QED BY <2>1, <2>2, SpecTarget
    <2>4. to \in Nat
      BY <2>3, FunctionsKept
    <2> HIDE DEF to
    <2>5. wrap \in Item /\ wrap.to = to /\ wrap.f = Now.f
      <3> DEFINE b == abstractions[sym]
      <3>1. b \in Binder
        BY <2>2
      <3> HIDE DEF b
      <3>2. wrap \in Item /\ wrap.to = to /\ wrap.f = Now.f
        BY <2>2, <2>4, <3>1 DEF Item, Ops
      <3>3. QED BY <3>2
    <2> HIDE DEF wrap
    <2>6. cont \in NamedFrames(prog, abstractions, funcs')
      <3>1. <<wrap>> \in Seq(Item)
        BY <2>5
      <3>2. \A k \in DOMAIN <<wrap>> : /\ <<wrap>>[k].to \in DOMAIN funcs'
                                       /\ funcs'[<<wrap>>[k].to].b = <<wrap>>[k].f
        BY <2>3, <2>5
      <3>3. QED BY <2>2, <3>1, <3>2, BindersKept, ReplaceNamed
    <2> HIDE DEF cont
    <2>7. QED BY <2>1, <2>2, <2>6, NoCapturesKind, NoCapturesNamed, SpecializeNamed
  <1>4. QED BY <1>2, <1>3

LEMMA CaptureLambdaNamed ==
  ASSUME Linked, Named, NamesDistinct(prog), [Next]_vars, CaptureLambda
  PROVE  Named'
  <1>1. At("closure")
    BY DEF CaptureLambda
  <1>2. PICK n \in ClosureLambdas, ty \in Types :
          LET e    == Top.env[n]
              key  == Key(e.sym, ty, NoCaptures)
              done == Append(Now.args, [b |-> e.b, ty |-> ty])
          IN /\ Specialize(e.sym, n, ty, NoCaptures,
                           Replace(<<[Now EXCEPT !.args = done]>>))
             /\ refs' = refs \cup {SpecRef(e.b, e.sym, key, NoCaptures)}
             /\ UNCHANGED <<prog, pc, registries, outcome>>
    BY DEF CaptureLambda
  <1> DEFINE e == Top.env[n]
             sym == e.sym
             key == Key(sym, ty, NoCaptures)
             done == Append(Now.args, [b |-> e.b, ty |-> ty])
             item == [Now EXCEPT !.args = done]
             cont == Replace(<<item>>)
             r == SpecRef(e.b, sym, key, NoCaptures)
  <1>3. n \in DOMAIN Top.env /\ e.kind = "abs"
    BY DEF ClosureLambdas, ClosureFree
  <1>4. /\ stack # <<>> /\ Top.todo # <<>> /\ Now \in Item /\ Now.op = "closure"
        /\ Now.args \in Seq(Arg) /\ n \in Name /\ e.b \in Binder
    BY <1>1, <1>3, AtParts DEF Entry
  <1>5. sym \in DOMAIN abstractions /\ abstractions[sym] = e.b /\ prog.name[e.b] = n
    BY <1>3, <1>4, TopNamed
  <1>6. done \in Seq(Arg)
    BY <1>4, ConstantAssumption DEF Arg
  <1>7. item \in Item /\ item.op # "wrap"
    <2> HIDE DEF done
    <2>1. QED BY <1>4, <1>6 DEF Item
  <1>8. Specialize(sym, n, ty, NoCaptures, cont)
        /\ refs' = refs \cup {r} /\ UNCHANGED <<prog, registries>>
    BY <1>2
  <1> HIDE DEF item
  <1>9. cont \in NamedFrames(prog, abstractions, funcs')
    <2>1. <<item>> \in Seq(Item) /\ \A k \in DOMAIN <<item>> : <<item>>[k].op # "wrap"
      BY <1>7
    <2>2. QED BY <1>4, <2>1, BindersKept, CarryOnNamed
  <1> HIDE DEF cont, e, sym
  <1>10. r.got = r.use
    <2>1. CompiledFrom(sym, key) = e.b
      BY <1>5, <1>8, SpecTarget
    <2>2. QED BY <2>1 DEF SpecRef, Ref
  <1> HIDE DEF r
  <1>11. QED BY <1>4, <1>5, <1>8, <1>9, <1>10, NoCapturesKind, NoCapturesNamed,
                ConstantAssumption, SpecializeNamed

-----------------------------------------------------------------------------
(* Wrappers and closures *)

(* Entering a function whose frame is named. *)
LEMMA EnterNamed ==
  ASSUME Linked, Named, [Next]_vars, UNCHANGED <<prog, registries, specs>>, ctr'.let = ctr.let,
         NEW f, f.kind # "val",
         NEW frame \in NamedFrames(prog, abstractions, funcs'),
         NEW cont \in NamedFrames(prog, abstractions, funcs'),
         Enter(f, frame, cont),
         \A r \in refs' : r \in refs \/ r.got = r.use
  PROVE  Named'
  <1> DEFINE S == NamedFrames(prog, abstractions, funcs')
  <1>1. funcs' = Append(funcs, f) /\ funcs \in Seq(Fns)
    BY DEF Enter, Linked
  <1>2. \A i \in DOMAIN funcs' : i \notin DOMAIN funcs => funcs'[i] = f
    BY <1>1
  <1>3. stack \in Seq(S)
    <2>1. NamedFrames(prog, abstractions, funcs) \subseteq S
      BY BindersKept, NamedFramesGrow
    <2>2. QED BY <2>1, SeqMonotone DEF Named, NamedStack
  <1>4. stack' \in Seq(S)
    <2>1. frame \in S /\ cont \in S
      OBVIOUS
    <2> HIDE DEF S
    <2>2. QED BY <1>3, <2>1, EnterSeq
  <1>5. NamedStack'
    BY <1>4 DEF NamedStack, registries
  <1>6. CachedLambdas'
    BY CacheKept DEF registries
  <1>7. QED BY <1>2, <1>5, <1>6, NamedWithin

LEMMA WrapNamed ==
  ASSUME Linked, Named, NamesDistinct(prog), [Next]_vars, Wrap
  PROVE  Named'
  <1> DEFINE params == prog.params[Now.b]
             k == Len(Now.args)
             rest == SubSeq(params, k + 1, Len(params))
             env == ParamEnv(rest, NextFn, NowType)
             wrapped == funcs[Now.to]
             f == Fn("partial", Now.b, wrapped.of, ctr.spec, NowType, NoCaptures)
             frame == Frame(NextFn, NowType, env, Uses(Now.args))
             cont == Replace(<<>>)
             r1 == Ref(Top.fn, Now.f, wrapped.b, NextFn, NoCaptures)
             r2 == Ref(NextFn, Now.f, wrapped.b, Now.to, NoCaptures)
  <1>1. At("wrap")
    BY DEF Wrap
  <1>2. CASE k > Len(params)
    BY <1>2, FailNamed DEF Wrap
  <1>3. CASE ~(k > Len(params))
    <2>1. Enter(f, frame, cont) /\ ctr' = SpecCounted
          /\ refs' = refs \cup {r1, r2}
          /\ UNCHANGED <<prog, registries, specs>>
      BY <1>3 DEF Wrap
    <2>2. /\ stack # <<>> /\ Top.todo # <<>> /\ Now.op = "wrap"
          /\ Now.b \in Binder /\ Now.args \in Seq(Arg) /\ NowType \in Types
      BY <1>1, AtParts
    <2>3. prog \in Programs /\ params \in Seq(Binder) /\ NextFn \in Nat /\ ctr'.let = ctr.let
      BY <2>1, <2>2, ProgramParts DEF Linked, NextFn, SpecCounted
    <2>4. wrapped.b = Now.f
      <3>1. Top \in NamedFrames(prog, abstractions, funcs) /\ Top.todo \in Seq(Item)
        BY <2>2, TopNamed, TopParts
      <3>2. 1 \in DOMAIN Top.todo /\ Now = Top.todo[1]
        BY <2>2, <3>1 DEF Now
      <3>3. QED BY <2>2, <3>1, <3>2 DEF NamedFrames
    <2>5. frame \in NamedFrames(prog, abstractions, funcs')
      <3>1. rest \in Seq(Binder)
        <4>1. k \in Nat /\ k <= Len(params)
          BY <1>3, <2>2, <2>3
        <4> HIDE DEF k, params
        <4>2. QED BY <2>3, <4>1, SubSeqKind
      <3> HIDE DEF rest
      <3>2. env \in FromNames(Entry)
            /\ \A n \in DOMAIN env : env[n].kind = "val" /\ prog.name[env[n].b] = n
        BY <2>2, <2>3, <3>1, ParamEnvKind
      <3>3. Uses(Now.args) \in Seq(Item)
            /\ \A i \in DOMAIN Uses(Now.args) : Uses(Now.args)[i].op # "wrap"
        BY <2>2, UsesKind, UsesHaveNoWrap
      <3> HIDE DEF env
      <3>4. QED BY <2>2, <2>3, <3>2, <3>3, NewFrameNamed
    <2>6. cont \in NamedFrames(prog, abstractions, funcs')
      BY <2>2, NothingToDo, BindersKept, CarryOnNamed
    <2>7. f.kind = "partial" /\ r1.got = r1.use /\ r2.got = r2.use
      BY <2>4 DEF Fn, Ref
    <2> HIDE DEF f, frame, cont, r1, r2
    <2>8. QED BY <2>1, <2>3, <2>5, <2>6, <2>7, EnterNamed
  <1>4. QED BY <1>2, <1>3

LEMMA EmitClosureNamed ==
  ASSUME Linked, Named, NamesDistinct(prog), [Next]_vars, EmitClosure
  PROVE  Named'
  <1> DEFINE v(n) == ValueEntry(Top.env[n].b, NextFn, ClosureType(n))
             loaded == [n \in ClosureFree |-> v(n)]
             params == ParamEnv(prog.params[Now.b], NextFn, Top.ty)
             env == Hide(loaded, params)
             f == Fn("closure", Now.b, prog.name[Now.b], ctr.closure, Top.ty, NoCaptures)
             frame == Frame(NextFn, Top.ty, env, prog.body[Now.b])
             cont == Replace(<<>>)
             r == Ref(Top.fn, Now.b, Now.b, NextFn, NoCaptures)
  <1>1. /\ At("closure") /\ Enter(f, frame, cont) /\ ClosureLambdas = {}
        /\ ctr' = [ctr EXCEPT !.closure = @ + 1]
        /\ refs' = refs \cup {r}
        /\ UNCHANGED <<prog, registries, specs>>
    BY DEF EmitClosure
  <1>2. /\ stack # <<>> /\ Top.todo # <<>> /\ Now.b \in Binder /\ Top.ty \in Types
        /\ \A n \in DOMAIN Top.env : n \in Name /\ Top.env[n] \in Entry
    BY <1>1, AtParts
  <1>3. /\ prog \in Programs /\ NextFn \in Nat /\ ctr'.let = ctr.let
        /\ prog.params[Now.b] \in Seq(Binder) /\ \A b \in Binder : prog.name[b] \in Name
    BY <1>1, <1>2, ProgramParts, SMTT(30) DEF Linked, NextFn
  <1>4. loaded \in FromNames(Entry)
        /\ \A n \in DOMAIN loaded : loaded[n].kind = "val" /\ prog.name[loaded[n].b] = n
    <2>1. ClosureFree \subseteq DOMAIN Top.env
      BY DEF ClosureFree
    <2>2. \A n \in ClosureFree : /\ v(n) \in Entry /\ v(n).kind = "val"
                                 /\ v(n).b = Top.env[n].b /\ n \in Name
      BY <1>1, <1>2, <1>3, <2>1, ClosureTypeKind DEF ValueEntry, Entry
    <2> HIDE DEF v
    <2>3. QED BY <1>2, <2>1, <2>2, TopNamed DEF FromNames
  <1>5. params \in FromNames(Entry)
        /\ \A n \in DOMAIN params : params[n].kind = "val" /\ prog.name[params[n].b] = n
    BY <1>2, <1>3, ParamEnvKind
  <1> HIDE DEF loaded, params
  <1>6. env \in FromNames(Entry)
        /\ \A n \in DOMAIN env : env[n].kind = "val" /\ prog.name[env[n].b] = n
    BY <1>4, <1>5, FromNamesHide DEF Hide
  <1> HIDE DEF env
  <1>7. frame \in NamedFrames(prog, abstractions, funcs')
    BY <1>2, <1>3, <1>6, BodyItems, BodyHasNoWrap, NewFrameNamed
  <1>8. cont \in NamedFrames(prog, abstractions, funcs')
    BY <1>2, NothingToDo, BindersKept, CarryOnNamed
  <1>9. f.kind = "closure" /\ r.got = r.use
    BY DEF Fn, Ref
  <1> HIDE DEF f, frame, cont, r
  <1>10. QED BY <1>1, <1>3, <1>7, <1>8, <1>9, EnterNamed

-----------------------------------------------------------------------------

LEMMA NamedInit == ASSUME Init, NamesDistinct(prog) PROVE Named
  <1>1. /\ prog \in Programs /\ stack = <<>> /\ refs = {} /\ specs = <<>> /\ abstractions = <<>>
        /\ DOMAIN funcs = {1} /\ funcs[1].kind = "main"
    BY DEF Init
  <1>2. DOMAIN <<>> = {}
    OBVIOUS
  <1>3. NamedSymbols
    <2> DEFINE D == {prog.name[b] : b \in Builtin}
               b(n) == CHOOSE b \in Builtin : prog.name[b] = n
    <2>1. symbols = [n \in D |-> [b |-> b(n), fn |-> BuiltinFn]]
      BY DEF Init
    <2>2. \A n \in D : prog.name[b(n)] = n
      OBVIOUS
    <2> HIDE DEF D, b
    <2>3. QED BY <2>1, <2>2 DEF NamedSymbols
  <1>4. NamedStack
    BY <1>1, EmptyStackNamed DEF NamedStack
  <1>5. QED BY <1>1, <1>2, <1>3, <1>4 DEF Named, NamedLambdas, NamedValues, CachedLambdas,
                                           LexicalResolution

LEMMA NamedStep ==
  ASSUME Linked, Named, NamesDistinct(prog), [Next]_vars
  PROVE  Named'
  <1>1. CASE UNCHANGED vars
    BY <1>1 DEF vars, registries, Named, NamedLambdas, NamedSymbols, NamedValues, CachedLambdas,
         NamedStack, LexicalResolution
  <1>2. CASE Next
    BY <1>2, DeclareLambdaNamed, DeclareValueNamed, OtherStmtNamed, FinishNamed, ScopeNamed,
       LetValueNamed, BindValueNamed, LetLambdaNamed, UseNamed, ReferenceLambdaNamed, CallNamed,
       PartialApplyNamed, WrapNamed, CaptureLambdaNamed, EmitClosureNamed
       DEF Next
  <1>3. QED BY <1>1, <1>2

LEMMA ProgramKept == ASSUME [Next]_vars PROVE prog' = prog
  BY DEF Next, vars, registries, Fail, DeclareLambda, DeclareInlineable, DeclareValue,
         LowerExprStmt, EmitEntry, Finish, EnterScope, LeaveScope, LetValue, BindValue,
         LetLambda, ReadLocal, Inline, ReferenceLambda, ReadSymbol, Call, PartialApply, Wrap,
         ApplyValue, CaptureLambda, EmitClosure

ResolvedSoFar == NamesDistinct(prog) => Named

LEMMA AlwaysNamed == Spec => []ResolvedSoFar
  <1>1. Init => ResolvedSoFar
    BY NamedInit DEF ResolvedSoFar
  <1>2. Linked /\ ResolvedSoFar /\ [Next]_vars => ResolvedSoFar'
    BY NamedStep, ProgramKept DEF ResolvedSoFar, NamesDistinct
  <1>3. QED BY <1>1, <1>2, AlwaysLinked, PTL DEF Spec

(* In a program no two binders of which share a name, every use lowered is *)
(* resolved to the binder it is bound to, however deep the specializations *)
(* and scopes nest in which it is met: looking names up in a cloned        *)
(* environment, the inlined bindings, the lambdas and the symbols, in that *)
(* order, is lexical scoping.                                              *)
THEOREM NamesResolve == Spec => [](NamesDistinct(prog) => LexicalResolution)
  <1>1. ResolvedSoFar => (NamesDistinct(prog) => LexicalResolution)
    BY DEF ResolvedSoFar, Named
  <1>2. QED BY <1>1, AlwaysNamed, PTL

-----------------------------------------------------------------------------
(* A call passes, in front of its arguments, the captures its callee was  *)
(* compiled with.  The types of captures.                                  *)

UpTo(D, n) == {m \in D : NameOrder[m] <= NameOrder[n]}

Place(D, n) == Cardinality(UpTo(D, n))

Nth(D, k) == CHOOSE n \in D : Place(D, n) = k

LEMMA CaptureTypesDef ==
  ASSUME NEW c
  PROVE  CaptureTypes(c) = [k \in 1 .. Cardinality(DOMAIN c) |-> c[Nth(DOMAIN c, k)].ty]
  BY DEF CaptureTypes, Nth, Place, UpTo

(* Every name of a set has a place of its own in it. *)
LEMMA PlaceFound ==
  ASSUME NEW D \in SUBSET Name, NEW n \in D
  PROVE  Place(D, n) \in 1 .. Cardinality(D) /\ Nth(D, Place(D, n)) = n
  <1>1. IsFiniteSet(D) /\ \A m \in D : NameOrder[m] \in Nat
    BY FS_Subset, ConstantAssumption
  <1>2. \A m \in D : /\ IsFiniteSet(UpTo(D, m)) /\ Place(D, m) \in Nat
                     /\ Place(D, m) <= Cardinality(D)
    <2>1. TAKE m \in D
    <2>2. UpTo(D, m) \subseteq D
      BY DEF UpTo
    <2>3. QED BY <1>1, <2>2, FS_Subset, FS_CardinalityType DEF Place
  <1>3. Place(D, n) # 0
    <2>1. n \in UpTo(D, n)
      BY <1>1 DEF UpTo
    <2>2. QED BY <1>2, <2>1, FS_EmptySet DEF Place
  <1>4. ASSUME NEW l \in D, NEW m \in D, NameOrder[l] < NameOrder[m]
        PROVE  Place(D, l) # Place(D, m)
    <2>1. UpTo(D, l) \subseteq UpTo(D, m)
      BY <1>1, <1>4 DEF UpTo
    <2>2. m \in UpTo(D, m) /\ m \notin UpTo(D, l)
      BY <1>1, <1>4 DEF UpTo
    <2>3. QED BY <1>2, <2>1, <2>2, FS_Subset DEF Place
  <1>5. \A m \in D : Place(D, m) = Place(D, n) => m = n
    <2>1. TAKE m \in D
    <2>2. NameOrder[m] < NameOrder[n] \/ NameOrder[n] < NameOrder[m] \/ m = n
      BY <1>1, ConstantAssumption
    <2>3. QED BY <1>4, <2>2
  <1>6. Nth(D, Place(D, n)) = n
    BY <1>5 DEF Nth
  <1>7. Cardinality(D) \in Nat
    BY <1>1, FS_CardinalityType
  <1>8. QED BY <1>2, <1>3, <1>6, <1>7

(* Equal types are types of equally many captures. *)
LEMMA TypesCount ==
  ASSUME NEW c \in FromNames(Captured), NEW d \in FromNames(Captured),
         CaptureTypes(c) = CaptureTypes(d)
  PROVE  (DOMAIN c = {}) <=> (DOMAIN d = {})
  <1>1. IsFiniteSet(DOMAIN c) /\ IsFiniteSet(DOMAIN d)
    BY FromNamesDef, FS_Subset, ConstantAssumption
  <1>2. Cardinality(DOMAIN c) \in Nat /\ Cardinality(DOMAIN d) \in Nat
    BY <1>1, FS_CardinalityType
  <1>3. 1 .. Cardinality(DOMAIN c) = 1 .. Cardinality(DOMAIN d)
    BY CaptureTypesDef
  <1>4. Cardinality(DOMAIN c) = Cardinality(DOMAIN d)
    <2> DEFINE x == Cardinality(DOMAIN c)
               y == Cardinality(DOMAIN d)
    <2>1. x \in Nat /\ y \in Nat /\ 1 .. x = 1 .. y
      BY <1>2, <1>3
    <2> HIDE DEF x, y
    <2>2. x = y
      <3>1. \A i \in Nat : (1 <= i /\ i <= x) <=> (1 <= i /\ i <= y)
        BY <2>1
      <3>2. QED BY <2>1, <3>1
    <2>3. QED BY <2>2 DEF x, y
  <1>5. QED BY <1>1, <1>4, FS_EmptySet

(* Captures of the same names and types are the same captures. *)
LEMMA TypesTellCaptures ==
  ASSUME NamesDistinct(prog), NEW c \in FromNames(Captured), NEW d \in FromNames(Captured),
         NamedCaptures(c), NamedCaptures(d),
         DOMAIN c = DOMAIN d, CaptureTypes(c) = CaptureTypes(d)
  PROVE  c = d
  <1> DEFINE D == DOMAIN c
  <1>1. D \in SUBSET Name /\ (\A n \in D : c[n] \in Captured /\ d[n] \in Captured)
    BY FromNamesDef
  <1>2. ASSUME NEW n \in D PROVE c[n] = d[n]
    <2>1. c[n].ty = d[n].ty
      <3>1. Place(D, n) \in 1 .. Cardinality(D) /\ Nth(D, Place(D, n)) = n
        BY <1>1, PlaceFound
      <3>2. CaptureTypes(c)[Place(D, n)] = c[n].ty
        BY <3>1, CaptureTypesDef
      <3>3. CaptureTypes(d)[Place(D, n)] = d[n].ty
        BY <3>1, CaptureTypesDef
      <3>4. QED BY <3>2, <3>3
    <2>2. c[n].b = d[n].b
      BY <1>1 DEF NamedCaptures, NamesDistinct, Captured
    <2>3. QED BY <1>1, <2>1, <2>2 DEF Captured
  <1>3. c = [n \in D |-> c[n]] /\ d = [n \in D |-> d[n]]
    BY FromNamesDef
  <1>4. QED BY <1>2, <1>3

LEMMA NoNamesNoCaptures ==
  ASSUME NEW c \in FromNames(Captured), DOMAIN c = {}
  PROVE  c = NoCaptures
  <1>1. c = [n \in {} |-> c[n]]
    BY FromNamesDef
  <1>2. <<>> \in FromNames(Captured) /\ DOMAIN <<>> = {}
    BY FromNamesEmpty, NothingToDo
  <1>3. <<>> = [n \in {} |-> <<>>[n]]
    BY <1>2, FromNamesDef
  <1>4. QED BY <1>1, <1>3 DEF NoCaptures

-----------------------------------------------------------------------------
(* What an environment lets a lambda capture *)

(* The names lambda b, known as self, captures in env. *)
CaptureNames(p, b, self, env) ==
  {m \in (FreeVariables(p, b) \ {self}) \cap DOMAIN env : IsValue(env, m)}

(* An environment binds what is bound within bodies.  In each, a local     *)
(* lambda has either all its captures or none of them: full says which all *)
(* of them are, for each generated name.                                   *)
CapturingEnv(p, full, env) ==
  \A n \in DOMAIN env :
    /\ env[n].b \in LocalBinders(p)
    /\ env[n].kind = "abs" =>
         /\ env[n].sym \in DOMAIN full
         /\ CaptureNames(p, env[n].b, n, env) \in {{}, full[env[n].sym]}

(* An item still to be lowered: what it binds or closes over is known to   *)
(* the program, what it wraps was compiled without captures.               *)
PendingItem(p, fns, it) ==
  /\ it.op \in {"let", "letfn", "bind"} => it.b \in LocalBinders(p)
  /\ it.op \in {"letfn", "closure"} => it.b \in LocalLambdas(p)
  /\ it.op = "wrap" => it.to \in DOMAIN fns /\ fns[it.to].caps = NoCaptures

(* What is still to be bound was met, in the source, after all that is     *)
(* bound and in the order in which it is still to be lowered.              *)
InOrder(pos, env, todo) ==
  \A i \in DOMAIN todo : todo[i].op \in Opening =>
    /\ \A n \in DOMAIN env : pos[env[n].b] < pos[todo[i].b]
    /\ \A j \in DOMAIN todo :
         j < i /\ todo[j].op \in Opening => pos[todo[j].b] < pos[todo[i].b]

CapturingFrames(p, pos, full, fns) ==
  {fr \in Frames : /\ CapturingEnv(p, full, fr.env)
                   /\ \A k \in DOMAIN fr.todo : PendingItem(p, fns, fr.todo[k])
                   /\ InOrder(pos, fr.env, fr.todo)}

(* A lambda under a generated name is one of a body, any other one of the  *)
(* top level.                                                              *)
RegisteredLambdas(full) ==
  \A n \in DOMAIN abstractions :
    IF n \in DOMAIN full THEN abstractions[n] \in LocalLambdas(prog) \cap LocalBinders(prog)
    ELSE \E i \in DOMAIN prog.top : prog.top[i].kind = "fn" /\ prog.top[i].b = abstractions[n]

(* A symbol is that of a runtime function or of a top-level value.         *)
SymbolsOfValues ==
  \A n \in DOMAIN symbols :
    \/ symbols[n].fn = BuiltinFn
    \/ symbols[n].fn \in DOMAIN funcs /\ funcs[symbols[n].fn].kind = "val"

(* What is cached is a specialization, under its own instantiation. *)
CachedUnderKey ==
  \A key \in DOMAIN specs : /\ funcs[specs[key]].kind = "spec"
                            /\ key = KeyOf(funcs[specs[key]])

(* Captures that a specialization of the lambda under sym may receive. *)
AllOrNone(full, sym, caps) ==
  DOMAIN caps = {} \/ (sym \in DOMAIN full /\ DOMAIN caps = full[sym])

SpecializedWith(full) ==
  \A i \in DOMAIN funcs : funcs[i].kind = "spec" =>
    NamedCaptures(funcs[i].caps) /\ AllOrNone(full, funcs[i].of, funcs[i].caps)

CapturingStack(pos, full) == stack \in Seq(CapturingFrames(prog, pos, full, funcs))

Ordered(pos) == NamesDistinct(prog) /\ pos \in [Binder -> Nat] /\ MetInOrder(prog, pos)

(* The invariant: pos orders the program's binders, full says what each    *)
(* local lambda registered so far captures.                                *)
Settled(pos, full) ==
  /\ Ordered(pos)
  /\ DOMAIN full = Generated(ctr.let)
  /\ RegisteredLambdas(full) /\ SymbolsOfValues /\ CachedUnderKey /\ SpecializedWith(full)
  /\ CapturingStack(pos, full)
  /\ CaptureAgreement

-----------------------------------------------------------------------------
(* Bodies *)

(* A parameter of a lambda is not free in it. *)
LEMMA ParametersNotFree ==
  ASSUME NEW p, NEW b, NEW i \in DOMAIN p.params[b]
  PROVE  p.name[p.params[b][i]] \notin FreeVariables(p, b)
  BY DEF FreeVariables, NamesOf

(* The items of a body are what the program says of its bodies. *)
LEMMA BodyPending ==
  ASSUME prog \in Programs, NEW b \in Binder, NEW fns
  PROVE  \A k \in DOMAIN prog.body[b] : PendingItem(prog, fns, prog.body[b][k])
  <1>1. TAKE k \in DOMAIN prog.body[b]
  <1> DEFINE it == prog.body[b][k]
  <1>2. it.op # "wrap"
    BY BodyHasNoWrap
  <1>3. it.op \in {"let", "letfn", "bind"} => it.b \in LocalBinders(prog)
    BY DEF LocalBinders, Bindings
  <1>4. it.op \in {"letfn", "closure"} => it.b \in LocalLambdas(prog)
    BY DEF LocalLambdas, Bindings
  <1>5. QED BY <1>2, <1>3, <1>4 DEF PendingItem

(* They come after what the body is the body of and its parameters.        *)
LEMMA BodyInOrder ==
  ASSUME prog \in Programs, NEW pos, Ordered(pos), NEW b \in Binder, NEW env \in FromNames(Entry),
         \A n \in DOMAIN env : \/ pos[env[n].b] <= pos[b]
                               \/ \E i \in DOMAIN prog.params[b] : env[n].b = prog.params[b][i]
  PROVE  InOrder(pos, env, prog.body[b])
  <1> DEFINE body == prog.body[b]
  <1>1. body \in Seq(Item)
    BY BodyItems
  <1>2. ASSUME NEW i \in DOMAIN body, body[i].op \in Opening
        PROVE  /\ \A n \in DOMAIN env : pos[env[n].b] < pos[body[i].b]
               /\ \A j \in DOMAIN body :
                    j < i /\ body[j].op \in Opening => pos[body[j].b] < pos[body[i].b]
    <2>1. body[i].b \in Binder /\ \A n \in DOMAIN env : env[n].b \in Binder
      <3>1. body[i] \in Item
        BY <1>1
      <3>2. \A n \in DOMAIN env : env[n] \in Entry
        BY FromNamesDef
      <3>3. QED BY <3>1, <3>2 DEF Item, Entry
    <2>2. \A x \in Binder : pos[x] \in Nat
      BY DEF Ordered
    <2>3. /\ pos[b] < pos[body[i].b]
          /\ \A k \in DOMAIN prog.params[b] : pos[prog.params[b][k]] < pos[body[i].b]
          /\ \A j \in DOMAIN body :
               j < i /\ body[j].op \in Opening => pos[body[j].b] < pos[body[i].b]
      BY <1>2 DEF Ordered, MetInOrder
    <2>4. ASSUME NEW n \in DOMAIN env PROVE pos[env[n].b] < pos[body[i].b]
      <3>1. CASE pos[env[n].b] <= pos[b]
        BY <2>1, <2>2, <2>3, <3>1
      <3>2. CASE \E k \in DOMAIN prog.params[b] : env[n].b = prog.params[b][k]
        BY <2>3, <3>2
      <3>3. QED BY <3>1, <3>2
    <2>5. QED BY <2>3, <2>4
  <1>3. QED BY <1>2 DEF InOrder

-----------------------------------------------------------------------------
(* Frames *)

(* More functions leave a frame's promises standing. *)
LEMMA CapturingFramesGrow ==
  ASSUME NEW p, NEW pos, NEW full, NEW f, NEW g,
         \A i \in DOMAIN f : i \in DOMAIN g /\ g[i].caps = f[i].caps
  PROVE  CapturingFrames(p, pos, full, f) \subseteq CapturingFrames(p, pos, full, g)
  BY DEF CapturingFrames, PendingItem

LEMMA CapturesKept ==
  ASSUME Linked, [Next]_vars
  PROVE  /\ \A i \in DOMAIN funcs : i \in DOMAIN funcs' /\ funcs'[i].caps = funcs[i].caps
         /\ \A pos, full : CapturingFrames(prog, pos, full, funcs)
                             \subseteq CapturingFrames(prog, pos, full, funcs')
  <1>1. \A i \in DOMAIN funcs : i \in DOMAIN funcs' /\ funcs'[i].caps = funcs[i].caps
    BY FunctionsKept
  <1>2. QED BY <1>1, CapturingFramesGrow

LEMMA TopCapturing ==
  ASSUME NEW pos, NEW full, Settled(pos, full), stack # <<>>
  PROVE  /\ Top \in CapturingFrames(prog, pos, full, funcs)
         /\ CapturingEnv(prog, full, Top.env) /\ InOrder(pos, Top.env, Top.todo)
         /\ \A k \in DOMAIN Top.todo : PendingItem(prog, funcs, Top.todo[k])
  <1>1. Top \in CapturingFrames(prog, pos, full, funcs)
    BY LastElement DEF Settled, CapturingStack, Top
  <1>2. QED BY <1>1 DEF CapturingFrames

(* The item a frame is at, and those after it. *)
LEMMA NowCapturing ==
  ASSUME Linked, NEW pos, NEW full, Settled(pos, full), stack # <<>>, Top.todo # <<>>
  PROVE  LET rest == Tail(Top.todo) IN
         /\ PendingItem(prog, funcs, Now)
         /\ Now.op \in Opening => \A n \in DOMAIN Top.env : pos[Top.env[n].b] < pos[Now.b]
         /\ \A k \in DOMAIN rest : PendingItem(prog, funcs, rest[k])
         /\ InOrder(pos, Top.env, rest)
         /\ Now.op \in Opening => \A k \in DOMAIN rest :
                                    rest[k].op \in Opening => pos[Now.b] < pos[rest[k].b]
  <1> DEFINE todo == Top.todo
             rest == Tail(todo)
             env == Top.env
  <1>1. todo \in Seq(Item) /\ todo # <<>> /\ rest \in Seq(Item)
    BY TopParts, NowParts
  <1>2. 1 \in DOMAIN todo /\ Now = todo[1]
    BY <1>1 DEF Now
  <1>3. \A k \in DOMAIN rest : k + 1 \in DOMAIN todo /\ rest[k] = todo[k + 1] /\ k \in Nat /\ k >= 1
    BY <1>1
  <1>4. (\A k \in DOMAIN todo : PendingItem(prog, funcs, todo[k])) /\ InOrder(pos, env, todo)
    BY TopCapturing
  <1> HIDE DEF rest, todo, env
  <1>5. \A i \in DOMAIN todo : todo[i].op \in Opening =>
          /\ \A n \in DOMAIN env : pos[env[n].b] < pos[todo[i].b]
          /\ \A j \in DOMAIN todo :
               j < i /\ todo[j].op \in Opening => pos[todo[j].b] < pos[todo[i].b]
    BY <1>4 DEF InOrder
  <1>6. PendingItem(prog, funcs, Now) /\ \A k \in DOMAIN rest : PendingItem(prog, funcs, rest[k])
    BY <1>2, <1>3, <1>4
  <1>7. Now.op \in Opening => \A n \in DOMAIN env : pos[env[n].b] < pos[Now.b]
    BY <1>2, <1>5
  <1>8. InOrder(pos, env, rest)
    <2>1. \A i, j \in DOMAIN rest : j < i => j + 1 < i + 1
      BY <1>3
    <2>2. QED BY <1>3, <1>5, <2>1 DEF InOrder
  <1>9. Now.op \in Opening => \A k \in DOMAIN rest :
                                rest[k].op \in Opening => pos[Now.b] < pos[rest[k].b]
    <2>1. \A k \in DOMAIN rest : 1 < k + 1
      BY <1>3
    <2>2. QED BY <1>2, <1>3, <1>5, <2>1
  <1>10. QED BY <1>6, <1>7, <1>8, <1>9 DEF rest, todo, env

(* Items that take the place of the one the frame is at: at most one of    *)
(* them opens anything, and then the same as that item.                    *)
StandsFor(items) ==
  \E j : \A i \in DOMAIN items : items[i].op \in Opening =>
           i = j /\ Now.op \in Opening /\ items[i].b = Now.b

LEMMA ReplaceCapturing ==
  ASSUME Linked, NEW pos, NEW full, Settled(pos, full), stack # <<>>, Top.todo # <<>>,
         NEW items \in Seq(Item), StandsFor(items), NEW fns,
         \A i \in DOMAIN funcs : i \in DOMAIN fns /\ fns[i].caps = funcs[i].caps,
         \A k \in DOMAIN items : PendingItem(prog, fns, items[k])
  PROVE  Replace(items) \in CapturingFrames(prog, pos, full, fns)
  <1> DEFINE rest == Tail(Top.todo)
             env == Top.env
             todo == items \o rest
  <1>1. /\ Replace(items) \in Frames /\ Replace(items).env = env /\ Replace(items).todo = todo
        /\ rest \in Seq(Item)
    BY ReplaceKind, NowParts
  <1>2. /\ Now.op \in Opening => \A n \in DOMAIN env : pos[env[n].b] < pos[Now.b]
        /\ \A k \in DOMAIN rest : PendingItem(prog, funcs, rest[k])
        /\ InOrder(pos, env, rest)
        /\ Now.op \in Opening => \A k \in DOMAIN rest :
                                   rest[k].op \in Opening => pos[Now.b] < pos[rest[k].b]
    BY NowCapturing
  <1>3. CapturingEnv(prog, full, env)
    BY TopCapturing
  <1>4. \A k \in DOMAIN rest : PendingItem(prog, fns, rest[k])
    BY <1>2 DEF PendingItem
  <1> HIDE DEF rest, env
  <1>5. \A k \in DOMAIN todo :
          \/ k \in DOMAIN items /\ todo[k] = items[k]
          \/ /\ k \in Nat /\ k > Len(items) /\ Len(items) \in Nat
             /\ k - Len(items) \in DOMAIN rest /\ todo[k] = rest[k - Len(items)]
    BY <1>1
  <1>6. \A k \in DOMAIN items : k \in Nat /\ k <= Len(items)
    OBVIOUS
  <1> HIDE DEF todo
  <1>7. \A k \in DOMAIN todo : PendingItem(prog, fns, todo[k])
    BY <1>4, <1>5
  <1>8. InOrder(pos, env, todo)
    <2>1. PICK one : \A i \in DOMAIN items : items[i].op \in Opening =>
                       i = one /\ Now.op \in Opening /\ items[i].b = Now.b
      BY DEF StandsFor
    <2>2. ASSUME NEW i \in DOMAIN todo, todo[i].op \in Opening
          PROVE  /\ \A n \in DOMAIN env : pos[env[n].b] < pos[todo[i].b]
                 /\ \A j \in DOMAIN todo :
                      j < i /\ todo[j].op \in Opening => pos[todo[j].b] < pos[todo[i].b]
      <3>1. CASE i \in DOMAIN items /\ todo[i] = items[i]
        <4>1. i = one /\ Now.op \in Opening /\ todo[i].b = Now.b
          BY <2>1, <2>2, <3>1
        <4>2. ASSUME NEW j \in DOMAIN todo, j < i, todo[j].op \in Opening PROVE FALSE
          <5>1. CASE j \in DOMAIN items /\ todo[j] = items[j]
            <6>1. j = one
              BY <2>1, <4>2, <5>1
            <6>2. j \in Nat
              BY <1>6, <5>1
            <6>3. QED BY <4>1, <4>2, <6>1, <6>2
          <5>2. CASE j \in Nat /\ j > Len(items) /\ Len(items) \in Nat
            BY <1>6, <3>1, <4>2, <5>2
          <5>3. QED BY <1>5, <5>1, <5>2
        <4>3. QED BY <1>2, <4>1, <4>2
      <3>2. CASE /\ i \in Nat /\ i > Len(items) /\ Len(items) \in Nat
                 /\ i - Len(items) \in DOMAIN rest /\ todo[i] = rest[i - Len(items)]
        <4> DEFINE l == i - Len(items)
        <4>1. /\ \A n \in DOMAIN env : pos[env[n].b] < pos[rest[l].b]
              /\ \A m \in DOMAIN rest :
                   m < l /\ rest[m].op \in Opening => pos[rest[m].b] < pos[rest[l].b]
          BY <1>2, <2>2, <3>2 DEF InOrder
        <4>2. ASSUME NEW j \in DOMAIN todo, j < i, todo[j].op \in Opening
              PROVE  pos[todo[j].b] < pos[todo[i].b]
          <5>1. CASE j \in DOMAIN items /\ todo[j] = items[j]
            BY <1>2, <2>1, <2>2, <3>2, <4>2, <5>1
          <5>2. CASE /\ j \in Nat /\ j > Len(items) /\ Len(items) \in Nat
                     /\ j - Len(items) \in DOMAIN rest /\ todo[j] = rest[j - Len(items)]
            <6>1. j - Len(items) < l
              BY <3>2, <4>2, <5>2
            <6>2. QED BY <3>2, <4>1, <4>2, <5>2, <6>1
          <5>3. QED BY <1>5, <5>1, <5>2
        <4>3. QED BY <3>2, <4>1, <4>2
      <3>3. QED BY <1>5, <3>1, <3>2
    <2>3. QED BY <2>2 DEF InOrder
  <1>9. QED BY <1>1, <1>3, <1>7, <1>8 DEF CapturingFrames

(* Uses open nothing and promise nothing. *)
LEMMA UsesCapturing ==
  ASSUME NEW items, \A k \in DOMAIN items : items[k].op = "use", NEW fns
  PROVE  StandsFor(items) /\ \A k \in DOMAIN items : PendingItem(prog, fns, items[k])
  BY DEF StandsFor, Opening, PendingItem

LEMMA CarryOnCapturing ==
  ASSUME Linked, NEW pos, NEW full, Settled(pos, full), [Next]_vars, stack # <<>>, Top.todo # <<>>,
         NEW items \in Seq(Item), \A k \in DOMAIN items : items[k].op = "use"
  PROVE  Replace(items) \in CapturingFrames(prog, pos, full, funcs')
  BY CapturesKept, UsesCapturing, ReplaceCapturing

LEMMA NewFrameCapturing ==
  ASSUME NEW p, NEW pos, NEW full, NEW f, NEW fn \in Nat, NEW ty \in Types,
         NEW env \in FromNames(Entry), NEW todo \in Seq(Item),
         CapturingEnv(p, full, env), InOrder(pos, env, todo),
         \A k \in DOMAIN todo : PendingItem(p, f, todo[k])
  PROVE  Frame(fn, ty, env, todo) \in CapturingFrames(p, pos, full, f)
  BY DEF Frame, CapturingFrames, Frames

-----------------------------------------------------------------------------
(* Steps *)

(* A reference made by a step passes what its target takes. *)
Passes(r) == \/ r \in refs
             \/ r.to = BuiltinFn
             \/ r.to \in DOMAIN funcs' /\ (funcs'[r.to].kind = "spec" => r.caps = funcs'[r.to].caps)

LEMMA AgreementKept ==
  ASSUME Linked, NEW pos, NEW full, Settled(pos, full), [Next]_vars,
         \A r \in refs' : Passes(r)
  PROVE  CaptureAgreement'
  <1>1. /\ DOMAIN funcs = 1 .. Len(funcs) /\ Len(funcs) \in Nat
        /\ \A i \in DOMAIN funcs : /\ funcs'[i].kind = funcs[i].kind
                                   /\ funcs'[i].caps = funcs[i].caps
    BY FunctionsKept
  <1>2. ASSUME NEW r \in refs', r.to # BuiltinFn, funcs'[r.to].kind = "spec"
        PROVE  r.caps = funcs'[r.to].caps
    <2>1. CASE r \in refs
      <3>1. r.to \in 0 .. Len(funcs)
        BY <2>1 DEF Linked, GoodRefs
      <3>2. r.to \in DOMAIN funcs
        BY <1>1, <1>2, <3>1 DEF BuiltinFn
      <3>3. QED BY <1>1, <1>2, <2>1, <3>2 DEF Settled, CaptureAgreement
    <2>2. CASE r \notin refs
      BY <1>2, <2>2 DEF Passes
    <2>3. QED BY <2>1, <2>2
  <1>3. QED BY <1>2 DEF CaptureAgreement

(* The instantiations of the functions there were are the same. *)
LEMMA KeysKept ==
  ASSUME Linked, [Next]_vars
  PROVE  \A i \in DOMAIN funcs : /\ i \in DOMAIN funcs' /\ funcs'[i].kind = funcs[i].kind
                                 /\ KeyOf(funcs'[i]) = KeyOf(funcs[i])
  BY FunctionsKept DEF KeyOf

LEMMA CachedKeysKept ==
  ASSUME Linked, NEW pos, NEW full, Settled(pos, full), [Next]_vars, UNCHANGED specs
  PROVE  CachedUnderKey'
  <1>1. \A key \in DOMAIN specs : specs[key] \in DOMAIN funcs
    BY FunctionsKept DEF Linked
  <1>2. \A key \in DOMAIN specs : /\ funcs[specs[key]].kind = "spec"
                                  /\ key = KeyOf(funcs[specs[key]])
    BY DEF Settled, CachedUnderKey
  <1>3. \A key \in DOMAIN specs : /\ funcs'[specs[key]].kind = "spec"
                                  /\ key = KeyOf(funcs'[specs[key]])
    BY <1>1, <1>2, KeysKept
  <1>4. QED BY <1>3 DEF CachedUnderKey

LEMMA SpecializedKept ==
  ASSUME Linked, NEW full, SpecializedWith(full), NEW more, [Next]_vars, UNCHANGED prog,
         DOMAIN full \subseteq DOMAIN more, \A s \in DOMAIN full : more[s] = full[s],
         \A i \in DOMAIN funcs' : i \notin DOMAIN funcs => funcs'[i].kind # "spec"
  PROVE  SpecializedWith(more)'
  <1>1. \A i \in DOMAIN funcs : /\ funcs'[i].kind = funcs[i].kind /\ funcs'[i].of = funcs[i].of
                                /\ funcs'[i].caps = funcs[i].caps
    BY FunctionsKept
  <1>2. ASSUME NEW i \in DOMAIN funcs', funcs'[i].kind = "spec"
        PROVE  (NamedCaptures(funcs[i].caps) /\ AllOrNone(more, funcs[i].of, funcs[i].caps))'
    <2>1. i \in DOMAIN funcs
      BY <1>2
    <2>2. NamedCaptures(funcs[i].caps) /\ AllOrNone(full, funcs[i].of, funcs[i].caps)
      BY <1>1, <1>2, <2>1 DEF SpecializedWith
    <2>3. QED BY <1>1, <2>1, <2>2 DEF NamedCaptures, AllOrNone
  <1>3. QED BY <1>2 DEF SpecializedWith

(* A step within a statement that leaves the registries alone. *)
LEMMA SettledWithin ==
  ASSUME Linked, NEW pos, NEW full, Settled(pos, full), [Next]_vars,
         UNCHANGED <<prog, registries>>, ctr'.let = ctr.let,
         CachedUnderKey', SpecializedWith(full)', CapturingStack(pos, full)',
         \A r \in refs' : Passes(r)
  PROVE  Settled(pos, full)'
  <1>1. Ordered(pos)'
    BY DEF Settled, Ordered, NamesDistinct, MetInOrder
  <1>2. DOMAIN full = Generated(ctr'.let) /\ RegisteredLambdas(full)'
    BY DEF Settled, RegisteredLambdas, registries
  <1>3. SymbolsOfValues'
    BY FunctionsKept DEF Settled, SymbolsOfValues, registries
  <1>4. CaptureAgreement'
    BY AgreementKept
  <1>5. QED BY <1>1, <1>2, <1>3, <1>4 DEF Settled, Generated

(* A step that begins no function. *)
LEMMA SettledQuiet ==
  ASSUME Linked, NEW pos, NEW full, Settled(pos, full), [Next]_vars,
         UNCHANGED <<prog, registries, specs, ctr, funcs>>,
         CapturingStack(pos, full)', \A r \in refs' : Passes(r)
  PROVE  Settled(pos, full)'
  <1>1. CachedUnderKey'
    BY CachedKeysKept
  <1>2. SpecializedWith(full)'
    BY SpecializedKept DEF Settled
  <1>3. QED BY <1>1, <1>2, SettledWithin

LEMMA FailSettled ==
  ASSUME Linked, NEW pos, NEW full, Settled(pos, full), [Next]_vars, NEW how, Fail(how)
  PROVE  Settled(pos, full)'
  <1>1. UNCHANGED <<prog, registries, specs, ctr, funcs, refs, stack>>
    BY DEF Fail
  <1>2. CapturingStack(pos, full)'
    BY <1>1 DEF Settled, CapturingStack
  <1>3. QED BY <1>1, <1>2, SettledQuiet DEF Passes

LEMMA UnfoldsSettled ==
  ASSUME Linked, NEW pos, NEW full, Settled(pos, full), [Next]_vars, Unfolds,
         stack # <<>>, Top.todo # <<>>, UNCHANGED <<prog, registries, specs, ctr, funcs>>,
         \A r \in refs' : Passes(r)
  PROVE  Settled(pos, full)'
  <1>1. PICK items \in Seq(Item) : /\ \A k \in DOMAIN items : items[k].op = "use"
                                   /\ Resume(Replace(items))
    BY DEF Unfolds
  <1>2. Replace(items) \in CapturingFrames(prog, pos, full, funcs)
    BY <1>1, CarryOnCapturing
  <1>3. stack' \in Seq(CapturingFrames(prog, pos, full, funcs))
    BY <1>1, <1>2, ResumeSeq DEF Settled, CapturingStack
  <1>4. CapturingStack(pos, full)'
    BY <1>3 DEF CapturingStack
  <1>5. QED BY <1>4, SettledQuiet

(* Reading a value, a parameter or a symbol passes no captures. *)
LEMMA UseSettled ==
  ASSUME Linked, NEW pos, NEW full, Settled(pos, full), [Next]_vars,
         ReadLocal \/ Inline \/ ReadSymbol \/ ApplyValue
  PROVE  Settled(pos, full)'
  <1>1. CASE Fail("error")
    BY <1>1, FailSettled
  <1>2. CASE ReadLocal
    <2> DEFINE r == Ref(Top.fn, Now.f, Top.env[NowName].b, BuiltinFn, NoCaptures)
    <2>1. /\ At("use") /\ refs' = refs \cup {r} /\ Resume(Replace(<<>>))
          /\ UNCHANGED <<prog, registries, specs, ctr, funcs>>
      BY <1>2 DEF ReadLocal
    <2>2. Passes(r)
      BY DEF Passes, Ref
    <2> HIDE DEF r
    <2>3. QED BY <2>1, <2>2, AtParts, ReadUnfolds, UnfoldsSettled DEF Passes
  <1>3. CASE Inline
    <2>1. At("use") /\ UNCHANGED <<prog, registries, specs, ctr, funcs, refs>>
      BY <1>3 DEF Inline
    <2>2. QED BY <1>3, <2>1, AtParts, InlineUnfolds, UnfoldsSettled DEF Passes
  <1>4. CASE ReadSymbol /\ ~Fail("error")
    <2> DEFINE r == Ref(Top.fn, Now.f, symbols[NowName].b, symbols[NowName].fn, NoCaptures)
    <2>1. /\ At("use") /\ NowName \in DOMAIN symbols /\ refs' = refs \cup {r}
          /\ Resume(Replace(<<>>))
          /\ UNCHANGED <<prog, registries, specs, ctr, funcs>>
      BY <1>4 DEF ReadSymbol
    <2>2. Passes(r)
      <3>1. \/ symbols[NowName].fn = BuiltinFn
            \/ /\ symbols[NowName].fn \in DOMAIN funcs'
               /\ funcs'[symbols[NowName].fn].kind = "val"
        BY <2>1 DEF Settled, SymbolsOfValues
      <3>2. QED BY <3>1 DEF Passes, Ref
    <2> HIDE DEF r
    <2>3. QED BY <2>1, <2>2, AtParts, ReadUnfolds, UnfoldsSettled DEF Passes
  <1>5. CASE ApplyValue /\ ~Fail("error")
    <2>1. At("use") /\ UNCHANGED <<prog, registries, specs, ctr, funcs, refs>>
      BY <1>5 DEF ApplyValue
    <2>2. QED BY <1>5, <2>1, AtParts, ApplyValueUnfolds, UnfoldsSettled DEF Passes
  <1>6. QED BY <1>1, <1>2, <1>3, <1>4, <1>5

-----------------------------------------------------------------------------
(* Statements *)

LEMMA OrderedKept ==
  ASSUME NEW pos, Ordered(pos), UNCHANGED prog
  PROVE  Ordered(pos)'
  BY DEF Ordered, NamesDistinct, MetInOrder

LEMMA EmptyStackCapturing ==
  ASSUME NEW p, NEW pos, NEW full, NEW f
  PROVE  <<>> \in Seq(CapturingFrames(p, pos, full, f))
  OBVIOUS

LEMMA DeclareLambdaSettled ==
  ASSUME Linked, NEW pos, NEW full, Settled(pos, full), [Next]_vars, DeclareLambda
  PROVE  Settled(pos, full)'
  <1> DEFINE b == prog.top[pc].b
  <1>1. /\ b \in Binder /\ pc \in 1 .. Len(prog.top) /\ prog.top[pc].kind = "fn"
        /\ abstractions' = Put(abstractions, prog.name[b], b) /\ stack' = <<>>
        /\ UNCHANGED <<prog, symbols, specs, ctr, funcs, refs>>
    BY StatementParts DEF DeclareLambda, AtStmt
  <1>2. \E i \in DOMAIN prog.top : prog.top[i].kind = "fn" /\ prog.top[i].b = b
    BY <1>1, ProgramParts, SMTT(30) DEF Linked
  <1>3. prog.name[b] \notin DOMAIN full
    BY <1>1, NotGenerated DEF Settled, Ordered
  <1> HIDE DEF b
  <1>4. RegisteredLambdas(full)'
    BY <1>1, <1>2, <1>3 DEF Settled, RegisteredLambdas, Put
  <1>5. CapturingStack(pos, full)'
    BY <1>1, EmptyStackCapturing DEF CapturingStack
  <1>6. CachedUnderKey' /\ SpecializedWith(full)'
    BY <1>1, CachedKeysKept, SpecializedKept DEF Settled
  <1>7. SymbolsOfValues' /\ CaptureAgreement' /\ DOMAIN full = Generated(ctr.let)'
    BY <1>1 DEF Settled, SymbolsOfValues, CaptureAgreement, Generated
  <1>8. QED BY <1>1, <1>4, <1>5, <1>6, <1>7, OrderedKept DEF Settled

LEMMA FirstFrameCapturing ==
  ASSUME prog \in Programs, NEW pos, Ordered(pos), NEW full, NEW f, NEW fn \in Nat, NEW b \in Binder
  PROVE  Frame(fn, DefaultType, EmptyEnv, prog.body[b]) \in CapturingFrames(prog, pos, full, f)
  <1>1. EmptyEnv \in FromNames(Entry) /\ DOMAIN EmptyEnv = {}
    BY FromNamesEmpty DEF EmptyEnv
  <1>2. CapturingEnv(prog, full, EmptyEnv) /\ InOrder(pos, EmptyEnv, prog.body[b])
    BY <1>1, BodyInOrder DEF CapturingEnv
  <1>3. prog.body[b] \in Seq(Item) /\ \A k \in DOMAIN prog.body[b] : PendingItem(prog, f, prog.body[b][k])
    BY BodyItems, BodyPending
  <1>4. QED BY <1>1, <1>2, <1>3, NewFrameCapturing, ConstantAssumption

LEMMA DeclareValueSettled ==
  ASSUME Linked, NEW pos, NEW full, Settled(pos, full), [Next]_vars, DeclareValue
  PROVE  Settled(pos, full)'
  <1> DEFINE b == prog.top[pc].b
             f == Fn("val", b, prog.name[b], 0, DefaultType, NoCaptures)
             frame == Frame(NextFn, DefaultType, EmptyEnv, prog.body[b])
  <1>1. b \in Binder /\ funcs' = Append(funcs, f) /\ stack' = <<frame>>
        /\ UNCHANGED <<prog, registries, specs, ctr, refs>>
    BY StatementParts DEF DeclareValue
  <1>2. NextFn \in Nat /\ funcs \in Seq(Fns) /\ prog \in Programs
    BY DEF NextFn, Linked
  <1>3. \A i \in DOMAIN funcs' : i \notin DOMAIN funcs => funcs'[i].kind = "val"
    <2>1. f.kind = "val"
      BY DEF Fn
    <2> HIDE DEF f
    <2>2. QED BY <1>1, <1>2, <2>1
  <1>4. frame \in CapturingFrames(prog, pos, full, funcs')
    BY <1>1, <1>2, FirstFrameCapturing DEF Settled
  <1> HIDE DEF frame
  <1>5. CapturingStack(pos, full)'
    BY <1>1, <1>4 DEF CapturingStack
  <1>6. CachedUnderKey' /\ SpecializedWith(full)'
    BY <1>1, <1>3, CachedKeysKept, SpecializedKept DEF Settled
  <1>7. QED BY <1>1, <1>5, <1>6, SettledWithin DEF Passes

LEMMA OtherStmtSettled ==
  ASSUME Linked, NEW pos, NEW full, Settled(pos, full), [Next]_vars,
         DeclareInlineable \/ LowerExprStmt \/ EmitEntry
  PROVE  Settled(pos, full)'
  <1>1. CASE DeclareInlineable
    <2>1. UNCHANGED <<prog, stack, abstractions, symbols, specs, ctr, funcs, refs>>
      BY <1>1 DEF DeclareInlineable
    <2>2. CapturingStack(pos, full)' /\ RegisteredLambdas(full)' /\ SymbolsOfValues'
          /\ CaptureAgreement' /\ DOMAIN full = Generated(ctr.let)'
      BY <2>1 DEF Settled, CapturingStack, RegisteredLambdas, SymbolsOfValues,
           CaptureAgreement, Generated
    <2>3. CachedUnderKey' /\ SpecializedWith(full)'
      BY <2>1, CachedKeysKept, SpecializedKept DEF Settled
    <2>4. QED BY <2>1, <2>2, <2>3, OrderedKept DEF Settled
  <1>2. CASE LowerExprStmt
    <2> DEFINE frame == Frame(MainFn, DefaultType, EmptyEnv, prog.body[prog.top[pc].b])
    <2>1. prog.top[pc].b \in Binder /\ stack' = <<frame>>
          /\ UNCHANGED <<prog, registries, specs, ctr, funcs, refs>>
      BY <1>2, StatementParts DEF LowerExprStmt
    <2>2. frame \in CapturingFrames(prog, pos, full, funcs)
      BY <2>1, FirstFrameCapturing DEF Linked, MainFn, Settled
    <2> HIDE DEF frame
    <2>3. CapturingStack(pos, full)'
      BY <2>1, <2>2 DEF CapturingStack
    <2>4. QED BY <2>1, <2>3, SettledQuiet DEF Passes
  <1>3. CASE EmitEntry
    <2>1. funcs' = [funcs EXCEPT ![MainFn].done = TRUE] /\ stack' = <<>>
          /\ UNCHANGED <<prog, pc, stack, registries, specs, ctr, refs>>
      BY <1>3 DEF EmitEntry
    <2>2. DOMAIN funcs' = DOMAIN funcs
      BY <2>1
    <2>3. CapturingStack(pos, full)'
      BY <2>1, EmptyStackCapturing DEF CapturingStack
    <2>4. CachedUnderKey' /\ SpecializedWith(full)'
      BY <2>1, <2>2, CachedKeysKept, SpecializedKept DEF Settled
    <2>5. QED BY <2>1, <2>3, <2>4, SettledWithin DEF Passes
  <1>4. QED BY <1>1, <1>2, <1>3

(* A symbol registered is that of the value just finished. *)
LEMMA FinishSettled ==
  ASSUME Linked, NEW pos, NEW full, Settled(pos, full), [Next]_vars, Finish
  PROVE  Settled(pos, full)'
  <1>1. stack # <<>> /\ stack' = SubSeq(stack, 1, Len(stack) - 1)
        /\ UNCHANGED <<prog, abstractions, specs, ctr, refs>>
    BY DEF Finish, Done
  <1>2. Top.fn \in DOMAIN funcs /\ DOMAIN funcs' = DOMAIN funcs
    <2>1. Top.fn \in 1 .. Len(funcs)
      BY <1>1, TopParts DEF GoodFrames
    <2>2. DOMAIN funcs' = DOMAIN funcs
      BY DEF Finish, Appended
    <2>3. QED BY <2>1, <2>2, FunctionsKept
  <1>3. CapturingStack(pos, full)'
    <2>1. stack \in Seq(CapturingFrames(prog, pos, full, funcs'))
      BY CapturesKept, SeqMonotone DEF Settled, CapturingStack
    <2>2. stack' \in Seq(CapturingFrames(prog, pos, full, funcs'))
      BY <1>1, <2>1, PopSeq
    <2>3. QED BY <1>1, <2>2 DEF CapturingStack
  <1>4. SymbolsOfValues'
    <2>1. CASE symbols' = symbols
      BY <1>2, <2>1, KeysKept DEF Settled, SymbolsOfValues
    <2>2. CASE symbols' # symbols
      <3> DEFINE s == [b |-> funcs[Top.fn].b, fn |-> Top.fn]
      <3>1. /\ funcs[Top.fn].kind = "val"
            /\ symbols' = Put(symbols, funcs[Top.fn].of, s)
        BY <2>2 DEF Finish
      <3>2. s.fn \in DOMAIN funcs' /\ funcs'[s.fn].kind = "val"
        BY <1>2, <3>1, KeysKept
      <3> HIDE DEF s
      <3>3. QED BY <1>2, <3>1, <3>2, KeysKept DEF Settled, SymbolsOfValues, Put
    <2>3. QED BY <2>1, <2>2
  <1>5. CachedUnderKey' /\ SpecializedWith(full)'
    BY <1>1, <1>2, CachedKeysKept, SpecializedKept DEF Settled
  <1>6. CaptureAgreement'
    BY <1>1, AgreementKept DEF Passes
  <1>7. RegisteredLambdas(full)' /\ DOMAIN full = Generated(ctr.let)'
    BY <1>1 DEF Settled, RegisteredLambdas, Generated
  <1>8. QED BY <1>1, <1>3, <1>4, <1>5, <1>6, <1>7, OrderedKept DEF Settled

-----------------------------------------------------------------------------
(* Scopes and bindings *)

LEMMA ScopeSettled ==
  ASSUME Linked, NEW pos, NEW full, Settled(pos, full), [Next]_vars, EnterScope \/ LeaveScope
  PROVE  Settled(pos, full)'
  <1> DEFINE S == CapturingFrames(prog, pos, full, funcs)
  <1>1. UNCHANGED <<prog, registries, specs, ctr, funcs, refs>>
    BY DEF EnterScope, LeaveScope
  <1>2. stack \in Seq(S)
    BY DEF Settled, CapturingStack
  <1>3. stack' \in Seq(S)
    <2>1. CASE EnterScope
      <3> DEFINE frame == Frame(Top.fn, Top.ty, Top.env, prog.body[Now.b])
                 resumed == [stack EXCEPT ![Len(stack)] = Replace(<<>>)]
      <3>1. At("scope") /\ stack' = Append(resumed, frame)
        BY <2>1 DEF EnterScope
      <3>2. /\ stack # <<>> /\ Top.todo # <<>> /\ Now.b \in Binder /\ prog \in Programs
            /\ Top.fn \in Nat /\ Top.ty \in Types /\ Top.env \in FromNames(Entry)
            /\ Now.op = "scope"
        BY <3>1, AtParts, TopParts DEF Linked
      <3>3. frame \in S
        <4>1. \A n \in DOMAIN Top.env : pos[Top.env[n].b] < pos[Now.b]
          BY <3>2, NowCapturing DEF Opening
        <4>2. \A n \in DOMAIN Top.env : pos[Top.env[n].b] <= pos[Now.b]
          <5>1. \A n \in DOMAIN Top.env : Top.env[n].b \in Binder
            BY <3>1, AtParts DEF Entry
          <5>2. \A x \in Binder : pos[x] \in Nat
            BY DEF Settled, Ordered
          <5>3. QED BY <3>2, <4>1, <5>1, <5>2
        <4>3. InOrder(pos, Top.env, prog.body[Now.b])
          BY <3>2, <4>2, BodyInOrder DEF Settled
        <4>4. QED BY <3>2, <4>3, TopCapturing, BodyItems, BodyPending, NewFrameCapturing
      <3>4. Replace(<<>>) \in S
        BY <1>1, <3>2, NothingToDo, CarryOnCapturing
      <3> HIDE DEF frame, S
      <3>5. resumed \in Seq(S)
        BY <1>2, <3>4, SeqExcept
      <3> HIDE DEF resumed
      <3>6. QED BY <3>1, <3>3, <3>5
    <2>2. CASE LeaveScope
      <3>1. stack # <<>> /\ stack' = SubSeq(stack, 1, Len(stack) - 1)
        BY <2>2 DEF LeaveScope, Done
      <3> HIDE DEF S
      <3>2. QED BY <1>2, <3>1, PopSeq
    <2>3. QED BY <2>1, <2>2
  <1>4. CapturingStack(pos, full)'
    BY <1>1, <1>3 DEF CapturingStack
  <1>5. QED BY <1>1, <1>4, SettledQuiet DEF Passes

LEMMA LetValueSettled ==
  ASSUME Linked, NEW pos, NEW full, Settled(pos, full), [Next]_vars, LetValue
  PROVE  Settled(pos, full)'
  <1> DEFINE use == [Now EXCEPT !.op = "use"]
             bind == [Now EXCEPT !.op = "bind"]
             items == <<use, bind>>
  <1>1. At("let") /\ Resume(Replace(items))
        /\ UNCHANGED <<prog, registries, specs, ctr, funcs, refs>>
    BY DEF LetValue
  <1>2. stack # <<>> /\ Top.todo # <<>> /\ Now \in Item /\ Now.op = "let"
    BY <1>1, AtParts
  <1>3. use \in Item /\ use.op = "use" /\ bind \in Item /\ bind.op = "bind" /\ bind.b = Now.b
    BY <1>2 DEF Item, Ops
  <1>4. Now.b \in LocalBinders(prog)
    BY <1>2, NowCapturing DEF PendingItem
  <1> HIDE DEF use, bind
  <1>5. items \in Seq(Item) /\ DOMAIN items = {1, 2} /\ items[1] = use /\ items[2] = bind
    BY <1>3
  <1> HIDE DEF items
  <1>6. StandsFor(items)
    BY <1>2, <1>3, <1>5 DEF StandsFor, Opening
  <1>7. \A k \in DOMAIN items : PendingItem(prog, funcs, items[k])
    BY <1>3, <1>4, <1>5 DEF PendingItem
  <1>8. Replace(items) \in CapturingFrames(prog, pos, full, funcs)
    BY <1>2, <1>5, <1>6, <1>7, ReplaceCapturing
  <1>9. stack' \in Seq(CapturingFrames(prog, pos, full, funcs))
    BY <1>1, <1>8, ResumeSeq DEF Settled, CapturingStack
  <1>10. CapturingStack(pos, full)'
    BY <1>1, <1>9 DEF CapturingStack
  <1>11. QED BY <1>1, <1>10, SettledQuiet DEF Passes

(* What a name newly bound is not: bound already, or free in a lambda      *)
(* that is.                                                                *)
LEMMA BoundLater ==
  ASSUME Linked, Named, NEW pos, NEW full, Settled(pos, full), stack # <<>>, Top.todo # <<>>,
         Now.op \in {"bind", "letfn"}
  PROVE  /\ prog.name[Now.b] \notin DOMAIN Top.env
         /\ \A n \in DOMAIN Top.env : Top.env[n].kind = "abs" =>
              prog.name[Now.b] \notin FreeVariables(prog, Top.env[n].b) \ {n}
  <1> DEFINE x == Now.b
             env == Top.env
  <1>1. x \in LocalBinders(prog) /\ \A n \in DOMAIN env : pos[env[n].b] < pos[x]
    BY NowCapturing DEF PendingItem, Opening
  <1>2. /\ x \in Binder /\ \A n \in DOMAIN env : env[n].b \in Binder
        /\ \A b \in Binder : pos[b] \in Nat
    <2>1. Now \in Item
      BY NowParts
    <2>2. \A n \in DOMAIN env : env[n] \in Entry
      BY TopParts, FromNamesDef
    <2>3. QED BY <2>1, <2>2 DEF Item, Entry, Settled, Ordered
  <1>3. \A n \in DOMAIN env : prog.name[env[n].b] = n
    BY TopNamed
  <1>4. prog.name[x] \notin DOMAIN env
    <2>1. ASSUME prog.name[x] \in DOMAIN env PROVE FALSE
      <3>1. env[prog.name[x]].b = x
        BY <1>2, <1>3, <2>1 DEF Settled, Ordered, NamesDistinct
      <3>2. QED BY <1>1, <1>2, <2>1, <3>1
    <2>2. QED BY <2>1
  <1>5. ASSUME NEW n \in DOMAIN env, env[n].kind = "abs",
               prog.name[x] \in FreeVariables(prog, env[n].b) \ {n}
        PROVE  FALSE
    <2>1. env[n].b \in LocalLambdas(prog)
      <3>1. env[n].sym \in DOMAIN full
        BY <1>5, TopCapturing DEF CapturingEnv
      <3>2. env[n].sym \in DOMAIN abstractions /\ abstractions[env[n].sym] = env[n].b
        BY <1>5, TopNamed
      <3>3. QED BY <3>1, <3>2 DEF Settled, RegisteredLambdas
    <2>2. pos[x] < pos[env[n].b]
      BY <1>1, <1>3, <1>5, <2>1 DEF Settled, Ordered, MetInOrder
    <2>3. QED BY <1>1, <1>2, <2>2
  <1>6. QED BY <1>4, <1>5

(* Binding what the item at hand binds. *)
LEMMA BindCapturing ==
  ASSUME Linked, Named, NEW pos, NEW full, Settled(pos, full), stack # <<>>, Top.todo # <<>>,
         Now.op \in {"bind", "letfn"}, NEW e \in Entry, e.b = Now.b,
         NEW more, DOMAIN full \subseteq DOMAIN more, \A s \in DOMAIN full : more[s] = full[s],
         e.kind = "abs" =>
           /\ e.sym \in DOMAIN more
           /\ more[e.sym] = CaptureNames(prog, e.b, prog.name[e.b], Put(Top.env, prog.name[e.b], e))
  PROVE  [Replace(<<>>) EXCEPT !.env = Put(@, prog.name[e.b], e)]
           \in CapturingFrames(prog, pos, more, funcs)
  <1> DEFINE fr == Replace(<<>>)
             x == prog.name[e.b]
             old == Top.env
             rest == Tail(Top.todo)
             env == Put(old, x, e)
             new == [fr EXCEPT !.env = env]
  <1>1. fr.env = old /\ fr \in Frames /\ fr.todo = rest
    <2>1. <<>> \o rest = rest
      BY NowParts
    <2>2. QED BY <2>1, NothingToDo, ReplaceKind
  <1>2. e.b \in Binder /\ x \in Name
    BY ProgramParts DEF Entry, Linked
  <1>3. env \in FromNames(Entry)
    BY <1>2, TopParts, FromNamesPut
  <1>4. /\ x \notin DOMAIN old
        /\ \A n \in DOMAIN old : old[n].kind = "abs" =>
             x \notin FreeVariables(prog, old[n].b) \ {n}
    BY BoundLater
  <1>5. DOMAIN env = DOMAIN old \cup {x} /\ env[x] = e /\ \A n \in DOMAIN old : env[n] = old[n]
    BY <1>4 DEF Put
  <1>6. /\ \A n \in DOMAIN old : pos[old[n].b] < pos[Now.b]
        /\ \A k \in DOMAIN rest : PendingItem(prog, funcs, rest[k])
        /\ InOrder(pos, old, rest)
        /\ \A k \in DOMAIN rest : rest[k].op \in Opening => pos[Now.b] < pos[rest[k].b]
        /\ Now.b \in LocalBinders(prog)
    BY NowCapturing DEF Opening, PendingItem
  <1>7. CapturingEnv(prog, full, old)
    BY TopCapturing
  <1>8. e.kind = "abs" => e.sym \in DOMAIN more /\ more[e.sym] = CaptureNames(prog, e.b, x, env)
    OBVIOUS
  <1>9. [fr EXCEPT !.env = Put(@, x, e)] = new
    BY <1>1
  <1> HIDE DEF env, fr, x, old, rest
  <1>10. CapturingEnv(prog, more, env)
    <2>1. ASSUME NEW n \in DOMAIN old, old[n].kind = "abs"
          PROVE  CaptureNames(prog, old[n].b, n, env) = CaptureNames(prog, old[n].b, n, old)
      BY <1>4, <1>5, <2>1 DEF CaptureNames, IsValue
    <2>2. ASSUME NEW n \in DOMAIN env
          PROVE  /\ env[n].b \in LocalBinders(prog)
                 /\ env[n].kind = "abs" =>
                      /\ env[n].sym \in DOMAIN more
                      /\ CaptureNames(prog, env[n].b, n, env) \in {{}, more[env[n].sym]}
      <3>1. CASE n = x
        BY <1>5, <1>6, <1>8, <3>1
      <3>2. CASE n \in DOMAIN old
        BY <1>5, <1>7, <2>1, <3>2, SMTT(30) DEF CapturingEnv
      <3>3. QED BY <1>5, <3>1, <3>2
    <2>3. QED BY <2>2 DEF CapturingEnv
  <1>11. InOrder(pos, env, rest)
    BY <1>5, <1>6 DEF InOrder
  <1>12. new \in Frames /\ new.env = env /\ new.todo = rest
    BY <1>1, <1>3 DEF Frames
  <1> HIDE DEF new
  <1>13. new \in CapturingFrames(prog, pos, more, funcs)
    BY <1>6, <1>10, <1>11, <1>12 DEF CapturingFrames
  <1>14. QED BY <1>9, <1>13 DEF x, fr

LEMMA BindValueSettled ==
  ASSUME Linked, Named, NEW pos, NEW full, Settled(pos, full), [Next]_vars, BindValue
  PROVE  Settled(pos, full)'
  <1> DEFINE e == ValueEntry(Now.b, Top.fn, NowType)
             frame == [Replace(<<>>) EXCEPT !.env = Put(@, prog.name[Now.b], e)]
  <1>1. At("bind") /\ Resume(frame)
        /\ UNCHANGED <<prog, registries, specs, ctr, funcs, refs>>
    BY DEF BindValue
  <1>2. e \in Entry /\ e.kind = "val" /\ e.b = Now.b
    <2>1. Now.b \in Binder /\ NowType \in Types /\ Top.fn \in Nat /\ prog.name[Now.b] \in Name
      BY <1>1, AtParts, TopParts, ProgramParts DEF Linked
    <2>2. QED BY <2>1 DEF ValueEntry, Entry
  <1> HIDE DEF e
  <1>3. frame \in CapturingFrames(prog, pos, full, funcs)
    BY <1>1, <1>2, AtParts, BindCapturing
  <1> HIDE DEF frame
  <1>4. stack' \in Seq(CapturingFrames(prog, pos, full, funcs))
    BY <1>1, <1>3, ResumeSeq DEF Settled, CapturingStack
  <1>5. CapturingStack(pos, full)'
    BY <1>1, <1>4 DEF CapturingStack
  <1>6. QED BY <1>1, <1>5, SettledQuiet DEF Passes

(* What the lambdas capture is more by the one just registered. *)
LEMMA CapturingFramesMore ==
  ASSUME NEW p, NEW pos, NEW full, NEW more, NEW f,
         DOMAIN full \subseteq DOMAIN more, \A s \in DOMAIN full : more[s] = full[s]
  PROVE  CapturingFrames(p, pos, full, f) \subseteq CapturingFrames(p, pos, more, f)
  BY DEF CapturingFrames, CapturingEnv

(* A local lambda registered settles what it captures. *)
LEMMA LetLambdaSettled ==
  ASSUME Linked, Named, NEW pos, NEW full, Settled(pos, full), [Next]_vars, LetLambda
  PROVE  \E more : Settled(pos, more)'
  <1> DEFINE e == LambdaEntry(Now.b, LetSymbol, Top.fn, Top.ty)
             x == prog.name[Now.b]
             frame == [Replace(<<>>) EXCEPT !.env = Put(@, x, e)]
             names == CaptureNames(prog, Now.b, x, Put(Top.env, x, e))
  <1>1. /\ At("letfn") /\ Resume(frame) /\ ctr.let < Len(LetName)
        /\ abstractions' = Put(abstractions, LetSymbol, Now.b)
        /\ ctr'.let = ctr.let + 1
        /\ UNCHANGED <<prog, inlineable, symbols, specs, funcs, refs>>
    BY DEF LetLambda, Linked
  <1>2. /\ stack # <<>> /\ Top.todo # <<>> /\ Now.op = "letfn" /\ Now.b \in Binder
        /\ Top.fn \in Nat /\ Top.ty \in Types /\ ctr.let \in Nat
    BY <1>1, AtParts, TopParts DEF Linked
  <1>3. /\ LetSymbol \notin DOMAIN abstractions /\ LetSymbol \notin DOMAIN full
        /\ LetSymbol \in Name
    <2>1. ctr.let + 1 \in 1 .. Len(LetName)
      BY <1>1, <1>2, ConstantAssumption
    <2>2. QED BY <1>1, <2>1, LetSymbolFresh, ConstantAssumption DEF LetSymbol, Settled, Ordered
  <1>4. DOMAIN full \cup {LetSymbol} = Generated(ctr.let + 1)
    <2>1. LetName \in Seq(Name) /\ LetSymbol = LetName[ctr.let + 1]
          /\ ctr.let + 1 \in DOMAIN LetName
      BY <1>1, <1>2, ConstantAssumption DEF LetSymbol
    <2>2. DOMAIN LetName \cap 1 .. (ctr.let + 1)
            = (DOMAIN LetName \cap 1 .. ctr.let) \cup {ctr.let + 1}
      BY <1>2, <2>1
    <2>3. DOMAIN full = Generated(ctr.let)
      BY DEF Settled
    <2>4. QED BY <2>1, <2>2, <2>3 DEF Generated
  <1>5. e \in Entry /\ e.kind = "abs" /\ e.sym = LetSymbol /\ e.b = Now.b
    BY <1>2, <1>3 DEF LambdaEntry, Entry
  <1> HIDE DEF e
  <1>6. PICK more : /\ DOMAIN more = DOMAIN full \cup {LetSymbol} /\ more[LetSymbol] = names
                    /\ \A s \in DOMAIN full : more[s] = full[s]
    <2> DEFINE m == Put(full, LetSymbol, names)
    <2>1. /\ DOMAIN m = DOMAIN full \cup {LetSymbol} /\ m[LetSymbol] = names
          /\ \A s \in DOMAIN full : m[s] = full[s]
      BY <1>3 DEF Put
    <2> HIDE DEF m
    <2>2. QED BY <2>1
  <1> DEFINE S == CapturingFrames(prog, pos, more, funcs)
  <1>7. frame \in S
    BY <1>2, <1>5, <1>6, BindCapturing
  <1>8. stack \in Seq(S)
    <2>1. CapturingFrames(prog, pos, full, funcs) \subseteq S
      BY <1>6, CapturingFramesMore
    <2>2. QED BY <2>1, SeqMonotone DEF Settled, CapturingStack
  <1> HIDE DEF frame, S
  <1>9. stack' \in Seq(S)
    BY <1>1, <1>7, <1>8, ResumeSeq
  <1>10. CapturingStack(pos, more)'
    BY <1>1, <1>9 DEF CapturingStack, S
  <1>11. RegisteredLambdas(more)'
    <2>1. Now.b \in LocalLambdas(prog) \cap LocalBinders(prog)
      BY <1>2, NowCapturing DEF PendingItem
    <2>2. QED BY <1>1, <1>3, <1>6, <2>1 DEF Settled, RegisteredLambdas, Put
  <1>12. SpecializedWith(more)'
    BY <1>1, <1>6, SpecializedKept DEF Settled
  <1>13. CachedUnderKey'
    BY <1>1, CachedKeysKept
  <1>14. SymbolsOfValues' /\ CaptureAgreement'
    BY <1>1 DEF Settled, SymbolsOfValues, CaptureAgreement
  <1>15. DOMAIN more = Generated(ctr.let)'
    BY <1>1, <1>4, <1>6 DEF Generated
  <1>16. Settled(pos, more)'
    BY <1>1, <1>10, <1>11, <1>12, <1>13, <1>14, <1>15, OrderedKept DEF Settled
  <1>17. QED BY <1>16

-----------------------------------------------------------------------------
(* Specializing *)

(* What can be asked of the lambda under sym to receive. *)
OwnCaptures(full, sym, caps) ==
  /\ caps \in FromNames(Captured) /\ NamedCaptures(caps) /\ AllOrNone(full, sym, caps)
  /\ \A n \in DOMAIN caps :
       /\ caps[n].b \in LocalBinders(prog)
       /\ n \in FreeVariables(prog, abstractions[sym]) \ {prog.name[abstractions[sym]]}

LEMMA NoneOwnCaptures ==
  ASSUME NEW full, NEW sym
  PROVE  OwnCaptures(full, sym, NoCaptures)
  <1>1. DOMAIN NoCaptures = {}
    BY NothingToDo DEF NoCaptures
  <1>2. QED BY <1>1, NoCapturesKind, NoCapturesNamed DEF OwnCaptures, AllOrNone

(* The types alone tell which captures a lambda receives. *)
LEMMA TypesTell ==
  ASSUME NamesDistinct(prog), NEW full, NEW sym,
         NEW c \in FromNames(Captured), NEW d \in FromNames(Captured),
         NamedCaptures(c), NamedCaptures(d), AllOrNone(full, sym, c), AllOrNone(full, sym, d),
         CaptureTypes(c) = CaptureTypes(d)
  PROVE  c = d
  <1>1. DOMAIN c = DOMAIN d
    BY TypesCount DEF AllOrNone
  <1>2. QED BY <1>1, TypesTellCaptures

(* A specialization, cached or new, takes the captures it is asked for.    *)
LEMMA SpecializationTakes ==
  ASSUME Linked, Named, NEW pos, NEW full, Settled(pos, full), [Next]_vars, UNCHANGED prog,
         NEW sym \in DOMAIN abstractions, NEW self, NEW ty, NEW caps, NEW cont,
         OwnCaptures(full, sym, caps), Specialize(sym, self, ty, caps, cont)
  PROVE  LET key == Key(sym, ty, caps) IN
         /\ TargetOf(key) \in DOMAIN funcs' /\ funcs'[TargetOf(key)].caps = caps
         /\ CachedUnderKey' /\ SpecializedWith(full)'
  <1> DEFINE key == Key(sym, ty, caps)
             b == abstractions[sym]
             f == Fn("spec", b, sym, ctr.spec, ty, caps)
  <1>1. /\ \A i \in DOMAIN funcs : /\ i \in DOMAIN funcs' /\ funcs'[i].kind = funcs[i].kind
                                   /\ funcs'[i].of = funcs[i].of
                                   /\ funcs'[i].caps = funcs[i].caps
        /\ \A k \in DOMAIN specs : specs[k] \in DOMAIN funcs
        /\ funcs \in Seq(Fns)
    BY FunctionsKept DEF Linked
  <1>2. key = <<sym, ty, CaptureTypes(caps)>> /\ key[1] = sym /\ key[2] = ty
    BY DEF Key
  <1>3. caps \in FromNames(Captured) /\ NamedCaptures(caps) /\ AllOrNone(full, sym, caps)
    BY DEF OwnCaptures
  <1>4. \A k \in DOMAIN specs : /\ funcs[specs[k]].kind = "spec"
                                /\ k = KeyOf(funcs[specs[k]])
    BY DEF Settled, CachedUnderKey
  <1>5. \A i \in DOMAIN funcs : funcs[i].kind = "spec" =>
          NamedCaptures(funcs[i].caps) /\ AllOrNone(full, funcs[i].of, funcs[i].caps)
    BY DEF Settled, SpecializedWith
  <1>6. \A i \in DOMAIN funcs : funcs[i].kind = "spec" =>
          (NamedCaptures(funcs[i].caps) /\ AllOrNone(full, funcs[i].of, funcs[i].caps))'
    BY <1>1, <1>5 DEF NamedCaptures, AllOrNone
  <1> HIDE DEF key
  <1>7. CASE key \in DOMAIN specs
    <2> DEFINE i == specs[key]
    <2>1. UNCHANGED <<specs, funcs>> /\ TargetOf(key) = i
      BY <1>7 DEF Specialize, ReuseSpecialization, NewSpecialization, key, TargetOf
    <2>2. i \in DOMAIN funcs /\ funcs[i].kind = "spec" /\ funcs[i] \in Fns
      BY <1>1, <1>4, <1>7
    <2>3. funcs[i].of = sym /\ CaptureTypes(funcs[i].caps) = CaptureTypes(caps)
      <3>1. key = <<funcs[i].of, funcs[i].ty, CaptureTypes(funcs[i].caps)>>
        BY <1>4, <1>7 DEF KeyOf, Key
      <3>2. QED BY <1>2, <3>1
    <2> HIDE DEF i
    <2>4. funcs[i].caps = caps
      <3>1. funcs[i].caps \in FromNames(Captured)
        BY <2>2 DEF Fns
      <3>2. NamedCaptures(funcs[i].caps) /\ AllOrNone(full, sym, funcs[i].caps)
        BY <1>5, <2>2, <2>3
      <3>3. QED BY <1>3, <2>3, <3>1, <3>2, TypesTell DEF Settled, Ordered
    <2>5. CachedUnderKey'
      BY <2>1, CachedKeysKept
    <2>6. SpecializedWith(full)'
      BY <2>1, SpecializedKept DEF Settled
    <2>7. QED BY <2>1, <2>2, <2>4, <2>5, <2>6 DEF key
  <1>8. CASE key \notin DOMAIN specs
    <2>1. specs' = Put(specs, key, NextFn) /\ funcs' = Append(funcs, f)
      BY <1>2, <1>8 DEF Specialize, ReuseSpecialization, NewSpecialization, key, Cached, Enter
    <2>2. TargetOf(key) = NextFn
      BY <1>8 DEF TargetOf
    <2>3. f.kind = "spec" /\ f.of = sym /\ f.caps = caps /\ KeyOf(f) = key
      BY DEF Fn, KeyOf, key
    <2> HIDE DEF f
    <2>4. /\ NextFn \in DOMAIN funcs' /\ funcs'[NextFn] = f
          /\ \A i \in DOMAIN funcs' : i \notin DOMAIN funcs => i = NextFn
      BY <1>1, <2>1 DEF NextFn
    <2>5. CachedUnderKey'
      <3>1. \A k \in DOMAIN specs' : \/ k \in DOMAIN specs /\ specs'[k] = specs[k]
                                     \/ k = key /\ specs'[k] = NextFn
        BY <2>1 DEF Put
      <3>2. \A k \in DOMAIN specs : /\ funcs'[specs[k]].kind = "spec"
                                    /\ k = KeyOf(funcs'[specs[k]])
        BY <1>1, <1>4, KeysKept
      <3>3. \A k \in DOMAIN specs' : /\ funcs'[specs'[k]].kind = "spec"
                                     /\ k = KeyOf(funcs'[specs'[k]])
        BY <2>3, <2>4, <3>1, <3>2
      <3>4. QED BY <3>3 DEF CachedUnderKey
    <2>6. SpecializedWith(full)'
      <3>1. ASSUME NEW i \in DOMAIN funcs', funcs'[i].kind = "spec"
            PROVE  (NamedCaptures(funcs[i].caps) /\ AllOrNone(full, funcs[i].of, funcs[i].caps))'
        <4>1. CASE i \in DOMAIN funcs
          BY <1>1, <1>6, <3>1, <4>1
        <4>2. CASE i \notin DOMAIN funcs
          <5>1. funcs'[i].caps = caps /\ funcs'[i].of = sym
            BY <2>3, <2>4, <4>2
          <5>2. QED BY <1>3, <5>1 DEF NamedCaptures, AllOrNone
        <4>3. QED BY <4>1, <4>2
      <3>2. QED BY <3>1 DEF SpecializedWith
    <2>7. QED BY <2>2, <2>3, <2>4, <2>5, <2>6 DEF key
  <1>9. QED BY <1>7, <1>8

(* Where names are distinct, a parameter is under its own name. *)
LEMMA ParamEnvBinders ==
  ASSUME prog \in Programs, NamesDistinct(prog), NEW params \in Seq(Binder), NEW fn \in Nat,
         NEW ty \in Types
  PROVE  LET env == ParamEnv(params, fn, ty) IN
         \A n \in DOMAIN env : \E i \in DOMAIN params :
           n = prog.name[params[i]] /\ env[n].b = params[i]
  <1> DEFINE env == ParamEnv(params, fn, ty)
  <1>1. \A n \in DOMAIN env : \E i \in DOMAIN params : n = prog.name[params[i]]
    BY DEF ParamEnv
  <1>2. \A n \in DOMAIN env : env[n].b \in Binder /\ prog.name[env[n].b] = n
    <2>1. env \in FromNames(Entry) /\ \A n \in DOMAIN env : prog.name[env[n].b] = n
      BY ParamEnvKind
    <2> HIDE DEF env
    <2>2. \A n \in DOMAIN env : env[n] \in Entry
      BY <2>1, FromNamesDef
    <2>3. QED BY <2>1, <2>2 DEF Entry
  <1> HIDE DEF env
  <1>3. \A n \in DOMAIN env : \E i \in DOMAIN params :
           n = prog.name[params[i]] /\ env[n].b = params[i]
    BY <1>1, <1>2 DEF NamesDistinct
  <1>4. QED BY <1>3 DEF env

(* The environment of a specialization: its captures, of which a local     *)
(* lambda has all or none, its parameters, and itself.                     *)
LEMMA SpecEnvCapturing ==
  ASSUME Linked, Named, NEW pos, NEW full, Settled(pos, full), NEW sym \in DOMAIN abstractions,
         NEW self \in Name, self = prog.name[abstractions[sym]],
         NEW ty \in Types, NEW caps, OwnCaptures(full, sym, caps), NEW fn \in Nat
  PROVE  LET env == SpecEnv(sym, self, ty, caps, fn)
             b   == abstractions[sym]
         IN /\ CapturingEnv(prog, full, env)
            /\ \A n \in DOMAIN env : \/ pos[env[n].b] <= pos[b]
                                     \/ \E i \in DOMAIN prog.params[b] : env[n].b = prog.params[b][i]
  <1> DEFINE b == abstractions[sym]
             c(n) == ValueEntry(caps[n].b, fn, caps[n].ty)
             captured == [n \in DOMAIN caps |-> c(n)]
             params == ParamEnv(prog.params[b], fn, ty)
             inputs == Hide(captured, params)
             lambda == LambdaEntry(b, sym, fn, ty)
             env == SpecEnv(sym, self, ty, caps, fn)
  <1>1. /\ prog \in Programs /\ b \in Binder /\ prog.params[b] \in Seq(Binder)
        /\ \A x \in Binder : pos[x] \in Nat
        /\ NamesDistinct(prog)
    BY FromNamesDef, ProgramParts DEF Linked, Settled, Ordered
  <1>2. \A n \in DOMAIN caps : caps[n].b \in Binder /\ prog.name[caps[n].b] = n
    <2>1. \A n \in DOMAIN caps : caps[n] \in Captured
      BY FromNamesDef DEF OwnCaptures
    <2>2. QED BY <2>1 DEF OwnCaptures, NamedCaptures, Captured
  <1>3. \A n \in DOMAIN captured :
          /\ n \in DOMAIN caps /\ captured[n].kind = "val" /\ captured[n].b = caps[n].b
    BY DEF ValueEntry
  <1>4. DOMAIN captured = DOMAIN caps
    OBVIOUS
  <1>5. /\ \A n \in DOMAIN params : \E i \in DOMAIN prog.params[b] :
             n = prog.name[prog.params[b][i]] /\ params[n].b = prog.params[b][i]
        /\ \A n \in DOMAIN params : params[n].kind = "val"
    BY <1>1, ParamEnvBinders, ParamEnvKind
  <1>6. lambda.kind = "abs" /\ lambda.sym = sym /\ lambda.b = b
    BY DEF LambdaEntry
  <1>7. env = IF self # sym THEN Put(inputs, self, lambda) ELSE inputs
    BY DEF SpecEnv, InputEnv
  <1> HIDE DEF captured, params, lambda, c
  <1>8. /\ DOMAIN inputs = DOMAIN caps \cup DOMAIN params
        /\ \A n \in DOMAIN inputs : \/ n \in DOMAIN params /\ inputs[n] = params[n]
                                    \/ n \in DOMAIN caps /\ inputs[n] = captured[n]
    BY <1>4 DEF Hide
  <1> HIDE DEF inputs, env
  <1>9. \A n \in DOMAIN env : \/ n = self /\ env[n] = lambda /\ self # sym
                              \/ n \in DOMAIN inputs /\ env[n] = inputs[n]
    BY <1>7 DEF Put
  <1>10. /\ DOMAIN inputs \subseteq DOMAIN env
         /\ \A n \in DOMAIN inputs : n # self => env[n] = inputs[n]
    BY <1>7 DEF Put
  (* only a local lambda is known by a name other than its symbol *)
  <1>11. self # sym => sym \in DOMAIN full
    BY DEF Settled, Named, NamedLambdas
  <1>12. sym \in DOMAIN full => b \in LocalLambdas(prog) \cap LocalBinders(prog)
    BY DEF Settled, RegisteredLambdas
  (* a capture was met before the lambda, which is a local one *)
  <1>13. \A n \in DOMAIN caps : /\ caps[n].b \in LocalBinders(prog) /\ pos[caps[n].b] <= pos[b]
                                /\ n \in FreeVariables(prog, b) \ {self}
    <2>1. TAKE n \in DOMAIN caps
    <2>2. caps[n].b \in LocalBinders(prog) /\ n \in FreeVariables(prog, b) \ {self}
      BY DEF OwnCaptures
    <2>3. sym \in DOMAIN full
      BY DEF OwnCaptures, AllOrNone
    <2>4. pos[caps[n].b] < pos[b]
      BY <1>2, <1>12, <2>2, <2>3 DEF Settled, Ordered, MetInOrder
    <2>5. QED BY <1>1, <1>2, <2>2, <2>4
  <1>14. \A n \in DOMAIN params : /\ params[n].b \in LocalBinders(prog)
                                  /\ n \notin FreeVariables(prog, b)
    BY <1>1, <1>5, ParametersNotFree DEF LocalBinders
  <1>15. \A n \in DOMAIN inputs : inputs[n].kind = "val" /\ inputs[n].b \in LocalBinders(prog)
    BY <1>3, <1>4, <1>5, <1>8, <1>13, <1>14
  <1>16. CaptureNames(prog, b, self, env) = DOMAIN caps
    <2>1. ASSUME NEW m \in CaptureNames(prog, b, self, env)
          PROVE  m \in DOMAIN caps
      <3>1. m \in FreeVariables(prog, b) /\ m # self /\ m \in DOMAIN env
        BY DEF CaptureNames
      <3>2. QED BY <1>8, <1>9, <1>14, <3>1
    <2>2. ASSUME NEW m \in DOMAIN caps
          PROVE  m \in CaptureNames(prog, b, self, env)
      <3>1. m \in FreeVariables(prog, b) \ {self} /\ m \in DOMAIN inputs
        BY <1>8, <1>13
      <3>2. m \in DOMAIN env /\ env[m].kind = "val"
        BY <1>10, <1>15, <3>1
      <3>3. QED BY <3>1, <3>2 DEF CaptureNames, IsValue
    <2>3. QED BY <2>1, <2>2
  <1>17. self # sym => CaptureNames(prog, b, self, env) \in {{}, full[sym]}
    BY <1>16 DEF OwnCaptures, AllOrNone
  <1> HIDE DEF b
  <1>18. ASSUME NEW n \in DOMAIN env
         PROVE  /\ env[n].b \in LocalBinders(prog)
                /\ env[n].kind = "abs" =>
                     /\ env[n].sym \in DOMAIN full
                     /\ CaptureNames(prog, env[n].b, n, env) \in {{}, full[env[n].sym]}
                /\ \/ pos[env[n].b] <= pos[b]
                   \/ \E i \in DOMAIN prog.params[b] : env[n].b = prog.params[b][i]
    <2>1. CASE n = self /\ env[n] = lambda /\ self # sym
      BY <1>1, <1>6, <1>11, <1>12, <1>17, <2>1
    <2>2. CASE n \in DOMAIN inputs /\ env[n] = inputs[n]
      <3>1. \/ pos[env[n].b] <= pos[b]
            \/ \E i \in DOMAIN prog.params[b] : env[n].b = prog.params[b][i]
        <4>1. CASE n \in DOMAIN params /\ inputs[n] = params[n]
          BY <1>5, <2>2, <4>1
        <4>2. CASE n \in DOMAIN caps /\ inputs[n] = captured[n]
          BY <1>3, <1>4, <1>13, <2>2, <4>2
        <4>3. QED BY <1>8, <2>2, <4>1, <4>2
      <3>2. QED BY <1>15, <2>2, <3>1
    <2>3. QED BY <1>9, <2>1, <2>2
  <1>19. QED BY <1>18 DEF CapturingEnv, env, b

(* A step that specializes the lambda a name leads to. *)
LEMMA SpecializeSettled ==
  ASSUME Linked, Named, NEW pos, NEW full, Settled(pos, full), [Next]_vars, stack # <<>>,
         UNCHANGED <<prog, registries>>, NEW sym \in DOMAIN abstractions,
         NEW self \in Name, self = prog.name[abstractions[sym]], NEW ty \in Types,
         NEW caps, OwnCaptures(full, sym, caps),
         NEW cont, cont \in CapturingFrames(prog, pos, full, funcs'),
         Specialize(sym, self, ty, caps, cont),
         \A r \in refs' : Passes(r)
  PROVE  Settled(pos, full)'
  <1> DEFINE S == CapturingFrames(prog, pos, full, funcs')
             key == Key(sym, ty, caps)
             b == abstractions[sym]
             f == Fn("spec", b, sym, ctr.spec, ty, caps)
             frame == Frame(NextFn, ty, SpecEnv(sym, self, ty, caps, NextFn), prog.body[b])
  <1>1. CachedUnderKey' /\ SpecializedWith(full)'
    BY SpecializationTakes
  <1>2. key[1] = sym /\ key[2] = ty
    BY DEF Key
  <1> HIDE DEF key
  <1>3. stack \in Seq(S)
    BY CapturesKept, SeqMonotone DEF Settled, CapturingStack
  <1>4. ctr'.let = ctr.let /\ stack' \in Seq(S)
    <2>1. CASE ReuseSpecialization(key, cont)
      BY <1>3, <2>1, ResumeSeq DEF ReuseSpecialization
    <2>2. CASE NewSpecialization(key, self, caps, cont)
      <3>1. Enter(f, frame, cont) /\ ctr' = [ctr EXCEPT !.spec = @ + 1]
        BY <1>2, <2>2 DEF NewSpecialization, SpecCounted
      <3>2. frame \in S
        <4> DEFINE env == SpecEnv(sym, self, ty, caps, NextFn)
        <4>1. prog \in Programs /\ b \in Binder /\ NextFn \in Nat /\ caps \in FromNames(Captured)
          BY FromNamesDef DEF Linked, NextFn, OwnCaptures
        <4>2. env \in FromNames(Entry)
          BY <4>1, SpecEnvKind
        <4>3. /\ CapturingEnv(prog, full, env)
              /\ \A n \in DOMAIN env : \/ pos[env[n].b] <= pos[b]
                                       \/ \E i \in DOMAIN prog.params[b] : env[n].b = prog.params[b][i]
          <5>1. NextFn \in Nat
            BY <4>1
          <5> HIDE DEF S
          <5>2. QED BY ONLY <5>1, Linked, Named, Settled(pos, full), sym \in DOMAIN abstractions,
                           self \in Name, self = prog.name[abstractions[sym]], ty \in Types,
                           OwnCaptures(full, sym, caps), SpecEnvCapturing
        <4> HIDE DEF env
        <4>4. InOrder(pos, env, prog.body[b])
          BY <4>1, <4>2, <4>3, BodyInOrder DEF Settled
        <4>5. prog.body[b] \in Seq(Item)
              /\ \A k \in DOMAIN prog.body[b] : PendingItem(prog, funcs', prog.body[b][k])
          BY <4>1, BodyItems, BodyPending
        <4> HIDE DEF b
        <4>6. Frame(NextFn, ty, env, prog.body[b]) \in S
          BY <4>1, <4>2, <4>3, <4>4, <4>5, NewFrameCapturing
        <4>7. QED BY <4>6 DEF env
      <3> HIDE DEF f, frame, S
      <3>3. cont \in S
        BY DEF S
      <3>4. stack' \in Seq(S)
        BY <1>3, <3>1, <3>2, <3>3, EnterSeq
      <3>5. QED BY <3>1, <3>4 DEF Linked
    <2>3. QED BY <2>1, <2>2 DEF Specialize, key
  <1> HIDE DEF S
  <1>5. CapturingStack(pos, full)'
    BY <1>4 DEF CapturingStack, S
  <1>6. QED BY <1>1, <1>4, <1>5, SettledWithin

(* What a use captures is what its callee may receive. *)
LEMMA UseCaptures ==
  ASSUME Linked, Named, NEW pos, NEW full, Settled(pos, full), At("use"),
         \/ ReferencesLambda(Top.env, NowName)
         \/ CalleeOf(Top.env, NowName) \in DOMAIN abstractions
  PROVE  LET sym == CalleeOf(Top.env, NowName) IN
         OwnCaptures(full, sym, LambdaCaptures(abstractions[sym], NowName, Top.env))
  <1> DEFINE sym == CalleeOf(Top.env, NowName)
             b == abstractions[sym]
             env == Top.env
             caps == LambdaCaptures(b, NowName, env)
             D == {m \in (FreeVariables(prog, b) \ {NowName}) \cap DOMAIN env : IsValue(env, m)}
  <1>1. /\ sym \in DOMAIN abstractions /\ b = Now.f /\ prog.name[b] = NowName
        /\ stack # <<>> /\ Top.todo # <<>> /\ Now.f \in Binder
    BY CalleeParts DEF Settled, Ordered
  <1>2. caps \in FromNames(Captured) /\ NamedCaptures(caps)
    BY <1>1, AtParts, LambdaCapturesKind, CapturesNamed
  <1>3. DOMAIN caps = D /\ D = CaptureNames(prog, b, NowName, env)
        /\ \A n \in D : caps[n].b = env[n].b
    BY DEF LambdaCaptures, CaptureNames
  <1>4. CapturingEnv(prog, full, env)
    BY <1>1, TopCapturing
  <1>5. \A n \in DOMAIN env : prog.name[env[n].b] = n
    BY <1>1, TopNamed
  <1>6. sym = IF IsLambda(env, NowName) THEN env[NowName].sym ELSE NowName
    BY DEF CalleeOf
  <1> HIDE DEF sym, caps, env
  <1>7. \A n \in DOMAIN caps : caps[n].b \in LocalBinders(prog)
                               /\ n \in FreeVariables(prog, b) \ {NowName}
    BY <1>3, <1>4 DEF CapturingEnv
  <1> HIDE DEF D, b
  <1>8. AllOrNone(full, sym, caps)
    <2>1. CASE IsLambda(env, NowName)
      <3>1. NowName \in DOMAIN env /\ env[NowName].kind = "abs" /\ env[NowName].sym = sym
        BY <1>6, <2>1 DEF IsLambda
      <3>2. env[NowName].b = b
        <4>1. abstractions[env[NowName].sym] = env[NowName].b
          BY <1>1, <3>1, TopNamed DEF env
        <4>2. QED BY <3>1, <4>1 DEF b
      <3>3. QED BY <1>3, <1>4, <3>1, <3>2 DEF CapturingEnv, AllOrNone
    <2>2. CASE ~IsLambda(env, NowName)
      <3>1. sym \notin DOMAIN full
        BY <1>1, <1>6, <2>2, NotGenerated DEF Settled, Ordered
      <3>2. \E i \in DOMAIN prog.top : prog.top[i].kind = "fn" /\ prog.top[i].b = b
        BY <1>1, <3>1 DEF Settled, RegisteredLambdas, b
      <3>3. \A n \in D : FALSE
        <4>1. \A x \in LocalBinders(prog) : prog.name[x] \notin FreeVariables(prog, b)
          BY <3>2 DEF Settled, Ordered, MetInOrder
        <4>2. QED BY <1>3, <1>4, <1>5, <4>1 DEF CapturingEnv, CaptureNames
      <3>4. QED BY <1>3, <3>3 DEF AllOrNone
    <2>3. QED BY <2>1, <2>2
  <1>9. OwnCaptures(full, sym, caps)
    BY <1>1, <1>2, <1>7, <1>8 DEF OwnCaptures, b
  <1>10. QED BY <1>9 DEF sym, caps, b, env

LEMMA ReferenceLambdaSettled ==
  ASSUME Linked, Named, NEW pos, NEW full, Settled(pos, full), [Next]_vars, ReferenceLambda
  PROVE  Settled(pos, full)'
  <1> DEFINE sym == CalleeOf(Top.env, NowName)
             caps == LambdaCaptures(abstractions[sym], NowName, Top.env)
             key == Key(sym, NowType, NoCaptures)
             r == SpecRef(Now.f, sym, key, NoCaptures)
             cont == Replace(<<>>)
  <1>1. At("use") /\ ReferencesLambda(Top.env, NowName)
    BY DEF ReferenceLambda
  <1>2. CASE caps # NoCaptures
    BY <1>2, FailSettled DEF ReferenceLambda
  <1>3. CASE caps = NoCaptures
    <2>1. /\ Specialize(sym, NowName, NowType, NoCaptures, cont)
          /\ refs' = refs \cup {r}
          /\ UNCHANGED <<prog, registries>>
      BY <1>3 DEF ReferenceLambda
    <2>2. /\ sym \in DOMAIN abstractions /\ prog.name[abstractions[sym]] = NowName
          /\ stack # <<>> /\ Top.todo # <<>> /\ NowName \in Name /\ NowType \in Types
      BY <1>1, CalleeParts DEF Settled, Ordered
    <2>3. cont \in CapturingFrames(prog, pos, full, funcs')
      BY <2>2, NothingToDo, CarryOnCapturing
    <2> HIDE DEF sym, caps, cont
    <2>4. OwnCaptures(full, sym, NoCaptures)
      BY NoneOwnCaptures
    <2>5. Passes(r)
      <3>1. TargetOf(key) \in DOMAIN funcs' /\ funcs'[TargetOf(key)].caps = NoCaptures
        BY <2>1, <2>2, <2>4, SpecializationTakes
      <3>2. QED BY <3>1 DEF Passes, SpecRef, Ref
    <2> HIDE DEF r
    <2>6. QED BY <2>1, <2>2, <2>3, <2>4, <2>5, SpecializeSettled DEF Passes
  <1>4. QED BY <1>2, <1>3

LEMMA CallSettled ==
  ASSUME Linked, Named, NEW pos, NEW full, Settled(pos, full), [Next]_vars, Call
  PROVE  Settled(pos, full)'
  <1> DEFINE sym == CalleeOf(Top.env, NowName)
             caps == LambdaCaptures(abstractions[sym], NowName, Top.env)
             key == Key(sym, NowType, caps)
             cont == Replace(Uses(Now.args))
             r == SpecRef(Now.f, sym, key, caps)
  <1>1. /\ At("use") /\ CalleeOf(Top.env, NowName) \in DOMAIN abstractions
        /\ Specialize(sym, NowName, NowType, caps, cont)
        /\ refs' = refs \cup {r}
        /\ UNCHANGED <<prog, registries>>
    BY DEF Call, AtKnown
  <1>2. /\ sym \in DOMAIN abstractions /\ prog.name[abstractions[sym]] = NowName
        /\ stack # <<>> /\ Top.todo # <<>> /\ NowName \in Name /\ NowType \in Types
        /\ Now.args \in Seq(Arg)
    BY <1>1, CalleeParts DEF Settled, Ordered
  <1>3. OwnCaptures(full, sym, caps)
    BY <1>1, UseCaptures
  <1>4. cont \in CapturingFrames(prog, pos, full, funcs')
    <2>1. \A k \in DOMAIN Uses(Now.args) : Uses(Now.args)[k].op = "use"
      BY DEF Uses, Use
    <2>2. QED BY <1>2, <2>1, UsesKind, CarryOnCapturing
  <1> HIDE DEF sym, caps, cont
  <1>5. Passes(r)
    <2>1. TargetOf(key) \in DOMAIN funcs' /\ funcs'[TargetOf(key)].caps = caps
      BY <1>1, <1>2, <1>3, SpecializationTakes
    <2>2. QED BY <2>1 DEF Passes, SpecRef, Ref
  <1> HIDE DEF r
  <1>6. QED BY <1>1, <1>2, <1>3, <1>4, <1>5, SpecializeSettled DEF Passes

LEMMA PartialApplySettled ==
  ASSUME Linked, Named, NEW pos, NEW full, Settled(pos, full), [Next]_vars, PartialApply
  PROVE  Settled(pos, full)'
  <1> DEFINE sym == CalleeOf(Top.env, NowName)
             caps == LambdaCaptures(abstractions[sym], NowName, Top.env)
             key == Key(sym, NowType, NoCaptures)
             to == TargetOf(key)
             wrap == [Now EXCEPT !.op = "wrap", !.b = abstractions[sym], !.to = to]
             items == <<wrap>>
             cont == Replace(items)
  <1>1. At("use") /\ sym \in DOMAIN abstractions
    BY DEF PartialApply, AtKnown
  <1>2. CASE caps # NoCaptures
    BY <1>2, FailSettled DEF PartialApply
  <1>3. CASE caps = NoCaptures
    <2>1. /\ Specialize(sym, NowName, NowType, NoCaptures, cont)
          /\ UNCHANGED <<prog, registries, refs>>
      BY <1>3 DEF PartialApply
    <2>2. /\ sym \in DOMAIN abstractions /\ prog.name[abstractions[sym]] = NowName
          /\ abstractions[sym] \in Binder
          /\ stack # <<>> /\ Top.todo # <<>> /\ NowName \in Name /\ NowType \in Types
          /\ Now \in Item
      BY <1>1, CalleeParts, AtParts DEF Settled, Ordered
    <2> HIDE DEF caps, sym
    <2>3. OwnCaptures(full, sym, NoCaptures)
      BY NoneOwnCaptures
    <2>4. to \in DOMAIN funcs' /\ funcs'[to].caps = NoCaptures
      <3> HIDE DEF cont
      <3>1. QED BY <2>1, <2>2, <2>3, SpecializationTakes
    <2>5. to \in Nat
      BY <2>4, FunctionsKept
    <2> HIDE DEF to
    <2>6. wrap \in Item /\ wrap.to = to /\ wrap.op = "wrap"
      <3> DEFINE b == abstractions[sym]
      <3>1. b \in Binder
        BY <2>2
      <3> HIDE DEF b
      <3>2. wrap \in Item /\ wrap.to = to /\ wrap.op = "wrap"
        BY <2>2, <2>5, <3>1 DEF Item, Ops
      <3>3. QED BY <3>2
    <2> HIDE DEF wrap
    <2>7. items \in Seq(Item) /\ \A k \in DOMAIN items : items[k] = wrap
      BY <2>6
    <2> HIDE DEF items
    <2>8. StandsFor(items) /\ \A k \in DOMAIN items : PendingItem(prog, funcs', items[k])
      BY <2>4, <2>6, <2>7 DEF StandsFor, Opening, PendingItem
    <2>9. cont \in CapturingFrames(prog, pos, full, funcs')
      BY <2>2, <2>7, <2>8, CapturesKept, ReplaceCapturing
    <2> HIDE DEF cont
    <2>10. QED BY <2>1, <2>2, <2>3, <2>9, SpecializeSettled DEF Passes
  <1>4. QED BY <1>2, <1>3

LEMMA CaptureLambdaSettled ==
  ASSUME Linked, Named, NEW pos, NEW full, Settled(pos, full), [Next]_vars, CaptureLambda
  PROVE  Settled(pos, full)'
  <1>1. At("closure")
    BY DEF CaptureLambda
  <1>2. PICK n \in ClosureLambdas, ty \in Types :
          LET e    == Top.env[n]
              key  == Key(e.sym, ty, NoCaptures)
              done == Append(Now.args, [b |-> e.b, ty |-> ty])
          IN /\ Specialize(e.sym, n, ty, NoCaptures,
                           Replace(<<[Now EXCEPT !.args = done]>>))
             /\ refs' = refs \cup {SpecRef(e.b, e.sym, key, NoCaptures)}
             /\ UNCHANGED <<prog, pc, registries, outcome>>
    BY DEF CaptureLambda
  <1> DEFINE e == Top.env[n]
             sym == e.sym
             key == Key(sym, ty, NoCaptures)
             done == Append(Now.args, [b |-> e.b, ty |-> ty])
             item == [Now EXCEPT !.args = done]
             items == <<item>>
             cont == Replace(items)
             r == SpecRef(e.b, sym, key, NoCaptures)
  <1>3. n \in DOMAIN Top.env /\ e.kind = "abs"
    BY DEF ClosureLambdas, ClosureFree
  <1>4. /\ stack # <<>> /\ Top.todo # <<>> /\ Now \in Item /\ Now.op = "closure"
        /\ Now.args \in Seq(Arg) /\ n \in Name /\ e.b \in Binder
    BY <1>1, <1>3, AtParts DEF Entry
  <1>5. sym \in DOMAIN abstractions /\ abstractions[sym] = e.b /\ prog.name[e.b] = n
    BY <1>3, <1>4, TopNamed
  <1>6. done \in Seq(Arg)
    BY <1>4, ConstantAssumption DEF Arg
  <1>7. item \in Item /\ item.op = "closure" /\ item.b = Now.b
    <2> HIDE DEF done
    <2>1. QED BY <1>4, <1>6 DEF Item
  <1>8. Specialize(sym, n, ty, NoCaptures, cont)
        /\ refs' = refs \cup {r} /\ UNCHANGED <<prog, registries>>
    BY <1>2
  <1> HIDE DEF item
  <1>9. items \in Seq(Item) /\ DOMAIN items = {1} /\ items[1] = item
    BY <1>7
  <1> HIDE DEF items
  <1>10. Now.b \in LocalLambdas(prog)
    BY <1>4, NowCapturing DEF PendingItem
  <1>11. StandsFor(items) /\ \A k \in DOMAIN items : PendingItem(prog, funcs', items[k])
    BY <1>4, <1>7, <1>9, <1>10 DEF StandsFor, Opening, PendingItem
  <1>12. cont \in CapturingFrames(prog, pos, full, funcs')
    BY <1>4, <1>9, <1>11, CapturesKept, ReplaceCapturing
  <1> HIDE DEF cont, e, sym
  <1>13. OwnCaptures(full, sym, NoCaptures)
    BY NoneOwnCaptures
  <1>14. Passes(r)
    <2>1. TargetOf(key) \in DOMAIN funcs' /\ funcs'[TargetOf(key)].caps = NoCaptures
      BY <1>5, <1>8, <1>13, SpecializationTakes
    <2>2. QED BY <2>1 DEF Passes, SpecRef, Ref
  <1> HIDE DEF r
  <1>15. QED BY <1>4, <1>5, <1>8, <1>12, <1>13, <1>14, ConstantAssumption, SpecializeSettled, SMTT(30) DEF Passes

-----------------------------------------------------------------------------
(* Wrappers and closures *)

(* Beginning a function that is no specialization. *)
LEMMA EnterSettled ==
  ASSUME Linked, NEW pos, NEW full, Settled(pos, full), [Next]_vars,
         UNCHANGED <<prog, registries, specs>>, ctr'.let = ctr.let,
         NEW f, f.kind # "spec",
         NEW frame \in CapturingFrames(prog, pos, full, funcs'),
         NEW cont \in CapturingFrames(prog, pos, full, funcs'),
         Enter(f, frame, cont),
         \A r \in refs' : Passes(r)
  PROVE  Settled(pos, full)'
  <1> DEFINE S == CapturingFrames(prog, pos, full, funcs')
  <1>1. funcs' = Append(funcs, f) /\ funcs \in Seq(Fns)
    BY DEF Enter, Linked
  <1>2. \A i \in DOMAIN funcs' : i \notin DOMAIN funcs => funcs'[i].kind # "spec"
    BY <1>1
  <1>3. stack \in Seq(S) /\ frame \in S /\ cont \in S
    BY CapturesKept, SeqMonotone DEF Settled, CapturingStack
  <1> HIDE DEF S
  <1>4. stack' \in Seq(S)
    BY <1>3, EnterSeq
  <1>5. CapturingStack(pos, full)'
    BY <1>4 DEF CapturingStack, S
  <1>6. CachedUnderKey' /\ SpecializedWith(full)'
    BY <1>2, CachedKeysKept, SpecializedKept DEF Settled
  <1>7. QED BY <1>5, <1>6, SettledWithin

(* The environment of a wrapper: parameters. *)
LEMMA ParametersCapturing ==
  ASSUME prog \in Programs, NamesDistinct(prog), NEW b \in Binder,
         NEW params \in Seq(Binder),
         \A i \in DOMAIN params : \E j \in DOMAIN prog.params[b] : params[i] = prog.params[b][j],
         NEW fn \in Nat, NEW ty \in Types, NEW full
  PROVE  CapturingEnv(prog, full, ParamEnv(params, fn, ty))
  <1> DEFINE env == ParamEnv(params, fn, ty)
  <1>1. \A n \in DOMAIN env : \E i \in DOMAIN params : env[n].b = params[i]
    BY ParamEnvBinders
  <1>2. \A n \in DOMAIN env : env[n].kind = "val"
    BY ParamEnvKind
  <1> HIDE DEF env
  <1>3. CapturingEnv(prog, full, env)
    BY <1>1, <1>2 DEF CapturingEnv, LocalBinders
  <1>4. QED BY <1>3 DEF env

LEMMA WrapSettled ==
  ASSUME Linked, Named, NEW pos, NEW full, Settled(pos, full), [Next]_vars, Wrap
  PROVE  Settled(pos, full)'
  <1> DEFINE params == prog.params[Now.b]
             k == Len(Now.args)
             rest == SubSeq(params, k + 1, Len(params))
             env == ParamEnv(rest, NextFn, NowType)
             wrapped == funcs[Now.to]
             f == Fn("partial", Now.b, wrapped.of, ctr.spec, NowType, NoCaptures)
             frame == Frame(NextFn, NowType, env, Uses(Now.args))
             cont == Replace(<<>>)
             r1 == Ref(Top.fn, Now.f, wrapped.b, NextFn, NoCaptures)
             r2 == Ref(NextFn, Now.f, wrapped.b, Now.to, NoCaptures)
  <1>1. At("wrap")
    BY DEF Wrap
  <1>2. CASE k > Len(params)
    BY <1>2, FailSettled DEF Wrap
  <1>3. CASE ~(k > Len(params))
    <2>1. Enter(f, frame, cont) /\ ctr' = SpecCounted
          /\ refs' = refs \cup {r1, r2}
          /\ UNCHANGED <<prog, registries, specs>>
      BY <1>3 DEF Wrap
    <2>2. /\ stack # <<>> /\ Top.todo # <<>> /\ Now.op = "wrap"
          /\ Now.b \in Binder /\ Now.args \in Seq(Arg) /\ NowType \in Types
      BY <1>1, AtParts
    <2>3. /\ prog \in Programs /\ params \in Seq(Binder) /\ NextFn \in Nat
          /\ ctr'.let = ctr.let /\ NamesDistinct(prog)
      BY <2>1, <2>2, ProgramParts, SMTT(30) DEF Linked, NextFn, SpecCounted, Settled, Ordered
    <2>4. Now.to \in DOMAIN funcs /\ wrapped.caps = NoCaptures
      BY <2>2, NowCapturing DEF PendingItem
    <2>5. f.kind = "partial" /\ funcs \in Seq(Fns)
      BY DEF Fn, Linked
    <2>6. frame \in CapturingFrames(prog, pos, full, funcs')
      <3> DEFINE uses == Uses(Now.args)
      <3>1. k \in Nat /\ k <= Len(params)
        BY <1>3, <2>2, <2>3
      <3>2. rest \in Seq(Binder)
            /\ \A i \in DOMAIN rest : \E j \in DOMAIN params : rest[i] = params[j]
        <4> HIDE DEF k, params
        <4>1. rest \in Seq(Binder)
          BY <2>3, <3>1, SubSeqKind
        <4>2. \A i \in DOMAIN rest : k + i \in DOMAIN params /\ rest[i] = params[k + i]
          BY <2>3, <3>1
        <4>3. QED BY <4>1, <4>2
      <3> HIDE DEF rest
      <3>3. env \in FromNames(Entry) /\ CapturingEnv(prog, full, env)
        BY <2>2, <2>3, <3>2, ParamEnvKind, ParametersCapturing
      <3>4. uses \in Seq(Item) /\ \A i \in DOMAIN uses : uses[i].op = "use"
        BY <2>2, UsesKind DEF Uses, Use
      <3> HIDE DEF env, uses
      <3>5. InOrder(pos, env, uses) /\ \A i \in DOMAIN uses : PendingItem(prog, funcs', uses[i])
        BY <3>4, UsesCapturing DEF InOrder, Opening
      <3>6. QED BY <2>2, <2>3, <3>3, <3>4, <3>5, NewFrameCapturing DEF uses
    <2>7. cont \in CapturingFrames(prog, pos, full, funcs')
      BY <2>2, NothingToDo, CarryOnCapturing
    <2> HIDE DEF frame, cont
    <2>8. Passes(r1) /\ Passes(r2)
      <3>1. NextFn \in DOMAIN funcs' /\ funcs'[NextFn].kind = "partial"
        <4>1. funcs' = Append(funcs, f)
          BY <2>1 DEF Enter
        <4> HIDE DEF f
        <4>2. QED BY <2>5, <4>1 DEF NextFn
      <3>2. Now.to \in DOMAIN funcs' /\ funcs'[Now.to].caps = NoCaptures
        BY <2>4, CapturesKept
      <3>3. QED BY <3>1, <3>2 DEF Passes, Ref
    <2> HIDE DEF f, r1, r2
    <2>9. QED BY <2>1, <2>3, <2>5, <2>6, <2>7, <2>8, EnterSettled DEF Passes
  <1>4. QED BY <1>2, <1>3

LEMMA EmitClosureSettled ==
  ASSUME Linked, Named, NEW pos, NEW full, Settled(pos, full), [Next]_vars, EmitClosure
  PROVE  Settled(pos, full)'
  <1> DEFINE v(n) == ValueEntry(Top.env[n].b, NextFn, ClosureType(n))
             loaded == [n \in ClosureFree |-> v(n)]
             params == ParamEnv(prog.params[Now.b], NextFn, Top.ty)
             env == Hide(loaded, params)
             f == Fn("closure", Now.b, prog.name[Now.b], ctr.closure, Top.ty, NoCaptures)
             frame == Frame(NextFn, Top.ty, env, prog.body[Now.b])
             cont == Replace(<<>>)
             r == Ref(Top.fn, Now.b, Now.b, NextFn, NoCaptures)
  <1>1. /\ At("closure") /\ Enter(f, frame, cont) /\ ClosureLambdas = {}
        /\ ctr' = [ctr EXCEPT !.closure = @ + 1]
        /\ refs' = refs \cup {r}
        /\ UNCHANGED <<prog, registries, specs>>
    BY DEF EmitClosure
  <1>2. /\ stack # <<>> /\ Top.todo # <<>> /\ Now.b \in Binder /\ Top.ty \in Types
        /\ Now.op = "closure"
        /\ \A n \in DOMAIN Top.env : n \in Name /\ Top.env[n] \in Entry
    BY <1>1, AtParts
  <1>3. /\ prog \in Programs /\ NextFn \in Nat /\ ctr'.let = ctr.let
        /\ prog.params[Now.b] \in Seq(Binder) /\ \A b \in Binder : prog.name[b] \in Name /\ pos[b] \in Nat
        /\ NamesDistinct(prog)
    BY <1>1, <1>2, ProgramParts, SMTT(30) DEF Linked, NextFn, Settled, Ordered
  (* what it captures was bound before it is met *)
  <1>4. \A n \in DOMAIN Top.env : /\ Top.env[n].b \in Binder
                                  /\ Top.env[n].b \in LocalBinders(prog)
                                  /\ pos[Top.env[n].b] <= pos[Now.b]
    <2>1. \A n \in DOMAIN Top.env : pos[Top.env[n].b] < pos[Now.b]
      BY <1>2, NowCapturing DEF Opening
    <2>2. CapturingEnv(prog, full, Top.env)
      BY <1>2, TopCapturing
    <2>3. QED BY <1>2, <1>3, <2>1, <2>2 DEF CapturingEnv, Entry
  <1>5. /\ loaded \in FromNames(Entry)
        /\ \A n \in DOMAIN loaded : /\ loaded[n].kind = "val"
                                    /\ loaded[n].b \in LocalBinders(prog)
                                    /\ pos[loaded[n].b] <= pos[Now.b]
    <2>1. ClosureFree \subseteq DOMAIN Top.env
      BY DEF ClosureFree
    <2>2. \A n \in ClosureFree : /\ v(n) \in Entry /\ v(n).kind = "val"
                                 /\ v(n).b = Top.env[n].b /\ n \in Name
      BY <1>1, <1>2, <1>3, <1>4, <2>1, TopNamed, ClosureTypeKind DEF ValueEntry, Entry
    <2> HIDE DEF v
    <2>3. QED BY <1>4, <2>1, <2>2 DEF FromNames
  <1>6. /\ params \in FromNames(Entry)
        /\ \A n \in DOMAIN params :
             /\ params[n].kind = "val" /\ params[n].b \in LocalBinders(prog)
             /\ \E i \in DOMAIN prog.params[Now.b] : params[n].b = prog.params[Now.b][i]
    <2>1. params \in FromNames(Entry) /\ \A n \in DOMAIN params : params[n].kind = "val"
      BY <1>2, <1>3, ParamEnvKind
    <2>2. \A n \in DOMAIN params :
            \E i \in DOMAIN prog.params[Now.b] : params[n].b = prog.params[Now.b][i]
      BY <1>2, <1>3, ParamEnvBinders
    <2> HIDE DEF params
    <2>3. QED BY <1>2, <2>1, <2>2 DEF LocalBinders
  <1> HIDE DEF loaded, params
  <1>7. /\ env \in FromNames(Entry)
        /\ \A n \in DOMAIN env :
             /\ env[n].kind = "val" /\ env[n].b \in LocalBinders(prog)
             /\ \/ pos[env[n].b] <= pos[Now.b]
                \/ \E i \in DOMAIN prog.params[Now.b] : env[n].b = prog.params[Now.b][i]
    <2>1. env \in FromNames(Entry)
      BY <1>5, <1>6, FromNamesHide
    <2>2. \A n \in DOMAIN env : \/ n \in DOMAIN params /\ env[n] = params[n]
                                \/ n \in DOMAIN loaded /\ env[n] = loaded[n]
      BY DEF Hide
    <2> HIDE DEF env
    <2>3. QED BY <1>5, <1>6, <2>1, <2>2
  <1> HIDE DEF env
  <1>8. CapturingEnv(prog, full, env) /\ InOrder(pos, env, prog.body[Now.b])
    <2>1. CapturingEnv(prog, full, env)
      BY <1>7 DEF CapturingEnv
    <2>2. QED BY <1>2, <1>3, <1>7, <2>1, BodyInOrder DEF Settled
  <1>9. frame \in CapturingFrames(prog, pos, full, funcs')
    BY <1>2, <1>3, <1>7, <1>8, BodyItems, BodyPending, NewFrameCapturing
  <1>10. cont \in CapturingFrames(prog, pos, full, funcs')
    BY <1>2, NothingToDo, CarryOnCapturing
  <1>11. f.kind = "closure"
    BY DEF Fn
  <1> HIDE DEF frame, cont
  <1>12. Passes(r)
    <2>1. funcs' = Append(funcs, f) /\ funcs \in Seq(Fns)
      BY <1>1 DEF Enter, Linked
    <2> HIDE DEF f
    <2>2. NextFn \in DOMAIN funcs' /\ funcs'[NextFn].kind = "closure"
      BY <1>11, <2>1 DEF NextFn
    <2>3. QED BY <2>2 DEF Passes, Ref
  <1> HIDE DEF f, r
  <1>13. QED BY <1>1, <1>3, <1>9, <1>10, <1>11, <1>12, EnterSettled DEF Passes

-----------------------------------------------------------------------------

LEMMA SettledInit ==
  ASSUME Init, NEW pos, Ordered(pos)
  PROVE  \E full : Settled(pos, full)
  <1>1. /\ prog \in Programs /\ stack = <<>> /\ refs = {} /\ specs = <<>> /\ abstractions = <<>>
        /\ DOMAIN funcs = {1} /\ funcs[1].kind = "main" /\ ctr.let = 0
    BY DEF Init
  <1>2. DOMAIN <<>> = {}
    OBVIOUS
  <1>3. DOMAIN <<>> = Generated(ctr.let)
    <2>1. DOMAIN LetName \cap 1 .. 0 = {}
      BY ConstantAssumption
    <2>2. QED BY <1>1, <1>2, <2>1 DEF Generated
  <1>4. SymbolsOfValues
    <2> DEFINE D == {prog.name[b] : b \in Builtin}
               s(n) == [b |-> CHOOSE b \in Builtin : prog.name[b] = n, fn |-> BuiltinFn]
    <2>1. symbols = [n \in D |-> s(n)]
      BY DEF Init
    <2>2. \A n \in D : s(n).fn = BuiltinFn
      OBVIOUS
    <2> HIDE DEF D, s
    <2>3. QED BY <2>1, <2>2 DEF SymbolsOfValues
  <1>5. CapturingStack(pos, <<>>)
    BY <1>1, EmptyStackCapturing DEF CapturingStack
  <1>6. Settled(pos, <<>>)
    BY <1>1, <1>2, <1>3, <1>4, <1>5 DEF Settled, RegisteredLambdas, CachedUnderKey,
         SpecializedWith, CaptureAgreement
  <1>7. QED BY <1>6

LEMMA SettledStep ==
  ASSUME Linked, Named, NEW pos, NEW full, Settled(pos, full), [Next]_vars
  PROVE  \E more : Settled(pos, more)'
  <1>1. CASE UNCHANGED vars
    <2>1. UNCHANGED <<prog, registries, specs, ctr, funcs, refs, stack>>
      BY <1>1 DEF vars, registries
    <2>2. CapturingStack(pos, full)'
      BY <2>1 DEF Settled, CapturingStack
    <2>3. Settled(pos, full)'
      BY <2>1, <2>2, SettledQuiet DEF Passes
    <2>4. QED BY <2>3
  <1>2. CASE LetLambda
    BY <1>2, LetLambdaSettled
  <1>3. CASE Next /\ ~LetLambda
    <2>1. Settled(pos, full)'
      BY <1>3, DeclareLambdaSettled, DeclareValueSettled, OtherStmtSettled, FinishSettled,
         ScopeSettled, LetValueSettled, BindValueSettled, UseSettled, ReferenceLambdaSettled,
         CallSettled, PartialApplySettled, WrapSettled, CaptureLambdaSettled, EmitClosureSettled
         DEF Next
    <2>2. QED BY <2>1
  <1>4. QED BY <1>1, <1>2, <1>3

SettledSoFar == WellScoped(prog) => Named /\ \E pos, full : Settled(pos, full)

(* In a well-scoped program every call passes, in front of its arguments,  *)
(* exactly the captures its callee was compiled to receive, though they    *)
(* are computed anew where it is called and the cache tells instantiations *)
(* apart by the captures' types alone: a local lambda captures the same    *)
(* names wherever it is called, for what is bound after it is not free in  *)
(* it, or, handed on as a value, none.                                     *)
THEOREM CallsPassCaptures == Spec => [](WellScoped(prog) => CaptureAgreement)
  <1>1. Init => SettledSoFar
    <2>1. ASSUME Init, WellScoped(prog) PROVE Named /\ \E pos, full : Settled(pos, full)
      <3>1. NamesDistinct(prog) /\ \E pos \in [Binder -> Nat] : MetInOrder(prog, pos)
        BY <2>1 DEF WellScoped
      <3>2. PICK pos : Ordered(pos)
        BY <3>1 DEF Ordered
      <3>3. QED BY <2>1, <3>1, <3>2, NamedInit, SettledInit
    <2>2. QED BY <2>1 DEF SettledSoFar
  <1>2. Linked /\ SettledSoFar /\ [Next]_vars => SettledSoFar'
    <2>1. ASSUME Linked, SettledSoFar, [Next]_vars, WellScoped(prog)'
          PROVE  (Named /\ \E pos, full : Settled(pos, full))'
      <3>1. prog' = prog
        BY <2>1, ProgramKept
      <3>2. WellScoped(prog)
        BY <2>1, <3>1 DEF WellScoped, NamesDistinct, MetInOrder
      <3>3. PICK pos, full : Settled(pos, full)
        BY <2>1, <3>2 DEF SettledSoFar
      <3>4. Named
        BY <2>1, <3>2 DEF SettledSoFar
      <3>5. Named'
        BY <2>1, <3>2, <3>4, NamedStep DEF WellScoped
      <3>6. \E more : Settled(pos, more)'
        BY <2>1, <3>3, <3>4, SettledStep
      <3>7. QED BY <3>5, <3>6
    <2>2. QED BY <2>1 DEF SettledSoFar
  <1>3. SettledSoFar => (WellScoped(prog) => CaptureAgreement)
    BY DEF SettledSoFar, Settled
  <1>4. QED BY <1>1, <1>2, <1>3, AlwaysLinked, PTL DEF Spec
=============================================================================
