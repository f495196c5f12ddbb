--------------------------- MODULE LoweringProofs ---------------------------
(***************************************************************************)
(* Proofs about Lowering, for every set of programs and every value of     *)
(* the other constants.                                                    *)
(***************************************************************************)
EXTENDS Lowering, SequenceTheorems, TLAPS

(* The functions with finitely or infinitely many names as domain: what    *)
(* environments, captures and registries are.                              *)
FromNames(S) == UNION {[D -> S] : D \in SUBSET Name}

Captured == [b : Binder, ty : Types]

Symbol == [b : Binder, fn : Nat]

Frames == [fn : Nat, ty : Types, env : FromNames(Entry), todo : Seq(Item)]

FnKinds == {"main", "val", "spec", "partial", "closure"}

Fns == [kind : FnKinds, b : Binder, of : Name, n : Nat, ty : Types,
        caps : FromNames(Captured), done : BOOLEAN]

Refs == [in : Nat, use : Binder, got : Binder, to : Nat, caps : FromNames(Captured)]

(* The frames possible when n functions have been begun and the lambdas    *)
(* syms are registered: a value in the environment belongs to the frame's  *)
(* own function, a lambda in it is registered, what is to be wrapped has   *)
(* been begun.                                                             *)
GoodFrames(n, syms) ==
  {fr \in Frames :
     /\ fr.fn \in 1 .. n
     /\ \A m \in DOMAIN fr.env :
          /\ fr.env[m].kind = "val" => fr.env[m].fn = fr.fn
          /\ fr.env[m].kind = "abs" => fr.env[m].sym \in syms
     /\ \A k \in DOMAIN fr.todo : fr.todo[k].op = "wrap" => fr.todo[k].to \in 1 .. n}

GoodRefs(n) == {r \in Refs : r.in \in 1 .. n /\ r.to \in 0 .. n}

GoodSymbols(n) == {s \in Symbol : s.fn \in 0 .. n}

(* The kind of every variable and what it refers to. *)
Linked ==
  /\ prog \in Programs
  /\ pc \in 1 .. Len(prog.top) + 1
  /\ stack \in Seq(GoodFrames(Len(funcs), DOMAIN abstractions))
  /\ abstractions \in FromNames(Binder)
  /\ inlineable \in FromNames(Binder)
  /\ \A n \in DOMAIN inlineable :
       prog.body[inlineable[n]] # <<>> /\ prog.body[inlineable[n]][1].op = "use"
  /\ symbols \in FromNames(GoodSymbols(Len(funcs)))
  /\ \A key \in DOMAIN specs : specs[key] \in 1 .. Len(funcs)
  /\ ctr \in [spec : Nat, let : Nat, closure : Nat]
  /\ funcs \in Seq(Fns) /\ Len(funcs) >= MainFn
  /\ refs \subseteq GoodRefs(Len(funcs))
  /\ outcome \in Outcomes

-----------------------------------------------------------------------------
(* Functions from names *)

(* What being a function from names comes down to. *)
LEMMA FromNamesDef ==
  ASSUME NEW S, NEW f
  PROVE  f \in FromNames(S) <=> /\ f \in [DOMAIN f -> S]
                                /\ DOMAIN f \subseteq Name
  BY DEF FromNames

(* The empty one. *)
LEMMA FromNamesEmpty ==
  ASSUME NEW S
  PROVE  <<>> \in FromNames(S)
  <1>1. <<>> \in Seq(S) /\ Len(<<>>) = 0
    OBVIOUS
  <1>2. DOMAIN <<>> = {} /\ <<>> \in [{} -> S]
    BY <1>1
  <1>3. QED BY <1>2, {} \in SUBSET Name DEF FromNames

(* Put and Hide stay within the functions from names. *)
LEMMA FromNamesPut ==
  ASSUME NEW S, NEW f \in FromNames(S), NEW n \in Name, NEW v \in S
  PROVE  Put(f, n, v) \in FromNames(S)
  BY FromNamesDef DEF Put

LEMMA FromNamesHide ==
  ASSUME NEW S, NEW f \in FromNames(S), NEW g \in FromNames(S)
  PROVE  Hide(f, g) \in FromNames(S)
  BY FromNamesDef DEF Hide

-----------------------------------------------------------------------------
(* Sequences *)

(* A sequence over a set is one over a larger set. *)
LEMMA SeqMonotone ==
  ASSUME NEW S, NEW T, S \subseteq T, NEW s \in Seq(S)
  PROVE  s \in Seq(T)
  OBVIOUS

LEMMA SeqExcept ==
  ASSUME NEW S, NEW s \in Seq(S), NEW i, NEW e \in S
  PROVE  /\ [s EXCEPT ![i] = e] \in Seq(S)
         /\ Len([s EXCEPT ![i] = e]) = Len(s)
  <1> DEFINE t == [s EXCEPT ![i] = e]
  <1>1. Len(s) \in Nat /\ s \in [1 .. Len(s) -> S]
    OBVIOUS
  <1>2. t \in [1 .. Len(s) -> S]
    BY <1>1
  <1> HIDE DEF t
  <1>3. t \in Seq(S)
    BY <1>1, <1>2
  <1>4. DOMAIN t = 1 .. Len(s) /\ DOMAIN t = 1 .. Len(t) /\ Len(t) \in Nat
    BY <1>2, <1>3
  <1>5. Len(t) = Len(s)
    BY <1>1, <1>4
  <1>6. QED BY <1>3, <1>5 DEF t

LEMMA SeqElement ==
  ASSUME NEW S, NEW s \in Seq(S), NEW i \in 1 .. Len(s)
  PROVE  s[i] \in S
  OBVIOUS

LEMMA LastElement ==
  ASSUME NEW S, NEW s \in Seq(S), s # <<>>
  PROVE  Len(s) \in 1 .. Len(s) /\ s[Len(s)] \in S
  OBVIOUS

-----------------------------------------------------------------------------
(* Items, frames, environments *)

(* What the assumption about the programs gives for the one at hand. *)
LEMMA ProgramParts ==
  ASSUME prog \in Programs
  PROVE  /\ prog.name \in [Binder -> Name]
         /\ prog.params \in [Binder -> Seq(Binder)]
         /\ prog.body \in [Binder -> Seq(SourceItem)]
         /\ prog.top \in Seq([kind : Kinds, b : Binder])
         /\ InlineableIsUse(prog)
  BY ConstantAssumption DEF Program

LEMMA ItemParts ==
  ASSUME NEW it \in Item
  PROVE  /\ it.op \in Ops /\ it.b \in Binder /\ it.f \in Binder
         /\ it.args \in Seq(Arg) /\ it.ty \in Types \cup {Same} /\ it.to \in Nat
  BY DEF Item

LEMMA BodyItems ==
  ASSUME prog \in Programs, NEW b \in Binder
  PROVE  prog.body[b] \in Seq(Item)
  <1>1. SourceItem \subseteq Item
    BY DEF SourceItem
  <1>2. prog.body[b] \in Seq(SourceItem)
    BY ProgramParts
  <1>3. QED BY <1>1, <1>2, SeqMonotone

(* The frame on top and the item it is at. *)
LEMMA TopParts ==
  ASSUME Linked, stack # <<>>
  PROVE  /\ Len(stack) \in 1 .. Len(stack)
         /\ Top \in GoodFrames(Len(funcs), DOMAIN abstractions)
         /\ Top \in Frames
         /\ Top.fn \in Nat /\ Top.ty \in Types
         /\ Top.env \in FromNames(Entry) /\ Top.todo \in Seq(Item)
  <1>1. Len(stack) \in 1 .. Len(stack) /\ Top \in GoodFrames(Len(funcs), DOMAIN abstractions)
    BY LastElement DEF Linked, Top
  <1>2. Top \in Frames
    BY <1>1 DEF GoodFrames
  <1>3. QED BY <1>1, <1>2 DEF Frames

LEMMA NowParts ==
  ASSUME Linked, stack # <<>>, Top.todo # <<>>
  PROVE  /\ Now \in Item /\ Tail(Top.todo) \in Seq(Item)
         /\ NowName \in Name /\ NowType \in Types
  <1>1. Now \in Item /\ Tail(Top.todo) \in Seq(Item)
    BY TopParts DEF Now
  <1>2. NowName \in Name
    BY <1>1, ItemParts, ProgramParts DEF NowName, Linked
  <1>3. NowType \in Types
    BY <1>1, ItemParts, TopParts DEF NowType, Instance
  <1>4. QED BY <1>1, <1>2, <1>3

LEMMA ReplaceKind ==
  ASSUME Linked, stack # <<>>, Top.todo # <<>>, NEW items \in Seq(Item)
  PROVE  /\ Replace(items) \in Frames
         /\ Replace(items).fn = Top.fn /\ Replace(items).env = Top.env
         /\ Replace(items).todo = items \o Tail(Top.todo)
  <1>1. items \o Tail(Top.todo) \in Seq(Item)
    BY NowParts
  <1>2. Top \in Frames
    BY TopParts
  <1> DEFINE todo == items \o Tail(Top.todo)
  <1>3. Replace(items) = [Top EXCEPT !.todo = todo]
    BY DEF Replace
  <1> HIDE DEF todo
  <1>4. /\ Replace(items) \in Frames
        /\ Replace(items).fn = Top.fn /\ Replace(items).env = Top.env
        /\ Replace(items).todo = todo
    BY <1>1, <1>2, <1>3 DEF Frames, todo
  <1>5. QED BY <1>4 DEF todo

LEMMA UseKind ==
  ASSUME NEW b \in Binder, NEW ty \in Types \cup {Same}
  PROVE  Use(b, ty) \in Item
  BY DEF Use, Item, Ops

LEMMA UsesKind ==
  ASSUME NEW args \in Seq(Arg)
  PROVE  Uses(args) \in Seq(Item)
  <1>1. \A i \in DOMAIN args : Use(args[i].b, args[i].ty) \in Item
    <2>1. TAKE i \in DOMAIN args
    <2>2. args[i] \in Arg
      OBVIOUS
    <2>3. args[i].b \in Binder /\ args[i].ty \in Types \cup {Same}
      BY <2>2 DEF Arg
    <2>4. QED BY <2>3, UseKind
  <1>2. QED BY <1>1 DEF Uses

(* Parameters become values of the function they are parameters of. *)
LEMMA ParamEnvKind ==
  ASSUME prog \in Programs, NEW params \in Seq(Binder), NEW fn \in Nat, NEW ty \in Types
  PROVE  LET env == ParamEnv(params, fn, ty) IN
         /\ env \in FromNames(Entry)
         /\ \A n \in DOMAIN env : /\ env[n].kind = "val" /\ env[n].fn = fn
                                  /\ prog.name[env[n].b] = n
  <1> DEFINE last == {i \in DOMAIN params : \A j \in DOMAIN params :
                        j > i => prog.name[params[j]] # prog.name[params[i]]}
             D == {prog.name[params[i]] : i \in last}
             pick(n) == params[CHOOSE i \in last : prog.name[params[i]] = n]
             env == ParamEnv(params, fn, ty)
  <1>1. env = [n \in D |-> ValueEntry(pick(n), fn, ty)]
    BY DEF ParamEnv
  <1>2. \A i \in last : params[i] \in Binder
    OBVIOUS
  <1>3. D \subseteq Name
    BY <1>2, ProgramParts
  <1>4. ASSUME NEW n \in D
        PROVE  pick(n) \in Binder /\ prog.name[pick(n)] = n
    <2>1. \E i \in last : prog.name[params[i]] = n
      BY <1>4
    <2>2. PICK i \in last : i = CHOOSE j \in last : prog.name[params[j]] = n
      BY <2>1
    <2>3. prog.name[params[i]] = n
      BY <2>1, <2>2
    <2>4. pick(n) = params[i]
      BY <2>2
    <2> HIDE DEF pick, last
    <2>5. QED BY <2>3, <2>4, <1>2
  <1>5. ASSUME NEW n \in D
        PROVE  /\ ValueEntry(pick(n), fn, ty) \in Entry
               /\ ValueEntry(pick(n), fn, ty).kind = "val"
               /\ ValueEntry(pick(n), fn, ty).fn = fn
               /\ ValueEntry(pick(n), fn, ty).b = pick(n)
    BY <1>4, ProgramParts DEF ValueEntry, Entry
  <1> HIDE DEF pick, D, last
  <1>6. env \in FromNames(Entry)
    BY <1>1, <1>3, <1>5 DEF FromNames
  <1> HIDE DEF env
  <1>7. \A n \in DOMAIN env : /\ env[n].kind = "val" /\ env[n].fn = fn
                              /\ prog.name[env[n].b] = n
    BY <1>1, <1>4, <1>5
  <1>8. QED BY <1>6, <1>7 DEF env

(* Captures are kept with the binder they have in the environment and the  *)
(* MLIR type.                                                              *)
LEMMA LambdaCapturesKind ==
  ASSUME NEW b \in Binder, NEW self, NEW env \in FromNames(Entry)
  PROVE  LambdaCaptures(b, self, env) \in FromNames(Captured)
  <1> DEFINE D == {m \in (FreeVariables(prog, b) \ {self}) \cap DOMAIN env : IsValue(env, m)}
             c(n) == [b |-> env[n].b, ty |-> MLIRType[env[n].ty]]
  <1>1. D \subseteq DOMAIN env
    OBVIOUS
  <1>2. DOMAIN env \subseteq Name /\ \A n \in DOMAIN env : env[n] \in Entry
    BY FromNamesDef
  <1>3. \A n \in D : c(n) \in Captured
    BY <1>1, <1>2, ConstantAssumption DEF Entry, Captured
  <1>4. LambdaCaptures(b, self, env) = [n \in D |-> c(n)]
    BY DEF LambdaCaptures
  <1> HIDE DEF D, c
  <1>5. QED BY <1>1, <1>2, <1>3, <1>4 DEF FromNames

(* The environment of a specialization has values of its own function, and *)
(* the lambda itself.                                                      *)
LEMMA SpecEnvKind ==
  ASSUME Linked, NEW sym \in DOMAIN abstractions, NEW self \in Name, NEW ty \in Types,
         NEW caps \in FromNames(Captured), NEW fn \in Nat
  PROVE  LET env == SpecEnv(sym, self, ty, caps, fn) IN
         /\ env \in FromNames(Entry)
         /\ \A n \in DOMAIN env :
              \/ env[n].kind = "val" /\ env[n].fn = fn
              \/ env[n].kind = "abs" /\ env[n].sym = sym
  <1> DEFINE c(n) == ValueEntry(caps[n].b, fn, caps[n].ty)
             captured == [n \in DOMAIN caps |-> c(n)]
             params == ParamEnv(prog.params[abstractions[sym]], fn, ty)
             inputs == Hide(captured, params)
             lambda == LambdaEntry(abstractions[sym], sym, fn, ty)
             own(env) == \A n \in DOMAIN env : env[n].kind = "val" /\ env[n].fn = fn
  <1>0. prog \in Programs /\ abstractions[sym] \in Binder /\ sym \in Name
    BY FromNamesDef DEF Linked
  <1>1. DOMAIN caps \subseteq Name /\ \A n \in DOMAIN caps : caps[n] \in Captured
    BY FromNamesDef
  <1>2. \A n \in DOMAIN caps : c(n) \in Entry /\ c(n).kind = "val" /\ c(n).fn = fn
    BY <1>0, <1>1, ProgramParts DEF Captured, ValueEntry, Entry
  <1>3. captured \in FromNames(Entry) /\ own(captured)
    <2> HIDE DEF c
    <2>1. QED BY <1>1, <1>2 DEF FromNames
  <1>4. params \in FromNames(Entry) /\ own(params)
    <2>1. prog.params[abstractions[sym]] \in Seq(Binder)
      BY <1>0, ProgramParts
    <2>2. QED BY <1>0, <2>1, ParamEnvKind
  <1>5. lambda \in Entry /\ lambda.kind = "abs" /\ lambda.sym = sym
    BY <1>0 DEF LambdaEntry, Entry
  <1>6. SpecEnv(sym, self, ty, caps, fn) = IF self # sym THEN Put(inputs, self, lambda) ELSE inputs
    BY DEF SpecEnv, InputEnv
  <1> HIDE DEF captured, params, lambda
  <1>7. inputs \in FromNames(Entry)
    BY <1>3, <1>4, FromNamesHide
  <1>8. own(inputs)
    <2>1. TAKE n \in DOMAIN inputs
    <2>2. CASE n \in DOMAIN params
      <3>1. inputs[n] = params[n]
        BY <2>2 DEF Hide
      <3>2. QED BY <1>4, <2>2, <3>1
    <2>3. CASE n \notin DOMAIN params
      <3>1. n \in DOMAIN captured
        BY <2>3 DEF Hide
      <3>2. inputs[n] = captured[n]
        BY <2>3, <3>1 DEF Hide
      <3>3. QED BY <1>3, <3>1, <3>2
    <2>4. QED BY <2>2, <2>3
  <1> HIDE DEF inputs
  <1>9. Put(inputs, self, lambda) \in FromNames(Entry)
    BY <1>5, <1>7, FromNamesPut
  <1> DEFINE env == SpecEnv(sym, self, ty, caps, fn)
  <1>10. CASE self # sym
    <2>1. env = Put(inputs, self, lambda)
      BY <1>6, <1>10
    <2>2. \A n \in DOMAIN env : \/ n = self /\ env[n] = lambda
                                \/ n \in DOMAIN inputs /\ env[n] = inputs[n]
      BY <2>1 DEF Put
    <2> HIDE DEF env
    <2>3. \A n \in DOMAIN env : \/ env[n].kind = "val" /\ env[n].fn = fn
                                \/ env[n].kind = "abs" /\ env[n].sym = sym
      BY <1>5, <1>8, <2>2
    <2>4. QED BY <1>9, <2>1, <2>3 DEF env
  <1>11. CASE self = sym
    <2>1. env = inputs
      BY <1>6, <1>11
    <2>2. QED BY <1>7, <1>8, <2>1
  <1>12. QED BY <1>10, <1>11

-----------------------------------------------------------------------------
(* Steps on the stack *)

(* More functions and more lambdas leave a good frame good. *)
LEMMA GoodFramesGrow ==
  ASSUME NEW n \in Nat, NEW m \in Nat, n <= m, NEW s, NEW t, s \subseteq t
  PROVE  GoodFrames(n, s) \subseteq GoodFrames(m, t)
  BY DEF GoodFrames

(* A new frame is good when its parts are. *)
LEMMA NewFrameGood ==
  ASSUME NEW n \in Nat, NEW syms, NEW fn \in 1 .. n, NEW ty \in Types,
         NEW env \in FromNames(Entry), NEW todo \in Seq(Item),
         \A m \in DOMAIN env : /\ env[m].kind = "val" => env[m].fn = fn
                               /\ env[m].kind = "abs" => env[m].sym \in syms,
         \A k \in DOMAIN todo : todo[k].op = "wrap" => todo[k].to \in 1 .. n
  PROVE  Frame(fn, ty, env, todo) \in GoodFrames(n, syms)
  BY DEF Frame, GoodFrames, Frames

LEMMA NewEnvGood ==
  ASSUME NEW n, NEW syms, NEW fr \in GoodFrames(n, syms), NEW env \in FromNames(Entry),
         \A m \in DOMAIN env : /\ env[m].kind = "val" => env[m].fn = fr.fn
                               /\ env[m].kind = "abs" => env[m].sym \in syms
  PROVE  [fr EXCEPT !.env = env] \in GoodFrames(n, syms)
  <1> DEFINE new == [fr EXCEPT !.env = env]
  <1>1. /\ fr \in Frames /\ fr.fn \in 1 .. n
        /\ \A k \in DOMAIN fr.todo : fr.todo[k].op = "wrap" => fr.todo[k].to \in 1 .. n
    BY DEF GoodFrames
  <1>2. new \in Frames /\ new.env = env /\ new.fn = fr.fn /\ new.todo = fr.todo
    BY <1>1 DEF Frames
  <1> HIDE DEF new
  <1>3. new \in GoodFrames(n, syms)
    BY <1>1, <1>2 DEF GoodFrames
  <1>4. QED BY <1>3 DEF new

(* Source items hold nothing to wrap. *)
LEMMA BodyHasNoWrap ==
  ASSUME prog \in Programs, NEW b \in Binder
  PROVE  \A k \in DOMAIN prog.body[b] : prog.body[b][k].op # "wrap"
  <1>1. prog.body[b] \in Seq(SourceItem)
    BY ProgramParts
  <1>2. QED BY <1>1 DEF SourceItem

LEMMA UsesHaveNoWrap ==
  ASSUME NEW args
  PROVE  \A k \in DOMAIN Uses(args) : Uses(args)[k].op # "wrap"
  BY DEF Uses, Use

(* Items put in front of what is left of the top frame. *)
LEMMA ReplaceGood ==
  ASSUME Linked, stack # <<>>, Top.todo # <<>>, NEW items \in Seq(Item),
         NEW n \in Nat, Len(funcs) <= n,
         \A k \in DOMAIN items : items[k].op = "wrap" => items[k].to \in 1 .. n
  PROVE  Replace(items) \in GoodFrames(n, DOMAIN abstractions)
  <1> DEFINE rest == Tail(Top.todo)
             todo == items \o rest
             good(s) == \A k \in DOMAIN s : s[k].op = "wrap" => s[k].to \in 1 .. n
  <1>0. Len(funcs) \in Nat
    BY DEF Linked
  <1>1. Top \in GoodFrames(n, DOMAIN abstractions)
    BY <1>0, TopParts, GoodFramesGrow
  <1>2. good(Top.todo)
    BY <1>1 DEF GoodFrames
  <1>3. rest \in Seq(Item) /\ Top.todo \in Seq(Item)
    BY TopParts, NowParts
  <1>4. good(rest)
    <2>1. \A k \in DOMAIN rest : k + 1 \in DOMAIN Top.todo /\ rest[k] = Top.todo[k + 1]
      BY <1>3
    <2> HIDE DEF rest
    <2>2. QED BY <1>2, <2>1
  <1> HIDE DEF rest
  <1>5. good(todo)
    <2>1. TAKE k \in DOMAIN todo
    <2>2. CASE k \in DOMAIN items
      BY <1>3, <2>2
    <2>3. CASE k \notin DOMAIN items
      <3>1. k - Len(items) \in DOMAIN rest /\ todo[k] = rest[k - Len(items)]
        BY <1>3, <2>3
      <3>2. QED BY <1>4, <3>1
    <2>4. QED BY <2>2, <2>3
  <1>6. /\ Replace(items) \in Frames
        /\ Replace(items).fn = Top.fn /\ Replace(items).env = Top.env
        /\ Replace(items).todo = todo
    BY ReplaceKind DEF rest
  <1> HIDE DEF todo
  <1>7. QED BY <1>1, <1>5, <1>6 DEF GoodFrames

(* The two ways the stack changes while a function is being lowered keep   *)
(* its frames in a set.                                                    *)
LEMMA ResumeSeq ==
  ASSUME NEW S, stack \in Seq(S), NEW frame \in S, Resume(frame)
  PROVE  stack' \in Seq(S)
  BY SeqExcept DEF Resume

LEMMA EnterSeq ==
  ASSUME NEW S, stack \in Seq(S), NEW frame \in S, NEW cont \in S, NEW f,
         Enter(f, frame, cont)
  PROVE  stack' \in Seq(S)
  <1>1. [stack EXCEPT ![Len(stack)] = cont] \in Seq(S)
    BY SeqExcept
  <1>2. stack' = Append([stack EXCEPT ![Len(stack)] = cont], frame)
    BY DEF Enter
  <1>3. QED BY <1>1, <1>2

(* Entering a function keeps the functions and the stack linked. *)
LEMMA EnterLinked ==
  ASSUME Linked, NEW f \in Fns,
         NEW frame \in GoodFrames(NextFn, DOMAIN abstractions),
         NEW cont \in GoodFrames(NextFn, DOMAIN abstractions),
         Enter(f, frame, cont)
  PROVE  /\ stack' \in Seq(GoodFrames(Len(funcs'), DOMAIN abstractions))
         /\ funcs' \in Seq(Fns) /\ Len(funcs') = NextFn
         /\ funcs' = Append(funcs, f)
  <1>1. funcs' = Append(funcs, f) /\ funcs \in Seq(Fns)
    BY DEF Enter, Linked
  <1>2. funcs' \in Seq(Fns) /\ Len(funcs') = NextFn
    BY <1>1 DEF NextFn
  <1>3. stack \in Seq(GoodFrames(NextFn, DOMAIN abstractions))
    <2>1. Len(funcs) \in Nat /\ Len(funcs) <= NextFn /\ NextFn \in Nat
      BY <1>1 DEF NextFn
    <2>2. GoodFrames(Len(funcs), DOMAIN abstractions) \subseteq GoodFrames(NextFn, DOMAIN abstractions)
      BY <2>1, GoodFramesGrow
    <2>3. QED BY <2>2, SeqMonotone DEF Linked
  <1>4. stack' \in Seq(GoodFrames(NextFn, DOMAIN abstractions))
    BY <1>3, EnterSeq
  <1>5. QED BY <1>1, <1>2, <1>4

(* Specializing keeps everything it touches linked, and the function a     *)
(* reference is given exists afterwards.                                   *)
LEMMA SpecializeLinked ==
  ASSUME Linked, stack # <<>>,
         NEW sym \in DOMAIN abstractions, NEW self \in Name, NEW ty \in Types,
         NEW caps \in FromNames(Captured), NEW cont,
         LET key == Key(sym, ty, caps) IN
           cont \in GoodFrames(IF key \in DOMAIN specs THEN Len(funcs) ELSE NextFn,
                               DOMAIN abstractions),
         Specialize(sym, self, ty, caps, cont)
  PROVE  LET key == Key(sym, ty, caps) IN
         /\ stack' \in Seq(GoodFrames(Len(funcs'), DOMAIN abstractions))
         /\ funcs' \in Seq(Fns) /\ Len(funcs') >= Len(funcs)
         /\ \A k \in DOMAIN specs' : specs'[k] \in 1 .. Len(funcs')
         /\ ctr' \in [spec : Nat, let : Nat, closure : Nat]
         /\ TargetOf(key) \in 1 .. Len(funcs')
         /\ CompiledFrom(sym, key) \in Binder
  <1> DEFINE key == Key(sym, ty, caps)
             b == abstractions[sym]
             f == Fn("spec", b, sym, ctr.spec, ty, caps)
             frame == Frame(NextFn, ty, SpecEnv(sym, self, ty, caps, NextFn), prog.body[b])
  <1>0. /\ funcs \in Seq(Fns) /\ Len(funcs) \in Nat /\ prog \in Programs
        /\ b \in Binder /\ sym \in Name /\ ctr \in [spec : Nat, let : Nat, closure : Nat]
        /\ \A k \in DOMAIN specs : specs[k] \in 1 .. Len(funcs)
    BY FromNamesDef DEF Linked
  <1>1. key[1] = sym /\ key[2] = ty
    BY DEF Key
  <1> HIDE DEF key
  <1>2. CASE key \in DOMAIN specs
    <2>1. Resume(cont) /\ UNCHANGED <<specs, funcs, ctr>>
      BY <1>2 DEF Specialize, ReuseSpecialization, NewSpecialization, key
    <2>2. stack' \in Seq(GoodFrames(Len(funcs), DOMAIN abstractions))
      BY <1>2, <2>1, ResumeSeq DEF Linked, key
    <2>3. specs[key] \in 1 .. Len(funcs) /\ funcs[specs[key]] \in Fns
      BY <1>0, <1>2
    <2>4. TargetOf(key) = specs[key] /\ CompiledFrom(sym, key) = funcs[specs[key]].b
      BY <1>2 DEF TargetOf, CompiledFrom
    <2>5. CompiledFrom(sym, key) \in Binder
      BY <2>3, <2>4 DEF Fns
    <2>6. QED BY <1>0, <2>1, <2>2, <2>3, <2>4, <2>5 DEF key
  <1>3. CASE key \notin DOMAIN specs
    <2>1. /\ specs' = Put(specs, key, NextFn)
          /\ Enter(f, frame, cont)
          /\ ctr' = [ctr EXCEPT !.spec = @ + 1]
      BY <1>1, <1>3 DEF Specialize, ReuseSpecialization, NewSpecialization, key, Cached, SpecCounted
    <2>2. f \in Fns
      BY <1>0 DEF Fn, Fns, FnKinds
    <2>3. NextFn \in Nat /\ NextFn \in 1 .. NextFn /\ NextFn = Len(funcs) + 1
      BY <1>0 DEF NextFn
    <2>4. frame \in GoodFrames(NextFn, DOMAIN abstractions)
      <3>1. LET env == SpecEnv(sym, self, ty, caps, NextFn) IN
            /\ env \in FromNames(Entry)
            /\ \A n \in DOMAIN env :
                 \/ env[n].kind = "val" /\ env[n].fn = NextFn
                 \/ env[n].kind = "abs" /\ env[n].sym = sym
        BY <2>3, SpecEnvKind
      <3>2. prog.body[b] \in Seq(Item) /\ \A k \in DOMAIN prog.body[b] : prog.body[b][k].op # "wrap"
        BY <1>0, BodyItems, BodyHasNoWrap
      <3>3. QED BY <2>3, <3>1, <3>2, NewFrameGood
    <2>5. cont \in GoodFrames(NextFn, DOMAIN abstractions)
      BY <1>3 DEF key
    <2> HIDE DEF f, frame
    <2>6. /\ stack' \in Seq(GoodFrames(Len(funcs'), DOMAIN abstractions))
          /\ funcs' \in Seq(Fns) /\ Len(funcs') = NextFn
      BY <2>1, <2>2, <2>4, <2>5, EnterLinked
    <2>7. \A k \in DOMAIN specs' : specs'[k] \in 1 .. Len(funcs')
      BY <1>0, <2>1, <2>3, <2>6 DEF Put
    <2>8. ctr' \in [spec : Nat, let : Nat, closure : Nat]
      BY <1>0, <2>1
    <2>9. TargetOf(key) = NextFn /\ CompiledFrom(sym, key) = b
      BY <1>3 DEF TargetOf, CompiledFrom
    <2>10. QED BY <1>0, <2>3, <2>6, <2>7, <2>8, <2>9 DEF key
  <1>4. QED BY <1>2, <1>3

-----------------------------------------------------------------------------
(* Everything stays linked *)

LEMMA FromNamesGrow ==
  ASSUME NEW S, NEW T, S \subseteq T, NEW f \in FromNames(S)
  PROVE  f \in FromNames(T)
  BY FromNamesDef

(* A step within a statement that leaves the registries alone. *)
LEMMA StepWithin ==
  ASSUME Linked, UNCHANGED <<prog, pc, registries>>, outcome' \in Outcomes,
         stack' \in Seq(GoodFrames(Len(funcs'), DOMAIN abstractions)),
         funcs' \in Seq(Fns), Len(funcs') >= Len(funcs),
         \A k \in DOMAIN specs' : specs'[k] \in 1 .. Len(funcs'),
         ctr' \in [spec : Nat, let : Nat, closure : Nat],
         NEW R, refs' = refs \cup R, R \subseteq GoodRefs(Len(funcs'))
  PROVE  Linked'
  <1>1. Len(funcs) \in Nat /\ Len(funcs') \in Nat
    BY DEF Linked
  <1>2. symbols' \in FromNames(GoodSymbols(Len(funcs')))
    <2>1. GoodSymbols(Len(funcs)) \subseteq GoodSymbols(Len(funcs'))
      BY <1>1 DEF GoodSymbols
    <2>2. QED BY <2>1, FromNamesGrow DEF Linked, registries
  <1>3. refs' \subseteq GoodRefs(Len(funcs'))
    BY <1>1, SMTT(30) DEF GoodRefs, Linked
  <1>4. QED BY <1>1, <1>2, <1>3 DEF Linked, registries, MainFn

(* One that begins no function. *)
LEMMA StepQuiet ==
  ASSUME Linked, UNCHANGED <<prog, pc, registries, specs, ctr, funcs, outcome>>,
         stack' \in Seq(GoodFrames(Len(funcs), DOMAIN abstractions)),
         NEW R, refs' = refs \cup R, R \subseteq GoodRefs(Len(funcs))
  PROVE  Linked'
  <1>1. /\ outcome' \in Outcomes /\ funcs' \in Seq(Fns) /\ Len(funcs') >= Len(funcs)
        /\ \A k \in DOMAIN specs' : specs'[k] \in 1 .. Len(funcs')
        /\ ctr' \in [spec : Nat, let : Nat, closure : Nat]
    BY DEF Linked
  <1>2. QED BY <1>1, StepWithin

(* One that refers to nothing. *)
LEMMA StepSilent ==
  ASSUME Linked, UNCHANGED <<prog, pc, registries, specs, ctr, funcs, refs, outcome>>,
         stack' \in Seq(GoodFrames(Len(funcs), DOMAIN abstractions))
  PROVE  Linked'
  BY DEF Linked, registries

LEMMA FailLinked ==
  ASSUME Linked, NEW how \in Outcomes, Fail(how)
  PROVE  Linked'
  BY DEF Fail, Linked, registries

(* The references made are good ones. *)
LEMMA RefKind ==
  ASSUME NEW n \in Nat, NEW in \in 1 .. n, NEW use \in Binder, NEW got \in Binder,
         NEW to \in 0 .. n, NEW caps \in FromNames(Captured)
  PROVE  Ref(in, use, got, to, caps) \in GoodRefs(n)
  BY DEF Ref, GoodRefs, Refs

LEMMA NoCapturesKind == NoCaptures \in FromNames(Captured)
  BY FromNamesEmpty DEF NoCaptures

LEMMA LinkedInit == ASSUME Init PROVE Linked
  <1>1. prog \in Programs /\ pc = 1 /\ stack = <<>> /\ refs = {} /\ specs = <<>>
        /\ abstractions = <<>> /\ inlineable = <<>> /\ outcome = "running"
        /\ ctr = [spec |-> 0, let |-> 0, closure |-> 0]
    BY DEF Init
  <1>2. /\ stack \in Seq(GoodFrames(Len(funcs), DOMAIN abstractions))
        /\ abstractions \in FromNames(Binder) /\ inlineable \in FromNames(Binder)
        /\ DOMAIN inlineable = {} /\ DOMAIN specs = {}
    <2>1. DOMAIN <<>> = {}
      OBVIOUS
    <2>2. QED BY <1>1, <2>1, FromNamesEmpty
  <1>3. pc \in 1 .. Len(prog.top) + 1
    BY <1>1, ProgramParts
  <1>4. funcs \in Seq(Fns) /\ Len(funcs) = 1
    <2> DEFINE b == CHOOSE b \in Binder : TRUE
               n == CHOOSE n \in Name : TRUE
               f == [kind |-> "main", b |-> b, of |-> n, n |-> 0, ty |-> DefaultType,
                     caps |-> NoCaptures, done |-> FALSE]
    <2>1. b \in Binder /\ n \in Name
      BY ConstantAssumption
    <2> HIDE DEF b, n
    <2>2. f \in Fns
      BY <2>1, NoCapturesKind, ConstantAssumption DEF Fns, FnKinds
    <2>3. funcs = <<f>>
      BY DEF Init, b, n
    <2> HIDE DEF f
    <2>4. QED BY <2>2, <2>3
  <1>5. symbols \in FromNames(GoodSymbols(Len(funcs)))
    <2> DEFINE D == {prog.name[b] : b \in Builtin}
               b(n) == CHOOSE b \in Builtin : prog.name[b] = n
               e(n) == [b |-> b(n), fn |-> BuiltinFn]
    <2>1. symbols = [n \in D |-> e(n)]
      BY DEF Init
    <2>2. D \subseteq Name
      BY <1>1, ProgramParts, ConstantAssumption
    <2>3. \A n \in D : b(n) \in Builtin
      OBVIOUS
    <2> HIDE DEF D, b
    <2>4. \A n \in D : e(n) \in GoodSymbols(Len(funcs))
      BY <1>4, <2>3, ConstantAssumption DEF GoodSymbols, Symbol, BuiltinFn
    <2> HIDE DEF e
    <2>5. QED BY <2>1, <2>2, <2>4 DEF FromNames
  <1>6. QED BY <1>1, <1>2, <1>3, <1>4, <1>5 DEF Linked, MainFn, Outcomes

-----------------------------------------------------------------------------

(* The statement lowered next. *)
LEMMA StatementParts ==
  ASSUME Linked, AtStmt
  PROVE  /\ pc \in 1 .. Len(prog.top) /\ prog.top[pc] \in [kind : Kinds, b : Binder]
         /\ pc + 1 \in 1 .. Len(prog.top) + 1
         /\ prog.top[pc].b \in Binder /\ prog.name[prog.top[pc].b] \in Name
  <1>1. prog \in Programs /\ pc \in 1 .. Len(prog.top) + 1 /\ pc <= Len(prog.top)
    BY DEF Linked, AtStmt
  <1>2. Len(prog.top) \in Nat /\ prog.top \in Seq([kind : Kinds, b : Binder])
    BY <1>1, ProgramParts
  <1>3. pc \in 1 .. Len(prog.top) /\ prog.top[pc] \in [kind : Kinds, b : Binder]
    <2>1. pc \in 1 .. Len(prog.top)
      BY <1>1, <1>2
    <2>2. QED BY <1>2, <2>1, SeqElement
  <1>4. prog.top[pc].b \in Binder /\ prog.name[prog.top[pc].b] \in Name
    BY <1>1, <1>3, ProgramParts
  <1>5. QED BY <1>1, <1>2, <1>3, <1>4

LEMMA DeclareLambdaLinked == ASSUME Linked, DeclareLambda PROVE Linked'
  <1> DEFINE b == prog.top[pc].b
  <1>1. /\ pc \in 1 .. Len(prog.top) /\ prog.top[pc] \in [kind : Kinds, b : Binder]
        /\ pc + 1 \in 1 .. Len(prog.top) + 1
    BY StatementParts DEF DeclareLambda
  <1>2. b \in Binder /\ prog.name[b] \in Name
    BY <1>1, ProgramParts DEF Linked
  <1>3. abstractions' = Put(abstractions, prog.name[b], b)
    BY DEF DeclareLambda
  <1> HIDE DEF b
  <1>4. abstractions' \in FromNames(Binder) /\ DOMAIN abstractions \subseteq DOMAIN abstractions'
    <2>1. DOMAIN abstractions \subseteq DOMAIN abstractions'
      BY <1>3 DEF Put
    <2>2. QED BY <1>2, <1>3, <2>1, FromNamesPut DEF Linked
  <1>5. stack \in Seq(GoodFrames(Len(funcs), DOMAIN abstractions'))
    <2>1. GoodFrames(Len(funcs), DOMAIN abstractions) \subseteq GoodFrames(Len(funcs), DOMAIN abstractions')
      BY <1>4, GoodFramesGrow DEF Linked
    <2>2. QED BY <2>1, SeqMonotone DEF Linked
  <1>6. QED BY <1>1, <1>4, <1>5 DEF Linked, DeclareLambda

LEMMA DeclareInlineableLinked == ASSUME Linked, DeclareInlineable PROVE Linked'
  <1> DEFINE b == prog.top[pc].b
  <1>1. /\ pc \in 1 .. Len(prog.top) /\ prog.top[pc] \in [kind : Kinds, b : Binder]
        /\ pc + 1 \in 1 .. Len(prog.top) + 1
        /\ prog.top[pc].kind = "app"
    BY StatementParts DEF DeclareInlineable
  <1>2. b \in Binder /\ prog.name[b] \in Name /\ prog.body[b] # <<>> /\ prog.body[b][1].op = "use"
    <2>1. prog \in Programs /\ InlineableIsUse(prog)
      BY ProgramParts DEF Linked
    <2>2. prog.top[pc].kind = "app" /\ pc \in DOMAIN prog.top
      BY <1>1, <2>1, ProgramParts
    <2>3. prog.body[b] # <<>> /\ prog.body[b][1].op = "use"
      BY <2>1, <2>2 DEF InlineableIsUse
    <2>4. QED BY <1>1, <2>1, <2>3, ProgramParts
  <1>3. inlineable' = Put(inlineable, prog.name[b], b)
    BY DEF DeclareInlineable
  <1> HIDE DEF b
  <1>4. inlineable' \in FromNames(Binder)
    BY <1>2, <1>3, FromNamesPut DEF Linked
  <1>5. \A n \in DOMAIN inlineable' :
          prog.body[inlineable'[n]] # <<>> /\ prog.body[inlineable'[n]][1].op = "use"
    BY <1>2, <1>3 DEF Linked, Put
  <1>6. QED BY <1>1, <1>4, <1>5 DEF Linked, DeclareInlineable

(* A statement's own frame: nothing bound, the items of a body. *)
LEMMA FirstFrameGood ==
  ASSUME prog \in Programs, NEW n \in Nat, NEW fn \in 1 .. n, NEW syms, NEW b \in Binder
  PROVE  Frame(fn, DefaultType, EmptyEnv, prog.body[b]) \in GoodFrames(n, syms)
  <1>1. EmptyEnv \in FromNames(Entry) /\ DOMAIN EmptyEnv = {}
    BY FromNamesEmpty DEF EmptyEnv
  <1>2. prog.body[b] \in Seq(Item) /\ \A k \in DOMAIN prog.body[b] : prog.body[b][k].op # "wrap"
    BY BodyItems, BodyHasNoWrap
  <1>3. QED BY <1>1, <1>2, NewFrameGood, ConstantAssumption

LEMMA DeclareValueLinked == ASSUME Linked, DeclareValue PROVE Linked'
  <1> DEFINE b == prog.top[pc].b
             f == Fn("val", b, prog.name[b], 0, DefaultType, NoCaptures)
             frame == Frame(NextFn, DefaultType, EmptyEnv, prog.body[b])
  <1>1. /\ pc \in 1 .. Len(prog.top) /\ prog.top[pc] \in [kind : Kinds, b : Binder]
        /\ pc + 1 \in 1 .. Len(prog.top) + 1
    BY StatementParts DEF DeclareValue
  <1>2. b \in Binder /\ prog.name[b] \in Name
    BY <1>1, ProgramParts DEF Linked
  <1>3. f \in Fns
    BY <1>2, NoCapturesKind, ConstantAssumption DEF Fn, Fns, FnKinds
  <1>4. funcs' = Append(funcs, f) /\ stack' = <<frame>> /\ pc' = pc + 1
        /\ UNCHANGED <<prog, registries, specs, ctr, refs, outcome>>
    BY DEF DeclareValue
  <1>5. NextFn \in Nat /\ NextFn \in 1 .. NextFn /\ NextFn = Len(funcs) + 1 /\ Len(funcs) \in Nat
    BY DEF NextFn, Linked
  <1>6. frame \in GoodFrames(NextFn, DOMAIN abstractions)
    BY <1>2, <1>5, FirstFrameGood DEF Linked
  <1> HIDE DEF f, frame, b
  <1>7. funcs' \in Seq(Fns) /\ Len(funcs') = NextFn
    BY <1>3, <1>4 DEF Linked, NextFn
  <1>8. stack' \in Seq(GoodFrames(Len(funcs'), DOMAIN abstractions))
    BY <1>4, <1>6, <1>7
  <1>9. symbols' \in FromNames(GoodSymbols(Len(funcs')))
    <2>1. GoodSymbols(Len(funcs)) \subseteq GoodSymbols(Len(funcs'))
      BY <1>5, <1>7 DEF GoodSymbols
    <2>2. QED BY <1>4, <2>1, FromNamesGrow DEF Linked, registries
  <1>10. refs' \subseteq GoodRefs(Len(funcs'))
    BY <1>4, <1>5, <1>7 DEF GoodRefs, Linked
  <1>11. \A k \in DOMAIN specs' : specs'[k] \in 1 .. Len(funcs')
    BY <1>4, <1>5, <1>7 DEF Linked
  <1>12. QED BY <1>1, <1>4, <1>5, <1>7, <1>8, <1>9, <1>10, <1>11 DEF Linked, registries, MainFn

LEMMA LowerExprStmtLinked == ASSUME Linked, LowerExprStmt PROVE Linked'
  <1> DEFINE b == prog.top[pc].b
             frame == Frame(MainFn, DefaultType, EmptyEnv, prog.body[b])
  <1>1. /\ pc \in 1 .. Len(prog.top) /\ prog.top[pc] \in [kind : Kinds, b : Binder]
        /\ pc + 1 \in 1 .. Len(prog.top) + 1
    BY StatementParts DEF LowerExprStmt
  <1>2. stack' = <<frame>> /\ pc' = pc + 1
        /\ UNCHANGED <<prog, registries, specs, ctr, funcs, refs, outcome>>
    BY DEF LowerExprStmt
  <1>3. frame \in GoodFrames(Len(funcs), DOMAIN abstractions)
    BY <1>1, FirstFrameGood DEF Linked, MainFn
  <1> HIDE DEF frame
  <1>4. stack' \in Seq(GoodFrames(Len(funcs), DOMAIN abstractions))
    BY <1>2, <1>3
  <1>5. QED BY <1>1, <1>2, <1>4 DEF Linked, registries

(* Marking a function as done changes nothing else about it. *)
LEMMA DoneKind ==
  ASSUME funcs \in Seq(Fns), NEW i, NEW t \in BOOLEAN
  PROVE  LET fs == [funcs EXCEPT ![i].done = t] IN
         /\ fs \in Seq(Fns) /\ Len(fs) = Len(funcs)
         /\ \A j \in DOMAIN funcs : /\ fs[j] = [funcs[j] EXCEPT !.done = IF j = i THEN t ELSE @]
                                    /\ fs[j] \in Fns
  <1> DEFINE fs == [funcs EXCEPT ![i].done = t]
             g == [funcs[i] EXCEPT !.done = t]
  <1>0. \A j \in DOMAIN funcs : funcs[j] \in Fns
    OBVIOUS
  <1>1. CASE i \in DOMAIN funcs
    <2>1. g \in Fns
      BY <1>0, <1>1 DEF Fns
    <2>2. fs = [funcs EXCEPT ![i] = g]
      OBVIOUS
    <2> HIDE DEF g, fs
    <2>3. fs \in Seq(Fns) /\ Len(fs) = Len(funcs)
      BY <2>1, <2>2, SeqExcept
    <2>4. \A j \in DOMAIN funcs : fs[j] = IF j = i THEN g ELSE funcs[j]
      BY <2>2
    <2>5. \A j \in DOMAIN funcs : funcs[j] = [funcs[j] EXCEPT !.done = @]
      BY <1>0 DEF Fns
    <2>6. \A j \in DOMAIN funcs : fs[j] = [funcs[j] EXCEPT !.done = IF j = i THEN t ELSE @]
      BY <2>4, <2>5 DEF g
    <2>7. QED BY <1>0, <2>1, <2>3, <2>4, <2>6 DEF fs
  <1>2. CASE i \notin DOMAIN funcs
    <2>1. fs = funcs
      BY <1>2
    <2>2. \A j \in DOMAIN funcs : funcs[j] = [funcs[j] EXCEPT !.done = IF j = i THEN t ELSE @]
      BY <1>0, <1>2 DEF Fns
    <2>3. QED BY <1>0, <2>1, <2>2
  <1>3. QED BY <1>1, <1>2

LEMMA EmitEntryLinked == ASSUME Linked, EmitEntry PROVE Linked'
  <1>1. /\ funcs' = [funcs EXCEPT ![MainFn].done = TRUE] /\ outcome' = "ok"
        /\ UNCHANGED <<prog, pc, stack, registries, specs, ctr, refs>>
    BY DEF EmitEntry
  <1>2. funcs' \in Seq(Fns) /\ Len(funcs') = Len(funcs)
    BY <1>1, DoneKind DEF Linked
  <1>3. QED BY <1>1, <1>2 DEF Linked, registries, Outcomes

(* Dropping the top frame. *)
LEMMA PopSeq ==
  ASSUME NEW S, NEW s \in Seq(S), s # <<>>
  PROVE  LET t == SubSeq(s, 1, Len(s) - 1) IN
         /\ t \in Seq(S) /\ Len(t) = Len(s) - 1
         /\ \A i \in 1 .. Len(s) - 1 : t[i] = s[i]
  <1>1. Len(s) \in Nat \ {0}
    BY LastElement
  <1>2. \A i \in 1 .. Len(s) - 1 : s[i] \in S
    BY <1>1, SeqElement
  <1> DEFINE t == SubSeq(s, 1, Len(s) - 1)
  <1>3. /\ t \in Seq(S)
        /\ Len(t) = IF 1 <= Len(s) - 1 THEN (Len(s) - 1) - 1 + 1 ELSE 0
        /\ \A i \in 1 .. (Len(s) - 1) - 1 + 1 : t[i] = s[1 + i - 1]
    BY <1>1, <1>2, SubSeqProperties
  <1> HIDE DEF t
  <1>4. Len(t) = Len(s) - 1 /\ \A i \in 1 .. Len(s) - 1 : t[i] = s[i]
    <2>1. \A i \in 1 .. Len(s) - 1 : 1 + i - 1 = i /\ i \in 1 .. (Len(s) - 1) - 1 + 1
      BY <1>1
    <2>2. \A i \in 1 .. Len(s) - 1 : t[i] = s[i]
      <3>1. TAKE i \in 1 .. Len(s) - 1
      <3>2. t[i] = s[1 + i - 1]
        BY <1>3, <2>1
      <3>3. QED BY <2>1, <3>2
    <2>3. Len(t) = Len(s) - 1
      <3>1. Len(t) = IF 1 <= Len(s) - 1 THEN (Len(s) - 1) - 1 + 1 ELSE 0
        BY <1>3
      <3> DEFINE m == Len(s)
      <3>2. m \in Nat /\ m # 0 /\ Len(t) = IF 1 <= m - 1 THEN (m - 1) - 1 + 1 ELSE 0
        BY <1>1, <3>1
      <3> HIDE DEF m
      <3>3. Len(t) = m - 1
        BY <3>2
      <3>4. QED BY <3>3 DEF m
    <2>4. QED BY <2>2, <2>3
  <1>5. QED BY <1>3, <1>4 DEF t

LEMMA FinishLinked == ASSUME Linked, Finish PROVE Linked'
  <1> DEFINE f == funcs[Top.fn]
  <1>1. stack # <<>> /\ stack' = SubSeq(stack, 1, Len(stack) - 1)
        /\ UNCHANGED <<prog, pc, abstractions, inlineable, specs, ctr, refs, outcome>>
    BY DEF Finish, Done
  <1>2. stack' \in Seq(GoodFrames(Len(funcs), DOMAIN abstractions))
    BY <1>1, PopSeq DEF Linked
  <1>3. Top.fn \in 1 .. Len(funcs) /\ funcs \in Seq(Fns) /\ f \in Fns
    <2>1. Top.fn \in 1 .. Len(funcs)
      BY <1>1, TopParts DEF GoodFrames
    <2>2. QED BY <2>1, SeqElement DEF Linked
  <1>4. funcs' \in Seq(Fns) /\ Len(funcs') = Len(funcs)
    <2>1. funcs' = funcs \/ funcs' = Appended
      BY DEF Finish
    <2>2. Appended \in Seq(Fns) /\ Len(Appended) = Len(funcs)
      BY <1>3, DoneKind DEF Appended
    <2>3. QED BY <1>3, <2>1, <2>2
  <1>5. symbols' \in FromNames(GoodSymbols(Len(funcs)))
    <2>1. CASE symbols' = symbols
      BY <2>1 DEF Linked
    <2>2. CASE symbols' # symbols
      <3>1. symbols' = Put(symbols, f.of, [b |-> f.b, fn |-> Top.fn])
        BY <2>2 DEF Finish
      <3>2. f.of \in Name /\ f.b \in Binder
        BY <1>3 DEF Fns
      <3>3. [b |-> f.b, fn |-> Top.fn] \in GoodSymbols(Len(funcs))
        BY <1>3, <3>2 DEF GoodSymbols, Symbol, Linked
      <3>4. QED BY <3>1, <3>2, <3>3, FromNamesPut DEF Linked
    <2>3. QED BY <2>1, <2>2
  <1>6. QED BY <1>1, <1>2, <1>4, <1>5 DEF Linked

-----------------------------------------------------------------------------

(* What being at an item gives. *)
LEMMA AtParts ==
  ASSUME Linked, NEW op, At(op)
  PROVE  /\ stack # <<>> /\ Top.todo # <<>> /\ Now.op = op
         /\ Now \in Item /\ Now.b \in Binder /\ Now.f \in Binder
         /\ Now.args \in Seq(Arg) /\ Now.ty \in Types \cup {Same} /\ Now.to \in Nat
         /\ NowName \in Name /\ NowType \in Types
         /\ Top.fn \in 1 .. Len(funcs) /\ Top.ty \in Types
         /\ Top.env \in FromNames(Entry)
         /\ \A n \in DOMAIN Top.env : /\ n \in Name /\ Top.env[n] \in Entry
                                      /\ Top.env[n].kind = "val" => Top.env[n].fn = Top.fn
                                      /\ Top.env[n].kind = "abs" => Top.env[n].sym \in DOMAIN abstractions
  <1>1. stack # <<>> /\ Top.todo # <<>> /\ Now.op = op
    BY DEF At
  <1>2. Now \in Item /\ NowName \in Name /\ NowType \in Types
    BY <1>1, NowParts
  <1>3. Top \in GoodFrames(Len(funcs), DOMAIN abstractions) /\ Top.env \in FromNames(Entry)
        /\ Top.ty \in Types
    BY <1>1, TopParts
  <1>4. \A n \in DOMAIN Top.env : n \in Name /\ Top.env[n] \in Entry
    BY <1>3, FromNamesDef
  <1>5. QED BY <1>1, <1>2, <1>3, <1>4, ItemParts DEF GoodFrames

(* Carrying on with items none of which is to be wrapped. *)
LEMMA CarryOn ==
  ASSUME Linked, stack # <<>>, Top.todo # <<>>, NEW items \in Seq(Item),
         \A k \in DOMAIN items : items[k].op # "wrap"
  PROVE  /\ Replace(items) \in GoodFrames(Len(funcs), DOMAIN abstractions)
         /\ Replace(items) \in GoodFrames(NextFn, DOMAIN abstractions)
  <1>1. Len(funcs) \in Nat /\ NextFn \in Nat /\ Len(funcs) <= NextFn
    BY DEF Linked, NextFn
  <1>2. QED BY <1>1, ReplaceGood

(* A sequence that is not empty has an index.                             *)
LEMMA NonEmptyDomain ==
  ASSUME NEW S, NEW s \in Seq(S), s # <<>>
  PROVE  DOMAIN s # {}
  <1>1. Len(s) \in Nat /\ Len(s) # 0 /\ DOMAIN s = 1 .. Len(s)
    BY EmptySeq, LenProperties
  <1>2. 1 \in 1 .. Len(s)
    BY <1>1
  <1>3. QED BY <1>1, <1>2

LEMMA NothingToDo == <<>> \in Seq(Item) /\ DOMAIN <<>> = {}
  OBVIOUS

(* A scope begins in the environment around it and ends by forgetting its  *)
(* own.                                                                    *)
LEMMA EnterScopeLinked == ASSUME Linked, EnterScope PROVE Linked'
  <1> DEFINE S == GoodFrames(Len(funcs), DOMAIN abstractions)
             cont == Replace(<<>>)
             frame == Frame(Top.fn, Top.ty, Top.env, prog.body[Now.b])
             resumed == [stack EXCEPT ![Len(stack)] = cont]
  <1>1. At("scope") /\ stack' = Append(resumed, frame)
        /\ UNCHANGED <<prog, pc, registries, specs, ctr, funcs, refs, outcome>>
    BY DEF EnterScope
  <1>2. /\ stack # <<>> /\ Top.todo # <<>> /\ Now.b \in Binder
        /\ Top.fn \in 1 .. Len(funcs) /\ Top.ty \in Types /\ Top.env \in FromNames(Entry)
        /\ \A n \in DOMAIN Top.env : /\ Top.env[n].kind = "val" => Top.env[n].fn = Top.fn
                                     /\ Top.env[n].kind = "abs" => Top.env[n].sym \in DOMAIN abstractions
    BY <1>1, AtParts
  <1>3. prog \in Programs /\ Len(funcs) \in Nat
    BY DEF Linked
  <1>4. frame \in S
    <2>1. prog.body[Now.b] \in Seq(Item)
          /\ \A k \in DOMAIN prog.body[Now.b] : prog.body[Now.b][k].op # "wrap"
      BY <1>2, <1>3, BodyItems, BodyHasNoWrap
    <2>2. QED BY <1>2, <1>3, <2>1, NewFrameGood
  <1>5. cont \in S
    BY <1>2, NothingToDo, CarryOn
  <1> HIDE DEF frame, cont
  <1>6. stack \in Seq(S)
    BY DEF Linked
  <1> HIDE DEF S
  <1>7. resumed \in Seq(S)
    BY <1>5, <1>6, SeqExcept
  <1> HIDE DEF resumed
  <1>8. stack' \in Seq(S)
    BY <1>1, <1>4, <1>7
  <1>9. QED BY <1>1, <1>8, StepSilent DEF S

LEMMA LeaveScopeLinked == ASSUME Linked, LeaveScope PROVE Linked'
  <1>1. stack # <<>> /\ stack' = SubSeq(stack, 1, Len(stack) - 1)
        /\ UNCHANGED <<prog, pc, registries, specs, ctr, funcs, refs, outcome>>
    BY DEF LeaveScope, Done
  <1>2. stack' \in Seq(GoodFrames(Len(funcs), DOMAIN abstractions))
    BY <1>1, PopSeq DEF Linked
  <1>3. QED BY <1>1, <1>2, StepSilent

LEMMA LetValueLinked == ASSUME Linked, LetValue PROVE Linked'
  <1> DEFINE use == [Now EXCEPT !.op = "use"]
             bind == [Now EXCEPT !.op = "bind"]
             items == <<use, bind>>
  <1>1. At("let") /\ Resume(Replace(items))
        /\ UNCHANGED <<prog, pc, registries, specs, ctr, funcs, refs, outcome>>
    BY DEF LetValue
  <1>2. use \in Item /\ bind \in Item /\ use.op = "use" /\ bind.op = "bind"
    <2>1. Now \in Item
      BY <1>1, AtParts
    <2>2. QED BY <2>1 DEF Item, Ops
  <1> HIDE DEF use, bind
  <1>3. items \in Seq(Item) /\ \A k \in DOMAIN items : items[k].op # "wrap"
    BY <1>2
  <1> HIDE DEF items
  <1>4. Replace(items) \in GoodFrames(Len(funcs), DOMAIN abstractions)
    BY <1>1, <1>3, AtParts, CarryOn
  <1>5. stack' \in Seq(GoodFrames(Len(funcs), DOMAIN abstractions))
    BY <1>1, <1>4, ResumeSeq DEF Linked
  <1>6. QED BY <1>1, <1>5, StepSilent

(* Binding an entry that fits the frame on top. *)
LEMMA BindGood ==
  ASSUME Linked, stack # <<>>, Top.todo # <<>>, NEW n \in Name, NEW e \in Entry,
         NEW syms, DOMAIN abstractions \subseteq syms,
         e.kind = "val" => e.fn = Top.fn, e.kind = "abs" => e.sym \in syms
  PROVE  [Replace(<<>>) EXCEPT !.env = Put(@, n, e)] \in GoodFrames(Len(funcs), syms)
  <1> DEFINE fr == Replace(<<>>)
             env == Put(Top.env, n, e)
             new == [fr EXCEPT !.env = env]
  <1>1. fr \in GoodFrames(Len(funcs), DOMAIN abstractions) /\ fr \in Frames
        /\ fr.env = Top.env /\ fr.fn = Top.fn
    BY NothingToDo, CarryOn, ReplaceKind
  <1>2. env \in FromNames(Entry)
    BY TopParts, FromNamesPut
  <1>3. \A m \in DOMAIN env : /\ env[m].kind = "val" => env[m].fn = fr.fn
                              /\ env[m].kind = "abs" => env[m].sym \in syms
    BY <1>1 DEF Put, GoodFrames
  <1>4. [fr EXCEPT !.env = Put(@, n, e)] = new
    BY <1>1
  <1>5. fr \in GoodFrames(Len(funcs), syms)
    <2>1. Len(funcs) \in Nat
      BY DEF Linked
    <2>2. QED BY <1>1, <2>1, GoodFramesGrow
  <1> HIDE DEF env, fr
  <1>6. new \in GoodFrames(Len(funcs), syms)
    BY <1>2, <1>3, <1>5, NewEnvGood
  <1>7. QED BY <1>4, <1>6 DEF new, env, fr

LEMMA BindValueLinked == ASSUME Linked, BindValue PROVE Linked'
  <1> DEFINE e == ValueEntry(Now.b, Top.fn, NowType)
             frame == [Replace(<<>>) EXCEPT !.env = Put(@, prog.name[Now.b], e)]
  <1>1. At("bind") /\ Resume(frame)
        /\ UNCHANGED <<prog, pc, registries, specs, ctr, funcs, refs, outcome>>
    BY DEF BindValue
  <1>2. prog.name[Now.b] \in Name /\ e \in Entry /\ e.kind = "val" /\ e.fn = Top.fn
    <2>1. Now.b \in Binder /\ NowType \in Types /\ Top.fn \in Nat /\ prog.name[Now.b] \in Name
      BY <1>1, AtParts, TopParts, ProgramParts DEF Linked
    <2>2. QED BY <2>1 DEF ValueEntry, Entry
  <1> HIDE DEF e
  <1>3. frame \in GoodFrames(Len(funcs), DOMAIN abstractions)
    BY <1>1, <1>2, AtParts, BindGood
  <1> HIDE DEF frame
  <1>4. stack' \in Seq(GoodFrames(Len(funcs), DOMAIN abstractions))
    BY <1>1, <1>3, ResumeSeq DEF Linked
  <1>5. QED BY <1>1, <1>4, StepSilent

LEMMA LetLambdaLinked == ASSUME Linked, LetLambda PROVE Linked'
  <1> DEFINE e == LambdaEntry(Now.b, LetSymbol, Top.fn, Top.ty)
             frame == [Replace(<<>>) EXCEPT !.env = Put(@, prog.name[Now.b], e)]
  <1>1. At("letfn") /\ Resume(frame) /\ ctr.let < Len(LetName)
        /\ abstractions' = Put(abstractions, LetSymbol, Now.b)
        /\ ctr' = [ctr EXCEPT !.let = @ + 1]
        /\ UNCHANGED <<prog, pc, inlineable, symbols, specs, funcs, refs, outcome>>
    BY DEF LetLambda
  <1>2. Now.b \in Binder /\ Top.ty \in Types /\ Top.fn \in Nat /\ prog.name[Now.b] \in Name
    BY <1>1, AtParts, TopParts, ProgramParts DEF Linked
  <1>3. LetSymbol \in Name /\ ctr' \in [spec : Nat, let : Nat, closure : Nat]
    <2>1. ctr \in [spec : Nat, let : Nat, closure : Nat] /\ ctr.let + 1 \in 1 .. Len(LetName)
      BY <1>1, ConstantAssumption, SMTT(30) DEF Linked
    <2>2. LetName \in Seq(Name)
      BY ConstantAssumption
    <2>3. LetSymbol \in Name
      BY <2>1, <2>2 DEF LetSymbol
    <2>4. ctr' \in [spec : Nat, let : Nat, closure : Nat]
      BY <1>1, <2>1
    <2>5. QED BY <2>3, <2>4
  <1>4. e \in Entry /\ e.kind = "abs" /\ e.sym = LetSymbol
    BY <1>2, <1>3 DEF LambdaEntry, Entry
  <1>5. /\ abstractions' \in FromNames(Binder)
        /\ DOMAIN abstractions \subseteq DOMAIN abstractions' /\ LetSymbol \in DOMAIN abstractions'
    <2>1. DOMAIN abstractions' = DOMAIN abstractions \cup {LetSymbol}
      BY <1>1 DEF Put
    <2>2. QED BY <1>1, <1>2, <1>3, <2>1, FromNamesPut DEF Linked
  <1> HIDE DEF e
  <1>6. frame \in GoodFrames(Len(funcs), DOMAIN abstractions')
    BY <1>1, <1>2, <1>4, <1>5, AtParts, BindGood
  <1> HIDE DEF frame
  <1>7. stack \in Seq(GoodFrames(Len(funcs), DOMAIN abstractions'))
    <2>1. Len(funcs) \in Nat
      BY DEF Linked
    <2>2. GoodFrames(Len(funcs), DOMAIN abstractions) \subseteq GoodFrames(Len(funcs), DOMAIN abstractions')
      BY <1>5, <2>1, GoodFramesGrow
    <2>3. QED BY <2>2, SeqMonotone DEF Linked
  <1>8. stack' \in Seq(GoodFrames(Len(funcs), DOMAIN abstractions'))
    BY <1>1, <1>6, <1>7, ResumeSeq
  <1>9. QED BY <1>1, <1>3, <1>5, <1>8 DEF Linked

-----------------------------------------------------------------------------

LEMMA ReadLocalLinked == ASSUME Linked, ReadLocal PROVE Linked'
  <1> DEFINE r == Ref(Top.fn, Now.f, Top.env[NowName].b, BuiltinFn, NoCaptures)
  <1>1. At("use") /\ NowName \in DOMAIN Top.env /\ refs' = refs \cup {r}
        /\ Resume(Replace(<<>>))
        /\ UNCHANGED <<prog, pc, registries, specs, ctr, funcs, outcome>>
    BY DEF ReadLocal, IsValue
  <1>2. r \in GoodRefs(Len(funcs))
    <2>1. Top.env[NowName].b \in Binder /\ Now.f \in Binder /\ Top.fn \in 1 .. Len(funcs)
      BY <1>1, AtParts DEF Entry
    <2>2. Len(funcs) \in Nat /\ BuiltinFn \in 0 .. Len(funcs)
      BY DEF Linked, BuiltinFn
    <2>3. QED BY <2>1, <2>2, RefKind, NoCapturesKind
  <1> HIDE DEF r
  <1>3. stack' \in Seq(GoodFrames(Len(funcs), DOMAIN abstractions))
    <2>1. Replace(<<>>) \in GoodFrames(Len(funcs), DOMAIN abstractions)
      BY <1>1, AtParts, NothingToDo, CarryOn
    <2>2. QED BY <1>1, <2>1, ResumeSeq DEF Linked
  <1>4. {r} \subseteq GoodRefs(Len(funcs))
    BY <1>2
  <1>5. QED BY <1>1, <1>3, <1>4, StepQuiet

(* The application kept for an inlined name is an item like any other. *)
LEMMA InlineLinked == ASSUME Linked, Inline PROVE Linked'
  <1> DEFINE it == prog.body[inlineable[NowName]][1]
             rhs == Declared(it)
             args == [i \in DOMAIN rhs.args |-> Declared(rhs.args[i])]
             item == [rhs EXCEPT !.args = args \o Now.args]
  <1>1. At("use") /\ NowName \in DOMAIN inlineable /\ Resume(Replace(<<item>>))
        /\ UNCHANGED <<prog, pc, registries, specs, ctr, funcs, refs, outcome>>
    BY DEF Inline
  <1>2. it \in Item /\ it.op = "use"
    <2>1. inlineable[NowName] \in Binder /\ prog.body[inlineable[NowName]] # <<>>
          /\ it.op = "use"
      BY <1>1, FromNamesDef, SMTT(30) DEF Linked
    <2>2. prog.body[inlineable[NowName]] \in Seq(Item)
      BY <2>1, BodyItems DEF Linked
    <2>3. QED BY <2>1, <2>2
  <1> HIDE DEF it
  <1>3. rhs \in Item /\ rhs.op = "use"
    BY <1>2, ConstantAssumption DEF Declared, Item
  <1> HIDE DEF rhs
  <1>4. rhs.args \in Seq(Arg)
    BY <1>3 DEF Item
  <1>5. args \in Seq(Arg)
    <2>1. \A i \in DOMAIN rhs.args : rhs.args[i] \in Arg
      BY <1>4
    <2>2. \A a \in Arg : Declared(a) \in Arg
      BY ConstantAssumption DEF Declared, Arg
    <2>3. QED BY <1>4, <2>1, <2>2
  <1>6. args \o Now.args \in Seq(Arg)
    BY <1>1, <1>5, AtParts
  <1> DEFINE all == args \o Now.args
  <1> HIDE DEF all
  <1>7. item = [rhs EXCEPT !.args = all] /\ all \in Seq(Arg)
    BY <1>6 DEF all
  <1> HIDE DEF item
  <1>8. item \in Item /\ item.op = "use"
    BY <1>3, <1>7 DEF Item
  <1>9. stack' \in Seq(GoodFrames(Len(funcs), DOMAIN abstractions))
    <2>1. <<item>> \in Seq(Item) /\ \A k \in DOMAIN <<item>> : <<item>>[k].op # "wrap"
      BY <1>8
    <2>2. Replace(<<item>>) \in GoodFrames(Len(funcs), DOMAIN abstractions)
      BY <1>1, <2>1, AtParts, CarryOn
    <2>3. QED BY <1>1, <2>2, ResumeSeq DEF Linked
  <1>10. QED BY <1>1, <1>9, StepSilent

LEMMA ReadSymbolLinked == ASSUME Linked, ReadSymbol PROVE Linked'
  <1>1. CASE NowName \notin DOMAIN symbols
    BY <1>1, FailLinked DEF ReadSymbol, Outcomes
  <1>2. CASE NowName \in DOMAIN symbols
    <2> DEFINE r == Ref(Top.fn, Now.f, symbols[NowName].b, symbols[NowName].fn, NoCaptures)
    <2>1. At("use") /\ refs' = refs \cup {r} /\ Resume(Replace(<<>>))
          /\ UNCHANGED <<prog, pc, registries, specs, ctr, funcs, outcome>>
      BY <1>2 DEF ReadSymbol
    <2>2. r \in GoodRefs(Len(funcs))
      <3>1. symbols[NowName].b \in Binder /\ symbols[NowName].fn \in 0 .. Len(funcs)
        BY <1>2, FromNamesDef DEF Linked, GoodSymbols, Symbol
      <3>2. Now.f \in Binder /\ Top.fn \in 1 .. Len(funcs)
        BY <2>1, AtParts
      <3>3. Len(funcs) \in Nat
        BY DEF Linked
      <3>4. QED BY <3>1, <3>2, <3>3, RefKind, NoCapturesKind
    <2> HIDE DEF r
    <2>3. stack' \in Seq(GoodFrames(Len(funcs), DOMAIN abstractions))
      <3>1. Replace(<<>>) \in GoodFrames(Len(funcs), DOMAIN abstractions)
        BY <2>1, AtParts, NothingToDo, CarryOn
      <3>2. QED BY <2>1, <3>1, ResumeSeq DEF Linked
    <2>4. {r} \subseteq GoodRefs(Len(funcs))
      BY <2>2
    <2>5. QED BY <2>1, <2>3, <2>4, StepQuiet
  <1>3. QED BY <1>1, <1>2

(* A step that specializes: the frame continues with cont and refers to    *)
(* nothing but the specialization.                                         *)
LEMMA StepSpecializes ==
  ASSUME Linked, stack # <<>>, UNCHANGED <<prog, pc, registries, outcome>>,
         NEW sym \in DOMAIN abstractions, NEW self \in Name, NEW ty \in Types,
         NEW caps \in FromNames(Captured), NEW cont,
         LET key == Key(sym, ty, caps) IN
           cont \in GoodFrames(IF key \in DOMAIN specs THEN Len(funcs) ELSE NextFn,
                               DOMAIN abstractions),
         Specialize(sym, self, ty, caps, cont),
         NEW use \in Binder,
         refs' \in {refs, refs \cup {SpecRef(use, sym, Key(sym, ty, caps), caps)}}
  PROVE  Linked'
  <1> DEFINE key == Key(sym, ty, caps)
             r == SpecRef(use, sym, key, caps)
  <1>1. /\ stack' \in Seq(GoodFrames(Len(funcs'), DOMAIN abstractions))
        /\ funcs' \in Seq(Fns) /\ Len(funcs') >= Len(funcs)
        /\ \A k \in DOMAIN specs' : specs'[k] \in 1 .. Len(funcs')
        /\ ctr' \in [spec : Nat, let : Nat, closure : Nat]
        /\ TargetOf(key) \in 1 .. Len(funcs')
        /\ CompiledFrom(sym, key) \in Binder
    BY SpecializeLinked
  <1>2. outcome' \in Outcomes /\ Len(funcs) \in Nat /\ Len(funcs') \in Nat
    BY <1>1, SMTT(30) DEF Linked
  <1>3. Top.fn \in 1 .. Len(funcs')
    <2>1. Top.fn \in 1 .. Len(funcs)
      BY TopParts DEF GoodFrames
    <2>2. QED BY <1>1, <1>2, <2>1
  <1>4. r \in GoodRefs(Len(funcs'))
    <2> HIDE DEF key
    <2>1. TargetOf(key) \in 0 .. Len(funcs')
      BY <1>1, <1>2
    <2>2. QED BY <1>1, <1>2, <1>3, <2>1, RefKind DEF SpecRef
  <1> HIDE DEF r
  <1>5. CASE refs' = refs
    <2> DEFINE R == {}
    <2>1. refs' = refs \cup R /\ R \subseteq GoodRefs(Len(funcs'))
      BY <1>5
    <2> HIDE DEF R
    <2>2. QED BY <1>1, <1>2, <2>1, StepWithin
  <1>6. CASE refs' = refs \cup {r}
    <2> DEFINE R == {r}
    <2>1. refs' = refs \cup R /\ R \subseteq GoodRefs(Len(funcs'))
      BY <1>4, <1>6
    <2> HIDE DEF R
    <2>2. QED BY <1>1, <1>2, <2>1, StepWithin
  <1>7. QED BY <1>5, <1>6 DEF r

(* Carrying on whether or not a function is begun. *)
LEMMA CarryOnEither ==
  ASSUME Linked, stack # <<>>, Top.todo # <<>>, NEW items \in Seq(Item),
         \A k \in DOMAIN items : items[k].op # "wrap", NEW key
  PROVE  Replace(items) \in GoodFrames(IF key \in DOMAIN specs THEN Len(funcs) ELSE NextFn,
                                       DOMAIN abstractions)
  BY CarryOn

(* Who is called is registered, where a lambda is called at all. *)
LEMMA CalleeRegistered ==
  ASSUME Linked, At("use"),
         \/ ReferencesLambda(Top.env, NowName)
         \/ CalleeOf(Top.env, NowName) \in DOMAIN abstractions
  PROVE  LET sym == CalleeOf(Top.env, NowName) IN
         sym \in DOMAIN abstractions /\ abstractions[sym] \in Binder
  <1> DEFINE sym == CalleeOf(Top.env, NowName)
  <1>1. sym \in DOMAIN abstractions
    BY AtParts DEF ReferencesLambda, CalleeOf, IsLambda
  <1>2. QED BY <1>1, FromNamesDef DEF Linked

LEMMA ReferenceLambdaLinked == ASSUME Linked, ReferenceLambda PROVE Linked'
  <1> DEFINE sym == CalleeOf(Top.env, NowName)
             caps == LambdaCaptures(abstractions[sym], NowName, Top.env)
             key == Key(sym, NowType, NoCaptures)
  <1>1. At("use") /\ ReferencesLambda(Top.env, NowName)
    BY DEF ReferenceLambda
  <1>2. CASE caps # NoCaptures
    BY <1>2, FailLinked DEF ReferenceLambda, Outcomes
  <1>3. CASE caps = NoCaptures
    <2>1. /\ Specialize(sym, NowName, NowType, NoCaptures, Replace(<<>>))
          /\ refs' = refs \cup {SpecRef(Now.f, sym, key, NoCaptures)}
          /\ UNCHANGED <<prog, pc, registries, outcome>>
      BY <1>3 DEF ReferenceLambda
    <2>2. sym \in DOMAIN abstractions
      BY <1>1, CalleeRegistered
    <2>3. stack # <<>> /\ Now.f \in Binder /\ NowName \in Name /\ NowType \in Types
      BY <1>1, AtParts
    <2>4. Replace(<<>>) \in GoodFrames(IF key \in DOMAIN specs THEN Len(funcs) ELSE NextFn,
                                       DOMAIN abstractions)
      BY <1>1, AtParts, NothingToDo, CarryOnEither
    <2> HIDE DEF sym, caps
    <2>5. QED BY <2>1, <2>2, <2>3, <2>4, NoCapturesKind, StepSpecializes
  <1>4. QED BY <1>2, <1>3

LEMMA CallLinked == ASSUME Linked, Call PROVE Linked'
  <1> DEFINE sym == CalleeOf(Top.env, NowName)
             caps == LambdaCaptures(abstractions[sym], NowName, Top.env)
             key == Key(sym, NowType, caps)
             cont == Replace(Uses(Now.args))
  <1>1. /\ At("use") /\ CalleeOf(Top.env, NowName) \in DOMAIN abstractions
        /\ Specialize(sym, NowName, NowType, caps, cont)
        /\ refs' = refs \cup {SpecRef(Now.f, sym, key, caps)}
        /\ UNCHANGED <<prog, pc, registries, outcome>>
    BY DEF Call, AtKnown
  <1>2. sym \in DOMAIN abstractions /\ abstractions[sym] \in Binder
    BY <1>1, CalleeRegistered
  <1>3. stack # <<>> /\ Now.f \in Binder /\ NowName \in Name /\ NowType \in Types
    BY <1>1, AtParts
  <1>4. caps \in FromNames(Captured)
    BY <1>1, <1>2, AtParts, LambdaCapturesKind
  <1>5. cont \in GoodFrames(IF key \in DOMAIN specs THEN Len(funcs) ELSE NextFn,
                            DOMAIN abstractions)
    <2>1. Uses(Now.args) \in Seq(Item)
          /\ \A k \in DOMAIN Uses(Now.args) : Uses(Now.args)[k].op # "wrap"
      BY <1>1, AtParts, UsesKind, UsesHaveNoWrap
    <2> HIDE DEF key
    <2>2. QED BY <1>1, <2>1, AtParts, CarryOnEither
  <1> HIDE DEF sym, caps, cont
  <1>6. QED BY <1>1, <1>2, <1>3, <1>4, <1>5, StepSpecializes

LEMMA PartialApplyLinked == ASSUME Linked, PartialApply PROVE Linked'
  <1> DEFINE sym == CalleeOf(Top.env, NowName)
             caps == LambdaCaptures(abstractions[sym], NowName, Top.env)
             key == Key(sym, NowType, NoCaptures)
             n == IF key \in DOMAIN specs THEN Len(funcs) ELSE NextFn
             wrap == [Now EXCEPT !.op = "wrap", !.b = abstractions[sym], !.to = TargetOf(key)]
             cont == Replace(<<wrap>>)
  <1>1. At("use") /\ sym \in DOMAIN abstractions
    BY DEF PartialApply, AtKnown
  <1>2. CASE caps # NoCaptures
    BY <1>2, FailLinked DEF PartialApply, Outcomes
  <1>3. CASE caps = NoCaptures
    <2>1. /\ Specialize(sym, NowName, NowType, NoCaptures, cont)
          /\ UNCHANGED <<prog, pc, registries, refs, outcome>>
      BY <1>3 DEF PartialApply
    <2>2. abstractions[sym] \in Binder
      BY <1>1, CalleeRegistered
    <2>3. /\ stack # <<>> /\ Top.todo # <<>> /\ Now \in Item
          /\ Now.f \in Binder /\ NowName \in Name /\ NowType \in Types
      BY <1>1, AtParts
    <2> HIDE DEF key
    <2>4. n \in Nat /\ Len(funcs) <= n /\ TargetOf(key) \in 1 .. n
      BY DEF Linked, NextFn, TargetOf
    <2> HIDE DEF n
    <2>5. wrap \in Item /\ wrap.to = TargetOf(key)
      <3> DEFINE b == abstractions[sym]
                 to == TargetOf(key)
      <3>1. b \in Binder /\ to \in Nat /\ Now \in Item
        BY <2>2, <2>3, <2>4
      <3>2. wrap = [Now EXCEPT !.op = "wrap", !.b = b, !.to = to]
        OBVIOUS
      <3> HIDE DEF b, to, wrap
      <3>3. wrap \in Item /\ wrap.to = to
        BY <3>1, <3>2 DEF Item, Ops
      <3>4. QED BY <3>3 DEF to
    <2> HIDE DEF wrap
    <2>6. cont \in GoodFrames(n, DOMAIN abstractions)
      <3>1. <<wrap>> \in Seq(Item)
        BY <2>5
      <3>2. \A k \in DOMAIN <<wrap>> : <<wrap>>[k].to \in 1 .. n
        BY <2>4, <2>5
      <3>3. QED BY <2>3, <2>4, <3>1, <3>2, ReplaceGood
    <2> HIDE DEF cont, sym, caps
    <2>7. cont \in GoodFrames(IF Key(sym, NowType, NoCaptures) \in DOMAIN specs
                              THEN Len(funcs) ELSE NextFn, DOMAIN abstractions)
      BY <2>6 DEF n, key
    <2>8. QED BY <1>1, <2>1, <2>3, <2>7, NoCapturesKind, StepSpecializes
  <1>4. QED BY <1>2, <1>3

(* A tail of a sequence. *)
LEMMA SubSeqKind ==
  ASSUME NEW S, NEW s \in Seq(S), NEW k \in Nat, k <= Len(s)
  PROVE  SubSeq(s, k + 1, Len(s)) \in Seq(S)
  OBVIOUS

LEMMA WrapLinked == ASSUME Linked, Wrap PROVE Linked'
  <1> DEFINE params == prog.params[Now.b]
             k == Len(Now.args)
             env == ParamEnv(SubSeq(params, k + 1, Len(params)), NextFn, NowType)
             wrapped == funcs[Now.to]
             f == Fn("partial", Now.b, wrapped.of, ctr.spec, NowType, NoCaptures)
             frame == Frame(NextFn, NowType, env, Uses(Now.args))
             cont == Replace(<<>>)
             r1 == Ref(Top.fn, Now.f, wrapped.b, NextFn, NoCaptures)
             r2 == Ref(NextFn, Now.f, wrapped.b, Now.to, NoCaptures)
             R == {r1, r2}
  <1>1. At("wrap")
    BY DEF Wrap
  <1>2. CASE k > Len(params)
    BY <1>2, FailLinked DEF Wrap, Outcomes
  <1>3. CASE ~(k > Len(params))
    <2>1. Enter(f, frame, cont) /\ ctr' = SpecCounted
          /\ refs' = refs \cup R
          /\ UNCHANGED <<prog, pc, registries, specs, outcome>>
      BY <1>3 DEF Wrap
    <2>2. /\ stack # <<>> /\ Top.todo # <<>> /\ Now.op = "wrap"
          /\ Now.b \in Binder /\ Now.f \in Binder /\ Now.args \in Seq(Arg)
          /\ NowType \in Types /\ Top.fn \in 1 .. Len(funcs)
      BY <1>1, AtParts
    <2>3. /\ prog \in Programs /\ params \in Seq(Binder) /\ funcs \in Seq(Fns)
          /\ Len(funcs) \in Nat /\ NextFn = Len(funcs) + 1
          /\ ctr \in [spec : Nat, let : Nat, closure : Nat]
      BY <2>2, ProgramParts, SMTT(30) DEF Linked, NextFn
    <2>4. wrapped \in Fns /\ Now.to \in 1 .. Len(funcs)
      <3>1. Top \in GoodFrames(Len(funcs), DOMAIN abstractions) /\ Top.todo \in Seq(Item)
        BY <2>2, TopParts
      <3>2. 1 \in DOMAIN Top.todo /\ Now = Top.todo[1]
        BY <2>2, <3>1 DEF Now
      <3>3. Now.to \in 1 .. Len(funcs)
        BY <2>2, <3>1, <3>2 DEF GoodFrames
      <3>4. QED BY <2>3, <3>3, SeqElement
    <2>5. f \in Fns
      <3> HIDE DEF wrapped
      <3>1. wrapped.of \in Name
        BY <2>4 DEF Fns
      <3>2. QED BY <2>2, <2>3, <3>1, NoCapturesKind DEF Fn, Fns, FnKinds
    <2>6. frame \in GoodFrames(NextFn, DOMAIN abstractions)
      <3> DEFINE rest == SubSeq(params, k + 1, Len(params))
      <3>1. rest \in Seq(Binder)
        <4>1. k \in Nat /\ k <= Len(params)
          BY <1>3, <2>2, <2>3, SMTT(30)
        <4> HIDE DEF k, params
        <4>2. QED BY <2>3, <4>1, SubSeqKind
      <3>2. env \in FromNames(Entry)
            /\ \A n \in DOMAIN env : env[n].kind = "val" /\ env[n].fn = NextFn
        <4>1. NextFn \in Nat
          BY <2>3
        <4>2. env = ParamEnv(rest, NextFn, NowType)
          OBVIOUS
        <4> HIDE DEF env, rest
        <4>3. QED BY <2>2, <2>3, <3>1, <4>1, <4>2, ParamEnvKind
      <3>3. Uses(Now.args) \in Seq(Item)
            /\ \A i \in DOMAIN Uses(Now.args) : Uses(Now.args)[i].op # "wrap"
        BY <2>2, UsesKind, UsesHaveNoWrap
      <3> HIDE DEF env
      <3>4. NextFn \in Nat /\ NextFn \in 1 .. NextFn
        BY <2>3
      <3>5. QED BY <2>2, <3>2, <3>3, <3>4, NewFrameGood
    <2>7. cont \in GoodFrames(NextFn, DOMAIN abstractions)
      BY <2>2, NothingToDo, CarryOn
    <2> HIDE DEF f, frame, cont, R
    <2>8. /\ stack' \in Seq(GoodFrames(Len(funcs'), DOMAIN abstractions))
          /\ funcs' \in Seq(Fns) /\ Len(funcs') = NextFn
      BY <2>1, <2>5, <2>6, <2>7, EnterLinked
    <2>9. R \subseteq GoodRefs(Len(funcs'))
      <3>1. wrapped.b \in Binder
        BY <2>4 DEF Fns
      <3>2. Len(funcs') \in Nat /\ NextFn \in 1 .. Len(funcs') /\ NextFn \in 0 .. Len(funcs')
            /\ Top.fn \in 1 .. Len(funcs') /\ Now.to \in 0 .. Len(funcs')
        BY <2>2, <2>3, <2>4, <2>8
      <3> HIDE DEF wrapped
      <3>3. r1 \in GoodRefs(Len(funcs')) /\ r2 \in GoodRefs(Len(funcs'))
        BY <2>2, <3>1, <3>2, NoCapturesKind, RefKind
      <3>4. QED BY <3>3 DEF R
    <2>10. /\ outcome' \in Outcomes /\ Len(funcs') >= Len(funcs)
           /\ ctr' \in [spec : Nat, let : Nat, closure : Nat]
           /\ \A key \in DOMAIN specs' : specs'[key] \in 1 .. Len(funcs')
      <3>1. outcome' \in Outcomes /\ Len(funcs') >= Len(funcs) /\ Len(funcs') \in Nat
        BY <2>1, <2>3, <2>8 DEF Linked
      <3>2. ctr' \in [spec : Nat, let : Nat, closure : Nat]
        BY <2>1, <2>3 DEF SpecCounted
      <3>3. specs' = specs /\ \A key \in DOMAIN specs : specs[key] \in 1 .. Len(funcs)
        BY <2>1 DEF Linked
      <3>4. QED BY <2>3, <3>1, <3>2, <3>3
    <2>11. QED BY <2>1, <2>8, <2>9, <2>10, StepWithin
  <1>4. QED BY <1>2, <1>3

(* Appending to, and taking the last of, a sequence of items. *)
LEMMA ValueAndArgs ==
  ASSUME NEW S, NEW v \in S, NEW s \in Seq(S), s # <<>>
  PROVE  <<v>> \o s \in Seq(S) /\ <<v, s[Len(s)]>> \in Seq(S)
  OBVIOUS

LEMMA ApplyValueLinked == ASSUME Linked, ApplyValue PROVE Linked'
  <1> DEFINE value == Use(Now.f, Now.ty)
             args == Uses(Now.args)
             all == <<value>> \o args
             last == <<value, args[Len(args)]>>
  <1>1. CASE Fail("error")
    BY <1>1, FailLinked DEF Outcomes
  <1>2. CASE ~Fail("error")
    <2>1. /\ At("use") /\ Now.args # <<>>
          /\ Resume(Replace(all)) \/ Resume(Replace(last))
          /\ UNCHANGED <<prog, pc, registries, specs, ctr, funcs, refs, outcome>>
      BY <1>2 DEF ApplyValue
    <2>2. /\ value \in Item /\ value.op = "use" /\ args \in Seq(Item) /\ args # <<>>
          /\ \A k \in DOMAIN args : args[k].op # "wrap"
      <3>1. Now.f \in Binder /\ Now.ty \in Types \cup {Same} /\ Now.args \in Seq(Arg)
        BY <2>1, AtParts
      <3>2. args \in Seq(Item) /\ DOMAIN args = DOMAIN Now.args
        BY <3>1, UsesKind DEF Uses
      <3>3. args # <<>>
        <4>1. DOMAIN Now.args # {} /\ DOMAIN <<>> = {}
          BY <2>1, <3>1, NonEmptyDomain, NothingToDo
        <4> HIDE DEF args
        <4>2. QED BY <3>2, <4>1
      <3>4. value \in Item /\ value.op = "use"
        BY <3>1, UseKind DEF Use
      <3>5. QED BY <3>2, <3>3, <3>4, UsesHaveNoWrap
    <2> HIDE DEF value, args
    <2>3. all \in Seq(Item) /\ last \in Seq(Item)
      BY <2>2, ValueAndArgs
    <2>4. \A k \in DOMAIN all : all[k].op # "wrap"
      BY <2>2
    <2>5. \A k \in DOMAIN last : last[k].op # "wrap"
      BY <2>2
    <2> HIDE DEF all, last
    <2>6. /\ Replace(all) \in GoodFrames(Len(funcs), DOMAIN abstractions)
          /\ Replace(last) \in GoodFrames(Len(funcs), DOMAIN abstractions)
      BY <2>1, <2>3, <2>4, <2>5, AtParts, CarryOn
    <2>7. stack' \in Seq(GoodFrames(Len(funcs), DOMAIN abstractions))
      BY <2>1, <2>6, ResumeSeq DEF Linked
    <2>8. QED BY <2>1, <2>7, StepSilent
  <1>3. QED BY <1>1, <1>2

LEMMA CaptureLambdaLinked == ASSUME Linked, CaptureLambda PROVE Linked'
  <1>1. At("closure")
    BY DEF CaptureLambda
  <1>2. PICK n \in ClosureLambdas, ty \in Types :
          LET e    == Top.env[n]
              key  == Key(e.sym, ty, NoCaptures)
              done == Append(Now.args, [b |-> e.b, ty |-> ty])
          IN /\ Specialize(e.sym, n, ty, NoCaptures,
                           Replace(<<[Now EXCEPT !.args = done]>>))
             /\ refs' = refs \cup {SpecRef(e.b, e.sym, key, NoCaptures)}
             /\ UNCHANGED <<prog, pc, registries, outcome>>
    BY DEF CaptureLambda
  <1> DEFINE e == Top.env[n]
             key == Key(e.sym, ty, NoCaptures)
             done == Append(Now.args, [b |-> e.b, ty |-> ty])
             item == [Now EXCEPT !.args = done]
             cont == Replace(<<item>>)
  <1>3. n \in DOMAIN Top.env /\ e.kind = "abs"
    BY DEF ClosureLambdas, ClosureFree
  <1>4. /\ stack # <<>> /\ Top.todo # <<>> /\ Now \in Item /\ Now.op = "closure"
        /\ Now.args \in Seq(Arg) /\ n \in Name
        /\ e.b \in Binder /\ e.sym \in DOMAIN abstractions
    BY <1>1, <1>3, AtParts DEF Entry
  <1>5. done \in Seq(Arg)
    BY <1>4, ConstantAssumption DEF Arg
  <1>6. item \in Item /\ item.op # "wrap"
    <2> HIDE DEF done
    <2>1. QED BY <1>4, <1>5 DEF Item
  <1>7. Specialize(e.sym, n, ty, NoCaptures, cont)
        /\ refs' = refs \cup {SpecRef(e.b, e.sym, key, NoCaptures)}
        /\ UNCHANGED <<prog, pc, registries, outcome>>
    BY <1>2
  <1> HIDE DEF item
  <1>8. cont \in GoodFrames(IF key \in DOMAIN specs THEN Len(funcs) ELSE NextFn,
                            DOMAIN abstractions)
    <2>1. <<item>> \in Seq(Item) /\ \A k \in DOMAIN <<item>> : <<item>>[k].op # "wrap"
      BY <1>6
    <2> HIDE DEF key
    <2>2. QED BY <1>4, <2>1, CarryOnEither
  <1> HIDE DEF e, cont
  <1>9. QED BY <1>4, <1>7, <1>8, NoCapturesKind, ConstantAssumption, StepSpecializes

(* What is captured has a type.                                            *)
LEMMA ClosureTypeKind ==
  ASSUME Linked, At("closure"), ClosureLambdas = {}, NEW n \in ClosureFree
  PROVE  ClosureType(n) \in Types
  <1> DEFINE e == Top.env[n]
             of == CHOOSE i \in DOMAIN Now.args : Now.args[i].b = e.b
  <1>1. n \in DOMAIN Top.env
    BY DEF ClosureFree
  <1>2. /\ e \in Entry /\ Now \in Item /\ Now.args \in Seq(Arg) /\ Top.ty \in Types
        /\ e.kind \in {"val", "abs"} /\ e.ty \in Types
    BY <1>1, AtParts DEF Entry
  <1>3. CASE e.kind = "val"
    BY <1>2, <1>3 DEF ClosureType
  <1>4. CASE e.kind = "abs"
    <2>1. e.b \in {Now.args[i].b : i \in DOMAIN Now.args}
      BY <1>4 DEF ClosureLambdas
    <2>2. of \in DOMAIN Now.args
      BY <2>1
    <2> HIDE DEF of
    <2>3. Now.args[of] \in Arg
      BY <1>2, <2>2
    <2>4. Instance(Now.args[of].ty) \in Types
      BY <1>2, <2>3 DEF Arg, Instance
    <2>5. ClosureType(n) = Instance(Now.args[of].ty)
      BY <1>4 DEF ClosureType, of
    <2>6. QED BY <2>4, <2>5
  <1>5. QED BY <1>2, <1>3, <1>4

LEMMA EmitClosureLinked == ASSUME Linked, EmitClosure PROVE Linked'
  <1> DEFINE v(n) == ValueEntry(Top.env[n].b, NextFn, ClosureType(n))
             loaded == [n \in ClosureFree |-> v(n)]
             params == ParamEnv(prog.params[Now.b], NextFn, Top.ty)
             env == Hide(loaded, params)
             f == Fn("closure", Now.b, prog.name[Now.b], ctr.closure, Top.ty, NoCaptures)
             frame == Frame(NextFn, Top.ty, env, prog.body[Now.b])
             cont == Replace(<<>>)
             r == Ref(Top.fn, Now.b, Now.b, NextFn, NoCaptures)
             R == {r}
  <1>1. /\ At("closure") /\ Enter(f, frame, cont) /\ ClosureLambdas = {}
        /\ ctr' = [ctr EXCEPT !.closure = @ + 1]
        /\ refs' = refs \cup R
        /\ UNCHANGED <<prog, pc, registries, specs, outcome>>
    BY DEF EmitClosure
  <1>2. /\ stack # <<>> /\ Top.todo # <<>> /\ Now.b \in Binder
        /\ Top.ty \in Types /\ Top.fn \in 1 .. Len(funcs)
        /\ \A n \in DOMAIN Top.env : n \in Name /\ Top.env[n] \in Entry
    BY <1>1, AtParts
  <1>3. /\ prog \in Programs /\ funcs \in Seq(Fns) /\ Len(funcs) \in Nat
        /\ NextFn = Len(funcs) + 1 /\ NextFn \in Nat /\ NextFn \in 1 .. NextFn
        /\ ctr \in [spec : Nat, let : Nat, closure : Nat]
    BY DEF Linked, NextFn
  <1>4. prog.name[Now.b] \in Name /\ prog.params[Now.b] \in Seq(Binder)
        /\ \A b \in Binder : prog.name[b] \in Name
    BY <1>2, <1>3, ProgramParts
  <1>5. f \in Fns
    BY <1>2, <1>3, <1>4, NoCapturesKind DEF Fn, Fns, FnKinds
  <1>6. loaded \in FromNames(Entry)
        /\ \A n \in DOMAIN loaded : loaded[n].kind = "val" /\ loaded[n].fn = NextFn
    <2>1. ClosureFree \subseteq DOMAIN Top.env
      BY DEF ClosureFree
    <2>2. \A n \in ClosureFree : /\ v(n) \in Entry /\ v(n).kind = "val"
                                 /\ v(n).fn = NextFn /\ n \in Name
      BY <1>1, <1>2, <1>3, <1>4, <2>1, ClosureTypeKind DEF ValueEntry, Entry
    <2> HIDE DEF v
    <2>3. QED BY <2>2 DEF FromNames
  <1>7. params \in FromNames(Entry)
        /\ \A n \in DOMAIN params : params[n].kind = "val" /\ params[n].fn = NextFn
    BY <1>2, <1>3, <1>4, ParamEnvKind
  <1> HIDE DEF loaded, params
  <1>8. env \in FromNames(Entry)
        /\ \A n \in DOMAIN env : env[n].kind = "val" /\ env[n].fn = NextFn
    <2>1. env \in FromNames(Entry)
      BY <1>6, <1>7, FromNamesHide
    <2>2. \A n \in DOMAIN env : env[n].kind = "val" /\ env[n].fn = NextFn
      BY <1>6, <1>7 DEF Hide
    <2>3. QED BY <2>1, <2>2
  <1> HIDE DEF env
  <1>9. frame \in GoodFrames(NextFn, DOMAIN abstractions)
    <2>1. prog.body[Now.b] \in Seq(Item)
          /\ \A k \in DOMAIN prog.body[Now.b] : prog.body[Now.b][k].op # "wrap"
      BY <1>2, <1>3, BodyItems, BodyHasNoWrap
    <2>2. QED BY <1>2, <1>3, <1>8, <2>1, NewFrameGood
  <1>10. cont \in GoodFrames(NextFn, DOMAIN abstractions)
    BY <1>2, NothingToDo, CarryOn
  <1> HIDE DEF f, frame, cont, R
  <1>11. /\ stack' \in Seq(GoodFrames(Len(funcs'), DOMAIN abstractions))
         /\ funcs' \in Seq(Fns) /\ Len(funcs') = NextFn
    BY <1>1, <1>5, <1>9, <1>10, EnterLinked
  <1>12. R \subseteq GoodRefs(Len(funcs'))
    <2>1. Len(funcs') \in Nat /\ NextFn \in 0 .. Len(funcs') /\ Top.fn \in 1 .. Len(funcs')
      BY <1>2, <1>3, <1>11
    <2>2. r \in GoodRefs(Len(funcs'))
      BY <1>2, <2>1, NoCapturesKind, RefKind
    <2>3. QED BY <2>2 DEF R
  <1>13. outcome' \in Outcomes /\ Len(funcs') >= Len(funcs) /\ Len(funcs') \in Nat
    BY <1>1, <1>3, <1>11 DEF Linked
  <1>14. ctr' \in [spec : Nat, let : Nat, closure : Nat]
    BY <1>1, <1>3
  <1>15. \A key \in DOMAIN specs' : specs'[key] \in 1 .. Len(funcs')
    <2>1. specs' = specs /\ \A key \in DOMAIN specs : specs[key] \in 1 .. Len(funcs)
      BY <1>1 DEF Linked
    <2>2. QED BY <1>3, <1>11, <2>1
  <1>16. QED BY <1>1, <1>11, <1>12, <1>13, <1>14, <1>15, StepWithin

-----------------------------------------------------------------------------

LEMMA LinkedStep == ASSUME Linked, [Next]_vars PROVE Linked'
  <1>1. CASE UNCHANGED vars
    BY <1>1 DEF vars, registries, Linked
  <1>2. CASE Next
    BY <1>2, DeclareLambdaLinked, DeclareInlineableLinked, DeclareValueLinked,
       LowerExprStmtLinked, EmitEntryLinked, FinishLinked, LetValueLinked,
       BindValueLinked, LetLambdaLinked, ReadLocalLinked, InlineLinked,
       ReferenceLambdaLinked, ReadSymbolLinked, CallLinked, PartialApplyLinked,
       WrapLinked, EnterScopeLinked, LeaveScopeLinked, ApplyValueLinked, CaptureLambdaLinked, EmitClosureLinked
       DEF Next
  <1>3. QED BY <1>1, <1>2

(* The cache only ever grows, by the function begun next.                  *)
LEMMA CacheStep ==
  ASSUME [Next]_vars
  PROVE  specs' = specs \/ \E key : key \notin DOMAIN specs /\ specs' = Put(specs, key, NextFn)
  <1> DEFINE Kept == specs' = specs
             Grown == \E key : key \notin DOMAIN specs /\ specs' = Put(specs, key, NextFn)
  <1>1. ASSUME NEW key, NEW self, NEW caps, NEW cont,
               \/ ReuseSpecialization(key, cont)
               \/ NewSpecialization(key, self, caps, cont)
        PROVE  Kept \/ Grown
    BY <1>1 DEF ReuseSpecialization, NewSpecialization, Cached
  <1>2. ASSUME NEW how, Fail(how) PROVE Kept
    BY <1>2 DEF Fail
  <1>3. CASE UNCHANGED vars
    BY <1>3 DEF vars
  <1>4. CASE ReferenceLambda \/ Call \/ PartialApply \/ CaptureLambda
    <2>1. ASSUME NEW cont, Specialize(CalleeOf(Top.env, NowName), NowName, NowType, NoCaptures, cont)
          PROVE  Kept \/ Grown
      BY <1>1, <2>1 DEF Specialize
    <2>2. CASE ReferenceLambda
      <3>1. PICK cont : Specialize(CalleeOf(Top.env, NowName), NowName, NowType, NoCaptures, cont)
                        \/ Fail("error")
        BY <2>2 DEF ReferenceLambda
      <3>2. CASE Fail("error")
        BY <1>2, <3>2
      <3>3. CASE ~Fail("error")
        BY <2>1, <3>1, <3>3
      <3>4. QED BY <3>2, <3>3
    <2>3. CASE Call
      <3> DEFINE sym == CalleeOf(Top.env, NowName)
                 caps == LambdaCaptures(abstractions[sym], NowName, Top.env)
                 cont == Replace(Uses(Now.args))
      <3>1. Specialize(sym, NowName, NowType, caps, cont)
        BY <2>3 DEF Call
      <3> HIDE DEF sym, caps, cont
      <3>2. QED BY <1>1, <3>1 DEF Specialize
    <2>4. CASE PartialApply
      <3>1. PICK cont : Specialize(CalleeOf(Top.env, NowName), NowName, NowType, NoCaptures, cont)
                        \/ Fail("error")
        BY <2>4 DEF PartialApply
      <3>2. CASE Fail("error")
        BY <1>2, <3>2
      <3>3. CASE ~Fail("error")
        BY <2>1, <3>1, <3>3
      <3>4. QED BY <3>2, <3>3
    <2>5. CASE CaptureLambda
      <3>1. PICK n, ty, cont : Specialize(Top.env[n].sym, n, ty, NoCaptures, cont)
        BY <2>5 DEF CaptureLambda
      <3>2. QED BY <1>1, <3>1 DEF Specialize
    <2>6. QED BY <1>4, <2>2, <2>3, <2>4, <2>5
  <1>5. CASE ReadSymbol \/ Wrap \/ ApplyValue
    BY <1>2, <1>5 DEF ReadSymbol, Wrap, ApplyValue
  <1>6. CASE \/ DeclareLambda \/ DeclareInlineable \/ DeclareValue \/ LowerExprStmt
             \/ EmitEntry \/ Finish \/ EnterScope \/ LeaveScope \/ LetValue \/ BindValue \/ LetLambda
             \/ ReadLocal \/ Inline \/ EmitClosure
    BY <1>6 DEF DeclareLambda, DeclareInlineable, DeclareValue, LowerExprStmt,
         EmitEntry, Finish, EnterScope, LeaveScope, LetValue, BindValue, LetLambda, ReadLocal, Inline, EmitClosure
  <1>7. QED BY <1>3, <1>4, <1>5, <1>6 DEF Next

CacheIsFunction == specs = [key \in DOMAIN specs |-> specs[key]]

LEMMA CacheAlwaysFunction == Spec => []CacheIsFunction
  <1>1. Init => CacheIsFunction
    <2>1. <<>> = [key \in DOMAIN <<>> |-> <<>>[key]]
      OBVIOUS
    <2>2. QED BY <2>1 DEF Init, CacheIsFunction
  <1>2. CacheIsFunction /\ [Next]_vars => CacheIsFunction'
    BY CacheStep DEF CacheIsFunction, Put
  <1>3. QED BY <1>1, <1>2, PTL DEF Spec

(* The registries, the specialization cache, the frames of lower_expr and  *)
(* the references stay linked: whatever a name or a cache key leads to has *)
(* been registered or begun.                                               *)
THEOREM AlwaysLinked == Spec => []Linked
  <1>1. Init => Linked
    BY LinkedInit
  <1>2. Linked /\ [Next]_vars => Linked'
    BY LinkedStep
  <1>3. QED BY <1>1, <1>2, PTL DEF Spec

(* Every function number in the cache, the symbols, the frames and the     *)
(* references is that of a function begun, for every program: an index     *)
(* taken from `specializations` is always in range.                        *)
THEOREM TypeCorrect == Spec => []TypeOK
  <1>1. ASSUME Linked, CacheIsFunction PROVE TypeOK
    <2>0. funcs \in Seq(Fns) /\ stack \in Seq(GoodFrames(Len(funcs), DOMAIN abstractions))
      BY <1>1 DEF Linked
    <2>1. pc \in 1 .. Len(prog.top) + 1 /\ ctr \in [spec : Nat, let : Nat, closure : Nat]
          /\ outcome \in Outcomes
      BY <1>1 DEF Linked
    <2>2. abstractions \in [DOMAIN abstractions -> Binder]
          /\ inlineable \in [DOMAIN inlineable -> Binder]
      BY <1>1, FromNamesDef DEF Linked
    <2>3. symbols \in [DOMAIN symbols -> [b : Binder, fn : 0 .. Len(funcs)]]
      <3>1. GoodSymbols(Len(funcs)) \subseteq [b : Binder, fn : 0 .. Len(funcs)]
        BY DEF GoodSymbols, Symbol
      <3>2. symbols \in [DOMAIN symbols -> GoodSymbols(Len(funcs))]
        BY <1>1, FromNamesDef DEF Linked
      <3>3. QED BY <3>1, <3>2
    <2>4. specs \in [DOMAIN specs -> 1 .. Len(funcs)]
      <3>1. \A key \in DOMAIN specs : specs[key] \in 1 .. Len(funcs)
        BY <1>1 DEF Linked
      <3>2. QED BY <1>1, <3>1 DEF CacheIsFunction
    <2>5. \A i \in DOMAIN funcs :
            /\ funcs[i].kind \in {"main", "val", "spec", "partial", "closure"}
            /\ funcs[i].b \in Binder /\ funcs[i].of \in Name /\ funcs[i].ty \in Types
            /\ funcs[i].done \in BOOLEAN
      <3>1. TAKE i \in DOMAIN funcs
      <3>2. funcs[i] \in Fns
        BY <2>0
      <3>3. QED BY <3>2 DEF Fns, FnKinds
    <2>6. \A i \in DOMAIN stack :
            /\ stack[i].fn \in 1 .. Len(funcs) /\ stack[i].ty \in Types
            /\ stack[i].todo \in Seq(Item)
            /\ \A n \in DOMAIN stack[i].env : stack[i].env[n] \in Entry
      <3>1. TAKE i \in DOMAIN stack
      <3>2. stack[i] \in GoodFrames(Len(funcs), DOMAIN abstractions)
        BY <2>0
      <3>3. stack[i] \in Frames /\ stack[i].fn \in 1 .. Len(funcs)
        BY <3>2 DEF GoodFrames
      <3>4. QED BY <3>3, FromNamesDef DEF Frames
    <2>7. \A r \in refs : /\ r.use \in Binder /\ r.got \in Binder
                          /\ r.in \in 1 .. Len(funcs) /\ r.to \in 0 .. Len(funcs)
      BY <1>1 DEF Linked, GoodRefs, Refs
    <2>8. QED BY <2>1, <2>2, <2>3, <2>4, <2>5, <2>6, <2>7 DEF TypeOK
  <1>2. QED BY <1>1, AlwaysLinked, CacheAlwaysFunction, PTL

(* No operand crosses into another function, for every program: each body, *)
(* closure, wrapper and specialization is lowered in an environment whose  *)
(* values are its own block arguments or results.                          *)
THEOREM Isolation == Spec => []ValuesStayInTheirFunction
  <1>1. ASSUME Linked PROVE ValuesStayInTheirFunction
    <2>1. stack \in Seq(GoodFrames(Len(funcs), DOMAIN abstractions))
      BY <1>1 DEF Linked
    <2>2. \A i \in DOMAIN stack : stack[i] \in GoodFrames(Len(funcs), DOMAIN abstractions)
      BY <2>1
    <2>3. QED BY <2>2 DEF ValuesStayInTheirFunction, GoodFrames
  <1>2. QED BY <1>1, AlwaysLinked, PTL
=============================================================================
