# Merlin in TLA+

Merlin is a small ML-like language: a parser, a Hindley-Milner type checker
with rows, and a code generator that lowers the typed program to MLIR, run by
a JIT or linked into an executable. Everything runs in one thread and nothing
is persisted; what is hard is hidden in stored state: registries keyed by
name, a cache of specializations filled while it is being read, environments
cloned and restored, substitutions composed in the right order, and a session
that keeps statements after some of its steps have failed.

Paths below are relative to the repository; `src/codegen/apply.rs:297` is line
297 of that file (`PROJECT.json` writes `src/src/...`).

## 1. Inventory

| component | state | operations | what makes it correct |
|---|---|---|---|
| Parser, AST (`grammar.lalrpop`, `ast.rs`) | none | `Program::parse` | generated; not modelled |
| Type checker (`types.rs`) | `TypeContext` (bindings, aliases, enums, fresh-variable counter), substitutions | `algo_w` and `infer_*`, `unify`, `unify_row`, `combine`, `generalise`, `instantiate`, `check_exhaustive` | unify returns an idempotent most general unifier or fails; no constraint is lost; a quantified variable is not free in the context |
| Name resolution and specialization (`codegen/apply.rs`, `stmt.rs`, `closures.rs`, `expr.rs`, `tail.rs`) | `Module`: `abstractions`, `inlineable`, `symbols`, `specializations`, the counters; the `Env` of each body | `lower`, `lower_decl`, `lower_let`, `lower_variable`, `lower_application`, `specialize_binding`, `lower_partial_application`, `lower_abstraction` | every use refers to the declaration it is bound to; each instantiation is emitted once; caller and callee agree on the captures; no value is used outside its function; symbols are unique and defined |
| Match lowering (`expr.rs`, `tail.rs`) | none | `lower_match_cases`, `pattern_bind`, `case_condition` | the case taken is the first that matches, and one matches whenever the type checker accepted the match; nothing is loaded through null |
| Types and layout (`codegen/types.rs`, `records.rs`, `enums.rs`, `lists.rs`) | enum, record and alias registries; at run time the heap | `lower_type`, `monotype_size`, `tuple_size`, `build_cons`, `build_payload` | no cell is smaller than what is stored in it; a field is found where it was put |
| Structural equality (`equality.rs`) | cache of equality functions; at run time the calls of helpers | `eq_function`, `lower_list_eq`, `lower_enum_eq` | equality of values; one helper per type; recursive types terminate |
| Runtime builtins (`stmt.rs`) | at run time strings, cells and the input read | `emit_readin`, `emit_tochars`, `emit_fromchars`, `+` on strings, conversions | buffers are large enough and terminated; contents are copied in order |
| Tail calls (`tail.rs`, `closures.rs`) | loop header, pending blocks | `lower_tail`, `try_self_tail_call`, `has_self_tail_call` | the loop computes what the recursion would, in constant stack |
| JIT and object files (`execute.rs`) | none | `execute`, `compile`, `read_list` | the function invoked exists and returns what is read; the passes and the engine are external |
| REPL (`repl.rs`) | `accumulated_stmts` | one step per line | a rejected line leaves no trace; an accepted one is kept once, with all its statements; evaluated statements stay |
| Driver (`main.rs`) | the options | check, lower, then link or start a session | what a session starts with is a well-typed program |
| Prelude, display (`prelude.rs`, `display.rs`) | none | | library code and formatting; not modelled |
| `treesitter/` | | | editor support; not modelled |

**How they interact.** The REPL appends the statements of a line to those it
has, type-checks the whole program afresh, lowers it afresh and executes it.
The type checker annotates every expression with its type; lowering reads the
annotations and the names, never the checker's context. Lowering's functions
call one another recursively and share one `&mut Module`: a body is lowered in
the middle of the body that first uses it. `specialize_binding` calls back into
the type checker's `unify` to instantiate a body.

**What is hard.** There is no concurrency, no message and no timeout. The
hazards are *order* (a cache entry made before the function it names exists, a
counter shared by two kinds of symbols and taken at different moments, captures
collected in hash order, a test evaluated before the one that guards it), *stale
state* (a cache keyed by names that are bound
again, a restored environment), *partial failure* (a line that type-checks and
does not lower, a body that fails in the middle of another) and *long legal
sequences* (the same name as parameter, local lambda, inlined binding, top-level
lambda and value). The compiled program adds hazards of its own: buffers filled by two
passes that must agree, sizes computed by the code generator for a layout that
LLVM decides, positions of fields found from different annotations.
`PROJECT.json` lists each at its line.

## 2. Modules

| module | what it is |
|---|---|
| `Lowering` | name resolution and specialization, with their properties |
| `MCLowering` | the small programs it is checked on |
| `MCLoweringFindings` | programs for which the code does not do what its comments say, with the property each violates |
| `LoweringProofs` | the inductive invariant, type correctness, isolation of functions |
| `LoweringNamesProofs` | uniqueness of symbols and specializations, closedness of modules; that names resolve as they are scoped where they are distinct, and that the captures passed are those compiled where scopes are well formed |
| `Unification` | types, substitutions, contexts, `unify`, `unify_row`, `expand` |
| `Inference` | `algo_w` with all its helpers, patterns, exhaustiveness |
| `TypingRules` | the reference: the typing rules of `docs/typerules.md` as predicates on annotated syntax, the values of a type, all the types an expression has |
| `Statements` | `Stmt::typecheck`: what checking one statement in a context returns |
| `Typechecking` | `Program::typecheck` as actions, with the properties of the type checker |
| `Syntax` | short names for expressions, patterns and declarations |
| `MCTypechecking` | programs that are checked as the rules say and, at its end, programs that are not (section 5) |
| `SessionLog` | the abstract specification of a session: a log of well-typed lines |
| `ReplSession` | the command line and the loop of the REPL, over an abstraction of checking and lowering |
| `MCReplSession` | a small vocabulary of statements |
| `ReplSessionProofs` | type correctness of a session, that it implements `SessionLog`, and four of its other properties |
| `Strings`, `MCStrings` | the builtins that loop over memory, a small heap and input |
| `StringsProofs` | their loop invariants, memory safety and what they compute, for any lengths |
| `Equality` | the helpers emitted for `==` and the comparisons they make; what a type is, is a parameter |
| `EqualityTypes`, `MCEquality` | the types of `Unification` as that parameter, and small values of them |
| `EqualityProofs` | one helper per type, and that the answer is equality, for values of any depth |
| `Matching` | the chain of tests of a match, lowered and then run on a value; what a pattern and the values of a type are, are parameters |
| `CheckedMatches`, `MCMatching` | the matches that `Statements` accepts as those parameters, and small programs that end in one |
| `MatchingProofs` | the first case that matches is taken, with its parts, and loads nothing through null, for patterns and values of any depth |
| `TailCalls`, `MCTailCalls` | the loop of a specialization against plain recursion; what an expression is, is a parameter |
| `TailCallsProofs` | loops compute what the recursion does, in constant stack, for any program |
| `StructLayout`, `Layout`, `MCLayout` | layout of a struct; objects allocated, stored and read back |
| `LayoutProofs` | no type's size is underestimated, stores fit, lists are walked by their tails |

Three modules share the statements of a program and abstract them differently.
`Lowering` keeps names, scopes and instantiations and forgets expressions;
`Typechecking` keeps expressions and types; `ReplSession` keeps of a statement
what it declares and what it uses, which is what the lines of a session can do
to each other. `CheckedMatches` composes `Matching` with the type checker:
`Statements` checks the programs, and the annotations and the context that it
leaves say what the patterns of a match are. `Strings`, `Equality`, `TailCalls` and `Layout` are
about the compiled program: an action is what the emitted instructions do.
Operators of the form `Op_Mistake` stand before some
definitions: each is the definition with a plausible mistake, with which the
property named for it in `PROJECT.json` fails.

### 2.1 `Lowering` and the code

A program is written over *binders*, the places where a name is bound. A use
names the binder it is lexically bound to; the code generator looks up
`prog.name[b]` instead, as the code does. Everything stored under a name
carries its binder along, so "the right thing was found" can be said.

| model | code |
|---|---|
| `pc`, `prog.top` | the loop over `prog.stmts` in `lower` (`stmt.rs:33`) |
| `stack` of frames | the recursion of `lower_expr`; a frame has the `Env` and what is left of the body |
| `abstractions`, `inlineable`, `symbols`, `specs`, `ctr` | the fields of `Module` (`mod.rs:123`) |
| `funcs` | the `func.func`s begun; `done` when appended to the module |
| `refs` | (history) what each use resolved to |
| `outcome` | `Ok`, `Err` or a panic of `lower` |
| `DeclareLambda`, `DeclareInlineable`, `DeclareValue` + `Finish` | the three ways of `lower_decl` |
| `LowerExprStmt`, `EmitEntry` | `lower_expr_stmt`, the end of `lower` |
| `EnterScope`, `LeaveScope` | cloned environments of blocks, branches and cases; restoring in `lower_let` |
| `LetValue`, `BindValue`, `LetLambda` | `bind_in_env`; `BindValue` also for pattern variables |
| `ReadLocal`, `Inline`, `ReferenceLambda`, `ReadSymbol` | the look-up order of `lower_variable`; `Inline` also `collect_application_root` |
| `Call`, `PartialApply` + `Wrap`, `ApplyValue` | `lower_application` and its two helpers |
| `ReuseSpecialization`, `NewSpecialization` | `specialize_binding`, with the entry made before the body |
| `CaptureLambda`, `EmitClosure` | `lower_abstraction` |

An expression is the sequence of the uses, bindings, lambdas and scopes met
while lowering it, in the order they are lowered. Arithmetic, literals, lists,
records and the instructions themselves look up no names and are left out, as
are constructors, which start with a capital letter and cannot clash. The type
of a use is concrete or `Same`, the type at which the enclosing function is
instantiated; that is all specialization needs of a type. A value's function
type is not tracked, so `ApplyValue` may go any of the three ways the code
chooses among by type: the model does more than the code there, never less. The
type that a local lambda was defined at is not kept either, so `CaptureLambda`
captures it at any (the code takes the lambda's own, with its free variables
filled in, `codegen/apply.rs:848`). Specializations are told apart by the MLIR
types of their captures, which are coarser than the types of the language:
`MLIRType` is a constant, any map of types to types. The errors of
`specialize_binding` for a type that does not fit the lambda (`codegen/apply.rs:311`,
`:323`) are left out: they arise only where a name has already reached a lambda
other than the one meant, which is what `LexicalResolution` excludes.
Self tail calls resolve names as `Call` does and are not distinguished.

### 2.2 What the properties say

* `LexicalResolution`: every use, through whichever registry it is found,
  reaches the binder it is bound to.
* `SpecializedOnce`: no two specializations of one lambda at one type and one
  list of capture types, recursion and nesting included.
* `CaptureAgreement`: the captures a call passes are those the specialization
  was compiled to receive, although both sides compute them on their own.
* `ValuesStayInTheirFunction`: an environment holds values of the function
  being built only (MLIR's functions are isolated from above).
* `SymbolsUnique`: two functions of one kind never take one number.
* `ModuleClosed`: a module handed on has every function it refers to.
* `Termination`: lowering ends.
* `TypeOK`: the type invariant.

### 2.3 The type checker and the code

| model | code |
|---|---|
| `Var`, `App` | `Monotype`: a variable, or a `TypeFunc` applied; rows are `RowExt` and `EmptyRow` under `Rec` |
| substitutions | functions from names to types; `Combine` is `Substitution::combine`, `Apply` follows chains as `Monotype::apply` does |
| `Endless` | `apply` on a cyclic substitution, which overflows the stack |
| contexts `[vars, aliases, enums, ctr]` | `TypeContext`, threaded through every operator, because `algo_w` changes it in place |
| `Unify`, `UnifyRow`, `Peel`, `Expand` | `unify`, `unify_row`, `peel_rec`, `expand` |
| `AlgoW`, `Infer...`, `TypePattern`, `Exhaustive` | the function of that name in `types.rs` |
| `CheckDecl`, `CheckExpr`, `CheckTypeDecl` | the arms of `Stmt::typecheck`, each with the resolution of the recorded types |
| `Reject` | the `?` in `Program::typecheck`, or the stack overflow |

An operator of the model returns what its function returns (`Solved`, `Typed`),
`Error`, or `Never` when the function does not return. Fresh variables are
numbered by the counter in the context, so that a name made up can be the name
a user wrote. Error messages and positions are left out. Where the code sorts
names (the quantified variables of a polytype) the model takes some order;
nothing depends on it up to renaming.

* `SoundInference`: the types recorded on the expressions of an accepted
  statement are a derivation by the rules, each name in its lexical scope. It
  holds or fails on the types found, whatever the `Universe`.
* `PrincipalTypes`: a rejected statement has no type by the rules, and the type
  found for an accepted one has every type of the statement as an instance.
  Here "every type" is every type in the `Universe` (simple types, and lists,
  functions and pairs of them: about 140).
* `MatchesCover`: an accepted match has a case for every value, for values built
  to depth 2.
* `Terminates`: no statement sends `apply` round a cycle.
* `SchemesStable`: checking a statement changes no other name's polytype.

### 2.4 The session and the code

| model | code |
|---|---|
| `CheckStatement`, `TypeChecks` | `Program::typecheck` from an empty context: one pass, names looked up as they are then |
| `LowerUses`, `LowerLet`, `LowerStatement` | the loop of `lower`; a lambda's body is lowered at its first use, with the registries as they are then |
| `fate`, `Compiled` | whether the code generator supports the rest of an expression, asked when the expression is lowered |
| `Verifies`, `Links` | (external) symbols of a module are unique, and do not clash with the C functions declared in it or with `main` |
| `accumulated` | `accumulated_stmts` (`repl.rs:15`) |
| `StartBare`, `Decline`, `RunFile` | `main`: no file, an error before checking, a file |
| `SkipLine`, `RejectLine`, `FailToLower`, `Die`, `DefineFunction`, `FailToExecute`, `Execute`, `Quit` | the ways a line can go (`repl.rs:24-116`) |
| `invoked`, `evaluated` | (history) what `execute` ran last, and the expression statements `@__main` evaluated last |

A use is a name with the one type it is used at, and a statement's uses are a
set. Where a type-correct program uses a name at another type than that of the
declaration it reaches (a name declared again), the instructions built may be
refused or not, and the model allows both. Where one use has no meaning and
another is expanded for ever, the code's answer depends on their order, which
the model does not keep: it says "endless".

Not every expression that type-checks can be lowered, even where all its names
mean what they should. A closure with captures used as a value
(`codegen/apply.rs:165-168`), a constructor without its payload (`:234-238`), a
partial application of a closure with captures (`:641-643`), a local lambda used
in the body of another (`:373`) and a catch-all before the last case
(`codegen/expr.rs:613-618`) are refused; more arguments than parameters are a
panic (`codegen/apply.rs:649`). The `fate` of a statement sums this up: "lowers",
"refused" or "panics", of the initializer, the expression, or the body of a
lambda, which is found out when the body is first lowered. That is the fate
with the names as they were checked; where they are declared again and mean
something else it is an approximation, as is the one fate of a polymorphic body.
Where one part is refused and another ends the process, the model says the latter.
Locals and captures are left to `Lowering`, polymorphism to `Typechecking`. The
`cc` that links may always fail.

* `KeepsALog`: the session implements `SessionLog` under the mapping `log <-
  accumulated`: it starts with a well-typed program, and a line leaves it as it
  was or adds all its statements to a program that is well typed with them.
  Truncation by count is right only because every path that reaches it has
  appended exactly that many.
* `FreshSupportedLower`: checking and lowering give names their meaning at
  different moments (checking where a name is used, lowering where the function
  it is used in is first needed). For a session that declares no name twice and
  lowers no expression that is refused or panics (`Supported`; such a lambda may
  be declared, as long as it is not used) the two agree, so what was accepted
  lowers and verifies. Names alone break a session only by declaring one again,
  taking one from C, or by a value that uses itself.
* `RedeclaredMeans`: where a name is declared several times, what an evaluated
  expression reaches is settled by the declarations: the last of those kept for
  inlining, whatever came after; else the last lambda before the first line that
  called the name at that type, since that one is cached; else the only
  declaration, because a value declared twice is two functions of one symbol and
  such a module is never executed.
* `ReadsWhatIsReturned`: the JIT writes through a pointer whose type the loop
  works out from the last statement, `lower` works out what `@__main` returns,
  and `lower_decl` decides whether there is a function at all.
* `EvaluationGrows`: `@__main` evaluates every expression statement of the
  session again (`repl.rs:102`). What it evaluates is what it evaluated the last
  time, in the same order, and then what is new, whatever lines failed in between.
* `FailureIsForGood`: a line that fails to lower is kept, and so no later line
  is executed. This is what the code does, stated so that it cannot change
  unnoticed; a session has to be restarted. It is about lowering only: a line that
  lowers and cannot be executed (its result has a type that is not read back, say)
  does not keep the next one from being executed.

### 2.5 The string builtins and the code

| model | code |
|---|---|
| `FromChars`, `Count`, `AllocateString`, `Fill`, `TerminateString` | the two `scf.while` loops of `emit_fromchars`, `malloc` between them, the store of the terminator behind them |
| `ToChars`, `Descend`, `Bottom`, `BuildCell`, `ReturnList` | the recursive function of `emit_tochars`: on the way down bytes are loaded, on the way back cells are made |
| `Concat`, `CopyFirst`, `AppendSecond` | `+` on strings: `strlen` twice and `malloc`, `strcpy`, `strcat` |
| `ReadIn`, `Read`, `CutAtRead`, `StripNewLine` | `emit_readin`: one `read` of at most 1023 bytes, the terminator behind them, `strcspn` and the terminator in place of the newline |
| `StringLiteral`, `ConsChar` | what a program does to have strings and lists of chars |

`malloc` returns memory that holds `Junk`; a store outside of a buffer and a
load behind one are the state "fault". `read` (external) returns any number of
the bytes there are, none at the end or after an error. `malloc` does not fail
and the stack has no end. A character is an `i32`; storing it keeps its lowest
byte (`Trunc`), so a character may be cut to the terminator.

* `MemorySafe`: the two passes of `fromchars` agree and the terminator has room;
  a read that fills the buffer leaves a byte; the recursion of `tochars` stops.
* `StringsEnd`: every string ends inside its buffer with nothing unwritten
  before its end.
* `CopiesChars`: `fromchars` writes the chars of the list in order, and
  `tochars`, which makes the last cell first, gives the bytes in order.
* `Concatenates`: the result of `+` is the one string followed by the other.
* `ReadsInOrder`: a line is the first line of the bytes one read gave, up to a
  newline, a NUL or the last of them (`IsFirstLine`), and each read starts where
  the one before it ended (`EndsAt`), so no byte of the input is seen twice. That the rest of a
  read is lost to the next `readin` is in section 5.
* `BuiltinsReturn`: each builtin returns.

### 2.6 Structural equality and the code

| model | code |
|---|---|
| `registry`, `counter` | `module.eq_functions`, `module.eq_counter` |
| `pending` | the recursion of `eq_function` through `eq_body` and `lower_equality`; at its bottom the comparisons in the program |
| `LowerScalar`, `CallRegistered`, `BeginHelper`, `EmitHelper`, `Refuse` | the ways `lower_equality` goes, with the symbol registered before the body is lowered |
| `Kind`, `Concrete`, `Parts`, `VariantFields` | (parameters) what the code asks of a type |
| `EqualityTypes!EnumVariantFields` | the function of that name: a variant's fields with the enum's parameters replaced |
| `CompareScalars`, `CallHelper`, `Return` | the emitted loop over a list, chain over variants and conjunction over fields |

A helper is abstracted to the parts it compares and what compares each. A list
is null or a cell, an enum value a discriminant and a payload that is null for
a variant without fields: a load of a part that is not there is "fault". A
string is a scalar, compared by `strcmp`; NaN differs from itself.

* `AnswersEquality`: the answer is structural equality.
* `OneHelperPerType`: types and helpers correspond although a helper is called
  before it is emitted.
* `Ends`: lowering ends, and every comparison ends with an answer. The enums asked
  use themselves at their own parameters or at parts of them; `NestedAsked` of
  section 5 has one that does not, for which lowering never ends.

### 2.7 Matches and the code

| model | code |
|---|---|
| `Patterns` | (parameter) `PatternBind`: a pattern's kind, its constructor, literal or name, its type, and its parts with the places they are loaded from |
| `ValuesOf`, `Build` | (parameters) what memory may hold of a type, and the value of a scrutinee |
| `Lower` | `lower_match_cases` over all cases: a catch-all before the last is an error |
| `Evaluate` | the scrutinee is evaluated before any case |
| `TestCase`, `Cond` | `case_condition` and the `scf.if` of each case |
| `TakeLast` | the last case, lowered without a test |
| `Destructure`, `EnvOf` | the destructuring of each kind of pattern and the environment of a body |
| `CheckedMatches!PatternBind`, `FieldIndex` | `pattern_bind`, and `field_index` of `record_fields`: the place of a label in the row of the type at hand |
| `CheckedMatches!BuildExpr` | `lower_expr` of literals, constructors, lists, tuples, records, accesses and `with` |
| `CheckedMatches!AcceptedMatches` | the matches of the programs that `Program::typecheck` lets through |

`AndAll` evaluates all its operands, as `arith.andi` does; what keeps a null
list or the payload of another variant from being loaded is the nesting of
`scf.if`, `Guarded` here. A load of what is not there gives `Undefined`, whose
test or binding is a fault. A value of a record keeps the labels it was built
with, which only the properties read.

* `FirstMatch`: where the cases cover the type, the case taken is the first that
  matches, by the reference `Matched` and not by `Cond`. `Matched` goes by what a
  value was made as and, in records, by labels; `Cond` by null pointers,
  discriminants and positions.
* `NoNullLoads`: where the cases cover the type, neither test nor binding loads
  through null or from another variant's payload.
* `BindsTheParts`: the names bound are those the type checker gave types to,
  each with the part of the scrutinee in its place (`Places`).
* `FieldsReached`: an access and a `with` reach the field of that label.

`Covered`, the premise, is what the comment at `expr.rs:626` takes for granted of
every match that is accepted (`LastCaseMatches`). `check_exhaustive` ensures
less: it looks at the outermost constructors only, and the run `LastCase` shows a match it accepts that is not covered. An
accepted match with a catch-all before the last case is refused by the code
generator ("refused").

### 2.8 Tail calls and the code

| model | code |
|---|---|
| `Programs`, `Exprs`, `Depth` | (parameters) the programs run, the expressions each is made of and how deep these are nested |
| `TailCallsOf`, `Unhidden`, `HasHeader` | `has_self_tail_call`, syntactic: the calls in tail position whose name is not bound again on the way, and whether one of them is of the lambda's own name with all its arguments |
| `IsSelfTailCall`, `LoopBack` | `try_self_tail_call`: the callee specialized at the call is the specialization being lowered; `cf.br` to the header with captures and arguments |
| `CallAndReturn`, `CallForValue` | every other call |
| `Branch`, `TakeCase`, `BindValue`, `BindLambda` | `lower_tail` of `if`, `match`, `let` and blocks |
| `Spec`, `Captures`, `Inputs` | `specialize_binding` and `lambda_captures`: what a lambda takes from the environment it is called in |
| `WellTyped` | what the type checker and the environment have seen to where an expression begins: what is read is a value, what is called is a lambda and gets all its arguments |
| `WellNamed` | a symbol stands for one lambda: local ones are stored under a counter that only grows (`apply.rs:135`), top-level ones are declared once |

Values are integers and types are left out: one specialization per lambda and
set of captures. The cache's key has the types of the captures and not their
names; the two agree where a local lambda has all its captures or none (proved
in `LoweringNamesProofs`), and the run `Capturing` shows where they do not.
`Eval`, the reference, resolves names and captures as the code does at a call,
and differs in one thing: every call is a call. `Eval[n]` follows the recursion
to depth `n`. Whether the names mean what they should is the subject of
`Lowering`. Both `if` and `match` test one operand against 0, and `let` and a
block bind one name; a chain of cases or of statements is a nest of these.

* `LoopIsRecursion`: the result is that of `Eval[MaxDepth]`, where that is deep
  enough; in the run it is, which the ASSUME `RecursionsEnd` checks.
* `ConstantStack`: no specialization has an activation directly above its own but
  by a call not in tail position, which is what `tail.rs:11` promises.
* `Ends`: every program of the run ends.

### 2.9 Layout and the code

| model | code |
|---|---|
| `MonotypeSize`, `MonotypeAlign`, `TupleSize` | `monotype_size`, `monotype_align`, `tuple_size` (`codegen/types.rs`) |
| `LLVMSize`, `LLVMAlign`, `FieldAt` | (external) LLVM's data layout of what `lower_type` gives |
| `BuildCons`, `BuildPayload`, `BuildEnv` + `StoreField` | `malloc` with the bytes computed, then a store per field |
| `ReturnList`, `FollowTail` | `read_list` in `execute.rs`, with its offset 8 |

An object's memory says of each byte which byte of which field was stored there
last, so a pointer read from the wrong place is not a pointer.

* `FieldsFit`: no field is stored behind the bytes allocated. It is checked for
  payloads of any of the types, and for cells and environments of fields at most
  a pointer wide; a wider head is the run `WideCells`.
* `WalksTheList`: `execute` reads the tails of a list and stops at its end.

## 3. Runs

| run | expected | shows |
|---|---|---|
| `MCLowering` | pass | the seven invariants of 2.2 on 5,760 programs, 134,376 states, and that lowering each of them ends |
| `MCTypechecking` | pass | the six properties of 2.3 on about 1,750 programs |
| `MCReplSession` | pass | the seven properties of 2.4 on every session of up to four statements, 133,931 states |
| `MCStrings` | pass | the seven properties of 2.5 on every sequence of up to three calls, 411,032 states |
| `MCEquality` | pass | the three properties of 2.6 on nine programs and all values to depth 2, 4,455 states |
| `MCMatching` | pass | the four properties of 2.7 on the 2,074 matches of up to three cases that are accepted, 7,204 states |
| `MCTailCalls` | pass | the three properties of 2.8 on 54 programs, 577 states |
| `MCLayout` | pass | the two properties of 2.9 on some 1,100 objects and on lists of up to three cells, 4,133 states |
| `Capturing` | violation | captures of equal types and different names share a specialization |
| `WideCells` | violation | a cell whose head is wider than a pointer is allocated with 16 bytes |
| `LastCase` | violation | a match that covers no `Some []` is accepted, and its last case taken for it |
| `TwoRecords` | violation | two records with their fields in another order are one type and two layouts |

**Programs of `MCLowering`.** `DistinctPrograms` combines bodies for two
top-level functions, a binding kept for inlining, a local value and two local
lambdas (one bare or bound) so that recursion, mutual nesting, captures of
values and of lambdas, partial application with and without inlining and two
instantiations of one function all occur, no two binders sharing a name.
`ScopedPrograms` adds an inner scope whose let, pattern variable or local lambda
may hide an outer one and code after the scope that uses the outer one. The
premises `LexicalResolution` and `CaptureAgreement` need are visible there: no
lambda is called where one of its free names means something else. `Capturing`
and the programs of section 5 drop them one by one.

**Programs of `MCTypechecking`.** Six families: `Core` (a function with one
operator, used at one type after another), `Compound` (an operator over another,
under two lambdas), `Name` (shadowing, annotations, aliases, redeclaration, local
polymorphism), `Match`, `Record` and `Operator`. They hold programs that are
accepted and programs that are rejected. They keep clear of the forms of
section 5: no list whose later element narrows an earlier one, no variable used
after the `let` that binds it, no pattern that tests below the outermost
constructor, no `==` on lists.

**Sessions of `MCReplSession`.** Lambdas, recursion, partial applications, a
value that is a function, shadowing by another form, a value that uses itself,
an inlined binding that expands to itself, names of C functions and of `main`, a
reserved name, a type declared twice, expressions that can be read back and one
that cannot; a function with sibling local lambdas, one with an early catch-all,
a closure with captures as a value, all refused when they are lowered, and too
many arguments, a panic; lines with no statement, one, and two of which the
second may be rejected; sessions seeded from eleven files, with and without a
prelude.

**Programs over strings.** Bytes are 0 to 3: the terminator, two others and the
newline; the characters are one that is cut to another byte and one that is cut
to the terminator. A buffer of four bytes is filled by a read, a line may be
longer than it, empty, or hold a NUL, and `read` may split the input anywhere.
Three calls let a string be read, turned into a list and back, or appended to
itself and taken apart.

**Values compared and matched.** Lists of lists, records and tuples in lists,
generic, recursive and nested enums (`Tree(Tree(int))`), with two values of each
scalar. Matches take up to three cases, in any order and with repetitions, out of
three to seven patterns per type with sub-patterns to depth 2: with two cases
before the last, a test can be skipped, come in the wrong order, or be left out.
The values that a match must cover are those to depth 3, so that every pattern
meets values that it does and does not match, one level below its own parts.

**Loops.** The shapes of `tests/codegen.rs:446-524` and those around them: swapped
arguments, self calls in branches, cases, lets and blocks, names hidden on one
path or on all, a local loop with a capture that is hidden at the call,
mutual recursion, Ackermann's function. Counts to 3 go round a loop often enough
for a value of one iteration to be seen in the next.

**Bounds.** `MaxFuncs = 16` functions are more than any of these programs begins
(24 give the same states), `LetNames` has six generated names, and `MaxArgs` bounds
what inlining collects; a bound met would show as a violation of `Termination`.
There are three types, two of which are one MLIR type: enough to make a function
be instantiated twice, with captures that tell the two apart or do not; three
levels of nested functions make a capture of a capture. The type checker has no bound but its programs. `MaxStatements =
4` lets a session declare a function, declare a name it uses, use it, and
declare or use again after a failure (the redeclaration of section 5 needs
five). `MaxStrings = 1`, `MaxCells = 2` and `MaxCalls = 3` bound what the program
makes itself and how often it calls; builtins make strings and cells beyond the
first two. `MaxDepth = 100` is more than the depth of any recursion in `MCTailCalls`.
`MaxCells = 3` in `MCLayout` lets a walk pass a cell that is neither
first nor last. `CHECK_DEADLOCK FALSE`: lowering, checking and compiled programs
stop when they are done or have failed, a session when its input ends.

**Fairness.** Weak fairness of the whole of what runs: `WF_vars(Next)` in
`Lowering` and `TailCalls`, `WF_vars(Builtin)` in `Strings`, `WF_vars(Lowering
\/ Running)` in `Equality`. There is one thread, so a step that can be taken is
taken; the steps of the program between builtins, and which question it asks, are
left unfair. A `read` that waits for input for ever is not modelled: it returns.
No fairness between actions is assumed; the only choices are hash order, the type
of an applied value and what a read gives. A session waits for its user, so
nothing is promised there.

**Sensitivity.** For each property of a passing run `PROJECT.json` names a
mistake (a forgotten counter, a key without captures, a cache never filled, an
environment inherited, a missing occurs check, a substitution dropped, a
statement taken back too few, a buffer without room for the terminator, a load
before its guard, a parameter assigned before the next argument is evaluated) with
which the same run reports a violation.

## 4. Proofs

The proofs hold for any constants that satisfy `ConstantAssumption`,
`SessionAssumption` or `StringsAssumption`, which say only what the constants
are, and for `Layout`, `TailCalls` and `Matching`, `LayoutAssumption`,
`TailCallsAssumption` and `MatchingAssumption`: structs, expressions and patterns
are nested to some depth. Seventeen theorems have a premise beyond that, each of them one the property needs,
and one that an instance TLC runs satisfies:

| theorem | premise | without it | satisfied |
|---|---|---|---|
| `NamesResolve` | `NamesDistinct(prog)`: no two binders have one name, none a generated one | the first rows of section 5 | `MCLowering!DistinctProgramsScoped`, an ASSUME about every one of `DistinctPrograms` |
| `CallsPassCaptures` | `WellScoped(prog)`: also, what a local lambda has free is bound before it | `Capturing` | the same ASSUME |
| `HelpersMatchTypes`, `AnswersAreEquality`, `NothingNullIsLoaded` | `Closed(Types, Asked)`: an aggregate's parts are types; the last two also `Valued(Types, Values)`: the components of a value are values of them | the operands are not types and values of them | `MCEquality!ClosedAndValued`, an ASSUME |
| the four of `TailCallsProofs` | `WellNamed`: two lambdas never have one symbol, and none has that of the program's entry | a program's own `let_0` (section 5), or a name declared twice: a call is taken for a self call of another lambda | `MCTailCalls!AllWellNamed`, an ASSUME |
| the six of `MatchingProofs` | `WellTyped`: a pattern is matched against values of its type, whose parts are where they are loaded from; the names in it are given types | a record pattern on a record of another layout (`TwoRecords`): the parts are elsewhere | `MCMatching!AcceptedWellTyped`, an ASSUME about every match of `MCEndings` that the type checker accepts |
| `SpecBindsTheParts` | also `NamedOnce`: no two parts of a pattern have one name | `(a, a)`, which the type checker accepts: the last part is what `a` is | the same ASSUME |
| `FieldsStayInside` | `NarrowFields`: no head of a cell and no field of an environment is wider than a pointer | `WideCells` | `MCLayout` |
| `WalkFollowsTails` | heads take 1 to 8 bytes | `MCLayout!Wide` (section 5) | `MCLayout` |

The other theorems about `Lowering` make no assumption on names: they also cover
the programs of the violation runs and of section 5.

**Lowering.**

* `LoweringProofs!AlwaysLinked`: the inductive invariant `Linked`. `TypeOK` is
  not inductive: a step reads a registry with a key taken from an environment,
  so every lambda entry of an environment must name a registered lambda, every
  pending wrapper a function begun, captures must be well formed, and the bottom
  frame must be one that may end. Per action, one lemma.
* `TypeCorrect`: `Linked` implies `TypeOK` (with the fact that the cache is a
  function into the functions begun).
* `Isolation`: `ValuesStayInTheirFunction`. `Linked` carries the stronger
  statement that each environment was built for the function of its frame.
* `LoweringNamesProofs!SymbolsNeverReused`: `NumbersTaken` (numbers in use are
  below the counters) makes it inductive; the lemma `FunctionStep` classifies
  every step by the function it begins and the counter it advances.
* `SpecializedAtMostOnce`: `Recorded` (each specialization is the one its own
  key is cached with), which depends on the cache entry being made when the
  function is begun.
* `ModulesAreClosed`: `NothingForgotten` (a function not done has a frame on the
  stack) and `AllFinished`.
* `LoweringNamesProofs!NamesResolve`: `LexicalResolution`. The invariant `Named`
  says that every registry and every environment holds a binder under its own
  name, or under a name `let_n` the counter has passed, and that a cached
  instantiation is one of the lambda registered. That names are distinct is used
  once per look-up; that none is a generated one, when `let_n` is registered.
* `CallsPassCaptures`: `CaptureAgreement`. A call computes
  its captures from the environment it is in, while the cache is keyed by their
  types only. The invariant `Settled` says that in every environment a local
  lambda has either all its captures or none of them (`full` says which all of
  them are), because what is still to be bound was met in the source after all
  that is bound (`InOrder`); how many they are then tells which, and distinct
  names leave one value for each.

**Session.**

* `ReplSessionProofs!SessionTypeCorrect`: `TypeOK`. What is executed is
  `@__main` or the name of the last statement, which is a name because the
  statement is one of a session.
* `SessionKeepsALog`: `KeepsALog`, the refinement. The
  inductive invariant `Kept` says that an open session holds a well-typed
  program or nothing. The lemma `TruncationUndoes` (appending a line and
  removing as many statements gives back the same sequence) makes a rejected
  line a stutter; every other way a line can go is `Accept`, because all of them
  keep the line and only after it has been checked; `RunFile` is `Open`. What
  `TypeChecks` computes does not matter to the proof.
* `SessionFreshSupportedLower`: `FreshSupportedLower`. `TypeChecks` and lowering
  walk the statements by recursive functions (`Contexts`, `Modules`), whose
  equations are proved by a least counterexample. Where no name is declared twice,
  what a name means where it is checked is what it means where it is lowered, and
  the uses met from a statement go strictly back in the program, so that no
  inlining is for ever. Each declaration lowered on the way is one that some
  statement uses (`UsedIsSupported`), so its expression is supported. That an
  expression with the fate "lowers" does lower is not proved but what the fate
  says.
* `SessionReadsWhatIsReturned`, `SessionEvaluationGrows`,
  `SessionFailureIsForGood`: from the invariant `InStep`, by which what was
  executed goes with what is kept. The lemma `Continues` says that lowering a
  longer program begins by lowering the shorter one: it evaluates what that does,
  and fails if that does.

**String builtins.**

* `StringsProofs!InvariantHolds`: the inductive invariant of the builtins, one
  conjunct per place in the code. Each cell of a list points to the one after it
  (`AllChained`, kept because cells are only ever added); in `fromchars` the
  counter is the distance walked from the head, so that the second pass ends
  where the first did, and what is written so far are the chars so far; in
  `tochars` the pending calls and the cells made are together the string; `+`
  and `readin` know what is in their buffer and that it has room for the rest.
* From it `StringsTypeCorrect`, `AlwaysMemorySafe`, `AllStringsEnd`,
  `CharsAreCopied`, `Concatenation`, and `RoundTrips`: `fromchars` of the
  `tochars` of a string is that string. `strlen` and `strcspn` are a CHOOSE of
  the first end; that there is one in a terminated string is the least-number
  principle, taken from the well-foundedness of `<` on the naturals.
* `ReadsFollow`: `ReadsInOrder`. The invariant ties the position in the input to
  the last read of the history, and the buffer between the read and the cut to
  the bytes it was given.

**Structural equality.**

* `EqualityProofs!HelpersMatchTypes`: `OneHelperPerType`. The invariant
  `HelpersAgree` holds in the middle of lowering: the registry is one-to-one onto
  the numbers counted, a helper is either being lowered, once, or emitted, and
  whatever has been lowered of a helper calls helpers of the types it is called
  for.
* `AnswersAreEquality`: `AnswersEquality`, for lists of any length and enums of
  any depth. `PartsAgree` says that what a helper has been given to compare and
  what is left for it are the parts of its type in order; `FlattenAt` places the
  fields of a variant among the parts of its enum. `RunAgrees` says what the
  calls that have not returned have found out: the parts compared are the same,
  so the values compared are equal exactly if the part each call has come to, and
  the parts behind it, are. `Return` and the last comparison then give the answer.
* `NothingNullIsLoaded`, from the same invariant: no head, tail or payload is
  loaded of a value that has none.

**Layout.**

* `LayoutProofs!StructSizeMonotone` and `StoresFit`: if the sizes and
  alignments the code generator assumes for a struct's fields are nowhere smaller
  than LLVM's, neither is the struct, and every field LLVM places is inside the
  bytes allocated, for structs of any number of fields. Alignments are 1, 2, 4
  and 8: each divides every larger one, without which rounding up would not be
  monotone.
* `NeverUnderestimated`: hence no type's size or alignment is underestimated,
  by induction over the nesting of types. Sizes are recursive functions on
  `Types`, whose equations `RecursionOverTypes` proves for each from the depth of
  a type, and `TypeInduction` is the induction, stated over sets of types.
* `FieldsStayInside`: `FieldsFit`, for payloads, cells and environments. The
  invariant `ObjectsInv` says of each object how many bytes it was given and that
  every field stored is where LLVM's struct has it.
* `WalkFollowsTails`: `WalksTheList`. No later store touches the bytes of a tail,
  and offset 8 is where LLVM puts it behind a head of 1 to 8 bytes.

**Tail calls.**

* `TailCallsProofs!BehaviorLoopInv`: the inductive invariant `LoopInv`. Neither
  property is inductive: whether a jump is right depends on what the body has
  bound since it was entered, and whether a call may stay a call on whether the
  filter found it. `LoopInv` says of every activation that (`Gives`) what it will
  return is what the call below it evaluates to, the first one's what the
  program does; and that (`FindsHeader`) as long as the name of its lambda still
  means that lambda, a tail call of it from here is one the filter has seen from
  the body's beginning. The latter is kept because what is bound on the way is a
  value or a lambda nested less deep, hence another one. A call opens an
  activation that gives what the call evaluates to; a jump replaces what is
  left of the body by another activation's beginning, and gives the same because
  with `WellNamed` a symbol tells the specialization, so that header and
  arguments are those of the call; a return hands the value on.
* `Means` is the reference without a bound: a configuration means what some
  `Eval[n]` has, and `MeansOne` says that it is one value. `Eval` and
  `TailCallsOf` are recursive functions whose equations are proved from the depth
  of the recursion and of the syntax.
* `BehaviorConstantStack` and `BehaviorLoopIsRecursion` follow, and
  `BehaviorResultIsValue`: if the program ends with loops, the recursion ends, and
  with that value. The converse, `Ends`, is liveness and stays with the run.

**Matches.**

* `MatchingProofs!TestDecides`: `Cond` is "yes" or "no" as `Matched` is, and
  never "fault", for any pattern and any value of its type. By induction over the
  depth of patterns (`PatternInduction`, over sets of patterns): where a value
  passes the guard it was made as the pattern is, hence its parts are there and
  of their types; where it does not, no part is loaded.
* `BindsPlaces`: `Destructure` of a value that is matched binds exactly what is
  in the `Places` of the names; the parts that are skipped have no names in them
  (`NoPlaces`). `FlattenElements` says what is in a flattened sequence.
* `SpecRunInv`: the inductive invariant `RunInv`. The cases passed over do not
  match; a case taken after its test does, and has the environment of its
  bindings; only the last case faults, and then it does not match. It needs no
  `Covered`: where the cases do not cover the type it says what goes wrong, and
  where.
* `SpecFirstMatch`, `SpecNoNullLoads`, `SpecBindsTheParts`: with `Covered`, some
  case matches, and if none before the last does it is the last, so the lack of
  a test is no loss.
* `Cond`, `Destructure`, `Matched`, `Places` and `NamesOf` are recursive
  functions. That there is one with each equation is proved from the depth of
  patterns (`Recursion`, a least counterexample), likewise for the concatenation
  behind `FlattenSeq`.

**Only model-checked.**

* `Termination`, `BuiltinsReturn`, `Ends` (of `Equality` and of `TailCalls`):
  liveness under fairness, which the prover does not reach.
* The properties of the type checker: `algo_w`, `unify` and the typing rules are
  recursion over syntax, types and substitutions, written with RECURSIVE
  operators; that they compute what the rules say is induction over data. So is
  that the matches they accept are `WellTyped`, which TLC evaluates, and
  `FieldsReached`, which speaks of what an expression is built to.
* `RedeclaredMeans`, which speaks of the registries of every shorter program.

## 5. Further disagreements

These were met while modelling and have no run of their own. The operand is an
operator of the module, to be given as `Programs` (or as the constant named) in a
configuration like those of the runs above (`Capturing.cfg` for
`MCLoweringFindings`), the property an operator beside it, an INVARIANT but for
`SchemesStable` and `RegistryNamesUnique`, which are PROPERTYs.

| operand | property | what happens |
|---|---|---|
| `MCLoweringFindings!ShadowingPrograms` | `LocalShadowsTopLevel` | a parameter called like a top-level lambda, applied, is taken for the lambda (`codegen/apply.rs:498`) |
| `MCLoweringFindings!SuppliedPrograms` | `SuppliedArgumentsKeepTheirMeaning` | a supplied argument called like a parameter left over is taken for it (`codegen/apply.rs:672`) |
| `MCLoweringFindings!OverappliedPrograms` | `PartialMeansFewer` | more arguments than parameters: slice out of range (`codegen/apply.rs:649`) |
| `MCLoweringFindings!RedefinedPrograms` | `RedefinitionOverwrites` | a function declared again after it was used is not reached: the specialization cached under its name is (`codegen/apply.rs:324`) |
| `MCLoweringFindings!ReinliningPrograms` | `InliningFindsTheLambda` | a binding named like the lambda at its root is inlined for ever (`codegen/apply.rs:113`) |
| `MCLoweringFindings!SiblingPrograms` | `LocalLambdasAreInScope` | a local lambda cannot call another one (`codegen/apply.rs:373`) |
| `MCLoweringFindings!RegistryPrograms` | `RegistryNamesUnique` | a program's own `let_0` is overwritten (`codegen/apply.rs:135`) |
| `MCTypechecking!ScopePrograms` | `SoundInference` | a name bound by a `let` is in scope after it (`types.rs:815`) |
| `MCTypechecking!CasePrograms` | `SoundInference` | a constraint of a constructor pattern is lost (`types.rs:1218`, `:258`) |
| `MCTypechecking!NullaryPrograms` | `SoundInference` | `None` is a variable where the scrutinee's type is unknown (`types.rs:663`) |
| `MCTypechecking!OperandPrograms` | `SoundInference` | `(\x => x + x) [1]` is accepted (`types.rs:941`) |
| `MCTypechecking!ComparePrograms` | `SoundInference` | `[] == [1]` is accepted (`types.rs:967`) |
| `MCTypechecking!RowPrograms` | `PrincipalTypes` | two records with one row variable do not unify (`types.rs:478`) |
| `MCTypechecking!VariablePrograms` | `SchemesStable` | a variable `'t2` in an annotation is a bound variable of an earlier polytype (`types.rs:380`) |
| `MCTypechecking!ElementPrograms` | `SoundInference` | `\x => [x, itostr x]` is a list of an int and a string (`types.rs:892`) |
| `MCTypechecking!BlockPrograms` | `PrincipalTypes` | a function with a declaration in its body is not polymorphic (`types.rs:876`) |
| `MCTypechecking!OverwrittenPrograms` | `SchemesStable` | a `let` inside a function changes the type of the top-level name it hides (`types.rs:815`) |
| `MCTypechecking!NestedPrograms` | `MatchesCover` | `match Some(0) \| Some(1) => 1 \| None => 1` is accepted (`types.rs:702`) |
| `MCTypechecking!CyclicPrograms` | `Terminates` | two substitutions without a cycle are composed to one with a cycle (`types.rs:260`) |
| `MCReplSession!RedeclaringLines` as `Lines`, `MaxStatements = 5` | `RedeclarationOverwrites` | a function declared again in a session is not reached by the next line (`codegen/apply.rs:324`) |
| `MCEquality!NestedAsked` as `Asked` | `RecursionDescends` | an enum that holds itself at a larger type makes helpers without end (`codegen/equality.rs:5`) |
| `MCStrings!TwoLines` as `Inputs` | `LinesFollow` | what a read gave behind the newline is lost (`codegen/stmt.rs:850`) |
| `MCLayout!Wide` as `Elements` | `WalksTheList` | the tail of a cell with a wide head is not at offset 8 (`execute.rs:196`) |

`merlin --prelude` without a file starts a session without the prelude
(`main.rs:33`, action `StartBare`); `README.md` describes the option as "Load the
standard prelude (for REPL sessions)".

## 6. Plan

Done: name resolution and specialization, the session and the driver, the string
builtins, equality, layout, matches and tail calls, each with proofs of its safety
properties (but `RedeclaredMeans` and `FieldsReached`); the type checker against
its rules, model-checked. What could follow, in this order:

1. `Lowering`, extended: initializers that mention the name they bind.
2. `Matching` on scrutinees that are bound by an outer match, so that nested
   matches and the case chain in tail position run one after the other.
3. `unify` and `algo_w` as recursive functions over bounded types, so that at
   least what unification returns can be proved.

**Not modelled.**

* The parser and the AST: generated from a grammar, no state.
* The prelude's contents and the display of types: library code and formatting.
* The builtins other than `fromchars`, `tochars`, `readin` and `+`: each is one
  call of libc or one conversion and keeps nothing.
* The instructions emitted for arithmetic and the types MLIR gives values. The
  verifier may refuse what the models let through: a `with` or an access on a
  record of another layout whose fields differ in their types is one such module.
* MLIR's passes, LLVM, the execution engine and `cc`: external; what the code
  relies on is stated at `Verifies`, `Links` and `LLVMSize`.
* Memory is never freed by compiled programs, and running out of it or of stack
  has no state in the models, except where `ConstantStack` bounds the latter.
* `treesitter/`: editor support.
