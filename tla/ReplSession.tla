---------------------------- MODULE ReplSession -----------------------------
(***************************************************************************)
(* A run of the program from its command line (src/src/main.rs) through a  *)
(* session of the read-eval-print loop (src/src/repl.rs).  Every line is   *)
(* appended to the statements kept so far, and all of them are checked,    *)
(* lowered and executed again from nothing.                                *)
(*                                                                         *)
(* A statement is abstracted to its form, the name it declares, its type,  *)
(* the names it uses with the types it uses them at, and whether the code  *)
(* generator supports the rest of its expression.  Checking is one pass    *)
(* that looks names up in the context as it is then (polymorphism is the   *)
(* business of module Typechecking: here a use has the type of the         *)
(* declaration).  Lowering registers functions and lowers their bodies at  *)
(* their first use, with the registries as they are THEN (locals and       *)
(* captures are the business of module Lowering).  So the two can disagree *)
(* about the meaning of a name, and an expression that is refused may be   *)
(* so lines after it was read; what comes of either is seen only across    *)
(* the lines of a session.                                                 *)
(***************************************************************************)
EXTENDS Integers, Sequences, FiniteSets, SequencesExt

CONSTANTS
  Names,          \* identifiers
  Types,          \* types of expressions
  FnTypes,        \* those whose head is `->`
  ReadableTypes,  \* those execute.rs reads back
  BuiltinType,    \* the type of each builtin
  Externs,        \* the C functions declared in every module
  Statements,     \* the statements considered
  Lines,          \* the contents of an input line that parses
  Files,          \* the contents of a source file that parses
  Prelude,        \* the statements of prelude.mln
  MaxStatements   \* bound on the statements of a session

Forms == {"lambda", "apply", "other", "expr", "typedecl"}
Nothing == "nothing"  \* no type, no name, no invocation yet
Builtins == DOMAIN BuiltinType

\* What becomes of an expression when it is lowered and its names mean what
\* the checker took them for: it becomes code that the verifier accepts, it is
\* refused (a closure with captures or a constructor as a value, a partial
\* application of a value, a local lambda used by another, a catch-all before
\* the last case, ...), or there is a panic (more arguments than parameters).
Fates == {"lowers", "refused", "panics"}

\* The fate of a lambda is that of its body.
StatementShape ==
  [form : Forms \cup {"builtin"}, name : Names \cup {Nothing},
   type : Types \cup {Nothing}, uses : SUBSET (Names \X Types), fate : Fates]

ASSUME SessionAssumption ==
  /\ FnTypes \subseteq Types
  /\ Nothing \notin FnTypes
  /\ Statements \subseteq StatementShape
  /\ \A s \in Statements : s.form = "lambda" => s.type \in FnTypes
  /\ Lines \subseteq Seq(Statements)
  /\ Files \subseteq Seq(Statements)
  /\ Prelude \in Seq(Statements)

\* `let`: the form is that of the initializer, a lambda, an application or other
IsLet(s) == s.form \in {"lambda", "apply", "other"}

-----------------------------------------------------------------------------
(* Type checking: Program::typecheck *)

InitialContext == [ok |-> TRUE, values |-> BuiltinType, types |-> {}]

\* The name of a `let` is in scope in its own initializer.
CheckStatement(ctx, s) ==
  LET scope == IF IsLet(s)
               THEN [n \in DOMAIN ctx.values \cup {s.name} |->
                       IF n = s.name THEN s.type ELSE ctx.values[n]]
               ELSE ctx.values
  IN  [ok |-> /\ ctx.ok
              /\ s.name \notin (IF IsLet(s) THEN Builtins ELSE ctx.types)
              /\ \A u \in s.uses : u[1] \in DOMAIN scope /\ scope[u[1]] = u[2],
       values |-> scope,
       types |-> IF s.form = "typedecl" THEN ctx.types \cup {s.name} ELSE ctx.types]

\* The context after the first k statements.
Contexts(stmts) ==
  LET after[k \in 0..Len(stmts)] ==
        IF k = 0 THEN InitialContext ELSE CheckStatement(after[k - 1], stmts[k])
  IN  after

TypeChecks(stmts) == Contexts(stmts)[Len(stmts)].ok

WellTyped == {p \in Seq(Statements) : TypeChecks(p)}

-----------------------------------------------------------------------------
(* Lowering: codegen::lower *)

\* `functions` are the func.funcs named by the program, in order; those
\* lowering makes up names for do not clash (module Lowering).  `entry` are
\* the expression statements in the block of @__main.
EmptyModule ==
  [status |-> "ok", mistyped |-> FALSE,
   abstractions |-> <<>>, inlineable |-> <<>>, specializations |-> <<>>,
   symbols |-> [b \in Builtins |->
                  [form |-> "builtin", name |-> b, type |-> BuiltinType[b], uses |-> {},
                   fate |-> "lowers"]],
   types |-> {}, functions |-> <<>>, entry |-> <<>>, returns |-> Nothing, recorded |-> Nothing]

Bind_KeepOld(registry, key, s) ==
  IF key \in DOMAIN registry THEN registry
  ELSE [k \in DOMAIN registry \cup {key} |-> IF k = key THEN s ELSE registry[k]]
Bind(registry, key, s) ==
  [k \in DOMAIN registry \cup {key} |-> IF k = key THEN s ELSE registry[k]]

Inlined(m, u) == u[1] \in DOMAIN m.inlineable
Registered(m, u) == ~Inlined(m, u) /\ u[1] \in DOMAIN m.abstractions
Cached(m, u) == u \in DOMAIN m.specializations

\* A use of a name that lower_variable cannot resolve: nothing is registered
\* under it, or a lambda that cannot be specialized at the type of the use.
Unresolved(m, u) ==
  IF Registered(m, u)
  THEN \/ u[2] \notin FnTypes
       \/ (~Cached(m, u) /\ m.abstractions[u[1]].type # u[2])
  ELSE ~Inlined(m, u) /\ u[1] \notin DOMAIN m.symbols

\* The declaration a use is compiled to.
Reached(m, u) ==
  CASE Inlined(m, u) -> m.inlineable[u[1]]
    [] Registered(m, u) /\ Cached(m, u) -> m.specializations[u]
    [] Registered(m, u) /\ ~Cached(m, u) -> m.abstractions[u[1]]
    [] OTHER -> m.symbols[u[1]]

\* What is lowered on the way: an inlined right-hand side each time, a
\* lambda's body the first time.
Expansion(m, u) == IF Inlined(m, u) THEN m.inlineable[u[1]].uses ELSE {}
Body(m, u) ==
  IF Registered(m, u) /\ ~Cached(m, u) THEN m.abstractions[u[1]].uses ELSE Expansion(m, u)

\* The uses met from some uses in so many rounds, where more[u] are those
\* met next after u.
Met(more, uses, rounds) ==
  LET met[i \in 0..rounds] ==
        IF i = 0 THEN uses ELSE met[i - 1] \cup UNION {more[u] : u \in met[i - 1]}
  IN  met[rounds]

Uses == Names \X Types
Rounds(m) == Cardinality(DOMAIN m.abstractions) + Cardinality(DOMAIN m.inlineable)
Lowered(m, uses) == Met([u \in Uses |-> Body(m, u)], uses, Rounds(m))
Expanded(m, uses) == Met([u \in Uses |-> Expansion(m, u)], uses, Rounds(m))

\* An inlined binding met again while it is expanded is expanded for ever.
Endless(m, u) == u[1] \in {v[1] : v \in Expanded(m, Expansion(m, u))}

\* The declarations whose right-hand side or body is lowered with the uses.
Compiled(m, uses) ==
  {Reached(m, u) : u \in {v \in uses : Inlined(m, v) \/ (Registered(m, v) /\ ~Cached(m, v))}}

\* Lowers the expression of a statement and what it leads to.  Where one use
\* or expression is an error and another ends the process, the latter counts.
LowerUses(m, s) ==
  LET all == Lowered(m, s.uses)
      fresh == {u \in all : Registered(m, u) /\ ~Cached(m, u)}
      fates == {d.fate : d \in {s} \cup Compiled(m, all)}
  IN  IF \E u \in all : Endless(m, u) THEN [m EXCEPT !.status = "endless"]
      ELSE IF "panics" \in fates THEN [m EXCEPT !.status = "panic"]
      ELSE IF "refused" \in fates \/ \E u \in all : Unresolved(m, u)
      THEN [m EXCEPT !.status = "error"]
      ELSE [m EXCEPT
              !.mistyped = @ \/ \E u \in all : Reached(m, u).type # u[2],
              !.specializations =
                 [u \in fresh \cup DOMAIN @ |->
                    IF u \in fresh THEN m.abstractions[u[1]] ELSE m.specializations[u]]]

\* A function-valued application is kept for inlining.
IsInlineable_AnyApplication(s) == s.form = "apply"
IsInlineable(s) == s.form = "apply" /\ s.type \in FnTypes

\* Appends a nullary function and enters it in the symbols.
Emit_Unentered(m, s) == [m EXCEPT !.functions = Append(@, s.name)]
Emit(m, s) ==
  [m EXCEPT !.functions = Append(@, s.name), !.symbols = Bind(@, s.name, s)]

\* lower_decl
LowerLet(m, s) ==
  CASE s.form = "lambda" -> [m EXCEPT !.abstractions = Bind(@, s.name, s)]
    [] IsInlineable(s) -> [m EXCEPT !.inlineable = Bind(@, s.name, s)]
    [] OTHER -> LET l == LowerUses(m, s) IN
                IF l.status = "ok" THEN Emit(l, s) ELSE l

LowerTypeDecl(m, s) ==
  IF s.name \in m.types THEN [m EXCEPT !.status = "error"]
  ELSE [m EXCEPT !.types = @ \cup {s.name}]

\* One turn of the loop of `lower`.  An expression is put behind the others
\* in @__main, and it alone leaves a value to return.
LowerOne(m, s) ==
  LET l == CASE IsLet(s) -> LowerLet(m, s)
             [] s.form = "typedecl" -> LowerTypeDecl(m, s)
             [] OTHER -> LowerUses(m, s)
      value == IF s.form = "expr" THEN s.type ELSE Nothing
  IN  [l EXCEPT !.entry = IF s.form = "expr" THEN Append(@, s) ELSE @,
                !.returns = value, !.recorded = value]

\* The loop stops at the first error.
LowerStatement_NoBreak(m, s) == LowerOne([m EXCEPT !.status = "ok"], s)
LowerStatement(m, s) == IF m.status = "ok" THEN LowerOne(m, s) ELSE m

\* The module after the first k statements.
Modules(stmts) ==
  LET after[k \in 0..Len(stmts)] ==
        IF k = 0 THEN EmptyModule ELSE LowerStatement(after[k - 1], stmts[k])
  IN  after

Lower(stmts) == Modules(stmts)[Len(stmts)]

\* What the verifier requires of a finished module's symbols.
Verifies(m) ==
  /\ IsInjective(m.functions)
  /\ \A i \in 1..Len(m.functions) : m.functions[i] \notin Builtins \cup Externs

\* emit_main_wrapper adds @main.
Links(m) == Verifies(m) /\ "main" \notin {m.functions[i] : i \in 1..Len(m.functions)}

-----------------------------------------------------------------------------
(* The process *)

VARIABLES
  phase,        \* "start", then "exited", or "reading" and then "closed"
  accumulated,  \* accumulated_stmts
  outcome,      \* what was last printed, or the exit code
  invoked,      \* what was last executed
  evaluated     \* the expression statements @__main last evaluated

vars == <<phase, accumulated, outcome, invoked, evaluated>>

NoInvocation == [symbol |-> Nothing, reads |-> Nothing, returns |-> Nothing]

Init ==
  /\ phase = "start"
  /\ accumulated = <<>>
  /\ outcome = Nothing
  /\ invoked = NoInvocation
  /\ evaluated = <<>>

\* main without a file: the session starts empty, --prelude or not.
StartBare ==
  /\ phase = "start" /\ phase' = "reading"
  /\ UNCHANGED <<accumulated, outcome, invoked, evaluated>>

\* --help, or an unknown option, a file that cannot be read or parsed.
Decline ==
  /\ phase = "start" /\ phase' = "exited"
  /\ outcome' \in {"exit 0", "exit 1"}
  /\ UNCHANGED <<accumulated, invoked, evaluated>>

\* Without --repl the prelude is always there, with it only on request.
Loaded(file, repl, prelude) ==
  IF repl /\ ~prelude THEN file ELSE Prelude \o file

\* The stack overflows, or a panic unwinds: nothing catches either.
Dies(m) == m.status \in {"endless", "panic"}

\* A use at another type than that of what it reaches may be refused, or not.
MayFail(m) == m.status = "error" \/ (m.status = "ok" /\ m.mistyped)

\* main with a file that parses: checked, lowered, then compiled or kept.
\* Linking is done by `cc`, which may fail for reasons of its own.
RunFile(file, repl, prelude) ==
  LET program == Loaded(file, repl, prelude)
      m == Lower(program)
  IN  /\ phase = "start"
      /\ \/ /\ ~TypeChecks(program)
            /\ phase' = "exited" /\ outcome' = "exit 2" /\ UNCHANGED accumulated
         \/ /\ TypeChecks(program) /\ Dies(m)
            /\ phase' = "exited" /\ outcome' = m.status /\ UNCHANGED accumulated
         \/ /\ TypeChecks(program) /\ (MayFail(m) \/ (m.status = "ok" /\ ~repl))
            /\ phase' = "exited" /\ outcome' = "exit 3" /\ UNCHANGED accumulated
         \/ /\ TypeChecks(program) /\ m.status = "ok" /\ ~repl /\ Links(m)
            /\ phase' = "exited" /\ outcome' = "exit 0" /\ UNCHANGED accumulated
         \/ /\ TypeChecks(program) /\ m.status = "ok" /\ repl
            /\ phase' = "reading" /\ accumulated' = program /\ UNCHANGED outcome
      /\ UNCHANGED <<invoked, evaluated>>

-----------------------------------------------------------------------------
(* repl_loop: one action per way a line can go *)

\* End of input, `exit`, or a read error.
Quit ==
  /\ phase = "reading" /\ phase' = "closed"
  /\ UNCHANGED <<accumulated, outcome, invoked, evaluated>>

SkipLine ==
  /\ phase = "reading"
  /\ outcome' \in {"blank", "parse error"}
  /\ UNCHANGED <<phase, accumulated, invoked, evaluated>>

\* The line that parses is appended to what is kept.
Extended(line) == accumulated \o line
Reading(line) == phase = "reading" /\ Len(Extended(line)) <= MaxStatements

\* Truncation is by the number of statements of the line.
Truncated_ByOne(line) == SubSeq(Extended(line), 1, Len(Extended(line)) - 1)
Truncated(line) == SubSeq(Extended(line), 1, Len(Extended(line)) - Len(line))

RejectLine(line) ==
  /\ Reading(line) /\ ~TypeChecks(Extended(line))
  /\ accumulated' = Truncated(line)
  /\ outcome' = "type error"
  /\ UNCHANGED <<phase, invoked, evaluated>>

\* From here on the line is kept, whatever becomes of it.
Keep(line) ==
  /\ Reading(line) /\ TypeChecks(Extended(line))
  /\ accumulated' = Extended(line)

IsFunction(stmts) == stmts # <<>> /\ IsLet(Last(stmts)) /\ Last(stmts).type \in FnTypes

\* The binding to execute, if the last statement is one.
Target_Unnamed(stmts) ==
  IF stmts = <<>> THEN Nothing ELSE IF IsLet(Last(stmts)) THEN Last(stmts).name ELSE ""
Target(stmts) == IF stmts # <<>> /\ IsLet(Last(stmts)) THEN Last(stmts).name ELSE Nothing

\* execute: the function invoked, the type its result is read at, and the
\* type of what it returns.
Invocation(stmts, m) ==
  IF Target(stmts) = Nothing
  THEN [symbol |-> "__main", reads |-> m.recorded, returns |-> m.returns]
  ELSE [symbol |-> Target(stmts), reads |-> Last(stmts).type,
        returns |-> IF Target(stmts) \in DOMAIN m.symbols
                    THEN m.symbols[Target(stmts)].type ELSE "undefined"]

Readable(stmts, m) == Invocation(stmts, m).reads \in ReadableTypes \cup {Nothing}

FailToLower(line) ==
  /\ Keep(line) /\ MayFail(Lower(Extended(line)))
  /\ outcome' = "codegen error"
  /\ UNCHANGED <<phase, invoked, evaluated>>

Die(line) ==
  /\ Keep(line) /\ Dies(Lower(Extended(line)))
  /\ phase' = "closed" /\ outcome' = Lower(Extended(line)).status
  /\ UNCHANGED <<invoked, evaluated>>

DefineFunction(line) ==
  /\ Keep(line) /\ Lower(Extended(line)).status = "ok"
  /\ IsFunction(Extended(line))
  /\ outcome' = "function"
  /\ UNCHANGED <<phase, invoked, evaluated>>

FailToExecute(line) ==
  LET m == Lower(Extended(line)) IN
  /\ Keep(line) /\ m.status = "ok" /\ ~IsFunction(Extended(line))
  /\ ~Verifies(m) \/ m.mistyped \/ ~Readable(Extended(line), m)
  /\ outcome' = "execution error"
  /\ UNCHANGED <<phase, invoked, evaluated>>

\* @__main evaluates every expression statement of the session again.
EntryExpressions_OfTheLine(line) == Lower(line).entry
EntryExpressions(line) == Lower(Extended(line)).entry

Execute(line) ==
  LET m == Lower(Extended(line)) IN
  /\ Keep(line) /\ m.status = "ok" /\ ~IsFunction(Extended(line))
  /\ Verifies(m) /\ Readable(Extended(line), m)
  /\ outcome' = "value"
  /\ invoked' = Invocation(Extended(line), m)
  /\ evaluated' = IF Target(Extended(line)) = Nothing
                  THEN EntryExpressions(line)
                  ELSE evaluated
  /\ UNCHANGED phase

ReadLine ==
  \E line \in Lines :
    \/ RejectLine(line)
    \/ FailToLower(line)
    \/ Die(line)
    \/ DefineFunction(line)
    \/ FailToExecute(line)
    \/ Execute(line)

Next ==
  \/ StartBare
  \/ Decline
  \/ \E file \in Files, repl, prelude \in BOOLEAN : RunFile(file, repl, prelude)
  \/ Quit
  \/ SkipLine
  \/ ReadLine

Spec == Init /\ [][Next]_vars

-----------------------------------------------------------------------------
(* Properties *)

Outcomes ==
  {Nothing, "exit 0", "exit 1", "exit 2", "exit 3", "blank", "parse error", "type error",
   "codegen error", "endless", "panic", "function", "execution error", "value"}

\* Type invariant of the run: the phases, the exit codes and messages, that
\* what is kept is a sequence of statements, and that what is executed is
\* @__main or a name.
TypeOK ==
  /\ phase \in {"start", "exited", "reading", "closed"}
  /\ accumulated \in Seq(Statements)
  /\ outcome \in Outcomes
  /\ invoked.symbol \in Names \cup {"__main", Nothing}

Log == INSTANCE SessionLog WITH
         Lines <- Lines, WellTyped <- WellTyped, log <- accumulated,
         open <- phase \in {"reading", "closed"}

\* What the session keeps is a log: it starts as a well-typed program and
\* each line leaves it as it was or adds all of its statements to a program
\* that is well typed with them.  This is about the truncation by count after
\* a type error (repl.rs:61), about what is kept after any other error
\* (repl.rs:64, :93), and about a session seeded from a file (main.rs:105).
KeepsALog == Log!Spec

\* No name is declared twice or taken from C, and only a lambda uses itself.
NamesAreFresh(stmts) ==
  /\ \A i, j \in 1..Len(stmts) :
       IsLet(stmts[i]) /\ IsLet(stmts[j]) /\ stmts[i].name = stmts[j].name => i = j
  /\ \A i \in 1..Len(stmts) :
       IsLet(stmts[i]) =>
         /\ stmts[i].name \notin Externs
         /\ stmts[i].form # "lambda" => \A u \in stmts[i].uses : u[1] # stmts[i].name

\* Every expression that is lowered is one the code generator supports: a
\* declaration that is only lowered where it is used may be any if it never is.
Supported(stmts) ==
  \A i \in 1..Len(stmts) :
    \/ stmts[i].fate = "lowers"
    \/ /\ stmts[i].form = "lambda" \/ IsInlineable(stmts[i])
       /\ \A j \in 1..Len(stmts) : \A u \in stmts[j].uses : u[1] # stmts[i].name

\* Names alone never break a session that declares each of them once: what was
\* checked statement by statement, with the names in scope at each, lowers and
\* verifies although functions are lowered late, with every name there is.  A
\* session that fails for good therefore declares a name again, takes one of C,
\* uses a value in its own initializer (stmt.rs:1479, apply.rs:240), or uses an
\* expression that is not supported, and not merely declares it.
FreshSupportedLower ==
  phase = "reading" /\ NamesAreFresh(accumulated) /\ Supported(accumulated) =>
    LET m == Lower(accumulated) IN m.status = "ok" /\ ~m.mistyped /\ Verifies(m)

\* The JIT reads the result of a function that exists, at the type it returns:
\* what the loop takes the last statement for (repl.rs:68-91), what lower_decl
\* compiled it to (stmt.rs:1438) and what `lower` says @__main returns
\* (stmt.rs:48) are decided apart and agree.
ReadsWhatIsReturned == invoked.reads = invoked.returns

\* The statements evaluated by @__main are those it evaluated the last time,
\* in the same order, followed by new ones: no rejected line and no failure in
\* between makes an evaluated statement vanish or move (repl.rs:61, :102).
EvaluationGrows == [][IsPrefix(evaluated, evaluated')]_vars

\* Once what is kept does not lower, no later line is executed or defines
\* anything: the statement that failed is lowered again, before the new ones
\* (repl.rs:93, stmt.rs:56).  This is about lowering alone: a line that lowers
\* and cannot be executed does not keep the next one from being executed.
FailureIsForGood ==
  [][phase = "reading" /\ Lower(accumulated).status = "error"
       => outcome' \notin {"function", "value", "execution error"}]_vars

\* The declarations of a name, by their place: those kept for inlining, the
\* lambdas, and those that are functions of their own.
DeclarationsOf(stmts, name) == {i \in 1..Len(stmts) : IsLet(stmts[i]) /\ stmts[i].name = name}
InlinedOf(stmts, name) == {i \in DeclarationsOf(stmts, name) : IsInlineable(stmts[i])}
LambdasOf(stmts, name) == {i \in DeclarationsOf(stmts, name) : stmts[i].form = "lambda"}

\* The place of the first statement that lowered a body for the use.
FirstLowering(stmts, u) ==
  Min({k \in 1..Len(stmts) : u \in DOMAIN Modules(stmts)[k].specializations})

\* What an evaluated name means when it was declared several times is settled
\* by its declarations alone: the last of those kept for inlining, whatever
\* came after; else the last lambda before the first line that called the name
\* at this type; else its only declaration, as a value bound twice is never
\* evaluated.  The registries are asked in the order apply.rs:209-246 and kept
\* as :326 and stmt.rs:1479 say, over all the lines of a session.
RedeclaredMeans ==
  outcome = "value" /\ accumulated # <<>> /\ Last(accumulated).form = "expr" =>
    \A u \in {v \in Last(accumulated).uses : v[1] \notin Builtins} :
      LET inlined == InlinedOf(accumulated, u[1])
          lambdas == LambdasOf(accumulated, u[1])
          meant == CASE inlined # {} -> Max(inlined)
                     [] inlined = {} /\ lambdas # {} ->
                          Max({i \in lambdas : i < FirstLowering(accumulated, u)})
                     [] OTHER -> Max(DeclarationsOf(accumulated, u[1]))
      IN  /\ Reached(Lower(accumulated), u) = accumulated[meant]
          /\ inlined = {} /\ lambdas = {} => DeclarationsOf(accumulated, u[1]) = {meant}

\* The declaration a name refers to at the end of a program.
Latest(stmts, name) ==
  Last(SelectSeq(stmts, LAMBDA s : IsLet(s) /\ s.name = name))

\* A name that is declared again means the new declaration from then on: "a
\* user `let map` overwrites" (plans/builtins-and-prelude.md:147-149).  It does
\* not where the old one was already specialized, kept for inlining, or
\* a lambda and the new one is not (apply.rs:210-219, :324).
RedeclarationOverwrites ==
  outcome = "value" /\ accumulated # <<>> /\ Last(accumulated).form = "expr" =>
    \A u \in Last(accumulated).uses :
      u[1] \notin Builtins => Reached(Lower(accumulated), u) = Latest(accumulated, u[1])
=============================================================================
