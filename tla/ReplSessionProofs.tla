------------------------- MODULE ReplSessionProofs --------------------------
(***************************************************************************)
(* Proofs about ReplSession, for any statements, lines, files and prelude. *)
(***************************************************************************)
EXTENDS ReplSession, SequenceTheorems, FiniteSetTheorems, WellFoundedInduction, TLAPS

(* What is kept and what was executed are as TypeOK says, and nothing is   *)
(* kept before the session begins.                                         *)
Kept ==
  /\ TypeOK
  /\ phase \in {"start", "exited"} => accumulated = <<>>

(* Appending a line and truncating by its length gives back what was kept. *)
LEMMA TruncationUndoes ==
  ASSUME accumulated \in Seq(Statements), NEW line \in Seq(Statements)
  PROVE  Truncated(line) = accumulated
<1> DEFINE whole == accumulated \o line
           cut == SubSeq(whole, 1, Len(accumulated))
<1>1. /\ whole \in Seq(Statements)
      /\ Len(whole) - Len(line) = Len(accumulated)
      /\ \A i \in 1 .. Len(accumulated) : whole[i] = accumulated[i]
  BY ConcatProperties
<1>2. /\ cut \in Seq(Statements)
      /\ Len(cut) = Len(accumulated)
      /\ \A i \in 1 .. Len(accumulated) : cut[i] = accumulated[i]
  <2>1. \A i \in 1 .. Len(accumulated) : whole[i] \in Statements
    BY <1>1
  <2> QED  BY <1>1, <2>1
<1>3. cut = accumulated
  BY <1>2
<1> QED  BY <1>1, <1>3 DEF Truncated, Extended

(* A line that parses extends what is kept to a sequence of statements.    *)
LEMMA ExtendedIsProgram ==
  ASSUME TypeOK, NEW line \in Lines
  PROVE  line \in Seq(Statements) /\ Extended(line) \in Seq(Statements)
  BY SessionAssumption DEF TypeOK, Extended

(* What is executed is @__main or a name of the program.                   *)
LEMMA InvocationIsNamed ==
  ASSUME NEW stmts \in Seq(Statements), NEW m
  PROVE  Invocation(stmts, m).symbol \in Names \cup {"__main", Nothing}
<1>1. CASE Target(stmts) = Nothing
  BY <1>1 DEF Invocation
<1>2. CASE Target(stmts) # Nothing
  <2>1. stmts # <<>> /\ Target(stmts) = Last(stmts).name
    BY <1>2 DEF Target
  <2>2. Last(stmts) \in Statements
    BY <2>1 DEF Last
  <2>3. Last(stmts).name \in Names \cup {Nothing}
    BY <2>2, SessionAssumption DEF StatementShape
  <2> QED  BY <1>2, <2>1, <2>3 DEF Invocation
<1> QED  BY <1>1, <1>2

(* The program a file is loaded as is a sequence of statements.            *)
LEMMA LoadedIsProgram ==
  ASSUME NEW file \in Files, NEW repl \in BOOLEAN, NEW prelude \in BOOLEAN
  PROVE  Loaded(file, repl, prelude) \in Seq(Statements)
  BY SessionAssumption DEF Loaded

LEMMA KeptInitially == Init => Kept
  BY DEF Init, Kept, TypeOK, NoInvocation, Outcomes

LEMMA KeptInductive == Kept /\ [Next]_vars => Kept'
<1> SUFFICES ASSUME Kept, [Next]_vars PROVE Kept'
  OBVIOUS
<1> USE DEF Kept, TypeOK, Outcomes
<1>1. CASE StartBare
  BY <1>1 DEF StartBare
<1>2. CASE Decline
  BY <1>2 DEF Decline
<1>3. ASSUME NEW file \in Files, NEW repl \in BOOLEAN, NEW prelude \in BOOLEAN,
             RunFile(file, repl, prelude)
      PROVE  Kept'
  BY <1>3, LoadedIsProgram DEF RunFile, Dies
<1>4. CASE Quit
  BY <1>4 DEF Quit
<1>5. CASE SkipLine
  BY <1>5 DEF SkipLine
<1>6. ASSUME NEW line \in Lines, RejectLine(line)
      PROVE  Kept'
  <2>1. line \in Seq(Statements)
    BY ExtendedIsProgram
  <2>2. Truncated(line) = accumulated
    BY <2>1, TruncationUndoes
  <2> QED  BY <1>6, <2>2 DEF RejectLine
<1>7. ASSUME NEW line \in Lines,
             \/ FailToLower(line) \/ Die(line)
             \/ DefineFunction(line) \/ FailToExecute(line)
      PROVE  Kept'
  <2>1. Extended(line) \in Seq(Statements)
    BY ExtendedIsProgram
  <2> QED
    BY <1>7, <2>1
       DEF Keep, Reading, FailToLower, Die, Dies, DefineFunction, FailToExecute
<1>8. ASSUME NEW line \in Lines, Execute(line)
      PROVE  Kept'
  <2>1. Extended(line) \in Seq(Statements)
    BY ExtendedIsProgram
  <2>2. invoked'.symbol \in Names \cup {"__main", Nothing}
    BY <1>8, <2>1, InvocationIsNamed DEF Execute
  <2> QED  BY <1>8, <2>1, <2>2 DEF Keep, Reading, Execute
<1>9. CASE UNCHANGED vars
  BY <1>9 DEF vars
<1> QED
  BY <1>1, <1>2, <1>3, <1>4, <1>5, <1>6, <1>7, <1>8, <1>9 DEF Next, ReadLine

LEMMA AlwaysKept == Spec => []Kept
  BY KeptInitially, KeptInductive, PTL DEF Spec

(* What is kept is a sequence of statements whatever lines are read, the   *)
(* exit codes and messages are those main.rs and repl.rs print, and what   *)
(* is executed (execute.rs:81) is @__main or a name of the program.        *)
THEOREM SessionTypeCorrect == Spec => []TypeOK
  BY AlwaysKept, PTL DEF Kept

-----------------------------------------------------------------------------
LEMMA LogInitially == Init => Log!Init
  BY DEF Init, Log!Init

(* Each way a line can go (repl.rs:38-112) is a step of the log.           *)
LEMMA LogStep == Kept /\ [Next]_vars => [Log!Next]_Log!vars
<1> SUFFICES ASSUME Kept, [Next]_vars PROVE [Log!Next]_Log!vars
  OBVIOUS
<1> USE DEF Log!vars
<1>1. CASE StartBare
  BY <1>1 DEF StartBare, Kept, Log!Next, Log!Open
<1>2. CASE Decline
  <2>1. ~(phase \in {"reading", "closed"}) /\ ~(phase' \in {"reading", "closed"})
    BY <1>2 DEF Decline
  <2>2. UNCHANGED accumulated
    BY <1>2 DEF Decline
  <2> QED  BY <2>1, <2>2
<1>3. ASSUME NEW file \in Files, NEW repl \in BOOLEAN, NEW prelude \in BOOLEAN,
             RunFile(file, repl, prelude)
      PROVE  [Log!Next]_Log!vars
  <2>1. CASE phase' = "exited"
    <3>1. /\ ~(phase \in {"reading", "closed"}) /\ ~(phase' \in {"reading", "closed"})
          /\ UNCHANGED accumulated
      BY <1>3, <2>1 DEF RunFile
    <3> QED  BY <3>1
  <2>2. CASE phase' # "exited"
    <3>1. /\ phase = "start" /\ phase' = "reading"
          /\ accumulated' = Loaded(file, repl, prelude)
          /\ TypeChecks(Loaded(file, repl, prelude))
      BY <1>3, <2>2 DEF RunFile
    <3>2. accumulated' \in WellTyped
      BY <3>1, LoadedIsProgram DEF WellTyped
    <3> QED  BY <3>1, <3>2 DEF Log!Next, Log!Open
  <2> QED  BY <2>1, <2>2
<1>4. CASE Quit
  BY <1>4 DEF Quit
<1>5. CASE SkipLine
  BY <1>5 DEF SkipLine
<1>6. ASSUME NEW line \in Lines, RejectLine(line)
      PROVE  UNCHANGED Log!vars
  <2>1. Truncated(line) = accumulated
    BY ExtendedIsProgram, TruncationUndoes DEF Kept, TypeOK
  <2> QED  BY <1>6, <2>1 DEF RejectLine
<1>7. ASSUME NEW line \in Lines, Keep(line), phase' \in {"reading", "closed"}
      PROVE  Log!Accept(line)
  BY <1>7, ExtendedIsProgram
     DEF Kept, Keep, Reading, Extended, WellTyped, Log!Accept
<1>8. ASSUME NEW line \in Lines,
             \/ FailToLower(line) \/ Die(line) \/ DefineFunction(line)
             \/ FailToExecute(line) \/ Execute(line)
      PROVE  Log!Next
  <2>1. Keep(line) /\ phase' \in {"reading", "closed"}
    BY <1>8
       DEF FailToLower, Die, DefineFunction, FailToExecute, Execute,
           Keep, Reading
  <2> QED  BY <1>7, <2>1 DEF Log!Next
<1>9. CASE UNCHANGED vars
  BY <1>9 DEF vars
<1> QED
  BY <1>1, <1>2, <1>3, <1>4, <1>5, <1>6, <1>8, <1>9 DEF Next, ReadLine

(* The session implements the log: a line refused by the type checker      *)
(* leaves no trace, whatever the number of its statements, and any other   *)
(* is kept whole, also one that then fails to lower or to execute.         *)
THEOREM SessionKeepsALog == Spec => KeepsALog
<1>1. Spec => []Kept /\ Init /\ [][Next]_vars
  BY AlwaysKept DEF Spec
<1> QED
  BY <1>1, LogInitially, LogStep, PTL DEF KeepsALog, Log!Spec

-----------------------------------------------------------------------------
(* Checking and lowering go over a program one statement at a time: what   *)
(* the recursive functions Contexts, Modules and Met are.                  *)

LessThan == {pair \in Nat \X Nat : pair[1] < pair[2]}

(* Induction, for a set of numbers.                                        *)
LEMMA Counting ==
  ASSUME NEW n \in Nat, NEW G, 0 \in G, \A k \in 0 .. n - 1 : k \in G => k + 1 \in G
  PROVE  \A k \in 0 .. n : k \in G
<1> DEFINE T == {k \in 0 .. n : k \notin G}
<1> SUFFICES ASSUME T # {} PROVE FALSE
  OBVIOUS
<1>1. IsWellFoundedOn(LessThan, Nat)
  BY NatLessThanWellFounded DEF OpToRel, LessThan
<1>2. PICK m \in T : \A k \in T : <<k, m>> \notin LessThan
  <2>1. T \in SUBSET Nat
    OBVIOUS
  <2> HIDE DEF T
  <2> QED  BY <1>1, <2>1, WFMin
<1>3. m \in 1 .. n /\ m \notin G
  OBVIOUS
<1>4. m - 1 \in 0 .. n - 1 /\ m - 1 \in 0 .. n
  BY <1>3
<1>5. m - 1 \notin G
  <2>1. (m - 1) + 1 = m
    BY <1>3
  <2> QED  BY <1>3, <1>4, <2>1
<1>6. <<m - 1, m>> \in LessThan
  BY <1>3, <1>4 DEF LessThan
<1> QED  BY <1>2, <1>4, <1>5, <1>6

(* Both folds at once: f[k][1] is the context, f[k][2] the module.         *)
FoldsTo(f, stmts, k) ==
  /\ f[0] = <<InitialContext, EmptyModule>>
  /\ \A i \in 1 .. k : f[i] = <<CheckStatement(f[i - 1][1], stmts[i]),
                                LowerStatement(f[i - 1][2], stmts[i])>>

LEMMA FoldsExist ==
  ASSUME NEW n \in Nat, NEW stmts
  PROVE  \E f : FoldsTo(f, stmts, n)
<1> DEFINE G == {k \in 0 .. n : \E f : FoldsTo(f, stmts, k)}
<1>1. 0 \in G
  <2> DEFINE f == [i \in {0} |-> <<InitialContext, EmptyModule>>]
  <2>1. f[0] = <<InitialContext, EmptyModule>>
    OBVIOUS
  <2> HIDE DEF f
  <2>2. FoldsTo(f, stmts, 0)
    BY <2>1 DEF FoldsTo
  <2> QED  BY <2>2
<1>2. ASSUME NEW k \in 0 .. n - 1, k \in G
      PROVE  k + 1 \in G
  <2>1. PICK f : FoldsTo(f, stmts, k)
    BY <1>2
  <2>2. PICK v : v = <<CheckStatement(f[k][1], stmts[k + 1]),
                       LowerStatement(f[k][2], stmts[k + 1])>>
    OBVIOUS
  <2> DEFINE g == [i \in 0 .. k + 1 |-> IF i = k + 1 THEN v ELSE f[i]]
  <2>3. g[k + 1] = v /\ \A i \in 0 .. k : g[i] = f[i]
    OBVIOUS
  <2> HIDE DEF g
  <2>4. ASSUME NEW i \in 1 .. k + 1
        PROVE  g[i] = <<CheckStatement(g[i - 1][1], stmts[i]),
                        LowerStatement(g[i - 1][2], stmts[i])>>
    <3>1. CASE i = k + 1
      <4>1. i - 1 = k /\ k \in 0 .. k
        BY <3>1
      <4> QED  BY <2>2, <2>3, <3>1, <4>1
    <3>2. CASE i # k + 1
      <4>1. i \in 1 .. k /\ i \in 0 .. k /\ i - 1 \in 0 .. k
        BY <3>2
      <4> QED  BY <2>1, <2>3, <4>1 DEF FoldsTo
    <3> QED  BY <3>1, <3>2
  <2>5. g[0] = <<InitialContext, EmptyModule>>
    BY <2>1, <2>3 DEF FoldsTo
  <2>6. FoldsTo(g, stmts, k + 1)
    BY <2>4, <2>5 DEF FoldsTo
  <2>7. k + 1 \in 0 .. n
    OBVIOUS
  <2> QED  BY <2>6, <2>7
<1>3. n \in G
  <2> HIDE DEF G
  <2> QED  BY <1>1, <1>2, Counting
<1> QED  BY <1>3

LEMMA ContextsEquation ==
  ASSUME NEW stmts \in Seq(Statements)
  PROVE  /\ Contexts(stmts)[0] = InitialContext
         /\ \A k \in 1 .. Len(stmts) :
              Contexts(stmts)[k] = CheckStatement(Contexts(stmts)[k - 1], stmts[k])
<1> DEFINE Fixed(f) == f = [k \in 0 .. Len(stmts) |->
                              IF k = 0 THEN InitialContext
                              ELSE CheckStatement(f[k - 1], stmts[k])]
<1>1. Len(stmts) \in Nat
  OBVIOUS
<1>2. PICK f : FoldsTo(f, stmts, Len(stmts))
  BY <1>1, FoldsExist
<1> DEFINE c == [k \in 0 .. Len(stmts) |-> f[k][1]]
<1>3. Fixed(c)
  <2>1. c = [k \in 0 .. Len(stmts) |->
               IF k = 0 THEN InitialContext ELSE CheckStatement(c[k - 1], stmts[k])]
    <3> SUFFICES ASSUME NEW k \in 0 .. Len(stmts)
                 PROVE  c[k] = IF k = 0 THEN InitialContext
                               ELSE CheckStatement(c[k - 1], stmts[k])
      OBVIOUS
    <3>1. CASE k = 0
      BY <1>2, <3>1 DEF FoldsTo
    <3>2. CASE k # 0
      <4>1. k \in 1 .. Len(stmts) /\ k - 1 \in 0 .. Len(stmts)
        BY <1>1, <3>2
      <4>2. c[k - 1] = f[k - 1][1] /\ c[k] = f[k][1]
        BY <4>1
      <4> HIDE DEF c
      <4> QED  BY <1>2, <3>2, <4>1, <4>2 DEF FoldsTo
    <3> QED  BY <3>1, <3>2
  <2> QED  BY <2>1
<1>4. Contexts(stmts) = CHOOSE g : Fixed(g)
  BY DEF Contexts
<1>5. Fixed(Contexts(stmts))
  <2> HIDE DEF Fixed, c
  <2> QED  BY <1>3, <1>4
<1> DEFINE g == Contexts(stmts)
<1>6. g = [k \in 0 .. Len(stmts) |->
             IF k = 0 THEN InitialContext ELSE CheckStatement(g[k - 1], stmts[k])]
  <2> HIDE DEF g
  <2>1. Fixed(g)
    BY <1>5 DEF g
  <2> QED  BY <2>1
<1> HIDE DEF g, Fixed
<1>7. g[0] = InitialContext
  BY <1>1, <1>6
<1>8. \A k \in 1 .. Len(stmts) : g[k] = CheckStatement(g[k - 1], stmts[k])
  <2> SUFFICES ASSUME NEW k \in 1 .. Len(stmts)
               PROVE  g[k] = CheckStatement(g[k - 1], stmts[k])
    OBVIOUS
  <2>1. k \in 0 .. Len(stmts) /\ k # 0
    OBVIOUS
  <2> QED  BY <1>6, <2>1
<1> QED  BY <1>7, <1>8 DEF g

LEMMA ModulesEquation ==
  ASSUME NEW stmts \in Seq(Statements)
  PROVE  /\ Modules(stmts)[0] = EmptyModule
         /\ \A k \in 1 .. Len(stmts) :
              Modules(stmts)[k] = LowerStatement(Modules(stmts)[k - 1], stmts[k])
<1> DEFINE Fixed(f) == f = [k \in 0 .. Len(stmts) |->
                              IF k = 0 THEN EmptyModule
                              ELSE LowerStatement(f[k - 1], stmts[k])]
<1>1. Len(stmts) \in Nat
  OBVIOUS
<1>2. PICK f : FoldsTo(f, stmts, Len(stmts))
  BY <1>1, FoldsExist
<1> DEFINE c == [k \in 0 .. Len(stmts) |-> f[k][2]]
<1>3. Fixed(c)
  <2>1. c = [k \in 0 .. Len(stmts) |->
               IF k = 0 THEN EmptyModule ELSE LowerStatement(c[k - 1], stmts[k])]
    <3> SUFFICES ASSUME NEW k \in 0 .. Len(stmts)
                 PROVE  c[k] = IF k = 0 THEN EmptyModule
                               ELSE LowerStatement(c[k - 1], stmts[k])
      OBVIOUS
    <3>1. CASE k = 0
      BY <1>2, <3>1 DEF FoldsTo
    <3>2. CASE k # 0
      <4>1. k \in 1 .. Len(stmts) /\ k - 1 \in 0 .. Len(stmts)
        BY <1>1, <3>2
      <4>2. c[k - 1] = f[k - 1][2] /\ c[k] = f[k][2]
        BY <4>1
      <4> HIDE DEF c
      <4> QED  BY <1>2, <3>2, <4>1, <4>2 DEF FoldsTo
    <3> QED  BY <3>1, <3>2
  <2> QED  BY <2>1
<1>4. Modules(stmts) = CHOOSE g : Fixed(g)
  BY DEF Contexts
<1>5. Fixed(Modules(stmts))
  <2> HIDE DEF Fixed, c
  <2> QED  BY <1>3, <1>4
<1> DEFINE g == Modules(stmts)
<1>6. g = [k \in 0 .. Len(stmts) |->
             IF k = 0 THEN EmptyModule ELSE LowerStatement(g[k - 1], stmts[k])]
  <2> HIDE DEF g
  <2>1. Fixed(g)
    BY <1>5 DEF g
  <2> QED  BY <2>1
<1> HIDE DEF g, Fixed
<1>7. g[0] = EmptyModule
  BY <1>1, <1>6
<1>8. \A k \in 1 .. Len(stmts) : g[k] = LowerStatement(g[k - 1], stmts[k])
  <2> SUFFICES ASSUME NEW k \in 1 .. Len(stmts)
               PROVE  g[k] = LowerStatement(g[k - 1], stmts[k])
    OBVIOUS
  <2>1. k \in 0 .. Len(stmts) /\ k # 0
    OBVIOUS
  <2> QED  BY <1>6, <2>1
<1> QED  BY <1>7, <1>8 DEF g

(* What is met from some uses stays in any set that holds them and with    *)
(* each use those met next after it.                                       *)
MetBy(f, more, uses, k) ==
  /\ f[0] = uses
  /\ \A i \in 1 .. k : f[i] = f[i - 1] \cup UNION {more[u] : u \in f[i - 1]}

LEMMA MetExist ==
  ASSUME NEW n \in Nat, NEW more, NEW uses
  PROVE  \E f : MetBy(f, more, uses, n)
<1> DEFINE G == {k \in 0 .. n : \E f : MetBy(f, more, uses, k)}
<1>1. 0 \in G
  <2> DEFINE f == [i \in {0} |-> uses]
  <2>1. f[0] = uses
    OBVIOUS
  <2> HIDE DEF f
  <2>2. MetBy(f, more, uses, 0)
    BY <2>1 DEF MetBy
  <2> QED  BY <2>2
<1>2. ASSUME NEW k \in 0 .. n - 1, k \in G
      PROVE  k + 1 \in G
  <2>1. PICK f : MetBy(f, more, uses, k)
    BY <1>2
  <2>2. PICK v : v = f[k] \cup UNION {more[u] : u \in f[k]}
    OBVIOUS
  <2> DEFINE g == [i \in 0 .. k + 1 |-> IF i = k + 1 THEN v ELSE f[i]]
  <2>3. g[k + 1] = v /\ \A i \in 0 .. k : g[i] = f[i]
    OBVIOUS
  <2> HIDE DEF g
  <2>4. ASSUME NEW i \in 1 .. k + 1
        PROVE  g[i] = g[i - 1] \cup UNION {more[u] : u \in g[i - 1]}
    <3>1. CASE i = k + 1
      <4>1. i - 1 = k /\ k \in 0 .. k
        BY <3>1
      <4>2. g[i - 1] = f[k]
        BY <2>3, <4>1
      <4> QED  BY <2>2, <2>3, <3>1, <4>2
    <3>2. CASE i # k + 1
      <4>1. i \in 1 .. k /\ i \in 0 .. k /\ i - 1 \in 0 .. k
        BY <3>2
      <4>2. g[i - 1] = f[i - 1] /\ g[i] = f[i]
        BY <2>3, <4>1
      <4> QED  BY <2>1, <4>1, <4>2 DEF MetBy
    <3> QED  BY <3>1, <3>2
  <2>5. g[0] = uses
    BY <2>1, <2>3 DEF MetBy
  <2>6. MetBy(g, more, uses, k + 1)
    BY <2>4, <2>5 DEF MetBy
  <2>7. k + 1 \in 0 .. n
    OBVIOUS
  <2> QED  BY <2>6, <2>7
<1>3. n \in G
  <2> HIDE DEF G
  <2> QED  BY <1>1, <1>2, Counting
<1> QED  BY <1>3

LEMMA MetStays ==
  ASSUME NEW more, NEW uses, NEW rounds \in Nat, NEW C,
         uses \subseteq C, \A u \in C : more[u] \subseteq C
  PROVE  Met(more, uses, rounds) \subseteq C
<1> DEFINE Fixed(f) == f = [i \in 0 .. rounds |->
                              IF i = 0 THEN uses
                              ELSE f[i - 1] \cup UNION {more[u] : u \in f[i - 1]}]
<1>1. \E f : Fixed(f)
  <2>1. PICK f : MetBy(f, more, uses, rounds)
    BY MetExist
  <2> DEFINE g == [i \in 0 .. rounds |-> f[i]]
  <2>2. \A i \in 0 .. rounds : g[i] = f[i]
    OBVIOUS
  <2>3. ASSUME NEW i \in 0 .. rounds
        PROVE  g[i] = IF i = 0 THEN uses
                      ELSE g[i - 1] \cup UNION {more[u] : u \in g[i - 1]}
    <3> HIDE DEF g
    <3>1. CASE i = 0
      BY <2>1, <2>2, <3>1 DEF MetBy
    <3>2. CASE i # 0
      <4>1. i \in 1 .. rounds /\ i - 1 \in 0 .. rounds
        BY <3>2
      <4>2. g[i - 1] = f[i - 1] /\ g[i] = f[i]
        BY <2>2, <4>1
      <4> QED  BY <2>1, <3>2, <4>1, <4>2 DEF MetBy
    <3> QED  BY <3>1, <3>2
  <2>4. g = [i \in 0 .. rounds |-> g[i]]
    OBVIOUS
  <2> HIDE DEF g
  <2>5. Fixed(g)
    BY <2>3, <2>4
  <2> HIDE DEF Fixed
  <2> QED  BY <2>5
<1> DEFINE met == CHOOSE f : Fixed(f)
<1>2. Met(more, uses, rounds) = met[rounds]
  BY DEF Met
<1>3. Fixed(met)
  <2> HIDE DEF Fixed
  <2> QED  BY <1>1
<1> HIDE DEF met
<1> DEFINE G == {i \in 0 .. rounds : met[i] \subseteq C}
<1>4. 0 \in G
  <2>1. met[0] = uses
    BY <1>3
  <2> QED  BY <2>1
<1>5. ASSUME NEW k \in 0 .. rounds - 1, k \in G
      PROVE  k + 1 \in G
  <2>1. k + 1 \in 0 .. rounds /\ k + 1 # 0 /\ (k + 1) - 1 = k
    OBVIOUS
  <2>2. met[k + 1] = met[k] \cup UNION {more[u] : u \in met[k]}
    BY <1>3, <2>1
  <2> QED  BY <1>5, <2>1, <2>2
<1>6. rounds \in G
  <2> HIDE DEF G, Fixed
  <2> QED  BY <1>4, <1>5, Counting
<1> QED  BY <1>2, <1>6

-----------------------------------------------------------------------------
(* What one statement changes in the module.                               *)

IsModule(m) ==
  m = [status |-> m.status, mistyped |-> m.mistyped,
       abstractions |-> m.abstractions, inlineable |-> m.inlineable,
       specializations |-> m.specializations, symbols |-> m.symbols,
       types |-> m.types, functions |-> m.functions, entry |-> m.entry,
       returns |-> m.returns, recorded |-> m.recorded]

LEMMA EmptyIsModule == IsModule(EmptyModule)
  BY DEF IsModule, EmptyModule

(* Lowering an expression adds no declaration, function or statement.      *)
LEMMA LowerUsesKeeps ==
  ASSUME NEW m, IsModule(m), NEW s
  PROVE  LET l == LowerUses(m, s)
         IN  /\ IsModule(l)
             /\ l.abstractions = m.abstractions /\ l.inlineable = m.inlineable
             /\ l.symbols = m.symbols /\ l.types = m.types
             /\ l.functions = m.functions /\ l.entry = m.entry
<1> DEFINE all == Lowered(m, s.uses)
           fresh == {u \in all : Registered(m, u) /\ ~Cached(m, u)}
           wrong == \E u \in all : Reached(m, u).type # u[2]
           specs == [u \in fresh \cup DOMAIN m.specializations |->
                       IF u \in fresh THEN m.abstractions[u[1]] ELSE m.specializations[u]]
           done == [m EXCEPT !.mistyped = @ \/ wrong, !.specializations = specs]
<1>1. LowerUses(m, s) \in {[m EXCEPT !.status = "endless"], [m EXCEPT !.status = "panic"],
                           [m EXCEPT !.status = "error"], done}
  BY DEF LowerUses
<1> HIDE DEF specs, wrong
<1>2. ASSUME NEW l \in {[m EXCEPT !.status = "endless"], [m EXCEPT !.status = "panic"],
                        [m EXCEPT !.status = "error"], done}
      PROVE  /\ IsModule(l)
             /\ l.abstractions = m.abstractions /\ l.inlineable = m.inlineable
             /\ l.symbols = m.symbols /\ l.types = m.types
             /\ l.functions = m.functions /\ l.entry = m.entry
  BY <1>2 DEF IsModule
<1> QED  BY <1>1, <1>2

LEMMA EmitAdds ==
  ASSUME NEW m, IsModule(m), NEW s
  PROVE  LET l == Emit(m, s)
         IN  /\ IsModule(l)
             /\ l.status = m.status /\ l.mistyped = m.mistyped
             /\ l.abstractions = m.abstractions /\ l.inlineable = m.inlineable
             /\ l.specializations = m.specializations
             /\ l.symbols = Bind(m.symbols, s.name, s) /\ l.types = m.types
             /\ l.functions = Append(m.functions, s.name) /\ l.entry = m.entry
<1> DEFINE functions == Append(m.functions, s.name)
           symbols == Bind(m.symbols, s.name, s)
<1>1. Emit(m, s) = [m EXCEPT !.functions = functions, !.symbols = symbols]
  BY DEF Emit
<1> HIDE DEF functions, symbols
<1>2. PICK l : l = [status |-> m.status, mistyped |-> m.mistyped,
                    abstractions |-> m.abstractions, inlineable |-> m.inlineable,
                    specializations |-> m.specializations, symbols |-> symbols,
                    types |-> m.types, functions |-> functions, entry |-> m.entry,
                    returns |-> m.returns, recorded |-> m.recorded]
  OBVIOUS
<1>3. Emit(m, s) = l
  BY <1>1, <1>2 DEF IsModule
<1>4. /\ IsModule(l)
      /\ l.status = m.status /\ l.mistyped = m.mistyped
      /\ l.abstractions = m.abstractions /\ l.inlineable = m.inlineable
      /\ l.specializations = m.specializations
      /\ l.symbols = symbols /\ l.types = m.types
      /\ l.functions = functions /\ l.entry = m.entry
  BY <1>2 DEF IsModule
<1> QED  BY <1>3, <1>4 DEF functions, symbols

LEMMA KeepsAsLambda ==
  ASSUME NEW m, IsModule(m), NEW s, s.form = "lambda"
  PROVE  LET l == LowerLet(m, s)
         IN  /\ IsModule(l)
             /\ l.status = m.status /\ l.mistyped = m.mistyped
             /\ l.abstractions = Bind(m.abstractions, s.name, s)
             /\ l.inlineable = m.inlineable
             /\ l.specializations = m.specializations
             /\ l.symbols = m.symbols /\ l.types = m.types
             /\ l.functions = m.functions /\ l.entry = m.entry
<1> DEFINE abstractions == Bind(m.abstractions, s.name, s)
<1>1. LowerLet(m, s) = [m EXCEPT !.abstractions = abstractions]
  <2>1. ~ IsInlineable(s)
    BY DEF IsInlineable
  <2> QED  BY <2>1 DEF LowerLet
<1> HIDE DEF abstractions
<1> QED  BY <1>1 DEF IsModule, abstractions

LEMMA KeepsForInlining ==
  ASSUME NEW m, IsModule(m), NEW s, IsInlineable(s)
  PROVE  LET l == LowerLet(m, s)
         IN  /\ IsModule(l)
             /\ l.status = m.status /\ l.mistyped = m.mistyped
             /\ l.abstractions = m.abstractions
             /\ l.inlineable = Bind(m.inlineable, s.name, s)
             /\ l.specializations = m.specializations
             /\ l.symbols = m.symbols /\ l.types = m.types
             /\ l.functions = m.functions /\ l.entry = m.entry
<1> DEFINE inlineable == Bind(m.inlineable, s.name, s)
<1>1. s.form # "lambda"
  BY DEF IsInlineable
<1>2. LowerLet(m, s) = [m EXCEPT !.inlineable = inlineable]
  BY <1>1 DEF LowerLet
<1> HIDE DEF inlineable
<1> QED  BY <1>2 DEF IsModule, inlineable

(* A turn of the loop: expressions are put into @__main in order, and what *)
(* it returns is of the type that is recorded for it.                      *)
LEMMA LowerOneParts ==
  ASSUME NEW m, IsModule(m), NEW s
  PROVE  LET l == LowerOne(m, s)
             b == CASE IsLet(s) -> LowerLet(m, s)
                    [] s.form = "typedecl" -> LowerTypeDecl(m, s)
                    [] OTHER -> LowerUses(m, s)
         IN  /\ IsModule(b)
             /\ IsModule(l)
             /\ l.status = b.status /\ l.mistyped = b.mistyped
             /\ l.abstractions = b.abstractions /\ l.inlineable = b.inlineable
             /\ l.specializations = b.specializations
             /\ l.symbols = b.symbols /\ l.types = b.types
             /\ l.functions = b.functions
             /\ l.entry = IF s.form = "expr" THEN Append(m.entry, s) ELSE m.entry
             /\ l.returns = l.recorded
<1> DEFINE b == CASE IsLet(s) -> LowerLet(m, s)
                  [] s.form = "typedecl" -> LowerTypeDecl(m, s)
                  [] OTHER -> LowerUses(m, s)
           value == IF s.form = "expr" THEN s.type ELSE Nothing
           entry == IF s.form = "expr" THEN Append(b.entry, s) ELSE b.entry
<1>1. IsModule(LowerLet(m, s)) /\ LowerLet(m, s).entry = m.entry
  <2>1. CASE s.form = "lambda"
    BY <2>1, KeepsAsLambda
  <2>2. CASE s.form # "lambda" /\ IsInlineable(s)
    BY <2>2, KeepsForInlining
  <2>3. CASE s.form # "lambda" /\ ~ IsInlineable(s)
    <3>1. PICK l : l = LowerUses(m, s)
      OBVIOUS
    <3>2. IsModule(l) /\ l.entry = m.entry
      BY <3>1, LowerUsesKeeps
    <3>3. LowerLet(m, s) = IF l.status = "ok" THEN Emit(l, s) ELSE l
      BY <2>3, <3>1 DEF LowerLet
    <3>4. IsModule(Emit(l, s)) /\ Emit(l, s).entry = l.entry
      BY <3>2, EmitAdds
    <3> QED  BY <3>2, <3>3, <3>4
  <2> QED  BY <2>1, <2>2, <2>3
<1>2. IsModule(LowerTypeDecl(m, s)) /\ LowerTypeDecl(m, s).entry = m.entry
  BY DEF LowerTypeDecl, IsModule
<1>3. IsModule(LowerUses(m, s)) /\ LowerUses(m, s).entry = m.entry
  BY LowerUsesKeeps
<1>4. IsModule(b) /\ b.entry = m.entry
  BY <1>1, <1>2, <1>3
<1>5. LowerOne(m, s) = [b EXCEPT !.entry = entry, !.returns = value, !.recorded = value]
  BY DEF LowerOne
<1> DEFINE l == [status |-> b.status, mistyped |-> b.mistyped,
                 abstractions |-> b.abstractions, inlineable |-> b.inlineable,
                 specializations |-> b.specializations, symbols |-> b.symbols,
                 types |-> b.types, functions |-> b.functions, entry |-> entry,
                 returns |-> value, recorded |-> value]
<1>6. LowerOne(m, s) = l
  <2> HIDE DEF value, entry, b
  <2> QED  BY <1>4, <1>5 DEF IsModule
<1>7. /\ IsModule(l)
      /\ l.status = b.status /\ l.mistyped = b.mistyped
      /\ l.abstractions = b.abstractions /\ l.inlineable = b.inlineable
      /\ l.specializations = b.specializations
      /\ l.symbols = b.symbols /\ l.types = b.types
      /\ l.functions = b.functions
      /\ l.entry = entry
      /\ l.returns = l.recorded
  <2> HIDE DEF value, entry, b
  <2> QED  BY DEF IsModule
<1>8. entry = IF s.form = "expr" THEN Append(m.entry, s) ELSE m.entry
  BY <1>4
<1> HIDE DEF l, b, entry
<1> QED  BY <1>4, <1>6, <1>7, <1>8 DEF b

(* The same for the three kinds of statements.                             *)
SameButEntry(l, b) ==
  /\ IsModule(l)
  /\ l.status = b.status /\ l.mistyped = b.mistyped
  /\ l.abstractions = b.abstractions /\ l.inlineable = b.inlineable
  /\ l.specializations = b.specializations
  /\ l.symbols = b.symbols /\ l.types = b.types
  /\ l.functions = b.functions

LEMMA LowerOneIs ==
  ASSUME NEW m, IsModule(m), NEW s
  PROVE  /\ IsLet(s) => SameButEntry(LowerOne(m, s), LowerLet(m, s))
         /\ s.form = "typedecl" => SameButEntry(LowerOne(m, s), LowerTypeDecl(m, s))
         /\ ~ IsLet(s) /\ s.form # "typedecl" =>
              SameButEntry(LowerOne(m, s), LowerUses(m, s))
<1> DEFINE b == CASE IsLet(s) -> LowerLet(m, s)
                  [] s.form = "typedecl" -> LowerTypeDecl(m, s)
                  [] OTHER -> LowerUses(m, s)
<1>1. SameButEntry(LowerOne(m, s), b)
  BY LowerOneParts DEF SameButEntry
<1>2. IsLet(s) => s.form # "typedecl"
  BY DEF IsLet
<1>3. /\ IsLet(s) => b = LowerLet(m, s)
      /\ s.form = "typedecl" => b = LowerTypeDecl(m, s)
      /\ ~ IsLet(s) /\ s.form # "typedecl" => b = LowerUses(m, s)
  BY <1>2
<1> HIDE DEF b
<1> QED  BY <1>1, <1>3

-----------------------------------------------------------------------------
(* What lowering a longer program has in common with lowering its          *)
(* beginning.                                                              *)

Begins(s, t) ==
  /\ s \in Seq(Statements) /\ t \in Seq(Statements)
  /\ Len(s) <= Len(t)
  /\ \A i \in 1 .. Len(s) : t[i] = s[i]

LEMMA BeginsIsPrefix ==
  ASSUME NEW s, NEW t, Begins(s, t)
  PROVE  IsPrefix(s, t)
<1>1. s \in Seq(Statements) /\ t \in Seq(Statements) /\ Len(s) \in Nat /\ Len(t) \in Nat
      /\ Len(s) <= Len(t)
  BY DEF Begins
<1>2. /\ \A i \in 1 .. Len(s) : s[i] \in Statements
      /\ \A i \in 1 .. Len(s) : t[i] \in Statements
  BY <1>1 DEF Begins
<1> DEFINE u == SubSeq(s, 1, Len(s))
           v == SubSeq(t, 1, Len(s))
<1>3. /\ u \in Seq(Statements) /\ Len(u) = Len(s)
      /\ \A i \in 1 .. Len(s) : u[i] = s[i]
  BY <1>1, <1>2, SubSeqProperties
<1>4. /\ v \in Seq(Statements) /\ Len(v) = Len(s)
      /\ \A i \in 1 .. Len(s) : v[i] = t[i]
  BY <1>1, <1>2, SubSeqProperties
<1>5. u = v
  <2> HIDE DEF u, v
  <2>1. \A i \in 1 .. Len(u) : u[i] = v[i]
    BY <1>3, <1>4 DEF Begins
  <2> QED  BY <1>3, <1>4, <2>1, SeqEqual
<1> QED  BY <1>1, <1>5 DEF IsPrefix

LEMMA ModulesAre ==
  ASSUME NEW p \in Seq(Statements)
  PROVE  \A k \in 0 .. Len(p) :
           /\ IsModule(Modules(p)[k])
           /\ Modules(p)[k].returns = Modules(p)[k].recorded
           /\ Modules(p)[k].entry \in Seq(Statements)
<1> DEFINE Good(m) == /\ IsModule(m)
                      /\ m.returns = m.recorded
                      /\ m.entry \in Seq(Statements)
           G == {k \in 0 .. Len(p) : Good(Modules(p)[k])}
<1>1. Len(p) \in Nat
  OBVIOUS
<1>2. Good(EmptyModule)
  BY EmptyIsModule DEF EmptyModule
<1>3. ASSUME NEW m, Good(m), NEW s \in Statements
      PROVE  Good(LowerStatement(m, s))
  <2>1. CASE m.status = "ok"
    <3>1. PICK l : l = LowerOne(m, s)
      OBVIOUS
    <3>2. /\ IsModule(l) /\ l.returns = l.recorded
          /\ l.entry = IF s.form = "expr" THEN Append(m.entry, s) ELSE m.entry
      BY <1>3, <3>1, LowerOneParts
    <3>3. l.entry \in Seq(Statements)
      BY <1>3, <3>2
    <3> QED  BY <2>1, <3>1, <3>2, <3>3 DEF LowerStatement
  <2>2. CASE m.status # "ok"
    BY <1>3, <2>2 DEF LowerStatement
  <2> QED  BY <2>1, <2>2
<1> HIDE DEF Good
<1>4. 0 \in G
  <2>1. Modules(p)[0] = EmptyModule
    BY ModulesEquation
  <2> QED  BY <1>1, <1>2, <2>1
<1>5. ASSUME NEW k \in 0 .. Len(p) - 1, k \in G
      PROVE  k + 1 \in G
  <2>1. k + 1 \in 1 .. Len(p) /\ k + 1 \in 0 .. Len(p) /\ (k + 1) - 1 = k
    BY <1>1
  <2>2. Modules(p)[k + 1] = LowerStatement(Modules(p)[k], p[k + 1]) /\ p[k + 1] \in Statements
    BY <2>1, ModulesEquation
  <2> QED  BY <1>3, <1>5, <2>1, <2>2
<1>6. \A k \in 0 .. Len(p) : k \in G
  <2> HIDE DEF G
  <2> QED  BY <1>1, <1>4, <1>5, Counting
<1> QED  BY <1>6 DEF Good

LEMMA SameBeginning ==
  ASSUME NEW p \in Seq(Statements), NEW q \in Seq(Statements), Begins(p, q)
  PROVE  \A k \in 0 .. Len(p) : Modules(q)[k] = Modules(p)[k]
<1> DEFINE G == {k \in 0 .. Len(p) : Modules(q)[k] = Modules(p)[k]}
<1>1. Len(p) \in Nat /\ Len(q) \in Nat /\ Len(p) <= Len(q)
  BY DEF Begins
<1>2. 0 \in G
  BY <1>1, ModulesEquation
<1>3. ASSUME NEW k \in 0 .. Len(p) - 1, k \in G
      PROVE  k + 1 \in G
  <2>1. /\ k + 1 \in 1 .. Len(p) /\ k + 1 \in 0 .. Len(p) /\ (k + 1) - 1 = k
        /\ k + 1 \in 1 .. Len(q)
    BY <1>1
  <2>2. q[k + 1] = p[k + 1]
    BY <2>1 DEF Begins
  <2>3. Modules(p)[k + 1] = LowerStatement(Modules(p)[k], p[k + 1])
    BY <2>1, ModulesEquation
  <2>4. Modules(q)[k + 1] = LowerStatement(Modules(q)[k], q[k + 1])
    BY <2>1, ModulesEquation
  <2> QED  BY <1>3, <2>1, <2>2, <2>3, <2>4
<1>4. \A k \in 0 .. Len(p) : k \in G
  <2> HIDE DEF G
  <2> QED  BY <1>1, <1>2, <1>3, Counting
<1> QED  BY <1>4

(* Lowering stops at the first statement that fails, and @__main only      *)
(* grows.                                                                  *)
LEMMA Later ==
  ASSUME NEW p \in Seq(Statements), NEW j \in 0 .. Len(p)
  PROVE  /\ Modules(p)[Len(p)].status = "ok" => Modules(p)[j].status = "ok"
         /\ Begins(Modules(p)[j].entry, Modules(p)[Len(p)].entry)
<1> DEFINE Since(k) == /\ Modules(p)[k].status = "ok" => Modules(p)[j].status = "ok"
                       /\ Begins(Modules(p)[j].entry, Modules(p)[k].entry)
           n == Len(p) - j
           G == {i \in 0 .. n : Since(j + i)}
<1>1. Len(p) \in Nat /\ j \in Nat /\ n \in Nat /\ j + n = Len(p)
  OBVIOUS
<1>2. 0 \in G
  <2>1. Modules(p)[j].entry \in Seq(Statements)
    BY ModulesAre
  <2>2. Begins(Modules(p)[j].entry, Modules(p)[j].entry)
    BY <2>1 DEF Begins
  <2>3. j + 0 = j
    BY <1>1
  <2> QED  BY <1>1, <2>2, <2>3
<1>3. ASSUME NEW i \in 0 .. n - 1, i \in G
      PROVE  i + 1 \in G
  <2>1. PICK k : k = j + i
    OBVIOUS
  <2>2. k \in 0 .. Len(p) /\ k + 1 \in 1 .. Len(p) /\ j + (i + 1) = k + 1 /\ (k + 1) - 1 = k
    BY <1>1, <2>1
  <2>3. PICK m : m = Modules(p)[k]
    OBVIOUS
  <2>4. Modules(p)[k + 1] = LowerStatement(m, p[k + 1]) /\ p[k + 1] \in Statements
    BY <2>2, <2>3, ModulesEquation
  <2>5. IsModule(m) /\ m.entry \in Seq(Statements)
    BY <2>2, <2>3, ModulesAre
  <2>6. PICK e : e = Modules(p)[j].entry
    OBVIOUS
  <2>7. Begins(e, m.entry) /\ (m.status = "ok" => Modules(p)[j].status = "ok")
    BY <1>3, <2>1, <2>3, <2>6
  <2>8. PICK l : l = LowerStatement(m, p[k + 1])
    OBVIOUS
  <2>9. CASE m.status = "ok"
    <3>1. l = LowerOne(m, p[k + 1])
      BY <2>8, <2>9 DEF LowerStatement
    <3>2. l.entry = IF p[k + 1].form = "expr" THEN Append(m.entry, p[k + 1]) ELSE m.entry
      BY <2>5, <3>1, LowerOneParts
    <3>3. Begins(e, l.entry)
      <4>1. CASE l.entry = m.entry
        BY <2>7, <4>1
      <4>2. CASE l.entry = Append(m.entry, p[k + 1])
        <5>1. /\ l.entry \in Seq(Statements) /\ Len(l.entry) = Len(m.entry) + 1
              /\ \A x \in 1 .. Len(m.entry) : l.entry[x] = m.entry[x]
          BY <2>4, <2>5, <4>2
        <5> QED  BY <2>5, <2>7, <5>1 DEF Begins
      <4> QED  BY <3>2, <4>1, <4>2
    <3> QED  BY <1>1, <2>2, <2>4, <2>6, <2>7, <2>8, <2>9, <3>3
  <2>10. CASE m.status # "ok"
    <3>1. l = m
      BY <2>8, <2>10 DEF LowerStatement
    <3> QED  BY <1>1, <2>2, <2>4, <2>6, <2>7, <2>8, <3>1
  <2> QED  BY <2>9, <2>10
<1>4. n \in G
  <2> HIDE DEF G
  <2>1. \A i \in 0 .. n : i \in G
    BY <1>1, <1>2, <1>3, Counting
  <2> QED  BY <1>1, <2>1
<1> QED  BY <1>1, <1>4

LEMMA Continues ==
  ASSUME NEW p \in Seq(Statements), NEW line \in Seq(Statements)
  PROVE  /\ p \o line \in Seq(Statements)
         /\ Lower(p \o line).status = "ok" => Lower(p).status = "ok"
         /\ Begins(Lower(p).entry, Lower(p \o line).entry)
<1> DEFINE q == p \o line
<1>1. q \in Seq(Statements) /\ Begins(p, q) /\ Len(p) \in 0 .. Len(p) /\ Len(p) \in 0 .. Len(q)
  BY DEF Begins
<1> HIDE DEF q
<1>2. Modules(q)[Len(p)] = Lower(p)
  BY <1>1, SameBeginning DEF Lower
<1>3. /\ Lower(q).status = "ok" => Modules(q)[Len(p)].status = "ok"
      /\ Begins(Modules(q)[Len(p)].entry, Lower(q).entry)
  BY <1>1, Later DEF Lower
<1> QED  BY <1>1, <1>2, <1>3 DEF q

-----------------------------------------------------------------------------
(* What is executed at the end of a line.                                  *)

LEMMA LastLowered ==
  ASSUME NEW p \in Seq(Statements), p # <<>>
  PROVE  /\ Len(p) \in 1 .. Len(p) /\ Last(p) = p[Len(p)] /\ Last(p) \in Statements
         /\ Lower(p) = LowerStatement(Modules(p)[Len(p) - 1], Last(p))
         /\ IsModule(Modules(p)[Len(p) - 1])
<1>1. Len(p) \in 1 .. Len(p) /\ Len(p) - 1 \in 0 .. Len(p) /\ p[Len(p)] \in Statements
  OBVIOUS
<1>2. Lower(p) = LowerStatement(Modules(p)[Len(p) - 1], p[Len(p)])
  BY <1>1, ModulesEquation DEF Lower
<1>3. IsModule(Modules(p)[Len(p) - 1])
  BY <1>1, ModulesAre
<1> QED  BY <1>1, <1>2, <1>3 DEF Last

(* A binding that is not a function is compiled to a function of its name  *)
(* that returns its type.                                                  *)
LEMMA TargetIsEmitted ==
  ASSUME NEW p \in Seq(Statements), p # <<>>, IsLet(Last(p)), Last(p).type \notin FnTypes,
         Lower(p).status = "ok"
  PROVE  LET name == Last(p).name
         IN  /\ name \in DOMAIN Lower(p).symbols
             /\ Lower(p).symbols[name].type = Last(p).type
<1>1. PICK m : m = Modules(p)[Len(p) - 1]
  OBVIOUS
<1>2. PICK s \in Statements : s = Last(p)
  BY LastLowered
<1>3. Lower(p) = LowerStatement(m, s) /\ IsModule(m)
  BY <1>1, <1>2, LastLowered
<1>4. Lower(p) = LowerOne(m, s)
  BY <1>3 DEF LowerStatement
<1>5. s.form # "lambda" /\ ~ IsInlineable(s)
  BY <1>2, SessionAssumption DEF IsInlineable
<1>6. PICK l : l = LowerUses(m, s)
  OBVIOUS
<1>7. IsModule(l)
  BY <1>3, <1>6, LowerUsesKeeps
<1>8. LowerLet(m, s) = IF l.status = "ok" THEN Emit(l, s) ELSE l
  BY <1>5, <1>6 DEF LowerLet
<1>9. Lower(p).status = LowerLet(m, s).status /\ Lower(p).symbols = LowerLet(m, s).symbols
  BY <1>2, <1>3, <1>4, LowerOneIs DEF SameButEntry
<1>10. Emit(l, s).symbols = Bind(l.symbols, s.name, s)
  BY <1>7, EmitAdds
<1>11. Lower(p).symbols = Bind(l.symbols, s.name, s)
  BY <1>8, <1>9, <1>10
<1> QED  BY <1>2, <1>11 DEF Bind

LEMMA InvocationAgrees ==
  ASSUME NEW p \in Seq(Statements), Lower(p).status = "ok", ~ IsFunction(p)
  PROVE  Invocation(p, Lower(p)).reads = Invocation(p, Lower(p)).returns
<1>1. CASE Target(p) = Nothing
  <2>1. Lower(p).returns = Lower(p).recorded
    BY ModulesAre DEF Lower
  <2> QED  BY <1>1, <2>1 DEF Invocation
<1>2. CASE Target(p) # Nothing
  <2>1. p # <<>> /\ IsLet(Last(p)) /\ Target(p) = Last(p).name
    BY <1>2 DEF Target
  <2>2. Last(p).type \notin FnTypes
    BY <2>1 DEF IsFunction
  <2>3. /\ Target(p) \in DOMAIN Lower(p).symbols
        /\ Lower(p).symbols[Target(p)].type = Last(p).type
    BY <2>1, <2>2, TargetIsEmitted
  <2> QED  BY <1>2, <2>3 DEF Invocation
<1> QED  BY <1>1, <1>2

(* The session between two lines: what was last executed and printed goes  *)
(* with what is kept.                                                      *)
InStep ==
  /\ Kept
  /\ phase = "start" => evaluated = <<>> /\ outcome = Nothing
  /\ phase \in {"reading", "closed"} => TypeChecks(accumulated)
  /\ invoked.reads = invoked.returns
  /\ Begins(evaluated, Lower(accumulated).entry)
  /\ outcome \in {"function", "value", "execution error"} => Lower(accumulated).status = "ok"

LEMMA EmptyProgram ==
  /\ TypeChecks(<<>>)
  /\ Lower(<<>>) = EmptyModule
<1>1. <<>> \in Seq(Statements) /\ Len(<<>>) = 0
  OBVIOUS
<1>2. Contexts(<<>>)[0] = InitialContext /\ Modules(<<>>)[0] = EmptyModule
  BY <1>1, ContextsEquation, ModulesEquation
<1> QED  BY <1>1, <1>2 DEF TypeChecks, Lower, InitialContext

LEMMA EntryIsProgram ==
  ASSUME NEW p \in Seq(Statements)
  PROVE  Lower(p).entry \in Seq(Statements)
  BY ModulesAre DEF Lower

LEMMA InStepInitially == Init => InStep
<1> SUFFICES ASSUME Init PROVE InStep
  OBVIOUS
<1>1. Kept
  BY KeptInitially
<1>2. accumulated = <<>> /\ evaluated = <<>> /\ outcome = Nothing /\ phase = "start"
      /\ invoked.reads = invoked.returns
  BY DEF Init, NoInvocation
<1>3. Begins(evaluated, Lower(accumulated).entry)
  <2>1. Lower(accumulated).entry = <<>>
    BY <1>2, EmptyProgram DEF EmptyModule
  <2>2. Begins(<<>>, <<>>)
    BY DEF Begins
  <2> QED  BY <1>2, <2>1, <2>2
<1> QED  BY <1>1, <1>2, <1>3 DEF InStep, Nothing

(* A line that is kept continues the program.                              *)
LEMMA KeepContinues ==
  ASSUME InStep, NEW line \in Lines, Keep(line)
  PROVE  /\ accumulated' = Extended(line) /\ Extended(line) \in Seq(Statements)
         /\ TypeChecks(accumulated')
         /\ Begins(evaluated, Lower(accumulated').entry)
         /\ Lower(accumulated').status = "ok" => Lower(accumulated).status = "ok"
         /\ phase = "reading"
<1>1. /\ accumulated \in Seq(Statements) /\ line \in Seq(Statements)
      /\ accumulated' = accumulated \o line /\ accumulated' = Extended(line)
      /\ TypeChecks(accumulated') /\ phase = "reading"
  BY ExtendedIsProgram DEF InStep, Kept, TypeOK, Keep, Extended, Reading
<1>2. PICK e : e = Lower(accumulated).entry
  OBVIOUS
<1>3. PICK f : f = Lower(accumulated').entry
  OBVIOUS
<1>4. Begins(e, f) /\ (Lower(accumulated').status = "ok" => Lower(accumulated).status = "ok")
      /\ accumulated' \in Seq(Statements)
  BY <1>1, <1>2, <1>3, Continues
<1>5. Begins(evaluated, e)
  BY <1>2 DEF InStep
<1>6. Begins(evaluated, f)
  BY <1>4, <1>5 DEF Begins
<1> QED  BY <1>1, <1>3, <1>4, <1>6

LEMMA InStepInductive == InStep /\ [Next]_vars => InStep'
<1> SUFFICES ASSUME InStep, [Next]_vars PROVE InStep'
  OBVIOUS
<1>0. Kept'
  BY KeptInductive DEF InStep
<1>1. CASE StartBare
  <2>1. accumulated = <<>>
    BY <1>1 DEF StartBare, InStep, Kept
  <2> QED  BY <1>0, <1>1, <2>1, EmptyProgram DEF StartBare, InStep
<1>2. CASE Decline
  BY <1>0, <1>2 DEF Decline, InStep
<1>3. ASSUME NEW file \in Files, NEW repl \in BOOLEAN, NEW prelude \in BOOLEAN,
             RunFile(file, repl, prelude)
      PROVE  InStep'
  <2> DEFINE program == Loaded(file, repl, prelude)
  <2>1. evaluated' = <<>> /\ invoked' = invoked
    BY <1>3 DEF RunFile, InStep
  <2>2. CASE phase' = "exited"
    <3>1. outcome' \notin {"function", "value", "execution error"} /\ accumulated' = accumulated
      BY <1>3, <2>2 DEF RunFile, Dies
    <3>2. evaluated' = evaluated
      BY <1>3 DEF RunFile
    <3> QED  BY <1>0, <2>1, <2>2, <3>1, <3>2 DEF InStep
  <2>3. CASE phase' # "exited"
    <3>1. /\ phase' = "reading" /\ accumulated' = program /\ outcome' = outcome
          /\ TypeChecks(program) /\ outcome = Nothing
      BY <1>3, <2>3 DEF RunFile, InStep
    <3>2. Lower(program).entry \in Seq(Statements)
      BY LoadedIsProgram, EntryIsProgram
    <3>3. Begins(<<>>, Lower(program).entry)
      BY <3>2 DEF Begins
    <3> HIDE DEF program
    <3> QED  BY <1>0, <2>1, <3>1, <3>3 DEF InStep, Nothing
  <2> QED  BY <2>2, <2>3
<1>4. CASE Quit
  BY <1>0, <1>4 DEF Quit, InStep
<1>5. CASE SkipLine
  BY <1>0, <1>5 DEF SkipLine, InStep
<1>6. ASSUME NEW line \in Lines, RejectLine(line)
      PROVE  InStep'
  <2>1. Truncated(line) = accumulated
    BY ExtendedIsProgram, TruncationUndoes DEF InStep, Kept, TypeOK
  <2>2. accumulated' = accumulated /\ outcome' = "type error"
        /\ UNCHANGED <<phase, invoked, evaluated>>
    BY <1>6, <2>1 DEF RejectLine
  <2>3. outcome' \notin {"function", "value", "execution error"}
    BY <2>2
  <2>4. Begins(evaluated, Lower(accumulated).entry)'
    BY <2>2 DEF InStep
  <2>5. (phase \in {"reading", "closed"} => TypeChecks(accumulated))'
    BY <2>2 DEF InStep
  <2>6. phase' # "start" /\ invoked'.reads = invoked'.returns
    <3>1. phase = "reading" /\ phase' = phase /\ invoked' = invoked
      BY <1>6 DEF RejectLine, Reading
    <3> QED  BY <3>1 DEF InStep
  <2> QED  BY <1>0, <2>3, <2>4, <2>5, <2>6 DEF InStep
<1>7. ASSUME NEW line \in Lines,
             FailToLower(line) \/ Die(line) \/ DefineFunction(line)
               \/ FailToExecute(line)
      PROVE  InStep'
  <2>1. Keep(line) /\ UNCHANGED <<invoked, evaluated>> /\ phase' \in {"reading", "closed"}
    BY <1>7
       DEF FailToLower, Die, DefineFunction, FailToExecute, Keep, Reading
  <2>2. outcome' \in {"function", "value", "execution error"} =>
          Lower(Extended(line)).status = "ok"
    BY <1>7 DEF FailToLower, Die, Dies, DefineFunction, FailToExecute
  <2>3. /\ accumulated' = Extended(line) /\ TypeChecks(accumulated')
        /\ Begins(evaluated, Lower(accumulated').entry)
    BY <2>1, KeepContinues
  <2> QED  BY <1>0, <2>1, <2>2, <2>3 DEF InStep
<1>8. ASSUME NEW line \in Lines, Execute(line)
      PROVE  InStep'
  <2>1. Keep(line) /\ phase' = phase
    BY <1>8 DEF Execute
  <2>2. PICK p : p = Extended(line)
    OBVIOUS
  <2>3. /\ accumulated' = p /\ p \in Seq(Statements) /\ TypeChecks(p)
        /\ Begins(evaluated, Lower(p).entry) /\ phase = "reading"
    BY <2>1, <2>2, KeepContinues
  <2>4. /\ Lower(p).status = "ok" /\ ~ IsFunction(p)
        /\ invoked' = Invocation(p, Lower(p))
        /\ evaluated' = Lower(p).entry \/ evaluated' = evaluated
    BY <1>8, <2>2 DEF Execute, EntryExpressions
  <2>5. invoked'.reads = invoked'.returns
    BY <2>3, <2>4, InvocationAgrees
  <2>6. Begins(evaluated', Lower(p).entry)
    <3>1. Lower(p).entry \in Seq(Statements)
      BY <2>3, EntryIsProgram
    <3> QED  BY <2>3, <2>4, <3>1 DEF Begins
  <2> QED  BY <1>0, <2>1, <2>3, <2>4, <2>5, <2>6 DEF InStep
<1>9. CASE UNCHANGED vars
  BY <1>0, <1>9 DEF vars, InStep
<1> QED
  BY <1>1, <1>2, <1>3, <1>4, <1>5, <1>6, <1>7, <1>8, <1>9 DEF Next, ReadLine

LEMMA AlwaysInStep == Spec => []InStep
  BY InStepInitially, InStepInductive, PTL DEF Spec

(* The result of what is executed is read at the type it is returned at,   *)
(* whether it is @__main (stmt.rs:48) or the last binding, for which       *)
(* lower_decl compiled a function (stmt.rs:1438) under the name and at the *)
(* type that repl.rs:68-91 takes from the statement.                       *)
THEOREM SessionReadsWhatIsReturned == Spec => []ReadsWhatIsReturned
  BY AlwaysInStep, PTL DEF InStep, ReadsWhatIsReturned

(* Only an execution changes what has been evaluated, and continues it.    *)
LEMMA ContinuesEvaluation ==
  InStep /\ [Next]_vars => [IsPrefix(evaluated, evaluated')]_vars
<1> SUFFICES ASSUME InStep, Next PROVE IsPrefix(evaluated, evaluated')
  BY DEF vars
<1>1. ASSUME NEW line \in Lines, Execute(line)
      PROVE  evaluated' = evaluated \/ Begins(evaluated, evaluated')
  <2>1. Keep(line)
    BY <1>1 DEF Execute
  <2>2. PICK p : p = Extended(line)
    OBVIOUS
  <2>3. accumulated' = p /\ Begins(evaluated, Lower(accumulated').entry)
    BY <2>1, <2>2, KeepContinues
  <2>4. PICK entry : entry = Lower(p).entry
    OBVIOUS
  <2>5. evaluated' = entry \/ evaluated' = evaluated
    BY <1>1, <2>2, <2>4 DEF Execute, EntryExpressions
  <2> QED  BY <2>3, <2>4, <2>5
<1>2. evaluated' = evaluated \/ Begins(evaluated, evaluated')
  BY <1>1
     DEF Next, ReadLine, StartBare, Decline, RunFile, Quit, SkipLine, RejectLine,
         FailToLower, Die, DefineFunction, FailToExecute
<1>3. Begins(evaluated, evaluated)
  <2>1. Begins(evaluated, Lower(accumulated).entry)
    BY DEF InStep
  <2> QED  BY <2>1 DEF Begins
<1> QED  BY <1>2, <1>3, BeginsIsPrefix

(* What @__main has evaluated is the beginning of what it would evaluate   *)
(* for the program that is kept, and each line that is kept continues it:  *)
(* so no evaluated statement vanishes or moves, and each is evaluated      *)
(* again whenever a new one is (repl.rs:102).                              *)
THEOREM SessionEvaluationGrows == Spec => EvaluationGrows
  BY AlwaysInStep, ContinuesEvaluation, PTL DEF Spec, EvaluationGrows

(* A line that is kept lowers only if what was kept before does, so once   *)
(* a session has failed to lower it does not execute or define again.      *)
LEMMA FailureStays ==
  InStep /\ [Next]_vars =>
    [phase = "reading" /\ Lower(accumulated).status = "error"
       => outcome' \notin {"function", "value", "execution error"}]_vars
<1> SUFFICES ASSUME InStep, Next, phase = "reading", Lower(accumulated).status = "error"
             PROVE  outcome' \notin {"function", "value", "execution error"}
  BY DEF vars
<1>1. ASSUME NEW line \in Lines,
             DefineFunction(line) \/ FailToExecute(line) \/ Execute(line)
      PROVE  FALSE
  <2>1. Keep(line) /\ Lower(Extended(line)).status = "ok"
    BY <1>1 DEF DefineFunction, FailToExecute, Execute
  <2>2. PICK p : p = Extended(line)
    OBVIOUS
  <2>3. /\ accumulated' = p
        /\ Lower(accumulated').status = "ok" => Lower(accumulated).status = "ok"
    BY <2>1, <2>2, KeepContinues
  <2> QED  BY <2>1, <2>2, <2>3
<1>2. CASE SkipLine
  BY <1>2 DEF SkipLine
<1>3. CASE Quit
  <2>1. outcome' = outcome
    BY <1>3 DEF Quit
  <2>2. outcome \in {"function", "value", "execution error"} => Lower(accumulated).status = "ok"
    BY DEF InStep
  <2> QED  BY <2>1, <2>2
<1>4. ASSUME NEW line \in Lines,
             RejectLine(line) \/ FailToLower(line) \/ Die(line)
      PROVE  outcome' \notin {"function", "value", "execution error"}
  BY <1>4 DEF RejectLine, FailToLower, Die, Dies
<1>5. ~ StartBare /\ ~ Decline
      /\ ~ \E file \in Files, repl, prelude \in BOOLEAN : RunFile(file, repl, prelude)
  BY DEF StartBare, Decline, RunFile
<1> QED  BY <1>1, <1>2, <1>3, <1>4, <1>5 DEF Next, ReadLine

(* A statement that does not lower is kept (repl.rs:93) and lowered again  *)
(* before every later one (stmt.rs:56).                                    *)
THEOREM SessionFailureIsForGood == Spec => FailureIsForGood
  BY AlwaysInStep, FailureStays, PTL DEF Spec, FailureIsForGood

-----------------------------------------------------------------------------
(* A program that declares each name once: what the names of a use mean is *)
(* the same for the checker, which knows the declarations so far, as for   *)
(* lowering, which comes to a body with all there are.                     *)

(* The uses that the builtins and the first k statements give a meaning.   *)
Usable(p, k) ==
  {u \in Uses :
     \/ u[1] \in Builtins /\ BuiltinType[u[1]] = u[2]
     \/ \E j \in 1 .. k : IsLet(p[j]) /\ p[j].name = u[1] /\ p[j].type = u[2]}

LEMMA ContextsMean ==
  ASSUME NEW p \in Seq(Statements)
  PROVE  \A k \in 0 .. Len(p) : \A n \in DOMAIN Contexts(p)[k].values :
           \/ n \in Builtins /\ BuiltinType[n] = Contexts(p)[k].values[n]
           \/ \E j \in 1 .. k :
                IsLet(p[j]) /\ p[j].name = n /\ p[j].type = Contexts(p)[k].values[n]
<1> DEFINE Known(values, k) ==
             \A n \in DOMAIN values :
               \/ n \in Builtins /\ BuiltinType[n] = values[n]
               \/ \E j \in 1 .. k : IsLet(p[j]) /\ p[j].name = n /\ p[j].type = values[n]
           G == {k \in 0 .. Len(p) : Known(Contexts(p)[k].values, k)}
<1>1. Len(p) \in Nat
  OBVIOUS
<1>2. 0 \in G
  <2>1. Contexts(p)[0].values = BuiltinType
    BY ContextsEquation DEF InitialContext
  <2> QED  BY <1>1, <2>1 DEF Builtins
<1>3. ASSUME NEW k \in 0 .. Len(p) - 1, k \in G
      PROVE  k + 1 \in G
  <2>1. k \in Nat /\ k + 1 \in 1 .. Len(p) /\ k + 1 \in 0 .. Len(p) /\ (k + 1) - 1 = k
    BY <1>1
  <2>2. PICK s : s = p[k + 1]
    OBVIOUS
  <2>3. PICK c : c = Contexts(p)[k]
    OBVIOUS
  <2>4. PICK values : values = Contexts(p)[k + 1].values
    OBVIOUS
  <2>5. Contexts(p)[k + 1] = CheckStatement(c, s)
    BY <2>1, <2>2, <2>3, ContextsEquation
  <2>6. Known(c.values, k)
    BY <1>3, <2>3
  <2>7. \A n : (\E j \in 1 .. k : IsLet(p[j]) /\ p[j].name = n /\ p[j].type = c.values[n])
          => \E j \in 1 .. k + 1 : IsLet(p[j]) /\ p[j].name = n /\ p[j].type = c.values[n]
    BY <2>1
  <2>8. CASE IsLet(s)
    <3>1. values = [n \in DOMAIN c.values \cup {s.name} |->
                      IF n = s.name THEN s.type ELSE c.values[n]]
      BY <2>4, <2>5, <2>8 DEF CheckStatement
    <3>2. ASSUME NEW n \in DOMAIN values
          PROVE  \/ n \in Builtins /\ BuiltinType[n] = values[n]
                 \/ \E j \in 1 .. k + 1 :
                      IsLet(p[j]) /\ p[j].name = n /\ p[j].type = values[n]
      <4>1. CASE n = s.name
        <5>1. values[n] = s.type /\ k + 1 \in 1 .. k + 1
          BY <2>1, <3>1, <4>1
        <5> QED  BY <2>2, <2>8, <4>1, <5>1
      <4>2. CASE n # s.name
        <5>1. n \in DOMAIN c.values /\ values[n] = c.values[n]
          BY <3>1, <4>2
        <5> QED  BY <2>6, <2>7, <5>1
      <4> QED  BY <4>1, <4>2
    <3> QED  BY <2>1, <2>4, <3>2
  <2>9. CASE ~ IsLet(s)
    <3>1. values = c.values
      BY <2>4, <2>5, <2>9 DEF CheckStatement
    <3>2. Known(c.values, k + 1)
      BY <2>6, <2>7
    <3> QED  BY <2>1, <2>4, <3>1, <3>2
  <2> QED  BY <2>8, <2>9
<1>4. \A k \in 0 .. Len(p) : k \in G
  <2> HIDE DEF G
  <2> QED  BY <1>1, <1>2, <1>3, Counting
<1> QED  BY <1>4

(* A program is checked only if every statement is.                        *)
LEMMA EachIsChecked ==
  ASSUME NEW p \in Seq(Statements), TypeChecks(p)
  PROVE  \A k \in 0 .. Len(p) : Contexts(p)[k].ok
<1> DEFINE n == Len(p)
           G == {i \in 0 .. n : Contexts(p)[n - i].ok}
<1>1. n \in Nat
  OBVIOUS
<1>2. 0 \in G
  <2>1. n - 0 = n
    BY <1>1
  <2> QED  BY <1>1, <2>1 DEF TypeChecks
<1>3. ASSUME NEW i \in 0 .. n - 1, i \in G
      PROVE  i + 1 \in G
  <2>1. PICK k : k = n - i
    OBVIOUS
  <2>2. k \in 1 .. n /\ n - (i + 1) = k - 1 /\ i + 1 \in 0 .. n
    BY <1>1, <2>1
  <2>3. Contexts(p)[k] = CheckStatement(Contexts(p)[k - 1], p[k])
    BY <2>2, ContextsEquation
  <2>4. Contexts(p)[k].ok => Contexts(p)[k - 1].ok
    BY <2>3 DEF CheckStatement
  <2> QED  BY <1>3, <2>1, <2>2, <2>4
<1>4. \A i \in 0 .. n : i \in G
  <2> HIDE DEF G, n
  <2> QED  BY <1>1, <1>2, <1>3, Counting
<1> SUFFICES ASSUME NEW k \in 0 .. Len(p) PROVE Contexts(p)[k].ok
  OBVIOUS
<1>5. n - k \in 0 .. n /\ n - (n - k) = k
  BY <1>1
<1>6. n - k \in G
  BY <1>4, <1>5
<1> QED  BY <1>5, <1>6

(* What the checker has established of such a program.                     *)
Established(p) ==
  /\ \A i, j \in 1 .. Len(p) :
       IsLet(p[i]) /\ IsLet(p[j]) /\ p[i].name = p[j].name => i = j
  /\ \A i \in 1 .. Len(p) : IsLet(p[i]) => p[i].name \notin Builtins \cup Externs
  /\ \A i \in 1 .. Len(p) :
       p[i].uses \subseteq Usable(p, IF p[i].form = "lambda" THEN i ELSE i - 1)
  /\ \A i \in 1 .. Len(p) :
       p[i].form = "typedecl" => p[i].name \notin Contexts(p)[i - 1].types

LEMMA CheckingEstablishes ==
  ASSUME NEW p \in Seq(Statements), TypeChecks(p), NamesAreFresh(p)
  PROVE  Established(p)
<1>1. Len(p) \in Nat
  OBVIOUS
<1>2. \A i, j \in 1 .. Len(p) :
        IsLet(p[i]) /\ IsLet(p[j]) /\ p[i].name = p[j].name => i = j
  BY DEF NamesAreFresh
<1>3. ASSUME NEW i \in 1 .. Len(p)
      PROVE  /\ IsLet(p[i]) => p[i].name \notin Builtins \cup Externs
             /\ p[i].uses \subseteq Usable(p, IF p[i].form = "lambda" THEN i ELSE i - 1)
             /\ p[i].form = "typedecl" => p[i].name \notin Contexts(p)[i - 1].types
  <2>1. i \in 0 .. Len(p) /\ i - 1 \in 0 .. Len(p)
    BY <1>1
  <2>2. PICK s \in Statements : s = p[i]
    BY <1>1
  <2>3. PICK c : c = Contexts(p)[i - 1]
    OBVIOUS
  <2>4. PICK d : d = Contexts(p)[i]
    OBVIOUS
  <2>5. d = CheckStatement(c, s) /\ d.ok
    BY <2>1, <2>2, <2>3, <2>4, ContextsEquation, EachIsChecked
  <2>6. /\ s.name \notin (IF IsLet(s) THEN Builtins ELSE c.types)
        /\ \A u \in s.uses : u[1] \in DOMAIN d.values /\ d.values[u[1]] = u[2]
    BY <2>5 DEF CheckStatement
  <2>7. s.form = "typedecl" => ~ IsLet(s)
    BY DEF IsLet
  <2>8. IsLet(s) => s.name \notin Externs
    BY <2>2 DEF NamesAreFresh
  <2>9. ASSUME NEW u \in s.uses
        PROVE  u \in Usable(p, IF s.form = "lambda" THEN i ELSE i - 1)
    <3>1. u \in Uses
      BY SessionAssumption DEF StatementShape, Uses
    <3>2. u[1] \in DOMAIN d.values /\ d.values[u[1]] = u[2]
      BY <2>6
    <3>3. CASE u[1] \in Builtins /\ BuiltinType[u[1]] = d.values[u[1]]
      BY <3>1, <3>2, <3>3 DEF Usable
    <3>4. CASE \E j \in 1 .. i :
                 IsLet(p[j]) /\ p[j].name = u[1] /\ p[j].type = d.values[u[1]]
      <4>1. PICK j \in 1 .. i :
                 IsLet(p[j]) /\ p[j].name = u[1] /\ p[j].type = u[2]
        BY <3>2, <3>4
      <4>2. CASE s.form = "lambda"
        BY <3>1, <4>1, <4>2 DEF Usable
      <4>3. CASE s.form # "lambda"
        <5>1. j # i
          BY <2>2, <4>1, <4>3 DEF NamesAreFresh
        <5>2. j \in 1 .. i - 1
          BY <1>1, <5>1
        <5> QED  BY <3>1, <4>1, <4>3, <5>2 DEF Usable
      <4> QED  BY <4>2, <4>3
    <3> QED  BY <2>1, <2>4, <3>2, <3>3, <3>4, ContextsMean
  <2> QED  BY <2>2, <2>3, <2>6, <2>7, <2>8, <2>9
<1> QED  BY <1>2, <1>3 DEF Established

(* How a `let` of the program is lowered.                                  *)
IsEmitted(s) == IsLet(s) /\ s.form # "lambda" /\ ~ IsInlineable(s)

(* The registries hold the declarations of the first k statements, each    *)
(* under its name and where its form puts it.                              *)
HoldsDeclarations(p, k, m) ==
  /\ \A j \in 1 .. k :
       /\ p[j].form = "lambda" => p[j].name \in DOMAIN m.abstractions
       /\ IsInlineable(p[j]) => p[j].name \in DOMAIN m.inlineable
       /\ IsEmitted(p[j]) => p[j].name \in DOMAIN m.symbols
  /\ Builtins \subseteq DOMAIN m.symbols
  /\ \A n \in DOMAIN m.abstractions :
       \E j \in 1 .. k :
         p[j].form = "lambda" /\ p[j].name = n /\ m.abstractions[n] = p[j]
  /\ \A n \in DOMAIN m.inlineable :
       \E j \in 1 .. k :
         IsInlineable(p[j]) /\ p[j].name = n /\ m.inlineable[n] = p[j]
  /\ \A n \in DOMAIN m.symbols :
       \/ n \in Builtins /\ m.symbols[n].type = BuiltinType[n]
       \/ \E j \in 1 .. k :
            IsEmitted(p[j]) /\ p[j].name = n /\ m.symbols[n] = p[j]
  /\ \A u \in DOMAIN m.specializations :
       \E j \in 1 .. k :
         /\ p[j].form = "lambda" /\ p[j].name = u[1] /\ p[j].type = u[2]
         /\ m.specializations[u] = p[j]

(* The functions are those of the bindings compiled so far.                *)
HoldsFunctions(p, k, functions) ==
  /\ functions \in Seq(Names \cup {Nothing})
  /\ \A x \in 1 .. Len(functions) :
       \E j \in 1 .. k : IsEmitted(p[j]) /\ p[j].name = functions[x]
  /\ \A x, y \in 1 .. Len(functions) : functions[x] = functions[y] => x = y

Agrees(p, k, m) ==
  /\ IsModule(m)
  /\ m.status = "ok" /\ ~ m.mistyped
  /\ m.types = Contexts(p)[k].types
  /\ IsFiniteSet(DOMAIN m.abstractions) /\ IsFiniteSet(DOMAIN m.inlineable)
  /\ HoldsDeclarations(p, k, m)
  /\ HoldsFunctions(p, k, m.functions)

(* With more statements a use keeps its meaning.                           *)
LEMMA UsableGrows ==
  ASSUME NEW p, NEW j \in Nat, NEW k \in Nat, j <= k
  PROVE  Usable(p, j) \subseteq Usable(p, k)
<1>1. \A i \in 1 .. j : i \in 1 .. k
  OBVIOUS
<1> QED  BY <1>1 DEF Usable

(* What any statement uses.                                                *)
UsedIn(p) == UNION {p[i].uses : i \in 1 .. Len(p)}

(* What a use of a name that means something comes to: the declaration is  *)
(* found, at the type of the use, and what it leads to means something.    *)
LEMMA UseIsResolved ==
  ASSUME NEW p \in Seq(Statements), Established(p), NEW k \in 0 .. Len(p),
         NEW m, HoldsDeclarations(p, k, m), NEW u \in Usable(p, k)
  PROVE  /\ ~ Unresolved(m, u)
         /\ Reached(m, u).type = u[2]
         /\ Body(m, u) \subseteq Usable(p, k) \cap UsedIn(p)
         /\ Registered(m, u) =>
              \E j \in 1 .. k : /\ p[j].form = "lambda" /\ p[j].name = u[1]
                                /\ p[j].type = u[2] /\ m.abstractions[u[1]] = p[j]
         /\ Inlined(m, u) =>
              \E j \in 1 .. k : p[j].name = u[1] /\ IsInlineable(p[j])
                                /\ m.inlineable[u[1]] = p[j]
<1>1. k \in Nat /\ Len(p) \in Nat /\ \A j \in 1 .. k : j \in 1 .. Len(p)
  OBVIOUS
<1>2. \A i, j \in 1 .. k :
        IsLet(p[i]) /\ IsLet(p[j]) /\ p[i].name = p[j].name => i = j
  BY <1>1 DEF Established
<1>3. \A j \in 1 .. k : IsLet(p[j]) => p[j].name \notin Builtins
  BY <1>1 DEF Established
<1>4. \A s : /\ s.form = "lambda" => IsLet(s) /\ ~ IsInlineable(s) /\ ~ IsEmitted(s)
             /\ IsInlineable(s) => IsLet(s) /\ ~ IsEmitted(s)
             /\ IsEmitted(s) => IsLet(s)
  BY DEF IsLet, IsInlineable, IsEmitted
<1>5. \A s : IsLet(s) => s.form = "lambda" \/ IsInlineable(s) \/ IsEmitted(s)
  BY DEF IsEmitted
<1>6. ASSUME NEW j \in 1 .. k
      PROVE  p[j].uses \subseteq Usable(p, k) \cap UsedIn(p)
  <2>1. /\ j \in Nat /\ j <= k /\ j - 1 \in Nat /\ j - 1 <= k
    BY <1>1
  <2>2. Usable(p, j) \subseteq Usable(p, k) /\ Usable(p, j - 1) \subseteq Usable(p, k)
    BY <1>1, <2>1, UsableGrows
  <2>3. p[j].uses \subseteq Usable(p, IF p[j].form = "lambda" THEN j ELSE j - 1)
    BY <1>1 DEF Established
  <2>4. p[j].uses \subseteq UsedIn(p)
    BY <1>1 DEF UsedIn
  <2> QED  BY <2>2, <2>3, <2>4
<1>7. CASE u[1] \in Builtins /\ BuiltinType[u[1]] = u[2]
  <2>1. ~ Inlined(m, u) /\ ~ Registered(m, u)
    <3>1. u[1] \notin DOMAIN m.inlineable
      BY <1>3, <1>4, <1>7 DEF HoldsDeclarations
    <3>2. u[1] \notin DOMAIN m.abstractions
      BY <1>3, <1>4, <1>7 DEF HoldsDeclarations
    <3> QED  BY <3>1, <3>2 DEF Inlined, Registered
  <2>2. u[1] \in DOMAIN m.symbols /\ m.symbols[u[1]].type = u[2]
    BY <1>3, <1>4, <1>7 DEF HoldsDeclarations
  <2>3. Reached(m, u) = m.symbols[u[1]]
    BY <2>1 DEF Reached
  <2>4. Body(m, u) = {}
    BY <2>1 DEF Body, Expansion
  <2> QED  BY <2>1, <2>2, <2>3, <2>4 DEF Unresolved
<1>8. CASE \E j \in 1 .. k : IsLet(p[j]) /\ p[j].name = u[1] /\ p[j].type = u[2]
  <2>1. PICK j \in 1 .. k : IsLet(p[j]) /\ p[j].name = u[1] /\ p[j].type = u[2]
    BY <1>8
  <2>2. CASE p[j].form = "lambda"
    <3>1. ~ Inlined(m, u)
      BY <1>2, <1>4, <2>1, <2>2 DEF HoldsDeclarations, Inlined
    <3>2. u[1] \in DOMAIN m.abstractions /\ m.abstractions[u[1]] = p[j]
      BY <1>2, <1>4, <2>1, <2>2 DEF HoldsDeclarations
    <3>3. Cached(m, u) => m.specializations[u] = p[j]
      BY <1>2, <1>4, <2>1, <2>2 DEF HoldsDeclarations, Cached
    <3>4. u[2] \in FnTypes
      <4>1. p[j] \in Statements
        BY <1>1
      <4> QED  BY <2>1, <2>2, <4>1, SessionAssumption
    <3>5. Registered(m, u)
      BY <3>1, <3>2 DEF Registered
    <3>6. Reached(m, u) = p[j]
      BY <3>1, <3>2, <3>3, <3>5 DEF Reached
    <3>7. Body(m, u) \in {p[j].uses, {}}
      BY <3>1, <3>2, <3>5 DEF Body, Expansion
    <3>8. ~ Unresolved(m, u)
      BY <2>1, <3>2, <3>4, <3>5 DEF Unresolved
    <3> QED  BY <1>6, <2>1, <2>2, <3>1, <3>2, <3>6, <3>7, <3>8
  <2>3. CASE IsInlineable(p[j])
    <3>1. u[1] \in DOMAIN m.inlineable /\ m.inlineable[u[1]] = p[j]
      BY <1>2, <1>4, <2>1, <2>3 DEF HoldsDeclarations
    <3>2. Inlined(m, u) /\ ~ Registered(m, u)
      BY <3>1 DEF Inlined, Registered
    <3>3. Reached(m, u) = p[j] /\ Body(m, u) = p[j].uses
      BY <3>1, <3>2 DEF Reached, Body, Expansion
    <3>4. ~ Unresolved(m, u)
      BY <3>2 DEF Unresolved
    <3> QED  BY <1>6, <2>1, <2>3, <3>1, <3>2, <3>3, <3>4
  <2>4. CASE IsEmitted(p[j])
    <3>1. ~ Inlined(m, u) /\ ~ Registered(m, u)
      BY <1>2, <1>4, <2>1, <2>4 DEF HoldsDeclarations, Inlined, Registered
    <3>2. u[1] \in DOMAIN m.symbols /\ m.symbols[u[1]] = p[j]
      BY <1>2, <1>3, <1>4, <2>1, <2>4 DEF HoldsDeclarations
    <3>3. Reached(m, u) = p[j] /\ Body(m, u) = {}
      BY <3>1, <3>2 DEF Reached, Body, Expansion
    <3>4. ~ Unresolved(m, u)
      BY <3>1, <3>2 DEF Unresolved
    <3> QED  BY <2>1, <3>1, <3>3, <3>4
  <2> QED  BY <1>5, <2>1, <2>2, <2>3, <2>4
<1> QED  BY <1>7, <1>8 DEF Usable

(* A binding that is inlined uses earlier ones only, so its expansion ends. *)
LEMMA ExpansionEnds ==
  ASSUME NEW p \in Seq(Statements), Established(p), NEW k \in 0 .. Len(p),
         NEW m, HoldsDeclarations(p, k, m), Rounds(m) \in Nat, NEW u \in Usable(p, k)
  PROVE  ~ Endless(m, u)
<1> DEFINE more == [v \in Uses |-> Expansion(m, v)]
<1>1. PICK rounds \in Nat : rounds = Rounds(m)
  OBVIOUS
<1>2. Expanded(m, Expansion(m, u)) = Met(more, Expansion(m, u), rounds)
  BY <1>1 DEF Expanded
<1>3. CASE ~ Inlined(m, u)
  <2>1. Expansion(m, u) = {}
    BY <1>3 DEF Expansion
  <2> HIDE DEF more
  <2>2. Met(more, {}, rounds) \subseteq {}
    BY MetStays
  <2> QED  BY <1>2, <2>1, <2>2 DEF Endless
<1>4. CASE Inlined(m, u)
  <2>1. PICK j \in 1 .. k :
             p[j].name = u[1] /\ IsInlineable(p[j]) /\ m.inlineable[u[1]] = p[j]
    BY <1>4, UseIsResolved
  <2>2. \A i \in 1 .. k : i \in 1 .. Len(p)
    OBVIOUS
  <2>3. j \in Nat /\ j \in 1 .. Len(p) /\ j - 1 \in Nat /\ j - 1 <= k
    OBVIOUS
  <2> DEFINE C == Usable(p, j - 1)
  <2>4. C \subseteq Uses
    BY DEF Usable
  <2>5. Expansion(m, u) \subseteq C
    <3>1. Expansion(m, u) = p[j].uses /\ p[j].form # "lambda"
      BY <1>4, <2>1 DEF Expansion, IsInlineable
    <3> QED  BY <2>3, <3>1 DEF Established
  <2>6. ASSUME NEW v \in C
        PROVE  v[1] # u[1] /\ Expansion(m, v) \subseteq C
    <3>1. v \in Usable(p, k)
      BY <2>3, UsableGrows
    <3>2. \/ v[1] \in Builtins
          \/ \E i \in 1 .. j - 1 : IsLet(p[i]) /\ p[i].name = v[1]
      BY DEF Usable
    <3>3. ASSUME NEW i \in 1 .. k, IsLet(p[i]), p[i].name = v[1]
          PROVE  i < j
      <4>1. v[1] \notin Builtins
        BY <2>2, <3>3 DEF Established
      <4>2. PICK h \in 1 .. j - 1 : IsLet(p[h]) /\ p[h].name = v[1]
        BY <3>2, <4>1
      <4>3. h = i
        BY <2>2, <2>3, <3>3, <4>2 DEF Established
      <4> QED  BY <4>3
    <3>4. v[1] # u[1]
      <4>1. IsLet(p[j])
        BY <2>1 DEF IsInlineable, IsLet
      <4> QED  BY <2>1, <3>3, <4>1
    <3>5. Expansion(m, v) \subseteq C
      <4>1. CASE ~ Inlined(m, v)
        BY <4>1 DEF Expansion
      <4>2. CASE Inlined(m, v)
        <5>1. PICK i \in 1 .. k :
                   p[i].name = v[1] /\ IsInlineable(p[i]) /\ m.inlineable[v[1]] = p[i]
          BY <3>1, <4>2, UseIsResolved
        <5>2. IsLet(p[i]) /\ p[i].form # "lambda"
          BY <5>1 DEF IsInlineable, IsLet
        <5>3. i - 1 \in Nat /\ i - 1 <= j - 1
          BY <3>3, <5>1, <5>2
        <5>4. p[i].uses \subseteq Usable(p, i - 1)
          BY <2>2, <5>2 DEF Established
        <5>5. Usable(p, i - 1) \subseteq C
          BY <2>3, <5>3, UsableGrows
        <5> QED  BY <4>2, <5>1, <5>4, <5>5 DEF Expansion
      <4> QED  BY <4>1, <4>2
    <3> QED  BY <3>4, <3>5
  <2>7. \A v \in C : more[v] \subseteq C
    BY <2>4, <2>6
  <2> HIDE DEF C, more
  <2>8. Met(more, Expansion(m, u), rounds) \subseteq C
    BY <2>5, <2>7, MetStays
  <2> QED  BY <1>2, <2>6, <2>8 DEF Endless
<1> QED  BY <1>3, <1>4

LEMMA RoundsAreFinite ==
  ASSUME NEW p, NEW k, NEW m, Agrees(p, k, m)
  PROVE  Rounds(m) \in Nat
<1>1. /\ Cardinality(DOMAIN m.abstractions) \in Nat
      /\ Cardinality(DOMAIN m.inlineable) \in Nat
  BY FS_CardinalityType DEF Agrees
<1> QED  BY <1>1 DEF Rounds

(* A declaration that some statement uses is supported.                    *)
LEMMA UsedIsSupported ==
  ASSUME NEW p, Supported(p), NEW j \in 1 .. Len(p),
         NEW u \in UsedIn(p), u[1] = p[j].name
  PROVE  p[j].fate = "lowers"
  BY DEF Supported, UsedIn

(* A supported expression whose uses mean something is lowered, and each   *)
(* use only at its type.                                                   *)
LEMMA UsesLower ==
  ASSUME NEW p \in Seq(Statements), Established(p), Supported(p), NEW k \in 0 .. Len(p),
         NEW m, Agrees(p, k, m),
         NEW s, s.fate = "lowers", s.uses \subseteq Usable(p, k) \cap UsedIn(p)
  PROVE  Agrees(p, k, LowerUses(m, s))
<1> DEFINE all == Lowered(m, s.uses)
           fresh == {u \in all : Registered(m, u) /\ ~Cached(m, u)}
           wrong == \E u \in all : Reached(m, u).type # u[2]
           specs == [u \in fresh \cup DOMAIN m.specializations |->
                       IF u \in fresh THEN m.abstractions[u[1]] ELSE m.specializations[u]]
           more == [u \in Uses |-> Body(m, u)]
           C == Usable(p, k) \cap UsedIn(p)
           fates == {d.fate : d \in {s} \cup Compiled(m, all)}
<1>1. IsModule(m) /\ HoldsDeclarations(p, k, m) /\ Rounds(m) \in Nat
  BY RoundsAreFinite DEF Agrees
<1>2. all \subseteq C
  <2>1. \A u \in C : more[u] \subseteq C
    <3>1. \A u \in Usable(p, k) : u \in Uses /\ Body(m, u) \subseteq C
      BY <1>1, UseIsResolved DEF Usable
    <3> QED  BY <3>1
  <2>2. all = Met(more, s.uses, Rounds(m))
    BY DEF Lowered
  <2> HIDE DEF more, all, C
  <2>3. s.uses \subseteq C
    BY DEF C
  <2> QED  BY <1>1, <2>1, <2>2, <2>3, MetStays
<1> HIDE DEF all
<1>3. \A u \in all : ~ Endless(m, u) /\ ~ Unresolved(m, u) /\ Reached(m, u).type = u[2]
  <2>1. \A u \in all : ~ Endless(m, u)
    BY <1>1, <1>2, ExpansionEnds
  <2>2. \A u \in all : ~ Unresolved(m, u) /\ Reached(m, u).type = u[2]
    BY <1>1, <1>2, UseIsResolved
  <2> QED  BY <2>1, <2>2
<1>4. fates \subseteq {"lowers"}
  <2> SUFFICES ASSUME NEW u \in all, Inlined(m, u) \/ (Registered(m, u) /\ ~Cached(m, u))
               PROVE  Reached(m, u).fate = "lowers"
    BY DEF Compiled
  <2>1. \E j \in 1 .. k : p[j].name = u[1] /\ Reached(m, u) = p[j]
    <3>1. u \in Usable(p, k)
      BY <1>2
    <3>2. CASE Inlined(m, u)
      <4>1. Reached(m, u) = m.inlineable[u[1]]
        BY <3>2 DEF Reached, Registered
      <4> QED  BY <1>1, <3>1, <3>2, <4>1, UseIsResolved
    <3>3. CASE Registered(m, u) /\ ~Cached(m, u)
      <4>1. Reached(m, u) = m.abstractions[u[1]]
        BY <3>3 DEF Reached, Registered
      <4> QED  BY <1>1, <3>1, <3>3, <4>1, UseIsResolved
    <3> QED  BY <3>2, <3>3
  <2>2. PICK j \in 1 .. k : p[j].name = u[1] /\ Reached(m, u) = p[j]
    BY <2>1
  <2>3. j \in 1 .. Len(p) /\ u \in UsedIn(p)
    BY <1>2
  <2> QED  BY <2>2, <2>3, UsedIsSupported
<1> HIDE DEF fates
<1>5. LowerUses(m, s) = [m EXCEPT !.mistyped = @ \/ wrong, !.specializations = specs]
  <2>1. ~ ("panics" \in fates) /\ ~ ("refused" \in fates)
    BY <1>4
  <2> QED  BY <1>3, <2>1 DEF LowerUses, all, fates
<1>6. ~ wrong
  BY <1>3
<1>7. \A u \in DOMAIN specs :
        \E j \in 1 .. k :
          /\ p[j].form = "lambda" /\ p[j].name = u[1] /\ p[j].type = u[2]
          /\ specs[u] = p[j]
  <2> SUFFICES ASSUME NEW u \in fresh \cup DOMAIN m.specializations
               PROVE  \E j \in 1 .. k :
                        /\ p[j].form = "lambda" /\ p[j].name = u[1] /\ p[j].type = u[2]
                        /\ specs[u] = p[j]
    OBVIOUS
  <2>1. CASE u \in fresh
    <3>1. u \in Usable(p, k) /\ Registered(m, u) /\ specs[u] = m.abstractions[u[1]]
      BY <1>2, <2>1
    <3> QED  BY <1>1, <3>1, UseIsResolved
  <2>2. CASE u \notin fresh
    <3>1. u \in DOMAIN m.specializations /\ specs[u] = m.specializations[u]
      BY <2>2
    <3> QED  BY <1>1, <3>1 DEF HoldsDeclarations
  <2> QED  BY <2>1, <2>2
<1> HIDE DEF wrong, specs
<1>8. PICK l : l = LowerUses(m, s)
  OBVIOUS
<1>9. l.status = m.status /\ l.specializations = specs
  BY <1>1, <1>5, <1>8 DEF IsModule
<1>10. ~ l.mistyped
  <2>1. l = [m EXCEPT !.mistyped = m.mistyped \/ wrong, !.specializations = specs]
    BY <1>5, <1>8
  <2>2. (m.mistyped \/ wrong) = FALSE
    BY <1>6 DEF Agrees
  <2>3. l.mistyped = (m.mistyped \/ wrong)
    BY <1>1, <2>1 DEF IsModule
  <2> QED  BY <2>2, <2>3
<1>11. /\ IsModule(l)
       /\ l.abstractions = m.abstractions /\ l.inlineable = m.inlineable
       /\ l.symbols = m.symbols /\ l.types = m.types
       /\ l.functions = m.functions
  BY <1>1, <1>8, LowerUsesKeeps
<1>12. HoldsDeclarations(p, k, l)
  BY <1>1, <1>7, <1>9, <1>11 DEF HoldsDeclarations
<1> QED  BY <1>8, <1>9, <1>10, <1>11, <1>12 DEF Agrees

(* A declaration is added where its form puts it.                          *)
LEMMA DeclarationAdded ==
  ASSUME NEW p \in Seq(Statements), NEW k \in 0 .. Len(p) - 1,
         NEW m, HoldsDeclarations(p, k, m), NEW s, s = p[k + 1], NEW l,
         l.abstractions = IF s.form = "lambda" THEN Bind(m.abstractions, s.name, s)
                          ELSE m.abstractions,
         l.inlineable = IF IsInlineable(s) THEN Bind(m.inlineable, s.name, s)
                        ELSE m.inlineable,
         l.symbols = IF IsEmitted(s) THEN Bind(m.symbols, s.name, s) ELSE m.symbols,
         l.specializations = m.specializations
  PROVE  HoldsDeclarations(p, k + 1, l)
<1>1. /\ k \in Nat /\ k + 1 \in 1 .. k + 1 /\ \A j \in 1 .. k : j \in 1 .. k + 1
      /\ \A j \in 1 .. k + 1 : j = k + 1 \/ j \in 1 .. k
  OBVIOUS
<1>2. \A registry, n :
        n \in DOMAIN Bind(registry, s.name, s) =>
          \/ n = s.name /\ Bind(registry, s.name, s)[n] = s
          \/ n \in DOMAIN registry /\ Bind(registry, s.name, s)[n] = registry[n]
  BY DEF Bind
<1>3. \A registry : DOMAIN Bind(registry, s.name, s) = DOMAIN registry \cup {s.name}
  BY DEF Bind
<1>4. \A j \in 1 .. k + 1 :
        /\ p[j].form = "lambda" => p[j].name \in DOMAIN l.abstractions
        /\ IsInlineable(p[j]) => p[j].name \in DOMAIN l.inlineable
        /\ IsEmitted(p[j]) => p[j].name \in DOMAIN l.symbols
  <2> SUFFICES ASSUME NEW j \in 1 .. k + 1
               PROVE  /\ p[j].form = "lambda" => p[j].name \in DOMAIN l.abstractions
                      /\ IsInlineable(p[j]) => p[j].name \in DOMAIN l.inlineable
                      /\ IsEmitted(p[j]) => p[j].name \in DOMAIN l.symbols
    OBVIOUS
  <2>1. CASE j = k + 1
    BY <1>3, <2>1
  <2>2. CASE j \in 1 .. k
    <3>1. /\ p[j].form = "lambda" => p[j].name \in DOMAIN m.abstractions
          /\ IsInlineable(p[j]) => p[j].name \in DOMAIN m.inlineable
          /\ IsEmitted(p[j]) => p[j].name \in DOMAIN m.symbols
      BY <2>2 DEF HoldsDeclarations
    <3>2. /\ DOMAIN m.abstractions \subseteq DOMAIN l.abstractions
          /\ DOMAIN m.inlineable \subseteq DOMAIN l.inlineable
          /\ DOMAIN m.symbols \subseteq DOMAIN l.symbols
      BY <1>3
    <3> QED  BY <3>1, <3>2
  <2> QED  BY <1>1, <2>1, <2>2
<1>5. Builtins \subseteq DOMAIN l.symbols
  <2>1. DOMAIN m.symbols \subseteq DOMAIN l.symbols
    BY <1>3
  <2>2. Builtins \subseteq DOMAIN m.symbols
    BY DEF HoldsDeclarations
  <2> QED  BY <2>1, <2>2
<1>6. ASSUME NEW n \in DOMAIN l.abstractions
      PROVE  \E j \in 1 .. k + 1 :
               p[j].form = "lambda" /\ p[j].name = n /\ l.abstractions[n] = p[j]
  <2>1. CASE s.form = "lambda" /\ n = s.name /\ l.abstractions[n] = s
    BY <1>1, <2>1
  <2>2. CASE n \in DOMAIN m.abstractions /\ l.abstractions[n] = m.abstractions[n]
    BY <1>1, <2>2 DEF HoldsDeclarations
  <2> QED  BY <1>2, <2>1, <2>2
<1>7. ASSUME NEW n \in DOMAIN l.inlineable
      PROVE  \E j \in 1 .. k + 1 :
               IsInlineable(p[j]) /\ p[j].name = n /\ l.inlineable[n] = p[j]
  <2>1. CASE IsInlineable(s) /\ n = s.name /\ l.inlineable[n] = s
    BY <1>1, <2>1
  <2>2. CASE n \in DOMAIN m.inlineable /\ l.inlineable[n] = m.inlineable[n]
    BY <1>1, <2>2 DEF HoldsDeclarations
  <2> QED  BY <1>2, <2>1, <2>2
<1>8. ASSUME NEW n \in DOMAIN l.symbols
      PROVE  \/ n \in Builtins /\ l.symbols[n].type = BuiltinType[n]
             \/ \E j \in 1 .. k + 1 :
                  IsEmitted(p[j]) /\ p[j].name = n /\ l.symbols[n] = p[j]
  <2>1. CASE IsEmitted(s) /\ n = s.name /\ l.symbols[n] = s
    BY <1>1, <2>1
  <2>2. CASE n \in DOMAIN m.symbols /\ l.symbols[n] = m.symbols[n]
    BY <1>1, <2>2 DEF HoldsDeclarations
  <2> QED  BY <1>2, <2>1, <2>2
<1>9. ASSUME NEW u \in DOMAIN l.specializations
      PROVE  \E j \in 1 .. k + 1 :
               /\ p[j].form = "lambda" /\ p[j].name = u[1] /\ p[j].type = u[2]
               /\ l.specializations[u] = p[j]
  <2>1. u \in DOMAIN m.specializations /\ l.specializations[u] = m.specializations[u]
    OBVIOUS
  <2>2. PICK j \in 1 .. k :
             /\ p[j].form = "lambda" /\ p[j].name = u[1] /\ p[j].type = u[2]
             /\ m.specializations[u] = p[j]
    BY <2>1 DEF HoldsDeclarations
  <2> QED  BY <1>1, <2>1, <2>2
<1> QED  BY <1>4, <1>5, <1>6, <1>7, <1>8, <1>9 DEF HoldsDeclarations

(* A function is added under a name no other has.                          *)
LEMMA FunctionAdded ==
  ASSUME NEW p \in Seq(Statements), Established(p), NEW k \in 0 .. Len(p) - 1,
         NEW functions, HoldsFunctions(p, k, functions), IsEmitted(p[k + 1])
  PROVE  HoldsFunctions(p, k + 1, Append(functions, p[k + 1].name))
<1> DEFINE more == Append(functions, p[k + 1].name)
<1>1. /\ k \in Nat /\ Len(p) \in Nat /\ k + 1 \in 1 .. k + 1 /\ k + 1 \in 1 .. Len(p)
      /\ \A j \in 1 .. k : j \in 1 .. k + 1 /\ j \in 1 .. Len(p) /\ j # k + 1
  OBVIOUS
<1>2. functions \in Seq(Names \cup {Nothing}) /\ Len(functions) \in Nat
  BY DEF HoldsFunctions
<1>3. p[k + 1] \in Statements /\ p[k + 1].name \in Names \cup {Nothing}
  BY <1>1, SessionAssumption DEF StatementShape
<1>4. /\ more \in Seq(Names \cup {Nothing}) /\ Len(more) = Len(functions) + 1
      /\ more[Len(functions) + 1] = p[k + 1].name
      /\ \A x \in 1 .. Len(functions) : more[x] = functions[x]
  BY <1>2, <1>3
<1> HIDE DEF more
<1>5. \A x \in 1 .. Len(more) : x = Len(functions) + 1 \/ x \in 1 .. Len(functions)
  BY <1>2, <1>4
<1>6. ASSUME NEW x \in 1 .. Len(functions)
      PROVE  more[x] # p[k + 1].name
             /\ \E j \in 1 .. k + 1 : IsEmitted(p[j]) /\ p[j].name = more[x]
  <2>1. PICK j \in 1 .. k : IsEmitted(p[j]) /\ p[j].name = more[x]
    BY <1>4 DEF HoldsFunctions
  <2>2. j # k + 1 /\ IsLet(p[j]) /\ IsLet(p[k + 1])
    BY <1>1, <2>1 DEF IsEmitted
  <2> QED  BY <1>1, <2>1, <2>2 DEF Established
<1>7. \A x \in 1 .. Len(more) :
        \E j \in 1 .. k + 1 : IsEmitted(p[j]) /\ p[j].name = more[x]
  BY <1>1, <1>4, <1>5, <1>6
<1>8. \A x, y \in 1 .. Len(more) : more[x] = more[y] => x = y
  <2> SUFFICES ASSUME NEW x \in 1 .. Len(more), NEW y \in 1 .. Len(more), more[x] = more[y]
               PROVE  x = y
    OBVIOUS
  <2>1. CASE x \in 1 .. Len(functions) /\ y \in 1 .. Len(functions)
    BY <1>4, <2>1 DEF HoldsFunctions
  <2>2. CASE x \notin 1 .. Len(functions) \/ y \notin 1 .. Len(functions)
    BY <1>4, <1>5, <1>6, <2>2
  <2> QED  BY <2>1, <2>2
<1> QED  BY <1>4, <1>7, <1>8 DEF HoldsFunctions, more

(* One turn of the loop keeps the agreement.                               *)
LEMMA StatementAgrees ==
  ASSUME NEW p \in Seq(Statements), Established(p), Supported(p),
         NEW k \in 0 .. Len(p) - 1, NEW m, Agrees(p, k, m)
  PROVE  Agrees(p, k + 1, LowerStatement(m, p[k + 1]))
<1>1. /\ k \in Nat /\ Len(p) \in Nat /\ k + 1 \in 1 .. Len(p) /\ k \in 0 .. Len(p)
      /\ (k + 1) - 1 = k
  OBVIOUS
<1>2. PICK s \in Statements : s = p[k + 1]
  BY <1>1
<1>3. PICK l : l = LowerOne(m, s)
  OBVIOUS
<1>4. l = LowerStatement(m, p[k + 1]) /\ IsModule(m)
  BY <1>2, <1>3 DEF LowerStatement, Agrees
<1>5. \A j \in 1 .. k : j \in 1 .. k + 1
  BY <1>1
<1>6. Contexts(p)[k + 1].types =
        IF s.form = "typedecl" THEN Contexts(p)[k].types \cup {s.name} ELSE Contexts(p)[k].types
  <2>1. Contexts(p)[k + 1] = CheckStatement(Contexts(p)[k], s)
    BY <1>1, <1>2, ContextsEquation
  <2> QED  BY <2>1 DEF CheckStatement
<1>7. /\ s.form # "lambda" => s.uses \subseteq Usable(p, k) \cap UsedIn(p)
      /\ s.form # "lambda" /\ ~ IsInlineable(s) => s.fate = "lowers"
  <2>1. s.uses \subseteq UsedIn(p)
    BY <1>1, <1>2 DEF UsedIn
  <2>2. s.form # "lambda" => s.uses \subseteq Usable(p, k)
    BY <1>1, <1>2 DEF Established
  <2>3. s.form # "lambda" /\ ~ IsInlineable(s) => s.fate = "lowers"
    BY <1>1, <1>2 DEF Supported
  <2> QED  BY <2>1, <2>2, <2>3
<1>8. ASSUME NEW functions, HoldsFunctions(p, k, functions)
      PROVE  HoldsFunctions(p, k + 1, functions)
  BY <1>5, <1>8 DEF HoldsFunctions
<1>9. CASE s.form = "lambda"
  <2>1. IsLet(s) /\ ~ IsInlineable(s) /\ ~ IsEmitted(s) /\ s.form # "typedecl"
    BY <1>9 DEF IsLet, IsInlineable, IsEmitted
  <2>2. SameButEntry(l, LowerLet(m, s))
    BY <1>3, <1>4, <2>1, LowerOneIs
  <2>3. /\ IsModule(l) /\ l.status = m.status /\ l.mistyped = m.mistyped
        /\ l.abstractions = Bind(m.abstractions, s.name, s)
        /\ l.inlineable = m.inlineable /\ l.specializations = m.specializations
        /\ l.symbols = m.symbols /\ l.types = m.types /\ l.functions = m.functions
    BY <1>4, <1>9, <2>2, KeepsAsLambda DEF SameButEntry
  <2>4. HoldsDeclarations(p, k + 1, l)
    BY <1>2, <1>9, <2>1, <2>3, DeclarationAdded DEF Agrees
  <2>5. IsFiniteSet(DOMAIN l.abstractions)
    <3>1. DOMAIN l.abstractions = DOMAIN m.abstractions \cup {s.name}
      BY <2>3 DEF Bind
    <3> QED  BY <3>1, FS_AddElement DEF Agrees
  <2> QED  BY <1>4, <1>6, <1>8, <2>1, <2>3, <2>4, <2>5 DEF Agrees
<1>10. CASE IsInlineable(s)
  <2>1. IsLet(s) /\ s.form # "lambda" /\ ~ IsEmitted(s) /\ s.form # "typedecl"
    BY <1>10 DEF IsLet, IsInlineable, IsEmitted
  <2>2. SameButEntry(l, LowerLet(m, s))
    BY <1>3, <1>4, <2>1, LowerOneIs
  <2>3. /\ IsModule(l) /\ l.status = m.status /\ l.mistyped = m.mistyped
        /\ l.abstractions = m.abstractions
        /\ l.inlineable = Bind(m.inlineable, s.name, s)
        /\ l.specializations = m.specializations
        /\ l.symbols = m.symbols /\ l.types = m.types /\ l.functions = m.functions
    BY <1>4, <1>10, <2>2, KeepsForInlining DEF SameButEntry
  <2>4. HoldsDeclarations(p, k + 1, l)
    BY <1>2, <1>10, <2>1, <2>3, DeclarationAdded DEF Agrees
  <2>5. IsFiniteSet(DOMAIN l.inlineable)
    <3>1. DOMAIN l.inlineable = DOMAIN m.inlineable \cup {s.name}
      BY <2>3 DEF Bind
    <3> QED  BY <3>1, FS_AddElement DEF Agrees
  <2> QED  BY <1>4, <1>6, <1>8, <2>1, <2>3, <2>4, <2>5 DEF Agrees
<1>11. CASE IsEmitted(s)
  <2>1. IsLet(s) /\ s.form # "lambda" /\ ~ IsInlineable(s) /\ s.form # "typedecl"
    BY <1>11 DEF IsLet, IsEmitted
  <2>2. PICK d : d = LowerUses(m, s)
    OBVIOUS
  <2>3. Agrees(p, k, d)
    BY <1>1, <1>7, <2>1, <2>2, UsesLower
  <2>4. LowerLet(m, s) = Emit(d, s)
    BY <2>1, <2>2, <2>3 DEF LowerLet, Agrees
  <2>5. SameButEntry(l, Emit(d, s))
    BY <1>3, <1>4, <2>1, <2>4, LowerOneIs
  <2>6. /\ IsModule(l) /\ l.status = d.status /\ l.mistyped = d.mistyped
        /\ l.abstractions = d.abstractions /\ l.inlineable = d.inlineable
        /\ l.specializations = d.specializations
        /\ l.symbols = Bind(d.symbols, s.name, s) /\ l.types = d.types
        /\ l.functions = Append(d.functions, s.name)
    <3>1. PICK b : b = Emit(d, s)
      OBVIOUS
    <3>2. IsModule(d)
      BY <2>3 DEF Agrees
    <3>3. /\ b.status = d.status /\ b.mistyped = d.mistyped
          /\ b.abstractions = d.abstractions /\ b.inlineable = d.inlineable
          /\ b.specializations = d.specializations
          /\ b.symbols = Bind(d.symbols, s.name, s) /\ b.types = d.types
          /\ b.functions = Append(d.functions, s.name)
      BY <3>1, <3>2, EmitAdds
    <3> QED  BY <2>5, <3>1, <3>3 DEF SameButEntry
  <2>7. HoldsDeclarations(p, k + 1, l)
    BY <1>2, <1>11, <2>1, <2>3, <2>6, DeclarationAdded DEF Agrees
  <2>8. HoldsFunctions(p, k + 1, l.functions)
    BY <1>2, <1>11, <2>3, <2>6, FunctionAdded DEF Agrees
  <2> QED  BY <1>4, <1>6, <2>1, <2>3, <2>6, <2>7, <2>8 DEF Agrees
<1>12. CASE s.form = "typedecl"
  <2>1. ~ IsLet(s) /\ s.form # "lambda" /\ ~ IsInlineable(s) /\ ~ IsEmitted(s)
    BY <1>12 DEF IsLet, IsInlineable, IsEmitted
  <2>2. SameButEntry(l, LowerTypeDecl(m, s))
    BY <1>3, <1>4, <1>12, LowerOneIs
  <2>3. s.name \notin m.types
    BY <1>1, <1>2, <1>12 DEF Established, Agrees
  <2>4. LowerTypeDecl(m, s) = [m EXCEPT !.types = m.types \cup {s.name}]
    BY <2>3 DEF LowerTypeDecl
  <2>5. /\ IsModule(l) /\ l.status = m.status /\ l.mistyped = m.mistyped
        /\ l.abstractions = m.abstractions /\ l.inlineable = m.inlineable
        /\ l.specializations = m.specializations /\ l.symbols = m.symbols
        /\ l.types = m.types \cup {s.name} /\ l.functions = m.functions
    BY <1>4, <2>2, <2>4 DEF SameButEntry, IsModule
  <2>6. HoldsDeclarations(p, k + 1, l)
    BY <1>2, <2>1, <2>5, DeclarationAdded DEF Agrees
  <2> QED  BY <1>4, <1>6, <1>8, <1>12, <2>5, <2>6 DEF Agrees
<1>13. CASE ~ IsLet(s) /\ s.form # "typedecl"
  <2>1. s.form # "lambda" /\ ~ IsInlineable(s) /\ ~ IsEmitted(s)
    BY <1>13 DEF IsLet, IsInlineable, IsEmitted
  <2>2. PICK d : d = LowerUses(m, s)
    OBVIOUS
  <2>3. Agrees(p, k, d)
    BY <1>1, <1>7, <2>1, <2>2, UsesLower
  <2>4. SameButEntry(l, d)
    BY <1>3, <1>4, <1>13, <2>2, LowerOneIs
  <2>5. HoldsDeclarations(p, k + 1, l)
    BY <1>2, <2>1, <2>3, <2>4, DeclarationAdded DEF Agrees, SameButEntry
  <2> QED  BY <1>4, <1>6, <1>8, <1>13, <2>3, <2>4, <2>5 DEF Agrees, SameButEntry
<1> QED  BY <1>9, <1>10, <1>11, <1>12, <1>13 DEF IsEmitted

LEMMA ProgramAgrees ==
  ASSUME NEW p \in Seq(Statements), TypeChecks(p), NamesAreFresh(p), Supported(p)
  PROVE  Agrees(p, Len(p), Lower(p)) /\ Established(p)
<1> DEFINE G == {k \in 0 .. Len(p) : Agrees(p, k, Modules(p)[k])}
<1>1. Len(p) \in Nat /\ Established(p)
  BY CheckingEstablishes
<1>2. 0 \in G
  <2>1. PICK m : m = EmptyModule
    OBVIOUS
  <2>2. /\ m.status = "ok" /\ m.mistyped = FALSE /\ m.types = {}
        /\ m.abstractions = <<>> /\ m.inlineable = <<>> /\ m.specializations = <<>>
        /\ m.functions = <<>>
        /\ m.symbols = [b \in Builtins |->
                          [form |-> "builtin", name |-> b, type |-> BuiltinType[b],
                           uses |-> {}, fate |-> "lowers"]]
    BY <2>1 DEF EmptyModule
  <2>3. /\ DOMAIN m.symbols = Builtins
        /\ \A b \in Builtins : m.symbols[b].type = BuiltinType[b]
    BY <2>2
  <2>4. DOMAIN m.abstractions = {} /\ DOMAIN m.inlineable = {} /\ DOMAIN m.specializations = {}
    BY <2>2
  <2>5. HoldsDeclarations(p, 0, m)
    BY <2>3, <2>4 DEF HoldsDeclarations
  <2>6. HoldsFunctions(p, 0, m.functions)
    BY <2>2 DEF HoldsFunctions
  <2>7. Contexts(p)[0].types = {}
    BY ContextsEquation DEF InitialContext
  <2>8. IsFiniteSet({}) /\ IsModule(m)
    BY <2>1, FS_EmptySet, EmptyIsModule
  <2>9. Agrees(p, 0, m)
    BY <2>2, <2>4, <2>5, <2>6, <2>7, <2>8 DEF Agrees
  <2> QED  BY <1>1, <2>1, <2>9, ModulesEquation
<1>3. ASSUME NEW k \in 0 .. Len(p) - 1, k \in G
      PROVE  k + 1 \in G
  <2>1. k + 1 \in 1 .. Len(p) /\ k + 1 \in 0 .. Len(p) /\ (k + 1) - 1 = k
    BY <1>1
  <2>2. Modules(p)[k + 1] = LowerStatement(Modules(p)[k], p[k + 1])
    BY <2>1, ModulesEquation
  <2> QED  BY <1>1, <1>3, <2>1, <2>2, StatementAgrees
<1>4. \A k \in 0 .. Len(p) : k \in G
  <2> HIDE DEF G
  <2> QED  BY <1>1, <1>2, <1>3, Counting
<1>5. Len(p) \in 0 .. Len(p)
  BY <1>1
<1> QED  BY <1>1, <1>4, <1>5 DEF Lower

(* A supported program that declares each name once lowers, each use is    *)
(* compiled to a declaration of its own type, and the verifier accepts it. *)
LEMMA FreshProgramLowers ==
  ASSUME NEW p \in Seq(Statements), TypeChecks(p), NamesAreFresh(p), Supported(p)
  PROVE  Lower(p).status = "ok" /\ ~ Lower(p).mistyped /\ Verifies(Lower(p))
<1>1. PICK m : m = Lower(p)
  OBVIOUS
<1>2. Agrees(p, Len(p), m) /\ Established(p)
  BY <1>1, ProgramAgrees
<1>3. HoldsFunctions(p, Len(p), m.functions)
  BY <1>2 DEF Agrees
<1>4. m.functions \in Seq(Names \cup {Nothing}) /\ DOMAIN m.functions = 1 .. Len(m.functions)
  BY <1>3 DEF HoldsFunctions
<1>5. IsInjective(m.functions)
  BY <1>3, <1>4 DEF HoldsFunctions, IsInjective
<1>6. \A i \in 1 .. Len(m.functions) : m.functions[i] \notin Builtins \cup Externs
  BY <1>2, <1>3 DEF HoldsFunctions, Established, IsEmitted
<1> QED  BY <1>1, <1>2, <1>5, <1>6 DEF Verifies, Agrees

(* As long as a session declares each name once and uses supported         *)
(* expressions only, what is kept lowers and verifies: checking goes with  *)
(* the names in scope at each statement and lowering, which comes to a     *)
(* body at its first use (stmt.rs:1479, apply.rs:240), with all there are, *)
(* but they do not disagree.                                               *)
THEOREM SessionFreshSupportedLower == Spec => []FreshSupportedLower
<1>1. InStep => FreshSupportedLower
  <2> SUFFICES ASSUME InStep, phase = "reading", NamesAreFresh(accumulated),
                      Supported(accumulated)
               PROVE  /\ Lower(accumulated).status = "ok" /\ ~ Lower(accumulated).mistyped
                      /\ Verifies(Lower(accumulated))
    BY DEF FreshSupportedLower
  <2>1. accumulated \in Seq(Statements) /\ TypeChecks(accumulated)
    BY DEF InStep, Kept, TypeOK
  <2> QED  BY <2>1, FreshProgramLowers
<1> QED  BY <1>1, AlwaysInStep, PTL
=============================================================================
