---------------------------- MODULE StringsProofs ----------------------------
(***************************************************************************)
(* Theorems about the string builtins, for strings, lists and inputs of    *)
(* any length: nothing is read or written outside of what was allocated,   *)
(* every string ends, and `fromchars`, `tochars` and `+` compute what they *)
(* promise.                                                                *)
(***************************************************************************)
EXTENDS Strings, SequenceTheorems, WellFoundedInduction, TLAPS

(***************************************************************************)
(* The loop invariants, one per place in a builtin.                        *)
(***************************************************************************)
Chained(addresses, C) ==
  \A k \in 1 .. Len(addresses) :
    /\ addresses[k] \in 1 .. Len(C)
    /\ C[addresses[k]].tail = Pointer(addresses, k + 1)

AllChained == \A l \in 1 .. Len(lists) : Chained(lists[l], cells)

InCount ==
  pc = "count" =>
    \E l \in 1 .. Len(lists) :
      /\ args = <<l>>
      /\ n \in 0 .. Len(lists[l])
      /\ ptr = Pointer(lists[l], n + 1)

InFill ==
  pc = "fill" =>
    \E l \in 1 .. Len(lists) :
      /\ args = <<l>>
      /\ len = Len(lists[l])
      /\ Len(buf) = len + 1
      /\ n \in 0 .. len
      /\ ptr = Pointer(lists[l], n + 1)
      /\ \A k \in 1 .. n : buf[k] = Trunc(cells[lists[l][k]].head)

InScan ==
  pc = "scan" =>
    \E s \in 1 .. Len(strs) :
      /\ args = <<s>>
      /\ Len(frames) < Len(strs[s])
      /\ \A k \in 1 .. Len(frames) : frames[k] = strs[s][k] /\ frames[k] # 0

IsLength(b, m) ==
  /\ m \in 0 .. Len(b) - 1
  /\ b[m + 1] = 0
  /\ \A k \in 1 .. m : b[k] # 0

InBuild ==
  pc = "build" =>
    \E s \in 1 .. Len(strs) :
      /\ args = <<s>>
      /\ IsLength(strs[s], Len(frames) + Len(path))
      /\ \A k \in 1 .. Len(frames) : frames[k] = strs[s][k]
      /\ Chained(path, cells)
      /\ ptr = Pointer(path, 1)
      /\ \A k \in 1 .. Len(path) : cells[path[k]].head = strs[s][Len(frames) + k]

InConcat ==
  pc \in {"strcpy", "strcat"} =>
    \E s, t \in 1 .. Len(strs) :
      /\ args = <<s, t>>
      /\ Len(buf) = StrLen(strs[s]) + StrLen(strs[t]) + 1
      /\ pc = "strcat" =>
           /\ \A k \in 1 .. StrLen(strs[s]) : buf[k] = strs[s][k]
           /\ buf[StrLen(strs[s]) + 1] = 0

InReadIn ==
  /\ pc \in {"read", "cut"} => Len(buf) = BufferSize
  /\ pc = "cut" => n < BufferSize /\ \A k \in 1 .. n : buf[k] \in Byte
  /\ pc = "strip" => Terminated(buf)

Running ==
  /\ MemorySafe
  /\ InCount
  /\ InFill
  /\ InScan
  /\ InBuild
  /\ InConcat
  /\ InReadIn

(***************************************************************************)
(* What a call that has returned has computed.                             *)
(***************************************************************************)
Heads(addresses, C) == [k \in 1 .. Len(addresses) |-> C[addresses[k]].head]

Computed(r, S, C, L) ==
  /\ r.op = "fromchars" =>
       /\ r.args[1] \in 1 .. Len(L)
       /\ r.result \in 1 .. Len(S)
       /\ S[r.result] = Append([k \in 1 .. Len(L[r.args[1]]) |->
                                  Trunc(Heads(L[r.args[1]], C)[k])], 0)
  /\ r.op = "tochars" =>
       /\ r.args[1] \in 1 .. Len(S)
       /\ r.result \in 1 .. Len(L)
       /\ Heads(L[r.result], C) = CString(S[r.args[1]])
  /\ r.op = "+" =>
       /\ r.args[1] \in 1 .. Len(S)
       /\ r.args[2] \in 1 .. Len(S)
       /\ r.result \in 1 .. Len(S)
       /\ CString(S[r.result]) = CString(S[r.args[1]]) \o CString(S[r.args[2]])

LogOK == \A i \in 1 .. Len(log) : Computed(log[i], strs, cells, lists)

Invariant == TypeOK /\ AllChained /\ StringsEnd /\ LogOK /\ Running

-----------------------------------------------------------------------------
(***************************************************************************)
(* The least-number principle, for sets: from it follow the existence of   *)
(* the first NUL of a string and the properties of the CHOOSE in FirstOf.  *)
(***************************************************************************)
LessThan == {pair \in Nat \X Nat : pair[1] < pair[2]}

LEMMA Least ==
  ASSUME NEW T \in SUBSET Nat, T # {}
  PROVE  \E m \in T : \A k \in T : m <= k
<1>1. IsWellFoundedOn(LessThan, Nat)
  BY NatLessThanWellFounded DEF OpToRel, LessThan
<1>2. PICK m \in T : \A k \in T : <<k, m>> \notin LessThan
  BY <1>1, WFMin
<1>3. ASSUME NEW k \in T PROVE m <= k
  <2>1. <<k, m>> \in Nat \X Nat
    OBVIOUS
  <2>2. ~ (k < m)
    BY <1>2, <2>1 DEF LessThan
  <2> QED
    BY <2>2
<1> QED
  BY <1>3

Cells == Byte \cup {Junk}

LEMMA FirstOfFound ==
  ASSUME NEW b \in Seq(Cells), NEW Ends, \E k \in 1 .. Len(b) : b[k] \in Ends
  PROVE  /\ FirstOf(b, Ends) \in 0 .. Len(b) - 1
         /\ b[FirstOf(b, Ends) + 1] \in Ends
         /\ \A i \in 1 .. FirstOf(b, Ends) : b[i] \notin Ends
<1> DEFINE T == {k \in Nat : k < Len(b) /\ b[k + 1] \in Ends}
<1>1. T # {}
  <2>1. PICK k \in 1 .. Len(b) : b[k] \in Ends
    OBVIOUS
  <2>2. k - 1 \in T
    BY <2>1
  <2> QED
    BY <2>2
<1>2. PICK m \in T : \A k \in T : m <= k
  <2> HIDE DEF T
  <2>1. T \in SUBSET Nat
    BY DEF T
  <2> QED
    BY <1>1, <2>1, Least
<1>3. m \in 0 .. Len(b) - 1 /\ b[m + 1] \in Ends
  OBVIOUS
<1>4. \A i \in 1 .. m : b[i] \notin Ends
  <2> SUFFICES ASSUME NEW i \in 1 .. m, b[i] \in Ends PROVE FALSE
    OBVIOUS
  <2>1. i - 1 \in T
    BY <1>3
  <2> QED
    BY <1>2, <2>1
<1> QED
  BY <1>3, <1>4 DEF FirstOf

LEMMA LengthUnique ==
  ASSUME NEW b \in Seq(Cells), NEW m, IsLength(b, m)
  PROVE  StrLen(b) = m
<1>1. m + 1 \in 1 .. Len(b) /\ b[m + 1] \in {0}
  BY DEF IsLength
<1>2. /\ StrLen(b) \in 0 .. Len(b) - 1
      /\ b[StrLen(b) + 1] = 0
      /\ \A i \in 1 .. StrLen(b) : b[i] # 0
  BY <1>1, FirstOfFound DEF StrLen
<1> QED
  BY <1>2 DEF IsLength

(***************************************************************************)
(* Of a string that ends: strlen stops at its first NUL, and what is       *)
(* before it is bytes.                                                     *)
(***************************************************************************)
LEMMA StringFacts ==
  ASSUME NEW b \in Seq(Cells), Terminated(b)
  PROVE  /\ IsLength(b, StrLen(b))
         /\ StrLen(b) \in Nat
         /\ Len(b) > StrLen(b)
         /\ CString(b) \in Seq(Byte)
         /\ Len(CString(b)) = StrLen(b)
         /\ \A i \in 1 .. StrLen(b) : CString(b)[i] = b[i]
<1>1. PICK k \in 1 .. Len(b) : b[k] = 0 /\ \A i \in 1 .. k : b[i] \in Byte
  BY DEF Terminated
<1>2. /\ StrLen(b) \in 0 .. Len(b) - 1
      /\ b[StrLen(b) + 1] = 0
      /\ \A i \in 1 .. StrLen(b) : b[i] # 0
  BY <1>1, FirstOfFound DEF StrLen
<1>3. StrLen(b) < k
  BY <1>1, <1>2
<1>4. \A i \in 1 .. StrLen(b) : b[i] \in Byte
  BY <1>1, <1>2, <1>3
<1>5. /\ CString(b) \in Seq(Byte)
      /\ Len(CString(b)) = StrLen(b)
      /\ \A i \in 1 .. StrLen(b) : CString(b)[i] = b[i]
  BY <1>2, <1>4, SubSeqProperties DEF CString
<1> QED
  BY <1>2, <1>5 DEF IsLength

-----------------------------------------------------------------------------
(***************************************************************************)
(* Strings, cells and lists are made and never changed, so that what has   *)
(* been computed stays computed.                                           *)
(***************************************************************************)
Extends(s, t) == Len(s) <= Len(t) /\ \A i \in 1 .. Len(s) : t[i] = s[i]

LEMMA ChainedGrows ==
  ASSUME NEW C \in Seq(Cell), NEW D \in Seq(Cell), Extends(C, D),
         NEW addresses \in Seq(Nat), Chained(addresses, C)
  PROVE  /\ Chained(addresses, D)
         /\ Heads(addresses, D) = Heads(addresses, C)
<1>1. \A k \in 1 .. Len(addresses) :
        addresses[k] \in 1 .. Len(D) /\ D[addresses[k]] = C[addresses[k]]
  BY DEF Chained, Extends
<1>2. Chained(addresses, D)
  BY <1>1 DEF Chained
<1>3. Heads(addresses, D) = Heads(addresses, C)
  BY <1>1 DEF Heads
<1> QED
  BY <1>2, <1>3

LEMMA ComputedGrows ==
  ASSUME NEW S \in Seq(Seq(Cells)), NEW T \in Seq(Seq(Cells)), Extends(S, T),
         NEW C \in Seq(Cell), NEW D \in Seq(Cell), Extends(C, D),
         NEW L \in Seq(Seq(Nat)), NEW M \in Seq(Seq(Nat)), Extends(L, M),
         \A l \in 1 .. Len(L) : Chained(L[l], C),
         NEW r, Computed(r, S, C, L)
  PROVE  Computed(r, T, D, M)
<1>1. \A l \in 1 .. Len(L) : M[l] = L[l] /\ Heads(M[l], D) = Heads(L[l], C)
  <2> TAKE l \in 1 .. Len(L)
  <2>1. M[l] = L[l] /\ L[l] \in Seq(Nat)
    BY DEF Extends
  <2> QED
    BY <2>1, ChainedGrows
<1>2. \A s \in 1 .. Len(S) : s \in 1 .. Len(T) /\ T[s] = S[s]
  BY DEF Extends
<1>3. \A l \in 1 .. Len(L) : l \in 1 .. Len(M)
  BY DEF Extends
<1>4. r.op = "fromchars" =>
       /\ r.args[1] \in 1 .. Len(M)
       /\ r.result \in 1 .. Len(T)
       /\ T[r.result] = Append([k \in 1 .. Len(M[r.args[1]]) |->
                                  Trunc(Heads(M[r.args[1]], D)[k])], 0)
  BY <1>1, <1>2, <1>3 DEF Computed
<1>5. r.op = "tochars" =>
       /\ r.args[1] \in 1 .. Len(T)
       /\ r.result \in 1 .. Len(M)
       /\ Heads(M[r.result], D) = CString(T[r.args[1]])
  BY <1>1, <1>2, <1>3 DEF Computed
<1>6. r.op = "+" =>
       /\ r.args[1] \in 1 .. Len(T)
       /\ r.args[2] \in 1 .. Len(T)
       /\ r.result \in 1 .. Len(T)
       /\ CString(T[r.result]) = CString(T[r.args[1]]) \o CString(T[r.args[2]])
  BY <1>1, <1>2, <1>3 DEF Computed
<1> QED
  BY <1>4, <1>5, <1>6 DEF Computed

LEMMA WrittenFacts ==
  ASSUME buf \in Seq(Cells), NEW offset \in Nat, NEW bytes \in Seq(Cells)
  PROVE  /\ Written(offset, bytes) \in Seq(Cells)
         /\ Len(Written(offset, bytes)) = Len(buf)
         /\ \A i \in 1 .. Len(buf) :
              Written(offset, bytes)[i] =
                IF i - offset \in 1 .. Len(bytes) THEN bytes[i - offset] ELSE buf[i]
BY DEF Written

LEMMA FreshFacts ==
  ASSUME NEW size \in Nat
  PROVE  Fresh(size) \in Seq(Cells) /\ Len(Fresh(size)) = size
BY DEF Fresh, Cells

LEMMA TruncIsByte ==
  ASSUME NEW c \in Nat
  PROVE  Trunc(c) \in Byte
BY StringsAssumption DEF Trunc, Byte

LEMMA PointerFacts ==
  ASSUME NEW addresses \in Seq(Nat), NEW k \in Nat
  PROVE  Pointer(addresses, k) \in Nat
BY DEF Pointer, Null

-----------------------------------------------------------------------------
(***************************************************************************)
(* What holds of the program's strings, lists and calls goes on to hold    *)
(* when a step only adds to them.                                          *)
(***************************************************************************)
LEMMA Growth ==
  ASSUME Invariant, TypeOK',
         Extends(strs, strs'), Extends(cells, cells'), Extends(lists, lists'),
         Extends(log, log'),
         \A l \in Len(lists) + 1 .. Len(lists') : Chained(lists'[l], cells'),
         \A i \in Len(log) + 1 .. Len(log') : Computed(log'[i], strs', cells', lists')
  PROVE  AllChained' /\ LogOK'
<1>1. AllChained'
  <2> SUFFICES ASSUME NEW l \in 1 .. Len(lists') PROVE Chained(lists'[l], cells')
    BY DEF AllChained
  <2>1. CASE l \in 1 .. Len(lists)
    <3>1. lists[l] \in Seq(Nat)
      <4>1. lists \in Seq(Seq(Nat))
        BY DEF Invariant, TypeOK
      <4> QED
        BY <2>1, <4>1
    <3>2. lists'[l] = lists[l] /\ Chained(lists[l], cells)
      BY <2>1 DEF Invariant, AllChained, Extends
    <3>3. cells \in Seq(Cell) /\ cells' \in Seq(Cell)
      BY DEF Invariant, TypeOK
    <3> QED
      BY <3>1, <3>2, <3>3, ChainedGrows
  <2>2. CASE l \notin 1 .. Len(lists)
    <3>1. l \in Len(lists) + 1 .. Len(lists')
      BY <2>2 DEF Invariant, TypeOK
    <3> QED
      BY <3>1
  <2> QED
    BY <2>1, <2>2
<1>2. LogOK'
  <2> SUFFICES ASSUME NEW i \in 1 .. Len(log')
               PROVE  Computed(log'[i], strs', cells', lists')
    BY DEF LogOK
  <2>1. CASE i \in 1 .. Len(log)
    <3>1. log'[i] = log[i] /\ Computed(log[i], strs, cells, lists)
      BY <2>1 DEF Invariant, LogOK, Extends
    <3>2. /\ strs \in Seq(Seq(Cells)) /\ strs' \in Seq(Seq(Cells))
          /\ cells \in Seq(Cell) /\ cells' \in Seq(Cell)
          /\ lists \in Seq(Seq(Nat)) /\ lists' \in Seq(Seq(Nat))
          /\ \A l \in 1 .. Len(lists) : Chained(lists[l], cells)
      BY DEF Invariant, TypeOK, AllChained, Cells
    <3> QED
      BY <3>1, <3>2, ComputedGrows
  <2>2. CASE i \notin 1 .. Len(log)
    <3>1. i \in Len(log) + 1 .. Len(log')
      BY <2>2 DEF Invariant, TypeOK
    <3> QED
      BY <3>1
  <2> QED
    BY <2>1, <2>2
<1> QED
  BY <1>1, <1>2

LEMMA Same ==
  ASSUME NEW s
  PROVE  Extends(s, s)
BY DEF Extends

LEMMA AppendExtends ==
  ASSUME NEW S, NEW s \in Seq(S), NEW e
  PROVE  /\ Extends(s, Append(s, e))
         /\ Len(Append(s, e)) = Len(s) + 1
         /\ Append(s, e)[Len(s) + 1] = e
BY DEF Extends

(***************************************************************************)
(* A step inside a builtin changes its registers only.                     *)
(***************************************************************************)
LEMMA Inside ==
  ASSUME Invariant, UNCHANGED program, TypeOK', Running'
  PROVE  Invariant'
<1>1. AllChained' /\ StringsEnd' /\ LogOK'
  BY DEF Invariant, AllChained, StringsEnd, LogOK, program
<1> QED
  BY <1>1 DEF Invariant

(***************************************************************************)
(* A builtin that returns a string.                                        *)
(***************************************************************************)
LEMMA ReturnsString ==
  ASSUME Invariant, NEW op \in Operations, NEW offset \in Nat, NEW bytes \in Seq(Byte),
         ReturnString(op, offset, bytes), Fits(offset, bytes),
         Terminated(Written(offset, bytes)),
         Computed([op |-> op, args |-> args, result |-> Len(strs) + 1],
                  strs', cells, lists)
  PROVE  Invariant'
<1> DEFINE b == Written(offset, bytes)
           r == [op |-> op, args |-> args, result |-> Len(strs) + 1]
<1>1. b \in Seq(Cells)
  <2>1. buf \in Seq(Cells) /\ bytes \in Seq(Cells)
    BY DEF Invariant, TypeOK, Cells
  <2> QED
    BY <2>1, WrittenFacts
<1>2. r \in [op : Operations, args : Seq(Nat), result : Nat]
  BY DEF Invariant, TypeOK
<1>3. /\ strs' = Append(strs, b)
      /\ log' = Append(log, r)
      /\ pc' = "idle"
      /\ args' = <<>> /\ ptr' = 0 /\ n' = 0 /\ len' = 0
      /\ buf' = <<>> /\ frames' = <<>> /\ path' = <<>>
      /\ UNCHANGED <<cells, lists, input, taken>>
  BY DEF ReturnString, LeaveFrame, stdin, Null
<1> HIDE DEF b, r
<1>4. TypeOK'
  <2>1. strs' \in Seq(Seq(Cells))
    BY <1>1, <1>3 DEF Invariant, TypeOK, Cells
  <2>2. log' \in Seq([op : Operations, args : Seq(Nat), result : Nat])
    BY <1>2, <1>3 DEF Invariant, TypeOK
  <2>3. /\ args' \in Seq(Nat) /\ path' \in Seq(Nat)
        /\ buf' \in Seq(Cells) /\ frames' \in Seq(Byte)
    BY <1>3
  <2> QED
    BY <1>3, <2>1, <2>2, <2>3 DEF Invariant, TypeOK, Cells
<1>5. StringsEnd'
  <2> SUFFICES ASSUME NEW s \in 1 .. Len(strs') PROVE Terminated(strs'[s])
    BY DEF StringsEnd
  <2>1. strs \in Seq(Seq(Cells))
    BY DEF Invariant, TypeOK, Cells
  <2>2. strs'[s] = IF s \in 1 .. Len(strs) THEN strs[s] ELSE b
    BY <1>3, <2>1
  <2>3. Terminated(b)
    BY DEF b
  <2> QED
    BY <2>2, <2>3 DEF Invariant, StringsEnd
<1>6. AllChained' /\ LogOK'
  <2>1. Extends(strs, strs') /\ Extends(log, log') /\ Len(log') = Len(log) + 1
        /\ log'[Len(log) + 1] = r /\ Len(log) \in Nat
    BY <1>3, AppendExtends DEF Invariant, TypeOK
  <2>2. Extends(cells, cells') /\ Extends(lists, lists')
    BY <1>3, Same
  <2>3. \A l \in Len(lists) + 1 .. Len(lists') : Chained(lists'[l], cells')
    BY <1>3 DEF Invariant, TypeOK
  <2>4. \A i \in Len(log) + 1 .. Len(log') : Computed(log'[i], strs', cells', lists')
    <3>1. Computed(r, strs', cells', lists')
      BY <1>3 DEF r
    <3>2. \A i \in Len(log) + 1 .. Len(log') : i = Len(log) + 1
      BY <2>1
    <3> QED
      BY <2>1, <3>1, <3>2
  <2> QED
    BY <1>4, <2>1, <2>2, <2>3, <2>4, Growth
<1>7. Running'
  BY <1>3 DEF Running, MemorySafe, InCount, InFill, InScan, InBuild, InConcat, InReadIn
<1> QED
  BY <1>4, <1>5, <1>6, <1>7 DEF Invariant
-----------------------------------------------------------------------------
LEMMA InitInvariant ==
  ASSUME Init
  PROVE  Invariant
<1>1. TypeOK
  BY StringsAssumption DEF Init, TypeOK, Null
<1>2. AllChained
  BY DEF Init, AllChained, Chained
<1>3. StringsEnd /\ LogOK
  BY DEF Init, StringsEnd, LogOK
<1>4. Running
  BY DEF Init, Running, MemorySafe, InCount, InFill, InScan, InBuild, InConcat,
         InReadIn
<1> QED
  BY <1>1, <1>2, <1>3, <1>4 DEF Invariant

LEMMA StringLiteralStep ==
  ASSUME Invariant, NEW bytes \in Literals, StringLiteral(bytes)
  PROVE  Invariant'
<1> DEFINE b == Append(bytes, 0)
<1>1. b \in Seq(Byte) /\ Len(b) = Len(bytes) + 1 /\ b[Len(b)] = 0
  BY StringsAssumption DEF Byte
<1>2. Terminated(b)
  BY <1>1 DEF Terminated
<1>3. b \in Seq(Cells)
  BY <1>1 DEF Cells
<1>4. /\ strs' = Append(strs, b) /\ pc = "idle" /\ pc' = "idle"
      /\ UNCHANGED <<cells, lists, input, taken, args, ptr, n, len, frames, path,
                     buf, log>>
  BY DEF StringLiteral, stdin, loop
<1> HIDE DEF b
<1>5. TypeOK'
  BY <1>3, <1>4 DEF Invariant, TypeOK, Cells
<1>6. StringsEnd'
  <2> SUFFICES ASSUME NEW s \in 1 .. Len(strs') PROVE Terminated(strs'[s])
    BY DEF StringsEnd
  <2>1. strs'[s] = IF s \in 1 .. Len(strs) THEN strs[s] ELSE b
    <3>1. strs \in Seq(Seq(Cells))
      BY DEF Invariant, TypeOK, Cells
    <3> QED
      BY <1>4, <3>1
  <2> QED
    BY <1>2, <2>1 DEF Invariant, StringsEnd
<1>7. AllChained' /\ LogOK'
  <2>1. Extends(strs, strs')
    BY <1>4, AppendExtends DEF Invariant, TypeOK
  <2>2. Extends(cells, cells') /\ Extends(lists, lists') /\ Extends(log, log')
    BY <1>4, Same
  <2>3. /\ \A l \in Len(lists) + 1 .. Len(lists') : Chained(lists'[l], cells')
        /\ \A i \in Len(log) + 1 .. Len(log') : Computed(log'[i], strs', cells', lists')
    BY <1>4 DEF Invariant, TypeOK
  <2> QED
    BY <1>5, <2>1, <2>2, <2>3, Growth
<1>8. Running'
  BY <1>4 DEF Running, MemorySafe, InCount, InFill, InScan, InBuild, InConcat, InReadIn
<1> QED
  BY <1>5, <1>6, <1>7, <1>8 DEF Invariant

(***************************************************************************)
(* A new cell in front of a chain makes a chain.                           *)
(***************************************************************************)
LEMMA Prepends ==
  ASSUME NEW C \in Seq(Cell), NEW c \in Nat, NEW addresses \in Seq(Nat),
         Chained(addresses, C)
  PROVE  LET D == Append(C, [head |-> c, tail |-> Pointer(addresses, 1)])
             longer == <<Len(C) + 1>> \o addresses
         IN  /\ D \in Seq(Cell)
             /\ longer \in Seq(Nat)
             /\ Extends(C, D)
             /\ Chained(longer, D)
             /\ Len(longer) = Len(addresses) + 1
             /\ Pointer(longer, 1) = Len(C) + 1
             /\ D[Len(C) + 1].head = c
             /\ \A k \in 1 .. Len(addresses) : D[addresses[k]] = C[addresses[k]]
<1> DEFINE cell == [head |-> c, tail |-> Pointer(addresses, 1)]
           D == Append(C, cell)
           longer == <<Len(C) + 1>> \o addresses
<1>1. cell \in Cell /\ cell.tail = Pointer(addresses, 1) /\ cell.head = c
  BY PointerFacts DEF Cell
<1> HIDE DEF cell
<1>2. D \in Seq(Cell) /\ Extends(C, D) /\ Len(D) = Len(C) + 1 /\ D[Len(C) + 1] = cell
  BY <1>1, AppendExtends
<1>3. /\ longer \in Seq(Nat)
      /\ Len(longer) = Len(addresses) + 1
      /\ longer[1] = Len(C) + 1
      /\ \A k \in 1 .. Len(addresses) : longer[k + 1] = addresses[k]
  OBVIOUS
<1>4. Chained(addresses, D)
  BY <1>2, ChainedGrows
<1> HIDE DEF D, longer
<1>5. \A k \in 1 .. Len(addresses) : Pointer(longer, k + 1) = Pointer(addresses, k)
  BY <1>3 DEF Pointer
<1>5a. Pointer(longer, Len(addresses) + 2) = Null /\ Pointer(addresses, Len(addresses) + 1) = Null
  BY <1>3 DEF Pointer
<1>6. \A k \in 1 .. Len(addresses) + 1 : Pointer(longer, k + 1) = Pointer(addresses, k)
  BY <1>5, <1>5a
<1>7. Chained(longer, D)
  <2> SUFFICES ASSUME NEW k \in 1 .. Len(longer)
               PROVE  /\ longer[k] \in 1 .. Len(D)
                      /\ D[longer[k]].tail = Pointer(longer, k + 1)
    BY DEF Chained
  <2>1. CASE k = 1
    BY <1>1, <1>2, <1>3, <1>6, <2>1
  <2>2. CASE k # 1
    <3>0. k \in Nat /\ k - 1 \in 1 .. Len(addresses) /\ k = (k - 1) + 1
      BY <1>3, <2>2
    <3>1. k - 1 \in 1 .. Len(addresses) /\ longer[k] = addresses[k - 1]
      BY <1>3, <3>0
    <3>2. D[addresses[k - 1]].tail = Pointer(addresses, k) /\ addresses[k - 1] \in 1 .. Len(D)
      BY <1>4, <3>1 DEF Chained
    <3> QED
      BY <1>3, <1>6, <3>1, <3>2
  <2> QED
    BY <2>1, <2>2
<1>8. Pointer(longer, 1) = Len(C) + 1
  BY <1>3 DEF Pointer
<1>9. \A k \in 1 .. Len(addresses) : D[addresses[k]] = C[addresses[k]]
  BY <1>2 DEF Chained, Extends
<1> QED
  BY <1>1, <1>2, <1>3, <1>7, <1>8, <1>9 DEF D, longer, cell

LEMMA ConsCharStep ==
  ASSUME Invariant, NEW c \in Chars, NEW l \in 1 .. Len(lists), ConsChar(c, l)
  PROVE  Invariant'
<1>1. /\ cells' = Append(cells, [head |-> c, tail |-> Pointer(lists[l], 1)])
      /\ lists' = Append(lists, <<Len(cells) + 1>> \o lists[l])
      /\ pc = "idle" /\ pc' = "idle"
      /\ UNCHANGED <<strs, input, taken, args, ptr, n, len, frames, path, buf, log>>
  BY DEF ConsChar, stdin, loop
<1> DEFINE longer == <<Len(cells) + 1>> \o lists[l]
<1>2. /\ cells' \in Seq(Cell) /\ Extends(cells, cells')
      /\ longer \in Seq(Nat) /\ Chained(longer, cells')
  <2>1. cells \in Seq(Cell) /\ lists[l] \in Seq(Nat) /\ c \in Nat
    BY StringsAssumption DEF Invariant, TypeOK
  <2>2. Chained(lists[l], cells)
    BY DEF Invariant, AllChained
  <2> QED
    BY <1>1, <2>1, <2>2, Prepends
<1>3. lists' = Append(lists, longer)
  BY <1>1
<1> HIDE DEF longer
<1>4. TypeOK'
  <2>1. lists' \in Seq(Seq(Nat))
    BY <1>2, <1>3 DEF Invariant, TypeOK
  <2> QED
    BY <1>1, <1>2, <2>1 DEF Invariant, TypeOK
<1>5. StringsEnd'
  BY <1>1 DEF Invariant, StringsEnd
<1>6. AllChained' /\ LogOK'
  <2>1. /\ Extends(lists, lists') /\ Len(lists') = Len(lists) + 1
        /\ lists'[Len(lists) + 1] = longer /\ Len(lists) \in Nat
    BY <1>3, AppendExtends DEF Invariant, TypeOK
  <2>2. Extends(strs, strs') /\ Extends(log, log')
    BY <1>1, Same
  <2>3. \A m \in Len(lists) + 1 .. Len(lists') : m = Len(lists) + 1
    BY <2>1
  <2>4. \A m \in Len(lists) + 1 .. Len(lists') : Chained(lists'[m], cells')
    BY <1>2, <2>1, <2>3
  <2>5. \A i \in Len(log) + 1 .. Len(log') : Computed(log'[i], strs', cells', lists')
    BY <1>1 DEF Invariant, TypeOK
  <2> QED
    BY <1>2, <1>4, <2>1, <2>2, <2>4, <2>5, Growth
<1>7. Running'
  BY <1>1 DEF Running, MemorySafe, InCount, InFill, InScan, InBuild, InConcat, InReadIn
<1> QED
  BY <1>4, <1>5, <1>6, <1>7 DEF Invariant

-----------------------------------------------------------------------------
(***************************************************************************)
(* `fromchars`.                                                            *)
(***************************************************************************)
LEMMA FromCharsStep ==
  ASSUME Invariant, NEW l \in 1 .. Len(lists), FromChars(l)
  PROVE  Invariant'
<1>1. lists[l] \in Seq(Nat) /\ l \in Nat
  <2>1. lists \in Seq(Seq(Nat))
    BY DEF Invariant, TypeOK
  <2> QED
    BY <2>1
<1>2. Pointer(lists[l], 1) \in Nat
  BY <1>1, PointerFacts
<1>3. /\ args' = <<l>> /\ ptr' = Pointer(lists[l], 1) /\ n' = 0 /\ pc' = "count"
      /\ UNCHANGED <<program, strs, cells, lists, log, input, taken, len, buf, frames, path>>
  BY DEF FromChars, program, stdin
<1>4. TypeOK'
  BY <1>1, <1>2, <1>3 DEF Invariant, TypeOK
<1>5. InCount'
  <2>1. 0 \in 0 .. Len(lists[l])
    BY <1>1
  <2> QED
    BY <1>3, <2>1 DEF InCount
<1>6. Running'
  BY <1>3, <1>5 DEF Running, MemorySafe, InFill, InScan, InBuild, InConcat, InReadIn
<1> QED
  BY <1>3, <1>4, <1>6, Inside

(***************************************************************************)
(* A pointer is null behind the last cell only.                            *)
(***************************************************************************)
LEMMA AtPointer ==
  ASSUME NEW C \in Seq(Cell), NEW addresses \in Seq(Nat), Chained(addresses, C),
         NEW k \in 0 .. Len(addresses)
  PROVE  /\ Pointer(addresses, k + 1) = Null => k = Len(addresses)
         /\ Pointer(addresses, k + 1) # Null =>
              /\ k < Len(addresses)
              /\ Pointer(addresses, k + 1) = addresses[k + 1]
              /\ addresses[k + 1] \in 1 .. Len(C)
              /\ C[addresses[k + 1]].tail = Pointer(addresses, k + 2)
              /\ C[addresses[k + 1]].head \in Nat
              /\ Pointer(addresses, k + 2) \in Nat
<1>1. CASE k = Len(addresses)
  BY <1>1 DEF Pointer, Null
<1>2. CASE k # Len(addresses)
  <2>1. k + 1 \in 1 .. Len(addresses)
    BY <1>2
  <2>2. addresses[k + 1] \in 1 .. Len(C) /\ C[addresses[k + 1]].tail = Pointer(addresses, k + 2)
    BY <2>1 DEF Chained
  <2>3. C[addresses[k + 1]] \in Cell
    BY <2>2
  <2>4. Pointer(addresses, k + 1) = addresses[k + 1] /\ addresses[k + 1] # Null
    BY <2>1, <2>2 DEF Pointer, Null
  <2>5. Pointer(addresses, k + 2) \in Nat
    <3>1. k + 2 \in Nat
      OBVIOUS
    <3> QED
      BY <3>1, PointerFacts
  <2> QED
    BY <2>1, <2>2, <2>3, <2>4, <2>5, SMTT(30) DEF Cell
<1> QED
  BY <1>1, <1>2

LEMMA CountStep ==
  ASSUME Invariant, Count
  PROVE  Invariant'
<1>1. PICK l \in 1 .. Len(lists) :
        args = <<l>> /\ n \in 0 .. Len(lists[l]) /\ ptr = Pointer(lists[l], n + 1)
  BY DEF Invariant, Running, InCount, Count
<1>2. /\ ptr # Null /\ ptr' = cells[ptr].tail /\ n' = n + 1 /\ pc' = "count"
      /\ UNCHANGED <<program, strs, cells, lists, log, input, taken, args, len, buf,
                     frames, path>>
  BY DEF Count, program, stdin
<1>3. lists[l] \in Seq(Nat) /\ cells \in Seq(Cell) /\ Chained(lists[l], cells)
  <2>1. lists \in Seq(Seq(Nat))
    BY DEF Invariant, TypeOK
  <2> QED
    BY <2>1 DEF Invariant, TypeOK, AllChained
<1>4. n < Len(lists[l]) /\ ptr' = Pointer(lists[l], n + 2) /\ ptr' \in Nat
  <2>1. LET here == Pointer(lists[l], n + 1)
            next == Pointer(lists[l], n + 2)
        IN  here # Null =>
              /\ n < Len(lists[l]) /\ here = lists[l][n + 1]
              /\ cells[lists[l][n + 1]].tail = next
              /\ cells[lists[l][n + 1]].head \in Nat
              /\ next \in Nat
    BY <1>1, <1>3, AtPointer
  <2> QED
    BY <1>1, <1>2, <2>1
<1>5. TypeOK'
  BY <1>1, <1>2, <1>3, <1>4 DEF Invariant, TypeOK
<1>6. InCount'
  <2>1. n' \in 0 .. Len(lists[l]) /\ ptr' = Pointer(lists[l], n' + 1)
    BY <1>1, <1>2, <1>3, <1>4
  <2> QED
    BY <1>1, <1>2, <2>1 DEF InCount
<1>7. Running'
  BY <1>2, <1>6 DEF Running, MemorySafe, InFill, InScan, InBuild, InConcat, InReadIn
<1> QED
  BY <1>2, <1>5, <1>7, Inside

LEMMA AllocateStringStep ==
  ASSUME Invariant, AllocateString
  PROVE  Invariant'
<1>1. PICK l \in 1 .. Len(lists) :
        args = <<l>> /\ n \in 0 .. Len(lists[l]) /\ ptr = Pointer(lists[l], n + 1)
  BY DEF Invariant, Running, InCount, AllocateString
<1>2. /\ ptr = Null /\ len' = n /\ buf' = Fresh(n + 1)
      /\ ptr' = Pointer(lists[l], 1) /\ n' = 0 /\ pc' = "fill"
      /\ UNCHANGED <<program, strs, cells, lists, log, input, taken, args, frames, path>>
  BY <1>1 DEF AllocateString, program, stdin
<1>3. lists[l] \in Seq(Nat) /\ cells \in Seq(Cell) /\ Chained(lists[l], cells)
  <2>1. lists \in Seq(Seq(Nat))
    BY DEF Invariant, TypeOK
  <2> QED
    BY <2>1 DEF Invariant, TypeOK, AllChained
<1>4. n = Len(lists[l])
  BY <1>1, <1>2, <1>3, AtPointer
<1>5. buf' \in Seq(Cells) /\ Len(buf') = n + 1 /\ ptr' \in Nat
  BY <1>2, <1>3, <1>4, FreshFacts, PointerFacts
<1>6. TypeOK'
  BY <1>2, <1>5 DEF Invariant, TypeOK, Cells
<1>7. InFill'
  <2>1. /\ len' = Len(lists[l]) /\ Len(buf') = len' + 1 /\ n' \in 0 .. len'
        /\ ptr' = Pointer(lists[l], n' + 1)
        /\ \A k \in 1 .. n' : buf'[k] = Trunc(cells[lists[l][k]].head)
    BY <1>2, <1>3, <1>4, <1>5
  <2> QED
    BY <1>1, <1>2, <2>1 DEF InFill
<1>8. Running'
  BY <1>2, <1>7 DEF Running, MemorySafe, InCount, InScan, InBuild, InConcat, InReadIn
<1> QED
  BY <1>2, <1>6, <1>8, Inside

LEMMA FillStep ==
  ASSUME Invariant, Fill
  PROVE  Invariant'
<1>1. PICK l \in 1 .. Len(lists) :
        /\ args = <<l>> /\ len = Len(lists[l]) /\ Len(buf) = len + 1
        /\ n \in 0 .. len /\ ptr = Pointer(lists[l], n + 1)
        /\ \A k \in 1 .. n : buf[k] = Trunc(cells[lists[l][k]].head)
  BY DEF Invariant, Running, InFill, Fill
<1>2. lists[l] \in Seq(Nat) /\ cells \in Seq(Cell) /\ Chained(lists[l], cells)
  <2>1. lists \in Seq(Seq(Nat))
    BY DEF Invariant, TypeOK
  <2> QED
    BY <2>1 DEF Invariant, TypeOK, AllChained
<1>3. ptr # Null /\ ptr' = cells[ptr].tail /\ n' = n + 1
  BY DEF Fill
<1>4. /\ n < Len(lists[l]) /\ ptr = lists[l][n + 1] /\ ptr' = Pointer(lists[l], n + 2)
      /\ ptr' \in Nat /\ cells[ptr].head \in Nat
  <2>1. LET here == Pointer(lists[l], n + 1)
            next == Pointer(lists[l], n + 2)
        IN  here # Null =>
              /\ n < Len(lists[l]) /\ here = lists[l][n + 1]
              /\ cells[lists[l][n + 1]].tail = next
              /\ cells[lists[l][n + 1]].head \in Nat
              /\ next \in Nat
    BY <1>1, <1>2, AtPointer
  <2> QED
    BY <1>1, <1>3, <2>1
<1> DEFINE byte == Trunc(cells[ptr].head)
<1>5. byte \in Byte
  BY <1>4, TruncIsByte
<1>6. /\ buf' = Written(n, <<byte>>) /\ pc' = "fill"
      /\ UNCHANGED <<program, strs, cells, lists, log, input, taken, args, len, frames,
                     path>>
  <2>1. n + 1 <= Len(buf)
    BY <1>1, <1>2, <1>4
  <2>2. Fits(n, <<byte>>)
    BY <2>1 DEF Fits
  <2> QED
    BY <2>2 DEF Fill, Store, program, stdin
<1>6a. byte = Trunc(cells[lists[l][n + 1]].head)
  BY <1>4
<1> HIDE DEF byte
<1>7. /\ buf' \in Seq(Cells) /\ Len(buf') = Len(buf)
      /\ \A k \in 1 .. Len(buf) : buf'[k] = IF k = n + 1 THEN byte ELSE buf[k]
  <2>1. buf \in Seq(Cells) /\ n \in Nat /\ <<byte>> \in Seq(Cells)
    BY <1>5 DEF Invariant, TypeOK, Cells
  <2>2. /\ Written(n, <<byte>>) \in Seq(Cells)
        /\ Len(Written(n, <<byte>>)) = Len(buf)
        /\ \A i \in 1 .. Len(buf) :
             Written(n, <<byte>>)[i] =
               IF i - n \in 1 .. Len(<<byte>>) THEN <<byte>>[i - n] ELSE buf[i]
    BY <2>1, WrittenFacts
  <2>3. \A i \in 1 .. Len(buf) : i - n \in 1 .. Len(<<byte>>) <=> i = n + 1
    BY <2>1
  <2>4. \A i \in 1 .. Len(buf) : i = n + 1 => <<byte>>[i - n] = byte
    BY <2>1
  <2> QED
    BY <1>6, <2>2, <2>3, <2>4
<1>8. TypeOK'
  <2>1. buf' \in Seq(Byte \cup {Junk})
    BY <1>7 DEF Cells
  <2>2. n' \in Nat
    BY <1>1, <1>3
  <2> QED
    BY <1>3, <1>4, <1>6, <2>1, <2>2 DEF Invariant, TypeOK
<1>9. InFill'
  <2>1. \A k \in 1 .. n' : buf'[k] = Trunc(cells[lists[l][k]].head)
    <3> SUFFICES ASSUME NEW k \in 1 .. n'
                 PROVE  buf'[k] = Trunc(cells[lists[l][k]].head)
      OBVIOUS
    <3>1. k \in 1 .. Len(buf)
      BY <1>1, <1>3, <1>4
    <3>2. CASE k = n + 1
      BY <1>6a, <1>7, <3>1, <3>2
    <3>3. CASE k # n + 1
      <4>1. k \in 1 .. n
        BY <1>1, <1>3, <3>3
      <4> QED
        BY <1>1, <1>7, <3>1, <3>3, <4>1
    <3> QED
      BY <3>2, <3>3
  <2>2. /\ len' = Len(lists[l]) /\ Len(buf') = len' + 1 /\ n' \in 0 .. len'
        /\ ptr' = Pointer(lists[l], n' + 1)
    BY <1>1, <1>2, <1>3, <1>4, <1>6, <1>7
  <2> QED
    BY <1>1, <1>6, <2>1, <2>2 DEF InFill
<1>10. Running'
  BY <1>6, <1>9 DEF Running, MemorySafe, InCount, InScan, InBuild, InConcat, InReadIn
<1> QED
  BY <1>6, <1>8, <1>10, Inside

LEMMA TerminateStringStep ==
  ASSUME Invariant, TerminateString
  PROVE  Invariant'
<1>1. PICK l \in 1 .. Len(lists) :
        /\ args = <<l>> /\ len = Len(lists[l]) /\ Len(buf) = len + 1
        /\ n \in 0 .. len /\ ptr = Pointer(lists[l], n + 1)
        /\ \A k \in 1 .. n : buf[k] = Trunc(cells[lists[l][k]].head)
  BY DEF Invariant, Running, InFill, TerminateString
<1>2. lists[l] \in Seq(Nat) /\ cells \in Seq(Cell) /\ Chained(lists[l], cells)
  <2>1. lists \in Seq(Seq(Nat))
    BY DEF Invariant, TypeOK
  <2> QED
    BY <2>1 DEF Invariant, TypeOK, AllChained
<1>3. ptr = Null /\ ReturnString("fromchars", len, <<0>>)
  BY DEF TerminateString
<1>4. n = Len(lists[l])
  BY <1>1, <1>2, <1>3, AtPointer
<1>5. len \in Nat /\ <<0>> \in Seq(Byte) /\ buf \in Seq(Cells) /\ <<0>> \in Seq(Cells)
  BY StringsAssumption DEF Invariant, TypeOK, Byte, Cells
<1>6. Fits(len, <<0>>)
  <2>1. Len(<<0>>) = 1
    OBVIOUS
  <2> QED
    BY <1>1, <1>5, <2>1 DEF Fits
<1> DEFINE b == Written(len, <<0>>)
           bytes == [k \in 1 .. len |-> Trunc(cells[lists[l][k]].head)]
<1>7. /\ b \in Seq(Cells) /\ Len(b) = len + 1
      /\ \A i \in 1 .. len + 1 : b[i] = IF i = len + 1 THEN 0 ELSE buf[i]
  <2>1. /\ b \in Seq(Cells)
        /\ Len(b) = Len(buf)
        /\ \A i \in 1 .. Len(buf) :
             b[i] = IF i - len \in 1 .. Len(<<0>>) THEN <<0>>[i - len] ELSE buf[i]
    BY <1>5, WrittenFacts
  <2>2. \A i \in 1 .. len + 1 : i - len \in 1 .. Len(<<0>>) <=> i = len + 1
    BY <1>5
  <2>3. \A i \in 1 .. len + 1 : i = len + 1 => <<0>>[i - len] = 0
    BY <1>5
  <2> QED
    BY <1>1, <2>1, <2>2, <2>3
<1>8. \A k \in 1 .. len : bytes[k] \in Byte /\ b[k] = bytes[k]
  <2> SUFFICES ASSUME NEW k \in 1 .. len PROVE bytes[k] \in Byte /\ b[k] = bytes[k]
    OBVIOUS
  <2>1. lists[l][k] \in 1 .. Len(cells)
    BY <1>1, <1>2 DEF Chained
  <2>2. cells[lists[l][k]].head \in Nat
    <3>1. cells[lists[l][k]] \in Cell
      BY <1>2, <2>1
    <3> QED
      BY <3>1 DEF Cell
  <2>3. bytes[k] = Trunc(cells[lists[l][k]].head)
    OBVIOUS
  <2>4. k \in 1 .. n /\ k \in 1 .. len + 1 /\ k # len + 1
    BY <1>1, <1>4, <1>5
  <2> QED
    BY <1>1, <1>7, <2>2, <2>3, <2>4, TruncIsByte
<1>9. bytes \in Seq(Byte) /\ Len(bytes) = len
  <2>1. bytes \in [1 .. len -> Byte]
    BY <1>8
  <2> QED
    BY <1>5, <2>1
<1> HIDE DEF bytes, b
<1>10. b = Append(bytes, 0)
  <2>1. /\ Append(bytes, 0) \in Seq(Byte)
        /\ Len(Append(bytes, 0)) = len + 1
        /\ Append(bytes, 0)[len + 1] = 0
        /\ \A k \in 1 .. len : Append(bytes, 0)[k] = bytes[k]
    BY <1>5, <1>9 DEF Byte
  <2>2. \A k \in 1 .. Len(b) : b[k] = Append(bytes, 0)[k]
    BY <1>5, <1>7, <1>8, <2>1
  <2>3. Append(bytes, 0) \in Seq(Cells)
    BY <2>1 DEF Cells
  <2> QED
    BY <1>7, <2>1, <2>2, <2>3, SeqEqual
<1>11. Terminated(b)
  <2>1. b[len + 1] = 0 /\ len + 1 \in 1 .. Len(b)
    BY <1>5, <1>7
  <2>2. \A i \in 1 .. len + 1 : b[i] \in Byte
    BY <1>5, <1>7, <1>8 DEF Byte
  <2> QED
    BY <2>1, <2>2 DEF Terminated
<1>12. strs' = Append(strs, b) /\ Len(strs) + 1 \in 1 .. Len(strs') /\ strs'[Len(strs) + 1] = b
  <2>1. strs' = Append(strs, b)
    BY <1>3 DEF ReturnString, b
  <2>2. strs \in Seq(Seq(Cells))
    BY DEF Invariant, TypeOK, Cells
  <2> QED
    BY <1>7, <2>1, <2>2
<1>13. Computed([op |-> "fromchars", args |-> args, result |-> Len(strs) + 1],
                strs', cells, lists)
  <2>1. bytes = [k \in 1 .. Len(lists[l]) |-> Trunc(Heads(lists[l], cells)[k])]
    BY <1>1 DEF bytes, Heads
  <2> QED
    BY <1>1, <1>10, <1>12, <2>1 DEF Computed
<1> QED
  <2>1. Terminated(Written(len, <<0>>))
    BY <1>11 DEF b
  <2>2. "fromchars" \in Operations
    BY DEF Operations
  <2> QED
    BY <1>3, <1>5, <1>6, <1>13, <2>1, <2>2, ReturnsString

-----------------------------------------------------------------------------
(***************************************************************************)
(* `tochars`.                                                              *)
(***************************************************************************)
LEMMA ToCharsStep ==
  ASSUME Invariant, NEW s \in 1 .. Len(strs), ToChars(s)
  PROVE  Invariant'
<1>1. strs \in Seq(Seq(Cells)) /\ s \in Nat
  BY DEF Invariant, TypeOK, Cells
<1>2. strs[s] \in Seq(Cells) /\ Terminated(strs[s])
  BY <1>1 DEF Invariant, StringsEnd
<1>3. Len(strs[s]) > 0
  BY <1>2 DEF Terminated
<1>4. /\ args' = <<s>> /\ frames' = <<>> /\ pc' = "scan"
      /\ UNCHANGED <<program, strs, cells, lists, log, input, taken, ptr, n, len, buf, path>>
  BY DEF ToChars, program, stdin
<1>5. TypeOK'
  BY <1>1, <1>4 DEF Invariant, TypeOK
<1>6. InScan'
  BY <1>3, <1>4 DEF InScan
<1>7. Running'
  BY <1>4, <1>6 DEF Running, MemorySafe, InCount, InFill, InBuild, InConcat, InReadIn
<1> QED
  BY <1>4, <1>5, <1>7, Inside

(***************************************************************************)
(* The scan stays before the first NUL.                                    *)
(***************************************************************************)
LEMMA Scanning ==
  ASSUME Invariant, pc = "scan"
  PROVE  \E s \in 1 .. Len(strs) :
           /\ args = <<s>>
           /\ strs[s] \in Seq(Cells)
           /\ Here = Len(frames) + 1
           /\ Here \in 1 .. Len(strs[s])
           /\ strs[s][Here] \in Byte
           /\ strs[s][Here] # 0 => Here < Len(strs[s])
           /\ \A k \in 1 .. Len(frames) : frames[k] = strs[s][k] /\ frames[k] # 0
<1>1. PICK s \in 1 .. Len(strs) :
        /\ args = <<s>>
        /\ Len(frames) < Len(strs[s])
        /\ \A k \in 1 .. Len(frames) : frames[k] = strs[s][k] /\ frames[k] # 0
  BY DEF Invariant, Running, InScan
<1>2. strs[s] \in Seq(Cells) /\ Terminated(strs[s])
  <2>1. strs \in Seq(Seq(Cells))
    BY DEF Invariant, TypeOK, Cells
  <2> QED
    BY <2>1 DEF Invariant, StringsEnd
<1>3. PICK k \in 1 .. Len(strs[s]) :
        strs[s][k] = 0 /\ \A i \in 1 .. k : strs[s][i] \in Byte
  BY <1>2 DEF Terminated
<1>4. frames \in Seq(Byte)
  BY DEF Invariant, TypeOK
<1>5. Here = Len(frames) + 1 /\ Here \in 1 .. Len(strs[s]) /\ Here <= k
  <2>1. k \notin 1 .. Len(frames)
    BY <1>1, <1>3
  <2> QED
    BY <1>1, <1>2, <1>4, <2>1 DEF Here
<1>6. strs[s][Here] \in Byte /\ (strs[s][Here] # 0 => Here < Len(strs[s]))
  BY <1>2, <1>3, <1>5
<1> QED
  BY <1>1, <1>2, <1>5, <1>6

LEMMA DescendStep ==
  ASSUME Invariant, Descend
  PROVE  Invariant'
<1>1. PICK s \in 1 .. Len(strs) :
        /\ args = <<s>>
        /\ strs[s] \in Seq(Cells)
        /\ Here = Len(frames) + 1
        /\ Here \in 1 .. Len(strs[s])
        /\ strs[s][Here] \in Byte
        /\ strs[s][Here] # 0 => Here < Len(strs[s])
        /\ \A k \in 1 .. Len(frames) : frames[k] = strs[s][k] /\ frames[k] # 0
  BY Scanning DEF Descend
<1>2. Here \in DOMAIN strs[args[1]] /\ strs[args[1]] = strs[s]
  BY <1>1
<1>3. /\ strs[s][Here] # 0 /\ frames' = Append(frames, strs[s][Here]) /\ pc' = "scan"
      /\ UNCHANGED <<program, strs, cells, lists, log, input, taken, args, ptr, n, len,
                     buf, path>>
  BY <1>2 DEF Descend, program, stdin
<1>4. frames \in Seq(Byte)
  BY DEF Invariant, TypeOK
<1>5. /\ frames' \in Seq(Byte) /\ Len(frames') = Len(frames) + 1
      /\ frames'[Here] = strs[s][Here]
      /\ \A k \in 1 .. Len(frames) : frames'[k] = frames[k]
  BY <1>1, <1>3, <1>4
<1>6. TypeOK'
  BY <1>3, <1>5 DEF Invariant, TypeOK
<1>7. InScan'
  <2>1. \A k \in 1 .. Len(frames') : k \in 1 .. Len(frames) \/ k = Here
    BY <1>1, <1>4, <1>5
  <2>2. \A k \in 1 .. Len(frames') : frames'[k] = strs[s][k] /\ frames'[k] # 0
    BY <1>1, <1>3, <1>5, <2>1
  <2>3. Len(frames') < Len(strs[s])
    BY <1>1, <1>3, <1>5
  <2> QED
    BY <1>1, <1>3, <2>2, <2>3 DEF InScan
<1>8. Running'
  BY <1>3, <1>7 DEF Running, MemorySafe, InCount, InFill, InBuild, InConcat, InReadIn
<1> QED
  BY <1>3, <1>6, <1>8, Inside

LEMMA BottomStep ==
  ASSUME Invariant, Bottom
  PROVE  Invariant'
<1>1. PICK s \in 1 .. Len(strs) :
        /\ args = <<s>>
        /\ strs[s] \in Seq(Cells)
        /\ Here = Len(frames) + 1
        /\ Here \in 1 .. Len(strs[s])
        /\ strs[s][Here] \in Byte
        /\ strs[s][Here] # 0 => Here < Len(strs[s])
        /\ \A k \in 1 .. Len(frames) : frames[k] = strs[s][k] /\ frames[k] # 0
  BY Scanning DEF Bottom
<1>2. /\ strs[s][Here] = 0 /\ ptr' = 0 /\ path' = <<>> /\ pc' = "build"
      /\ UNCHANGED <<program, strs, cells, lists, log, input, taken, args, n, len, buf,
                     frames>>
  BY <1>1 DEF Bottom, program, stdin, Null
<1>3. frames \in Seq(Byte)
  BY DEF Invariant, TypeOK
<1>4. TypeOK'
  BY <1>2 DEF Invariant, TypeOK
<1>5. InBuild'
  <2>1. Len(frames) + Len(path') = Len(frames)
    BY <1>2, <1>3
  <2>2. IsLength(strs[s], Len(frames))
    <3>1. Len(frames) \in 0 .. Len(strs[s]) - 1
      BY <1>1, <1>3
    <3>2. \A k \in 1 .. Len(frames) : strs[s][k] # 0
      BY <1>1
    <3>3. strs[s][Len(frames) + 1] = 0
      BY <1>1, <1>2
    <3> QED
      BY <3>1, <3>2, <3>3 DEF IsLength
  <2>3. Chained(path', cells) /\ ptr' = Pointer(path', 1)
    BY <1>2 DEF Chained, Pointer, Null
  <2>4. /\ \A k \in 1 .. Len(frames) : frames[k] = strs[s][k]
        /\ \A k \in 1 .. Len(path') : cells[path'[k]].head = strs[s][Len(frames) + k]
    BY <1>1, <1>2
  <2> QED
    BY <1>1, <1>2, <2>1, <2>2, <2>3, <2>4 DEF InBuild
<1>6. Running'
  BY <1>2, <1>5 DEF Running, MemorySafe, InCount, InFill, InScan, InConcat, InReadIn
<1> QED
  BY <1>2, <1>4, <1>6, Inside

LEMMA BuildCellStep ==
  ASSUME Invariant, BuildCell
  PROVE  Invariant'
<1>1. PICK s \in 1 .. Len(strs) :
        /\ args = <<s>>
        /\ IsLength(strs[s], Len(frames) + Len(path))
        /\ \A k \in 1 .. Len(frames) : frames[k] = strs[s][k]
        /\ Chained(path, cells)
        /\ ptr = Pointer(path, 1)
        /\ \A k \in 1 .. Len(path) : cells[path[k]].head = strs[s][Len(frames) + k]
  BY DEF Invariant, Running, InBuild, BuildCell
<1>2. frames \in Seq(Byte) /\ path \in Seq(Nat) /\ cells \in Seq(Cell) /\ frames # <<>>
  BY DEF Invariant, TypeOK, BuildCell
<1> DEFINE f == Len(frames)
           c == frames[f]
           longer == <<Len(cells) + 1>> \o path
<1>3. f \in Nat \ {0} /\ f \in 1 .. f /\ c \in Byte /\ c \in Nat
  <2>1. f \in Nat \ {0}
    BY <1>2
  <2>2. c \in Byte
    BY <1>2, <2>1
  <2> QED
    BY <2>1, <2>2 DEF Byte
<1>4. /\ cells' = Append(cells, [head |-> c, tail |-> Pointer(path, 1)])
      /\ ptr' = Len(cells) + 1 /\ path' = longer
      /\ frames' = SubSeq(frames, 1, f - 1)
      /\ pc = "build" /\ pc' = "build"
      /\ UNCHANGED <<strs, lists, log, input, taken, args, n, len, buf>>
  BY <1>1 DEF BuildCell, stdin
<1>5. /\ cells' \in Seq(Cell) /\ longer \in Seq(Nat) /\ Extends(cells, cells')
      /\ Chained(longer, cells') /\ Len(longer) = Len(path) + 1
      /\ Pointer(longer, 1) = Len(cells) + 1
      /\ cells'[Len(cells) + 1].head = c
      /\ \A k \in 1 .. Len(path) : cells'[path[k]] = cells[path[k]]
  <2> HIDE DEF c
  <2>1. c \in Nat /\ path \in Seq(Nat) /\ cells \in Seq(Cell) /\ Chained(path, cells)
    BY <1>1, <1>2, <1>3
  <2> QED
    BY <1>4, <2>1, Prepends
<1>6. longer[1] = Len(cells) + 1 /\ \A k \in 1 .. Len(path) : longer[k + 1] = path[k]
  BY <1>2
<1>7. /\ frames' \in Seq(Byte) /\ Len(frames') = f - 1
      /\ \A k \in 1 .. f - 1 : frames'[k] = frames[k]
  <2>1. \A i \in 1 .. f - 1 : frames[i] \in Byte
    BY <1>2, <1>3
  <2>2. f - 1 \in Nat
    BY <1>3
  <2> DEFINE m == f - 1
  <2>3. m \in Nat /\ frames' = SubSeq(frames, 1, m) /\ \A i \in 1 .. m : frames[i] \in Byte
    BY <1>4, <2>1, <2>2
  <2> HIDE DEF m
  <2>4. /\ frames' \in Seq(Byte) /\ Len(frames') = m
        /\ \A k \in 1 .. m : frames'[k] = frames[k]
    BY <2>3, SubSeqProperties
  <2> QED
    BY <2>4 DEF m
<1>8. c = strs[s][f]
  BY <1>1, <1>3
<1> HIDE DEF c, longer
<1>9. TypeOK'
  <2>1. ptr' \in Nat
    BY <1>2, <1>4
  <2> QED
    BY <1>4, <1>5, <1>7, <2>1 DEF Invariant, TypeOK
<1>10. AllChained' /\ LogOK'
  <2>1. Extends(strs, strs') /\ Extends(lists, lists') /\ Extends(log, log')
    BY <1>4, Same
  <2>2. /\ \A l \in Len(lists) + 1 .. Len(lists') : Chained(lists'[l], cells')
        /\ \A i \in Len(log) + 1 .. Len(log') : Computed(log'[i], strs', cells', lists')
    BY <1>4 DEF Invariant, TypeOK
  <2> QED
    BY <1>5, <1>9, <2>1, <2>2, Growth
<1>11. StringsEnd'
  BY <1>4 DEF Invariant, StringsEnd
<1>12. InBuild'
  <2>1. Len(frames') + Len(longer) = f + Len(path)
    BY <1>2, <1>3, <1>5, <1>7
  <2>2. \A k \in 1 .. Len(frames') : frames'[k] = strs[s][k]
    <3>1. \A k \in 1 .. f - 1 : k \in 1 .. f
      BY <1>3
    <3> QED
      BY <1>1, <1>7, <3>1
  <2>3. \A k \in 1 .. Len(longer) : cells'[longer[k]].head = strs[s][Len(frames') + k]
    <3> SUFFICES ASSUME NEW k \in 1 .. Len(longer)
                 PROVE  cells'[longer[k]].head = strs[s][Len(frames') + k]
      OBVIOUS
    <3>1. CASE k = 1
      <4>1. Len(frames') + 1 = f
        BY <1>3, <1>7
      <4> QED
        BY <1>5, <1>6, <1>8, <3>1, <4>1
    <3>2. CASE k # 1
      <4> DEFINE j == k - 1
      <4>1. j \in 1 .. Len(path) /\ k = j + 1 /\ Len(frames') + k = f + j
        BY <1>2, <1>3, <1>5, <1>7, <3>2
      <4> HIDE DEF j
      <4>2. longer[k] = path[j] /\ cells'[path[j]] = cells[path[j]]
        BY <1>5, <1>6, <4>1
      <4> QED
        BY <1>1, <4>1, <4>2
    <3> QED
      BY <3>1, <3>2
  <2> QED
    BY <1>1, <1>4, <1>5, <2>1, <2>2, <2>3 DEF InBuild
<1>13. Running'
  BY <1>4, <1>12 DEF Running, MemorySafe, InCount, InFill, InScan, InConcat, InReadIn
<1> QED
  BY <1>9, <1>10, <1>11, <1>13 DEF Invariant

LEMMA ReturnListStep ==
  ASSUME Invariant, ReturnList
  PROVE  Invariant'
<1>1. PICK s \in 1 .. Len(strs) :
        /\ args = <<s>>
        /\ IsLength(strs[s], Len(frames) + Len(path))
        /\ Chained(path, cells)
        /\ \A k \in 1 .. Len(path) : cells[path[k]].head = strs[s][Len(frames) + k]
  BY DEF Invariant, Running, InBuild, ReturnList
<1> DEFINE r == [op |-> "tochars", args |-> args, result |-> Len(lists) + 1]
<1>2. /\ frames = <<>> /\ lists' = Append(lists, path) /\ log' = Append(log, r)
      /\ pc' = "idle" /\ args' = <<>> /\ ptr' = 0 /\ n' = 0 /\ len' = 0
      /\ buf' = <<>> /\ frames' = <<>> /\ path' = <<>>
      /\ UNCHANGED <<strs, cells, input, taken>>
  BY DEF ReturnList, LeaveFrame, stdin, Null
<1>3. path \in Seq(Nat) /\ strs \in Seq(Seq(Cells)) /\ lists \in Seq(Seq(Nat))
  BY DEF Invariant, TypeOK, Cells
<1>4. r \in [op : Operations, args : Seq(Nat), result : Nat]
  BY DEF Invariant, TypeOK, Operations
<1>5. Heads(path, cells) = CString(strs[s])
  <2>1. strs[s] \in Seq(Cells) /\ Terminated(strs[s])
    BY <1>3 DEF Invariant, StringsEnd
  <2>2. Len(frames) + Len(path) = Len(path)
    BY <1>2, <1>3
  <2>3. StrLen(strs[s]) = Len(path)
    BY <1>1, <2>1, <2>2, LengthUnique
  <2>4. /\ CString(strs[s]) \in Seq(Byte)
        /\ Len(CString(strs[s])) = Len(path)
        /\ \A i \in 1 .. Len(path) : CString(strs[s])[i] = strs[s][i]
    BY <2>1, <2>3, StringFacts
  <2>5. \A k \in 1 .. Len(path) : cells[path[k]].head = strs[s][k]
    <3>1. \A k \in 1 .. Len(path) : Len(frames) + k = k
      BY <1>2, <1>3
    <3> QED
      BY <1>1, <3>1
  <2>6. CString(strs[s]) = [i \in 1 .. Len(path) |-> CString(strs[s])[i]]
    BY <2>4
  <2> QED
    BY <2>4, <2>5, <2>6 DEF Heads
<1> HIDE DEF r
<1>6. /\ Extends(lists, lists') /\ Len(lists') = Len(lists) + 1
      /\ lists'[Len(lists) + 1] = path /\ Len(lists) \in Nat
  BY <1>2, <1>3, AppendExtends
<1>7. /\ Extends(log, log') /\ Len(log') = Len(log) + 1 /\ log'[Len(log) + 1] = r
      /\ Len(log) \in Nat
  BY <1>2, AppendExtends DEF Invariant, TypeOK
<1>8. TypeOK'
  <2>1. lists' \in Seq(Seq(Nat))
    BY <1>2, <1>3
  <2>2. log' \in Seq([op : Operations, args : Seq(Nat), result : Nat])
    BY <1>2, <1>4 DEF Invariant, TypeOK
  <2>3. /\ args' \in Seq(Nat) /\ path' \in Seq(Nat)
        /\ buf' \in Seq(Byte \cup {Junk}) /\ frames' \in Seq(Byte)
    BY <1>2
  <2> QED
    BY <1>2, <2>1, <2>2, <2>3 DEF Invariant, TypeOK
<1>9. AllChained' /\ LogOK'
  <2>1. Extends(strs, strs') /\ Extends(cells, cells')
    BY <1>2, Same
  <2>2. \A l \in Len(lists) + 1 .. Len(lists') : l = Len(lists) + 1
    BY <1>6
  <2>3. \A l \in Len(lists) + 1 .. Len(lists') : Chained(lists'[l], cells')
    BY <1>1, <1>2, <1>6, <2>2
  <2>4. \A i \in Len(log) + 1 .. Len(log') : i = Len(log) + 1
    BY <1>7
  <2>5. Computed(r, strs', cells', lists')
    <3>1. Len(lists) + 1 \in 1 .. Len(lists')
      BY <1>6
    <3> QED
      BY <1>1, <1>2, <1>5, <1>6, <3>1 DEF Computed, r
  <2>6. \A i \in Len(log) + 1 .. Len(log') : Computed(log'[i], strs', cells', lists')
    BY <1>7, <2>4, <2>5
  <2> QED
    BY <1>6, <1>7, <1>8, <2>1, <2>3, <2>6, Growth
<1>10. StringsEnd'
  BY <1>2 DEF Invariant, StringsEnd
<1>11. Running'
  BY <1>2 DEF Running, MemorySafe, InCount, InFill, InScan, InBuild, InConcat, InReadIn
<1> QED
  BY <1>8, <1>9, <1>10, <1>11 DEF Invariant

-----------------------------------------------------------------------------
(***************************************************************************)
(* `+` on strings.                                                         *)
(***************************************************************************)
LEMMA StringsAreStrings ==
  ASSUME Invariant, NEW s \in 1 .. Len(strs)
  PROVE  /\ s \in Nat
         /\ strs[s] \in Seq(Cells)
         /\ Terminated(strs[s])
         /\ IsLength(strs[s], StrLen(strs[s]))
         /\ StrLen(strs[s]) \in Nat
         /\ CString(strs[s]) \in Seq(Byte)
         /\ Len(CString(strs[s])) = StrLen(strs[s])
         /\ \A i \in 1 .. StrLen(strs[s]) :
              CString(strs[s])[i] = strs[s][i] /\ strs[s][i] # 0
<1>1. strs \in Seq(Seq(Cells))
  BY DEF Invariant, TypeOK, Cells
<1>2. s \in Nat /\ strs[s] \in Seq(Cells) /\ Terminated(strs[s])
  BY <1>1 DEF Invariant, StringsEnd
<1>3. /\ IsLength(strs[s], StrLen(strs[s]))
      /\ StrLen(strs[s]) \in Nat
      /\ CString(strs[s]) \in Seq(Byte)
      /\ Len(CString(strs[s])) = StrLen(strs[s])
      /\ \A i \in 1 .. StrLen(strs[s]) : CString(strs[s])[i] = strs[s][i]
  BY <1>2, StringFacts
<1> QED
  BY <1>2, <1>3 DEF IsLength

(***************************************************************************)
(* The bytes of a string with the terminator behind them, as strcpy and    *)
(* strcat write them.                                                      *)
(***************************************************************************)
LEMMA CopiedBytes ==
  ASSUME NEW c \in Seq(Byte)
  PROVE  /\ Append(c, 0) \in Seq(Byte)
         /\ Append(c, 0) \in Seq(Cells)
         /\ Len(Append(c, 0)) = Len(c) + 1
         /\ Append(c, 0)[Len(c) + 1] = 0
         /\ \A i \in 1 .. Len(c) : Append(c, 0)[i] = c[i]
<1>1. 0 \in Byte
  BY StringsAssumption DEF Byte
<1>2. /\ Append(c, 0) \in Seq(Byte)
      /\ Len(Append(c, 0)) = Len(c) + 1
      /\ Append(c, 0)[Len(c) + 1] = 0
      /\ \A i \in 1 .. Len(c) : Append(c, 0)[i] = c[i]
  BY <1>1
<1>3. Append(c, 0) \in Seq(Cells)
  BY <1>2 DEF Cells
<1> QED
  BY <1>2, <1>3

LEMMA ConcatStep ==
  ASSUME Invariant, NEW s \in 1 .. Len(strs), NEW t \in 1 .. Len(strs), Concat(s, t)
  PROVE  Invariant'
<1>1. /\ args' = <<s, t>> /\ buf' = Fresh(StrLen(strs[s]) + StrLen(strs[t]) + 1)
      /\ pc' = "strcpy"
      /\ UNCHANGED <<program, strs, cells, lists, log, input, taken, ptr, n, len, frames,
                     path>>
  BY DEF Concat, program, stdin, loop
<1>2. StrLen(strs[s]) \in Nat /\ StrLen(strs[t]) \in Nat /\ s \in Nat /\ t \in Nat
  BY StringsAreStrings
<1>3. buf' \in Seq(Cells) /\ Len(buf') = StrLen(strs[s]) + StrLen(strs[t]) + 1
  <2> DEFINE size == StrLen(strs[s]) + StrLen(strs[t]) + 1
  <2>1. size \in Nat /\ buf' = Fresh(size)
    BY <1>1, <1>2
  <2> HIDE DEF size
  <2>2. buf' \in Seq(Cells) /\ Len(buf') = size
    BY <2>1, FreshFacts
  <2> QED
    BY <2>2 DEF size
<1>4. TypeOK'
  <2>1. args' \in Seq(Nat)
    BY <1>1, <1>2
  <2>2. buf' \in Seq(Byte \cup {Junk})
    BY <1>3 DEF Cells
  <2> QED
    BY <1>1, <2>1, <2>2 DEF Invariant, TypeOK
<1>5. InConcat'
  BY <1>1, <1>3 DEF InConcat
<1>6. Running'
  BY <1>1, <1>5 DEF Running, MemorySafe, InCount, InFill, InScan, InBuild, InReadIn
<1> QED
  BY <1>1, <1>4, <1>6, Inside

LEMMA CopyFirstStep ==
  ASSUME Invariant, CopyFirst
  PROVE  Invariant'
<1>1. PICK s \in 1 .. Len(strs), t \in 1 .. Len(strs) :
        args = <<s, t>> /\ Len(buf) = StrLen(strs[s]) + StrLen(strs[t]) + 1
  BY DEF Invariant, Running, InConcat, CopyFirst
<1> DEFINE c == CString(strs[s])
           bytes == Append(c, 0)
<1>2. /\ c \in Seq(Byte) /\ Len(c) = StrLen(strs[s]) /\ StrLen(strs[s]) \in Nat
      /\ StrLen(strs[t]) \in Nat
      /\ \A i \in 1 .. Len(c) : c[i] = strs[s][i]
  BY StringsAreStrings
<1>3. Store(0, bytes, "strcat") /\ UNCHANGED <<program, input, taken, args, loop>>
  BY <1>1 DEF CopyFirst, stdin
<1> HIDE DEF c
<1>4. /\ bytes \in Seq(Cells) /\ Len(bytes) = Len(c) + 1 /\ bytes[Len(c) + 1] = 0
      /\ \A i \in 1 .. Len(c) : bytes[i] = c[i]
  BY <1>2, CopiedBytes
<1> HIDE DEF bytes
<1>5. buf' = Written(0, bytes) /\ pc' = "strcat"
  <2>1. Fits(0, bytes)
    BY <1>1, <1>2, <1>4 DEF Fits
  <2> QED
    BY <1>3, <2>1 DEF Store
<1>6. UNCHANGED <<program, strs, cells, lists, log, input, taken, args, ptr, n, len,
                  frames, path>>
  BY <1>3 DEF program, loop
<1>7. /\ buf' \in Seq(Cells) /\ Len(buf') = Len(buf)
      /\ \A i \in 1 .. Len(buf) : buf'[i] = IF i \in 1 .. Len(bytes) THEN bytes[i] ELSE buf[i]
  <2>1. buf \in Seq(Cells) /\ 0 \in Nat
    BY DEF Invariant, TypeOK, Cells
  <2>2. /\ Written(0, bytes) \in Seq(Cells)
        /\ Len(Written(0, bytes)) = Len(buf)
        /\ \A i \in 1 .. Len(buf) :
             Written(0, bytes)[i] =
               IF i - 0 \in 1 .. Len(bytes) THEN bytes[i - 0] ELSE buf[i]
    BY <1>4, <2>1, WrittenFacts
  <2>3. \A i \in 1 .. Len(buf) : i - 0 = i
    OBVIOUS
  <2> QED
    BY <1>5, <2>2, <2>3
<1>8. TypeOK'
  <2>1. buf' \in Seq(Byte \cup {Junk})
    BY <1>7 DEF Cells
  <2> QED
    BY <1>5, <1>6, <2>1 DEF Invariant, TypeOK
<1>9. InConcat'
  <2>1. /\ \A k \in 1 .. StrLen(strs[s]) : buf'[k] = strs[s][k]
        /\ buf'[StrLen(strs[s]) + 1] = 0
    BY <1>1, <1>2, <1>4, <1>7, SMTT(30)
  <2> QED
    BY <1>1, <1>5, <1>6, <1>7, <2>1 DEF InConcat
<1>10. Running'
  BY <1>5, <1>9 DEF Running, MemorySafe, InCount, InFill, InScan, InBuild, InReadIn
<1> QED
  BY <1>6, <1>8, <1>10, Inside

LEMMA AppendSecondStep ==
  ASSUME Invariant, AppendSecond
  PROVE  Invariant'
<1>1. PICK s \in 1 .. Len(strs), t \in 1 .. Len(strs) :
        /\ args = <<s, t>>
        /\ Len(buf) = StrLen(strs[s]) + StrLen(strs[t]) + 1
        /\ \A k \in 1 .. StrLen(strs[s]) : buf[k] = strs[s][k]
        /\ buf[StrLen(strs[s]) + 1] = 0
  BY DEF Invariant, Running, InConcat, AppendSecond
<1> DEFINE S == StrLen(strs[s])
           T == StrLen(strs[t])
           cs == CString(strs[s])
           ct == CString(strs[t])
           bytes == Append(ct, 0)
<1>2. /\ S \in Nat /\ T \in Nat
      /\ cs \in Seq(Byte) /\ Len(cs) = S
      /\ ct \in Seq(Byte) /\ Len(ct) = T
      /\ \A i \in 1 .. S : cs[i] = strs[s][i] /\ strs[s][i] # 0
      /\ \A i \in 1 .. T : ct[i] = strs[t][i] /\ strs[t][i] # 0
  BY StringsAreStrings
<1>3. buf \in Seq(Cells) /\ Len(buf) = S + T + 1
  BY <1>1 DEF Invariant, TypeOK, Cells
<1>4. StrLen(buf) = S
  <2>1. IsLength(buf, S)
    <3>1. S \in 0 .. Len(buf) - 1
      BY <1>2, <1>3
    <3>2. buf[S + 1] = 0
      BY <1>1
    <3>3. \A k \in 1 .. S : buf[k] # 0
      BY <1>1, <1>2
    <3> QED
      BY <3>1, <3>2, <3>3 DEF IsLength
  <2> QED
    BY <1>3, <2>1, LengthUnique
<1>5. ReturnString("+", S, bytes)
  BY <1>1, <1>4 DEF AppendSecond
<1>5a. \A k \in 1 .. S : buf[k] = cs[k]
  BY <1>1, <1>2
<1> HIDE DEF S, T, cs, ct
<1>6. /\ bytes \in Seq(Byte) /\ bytes \in Seq(Cells) /\ Len(bytes) = T + 1
      /\ bytes[T + 1] = 0
      /\ \A i \in 1 .. T : bytes[i] = ct[i]
  BY <1>2, CopiedBytes
<1> HIDE DEF bytes
<1>7. Fits(S, bytes)
  BY <1>2, <1>3, <1>6 DEF Fits
<1> DEFINE b == Written(S, bytes)
<1>8. /\ b \in Seq(Cells) /\ Len(b) = S + T + 1
      /\ \A i \in 1 .. S + T + 1 :
           b[i] = IF i - S \in 1 .. T + 1 THEN bytes[i - S] ELSE buf[i]
  <2>1. /\ Written(S, bytes) \in Seq(Cells)
        /\ Len(Written(S, bytes)) = Len(buf)
        /\ \A i \in 1 .. Len(buf) :
             Written(S, bytes)[i] =
               IF i - S \in 1 .. Len(bytes) THEN bytes[i - S] ELSE buf[i]
    BY <1>2, <1>3, <1>6, WrittenFacts
  <2> QED
    BY <1>3, <1>6, <2>1
<1> HIDE DEF b
<1>9. \A i \in 1 .. S : b[i] = cs[i]
  <2> SUFFICES ASSUME NEW i \in 1 .. S PROVE b[i] = cs[i]
    OBVIOUS
  <2>1. i \in 1 .. S + T + 1 /\ i - S \notin 1 .. T + 1
    BY <1>2
  <2> QED
    BY <1>5a, <1>8, <2>1
<1>10. \A j \in 1 .. T + 1 : b[S + j] = bytes[j]
  <2> SUFFICES ASSUME NEW j \in 1 .. T + 1 PROVE b[S + j] = bytes[j]
    OBVIOUS
  <2>1. S + j \in 1 .. S + T + 1 /\ (S + j) - S = j
    BY <1>2
  <2> QED
    BY <1>8, <2>1
<1>11. IsLength(b, S + T)
  <2>1. b[S + T + 1] = 0
    <3>1. T + 1 \in 1 .. T + 1 /\ S + (T + 1) = S + T + 1
      BY <1>2
    <3> QED
      BY <1>6, <1>10, <3>1
  <2>2. \A k \in 1 .. S + T : b[k] # 0
    <3> SUFFICES ASSUME NEW k \in 1 .. S + T PROVE b[k] # 0
      OBVIOUS
    <3>1. CASE k \in 1 .. S
      BY <1>2, <1>9, <3>1
    <3>2. CASE k \notin 1 .. S
      <4> DEFINE j == k - S
      <4>1. j \in 1 .. T /\ j \in 1 .. T + 1 /\ k = S + j
        BY <1>2, <3>2
      <4> HIDE DEF j
      <4>2. b[k] = ct[j]
        BY <1>6, <1>10, <4>1
      <4> QED
        BY <1>2, <4>1, <4>2
    <3> QED
      BY <3>1, <3>2
  <2> QED
    BY <1>2, <1>8, <2>1, <2>2 DEF IsLength
<1>12. Terminated(b)
  <2>1. \A k \in 1 .. S + T + 1 : b[k] \in Byte
    <3> SUFFICES ASSUME NEW k \in 1 .. S + T + 1 PROVE b[k] \in Byte
      OBVIOUS
    <3>1. CASE k \in 1 .. S
      BY <1>2, <1>9, <3>1
    <3>2. CASE k \notin 1 .. S
      <4> DEFINE j == k - S
      <4>1. j \in 1 .. T + 1 /\ k = S + j
        BY <1>2, <3>2
      <4> HIDE DEF j
      <4>2. b[k] = bytes[j]
        BY <1>10, <4>1
      <4> QED
        BY <1>6, <4>1, <4>2
    <3> QED
      BY <3>1, <3>2
  <2>2. S + T + 1 \in 1 .. Len(b) /\ b[S + T + 1] = 0
    BY <1>2, <1>8, <1>11 DEF IsLength
  <2> QED
    BY <2>1, <2>2 DEF Terminated
<1>13. CString(b) = cs \o ct
  <2>1. /\ StrLen(b) = S + T
        /\ CString(b) \in Seq(Byte)
        /\ Len(CString(b)) = S + T
        /\ \A i \in 1 .. S + T : CString(b)[i] = b[i]
    <3>1. StrLen(b) = S + T
      BY <1>8, <1>11, LengthUnique
    <3> QED
      BY <1>8, <1>12, <3>1, StringFacts
  <2>2. /\ cs \o ct \in Seq(Byte) /\ Len(cs \o ct) = S + T
        /\ \A i \in 1 .. S : (cs \o ct)[i] = cs[i]
        /\ \A j \in 1 .. T : (cs \o ct)[S + j] = ct[j]
    BY <1>2
  <2>3. \A i \in 1 .. S + T : b[i] = (cs \o ct)[i]
    <3> SUFFICES ASSUME NEW i \in 1 .. S + T PROVE b[i] = (cs \o ct)[i]
      OBVIOUS
    <3>1. CASE i \in 1 .. S
      BY <1>9, <2>2, <3>1
    <3>2. CASE i \notin 1 .. S
      <4> DEFINE j == i - S
      <4>1. j \in 1 .. T /\ j \in 1 .. T + 1 /\ i = S + j
        BY <1>2, <3>2
      <4> HIDE DEF j
      <4> QED
        BY <1>6, <1>10, <2>2, <4>1
    <3> QED
      BY <3>1, <3>2
  <2> QED
    BY <2>1, <2>2, <2>3, SeqEqual
<1>14. Computed([op |-> "+", args |-> args, result |-> Len(strs) + 1],
                strs', cells, lists)
  <2>1. strs \in Seq(Seq(Cells))
    BY DEF Invariant, TypeOK, Cells
  <2>2. strs' = Append(strs, b)
    BY <1>5 DEF ReturnString, b
  <2>3. /\ Len(strs) + 1 \in 1 .. Len(strs') /\ strs'[Len(strs) + 1] = b
        /\ s \in 1 .. Len(strs') /\ t \in 1 .. Len(strs')
        /\ strs'[s] = strs[s] /\ strs'[t] = strs[t]
    BY <1>8, <2>1, <2>2
  <2>4. CString(strs'[Len(strs) + 1]) = CString(strs'[s]) \o CString(strs'[t])
    BY <1>13, <2>3 DEF cs, ct
  <2> QED
    BY <1>1, <2>3, <2>4 DEF Computed
<1>15. Terminated(Written(S, bytes))
  BY <1>12 DEF b
<1>16. "+" \in Operations
  BY DEF Operations
<1> QED
  BY <1>2, <1>5, <1>6, <1>7, <1>14, <1>15, <1>16, ReturnsString

-----------------------------------------------------------------------------
(***************************************************************************)
(* `readin`.                                                               *)
(***************************************************************************)
LEMMA ReadInStep ==
  ASSUME Invariant, ReadIn
  PROVE  Invariant'
<1>1. /\ buf' = Fresh(BufferSize) /\ pc' = "read"
      /\ UNCHANGED <<program, strs, cells, lists, log, input, taken, args, ptr, n, len,
                     frames, path>>
  BY DEF ReadIn, program, stdin, loop
<1>2. buf' \in Seq(Cells) /\ Len(buf') = BufferSize
  BY <1>1, FreshFacts, StringsAssumption
<1>3. TypeOK'
  <2>1. buf' \in Seq(Byte \cup {Junk})
    BY <1>2 DEF Cells
  <2> QED
    BY <1>1, <2>1 DEF Invariant, TypeOK
<1>4. Running'
  BY <1>1, <1>2 DEF Running, MemorySafe, InCount, InFill, InScan, InBuild, InConcat,
         InReadIn
<1> QED
  BY <1>1, <1>3, <1>4, Inside

(***************************************************************************)
(* A store of at least one byte that starts behind the bytes read so far.  *)
(***************************************************************************)
LEMMA ReadStep ==
  ASSUME Invariant, NEW k \in 0 .. Len(input) - taken, Read(k)
  PROVE  Invariant'
<1> DEFINE bytes == SubSeq(input, taken + 1, taken + k)
<1>1. /\ input \in Seq(Byte) /\ taken \in 0 .. Len(input) /\ k \in Nat
      /\ k < BufferSize /\ Len(buf) = BufferSize /\ buf \in Seq(Cells)
      /\ BufferSize \in Nat
  BY StringsAssumption DEF Invariant, TypeOK, Running, InReadIn, Read, Asked, Cells
<1>2. bytes \in Seq(Byte) /\ Len(bytes) = k
  <2> DEFINE first == taken + 1
             last == taken + k
  <2>1. /\ first \in Int /\ last \in Int
        /\ \A i \in first .. last : i \in 1 .. Len(input) /\ input[i] \in Byte
        /\ (IF first <= last THEN last - first + 1 ELSE 0) = k
    BY <1>1
  <2> HIDE DEF first, last
  <2>2. SubSeq(input, first, last) \in Seq(Byte) /\ Len(SubSeq(input, first, last)) = k
    BY <2>1, SubSeqProperties
  <2> QED
    BY <2>2 DEF first, last
<1>3. /\ Store(0, bytes, "cut") /\ n' = k /\ args' = <<taken, k>> /\ taken' = taken + k
      /\ UNCHANGED <<program, strs, cells, lists, log, input, ptr, len, frames, path>>
  BY DEF Read, program
<1> HIDE DEF bytes
<1>4. buf' = Written(0, bytes) /\ pc' = "cut"
  <2>1. Fits(0, bytes)
    BY <1>1, <1>2 DEF Fits
  <2> QED
    BY <1>3, <2>1 DEF Store
<1>5. /\ buf' \in Seq(Cells) /\ Len(buf') = Len(buf)
      /\ \A i \in 1 .. Len(buf) : buf'[i] = IF i \in 1 .. Len(bytes) THEN bytes[i] ELSE buf[i]
  <2>1. bytes \in Seq(Cells) /\ 0 \in Nat
    BY <1>2 DEF Cells
  <2>2. /\ Written(0, bytes) \in Seq(Cells)
        /\ Len(Written(0, bytes)) = Len(buf)
        /\ \A i \in 1 .. Len(buf) :
             Written(0, bytes)[i] =
               IF i - 0 \in 1 .. Len(bytes) THEN bytes[i - 0] ELSE buf[i]
    BY <1>1, <2>1, WrittenFacts
  <2>3. \A i \in 1 .. Len(buf) : i - 0 = i
    OBVIOUS
  <2> QED
    BY <1>4, <2>2, <2>3
<1>6. TypeOK'
  <2>1. buf' \in Seq(Byte \cup {Junk})
    BY <1>5 DEF Cells
  <2>2. args' \in Seq(Nat) /\ n' \in Nat /\ taken' \in 0 .. Len(input)
    BY <1>1, <1>3
  <2> QED
    BY <1>3, <1>4, <2>1, <2>2 DEF Invariant, TypeOK
<1>7. Running'
  <2>1. n' < BufferSize /\ \A i \in 1 .. n' : buf'[i] \in Byte
    BY <1>1, <1>2, <1>3, <1>5
  <2> QED
    BY <1>1, <1>4, <1>5, <2>1 DEF Running, MemorySafe, InCount, InFill, InScan, InBuild,
       InConcat, InReadIn
<1> QED
  BY <1>3, <1>6, <1>7, Inside

LEMMA OneByte ==
  ASSUME buf \in Seq(Cells), NEW m \in Nat, m < Len(buf)
  PROVE  /\ Fits(m, <<0>>)
         /\ Written(m, <<0>>) \in Seq(Cells)
         /\ Len(Written(m, <<0>>)) = Len(buf)
         /\ \A i \in 1 .. Len(buf) :
              Written(m, <<0>>)[i] = IF i = m + 1 THEN 0 ELSE buf[i]
<1>1. /\ 0 \in Byte
      /\ <<0>> \in Seq(Cells) /\ Len(<<0>>) = 1
  BY StringsAssumption DEF Byte, Cells
<1>2. /\ Written(m, <<0>>) \in Seq(Cells)
      /\ Len(Written(m, <<0>>)) = Len(buf)
      /\ \A i \in 1 .. Len(buf) :
           Written(m, <<0>>)[i] =
             IF i - m \in 1 .. Len(<<0>>) THEN <<0>>[i - m] ELSE buf[i]
  BY <1>1, WrittenFacts
<1>3. \A i \in 1 .. Len(buf) :
        /\ i - m \in 1 .. Len(<<0>>) <=> i = m + 1
        /\ i = m + 1 => <<0>>[i - m] = 0
  BY <1>1
<1>4. Fits(m, <<0>>)
  BY <1>1 DEF Fits
<1> QED
  BY <1>2, <1>3, <1>4

LEMMA CutAtReadStep ==
  ASSUME Invariant, CutAtRead
  PROVE  Invariant'
<1>1. /\ buf \in Seq(Cells) /\ n \in Nat /\ n < Len(buf)
      /\ \A k \in 1 .. n : buf[k] \in Byte
  BY DEF Invariant, TypeOK, Running, InReadIn, CutAtRead, Cells
<1>2. /\ Fits(n, <<0>>)
      /\ Written(n, <<0>>) \in Seq(Cells)
      /\ Len(Written(n, <<0>>)) = Len(buf)
      /\ \A i \in 1 .. Len(buf) :
           Written(n, <<0>>)[i] = IF i = n + 1 THEN 0 ELSE buf[i]
  BY <1>1, OneByte
<1>3. /\ buf' = Written(n, <<0>>) /\ pc' = "strip"
      /\ UNCHANGED <<program, strs, cells, lists, log, input, taken, args, ptr, n, len,
                     frames, path>>
  BY <1>2 DEF CutAtRead, Store, program, stdin, loop
<1>4. TypeOK'
  <2>1. buf' \in Seq(Byte \cup {Junk})
    BY <1>2, <1>3 DEF Cells
  <2> QED
    BY <1>3, <2>1 DEF Invariant, TypeOK
<1>5. Terminated(buf')
  <2>1. 0 \in Byte
    BY StringsAssumption DEF Byte
  <2>2. n + 1 \in 1 .. Len(buf') /\ buf'[n + 1] = 0
    BY <1>1, <1>2, <1>3
  <2>3. \A i \in 1 .. n + 1 : buf'[i] \in Byte
    BY <1>1, <1>2, <1>3, <2>1
  <2> QED
    BY <2>2, <2>3 DEF Terminated
<1>6. Running'
  BY <1>3, <1>5 DEF Running, MemorySafe, InCount, InFill, InScan, InBuild, InConcat,
     InReadIn
<1> QED
  BY <1>3, <1>4, <1>6, Inside

LEMMA StripNewLineStep ==
  ASSUME Invariant, StripNewLine
  PROVE  Invariant'
<1> DEFINE m == FirstOf(buf, {0, NewLine})
<1>1. ReturnString("readin", m, <<0>>)
  BY DEF StripNewLine
<1>2. buf \in Seq(Cells)
  BY DEF Invariant, TypeOK, Cells
<1>3. PICK k \in 1 .. Len(buf) : buf[k] = 0 /\ \A i \in 1 .. k : buf[i] \in Byte
  BY DEF Invariant, Running, InReadIn, StripNewLine, Terminated
<1>4. m \in 0 .. Len(buf) - 1 /\ \A i \in 1 .. m : buf[i] \notin {0, NewLine}
  BY <1>2, <1>3, FirstOfFound
<1> HIDE DEF m
<1>5. m \in Nat /\ m < Len(buf) /\ m < k
  BY <1>2, <1>3, <1>4
<1>6. /\ Fits(m, <<0>>)
      /\ Written(m, <<0>>) \in Seq(Cells)
      /\ Len(Written(m, <<0>>)) = Len(buf)
      /\ \A i \in 1 .. Len(buf) :
           Written(m, <<0>>)[i] = IF i = m + 1 THEN 0 ELSE buf[i]
  BY <1>2, <1>5, OneByte
<1>7. Terminated(Written(m, <<0>>))
  <2> DEFINE b == Written(m, <<0>>)
  <2>1. 0 \in Byte
    BY StringsAssumption DEF Byte
  <2>2. m + 1 \in 1 .. Len(b) /\ b[m + 1] = 0
    BY <1>2, <1>5, <1>6
  <2>3. \A i \in 1 .. m + 1 : b[i] \in Byte
    <3> SUFFICES ASSUME NEW i \in 1 .. m + 1 PROVE b[i] \in Byte
      OBVIOUS
    <3>1. i \in 1 .. k /\ i \in 1 .. Len(buf)
      BY <1>5
    <3> QED
      BY <1>3, <1>6, <2>1, <3>1
  <2> HIDE DEF b
  <2>4. Terminated(b)
    BY <2>2, <2>3 DEF Terminated
  <2> QED
    BY <2>4 DEF b
<1>8. Computed([op |-> "readin", args |-> args, result |-> Len(strs) + 1],
               strs', cells, lists)
  BY DEF Computed
<1>9. "readin" \in Operations /\ <<0>> \in Seq(Byte)
  BY StringsAssumption DEF Operations, Byte
<1> QED
  BY <1>1, <1>5, <1>6, <1>7, <1>8, <1>9, ReturnsString

-----------------------------------------------------------------------------
LEMMA NextInvariant ==
  ASSUME Invariant, [Next]_vars
  PROVE  Invariant'
<1>1. CASE Program
  BY <1>1, StringLiteralStep, ConsCharStep, FromCharsStep, ToCharsStep, ConcatStep,
     ReadInStep DEF Program
<1>2. CASE Builtin
  BY <1>2, CountStep, AllocateStringStep, FillStep, TerminateStringStep, DescendStep,
     BottomStep, BuildCellStep, ReturnListStep, CopyFirstStep, AppendSecondStep,
     ReadStep, CutAtReadStep, StripNewLineStep DEF Builtin
<1>3. CASE UNCHANGED vars
  <2>1. UNCHANGED <<program, strs, cells, lists, log, input, taken, pc, args, ptr, n,
                    len, buf, frames, path>>
    BY <1>3 DEF vars, program
  <2>2. TypeOK'
    BY <2>1 DEF Invariant, TypeOK
  <2>3. Running'
    BY <2>1 DEF Invariant, Running, MemorySafe, InCount, InFill, InScan, InBuild,
       InConcat, InReadIn
  <2> QED
    BY <2>1, <2>2, <2>3, Inside
<1> QED
  BY <1>1, <1>2, <1>3 DEF Next

THEOREM InvariantHolds == Spec => []Invariant
<1>1. Init => Invariant
  BY InitInvariant
<1>2. Invariant /\ [Next]_vars => Invariant'
  BY NextInvariant
<1> QED
  BY <1>1, <1>2, PTL DEF Spec

(***************************************************************************)
(* The state of the builtins has its type.                                 *)
(***************************************************************************)
THEOREM StringsTypeCorrect == Spec => []TypeOK
<1>1. Invariant => TypeOK
  BY DEF Invariant
<1> QED
  BY <1>1, InvariantHolds, PTL

(***************************************************************************)
(* No builtin reads or writes outside of what was allocated, for lists,    *)
(* strings and inputs of any length and a line buffer of any size.         *)
(***************************************************************************)
THEOREM AlwaysMemorySafe == Spec => []MemorySafe
<1>1. Invariant => MemorySafe
  BY DEF Invariant, Running
<1> QED
  BY <1>1, InvariantHolds, PTL

(***************************************************************************)
(* Every string ends inside of its buffer.                                 *)
(***************************************************************************)
THEOREM AllStringsEnd == Spec => []StringsEnd
<1>1. Invariant => StringsEnd
  BY DEF Invariant
<1> QED
  BY <1>1, InvariantHolds, PTL

(***************************************************************************)
(* `fromchars` and `tochars` copy all that there is, in order.             *)
(***************************************************************************)
LEMMA Copying ==
  ASSUME Invariant
  PROVE  CopiesChars
<1>1. ASSUME NEW r \in Returned("fromchars")
      PROVE  LET chars == CharsOf(r.args[1])
             IN  strs[r.result] = Append([k \in 1 .. Len(chars) |-> Trunc(chars[k])], 0)
  <2>1. r.op = "fromchars" /\ Computed(r, strs, cells, lists)
    BY <1>1 DEF Invariant, LogOK, Returned
  <2>2. lists[r.args[1]] \in Seq(Nat)
    <3>1. lists \in Seq(Seq(Nat))
      BY DEF Invariant, TypeOK
    <3> QED
      BY <2>1, <3>1 DEF Computed
  <2> DEFINE l == lists[r.args[1]]
             chars == CharsOf(r.args[1])
  <2>3. chars = Heads(l, cells)
    BY DEF CharsOf, Heads
  <2>4. Len(chars) = Len(l)
    BY <2>2, <2>3 DEF Heads
  <2>5. strs[r.result] = Append([k \in 1 .. Len(l) |-> Trunc(chars[k])], 0)
    BY <2>1, <2>3 DEF Computed
  <2> QED
    BY <2>4, <2>5
<1>2. ASSUME NEW r \in Returned("tochars")
      PROVE  CharsOf(r.result) = CString(strs[r.args[1]])
  <2>1. r.op = "tochars" /\ Computed(r, strs, cells, lists)
    BY <1>2 DEF Invariant, LogOK, Returned
  <2> QED
    BY <2>1 DEF Computed, CharsOf, Heads
<1> QED
  BY <1>1, <1>2 DEF CopiesChars

THEOREM CharsAreCopied == Spec => []CopiesChars
<1>1. Invariant => CopiesChars
  BY Copying
<1> QED
  BY <1>1, InvariantHolds, PTL

(***************************************************************************)
(* `fromchars (tochars s) == s` for every string.                          *)
(***************************************************************************)
LEMMA ThereAndBack ==
  ASSUME Invariant
  PROVE  RoundTrip
<1> SUFFICES ASSUME NEW there \in Returned("tochars"), NEW back \in Returned("fromchars"),
                    back.args[1] = there.result
             PROVE  CString(strs[back.result]) = CString(strs[there.args[1]])
  BY DEF RoundTrip
<1> DEFINE c == CString(strs[there.args[1]])
           b == strs[back.result]
<1>1. /\ there.op = "tochars" /\ Computed(there, strs, cells, lists)
      /\ back.op = "fromchars" /\ Computed(back, strs, cells, lists)
  BY DEF Invariant, LogOK, Returned
<1>2. /\ there.args[1] \in 1 .. Len(strs)
      /\ Heads(lists[there.result], cells) = c
      /\ back.result \in 1 .. Len(strs)
      /\ b = Append([k \in 1 .. Len(lists[there.result]) |->
                       Trunc(Heads(lists[there.result], cells)[k])], 0)
      /\ there.result \in 1 .. Len(lists)
  BY <1>1 DEF Computed
<1>3. /\ c \in Seq(Byte)
      /\ \A i \in 1 .. Len(c) : c[i] # 0
      /\ b \in Seq(Cells)
      /\ Terminated(b)
  BY <1>2, StringsAreStrings
<1>4. Len(c) = Len(lists[there.result])
  <2>1. lists \in Seq(Seq(Nat))
    BY DEF Invariant, TypeOK
  <2>2. lists[there.result] \in Seq(Nat)
    BY <1>2, <2>1
  <2> QED
    BY <1>2, <2>2, SMTT(30) DEF Heads
<1>5. b = Append([k \in 1 .. Len(c) |-> Trunc(c[k])], 0)
  BY <1>2, <1>4
<1> HIDE DEF b, c
<1>6. [k \in 1 .. Len(c) |-> Trunc(c[k])] = c
  <2>1. \A k \in 1 .. Len(c) : Trunc(c[k]) = c[k]
    <3> SUFFICES ASSUME NEW k \in 1 .. Len(c) PROVE Trunc(c[k]) = c[k]
      OBVIOUS
    <3>1. c[k] \in Byte
      BY <1>3
    <3> QED
      BY <3>1, StringsAssumption DEF Byte, Trunc
  <2>2. [k \in 1 .. Len(c) |-> Trunc(c[k])] = [k \in 1 .. Len(c) |-> c[k]]
    BY <2>1
  <2> QED
    BY <1>3, <2>2
<1>7. b = Append(c, 0)
  BY <1>5, <1>6
<1>8. /\ Len(b) = Len(c) + 1 /\ b[Len(c) + 1] = 0
      /\ \A i \in 1 .. Len(c) : b[i] = c[i]
  BY <1>3, <1>7, CopiedBytes
<1>9. IsLength(b, Len(c))
  BY <1>3, <1>8 DEF IsLength
<1>10. /\ StrLen(b) = Len(c)
       /\ CString(b) \in Seq(Byte) /\ Len(CString(b)) = Len(c)
       /\ \A i \in 1 .. Len(c) : CString(b)[i] = b[i]
  <2>1. StrLen(b) = Len(c)
    BY <1>3, <1>9, LengthUnique
  <2> QED
    BY <1>3, <2>1, StringFacts
<1>11. CString(b) = c
  BY <1>3, <1>8, <1>10, SeqEqual
<1> QED
  BY <1>11 DEF b, c

THEOREM RoundTrips == Spec => []RoundTrip
<1>1. Invariant => RoundTrip
  BY ThereAndBack
<1> QED
  BY <1>1, InvariantHolds, PTL

(***************************************************************************)
(* `+` concatenates.                                                       *)
(***************************************************************************)
THEOREM Concatenation == Spec => []Concatenates
<1>1. Invariant => Concatenates
  BY DEF Invariant, LogOK, Computed, Concatenates, Returned
<1> QED
  BY <1>1, InvariantHolds, PTL

-----------------------------------------------------------------------------
(***************************************************************************)
(* What `readin` returns.  While a read is under way its buffer begins     *)
(* with the bytes of the input it was given; the reads that have returned  *)
(* end where the next one begins.                                          *)
(***************************************************************************)
LinesRead ==
  \A i \in 1 .. Len(log) :
    IsRead(i) =>
      /\ log[i].result \in 1 .. Len(strs)
      /\ EndsAt(i - 1, log[i].args[1])
      /\ IsFirstLine(CString(strs[log[i].result]), log[i].args[1], log[i].args[2])

IsBeingRead(at, count) ==
  /\ args = <<at, count>>
  /\ taken = at + count
  /\ count < Len(buf)
  /\ EndsAt(Len(log), at)
  /\ \A k \in 1 .. count : buf[k] = input[at + k]
  /\ pc = "cut" => n = count
  /\ pc = "strip" => buf[count + 1] = 0

Reading ==
  /\ LinesRead
  /\ pc \notin {"cut", "strip"} => EndsAt(Len(log), taken)
  /\ pc \in {"cut", "strip"} => \E at, count \in Nat : IsBeingRead(at, count)

(***************************************************************************)
(* The calls that have returned are not changed, and calls of other        *)
(* builtins do not move the reads.                                         *)
(***************************************************************************)
LEMMA EndsKept ==
  ASSUME Invariant, Extends(log, log'), NEW i \in 0 .. Len(log), NEW at
  PROVE  /\ EndsAt(i, at) <=> EndsAt(i, at)'
         /\ \A j \in 1 .. i : IsRead(j) <=> IsRead(j)'
<1>1. \A j \in 1 .. i : log'[j] = log[j]
  <2>1. log \in Seq([op : Operations, args : Seq(Nat), result : Nat])
    BY DEF Invariant, TypeOK
  <2>2. \A j \in 1 .. i : j \in 1 .. Len(log)
    BY <2>1
  <2> QED
    BY <2>2 DEF Extends
<1>2. \A j \in 1 .. i : IsRead(j) <=> IsRead(j)'
  BY <1>1 DEF IsRead
<1>3. \A j \in 1 .. i : \A k \in j + 1 .. i : k \in 1 .. i
  OBVIOUS
<1>4. EndsAt(i, at) => EndsAt(i, at)'
  BY <1>1, <1>2, <1>3 DEF EndsAt
<1>5. EndsAt(i, at)' => EndsAt(i, at)
  BY <1>1, <1>2, <1>3 DEF EndsAt
<1> QED
  BY <1>2, <1>4, <1>5

LEMMA LinesKept ==
  ASSUME Invariant, Reading, input' = input,
         Extends(log, log'), Extends(strs, strs'),
         NEW i \in 1 .. Len(log), IsRead(i)'
  PROVE  /\ log'[i].result \in 1 .. Len(strs')
         /\ EndsAt(i - 1, log[i].args[1])'
         /\ log'[i] = log[i]
         /\ IsFirstLine(CString(strs[log[i].result]), log[i].args[1], log[i].args[2])'
<1>1. log'[i] = log[i]
  BY DEF Extends
<1>2. IsRead(i)
  BY <1>1 DEF IsRead
<1> DEFINE s == log[i].result
<1>3. /\ s \in 1 .. Len(strs)
      /\ EndsAt(i - 1, log[i].args[1])
      /\ IsFirstLine(CString(strs[s]), log[i].args[1], log[i].args[2])
  BY <1>2 DEF Reading, LinesRead
<1>4. s \in 1 .. Len(strs') /\ strs'[s] = strs[s]
  <2>1. Len(strs) \in Nat /\ Len(strs') \in Nat
    BY DEF Invariant, TypeOK, Extends
  <2> QED
    BY <1>3, <2>1 DEF Extends
<1>5. i - 1 \in 0 .. Len(log)
  BY DEF Invariant, TypeOK
<1>6. EndsAt(i - 1, log[i].args[1])'
  BY <1>1, <1>3, <1>5, EndsKept
<1> QED
  BY <1>1, <1>3, <1>4, <1>6 DEF IsFirstLine

(***************************************************************************)
(* A step outside of `readin` keeps what has been read.                    *)
(***************************************************************************)
LEMMA OthersKeepReads ==
  ASSUME Invariant, Invariant', Reading, UNCHANGED <<input, taken>>,
         Extends(log, log'), Extends(strs, strs'),
         \A i \in Len(log) + 1 .. Len(log') : ~ IsRead(i)',
         pc \notin {"cut", "strip"}, pc' \notin {"cut", "strip"}
  PROVE  Reading'
<1>1. Len(log) \in Nat /\ Len(log') \in Nat /\ Len(log) <= Len(log')
  <2>1. LET Call == [op : Operations, args : Seq(Nat), result : Nat]
        IN  log \in Seq(Call) /\ log' \in Seq(Call)
    BY DEF Invariant, TypeOK
  <2> QED
    BY <2>1 DEF Extends
<1>2. LinesRead'
  <2> SUFFICES ASSUME NEW i \in 1 .. Len(log'), IsRead(i)'
               PROVE  /\ log'[i].result \in 1 .. Len(strs')
                      /\ EndsAt(i - 1, log[i].args[1])'
                      /\ IsFirstLine(CString(strs[log[i].result]), log[i].args[1],
                                     log[i].args[2])'
    BY DEF LinesRead
  <2>1. i \in 1 .. Len(log)
    BY <1>1
  <2> QED
    BY <2>1, LinesKept
<1>3. EndsAt(Len(log), taken)
  BY DEF Reading
<1>4. EndsAt(Len(log), taken)'
  <2>1. Len(log) \in 0 .. Len(log)
    BY <1>1
  <2>2. \A i \in 1 .. Len(log) : IsRead(i) <=> IsRead(i)'
    BY <2>1, EndsKept
  <2>3. \A i \in 1 .. Len(log) : log'[i] = log[i] /\ i \in 1 .. Len(log')
    BY <1>1 DEF Extends
  <2>4. (\A i \in 1 .. Len(log') : ~ IsRead(i)') => taken' = 0
    BY <1>3, <2>2, <2>3 DEF EndsAt
  <2>5. ASSUME NEW j \in 1 .. Len(log'), IsRead(j)',
               \A k \in j + 1 .. Len(log') : ~ IsRead(k)'
        PROVE  taken' = log'[j].args[1] + log'[j].args[2]
    <3>1. j \in 1 .. Len(log)
      BY <1>1, <2>5
    <3>2. \A k \in j + 1 .. Len(log) : ~ IsRead(k)
      <4> SUFFICES ASSUME NEW k \in j + 1 .. Len(log) PROVE ~ IsRead(k)
        OBVIOUS
      <4>1. k \in 1 .. Len(log) /\ k \in j + 1 .. Len(log')
        BY <1>1, <3>1
      <4> QED
        BY <2>2, <2>5, <4>1
    <3>3. IsRead(j)
      BY <2>2, <2>5, <3>1
    <3> QED
      BY <1>3, <2>3, <3>1, <3>2, <3>3 DEF EndsAt
  <2> QED
    BY <2>4, <2>5 DEF EndsAt
<1> QED
  BY <1>2, <1>4 DEF Reading

(***************************************************************************)
(* The steps of `readin` before it returns.                                *)
(***************************************************************************)
LEMMA LoopsKeepLines ==
  ASSUME Invariant, Reading, UNCHANGED <<input, log, strs>>
  PROVE  /\ LinesRead'
         /\ \A i \in 0 .. Len(log), at \in Nat : EndsAt(i, at) => EndsAt(i, at)'
<1>1. LinesRead
  BY DEF Reading
<1>2. LinesRead'
  BY <1>1 DEF LinesRead, IsRead, EndsAt, IsFirstLine
<1>3. \A i \in 0 .. Len(log), at \in Nat : EndsAt(i, at) => EndsAt(i, at)'
  BY DEF EndsAt, IsRead
<1> QED
  BY <1>2, <1>3

LEMMA ReadKeepsReading ==
  ASSUME Invariant, Reading, NEW k \in 0 .. Len(input) - taken, Read(k)
  PROVE  Reading'
<1> DEFINE bytes == SubSeq(input, taken + 1, taken + k)
<1>1. /\ input \in Seq(Byte) /\ taken \in 0 .. Len(input) /\ k \in Nat
      /\ k < Len(buf) /\ Len(buf) = BufferSize /\ buf \in Seq(Cells)
      /\ BufferSize \in Nat /\ Len(log) \in Nat /\ pc = "read"
  BY StringsAssumption DEF Invariant, TypeOK, Running, InReadIn, Read, Asked, Cells
<1>2. /\ bytes \in Seq(Byte) /\ Len(bytes) = k
      /\ \A i \in 1 .. k : bytes[i] = input[taken + i]
  <2> DEFINE first == taken + 1
             last == taken + k
  <2>1. /\ first \in Int /\ last \in Int
        /\ \A i \in first .. last : i \in 1 .. Len(input) /\ input[i] \in Byte
        /\ (IF first <= last THEN last - first + 1 ELSE 0) = k
        /\ \A i \in 1 .. k : first + i - 1 = taken + i
    BY <1>1
  <2> HIDE DEF first, last
  <2>2. /\ SubSeq(input, first, last) \in Seq(Byte)
        /\ Len(SubSeq(input, first, last)) = k
        /\ \A i \in 1 .. k : SubSeq(input, first, last)[i] = input[first + i - 1]
    BY <2>1, SubSeqProperties
  <2> QED
    BY <2>1, <2>2 DEF first, last
<1>3. /\ buf' = Written(0, bytes) /\ args' = <<taken, k>> /\ taken' = taken + k
      /\ pc' = "cut" /\ n' = k
      /\ UNCHANGED <<log, strs, input>>
  <2>1. Fits(0, bytes)
    BY <1>1, <1>2 DEF Fits
  <2> QED
    BY <2>1 DEF Read, Store, program
<1> HIDE DEF bytes
<1>4. Len(buf') = Len(buf) /\ \A i \in 1 .. k : buf'[i] = bytes[i]
  <2>1. bytes \in Seq(Cells) /\ 0 \in Nat
    BY <1>2 DEF Cells
  <2>2. /\ Len(Written(0, bytes)) = Len(buf)
        /\ \A i \in 1 .. Len(buf) :
             Written(0, bytes)[i] =
               IF i - 0 \in 1 .. Len(bytes) THEN bytes[i - 0] ELSE buf[i]
    BY <1>1, <2>1, WrittenFacts
  <2>3. \A i \in 1 .. k : i - 0 = i /\ i \in 1 .. Len(buf)
    BY <1>1
  <2> QED
    BY <1>2, <1>3, <2>2, <2>3
<1>5. PICK at \in Nat : at = taken
  BY <1>1
<1>6. IsBeingRead(at, k)'
  <2>1. EndsAt(Len(log), at)
    BY <1>1, <1>5 DEF Reading
  <2>2. EndsAt(Len(log), at)'
    BY <1>1, <1>3, <2>1, LoopsKeepLines
  <2>3. \A i \in 1 .. k : buf'[i] = input'[at + i]
    BY <1>2, <1>3, <1>4, <1>5
  <2> QED
    BY <1>1, <1>3, <1>4, <1>5, <2>2, <2>3 DEF IsBeingRead
<1>7. LinesRead'
  BY <1>3, LoopsKeepLines
<1> QED
  BY <1>1, <1>3, <1>6, <1>7 DEF Reading

LEMMA CutAtReadKeepsReading ==
  ASSUME Invariant, Reading, CutAtRead
  PROVE  Reading'
<1>1. PICK at \in Nat, count \in Nat : IsBeingRead(at, count)
  BY DEF Reading, CutAtRead
<1>2. /\ buf \in Seq(Cells) /\ n \in Nat /\ n < Len(buf) /\ n = count
      /\ Len(log) \in Nat
  BY <1>1 DEF Invariant, TypeOK, IsBeingRead, CutAtRead, Cells
<1>3. /\ Fits(n, <<0>>)
      /\ Len(Written(n, <<0>>)) = Len(buf)
      /\ \A i \in 1 .. Len(buf) :
           Written(n, <<0>>)[i] = IF i = n + 1 THEN 0 ELSE buf[i]
  BY <1>2, OneByte
<1>4. /\ buf' = Written(n, <<0>>) /\ pc' = "strip"
      /\ UNCHANGED <<strs, log, input, taken, args>>
  BY <1>3 DEF CutAtRead, Store, program, stdin
<1>5. LinesRead' /\ EndsAt(Len(log), at)'
  BY <1>1, <1>2, <1>4, LoopsKeepLines DEF IsBeingRead
<1>6. IsBeingRead(at, count)'
  <2>1. /\ Len(buf') = Len(buf) /\ buf'[count + 1] = 0
        /\ \A k \in 1 .. count : buf'[k] = buf[k]
    BY <1>2, <1>3, <1>4
  <2> QED
    BY <1>1, <1>4, <1>5, <2>1 DEF IsBeingRead
<1> QED
  BY <1>4, <1>5, <1>6 DEF Reading

(***************************************************************************)
(* What `strcspn` finds in the bytes of one read is the end of their first *)
(* line.                                                                   *)
(***************************************************************************)
LEMMA LineStripped ==
  ASSUME Invariant, pc = "strip", NEW at \in Nat, NEW count \in Nat,
         IsBeingRead(at, count),
         NEW m, m = FirstOf(buf, {0, NewLine}), NEW b, b = Written(m, << 0 >>)
  PROVE  /\ m \in Nat
         /\ Fits(m, << 0 >>)
         /\ IsFirstLine(CString(b), at, count)
<1>1. /\ buf \in Seq(Cells) /\ count < Len(buf) /\ buf[count + 1] = 0
      /\ \A k \in 1 .. count : buf[k] = input[at + k]
      /\ input \in Seq(Byte) /\ at + count <= Len(input)
  BY DEF Invariant, TypeOK, Cells, IsBeingRead
<1>2. /\ m \in 0 .. Len(buf) - 1
      /\ buf[m + 1] \in {0, NewLine}
      /\ \A i \in 1 .. m : buf[i] \notin {0, NewLine}
  <2>1. count + 1 \in 1 .. Len(buf) /\ buf[count + 1] \in {0, NewLine}
    BY <1>1
  <2> QED
    BY <1>1, <2>1, FirstOfFound
<1>3. m \in Nat /\ m <= count /\ m < Len(buf) /\ Len(buf) \in Nat /\ Len(input) \in Nat
  <2>1. m \in Nat /\ m < Len(buf) /\ Len(buf) \in Nat /\ Len(input) \in Nat
    BY <1>1, <1>2
  <2>2. count + 1 \notin 1 .. m
    BY <1>1, <1>2
  <2> QED
    BY <2>1, <2>2
<1>4. /\ Fits(m, <<0>>)
      /\ b \in Seq(Cells)
      /\ Len(b) = Len(buf)
      /\ \A i \in 1 .. Len(buf) : b[i] = IF i = m + 1 THEN 0 ELSE buf[i]
  <2>1. m \in Nat /\ m < Len(buf)
    BY <1>1, <1>2
  <2> QED
    BY <1>1, <2>1, OneByte
<1>5. \A i \in 1 .. m :
        /\ i \in 1 .. Len(buf)
        /\ b[i] = buf[i]
        /\ b[i] = input[at + i]
        /\ at + i \in 1 .. Len(input)
  <2> SUFFICES ASSUME NEW i \in 1 .. m
               PROVE  /\ i \in 1 .. Len(buf)
                      /\ b[i] = buf[i]
                      /\ b[i] = input[at + i]
                      /\ at + i \in 1 .. Len(input)
    OBVIOUS
  <2>1. i \in 1 .. count /\ i \in 1 .. Len(buf) /\ i # m + 1
    BY <1>1, <1>3
  <2>2. b[i] = buf[i]
    BY <1>4, <2>1
  <2>3. buf[i] = input[at + i]
    BY <1>1, <2>1
  <2>4. at + i \in 1 .. Len(input)
    BY <1>1, <1>3, <2>1
  <2> QED
    BY <2>1, <2>2, <2>3, <2>4
<1>6. IsLength(b, m)
  <2>1. m + 1 \in 1 .. Len(buf)
    BY <1>3
  <2>2. b[m + 1] = 0 /\ \A i \in 1 .. m : b[i] # 0
    BY <1>2, <1>4, <1>5, <2>1
  <2> QED
    BY <1>2, <1>4, <2>2 DEF IsLength
<1>7. Terminated(b)
  <2>1. m + 1 \in 1 .. Len(b) /\ b[m + 1] = 0
    BY <1>2, <1>4, <1>6 DEF IsLength
  <2>2. \A i \in 1 .. m : b[i] \in Byte
    <3> SUFFICES ASSUME NEW i \in 1 .. m PROVE b[i] \in Byte
      OBVIOUS
    <3>1. at + i \in 1 .. Len(input) /\ b[i] = input[at + i]
      BY <1>5
    <3> QED
      BY <1>1, <3>1
  <2>3. 0 \in Byte
    BY StringsAssumption DEF Byte
  <2>4. \A i \in 1 .. m + 1 : b[i] \in Byte
    <3> SUFFICES ASSUME NEW i \in 1 .. m + 1 PROVE b[i] \in Byte
      OBVIOUS
    <3>1. i = m + 1 \/ i \in 1 .. m
      BY <1>2
    <3> QED
      BY <2>1, <2>2, <2>3, <3>1
  <2> QED
    BY <2>1, <2>4 DEF Terminated
<1> DEFINE line == CString(b)
<1>8. /\ line \in Seq(Byte) /\ Len(line) = m
      /\ \A i \in 1 .. m : line[i] = input[at + i] /\ line[i] \notin {0, NewLine}
  <2>1. StrLen(b) = m
    BY <1>4, <1>6, LengthUnique
  <2>2. /\ line \in Seq(Byte) /\ Len(line) = m
        /\ \A i \in 1 .. m : line[i] = b[i]
    BY <1>4, <1>7, <2>1, StringFacts
  <2> QED
    BY <1>2, <1>5, <2>2
<1> HIDE DEF line
<1>9. line = SubSeq(input, at + 1, at + m)
  <2> DEFINE first == at + 1
             last == at + m
  <2>1. /\ first \in Int /\ last \in Int /\ m \in Nat /\ input \in Seq(Byte)
        /\ (IF first <= last THEN last - first + 1 ELSE 0) = m
        /\ last - first + 1 = m
        /\ \A i \in 1 .. m : first + i - 1 = at + i
    BY <1>1, <1>3
  <2>1a. \A i \in first .. last : input[i] \in Byte
    <3> SUFFICES ASSUME NEW i \in first .. last PROVE input[i] \in Byte
      OBVIOUS
    <3>1. i \in 1 .. Len(input)
      BY <1>1, <1>3
    <3> QED
      BY <1>1, <3>1
  <2> HIDE DEF first, last
  <2>2. PICK part : part = SubSeq(input, first, last)
    OBVIOUS
  <2>2a. /\ part \in Seq(Byte)
         /\ Len(part) = (IF first <= last THEN last - first + 1 ELSE 0)
         /\ \A i \in 1 .. last - first + 1 : part[i] = input[first + i - 1]
    BY <2>1, <2>1a, <2>2, SubSeqProperties
  <2>2b. Len(part) = m /\ last - first + 1 = m
    BY <2>1, <2>2a
  <2>2c. \A i \in 1 .. m : part[i] = line[i]
    BY <1>8, <2>1, <2>2a, <2>2b
  <2>3. line = SubSeq(input, first, last)
    BY <1>8, <2>2, <2>2a, <2>2b, <2>2c, SeqEqual
  <2> QED
    BY <2>3 DEF first, last
<1>10. m < count => input[at + m + 1] \in {0, NewLine}
  <2> SUFFICES ASSUME m < count PROVE input[at + m + 1] \in {0, NewLine}
    OBVIOUS
  <2>1. m + 1 \in 1 .. count /\ at + (m + 1) = at + m + 1
    BY <1>2
  <2> QED
    BY <1>1, <1>2, <2>1
<1>11. IsFirstLine(line, at, count)
  BY <1>3, <1>8, <1>9, <1>10 DEF IsFirstLine
<1> QED
  BY <1>2, <1>4, <1>11 DEF line

LEMMA StripNewLineKeepsReading ==
  ASSUME Invariant, Invariant', Reading, StripNewLine
  PROVE  Reading'
<1>1. PICK at \in Nat, count \in Nat : IsBeingRead(at, count)
  BY DEF Reading, StripNewLine
<1>2. PICK m : m = FirstOf(buf, {0, NewLine})
  OBVIOUS
<1>3. PICK b : b = Written(m, <<0>>)
  OBVIOUS
<1>4. m \in Nat /\ Fits(m, <<0>>) /\ IsFirstLine(CString(b), at, count)
  BY <1>1, <1>2, <1>3, LineStripped DEF StripNewLine
<1>5. PICK r : r = [op |-> "readin", args |-> <<at, count>>, result |-> Len(strs) + 1]
  OBVIOUS
<1>6. /\ strs' = Append(strs, b) /\ log' = Append(log, r) /\ pc' = "idle"
      /\ UNCHANGED <<input, taken>> /\ taken = at + count /\ EndsAt(Len(log), at)
  BY <1>1, <1>2, <1>3, <1>4, <1>5 DEF StripNewLine, ReturnString, IsBeingRead, stdin
<1>7. strs \in Seq(Seq(Cells)) /\ log \in Seq([op : Operations, args : Seq(Nat), result : Nat])
  BY DEF Invariant, TypeOK, Cells
<1>7a. Len(log) \in Nat /\ Len(strs) \in Nat
  BY <1>7
<1>8. /\ Extends(log, log') /\ Len(log') = Len(log) + 1 /\ log'[Len(log) + 1] = r
      /\ Extends(strs, strs') /\ Len(strs') = Len(strs) + 1 /\ strs'[Len(strs) + 1] = b
  BY <1>6, <1>7, AppendExtends
<1>9. /\ r.op = "readin" /\ r.args[1] = at /\ r.args[2] = count
      /\ r.result = Len(strs) + 1
  BY <1>5
<1>10. PICK past : past = Len(log)
  OBVIOUS
<1>11. EndsAt(past, at)' /\ past \in Nat /\ Len(log') = past + 1 /\ log'[past + 1] = r
  BY <1>6, <1>7a, <1>8, <1>10, EndsKept
<1>12. LinesRead'
  <2> SUFFICES ASSUME NEW i \in 1 .. Len(log'), IsRead(i)'
               PROVE  /\ log'[i].result \in 1 .. Len(strs')
                      /\ EndsAt(i - 1, log[i].args[1])'
                      /\ IsFirstLine(CString(strs[log[i].result]), log[i].args[1],
                                     log[i].args[2])'
    BY DEF LinesRead
  <2>1. CASE i \in 1 .. Len(log)
    BY <1>6, <1>8, <2>1, LinesKept
  <2>2. CASE i = past + 1
    <3>1. i - 1 = past /\ log'[i] = r
      BY <1>11, <2>2
    <3>2. strs'[r.result] = b
      BY <1>8, <1>9
    <3>3. IsFirstLine(CString(strs[log[i].result]), log[i].args[1], log[i].args[2])'
      BY <1>4, <1>6, <1>9, <3>1, <3>2 DEF IsFirstLine
    <3>4. r.result \in 1 .. Len(strs')
      BY <1>7a, <1>8, <1>9
    <3>5. EndsAt(i - 1, log[i].args[1])'
      BY <1>9, <1>11, <3>1 DEF EndsAt
    <3> QED
      BY <3>1, <3>3, <3>4, <3>5
  <2> QED
    BY <1>10, <1>11, <2>1, <2>2
<1>13. EndsAt(Len(log), taken)'
  <2>1. IsRead(past + 1)' /\ past + 1 \in 1 .. Len(log')
    BY <1>9, <1>11 DEF IsRead
  <2>2. ASSUME NEW j \in 1 .. Len(log'), \A k \in j + 1 .. Len(log') : ~ IsRead(k)'
        PROVE  taken' = log'[j].args[1] + log'[j].args[2]
    <3>1. past + 1 \notin j + 1 .. Len(log')
      BY <2>1, <2>2
    <3>2. j = past + 1
      BY <1>11, <3>1
    <3> QED
      BY <1>6, <1>9, <1>11, <3>2
  <2> QED
    BY <2>1, <2>2 DEF EndsAt
<1> QED
  BY <1>6, <1>12, <1>13 DEF Reading

(***************************************************************************)
(* The steps of the other builtins and of the program.                     *)
(***************************************************************************)
LEMMA OtherStep ==
  ASSUME Invariant, Invariant', Reading, UNCHANGED <<input, taken>>,
         strs' = strs \/ \E b : strs' = Append(strs, b),
         log' = log \/ \E r : r.op # "readin" /\ log' = Append(log, r),
         pc \notin {"cut", "strip"}, pc' \notin {"cut", "strip"}
  PROVE  Reading'
<1>1. /\ strs \in Seq(Seq(Cells))
      /\ log \in Seq([op : Operations, args : Seq(Nat), result : Nat])
  BY DEF Invariant, TypeOK, Cells
<1>2. Extends(strs, strs')
  BY <1>1, Same, AppendExtends
<1>3. Extends(log, log') /\ \A i \in Len(log) + 1 .. Len(log') : ~ IsRead(i)'
  <2>1. CASE log' = log
    <3>1. Len(log) + 1 > Len(log')
      BY <1>1, <2>1
    <3> QED
      BY <1>1, <2>1, <3>1, Same
  <2>2. CASE \E r : r.op # "readin" /\ log' = Append(log, r)
    <3>1. PICK r : r.op # "readin" /\ log' = Append(log, r)
      BY <2>2
    <3>2. Extends(log, log') /\ Len(log') = Len(log) + 1 /\ log'[Len(log) + 1] = r
      BY <1>1, <3>1, AppendExtends
    <3>3. \A i \in Len(log) + 1 .. Len(log') : i = Len(log) + 1
      BY <1>1, <3>2
    <3> QED
      BY <3>1, <3>2, <3>3 DEF IsRead
  <2> QED
    BY <2>1, <2>2
<1> QED
  BY <1>2, <1>3, OthersKeepReads

LEMMA NextReading ==
  ASSUME Invariant, Invariant', Reading, [Next]_vars
  PROVE  Reading'
<1> DEFINE Quiet ==
             /\ UNCHANGED <<input, taken>>
             /\ strs' = strs \/ \E b : strs' = Append(strs, b)
             /\ log' = log \/ \E r : r.op # "readin" /\ log' = Append(log, r)
             /\ pc \notin {"cut", "strip"}
             /\ pc' \notin {"cut", "strip"}
<1>1. Quiet => Reading'
  BY OtherStep
<1>2. ASSUME NEW op, op # "readin", NEW offset, NEW bytes,
             ReturnString(op, offset, bytes), pc \notin {"cut", "strip"}
      PROVE  Quiet
  BY <1>2 DEF ReturnString, stdin
<1>3. CASE Program
  <2>1. ASSUME NEW bytes, StringLiteral(bytes) PROVE Quiet
    BY <2>1 DEF StringLiteral, stdin
  <2>2. ASSUME NEW c, NEW l, ConsChar(c, l) PROVE Quiet
    BY <2>2 DEF ConsChar, stdin
  <2>3. ASSUME NEW l, FromChars(l) PROVE Quiet
    BY <2>3 DEF FromChars, stdin, program
  <2>4. ASSUME NEW s, ToChars(s) PROVE Quiet
    BY <2>4 DEF ToChars, stdin, program
  <2>5. ASSUME NEW s, NEW t, Concat(s, t) PROVE Quiet
    BY <2>5 DEF Concat, stdin, program
  <2>6. ASSUME ReadIn PROVE Quiet
    BY <2>6 DEF ReadIn, stdin, program
  <2> HIDE DEF Quiet
  <2> QED
    BY <1>1, <1>3, <2>1, <2>2, <2>3, <2>4, <2>5, <2>6 DEF Program
<1>4. CASE Builtin
  <2>1. ASSUME Count PROVE Quiet
    BY <2>1 DEF Count, stdin, program
  <2>2. ASSUME AllocateString PROVE Quiet
    BY <2>2 DEF AllocateString, stdin, program
  <2>3. ASSUME Fill PROVE Quiet
    BY <2>3 DEF Fill, Store, stdin, program
  <2>4. ASSUME TerminateString PROVE Quiet
    BY <1>2, <2>4 DEF TerminateString
  <2>5. ASSUME Descend PROVE Quiet
    BY <2>5 DEF Descend, stdin, program
  <2>6. ASSUME Bottom PROVE Quiet
    BY <2>6 DEF Bottom, stdin, program
  <2>7. ASSUME BuildCell PROVE Quiet
    BY <2>7 DEF BuildCell, stdin
  <2>8. ASSUME ReturnList PROVE Quiet
    BY <2>8 DEF ReturnList, stdin
  <2>9. ASSUME CopyFirst PROVE Quiet
    BY <2>9 DEF CopyFirst, Store, stdin, program
  <2>10. ASSUME AppendSecond PROVE Quiet
    BY <1>2, <2>10 DEF AppendSecond
  <2> HIDE DEF Quiet
  <2> QED
    BY <1>1, <1>4, <2>1, <2>2, <2>3, <2>4, <2>5, <2>6, <2>7, <2>8, <2>9, <2>10,
       ReadKeepsReading, CutAtReadKeepsReading, StripNewLineKeepsReading DEF Builtin
<1>5. CASE UNCHANGED vars
  <2>1. UNCHANGED <<strs, input, taken, pc, args, n, buf, log>>
    BY <1>5 DEF vars
  <2>2. LinesRead'
    BY <2>1, LoopsKeepLines
  <2>3. (pc \notin {"cut", "strip"} => EndsAt(Len(log), taken))'
    BY <2>1 DEF Reading, EndsAt, IsRead
  <2>4. (pc \in {"cut", "strip"} => \E at, count \in Nat : IsBeingRead(at, count))'
    <3> SUFFICES ASSUME pc' \in {"cut", "strip"}
                 PROVE  (\E at, count \in Nat : IsBeingRead(at, count))'
      OBVIOUS
    <3>1. PICK at \in Nat, count \in Nat : IsBeingRead(at, count)
      BY <2>1 DEF Reading
    <3>2. IsBeingRead(at, count)'
      BY <2>1, <3>1 DEF IsBeingRead, EndsAt, IsRead
    <3> QED
      BY <3>2
  <2> QED
    BY <2>2, <2>3, <2>4 DEF Reading
<1> QED
  BY <1>3, <1>4, <1>5 DEF Next

(***************************************************************************)
(* Each `readin` returns the first line of what its read gave it, and the  *)
(* reads follow one another in the input, whatever its length, however it  *)
(* is split and whatever other calls there are between them.               *)
(***************************************************************************)
THEOREM ReadsFollow == Spec => []ReadsInOrder
<1>1. Init => Reading
  BY DEF Init, Reading, LinesRead, EndsAt
<1>2. Invariant /\ Invariant' /\ Reading /\ [Next]_vars => Reading'
  BY NextReading
<1>3. Reading => ReadsInOrder
  BY DEF Reading, LinesRead, ReadsInOrder
<1> QED
  BY <1>1, <1>2, <1>3, InvariantHolds, PTL DEF Spec
=============================================================================
