---------------------------- MODULE LedgerProofs ----------------------------
(* Proofs about Ledger, for every set of accounts and transactions, all     *)
(* amounts, opening balances and days, and about the export jobs that       *)
(* MCLive runs beside it, for all jobs, workers and retries.                *)
EXTENDS MCLive, FiniteSetTheorems, FunctionTheorems, WellFoundedInduction, TLAPS

(***************************************************************************)
(* What the sums of Amounts compute, for sequences of every length.  The   *)
(* library's induction theorems take an operator as a parameter, so the    *)
(* induction used here is stated for a set, from the fact that < is well   *)
(* founded on Nat.                                                         *)
(***************************************************************************)
LEMMA Induction ==
  ASSUME NEW T, 0 \in T, \A n \in Nat : n \in T => n + 1 \in T
  PROVE  Nat \subseteq T
<1> DEFINE S == {n \in Nat : n \notin T}
<1> SUFFICES ASSUME S # {} PROVE FALSE
  OBVIOUS
<1>1. S \subseteq Nat
  OBVIOUS
<1>2. \A n \in Nat : n \in S <=> n \notin T
  OBVIOUS
<1> HIDE DEF S
<1>3. IsWellFoundedOn(OpToRel(<, Nat), Nat)
  BY NatLessThanWellFounded
<1>4. PICK m \in S : \A k \in S : ~(<<k, m>> \in OpToRel(<, Nat))
  BY <1>1, <1>3, WFMin
<1>5. \A k \in Nat : k < m => <<k, m>> \in OpToRel(<, Nat)
  BY <1>1 DEF OpToRel
<1>6. m \in Nat /\ m # 0
  BY <1>1, <1>2
<1>7. m - 1 \in Nat /\ m - 1 < m
  BY <1>6
<1>8. m - 1 \in T
  BY <1>2, <1>4, <1>5, <1>7
<1> QED
  BY <1>2, <1>6, <1>7, <1>8

\* The recursive definition of Sums has a solution.
Solves(q, g, n) == g = [i \in 0..n |-> IF i = 0 THEN 0 ELSE g[i - 1] + q[i]]

LEMMA SumsExist ==
  ASSUME NEW q \in Seq(Int)
  PROVE  \E g : Solves(q, g, Len(q))
<1> DEFINE T == {n \in Nat : n <= Len(q) => \E g : Solves(q, g, n)}
<1>1. 0 \in T
  <2>1. Solves(q, [i \in 0..0 |-> 0], 0)
    BY DEF Solves
  <2> QED
    BY <2>1
<1>2. ASSUME NEW n \in Nat, n \in T PROVE n + 1 \in T
  <2> SUFFICES ASSUME n + 1 <= Len(q) PROVE \E g : Solves(q, g, n + 1)
    OBVIOUS
  <2>1. PICK g : Solves(q, g, n)
    BY <1>2
  <2> DEFINE h == [i \in 0..(n + 1) |-> IF i <= n THEN g[i] ELSE g[n] + q[n + 1]]
  <2>2. ASSUME NEW i \in 0..(n + 1)
        PROVE  h[i] = IF i = 0 THEN 0 ELSE h[i - 1] + q[i]
    <3>1. CASE i = n + 1
      BY <3>1
    <3>2. CASE i = 0
      BY <2>1, <3>2 DEF Solves
    <3>3. CASE i \in 1..n
      BY <2>1, <3>3 DEF Solves
    <3> QED
      BY <3>1, <3>2, <3>3
  <2>3. h = [i \in 0..(n + 1) |-> h[i]]
    OBVIOUS
  <2> HIDE DEF h
  <2>4. Solves(q, h, n + 1)
    BY <2>2, <2>3 DEF Solves
  <2> QED
    BY <2>4
<1> HIDE DEF T
<1>3. Nat \subseteq T
  BY <1>1, <1>2, Induction
<1> USE DEF T
<1> QED
  BY <1>3

\* What Sums is, step by step.
LEMMA SumsStep ==
  ASSUME NEW q \in Seq(Int)
  PROVE  /\ Sums(q)[0] = 0
         /\ \A i \in 1..Len(q) : Sums(q)[i] = Sums(q)[i - 1] + q[i]
<1>1. PICK g : Solves(q, g, Len(q))
  BY SumsExist
<1>2. Sums(q) = CHOOSE f : f = [i \in 0..Len(q) |-> IF i = 0 THEN 0 ELSE f[i - 1] + q[i]]
  BY DEF Sums
<1>3. Sums(q) = [i \in 0..Len(q) |-> IF i = 0 THEN 0 ELSE Sums(q)[i - 1] + q[i]]
  BY <1>1, <1>2 DEF Solves
<1>4. Len(q) \in Nat
  OBVIOUS
<1> QED
  BY <1>3, <1>4

LEMMA SumsType ==
  ASSUME NEW q \in Seq(Int)
  PROVE  \A i \in 0..Len(q) : Sums(q)[i] \in Int
<1> DEFINE T == {n \in Nat : n <= Len(q) => Sums(q)[n] \in Int}
<1>1. 0 \in T
  BY SumsStep
<1>2. ASSUME NEW n \in Nat, n \in T PROVE n + 1 \in T
  <2> SUFFICES ASSUME n + 1 <= Len(q) PROVE Sums(q)[n + 1] \in Int
    OBVIOUS
  <2>1. q[n + 1] \in Int /\ Sums(q)[n] \in Int
    BY <1>2
  <2>2. Sums(q)[n + 1] = Sums(q)[(n + 1) - 1] + q[n + 1]
    BY SumsStep
  <2> QED
    BY <2>1, <2>2
<1> HIDE DEF T
<1>3. Nat \subseteq T
  BY <1>1, <1>2, Induction
<1> QED
  BY <1>3 DEF T

LEMMA TotalType ==
  ASSUME NEW q \in Seq(Int)
  PROVE  Total(q) \in Int
<1>1. Len(q) \in 0..Len(q)
  OBVIOUS
<1> QED
  BY <1>1, SumsType DEF Total

\* Short totals, as they come up where a journal has two lines.
LEMMA TotalShort ==
  ASSUME NEW q \in Seq(Int)
  PROVE  /\ Len(q) = 0 => Total(q) = 0
         /\ Len(q) = 1 => Total(q) = q[1]
         /\ Len(q) = 2 => Total(q) = q[1] + q[2]
<1>1. /\ Sums(q)[0] = 0
      /\ \A i \in 1..Len(q) : Sums(q)[i] = Sums(q)[i - 1] + q[i]
      /\ \A i \in 1..Len(q) : q[i] \in Int
  BY SumsStep
<1>2. CASE Len(q) = 0
  BY <1>1, <1>2 DEF Total
<1>3. CASE Len(q) = 1
  <2>1. 1 \in 1..Len(q) /\ 1 - 1 = 0
    BY <1>3
  <2> QED
    BY <1>1, <1>3, <2>1 DEF Total
<1>4. CASE Len(q) = 2
  <2>1. 1 \in 1..Len(q) /\ 2 \in 1..Len(q) /\ 1 - 1 = 0 /\ 2 - 1 = 1
    BY <1>4
  <2>2. Sums(q)[1] = 0 + q[1] /\ Sums(q)[2] = Sums(q)[1] + q[2] /\ q[1] \in Int /\ q[2] \in Int
    BY <1>1, <2>1
  <2> QED
    BY <1>4, <2>2 DEF Total
<1> QED
  BY <1>2, <1>3, <1>4

\* Adding to one amount adds to the total.
LEMMA TotalPoint ==
  ASSUME NEW q \in Seq(Int), NEW r \in Seq(Int), Len(r) = Len(q),
         NEW k \in 1..Len(q), NEW d \in Int, r[k] = q[k] + d,
         \A i \in 1..Len(q) : i # k => r[i] = q[i]
  PROVE  Total(r) = Total(q) + d
<1> DEFINE E(n) == IF n >= k THEN d ELSE 0
           T == {n \in Nat : n <= Len(q) => Sums(r)[n] = Sums(q)[n] + E(n)}
<1>1. 0 \in T
  BY SumsStep
<1>2. ASSUME NEW n \in Nat, n \in T PROVE n + 1 \in T
  <2> SUFFICES ASSUME n + 1 <= Len(q)
               PROVE  Sums(r)[n + 1] = Sums(q)[n + 1] + E(n + 1)
    OBVIOUS
  <2>1. n + 1 \in 1..Len(q) /\ n \in 0..Len(q) /\ (n + 1) - 1 = n
    OBVIOUS
  <2>2. /\ Sums(q)[n + 1] = Sums(q)[n] + q[n + 1]
        /\ Sums(r)[n + 1] = Sums(r)[n] + r[n + 1]
    BY <2>1, SumsStep
  <2>3. Sums(q)[n] \in Int /\ q[n + 1] \in Int
    BY <2>1, SumsType
  <2>4. Sums(r)[n] = Sums(q)[n] + E(n)
    BY <1>2, <2>1
  <2>5. r[n + 1] = q[n + 1] + (IF n + 1 = k THEN d ELSE 0)
    <3>1. CASE n + 1 = k
      BY <3>1
    <3>2. CASE n + 1 # k
      <4>1. r[n + 1] = q[n + 1]
        BY <2>1, <3>2
      <4> QED
        BY <2>3, <3>2, <4>1
    <3> QED
      BY <3>1, <3>2
  <2>6. E(n + 1) = E(n) + (IF n + 1 = k THEN d ELSE 0) /\ E(n) \in Int
    <3>1. CASE n + 1 = k
      BY <3>1
    <3>2. CASE n + 1 # k
      <4>1. n + 1 >= k <=> n >= k
        BY <3>2
      <4> QED
        BY <3>2, <4>1
    <3> QED
      BY <3>1, <3>2
  <2> DEFINE a == Sums(q)[n]
             x == q[n + 1]
             e == E(n)
             y == IF n + 1 = k THEN d ELSE 0
  <2>7. a \in Int /\ x \in Int /\ e \in Int /\ y \in Int
    BY <2>3, <2>6
  <2>8. /\ Sums(r)[n + 1] = (a + e) + (x + y) /\ Sums(q)[n + 1] = a + x
        /\ E(n + 1) = e + y
    BY <2>2, <2>4, <2>5, <2>6
  <2> HIDE DEF a, x, e, y, E
  <2>9. (a + e) + (x + y) = (a + x) + (e + y)
    BY <2>7
  <2> QED
    BY <2>8, <2>9
<1> HIDE DEF T
<1>3. Nat \subseteq T
  BY <1>1, <1>2, Induction
<1>4. Len(q) \in T /\ E(Len(q)) = d
  BY <1>3
<1> QED
  BY <1>4 DEF T, Total

LEMMA TotalZero ==
  ASSUME NEW q \in Seq(Int), \A i \in 1..Len(q) : q[i] = 0
  PROVE  Total(q) = 0
<1> DEFINE T == {n \in Nat : n <= Len(q) => Sums(q)[n] = 0}
<1>1. 0 \in T
  BY SumsStep
<1>2. ASSUME NEW n \in Nat, n \in T PROVE n + 1 \in T
  <2> SUFFICES ASSUME n + 1 <= Len(q) PROVE Sums(q)[n + 1] = 0
    OBVIOUS
  <2>1. Sums(q)[n + 1] = Sums(q)[(n + 1) - 1] + q[n + 1]
    BY SumsStep
  <2> QED
    BY <1>2, <2>1
<1> HIDE DEF T
<1>3. Nat \subseteq T
  BY <1>1, <1>2, Induction
<1> QED
  BY <1>3 DEF T, Total

(***************************************************************************)
(* The inductive invariant.                                                *)
(***************************************************************************)
LineRow == [gl : GL, debit : Int, credit : Int]
MoveRow == [acct : Account, delta : Int]
TxnRow == [ pc : {"new", "journal", "lines", "moves", "snapshot", "closure", "done", "aborted"},
            date : 0..MaxDay, lines : Seq(LineRow), moves : Seq(MoveRow), row : Nat,
            running : Seq(Int), closing : 0..MaxDay, count : Nat, fees : Int ]

Types ==
    /\ TypeOK
    /\ txns \in [Txn -> TxnRow]
    /\ journals \in [Txn -> [date : 0..MaxDay, lines : Seq(LineRow)]]
    /\ closures \in [Day -> [count : Nat, fees : Int, by : Txn \cup {NoTxn}]]
    /\ history \in [Account -> Seq([delta : Int, running : Int])]

\* What moves change in the accounts under a control account.
Under(moves, g) ==
    Total([i \in DOMAIN moves |-> IF Control(moves[i].acct) = g THEN moves[i].delta ELSE 0])

\* The journal of a plan says of the control accounts what its moves do to the
\* member accounts, and a member account is moved once.
PlanOK(tx) ==
    /\ tx.lines = << >> \/ Len(tx.lines) = 2
    /\ Len(tx.moves) <= 2
    /\ \A i, j \in DOMAIN tx.moves : tx.moves[i].acct = tx.moves[j].acct => i = j
    /\ \A g \in {"savings", "shares"} : Change(tx.lines, g) = Under(tx.moves, g)
    /\ tx.lines # << >> => tx.date \in Day
    /\ tx.closing # 0 => tx.moves = << >> /\ tx.date = tx.closing

\* The moves done so far: their accounts are locked and their balances known.
Moved(t) ==
    LET tx == txns[t] IN
    /\ tx.row \in 1..(Len(tx.moves) + 1) /\ Len(tx.running) = tx.row - 1
    /\ \A i \in 1..(tx.row - 1) :
          /\ lock[tx.moves[i].acct] = t
          /\ tx.running[i] = available[tx.moves[i].acct] + tx.moves[i].delta

\* How far a transaction is, and what it has locked and seen.
StageOK(t) ==
    LET tx == txns[t] IN
    /\ tx.pc # "done" => journals[t] = NoJournal
    /\ tx.pc \in {"journal", "lines"} => Len(tx.lines) = 2
    /\ tx.pc \in {"snapshot", "closure"} => tx.closing # 0
    /\ tx.pc = "lines" => tx.row \in 1..2
    /\ tx.pc \in {"journal", "snapshot", "closure"} => tx.row = 1
    /\ tx.pc \in {"journal", "lines", "snapshot", "closure"} => tx.running = << >>
    /\ tx.pc = "moves" => Moved(t)

PlansOK == \A t \in Txn : PlanOK(txns[t])
StagesOK == \A t \in Txn : StageOK(t)

\* Unless debits of an account overlapped, there is one at most and it is covered.
Covered(a) ==
    /\ available[a] >= 0
    /\ \A s, t \in Debiting(a) : s = t
    /\ \A t \in Txn : \A i \in DOMAIN txns[t].moves :
          Running(t) /\ txns[t].moves[i].acct = a => available[a] + txns[t].moves[i].delta >= 0

RacesOK == \A a \in Account \ raced : Covered(a)

UpTo(d) == {t \in Txn : journals[t].date \in 1..d}

\* What a closing has counted.
CountsOK(d, tx) ==
    tx.pc \in {"closure", "moves"} =>
        /\ tx.fees = 0
        /\ tx.count = (IF tx.lines = << >> THEN 0 ELSE 1) + Cardinality(UpTo(d))

\* A transaction past the trigger posts after a day that is closed.
After(d, tx) ==
    tx.pc \in {"lines", "moves", "snapshot", "closure"} /\ tx.lines # << >> => tx.date > d

\* A day closed by a transaction that is alone.
ClosingOK(d, t) ==
    LET tx == txns[t] IN
    /\ \A s \in Txn : Running(s) => s = t
    /\ balance["fees"] + Change(tx.lines, "fees") = 0
    /\ CountsOK(d, tx)

\* A day that is closed: who is past the trigger has a later date.
ClosedOK(d) ==
    /\ closures[d].count = Cardinality(UpTo(d)) /\ closures[d].fees = 0
    /\ \A t \in Txn : After(d, txns[t])

SealsOK ==
    \A d \in Day \ unsealed :
        /\ \A t \in Txn : Running(t) /\ txns[t].closing = d => ClosingOK(d, t)
        /\ d \in Closed => ClosedOK(d)

IInv == Types /\ PlansOK /\ StagesOK /\ LedgerReconciles /\ RunningBalances /\ RacesOK /\ SealsOK

(***************************************************************************)
(* Lemmas about sums over sets.                                             *)
(***************************************************************************)
LEMMA Enumeration ==
  ASSUME NEW S, IsFiniteSet(S)
  PROVE  LET e == SetToSeq(S) IN
         /\ Cardinality(S) \in Nat /\ e \in [1..Cardinality(S) -> S]
         /\ \A i, j \in 1..Cardinality(S) : e[i] = e[j] => i = j
         /\ \A x \in S : \E i \in 1..Cardinality(S) : e[i] = x
<1> DEFINE n == Cardinality(S)
           e == SetToSeq(S)
<1>1. n \in Nat /\ ExistsBijection(1..n, S)
  BY FS_CardinalityType
<1>2. PICK b : b \in Bijection(1..n, S)
  BY <1>1 DEF ExistsBijection
<1>3. b \in [1..n -> S] /\ IsInjective(b)
  BY <1>2 DEF Bijection, Injection
<1>4. e \in [1..n -> S] /\ IsInjective(e)
  BY <1>3 DEF SetToSeq
<1>5. e \in Injection(1..n, S)
  BY <1>4 DEF Injection
<1>6. Cardinality(1..n) = n
  BY <1>1, FS_Interval
<1>7. e \in Surjection(1..n, S)
  BY <1>5, <1>6, FS_Injection
<1> QED
  BY <1>1, <1>4, <1>7 DEF IsInjective, Surjection

\* Adding to one value adds to the sum over a set.
LEMMA SumAdd ==
  ASSUME NEW S, IsFiniteSet(S), NEW f, \A x \in S : f[x] \in Int,
         NEW g, NEW a \in S, NEW d \in Int, \A x \in S : x # a => g[x] = f[x], g[a] = f[a] + d
  PROVE  SumOf(S, f) \in Int /\ SumOf(S, g) = SumOf(S, f) + d
<1> DEFINE n == Cardinality(S)
           e == SetToSeq(S)
           q == [i \in DOMAIN e |-> f[e[i]]]
           r == [i \in DOMAIN e |-> g[e[i]]]
<1>1. /\ n \in Nat /\ e \in [1..n -> S]
      /\ \A i, j \in 1..n : e[i] = e[j] => i = j
      /\ \A x \in S : \E i \in 1..n : e[i] = x
  BY Enumeration
<1> HIDE DEF n, e
<1>2. /\ q \in Seq(Int) /\ Len(q) = n
      /\ r \in Seq(Int) /\ Len(r) = n
  <2>1. \A i \in 1..n : f[e[i]] \in Int /\ g[e[i]] \in Int
    <3>1. \A x \in S : f[x] \in Int /\ g[x] \in Int
      OBVIOUS
    <3> QED
      BY <1>1, <3>1
  <2>2. DOMAIN e = 1..n
    BY <1>1
  <2> QED
    BY <1>1, <2>1, <2>2
<1>3. \A i \in 1..n : q[i] = f[e[i]] /\ r[i] = g[e[i]] /\ e[i] \in S
  BY <1>1
<1>4. SumOf(S, f) = Total(q) /\ SumOf(S, g) = Total(r)
  BY DEF SumOf, e
<1>5. Total(q) \in Int
  BY <1>2, TotalType
<1> HIDE DEF q, r
<1>6. PICK k \in 1..n : e[k] = a
  BY <1>1
<1>7. r[k] = q[k] + d
  BY <1>3, <1>6
<1>8. ASSUME NEW i \in 1..n, i # k PROVE r[i] = q[i]
  <2>1. e[i] # a /\ e[i] \in S
    BY <1>1, <1>3, <1>6, <1>8
  <2> QED
    BY <1>3, <2>1
<1>9. r[k] = q[k] + d /\ \A i \in 1..Len(q) : i # k => r[i] = q[i]
  BY <1>2, <1>7, <1>8
<1>10. k \in 1..Len(q) /\ Len(r) = Len(q)
  BY <1>2
<1>11. Total(r) = Total(q) + d
  BY <1>2, <1>9, <1>10, TotalPoint
<1> QED
  BY <1>4, <1>5, <1>11

\* A sum depends on the values over its set only.
LEMMA SumSame ==
  ASSUME NEW S, IsFiniteSet(S), NEW f, NEW g, \A x \in S : f[x] \in Int /\ g[x] = f[x]
  PROVE  SumOf(S, f) \in Int /\ SumOf(S, g) = SumOf(S, f)
<1> DEFINE n == Cardinality(S)
           e == SetToSeq(S)
           q == [i \in DOMAIN e |-> f[e[i]]]
           r == [i \in DOMAIN e |-> g[e[i]]]
<1>1. n \in Nat /\ e \in [1..n -> S]
  BY Enumeration
<1> HIDE DEF n, e
<1>2. q \in Seq(Int) /\ r = q
  BY <1>1
<1>3. SumOf(S, f) = Total(q) /\ SumOf(S, g) = Total(r)
  BY DEF SumOf, e
<1> HIDE DEF q, r
<1> QED
  BY <1>2, <1>3, TotalType

LEMMA SumPoint ==
  ASSUME NEW S, IsFiniteSet(S), NEW f, \A x \in S : f[x] \in Int,
         NEW g, NEW a, NEW d \in Int,
         \A x \in S : x # a => g[x] = f[x], a \in S => g[a] = f[a] + d
  PROVE  /\ SumOf(S, f) \in Int
         /\ a \in S => SumOf(S, g) = SumOf(S, f) + d
         /\ a \notin S => SumOf(S, g) = SumOf(S, f)
<1>1. CASE a \in S
  <2>1. g[a] = f[a] + d
    BY <1>1
  <2> QED
    BY <1>1, <2>1, SumAdd
<1>2. CASE a \notin S
  <2>1. \A x \in S : f[x] \in Int /\ g[x] = f[x]
    BY <1>2
  <2> QED
    BY <1>2, <2>1, SumSame
<1> QED
  BY <1>1, <1>2

LEMMA SumZero ==
  ASSUME NEW S, IsFiniteSet(S), NEW f, \A x \in S : f[x] = 0
  PROVE  SumOf(S, f) = 0
<1> DEFINE n == Cardinality(S)
           e == SetToSeq(S)
           q == [i \in DOMAIN e |-> f[e[i]]]
<1>1. n \in Nat /\ e \in [1..n -> S]
  BY Enumeration
<1> HIDE DEF n, e
<1>2. q \in Seq(Int) /\ \A i \in 1..Len(q) : q[i] = 0
  BY <1>1
<1>3. Total(q) = 0
  BY <1>2, TotalZero
<1>4. SumOf(S, f) = Total(q)
  BY DEF SumOf, e
<1> QED
  BY <1>3, <1>4

(***************************************************************************)
(* Lemmas about one step.                                                   *)
(***************************************************************************)
\* The types of plans, unfolded.
LEMMA Typed ==
  ASSUME NEW tx \in TxnRow
  PROVE  /\ Len(tx.moves) \in Nat /\ DOMAIN tx.moves = 1..Len(tx.moves)
         /\ \A i \in DOMAIN tx.moves :
               /\ tx.moves[i].acct \in Account /\ tx.moves[i].acct \in Rows
               /\ tx.moves[i].delta \in Int
         /\ Len(tx.lines) \in Nat /\ DOMAIN tx.lines = 1..Len(tx.lines)
         /\ \A i \in DOMAIN tx.lines :
               tx.lines[i].gl \in GL /\ tx.lines[i].gl \in Rows /\ Effect(tx.lines[i]) \in Int
<1>1. tx.moves \in Seq(MoveRow) /\ tx.lines \in Seq(LineRow)
  BY DEF TxnRow
<1>2. \A m \in MoveRow : m.acct \in Account /\ m.acct \in Rows /\ m.delta \in Int
  BY DEF MoveRow, Rows
<1>3. \A l \in LineRow : l.gl \in GL /\ l.gl \in Rows /\ Effect(l) \in Int
  BY DEF LineRow, Rows, Effect
<1>4. \A i \in DOMAIN tx.moves : tx.moves[i] \in MoveRow
  BY <1>1
<1>5. \A i \in DOMAIN tx.lines : tx.lines[i] \in LineRow
  BY <1>1
<1> QED
  BY <1>1, <1>2, <1>3, <1>4, <1>5

LEMMA MovedTyped ==
  ASSUME NEW t \in Txn, txns[t] \in TxnRow, Moved(t)
  PROVE  /\ txns[t].row \in Nat /\ txns[t].row >= 1 /\ txns[t].row <= Len(txns[t].moves) + 1
         /\ \A i \in 1..(txns[t].row - 1) : i \in DOMAIN txns[t].moves
<1>1. PICK n \in Nat : n = Len(txns[t].moves) /\ DOMAIN txns[t].moves = 1..n
  BY Typed
<1>2. txns[t].row \in 1..(n + 1)
  BY <1>1 DEF Moved
<1>3. \A r \in 1..(n + 1) : r \in Nat /\ r >= 1 /\ r <= n + 1 /\ \A i \in 1..(r - 1) : i \in 1..n
  OBVIOUS
<1> QED
  BY <1>1, <1>2, <1>3

\* A step of a running transaction that nobody else can see.
LEMMA LocalStep ==
  ASSUME IInv, NEW t \in Txn, Running(t), NEW new \in TxnRow, txns' = [txns EXCEPT ![t] = new],
         new.pc \notin {"new", "done"}, new.lines = txns[t].lines, new.moves = txns[t].moves,
         new.date = txns[t].date, new.closing = txns[t].closing,
         lock' \in [Rows -> Txn \cup {NoTxn}],
         \A x \in Rows : lock'[x] # lock[x] => {lock[x], lock'[x]} \subseteq {NoTxn, t},
         new.pc = "aborted" => \A x \in Rows : lock'[x] # t,
         UNCHANGED <<today, balance, available, journals, history, closures, raced, unsealed>>,
         StageOK(t)',
         \A d \in Day \ unsealed : new.pc # "aborted" /\ new.closing = d => CountsOK(d, new),
         \A d \in Closed \ unsealed : After(d, new)
  PROVE  IInv'
<1>1. \A s \in Txn : txns[s] \in TxnRow /\ txns'[s] = IF s = t THEN new ELSE txns[s]
  BY DEF IInv, Types
<1>2. \A s \in Txn : Running(s)' => Running(s)
  BY <1>1 DEF Running
<1>3. Types'
  <2>1. TypeOK'
    <3>1. ASSUME NEW s \in Txn, ~Running(s)' PROVE Held(s)' = {}
      <4>1. CASE s = t
        BY <1>1, <3>1, <4>1 DEF Held, Running, TxnRow
      <4>2. CASE s # t
        <5>1. Held(s) = {}
          BY <1>1, <3>1, <4>2 DEF Running, IInv, Types, TypeOK
        <5> QED
          BY <4>2, <5>1, LedgerAssumption DEF Held
      <4> QED
        BY <4>1, <4>2
    <3>2. \A s \in Txn : txns'[s].pc \in {"new", "journal", "lines", "moves", "snapshot",
                                          "closure", "done", "aborted"}
      BY <1>1 DEF TxnRow
    <3> QED
      BY <3>1, <3>2 DEF TypeOK, IInv, Types
  <2>2. txns' \in [Txn -> TxnRow]
    BY DEF IInv, Types
  <2> QED
    BY <2>1, <2>2 DEF Types, IInv
<1>4. PlansOK'
  BY <1>1 DEF PlansOK, PlanOK, IInv
<1>5. StagesOK'
  <2>1. ASSUME NEW s \in Txn, s # t PROVE StageOK(s)'
    <3>1. StageOK(s) /\ txns'[s] = txns[s] /\ txns[s] \in TxnRow /\ s # NoTxn
      BY <1>1, <2>1, LedgerAssumption DEF IInv, StagesOK
    <3>2. \A i \in DOMAIN txns[s].moves : txns[s].moves[i].acct \in Rows
      BY <3>1, Typed
    <3>3. \A x \in Rows : lock[x] = s => lock'[x] = s
      BY <2>1, <3>1
    <3>4. CASE txns[s].pc = "moves"
      <4>1. Moved(s)
        BY <3>1, <3>4 DEF StageOK
      <4>2. \A i \in 1..(txns[s].row - 1) : i \in DOMAIN txns[s].moves
        BY <3>1, <4>1, MovedTyped
      <4>3. ASSUME NEW i \in 1..(txns[s].row - 1) PROVE lock'[txns[s].moves[i].acct] = s
        <5>1. lock[txns[s].moves[i].acct] = s
          BY <4>1 DEF Moved
        <5> QED
          BY <3>2, <3>3, <4>2, <5>1
      <4>4. Moved(s)'
        BY <3>1, <4>1, <4>3 DEF Moved
      <4> QED
        BY <3>1, <3>4, <4>4 DEF StageOK
    <3> QED
      BY <3>1, <3>4 DEF StageOK
  <2> QED
    BY <2>1 DEF StagesOK
<1>6. RacesOK'
  <2>1. \A a \in Account : Debiting(a)' \subseteq Debiting(a)
    BY <1>1, <1>2 DEF Debiting
  <2> QED
    BY <1>1, <1>2, <2>1 DEF RacesOK, Covered, IInv
<1>7. SealsOK'
  <2>1. \A d \in Day : UpTo(d)' = UpTo(d) /\ (d \in Closed' <=> d \in Closed)
    BY DEF UpTo, Closed
  <2>2. ASSUME NEW d \in Day \ unsealed, NEW s \in Txn, Running(s)', txns'[s].closing = d
        PROVE  ClosingOK(d, s)'
    <3>1. Running(s) /\ txns[s].closing = d /\ ClosingOK(d, s)
      BY <1>1, <1>2, <2>2 DEF SealsOK, IInv
    <3>2. txns'[s].lines = txns[s].lines
      BY <1>1
    <3>3. CountsOK(d, txns[s])'
      BY <1>1, <2>1, <2>2, <3>1 DEF CountsOK, ClosingOK, Running
    <3> QED
      BY <1>2, <3>1, <3>2, <3>3 DEF ClosingOK
  <2>3. ASSUME NEW d \in Day \ unsealed, d \in Closed' PROVE ClosedOK(d)'
    BY <1>1, <2>1, <2>3 DEF ClosedOK, SealsOK, After, IInv
  <2> QED
    BY <2>2, <2>3 DEF SealsOK
<1>8. LedgerReconciles' /\ RunningBalances'
  <2>1. LedgerReconciles'
    BY DEF LedgerReconciles, IInv
  <2>2. RunningBalances'
    BY DEF RunningBalances, IInv
  <2> QED
    BY <2>1, <2>2
<1> QED
  BY <1>3, <1>4, <1>5, <1>6, <1>7, <1>8 DEF IInv

\* The checking part of a procedure hands over a plan.
LEMMA BeginStep ==
  ASSUME IInv, NEW t \in Txn, txns[t].pc = "new",
         NEW new \in TxnRow, txns' = [txns EXCEPT ![t] = new],
         new.pc \in {"journal", "snapshot"}, PlanOK(new), new.row = 1, new.running = << >>,
         new.pc = "journal" => Len(new.lines) = 2,
         new.pc = "snapshot" => new.lines = << >> /\ new.closing # 0,
         \A i \in DOMAIN new.moves :
            new.moves[i].delta < 0 => available[new.moves[i].acct] + new.moves[i].delta >= 0,
         raced' = raced \cup
            {a \in Account : /\ Debiting(a) # {}
                             /\ \E i \in DOMAIN new.moves :
                                   new.moves[i].acct = a /\ new.moves[i].delta < 0},
         unsealed' \subseteq Day, unsealed \cup Closing \subseteq unsealed',
         new.closing # 0 => /\ (\E s \in Txn : Running(s)) => new.closing \in unsealed'
                            /\ balance["fees"] + Change(new.lines, "fees") = 0,
         UNCHANGED <<today, balance, available, journals, history, closures, lock>>
  PROVE  IInv'
<1>1. \A s \in Txn : txns[s] \in TxnRow /\ txns'[s] = IF s = t THEN new ELSE txns[s]
  BY DEF IInv, Types
<1>2. /\ \A s \in Txn : Running(s)' <=> s = t \/ Running(s)
      /\ ~Running(t)
  BY <1>1 DEF Running
<1>3. Types'
  <2>1. \A s \in Txn : ~Running(s)' => Held(s)' = {}
    BY <1>1, <1>2 DEF Held, IInv, Types, TypeOK
  <2>2. \A s \in Txn : txns'[s].pc \in {"new", "journal", "lines", "moves", "snapshot",
                                        "closure", "done", "aborted"}
    BY <1>1 DEF TxnRow
  <2>3. raced' \subseteq Account
    BY DEF IInv, Types, TypeOK
  <2>4. TypeOK'
    BY <2>1, <2>2, <2>3 DEF TypeOK, IInv, Types
  <2>5. txns' \in [Txn -> TxnRow]
    BY DEF IInv, Types
  <2> QED
    BY <2>4, <2>5 DEF Types, IInv
<1>4. PlansOK'
  BY <1>1 DEF PlansOK, PlanOK, IInv
<1>5. StagesOK'
  <2>1. StageOK(t)'
    BY <1>1 DEF StageOK, StagesOK, IInv
  <2>2. \A s \in Txn \ {t} : StageOK(s)'
    BY <1>1 DEF StageOK, Moved, StagesOK, IInv
  <2> QED
    BY <2>1, <2>2 DEF StagesOK
<1>6. RacesOK'
  <2> SUFFICES ASSUME NEW a \in Account, a \notin raced' PROVE Covered(a)'
    BY DEF RacesOK
  <2>1. Covered(a) /\ available[a] \in Int
    BY DEF RacesOK, IInv, Types, TypeOK
  <2>2. \A s \in Debiting(a)' : s \in Debiting(a) \/ s = t
    BY <1>1, <1>2 DEF Debiting
  <2>3. t \in Debiting(a)' => Debiting(a) = {}
    BY <1>1 DEF Debiting
  <2>4. \A r, s \in Debiting(a)' : r = s
    BY <2>1, <2>2, <2>3 DEF Covered
  <2>5. ASSUME NEW i \in DOMAIN new.moves, new.moves[i].acct = a
        PROVE  available[a] + new.moves[i].delta >= 0
    BY <2>1, <2>5, Typed DEF Covered
  <2> QED
    BY <1>1, <1>2, <2>1, <2>4, <2>5 DEF Covered
<1>7. SealsOK'
  <2>1. \A d \in Day : UpTo(d)' = UpTo(d) /\ (d \in Closed' <=> d \in Closed)
    BY DEF UpTo, Closed
  <2>2. ASSUME NEW d \in Day \ unsealed', NEW s \in Txn, Running(s)', txns'[s].closing = d
        PROVE  ClosingOK(d, s)'
    <3>1. d \notin Closing /\ s = t
      BY <1>1, <1>2, <2>2 DEF Closing
    <3>2. new.closing = d /\ d # 0
      BY <1>1, <2>2, <3>1, LedgerAssumption DEF Day
    <3> QED
      BY <1>1, <1>2, <2>2, <3>1, <3>2 DEF ClosingOK, CountsOK
  <2>3. ASSUME NEW d \in Day \ unsealed', d \in Closed' PROVE ClosedOK(d)'
    BY <1>1, <2>1, <2>3 DEF ClosedOK, SealsOK, After, IInv
  <2> QED
    BY <2>2, <2>3 DEF SealsOK
<1>8. LedgerReconciles' /\ RunningBalances'
  <2>1. LedgerReconciles'
    BY DEF LedgerReconciles, IInv
  <2>2. RunningBalances'
    BY DEF RunningBalances, IInv
  <2> QED
    BY <2>1, <2>2
<1> QED
  BY <1>3, <1>4, <1>5, <1>6, <1>7, <1>8 DEF IInv

(***************************************************************************)
(* What a procedure plans.                                                  *)
(***************************************************************************)
LEMMA ChangeOfTwo ==
  ASSUME NEW k \in LineRow, NEW l \in LineRow, NEW g
  PROVE  Change(<< k, l >>, g) =
            (IF k.gl = g THEN Effect(k) ELSE 0) + (IF l.gl = g THEN Effect(l) ELSE 0)
<1> DEFINE lines == << k, l >>
           q == [i \in DOMAIN lines |-> IF lines[i].gl = g THEN Effect(lines[i]) ELSE 0]
<1>1. Effect(k) \in Int /\ Effect(l) \in Int
  BY DEF LineRow, Effect
<1>2. DOMAIN lines = 1..2 /\ lines[1] = k /\ lines[2] = l
  OBVIOUS
<1>3. /\ q \in Seq(Int) /\ Len(q) = 2
      /\ q[1] = IF k.gl = g THEN Effect(k) ELSE 0
      /\ q[2] = IF l.gl = g THEN Effect(l) ELSE 0
  BY <1>1, <1>2
<1>4. Change(lines, g) = Total(q)
  BY DEF Change
<1> HIDE DEF lines, q
<1>5. Total(q) = q[1] + q[2]
  BY <1>3, TotalShort
<1> QED
  BY <1>3, <1>4, <1>5 DEF lines

LEMMA ChangeOfLines ==
  ASSUME NEW lines \in Seq(LineRow), NEW g
  PROVE  Change(lines, g) \in Int
<1> DEFINE q == [i \in DOMAIN lines |-> IF lines[i].gl = g THEN Effect(lines[i]) ELSE 0]
<1>1. \A l \in LineRow : Effect(l) \in Int
  BY DEF LineRow, Effect
<1>2. q \in Seq(Int)
  BY <1>1
<1> QED
  BY <1>2, TotalType DEF Change

LEMMA ChangeTyped ==
  ASSUME NEW tx \in TxnRow, NEW g
  PROVE  Change(tx.lines, g) \in Int
  BY ChangeOfLines DEF TxnRow

LEMMA NoChange == \A g : Change(<< >>, g) = 0 /\ Under(<< >>, g) = 0
<1>1. << >> \in Seq(Int) /\ Len(<< >>) = 0
  OBVIOUS
<1>2. Total(<< >>) = 0
  BY <1>1, TotalShort
<1>3. \A g : /\ Change(<< >>, g) = Total(<< >>)
             /\ Under(<< >>, g) = Total(<< >>)
  BY DEF Change, Under
<1> QED
  BY <1>2, <1>3

LEMMA UnderOfOne ==
  ASSUME NEW m \in MoveRow, NEW g
  PROVE  Under(<< m >>, g) = IF Control(m.acct) = g THEN m.delta ELSE 0
<1> DEFINE moves == << m >>
           q == [i \in DOMAIN moves |-> IF Control(moves[i].acct) = g THEN moves[i].delta ELSE 0]
<1>1. m.delta \in Int
  BY DEF MoveRow
<1>2. DOMAIN moves = 1..1 /\ moves[1] = m
  OBVIOUS
<1>3. q \in Seq(Int) /\ Len(q) = 1 /\ q[1] = IF Control(m.acct) = g THEN m.delta ELSE 0
  BY <1>1, <1>2
<1>4. Under(moves, g) = Total(q)
  BY DEF Under
<1> HIDE DEF moves, q
<1>5. Total(q) = q[1]
  BY <1>3, TotalShort
<1> QED
  BY <1>3, <1>4, <1>5 DEF moves

LEMMA UnderOfTwo ==
  ASSUME NEW m \in MoveRow, NEW n \in MoveRow, NEW g
  PROVE  Under(<< m, n >>, g) =
            (IF Control(m.acct) = g THEN m.delta ELSE 0)
            + (IF Control(n.acct) = g THEN n.delta ELSE 0)
<1> DEFINE moves == << m, n >>
           q == [i \in DOMAIN moves |-> IF Control(moves[i].acct) = g THEN moves[i].delta ELSE 0]
<1>1. m.delta \in Int /\ n.delta \in Int
  BY DEF MoveRow
<1>2. DOMAIN moves = 1..2 /\ moves[1] = m /\ moves[2] = n
  OBVIOUS
<1>3. /\ q \in Seq(Int) /\ Len(q) = 2
      /\ q[1] = IF Control(m.acct) = g THEN m.delta ELSE 0
      /\ q[2] = IF Control(n.acct) = g THEN n.delta ELSE 0
  BY <1>1, <1>2
<1>4. Under(moves, g) = Total(q)
  BY DEF Under
<1> HIDE DEF moves, q
<1>5. Total(q) = q[1] + q[2]
  BY <1>3, TotalShort
<1> QED
  BY <1>3, <1>4, <1>5 DEF moves

LEMMA FreshTyped ==
  /\ Fresh \in TxnRow /\ Fresh.pc = "new"
  /\ Fresh.lines = << >> /\ Fresh.moves = << >>
  /\ Fresh.row = 1 /\ Fresh.running = << >> /\ Fresh.closing = 0
<1>1. << >> \in Seq(LineRow) /\ << >> \in Seq(MoveRow) /\ << >> \in Seq(Int)
  OBVIOUS
<1>2. 0 \in 0..MaxDay
  BY LedgerAssumption
<1> QED
  BY <1>1, <1>2 DEF Fresh, TxnRow

\* The procedures for member accounts and fees.
LEMMA PlanStep ==
  ASSUME IInv, NEW t \in Txn, NEW lines, NEW moves, Plan(t, today, lines, moves),
         lines \in Seq(LineRow), Len(lines) = 2, moves \in Seq(MoveRow), Len(moves) <= 2,
         \A i, j \in DOMAIN moves : moves[i].acct = moves[j].acct => i = j,
         \A g \in {"savings", "shares"} : Change(lines, g) = Under(moves, g),
         \A i \in DOMAIN moves :
            moves[i].delta < 0 => available[moves[i].acct] + moves[i].delta >= 0
  PROVE  IInv'
<1> DEFINE new == [Fresh EXCEPT !.pc = "journal", !.date = today, !.lines = lines, !.moves = moves]
<1>1. today \in 1..MaxDay
  BY DEF IInv, Types, TypeOK, Day
<1>2. /\ Fresh \in TxnRow
      /\ Fresh.row = 1 /\ Fresh.running = << >> /\ Fresh.closing = 0
  BY FreshTyped
<1>3. today \in 0..MaxDay
  BY <1>1, LedgerAssumption
<1>4. txns' = [txns EXCEPT ![t] = new] /\ txns[t].pc = "new"
  BY DEF Plan
<1>5. /\ new.pc = "journal" /\ new.date = today /\ new.lines = lines /\ new.moves = moves
      /\ new.row = 1 /\ new.running = << >> /\ new.closing = 0
  BY <1>2 DEF TxnRow
<1>6. new \in TxnRow
  BY <1>2, <1>3 DEF TxnRow
<1> HIDE DEF new
<1>7. PlanOK(new)
  BY <1>1, <1>5 DEF PlanOK, Day
<1>8. unsealed' = unsealed \cup Closing /\ unsealed' \subseteq Day
  BY DEF Plan, Closing, IInv, Types, TypeOK
<1>9. /\ raced' = raced \cup {a \in Account : /\ Debiting(a) # {}
                                              /\ \E i \in DOMAIN moves :
                                                    moves[i].acct = a /\ moves[i].delta < 0}
      /\ UNCHANGED <<today, balance, available, journals, history, closures, lock>>
  BY DEF Plan
<1> QED
  BY <1>4, <1>5, <1>6, <1>7, <1>8, <1>9, BeginStep

LEMMA LineTyped ==
  ASSUME NEW gl \in GL, NEW debit \in Int, NEW credit \in Int
  PROVE  /\ Line(gl, debit, credit) \in LineRow /\ Line(gl, debit, credit).gl = gl
         /\ Effect(Line(gl, debit, credit)) = IF gl = "cash" THEN debit - credit ELSE credit - debit
  BY DEF Line, LineRow, Effect, DebitNormal

LEMMA MoveTyped ==
  ASSUME NEW a \in Account, NEW delta \in Int
  PROVE  Move(a, delta) \in MoveRow /\ Move(a, delta).acct = a /\ Move(a, delta).delta = delta
  BY DEF Move, MoveRow

\* Cash against one member account: a deposit, a contribution, a withdrawal.
LEMMA OneAccountStep ==
  ASSUME IInv, NEW t \in Txn, NEW a \in Account, NEW k, NEW l, NEW delta \in Int,
         k \in LineRow, l \in LineRow, {k.gl, l.gl} = {"cash", Control(a)},
         k.gl = Control(a) => Effect(k) = delta, l.gl = Control(a) => Effect(l) = delta,
         delta < 0 => available[a] + delta >= 0,
         Plan(t, today, << k, l >>, << Move(a, delta) >>)
  PROVE  IInv'
<1> DEFINE lines == << k, l >>
           m == Move(a, delta)
           moves == << m >>
<1>1. m \in MoveRow /\ m.acct = a /\ m.delta = delta
  BY MoveTyped
<1>2. lines \in Seq(LineRow) /\ Len(lines) = 2
  OBVIOUS
<1>3. moves \in Seq(MoveRow) /\ Len(moves) = 1 /\ DOMAIN moves = 1..1 /\ moves[1] = m
  BY <1>1
<1>4. Control(a) \in {"savings", "shares"}
  BY DEF Control
<1>5. \A g \in {"savings", "shares"} : Change(lines, g) = Under(moves, g)
  <2> SUFFICES ASSUME NEW g \in {"savings", "shares"} PROVE Change(lines, g) = Under(moves, g)
    OBVIOUS
  <2>1. Change(lines, g) = (IF k.gl = g THEN Effect(k) ELSE 0) + (IF l.gl = g THEN Effect(l) ELSE 0)
    BY ChangeOfTwo
  <2>2. Under(moves, g) = IF Control(a) = g THEN delta ELSE 0
    BY <1>1, UnderOfOne
  <2>3. \/ k.gl = "cash" /\ l.gl = Control(a)
        \/ k.gl = Control(a) /\ l.gl = "cash"
    BY <1>4
  <2> QED
    BY <2>1, <2>2, <2>3
<1>6. \A i \in DOMAIN moves : moves[i].delta < 0 => available[moves[i].acct] + moves[i].delta >= 0
  BY <1>1, <1>3
<1>7. \A i, j \in DOMAIN moves : moves[i].acct = moves[j].acct => i = j
  BY <1>3
<1>8. Plan(t, today, lines, moves) /\ Len(moves) <= 2
  BY <1>3
<1> HIDE DEF lines, moves, m
<1> QED
  BY <1>2, <1>3, <1>5, <1>6, <1>7, <1>8, PlanStep

LEMMA PayInStep ==
  ASSUME IInv, NEW t \in Txn, NEW a \in Account, NEW amt \in Amount, PayIn(t, a, amt)
  PROVE  IInv'
<1>1. amt \in Nat /\ amt \in Int /\ ~(amt < 0)
  BY LedgerAssumption
<1>2. Control(a) \in GL /\ Control(a) # "cash" /\ "cash" \in GL
  BY DEF Control, GL
<1>3. PICK k, l : k = Line("cash", amt, 0) /\ l = Line(Control(a), 0, amt)
  OBVIOUS
<1>4. /\ k \in LineRow /\ k.gl = "cash"
      /\ l \in LineRow /\ l.gl = Control(a) /\ Effect(l) = amt - 0
  BY <1>1, <1>2, <1>3, LineTyped
<1>5. Plan(t, today, << k, l >>, << Move(a, amt) >>)
  BY <1>3 DEF PayIn
<1> QED
  BY <1>1, <1>2, <1>4, <1>5, OneAccountStep

LEMMA WithdrawStep ==
  ASSUME IInv, NEW t \in Txn, NEW a \in Account, NEW amt \in Amount, Withdraw(t, a, amt)
  PROVE  IInv'
<1>1. amt \in Nat /\ available[a] \in Int /\ available[a] >= amt
  BY LedgerAssumption DEF Withdraw, IInv, Types, TypeOK
<1>2. Control(a) \in GL /\ Control(a) # "cash" /\ "cash" \in GL
  BY DEF Control, GL
<1>3. PICK k, l, delta : k = Line(Control(a), amt, 0) /\ l = Line("cash", 0, amt) /\ delta = -amt
  OBVIOUS
<1>4. /\ k \in LineRow /\ k.gl = Control(a) /\ Effect(k) = 0 - amt
      /\ l \in LineRow /\ l.gl = "cash"
  BY <1>1, <1>2, <1>3, LineTyped
<1>5. delta \in Int /\ delta = 0 - amt /\ available[a] + delta >= 0
  BY <1>1, <1>3
<1>6. Plan(t, today, << k, l >>, << Move(a, delta) >>)
  BY <1>3 DEF Withdraw
<1> QED
  BY <1>2, <1>4, <1>5, <1>6, OneAccountStep

LEMMA TransferStep ==
  ASSUME IInv, NEW t \in Txn, NEW a \in Account, NEW b \in Account, NEW amt \in Amount,
         Transfer(t, a, b, amt)
  PROVE  IInv'
<1>1. amt \in Nat /\ available[a] \in Int /\ available[a] >= amt /\ a # b
  BY LedgerAssumption DEF Transfer, IInv, Types, TypeOK
<1>2. Control(a) \in GL /\ Control(b) \in GL /\ Control(a) # "cash" /\ Control(b) # "cash"
  BY DEF Control, GL
<1>3. PICK k, l, m, n, delta : /\ k = Line(Control(a), amt, 0) /\ l = Line(Control(b), 0, amt)
                               /\ delta = -amt /\ m = Move(a, delta) /\ n = Move(b, amt)
  OBVIOUS
<1>4. /\ k \in LineRow /\ k.gl = Control(a) /\ Effect(k) = 0 - amt
      /\ l \in LineRow /\ l.gl = Control(b) /\ Effect(l) = amt - 0
  BY <1>1, <1>2, <1>3, LineTyped
<1>5. /\ delta \in Int /\ delta = 0 - amt /\ available[a] + delta >= 0
      /\ ~(amt < 0) /\ amt - 0 = amt
  BY <1>1, <1>3
<1>6. /\ m \in MoveRow /\ m.acct = a /\ m.delta = delta
      /\ n \in MoveRow /\ n.acct = b /\ n.delta = amt
  BY <1>1, <1>3, <1>5, MoveTyped
<1> DEFINE lines == << k, l >>
           moves == << m, n >>
<1>7. lines \in Seq(LineRow) /\ Len(lines) = 2
  BY <1>4
<1>8. /\ moves \in Seq(MoveRow) /\ Len(moves) = 2 /\ DOMAIN moves = 1..2
      /\ moves[1] = m /\ moves[2] = n
  BY <1>6
<1>9. \A g \in {"savings", "shares"} : Change(lines, g) = Under(moves, g)
  <2> SUFFICES ASSUME NEW g \in {"savings", "shares"} PROVE Change(lines, g) = Under(moves, g)
    OBVIOUS
  <2>1. Change(lines, g) = (IF k.gl = g THEN Effect(k) ELSE 0) + (IF l.gl = g THEN Effect(l) ELSE 0)
    BY <1>4, ChangeOfTwo
  <2>2. Under(moves, g) =
           (IF Control(m.acct) = g THEN m.delta ELSE 0)
           + (IF Control(n.acct) = g THEN n.delta ELSE 0)
    BY <1>6, UnderOfTwo
  <2> QED
    BY <1>4, <1>5, <1>6, <2>1, <2>2
<1>10. \A i \in DOMAIN moves : moves[i].delta < 0 => available[moves[i].acct] + moves[i].delta >= 0
  BY <1>5, <1>6, <1>8
<1>11. \A i, j \in DOMAIN moves : moves[i].acct = moves[j].acct => i = j
  BY <1>1, <1>6, <1>8
<1>12. Plan(t, today, lines, moves) /\ Len(moves) <= 2
  BY <1>3, <1>8 DEF Transfer
<1> HIDE DEF lines, moves
<1> QED
  BY <1>7, <1>8, <1>9, <1>10, <1>11, <1>12, PlanStep

LEMMA PostMembershipFeeStep ==
  ASSUME IInv, NEW t \in Txn, NEW amt \in Amount, PostMembershipFee(t, amt)
  PROVE  IInv'
<1>1. amt \in Nat /\ amt \in Int /\ "cash" \in GL /\ "fees" \in GL
  BY LedgerAssumption DEF GL
<1>2. PICK k, l : k = Line("cash", amt, 0) /\ l = Line("fees", 0, amt)
  OBVIOUS
<1>3. k \in LineRow /\ k.gl = "cash" /\ l \in LineRow /\ l.gl = "fees"
  BY <1>1, <1>2, LineTyped
<1>4. PICK lines, moves : lines = << k, l >> /\ moves = << >>
  OBVIOUS
<1>5. /\ lines \in Seq(LineRow) /\ Len(lines) = 2
      /\ moves \in Seq(MoveRow) /\ Len(moves) = 0 /\ DOMAIN moves = {}
  BY <1>3, <1>4
<1>6. \A g \in {"savings", "shares"} : Change(lines, g) = Under(moves, g)
  <2> SUFFICES ASSUME NEW g \in {"savings", "shares"} PROVE Change(lines, g) = Under(moves, g)
    OBVIOUS
  <2>1. Change(lines, g) = (IF k.gl = g THEN Effect(k) ELSE 0) + (IF l.gl = g THEN Effect(l) ELSE 0)
    BY <1>3, <1>4, ChangeOfTwo
  <2>2. Under(moves, g) = 0
    BY <1>4, NoChange
  <2> QED
    BY <1>3, <2>1, <2>2
<1>7. Plan(t, today, lines, moves) /\ Len(moves) <= 2
  BY <1>2, <1>4, <1>5 DEF PostMembershipFee
<1> QED
  BY <1>5, <1>6, <1>7, PlanStep

\* The closing entry takes from the income accounts what they hold.
LEMMA ClosingLinesFit ==
  ASSUME balance["fees"] \in Int
  PROVE  /\ ClosingLines \in Seq(LineRow) /\ (ClosingLines = << >> \/ Len(ClosingLines) = 2)
         /\ balance["fees"] + Change(ClosingLines, "fees") = 0
         /\ \A g \in {"savings", "shares"} : Change(ClosingLines, g) = 0
<1>1. CASE balance["fees"] = 0
  <2>1. ClosingLines = << >>
    BY <1>1 DEF ClosingLines
  <2>2. << >> \in Seq(LineRow)
    OBVIOUS
  <2> QED
    BY <1>1, <2>1, <2>2, NoChange
<1>2. CASE balance["fees"] # 0
  <2>1. PICK b \in Int : b = balance["fees"]
    OBVIOUS
  <2>2. PICK x, y : /\ x = (IF b < 0 THEN -b ELSE 0) /\ y = (IF b > 0 THEN b ELSE 0)
                    /\ x \in Int /\ y \in Int
    OBVIOUS
  <2>3. PICK k, l : k = Line("fees", b, 0) /\ l = Line("retained", x, y)
    OBVIOUS
  <2>4. "fees" \in GL /\ "retained" \in GL /\ 0 \in Int
    BY DEF GL
  <2>5. k \in LineRow /\ k.gl = "fees" /\ Effect(k) = 0 - b
    BY <2>4, <2>1, <2>3, LineTyped
  <2>6. l \in LineRow /\ l.gl = "retained"
    BY <2>4, <2>2, <2>3, LineTyped
  <2>7. /\ k \in LineRow /\ k.gl = "fees" /\ Effect(k) = 0 - b
        /\ l \in LineRow /\ l.gl = "retained"
    BY <2>5, <2>6
  <2>8. ClosingLines = << k, l >>
    BY <1>2, <2>1, <2>2, <2>3 DEF ClosingLines
  <2>9. << k, l >> \in Seq(LineRow) /\ Len(<< k, l >>) = 2
    BY <2>7
  <2>10. \A g : Change(ClosingLines, g) =
                  (IF k.gl = g THEN Effect(k) ELSE 0) + (IF l.gl = g THEN Effect(l) ELSE 0)
    BY <2>7, <2>8, ChangeOfTwo
  <2>11. Change(ClosingLines, "fees") = (0 - b) + 0 /\ b + ((0 - b) + 0) = 0
    BY <2>7, <2>10
  <2>12. \A g \in {"savings", "shares"} : Change(ClosingLines, g) = 0
    BY <2>7, <2>10
  <2> QED
    BY <2>1, <2>8, <2>9, <2>11, <2>12
<1> QED
  BY <1>1, <1>2

LEMMA ClosingProcedureStep ==
  ASSUME IInv, NEW t \in Txn, NEW d \in Day, ClosingProcedure(t, d)
  PROVE  IInv'
<1>1. PICK lines : lines = ClosingLines
  OBVIOUS
<1>2. balance["fees"] \in Int
  BY DEF IInv, Types, TypeOK, GL
<1>3. /\ lines \in Seq(LineRow) /\ (lines = << >> \/ Len(lines) = 2)
      /\ balance["fees"] + Change(lines, "fees") = 0
      /\ \A g \in {"savings", "shares"} : Change(lines, g) = 0
  BY <1>1, <1>2, ClosingLinesFit
<1> DEFINE pc == IF lines = << >> THEN "snapshot" ELSE "journal"
           new == [Fresh EXCEPT !.pc = pc, !.date = d, !.lines = lines, !.closing = d]
<1>4. txns[t].pc = "new" /\ txns' = [txns EXCEPT ![t] = new]
  BY <1>1 DEF ClosingProcedure
<1>5. d \in 0..MaxDay /\ d # 0 /\ d \in Day
  BY LedgerAssumption DEF Day
<1>6. /\ new \in TxnRow
      /\ new.pc = pc /\ new.date = d /\ new.lines = lines /\ new.moves = << >>
      /\ new.row = 1 /\ new.running = << >> /\ new.closing = d
  <2>1. pc \in {"snapshot", "journal"}
    OBVIOUS
  <2> HIDE DEF pc
  <2> QED
    BY <1>3, <1>5, <2>1, FreshTyped DEF TxnRow
<1> HIDE DEF new
<1>7. PlanOK(new)
  <2>1. Len(<< >>) <= 2 /\ DOMAIN << >> = {}
    OBVIOUS
  <2>2. \A g \in {"savings", "shares"} : Change(new.lines, g) = Under(new.moves, g)
    BY <1>3, <1>6, NoChange
  <2> QED
    BY <1>3, <1>5, <1>6, <2>1, <2>2 DEF PlanOK
<1>8. unsealed' \subseteq Day /\ unsealed \cup Closing \subseteq unsealed'
      /\ ((\E s \in Txn : Running(s)) => d \in unsealed')
  BY DEF ClosingProcedure, Closing, IInv, Types, TypeOK
<1>9. UNCHANGED <<today, balance, available, journals, history, closures, lock, raced>>
  BY DEF ClosingProcedure
<1>10. DOMAIN new.moves = {}
  BY <1>6
<1>11. raced' = raced \cup {a \in Account : /\ Debiting(a) # {}
                                            /\ \E i \in DOMAIN new.moves :
                                                  new.moves[i].acct = a /\ new.moves[i].delta < 0}
  BY <1>9, <1>10
<1>12. /\ new.pc \in {"journal", "snapshot"}
       /\ new.pc = "journal" => Len(new.lines) = 2
       /\ new.pc = "snapshot" => new.lines = << >> /\ new.closing # 0
       /\ balance["fees"] + Change(new.lines, "fees") = 0
  BY <1>3, <1>5, <1>6
<1> HIDE DEF pc
<1>13. \A i \in DOMAIN new.moves :
          new.moves[i].delta < 0 => available[new.moves[i].acct] + new.moves[i].delta >= 0
  BY <1>10
<1>14. new.closing # 0 => ((\E s \in Txn : Running(s)) => new.closing \in unsealed')
  BY <1>6, <1>8
<1> QED
  BY <1>4, <1>6, <1>7, <1>8, <1>9, <1>11, <1>12, <1>13, <1>14, BeginStep

LEMMA BeginKeeps ==
  ASSUME IInv, NEW t \in Txn, Begin(t)
  PROVE  IInv'
<1>1. ASSUME NEW amt \in Amount, NEW a \in Account,
             Deposit(t, a, amt) \/ ShareContribution(t, a, amt)
      PROVE  IInv'
  BY <1>1, PayInStep DEF Deposit, ShareContribution
<1> QED
  BY <1>1, WithdrawStep, TransferStep, PostMembershipFeeStep, ClosingProcedureStep DEF Begin

(***************************************************************************)
(* The statements of a plan.                                                *)
(***************************************************************************)
LEMMA EndStep ==
  ASSUME IInv, NEW t \in Txn, Running(t), End(t, "aborted"),
         UNCHANGED <<today, balance, available, journals, history, closures, raced, unsealed>>
  PROVE  IInv'
<1> DEFINE new == [txns[t] EXCEPT !.pc = "aborted"]
<1>1. txns[t] \in TxnRow /\ StageOK(t)
  BY DEF IInv, Types, StagesOK
<1>2. /\ new \in TxnRow /\ new.pc = "aborted" /\ new.lines = txns[t].lines
      /\ new.moves = txns[t].moves /\ new.date = txns[t].date /\ new.closing = txns[t].closing
  BY <1>1 DEF TxnRow
<1>3. txns' = [txns EXCEPT ![t] = new] /\ txns'[t] = new
  BY <1>1 DEF End, IInv, Types
<1>4. lock' = [x \in Rows |-> IF lock[x] = t THEN NoTxn ELSE lock[x]]
  BY DEF End, Release
<1> HIDE DEF new
<1>5. /\ lock' \in [Rows -> Txn \cup {NoTxn}]
      /\ \A x \in Rows : lock'[x] # lock[x] => {lock[x], lock'[x]} \subseteq {NoTxn, t}
      /\ \A x \in Rows : lock'[x] # t
  BY <1>4, LedgerAssumption DEF IInv, Types, TypeOK
<1>6. StageOK(t)'
  BY <1>1, <1>2, <1>3 DEF StageOK, Running
<1>7. \A d \in Day : After(d, new)
  BY <1>2 DEF After
<1>8. \A d \in Closed \ unsealed : After(d, new)
  BY <1>7 DEF Closed
<1> QED
  BY <1>2, <1>3, <1>5, <1>6, <1>8, LocalStep

LEMMA InsertJournalStep ==
  ASSUME IInv, NEW t \in Txn, InsertJournal(t)
  PROVE  IInv'
<1>1. txns[t].pc = "journal" /\ Running(t) /\ txns[t] \in TxnRow /\ StageOK(t)
  BY DEF InsertJournal, Running, IInv, Types, StagesOK
<1>2. UNCHANGED <<today, balance, available, journals, history, closures, raced, unsealed>>
  BY DEF InsertJournal
<1>3. CASE End(t, "aborted")
  BY <1>1, <1>2, <1>3, EndStep
<1>4. CASE PeriodOpen(txns[t].date) /\ txns' = [txns EXCEPT ![t].pc = "lines"] /\ UNCHANGED lock
  <2> DEFINE new == [txns[t] EXCEPT !.pc = "lines"]
  <2>1. /\ new \in TxnRow /\ new.pc = "lines" /\ new.lines = txns[t].lines
        /\ new.moves = txns[t].moves /\ new.date = txns[t].date /\ new.closing = txns[t].closing
        /\ new.row = txns[t].row /\ new.running = txns[t].running
    BY <1>1 DEF TxnRow
  <2>2. txns' = [txns EXCEPT ![t] = new] /\ txns'[t] = new
    BY <1>1, <1>4 DEF IInv, Types
  <2> HIDE DEF new
  <2>3. /\ lock' \in [Rows -> Txn \cup {NoTxn}]
        /\ \A x \in Rows : lock'[x] = lock[x]
    BY <1>4 DEF IInv, Types, TypeOK
  <2>4. StageOK(t)'
    BY <1>1, <1>2, <2>1, <2>2 DEF StageOK
  <2>5. \A d \in Closed \ unsealed : After(d, new)
    BY <1>4, <2>1 DEF After, PeriodOpen
  <2>6. \A d \in Day : CountsOK(d, new)
    BY <2>1 DEF CountsOK
  <2> QED
    BY <1>1, <1>2, <2>1, <2>2, <2>3, <2>4, <2>5, <2>6, LocalStep
<1> QED
  BY <1>3, <1>4 DEF InsertJournal

LEMMA UpsertBalanceStep ==
  ASSUME IInv, NEW t \in Txn, UpsertBalance(t)
  PROVE  IInv'
<1>1. /\ txns[t].pc = "lines" /\ Running(t) /\ txns[t] \in TxnRow /\ StageOK(t)
      /\ Len(txns[t].lines) = 2 /\ txns[t].row \in 1..2 /\ txns[t].running = << >>
  BY DEF UpsertBalance, Running, IInv, Types, StagesOK, StageOK
<1>2. UNCHANGED <<today, balance, available, journals, history, closures, raced, unsealed>>
  BY DEF UpsertBalance
<1>3. \A d \in Closed \ unsealed : d \in Day /\ After(d, txns[t])
  BY DEF IInv, SealsOK, ClosedOK, Closed
<1>4. PICK gl \in Rows : gl = txns[t].lines[txns[t].row].gl /\ lock[gl] \in {NoTxn, t}
  BY <1>1, Typed DEF UpsertBalance, CanLock
<1>5. CASE txns[t].row = 2 /\ ~Balanced(txns[t].lines)
  <2> DEFINE new == [txns[t] EXCEPT !.row = 1, !.pc = "aborted"]
  <2>1. /\ new \in TxnRow /\ new.pc = "aborted" /\ new.lines = txns[t].lines
        /\ new.moves = txns[t].moves /\ new.date = txns[t].date /\ new.closing = txns[t].closing
    BY <1>1 DEF TxnRow
  <2>2. txns' = [txns EXCEPT ![t] = new] /\ Release(t)
    BY <1>1, <1>5 DEF UpsertBalance
  <2>3. txns'[t] = new
    BY <2>2 DEF IInv, Types
  <2> HIDE DEF new
  <2>4. /\ lock' \in [Rows -> Txn \cup {NoTxn}]
        /\ \A x \in Rows : lock'[x] # lock[x] => {lock[x], lock'[x]} \subseteq {NoTxn, t}
        /\ \A x \in Rows : lock'[x] # t
    BY <2>2, LedgerAssumption DEF Release, IInv, Types, TypeOK
  <2>5. StageOK(t)'
    BY <1>1, <1>2, <2>1, <2>3 DEF StageOK
  <2>6. \A d \in Closed \ unsealed : After(d, new)
    BY <2>1 DEF After
  <2> QED
    BY <1>1, <1>2, <2>1, <2>2, <2>4, <2>5, <2>6, LocalStep
<1>6. CASE txns[t].row = 1 \/ Balanced(txns[t].lines)
  <2> DEFINE new == IF txns[t].row = 1 THEN [txns[t] EXCEPT !.row = 2]
                    ELSE [txns[t] EXCEPT !.row = 1, !.pc = AfterLines(txns[t])]
  <2>1. txns' = [txns EXCEPT ![t] = new] /\ lock' = [lock EXCEPT ![gl] = t]
    <3>1. CASE txns[t].row = 1
      BY <1>1, <1>4, <3>1 DEF UpsertBalance
    <3>2. CASE txns[t].row = 2 /\ Balanced(txns[t].lines)
      BY <1>1, <1>4, <3>2 DEF UpsertBalance
    <3> QED
      BY <1>1, <1>6, <3>1, <3>2
  <2>2. /\ new \in TxnRow /\ new.lines = txns[t].lines
        /\ new.moves = txns[t].moves /\ new.date = txns[t].date /\ new.closing = txns[t].closing
        /\ new.running = txns[t].running
        /\ \/ new.pc = "lines" /\ new.row = 2
           \/ new.pc = "snapshot" /\ new.row = 1 /\ new.closing # 0
           \/ new.pc = "moves" /\ new.row = 1 /\ new.closing = 0
    BY <1>1 DEF TxnRow, AfterLines
  <2>3. txns'[t] = new
    BY <2>1 DEF IInv, Types
  <2> HIDE DEF new
  <2>4. /\ lock' \in [Rows -> Txn \cup {NoTxn}]
        /\ \A x \in Rows : lock'[x] # lock[x] => {lock[x], lock'[x]} \subseteq {NoTxn, t}
    BY <1>4, <2>1 DEF IInv, Types, TypeOK
  <2>5. StageOK(t)'
    <3>1. Len(txns[t].moves) \in Nat
      BY <1>1, Typed
    <3>2. Len(<< >>) = 0
      OBVIOUS
    <3> QED
      BY <1>1, <1>2, <2>2, <2>3, <3>1, <3>2 DEF StageOK, Moved
  <2>6. \A d \in Closed \ unsealed : After(d, new)
    BY <1>1, <1>3, <2>2 DEF After
  <2>7. \A d \in Day : new.closing = d => CountsOK(d, new)
    BY <2>2, LedgerAssumption DEF CountsOK, Day
  <2> QED
    BY <1>1, <1>2, <2>1, <2>2, <2>4, <2>5, <2>6, <2>7, LocalStep
<1> QED
  BY <1>1, <1>5, <1>6

LEMMA UpdateAccountStep ==
  ASSUME IInv, NEW t \in Txn, UpdateAccount(t)
  PROVE  IInv'
<1>1. /\ txns[t].pc = "moves" /\ Running(t) /\ txns[t] \in TxnRow /\ StageOK(t) /\ Moved(t)
      /\ txns[t].row \in 1..Len(txns[t].moves) /\ Len(txns[t].running) = txns[t].row - 1
  <2>1. /\ txns[t].pc = "moves" /\ txns[t].row <= Len(txns[t].moves)
        /\ txns[t] \in TxnRow /\ StageOK(t)
    BY DEF UpdateAccount, IInv, Types, StagesOK
  <2>2. Moved(t) /\ Running(t)
    BY <2>1 DEF StageOK, Running
  <2>3. Len(txns[t].moves) \in Nat /\ txns[t].row \in Nat /\ txns[t].row >= 1
    BY <2>1, <2>2, Typed, MovedTyped
  <2>4. Len(txns[t].running) = txns[t].row - 1
    BY <2>2 DEF Moved
  <2> QED
    BY <2>1, <2>2, <2>3, <2>4
<1>2. UNCHANGED <<today, balance, available, journals, history, closures, raced, unsealed>>
  BY DEF UpdateAccount
<1>3. /\ Len(txns[t].moves) \in Nat /\ DOMAIN txns[t].moves = 1..Len(txns[t].moves)
      /\ \A i \in DOMAIN txns[t].moves :
            /\ txns[t].moves[i].acct \in Account /\ txns[t].moves[i].acct \in Rows
            /\ txns[t].moves[i].delta \in Int
  BY <1>1, Typed
<1>4. PICK row \in Nat : row = txns[t].row /\ row \in 1..Len(txns[t].moves)
  BY <1>3, <1>1
<1>5. PICK a \in Account, delta \in Int :
         a = txns[t].moves[row].acct /\ delta = txns[t].moves[row].delta
  BY <1>3, <1>4
<1>6. /\ row = txns[t].row /\ row \in 1..Len(txns[t].moves)
      /\ a = txns[t].moves[row].acct /\ a \in Rows /\ delta = txns[t].moves[row].delta
  BY <1>4, <1>5 DEF Rows
<1>7. available[a] + delta \in Int
  <2>1. PICK b \in Int : b = available[a]
    BY DEF IInv, Types, TypeOK
  <2> QED
    BY <2>1
<1> DEFINE running == Append(txns[t].running, available[a] + delta)
           new == [txns[t] EXCEPT !.row = row + 1, !.running = running]
<1>8. /\ running \in Seq(Int) /\ Len(running) = row /\ running[row] = available[a] + delta
      /\ \A i \in 1..(row - 1) : running[i] = txns[t].running[i]
  <2>1. PICK q \in Seq(Int) : q = txns[t].running /\ Len(q) = row - 1
    BY <1>1, <1>6 DEF TxnRow
  <2>2. PICK v \in Int : v = available[a] + delta
    BY <1>7
  <2>3. row \in Nat /\ Len(q) + 1 = row
    BY <2>1
  <2>4. Append(q, v) \in Seq(Int) /\ Len(Append(q, v)) = row
    BY <2>3
  <2>5. Append(q, v)[row] = v
    BY <2>3
  <2>6. \A i \in 1..(row - 1) : Append(q, v)[i] = q[i]
    <3>1. \A i \in 1..Len(q) : Append(q, v)[i] = q[i]
      OBVIOUS
    <3> QED
      BY <2>1, <3>1
  <2> QED
    BY <2>1, <2>2, <2>4, <2>5, <2>6
<1>9. txns' = [txns EXCEPT ![t] = new] /\ lock' = [lock EXCEPT ![a] = t] /\ lock[a] \in {NoTxn, t}
  BY <1>1, <1>6 DEF UpdateAccount, CanLock, IInv, Types
<1> HIDE DEF running
<1>10. /\ new \in TxnRow /\ new.pc = "moves" /\ new.row = row + 1 /\ new.running = running
       /\ new.lines = txns[t].lines /\ new.moves = txns[t].moves /\ new.date = txns[t].date
       /\ new.closing = txns[t].closing
  <2>1. row + 1 \in Nat
    OBVIOUS
  <2> QED
    BY <1>1, <1>8, <2>1 DEF TxnRow
<1>11. txns'[t] = new
  BY <1>9 DEF IInv, Types
<1> HIDE DEF new
<1>12. /\ lock' \in [Rows -> Txn \cup {NoTxn}]
       /\ \A x \in Rows : lock'[x] # lock[x] => {lock[x], lock'[x]} \subseteq {NoTxn, t}
       /\ \A x \in Rows : lock[x] = t => lock'[x] = t
       /\ lock'[a] = t
  BY <1>6, <1>9 DEF IInv, Types, TypeOK
<1>13. StageOK(t)'
  <2>1. row + 1 \in 1..(Len(txns[t].moves) + 1) /\ (row + 1) - 1 = row
    <3>1. PICK n \in Nat : n = Len(txns[t].moves)
      BY <1>3
    <3>2. row \in 1..n
      BY <1>6, <3>1
    <3>3. row + 1 \in 1..(n + 1) /\ (row + 1) - 1 = row
      BY <3>2
    <3> QED
      BY <3>1, <3>3
  <2>2. ASSUME NEW i \in 1..row
        PROVE  /\ lock'[txns[t].moves[i].acct] = t
               /\ running[i] = available[txns[t].moves[i].acct] + txns[t].moves[i].delta
    <3>1. CASE i = row
      <4>1. txns[t].moves[i].acct = a /\ txns[t].moves[i].delta = delta
        BY <1>6, <3>1
      <4>2. running[i] = available[a] + delta
        BY <1>8, <3>1
      <4>3. lock'[a] = t
        BY <1>12
      <4> QED
        BY <4>1, <4>2, <4>3
    <3>2. CASE i \in 1..(row - 1)
      <4>1. /\ lock[txns[t].moves[i].acct] = t
            /\ txns[t].running[i] = available[txns[t].moves[i].acct] + txns[t].moves[i].delta
        BY <1>1, <1>6, <3>2 DEF Moved
      <4>2. i \in DOMAIN txns[t].moves
        BY <1>1, <1>6, <3>2, MovedTyped
      <4>3. txns[t].moves[i].acct \in Rows
        BY <1>3, <4>2
      <4> QED
        BY <1>8, <1>12, <3>2, <4>1, <4>3
    <3>3. i = row \/ i \in 1..(row - 1)
      OBVIOUS
    <3> QED
      BY <3>1, <3>2, <3>3
  <2>3. /\ txns'[t].row = row + 1 /\ txns'[t].running = running /\ txns'[t].moves = txns[t].moves
        /\ txns'[t].pc = "moves"
    BY <1>10, <1>11
  <2>4. Moved(t)'
    BY <1>2, <1>8, <2>1, <2>2, <2>3 DEF Moved
  <2> QED
    BY <1>1, <1>2, <1>10, <1>11, <2>4 DEF StageOK
<1>14. \A d \in Closed \ unsealed : After(d, new)
  <2>1. \A d \in Closed \ unsealed : After(d, txns[t])
    BY DEF IInv, SealsOK, ClosedOK, Closed
  <2> QED
    BY <1>1, <1>10, <2>1 DEF After
<1>15. new.closing = 0
  <2>1. txns[t].moves # << >>
    BY <1>6
  <2> QED
    BY <1>10, <2>1 DEF IInv, PlansOK, PlanOK
<1>16. \A d \in Day : new.closing # d
  BY <1>15, LedgerAssumption DEF Day
<1> QED
  BY <1>1, <1>2, <1>9, <1>10, <1>12, <1>13, <1>14, <1>16, LocalStep

LEMMA UpToFinite ==
  ASSUME IInv, NEW d \in Day
  PROVE  IsFiniteSet(UpTo(d)) /\ Cardinality(UpTo(d)) \in Nat
<1>1. UpTo(d) \subseteq Txn /\ IsFiniteSet(Txn)
  BY LedgerAssumption DEF UpTo
<1>2. IsFiniteSet(UpTo(d))
  BY <1>1, FS_Subset
<1> QED
  BY <1>2, FS_CardinalityType

LEMMA SnapshotStep ==
  ASSUME IInv, NEW t \in Txn, Snapshot(t)
  PROVE  IInv'
<1>1. /\ txns[t].pc = "snapshot" /\ Running(t) /\ txns[t] \in TxnRow /\ StageOK(t)
      /\ txns[t].closing \in Day
  <2>1. txns[t].pc = "snapshot" /\ Running(t) /\ txns[t] \in TxnRow /\ StageOK(t)
    BY DEF Snapshot, Running, IInv, Types, StagesOK
  <2>2. txns[t].closing # 0 /\ txns[t].closing \in 0..MaxDay
    BY <2>1 DEF StageOK, TxnRow
  <2> QED
    BY <2>1, <2>2, LedgerAssumption DEF Day
<1>2. UNCHANGED <<today, balance, available, journals, history, closures, lock, raced, unsealed>>
  BY DEF Snapshot
<1>3. PICK d \in Day : d = txns[t].closing
  BY <1>1
<1>4. PICK count : count = (IF txns[t].lines = << >> THEN 0 ELSE 1) + Cardinality(UpTo(d))
  OBVIOUS
<1>5. PICK fees : fees = balance["fees"] + Change(txns[t].lines, "fees")
  OBVIOUS
<1>6. count \in Nat
  BY <1>4, UpToFinite
<1>7. fees \in Int
  <2>1. balance["fees"] \in Int
    BY DEF IInv, Types, TypeOK, GL
  <2>2. Change(txns[t].lines, "fees") \in Int
    BY <1>1, ChangeTyped
  <2> QED
    BY <1>5, <2>1, <2>2
<1> DEFINE new == [txns[t] EXCEPT !.pc = "closure", !.count = count, !.fees = fees]
<1>8. /\ new \in TxnRow /\ new.pc = "closure" /\ new.count = count /\ new.fees = fees
      /\ new.lines = txns[t].lines /\ new.moves = txns[t].moves /\ new.date = txns[t].date
      /\ new.closing = d /\ new.row = txns[t].row /\ new.running = txns[t].running
  BY <1>1, <1>3, <1>6, <1>7 DEF TxnRow
<1>9. txns' = [txns EXCEPT ![t] = new] /\ txns'[t] = new
  BY <1>3, <1>4, <1>5 DEF Snapshot, UpTo, IInv, Types
<1> HIDE DEF new
<1>10. lock' \in [Rows -> Txn \cup {NoTxn}] /\ \A x \in Rows : lock'[x] = lock[x]
  BY <1>2 DEF IInv, Types, TypeOK
<1>11. StageOK(t)'
  BY <1>1, <1>2, <1>3, <1>8, <1>9 DEF StageOK
<1>12. \A e \in Closed \ unsealed : After(e, new)
  <2>1. \A e \in Closed \ unsealed : After(e, txns[t])
    BY DEF IInv, SealsOK, ClosedOK, Closed
  <2> QED
    BY <1>1, <1>8, <2>1 DEF After
<1>13. ASSUME NEW e \in Day \ unsealed, new.closing = e PROVE CountsOK(e, new)
  <2>1. e = d /\ ClosingOK(d, t)
    BY <1>1, <1>3, <1>8, <1>13 DEF IInv, SealsOK
  <2>2. fees = 0
    BY <1>5, <2>1 DEF ClosingOK
  <2> QED
    BY <1>4, <1>8, <2>1, <2>2 DEF CountsOK
<1> QED
  BY <1>1, <1>2, <1>3, <1>8, <1>9, <1>10, <1>11, <1>12, <1>13, LocalStep

LEMMA InsertClosureStep ==
  ASSUME IInv, NEW t \in Txn, InsertClosure(t)
  PROVE  IInv'
<1>1. /\ txns[t].pc = "closure" /\ Running(t) /\ txns[t] \in TxnRow /\ StageOK(t)
      /\ txns[t].closing # 0
  BY DEF InsertClosure, Running, IInv, Types, StagesOK, StageOK
<1>2. UNCHANGED <<today, balance, available, journals, history, closures, raced, unsealed>>
  BY DEF InsertClosure
<1>3. CASE End(t, "aborted")
  BY <1>1, <1>2, <1>3, EndStep
<1>4. CASE txns' = [txns EXCEPT ![t].pc = "moves"] /\ UNCHANGED lock
  <2> DEFINE new == [txns[t] EXCEPT !.pc = "moves"]
  <2>1. /\ new \in TxnRow /\ new.pc = "moves" /\ new.lines = txns[t].lines
        /\ new.moves = txns[t].moves /\ new.date = txns[t].date /\ new.closing = txns[t].closing
        /\ new.row = txns[t].row /\ new.running = txns[t].running
        /\ new.count = txns[t].count /\ new.fees = txns[t].fees
    BY <1>1 DEF TxnRow
  <2>2. txns' = [txns EXCEPT ![t] = new] /\ txns'[t] = new
    BY <1>1, <1>4 DEF IInv, Types
  <2> HIDE DEF new
  <2>3. lock' \in [Rows -> Txn \cup {NoTxn}] /\ \A x \in Rows : lock'[x] = lock[x]
    BY <1>4 DEF IInv, Types, TypeOK
  <2>4. StageOK(t)'
    <3>1. Len(txns[t].moves) \in Nat /\ Len(<< >>) = 0
      BY <1>1, Typed
    <3> QED
      BY <1>1, <1>2, <2>1, <2>2, <3>1 DEF StageOK, Moved
  <2>5. \A d \in Closed \ unsealed : After(d, new)
    <3>1. \A d \in Closed \ unsealed : After(d, txns[t])
      BY DEF IInv, SealsOK, ClosedOK, Closed
    <3> QED
      BY <1>1, <2>1, <3>1 DEF After
  <2>6. \A d \in Day \ unsealed : new.closing = d => CountsOK(d, new)
    BY <1>1, <2>1 DEF IInv, SealsOK, ClosingOK, CountsOK
  <2> QED
    BY <1>1, <1>2, <2>1, <2>2, <2>3, <2>4, <2>5, <2>6, LocalStep
<1> QED
  BY <1>3, <1>4 DEF InsertClosure

LEMMA AbortStep ==
  ASSUME IInv, NEW t \in Txn, Abort(t)
  PROVE  IInv'
  BY EndStep DEF Abort

\* Who is waited for has begun and not ended.
LEMMA BlockersRun ==
  ASSUME IInv, NEW s \in Txn, NEW t \in Txn, t \in Blockers(s)
  PROVE  Running(t)
<1>1. txns[s] \in TxnRow /\ StageOK(s)
  BY DEF IInv, Types, StagesOK
<1>2. ASSUME NEW x \in Rows, lock[x] = t PROVE Running(t)
  BY <1>2 DEF Held, IInv, Types, TypeOK
<1>3. CASE txns[s].pc = "lines"
  <2>1. txns[s].lines[txns[s].row].gl \in Rows
    BY <1>1, <1>3, Typed DEF StageOK
  <2> QED
    BY <1>2, <1>3, <2>1 DEF Blockers
<1>4. CASE txns[s].pc = "moves"
  <2>1. txns[s].row <= Len(txns[s].moves) /\ t \in {lock[txns[s].moves[txns[s].row].acct]}
    BY <1>4 DEF Blockers
  <2>2. txns[s].moves[txns[s].row].acct \in Rows
    BY <1>1, <1>4, <2>1, Typed DEF StageOK, Moved
  <2> QED
    BY <1>2, <2>1, <2>2
<1>5. CASE txns[s].pc = "closure"
  BY <1>5 DEF Blockers, Inserting, Running
<1> QED
  BY <1>3, <1>4, <1>5 DEF Blockers

LEMMA DeadlockVictimStep ==
  ASSUME IInv, NEW t \in Txn, DeadlockVictim(t)
  PROVE  IInv'
<1>1. PICK S \in SUBSET Txn : t \in S /\ UNION {Blockers(s) : s \in S} = S
  BY DEF DeadlockVictim
<1>2. PICK s \in S : t \in Blockers(s)
  BY <1>1
<1>3. Running(t)
  BY <1>2, BlockersRun
<1> QED
  BY <1>3, EndStep DEF DeadlockVictim

LEMMA NextDayStep ==
  ASSUME IInv, NextDay
  PROVE  IInv'
<1>1. UNCHANGED <<balance, available, journals, history, closures, txns, lock, raced, unsealed>>
  BY DEF NextDay
<1>2. today' \in Day
  BY LedgerAssumption DEF NextDay, IInv, Types, TypeOK, Day
<1>3. Types'
  BY <1>1, <1>2 DEF Types, TypeOK, IInv, Running, Held
<1>4. PlansOK' /\ StagesOK'
  BY <1>1 DEF PlansOK, StagesOK, StageOK, Moved, IInv
<1>5. LedgerReconciles'
  BY <1>1 DEF LedgerReconciles, IInv
<1>6. RunningBalances'
  BY <1>1 DEF RunningBalances, IInv
<1>7. RacesOK'
  BY <1>1 DEF RacesOK, Covered, Debiting, Running, IInv
<1>8. SealsOK'
  <2>1. \A t \in Txn : Running(t)' <=> Running(t)
    BY <1>1 DEF Running
  <2>2. \A d \in Day : UpTo(d)' = UpTo(d) /\ (d \in Closed' <=> d \in Closed)
    BY <1>1 DEF UpTo, Closed
  <2>3. \A d \in Day, t \in Txn : ClosingOK(d, t) => ClosingOK(d, t)'
    BY <1>1, <2>1, <2>2 DEF ClosingOK, CountsOK
  <2>4. \A d \in Day : ClosedOK(d) => ClosedOK(d)'
    BY <1>1, <2>2 DEF ClosedOK
  <2> QED
    BY <1>1, <2>1, <2>2, <2>3, <2>4 DEF SealsOK, IInv
<1> QED
  BY <1>3, <1>4, <1>5, <1>6, <1>7, <1>8 DEF IInv

(***************************************************************************)
(* The commit.                                                              *)
(***************************************************************************)
\* What a plan changes in an account is its one move of it.
LEMMA DeltaOf ==
  ASSUME NEW tx \in TxnRow, PlanOK(tx), NEW a \in Account
  PROVE  /\ (\A i \in DOMAIN tx.moves : tx.moves[i].acct # a) => Delta(tx.moves, a) = 0
         /\ \A i \in DOMAIN tx.moves :
               tx.moves[i].acct = a => Delta(tx.moves, a) = tx.moves[i].delta
<1> DEFINE n == Len(tx.moves)
           q == [i \in 1..n |-> 0]
           r == [i \in DOMAIN tx.moves |-> IF tx.moves[i].acct = a THEN tx.moves[i].delta ELSE 0]
<1>1. /\ n \in Nat /\ DOMAIN tx.moves = 1..n
      /\ \A i \in 1..n : tx.moves[i].delta \in Int
  BY Typed
<1>2. q \in Seq(Int) /\ Len(q) = n /\ r \in Seq(Int) /\ Len(r) = n
  BY <1>1
<1>3. \A i \in 1..n : q[i] = 0 /\ r[i] = IF tx.moves[i].acct = a THEN tx.moves[i].delta ELSE 0
  BY <1>1
<1>4. Delta(tx.moves, a) = Total(r)
  BY DEF Delta
<1> HIDE DEF q, r, n
<1>5. Total(q) = 0
  BY <1>2, <1>3, TotalZero
<1>6. ASSUME \A i \in DOMAIN tx.moves : tx.moves[i].acct # a PROVE Delta(tx.moves, a) = 0
  <2>1. \A i \in 1..Len(r) : r[i] = 0
    BY <1>1, <1>2, <1>3, <1>6
  <2> QED
    BY <1>2, <1>4, <2>1, TotalZero
<1>7. ASSUME NEW k \in DOMAIN tx.moves, tx.moves[k].acct = a
      PROVE  Delta(tx.moves, a) = tx.moves[k].delta
  <2>1. PICK d \in Int : d = tx.moves[k].delta
    BY <1>1
  <2>2. k \in 1..Len(q) /\ Len(r) = Len(q)
    BY <1>1, <1>2
  <2>3. r[k] = q[k] + d
    BY <1>1, <1>3, <1>7, <2>1
  <2>4. \A i \in 1..Len(q) : i # k => r[i] = q[i]
    BY <1>1, <1>2, <1>3, <1>7 DEF PlanOK
  <2>5. Total(r) = Total(q) + d
    BY <1>2, <2>2, <2>3, <2>4, TotalPoint
  <2> QED
    BY <1>4, <1>5, <2>1, <2>5
<1> QED
  BY <1>6, <1>7

LEMMA OfFinite ==
  \A g : /\ IsFiniteSet(Of(g)) /\ Of(g) \subseteq Account
         /\ \A a \in Account : a \in Of(g) <=> Control(a) = g
<1>1. \A g : Of(g) \subseteq Account /\ \A a \in Account : a \in Of(g) <=> Control(a) = g
  BY DEF Of
<1> QED
  BY <1>1, LedgerAssumption, FS_Subset

\* The moves of a plan change the accounts under a control account together as
\* its journal says.
LEMMA MovesSum ==
  ASSUME NEW tx \in TxnRow, PlanOK(tx), NEW g, NEW f \in [Account -> Int],
         NEW h, \A a \in Account : h[a] = f[a] + Delta(tx.moves, a)
  PROVE  SumOf(Of(g), h) = SumOf(Of(g), f) + Under(tx.moves, g) /\ SumOf(Of(g), f) \in Int
<1> DEFINE S == Of(g)
<1>1. /\ IsFiniteSet(S) /\ S \subseteq Account
      /\ \A a \in Account : a \in S <=> Control(a) = g
  BY OfFinite
<1>2. \A a \in S : f[a] \in Int
  BY <1>1
<1>3. /\ Len(tx.moves) \in Nat /\ Len(tx.moves) <= 2 /\ DOMAIN tx.moves = 1..Len(tx.moves)
      /\ \A i \in DOMAIN tx.moves : tx.moves[i] \in MoveRow
      /\ tx.moves \in Seq(MoveRow)
  BY DEF PlanOK, TxnRow
<1> HIDE DEF S
<1>4. IsFiniteSet(S)
  BY <1>1
<1>5. CASE Len(tx.moves) = 0
  <2>1. tx.moves = << >> /\ DOMAIN tx.moves = {}
    BY <1>3, <1>5
  <2>2. Under(tx.moves, g) = 0
    BY <2>1, NoChange
  <2>3. \A a \in S : f[a] \in Int /\ h[a] = f[a]
    BY <1>1, <1>2, <2>1, DeltaOf
  <2>4. SumOf(S, f) \in Int /\ SumOf(S, h) = SumOf(S, f)
    BY <1>1, <2>3, SumSame
  <2> QED
    BY <2>2, <2>4 DEF S
<1>6. CASE Len(tx.moves) = 1
  <2>1. PICK m \in MoveRow : m = tx.moves[1] /\ tx.moves = << m >> /\ DOMAIN tx.moves = {1}
    BY <1>3, <1>6
  <2>2. PICK b \in Account, d \in Int : b = m.acct /\ d = m.delta
    BY DEF MoveRow
  <2>3. Under(tx.moves, g) = IF b \in S THEN d ELSE 0
    BY <1>1, <2>1, <2>2, UnderOfOne
  <2>4. (\A a \in S : a # b => h[a] = f[a]) /\ h[b] = f[b] + d
    <3>1. h[b] = f[b] + d
      BY <2>1, <2>2, DeltaOf
    <3>2. ASSUME NEW a \in S, a # b PROVE h[a] = f[a]
      <4>1. a \in Account /\ \A i \in DOMAIN tx.moves : tx.moves[i].acct # a
        BY <1>1, <2>1, <2>2, <3>2
      <4>2. Delta(tx.moves, a) = 0 /\ f[a] \in Int
        BY <4>1, DeltaOf
      <4> QED
        BY <4>1, <4>2
    <3> QED
      BY <3>1, <3>2
  <2>5. /\ SumOf(S, f) \in Int
        /\ b \in S => SumOf(S, h) = SumOf(S, f) + d
        /\ b \notin S => SumOf(S, h) = SumOf(S, f)
    <3>1. CASE b \in S
      <4>1. \A a \in S : a # b => h[a] = f[a]
        BY <2>4
      <4>2. h[b] = f[b] + d
        BY <2>4
      <4> QED
        BY <1>4, <1>2, <3>1, <4>1, <4>2, SumAdd
    <3>2. CASE b \notin S
      <4>1. \A a \in S : f[a] \in Int /\ h[a] = f[a]
        BY <1>2, <2>4, <3>2
      <4> QED
        BY <1>4, <3>2, <4>1, SumSame
    <3> QED
      BY <3>1, <3>2
  <2> QED
    BY <2>3, <2>5 DEF S
<1>7. CASE Len(tx.moves) = 2
  <2>1. PICK m \in MoveRow, n \in MoveRow :
           m = tx.moves[1] /\ n = tx.moves[2] /\ tx.moves = << m, n >> /\ DOMAIN tx.moves = {1, 2}
    BY <1>3, <1>7
  <2>2. PICK b \in Account, d \in Int : b = m.acct /\ d = m.delta
    BY DEF MoveRow
  <2>3. PICK c \in Account, e \in Int : c = n.acct /\ e = n.delta
    BY DEF MoveRow
  <2>4. b # c
    BY <2>1, <2>2, <2>3 DEF PlanOK
  <2>5. Under(tx.moves, g) = (IF b \in S THEN d ELSE 0) + (IF c \in S THEN e ELSE 0)
    BY <1>1, <2>1, <2>2, <2>3, UnderOfTwo
  <2>6. PICK k : \A a \in Account : k[a] = IF a = b THEN f[a] + d ELSE f[a]
    <3>1. \A a \in Account : [x \in Account |-> IF x = b THEN f[x] + d ELSE f[x]][a]
                              = IF a = b THEN f[a] + d ELSE f[a]
      OBVIOUS
    <3> QED
      BY <3>1
  <2>7. /\ \A a \in S : a # b => k[a] = f[a]
        /\ k[b] = f[b] + d
        /\ \A a \in Account : k[a] \in Int
    BY <1>1, <2>6
  <2>8. /\ \A a \in S : a # c => h[a] = k[a]
        /\ h[c] = k[c] + e
    <3>1. h[b] = f[b] + d /\ h[c] = f[c] + e
      BY <2>1, <2>2, <2>3, DeltaOf
    <3>2. ASSUME NEW a \in S, a # b, a # c PROVE h[a] = f[a]
      <4>1. a \in Account /\ \A i \in DOMAIN tx.moves : tx.moves[i].acct # a
        BY <1>1, <2>1, <2>2, <2>3, <3>2
      <4>2. Delta(tx.moves, a) = 0 /\ f[a] \in Int
        BY <4>1, DeltaOf
      <4> QED
        BY <4>1, <4>2
    <3> QED
      BY <1>1, <2>4, <2>6, <3>1, <3>2
  <2>9. /\ SumOf(S, f) \in Int
        /\ b \in S => SumOf(S, k) = SumOf(S, f) + d
        /\ b \notin S => SumOf(S, k) = SumOf(S, f)
    BY <1>4, <1>2, <2>7, SumPoint
  <2>10. /\ c \in S => SumOf(S, h) = SumOf(S, k) + e
         /\ c \notin S => SumOf(S, h) = SumOf(S, k)
    <3>1. \A a \in S : k[a] \in Int
      BY <1>1, <2>7
    <3> QED
      BY <1>4, <2>8, <3>1, SumPoint
  <2>11. PICK x \in Int, y \in Int :
            x = (IF b \in S THEN d ELSE 0) /\ y = (IF c \in S THEN e ELSE 0)
    OBVIOUS
  <2>12. SumOf(S, h) = (SumOf(S, f) + x) + y /\ Under(tx.moves, g) = x + y
    BY <2>5, <2>9, <2>10, <2>11
  <2> QED
    BY <2>9, <2>11, <2>12 DEF S
<1>8. \A n \in Nat : n <= 2 => n \in {0, 1, 2}
  OBVIOUS
<1>9. Len(tx.moves) \in {0, 1, 2}
  BY <1>3, <1>8
<1> QED
  BY <1>5, <1>6, <1>7, <1>9

\* What a committing transaction has done, and what its commit writes.
LEMMA Committing ==
  ASSUME IInv, NEW t \in Txn, Commit(t)
  PROVE  /\ txns[t] \in TxnRow /\ PlanOK(txns[t]) /\ txns[t].pc = "moves" /\ Running(t)
         /\ \A i \in DOMAIN txns[t].moves :
               /\ lock[txns[t].moves[i].acct] = t
               /\ txns[t].running[i] = available[txns[t].moves[i].acct] + txns[t].moves[i].delta
               /\ txns[t].running[i] \in Int
         /\ journals[t] = NoJournal
         /\ \A s \in Txn : s # t => txns'[s] = txns[s]
         /\ \A s \in Txn : Running(s)' <=> s # t /\ Running(s)
         /\ txns'[t] = [txns[t] EXCEPT !.pc = "done"] /\ txns' \in [Txn -> TxnRow]
<1>1. /\ txns[t] \in TxnRow /\ PlanOK(txns[t]) /\ txns[t].pc = "moves" /\ StageOK(t)
      /\ txns[t].row > Len(txns[t].moves)
  BY DEF Commit, IInv, Types, PlansOK, StagesOK
<1>2. /\ Len(txns[t].moves) \in Nat /\ DOMAIN txns[t].moves = 1..Len(txns[t].moves)
      /\ \A i \in DOMAIN txns[t].moves :
            txns[t].moves[i].acct \in Account /\ txns[t].moves[i].delta \in Int
  BY <1>1, Typed
<1>3. Running(t) /\ Moved(t) /\ txns[t].row - 1 = Len(txns[t].moves)
  <2>1. Running(t) /\ Moved(t)
    BY <1>1 DEF Running, StageOK
  <2>2. txns[t].row \in Nat /\ txns[t].row <= Len(txns[t].moves) + 1
    BY <1>1, <2>1, MovedTyped
  <2> QED
    BY <1>1, <1>2, <2>1, <2>2
<1>4. \A i \in DOMAIN txns[t].moves :
         /\ lock[txns[t].moves[i].acct] = t
         /\ txns[t].running[i] = available[txns[t].moves[i].acct] + txns[t].moves[i].delta
  BY <1>2, <1>3 DEF Moved
<1>5. ASSUME NEW i \in DOMAIN txns[t].moves PROVE txns[t].running[i] \in Int
  <2>1. PICK d \in Int : d = txns[t].moves[i].delta
    BY <1>2
  <2>2. PICK b \in Int : b = available[txns[t].moves[i].acct]
    BY <1>2 DEF IInv, Types, TypeOK
  <2>3. txns[t].running[i] = b + d
    BY <1>4, <2>1, <2>2
  <2> QED
    BY <2>3
<1>6. journals[t] = NoJournal
  BY <1>1 DEF StageOK
<1>7. txns' = [txns EXCEPT ![t].pc = "done"] /\ txns \in [Txn -> TxnRow]
  BY DEF Commit, End, IInv, Types
<1>8. /\ txns'[t] = [txns[t] EXCEPT !.pc = "done"]
      /\ \A s \in Txn : s # t => txns'[s] = txns[s]
  BY <1>7
<1>9. [txns[t] EXCEPT !.pc = "done"] \in TxnRow /\ [txns[t] EXCEPT !.pc = "done"].pc = "done"
  BY <1>1 DEF TxnRow
<1>10. txns' \in [Txn -> TxnRow]
  BY <1>7, <1>8, <1>9
<1>11. \A s \in Txn : Running(s)' <=> s # t /\ Running(s)
  BY <1>8, <1>9 DEF Running
<1> QED
  BY <1>1, <1>3, <1>4, <1>5, <1>6, <1>8, <1>10, <1>11

\* The balance of an account after the commit.
LEMMA CommitAvailable ==
  ASSUME IInv, NEW t \in Txn, Commit(t), NEW a \in Account
  PROVE  /\ available[a] \in Int /\ available'[a] = available[a] + Delta(txns[t].moves, a)
         /\ available'[a] \in Int
         /\ lock[a] # t => available'[a] = available[a]
         /\ (\A i \in DOMAIN txns[t].moves : txns[t].moves[i].acct # a) =>
               available'[a] = available[a]
         /\ \A i \in DOMAIN txns[t].moves :
               txns[t].moves[i].acct = a => available'[a] = available[a] + txns[t].moves[i].delta
<1>1. available[a] \in Int /\ available'[a] = available[a] + Delta(txns[t].moves, a)
  BY DEF Commit, IInv, Types, TypeOK
<1>2. /\ txns[t] \in TxnRow /\ PlanOK(txns[t])
      /\ \A i \in DOMAIN txns[t].moves : lock[txns[t].moves[i].acct] = t
  BY Committing
<1>3. \A i \in DOMAIN txns[t].moves : txns[t].moves[i].delta \in Int
  BY <1>2, Typed
<1>4. CASE \A i \in DOMAIN txns[t].moves : txns[t].moves[i].acct # a
  <2>1. Delta(txns[t].moves, a) = 0
    BY <1>2, <1>4, DeltaOf
  <2> QED
    BY <1>1, <1>4, <2>1
<1>5. ASSUME NEW k \in DOMAIN txns[t].moves, txns[t].moves[k].acct = a
      PROVE  /\ Delta(txns[t].moves, a) = txns[t].moves[k].delta
             /\ lock[a] = t /\ available'[a] \in Int
  <2>1. Delta(txns[t].moves, a) = txns[t].moves[k].delta
    BY <1>2, <1>5, DeltaOf
  <2> QED
    BY <1>1, <1>2, <1>3, <1>5, <2>1
<1> QED
  BY <1>1, <1>4, <1>5

LEMMA CommitReconciles ==
  ASSUME IInv, NEW t \in Txn, Commit(t)
  PROVE  LedgerReconciles'
<1> DEFINE tx == txns[t]
<1>1. tx \in TxnRow /\ PlanOK(tx) /\ journals[t] = NoJournal
  BY Committing
<1>2. \A g \in GL : /\ balance'[g] = balance[g] + Change(tx.lines, g)
                    /\ balance[g] \in Int /\ Change(tx.lines, g) \in Int
  BY <1>1, ChangeTyped DEF Commit, IInv, Types, TypeOK
<1>3. available \in [Account -> Int]
  BY DEF IInv, Types, TypeOK
<1>4. \A a \in Account : available'[a] = available[a] + Delta(tx.moves, a)
  BY CommitAvailable
<1>5. ASSUME NEW g \in {"savings", "shares"} PROVE balance'[g] = SumOf(Of(g), available')
  <2>1. balance[g] = SumOf(Of(g), available)
    BY DEF IInv, LedgerReconciles
  <2>2. Change(tx.lines, g) = Under(tx.moves, g)
    BY <1>1 DEF PlanOK
  <2>3. SumOf(Of(g), available') = SumOf(Of(g), available) + Under(tx.moves, g)
    BY <1>1, <1>3, <1>4, MovesSum
  <2>4. g \in GL
    BY DEF GL
  <2> QED
    BY <1>2, <2>1, <2>2, <2>3, <2>4
<1>6. ASSUME NEW g \in GL, NEW opening \in Int,
             balance[g] = opening + SumOf(Txn, [s \in Txn |-> Change(journals[s].lines, g)])
      PROVE  balance'[g] = opening + SumOf(Txn, [s \in Txn |-> Change(journals'[s].lines, g)])
  <2> DEFINE f == [s \in Txn |-> Change(journals[s].lines, g)]
             h == [s \in Txn |-> Change(journals'[s].lines, g)]
  <2>1. \A s \in Txn : f[s] \in Int
    <3>1. \A s \in Txn : journals[s].lines \in Seq(LineRow)
      BY DEF IInv, Types
    <3> QED
      BY <3>1, ChangeOfLines
  <2>2. f[t] = 0
    BY <1>1, NoChange DEF NoJournal
  <2>3. h[t] = Change(tx.lines, g) /\ \A s \in Txn : s # t => h[s] = f[s]
    <3>1. CASE tx.lines = << >>
      <4>1. journals' = journals
        BY <3>1 DEF Commit
      <4> QED
        BY <2>2, <3>1, <4>1, NoChange
    <3>2. CASE tx.lines # << >>
      <4>1. journals' = [journals EXCEPT ![t] = [date |-> tx.date, lines |-> tx.lines]]
        BY <3>2 DEF Commit
      <4>2. /\ journals'[t].lines = tx.lines
            /\ \A s \in Txn : s # t => journals'[s] = journals[s]
        BY <4>1 DEF IInv, Types
      <4> QED
        BY <4>2
    <3> QED
      BY <3>1, <3>2
  <2> HIDE DEF f, h
  <2>4. PICK d \in Int : d = Change(tx.lines, g)
    BY <1>2
  <2>5. h[t] = f[t] + d /\ IsFiniteSet(Txn) /\ \A s \in Txn : s # t => h[s] = f[s]
    BY <2>2, <2>3, <2>4, LedgerAssumption
  <2>6. SumOf(Txn, f) \in Int /\ SumOf(Txn, h) = SumOf(Txn, f) + d
    <3>1. PICK old, new : old = f /\ new = h
      OBVIOUS
    <3>2. \A s \in Txn : old[s] \in Int
      BY <2>1, <3>1
    <3>3. \A s \in Txn : s # t => new[s] = old[s]
      BY <2>5, <3>1
    <3>4. new[t] = old[t] + d /\ IsFiniteSet(Txn)
      BY <2>5, <3>1
    <3>5. SumOf(Txn, old) \in Int /\ SumOf(Txn, new) = SumOf(Txn, old) + d
      BY <3>2, <3>3, <3>4, SumAdd
    <3> QED
      BY <3>1, <3>5
  <2>7. balance[g] = opening + SumOf(Txn, f)
    BY <1>6 DEF f
  <2>8. balance'[g] = (opening + SumOf(Txn, f)) + d
    BY <1>2, <2>4, <2>7
  <2>9. balance'[g] = opening + SumOf(Txn, h)
    BY <2>6, <2>8
  <2> QED
    BY <2>9 DEF h
<1>7. \A g \in GL : (IF g = "cash" THEN SumOf(Account, Opening)
                     ELSE IF g \in {"savings", "shares"} THEN SumOf(Of(g), Opening) ELSE 0) \in Int
  <2>1. \A a \in Account : Opening[a] \in Int
    BY LedgerAssumption
  <2>2. SumOf(Account, Opening) \in Int
    BY <2>1, LedgerAssumption, SumSame
  <2>3. \A g : SumOf(Of(g), Opening) \in Int
    BY <2>1, OfFinite, SumSame
  <2> QED
    BY <2>2, <2>3
<1> QED
  BY <1>5, <1>6, <1>7 DEF LedgerReconciles, IInv

\* A history adds up from the opening balance to the last one.
AddsUp(h, opening, last) ==
    LET before(i) == IF i = 1 THEN opening ELSE h[i - 1].running
    IN  /\ \A i \in DOMAIN h : h[i].running = before(i) + h[i].delta
        /\ last = before(Len(h) + 1)

HistoryRow == [delta : Int, running : Int]

LEMMA HistoryAppended ==
  ASSUME NEW h \in Seq(HistoryRow), NEW opening, NEW last, AddsUp(h, opening, last),
         NEW row \in HistoryRow, row.running = last + row.delta
  PROVE  /\ h \o << row >> \in Seq(HistoryRow)
         /\ AddsUp(h \o << row >>, opening, row.running)
<1> DEFINE n == Len(h)
           k == h \o << row >>
<1>1. /\ k \in Seq(HistoryRow) /\ n \in Nat /\ Len(k) = n + 1 /\ DOMAIN k = 1..(n + 1)
      /\ \A i \in 1..n : k[i] = h[i]
      /\ k[n + 1] = row
  OBVIOUS
<1>2. DOMAIN h = 1..n
  OBVIOUS
<1> HIDE DEF n, k
<1>3. ASSUME NEW i \in 1..n
      PROVE  k[i].running = (IF i = 1 THEN opening ELSE k[i - 1].running) + k[i].delta
  <2>1. h[i].running = (IF i = 1 THEN opening ELSE h[i - 1].running) + h[i].delta
    BY <1>2 DEF AddsUp
  <2>2. i # 1 => i - 1 \in 1..n
    BY <1>1
  <2> QED
    BY <1>1, <2>1, <2>2
<1>4. last = IF n + 1 = 1 THEN opening ELSE h[(n + 1) - 1].running
  BY DEF AddsUp, n
<1>5. k[n + 1].running = (IF n + 1 = 1 THEN opening ELSE k[(n + 1) - 1].running) + k[n + 1].delta
  <2>1. n + 1 # 1 => (n + 1) - 1 \in 1..n
    BY <1>1
  <2> QED
    BY <1>1, <1>4, <2>1
<1>6. \A i \in DOMAIN k : k[i].running = (IF i = 1 THEN opening ELSE k[i - 1].running) + k[i].delta
  <2>1. \A i \in DOMAIN k : i \in 1..n \/ i = n + 1
    BY <1>1
  <2> QED
    BY <1>3, <1>5, <2>1
<1>7. row.running = IF Len(k) + 1 = 1 THEN opening ELSE k[(Len(k) + 1) - 1].running
  <2>1. Len(k) + 1 # 1 /\ (Len(k) + 1) - 1 = n + 1
    BY <1>1
  <2> QED
    BY <1>1, <2>1
<1>8. AddsUp(k, opening, row.running)
  BY <1>6, <1>7 DEF AddsUp
<1> QED
  BY <1>1, <1>8 DEF k

LEMMA CommitHistory ==
  ASSUME IInv, NEW t \in Txn, Commit(t)
  PROVE  RunningBalances' /\ history' \in [Account -> Seq(HistoryRow)]
<1> DEFINE tx == txns[t]
<1>1. /\ tx \in TxnRow /\ PlanOK(tx)
      /\ \A i \in DOMAIN tx.moves :
            /\ tx.running[i] = available[tx.moves[i].acct] + tx.moves[i].delta
            /\ tx.running[i] \in Int
  BY Committing
<1>2. \A a \in Account : /\ history[a] \in Seq(HistoryRow)
                         /\ AddsUp(history[a], Opening[a], available[a])
  BY DEF IInv, Types, HistoryRow, RunningBalances, AddsUp
<1>3. /\ history' = [a \in Account |-> history[a] \o MovesOf(t, a)]
      /\ \A a \in Account : history'[a] = history[a] \o MovesOf(t, a)
  BY DEF Commit
<1>4. ASSUME NEW a \in Account
      PROVE  history'[a] \in Seq(HistoryRow) /\ AddsUp(history'[a], Opening[a], available'[a])
  <2> DEFINE mine == {i \in DOMAIN tx.moves : tx.moves[i].acct = a}
  <2>1. CASE mine = {}
    <3>1. MovesOf(t, a) = << >>
      BY <2>1 DEF MovesOf
    <3>2. history'[a] = history[a]
      BY <1>2, <1>3, <3>1
    <3>3. available'[a] = available[a]
      BY <2>1, CommitAvailable
    <3> QED
      BY <1>2, <3>2, <3>3
  <2>2. CASE mine # {}
    <3>1. PICK k \in DOMAIN tx.moves : tx.moves[k].acct = a /\ k = CHOOSE i \in mine : TRUE
      BY <2>2
    <3>2. PICK d \in Int : d = tx.moves[k].delta
      BY <1>1, Typed
    <3>3. tx.running[k] = available[a] + d /\ tx.running[k] \in Int
      BY <1>1, <3>1, <3>2
    <3>4. PICK row : row = [delta |-> d, running |-> tx.running[k]]
      OBVIOUS
    <3>5. row \in HistoryRow /\ row.running = available[a] + row.delta
      BY <3>3, <3>4 DEF HistoryRow
    <3>6. MovesOf(t, a) = << row >>
      BY <2>2, <3>1, <3>2, <3>4 DEF MovesOf
    <3>7. available'[a] = row.running
      BY <3>1, <3>2, <3>3, <3>4, CommitAvailable
    <3>8. history'[a] = history[a] \o << row >>
      BY <1>3, <3>6
    <3>9. history[a] \in Seq(HistoryRow) /\ AddsUp(history[a], Opening[a], available[a])
      BY <1>2
    <3>10. /\ history[a] \o << row >> \in Seq(HistoryRow)
           /\ AddsUp(history[a] \o << row >>, Opening[a], row.running)
      BY <3>5, <3>9, HistoryAppended
    <3> QED
      BY <3>7, <3>8, <3>10
  <2> QED
    BY <2>1, <2>2
<1>5. RunningBalances'
  BY <1>4 DEF RunningBalances, AddsUp
<1>6. history' \in [Account -> Seq(HistoryRow)]
  BY <1>3, <1>4
<1> QED
  BY <1>5, <1>6

LEMMA CommitRaces ==
  ASSUME IInv, NEW t \in Txn, Commit(t)
  PROVE  RacesOK'
<1> SUFFICES ASSUME NEW a \in Account, a \notin raced PROVE Covered(a)'
  BY DEF RacesOK, Commit
<1>1. Covered(a) /\ available[a] \in Int
  BY DEF IInv, RacesOK, Types, TypeOK
<1>2. /\ txns[t] \in TxnRow /\ Running(t)
      /\ \A s \in Txn : s # t => txns'[s] = txns[s]
      /\ \A s \in Txn : Running(s)' <=> s # t /\ Running(s)
  BY Committing
<1>3. Debiting(a)' \subseteq Debiting(a)
  BY <1>2 DEF Debiting
<1>4. /\ available'[a] \in Int
      /\ \/ available'[a] = available[a]
         \/ \E k \in DOMAIN txns[t].moves :
               txns[t].moves[k].acct = a /\ available'[a] = available[a] + txns[t].moves[k].delta
  BY CommitAvailable
<1>5. available'[a] >= 0
  BY <1>1, <1>2, <1>4 DEF Covered
<1>6. ASSUME NEW s \in Txn, NEW i \in DOMAIN txns'[s].moves, Running(s)', txns'[s].moves[i].acct = a
      PROVE  available'[a] + txns'[s].moves[i].delta >= 0
  <2>1. s # t /\ txns'[s] = txns[s] /\ Running(s) /\ txns[s] \in TxnRow
    BY <1>2, <1>6 DEF IInv, Types
  <2>2. PICK d \in Int : d = txns[s].moves[i].delta
    BY <1>6, <2>1, Typed
  <2>3. available[a] + d >= 0
    BY <1>1, <1>6, <2>1, <2>2 DEF Covered
  <2>4. CASE d >= 0
    BY <1>4, <1>5, <2>1, <2>2, <2>4
  <2>5. CASE d < 0
    <3>1. s \in Debiting(a)
      BY <1>6, <2>1, <2>2, <2>5 DEF Debiting
    <3>2. t \notin Debiting(a)
      BY <1>1, <2>1, <3>1 DEF Covered
    <3>3. ASSUME NEW k \in DOMAIN txns[t].moves, txns[t].moves[k].acct = a,
                 available'[a] = available[a] + txns[t].moves[k].delta
          PROVE  available'[a] >= available[a]
      <4>1. PICK e \in Int : e = txns[t].moves[k].delta
        BY <1>2, Typed
      <4>2. ~(e < 0)
        BY <1>2, <3>2, <3>3, <4>1 DEF Debiting
      <4> QED
        BY <1>1, <3>3, <4>1, <4>2
    <3>4. available'[a] >= available[a]
      BY <1>1, <1>4, <3>3
    <3> QED
      BY <1>1, <1>4, <2>1, <2>2, <2>3, <3>4
  <2> QED
    BY <2>4, <2>5
<1>7. \A r, s \in Debiting(a)' : r = s
  BY <1>1, <1>3 DEF Covered
<1> QED
  BY <1>5, <1>6, <1>7 DEF Covered

LEMMA CommitSeals ==
  ASSUME IInv, NEW t \in Txn, Commit(t)
  PROVE  SealsOK'
<1> DEFINE tx == txns[t]
<1>1. /\ tx \in TxnRow /\ PlanOK(tx) /\ tx.pc = "moves" /\ Running(t) /\ journals[t] = NoJournal
      /\ \A s \in Txn : s # t => txns'[s] = txns[s]
      /\ \A s \in Txn : Running(s)' <=> s # t /\ Running(s)
      /\ txns'[t].pc = "done"
  <2>1. txns[t] \in TxnRow /\ txns'[t] = [txns[t] EXCEPT !.pc = "done"]
    BY Committing
  <2>2. txns'[t].pc = "done"
    BY <2>1 DEF TxnRow
  <2> QED
    BY <2>2, Committing
<1>2. tx.lines = << >> => \A d \in Day : UpTo(d)' = UpTo(d)
  BY DEF Commit, UpTo
<1>3. ASSUME tx.lines # << >>, NEW d \in Day
      PROVE  /\ tx.date > d => UpTo(d)' = UpTo(d)
             /\ tx.date = d => UpTo(d)' = UpTo(d) \cup {t} /\ t \notin UpTo(d)
  <2>1. journals' = [journals EXCEPT ![t] = [date |-> tx.date, lines |-> tx.lines]]
    BY <1>3 DEF Commit
  <2>2. journals'[t].date = tx.date /\ \A s \in Txn : s # t => journals'[s] = journals[s]
    BY <2>1 DEF IInv, Types
  <2>3. journals[t].date = 0 /\ tx.date \in 1..MaxDay /\ d \in 1..MaxDay
    BY <1>1, <1>3 DEF NoJournal, PlanOK, Day
  <2>4. t \notin UpTo(d) /\ (t \in UpTo(d)' <=> tx.date \in 1..d)
    BY <2>2, <2>3 DEF UpTo
  <2>5. \A s \in Txn : s # t => (s \in UpTo(d)' <=> s \in UpTo(d))
    BY <2>2 DEF UpTo
  <2>6. UpTo(d) \subseteq Txn /\ UpTo(d)' \subseteq Txn
    BY DEF UpTo
  <2>7. tx.date = d => tx.date \in 1..d
    BY <2>3, LedgerAssumption
  <2>8. tx.date > d => tx.date \notin 1..d
    BY <2>3, LedgerAssumption
  <2>9. CASE tx.date = d
    <3>1. UpTo(d)' = UpTo(d) \cup {t}
      BY <2>4, <2>5, <2>6, <2>7, <2>9
    <3> QED
      BY <2>3, <2>4, <2>9, <3>1, LedgerAssumption
  <2>10. CASE tx.date # d
    <3>1. tx.date > d => UpTo(d)' = UpTo(d)
      BY <2>4, <2>5, <2>6, <2>8
    <3> QED
      BY <2>10, <3>1
  <2> QED
    BY <2>9, <2>10
<1>4. /\ \A d \in Day : d # tx.closing => closures'[d] = closures[d]
      /\ \A d \in Day : d = tx.closing =>
            closures'[d].count = tx.count /\ closures'[d].fees = tx.fees
  <2>1. CASE tx.closing = 0
    BY <2>1, LedgerAssumption DEF Commit, Day
  <2>2. CASE tx.closing # 0
    <3>1. closures' = [closures EXCEPT ![tx.closing] =
                          [count |-> tx.count, fees |-> tx.fees, by |-> t]]
      BY <2>2 DEF Commit
    <3> QED
      BY <3>1 DEF IInv, Types
  <2> QED
    BY <2>1, <2>2
<1>5. unsealed' = unsealed
  BY DEF Commit
<1>6. ASSUME NEW d \in Day \ unsealed, NEW s \in Txn, Running(s)', txns'[s].closing = d
      PROVE  ClosingOK(d, s)'
  <2>1. s # t /\ Running(s) /\ txns[s].closing = d
    BY <1>1, <1>6
  <2>2. ClosingOK(d, s)
    BY <2>1 DEF IInv, SealsOK
  <2> QED
    BY <1>1, <2>1, <2>2 DEF ClosingOK
<1>7. ASSUME NEW d \in Day \ unsealed, d = tx.closing PROVE ClosedOK(d)'
  <2>1. ClosingOK(d, t)
    BY <1>1, <1>7 DEF IInv, SealsOK
  <2>2. /\ tx.fees = 0
        /\ tx.count = (IF tx.lines = << >> THEN 0 ELSE 1) + Cardinality(UpTo(d))
    BY <1>1, <2>1 DEF ClosingOK, CountsOK
  <2>3. closures'[d].count = tx.count /\ closures'[d].fees = 0
    BY <1>4, <1>7, <2>2
  <2>4. IsFiniteSet(UpTo(d)) /\ Cardinality(UpTo(d)) \in Nat
    BY UpToFinite
  <2>5. tx.count = Cardinality(UpTo(d)')
    <3>1. CASE tx.lines = << >>
      <4>1. UpTo(d)' = UpTo(d)
        BY <1>2, <3>1
      <4> QED
        BY <2>2, <2>4, <3>1, <4>1
    <3>2. CASE tx.lines # << >>
      <4>1. tx.date = d
        BY <1>1, <1>7, LedgerAssumption DEF PlanOK, Day
      <4>2. UpTo(d)' = UpTo(d) \cup {t} /\ t \notin UpTo(d)
        BY <1>3, <3>2, <4>1
      <4>3. Cardinality(UpTo(d) \cup {t}) = Cardinality(UpTo(d)) + 1
        BY <2>4, <4>2, FS_AddElement
      <4> QED
        BY <2>2, <2>4, <3>2, <4>2, <4>3
    <3> QED
      BY <3>1, <3>2
  <2>6. ASSUME NEW s \in Txn PROVE After(d, txns[s])'
    <3>1. CASE s = t
      BY <1>1, <3>1 DEF After
    <3>2. CASE s # t
      <4>1. ~Running(s) /\ txns'[s] = txns[s]
        BY <1>1, <2>1, <3>2 DEF ClosingOK
      <4> QED
        BY <4>1 DEF Running, After
    <3> QED
      BY <3>1, <3>2
  <2> QED
    BY <2>3, <2>5, <2>6 DEF ClosedOK
<1>8. ASSUME NEW d \in Day \ unsealed, d # tx.closing, d \in Closed' PROVE ClosedOK(d)'
  <2>1. closures'[d] = closures[d] /\ d \in Closed
    BY <1>4, <1>8 DEF Closed
  <2>2. ClosedOK(d)
    BY <2>1 DEF IInv, SealsOK
  <2>3. UpTo(d)' = UpTo(d)
    <3>1. tx.lines # << >> => tx.date > d
      BY <1>1, <2>2 DEF ClosedOK, After
    <3> QED
      BY <1>2, <1>3, <3>1
  <2>4. ASSUME NEW s \in Txn PROVE After(d, txns[s])'
    BY <1>1, <2>2 DEF ClosedOK, After
  <2> QED
    BY <2>1, <2>2, <2>3, <2>4 DEF ClosedOK
<1> QED
  BY <1>5, <1>6, <1>7, <1>8 DEF SealsOK

LEMMA CommitStages ==
  ASSUME IInv, NEW t \in Txn, Commit(t)
  PROVE  PlansOK' /\ StagesOK'
<1>1. /\ txns[t] \in TxnRow /\ PlanOK(txns[t])
      /\ \A s \in Txn : s # t => txns'[s] = txns[s]
      /\ txns'[t] = [txns[t] EXCEPT !.pc = "done"]
  BY Committing
<1>2. /\ txns'[t].pc = "done" /\ txns'[t].lines = txns[t].lines /\ txns'[t].moves = txns[t].moves
      /\ txns'[t].date = txns[t].date /\ txns'[t].closing = txns[t].closing
  BY <1>1 DEF TxnRow
<1>3. ASSUME NEW s \in Txn PROVE PlanOK(txns[s])'
  <2>1. PlanOK(txns[s])
    BY DEF IInv, PlansOK
  <2> QED
    BY <1>1, <1>2, <2>1 DEF PlanOK
<1>4. StageOK(t)'
  BY <1>2 DEF StageOK
<1>5. ASSUME NEW s \in Txn, s # t PROVE StageOK(s)'
  <2>1. StageOK(s) /\ txns'[s] = txns[s] /\ txns[s] \in TxnRow
    BY <1>1, <1>5 DEF IInv, StagesOK, Types
  <2>2. journals'[s] = journals[s]
    BY <1>5 DEF Commit, IInv, Types
  <2>3. CASE txns[s].pc = "moves"
    <3>1. Moved(s) /\ \A i \in 1..(txns[s].row - 1) : i \in DOMAIN txns[s].moves
      BY <2>1, <2>3, MovedTyped DEF StageOK
    <3>2. ASSUME NEW i \in 1..(txns[s].row - 1)
          PROVE  /\ lock'[txns[s].moves[i].acct] = s
                 /\ available'[txns[s].moves[i].acct] = available[txns[s].moves[i].acct]
      <4>1. PICK a \in Account : a = txns[s].moves[i].acct /\ a \in Rows
        BY <2>1, <3>1, Typed
      <4>2. lock[a] = s
        BY <3>1, <4>1 DEF Moved
      <4>3. available'[a] = available[a]
        BY <1>5, <4>2, CommitAvailable
      <4>4. lock'[a] = s
        BY <1>5, <4>1, <4>2 DEF Commit, End, Release
      <4> QED
        BY <4>1, <4>3, <4>4
    <3>3. Moved(s)'
      BY <2>1, <3>1, <3>2 DEF Moved
    <3> QED
      BY <2>1, <2>2, <2>3, <3>3 DEF StageOK
  <2>4. CASE txns[s].pc # "moves"
    BY <2>1, <2>2, <2>4 DEF StageOK
  <2> QED
    BY <2>3, <2>4
<1> QED
  BY <1>3, <1>4, <1>5 DEF PlansOK, StagesOK

LEMMA CommitTypes ==
  ASSUME IInv, NEW t \in Txn, Commit(t)
  PROVE  Types'
<1> DEFINE tx == txns[t]
<1>1. /\ tx \in TxnRow /\ PlanOK(tx) /\ Running(t)
      /\ \A s \in Txn : s # t => txns'[s] = txns[s]
      /\ \A s \in Txn : Running(s)' <=> s # t /\ Running(s)
      /\ txns' \in [Txn -> TxnRow]
  BY Committing
<1>2. balance' \in [GL -> Int]
  <2>1. \A g \in GL : balance[g] \in Int /\ Change(tx.lines, g) \in Int
    BY <1>1, ChangeTyped DEF IInv, Types, TypeOK
  <2>2. \A g \in GL : balance[g] + Change(tx.lines, g) \in Int
    BY <2>1
  <2> QED
    BY <2>2 DEF Commit
<1>3. available' \in [Account -> Int]
  <2>1. available' = [a \in Account |-> available[a] + Delta(tx.moves, a)]
    BY DEF Commit
  <2>2. \A a \in Account : available'[a] \in Int
    BY CommitAvailable
  <2> QED
    BY <2>1, <2>2
<1>4. journals' \in [Txn -> [date : 0..MaxDay, lines : Seq(LineRow)]]
  <2>1. [date |-> tx.date, lines |-> tx.lines] \in [date : 0..MaxDay, lines : Seq(LineRow)]
    BY <1>1 DEF TxnRow
  <2> QED
    BY <2>1 DEF Commit, IInv, Types
<1>5. closures' \in [Day -> [count : Nat, fees : Int, by : Txn \cup {NoTxn}]]
  <2>1. [count |-> tx.count, fees |-> tx.fees, by |-> t]
           \in [count : Nat, fees : Int, by : Txn \cup {NoTxn}]
    BY <1>1 DEF TxnRow
  <2> QED
    BY <2>1 DEF Commit, IInv, Types
<1>6. history' \in [Account -> Seq([delta : Int, running : Int])]
  BY CommitHistory DEF HistoryRow
<1>7. /\ lock' = [x \in Rows |-> IF lock[x] = t THEN NoTxn ELSE lock[x]]
      /\ lock' \in [Rows -> Txn \cup {NoTxn}]
  BY DEF Commit, End, Release, IInv, Types, TypeOK
<1>8. ASSUME NEW s \in Txn, ~Running(s)' PROVE Held(s)' = {}
  <2>1. CASE s = t
    BY <1>7, <2>1, LedgerAssumption DEF Held
  <2>2. CASE s # t
    <3>1. Held(s) = {}
      BY <1>1, <1>8, <2>2 DEF IInv, Types, TypeOK
    <3> QED
      BY <1>7, <2>2, <3>1, LedgerAssumption DEF Held
  <2> QED
    BY <2>1, <2>2
<1>9. \A s \in Txn : txns'[s].pc \in {"new", "journal", "lines", "moves", "snapshot",
                                      "closure", "done", "aborted"}
  BY <1>1 DEF TxnRow
<1>10. \A s \in Txn : journals'[s].date \in 0..MaxDay
  BY <1>4
<1>11. TypeOK'
  BY <1>2, <1>3, <1>7, <1>8, <1>9, <1>10 DEF TypeOK, IInv, Types, Commit
<1> QED
  BY <1>1, <1>4, <1>5, <1>6, <1>11 DEF Types

LEMMA CommitStep ==
  ASSUME IInv, NEW t \in Txn, Commit(t)
  PROVE  IInv'
  BY CommitTypes, CommitStages, CommitReconciles, CommitHistory, CommitRaces, CommitSeals DEF IInv

(***************************************************************************)
(* The theorems.                                                            *)
(***************************************************************************)
LEMMA InitIInv == Init => IInv
<1> SUFFICES ASSUME Init PROVE IInv
  OBVIOUS
<1>1. /\ \A t \in Txn : txns[t] = Fresh /\ journals[t] = NoJournal
      /\ \A d \in Day : closures[d] = NoClosure
      /\ \A a \in Account : history[a] = << >>
      /\ available = Opening /\ lock = [x \in Rows |-> NoTxn]
      /\ today = 1 /\ raced = {} /\ unsealed = {}
  BY DEF Init
<1>2. /\ Fresh \in TxnRow /\ Fresh.pc = "new" /\ Fresh.lines = << >> /\ Fresh.moves = << >>
      /\ Fresh.closing = 0
  BY FreshTyped
<1>3. \A t \in Txn : ~Running(t)
  BY <1>1, <1>2 DEF Running
<1>4. \A a \in Account : Opening[a] \in Int /\ Opening[a] >= 0
  BY LedgerAssumption
<1>5. SumOf(Account, Opening) \in Int /\ \A g : SumOf(Of(g), Opening) \in Int
  <2>1. SumOf(Account, Opening) \in Int
    BY <1>4, LedgerAssumption, SumSame
  <2>2. \A g : IsFiniteSet(Of(g)) /\ \A a \in Of(g) : Opening[a] \in Int
    BY <1>4, OfFinite
  <2> QED
    BY <2>1, <2>2, SumSame
<1>6. Types
  <2>1. balance \in [GL -> Int]
    BY <1>5 DEF Init
  <2>2. available \in [Account -> Int]
    BY <1>1, LedgerAssumption
  <2>3. 0 \in 0..MaxDay /\ 1 \in Day
    BY LedgerAssumption DEF Day
  <2>4. /\ lock \in [Rows -> Txn \cup {NoTxn}]
        /\ \A t \in Txn : Held(t) = {}
    BY <1>1, LedgerAssumption DEF Held
  <2>5. TypeOK
    BY <1>1, <1>2, <2>1, <2>2, <2>3, <2>4 DEF TypeOK, NoJournal
  <2>6. journals \in [Txn -> [date : 0..MaxDay, lines : Seq(LineRow)]]
    BY <2>3 DEF Init, NoJournal
  <2>7. closures \in [Day -> [count : Nat, fees : Int, by : Txn \cup {NoTxn}]]
    BY DEF Init, NoClosure
  <2>8. history \in [Account -> Seq([delta : Int, running : Int])]
    BY DEF Init
  <2>9. txns \in [Txn -> TxnRow]
    BY <1>2 DEF Init
  <2> QED
    BY <2>5, <2>6, <2>7, <2>8, <2>9 DEF Types
<1>7. PlansOK
  <2>1. PlanOK(Fresh)
    BY <1>2, NoChange DEF PlanOK
  <2> QED
    BY <1>1, <2>1 DEF PlansOK
<1>8. StagesOK
  BY <1>1, <1>2 DEF StagesOK, StageOK
<1>9. LedgerReconciles
  <2>1. \A g \in {"savings", "shares"} : balance[g] = SumOf(Of(g), available)
    BY <1>1 DEF Init, GL
  <2>2. ASSUME NEW g \in GL
        PROVE  SumOf(Txn, [t \in Txn |-> Change(journals[t].lines, g)]) = 0
    <3> DEFINE f == [t \in Txn |-> Change(journals[t].lines, g)]
    <3>1. \A t \in Txn : f[t] = 0
      BY <1>1, NoChange DEF NoJournal
    <3> HIDE DEF f
    <3>2. SumOf(Txn, f) = 0
      BY <3>1, LedgerAssumption, SumZero
    <3> QED
      BY <3>2 DEF f
  <2>3. ASSUME NEW g \in GL
        PROVE  balance[g] = (IF g = "cash" THEN SumOf(Account, Opening)
                             ELSE IF g \in {"savings", "shares"} THEN SumOf(Of(g), Opening) ELSE 0)
                            + SumOf(Txn, [t \in Txn |-> Change(journals[t].lines, g)])
    <3>1. PICK x \in Int :
             x = IF g = "cash" THEN SumOf(Account, Opening)
                 ELSE IF g \in {"savings", "shares"} THEN SumOf(Of(g), Opening) ELSE 0
      BY <1>5
    <3>2. balance[g] = x
      BY <3>1 DEF Init
    <3>3. x = x + SumOf(Txn, [t \in Txn |-> Change(journals[t].lines, g)])
      BY <2>2
    <3> QED
      BY <3>1, <3>2, <3>3
  <2> QED
    BY <2>1, <2>3 DEF LedgerReconciles
<1>10. RunningBalances
  BY <1>1 DEF RunningBalances
<1>11. RacesOK
  BY <1>1, <1>3, <1>4 DEF RacesOK, Covered, Debiting
<1>12. SealsOK
  BY <1>1, <1>3 DEF SealsOK, Closed
<1> QED
  BY <1>6, <1>7, <1>8, <1>9, <1>10, <1>11, <1>12 DEF IInv

LEMMA NextIInv == IInv /\ [Next]_vars => IInv'
<1> SUFFICES ASSUME IInv, [Next]_vars PROVE IInv'
  OBVIOUS
<1>1. ASSUME NEW t \in Txn, Begin(t) PROVE IInv'
  BY <1>1, BeginKeeps
<1>2. ASSUME NEW t \in Txn, Statement(t) PROVE IInv'
  BY <1>2, InsertJournalStep, UpsertBalanceStep, UpdateAccountStep, SnapshotStep,
     InsertClosureStep, CommitStep DEF Statement
<1>3. ASSUME NEW t \in Txn, Abort(t) \/ DeadlockVictim(t) PROVE IInv'
  BY <1>3, AbortStep, DeadlockVictimStep
<1>4. CASE NextDay
  BY <1>4, NextDayStep
<1>5. CASE UNCHANGED vars
  <2>1. UNCHANGED <<today, balance, available, journals, history, closures, txns, lock, raced,
                    unsealed>>
    BY <1>5 DEF vars
  <2>2. Types' /\ PlansOK' /\ StagesOK'
    <3>1. Types'
      BY <2>1 DEF Types, TypeOK, Running, Held, IInv
    <3>2. PlansOK' /\ StagesOK'
      BY <2>1 DEF PlansOK, StagesOK, StageOK, Moved, IInv
    <3> QED
      BY <3>1, <3>2
  <2>3. LedgerReconciles'
    BY <2>1 DEF LedgerReconciles, IInv
  <2>4. RunningBalances'
    BY <2>1 DEF RunningBalances, IInv
  <2>5. RacesOK'
    BY <2>1 DEF RacesOK, Covered, Debiting, Running, IInv
  <2>6. SealsOK'
    <3>1. \A t \in Txn : Running(t)' <=> Running(t)
      BY <2>1 DEF Running
    <3>2. \A d \in Day : UpTo(d)' = UpTo(d) /\ (d \in Closed' <=> d \in Closed)
      BY <2>1 DEF UpTo, Closed
    <3>3. \A d \in Day, t \in Txn : ClosingOK(d, t) => ClosingOK(d, t)'
      BY <2>1, <3>1, <3>2 DEF ClosingOK, CountsOK
    <3>4. \A d \in Day : ClosedOK(d) => ClosedOK(d)'
      BY <2>1, <3>2 DEF ClosedOK
    <3> QED
      BY <2>1, <3>1, <3>2, <3>3, <3>4 DEF SealsOK, IInv
  <2> QED
    BY <2>2, <2>3, <2>4, <2>5, <2>6 DEF IInv
<1> QED
  BY <1>1, <1>2, <1>3, <1>4, <1>5 DEF Next

\* What the plans, the locks and the closings at work must look like, beside the
\* promises themselves, holds in every state.
THEOREM LedgerInvariant == Spec => []IInv
<1>1. Init => IInv
  BY InitIInv
<1>2. IInv /\ [Next]_vars => IInv'
  BY NextIInv
<1> QED
  BY <1>1, <1>2, PTL DEF Spec

\* Balances, journals, closures and locks keep to their types, and a transaction that
\* has ended holds no lock.
THEOREM LedgerTypeCorrect == Spec => []TypeOK
<1>1. IInv => TypeOK
  BY DEF IInv, Types
<1> QED
  BY <1>1, LedgerInvariant, PTL

\* post_journal_entry and the account updates around it: every GL balance is the sum
\* of its posted lines, and the savings and shares controls are the sums of the member
\* accounts under them, whatever transactions overlap, abort or die in a deadlock.
THEOREM LedgerReconciled == Spec => []LedgerReconciles
<1>1. IInv => LedgerReconciles
  BY DEF IInv
<1> QED
  BY <1>1, LedgerInvariant, PTL

\* member_account_transactions.running_balance: every row follows from the row before
\* it, and the last one is the available balance.
THEOREM LedgerRunningBalances == Spec => []RunningBalances
<1>1. IInv => RunningBalances
  BY DEF IInv
<1> QED
  BY <1>1, LedgerInvariant, PTL

\* withdraw and transfer read available_balance before they lock it: an account is
\* overdrawn only where debits of it overlapped.
THEOREM LedgerOverdrawnOnlyByRace == Spec => []OverdrawnOnlyByRace
<1>1. IInv => OverdrawnOnlyByRace
  BY DEF IInv, Types, TypeOK, RacesOK, Covered, OverdrawnOnlyByRace
<1> QED
  BY <1>1, LedgerInvariant, PTL

\* closing_procedure and the closed-period trigger: a period closed with no other
\* transaction at work has counted every journal it will ever have, and leaves no income.
THEOREM LedgerSealedPeriod == Spec => []SealedPeriod
<1>1. IInv => SealedPeriod
  BY DEF IInv, SealsOK, ClosedOK, UpTo, SealedPeriod, Closed
<1> QED
  BY <1>1, LedgerInvariant, PTL

(***************************************************************************)
(* The export jobs of ReportExports.  The inductive invariant relates a job*)
(* to the worker that has it at hand: the row counts the retries the worker*)
(* began with, and one attempt more was made.  A clean-up takes only what no*)
(* worker and no attempt given up still touches.                           *)
(***************************************************************************)
\* A job that a worker has at hand.
OwnedOK(w) ==
    LET call == workers[w] IN
    \/ call.pc = "idle" /\ call.job = NoJob
    \/ /\ call.pc # "idle" /\ call.job \in Job
       /\ jobs[call.job].status \in {"processing", "completed"} /\ ~jobs[call.job].old
       /\ jobs[call.job].retries = call.retries /\ call.retries <= MaxRetries
       /\ attempts[call.job] = call.retries + 1
       /\ call.pc = "complete" => call.job \in stored

JobOK(j) ==
    /\ jobs[j].status = "absent" => attempts[j] = 0
    /\ jobs[j].status = "pending" => attempts[j] = jobs[j].retries /\ jobs[j].retries <= MaxRetries
    /\ attempts[j] <= MaxRetries + 1
    /\ jobs[j].old => jobs[j].status \in {"completed", "failed", "deleted"}
    /\ jobs[j].status = "completed" /\ ~jobs[j].old => j \in stored

\* What no time-out and no death has touched.
SerialJob(j) ==
    /\ jobs[j].status \in {"completed", "failed"} =>
          /\ jobs[j].file = (jobs[j].status = "completed")
          /\ attempts[j] = jobs[j].retries + (IF jobs[j].file THEN 1 ELSE 0)
    /\ jobs[j].status = "pending" \/ (\E w \in Worker : workers[w].job = j) => ~jobs[j].file

ExportsOK ==
    /\ jobs \in [Job -> Exports!Row] /\ workers \in [Worker -> Exports!WorkerState]
    /\ stored \in SUBSET Job /\ abandoned \in SUBSET [job : Job, pc : {"load", "complete"}]
    /\ sweeps \in [Worker -> SUBSET Job] /\ attempts \in [Job -> Nat]
    /\ \A w \in Worker : OwnedOK(w) /\ \A j \in sweeps[w] : jobs[j].old
    /\ \A v, w \in Worker : workers[v].job = workers[w].job => v = w \/ workers[v].job = NoJob
    /\ \A a \in abandoned : /\ a.job \in late /\ ~jobs[a.job].old
                            /\ a.pc = "complete" => a.job \in stored
    /\ \A j \in Job : JobOK(j)
    /\ \A j \in Job \ (late \cup orphaned) : SerialJob(j)

LEMMA ExportsInit == Exports!Init => ExportsOK
  BY MCLiveAssumption DEF Exports!Init, ExportsOK, OwnedOK, JobOK, SerialJob, Exports!Row,
     Exports!NoRow, Exports!WorkerState, Exports!Idle, Exports!Status, Exports!Ended,
     Exports!ReportExportsAssumption

LEMMA QueueOK ==
  ASSUME ExportsOK, NEW k \in Job, Exports!QueueReportExportJob(k)
  PROVE  ExportsOK'
<1> USE DEF Exports!Row, Exports!WorkerState, Exports!Status, Exports!Ended, Exports!history
<1>1. /\ jobs'[k] = [status |-> "pending", retries |-> 0, file |-> FALSE, old |-> FALSE]
      /\ \A j \in Job \ {k} : jobs'[j] = jobs[j]
      /\ jobs' \in [Job -> Exports!Row] /\ jobs[k].status = "absent"
      /\ UNCHANGED <<stored, workers, abandoned, sweeps, attempts, late, orphaned>>
  BY DEF ExportsOK, Exports!QueueReportExportJob, Exports!Write, Exports!NoRow
<1>2. \A w \in Worker : workers[w].job # k
  BY <1>1, MCLiveAssumption DEF ExportsOK, OwnedOK, Exports!ReportExportsAssumption
<1>3. \A w \in Worker : OwnedOK(w)'
  BY <1>1, <1>2 DEF ExportsOK, OwnedOK
<1>4. \A j \in Job : JobOK(j)'
  BY <1>1, MCLiveAssumption DEF ExportsOK, JobOK, Exports!ReportExportsAssumption
<1>5. \A j \in Job \ (late \cup orphaned) : SerialJob(j)'
  BY <1>1 DEF ExportsOK, SerialJob
<1>6. \A w \in Worker : \A j \in sweeps[w] : j \in Job /\ jobs'[j].old
  <2>1. ~jobs[k].old
    BY <1>1 DEF ExportsOK, JobOK
  <2>2. \A w \in Worker : \A j \in sweeps[w] : j \in Job /\ jobs[j].old
    BY DEF ExportsOK
  <2> QED
    BY <1>1, <2>1, <2>2
<1>7. \A a \in abandoned : ~jobs'[a.job].old
  BY <1>1 DEF ExportsOK
<1> QED
  BY <1>1, <1>3, <1>4, <1>5, <1>6, <1>7 DEF ExportsOK

LEMMA AgeOK ==
  ASSUME ExportsOK, NEW k \in Job, Exports!Age(k)
  PROVE  ExportsOK'
<1> USE DEF Exports!Row, Exports!WorkerState, Exports!Status, Exports!Ended, Exports!history
<1>1. /\ jobs'[k] = [jobs[k] EXCEPT !.old = TRUE]
      /\ \A j \in Job \ {k} : jobs'[j] = jobs[j]
      /\ jobs' \in [Job -> Exports!Row] /\ jobs[k].status \in {"completed", "failed"}
      /\ jobs[k] \in Exports!Row
      /\ UNCHANGED <<stored, workers, abandoned, sweeps, attempts, late, orphaned>>
  <2>1. jobs \in [Job -> Exports!Row]
    BY DEF ExportsOK
  <2>2. jobs' = [jobs EXCEPT ![k] = [jobs[k] EXCEPT !.old = TRUE]]
    BY DEF Exports!Age, Exports!Write
  <2> QED
    BY <2>1, <2>2 DEF Exports!Age
<1>2. /\ \A w \in Worker : workers[w].job # k
      /\ \A a \in abandoned : a.job # k
  BY DEF Exports!Age
<1>3. \A w \in Worker : OwnedOK(w)'
  BY <1>1, <1>2 DEF ExportsOK, OwnedOK
<1>4. \A j \in Job : JobOK(j)'
  BY <1>1 DEF ExportsOK, JobOK
<1>5. \A j \in Job \ (late \cup orphaned) : SerialJob(j)'
  BY <1>1 DEF ExportsOK, SerialJob
<1>6. \A w \in Worker : \A j \in sweeps[w] : j \in Job /\ jobs'[j].old
  BY <1>1 DEF ExportsOK
<1>7. \A a \in abandoned : ~jobs'[a.job].old
  BY <1>1, <1>2 DEF ExportsOK
<1> QED
  BY <1>1, <1>3, <1>4, <1>5, <1>6, <1>7 DEF ExportsOK

\* A step of worker w at job k, which no other worker has: it is enough that the job, the
\* worker and the attempts given up are as they should be.
LEMMA StepAtJob ==
  ASSUME ExportsOK, NEW w \in Worker, NEW k \in Job,
         \A v \in Worker \ {w} : workers[v].job # k /\ workers'[v] = workers[v],
         workers' \in [Worker -> Exports!WorkerState], workers'[w].job \in {k, NoJob},
         jobs' \in [Job -> Exports!Row], ~jobs[k].old, ~jobs'[k].old,
         \A j \in Job \ {k} : jobs'[j] = jobs[j],
         stored \subseteq stored', stored' \in SUBSET Job,
         abandoned' \in SUBSET [job : Job, pc : {"load", "complete"}],
         \A a \in abandoned' \ abandoned :
            a.job = k /\ a.job \in late' /\ (a.pc = "complete" => k \in stored'),
         attempts' \in [Job -> Nat], \A j \in Job \ {k} : attempts'[j] = attempts[j],
         UNCHANGED sweeps, late \subseteq late', orphaned \subseteq orphaned',
         OwnedOK(w)', JobOK(k)', k \notin late' \cup orphaned' => SerialJob(k)'
  PROVE  ExportsOK'
<1>1. \A v \in Worker : OwnedOK(v)'
  BY DEF ExportsOK, OwnedOK
<1>2. \A u, v \in Worker : workers'[u].job = workers'[v].job => u = v \/ workers'[u].job = NoJob
  BY DEF ExportsOK
<1>3. \A j \in Job : JobOK(j)'
  BY DEF ExportsOK, JobOK
<1>4. \A j \in Job \ (late' \cup orphaned') : SerialJob(j)'
  <2>1. ASSUME NEW j \in Job \ {k}
        PROVE  (\E v \in Worker : workers'[v].job = j) => \E v \in Worker : workers[v].job = j
    BY MCLiveAssumption DEF Exports!ReportExportsAssumption
  <2> QED
    BY <2>1 DEF ExportsOK, SerialJob
<1>5. \A a \in abandoned' : /\ a.job \in late' /\ ~jobs'[a.job].old
                            /\ a.pc = "complete" => a.job \in stored'
  <2>1. ASSUME NEW a \in abandoned
        PROVE  /\ a.job \in Job /\ a.job \in late /\ ~jobs[a.job].old
               /\ a.pc = "complete" => a.job \in stored
    BY DEF ExportsOK
  <2> QED
    BY <2>1
<1>6. \A v \in Worker : \A j \in sweeps[v] : j \in Job /\ jobs'[j].old
  <2>1. \A v \in Worker : \A j \in sweeps[v] : j \in Job /\ jobs[j].old
    BY DEF ExportsOK
  <2> QED
    BY <2>1
<1> QED
  BY <1>1, <1>2, <1>3, <1>4, <1>5, <1>6 DEF ExportsOK

LEMMA ClaimOK ==
  ASSUME ExportsOK, NEW w \in Worker, Exports!ClaimNextReportExportJob(w)
  PROVE  ExportsOK'
<1> USE DEF Exports!Row, Exports!WorkerState, Exports!Status, Exports!Ended
<1>1. PICK k \in Job :
        /\ jobs[k].status = "pending"
        /\ jobs' = [jobs EXCEPT ![k] = [jobs[k] EXCEPT !.status = "processing"]]
        /\ workers' = [workers EXCEPT ![w] =
               [pc |-> "start", job |-> k, retries |-> jobs[k].retries]]
        /\ attempts' = [attempts EXCEPT ![k] = @ + 1]
  BY DEF Exports!ClaimNextReportExportJob, Exports!Claimable, Exports!Write
<1>2. /\ jobs'[k] = [jobs[k] EXCEPT !.status = "processing"] /\ jobs[k] \in Exports!Row
      /\ \A j \in Job \ {k} : jobs'[j] = jobs[j] /\ attempts'[j] = attempts[j]
      /\ jobs' \in [Job -> Exports!Row] /\ attempts' \in [Job -> Nat]
      /\ attempts'[k] = attempts[k] + 1 /\ attempts[k] \in Nat
      /\ workers' \in [Worker -> Exports!WorkerState]
      /\ workers'[w] = [pc |-> "start", job |-> k, retries |-> jobs[k].retries]
      /\ \A v \in Worker \ {w} : workers'[v] = workers[v]
      /\ UNCHANGED <<stored, abandoned, sweeps, late, orphaned>>
  BY <1>1 DEF ExportsOK, Exports!ClaimNextReportExportJob
<1>3. \A v \in Worker : workers[v].job # k
  BY <1>1, MCLiveAssumption DEF ExportsOK, OwnedOK, Exports!ReportExportsAssumption
<1>4. /\ attempts[k] = jobs[k].retries /\ jobs[k].retries <= MaxRetries /\ ~jobs[k].old
      /\ jobs[k].retries \in Nat
  BY <1>1, <1>2 DEF ExportsOK, JobOK
<1>5. OwnedOK(w)'
  BY <1>2, <1>4 DEF OwnedOK
<1>6. JobOK(k)'
  BY <1>2, <1>4, MCLiveAssumption DEF JobOK, Exports!ReportExportsAssumption
<1>7. k \notin late \cup orphaned => SerialJob(k)'
  <2>1. k \notin late \cup orphaned => ~jobs[k].file
    BY <1>1 DEF ExportsOK, SerialJob
  <2> QED
    BY <1>2, <2>1 DEF SerialJob
<1>8. abandoned \in SUBSET [job : Job, pc : {"load", "complete"}] /\ stored \in SUBSET Job
  BY DEF ExportsOK
<1> QED
  BY <1>2, <1>3, <1>4, <1>5, <1>6, <1>7, <1>8, StepAtJob

\* What a worker has at hand: nobody else has it.
LEMMA AtHand ==
  ASSUME ExportsOK, NEW w \in Worker, workers[w].pc # "idle"
  PROVE  /\ workers[w].job \in Job /\ workers[w].retries \in Nat
         /\ \A v \in Worker \ {w} : workers[v].job # workers[w].job
         /\ jobs \in [Job -> Exports!Row] /\ workers \in [Worker -> Exports!WorkerState]
         /\ stored \in SUBSET Job /\ attempts \in [Job -> Nat]
         /\ abandoned \in SUBSET [job : Job, pc : {"load", "complete"}]
         /\ OwnedOK(w) /\ JobOK(workers[w].job)
         /\ ~jobs[workers[w].job].old
         /\ workers[w].job \notin late \cup orphaned =>
               SerialJob(workers[w].job) /\ ~jobs[workers[w].job].file
<1>1. /\ workers[w].job \in Job /\ ~jobs[workers[w].job].old
      /\ workers[w].retries \in Nat
  BY DEF ExportsOK, OwnedOK, Exports!WorkerState
<1>2. \A v \in Worker \ {w} : workers[v].job # workers[w].job
  BY <1>1, MCLiveAssumption DEF ExportsOK, Exports!ReportExportsAssumption
<1>3. workers[w].job \notin late \cup orphaned =>
        SerialJob(workers[w].job) /\ ~jobs[workers[w].job].file
  BY <1>1 DEF ExportsOK, SerialJob
<1> QED
  BY <1>1, <1>2, <1>3 DEF ExportsOK

\* A worker that goes on at its job writes its row in processing or not at all.
LEMMA GoOn ==
  ASSUME ExportsOK, NEW w \in Worker, workers[w].pc # "idle",
         NEW pc \in {"start", "load", "complete", "retry", "reject"}, Exports!Goto(w, pc),
         \/ UNCHANGED jobs
         \/ Exports!Write(workers[w].job, [jobs[workers[w].job] EXCEPT !.status = "processing"]),
         stored' \in {stored, stored \cup {workers[w].job}},
         pc = "complete" => workers[w].job \in stored',
         \/ UNCHANGED <<abandoned, late>>
         \/ /\ late' = late \cup {workers[w].job}
            /\ \E p \in {"load", "complete"} :
                  /\ abandoned' = abandoned \cup {[job |-> workers[w].job, pc |-> p]}
                  /\ p = "complete" => workers[w].job \in stored,
         UNCHANGED <<sweeps, attempts, orphaned>>
  PROVE  ExportsOK'
<1> USE DEF Exports!Row, Exports!WorkerState, Exports!Status, Exports!Ended
<1>1. PICK k \in Job : k = workers[w].job
  BY AtHand
<1>2. /\ \A v \in Worker \ {w} : workers[v].job # k /\ workers'[v] = workers[v]
      /\ workers' \in [Worker -> Exports!WorkerState]
      /\ workers'[w].job = k /\ workers'[w].retries = workers[w].retries
      /\ workers'[w].pc = pc
  BY <1>1, AtHand DEF Exports!Goto
<1>3. /\ jobs' \in [Job -> Exports!Row] /\ \A j \in Job \ {k} : jobs'[j] = jobs[j]
      /\ jobs'[k] \in {jobs[k], [jobs[k] EXCEPT !.status = "processing"]}
      /\ jobs[k] \in Exports!Row /\ ~jobs[k].old
  BY <1>1, AtHand DEF Exports!Write
<1>4. OwnedOK(w)'
  BY <1>1, <1>2, <1>3, AtHand DEF OwnedOK
<1>5. JobOK(k)'
  BY <1>1, <1>3, AtHand DEF JobOK
<1>6. k \notin late' \cup orphaned' => SerialJob(k)'
  BY <1>1, <1>3, AtHand DEF SerialJob
<1>7. /\ abandoned' \in SUBSET [job : Job, pc : {"load", "complete"}]
      /\ stored' \in SUBSET Job /\ stored \subseteq stored' /\ late \subseteq late'
      /\ \A a \in abandoned' \ abandoned :
            a.job = k /\ a.job \in late' /\ (a.pc = "complete" => k \in stored')
  BY <1>1, AtHand
<1>8. ~jobs'[k].old
  BY <1>3
<1> HIDE DEF Exports!Row, Exports!WorkerState
<1>9. attempts' \in [Job -> Nat] /\ \A j \in Job \ {k} : attempts'[j] = attempts[j]
  BY AtHand
<1> QED
  BY <1>2, <1>3, <1>4, <1>5, <1>6, <1>7, <1>8, <1>9, StepAtJob

LEMMA AttemptOK ==
  ASSUME ExportsOK, NEW w \in Worker,
         \/ Exports!StartReportExportJob(w) \/ Exports!UploadReportArtifact(w)
         \/ Exports!FailAttempt(w) \/ Exports!TimeOutAttempt(w)
  PROVE  ExportsOK'
<1>1. CASE Exports!StartReportExportJob(w)
  BY <1>1, GoOn DEF Exports!StartReportExportJob, Exports!history
<1>2. CASE Exports!UploadReportArtifact(w)
  BY <1>2, GoOn DEF Exports!UploadReportArtifact, Exports!history
<1>3. CASE Exports!FailAttempt(w)
  BY <1>3, GoOn DEF Exports!FailAttempt, Exports!history
<1>4. CASE Exports!TimeOutAttempt(w)
  <2>1. workers[w].pc \in {"load", "complete"}
    BY <1>4 DEF Exports!TimeOutAttempt
  <2>2. workers[w].pc = "complete" => workers[w].job \in stored
    BY <2>1, AtHand DEF OwnedOK
  <2> QED
    BY <1>4, <2>1, <2>2, GoOn DEF Exports!TimeOutAttempt
<1> QED
  BY <1>1, <1>2, <1>3, <1>4

LEMMA EndOK ==
  ASSUME ExportsOK, NEW w \in Worker,
         Exports!CompleteReportExportJob(w) \/ Exports!HandleJobProcessingFailure(w)
  PROVE  ExportsOK'
<1> USE DEF Exports!Row, Exports!WorkerState, Exports!Status, Exports!Ended
<1>1. workers[w].pc # "idle" /\ UNCHANGED <<stored, abandoned, sweeps, attempts, late, orphaned>>
  BY DEF Exports!CompleteReportExportJob, Exports!HandleJobProcessingFailure, Exports!history
<1>2. PICK k \in Job : k = workers[w].job
  BY <1>1, AtHand
<1>3. /\ jobs[k] \in Exports!Row /\ jobs[k].retries = workers[w].retries /\ ~jobs[k].old
      /\ attempts[k] = workers[w].retries + 1 /\ workers[w].retries <= MaxRetries
      /\ workers[w].retries \in Nat
      /\ workers[w].pc = "complete" => k \in stored
      /\ k \notin late \cup orphaned => ~jobs[k].file
  BY <1>1, <1>2, AtHand DEF OwnedOK
<1>4. /\ \A v \in Worker \ {w} : workers[v].job # k /\ workers'[v] = workers[v]
      /\ workers' \in [Worker -> Exports!WorkerState]
      /\ workers'[w].job = NoJob /\ workers'[w].pc = "idle"
  BY <1>1, <1>2, AtHand DEF Exports!CompleteReportExportJob, Exports!HandleJobProcessingFailure,
     Exports!Idle
<1>5. PICK row \in Exports!Row :
        /\ jobs' = [jobs EXCEPT ![k] = row] /\ ~row.old
        /\ \/ /\ row.status = "completed" /\ row.file /\ workers[w].pc = "complete"
              /\ row.retries = workers[w].retries
           \/ /\ row.status \in {"failed", "pending"}
              /\ row.status = "pending" => workers[w].retries < MaxRetries
              /\ row.file = jobs[k].file /\ row.retries = workers[w].retries + 1
  <2>1. CASE Exports!CompleteReportExportJob(w)
    <3>1. /\ [jobs[k] EXCEPT !.status = "completed", !.file = TRUE] \in Exports!Row
          /\ jobs' = [jobs EXCEPT ![k] = [jobs[k] EXCEPT !.status = "completed", !.file = TRUE]]
      BY <1>2, <1>3, <2>1 DEF Exports!CompleteReportExportJob, Exports!Write
    <3> QED
      BY <1>3, <2>1, <3>1 DEF Exports!CompleteReportExportJob
  <2>2. CASE Exports!HandleJobProcessingFailure(w)
    <3>1. PICK s \in {"pending", "failed"} :
            s = Exports!AfterFailure(w) /\ (s = "pending" => workers[w].retries < MaxRetries)
      BY DEF Exports!AfterFailure
    <3> DEFINE row == [jobs[k] EXCEPT !.retries = workers[w].retries + 1, !.status = s]
    <3>2. jobs' = [jobs EXCEPT ![k] = row]
      <4>1. jobs' = [jobs EXCEPT ![workers[w].job] = [jobs[workers[w].job] EXCEPT
                       !.retries = workers[w].retries + 1, !.status = Exports!AfterFailure(w)]]
        BY <2>2, Zenon DEF Exports!HandleJobProcessingFailure, Exports!Write
      <4> QED
        BY <1>2, <3>1, <4>1, Zenon
    <3>3. row \in Exports!Row
      <4>1. s \in Exports!Status /\ workers[w].retries + 1 \in Nat
        BY <1>3
      <4> QED
        BY <1>3, <4>1
    <3>4. /\ row.status = s /\ row.retries = workers[w].retries + 1
          /\ row.file = jobs[k].file /\ row.old = jobs[k].old
      BY <1>3
    <3> HIDE DEF row
    <3>5. /\ row.status \in {"failed", "pending"} /\ ~row.old
          /\ row.status = "pending" => workers[w].retries < MaxRetries
      BY <1>3, <3>1, <3>4
    <3> QED
      BY <3>2, <3>3, <3>4, <3>5, Zenon
  <2> QED
    BY <2>1, <2>2
<1>6. /\ jobs' \in [Job -> Exports!Row] /\ jobs'[k] = row
      /\ \A j \in Job \ {k} : jobs'[j] = jobs[j]
  BY <1>1, <1>5, AtHand
<1>7. OwnedOK(w)'
  BY <1>4 DEF OwnedOK
<1>8. JobOK(k)'
  BY <1>1, <1>3, <1>5, <1>6, MCLiveAssumption DEF JobOK, Exports!ReportExportsAssumption
<1>9. k \notin late \cup orphaned => SerialJob(k)'
  <2>1. \A v \in Worker : workers'[v].job # k
    BY <1>4, MCLiveAssumption DEF Exports!ReportExportsAssumption
  <2> QED
    BY <1>1, <1>3, <1>5, <1>6, <2>1 DEF SerialJob
<1>10. ~jobs'[k].old
  BY <1>5, <1>6
<1> HIDE DEF Exports!Row, Exports!WorkerState
<1> QED
  BY <1>1, <1>3, <1>4, <1>6, <1>7, <1>8, <1>9, <1>10, StepAtJob, AtHand

LEMMA DieOK ==
  ASSUME ExportsOK, NEW w \in Worker, Exports!Die(w)
  PROVE  ExportsOK'
<1>1. /\ workers[w].pc # "idle" /\ UNCHANGED <<jobs, stored, abandoned, sweeps, attempts, late>>
      /\ orphaned' = orphaned \cup {workers[w].job}
  BY DEF Exports!Die
<1>2. PICK k \in Job : k = workers[w].job
  BY <1>1, AtHand
<1>3. /\ \A v \in Worker \ {w} : workers[v].job # k /\ workers'[v] = workers[v]
      /\ workers' \in [Worker -> Exports!WorkerState]
      /\ workers'[w].job = NoJob /\ workers'[w].pc = "idle"
  BY <1>1, <1>2, AtHand DEF Exports!Die, Exports!Idle, Exports!WorkerState
<1>4. OwnedOK(w)'
  BY <1>3 DEF OwnedOK
<1>5. JobOK(k)'
  BY <1>1, <1>2, AtHand DEF JobOK
<1>6. k \in orphaned' /\ orphaned \subseteq orphaned' /\ ~jobs[k].old
  BY <1>1, <1>2, AtHand
<1> QED
  BY <1>1, <1>3, <1>4, <1>5, <1>6, StepAtJob, AtHand

LEMMA AbandonedOK ==
  ASSUME ExportsOK, NEW a \in abandoned, UNCHANGED <<workers, sweeps, Exports!history>>,
         \/ Exports!AbandonedAttempt(a) \/ Exports!AbandonedUpload(a)
         \/ Exports!AbandonedComplete(a)
  PROVE  ExportsOK'
<1> USE DEF Exports!Row, Exports!WorkerState, Exports!Status, Exports!Ended
<1>1. PICK k \in Job : k = a.job
  BY DEF ExportsOK
<1>2. /\ k \in late /\ ~jobs[k].old /\ (a.pc = "complete" => k \in stored)
      /\ jobs[k] \in Exports!Row /\ a \in [job : Job, pc : {"load", "complete"}]
  BY <1>1 DEF ExportsOK
<1>3. UNCHANGED <<workers, sweeps, attempts, late, orphaned>>
  BY DEF Exports!history
<1>4. /\ jobs' \in [Job -> Exports!Row] /\ \A j \in Job \ {k} : jobs'[j] = jobs[j]
      /\ \/ jobs'[k] = jobs[k]
         \/ /\ jobs'[k] = [jobs[k] EXCEPT !.status = "completed", !.file = TRUE]
            /\ k \in stored
  <2>1. jobs \in [Job -> Exports!Row]
    BY DEF ExportsOK
  <2>2. CASE UNCHANGED jobs
    BY <2>1, <2>2
  <2>3. CASE Exports!AbandonedComplete(a)
    BY <1>1, <1>2, <2>1, <2>3 DEF Exports!AbandonedComplete, Exports!Write
  <2> QED
    BY <2>2, <2>3 DEF Exports!AbandonedAttempt, Exports!AbandonedUpload
<1>5. /\ stored \subseteq stored' /\ stored' \in SUBSET Job
      /\ \A b \in abandoned' : \/ b \in abandoned
                               \/ b.job = k /\ b.pc = "complete" /\ k \in stored'
      /\ abandoned' \in SUBSET [job : Job, pc : {"load", "complete"}]
  BY <1>1, <1>2 DEF ExportsOK, Exports!AbandonedAttempt, Exports!AbandonedUpload,
     Exports!AbandonedComplete
<1>6. /\ jobs'[k].old = jobs[k].old /\ jobs'[k].retries = jobs[k].retries
      /\ jobs'[k].status \in {jobs[k].status, "completed"}
  BY <1>2, <1>4
<1>7. \A w \in Worker : OwnedOK(w)'
  BY <1>3, <1>4, <1>5, <1>6 DEF ExportsOK, OwnedOK
<1>8. \A j \in Job : JobOK(j)'
  <2>1. JobOK(k)'
    BY <1>2, <1>3, <1>4, <1>5, <1>6 DEF ExportsOK, JobOK
  <2>2. \A j \in Job \ {k} : JobOK(j)'
    BY <1>3, <1>4, <1>5 DEF ExportsOK, JobOK
  <2> QED
    BY <2>1, <2>2
<1>9. \A j \in Job \ (late \cup orphaned) : SerialJob(j)'
  BY <1>2, <1>3, <1>4 DEF ExportsOK, SerialJob
<1>10. \A b \in abandoned' : /\ b.job \in late /\ ~jobs'[b.job].old
                             /\ b.pc = "complete" => b.job \in stored'
  BY <1>2, <1>4, <1>5, <1>6 DEF ExportsOK
<1>11. \A w \in Worker : \A j \in sweeps[w] : j \in Job /\ jobs'[j].old
  <2>1. \A w \in Worker : \A j \in sweeps[w] : j \in Job /\ jobs[j].old
    BY DEF ExportsOK
  <2> QED
    BY <1>4, <1>6, <2>1
<1> QED
  BY <1>3, <1>4, <1>5, <1>7, <1>8, <1>9, <1>10, <1>11 DEF ExportsOK

LEMMA SweepOK ==
  ASSUME ExportsOK, NEW w \in Worker, Exports!SweepArtifacts(w)
  PROVE  ExportsOK'
<1>1. UNCHANGED <<jobs, workers, abandoned, attempts, late, orphaned>>
  BY DEF Exports!SweepArtifacts, Exports!history
<1>2. /\ stored' \subseteq stored /\ \A j \in stored \ stored' : jobs[j].old
      /\ sweeps' \in [Worker -> SUBSET Job]
      /\ \A v \in Worker : \A j \in sweeps'[v] : jobs[j].old
  BY DEF ExportsOK, Exports!SweepArtifacts
<1>3. \A v \in Worker : OwnedOK(v)'
  BY <1>1, <1>2 DEF ExportsOK, OwnedOK
<1>4. \A j \in Job : JobOK(j)'
  BY <1>1, <1>2 DEF ExportsOK, JobOK
<1>5. \A j \in Job \ (late \cup orphaned) : SerialJob(j)'
  BY <1>1 DEF ExportsOK, SerialJob
<1>6. \A a \in abandoned : a.pc = "complete" => a.job \in stored'
  BY <1>2 DEF ExportsOK
<1> QED
  BY <1>1, <1>2, <1>3, <1>4, <1>5, <1>6 DEF ExportsOK

LEMMA DeleteOK ==
  ASSUME ExportsOK, NEW w \in Worker, Exports!DeleteReportExportJobs(w)
  PROVE  ExportsOK'
<1> USE DEF Exports!Row, Exports!Status, Exports!Ended
<1>1. UNCHANGED <<stored, workers, abandoned, attempts, late, orphaned>>
  BY DEF Exports!DeleteReportExportJobs, Exports!history
<1>2. /\ sweeps' \in [Worker -> SUBSET Job] /\ \A v \in Worker : sweeps'[v] \subseteq sweeps[v]
      /\ \A j \in sweeps[w] : j \in Job /\ jobs[j].old
  BY DEF ExportsOK, Exports!DeleteReportExportJobs
<1>3. /\ jobs' \in [Job -> Exports!Row]
      /\ \A j \in Job : \/ jobs'[j] = jobs[j]
                        \/ jobs[j].old /\ jobs'[j] = [jobs[j] EXCEPT !.status = "deleted"]
  <2>1. jobs \in [Job -> Exports!Row]
    BY DEF ExportsOK
  <2> QED
    BY <1>2, <2>1 DEF Exports!DeleteReportExportJobs
<1>4. /\ \A j \in Job : jobs[j] \in Exports!Row /\ jobs'[j].old = jobs[j].old
      /\ \A j \in Job : ~jobs[j].old => jobs'[j] = jobs[j]
  BY <1>3 DEF ExportsOK
<1>5. \A v \in Worker : OwnedOK(v)'
  BY <1>1, <1>4 DEF ExportsOK, OwnedOK
<1>6. \A j \in Job : JobOK(j)'
  BY <1>1, <1>3, <1>4 DEF ExportsOK, JobOK
<1>7. \A j \in Job \ (late \cup orphaned) : SerialJob(j)'
  <2> SUFFICES ASSUME NEW j \in Job \ (late \cup orphaned) PROVE SerialJob(j)'
    OBVIOUS
  <2>1. SerialJob(j)
    BY DEF ExportsOK
  <2>2. CASE jobs'[j] = jobs[j]
    BY <1>1, <2>1, <2>2 DEF SerialJob
  <2>3. CASE jobs[j].old /\ jobs'[j] = [jobs[j] EXCEPT !.status = "deleted"]
    <3>1. \A v \in Worker : workers[v].job # j
      BY <2>3, MCLiveAssumption DEF ExportsOK, OwnedOK, Exports!ReportExportsAssumption
    <3> QED
      BY <1>1, <1>4, <2>3, <3>1 DEF SerialJob
  <2> QED
    BY <1>3, <2>2, <2>3
<1>8. \A a \in abandoned : ~jobs'[a.job].old
  BY <1>4 DEF ExportsOK
<1>9. \A v \in Worker : \A j \in sweeps'[v] : jobs'[j].old
  BY <1>2, <1>4 DEF ExportsOK
<1> HIDE DEF Exports!Row
<1> QED
  BY <1>1, <1>2, <1>3, <1>5, <1>6, <1>7, <1>8, <1>9 DEF ExportsOK

LEMMA ExportsStep ==
  ASSUME ExportsOK, Exports!Next
  PROVE  ExportsOK'
<1>1. ASSUME NEW w \in Worker, Exports!Work(w) PROVE ExportsOK'
  BY <1>1, ClaimOK, AttemptOK, EndOK, DeleteOK DEF Exports!Work
<1>2. ASSUME NEW w \in Worker, Exports!Die(w) \/ Exports!SweepArtifacts(w) PROVE ExportsOK'
  BY <1>2, DieOK, SweepOK
<1> QED
  BY <1>1, <1>2, QueueOK, AgeOK, AbandonedOK DEF Exports!Next

LEMMA ExportsStutter == ExportsOK /\ UNCHANGED exportVars => ExportsOK'
  BY DEF ExportsOK, exportVars, OwnedOK, JobOK, SerialJob

\* With workers that fail, die and time out, a job is one worker's at a time and tried no more
\* than its retries allow, a completed one can be downloaded, and one that no time-out and no
\* death has touched has the outcome of its last attempt.
THEOREM LiveExportsHold == LiveSpec => []ExportsHold
<1>1. LiveInit => ExportsOK
  BY ExportsInit DEF LiveInit
<1>2. ExportsOK /\ [LiveNext]_<<part, vars, exportVars>> => ExportsOK'
  BY ExportsStep, ExportsStutter DEF LiveNext
<1>3. ASSUME ExportsOK PROVE ExportsHold
  <2>1. Exports!TypeOK /\ Exports!CompletedIsStored
    BY <1>3 DEF ExportsOK, JobOK, Exports!TypeOK, Exports!CompletedIsStored
  <2>2. Exports!OneOwner
    <3> SUFFICES ASSUME NEW j \in Job
                 PROVE  Exports!Cardinality({w \in Worker : workers[w].job = j}) <= 1
      BY <1>3 DEF Exports!OneOwner, ExportsOK, JobOK
    <3>1. \A v, w \in Worker : workers[v].job = j /\ workers[w].job = j => v = w
      BY <1>3, MCLiveAssumption DEF ExportsOK, Exports!ReportExportsAssumption
    <3>2. Exports!Cardinality({}) = 0
      BY FS_EmptySet DEF Cardinality, Exports!Cardinality
    <3>3. ASSUME NEW w \in Worker, workers[w].job = j
          PROVE  {v \in Worker : workers[v].job = j} = {w}
      BY <3>1, <3>3
    <3>4. \A w : Exports!Cardinality({w}) = 1
      BY FS_Singleton DEF Cardinality, Exports!Cardinality
    <3>5. CASE {v \in Worker : workers[v].job = j} = {}
      <4>1. Exports!Cardinality({v \in Worker : workers[v].job = j}) = 0
        BY <3>2, <3>5, Zenon
      <4> QED
        BY <4>1
    <3>6. CASE {v \in Worker : workers[v].job = j} # {}
      <4>1. PICK w \in Worker : workers[w].job = j
        BY <3>6
      <4>2. Exports!Cardinality({v \in Worker : workers[v].job = j}) = 1
        BY <3>3, <3>4, <4>1, Zenon
      <4> QED
        BY <4>2
    <3> QED
      BY <3>5, <3>6
  <2>3. Exports!SerialExport
    BY <1>3 DEF ExportsOK, SerialJob, Exports!SerialExport, Exports!Ended
  <2> QED
    BY <2>1, <2>2, <2>3 DEF ExportsHold
<1> QED
  BY <1>1, <1>2, <1>3, PTL DEF LiveSpec
=============================================================================
