--------------------------- MODULE CapacityProofs ---------------------------
(* Proofs about LoanCapacity, for every set of members and handlers, every  *)
(* product and every policy an administrator may want.                      *)
EXTENDS LoanCapacity, FiniteSetTheorems, WellFoundedInduction, TLAPS

(***************************************************************************)
(* Total is the sum of a fold over the members, which is a recursive        *)
(* function on their subsets.  That it has a value is shown for the subsets *)
(* of 0, 1, 2, ... members.                                                 *)
(***************************************************************************)
Part(f, g, s) ==
    IF s = {} THEN 0 ELSE f[CHOOSE m \in s : TRUE] + g[s \ {CHOOSE m \in s : TRUE}]
SumOf(f) == CHOOSE g : g = [s \in SUBSET Member |-> Part(f, g, s)]

LEMMA TotalIsSum == ASSUME NEW f PROVE Total(f) = SumOf(f)[Member]
  BY DEF Total, SumOf, Part, MapThenFoldSet

LEMMA Counting ==
  ASSUME NEW T, 0 \in T, \A n \in Nat : n \in T => n + 1 \in T
  PROVE  Nat \subseteq T
<1> DEFINE S == Nat \ T
<1> SUFFICES ASSUME S # {} PROVE FALSE
  OBVIOUS
<1>1. S \subseteq Nat /\ \A n \in Nat : n \in S <=> n \notin T
  OBVIOUS
<1> HIDE DEF S
<1>2. PICK m \in S : \A k \in S : ~(<<k, m>> \in OpToRel(<, Nat))
  BY <1>1, NatLessThanWellFounded, WFMin
<1>3. m \in Nat /\ m # 0
  BY <1>1
<1>4. m - 1 \in Nat /\ <<m - 1, m>> \in OpToRel(<, Nat)
  BY <1>3 DEF OpToRel
<1>5. m - 1 \in T
  BY <1>1, <1>2, <1>4
<1>6. (m - 1) + 1 \in T
  BY <1>4, <1>5
<1> QED
  BY <1>1, <1>3, <1>6

LEMMA Smaller ==
  ASSUME IsFiniteSet(Member), NEW s \in SUBSET Member
  PROVE  /\ Cardinality(s) \in Nat
         /\ s # {} => LET m == CHOOSE m \in s : TRUE
                      IN  /\ m \in s /\ s \ {m} \in SUBSET Member
                          /\ Cardinality(s \ {m}) = Cardinality(s) - 1
<1>1. IsFiniteSet(s)
  BY FS_Subset
<1> QED
  BY <1>1, FS_CardinalityType, FS_RemoveElement

\* What holds of {} and of a set with one more element than one it holds of, holds of all.
LEMMA Gathering ==
  ASSUME IsFiniteSet(Member), NEW T, {} \in T,
         \A s \in SUBSET Member : s # {} /\ s \ {CHOOSE m \in s : TRUE} \in T => s \in T
  PROVE  SUBSET Member \subseteq T
<1> DEFINE N == {n \in Nat : \A s \in SUBSET Member : Cardinality(s) = n => s \in T}
<1>1. 0 \in N
  BY Smaller, FS_EmptySet, FS_Subset
<1>2. ASSUME NEW n \in Nat, n \in N PROVE n + 1 \in N
  <2> SUFFICES ASSUME NEW s \in SUBSET Member, Cardinality(s) = n + 1 PROVE s \in T
    OBVIOUS
  <2>1. s # {}
    BY FS_EmptySet
  <2> DEFINE r == s \ {CHOOSE m \in s : TRUE}
  <2>2. r \in SUBSET Member /\ Cardinality(r) = n
    BY <2>1, Smaller
  <2>3. r \in T
    BY <1>2, <2>2
  <2> QED
    BY <2>1, <2>3
<1> HIDE DEF N
<1>3. Nat \subseteq N
  BY <1>1, <1>2, Counting
<1> USE DEF N
<1> QED
  BY <1>3, Smaller

LEMMA SumExists ==
  ASSUME IsFiniteSet(Member), NEW f
  PROVE  \E g : g = [s \in SUBSET Member |-> Part(f, g, s)]
<1> DEFINE Upto(g, n) == \A s \in SUBSET Member : Cardinality(s) <= n => g[s] = Part(f, g, s)
           T == {n \in Nat : \E g : Upto(g, n)}
<1>1. 0 \in T
  <2>1. Upto([s \in SUBSET Member |-> 0], 0)
    BY Smaller, FS_EmptySet, FS_Subset DEF Part
  <2> QED
    BY <2>1
<1>2. ASSUME NEW n \in Nat, n \in T PROVE n + 1 \in T
  <2>1. PICK g : Upto(g, n)
    BY <1>2
  <2> DEFINE h == [s \in SUBSET Member |-> IF Cardinality(s) <= n THEN g[s] ELSE Part(f, g, s)]
  <2>2. ASSUME NEW s \in SUBSET Member, Cardinality(s) <= n + 1 PROVE h[s] = Part(f, h, s)
    <3>1. h[s] = Part(f, g, s)
      BY <2>1
    <3>2. ASSUME s # {} PROVE h[s \ {CHOOSE m \in s : TRUE}] = g[s \ {CHOOSE m \in s : TRUE}]
      <4> DEFINE r == s \ {CHOOSE m \in s : TRUE}
      <4>1. r \in SUBSET Member /\ Cardinality(r) = Cardinality(s) - 1 /\ Cardinality(s) \in Nat
        BY <3>2, Smaller
      <4>2. Cardinality(r) <= n
        BY <2>2, <4>1
      <4> QED
        BY <4>1, <4>2
    <3> QED
      BY <3>1, <3>2 DEF Part
  <2> HIDE DEF h
  <2>3. Upto(h, n + 1)
    BY <2>2
  <2> QED
    BY <2>3
<1> HIDE DEF T
<1>3. Nat \subseteq T
  BY <1>1, <1>2, Counting
<1> USE DEF T
<1>4. Cardinality(Member) \in Nat
  BY FS_CardinalityType
<1>5. PICK g : Upto(g, Cardinality(Member))
  BY <1>3, <1>4
<1>6. \A s \in SUBSET Member : g[s] = Part(f, g, s)
  BY <1>5, FS_Subset
<1> DEFINE h == [s \in SUBSET Member |-> g[s]]
<1>7. ASSUME NEW s \in SUBSET Member PROVE h[s] = Part(f, h, s)
  <2>1. s # {} => s \ {CHOOSE m \in s : TRUE} \in SUBSET Member
    OBVIOUS
  <2> QED
    BY <1>6, <2>1 DEF Part
<1>8. h = [s \in SUBSET Member |-> h[s]]
  OBVIOUS
<1> HIDE DEF h
<1> QED
  BY <1>7, <1>8

\* What a sum is, member by member.
LEMMA SumStep ==
  ASSUME IsFiniteSet(Member), NEW f
  PROVE  \A s \in SUBSET Member : SumOf(f)[s] = Part(f, SumOf(f), s)
<1>1. SumOf(f) = [s \in SUBSET Member |-> Part(f, SumOf(f), s)]
  BY SumExists DEF SumOf
<1> DEFINE g == SumOf(f)
<1> HIDE DEF g
<1>2. g = [s \in SUBSET Member |-> Part(f, g, s)]
  BY <1>1 DEF g
<1>3. \A s \in SUBSET Member : g[s] = Part(f, g, s)
  BY <1>2
<1> QED
  BY <1>3 DEF g

LEMMA TotalType ==
  ASSUME IsFiniteSet(Member), NEW f \in [Member -> Nat]
  PROVE  Total(f) \in Nat
<1> DEFINE g == SumOf(f)
           T == {s \in SUBSET Member : g[s] \in Nat}
<1> HIDE DEF g
<1>1. \A s \in SUBSET Member : g[s] = Part(f, g, s)
  BY SumStep DEF g
<1>2. {} \in T
  BY <1>1 DEF Part
<1>3. ASSUME NEW s \in SUBSET Member, s # {}, s \ {CHOOSE m \in s : TRUE} \in T PROVE s \in T
  <2>1. PICK n \in s : n = CHOOSE i \in s : TRUE
    BY <1>3
  <2>2. g[s] = f[n] + g[s \ {n}] /\ g[s \ {n}] \in Nat
    BY <1>1, <1>3, <2>1 DEF Part
  <2> QED
    BY <2>2
<1> HIDE DEF T
<1>4. SUBSET Member \subseteq T
  BY <1>2, <1>3, Gathering
<1> USE DEF T
<1>5. g[Member] \in Nat
  BY <1>4
<1> QED
  BY <1>5, TotalIsSum DEF g

\* One member's share more is that much more in all.
LEMMA TotalPoint ==
  ASSUME IsFiniteSet(Member), NEW f \in [Member -> Nat], NEW h \in [Member -> Nat],
         NEW m \in Member, NEW x \in Nat, h[m] = f[m] + x,
         \A n \in Member \ {m} : h[n] = f[n]
  PROVE  Total(h) = Total(f) + x
<1> DEFINE g == SumOf(f)
           k == SumOf(h)
           T == {s \in SUBSET Member : /\ g[s] \in Nat
                                       /\ k[s] = g[s] + (IF m \in s THEN x ELSE 0)}
<1> HIDE DEF g, k
<1>1. \A s \in SUBSET Member : g[s] = Part(f, g, s) /\ k[s] = Part(h, k, s)
  BY SumStep DEF g, k
<1>2. {} \in T
  <2>1. g[{}] = 0 /\ k[{}] = 0
    BY <1>1 DEF Part
  <2> QED
    BY <2>1
<1>3. ASSUME NEW s \in SUBSET Member, s # {}, s \ {CHOOSE n \in s : TRUE} \in T PROVE s \in T
  <2>1. PICK n \in s : n = CHOOSE i \in s : TRUE
    BY <1>3
  <2>2. g[s] = f[n] + g[s \ {n}] /\ k[s] = h[n] + k[s \ {n}]
    BY <1>1, <1>3, <2>1 DEF Part
  <2>3. h[n] = f[n] + (IF n = m THEN x ELSE 0) /\ f[n] \in Nat
    OBVIOUS
  <2>4. g[s \ {n}] \in Nat /\ k[s \ {n}] = g[s \ {n}] + (IF m \in s \ {n} THEN x ELSE 0)
    BY <1>3, <2>1
  <2> QED
    BY <2>2, <2>3, <2>4
<1> HIDE DEF T
<1>4. SUBSET Member \subseteq T
  BY <1>2, <1>3, Gathering
<1> USE DEF T
<1>5. k[Member] = g[Member] + x
  BY <1>4
<1> QED
  BY <1>5, TotalIsSum DEF g, k

(***************************************************************************)
(* The limit, on rows of the types that the tables admit.                   *)
(***************************************************************************)
ProductRows == [multiple : Nat, most : Nat, least : Nat, buffer : 0..100]
BranchRows == [ratio : 0..100, reserve : Nat, freeze : Nat]
Pools == [deposits : Nat, reserved : Nat, active : Nat]

LEMMA PercentOf ==
  ASSUME NEW x \in Nat, NEW p \in 0..100
  PROVE  /\ x * p \in Nat /\ Percent(x, p) \in Nat
         /\ 100 * Percent(x, p) <= x * p + 50
         /\ 100 * (Percent(x, p) + 1) > x * p + 50
<1>1. x * p \in Nat
  OBVIOUS
<1>2. PICK y \in Nat : y = x * p
  BY <1>1
<1>3. Percent(x, p) = (y + 50) \div 100
  BY <1>2 DEF Percent
<1> QED
  BY <1>2, <1>3

LEMMA AvailableType == ASSUME NEW f \in Pools PROVE Available(f) \in Nat
  BY DEF Pools, Available, Minus

LEMMA LimitIsLendable ==
  ASSUME NEW own \in Nat, NEW f \in Pools, NEW b \in BranchRows, NEW p \in ProductRows
  PROVE  LET n == BorrowLimit(own, f, b, p)
         IN  n \in Nat /\ Lendable(n, own, f, b, p) /\ ~Lendable(n + 1, own, f, b, p)
<1>1. PICK n : n = BorrowLimit(own, f, b, p)
  OBVIOUS
<1>2. PICK v \in Nat : v = Available(f)
  BY AvailableType
<1>3. p.buffer \in 0..100 /\ 100 - p.buffer \in 0..100
  BY DEF ProductRows
<1>4. PICK free \in Nat : free = Percent(v, 100 - p.buffer)
  BY <1>3, PercentOf
<1>5. 100 * free <= v * (100 - p.buffer) + 50 /\ 100 * (free + 1) > v * (100 - p.buffer) + 50
  BY <1>3, <1>4, PercentOf
<1>6. /\ f.deposits \in Nat /\ f.active \in Nat
      /\ b.ratio \in 0..100 /\ b.reserve \in Nat
      /\ p.most \in Nat /\ p.multiple \in Nat
  BY DEF Pools, BranchRows, ProductRows
<1>7. PICK share \in Nat : share = Percent(f.deposits, b.ratio)
  BY <1>6, PercentOf
<1>8. /\ 100 * share <= f.deposits * b.ratio + 50
      /\ 100 * (share + 1) > f.deposits * b.ratio + 50
  BY <1>6, <1>7, PercentOf
<1>9. PICK cap \in Nat : cap = own * p.multiple
  BY <1>6
<1>10. PICK w \in Nat : w = v * (100 - p.buffer)
  BY <1>3
<1>11. PICK z \in Nat : z = f.deposits * b.ratio
  BY <1>6
<1> DEFINE room == Minus(share, f.active)
           left == Minus(f.deposits, b.reserve + f.active)
<1>12. n = Least(Least(cap, p.most), Least(Least(v, room), Least(left, free)))
  BY <1>1, <1>2, <1>4, <1>7, <1>9 DEF BorrowLimit, ComputeLiquidityLimit
<1>13. room \in Nat /\ left \in Nat
  BY <1>6 DEF Minus
<1>14. /\ n \in Nat /\ n <= cap /\ n <= p.most /\ n <= v /\ n <= room /\ n <= left /\ n <= free
       /\ n \in {cap, p.most, v, room, left, free}
  BY <1>6, <1>12, <1>13 DEF Least
<1>15. n > 0 => f.active + n + b.reserve <= f.deposits /\ f.active + n <= share
  BY <1>6, <1>14 DEF Minus
<1>16. ASSUME NEW x \in Nat
       PROVE  Lendable(x, own, f, b, p) <=>
                 /\ x <= cap /\ x <= p.most /\ x <= v /\ 100 * x <= w + 50
                 /\ x > 0 => /\ f.active + x + b.reserve <= f.deposits
                             /\ 100 * (f.active + x) <= z + 50
  BY <1>2, <1>9, <1>10, <1>11 DEF Lendable
<1>17. Lendable(n, own, f, b, p)
  BY <1>5, <1>6, <1>8, <1>10, <1>11, <1>14, <1>15, <1>16
<1>18. ~Lendable(n + 1, own, f, b, p)
  <2>1. n = room => 100 * (f.active + n + 1) > z + 50
    BY <1>6, <1>8, <1>11, <1>14 DEF Minus
  <2>2. n = left => f.active + (n + 1) + b.reserve > f.deposits
    BY <1>6, <1>14 DEF Minus
  <2>3. n = free => 100 * (n + 1) > w + 50
    BY <1>5, <1>10
  <2>4. n + 1 \in Nat /\ n + 1 > 0
    BY <1>14
  <2> QED
    BY <1>6, <1>14, <1>16, <2>1, <2>2, <2>3, <2>4
<1> QED
  BY <1>1, <1>14, <1>17, <1>18

\* A smaller amount keeps to the rules of the branch as well.
Keeps(x, deposits, active, b) ==
    x > 0 => active + x + b.reserve <= deposits /\ 100 * (active + x) <= deposits * b.ratio + 50

LEMMA KeepsLess ==
  ASSUME NEW own \in Nat, NEW f \in Pools, NEW b \in BranchRows, NEW p \in ProductRows,
         NEW x \in Nat, x <= BorrowLimit(own, f, b, p)
  PROVE  Keeps(x, f.deposits, f.active, b)
<1>1. PICK n \in Nat : n = BorrowLimit(own, f, b, p) /\ Lendable(n, own, f, b, p)
  BY LimitIsLendable
<1>2. f.deposits \in Nat /\ f.active \in Nat /\ b.ratio \in 0..100 /\ b.reserve \in Nat
  BY DEF Pools, BranchRows
<1>3. PICK z \in Nat : z = f.deposits * b.ratio
  BY <1>2
<1> QED
  BY <1>1, <1>2, <1>3 DEF Lendable, Keeps

(***************************************************************************)
(* The inductive invariant: what a handler holds are the rows it read, one  *)
(* of each kind at most, and it holds the ones its next statement uses.     *)
(***************************************************************************)
CapacityPC == { "idle", "load", "refresh", "answer", "product", "branch",
                "upsertProduct", "upsertBranch" }
CapacityCall == [ pc : CapacityPC, work : {"", "ask", "request", "pool"},
                  member : Member \cup {NoMember}, amount : Nat,
                  product : SUBSET ProductRows, branch : SUBSET BranchRows,
                  own : SUBSET Nat, fund : SUBSET Pools, done : SUBSET {"profile", "pool"} ]

One(S) == \A x, y \in S : x = y
InOrder(rows) == \A row \in rows : row.least <= row.most

CallOK(call) ==
    /\ One(call.product) /\ One(call.branch) /\ One(call.own) /\ One(call.fund)
    /\ call.pc = "idle" => call = Idle
    /\ call.pc \in {"refresh", "answer"} => call.product # {} /\ call.branch # {}
    /\ call.pc \in {"load", "refresh", "answer"} /\ call.work # "pool" => call.member \in Member
    /\ call.pc \in {"load", "refresh"} /\ call.work = "pool" => "profile" \in call.done
    /\ call.pc = "load" => call.own = {} /\ call.fund = {} /\ "pool" \notin call.done
    /\ call.pc = "load" /\ call.work # "pool" => call.done = {}
    /\ call.pc = "refresh" =>
          /\ "profile" \in call.done /\ call.work # "pool" => call.own # {}
          /\ "pool" \in call.done => call.fund # {}
    /\ call.pc = "answer" => call.work # "pool" /\ call.own # {} /\ call.fund # {}
    /\ call.pc = "upsertProduct" => InOrder(call.product)

RowsOK ==
    /\ {savings, loans, asked, known} \subseteq [Member -> Nat]
    /\ productRow \subseteq ProductRows /\ One(productRow) /\ InOrder(productRow)
    /\ branchRow \subseteq BranchRows /\ One(branchRow)
    /\ pool \in Pools
    /\ changes \in 0..MaxChanges /\ highest \in Nat /\ overlent \in BOOLEAN /\ loose \in BOOLEAN

CallsOK == capCalls \in [Call -> CapacityCall] /\ \A c \in Call : CallOK(capCalls[c])

\* While nothing has moved under an evaluation or a request: one handler is at work, what it
\* holds is what the tables say, and the one request let through keeps to the rules.
Branch == NormalizeBranchLiquidityPolicy(branchRow)
Fits(x) == Keeps(x, Total(savings), Total(loans), Branch)

FundOK(call) ==
    \A f \in call.fund :
        /\ f.deposits = Total(savings) /\ f.active = Total(loans)
        /\ "pool" \notin call.done => f.reserved = Most(pool.reserved, Branch.reserve)

Alone(call) == call.pc \in {"refresh", "answer"} => call.branch = {Branch} /\ FundOK(call)

Still ==
    /\ ~overlent /\ pool.reserved = highest
    /\ \A c, d \in Call : Busy(c) /\ Busy(d) => c = d
    /\ \A m, n \in Member : asked[m] > 0 /\ asked[n] > 0 => m = n
    /\ \A m \in Member : Fits(asked[m])
    /\ \A c \in Call : Alone(capCalls[c])

IInv == CapacityAssumption /\ RowsOK /\ CallsOK /\ (~loose => Still)

(***************************************************************************)
(* Lemmas about one step.                                                   *)
(***************************************************************************)
LEMMA IdleOK == Idle \in CapacityCall /\ CallOK(Idle) /\ Alone(Idle)
<1>1. /\ Idle.pc = "idle" /\ Idle.product = {} /\ Idle.branch = {} /\ Idle.own = {}
      /\ Idle.fund = {}
  BY DEF Idle
<1>2. Idle \in CapacityCall
  BY DEF Idle, CapacityCall, CapacityPC
<1> QED
  BY <1>1, <1>2 DEF CallOK, Alone, One

LEMMA PoliciesInForce ==
  ASSUME IInv
  PROVE  Branch \in BranchRows /\ NormalizeLoanProductPolicy(productRow) \in ProductRows
<1>1. DefaultBranch \in BranchRows
  BY DEF DefaultBranch, BranchRows
<1>2. branchRow # {} => (CHOOSE x \in branchRow : TRUE) \in branchRow
  OBVIOUS
<1>3. Branch \in BranchRows
  BY <1>1, <1>2 DEF Branch, NormalizeBranchLiquidityPolicy, IInv, RowsOK
<1>4. productRow # {} => \E x \in productRow : x = CHOOSE y \in productRow : TRUE
  OBVIOUS
<1>5. NormalizeLoanProductPolicy(productRow) \in ProductRows
  <2>1. Product \in ProductRows
    BY DEF IInv, CapacityAssumption, ProductRows
  <2>2. ASSUME NEW p \in ProductRows
        PROVE  [p EXCEPT !.most = Least(@, Product.most), !.least = Most(@, Product.least)]
                   \in ProductRows
    BY <2>1 DEF ProductRows, Least, Most
  <2> QED
    BY <1>4, <2>1, <2>2 DEF NormalizeLoanProductPolicy, IInv, RowsOK
<1> QED
  BY <1>3, <1>5

LEMMA TotalTypes == ASSUME IInv PROVE Total(savings) \in Nat /\ Total(loans) \in Nat
  BY TotalType DEF IInv, CapacityAssumption, RowsOK

LEMMA CallsKept ==
  ASSUME CallsOK, NEW c \in Call, NEW new \in CapacityCall, CallOK(new),
         capCalls' = [capCalls EXCEPT ![c] = new]
  PROVE  CallsOK'
<1>1. capCalls' \in [Call -> CapacityCall]
  BY DEF CallsOK
<1>2. \A d \in Call : CallOK(capCalls'[d])
  BY DEF CallsOK
<1> QED
  BY <1>1, <1>2 DEF CallsOK, CallOK, Idle

LEMMA RowsKept ==
  ASSUME RowsOK, UNCHANGED <<money, policies, sums, changes, highest, overlent>>,
         loose' \in BOOLEAN
  PROVE  RowsOK'
  BY DEF RowsOK, money, policies, sums

\* A step of one handler that leaves the tables alone.
LEMMA StillKept ==
  ASSUME CallsOK, Still, UNCHANGED <<money, branchRow, pool, highest, overlent>>,
         NEW c \in Call, NEW new \in CapacityCall, capCalls' = [capCalls EXCEPT ![c] = new],
         Alone(new), new.pc # "idle" /\ ~Busy(c) => \A d \in Call : ~Busy(d)
  PROVE  Still'
<1>1. \A d \in Call : capCalls'[d] = IF d = c THEN new ELSE capCalls[d]
  BY DEF CallsOK
<1>2. \A d, e \in Call : Busy(d)' /\ Busy(e)' => d = e
  <2> SUFFICES ASSUME NEW d \in Call, NEW e \in Call, Busy(d)', Busy(e)' PROVE d = e
    OBVIOUS
  <2>1. d # c => Busy(d)
    BY <1>1 DEF Busy
  <2>2. e # c => Busy(e)
    BY <1>1 DEF Busy
  <2>3. d = c \/ e = c => new.pc # "idle"
    BY <1>1 DEF Busy
  <2> QED
    BY <2>1, <2>2, <2>3 DEF Still
<1>3. Branch' = Branch /\ Total(savings)' = Total(savings) /\ Total(loans)' = Total(loans)
  BY DEF Branch, NormalizeBranchLiquidityPolicy, Total, MapThenFoldSet, DefaultBranch, money
<1>4. \A m \in Member : Fits(asked[m])'
  BY <1>3 DEF Fits, Keeps, Still, money
<1>5. \A call : Alone(call) => Alone(call)'
  BY <1>3 DEF Alone, FundOK
<1>6. \A d \in Call : Alone(capCalls[d])'
  BY <1>1, <1>5 DEF Still
<1> QED
  BY <1>2, <1>4, <1>6 DEF Still, money

LEMMA LocalStep ==
  ASSUME IInv, NEW c \in Call, NEW new \in CapacityCall, CallOK(new),
         capCalls' = [capCalls EXCEPT ![c] = new],
         UNCHANGED <<money, policies, sums, changes, highest, overlent>>,
         loose' \in BOOLEAN, loose => loose',
         ~loose' => Alone(new) /\ (new.pc # "idle" /\ ~Busy(c) => \A d \in Call : ~Busy(d))
  PROVE  IInv'
<1>1. RowsOK'
  BY RowsKept DEF IInv
<1>2. CallsOK'
  BY CallsKept DEF IInv
<1>3. ~loose' => Still'
  BY StillKept DEF IInv, policies, sums
<1> QED
  BY <1>1, <1>2, <1>3 DEF IInv, CapacityAssumption

LEMMA CallTypes ==
  ASSUME IInv, NEW c \in Call
  PROVE  capCalls[c] \in CapacityCall /\ CallOK(capCalls[c]) /\ (~loose => Alone(capCalls[c]))
  BY DEF IInv, CallsOK, Still

LEMMA EnterInv ==
  ASSUME IInv, NEW c \in Call, NEW call \in CapacityCall, CallOK(call), Enter(c, call),
         call.pc \notin {"refresh", "answer"}
  PROVE  IInv'
<1>1. loose' \in BOOLEAN /\ (loose => loose') /\ (~loose' => \A d \in Call : ~Busy(d))
  BY DEF Enter, IInv, RowsOK
<1> QED
  BY <1>1, LocalStep DEF Enter, Alone

LEMMA RequestsInv ==
  ASSUME IInv, NEW c \in Call,
         \/ \E m \in Member : \/ CalculateBorrowLimit(c, m)
                              \/ \E amount \in 1..MaxMoney : ValidateRequest(c, m, amount)
         \/ GetBranchFundPool(c) \/ UpdateLoanProductPolicy(c) \/ UpdateBranchLiquidityPolicy(c)
  PROVE  IInv'
<1>1. ASSUME NEW m \in Member, CalculateBorrowLimit(c, m) PROVE IInv'
  <2> DEFINE call == [Idle EXCEPT !.pc = "load", !.work = "ask", !.member = m]
  <2>1. call \in CapacityCall /\ CallOK(call) /\ call.pc = "load"
    BY DEF Idle, CapacityCall, CapacityPC, CallOK, One
  <2> QED
    BY <1>1, <2>1, EnterInv DEF CalculateBorrowLimit
<1>2. ASSUME NEW m \in Member, NEW amount \in 1..MaxMoney, ValidateRequest(c, m, amount)
      PROVE  IInv'
  <2> DEFINE call == [ Idle EXCEPT !.pc = "load", !.work = "request", !.member = m,
                                   !.amount = amount ]
  <2>1. amount \in Nat
    BY DEF IInv, CapacityAssumption
  <2>2. call \in CapacityCall /\ CallOK(call) /\ call.pc = "load"
    BY <2>1 DEF Idle, CapacityCall, CapacityPC, CallOK, One
  <2> QED
    BY <1>2, <2>2, EnterInv DEF ValidateRequest
<1>3. ASSUME GetBranchFundPool(c) PROVE IInv'
  <2> DEFINE call == [Idle EXCEPT !.pc = "load", !.work = "pool", !.done = {"profile"}]
  <2>1. call \in CapacityCall /\ CallOK(call) /\ call.pc = "load"
    BY DEF Idle, CapacityCall, CapacityPC, CallOK, One
  <2> QED
    BY <1>3, <2>1, EnterInv DEF GetBranchFundPool
<1>4. ASSUME NEW pc \in {"product", "branch"}, Enter(c, [Idle EXCEPT !.pc = pc]) PROVE IInv'
  <2> DEFINE call == [Idle EXCEPT !.pc = pc]
  <2>1. call \in CapacityCall /\ CallOK(call) /\ call.pc = pc
    BY DEF Idle, CapacityCall, CapacityPC, CallOK, One
  <2> QED
    BY <1>4, <2>1, EnterInv
<1> QED
  BY <1>1, <1>2, <1>3, <1>4 DEF UpdateLoanProductPolicy, UpdateBranchLiquidityPolicy

LEMMA LoadInv == ASSUME IInv, NEW c \in Call, LoadPolicies(c) PROVE IInv'
<1> DEFINE call == capCalls[c]
           new == [call EXCEPT !.pc = "refresh",
                      !.product = {NormalizeLoanProductPolicy(productRow)},
                      !.branch = {Branch}]
<1>1. call \in CapacityCall /\ CallOK(call) /\ call.pc = "load"
  BY CallTypes DEF LoadPolicies
<1>2. /\ new \in CapacityCall /\ new.fund = {} /\ new.branch = {Branch} /\ new.pc = "refresh"
      /\ CallOK(new)
  BY ZenonT(40), <1>1, PoliciesInForce DEF CapacityCall, CapacityPC, CallOK, One
<1>3. capCalls' = [capCalls EXCEPT ![c] = new]
  BY DEF LoadPolicies, Branch
<1>4. Alone(new) /\ Busy(c)
  BY <1>1, <1>2 DEF Alone, FundOK, Busy
<1>5. loose' = loose /\ loose \in BOOLEAN
      /\ UNCHANGED <<money, policies, sums, changes, highest, overlent>>
  BY DEF LoadPolicies, history, IInv, RowsOK
<1> HIDE DEF new, call
<1> QED
  BY <1>2, <1>3, <1>4, <1>5, LocalStep

LEMMA ReadMemberInv == ASSUME IInv, NEW c \in Call, ReadMember(c) PROVE IInv'
<1> DEFINE call == capCalls[c]
           new == [call EXCEPT !.own = {savings[call.member]}]
<1>1. call \in CapacityCall /\ CallOK(call) /\ (~loose => Alone(call))
  BY CallTypes
<1>2. savings[call.member] \in Nat
  BY <1>1 DEF ReadMember, CallOK, IInv, RowsOK
<1>3. new \in CapacityCall /\ new.fund = call.fund /\ new.branch = call.branch /\ CallOK(new)
      /\ new.pc = "refresh" /\ new.done = call.done
  BY ZenonT(40), <1>1, <1>2 DEF ReadMember, CapacityCall, CallOK, One
<1>4. capCalls' = [capCalls EXCEPT ![c] = new]
  BY DEF ReadMember
<1>5. (~loose => Alone(new)) /\ Busy(c)
  BY <1>1, <1>3 DEF ReadMember, Alone, FundOK, Busy
<1>6. loose' = loose /\ loose \in BOOLEAN
      /\ UNCHANGED <<money, policies, sums, changes, highest, overlent>>
  BY DEF ReadMember, history, IInv, RowsOK
<1> HIDE DEF new, call
<1> QED
  BY <1>3, <1>4, <1>5, <1>6, LocalStep

LEMMA ReadPoolInv == ASSUME IInv, NEW c \in Call, ReadPool(c) PROVE IInv'
<1> DEFINE call == capCalls[c]
           f == [ deposits |-> Total(savings), reserved |-> ReservedLiquidity(c),
                  active |-> Total(loans) ]
           new == [call EXCEPT !.fund = {f}]
<1>1. call \in CapacityCall /\ CallOK(call) /\ (~loose => Alone(call))
  BY CallTypes
<1>2. PICK b \in call.branch : b = CHOOSE x \in call.branch : TRUE
  BY <1>1 DEF ReadPool, CallOK
<1>3. f.reserved = Most(pool.reserved, b.reserve)
  BY <1>2 DEF ReservedLiquidity
<1>4. b.reserve \in Nat /\ pool.reserved \in Nat
  BY <1>1 DEF CapacityCall, BranchRows, IInv, RowsOK, Pools
<1>5. f \in Pools
  BY <1>3, <1>4, TotalTypes DEF Pools, Most
<1>6. f.deposits = Total(savings) /\ f.active = Total(loans)
  OBVIOUS
<1> HIDE DEF f
<1>7. new \in CapacityCall /\ new.fund = {f} /\ new.branch = call.branch /\ CallOK(new)
      /\ new.pc = "refresh" /\ new.done = call.done
  BY ZenonT(40), <1>1, <1>5 DEF ReadPool, CapacityCall, CallOK, One
<1>8. capCalls' = [capCalls EXCEPT ![c] = new]
  BY DEF ReadPool, f
<1>9. (~loose => Alone(new)) /\ Busy(c)
  BY <1>1, <1>2, <1>3, <1>6, <1>7 DEF ReadPool, Alone, FundOK, Busy
<1>10. loose' = loose /\ loose \in BOOLEAN
      /\ UNCHANGED <<money, policies, sums, changes, highest, overlent>>
  BY DEF ReadPool, history, IInv, RowsOK
<1> HIDE DEF new, call
<1> QED
  BY <1>7, <1>8, <1>9, <1>10, LocalStep

LEMMA AuditInv == ASSUME IInv, NEW c \in Call, RecordCapacityAudit(c) PROVE IInv'
<1> DEFINE call == capCalls[c]
           new == [call EXCEPT !.pc = "answer"]
<1>1. call \in CapacityCall /\ CallOK(call) /\ (~loose => Alone(call)) /\ call.pc = "refresh"
      /\ call.done = {"profile", "pool"}
  BY CallTypes DEF RecordCapacityAudit
<1>2. loose' = loose /\ loose \in BOOLEAN /\ Busy(c)
      /\ UNCHANGED <<money, policies, sums, changes, highest, overlent>>
  BY <1>1 DEF RecordCapacityAudit, history, IInv, RowsOK, Busy
<1>3. CASE call.work = "pool"
  BY <1>2, <1>3, IdleOK, LocalStep DEF RecordCapacityAudit, Return, Idle
<1>4. CASE call.work # "pool"
  <2>1. new \in CapacityCall /\ CallOK(new) /\ new.fund = call.fund
        /\ new.branch = call.branch /\ new.done = call.done
    BY <1>1, <1>4 DEF CapacityCall, CapacityPC, CallOK
  <2>2. ~loose => Alone(new)
    BY <1>1, <2>1 DEF Alone, FundOK
  <2>3. capCalls' = [capCalls EXCEPT ![c] = new]
    BY <1>4 DEF RecordCapacityAudit, Goto
  <2> HIDE DEF new, call
  <2> QED
    BY <1>2, <2>1, <2>2, <2>3, LocalStep
<1> QED
  BY <1>3, <1>4

LEMMA MergeType ==
  ASSUME NEW R, R \in {ProductRows, BranchRows}, NEW row \in R, NEW want \in R, NEW fields
  PROVE  Merge(row, want, fields) \in R
<1>1. CASE R = ProductRows
  <2>1. DOMAIN row = {"multiple", "most", "least", "buffer"}
    BY <1>1 DEF ProductRows
  <2> QED
    BY <1>1, <2>1 DEF ProductRows, Merge
<1>2. CASE R = BranchRows
  <2>1. DOMAIN row = {"ratio", "reserve", "freeze"}
    BY <1>2 DEF BranchRows
  <2> QED
    BY <1>2, <2>1 DEF BranchRows, Merge
<1> QED
  BY <1>1, <1>2

LEMMA ReadPoliciesInv ==
  ASSUME IInv, NEW c \in Call, ReadProductPolicy(c) \/ ReadBranchPolicy(c)
  PROVE  IInv'
<1> DEFINE call == capCalls[c]
<1>1. call \in CapacityCall /\ CallOK(call) /\ call.pc \in {"product", "branch"}
  BY CallTypes DEF ReadProductPolicy, ReadBranchPolicy
<1>2. loose' = loose /\ loose \in BOOLEAN /\ Busy(c)
      /\ UNCHANGED <<money, policies, sums, changes, highest, overlent>>
  BY <1>1 DEF ReadProductPolicy, ReadBranchPolicy, history, IInv, RowsOK, Busy
<1>3. ASSUME NEW new \in CapacityCall, CallOK(new), capCalls' = [capCalls EXCEPT ![c] = new],
             new.pc \notin {"refresh", "answer"}
      PROVE  IInv'
  BY <1>2, <1>3, LocalStep DEF Alone
<1>4. CASE ReadProductPolicy(c)
  <2>1. PICK want \in ProductPolicy, fields \in {{"most"}, {"least", "multiple", "buffer"}} :
            LET next == Merge(NormalizeLoanProductPolicy(productRow), want, fields) IN
            IF next.most < next.least THEN Return(c)
            ELSE capCalls' = [capCalls EXCEPT ![c].pc = "upsertProduct", ![c].product = {next}]
    BY <1>4 DEF ReadProductPolicy
  <2> DEFINE next == Merge(NormalizeLoanProductPolicy(productRow), want, fields)
             new == [call EXCEPT !.pc = "upsertProduct", !.product = {next}]
  <2>2. want \in ProductRows
    BY DEF IInv, CapacityAssumption, ProductRows
  <2>3. next \in ProductRows
    BY <2>2, MergeType, PoliciesInForce
  <2>4. CASE next.most < next.least
    BY <1>3, <2>1, <2>4, IdleOK DEF Return, Idle
  <2>5. CASE ~(next.most < next.least)
    <3>1. next.least <= next.most
      BY <2>3, <2>5 DEF ProductRows
    <3>2. capCalls' = [capCalls EXCEPT ![c] = new]
      BY <2>1, <2>5
    <3> HIDE DEF next
    <3>3. new \in CapacityCall /\ CallOK(new) /\ new.pc = "upsertProduct"
      BY ZenonT(40), <1>1, <2>3, <3>1 DEF CapacityCall, CapacityPC, CallOK, One, InOrder
    <3> HIDE DEF new, call
    <3> QED
      BY <1>3, <3>2, <3>3
  <2> QED
    BY <2>4, <2>5
<1>5. CASE ReadBranchPolicy(c)
  <2>1. PICK want \in BranchPolicy, fields \in {{"ratio"}, {"reserve", "freeze"}} :
            capCalls' = [capCalls EXCEPT ![c].pc = "upsertBranch",
                            ![c].branch = {Merge(Branch, want, fields)}]
    BY <1>5 DEF ReadBranchPolicy, Branch
  <2> DEFINE next == Merge(Branch, want, fields)
             new == [call EXCEPT !.pc = "upsertBranch", !.branch = {next}]
  <2>2. want \in BranchRows
    BY DEF IInv, CapacityAssumption, BranchRows
  <2>3. next \in BranchRows
    BY <2>2, MergeType, PoliciesInForce
  <2>4. capCalls' = [capCalls EXCEPT ![c] = new]
    BY <2>1
  <2> HIDE DEF next
  <2>5. new \in CapacityCall /\ CallOK(new) /\ new.pc = "upsertBranch"
    BY ZenonT(40), <1>1, <2>3 DEF CapacityCall, CapacityPC, CallOK, One
  <2> HIDE DEF new, call
  <2> QED
    BY <1>3, <2>4, <2>5
<1> QED
  BY <1>4, <1>5

LEMMA FailInv == ASSUME IInv, NEW c \in Call, Fail(c) PROVE IInv'
<1>1. loose' = loose /\ loose \in BOOLEAN
      /\ UNCHANGED <<money, policies, sums, changes, highest, overlent>>
  BY DEF Fail, history, IInv, RowsOK
<1> QED
  BY <1>1, IdleOK, LocalStep DEF Fail, Return, Idle

LEMMA ProfileInv == ASSUME IInv, NEW c \in Call, RefreshMemberFinancialProfile(c) PROVE IInv'
<1> DEFINE call == capCalls[c]
           new == [call EXCEPT !.done = @ \cup {"profile"}]
<1>1. call \in CapacityCall /\ CallOK(call) /\ (~loose => Alone(call)) /\ call.pc = "refresh"
      /\ "profile" \notin call.done
  BY CallTypes DEF RefreshMemberFinancialProfile
<1>2. PICK own \in call.own : known' = [known EXCEPT ![call.member] = own]
  BY DEF RefreshMemberFinancialProfile
<1>3. capCalls' = [capCalls EXCEPT ![c] = new]
  BY DEF RefreshMemberFinancialProfile
<1>4. own \in Nat
  BY <1>1 DEF CapacityCall
<1>5. /\ new \in CapacityCall /\ CallOK(new) /\ new.fund = call.fund
      /\ new.branch = call.branch /\ ("pool" \in new.done <=> "pool" \in call.done)
      /\ new.pc = "refresh"
  BY <1>1, <1>2 DEF CapacityCall, CallOK
<1>6. (~loose => Alone(new)) /\ Busy(c)
  BY <1>1, <1>5 DEF Alone, FundOK, Busy
<1>7. RowsOK'
  <2>1. known' \in [Member -> Nat]
    BY <1>2, <1>4 DEF IInv, RowsOK
  <2> QED
    BY <2>1 DEF RefreshMemberFinancialProfile, IInv, RowsOK, money, policies, history
<1>8. UNCHANGED <<money, branchRow, pool, highest, overlent, loose>>
  BY DEF RefreshMemberFinancialProfile, policies, history
<1> HIDE DEF new, call
<1>9. CallsOK' /\ (~loose' => Still')
  BY <1>3, <1>5, <1>6, <1>8, CallsKept, StillKept DEF IInv
<1> QED
  BY <1>7, <1>9 DEF IInv, CapacityAssumption

LEMMA PoolInv == ASSUME IInv, NEW c \in Call, RefreshBranchFundPool(c) PROVE IInv'
<1> DEFINE call == capCalls[c]
<1> PICK new : new = [call EXCEPT !.done = @ \cup {"pool"}]
  OBVIOUS
<1>1. call \in CapacityCall /\ CallOK(call) /\ (~loose => Alone(call)) /\ call.pc = "refresh"
      /\ "pool" \notin call.done
  BY CallTypes DEF RefreshBranchFundPool
<1>2. PICK f \in call.fund : pool' = f
  BY DEF RefreshBranchFundPool
<1>3. PICK b \in call.branch : highest' = Most(highest, b.reserve)
  BY DEF RefreshBranchFundPool
<1>4. capCalls' = [capCalls EXCEPT ![c] = new]
  BY DEF RefreshBranchFundPool
<1>5. f \in Pools /\ b \in BranchRows
  BY <1>1 DEF CapacityCall
<1>6. /\ new \in CapacityCall /\ CallOK(new) /\ new.fund = call.fund
      /\ new.branch = call.branch /\ "pool" \in new.done /\ new.pc = "refresh"
  BY <1>1, <1>2 DEF CapacityCall, CallOK
<1>7. highest' \in Nat
  BY <1>3, <1>5 DEF IInv, RowsOK, Most, BranchRows
<1>8. UNCHANGED <<money, policies, known, changes, overlent, loose>>
  BY DEF RefreshBranchFundPool
<1>9. RowsOK'
  BY <1>2, <1>5, <1>7, <1>8 DEF IInv, RowsOK, money, policies
<1>10. CallsOK'
  BY <1>4, <1>6, CallsKept DEF IInv
<1>11. ASSUME ~loose' PROVE Still'
  <2>1. Still /\ Alone(call) /\ ~loose
    BY <1>1, <1>8, <1>11 DEF IInv
  <2>2. b = Branch /\ f.reserved = Most(pool.reserved, Branch.reserve)
    BY <1>1, <2>1 DEF Alone, FundOK
  <2>3. pool'.reserved = highest'
    BY <1>2, <1>3, <2>1, <2>2 DEF Still
  <2>4. \A d \in Call : capCalls'[d] = IF d = c THEN new ELSE capCalls[d]
    BY <1>4 DEF IInv, CallsOK
  <2>5. \A d \in Call : d # c => ~Busy(d)
    BY <1>1, <2>1 DEF Still, Busy
  <2>6. \A d \in Call : d # c => capCalls'[d].pc = "idle"
    BY <2>4, <2>5 DEF Busy
  <2>7. \A d, e \in Call : Busy(d)' /\ Busy(e)' => d = e
    BY <2>6 DEF Busy
  <2>8. Branch' = Branch /\ Total(savings)' = Total(savings) /\ Total(loans)' = Total(loans)
    BY <1>8 DEF Branch, NormalizeBranchLiquidityPolicy, Total, MapThenFoldSet, DefaultBranch,
                money, policies
  <2>9. \A m \in Member : Fits(asked[m])'
    BY <1>8, <2>1, <2>8 DEF Fits, Keeps, Still, money
  <2>10. /\ new.branch = {Branch'}
         /\ \A g \in new.fund : g.deposits = Total(savings)' /\ g.active = Total(loans)'
    BY <1>1, <1>6, <2>1, <2>8 DEF Alone, FundOK
  <2>11. \A d \in Call : Alone(capCalls[d])'
    BY <1>6, <2>4, <2>6, <2>10 DEF Alone, FundOK
  <2> QED
    BY <1>8, <2>1, <2>3, <2>7, <2>9, <2>11 DEF Still, money
<1> QED
  BY <1>9, <1>10, <1>11 DEF IInv, CapacityAssumption

\* The limit of a handler is that of the rows it holds.
LEMMA LimitOfRows ==
  ASSUME IInv, NEW c \in Call, capCalls[c].pc = "answer",
         NEW own \in capCalls[c].own, NEW f \in capCalls[c].fund,
         NEW b \in capCalls[c].branch, NEW p \in capCalls[c].product
  PROVE  /\ LimitOf(c) = BorrowLimit(own, f, b, p)
         /\ own \in Nat /\ f \in Pools /\ b \in BranchRows /\ p \in ProductRows
<1>1. capCalls[c] \in CapacityCall /\ CallOK(capCalls[c])
  BY CallTypes
<1>2. /\ capCalls[c].own = {own} /\ capCalls[c].fund = {f}
      /\ capCalls[c].branch = {b} /\ capCalls[c].product = {p}
  BY <1>1 DEF CallOK, One
<1>3. { BorrowLimit(x, y, z, q) : x \in {own}, y \in {f}, z \in {b}, q \in {p} }
          = {BorrowLimit(own, f, b, p)}
  OBVIOUS
<1>4. LimitOf(c) = BorrowLimit(own, f, b, p)
  BY <1>2, <1>3 DEF LimitOf
<1> QED
  BY <1>1, <1>4 DEF CapacityCall

LEMMA AnswerInv == ASSUME IInv, NEW c \in Call, Answer(c) PROVE IInv'
<1> DEFINE call == capCalls[c]
           m == call.member
<1>1. call \in CapacityCall /\ CallOK(call) /\ (~loose => Alone(call)) /\ call.pc = "answer"
      /\ m \in Member /\ Busy(c)
  BY CallTypes DEF Answer, CallOK, Busy
<1>2. capCalls' = [capCalls EXCEPT ![c] = Idle]
      /\ UNCHANGED <<savings, loans, policies, sums, changes, highest, overlent>>
  BY DEF Answer, Return
<1>3. CASE UNCHANGED <<asked, loose>>
  <2>1. UNCHANGED <<money, policies, sums, changes, highest, overlent>>
    BY <1>2, <1>3 DEF money
  <2>2. loose' = loose /\ loose \in BOOLEAN /\ Idle.pc = "idle"
    BY <1>3 DEF IInv, RowsOK, Idle
  <2> QED
    BY <1>2, <2>1, <2>2, IdleOK, LocalStep
<1>4. CASE /\ Allowed(c, call.amount) /\ asked' = [asked EXCEPT ![m] = call.amount]
           /\ loose' = (loose \/ \E n \in Member : asked[n] > 0)
  <2>1. call.amount \in Nat
    BY <1>1 DEF CapacityCall
  <2>2. RowsOK'
    BY <1>1, <1>2, <1>4, <2>1 DEF IInv, RowsOK, policies, sums
  <2>3. CallsOK'
    BY <1>2, IdleOK, CallsKept DEF IInv
  <2>4. ASSUME ~loose' PROVE Still'
    <3>1. Still /\ Alone(call) /\ \A n \in Member : ~(asked[n] > 0)
      BY <1>1, <1>4, <2>4 DEF IInv
    <3>2. PICK own \in call.own, f \in call.fund, b \in call.branch, p \in call.product : TRUE
      BY <1>1 DEF CallOK
    <3>3. /\ LimitOf(c) = BorrowLimit(own, f, b, p)
          /\ own \in Nat /\ f \in Pools /\ b \in BranchRows /\ p \in ProductRows
      BY <1>1, LimitOfRows
    <3>4. call.amount <= BorrowLimit(own, f, b, p)
      BY <1>4, <3>3 DEF Allowed
    <3>5. Keeps(call.amount, f.deposits, f.active, b)
      BY <2>1, <3>3, <3>4, KeepsLess
    <3>6. b = Branch /\ f.deposits = Total(savings) /\ f.active = Total(loans)
      BY <1>1, <3>1 DEF Alone, FundOK
    <3>7. Fits(call.amount)
      BY <3>5, <3>6 DEF Fits
    <3>8. Branch' = Branch /\ Total(savings)' = Total(savings) /\ Total(loans)' = Total(loans)
      BY <1>2 DEF Branch, NormalizeBranchLiquidityPolicy, Total, MapThenFoldSet, DefaultBranch,
                  policies
    <3>9. \A n \in Member : asked'[n] = IF n = m THEN call.amount ELSE asked[n]
      BY <1>4 DEF IInv, RowsOK
    <3>10. ASSUME NEW n \in Member PROVE Fits(asked[n])'
      <4>1. Fits(asked'[n])
        BY <3>1, <3>7, <3>9 DEF Still
      <4> QED
        BY <3>8, <4>1 DEF Fits, Keeps
    <3>11. \A n, k \in Member : asked'[n] > 0 /\ asked'[k] > 0 => n = k
      BY <3>1, <3>9
    <3>12. \A d \in Call : capCalls'[d].pc = "idle"
      <4>1. \A d \in Call : d # c => ~Busy(d)
        BY <1>1, <3>1 DEF Still
      <4> QED
        BY <1>2, <4>1 DEF Busy, Idle, IInv, CallsOK
    <3>13. \A d \in Call : ~Busy(d)' /\ Alone(capCalls[d])'
      BY <3>12 DEF Alone, Busy
    <3> QED
      BY <1>2, <3>1, <3>10, <3>11, <3>13 DEF Still, sums
  <2> QED
    BY <2>2, <2>3, <2>4 DEF IInv, CapacityAssumption
<1> QED
  BY <1>3, <1>4 DEF Answer

\* A step that moves what an evaluation or a request rests on.
LEMMA Moved ==
  ASSUME IInv, RowsOK', CallsOK', UNCHANGED <<asked, pool, highest, overlent>>,
         ~loose' => ~Unsettled /\ ~loose /\ \A d \in Call : capCalls'[d].pc = "idle"
  PROVE  IInv'
<1>1. ASSUME ~loose' PROVE Still'
  <2>1. Still /\ \A m \in Member : asked[m] = 0
    BY <1>1 DEF Unsettled, IInv, RowsOK
  <2>2. \A m \in Member : Fits(asked[m])'
    <3>1. \A m \in Member : ~(asked'[m] > 0)
      BY <2>1
    <3> QED
      BY <3>1 DEF Fits, Keeps
  <2>3. \A d \in Call : ~Busy(d)' /\ Alone(capCalls[d])'
    BY <1>1 DEF Busy, Alone
  <2> QED
    BY <2>1, <2>2, <2>3 DEF Still
<1> QED
  BY <1>1 DEF IInv, CapacityAssumption

LEMMA ChangeRows ==
  ASSUME IInv, NEW others, Change(others)
  PROVE  /\ changes' \in 0..MaxChanges /\ loose' \in BOOLEAN
         /\ ~loose' => ~loose /\ ~Unsettled /\ \A d \in others : ~Busy(d)
<1>1. changes' \in 0..MaxChanges
  BY DEF Change, IInv, RowsOK, CapacityAssumption
<1>2. loose' = (loose \/ Unsettled \/ \E d \in others : Busy(d)) /\ loose \in BOOLEAN
  BY DEF Change, IInv, RowsOK
<1> QED
  BY <1>1, <1>2

LEMMA UpsertInv == ASSUME IInv, NEW c \in Call, UpsertPolicy(c) PROVE IInv'
<1>1. capCalls[c] \in CapacityCall /\ CallOK(capCalls[c])
  BY CallTypes
<1>2. capCalls' = [capCalls EXCEPT ![c] = Idle] /\ CallsOK'
  BY IdleOK, CallsKept DEF UpsertPolicy, Return, IInv
<1>3. RowsOK'
  <2>1. UNCHANGED <<savings, loans, asked, pool, known, highest, overlent>>
        /\ changes' \in 0..MaxChanges /\ loose' \in BOOLEAN
    BY ChangeRows DEF UpsertPolicy, money, sums
  <2>2. CASE productRow' = capCalls[c].product /\ UNCHANGED branchRow
             /\ capCalls[c].pc = "upsertProduct"
    BY <1>1, <2>1, <2>2 DEF IInv, RowsOK, CallOK, CapacityCall
  <2>3. CASE branchRow' = capCalls[c].branch /\ UNCHANGED productRow
    BY <1>1, <2>1, <2>3 DEF IInv, RowsOK, CallOK, CapacityCall
  <2> QED
    BY <2>2, <2>3 DEF UpsertPolicy
<1>4. ASSUME ~loose'
      PROVE  ~Unsettled /\ ~loose /\ \A d \in Call : capCalls'[d].pc = "idle"
  <2>1. ~Unsettled /\ ~loose /\ \A d \in Call \ {c} : ~Busy(d)
    BY <1>4, ChangeRows DEF UpsertPolicy
  <2> QED
    BY <1>2, <2>1 DEF Busy, Idle, IInv, CallsOK
<1>5. UNCHANGED <<asked, pool, highest, overlent>>
  BY DEF UpsertPolicy, money, sums
<1> QED
  BY <1>2, <1>3, <1>4, <1>5, Moved

LEMMA MoneyInv == ASSUME IInv, NEW m \in Member, MoveSavings(m) \/ Repay(m) PROVE IInv'
<1>1. Change(Call) /\ UNCHANGED <<asked, policies, sums, capCalls, highest, overlent>>
  BY DEF MoveSavings, Repay
<1>2. savings' \in [Member -> Nat] /\ loans' \in [Member -> Nat]
  <2>1. CASE MoveSavings(m)
    BY <2>1 DEF MoveSavings, IInv, RowsOK, CapacityAssumption
  <2>2. CASE Repay(m)
    BY <2>2 DEF Repay, IInv, RowsOK
  <2> QED
    BY <2>1, <2>2
<1>3. changes' \in 0..MaxChanges /\ loose' \in BOOLEAN
      /\ (~loose' => ~loose /\ ~Unsettled /\ \A d \in Call : ~Busy(d))
  BY <1>1, ChangeRows
<1>4. RowsOK'
  BY <1>1, <1>2, <1>3 DEF IInv, RowsOK, policies, sums
<1>5. CallsOK'
  BY ZenonT(40), <1>1 DEF IInv, CallsOK, CallOK, Idle
<1>6. UNCHANGED <<asked, pool, highest, overlent>>
  BY <1>1 DEF sums
<1> QED
  BY <1>1, <1>3, <1>4, <1>5, <1>6, Moved DEF Busy

\* An application that was let through and nothing moved since is paid out within the rules.
LEMMA DisburseInv == ASSUME IInv, NEW m \in Member, Disburse(m) PROVE IInv'
<1>1. /\ asked[m] \in Nat /\ asked[m] > 0
      /\ loans \in [Member -> Nat] /\ asked \in [Member -> Nat]
  BY DEF Disburse, IInv, RowsOK
<1>2. loans' = [loans EXCEPT ![m] = @ + asked[m]] /\ loans' \in [Member -> Nat]
      /\ asked' = [asked EXCEPT ![m] = 0] /\ asked' \in [Member -> Nat]
  BY <1>1 DEF Disburse
<1>3. Total(loans') = Total(loans) + asked[m]
  <2>1. PICK h \in [Member -> Nat] : h = loans'
    BY <1>2
  <2>2. PICK x \in Nat : x = asked[m]
    BY <1>1
  <2>3. PICK g \in [Member -> Nat] : g = loans
    BY <1>1
  <2>4. h[m] = g[m] + x /\ (\A n \in Member \ {m} : h[n] = g[n]) /\ IsFiniteSet(Member)
    BY <1>2, <2>1, <2>2, <2>3 DEF IInv, CapacityAssumption
  <2>5. Total(h) = Total(g) + x
    BY <2>4, TotalPoint
  <2> QED
    BY <2>1, <2>2, <2>3, <2>5
<1> DEFINE after == [NoPool EXCEPT !.deposits = Total(savings), !.active = Total(loans')]
<1>4. after.deposits = Total(savings) /\ after.active = Total(loans')
  BY DEF NoPool
<1> HIDE DEF after
<1>5. /\ overlent' = (overlent \/ Overlent(after, Branch))
      /\ loose' = (loose \/ \E c \in Call : Busy(c))
      /\ UNCHANGED <<savings, policies, sums, capCalls, changes, highest>>
  BY DEF Disburse, after, Branch
<1>6. overlent' \in BOOLEAN /\ loose' \in BOOLEAN
  BY <1>5 DEF IInv, RowsOK, Overlent
<1>7. RowsOK'
  BY <1>2, <1>5, <1>6 DEF IInv, RowsOK, policies, sums
<1>8. CallsOK'
  BY <1>5 DEF IInv, CallsOK, CallOK, Idle
<1>9. ASSUME ~loose' PROVE Still'
  <2>1. Still /\ \A d \in Call : ~Busy(d)
    BY <1>5, <1>9 DEF IInv
  <2>2. Keeps(asked[m], Total(savings), Total(loans), Branch)
    BY <2>1 DEF Still, Fits
  <2>3. Branch.ratio \in 0..100 /\ Branch.reserve \in Nat
        /\ Total(savings) \in Nat /\ Total(loans) \in Nat
    BY PoliciesInForce, TotalTypes DEF BranchRows
  <2>4. PICK z \in Nat : z = Total(savings) * Branch.ratio
    BY <2>3
  <2>5. ~Overlent(after, Branch)
    BY <1>1, <1>3, <1>4, <2>2, <2>3, <2>4 DEF Overlent, Keeps
  <2>6. ~overlent'
    BY <1>5, <2>1, <2>5 DEF Still
  <2>7. \A n \in Member : ~(asked'[n] > 0)
    BY <1>1, <1>2, <2>1 DEF Still
  <2>8. \A n \in Member : Fits(asked[n])'
    BY <2>7 DEF Fits, Keeps
  <2>9. \A d \in Call : ~Busy(d)' /\ Alone(capCalls[d])'
    BY <1>5, <2>1 DEF Busy, Alone
  <2> QED
    BY <1>5, <2>1, <2>6, <2>7, <2>8, <2>9 DEF Still, sums
<1> QED
  BY <1>7, <1>8, <1>9 DEF IInv, CapacityAssumption

LEMMA InitInv == ASSUME CapacityAssumption PROVE Init => IInv
<1> SUFFICES ASSUME Init PROVE IInv
  OBVIOUS
<1>1. pool \in Pools /\ pool.reserved = 0
  BY DEF Init, NoPool, Pools
<1>2. RowsOK
  <2>1. /\ savings \in [Member -> Nat] /\ loans \in [Member -> Nat]
        /\ asked \in [Member -> Nat] /\ known \in [Member -> Nat]
    BY DEF Init, CapacityAssumption
  <2>2. productRow = {} /\ branchRow = {} /\ changes = 0 /\ highest = 0
        /\ overlent = FALSE /\ loose = FALSE /\ MaxChanges \in Nat
    BY DEF Init, CapacityAssumption
  <2>3. overlent \in BOOLEAN /\ loose \in BOOLEAN
    BY <2>2
  <2>4. changes \in 0..MaxChanges /\ highest \in Nat
    BY <2>2
  <2> QED
    BY <1>1, <2>1, <2>2, <2>3, <2>4 DEF RowsOK, One, InOrder
<1>3. CallsOK
  BY IdleOK DEF Init, CallsOK
<1>4. Still
  <2>1. \A c \in Call : ~Busy(c) /\ Alone(capCalls[c])
    BY DEF Init, Busy, Idle, Alone
  <2>2. \A m \in Member : ~(asked[m] > 0)
    BY DEF Init
  <2> QED
    BY <1>1, <2>1, <2>2 DEF Init, Still, Fits, Keeps
<1> QED
  BY <1>2, <1>3, <1>4 DEF IInv

LEMMA NextInv == IInv /\ [Next]_vars => IInv'
<1> SUFFICES ASSUME IInv, [Next]_vars PROVE IInv'
  OBVIOUS
<1>1. CASE UNCHANGED vars
  <2>1. RowsOK' /\ CallsOK'
    BY ZenonT(40), <1>1 DEF IInv, RowsOK, CallsOK, CallOK, Idle, vars
  <2>2. Branch' = Branch /\ Total(savings)' = Total(savings) /\ Total(loans)' = Total(loans)
    BY <1>1 DEF Branch, NormalizeBranchLiquidityPolicy, Total, MapThenFoldSet, DefaultBranch, vars
  <2>3. Still => Still'
    BY <1>1, <2>2 DEF Still, Busy, Fits, Keeps, Alone, FundOK, vars
  <2> QED
    BY <1>1, <2>1, <2>3 DEF IInv, CapacityAssumption, vars
<1>2. ASSUME NEW c \in Call, LoadPolicies(c) \/ ReadMember(c) \/ ReadPool(c)
                             \/ RecordCapacityAudit(c) \/ Fail(c)
      PROVE  IInv'
  BY <1>2, LoadInv, ReadMemberInv, ReadPoolInv, AuditInv, FailInv
<1>3. ASSUME NEW c \in Call, RefreshMemberFinancialProfile(c) \/ RefreshBranchFundPool(c)
                             \/ Answer(c) \/ UpsertPolicy(c)
      PROVE  IInv'
  BY <1>3, ProfileInv, PoolInv, AnswerInv, UpsertInv
<1>4. ASSUME NEW c \in Call, ReadProductPolicy(c) \/ ReadBranchPolicy(c) PROVE IInv'
  BY <1>4, ReadPoliciesInv
<1> QED
  BY <1>1, <1>2, <1>3, <1>4, RequestsInv, MoneyInv, DisburseInv DEF Next

(***************************************************************************)
(* The theorems.                                                            *)
(***************************************************************************)
\* What holds of the rows and of the rows each handler holds, with several at work.
THEOREM CapacityInvariant == ASSUME CapacityAssumption PROVE Spec => []IInv
<1>1. Init => IInv
  BY InitInv
<1> QED
  BY <1>1, NextInv, PTL DEF Spec

\* Rows, policies and handlers keep to their types.
THEOREM CapacityTypeCorrect == ASSUME CapacityAssumption PROVE Spec => []TypeOK
<1>1. ASSUME IInv PROVE TypeOK
  <2>1. \A c \in Call : capCalls[c].pc \in CapacityPC /\ capCalls[c].done \subseteq {"profile", "pool"}
    BY <1>1, CallTypes DEF CapacityCall
  <2> QED
    BY <1>1, <2>1 DEF IInv, RowsOK, TypeOK, CapacityPC, ProductRows, BranchRows, Pools
<1> QED
  BY <1>1, CapacityInvariant, PTL

\* However evaluations overlap, the limit an evaluation answers is the largest amount that the
\* rows it read admit, and the policy of a product admits some loan.
THEOREM CapacityLimitIsLargest == ASSUME CapacityAssumption PROVE Spec => []LimitIsLargest
<1>1. ASSUME IInv PROVE LimitIsLargest
  <2>1. ASSUME NEW c \in Call, capCalls[c].pc = "answer",
               NEW own \in capCalls[c].own, NEW f \in capCalls[c].fund,
               NEW b \in capCalls[c].branch, NEW p \in capCalls[c].product
        PROVE  /\ Lendable(LimitOf(c), own, f, b, p)
               /\ ~Lendable(LimitOf(c) + 1, own, f, b, p)
    <3>1. /\ LimitOf(c) = BorrowLimit(own, f, b, p)
          /\ own \in Nat /\ f \in Pools /\ b \in BranchRows /\ p \in ProductRows
      BY <1>1, <2>1, LimitOfRows
    <3> QED
      BY <3>1, LimitIsLendable
  <2>2. \A row \in productRow : row.least <= row.most
    BY <1>1 DEF IInv, RowsOK, InOrder
  <2> QED
    BY <2>1, <2>2 DEF LimitIsLargest
<1> QED
  BY <1>1, CapacityInvariant, PTL

\* When nothing moves between an evaluation and the payout of what it let through, no payout
\* exceeds the rules of the branch, and the reserve of the pool is the highest ever in force.
THEOREM CapacitySerial == ASSUME CapacityAssumption PROVE Spec => []SerialCapacity
<1>1. IInv => SerialCapacity
  BY DEF IInv, Still, SerialCapacity
<1> QED
  BY <1>1, CapacityInvariant, PTL
=============================================================================
