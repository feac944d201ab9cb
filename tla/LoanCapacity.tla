------------------------------ MODULE LoanCapacity ------------------------------
(***************************************************************************)
(* How much a member may borrow:                                            *)
(* src/src/modules/loan-capacity/loan-capacity.service.js,                  *)
(* src/supabase/sql/072_loan_capacity_liquidity_engine.sql.                 *)
(*                                                                          *)
(* One branch and one loan product.  Every evaluation reads the policies,   *)
(* adds up the balances and the loans, writes the sums into the profile of  *)
(* the member and the fund pool of the branch, and computes the limit from  *)
(* the rows it wrote.  Nothing is reserved: an application is let through   *)
(* by the limit of that moment and paid out later.                          *)
(***************************************************************************)
EXTENDS Naturals, FiniteSets, Folds

CONSTANTS
    Call, Member, NoMember,
    Product,         \* the loan product: its own minimum, maximum and multiple
    ProductPolicy,   \* values an administrator may want for loan_product_policies
    BranchPolicy,    \* the same for branch_liquidity_policy
    LeastLoan,       \* the 10,000 no loan goes below
    MaxMoney,        \* bound: money of a member, and lent to one
    MaxChanges       \* bound: changes of policies and balances

\* What the module asks of its constants; LendingProofs proves it of those MCLending gives.
CapacityAssumption ==
    /\ IsFiniteSet(Member) /\ MaxMoney \in Nat /\ MaxChanges \in Nat
    /\ {Product} \cup ProductPolicy
           \subseteq [multiple : Nat, most : Nat, least : Nat, buffer : 0..100]
    /\ BranchPolicy \subseteq [ratio : 0..100, reserve : Nat, freeze : Nat]

VARIABLES
    savings,         \* member_accounts: the contributions of each member
    loans,           \* loans: what each member owes
    asked,           \* loan_applications: let through and not yet paid out
    productRow,      \* loan_product_policies: a row or none
    branchRow,       \* branch_liquidity_policy: a row or none
    pool,            \* loan_fund_pool
    known,           \* member_financial_profile: the contributions on record
    capCalls,
    changes,
    highest,         \* history: the highest reserve a refresh has used
    overlent,        \* history: a payout has broken the rules of the branch
    loose            \* history: the rows moved under an evaluation or a request

vars == << savings, loans, asked, productRow, branchRow, pool, known, capCalls, changes,
           highest, overlent, loose >>

money == <<savings, loans, asked>>
policies == <<productRow, branchRow>>
sums == <<pool, known>>
history == <<highest, overlent, loose>>

Least(a, b) == IF a < b THEN a ELSE b
Most(a, b) == IF a > b THEN a ELSE b
Minus(a, b) == IF a > b THEN a - b ELSE 0
\* roundMoney of a percentage.
Percent(x, p) == (x * p + 50) \div 100
Total(f) == MapThenFoldSet(+, 0, LAMBDA m : f[m], LAMBDA S : CHOOSE x \in S : TRUE, Member)

NoPool == [deposits |-> 0, reserved |-> 0, active |-> 0]
DefaultBranch == [ratio |-> 70, reserve |-> 0, freeze |-> 0]
Idle == [ pc |-> "idle", work |-> "", member |-> NoMember, amount |-> 0, product |-> {},
          branch |-> {}, own |-> {}, fund |-> {}, done |-> {} ]

Goto(c, pc) == capCalls' = [capCalls EXCEPT ![c].pc = pc]
Return(c) == capCalls' = [capCalls EXCEPT ![c] = Idle]
Busy(c) == capCalls[c].pc # "idle"

Init ==
    /\ savings \in [Member -> {0, MaxMoney}] /\ loans = [m \in Member |-> 0]
    /\ asked = [m \in Member |-> 0]
    /\ productRow = {} /\ branchRow = {}
    /\ pool = NoPool /\ known = [m \in Member |-> 0]
    /\ capCalls = [c \in Call |-> Idle]
    /\ changes = 0 /\ highest = 0 /\ overlent = FALSE /\ loose = FALSE
----------------------------------------------------------------------------
(* The policies in force.                                                   *)

NormalizeLoanProductPolicy(row) ==
    IF row = {} THEN Product
    ELSE LET p == CHOOSE x \in row : TRUE IN
         [p EXCEPT !.most = Least(@, Product.most), !.least = Most(@, Product.least)]
NormalizeBranchLiquidityPolicy(row) ==
    IF row = {} THEN DefaultBranch ELSE CHOOSE x \in row : TRUE

\* The generated column.
Available(f) == Minus(f.deposits, f.reserved + f.active)

ComputeLiquidityLimit(f, branch, product) ==
    LET ratioHeadroom == Minus(Percent(f.deposits, branch.ratio), f.active)
        reserveHeadroom == Minus(f.deposits, branch.reserve + f.active)
        bufferHeadroom == Percent(Available(f), 100 - product.buffer)
    IN Least(Least(Available(f), ratioHeadroom), Least(reserveHeadroom, bufferHeadroom))

Frozen(f, branch) == Available(f) <= branch.freeze

BorrowLimit(own, f, branch, product) ==
    Least(Least(own * product.multiple, product.most), ComputeLiquidityLimit(f, branch, product))
----------------------------------------------------------------------------
(* Evaluations.                                                             *)

Enter(c, call) ==
    /\ ~Busy(c)
    /\ capCalls' = [capCalls EXCEPT ![c] = call]
    /\ loose' = (loose \/ \E d \in Call : Busy(d))
    /\ UNCHANGED <<money, policies, sums, changes, highest, overlent>>

CalculateBorrowLimit(c, m) == Enter(c, [Idle EXCEPT !.pc = "load", !.work = "ask", !.member = m])
\* Drafting and submitting an application.
ValidateRequest(c, m, amount) ==
    Enter(c, [Idle EXCEPT !.pc = "load", !.work = "request", !.member = m, !.amount = amount])
\* The fund pool of a branch, alone or on its dashboard: no member.
GetBranchFundPool(c) == Enter(c, [Idle EXCEPT !.pc = "load", !.work = "pool", !.done = {"profile"}])

LoadPolicies(c) ==
    /\ capCalls[c].pc = "load"
    /\ capCalls' = [capCalls EXCEPT ![c].pc = "refresh",
           ![c].product = {NormalizeLoanProductPolicy(productRow)},
           ![c].branch = {NormalizeBranchLiquidityPolicy(branchRow)}]
    /\ UNCHANGED <<money, policies, sums, changes, history>>

\* The two refreshes run side by side, each reads and then writes.
ReadMember(c) ==
    /\ capCalls[c].pc = "refresh" /\ "profile" \notin capCalls[c].done /\ capCalls[c].own = {}
    /\ capCalls' = [capCalls EXCEPT ![c].own = {savings[capCalls[c].member]}]
    /\ UNCHANGED <<money, policies, sums, changes, history>>

RefreshMemberFinancialProfile(c) ==
    /\ capCalls[c].pc = "refresh" /\ "profile" \notin capCalls[c].done
    /\ \E own \in capCalls[c].own : known' = [known EXCEPT ![capCalls[c].member] = own]
    /\ capCalls' = [capCalls EXCEPT ![c].done = @ \cup {"profile"}]
    /\ UNCHANGED <<money, policies, pool, changes, history>>

\* The reserve on record only ever rises.
ReservedLiquidity(c) == Most(pool.reserved, (CHOOSE b \in capCalls[c].branch : TRUE).reserve)

ReadPool(c) ==
    /\ capCalls[c].pc = "refresh" /\ capCalls[c].fund = {}
    /\ capCalls' = [capCalls EXCEPT ![c].fund =
           {[ deposits |-> Total(savings), reserved |-> ReservedLiquidity(c),
              active |-> Total(loans) ]}]
    /\ UNCHANGED <<money, policies, sums, changes, history>>

RefreshBranchFundPool(c) ==
    /\ capCalls[c].pc = "refresh" /\ "pool" \notin capCalls[c].done
    /\ \E f \in capCalls[c].fund : pool' = f
    /\ \E b \in capCalls[c].branch : highest' = Most(highest, b.reserve)
    /\ capCalls' = [capCalls EXCEPT ![c].done = @ \cup {"pool"}]
    /\ UNCHANGED <<money, policies, known, changes, overlent, loose>>

\* The evaluation is put on record, then answered.
RecordCapacityAudit(c) ==
    /\ capCalls[c].pc = "refresh" /\ capCalls[c].done = {"profile", "pool"}
    /\ IF capCalls[c].work = "pool" THEN Return(c) ELSE Goto(c, "answer")
    /\ UNCHANGED <<money, policies, sums, changes, history>>

LimitOf(c) ==
    CHOOSE n \in { BorrowLimit(own, f, b, p) :
                     own \in capCalls[c].own, f \in capCalls[c].fund,
                     b \in capCalls[c].branch, p \in capCalls[c].product } : TRUE

Allowed(c, amount) ==
    /\ \A f \in capCalls[c].fund, b \in capCalls[c].branch : ~Frozen(f, b)
    /\ \A p \in capCalls[c].product : amount >= Most(LeastLoan, p.least)
    /\ amount <= LimitOf(c)

\* A request that is refused leaves nothing; a member has one open application.
Answer(c) ==
    LET m == capCalls[c].member IN
    /\ capCalls[c].pc = "answer"
    /\ IF capCalls[c].work = "request" /\ Allowed(c, capCalls[c].amount) /\ asked[m] = 0
       THEN /\ asked' = [asked EXCEPT ![m] = capCalls[c].amount]
            /\ loose' = (loose \/ \E n \in Member : asked[n] > 0)
       ELSE UNCHANGED <<asked, loose>>
    /\ Return(c)
    /\ UNCHANGED <<savings, loans, policies, sums, changes, highest, overlent>>
----------------------------------------------------------------------------
(* Policies.                                                                *)

UpdateLoanProductPolicy(c) == Enter(c, [Idle EXCEPT !.pc = "product"])
UpdateBranchLiquidityPolicy(c) == Enter(c, [Idle EXCEPT !.pc = "branch"])

\* What is asked for is merged into what was read.
Merge(row, want, fields) == [f \in DOMAIN row |-> IF f \in fields THEN want[f] ELSE row[f]]

ReadProductPolicy(c) ==
    /\ capCalls[c].pc = "product"
    /\ \E want \in ProductPolicy, fields \in {{"most"}, {"least", "multiple", "buffer"}} :
          LET next == Merge(NormalizeLoanProductPolicy(productRow), want, fields) IN
          IF next.most < next.least THEN Return(c)
          ELSE capCalls' = [capCalls EXCEPT ![c].pc = "upsertProduct", ![c].product = {next}]
    /\ UNCHANGED <<money, policies, sums, changes, history>>

ReadBranchPolicy(c) ==
    /\ capCalls[c].pc = "branch"
    /\ \E want \in BranchPolicy, fields \in {{"ratio"}, {"reserve", "freeze"}} :
          LET next == Merge(NormalizeBranchLiquidityPolicy(branchRow), want, fields) IN
          capCalls' = [capCalls EXCEPT ![c].pc = "upsertBranch", ![c].branch = {next}]
    /\ UNCHANGED <<money, policies, sums, changes, history>>

Unsettled == \E m \in Member : asked[m] > 0
Change(others) ==
    /\ changes < MaxChanges /\ changes' = changes + 1
    /\ loose' = (loose \/ Unsettled \/ \E d \in others : Busy(d))

UpsertPolicy(c) ==
    /\ Change(Call \ {c})
    /\ \/ /\ capCalls[c].pc = "upsertProduct"
          /\ productRow' = capCalls[c].product /\ UNCHANGED branchRow
       \/ /\ capCalls[c].pc = "upsertBranch"
          /\ branchRow' = capCalls[c].branch /\ UNCHANGED productRow
    /\ Return(c)
    /\ UNCHANGED <<money, sums, highest, overlent>>
----------------------------------------------------------------------------
(* Around it: money comes and goes, an application is paid out without      *)
(* another look at the pool.                                                *)

MoveSavings(m) ==
    /\ Change(Call)
    /\ savings' \in {[savings EXCEPT ![m] = n] : n \in (0..MaxMoney) \ {savings[m]}}
    /\ UNCHANGED <<loans, asked, policies, sums, capCalls, highest, overlent>>

Repay(m) ==
    /\ loans[m] > 0 /\ Change(Call)
    /\ loans' = [loans EXCEPT ![m] = @ - 1]
    /\ UNCHANGED <<savings, asked, policies, sums, capCalls, highest, overlent>>

Overlent(f, branch) ==
    \/ 100 * f.active > f.deposits * branch.ratio + 50
    \/ f.active + branch.reserve > f.deposits

Disburse(m) ==
    /\ asked[m] > 0
    /\ loans' = [loans EXCEPT ![m] = @ + asked[m]]
    /\ asked' = [asked EXCEPT ![m] = 0]
    /\ LET after == [NoPool EXCEPT !.deposits = Total(savings), !.active = Total(loans')] IN
       overlent' = (overlent \/ Overlent(after, NormalizeBranchLiquidityPolicy(branchRow)))
    /\ loose' = (loose \/ \E c \in Call : Busy(c))
    /\ UNCHANGED <<savings, policies, sums, capCalls, changes, highest>>

Fail(c) ==
    /\ Busy(c) /\ Return(c)
    /\ UNCHANGED <<money, policies, sums, changes, history>>

Next ==
    \/ \E c \in Call :
          \/ \E m \in Member : \/ CalculateBorrowLimit(c, m)
                               \/ \E amount \in 1..MaxMoney : ValidateRequest(c, m, amount)
          \/ GetBranchFundPool(c) \/ LoadPolicies(c) \/ ReadMember(c)
          \/ RefreshMemberFinancialProfile(c) \/ ReadPool(c) \/ RefreshBranchFundPool(c)
          \/ RecordCapacityAudit(c) \/ Answer(c)
          \/ UpdateLoanProductPolicy(c) \/ UpdateBranchLiquidityPolicy(c)
          \/ ReadProductPolicy(c) \/ ReadBranchPolicy(c) \/ UpsertPolicy(c) \/ Fail(c)
    \/ \E m \in Member : MoveSavings(m) \/ Repay(m) \/ Disburse(m)

Spec == Init /\ [][Next]_vars
----------------------------------------------------------------------------
(* Properties.                                                              *)

TypeOK ==
    /\ {savings, loans, asked, known} \subseteq [Member -> Nat]
    /\ \A row \in productRow : row.most \in Nat /\ row.least \in Nat /\ row.buffer \in 0..100
    /\ \A row \in branchRow : row.ratio \in 0..100 /\ row.reserve \in Nat /\ row.freeze \in Nat
    /\ pool \in [deposits : Nat, reserved : Nat, active : Nat]
    /\ \A c \in Call :
          /\ capCalls[c].pc \in { "idle", "load", "refresh", "answer", "product", "branch",
                                  "upsertProduct", "upsertBranch" }
          /\ capCalls[c].done \subseteq {"profile", "pool"}
    /\ changes \in 0..MaxChanges /\ highest \in Nat /\ overlent \in BOOLEAN /\ loose \in BOOLEAN

\* The amounts that may be lent on given rows, said without limits: after it the branch keeps
\* to its ratio and its reserve, the buffer of the pool is left, and neither product nor
\* multiple is exceeded; the ratio and the buffer are rounded to whole units.
Lendable(x, own, f, b, p) ==
    /\ x <= own * p.multiple /\ x <= p.most
    /\ x <= Available(f) /\ 100 * x <= Available(f) * (100 - p.buffer) + 50
    /\ x > 0 => /\ f.active + x + b.reserve <= f.deposits
                /\ 100 * (f.active + x) <= f.deposits * b.ratio + 50

\* Whatever overlaps, the limit an evaluation answers is the largest amount its rows admit,
\* and the policy of a product admits some loan.
LimitIsLargest ==
    /\ \A c \in Call : capCalls[c].pc = "answer" =>
          \A own \in capCalls[c].own, f \in capCalls[c].fund, b \in capCalls[c].branch,
             p \in capCalls[c].product :
                /\ Lendable(LimitOf(c), own, f, b, p)
                /\ ~Lendable(LimitOf(c) + 1, own, f, b, p)
    /\ \A row \in productRow : row.least <= row.most

\* When nothing moves between an evaluation and the payout of what it let through, no payout
\* exceeds the rules of the branch, and the reserve of the pool is the highest ever in force.
SerialCapacity ==
    ~loose => ~overlent /\ pool.reserved = highest
=============================================================================
