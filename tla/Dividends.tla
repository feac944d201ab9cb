------------------------------ MODULE Dividends ------------------------------
(***************************************************************************)
(* A dividend cycle: src/src/modules/dividends/dividends.service.js and     *)
(* the procedures of supabase/sql/005.                                      *)
(*                                                                          *)
(* draft -> frozen (basis of every member) -> allocated (what each is paid) *)
(* -> submitted -> approved (the liability is declared) -> paid -> closed;  *)
(* a checker may send an allocated cycle back to draft.  The two            *)
(* procedures lock the cycle; every other step reads it, and later writes   *)
(* by its id, whatever it has become.                                       *)
(***************************************************************************)
EXTENDS Integers, FiniteSets, Sequences, Folds

CONSTANTS
    Members,        \* the number of members
    Balances,       \* what the members' bases may be: functions on 1..Members
    Rule,           \* distribution rules of a component
    User, Checkers, \* who works on the cycle; required_checker_count
    Call,           \* handlers at work at the same time
    MaxRev,         \* bound: how often components are written
    MaxDeclared,    \* bound: declarations
    NoUser

Member == 1..Members
\* cap 0: no cap.  residual: what rounding leaves over goes to the members.
Rules == [ mode : {"fixed_pool", "rate"}, amount : Nat, increment : Nat \ {0},
           minimum : Nat, cap : Nat, residual : BOOLEAN ]

ASSUME DividendsAssumption ==
    /\ Members \in Nat /\ Checkers \in Nat \ {0} /\ MaxRev \in Nat /\ MaxDeclared \in Nat
    /\ Rule \subseteq Rules /\ Balances \subseteq [Member -> Nat] /\ NoUser \notin User

VARIABLES
    cycle,      \* dividend_cycles
    components, \* dividend_components
    snapshot,   \* dividend_member_snapshots: the components they list, and the bases
    shares,     \* dividend_allocations
    checks,     \* dividend_approvals
    declared,   \* amounts of the declaration journals
    disbursed,  \* amounts of dividend_payments
    revs,       \* components written so far
    divCalls,   \* the handlers at work
    tangled     \* history: handlers overlapped, or failed between two writes

vars == <<cycle, components, snapshot, shares, checks, declared, disbursed, revs, divCalls, tangled>>

Cycle == [ status : {"absent", "draft", "frozen", "allocated", "approved", "paid", "closed"},
           submitted : BOOLEAN, maker : User \cup {NoUser} ]
Component == [rev : 1..MaxRev, rule : Rule]
Share == [rev : 1..MaxRev, member : Member, payout : Nat, status : {"pending", "paid"}]
Zero == [m \in Member |-> 0]
NoSnapshot == [taken |-> FALSE, revs |-> {}, basis |-> Zero]

\* read: the components as read; basis, revs: what is written, or computed with.
DivCall == [ pc : {"idle", "components", "replace", "unfreeze", "snapshot", "freeze", "unallocate",
                   "allocate", "allocated", "countSubmit", "submit", "countApprove",
                   "approve", "reject", "redraft", "close"},
             user : User \cup {NoUser}, read : SUBSET Component,
             revs : SUBSET (1..MaxRev), basis : [Member -> Nat] ]
Idle == [pc |-> "idle", user |-> NoUser, read |-> {}, revs |-> {}, basis |-> Zero]

Busy == {c \in Call : divCalls[c].pc # "idle"}
Begin(c, call) ==
    /\ divCalls[c].pc = "idle"
    /\ divCalls' = [divCalls EXCEPT ![c] = call]
    /\ tangled' = (tangled \/ Busy # {})
Goto(c, pc) == divCalls' = [divCalls EXCEPT ![c].pc = pc] /\ UNCHANGED tangled
Return(c) == divCalls' = [divCalls EXCEPT ![c] = Idle] /\ UNCHANGED tangled

SumOver(S, f(_)) == MapThenFoldSet(LAMBDA x, y : x + y, 0, f, LAMBDA T : CHOOSE x \in T : TRUE, S)

Init ==
    /\ cycle = [status |-> "absent", submitted |-> FALSE, maker |-> NoUser]
    /\ components = {} /\ snapshot = NoSnapshot /\ shares = {}
    /\ checks = [u \in User |-> "none"]
    /\ declared = <<>> /\ disbursed = <<>> /\ revs = 0
    /\ divCalls = [c \in Call |-> Idle] /\ tangled = FALSE
----------------------------------------------------------------------------
(* calculateComponentAllocations.                                           *)

\* Math.round of a / b to a multiple of inc: halves go up.
RoundToIncrement(a, b, inc) == ((2 * a + b * inc) \div (2 * b * inc)) * inc

Entitled(basis) == {m \in Member : basis[m] > 0}
TotalBasis(basis) == SumOver(Entitled(basis), LAMBDA m : basis[m])

\* Mutant: the cap is tested before rounding, so rounding may pass it.
CappedEarly(rule, m, basis) ==
    LET a == basis[m] * rule.amount
        b == IF rule.mode = "fixed_pool" THEN TotalBasis(basis) ELSE 100
        p == RoundToIncrement(a, b, rule.increment)
    IN IF p < rule.minimum THEN 0
       ELSE IF rule.cap > 0 /\ a \div b > rule.cap THEN rule.cap ELSE p

Rounded(rule, m, basis) ==
    LET b == IF rule.mode = "fixed_pool" THEN TotalBasis(basis) ELSE 100
        p == RoundToIncrement(basis[m] * rule.amount, b, rule.increment)
    IN IF p < rule.minimum THEN 0 ELSE IF rule.cap > 0 /\ p > rule.cap THEN rule.cap ELSE p

AllocatedTotal(rule, basis) == SumOver(Entitled(basis), LAMBDA m : Rounded(rule, m, basis))

\* What was promised and not allocated, rounded.
Residual(rule, basis) ==
    IF rule.mode = "fixed_pool"
    THEN RoundToIncrement(rule.amount - AllocatedTotal(rule, basis), 1, rule.increment)
    ELSE RoundToIncrement(TotalBasis(basis) * rule.amount - 100 * AllocatedTotal(rule, basis),
                          100, rule.increment)

\* The residual goes round the members, the largest basis first, an increment each time.
Place(m, basis) ==
    Cardinality({n \in Entitled(basis) : basis[n] > basis[m] \/ (basis[n] = basis[m] /\ n < m)})
ProRata(rule, m, basis) ==
    LET turns == Residual(rule, basis) \div rule.increment
        n == Cardinality(Entitled(basis))
    IN rule.increment * ((turns \div n) + (IF Place(m, basis) < turns % n THEN 1 ELSE 0))

Payout(rule, m, basis) ==
    Rounded(rule, m, basis) +
        (IF rule.residual /\ Residual(rule, basis) > 0 THEN ProRata(rule, m, basis) ELSE 0)
----------------------------------------------------------------------------
CreateCycle(c, u) ==
    /\ cycle.status = "absent" /\ revs < MaxRev
    /\ Begin(c, [Idle EXCEPT !.pc = "components"])
    /\ cycle' = [cycle EXCEPT !.status = "draft", !.maker = u]
    /\ UNCHANGED <<components, snapshot, shares, checks, declared, disbursed, revs>>

\* What an edit writes to the cycle's own row is not modelled.
UpdateCycle(c) ==
    /\ cycle.status = "draft" /\ revs < MaxRev
    /\ Begin(c, [Idle EXCEPT !.pc = "replace"])
    /\ UNCHANGED <<cycle, components, snapshot, shares, checks, declared, disbursed, revs>>

\* Allocations go with their component.
DeleteComponents(c) ==
    /\ divCalls[c].pc = "replace"
    /\ components' = {} /\ shares' = {}
    /\ Goto(c, "components")
    /\ UNCHANGED <<cycle, snapshot, checks, declared, disbursed, revs>>

InsertComponents(c) ==
    /\ divCalls[c].pc = "components" /\ revs < MaxRev
    /\ revs' = revs + 1
    /\ \E rule \in Rule : components' = components \cup {[rev |-> revs + 1, rule |-> rule]}
    /\ Return(c)
    /\ UNCHANGED <<cycle, snapshot, shares, checks, declared, disbursed>>

FreezeCycle(c) ==
    /\ cycle.status = "draft"
    /\ \E basis \in Balances :
          Begin(c, [Idle EXCEPT !.pc = "unfreeze", !.basis = basis,
                                !.revs = {x.rev : x \in components}])
    /\ UNCHANGED <<cycle, components, snapshot, shares, checks, declared, disbursed, revs>>

DeleteSnapshots(c) ==
    /\ divCalls[c].pc = "unfreeze"
    /\ snapshot' = NoSnapshot
    /\ Goto(c, "snapshot")
    /\ UNCHANGED <<cycle, components, shares, checks, declared, disbursed, revs>>

\* One snapshot per member and cycle: a second set of rows is refused.
InsertSnapshots(c) ==
    /\ divCalls[c].pc = "snapshot" /\ ~snapshot.taken
    /\ snapshot' = [taken |-> TRUE, revs |-> divCalls[c].revs, basis |-> divCalls[c].basis]
    /\ Goto(c, "freeze")
    /\ UNCHANGED <<cycle, components, shares, checks, declared, disbursed, revs>>

WriteFrozen(c) ==
    /\ divCalls[c].pc = "freeze"
    /\ cycle' = [cycle EXCEPT !.status = "frozen"]
    /\ Return(c)
    /\ UNCHANGED <<components, snapshot, shares, checks, declared, disbursed, revs>>

Rows(call) ==
    { r \in { [rev |-> x.rev, member |-> m, payout |-> Payout(x.rule, m, call.basis),
               status |-> "pending"] :
              x \in {y \in call.read : y.rev \in call.revs}, m \in Entitled(call.basis) } :
      r.payout > 0 }

\* Nothing to pay is an error before anything is written.
AllocateCycle(c) ==
    LET call == [Idle EXCEPT !.pc = "unallocate", !.read = components,
                             !.revs = snapshot.revs, !.basis = snapshot.basis] IN
    /\ cycle.status = "frozen" /\ Rows(call) # {}
    /\ Begin(c, call)
    /\ UNCHANGED <<cycle, components, snapshot, shares, checks, declared, disbursed, revs>>

DeleteAllocations(c) ==
    /\ divCalls[c].pc = "unallocate"
    /\ shares' = {}
    /\ Goto(c, "allocate")
    /\ UNCHANGED <<cycle, components, snapshot, checks, declared, disbursed, revs>>

\* A component that is gone, or a second row for a member, is refused.
InsertAllocations(c) ==
    LET rows == Rows(divCalls[c]) IN
    /\ divCalls[c].pc = "allocate"
    /\ \A r \in rows : \E x \in components : x.rev = r.rev
    /\ \A r \in rows, s \in shares : <<r.rev, r.member>> # <<s.rev, s.member>>
    /\ shares' = shares \cup rows
    /\ Goto(c, "allocated")
    /\ UNCHANGED <<cycle, components, snapshot, checks, declared, disbursed, revs>>

WriteAllocated(c) ==
    /\ divCalls[c].pc = "allocated"
    /\ cycle' = [cycle EXCEPT !.status = "allocated", !.submitted = FALSE]
    /\ Return(c)
    /\ UNCHANGED <<components, snapshot, shares, checks, declared, disbursed, revs>>
----------------------------------------------------------------------------
Pending == {s \in shares : s.status = "pending"}
PendingTotal == SumOver(Pending, LAMBDA s : s.payout)

SubmitCycle(c) ==
    /\ cycle.status = "allocated" /\ ~cycle.submitted
    /\ Begin(c, [Idle EXCEPT !.pc = "countSubmit"])
    /\ UNCHANGED <<cycle, components, snapshot, shares, checks, declared, disbursed, revs>>

ApproveCycle(c, u) ==
    /\ cycle.submitted
    /\ Begin(c, [Idle EXCEPT !.pc = "countApprove", !.user = u])
    /\ UNCHANGED <<cycle, components, snapshot, shares, checks, declared, disbursed, revs>>

GetPendingPayableAllocations(c) ==
    /\ divCalls[c].pc \in {"countSubmit", "countApprove"}
    /\ IF Pending = {} THEN Return(c)
       ELSE Goto(c, IF divCalls[c].pc = "countSubmit" THEN "submit" ELSE "approve")
    /\ UNCHANGED <<cycle, components, snapshot, shares, checks, declared, disbursed, revs>>

WriteSubmitted(c) ==
    /\ divCalls[c].pc = "submit"
    /\ cycle' = [cycle EXCEPT !.submitted = TRUE]
    /\ Return(c)
    /\ UNCHANGED <<components, snapshot, shares, checks, declared, disbursed, revs>>

MayCheck(u) == cycle.status = "allocated" /\ cycle.maker # u

Approvers == {u \in User : checks[u] = "approved"}

\* approve_dividend_cycle.  A checker who rejected the cycle before stays a rejection:
\* the insert gives way to the row that is there.
ApproveDividendCycle(c) ==
    LET u == divCalls[c].user
        enough == Cardinality(Approvers \cup (IF checks[u] = "none" THEN {u} ELSE {})) >= Checkers
    IN
    /\ divCalls[c].pc = "approve" /\ Len(declared) < MaxDeclared
    /\ IF MayCheck(u)
       THEN /\ checks' = [checks EXCEPT ![u] = IF @ = "none" THEN "approved" ELSE @]
            /\ IF enough /\ Pending # {}
               THEN /\ declared' = Append(declared, PendingTotal)
                    /\ cycle' = [cycle EXCEPT !.status = "approved"]
               ELSE UNCHANGED <<declared, cycle>>
       ELSE UNCHANGED <<checks, declared, cycle>>
    /\ Return(c)
    /\ UNCHANGED <<components, snapshot, shares, disbursed, revs>>

RejectCycle(c, u) ==
    /\ cycle.status = "allocated"
    /\ Begin(c, [Idle EXCEPT !.pc = "reject", !.user = u])
    /\ UNCHANGED <<cycle, components, snapshot, shares, checks, declared, disbursed, revs>>

UpsertRejection(c) ==
    /\ divCalls[c].pc = "reject"
    /\ checks' = [checks EXCEPT ![divCalls[c].user] = "rejected"]
    /\ Goto(c, "redraft")
    /\ UNCHANGED <<cycle, components, snapshot, shares, declared, disbursed, revs>>

WriteDraft(c) ==
    /\ divCalls[c].pc = "redraft"
    /\ cycle' = [cycle EXCEPT !.status = "draft", !.submitted = FALSE]
    /\ Return(c)
    /\ UNCHANGED <<components, snapshot, shares, checks, declared, disbursed, revs>>

Payable == cycle.status = "approved"

\* pay_dividend_cycle; payCycle reads the cycle for access only.
PayCycle ==
    /\ Payable /\ Len(disbursed) <= MaxDeclared
    /\ Pending # {}
    /\ disbursed' = Append(disbursed, PendingTotal)
    /\ shares' = {[s EXCEPT !.status = "paid"] : s \in shares}
    /\ cycle' = [cycle EXCEPT !.status = "paid"]
    /\ tangled' = (tangled \/ Busy # {})
    /\ UNCHANGED <<components, snapshot, checks, declared, revs, divCalls>>

CloseCycle(c) ==
    /\ cycle.status = "paid"
    /\ Begin(c, [Idle EXCEPT !.pc = "close"])
    /\ UNCHANGED <<cycle, components, snapshot, shares, checks, declared, disbursed, revs>>

WriteClosed(c) ==
    /\ divCalls[c].pc = "close"
    /\ cycle' = [cycle EXCEPT !.status = "closed"]
    /\ Return(c)
    /\ UNCHANGED <<components, snapshot, shares, checks, declared, disbursed, revs>>

\* A statement fails or the process stops.
Fail(c) ==
    /\ divCalls[c].pc # "idle"
    /\ divCalls' = [divCalls EXCEPT ![c] = Idle]
    /\ tangled' = TRUE
    /\ UNCHANGED <<cycle, components, snapshot, shares, checks, declared, disbursed, revs>>

Next ==
    \/ PayCycle
    \/ \E c \in Call :
          \/ \E u \in User : CreateCycle(c, u) \/ ApproveCycle(c, u) \/ RejectCycle(c, u)
          \/ UpdateCycle(c) \/ DeleteComponents(c) \/ InsertComponents(c) \/ FreezeCycle(c)
          \/ DeleteSnapshots(c) \/ InsertSnapshots(c) \/ WriteFrozen(c) \/ AllocateCycle(c)
          \/ DeleteAllocations(c) \/ InsertAllocations(c) \/ WriteAllocated(c)
          \/ SubmitCycle(c) \/ GetPendingPayableAllocations(c) \/ WriteSubmitted(c)
          \/ ApproveDividendCycle(c) \/ UpsertRejection(c) \/ WriteDraft(c)
          \/ CloseCycle(c) \/ WriteClosed(c) \/ Fail(c)

Spec == Init /\ [][Next]_vars
----------------------------------------------------------------------------
(* Properties.                                                              *)

TypeOK ==
    /\ cycle \in Cycle
    /\ components \subseteq Component
    /\ snapshot.revs \subseteq 1..MaxRev /\ snapshot.basis \in [Member -> Nat]
    /\ shares \subseteq Share
    /\ checks \in [User -> {"none", "approved", "rejected"}]
    /\ divCalls \in [Call -> DivCall]

\* However handlers overlap or fail, a cycle is paid once for every time its liability
\* was declared, at most.
PaidOncePerDeclaration == Len(disbursed) <= Len(declared)

\* What a component hands out.  However handlers overlap, no member gets more than the cap and
\* a share of the residual.  When they did not, a pool is exceeded by rounding at most, half an
\* increment a member, and with the residual shared out it is missed by less than an increment;
\* an allocation that outlives a new freeze can hand the pool out to the members of each.
WithinPool ==
    \A x \in components : LET mine == {s \in shares : s.rev = x.rev}
                              total == SumOver(mine, LAMBDA s : s.payout) IN
        /\ x.rule.cap > 0 /\ ~x.rule.residual =>
              \A s \in mine : s.payout <= x.rule.cap
        /\ ~tangled /\ x.rule.mode = "fixed_pool" /\ mine # {} =>
              /\ 2 * (total - x.rule.amount) <= Members * x.rule.increment
              /\ x.rule.residual => total > x.rule.amount - x.rule.increment

\* When the handlers ran one after the other and none failed: the liability is declared
\* once, by the checkers required and not by the maker, and the payment settles it.
SerialDividends ==
    ~tangled /\ Busy = {} =>
        /\ cycle.status \in {"approved", "paid", "closed"} <=> Len(declared) = 1
        /\ cycle.status \in {"paid", "closed"} <=> Len(disbursed) = 1
        /\ Len(declared) = 1 =>
              Cardinality(Approvers) >= Checkers /\ cycle.maker \notin Approvers
        /\ Len(declared) <= 1
        /\ Len(disbursed) = 1 => disbursed = declared
=============================================================================
