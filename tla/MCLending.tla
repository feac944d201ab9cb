------------------------------ MODULE MCLending ------------------------------
(* The lending components, one at a time: what they share is modelled in    *)
(* each of them, so TLC checks their sum and not their product.  "part" is   *)
(* chosen at the start and says which of them runs.                          *)
(*   review         LoanApplications, two handlers on one application        *)
(*   serial         LoanApplications, one handler, and another application   *)
(*                  of the member that gets as far as its submission         *)
(*   payout         LoanPayouts, two handlers on two orders of one           *)
(*                  application, all with the amounts reported               *)
(*   payoutAmount   LoanPayouts, two handlers on one order, of any amount,    *)
(*                  or at the counter                                        *)
(*   capacityRace   LoanCapacity, two handlers around two requests           *)
(*   capacityAlone  LoanCapacity, nothing moves under a request              *)
EXTENDS LoanApplications, TLC

CONSTANTS Order, NoOrder,
          First,        \* the application of the parts that have one
          Member, Manager, FirstOrder   \* who applies and approves in the payout parts

VARIABLES
    part,
    state, maker, needed, cycle, yes, overlapped,
    orders, payout, sent, processed, ignored, paidLoans, counter, credited, payCalls, faults,
    savings, lent, asked, productRow, branchRow, pool, known, capCalls, changes, highest,
    overlent, loose

LP == INSTANCE LoanPayouts WITH
          User <- {Member, Manager}, Required <- {1}, MaxCycle <- 1, MaxFaults <- 1,
          loans <- paidLoans, calls <- payCalls

ASSUME MCLendingAssumption == LP!PayoutsAssumption

payoutVars == <<state, maker, needed, cycle, yes, overlapped, orders, payout, sent,
                processed, ignored, paidLoans, counter, credited, payCalls, faults>>

ProductRow(multiple, most, least, buffer) ==
    [multiple |-> multiple, most |-> most, least |-> least, buffer |-> buffer]
BranchRow(ratio, reserve, freeze) == [ratio |-> ratio, reserve |-> reserve, freeze |-> freeze]

Capacity == INSTANCE LoanCapacity WITH
    Member <- {"m1", "m2"}, NoMember <- "", LeastLoan <- 1, MaxMoney <- 2, MaxChanges <- 2,
    Product <- ProductRow(2, 3, 1, 0),
    ProductPolicy <- {ProductRow(1, 2, 1, 50), ProductRow(3, 1, 2, 25)},
    BranchPolicy <- {BranchRow(100, 1, 0), BranchRow(50, 0, 1)},
    loans <- lent

capacityVars == << savings, lent, asked, productRow, branchRow, pool, known, capCalls,
                   changes, highest, overlent, loose >>
----------------------------------------------------------------------------
ReviewParts == {"review", "serial"}
Others == Application \ {First}

ReviewNext ==
    /\ Next
    /\ \/ part = "review" /\ \A a \in Others : apps'[a].status = "absent"
       \/ /\ part = "serial" /\ Cardinality(Busy') <= 1
          /\ \A a \in Others : /\ apps'[a].status \in {"absent", "draft", "submitted"}
                               /\ consent'[a] = consent[a]

PayoutParts == {"payout", "payoutAmount"}
PayoutNext ==
    /\ LP!Next
    /\ \A a \in Others : state'[a] = "absent"
    /\ maker'[First] # Manager
    /\ \/ /\ part = "payout" /\ ignored' = {}
          /\ \A c \in Call : payCalls'[c].kind # "cash"
          /\ \A o \in Order : ~orders'[o].cents
          /\ \A o \in Order : orders'[o].app = First => orders'[FirstOrder].app = First
       \/ /\ part = "payoutAmount"
          /\ \A o \in Order \ {FirstOrder} : orders'[o].status = "absent"

CapacityParts == {"capacityRace", "capacityAlone"}
CapacityNext ==
    /\ Capacity!Next
    /\ \/ /\ part = "capacityRace" /\ changes' <= 1
          /\ \A m \in {"m1", "m2"} : savings'[m] = 2 /\ lent'[m] = 0
          /\ \A c \in Call : /\ capCalls'[c].pc \notin {"product", "upsertProduct"}
                             /\ capCalls'[c].work \in {"", "request"}
                             /\ capCalls'[c].amount # 1
       \/ /\ part = "capacityAlone" /\ ~loose' /\ savings'["m2"] = savings["m2"]
          /\ \A c \in Call : capCalls'[c].member # "m2"

LendingInit ==
    /\ part \in PayoutParts \cup ReviewParts \cup CapacityParts
    /\ Init /\ LP!Init /\ Capacity!Init
    /\ part \in CapacityParts \/ \A m \in {"m1", "m2"} : savings[m] = 0

LendingNext ==
    /\ UNCHANGED part
    /\ IF part \in ReviewParts THEN ReviewNext ELSE UNCHANGED vars
    /\ IF part \in PayoutParts THEN PayoutNext ELSE UNCHANGED payoutVars
    /\ IF part \in CapacityParts THEN CapacityNext ELSE UNCHANGED capacityVars

LendingSpec == LendingInit /\ [][LendingNext]_<<part, vars, payoutVars, capacityVars>>

Symmetry == Permutations(User) \cup Permutations(Call)
----------------------------------------------------------------------------
(* Properties: those of the components.                                     *)

\* The rows of the lending components keep to the values their tables admit.
LendingTypeOK == TypeOK /\ LP!TypeOK /\ Capacity!TypeOK

PostedIsPaidOut == LP!PostedIsPaidOut

\* However handlers overlap, the limit a capacity evaluation answers is the largest amount
\* its rows admit; when nothing moves between an evaluation and the payout of what it let
\* through, no payout exceeds the rules of the branch.  Payouts and the counter post at
\* most one loan of an application where their handlers do not overlap, and an order the
\* gateway paid says posted once its event was carried out.
LendingIsCovered == LP!SerialPayout /\ Capacity!LimitIsLargest /\ Capacity!SerialCapacity

\* Both the workflow and the payouts implement what LoanReview promises of an
\* application.
ReviewImplemented == Review!Spec /\ LP!Review!Spec
=============================================================================
