------------------------------ MODULE Treasury ------------------------------
(***************************************************************************)
(* Investment orders: src/src/modules/treasury/treasury.service.js over     *)
(* supabase/sql/081.                                                        *)
(*                                                                          *)
(* An order is created, reviewed (rejected, approved, or escalated to a     *)
(* checker) and executed: a journal, a transaction, the position of the     *)
(* asset and the order, each a statement of its own that goes by what was   *)
(* read at the start.  Nothing locks an order or a position, and the cash   *)
(* a buy may use is the ledger's when it asks.  One unit costs one; the     *)
(* average cost of a position, and limits that only warn, are left out.     *)
(***************************************************************************)
EXTENDS Integers, FiniteSets

CONSTANTS
    Asset, Order, Request, Journal,
    Call,               \* handlers at work at the same time
    Cash, Reserve,      \* cash at the start, and what a buy must leave of it
    NoAsset, NoOrder, NoRequest, NoJournal

VARIABLES
    trades,     \* treasury_orders
    positions,  \* treasury_portfolio_positions: units and price
    ledger,     \* the journals of orders and income
    booked,     \* journals with a treasury_transactions row
    income,     \* journals with a treasury_income row
    requests,   \* approval requests of operation treasury.order_execute
    deskCalls,  \* the handlers at work
    unsettled   \* history: handlers overlapped, or failed after a journal

vars == <<trades, positions, ledger, booked, income, requests, deskCalls, unsettled>>

Status == {"absent", "pending_review", "rejected", "pending_approval", "approved", "executed"}
\* small: below the threshold of the approval policy.
OrderRow == [ status : Status, asset : Asset \cup {NoAsset}, kind : {"buy", "sell"},
              small : BOOLEAN, request : Request \cup {NoRequest} ]
NoRow == [ status |-> "absent", asset |-> NoAsset, kind |-> "buy", small |-> FALSE,
           request |-> NoRequest ]

Position == [units : Nat, price : {1, 2}]

\* request: what the order was escalated with, when it was read.
JournalRow == [kind : {"none", "buy", "sell", "income"}, asset : Asset \cup {NoAsset},
               order : Order \cup {NoOrder}, request : Request \cup {NoRequest}]
NoEntry == [kind |-> "none", asset |-> NoAsset, order |-> NoOrder, request |-> NoRequest]

\* order and row: as read; position: what the execution will write.
DeskCall == [ pc : {"idle", "insert", "review", "gate", "write", "check", "approval", "position",
                    "journal", "transaction", "persist", "executed", "mark", "price",
                    "receive", "incomeRow"},
              order : Order \cup {NoOrder}, row : OrderRow, position : Position,
              journal : Journal \cup {NoJournal} ]
NoPosition == [units |-> 0, price |-> 1]
Idle == [pc |-> "idle", order |-> NoOrder, row |-> NoRow, position |-> NoPosition,
         journal |-> NoJournal]

Busy == {c \in Call : deskCalls[c].pc # "idle"}

Begin(c, call) ==
    /\ deskCalls[c].pc = "idle"
    /\ deskCalls' = [deskCalls EXCEPT ![c] = call]
    /\ unsettled' = (unsettled \/ Busy # {})
Goto(c, pc) == deskCalls' = [deskCalls EXCEPT ![c].pc = pc]
Return(c) == deskCalls' = [deskCalls EXCEPT ![c] = Idle]

Entries(kind) == {j \in Journal : ledger[j].kind = kind}
EntriesOf(o) == {j \in Journal : ledger[j].order = o}
Units(js) == Cardinality(js \cap Entries("buy")) - Cardinality(js \cap Entries("sell"))
TotalCash == Cash - Units(Journal) + Cardinality(Entries("income"))

\* post_journal_entry commits a journal and its balances.
PostTreasuryJournalEntry(c, entry) ==
    /\ \E j \in Journal : ledger[j] = NoEntry
    /\ LET j == CHOOSE j \in Journal : ledger[j] = NoEntry IN
       /\ ledger' = [ledger EXCEPT ![j] = entry]
       /\ deskCalls' = [deskCalls EXCEPT ![c].journal = j, ![c].pc = "transaction"]

InsertTransaction(c) == booked' = booked \cup {deskCalls[c].journal}

Init ==
    /\ trades = [o \in Order |-> NoRow]
    /\ positions = [a \in Asset |-> NoPosition]
    /\ ledger = [j \in Journal |-> NoEntry]
    /\ booked = {} /\ income = {}
    /\ requests = [q \in Request |-> "absent"]
    /\ deskCalls = [c \in Call |-> Idle]
    /\ unsettled = FALSE
----------------------------------------------------------------------------
(* Creation and review.                                                     *)

Breached(kind) == kind = "buy" /\ TotalCash - 1 < Reserve
AfterTrade(position, kind) ==
    [position EXCEPT !.units = IF kind = "buy" THEN @ + 1 ELSE @ - 1]

\* Mutant: a position may be sold once more than it holds.
SellableAtZero(position, kind) == kind = "sell" => position.units >= 0

Sellable(position, kind) == kind = "sell" => position.units >= 1

CreateOrder(c, a, kind, small) ==
    /\ ~Breached(kind) /\ Sellable(positions[a], kind)
    /\ Begin(c, [Idle EXCEPT !.pc = "insert", !.row =
           [NoRow EXCEPT !.status = "pending_review", !.asset = a, !.kind = kind,
                         !.small = small]])
    /\ UNCHANGED <<trades, positions, ledger, booked, income, requests>>

InsertOrder(c) ==
    /\ deskCalls[c].pc = "insert" /\ \E o \in Order : trades[o] = NoRow
    /\ trades' = [trades EXCEPT ![CHOOSE o \in Order : trades[o] = NoRow] = deskCalls[c].row]
    /\ Return(c)
    /\ UNCHANGED <<positions, ledger, booked, income, requests, unsettled>>

ReviewOrder(c, o) ==
    /\ trades[o].status = "pending_review"
    /\ Begin(c, [Idle EXCEPT !.pc = "review", !.order = o, !.row = trades[o]])
    /\ UNCHANGED <<trades, positions, ledger, booked, income, requests>>

\* The update names the order's id only, here and below.
RejectOrder(c) ==
    /\ deskCalls[c].pc = "review"
    /\ trades' = [trades EXCEPT ![deskCalls[c].order].status = "rejected"]
    /\ Return(c)
    /\ UNCHANGED <<positions, ledger, booked, income, requests, unsettled>>

EvaluateOrderPolicy(c) ==
    /\ deskCalls[c].pc \in {"review", "check"}
    /\ IF Breached(deskCalls[c].row.kind) THEN Return(c)
       ELSE Goto(c, CASE deskCalls[c].pc = "review" -> "gate"
                      [] deskCalls[c].row.status = "pending_approval" -> "approval"
                      [] OTHER -> "position")
    /\ UNCHANGED <<trades, positions, ledger, booked, income, requests, unsettled>>

\* ensureOperationApproval asks for a checker when the amount reaches the threshold, or
\* a limit was exceeded: it is then taken as the threshold at least.  A super
\* admin's review needs none.
EscalateOrder(c) ==
    /\ deskCalls[c].pc = "gate"
    /\ \/ UNCHANGED <<requests, trades>> /\ Goto(c, "write")
       \/ /\ \E q \in Request : requests[q] = "absent"
          /\ LET q == CHOOSE q \in Request : requests[q] = "absent" IN
             /\ requests' = [requests EXCEPT ![q] = "pending"]
             /\ deskCalls' = [deskCalls EXCEPT ![c].pc = "write", ![c].row.request = q]
          /\ UNCHANGED trades
    /\ UNCHANGED <<positions, ledger, booked, income, unsettled>>

WriteReview(c) ==
    LET call == deskCalls[c] IN
    /\ call.pc = "write"
    /\ trades' = [trades EXCEPT ![call.order].request = call.row.request,
                                ![call.order].status =
           IF call.row.request # NoRequest THEN "pending_approval" ELSE "approved"]
    /\ Return(c)
    /\ UNCHANGED <<positions, ledger, booked, income, requests, unsettled>>

\* A checker decides, or the request expires: Approvals.
DecideRequest(q) ==
    /\ requests[q] = "pending"
    /\ \E s \in {"approved", "rejected"} : requests' = [requests EXCEPT ![q] = s]
    /\ UNCHANGED <<trades, positions, ledger, booked, income, deskCalls, unsettled>>
----------------------------------------------------------------------------
(* Execution.                                                               *)

Executable(row) == row.status \in {"approved", "pending_approval"}

ExecuteOrder(c, o) ==
    /\ Executable(trades[o])
    /\ Begin(c, [Idle EXCEPT !.pc = "check", !.order = o, !.row = trades[o]])
    /\ UNCHANGED <<trades, positions, ledger, booked, income, requests>>

\* The gate goes by the order's own amount: below the threshold it lets the order
\* pass, whatever became of the request it was escalated with.
Passes(row) == row.small \/ requests[row.request] = "approved"

EnsureOperationApproval(c) ==
    /\ deskCalls[c].pc = "approval"
    /\ IF Passes(deskCalls[c].row) THEN Goto(c, "position") ELSE Return(c)
    /\ UNCHANGED <<trades, positions, ledger, booked, income, requests, unsettled>>

ReadPosition(c) ==
    LET row == deskCalls[c].row IN
    /\ deskCalls[c].pc = "position"
    /\ IF Sellable(positions[row.asset], row.kind)
       THEN deskCalls' = [deskCalls EXCEPT ![c].pc = "journal",
                              ![c].position = AfterTrade(positions[row.asset], row.kind)]
       ELSE Return(c)
    /\ UNCHANGED <<trades, positions, ledger, booked, income, requests, unsettled>>

PostOrder(c) ==
    LET row == deskCalls[c].row IN
    /\ deskCalls[c].pc = "journal"
    /\ PostTreasuryJournalEntry(c, [kind |-> row.kind, asset |-> row.asset,
           order |-> deskCalls[c].order, request |-> row.request])
    /\ UNCHANGED <<trades, positions, booked, income, requests, unsettled>>

InsertTreasuryTransaction(c) ==
    /\ deskCalls[c].pc = "transaction"
    /\ InsertTransaction(c)
    /\ Goto(c, IF deskCalls[c].order = NoOrder THEN "incomeRow" ELSE "persist")
    /\ UNCHANGED <<trades, positions, ledger, income, requests, unsettled>>

PersistPosition(c) ==
    /\ deskCalls[c].pc = "persist"
    /\ positions' = [positions EXCEPT ![deskCalls[c].row.asset] = deskCalls[c].position]
    /\ Goto(c, "executed")
    /\ UNCHANGED <<trades, ledger, booked, income, requests, unsettled>>

MarkExecuted(c) ==
    /\ deskCalls[c].pc = "executed"
    /\ trades' = [trades EXCEPT ![deskCalls[c].order].status = "executed"]
    /\ IF deskCalls[c].row.request # NoRequest THEN Goto(c, "mark") ELSE Return(c)
    /\ UNCHANGED <<positions, ledger, booked, income, requests, unsettled>>

\* A request that is not approved is an error, after everything is posted.
MarkApprovalRequestExecuted(c) ==
    LET q == deskCalls[c].row.request IN
    /\ deskCalls[c].pc = "mark"
    /\ requests' = IF requests[q] = "approved" THEN [requests EXCEPT ![q] = "executed"]
                   ELSE requests
    /\ Return(c)
    /\ UNCHANGED <<trades, positions, ledger, booked, income, unsettled>>
----------------------------------------------------------------------------
(* Valuation and income.                                                    *)

\* A position exists once something of the asset was bought.
UpdateValuation(c, a) ==
    /\ \E j \in booked : ledger[j].asset = a /\ ledger[j].kind = "buy"
    /\ Begin(c, [Idle EXCEPT !.pc = "price", !.position = [positions[a] EXCEPT !.price = 2],
                             !.row = [NoRow EXCEPT !.asset = a]])
    /\ UNCHANGED <<trades, positions, ledger, booked, income, requests>>

\* The whole row is written, units as read.
WriteValuation(c) ==
    /\ deskCalls[c].pc = "price"
    /\ positions' = [positions EXCEPT ![deskCalls[c].row.asset] = deskCalls[c].position]
    /\ Return(c)
    /\ UNCHANGED <<trades, ledger, booked, income, requests, unsettled>>

RecordIncome(c, a) ==
    /\ Begin(c, [Idle EXCEPT !.pc = "receive", !.row = [NoRow EXCEPT !.asset = a]])
    /\ UNCHANGED <<trades, positions, ledger, booked, income, requests>>

PostIncome(c) ==
    /\ deskCalls[c].pc = "receive"
    /\ PostTreasuryJournalEntry(c, [NoEntry EXCEPT !.kind = "income",
                                                   !.asset = deskCalls[c].row.asset])
    /\ UNCHANGED <<trades, positions, booked, income, requests, unsettled>>

InsertIncome(c) ==
    /\ deskCalls[c].pc = "incomeRow"
    /\ income' = income \cup {deskCalls[c].journal}
    /\ Return(c)
    /\ UNCHANGED <<trades, positions, ledger, booked, requests, unsettled>>

\* A statement fails or the process stops.
Fail(c) ==
    /\ deskCalls[c].pc # "idle"
    /\ Return(c)
    /\ unsettled' = (unsettled \/ deskCalls[c].journal # NoJournal)
    /\ UNCHANGED <<trades, positions, ledger, booked, income, requests>>

Next ==
    \/ \E q \in Request : DecideRequest(q)
    \/ \E c \in Call :
          \/ \E a \in Asset :
                \/ \E kind \in {"buy", "sell"}, small \in BOOLEAN : CreateOrder(c, a, kind, small)
                \/ UpdateValuation(c, a) \/ RecordIncome(c, a)
          \/ \E o \in Order : ReviewOrder(c, o) \/ ExecuteOrder(c, o)
          \/ InsertOrder(c) \/ RejectOrder(c) \/ EvaluateOrderPolicy(c) \/ EscalateOrder(c)
          \/ WriteReview(c) \/ EnsureOperationApproval(c) \/ ReadPosition(c) \/ PostOrder(c)
          \/ InsertTreasuryTransaction(c) \/ PersistPosition(c) \/ MarkExecuted(c)
          \/ MarkApprovalRequestExecuted(c) \/ WriteValuation(c) \/ PostIncome(c)
          \/ InsertIncome(c) \/ Fail(c)

Spec == Init /\ [][Next]_vars
----------------------------------------------------------------------------
(* Properties.                                                              *)

TypeOK ==
    /\ trades \in [Order -> OrderRow]
    /\ positions \in [Asset -> Position]
    /\ ledger \in [Journal -> JournalRow]
    /\ booked \subseteq Journal /\ income \subseteq booked
    /\ requests \in [Request -> {"absent", "pending", "approved", "rejected", "executed"}]
    /\ deskCalls \in [Call -> DeskCall]

\* However handlers overlap or fail: what an order above the threshold was escalated with
\* has been granted when the order has a journal, and a request marked executed
\* stands behind a journal with its transaction.
EscalatedIsGranted ==
    /\ \A j \in Journal : ledger[j].request # NoRequest =>
          trades[ledger[j].order].small \/ requests[ledger[j].request] \in {"approved", "executed"}
    /\ \A q \in Request : requests[q] = "executed" =>
          \E j \in booked : ledger[j].request = q

\* When handlers ran one after the other and none failed after its journal: exactly the
\* executed orders have a journal, and one; every journal has its transaction and
\* every income its row; a position is what was bought and not sold; and no buy took
\* the cash below the reserve.
SerialTreasury ==
    ~unsettled /\ Busy = {} =>
        /\ \A o \in Order : Cardinality(EntriesOf(o)) =
              IF trades[o].status = "executed" THEN 1 ELSE 0
        /\ \A j \in Journal : ledger[j] # NoEntry => j \in booked
        /\ Entries("income") = income
        /\ \A a \in Asset :
              positions[a].units = Units({j \in Journal : ledger[j].asset = a})
        /\ Entries("buy") # {} => TotalCash >= Reserve
=============================================================================
