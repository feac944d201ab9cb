----------------------------- MODULE LoanPayouts -----------------------------
(***************************************************************************)
(* Mobile-money disbursement of an approved loan application: the payout    *)
(* orders of src/src/modules/loan-applications (supabase/sql/086) and the   *)
(* payout events of the Snippe webhook.                                     *)
(*                                                                          *)
(* An order is written by the request that creates it, by the webhook and   *)
(* by polls, each from the row as it read it.  Whoever finds the payout     *)
(* completed posts the loan and marks the application and then the order.   *)
(* A report whose amount is missing or is not the amount of the order is    *)
(* not carried out, and the gateway is asked for whole shillings.           *)
(* Meanwhile the application may be disbursed over the counter, and other   *)
(* people work on it as LoanReview allows.                                  *)
(* The gateway (external) settles a payout once and repeats an event until  *)
(* it is answered.                                                          *)
(***************************************************************************)
EXTENDS Naturals, FiniteSets

CONSTANTS
    Application, User, Required, NoUser,    \* as in LoanReview
    Order,          \* ids of loan_disbursement_orders
    Call,           \* handlers at work at the same time
    MaxCycle,       \* bound: submissions of an application
    MaxLoans,       \* bound: loans posted for an application
    MaxFaults,      \* bound: handlers that fail
    NoOrder, NoApplication

\* What the module asks of its constants; MCLending assumes it of those it gives.
PayoutsAssumption ==
    /\ MaxLoans \in Nat /\ MaxFaults \in Nat
    /\ NoOrder \notin Order /\ NoApplication \notin Application

VARIABLES
    state, maker, needed, cycle, yes, overlapped,   \* the application, as in LoanReview
    orders,     \* loan_disbursement_orders
    payout,     \* what the gateway did of each order
    sent,       \* orders whose outcome the gateway has to deliver
    processed,  \* orders whose event is in webhook_events
    ignored,    \* history: orders whose event was answered but not carried out
    loans,      \* loans posted by a payout for each application
    counter,    \* loans posted over the counter
    credited,   \* applications whose loan_id is set
    calls,      \* the handlers at work
    faults      \* handlers that failed

Review == INSTANCE LoanReview
application == <<state, maker, needed, cycle, yes>>
books == <<loans, counter, credited>>
tables == <<orders, payout, sent, processed, ignored, books>>
vars == <<application, overlapped, tables, calls, faults>>

Status == {"absent", "created", "pending", "completed", "failed", "expired", "posted"}

\* Mutant: an order the gateway is at work on does not count as open.
OpenStatusForgetful == {"created", "completed"}

OpenStatus == {"created", "pending", "completed"}
Outcome == {"completed", "failed"}

\* ref: provider_ref is set; loan: loan_id is; cents: amount is not a whole number.  An
\* order that got its loan from the application has no journal_id, and an event for it
\* writes the same row again.
Row == [ status : Status, app : Application \cup {NoApplication}, ref : BOOLEAN,
         loan : BOOLEAN, cents : BOOLEAN ]
NoRow == [ status |-> "absent", app |-> NoApplication, ref |-> FALSE, loan |-> FALSE,
           cents |-> FALSE ]

PC == {"idle", "resume", "insert", "send", "update", "load", "query", "apply", "read",
       "post", "mark", "record", "store", "catch"}
CallState == [ pc : PC, kind : {"none", "initiate", "webhook", "poll", "cash"},
               app : Application \cup {NoApplication}, order : Order \cup {NoOrder},
               posted : BOOLEAN,    \* the row as the webhook read it said posted
               report : Outcome \cup {"none", "open", "expired"} ]
Idle == [pc |-> "idle", kind |-> "none", app |-> NoApplication, order |-> NoOrder,
         posted |-> FALSE, report |-> "none"]

Working(a) == {c \in Call : calls[c].app = a}
OpenOrders(a) == {o \in Order : orders[o].app = a /\ orders[o].status \in OpenStatus}
MayComplete(o) == payout[o] \in {"open", "completed"}

\* A handler is at work on the application, or the gateway may have paid it out.
Underway(a) == Working(a) # {} \/ \E o \in Order : orders[o].app = a /\ MayComplete(o)

Begin(c, call) ==
    /\ calls[c].pc = "idle"
    /\ calls' = [calls EXCEPT ![c] = call]
    /\ overlapped' = IF Working(call.app) # {} THEN overlapped \cup {call.app} ELSE overlapped
Goto(c, pc) == calls' = [calls EXCEPT ![c].pc = pc] /\ UNCHANGED overlapped
Answer(c) == calls' = [calls EXCEPT ![c] = Idle] /\ UNCHANGED overlapped
\* The payout is completed: the loan is to be posted.
Finalize(c) ==
    /\ calls' = [calls EXCEPT ![c].pc = "read", ![c].report = "none", ![c].posted = FALSE]
    /\ UNCHANGED overlapped
\* A webhook records its event before it answers.
Finish(c) == IF calls[c].kind = "webhook" THEN Goto(c, "store") ELSE Answer(c)

\* The handler throws: the initiation still writes failed; a webhook answers 200 all
\* the same, so its event is not repeated.
Throw(c) ==
    /\ calls' = [calls EXCEPT ![c] =
           IF @.kind = "initiate" /\ @.pc \notin {"resume", "insert"}
           THEN [@ EXCEPT !.pc = "catch"] ELSE Idle]
    /\ sent' = IF calls[c].kind = "webhook" THEN sent \ {calls[c].order} ELSE sent

\* The unique index on the open orders of an application admits the status.
Admitted(o, s) == s \in OpenStatus => OpenOrders(orders[o].app) \subseteq {o}

Init ==
    /\ Review!Init
    /\ orders = [o \in Order |-> NoRow]
    /\ payout = [o \in Order |-> "none"]
    /\ sent = {} /\ processed = {} /\ ignored = {}
    /\ loans = [a \in Application |-> 0] /\ counter = loans /\ credited = {}
    /\ calls = [c \in Call |-> Idle]
    /\ faults = 0
----------------------------------------------------------------------------
(* initiateMobileLoanDisbursement and syncPendingLoanDisbursementOrder.     *)

\* Where a sync goes from the row as read.
SyncPC(o) ==
    CASE orders[o].status = "completed" -> "read"
      [] orders[o].status \in {"created", "pending"} /\ orders[o].ref -> "query"
      [] OTHER -> "idle"

\* disburseLoanApplication checks the application it read, then looks for an order.
InitiateMobileLoanDisbursement(c, a) ==
    /\ state[a] = "approved" /\ a \notin credited
    /\ Begin(c, [Idle EXCEPT !.pc = "resume", !.kind = "initiate", !.app = a])
    /\ UNCHANGED <<application, tables, faults>>

Resume(c) ==
    LET a == calls[c].app IN
    /\ calls[c].pc = "resume"
    /\ \/ OpenOrders(a) = {} /\ Goto(c, "insert")
       \/ \E o \in OpenOrders(a) :
             /\ calls' = [calls EXCEPT ![c] = IF SyncPC(o) = "idle" THEN Idle ELSE
                    [@ EXCEPT !.pc = SyncPC(o), !.kind = "poll", !.order = o]]
             /\ UNCHANGED overlapped
    /\ UNCHANGED <<application, tables, faults>>

\* The amount is the application's, a numeric(18,2).
NewOrder(a, cents) == [NoRow EXCEPT !.status = "created", !.app = a, !.cents = cents]

\* The unique index refuses a second open order.
InsertOrder(c) ==
    LET a == calls[c].app IN
    /\ calls[c].pc = "insert"
    /\ \/ OpenOrders(a) # {} /\ Answer(c) /\ UNCHANGED orders
       \/ /\ OpenOrders(a) = {}
          /\ \E o \in Order, cents \in BOOLEAN :
                /\ orders[o].status = "absent"
                /\ orders' = [orders EXCEPT ![o] = NewOrder(a, cents)]
                /\ calls' = [calls EXCEPT ![c].pc = "send", ![c].order = o]
          /\ UNCHANGED overlapped
    /\ UNCHANGED <<application, payout, sent, processed, ignored, books, faults>>

\* createPayoutIntent; nobody looks at the amount it answers.  When it throws, the gateway
\* may have the payout all the same.
CreatePayoutIntent(c) ==
    LET o == calls[c].order IN
    /\ calls[c].pc = "send"
    /\ \/ \E outcome \in {"open", "completed", "failed"} :
             /\ payout' = [payout EXCEPT ![o] = outcome]
             /\ sent' = IF outcome = "open" THEN sent ELSE sent \cup {o}
             /\ calls' = [calls EXCEPT ![c].pc = "update", ![c].report = outcome]
             /\ UNCHANGED <<faults, overlapped>>
       \/ /\ faults < MaxFaults /\ faults' = faults + 1
          /\ \E reached \in BOOLEAN :
                payout' = [payout EXCEPT ![o] = IF reached THEN "open" ELSE "none"]
          /\ calls' = [calls EXCEPT ![c].pc = "catch"]
          /\ overlapped' = overlapped \cup {calls[c].app}
          /\ UNCHANGED sent
    /\ UNCHANGED <<application, orders, processed, ignored, books>>

\* Mutant: the gateway's word for the status is stored as it came.
NormalizeNothing(r) == r

NormalizePayoutStatus(r) == IF r = "open" THEN "pending" ELSE r

UpdateInitiated(c) ==
    LET o == calls[c].order
        s == NormalizePayoutStatus(calls[c].report)
    IN
    /\ calls[c].pc = "update"
    /\ IF Admitted(o, s)
       THEN /\ orders' = [orders EXCEPT ![o].status = s, ![o].ref = TRUE]
            /\ IF s = "completed" THEN Finalize(c) ELSE Answer(c)
            /\ UNCHANGED sent
       ELSE Throw(c) /\ UNCHANGED <<orders, overlapped>>
    /\ UNCHANGED <<application, payout, processed, ignored, books, faults>>

\* The catch block writes failed over whatever the order says by now.
CatchFailed(c) ==
    /\ calls[c].pc = "catch"
    /\ orders' = [orders EXCEPT ![calls[c].order].status = "failed"]
    /\ Answer(c)
    /\ UNCHANGED <<application, payout, sent, processed, ignored, books, faults>>

GetLoanDisbursementOrderStatus(c, o) ==
    /\ SyncPC(o) # "idle"
    /\ Begin(c, [Idle EXCEPT !.pc = SyncPC(o), !.kind = "poll", !.app = orders[o].app,
                             !.order = o])
    /\ UNCHANGED <<application, tables, faults>>

\* The gateway is asked for Math.round(amount), and its reports are compared with amount.
AmountMatches(o) == ~orders[o].cents

\* getPayoutStatus.  A payout it does not find, has open, or reports with another amount
\* or none ends the poll before any write.  A payout still open past its expires_at is
\* written off as expired, though the gateway may yet complete it.
Query(c) ==
    LET o == calls[c].order IN
    /\ calls[c].pc = "query"
    /\ \/ Answer(c)
       \/ /\ AmountMatches(o) /\ payout[o] = "open"
          /\ calls' = [calls EXCEPT ![c].pc = "apply", ![c].report = "expired"]
          /\ overlapped' = overlapped \cup {calls[c].app}
       \/ /\ AmountMatches(o) /\ payout[o] \in Outcome
          /\ calls' = [calls EXCEPT ![c].pc = "apply", ![c].report = payout[o]]
          /\ UNCHANGED overlapped
    /\ UNCHANGED <<application, tables, faults>>
----------------------------------------------------------------------------
(* processSnippeLoanDisbursementPayoutEvent.                                *)

Webhook(c, o) ==
    /\ o \in sent
    /\ \/ /\ o \in processed
          /\ sent' = sent \ {o}
          /\ UNCHANGED <<calls, overlapped>>
       \/ /\ o \notin processed
          /\ Begin(c, [Idle EXCEPT !.pc = "load", !.kind = "webhook", !.app = orders[o].app,
                                   !.order = o, !.report = payout[o]])
          /\ UNCHANGED sent
    /\ UNCHANGED <<application, orders, payout, processed, ignored, books, faults>>

\* An event with another amount or none is answered 200 and recorded, and the order is
\* left as it is.
Load(c) ==
    LET o == calls[c].order IN
    /\ calls[c].pc = "load"
    /\ \/ /\ AmountMatches(o)
          /\ calls' = [calls EXCEPT ![c].pc = "apply", ![c].posted = orders[o].status = "posted"]
          /\ UNCHANGED <<ignored, overlapped>>
       \/ ignored' = ignored \cup {o} /\ Finish(c)
    /\ UNCHANGED <<application, orders, payout, sent, processed, books, faults>>

\* Mutant: the order of an event is posted whatever the event says.
AppliedBlind(call) == "completed"

\* The status a settled payout is written as, over the row as read.
Applied(call) ==
    IF call.kind = "webhook" /\ call.report = "completed" /\ call.posted
    THEN "posted" ELSE call.report

\* The write of the outcome; markLoanDisbursementOrderFailed is its other half.
Apply(c) ==
    LET o == calls[c].order
        s == Applied(calls[c])
    IN
    /\ calls[c].pc = "apply"
    /\ IF Admitted(o, s)
       THEN /\ orders' = [orders EXCEPT ![o].status = s, ![o].ref = TRUE]
            /\ IF s = "completed" \/ (s = "posted" /\ ~orders[o].loan)
               THEN Finalize(c) ELSE Finish(c)
            /\ UNCHANGED sent
       ELSE Throw(c) /\ UNCHANGED <<orders, overlapped>>
    /\ UNCHANGED <<application, payout, processed, ignored, books, faults>>

StoreProcessedWebhookEvent(c) ==
    /\ calls[c].pc = "store"
    /\ processed' = processed \cup {calls[c].order}
    /\ sent' = sent \ {calls[c].order}
    /\ Answer(c)
    /\ UNCHANGED <<application, orders, payout, ignored, books, faults>>
----------------------------------------------------------------------------
(* finalizeCompletedLoanDisbursementOrder and the cash branch of            *)
(* disburseLoanApplication, which both post the loan and mark the           *)
(* application.                                                             *)

\* Over the counter; open payout orders are not looked for.
DisburseLoanApplication(c, a) ==
    /\ state[a] = "approved" /\ a \notin credited
    /\ calls[c].pc = "idle"
    /\ calls' = [calls EXCEPT ![c] = [Idle EXCEPT !.pc = "post", !.kind = "cash", !.app = a]]
    /\ overlapped' = IF Underway(a) THEN overlapped \cup {a} ELSE overlapped
    /\ UNCHANGED <<application, tables, faults>>

Paid(a) == state[a] = "disbursed" /\ a \in credited

\* The application is read again: disbursed with a loan, the order takes that loan.
ReadApplication(c) ==
    /\ calls[c].pc = "read"
    /\ Goto(c, IF Paid(calls[c].app) THEN "record" ELSE "post")
    /\ UNCHANGED <<application, tables, faults>>

\* loanDisburse, with no workflow check or approval gate, and for a payout no cash control.
PostLoan(c) ==
    LET a == calls[c].app IN
    /\ calls[c].pc = "post" /\ loans[a] + counter[a] < MaxLoans
    /\ IF calls[c].kind = "cash"
       THEN counter' = [counter EXCEPT ![a] = @ + 1] /\ UNCHANGED loans
       ELSE loans' = [loans EXCEPT ![a] = @ + 1] /\ UNCHANGED counter
    /\ Goto(c, "mark")
    /\ UNCHANGED <<application, orders, payout, sent, processed, ignored, credited, faults>>

\* applyLoanApplicationDisbursedState writes over whatever the application became.
MarkDisbursed(c) ==
    LET a == calls[c].app IN
    /\ calls[c].pc = "mark"
    /\ IF state[a] = "deleted"
       THEN Answer(c) /\ UNCHANGED <<application, credited>>
       ELSE /\ Review!Move(a, "disbursed") /\ Review!Forget(a)
            /\ credited' = credited \cup {a}
            /\ UNCHANGED cycle
            /\ IF calls[c].kind = "cash" THEN Answer(c) ELSE Goto(c, "record")
    /\ UNCHANGED <<orders, payout, sent, processed, ignored, loans, counter, faults>>

RecordPosted(c) ==
    /\ calls[c].pc = "record"
    /\ orders' = [orders EXCEPT ![calls[c].order].status = "posted",
                                ![calls[c].order].loan = TRUE]
    /\ Finish(c)
    /\ UNCHANGED <<application, payout, sent, processed, ignored, books, faults>>
----------------------------------------------------------------------------
(* The gateway, the other work on the application, and failures.            *)

Settle(o) ==
    /\ payout[o] = "open"
    /\ \E outcome \in Outcome : payout' = [payout EXCEPT ![o] = outcome]
    /\ sent' = sent \cup {o}
    /\ UNCHANGED <<application, orders, processed, ignored, books, calls, faults, overlapped>>

\* Others go on with the application, perhaps while a payout of it may complete.
\* Disbursing over the counter is a handler above; deleting is left to LoanApplications.
ReviewStep(a) ==
    /\ Review!Step(a) /\ cycle'[a] <= MaxCycle
    /\ state'[a] \notin {"disbursed", "deleted"}
    /\ overlapped' = IF Underway(a) THEN overlapped \cup {a} ELSE overlapped
    /\ UNCHANGED <<tables, calls, faults>>

\* A statement or a call of the gateway fails.
Fail(c) ==
    /\ calls[c].pc \notin {"idle", "catch"} /\ faults < MaxFaults
    /\ faults' = faults + 1
    /\ overlapped' = overlapped \cup {calls[c].app}
    /\ Throw(c)
    /\ UNCHANGED <<application, orders, payout, processed, ignored, books>>

\* The process stops.
Die(c) ==
    /\ calls[c].pc # "idle" /\ faults < MaxFaults
    /\ faults' = faults + 1
    /\ overlapped' = overlapped \cup {calls[c].app}
    /\ calls' = [calls EXCEPT ![c] = Idle]
    /\ UNCHANGED <<application, tables>>

Statement(c) ==
    \/ Resume(c) \/ InsertOrder(c) \/ CreatePayoutIntent(c) \/ UpdateInitiated(c)
    \/ CatchFailed(c) \/ Query(c) \/ Load(c) \/ Apply(c) \/ StoreProcessedWebhookEvent(c)
    \/ ReadApplication(c) \/ PostLoan(c) \/ MarkDisbursed(c) \/ RecordPosted(c)

Next ==
    \/ \E c \in Call :
          \/ Statement(c) \/ Fail(c) \/ Die(c)
          \/ \E a \in Application :
                InitiateMobileLoanDisbursement(c, a) \/ DisburseLoanApplication(c, a)
          \/ \E o \in Order : GetLoanDisbursementOrderStatus(c, o) \/ Webhook(c, o)
    \/ \E o \in Order : Settle(o)
    \/ \E a \in Application : ReviewStep(a)

Fairness ==
    /\ \A c \in Call : WF_vars(Statement(c))
    /\ \A o \in Order : SF_vars(\E c \in Call : Webhook(c, o))

Spec == Init /\ [][Next]_vars
FairSpec == Spec /\ Fairness
----------------------------------------------------------------------------
(* Properties.                                                              *)

TypeOK ==
    /\ state \in [Application -> Review!State]
    /\ orders \in [Order -> Row]
    /\ payout \in [Order -> Outcome \cup {"none", "open"}]
    /\ processed \subseteq Order /\ sent \subseteq Order /\ ignored \subseteq Order
    /\ loans \in [Application -> 0..MaxLoans] /\ counter \in [Application -> 0..MaxLoans]
    /\ credited \subseteq Application
    /\ calls \in [Call -> CallState]
    /\ faults \in 0..MaxFaults
    /\ overlapped \subseteq Application

\* A loan is posted by a payout order only when the gateway has paid the order out,
\* and an order that has a loan was paid out, and its application has a loan posted by a
\* payout or over the counter, whatever stale writes did between.
PostedIsPaidOut ==
    /\ \A a \in Application : loans[a] > 0 =>
          \E o \in Order : orders[o].app = a /\ payout[o] = "completed"
    /\ \A o \in Order : orders[o].loan =>
          loans[orders[o].app] + counter[orders[o].app] > 0 /\ payout[o] = "completed"

\* When the handlers of an application ran one after the other, none failed, no open
\* payout was written off and nothing was paid over the counter while a payout could
\* complete: one payout at most is open or completed, one loan at most is posted by
\* payouts and the counter together, an order that says posted was paid out and has its
\* loan, and an order the gateway completed says posted once its event was handled,
\* unless the amount in the event made the handler leave the order alone.
SerialPayout ==
    \A a \in Application \ overlapped : Working(a) = {} =>
        /\ loans[a] + counter[a] <= 1
        /\ Cardinality({o \in Order : orders[o].app = a /\ MayComplete(o)}) <= 1
        /\ \A o \in Order : orders[o].app = a =>
              /\ orders[o].status = "posted" => orders[o].loan /\ payout[o] = "completed"
              /\ o \in processed \ ignored /\ payout[o] = "completed" =>
                    orders[o].status = "posted"
=============================================================================
