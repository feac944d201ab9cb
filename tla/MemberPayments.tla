-------------------------- MODULE MemberPayments --------------------------
(***************************************************************************)
(* Mobile-money orders: src/src/modules/member-payments and the webhook of *)
(* src/src/modules/payments.                                               *)
(*                                                                         *)
(* A row of payment_orders is written by five kinds of handler: the        *)
(* member's initiation, the gateway's webhook, the older Azam callback,    *)
(* a status poll, and a staff reconciliation.  Each reads the row, awaits  *)
(* other calls, and updates it by id without asking that it be unchanged.  *)
(* Every read, gateway call, posting and write is an action.  The gateway  *)
(* (external) settles an order once, charges what it was asked, and        *)
(* delivers each event until it is answered, perhaps twice at a time.  The *)
(* older callback is a public route that takes its body at its word, and   *)
(* a status answer without an amount is carried out uncompared: the        *)
(* histories claimed and unpriced record where that happened.              *)
(***************************************************************************)
EXTENDS Naturals, FiniteSets

CONSTANTS
    Order,      \* payment order ids
    Amount,     \* amounts, in half shillings
    Call,       \* handlers at work at the same time
    MaxFaults,  \* bound: handlers that fail or die, and callbacks from elsewhere
    MaxPosted,  \* bound: journals counted per order
    NoOrder

ASSUME PaymentsAssumption ==
    /\ Amount \subseteq Nat \ {0}
    /\ MaxFaults \in Nat /\ MaxPosted \in Nat
    /\ NoOrder \notin Order

VARIABLES
    orders,     \* payment_orders
    gateway,    \* the gateway of each order
    provider,   \* what the gateway knows of each order
    sent,       \* events the gateway has to deliver
    acked,      \* events that got their 200
    processed,  \* webhook_events
    due,        \* orders past expires_at
    postings,   \* journals posted for each order
    calls,      \* the handlers at work
    faults,     \* handlers that failed or died, and callbacks from elsewhere
    disturbed,  \* history: orders whose handlers overlapped, failed or died
    missed,     \* history: orders a handler of which failed and answered
    claimed,    \* history: orders called paid by a callback not of their gateway
    unpriced    \* history: orders the gateway reported on without an amount

vars == <<orders, gateway, provider, sent, acked, processed, due, postings,
          calls, faults, disturbed, missed, claimed, unpriced>>

Status == {"absent", "created", "pending", "paid", "failed", "expired", "posted"}
Outcome == {"paid", "failed", "expired"}
Event == [order : Order, report : Outcome \cup {"pending"}]

\* posted: posted_at is set; ref: provider_ref is.
Row == [status : Status, amount : Amount \cup {0}, posted : BOOLEAN, ref : BOOLEAN]
NoRow == [status |-> "absent", amount |-> 0, posted |-> FALSE, ref |-> FALSE]
AzamRow(amt) == [status |-> "pending", amount |-> amt, posted |-> FALSE, ref |-> TRUE]

\* azam: the Azam callback, called by that gateway; claim: the same route, called otherwise.
Kind == {"none", "initiate", "webhook", "azam", "claim", "poll", "reconcile"}
PC == {"idle", "intent", "update", "load", "query", "expire", "apply", "post", "record", "store"}
CallState == [ pc : PC, kind : Kind, order : Order \cup {NoOrder},
               seen : Status,                       \* status of the row as read
               report : Outcome \cup {"pending", "timeout", "none"} ]
Idle == [pc |-> "idle", kind |-> "none", order |-> NoOrder, seen |-> "absent", report |-> "none"]

\* createPaymentIntent sends Math.round(amount).
Charged(o) == 2 * ((orders[o].amount + 1) \div 2)
AmountMatches(o) == Charged(o) = orders[o].amount

Working(o) == {c \in Call : calls[c].order = o}

Begin(c, kind, o, pc, seen, report) ==
    /\ calls[c].pc = "idle"
    /\ calls' = [calls EXCEPT ![c] = [pc |-> pc, kind |-> kind, order |-> o,
                                      seen |-> seen, report |-> report]]
    /\ disturbed' = IF Working(o) # {} THEN disturbed \cup {o} ELSE disturbed

Goto(c, pc) == calls' = [calls EXCEPT ![c].pc = pc] /\ UNCHANGED acked
EventOf(call) == [order |-> call.order, report |-> call.report]

\* The handler answers; the answer to an event is a 200 whatever happened.
Answer(c) ==
    /\ calls' = [calls EXCEPT ![c] = Idle]
    /\ acked' = IF calls[c].kind \in {"webhook", "azam"}
                THEN acked \cup {EventOf(calls[c])} ELSE acked

SetStatus(o, status) == orders' = [orders EXCEPT ![o].status = status]

Init ==
    /\ \E azam \in SUBSET Order, amt \in Amount :
          /\ amt % 2 = 0
          /\ gateway = [o \in Order |-> IF o \in azam THEN "azampay" ELSE "snippe"]
          /\ orders = [o \in Order |-> IF o \in azam THEN AzamRow(amt) ELSE NoRow]
          /\ provider = [o \in Order |-> IF o \in azam THEN "open" ELSE "none"]
    /\ sent = {} /\ acked = {} /\ processed = {} /\ due = {}
    /\ postings = [o \in Order |-> 0]
    /\ calls = [c \in Call |-> Idle]
    /\ faults = 0
    /\ disturbed = {} /\ missed = {} /\ claimed = {} /\ unpriced = {}
---------------------------------------------------------------------------
(* initiatePortalPayment and initiateLoanRepaymentPayment.                  *)

Initiate(c, o, amt) ==
    /\ orders[o] = NoRow
    /\ Begin(c, "initiate", o, "intent", "created", "none")
    /\ orders' = [orders EXCEPT ![o] = [NoRow EXCEPT !.status = "created", !.amount = amt]]
    /\ UNCHANGED <<gateway, provider, sent, acked, processed, due, postings, faults, missed,
                   claimed, unpriced>>

\* createPaymentIntent: a refusal made no order at the gateway; after a timeout or
\* a broken connection the gateway may have one all the same.
CreatePaymentIntent(c) ==
    LET o == calls[c].order IN
    /\ calls[c].pc = "intent"
    /\ \E opened \in BOOLEAN, report \in {"pending", "timeout", "failed"} :
          /\ report = "pending" => opened
          /\ provider' = IF opened THEN [provider EXCEPT ![o] = "open"] ELSE provider
          /\ calls' = [calls EXCEPT ![c].pc = "update", ![c].report = report]
    /\ UNCHANGED <<orders, gateway, sent, acked, processed, due, postings, faults, disturbed,
                   missed, claimed, unpriced>>

\* The update after the gateway's answer.  When the update or the audit row that
\* follows it fails, the catch block writes failed over the order.
UpdateInitiated(c) ==
    LET call == calls[c]
        o    == call.order
    IN
    /\ call.pc = "update"
    /\ \/ /\ call.report = "pending"
          /\ \E wrote \in BOOLEAN, threw \in BOOLEAN :
                /\ wrote \/ threw
                /\ orders' = IF wrote
                             THEN [orders EXCEPT ![o].status = "pending", ![o].ref = TRUE]
                             ELSE orders
                /\ IF threw
                   THEN /\ faults < MaxFaults /\ faults' = faults + 1
                        /\ calls' = [calls EXCEPT ![c].report = "failed"]
                        /\ UNCHANGED acked
                   ELSE Answer(c) /\ UNCHANGED faults
       \/ /\ call.report = "timeout" /\ SetStatus(o, "pending")
          /\ Answer(c) /\ UNCHANGED faults
       \/ /\ call.report = "failed" /\ SetStatus(o, "failed")
          /\ Answer(c) /\ UNCHANGED faults
    /\ UNCHANGED <<gateway, provider, sent, processed, due, postings, disturbed, missed,
                   claimed, unpriced>>
---------------------------------------------------------------------------
(* handleWebhook, processPaymentEvent and handleAzamCallback.               *)

\* Mutant: the event is recorded before it is worked on.
WebhookStoresFirst(c, e) ==
    /\ e \in sent \ (acked \cup processed) /\ gateway[e.order] = "snippe"
    /\ Begin(c, "webhook", e.order, "load", "absent", e.report)
    /\ processed' = processed \cup {e}
    /\ UNCHANGED <<orders, gateway, provider, sent, acked, due, postings, faults, missed,
                   claimed, unpriced>>

\* findWebhookEventByEventId: a processed event is a duplicate and answered at once.
Webhook(c, e) ==
    /\ e \in sent \ acked /\ gateway[e.order] = "snippe"
    /\ \/ /\ e \in processed
          /\ acked' = acked \cup {e}
          /\ UNCHANGED <<calls, disturbed>>
       \/ /\ e \notin processed
          /\ Begin(c, "webhook", e.order, "load", "absent", e.report)
          /\ UNCHANGED acked
    /\ UNCHANGED <<orders, gateway, provider, sent, processed, due, postings, faults, missed,
                   claimed, unpriced>>

\* Mutant: the amount is not compared.
LoadAnyAmount(c) ==
    /\ calls[c].pc = "load"
    /\ calls' = [calls EXCEPT ![c].seen = orders[calls[c].order].status, ![c].pc = "apply"]
    /\ UNCHANGED <<orders, gateway, provider, sent, acked, processed, due, postings, faults,
                   disturbed, missed, claimed, unpriced>>

\* The order is read; an event for another amount, or for none, is acknowledged and
\* recorded and the order left as it is.
Load(c) ==
    LET o == calls[c].order IN
    /\ calls[c].pc = "load"
    /\ \E priced \in BOOLEAN :
          /\ calls' = [calls EXCEPT
                          ![c].seen = orders[o].status,
                          ![c].pc = IF priced /\ AmountMatches(o) THEN "apply" ELSE "store"]
          /\ unpriced' = IF priced THEN unpriced ELSE unpriced \cup {o}
    /\ UNCHANGED <<orders, gateway, provider, sent, acked, processed, due, postings, faults,
                   disturbed, missed, claimed>>

\* handleAzamCallback asks neither for a signature, nor for the order's gateway, nor for
\* an amount: any order may be named, and what is reported is written.
AzamCallback(c, e, kind) ==
    /\ orders[e.order] # NoRow
    /\ \/ /\ kind = "azam" /\ e \in sent \ acked /\ gateway[e.order] = "azampay"
          /\ UNCHANGED <<faults, claimed>>
       \/ /\ kind = "claim" /\ faults < MaxFaults /\ faults' = faults + 1
          /\ claimed' = IF e.report = "paid" THEN claimed \cup {e.order} ELSE claimed
    /\ Begin(c, kind, e.order, "apply", orders[e.order].status, e.report)
    /\ UNCHANGED <<orders, gateway, provider, sent, acked, processed, due, postings, missed,
                   unpriced>>

\* Mutant: an event that arrives late is written over a paid or posted order.
PatchedForgetful(call) ==
    IF call.seen = "posted" /\ call.report = "paid" THEN "posted" ELSE call.report

\* The status each handler writes, from the row as it read it.
Patched(call) ==
    CASE call.kind = "poll" -> call.report
      [] call.report = "paid" -> IF call.seen = "posted" THEN "posted" ELSE "paid"
      [] OTHER -> IF call.seen \in {"paid", "posted"} THEN call.seen ELSE call.report

\* The update, and the decision to post from the row it returned.
Apply(c) ==
    LET call == calls[c]
        o    == call.order
        row  == [orders[o] EXCEPT !.status = Patched(call)]
    IN
    /\ call.pc = "apply"
    /\ \E ref \in {orders[o].ref, TRUE} :      \* a report may come without its reference
          orders' = [orders EXCEPT ![o] = [row EXCEPT !.ref = ref]]
    /\ IF (call.kind # "webhook" \/ call.report = "paid") /\ row.status = "paid" /\ ~row.posted
       THEN Goto(c, "post")
       ELSE IF call.kind = "webhook" THEN Goto(c, "store") ELSE Answer(c)
    /\ UNCHANGED <<gateway, provider, sent, processed, due, postings, faults, disturbed, missed,
                   claimed, unpriced>>

\* Mutant: the procedure's error is swallowed and the order marked all the same.
PostSwallowed(c) ==
    /\ calls[c].pc = "post" /\ Goto(c, "record")
    /\ UNCHANGED <<orders, gateway, provider, sent, processed, due, postings, faults, disturbed,
                   missed, claimed, unpriced>>

\* The procedure of the order's purpose commits its journal.
Post(c) ==
    LET o == calls[c].order IN
    /\ calls[c].pc = "post" /\ postings[o] < MaxPosted
    /\ postings' = [postings EXCEPT ![o] = @ + 1]
    /\ Goto(c, "record")
    /\ UNCHANGED <<orders, gateway, provider, sent, processed, due, faults, disturbed, missed,
                   claimed, unpriced>>

Record(c) ==
    /\ calls[c].pc = "record"
    /\ orders' = [orders EXCEPT ![calls[c].order].status = "posted",
                                ![calls[c].order].posted = TRUE]
    /\ IF calls[c].kind = "webhook" THEN Goto(c, "store") ELSE Answer(c)
    /\ UNCHANGED <<gateway, provider, sent, processed, due, postings, faults, disturbed, missed,
                   claimed, unpriced>>

StoreProcessedWebhookEvent(c) ==
    /\ calls[c].pc = "store"
    /\ processed' = processed \cup {EventOf(calls[c])}
    /\ Answer(c)
    /\ UNCHANGED <<orders, gateway, provider, sent, due, postings, faults, disturbed, missed,
                   claimed, unpriced>>
---------------------------------------------------------------------------
(* getPaymentOrderStatus and reconcilePaymentOrder.                         *)

TimedOut(o) == orders[o].status = "pending" /\ o \in due

GetPaymentOrderStatus(c, o) ==
    /\ orders[o].status = "pending"
    /\ \/ TimedOut(o) /\ Begin(c, "poll", o, "expire", "pending", "expired")
       \/ /\ ~TimedOut(o) /\ gateway[o] = "snippe" /\ orders[o].ref
          /\ Begin(c, "poll", o, "query", "pending", "none")
    /\ UNCHANGED <<orders, gateway, provider, sent, acked, processed, due, postings, faults,
                   missed, claimed, unpriced>>

ReconcilePaymentOrder(c, o) ==
    /\ \/ TimedOut(o) /\ Begin(c, "reconcile", o, "expire", "pending", "expired")
       \/ orders[o].status = "paid" /\ Begin(c, "reconcile", o, "post", "paid", "none")
    /\ UNCHANGED <<orders, gateway, provider, sent, acked, processed, due, postings, faults,
                   missed, claimed, unpriced>>

\* expirePendingOrderIfTimedOut, and the same write of syncPendingSnippeOrder.
Expire(c) ==
    /\ calls[c].pc = "expire"
    /\ SetStatus(calls[c].order, "expired")
    /\ Answer(c)
    /\ UNCHANGED <<gateway, provider, sent, processed, due, postings, faults, disturbed, missed,
                   claimed, unpriced>>

\* Mutant: a payment the gateway still waits for is patched like a settled one.
QueryAnyStatus(c) ==
    /\ calls[c].pc = "query"
    /\ \/ Answer(c)
       \/ /\ AmountMatches(calls[c].order)
          /\ calls' = [calls EXCEPT ![c].pc = "apply", ![c].report = provider[calls[c].order]]
          /\ UNCHANGED acked
    /\ UNCHANGED <<orders, gateway, provider, sent, processed, due, postings, faults, disturbed,
                   missed, claimed, unpriced>>

\* syncPendingSnippeOrder asks the gateway.  A check that failed, an order not found and
\* an amount that differs end the poll; validateSnippeStatusAmount finds no violation
\* when the answer has no amount.
Query(c) ==
    LET o == calls[c].order IN
    /\ calls[c].pc = "query"
    /\ \/ Answer(c) /\ UNCHANGED unpriced
       \/ provider[o] = "open" /\ o \in due /\ Goto(c, "expire") /\ UNCHANGED unpriced
       \/ \E priced \in BOOLEAN :
             /\ provider[o] \in Outcome /\ (priced => AmountMatches(o))
             /\ calls' = [calls EXCEPT ![c].pc = "apply", ![c].report = provider[o]]
             /\ unpriced' = IF priced THEN unpriced ELSE unpriced \cup {o}
             /\ UNCHANGED acked
    /\ UNCHANGED <<orders, gateway, provider, sent, processed, due, postings, faults, disturbed,
                   missed, claimed>>
---------------------------------------------------------------------------
(* The gateway, the clock, and failures.                                    *)

Settle(o) ==
    /\ provider[o] = "open"
    /\ \E outcome \in Outcome :
          /\ provider' = [provider EXCEPT ![o] = outcome]
          /\ sent' = sent \cup {[order |-> o, report |-> outcome]}
    /\ UNCHANGED <<orders, gateway, acked, processed, due, postings, calls, faults, disturbed,
                   missed, claimed, unpriced>>

AzamProgress(o) ==
    /\ provider[o] = "open" /\ gateway[o] = "azampay"
    /\ sent' = sent \cup {[order |-> o, report |-> "pending"]}
    /\ UNCHANGED <<orders, gateway, provider, acked, processed, due, postings, calls, faults,
                   disturbed, missed, claimed, unpriced>>

PassExpiry(o) ==
    /\ orders[o] # NoRow
    /\ due' = due \cup {o}
    /\ UNCHANGED <<orders, gateway, provider, sent, acked, processed, postings, calls, faults,
                   disturbed, missed, claimed, unpriced>>

\* A call the handler awaits fails, the posting procedure included: it answers,
\* and an event so answered is not delivered again.
Fail(c) ==
    /\ calls[c].pc # "idle" /\ faults < MaxFaults
    /\ faults' = faults + 1
    /\ disturbed' = disturbed \cup {calls[c].order}
    /\ missed' = missed \cup {calls[c].order}
    /\ Answer(c)
    /\ UNCHANGED <<orders, gateway, provider, sent, processed, due, postings, claimed,
                   unpriced>>

\* The process stops: no answer.
Die(c) ==
    /\ calls[c].pc # "idle" /\ faults < MaxFaults
    /\ faults' = faults + 1
    /\ disturbed' = disturbed \cup {calls[c].order}
    /\ calls' = [calls EXCEPT ![c] = Idle]
    /\ UNCHANGED <<orders, gateway, provider, sent, acked, processed, due, postings, missed,
                   claimed, unpriced>>

Step(c) ==
    \/ CreatePaymentIntent(c) \/ UpdateInitiated(c) \/ Load(c) \/ Apply(c) \/ Post(c)
    \/ Record(c) \/ StoreProcessedWebhookEvent(c) \/ Expire(c) \/ Query(c)

Deliver(e) == \E c \in Call : Webhook(c, e) \/ AzamCallback(c, e, "azam")

Next ==
    \/ \E c \in Call :
          \/ \E o \in Order : \/ \E amt \in Amount : Initiate(c, o, amt)
                              \/ GetPaymentOrderStatus(c, o)
                              \/ ReconcilePaymentOrder(c, o)
          \/ Step(c) \/ Fail(c) \/ Die(c)
    \/ \E e \in Event : Deliver(e) \/ \E c \in Call : AzamCallback(c, e, "claim")
    \/ \E o \in Order : Settle(o) \/ AzamProgress(o) \/ PassExpiry(o)

\* A handler goes on, and the gateway delivers an event until it is answered.
Fairness ==
    /\ \A c \in Call : WF_vars(Step(c))
    /\ \A e \in Event : SF_vars(Deliver(e))

Spec == Init /\ [][Next]_vars
FairSpec == Spec /\ Fairness
---------------------------------------------------------------------------
(* Properties.                                                              *)

TypeOK ==
    /\ orders \in [Order -> Row]
    /\ gateway \in [Order -> {"snippe", "azampay"}]
    /\ provider \in [Order -> Outcome \cup {"none", "open"}]
    /\ acked \subseteq sent /\ sent \subseteq Event
    /\ processed \subseteq sent
    /\ due \subseteq Order
    /\ postings \in [Order -> 0..MaxPosted]
    /\ calls \in [Call -> CallState]
    /\ faults \in 0..MaxFaults
    /\ missed \subseteq disturbed /\ disturbed \subseteq Order
    /\ claimed \subseteq Order /\ unpriced \subseteq Order

\* A journal is posted only for an order the gateway was paid for, and for the amount the
\* payer was charged, whatever order events, polls and expiries take.  The code has two
\* ways around it and this says there is no third: a callback taken at its word, and a
\* report of the gateway that named no amount.
PostedIsCharged ==
    \A o \in Order : postings[o] > 0 =>
        \/ provider[o] = "paid" /\ (AmountMatches(o) \/ o \in unpriced)
        \/ o \in claimed

\* An order that says posted, or carries posted_at, has a journal: stale writes of
\* other handlers can take the status away but never invent a posting.
PostedHasJournal ==
    \A o \in Order : orders[o].status = "posted" \/ orders[o].posted => postings[o] > 0

\* When the handlers of an order ran one after the other and none failed, it is
\* posted exactly once, the row says so for good, and nothing stays paid only.
SerialOutcome ==
    \A o \in Order \ disturbed :
        Working(o) = {} =>
            /\ orders[o].status # "paid"
            /\ postings[o] = IF orders[o].status = "posted" THEN 1 ELSE 0
            /\ /\ [order |-> o, report |-> "paid"] \in processed
               /\ AmountMatches(o) /\ o \notin unpriced
               => orders[o].status = "posted"

\* A payment the gateway has taken is posted, also when the order had expired or
\* failed here before, the process died, or other handlers overlapped, unless a
\* handler failed and answered the event all the same, or the event had no amount.
PaymentIsPosted ==
    \A o \in Order :
        provider[o] = "paid" /\ AmountMatches(o) ~> postings[o] > 0 \/ o \in missed \cup unpriced

\* However often and by however many handlers a payment is reported, its order is
\* posted once: what the event lookup for "webhook idempotency" and the test of
\* posted_at before each posting are for.
PostedOnce == \A o \in Order : postings[o] <= 1
===========================================================================
