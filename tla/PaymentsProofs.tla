-------------------------- MODULE PaymentsProofs --------------------------
(* Proofs about MemberPayments, for every set of orders, amounts and        *)
(* handlers at work and for every number of failures and postings.          *)
EXTENDS MemberPayments, TLAPS

(***************************************************************************)
(* The inductive invariant.  No handler asks again whether the payment was  *)
(* taken, so whatever makes one post must carry the evidence with it: the   *)
(* status of the row, the status it read, the report it was brought.  Where *)
(* the code takes a report without asking for evidence, the histories       *)
(* claimed and unpriced hold the order.                                     *)
(***************************************************************************)
Exists(o) == orders[o].status # "absent"
Taken(o) == \/ provider[o] = "paid" /\ (AmountMatches(o) \/ o \in unpriced)
            \/ o \in claimed

RowOK(o) ==
    /\ orders[o].status = "absent" => orders[o] = NoRow
    /\ provider[o] # "none" => Exists(o)
    /\ o \in claimed => Exists(o)
    /\ gateway[o] = "azampay" => Exists(o) /\ AmountMatches(o)
    /\ [order |-> o, report |-> "paid"] \in sent => provider[o] = "paid"
    /\ \A r \in Outcome \cup {"pending"} : [order |-> o, report |-> r] \in sent => provider[o] # "none"
    /\ orders[o].status \in {"paid", "posted"} => Taken(o)
    /\ postings[o] > 0 => Taken(o)
    /\ orders[o].status = "posted" \/ orders[o].posted => postings[o] > 0

\* What kind of handler can be where.
KindOK(call) ==
    /\ call.pc = "idle" => call = Idle
    /\ call.pc \in {"intent", "update"} => call.kind = "initiate"
    /\ call.pc \in {"load", "store"} => call.kind = "webhook"
    /\ call.pc = "query" => call.kind = "poll"
    /\ call.pc = "expire" => call.kind \in {"poll", "reconcile"}
    /\ call.pc = "apply" => call.kind \in {"webhook", "azam", "claim", "poll"}
    /\ call.kind \in {"webhook", "azam"} => EventOf(call) \in sent
    /\ call.kind = "webhook" => call.pc \in {"load", "apply", "post", "record", "store"}

CallOK(call) ==
    /\ KindOK(call)
    /\ call.pc # "idle" => call.order \in Order /\ Exists(call.order)
    /\ call.pc = "intent" => provider[call.order] = "none"
    /\ call.pc = "query" => call.seen = "pending"
    /\ call.pc = "apply" =>
          /\ call.report \in Outcome \cup {"pending"}
          /\ call.report = "paid" => Taken(call.order)
          /\ call.seen \in {"paid", "posted"} => Taken(call.order)
          /\ call.seen = "posted" => postings[call.order] > 0
    /\ call.pc \in {"post", "record"} => Taken(call.order)
    /\ call.pc = "record" => postings[call.order] > 0

RowsOK == \A o \in Order : RowOK(o)
CallsOK == \A c \in Call : CallOK(calls[c])

\* An order is opened at the gateway by one handler only.
OneIntent == \A c, d \in Call : calls[c].pc = "intent" /\ calls[d].pc = "intent"
                                /\ calls[c].order = calls[d].order => c = d

IInv == TypeOK /\ RowsOK /\ CallsOK /\ OneIntent

\* What every step leaves in place.
Grows ==
    /\ gateway' = gateway /\ sent \subseteq sent'
    /\ claimed \subseteq claimed' /\ unpriced \subseteq unpriced'
    /\ \A o \in Order :
          /\ Exists(o) => Exists(o)' /\ orders'[o].amount = orders[o].amount
          /\ provider[o] = "paid" => provider'[o] = "paid"
          /\ postings[o] > 0 => postings'[o] > 0

(***************************************************************************)
(* Lemmas about one step.                                                   *)
(***************************************************************************)
LEMMA TakenStable ==
  ASSUME IInv, Grows, NEW o \in Order, Taken(o)
  PROVE  Taken(o)'
<1>1. Exists(o)
  BY DEF Taken, IInv, RowsOK, RowOK
<1> QED
  BY <1>1 DEF Grows, Taken, AmountMatches, Charged

\* A handler's locals stay backed while others step.
LEMMA CallOKStable ==
  ASSUME IInv, Grows, NEW call \in CallState, CallOK(call),
         call.pc = "intent" => provider'[call.order] = "none"
  PROVE  CallOK(call)'
<1>1. KindOK(call)'
  BY DEF CallOK, KindOK, Grows, EventOf
<1>2. call.order \in Order /\ Taken(call.order) => Taken(call.order)'
  BY TakenStable
<1> QED
  BY <1>1, <1>2 DEF CallOK, Grows

\* A row none of whose facts changed keeps its invariant.
LEMMA RowKept ==
  ASSUME NEW o \in Order, RowOK(o), gateway' = gateway,
         o \in claimed => o \in claimed', o \in unpriced => o \in unpriced',
         o \in claimed' => o \in claimed \/ Exists(o),
         orders'[o] = orders[o], provider'[o] = provider[o], postings'[o] = postings[o],
         \A r : [order |-> o, report |-> r] \in sent' => [order |-> o, report |-> r] \in sent
  PROVE  RowOK(o)'
  BY DEF RowOK, Exists, Taken, AmountMatches, Charged

\* One handler moves on.
LEMMA CallStep ==
  ASSUME IInv, TypeOK', Grows, RowsOK',
         NEW c \in Call, NEW new \in CallState, calls' = [calls EXCEPT ![c] = new],
         CallOK(new)',
         \A d \in Call \ {c} : calls[d].pc = "intent" =>
             /\ provider'[calls[d].order] = "none"
             /\ new.pc = "intent" => new.order # calls[d].order
  PROVE  IInv'
<1>1. calls'[c] = new /\ \A d \in Call \ {c} : calls'[d] = calls[d]
  BY DEF IInv, TypeOK
<1>2. CallsOK'
  <2> SUFFICES ASSUME NEW d \in Call PROVE CallOK(calls[d])'
    BY DEF CallsOK
  <2>1. CASE d = c
    BY <1>1, <2>1
  <2>2. CASE d # c
    <3>1. calls[d] \in CallState /\ CallOK(calls[d])
      BY DEF IInv, TypeOK, CallsOK
    <3> DEFINE call == calls[d]
    <3>2. calls'[d] = call /\ (call.pc = "intent" => provider'[call.order] = "none")
      BY <1>1, <2>2
    <3> HIDE DEF call
    <3> QED
      BY <1>1, <2>2, <3>1, <3>2, CallOKStable DEF call
  <2> QED
    BY <2>1, <2>2
<1>3. OneIntent'
  BY <1>1 DEF IInv, OneIntent
<1> QED
  BY <1>2, <1>3 DEF IInv

\* The handlers stay where they are.
LEMMA NoCallStep ==
  ASSUME IInv, TypeOK', Grows, RowsOK', calls' = calls,
         \A d \in Call : calls[d].pc = "intent" => provider'[calls[d].order] = "none"
  PROVE  IInv'
<1>1. CallsOK'
  <2> SUFFICES ASSUME NEW d \in Call PROVE CallOK(calls[d])'
    BY DEF CallsOK
  <2> DEFINE call == calls[d]
  <2>1. call \in CallState /\ CallOK(call)
    BY DEF IInv, TypeOK, CallsOK
  <2>2. calls'[d] = call /\ (call.pc = "intent" => provider'[call.order] = "none")
    OBVIOUS
  <2> HIDE DEF call
  <2> QED
    BY <2>1, <2>2, CallOKStable DEF call
<1>2. OneIntent'
  BY DEF IInv, OneIntent
<1> QED
  BY <1>1, <1>2 DEF IInv

\* The logs of events, expiries and failures keep their types in a step that sends no event.
LogsOK ==
    /\ acked' \subseteq sent /\ processed' \subseteq sent
    /\ due' \subseteq Order
    /\ faults' \in 0..MaxFaults
    /\ missed' \subseteq disturbed' /\ disturbed' \subseteq Order
    /\ claimed \subseteq claimed' /\ claimed' \subseteq Order
    /\ unpriced \subseteq unpriced' /\ unpriced' \subseteq Order
    /\ \A o \in claimed' \ claimed : Exists(o)

\* A step of one handler that writes no row, or one whose row is backed as it says.
LEMMA LocalStep ==
  ASSUME IInv, LogsOK, UNCHANGED <<orders, gateway, provider, sent, postings>>,
         NEW c \in Call, NEW new \in CallState, calls' = [calls EXCEPT ![c] = new],
         CallOK(new) \/ CallOK(new)', new.pc # "intent"
  PROVE  IInv'
<1>1. TypeOK'
  BY DEF IInv, TypeOK, LogsOK
<1>2. Grows /\ RowsOK'
  BY RowKept DEF Grows, Exists, IInv, RowsOK, LogsOK
<1>3. CallOK(new)'
  BY <1>2, CallOKStable
<1>4. \A d \in Call \ {c} : calls[d].pc = "intent" => provider'[calls[d].order] = "none"
  BY DEF IInv, CallsOK, CallOK
<1> QED
  BY <1>1, <1>2, <1>3, <1>4, CallStep

LEMMA RowStep ==
  ASSUME IInv, LogsOK, UNCHANGED <<gateway, provider, sent, postings>>,
         NEW o \in Order, NEW row \in Row, orders' = [orders EXCEPT ![o] = row],
         Exists(o), row.status # "absent", row.amount = orders[o].amount,
         row.status \in {"paid", "posted"} => Taken(o),
         row.status = "posted" \/ row.posted => postings[o] > 0,
         NEW c \in Call, NEW new \in CallState, calls' = [calls EXCEPT ![c] = new],
         CallOK(new), new.pc # "intent"
  PROVE  IInv'
<1>1. orders' \in [Order -> Row] /\ orders'[o] = row /\ \A x \in Order \ {o} : orders'[x] = orders[x]
  BY DEF IInv, TypeOK
<1>2. TypeOK'
  BY <1>1 DEF IInv, TypeOK, LogsOK
<1>3. Grows
  BY <1>1 DEF Grows, Exists, LogsOK
<1>4. RowsOK'
  <2> SUFFICES ASSUME NEW x \in Order PROVE RowOK(x)'
    BY DEF RowsOK
  <2>1. RowOK(x)
    BY DEF IInv, RowsOK
  <2>2. CASE x = o
    <3>1. Taken(o) => Taken(o)'
      BY <1>3, TakenStable
    <3>2. AmountMatches(o) => AmountMatches(o)'
      BY <1>1 DEF AmountMatches, Charged
    <3> QED
      BY <1>1, <2>1, <2>2, <3>1, <3>2 DEF RowOK, Exists
  <2>3. CASE x # o
    BY <1>1, <2>1, <2>3, RowKept DEF LogsOK
  <2> QED
    BY <2>2, <2>3
<1>5. CallOK(new)'
  BY <1>3, CallOKStable
<1>6. \A d \in Call \ {c} : calls[d].pc = "intent" => provider'[calls[d].order] = "none"
  BY DEF IInv, CallsOK, CallOK
<1> QED
  BY <1>2, <1>3, <1>4, <1>5, <1>6, CallStep

LEMMA IdleOK == Idle \in CallState /\ CallOK(Idle) /\ Idle.pc = "idle"
  BY DEF Idle, CallState, PC, Kind, Status, CallOK, KindOK

LEMMA AnswerOK ==
  ASSUME IInv, NEW c \in Call, Answer(c)
  PROVE  calls' = [calls EXCEPT ![c] = Idle] /\ acked' \subseteq sent
  BY DEF Answer, IInv, TypeOK, CallsOK, CallOK, KindOK

\* The handler that a request or an event starts.
LEMMA BeginStep ==
  ASSUME IInv, NEW c \in Call, NEW kind, NEW o \in Order, NEW pc, NEW seen, NEW report,
         Begin(c, kind, o, pc, seen, report),
         UNCHANGED <<orders, gateway, provider, sent, postings, acked, processed, due, missed,
                    unpriced>>,
         faults' \in 0..MaxFaults,
         claimed' = claimed \/ (claimed' = claimed \cup {o} /\ Exists(o)),
         [pc |-> pc, kind |-> kind, order |-> o, seen |-> seen, report |-> report] \in CallState,
         \/ CallOK([pc |-> pc, kind |-> kind, order |-> o, seen |-> seen, report |-> report])
         \/ CallOK([pc |-> pc, kind |-> kind, order |-> o, seen |-> seen, report |-> report])',
         pc # "intent"
  PROVE  IInv'
<1>1. LogsOK
  BY DEF Begin, LogsOK, IInv, TypeOK
<1> DEFINE new == [pc |-> pc, kind |-> kind, order |-> o, seen |-> seen, report |-> report]
<1>2. calls' = [calls EXCEPT ![c] = new] /\ new.pc = pc
  BY DEF Begin
<1> HIDE DEF new
<1>3. new \in CallState /\ (CallOK(new) \/ CallOK(new)')
  BY DEF new
<1> QED
  BY <1>1, <1>2, <1>3, LocalStep

(***************************************************************************)
(* One lemma per action.                                                    *)
(***************************************************************************)
LEMMA InitInv == Init => IInv
<1> SUFFICES ASSUME Init PROVE IInv
  OBVIOUS
<1> USE PaymentsAssumption
<1>1. PICK azam \in SUBSET Order, amt \in Amount :
         /\ gateway = [o \in Order |-> IF o \in azam THEN "azampay" ELSE "snippe"]
         /\ orders = [o \in Order |-> IF o \in azam THEN AzamRow(amt) ELSE NoRow]
         /\ provider = [o \in Order |-> IF o \in azam THEN "open" ELSE "none"]
         /\ amt % 2 = 0
  BY DEF Init
<1>2. AzamRow(amt) \in Row /\ NoRow \in Row
  BY DEF AzamRow, NoRow, Row, Status
<1>3. TypeOK
  BY <1>1, <1>2, IdleOK DEF Init, TypeOK
<1>4. amt \in Nat /\ amt % 2 = 0 => 2 * ((amt + 1) \div 2) = amt
  OBVIOUS
<1>5. \A o \in azam : AmountMatches(o)
  BY <1>1, <1>4 DEF AmountMatches, Charged, AzamRow
<1>6. RowsOK
  BY <1>1, <1>5 DEF Init, RowsOK, RowOK, Exists, AzamRow, NoRow
<1>7. CallsOK /\ OneIntent
  BY IdleOK DEF Init, CallsOK, OneIntent
<1> QED
  BY <1>3, <1>6, <1>7 DEF IInv

\* The order is new: nothing at the gateway or in the ledger knows it.
LEMMA InitiatePreserves ==
  ASSUME IInv, NEW c \in Call, NEW o \in Order, NEW amt \in Amount, Initiate(c, o, amt)
  PROVE  IInv'
<1> DEFINE row == [NoRow EXCEPT !.status = "created", !.amount = amt]
           new == [pc |-> "intent", kind |-> "initiate", order |-> o, seen |-> "created",
                   report |-> "none"]
<1>1. /\ UNCHANGED <<gateway, provider, sent, acked, processed, due, postings, faults, missed,
                    claimed, unpriced>>
      /\ orders[o] = NoRow /\ orders' = [orders EXCEPT ![o] = row]
      /\ calls[c].pc = "idle" /\ calls' = [calls EXCEPT ![c] = new]
      /\ disturbed' = disturbed \/ disturbed' = disturbed \cup {o}
  BY DEF Initiate, Begin
<1>2. row \in Row /\ row.status = "created"
  BY DEF NoRow, Row, Status
<1>3. new \in CallState /\ new.pc = "intent" /\ new.order = o /\ new.kind = "initiate"
  BY DEF CallState, PC, Kind, Status
<1>4. ~Exists(o) /\ provider[o] = "none" /\ postings[o] = 0 /\ RowOK(o) /\ o \notin claimed
  <2>1. ~Exists(o)
    BY <1>1 DEF Exists, NoRow
  <2>2. provider[o] = "none"
    BY <2>1 DEF IInv, RowsOK, RowOK
  <2>3. postings[o] \in Nat
    BY PaymentsAssumption DEF IInv, TypeOK
  <2> QED
    BY <2>1, <2>2, <2>3 DEF IInv, RowsOK, RowOK, Taken
<1> HIDE DEF row, new
<1>5. /\ orders' \in [Order -> Row] /\ orders'[o] = row
      /\ \A x \in Order \ {o} : orders'[x] = orders[x]
  BY <1>1, <1>2 DEF IInv, TypeOK
<1>6. TypeOK'
  BY <1>1, <1>3, <1>5 DEF IInv, TypeOK
<1>7. Grows
  BY <1>1, <1>4, <1>5 DEF Grows, Exists
<1>8. RowsOK'
  <2> SUFFICES ASSUME NEW x \in Order PROVE RowOK(x)'
    BY DEF RowsOK
  <2>1. CASE x = o
    <3>1. ~orders'[o].posted
      BY <1>5 DEF row, NoRow
    <3>2. Taken(o) = FALSE
      BY <1>4 DEF Taken
    <3> QED
      BY <1>1, <1>2, <1>4, <1>5, <2>1, <3>1, <3>2 DEF RowOK, Exists
  <2>2. CASE x # o
    BY <1>1, <1>5, <2>2, RowKept DEF IInv, RowsOK
  <2> QED
    BY <2>1, <2>2
<1>9. CallOK(new)'
  BY <1>1, <1>2, <1>3, <1>4, <1>5 DEF CallOK, KindOK, Exists
<1>10. \A d \in Call \ {c} : calls[d].pc = "intent" =>
          provider'[calls[d].order] = "none" /\ calls[d].order # o
  BY <1>1, <1>4 DEF IInv, CallsOK, CallOK
<1> QED
  BY <1>1, <1>3, <1>6, <1>7, <1>8, <1>9, <1>10, CallStep, ZenonT(40)

\* A step of the gateway on an order it has, or is about to have.
LEMMA ProviderStep ==
  ASSUME IInv, NEW o \in Order, Exists(o), provider[o] # "paid",
         NEW p \in Outcome \cup {"none", "open"}, provider' = [provider EXCEPT ![o] = p],
         p = "none" => provider[o] = "none",
         NEW r \in Outcome \cup {"pending"}, p = "none" => sent' = sent, r = "paid" => p = "paid",
         sent' = sent \/ sent' = sent \cup {[order |-> o, report |-> r]},
         UNCHANGED <<orders, gateway, postings, claimed, unpriced>>
  PROVE  Grows /\ RowsOK' /\ provider' \in [Order -> Outcome \cup {"none", "open"}] /\ sent' \subseteq Event
<1>1. /\ provider' \in [Order -> Outcome \cup {"none", "open"}] /\ provider'[o] = p
      /\ \A x \in Order \ {o} : provider'[x] = provider[x]
  BY DEF IInv, TypeOK
<1>2. Grows
  BY <1>1 DEF Grows, Exists
<1>3. RowsOK'
  <2> SUFFICES ASSUME NEW x \in Order PROVE RowOK(x)'
    BY DEF RowsOK
  <2>1. RowOK(x)
    BY DEF IInv, RowsOK
  <2>2. CASE x = o
    <3>1. Taken(o) => Taken(o)'
      BY <1>2, TakenStable
    <3>2. ASSUME NEW q \in Outcome \cup {"pending"}, [order |-> o, report |-> q] \in sent'
          PROVE  p # "none" /\ (q = "paid" => p = "paid")
      <4>1. CASE [order |-> o, report |-> q] \in sent
        BY <2>1, <2>2, <3>2, <4>1 DEF RowOK
      <4>2. CASE [order |-> o, report |-> q] \notin sent
        <5>1. [order |-> o, report |-> q] = [order |-> o, report |-> r] /\ sent' # sent
          BY <3>2, <4>2
        <5>2. q = r
          BY <5>1
        <5> QED
          BY <5>1, <5>2
      <4> QED
        BY <4>1, <4>2
    <3>3. "paid" \in Outcome
      BY DEF Outcome
    <3>4. AmountMatches(o)' <=> AmountMatches(o)
      BY DEF AmountMatches, Charged
    <3> QED
      BY <1>1, <2>1, <2>2, <3>1, <3>2, <3>3, <3>4 DEF RowOK, Exists
  <2>3. CASE x # o
    <3>1. \A q : [order |-> x, report |-> q] \in sent' => [order |-> x, report |-> q] \in sent
      BY <2>3
    <3> QED
      BY <1>1, <2>1, <2>3, <3>1, RowKept
  <2> QED
    BY <2>2, <2>3
<1>4. sent' \subseteq Event
  BY DEF IInv, TypeOK, Event
<1> QED
  BY <1>1, <1>2, <1>3, <1>4

LEMMA CreatePaymentIntentPreserves ==
  ASSUME IInv, NEW c \in Call, CreatePaymentIntent(c)
  PROVE  IInv'
<1>1. PICK call \in CallState, o \in Order :
         /\ call = calls[c] /\ o = call.order /\ call.pc = "intent" /\ call.kind = "initiate"
         /\ Exists(o) /\ provider[o] = "none"
  BY DEF CreatePaymentIntent, IInv, TypeOK, CallsOK, CallOK, KindOK
<1>2. PICK opened \in BOOLEAN, report \in {"pending", "timeout", "failed"} :
         /\ provider' = IF opened THEN [provider EXCEPT ![o] = "open"] ELSE provider
         /\ calls' = [calls EXCEPT ![c].pc = "update", ![c].report = report]
  BY <1>1 DEF CreatePaymentIntent
<1>3. UNCHANGED <<orders, gateway, sent, acked, processed, due, postings, faults, disturbed,
                 missed, claimed, unpriced>>
  BY DEF CreatePaymentIntent
<1>4. PICK p \in {"none", "open"} : provider' = [provider EXCEPT ![o] = p]
  <2>1. provider = [provider EXCEPT ![o] = "none"]
    BY <1>1 DEF IInv, TypeOK
  <2> QED
    BY <1>2, <2>1
<1>5. PICK new \in CallState :
         /\ new.pc = "update" /\ new.kind = "initiate" /\ new.order = o
         /\ calls' = [calls EXCEPT ![c] = new]
  <2>1. [call EXCEPT !.pc = "update", !.report = report] \in CallState
    BY DEF CallState, PC, Outcome
  <2>2. calls' = [calls EXCEPT ![c] = [call EXCEPT !.pc = "update", !.report = report]]
    BY <1>1, <1>2 DEF IInv, TypeOK
  <2> QED
    BY <1>1, <2>1, <2>2 DEF CallState
<1>6. \A d \in Call \ {c} : calls[d].pc = "intent" => provider'[calls[d].order] = "none"
  <2> SUFFICES ASSUME NEW d \in Call \ {c}, calls[d].pc = "intent"
               PROVE  provider'[calls[d].order] = "none"
    OBVIOUS
  <2>1. calls[d].order # o /\ calls[d].order \in Order /\ provider[calls[d].order] = "none"
    BY <1>1 DEF IInv, OneIntent, CallsOK, CallOK
  <2> QED
    BY <1>4, <2>1 DEF IInv, TypeOK
<1>7. Grows /\ RowsOK' /\ provider' \in [Order -> Outcome \cup {"none", "open"}]
  <2>1. provider[o] # "paid" /\ sent' = sent /\ p \in Outcome \cup {"none", "open"}
    BY <1>1, <1>3
  <2> QED
    BY <1>1, <1>3, <1>4, <2>1, ProviderStep
<1>8. TypeOK'
  BY <1>3, <1>5, <1>7 DEF IInv, TypeOK
<1>9. CallOK(new)'
  BY <1>1, <1>3, <1>5 DEF CallOK, KindOK, Exists
<1> QED
  BY <1>5, <1>6, <1>7, <1>8, <1>9, CallStep

LEMMA SettlePreserves ==
  ASSUME IInv, NEW o \in Order, Settle(o)
  PROVE  IInv'
<1>1. PICK outcome \in Outcome :
         /\ provider' = [provider EXCEPT ![o] = outcome]
         /\ sent' = sent \cup {[order |-> o, report |-> outcome]}
  BY DEF Settle
<1>2. /\ provider[o] = "open" /\ outcome # "none"
      /\ UNCHANGED <<orders, gateway, acked, processed, due, postings, calls, faults, disturbed,
                    missed, claimed, unpriced>>
  BY DEF Settle, Outcome
<1>3. Exists(o)
  BY <1>2 DEF IInv, RowsOK, RowOK
<1>4. /\ Grows /\ RowsOK' /\ provider' \in [Order -> Outcome \cup {"none", "open"}]
      /\ sent' \subseteq Event
  <2>1. outcome \in Outcome \cup {"pending"} /\ provider[o] # "paid"
    BY <1>2
  <2> QED
    BY <1>1, <1>2, <1>3, <2>1, ProviderStep
<1>5. TypeOK'
  BY <1>1, <1>2, <1>4 DEF IInv, TypeOK
<1>6. \A d \in Call : calls[d].pc = "intent" => provider'[calls[d].order] = "none"
  <2>1. \A d \in Call : calls[d].pc = "intent" =>
           calls[d].order \in Order /\ provider[calls[d].order] = "none"
    BY DEF IInv, CallsOK, CallOK
  <2> QED
    BY <1>1, <1>2, <2>1 DEF IInv, TypeOK
<1> QED
  BY <1>2, <1>4, <1>5, <1>6, NoCallStep

LEMMA AzamProgressPreserves ==
  ASSUME IInv, NEW o \in Order, AzamProgress(o)
  PROVE  IInv'
<1>1. /\ provider[o] = "open" /\ sent' = sent \cup {[order |-> o, report |-> "pending"]}
      /\ UNCHANGED <<orders, gateway, provider, acked, processed, due, postings, calls, faults,
                    disturbed, missed, claimed, unpriced>>
  BY DEF AzamProgress
<1>2. Exists(o) /\ provider' = [provider EXCEPT ![o] = "open"]
  BY <1>1 DEF IInv, RowsOK, RowOK, TypeOK
<1>3. Grows /\ RowsOK' /\ sent' \subseteq Event
  <2>1. PICK p \in Outcome \cup {"none", "open"}, r \in Outcome \cup {"pending"} :
           p = "open" /\ r = "pending"
    OBVIOUS
  <2> QED
    BY <1>1, <1>2, <2>1, ProviderStep
<1>4. TypeOK'
  BY <1>1, <1>3 DEF IInv, TypeOK
<1>5. \A d \in Call : calls[d].pc = "intent" => provider'[calls[d].order] = "none"
  BY <1>1 DEF IInv, CallsOK, CallOK
<1> QED
  BY <1>1, <1>3, <1>4, <1>5, NoCallStep

LEMMA PassExpiryPreserves ==
  ASSUME IInv, NEW o \in Order, PassExpiry(o)
  PROVE  IInv'
<1>1. /\ due' = due \cup {o}
      /\ UNCHANGED <<orders, gateway, provider, sent, acked, processed, postings, calls, faults,
                    disturbed, missed, claimed, unpriced>>
  BY DEF PassExpiry
<1>2. TypeOK'
  BY <1>1 DEF IInv, TypeOK
<1>3. Grows /\ RowsOK'
  BY <1>1, RowKept DEF Grows, Exists, IInv, RowsOK
<1>4. \A d \in Call : calls[d].pc = "intent" => provider'[calls[d].order] = "none"
  BY <1>1 DEF IInv, CallsOK, CallOK
<1> QED
  BY <1>1, <1>2, <1>3, <1>4, NoCallStep

\* The answer of a handler, and the ways it ends early.
LEMMA EndStep ==
  ASSUME IInv, LogsOK, UNCHANGED <<orders, gateway, provider, sent, postings>>,
         NEW c \in Call, calls' = [calls EXCEPT ![c] = Idle]
  PROVE  IInv'
  BY LocalStep, IdleOK

LEMMA FailPreserves ==
  ASSUME IInv, NEW c \in Call, Fail(c) \/ Die(c)
  PROVE  IInv'
<1>1. calls' = [calls EXCEPT ![c] = Idle] /\ acked' \subseteq sent
  <2>1. CASE Fail(c)
    BY <2>1, AnswerOK DEF Fail
  <2>2. CASE Die(c)
    BY <2>2 DEF Die, IInv, TypeOK
  <2> QED
    BY <2>1, <2>2
<1>2. calls[c].order \in Order
  BY DEF Fail, Die, IInv, CallsOK, CallOK
<1>3. faults' \in 0..MaxFaults
  BY PaymentsAssumption DEF Fail, Die, IInv, TypeOK
<1>4. LogsOK
  BY <1>1, <1>2, <1>3 DEF LogsOK, Fail, Die, IInv, TypeOK
<1>5. UNCHANGED <<orders, gateway, provider, sent, postings>>
  BY DEF Fail, Die
<1> QED
  BY <1>1, <1>4, <1>5, EndStep

LEMMA UpdateInitiatedPreserves ==
  ASSUME IInv, NEW c \in Call, UpdateInitiated(c)
  PROVE  IInv'
<1>1. PICK call \in CallState, o \in Order :
         /\ call = calls[c] /\ o = call.order /\ call.pc = "update" /\ call.kind = "initiate"
         /\ Exists(o) /\ orders[o] \in Row
  BY DEF UpdateInitiated, IInv, TypeOK, CallsOK, CallOK, KindOK
<1>2. UNCHANGED <<gateway, provider, sent, processed, due, postings, disturbed, missed, claimed,
                 unpriced>>
  BY DEF UpdateInitiated
<1>3. PICK row \in Row :
         /\ orders' = [orders EXCEPT ![o] = row] /\ row.amount = orders[o].amount
         /\ row.status \in {"pending", "failed"} \/ row = orders[o]
         /\ row.posted = orders[o].posted
  <2> DEFINE Near(r) == /\ r \in Row /\ r.amount = orders[o].amount /\ r.posted = orders[o].posted
                        /\ r.status \in {"pending", "failed"} \/ r = orders[o]
  <2>1. Near([orders[o] EXCEPT !.status = "pending", !.ref = TRUE]) /\ Near(orders[o])
    BY <1>1 DEF Row, Status
  <2>2. \A s \in {"pending", "failed"} : Near([orders[o] EXCEPT !.status = s])
    BY <1>1 DEF Row, Status
  <2>3. orders = [orders EXCEPT ![o] = orders[o]]
    BY DEF IInv, TypeOK
  <2>4. \/ orders' = [orders EXCEPT ![o] = [orders[o] EXCEPT !.status = "pending", !.ref = TRUE]]
        \/ orders' = orders
        \/ \E s \in {"pending", "failed"} :
              orders' = [orders EXCEPT ![o] = [orders[o] EXCEPT !.status = s]]
    BY <1>1 DEF UpdateInitiated, SetStatus
  <2> SUFFICES \E row \in Row : orders' = [orders EXCEPT ![o] = row] /\ Near(row)
    OBVIOUS
  <2>5. \A r : Near(r) => r \in Row
    OBVIOUS
  <2> HIDE DEF Near
  <2> QED
    BY <2>1, <2>2, <2>3, <2>4, <2>5
<1>4. PICK new \in CallState :
         /\ calls' = [calls EXCEPT ![c] = new] /\ CallOK(new) /\ new.pc # "intent"
         /\ acked' \subseteq sent /\ faults' \in 0..MaxFaults
  <2>1. CASE Answer(c) /\ UNCHANGED faults
    BY <2>1, AnswerOK, IdleOK DEF IInv, TypeOK
  <2>2. CASE /\ faults < MaxFaults /\ faults' = faults + 1 /\ UNCHANGED acked
             /\ calls' = [calls EXCEPT ![c].report = "failed"]
    <3> DEFINE new == [call EXCEPT !.report = "failed"]
    <3>1. new \in CallState /\ calls' = [calls EXCEPT ![c] = new]
      BY <1>1, <2>2 DEF CallState, Outcome, IInv, TypeOK
    <3>2. new.pc = "update" /\ new.kind = "initiate" /\ new.order = o
      BY <1>1 DEF CallState
    <3>3. faults' \in 0..MaxFaults /\ acked' \subseteq sent
      BY <2>2, PaymentsAssumption DEF IInv, TypeOK
    <3> HIDE DEF new
    <3> QED
      BY <1>1, <3>1, <3>2, <3>3 DEF CallOK, KindOK
  <2> QED
    BY <1>1, <2>1, <2>2 DEF UpdateInitiated
<1>5. LogsOK
  BY <1>2, <1>4 DEF LogsOK, IInv, TypeOK
<1>6. RowOK(o)
  BY DEF IInv, RowsOK
<1> QED
  BY <1>1, <1>2, <1>3, <1>4, <1>5, <1>6, RowStep DEF RowOK, Exists

LEMMA WebhookPreserves ==
  ASSUME IInv, NEW c \in Call, NEW e \in Event, Webhook(c, e)
  PROVE  IInv'
<1>1. /\ e \in sent /\ e.order \in Order /\ e.report \in Outcome \cup {"pending"}
      /\ e = [order |-> e.order, report |-> e.report] /\ Exists(e.order)
  <2>1. /\ e \in sent /\ e.order \in Order /\ e.report \in Outcome \cup {"pending"}
        /\ e = [order |-> e.order, report |-> e.report]
    BY DEF Webhook, Event
  <2> QED
    BY <2>1 DEF IInv, RowsOK, RowOK
<1>2. UNCHANGED <<orders, gateway, provider, sent, processed, due, postings, faults, missed,
                 claimed, unpriced>>
  BY DEF Webhook
<1>3. CASE acked' = acked \cup {e} /\ UNCHANGED <<calls, disturbed>>
  <2>1. TypeOK'
    BY <1>1, <1>2, <1>3 DEF IInv, TypeOK
  <2>2. Grows /\ RowsOK'
    BY <1>2, RowKept DEF Grows, Exists, IInv, RowsOK
  <2>3. \A d \in Call : calls[d].pc = "intent" => provider'[calls[d].order] = "none"
    BY <1>2 DEF IInv, CallsOK, CallOK
  <2> QED
    BY <1>3, <2>1, <2>2, <2>3, NoCallStep
<1>4. CASE Begin(c, "webhook", e.order, "load", "absent", e.report) /\ UNCHANGED acked
  <2> DEFINE new == [pc |-> "load", kind |-> "webhook", order |-> e.order, seen |-> "absent",
                     report |-> e.report]
  <2>1. new \in CallState
    BY <1>1 DEF CallState, PC, Kind, Status
  <2>2. EventOf(new) = e
    BY <1>1 DEF EventOf
  <2>3. CallOK(new)
    BY <1>1, <2>2 DEF CallOK, KindOK
  <2> QED
    BY <1>1, <1>2, <1>4, <2>1, <2>3, BeginStep DEF IInv, TypeOK
<1> QED
  BY <1>3, <1>4 DEF Webhook

\* A callback of the gateway is backed by its charge, one from elsewhere by the history
\* of such claims.
LEMMA AzamCallbackPreserves ==
  ASSUME IInv, NEW c \in Call, NEW e \in Event, NEW kind \in {"azam", "claim"},
         AzamCallback(c, e, kind)
  PROVE  IInv'
<1>1. PICK o \in Order, seen \in Status, report \in Outcome \cup {"pending"} :
         e = [order |-> o, report |-> report] /\ seen = orders[o].status
  BY DEF Event, IInv, TypeOK, Row
<1>2. /\ Begin(c, kind, o, "apply", seen, report) /\ orders[o] # NoRow
      /\ UNCHANGED <<orders, gateway, provider, sent, acked, processed, due, postings, missed,
                    unpriced>>
  BY <1>1 DEF AzamCallback
<1>3. Exists(o) /\ RowOK(o)
  BY <1>2 DEF IInv, RowsOK, RowOK, Exists
<1>4. /\ kind = "azam" => e \in sent /\ gateway[o] = "azampay" /\ claimed' = claimed
      /\ kind = "claim" => claimed' = IF report = "paid" THEN claimed \cup {o} ELSE claimed
      /\ faults' \in 0..MaxFaults
  BY <1>1, PaymentsAssumption DEF AzamCallback, IInv, TypeOK
<1>5. PICK new \in CallState :
         /\ new = [pc |-> "apply", kind |-> kind, order |-> o, seen |-> seen, report |-> report]
         /\ EventOf(new) = e
  <2> DEFINE new == [pc |-> "apply", kind |-> kind, order |-> o, seen |-> seen, report |-> report]
  <2>1. new \in CallState
    BY DEF CallState, PC, Kind
  <2>2. EventOf(new) = e
    BY <1>1 DEF EventOf
  <2> QED
    BY <2>1, <2>2
<1>6. Taken(o) => Taken(o)'
  BY <1>2, <1>4 DEF Taken, AmountMatches, Charged
<1>7. report = "paid" => Taken(o)'
  <2>1. CASE kind = "azam"
    BY <1>1, <1>3, <1>4, <1>6, <2>1 DEF RowOK, Taken
  <2>2. CASE kind = "claim"
    BY <1>4, <2>2 DEF Taken
  <2> QED
    BY <2>1, <2>2
<1>8. CallOK(new)'
  BY <1>1, <1>2, <1>3, <1>4, <1>5, <1>6, <1>7 DEF CallOK, KindOK, RowOK, Exists, EventOf
<1> QED
  BY <1>2, <1>3, <1>4, <1>5, <1>8, BeginStep

LEMMA LoadPreserves ==
  ASSUME IInv, NEW c \in Call, Load(c)
  PROVE  IInv'
<1>1. PICK call \in CallState, o \in Order :
         /\ call = calls[c] /\ o = call.order /\ call.pc = "load" /\ call.kind = "webhook"
         /\ EventOf(call) \in sent /\ CallOK(call) /\ Exists(o) /\ RowOK(o)
         /\ orders[o].status \in Status
  BY DEF Load, IInv, TypeOK, Row, RowsOK, CallsOK, CallOK, KindOK
<1>2. /\ UNCHANGED <<orders, gateway, provider, sent, acked, processed, due, postings, faults,
                    disturbed, missed, claimed>>
      /\ unpriced' = unpriced \/ unpriced' = unpriced \cup {o}
  BY <1>1 DEF Load
<1>3. PICK new \in CallState :
         /\ calls' = [calls EXCEPT ![c] = new] /\ new.kind = "webhook" /\ new.order = o
         /\ new.report = call.report /\ new.seen = orders[o].status
         /\ new.pc \in {"apply", "store"} /\ (new.pc = "apply" => AmountMatches(o))
  <2>1. PICK pc \in {"apply", "store"} :
           /\ calls' = [calls EXCEPT ![c].seen = orders[o].status, ![c].pc = pc]
           /\ pc = "apply" => AmountMatches(o)
    BY <1>1 DEF Load
  <2> DEFINE new == [call EXCEPT !.seen = orders[o].status, !.pc = pc]
  <2>2. calls' = [calls EXCEPT ![c] = new]
    BY <1>1, <2>1 DEF IInv, TypeOK
  <2>3. new \in CallState
    BY <1>1 DEF CallState, PC
  <2> QED
    BY <1>1, <2>1, <2>2, <2>3 DEF CallState
<1>4. /\ EventOf(new) = EventOf(call) /\ EventOf(call) = [order |-> o, report |-> call.report]
      /\ EventOf(call) \in Event
  BY <1>1, <1>3 DEF EventOf, IInv, TypeOK
<1>5. call.report \in Outcome \cup {"pending"}
  BY <1>4 DEF Event
<1>6. call.report = "paid" => provider[o] = "paid"
  BY <1>1, <1>4 DEF RowOK
<1>7. CallOK(new)
  BY <1>1, <1>3, <1>4, <1>5, <1>6 DEF CallOK, KindOK, RowOK, Taken
<1>8. LogsOK
  BY <1>1, <1>2 DEF LogsOK, IInv, TypeOK
<1> QED
  BY <1>2, <1>3, <1>7, <1>8, LocalStep

\* Where a handler goes once its row is written, and that the row backs it there.
LEMMA GotoOK ==
  ASSUME IInv, NEW c \in Call, NEW pc \in {"post", "store", "expire"}, Goto(c, pc),
         calls[c].pc # "idle", calls[c].kind # "initiate",
         pc = "post" => Taken(calls[c].order),
         pc = "store" => calls[c].kind = "webhook",
         pc = "expire" => calls[c].kind = "poll"
  PROVE  \E new \in CallState :
            /\ calls' = [calls EXCEPT ![c] = new] /\ acked' \subseteq sent
            /\ CallOK(new) /\ new.pc # "intent"
<1>1. PICK call \in CallState : call = calls[c] /\ CallOK(call)
  BY DEF IInv, TypeOK, CallsOK
<1>2. PICK new \in CallState : new = [call EXCEPT !.pc = pc]
  BY DEF CallState, PC, Outcome
<1>3. /\ new.pc = pc /\ new.kind = call.kind /\ new.order = call.order
      /\ new.report = call.report /\ EventOf(new) = EventOf(call)
  BY <1>2 DEF CallState, EventOf
<1>4. calls' = [calls EXCEPT ![c] = new] /\ acked' \subseteq sent
  BY <1>1, <1>2 DEF Goto, IInv, TypeOK
<1>5. KindOK(new)
  BY <1>1, <1>3 DEF CallOK, KindOK
<1>6. CallOK(new)
  BY <1>1, <1>3, <1>5 DEF CallOK
<1> QED
  BY <1>3, <1>4, <1>6

LEMMA ApplyPreserves ==
  ASSUME IInv, NEW c \in Call, Apply(c)
  PROVE  IInv'
<1>1. PICK call \in CallState, o \in Order :
         /\ call = calls[c] /\ o = call.order /\ call.pc = "apply"
         /\ call.kind \in {"webhook", "azam", "claim", "poll"}
         /\ CallOK(call) /\ Exists(o) /\ RowOK(o) /\ orders[o] \in Row
  BY DEF Apply, IInv, TypeOK, RowsOK, CallsOK, CallOK, KindOK
<1>2. PICK row : /\ \E ref \in {orders[o].ref, TRUE} :
                       row = [orders[o] EXCEPT !.status = Patched(call), !.ref = ref]
                 /\ orders' = [orders EXCEPT ![o] = row]
  <2>1. PICK ref \in {orders[o].ref, TRUE} :
           orders' = [orders EXCEPT ![o] = [[orders[o] EXCEPT !.status = Patched(call)]
                                               EXCEPT !.ref = ref]]
    BY <1>1 DEF Apply
  <2>2. [[orders[o] EXCEPT !.status = Patched(call)] EXCEPT !.ref = ref]
          = [orders[o] EXCEPT !.status = Patched(call), !.ref = ref]
    OBVIOUS
  <2> QED
    BY <2>1, <2>2
<1>3. /\ \/ Patched(call) = call.report
         \/ Patched(call) = call.seen /\ call.seen \in {"paid", "posted"}
         \/ Patched(call) = "paid" /\ call.report = "paid"
         \/ Patched(call) = "posted" /\ call.seen = "posted"
  BY <1>1 DEF Patched
<1>4. /\ Patched(call) \in Status \ {"absent"}
      /\ Patched(call) \in {"paid", "posted"} => Taken(o)
      /\ Patched(call) = "posted" => postings[o] > 0
  BY <1>1, <1>3 DEF CallOK, Outcome, Status, CallState
<1>5. /\ row \in Row /\ row.status = Patched(call) /\ row.amount = orders[o].amount
      /\ row.posted = orders[o].posted
  BY <1>1, <1>2, <1>4 DEF Row
<1>6. PICK new \in CallState :
         /\ calls' = [calls EXCEPT ![c] = new] /\ acked' \subseteq sent
         /\ CallOK(new) /\ new.pc # "intent"
  <2>1. CASE Answer(c)
    BY <2>1, AnswerOK, IdleOK
  <2>2. CASE row.status = "paid" /\ Goto(c, "post")
    BY <1>1, <1>4, <1>5, <2>2, GotoOK
  <2>3. CASE call.kind = "webhook" /\ Goto(c, "store")
    BY <1>1, <2>3, GotoOK
  <2>4. \/ Answer(c)
        \/ row.status = "paid" /\ Goto(c, "post")
        \/ call.kind = "webhook" /\ Goto(c, "store")
    <3>1. [orders[o] EXCEPT !.status = Patched(call)].status = Patched(call)
      BY <1>1 DEF Row
    <3> QED
      BY <1>1, <1>5, <3>1 DEF Apply
  <2> QED
    BY <2>1, <2>2, <2>3, <2>4
<1>7. UNCHANGED <<gateway, provider, sent, processed, due, postings, faults, disturbed, missed,
                 claimed, unpriced>>
  BY DEF Apply
<1>8. LogsOK
  BY <1>6, <1>7 DEF LogsOK, IInv, TypeOK
<1> QED
  BY <1>1, <1>2, <1>4, <1>5, <1>6, <1>7, <1>8, RowStep DEF RowOK

\* The journal: its evidence is with the handler.
LEMMA PostPreserves ==
  ASSUME IInv, NEW c \in Call, Post(c)
  PROVE  IInv'
<1>1. PICK call \in CallState, o \in Order :
         /\ call = calls[c] /\ o = call.order /\ call.pc = "post" /\ CallOK(call)
         /\ Exists(o) /\ Taken(o) /\ postings[o] \in Nat /\ postings[o] < MaxPosted
  BY PaymentsAssumption DEF Post, IInv, TypeOK, CallsOK, CallOK
<1>2. /\ postings' = [postings EXCEPT ![o] = @ + 1]
      /\ UNCHANGED <<orders, gateway, provider, sent, acked, processed, due, faults, disturbed,
                    missed, claimed, unpriced>>
  BY <1>1 DEF Post, Goto
<1>3. /\ postings' \in [Order -> 0..MaxPosted] /\ postings'[o] = postings[o] + 1
      /\ \A x \in Order \ {o} : postings'[x] = postings[x]
  BY <1>1, <1>2, PaymentsAssumption DEF IInv, TypeOK
<1>4. PICK new \in CallState :
         /\ calls' = [calls EXCEPT ![c] = new] /\ new.pc = "record" /\ new.kind = call.kind
         /\ new.order = o /\ EventOf(new) = EventOf(call)
  <2>1. [call EXCEPT !.pc = "record"] \in CallState
    BY DEF CallState, PC
  <2>2. calls' = [calls EXCEPT ![c] = [call EXCEPT !.pc = "record"]]
    BY <1>1 DEF Post, Goto, IInv, TypeOK
  <2> QED
    BY <1>1, <2>1, <2>2 DEF CallState, EventOf
<1>5. TypeOK'
  BY <1>2, <1>3, <1>4 DEF IInv, TypeOK
<1>6. Grows
  BY <1>1, <1>2, <1>3 DEF Grows, Exists
<1>7. RowsOK'
  <2> SUFFICES ASSUME NEW x \in Order PROVE RowOK(x)'
    BY DEF RowsOK
  <2>1. RowOK(x)
    BY DEF IInv, RowsOK
  <2>2. CASE x = o
    <3>1. Taken(o)' /\ (AmountMatches(o) => AmountMatches(o)')
      BY <1>1, <1>2, <1>6, TakenStable DEF AmountMatches, Charged
    <3> QED
      BY <1>1, <1>2, <1>3, <2>1, <2>2, <3>1 DEF RowOK, Exists
  <2>3. CASE x # o
    BY <1>2, <1>3, <2>1, <2>3, RowKept
  <2> QED
    BY <2>2, <2>3
<1>8. CallOK(new)'
  <2>1. Taken(o)' /\ Exists(o)' /\ postings'[o] > 0
    BY <1>1, <1>3, <1>6, TakenStable DEF Grows
  <2>2. KindOK(new)'
    BY <1>1, <1>2, <1>4 DEF CallOK, KindOK, EventOf
  <2> QED
    BY <1>4, <2>1, <2>2 DEF CallOK
<1>9. \A d \in Call \ {c} : calls[d].pc = "intent" => provider'[calls[d].order] = "none"
  BY <1>2 DEF IInv, CallsOK, CallOK
<1> QED
  BY <1>4, <1>5, <1>6, <1>7, <1>8, <1>9, CallStep

LEMMA RecordPreserves ==
  ASSUME IInv, NEW c \in Call, Record(c)
  PROVE  IInv'
<1>1. PICK call \in CallState, o \in Order :
         /\ call = calls[c] /\ o = call.order /\ call.pc = "record" /\ CallOK(call)
         /\ Exists(o) /\ Taken(o) /\ postings[o] > 0 /\ orders[o] \in Row
  BY DEF Record, IInv, TypeOK, CallsOK, CallOK
<1>2. PICK row \in Row :
         /\ orders' = [orders EXCEPT ![o] = row] /\ row.status = "posted"
         /\ row.amount = orders[o].amount
  <2>1. [orders[o] EXCEPT !.status = "posted", !.posted = TRUE] \in Row
    BY <1>1 DEF Row, Status
  <2>2. orders' = [orders EXCEPT ![o] = [orders[o] EXCEPT !.status = "posted", !.posted = TRUE]]
    BY <1>1 DEF Record, IInv, TypeOK
  <2> QED
    BY <1>1, <2>1, <2>2 DEF Row
<1>3. PICK new \in CallState :
         /\ calls' = [calls EXCEPT ![c] = new] /\ acked' \subseteq sent
         /\ CallOK(new) /\ new.pc # "intent"
  <2>1. CASE Answer(c)
    BY <2>1, AnswerOK, IdleOK
  <2>2. CASE call.kind = "webhook" /\ Goto(c, "store")
    BY <1>1, <2>2, GotoOK
  <2> QED
    BY <1>1, <2>1, <2>2 DEF Record
<1>4. UNCHANGED <<gateway, provider, sent, processed, due, postings, faults, disturbed, missed,
                 claimed, unpriced>>
  BY DEF Record
<1>5. LogsOK
  BY <1>3, <1>4 DEF LogsOK, IInv, TypeOK
<1> QED
  BY <1>1, <1>2, <1>3, <1>4, <1>5, RowStep

LEMMA StorePreserves ==
  ASSUME IInv, NEW c \in Call, StoreProcessedWebhookEvent(c)
  PROVE  IInv'
<1>1. EventOf(calls[c]) \in sent
  BY DEF StoreProcessedWebhookEvent, IInv, CallsOK, CallOK, KindOK
<1>2. /\ processed' = processed \cup {EventOf(calls[c])} /\ Answer(c)
      /\ UNCHANGED <<orders, gateway, provider, sent, due, postings, faults, disturbed, missed,
                    claimed, unpriced>>
  BY DEF StoreProcessedWebhookEvent
<1>3. calls' = [calls EXCEPT ![c] = Idle] /\ acked' \subseteq sent
  BY <1>2, AnswerOK
<1>4. LogsOK
  BY <1>1, <1>2, <1>3 DEF LogsOK, IInv, TypeOK
<1> QED
  BY <1>2, <1>3, <1>4, EndStep

LEMMA GetPaymentOrderStatusPreserves ==
  ASSUME IInv, NEW c \in Call, NEW o \in Order, GetPaymentOrderStatus(c, o)
  PROVE  IInv'
<1>1. PICK pc \in {"query", "expire"}, report \in {"none", "expired"} :
         Begin(c, "poll", o, pc, "pending", report)
  BY DEF GetPaymentOrderStatus
<1>2. /\ UNCHANGED <<orders, gateway, provider, sent, acked, processed, due, postings, faults,
                    missed, claimed, unpriced>>
      /\ Exists(o)
  BY DEF GetPaymentOrderStatus, Exists
<1> DEFINE new == [pc |-> pc, kind |-> "poll", order |-> o, seen |-> "pending", report |-> report]
<1>3. new \in CallState
  BY DEF CallState, PC, Kind, Status, Outcome
<1>4. CallOK(new)
  BY <1>2 DEF CallOK, KindOK
<1> QED
  BY <1>1, <1>2, <1>3, <1>4, BeginStep DEF IInv, TypeOK

LEMMA ReconcilePaymentOrderPreserves ==
  ASSUME IInv, NEW c \in Call, NEW o \in Order, ReconcilePaymentOrder(c, o)
  PROVE  IInv'
<1>1. PICK pc \in {"expire", "post"}, seen \in {"pending", "paid"}, report \in {"none", "expired"} :
         /\ Begin(c, "reconcile", o, pc, seen, report)
         /\ pc = "post" => orders[o].status = "paid"
  BY DEF ReconcilePaymentOrder
<1>2. /\ UNCHANGED <<orders, gateway, provider, sent, acked, processed, due, postings, faults,
                    missed, claimed, unpriced>>
      /\ Exists(o)
  BY DEF ReconcilePaymentOrder, TimedOut, Exists
<1>3. pc = "post" => Taken(o)
  BY <1>1 DEF IInv, RowsOK, RowOK
<1> DEFINE new == [pc |-> pc, kind |-> "reconcile", order |-> o, seen |-> seen, report |-> report]
<1>4. new \in CallState
  BY DEF CallState, PC, Kind, Status, Outcome
<1>5. CallOK(new)
  BY <1>2, <1>3 DEF CallOK, KindOK
<1> QED
  BY <1>1, <1>2, <1>4, <1>5, BeginStep DEF IInv, TypeOK

LEMMA ExpirePreserves ==
  ASSUME IInv, NEW c \in Call, Expire(c)
  PROVE  IInv'
<1>1. PICK o \in Order : o = calls[c].order /\ Exists(o) /\ orders[o] \in Row /\ RowOK(o)
  BY DEF Expire, IInv, TypeOK, RowsOK, CallsOK, CallOK
<1>2. PICK row \in Row :
         /\ orders' = [orders EXCEPT ![o] = row] /\ row.status = "expired"
         /\ row.amount = orders[o].amount /\ row.posted = orders[o].posted
  <2>1. [orders[o] EXCEPT !.status = "expired"] \in Row
    BY <1>1 DEF Row, Status
  <2>2. orders' = [orders EXCEPT ![o] = [orders[o] EXCEPT !.status = "expired"]]
    BY <1>1 DEF Expire, SetStatus, IInv, TypeOK
  <2> QED
    BY <1>1, <2>1, <2>2 DEF Row
<1>3. calls' = [calls EXCEPT ![c] = Idle] /\ acked' \subseteq sent
  BY AnswerOK DEF Expire
<1>4. UNCHANGED <<gateway, provider, sent, processed, due, postings, faults, disturbed, missed,
                 claimed, unpriced>>
  BY DEF Expire
<1>5. LogsOK
  BY <1>3, <1>4 DEF LogsOK, IInv, TypeOK
<1> QED
  BY <1>1, <1>2, <1>3, <1>4, <1>5, IdleOK, RowStep DEF RowOK

LEMMA QueryPreserves ==
  ASSUME IInv, NEW c \in Call, Query(c)
  PROVE  IInv'
<1>1. PICK call \in CallState, o \in Order :
         /\ call = calls[c] /\ o = call.order /\ call.pc = "query" /\ call.kind = "poll"
         /\ CallOK(call) /\ call.seen = "pending" /\ Exists(o)
  BY DEF Query, IInv, TypeOK, CallsOK, CallOK, KindOK
<1>2. /\ UNCHANGED <<orders, gateway, provider, sent, processed, due, postings, faults, disturbed,
                    missed, claimed>>
      /\ unpriced' = unpriced \/ unpriced' = unpriced \cup {o}
  BY <1>1 DEF Query
<1>3. PICK new \in CallState :
         /\ calls' = [calls EXCEPT ![c] = new] /\ acked' \subseteq sent
         /\ CallOK(new) \/ CallOK(new)'
         /\ new.pc # "intent"
  <2>1. CASE Answer(c)
    BY <2>1, AnswerOK, IdleOK
  <2>2. CASE Goto(c, "expire")
    BY <1>1, <2>2, GotoOK
  <2>3. ASSUME NEW priced \in BOOLEAN, provider[o] \in Outcome, priced => AmountMatches(o),
               calls' = [calls EXCEPT ![c].pc = "apply", ![c].report = provider[o]],
               unpriced' = IF priced THEN unpriced ELSE unpriced \cup {o}, UNCHANGED acked
        PROVE  \E new \in CallState :
                  /\ calls' = [calls EXCEPT ![c] = new] /\ acked' \subseteq sent
                  /\ CallOK(new)' /\ new.pc # "intent"
    <3>1. PICK new \in CallState : new = [call EXCEPT !.pc = "apply", !.report = provider[o]]
      BY <2>3 DEF CallState, PC
    <3>2. /\ new.pc = "apply" /\ new.kind = "poll" /\ new.order = o /\ new.report = provider[o]
          /\ new.seen = call.seen
      BY <1>1, <3>1 DEF CallState
    <3>3. calls' = [calls EXCEPT ![c] = new]
      BY <1>1, <2>3, <3>1 DEF IInv, TypeOK
    <3>4. new.report = "paid" => Taken(o)'
      BY <1>2, <2>3, <3>2 DEF Taken, AmountMatches, Charged
    <3>5. KindOK(new)' /\ Exists(o)'
      BY <1>1, <1>2, <3>2 DEF KindOK, Exists
    <3>6. CallOK(new)'
      BY <1>1, <2>3, <3>2, <3>4, <3>5 DEF CallOK
    <3> QED
      BY <2>3, <3>2, <3>3, <3>6 DEF IInv, TypeOK
  <2> QED
    BY <1>1, <2>1, <2>2, <2>3 DEF Query
<1>4. LogsOK
  BY <1>1, <1>2, <1>3 DEF LogsOK, IInv, TypeOK
<1> QED
  BY <1>2, <1>3, <1>4, LocalStep

LEMMA NextInv == IInv /\ [Next]_vars => IInv'
<1> SUFFICES ASSUME IInv, [Next]_vars PROVE IInv'
  OBVIOUS
<1>1. ASSUME NEW c \in Call, NEW o \in Order, NEW amt \in Amount, Initiate(c, o, amt) PROVE IInv'
  BY <1>1, InitiatePreserves
<1>2. ASSUME NEW c \in Call, NEW o \in Order, GetPaymentOrderStatus(c, o) \/ ReconcilePaymentOrder(c, o)
      PROVE  IInv'
  BY <1>2, GetPaymentOrderStatusPreserves, ReconcilePaymentOrderPreserves
<1>3. ASSUME NEW c \in Call, Step(c) PROVE IInv'
  BY <1>3, CreatePaymentIntentPreserves, UpdateInitiatedPreserves, LoadPreserves, ApplyPreserves,
     PostPreserves, RecordPreserves, StorePreserves, ExpirePreserves, QueryPreserves DEF Step
<1>4. ASSUME NEW c \in Call, Fail(c) \/ Die(c) PROVE IInv'
  BY <1>4, FailPreserves
<1>5. ASSUME NEW e \in Event, Deliver(e) PROVE IInv'
  BY <1>5, WebhookPreserves, AzamCallbackPreserves DEF Deliver
<1>8. ASSUME NEW e \in Event, NEW c \in Call, AzamCallback(c, e, "claim") PROVE IInv'
  BY <1>8, AzamCallbackPreserves
<1>6. ASSUME NEW o \in Order, Settle(o) \/ AzamProgress(o) \/ PassExpiry(o) PROVE IInv'
  BY <1>6, SettlePreserves, AzamProgressPreserves, PassExpiryPreserves
<1>7. CASE UNCHANGED vars
  <2>1. TypeOK'
    BY <1>7 DEF vars, IInv, TypeOK
  <2>2. Grows /\ RowsOK' /\ calls' = calls
    BY <1>7, RowKept DEF vars, Grows, Exists, IInv, RowsOK
  <2>3. \A d \in Call : calls[d].pc = "intent" => provider'[calls[d].order] = "none"
    BY <1>7 DEF vars, IInv, CallsOK, CallOK
  <2> QED
    BY <2>1, <2>2, <2>3, NoCallStep
<1> QED
  BY <1>1, <1>2, <1>3, <1>4, <1>5, <1>6, <1>7, <1>8 DEF Next

(***************************************************************************)
(* The theorems.                                                            *)
(***************************************************************************)
\* What every reachable state satisfies, however handlers interleave and fail.
THEOREM PaymentsInvariant == Spec => []IInv
BY InitInv, NextInv, PTL DEF Spec

\* Orders, events and handlers keep their types: no event is answered or recorded that
\* the gateway never sent.
THEOREM PaymentsTypeCorrect == Spec => []TypeOK
<1>1. IInv => TypeOK
  BY DEF IInv
<1> QED
  BY <1>1, PaymentsInvariant, PTL

\* A journal is posted only for an order the gateway was paid for, and for the amount the
\* payer was charged, but by two ways: a callback from elsewhere that is taken at its word,
\* and a report of the gateway without an amount.  No interleaving of handlers, stale
\* write, repeated event, expiry or failure adds a third.
THEOREM PaymentsPostedIsCharged == Spec => []PostedIsCharged
<1>1. IInv => PostedIsCharged
  BY DEF IInv, RowsOK, RowOK, Taken, PostedIsCharged
<1> QED
  BY <1>1, PaymentsInvariant, PTL

\* An order that says posted has a journal: stale writes of other handlers never invent one.
THEOREM PaymentsPostedHasJournal == Spec => []PostedHasJournal
<1>1. IInv => PostedHasJournal
  BY DEF IInv, RowsOK, RowOK, PostedHasJournal
<1> QED
  BY <1>1, PaymentsInvariant, PTL

(***************************************************************************)
(* Orders whose handlers ran one after the other.  Between two handlers the *)
(* row, the journals and the recorded events of such an order agree; while  *)
(* one is at work they agree up to what its pc says it has yet to do.       *)
(***************************************************************************)
PaidHandled(o) ==
    [order |-> o, report |-> "paid"] \in processed /\ AmountMatches(o) /\ o \notin unpriced

Settled(o) ==
    /\ orders[o].status # "paid"
    /\ postings[o] = IF orders[o].status = "posted" THEN 1 ELSE 0
    /\ orders[o].posted <=> orders[o].status = "posted"
    /\ PaidHandled(o) => orders[o].status = "posted"

Phase(call) ==
    LET o == call.order IN
    /\ call.pc \notin {"post", "record"} => Settled(o)
    /\ call.pc \in {"intent", "update"} => orders[o].status \in {"created", "pending"}
    /\ call.pc \in {"query", "expire"} => orders[o].status = "pending"
    /\ call.pc = "apply" =>
          /\ call.seen = orders[o].status
          /\ call.kind = "poll" => orders[o].status = "pending"
    /\ call.pc \in {"post", "record"} =>
          /\ orders[o].status = "paid" /\ ~orders[o].posted /\ ~PaidHandled(o)
          /\ postings[o] = IF call.pc = "post" THEN 0 ELSE 1
    /\ call.pc = "store" /\ call.report = "paid" /\ AmountMatches(o) /\ o \notin unpriced
          => orders[o].status = "posted"

SerialOf(o) ==
    /\ \A c, d \in Working(o) : c = d
    /\ Working(o) = {} => Settled(o)
    /\ \A c \in Working(o) : Phase(calls[c])

SerialOK == \A o \in Order \ disturbed : SerialOf(o)

\* An order neither whose row, journals and events nor whose handlers are touched.
LEMMA SerialFrame ==
  ASSUME NEW o \in Order, SerialOf(o), gateway' = gateway, o \in unpriced => o \in unpriced',
         orders'[o] = orders[o], postings'[o] = postings[o],
         [order |-> o, report |-> "paid"] \in processed' => [order |-> o, report |-> "paid"] \in processed,
         \A d \in Call : calls'[d] = calls[d] \/ (calls[d].order # o /\ calls'[d].order # o)
  PROVE  SerialOf(o)'
<1>1. Working(o)' = Working(o) /\ \A d \in Working(o) : calls'[d] = calls[d]
  BY DEF Working
<1>2. (AmountMatches(o)' <=> AmountMatches(o)) /\ (PaidHandled(o)' => PaidHandled(o))
  BY DEF PaidHandled, AmountMatches, Charged
<1>3. Settled(o) => Settled(o)'
  BY <1>2 DEF Settled
<1>4. ASSUME NEW d \in Working(o)' PROVE Phase(calls[d])'
  <2>1. d \in Working(o) /\ calls'[d] = calls[d] /\ calls[d].order = o /\ Phase(calls[d])
    BY <1>1, <1>4 DEF Working, SerialOf
  <2> QED
    BY <1>2, <1>3, <2>1 DEF Phase
<1> QED
  BY <1>1, <1>3, <1>4 DEF SerialOf

\* No handler moves and no row, journal or recorded event changes.
LEMMA SerialStutter ==
  ASSUME IInv, SerialOK, UNCHANGED <<orders, gateway, postings, calls, disturbed, processed,
                                    unpriced>>
  PROVE  SerialOK'
<1> SUFFICES ASSUME NEW o \in Order \ disturbed PROVE SerialOf(o)'
  BY DEF SerialOK
<1>1. SerialOf(o)
  BY DEF SerialOK
<1>2. \A d \in Call : calls'[d] = calls[d]
  OBVIOUS
<1> QED
  BY <1>1, <1>2, SerialFrame

\* One handler moves, and nothing changes but on its order.
LEMMA SerialCallStep ==
  ASSUME IInv, SerialOK, disturbed \subseteq disturbed', gateway' = gateway,
         unpriced \subseteq unpriced',
         NEW c \in Call, NEW o \in Order, NEW new, calls' = [calls EXCEPT ![c] = new],
         calls[c].order \in {o, NoOrder}, new.order \in {o, NoOrder},
         \A x \in Order \ {o} : /\ orders'[x] = orders[x] /\ postings'[x] = postings[x]
                                /\ [order |-> x, report |-> "paid"] \in processed'
                                     => [order |-> x, report |-> "paid"] \in processed,
         o \notin disturbed' =>
            /\ calls[c].order = NoOrder => Working(o) = {}
            /\ new.order = NoOrder => Settled(o)'
            /\ new.order = o => Phase(new)'
  PROVE  SerialOK'
<1> USE PaymentsAssumption
<1>1. calls'[c] = new /\ \A d \in Call \ {c} : calls'[d] = calls[d]
  BY DEF IInv, TypeOK
<1> SUFFICES ASSUME NEW x \in Order \ disturbed' PROVE SerialOf(x)'
  BY DEF SerialOK
<1>2. SerialOf(x)
  BY DEF SerialOK
<1>3. CASE x # o
  <2>1. \A d \in Call : calls'[d] = calls[d] \/ (calls[d].order # x /\ calls'[d].order # x)
    <3> SUFFICES ASSUME NEW d \in Call PROVE calls'[d] = calls[d] \/ (calls[d].order # x /\ calls'[d].order # x)
      OBVIOUS
    <3>1. CASE d = c
      <4>1. x # NoOrder /\ x # o /\ new.order # x /\ calls[c].order # x
        BY <1>3
      <4> QED
        BY <1>1, <3>1, <4>1
    <3> QED
      BY <1>1, <3>1
  <2> QED
    BY <1>2, <1>3, <2>1, SerialFrame
<1>4. CASE x = o
  <2>1. \A d \in Call \ {c} : calls'[d].order # o
    BY <1>1, <1>2, <1>4 DEF SerialOf, Working
  <2>2. CASE new.order = o
    <3>1. Working(o)' = {c} /\ calls'[c] = new /\ Phase(new)'
      BY <1>1, <1>4, <2>1, <2>2 DEF Working
    <3> QED
      BY <1>1, <1>4, <3>1 DEF SerialOf, Phase
  <2>3. CASE new.order = NoOrder
    <3>1. Working(o)' = {} /\ Settled(o)'
      BY <1>1, <1>4, <2>1, <2>3 DEF Working
    <3> QED
      BY <1>4, <3>1 DEF SerialOf
  <2> QED
    BY <2>2, <2>3
<1> QED
  BY <1>3, <1>4

\* What is known of the order of a handler, unless it is disturbed.
LEMMA PhaseOf ==
  ASSUME SerialOK, NEW c \in Call, NEW o \in Order \ disturbed, calls[c].order = o
  PROVE  Phase(calls[c])
<1>1. SerialOf(o) /\ c \in Working(o)
  BY DEF SerialOK, Working
<1> QED
  BY <1>1 DEF SerialOf

\* A handler that starts on an order another one is at work on disturbs it.
LEMMA BeginSerial ==
  ASSUME IInv, SerialOK, NEW c \in Call, NEW kind, NEW o \in Order, NEW pc, NEW seen, NEW report,
         Begin(c, kind, o, pc, seen, report),
         UNCHANGED <<orders, gateway, postings, processed, unpriced>>,
         NEW new, new = [pc |-> pc, kind |-> kind, order |-> o, seen |-> seen, report |-> report],
         Settled(o) => Phase(new)
  PROVE  SerialOK'
<1>1. calls[c].pc = "idle" /\ calls' = [calls EXCEPT ![c] = new]
  BY DEF Begin
<1>2. calls[c].order = NoOrder /\ new.order = o
  BY <1>1 DEF IInv, CallsOK, CallOK, KindOK, Idle
<1>3. disturbed \subseteq disturbed' /\ (o \notin disturbed' => o \notin disturbed /\ Working(o) = {})
  BY DEF Begin
<1>4. o \notin disturbed' => Phase(new)'
  <2> SUFFICES ASSUME o \notin disturbed' PROVE Phase(new)'
    OBVIOUS
  <2>1. Phase(new)
    BY <1>3 DEF SerialOK, SerialOf
  <2> QED
    BY <2>1 DEF Phase, Settled, PaidHandled, AmountMatches, Charged
<1> QED
  BY <1>1, <1>2, <1>3, <1>4, SerialCallStep, PaymentsAssumption

LEMMA InitiateSerial ==
  ASSUME IInv, SerialOK, NEW c \in Call, NEW o \in Order, NEW amt \in Amount, Initiate(c, o, amt)
  PROVE  SerialOK'
<1>1. PICK new \in CallState :
         /\ new = [pc |-> "intent", kind |-> "initiate", order |-> o, seen |-> "created",
                   report |-> "none"]
  BY DEF CallState, PC, Kind, Status
<1>2. /\ calls[c].pc = "idle" /\ calls' = [calls EXCEPT ![c] = new]
      /\ new.pc = "intent" /\ new.order = o /\ new.report = "none"
      /\ UNCHANGED <<gateway, processed, postings, unpriced>>
  BY <1>1 DEF Initiate, Begin
<1>3. calls[c].order = NoOrder
  BY <1>2 DEF IInv, CallsOK, CallOK, KindOK, Idle
<1>4. disturbed \subseteq disturbed' /\ (o \notin disturbed' => o \notin disturbed /\ Working(o) = {})
  BY DEF Initiate, Begin
<1>5. /\ orders'[o].status = "created" /\ ~orders'[o].posted /\ orders[o].status = "absent"
      /\ \A x \in Order \ {o} : orders'[x] = orders[x]
  BY DEF Initiate, IInv, TypeOK, NoRow
<1>6. provider[o] = "none" /\ [order |-> o, report |-> "paid"] \notin processed
  BY <1>5 DEF IInv, TypeOK, RowsOK, RowOK, Exists
<1>7. o \notin disturbed' => Settled(o)'
  BY <1>2, <1>4, <1>5, <1>6 DEF SerialOK, SerialOf, Settled, PaidHandled
<1>8. o \notin disturbed' => Phase(new)'
  BY <1>2, <1>5, <1>7 DEF Phase
<1> QED
  BY <1>2, <1>3, <1>4, <1>5, <1>8, SerialCallStep, PaymentsAssumption

\* A handler at work goes on, or is done, and what it leaves is settled or as its pc says.
LEMMA WorkSerial ==
  ASSUME IInv, SerialOK, NEW c \in Call, NEW o \in Order, calls[c].order = o,
         UNCHANGED <<gateway, disturbed>>, unpriced \subseteq unpriced',
         NEW new, calls' = [calls EXCEPT ![c] = new], new.order \in {o, NoOrder},
         \A x \in Order \ {o} : /\ orders'[x] = orders[x] /\ postings'[x] = postings[x]
                                /\ [order |-> x, report |-> "paid"] \in processed'
                                     => [order |-> x, report |-> "paid"] \in processed,
         o \notin disturbed /\ Phase(calls[c]) =>
            /\ new.order = NoOrder => Settled(o)'
            /\ new.order = o => Phase(new)'
  PROVE  SerialOK'
<1>1. o \notin disturbed => Phase(calls[c])
  BY PhaseOf
<1>2. calls[c].order # NoOrder
  BY PaymentsAssumption
<1> QED
  BY <1>1, <1>2, SerialCallStep

LEMMA CreatePaymentIntentSerial ==
  ASSUME IInv, SerialOK, NEW c \in Call, CreatePaymentIntent(c)
  PROVE  SerialOK'
<1>1. PICK call \in CallState, o \in Order :
         /\ call = calls[c] /\ o = call.order /\ call.pc = "intent" /\ CallOK(call)
  BY DEF CreatePaymentIntent, IInv, TypeOK, CallsOK, CallOK
<1>2. PICK report \in {"pending", "timeout", "failed"} :
         calls' = [calls EXCEPT ![c].pc = "update", ![c].report = report]
  BY DEF CreatePaymentIntent
<1>3. PICK new \in CallState : new = [call EXCEPT !.pc = "update", !.report = report]
  BY DEF CallState, PC, Outcome
<1>4. calls' = [calls EXCEPT ![c] = new] /\ new.pc = "update" /\ new.order = o
  BY <1>1, <1>2, <1>3 DEF IInv, TypeOK, CallState
<1>5. UNCHANGED <<orders, gateway, processed, postings, disturbed, unpriced>>
  BY DEF CreatePaymentIntent
<1>6. Phase(call) => Phase(new)'
  BY <1>1, <1>4, <1>5 DEF Phase, Settled, PaidHandled, AmountMatches, Charged
<1> QED
  BY <1>1, <1>4, <1>5, <1>6, WorkSerial, PaymentsAssumption

\* Where a handler goes on keeps what it knows.
LEMMA GotoIs ==
  ASSUME IInv, NEW c \in Call, NEW pc \in PC, Goto(c, pc)
  PROVE  \E new \in CallState :
            /\ calls' = [calls EXCEPT ![c] = new]
            /\ new.pc = pc /\ new.kind = calls[c].kind /\ new.order = calls[c].order
            /\ new.seen = calls[c].seen /\ new.report = calls[c].report
<1>1. PICK call \in CallState : call = calls[c]
  BY DEF IInv, TypeOK
<1>2. PICK new \in CallState : new = [call EXCEPT !.pc = pc]
  BY DEF CallState
<1>3. /\ new.pc = pc /\ new.kind = call.kind /\ new.order = call.order
      /\ new.seen = call.seen /\ new.report = call.report
  BY <1>2 DEF CallState
<1>4. calls' = [calls EXCEPT ![c] = new]
  BY <1>1, <1>2 DEF Goto, IInv, TypeOK
<1> QED
  BY <1>1, <1>3, <1>4

LEMMA UpdateInitiatedSerial ==
  ASSUME IInv, SerialOK, NEW c \in Call, UpdateInitiated(c)
  PROVE  SerialOK'
<1>1. PICK call \in CallState, o \in Order :
         /\ call = calls[c] /\ o = call.order /\ call.pc = "update" /\ orders[o] \in Row
  BY DEF UpdateInitiated, IInv, TypeOK, CallsOK, CallOK
<1>2. UNCHANGED <<gateway, processed, postings, disturbed, unpriced>>
  BY DEF UpdateInitiated
<1>3. /\ \A x \in Order \ {o} : orders'[x] = orders[x]
      /\ orders'[o].amount = orders[o].amount /\ orders'[o].posted = orders[o].posted
  BY <1>1 DEF UpdateInitiated, SetStatus, IInv, TypeOK, Row
<1>4. \/ calls' = [calls EXCEPT ![c] = Idle] /\ orders'[o].status \in {"pending", "failed"}
      \/ /\ calls' = [calls EXCEPT ![c].report = "failed"]
         /\ orders'[o].status \in {"pending", orders[o].status}
  BY <1>1 DEF UpdateInitiated, Answer, SetStatus, IInv, TypeOK, Row
<1>5. PICK new \in CallState :
         /\ calls' = [calls EXCEPT ![c] = new]
         /\ \/ new = Idle /\ orders'[o].status \in {"pending", "failed"}
            \/ /\ new.pc = "update" /\ new.order = o
               /\ orders'[o].status \in {"pending", orders[o].status}
  <2>1. PICK mid \in CallState : mid = [call EXCEPT !.report = "failed"]
    BY DEF CallState, Outcome
  <2>2. mid.pc = "update" /\ mid.order = o
    BY <1>1, <2>1 DEF CallState
  <2>3. calls' = [calls EXCEPT ![c].report = "failed"] => calls' = [calls EXCEPT ![c] = mid]
    BY <1>1, <2>1 DEF IInv, TypeOK
  <2>4. Idle \in CallState
    BY IdleOK
  <2> QED
    BY <1>4, <2>2, <2>3, <2>4
<1>6. ASSUME Phase(call) PROVE Settled(o)'
  <2>1. Settled(o) /\ orders[o].status \in {"created", "pending"}
    BY <1>1, <1>6 DEF Phase
  <2>2. ~PaidHandled(o) /\ postings[o] = 0 /\ ~orders[o].posted
    BY <1>1, <2>1 DEF Settled, Row
  <2>3. ~PaidHandled(o)'
    BY <1>2, <1>3, <2>2 DEF PaidHandled, AmountMatches, Charged
  <2>4. orders'[o].status \in {"created", "pending", "failed"}
    BY <1>5, <2>1
  <2> QED
    BY <1>2, <1>3, <2>2, <2>3, <2>4 DEF Settled
<1>7. ASSUME Phase(call), new.order = o PROVE Phase(new)'
  <2>1. new.pc = "update" /\ orders'[o].status \in {"pending", orders[o].status}
    BY <1>5, <1>7, PaymentsAssumption DEF Idle
  <2>2. orders'[o].status \in {"created", "pending"}
    BY <1>1, <1>7, <2>1 DEF Phase
  <2> QED
    BY <1>6, <1>7, <2>1, <2>2 DEF Phase
<1>8. new.order \in {o, NoOrder}
  BY <1>5 DEF Idle
<1> QED
  BY <1>1, <1>2, <1>3, <1>5, <1>6, <1>7, <1>8, WorkSerial

LEMMA WebhookSerial ==
  ASSUME IInv, SerialOK, NEW c \in Call, NEW e \in Event, Webhook(c, e)
  PROVE  SerialOK'
<1>1. CASE UNCHANGED <<calls, disturbed>>
  BY <1>1, SerialStutter DEF Webhook
<1>2. CASE Begin(c, "webhook", e.order, "load", "absent", e.report)
  <2> DEFINE new == [pc |-> "load", kind |-> "webhook", order |-> e.order, seen |-> "absent",
                     report |-> e.report]
  <2>1. e.order \in Order /\ UNCHANGED <<orders, gateway, postings, processed, unpriced>>
    BY DEF Event, Webhook
  <2>2. Settled(e.order) => Phase(new)
    BY DEF Phase
  <2> HIDE DEF new
  <2> QED
    BY <1>2, <2>1, <2>2, BeginSerial DEF new
<1> QED
  BY <1>1, <1>2 DEF Webhook

LEMMA AzamCallbackSerial ==
  ASSUME IInv, SerialOK, NEW c \in Call, NEW e \in Event, NEW kind \in {"azam", "claim"},
         AzamCallback(c, e, kind)
  PROVE  SerialOK'
<1>1. PICK o, seen : o \in Order /\ o = e.order /\ seen = orders[o].status
  BY DEF Event
<1>2. PICK new : new = [pc |-> "apply", kind |-> kind, order |-> o, seen |-> seen,
                        report |-> e.report]
  OBVIOUS
<1>3. /\ Begin(c, kind, o, "apply", seen, e.report)
      /\ UNCHANGED <<orders, gateway, postings, processed, unpriced>>
  BY <1>1 DEF AzamCallback
<1>4. Settled(o) => Phase(new)
  BY <1>1, <1>2, <1>3 DEF Phase
<1> QED
  BY <1>1, <1>2, <1>3, <1>4, BeginSerial

LEMMA GetPaymentOrderStatusSerial ==
  ASSUME IInv, SerialOK, NEW c \in Call, NEW o \in Order, GetPaymentOrderStatus(c, o)
  PROVE  SerialOK'
<1>1. PICK pc \in {"query", "expire"}, report \in {"none", "expired"} :
         Begin(c, "poll", o, pc, "pending", report)
  BY DEF GetPaymentOrderStatus
<1>2. orders[o].status = "pending" /\ UNCHANGED <<orders, gateway, postings, processed, unpriced>>
  BY DEF GetPaymentOrderStatus
<1>3. PICK new : new = [pc |-> pc, kind |-> "poll", order |-> o, seen |-> "pending",
                        report |-> report]
  OBVIOUS
<1>4. Settled(o) => Phase(new)
  BY <1>2, <1>3 DEF Phase
<1> QED
  BY <1>1, <1>2, <1>3, <1>4, BeginSerial

\* An order whose handlers ran one after the other is not left paid for staff to repost.
LEMMA ReconcilePaymentOrderSerial ==
  ASSUME IInv, SerialOK, NEW c \in Call, NEW o \in Order, ReconcilePaymentOrder(c, o)
  PROVE  SerialOK'
<1>1. PICK pc \in {"expire", "post"}, seen \in {"pending", "paid"}, report \in {"none", "expired"} :
         /\ Begin(c, "reconcile", o, pc, seen, report)
         /\ pc = "post" => orders[o].status = "paid"
         /\ pc = "expire" => orders[o].status = "pending"
  BY DEF ReconcilePaymentOrder, TimedOut
<1>2. UNCHANGED <<orders, gateway, postings, processed, unpriced>>
  BY DEF ReconcilePaymentOrder
<1>3. PICK new : new = [pc |-> pc, kind |-> "reconcile", order |-> o, seen |-> seen,
                        report |-> report]
  OBVIOUS
<1>4. Settled(o) => Phase(new)
  BY <1>1, <1>3 DEF Phase, Settled
<1> QED
  BY <1>1, <1>2, <1>3, <1>4, BeginSerial

LEMMA LoadSerial ==
  ASSUME IInv, SerialOK, NEW c \in Call, Load(c)
  PROVE  SerialOK'
<1>1. PICK call \in CallState, o \in Order, seen \in Status :
         /\ call = calls[c] /\ o = call.order /\ call.pc = "load" /\ call.kind = "webhook"
         /\ seen = orders[o].status
  BY DEF Load, IInv, TypeOK, CallsOK, CallOK, KindOK, Row
<1>2. UNCHANGED <<orders, gateway, processed, postings, disturbed>>
  BY DEF Load
<1>3. PICK pc \in {"apply", "store"} :
         /\ calls' = [calls EXCEPT ![c].seen = seen, ![c].pc = pc]
         /\ pc = "store" => ~AmountMatches(o) \/ o \in unpriced'
         /\ unpriced \subseteq unpriced'
  <2>1. PICK priced \in BOOLEAN :
           /\ calls' = [calls EXCEPT ![c].seen = seen,
                           ![c].pc = IF priced /\ AmountMatches(o) THEN "apply" ELSE "store"]
           /\ unpriced' = IF priced THEN unpriced ELSE unpriced \cup {o}
    BY <1>1 DEF Load
  <2>2. CASE priced /\ AmountMatches(o)
    BY <2>1, <2>2
  <2>3. CASE ~(priced /\ AmountMatches(o))
    BY <2>1, <2>3
  <2> QED
    BY <2>2, <2>3
<1>4. PICK new \in CallState : new = [call EXCEPT !.seen = seen, !.pc = pc]
  BY DEF CallState, PC
<1>5. new.pc = pc /\ new.seen = seen /\ new.order = o /\ new.kind = "webhook"
  BY <1>1, <1>4 DEF CallState
<1>6. calls' = [calls EXCEPT ![c] = new]
  BY <1>1, <1>3, <1>4 DEF IInv, TypeOK
<1>7. AmountMatches(o)' <=> AmountMatches(o)
  BY <1>2 DEF AmountMatches, Charged
<1>8. Phase(call) => Settled(o)'
  BY <1>1, <1>2, <1>3, <1>7 DEF Phase, Settled, PaidHandled
<1>9. Phase(call) => Phase(new)'
  BY <1>1, <1>2, <1>3, <1>5, <1>7, <1>8 DEF Phase
<1>10. /\ o \notin disturbed /\ Phase(calls[c]) =>
             /\ new.order = NoOrder => Settled(o)'
             /\ new.order = o => Phase(new)'
       /\ calls[c].order = o /\ new.order \in {o, NoOrder}
  BY <1>1, <1>5, <1>8, <1>9
<1>11. UNCHANGED <<gateway, disturbed>> /\ unpriced \subseteq unpriced'
  BY <1>2, <1>3
<1> QED
  BY <1>2, <1>6, <1>10, <1>11, WorkSerial

LEMMA ApplySerial ==
  ASSUME IInv, SerialOK, NEW c \in Call, Apply(c)
  PROVE  SerialOK'
<1>1. PICK call \in CallState, o \in Order, status \in Status :
         /\ call = calls[c] /\ o = call.order /\ call.pc = "apply" /\ status = Patched(call)
         /\ call.kind \in {"webhook", "azam", "claim", "poll"}
         /\ call.report \in Outcome \cup {"pending"}
         /\ orders[o] \in Row
  BY DEF Apply, IInv, TypeOK, CallsOK, CallOK, KindOK, Patched, CallState, Outcome, Status
<1>2. /\ UNCHANGED <<gateway, processed, postings, disturbed, unpriced>>
      /\ \A x \in Order \ {o} : orders'[x] = orders[x]
      /\ orders'[o].amount = orders[o].amount /\ orders'[o].posted = orders[o].posted
      /\ orders'[o].status = status
  BY <1>1 DEF Apply, IInv, TypeOK, Row
<1>3. PICK new \in CallState :
         /\ calls' = [calls EXCEPT ![c] = new]
         /\ \/ new = Idle
            \/ new.order = o /\ new.report = call.report
         /\ IF (call.kind # "webhook" \/ call.report = "paid") /\ status = "paid" /\ ~orders[o].posted
            THEN new.order = o /\ new.pc = "post"
            ELSE IF call.kind = "webhook" THEN new.order = o /\ new.pc = "store" ELSE new = Idle
  <2>1. CASE Answer(c) /\ ~(call.kind = "webhook")
             /\ ~(status = "paid" /\ ~orders[o].posted)
    <3>1. calls' = [calls EXCEPT ![c] = Idle] /\ Idle \in CallState
      BY <2>1, IdleOK DEF Answer
    <3> QED
      BY <2>1, <3>1
  <2>2. CASE Goto(c, "post") /\ status = "paid" /\ ~orders[o].posted
             /\ (call.kind # "webhook" \/ call.report = "paid")
    <3>1. "post" \in PC
      BY DEF PC
    <3>2. PICK new \in CallState :
             /\ calls' = [calls EXCEPT ![c] = new]
             /\ new.pc = "post" /\ new.order = o /\ new.report = call.report
      BY <1>1, <2>2, <3>1, GotoIs
    <3> QED
      BY <2>2, <3>2
  <2>3. CASE Goto(c, "store") /\ call.kind = "webhook"
             /\ ~(call.report = "paid" /\ status = "paid" /\ ~orders[o].posted)
    <3>1. "store" \in PC
      BY DEF PC
    <3>2. PICK new \in CallState :
             /\ calls' = [calls EXCEPT ![c] = new]
             /\ new.pc = "store" /\ new.order = o /\ new.report = call.report
      BY <1>1, <2>3, <3>1, GotoIs
    <3> QED
      BY <2>3, <3>2
  <2>4. [orders[o] EXCEPT !.status = status].posted = orders[o].posted
        /\ [orders[o] EXCEPT !.status = status].status = status
    BY <1>1 DEF Row
  <2> QED
    BY <1>1, <2>1, <2>2, <2>3, <2>4 DEF Apply
<1>4. ASSUME Phase(call)
      PROVE  /\ Settled(o) /\ call.seen = orders[o].status
             /\ call.kind = "poll" => call.seen = "pending"
    BY <1>1, <1>4 DEF Phase
<1>5. ASSUME Phase(call)
      PROVE  /\ status = "paid" => call.report = "paid" /\ call.seen # "posted"
             /\ call.seen = "posted" <=> status = "posted"
             /\ call.report = "paid" => status \in {"paid", "posted"}
  BY <1>1, <1>4, <1>5 DEF Patched, Settled, Outcome
<1>6. ASSUME Phase(call) PROVE PaidHandled(o)' => status = "posted"
  <2>1. PaidHandled(o)' => PaidHandled(o)
    BY <1>2 DEF PaidHandled, AmountMatches, Charged
  <2> QED
    BY <1>4, <1>5, <1>6, <2>1 DEF Settled
<1>7. ASSUME Phase(call), status # "paid" PROVE Settled(o)'
  BY <1>2, <1>4, <1>5, <1>6, <1>7 DEF Settled
<1>8. ASSUME Phase(call), status = "paid" PROVE ~orders[o].posted /\ postings[o] = 0
  BY <1>4, <1>5, <1>8 DEF Settled
<1>9. ASSUME Phase(call), new.order = NoOrder PROVE Settled(o)'
  <2>1. status # "paid"
    BY <1>1, <1>3, <1>5, <1>8, <1>9, PaymentsAssumption
  <2> QED
    BY <1>7, <1>9, <2>1
<1>10. ASSUME Phase(call), new.order = o PROVE Phase(new)'
  <2>1. CASE status = "paid"
    <3>1. new.pc = "post"
      BY <1>1, <1>3, <1>5, <1>8, <1>10, <2>1
    <3> QED
      BY <1>2, <1>6, <1>8, <1>10, <2>1, <3>1 DEF Phase
  <2>2. CASE status # "paid"
    <3>1. new.pc = "store" /\ new.report = call.report
      BY <1>1, <1>3, <1>10, <2>2, PaymentsAssumption DEF Idle
    <3> QED
      BY <1>2, <1>5, <1>7, <1>10, <2>2, <3>1 DEF Phase
  <2> QED
    BY <2>1, <2>2
<1>11. new.order \in {o, NoOrder}
  BY <1>3 DEF Idle
<1> QED
  BY <1>1, <1>2, <1>3, <1>9, <1>10, <1>11, WorkSerial

LEMMA PostSerial ==
  ASSUME IInv, SerialOK, NEW c \in Call, Post(c)
  PROVE  SerialOK'
<1>1. PICK call \in CallState, o \in Order :
         /\ call = calls[c] /\ o = call.order /\ call.pc = "post" /\ postings[o] \in Nat
  BY PaymentsAssumption DEF Post, IInv, TypeOK, CallsOK, CallOK
<1>2. /\ UNCHANGED <<orders, gateway, processed, disturbed, unpriced>>
      /\ postings'[o] = postings[o] + 1 /\ \A x \in Order \ {o} : postings'[x] = postings[x]
      /\ Goto(c, "record")
  BY <1>1 DEF Post, IInv, TypeOK
<1>3. "record" \in PC
  BY DEF PC
<1>4. PICK new \in CallState :
         calls' = [calls EXCEPT ![c] = new] /\ new.pc = "record" /\ new.order = o
  BY <1>1, <1>2, <1>3, GotoIs
<1>5. PaidHandled(o)' <=> PaidHandled(o)
  BY <1>2 DEF PaidHandled, AmountMatches, Charged
<1>6. Phase(call) => Phase(new)'
  BY <1>1, <1>2, <1>4, <1>5 DEF Phase
<1>7. new.order # NoOrder
  BY <1>4, PaymentsAssumption
<1> QED
  BY <1>1, <1>2, <1>4, <1>6, <1>7, WorkSerial

LEMMA RecordSerial ==
  ASSUME IInv, SerialOK, NEW c \in Call, Record(c)
  PROVE  SerialOK'
<1>1. PICK call \in CallState, o \in Order :
         /\ call = calls[c] /\ o = call.order /\ call.pc = "record" /\ orders[o] \in Row
  BY DEF Record, IInv, TypeOK, CallsOK, CallOK
<1>2. /\ UNCHANGED <<gateway, processed, postings, disturbed, unpriced>>
      /\ orders'[o].status = "posted" /\ orders'[o].posted
      /\ \A x \in Order \ {o} : orders'[x] = orders[x]
  BY <1>1 DEF Record, IInv, TypeOK, Row
<1>3. Phase(call) => Settled(o)'
  BY <1>1, <1>2 DEF Phase, Settled
<1>4. PICK new \in CallState :
         /\ calls' = [calls EXCEPT ![c] = new]
         /\ \/ new = Idle
            \/ new.pc = "store" /\ new.order = o
  <2>1. CASE Answer(c)
    BY <2>1, IdleOK DEF Answer
  <2>2. CASE Goto(c, "store")
    <3>1. "store" \in PC
      BY DEF PC
    <3> QED
      BY <1>1, <2>2, <3>1, GotoIs
  <2> QED
    BY <2>1, <2>2 DEF Record
<1>5. ASSUME Phase(call), new.order = o PROVE Phase(new)'
  <2>1. new.pc = "store"
    BY <1>4, <1>5, PaymentsAssumption DEF Idle
  <2> QED
    BY <1>2, <1>3, <1>5, <2>1 DEF Phase
<1>6. new.order \in {o, NoOrder}
  BY <1>4 DEF Idle
<1> QED
  BY <1>1, <1>2, <1>3, <1>4, <1>5, <1>6, WorkSerial

LEMMA StoreSerial ==
  ASSUME IInv, SerialOK, NEW c \in Call, StoreProcessedWebhookEvent(c)
  PROVE  SerialOK'
<1>1. PICK call \in CallState, o \in Order :
         call = calls[c] /\ o = call.order /\ call.pc = "store"
  BY DEF StoreProcessedWebhookEvent, IInv, TypeOK, CallsOK, CallOK
<1>2. /\ UNCHANGED <<orders, gateway, postings, disturbed, unpriced>>
      /\ processed' = processed \cup {[order |-> o, report |-> call.report]}
      /\ calls' = [calls EXCEPT ![c] = Idle]
  BY <1>1 DEF StoreProcessedWebhookEvent, Answer, EventOf
<1>3. Phase(call) => Settled(o)'
  <2> SUFFICES ASSUME Phase(call) PROVE Settled(o)'
    OBVIOUS
  <2>1. /\ Settled(o)
        /\ call.report = "paid" /\ AmountMatches(o) /\ o \notin unpriced
              => orders[o].status = "posted"
    BY <1>1 DEF Phase
  <2>2. AmountMatches(o)' <=> AmountMatches(o)
    BY <1>2 DEF AmountMatches, Charged
  <2>3. PaidHandled(o)' => orders[o].status = "posted"
    BY <1>2, <2>1, <2>2 DEF PaidHandled, Settled
  <2> QED
    BY <1>2, <2>1, <2>3 DEF Settled
<1>4. Idle.order = NoOrder
  BY DEF Idle
<1> QED
  BY <1>1, <1>2, <1>3, <1>4, WorkSerial, PaymentsAssumption

LEMMA ExpireSerial ==
  ASSUME IInv, SerialOK, NEW c \in Call, Expire(c)
  PROVE  SerialOK'
<1>1. PICK call \in CallState, o \in Order :
         /\ call = calls[c] /\ o = call.order /\ call.pc = "expire" /\ orders[o] \in Row
  BY DEF Expire, IInv, TypeOK, CallsOK, CallOK
<1>2. /\ UNCHANGED <<gateway, processed, postings, disturbed, unpriced>>
      /\ orders'[o].status = "expired" /\ orders'[o].posted = orders[o].posted
      /\ orders'[o].amount = orders[o].amount
      /\ \A x \in Order \ {o} : orders'[x] = orders[x]
      /\ calls' = [calls EXCEPT ![c] = Idle]
  BY <1>1 DEF Expire, SetStatus, Answer, IInv, TypeOK, Row
<1>3. Phase(call) => Settled(o)'
  BY <1>1, <1>2 DEF Phase, Settled, PaidHandled, AmountMatches, Charged
<1>4. Idle.order = NoOrder
  BY DEF Idle
<1> QED
  BY <1>1, <1>2, <1>3, <1>4, WorkSerial, PaymentsAssumption

LEMMA QuerySerial ==
  ASSUME IInv, SerialOK, NEW c \in Call, Query(c)
  PROVE  SerialOK'
<1>1. PICK call \in CallState, o \in Order :
         /\ call = calls[c] /\ o = call.order /\ call.pc = "query" /\ call.kind = "poll"
         /\ call.seen = "pending"
  BY DEF Query, IInv, TypeOK, CallsOK, CallOK, KindOK
<1>2. UNCHANGED <<orders, gateway, processed, postings, disturbed>> /\ unpriced \subseteq unpriced'
  BY <1>1 DEF Query
<1>3. PICK new \in CallState :
         /\ calls' = [calls EXCEPT ![c] = new]
         /\ \/ new = Idle
            \/ /\ new.order = o /\ new.pc \in {"expire", "apply"}
               /\ new.kind = "poll" /\ new.seen = "pending"
  <2>1. CASE Answer(c)
    BY <2>1, IdleOK DEF Answer
  <2>2. CASE Goto(c, "expire")
    <3>1. "expire" \in PC
      BY DEF PC
    <3> QED
      BY <1>1, <2>2, <3>1, GotoIs
  <2>3. CASE /\ provider[o] \in Outcome
             /\ calls' = [calls EXCEPT ![c].pc = "apply", ![c].report = provider[o]]
    <3>1. PICK new \in CallState : new = [call EXCEPT !.pc = "apply", !.report = provider[o]]
      BY <2>3 DEF CallState, PC
    <3>2. new.pc = "apply" /\ new.kind = "poll" /\ new.order = o /\ new.seen = "pending"
      BY <1>1, <3>1 DEF CallState
    <3>3. calls' = [calls EXCEPT ![c] = new]
      BY <1>1, <2>3, <3>1 DEF IInv, TypeOK
    <3> QED
      BY <3>2, <3>3
  <2> QED
    BY <1>1, <2>1, <2>2, <2>3 DEF Query
<1>4. ASSUME Phase(call) PROVE Settled(o)' /\ orders[o].status = "pending"
  <2>1. Settled(o) /\ orders[o].status = "pending"
    BY <1>1, <1>4 DEF Phase
  <2> QED
    BY <1>2, <2>1 DEF Settled, PaidHandled, AmountMatches, Charged
<1>5. ASSUME Phase(call), new.order = o PROVE Phase(new)'
  <2>1. new.pc \in {"expire", "apply"} /\ new.kind = "poll" /\ new.seen = "pending"
    BY <1>3, <1>5, PaymentsAssumption DEF Idle
  <2> QED
    BY <1>2, <1>4, <1>5, <2>1 DEF Phase
<1>6. new.order \in {o, NoOrder}
  BY <1>3 DEF Idle
<1> QED
  BY <1>1, <1>2, <1>3, <1>4, <1>5, <1>6, WorkSerial

\* Nothing is said of an order a handler of which failed.
LEMMA FailSerial ==
  ASSUME IInv, SerialOK, NEW c \in Call, Fail(c) \/ Die(c)
  PROVE  SerialOK'
<1>1. PICK o \in Order : o = calls[c].order
  BY DEF Fail, Die, IInv, CallsOK, CallOK
<1>2. /\ calls' = [calls EXCEPT ![c] = Idle] /\ disturbed' = disturbed \cup {o}
      /\ UNCHANGED <<orders, gateway, processed, postings, unpriced>>
  BY <1>1 DEF Fail, Die, Answer
<1>3. Idle.order = NoOrder
  BY DEF Idle
<1> QED
  BY <1>1, <1>2, <1>3, SerialCallStep, PaymentsAssumption

LEMMA InitSerial == Init => SerialOK
<1> SUFFICES ASSUME Init, NEW o \in Order PROVE SerialOf(o)
  BY DEF SerialOK
<1>1. Working(o) = {}
  BY PaymentsAssumption DEF Init, Working, Idle
<1>2. orders[o].status \in {"absent", "pending"} /\ ~orders[o].posted
  BY DEF Init, AzamRow, NoRow
<1> QED
  BY <1>1, <1>2 DEF Init, SerialOf, Settled, PaidHandled

LEMMA NextSerial == IInv /\ SerialOK /\ [Next]_vars => SerialOK'
<1> SUFFICES ASSUME IInv, SerialOK, [Next]_vars PROVE SerialOK'
  OBVIOUS
<1>1. ASSUME NEW c \in Call, NEW o \in Order, NEW amt \in Amount, Initiate(c, o, amt)
      PROVE  SerialOK'
  BY <1>1, InitiateSerial
<1>2. ASSUME NEW c \in Call, NEW o \in Order, GetPaymentOrderStatus(c, o) \/ ReconcilePaymentOrder(c, o)
      PROVE  SerialOK'
  BY <1>2, GetPaymentOrderStatusSerial, ReconcilePaymentOrderSerial
<1>3. ASSUME NEW c \in Call, Step(c) PROVE SerialOK'
  BY <1>3, CreatePaymentIntentSerial, UpdateInitiatedSerial, LoadSerial, ApplySerial,
     PostSerial, RecordSerial, StoreSerial, ExpireSerial, QuerySerial DEF Step
<1>4. ASSUME NEW c \in Call, Fail(c) \/ Die(c) PROVE SerialOK'
  BY <1>4, FailSerial
<1>5. ASSUME NEW e \in Event, Deliver(e) PROVE SerialOK'
  BY <1>5, WebhookSerial, AzamCallbackSerial DEF Deliver
<1>8. ASSUME NEW e \in Event, NEW c \in Call, AzamCallback(c, e, "claim") PROVE SerialOK'
  BY <1>8, AzamCallbackSerial
<1>6. ASSUME NEW o \in Order, Settle(o) \/ AzamProgress(o) \/ PassExpiry(o) PROVE SerialOK'
  BY <1>6, SerialStutter DEF Settle, AzamProgress, PassExpiry
<1>7. CASE UNCHANGED vars
  BY <1>7, SerialStutter DEF vars
<1> QED
  BY <1>1, <1>2, <1>3, <1>4, <1>5, <1>6, <1>7, <1>8 DEF Next

\* When the handlers of an order ran one after the other and none failed, its payment is
\* posted once and the row says so for good, whatever events, polls and expiries it took.
THEOREM PaymentsSerialOutcome == Spec => []SerialOutcome
<1>1. SerialOK => SerialOutcome
  BY DEF SerialOK, SerialOf, Settled, PaidHandled, SerialOutcome
<1>2. IInv /\ SerialOK /\ [Next]_vars => SerialOK'
  BY NextSerial
<1>3. Init => SerialOK
  BY InitSerial
<1> QED
  BY <1>1, <1>2, <1>3, PaymentsInvariant, PTL DEF Spec
===========================================================================
