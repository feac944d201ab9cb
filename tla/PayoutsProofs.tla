---------------------------- MODULE PayoutsProofs ----------------------------
(* Proofs about LoanPayouts, for every set of applications, orders and        *)
(* handlers at work and for every number of failures and loans.               *)
EXTENDS LoanPayouts, FiniteSetTheorems, TLAPS

(***************************************************************************)
(* The inductive invariant.  A handler that posts asks the gateway nothing: *)
(* what it was told is in its report, its pc and the status of the order,   *)
(* and each of them is backed by a payout the gateway completed.            *)
(***************************************************************************)
Exists(o) == orders[o].status # "absent"
Paying == {"read", "post", "mark", "record"}
HasLoan(a) == loans[a] + counter[a] > 0

RowOK(o) ==
    /\ Exists(o) => orders[o].app \in Application /\ state[orders[o].app] # "absent"
    /\ ~Exists(o) => orders[o] = NoRow /\ payout[o] = "none" /\ o \notin processed
    /\ o \in sent => payout[o] \in Outcome
    /\ orders[o].status \in {"completed", "posted"} => payout[o] = "completed"
    /\ orders[o].loan => HasLoan(orders[o].app) /\ payout[o] = "completed"

\* What a handler works on.
WorkOK(call) ==
    /\ call.pc = "idle" => call = Idle
    /\ call.pc # "idle" => call.app \in Application /\ state[call.app] # "absent"
    /\ call.kind = "cash" => call.pc \in {"post", "mark"} /\ call.order = NoOrder
    /\ call.pc \notin {"idle", "resume", "insert"} /\ call.kind # "cash" =>
          call.order \in Order /\ Exists(call.order) /\ orders[call.order].app = call.app

CallOK(call) ==
    /\ WorkOK(call)
    /\ call.pc = "send" => payout[call.order] = "none"
    /\ call.pc = "update" => call.report \in {"open", "completed", "failed"}
    /\ call.pc \in {"load", "apply"} => call.report \in Outcome \cup {"expired"}
    /\ call.pc \in {"load", "apply", "update"} /\ call.report = "completed"
          => payout[call.order] = "completed"
    /\ call.pc \in Paying /\ call.kind # "cash" => payout[call.order] = "completed"
    /\ call.pc \in {"mark", "record"} => HasLoan(call.app)

RowsOK == \A o \in Order : RowOK(o)
CallsOK == \A c \in Call : CallOK(calls[c])

\* A payout is asked for by one handler only.
OneSend == \A c, d \in Call : calls[c].pc = "send" /\ calls[d].pc = "send"
                              /\ calls[c].order = calls[d].order => c = d

Backed ==
    \A a \in Application : loans[a] > 0 =>
        \E o \in Order : orders[o].app = a /\ payout[o] = "completed"

\* An application with a loan_id has a loan.
Credits == \A a \in credited : HasLoan(a)

IInv ==
    /\ PayoutsAssumption /\ TypeOK /\ RowsOK /\ CallsOK /\ OneSend /\ Backed /\ Credits

\* What every step leaves in place.
Grows ==
    /\ \A o \in Order :
          /\ Exists(o) => Exists(o)' /\ orders'[o].app = orders[o].app
          /\ payout[o] = "completed" => payout'[o] = "completed"
    /\ \A a \in Application :
          /\ state[a] # "absent" => state'[a] # "absent"
          /\ loans[a] > 0 => loans'[a] > 0
          /\ HasLoan(a) => HasLoan(a)'

(***************************************************************************)
(* Lemmas about one step.                                                   *)
(***************************************************************************)
\* A handler's locals stay backed while others step.
LEMMA CallOKStable ==
  ASSUME Grows, NEW call \in CallState, CallOK(call),
         call.pc = "send" => payout'[call.order] = "none"
  PROVE  CallOK(call)'
<1>1. WorkOK(call)'
  BY DEF CallOK, WorkOK, Grows
<1>2. /\ call.pc \in Paying \cup {"load", "apply", "update"} /\ call.kind # "cash"
            => call.order \in Order
      /\ call.kind = "cash" => call.pc \in {"post", "mark"}
      /\ call.pc \in {"mark", "record"} => call.app \in Application
  BY DEF CallOK, WorkOK, Paying
<1> QED
  BY <1>1, <1>2 DEF CallOK, Grows

\* A row none of whose facts was taken away keeps its invariant.
LEMMA RowKept ==
  ASSUME Grows, NEW o \in Order, RowOK(o), orders'[o] = orders[o],
         ~Exists(o) => payout'[o] = "none" /\ o \notin processed',
         o \in sent' => payout'[o] \in Outcome
  PROVE  RowOK(o)'
<1>1. orders[o].loan => orders[o].app \in Application
  BY DEF RowOK, NoRow
<1> QED
  BY <1>1 DEF RowOK, Grows, Exists

LEMMA CreditsKept ==
  ASSUME IInv, Grows, UNCHANGED credited
  PROVE  Credits'
  BY DEF IInv, TypeOK, Credits, Grows

LEMMA BackedKept ==
  ASSUME IInv, Grows,
         \A a \in Application : loans'[a] > 0 =>
             \/ loans[a] > 0
             \/ \E o \in Order : Exists(o) /\ orders[o].app = a /\ payout[o] = "completed"
  PROVE  Backed'
<1> SUFFICES ASSUME NEW a \in Application, loans'[a] > 0
             PROVE  \E o \in Order : orders'[o].app = a /\ payout'[o] = "completed"
  BY DEF Backed
<1>1. PICK o \in Order : orders[o].app = a /\ payout[o] = "completed"
  BY DEF IInv, Backed
<1>2. Exists(o)
  BY <1>1 DEF IInv, RowsOK, RowOK
<1> QED
  BY <1>1, <1>2 DEF Grows

\* One handler moves on.
LEMMA CallStep ==
  ASSUME IInv, TypeOK', Grows, RowsOK', Backed', Credits',
         NEW c \in Call, NEW new \in CallState, calls' = [calls EXCEPT ![c] = new],
         CallOK(new)',
         \A d \in Call \ {c} : calls[d].pc = "send" =>
             /\ payout'[calls[d].order] = "none"
             /\ new.pc = "send" => new.order # calls[d].order
  PROVE  IInv'
<1>1. calls'[c] = new /\ \A d \in Call \ {c} : calls'[d] = calls[d]
  BY DEF IInv, TypeOK
<1>2. CallsOK'
  <2> SUFFICES ASSUME NEW d \in Call PROVE CallOK(calls[d])'
    BY DEF CallsOK
  <2>1. CASE d = c
    BY <1>1, <2>1
  <2>2. CASE d # c
    <3>1. PICK call \in CallState : call = calls[d] /\ CallOK(call)
      BY DEF IInv, TypeOK, CallsOK
    <3>2. calls'[d] = call /\ (call.pc = "send" => payout'[call.order] = "none")
      BY <1>1, <2>2, <3>1
    <3>3. CallOK(call)'
      BY <3>1, <3>2, CallOKStable
    <3> QED
      BY <3>2, <3>3
  <2> QED
    BY <2>1, <2>2
<1>3. OneSend'
  BY <1>1 DEF IInv, OneSend
<1> QED
  BY <1>2, <1>3 DEF IInv, PayoutsAssumption

\* The handlers stay where they are.
LEMMA NoCallStep ==
  ASSUME IInv, TypeOK', Grows, RowsOK', Backed', Credits', calls' = calls,
         \A d \in Call : calls[d].pc = "send" => payout'[calls[d].order] = "none"
  PROVE  IInv'
<1>1. CallsOK'
  <2> SUFFICES ASSUME NEW d \in Call PROVE CallOK(calls[d])'
    BY DEF CallsOK
  <2>1. PICK call \in CallState : call = calls[d] /\ CallOK(call)
    BY DEF IInv, TypeOK, CallsOK
  <2>2. CallOK(call)'
    BY <2>1, CallOKStable
  <2> QED
    BY <2>1, <2>2
<1>2. OneSend'
  BY DEF IInv, OneSend
<1> QED
  BY <1>1, <1>2 DEF IInv, PayoutsAssumption

\* The logs keep their types in a step that makes no event.
LogsOK ==
    /\ sent' \subseteq sent /\ processed' \subseteq Order /\ ignored' \subseteq Order
    /\ \A o \in processed' \ processed : Exists(o)
    /\ faults' \in 0..MaxFaults /\ overlapped' \subseteq Application

\* A step of one handler that writes no table but the logs.
LEMMA LocalStep ==
  ASSUME IInv, LogsOK, UNCHANGED <<state, orders, payout, loans, counter, credited>>,
         NEW c \in Call, NEW new \in CallState, calls' = [calls EXCEPT ![c] = new],
         CallOK(new), new.pc # "send"
  PROVE  IInv'
<1>1. TypeOK'
  BY DEF IInv, TypeOK, LogsOK
<1>2. Grows
  BY DEF Grows, Exists, HasLoan
<1>3. RowsOK'
  BY <1>2, RowKept DEF IInv, RowsOK, RowOK, LogsOK
<1>4. Backed' /\ Credits'
  BY <1>2, CreditsKept DEF IInv, Backed
<1>5. CallOK(new)'
  BY <1>2, CallOKStable
<1>6. \A d \in Call \ {c} : calls[d].pc = "send" => payout'[calls[d].order] = "none"
  BY DEF IInv, CallsOK, CallOK
<1> QED
  BY <1>1, <1>2, <1>3, <1>4, <1>5, <1>6, CallStep

\* A step of one handler that writes an order.
LEMMA RowStep ==
  ASSUME IInv, LogsOK, UNCHANGED <<state, payout, loans, counter, credited>>,
         NEW o \in Order, NEW row \in Row, orders' = [orders EXCEPT ![o] = row],
         Exists(o), row.status # "absent", row.app = orders[o].app,
         row.status \in {"completed", "posted"} => payout[o] = "completed",
         row.loan => HasLoan(row.app) /\ payout[o] = "completed",
         NEW c \in Call, NEW new \in CallState, calls' = [calls EXCEPT ![c] = new],
         CallOK(new), new.pc # "send"
  PROVE  IInv'
<1>1. orders' \in [Order -> Row] /\ orders'[o] = row /\ \A x \in Order \ {o} : orders'[x] = orders[x]
  BY DEF IInv, TypeOK
<1>2. TypeOK'
  BY <1>1 DEF IInv, TypeOK, LogsOK
<1>3. Grows
  BY <1>1 DEF Grows, Exists, HasLoan
<1>4. RowsOK'
  <2> SUFFICES ASSUME NEW x \in Order PROVE RowOK(x)'
    BY DEF RowsOK
  <2>1. RowOK(x)
    BY DEF IInv, RowsOK
  <2>2. CASE x = o
    BY <1>1, <2>1, <2>2 DEF RowOK, Exists, LogsOK, HasLoan
  <2>3. CASE x # o
    BY <1>1, <1>3, <2>1, <2>3, RowKept DEF RowOK, LogsOK
  <2> QED
    BY <2>2, <2>3
<1>5. Backed' /\ Credits'
  BY <1>3, BackedKept, CreditsKept
<1>6. CallOK(new)'
  BY <1>3, CallOKStable
<1>7. \A d \in Call \ {c} : calls[d].pc = "send" => payout'[calls[d].order] = "none"
  BY DEF IInv, CallsOK, CallOK
<1> QED
  BY <1>2, <1>3, <1>4, <1>5, <1>6, <1>7, CallStep

LEMMA IdleOK == Idle \in CallState /\ CallOK(Idle) /\ Idle.pc = "idle" /\ Idle.app = NoApplication
  BY DEF Idle, CallState, PC, CallOK, WorkOK, Paying

\* Where a handler goes on keeps what it was told.
Kept(new, call) ==
    /\ new.kind = call.kind /\ new.app = call.app /\ new.order = call.order

LEMMA GotoIs ==
  ASSUME IInv, NEW c \in Call, NEW pc \in PC, Goto(c, pc)
  PROVE  \E new \in CallState :
            /\ calls' = [calls EXCEPT ![c] = new] /\ Kept(new, calls[c])
            /\ new.pc = pc /\ new.report = calls[c].report /\ new.posted = calls[c].posted
<1>1. PICK call \in CallState : call = calls[c]
  BY DEF IInv, TypeOK
<1>2. PICK new : new = [call EXCEPT !.pc = pc]
  OBVIOUS
<1>3. /\ new \in CallState /\ Kept(new, call)
      /\ new.pc = pc /\ new.report = call.report /\ new.posted = call.posted
  BY <1>2 DEF CallState, Kept
<1>4. calls' = [calls EXCEPT ![c] = new]
  BY <1>1, <1>2 DEF Goto, IInv, TypeOK
<1> QED
  BY <1>1, <1>3, <1>4

\* A handler that failed has its order in hand, or none.
LEMMA ThrowIs ==
  ASSUME IInv, NEW c \in Call, calls[c].pc # "idle", Throw(c)
  PROVE  \E new \in CallState :
            /\ calls' = [calls EXCEPT ![c] = new]
            /\ new = Idle \/ (/\ new.pc = "catch" /\ Kept(new, calls[c])
                              /\ calls[c].kind = "initiate"
                              /\ calls[c].pc \notin {"resume", "insert"})
            /\ CallOK(new)
<1>1. PICK call \in CallState : call = calls[c] /\ CallOK(call)
  BY DEF IInv, TypeOK, CallsOK
<1>2. CASE call.kind = "initiate" /\ call.pc \notin {"resume", "insert"}
  <2>1. PICK new : new = [call EXCEPT !.pc = "catch"]
    OBVIOUS
  <2>2. new \in CallState /\ Kept(new, call) /\ new.pc = "catch"
    BY <2>1 DEF CallState, Kept, PC
  <2>3. calls' = [calls EXCEPT ![c] = new]
    BY <1>1, <1>2, <2>1 DEF Throw
  <2>4. CallOK(new)
    BY <1>1, <1>2, <2>2 DEF CallOK, WorkOK, Kept, Paying
  <2> QED
    BY <1>1, <1>2, <2>2, <2>3, <2>4
<1>3. CASE ~(call.kind = "initiate" /\ call.pc \notin {"resume", "insert"})
  BY <1>1, <1>3, IdleOK DEF Throw
<1> QED
  BY <1>2, <1>3

\* A handler whose order exists answers, records its event or goes on to post.
LEMMA EndIs ==
  ASSUME IInv, NEW c \in Call, calls[c].pc \notin {"idle", "resume", "insert", "post", "mark"},
         \/ Answer(c)
         \/ Finish(c)
         \/ (Finalize(c) /\ payout[calls[c].order] = "completed")
  PROVE  /\ UNCHANGED overlapped
         /\ \E new \in CallState :
               /\ calls' = [calls EXCEPT ![c] = new]
               /\ new = Idle \/ (new.pc \in {"store", "read"} /\ Kept(new, calls[c]))
               /\ new.pc = "read" => Finalize(c)
               /\ new.pc = "store" => calls[c].kind = "webhook"
               /\ CallOK(new)
<1>1. PICK call \in CallState : call = calls[c] /\ CallOK(call)
  BY DEF IInv, TypeOK, CallsOK
<1>2. CASE Answer(c)
  BY <1>2, IdleOK DEF Answer
<1>3. CASE Goto(c, "store") /\ calls[c].kind = "webhook"
  <2>1. PICK new \in CallState :
           calls' = [calls EXCEPT ![c] = new] /\ Kept(new, calls[c]) /\ new.pc = "store"
    BY <1>3, GotoIs DEF PC
  <2>2. CallOK(new)
    BY <1>1, <2>1 DEF CallOK, WorkOK, Kept, Paying
  <2> QED
    BY <1>3, <2>1, <2>2 DEF Goto
<1>4. CASE Finalize(c) /\ payout[calls[c].order] = "completed"
  <2>1. PICK new : new = [call EXCEPT !.pc = "read", !.report = "none", !.posted = FALSE]
    OBVIOUS
  <2>2. new \in CallState /\ Kept(new, call) /\ new.pc = "read"
    BY <2>1 DEF CallState, Kept, PC
  <2>3. calls' = [calls EXCEPT ![c] = new]
    BY <1>1, <1>4, <2>1 DEF Finalize
  <2>4. CallOK(new)
    BY <1>1, <1>4, <2>2 DEF CallOK, WorkOK, Kept, Paying
  <2> QED
    BY <1>1, <1>4, <2>2, <2>3, <2>4 DEF Finalize
<1> QED
  BY <1>2, <1>3, <1>4 DEF Finish

(***************************************************************************)
(* One lemma per action.                                                    *)
(***************************************************************************)
LEMMA InitInv == ASSUME PayoutsAssumption PROVE Init => IInv
<1> SUFFICES ASSUME Init PROVE IInv
  OBVIOUS
<1>1. NoRow \in Row /\ NoRow.status = "absent" /\ ~NoRow.loan
  BY DEF NoRow, Row, Status
<1>2. 0 \in 0..MaxLoans /\ 0 \in 0..MaxFaults
  BY DEF PayoutsAssumption
<1>3. TypeOK
  BY <1>1, <1>2, IdleOK DEF Init, TypeOK, Review!Init, Review!State
<1>4. RowsOK
  BY <1>1 DEF Init, RowsOK, RowOK, Exists
<1>5. CallsOK /\ OneSend
  BY IdleOK DEF Init, CallsOK, OneSend
<1>6. Backed /\ Credits
  BY DEF Init, Backed, Credits
<1> QED
  BY <1>3, <1>4, <1>5, <1>6 DEF IInv

LEMMA InitiatePreserves ==
  ASSUME IInv, NEW c \in Call, NEW a \in Application, InitiateMobileLoanDisbursement(c, a)
  PROVE  IInv'
<1>1. PICK new : new = [Idle EXCEPT !.pc = "resume", !.kind = "initiate", !.app = a]
  OBVIOUS
<1>2. new \in CallState /\ new.pc = "resume" /\ new.app = a /\ new.kind = "initiate"
  BY <1>1 DEF Idle, CallState, PC
<1>3. CallOK(new)
  BY <1>2 DEF CallOK, WorkOK, Paying, InitiateMobileLoanDisbursement
<1>4. calls' = [calls EXCEPT ![c] = new]
  BY <1>1 DEF InitiateMobileLoanDisbursement, Begin
<1>5. UNCHANGED <<state, orders, payout, loans, counter, credited>>
  BY DEF InitiateMobileLoanDisbursement, application, tables, books
<1>6. LogsOK
  BY <1>2 DEF InitiateMobileLoanDisbursement, Begin, LogsOK, IInv, TypeOK, tables, books
<1> QED
  BY <1>2, <1>3, <1>4, <1>5, <1>6, LocalStep

LEMMA DisbursePreserves ==
  ASSUME IInv, NEW c \in Call, NEW a \in Application, DisburseLoanApplication(c, a)
  PROVE  IInv'
<1>1. PICK new : new = [Idle EXCEPT !.pc = "post", !.kind = "cash", !.app = a]
  OBVIOUS
<1>2. /\ new \in CallState /\ new.pc = "post" /\ new.kind = "cash" /\ new.app = a
      /\ new.order = NoOrder
  BY <1>1 DEF Idle, CallState, PC
<1>3. CallOK(new)
  BY <1>2 DEF CallOK, WorkOK, Paying, DisburseLoanApplication
<1>4. calls' = [calls EXCEPT ![c] = new]
  BY <1>1 DEF DisburseLoanApplication
<1>5. UNCHANGED <<state, orders, payout, loans, counter, credited>>
  BY DEF DisburseLoanApplication, application, tables, books
<1>6. LogsOK
  BY <1>2 DEF DisburseLoanApplication, LogsOK, IInv, TypeOK, tables
<1> QED
  BY <1>2, <1>3, <1>4, <1>5, <1>6, LocalStep

LEMMA StatusPreserves ==
  ASSUME IInv, NEW c \in Call, NEW o \in Order, GetLoanDisbursementOrderStatus(c, o)
  PROVE  IInv'
<1>1. PICK new : new = [Idle EXCEPT !.pc = SyncPC(o), !.kind = "poll", !.app = orders[o].app,
                                    !.order = o]
  OBVIOUS
<1>2. /\ SyncPC(o) \in {"read", "query"} /\ Exists(o)
      /\ SyncPC(o) = "read" => orders[o].status = "completed"
  BY DEF GetLoanDisbursementOrderStatus, SyncPC, Exists
<1>3. orders[o].app \in Application /\ state[orders[o].app] # "absent"
  BY <1>2 DEF IInv, RowsOK, RowOK
<1>4. /\ new \in CallState /\ new.pc = SyncPC(o) /\ new.app = orders[o].app /\ new.order = o
      /\ new.kind = "poll"
  BY <1>1, <1>2, <1>3 DEF Idle, CallState, PC
<1>5. CallOK(new)
  BY <1>2, <1>3, <1>4 DEF CallOK, WorkOK, Paying, IInv, RowsOK, RowOK
<1>6. calls' = [calls EXCEPT ![c] = new]
  BY <1>1 DEF GetLoanDisbursementOrderStatus, Begin
<1>7. UNCHANGED <<state, orders, payout, loans, counter, credited>>
  BY DEF GetLoanDisbursementOrderStatus, application, tables, books
<1>8. LogsOK
  BY <1>3 DEF GetLoanDisbursementOrderStatus, Begin, LogsOK, IInv, TypeOK, tables, Idle, books
<1> QED
  BY <1>2, <1>4, <1>5, <1>6, <1>7, <1>8, LocalStep

LEMMA WebhookPreserves ==
  ASSUME IInv, NEW c \in Call, NEW o \in Order, Webhook(c, o)
  PROVE  IInv'
<1>1. CASE calls' = calls /\ sent' = sent \ {o} /\ UNCHANGED overlapped
  <2>1. UNCHANGED <<state, orders, payout, processed, ignored, loans, counter, credited,
                    faults>>
    BY DEF Webhook, application, books
  <2>2. TypeOK' /\ Grows
    BY <1>1, <2>1 DEF IInv, TypeOK, Grows, Exists, HasLoan
  <2>3. RowsOK'
    BY <1>1, <2>1, <2>2, RowKept DEF IInv, RowsOK, RowOK
  <2>4. Backed' /\ Credits'
    BY <2>1, <2>2, CreditsKept DEF IInv, Backed
  <2>5. \A d \in Call : calls[d].pc = "send" => payout'[calls[d].order] = "none"
    BY <2>1 DEF IInv, CallsOK, CallOK
  <2> QED
    BY <1>1, <2>2, <2>3, <2>4, <2>5, NoCallStep
<1>2. CASE Begin(c, [Idle EXCEPT !.pc = "load", !.kind = "webhook", !.app = orders[o].app,
                                 !.order = o, !.report = payout[o]]) /\ UNCHANGED sent
  <2>1. PICK new : new = [Idle EXCEPT !.pc = "load", !.kind = "webhook", !.app = orders[o].app,
                                      !.order = o, !.report = payout[o]]
    OBVIOUS
  <2>2. payout[o] \in Outcome /\ Exists(o)
    BY DEF Webhook, IInv, RowsOK, RowOK, Outcome
  <2>3. orders[o].app \in Application /\ state[orders[o].app] # "absent"
    BY <2>2 DEF IInv, RowsOK, RowOK
  <2>4. /\ new \in CallState /\ new.pc = "load" /\ new.app = orders[o].app /\ new.order = o
        /\ new.report = payout[o] /\ new.kind = "webhook"
    BY <2>1, <2>2, <2>3 DEF Idle, CallState, PC
  <2>5. CallOK(new)
    BY <2>2, <2>3, <2>4 DEF CallOK, WorkOK, Paying
  <2>6. calls' = [calls EXCEPT ![c] = new]
    BY <1>2, <2>1 DEF Begin
  <2>7. UNCHANGED <<state, orders, payout, loans, counter, credited>>
    BY DEF Webhook, application, books
  <2>8. LogsOK
    BY <1>2, <2>3 DEF Webhook, Begin, LogsOK, IInv, TypeOK, Idle
  <2> QED
    BY <2>4, <2>5, <2>6, <2>7, <2>8, LocalStep
<1> QED
  BY <1>1, <1>2 DEF Webhook

\* The call that goes on with an open order.
LEMMA ResumeCall ==
  ASSUME IInv, NEW c \in Call, Resume(c)
  PROVE  \E a \in Application, call \in CallState :
            /\ call = calls[c] /\ a = call.app /\ CallOK(call)
            /\ state[a] # "absent" /\ call.pc = "resume"
<1>1. calls[c].pc = "resume"
  BY Zenon DEF Resume
<1>2. calls[c] \in CallState /\ CallOK(calls[c])
  BY DEF IInv, TypeOK, CallsOK
<1>3. calls[c].app \in Application /\ state[calls[c].app] # "absent"
  BY <1>1, <1>2 DEF CallOK, WorkOK
<1> QED
  BY <1>1, <1>2, <1>3

LEMMA ResumePreserves ==
  ASSUME IInv, NEW c \in Call, Resume(c)
  PROVE  IInv'
<1>1. PICK a \in Application, call \in CallState :
         call = calls[c] /\ a = call.app /\ CallOK(call) /\ state[a] # "absent" /\ call.pc = "resume"
  BY ResumeCall
<1>2. UNCHANGED <<state, orders, payout, loans, counter, credited>> /\ LogsOK
  <2>1. UNCHANGED <<application, tables, faults, overlapped>>
    BY Zenon DEF Resume, Goto
  <2> QED
    BY <2>1 DEF application, tables, LogsOK, IInv, TypeOK, books
<1>3. CASE Goto(c, "insert")
  <2>1. PICK new \in CallState :
           calls' = [calls EXCEPT ![c] = new] /\ Kept(new, call) /\ new.pc = "insert"
    BY <1>1, <1>3, GotoIs DEF PC
  <2>2. CallOK(new)
    BY <1>1, <2>1 DEF CallOK, WorkOK, Kept, Paying
  <2> QED
    BY <1>2, <2>1, <2>2, LocalStep
<1>4. ASSUME NEW o \in OpenOrders(a),
             calls' = [calls EXCEPT ![c] = IF SyncPC(o) = "idle" THEN Idle ELSE
                         [@ EXCEPT !.pc = SyncPC(o), !.kind = "poll", !.order = o]]
      PROVE  IInv'
  <2>1. o \in Order /\ orders[o].app = a /\ Exists(o)
    BY <1>4 DEF OpenOrders, OpenStatus, Exists
  <2>2. CASE SyncPC(o) = "idle"
    <3>1. calls' = [calls EXCEPT ![c] = Idle]
      BY <1>4, <2>2
    <3> QED
      BY <1>2, <3>1, IdleOK, LocalStep
  <2>3. CASE SyncPC(o) # "idle"
    <3>1. PICK new : new = [call EXCEPT !.pc = SyncPC(o), !.kind = "poll", !.order = o]
      OBVIOUS
    <3>2. /\ SyncPC(o) \in {"read", "query"}
          /\ SyncPC(o) = "read" => orders[o].status = "completed"
      BY <2>3 DEF SyncPC
    <3>3. /\ new \in CallState /\ new.pc = SyncPC(o) /\ new.app = a /\ new.order = o
          /\ new.kind = "poll"
      BY <1>1, <2>1, <3>1, <3>2 DEF CallState, PC
    <3>4. CallOK(new)
      BY <1>1, <2>1, <3>2, <3>3 DEF CallOK, WorkOK, Paying, IInv, RowsOK, RowOK
    <3>5. calls' = [calls EXCEPT ![c] = new]
      BY <1>1, <1>4, <2>3, <3>1
    <3> QED
      BY <1>2, <3>2, <3>3, <3>4, <3>5, LocalStep
  <2> QED
    BY <2>2, <2>3
<1> QED
  BY <1>1, <1>3, <1>4 DEF Resume

LEMMA QueryPreserves ==
  ASSUME IInv, NEW c \in Call, Query(c)
  PROVE  IInv'
<1>1. PICK call \in CallState :
         call = calls[c] /\ CallOK(call) /\ call.pc = "query" /\ call.order \in Order
         /\ call.app \in Application
  BY DEF Query, IInv, TypeOK, CallsOK, CallOK, WorkOK
<1>2. UNCHANGED <<state, orders, payout, loans, counter, credited>> /\ LogsOK
  BY <1>1 DEF Query, Answer, application, tables, LogsOK, IInv, TypeOK, books
<1>3. CASE Answer(c)
  BY <1>2, <1>3, IdleOK, LocalStep DEF Answer
<1>4. ASSUME NEW report \in Outcome \cup {"expired"},
             report = "expired" \/ report = payout[call.order],
             calls' = [calls EXCEPT ![c].pc = "apply", ![c].report = report]
      PROVE  IInv'
  <2>1. PICK new : new = [call EXCEPT !.pc = "apply", !.report = report]
    OBVIOUS
  <2>2. new \in CallState /\ Kept(new, call) /\ new.pc = "apply" /\ new.report = report
    BY <1>4, <2>1 DEF CallState, Kept, PC
  <2>3. CallOK(new)
    BY <1>1, <1>4, <2>2 DEF CallOK, WorkOK, Kept, Paying
  <2>4. calls' = [calls EXCEPT ![c] = new]
    BY <1>1, <1>4, <2>1
  <2> QED
    BY <1>2, <2>2, <2>3, <2>4, LocalStep
<1> QED
  BY <1>1, <1>3, <1>4 DEF Query

LEMMA LoadPreserves ==
  ASSUME IInv, NEW c \in Call, Load(c)
  PROVE  IInv'
<1>1. PICK call \in CallState : call = calls[c] /\ CallOK(call) /\ call.pc = "load"
  BY DEF Load, IInv, TypeOK, CallsOK
<1>2. call.order \in Order
  BY <1>1 DEF CallOK, WorkOK
<1>3. CASE calls' = [calls EXCEPT ![c].pc = "apply",
                                  ![c].posted = orders[call.order].status = "posted"]
           /\ UNCHANGED <<ignored, overlapped>>
  <2>1. PICK posted \in BOOLEAN : posted = (orders[call.order].status = "posted")
    OBVIOUS
  <2>2. PICK new : new = [call EXCEPT !.pc = "apply", !.posted = posted]
    OBVIOUS
  <2>3. new \in CallState /\ Kept(new, call) /\ new.pc = "apply" /\ new.report = call.report
    BY <2>2 DEF CallState, Kept, PC
  <2>4. CallOK(new)
    BY <1>1, <2>3 DEF CallOK, WorkOK, Kept, Paying
  <2>5. calls' = [calls EXCEPT ![c] = new]
    BY <1>1, <1>3, <2>1, <2>2
  <2>6. UNCHANGED <<state, orders, payout, loans, counter, credited>> /\ LogsOK
    BY <1>3 DEF Load, application, LogsOK, IInv, TypeOK, books
  <2> QED
    BY <2>3, <2>4, <2>5, <2>6, LocalStep
<1>4. CASE ignored' = ignored \cup {call.order} /\ Finish(c)
  <2>1. /\ UNCHANGED overlapped
        /\ \E new \in CallState :
              /\ calls' = [calls EXCEPT ![c] = new]
              /\ new = Idle \/ new.pc \in {"store", "read"}
              /\ CallOK(new)
    BY <1>1, <1>4, EndIs
  <2>2. UNCHANGED <<state, orders, payout, loans, counter, credited>> /\ LogsOK
    BY <1>2, <1>4, <2>1 DEF Load, application, LogsOK, IInv, TypeOK, books
  <2> QED
    BY <2>1, <2>2, IdleOK, LocalStep
<1> QED
  BY <1>1, <1>3, <1>4 DEF Load

LEMMA ReadPreserves ==
  ASSUME IInv, NEW c \in Call, ReadApplication(c)
  PROVE  IInv'
<1>1. PICK call \in CallState : call = calls[c] /\ CallOK(call) /\ call.pc = "read"
  BY DEF ReadApplication, IInv, TypeOK, CallsOK
<1>2. PICK pc \in {"record", "post"} :
         Goto(c, pc) /\ (pc = "record" => HasLoan(call.app))
  BY <1>1 DEF ReadApplication, Paid, IInv, Credits
<1>3. UNCHANGED <<state, orders, payout, loans, counter, credited>> /\ LogsOK
  BY <1>2 DEF ReadApplication, application, tables, LogsOK, IInv, TypeOK, Goto, books
<1>4. PICK new \in CallState :
         calls' = [calls EXCEPT ![c] = new] /\ Kept(new, call) /\ new.pc = pc
  BY <1>1, <1>2, GotoIs DEF PC
<1>5. CallOK(new)
  BY <1>1, <1>2, <1>4 DEF CallOK, WorkOK, Kept, Paying
<1> QED
  BY <1>3, <1>4, <1>5, LocalStep

LEMMA StorePreserves ==
  ASSUME IInv, NEW c \in Call, StoreProcessedWebhookEvent(c)
  PROVE  IInv'
<1>1. calls[c].order \in Order /\ Exists(calls[c].order)
  BY DEF StoreProcessedWebhookEvent, IInv, CallsOK, CallOK, WorkOK
<1>2. UNCHANGED <<state, orders, payout, loans, counter, credited>> /\ LogsOK
  BY <1>1 DEF StoreProcessedWebhookEvent, Answer, application, LogsOK, IInv, TypeOK, books
<1> QED
  BY <1>2, IdleOK, LocalStep DEF StoreProcessedWebhookEvent, Answer

\* A failure costs a handler its way; it leaves every table.
LEMMA FailPreserves ==
  ASSUME IInv, NEW c \in Call, Fail(c) \/ Die(c)
  PROVE  IInv'
<1>1. calls[c].pc # "idle" /\ calls[c].app \in Application
  BY DEF Fail, Die, IInv, CallsOK, CallOK, WorkOK
<1>2. faults' \in 0..MaxFaults
  <2>1. PICK n \in Nat : n = faults /\ n < MaxFaults /\ faults' = n + 1
    BY DEF Fail, Die, IInv, TypeOK
  <2> QED
    BY <2>1 DEF IInv, PayoutsAssumption
<1>3. UNCHANGED <<state, orders, payout, loans, counter, credited>> /\ LogsOK
  BY <1>1, <1>2 DEF Fail, Die, Throw, application, tables, LogsOK, IInv, TypeOK, books
<1>4. CASE Fail(c)
  <2>1. PICK new \in CallState : calls' = [calls EXCEPT ![c] = new] /\ CallOK(new)
                                  /\ (new = Idle \/ new.pc = "catch")
    BY <1>1, <1>4, ThrowIs DEF Fail
  <2> QED
    BY <1>3, <2>1, IdleOK, LocalStep
<1>5. CASE Die(c)
  BY <1>3, <1>5, IdleOK, LocalStep DEF Die
<1> QED
  BY <1>4, <1>5

LEMMA InsertPreserves ==
  ASSUME IInv, NEW c \in Call, InsertOrder(c)
  PROVE  IInv'
<1>1. PICK a \in Application, call \in CallState :
         /\ call = calls[c] /\ a = call.app /\ CallOK(call) /\ state[a] # "absent"
         /\ call.pc = "insert" /\ call.kind # "cash"
  BY DEF InsertOrder, IInv, TypeOK, CallsOK, CallOK, WorkOK
<1>2. UNCHANGED <<state, payout, loans, counter, credited, sent, processed, ignored>> /\ LogsOK
  BY DEF InsertOrder, Answer, application, LogsOK, IInv, TypeOK, books
<1>3. CASE Answer(c) /\ UNCHANGED orders
  BY <1>2, <1>3, IdleOK, LocalStep DEF Answer
<1>4. ASSUME NEW o \in Order, orders[o].status = "absent",
             NEW cents \in BOOLEAN,
             orders' = [orders EXCEPT ![o] = NewOrder(a, cents)],
             calls' = [calls EXCEPT ![c].pc = "send", ![c].order = o]
      PROVE  IInv'
  <2>1. PICK row : row = NewOrder(a, cents)
    OBVIOUS
  <2>2. row \in Row /\ row.status = "created" /\ row.app = a /\ ~row.loan
    BY <2>1 DEF NewOrder, NoRow, Row, Status
  <2>3. /\ orders' \in [Order -> Row] /\ orders'[o] = row
        /\ \A x \in Order \ {o} : orders'[x] = orders[x]
    BY <1>4, <2>1, <2>2 DEF IInv, TypeOK
  <2>4. PICK new : new = [call EXCEPT !.pc = "send", !.order = o]
    OBVIOUS
  <2>5. /\ new \in CallState /\ new.pc = "send" /\ new.order = o /\ new.app = a
        /\ new.kind # "cash"
    BY <1>1, <2>4 DEF CallState, PC
  <2>6. calls' = [calls EXCEPT ![c] = new]
    BY <1>1, <1>4, <2>4
  <2>7. TypeOK'
    BY <1>2, <2>3, <2>5, <2>6 DEF IInv, TypeOK, LogsOK
  <2>8. Grows
    BY <1>2, <1>4, <2>3 DEF Grows, Exists, HasLoan
  <2>9. payout[o] = "none"
    BY <1>4 DEF IInv, RowsOK, RowOK, Exists
  <2>10. RowsOK'
    <3> SUFFICES ASSUME NEW x \in Order PROVE RowOK(x)'
      BY DEF RowsOK
    <3>1. RowOK(x)
      BY DEF IInv, RowsOK
    <3>2. CASE x = o
      BY <1>1, <1>2, <2>2, <2>3, <3>1, <3>2 DEF RowOK, Exists
    <3>3. CASE x # o
      BY <1>2, <2>3, <2>8, <3>1, <3>3, RowKept DEF RowOK
    <3> QED
      BY <3>2, <3>3
  <2>11. Backed' /\ Credits'
    BY <1>2, <2>8, BackedKept, CreditsKept
  <2>12. CallOK(new)'
    BY <1>1, <1>2, <2>2, <2>3, <2>5, <2>9 DEF CallOK, WorkOK, Exists, Paying
  <2>13. \A d \in Call \ {c} : calls[d].pc = "send" =>
            /\ payout'[calls[d].order] = "none"
            /\ new.pc = "send" => new.order # calls[d].order
    BY <1>2, <1>4, <2>5 DEF IInv, CallsOK, CallOK, WorkOK, Exists
  <2> QED
    BY <2>5, <2>6, <2>7, <2>8, <2>10, <2>11, <2>12, <2>13, CallStep
<1> QED
  BY <1>1, <1>3, <1>4 DEF InsertOrder

\* A payout is asked for once, so no outcome is taken back.
LEMMA IntentPreserves ==
  ASSUME IInv, NEW c \in Call, CreatePayoutIntent(c)
  PROVE  IInv'
<1>1. PICK call \in CallState, o \in Order :
         /\ call = calls[c] /\ o = call.order /\ CallOK(call) /\ Exists(o)
         /\ call.pc = "send" /\ call.app \in Application /\ payout[o] = "none"
  BY DEF CreatePayoutIntent, IInv, TypeOK, CallsOK, CallOK, WorkOK
<1>2. PICK was \in Outcome \cup {"none", "open"} : payout' = [payout EXCEPT ![o] = was]
  BY <1>1 DEF CreatePayoutIntent, Outcome
<1>3. PICK new \in CallState :
         /\ calls' = [calls EXCEPT ![c] = new] /\ Kept(new, call)
         /\ \/ new.pc = "catch"
            \/ (new.pc = "update" /\ new.report \in {"open", "completed", "failed"} /\ new.report = was)
  <2>1. ASSUME NEW outcome \in {"open", "completed", "failed"},
               payout' = [payout EXCEPT ![o] = outcome],
               calls' = [calls EXCEPT ![c].pc = "update", ![c].report = outcome]
        PROVE  \E new \in CallState :
                  /\ calls' = [calls EXCEPT ![c] = new] /\ Kept(new, call)
                  /\ new.pc = "update" /\ new.report = outcome /\ outcome = was
    <3>1. PICK new : new = [call EXCEPT !.pc = "update", !.report = outcome]
      OBVIOUS
    <3>2. new \in CallState /\ Kept(new, call) /\ new.pc = "update" /\ new.report = outcome
      BY <3>1 DEF CallState, Kept, PC, Outcome
    <3>3. calls' = [calls EXCEPT ![c] = new]
      BY <1>1, <2>1, <3>1
    <3>4. outcome = was
      BY <1>2, <2>1 DEF IInv, TypeOK
    <3> QED
      BY <3>2, <3>3, <3>4
  <2>2. ASSUME calls' = [calls EXCEPT ![c].pc = "catch"]
        PROVE  \E new \in CallState :
                  calls' = [calls EXCEPT ![c] = new] /\ Kept(new, call) /\ new.pc = "catch"
    <3>1. PICK new : new = [call EXCEPT !.pc = "catch"]
      OBVIOUS
    <3>2. new \in CallState /\ Kept(new, call) /\ new.pc = "catch"
      BY <3>1 DEF CallState, Kept, PC
    <3>3. calls' = [calls EXCEPT ![c] = new]
      BY <1>1, <2>2, <3>1
    <3> QED
      BY <3>2, <3>3
  <2> QED
    BY <1>1, <2>1, <2>2 DEF CreatePayoutIntent
<1>4. /\ UNCHANGED <<state, orders, loans, counter, credited, processed, ignored>>
      /\ sent' \subseteq sent \cup {o} /\ (o \in sent' \ sent => was \in Outcome)
      /\ overlapped' \subseteq Application
  BY <1>1, <1>2 DEF CreatePayoutIntent, application, IInv, TypeOK, Outcome, books
<1>5. faults' \in 0..MaxFaults
  <2>1. CASE UNCHANGED faults
    BY <2>1 DEF IInv, TypeOK
  <2>2. CASE faults < MaxFaults /\ faults' = faults + 1
    <3>1. PICK n \in Nat : n = faults /\ n < MaxFaults /\ faults' = n + 1
      BY <2>2 DEF IInv, TypeOK
    <3> QED
      BY <3>1 DEF IInv, PayoutsAssumption
  <2> QED
    BY <2>1, <2>2 DEF CreatePayoutIntent
<1>6. TypeOK'
  BY <1>2, <1>3, <1>4, <1>5 DEF IInv, TypeOK
<1>7. /\ payout'[o] = was /\ \A x \in Order \ {o} : payout'[x] = payout[x]
  BY <1>2 DEF IInv, TypeOK
<1>8. Grows
  BY <1>1, <1>4, <1>7 DEF Grows, Exists, HasLoan
<1>9. RowsOK'
  <2> SUFFICES ASSUME NEW x \in Order PROVE RowOK(x)'
    BY DEF RowsOK
  <2>1. RowOK(x)
    BY DEF IInv, RowsOK
  <2>2. CASE x = o
    BY <1>1, <1>4, <1>7, <2>1, <2>2 DEF RowOK, Exists, Outcome
  <2>3. CASE x # o
    BY <1>4, <1>7, <1>8, <2>1, <2>3, RowKept DEF RowOK
  <2> QED
    BY <2>2, <2>3
<1>10. Backed' /\ Credits'
  BY <1>4, <1>8, BackedKept, CreditsKept
<1>11. CallOK(new)'
  BY <1>1, <1>3, <1>4, <1>7 DEF CallOK, WorkOK, Kept, Exists, Paying
<1>12. \A d \in Call \ {c} : calls[d].pc = "send" =>
          /\ payout'[calls[d].order] = "none"
          /\ new.pc = "send" => new.order # calls[d].order
  <2> SUFFICES ASSUME NEW d \in Call \ {c}, calls[d].pc = "send"
               PROVE  payout'[calls[d].order] = "none"
    BY <1>3
  <2>1. calls[d].order \in Order /\ calls[d].order # o /\ payout[calls[d].order] = "none"
    BY <1>1 DEF IInv, CallsOK, CallOK, WorkOK, OneSend
  <2> QED
    BY <1>7, <2>1
<1> QED
  BY <1>3, <1>6, <1>8, <1>9, <1>10, <1>11, <1>12, CallStep

\* A write of the order of a handler, which then answers, finishes or goes on to post.
LEMMA WritePreserves ==
  ASSUME IInv, NEW c \in Call, calls[c].pc \notin {"idle", "resume", "insert", "post", "mark"},
         NEW o \in Order, o = calls[c].order,
         NEW row \in Row, orders' = [orders EXCEPT ![o] = row],
         row.status # "absent", row.app = orders[o].app,
         row.status \in {"completed", "posted"} => payout[o] = "completed",
         row.loan => HasLoan(row.app) /\ payout[o] = "completed",
         \/ Answer(c)
         \/ Finish(c)
         \/ (Finalize(c) /\ payout[calls[c].order] = "completed"),
         UNCHANGED <<state, payout, loans, counter, credited, sent, processed, ignored, faults>>
  PROVE  IInv'
<1>1. UNCHANGED overlapped
  BY EndIs
<1>2. PICK new \in CallState :
         /\ calls' = [calls EXCEPT ![c] = new]
         /\ new = Idle \/ (new.pc \in {"store", "read"} /\ Kept(new, calls[c]))
         /\ CallOK(new)
  BY EndIs
<1>3. Exists(o)
  BY DEF IInv, CallsOK, CallOK, WorkOK
<1>4. LogsOK
  BY <1>1 DEF LogsOK, IInv, TypeOK
<1> QED
  BY <1>2, <1>3, <1>4, IdleOK, RowStep

\* The write was refused.
LEMMA RefusedPreserves ==
  ASSUME IInv, NEW c \in Call, calls[c].pc # "idle", Throw(c),
         UNCHANGED <<state, orders, payout, loans, counter, credited, processed, ignored,
                     faults, overlapped>>
  PROVE  IInv'
<1>1. PICK new \in CallState : calls' = [calls EXCEPT ![c] = new] /\ CallOK(new)
                                /\ (new = Idle \/ new.pc = "catch")
  BY ThrowIs
<1>2. LogsOK
  BY DEF Throw, LogsOK, IInv, TypeOK
<1> QED
  BY <1>1, <1>2, IdleOK, LocalStep

LEMMA UpdatePreserves ==
  ASSUME IInv, NEW c \in Call, UpdateInitiated(c)
  PROVE  IInv'
<1>1. PICK o \in Order, s \in {"pending", "completed", "failed"} :
         /\ o = calls[c].order /\ s = NormalizePayoutStatus(calls[c].report)
         /\ s = "completed" => payout[o] = "completed"
  BY DEF UpdateInitiated, NormalizePayoutStatus, IInv, CallsOK, CallOK, WorkOK
<1>2. CASE Admitted(o, s)
  <2>1. PICK row : row = [orders[o] EXCEPT !.status = s, !.ref = TRUE]
    OBVIOUS
  <2>2. row \in Row /\ row.status = s /\ row.app = orders[o].app /\ row.loan = orders[o].loan
    BY <2>1 DEF IInv, TypeOK, Row, Status
  <2>3. orders' = [orders EXCEPT ![o] = row]
    BY <1>1, <1>2, <2>1 DEF UpdateInitiated
  <2>4. UNCHANGED <<state, payout, loans, counter, credited, sent, processed, ignored,
                    faults>> /\ calls[c].pc = "update"
    BY <1>1, <1>2 DEF UpdateInitiated, application, books
  <2>5. Answer(c) \/ (Finalize(c) /\ payout[calls[c].order] = "completed")
    BY <1>1, <1>2 DEF UpdateInitiated
  <2>6. row.loan => HasLoan(row.app) /\ payout[o] = "completed"
    BY <2>2 DEF IInv, RowsOK, RowOK
  <2> QED
    BY <1>1, <2>2, <2>3, <2>4, <2>5, <2>6, WritePreserves
<1>3. CASE ~Admitted(o, s)
  BY <1>1, <1>3, RefusedPreserves DEF UpdateInitiated, application, books
<1> QED
  BY <1>2, <1>3

LEMMA CatchPreserves ==
  ASSUME IInv, NEW c \in Call, CatchFailed(c)
  PROVE  IInv'
<1>1. PICK o \in Order : o = calls[c].order
  BY DEF CatchFailed, IInv, CallsOK, CallOK, WorkOK
<1>2. PICK row : row = [orders[o] EXCEPT !.status = "failed"]
  OBVIOUS
<1>3. row \in Row /\ row.status = "failed" /\ row.app = orders[o].app /\ row.loan = orders[o].loan
  BY <1>2 DEF IInv, TypeOK, Row, Status
<1>4. row.loan => HasLoan(row.app) /\ payout[o] = "completed"
  BY <1>3 DEF IInv, RowsOK, RowOK
<1> QED
  BY <1>1, <1>2, <1>3, <1>4, WritePreserves DEF CatchFailed, application, books

LEMMA ApplyPreserves ==
  ASSUME IInv, NEW c \in Call, Apply(c)
  PROVE  IInv'
<1>1. PICK o \in Order, s \in Outcome \cup {"expired", "posted"} :
         /\ o = calls[c].order /\ s = Applied(calls[c])
         /\ s \in {"completed", "posted"} => payout[o] = "completed"
  BY DEF Apply, Applied, IInv, CallsOK, CallOK, WorkOK, Outcome
<1>2. CASE Admitted(o, s)
  <2>1. PICK row : row = [orders[o] EXCEPT !.status = s, !.ref = TRUE]
    OBVIOUS
  <2>2. row \in Row /\ row.status = s /\ row.app = orders[o].app /\ row.loan = orders[o].loan
    BY <2>1 DEF IInv, TypeOK, Row, Status, Outcome
  <2>3. orders' = [orders EXCEPT ![o] = row]
    BY <1>1, <1>2, <2>1 DEF Apply
  <2>4. UNCHANGED <<state, payout, loans, counter, credited, sent, processed, ignored,
                    faults>> /\ calls[c].pc = "apply"
    BY <1>1, <1>2 DEF Apply, application, books
  <2>5. Finish(c) \/ (Finalize(c) /\ payout[calls[c].order] = "completed")
    BY <1>1, <1>2 DEF Apply
  <2>6. row.loan => HasLoan(row.app) /\ payout[o] = "completed"
    BY <2>2 DEF IInv, RowsOK, RowOK
  <2>7. row.status # "absent" /\ (row.status \in {"completed", "posted"} => payout[o] = "completed")
    BY <1>1, <2>2 DEF Outcome
  <2> QED
    BY <1>1, <2>2, <2>3, <2>4, <2>5, <2>6, <2>7, WritePreserves
<1>3. CASE ~Admitted(o, s)
  BY <1>1, <1>3, RefusedPreserves DEF Apply, application, books
<1> QED
  BY <1>2, <1>3

LEMMA RecordPreserves ==
  ASSUME IInv, NEW c \in Call, RecordPosted(c)
  PROVE  IInv'
<1>1. PICK o \in Order :
         /\ o = calls[c].order /\ payout[o] = "completed" /\ HasLoan(orders[o].app)
  BY DEF RecordPosted, IInv, CallsOK, CallOK, WorkOK, Paying
<1>2. PICK row : row = [orders[o] EXCEPT !.status = "posted", !.loan = TRUE]
  OBVIOUS
<1>3. row \in Row /\ row.status = "posted" /\ row.app = orders[o].app
  BY <1>2 DEF IInv, TypeOK, Row, Status
<1>4. orders' = [orders EXCEPT ![o] = row]
  BY <1>1, <1>2 DEF RecordPosted
<1> QED
  BY <1>1, <1>3, <1>4, WritePreserves DEF RecordPosted, application, books

\* An application that moves along takes nothing from the orders.
LEMMA StateStep ==
  ASSUME IInv, UNCHANGED <<orders, payout, loans, counter, sent, processed, ignored>>,
         NEW a \in Application, NEW s \in Review!State \ {"absent"},
         state' = [state EXCEPT ![a] = s]
  PROVE  Grows /\ RowsOK' /\ Backed' /\ state' \in [Application -> Review!State]
<1>1. Grows
  BY DEF Grows, Exists, HasLoan, IInv, TypeOK
<1>2. RowsOK'
  BY <1>1, RowKept DEF IInv, RowsOK, RowOK
<1>3. Backed'
  BY DEF IInv, Backed
<1> QED
  BY <1>1, <1>2, <1>3 DEF IInv, TypeOK

LEMMA PostPreserves ==
  ASSUME IInv, NEW c \in Call, PostLoan(c)
  PROVE  IInv'
<1>1. PICK call \in CallState, a \in Application :
         /\ call = calls[c] /\ CallOK(call) /\ call.pc = "post" /\ a = call.app
  BY DEF PostLoan, IInv, TypeOK, CallsOK, CallOK, WorkOK
<1>2. /\ UNCHANGED <<state, orders, payout, sent, processed, ignored, credited, faults>>
      /\ UNCHANGED overlapped
  BY DEF PostLoan, application, Goto
<1>3. PICK k \in 0..MaxLoans, n \in 0..MaxLoans :
         k = loans[a] /\ n = counter[a] /\ k + n < MaxLoans
  BY <1>1 DEF PostLoan, IInv, TypeOK
<1>4. /\ loans' \in [Application -> 0..MaxLoans] /\ counter' \in [Application -> 0..MaxLoans]
      /\ HasLoan(a)'
      /\ \A b \in Application : loans[b] > 0 => loans'[b] > 0
      /\ \A b \in Application \ {a} : loans'[b] = loans[b] /\ counter'[b] = counter[b]
      /\ call.kind = "cash" => UNCHANGED loans
  <2>1. /\ k + 1 \in 0..MaxLoans /\ n + 1 \in 0..MaxLoans
        /\ k + 1 > 0 /\ (k + 1) + n > 0 /\ k + (n + 1) > 0
    BY <1>3 DEF IInv, PayoutsAssumption
  <2>2. CASE call.kind = "cash"
    <3>1. counter' = [counter EXCEPT ![a] = n + 1] /\ loans' = loans
      BY <1>1, <1>3, <2>2 DEF PostLoan
    <3> QED
      BY <1>3, <2>1, <3>1 DEF IInv, TypeOK, HasLoan
  <2>3. CASE call.kind # "cash"
    <3>1. loans' = [loans EXCEPT ![a] = k + 1] /\ counter' = counter
      BY <1>1, <1>3, <2>3 DEF PostLoan
    <3> QED
      BY <1>3, <2>1, <2>3, <3>1 DEF IInv, TypeOK, HasLoan
  <2> QED
    BY <2>2, <2>3
<1>5. PICK new \in CallState :
         calls' = [calls EXCEPT ![c] = new] /\ Kept(new, call) /\ new.pc = "mark"
  BY <1>1, GotoIs DEF PostLoan, PC
<1>6. TypeOK'
  BY <1>2, <1>4, <1>5 DEF IInv, TypeOK
<1>7. Grows
  BY <1>2, <1>4 DEF Grows, Exists, HasLoan
<1>8. RowsOK'
  BY <1>2, <1>7, RowKept DEF IInv, RowsOK, RowOK
<1>9. Backed' /\ Credits'
  <2>1. call.kind # "cash" =>
           \E o \in Order : Exists(o) /\ orders[o].app = a /\ payout[o] = "completed"
    BY <1>1 DEF CallOK, WorkOK, Paying
  <2> QED
    BY <1>2, <1>4, <1>7, <2>1, BackedKept, CreditsKept
<1>10. CallOK(new)'
  BY <1>1, <1>2, <1>4, <1>5 DEF CallOK, WorkOK, Kept, Exists, Paying
<1>11. \A d \in Call \ {c} : calls[d].pc = "send" => payout'[calls[d].order] = "none"
  BY <1>2 DEF IInv, CallsOK, CallOK
<1> QED
  BY <1>5, <1>6, <1>7, <1>8, <1>9, <1>10, <1>11, CallStep

LEMMA MarkPreserves ==
  ASSUME IInv, NEW c \in Call, MarkDisbursed(c)
  PROVE  IInv'
<1>1. PICK call \in CallState, a \in Application :
         /\ call = calls[c] /\ CallOK(call) /\ call.pc = "mark" /\ a = call.app
  BY DEF MarkDisbursed, IInv, TypeOK, CallsOK, CallOK, WorkOK
<1>2. UNCHANGED <<orders, payout, loans, counter, sent, processed, ignored, faults, overlapped>>
  BY DEF MarkDisbursed, Goto, Answer
<1>3. CASE Answer(c) /\ UNCHANGED <<application, credited>>
  <2>1. UNCHANGED <<state, credited>> /\ LogsOK
    BY <1>2, <1>3 DEF application, LogsOK, IInv, TypeOK
  <2> QED
    BY <1>2, <1>3, <2>1, IdleOK, LocalStep DEF Answer
<1>4. CASE /\ Review!Move(a, "disbursed") /\ credited' = credited \cup {a}
           /\ IF call.kind = "cash" THEN Answer(c) ELSE Goto(c, "record")
  <2>1. state' = [state EXCEPT ![a] = "disbursed"] /\ "disbursed" \in Review!State \ {"absent"}
    BY <1>4 DEF Review!Move, Review!State
  <2>2. Grows /\ RowsOK' /\ Backed' /\ state' \in [Application -> Review!State]
    BY <1>2, <2>1, StateStep
  <2>3. PICK new \in CallState :
           /\ calls' = [calls EXCEPT ![c] = new] /\ CallOK(new) /\ new.pc # "send"
    <3>1. CASE call.kind = "cash"
      BY <1>4, <3>1, IdleOK DEF Answer
    <3>2. CASE call.kind # "cash"
      <4>1. PICK new \in CallState :
               calls' = [calls EXCEPT ![c] = new] /\ Kept(new, call) /\ new.pc = "record"
        BY <1>1, <1>4, <3>2, GotoIs DEF PC
      <4>2. CallOK(new)
        BY <1>1, <3>2, <4>1 DEF CallOK, WorkOK, Kept, Paying
      <4> QED
        BY <4>1, <4>2
    <3> QED
      BY <3>1, <3>2
  <2>4. TypeOK'
    BY <1>2, <1>4, <2>2, <2>3 DEF IInv, TypeOK
  <2>5. Credits'
    <3>1. HasLoan(a)
      BY <1>1 DEF CallOK
    <3>2. \A b \in credited' : HasLoan(b)
      BY <1>4, <3>1 DEF IInv, Credits
    <3> QED
      BY <1>2, <3>2 DEF Credits, HasLoan
  <2>6. CallOK(new)'
    BY <2>2, <2>3, CallOKStable
  <2>7. \A d \in Call \ {c} : calls[d].pc = "send" => payout'[calls[d].order] = "none"
    BY <1>2 DEF IInv, CallsOK, CallOK
  <2> QED
    BY <2>2, <2>3, <2>4, <2>5, <2>6, <2>7, CallStep
<1> QED
  BY <1>1, <1>3, <1>4 DEF MarkDisbursed

LEMMA SettlePreserves ==
  ASSUME IInv, NEW o \in Order, Settle(o)
  PROVE  IInv'
<1>1. PICK was \in Outcome : payout' = [payout EXCEPT ![o] = was]
  BY DEF Settle
<1>2. /\ payout[o] = "open" /\ sent' = sent \cup {o}
      /\ UNCHANGED <<state, orders, processed, ignored, loans, counter, credited, calls,
                     faults, overlapped>>
  BY DEF Settle, application, books
<1>3. payout'[o] = was /\ \A x \in Order \ {o} : payout'[x] = payout[x]
  BY <1>1 DEF IInv, TypeOK
<1>4. TypeOK'
  BY <1>1, <1>2 DEF IInv, TypeOK
<1>5. Grows
  BY <1>2, <1>3 DEF Grows, Exists, HasLoan
<1>6. RowsOK'
  <2> SUFFICES ASSUME NEW x \in Order PROVE RowOK(x)'
    BY DEF RowsOK
  <2>1. RowOK(x)
    BY DEF IInv, RowsOK
  <2>2. CASE x = o
    BY <1>2, <1>3, <2>1, <2>2 DEF RowOK, Exists
  <2>3. CASE x # o
    BY <1>2, <1>3, <1>5, <2>1, <2>3, RowKept DEF RowOK
  <2> QED
    BY <2>2, <2>3
<1>7. Backed' /\ Credits'
  BY <1>2, <1>5, BackedKept, CreditsKept
<1>8. \A d \in Call : calls[d].pc = "send" => payout'[calls[d].order] = "none"
  BY <1>2, <1>3 DEF IInv, CallsOK, CallOK, WorkOK
<1> QED
  BY <1>2, <1>4, <1>5, <1>6, <1>7, <1>8, NoCallStep

\* Others move an application to a state of the review, never back to none.
LEMMA ReviewMoves ==
  ASSUME NEW a \in Application, Review!Step(a)
  PROVE  \E s \in Review!State \ {"absent"} : state' = [state EXCEPT ![a] = s]
<1>1. CASE Review!Revise(a)
  BY <1>1 DEF Review!Revise, Review!Move, Review!State
<1>2. CASE Review!Discard(a)
  BY <1>2 DEF Review!Discard, Review!Move, Review!State
<1>3. CASE Review!Submit(a)
  BY <1>3 DEF Review!Submit, Review!Move, Review!State, Review!InReview
<1>4. CASE Review!Appraise(a)
  BY <1>4 DEF Review!Appraise, Review!Move, Review!State, Review!InReview
<1>5. CASE Review!Reject(a)
  BY <1>5 DEF Review!Reject, Review!Move, Review!State
<1>6. CASE Review!PayOut(a)
  BY <1>6 DEF Review!PayOut, Review!Move, Review!State
<1>7. CASE Review!StaleWrite(a)
  BY <1>7 DEF Review!StaleWrite, Review!Move, Review!State
<1>8. ASSUME NEW u \in User, Review!Approve(a, u)
      PROVE  \E s \in Review!State \ {"absent"} : state' = [state EXCEPT ![a] = s]
  <2>1. PICK s \in {"approved", "appraised"} : Review!Move(a, s)
    BY <1>8 DEF Review!Approve
  <2> QED
    BY <2>1 DEF Review!Move, Review!State, Review!InReview
<1>9. ASSUME NEW u \in User, NEW n \in Required, Review!Open(a, u, n)
      PROVE  \E s \in Review!State \ {"absent"} : state' = [state EXCEPT ![a] = s]
  BY <1>9 DEF Review!Open, Review!State
<1> QED
  BY <1>1, <1>2, <1>3, <1>4, <1>5, <1>6, <1>7, <1>8, <1>9 DEF Review!Step

LEMMA ReviewPreserves ==
  ASSUME IInv, NEW a \in Application, ReviewStep(a)
  PROVE  IInv'
<1>1. PICK s \in Review!State \ {"absent"} : state' = [state EXCEPT ![a] = s]
  BY ReviewMoves DEF ReviewStep
<1>2. UNCHANGED <<orders, payout, loans, counter, credited, sent, processed, ignored, calls,
                  faults>>
      /\ overlapped' \subseteq Application
  BY DEF ReviewStep, tables, IInv, TypeOK, books
<1>3. Grows /\ RowsOK' /\ Backed' /\ Credits' /\ state' \in [Application -> Review!State]
  BY <1>1, <1>2, StateStep, CreditsKept
<1>4. TypeOK'
  BY <1>2, <1>3 DEF IInv, TypeOK
<1>5. \A d \in Call : calls[d].pc = "send" => payout'[calls[d].order] = "none"
  BY <1>2 DEF IInv, CallsOK, CallOK
<1> QED
  BY <1>2, <1>3, <1>4, <1>5, NoCallStep

LEMMA StutterPreserves == IInv /\ UNCHANGED vars => IInv'
<1> SUFFICES ASSUME IInv, UNCHANGED vars PROVE IInv'
  OBVIOUS
<1>1. UNCHANGED <<state, orders, payout, sent, processed, ignored, loans, counter, credited,
                  calls, faults, overlapped>>
  BY DEF vars, application, tables, books
<1>2. TypeOK' /\ Grows /\ Backed' /\ Credits'
  BY <1>1 DEF IInv, TypeOK, Grows, Exists, HasLoan, Backed, Credits
<1>3. RowsOK'
  BY <1>1, <1>2, RowKept DEF IInv, RowsOK, RowOK
<1>4. \A d \in Call : calls[d].pc = "send" => payout'[calls[d].order] = "none"
  BY <1>1 DEF IInv, CallsOK, CallOK
<1> QED
  BY <1>1, <1>2, <1>3, <1>4, NoCallStep

LEMMA NextPreserves == IInv /\ [Next]_vars => IInv'
<1> SUFFICES ASSUME IInv, Next PROVE IInv'
  BY StutterPreserves
<1>1. ASSUME NEW c \in Call, Statement(c) PROVE IInv'
  BY <1>1, ResumePreserves, InsertPreserves, IntentPreserves, UpdatePreserves, CatchPreserves,
     QueryPreserves, LoadPreserves, ApplyPreserves, StorePreserves, ReadPreserves,
     PostPreserves, MarkPreserves, RecordPreserves DEF Statement
<1>2. ASSUME NEW c \in Call, Fail(c) \/ Die(c) PROVE IInv'
  BY <1>2, FailPreserves
<1> QED
  BY <1>1, <1>2, InitiatePreserves, DisbursePreserves, StatusPreserves, WebhookPreserves,
     SettlePreserves, ReviewPreserves DEF Next

\* The inductive invariant holds in every reachable state, whatever is lost, repeated,
\* interleaved or cut short.
THEOREM PayoutsInvariant == ASSUME PayoutsAssumption PROVE Spec => []IInv
<1>1. Init => IInv
  BY InitInv
<1>2. IInv /\ [Next]_vars => IInv'
  BY NextPreserves
<1> QED
  BY <1>1, <1>2, PTL DEF Spec

\* The rows of the orders, of the loans and of the handlers at work keep to their types.
THEOREM PayoutsTypeCorrect == ASSUME PayoutsAssumption PROVE Spec => []TypeOK
<1>1. IInv => TypeOK
  BY DEF IInv
<1> QED
  BY <1>1, PayoutsInvariant, PTL

\* finalizeCompletedLoanDisbursementOrder: a loan is posted by an order only when the
\* gateway paid an order of its application out, and an order that has its loan was
\* paid out itself, whatever stale writes did to its row in between.
THEOREM PayoutsPostedIsPaidOut == ASSUME PayoutsAssumption PROVE Spec => []PostedIsPaidOut
<1>1. IInv => PostedIsPaidOut
  <2> SUFFICES ASSUME IInv PROVE PostedIsPaidOut
    OBVIOUS
  <2>1. \A o \in Order : orders[o].loan =>
           loans[orders[o].app] + counter[orders[o].app] > 0 /\ payout[o] = "completed"
    BY DEF IInv, RowsOK, RowOK, HasLoan
  <2> QED
    BY <2>1 DEF IInv, Backed, PostedIsPaidOut
<1> QED
  BY <1>1, PayoutsInvariant, PTL

(***************************************************************************)
(* What the handlers of an application know while they come one after the   *)
(* other and none fails.  Between two of them every order is pending,       *)
(* refused or posted with its loan; a handler at work may have the one open *)
(* order on its way to posted.                                              *)
(***************************************************************************)
Of(a) == {o \in Order : orders[o].app = a}

OrderOK(o) ==
    \/ /\ orders[o].status = "pending" /\ orders[o].ref /\ ~orders[o].loan
       /\ payout[o] # "none" /\ (MayComplete(o) => state[orders[o].app] = "approved")
    \/ orders[o].status = "failed" /\ payout[o] = "failed"
    \/ /\ orders[o].status = "posted" /\ payout[o] = "completed" /\ orders[o].loan
       /\ state[orders[o].app] = "disbursed"

InHand == {"send", "update"} \cup Paying
LoansOK(a) == loans[a] + counter[a] = IF state[a] = "disbursed" THEN 1 ELSE 0

\* One order of an application at most is open, and one at most may be paid out.
Alone(a) ==
    /\ \A o, x \in OpenOrders(a) : o = x
    /\ \A o, x \in Of(a) : MayComplete(o) /\ MayComplete(x) => o = x
    /\ \A o \in Of(a) \cap (processed \ ignored) : orders[o].status \notin OpenStatus

Settled(a) == LoansOK(a) /\ \A o \in Of(a) : OrderOK(o)

Phase(call) ==
    LET a == call.app
        o == call.order
    IN
    /\ \A x \in Of(a) : OrderOK(x) \/ (x = o /\ call.pc \in InHand)
    /\ call.pc # "mark" => LoansOK(a)
    /\ call.pc \in {"resume", "insert", "send", "update", "read", "post", "mark"}
          => state[a] = "approved"
    /\ call.pc = "insert" => OpenOrders(a) = {}
    /\ call.pc \in {"send", "update"} => orders[o].status = "created" /\ ~orders[o].loan
    /\ call.pc = "update" => payout[o] # "none" /\ (call.report # "open" => payout[o] = call.report)
    /\ call.pc = "query" => call.kind = "poll" /\ orders[o].status = "pending"
    /\ call.pc \in {"load", "apply"} => call.report \in Outcome /\ payout[o] = call.report
    /\ call.pc = "load" => call.kind = "webhook"
    /\ call.pc = "apply" =>
          \/ call.kind = "webhook" /\ call.posted = (orders[o].status = "posted")
          \/ call.kind = "poll" /\ orders[o].status = "pending"
    /\ (call.pc \in {"read", "record"} \/ (call.pc \in {"post", "mark"} /\ call.kind # "cash"))
          => orders[o].status = "completed" /\ ~orders[o].loan
    /\ call.pc \in {"post", "mark"} /\ call.kind = "cash" => \A x \in Of(a) : ~MayComplete(x)
    /\ call.pc = "mark" => loans[a] + counter[a] = 1
    /\ call.pc = "record" => state[a] = "disbursed"
    /\ call.pc = "store" => orders[o].status \in {"posted", "failed"} \/ o \in ignored
    /\ call.pc # "catch"

SerialOf(a) ==
    /\ \A c, d \in Working(a) : c = d
    /\ Alone(a)
    /\ Working(a) = {} => Settled(a)
    /\ \A c \in Working(a) : Phase(calls[c])

SerialOK == \A a \in Application \ overlapped : SerialOf(a)

\* Nothing an application depends on changed.
SameRows(a) ==
    /\ state'[a] = state[a] /\ loans'[a] = loans[a] /\ counter'[a] = counter[a]
    /\ \A o \in Order : orders'[o].app = a <=> orders[o].app = a
    /\ \A o \in Of(a) :
          /\ orders'[o] = orders[o] /\ payout'[o] = payout[o]
          /\ (o \in processed' <=> o \in processed) /\ (o \in ignored' <=> o \in ignored)
SameCalls(a) ==
    /\ \A d \in Call : calls'[d].app = a <=> calls[d].app = a
    /\ \A d \in Working(a) : calls'[d] = calls[d]

LEMMA SameRowsSame ==
  ASSUME NEW a \in Application, SameRows(a)
  PROVE  /\ Of(a)' = Of(a) /\ OpenOrders(a)' = OpenOrders(a)
         /\ Alone(a)' <=> Alone(a)
         /\ LoansOK(a)' <=> LoansOK(a)
         /\ \A o \in Of(a) : (OrderOK(o)' <=> OrderOK(o)) /\ (MayComplete(o)' <=> MayComplete(o))
<1>1. Of(a)' = Of(a) /\ OpenOrders(a)' = OpenOrders(a)
  BY DEF SameRows, Of, OpenOrders
<1>2. \A o \in Of(a) : (OrderOK(o)' <=> OrderOK(o)) /\ (MayComplete(o)' <=> MayComplete(o))
  BY DEF SameRows, Of, OrderOK, MayComplete
<1>3. Alone(a)' <=> Alone(a)
  BY <1>1, <1>2 DEF SameRows, Of, Alone
<1> QED
  BY <1>1, <1>2, <1>3 DEF SameRows, LoansOK

LEMMA PhaseKept ==
  ASSUME IInv, NEW call \in CallState, call.app \in Application, SameRows(call.app),
         CallOK(call), Phase(call)
  PROVE  Phase(call)'
<1>1. PICK a \in Application : a = call.app
  OBVIOUS
<1>2. /\ Of(a)' = Of(a) /\ OpenOrders(a)' = OpenOrders(a)
      /\ LoansOK(a)' <=> LoansOK(a)
      /\ \A o \in Of(a) : (OrderOK(o)' <=> OrderOK(o)) /\ (MayComplete(o)' <=> MayComplete(o))
  BY <1>1, SameRowsSame
<1>3. /\ call.pc \notin {"idle", "resume", "insert"} /\ call.kind # "cash" => call.order \in Of(a)
      /\ call.kind = "cash" => call.pc \in {"post", "mark"}
  BY <1>1 DEF CallOK, WorkOK, Of
<1>4. /\ state'[a] = state[a] /\ loans'[a] = loans[a] /\ counter'[a] = counter[a]
      /\ \A o \in Of(a) : orders'[o] = orders[o] /\ payout'[o] = payout[o]
                           /\ (o \in ignored' <=> o \in ignored)
  BY <1>1 DEF SameRows
<1> QED
  BY <1>1, <1>2, <1>3, <1>4 DEF Phase, InHand, Paying

\* The other applications, when a step is of one.
LEMMA SerialKept ==
  ASSUME IInv, SerialOK, NEW a \in Application \ overlapped, SameRows(a), SameCalls(a)
  PROVE  SerialOf(a)'
<1>1. SerialOf(a)
  BY DEF SerialOK
<1>2. Working(a)' = Working(a) /\ \A d \in Working(a) : calls'[d] = calls[d]
  BY DEF SameCalls, Working
<1>3. ASSUME NEW d \in Working(a) PROVE Phase(calls[d])'
  <2>1. PICK call \in CallState : call = calls[d] /\ call.app = a /\ CallOK(call) /\ Phase(call)
    BY <1>1 DEF SerialOf, Working, IInv, TypeOK, CallsOK
  <2>2. Phase(call)'
    BY <2>1, PhaseKept
  <2> QED
    BY <1>2, <2>1, <2>2
<1>4. Alone(a)' /\ (Settled(a) => Settled(a)')
  BY <1>1, SameRowsSame DEF SerialOf, Settled
<1> QED
  BY <1>1, <1>2, <1>3, <1>4 DEF SerialOf

LEMMA AtWork ==
  ASSUME IInv, SerialOK, NEW c \in Call, calls[c].pc # "idle", calls[c].app \notin overlapped
  PROVE  /\ calls[c].app \in Application /\ Working(calls[c].app) = {c}
         /\ Phase(calls[c]) /\ Alone(calls[c].app)
<1>1. calls[c].app \in Application \ overlapped
  BY DEF IInv, CallsOK, CallOK, WorkOK
<1> QED
  BY <1>1 DEF SerialOK, SerialOf, Working

\* A step of one handler, on one application.
LEMMA HandlerSerial ==
  ASSUME IInv, SerialOK, NEW c \in Call, NEW a \in Application, NEW new \in CallState,
         calls[c].app \in {a, NoApplication}, calls' = [calls EXCEPT ![c] = new],
         new.app \in {a, NoApplication}, overlapped \subseteq overlapped',
         \A b \in Application \ {a} : SameRows(b),
         a \notin overlapped' =>
            /\ Working(a) \subseteq {c} /\ Alone(a)'
            /\ IF new.app = a THEN Phase(new)' ELSE Settled(a)'
  PROVE  SerialOK'
<1>1. SUFFICES ASSUME NEW b \in Application, b \notin overlapped' PROVE SerialOf(b)'
  BY DEF SerialOK
<1>2. /\ NoApplication \notin Application /\ calls'[c] = new
      /\ \A d \in Call \ {c} : calls'[d] = calls[d]
  BY DEF IInv, TypeOK, PayoutsAssumption
<1>3. CASE b # a
  BY <1>1, <1>2, <1>3, SerialKept DEF SameCalls, Working
<1>4. CASE b = a
  <2>1. Working(a)' = IF new.app = a THEN {c} ELSE {}
    BY <1>1, <1>2, <1>4 DEF Working
  <2>2. \A d \in Working(a)' : Phase(calls[d])'
    BY <1>1, <1>2, <1>4, <2>1
  <2>3. Alone(a)' /\ (Working(a)' = {} => Settled(a)')
    BY <1>1, <1>4, <2>1
  <2> QED
    BY <1>4, <2>1, <2>2, <2>3 DEF SerialOf
<1> QED
  BY <1>3, <1>4

\* One that writes no row.
LEMMA LocalSerial ==
  ASSUME IInv, SerialOK, NEW c \in Call, NEW a \in Application, NEW new \in CallState,
         calls[c].app \in {a, NoApplication}, calls' = [calls EXCEPT ![c] = new],
         new.app \in {a, NoApplication}, overlapped \subseteq overlapped',
         UNCHANGED <<state, orders, payout, loans, counter, credited, processed, ignored>>,
                     CallOK(new),
         a \notin overlapped' =>
            /\ Working(a) \subseteq {c} /\ Alone(a)
            /\ IF new.app = a THEN Phase(new) ELSE Settled(a)
  PROVE  SerialOK'
<1>1. \A b \in Application : SameRows(b)
  BY DEF SameRows
<1>2. Alone(a) => Alone(a)'
  BY <1>1, SameRowsSame
<1>3. Settled(a) => Settled(a)'
  BY <1>1, SameRowsSame DEF Settled
<1>4. new.app = a /\ Phase(new) => Phase(new)'
  BY <1>1, PhaseKept
<1> QED
  BY <1>1, <1>2, <1>3, <1>4, HandlerSerial

\* No handler moves.
LEMMA NoCallSerial ==
  ASSUME IInv, SerialOK, NEW a \in Application, calls' = calls, overlapped \subseteq overlapped',
         \A b \in Application \ {a} : SameRows(b),
         a \notin overlapped' => SerialOf(a)'
  PROVE  SerialOK'
  BY SerialKept DEF SerialOK, SameCalls

\* A step of one application leaves the rows of the others.
LEMMA Others ==
  ASSUME IInv, NEW a \in Application, NEW o \in Order,
         \A x \in Order \ {o} : /\ orders'[x] = orders[x] /\ payout'[x] = payout[x]
                                /\ x \in processed' <=> x \in processed
                                /\ x \in ignored' <=> x \in ignored,
         \A b \in Application \ {a} :
            state'[b] = state[b] /\ loans'[b] = loans[b] /\ counter'[b] = counter[b],
         orders'[o].app = a, orders[o].app \in {a, NoApplication}
  PROVE  \A b \in Application \ {a} : SameRows(b)
  BY DEF IInv, PayoutsAssumption, SameRows, Of

LEMMA BeginSerial ==
  ASSUME IInv, SerialOK, NEW c \in Call, NEW a \in Application, NEW new \in CallState,
         new.app = a, Begin(c, new), CallOK(new),
         UNCHANGED <<state, orders, payout, loans, counter, credited, processed, ignored>>,
         Alone(a) /\ Settled(a) => Phase(new)
  PROVE  SerialOK'
<1>1. /\ calls[c].app = NoApplication /\ calls' = [calls EXCEPT ![c] = new]
      /\ overlapped \subseteq overlapped'
      /\ a \notin overlapped' => Working(a) = {} /\ a \notin overlapped
  BY DEF Begin, IInv, CallsOK, CallOK, WorkOK, Idle
<1>2. a \notin overlapped' => Alone(a) /\ Settled(a)
  BY <1>1 DEF SerialOK, SerialOf
<1> QED
  BY <1>1, <1>2, LocalSerial

LEMMA InitiateSerial ==
  ASSUME IInv, SerialOK, NEW c \in Call, NEW a \in Application,
         InitiateMobileLoanDisbursement(c, a)
  PROVE  SerialOK'
<1>1. PICK new : new = [Idle EXCEPT !.pc = "resume", !.kind = "initiate", !.app = a]
  OBVIOUS
<1>2. new \in CallState /\ new.pc = "resume" /\ new.app = a /\ new.kind = "initiate"
  BY <1>1 DEF Idle, CallState, PC
<1>3. CallOK(new) /\ state[a] = "approved"
  BY <1>2 DEF CallOK, WorkOK, Paying, InitiateMobileLoanDisbursement
<1>4. Begin(c, new) /\ UNCHANGED <<state, orders, payout, loans, counter, credited, processed,
                                   ignored>>
  BY <1>1 DEF InitiateMobileLoanDisbursement, application, tables, books
<1>5. Settled(a) => Phase(new)
  BY <1>2, <1>3 DEF Phase, Settled, Paying
<1> QED
  BY <1>2, <1>3, <1>4, <1>5, BeginSerial

\* Nothing is paid over the counter while a payout may complete, or it counts as overlap.
LEMMA DisburseSerial ==
  ASSUME IInv, SerialOK, NEW c \in Call, NEW a \in Application, DisburseLoanApplication(c, a)
  PROVE  SerialOK'
<1>1. PICK new : new = [Idle EXCEPT !.pc = "post", !.kind = "cash", !.app = a]
  OBVIOUS
<1>2. /\ new \in CallState /\ new.pc = "post" /\ new.kind = "cash" /\ new.app = a
      /\ new.order = NoOrder
  BY <1>1 DEF Idle, CallState, PC
<1>3. CallOK(new) /\ state[a] = "approved"
  BY <1>2 DEF CallOK, WorkOK, Paying, DisburseLoanApplication
<1>4. /\ calls[c].app = NoApplication /\ calls' = [calls EXCEPT ![c] = new]
      /\ UNCHANGED <<state, orders, payout, loans, counter, credited, processed, ignored>>
  BY <1>1 DEF DisburseLoanApplication, application, tables, books, IInv, CallsOK, CallOK, WorkOK,
     Idle
<1>5. /\ overlapped \subseteq overlapped'
      /\ a \notin overlapped' => /\ Working(a) = {} /\ a \notin overlapped
                               /\ \A x \in Of(a) : ~MayComplete(x)
  BY DEF DisburseLoanApplication, Underway, Of
<1>6. a \notin overlapped' => Alone(a) /\ Settled(a)
  BY <1>5 DEF SerialOK, SerialOf
<1>7. a \notin overlapped' => Phase(new)
  BY <1>2, <1>3, <1>5, <1>6 DEF Phase, Settled, Paying
<1> QED
  BY <1>2, <1>3, <1>4, <1>5, <1>6, <1>7, LocalSerial

LEMMA StatusSerial ==
  ASSUME IInv, SerialOK, NEW c \in Call, NEW o \in Order, GetLoanDisbursementOrderStatus(c, o)
  PROVE  SerialOK'
<1>1. PICK new : new = [Idle EXCEPT !.pc = SyncPC(o), !.kind = "poll", !.app = orders[o].app,
                                    !.order = o]
  OBVIOUS
<1>2. /\ SyncPC(o) \in {"read", "query"} /\ Exists(o)
      /\ SyncPC(o) = "read" => orders[o].status = "completed"
      /\ orders[o].status \in OpenStatus
  BY DEF GetLoanDisbursementOrderStatus, SyncPC, Exists, OpenStatus
<1>3. PICK a \in Application : a = orders[o].app /\ state[a] # "absent"
  BY <1>2 DEF IInv, RowsOK, RowOK
<1>4. /\ new \in CallState /\ new.pc = SyncPC(o) /\ new.app = a /\ new.order = o
      /\ new.kind = "poll"
  BY <1>1, <1>2, <1>3 DEF Idle, CallState, PC
<1>5. CallOK(new)
  BY <1>2, <1>3, <1>4 DEF CallOK, WorkOK, Paying, IInv, RowsOK, RowOK
<1>6. Begin(c, new) /\ UNCHANGED <<state, orders, payout, loans, counter, credited, processed,
                                   ignored>>
  BY <1>1 DEF GetLoanDisbursementOrderStatus, application, tables, books
<1>7. ASSUME Settled(a) PROVE Phase(new)
  <2>1. o \in Of(a) /\ OrderOK(o)
    BY <1>3, <1>7 DEF Settled, Of
  <2>2. orders[o].status = "pending" /\ new.pc = "query"
    BY <1>2, <1>4, <2>1 DEF OrderOK, OpenStatus
  <2> QED
    BY <1>4, <1>7, <2>2 DEF Phase, Settled, Paying
<1> QED
  BY <1>4, <1>5, <1>6, <1>7, BeginSerial

LEMMA WebhookSerial ==
  ASSUME IInv, SerialOK, NEW c \in Call, NEW o \in Order, Webhook(c, o)
  PROVE  SerialOK'
<1>1. UNCHANGED <<state, orders, payout, processed, ignored, loans, counter, credited>>
  BY DEF Webhook, application, books
<1>2. payout[o] \in Outcome /\ Exists(o)
  BY DEF Webhook, IInv, RowsOK, RowOK, Outcome
<1>3. PICK a \in Application : a = orders[o].app /\ state[a] # "absent"
  BY <1>2 DEF IInv, RowsOK, RowOK
<1>4. CASE calls' = calls /\ UNCHANGED overlapped
  <2>1. \A b \in Application : SameRows(b) /\ SameCalls(b)
    BY <1>1, <1>4 DEF SameRows, SameCalls
  <2> QED
    BY <1>4, <2>1, SerialKept DEF SerialOK
<1>5. CASE Begin(c, [Idle EXCEPT !.pc = "load", !.kind = "webhook", !.app = orders[o].app,
                                 !.order = o, !.report = payout[o]])
  <2>1. PICK new : new = [Idle EXCEPT !.pc = "load", !.kind = "webhook", !.app = orders[o].app,
                                      !.order = o, !.report = payout[o]]
    OBVIOUS
  <2>2. /\ new \in CallState /\ new.pc = "load" /\ new.app = a /\ new.order = o
        /\ new.kind = "webhook" /\ new.report = payout[o]
    BY <1>2, <1>3, <2>1 DEF Idle, CallState, PC
  <2>3. CallOK(new)
    BY <1>2, <1>3, <2>2 DEF CallOK, WorkOK, Paying
  <2>4. Begin(c, new)
    BY <1>5, <2>1
  <2>5. Settled(a) => Phase(new)
    BY <1>2, <2>2 DEF Phase, Settled, Paying
  <2> QED
    BY <1>1, <2>2, <2>3, <2>4, <2>5, BeginSerial
<1> QED
  BY <1>4, <1>5 DEF Webhook

LEMMA ResumeSerial ==
  ASSUME IInv, SerialOK, NEW c \in Call, Resume(c)
  PROVE  SerialOK'
<1>1. PICK a \in Application, call \in CallState :
         call = calls[c] /\ a = call.app /\ CallOK(call) /\ state[a] # "absent" /\ call.pc = "resume"
  BY ResumeCall
<1>2. UNCHANGED <<state, orders, payout, loans, counter, credited, processed, ignored,
                  overlapped>>
  <2>1. UNCHANGED <<application, tables, faults, overlapped>>
    BY Zenon DEF Resume, Goto
  <2> QED
    BY <2>1 DEF application, tables, books
<1>3. a \notin overlapped =>
         Phase(call) /\ Alone(a) /\ Working(a) = {c} /\ Settled(a) /\ state[a] = "approved"
  BY <1>1, AtWork DEF Phase, Settled, InHand, Paying
<1>4. CASE Goto(c, "insert") /\ OpenOrders(a) = {}
  <2>1. PICK new \in CallState :
           calls' = [calls EXCEPT ![c] = new] /\ Kept(new, call) /\ new.pc = "insert"
    BY <1>1, <1>4, GotoIs DEF PC
  <2>2. CallOK(new) /\ new.app = a
    BY <1>1, <2>1 DEF CallOK, WorkOK, Kept, Paying
  <2>3. a \notin overlapped => Phase(new)
    BY <1>3, <1>4, <2>1, <2>2 DEF Phase, Settled, Paying
  <2> QED
    BY <1>1, <1>2, <1>3, <2>1, <2>2, <2>3, LocalSerial
<1>5. ASSUME NEW o \in OpenOrders(a),
             calls' = [calls EXCEPT ![c] = IF SyncPC(o) = "idle" THEN Idle ELSE
                         [@ EXCEPT !.pc = SyncPC(o), !.kind = "poll", !.order = o]]
      PROVE  SerialOK'
  <2>1. o \in Order /\ orders[o].app = a /\ Exists(o) /\ orders[o].status \in OpenStatus
    BY <1>5 DEF OpenOrders, OpenStatus, Exists
  <2>2. CASE SyncPC(o) = "idle"
    <3>1. calls' = [calls EXCEPT ![c] = Idle] /\ Idle.app # a
      BY <1>5, <2>2, IdleOK DEF IInv, PayoutsAssumption
    <3> QED
      BY <1>1, <1>2, <1>3, <3>1, IdleOK, LocalSerial
  <2>3. CASE SyncPC(o) # "idle"
    <3>1. PICK new : new = [call EXCEPT !.pc = SyncPC(o), !.kind = "poll", !.order = o]
      OBVIOUS
    <3>2. /\ SyncPC(o) \in {"read", "query"}
          /\ SyncPC(o) = "read" => orders[o].status = "completed"
      BY <2>3 DEF SyncPC
    <3>3. /\ new \in CallState /\ new.pc = SyncPC(o) /\ new.app = a /\ new.order = o
          /\ new.kind = "poll"
      BY <1>1, <2>1, <3>1, <3>2 DEF CallState, PC
    <3>4. CallOK(new)
      BY <1>1, <2>1, <3>2, <3>3 DEF CallOK, WorkOK, Paying, IInv, RowsOK, RowOK
    <3>5. calls' = [calls EXCEPT ![c] = new]
      BY <1>1, <1>5, <2>3, <3>1
    <3>6. ASSUME a \notin overlapped PROVE Phase(new)
      <4>1. OrderOK(o)
        BY <1>3, <2>1, <3>6 DEF Settled, Of
      <4>2. orders[o].status = "pending" /\ new.pc = "query"
        BY <2>1, <3>2, <3>3, <4>1 DEF OrderOK, OpenStatus
      <4> QED
        BY <1>3, <3>3, <3>6, <4>2 DEF Phase, Settled, Paying
    <3> QED
      BY <1>1, <1>2, <1>3, <3>3, <3>4, <3>5, <3>6, LocalSerial
  <2> QED
    BY <2>2, <2>3
<1> QED
  BY <1>1, <1>4, <1>5 DEF Resume

LEMMA QuerySerial ==
  ASSUME IInv, SerialOK, NEW c \in Call, Query(c)
  PROVE  SerialOK'
<1>1. PICK call \in CallState, a \in Application, o \in Order :
         /\ call = calls[c] /\ a = call.app /\ o = call.order /\ CallOK(call)
         /\ call.pc = "query"
  BY DEF Query, IInv, TypeOK, CallsOK, CallOK, WorkOK
<1>2. UNCHANGED <<state, orders, payout, loans, counter, credited, processed, ignored>>
  BY DEF Query, application, tables, books
<1>3. a \notin overlapped =>
         /\ Phase(call) /\ Alone(a) /\ Working(a) = {c} /\ Settled(a)
         /\ call.kind = "poll" /\ orders[o].status = "pending"
  BY <1>1, AtWork DEF Phase, Settled, InHand, Paying
<1>4. CASE Answer(c)
  <2>1. calls' = [calls EXCEPT ![c] = Idle] /\ UNCHANGED overlapped /\ Idle.app # a
    BY <1>4, IdleOK DEF Answer, IInv, PayoutsAssumption
  <2> QED
    BY <1>1, <1>2, <1>3, <2>1, IdleOK, LocalSerial
<1>5. ASSUME NEW report \in Outcome \cup {"expired"},
             \/ report = "expired" /\ overlapped' = overlapped \cup {a}
             \/ report = payout[o] /\ payout[o] \in Outcome /\ UNCHANGED overlapped,
             calls' = [calls EXCEPT ![c].pc = "apply", ![c].report = report]
      PROVE  SerialOK'
  <2>1. PICK new : new = [call EXCEPT !.pc = "apply", !.report = report]
    OBVIOUS
  <2>2. new \in CallState /\ Kept(new, call) /\ new.pc = "apply" /\ new.report = report
    BY <1>5, <2>1 DEF CallState, Kept, PC
  <2>3. CallOK(new) /\ new.app = a
    BY <1>1, <1>5, <2>2 DEF CallOK, WorkOK, Kept, Paying
  <2>4. calls' = [calls EXCEPT ![c] = new]
    BY <1>1, <1>5, <2>1
  <2>5. a \notin overlapped' => a \notin overlapped /\ Phase(new)
    BY <1>1, <1>3, <1>5, <2>2 DEF Phase, Settled, Kept, Paying
  <2>6. overlapped \subseteq overlapped'
    BY <1>5
  <2> QED
    BY <1>1, <1>2, <1>3, <2>2, <2>3, <2>4, <2>5, <2>6, LocalSerial
<1> QED
  BY <1>1, <1>4, <1>5 DEF Query

LEMMA LoadSerial ==
  ASSUME IInv, SerialOK, NEW c \in Call, Load(c)
  PROVE  SerialOK'
<1>1. PICK call \in CallState, a \in Application, o \in Order :
         /\ call = calls[c] /\ a = call.app /\ o = call.order /\ CallOK(call)
         /\ call.pc = "load" /\ orders[o].app = a
  BY DEF Load, IInv, TypeOK, CallsOK, CallOK, WorkOK
<1>2. UNCHANGED <<state, orders, payout, loans, counter, credited, processed, overlapped>>
  BY DEF Load, Finish, Goto, Answer, application, books
<1>3. a \notin overlapped =>
         /\ Phase(call) /\ Alone(a) /\ Working(a) = {c} /\ Settled(a) /\ call.kind = "webhook"
  BY <1>1, AtWork DEF Phase, Settled, InHand, Paying
<1>4. CASE calls' = [calls EXCEPT ![c].pc = "apply", ![c].posted = orders[o].status = "posted"]
           /\ UNCHANGED ignored
  <2>1. PICK posted \in BOOLEAN : posted = (orders[o].status = "posted")
    OBVIOUS
  <2>2. PICK new : new = [call EXCEPT !.pc = "apply", !.posted = posted]
    OBVIOUS
  <2>3. /\ new \in CallState /\ Kept(new, call) /\ new.pc = "apply" /\ new.report = call.report
        /\ new.posted = posted
    BY <2>2 DEF CallState, Kept, PC
  <2>4. CallOK(new) /\ new.app = a
    BY <1>1, <2>3 DEF CallOK, WorkOK, Kept, Paying
  <2>5. calls' = [calls EXCEPT ![c] = new]
    BY <1>1, <1>4, <2>1, <2>2
  <2>6. a \notin overlapped => Phase(new)
    BY <1>1, <1>3, <2>1, <2>3 DEF Phase, Settled, Kept, Paying
  <2> QED
    BY <1>1, <1>2, <1>3, <1>4, <2>3, <2>4, <2>5, <2>6, LocalSerial
<1>5. CASE ignored' = ignored \cup {o} /\ Finish(c)
  <2>1. \A b \in Application \ {a} : SameRows(b)
    BY <1>1, <1>2, <1>5, Others
  <2>2. a \notin overlapped => Alone(a)' /\ Settled(a)'
    <3>1. Of(a)' = Of(a) /\ OpenOrders(a)' = OpenOrders(a)
      BY <1>2 DEF Of, OpenOrders
    <3>2. \A x \in Of(a) : (OrderOK(x)' <=> OrderOK(x)) /\ (MayComplete(x)' <=> MayComplete(x))
      BY <1>2 DEF OrderOK, MayComplete
    <3>3. Alone(a) => Alone(a)'
      BY <1>2, <1>5, <3>1, <3>2 DEF Alone
    <3>4. Settled(a) => Settled(a)'
      BY <1>2, <3>1, <3>2 DEF Settled, LoansOK
    <3> QED
      BY <1>3, <3>3, <3>4
  <2>3. CASE calls[c].kind = "webhook"
    <3>1. Goto(c, "store")
      BY <1>5, <2>3 DEF Finish
    <3>2. PICK new \in CallState :
             calls' = [calls EXCEPT ![c] = new] /\ Kept(new, call) /\ new.pc = "store"
      BY <1>1, <3>1, GotoIs DEF PC
    <3>3. new.app = a /\ new.order = o
      BY <1>1, <3>2 DEF Kept
    <3>4. a \notin overlapped => Phase(new)'
      BY <1>5, <2>2, <3>2, <3>3 DEF Phase, Settled, Paying
    <3> QED
      BY <1>1, <1>2, <1>3, <2>1, <2>2, <3>2, <3>3, <3>4, HandlerSerial
  <2>4. CASE calls[c].kind # "webhook"
    <3>1. calls' = [calls EXCEPT ![c] = Idle] /\ Idle.app # a
      BY <1>5, <2>4, IdleOK DEF Finish, Answer, IInv, PayoutsAssumption
    <3> QED
      BY <1>1, <1>2, <1>3, <2>1, <2>2, <3>1, IdleOK, HandlerSerial
  <2> QED
    BY <2>3, <2>4
<1> QED
  BY <1>1, <1>4, <1>5 DEF Load

LEMMA ReadSerial ==
  ASSUME IInv, SerialOK, NEW c \in Call, ReadApplication(c)
  PROVE  SerialOK'
<1>1. PICK call \in CallState, a \in Application, o \in Order :
         /\ call = calls[c] /\ a = call.app /\ o = call.order /\ CallOK(call)
         /\ call.pc = "read"
  BY DEF ReadApplication, IInv, TypeOK, CallsOK, CallOK, WorkOK
<1>2. PICK pc \in {"record", "post"} :
         Goto(c, pc) /\ (pc = "record" <=> Paid(a))
  BY <1>1 DEF ReadApplication
<1>3. UNCHANGED <<state, orders, payout, loans, counter, credited, processed, ignored,
                  overlapped>>
  BY <1>2 DEF ReadApplication, application, tables, Goto, books
<1>4. PICK new \in CallState :
         calls' = [calls EXCEPT ![c] = new] /\ Kept(new, call) /\ new.pc = pc
  BY <1>1, <1>2, GotoIs DEF PC
<1>5. CallOK(new) /\ new.app = a
  BY <1>1, <1>2, <1>4 DEF CallOK, WorkOK, Kept, Paying, Paid, IInv, Credits
<1>6. /\ call.kind # "cash"
      /\ a \notin overlapped =>
            Phase(call) /\ Alone(a) /\ Working(a) = {c} /\ state[a] = "approved"
  BY <1>1, AtWork DEF Phase, CallOK, WorkOK
<1>7. a \notin overlapped => Phase(new)
  BY <1>1, <1>2, <1>4, <1>6 DEF Phase, Kept, Paid, InHand, Paying
<1> QED
  BY <1>1, <1>3, <1>4, <1>5, <1>6, <1>7, LocalSerial

\* A handler that failed has its application counted as overlapped.
LEMMA FailSerial ==
  ASSUME IInv, SerialOK, NEW c \in Call, Fail(c) \/ Die(c)
  PROVE  SerialOK'
<1>1. PICK a \in Application : a = calls[c].app /\ calls[c].pc # "idle"
  BY DEF Fail, Die, IInv, CallsOK, CallOK, WorkOK
<1>2. /\ UNCHANGED <<state, orders, payout, loans, counter, credited, processed, ignored>>
      /\ overlapped' = overlapped \cup {a}
  BY <1>1 DEF Fail, Die, application, tables, books
<1>3. PICK new \in CallState :
         calls' = [calls EXCEPT ![c] = new] /\ CallOK(new) /\ new.app \in {a, NoApplication}
  <2>1. CASE Fail(c)
    BY <1>1, <2>1, ThrowIs, IdleOK DEF Fail, Kept
  <2>2. CASE Die(c)
    BY <2>2, IdleOK DEF Die
  <2> QED
    BY <2>1, <2>2
<1> QED
  BY <1>1, <1>2, <1>3, LocalSerial

LEMMA StoreSerial ==
  ASSUME IInv, SerialOK, NEW c \in Call, StoreProcessedWebhookEvent(c)
  PROVE  SerialOK'
<1>1. PICK a \in Application, o \in Order :
         a = calls[c].app /\ o = calls[c].order /\ orders[o].app = a /\ calls[c].pc = "store"
  BY DEF StoreProcessedWebhookEvent, IInv, CallsOK, CallOK, WorkOK
<1>2. /\ UNCHANGED <<state, orders, payout, loans, counter, ignored, overlapped>>
      /\ processed' = processed \cup {o} /\ calls' = [calls EXCEPT ![c] = Idle]
  BY <1>1 DEF StoreProcessedWebhookEvent, Answer, application, books
<1>3. \A b \in Application \ {a} : SameRows(b)
  BY <1>1, <1>2, Others
<1>4. ASSUME a \notin overlapped
      PROVE  Working(a) = {c} /\ Alone(a)' /\ Settled(a)'
  <2>1. /\ Working(a) = {c} /\ Alone(a) /\ Settled(a)
        /\ orders[o].status \in {"posted", "failed"} \/ o \in ignored
    BY <1>1, <1>4, AtWork DEF Phase, Settled, InHand, Paying
  <2>2. Alone(a)'
    BY <1>2, <2>1 DEF Alone, Of, OpenOrders, OpenStatus, MayComplete
  <2>3. Settled(a)'
    BY <1>2, <2>1 DEF Settled, LoansOK, Of, OrderOK, MayComplete
  <2> QED
    BY <2>1, <2>2, <2>3
<1> QED
  BY <1>1, <1>2, <1>3, <1>4, IdleOK, HandlerSerial DEF IInv, PayoutsAssumption

LEMMA OrderKept ==
  ASSUME NEW x \in Order, orders'[x] = orders[x], payout'[x] = payout[x], OrderOK(x),
         state'[orders[x].app] = state[orders[x].app]
  PROVE  OrderOK(x)'
  BY DEF OrderOK, MayComplete

LEMMA InsertSerial ==
  ASSUME IInv, SerialOK, NEW c \in Call, InsertOrder(c)
  PROVE  SerialOK'
<1>1. PICK a \in Application, call \in CallState :
         /\ call = calls[c] /\ a = call.app /\ CallOK(call) /\ call.pc = "insert"
  BY DEF InsertOrder, IInv, TypeOK, CallsOK, CallOK, WorkOK
<1>2. UNCHANGED <<state, payout, loans, counter, credited, processed, ignored, overlapped>>
  BY DEF InsertOrder, Answer, application, books
<1>3. a \notin overlapped =>
         /\ Phase(call) /\ Alone(a) /\ Working(a) = {c} /\ Settled(a)
         /\ state[a] = "approved" /\ OpenOrders(a) = {}
  BY <1>1, AtWork DEF Phase, Settled, InHand, Paying
<1>4. CASE Answer(c) /\ UNCHANGED orders
  <2>1. calls' = [calls EXCEPT ![c] = Idle] /\ Idle.app # a
    BY <1>4, IdleOK DEF Answer, IInv, PayoutsAssumption
  <2> QED
    BY <1>1, <1>2, <1>3, <1>4, <2>1, IdleOK, LocalSerial
<1>5. ASSUME NEW o \in Order, orders[o].status = "absent",
             NEW cents \in BOOLEAN,
             orders' = [orders EXCEPT ![o] = NewOrder(a, cents)],
             calls' = [calls EXCEPT ![c].pc = "send", ![c].order = o]
      PROVE  SerialOK'
  <2>1. PICK row : row = NewOrder(a, cents)
    OBVIOUS
  <2>2. row.status = "created" /\ row.app = a /\ ~row.loan
    BY <2>1 DEF NewOrder, NoRow
  <2>3. orders'[o] = row /\ \A x \in Order \ {o} : orders'[x] = orders[x]
    BY <1>5, <2>1 DEF IInv, TypeOK
  <2>4. PICK new : new = [call EXCEPT !.pc = "send", !.order = o]
    OBVIOUS
  <2>5. new \in CallState /\ new.pc = "send" /\ new.order = o /\ new.app = a
    BY <1>1, <2>4 DEF CallState, PC
  <2>6. calls' = [calls EXCEPT ![c] = new]
    BY <1>1, <1>5, <2>4
  <2>7. payout[o] = "none" /\ orders[o].app = NoApplication /\ o \notin processed
    BY <1>5 DEF IInv, RowsOK, RowOK, Exists, NoRow
  <2>8. \A b \in Application \ {a} : SameRows(b)
    BY <1>2, <2>2, <2>3, <2>7, Others
  <2>9. Of(a)' = Of(a) \cup {o} /\ o \notin Of(a)
    BY <2>2, <2>3, <2>7 DEF Of, IInv, PayoutsAssumption
  <2>10. ASSUME a \notin overlapped PROVE Alone(a)' /\ Phase(new)'
    <3>1. OpenOrders(a)' = {o}
      BY <1>3, <2>2, <2>3, <2>10 DEF OpenOrders, OpenStatus
    <3>2. ~MayComplete(o)' /\ \A x \in Of(a) : MayComplete(x)' <=> MayComplete(x)
      BY <1>2, <2>7 DEF MayComplete
    <3>3. Alone(a)'
      BY <1>2, <1>3, <2>3, <2>7, <2>9, <2>10, <3>1, <3>2 DEF Alone, Of
    <3>4. \A x \in Of(a) : OrderOK(x)'
      BY <1>2, <1>3, <2>3, <2>9, <2>10, OrderKept DEF Settled, Of
    <3>5. LoansOK(a)' /\ state'[a] = "approved"
      BY <1>2, <1>3, <2>10 DEF Settled, LoansOK
    <3>6. Phase(new)'
      BY <2>2, <2>3, <2>5, <2>9, <3>4, <3>5 DEF Phase, InHand, Paying
    <3> QED
      BY <3>3, <3>6
  <2> QED
    BY <1>1, <1>2, <1>3, <2>5, <2>6, <2>8, <2>10, HandlerSerial
<1> QED
  BY <1>1, <1>4, <1>5 DEF InsertOrder

LEMMA IntentSerial ==
  ASSUME IInv, SerialOK, NEW c \in Call, CreatePayoutIntent(c)
  PROVE  SerialOK'
<1>1. PICK call \in CallState, a \in Application, o \in Order :
         /\ call = calls[c] /\ a = call.app /\ o = call.order /\ CallOK(call) /\ Exists(o)
         /\ call.pc = "send" /\ orders[o].app = a
  BY DEF CreatePayoutIntent, IInv, TypeOK, CallsOK, CallOK, WorkOK
<1>2. UNCHANGED <<state, orders, loans, counter, credited, processed, ignored>>
  BY DEF CreatePayoutIntent, application, books
<1>3. \A x \in Order \ {o} : payout'[x] = payout[x]
  BY <1>1 DEF CreatePayoutIntent, IInv, TypeOK
<1>4. \A b \in Application \ {a} : SameRows(b)
  BY <1>1, <1>2, <1>3, Others
<1>5. ASSUME NEW outcome \in {"open", "completed", "failed"},
             payout' = [payout EXCEPT ![o] = outcome],
             calls' = [calls EXCEPT ![c].pc = "update", ![c].report = outcome],
             UNCHANGED overlapped
      PROVE  SerialOK'
  <2>1. PICK new : new = [call EXCEPT !.pc = "update", !.report = outcome]
    OBVIOUS
  <2>2. new \in CallState /\ Kept(new, call) /\ new.pc = "update" /\ new.report = outcome
    BY <2>1 DEF CallState, Kept, PC, Outcome
  <2>3. calls' = [calls EXCEPT ![c] = new]
    BY <1>1, <1>5, <2>1
  <2>4. payout'[o] = outcome
    BY <1>5 DEF IInv, TypeOK
  <2>5. ASSUME a \notin overlapped PROVE Working(a) = {c} /\ Alone(a)' /\ Phase(new)'
    <3>1. /\ Phase(call) /\ Alone(a) /\ Working(a) = {c} /\ LoansOK(a) /\ state[a] = "approved"
          /\ orders[o].status = "created" /\ ~orders[o].loan
          /\ \A x \in Of(a) : x # o => OrderOK(x)
      BY <1>1, <2>5, AtWork DEF Phase
    <3>2. o \in OpenOrders(a) /\ o \in Of(a) /\ Of(a)' = Of(a) /\ OpenOrders(a)' = OpenOrders(a)
      BY <1>1, <1>2, <3>1 DEF OpenOrders, OpenStatus, Of
    <3>3. \A x \in Of(a) \ {o} : ~MayComplete(x) /\ payout'[x] = payout[x] /\ OrderOK(x)
      <4> SUFFICES ASSUME NEW x \in Of(a) \ {o} PROVE ~MayComplete(x)
        BY <1>3, <3>1 DEF Of
      <4>1. x \notin OpenOrders(a) /\ OrderOK(x) /\ orders[x].app = a
        BY <3>1, <3>2 DEF Alone, Of
      <4> QED
        BY <3>1, <4>1 DEF OrderOK, OpenOrders, OpenStatus, Of, MayComplete
    <3>4. Alone(a)'
      BY <1>2, <3>1, <3>2, <3>3 DEF Alone, MayComplete
    <3>5. \A x \in Of(a) \ {o} : OrderOK(x)'
      BY <1>2, <3>3, OrderKept DEF Of
    <3>6. LoansOK(a)'
      BY <1>2, <3>1 DEF LoansOK
    <3>7. new.app = a /\ new.order = o
      BY <1>1, <2>2 DEF Kept
    <3>8. Phase(new)'
      BY <1>2, <2>2, <2>4, <3>1, <3>2, <3>5, <3>6, <3>7 DEF Phase, InHand, Paying
    <3> QED
      BY <3>1, <3>4, <3>8
  <2>6. new.app = a
    BY <1>1, <2>2 DEF Kept
  <2> QED
    BY <1>1, <1>4, <1>5, <2>2, <2>3, <2>5, <2>6, HandlerSerial
<1>6. ASSUME calls' = [calls EXCEPT ![c].pc = "catch"], overlapped' = overlapped \cup {a}
      PROVE  SerialOK'
  <2>1. PICK new : new = [call EXCEPT !.pc = "catch"]
    OBVIOUS
  <2>2. new \in CallState /\ Kept(new, call)
    BY <2>1 DEF CallState, Kept, PC
  <2>3. calls' = [calls EXCEPT ![c] = new] /\ new.app = a
    BY <1>1, <1>6, <2>1, <2>2 DEF Kept
  <2> QED
    BY <1>1, <1>4, <1>6, <2>2, <2>3, HandlerSerial
<1> QED
  BY <1>1, <1>5, <1>6 DEF CreatePayoutIntent

LEMMA CatchSerial ==
  ASSUME IInv, SerialOK, NEW c \in Call, CatchFailed(c)
  PROVE  SerialOK'
<1>1. PICK a \in Application, o \in Order :
         a = calls[c].app /\ o = calls[c].order /\ orders[o].app = a /\ calls[c].pc = "catch"
  BY DEF CatchFailed, IInv, CallsOK, CallOK, WorkOK
<1>2. /\ UNCHANGED <<state, payout, loans, counter, credited, processed, ignored, overlapped>>
      /\ calls' = [calls EXCEPT ![c] = Idle]
      /\ orders'[o].app = a /\ \A x \in Order \ {o} : orders'[x] = orders[x]
  BY <1>1 DEF CatchFailed, Answer, application, IInv, TypeOK, Row, books
<1>3. \A b \in Application \ {a} : SameRows(b)
  BY <1>1, <1>2, Others
<1>4. a \in overlapped
  BY <1>1, AtWork DEF Phase
<1> QED
  BY <1>1, <1>2, <1>3, <1>4, IdleOK, HandlerSerial

\* The order of a handler is written; then the handler is done with it, or it posts.
LEMMA WriteSerial ==
  ASSUME IInv, SerialOK, NEW c \in Call, calls[c].pc \notin {"idle", "resume", "insert", "post", "mark"},
         NEW o \in Order, o = calls[c].order, NEW a \in Application, a = calls[c].app,
         NEW row \in Row, orders' = [orders EXCEPT ![o] = row], row.app = orders[o].app,
         \/ Answer(c)
         \/ Finish(c)
         \/ (Finalize(c) /\ payout[calls[c].order] = "completed"),
         UNCHANGED <<state, payout, loans, counter, credited, processed, ignored>>,
         a \notin overlapped =>
            /\ row.status \in OpenStatus => orders[o].status \in OpenStatus
            /\ LoansOK(a)
            /\ \/ (Finalize(c) /\ row.status = "completed" /\ ~row.loan /\ state[a] = "approved")
               \/ (Answer(c) /\ OrderOK(o)')
               \/ (Finish(c) /\ OrderOK(o)' /\
                   (calls[c].kind = "webhook" => row.status \in {"posted", "failed"}))
  PROVE  SerialOK'
<1>1. PICK call \in CallState : call = calls[c] /\ CallOK(call) /\ orders[o].app = a
  BY DEF IInv, TypeOK, CallsOK, CallOK, WorkOK
<1>2. /\ orders'[o] = row /\ \A x \in Order \ {o} : orders'[x] = orders[x]
      /\ UNCHANGED overlapped
  BY EndIs DEF IInv, TypeOK
<1>3. \A b \in Application \ {a} : SameRows(b)
  BY <1>1, <1>2, Others
<1>4. Of(a)' = Of(a) /\ o \in Of(a)
  BY <1>1, <1>2 DEF Of
<1>5. ASSUME a \notin overlapped
      PROVE  /\ Working(a) = {c} /\ Alone(a)' /\ LoansOK(a)'
             /\ \A x \in Of(a) \ {o} : OrderOK(x)'
  <2>1. Working(a) = {c} /\ Alone(a) /\ Phase(call) /\ \A x \in Of(a) \ {o} : OrderOK(x)
    BY <1>1, <1>5, AtWork DEF Phase
  <2>2. OpenOrders(a)' \subseteq OpenOrders(a)
    BY <1>1, <1>2, <1>5 DEF OpenOrders
  <2>3. \A x \in Of(a) \cap (processed \ ignored) : orders'[x].status \notin OpenStatus
    BY <1>1, <1>2, <1>5, <2>1 DEF Alone, Of
  <2>4. Alone(a)'
    BY <1>4, <2>1, <2>2, <2>3 DEF Alone, MayComplete
  <2>5. \A x \in Of(a) \ {o} : OrderOK(x)'
    BY <1>2, <2>1, OrderKept DEF Of
  <2>6. LoansOK(a)'
    BY <1>5 DEF LoansOK
  <2> QED
    BY <2>1, <2>4, <2>5, <2>6
<1>6. CASE a \in overlapped
  <2>1. PICK new \in CallState :
           calls' = [calls EXCEPT ![c] = new] /\ (new = Idle \/ Kept(new, call))
    BY <1>1, EndIs
  <2>2. new.app \in {a, NoApplication}
    BY <1>1, <2>1, IdleOK DEF Kept
  <2> QED
    BY <1>1, <1>2, <1>3, <1>6, <2>1, <2>2, HandlerSerial
<1>7. CASE a \notin overlapped /\ Finalize(c) /\ row.status = "completed" /\ ~row.loan
           /\ state[a] = "approved"
  <2>1. PICK new : new = [call EXCEPT !.pc = "read", !.report = "none", !.posted = FALSE]
    OBVIOUS
  <2>2. new \in CallState /\ Kept(new, call) /\ new.pc = "read"
    BY <2>1 DEF CallState, Kept, PC
  <2>3. calls' = [calls EXCEPT ![c] = new] /\ new.app = a /\ new.order = o
    BY <1>1, <1>7, <2>1, <2>2 DEF Finalize, Kept
  <2>4. Phase(new)'
    BY <1>2, <1>4, <1>5, <1>7, <2>2, <2>3 DEF Phase, InHand, Paying
  <2> QED
    BY <1>1, <1>2, <1>3, <1>5, <1>7, <2>2, <2>3, <2>4, HandlerSerial
<1>8. CASE a \notin overlapped /\ OrderOK(o)' /\ Answer(c)
  <2>1. calls' = [calls EXCEPT ![c] = Idle] /\ Idle.app # a
    BY <1>8, IdleOK DEF Answer, IInv, PayoutsAssumption
  <2>2. Settled(a)'
    BY <1>4, <1>5, <1>8 DEF Settled
  <2> QED
    BY <1>1, <1>2, <1>3, <1>5, <1>8, <2>1, <2>2, IdleOK, HandlerSerial
<1>9. CASE a \notin overlapped /\ OrderOK(o)' /\ Goto(c, "store")
           /\ row.status \in {"posted", "failed"}
  <2>1. PICK new \in CallState :
           calls' = [calls EXCEPT ![c] = new] /\ Kept(new, call) /\ new.pc = "store"
    BY <1>1, <1>9, GotoIs DEF PC
  <2>2. new.app = a /\ new.order = o
    BY <1>1, <2>1 DEF Kept
  <2>3. Phase(new)'
    BY <1>2, <1>4, <1>5, <1>9, <2>1, <2>2 DEF Phase, InHand, Paying
  <2> QED
    BY <1>1, <1>2, <1>3, <1>5, <1>9, <2>1, <2>2, <2>3, HandlerSerial
<1> QED
  BY <1>6, <1>7, <1>8, <1>9 DEF Finish

\* A write the unique index refuses is one of two handlers.
LEMMA RefusedSerial ==
  ASSUME IInv, SerialOK, NEW c \in Call, calls[c].pc # "idle", Throw(c),
         UNCHANGED <<state, orders, payout, loans, counter, credited, processed, ignored,
                     overlapped>>,
         calls[c].app \in overlapped
  PROVE  SerialOK'
<1>1. PICK a \in Application : a = calls[c].app
  BY DEF IInv, CallsOK, CallOK, WorkOK
<1>2. PICK new \in CallState :
         calls' = [calls EXCEPT ![c] = new] /\ CallOK(new) /\ new.app \in {a, NoApplication}
  BY <1>1, ThrowIs, IdleOK DEF Kept
<1> QED
  BY <1>1, <1>2, LocalSerial

\* The one open order of an application may stay open.
LEMMA AdmittedAlone ==
  ASSUME NEW o \in Order, Alone(orders[o].app), orders[o].status \in OpenStatus, NEW s
  PROVE  Admitted(o, s)
  BY DEF Admitted, Alone, OpenOrders

LEMMA UpdateSerial ==
  ASSUME IInv, SerialOK, NEW c \in Call, UpdateInitiated(c)
  PROVE  SerialOK'
<1>1. PICK o \in Order, a \in Application, s \in {"pending", "completed", "failed"} :
         /\ o = calls[c].order /\ s = NormalizePayoutStatus(calls[c].report)
         /\ a = calls[c].app /\ orders[o].app = a
         /\ s = "completed" => payout[o] = "completed"
         /\ calls[c].pc = "update"
         /\ s = "pending" <=> calls[c].report = "open"
         /\ s # "pending" => s = calls[c].report
  BY DEF UpdateInitiated, NormalizePayoutStatus, IInv, CallsOK, CallOK, WorkOK
<1>2. a \notin overlapped =>
         /\ Alone(a) /\ LoansOK(a) /\ state[a] = "approved"
         /\ orders[o].status = "created" /\ ~orders[o].loan
         /\ payout[o] # "none" /\ (s # "pending" => payout[o] = s)
  BY <1>1, AtWork DEF Phase
<1>3. CASE Admitted(o, s)
  <2>1. PICK row : row = [orders[o] EXCEPT !.status = s, !.ref = TRUE]
    OBVIOUS
  <2>2. /\ row \in Row /\ row.status = s /\ row.app = a /\ row.loan = orders[o].loan
        /\ row.ref
    BY <1>1, <2>1, ZenonT(40) DEF IInv, TypeOK, Row, Status
  <2>3. orders' = [orders EXCEPT ![o] = row]
    BY <1>1, <1>3, <2>1 DEF UpdateInitiated
  <2>4. UNCHANGED <<state, payout, loans, counter, credited, processed, ignored>>
    BY <1>1, <1>3 DEF UpdateInitiated, application, books
  <2>5. IF s = "completed" THEN Finalize(c) ELSE Answer(c)
    BY <1>1, <1>3 DEF UpdateInitiated
  <2>6. a \notin overlapped => (s # "completed" => OrderOK(o)')
    BY <1>1, <1>2, <2>2, <2>3, <2>4 DEF OrderOK, IInv, TypeOK
  <2>7. a \notin overlapped =>
           /\ row.status \in OpenStatus => orders[o].status \in OpenStatus
           /\ LoansOK(a)
           /\ \/ (Finalize(c) /\ row.status = "completed" /\ ~row.loan /\ state[a] = "approved")
              \/ (Answer(c) /\ OrderOK(o)')
    BY <1>2, <2>2, <2>5, <2>6 DEF OpenStatus
  <2>8. Answer(c) \/ (Finalize(c) /\ payout[calls[c].order] = "completed")
    BY <1>1, <2>5
  <2> QED
    BY <1>1, <2>2, <2>3, <2>4, <2>7, <2>8, WriteSerial
<1>4. CASE ~Admitted(o, s)
  <2>1. a \in overlapped
    BY <1>1, <1>2, <1>4, AdmittedAlone DEF OpenStatus
  <2> QED
    BY <1>1, <1>4, <2>1, RefusedSerial DEF UpdateInitiated, application, books
<1> QED
  BY <1>3, <1>4

LEMMA ApplySerial ==
  ASSUME IInv, SerialOK, NEW c \in Call, Apply(c)
  PROVE  SerialOK'
<1>1. PICK o \in Order, a \in Application, s \in Outcome \cup {"expired", "posted"} :
         /\ o = calls[c].order /\ s = Applied(calls[c])
         /\ a = calls[c].app /\ orders[o].app = a /\ calls[c].pc = "apply"
         /\ s \in {"completed", "posted"} => payout[o] = "completed"
  BY DEF Apply, Applied, IInv, CallsOK, CallOK, WorkOK, Outcome
<1>2. a \notin overlapped =>
         /\ Alone(a) /\ LoansOK(a) /\ OrderOK(o)
         /\ s = "posted" => orders[o].status = "posted"
         /\ s = "completed" => orders[o].status = "pending" /\ payout[o] = "completed"
         /\ s = "failed" => payout[o] = "failed"
         /\ s # "expired"
  <2> SUFFICES ASSUME a \notin overlapped
               PROVE  /\ Alone(a) /\ LoansOK(a) /\ OrderOK(o)
                      /\ s = "posted" => orders[o].status = "posted"
                      /\ s = "completed" => orders[o].status = "pending" /\ payout[o] = "completed"
                      /\ s = "failed" => payout[o] = "failed"
                      /\ s # "expired"
    OBVIOUS
  <2>1. Alone(a) /\ Phase(calls[c])
    BY <1>1, AtWork
  <2>2. /\ LoansOK(a) /\ OrderOK(o)
        /\ calls[c].report \in Outcome /\ payout[o] = calls[c].report
        /\ \/ calls[c].kind = "webhook" /\ calls[c].posted = (orders[o].status = "posted")
           \/ calls[c].kind = "poll" /\ orders[o].status = "pending"
    BY <1>1, <2>1 DEF Phase, InHand, Paying, Of
  <2>3. /\ s = "posted" => orders[o].status = "posted"
        /\ s = "failed" => payout[o] = "failed"
        /\ s # "expired"
    BY <1>1, <2>2 DEF Applied, Outcome
  <2>4. s = "completed" => orders[o].status = "pending"
    BY <1>1, <2>2 DEF Applied, Outcome, OrderOK
  <2> QED
    BY <1>1, <2>1, <2>2, <2>3, <2>4
<1>3. CASE Admitted(o, s)
  <2>1. PICK row : row = [orders[o] EXCEPT !.status = s, !.ref = TRUE]
    OBVIOUS
  <2>2. /\ row \in Row /\ row.status = s /\ row.app = a /\ row.loan = orders[o].loan
        /\ row.ref
    BY <1>1, <2>1, ZenonT(40) DEF IInv, TypeOK, Row, Status, Outcome
  <2>3. orders' = [orders EXCEPT ![o] = row] /\ orders'[o] = row
    BY <1>1, <1>3, <2>1 DEF Apply, IInv, TypeOK
  <2>4. UNCHANGED <<state, payout, loans, counter, credited, processed, ignored>>
    BY <1>1, <1>3 DEF Apply, application, books
  <2>5. IF s = "completed" \/ (s = "posted" /\ ~orders[o].loan) THEN Finalize(c) ELSE Finish(c)
    BY <1>1, <1>3 DEF Apply
  <2>6. \/ Finish(c)
        \/ (Finalize(c) /\ payout[calls[c].order] = "completed")
    BY <1>1, <2>5
  <2>7. ASSUME a \notin overlapped
        PROVE  /\ row.status \in OpenStatus => orders[o].status \in OpenStatus
               /\ LoansOK(a)
               /\ \/ (Finalize(c) /\ row.status = "completed" /\ ~row.loan /\ state[a] = "approved")
                  \/ (Finish(c) /\ OrderOK(o)' /\
                      (calls[c].kind = "webhook" => row.status \in {"posted", "failed"}))
    <3>1. CASE s = "completed"
      <4>1. orders[o].status = "pending" /\ ~orders[o].loan /\ state[a] = "approved"
        BY <1>1, <1>2, <2>7, <3>1 DEF OrderOK, MayComplete
      <4> QED
        BY <1>2, <2>2, <2>5, <2>7, <3>1, <4>1 DEF OpenStatus
    <3>2. CASE s = "posted"
      <4>1. orders[o].loan /\ orders[o].status = "posted" /\ payout[o] = "completed"
            /\ state[a] = "disbursed"
        BY <1>1, <1>2, <2>7, <3>2 DEF OrderOK
      <4>2. OrderOK(o)'
        BY <2>2, <2>3, <2>4, <3>2, <4>1 DEF OrderOK
      <4> QED
        BY <1>2, <2>2, <2>5, <2>7, <3>2, <4>1, <4>2 DEF OpenStatus
    <3>3. CASE s = "failed"
      <4>1. OrderOK(o)'
        BY <1>2, <2>2, <2>3, <2>4, <2>7, <3>3 DEF OrderOK
      <4> QED
        BY <1>2, <2>2, <2>5, <2>7, <3>3, <4>1 DEF OpenStatus
    <3> QED
      BY <1>1, <1>2, <2>7, <3>1, <3>2, <3>3 DEF Outcome
  <2> QED
    BY <1>1, <2>2, <2>3, <2>4, <2>6, <2>7, WriteSerial
<1>4. CASE ~Admitted(o, s)
  <2>1. a \in overlapped
    <3> SUFFICES ASSUME a \notin overlapped PROVE Admitted(o, s)
      BY <1>4
    <3>1. CASE s = "completed"
      BY <1>1, <1>2, <3>1, AdmittedAlone DEF OpenStatus
    <3>2. CASE s # "completed"
      BY <1>1, <3>2 DEF Admitted, OpenStatus, Outcome
    <3> QED
      BY <3>1, <3>2
  <2> QED
    BY <1>1, <1>4, <2>1, RefusedSerial DEF Apply, application, books
<1> QED
  BY <1>3, <1>4

LEMMA RecordSerial ==
  ASSUME IInv, SerialOK, NEW c \in Call, RecordPosted(c)
  PROVE  SerialOK'
<1>1. PICK o \in Order, a \in Application :
         /\ o = calls[c].order /\ a = calls[c].app /\ orders[o].app = a
         /\ payout[o] = "completed" /\ calls[c].pc = "record"
  BY DEF RecordPosted, IInv, CallsOK, CallOK, WorkOK, Paying
<1>2. PICK row : row = [orders[o] EXCEPT !.status = "posted", !.loan = TRUE]
  OBVIOUS
<1>3. row \in Row /\ row.status = "posted" /\ row.app = a /\ row.loan
  BY <1>1, <1>2, ZenonT(40) DEF IInv, TypeOK, Row, Status
<1>4. orders' = [orders EXCEPT ![o] = row] /\ orders'[o] = row
  BY <1>1, <1>2 DEF RecordPosted, IInv, TypeOK
<1>5. UNCHANGED <<state, payout, loans, counter, credited, processed, ignored>> /\ Finish(c)
  BY DEF RecordPosted, application, books
<1>6. a \notin overlapped => LoansOK(a) /\ state[a] = "disbursed"
  BY <1>1, AtWork DEF Phase
<1>7. a \notin overlapped => OrderOK(o)'
  BY <1>1, <1>3, <1>4, <1>5, <1>6 DEF OrderOK
<1>8. a \notin overlapped =>
         /\ row.status \in OpenStatus => orders[o].status \in OpenStatus
         /\ LoansOK(a)
         /\ Finish(c) /\ OrderOK(o)' /\
            (calls[c].kind = "webhook" => row.status \in {"posted", "failed"})
  BY <1>3, <1>5, <1>6, <1>7 DEF OpenStatus
<1> QED
  BY <1>1, <1>3, <1>4, <1>5, <1>8, WriteSerial

LEMMA PostSerial ==
  ASSUME IInv, SerialOK, NEW c \in Call, PostLoan(c)
  PROVE  SerialOK'
<1>1. PICK call \in CallState, a \in Application :
         /\ call = calls[c] /\ CallOK(call) /\ call.pc = "post" /\ a = call.app
  BY DEF PostLoan, IInv, TypeOK, CallsOK, CallOK, WorkOK
<1>2. UNCHANGED <<state, orders, payout, processed, ignored, overlapped>>
  BY DEF PostLoan, application, Goto
<1>3. /\ loans'[a] + counter'[a] = (loans[a] + counter[a]) + 1
      /\ \A b \in Application \ {a} : loans'[b] = loans[b] /\ counter'[b] = counter[b]
  <2>1. loans \in [Application -> 0..MaxLoans] /\ counter \in [Application -> 0..MaxLoans]
        /\ MaxLoans \in Nat
    BY DEF IInv, TypeOK, PayoutsAssumption
  <2>2. CASE call.kind = "cash"
    BY <1>1, <2>1, <2>2 DEF PostLoan
  <2>3. CASE call.kind # "cash"
    BY <1>1, <2>1, <2>3 DEF PostLoan
  <2> QED
    BY <2>2, <2>3
<1>4. PICK new \in CallState :
         calls' = [calls EXCEPT ![c] = new] /\ Kept(new, call) /\ new.pc = "mark"
  BY <1>1, GotoIs DEF PostLoan, PC
<1>5. new.app = a /\ new.order = call.order /\ new.kind = call.kind
  BY <1>1, <1>4 DEF Kept
<1>6. \A b \in Application \ {a} : SameRows(b)
  BY <1>2, <1>3 DEF SameRows
<1>7. ASSUME a \notin overlapped PROVE Working(a) = {c} /\ Alone(a)' /\ Phase(new)'
  <2>1. /\ Working(a) = {c} /\ Alone(a) /\ Phase(call) /\ LoansOK(a) /\ state[a] = "approved"
        /\ \A x \in Of(a) : OrderOK(x) \/ x = call.order
    BY <1>1, <1>7, AtWork DEF Phase, Paying
  <2>2. loans'[a] + counter'[a] = 1
    BY <1>3, <2>1 DEF LoansOK
  <2>3. Alone(a)' /\ Of(a)' = Of(a)
    BY <1>2, <2>1 DEF Alone, Of, OpenOrders, MayComplete
  <2>4. \A x \in Of(a) : OrderOK(x)' \/ x = call.order
    BY <1>2, <2>1, OrderKept DEF Of
  <2>5. \A x \in Of(a) : MayComplete(x)' <=> MayComplete(x)
    BY <1>2 DEF MayComplete
  <2>6. call.kind # "cash" => orders[call.order].status = "completed" /\ ~orders[call.order].loan
    BY <1>1, <2>1 DEF Phase
  <2>7. call.kind = "cash" => \A x \in Of(a) : ~MayComplete(x)
    BY <1>1, <2>1 DEF Phase
  <2>8. Phase(new)'
    BY <1>2, <1>4, <1>5, <2>1, <2>2, <2>3, <2>4, <2>5, <2>6, <2>7 DEF Phase, InHand, Paying
  <2> QED
    BY <2>1, <2>3, <2>8
<1> QED
  BY <1>1, <1>2, <1>4, <1>5, <1>6, <1>7, HandlerSerial

LEMMA MarkSerial ==
  ASSUME IInv, SerialOK, NEW c \in Call, MarkDisbursed(c)
  PROVE  SerialOK'
<1>1. PICK call \in CallState, a \in Application :
         /\ call = calls[c] /\ CallOK(call) /\ call.pc = "mark" /\ a = call.app
         /\ call.kind = "cash" => call.order = NoOrder
         /\ call.kind # "cash" => /\ call.order \in Order /\ orders[call.order].app = a
                                 /\ payout[call.order] = "completed"
  BY DEF MarkDisbursed, IInv, TypeOK, CallsOK, CallOK, WorkOK, Paying
<1>2. UNCHANGED <<orders, payout, loans, counter, processed, ignored, overlapped>>
  BY DEF MarkDisbursed, Goto, Answer
<1>3. a \notin overlapped =>
        /\ Working(a) = {c} /\ Alone(a) /\ loans[a] + counter[a] = 1 /\ state[a] = "approved"
        /\ \A x \in Of(a) : OrderOK(x) \/ x = call.order
        /\ call.kind # "cash" =>
              orders[call.order].status = "completed" /\ ~orders[call.order].loan
        /\ call.kind = "cash" => \A x \in Of(a) : ~MayComplete(x)
  BY <1>1, AtWork DEF Phase, Paying
<1>4. CASE state[a] = "deleted" /\ Answer(c) /\ UNCHANGED <<application, credited>>
  BY <1>1, <1>2, <1>3, <1>4, IdleOK, LocalSerial DEF Answer, application
<1>5. CASE /\ Review!Move(a, "disbursed")
           /\ IF call.kind = "cash" THEN Answer(c) ELSE Goto(c, "record")
  <2>1. state'[a] = "disbursed" /\ \A b \in Application \ {a} : state'[b] = state[b]
    BY <1>5 DEF Review!Move, IInv, TypeOK
  <2>2. \A b \in Application \ {a} : SameRows(b)
    BY <1>2, <2>1 DEF SameRows
  <2>3. ASSUME a \notin overlapped
        PROVE  /\ Alone(a)' /\ LoansOK(a)' /\ Of(a)' = Of(a)
               /\ \A x \in Of(a) : OrderOK(x)' \/ x = call.order
    <3>1. Alone(a)' /\ Of(a)' = Of(a)
      BY <1>2, <1>3, <2>3 DEF Alone, Of, OpenOrders, MayComplete
    <3>2. \A x \in Of(a) : OrderOK(x)' \/ x = call.order
      <4> SUFFICES ASSUME NEW x \in Of(a), x # call.order PROVE OrderOK(x)'
        OBVIOUS
      <4>1. OrderOK(x)
        BY <1>3, <2>3
      <4>2. ~MayComplete(x)
        BY <1>1, <1>3, <2>3 DEF Alone, MayComplete, Of
      <4> QED
        BY <1>2, <4>1, <4>2 DEF OrderOK, MayComplete
    <3>3. LoansOK(a)'
      BY <1>2, <1>3, <2>1, <2>3 DEF LoansOK
    <3> QED
      BY <3>1, <3>2, <3>3
  <2>4. CASE call.kind = "cash"
    <3>1. calls' = [calls EXCEPT ![c] = Idle] /\ Idle.app # a
      BY <1>5, <2>4, IdleOK DEF Answer, IInv, PayoutsAssumption
    <3>2. a \notin overlapped => Settled(a)'
      BY <1>1, <2>3, <2>4 DEF Settled, Of, IInv, PayoutsAssumption
    <3> QED
      BY <1>1, <1>2, <1>3, <2>2, <2>3, <3>1, <3>2, IdleOK, HandlerSerial
  <2>5. CASE call.kind # "cash"
    <3>1. PICK new \in CallState :
             calls' = [calls EXCEPT ![c] = new] /\ Kept(new, call) /\ new.pc = "record"
      BY <1>1, <1>5, <2>5, GotoIs DEF PC
    <3>2. new.app = a /\ new.order = call.order
      BY <1>1, <3>1 DEF Kept
    <3>3. a \notin overlapped => Phase(new)'
      BY <1>2, <1>3, <2>1, <2>3, <2>5, <3>1, <3>2 DEF Phase, InHand, Paying
    <3> QED
      BY <1>1, <1>2, <1>3, <2>2, <2>3, <3>1, <3>2, <3>3, HandlerSerial
  <2> QED
    BY <2>4, <2>5
<1> QED
  BY <1>1, <1>4, <1>5 DEF MarkDisbursed

LEMMA SettleSerial ==
  ASSUME IInv, SerialOK, NEW o \in Order, Settle(o)
  PROVE  SerialOK'
<1>1. /\ payout[o] = "open"
      /\ UNCHANGED <<state, orders, processed, ignored, loans, counter, credited, calls,
                     overlapped>>
  BY DEF Settle, application, books
<1>2. PICK was \in Outcome : payout'[o] = was /\ \A x \in Order \ {o} : payout'[x] = payout[x]
  BY DEF Settle, IInv, TypeOK
<1>3. PICK a \in Application : orders[o].app = a
  BY <1>1 DEF IInv, RowsOK, RowOK
<1>4. \A b \in Application \ {a} : SameRows(b)
  BY <1>1, <1>2, <1>3, Others
<1>5. ASSUME a \notin overlapped PROVE SerialOf(a)'
  <2>1. SerialOf(a)
    BY <1>5 DEF SerialOK
  <2>2. /\ Of(a)' = Of(a) /\ Working(a)' = Working(a) /\ OpenOrders(a)' = OpenOrders(a)
        /\ LoansOK(a)' <=> LoansOK(a)
    BY <1>1 DEF Of, Working, OpenOrders, LoansOK
  <2>3. \A x \in Of(a) : MayComplete(x)' => MayComplete(x)
    BY <1>1, <1>2 DEF MayComplete, Of
  <2>4. Alone(a)'
    BY <1>1, <2>1, <2>2, <2>3 DEF SerialOf, Alone
  <2>5. ASSUME NEW x \in Of(a), OrderOK(x) PROVE OrderOK(x)'
    <3>1. CASE x = o
      <4>1. /\ orders[o].status = "pending" /\ orders[o].ref /\ ~orders[o].loan
            /\ state[orders[o].app] = "approved"
        BY <1>1, <2>5, <3>1 DEF OrderOK, MayComplete
      <4> QED
        BY <1>1, <1>2, <3>1, <4>1 DEF OrderOK, Outcome
    <3>2. CASE x # o
      BY <1>1, <1>2, <2>5, <3>2, OrderKept DEF Of
    <3> QED
      BY <3>1, <3>2
  <2>6. Settled(a) => Settled(a)'
    BY <2>2, <2>5 DEF Settled
  <2>7. ASSUME NEW d \in Working(a) PROVE Phase(calls[d])'
    <3>1. PICK call \in CallState :
             call = calls[d] /\ call.app = a /\ CallOK(call) /\ Phase(call)
      BY <2>1 DEF SerialOf, Working, IInv, TypeOK, CallsOK
    <3>2. call.pc \in {"update", "load", "apply"} => call.order \in Order
      BY <3>1 DEF CallOK, WorkOK
    <3>3. /\ call.pc = "update" => payout'[call.order] # "none"
               /\ (call.report # "open" => payout'[call.order] = call.report)
          /\ call.pc \in {"load", "apply"} => payout'[call.order] = call.report
      BY <1>1, <1>2, <3>1, <3>2 DEF Phase, Outcome
    <3>4. Phase(call)'
      BY <1>1, <2>2, <2>3, <2>5, <3>1, <3>3 DEF Phase
    <3> QED
      BY <1>1, <3>1, <3>4
  <2> QED
    BY <1>1, <2>1, <2>2, <2>4, <2>6, <2>7 DEF SerialOf
<1> QED
  BY <1>1, <1>4, <1>5, NoCallSerial

\* Without a stale write, a disbursed application stays disbursed.
LEMMA ReviewFrom ==
  ASSUME NEW a \in Application, a \notin overlapped, Review!Step(a)
  PROVE  state[a] # "disbursed"
<1>1. CASE Review!Revise(a) \/ Review!Discard(a) \/ Review!Submit(a) \/ Review!Appraise(a)
  BY <1>1 DEF Review!Revise, Review!Discard, Review!Submit, Review!Appraise
<1>2. CASE Review!Reject(a) \/ Review!PayOut(a) \/ Review!StaleWrite(a)
  BY <1>2 DEF Review!Reject, Review!PayOut, Review!StaleWrite, Review!InReview
<1>3. ASSUME NEW u \in User, Review!Approve(a, u) PROVE state[a] # "disbursed"
  BY <1>3 DEF Review!Approve
<1>4. ASSUME NEW u \in User, NEW n \in Required, Review!Open(a, u, n)
      PROVE  state[a] # "disbursed"
  BY <1>4 DEF Review!Open
<1> QED
  BY <1>1, <1>2, <1>3, <1>4 DEF Review!Step

LEMMA ReviewSerial ==
  ASSUME IInv, SerialOK, NEW a \in Application, ReviewStep(a)
  PROVE  SerialOK'
<1>1. PICK s \in Review!State \ {"absent"} : state' = [state EXCEPT ![a] = s]
  BY ReviewMoves DEF ReviewStep
<1>2. /\ UNCHANGED <<orders, payout, loans, counter, credited, processed, ignored, calls>>
      /\ overlapped \subseteq overlapped' /\ state'[a] # "disbursed"
      /\ a \notin overlapped' => /\ a \notin overlapped /\ Working(a) = {}
                               /\ \A o \in Of(a) : ~MayComplete(o)
  BY DEF ReviewStep, Underway, tables, Of, books
<1>3. \A b \in Application \ {a} : state'[b] = state[b]
  BY <1>1 DEF IInv, TypeOK
<1>4. \A b \in Application \ {a} : SameRows(b)
  BY <1>2, <1>3 DEF SameRows
<1>5. ASSUME a \notin overlapped' PROVE SerialOf(a)'
  <2>1. Alone(a) /\ Settled(a) /\ state[a] # "disbursed"
    BY <1>2, <1>5, ReviewFrom DEF SerialOK, SerialOf, ReviewStep
  <2>2. Of(a)' = Of(a) /\ Working(a)' = {} /\ (Alone(a)' <=> Alone(a))
    BY <1>2, <1>5 DEF Of, Working, Alone, OpenOrders, MayComplete
  <2>3. LoansOK(a)'
    BY <1>2, <2>1 DEF Settled, LoansOK
  <2>4. \A x \in Of(a) : OrderOK(x)'
    BY <1>2, <1>5, <2>1 DEF Settled, OrderOK, MayComplete, Of
  <2> QED
    BY <2>1, <2>2, <2>3, <2>4 DEF SerialOf, Settled
<1> QED
  BY <1>2, <1>4, <1>5, NoCallSerial

LEMMA StutterSerial == IInv /\ SerialOK /\ UNCHANGED vars => SerialOK'
<1> SUFFICES ASSUME IInv, SerialOK, UNCHANGED vars PROVE SerialOK'
  OBVIOUS
<1>1. UNCHANGED <<state, orders, payout, processed, ignored, loans, counter, credited, calls,
                  overlapped>>
  BY DEF vars, application, tables, books
<1>2. \A b \in Application : SameRows(b) /\ SameCalls(b)
  BY <1>1 DEF SameRows, SameCalls
<1> QED
  BY <1>1, <1>2, SerialKept DEF SerialOK

LEMMA NextSerial == IInv /\ SerialOK /\ [Next]_vars => SerialOK'
<1> SUFFICES ASSUME IInv, SerialOK, Next PROVE SerialOK'
  BY StutterSerial
<1>1. ASSUME NEW c \in Call, Statement(c) PROVE SerialOK'
  BY <1>1, ResumeSerial, InsertSerial, IntentSerial, UpdateSerial, CatchSerial,
     QuerySerial, LoadSerial, ApplySerial, StoreSerial, ReadSerial,
     PostSerial, MarkSerial, RecordSerial DEF Statement
<1>2. ASSUME NEW c \in Call, Fail(c) \/ Die(c) PROVE SerialOK'
  BY <1>2, FailSerial
<1> QED
  BY <1>1, <1>2, InitiateSerial, DisburseSerial, StatusSerial, WebhookSerial, SettleSerial,
     ReviewSerial DEF Next

LEMMA InitSerial == ASSUME PayoutsAssumption PROVE Init => SerialOK
<1> SUFFICES ASSUME Init, NEW a \in Application PROVE SerialOf(a)
  BY DEF SerialOK
<1>1. Working(a) = {} /\ Of(a) = {} /\ OpenOrders(a) = {}
  BY DEF PayoutsAssumption, Init, Idle, NoRow, Working, Of, OpenOrders
<1>2. LoansOK(a)
  BY DEF Init, Review!Init, LoansOK
<1> QED
  BY <1>1, <1>2 DEF SerialOf, Alone, Settled

LEMMA SerialInvariant == ASSUME PayoutsAssumption PROVE Spec => []SerialOK
<1>1. Init => SerialOK
  BY InitSerial
<1>2. IInv /\ SerialOK /\ [Next]_vars => SerialOK'
  BY NextSerial
<1> QED
  BY <1>1, <1>2, PayoutsInvariant, PTL DEF Spec

LEMMA AtMostOne ==
  ASSUME NEW S, \A x, y \in S : x = y
  PROVE  Cardinality(S) <= 1
<1>1. CASE S = {}
  BY <1>1, FS_EmptySet
<1>2. ASSUME NEW x \in S PROVE Cardinality(S) <= 1
  <2>1. S = {x}
    OBVIOUS
  <2> QED
    BY <2>1, FS_Singleton
<1> QED
  BY <1>1, <1>2

\* A payout retried, polled and announced any number of times, by handlers that do not
\* overlap or fail: one payout at most may be paid, one loan at most is posted by payouts
\* and the counter together, an order that says posted was paid out and has its loan, and
\* an order paid out says posted once its event was handled, unless the event was ignored
\* for its amount.
THEOREM PayoutsSerialOutcome == ASSUME PayoutsAssumption PROVE Spec => []SerialPayout
<1>1. IInv /\ SerialOK => SerialPayout
  <2> SUFFICES ASSUME IInv, SerialOK, NEW a \in Application \ overlapped, Working(a) = {}
               PROVE  /\ loans[a] + counter[a] <= 1
                      /\ Cardinality({o \in Order : orders[o].app = a /\ MayComplete(o)}) <= 1
                      /\ \A o \in Order : orders[o].app = a =>
                            /\ orders[o].status = "posted" =>
                                  orders[o].loan /\ payout[o] = "completed"
                            /\ o \in processed \ ignored /\ payout[o] = "completed" =>
                                  orders[o].status = "posted"
    BY DEF SerialPayout
  <2>1. Alone(a) /\ Settled(a)
    BY DEF SerialOK, SerialOf
  <2>2. loans[a] + counter[a] <= 1
    BY <2>1 DEF Settled, LoansOK
  <2>3. Cardinality({o \in Order : orders[o].app = a /\ MayComplete(o)}) <= 1
    BY <2>1, AtMostOne DEF Alone, Of
  <2>4. ASSUME NEW o \in Order, orders[o].app = a
        PROVE  /\ orders[o].status = "posted" => orders[o].loan /\ payout[o] = "completed"
               /\ o \in processed \ ignored /\ payout[o] = "completed" =>
                     orders[o].status = "posted"
    <3>1. /\ o \in Of(a) /\ OrderOK(o)
          /\ o \in processed \ ignored => orders[o].status \notin OpenStatus
      BY <2>1, <2>4 DEF Of, Alone, Settled
    <3> QED
      BY <3>1 DEF OrderOK, OpenStatus
  <2> QED
    BY <2>2, <2>3, <2>4
<1> QED
  BY <1>1, PayoutsInvariant, SerialInvariant, PTL

(***************************************************************************)
(* The payouts implement LoanReview.                                        *)
(***************************************************************************)
LEMMA MarkRefines ==
  ASSUME IInv, SerialOK, NEW c \in Call, MarkDisbursed(c)
  PROVE  Review!Next
<1>1. PICK a \in Application :
         a = calls[c].app /\ calls[c].pc = "mark" /\ state[a] # "absent"
  BY DEF MarkDisbursed, IInv, CallsOK, CallOK, WorkOK
<1>2. UNCHANGED overlapped
  BY DEF MarkDisbursed, Goto, Answer
<1>3. CASE UNCHANGED application
  BY <1>2, <1>3 DEF application, Review!Next, Review!row, books
<1>4. CASE /\ state[a] # "deleted" /\ Review!Move(a, "disbursed") /\ Review!Forget(a)
           /\ UNCHANGED cycle
  <2>1. CASE a \in overlapped
    BY <1>1, <1>2, <1>4, <2>1 DEF Review!StaleWrite, Review!Step, Review!Next
  <2>2. CASE a \notin overlapped
    <3>1. state[a] = "approved"
      BY <1>1, <2>2, AtWork DEF Phase
    <3> QED
      BY <1>2, <1>4, <3>1 DEF Review!PayOut, Review!Step, Review!Next
  <2> QED
    BY <2>1, <2>2
<1> QED
  BY <1>1, <1>3, <1>4 DEF MarkDisbursed

\* Every other step of a payout leaves the application, but may be one that overlapped.
LEMMA QuietRefines ==
  ASSUME UNCHANGED application, overlapped \subseteq overlapped'
  PROVE  Review!Next
  BY DEF application, Review!Next, Review!row, books

LEMMA StatementRefines ==
  ASSUME IInv, SerialOK, NEW c \in Call, Statement(c)
  PROVE  Review!Next
<1>1. CASE InsertOrder(c) \/ CreatePayoutIntent(c) \/ CatchFailed(c) \/ Query(c)
  BY <1>1, QuietRefines DEF InsertOrder, CreatePayoutIntent, CatchFailed, Query, Answer
<1>2. CASE UpdateInitiated(c) \/ Load(c) \/ Apply(c) \/ RecordPosted(c)
  BY <1>2, QuietRefines DEF UpdateInitiated, Load, Apply, RecordPosted, Finalize, Finish, Goto, Answer
<1>3. CASE StoreProcessedWebhookEvent(c) \/ ReadApplication(c) \/ PostLoan(c)
  BY <1>3, QuietRefines DEF StoreProcessedWebhookEvent, ReadApplication, PostLoan, Goto, Answer
<1>4. CASE Resume(c)
  <2>1. UNCHANGED application /\ UNCHANGED overlapped
    BY <1>4, Zenon DEF Resume, Goto
  <2> QED
    BY <2>1, QuietRefines
<1> QED
  BY <1>1, <1>2, <1>3, <1>4, MarkRefines DEF Statement

LEMMA NextRefines == IInv /\ SerialOK /\ [Next]_vars => [Review!Next]_Review!vars
<1> SUFFICES ASSUME IInv, SerialOK, Next PROVE Review!Next
  BY DEF vars, application, Review!vars, Review!row, books
<1>1. ASSUME NEW c \in Call, NEW a \in Application, InitiateMobileLoanDisbursement(c, a)
      PROVE  Review!Next
  BY <1>1, QuietRefines DEF InitiateMobileLoanDisbursement, Begin
<1>2. ASSUME NEW c \in Call, NEW o \in Order,
             GetLoanDisbursementOrderStatus(c, o) \/ Webhook(c, o)
      PROVE  Review!Next
  BY <1>2, QuietRefines DEF GetLoanDisbursementOrderStatus, Webhook, Begin
<1>3. ASSUME NEW c \in Call, Fail(c) \/ Die(c) PROVE Review!Next
  BY <1>3, QuietRefines DEF Fail, Die
<1>4. ASSUME NEW o \in Order, Settle(o) PROVE Review!Next
  BY <1>4, QuietRefines DEF Settle
<1>5. ASSUME NEW a \in Application, ReviewStep(a) PROVE Review!Next
  BY <1>5 DEF ReviewStep, Review!Next
<1>6. ASSUME NEW c \in Call, NEW a \in Application, DisburseLoanApplication(c, a)
      PROVE  Review!Next
  BY <1>6, QuietRefines DEF DisburseLoanApplication
<1> QED
  BY <1>1, <1>2, <1>3, <1>4, <1>5, <1>6, StatementRefines DEF Next

\* The payouts implement LoanReview: an application becomes disbursed only from approved,
\* unless a handler of it overlapped or failed, and its votes are the ones of its review.
THEOREM PayoutsImplementReview == ASSUME PayoutsAssumption PROVE Spec => Review!Spec
<1>1. Init => Review!Init
  BY DEF Init
<1>2. IInv /\ SerialOK /\ [Next]_vars => [Review!Next]_Review!vars
  BY NextRefines
<1> QED
  BY <1>1, <1>2, PayoutsInvariant, SerialInvariant, PTL DEF Spec, Review!Spec
==============================================================================
