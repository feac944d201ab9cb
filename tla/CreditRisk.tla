----------------------------- MODULE CreditRisk -----------------------------
(***************************************************************************)
(* Default cases, collection actions and guarantor claims:                  *)
(* src/src/modules/credit-risk, over the tables of                          *)
(* src/supabase/sql/035_phase1_credit_risk_controls.sql.                    *)
(*                                                                          *)
(* Every handler reads a row, decides on what it read and then updates the  *)
(* row by its id, in separate awaits and without a lock; most handlers of a *)
(* claim then recompute the exposure of its guarantor, reading the claims   *)
(* in one await and storing the sum in the next.                            *)
(***************************************************************************)
EXTENDS Naturals, FiniteSets, Folds

CONSTANTS
    Loan, Case, Task, Claim, Guarantor,
    Call,           \* handlers and scheduler cycles at work at the same time
    MaxAmount,      \* bound: claim_amount
    NoLoan, NoCase, NoTask, NoClaim, NoGuarantor

VARIABLES
    cases,      \* loan_default_cases
    tasks,      \* collection_actions
    claims,     \* guarantor_claims
    exposures,  \* guarantor_exposures.invoked_amount
    riskCalls,  \* the handlers at work
    paid,       \* history: the sum of the settlements written, by claim
    done,       \* history: the collection actions written as completed
    crossed     \* history: two handlers overlapped, or one failed halfway

vars == <<cases, tasks, claims, exposures, riskCalls, paid, done, crossed>>

OpenCase == {"delinquent", "in_recovery", "claim_ready"}
ClosedCase == {"restructured", "written_off", "recovered"}
CaseRow == [status : OpenCase \cup ClosedCase \cup {"absent"}, loan : Loan \cup {NoLoan}]
NoRow == [status |-> "absent", loan |-> NoLoan]

TaskRow == [ status : {"absent", "open", "overdue", "completed"},
             case : Case \cup {NoCase} ]
NoAction == [status |-> "absent", case |-> NoCase]

ActiveClaim == {"approved", "posted", "partial_settled"}
OpenClaim == ActiveClaim \cup {"draft", "submitted"}
ClaimRow == [ status : OpenClaim \cup {"absent", "settled", "waived"}, case : Case \cup {NoCase},
              guarantor : Guarantor \cup {NoGuarantor},
              amount : 0..MaxAmount, settled : 0..MaxAmount ]
Unclaimed == [ status |-> "absent", case |-> NoCase, guarantor |-> NoGuarantor,
               amount |-> 0, settled |-> 0 ]

PC == { "idle", "detect", "moveCase", "insertTask", "complete", "escalate", "checkClaims",
        "insertClaim", "writeClaim", "recompute", "upsert" }
CallState == [ pc : PC, case : Case \cup {NoCase}, to : STRING, task : Task \cup {NoTask},
               claim : Claim \cup {NoClaim}, pay : 0..MaxAmount, loans : SUBSET Loan,
               read : ClaimRow, guarantor : Guarantor \cup {NoGuarantor}, sum : Nat ]
Idle == [ pc |-> "idle", case |-> NoCase, to |-> "", task |-> NoTask, claim |-> NoClaim,
          pay |-> 0, loans |-> {}, read |-> Unclaimed, guarantor |-> NoGuarantor, sum |-> 0 ]

Busy == {c \in Call : riskCalls[c].pc # "idle"}
Begin(c, call) ==
    /\ riskCalls[c].pc = "idle"
    /\ riskCalls' = [riskCalls EXCEPT ![c] = call]
    /\ crossed' = (crossed \/ Busy # {})
Return(c) == riskCalls' = [riskCalls EXCEPT ![c] = Idle] /\ UNCHANGED crossed
Alone == UNCHANGED riskCalls /\ crossed' = (crossed \/ Busy # {})

Init ==
    /\ cases = [k \in Case |-> NoRow]
    /\ tasks = [a \in Task |-> NoAction]
    /\ claims = [k \in Claim |-> Unclaimed]
    /\ exposures = [g \in Guarantor |-> 0]
    /\ riskCalls = [c \in Call |-> Idle]
    /\ paid = [k \in Claim |-> 0]
    /\ done = {}
    /\ crossed = FALSE
----------------------------------------------------------------------------
(* Default cases.                                                           *)

OpenCases(l) == {k \in Case : cases[k].loan = l /\ cases[k].status \in OpenCase}

InsertCase(l) ==
    /\ \E k \in Case : cases[k] = NoRow
    /\ cases' = [cases EXCEPT ![CHOOSE k \in Case : cases[k] = NoRow] =
                     [status |-> "delinquent", loan |-> l]]

\* The unique index on a loan's open case answers 409.
CreateDefaultCase(l) ==
    /\ OpenCases(l) = {} /\ InsertCase(l)
    /\ Alone
    /\ UNCHANGED <<tasks, claims, exposures, paid, done>>

\* runDefaultDetectionForTenant, on request and by the scheduler: the loans in arrears
\* (any of them may be) without an open case at the time of the two reads.
DetectDefaults(c, arrears) ==
    LET found == {l \in arrears : OpenCases(l) = {}} IN
    /\ found # {}
    /\ Begin(c, [Idle EXCEPT !.pc = "detect", !.loans = found])
    /\ UNCHANGED <<cases, tasks, claims, exposures, paid, done>>

\* One insert per loan; a duplicate is skipped.
OpenDetectedCase(c, l) ==
    LET left == riskCalls[c].loans \ {l} IN
    /\ riskCalls[c].pc = "detect" /\ l \in riskCalls[c].loans
    /\ IF OpenCases(l) = {} THEN InsertCase(l) ELSE UNCHANGED cases
    /\ IF left = {} THEN Return(c)
       ELSE riskCalls' = [riskCalls EXCEPT ![c].loans = left] /\ UNCHANGED crossed
    /\ UNCHANGED <<tasks, claims, exposures, paid, done>>

\* DEFAULT_CASE_TRANSITIONS
Allowed(from) ==
    CASE from = "delinquent" -> {"in_recovery"}
      [] from = "in_recovery" -> {"claim_ready"} \cup ClosedCase
      [] from = "claim_ready" -> {"in_recovery", "written_off", "recovered"}
      [] OTHER -> {}

TransitionDefaultCase(c, k, to) ==
    /\ to \in Allowed(cases[k].status)
    /\ Begin(c, [Idle EXCEPT !.pc = "moveCase", !.case = k, !.to = to])
    /\ UNCHANGED <<cases, tasks, claims, exposures, paid, done>>

\* The update names the id only and clears closed_at when the new status is an open
\* one; the unique index refuses it where the loan has another open case by now.
WriteDefaultCase(c) ==
    LET k == riskCalls[c].case  to == riskCalls[c].to IN
    /\ riskCalls[c].pc = "moveCase"
    /\ IF to \in OpenCase /\ OpenCases(cases[k].loan) \ {k} # {} THEN UNCHANGED cases
       ELSE cases' = [cases EXCEPT ![k].status = to]
    /\ Return(c)
    /\ UNCHANGED <<tasks, claims, exposures, paid, done>>
----------------------------------------------------------------------------
(* Collection actions.  updateCollectionAction patches what is left out     *)
(* here (owner, due date, priority, notes).                                 *)

CreateCollectionAction(c, k) ==
    /\ cases[k].status \in OpenCase
    /\ Begin(c, [Idle EXCEPT !.pc = "insertTask", !.case = k])
    /\ UNCHANGED <<cases, tasks, claims, exposures, paid, done>>

InsertCollectionAction(c) ==
    /\ riskCalls[c].pc = "insertTask" /\ \E a \in Task : tasks[a] = NoAction
    /\ tasks' = [tasks EXCEPT ![CHOOSE a \in Task : tasks[a] = NoAction] =
                     [status |-> "open", case |-> riskCalls[c].case]]
    /\ Return(c)
    /\ UNCHANGED <<cases, claims, exposures, paid, done>>

CompleteCollectionAction(c, a) ==
    /\ tasks[a].status \in {"open", "overdue"}
    /\ Begin(c, [Idle EXCEPT !.pc = "complete", !.task = a])
    /\ UNCHANGED <<cases, tasks, claims, exposures, paid, done>>

WriteCompleted(c) ==
    /\ riskCalls[c].pc = "complete"
    /\ tasks' = [tasks EXCEPT ![riskCalls[c].task].status = "completed"]
    /\ done' = done \cup {riskCalls[c].task}
    /\ Return(c)
    /\ UNCHANGED <<cases, claims, exposures, paid>>

Escalatable == {"open", "overdue"}

\* An open action becomes overdue, an overdue one keeps the status read.
EscalateCollectionAction(c, a) ==
    /\ tasks[a].status \in Escalatable
    /\ Begin(c, [Idle EXCEPT !.pc = "escalate", !.task = a])
    /\ UNCHANGED <<cases, tasks, claims, exposures, paid, done>>

WriteEscalated(c) ==
    /\ riskCalls[c].pc = "escalate"
    /\ tasks' = [tasks EXCEPT ![riskCalls[c].task].status = "overdue"]
    /\ Return(c)
    /\ UNCHANGED <<cases, claims, exposures, paid, done>>
----------------------------------------------------------------------------
(* Guarantor claims.                                                        *)

CreateGuarantorClaim(c, k, g, amount) ==
    /\ cases[k].status = "claim_ready"
    /\ Begin(c, [Idle EXCEPT !.pc = "checkClaims", !.case = k, !.guarantor = g, !.pay = amount])
    /\ UNCHANGED <<cases, tasks, claims, exposures, paid, done>>

OpenClaims(k, g) ==
    {m \in Claim : claims[m].case = k /\ claims[m].guarantor = g /\ claims[m].status \in OpenClaim}

\* No index stands behind this check.
CheckOpenClaims(c) ==
    LET call == riskCalls[c] IN
    /\ call.pc = "checkClaims"
    /\ IF OpenClaims(call.case, call.guarantor) # {} THEN Return(c)
       ELSE riskCalls' = [riskCalls EXCEPT ![c].pc = "insertClaim"] /\ UNCHANGED crossed
    /\ UNCHANGED <<cases, tasks, claims, exposures, paid, done>>

InsertGuarantorClaim(c) ==
    LET call == riskCalls[c] IN
    /\ call.pc = "insertClaim" /\ \E m \in Claim : claims[m] = Unclaimed
    /\ claims' = [claims EXCEPT ![CHOOSE m \in Claim : claims[m] = Unclaimed] =
           [ status |-> "draft", case |-> call.case, guarantor |-> call.guarantor,
             amount |-> call.pay, settled |-> 0 ]]
    /\ Return(c)
    /\ UNCHANGED <<cases, tasks, exposures, paid, done>>

\* Asking for the status a claim has already is answered as done.
MoveClaim(c, m, from, to) ==
    /\ claims[m].status \in from
    /\ Begin(c, [Idle EXCEPT !.pc = "writeClaim", !.claim = m, !.to = to, !.read = claims[m]])
    /\ UNCHANGED <<cases, tasks, claims, exposures, paid, done>>

SubmitGuarantorClaim(c, m) == MoveClaim(c, m, {"draft"}, "submitted")
ApproveGuarantorClaim(c, m) == MoveClaim(c, m, {"submitted"}, "approved")
RejectGuarantorClaim(c, m) == MoveClaim(c, m, {"submitted", "approved"}, "draft")
PostGuarantorClaim(c, m) == MoveClaim(c, m, {"approved"}, "posted")
WaiveGuarantorClaim(c, m) == MoveClaim(c, m, OpenClaim, "waived")

SettleGuarantorClaim(c, m, pay) ==
    /\ claims[m].status \in ActiveClaim
    /\ claims[m].settled + pay <= claims[m].amount
    /\ Begin(c, [Idle EXCEPT !.pc = "writeClaim", !.claim = m, !.read = claims[m], !.pay = pay,
                    !.to = IF claims[m].settled + pay = claims[m].amount
                           THEN "settled" ELSE "partial_settled"])
    /\ UNCHANGED <<cases, tasks, claims, exposures, paid, done>>


\* The handlers that change what a guarantor is called for recompute the exposure.
Recomputes(call) ==
    \/ call.to \in {"approved", "waived"} \/ call.pay > 0
    \/ call.to = "draft" /\ call.read.status = "approved"

\* updateGuarantorClaimById: a settlement stores the sum it computed from the row read.
WriteClaim(c) ==
    LET call == riskCalls[c]  m == call.claim IN
    /\ call.pc = "writeClaim"
    /\ claims' = [claims EXCEPT ![m].status = call.to,
                     ![m].settled = IF call.pay > 0 THEN call.read.settled + call.pay ELSE @]
    /\ paid' = [paid EXCEPT ![m] = @ + call.pay]
    /\ riskCalls' = [riskCalls EXCEPT ![c] =
           IF Recomputes(call)
           THEN [Idle EXCEPT !.pc = "recompute", !.guarantor = call.read.guarantor] ELSE Idle]
    /\ UNCHANGED <<cases, tasks, exposures, done, crossed>>
----------------------------------------------------------------------------
(* Exposures.  Capacity and the amounts committed are data of other tables. *)

\* recomputeGuarantorExposures, and assertGuarantorExposureWithinLimits for the
\* approval of a loan application.
Recompute(c, g) ==
    /\ Begin(c, [Idle EXCEPT !.pc = "recompute", !.guarantor = g])
    /\ UNCHANGED <<cases, tasks, claims, exposures, paid, done>>

\* getGuarantorInvokedMap
Invoked(g) ==
    MapThenFoldSet(LAMBDA x, y : x + y, 0, LAMBDA m : claims[m].amount - claims[m].settled,
        LAMBDA S : CHOOSE x \in S : TRUE,
        {m \in Claim : claims[m].guarantor = g /\ claims[m].status \in ActiveClaim})

ReadClaims(c) ==
    /\ riskCalls[c].pc = "recompute"
    /\ riskCalls' = [riskCalls EXCEPT ![c].pc = "upsert",
                                      ![c].sum = Invoked(riskCalls[c].guarantor)]
    /\ UNCHANGED <<cases, tasks, claims, exposures, paid, done, crossed>>

UpsertExposure(c) ==
    /\ riskCalls[c].pc = "upsert"
    /\ exposures' = [exposures EXCEPT ![riskCalls[c].guarantor] = riskCalls[c].sum]
    /\ Return(c)
    /\ UNCHANGED <<cases, tasks, claims, paid, done>>

\* A statement fails or the process dies: what was written stays.
Fail(c) ==
    /\ riskCalls[c].pc # "idle"
    /\ riskCalls' = [riskCalls EXCEPT ![c] = Idle]
    /\ crossed' = TRUE
    /\ UNCHANGED <<cases, tasks, claims, exposures, paid, done>>
----------------------------------------------------------------------------
Next ==
    \/ \E l \in Loan : CreateDefaultCase(l)
    \/ \E c \in Call :
          \/ \E ls \in SUBSET Loan : DetectDefaults(c, ls)
          \/ \E l \in Loan : OpenDetectedCase(c, l)
          \/ \E k \in Case, to \in OpenCase \cup ClosedCase : TransitionDefaultCase(c, k, to)
          \/ \E k \in Case : CreateCollectionAction(c, k)
          \/ \E a \in Task : CompleteCollectionAction(c, a) \/ EscalateCollectionAction(c, a)
          \/ WriteDefaultCase(c) \/ InsertCollectionAction(c)
          \/ WriteCompleted(c) \/ WriteEscalated(c)
          \/ \E k \in Case, g \in Guarantor, amount \in 1..MaxAmount :
                CreateGuarantorClaim(c, k, g, amount)
          \/ CheckOpenClaims(c) \/ InsertGuarantorClaim(c)
          \/ \E m \in Claim :
                \/ SubmitGuarantorClaim(c, m) \/ ApproveGuarantorClaim(c, m)
                \/ RejectGuarantorClaim(c, m) \/ PostGuarantorClaim(c, m)
                \/ WaiveGuarantorClaim(c, m)
          \/ \E m \in Claim, pay \in 1..MaxAmount : SettleGuarantorClaim(c, m, pay)
          \/ WriteClaim(c)
          \/ \E g \in Guarantor : Recompute(c, g)
          \/ ReadClaims(c) \/ UpsertExposure(c) \/ Fail(c)

Spec == Init /\ [][Next]_vars
----------------------------------------------------------------------------
(* Properties.                                                              *)

TypeOK ==
    /\ cases \in [Case -> CaseRow]
    /\ tasks \in [Task -> TaskRow]
    /\ claims \in [Claim -> ClaimRow]
    /\ exposures \in [Guarantor -> Nat]
    /\ riskCalls \in [Call -> CallState]
    /\ paid \in [Claim -> Nat] /\ done \subseteq Task /\ crossed \in BOOLEAN

\* However handlers overlap: a loan has one open case at most, what is stored as settled
\* on a claim was paid and is at most its amount, and a claim is settled only when it
\* was paid in full.
ClaimsArePaid ==
    /\ \A l \in Loan : Cardinality(OpenCases(l)) <= 1
    /\ \A m \in Claim :
          /\ claims[m].settled <= claims[m].amount /\ claims[m].settled <= paid[m]
          /\ claims[m].status = "settled" => paid[m] >= claims[m].amount

\* While handlers ran one after the other and none failed: every settlement counts, a
\* guarantor has one open claim per case and is called for exactly what the active
\* claims still ask, and a completed collection action stays completed.
SerialRisk ==
    ~crossed /\ Busy = {} =>
        /\ \A m \in Claim : claims[m].settled = paid[m]
        /\ \A k \in Case, g \in Guarantor : Cardinality(OpenClaims(k, g)) <= 1
        /\ \A g \in Guarantor : exposures[g] = Invoked(g)
        /\ \A a \in done : tasks[a].status = "completed"
=============================================================================
