--------------------------- MODULE LendingProofs ---------------------------
(* Proofs about LoanApplications, for every set of applications, accounts,  *)
(* guarantors and handlers at work, and about the composition of MCLending, *)
(* from them and from the theorems of PayoutsProofs and CapacityProofs.     *)
EXTENDS MCLending, FiniteSetTheorems, TLAPS

(***************************************************************************)
(* The inductive invariant.  The procedures decide on the row they lock, so *)
(* the votes of a cycle are the ones its row counts; that a new cycle has   *)
(* none is what the last conjunct of the first part says.                   *)
(***************************************************************************)
QuorumOf(a) ==
    apps[a].status \in Open =>
        /\ apps[a].count = Cardinality(Voters(a, "approved"))
        /\ apps[a].status = "approved" <=> apps[a].count >= apps[a].required
        /\ apps[a].maker \notin Voters(a, "approved")
        /\ Voters(a, "rejected") = {}

AppOK(a) ==
    /\ apps[a].status = "absent" => apps[a] = NoRow
    /\ apps[a].required > 0
    /\ \A d \in decisions[a] : d.cycle <= apps[a].cycle
    /\ QuorumOf(a)

CallOK(call) ==
    /\ call.pc # "idle" => call.app \in Application
    /\ call.pc \in {"approve", "reject"} => call.user \in User

IInv ==
    /\ TypeOK
    /\ decisions \in [Application -> SUBSET Decision]
    /\ \A a \in Application : AppOK(a)
    /\ \A c \in Call : CallOK(calls[c])

(***************************************************************************)
(* Lemmas about votes and about one step.                                   *)
(***************************************************************************)
LEMMA VotersFinite ==
  ASSUME IInv, NEW a \in Application, NEW v
  PROVE  Voters(a, v) \subseteq User /\ IsFiniteSet(Voters(a, v))
<1>1. Voters(a, v) \subseteq User
  BY DEF Voters, IInv, Decision
<1> QED
  BY <1>1, FS_Subset, LoanApplicationsAssumption

LEMMA VotersKept ==
  ASSUME NEW a \in Application, decisions'[a] = decisions[a], apps'[a].cycle = apps[a].cycle, NEW v
  PROVE  Voters(a, v)' = Voters(a, v)
  BY DEF Voters

\* A row none of whose votes changed keeps its invariant when its status moves along.
LEMMA RowKept ==
  ASSUME IInv, NEW a \in Application, decisions'[a] = decisions[a],
         apps'[a].cycle = apps[a].cycle, apps'[a].required = apps[a].required,
         apps'[a].maker = apps[a].maker,
         apps'[a].status = "absent" => apps'[a] = apps[a],
         apps'[a].status \in Open =>
            /\ apps[a].status \in Open /\ apps'[a].count = apps[a].count
            /\ apps'[a].status = "approved" <=> apps[a].status = "approved"
  PROVE  AppOK(a)'
<1>1. AppOK(a)
  BY DEF IInv
<1>2. \A v : Voters(a, v)' = Voters(a, v)
  BY VotersKept
<1>3. QuorumOf(a)'
  BY <1>1, <1>2 DEF AppOK, QuorumOf
<1> QED
  BY <1>1, <1>3 DEF AppOK

\* The variables no vote depends on keep their types.
Typed ==
    /\ consent' \in [Application -> [Guarantor -> Consent]]
    /\ loans' \in [Application -> 0..MaxLoans]
    /\ disturbed' \subseteq Application

\* One handler moves on, and writes no application but its own.
LEMMA AppStep ==
  ASSUME IInv, Typed, NEW c \in Call, NEW a \in Application,
         apps' \in [Application -> Row], decisions' \in [Application -> SUBSET Decision],
         \A b \in Application \ {a} : apps'[b] = apps[b] /\ decisions'[b] = decisions[b],
         AppOK(a)',
         NEW new \in CallState, calls' = [calls EXCEPT ![c] = new], CallOK(new)
  PROVE  IInv'
<1>1. calls' \in [Call -> CallState] /\ \A d \in Call : CallOK(calls'[d])
  BY DEF IInv, TypeOK
<1>2. TypeOK'
  BY <1>1 DEF TypeOK, Typed
<1>3. ASSUME NEW b \in Application PROVE AppOK(b)'
  <2>1. CASE b = a
    BY <2>1
  <2>2. CASE b # a
    <3>1. apps'[b] = apps[b] /\ decisions'[b] = decisions[b]
      BY <2>2
    <3> QED
      BY <3>1, RowKept DEF IInv, AppOK, QuorumOf
  <2> QED
    BY <2>1, <2>2
<1>4. \A d \in Call : CallOK(calls[d])'
  BY <1>1 DEF CallOK
<1> QED
  BY <1>2, <1>3, <1>4 DEF IInv

\* One that writes no application and no decision.
LEMMA LocalStep ==
  ASSUME IInv, Typed, UNCHANGED <<apps, decisions>>, NEW c \in Call,
         NEW new \in CallState, calls' = [calls EXCEPT ![c] = new], CallOK(new)
  PROVE  IInv'
<1>1. calls' \in [Call -> CallState] /\ \A d \in Call : CallOK(calls'[d])
  BY DEF IInv, TypeOK
<1>2. TypeOK'
  BY <1>1 DEF TypeOK, Typed, IInv
<1>3. ASSUME NEW b \in Application PROVE AppOK(b)'
  <2>1. apps'[b] = apps[b] /\ decisions'[b] = decisions[b] /\ AppOK(b)
    BY DEF IInv
  <2> QED
    BY <2>1, RowKept DEF AppOK, QuorumOf
<1>4. \A d \in Call : CallOK(calls[d])'
  BY <1>1 DEF CallOK
<1> QED
  BY <1>2, <1>3, <1>4 DEF IInv

LEMMA IdleOK == Idle \in CallState /\ CallOK(Idle) /\ Idle.pc = "idle"
  BY DEF Idle, CallState, PC, Consent, CallOK

\* Where a handler goes on keeps what it was asked.
LEMMA GotoIs ==
  ASSUME IInv, NEW c \in Call, NEW pc \in PC, Goto(c, pc)
  PROVE  \E new \in CallState :
            /\ calls' = [calls EXCEPT ![c] = new]
            /\ new.pc = pc /\ new.app = calls[c].app /\ new.user = calls[c].user
            /\ new.named = calls[c].named /\ new.answer = calls[c].answer
<1>1. PICK call \in CallState : call = calls[c]
  BY DEF IInv, TypeOK
<1>2. PICK new \in CallState : new = [call EXCEPT !.pc = pc]
  BY DEF CallState
<1>3. /\ new.pc = pc /\ new.app = call.app /\ new.user = call.user
      /\ new.named = call.named /\ new.answer = call.answer
  BY <1>2 DEF CallState
<1>4. calls' = [calls EXCEPT ![c] = new]
  BY <1>1, <1>2 DEF Goto, IInv, TypeOK
<1> QED
  BY <1>1, <1>3, <1>4

(***************************************************************************)
(* What a handler has read when it starts, and what of it still holds later *)
(* if no other handler came in between.                                     *)
(***************************************************************************)
Checked(call) ==
    LET a == call.app
        s == apps[a].status
    IN
    /\ call.pc \in {"patch", "submit"} => s \in {"draft", "rejected"}
    /\ call.pc = "submit" => NoOtherOpen(a)
    /\ call.pc = "delete" => s = "draft"
    /\ call.pc \in {"clear", "name"} => s \in {"draft", "appraised"}
    /\ call.pc \in {"respond", "appraise"} => s \in {"submitted", "appraised"}
    /\ call.pc = "approve" => AssertAllGuarantorsAccepted(a)
    /\ call.pc \in {"post", "mark"} => s = "approved" /\ ~apps[a].loan

Create(c, a) ==
    \E u \in User, n \in Required, named \in SUBSET Guarantor :
        CreateLoanApplication(c, u, a, n, named)

Asked(c, a, new) ==
    /\ Begin(c, new) /\ UNCHANGED <<apps, decisions, consent, loans>>
    /\ new.app = a /\ new.pc \notin {"idle", "mark", "name", "clear", "link"}
    /\ CallOK(new) /\ Checked(new)

\* Every request but the first starts a handler and writes nothing.
LEMMA RequestIs ==
  ASSUME NEW c \in Call, NEW a \in Application, Request(c, a)
  PROVE  Create(c, a) \/ \E new \in CallState : Asked(c, a, new)
<1>1. ASSUME NEW named \in SUBSET Guarantor, UpdateLoanApplication(c, a, named)
      PROVE  \E new \in CallState : Asked(c, a, new)
  <2>1. PICK new : new = [Idle EXCEPT !.pc = "patch", !.app = a, !.named = named]
    OBVIOUS
  <2>2. new \in CallState /\ new.pc = "patch" /\ new.app = a
    BY <2>1 DEF Idle, CallState, PC, Consent
  <2>3. apps[a].status \in {"draft", "rejected"} /\ Begin(c, new)
    BY <1>1, <2>1 DEF UpdateLoanApplication
  <2>4. UNCHANGED <<apps, decisions, consent, loans>>
    BY <1>1 DEF UpdateLoanApplication
  <2> QED
    BY <2>2, <2>3, <2>4 DEF Asked, CallOK, Checked
<1>2. ASSUME NEW named \in SUBSET Guarantor, AppraiseLoanApplication(c, a, named)
      PROVE  \E new \in CallState : Asked(c, a, new)
  <2>1. PICK new : new = [Idle EXCEPT !.pc = "appraise", !.app = a, !.named = named]
    OBVIOUS
  <2>2. new \in CallState /\ new.pc = "appraise" /\ new.app = a
    BY <2>1 DEF Idle, CallState, PC, Consent
  <2>3. apps[a].status \in {"submitted", "appraised"} /\ Begin(c, new)
    BY <1>2, <2>1 DEF AppraiseLoanApplication
  <2>4. UNCHANGED <<apps, decisions, consent, loans>>
    BY <1>2 DEF AppraiseLoanApplication
  <2> QED
    BY <2>2, <2>3, <2>4 DEF Asked, CallOK, Checked
<1>3. ASSUME DeleteLoanApplication(c, a) PROVE \E new \in CallState : Asked(c, a, new)
  <2>1. PICK new : new = [Idle EXCEPT !.pc = "delete", !.app = a]
    OBVIOUS
  <2>2. new \in CallState /\ new.pc = "delete" /\ new.app = a
    BY <2>1 DEF Idle, CallState, PC, Consent
  <2>3. /\ apps[a].status = "draft" /\ Begin(c, new)
        /\ UNCHANGED <<apps, decisions, consent, loans>>
    BY <1>3, <2>1 DEF DeleteLoanApplication
  <2> QED
    BY <2>2, <2>3 DEF Asked, CallOK, Checked
<1>4. ASSUME SubmitLoanApplication(c, a) PROVE \E new \in CallState : Asked(c, a, new)
  <2>1. PICK new : new = [Idle EXCEPT !.pc = "submit", !.app = a]
    OBVIOUS
  <2>2. new \in CallState /\ new.pc = "submit" /\ new.app = a
    BY <2>1 DEF Idle, CallState, PC, Consent
  <2>3. /\ apps[a].status \in {"draft", "rejected"} /\ NoOtherOpen(a) /\ Begin(c, new)
        /\ UNCHANGED <<apps, decisions, consent, loans>>
    BY <1>4, <2>1 DEF SubmitLoanApplication
  <2> QED
    BY <2>2, <2>3 DEF Asked, CallOK, Checked
<1>5. ASSUME DisburseLoanApplication(c, a) PROVE \E new \in CallState : Asked(c, a, new)
  <2>1. PICK new : new = [Idle EXCEPT !.pc = "post", !.app = a]
    OBVIOUS
  <2>2. new \in CallState /\ new.pc = "post" /\ new.app = a
    BY <2>1 DEF Idle, CallState, PC, Consent
  <2>3. /\ apps[a].status = "approved" /\ ~apps[a].loan /\ Begin(c, new)
        /\ UNCHANGED <<apps, decisions, consent, loans>>
    BY <1>5, <2>1 DEF DisburseLoanApplication
  <2> QED
    BY <2>2, <2>3 DEF Asked, CallOK, Checked
<1>6. ASSUME NEW u \in User, ApproveLoanApplication(c, u, a)
      PROVE  \E new \in CallState : Asked(c, a, new)
  <2>1. PICK new : new = [Idle EXCEPT !.pc = "approve", !.app = a, !.user = u]
    OBVIOUS
  <2>2. new \in CallState /\ new.pc = "approve" /\ new.app = a /\ new.user = u
    BY <2>1 DEF Idle, CallState, PC, Consent
  <2>3. /\ AssertAllGuarantorsAccepted(a) /\ Begin(c, new)
        /\ UNCHANGED <<apps, decisions, consent, loans>>
    BY <1>6, <2>1 DEF ApproveLoanApplication
  <2> QED
    BY <2>2, <2>3 DEF Asked, CallOK, Checked
<1>7. ASSUME NEW u \in User, RejectLoanApplication(c, u, a)
      PROVE  \E new \in CallState : Asked(c, a, new)
  <2>1. PICK new : new = [Idle EXCEPT !.pc = "reject", !.app = a, !.user = u]
    OBVIOUS
  <2>2. new \in CallState /\ new.pc = "reject" /\ new.app = a /\ new.user = u
    BY <2>1 DEF Idle, CallState, PC, Consent
  <2>3. Begin(c, new) /\ UNCHANGED <<apps, decisions, consent, loans>>
    BY <1>7, <2>1 DEF RejectLoanApplication
  <2> QED
    BY <2>2, <2>3 DEF Asked, CallOK, Checked
<1>8. ASSUME NEW g \in Guarantor, NEW answer \in {"accepted", "rejected"},
             RespondGuarantorConsent(c, a, g, answer)
      PROVE  \E new \in CallState : Asked(c, a, new)
  <2>1. PICK new : new = [Idle EXCEPT !.pc = "respond", !.app = a, !.named = {g}, !.answer = answer]
    OBVIOUS
  <2>2. new \in CallState /\ new.pc = "respond" /\ new.app = a
    BY <2>1 DEF Idle, CallState, PC, Consent
  <2>3. /\ apps[a].status \in {"submitted", "appraised"} /\ Begin(c, new)
        /\ UNCHANGED <<apps, decisions, consent, loans>>
    BY <1>8, <2>1 DEF RespondGuarantorConsent
  <2> QED
    BY <2>2, <2>3 DEF Asked, CallOK, Checked
<1> QED
  BY <1>1, <1>2, <1>3, <1>4, <1>5, <1>6, <1>7, <1>8 DEF Request, Create

(***************************************************************************)
(* One lemma per statement.                                                 *)
(***************************************************************************)
LEMMA InitInv == Init => IInv
<1> SUFFICES ASSUME Init PROVE IInv
  OBVIOUS
<1> USE LoanApplicationsAssumption
<1>1. NoRow \in Row /\ NoRow.status = "absent" /\ NoRow.required = 1
  BY DEF NoRow, Row, Status
<1>2. TypeOK
  BY <1>1, IdleOK DEF Init, TypeOK, Consent
<1>3. \A a \in Application : AppOK(a)
  BY <1>1 DEF Init, AppOK, QuorumOf, Open
<1> QED
  BY <1>2, <1>3, IdleOK DEF Init, IInv

LEMMA AskedPreserves ==
  ASSUME IInv, NEW c \in Call, NEW a \in Application, NEW new \in CallState, Asked(c, a, new)
  PROVE  IInv'
<1>1. Typed /\ calls' = [calls EXCEPT ![c] = new]
  BY DEF Asked, Begin, Typed, IInv, TypeOK
<1> QED
  BY <1>1, LocalStep DEF Asked

LEMMA CreatePreserves ==
  ASSUME IInv, NEW c \in Call, NEW a \in Application, Create(c, a)
  PROVE  IInv'
<1>1. PICK u \in User, n \in Required, named \in SUBSET Guarantor :
         CreateLoanApplication(c, u, a, n, named)
  BY DEF Create
<1>2. PICK row : row = [NoRow EXCEPT !.status = "draft", !.required = n, !.maker = u]
  OBVIOUS
<1>3. /\ row \in Row /\ row.status = "draft" /\ row.required > 0 /\ row.cycle = 0
  <2>1. n \in Nat /\ n > 0
    BY LoanApplicationsAssumption
  <2> QED
    BY <1>2, <2>1 DEF NoRow, Row, Status
<1>4. PICK new : new = [Idle EXCEPT !.pc = "name", !.app = a, !.named = named]
  OBVIOUS
<1>5. new \in CallState /\ new.pc = "name" /\ new.app = a
  BY <1>4 DEF Idle, CallState, PC, Consent
<1>6. /\ apps' = [apps EXCEPT ![a] = row] /\ calls' = [calls EXCEPT ![c] = new]
      /\ UNCHANGED <<decisions, consent, loans>> /\ apps[a].status = "absent"
  BY <1>1, <1>2, <1>4 DEF CreateLoanApplication, Begin
<1>7. Typed
  BY <1>1 DEF CreateLoanApplication, Begin, Typed, IInv, TypeOK
<1>8. /\ apps' \in [Application -> Row] /\ apps'[a] = row
      /\ \A b \in Application \ {a} : apps'[b] = apps[b]
  BY <1>3, <1>6 DEF IInv, TypeOK
<1>9. \A d \in decisions[a] : d.cycle <= 0
  BY <1>6 DEF IInv, AppOK, NoRow
<1>10. AppOK(a)'
  BY <1>3, <1>6, <1>8, <1>9 DEF AppOK, QuorumOf, Open
<1>11. decisions' \in [Application -> SUBSET Decision]
  BY <1>6 DEF IInv
<1> QED
  BY <1>5, <1>6, <1>7, <1>8, <1>10, <1>11, AppStep DEF CallOK

\* Statements on the guarantors and the ledger, and failures.
LEMMA QuietPreserves ==
  ASSUME IInv, NEW c \in Call,
         \/ ClearGuarantors(c)
         \/ NameGuarantors(c)
         \/ RecordConsent(c)
         \/ PostLoan(c)
         \/ Fail(c)
  PROVE  IInv'
<1>1. PICK call \in CallState, a \in Application : call = calls[c] /\ a = call.app
  BY DEF ClearGuarantors, NameGuarantors, RecordConsent, PostLoan, Fail, IInv, TypeOK, CallOK
<1>2. UNCHANGED <<apps, decisions>> /\ disturbed' \subseteq Application
  BY DEF ClearGuarantors, NameGuarantors, RecordConsent, PostLoan, Fail, Goto, Return, IInv, TypeOK
<1>3. loans' \in [Application -> 0..MaxLoans]
  <2>1. CASE PostLoan(c)
    <3>1. loans[a] \in 0..MaxLoans /\ loans[a] < MaxLoans /\ loans' = [loans EXCEPT ![a] = @ + 1]
      BY <1>1, <2>1 DEF PostLoan, IInv, TypeOK
    <3>2. loans[a] + 1 \in 0..MaxLoans
      BY <3>1, LoanApplicationsAssumption
    <3> QED
      BY <3>1, <3>2 DEF IInv, TypeOK
  <2>2. CASE loans' = loans
    BY <2>2 DEF IInv, TypeOK
  <2> QED
    BY <2>1, <2>2 DEF ClearGuarantors, NameGuarantors, RecordConsent, Fail
<1>4. consent' \in [Application -> [Guarantor -> Consent]]
  <2>1. \/ consent' = consent
        \/ \E new \in [Guarantor -> Consent] : consent' = [consent EXCEPT ![a] = new]
    <3>1. CASE ClearGuarantors(c)
      <4>1. [g \in Guarantor |-> "none"] \in [Guarantor -> Consent]
        BY DEF Consent
      <4> QED
        BY <1>1, <3>1, <4>1 DEF ClearGuarantors
    <3>2. CASE NameGuarantors(c)
      <4>1. [g \in Guarantor |-> IF g \in calls[c].named THEN "pending" ELSE consent[a][g]]
                \in [Guarantor -> Consent]
        BY DEF Consent, IInv, TypeOK
      <4>2. \/ consent' = consent
            \/ consent' = [consent EXCEPT ![a] =
                   [g \in Guarantor |-> IF g \in calls[c].named THEN "pending" ELSE consent[a][g]]]
        BY <1>1, <3>2 DEF NameGuarantors, IInv, TypeOK
      <4> QED
        BY <4>1, <4>2
    <3>3. CASE RecordConsent(c)
      <4>1. [g \in Guarantor |-> IF g \in calls[c].named \cap Named(a)
                                 THEN calls[c].answer ELSE consent[a][g]]
                \in [Guarantor -> Consent]
        BY <1>1 DEF CallState, IInv, TypeOK
      <4>2. consent' = [consent EXCEPT ![a] =
                   [g \in Guarantor |-> IF g \in calls[c].named \cap Named(a)
                                        THEN calls[c].answer ELSE consent[a][g]]]
        BY <1>1, <3>3 DEF RecordConsent, IInv, TypeOK
      <4> QED
        BY <4>1, <4>2
    <3> QED
      BY <3>1, <3>2, <3>3 DEF PostLoan, Fail
  <2> QED
    BY <2>1 DEF IInv, TypeOK
<1>5. PICK new \in CallState : calls' = [calls EXCEPT ![c] = new] /\ CallOK(new)
  <2>1. CASE calls' = [calls EXCEPT ![c] = Idle]
    BY <2>1, IdleOK
  <2>2. ASSUME NEW pc \in {"name", "mark"}, Goto(c, pc)
        PROVE  \E new \in CallState : calls' = [calls EXCEPT ![c] = new] /\ CallOK(new)
    <3>1. pc \in PC
      BY DEF PC
    <3>2. PICK new \in CallState :
             calls' = [calls EXCEPT ![c] = new] /\ new.pc = pc /\ new.app = calls[c].app
      BY <2>2, <3>1, GotoIs
    <3> QED
      BY <1>1, <3>2 DEF CallOK
  <2> QED
    BY <2>1, <2>2 DEF ClearGuarantors, NameGuarantors, RecordConsent, PostLoan, Fail, Return
<1> QED
  BY <1>2, <1>3, <1>4, <1>5, LocalStep DEF Typed

\* Statements that move the status of an application and leave its votes.
LEMMA MovePreserves ==
  ASSUME IInv, NEW c \in Call,
         \/ PatchDraft(c)
         \/ AppraiseDecision(c)
         \/ MarkDisbursed(c)
         \/ LinkLoan(c)
  PROVE  IInv'
<1>1. PICK call \in CallState, a \in Application :
         call = calls[c] /\ a = call.app /\ apps[a] \in Row
  BY DEF PatchDraft, AppraiseDecision, MarkDisbursed, LinkLoan, IInv, TypeOK, CallOK
<1>2. UNCHANGED <<decisions, consent, loans, disturbed>>
  BY DEF PatchDraft, AppraiseDecision, MarkDisbursed, LinkLoan, Goto, Return
<1>3. PICK row \in Row :
         /\ apps' = [apps EXCEPT ![a] = row]
         /\ row.cycle = apps[a].cycle /\ row.required = apps[a].required
         /\ row.maker = apps[a].maker
         /\ row.status = "absent" => row = apps[a]
         /\ row.status \in Open => /\ apps[a].status \in Open /\ row.count = apps[a].count
                                   /\ row.status = "approved" <=> apps[a].status = "approved"
  <2> DEFINE Near(row) ==
         /\ row.cycle = apps[a].cycle /\ row.required = apps[a].required
         /\ row.maker = apps[a].maker
         /\ row.status = "absent" => row = apps[a]
         /\ row.status \in Open => /\ apps[a].status \in Open /\ row.count = apps[a].count
                                   /\ row.status = "approved" <=> apps[a].status = "approved"
  <2> SUFFICES \E row \in Row : apps' = [apps EXCEPT ![a] = row] /\ Near(row)
    OBVIOUS
  <2>1. CASE UNCHANGED apps
    BY <1>1, <2>1 DEF IInv, TypeOK
  <2>2. CASE PatchDraft(c) /\ apps' = [apps EXCEPT ![a].status = "draft", ![a].count = 0]
    <3>1. PICK row : row = [apps[a] EXCEPT !.status = "draft", !.count = 0]
      OBVIOUS
    <3>2. row \in Row /\ Near(row)
      BY <1>1, <3>1 DEF Row, Status, Open
    <3> QED
      BY <2>2, <3>1, <3>2 DEF IInv, TypeOK
  <2>3. CASE /\ apps[a].status \in {"submitted", "appraised"}
             /\ apps' = [apps EXCEPT ![a].status = "appraised"]
    <3>1. PICK row : row = [apps[a] EXCEPT !.status = "appraised"]
      OBVIOUS
    <3>2. row \in Row /\ Near(row)
      BY <1>1, <2>3, <3>1 DEF Row, Status, Open
    <3> QED
      BY <2>3, <3>1, <3>2 DEF IInv, TypeOK
  <2>4. CASE apps' = [apps EXCEPT ![a].status = "disbursed", ![a].loan = TRUE]
    <3>1. PICK row : row = [apps[a] EXCEPT !.status = "disbursed", !.loan = TRUE]
      OBVIOUS
    <3>2. row \in Row /\ Near(row)
      BY <1>1, <3>1 DEF Row, Status, Open
    <3> QED
      BY <2>4, <3>1, <3>2 DEF IInv, TypeOK
  <2>5. CASE Exists(a) /\ apps' = [apps EXCEPT ![a].linked = TRUE]
    <3>1. PICK row : row = [apps[a] EXCEPT !.linked = TRUE]
      OBVIOUS
    <3>2. row \in Row /\ Near(row)
      BY <1>1, <2>5, <3>1 DEF Row, Status, Open, Exists
    <3> QED
      BY <2>5, <3>1, <3>2 DEF IInv, TypeOK
  <2> QED
    BY <1>1, <2>1, <2>2, <2>3, <2>4, <2>5 DEF PatchDraft, AppraiseDecision, MarkDisbursed, LinkLoan
<1>4. PICK new \in CallState : calls' = [calls EXCEPT ![c] = new] /\ CallOK(new)
  <2>1. CASE Return(c)
    BY <2>1, IdleOK DEF Return
  <2>2. ASSUME NEW pc \in {"clear", "link"}, Goto(c, pc)
        PROVE  \E new \in CallState : calls' = [calls EXCEPT ![c] = new] /\ CallOK(new)
    <3>1. pc \in PC
      BY DEF PC
    <3>2. PICK new \in CallState :
             calls' = [calls EXCEPT ![c] = new] /\ new.pc = pc /\ new.app = calls[c].app
      BY <2>2, <3>1, GotoIs
    <3> QED
      BY <1>1, <3>2 DEF CallOK
  <2> QED
    BY <2>1, <2>2 DEF PatchDraft, AppraiseDecision, MarkDisbursed, LinkLoan
<1>5. /\ apps' \in [Application -> Row] /\ apps'[a] = row
      /\ \A b \in Application \ {a} : apps'[b] = apps[b]
  BY <1>3 DEF IInv, TypeOK
<1>6. AppOK(a)'
  BY <1>2, <1>3, <1>5, RowKept
<1>7. Typed /\ decisions' \in [Application -> SUBSET Decision]
  BY <1>2 DEF Typed, IInv, TypeOK
<1> QED
  BY <1>2, <1>4, <1>5, <1>6, <1>7, AppStep

LEMMA DeleteRowPreserves ==
  ASSUME IInv, NEW c \in Call, DeleteRow(c)
  PROVE  IInv'
<1>1. PICK a \in Application : a = calls[c].app /\ apps[a] \in Row
  BY DEF DeleteRow, IInv, TypeOK, CallOK
<1>2. CASE UNCHANGED <<apps, decisions, consent>>
  <2>1. Typed /\ calls' = [calls EXCEPT ![c] = Idle]
    BY <1>2 DEF DeleteRow, Return, Typed, IInv, TypeOK
  <2> QED
    BY <1>2, <2>1, LocalStep, IdleOK
<1>3. CASE /\ Exists(a) /\ apps' = [apps EXCEPT ![a].status = "deleted"]
           /\ decisions' = [decisions EXCEPT ![a] = {}]
           /\ consent' = [consent EXCEPT ![a] = [g \in Guarantor |-> "none"]]
  <2>1. PICK row : row = [apps[a] EXCEPT !.status = "deleted"]
    OBVIOUS
  <2>2. row \in Row /\ row.status = "deleted" /\ row.required = apps[a].required
    BY <1>1, <2>1 DEF Row, Status
  <2>3. /\ apps' \in [Application -> Row] /\ apps'[a] = row
        /\ \A b \in Application \ {a} : apps'[b] = apps[b]
    BY <1>3, <2>1, <2>2 DEF IInv, TypeOK
  <2>4. /\ decisions' \in [Application -> SUBSET Decision] /\ decisions'[a] = {}
        /\ \A b \in Application \ {a} : decisions'[b] = decisions[b]
    BY <1>3 DEF IInv
  <2>5. Typed /\ calls' = [calls EXCEPT ![c] = Idle]
    <3>1. [g \in Guarantor |-> "none"] \in [Guarantor -> Consent]
      BY DEF Consent
    <3> QED
      BY <1>3, <3>1 DEF DeleteRow, Return, Typed, IInv, TypeOK
  <2>6. AppOK(a)'
    BY <2>2, <2>3, <2>4 DEF AppOK, QuorumOf, Open, IInv
  <2> QED
    BY <2>3, <2>4, <2>5, <2>6, AppStep, IdleOK
<1> QED
  BY <1>1, <1>2, <1>3 DEF DeleteRow

\* A new cycle has no votes.
LEMMA SubmitPreserves ==
  ASSUME IInv, NEW c \in Call, SubmitDecision(c)
  PROVE  IInv'
<1>1. PICK a \in Application : a = calls[c].app /\ apps[a] \in Row /\ AppOK(a)
  BY DEF SubmitDecision, IInv, TypeOK, CallOK
<1>2. /\ Typed /\ calls' = [calls EXCEPT ![c] = Idle] /\ decisions' = decisions
      /\ decisions' \in [Application -> SUBSET Decision]
  BY DEF SubmitDecision, Return, Typed, IInv, TypeOK
<1>3. CASE UNCHANGED apps
  BY <1>2, <1>3, LocalStep, IdleOK
<1>4. CASE apps' = [apps EXCEPT ![a].status = "submitted", ![a].count = 0, ![a].cycle = @ + 1]
  <2>1. PICK n \in Nat : n = apps[a].cycle + 1
    BY <1>1 DEF Row
  <2>2. PICK row : row = [apps[a] EXCEPT !.status = "submitted", !.count = 0, !.cycle = n]
    OBVIOUS
  <2>3. /\ row \in Row /\ row.status = "submitted" /\ row.count = 0
        /\ row.cycle = apps[a].cycle + 1 /\ row.required = apps[a].required
    <3>1. row \in Row
      BY <1>1, <2>2 DEF Row, Status, Open
    <3>2. row.status = "submitted" /\ row.count = 0 /\ row.cycle = n /\ row.required = apps[a].required
      BY <1>1, <2>2 DEF Row
    <3> QED
      BY <2>1, <3>1, <3>2
  <2>4. /\ apps' \in [Application -> Row] /\ apps'[a] = row
        /\ \A b \in Application \ {a} : apps'[b] = apps[b]
    BY <1>4, <2>1, <2>2, <2>3 DEF IInv, TypeOK
  <2>5. \A d \in decisions[a] : d.cycle \in Nat /\ d.cycle < row.cycle
    BY <1>1, <2>1, <2>3 DEF AppOK, IInv, Decision, Row
  <2>6. \A v : Voters(a, v)' = {}
    BY <1>2, <2>4, <2>5 DEF Voters
  <2>7. Cardinality({}) = 0
    BY FS_EmptySet
  <2>8. QuorumOf(a)'
    <3>1. Voters(a, "approved")' = {} /\ Voters(a, "rejected")' = {}
      BY <2>6
    <3>2. row.required > 0 /\ row.required \in Nat
      BY <1>1, <2>3 DEF AppOK, Row
    <3> QED
      BY <2>3, <2>4, <2>7, <3>1, <3>2 DEF QuorumOf
  <2>9. AppOK(a)'
    <3>1. \A d \in decisions'[a] : d.cycle <= row.cycle
      <4>1. row.cycle \in Nat
        BY <2>3 DEF Row
      <4> QED
        BY <1>2, <2>5, <4>1
    <3> QED
      BY <1>1, <2>3, <2>4, <2>8, <3>1 DEF AppOK
  <2> QED
    BY <1>2, <2>4, <2>9, AppStep, IdleOK
<1> QED
  BY <1>1, <1>3, <1>4 DEF SubmitDecision

\* The vote of one who has not voted in this cycle counts once.
LEMMA ApprovePreserves ==
  ASSUME IInv, NEW c \in Call, ApproveDecision(c)
  PROVE  IInv'
<1>1. PICK a \in Application, u \in User :
         a = calls[c].app /\ u = calls[c].user /\ apps[a] \in Row /\ AppOK(a)
  BY DEF ApproveDecision, IInv, TypeOK, CallOK
<1>2. Typed /\ calls' = [calls EXCEPT ![c] = Idle]
  BY DEF ApproveDecision, Return, Typed, IInv, TypeOK
<1>3. CASE UNCHANGED <<apps, decisions>>
  BY <1>2, <1>3, LocalStep, IdleOK
<1>4. CASE /\ apps[a].status \in {"appraised", "approved"} /\ MayDecide(a, u)
           /\ decisions' = [decisions EXCEPT ![a] = @ \cup
                  {[cycle |-> apps[a].cycle, user |-> u, verdict |-> "approved"]}]
           /\ apps' = [apps EXCEPT ![a].count = Counted(a) + 1, ![a].status =
                  IF Counted(a) + 1 >= apps[a].required THEN "approved" ELSE "appraised"]
  <2>1. PICK ds : ds = Voters(a, "approved")
    OBVIOUS
  <2>2. /\ IsFiniteSet(ds) /\ u \notin ds /\ apps[a].maker # u /\ apps[a].maker \notin ds
        /\ Voters(a, "rejected") = {}
    BY <1>1, <1>4, <2>1, VotersFinite DEF MayDecide, AppOK, QuorumOf, Open
  <2>3. Cardinality(ds) \in Nat /\ Cardinality(ds \cup {u}) = Cardinality(ds) + 1
    BY <2>2, FS_AddElement, FS_CardinalityType
  <2>4. PICK n \in Nat : n = Counted(a) + 1 /\ n = Cardinality(ds \cup {u})
    BY <2>1, <2>3 DEF Counted
  <2>5. PICK s \in {"approved", "appraised"} :
           s = IF n >= apps[a].required THEN "approved" ELSE "appraised"
    OBVIOUS
  <2>6. PICK row : row = [apps[a] EXCEPT !.count = n, !.status = s]
    OBVIOUS
  <2>7. /\ row \in Row /\ row.status = s /\ row.count = n /\ row.cycle = apps[a].cycle
        /\ row.required = apps[a].required /\ row.maker = apps[a].maker
    BY <1>1, <2>6 DEF Row, Status, Open
  <2>8. /\ apps' \in [Application -> Row] /\ apps'[a] = row
        /\ \A b \in Application \ {a} : apps'[b] = apps[b]
    BY <1>4, <2>4, <2>5, <2>6, <2>7 DEF IInv, TypeOK
  <2>9. PICK vote : vote = [cycle |-> apps[a].cycle, user |-> u, verdict |-> "approved"]
    OBVIOUS
  <2>10. /\ vote \in Decision /\ vote.cycle = apps[a].cycle /\ vote.user = u
         /\ vote.verdict = "approved"
    BY <1>1, <2>9 DEF Decision, Row
  <2>11. /\ decisions' \in [Application -> SUBSET Decision]
         /\ decisions'[a] = decisions[a] \cup {vote}
         /\ \A b \in Application \ {a} : decisions'[b] = decisions[b]
    BY <1>4, <2>9, <2>10 DEF IInv
  <2>12. Voters(a, "approved")' = ds \cup {u} /\ Voters(a, "rejected")' = {}
    BY <2>1, <2>2, <2>7, <2>8, <2>10, <2>11 DEF Voters
  <2>13. QuorumOf(a)'
    BY <2>2, <2>4, <2>5, <2>7, <2>8, <2>12 DEF QuorumOf
  <2>14. AppOK(a)'
    <3>1. \A d \in decisions'[a] : d.cycle <= apps[a].cycle
      BY <1>1, <2>10, <2>11 DEF AppOK, Row
    <3> QED
      BY <1>1, <2>5, <2>7, <2>8, <2>13, <3>1 DEF AppOK
  <2> QED
    BY <1>2, <2>8, <2>11, <2>14, AppStep, IdleOK
<1> QED
  BY <1>1, <1>3, <1>4 DEF ApproveDecision

LEMMA RejectPreserves ==
  ASSUME IInv, NEW c \in Call, RejectDecision(c)
  PROVE  IInv'
<1>1. PICK a \in Application, u \in User :
         a = calls[c].app /\ u = calls[c].user /\ apps[a] \in Row /\ AppOK(a)
  BY DEF RejectDecision, IInv, TypeOK, CallOK
<1>2. Typed /\ calls' = [calls EXCEPT ![c] = Idle]
  BY DEF RejectDecision, Return, Typed, IInv, TypeOK
<1>3. CASE UNCHANGED <<apps, decisions>>
  BY <1>2, <1>3, LocalStep, IdleOK
<1>4. CASE /\ decisions' = [decisions EXCEPT ![a] = @ \cup
                  {[cycle |-> apps[a].cycle, user |-> u, verdict |-> "rejected"]}]
           /\ apps' = [apps EXCEPT ![a].status = "rejected"]
  <2>1. PICK row : row = [apps[a] EXCEPT !.status = "rejected"]
    OBVIOUS
  <2>2. /\ row \in Row /\ row.status = "rejected" /\ row.cycle = apps[a].cycle
        /\ row.required = apps[a].required
    BY <1>1, <2>1 DEF Row, Status, Open
  <2>3. /\ apps' \in [Application -> Row] /\ apps'[a] = row
        /\ \A b \in Application \ {a} : apps'[b] = apps[b]
    BY <1>4, <2>1, <2>2 DEF IInv, TypeOK
  <2>4. PICK vote : vote = [cycle |-> apps[a].cycle, user |-> u, verdict |-> "rejected"]
    OBVIOUS
  <2>5. vote \in Decision /\ vote.cycle = apps[a].cycle
    BY <1>1, <2>4 DEF Decision, Row
  <2>6. /\ decisions' \in [Application -> SUBSET Decision]
        /\ decisions'[a] = decisions[a] \cup {vote}
        /\ \A b \in Application \ {a} : decisions'[b] = decisions[b]
    BY <1>4, <2>4, <2>5 DEF IInv
  <2>7. \A d \in decisions'[a] : d.cycle <= apps[a].cycle
    BY <1>1, <2>5, <2>6 DEF AppOK, Row
  <2>8. AppOK(a)'
    BY <1>1, <2>2, <2>3, <2>7 DEF AppOK, QuorumOf, Open
  <2> QED
    BY <1>2, <2>3, <2>6, <2>8, AppStep, IdleOK
<1> QED
  BY <1>1, <1>3, <1>4 DEF RejectDecision

LEMMA NextInv == IInv /\ [Next]_vars => IInv'
<1> SUFFICES ASSUME IInv, [Next]_vars PROVE IInv'
  OBVIOUS
<1>1. ASSUME NEW c \in Call, NEW a \in Application, Request(c, a) PROVE IInv'
  BY <1>1, RequestIs, AskedPreserves, CreatePreserves
<1>2. ASSUME NEW c \in Call, Statement(c) PROVE IInv'
  BY <1>2, QuietPreserves, MovePreserves, DeleteRowPreserves, SubmitPreserves,
     ApprovePreserves, RejectPreserves DEF Statement
<1>3. ASSUME NEW c \in Call, Fail(c) PROVE IInv'
  BY <1>3, QuietPreserves
<1>4. CASE UNCHANGED vars
  <2>1. \A a \in Application : AppOK(a)'
    BY <1>4, RowKept DEF vars, IInv, AppOK, QuorumOf
  <2> QED
    BY <1>4, <2>1 DEF vars, IInv, TypeOK, CallOK
<1> QED
  BY <1>1, <1>2, <1>3, <1>4 DEF Next

\* What every reachable state of the workflow satisfies.
THEOREM ApplicationsInvariant == Spec => []IInv
  BY InitInv, NextInv, PTL DEF Spec

\* Applications, votes, consents and handlers keep their types.
THEOREM ApplicationsTypeCorrect == Spec => []TypeOK
<1>1. IInv => TypeOK
  BY DEF IInv
<1> QED
  BY <1>1, ApplicationsInvariant, PTL

\* However handlers overlap or fail, an application in review carries the votes of its
\* current cycle: it is approved exactly when enough people other than its maker agreed.
THEOREM ApplicationsApprovedByQuorum == Spec => []ApprovedByQuorum
<1>1. IInv => ApprovedByQuorum
  BY DEF IInv, AppOK, QuorumOf, ApprovedByQuorum
<1> QED
  BY <1>1, ApplicationsInvariant, PTL

(***************************************************************************)
(* Applications whose handlers ran one after the other: what a handler has  *)
(* read still holds at every one of its statements, one application at most *)
(* is open, and the loans of each agree with its status.                    *)
(***************************************************************************)
LoanOK(a) ==
    /\ loans[a] = IF apps[a].status = "disbursed" THEN 1 ELSE 0
    /\ apps[a].loan <=> apps[a].status = "disbursed"

ConsentOK(a) ==
    apps[a].status = "approved" => \A g \in Guarantor : consent[a][g] \in {"none", "accepted"}

Phase(call) ==
    /\ Checked(call)
    /\ call.pc = "post" => loans[call.app] = 0
    /\ call.pc = "mark" => loans[call.app] = 1

SerialOK ==
    disturbed # Application =>
        /\ \A c, d \in Busy : c = d
        /\ \A a \in Application : apps[a].status \in Open => NoOtherOpen(a)
        /\ \A a \in Application : ConsentOK(a)
        /\ \A a \in Application : (\A c \in Busy : calls[c].pc = "mark" => calls[c].app # a) => LoanOK(a)
        /\ \A c \in Busy : Phase(calls[c])

\* One handler moves, and writes no application, consent or loan but its own.
LEMMA SerialStep ==
  ASSUME IInv, SerialOK, NEW c \in Call, NEW a \in Application,
         NEW new, calls' = [calls EXCEPT ![c] = new], new.pc # "idle" => new.app = a,
         calls[c].pc # "idle" => calls[c].app = a,
         \A b \in Application \ {a} :
            apps'[b] = apps[b] /\ consent'[b] = consent[b] /\ loans'[b] = loans[b],
         disturbed' # Application =>
            /\ disturbed # Application /\ Busy \subseteq {c}
            /\ apps'[a].status \in Open => NoOtherOpen(a)
            /\ ConsentOK(a)'
            /\ new.pc # "mark" => LoanOK(a)'
            /\ new.pc # "idle" => Phase(new)'
  PROVE  SerialOK'
<1> SUFFICES ASSUME disturbed' # Application
             PROVE  /\ \A x, y \in Busy' : x = y
                    /\ \A b \in Application : (apps[b].status \in Open => NoOtherOpen(b))'
                    /\ \A b \in Application : ConsentOK(b)'
                    /\ \A b \in Application :
                          (\A x \in Busy' : calls'[x].pc = "mark" => calls'[x].app # b) => LoanOK(b)'
                    /\ \A x \in Busy' : Phase(calls[x])'
  BY DEF SerialOK
<1>1. calls'[c] = new /\ \A d \in Call \ {c} : calls'[d] = calls[d]
  BY DEF IInv, TypeOK
<1>2. Busy' = IF new.pc = "idle" THEN {} ELSE {c}
  BY <1>1 DEF Busy
<1>3. \A b \in Application : apps[b].status \in Open => NoOtherOpen(b)
  BY DEF SerialOK
<1>4. ASSUME NEW b \in Application PROVE (apps[b].status \in Open => NoOtherOpen(b))'
  BY <1>3 DEF NoOtherOpen
<1>5. ASSUME NEW b \in Application PROVE ConsentOK(b)'
  <2>1. ConsentOK(b)
    BY DEF SerialOK
  <2> QED
    BY <2>1 DEF ConsentOK
<1>6. ASSUME NEW b \in Application, \A x \in Busy' : calls'[x].pc = "mark" => calls'[x].app # b
      PROVE  LoanOK(b)'
  <2>1. CASE b = a
    BY <1>1, <1>2, <1>6, <2>1
  <2>2. CASE b # a
    <3>1. \A x \in Busy : calls[x].app # b
      BY <2>2 DEF Busy
    <3>2. LoanOK(b)
      BY <3>1 DEF SerialOK
    <3> QED
      BY <2>2, <3>2 DEF LoanOK
  <2> QED
    BY <2>1, <2>2
<1>7. \A x \in Busy' : Phase(calls[x])'
  <2> SUFFICES ASSUME new.pc # "idle" PROVE Phase(calls[c])'
    BY <1>2
  <2> QED
    BY <1>1 DEF Phase, Checked
<1> QED
  BY <1>2, <1>4, <1>5, <1>6, <1>7

\* What a handler finds at its next statement when no other came in between.
LEMMA AtWork ==
  ASSUME SerialOK, disturbed # Application, NEW c \in Call, calls[c].pc # "idle"
  PROVE  /\ Phase(calls[c]) /\ Busy \subseteq {c}
         /\ \A a \in Application : /\ ConsentOK(a)
                                   /\ apps[a].status \in Open => NoOtherOpen(a)
                                   /\ calls[c].pc # "mark" => LoanOK(a)
<1>1. c \in Busy
  BY DEF Busy
<1> QED
  BY <1>1 DEF SerialOK

LEMMA AskedSerial ==
  ASSUME IInv, SerialOK, NEW c \in Call, NEW a \in Application, NEW new \in CallState,
         Asked(c, a, new)
  PROVE  SerialOK'
<1>1. /\ calls[c].pc = "idle" /\ calls' = [calls EXCEPT ![c] = new] /\ new.app = a
      /\ UNCHANGED <<apps, decisions, consent, loans>> /\ Checked(new)
      /\ new.pc \notin {"idle", "mark"}
  BY DEF Asked, Begin
<1>2. ASSUME disturbed' # Application
      PROVE  /\ disturbed # Application /\ Busy = {}
             /\ \A b \in Application : ConsentOK(b) /\ LoanOK(b)
             /\ apps[a].status \in Open => NoOtherOpen(a)
  <2>1. disturbed # Application /\ Busy = {}
    BY <1>2 DEF Asked, Begin
  <2> QED
    BY <2>1 DEF SerialOK
<1>3. ASSUME disturbed' # Application PROVE ConsentOK(a)' /\ LoanOK(a)'
  BY <1>1, <1>2, <1>3 DEF ConsentOK, LoanOK
<1>4. ASSUME disturbed' # Application PROVE Phase(new)'
  <2>1. Phase(new)
    BY <1>1, <1>2, <1>4 DEF Phase, Checked, LoanOK
  <2> QED
    BY <1>1, <2>1 DEF Phase, Checked, NoOtherOpen, AssertAllGuarantorsAccepted, Named
<1> QED
  BY <1>1, <1>2, <1>3, <1>4, SerialStep

LEMMA CreateSerial ==
  ASSUME IInv, SerialOK, NEW c \in Call, NEW a \in Application, Create(c, a)
  PROVE  SerialOK'
<1>1. PICK u \in User, n \in Required, named \in SUBSET Guarantor :
         CreateLoanApplication(c, u, a, n, named)
  BY DEF Create
<1>2. PICK new : new = [Idle EXCEPT !.pc = "name", !.app = a, !.named = named]
  OBVIOUS
<1>3. new.pc = "name" /\ new.app = a
  BY <1>2 DEF Idle
<1>4. /\ calls[c].pc = "idle" /\ calls' = [calls EXCEPT ![c] = new]
      /\ UNCHANGED <<consent, loans>> /\ apps[a].status = "absent"
  BY <1>1, <1>2 DEF CreateLoanApplication, Begin
<1>5. /\ apps'[a].status = "draft" /\ ~apps'[a].loan
      /\ \A b \in Application \ {a} : apps'[b] = apps[b]
  BY <1>1 DEF CreateLoanApplication, IInv, TypeOK, NoRow
<1>6. ASSUME disturbed' # Application PROVE disturbed # Application /\ Busy = {} /\ LoanOK(a)
  <2>1. disturbed # Application /\ Busy = {}
    BY <1>1, <1>6 DEF CreateLoanApplication, Begin
  <2> QED
    BY <2>1 DEF SerialOK
<1>7. ASSUME disturbed' # Application PROVE ConsentOK(a)' /\ LoanOK(a)' /\ Phase(new)'
  BY <1>3, <1>4, <1>5, <1>6, <1>7 DEF ConsentOK, LoanOK, Phase, Checked
<1>8. apps'[a].status \notin Open
  BY <1>5 DEF Open
<1> QED
  BY <1>3, <1>4, <1>5, <1>6, <1>7, <1>8, SerialStep

LEMMA FailSerial ==
  ASSUME NEW c \in Call, Fail(c)
  PROVE  SerialOK'
  BY DEF Fail, SerialOK

LEMMA GuarantorsSerial ==
  ASSUME IInv, SerialOK, NEW c \in Call,
         \/ ClearGuarantors(c)
         \/ NameGuarantors(c)
         \/ RecordConsent(c)
  PROVE  SerialOK'
<1>1. PICK call \in CallState, a \in Application :
         call = calls[c] /\ a = call.app /\ call.pc \in {"clear", "name", "respond"}
  BY DEF ClearGuarantors, NameGuarantors, RecordConsent, IInv, TypeOK, CallOK
<1>2. /\ UNCHANGED <<apps, loans, disturbed>>
      /\ \A b \in Application \ {a} : consent'[b] = consent[b]
  BY <1>1 DEF ClearGuarantors, NameGuarantors, RecordConsent, Goto, Return, IInv, TypeOK
<1>3. PICK new \in CallState :
         /\ calls' = [calls EXCEPT ![c] = new]
         /\ \/ new.pc = "idle"
            \/ call.pc = "clear" /\ new.pc = "name" /\ new.app = a
  <2>1. CASE Return(c)
    BY <2>1, IdleOK DEF Return
  <2>2. CASE ClearGuarantors(c)
    <3>1. "name" \in PC /\ Goto(c, "name") /\ call.pc = "clear"
      BY <1>1, <2>2 DEF ClearGuarantors, PC
    <3> QED
      BY <1>1, <3>1, GotoIs
  <2> QED
    BY <2>1, <2>2 DEF NameGuarantors, RecordConsent
<1>4. ASSUME disturbed # Application
      PROVE  /\ Phase(call) /\ Busy \subseteq {c} /\ LoanOK(a)
             /\ apps[a].status \in {"draft", "submitted", "appraised"}
             /\ apps[a].status \in Open => NoOtherOpen(a)
  <2>1. /\ Phase(call) /\ Busy \subseteq {c} /\ LoanOK(a)
        /\ apps[a].status \in Open => NoOtherOpen(a)
    BY <1>1, <1>4, AtWork
  <2> QED
    BY <1>1, <2>1 DEF Phase, Checked
<1>5. ASSUME disturbed # Application PROVE ConsentOK(a)' /\ LoanOK(a)'
  BY <1>2, <1>4, <1>5 DEF ConsentOK, LoanOK
<1>6. ASSUME disturbed # Application, new.pc # "idle" PROVE Phase(new)'
  <2>1. call.pc = "clear" /\ new.pc = "name" /\ new.app = a
    BY <1>3, <1>6
  <2>2. apps[a].status \in {"draft", "appraised"}
    BY <1>1, <1>4, <1>6, <2>1 DEF Phase, Checked
  <2> QED
    BY <1>2, <2>1, <2>2 DEF Phase, Checked
<1> QED
  BY <1>1, <1>2, <1>3, <1>4, <1>5, <1>6, SerialStep

LEMMA PostSerial ==
  ASSUME IInv, SerialOK, NEW c \in Call, PostLoan(c)
  PROVE  SerialOK'
<1>1. PICK call \in CallState, a \in Application :
         call = calls[c] /\ a = call.app /\ call.pc = "post" /\ loans[a] \in Nat
  BY LoanApplicationsAssumption DEF PostLoan, IInv, TypeOK, CallOK
<1>2. /\ UNCHANGED <<apps, consent, disturbed>> /\ loans'[a] = loans[a] + 1
      /\ \A b \in Application \ {a} : loans'[b] = loans[b]
  BY <1>1 DEF PostLoan, Goto, IInv, TypeOK
<1>3. "mark" \in PC /\ Goto(c, "mark")
  BY DEF PostLoan, PC
<1>4. PICK new \in CallState :
         calls' = [calls EXCEPT ![c] = new] /\ new.pc = "mark" /\ new.app = a
  BY <1>1, <1>3, GotoIs
<1>5. ASSUME disturbed # Application
      PROVE  /\ Phase(call) /\ Busy \subseteq {c} /\ ConsentOK(a)
             /\ apps[a].status \in Open => NoOtherOpen(a)
  BY <1>1, <1>5, AtWork
<1>6. ASSUME disturbed # Application PROVE Phase(new)' /\ ConsentOK(a)'
  BY <1>1, <1>2, <1>4, <1>5, <1>6 DEF Phase, Checked, ConsentOK
<1> QED
  BY <1>1, <1>2, <1>4, <1>5, <1>6, SerialStep

LEMMA PatchSerial ==
  ASSUME IInv, SerialOK, NEW c \in Call, PatchDraft(c)
  PROVE  SerialOK'
<1>1. PICK call \in CallState, a \in Application :
         call = calls[c] /\ a = call.app /\ call.pc = "patch" /\ apps[a] \in Row
  BY DEF PatchDraft, IInv, TypeOK, CallOK
<1>2. /\ UNCHANGED <<consent, loans, disturbed>>
      /\ \A b \in Application \ {a} : apps'[b] = apps[b]
  BY <1>1 DEF PatchDraft, Goto, Return, IInv, TypeOK
<1>3. ASSUME disturbed # Application
      PROVE  /\ Busy \subseteq {c} /\ apps[a].status \in {"draft", "rejected"} /\ LoanOK(a)
  BY <1>1, <1>3, AtWork DEF Phase, Checked
<1>4. ASSUME disturbed # Application
      PROVE  Exists(a) /\ apps'[a].status = "draft" /\ apps'[a].loan = apps[a].loan
  BY <1>1, <1>3, <1>4 DEF PatchDraft, Exists, IInv, TypeOK, Row
<1>5. PICK new \in CallState :
         /\ calls' = [calls EXCEPT ![c] = new]
         /\ \/ new.pc = "idle"
            \/ new.pc = "clear" /\ new.app = a
  <2>1. CASE Return(c)
    BY <2>1, IdleOK DEF Return
  <2>2. CASE Goto(c, "clear")
    <3>1. "clear" \in PC
      BY DEF PC
    <3> QED
      BY <1>1, <2>2, <3>1, GotoIs
  <2> QED
    BY <2>1, <2>2 DEF PatchDraft
<1>6. ASSUME disturbed # Application
      PROVE  ConsentOK(a)' /\ LoanOK(a)' /\ (new.pc # "idle" => Phase(new)')
  BY <1>2, <1>3, <1>4, <1>5, <1>6 DEF ConsentOK, LoanOK, Phase, Checked
<1>7. disturbed # Application => apps'[a].status \notin Open
  BY <1>4 DEF Open
<1> QED
  BY <1>1, <1>2, <1>3, <1>5, <1>6, <1>7, SerialStep

LEMMA AppraiseSerial ==
  ASSUME IInv, SerialOK, NEW c \in Call, AppraiseDecision(c)
  PROVE  SerialOK'
<1>1. PICK call \in CallState, a \in Application :
         call = calls[c] /\ a = call.app /\ call.pc = "appraise" /\ apps[a] \in Row
  BY DEF AppraiseDecision, IInv, TypeOK, CallOK
<1>2. /\ UNCHANGED <<consent, loans, disturbed>>
      /\ \A b \in Application \ {a} : apps'[b] = apps[b]
  BY <1>1 DEF AppraiseDecision, Goto, Return, IInv, TypeOK
<1>3. ASSUME disturbed # Application
      PROVE  /\ Busy \subseteq {c} /\ apps[a].status \in {"submitted", "appraised"} /\ LoanOK(a)
             /\ NoOtherOpen(a)
  BY <1>1, <1>3, AtWork DEF Phase, Checked, Open
<1>4. ASSUME disturbed # Application
      PROVE  apps'[a].status = "appraised" /\ apps'[a].loan = apps[a].loan
  BY <1>1, <1>3, <1>4 DEF AppraiseDecision, IInv, TypeOK, Row
<1>5. PICK new \in CallState :
         /\ calls' = [calls EXCEPT ![c] = new]
         /\ \/ new.pc = "idle"
            \/ new.pc = "clear" /\ new.app = a
  <2>1. CASE Return(c)
    BY <2>1, IdleOK DEF Return
  <2>2. CASE Goto(c, "clear")
    <3>1. "clear" \in PC
      BY DEF PC
    <3> QED
      BY <1>1, <2>2, <3>1, GotoIs
  <2> QED
    BY <2>1, <2>2 DEF AppraiseDecision
<1>6. ASSUME disturbed # Application
      PROVE  ConsentOK(a)' /\ LoanOK(a)' /\ (new.pc # "idle" => Phase(new)')
  BY <1>2, <1>3, <1>4, <1>5, <1>6 DEF ConsentOK, LoanOK, Phase, Checked
<1> QED
  BY <1>1, <1>2, <1>3, <1>5, <1>6, SerialStep

LEMMA MarkSerial ==
  ASSUME IInv, SerialOK, NEW c \in Call, MarkDisbursed(c)
  PROVE  SerialOK'
<1>1. PICK call \in CallState, a \in Application :
         call = calls[c] /\ a = call.app /\ call.pc = "mark" /\ apps[a] \in Row
  BY DEF MarkDisbursed, IInv, TypeOK, CallOK
<1>2. /\ UNCHANGED <<consent, loans, disturbed>>
      /\ \A b \in Application \ {a} : apps'[b] = apps[b]
  BY <1>1 DEF MarkDisbursed, Goto, Return, IInv, TypeOK
<1>3. ASSUME disturbed # Application
      PROVE  Busy \subseteq {c} /\ apps[a].status = "approved" /\ loans[a] = 1
  BY <1>1, <1>3, AtWork DEF Phase, Checked
<1>4. ASSUME disturbed # Application PROVE apps'[a].status = "disbursed" /\ apps'[a].loan
  BY <1>1, <1>3, <1>4 DEF MarkDisbursed, Exists, IInv, TypeOK, Row
<1>5. PICK new \in CallState :
         /\ calls' = [calls EXCEPT ![c] = new]
         /\ \/ new.pc = "idle"
            \/ new.pc = "link" /\ new.app = a
  <2>1. CASE Return(c)
    BY <2>1, IdleOK DEF Return
  <2>2. CASE Goto(c, "link")
    <3>1. "link" \in PC
      BY DEF PC
    <3> QED
      BY <1>1, <2>2, <3>1, GotoIs
  <2> QED
    BY <2>1, <2>2 DEF MarkDisbursed
<1>6. ASSUME disturbed # Application
      PROVE  ConsentOK(a)' /\ LoanOK(a)' /\ (new.pc # "idle" => Phase(new)')
  BY <1>2, <1>3, <1>4, <1>5, <1>6 DEF ConsentOK, LoanOK, Phase, Checked
<1>7. disturbed # Application => apps'[a].status \notin Open
  BY <1>4 DEF Open
<1> QED
  BY <1>1, <1>2, <1>3, <1>5, <1>6, <1>7, SerialStep

\* Statements after which the handler returns, and that keep the loan of the application.
LEMMA LastSerial ==
  ASSUME IInv, SerialOK, NEW c \in Call, NEW a \in Application, a = calls[c].app,
         calls[c].pc \notin {"idle", "mark"}, calls' = [calls EXCEPT ![c] = Idle],
         UNCHANGED <<loans, disturbed>>,
         \A b \in Application \ {a} : apps'[b] = apps[b] /\ consent'[b] = consent[b],
         apps'[a].loan = apps[a].loan,
         apps'[a].status = "disbursed" <=> apps[a].status = "disbursed",
         disturbed # Application /\ Phase(calls[c]) =>
            /\ apps'[a].status \in Open => apps[a].status \in Open \/ NoOtherOpen(a)
            /\ ConsentOK(a) => ConsentOK(a)'
  PROVE  SerialOK'
<1>1. ASSUME disturbed # Application
      PROVE  /\ Busy \subseteq {c} /\ LoanOK(a) /\ ConsentOK(a)'
             /\ apps'[a].status \in Open => NoOtherOpen(a)
  BY <1>1, AtWork
<1>2. disturbed # Application => LoanOK(a)'
  BY <1>1 DEF LoanOK
<1> QED
  BY <1>1, <1>2, IdleOK, SerialStep

LEMMA ReturnSerial ==
  ASSUME IInv, SerialOK, NEW c \in Call,
         \/ LinkLoan(c)
         \/ DeleteRow(c)
         \/ SubmitDecision(c)
         \/ ApproveDecision(c)
         \/ RejectDecision(c)
  PROVE  SerialOK'
<1>1. PICK call \in CallState, a \in Application :
         /\ call = calls[c] /\ a = call.app /\ apps[a] \in Row
         /\ call.pc \in {"link", "delete", "submit", "approve", "reject"}
  BY DEF LinkLoan, DeleteRow, SubmitDecision, ApproveDecision, RejectDecision, IInv, TypeOK, CallOK
<1>2. calls' = [calls EXCEPT ![c] = Idle] /\ UNCHANGED <<loans, disturbed>>
  BY DEF LinkLoan, DeleteRow, SubmitDecision, ApproveDecision, RejectDecision, Return
<1>3. \A b \in Application \ {a} : apps'[b] = apps[b] /\ consent'[b] = consent[b]
  BY <1>1 DEF LinkLoan, DeleteRow, SubmitDecision, ApproveDecision, RejectDecision, IInv, TypeOK
<1>4. ASSUME apps'[a].loan = apps[a].loan,
              apps'[a].status = "disbursed" <=> apps[a].status = "disbursed",
              Phase(call) => /\ apps'[a].status \in Open => apps[a].status \in Open \/ NoOtherOpen(a)
                             /\ ConsentOK(a) => ConsentOK(a)'
       PROVE  SerialOK'
  <2>1. a = calls[c].app /\ calls[c].pc \notin {"idle", "mark"}
    BY <1>1
  <2>2. Phase(calls[c]) => Phase(call)
    BY <1>1
  <2> QED
    BY <1>2, <1>3, <1>4, <2>1, <2>2, LastSerial
<1>5. CASE UNCHANGED apps /\ UNCHANGED consent
  <2>1. ConsentOK(a) => ConsentOK(a)'
    BY <1>5 DEF ConsentOK
  <2> QED
    BY <1>5, <1>4, <2>1
<1>6. CASE LinkLoan(c)
  <2>1. apps'[a].status = apps[a].status /\ apps'[a].loan = apps[a].loan /\ consent' = consent
    BY <1>1, <1>6 DEF LinkLoan, IInv, TypeOK, Row
  <2>2. ConsentOK(a) => ConsentOK(a)'
    BY <2>1 DEF ConsentOK
  <2>3. apps'[a].status \in Open => apps[a].status \in Open \/ NoOtherOpen(a)
    BY <2>1
  <2> QED
    BY <1>4, <2>1, <2>2, <2>3
<1>7. CASE DeleteRow(c) /\ apps' = [apps EXCEPT ![a].status = "deleted"]
  <2>1. apps'[a].status = "deleted" /\ apps'[a].loan = apps[a].loan
    BY <1>1, <1>7 DEF IInv, TypeOK, Row
  <2>2. disturbed # Application => apps[a].status = "draft" /\ Busy \subseteq {c} /\ LoanOK(a)
    BY <1>1, <1>7, AtWork DEF DeleteRow, Phase, Checked
  <2>3. disturbed # Application => LoanOK(a)' /\ ConsentOK(a)'
    BY <1>2, <2>1, <2>2 DEF LoanOK, ConsentOK
  <2> QED
    BY <1>1, <1>2, <1>3, <2>1, <2>2, <2>3, IdleOK, SerialStep DEF Open
<1>8. CASE SubmitDecision(c) /\ apps' # apps
  <2>1. /\ apps'[a].status = "submitted" /\ apps'[a].loan = apps[a].loan
        /\ apps[a].status \in {"draft", "rejected"} /\ consent' = consent
    BY <1>1, <1>8 DEF SubmitDecision, IInv, TypeOK, Row
  <2>2. Phase(call) => NoOtherOpen(a)
    BY <1>1, <1>8 DEF SubmitDecision, Phase, Checked
  <2>3. ConsentOK(a) => ConsentOK(a)'
    BY <2>1 DEF ConsentOK
  <2> QED
    BY <1>4, <2>1, <2>2, <2>3
<1>9. CASE ApproveDecision(c) /\ apps' # apps
  <2>1. /\ apps'[a].status \in {"appraised", "approved"} /\ apps'[a].loan = apps[a].loan
        /\ apps[a].status \in {"appraised", "approved"} /\ consent' = consent
    BY <1>1, <1>9 DEF ApproveDecision, IInv, TypeOK, Row
  <2>2. Phase(call) => AssertAllGuarantorsAccepted(a)
    BY <1>1, <1>9 DEF ApproveDecision, Phase, Checked
  <2>3. Phase(call) => ConsentOK(a)'
    BY <2>1, <2>2 DEF AssertAllGuarantorsAccepted, Named, ConsentOK
  <2>4. apps'[a].status \in Open => apps[a].status \in Open
    BY <2>1 DEF Open
  <2> QED
    BY <1>4, <2>1, <2>3, <2>4
<1>10. CASE RejectDecision(c) /\ apps' # apps
  <2>1. /\ apps'[a].status = "rejected" /\ apps'[a].loan = apps[a].loan
        /\ apps[a].status \in Open /\ consent' = consent
    BY <1>1, <1>10, SMTT(20) DEF RejectDecision, IInv, TypeOK, Row
  <2>2. ConsentOK(a) => ConsentOK(a)'
    BY <2>1 DEF ConsentOK
  <2>3. apps'[a].status \notin Open /\ apps[a].status # "disbursed"
    BY <2>1 DEF Open
  <2> QED
    BY <1>4, <2>1, <2>2, <2>3
<1> QED
  BY <1>1, <1>5, <1>6, <1>7, <1>8, <1>9, <1>10
     DEF LinkLoan, DeleteRow, SubmitDecision, ApproveDecision, RejectDecision

LEMMA InitSerial == Init => SerialOK
<1> SUFFICES ASSUME Init PROVE SerialOK
  OBVIOUS
<1>1. Busy = {}
  BY DEF Init, Busy, Idle
<1>2. \A a \in Application : ConsentOK(a) /\ LoanOK(a) /\ apps[a].status \notin Open
  BY DEF Init, ConsentOK, LoanOK, NoRow, Open
<1> QED
  BY <1>1, <1>2 DEF SerialOK, NoOtherOpen

LEMMA NextSerial == IInv /\ SerialOK /\ [Next]_vars => SerialOK'
<1> SUFFICES ASSUME IInv, SerialOK, [Next]_vars PROVE SerialOK'
  OBVIOUS
<1>1. ASSUME NEW c \in Call, NEW a \in Application, Request(c, a) PROVE SerialOK'
  BY <1>1, RequestIs, AskedSerial, CreateSerial
<1>2. ASSUME NEW c \in Call, Statement(c) PROVE SerialOK'
  BY <1>2, GuarantorsSerial, PostSerial, PatchSerial, AppraiseSerial, MarkSerial,
     ReturnSerial DEF Statement
<1>3. ASSUME NEW c \in Call, Fail(c) PROVE SerialOK'
  BY <1>3, FailSerial
<1>4. CASE UNCHANGED vars
  BY <1>4 DEF vars, SerialOK, Busy, NoOtherOpen, ConsentOK, LoanOK, Phase, Checked,
              AssertAllGuarantorsAccepted, Named
<1> QED
  BY <1>1, <1>2, <1>3, <1>4 DEF Next

LEMMA SerialInvariant == Spec => []SerialOK
<1>1. IInv /\ SerialOK /\ [Next]_vars => SerialOK'
  BY NextSerial
<1>2. Init => SerialOK
  BY InitSerial
<1> QED
  BY <1>1, <1>2, ApplicationsInvariant, PTL DEF Spec

\* When no two handlers overlapped and none failed, the member has one open application at
\* most, its guarantors agreed before it was approved, and it got its loan once.
THEOREM ApplicationsSerialReview == Spec => []SerialReview
<1>1. ASSUME IInv, SerialOK PROVE SerialReview
  <2> SUFFICES ASSUME NEW a \in Application \ disturbed, \A c \in Call : calls[c].app # a
               PROVE  /\ \A b \in Application \ {a} : ~({apps[a].status, apps[b].status} \subseteq Open)
                      /\ ConsentOK(a) /\ LoanOK(a)
    BY DEF SerialReview, ConsentOK, LoanOK
  <2>1. disturbed # Application /\ \A c \in Busy : calls[c].app # a
    BY DEF Busy
  <2>2. ConsentOK(a) /\ LoanOK(a) /\ (apps[a].status \in Open => NoOtherOpen(a))
    BY <1>1, <2>1 DEF SerialOK
  <2> QED
    BY <2>2 DEF NoOtherOpen
<1> QED
  BY <1>1, ApplicationsInvariant, SerialInvariant, PTL

(***************************************************************************)
(* The workflow implements LoanReview: every step is one of its steps, or   *)
(* changes nothing that LoanReview sees.  A write from a row read earlier   *)
(* is a StaleWrite, which LoanReview allows to overlapped applications      *)
(* only; SerialOK says that the others see the row their handler read.      *)
(***************************************************************************)
YesOf(a) == IF apps[a].status \in Open THEN Voters(a, "approved") ELSE {}

LEMMA MappedStep ==
  ASSUME NEW a \in Application, NEW s, s = apps'[a].status,
         \A b \in Application \ {a} : apps'[b] = apps[b] /\ decisions'[b] = decisions[b],
         apps'[a].maker = apps[a].maker, apps'[a].required = apps[a].required
  PROVE  /\ Review!Move(a, s)
         /\ apps'[a].cycle = apps[a].cycle => UNCHANGED [b \in Application |-> apps[b].cycle]
         /\ YesOf(a)' = YesOf(a) =>
               UNCHANGED [b \in Application |->
                             IF apps[b].status \in Open THEN Voters(b, "approved") ELSE {}]
         /\ YesOf(a)' = {} => Review!Forget(a)
<1>1. Review!Move(a, s)
  BY DEF Review!Move
<1>2. apps'[a].cycle = apps[a].cycle => UNCHANGED [b \in Application |-> apps[b].cycle]
  OBVIOUS
<1>3. \A b \in Application \ {a} : YesOf(b)' = YesOf(b)
  BY DEF YesOf, Voters
<1>4. YesOf(a)' = YesOf(a) => UNCHANGED [b \in Application |->
         IF apps[b].status \in Open THEN Voters(b, "approved") ELSE {}]
  BY <1>3 DEF YesOf
<1>5. YesOf(a)' = {} => Review!Forget(a)
  BY <1>3 DEF YesOf, Review!Forget
<1> QED
  BY <1>1, <1>2, <1>4, <1>5

\* A step of LoanReview on one application.
LEMMA StepOf ==
  ASSUME disturbed \subseteq disturbed', NEW a \in Application, Review!Step(a)
  PROVE  Review!Next
  BY DEF Review!Next

LEMMA QuietRefines ==
  ASSUME UNCHANGED <<apps, decisions>>, disturbed \subseteq disturbed'
  PROVE  Review!Next
  BY DEF Review!Next, Review!row, Voters

\* LoanReview counts as the workflow does.
LEMMA SameCardinality ==
  ASSUME NEW S
  PROVE  Review!Cardinality(S) = Cardinality(S)
  BY DEF Review!Cardinality, Cardinality

LEMMA CreateRefines ==
  ASSUME IInv, NEW c \in Call, NEW a \in Application, Create(c, a)
  PROVE  Review!Next
<1>1. PICK u \in User, n \in Required, named \in SUBSET Guarantor :
         CreateLoanApplication(c, u, a, n, named)
  BY DEF Create
<1>2. /\ apps[a].status = "absent" /\ decisions' = decisions /\ disturbed \subseteq disturbed'
      /\ \A b \in Application \ {a} : apps'[b] = apps[b]
      /\ apps'[a].status = "draft" /\ apps'[a].required = n /\ apps'[a].maker = u
      /\ apps'[a].cycle = 0
  BY <1>1 DEF CreateLoanApplication, Begin, IInv, TypeOK, NoRow
<1>3. apps[a].cycle = 0
  BY <1>2 DEF IInv, AppOK, NoRow
<1>4. \A b \in Application : apps'[b].cycle = apps[b].cycle /\ YesOf(b)' = YesOf(b)
  BY <1>2, <1>3 DEF YesOf, Voters, Open
<1>5. Review!Open(a, u, n)
  BY <1>2, <1>4 DEF Review!Open, YesOf
<1> QED
  BY <1>2, <1>5, StepOf DEF Review!Step

\* A draft or a rejected application that is not overlapped has been read as such.
LEMMA PatchRefines ==
  ASSUME IInv, SerialOK, NEW c \in Call, PatchDraft(c)
  PROVE  Review!Next
<1>1. PICK a \in Application : a = calls[c].app /\ calls[c].pc = "patch" /\ apps[a] \in Row
  BY DEF PatchDraft, IInv, TypeOK, CallOK
<1>2. CASE UNCHANGED apps
  BY <1>2, QuietRefines DEF PatchDraft, Goto, Return
<1>3. CASE Exists(a) /\ apps' = [apps EXCEPT ![a].status = "draft", ![a].count = 0]
  <2>1. /\ apps'[a].status = "draft" /\ apps'[a].maker = apps[a].maker
        /\ apps'[a].required = apps[a].required /\ apps'[a].cycle = apps[a].cycle
        /\ \A b \in Application \ {a} : apps'[b] = apps[b]
        /\ decisions' = decisions /\ disturbed' = disturbed
    BY <1>1, <1>3 DEF PatchDraft, Goto, Return, IInv, TypeOK, Row
  <2>2. YesOf(a)' = {}
    BY <2>1 DEF YesOf, Open
  <2>3. CASE apps[a].status \in {"draft", "rejected"}
    <3>1. YesOf(a) = {}
      BY <2>3 DEF YesOf, Open
    <3> QED
      BY <2>1, <2>2, <2>3, <3>1, MappedStep, StepOf DEF Review!Step, Review!Revise
  <2>4. CASE apps[a].status \notin {"draft", "rejected"}
    <3>1. disturbed = Application
      BY <1>1, <2>4, AtWork DEF Phase, Checked
    <3>2. Review!StaleWrite(a)
      BY <1>3, <2>1, <2>2, <3>1, MappedStep DEF Review!StaleWrite, Exists
    <3> QED
      BY <2>1, <3>2, StepOf DEF Review!Step
  <2> QED
    BY <2>3, <2>4
<1> QED
  BY <1>1, <1>2, <1>3 DEF PatchDraft

LEMMA DeleteRefines ==
  ASSUME IInv, SerialOK, NEW c \in Call, DeleteRow(c)
  PROVE  Review!Next
<1>1. PICK a \in Application : a = calls[c].app /\ calls[c].pc = "delete" /\ apps[a] \in Row
  BY DEF DeleteRow, IInv, TypeOK, CallOK
<1>2. CASE UNCHANGED <<apps, decisions>>
  BY <1>2, QuietRefines DEF DeleteRow, Return
<1>3. CASE Exists(a) /\ apps' = [apps EXCEPT ![a].status = "deleted"]
           /\ decisions' = [decisions EXCEPT ![a] = {}]
  <2>1. /\ apps'[a].status = "deleted" /\ apps'[a].maker = apps[a].maker
        /\ apps'[a].required = apps[a].required /\ apps'[a].cycle = apps[a].cycle
        /\ \A b \in Application \ {a} : apps'[b] = apps[b] /\ decisions'[b] = decisions[b]
        /\ disturbed' = disturbed
    BY <1>1, <1>3 DEF DeleteRow, Return, IInv, TypeOK, Row
  <2>2. YesOf(a)' = {}
    BY <2>1 DEF YesOf, Open
  <2>3. CASE apps[a].status = "draft"
    <3>1. YesOf(a) = {}
      BY <2>3 DEF YesOf, Open
    <3> QED
      BY <2>1, <2>2, <2>3, <3>1, MappedStep, StepOf DEF Review!Step, Review!Discard
  <2>4. CASE apps[a].status # "draft"
    <3>1. disturbed = Application
      BY <1>1, <2>4, AtWork DEF Phase, Checked
    <3>2. Review!StaleWrite(a)
      BY <1>3, <2>1, <2>2, <3>1, MappedStep DEF Review!StaleWrite, Exists
    <3> QED
      BY <2>1, <3>2, StepOf DEF Review!Step
  <2> QED
    BY <2>3, <2>4
<1> QED
  BY <1>1, <1>2, <1>3 DEF DeleteRow

LEMMA SubmitRefines ==
  ASSUME IInv, NEW c \in Call, SubmitDecision(c)
  PROVE  Review!Next
<1>1. PICK a \in Application : a = calls[c].app /\ apps[a] \in Row /\ AppOK(a)
  BY DEF SubmitDecision, IInv, TypeOK, CallOK
<1>2. CASE UNCHANGED apps
  BY <1>2, QuietRefines DEF SubmitDecision, Return
<1>3. CASE /\ apps[a].status \in {"draft", "rejected"}
           /\ apps' = [apps EXCEPT ![a].status = "submitted", ![a].count = 0, ![a].cycle = @ + 1]
  <2>1. /\ apps'[a].status = "submitted" /\ apps'[a].maker = apps[a].maker
        /\ apps'[a].required = apps[a].required /\ apps'[a].cycle = apps[a].cycle + 1
        /\ \A b \in Application \ {a} : apps'[b] = apps[b]
        /\ decisions' = decisions /\ disturbed' = disturbed
    BY <1>1, <1>3 DEF SubmitDecision, Return, IInv, TypeOK, Row
  <2>2. \A d \in decisions[a] : d.cycle # apps'[a].cycle
    <3>1. apps[a].cycle \in Nat /\ \A d \in decisions[a] : d.cycle \in Nat /\ d.cycle <= apps[a].cycle
      BY <1>1 DEF AppOK, IInv, Decision, Row
    <3> QED
      BY <2>1, <3>1
  <2>3. YesOf(a)' = {}
    BY <2>1, <2>2 DEF YesOf, Voters
  <2>4. Review!Move(a, "submitted") /\ Review!Forget(a)
    BY <2>1, <2>3, MappedStep
  <2>5. [b \in Application |-> apps'[b].cycle]
           = [[b \in Application |-> apps[b].cycle] EXCEPT ![a] = apps[a].cycle + 1]
    BY <2>1
  <2>6. [b \in Application |-> apps[b].status][a] \in {"draft", "rejected"}
        /\ [b \in Application |-> apps[b].cycle][a] = apps[a].cycle
    BY <1>3
  <2>7. Review!Submit(a)
    BY <2>4, <2>5, <2>6 DEF Review!Submit
  <2> QED
    BY <2>1, <2>7, StepOf DEF Review!Step
<1> QED
  BY <1>1, <1>2, <1>3 DEF SubmitDecision

LEMMA AppraiseRefines ==
  ASSUME IInv, NEW c \in Call, AppraiseDecision(c)
  PROVE  Review!Next
<1>1. PICK a \in Application : a = calls[c].app /\ apps[a] \in Row
  BY DEF AppraiseDecision, IInv, TypeOK, CallOK
<1>2. CASE UNCHANGED apps
  BY <1>2, QuietRefines DEF AppraiseDecision, Goto, Return
<1>3. CASE /\ apps[a].status \in {"submitted", "appraised"}
           /\ apps' = [apps EXCEPT ![a].status = "appraised"]
  <2>1. /\ apps'[a].status = "appraised" /\ apps'[a].maker = apps[a].maker
        /\ apps'[a].required = apps[a].required /\ apps'[a].cycle = apps[a].cycle
        /\ \A b \in Application \ {a} : apps'[b] = apps[b]
        /\ decisions' = decisions /\ disturbed' = disturbed
    BY <1>1, <1>3 DEF AppraiseDecision, Goto, Return, IInv, TypeOK, Row
  <2>2. YesOf(a)' = YesOf(a)
    BY <1>3, <2>1 DEF YesOf, Open, Voters
  <2> QED
    BY <1>3, <2>1, <2>2, MappedStep, StepOf DEF Review!Step, Review!Appraise
<1> QED
  BY <1>1, <1>2, <1>3 DEF AppraiseDecision

LEMMA ApproveRefines ==
  ASSUME IInv, NEW c \in Call, ApproveDecision(c)
  PROVE  Review!Next
<1>1. PICK a \in Application, u \in User :
         a = calls[c].app /\ u = calls[c].user /\ apps[a] \in Row
  BY DEF ApproveDecision, IInv, TypeOK, CallOK
<1>2. CASE UNCHANGED <<apps, decisions>>
  BY <1>2, QuietRefines DEF ApproveDecision, Return
<1>3. CASE /\ apps[a].status \in {"appraised", "approved"} /\ MayDecide(a, u)
           /\ decisions' = [decisions EXCEPT ![a] = @ \cup
                  {[cycle |-> apps[a].cycle, user |-> u, verdict |-> "approved"]}]
           /\ apps' = [apps EXCEPT ![a].count = Counted(a) + 1, ![a].status =
                  IF Counted(a) + 1 >= apps[a].required THEN "approved" ELSE "appraised"]
  <2>1. PICK s \in {"approved", "appraised"} :
           s = IF Counted(a) + 1 >= apps[a].required THEN "approved" ELSE "appraised"
    OBVIOUS
  <2>2. /\ apps'[a].status = s /\ apps'[a].maker = apps[a].maker
        /\ apps'[a].required = apps[a].required /\ apps'[a].cycle = apps[a].cycle
        /\ \A b \in Application \ {a} : apps'[b] = apps[b]
    BY <1>1, <1>3, <2>1 DEF IInv, TypeOK, Row
  <2>3. PICK vote : vote = [cycle |-> apps[a].cycle, user |-> u, verdict |-> "approved"]
    OBVIOUS
  <2>4. /\ decisions'[a] = decisions[a] \cup {vote}
        /\ \A b \in Application \ {a} : decisions'[b] = decisions[b]
        /\ disturbed' = disturbed
    BY <1>3, <2>3 DEF ApproveDecision, Return, IInv
  <2>5. vote.cycle = apps[a].cycle /\ vote.user = u /\ vote.verdict = "approved"
    BY <2>3
  <2>6. Voters(a, "approved")' = Voters(a, "approved") \cup {u}
    BY <2>2, <2>4, <2>5 DEF Voters
  <2>7. YesOf(a) = Voters(a, "approved") /\ YesOf(a)' = YesOf(a) \cup {u}
    BY <1>3, <2>2, <2>6 DEF YesOf, Open
  <2>8. \A b \in Application \ {a} : YesOf(b)' = YesOf(b)
    BY <2>2, <2>4 DEF YesOf, Voters
  <2>9. u \notin YesOf(a) \cup {apps[a].maker}
    BY <1>3, <2>7 DEF MayDecide
  <2>10. s = IF Cardinality(YesOf(a)) + 1 >= apps[a].required THEN "approved" ELSE "appraised"
    BY <2>1, <2>7 DEF Counted
  <2>11. Review!Move(a, s) /\ UNCHANGED [b \in Application |-> apps[b].cycle]
    BY <2>2, <2>4, MappedStep
  <2>12. Review!Approve(a, u)
    <3> DEFINE Yes == [b \in Application |->
                          IF apps[b].status \in Open THEN Voters(b, "approved") ELSE {}]
    <3>1. Yes' = [Yes EXCEPT ![a] = Yes[a] \cup {u}] /\ Yes[a] = YesOf(a)
      BY <2>7, <2>8 DEF YesOf
    <3>2. /\ [b \in Application |-> apps[b].status][a] \in {"appraised", "approved"}
          /\ [b \in Application |-> apps[b].maker][a] = apps[a].maker
          /\ [b \in Application |-> apps[b].required][a] = apps[a].required
      BY <1>3
    <3>3. u \notin Yes[a] \cup {[b \in Application |-> apps[b].maker][a]}
      BY <2>9, <3>1, <3>2
    <3>4. s = IF Review!Cardinality(Yes[a]) + 1 >= [b \in Application |-> apps[b].required][a]
              THEN "approved" ELSE "appraised"
      BY <2>10, <3>1, <3>2, SameCardinality
    <3>5. /\ [b \in Application |-> apps'[b].status]
                = [[b \in Application |-> apps[b].status] EXCEPT ![a] = s]
          /\ UNCHANGED <<[b \in Application |-> apps[b].maker],
                         [b \in Application |-> apps[b].required]>>
      BY <2>11 DEF Review!Move
    <3> QED
      BY <2>11, <3>1, <3>2, <3>3, <3>4, <3>5 DEF Review!Approve, Review!Move
  <2> QED
    BY <2>4, <2>12, StepOf DEF Review!Step
<1> QED
  BY <1>1, <1>2, <1>3 DEF ApproveDecision

LEMMA RejectRefines ==
  ASSUME IInv, NEW c \in Call, RejectDecision(c)
  PROVE  Review!Next
<1>1. PICK a \in Application : a = calls[c].app /\ apps[a] \in Row
  BY DEF RejectDecision, IInv, TypeOK, CallOK
<1>2. CASE UNCHANGED <<apps, decisions>>
  BY <1>2, QuietRefines DEF RejectDecision, Return
<1>3. CASE /\ apps[a].status \in Open /\ apps' = [apps EXCEPT ![a].status = "rejected"]
           /\ \A b \in Application \ {a} : decisions'[b] = decisions[b]
  <2>1. /\ apps'[a].status = "rejected" /\ apps'[a].maker = apps[a].maker
        /\ apps'[a].required = apps[a].required /\ apps'[a].cycle = apps[a].cycle
        /\ \A b \in Application \ {a} : apps'[b] = apps[b]
        /\ disturbed' = disturbed
    BY <1>1, <1>3 DEF RejectDecision, Return, IInv, TypeOK, Row
  <2>2. YesOf(a)' = {}
    BY <2>1 DEF YesOf, Open
  <2> QED
    BY <1>3, <2>1, <2>2, MappedStep, StepOf
       DEF Review!Step, Review!Reject, Review!InReview, Open
<1>4. \A b \in Application \ {a} : decisions'[b] = decisions[b]
  BY <1>1 DEF RejectDecision, IInv
<1> QED
  BY <1>1, <1>2, <1>3, <1>4 DEF RejectDecision

LEMMA MarkRefines ==
  ASSUME IInv, SerialOK, NEW c \in Call, MarkDisbursed(c)
  PROVE  Review!Next
<1>1. PICK a \in Application : a = calls[c].app /\ calls[c].pc = "mark" /\ apps[a] \in Row
  BY DEF MarkDisbursed, IInv, TypeOK, CallOK
<1>2. CASE UNCHANGED apps
  BY <1>2, QuietRefines DEF MarkDisbursed, Goto, Return
<1>3. CASE Exists(a) /\ apps' = [apps EXCEPT ![a].status = "disbursed", ![a].loan = TRUE]
  <2>1. /\ apps'[a].status = "disbursed" /\ apps'[a].maker = apps[a].maker
        /\ apps'[a].required = apps[a].required /\ apps'[a].cycle = apps[a].cycle
        /\ \A b \in Application \ {a} : apps'[b] = apps[b]
        /\ decisions' = decisions /\ disturbed' = disturbed
    BY <1>1, <1>3 DEF MarkDisbursed, Goto, Return, IInv, TypeOK, Row
  <2>2. YesOf(a)' = {}
    BY <2>1 DEF YesOf, Open
  <2>3. CASE apps[a].status = "approved"
    BY <2>1, <2>2, <2>3, MappedStep, StepOf DEF Review!Step, Review!PayOut
  <2>4. CASE apps[a].status # "approved"
    <3>1. disturbed = Application
      BY <1>1, <2>4, AtWork DEF Phase, Checked
    <3>2. Review!StaleWrite(a)
      BY <1>3, <2>1, <2>2, <3>1, MappedStep DEF Review!StaleWrite, Exists
    <3> QED
      BY <2>1, <3>2, StepOf DEF Review!Step
  <2> QED
    BY <2>3, <2>4
<1> QED
  BY <1>1, <1>2, <1>3 DEF MarkDisbursed

\* That a loan names the application is not seen by LoanReview.
LEMMA LinkRefines ==
  ASSUME IInv, NEW c \in Call, LinkLoan(c)
  PROVE  Review!Next
<1>1. PICK a \in Application : a = calls[c].app /\ apps[a] \in Row
  BY DEF LinkLoan, IInv, TypeOK, CallOK
<1>2. /\ decisions' = decisions /\ disturbed' = disturbed
      /\ \A b \in Application : /\ apps'[b].status = apps[b].status
                                /\ apps'[b].maker = apps[b].maker
                                /\ apps'[b].required = apps[b].required
                                /\ apps'[b].cycle = apps[b].cycle
  BY <1>1 DEF LinkLoan, Return, IInv, TypeOK, Row
<1> QED
  BY <1>2 DEF Review!Next, Review!row, Voters

LEMMA InitRefines == Init => Review!Init
  BY DEF Init, NoRow, Open, Review!Init

LEMMA NextRefines == IInv /\ SerialOK /\ [Next]_vars => [Review!Next]_Review!vars
<1> SUFFICES ASSUME IInv, SerialOK, Next PROVE Review!Next
  BY DEF vars, Review!vars, Review!row, Voters
<1>1. ASSUME NEW c \in Call, NEW a \in Application, Request(c, a) PROVE Review!Next
  <2>1. disturbed \subseteq Application
    BY DEF IInv, TypeOK
  <2> QED
    BY <1>1, <2>1, RequestIs, CreateRefines, QuietRefines DEF Asked, Begin
<1>2. ASSUME NEW c \in Call, Statement(c) PROVE Review!Next
  <2>1. CASE ClearGuarantors(c) \/ NameGuarantors(c) \/ RecordConsent(c) \/ PostLoan(c)
    BY <2>1, QuietRefines DEF ClearGuarantors, NameGuarantors, RecordConsent, PostLoan, Goto, Return
  <2> QED
    BY <1>2, <2>1, PatchRefines, DeleteRefines, SubmitRefines, AppraiseRefines,
       ApproveRefines, RejectRefines, MarkRefines, LinkRefines DEF Statement
<1>3. ASSUME NEW c \in Call, Fail(c) PROVE Review!Next
  BY <1>3, QuietRefines DEF Fail, IInv, TypeOK
<1> QED
  BY <1>1, <1>2, <1>3 DEF Next

\* The workflow implements LoanReview: approval by enough others in the same cycle, along
\* the path the review allows, whatever handlers overlap or fail.
THEOREM ApplicationsImplementReview == Spec => Review!Spec
<1>1. Init => Review!Init
  BY InitRefines
<1>2. IInv /\ SerialOK /\ [Next]_vars => [Review!Next]_Review!vars
  BY NextRefines
<1> QED
  BY <1>1, <1>2, ApplicationsInvariant, SerialInvariant, PTL DEF Spec, Review!Spec

(***************************************************************************)
(* The composition of MCLending.  Each part runs its component or leaves it *)
(* where it is, so what is proved of a component holds of the composition.  *)
(* The payouts are those of PayoutsProofs, under MCLending's constants: LP   *)
(* and P expand to the same formulas.                                       *)
(***************************************************************************)
P == INSTANCE PayoutsProofs WITH
         User <- {Member, Manager}, Required <- {1}, MaxCycle <- 1, MaxFaults <- 1,
         loans <- paidLoans, calls <- payCalls

LEMMA PayoutsHypothesis == P!PayoutsAssumption
  BY MCLendingAssumption DEF LP!PayoutsAssumption, P!PayoutsAssumption

LEMMA SameInit == LP!Init => P!Init
  BY DEF LP!Init, P!Init, LP!Review!Init, P!Review!Init, LP!NoRow, P!NoRow, LP!Idle, P!Idle

LEMMA SameOrders ==
  ASSUME NEW c \in Call
  PROVE  /\ LP!Resume(c) => P!Resume(c)
         /\ LP!InsertOrder(c) => P!InsertOrder(c)
         /\ LP!CreatePayoutIntent(c) => P!CreatePayoutIntent(c)
         /\ LP!UpdateInitiated(c) => P!UpdateInitiated(c)
         /\ LP!CatchFailed(c) => P!CatchFailed(c)
         /\ LP!Query(c) => P!Query(c)
  BY DEF LP!Resume, P!Resume, LP!InsertOrder, P!InsertOrder, LP!CreatePayoutIntent,
         P!CreatePayoutIntent, LP!UpdateInitiated, P!UpdateInitiated, LP!CatchFailed,
         P!CatchFailed, LP!Query, P!Query, LP!OpenOrders, P!OpenOrders, LP!OpenStatus,
         P!OpenStatus, LP!SyncPC, P!SyncPC, LP!NormalizePayoutStatus, P!NormalizePayoutStatus,
         LP!Admitted, P!Admitted, LP!Finalize, P!Finalize, LP!Throw, P!Throw, LP!Goto, P!Goto,
         LP!Answer, P!Answer, LP!Idle, P!Idle, LP!NewOrder, P!NewOrder, LP!NoRow, P!NoRow,
         LP!Outcome, P!Outcome, LP!AmountMatches, P!AmountMatches,
         LP!application, P!application, LP!tables, P!tables, LP!books, P!books

LEMMA SameOutcome ==
  ASSUME NEW c \in Call
  PROVE  /\ LP!Load(c) => P!Load(c)
         /\ LP!Apply(c) => P!Apply(c)
         /\ LP!StoreProcessedWebhookEvent(c) => P!StoreProcessedWebhookEvent(c)
         /\ LP!ReadApplication(c) => P!ReadApplication(c)
         /\ LP!PostLoan(c) => P!PostLoan(c)
         /\ LP!MarkDisbursed(c) => P!MarkDisbursed(c)
         /\ LP!RecordPosted(c) => P!RecordPosted(c)
  BY DEF LP!Load, P!Load, LP!Apply, P!Apply, LP!StoreProcessedWebhookEvent,
         P!StoreProcessedWebhookEvent, LP!ReadApplication, P!ReadApplication, LP!PostLoan,
         P!PostLoan, LP!MarkDisbursed, P!MarkDisbursed, LP!RecordPosted, P!RecordPosted,
         LP!Applied, P!Applied, LP!Admitted, P!Admitted, LP!OpenOrders, P!OpenOrders,
         LP!OpenStatus, P!OpenStatus, LP!Finalize, P!Finalize, LP!Finish, P!Finish, LP!Throw,
         P!Throw, LP!Goto, P!Goto, LP!Answer, P!Answer, LP!Idle, P!Idle, LP!Paid, P!Paid,
         LP!AmountMatches, P!AmountMatches,
         LP!Review!Move, P!Review!Move, LP!Review!Forget, P!Review!Forget,
         LP!application, P!application, LP!tables, P!tables, LP!books, P!books

LEMMA SameRequests ==
  ASSUME NEW c \in Call
  PROVE  /\ LP!Fail(c) => P!Fail(c)
         /\ LP!Die(c) => P!Die(c)
         /\ \A a \in Application :
               /\ LP!InitiateMobileLoanDisbursement(c, a) => P!InitiateMobileLoanDisbursement(c, a)
               /\ LP!DisburseLoanApplication(c, a) => P!DisburseLoanApplication(c, a)
         /\ \A o \in Order :
               /\ LP!GetLoanDisbursementOrderStatus(c, o) => P!GetLoanDisbursementOrderStatus(c, o)
               /\ LP!Webhook(c, o) => P!Webhook(c, o)
  BY DEF LP!Fail, P!Fail, LP!Die, P!Die, LP!InitiateMobileLoanDisbursement,
         P!InitiateMobileLoanDisbursement, LP!DisburseLoanApplication,
         P!DisburseLoanApplication, LP!Underway, P!Underway, LP!MayComplete, P!MayComplete,
         LP!GetLoanDisbursementOrderStatus,
         P!GetLoanDisbursementOrderStatus, LP!Webhook, P!Webhook, LP!Begin, P!Begin,
         LP!Working, P!Working, LP!SyncPC, P!SyncPC, LP!Throw, P!Throw, LP!Idle, P!Idle,
         LP!application, P!application, LP!tables, P!tables, LP!books, P!books

LEMMA SameAround ==
  /\ \A o \in Order : LP!Settle(o) => P!Settle(o)
  /\ \A a \in Application : LP!ReviewStep(a) => P!ReviewStep(a)
  BY DEF LP!Settle, P!Settle, LP!ReviewStep, P!ReviewStep, LP!Underway, P!Underway, LP!Working, P!Working,
         LP!MayComplete, P!MayComplete, LP!Outcome, P!Outcome,
         LP!Review!Step, P!Review!Step, LP!Review!Revise, P!Review!Revise,
         LP!Review!Discard, P!Review!Discard, LP!Review!Submit, P!Review!Submit,
         LP!Review!Appraise, P!Review!Appraise, LP!Review!Reject, P!Review!Reject,
         LP!Review!PayOut, P!Review!PayOut, LP!Review!StaleWrite, P!Review!StaleWrite,
         LP!Review!Approve, P!Review!Approve, LP!Review!Open, P!Review!Open,
         LP!Review!Move, P!Review!Move, LP!Review!Forget, P!Review!Forget,
         LP!Review!InReview, P!Review!InReview, LP!Review!Cardinality, P!Review!Cardinality,
         LP!application, P!application, LP!tables, P!tables, LP!books, P!books

LEMMA SameNext == LP!Next => P!Next
<1>1. \A c \in Call : LP!Statement(c) => P!Statement(c)
  BY SameOrders, SameOutcome, Zenon DEF LP!Statement, P!Statement
<1> QED
  BY <1>1, SameRequests, SameAround, Zenon DEF LP!Next, P!Next

(***************************************************************************)
(* The same for the capacity of members.                                    *)
(***************************************************************************)
C == INSTANCE CapacityProofs WITH
         Member <- {"m1", "m2"}, NoMember <- "", LeastLoan <- 1, MaxMoney <- 2, MaxChanges <- 2,
         Product <- ProductRow(2, 3, 1, 0),
         ProductPolicy <- {ProductRow(1, 2, 1, 50), ProductRow(3, 1, 2, 25)},
         BranchPolicy <- {BranchRow(100, 1, 0), BranchRow(50, 0, 1)},
         loans <- lent

LEMMA CapacityHypothesis == C!CapacityAssumption
<1>1. IsFiniteSet({"m1", "m2"})
  <2>1. IsFiniteSet({"m1"} \cup {"m2"})
    BY FS_Singleton, FS_Union
  <2>2. {"m1"} \cup {"m2"} = {"m1", "m2"}
    OBVIOUS
  <2> QED
    BY <2>1, <2>2
<1>2. C!IsFiniteSet({"m1", "m2"})
  BY <1>1 DEF IsFiniteSet, C!IsFiniteSet
<1> QED
  BY <1>2 DEF C!CapacityAssumption, ProductRow, BranchRow

LEMMA SameCapacityInit == Capacity!Init => C!Init
  BY DEF Capacity!Init, C!Init, Capacity!NoPool, C!NoPool, Capacity!Idle, C!Idle

LEMMA SameEvaluations ==
  ASSUME NEW c \in Call
  PROVE  /\ \A m \in {"m1", "m2"} :
               /\ Capacity!CalculateBorrowLimit(c, m) => C!CalculateBorrowLimit(c, m)
               /\ \A n \in 1..2 : Capacity!ValidateRequest(c, m, n) => C!ValidateRequest(c, m, n)
         /\ Capacity!GetBranchFundPool(c) => C!GetBranchFundPool(c)
         /\ Capacity!LoadPolicies(c) => C!LoadPolicies(c)
         /\ Capacity!ReadMember(c) => C!ReadMember(c)
         /\ Capacity!RefreshMemberFinancialProfile(c) => C!RefreshMemberFinancialProfile(c)
         /\ Capacity!RecordCapacityAudit(c) => C!RecordCapacityAudit(c)
  BY DEF Capacity!CalculateBorrowLimit, C!CalculateBorrowLimit, Capacity!ValidateRequest,
         C!ValidateRequest, Capacity!GetBranchFundPool, C!GetBranchFundPool,
         Capacity!LoadPolicies, C!LoadPolicies, Capacity!ReadMember, C!ReadMember,
         Capacity!RefreshMemberFinancialProfile, C!RefreshMemberFinancialProfile,
         Capacity!RecordCapacityAudit, C!RecordCapacityAudit, Capacity!Enter, C!Enter,
         Capacity!NormalizeLoanProductPolicy, C!NormalizeLoanProductPolicy,
         Capacity!NormalizeBranchLiquidityPolicy, C!NormalizeBranchLiquidityPolicy,
         Capacity!DefaultBranch, C!DefaultBranch, Capacity!Least, C!Least, Capacity!Most,
         C!Most, Capacity!money, C!money, Capacity!policies, C!policies, Capacity!sums, C!sums,
         Capacity!history, C!history, Capacity!Busy, C!Busy, Capacity!Goto, C!Goto,
         Capacity!Return, C!Return, Capacity!Idle, C!Idle

\* The rules of a branch, and the limit they leave, are one definition in both.
LEMMA SameRules ==
  /\ \A f : Capacity!Total(f) = C!Total(f)
  /\ \A f : Capacity!Available(f) = C!Available(f)
  /\ \A f, b : Capacity!Frozen(f, b) <=> C!Frozen(f, b)
  /\ \A own, f, b, p : Capacity!BorrowLimit(own, f, b, p) = C!BorrowLimit(own, f, b, p)
<1>1. \A f : Capacity!Total(f) = C!Total(f)
  BY DEF Capacity!Total, C!Total, Capacity!MapThenFoldSet, C!MapThenFoldSet
<1>2. /\ \A x, y : /\ Capacity!Least(x, y) = C!Least(x, y)
                   /\ Capacity!Most(x, y) = C!Most(x, y)
                   /\ Capacity!Minus(x, y) = C!Minus(x, y)
      /\ \A x, y : Capacity!Percent(x, y) = C!Percent(x, y)
  BY DEF Capacity!Least, C!Least, Capacity!Most, C!Most, Capacity!Minus, C!Minus,
         Capacity!Percent, C!Percent
<1>3. \A f : Capacity!Available(f) = C!Available(f)
  BY <1>2 DEF Capacity!Available, C!Available
<1>4. \A f, b : Capacity!Frozen(f, b) <=> C!Frozen(f, b)
  BY <1>3 DEF Capacity!Frozen, C!Frozen
<1>5. \A f, b, p : Capacity!ComputeLiquidityLimit(f, b, p) = C!ComputeLiquidityLimit(f, b, p)
  BY <1>2, <1>3, Zenon DEF Capacity!ComputeLiquidityLimit, C!ComputeLiquidityLimit
<1>6. \A own, f, b, p : Capacity!BorrowLimit(own, f, b, p) = C!BorrowLimit(own, f, b, p)
  BY <1>2, <1>5, Zenon DEF Capacity!BorrowLimit, C!BorrowLimit
<1> QED
  BY <1>1, <1>3, <1>4, <1>6

LEMMA SameLimit ==
  ASSUME NEW c
  PROVE  /\ Capacity!LimitOf(c) = C!LimitOf(c)
         /\ \A n : Capacity!Allowed(c, n) <=> C!Allowed(c, n)
<1>1. Capacity!LimitOf(c) = C!LimitOf(c)
  BY DEF Capacity!LimitOf, C!LimitOf, Capacity!BorrowLimit, C!BorrowLimit,
         Capacity!ComputeLiquidityLimit, C!ComputeLiquidityLimit, Capacity!Available,
         C!Available, Capacity!Percent, C!Percent, Capacity!Minus, C!Minus, Capacity!Least,
         C!Least, Capacity!Most, C!Most
<1>2. ASSUME NEW n PROVE Capacity!Allowed(c, n) <=> C!Allowed(c, n)
  BY <1>1, SameRules DEF Capacity!Allowed, C!Allowed, Capacity!Most, C!Most
<1> QED
  BY <1>1, <1>2

LEMMA SamePool ==
  ASSUME NEW c \in Call
  PROVE  /\ Capacity!ReadPool(c) => C!ReadPool(c)
         /\ Capacity!RefreshBranchFundPool(c) => C!RefreshBranchFundPool(c)
         /\ Capacity!Answer(c) => C!Answer(c)
         /\ Capacity!Fail(c) => C!Fail(c)
<1> USE DEF Capacity!money, C!money, Capacity!policies, C!policies, Capacity!sums, C!sums,
            Capacity!history, C!history, Capacity!Busy, C!Busy, Capacity!Return, C!Return,
            Capacity!Idle, C!Idle
<1>1. Capacity!ReadPool(c) => C!ReadPool(c)
  <2>1. Capacity!ReservedLiquidity(c) = C!ReservedLiquidity(c)
    BY DEF Capacity!ReservedLiquidity, C!ReservedLiquidity, Capacity!Most, C!Most
  <2> QED
    BY <2>1, SameRules DEF Capacity!ReadPool, C!ReadPool
<1>2. Capacity!RefreshBranchFundPool(c) => C!RefreshBranchFundPool(c)
  BY DEF Capacity!RefreshBranchFundPool, C!RefreshBranchFundPool, Capacity!Most, C!Most
<1>3. Capacity!Answer(c) => C!Answer(c)
  BY SameLimit, Zenon DEF Capacity!Answer, C!Answer
<1>4. Capacity!Fail(c) => C!Fail(c)
  BY DEF Capacity!Fail, C!Fail
<1> QED
  BY <1>1, <1>2, <1>3, <1>4

LEMMA SamePolicies ==
  ASSUME NEW c \in Call
  PROVE  /\ Capacity!UpdateLoanProductPolicy(c) => C!UpdateLoanProductPolicy(c)
         /\ Capacity!UpdateBranchLiquidityPolicy(c) => C!UpdateBranchLiquidityPolicy(c)
         /\ Capacity!ReadProductPolicy(c) => C!ReadProductPolicy(c)
         /\ Capacity!ReadBranchPolicy(c) => C!ReadBranchPolicy(c)
         /\ Capacity!UpsertPolicy(c) => C!UpsertPolicy(c)
  BY DEF Capacity!UpdateLoanProductPolicy, C!UpdateLoanProductPolicy,
         Capacity!UpdateBranchLiquidityPolicy, C!UpdateBranchLiquidityPolicy,
         Capacity!ReadProductPolicy, C!ReadProductPolicy, Capacity!ReadBranchPolicy,
         C!ReadBranchPolicy, Capacity!UpsertPolicy, C!UpsertPolicy, Capacity!Enter, C!Enter,
         Capacity!Merge, C!Merge, Capacity!Change, C!Change, Capacity!Unsettled, C!Unsettled,
         Capacity!NormalizeLoanProductPolicy, C!NormalizeLoanProductPolicy,
         Capacity!NormalizeBranchLiquidityPolicy, C!NormalizeBranchLiquidityPolicy,
         Capacity!DefaultBranch, C!DefaultBranch, Capacity!Least, C!Least, Capacity!Most,
         C!Most, Capacity!money, C!money, Capacity!policies, C!policies, Capacity!sums, C!sums,
         Capacity!history, C!history, Capacity!Busy, C!Busy, Capacity!Goto, C!Goto,
         Capacity!Return, C!Return, Capacity!Idle, C!Idle

LEMMA SameMoney ==
  ASSUME NEW m \in {"m1", "m2"}
  PROVE  /\ Capacity!MoveSavings(m) => C!MoveSavings(m)
         /\ Capacity!Repay(m) => C!Repay(m)
         /\ Capacity!Disburse(m) => C!Disburse(m)
  BY DEF Capacity!MoveSavings, C!MoveSavings, Capacity!Repay, C!Repay, Capacity!Disburse,
         C!Disburse, Capacity!Change, C!Change, Capacity!Unsettled, C!Unsettled,
         Capacity!Overlent, C!Overlent, Capacity!Total, C!Total, Capacity!MapThenFoldSet,
         C!MapThenFoldSet, Capacity!NoPool, C!NoPool, Capacity!NormalizeBranchLiquidityPolicy,
         C!NormalizeBranchLiquidityPolicy, Capacity!DefaultBranch, C!DefaultBranch,
         Capacity!money, C!money, Capacity!policies, C!policies, Capacity!sums, C!sums,
         Capacity!history, C!history, Capacity!Busy, C!Busy, Capacity!Goto, C!Goto,
         Capacity!Return, C!Return, Capacity!Idle, C!Idle

LEMMA SameCapacityNext == Capacity!Next => C!Next
  BY SameEvaluations, SamePool, SamePolicies, SameMoney, Zenon DEF Capacity!Next, C!Next

LEMMA UnchangedParts ==
  /\ UNCHANGED payoutVars => UNCHANGED P!vars
  /\ UNCHANGED capacityVars => UNCHANGED C!vars
  /\ UNCHANGED <<part, vars, payoutVars, capacityVars>>
       => UNCHANGED vars /\ UNCHANGED payoutVars /\ UNCHANGED capacityVars
  BY DEF payoutVars, capacityVars, P!vars, P!application, P!tables, P!books, C!vars, vars

\* A run of the composition is a run of each component.
LEMMA RunsOfParts == LendingSpec => Spec /\ P!Spec /\ C!Spec
<1>1. LendingInit => Init /\ P!Init /\ C!Init
  BY SameInit, SameCapacityInit DEF LendingInit
<1>2. [LendingNext]_<<part, vars, payoutVars, capacityVars>>
        => [Next]_vars /\ [P!Next]_P!vars /\ [C!Next]_C!vars
  <2>1. ASSUME LendingNext PROVE [Next]_vars
    BY <2>1 DEF LendingNext, ReviewNext
  <2>2. ASSUME LendingNext PROVE [P!Next]_P!vars
    BY <2>2, SameNext, UnchangedParts DEF LendingNext, PayoutNext
  <2>3. ASSUME LendingNext PROVE [C!Next]_C!vars
    BY <2>3, SameCapacityNext, UnchangedParts DEF LendingNext, CapacityNext
  <2> QED
    BY <2>1, <2>2, <2>3, UnchangedParts
<1> QED
  BY <1>1, <1>2, PTL DEF LendingSpec, Spec, P!Spec, C!Spec

\* The rows of the lending components keep to the values their tables admit, in every run of
\* the handlers, the events and the evaluations.
THEOREM LendingTypeCorrect == LendingSpec => []LendingTypeOK
<1>1. P!TypeOK => LP!TypeOK
  BY DEF P!TypeOK, LP!TypeOK, P!Review!State, LP!Review!State, P!Review!InReview,
         LP!Review!InReview, P!Row, LP!Row, P!Status, LP!Status, P!Outcome, LP!Outcome,
         P!CallState, LP!CallState, P!PC, LP!PC
<1>2. C!TypeOK => Capacity!TypeOK
  BY DEF C!TypeOK, Capacity!TypeOK
<1>3. P!Spec => []P!TypeOK
  BY P!PayoutsTypeCorrect, PayoutsHypothesis
<1>4. C!Spec => []C!TypeOK
  BY C!CapacityTypeCorrect, CapacityHypothesis
<1>5. TypeOK /\ LP!TypeOK /\ Capacity!TypeOK => LendingTypeOK
  BY DEF LendingTypeOK
<1> QED
  BY <1>1, <1>2, <1>3, <1>4, <1>5, RunsOfParts, ApplicationsTypeCorrect, PTL

\* However handlers overlap, the limit a capacity evaluation answers is the largest amount
\* its rows admit; when nothing moves between an evaluation and the payout of what it let
\* through, no payout exceeds the rules of the branch; and while the handlers of an
\* application do not overlap, payouts and the counter post one loan for it at most, and an
\* order paid out says posted once its event was carried out.
THEOREM LendingCovered == LendingSpec => []LendingIsCovered
<1>1. P!SerialPayout => LP!SerialPayout
  BY DEF P!SerialPayout, LP!SerialPayout, P!Working, LP!Working, P!MayComplete,
         LP!MayComplete, P!Cardinality, LP!Cardinality
<1>2. C!LimitIsLargest => Capacity!LimitIsLargest
  <2>1. \A x, own, f, b, p : C!Lendable(x, own, f, b, p) <=> Capacity!Lendable(x, own, f, b, p)
    BY SameRules DEF C!Lendable, Capacity!Lendable
  <2> QED
    BY <2>1, SameLimit DEF C!LimitIsLargest, Capacity!LimitIsLargest
<1>3. C!SerialCapacity => Capacity!SerialCapacity
  BY DEF C!SerialCapacity, Capacity!SerialCapacity
<1>4. P!Spec => []P!SerialPayout
  BY P!PayoutsSerialOutcome, PayoutsHypothesis
<1>5. C!Spec => []C!LimitIsLargest
  BY C!CapacityLimitIsLargest, CapacityHypothesis
<1>6. C!Spec => []C!SerialCapacity
  BY C!CapacitySerial, CapacityHypothesis
<1>7. LP!SerialPayout /\ Capacity!LimitIsLargest /\ Capacity!SerialCapacity => LendingIsCovered
  BY DEF LendingIsCovered
<1> QED
  BY <1>1, <1>2, <1>3, <1>4, <1>5, <1>6, <1>7, RunsOfParts, PTL

\* A loan is posted by a payout order only when the gateway has paid the order out, and an
\* order that has a loan was paid out, whatever stale writes did between.
THEOREM LendingPostedIsPaidOut == LendingSpec => []PostedIsPaidOut
<1>1. P!PostedIsPaidOut => PostedIsPaidOut
  BY DEF P!PostedIsPaidOut, PostedIsPaidOut, LP!PostedIsPaidOut
<1>2. P!Spec => []P!PostedIsPaidOut
  BY P!PayoutsPostedIsPaidOut, PayoutsHypothesis
<1> QED
  BY <1>1, <1>2, RunsOfParts, PTL

\* Neither the workflow, whatever handlers overlap or fail, nor the payouts, whatever events
\* and polls come late, do to an application what LoanReview does not allow.
THEOREM LendingImplementsReview == LendingSpec => ReviewImplemented
<1>1. P!Spec => P!Review!Spec
  BY P!PayoutsImplementReview, PayoutsHypothesis
<1>2. P!Review!Init => LP!Review!Init
  BY DEF P!Review!Init, LP!Review!Init
<1>3. [P!Review!Next]_P!Review!vars => [LP!Review!Next]_LP!Review!vars
  BY DEF P!Review!Next, LP!Review!Next, P!Review!vars, LP!Review!vars, P!Review!row,
         LP!Review!row, LP!Review!Step, P!Review!Step, LP!Review!Revise, P!Review!Revise,
         LP!Review!Discard, P!Review!Discard, LP!Review!Submit, P!Review!Submit,
         LP!Review!Appraise, P!Review!Appraise, LP!Review!Reject, P!Review!Reject,
         LP!Review!PayOut, P!Review!PayOut, LP!Review!StaleWrite, P!Review!StaleWrite,
         LP!Review!Approve, P!Review!Approve, LP!Review!Open, P!Review!Open,
         LP!Review!Move, P!Review!Move, LP!Review!Forget, P!Review!Forget,
         LP!Review!InReview, P!Review!InReview, LP!Review!Cardinality, P!Review!Cardinality
<1>4. P!Review!Spec => LP!Review!Spec
  BY <1>2, <1>3, PTL DEF P!Review!Spec, LP!Review!Spec
<1> QED
  BY <1>1, <1>4, RunsOfParts, ApplicationsImplementReview DEF ReviewImplemented
=============================================================================
