-------------------------- MODULE LoanApplications --------------------------
(***************************************************************************)
(* The loan application workflow of src/src/modules/loan-applications and  *)
(* its stored procedures (supabase/sql/057, 059 and 062).                  *)
(*                                                                         *)
(* A handler reads the application, checks what it read, and then either   *)
(* calls a procedure, which locks the row and checks again, or updates the *)
(* row by its id, which does not.  Guarantors are rows of their own,       *)
(* replaced by a delete and an insert after the write to the application.  *)
(* A member's role may change, so the maker may come to act as a manager.  *)
(***************************************************************************)
EXTENDS Naturals, FiniteSets

CONSTANTS
    Application,    \* loan application ids, all of one member
    User,           \* accounts
    Guarantor,      \* members who may be named as guarantors
    Required,       \* values of required_approval_count
    Call,           \* handlers at work at the same time
    MaxCycle,       \* bound: submissions of an application
    MaxLoans,       \* bound: loans posted for an application
    NoUser, NoApplication

ASSUME LoanApplicationsAssumption ==
    /\ IsFiniteSet(User)
    /\ Required \subseteq Nat \ {0}
    /\ MaxCycle \in Nat /\ MaxLoans \in Nat
    /\ NoUser \notin User /\ NoApplication \notin Application

VARIABLES
    apps,       \* loan_applications
    decisions,  \* loan_approvals of each application
    consent,    \* loan_guarantors: application -> guarantor -> consent_status
    loans,      \* loans posted for each application
    calls,      \* the handlers at work
    disturbed   \* history: applications whose handlers overlapped or failed

vars == <<apps, decisions, consent, loans, calls, disturbed>>

Open == {"submitted", "appraised", "approved"}
Status == Open \cup {"absent", "draft", "rejected", "disbursed", "deleted"}

\* loan: loan_id is set; linked: a loan names the application in application_id.
Row == [ status : Status, cycle : Nat, count : Nat, required : Nat,
         maker : User \cup {NoUser}, loan : BOOLEAN, linked : BOOLEAN ]
NoRow == [ status |-> "absent", cycle |-> 0, count |-> 0, required |-> 1,
           maker |-> NoUser, loan |-> FALSE, linked |-> FALSE ]
Decision == [cycle : Nat, user : User, verdict : {"approved", "rejected"}]
Consent == {"none", "pending", "accepted", "rejected"}

PC == {"idle", "patch", "delete", "clear", "name", "submit", "appraise", "approve",
       "reject", "respond", "post", "mark", "link"}
CallState == [ pc : PC, app : Application \cup {NoApplication},
               user : User \cup {NoUser},   \* who decides
               named : SUBSET Guarantor,    \* the guarantors to be written
               answer : Consent ]
Idle == [ pc |-> "idle", app |-> NoApplication, user |-> NoUser, named |-> {},
          answer |-> "none" ]

Exists(a) == apps[a].status \notin {"absent", "deleted"}
Voters(a, verdict) ==
    {d.user : d \in {x \in decisions[a] : x.cycle = apps[a].cycle /\ x.verdict = verdict}}
Named(a) == {g \in Guarantor : consent[a][g] # "none"}

\* Mutant: no guarantor has rejected.
NoneRefused(a) == \A g \in Named(a) : consent[a][g] # "rejected"

AssertAllGuarantorsAccepted(a) == \A g \in Named(a) : consent[a][g] = "accepted"

\* assertNoOpenApplicationForMember
NoOtherOpen(a) == \A b \in Application \ {a} : apps[b].status \notin Open

Busy == {c \in Call : calls[c].pc # "idle"}

Begin(c, call) ==
    /\ calls[c].pc = "idle"
    /\ calls' = [calls EXCEPT ![c] = call]
    /\ disturbed' = IF Busy # {} THEN Application ELSE disturbed
Goto(c, pc) == calls' = [calls EXCEPT ![c].pc = pc] /\ UNCHANGED disturbed
Return(c) == calls' = [calls EXCEPT ![c] = Idle] /\ UNCHANGED disturbed

Init ==
    /\ apps = [a \in Application |-> NoRow]
    /\ decisions = [a \in Application |-> {}]
    /\ consent = [a \in Application |-> [g \in Guarantor |-> "none"]]
    /\ loans = [a \in Application |-> 0]
    /\ calls = [c \in Call |-> Idle]
    /\ disturbed = {}
----------------------------------------------------------------------------
(* createLoanApplication, updateLoanApplication, deleteLoanApplication and  *)
(* replaceChildren.                                                         *)

CreateLoanApplication(c, u, a, n, named) ==
    /\ apps[a].status = "absent"
    /\ Begin(c, [Idle EXCEPT !.pc = "name", !.app = a, !.named = named])
    /\ apps' = [apps EXCEPT ![a] = [NoRow EXCEPT !.status = "draft", !.required = n,
                                                 !.maker = u]]
    /\ UNCHANGED <<decisions, consent, loans>>

UpdateLoanApplication(c, a, named) ==
    /\ apps[a].status \in {"draft", "rejected"}
    /\ Begin(c, [Idle EXCEPT !.pc = "patch", !.app = a, !.named = named])
    /\ UNCHANGED <<apps, decisions, consent, loans>>

\* The update names the id only; it fails when the row is gone.
PatchDraft(c) ==
    LET a == calls[c].app IN
    /\ calls[c].pc = "patch"
    /\ IF Exists(a)
       THEN /\ apps' = [apps EXCEPT ![a].status = "draft", ![a].count = 0]
            /\ Goto(c, "clear")
       ELSE Return(c) /\ UNCHANGED apps
    /\ UNCHANGED <<decisions, consent, loans>>

ClearGuarantors(c) ==
    /\ calls[c].pc = "clear"
    /\ consent' = [consent EXCEPT ![calls[c].app] = [g \in Guarantor |-> "none"]]
    /\ Goto(c, "name")
    /\ UNCHANGED <<apps, decisions, loans>>

\* The insert leaves consent_status to its default; it fails as a whole when the
\* application is gone or names one of the guarantors already.
NameGuarantors(c) ==
    LET a == calls[c].app IN
    /\ calls[c].pc = "name"
    /\ consent' = IF Exists(a) /\ Named(a) \cap calls[c].named = {}
                  THEN [consent EXCEPT ![a] = [g \in Guarantor |->
                            IF g \in calls[c].named THEN "pending" ELSE @[g]]]
                  ELSE consent
    /\ Return(c)
    /\ UNCHANGED <<apps, decisions, loans>>

DeleteLoanApplication(c, a) ==
    /\ apps[a].status = "draft"
    /\ Begin(c, [Idle EXCEPT !.pc = "delete", !.app = a])
    /\ UNCHANGED <<apps, decisions, consent, loans>>

\* Guarantors and decisions go with the row; a loan that names it keeps it.
DeleteRow(c) ==
    LET a == calls[c].app IN
    /\ calls[c].pc = "delete"
    /\ IF Exists(a) /\ ~apps[a].linked
       THEN /\ apps' = [apps EXCEPT ![a].status = "deleted"]
            /\ decisions' = [decisions EXCEPT ![a] = {}]
            /\ consent' = [consent EXCEPT ![a] = [g \in Guarantor |-> "none"]]
       ELSE UNCHANGED <<apps, decisions, consent>>
    /\ Return(c)
    /\ UNCHANGED loans
----------------------------------------------------------------------------
(* submitLoanApplication and submit_loan_application.                       *)

\* The own status is read first; the procedure asks it again.
SubmitLoanApplication(c, a) ==
    /\ apps[a].status \in {"draft", "rejected"} /\ NoOtherOpen(a)
    /\ Begin(c, [Idle EXCEPT !.pc = "submit", !.app = a])
    /\ UNCHANGED <<apps, decisions, consent, loans>>

\* Mutant: a new submission stays in the cycle of the last one.
SubmitSameCycle(c) ==
    LET a == calls[c].app IN
    /\ calls[c].pc = "submit"
    /\ apps' = IF apps[a].status \in {"draft", "rejected"}
               THEN [apps EXCEPT ![a].status = "submitted", ![a].count = 0,
                                 ![a].cycle = IF @ = 0 THEN 1 ELSE @]
               ELSE apps
    /\ Return(c)
    /\ UNCHANGED <<decisions, consent, loans>>

SubmitDecision(c) ==
    LET a == calls[c].app IN
    /\ calls[c].pc = "submit" /\ apps[a].cycle < MaxCycle
    /\ apps' = IF apps[a].status \in {"draft", "rejected"}
               THEN [apps EXCEPT ![a].status = "submitted", ![a].count = 0,
                                 ![a].cycle = @ + 1]
               ELSE apps
    /\ Return(c)
    /\ UNCHANGED <<decisions, consent, loans>>
----------------------------------------------------------------------------
(* appraiseLoanApplication, respondGuarantorConsent, approveLoanApplication *)
(* and rejectLoanApplication with their procedures.                         *)

AppraiseLoanApplication(c, a, named) ==
    /\ apps[a].status \in {"submitted", "appraised"}
    /\ Begin(c, [Idle EXCEPT !.pc = "appraise", !.app = a, !.named = named])
    /\ UNCHANGED <<apps, decisions, consent, loans>>

AppraiseDecision(c) ==
    LET a == calls[c].app IN
    /\ calls[c].pc = "appraise"
    /\ IF apps[a].status \in {"submitted", "appraised"}
       THEN apps' = [apps EXCEPT ![a].status = "appraised"] /\ Goto(c, "clear")
       ELSE Return(c) /\ UNCHANGED apps
    /\ UNCHANGED <<decisions, consent, loans>>

RespondGuarantorConsent(c, a, g, answer) ==
    /\ apps[a].status \in {"submitted", "appraised"} /\ g \in Named(a)
    /\ Begin(c, [Idle EXCEPT !.pc = "respond", !.app = a, !.named = {g}, !.answer = answer])
    /\ UNCHANGED <<apps, decisions, consent, loans>>

\* The update names the application and the member; no row, no change.
RecordConsent(c) ==
    LET a == calls[c].app IN
    /\ calls[c].pc = "respond"
    /\ consent' = [consent EXCEPT ![a] = [g \in Guarantor |->
                      IF g \in calls[c].named \cap Named(a) THEN calls[c].answer ELSE @[g]]]
    /\ Return(c)
    /\ UNCHANGED <<apps, decisions, loans>>

ApproveLoanApplication(c, u, a) ==
    /\ apps[a].status \in {"appraised", "approved"} /\ apps[a].maker # u
    /\ AssertAllGuarantorsAccepted(a)
    /\ Begin(c, [Idle EXCEPT !.pc = "approve", !.app = a, !.user = u])
    /\ UNCHANGED <<apps, decisions, consent, loans>>

MayDecide(a, u) ==
    /\ apps[a].maker # u
    /\ u \notin Voters(a, "approved") \cup Voters(a, "rejected")

\* Mutant: the decisions of earlier cycles count.
CountedEver(a) == Cardinality({d.user : d \in {x \in decisions[a] : x.verdict = "approved"}})

Counted(a) == Cardinality(Voters(a, "approved"))

ApproveDecision(c) ==
    LET a == calls[c].app
        u == calls[c].user
        n == Counted(a) + 1
    IN
    /\ calls[c].pc = "approve"
    /\ IF apps[a].status \in {"appraised", "approved"} /\ MayDecide(a, u)
       THEN /\ decisions' = [decisions EXCEPT ![a] = @ \cup
                   {[cycle |-> apps[a].cycle, user |-> u, verdict |-> "approved"]}]
            /\ apps' = [apps EXCEPT ![a].count = n, ![a].status =
                   IF n >= apps[a].required THEN "approved" ELSE "appraised"]
       ELSE UNCHANGED <<apps, decisions>>
    /\ Return(c)
    /\ UNCHANGED <<consent, loans>>

RejectLoanApplication(c, u, a) ==
    /\ apps[a].status \in Open /\ apps[a].maker # u
    /\ Begin(c, [Idle EXCEPT !.pc = "reject", !.app = a, !.user = u])
    /\ UNCHANGED <<apps, decisions, consent, loans>>

RejectDecision(c) ==
    LET a == calls[c].app
        u == calls[c].user
    IN
    /\ calls[c].pc = "reject"
    /\ IF apps[a].status \in Open /\ MayDecide(a, u)
       THEN /\ decisions' = [decisions EXCEPT ![a] = @ \cup
                   {[cycle |-> apps[a].cycle, user |-> u, verdict |-> "rejected"]}]
            /\ apps' = [apps EXCEPT ![a].status = "rejected"]
       ELSE UNCHANGED <<apps, decisions>>
    /\ Return(c)
    /\ UNCHANGED <<consent, loans>>
----------------------------------------------------------------------------
(* disburseLoanApplication over the counter, and                            *)
(* applyLoanApplicationDisbursedState.                                      *)

DisburseLoanApplication(c, a) ==
    /\ apps[a].status = "approved" /\ ~apps[a].loan
    /\ AssertAllGuarantorsAccepted(a)
    /\ Begin(c, [Idle EXCEPT !.pc = "post", !.app = a])
    /\ UNCHANGED <<apps, decisions, consent, loans>>

\* loanDisburse commits a loan and its journal; it does not know the application.
PostLoan(c) ==
    LET a == calls[c].app IN
    /\ calls[c].pc = "post" /\ loans[a] < MaxLoans
    /\ loans' = [loans EXCEPT ![a] = @ + 1]
    /\ Goto(c, "mark")
    /\ UNCHANGED <<apps, decisions, consent>>

MarkDisbursed(c) ==
    LET a == calls[c].app IN
    /\ calls[c].pc = "mark"
    /\ IF Exists(a)
       THEN /\ apps' = [apps EXCEPT ![a].status = "disbursed", ![a].loan = TRUE]
            /\ Goto(c, "link")
       ELSE Return(c) /\ UNCHANGED apps
    /\ UNCHANGED <<decisions, consent, loans>>

\* One loan may name an application; the error of a second one is ignored.
LinkLoan(c) ==
    LET a == calls[c].app IN
    /\ calls[c].pc = "link"
    /\ apps' = IF Exists(a) THEN [apps EXCEPT ![a].linked = TRUE] ELSE apps
    /\ Return(c)
    /\ UNCHANGED <<decisions, consent, loans>>

\* A statement fails or the process stops: the rest of the handler does not happen.
Fail(c) ==
    /\ calls[c].pc # "idle"
    /\ calls' = [calls EXCEPT ![c] = Idle]
    /\ disturbed' = Application
    /\ UNCHANGED <<apps, decisions, consent, loans>>

Statement(c) ==
    \/ PatchDraft(c) \/ ClearGuarantors(c) \/ NameGuarantors(c) \/ DeleteRow(c)
    \/ SubmitDecision(c) \/ AppraiseDecision(c) \/ RecordConsent(c) \/ ApproveDecision(c)
    \/ RejectDecision(c) \/ PostLoan(c) \/ MarkDisbursed(c) \/ LinkLoan(c)

Request(c, a) ==
    \/ \E named \in SUBSET Guarantor :
          \/ \E u \in User, n \in Required : CreateLoanApplication(c, u, a, n, named)
          \/ UpdateLoanApplication(c, a, named)
          \/ AppraiseLoanApplication(c, a, named)
    \/ DeleteLoanApplication(c, a) \/ SubmitLoanApplication(c, a)
    \/ DisburseLoanApplication(c, a)
    \/ \E u \in User : ApproveLoanApplication(c, u, a) \/ RejectLoanApplication(c, u, a)
    \/ \E g \in Guarantor, answer \in {"accepted", "rejected"} :
          RespondGuarantorConsent(c, a, g, answer)

Next ==
    \E c \in Call :
        \/ Statement(c) \/ Fail(c)
        \/ \E a \in Application : Request(c, a)

Spec == Init /\ [][Next]_vars
----------------------------------------------------------------------------
(* Properties.                                                              *)

TypeOK ==
    /\ apps \in [Application -> Row]
    /\ \A a \in Application : decisions[a] \subseteq Decision
    /\ consent \in [Application -> [Guarantor -> Consent]]
    /\ loans \in [Application -> 0..MaxLoans]
    /\ calls \in [Call -> CallState]
    /\ disturbed \subseteq Application

\* Whatever handlers overlap or fail, an application in review carries the votes of
\* its current cycle: approval_count is their number, it is approved exactly when
\* they are enough, and neither its maker nor one person twice is among them.
ApprovedByQuorum ==
    \A a \in Application : apps[a].status \in Open =>
        /\ apps[a].count = Cardinality(Voters(a, "approved"))
        /\ apps[a].status = "approved" <=> apps[a].count >= apps[a].required
        /\ apps[a].maker \notin Voters(a, "approved")
        /\ Voters(a, "rejected") = {}

\* When no two handlers overlapped and none failed, the member has one open
\* application at most, an approved one has the consent of all its guarantors, and
\* it is disbursed with one loan or has none.
SerialReview ==
    \A a \in Application \ disturbed : (\A c \in Call : calls[c].app # a) =>
        /\ \A b \in Application \ {a} : ~({apps[a].status, apps[b].status} \subseteq Open)
        /\ apps[a].status = "approved" =>
              \A g \in Guarantor : consent[a][g] \in {"none", "accepted"}
        /\ loans[a] = IF apps[a].status = "disbursed" THEN 1 ELSE 0
        /\ apps[a].loan <=> apps[a].status = "disbursed"

\* The workflow implements what LoanReview promises.
Review == INSTANCE LoanReview WITH
    state <- [a \in Application |-> apps[a].status],
    maker <- [a \in Application |-> apps[a].maker],
    needed <- [a \in Application |-> apps[a].required],
    cycle <- [a \in Application |-> apps[a].cycle],
    yes <- [a \in Application |->
                IF apps[a].status \in Open THEN Voters(a, "approved") ELSE {}],
    overlapped <- disturbed
=============================================================================
