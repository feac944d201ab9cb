----------------------------- MODULE Membership -----------------------------
(***************************************************************************)
(* How a person becomes a member: the public sign-up, the membership        *)
(* application and its review, the member row with its accounts and login,  *)
(* and the membership fee (src/src/modules/public-signups,                  *)
(* member-applications, members; the fee is posted by finance).             *)
(*                                                                          *)
(* The identity of a person (phone, national id, e-mail) stands for the     *)
(* person.  Unique indexes allow one application row and one live member    *)
(* row per identity; accounts have no such index.  Each await is a step.    *)
(***************************************************************************)
EXTENDS Naturals, FiniteSets

CONSTANTS
    Person, Member,
    Call,       \* handlers at work at the same time
    Fee,        \* membership_fee_amount
    MaxFees,    \* bound: the fees posted for one person
    NoPerson, NoMember

VARIABLES
    apps,       \* member_applications, by the identity they name
    members,    \* members
    accounts,   \* member_accounts not deleted, by member and product
    logins,     \* the auth users, by e-mail
    profiles,   \* user_profiles.member_id of a login
    fees,       \* the membership fees posted, by person
    approvalFees,   \* the journals with the reference APPROVAL-<application_no>
    memberCalls,    \* the handlers at work
    edited,     \* history: fee fields edited after the approval had posted them
    muddled     \* history: handlers overlapped, or one failed halfway

vars == << apps, members, accounts, logins, profiles, fees, approvalFees, memberCalls,
           edited, muddled >>

Product == {"savings", "shares"}
Pending == "approved_pending_payment"

AppRow == [ status : {"absent", "draft", "submitted", "under_review", "approved", Pending,
                      "active", "rejected"},
            paid : 0..Fee, member : Member \cup {NoMember}, user : BOOLEAN ]
NoApp == [status |-> "absent", paid |-> 0, member |-> NoMember, user |-> FALSE]

\* linked says that approved_application_id is set, user that user_id is.
MemberRow == [ status : {"absent", Pending, "active", "exited"}, person : Person \cup {NoPerson},
               deleted : BOOLEAN, linked : BOOLEAN, user : BOOLEAN ]
NoRow == [ status |-> "absent", person |-> NoPerson, deleted |-> FALSE, linked |-> FALSE,
           user |-> FALSE ]

PC == { "idle", "checkMember", "createUser", "insertApp", "upload", "review", "find", "insert",
        "accounts", "insertAccounts", "checkFee", "postFee", "profile", "user", "approve",
        "linkApp", "readFee", "writeFee", "activate", "login", "exit", "closeAccounts", "archive" }
Work == {"", "signup", "review", "approval", "direct", "payment", "login", "deletion"}
CallState == [ pc : PC, work : Work, person : Person \cup {NoPerson},
               member : Member \cup {NoMember}, app : AppRow, status : {"", Pending, "active"},
               missing : SUBSET Product, amount : 0..MaxFees ]
Idle == [ pc |-> "idle", work |-> "", person |-> NoPerson, member |-> NoMember, app |-> NoApp,
          status |-> "", missing |-> {}, amount |-> 0 ]

At(p) == {c \in Call : memberCalls[c].person = p}
Live(p) == {m \in Member : members[m].person = p /\ ~members[m].deleted}

Begin(c, call) ==
    /\ memberCalls[c].pc = "idle"
    /\ memberCalls' = [memberCalls EXCEPT ![c] = call]
    /\ muddled' = IF At(call.person) # {} THEN muddled \cup {call.person} ELSE muddled
Goto(c, pc) == memberCalls' = [memberCalls EXCEPT ![c].pc = pc] /\ UNCHANGED muddled
Return(c) == memberCalls' = [memberCalls EXCEPT ![c] = Idle] /\ UNCHANGED muddled
\* An error that leaves something behind, and a process that dies.
Throw(c) ==
    /\ memberCalls' = [memberCalls EXCEPT ![c] = Idle]
    /\ muddled' = muddled \cup {memberCalls[c].person}
\* A handler of one step.
Alone(p) ==
    /\ UNCHANGED memberCalls
    /\ muddled' = IF At(p) # {} THEN muddled \cup {p} ELSE muddled

Init ==
    /\ apps = [p \in Person |-> NoApp]
    /\ members = [m \in Member |-> NoRow]
    /\ accounts = [m \in Member |-> [x \in Product |-> 0]]
    /\ logins = {}
    /\ profiles = [p \in Person |-> NoMember]
    /\ fees = [p \in Person |-> 0]
    /\ approvalFees = [p \in Person |-> 0]
    /\ memberCalls = [c \in Call |-> Idle]
    /\ edited = {}
    /\ muddled = {}
----------------------------------------------------------------------------
(* The public sign-up.                                                      *)

\* findOpenApplication looks past rejected applications.
CreatePublicSignup(c, p) ==
    /\ apps[p].status \in {"absent", "rejected"}
    /\ Begin(c, [Idle EXCEPT !.pc = "checkMember", !.work = "signup", !.person = p])
    /\ UNCHANGED <<apps, members, accounts, logins, profiles, fees, approvalFees, edited>>

FindExistingMember(c) ==
    /\ memberCalls[c].pc = "checkMember"
    /\ IF Live(memberCalls[c].person) # {} THEN Return(c) ELSE Goto(c, "createUser")
    /\ UNCHANGED <<apps, members, accounts, logins, profiles, fees, approvalFees, edited>>

\* The e-mail of an auth user is unique.  The profile is written without a member.
CreateAuthUser(c) ==
    LET p == memberCalls[c].person IN
    /\ memberCalls[c].pc = "createUser"
    /\ IF p \in logins THEN Return(c) /\ UNCHANGED logins
       ELSE logins' = logins \cup {p} /\ Goto(c, "insertApp")
    /\ UNCHANGED <<apps, members, accounts, profiles, fees, approvalFees, edited>>

\* deleteApplicationArtifacts: foreign keys keep what a member refers to, and an error on
\* the way leaves the rest.
Cleanup(c, p) ==
    \/ /\ \A m \in Live(p) : ~members[m].linked /\ ~members[m].user
       /\ apps' = [apps EXCEPT ![p] = IF memberCalls[c].pc = "upload" THEN NoApp ELSE @]
       /\ logins' = logins \ {p} /\ profiles' = [profiles EXCEPT ![p] = NoMember]
       /\ Return(c)
    \/ UNCHANGED <<apps, logins, profiles>> /\ Throw(c)

\* The unique indexes count rejected applications too.
InsertApplication(c) ==
    LET p == memberCalls[c].person IN
    /\ memberCalls[c].pc = "insertApp"
    /\ \/ /\ apps[p] = NoApp
          /\ apps' = [apps EXCEPT ![p] = [NoApp EXCEPT !.status = "submitted", !.user = TRUE]]
          /\ Goto(c, "upload") /\ UNCHANGED <<logins, profiles>>
       \/ apps[p] # NoApp /\ Cleanup(c, p)
    /\ UNCHANGED <<members, accounts, fees, approvalFees, edited>>

UploadDocuments(c) ==
    /\ memberCalls[c].pc = "upload"
    /\ \/ Return(c) /\ UNCHANGED <<apps, logins, profiles>>
       \/ Cleanup(c, memberCalls[c].person)
    /\ UNCHANGED <<members, accounts, fees, approvalFees, edited>>
----------------------------------------------------------------------------
(* The application and its review.                                          *)

CreateApplication(p, paid) ==
    /\ apps[p] = NoApp
    /\ apps' = [apps EXCEPT ![p] = [NoApp EXCEPT !.status = "draft", !.paid = paid]]
    /\ Alone(p)
    /\ UNCHANGED <<members, accounts, logins, profiles, fees, approvalFees, edited>>

\* The fee recorded is one of the fields; a rejected application becomes a draft.  The
\* list of locked statuses leaves out "active".
UpdateApplication(p, paid) ==
    /\ apps[p].status \notin {"absent", "approved", Pending}
    /\ apps' = [apps EXCEPT ![p].paid = paid,
                            ![p].status = IF @ = "rejected" THEN "draft" ELSE @]
    /\ Alone(p)
    /\ edited' = IF approvalFees[p] > 0 \/ apps[p].member # NoMember \/ At(p) # {}
                 THEN edited \cup {p} ELSE edited
    /\ UNCHANGED <<members, accounts, logins, profiles, fees, approvalFees>>

\* submitApplication and rejectApplication ask for no status at all.
SetStatus(p, status) ==
    /\ apps[p] # NoApp
    /\ apps' = [apps EXCEPT ![p].status = status]
    /\ Alone(p)
    /\ UNCHANGED <<members, accounts, logins, profiles, fees, approvalFees, edited>>
SubmitApplication(p) == SetStatus(p, "submitted")
RejectApplication(p) == SetStatus(p, "rejected")

\* reviewApplication and requestMoreInfo: under_review, written by the id only.
ReviewApplication(c, p) ==
    /\ apps[p].status \in {"submitted", "under_review"}
    /\ Begin(c, [Idle EXCEPT !.pc = "review", !.work = "review", !.person = p])
    /\ UNCHANGED <<apps, members, accounts, logins, profiles, fees, approvalFees, edited>>

WriteReview(c) ==
    /\ memberCalls[c].pc = "review"
    /\ apps' = [apps EXCEPT ![memberCalls[c].person].status = "under_review"]
    /\ Return(c)
    /\ UNCHANGED <<members, accounts, logins, profiles, fees, approvalFees, edited>>
----------------------------------------------------------------------------
(* approveApplication: any status will do, as long as no member is linked.  *)

ApproveApplication(c, p) ==
    /\ apps[p] # NoApp /\ apps[p].member = NoMember
    /\ Begin(c, [Idle EXCEPT !.pc = "find", !.work = "approval", !.person = p, !.app = apps[p],
                             !.status = IF apps[p].paid >= Fee THEN "active" ELSE Pending])
    /\ UNCHANGED <<apps, members, accounts, logins, profiles, fees, approvalFees, edited>>

\* findRecoverableApprovedMember finds the member an earlier approval has left behind.
FindMember(c) ==
    LET found == Live(memberCalls[c].person) IN
    /\ memberCalls[c].pc = "find"
    /\ memberCalls' = [memberCalls EXCEPT ![c] =
           IF found = {} THEN [@ EXCEPT !.pc = "insert"]
           ELSE [@ EXCEPT !.pc = "accounts", !.member = CHOOSE m \in found : TRUE]]
    /\ UNCHANGED << apps, members, accounts, logins, profiles, fees, approvalFees, edited,
                    muddled >>

\* createMember, on its own and for an approval.  The identity is unique among the live
\* members, user_id among all of them.
CreateMember(c, p) ==
    /\ Begin(c, [Idle EXCEPT !.pc = "insert", !.work = "direct", !.person = p,
                             !.status = "active"])
    /\ UNCHANGED <<apps, members, accounts, logins, profiles, fees, approvalFees, edited>>

InsertMember(c) ==
    LET call == memberCalls[c]  p == call.person
        taken == Live(p) # {} \/ (call.app.user /\ \E m \in Member :
                                    members[m].person = p /\ members[m].user)
    IN
    /\ call.pc = "insert"
    /\ \/ taken /\ Return(c) /\ UNCHANGED members
       \/ /\ ~taken /\ \E m \in Member : members[m] = NoRow
          /\ LET m == CHOOSE m \in Member : members[m] = NoRow IN
             /\ members' = [members EXCEPT ![m] = [NoRow EXCEPT !.status = call.status,
                                !.person = p, !.user = call.app.user]]
             /\ memberCalls' = [memberCalls EXCEPT ![c].pc = "accounts", ![c].member = m]
          /\ UNCHANGED muddled
    /\ UNCHANGED <<apps, accounts, logins, profiles, fees, approvalFees, edited>>

\* What each handler does after ensureMemberAccounts.
AfterAccounts(call) ==
    CASE call.work = "approval" -> "checkFee"
      [] call.work = "payment" /\ (members[call.member].user \/ call.app.user) -> "profile"
      [] OTHER -> "idle"
Continue(c, pc) ==
    /\ memberCalls' = [memberCalls EXCEPT ![c] =
                           IF pc = "idle" THEN Idle ELSE [@ EXCEPT !.pc = pc]]
    /\ UNCHANGED muddled

\* ensureMemberAccounts: read what there is, then insert what was missing.
ReadAccounts(c) ==
    LET call == memberCalls[c]  missing == {x \in Product : accounts[call.member][x] = 0} IN
    /\ call.pc = "accounts"
    /\ \/ missing = {} /\ Continue(c, AfterAccounts(call))
       \/ /\ missing # {}
          /\ memberCalls' = [memberCalls EXCEPT ![c].pc = "insertAccounts", ![c].missing = missing]
          /\ UNCHANGED muddled
    /\ UNCHANGED <<apps, members, accounts, logins, profiles, fees, approvalFees, edited>>

InsertAccounts(c) ==
    LET call == memberCalls[c] IN
    /\ call.pc = "insertAccounts"
    /\ accounts' = [accounts EXCEPT ![call.member] =
           [x \in Product |-> IF x \in call.missing THEN @[x] + 1 ELSE @[x]]]
    /\ Continue(c, AfterAccounts(call))
    /\ UNCHANGED <<apps, members, logins, profiles, fees, approvalFees, edited>>

AfterFee(call) == IF call.app.user THEN "profile" ELSE "approve"

\* ensureApprovalMembershipFeePosted: no index stands behind the lookup by reference.
CheckApprovalFee(c) ==
    LET call == memberCalls[c] IN
    /\ call.pc = "checkFee"
    /\ Goto(c, IF call.app.paid > 0 /\ approvalFees[call.person] = 0
               THEN "postFee" ELSE AfterFee(call))
    /\ UNCHANGED <<apps, members, accounts, logins, profiles, fees, approvalFees, edited>>

PostApprovalFee(c) ==
    LET call == memberCalls[c]  p == call.person IN
    /\ call.pc = "postFee" /\ fees[p] + call.app.paid <= MaxFees
    /\ fees' = [fees EXCEPT ![p] = @ + call.app.paid]
    /\ approvalFees' = [approvalFees EXCEPT ![p] = @ + 1]
    /\ Goto(c, AfterFee(call))
    /\ UNCHANGED <<apps, members, accounts, logins, profiles, edited>>

\* linkApprovedMemberToApplicant, linkActivatedMemberProfile and provisionMemberLogin: the
\* profile first, then the member.
LinkProfile(c) ==
    /\ memberCalls[c].pc = "profile"
    /\ profiles' = [profiles EXCEPT ![memberCalls[c].person] = memberCalls[c].member]
    /\ Goto(c, "user")
    /\ UNCHANGED <<apps, members, accounts, logins, fees, approvalFees, edited>>

LinkUser(c) ==
    LET call == memberCalls[c]
        taken == \E m \in Member \ {call.member} :
                    members[m].person = call.person /\ members[m].user IN
    /\ call.pc = "user"
    /\ \/ taken /\ Throw(c) /\ UNCHANGED members
       \/ /\ ~taken /\ members' = [members EXCEPT ![call.member].user = TRUE]
          /\ Continue(c, IF call.work = "approval" THEN "approve" ELSE "idle")
    /\ UNCHANGED <<apps, accounts, logins, profiles, fees, approvalFees, edited>>

ApprovedStatus(call) == IF call.status = "active" THEN "approved" ELSE Pending

\* The update names the id only: a rejection in between is overwritten.
WriteApproved(c) ==
    LET call == memberCalls[c] IN
    /\ call.pc = "approve"
    /\ apps' = [apps EXCEPT ![call.person].status = ApprovedStatus(call),
                            ![call.person].member = call.member]
    /\ Goto(c, "linkApp")
    /\ UNCHANGED <<members, accounts, logins, profiles, fees, approvalFees, edited>>

LinkApplication(c) ==
    /\ memberCalls[c].pc = "linkApp"
    /\ members' = [members EXCEPT ![memberCalls[c].member].linked = TRUE]
    /\ Return(c)
    /\ UNCHANGED <<apps, accounts, logins, profiles, fees, approvalFees, edited>>
----------------------------------------------------------------------------
(* The fee: postGatewayMembershipFee commits the journal, then              *)
(* applyMembershipFeePayment adds it to the application and activates.      *)

PostMembershipFee(c, m, amount) ==
    LET p == members[m].person IN
    /\ members[m] # NoRow /\ ~members[m].deleted
    /\ fees[p] + amount <= MaxFees
    /\ Begin(c, [Idle EXCEPT !.pc = "readFee", !.work = "payment", !.person = p, !.member = m,
                             !.amount = amount])
    /\ fees' = [fees EXCEPT ![p] = @ + amount]
    /\ UNCHANGED <<apps, members, accounts, logins, profiles, approvalFees, edited>>

\* A member that is gone, or that no application has been linked to yet, is left as it is.
ReadFee(c) ==
    LET call == memberCalls[c]  row == members[call.member] IN
    /\ call.pc = "readFee"
    /\ memberCalls' = [memberCalls EXCEPT ![c] =
           IF row.deleted \/ ~row.linked THEN Idle
           ELSE [@ EXCEPT !.pc = "writeFee", !.app = apps[call.person],
                          !.status = IF row.status = "active" THEN "active" ELSE Pending]]
    /\ UNCHANGED << apps, members, accounts, logins, profiles, fees, approvalFees, edited,
                    muddled >>

\* The sum is the one that was read plus the payment, capped at the fee.
WriteFee(c) ==
    LET call == memberCalls[c]  p == call.person
        paid == IF call.app.paid + call.amount > Fee THEN Fee ELSE call.app.paid + call.amount
    IN
    /\ call.pc = "writeFee"
    /\ apps' = [apps EXCEPT ![p].paid = paid, ![p].status = IF paid = Fee THEN "active" ELSE @]
    /\ Continue(c, IF paid < Fee THEN "idle"
                   ELSE IF call.status = "active" THEN "accounts" ELSE "activate")
    /\ UNCHANGED <<members, accounts, logins, profiles, fees, approvalFees, edited>>

ActivateMember(c) ==
    /\ memberCalls[c].pc = "activate"
    /\ members' = [members EXCEPT ![memberCalls[c].member].status = "active"]
    /\ Goto(c, "accounts")
    /\ UNCHANGED <<apps, accounts, logins, profiles, fees, approvalFees, edited>>
----------------------------------------------------------------------------
(* Logins and deletion.                                                     *)

\* provisionMemberLogin: an auth user of that e-mail is taken over.
CreateMemberLogin(c, m) ==
    LET p == members[m].person IN
    /\ members[m] # NoRow /\ ~members[m].deleted
    /\ Begin(c, [Idle EXCEPT !.pc = IF members[m].user THEN "profile" ELSE "login",
                             !.work = "login", !.person = p, !.member = m])
    /\ UNCHANGED <<apps, members, accounts, logins, profiles, fees, approvalFees, edited>>

CreateLogin(c) ==
    /\ memberCalls[c].pc = "login"
    /\ logins' = logins \cup {memberCalls[c].person}
    /\ Goto(c, "profile")
    /\ UNCHANGED <<apps, members, accounts, profiles, fees, approvalFees, edited>>

\* A member without active loans is deleted; the accounts and the profile follow.
DeleteMember(c, m) ==
    /\ members[m] # NoRow /\ ~members[m].deleted
    /\ Begin(c, [Idle EXCEPT !.pc = "exit", !.work = "deletion", !.person = members[m].person,
                             !.member = m, !.app.user = members[m].user])
    /\ UNCHANGED <<apps, members, accounts, logins, profiles, fees, approvalFees, edited>>

WriteExited(c) ==
    /\ memberCalls[c].pc = "exit"
    /\ members' = [members EXCEPT ![memberCalls[c].member].status = "exited",
                                  ![memberCalls[c].member].deleted = TRUE]
    /\ Goto(c, "closeAccounts")
    /\ UNCHANGED <<apps, accounts, logins, profiles, fees, approvalFees, edited>>

CloseAccounts(c) ==
    /\ memberCalls[c].pc = "closeAccounts"
    /\ accounts' = [accounts EXCEPT ![memberCalls[c].member] = [x \in Product |-> 0]]
    /\ Continue(c, IF memberCalls[c].app.user THEN "archive" ELSE "idle")
    /\ UNCHANGED <<apps, members, logins, profiles, fees, approvalFees, edited>>

ArchiveProfile(c) ==
    /\ memberCalls[c].pc = "archive"
    /\ profiles' = [profiles EXCEPT ![memberCalls[c].person] = NoMember]
    /\ Return(c)
    /\ UNCHANGED <<apps, members, accounts, logins, fees, approvalFees, edited>>

Fail(c) ==
    /\ memberCalls[c].pc # "idle" /\ Throw(c)
    /\ UNCHANGED <<apps, members, accounts, logins, profiles, fees, approvalFees, edited>>
----------------------------------------------------------------------------
Next ==
    \/ \E p \in Person :
          \/ \E paid \in 0..Fee : CreateApplication(p, paid) \/ UpdateApplication(p, paid)
          \/ SubmitApplication(p) \/ RejectApplication(p)
          \/ \E c \in Call :
                \/ CreatePublicSignup(c, p) \/ ReviewApplication(c, p)
                \/ ApproveApplication(c, p) \/ CreateMember(c, p)
    \/ \E c \in Call, m \in Member :
          \/ \E amount \in 1..Fee : PostMembershipFee(c, m, amount)
          \/ CreateMemberLogin(c, m) \/ DeleteMember(c, m)
    \/ \E c \in Call :
          \/ FindExistingMember(c) \/ CreateAuthUser(c) \/ InsertApplication(c)
          \/ UploadDocuments(c) \/ WriteReview(c)
          \/ FindMember(c) \/ InsertMember(c) \/ ReadAccounts(c) \/ InsertAccounts(c)
          \/ CheckApprovalFee(c) \/ PostApprovalFee(c) \/ LinkProfile(c) \/ LinkUser(c)
          \/ WriteApproved(c) \/ LinkApplication(c)
          \/ ReadFee(c) \/ WriteFee(c) \/ ActivateMember(c)
          \/ CreateLogin(c) \/ WriteExited(c) \/ CloseAccounts(c) \/ ArchiveProfile(c)
          \/ Fail(c)

Spec == Init /\ [][Next]_vars
----------------------------------------------------------------------------
(* Properties.                                                              *)

TypeOK ==
    /\ apps \in [Person -> AppRow] /\ members \in [Member -> MemberRow]
    /\ accounts \in [Member -> [Product -> Nat]]
    /\ logins \subseteq Person /\ profiles \in [Person -> Member \cup {NoMember}]
    /\ fees \in [Person -> 0..MaxFees] /\ approvalFees \in [Person -> Nat]
    /\ memberCalls \in [Call -> CallState]
    /\ edited \subseteq Person /\ muddled \subseteq Person

\* Whatever overlaps, fails and is tried again: a person has one live member at most, and
\* the fee an approved application says was paid has been posted to the ledger.
FeesArePosted ==
    \A p \in Person :
        /\ Cardinality(Live(p)) <= 1
        /\ apps[p].member # NoMember /\ p \notin edited => apps[p].paid <= fees[p]

\* When a person's handlers ran one after the other and none failed: a live member has
\* one account of each kind and a deleted one none; an approved application, its member
\* and the login of the applicant point at each other; its status says whether the fee
\* was paid; and nobody has a login without an application or a member.
SerialMembership ==
    \A p \in Person \ muddled : At(p) = {} =>
        /\ \A m \in Member : members[m].person = p =>
              \A x \in Product : accounts[m][x] = IF members[m].deleted THEN 0 ELSE 1
        /\ apps[p].member # NoMember =>
              /\ members[apps[p].member].person = p /\ members[apps[p].member].linked
              /\ apps[p].user => members[apps[p].member].user
              /\ apps[p].user /\ apps[p].member \in Live(p) => profiles[p] = apps[p].member
        /\ apps[p].status = Pending => apps[p].paid < Fee
        /\ apps[p].status \in {"approved", "active"} /\ p \notin edited => apps[p].paid = Fee
        /\ p \in logins => apps[p].user \/ \E m \in Member : members[m].person = p /\ members[m].user
=============================================================================
