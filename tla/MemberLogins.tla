------------------------------ MODULE MemberLogins ------------------------------
(***************************************************************************)
(* The login of a member and its temporary passwords: createMemberLogin and *)
(* resetMemberPassword (src/src/modules/members/members.service.js), the    *)
(* password waiting to be handed over (credential-handoff.service.js) and   *)
(* the member who has chosen one of his own (users.service.js).             *)
(*                                                                          *)
(* A login is a user of the identity service, a profile, a link from the    *)
(* member, a branch and perhaps a password to hand over, each written by a  *)
(* statement of its own.  Which statements, and in which order, depends on  *)
(* what is there: the member has a login, or somebody has one under his     *)
(* e-mail address, or nobody has.                                           *)
(***************************************************************************)
EXTENDS Naturals, Sequences

CONSTANTS
    Call,
    MaxIssued      \* bound: temporary passwords, and logins made

VARIABLES
    login,        \* auth.users: who has the e-mail address, by id (0 is nobody)
    password,     \* of that login; 0 is one the office does not know
    profile,      \* user_profiles of that login
    linked,       \* members.user_id is that login
    assigned,     \* branch_staff_assignments
    handoffs,     \* credential_handoffs
    calls,
    issued,       \* temporary passwords generated
    ids,          \* logins made
    invited,      \* history: the profile was last written by an invitation
    muddled       \* history: what handlers that overlapped or failed may have left behind

vars == << login, password, profile, linked, assigned, handoffs, calls, issued, ids, invited,
           muddled >>

NoProfile == [role |-> "", foreign |-> FALSE, must |-> FALSE]
Idle == [todo |-> <<>>, work |-> "", invite |-> FALSE, password |-> 0, id |-> 0, created |-> FALSE,
         alone |-> FALSE]
Busy(c) == calls[c].todo # <<>>
At(c, step) == Busy(c) /\ Head(calls[c].todo) = step
Everything == {"password", "branch"}
Active == {i \in DOMAIN handoffs : handoffs[i].open}

rows == <<login, password, profile, linked, assigned, handoffs>>

\* Nobody has the address, or a user without a profile, one of the staff, one of another tenant.
Init ==
    /\ login \in {0, 1} /\ password = 0
    /\ profile \in {NoProfile} \cup
           [role : {"staff"}, foreign : IF login = 0 THEN {} ELSE BOOLEAN, must : {FALSE}]
    /\ linked = FALSE /\ assigned = FALSE /\ handoffs = <<>>
    /\ calls = [c \in Call |-> Idle]
    /\ issued = 0 /\ ids = 1 /\ invited = FALSE /\ muddled = {}
----------------------------------------------------------------------------
(* What a handler still has to do.                                          *)

HandOver(invite) == IF invite THEN <<"link", "audit">> ELSE <<"clear", "insert", "audit">>
LinkedSteps(invite) == <<"tenant", "profile", "member", "auth", "assign">> \o HandOver(invite)
FoundSteps(invite) == <<"tenant", "profile", "member", "auth", "assign">> \o HandOver(invite)
CreatedSteps(invite) == <<"profile", "member", "assign">> \o HandOver(invite)
ResetSteps == <<"auth", "profile", "clear", "insert", "audit">>

Advance(c) == calls' = [calls EXCEPT ![c].todo = Tail(@)]
Plan(c, todo, id) == calls' = [calls EXCEPT ![c].todo = todo, ![c].id = id]

\* A handler runs alone if no other is under way from its start to its end.
Begin(c, work, invite, todo) ==
    LET others == \E d \in Call : Busy(d)
        issues == work # "changed" /\ ~invite IN
    /\ ~Busy(c) /\ (issues => issued < MaxIssued)
    /\ issued' = IF issues THEN issued + 1 ELSE issued
    /\ calls' = [d \in Call |->
           IF d = c THEN [Idle EXCEPT !.todo = todo, !.work = work, !.invite = invite,
                              !.password = IF issues THEN issued + 1 ELSE 0, !.alone = ~others]
           ELSE [calls[d] EXCEPT !.alone = FALSE]]
    /\ muddled' = IF others THEN Everything ELSE muddled
    /\ UNCHANGED <<rows, ids, invited>>

CreateMemberLogin(c) == \E invite \in BOOLEAN : Begin(c, "login", invite, <<"read">>)
ResetMemberPassword(c) == Begin(c, "reset", FALSE, <<"read">>)

GetMember(c) ==
    /\ At(c, "read")
    /\ IF calls[c].work = "reset"
       THEN Plan(c, IF linked THEN ResetSteps ELSE <<>>, login)
       ELSE Plan(c, IF linked THEN LinkedSteps(calls[c].invite) ELSE <<"create">>, login)
    /\ UNCHANGED <<rows, issued, ids, invited, muddled>>

\* The e-mail address is taken, or there is a new user with a password at once: the one that
\* will be handed over, or one that nobody is told.
CreateUser(c) ==
    /\ At(c, "create")
    /\ IF login # 0
       THEN Plan(c, <<"find">>, 0) /\ UNCHANGED <<login, password, ids>>
       ELSE /\ ids <= MaxIssued
            /\ ids' = ids + 1 /\ login' = ids + 1 /\ password' = calls[c].password
            /\ calls' = [calls EXCEPT ![c].todo = CreatedSteps(calls[c].invite), ![c].id = ids + 1,
                                      ![c].created = TRUE]
    /\ UNCHANGED <<profile, linked, assigned, handoffs, issued, invited, muddled>>

FindAuthUserByEmail(c) ==
    /\ At(c, "find") /\ login # 0
    /\ Plan(c, FoundSteps(calls[c].invite), login)
    /\ UNCHANGED <<rows, issued, ids, invited, muddled>>

\* Only the tenant of a profile is looked at, not its role.
AssertAuthUserTenantConsistency(c) ==
    /\ At(c, "tenant")
    /\ IF profile.foreign THEN Plan(c, <<>>, 0) ELSE Advance(c)
    /\ UNCHANGED <<rows, issued, ids, invited, muddled>>

\* The statements below name the login the handler has seen, which must still be there.
Exists(c) == calls[c].id = login

UpsertProfile(c) ==
    /\ At(c, "profile") /\ Exists(c)
    /\ profile' = [profile EXCEPT !.role = "member", !.must = ~calls[c].invite]
    /\ invited' = calls[c].invite
    /\ Advance(c)
    /\ UNCHANGED <<login, password, linked, assigned, handoffs, issued, ids, muddled>>

LinkMember(c) ==
    /\ At(c, "member") /\ Exists(c)
    /\ linked' = TRUE
    /\ Advance(c)
    /\ UNCHANGED <<login, password, profile, assigned, handoffs, issued, ids, invited, muddled>>

UpdateAuthUser(c) ==
    /\ At(c, "auth") /\ Exists(c)
    /\ password' = IF calls[c].invite THEN password ELSE calls[c].password
    /\ Advance(c)
    /\ UNCHANGED <<login, profile, linked, assigned, handoffs, issued, ids, invited, muddled>>

EnsureBranchAssignments(c) ==
    /\ At(c, "assign")
    /\ assigned' = TRUE
    /\ Advance(c)
    /\ UNCHANGED <<login, password, profile, linked, handoffs, issued, ids, invited, muddled>>

\* saveCredentialHandoff clears what is waiting, whoever has put it there...
ClearHandoffs(c) ==
    /\ At(c, "clear")
    /\ handoffs' = [i \in DOMAIN handoffs |-> [handoffs[i] EXCEPT !.open = FALSE]]
    /\ Advance(c)
    /\ UNCHANGED <<login, password, profile, linked, assigned, issued, ids, invited, muddled>>

\* ... and inserts its own.
SaveCredentialHandoff(c) ==
    /\ At(c, "insert") /\ Exists(c)
    /\ handoffs' = Append(handoffs, [password |-> calls[c].password, open |-> TRUE])
    /\ Advance(c)
    /\ UNCHANGED <<login, password, profile, linked, assigned, issued, ids, invited, muddled>>

SendPasswordSetupLink(c) ==
    /\ At(c, "link")
    /\ Advance(c)
    /\ UNCHANGED <<rows, issued, ids, invited, muddled>>

LogAudit(c) ==
    /\ At(c, "audit")
    /\ Advance(c)
    /\ muddled' = CASE calls[c].alone /\ calls[c].password # 0 /\ calls[c].work = "login" -> {}
                    [] calls[c].alone /\ calls[c].work = "reset" -> muddled \ {"password"}
                    [] OTHER -> muddled
    /\ UNCHANGED <<rows, issued, ids, invited>>

\* The latest password that is still open is the one that is shown.
Shown == IF Active = {} THEN 0
         ELSE handoffs[CHOOSE i \in Active : \A j \in Active : i >= j].password
----------------------------------------------------------------------------
(* The member, and what goes wrong.                                         *)

\* With a temporary password or by the link he is sent.
ChooseOwnPassword ==
    /\ login # 0 /\ password' = 0
    /\ calls' = [c \in Call |-> [calls[c] EXCEPT !.alone = FALSE]]
    /\ muddled' = IF \E c \in Call : Busy(c) THEN Everything ELSE muddled
    /\ UNCHANGED <<login, profile, linked, assigned, handoffs, issued, ids, invited>>

MarkPasswordChanged(c) ==
    /\ linked /\ password = 0 /\ profile.must
    /\ Begin(c, "changed", FALSE, <<"acknowledge", "audit", "clear">>)

AcknowledgePassword(c) ==
    /\ At(c, "acknowledge")
    /\ profile' = [profile EXCEPT !.must = FALSE]
    /\ Advance(c)
    /\ UNCHANGED <<login, password, linked, assigned, handoffs, issued, ids, invited, muddled>>

\* A handler that made the user tries to delete it again.
Fail(c) ==
    /\ Busy(c) /\ ~At(c, "delete")
    /\ Plan(c, IF calls[c].created THEN <<"delete">> ELSE <<>>, calls[c].id)
    /\ muddled' = Everything
    /\ UNCHANGED <<rows, issued, ids, invited>>

\* The rows that name the user keep it, and the refusal is not looked at.
SafeDeleteAuthUser(c) ==
    /\ At(c, "delete")
    /\ Advance(c)
    /\ IF Exists(c) /\ profile = NoProfile /\ ~linked /\ handoffs = <<>>
       THEN login' \in {0, login} /\ password' = IF login' = 0 THEN 0 ELSE password
       ELSE UNCHANGED <<login, password>>
    /\ UNCHANGED <<profile, linked, assigned, handoffs, issued, ids, invited, muddled>>

Next ==
    \/ \E c \in Call :
        \/ CreateMemberLogin(c) \/ ResetMemberPassword(c) \/ MarkPasswordChanged(c)
        \/ GetMember(c) \/ CreateUser(c) \/ FindAuthUserByEmail(c)
        \/ AssertAuthUserTenantConsistency(c) \/ UpsertProfile(c) \/ LinkMember(c)
        \/ UpdateAuthUser(c) \/ EnsureBranchAssignments(c) \/ ClearHandoffs(c)
        \/ SaveCredentialHandoff(c) \/ SendPasswordSetupLink(c) \/ LogAudit(c)
        \/ AcknowledgePassword(c) \/ Fail(c) \/ SafeDeleteAuthUser(c)
    \/ ChooseOwnPassword

Spec == Init /\ [][Next]_vars
----------------------------------------------------------------------------
\* Logins, profiles and handoffs keep to the values of their columns.
TypeOK ==
    /\ login \in 0..(MaxIssued + 1) /\ password \in 0..MaxIssued
    /\ profile \in [role : {"", "staff", "member"}, foreign : BOOLEAN, must : BOOLEAN]
    /\ linked \in BOOLEAN /\ assigned \in BOOLEAN
    /\ \A i \in DOMAIN handoffs : handoffs[i] \in [password : 1..MaxIssued, open : BOOLEAN]
    /\ DOMAIN calls = Call /\ issued \in 0..MaxIssued /\ ids \in 1..(MaxIssued + 1)
    /\ invited \in BOOLEAN /\ muddled \subseteq Everything

\* However handlers overlap, fail and take back what they made: the member is linked to a
\* login that is there and has a member's profile, the user of another tenant is left as he
\* is: no link, no other role and no new password.
LoginsAgree ==
    /\ linked => login # 0 /\ profile.role = "member"
    /\ profile.foreign => ~linked /\ profile.role = "staff" /\ password = 0

\* Once a password has been issued by a handler that ran alone, whatever went before: the
\* password that is shown to the office is the one in force, the member must change it
\* (unless he has been invited since), and one he has changed is shown no more.  Making the
\* login anew mends the branch as well, a reset does not.
SerialLogins ==
    (\A c \in Call : ~Busy(c)) =>
        /\ (linked /\ "branch" \notin muddled) => assigned
        /\ "password" \notin muddled =>
              /\ linked <=> profile.role = "member"
              /\ (linked /\ password # 0) => Shown = password /\ (profile.must \/ invited)
              /\ (linked /\ password = 0 /\ ~profile.must /\ ~invited) => Active = {}
=================================================================================
