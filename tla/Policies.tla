-------------------------------- MODULE Policies --------------------------------
(***************************************************************************)
(* The two tables that say when a treasury order needs a second pair of     *)
(* eyes: treasury_policies, changed by updateTreasuryPolicy                 *)
(* (src/src/modules/treasury/treasury.service.js), and the row of           *)
(* approval_policies for "treasury.order_execute", changed by               *)
(* updateApprovalPolicy (src/src/modules/approvals/approvals.service.js)    *)
(* and by every update of the treasury policy, which copies its threshold.  *)
(*                                                                          *)
(* Each handler reads a row, merges what it is asked into what it has read  *)
(* and writes the whole row back; a version, a history and a notification   *)
(* follow in statements of their own.                                       *)
(***************************************************************************)
EXTENDS Naturals, Sequences, SequencesExt

CONSTANTS
    Call,
    Account,          \* the ledger accounts of the tenant
    TreasuryPatch,    \* what may be asked of updateTreasuryPolicy: some fields, their values
    ApprovalPatch,    \* what may be asked of updateApprovalPolicy
    MaxUpdates        \* bound: updates of either kind

VARIABLES
    treasury,     \* the row of treasury_policies
    approval,     \* the row of approval_policies, once there is one
    histories,    \* treasury_policy_history
    told,         \* the versions whose event key has been notified
    audience,      \* there is somebody to notify
    calls,
    updates,
    asked,        \* history: what was last asked for each field by an update that went in
    due,          \* history: versions with somebody to tell all the way to their notice
    lost,         \* history: an update failed after its row was written
    mixed         \* history: updates overlapped

vars == << treasury, approval, histories, told, audience, calls, updates, asked, due, lost,
           mixed >>

\* Fields of treasury_policies: the threshold of approval, two reserves of cash of which the
\* first takes the second's place, two limits of which one bounds the other (0 is no limit),
\* and an account.
Field == {"threshold", "reserve", "buffer", "share", "single", "account", "version"}
NoRow == [threshold |-> 0, checkers |-> 0]
Idle == [pc |-> "idle", work |-> "", patch |-> <<>>, seen |-> <<>>, row |-> <<>>, base |-> NoRow]

Goto(c, pc) == calls' = [calls EXCEPT ![c].pc = pc]
Return(c) == calls' = [calls EXCEPT ![c] = Idle]
tables == <<treasury, approval, histories, told>>
Audience == {"none", "muted", "willing"}

Default(account) ==
    [ threshold |-> 0, reserve |-> 0, buffer |-> 0, share |-> 0, single |-> 0,
      account |-> account, version |-> 1 ]

Init ==
    /\ \E a \in Account : treasury = Default(a)
    /\ approval = NoRow
    /\ histories = <<>> /\ told = {} /\ audience \in Audience /\ due = {}
    /\ calls = [c \in Call |-> Idle]
    /\ updates = 0 /\ lost = FALSE /\ mixed = FALSE
    /\ asked = [treasury |-> treasury, threshold |-> 0, checkers |-> 1]
----------------------------------------------------------------------------
\* A missing row reads as the defaults of the operation.
DefaultPolicy == [threshold |-> 0, checkers |-> 1]
NormalizePolicy(row) == IF row = NoRow THEN DefaultPolicy ELSE row

GivenOr(patch, field, otherwise) == IF field \in DOMAIN patch THEN patch[field] ELSE otherwise

\* A reserve of nothing is taken for one that was never set.
MergePolicy(current, patch) ==
    LET buffer == GivenOr(patch, "buffer", current.buffer) IN
    [f \in Field |->
        CASE f = "version" -> current.version + 1
          [] f = "reserve" -> GivenOr(patch, f,
                                  IF current.reserve # 0 THEN current.reserve ELSE buffer)
          [] OTHER -> GivenOr(patch, f, current[f])]

MergeApproval(current, patch) == [f \in {"threshold", "checkers"} |->
    GivenOr(patch, f, current[f])]

\* treasury_policies_single_asset_le_asset_allocation_chk
RowAdmitted(row) == row.single = 0 \/ row.share = 0 \/ row.single <= row.share

Begin(c, work, patch) ==
    /\ calls[c].pc = "idle" /\ updates < MaxUpdates
    /\ calls' = [calls EXCEPT ![c] = [Idle EXCEPT !.pc = "read", !.work = work, !.patch = patch]]
    /\ updates' = updates + 1
    /\ mixed' = (mixed \/ \E d \in Call : calls[d].pc # "idle")
    /\ UNCHANGED <<tables, audience, asked, due, lost>>

UpdateTreasuryPolicy(c) == \E patch \in TreasuryPatch : Begin(c, "treasury", patch)
UpdateApprovalPolicy(c) == \E patch \in ApprovalPatch : Begin(c, "approval", patch)

GetTreasuryPolicyRecord(c) ==
    /\ calls[c].pc = "read" /\ calls[c].work = "treasury"
    /\ calls' = [calls EXCEPT ![c].pc = "accounts", ![c].seen = treasury]
    /\ UNCHANGED <<tables, audience, updates, asked, due, lost, mixed>>

\* The accounts that are asked for must be the tenant's.
TenantAccounts(patch) == "account" \in DOMAIN patch => patch["account"] \in Account

ValidatePolicyAccounts(c) ==
    /\ calls[c].pc = "accounts"
    /\ IF TenantAccounts(calls[c].patch) THEN Goto(c, "update") ELSE Return(c)
    /\ UNCHANGED <<tables, audience, updates, asked, due, lost, mixed>>

\* The row is named by the tenant alone, whatever its version has become.
UpdatePolicyRow(c) ==
    LET row == MergePolicy(calls[c].seen, calls[c].patch) IN
    /\ calls[c].pc = "update"
    /\ IF RowAdmitted(row)
       THEN /\ treasury' = row
            /\ calls' = [calls EXCEPT ![c].pc = "read policy", ![c].row = row]
            /\ asked' = [asked EXCEPT
                   !.treasury = [f \in Field |-> GivenOr(calls[c].patch, f, @[f])],
                   !.threshold = GivenOr(calls[c].patch, "threshold", asked.treasury.threshold)]
            /\ due' = IF audience = "willing" THEN due \cup {row.version} ELSE due
       ELSE Return(c) /\ UNCHANGED <<treasury, asked, due>>
    /\ UNCHANGED <<approval, histories, told, audience, updates, lost, mixed>>

\* Both handlers read the row of the operation...
GetPolicyForOperation(c) ==
    /\ \/ calls[c].pc = "read policy"
       \/ calls[c].pc = "read" /\ calls[c].work = "approval"
    /\ calls' = [calls EXCEPT ![c].pc = "upsert", ![c].base = NormalizePolicy(approval)]
    /\ UNCHANGED <<tables, audience, updates, asked, due, lost, mixed>>

\* ... and write all of it: one with the threshold of the treasury policy...
SyncTreasuryApprovalThreshold(c) ==
    /\ calls[c].pc = "upsert" /\ calls[c].work = "treasury"
    /\ approval' = [calls[c].base EXCEPT !.threshold = calls[c].row.threshold]
    /\ Goto(c, "history")
    /\ UNCHANGED <<treasury, histories, told, audience, updates, asked, due, lost, mixed>>

\* ... the other with what it was asked, without a look at the treasury policy.
UpsertApprovalPolicy(c) ==
    /\ calls[c].pc = "upsert" /\ calls[c].work = "approval"
    /\ approval' = MergeApproval(calls[c].base, calls[c].patch)
    /\ asked' = [asked EXCEPT !.threshold = GivenOr(calls[c].patch, "threshold", @),
                              !.checkers = GivenOr(calls[c].patch, "checkers", @)]
    /\ Goto(c, "audit")
    /\ UNCHANGED <<treasury, histories, told, audience, updates, due, lost, mixed>>

InsertPolicyHistory(c) ==
    /\ calls[c].pc = "history"
    /\ histories' = Append(histories, [previous |-> calls[c].seen, new |-> calls[c].row])
    /\ Goto(c, "audit")
    /\ UNCHANGED <<treasury, approval, told, audience, updates, asked, due, lost, mixed>>

LogAudit(c) ==
    /\ calls[c].pc = "audit"
    /\ IF calls[c].work = "treasury" THEN Goto(c, "recipients") ELSE Return(c)
    /\ UNCHANGED <<tables, audience, updates, asked, due, lost, mixed>>

LoadTreasuryRecipients(c) ==
    /\ calls[c].pc = "recipients"
    /\ Goto(c, IF audience = "none" THEN "answer" ELSE "filter")
    /\ UNCHANGED <<tables, audience, updates, asked, due, lost, mixed>>

\* createInAppNotifications asks who has opted out of these notices.
FilterRecipientsByNotificationPreference(c) ==
    /\ calls[c].pc = "filter"
    /\ Goto(c, IF audience = "willing" THEN "notify" ELSE "answer")
    /\ UNCHANGED <<tables, audience, updates, asked, due, lost, mixed>>

\* The event key is made of the version: a second update to the same version is not told.
\* A failure is swallowed, and so is a missing table of notifications.
NotifyTreasuryUsers(c) ==
    /\ calls[c].pc = "notify"
    /\ told' = told \cup {calls[c].row.version}
    /\ Goto(c, "answer")
    /\ UNCHANGED <<treasury, approval, histories, audience, updates, asked, due, lost, mixed>>

Notifying == {"recipients", "filter", "notify"}

NotifyFails(c) ==
    /\ calls[c].pc \in Notifying
    /\ Goto(c, "answer")
    /\ lost' = TRUE
    /\ UNCHANGED <<tables, audience, updates, asked, due, mixed>>

\* The answer is read from both tables again.
GetPolicyWithAccounts(c) ==
    /\ calls[c].pc = "answer"
    /\ Return(c)
    /\ UNCHANGED <<tables, audience, updates, asked, due, lost, mixed>>

Fails(c) ==
    /\ calls[c].pc \notin {"idle"} \cup Notifying
    /\ Return(c)
    /\ lost' = (lost \/ calls[c].row # <<>>)
    /\ UNCHANGED <<tables, audience, updates, asked, due, mixed>>

\* Recipients come and go, opt out and in; whoever is still to be told then need not be.
AudienceChanges ==
    /\ audience' \in Audience \ {audience}
    /\ due' = due \ {calls[c].row.version : c \in {d \in Call : calls[d].row # <<>>}}
    /\ UNCHANGED <<tables, calls, updates, asked, lost, mixed>>

Next ==
    \/ AudienceChanges
    \/ \E c \in Call :
           \/ UpdateTreasuryPolicy(c) \/ UpdateApprovalPolicy(c)
           \/ GetTreasuryPolicyRecord(c) \/ ValidatePolicyAccounts(c) \/ UpdatePolicyRow(c)
           \/ GetPolicyForOperation(c) \/ SyncTreasuryApprovalThreshold(c) \/ UpsertApprovalPolicy(c)
           \/ InsertPolicyHistory(c) \/ LogAudit(c)
           \/ LoadTreasuryRecipients(c) \/ FilterRecipientsByNotificationPreference(c)
           \/ NotifyTreasuryUsers(c) \/ NotifyFails(c)
           \/ GetPolicyWithAccounts(c) \/ Fails(c)

Spec == Init /\ [][Next]_vars
----------------------------------------------------------------------------
Amount == 0..2
Row == [ threshold : Amount, reserve : Amount, buffer : Amount, share : Amount, single : Amount,
         account : Account, version : 1..(MaxUpdates + 1) ]
ApprovalRow == [threshold : Amount, checkers : 1..2]

\* The rows keep to the columns of their tables and to the check between the two limits.
TypeOK ==
    /\ treasury \in Row /\ RowAdmitted(treasury)
    /\ approval \in ApprovalRow \cup {NoRow}
    /\ ToSet(histories) \subseteq [previous : Row, new : Row]
    /\ told \subseteq 2..(MaxUpdates + 1) /\ due \subseteq 2..(MaxUpdates + 1)
    /\ audience \in Audience
    /\ DOMAIN calls = Call /\ updates \in 0..MaxUpdates
    /\ lost \in BOOLEAN /\ mixed \in BOOLEAN

AllIdle == \A c \in Call : calls[c].pc = "idle"
Values(f) == {patch[f] : patch \in {p \in TreasuryPatch : f \in DOMAIN p}}

\* Whoever overlaps, the treasury policy in force is in the history, unless its writer has
\* failed or is still at it, and a version of which people are told is one of the history
\* (updateTreasuryPolicy writes, records and tells in statements of their own).
PolicyIsRecorded ==
    /\ \/ lost
       \/ treasury.version = 1
       \/ \E i \in DOMAIN histories : histories[i].new = treasury
       \/ \E c \in Call : calls[c].row = treasury
    /\ \A v \in told : \E i \in DOMAIN histories : histories[i].new.version = v

\* Updates that do not overlap and do not fail halfway: every field is what was last asked
\* for it (a reserve of nothing may have become the buffer), the approvals use the
\* threshold and the number of checkers last asked of either handler, the history leads
\* from each version to the next, and people were told of every version, unless there was
\* nobody to tell, or nobody who had not opted out, at some point until they were read.
SerialPolicies ==
    (AllIdle /\ ~mixed /\ ~lost) =>
        /\ \A f \in Field \ {"version", "reserve"} : treasury[f] = asked.treasury[f]
        /\ asked.treasury.reserve # 0 => treasury.reserve = asked.treasury.reserve
        /\ NormalizePolicy(approval) = [threshold |-> asked.threshold, checkers |-> asked.checkers]
        /\ treasury.version = Len(histories) + 1
        /\ \A i \in DOMAIN histories : histories[i].previous.version = i
        /\ \A i \in 2..Len(histories) : histories[i].previous = histories[i - 1].new
        /\ histories # <<>> => Last(histories).new = treasury
        /\ due \subseteq told
=================================================================================
