------------------------------- MODULE AuditCases -------------------------------
(***************************************************************************)
(* A case of the auditors: what becomes of one exception of the ledger      *)
(* (src/src/modules/auditor/auditor.service.js).  There is no request that  *)
(* opens a case: looking at an exception, commenting on it, adding evidence *)
(* and updating it all make sure first that there is one, and whoever       *)
(* opens a critical one tells the auditors who have not opted out of it     *)
(* (src/src/modules/notifications/notifications.service.js).  An update     *)
(* writes back the whole row it has read.                                   *)
(***************************************************************************)
EXTENDS Naturals, FiniteSets

CONSTANTS
    Call,
    User,          \* users who are auditors at the start
    Evidence,      \* names of evidence rows
    Payload,       \* what a request may say of a case: some of its fields, their values
    Nobody,
    MaxRequests    \* bound: requests

VARIABLES
    auditors,     \* user_profiles: the active auditors
    muted,        \* user_notification_preferences: who wants no audit_case_critical in the app
    case,         \* audit_cases: the row of this exception
    comments,     \* audit_case_comments: their authors
    evidence,     \* audit_case_evidence
    told,         \* in-app notifications of the critical case: their recipients
    calls,
    requests,
    story,        \* history: who opened, last changed and closed the case, what was asked for it
    lost,         \* history: the opener of a critical case failed before everybody was told
    mixed         \* history: requests overlapped

vars == << auditors, muted, case, comments, evidence, told, calls, requests, story, lost,
           mixed >>

Closed == {"resolved", "waived"}
NoCase == [reason |-> "", status |-> "none", notes |-> "", assignee |-> Nobody, touched |-> FALSE,
           opener |-> Nobody, updater |-> Nobody, resolver |-> Nobody]
NoEvidence == [status |-> "none", by |-> Nobody, checksum |-> FALSE]
Idle == [ pc |-> "idle", work |-> "", actor |-> Nobody, payload |-> <<>>, existing |-> NoCase,
          who |-> {}, item |-> "" ]
NoStory == [opener |-> Nobody, updater |-> Nobody, closer |-> Nobody, status |-> "none",
            notes |-> "", assignee |-> Nobody, toTell |-> {}, spared |-> {}]

tables == <<case, comments, evidence, told>>
users == <<auditors, muted>>
Goto(c, pc) == calls' = [calls EXCEPT ![c].pc = pc]
Return(c) == calls' = [calls EXCEPT ![c] = Idle]

Init ==
    /\ auditors = User /\ muted = {}
    /\ case = NoCase /\ comments = {} /\ evidence = [e \in Evidence |-> NoEvidence] /\ told = {}
    /\ calls = [c \in Call |-> Idle]
    /\ requests = 0 /\ story = NoStory /\ lost = FALSE /\ mixed = FALSE
----------------------------------------------------------------------------
GetReasonSeverity(reason) ==
    CASE reason \in {"REVERSAL", "MAKER_CHECKER_VIOLATION", "CASH_VARIANCE"} -> "critical"
      [] reason \in {"HIGH_VALUE_TX", "BACKDATED_ENTRY", "OUT_OF_HOURS_POSTING"} -> "warning"
      [] OTHER -> "info"

GivenOr(payload, field, otherwise) ==
    IF field \in DOMAIN payload THEN payload[field] ELSE otherwise

\* Only updateCase takes a status, notes and an assignee; only a look need not give a reason.
Takes(work) == IF work = "update" THEN {"reason", "status", "notes", "assignee"} ELSE {"reason"}

Begin(c, work, pc) ==
    \E actor \in auditors, payload \in Payload :
        /\ calls[c].pc = "idle"
        /\ DOMAIN payload \subseteq Takes(work) /\ ("reason" \in DOMAIN payload \/ work = "detail")
        /\ calls' = [calls EXCEPT ![c] = [Idle EXCEPT !.pc = pc, !.work = work, !.actor = actor,
                                                      !.payload = payload]]
        /\ requests < MaxRequests /\ requests' = requests + 1
        /\ mixed' = (mixed \/ \E d \in Call : calls[d].pc # "idle")
        /\ UNCHANGED <<users, tables, story, lost>>

UpdateCase(c) == Begin(c, "update", "assignee")
GetCaseDetail(c) == Begin(c, "detail", "look")
AddCaseComment(c) == Begin(c, "comment", "look")
InitCaseEvidenceUpload(c) == Begin(c, "evidence", "look")

ValidateAssignee(c) ==
    LET assignee == GivenOr(calls[c].payload, "assignee", Nobody) IN
    /\ calls[c].pc = "assignee"
    /\ IF assignee \in auditors \cup {Nobody} THEN Goto(c, "look") ELSE Return(c)
    /\ UNCHANGED <<users, tables, story, requests, lost, mixed>>
----------------------------------------------------------------------------
(* ensureAuditCase.                                                         *)

Ensured(c, row) == calls' = [calls EXCEPT ![c].pc = calls[c].work, ![c].existing = row]

LookUpCase(c) ==
    /\ calls[c].pc = "look"
    /\ IF case # NoCase THEN Ensured(c, case)
       ELSE IF "reason" \in DOMAIN calls[c].payload THEN Goto(c, "insert") ELSE Return(c)
    /\ UNCHANGED <<users, tables, story, requests, lost, mixed>>

NewCase(c) ==
    LET payload == calls[c].payload
        status == GivenOr(payload, "status", "open") IN
    [ NoCase EXCEPT
        !.reason = payload["reason"], !.status = status,
        !.notes = GivenOr(payload, "notes", ""), !.assignee = GivenOr(payload, "assignee", Nobody),
        !.opener = calls[c].actor, !.updater = calls[c].actor,
        !.resolver = IF status \in Closed THEN calls[c].actor ELSE Nobody ]

\* unique (tenant_id, case_key): the second of two inserts takes the row of the first.
InsertCase(c) ==
    LET row == NewCase(c)
        critical == GetReasonSeverity(row.reason) = "critical" IN
    /\ calls[c].pc = "insert"
    /\ IF case # NoCase
       THEN Goto(c, "reread") /\ UNCHANGED <<case, story>>
       ELSE /\ case' = row
            /\ calls' = [calls EXCEPT ![c].pc = IF critical THEN "auditors" ELSE calls[c].work,
                                      ![c].existing = row]
            /\ story' = [NoStory EXCEPT !.opener = row.opener, !.closer = row.resolver,
                             !.status = row.status, !.notes = row.notes, !.assignee = row.assignee,
                             !.toTell = IF critical THEN auditors \ muted ELSE {},
                             !.spared = muted]
    /\ UNCHANGED <<users, comments, evidence, told, requests, lost, mixed>>

RereadCase(c) ==
    /\ calls[c].pc = "reread"
    /\ Ensured(c, case)
    /\ UNCHANGED <<users, tables, story, requests, lost, mixed>>

ReadAuditors(c) ==
    /\ calls[c].pc = "auditors"
    /\ calls' = [calls EXCEPT ![c].pc = "filter", ![c].who = auditors]
    /\ UNCHANGED <<users, tables, story, requests, lost, mixed>>

\* Without a preference of his own an auditor is told.
FilterRecipientsByNotificationPreference(c) ==
    /\ calls[c].pc = "filter"
    /\ calls' = [calls EXCEPT ![c].pc = "tell", ![c].who = @ \ muted]
    /\ UNCHANGED <<users, tables, story, requests, lost, mixed>>

\* One recipient after the other, then on with the request; where the table of notifications
\* does not exist, at once on with the request.
NotifyCriticalAuditCase(c) ==
    /\ calls[c].pc = "tell"
    /\ \/ /\ Goto(c, calls[c].work)
          /\ lost' = (lost \/ calls[c].who # {})
          /\ UNCHANGED told
       \/ \E u \in calls[c].who :
            /\ told' = told \cup {u} /\ calls' = [calls EXCEPT ![c].who = @ \ {u}]
            /\ UNCHANGED lost
    /\ UNCHANGED <<users, case, comments, evidence, story, requests, mixed>>
----------------------------------------------------------------------------
(* What was asked for.                                                      *)

\* The resolver is whoever writes a closed case; the reason, and with it the severity, is the
\* one that is given, and nobody is told if that makes the case critical.
NextCase(c) ==
    LET payload == calls[c].payload
        existing == calls[c].existing
        status == GivenOr(payload, "status", existing.status) IN
    [ existing EXCEPT
        !.reason = GivenOr(payload, "reason", @), !.status = status, !.touched = TRUE,
        !.notes = GivenOr(payload, "notes", @), !.assignee = GivenOr(payload, "assignee", @),
        !.updater = calls[c].actor,
        !.resolver = IF status \in Closed THEN calls[c].actor ELSE Nobody ]

UpsertCase(c) ==
    LET payload == calls[c].payload IN
    /\ calls[c].pc = "update"
    /\ case' = NextCase(c)
    /\ story' = [story EXCEPT
           !.updater = calls[c].actor,
           !.closer = IF GivenOr(payload, "status", story.status) \in Closed
                      THEN calls[c].actor ELSE Nobody,
           !.status = GivenOr(payload, "status", @), !.notes = GivenOr(payload, "notes", @),
           !.assignee = GivenOr(payload, "assignee", @)]
    /\ Return(c)
    /\ UNCHANGED <<users, comments, evidence, told, requests, lost, mixed>>

InsertComment(c) ==
    /\ calls[c].pc = "comment"
    /\ comments' = comments \cup {calls[c].actor}
    /\ Return(c)
    /\ UNCHANGED <<users, case, evidence, told, story, requests, lost, mixed>>

InsertEvidence(c) ==
    /\ calls[c].pc = "evidence"
    /\ \E e \in Evidence :
        /\ evidence[e] = NoEvidence
        /\ evidence' = [evidence EXCEPT
               ![e] = [status |-> "pending_upload", by |-> calls[c].actor, checksum |-> FALSE]]
    /\ Goto(c, "sign")
    /\ UNCHANGED <<users, case, comments, told, story, requests, lost, mixed>>

CreateSignedUploadUrl(c) ==
    /\ calls[c].pc = "sign"
    /\ Return(c)
    /\ UNCHANGED <<users, tables, story, requests, lost, mixed>>

ConfirmCaseEvidenceUpload(c) ==
    \E e \in Evidence :
        /\ calls[c].pc = "idle" /\ evidence[e] # NoEvidence
        /\ calls' = [calls EXCEPT ![c].pc = "confirm", ![c].work = "confirm", ![c].item = e]
        /\ requests < MaxRequests /\ requests' = requests + 1
        /\ mixed' = (mixed \/ \E d \in Call : calls[d].pc # "idle")
        /\ UNCHANGED <<users, tables, story, lost>>

\* Whether it was confirmed before is not asked, nor whether anything was uploaded.
UpdateEvidence(c) ==
    /\ calls[c].pc = "confirm"
    /\ \E checksum \in BOOLEAN :
           evidence' = [evidence EXCEPT ![calls[c].item].status = "uploaded",
                                        ![calls[c].item].checksum = checksum]
    /\ Return(c)
    /\ UNCHANGED <<users, case, comments, told, story, requests, lost, mixed>>

\* What a look at the case is shown, the latest first in the program.
Timeline ==
    {<<"opened", case.opener>>}
    \cup (IF case.touched THEN {<<"updated", case.updater>>} ELSE {})
    \cup (IF case.resolver = Nobody THEN {}
          ELSE {<<IF case.status = "waived" THEN "waived" ELSE "resolved", case.resolver>>})
    \cup {<<"comment", u>> : u \in comments}
    \cup {<<"evidence", evidence[e].by>> : e \in {f \in Evidence : evidence[f] # NoEvidence}}

ShowCase(c) ==
    /\ calls[c].pc = "detail"
    /\ Return(c)
    /\ UNCHANGED <<users, tables, story, requests, lost, mixed>>

Telling == {"auditors", "filter", "tell"}

Fails(c) ==
    /\ calls[c].pc # "idle"
    /\ Return(c)
    /\ lost' = (lost \/ calls[c].pc \in Telling)
    /\ UNCHANGED <<users, tables, story, requests, mixed>>

Leave(u) ==
    /\ u \in auditors
    /\ auditors' = auditors \ {u}
    /\ story' = IF \E c \in Call : calls[c].pc = "auditors"
                THEN [story EXCEPT !.toTell = @ \ {u}] ELSE story
    /\ UNCHANGED <<muted, tables, calls, requests, lost, mixed>>

\* The row is written whole, from one read before it: it may take back what another request of
\* the same user has just set, so it may say either.
UpdateNotificationPreference(u) ==
    /\ muted' \in {muted \cup {u}, muted \ {u}} \ {muted}
    /\ story' = IF \E c \in Call : calls[c].pc \in {"auditors", "filter"}
                THEN [story EXCEPT !.toTell = @ \ {u}, !.spared = @ \ {u}] ELSE story
    /\ UNCHANGED <<auditors, tables, calls, requests, lost, mixed>>

Next ==
    \/ \E c \in Call :
        \/ UpdateCase(c) \/ GetCaseDetail(c) \/ AddCaseComment(c) \/ InitCaseEvidenceUpload(c)
        \/ ValidateAssignee(c) \/ LookUpCase(c) \/ InsertCase(c) \/ RereadCase(c)
        \/ ReadAuditors(c) \/ FilterRecipientsByNotificationPreference(c)
        \/ NotifyCriticalAuditCase(c)
        \/ UpsertCase(c) \/ InsertComment(c) \/ InsertEvidence(c) \/ CreateSignedUploadUrl(c)
        \/ ConfirmCaseEvidenceUpload(c) \/ UpdateEvidence(c) \/ ShowCase(c) \/ Fails(c)
    \/ \E u \in User : Leave(u) \/ UpdateNotificationPreference(u)

Spec == Init /\ [][Next]_vars
----------------------------------------------------------------------------
Somebody == User \cup {Nobody}
Row == [ reason : {"", "REVERSAL", "HIGH_VALUE_TX", "MANUAL_JOURNAL"},
         status : Closed \cup {"none", "open", "under_review"},
         notes : {"", "note"}, assignee : Somebody, touched : BOOLEAN,
         opener : Somebody, updater : Somebody, resolver : Somebody ]

\* A case keeps to the values of its columns.
TypeOK ==
    /\ auditors \subseteq User /\ muted \subseteq User /\ case \in Row
    /\ told \subseteq User /\ comments \subseteq User
    /\ evidence \in [Evidence -> [ status : {"none", "pending_upload", "uploaded"},
                                   by : Somebody, checksum : BOOLEAN ]]
    /\ DOMAIN calls = Call /\ requests \in 0..MaxRequests
    /\ lost \in BOOLEAN /\ mixed \in BOOLEAN

\* However requests overlap, the opener of the case stays who inserted it (updates write it
\* back from what they have read) and comments and evidence are those of a case.  Of a case
\* opened as critical, whoever stayed an auditor until they were read and did not opt out
\* until the preferences were is told, unless its opener has failed, the table of
\* notifications is missing or the opener is still at it; and nobody who had opted out, and
\* left it so until then, is told.
CasesAgree ==
    /\ case.opener = story.opener
    /\ (comments # {} \/ \E e \in Evidence : evidence[e] # NoEvidence) => case # NoCase
    /\ \/ story.toTell \subseteq told
       \/ lost
       \/ \E c \in Call :
            /\ calls[c].pc \in Telling
            /\ calls[c].pc = "tell" => story.toTell \subseteq told \cup calls[c].who
    /\ told \cap story.spared = {}

\* Requests that do not overlap and do not fail halfway: the case has the status, the notes
\* and the assignee last asked for, and its timeline names who opened, last changed and
\* closed it and who commented or brought evidence.
SerialCases ==
    (~mixed /\ ~lost /\ case # NoCase /\ \A c \in Call : calls[c].pc = "idle") =>
        /\ case.status = story.status /\ case.notes = story.notes
        /\ case.assignee = story.assignee
        /\ {entry \in Timeline : entry[1] \in Closed \cup {"opened", "updated"}} =
               {<<"opened", story.opener>>}
               \cup {<<"updated", u>> : u \in {story.updater} \ {Nobody}}
               \cup {<<story.status, u>> : u \in {story.closer} \ {Nobody}}
=================================================================================
