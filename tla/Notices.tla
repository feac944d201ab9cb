-------------------------------- MODULE Notices --------------------------------
(***************************************************************************)
(* Notifications and alerts: src/src/services/branch-alerts.service.js,     *)
(* src/src/modules/notifications and notification-settings.                 *)
(*                                                                          *)
(* One event, that is one event key: scans, retries and overlapping         *)
(* handlers announce it as often as they like.  Recipients are read, each   *)
(* gets a row in the app, then an SMS goes to those who take it, claimed    *)
(* by a dispatch row that a unique index admits once.  The settings in      *)
(* between are read one await at a time, one of them through a cache of     *)
(* the process.  The same rows are read and archived by their owners.  The  *)
(* subscription in isSmsTriggerEnabled is a stub that is always usable, and *)
(* SMS are switched on (env.branchAlertSmsEnabled).                         *)
(***************************************************************************)
EXTENDS Naturals, FiniteSets

CONSTANTS
    Call, User, Phone, NoUser,
    RoleOf,       \* the role of each user
    MaxChanges    \* bound: changes of settings and profiles

Target == (User \cup {NoUser}) \X Phone
NoOne == CHOOSE x \in Target : x[1] = NoUser

VARIABLES
    staff,        \* user_profiles and branch_staff_assignments
    choices,      \* user_notification_preferences, for this event
    trigger,      \* sms_trigger_settings, for this event
    owed,         \* loan_schedules: the instalment of a reminder is outstanding
    cache,        \* smsTriggerCache of the process: nothing or a value
    notices,      \* notifications, one row per user or none
    dispatches,   \* notification_dispatches, one row per target or none
    texts,        \* how many SMS reached a target
    noticeCalls,
    changes,
    excused,      \* history: a setting changed, or could not be read, under an alert
    unwanted      \* history: an SMS went to someone whose settings forbade it

vars == << staff, choices, trigger, owed, cache, notices, dispatches, texts, noticeCalls,
           changes, excused, unwanted >>

NoNotice == [status |-> "none", read |-> FALSE, archived |-> FALSE]
Choice == [inApp : BOOLEAN, sms : BOOLEAN]
AlertWork == { "remind", "assignments", "profiles", "inApp", "insert", "settings", "store", "sms",
               "dispatch", "send", "sent", "failed" }
Calls == [ pc : AlertWork \cup {"idle", "upsert", "invalidate", "choose", "read", "archive"},
           reminder : BOOLEAN, scope : SUBSET User, who : SUBSET Target, todo : SUBSET Target,
           to : Target, value : BOOLEAN, choice : Choice ]
Idle == [ pc |-> "idle", reminder |-> FALSE, scope |-> {}, who |-> {}, todo |-> {}, to |-> NoOne,
          value |-> FALSE, choice |-> [inApp |-> TRUE, sms |-> TRUE] ]

Goto(c, pc) == noticeCalls' = [noticeCalls EXCEPT ![c].pc = pc]
Return(c) == noticeCalls' = [noticeCalls EXCEPT ![c] = Idle]
Alerting == \E c \in Call : noticeCalls[c].pc \in AlertWork
Change == changes < MaxChanges /\ changes' = changes + 1 /\ excused' = (excused \/ Alerting)

settings == <<staff, choices, trigger, owed, changes>>
outbox == <<dispatches, texts, unwanted>>

Init ==
    /\ staff \in [User -> {[ on |-> TRUE, near |-> n, phone |-> CHOOSE p \in Phone : TRUE ] :
                           n \in BOOLEAN}]
    /\ choices \in [User -> {[inApp |-> TRUE, sms |-> s] : s \in BOOLEAN}]
    /\ trigger \in BOOLEAN /\ owed = TRUE /\ cache = {}
    /\ notices = [u \in User |-> NoNotice]
    /\ dispatches = [t \in Target |-> "none"] /\ texts = [t \in Target |-> 0]
    /\ noticeCalls = [c \in Call |-> Idle]
    /\ changes = 0 /\ excused = FALSE /\ unwanted = FALSE
----------------------------------------------------------------------------
(* Who is told.                                                             *)

Start(c, call) ==
    /\ noticeCalls[c] = Idle
    /\ noticeCalls' = [noticeCalls EXCEPT ![c] = call]
    /\ excused' = (excused \/ \E d \in Call : noticeCalls[d].pc = "invalidate")
    /\ UNCHANGED <<settings, cache, notices, outbox>>

NotifyRoleUsers(c, role, except) ==
    Start(c, [Idle EXCEPT !.pc = "assignments",
                          !.scope = {u \in User \ except : RoleOf[u] = role}])
NotifyBranchManagers(c, except) == NotifyRoleUsers(c, "branch_manager", except)
NotifyUsersById(c, users) == Start(c, [Idle EXCEPT !.pc = "profiles", !.scope = users])
NotifyDirectPhones(c, phones) ==
    Start(c, [Idle EXCEPT !.pc = "settings", !.who = {NoUser} \X phones])

\* The alerts by whom they go to: managers and officers without the one who caused them, the
\* member or the maker concerned, an applicant without a login.
TellManagers(c) == \E u \in User \cup {NoUser} : NotifyBranchManagers(c, {u})
TellOfficers(c) == \E u \in User \cup {NoUser} : NotifyRoleUsers(c, "loan_officer", {u})
TellUser(c) == \E u \in User : NotifyUsersById(c, {u})
TellApplicant(c) == \E p \in Phone : NotifyDirectPhones(c, {p})

\* A scan reads the instalments that are due, then alerts one after the other.
FetchReminderCandidates(c) ==
    /\ owed
    /\ Start(c, [Idle EXCEPT !.pc = "remind", !.reminder = TRUE])
Remind(c, call) ==
    /\ noticeCalls[c].pc = "remind"
    /\ noticeCalls' = [noticeCalls EXCEPT ![c] = call]
    /\ UNCHANGED <<settings, cache, notices, outbox, excused>>
NotifyMemberRepaymentDueSoon(c) ==
    \E u \in User : Remind(c, [noticeCalls[c] EXCEPT !.pc = "profiles", !.scope = {u}])
\* Overdue: the staff as well, under another key.
NotifyRepaymentOverdue(c) ==
    \/ NotifyMemberRepaymentDueSoon(c)
    \/ \E role \in {"branch_manager", "loan_officer"} :
          Remind(c, [noticeCalls[c] EXCEPT !.pc = "assignments",
                                           !.scope = {u \in User : RoleOf[u] = role}])

\* An error counts as a branch without assignments, and such a branch means everybody.
LoadAssignments(c) ==
    /\ noticeCalls[c].pc = "assignments"
    /\ LET near == {u \in User : staff[u].near} IN
       \E known \in BOOLEAN :
          noticeCalls' = [noticeCalls EXCEPT ![c].pc = "profiles",
              ![c].scope = IF known /\ near # {} THEN @ \cap near ELSE @]
    /\ UNCHANGED <<settings, cache, notices, outbox, excused>>

LoadRecipients(c) ==
    LET found == {<<u, staff[u].phone>> : u \in {v \in noticeCalls[c].scope : staff[v].on}} IN
    /\ noticeCalls[c].pc = "profiles"
    /\ IF found = {} THEN Return(c)
       ELSE noticeCalls' = [noticeCalls EXCEPT ![c].pc = "inApp", ![c].who = found]
    /\ UNCHANGED <<settings, cache, notices, outbox, excused>>
----------------------------------------------------------------------------
(* In the app.                                                              *)

Loop(todo, going, done) == IF todo = {} THEN done ELSE going

FilterInApp(c) ==
    LET allowed == {t \in noticeCalls[c].who : choices[t[1]].inApp} IN
    /\ noticeCalls[c].pc = "inApp"
    /\ noticeCalls' = [noticeCalls EXCEPT ![c].todo = allowed,
                                          ![c].pc = Loop(allowed, "insert", "settings")]
    /\ UNCHANGED <<settings, cache, notices, outbox, excused>>

\* The unique index on event key and recipient keeps the row that is there.
CreateInAppNotification(c) ==
    /\ noticeCalls[c].pc = "insert"
    /\ \E t \in noticeCalls[c].todo : LET left == noticeCalls[c].todo \ {t} IN
          /\ notices' = [notices EXCEPT ![t[1]] =
                 IF @ = NoNotice THEN [NoNotice EXCEPT !.status = "unread"] ELSE @]
          /\ noticeCalls' = [noticeCalls EXCEPT ![c].todo = left,
                                                ![c].pc = Loop(left, "insert", "settings")]
    /\ UNCHANGED <<settings, cache, outbox, excused>>
----------------------------------------------------------------------------
(* Whether SMS are sent at all.                                             *)

Obey(c, enabled) == IF enabled THEN Goto(c, "sms") ELSE Return(c)

LoadSmsTriggerMap(c) ==
    /\ noticeCalls[c].pc = "settings"
    /\ IF cache # {} THEN Obey(c, TRUE \in cache)
       ELSE noticeCalls' = [noticeCalls EXCEPT ![c].pc = "store", ![c].value = trigger]
    /\ UNCHANGED <<settings, cache, notices, outbox, excused>>

StoreSmsTriggerMap(c) ==
    /\ noticeCalls[c].pc = "store"
    /\ cache' = {noticeCalls[c].value}
    /\ Obey(c, noticeCalls[c].value)
    /\ UNCHANGED <<settings, notices, outbox, excused>>

\* A setting that cannot be read counts as enabled.
TriggerLookupFails(c) ==
    /\ noticeCalls[c].pc = "settings" /\ cache = {}
    /\ Obey(c, TRUE)
    /\ excused' = TRUE
    /\ UNCHANGED <<settings, cache, notices, outbox>>
----------------------------------------------------------------------------
(* One SMS after the other.                                                 *)

FilterSms(c) ==
    LET allowed == {t \in noticeCalls[c].who : t[1] = NoUser \/ choices[t[1]].sms} IN
    /\ noticeCalls[c].pc = "sms"
    /\ IF allowed = {} THEN Return(c)
       ELSE noticeCalls' = [noticeCalls EXCEPT ![c].pc = "dispatch", ![c].todo = allowed]
    /\ UNCHANGED <<settings, cache, notices, outbox, excused>>

\* The unique index on event key, user, phone and channel.
Claimed(t) == dispatches[t] # "none"

CreateDispatchRow(c) ==
    /\ noticeCalls[c].pc = "dispatch"
    /\ \E t \in noticeCalls[c].todo : LET left == noticeCalls[c].todo \ {t} IN
          IF Claimed(t)
          THEN /\ IF left = {} THEN Return(c)
                  ELSE noticeCalls' = [noticeCalls EXCEPT ![c].todo = left]
               /\ UNCHANGED dispatches
          ELSE /\ dispatches' = [dispatches EXCEPT ![t] = "pending"]
               /\ noticeCalls' = [noticeCalls EXCEPT
                      ![c] = [@ EXCEPT !.pc = "send", !.to = t, !.todo = left]]
    /\ UNCHANGED <<settings, cache, notices, texts, unwanted, excused>>

Forbidden(c, t) ==
    \/ ~trigger \/ (noticeCalls[c].reminder /\ ~owed)
    \/ (t[1] # NoUser /\ (~choices[t[1]].sms \/ ~staff[t[1]].on))

\* The provider may have sent what it reports as failed, and may never answer.
SendTransactionalSms(c) ==
    LET t == noticeCalls[c].to IN
    /\ noticeCalls[c].pc = "send"
    /\ \/ /\ texts' = [texts EXCEPT ![t] = @ + 1]
          /\ unwanted' = (unwanted \/ Forbidden(c, t))
          /\ \E pc \in {"sent", "failed"} : Goto(c, pc)
       \/ Goto(c, "failed") /\ UNCHANGED <<texts, unwanted>>
    /\ UNCHANGED <<settings, cache, notices, dispatches, excused>>

Onwards(c) == IF noticeCalls[c].todo = {} THEN Return(c)
              ELSE noticeCalls' = [noticeCalls EXCEPT ![c].pc = "dispatch", ![c].to = NoOne]

MarkDispatchStatus(c) ==
    /\ noticeCalls[c].pc \in {"sent", "failed"}
    /\ dispatches' = [dispatches EXCEPT ![noticeCalls[c].to] = noticeCalls[c].pc]
    /\ Onwards(c)
    /\ UNCHANGED <<settings, cache, notices, texts, unwanted, excused>>

MarkFails(c) ==
    /\ \/ noticeCalls[c].pc = "sent" /\ Goto(c, "failed")
       \/ noticeCalls[c].pc = "failed" /\ Onwards(c)
    /\ UNCHANGED <<settings, cache, notices, outbox, excused>>
----------------------------------------------------------------------------
(* Settings and profiles.                                                   *)

UpdateSmsTrigger(c, enabled) ==
    /\ noticeCalls[c] = Idle
    /\ noticeCalls' = [noticeCalls EXCEPT ![c].pc = "upsert", ![c].value = enabled]
    /\ UNCHANGED <<settings, cache, notices, outbox, excused>>

UpsertSmsTrigger(c) ==
    /\ noticeCalls[c].pc = "upsert"
    /\ Change /\ trigger' = noticeCalls[c].value
    /\ Goto(c, "invalidate")
    /\ UNCHANGED <<staff, choices, owed, cache, notices, outbox>>

InvalidateSmsTriggerCache(c) ==
    /\ noticeCalls[c].pc = "invalidate"
    /\ cache' = {} /\ Return(c)
    /\ excused' = (excused \/ \E d \in Call : noticeCalls[d].pc \in AlertWork)
    /\ UNCHANGED <<settings, notices, outbox>>

\* In another process, which clears a cache of its own.
UpdateElsewhere ==
    /\ changes < MaxChanges /\ changes' = changes + 1
    /\ trigger' = ~trigger
    /\ excused' = (excused \/ Alerting \/ cache # {})
    /\ UNCHANGED <<staff, choices, owed, cache, notices, outbox, noticeCalls>>

CacheExpires ==
    /\ cache' = {}
    /\ UNCHANGED <<settings, notices, outbox, noticeCalls, excused>>

UpdateNotificationPreference(c, u, choice) ==
    /\ noticeCalls[c] = Idle
    /\ choice \in {[choices[u] EXCEPT !.inApp = ~@], [choices[u] EXCEPT !.sms = ~@]}
    /\ noticeCalls' = [noticeCalls EXCEPT ![c] =
           [Idle EXCEPT !.pc = "choose", !.scope = {u}, !.choice = choice]]
    /\ UNCHANGED <<settings, cache, notices, outbox, excused>>

UpsertNotificationPreference(c) ==
    /\ noticeCalls[c].pc = "choose"
    /\ \E u \in noticeCalls[c].scope :
          choices' = [choices EXCEPT ![u] = noticeCalls[c].choice]
    /\ Change /\ Return(c)
    /\ UNCHANGED <<staff, trigger, owed, cache, notices, outbox>>

\* The instalment is paid.
Repay ==
    /\ owed /\ Change /\ owed' = FALSE
    /\ UNCHANGED <<staff, choices, trigger, cache, notices, outbox, noticeCalls>>

ChangeProfile(u) ==
    /\ Change
    /\ \/ staff' = [staff EXCEPT ![u].on = ~@]
       \/ staff' = [staff EXCEPT ![u].near = ~@]
       \/ \E p \in Phone \ {staff[u].phone} : staff' = [staff EXCEPT ![u].phone = p]
    /\ UNCHANGED <<choices, trigger, owed, cache, notices, outbox, noticeCalls>>
----------------------------------------------------------------------------
(* The rows in the app and their owners.                                    *)

\* The row that is read decides whether there is anything to do; the update asks no more.
Open(c, u, pc, done) ==
    /\ noticeCalls[c] = Idle /\ notices[u].status \notin {"none", done}
    /\ noticeCalls' = [noticeCalls EXCEPT ![c].pc = pc, ![c].scope = {u}]
    /\ UNCHANGED <<settings, cache, notices, outbox, excused>>

MarkNotificationRead(c, u) == Open(c, u, "read", "read")
ArchiveNotification(c, u) == Open(c, u, "archive", "archived")

ReadRow == [status |-> "read", read |-> TRUE, archived |-> FALSE]
ArchivedRow == [status |-> "archived", read |-> TRUE, archived |-> TRUE]

WriteNotice(c) ==
    /\ noticeCalls[c].pc \in {"read", "archive"}
    /\ \E u \in noticeCalls[c].scope : notices' =
          [notices EXCEPT ![u] = IF noticeCalls[c].pc = "read" THEN ReadRow ELSE ArchivedRow]
    /\ Return(c)
    /\ UNCHANGED <<settings, cache, outbox, excused>>

MarkAllNotificationsRead(u) ==
    /\ notices[u].status = "unread"
    /\ notices' = [notices EXCEPT ![u] = ReadRow]
    /\ UNCHANGED <<settings, cache, outbox, noticeCalls, excused>>

ArchiveReadNotifications(u) ==
    /\ notices[u].status = "read"
    /\ notices' = [notices EXCEPT ![u].status = "archived", ![u].archived = TRUE]
    /\ UNCHANGED <<settings, cache, outbox, noticeCalls, excused>>
----------------------------------------------------------------------------
(* What a statement that throws ends, and what a process that stops does.   *)
Fail(c) ==
    /\ noticeCalls[c].pc \notin {"idle", "assignments", "settings", "store", "send",
                                 "sent", "failed", "invalidate"}
    /\ Return(c)
    /\ UNCHANGED <<settings, cache, notices, outbox, excused>>

Crash ==
    /\ \E c \in Call : noticeCalls[c].pc # "idle"
    /\ noticeCalls' = [c \in Call |-> Idle] /\ cache' = {}
    /\ UNCHANGED <<settings, notices, outbox, excused>>

Next ==
    \/ \E c \in Call :
          \/ TellManagers(c) \/ TellOfficers(c) \/ TellUser(c) \/ TellApplicant(c)
          \/ FetchReminderCandidates(c) \/ NotifyRepaymentOverdue(c)
          \/ LoadAssignments(c) \/ LoadRecipients(c) \/ FilterInApp(c)
          \/ CreateInAppNotification(c) \/ LoadSmsTriggerMap(c)
          \/ StoreSmsTriggerMap(c) \/ TriggerLookupFails(c) \/ FilterSms(c)
          \/ CreateDispatchRow(c) \/ SendTransactionalSms(c) \/ MarkDispatchStatus(c)
          \/ MarkFails(c)
          \/ \E enabled \in BOOLEAN : UpdateSmsTrigger(c, enabled)
          \/ UpsertSmsTrigger(c) \/ InvalidateSmsTriggerCache(c)
          \/ \E u \in User :
                \/ \E choice \in Choice : UpdateNotificationPreference(c, u, choice)
                \/ MarkNotificationRead(c, u) \/ ArchiveNotification(c, u)
          \/ UpsertNotificationPreference(c) \/ WriteNotice(c) \/ Fail(c)
    \/ UpdateElsewhere \/ Repay \/ CacheExpires \/ Crash
    \/ \E u \in User :
          ChangeProfile(u) \/ MarkAllNotificationsRead(u) \/ ArchiveReadNotifications(u)

Spec == Init /\ [][Next]_vars
----------------------------------------------------------------------------
(* Properties.                                                              *)

TypeOK ==
    /\ staff \in [User -> [on : BOOLEAN, near : BOOLEAN, phone : Phone]]
    /\ choices \in [User -> Choice] /\ trigger \in BOOLEAN /\ owed \in BOOLEAN
    /\ cache \in {{}, {TRUE}, {FALSE}}
    /\ notices \in [User -> [status : {"none", "unread", "read", "archived"},
                             read : BOOLEAN, archived : BOOLEAN]]
    /\ dispatches \in [Target -> {"none", "pending", "sent", "failed"}]
    /\ texts \in [Target -> Nat] /\ noticeCalls \in [Call -> Calls]

\* However often an event is announced, and wherever alerts fail or die, a telephone gets at
\* most one SMS for it under one user; a dispatch that says sent was sent, and one that was
\* sent is on record.  The dates of a row in the app tell its status.
AlertedOnce ==
    /\ \A t \in Target :
          /\ texts[t] <= 1
          /\ dispatches[t] = "sent" => texts[t] = 1
          /\ texts[t] = 1 => dispatches[t] # "none"
    /\ \A u \in User : notices[u] = NoNotice \/ notices[u] \in
          {[NoNotice EXCEPT !.status = "unread"], ReadRow, ArchivedRow}

\* As long as no setting changes, and none is unreadable, while an alert is under way, nobody
\* gets an SMS the settings forbid, cached or not, and the cache holds what the table holds.
SerialAlerts ==
    ~excused => /\ ~unwanted
                /\ cache \subseteq {trigger} \/ \E c \in Call : noticeCalls[c].pc = "invalidate"
=============================================================================
