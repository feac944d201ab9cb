--------------------------------- MODULE Timers ---------------------------------
(***************************************************************************)
(* The timers of the server processes: the nightly accrual of interest      *)
(* (finance/interest-accrual.scheduler.js, finance.service.js), the         *)
(* detection of defaults (credit-risk/default-detection.scheduler.js) and   *)
(* the reminders (notifications/repayment-reminders.scheduler.js), over all *)
(* active tenants, in every process, beside accruals that are asked for by  *)
(* hand and periods that are closed.                                        *)
(*                                                                          *)
(* Each tenant has one loan that bears interest.  interest_accrual reads    *)
(* and posts in one transaction that locks nothing it has read (LoanBook    *)
(* has all of it); what a scan of defaults or reminders does to a tenant is *)
(* in CreditRisk and Notices.                                               *)
(***************************************************************************)
EXTENDS Naturals, FiniteSets

CONSTANTS
    Process,
    Slot,         \* cycles a timer of a process could have at a time
    Call,         \* accruals by hand
    Tenant,
    MaxDay        \* bound of the calendar

VARIABLES
    today,
    active,       \* tenants whose status is active
    admins,       \* tenants with an active super admin
    accrued,      \* loans.last_interest_accrual_at
    charged,      \* days of interest posted so far
    closed,       \* the last day of the last closed period
    audits,       \* tenants with an accrual in audit_logs
    running,      \* the flag of each scheduler
    cycles,
    calls,
    scanned,      \* the last day a tenant was scanned for defaults, for reminders
    overlapped    \* history: tenants whose accruals overlapped

vars == << today, active, admins, accrued, charged, closed, audits, running, cycles, calls,
           scanned, overlapped >>

Day == 0..MaxDay
Scans == {"defaults", "reminders"}
Timer == Scans \cup {"accrual"}

NoAccrual == [pc |-> "idle", tenant |-> "", date |-> 0, seen |-> 0]
NoCycle == [ pc |-> "idle", day |-> 0, given |-> {}, todo |-> {}, done |-> {}, skipped |-> {},
             lost |-> {}, task |-> NoAccrual ]

Init ==
    /\ today = 1
    /\ active \in SUBSET Tenant /\ admins \in SUBSET Tenant
    /\ accrued = [t \in Tenant |-> 0] /\ charged = [t \in Tenant |-> 0]
    /\ closed = [t \in Tenant |-> 0] /\ audits = {}
    /\ running = [p \in Process |-> [k \in Timer |-> FALSE]]
    /\ cycles = [p \in Process |-> [k \in Timer |-> [s \in Slot |-> NoCycle]]]
    /\ calls = [c \in Call |-> NoAccrual]
    /\ scanned = [k \in Scans |-> [t \in Tenant |-> 0]]
    /\ overlapped = {}

tables == <<today, active, admins, accrued, charged, closed, audits, scanned>>
----------------------------------------------------------------------------
(* interest_accrual, for a timer or for a call.                             *)

Tasks ==
    {cycles[p]["accrual"][s].task : p \in Process, s \in Slot} \cup {calls[c] : c \in Call}

\* Tasks whose transaction is open on the tenant.
Open(t) == {task \in Tasks : task.pc = "post" /\ task.tenant = t}
\* The transaction reads what it charges by.
Read(task) == [task EXCEPT !.pc = "post", !.seen = accrued[task.tenant]]
NoteOverlap(t) == overlapped' = IF Open(t) # {} THEN overlapped \cup {t} ELSE overlapped

Days(task) == IF task.date > task.seen THEN task.date - task.seen ELSE 0

\* post_journal_entry refuses a day of a closed period.
Refused(task) == Days(task) > 0 /\ task.date <= closed[task.tenant]

\* A loan that has no day to charge keeps its date.
PostAccrual(task) ==
    LET t == task.tenant IN
    /\ charged' = [charged EXCEPT ![t] = @ + Days(task)]
    /\ accrued' = [accrued EXCEPT ![t] = IF Days(task) > 0 THEN task.date ELSE @]

LogAudit(task) == audits' = audits \cup {task.tenant}
----------------------------------------------------------------------------
(* Accruals by hand.                                                        *)

AccrueInterest(c, t, date) ==
    /\ calls[c].pc = "idle"
    /\ calls' = [calls EXCEPT ![c] = Read([NoAccrual EXCEPT !.tenant = t, !.date = date])]
    /\ NoteOverlap(t)
    /\ UNCHANGED <<tables, running, cycles>>

PostByHand(c) ==
    /\ calls[c].pc = "post" /\ ~Refused(calls[c])
    /\ PostAccrual(calls[c])
    /\ calls' = [calls EXCEPT ![c].pc = "audit"]
    /\ UNCHANGED <<today, active, admins, closed, audits, running, cycles, scanned, overlapped>>

AuditByHand(c) ==
    /\ calls[c].pc = "audit"
    /\ LogAudit(calls[c])
    /\ calls' = [calls EXCEPT ![c] = NoAccrual]
    /\ UNCHANGED << today, active, admins, accrued, charged, closed, running, cycles, scanned,
                    overlapped >>

FailByHand(c) ==
    /\ calls[c].pc # "idle"
    /\ calls' = [calls EXCEPT ![c] = NoAccrual]
    /\ UNCHANGED <<tables, running, cycles, overlapped>>

\* closePeriod, which the ledger has in full.
ClosePeriod(t, date) ==
    /\ date > closed[t] /\ closed' = [closed EXCEPT ![t] = date]
    /\ UNCHANGED << today, active, admins, accrued, charged, audits, running, cycles, calls,
                    scanned, overlapped >>
----------------------------------------------------------------------------
(* Cycles.                                                                  *)

Put(p, k, s, cycle) == cycles' = [cycles EXCEPT ![p][k][s] = cycle]

MayStart(p, k) == ~running[p][k]

RunCycle(p, k, s) ==
    /\ MayStart(p, k) /\ cycles[p][k][s].pc = "idle"
    /\ running' = [running EXCEPT ![p][k] = TRUE]
    /\ Put(p, k, s, [NoCycle EXCEPT !.pc = "tenants"])
    /\ UNCHANGED <<tables, calls, overlapped>>

LoadTenants(p, k, s) ==
    /\ cycles[p][k][s].pc = "tenants"
    /\ Put(p, k, s, [NoCycle EXCEPT !.pc = "next", !.day = today, !.given = active,
                                    !.todo = active])
    /\ UNCHANGED <<tables, running, calls, overlapped>>

\* The day is the one on which the tenant has its turn.
NextTenant(p, k, s, t) ==
    LET cycle == cycles[p][k][s] IN
    /\ cycle.pc = "next" /\ t \in cycle.todo
    /\ Put(p, k, s, [cycle EXCEPT
           !.pc = "task", !.todo = @ \ {t},
           !.task = [NoAccrual EXCEPT !.pc = "actor", !.tenant = t, !.date = today]])
    /\ UNCHANGED <<tables, running, calls, overlapped>>

\* Without a super admin nobody could be named as who posted.
ResolveActor(p, s) ==
    LET cycle == cycles[p]["accrual"][s]
        t == cycle.task.tenant
    IN
    /\ cycle.pc = "task" /\ cycle.task.pc = "actor"
    /\ IF t \in admins
       THEN /\ Put(p, "accrual", s, [cycle EXCEPT !.task = Read(@)])
            /\ NoteOverlap(t)
       ELSE /\ Put(p, "accrual", s, [cycle EXCEPT !.pc = "next", !.skipped = @ \cup {t},
                                                  !.task = NoAccrual])
            /\ UNCHANGED overlapped
    /\ UNCHANGED <<tables, running, calls>>

PostNightly(p, s) ==
    LET cycle == cycles[p]["accrual"][s] IN
    /\ cycle.task.pc = "post" /\ ~Refused(cycle.task)
    /\ PostAccrual(cycle.task)
    /\ Put(p, "accrual", s, [cycle EXCEPT !.task.pc = "audit"])
    /\ UNCHANGED <<today, active, admins, closed, audits, running, calls, scanned, overlapped>>

AuditNightly(p, s) ==
    LET cycle == cycles[p]["accrual"][s] IN
    /\ cycle.task.pc = "audit"
    /\ LogAudit(cycle.task)
    /\ Put(p, "accrual", s, [cycle EXCEPT !.pc = "next", !.done = @ \cup {cycle.task.tenant},
                                          !.task = NoAccrual])
    /\ UNCHANGED << today, active, admins, accrued, charged, closed, running, calls, scanned,
                    overlapped >>

Scan(p, k, s) ==
    LET cycle == cycles[p][k][s]
        t == cycle.task.tenant
    IN
    /\ k \in Scans /\ cycle.pc = "task"
    /\ scanned' = [scanned EXCEPT ![k][t] = today]
    /\ Put(p, k, s, [cycle EXCEPT !.pc = "next", !.done = @ \cup {t}, !.task = NoAccrual])
    /\ UNCHANGED << today, active, admins, accrued, charged, closed, audits, running, calls,
                    overlapped >>

\* A tenant whose accrual fails is noted and the others follow; a scan that fails ends the
\* cycle, and the tenants that were to follow wait for the next one.
TenantFails(p, k, s) ==
    LET cycle == cycles[p][k][s]
        t == cycle.task.tenant
    IN
    /\ cycle.pc = "task"
    /\ Put(p, k, s, [cycle EXCEPT !.pc = IF k = "accrual" THEN "next" ELSE "failed",
                                  !.lost = @ \cup {t}, !.task = NoAccrual])
    /\ UNCHANGED <<tables, running, calls, overlapped>>

TenantsLookupFails(p, k, s) ==
    /\ cycles[p][k][s].pc = "tenants"
    /\ Put(p, k, s, [NoCycle EXCEPT !.pc = "failed"])
    /\ UNCHANGED <<tables, running, calls, overlapped>>

EndCycle(p, k, s) ==
    /\ \/ cycles[p][k][s].pc = "next" /\ cycles[p][k][s].todo = {}
       \/ cycles[p][k][s].pc = "failed"
    /\ running' = [running EXCEPT ![p][k] = FALSE]
    /\ Put(p, k, s, NoCycle)
    /\ UNCHANGED <<tables, calls, overlapped>>
----------------------------------------------------------------------------
(* Around it.                                                               *)

NextDay ==
    /\ today < MaxDay /\ today' = today + 1
    /\ UNCHANGED << active, admins, accrued, charged, closed, audits, running, cycles, calls,
                    scanned, overlapped >>

ChangeTenant(t, on) ==
    /\ active' = IF on THEN active \cup {t} ELSE active \ {t}
    /\ UNCHANGED << today, admins, accrued, charged, closed, audits, running, cycles, calls,
                    scanned, overlapped >>

ChangeAdmin(t, on) ==
    /\ admins' = IF on THEN admins \cup {t} ELSE admins \ {t}
    /\ UNCHANGED << today, active, accrued, charged, closed, audits, running, cycles, calls,
                    scanned, overlapped >>

\* The process ends: its transactions are rolled back, its timers start anew.
Crash(p) ==
    /\ running' = [running EXCEPT ![p] = [k \in Timer |-> FALSE]]
    /\ cycles' = [cycles EXCEPT ![p] = [k \in Timer |-> [s \in Slot |-> NoCycle]]]
    /\ UNCHANGED <<tables, calls, overlapped>>

Next ==
    \/ \E c \in Call :
          \/ \E t \in Tenant, date \in Day : AccrueInterest(c, t, date)
          \/ PostByHand(c) \/ AuditByHand(c) \/ FailByHand(c)
    \/ \E p \in Process, s \in Slot :
          \/ ResolveActor(p, s) \/ PostNightly(p, s) \/ AuditNightly(p, s)
          \/ \E k \in Timer :
                \/ RunCycle(p, k, s) \/ LoadTenants(p, k, s) \/ Scan(p, k, s)
                \/ \E t \in Tenant : NextTenant(p, k, s, t)
                \/ TenantFails(p, k, s) \/ TenantsLookupFails(p, k, s) \/ EndCycle(p, k, s)
    \/ \E t \in Tenant :
          \/ \E date \in Day : ClosePeriod(t, date)
          \/ \E on \in BOOLEAN : ChangeTenant(t, on) \/ ChangeAdmin(t, on)
    \/ \E p \in Process : Crash(p)
    \/ NextDay

Spec == Init /\ [][Next]_vars
----------------------------------------------------------------------------
(* Properties.                                                              *)

Task == [ pc : {"idle", "actor", "post", "audit"}, tenant : Tenant \cup {""}, date : Day,
          seen : Day ]
Cycle == [ pc : {"idle", "tenants", "next", "task", "failed"}, day : Day,
           given : SUBSET Tenant, todo : SUBSET Tenant, done : SUBSET Tenant,
           skipped : SUBSET Tenant, lost : SUBSET Tenant, task : Task ]

TypeOK ==
    /\ today \in Day /\ active \subseteq Tenant /\ admins \subseteq Tenant
    /\ accrued \in [Tenant -> Day] /\ charged \in [Tenant -> Nat] /\ closed \in [Tenant -> Day]
    /\ audits \subseteq Tenant /\ running \in [Process -> [Timer -> BOOLEAN]]
    /\ \A p \in Process, k \in Timer, s \in Slot : cycles[p][k][s] \in Cycle
    /\ calls \in [Call -> Task] /\ scanned \in [Scans -> [Tenant -> Day]]
    /\ overlapped \subseteq Tenant

Busy(p, k) == {s \in Slot : cycles[p][k][s].pc # "idle"}

\* interest-accrual.scheduler.js:7: a timer has one cycle at a time and its flag says so.
OneCycle == \A p \in Process, k \in Timer :
    Cardinality(Busy(p, k)) = IF running[p][k] THEN 1 ELSE 0

\* finance.service.js:998: a cycle has room for every tenant it was given: each is done,
\* skipped, failed or still to come, and once; only a scan leaves some for another day.
EachTenantOnce == \A p \in Process, k \in Timer, s \in Slot :
    LET cycle == cycles[p][k][s]
        turns == <<cycle.todo, cycle.done, cycle.skipped, cycle.lost,
                   IF cycle.pc = "task" THEN {cycle.task.tenant} ELSE {}>>
    IN
    /\ cycle.given = UNION {turns[i] : i \in 1..5}
    /\ \A i, j \in 1..5 : i # j => turns[i] \cap turns[j] = {}
    /\ k = "accrual" /\ cycle.given # {} => cycle.pc # "failed"

\* However timers, calls and processes that die overlap, no day that counts as accrued is
\* left uncharged (overlaps charge days twice).
DaysAreCharged == \A t \in Tenant : charged[t] >= accrued[t]

TimersAgree == OneCycle /\ EachTenantOnce /\ DaysAreCharged

\* A tenant whose accruals did not overlap is charged each day once, and a cycle
\* that is done with it has charged it to the day of the cycle and left its trail.
SerialTimers == \A t \in Tenant \ overlapped :
    /\ charged[t] = accrued[t]
    /\ \A p \in Process, s \in Slot :
          t \in cycles[p]["accrual"][s].done =>
              accrued[t] >= cycles[p]["accrual"][s].day /\ t \in audits
=============================================================================
