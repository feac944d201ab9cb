------------------------------- MODULE MCOffice -------------------------------
(* The back-office components, one at a time: none writes a table of another,  *)
(* so TLC checks their sum and not their product.  "part" is chosen at the     *)
(* start.  A part called ...Race has handlers that overlap, one called         *)
(* ...Alone one handler at a time and everything it can do.                    *)
EXTENDS Dividends, TLC

CONSTANTS
    Maker,          \* who prepares the cycle where handlers overlap
    Solo            \* the handler that works where none overlap

VARIABLES
    part,
    sessions, entries, receipts, journals, cashCalls, uneven,
    trades, positions, ledger, booked, income, requests, deskCalls, unsettled,
    cases, tasks, claims, exposures, riskCalls, paid, done, crossed,
    apps, members, accounts, logins, profiles, fees, approvalFees, memberCalls, edited, muddled,
    batches, reports, enrolled, opened, postings, skipped, runs, interleaved,
    staff, choices, trigger, owed, triggerCache, notices, dispatches, texts, noticeCalls,
    changes, excused, unwanted,
    factor, secrets, gens, factorCalls, misses, spent, twice, proved, mingled,
    login, user, assigned, handoff, contextCache, flying, loads, late, unannounced, accessCalls,
    writes, wrongly, mixed,
    up, timer, closing, fetches, httpCalls, counts, tenants, samples, queues, flush, recorded,
    tables, gone, disturbed,
    today, active, admins, accrued, charged, closed, audits, running, rounds, byHand, scanned,
    overlapped,
    treasury, approval, histories, told, audience, policyCalls, updates, asked, due, lost, raced,
    auditors, muted, case, comments, evidence, tellings, caseCalls, requestsMade, story, untold,
    crowded,
    loginId, password, profile, linked, placed, handoffs, loginCalls, issued, ids, invited, muddle

tillVars == <<sessions, entries, receipts, journals, cashCalls, uneven>>
deskVars == <<trades, positions, ledger, booked, income, requests, deskCalls, unsettled>>
riskVars == <<cases, tasks, claims, exposures, riskCalls, paid, done, crossed>>
memberVars == << apps, members, accounts, logins, profiles, fees, approvalFees, memberCalls,
                 edited, muddled >>
importVars == <<batches, reports, enrolled, opened, postings, skipped, runs, interleaved>>
noticeVars == << staff, choices, trigger, owed, triggerCache, notices, dispatches, texts,
                 noticeCalls, changes, excused, unwanted >>
factorVars == <<factor, secrets, gens, factorCalls, misses, spent, twice, proved, mingled>>
accessVars == << login, user, assigned, handoff, contextCache, flying, loads, late,
                 unannounced, accessCalls, writes, wrongly, mixed >>
wireVars == << up, timer, closing, fetches, httpCalls, counts, tenants, samples, queues, flush,
               recorded, tables, gone, disturbed >>
timerVars == << today, active, admins, accrued, charged, closed, audits, running, rounds, byHand,
                scanned, overlapped >>
policyVars == << treasury, approval, histories, told, audience, policyCalls, updates, asked, due,
                 lost, raced >>
auditVars == << auditors, muted, case, comments, evidence, tellings, caseCalls, requestsMade,
                story, untold, crowded >>
loginVars == << loginId, password, profile, linked, placed, handoffs, loginCalls, issued, ids,
                invited, muddle >>

Till == INSTANCE CashControl WITH
    Session <- {"s1", "s2"}, Teller <- {"teller"}, Receipt <- {"receipt"}, Journal <- {"j1"},
    NoSession <- "", NoTeller <- "", NoJournal <- ""
Desk == INSTANCE Treasury WITH
    Asset <- {"bond"}, Order <- {"o1", "o2"}, Request <- {"q1"}, Journal <- {"j1", "j2", "j3"},
    Cash <- 2, Reserve <- 1, NoAsset <- "", NoOrder <- "", NoRequest <- "", NoJournal <- ""
Risk == INSTANCE CreditRisk WITH
    Loan <- {"l1", "l2"}, Case <- {"k1", "k2"}, Task <- {"task"}, Claim <- {"m1", "m2"},
    Guarantor <- {"g"}, MaxAmount <- 2,
    NoLoan <- "", NoCase <- "", NoTask <- "", NoClaim <- "", NoGuarantor <- ""
Registry == INSTANCE Membership WITH
    Person <- {"p"}, Member <- {"m1", "m2"}, Fee <- 2, MaxFees <- 3, NoPerson <- "", NoMember <- ""
Intake == INSTANCE Imports WITH
    Batch <- {"b1", "b2"}, Portal <- TRUE, Cap <- 2,
    File <- <<[person |-> "p", amounts |-> {"savings", "loan", "repayment"}]>>
Alerts == INSTANCE Notices WITH
    User <- {"a", "b"}, Phone <- {1, 2}, RoleOf <- [u \in {"a", "b"} |-> "branch_manager"],
    MaxChanges <- 1, NoUser <- "", cache <- triggerCache
Factor == INSTANCE TwoFactor WITH
    Code <- {1, 2}, MaxFailed <- 2, MaxSecret <- 2, MaxGen <- 2, MaxMiss <- 2
Door == INSTANCE Access WITH
    Branch <- {"b"}, MaxWrites <- 1, NoCall <- "", cache <- contextCache, calls <- accessCalls
Wire == INSTANCE Telemetry WITH
    Tenant <- {"t"}, MaxAttempts <- 2, MaxQueue <- 1, BatchSize <- 1, SampleLimit <- 2,
    MaxRows <- 2, calls <- httpCalls
Clock == INSTANCE Timers WITH
    Process <- Call, Slot <- {1, 2}, Call <- {"hand"}, Tenant <- {"t", "u"}, MaxDay <- 2,
    cycles <- rounds, calls <- byHand
MCTreasuryPatch == { "threshold" :> 2, "buffer" :> 1, "reserve" :> 0, "share" :> 1, "single" :> 2,
                     "account" :> "b", "account" :> "foreign" }
Policy == INSTANCE Policies WITH
    Account <- {"a", "b"}, TreasuryPatch <- MCTreasuryPatch,
    ApprovalPatch <- {"threshold" :> 1, "checkers" :> 2}, MaxUpdates <- 3,
    calls <- policyCalls, mixed <- raced
Told(reason) == "reason" :> reason
MCPayload == { <<>>, Told("REVERSAL"), Told("MANUAL_JOURNAL"),
               Told("REVERSAL") @@ "status" :> "resolved",
               Told("HIGH_VALUE_TX") @@ "status" :> "waived",
               Told("REVERSAL") @@ "notes" :> "note", Told("REVERSAL") @@ "assignee" :> "y" }
Cases == INSTANCE AuditCases WITH
    User <- {"x", "y"}, Evidence <- {"e"}, Payload <- MCPayload, Nobody <- "", MaxRequests <- 3,
    requests <- requestsMade, told <- tellings, calls <- caseCalls, lost <- untold, mixed <- crowded
Keys == INSTANCE MemberLogins WITH
    MaxIssued <- 2, login <- loginId, assigned <- placed, calls <- loginCalls, muddled <- muddle
Solely(handlers) == \A c \in Call \ {Solo} : handlers[c].pc = "idle"
----------------------------------------------------------------------------
(* Dividends.                                                               *)

Mixed(mode, amount, increment, minimum, cap, residual) ==
    [ mode |-> mode, amount |-> amount, increment |-> increment, minimum |-> minimum,
      cap |-> cap, residual |-> residual ]
Pool == Mixed("fixed_pool", 7, 2, 0, 0, TRUE)
Capped == Mixed("rate", 100, 2, 2, 3, FALSE)
MCRule == { Pool, Mixed("fixed_pool", 2, 1, 0, 0, FALSE), Mixed("fixed_pool", 5, 2, 0, 3, TRUE),
            Capped, Mixed("rate", 50, 1, 2, 0, TRUE) }
MCBalances == [1..3 -> 0..4]
Few == {<<1, 1, 1>>, <<0, 4, 0>>, <<0, 0, 0>>}

FewCases ==
    /\ \A x \in components' : x.rule \in {Pool, Capped}
    /\ snapshot'.basis \in Few /\ \A c \in Call : divCalls'[c].basis \in Few

Drafting(call) == call.pc \in {"replace", "unfreeze", "snapshot"}
DividendParts == {"dividendsRace", "dividendsAlone", "dividendsRules"}
DividendNext ==
    /\ Next
    /\ \/ /\ part = "dividendsRace" /\ FewCases
          /\ revs' <= 1 /\ cycle'.maker = Maker /\ \A c \in Call : divCalls'[c].user # Maker
          /\ snapshot'.taken => snapshot'.basis # Zero
          /\ tangled' => \A c \in Call : Drafting(divCalls'[c]) =>
                 \A d \in Call \ {c} : divCalls'[d].pc \in {"idle", "freeze"}
       \/ part = "dividendsAlone" /\ FewCases /\ Solely(divCalls') /\ ~tangled'
       \/ /\ part = "dividendsRules" /\ Solely(divCalls') /\ ~tangled'
          /\ cycle'.status \in {"draft", "frozen"} /\ revs' <= 1
----------------------------------------------------------------------------
(* Tills and treasury.                                                      *)

\* Once handlers have overlapped, receipts are only attached.
TillNext ==
    /\ Till!Next
    /\ tillVars' # tillVars
    /\ uneven # {} => receipts'["receipt"].status \in {"confirmed", receipts["receipt"].status}
    /\ uneven' # {} => /\ receipts'["receipt"].status # "pending_upload"
                       /\ {"s1", "s2"} # {s \in {"s1", "s2"} : sessions'[s].status = "reviewed"}

DeskParts == {"deskRace", "deskAlone"}
DeskNext ==
    /\ Desk!Next
    /\ \/ /\ part = "deskRace"
          /\ trades'["o2"] = trades["o2"] /\ income' = {} /\ ledger'["j3"] = ledger["j3"]
          /\ \A c \in Call : deskCalls'[c].pc \notin {"receive", "price"}
       \/ /\ part = "deskAlone" /\ Solely(deskCalls') /\ ~unsettled'
          /\ trades'["o2"].status # "absent" =>
                 positions'["bond"].price = 1 /\ Cardinality(income') <= 1
----------------------------------------------------------------------------
(* Recovery of bad loans.                                                   *)

Off(pcs) == \A c \in Call : riskCalls'[c].pc \notin pcs
OneLoan == /\ \A k \in {"k1", "k2"} : cases'[k].loan # "l2"
           /\ \A c \in Call : "l2" \notin riskCalls'[c].loans
ClaimWork == {"checkClaims", "recompute"}

RiskParts == {"riskCases", "riskClaims", "riskAlone"}
RiskNext ==
    /\ Risk!Next
    /\ claims'["m2"].amount <= 1
    /\ \/ part = "riskCases" /\ OneLoan /\ UNCHANGED claims /\ Off(ClaimWork)
       \/ /\ part = "riskClaims" /\ UNCHANGED tasks /\ Off({"insertTask", "detect"})
          /\ cases'["k2"].status = "absent"
          /\ cases'["k1"].status \notin Risk!ClosedCase
          /\ crossed' => cases'["k1"].status = "claim_ready"
          /\ cases["k1"].status = "claim_ready" => Off({"moveCase"})
          /\ claims'["m2"].status = "absent" => ~crossed'
          /\ {claims'["m1"].status, claims'["m2"].status} \ {"settled", "waived"} # {}
       \/ /\ part = "riskAlone" /\ UNCHANGED tasks /\ Off({"insertTask"}) /\ ~crossed'
          /\ claims'["m1"].status # "absent" => UNCHANGED cases /\ Off({"moveCase"})
----------------------------------------------------------------------------
(* Members and imports.                                                     *)

MemberParts == {"membersRace", "membersAlone"}
MemberNext ==
    /\ Registry!Next
    /\ edited' = {}
    /\ \/ /\ part = "membersRace"
          /\ \A c \in Call : memberCalls'[c].work \in {"", "approval", "payment"}
          /\ apps'["p"].status \notin {"submitted", "under_review", "rejected"}
          /\ members'["m2"].person # "" => members'["m1"].person = ""
       \/ /\ part = "membersAlone" /\ Solely(memberCalls')
          /\ muddled # {} => ( /\ fees'["p"] + approvalFees'["p"] <= 2
                             /\ memberCalls'[Solo].work \in {"", "approval", "payment"}
                             /\ apps'["p"].status \notin {"submitted", "under_review"} )
          /\ members'["m2"].person # "" => ( /\ muddled = {}
                                            /\ fees'["p"] + approvalFees'["p"] <= 1
                                            /\ apps'["p"].paid <= 1 )
----------------------------------------------------------------------------
(* Alerts, second factors and access.                                       *)

NoticeOff(pcs) == \A c \in Call : noticeCalls'[c].pc \notin pcs
OnlyA == /\ \A c \in Call : "b" \notin noticeCalls'[c].scope
         /\ staff'["b"] = staff["b"] /\ choices'["b"] = choices["b"]
ToUsers == \A c \in Call : \A t \in noticeCalls'[c].who : t[1] # ""
Direct == {<<"", 1>>}
NoticeParts == {"alertsRace", "alertsAlone", "alertsMany", "inbox"}
NoticeNext ==
    /\ Alerts!Next
    /\ \/ /\ part = "alertsMany" /\ UNCHANGED <<choices, owed, staff, changes>> /\ ToUsers
          /\ Solely(noticeCalls')
          /\ NoticeOff({"choose", "read", "archive", "remind", "upsert"})
          /\ \A u \in {"a", "b"} : notices'[u].status \in {"none", "unread"}
       \/ /\ part = "alertsRace" /\ OnlyA /\ UNCHANGED <<choices, trigger>> /\ trigger /\ owed'
          /\ NoticeOff({ "upsert", "invalidate", "choose", "read", "archive", "assignments",
                         "remind" })
          /\ ~excused /\ choices["a"].sms /\ staff'["a"].on /\ staff'["a"].near
          /\ notices'["a"].status \in {"none", "unread"} /\ ToUsers
       \/ /\ part = "alertsAlone" /\ OnlyA /\ ~excused
          /\ Solely(noticeCalls')
          /\ Cardinality({t \in Alerts!Target : dispatches'[t] # "none"}) <= 1
          /\ staff'["a"].phone = staff["a"].phone
          /\ \A c \in Call : <<"", 1>> \in noticeCalls'[c].who => noticeCalls'[c].who = Direct
          /\ \A c \in Call : <<"", 2>> \notin noticeCalls'[c].who
          /\ notices'["a"].status \in {"none", "unread"}
       \/ /\ part = "inbox" /\ OnlyA /\ UNCHANGED <<choices, staff, trigger, owed>> /\ ToUsers
          /\ NoticeOff({ "upsert", "invalidate", "choose", "store", "dispatch", "assignments",
                         "remind" })

FactorOff(pcs) == \A c \in Call : factorCalls'[c].pc \notin pcs
FactorParts == {"factorTries", "factorSetups", "factorAlone"}
FactorNext ==
    /\ Factor!Next
    /\ \/ /\ part = "factorTries" /\ FactorOff({"codes", "disable"})
          /\ gens' <= 1 /\ secrets' <= 1 /\ ~(mingled /\ twice) /\ (gens = 0 => ~mingled')
          /\ mingled => misses' <= 1
       \/ part = "factorSetups" /\ FactorOff({"miss", "consume", "codes"}) /\ secrets' <= 1
       \/ part = "factorAlone" /\ Solely(factorCalls') /\ ~mingled'

Writers == {c \in Call : Door!Writer(c)}
AccessParts == {"accessRace", "accessAlone"}
AccessNext ==
    /\ Door!Next
    /\ \/ part = "accessAlone" /\ ~mixed'
       \/ /\ part = "accessRace" /\ ~wrongly' /\ (~user.there => ~mixed')
          /\ \A c \in Call :
                /\ accessCalls'[c].pc \notin {"signIn", "changed", "configure", "saveHandoff"}
                /\ accessCalls'[c].pc = "context" => ~accessCalls'[c].open
                /\ accessCalls'[c].pc = "createLogin" => accessCalls'[c].patch = {{"b"}}
          /\ Writers = {} => UNCHANGED <<user, assigned>>
          /\ mixed => Writers' \subseteq Writers
----------------------------------------------------------------------------
(* Fetches, counters and the metrics queue.                                 *)

Plain(c) == /\ fetches'[c].method \in {"", "read"} /\ fetches'[c].tenant \in {"", "unknown"}
            /\ ~httpCalls'[c].job
Answered == Len(recorded') = counts'["request"].total
WireParts == {"wireFetch", "wireCounts", "wireFlush"}
WireNext ==
    /\ Wire!Next
    /\ Solely(httpCalls')
    /\ part # "wireFlush" => ( /\ UNCHANGED <<up, closing, recorded>>
                               /\ flush' = flush /\ counts'["request"].total <= 2 )
    /\ \/ part = "wireFetch" /\ UNCHANGED samples /\ counts'["request"].total <= 1
       \/ part = "wireCounts" /\ counts'["db"].total <= 3 /\ \A c \in Call : Plain(c)
       \/ /\ part = "wireFlush" /\ UNCHANGED samples
          /\ \A c \in Call : /\ Plain(c) /\ httpCalls'[c].status \in {0, 200, 500}
                             /\ fetches'[c].at # "asked" => fetches'[c].attempt <= 1
                             /\ fetches'[c].at # "asleep"
          /\ up' /\ ~Answered => \A c \in Call : httpCalls'[c].pc = "idle"
          /\ gone # {} => gone' = gone
          /\ closing' # "no" /\ up => httpCalls' = httpCalls
          /\ (up /\ up') => counts'["db"].total >= counts["db"].total
----------------------------------------------------------------------------
(* Timers.                                                                  *)

Cycling(p) == {k \in Clock!Timer : running'[p][k]}
OneTimer == /\ \A p, q \in Call : p # q => Cycling(p) = {} \/ Cycling(q) = {}
            /\ \A p \in Call : Cardinality(Cycling(p)) <= 1
OnlyAccrual == \A p \in Call : Cycling(p) \subseteq {"accrual"}
OnlyT ==
    /\ UNCHANGED <<active, admins, closed>> /\ active = {"t"} /\ admins = {"t"}
    /\ byHand'["hand"].tenant # "u"
    /\ \A p \in Call, i \in {1, 2} : rounds'[p]["accrual"][i].pc # "failed"
TimerParts == {"timersRace", "timersHand", "timersLoop", "timersScan"}
TimerNext ==
    /\ Clock!Next
    /\ timerVars' # timerVars
    /\ part # "timersHand" => byHand' = byHand
    /\ part # "timersScan" => OnlyAccrual
    /\ part # "timersRace" => /\ OneTimer /\ \A p \in Call \ {Solo} : Cycling(p) = {}
                              /\ \A k \in Clock!Timer : rounds'[Solo][k][2].pc = "idle"
    /\ part \in {"timersRace", "timersHand"} => OnlyT
    /\ part = "timersLoop" => /\ today' = 1 /\ closed'["t"] <= 1 /\ closed'["u"] = 0
                              /\ active' \subseteq active /\ admins' \subseteq admins
                              /\ active' # {"t", "u"} => admins' = {"t", "u"}
    /\ part = "timersScan" =>
          /\ UNCHANGED <<active, admins, closed, today>> /\ admins = {}
          /\ \A p \in Call : Cycling(p) # {"accrual"}
----------------------------------------------------------------------------
(* Policies.                                                                *)

PolicyParts == {"policiesRace", "policiesAlone"}
PolicyNext ==
    /\ Policy!Next
    /\ \/ part = "policiesAlone" /\ Solely(policyCalls') /\ ~raced' /\ ~lost
       \/ part = "policiesRace" /\ ~lost' /\ audience' = "willing" /\ updates' <= 2
----------------------------------------------------------------------------
(* Cases of the auditors.                                                   *)

AuditParts == {"auditRace", "auditAlone"}
AuditNext ==
    /\ Cases!Next
    /\ \/ /\ part = "auditAlone" /\ Solely(caseCalls') /\ ~crowded' /\ ~untold
          /\ comments' \subseteq {"x"}
          /\ \A c \in Call : caseCalls'[c].actor = "y" =>
                 caseCalls'[c].payload = Told("REVERSAL") @@ "notes" :> "note"
          /\ auditors' # auditors => requestsMade = 1 /\ auditors' = {"x"}
          /\ UNCHANGED muted
       \/ /\ part = "auditRace" /\ UNCHANGED <<evidence, comments>>
          /\ \A c \in Call :
                /\ caseCalls'[c].work \in {"", "update", "comment"}
                /\ caseCalls'[c].payload \in {<<>>, Told("REVERSAL")} \cup
                       { Told("REVERSAL") @@ "status" :> "resolved",
                         Told("REVERSAL") @@ "notes" :> "note" }
          /\ requestsMade' <= 2 /\ UNCHANGED auditors
          /\ muted' # muted => muted' \in {{}, {"y"}} /\ requestsMade' = 1
----------------------------------------------------------------------------
(* Logins of members.                                                       *)

LoginParts == {"loginsRace", "loginsAlone"}
LoginNext ==
    /\ Keys!Next
    /\ \/ /\ part = "loginsAlone" /\ \A c \in Call \ {Solo} : ~Keys!Busy(c)'
          /\ issued' = 2 => muddle' \subseteq muddle
       \/ /\ part = "loginsRace" /\ loginCalls' # loginCalls
          /\ \A c \in Call : loginCalls'[c].work # "changed" /\ ~loginCalls'[c].invite
----------------------------------------------------------------------------
(* The sum: the component whose part it is takes a step, the others stay.   *)

Parts ==
    UNION { DividendParts, DeskParts, RiskParts, MemberParts, NoticeParts, FactorParts,
            AccessParts, WireParts, TimerParts, PolicyParts, AuditParts, LoginParts }
    \cup {"till", "imports"}

\* A component that is not the part has nothing in its variables.
NoTill ==
    /\ sessions = "" /\ entries = "" /\ receipts = "" /\ journals = "" /\ cashCalls = ""
    /\ uneven = ""
NoDesk ==
    /\ trades = "" /\ positions = "" /\ ledger = "" /\ booked = "" /\ income = "" /\ requests = ""
    /\ deskCalls = "" /\ unsettled = ""
NoRisk ==
    /\ cases = "" /\ tasks = "" /\ claims = "" /\ exposures = "" /\ riskCalls = "" /\ paid = ""
    /\ done = "" /\ crossed = ""
NoRegistry ==
    /\ apps = "" /\ members = "" /\ accounts = "" /\ logins = "" /\ profiles = "" /\ fees = ""
    /\ approvalFees = "" /\ memberCalls = "" /\ edited = "" /\ muddled = ""
NoIntake ==
    /\ batches = "" /\ reports = "" /\ enrolled = "" /\ opened = "" /\ postings = ""
    /\ skipped = "" /\ runs = "" /\ interleaved = ""
NoAlerts ==
    /\ staff = "" /\ choices = "" /\ trigger = "" /\ owed = "" /\ triggerCache = ""
    /\ notices = "" /\ dispatches = "" /\ texts = "" /\ noticeCalls = "" /\ changes = ""
    /\ excused = "" /\ unwanted = ""
NoFactor ==
    /\ factor = "" /\ secrets = "" /\ gens = "" /\ factorCalls = "" /\ misses = "" /\ spent = ""
    /\ twice = "" /\ proved = "" /\ mingled = ""
NoDoor ==
    /\ login = "" /\ user = "" /\ assigned = "" /\ handoff = "" /\ contextCache = ""
    /\ flying = "" /\ loads = "" /\ late = "" /\ unannounced = "" /\ accessCalls = ""
    /\ writes = "" /\ wrongly = "" /\ mixed = ""
NoWire ==
    /\ up = "" /\ timer = "" /\ closing = "" /\ fetches = "" /\ httpCalls = "" /\ counts = ""
    /\ tenants = "" /\ samples = "" /\ queues = "" /\ flush = "" /\ recorded = "" /\ tables = ""
    /\ gone = "" /\ disturbed = ""
NoClock ==
    /\ today = "" /\ active = "" /\ admins = "" /\ accrued = "" /\ charged = "" /\ closed = ""
    /\ audits = "" /\ running = "" /\ rounds = "" /\ byHand = "" /\ scanned = ""
    /\ overlapped = ""
NoPolicy ==
    /\ treasury = "" /\ approval = "" /\ histories = "" /\ told = "" /\ audience = ""
    /\ policyCalls = "" /\ updates = "" /\ asked = "" /\ due = "" /\ lost = "" /\ raced = ""
NoCases ==
    /\ auditors = "" /\ muted = "" /\ case = "" /\ comments = "" /\ evidence = "" /\ tellings = ""
    /\ caseCalls = "" /\ requestsMade = "" /\ story = "" /\ untold = "" /\ crowded = ""
NoKeys ==
    /\ loginId = "" /\ password = "" /\ profile = "" /\ linked = "" /\ placed = ""
    /\ handoffs = "" /\ loginCalls = "" /\ issued = "" /\ ids = "" /\ invited = "" /\ muddle = ""

AlertsInit ==
    /\ Alerts!Init
    /\ staff["a"].near /\ (staff["b"].near <=> part = "alertsMany") /\ choices["b"].sms
    /\ part \in {"alertsAlone", "inbox"} \/ trigger
    /\ part \in {"alertsAlone", "alertsMany", "inbox"} \/ choices["a"].sms
PolicyInit == Policy!Init /\ treasury.account = "a" /\ (part = "policiesRace" => audience = "willing")
LoginInit == Keys!Init /\ (part = "loginsAlone" \/ (loginId = 0 /\ profile.role = ""))

OfficeInit ==
    /\ part \in Parts
    /\ Init
    /\ IF part = "till" THEN Till!Init ELSE NoTill
    /\ IF part \in DeskParts THEN Desk!Init ELSE NoDesk
    /\ IF part \in RiskParts THEN Risk!Init ELSE NoRisk
    /\ IF part \in MemberParts THEN Registry!Init ELSE NoRegistry
    /\ IF part = "imports" THEN Intake!Init ELSE NoIntake
    /\ IF part \in NoticeParts THEN AlertsInit ELSE NoAlerts
    /\ IF part \in FactorParts THEN Factor!Init ELSE NoFactor
    /\ IF part \in AccessParts THEN Door!Init ELSE NoDoor
    /\ IF part \in WireParts THEN Wire!Init ELSE NoWire
    /\ IF part \in TimerParts THEN Clock!Init ELSE NoClock
    /\ IF part \in PolicyParts THEN PolicyInit ELSE NoPolicy
    /\ IF part \in AuditParts THEN Cases!Init ELSE NoCases
    /\ IF part \in LoginParts THEN LoginInit ELSE NoKeys

OfficeNext ==
    /\ UNCHANGED part
    /\ IF part \in DividendParts THEN DividendNext ELSE UNCHANGED vars
    /\ IF part = "till" THEN TillNext ELSE UNCHANGED tillVars
    /\ IF part \in DeskParts THEN DeskNext ELSE UNCHANGED deskVars
    /\ IF part \in RiskParts THEN RiskNext ELSE UNCHANGED riskVars
    /\ IF part \in MemberParts THEN MemberNext ELSE UNCHANGED memberVars
    /\ IF part = "imports" THEN Intake!Next ELSE UNCHANGED importVars
    /\ IF part \in NoticeParts THEN NoticeNext ELSE UNCHANGED noticeVars
    /\ IF part \in FactorParts THEN FactorNext ELSE UNCHANGED factorVars
    /\ IF part \in AccessParts THEN AccessNext ELSE UNCHANGED accessVars
    /\ IF part \in WireParts THEN WireNext ELSE UNCHANGED wireVars
    /\ IF part \in TimerParts THEN TimerNext ELSE UNCHANGED timerVars
    /\ IF part \in PolicyParts THEN PolicyNext ELSE UNCHANGED policyVars
    /\ IF part \in AuditParts THEN AuditNext ELSE UNCHANGED auditVars
    /\ IF part \in LoginParts THEN LoginNext ELSE UNCHANGED loginVars

OfficeSpec ==
    OfficeInit /\ [][OfficeNext]_<<part, vars, tillVars, deskVars, riskVars, memberVars,
                                  importVars, noticeVars, factorVars, accessVars, wireVars,
                                  timerVars, policyVars, auditVars,
                                  loginVars>>

Symmetry == Permutations(Call)
----------------------------------------------------------------------------
(* Properties: those of the components, by what they are about.             *)

\* The rows of the office components keep to the values their tables admit.
OfficeTypeOK ==
    /\ part \in DividendParts => TypeOK
    /\ part = "till" => Till!TypeOK
    /\ part \in DeskParts => Desk!TypeOK
    /\ part \in RiskParts => Risk!TypeOK
    /\ part \in MemberParts => Registry!TypeOK
    /\ part = "imports" => Intake!TypeOK
    /\ part \in NoticeParts => Alerts!TypeOK
    /\ part \in FactorParts => Factor!TypeOK
    /\ part \in AccessParts => Door!TypeOK
    /\ part \in WireParts => Wire!TypeOK
    /\ part \in TimerParts => Clock!TypeOK
    /\ part \in PolicyParts => Policy!TypeOK
    /\ part \in AuditParts => Cases!TypeOK
    /\ part \in LoginParts => Keys!TypeOK

\* However handlers overlap, fail or die, rows that speak of the same thing agree: a till
\* counts what was booked in its own session, an escalated order was granted, a declared
\* dividend is paid once, a settled claim was paid, a fee on an application was posted,
\* an import reports what it did, an alert is sent once, a factor that is on was verified by
\* a setup, what is cached of a user is stale only by a load that an invalidation found in
\* flight or by a change that none follows, rows of metrics are kept, days are charged,
\* versions of a policy have their history, cases tell their story and their auditors, a
\* linked login is a member's.
RecordsAgree ==
    /\ part \in DividendParts => PaidOncePerDeclaration
    /\ part = "till" => Till!BookedInOwnSession
    /\ part \in DeskParts => Desk!EscalatedIsGranted
    /\ part \in RiskParts => Risk!ClaimsArePaid
    /\ part \in MemberParts => Registry!FeesArePosted
    /\ part = "imports" => Intake!ReportIsTrue
    /\ part \in NoticeParts => Alerts!AlertedOnce
    /\ part \in FactorParts => Factor!FactorRowAgrees
    /\ part \in AccessParts => Door!AccessAgrees
    /\ part \in WireParts => Wire!TelemetryAgrees
    /\ part \in TimerParts => Clock!TimersAgree
    /\ part \in PolicyParts => Policy!PolicyIsRecorded
    /\ part \in AuditParts => Cases!CasesAgree
    /\ part \in LoginParts => Keys!LoginsAgree

=============================================================================
