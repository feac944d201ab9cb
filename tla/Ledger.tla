----------------------------- MODULE Ledger -----------------------------
(***************************************************************************)
(* The posting procedures of supabase/sql: deposit, withdraw, transfer,    *)
(* share_contribution, post_membership_fee and closing_procedure, over     *)
(* post_journal_entry and the closed-period trigger of 041.                *)
(*                                                                         *)
(* One remote procedure call is one Postgres transaction at READ           *)
(* COMMITTED.  A transaction runs a checking part, which reads committed   *)
(* rows and takes no lock, and then a plan: journal lines, each an upsert  *)
(* of a GL balance, and updates of member accounts.  Every upsert and      *)
(* update locks its row until the transaction ends and adds to the value   *)
(* it finds then; nothing is visible to others before the commit.          *)
(***************************************************************************)
EXTENDS Amounts, FiniteSets, SequencesExt

CONSTANTS
    Account,      \* member accounts, savings and shares
    Shares,       \* those whose product_type is 'shares'
    Txn,          \* transaction ids, each run once
    Amount,       \* amounts of the calls
    MaxDay,       \* bound of the calendar
    Opening,      \* available_balance of each account at the start
    NoTxn

GL == {"cash", "savings", "shares", "fees", "retained"}
DebitNormal == {"cash"}                  \* asset and expense accounts
IncomeAccounts == {"fees"}
Control(a) == IF a \in Shares THEN "shares" ELSE "savings"
Day == 1..MaxDay

ASSUME LedgerAssumption ==
    /\ IsFiniteSet(Account) /\ Shares \subseteq Account
    /\ Amount \subseteq Nat \ {0}
    /\ MaxDay \in Nat \ {0}
    /\ Opening \in [Account -> Nat]
    /\ IsFiniteSet(Txn) /\ NoTxn \notin Txn

VARIABLES
    today,      \* current_date
    balance,    \* account_balances, committed
    available,  \* member_accounts.available_balance, committed
    journals,   \* journal of each committed transaction that has one
    history,    \* member_account_transactions of an account, in commit order
    closures,   \* period_closures: day -> row, committed
    txns,       \* the transactions
    lock,       \* holder of each locked row
    raced,      \* history: accounts debited by overlapping transactions
    unsealed    \* history: days during whose closing another transaction ran

vars == <<today, balance, available, journals, history, closures, txns, lock, raced, unsealed>>

Rows == GL \cup Account                 \* what a transaction can lock

Line(gl, debit, credit) == [gl |-> gl, debit |-> debit, credit |-> credit]
Move(a, delta) == [acct |-> a, delta |-> delta]

\* v_effect of post_journal_entry.
Effect(l) == IF l.gl \in DebitNormal THEN l.debit - l.credit ELSE l.credit - l.debit

\* What lines change in a GL balance, and moves in an account.
Change(lines, g) ==
    Total([i \in DOMAIN lines |-> IF lines[i].gl = g THEN Effect(lines[i]) ELSE 0])
Delta(moves, a) ==
    Total([i \in DOMAIN moves |-> IF moves[i].acct = a THEN moves[i].delta ELSE 0])

Balanced(lines) == Total([i \in DOMAIN lines |-> lines[i].debit - lines[i].credit]) = 0

NoJournal == [date |-> 0, lines |-> <<>>]
NoClosure == [count |-> 0, fees |-> 0, by |-> NoTxn]

\* A transaction: what it will post, how far it is, and what it must remember.
Fresh == [ pc |-> "new", date |-> 0, lines |-> <<>>, moves |-> <<>>,
           row |-> 1, running |-> <<>>, closing |-> 0, count |-> 0, fees |-> 0 ]

Running(t) == txns[t].pc \notin {"new", "done", "aborted"}

Held(t) == {x \in Rows : lock[x] = t}
Release(t) == lock' = [x \in Rows |-> IF lock[x] = t THEN NoTxn ELSE lock[x]]

SumOf(S, f) == LET e == SetToSeq(S) IN Total([i \in DOMAIN e |-> f[e[i]]])
Of(g) == {a \in Account : Control(a) = g}

Init ==
    /\ today = 1
    /\ available = Opening
    /\ balance = [g \in GL |->
          IF g = "cash" THEN SumOf(Account, Opening)
          ELSE IF g \in {"savings", "shares"} THEN SumOf(Of(g), Opening) ELSE 0]
    /\ journals = [t \in Txn |-> NoJournal]
    /\ history = [a \in Account |-> <<>>]
    /\ closures = [d \in Day |-> NoClosure]
    /\ txns = [t \in Txn |-> Fresh]
    /\ lock = [x \in Rows |-> NoTxn]
    /\ raced = {} /\ unsealed = {}
-------------------------------------------------------------------------
(* The checking part of each procedure: what it reads decides its plan.    *)

\* Debits of the same account that overlap this one.
Debiting(a) == {t \in Txn : Running(t) /\ \E i \in DOMAIN txns[t].moves :
                               txns[t].moves[i].acct = a /\ txns[t].moves[i].delta < 0}

\* A transaction begins while those closing a day are at work.
Closing == {d \in Day : \E t \in Txn : Running(t) /\ txns[t].closing = d}

\* Mutant: running_balance is computed from the balance read by the check.
PlanRunning(t, date, lines, moves) ==
    /\ txns[t].pc = "new"
    /\ txns' = [txns EXCEPT ![t] =
          [Fresh EXCEPT !.pc = "journal", !.date = date, !.lines = lines, !.moves = moves,
             !.running = [i \in DOMAIN moves |-> available[moves[i].acct] + moves[i].delta]]]
    /\ raced' = raced \cup {a \in Account : /\ Debiting(a) # {}
                                            /\ \E i \in DOMAIN moves : moves[i].acct = a /\ moves[i].delta < 0}
    /\ unsealed' = unsealed \cup Closing
    /\ UNCHANGED <<today, balance, available, journals, history, closures, lock>>

Plan(t, date, lines, moves) ==
    /\ txns[t].pc = "new"
    /\ txns' = [txns EXCEPT ![t] =
          [Fresh EXCEPT !.pc = "journal", !.date = date, !.lines = lines, !.moves = moves]]
    /\ raced' = raced \cup {a \in Account : /\ Debiting(a) # {}
                                            /\ \E i \in DOMAIN moves : moves[i].acct = a /\ moves[i].delta < 0}
    /\ unsealed' = unsealed \cup Closing
    /\ UNCHANGED <<today, balance, available, journals, history, closures, lock>>

\* The finance service lets savings accounts only reach these three.
Savings == Account \ Shares

PayIn(t, a, amt) ==
    Plan(t, today, << Line("cash", amt, 0), Line(Control(a), 0, amt) >>, << Move(a, amt) >>)

Deposit(t, a, amt) == a \in Savings /\ PayIn(t, a, amt)

\* Mutant: the balance is not looked at.
WithdrawUnchecked(t, a, amt) ==
    /\ a \in Savings
    /\ Plan(t, today, << Line(Control(a), amt, 0), Line("cash", 0, amt) >>, << Move(a, -amt) >>)

\* available_balance is read here and not looked at again.
Withdraw(t, a, amt) ==
    /\ a \in Savings /\ available[a] >= amt
    /\ Plan(t, today, << Line(Control(a), amt, 0), Line("cash", 0, amt) >>, << Move(a, -amt) >>)

\* Mutant: the destination account is not credited.
TransferOneSided(t, a, b, amt) ==
    /\ {a, b} \subseteq Savings /\ a # b /\ available[a] >= amt
    /\ Plan(t, today, << Line(Control(a), amt, 0), Line(Control(b), 0, amt) >>, << Move(a, -amt) >>)

Transfer(t, a, b, amt) ==
    /\ {a, b} \subseteq Savings /\ a # b
    /\ available[a] >= amt
    /\ Plan(t, today, << Line(Control(a), amt, 0), Line(Control(b), 0, amt) >>,
            << Move(a, -amt), Move(b, amt) >>)

ShareContribution(t, a, amt) ==
    /\ a \in Shares
    /\ PayIn(t, a, amt)

PostMembershipFee(t, amt) ==
    Plan(t, today, << Line("cash", amt, 0), Line("fees", 0, amt) >>, << >>)

\* The lines that bring income accounts to zero, from balances read unlocked.
\* A negative balance makes a line post_journal_entry refuses: see InsertJournal.
ClosingLines ==
    IF balance["fees"] = 0 THEN << >>
    ELSE << Line("fees", balance["fees"], 0),
            Line("retained", IF balance["fees"] < 0 THEN -balance["fees"] ELSE 0,
                             IF balance["fees"] > 0 THEN balance["fees"] ELSE 0) >>

ClosingProcedure(t, d) ==
    /\ txns[t].pc = "new"
    /\ closures[d] = NoClosure
    /\ txns' = [txns EXCEPT ![t] =
          [Fresh EXCEPT !.pc = IF ClosingLines = << >> THEN "snapshot" ELSE "journal",
                        !.date = d, !.lines = ClosingLines, !.closing = d]]
    /\ unsealed' = unsealed \cup Closing
                     \cup (IF \E s \in Txn : Running(s) THEN {d} ELSE {})
    /\ UNCHANGED <<today, balance, available, journals, history, closures, lock, raced>>
-------------------------------------------------------------------------
(* The plan of a transaction, statement by statement.                      *)

Closed == {d \in Day : closures[d] # NoClosure}

\* Mutant: the last day of a closed period still counts as open.
PeriodOpenOnLastDay(date) == \A d \in Closed : date >= d

\* guard_closed_period_journal_entries: the date is after every closed period
\* that the inserting statement can see.
PeriodOpen(date) == \A d \in Closed : date > d

End(t, pc) == txns' = [txns EXCEPT ![t].pc = pc] /\ Release(t)

InsertJournal(t) ==
    LET tx == txns[t] IN
    /\ tx.pc = "journal"
    /\ IF /\ PeriodOpen(tx.date)
          /\ \A i \in DOMAIN tx.lines : tx.lines[i].debit > 0 \/ tx.lines[i].credit > 0
       THEN txns' = [txns EXCEPT ![t].pc = "lines"] /\ UNCHANGED lock
       ELSE End(t, "aborted")
    /\ UNCHANGED <<today, balance, available, journals, history, closures, raced, unsealed>>

\* What comes after the lines and the moves have been applied.
AfterLines(tx) == IF tx.closing # 0 THEN "snapshot" ELSE "moves"

CanLock(t, x) == lock[x] \in {NoTxn, t}

\* One journal line: insert into account_balances ... on conflict do update.
UpsertBalance(t) ==
    LET tx == txns[t] IN
    /\ tx.pc = "lines"
    /\ CanLock(t, tx.lines[tx.row].gl)
    /\ IF tx.row = Len(tx.lines) /\ ~Balanced(tx.lines)
       THEN Release(t)
       ELSE lock' = [lock EXCEPT ![tx.lines[tx.row].gl] = t]
    /\ txns' = [txns EXCEPT ![t] =
          IF tx.row < Len(tx.lines) THEN [tx EXCEPT !.row = @ + 1]
          ELSE [tx EXCEPT !.row = 1,
                          !.pc = IF Balanced(tx.lines) THEN AfterLines(tx) ELSE "aborted"]]
    /\ UNCHANGED <<today, balance, available, journals, history, closures, raced, unsealed>>

\* One member account: update ... returning available_balance, and its
\* member_account_transactions row.
UpdateAccount(t) ==
    LET tx == txns[t]
        m  == tx.moves[tx.row]
    IN
    /\ tx.pc = "moves" /\ tx.row <= Len(tx.moves)
    /\ CanLock(t, m.acct)
    /\ lock' = [lock EXCEPT ![m.acct] = t]
    /\ txns' = [txns EXCEPT ![t].row = @ + 1,
                            ![t].running = Append(@, available[m.acct] + m.delta)]
    /\ UNCHANGED <<today, balance, available, journals, history, closures, raced, unsealed>>

\* daily_account_snapshots and the count of journals up to the day: each
\* statement sees the committed rows and the transaction's own.
Snapshot(t) ==
    LET tx == txns[t]
        own == IF tx.lines = << >> THEN 0 ELSE 1
    IN
    /\ tx.pc = "snapshot"
    /\ txns' = [txns EXCEPT
          ![t].pc = "closure",
          ![t].count = own + Cardinality({s \in Txn : journals[s].date \in 1..tx.closing}),
          ![t].fees = balance["fees"] + Change(tx.lines, "fees")]
    /\ UNCHANGED <<today, balance, available, journals, history, closures, lock, raced, unsealed>>

\* The unique index on the period: an uncommitted twin is waited for, a
\* committed one is an error that rolls the whole procedure back.
Inserting(d) == {s \in Txn : txns[s].closing = d /\ txns[s].pc = "moves"}

\* Mutant: the unique violation is swallowed and the transaction left open.
InsertClosureLeaks(t) ==
    LET d == txns[t].closing IN
    /\ txns[t].pc = "closure" /\ Inserting(d) = {}
    /\ txns' = [txns EXCEPT ![t].pc = IF closures[d] = NoClosure THEN "moves" ELSE "aborted"]
    /\ UNCHANGED <<today, balance, available, journals, history, closures, lock, raced, unsealed>>

\* Mutant: a closing that meets the unique violation starts over.
InsertClosureRetries(t) ==
    LET d == txns[t].closing IN
    /\ txns[t].pc = "closure" /\ Inserting(d) = {}
    /\ txns' = [txns EXCEPT ![t].pc = IF closures[d] = NoClosure THEN "moves" ELSE "snapshot"]
    /\ UNCHANGED <<today, balance, available, journals, history, closures, lock, raced, unsealed>>

InsertClosure(t) ==
    LET d == txns[t].closing IN
    /\ txns[t].pc = "closure"
    /\ Inserting(d) = {}
    /\ IF closures[d] = NoClosure
       THEN txns' = [txns EXCEPT ![t].pc = "moves"] /\ UNCHANGED lock
       ELSE End(t, "aborted")
    /\ UNCHANGED <<today, balance, available, journals, history, closures, raced, unsealed>>

\* The rows of member_account_transactions for an account: no procedure moves
\* an account twice.
MovesOf(t, a) ==
    LET tx   == txns[t]
        mine == {i \in DOMAIN tx.moves : tx.moves[i].acct = a}
    IN  IF mine = {} THEN << >>
        ELSE LET i == CHOOSE i \in mine : TRUE
             IN  << [delta |-> tx.moves[i].delta, running |-> tx.running[i]] >>

Commit(t) ==
    LET tx == txns[t] IN
    /\ tx.pc = "moves" /\ tx.row > Len(tx.moves)
    /\ balance' = [g \in GL |-> balance[g] + Change(tx.lines, g)]
    /\ available' = [a \in Account |-> available[a] + Delta(tx.moves, a)]
    /\ history' = [a \in Account |-> history[a] \o MovesOf(t, a)]
    /\ journals' = IF tx.lines = << >> THEN journals
                   ELSE [journals EXCEPT ![t] = [date |-> tx.date, lines |-> tx.lines]]
    /\ closures' = IF tx.closing = 0 THEN closures
                   ELSE [closures EXCEPT ![tx.closing] =
                           [count |-> tx.count, fees |-> tx.fees, by |-> t]]
    /\ End(t, "done")
    /\ UNCHANGED <<today, raced, unsealed>>

\* The lost connection, the timeout or the failed statement: nothing is kept.
Abort(t) ==
    /\ Running(t)
    /\ End(t, "aborted")
    /\ UNCHANGED <<today, balance, available, journals, history, closures, raced, unsealed>>

\* Those a transaction waits for: the holder of its next row, or its twin.
Blockers(t) ==
    LET tx == txns[t] IN
    CASE tx.pc = "lines" -> {lock[tx.lines[tx.row].gl]} \ {t, NoTxn}
      [] tx.pc = "moves" /\ tx.row <= Len(tx.moves) -> {lock[tx.moves[tx.row].acct]} \ {t, NoTxn}
      [] tx.pc = "closure" -> Inserting(tx.closing)
      [] OTHER -> {}

\* Postgres finds a cycle of waiting transactions and rolls one of them back.
DeadlockVictim(t) ==
    /\ \E S \in SUBSET Txn : t \in S /\ UNION {Blockers(s) : s \in S} = S
    /\ End(t, "aborted")
    /\ UNCHANGED <<today, balance, available, journals, history, closures, raced, unsealed>>

NextDay ==
    /\ today < MaxDay
    /\ today' = today + 1
    /\ UNCHANGED <<balance, available, journals, history, closures, txns, lock, raced, unsealed>>

Begin(t) ==
    \/ \E amt \in Amount :
          \/ \E a \in Account : \/ Deposit(t, a, amt)
                                \/ Withdraw(t, a, amt)
                                \/ ShareContribution(t, a, amt)
          \/ \E a, b \in Account : Transfer(t, a, b, amt)
          \/ PostMembershipFee(t, amt)
    \/ \E d \in Day : ClosingProcedure(t, d)

Statement(t) ==
    \/ InsertJournal(t) \/ UpsertBalance(t) \/ UpdateAccount(t)
    \/ Snapshot(t) \/ InsertClosure(t) \/ Commit(t)

Next ==
    \/ \E t \in Txn : Begin(t) \/ Statement(t) \/ Abort(t) \/ DeadlockVictim(t)
    \/ NextDay

\* A transaction that has begun goes on, unless it waits for a lock, and the
\* server breaks a cycle of waits after deadlock_timeout.
Fairness == \A t \in Txn : WF_vars(Statement(t)) /\ WF_vars(DeadlockVictim(t))

Spec == Init /\ [][Next]_vars
FairSpec == Spec /\ Fairness
-------------------------------------------------------------------------
(* Properties.                                                             *)

TypeOK ==
    /\ today \in Day
    /\ balance \in [GL -> Int]
    /\ available \in [Account -> Int]
    /\ \A t \in Txn : journals[t].date \in 0..MaxDay
    /\ \A t \in Txn : txns[t].pc \in {"new", "journal", "lines", "moves", "snapshot",
                                      "closure", "done", "aborted"}
    /\ lock \in [Rows -> Txn \cup {NoTxn}]
    /\ \A t \in Txn : ~Running(t) => Held(t) = {}
    /\ raced \subseteq Account /\ unsealed \subseteq Day

\* The balance kept per GL account is the sum of its posted lines, and each
\* control account is the sum of the member accounts under it: no interleaving
\* of postings loses an update of either.
LedgerReconciles ==
    /\ \A g \in {"savings", "shares"} : balance[g] = SumOf(Of(g), available)
    /\ \A g \in GL :
          balance[g] = (IF g = "cash" THEN SumOf(Account, Opening)
                        ELSE IF g \in {"savings", "shares"} THEN SumOf(Of(g), Opening) ELSE 0)
                       + SumOf(Txn, [t \in Txn |-> Change(journals[t].lines, g)])

\* Statements of a member account add up: every row's running balance follows
\* from the row before it, and the last one is the available balance.
RunningBalances ==
    \A a \in Account :
        LET h == history[a]
            before(i) == IF i = 1 THEN Opening[a] ELSE h[i - 1].running
        IN  /\ \A i \in DOMAIN h : h[i].running = before(i) + h[i].delta
            /\ available[a] = before(Len(h) + 1)

\* An account is overdrawn only where debits of it overlapped: the check of
\* withdraw and transfer is enough when they run one after the other.
OverdrawnOnlyByRace == \A a \in Account : available[a] < 0 => a \in raced

\* A period closed with no other transaction at work is sealed: its journal count
\* is and stays the number of journals up to its end, and income starts at zero.
SealedPeriod ==
    \A d \in Closed \ unsealed :
        /\ closures[d].count = Cardinality({t \in Txn : journals[t].date \in 1..d})
        /\ closures[d].fees = 0

\* Every procedure call ends, although deposits and withdrawals lock cash and
\* savings in opposite orders.
EveryCallEnds == \A t \in Txn : Running(t) ~> ~Running(t)

\* docs/phase-3-financial-statements-execution-backlog.md: journal postings in
\* closed periods are blocked.  The closing's own entry is part of the period.
NoPostingInClosedPeriod ==
    [][\A t \in Txn : journals'[t] # journals[t] /\ txns[t].closing = 0
          => \A d \in Closed : journals'[t].date > d]_vars
=========================================================================
