----------------------------- MODULE CashControl -----------------------------
(***************************************************************************)
(* Teller sessions and receipts: src/src/modules/cash-control and the       *)
(* postings of src/src/modules/finance/finance.service.js around them.      *)
(*                                                                          *)
(* A posting looks for the teller's open session, commits its journal (a    *)
(* stored procedure), attaches the receipts and then writes the session's   *)
(* row: each an await of its own.  Closing adds up the rows and updates the *)
(* session by its id.  Receipts are demanded after the journal is posted.   *)
(***************************************************************************)
EXTENDS Integers, FiniteSets, Folds

CONSTANTS
    Session, Teller, Receipt, Journal,
    Call,           \* handlers at work at the same time
    NoSession, NoTeller, NoJournal

VARIABLES
    sessions,   \* teller_sessions
    entries,    \* teller_session_transactions: journal -> session
    receipts,   \* transaction_receipts
    journals,   \* the cash journals posted: who posted each, and what it moved
    cashCalls,  \* the handlers at work
    uneven      \* history: tellers whose handlers overlapped, failed or were refused

vars == <<sessions, entries, receipts, journals, cashCalls, uneven>>

Opening == 1    \* opening_cash
Status == {"absent", "open", "closed_pending_review", "reviewed"}
SessionRow == [status : Status, teller : Teller \cup {NoTeller}, expected : Int]
NoRow == [status |-> "absent", teller |-> NoTeller, expected |-> 0]

\* owner is uploaded_by; a draft has been created, perhaps without its file.
ReceiptRow == [ status : {"absent", "pending_upload", "uploaded", "confirmed"},
                owner : Teller \cup {NoTeller}, journal : Journal \cup {NoJournal} ]
NoReceipt == [status |-> "absent", owner |-> NoTeller, journal |-> NoJournal]

\* amount is what a journal moves into the till: negative for cash paid out.
Posted == [teller : Teller \cup {NoTeller}, session : Session \cup {NoSession}, amount : Int]
NoPosting == [teller |-> NoTeller, session |-> NoSession, amount |-> 0]

PC == {"idle", "post", "check", "attach", "record", "total", "close", "review"}
CallState == [ pc : PC, teller : Teller \cup {NoTeller}, session : Session \cup {NoSession},
               attached : SUBSET Receipt, amount : {-1, 0, 1},
               journal : Journal \cup {NoJournal}, sum : Int ]
Idle == [ pc |-> "idle", teller |-> NoTeller, session |-> NoSession, attached |-> {},
          amount |-> 0, journal |-> NoJournal, sum |-> 0 ]

At(t) == {c \in Call : cashCalls[c].teller = t}

Begin(c, call) ==
    /\ cashCalls[c].pc = "idle"
    /\ cashCalls' = [cashCalls EXCEPT ![c] = call]
    /\ uneven' = IF At(call.teller) # {} THEN uneven \cup {call.teller} ELSE uneven
Goto(c, pc) == cashCalls' = [cashCalls EXCEPT ![c].pc = pc] /\ UNCHANGED uneven
Return(c) == cashCalls' = [cashCalls EXCEPT ![c] = Idle] /\ UNCHANGED uneven
\* An error that leaves something behind.
Throw(c) ==
    /\ cashCalls' = [cashCalls EXCEPT ![c] = Idle]
    /\ uneven' = uneven \cup {cashCalls[c].teller}

Recorded(s) == {j \in Journal : entries[j] = s}
Total(js) == MapThenFoldSet(LAMBDA x, y : x + y, 0, LAMBDA j : journals[j].amount,
                            LAMBDA S : CHOOSE x \in S : TRUE, js)

Init ==
    /\ sessions = [s \in Session |-> NoRow]
    /\ entries = [j \in Journal |-> NoSession]
    /\ receipts = [r \in Receipt |-> NoReceipt]
    /\ journals = [j \in Journal |-> NoPosting]
    /\ cashCalls = [c \in Call |-> Idle]
    /\ uneven = {}
----------------------------------------------------------------------------
(* Sessions.                                                                *)

Open(t) == {s \in Session : sessions[s].teller = t /\ sessions[s].status = "open"}

\* The unique index on a teller's open session stands behind the check.
OpenSession(t) ==
    /\ Open(t) = {} /\ \E s \in Session : sessions[s] = NoRow
    /\ sessions' = [sessions EXCEPT ![CHOOSE s \in Session : sessions[s] = NoRow] =
           [status |-> "open", teller |-> t, expected |-> Opening]]
    /\ UNCHANGED <<entries, receipts, journals, cashCalls, uneven>>

CloseSession(c, s) ==
    /\ sessions[s].status = "open"
    /\ Begin(c, [Idle EXCEPT !.pc = "total", !.teller = sessions[s].teller, !.session = s])
    /\ UNCHANGED <<sessions, entries, receipts, journals>>

TillTotal(js) == Opening + Total(js)

TotalSession(c) ==
    /\ cashCalls[c].pc = "total"
    /\ cashCalls' = [cashCalls EXCEPT ![c].pc = "close",
                         ![c].sum = TillTotal(Recorded(cashCalls[c].session))]
    /\ UNCHANGED <<sessions, entries, receipts, journals, uneven>>

\* The update names the id only.  A variance needs notes and is allowed with them.
WriteClosed(c) ==
    /\ cashCalls[c].pc = "close"
    /\ sessions' = [sessions EXCEPT ![cashCalls[c].session].status = "closed_pending_review",
                                    ![cashCalls[c].session].expected = cashCalls[c].sum]
    /\ Return(c)
    /\ UNCHANGED <<entries, receipts, journals>>

\* reviewSession asks for no status: a session that is open is reviewed unclosed.
ReviewSession(s) ==
    LET t == sessions[s].teller IN
    /\ sessions[s].status # "absent"
    /\ sessions' = [sessions EXCEPT ![s].status = "reviewed"]
    /\ uneven' = IF sessions[s].status = "open" \/ At(t) # {} THEN uneven \cup {t} ELSE uneven
    /\ UNCHANGED <<entries, receipts, journals, cashCalls>>
----------------------------------------------------------------------------
(* Receipts.                                                                *)

InitReceiptUpload(t, r) ==
    /\ receipts[r].status = "absent"
    /\ receipts' = [receipts EXCEPT ![r] = [NoReceipt EXCEPT !.status = "pending_upload",
                                                             !.owner = t]]
    /\ UNCHANGED <<sessions, entries, journals, cashCalls, uneven>>

\* confirmReceiptUpload does not ask whether the receipt is in use by now.
ConfirmReceiptUpload(r) ==
    /\ receipts[r].status # "absent"
    /\ receipts' = [receipts EXCEPT ![r].status = "uploaded"]
    /\ UNCHANGED <<sessions, entries, journals, cashCalls, uneven>>

Ready(r, t) ==
    /\ receipts[r].status = "uploaded" /\ receipts[r].journal = NoJournal
    /\ receipts[r].owner = t
----------------------------------------------------------------------------
(* Postings at the counter.                                                 *)

\* ensureOpenTellerSession asks a teller for a session, before anything is posted.
Post(c, t, attached, amount) ==
    /\ \E s \in Open(t) :
          Begin(c, [Idle EXCEPT !.pc = "post", !.teller = t, !.session = s,
                                !.attached = attached, !.amount = amount])
    /\ UNCHANGED <<sessions, entries, receipts, journals>>

\* Cash in: 1, cash out: -1.  An operation that waits for an approval ends before its journal.
Deposit(c, t, attached) == Post(c, t, attached, 1)
ShareContribution(c, t, attached) == Post(c, t, attached, 1)
LoanRepay(c, t, attached) == Post(c, t, attached, 1)
Withdraw(c, t, attached) == Post(c, t, attached, -1)
LoanDisburse(c, t, attached) == Post(c, t, attached, -1)

AwaitApproval(c) ==
    /\ cashCalls[c].pc = "post" /\ cashCalls[c].amount < 0
    /\ Return(c)
    /\ UNCHANGED <<sessions, entries, receipts, journals>>

PostJournal(c) ==
    LET call == cashCalls[c] IN
    /\ call.pc = "post" /\ \E j \in Journal : journals[j] = NoPosting
    /\ LET j == CHOOSE j \in Journal : journals[j] = NoPosting IN
       /\ journals' = [journals EXCEPT ![j] =
              [teller |-> call.teller, session |-> call.session, amount |-> call.amount]]
       /\ cashCalls' = [cashCalls EXCEPT ![c].pc = "check", ![c].journal = j]
    /\ UNCHANGED <<sessions, entries, receipts, uneven>>

\* finalizeReceiptsForTransaction.  A receipt that is required and missing, or not
\* ready, is an error though the journal stands.
CheckReceipts(c) ==
    LET call == cashCalls[c] IN
    /\ call.pc = "check"
    /\ \/ call.attached = {} /\ Goto(c, "record")
       \/ call.attached # {} /\ (\A r \in call.attached : Ready(r, call.teller))
          /\ Goto(c, "attach")
       \/ (call.attached = {} \/ \E r \in call.attached : ~Ready(r, call.teller)) /\ Throw(c)
    /\ UNCHANGED <<sessions, entries, receipts, journals>>

AttachReceipts(c) ==
    /\ cashCalls[c].pc = "attach"
    /\ receipts' = [r \in Receipt |->
           IF r \in cashCalls[c].attached
           THEN [receipts[r] EXCEPT !.status = "confirmed", !.journal = cashCalls[c].journal]
           ELSE receipts[r]]
    /\ Goto(c, "record")
    /\ UNCHANGED <<sessions, entries, journals>>

\* Mutant: the posting is booked in whatever session of the teller was found last.
SessionOfLast(call) == CHOOSE s \in Session : sessions[s].teller = call.teller

SessionOf(call) == call.session

RecordSessionTransaction(c) ==
    /\ cashCalls[c].pc = "record"
    /\ entries' = [entries EXCEPT ![cashCalls[c].journal] = SessionOf(cashCalls[c])]
    /\ Return(c)
    /\ UNCHANGED <<sessions, receipts, journals>>

\* A statement fails or the process stops.
Fail(c) ==
    /\ cashCalls[c].pc # "idle"
    /\ Throw(c)
    /\ UNCHANGED <<sessions, entries, receipts, journals>>

Next ==
    \/ \E t \in Teller : OpenSession(t) \/ \E r \in Receipt : InitReceiptUpload(t, r)
    \/ \E s \in Session : ReviewSession(s)
    \/ \E r \in Receipt : ConfirmReceiptUpload(r)
    \/ \E c \in Call :
          \/ \E s \in Session : CloseSession(c, s)
          \/ \E t \in Teller, attached \in SUBSET Receipt :
                \/ Deposit(c, t, attached) \/ ShareContribution(c, t, attached)
                \/ LoanRepay(c, t, attached) \/ Withdraw(c, t, attached)
                \/ LoanDisburse(c, t, attached)
          \/ TotalSession(c) \/ WriteClosed(c) \/ AwaitApproval(c) \/ PostJournal(c)
          \/ CheckReceipts(c)
          \/ AttachReceipts(c) \/ RecordSessionTransaction(c) \/ Fail(c)

Spec == Init /\ [][Next]_vars
----------------------------------------------------------------------------
(* Properties.                                                              *)

TypeOK ==
    /\ sessions \in [Session -> SessionRow]
    /\ entries \in [Journal -> Session \cup {NoSession}]
    /\ receipts \in [Receipt -> ReceiptRow]
    /\ journals \in [Journal -> Posted]
    /\ cashCalls \in [Call -> CallState]

\* A journal is booked only in a session its teller had open when it was posted, and
\* no teller has two sessions open, whatever handlers overlap or fail.
BookedInOwnSession ==
    /\ \A j \in Journal : entries[j] # NoSession =>
          journals[j].session = entries[j] /\ journals[j].teller = sessions[entries[j]].teller
    /\ \A t \in Teller : Cardinality(Open(t)) <= 1

\* The till: when a teller's handlers ran one after the other, none failed and no
\* receipt was missing, every cash journal of a session is booked in it, and a closed
\* session expects the opening cash and what those journals moved.
SerialTill ==
    \A s \in Session : LET t == sessions[s].teller IN
        t \notin uneven \cup {NoTeller} /\ At(t) = {} =>
            /\ Recorded(s) = {j \in Journal : journals[j].session = s}
            /\ sessions[s].status # "open" => sessions[s].expected = TillTotal(Recorded(s))
=============================================================================
