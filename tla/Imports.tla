------------------------------- MODULE Imports -------------------------------
(***************************************************************************)
(* Member imports: src/src/modules/imports/imports.service.js.              *)
(*                                                                          *)
(* An upload makes a job and is answered at once; the rows of the file are  *)
(* worked through afterwards, in the same process, one after another.  A    *)
(* row finds or makes its member, gives it accounts and perhaps a login,    *)
(* and posts its amounts, each posting a procedure call that commits; what  *)
(* became of it is a row of import_job_rows.  Only the loan of a row is     *)
(* looked up before it is posted.  Nothing takes up a job whose process     *)
(* died, and nothing keeps two jobs apart.                                  *)
(***************************************************************************)
EXTENDS Naturals, FiniteSets, Sequences

CONSTANTS
    Batch,      \* import jobs
    File,       \* a sequence of records: person, and the set of its amounts
    Portal,     \* create_portal_account
    Cap         \* bound: jobs at work at the same time

Rows == 1..Len(File)
Person == {File[r].person : r \in Rows}
Amounts == <<"savings", "shares", "loan", "withdrawal", "repayment">>
Kind == {Amounts[i] : i \in 1..Len(Amounts)}

VARIABLES
    batches,    \* import_jobs: status and counts
    reports,    \* import_job_rows: <<job, row, status>>
    enrolled,   \* persons who are members
    opened,     \* members with accounts
    postings,   \* <<job, row, kind>> of the amounts posted
    skipped,    \* <<job, row>> whose loan was found posted
    runs,       \* the jobs at work
    interleaved \* history: two jobs at work at the same time

vars == <<batches, reports, enrolled, opened, postings, skipped, runs, interleaved>>

\* at: the row; made: it made its member; loan: it has a loan to repay.
Run == [ pc : {"idle", "start", "find", "insert", "update", "accounts", "login", "undoAccounts",
               "undoMember", "success", "failure", "finish", "abort"} \cup Kind,
         at : Rows, made : BOOLEAN, loan : BOOLEAN, won : Nat, lost : Nat ]
Off == [pc |-> "idle", at |-> 1, made |-> FALSE, loan |-> FALSE, won |-> 0, lost |-> 0]

Here(j) == File[runs[j].at]
Goto(j, pc) == runs' = [runs EXCEPT ![j].pc = pc]

Init ==
    /\ batches = [j \in Batch |-> [status |-> "absent", success |-> 0, failed |-> 0]]
    /\ reports = {} /\ enrolled = {} /\ opened = {} /\ postings = {} /\ skipped = {}
    /\ runs = [j \in Batch |-> Off] /\ interleaved = FALSE
----------------------------------------------------------------------------
ProcessMemberImport(j) ==
    LET busy == {i \in Batch : runs[i].pc # "idle"} IN
    /\ batches[j].status = "absent" /\ Cardinality(busy) < Cap
    /\ batches' = [batches EXCEPT ![j].status = "pending"]
    /\ Goto(j, "start")
    /\ interleaved' = (interleaved \/ busy # {})
    /\ UNCHANGED <<reports, enrolled, opened, postings, skipped>>

RunMemberImportJob(j) ==
    /\ runs[j].pc = "start"
    /\ batches' = [batches EXCEPT ![j].status = "processing"]
    /\ Goto(j, "find")
    /\ UNCHANGED <<reports, enrolled, opened, postings, skipped, interleaved>>

FindExistingMember(j) ==
    /\ runs[j].pc = "find"
    /\ Goto(j, IF Here(j).person \in enrolled THEN "update" ELSE "insert")
    /\ UNCHANGED <<batches, reports, enrolled, opened, postings, skipped, interleaved>>

\* The unique indexes refuse a second member with the same identity.
UpsertMember(j) ==
    /\ \/ runs[j].pc = "insert" /\ Here(j).person \notin enrolled
       \/ runs[j].pc = "update" /\ Here(j).person \in enrolled
    /\ enrolled' = enrolled \cup {Here(j).person}
    /\ runs' = [runs EXCEPT ![j].pc = "accounts", ![j].made = (runs[j].pc = "insert")]
    /\ UNCHANGED <<batches, reports, opened, postings, skipped, interleaved>>

EnsureMemberAccounts(j) ==
    /\ runs[j].pc = "accounts" /\ Here(j).person \in enrolled
    /\ opened' = opened \cup {Here(j).person}
    /\ Goto(j, IF Portal THEN "login" ELSE "savings")
    /\ UNCHANGED <<batches, reports, enrolled, postings, skipped, interleaved>>

ProvisionMemberLogin(j) ==
    /\ runs[j].pc = "login"
    /\ Goto(j, "savings")
    /\ UNCHANGED <<batches, reports, enrolled, opened, postings, skipped, interleaved>>

\* A login that cannot be made takes a member the row made with it.
FailLogin(j) ==
    /\ runs[j].pc = "login"
    /\ Goto(j, IF runs[j].made THEN "undoAccounts" ELSE "failure")
    /\ UNCHANGED <<batches, reports, enrolled, opened, postings, skipped, interleaved>>

\* What another row refers to cannot be deleted; nobody looks at the error.
Referred(p) ==
    \/ \E x \in postings : File[x[2]].person = p
    \/ \E x \in reports : x[3] = "success" /\ File[x[2]].person = p

UndoAccounts(j) ==
    /\ runs[j].pc = "undoAccounts"
    /\ opened' = IF Referred(Here(j).person) THEN opened ELSE opened \ {Here(j).person}
    /\ Goto(j, "undoMember")
    /\ UNCHANGED <<batches, reports, enrolled, postings, skipped, interleaved>>

UndoMember(j) ==
    /\ runs[j].pc = "undoMember"
    /\ enrolled' = IF Here(j).person \in opened \/ Referred(Here(j).person) THEN enrolled
                   ELSE enrolled \ {Here(j).person}
    /\ Goto(j, "failure")
    /\ UNCHANGED <<batches, reports, opened, postings, skipped, interleaved>>
----------------------------------------------------------------------------
(* The amounts of a row.                                                    *)

NextKind(kind) ==
    LET i == CHOOSE i \in 1..Len(Amounts) : Amounts[i] = kind
    IN IF i = Len(Amounts) THEN "success" ELSE Amounts[i + 1]

LoansOf(p) == {x \in postings : x[3] = "loan" /\ File[x[2]].person = p}

\* An amount the row does not have.
PassOver(j, kind) ==
    /\ runs[j].pc = kind /\ kind \notin Here(j).amounts
    /\ Goto(j, NextKind(kind))
    /\ UNCHANGED <<batches, reports, enrolled, opened, postings, skipped, interleaved>>

\* The look-up of the loan is a statement of its own; "loan" stands for the time after it.
\* More than one loan with the reference is an error.
SkipImportedLoan(j) ==
    /\ runs[j].pc = "loan" /\ "loan" \in Here(j).amounts /\ ~runs[j].loan
    /\ Cardinality(LoansOf(Here(j).person)) <= 1
    /\ runs' = IF LoansOf(Here(j).person) = {}
               THEN [runs EXCEPT ![j].loan = TRUE]
               ELSE [runs EXCEPT ![j].loan = TRUE, ![j].pc = NextKind("loan")]
    /\ skipped' = IF LoansOf(Here(j).person) = {} THEN skipped
                  ELSE skipped \cup {<<j, runs[j].at>>}
    /\ UNCHANGED <<batches, reports, enrolled, opened, postings, interleaved>>

Ready(j, kind) == kind \in {"loan", "repayment"} => runs[j].loan

PostAmount(j, kind) ==
    /\ runs[j].pc = kind /\ kind \in Here(j).amounts /\ Ready(j, kind)
    /\ Here(j).person \in opened
    /\ postings' = postings \cup {<<j, runs[j].at, kind>>}
    /\ runs' = [runs EXCEPT ![j].pc = NextKind(kind), ![j].loan = @ \/ kind = "loan"]
    /\ UNCHANGED <<batches, reports, enrolled, opened, skipped, interleaved>>
----------------------------------------------------------------------------
(* The outcome of a row and of the job.                                     *)

\* Whatever fails, the row is a failed one; its postings stand.
FailRow(j) ==
    /\ runs[j].pc \in {"find", "insert", "update", "accounts", "success"} \cup Kind
    /\ Goto(j, "failure")
    /\ UNCHANGED <<batches, reports, enrolled, opened, postings, skipped, interleaved>>

NextRow(run) == IF run.at = Len(File) THEN [run EXCEPT !.pc = "finish"]
                ELSE [run EXCEPT !.pc = "find", !.at = @ + 1, !.made = FALSE, !.loan = FALSE]

InsertJobRow(j) ==
    LET run == runs[j] IN
    /\ run.pc = "failure" \/ (run.pc = "success" /\ Here(j).person \in enrolled)
    /\ reports' = reports \cup {<<j, run.at, run.pc>>}
    /\ runs' = [runs EXCEPT ![j] = NextRow(
           IF run.pc = "success" THEN [run EXCEPT !.won = @ + 1] ELSE [run EXCEPT !.lost = @ + 1])]
    /\ UNCHANGED <<batches, enrolled, opened, postings, skipped, interleaved>>

\* A failure that cannot be reported ends the job, and so does an upload or an update that fails.
AbortJob(j) ==
    /\ runs[j].pc \in {"failure", "finish"}
    /\ Goto(j, "abort")
    /\ UNCHANGED <<batches, reports, enrolled, opened, postings, skipped, interleaved>>

FinishJob(j) ==
    /\ runs[j].pc = "finish"
    /\ batches' = [batches EXCEPT ![j] = [
           status |-> IF runs[j].lost = Len(File) THEN "failed" ELSE "completed",
           success |-> runs[j].won, failed |-> runs[j].lost]]
    /\ runs' = [runs EXCEPT ![j] = Off]
    /\ UNCHANGED <<reports, enrolled, opened, postings, skipped, interleaved>>

WriteAborted(j) ==
    /\ runs[j].pc = "abort"
    /\ batches' = [batches EXCEPT ![j].status = "failed"]
    /\ runs' = [runs EXCEPT ![j] = Off]
    /\ UNCHANGED <<reports, enrolled, opened, postings, skipped, interleaved>>

\* The process stops, or the update of the job that comes first or last fails.
Die(j) ==
    /\ runs[j].pc # "idle"
    /\ runs' = [runs EXCEPT ![j] = Off]
    /\ UNCHANGED <<batches, reports, enrolled, opened, postings, skipped, interleaved>>

Next == \E j \in Batch :
    \/ ProcessMemberImport(j) \/ RunMemberImportJob(j) \/ FindExistingMember(j)
    \/ UpsertMember(j) \/ EnsureMemberAccounts(j) \/ ProvisionMemberLogin(j) \/ FailLogin(j)
    \/ UndoAccounts(j) \/ UndoMember(j) \/ SkipImportedLoan(j)
    \/ \E kind \in Kind : PassOver(j, kind) \/ PostAmount(j, kind)
    \/ FailRow(j) \/ InsertJobRow(j) \/ AbortJob(j) \/ FinishJob(j) \/ WriteAborted(j) \/ Die(j)

Spec == Init /\ [][Next]_vars
----------------------------------------------------------------------------
(* Properties.                                                              *)

TypeOK ==
    /\ batches \in [Batch -> [status : {"absent", "pending", "processing", "completed", "failed"},
                         success : Nat, failed : Nat]]
    /\ reports \subseteq Batch \X Rows \X {"success", "failure"}
    /\ enrolled \subseteq Person /\ opened \subseteq Person
    /\ postings \subseteq Batch \X Rows \X Kind
    /\ skipped \subseteq Batch \X Rows
    /\ runs \in [Batch -> Run]

\* What a job tells its user is what it did, even when jobs overlap or die: a row is reported
\* once; a row reported as imported has each of its amounts posted, a loan apart that
\* was there already, and its member; and a completed job has counted every row.
ReportIsTrue ==
    /\ \A x, y \in reports : x[1] = y[1] /\ x[2] = y[2] => x = y
    /\ \A x \in reports : x[3] = "success" =>
          /\ \A kind \in File[x[2]].amounts :
                <<x[1], x[2], kind>> \in postings \/ (kind = "loan" /\ <<x[1], x[2]>> \in skipped)
          /\ File[x[2]].person \in enrolled
    /\ \A j \in Batch : batches[j].status = "completed" =>
          /\ batches[j].success = Cardinality({x \in reports : x[1] = j /\ x[3] = "success"})
          /\ batches[j].failed = Cardinality({x \in reports : x[1] = j /\ x[3] = "failure"})
          /\ batches[j].success + batches[j].failed = Len(File)

\* When no two jobs interleaved, a loan of the file is disbursed once, however often the
\* file is imported and wherever the jobs before stopped.
SerialImport == ~interleaved => \A p \in Person : Cardinality(LoansOf(p)) <= 1
=============================================================================
