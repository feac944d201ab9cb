---------------------------- MODULE Approvals ----------------------------
(***************************************************************************)
(* The maker-checker engine of src/src/modules/approvals, and the high-     *)
(* value transaction that runs behind it (withdraw in                       *)
(* src/src/modules/finance; loanDisburse has the same shape).               *)
(*                                                                          *)
(* The tables of supabase/sql/039 are the shared state.  A handler is an    *)
(* asynchronous function: every await of a database call lets the other     *)
(* handlers run, so one HTTP request is a call record whose pc names the    *)
(* database statement it is about to issue, and each statement is an        *)
(* action.  Statements are single PostgREST requests: atomic, and not       *)
(* grouped in a transaction.                                                *)
(***************************************************************************)
EXTENDS Naturals, FiniteSets

CONSTANTS
    User,           \* staff accounts of one tenant
    InternalOps,    \* those with isInternalOps, exempt from role checks
    Operation,      \* operation keys under approval
    Amount,         \* transaction amounts
    Threshold,      \* threshold_amount values
    MaxRequired,    \* upper bound of required_checker_count (5 in the table)
    InitPolicy,     \* the policy each operation starts with
    PolicyPatch,    \* bodies of PATCH /approvals/policies/:operationKey
    Request,        \* approval request ids
    Call,           \* HTTP requests being served at the same time
    MaxPosted,      \* bound: postings counted per approval request
    NoRequest, NoUser, NoPolicy

Fields == {"enabled", "threshold", "required", "makers", "checkers"}

\* What the table's CHECK constraints accept.
Policy == [ enabled   : BOOLEAN,
            threshold : Threshold,
            required  : 1..MaxRequired,
            makers    : SUBSET User,
            checkers  : SUBSET User ]

\* The next object of updateApprovalPolicy: fields the body has, else current.
Patched(current, patch) ==
    [f \in Fields |-> IF f \in DOMAIN patch THEN patch[f] ELSE current[f]]

ASSUME ConstantAssumption ==
    /\ IsFiniteSet(User) /\ InternalOps \subseteq User
    /\ Amount \subseteq Nat /\ Threshold \subseteq Nat
    /\ MaxRequired \in Nat \ {0} /\ MaxPosted \in Nat
    /\ InitPolicy \in [Operation -> Policy]
    /\ NoRequest \notin Request /\ NoUser \notin User /\ NoPolicy \notin Policy

ASSUME PatchAssumption ==
    \A p \in Policy, patch \in PolicyPatch :
        ("required" \in DOMAIN patch => patch.required \in 1..MaxRequired)
            => Patched(p, patch) \in Policy

\* Mutant: a count of zero is a valid body.
BodyOkFromZero(patch) == "required" \in DOMAIN patch => patch.required \in 0..MaxRequired

\* What updateApprovalPolicySchema lets through; the table asks the same.
BodyOk(patch) == "required" \in DOMAIN patch => patch.required \in 1..MaxRequired

Verdict == {"approved", "rejected"}
Status == {"absent", "pending", "approved", "rejected", "executed", "expired"}
StepStatus == {"absent", "pending", "approved", "rejected"}

VARIABLES
    policy,     \* approval_policies: operation -> row
    requests,   \* approval_requests: id -> row, "absent" before the insert
    decisions,  \* approval_decisions: id -> user -> verdict (unique per pair)
    steps,      \* approval_steps: id -> step_order -> status
    overdue,    \* requests whose expires_at has passed
    postings,   \* journals posted on the strength of each request
    calls,      \* the handlers in flight
    disturbed   \* history: requests whose handlers overlapped or died midway

vars == <<policy, requests, decisions, steps, overdue, postings, calls, disturbed>>

Row == [ status   : Status,
         op       : Operation \cup {NoPolicy},
         maker    : User \cup {NoUser},
         required : 1..MaxRequired,
         checkers : SUBSET User,
         approved : Nat ]

NoRow == [ status |-> "absent", op |-> NoPolicy, maker |-> NoUser,
           required |-> 1, checkers |-> {}, approved |-> 0 ]

PC == {"idle", "create", "steps", "gate", "expire", "post", "mark",
       "insert", "count", "update", "step", "upsert"}

CallState == [ pc      : PC,
               user    : User \cup {NoUser},
               op      : Operation \cup {NoPolicy},
               req     : Request \cup {NoRequest},
               verdict : Verdict \cup {"none"},
               count   : Nat,
               next    : Policy \cup {NoPolicy} ]

Idle == [ pc |-> "idle", user |-> NoUser, op |-> NoPolicy, req |-> NoRequest,
          verdict |-> "none", count |-> 0, next |-> NoPolicy ]

Approvers(r) == {u \in User : decisions[r][u] = "approved"}
Rejecters(r) == {u \in User : decisions[r][u] = "rejected"}

Working(r) == {c \in Call : calls[c].req = r}

\* Record that a handler begins on r while another one is still working on it.
Overlap(r) == disturbed' = IF Working(r) # {} THEN disturbed \cup {r} ELSE disturbed

Goto(c, pc) == calls' = [calls EXCEPT ![c].pc = pc]
Return(c)   == calls' = [calls EXCEPT ![c] = Idle]

Init ==
    /\ policy = InitPolicy
    /\ requests = [r \in Request |-> NoRow]
    /\ decisions = [r \in Request |-> [u \in User |-> "none"]]
    /\ steps = [r \in Request |-> [i \in 1..MaxRequired |-> "absent"]]
    /\ overdue = {}
    /\ postings = [r \in Request |-> 0]
    /\ calls = [c \in Call |-> Idle]
    /\ disturbed = {}
--------------------------------------------------------------------------
(* The transaction: withdraw and the approval gate it awaits.               *)

NeedsApproval(o, amount) == policy[o].enabled /\ amount >= policy[o].threshold

\* withdraw reaches ensureOperationApproval, which reads the policy.
Begin(c, u, o, pc, r) ==
    calls' = [calls EXCEPT ![c] = [Idle EXCEPT !.pc = pc, !.user = u, !.op = o, !.req = r]]

Withdraw(c, u, o, amount, r) ==
    /\ calls[c].pc = "idle"
    /\ \/ /\ ~NeedsApproval(o, amount)
          /\ Begin(c, u, o, "post", NoRequest)
          /\ UNCHANGED disturbed
       \/ /\ NeedsApproval(o, amount)
          /\ u \in InternalOps \cup policy[o].makers
          /\ \/ r = NoRequest /\ Begin(c, u, o, "create", r) /\ UNCHANGED disturbed
             \/ /\ r # NoRequest /\ requests[r].status # "absent"
                /\ Begin(c, u, o, "gate", r) /\ Overlap(r)
    /\ UNCHANGED <<policy, requests, decisions, steps, overdue, postings>>

\* The row copies the policy as it is now, which a later policy change leaves alone.
CreateApprovalRequest(c, r) ==
    LET p == policy[calls[c].op] IN
    /\ calls[c].pc = "create"
    /\ requests[r].status = "absent"
    /\ requests' = [requests EXCEPT ![r] =
          [ status |-> "pending", op |-> calls[c].op, maker |-> calls[c].user,
            required |-> p.required, checkers |-> p.checkers, approved |-> 0 ]]
    /\ calls' = [calls EXCEPT ![c].pc = "steps", ![c].req = r]
    /\ UNCHANGED <<policy, decisions, steps, overdue, postings, disturbed>>

\* The second insert; the 202 with the request id follows it.
InsertSteps(c) ==
    LET r == calls[c].req IN
    /\ calls[c].pc = "steps"
    /\ steps' = [steps EXCEPT ![r] =
          [i \in 1..MaxRequired |-> IF i <= requests[r].required THEN "pending" ELSE "absent"]]
    /\ Return(c)
    /\ UNCHANGED <<policy, requests, decisions, overdue, postings, disturbed>>

\* Mutant: an approval still pending is let through.
GateAcceptsPending(c) ==
    /\ calls[c].pc = "gate"
    /\ IF requests[calls[c].req].status \in {"pending", "approved"}
       THEN Goto(c, "post") ELSE Return(c)
    /\ UNCHANGED <<policy, requests, decisions, steps, overdue, postings, disturbed>>

\* Mutant: the request is marked without waiting for the posting.
GateMarksFirst(c) ==
    /\ calls[c].pc = "gate"
    /\ IF requests[calls[c].req].status = "approved" THEN Goto(c, "mark") ELSE Return(c)
    /\ UNCHANGED <<policy, requests, decisions, steps, overdue, postings, disturbed>>

\* The gate of a resubmission: the row it reads here decides, the posting comes later.
EnsureOperationApproval(c) ==
    LET r == calls[c].req
        mayRun == /\ requests[r].op = calls[c].op
                  /\ calls[c].user \in InternalOps \/ requests[r].maker = calls[c].user
                  /\ requests[r].status = "approved"
    IN
    /\ calls[c].pc = "gate"
    /\ \/ ~mayRun /\ Return(c)
       \/ mayRun /\ r \in overdue /\ Goto(c, "expire")
       \/ mayRun /\ r \notin overdue /\ Goto(c, "post")
    /\ UNCHANGED <<policy, requests, decisions, steps, overdue, postings, disturbed>>

\* update ... where status = 'approved', then the 409.
ExpireRequest(c) ==
    LET r == calls[c].req IN
    /\ calls[c].pc = "expire"
    /\ requests' = IF requests[r].status = "approved"
                   THEN [requests EXCEPT ![r].status = "expired"]
                   ELSE requests
    /\ Return(c)
    /\ UNCHANGED <<policy, decisions, steps, overdue, postings, disturbed>>

\* The ledger procedure commits a journal.  A refusal is Abort.
Post(c) ==
    /\ calls[c].pc = "post"
    /\ \/ calls[c].req = NoRequest /\ UNCHANGED postings
       \/ /\ calls[c].req # NoRequest /\ postings[calls[c].req] < MaxPosted
          /\ postings' = [postings EXCEPT ![calls[c].req] = @ + 1]
    /\ Goto(c, "mark")
    /\ UNCHANGED <<policy, requests, decisions, steps, overdue, disturbed>>

\* After the receipts, the session and the audit row; no row updated is a 409.
MarkApprovalRequestExecuted(c) ==
    LET r == calls[c].req IN
    /\ calls[c].pc = "mark"
    /\ requests' = IF r # NoRequest /\ requests[r].status = "approved"
                   THEN [requests EXCEPT ![r].status = "executed"]
                   ELSE requests
    /\ Return(c)
    /\ UNCHANGED <<policy, decisions, steps, overdue, postings, disturbed>>
--------------------------------------------------------------------------
(* Deciding a request: approveRequest and rejectRequest.                    *)

\* decideRequest reads the row and checks it.
DecideRequest(c, u, r, v) ==
    /\ calls[c].pc = "idle"
    /\ requests[r].status = "pending"
    /\ requests[r].maker # u
    /\ u \in InternalOps \cup requests[r].checkers
    /\ calls' = [calls EXCEPT ![c] =
          [Idle EXCEPT !.pc = "insert", !.user = u, !.req = r, !.verdict = v]]
    /\ Overlap(r)
    /\ UNCHANGED <<policy, requests, decisions, steps, overdue, postings>>

\* The unique index turns a second decision by the same user into a 409.
InsertDecision(c) ==
    LET call == calls[c] IN
    /\ call.pc = "insert"
    /\ \/ /\ decisions[call.req][call.user] = "none"
          /\ decisions' = [decisions EXCEPT ![call.req][call.user] = call.verdict]
          /\ Goto(c, IF call.verdict = "approved" THEN "count" ELSE "update")
       \/ /\ decisions[call.req][call.user] # "none"
          /\ Return(c) /\ UNCHANGED decisions
    /\ UNCHANGED <<policy, requests, steps, overdue, postings, disturbed>>

CountApprovals(c) ==
    /\ calls[c].pc = "count"
    /\ calls' = [calls EXCEPT ![c].pc = "update",
                              ![c].count = Cardinality(Approvers(calls[c].req))]
    /\ UNCHANGED <<policy, requests, decisions, steps, overdue, postings, disturbed>>

\* Mutant: the count asked for is today's policy's, not the request's own.
DecidedByCurrentPolicy(row, call) ==
    IF call.verdict = "rejected"
    THEN [row EXCEPT !.status = "rejected"]
    ELSE [row EXCEPT !.status = IF call.count >= policy[row.op].required
                                THEN "approved" ELSE "pending",
                     !.approved = call.count]

\* The row the verdict turns a request into.  The update names the id only: it
\* does not ask that the row still be as it was read.
Decided(row, call) ==
    IF call.verdict = "rejected"
    THEN [row EXCEPT !.status = "rejected"]
    ELSE [row EXCEPT !.status = IF call.count >= row.required THEN "approved" ELSE "pending",
                     !.approved = call.count]

UpdateRequest(c) ==
    LET r == calls[c].req IN
    /\ calls[c].pc = "update"
    /\ requests' = [requests EXCEPT ![r] = Decided(requests[r], calls[c])]
    /\ calls' = [calls EXCEPT ![c].pc = "step", ![c].count = requests'[r].approved]
    /\ UNCHANGED <<policy, decisions, steps, overdue, postings, disturbed>>

\* Mutant: a rejection overwrites the step of the last approval.
StepOrderLast(row, call) == IF call.count = 0 THEN 1 ELSE call.count

\* stepOrder, from the row the update returned.
StepOrder(row, call) ==
    LET wanted == call.count + (IF call.verdict = "rejected" THEN 1 ELSE 0)
    IN IF wanted <= row.required THEN wanted ELSE row.required

UpdateStep(c) ==
    LET r == calls[c].req
        i == StepOrder(requests[r], calls[c])
    IN
    /\ calls[c].pc = "step"
    /\ steps' = [steps EXCEPT ![r] =
          [k \in 1..MaxRequired |->
             IF k = i /\ @[k] # "absent" THEN calls[c].verdict ELSE @[k]]]
    /\ Return(c)
    /\ UNCHANGED <<policy, requests, decisions, overdue, postings, disturbed>>
--------------------------------------------------------------------------
(* Changing a policy, the clock, and failures.                              *)

UpdateApprovalPolicy(c, o, patch) ==
    /\ calls[c].pc = "idle"
    /\ BodyOk(patch)
    /\ calls' = [calls EXCEPT ![c] =
          [Idle EXCEPT !.pc = "upsert", !.op = o,
                       !.next = Patched(policy[o], patch)]]
    /\ UNCHANGED <<policy, requests, decisions, steps, overdue, postings, disturbed>>

\* The whole row is written back, fields the patch did not name included.
UpsertPolicy(c) ==
    LET call == calls[c] IN
    /\ call.pc = "upsert"
    /\ policy' = [policy EXCEPT ![call.op] = call.next]
    /\ Return(c)
    /\ UNCHANGED <<requests, decisions, steps, overdue, postings, disturbed>>

PassDeadline(r) ==
    /\ requests[r].status # "absent" /\ r \notin overdue
    /\ overdue' = overdue \cup {r}
    /\ UNCHANGED <<policy, requests, decisions, steps, postings, calls, disturbed>>

\* An awaited call fails (or the procedure refuses) and the handler throws, or
\* the process stops: what was written stays, what was to come does not happen.
Abort(c) ==
    /\ calls[c].pc # "idle"
    /\ disturbed' = IF calls[c].pc \in {"steps", "count", "update", "step", "mark"}
                    THEN disturbed \cup ({calls[c].req} \cap Request)
                    ELSE disturbed
    /\ Return(c)
    /\ UNCHANGED <<policy, requests, decisions, steps, overdue, postings>>

Next ==
    \/ \E c \in Call :
          \/ \E u \in User, o \in Operation, amount \in Amount, r \in Request \cup {NoRequest} :
                Withdraw(c, u, o, amount, r)
          \/ \E u \in User, r \in Request, v \in Verdict : DecideRequest(c, u, r, v)
          \/ \E o \in Operation, patch \in PolicyPatch : UpdateApprovalPolicy(c, o, patch)
          \/ \E r \in Request : CreateApprovalRequest(c, r)
          \/ InsertSteps(c)
          \/ EnsureOperationApproval(c)
          \/ ExpireRequest(c)
          \/ Post(c)
          \/ MarkApprovalRequestExecuted(c)
          \/ InsertDecision(c)
          \/ CountApprovals(c)
          \/ UpdateRequest(c)
          \/ UpdateStep(c)
          \/ UpsertPolicy(c)
          \/ Abort(c)
    \/ \E r \in Request : PassDeadline(r)

Spec == Init /\ [][Next]_vars
--------------------------------------------------------------------------
(* Properties.                                                              *)

TypeOK ==
    /\ policy \in [Operation -> Policy]
    /\ requests \in [Request -> Row]
    /\ decisions \in [Request -> [User -> Verdict \cup {"none"}]]
    /\ steps \in [Request -> [1..MaxRequired -> StepStatus]]
    /\ overdue \subseteq Request
    /\ postings \in [Request -> Nat]
    /\ calls \in [Call -> CallState]
    /\ disturbed \subseteq Request

\* The recorded approvals reach the count the request was created with, and
\* none of them is the maker's own or a user's whom the snapshot does not allow.
Quorum(r) ==
    /\ Cardinality(Approvers(r)) >= requests[r].required
    /\ \A u \in Approvers(r) :
          u # requests[r].maker /\ u \in InternalOps \cup requests[r].checkers

\* A request that is or was approved has its quorum of recorded approvals,
\* whatever order the checkers' reads, counts and updates took effect in.
ApprovalNeedsQuorum ==
    \A r \in Request :
        requests[r].status \in {"approved", "executed", "expired"} => Quorum(r)

\* Money moves on the strength of a request only with its quorum on record.
PostingNeedsQuorum ==
    \A r \in Request : postings[r] > 0 => Quorum(r)

\* A row that says executed has a journal behind it: marking follows posting in
\* every interleaving, also when another execution or a late decision interferes.
ExecutedWasPosted ==
    \A r \in Request : requests[r].status = "executed" => postings[r] > 0

\* When the handlers of a request ran one after the other and none died midway,
\* its row, its steps and its postings are what the decisions on record say: this
\* is the engine's contract, which only overlapping or dying handlers break.
SerialOutcome ==
    \A r \in Request \ disturbed :
        LET row == requests[r]
            n == Cardinality(Approvers(r))
        IN  row.status # "absent" /\ Working(r) = {} =>
              /\ row.status = "rejected" <=> Rejecters(r) # {}
              /\ row.status = "pending" <=> Rejecters(r) = {} /\ n < row.required
              /\ row.approved = n
              /\ postings[r] = IF row.status = "executed" THEN 1 ELSE 0
              /\ \A i \in 1..row.required :
                    steps[r][i] = IF i <= n THEN "approved"
                                  ELSE IF i = n + 1 /\ Rejecters(r) # {} THEN "rejected"
                                  ELSE "pending"

\* docs/phase-2-maker-checker-execution-backlog.md: a rejected request stays
\* rejected until a new one is created.
RejectedIsFinal ==
    [][\A r \in Request : requests[r].status = "rejected" => requests'[r].status = "rejected"]_vars

\* approvals.service.js, APPROVAL_REQUEST_ALREADY_EXECUTED: a request that has
\* been executed is not executed again.
ExecutedOnce == \A r \in Request : postings[r] <= 1
==========================================================================
