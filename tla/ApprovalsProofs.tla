------------------------- MODULE ApprovalsProofs -------------------------
(* Proofs about the maker-checker engine of Approvals, for every set of     *)
(* users, requests and concurrent handlers and for every policy.            *)
EXTENDS Approvals, FiniteSetTheorems, TLAPS

(***************************************************************************)
(* The inductive invariant.  What a handler holds in its locals must still  *)
(* be backed by the tables when it acts on it, although other handlers      *)
(* wrote in between: it is, because a row never loses its identity, its     *)
(* snapshot or a decision, and that is what Grows says of a step.           *)
(***************************************************************************)
Exists(r) == requests[r].status # "absent"

Allowed(r, u) ==
    u # requests[r].maker /\ u \in InternalOps \cup requests[r].checkers

Enough(r) == Exists(r) /\ Cardinality(Approvers(r)) >= requests[r].required

\* What the statement a handler is about to issue relies on.
CallOK(k) ==
    /\ k.pc \in {"create", "upsert"} => k.op \in Operation
    /\ k.pc = "upsert" => k.next \in Policy
    /\ k.pc \in {"steps", "gate", "expire", "insert", "count", "update", "step"} =>
          k.req \in Request /\ Exists(k.req)
    /\ k.pc \in {"post", "mark"} /\ k.req # NoRequest => k.req \in Request /\ Enough(k.req)
    /\ k.pc = "mark" /\ k.req # NoRequest => postings[k.req] > 0
    /\ k.pc \in {"insert", "count", "update", "step"} => k.user \in User /\ k.verdict \in Verdict
    /\ k.pc = "insert" => Allowed(k.req, k.user)
    /\ k.pc = "update" /\ k.verdict = "approved" => k.count <= Cardinality(Approvers(k.req))

RowOK(r) ==
    /\ ~Exists(r) => postings[r] = 0
    /\ \A u \in User : decisions[r][u] # "none" => Exists(r) /\ Allowed(r, u)
    /\ requests[r].status \in {"approved", "executed", "expired"} => Enough(r)
    /\ postings[r] > 0 => Enough(r)
    /\ requests[r].status = "executed" => postings[r] > 0

CallsOK == \A c \in Call : CallOK(calls[c])
RowsOK  == \A r \in Request : RowOK(r)

IInv == TypeOK /\ CallsOK /\ RowsOK

\* What every step leaves in place.
Grows ==
    \A r \in Request :
       /\ Exists(r) => /\ Exists(r)'
                       /\ requests'[r].op = requests[r].op
                       /\ requests'[r].maker = requests[r].maker
                       /\ requests'[r].required = requests[r].required
                       /\ requests'[r].checkers = requests[r].checkers
       /\ \A u \in User : decisions[r][u] # "none" => decisions'[r][u] = decisions[r][u]
       /\ postings'[r] >= postings[r]

(***************************************************************************)
(* Lemmas about one step.                                                   *)
(***************************************************************************)
LEMMA ApproversFinite ==
  ASSUME NEW r \in Request
  PROVE  IsFiniteSet(Approvers(r)) /\ Cardinality(Approvers(r)) \in Nat
  BY ConstantAssumption, FS_Subset, FS_CardinalityType DEF Approvers

\* Decisions are never lost, so a count of approvals never shrinks.
LEMMA ApproversGrow ==
  ASSUME Grows, NEW r \in Request
  PROVE  Cardinality(Approvers(r)) <= Cardinality(Approvers(r)')
  <1>1. Approvers(r) \subseteq Approvers(r)'
    BY DEF Grows, Approvers
  <1>2. IsFiniteSet(Approvers(r)')
    BY ConstantAssumption, FS_Subset DEF Approvers
  <1> QED
    BY <1>1, <1>2, FS_Subset

LEMMA EnoughStable ==
  ASSUME TypeOK, TypeOK', Grows, NEW r \in Request, Enough(r)
  PROVE  Enough(r)'
  <1>1. Cardinality(Approvers(r)) \in Nat /\ Cardinality(Approvers(r)') \in Nat
    <2>1. IsFiniteSet(Approvers(r)')
      BY ConstantAssumption, FS_Subset DEF Approvers
    <2> QED
      BY <2>1, ApproversFinite, FS_CardinalityType
  <1>2. requests[r].required \in Nat /\ requests'[r].required = requests[r].required /\ Exists(r)'
    BY ConstantAssumption DEF TypeOK, Row, Grows, Enough
  <1>3. Cardinality(Approvers(r)) >= requests[r].required
    BY DEF Enough
  <1> QED
    BY <1>1, <1>2, <1>3, ApproversGrow DEF Enough

\* A handler's locals stay backed while other handlers step.
LEMMA CallOKStable ==
  ASSUME TypeOK, TypeOK', Grows, NEW k \in CallState, CallOK(k)
  PROVE  CallOK(k)'
  <1>1. ASSUME k.req \in Request, Enough(k.req)
        PROVE  Enough(k.req)'
    BY <1>1, EnoughStable
  <1>2. ASSUME k.req \in Request, Exists(k.req)
        PROVE  Exists(k.req)'
    BY <1>2 DEF Grows
  <1>3. ASSUME k.req \in Request, Exists(k.req), Allowed(k.req, k.user)
        PROVE  Allowed(k.req, k.user)'
    BY <1>3 DEF Grows, Allowed
  <1>4. ASSUME k.req \in Request, postings[k.req] > 0
        PROVE  postings'[k.req] > 0
    <2>1. postings[k.req] \in Nat /\ postings'[k.req] \in Nat
      BY <1>4 DEF TypeOK
    <2> QED
      BY <1>4, <2>1 DEF Grows
  <1>5. ASSUME k.req \in Request, k.count <= Cardinality(Approvers(k.req))
        PROVE  k.count <= Cardinality(Approvers(k.req)')
    <2>1. IsFiniteSet(Approvers(k.req)')
      BY ConstantAssumption, FS_Subset DEF Approvers
    <2>2. /\ Cardinality(Approvers(k.req)) \in Nat
          /\ Cardinality(Approvers(k.req)') \in Nat
          /\ k.count \in Nat
      BY <1>5, <2>1, ApproversFinite, FS_CardinalityType DEF CallState
    <2> QED
      BY <1>5, <2>2, ApproversGrow
  <1> QED
    BY <1>1, <1>2, <1>3, <1>4, <1>5 DEF CallOK

LEMMA IdleOK == Idle \in CallState /\ CallOK(Idle)'
  BY DEF Idle, CallState, PC, CallOK

\* A row nobody decided on, posted for or re-marked keeps its invariant.
LEMMA RowKept ==
  ASSUME IInv, TypeOK', Grows, NEW r \in Request,
         requests'[r] = requests[r], decisions'[r] = decisions[r], postings'[r] = postings[r]
  PROVE  RowOK(r)'
  <1>1. RowOK(r)
    BY DEF IInv, RowsOK
  <1>2. Approvers(r)' = Approvers(r)
    BY DEF Approvers
  <1> QED
    BY <1>1, <1>2 DEF RowOK, Exists, Allowed, Enough

\* A row that changes its status keeps its invariant if the new status is earned.
LEMMA RowMarked ==
  ASSUME IInv, TypeOK', Grows, NEW r \in Request, Exists(r),
         decisions'[r] = decisions[r], postings'[r] = postings[r],
         requests'[r].status \in {"approved", "executed", "expired"} => Enough(r),
         requests'[r].status = "executed" => postings[r] > 0
  PROVE  RowOK(r)'
  <1>1. RowOK(r)
    BY DEF IInv, RowsOK
  <1>2. Approvers(r)' = Approvers(r)
    BY DEF Approvers
  <1>3. /\ Exists(r)'
        /\ requests'[r].maker = requests[r].maker
        /\ requests'[r].required = requests[r].required
        /\ requests'[r].checkers = requests[r].checkers
    BY DEF Grows
  <1>4. \A u \in User : Allowed(r, u)' <=> Allowed(r, u)
    BY <1>3 DEF Allowed
  <1>5. Enough(r)' <=> Enough(r)
    BY <1>2, <1>3 DEF Enough
  <1> QED
    BY <1>1, <1>3, <1>4, <1>5 DEF RowOK

\* One handler moves to record k, the others hold what they held.
LEMMA StepPreserves ==
  ASSUME IInv, TypeOK', Grows, NEW c \in Call, NEW k \in CallState,
         calls' = [calls EXCEPT ![c] = k], CallOK(k)',
         \A r \in Request : RowOK(r)'
  PROVE  IInv'
  <1>1. ASSUME NEW d \in Call PROVE CallOK(calls[d])'
    <2>1. CASE d = c
      <3>1. calls'[d] = k
        BY <2>1 DEF IInv, TypeOK
      <3> QED
        BY <3>1 DEF CallOK, Exists, Enough, Allowed, Approvers
    <2>2. CASE d # c
      <3>1. calls'[d] = calls[d] /\ calls[d] \in CallState /\ CallOK(calls[d])
        BY <2>2 DEF IInv, TypeOK, CallsOK
      <3>2. ASSUME NEW j \in CallState, CallOK(j) PROVE CallOK(j)'
        BY <3>2, CallOKStable DEF IInv
      <3> QED
        BY <3>1, <3>2 DEF CallOK, Exists, Enough, Allowed, Approvers
    <2> QED
      BY <2>1, <2>2
  <1> QED
    BY <1>1 DEF IInv, CallsOK, RowsOK

\* A step of one handler that writes no table.
LEMMA LocalStepPreserves ==
  ASSUME IInv, NEW c \in Call, NEW k \in CallState,
         calls' = [calls EXCEPT ![c] = k],
         UNCHANGED <<policy, requests, decisions, steps, overdue, postings>>,
         disturbed' \subseteq Request,
         CallOK(k)'
  PROVE  IInv'
  <1>1. TypeOK'
    BY DEF IInv, TypeOK
  <1>2. Grows
    BY DEF Grows, Exists, IInv, TypeOK
  <1>3. \A r \in Request : RowOK(r)'
    BY <1>1, <1>2, RowKept
  <1> QED
    BY <1>1, <1>2, <1>3, StepPreserves

(***************************************************************************)
(* One lemma per action.                                                    *)
(***************************************************************************)
LEMMA CallTyped ==
  ASSUME IInv, NEW c \in Call
  PROVE  calls[c] \in CallState /\ CallOK(calls[c])
  BY DEF IInv, TypeOK, CallsOK

LEMMA GotoTyped ==
  ASSUME IInv, NEW c \in Call, NEW pc \in PC
  PROVE  [calls[c] EXCEPT !.pc = pc] \in CallState
  BY CallTyped DEF CallState

LEMMA OverlapTyped ==
  ASSUME IInv, NEW r \in Request, Overlap(r)
  PROVE  disturbed' \subseteq Request
  BY DEF IInv, TypeOK, Overlap

LEMMA WithdrawPreserves ==
  ASSUME IInv, NEW c \in Call, NEW u \in User, NEW o \in Operation,
         NEW amount \in Amount, NEW r \in Request \cup {NoRequest},
         Withdraw(c, u, o, amount, r)
  PROVE  IInv'
  <1> DEFINE k(pc, q) == [Idle EXCEPT !.pc = pc, !.user = u, !.op = o, !.req = q]
  <1>1. ASSUME NEW pc \in PC, NEW q \in Request \cup {NoRequest}
        PROVE  k(pc, q) \in CallState
    BY DEF Idle, CallState
  <1>2. UNCHANGED <<policy, requests, decisions, steps, overdue, postings>>
    BY DEF Withdraw
  <1>3. disturbed' \subseteq Request
    BY OverlapTyped DEF Withdraw, IInv, TypeOK
  <1>4. CASE Begin(c, u, o, "post", NoRequest)
    <2>1. k("post", NoRequest) \in CallState
      BY <1>1 DEF PC
    <2>2. CallOK(k("post", NoRequest))'
      BY DEF CallOK, Idle
    <2> QED
      BY <1>2, <1>3, <1>4, <2>1, <2>2, LocalStepPreserves DEF Begin
  <1>5. CASE Begin(c, u, o, "create", r)
    <2>1. k("create", r) \in CallState
      BY <1>1 DEF PC
    <2>2. CallOK(k("create", r))'
      BY DEF CallOK, Idle
    <2> QED
      BY <1>2, <1>3, <1>5, <2>1, <2>2, LocalStepPreserves DEF Begin
  <1>6. CASE Begin(c, u, o, "gate", r) /\ r # NoRequest /\ Exists(r)
    <2>1. k("gate", r) \in CallState
      BY <1>1 DEF PC
    <2>2. CallOK(k("gate", r))'
      BY <1>2, <1>6 DEF CallOK, Idle, Exists
    <2> QED
      BY <1>2, <1>3, <1>6, <2>1, <2>2, LocalStepPreserves DEF Begin
  <1> QED
    BY <1>4, <1>5, <1>6 DEF Withdraw, Exists

LEMMA CreateApprovalRequestPreserves ==
  ASSUME IInv, NEW c \in Call, NEW r \in Request, CreateApprovalRequest(c, r)
  PROVE  IInv'
  <1> DEFINE p == policy[calls[c].op]
             row == [ status |-> "pending", op |-> calls[c].op, maker |-> calls[c].user,
                      required |-> p.required, checkers |-> p.checkers, approved |-> 0 ]
  <1>1. calls[c] \in CallState /\ calls[c].op \in Operation /\ calls[c].pc = "create"
    BY CallTyped DEF CallOK, CreateApprovalRequest
  <1>2. p \in Policy /\ calls[c].user \in User \cup {NoUser}
    BY <1>1 DEF IInv, TypeOK, CallState
  <1>3. row \in Row
    BY <1>1, <1>2 DEF Row, Status, Policy
  <1>4. /\ requests' = [requests EXCEPT ![r] = row]
        /\ UNCHANGED <<policy, decisions, steps, overdue, postings, disturbed>>
        /\ ~Exists(r)
    BY DEF CreateApprovalRequest, Exists
  <1>5. PICK k \in CallState : k = [calls[c] EXCEPT !.pc = "steps", !.req = r]
    BY <1>1 DEF CallState, PC
  <1>6. row.status = "pending" /\ k.pc = "steps" /\ k.req = r
    BY <1>1, <1>5 DEF CallState
  <1>11. calls' = [calls EXCEPT ![c] = k]
    BY <1>5 DEF CreateApprovalRequest
  <1> HIDE DEF row
  <1>7. TypeOK'
    BY <1>3, <1>4, <1>11 DEF IInv, TypeOK
  <1>8. Grows
    BY <1>4 DEF Grows, Exists, IInv, TypeOK
  <1>9. CallOK(k)'
    BY <1>4, <1>6 DEF CallOK, Exists, IInv, TypeOK
  <1>10. ASSUME NEW q \in Request PROVE RowOK(q)'
    <2>1. CASE q = r
      <3>1. RowOK(r) /\ requests'[r] = row /\ postings[r] = 0 /\ postings'[r] = 0
        BY <1>4 DEF IInv, RowsOK, RowOK, TypeOK
      <3>2. \A u \in User : decisions'[r][u] = "none"
        BY <1>4, <3>1 DEF RowOK
      <3> QED
        BY <1>6, <2>1, <3>1, <3>2 DEF RowOK, Exists
    <2>2. CASE q # r
      BY <1>4, <1>7, <1>8, <2>2, RowKept DEF IInv, TypeOK
    <2> QED
      BY <2>1, <2>2
  <1> QED
    BY <1>11, <1>7, <1>8, <1>9, <1>10, StepPreserves

LEMMA InsertStepsPreserves ==
  ASSUME IInv, NEW c \in Call, InsertSteps(c)
  PROVE  IInv'
  <1>1. TypeOK'
    <2>1. calls' \in [Call -> CallState]
      BY IdleOK DEF InsertSteps, Return, IInv, TypeOK
    <2>2. steps' \in [Request -> [1..MaxRequired -> StepStatus]]
      BY DEF InsertSteps, IInv, TypeOK, StepStatus
    <2> QED
      BY <2>1, <2>2 DEF InsertSteps, IInv, TypeOK
  <1>2. Grows
    BY DEF Grows, Exists, InsertSteps, IInv, TypeOK
  <1>3. \A r \in Request : RowOK(r)'
    BY <1>1, <1>2, RowKept DEF InsertSteps
  <1> QED
    BY <1>1, <1>2, <1>3, IdleOK, StepPreserves DEF InsertSteps, Return

LEMMA EnsureOperationApprovalPreserves ==
  ASSUME IInv, NEW c \in Call, EnsureOperationApproval(c)
  PROVE  IInv'
  <1>1. UNCHANGED <<policy, requests, decisions, steps, overdue, postings, disturbed>>
    BY DEF EnsureOperationApproval
  <1>2. /\ calls[c] \in CallState
        /\ calls[c].req \in Request /\ Exists(calls[c].req)
    BY CallTyped DEF EnsureOperationApproval, CallOK
  <1>3. disturbed' \subseteq Request
    BY <1>1 DEF IInv, TypeOK
  <1>4. CASE Return(c)
    BY <1>1, <1>3, <1>4, IdleOK, LocalStepPreserves DEF Return
  <1>5. CASE Goto(c, "expire")
    <2>1. PICK k \in CallState : k = [calls[c] EXCEPT !.pc = "expire"]
      BY GotoTyped DEF PC
    <2>2. k.pc = "expire" /\ k.req = calls[c].req
      BY <1>2, <2>1 DEF CallState
    <2>3. CallOK(k)'
      BY <1>1, <1>2, <2>2 DEF CallOK, Exists
    <2> QED
      BY <1>1, <1>3, <1>5, <2>1, <2>3, LocalStepPreserves DEF Goto
  <1>6. CASE Goto(c, "post") /\ requests[calls[c].req].status = "approved"
    <2>1. PICK k \in CallState : k = [calls[c] EXCEPT !.pc = "post"]
      BY GotoTyped DEF PC
    <2>2. k.pc = "post" /\ k.req = calls[c].req
      BY <1>2, <2>1 DEF CallState
    <2>3. Enough(k.req)
      BY <1>2, <1>6, <2>2 DEF IInv, RowsOK, RowOK
    <2>4. CallOK(k)'
      BY <1>1, <1>2, <2>2, <2>3 DEF CallOK, Enough, Exists, Approvers
    <2> QED
      BY <1>1, <1>3, <1>6, <2>1, <2>4, LocalStepPreserves DEF Goto
  <1> QED
    BY <1>4, <1>5, <1>6 DEF EnsureOperationApproval

\* Writing a status changes that field of that row and no other.
LEMMA StatusWritten ==
  ASSUME IInv, NEW r \in Request, NEW s \in Status,
         requests' = [requests EXCEPT ![r].status = s]
  PROVE  /\ requests' \in [Request -> Row]
         /\ \A q \in Request \ {r} : requests'[q] = requests[q]
         /\ requests'[r] = [requests[r] EXCEPT !.status = s]
         /\ requests'[r].status = s
         /\ \A f \in {"op", "maker", "required", "checkers", "approved"} :
               requests'[r][f] = requests[r][f]
  <1> DEFINE row == [requests[r] EXCEPT !.status = s]
  <1>1. requests[r] \in Row
    BY DEF IInv, TypeOK
  <1>2. /\ row \in Row /\ row.status = s
        /\ \A f \in {"op", "maker", "required", "checkers", "approved"} : row[f] = requests[r][f]
    BY <1>1 DEF Row
  <1>3. requests' = [requests EXCEPT ![r] = row]
    OBVIOUS
  <1> HIDE DEF row
  <1>4. requests' \in [Request -> Row] /\ requests'[r] = row
    BY <1>2, <1>3 DEF IInv, TypeOK
  <1>5. \A q \in Request \ {r} : requests'[q] = requests[q]
    BY <1>3 DEF IInv, TypeOK
  <1> QED
    BY <1>2, <1>4, <1>5 DEF row

LEMMA StatusGrows ==
  ASSUME IInv, NEW r \in Request, NEW s \in Status, Exists(r), s # "absent",
         requests' = [requests EXCEPT ![r].status = s],
         UNCHANGED <<decisions, postings>>
  PROVE  Grows
  <1>1. /\ \A q \in Request \ {r} : requests'[q] = requests[q]
        /\ requests'[r].status = s
        /\ \A f \in {"op", "maker", "required", "checkers"} : requests'[r][f] = requests[r][f]
    BY StatusWritten
  <1>2. \A q \in Request : postings'[q] >= postings[q]
    BY DEF IInv, TypeOK
  <1> QED
    BY <1>1, <1>2 DEF Grows, Exists

LEMMA ExpireRequestPreserves ==
  ASSUME IInv, NEW c \in Call, ExpireRequest(c)
  PROVE  IInv'
  <1> DEFINE r == calls[c].req
  <1>1. r \in Request /\ Exists(r)
    BY CallTyped DEF ExpireRequest, CallOK
  <1>2. TypeOK'
    <2>1. calls' \in [Call -> CallState]
      BY IdleOK DEF ExpireRequest, Return, IInv, TypeOK
    <2>2. requests' \in [Request -> Row]
      BY <1>1, StatusWritten DEF ExpireRequest, IInv, TypeOK, Status
    <2> QED
      BY <2>1, <2>2 DEF ExpireRequest, IInv, TypeOK
  <1>3. /\ UNCHANGED <<decisions, postings>>
        /\ \/ requests' = requests
           \/ /\ requests[r].status = "approved"
              /\ requests' = [requests EXCEPT ![r].status = "expired"]
    BY DEF ExpireRequest
  <1>4. Grows
    <2>1. CASE requests' = requests
      BY <1>3, <2>1 DEF Grows, Exists, IInv, TypeOK
    <2>2. CASE requests' = [requests EXCEPT ![r].status = "expired"]
      BY <1>1, <1>3, <2>2, StatusGrows DEF Status
    <2> QED
      BY <1>3, <2>1, <2>2
  <1>5. ASSUME NEW q \in Request PROVE RowOK(q)'
    <2>1. CASE requests'[q] = requests[q]
      BY <1>2, <1>3, <1>4, <2>1, RowKept
    <2>2. CASE q = r /\ requests[r].status = "approved" /\ requests'[r].status = "expired"
      <3>1. Enough(q)
        BY <2>2 DEF IInv, RowsOK, RowOK
      <3> QED
        BY <1>1, <1>2, <1>3, <1>4, <2>2, <3>1, RowMarked
    <2> QED
      BY <1>1, <1>3, <2>1, <2>2 DEF IInv, TypeOK, Row
  <1> QED
    BY <1>2, <1>4, <1>5, IdleOK, StepPreserves DEF ExpireRequest, Return

LEMMA PostPreserves ==
  ASSUME IInv, NEW c \in Call, Post(c)
  PROVE  IInv'
  <1>1. PICK k \in CallState : k = [calls[c] EXCEPT !.pc = "mark"]
    BY GotoTyped DEF PC
  <1>2. calls[c] \in CallState /\ CallOK(calls[c]) /\ k.pc = "mark" /\ k.req = calls[c].req
    BY <1>1, CallTyped DEF CallState
  <1>3. /\ calls' = [calls EXCEPT ![c] = k]
        /\ UNCHANGED <<policy, requests, decisions, steps, overdue, disturbed>>
        /\ \/ k.req = NoRequest /\ postings' = postings
           \/ k.req # NoRequest /\ postings' = [postings EXCEPT ![k.req] = @ + 1]
    BY <1>1, <1>2 DEF Post, Goto
  <1>4. k.req # NoRequest => k.req \in Request /\ Enough(k.req)
    BY <1>2 DEF Post, CallOK
  <1>5. TypeOK'
    BY <1>3, <1>4 DEF IInv, TypeOK
  <1>6. Grows
    BY <1>3, <1>4 DEF Grows, Exists, IInv, TypeOK
  <1>7. \A r \in Request : Enough(r)' <=> Enough(r)
    BY <1>3 DEF Enough, Exists, Approvers
  <1>8. CallOK(k)'
    BY <1>2, <1>3, <1>4, <1>7 DEF CallOK, IInv, TypeOK
  <1>9. ASSUME NEW r \in Request PROVE RowOK(r)'
    <2>1. CASE postings'[r] = postings[r]
      BY <1>3, <1>5, <1>6, <2>1, RowKept
    <2>2. CASE r = k.req /\ k.req # NoRequest /\ postings'[r] = postings[r] + 1
      <3>1. RowOK(r) /\ Enough(r) /\ Enough(r)'
        BY <1>4, <1>7, <2>2 DEF IInv, RowsOK
      <3>2. postings[r] \in Nat
        BY DEF IInv, TypeOK
      <3> QED
        BY <1>3, <2>2, <3>1, <3>2 DEF RowOK, Exists, Allowed, Enough
    <2> QED
      BY <1>3, <1>4, <2>1, <2>2 DEF IInv, TypeOK
  <1> QED
    BY <1>3, <1>5, <1>6, <1>8, <1>9, StepPreserves

LEMMA MarkApprovalRequestExecutedPreserves ==
  ASSUME IInv, NEW c \in Call, MarkApprovalRequestExecuted(c)
  PROVE  IInv'
  <1> DEFINE r == calls[c].req
  <1>1. r # NoRequest => r \in Request /\ Enough(r) /\ Exists(r) /\ postings[r] > 0
    BY CallTyped DEF MarkApprovalRequestExecuted, CallOK, Enough
  <1>2. /\ UNCHANGED <<decisions, postings>>
        /\ \/ requests' = requests
           \/ /\ r # NoRequest
              /\ requests' = [requests EXCEPT ![r].status = "executed"]
    BY DEF MarkApprovalRequestExecuted
  <1>3. TypeOK'
    <2>1. calls' \in [Call -> CallState]
      BY IdleOK DEF MarkApprovalRequestExecuted, Return, IInv, TypeOK
    <2>2. requests' \in [Request -> Row]
      BY <1>1, <1>2, StatusWritten DEF IInv, TypeOK, Status
    <2> QED
      BY <2>1, <2>2 DEF MarkApprovalRequestExecuted, IInv, TypeOK
  <1>4. Grows
    <2>1. CASE requests' = requests
      BY <1>2, <2>1 DEF Grows, Exists, IInv, TypeOK
    <2>2. CASE r # NoRequest /\ requests' = [requests EXCEPT ![r].status = "executed"]
      BY <1>1, <1>2, <2>2, StatusGrows DEF Status
    <2> QED
      BY <1>2, <2>1, <2>2
  <1>5. ASSUME NEW q \in Request PROVE RowOK(q)'
    <2>1. CASE requests'[q] = requests[q]
      BY <1>2, <1>3, <1>4, <2>1, RowKept
    <2>2. CASE q = r /\ r # NoRequest
      BY <1>1, <1>2, <1>3, <1>4, <2>2, RowMarked
    <2> QED
      BY <1>1, <1>2, <2>1, <2>2 DEF IInv, TypeOK, Row
  <1> QED
    BY <1>3, <1>4, <1>5, IdleOK, StepPreserves DEF MarkApprovalRequestExecuted, Return

LEMMA DecideRequestPreserves ==
  ASSUME IInv, NEW c \in Call, NEW u \in User, NEW r \in Request, NEW v \in Verdict,
         DecideRequest(c, u, r, v)
  PROVE  IInv'
  <1> DEFINE k == [Idle EXCEPT !.pc = "insert", !.user = u, !.req = r, !.verdict = v]
  <1>1. k \in CallState
    BY DEF Idle, CallState, PC
  <1>2. /\ calls' = [calls EXCEPT ![c] = k]
        /\ UNCHANGED <<policy, requests, decisions, steps, overdue, postings>>
        /\ Exists(r) /\ Allowed(r, u)
    BY DEF DecideRequest, Exists, Allowed
  <1>3. disturbed' \subseteq Request
    BY OverlapTyped DEF DecideRequest
  <1>4. CallOK(k)'
    BY <1>2 DEF CallOK, Idle, Exists, Allowed
  <1> QED
    BY <1>1, <1>2, <1>3, <1>4, LocalStepPreserves

\* The insert adds a decision to a pair that had none.
LEMMA InsertDecisionGrows ==
  ASSUME IInv, NEW r \in Request, NEW u \in User, NEW v \in Verdict,
         decisions[r][u] = "none",
         decisions' = [decisions EXCEPT ![r][u] = v],
         UNCHANGED <<requests, postings>>
  PROVE  /\ decisions' \in [Request -> [User -> Verdict \cup {"none"}]]
         /\ \A q \in Request, w \in User :
               ~(q = r /\ w = u) => decisions'[q][w] = decisions[q][w]
         /\ Grows
  <1>1. decisions[r] \in [User -> Verdict \cup {"none"}]
    BY DEF IInv, TypeOK
  <1>2. decisions' = [decisions EXCEPT ![r] = [decisions[r] EXCEPT ![u] = v]]
    OBVIOUS
  <1>3. decisions' \in [Request -> [User -> Verdict \cup {"none"}]]
    BY <1>1, <1>2 DEF IInv, TypeOK
  <1>4. \A q \in Request, w \in User :
           ~(q = r /\ w = u) => decisions'[q][w] = decisions[q][w]
    BY <1>1, <1>2 DEF IInv, TypeOK
  <1>5. Grows
    BY <1>4 DEF Grows, Exists, IInv, TypeOK
  <1> QED
    BY <1>3, <1>4, <1>5

LEMMA InsertDecisionPreserves ==
  ASSUME IInv, NEW c \in Call, InsertDecision(c)
  PROVE  IInv'
  <1> DEFINE r == calls[c].req
             u == calls[c].user
             v == calls[c].verdict
  <1>1. /\ r \in Request /\ Exists(r) /\ u \in User /\ v \in Verdict /\ Allowed(r, u)
        /\ calls[c] \in CallState
    BY CallTyped DEF InsertDecision, CallOK
  <1>2. CASE UNCHANGED decisions /\ Return(c)
    <2>1. /\ UNCHANGED <<policy, requests, decisions, steps, overdue, postings>>
          /\ disturbed' \subseteq Request
      BY <1>2 DEF InsertDecision, IInv, TypeOK
    <2> QED
      BY <1>2, <2>1, IdleOK, LocalStepPreserves DEF Return
  <1>3. CASE /\ decisions[r][u] = "none"
             /\ decisions' = [decisions EXCEPT ![r][u] = v]
             /\ Goto(c, IF v = "approved" THEN "count" ELSE "update")
    <2>1. UNCHANGED <<policy, requests, steps, overdue, postings, disturbed>>
      BY DEF InsertDecision
    <2>2. PICK k \in CallState :
             k = [calls[c] EXCEPT !.pc = IF v = "approved" THEN "count" ELSE "update"]
      BY GotoTyped DEF PC
    <2>3. /\ k.pc \in {"count", "update"} /\ k.req = r /\ k.user = u /\ k.verdict = v
          /\ k.pc = "update" => v # "approved"
      BY <1>1, <2>2 DEF CallState
    <2>4. calls' = [calls EXCEPT ![c] = k]
      BY <1>3, <2>2 DEF Goto
    <2>5. /\ decisions' \in [Request -> [User -> Verdict \cup {"none"}]]
          /\ \A q \in Request, w \in User :
                ~(q = r /\ w = u) => decisions'[q][w] = decisions[q][w]
          /\ Grows
      BY <1>1, <1>3, <2>1, InsertDecisionGrows
    <2>6. TypeOK'
      BY <2>1, <2>4, <2>5 DEF IInv, TypeOK
    <2>7. CallOK(k)'
      BY <1>1, <2>1, <2>3 DEF CallOK, Exists
    <2>8. ASSUME NEW q \in Request PROVE RowOK(q)'
      <3>1. RowOK(q) /\ requests' = requests /\ postings' = postings
        BY <2>1 DEF IInv, RowsOK
      <3>2. Enough(q) => Enough(q)'
        BY <2>5, <2>6, EnoughStable DEF IInv
      <3>3. ASSUME NEW w \in User, decisions'[q][w] # "none"
            PROVE  Exists(q) /\ Allowed(q, w)
        BY <1>1, <2>5, <3>1, <3>3 DEF RowOK
      <3> QED
        BY <3>1, <3>2, <3>3 DEF RowOK, Exists, Allowed
    <2> QED
      BY <2>4, <2>5, <2>6, <2>7, <2>8, StepPreserves
  <1> QED
    BY <1>2, <1>3 DEF InsertDecision

LEMMA CountApprovalsPreserves ==
  ASSUME IInv, NEW c \in Call, CountApprovals(c)
  PROVE  IInv'
  <1> DEFINE r == calls[c].req
  <1>1. /\ calls[c] \in CallState /\ r \in Request /\ Exists(r)
        /\ calls[c].user \in User /\ calls[c].verdict \in Verdict
    BY CallTyped DEF CountApprovals, CallOK
  <1>2. Cardinality(Approvers(r)) \in Nat
    BY <1>1, ApproversFinite
  <1>3. PICK k \in CallState :
           k = [calls[c] EXCEPT !.pc = "update", !.count = Cardinality(Approvers(r))]
    BY <1>1, <1>2 DEF CallState, PC
  <1>4. /\ k.pc = "update" /\ k.count = Cardinality(Approvers(r))
        /\ k.req = r /\ k.user \in User /\ k.verdict \in Verdict
    BY <1>1, <1>3 DEF CallState
  <1>5. /\ calls' = [calls EXCEPT ![c] = k]
        /\ UNCHANGED <<policy, requests, decisions, steps, overdue, postings, disturbed>>
    BY <1>3 DEF CountApprovals
  <1>6. CallOK(k)'
    BY <1>1, <1>2, <1>4, <1>5 DEF CallOK, Exists, Approvers
  <1>7. disturbed' \subseteq Request
    BY <1>5 DEF IInv, TypeOK
  <1> QED
    BY <1>5, <1>6, <1>7, LocalStepPreserves

LEMMA UpdateRequestPreserves ==
  ASSUME IInv, NEW c \in Call, UpdateRequest(c)
  PROVE  IInv'
  <1> DEFINE r == calls[c].req
             row == Decided(requests[r], calls[c])
  <1>1. /\ calls[c] \in CallState /\ CallOK(calls[c]) /\ calls[c].pc = "update"
        /\ r \in Request /\ Exists(r)
        /\ calls[c].user \in User /\ calls[c].verdict \in Verdict
    BY CallTyped DEF UpdateRequest, CallOK
  <1>2. requests[r] \in Row /\ calls[c].count \in Nat
    BY <1>1 DEF IInv, TypeOK, CallState
  <1>3. /\ row \in Row
        /\ row.op = requests[r].op /\ row.maker = requests[r].maker
        /\ row.required = requests[r].required /\ row.checkers = requests[r].checkers
        /\ row.status \in {"rejected", "pending", "approved"}
        /\ row.status = "approved" =>
              calls[c].verdict = "approved" /\ calls[c].count >= requests[r].required
    BY <1>1, <1>2 DEF Decided, Row, Status, Verdict
  <1>4. requests' = [requests EXCEPT ![r] = row]
    BY DEF UpdateRequest
  <1>5. UNCHANGED <<policy, decisions, steps, overdue, postings, disturbed>>
    BY DEF UpdateRequest
  <1>6. row.status = "approved" => Enough(r)
    <2>1. calls[c].verdict = "approved" => calls[c].count <= Cardinality(Approvers(r))
      BY <1>1 DEF CallOK
    <2>2. Cardinality(Approvers(r)) \in Nat /\ requests[r].required \in Nat
      BY <1>1, <1>2, ApproversFinite DEF Row
    <2> QED
      BY <1>1, <1>2, <1>3, <2>1, <2>2 DEF Enough
  <1> HIDE DEF row
  <1>7. requests' \in [Request -> Row] /\ requests'[r] = row
    BY <1>1, <1>3, <1>4 DEF IInv, TypeOK
  <1>8. row.approved \in Nat
    BY <1>3 DEF Row
  <1>9. PICK k \in CallState : k = [calls[c] EXCEPT !.pc = "step", !.count = row.approved]
    BY <1>1, <1>8 DEF CallState, PC
  <1>10. k.pc = "step" /\ k.req = r /\ k.user \in User /\ k.verdict \in Verdict
    BY <1>1, <1>9 DEF CallState
  <1>11. calls' = [calls EXCEPT ![c] = k]
    <2>1. calls' = [calls EXCEPT ![c] = [calls[c] EXCEPT !.pc = "step",
                                                        !.count = requests'[r].approved]]
      BY <1>1 DEF UpdateRequest, IInv, TypeOK, CallState
    <2> QED
      BY <1>7, <1>9, <2>1
  <1>12. TypeOK'
    BY <1>5, <1>7, <1>11 DEF IInv, TypeOK
  <1>13. Grows
    BY <1>1, <1>3, <1>4, <1>5, <1>7 DEF Grows, Exists, IInv, TypeOK
  <1>14. CallOK(k)'
    BY <1>1, <1>3, <1>7, <1>10 DEF CallOK, Exists
  <1>15. ASSUME NEW q \in Request PROVE RowOK(q)'
    <2>1. CASE q = r
      BY <1>1, <1>3, <1>5, <1>6, <1>7, <1>12, <1>13, <2>1, RowMarked
    <2>2. CASE q # r
      BY <1>4, <1>5, <1>12, <1>13, <2>2, RowKept DEF IInv, TypeOK
    <2> QED
      BY <2>1, <2>2
  <1> QED
    BY <1>11, <1>12, <1>13, <1>14, <1>15, StepPreserves

LEMMA UpdateStepPreserves ==
  ASSUME IInv, NEW c \in Call, UpdateStep(c)
  PROVE  IInv'
  <1>1. calls[c].req \in Request /\ calls[c].verdict \in Verdict
    BY CallTyped DEF UpdateStep, CallOK
  <1>2. TypeOK'
    <2>1. calls' \in [Call -> CallState]
      BY IdleOK DEF UpdateStep, Return, IInv, TypeOK
    <2>2. steps' \in [Request -> [1..MaxRequired -> StepStatus]]
      BY <1>1 DEF UpdateStep, IInv, TypeOK, StepStatus, Verdict
    <2> QED
      BY <2>1, <2>2 DEF UpdateStep, IInv, TypeOK
  <1>3. Grows
    BY DEF Grows, Exists, UpdateStep, IInv, TypeOK
  <1>4. \A r \in Request : RowOK(r)'
    BY <1>2, <1>3, RowKept DEF UpdateStep
  <1> QED
    BY <1>2, <1>3, <1>4, IdleOK, StepPreserves DEF UpdateStep, Return

LEMMA UpdateApprovalPolicyPreserves ==
  ASSUME IInv, NEW c \in Call, NEW o \in Operation, NEW patch \in PolicyPatch,
         UpdateApprovalPolicy(c, o, patch)
  PROVE  IInv'
  <1>1. Patched(policy[o], patch) \in Policy
    BY PatchAssumption DEF IInv, TypeOK, UpdateApprovalPolicy, BodyOk
  <1>2. PICK d \in Policy : d = Patched(policy[o], patch)
    BY <1>1
  <1> DEFINE k == [Idle EXCEPT !.pc = "upsert", !.op = o, !.next = d]
  <1>3. k \in CallState
    BY DEF Idle, CallState, PC
  <1>4. /\ calls' = [calls EXCEPT ![c] = k]
        /\ UNCHANGED <<policy, requests, decisions, steps, overdue, postings, disturbed>>
    BY <1>2 DEF UpdateApprovalPolicy
  <1>5. CallOK(k)'
    BY DEF CallOK, Idle
  <1>6. disturbed' \subseteq Request
    BY <1>4 DEF IInv, TypeOK
  <1> QED
    BY <1>3, <1>4, <1>5, <1>6, LocalStepPreserves

LEMMA UpsertPolicyPreserves ==
  ASSUME IInv, NEW c \in Call, UpsertPolicy(c)
  PROVE  IInv'
  <1>1. calls[c].op \in Operation /\ calls[c].next \in Policy
    BY CallTyped DEF UpsertPolicy, CallOK
  <1>2. TypeOK'
    <2>1. calls' \in [Call -> CallState]
      BY IdleOK DEF UpsertPolicy, Return, IInv, TypeOK
    <2>2. policy' \in [Operation -> Policy]
      BY <1>1 DEF UpsertPolicy, IInv, TypeOK
    <2> QED
      BY <2>1, <2>2 DEF UpsertPolicy, IInv, TypeOK
  <1>3. Grows
    BY DEF Grows, Exists, UpsertPolicy, IInv, TypeOK
  <1>4. \A r \in Request : RowOK(r)'
    BY <1>2, <1>3, RowKept DEF UpsertPolicy
  <1> QED
    BY <1>2, <1>3, <1>4, IdleOK, StepPreserves DEF UpsertPolicy, Return

LEMMA AbortPreserves ==
  ASSUME IInv, NEW c \in Call, Abort(c)
  PROVE  IInv'
  <1>1. disturbed' \subseteq Request
    BY DEF Abort, IInv, TypeOK
  <1> QED
    BY <1>1, IdleOK, LocalStepPreserves DEF Abort, Return

\* Steps that leave the handlers alone.
LEMMA QuietPreserves ==
  ASSUME IInv, UNCHANGED <<policy, requests, decisions, steps, postings, calls, disturbed>>,
         overdue' \subseteq Request
  PROVE  IInv'
  <1>1. TypeOK'
    BY DEF IInv, TypeOK
  <1>2. Grows
    BY DEF Grows, Exists, IInv, TypeOK
  <1>3. \A r \in Request : RowOK(r)'
    BY <1>1, <1>2, RowKept
  <1>4. CallsOK'
    BY DEF IInv, CallsOK, CallOK, Exists, Enough, Allowed, Approvers
  <1> QED
    BY <1>1, <1>3, <1>4 DEF IInv, RowsOK

LEMMA NextPreserves ==
  ASSUME IInv, [Next]_vars
  PROVE  IInv'
  <1>1. ASSUME NEW c \in Call, NEW u \in User, NEW o \in Operation,
               NEW amount \in Amount, NEW r \in Request \cup {NoRequest},
               Withdraw(c, u, o, amount, r)
        PROVE  IInv'
    BY <1>1, WithdrawPreserves
  <1>2. ASSUME NEW c \in Call, NEW u \in User, NEW r \in Request, NEW v \in Verdict,
               DecideRequest(c, u, r, v)
        PROVE  IInv'
    BY <1>2, DecideRequestPreserves
  <1>3. ASSUME NEW c \in Call, NEW o \in Operation, NEW patch \in PolicyPatch,
               UpdateApprovalPolicy(c, o, patch)
        PROVE  IInv'
    BY <1>3, UpdateApprovalPolicyPreserves
  <1>4. ASSUME NEW c \in Call, NEW r \in Request, CreateApprovalRequest(c, r)
        PROVE  IInv'
    BY <1>4, CreateApprovalRequestPreserves
  <1>5. ASSUME NEW c \in Call,
               \/ InsertSteps(c) \/ EnsureOperationApproval(c) \/ ExpireRequest(c)
               \/ Post(c) \/ MarkApprovalRequestExecuted(c)
        PROVE  IInv'
    BY <1>5, InsertStepsPreserves, EnsureOperationApprovalPreserves, ExpireRequestPreserves,
       PostPreserves, MarkApprovalRequestExecutedPreserves
  <1>6. ASSUME NEW c \in Call,
               \/ InsertDecision(c) \/ CountApprovals(c) \/ UpdateRequest(c)
               \/ UpdateStep(c) \/ UpsertPolicy(c) \/ Abort(c)
        PROVE  IInv'
    BY <1>6, InsertDecisionPreserves, CountApprovalsPreserves, UpdateRequestPreserves,
       UpdateStepPreserves, UpsertPolicyPreserves, AbortPreserves
  <1>7. ASSUME NEW r \in Request, PassDeadline(r)
        PROVE  IInv'
    BY <1>7, QuietPreserves DEF PassDeadline, IInv, TypeOK
  <1>8. CASE UNCHANGED vars
    BY <1>8, QuietPreserves DEF vars, IInv, TypeOK
  <1> QED
    BY <1>1, <1>2, <1>3, <1>4, <1>5, <1>6, <1>7, <1>8 DEF Next

LEMMA InitIInv == Init => IInv
  <1> SUFFICES ASSUME Init PROVE IInv
    OBVIOUS
  <1>1. NoRow \in Row
    BY ConstantAssumption DEF NoRow, Row, Status
  <1>2. TypeOK
    BY <1>1, IdleOK, ConstantAssumption DEF Init, TypeOK, StepStatus
  <1>3. CallsOK
    BY DEF Init, CallsOK, CallOK, Idle
  <1>4. RowsOK
    BY DEF Init, RowsOK, RowOK, Exists, NoRow
  <1> QED
    BY <1>2, <1>3, <1>4 DEF IInv

LEMMA Invariance == Spec => []IInv
  BY InitIInv, NextPreserves, PTL DEF Spec

(***************************************************************************)
(* The theorems.                                                            *)
(***************************************************************************)

\* Every table row and every handler's locals stay well typed.
THEOREM TypeCorrect == Spec => []TypeOK
  BY Invariance, PTL DEF IInv

LEMMA EnoughIsQuorum ==
  ASSUME IInv, NEW r \in Request, Enough(r)
  PROVE  Quorum(r)
  <1>1. \A u \in Approvers(r) : Allowed(r, u)
    BY DEF IInv, RowsOK, RowOK, Approvers
  <1> QED
    BY <1>1 DEF Enough, Quorum, Allowed

\* However the checkers' reads, counts and unguarded updates interleave, a request
\* that is or was approved has its quorum of other, allowed users on record.
THEOREM ApprovalQuorum == Spec => []ApprovalNeedsQuorum
  <1>1. IInv => ApprovalNeedsQuorum
    BY EnoughIsQuorum DEF IInv, RowsOK, RowOK, ApprovalNeedsQuorum
  <1> QED
    BY <1>1, Invariance, PTL

\* No journal is posted on the strength of a request without that quorum, although
\* the gate's read of the row and the posting are separate statements.
THEOREM PostingQuorum == Spec => []PostingNeedsQuorum
  <1>1. IInv => PostingNeedsQuorum
    BY EnoughIsQuorum DEF IInv, RowsOK, RowOK, PostingNeedsQuorum
  <1> QED
    BY <1>1, Invariance, PTL

\* A request marked executed has a posted journal.
THEOREM ExecutedPosted == Spec => []ExecutedWasPosted
  <1>1. IInv => ExecutedWasPosted
    BY DEF IInv, RowsOK, RowOK, ExecutedWasPosted
  <1> QED
    BY <1>1, Invariance, PTL

(***************************************************************************)
(* The second invariant: the tables of a request whose handlers did not     *)
(* overlap.  One handler works on it at a time, so the statement that       *)
(* handler is about to issue tells which writes of its decision are still   *)
(* to come, and the tables agree on all the others.                         *)
(***************************************************************************)
Recorded(r) == Cardinality(Approvers(r))

StepsShow(r, k) ==
    \A i \in 1..requests[r].required :
       steps[r][i] = IF i <= k THEN "approved" ELSE "pending"

\* What SerialOutcome asks of a request that no handler is working on.
Settled(r) ==
    /\ requests[r].status = "rejected" <=> Rejecters(r) # {}
    /\ requests[r].status = "pending" <=>
          Rejecters(r) = {} /\ Recorded(r) < requests[r].required
    /\ requests[r].approved = Recorded(r)
    /\ postings[r] = IF requests[r].status = "executed" THEN 1 ELSE 0
    /\ \A i \in 1..requests[r].required :
          steps[r][i] = IF i <= Recorded(r) THEN "approved"
                        ELSE IF i = Recorded(r) + 1 /\ Rejecters(r) # {} THEN "rejected"
                        ELSE "pending"

\* An approval is on record whose step is not marked yet.
Approving(r) ==
    /\ Recorded(r) \in 1..requests[r].required /\ Rejecters(r) = {}
    /\ postings[r] = 0 /\ StepsShow(r, Recorded(r) - 1)

\* The rejection of u is on record, its step is not marked yet.
Rejecting(r, u) ==
    /\ Recorded(r) < requests[r].required /\ Rejecters(r) = {u}
    /\ requests[r].approved = Recorded(r)
    /\ postings[r] = 0 /\ StepsShow(r, Recorded(r))

\* The tables when the handler with record k is about to issue its statement.
UnderWay(r, k) ==
    /\ k.pc \in {"gate", "expire"} => Settled(r)
    /\ k.pc = "post" => Settled(r) /\ requests[r].status = "approved"
    /\ k.pc = "insert" => Settled(r) /\ requests[r].status = "pending"
    /\ k.pc = "mark" =>
          /\ requests[r].status = "approved" /\ requests[r].approved = Recorded(r)
          /\ Recorded(r) >= requests[r].required /\ Rejecters(r) = {}
          /\ postings[r] = 1 /\ StepsShow(r, Recorded(r))
    /\ k.pc = "steps" =>
          /\ requests[r].status = "pending" /\ requests[r].approved = 0
          /\ Recorded(r) = 0 /\ Rejecters(r) = {} /\ postings[r] = 0
    /\ k.pc = "count" => k.verdict = "approved"
    /\ k.pc \in {"count", "update"} => requests[r].status = "pending"
    /\ k.pc \in {"count", "update", "step"} /\ k.verdict = "approved" => Approving(r)
    /\ k.pc \in {"update", "step"} /\ k.verdict = "rejected" => Rejecting(r, k.user)
    /\ k.pc = "update" /\ k.verdict = "approved" => k.count = Recorded(r)
    /\ k.pc = "step" => k.count = Recorded(r) /\ requests[r].approved = Recorded(r)
    /\ k.pc = "step" /\ k.verdict = "approved" =>
          requests[r].status = IF Recorded(r) = requests[r].required
                               THEN "approved" ELSE "pending"
    /\ k.pc = "step" /\ k.verdict = "rejected" => requests[r].status = "rejected"

RowSerial(r) ==
    /\ \A c, d \in Working(r) : c = d
    /\ \A c \in Working(r) : UnderWay(r, calls[c])
    /\ Exists(r) /\ Working(r) = {} => Settled(r)

\* A handler with no request at hand is not counted as working on one.
Free == {"idle", "create", "upsert"}
FreeCalls == \A c \in Call : calls[c].pc \in Free => calls[c].req = NoRequest

SerialOK == FreeCalls /\ \A r \in Request \ disturbed : RowSerial(r)

(***************************************************************************)
(* Lemmas about rows and their workers.                                     *)
(***************************************************************************)
LEMMA RowTyped ==
  ASSUME IInv, NEW r \in Request
  PROVE  /\ requests[r] \in Row /\ requests[r].required \in 1..MaxRequired
         /\ requests[r].required \in Nat \ {0}
         /\ requests[r].approved \in Nat /\ requests[r].status \in Status
         /\ Recorded(r) \in Nat /\ postings[r] \in Nat
         /\ IsFiniteSet(Approvers(r))
  <1>1. requests[r] \in Row /\ postings[r] \in Nat
    BY DEF IInv, TypeOK
  <1>2. /\ requests[r].required \in 1..MaxRequired /\ requests[r].approved \in Nat
        /\ requests[r].status \in Status
    BY <1>1 DEF Row
  <1>3. requests[r].required \in Nat \ {0}
    BY <1>2, ConstantAssumption
  <1> QED
    BY <1>1, <1>2, <1>3, ApproversFinite DEF Recorded

\* A handler on an undisturbed request is the only one there.
LEMMA OnlyWorker ==
  ASSUME IInv, SerialOK, NEW c \in Call, calls[c].req \in Request \ disturbed
  PROVE  Working(calls[c].req) = {c} /\ UnderWay(calls[c].req, calls[c])
  <1>1. RowSerial(calls[c].req) /\ c \in Working(calls[c].req)
    BY DEF SerialOK, Working
  <1> QED
    BY <1>1 DEF RowSerial

\* A request nobody created has no worker.
LEMMA WorkerNeedsRow ==
  ASSUME IInv, SerialOK, NEW r \in Request, ~Exists(r)
  PROVE  Working(r) = {}
  <1> SUFFICES ASSUME NEW c \in Call, calls[c].req = r PROVE FALSE
    BY DEF Working
  <1>1. calls[c] \in CallState /\ CallOK(calls[c])
    BY CallTyped
  <1>2. calls[c].pc \in PC \ Free
    BY <1>1, ConstantAssumption DEF SerialOK, FreeCalls, CallState
  <1> QED
    BY <1>1, <1>2, ConstantAssumption DEF CallOK, PC, Free, Enough

\* What does not touch the four tables of a row changes none of its predicates.
LEMMA TablesKept ==
  ASSUME NEW r \in Request,
         requests'[r] = requests[r], decisions'[r] = decisions[r],
         steps'[r] = steps[r], postings'[r] = postings[r]
  PROVE  /\ Settled(r)' <=> Settled(r)
         /\ \A k : UnderWay(r, k)' <=> UnderWay(r, k)
  <1>1. Approvers(r)' = Approvers(r) /\ Rejecters(r)' = Rejecters(r)
    BY DEF Approvers, Rejecters
  <1>2. Recorded(r)' = Recorded(r)
    BY <1>1 DEF Recorded
  <1>3. \A j : StepsShow(r, j)' <=> StepsShow(r, j)
    BY DEF StepsShow
  <1>4. Settled(r)' <=> Settled(r)
    BY <1>1, <1>2 DEF Settled
  <1>5. Approving(r)' <=> Approving(r)
    BY <1>1, <1>2, <1>3 DEF Approving
  <1>6. \A u : Rejecting(r, u)' <=> Rejecting(r, u)
    BY <1>1, <1>2, <1>3 DEF Rejecting
  <1>7. ASSUME NEW k PROVE UnderWay(r, k)' <=> UnderWay(r, k)
    BY <1>1, <1>2, <1>3, <1>4, <1>5, <1>6 DEF UnderWay
  <1> QED
    BY <1>4, <1>7

\* A row whose tables and workers are left alone keeps its invariant.
LEMMA RowSerialKept ==
  ASSUME NEW r \in Request, RowSerial(r),
         requests'[r] = requests[r], decisions'[r] = decisions[r],
         steps'[r] = steps[r], postings'[r] = postings[r],
         \A d \in Call : calls[d].req = r \/ calls'[d].req = r => calls'[d] = calls[d]
  PROVE  RowSerial(r)'
  <1>1. Working(r)' = Working(r)
    BY DEF Working
  <1>2. \A d \in Working(r) : calls'[d] = calls[d]
    BY DEF Working
  <1>3. \A d \in Working(r) : UnderWay(r, calls[d])
    BY DEF RowSerial
  <1>4. \A d \in Working(r) : UnderWay(r, calls[d])'
    <2> SUFFICES ASSUME NEW d \in Working(r) PROVE UnderWay(r, calls[d])'
      OBVIOUS
    <2>1. PICK k : k = calls[d]
      OBVIOUS
    <2>2. UnderWay(r, k)' /\ k = calls'[d]
      BY <1>2, <1>3, <2>1, TablesKept
    <2> QED
      BY <2>2 DEF UnderWay
  <1>5. Settled(r)' <=> Settled(r)
    BY TablesKept
  <1> QED
    BY <1>1, <1>4, <1>5 DEF RowSerial, Exists

\* The only worker moves on, arrives or leaves.
LEMMA RowSerialMoved ==
  ASSUME IInv, NEW c \in Call, NEW k, calls' = [calls EXCEPT ![c] = k],
         NEW r \in Request, Working(r) \subseteq {c},
         k.req = r => UnderWay(r, k)',
         k.req # r => Settled(r)'
  PROVE  RowSerial(r)'
  <1>1. calls'[c] = k /\ \A d \in Call : d # c => calls'[d] = calls[d]
    BY DEF IInv, TypeOK
  <1>2. Working(r)' \subseteq {c} /\ (c \in Working(r)' <=> k.req = r)
    BY <1>1 DEF Working
  <1>3. k.req = r => UnderWay(r, calls[c])'
    BY <1>1 DEF UnderWay
  <1>4. ASSUME NEW d \in Working(r)' PROVE UnderWay(r, calls[d])'
    BY <1>2, <1>3, <1>4
  <1> QED
    BY <1>2, <1>4 DEF RowSerial

\* A step of one handler that touches one request, or none.
LEMMA SerialStep ==
  ASSUME IInv, SerialOK, NEW c \in Call, NEW k, calls' = [calls EXCEPT ![c] = k],
         NEW r \in Request \cup {NoRequest},
         calls[c].req \in {r, NoRequest}, k.req \in {r, NoRequest},
         k.pc \in Free => k.req = NoRequest,
         disturbed \subseteq disturbed',
         \A q \in Request : q # r => /\ requests'[q] = requests[q]
                                     /\ decisions'[q] = decisions[q]
                                     /\ steps'[q] = steps[q]
                                     /\ postings'[q] = postings[q],
         r \in Request \ disturbed' => RowSerial(r)'
  PROVE  SerialOK'
  <1>1. calls'[c] = k /\ \A d \in Call : d # c => calls'[d] = calls[d]
    BY DEF IInv, TypeOK
  <1>2. FreeCalls'
    BY <1>1 DEF SerialOK, FreeCalls
  <1>3. ASSUME NEW q \in Request \ disturbed' PROVE RowSerial(q)'
    <2>1. CASE q = r
      BY <1>3, <2>1
    <2>2. CASE q # r
      <3>1. RowSerial(q)
        BY DEF SerialOK
      <3>2. \A d \in Call : calls[d].req = q \/ calls'[d].req = q => calls'[d] = calls[d]
        BY <1>1, <2>2, ConstantAssumption
      <3> QED
        BY <2>2, <3>1, <3>2, RowSerialKept
    <2> QED
      BY <2>1, <2>2
  <1> QED
    BY <1>2, <1>3 DEF SerialOK

(***************************************************************************)
(* One lemma per action that writes a table of a request, or starts, stops  *)
(* or moves a handler on one.                                               *)
(***************************************************************************)
LEMMA IdleFields == Idle.pc = "idle" /\ Idle.req = NoRequest
  BY DEF Idle

\* A handler ends without a write, leaving a settled request behind.
LEMMA ReturnSerial ==
  ASSUME IInv, SerialOK, NEW c \in Call, Return(c),
         UNCHANGED <<requests, decisions, steps, postings>>,
         disturbed \subseteq disturbed',
         calls[c].req \in Request \ disturbed' => Settled(calls[c].req)
  PROVE  SerialOK'
  <1>1. PICK r \in Request \cup {NoRequest} : r = calls[c].req
    BY CallTyped DEF CallState
  <1>2. ASSUME r \in Request \ disturbed' PROVE RowSerial(r)'
    <2>1. Working(r) \subseteq {c}
      BY <1>1, <1>2, OnlyWorker
    <2>2. Settled(r)'
      BY <1>1, <1>2, TablesKept
    <2> QED
      BY <1>2, <2>1, <2>2, IdleFields, ConstantAssumption, RowSerialMoved DEF Return
  <1> QED
    BY <1>1, <1>2, IdleFields, SerialStep DEF Return

LEMMA WithdrawSerial ==
  ASSUME IInv, SerialOK, NEW c \in Call, NEW u \in User, NEW o \in Operation,
         NEW amount \in Amount, NEW r \in Request \cup {NoRequest},
         Withdraw(c, u, o, amount, r)
  PROVE  SerialOK'
  <1> DEFINE k(pc, q) == [Idle EXCEPT !.pc = pc, !.user = u, !.op = o, !.req = q]
  <1>1. \A pc, q : k(pc, q).pc = pc /\ k(pc, q).req = q
    BY DEF Idle
  <1>2. /\ UNCHANGED <<requests, decisions, steps, postings>>
        /\ calls[c].req = NoRequest
    BY DEF Withdraw, SerialOK, FreeCalls, Free
  <1>3. CASE \E pc : Begin(c, u, o, pc, NoRequest) /\ UNCHANGED disturbed
    <2>1. PICK pc : Begin(c, u, o, pc, NoRequest)
      BY <1>3
    <2>2. PICK j : j = k(pc, NoRequest)
      OBVIOUS
    <2>3. calls' = [calls EXCEPT ![c] = j] /\ j.req = NoRequest
      BY <1>1, <2>1, <2>2 DEF Begin
    <2> QED
      BY <1>2, <1>3, <2>3, ConstantAssumption, SerialStep
  <1>4. CASE r \in Request /\ Exists(r) /\ Begin(c, u, o, "gate", r) /\ Overlap(r)
    <2>1. PICK j : j = k("gate", r)
      OBVIOUS
    <2>2. calls' = [calls EXCEPT ![c] = j] /\ j.req = r /\ j.pc = "gate"
      BY <1>1, <1>4, <2>1 DEF Begin
    <2>3. disturbed \subseteq disturbed' /\ (r \notin disturbed' => Working(r) = {})
      BY <1>4 DEF Overlap
    <2>4. ASSUME r \notin disturbed' PROVE RowSerial(r)'
      <3>1. Settled(r) /\ Working(r) = {}
        BY <1>4, <2>3, <2>4 DEF SerialOK, RowSerial
      <3>2. UnderWay(r, j)
        BY <2>2, <3>1 DEF UnderWay
      <3>3. UnderWay(r, j)'
        BY <1>2, <1>4, <3>2, TablesKept
      <3> QED
        BY <1>4, <2>2, <3>1, <3>3, RowSerialMoved
    <2> QED
      BY <1>2, <1>4, <2>2, <2>3, <2>4, SerialStep DEF Free
  <1> QED
    BY <1>3, <1>4 DEF Withdraw, Exists

LEMMA CreateApprovalRequestSerial ==
  ASSUME IInv, SerialOK, NEW c \in Call, NEW r \in Request, CreateApprovalRequest(c, r)
  PROVE  SerialOK'
  <1>1. PICK k : k = [calls[c] EXCEPT !.pc = "steps", !.req = r]
    OBVIOUS
  <1>2. /\ calls[c] \in CallState /\ calls[c].req = NoRequest /\ calls[c].pc = "create"
        /\ ~Exists(r)
    BY CallTyped DEF CreateApprovalRequest, SerialOK, FreeCalls, Free, Exists
  <1>3. calls' = [calls EXCEPT ![c] = k] /\ k.pc = "steps" /\ k.req = r
    BY <1>1, <1>2 DEF CreateApprovalRequest, CallState
  <1>4. /\ UNCHANGED <<decisions, steps, postings, disturbed>>
        /\ \A q \in Request : q # r => requests'[q] = requests[q]
        /\ requests'[r].status = "pending" /\ requests'[r].approved = 0
    BY DEF CreateApprovalRequest, IInv, TypeOK
  <1>5. ASSUME r \notin disturbed PROVE RowSerial(r)'
    <2>1. Working(r) = {}
      BY <1>2, WorkerNeedsRow
    <2>2. postings'[r] = 0 /\ \A u \in User : decisions'[r][u] = "none"
      BY <1>2, <1>4 DEF IInv, RowsOK, RowOK
    <2>3. Approvers(r)' = {} /\ Rejecters(r)' = {}
      BY <2>2 DEF Approvers, Rejecters
    <2>4. Recorded(r)' = 0
      BY <2>3, FS_EmptySet DEF Recorded
    <2>5. UnderWay(r, k)'
      BY <1>3, <1>4, <2>2, <2>3, <2>4 DEF UnderWay
    <2> QED
      BY <1>3, <2>1, <2>5, RowSerialMoved
  <1>6. /\ disturbed \subseteq disturbed' /\ k.pc \notin Free
        /\ calls[c].req \in {r, NoRequest} /\ k.req \in {r, NoRequest}
        /\ r \in Request \cup {NoRequest}
        /\ \A q \in Request : q # r => /\ requests'[q] = requests[q]
                                       /\ decisions'[q] = decisions[q]
                                       /\ steps'[q] = steps[q]
                                       /\ postings'[q] = postings[q]
    BY <1>2, <1>3, <1>4 DEF Free
  <1>7. r \in Request \ disturbed' => RowSerial(r)'
    BY <1>4, <1>5
  <1> QED
    BY <1>3, <1>6, <1>7, SerialStep

LEMMA InsertStepsSerial ==
  ASSUME IInv, SerialOK, NEW c \in Call, InsertSteps(c)
  PROVE  SerialOK'
  <1>1. PICK r \in Request : r = calls[c].req
    BY CallTyped DEF InsertSteps, CallOK
  <1>2. /\ calls' = [calls EXCEPT ![c] = Idle]
        /\ UNCHANGED <<requests, decisions, postings, disturbed>>
        /\ \A q \in Request : q # r => steps'[q] = steps[q]
        /\ calls[c].pc = "steps"
    BY <1>1 DEF InsertSteps, Return, IInv, TypeOK
  <1>3. steps'[r] = [i \in 1..MaxRequired |->
                       IF i <= requests[r].required THEN "pending" ELSE "absent"]
    BY <1>1 DEF InsertSteps, IInv, TypeOK
  <1>4. ASSUME r \notin disturbed PROVE RowSerial(r)'
    <2>1. Working(r) \subseteq {c} /\ UnderWay(r, calls[c])
      BY <1>1, <1>4, OnlyWorker
    <2>2. /\ requests[r].status = "pending" /\ requests[r].approved = 0
          /\ Recorded(r) = 0 /\ Rejecters(r) = {} /\ postings[r] = 0
      BY <1>2, <2>1 DEF UnderWay
    <2>3. /\ Approvers(r)' = Approvers(r) /\ Rejecters(r)' = Rejecters(r)
          /\ Recorded(r)' = Recorded(r)
      BY <1>2 DEF Approvers, Rejecters, Recorded
    <2>4. requests[r].required \in Nat \ {0} /\ requests[r].required \in 1..MaxRequired
      BY RowTyped
    <2>5. \A i \in 1..requests[r].required : steps'[r][i] = "pending" /\ ~(i <= 0)
      BY <1>3, <2>4, ConstantAssumption
    <2>6. Settled(r)'
      BY <1>2, <2>2, <2>3, <2>4, <2>5 DEF Settled
    <2> QED
      BY <1>2, <2>1, <2>6, IdleFields, ConstantAssumption, RowSerialMoved
  <1> QED
    BY <1>1, <1>2, <1>4, IdleFields, SerialStep

LEMMA EnsureOperationApprovalSerial ==
  ASSUME IInv, SerialOK, NEW c \in Call, EnsureOperationApproval(c)
  PROVE  SerialOK'
  <1>1. PICK r \in Request : r = calls[c].req
    BY CallTyped DEF EnsureOperationApproval, CallOK
  <1>2. /\ UNCHANGED <<requests, decisions, steps, postings, disturbed>>
        /\ calls[c].pc = "gate"
    BY DEF EnsureOperationApproval
  <1>3. r \notin disturbed => Working(r) \subseteq {c} /\ Settled(r)
    BY <1>1, <1>2, OnlyWorker DEF UnderWay
  <1>4. CASE Return(c)
    BY <1>1, <1>2, <1>3, <1>4, ReturnSerial
  <1>5. ASSUME NEW pc \in {"expire", "post"}, Goto(c, pc),
               pc = "post" => requests[r].status = "approved"
        PROVE  SerialOK'
    <2>1. PICK k : k = [calls[c] EXCEPT !.pc = pc]
      OBVIOUS
    <2>2. calls' = [calls EXCEPT ![c] = k] /\ k.pc = pc /\ k.req = r
      BY <1>1, <1>5, <2>1, CallTyped DEF Goto, CallState
    <2>3. ASSUME r \notin disturbed PROVE RowSerial(r)'
      <3>1. UnderWay(r, k)
        BY <1>3, <1>5, <2>2, <2>3 DEF UnderWay
      <3>2. UnderWay(r, k)'
        BY <1>2, <3>1, TablesKept
      <3> QED
        BY <1>3, <2>2, <2>3, <3>2, RowSerialMoved
    <2> QED
      BY <1>1, <1>2, <1>5, <2>2, <2>3, SerialStep DEF Free
  <1> QED
    BY <1>1, <1>4, <1>5 DEF EnsureOperationApproval

LEMMA ExpireRequestSerial ==
  ASSUME IInv, SerialOK, NEW c \in Call, ExpireRequest(c)
  PROVE  SerialOK'
  <1>1. PICK r \in Request : r = calls[c].req
    BY CallTyped DEF ExpireRequest, CallOK
  <1>2. /\ calls' = [calls EXCEPT ![c] = Idle]
        /\ UNCHANGED <<decisions, steps, postings, disturbed>>
        /\ calls[c].pc = "expire"
    BY DEF ExpireRequest, Return
  <1>3. CASE requests' = requests
    <2>1. r \notin disturbed => Settled(r)
      BY <1>1, <1>2, OnlyWorker DEF UnderWay
    <2> QED
      BY <1>1, <1>2, <1>3, <2>1, ReturnSerial DEF Return
  <1>4. CASE /\ requests' = [requests EXCEPT ![r].status = "expired"]
             /\ requests[r].status = "approved"
    <2>1. "expired" \in Status
      BY DEF Status
    <2>2. /\ \A q \in Request : q # r => requests'[q] = requests[q]
          /\ requests'[r].status = "expired"
          /\ \A f \in {"op", "maker", "required", "checkers", "approved"} :
                requests'[r][f] = requests[r][f]
      BY <1>4, <2>1, StatusWritten
    <2>3. requests'[r].required = requests[r].required
          /\ requests'[r].approved = requests[r].approved
      BY <2>2
    <2>4. ASSUME r \notin disturbed PROVE RowSerial(r)'
      <3>1. Working(r) \subseteq {c} /\ Settled(r)
        BY <1>1, <1>2, <2>4, OnlyWorker DEF UnderWay
      <3>2. /\ Approvers(r)' = Approvers(r) /\ Rejecters(r)' = Rejecters(r)
            /\ Recorded(r)' = Recorded(r)
        BY <1>2 DEF Approvers, Rejecters, Recorded
      <3>3. Settled(r)'
        BY <1>2, <1>4, <2>2, <2>3, <3>1, <3>2 DEF Settled
      <3> QED
        BY <1>2, <3>1, <3>3, IdleFields, ConstantAssumption, RowSerialMoved
    <2>5. /\ disturbed \subseteq disturbed' /\ r \in Request \cup {NoRequest}
          /\ \A q \in Request : q # r => /\ requests'[q] = requests[q]
                                         /\ decisions'[q] = decisions[q]
                                         /\ steps'[q] = steps[q]
                                         /\ postings'[q] = postings[q]
      BY <1>2, <2>2
    <2>6. r \in Request \ disturbed' => RowSerial(r)'
      BY <1>2, <2>4
    <2> QED
      BY <1>1, <1>2, <2>5, <2>6, IdleFields, SerialStep
  <1> QED
    BY <1>1, <1>3, <1>4 DEF ExpireRequest

LEMMA PostSerial ==
  ASSUME IInv, SerialOK, NEW c \in Call, Post(c)
  PROVE  SerialOK'
  <1>1. PICK r \in Request \cup {NoRequest} : r = calls[c].req
    BY CallTyped DEF CallState
  <1>2. PICK k : k = [calls[c] EXCEPT !.pc = "mark"]
    OBVIOUS
  <1>3. /\ calls' = [calls EXCEPT ![c] = k] /\ k.pc = "mark" /\ k.req = r
        /\ calls[c].pc = "post"
    BY <1>1, <1>2, CallTyped DEF Post, Goto, CallState
  <1>4. /\ UNCHANGED <<requests, decisions, steps, disturbed>>
        /\ \A q \in Request : q # r => postings'[q] = postings[q]
        /\ r \in Request => postings'[r] = postings[r] + 1
    BY <1>1, ConstantAssumption DEF Post, IInv, TypeOK
  <1>5. ASSUME r \in Request \ disturbed PROVE RowSerial(r)'
    <2>1. /\ Working(r) \subseteq {c}
          /\ Settled(r) /\ requests[r].status = "approved"
      BY <1>1, <1>3, <1>5, OnlyWorker DEF UnderWay
    <2>2. /\ Approvers(r)' = Approvers(r) /\ Rejecters(r)' = Rejecters(r)
          /\ Recorded(r)' = Recorded(r)
      BY <1>4 DEF Approvers, Rejecters, Recorded
    <2>3. Recorded(r) \in Nat /\ requests[r].required \in Nat
      BY <1>5, RowTyped
    <2>4. /\ Rejecters(r) = {} /\ requests[r].approved = Recorded(r)
          /\ postings[r] = 0
          /\ ~(Recorded(r) < requests[r].required)
      BY <2>1 DEF Settled
    <2>5. Recorded(r) >= requests[r].required
      BY <2>3, <2>4
    <2>6. StepsShow(r, Recorded(r))
      BY <2>1, <2>4 DEF Settled, StepsShow
    <2>7. StepsShow(r, Recorded(r))'
      BY <1>4, <2>2, <2>6 DEF StepsShow
    <2>8. postings'[r] = 1
      BY <1>4, <1>5, <2>4
    <2>9. UnderWay(r, k)'
      BY <1>3, <1>4, <2>1, <2>2, <2>4, <2>5, <2>7, <2>8 DEF UnderWay
    <2> QED
      BY <1>3, <1>5, <2>1, <2>9, RowSerialMoved
  <1>6. /\ disturbed \subseteq disturbed' /\ k.pc \notin Free
        /\ \A q \in Request : q # r => /\ requests'[q] = requests[q]
                                       /\ decisions'[q] = decisions[q]
                                       /\ steps'[q] = steps[q]
                                       /\ postings'[q] = postings[q]
    BY <1>3, <1>4 DEF Free
  <1> QED
    BY <1>1, <1>3, <1>4, <1>5, <1>6, SerialStep

LEMMA MarkApprovalRequestExecutedSerial ==
  ASSUME IInv, SerialOK, NEW c \in Call, MarkApprovalRequestExecuted(c)
  PROVE  SerialOK'
  <1>1. PICK r \in Request \cup {NoRequest} : r = calls[c].req
    BY CallTyped DEF CallState
  <1>2. /\ calls' = [calls EXCEPT ![c] = Idle]
        /\ UNCHANGED <<decisions, steps, postings, disturbed>>
        /\ calls[c].pc = "mark"
    BY DEF MarkApprovalRequestExecuted, Return
  <1>3. CASE r \in Request /\ requests[r].status = "approved"
    <2>1. requests' = [requests EXCEPT ![r].status = "executed"] /\ "executed" \in Status
      BY <1>1, <1>3, ConstantAssumption DEF MarkApprovalRequestExecuted, Status
    <2>2. /\ \A q \in Request : q # r => requests'[q] = requests[q]
          /\ requests'[r].status = "executed"
          /\ \A f \in {"op", "maker", "required", "checkers", "approved"} :
                requests'[r][f] = requests[r][f]
      BY <1>3, <2>1, StatusWritten
    <2>3. requests'[r].required = requests[r].required
          /\ requests'[r].approved = requests[r].approved
      BY <2>2
    <2>4. ASSUME r \notin disturbed PROVE RowSerial(r)'
      <3>1. Working(r) \subseteq {c} /\ UnderWay(r, calls[c])
        BY <1>1, <1>3, <2>4, OnlyWorker
      <3>2. /\ Approvers(r)' = Approvers(r) /\ Rejecters(r)' = Rejecters(r)
            /\ Recorded(r)' = Recorded(r)
        BY <1>2 DEF Approvers, Rejecters, Recorded
      <3>3. /\ requests[r].approved = Recorded(r) /\ Rejecters(r) = {}
            /\ Recorded(r) >= requests[r].required
            /\ postings[r] = 1 /\ StepsShow(r, Recorded(r))
        BY <1>2, <3>1 DEF UnderWay
      <3>4. Recorded(r) \in Nat /\ requests[r].required \in Nat
        BY <1>3, RowTyped
      <3>5. ~(Recorded(r) < requests[r].required)
        BY <3>3, <3>4
      <3>6. \A i \in 1..requests[r].required :
               steps[r][i] = IF i <= Recorded(r) THEN "approved" ELSE "pending"
        BY <3>3 DEF StepsShow
      <3>7. Settled(r)'
        BY <1>2, <2>2, <2>3, <3>2, <3>3, <3>5, <3>6 DEF Settled
      <3> QED
        BY <1>2, <1>3, <3>1, <3>7, IdleFields, ConstantAssumption, RowSerialMoved
    <2>5. /\ disturbed \subseteq disturbed'
          /\ \A q \in Request : q # r => /\ requests'[q] = requests[q]
                                         /\ decisions'[q] = decisions[q]
                                         /\ steps'[q] = steps[q]
                                         /\ postings'[q] = postings[q]
      BY <1>2, <2>2
    <2> QED
      BY <1>1, <1>2, <2>4, <2>5, IdleFields, SerialStep
  <1>4. CASE ~(r \in Request /\ requests[r].status = "approved")
    <2>1. requests' = requests
      BY <1>1, <1>4 DEF MarkApprovalRequestExecuted
    <2>2. r \in Request => r \in disturbed
      BY <1>1, <1>2, <1>4, OnlyWorker DEF UnderWay
    <2> QED
      BY <1>1, <1>2, <2>1, <2>2, ReturnSerial DEF Return
  <1> QED
    BY <1>3, <1>4

LEMMA DecideRequestSerial ==
  ASSUME IInv, SerialOK, NEW c \in Call, NEW u \in User, NEW r \in Request, NEW v \in Verdict,
         DecideRequest(c, u, r, v)
  PROVE  SerialOK'
  <1>1. PICK k : k = [Idle EXCEPT !.pc = "insert", !.user = u, !.req = r, !.verdict = v]
    OBVIOUS
  <1>2. k.pc = "insert" /\ k.req = r
    BY <1>1 DEF Idle
  <1>3. /\ calls' = [calls EXCEPT ![c] = k]
        /\ UNCHANGED <<requests, decisions, steps, postings>>
        /\ requests[r].status = "pending" /\ calls[c].req = NoRequest
        /\ disturbed \subseteq disturbed' /\ (r \notin disturbed' => Working(r) = {})
    BY <1>1 DEF DecideRequest, Overlap, SerialOK, FreeCalls, Free
  <1>4. ASSUME r \notin disturbed' PROVE RowSerial(r)'
    <2>1. Settled(r) /\ Working(r) = {}
      BY <1>3, <1>4 DEF SerialOK, RowSerial, Exists
    <2>2. UnderWay(r, k)
      BY <1>2, <1>3, <2>1 DEF UnderWay
    <2>3. UnderWay(r, k)'
      BY <1>3, <2>2, TablesKept
    <2> QED
      BY <1>2, <1>3, <2>1, <2>3, RowSerialMoved
  <1> QED
    BY <1>2, <1>3, <1>4, SerialStep DEF Free

\* What the insert adds to the sets of those who approved or rejected.
LEMMA DecisionRecorded ==
  ASSUME IInv, NEW r \in Request, NEW u \in User, NEW v \in Verdict,
         decisions[r][u] = "none",
         decisions' = [decisions EXCEPT ![r][u] = v]
  PROVE  /\ \A q \in Request : q # r => decisions'[q] = decisions[q]
         /\ v = "approved" =>
               Recorded(r)' = Recorded(r) + 1 /\ Rejecters(r)' = Rejecters(r)
         /\ v = "rejected" =>
               Recorded(r)' = Recorded(r) /\ Rejecters(r)' = Rejecters(r) \cup {u}
  <1>1. decisions[r] \in [User -> Verdict \cup {"none"}]
    BY DEF IInv, TypeOK
  <1>2. /\ \A q \in Request : q # r => decisions'[q] = decisions[q]
        /\ decisions'[r] = [decisions[r] EXCEPT ![u] = v]
    BY DEF IInv, TypeOK
  <1>3. decisions'[r][u] = v /\ \A w \in User : w # u => decisions'[r][w] = decisions[r][w]
    BY <1>1, <1>2
  <1>4. CASE v = "approved"
    <2>1. Approvers(r)' = Approvers(r) \cup {u} /\ u \notin Approvers(r)
      BY <1>3, <1>4 DEF Approvers
    <2>2. Rejecters(r)' = Rejecters(r)
      BY <1>3, <1>4 DEF Rejecters
    <2>3. Cardinality(Approvers(r)') = Cardinality(Approvers(r)) + 1
      BY <2>1, ApproversFinite, FS_AddElement
    <2> QED
      BY <1>2, <1>4, <2>2, <2>3 DEF Recorded
  <1>5. CASE v = "rejected"
    <2>1. Approvers(r)' = Approvers(r)
      BY <1>3, <1>5 DEF Approvers
    <2>2. Rejecters(r)' = Rejecters(r) \cup {u}
      BY <1>3, <1>5 DEF Rejecters
    <2> QED
      BY <1>2, <1>5, <2>1, <2>2 DEF Recorded
  <1> QED
    BY <1>4, <1>5 DEF Verdict

LEMMA InsertDecisionSerial ==
  ASSUME IInv, SerialOK, NEW c \in Call, InsertDecision(c)
  PROVE  SerialOK'
  <1>0. PICK u, v : u = calls[c].user /\ v = calls[c].verdict
    OBVIOUS
  <1>1. PICK r \in Request : r = calls[c].req
    BY CallTyped DEF InsertDecision, CallOK
  <1>2. /\ UNCHANGED <<requests, steps, postings, disturbed>>
        /\ calls[c].pc = "insert" /\ u \in User /\ v \in Verdict
    BY <1>0, CallTyped DEF InsertDecision, CallOK
  <1>3. r \notin disturbed =>
           Working(r) \subseteq {c} /\ Settled(r) /\ requests[r].status = "pending"
    BY <1>1, <1>2, OnlyWorker DEF UnderWay
  <1>4. CASE UNCHANGED decisions /\ Return(c)
    BY <1>1, <1>2, <1>3, <1>4, ReturnSerial
  <1>5. CASE /\ decisions[r][u] = "none"
             /\ decisions' = [decisions EXCEPT ![r][u] = v]
             /\ Goto(c, IF v = "approved" THEN "count" ELSE "update")
    <2>1. PICK k : k = [calls[c] EXCEPT !.pc = IF v = "approved" THEN "count" ELSE "update"]
      OBVIOUS
    <2>2. /\ calls' = [calls EXCEPT ![c] = k]
          /\ k.pc = IF v = "approved" THEN "count" ELSE "update"
          /\ k.req = r /\ k.verdict = v /\ k.user = u
      BY <1>0, <1>1, <1>5, <2>1, CallTyped DEF Goto, CallState
    <2>3. /\ \A q \in Request : q # r => decisions'[q] = decisions[q]
          /\ v = "approved" =>
                Recorded(r)' = Recorded(r) + 1 /\ Rejecters(r)' = Rejecters(r)
          /\ v = "rejected" =>
                Recorded(r)' = Recorded(r) /\ Rejecters(r)' = Rejecters(r) \cup {u}
      BY <1>2, <1>5, DecisionRecorded
    <2>4. ASSUME r \notin disturbed PROVE RowSerial(r)'
      <3>1. /\ Rejecters(r) = {} /\ Recorded(r) < requests[r].required
            /\ requests[r].approved = Recorded(r) /\ postings[r] = 0
            /\ StepsShow(r, Recorded(r))
        BY <1>3, <2>4 DEF Settled, StepsShow
      <3>2. \A j : StepsShow(r, j)' <=> StepsShow(r, j)
        BY <1>2 DEF StepsShow
      <3>3. Recorded(r) \in Nat /\ requests[r].required \in Nat
        BY RowTyped
      <3>4. CASE v = "approved"
        <4>1. Recorded(r)' = Recorded(r) + 1 /\ Rejecters(r)' = {}
          BY <2>3, <3>1, <3>4
        <4>2. Recorded(r)' \in 1..requests[r].required /\ Recorded(r)' - 1 = Recorded(r)
          BY <3>1, <3>3, <4>1
        <4>3. StepsShow(r, Recorded(r)' - 1)
          BY <3>1, <4>2
        <4>4. Approving(r)'
          BY <1>2, <3>1, <3>2, <4>1, <4>2, <4>3 DEF Approving, StepsShow
        <4>5. UnderWay(r, k)'
          BY <1>2, <1>3, <2>2, <2>4, <3>4, <4>4 DEF UnderWay
        <4> QED
          BY <1>3, <2>2, <2>4, <4>5, RowSerialMoved
      <3>5. CASE v = "rejected"
        <4>1. Recorded(r)' = Recorded(r) /\ Rejecters(r)' = {u}
          BY <2>3, <3>1, <3>5
        <4>2. Rejecting(r, u)'
          BY <1>2, <3>1, <3>2, <4>1 DEF Rejecting
        <4>3. UnderWay(r, k)'
          BY <1>2, <1>3, <2>2, <2>4, <3>5, <4>2 DEF UnderWay
        <4> QED
          BY <1>3, <2>2, <2>4, <4>3, RowSerialMoved
      <3> QED
        BY <1>2, <3>4, <3>5 DEF Verdict
    <2>5. /\ disturbed \subseteq disturbed' /\ k.pc \notin Free
          /\ calls[c].req \in {r, NoRequest} /\ k.req \in {r, NoRequest}
          /\ r \in Request \cup {NoRequest}
          /\ \A q \in Request : q # r => /\ requests'[q] = requests[q]
                                         /\ decisions'[q] = decisions[q]
                                         /\ steps'[q] = steps[q]
                                         /\ postings'[q] = postings[q]
      BY <1>1, <1>2, <2>2, <2>3 DEF Free
    <2>6. r \in Request \ disturbed' => RowSerial(r)'
      BY <1>2, <2>4
    <2> QED
      BY <2>2, <2>5, <2>6, SerialStep
  <1> QED
    BY <1>0, <1>1, <1>2, <1>4, <1>5 DEF InsertDecision

LEMMA CountApprovalsSerial ==
  ASSUME IInv, SerialOK, NEW c \in Call, CountApprovals(c)
  PROVE  SerialOK'
  <1>1. PICK r \in Request : r = calls[c].req
    BY CallTyped DEF CountApprovals, CallOK
  <1>2. PICK k : k = [calls[c] EXCEPT !.pc = "update", !.count = Recorded(r)]
    OBVIOUS
  <1>3. /\ calls' = [calls EXCEPT ![c] = k]
        /\ k.pc = "update" /\ k.count = Recorded(r) /\ k.req = r
        /\ k.verdict = calls[c].verdict /\ calls[c].pc = "count"
    BY <1>1, <1>2, CallTyped DEF CountApprovals, CallState, Recorded
  <1>4. UNCHANGED <<requests, decisions, steps, postings, disturbed>>
    BY DEF CountApprovals
  <1>5. ASSUME r \notin disturbed PROVE RowSerial(r)'
    <2>1. Working(r) \subseteq {c} /\ UnderWay(r, calls[c])
      BY <1>1, <1>5, OnlyWorker
    <2>2. UnderWay(r, k)
      BY <1>3, <2>1 DEF UnderWay
    <2>3. UnderWay(r, k)'
      BY <1>4, <2>2, TablesKept
    <2> QED
      BY <1>3, <2>1, <2>3, RowSerialMoved
  <1> QED
    BY <1>1, <1>3, <1>4, <1>5, SerialStep DEF Free

LEMMA UpdateRequestSerial ==
  ASSUME IInv, SerialOK, NEW c \in Call, UpdateRequest(c)
  PROVE  SerialOK'
  <1> DEFINE v == calls[c].verdict
  <1>1. PICK r \in Request : r = calls[c].req
    BY CallTyped DEF UpdateRequest, CallOK
  <1>2. PICK row : row = Decided(requests[r], calls[c])
    OBVIOUS
  <1>3. requests[r] \in Row /\ v \in Verdict /\ calls[c] \in CallState
    BY CallTyped DEF IInv, TypeOK, UpdateRequest, CallOK
  <1>4. /\ row.required = requests[r].required
        /\ v = "rejected" => row.status = "rejected" /\ row.approved = requests[r].approved
        /\ v = "approved" =>
              /\ row.approved = calls[c].count
              /\ row.status = IF calls[c].count >= requests[r].required
                              THEN "approved" ELSE "pending"
    BY <1>2, <1>3 DEF Decided, Row
  <1>5. PICK k : k = [calls[c] EXCEPT !.pc = "step", !.count = row.approved]
    OBVIOUS
  <1>6. /\ k.pc = "step" /\ k.count = row.approved /\ k.req = r
        /\ k.verdict = v /\ k.user = calls[c].user
    BY <1>1, <1>3, <1>5 DEF CallState
  <1>7. /\ requests' = [requests EXCEPT ![r] = row]
        /\ requests'[r] = row
    BY <1>1, <1>2 DEF UpdateRequest, IInv, TypeOK
  <1>8. calls' = [calls EXCEPT ![c] = k] /\ calls[c].pc = "update"
    <2>1. calls' = [calls EXCEPT ![c] = [calls[c] EXCEPT !.pc = "step",
                                                        !.count = requests'[r].approved]]
      BY <1>1, <1>3 DEF UpdateRequest, IInv, TypeOK, CallState
    <2> QED
      BY <1>5, <1>7, <2>1 DEF UpdateRequest
  <1>9. /\ UNCHANGED <<decisions, steps, postings, disturbed>>
        /\ \A q \in Request : q # r => requests'[q] = requests[q]
    BY <1>7 DEF UpdateRequest, IInv, TypeOK
  <1>10. ASSUME r \notin disturbed PROVE RowSerial(r)'
    <2>1. Working(r) \subseteq {c} /\ UnderWay(r, calls[c])
      BY <1>1, <1>10, OnlyWorker
    <2>2. /\ Approvers(r)' = Approvers(r) /\ Rejecters(r)' = Rejecters(r)
          /\ Recorded(r)' = Recorded(r)
      BY <1>9 DEF Approvers, Rejecters, Recorded
    <2>3. \A j : StepsShow(r, j)' <=> StepsShow(r, j)
      BY <1>4, <1>7, <1>9 DEF StepsShow
    <2>4. Recorded(r) \in Nat /\ requests[r].required \in Nat
      BY RowTyped
    <2>5. CASE v = "approved"
      <3>1. Approving(r) /\ calls[c].count = Recorded(r)
        BY <1>8, <2>1, <2>5 DEF UnderWay
      <3>2. Approving(r)'
        BY <1>4, <1>7, <1>9, <2>2, <2>3, <3>1 DEF Approving
      <3>3. Recorded(r) <= requests[r].required
        BY <2>4, <3>1 DEF Approving
      <3>4. /\ requests'[r].status = IF Recorded(r)' = requests'[r].required
                                     THEN "approved" ELSE "pending"
            /\ requests'[r].approved = Recorded(r)' /\ k.count = Recorded(r)'
        BY <1>4, <1>6, <1>7, <2>2, <2>4, <2>5, <3>1, <3>3
      <3>5. UnderWay(r, k)'
        BY <1>6, <2>5, <3>2, <3>4 DEF UnderWay
      <3> QED
        BY <1>6, <1>8, <2>1, <3>5, RowSerialMoved
    <2>6. CASE v = "rejected"
      <3>1. Rejecting(r, k.user)
        BY <1>6, <1>8, <2>1, <2>6 DEF UnderWay
      <3>2. requests'[r].status = "rejected" /\ requests'[r].approved = requests[r].approved
        BY <1>4, <1>7, <2>6
      <3>3. Rejecting(r, k.user)'
        BY <1>4, <1>7, <1>9, <2>2, <2>3, <3>1, <3>2 DEF Rejecting
      <3>4. k.count = Recorded(r)' /\ requests'[r].approved = Recorded(r)'
        BY <1>6, <1>7, <2>2, <3>1, <3>2 DEF Rejecting
      <3>5. UnderWay(r, k)'
        BY <1>6, <2>6, <3>2, <3>3, <3>4 DEF UnderWay
      <3> QED
        BY <1>6, <1>8, <2>1, <3>5, RowSerialMoved
    <2> QED
      BY <1>3, <2>5, <2>6 DEF Verdict
  <1>11. /\ disturbed \subseteq disturbed' /\ k.pc \notin Free
         /\ calls[c].req \in {r, NoRequest} /\ k.req \in {r, NoRequest}
         /\ r \in Request \cup {NoRequest}
         /\ \A q \in Request : q # r => /\ requests'[q] = requests[q]
                                        /\ decisions'[q] = decisions[q]
                                        /\ steps'[q] = steps[q]
                                        /\ postings'[q] = postings[q]
    BY <1>1, <1>6, <1>9 DEF Free
  <1>12. r \in Request \ disturbed' => RowSerial(r)'
    BY <1>9, <1>10
  <1> QED
    BY <1>8, <1>11, <1>12, SerialStep

\* The step an approval marks is the last one recorded, a rejection's the next one.
LEMMA UpdateStepSerial ==
  ASSUME IInv, SerialOK, NEW c \in Call, UpdateStep(c)
  PROVE  SerialOK'
  <1>0. PICK v, n : v = calls[c].verdict /\ n = calls[c].count
    OBVIOUS
  <1>1. PICK r \in Request : r = calls[c].req
    BY CallTyped DEF UpdateStep, CallOK
  <1>2. PICK i : i = StepOrder(requests[r], calls[c])
    OBVIOUS
  <1>3. /\ calls' = [calls EXCEPT ![c] = Idle]
        /\ UNCHANGED <<requests, decisions, postings, disturbed>>
        /\ \A q \in Request : q # r => steps'[q] = steps[q]
        /\ calls[c].pc = "step" /\ v \in Verdict
    BY <1>0, <1>1, CallTyped DEF UpdateStep, Return, IInv, TypeOK, CallOK
  <1>4. \A k \in 1..MaxRequired :
           steps'[r][k] = IF k = i /\ steps[r][k] # "absent" THEN v ELSE steps[r][k]
    BY <1>0, <1>1, <1>2 DEF UpdateStep, IInv, TypeOK
  <1>5. ASSUME r \notin disturbed PROVE RowSerial(r)'
    <2> DEFINE m == requests[r].required
    <2>1. /\ Working(r) \subseteq {c} /\ n = Recorded(r) /\ requests[r].approved = n
          /\ v = "approved" =>
                /\ Approving(r)
                /\ requests[r].status = IF n = m THEN "approved" ELSE "pending"
          /\ v = "rejected" => Rejecting(r, calls[c].user) /\ requests[r].status = "rejected"
      BY <1>0, <1>1, <1>3, <1>5, OnlyWorker DEF UnderWay
    <2>2. /\ Approvers(r)' = Approvers(r) /\ Rejecters(r)' = Rejecters(r)
          /\ Recorded(r)' = n
      BY <1>3, <2>1 DEF Approvers, Rejecters, Recorded
    <2>3. n \in Nat /\ m \in Nat /\ m <= MaxRequired /\ MaxRequired \in Nat
      BY <2>1, RowTyped, ConstantAssumption
    <2>4. \A k \in 1..m :
             steps'[r][k] = IF k = i /\ steps[r][k] # "absent" THEN v ELSE steps[r][k]
      BY <1>4, <2>3
    <2>5. CASE v = "approved"
      <3>1. n \in 1..m /\ Rejecters(r) = {} /\ postings[r] = 0
        BY <2>1, <2>5 DEF Approving
      <3>2. i = n
        BY <1>0, <1>2, <2>3, <2>5, <3>1 DEF StepOrder
      <3>3. \A k \in 1..m : steps[r][k] = IF k <= n - 1 THEN "approved" ELSE "pending"
        BY <2>1, <2>5 DEF Approving, StepsShow
      <3>4. \A k \in 1..m : steps'[r][k] = IF k <= n THEN "approved" ELSE "pending"
        BY <2>3, <2>4, <2>5, <3>1, <3>2, <3>3
      <3>5. (n = m) <=> ~(n < m)
        BY <2>3, <3>1
      <3>6. Settled(r)'
        BY <1>3, <2>1, <2>2, <2>5, <3>1, <3>4, <3>5 DEF Settled
      <3> QED
        BY <1>3, <2>1, <3>6, IdleFields, ConstantAssumption, RowSerialMoved
    <2>6. CASE v = "rejected"
      <3>1. n < m /\ Rejecters(r) # {} /\ postings[r] = 0
        BY <2>1, <2>6 DEF Rejecting
      <3>2. i = n + 1
        BY <1>0, <1>2, <2>3, <2>6, <3>1 DEF StepOrder
      <3>3. \A k \in 1..m : steps[r][k] = IF k <= n THEN "approved" ELSE "pending"
        BY <2>1, <2>6 DEF Rejecting, StepsShow
      <3>4. \A k \in 1..m : steps'[r][k] = IF k <= n THEN "approved"
                                           ELSE IF k = n + 1 THEN "rejected" ELSE "pending"
        BY <2>3, <2>4, <2>6, <3>2, <3>3
      <3>5. Settled(r)'
        BY <1>3, <2>1, <2>2, <2>6, <3>1, <3>4 DEF Settled
      <3> QED
        BY <1>3, <2>1, <3>5, IdleFields, ConstantAssumption, RowSerialMoved
    <2> QED
      BY <1>3, <2>5, <2>6 DEF Verdict
  <1>6. /\ disturbed \subseteq disturbed' /\ r \in Request \cup {NoRequest}
        /\ \A q \in Request : q # r => /\ requests'[q] = requests[q]
                                       /\ decisions'[q] = decisions[q]
                                       /\ steps'[q] = steps[q]
                                       /\ postings'[q] = postings[q]
    BY <1>3
  <1>7. r \in Request \ disturbed' => RowSerial(r)'
    BY <1>3, <1>5
  <1> QED
    BY <1>1, <1>3, <1>6, <1>7, IdleFields, SerialStep

LEMMA PolicyStepsSerial ==
  ASSUME IInv, SerialOK, NEW c \in Call,
         \/ \E o \in Operation, patch \in PolicyPatch : UpdateApprovalPolicy(c, o, patch)
         \/ UpsertPolicy(c)
  PROVE  SerialOK'
  <1>1. /\ UNCHANGED <<requests, decisions, steps, postings, disturbed>>
        /\ calls[c].req = NoRequest
    BY DEF UpdateApprovalPolicy, UpsertPolicy, SerialOK, FreeCalls, Free
  <1>2. PICK k : calls' = [calls EXCEPT ![c] = k] /\ k.req = NoRequest
    <2>1. CASE UpsertPolicy(c)
      BY <2>1, IdleFields DEF UpsertPolicy, Return
    <2>2. ASSUME NEW o \in Operation, NEW patch \in PolicyPatch,
                 UpdateApprovalPolicy(c, o, patch)
          PROVE  \E k : calls' = [calls EXCEPT ![c] = k] /\ k.req = NoRequest
      <3>1. PICK k : k = [Idle EXCEPT !.pc = "upsert", !.op = o,
                                      !.next = Patched(policy[o], patch)]
        OBVIOUS
      <3>2. k.req = NoRequest /\ calls' = [calls EXCEPT ![c] = k]
        BY <2>2, <3>1 DEF UpdateApprovalPolicy, Idle
      <3> QED
        BY <3>2
    <2> QED
      BY <2>1, <2>2
  <1> QED
    BY <1>1, <1>2, ConstantAssumption, SerialStep

\* A handler that dies between two writes leaves a disturbed request, one that
\* dies before its first or after its last write a settled one.
LEMMA AbortSerial ==
  ASSUME IInv, SerialOK, NEW c \in Call, Abort(c)
  PROVE  SerialOK'
  <1>1. /\ Return(c) /\ disturbed \subseteq disturbed'
        /\ UNCHANGED <<requests, decisions, steps, postings>>
    BY DEF Abort
  <1>2. ASSUME calls[c].req \in Request \ disturbed' PROVE Settled(calls[c].req)
    <2>1. calls[c].pc \notin {"steps", "count", "update", "step", "mark"}
      BY <1>2 DEF Abort
    <2>2. calls[c].pc \in PC \ Free
      BY <1>2, CallTyped, ConstantAssumption DEF SerialOK, FreeCalls, CallState
    <2>3. calls[c].pc \in {"gate", "expire", "post", "insert"}
      BY <2>1, <2>2 DEF PC, Free
    <2> QED
      BY <1>1, <1>2, <2>3, OnlyWorker DEF UnderWay
  <1> QED
    BY <1>1, <1>2, ReturnSerial

LEMMA QuietSerial ==
  ASSUME SerialOK, UNCHANGED <<requests, decisions, steps, postings, calls, disturbed>>
  PROVE  SerialOK'
  <1>1. FreeCalls'
    BY DEF SerialOK, FreeCalls
  <1>2. ASSUME NEW r \in Request \ disturbed PROVE RowSerial(r)'
    BY RowSerialKept DEF SerialOK
  <1> QED
    BY <1>1, <1>2 DEF SerialOK

LEMMA NextSerial ==
  ASSUME IInv, SerialOK, [Next]_vars
  PROVE  SerialOK'
  <1>1. ASSUME NEW c \in Call, NEW u \in User, NEW o \in Operation,
               NEW amount \in Amount, NEW r \in Request \cup {NoRequest},
               Withdraw(c, u, o, amount, r)
        PROVE  SerialOK'
    BY <1>1, WithdrawSerial
  <1>2. ASSUME NEW c \in Call, NEW u \in User, NEW r \in Request, NEW v \in Verdict,
               DecideRequest(c, u, r, v)
        PROVE  SerialOK'
    BY <1>2, DecideRequestSerial
  <1>3. ASSUME NEW c \in Call, NEW r \in Request, CreateApprovalRequest(c, r)
        PROVE  SerialOK'
    BY <1>3, CreateApprovalRequestSerial
  <1>4. ASSUME NEW c \in Call,
               \/ InsertSteps(c) \/ EnsureOperationApproval(c) \/ ExpireRequest(c)
               \/ Post(c) \/ MarkApprovalRequestExecuted(c)
        PROVE  SerialOK'
    BY <1>4, InsertStepsSerial, EnsureOperationApprovalSerial, ExpireRequestSerial,
       PostSerial, MarkApprovalRequestExecutedSerial
  <1>5. ASSUME NEW c \in Call,
               \/ InsertDecision(c) \/ CountApprovals(c) \/ UpdateRequest(c)
               \/ UpdateStep(c) \/ Abort(c)
        PROVE  SerialOK'
    BY <1>5, InsertDecisionSerial, CountApprovalsSerial, UpdateRequestSerial,
       UpdateStepSerial, AbortSerial
  <1>6. ASSUME NEW c \in Call,
               \/ \E o \in Operation, patch \in PolicyPatch : UpdateApprovalPolicy(c, o, patch)
               \/ UpsertPolicy(c)
        PROVE  SerialOK'
    BY <1>6, PolicyStepsSerial
  <1>7. ASSUME NEW r \in Request, PassDeadline(r)
        PROVE  SerialOK'
    BY <1>7, QuietSerial DEF PassDeadline
  <1>8. CASE UNCHANGED vars
    BY <1>8, QuietSerial DEF vars
  <1> QED
    BY <1>1, <1>2, <1>3, <1>4, <1>5, <1>6, <1>7, <1>8 DEF Next

LEMMA InitSerial == Init => SerialOK
  <1> SUFFICES ASSUME Init PROVE SerialOK
    OBVIOUS
  <1>1. FreeCalls /\ \A c \in Call : calls[c].req = NoRequest
    BY IdleFields DEF Init, FreeCalls
  <1>2. ASSUME NEW r \in Request PROVE RowSerial(r)
    <2>1. Working(r) = {} /\ ~Exists(r)
      BY <1>1, ConstantAssumption DEF Init, Working, Exists, NoRow
    <2> QED
      BY <2>1 DEF RowSerial
  <1> QED
    BY <1>1, <1>2 DEF SerialOK

LEMMA SerialInvariance == Spec => []SerialOK
  BY InitIInv, InitSerial, NextPreserves, NextSerial, PTL DEF Spec

\* When the handlers of a request ran one after the other and none died midway, its
\* status, its counted approvals, its steps and its postings are what the decisions
\* on record say, although each of these is a write of its own.
THEOREM OutcomeOfSerialHandlers == Spec => []SerialOutcome
  <1>1. SerialOK => SerialOutcome
    BY DEF SerialOK, RowSerial, Settled, Recorded, Exists, SerialOutcome
  <1> QED
    BY <1>1, SerialInvariance, PTL
==========================================================================
