------------------------ MODULE IdempotencyProofs ------------------------
(* Proofs about Idempotency, for every set of keys, bodies and concurrent   *)
(* requests and for every number of reservations and deaths.                *)
EXTENDS Idempotency, FiniteSetTheorems, SequenceTheorems, TLAPS

(***************************************************************************)
(* The inductive invariant.  A request that has a reservation keeps the id  *)
(* of its execution, never the row: the row may be released under it once   *)
(* the TTL has passed.  What relates the two is that the row of a key is    *)
(* the execution of a running handler unless that one has expired, and the  *)
(* execution that posted unless the key is excused.                         *)
(***************************************************************************)
Working == {"run", "ran", "persist", "discard"}
Exec == [key : Key, hash : Hash, posted : BOOLEAN]

RowOK(k) ==
    LET row == rows[k] IN
    row # NoRow =>
        /\ row.id \in DOMAIN execs
        /\ execs[row.id].key = k /\ execs[row.id].hash = row.hash
        /\ row.response \in {0, row.id}
        /\ row.response # 0 => execs[row.id].posted

\* A request has a key and a body, and acts on an execution of both.
Owns(c) ==
    LET call == calls[c] IN
    /\ call.pc # "idle" => call.key \in Key /\ call.hash \in Hash
    /\ call.pc \in {"release", "insert"} => call.round <= 1
    /\ call.pc = "release" => call.own \in expired /\ execs[call.own].key = call.key
    /\ call.pc \in Working \cup {"done"} =>
          /\ call.own \in DOMAIN execs
          /\ execs[call.own].key = call.key /\ execs[call.own].hash = call.hash

\* How far the handler is, and whether the row is still its own.
Stage(c) ==
    LET call == calls[c] IN
    /\ call.pc = "run" => ~execs[call.own].posted
    /\ call.pc \in {"ran", "persist", "done"} => execs[call.own].posted
    /\ call.pc = "discard" /\ call.key \notin excused => ~execs[call.own].posted
    /\ call.pc \in {"run", "ran"} => rows[call.key].id = call.own \/ call.own \in expired
    /\ call.pc = "run" /\ call.key \notin excused => rows[call.key].id = call.own

RowsOK == \A k \in Key : RowOK(k)
CallsOK == \A c \in Call : Owns(c) /\ Stage(c)

\* No two requests work on one execution.
Distinct ==
    \A c, d \in Call :
        c # d /\ calls[c].pc \in Working /\ calls[d].pc \in Working => calls[c].own # calls[d].own

PostedIsRow == \A k \in Key \ excused : \A i \in Postings(k) : rows[k].id = i

IInv == TypeOK /\ RowsOK /\ CallsOK /\ Distinct /\ PostedIsRow

(***************************************************************************)
(* Lemmas about one step.                                                   *)
(***************************************************************************)
LEMMA Execs ==
  ASSUME TypeOK
  PROVE  /\ execs \in Seq(Exec)
         /\ Len(execs) \in Nat /\ DOMAIN execs = 1..Len(execs)
         /\ \A i \in DOMAIN execs : execs[i] \in Exec
<1>1. execs \in Seq(Exec)
  BY DEF TypeOK, Exec
<1> QED
  BY <1>1

LEMMA InitInv == Init => IInv
<1> SUFFICES ASSUME Init PROVE IInv
  OBVIOUS
<1> USE IdempotencyAssumption
<1>1. Idle \in CallState /\ NoRow \in Row
  BY DEF Idle, CallState, PC, NoRow, Row
<1>2. TypeOK
  BY <1>1 DEF Init, TypeOK
<1>3. RowsOK
  BY DEF Init, RowsOK, RowOK
<1>4. CallsOK /\ Distinct
  BY DEF Init, CallsOK, Owns, Stage, Distinct, Idle, Working
<1>5. PostedIsRow
  BY DEF Init, PostedIsRow, Postings
<1> QED
  BY <1>2, <1>3, <1>4, <1>5 DEF IInv

\* A step of one request that leaves rows and executions as they are.
LEMMA LocalStep ==
  ASSUME IInv, NEW c \in Call, NEW new \in CallState,
         calls' = [calls EXCEPT ![c] = new],
         UNCHANGED <<rows, execs, expired>>,
         excused \subseteq excused', excused' \subseteq Key, deaths' \in 0..MaxDeaths,
         new.pc \in Working => calls[c].pc \in Working /\ new.own = calls[c].own,
         Owns(c)', Stage(c)'
  PROVE  IInv'
<1>1. calls'[c] = new /\ \A d \in Call \ {c} : calls'[d] = calls[d]
  BY DEF IInv, TypeOK
<1>2. TypeOK'
  BY DEF IInv, TypeOK
<1>3. RowsOK'
  BY DEF IInv, RowsOK, RowOK
<1>4. CallsOK'
  <2> SUFFICES ASSUME NEW d \in Call PROVE Owns(d)' /\ Stage(d)'
    BY DEF CallsOK
  <2>1. CASE d = c
    BY <2>1
  <2>2. CASE d # c
    BY <1>1, <2>2 DEF IInv, CallsOK, Owns, Stage
  <2> QED
    BY <2>1, <2>2
<1>5. Distinct'
  BY <1>1 DEF IInv, Distinct
<1>6. PostedIsRow'
  BY DEF IInv, PostedIsRow, Postings
<1> QED
  BY <1>2, <1>3, <1>4, <1>5, <1>6 DEF IInv

\* A request is answered or dies, and its row is neither written nor deleted.
LEMMA ReturnStep ==
  ASSUME IInv, NEW c \in Call, Return(c),
         UNCHANGED <<rows, execs, expired, excused>>, deaths' \in 0..MaxDeaths
  PROVE  IInv'
<1>1. Idle \in CallState /\ calls' = [calls EXCEPT ![c] = Idle] /\ calls'[c] = Idle
  BY DEF Return, Idle, CallState, PC, IInv, TypeOK
<1>2. Idle.pc \notin Working /\ Owns(c)' /\ Stage(c)'
  BY <1>1 DEF Owns, Stage, Working, Idle
<1>3. excused \subseteq excused' /\ excused' \subseteq Key
  BY DEF IInv, TypeOK
<1> QED
  BY <1>1, <1>2, <1>3, LocalStep

(***************************************************************************)
(* One lemma per action.                                                    *)
(***************************************************************************)
LEMMA ReceivePreserves ==
  ASSUME IInv, NEW c \in Call, NEW k \in Key, NEW h \in Hash, Receive(c, k, h)
  PROVE  IInv'
<1> DEFINE new == [Idle EXCEPT !.pc = "look", !.key = k, !.hash = h]
<1>1. /\ new \in CallState /\ calls'[c] = new /\ new.pc = "look"
      /\ new.key = k /\ new.hash = h
  <2>1. Idle \in CallState
    BY DEF Idle, CallState, PC
  <2> QED
    BY <2>1 DEF Receive, IInv, TypeOK, CallState, PC
<1>2. new.pc \notin Working /\ Owns(c)' /\ Stage(c)'
  BY <1>1 DEF Owns, Stage, Working
<1>3. /\ calls' = [calls EXCEPT ![c] = new] /\ UNCHANGED <<rows, execs, expired>>
      /\ excused \subseteq excused' /\ excused' \subseteq Key /\ deaths' \in 0..MaxDeaths
  BY DEF Receive, IInv, TypeOK
<1> HIDE DEF new
<1> QED
  BY <1>1, <1>2, <1>3, LocalStep

LEMMA AbortPreserves ==
  ASSUME IInv, NEW c \in Call, Abort(c)
  PROVE  IInv'
<1>1. deaths' \in 0..MaxDeaths
  BY IdempotencyAssumption DEF Abort, IInv, TypeOK
<1>2. Return(c) /\ UNCHANGED <<rows, execs, expired, excused>>
  BY DEF Abort
<1> QED
  BY <1>1, <1>2, ReturnStep

\* What is read: a row of the request's own body, in progress or completed.
LEMMA LookPreserves ==
  ASSUME IInv, NEW c \in Call, Look(c)
  PROVE  IInv'
<1> DEFINE call == calls[c]
           row  == rows[call.key]
<1>1. call \in CallState /\ call.pc = "look" /\ call.key \in Key /\ call.hash \in Hash
  BY DEF Look, IInv, TypeOK, CallsOK, Owns
<1>2. row \in Row /\ RowOK(call.key)
  BY <1>1 DEF IInv, TypeOK, RowsOK
<1>3. UNCHANGED <<rows, execs, expired, excused, deaths>>
  BY DEF Look
<1>4. excused' \subseteq Key /\ deaths' \in 0..MaxDeaths
  BY <1>3 DEF IInv, TypeOK
<1>5. CASE Return(c)
  BY <1>3, <1>4, <1>5, ReturnStep
<1>6. CASE row = NoRow /\ call.round = 0 /\ Goto(c, "insert")
  <2> DEFINE new == [call EXCEPT !.pc = "insert"]
  <2>1. new \in CallState /\ calls' = [calls EXCEPT ![c] = new] /\ calls'[c] = new
    BY <1>1, <1>6 DEF Goto, CallState, PC, IInv, TypeOK
  <2>2. new.pc \notin Working /\ Owns(c)' /\ Stage(c)'
    BY <1>1, <1>6, <2>1 DEF Owns, Stage, Working, CallState
  <2> HIDE DEF new
  <2> QED
    BY <1>3, <1>4, <2>1, <2>2, LocalStep
<1>7. CASE /\ InProgress(row) /\ row.id \in expired /\ call.round < 2
           /\ calls' = [calls EXCEPT ![c].pc = "release", ![c].own = row.id]
  <2> DEFINE new == [call EXCEPT !.pc = "release", !.own = row.id]
  <2>1. new \in CallState /\ calls' = [calls EXCEPT ![c] = new] /\ calls'[c] = new
    BY <1>1, <1>2, <1>7 DEF Row, CallState, PC, IInv, TypeOK
  <2>2. /\ new.pc = "release" /\ new.own = row.id /\ new.round <= 1
        /\ new.key = call.key /\ new.hash = call.hash
    BY <1>1, <1>7 DEF CallState
  <2>3. execs[row.id].key = call.key
    BY <1>2, <1>7 DEF RowOK, InProgress
  <2>4. new.pc \notin Working /\ Owns(c)' /\ Stage(c)'
    BY <1>1, <1>3, <1>7, <2>1, <2>2, <2>3 DEF Owns, Stage, Working
  <2> HIDE DEF new
  <2> QED
    BY <1>3, <1>4, <2>1, <2>4, LocalStep
<1>8. CASE row # NoRow /\ ~InProgress(row) /\ row.hash = call.hash /\ Replay(c, row)
  <2> DEFINE new == [call EXCEPT !.pc = "done", !.own = row.response]
  <2>1. new \in CallState /\ calls' = [calls EXCEPT ![c] = new] /\ calls'[c] = new
    BY <1>1, <1>2, <1>8 DEF Replay, Row, CallState, PC, IInv, TypeOK
  <2>2. row.response # 0 /\ row.response = row.id
    BY <1>2, <1>8 DEF InProgress, RowOK
  <2>3. /\ new.pc = "done" /\ new.own = row.id /\ new.key = call.key /\ new.hash = call.hash
        /\ call.key \in Key /\ call.hash \in Hash
    BY <1>1, <2>2 DEF CallState
  <2>4. /\ row.id \in DOMAIN execs /\ execs[row.id].posted
        /\ execs[row.id].key = call.key /\ execs[row.id].hash = call.hash
    BY <1>2, <1>8, <2>2 DEF RowOK
  <2> HIDE DEF new
  <2>5. new.pc \notin Working /\ Owns(c)' /\ Stage(c)'
    BY <1>3, <2>1, <2>3, <2>4 DEF Owns, Stage, Working
  <2> QED
    BY <1>3, <1>4, <2>1, <2>5, LocalStep
<1>9. call.round \in 0..2 /\ (InProgress(row) => row # NoRow)
  BY <1>1 DEF CallState, InProgress
<1> QED
  BY <1>5, <1>6, <1>7, <1>8, <1>9 DEF Look

\* The row goes; if its execution was still running or has posted, its key is excused.
LEMMA ReleasePreserves ==
  ASSUME IInv, NEW c \in Call, ReleaseStaleInProgressReservation(c)
  PROVE  IInv'
<1> DEFINE call == calls[c]
           k    == call.key
           mine == rows[k].id = call.own /\ InProgress(rows[k])
<1>1. /\ call \in CallState /\ call.pc = "release" /\ call.round <= 1
      /\ k \in Key /\ call.hash \in Hash
  BY DEF ReleaseStaleInProgressReservation, IInv, TypeOK, CallsOK, Owns
<1>2. call.own \in expired /\ call.own \in DOMAIN execs /\ execs[call.own].key = k
  BY <1>1 DEF IInv, TypeOK, CallsOK, Owns
<1>3. UNCHANGED <<execs, expired, deaths>>
  BY DEF ReleaseStaleInProgressReservation
<1>4. CASE Return(c) /\ UNCHANGED <<rows, excused>>
  BY <1>3, <1>4, ReturnStep DEF IInv, TypeOK
<1>5. CASE /\ mine
           /\ rows' = [rows EXCEPT ![k] = NoRow]
           /\ excused' = IF Live(call.own) \/ execs[call.own].posted
                         THEN excused \cup {k} ELSE excused
           /\ calls' = [calls EXCEPT ![c].pc = "insert", ![c].own = 0]
  <2> DEFINE new == [call EXCEPT !.pc = "insert", !.own = 0]
  <2>1. new \in CallState /\ calls' = [calls EXCEPT ![c] = new] /\ calls'[c] = new
    BY <1>1, <1>5 DEF CallState, PC, IInv, TypeOK
  <2>2. \A d \in Call \ {c} : calls'[d] = calls[d]
    BY <1>5 DEF IInv, TypeOK
  <2>3. NoRow \in Row
    BY DEF NoRow, Row
  <2>4. rows'[k] = NoRow /\ \A j \in Key \ {k} : rows'[j] = rows[j]
    BY <1>1, <1>5 DEF IInv, TypeOK
  <2>5. excused \subseteq excused' /\ excused' \subseteq Key
    BY <1>1, <1>5 DEF IInv, TypeOK
  <2>6. TypeOK'
    <3>1. rows' \in [Key -> Row]
      BY <1>5, <2>3 DEF IInv, TypeOK
    <3>2. calls' \in [Call -> CallState]
      BY <2>1 DEF IInv, TypeOK
    <3> QED
      BY <1>3, <2>5, <3>1, <3>2 DEF IInv, TypeOK
  <2>7. RowsOK'
    BY <1>3, <2>4 DEF IInv, RowsOK, RowOK
  <2>8. CallsOK'
    <3> SUFFICES ASSUME NEW d \in Call PROVE Owns(d)' /\ Stage(d)'
      BY DEF CallsOK
    <3>1. CASE d = c
      <4>1. new.pc = "insert" /\ new.key = k /\ new.hash = call.hash /\ new.round <= 1
        BY <1>1 DEF CallState
      <4> QED
        BY <1>1, <2>1, <3>1, <4>1 DEF Owns, Stage, Working
    <3>2. CASE d # c
      <4>1. Owns(d) /\ Stage(d) /\ calls'[d] = calls[d]
        BY <2>2, <3>2 DEF IInv, CallsOK
      <4>2. Owns(d)'
        BY <1>3, <4>1 DEF Owns
      <4>3. ASSUME calls[d].pc \in {"run", "ran"}
            PROVE  rows'[calls[d].key].id = calls[d].own \/ calls[d].own \in expired
        BY <1>2, <1>5, <2>4, <4>1, <4>3 DEF Stage, Owns
      <4>4. ASSUME calls[d].pc = "run", calls[d].key \notin excused'
            PROVE  rows'[calls[d].key].id = calls[d].own
        <5>1. CASE calls[d].key = k
          <6>1. rows[k].id = calls[d].own
            BY <2>5, <4>1, <4>4, <5>1 DEF Stage
          <6>2. Live(call.own)
            BY <1>5, <4>4, <6>1 DEF Live
          <6> QED
            BY <1>5, <4>4, <5>1, <6>2
        <5>2. CASE calls[d].key # k
          BY <2>4, <2>5, <4>1, <4>4, <5>2 DEF Stage, Owns
        <5> QED
          BY <5>1, <5>2
      <4> QED
        BY <1>3, <2>5, <4>1, <4>2, <4>3, <4>4 DEF Stage
    <3> QED
      BY <3>1, <3>2
  <2>9. Distinct'
    BY <2>1, <2>2 DEF IInv, Distinct, Working, CallState
  <2>10. PostedIsRow'
    <3> SUFFICES ASSUME NEW j \in Key \ excused', NEW i \in Postings(j)
                 PROVE  rows'[j].id = i
      BY <1>3 DEF PostedIsRow, Postings
    <3>1. rows[j].id = i /\ execs[i].posted
      BY <2>5 DEF IInv, PostedIsRow, Postings
    <3>2. j # k
      BY <1>5, <3>1
    <3> QED
      BY <2>4, <3>1, <3>2
  <2> QED
    BY <2>6, <2>7, <2>8, <2>9, <2>10 DEF IInv
<1> QED
  BY <1>4, <1>5 DEF ReleaseStaleInProgressReservation

\* A new execution: no request works on it yet, and its key had no row.
LEMMA InsertPreserves ==
  ASSUME IInv, NEW c \in Call, Insert(c)
  PROVE  IInv'
<1> DEFINE call == calls[c]
           k    == call.key
           id   == Len(execs) + 1
<1>1. /\ call \in CallState /\ call.pc = "insert" /\ call.round <= 1 /\ call.round \in Nat
      /\ k \in Key /\ call.hash \in Hash
  BY DEF Insert, IInv, TypeOK, CallsOK, Owns, CallState
<1>2. UNCHANGED <<expired, excused, deaths>>
  BY DEF Insert
<1>3. CASE Return(c) /\ UNCHANGED <<rows, execs>>
  BY <1>2, <1>3, ReturnStep DEF IInv, TypeOK
<1>4. CASE /\ calls' = [calls EXCEPT ![c].pc = "look", ![c].round = @ + 1]
           /\ UNCHANGED <<rows, execs>>
  <2> DEFINE new == [call EXCEPT !.pc = "look", !.round = @ + 1]
  <2>1. new \in CallState /\ calls' = [calls EXCEPT ![c] = new] /\ calls'[c] = new
    BY <1>1, <1>4 DEF CallState, PC, IInv, TypeOK
  <2>2. new.pc = "look" /\ new.key = k /\ new.hash = call.hash
    BY <1>1 DEF CallState
  <2>3. new.pc \notin Working /\ Owns(c)' /\ Stage(c)'
    BY <1>1, <2>1, <2>2 DEF Owns, Stage, Working
  <2> HIDE DEF new
  <2> QED
    BY <1>2, <1>4, <2>1, <2>3, LocalStep DEF IInv, TypeOK
<1>5. CASE /\ rows[k] = NoRow /\ id <= MaxId
           /\ rows' = [rows EXCEPT ![k] = [id |-> id, hash |-> call.hash, response |-> 0]]
           /\ execs' = Append(execs, [key |-> k, hash |-> call.hash, posted |-> FALSE])
           /\ calls' = [calls EXCEPT ![c].pc = "run", ![c].own = id]
  <2> DEFINE new  == [call EXCEPT !.pc = "run", !.own = id]
             exec == [key |-> k, hash |-> call.hash, posted |-> FALSE]
             fresh == [id |-> id, hash |-> call.hash, response |-> 0]
  <2>1. /\ execs \in Seq(Exec) /\ Len(execs) \in Nat /\ DOMAIN execs = 1..Len(execs)
        /\ id \in Id /\ id \notin DOMAIN execs
    BY <1>5, Execs, IdempotencyAssumption DEF IInv, Id
  <2>2. exec \in Exec
    BY <1>1 DEF Exec
  <2>3. /\ execs' \in Seq(Exec) /\ DOMAIN execs' = DOMAIN execs \cup {id}
        /\ Len(execs') = id /\ execs'[id] = exec
        /\ \A i \in DOMAIN execs : execs'[i] = execs[i]
    BY <1>5, <2>1, <2>2
  <2>4. new \in CallState /\ calls' = [calls EXCEPT ![c] = new] /\ calls'[c] = new
    BY <1>1, <1>5, <2>1 DEF CallState, PC, IInv, TypeOK
  <2>5. new.pc = "run" /\ new.own = id /\ new.key = k /\ new.hash = call.hash
    BY <1>1 DEF CallState
  <2>6. \A d \in Call \ {c} : calls'[d] = calls[d]
    BY <1>5 DEF IInv, TypeOK
  <2>7. fresh \in Row
    BY <1>1, <2>1 DEF Row
  <2>8. rows'[k] = fresh /\ \A j \in Key \ {k} : rows'[j] = rows[j]
    BY <1>1, <1>5 DEF IInv, TypeOK
  <2>9. TypeOK'
    <3>1. rows' \in [Key -> Row]
      BY <1>5, <2>7 DEF IInv, TypeOK
    <3>2. calls' \in [Call -> CallState]
      BY <2>4 DEF IInv, TypeOK
    <3> QED
      BY <1>2, <1>5, <2>3, <3>1, <3>2 DEF IInv, TypeOK, Exec
  <2> HIDE DEF new, exec, id
  <2>10. RowsOK'
    <3> SUFFICES ASSUME NEW j \in Key PROVE RowOK(j)'
      BY DEF RowsOK
    <3>1. CASE j = k
      BY <2>1, <2>3, <2>8, <3>1 DEF RowOK, exec
    <3>2. CASE j # k
      <4>1. RowOK(j) /\ rows'[j] = rows[j]
        BY <2>8, <3>2 DEF IInv, RowsOK
      <4> QED
        BY <2>3, <4>1 DEF RowOK
    <3> QED
      BY <3>1, <3>2
  <2>11. CallsOK'
    <3> SUFFICES ASSUME NEW d \in Call PROVE Owns(d)' /\ Stage(d)'
      BY DEF CallsOK
    <3>1. CASE d = c
      BY <1>1, <2>3, <2>4, <2>5, <2>8, <3>1 DEF Owns, Stage, Working, exec
    <3>2. CASE d # c
      <4>1. Owns(d) /\ Stage(d) /\ calls'[d] = calls[d] /\ expired \subseteq DOMAIN execs
        BY <2>6, <3>2 DEF IInv, CallsOK, TypeOK
      <4>2. Owns(d)'
        BY <1>2, <2>3, <4>1 DEF Owns
      <4>3. ASSUME calls[d].pc \in Working, rows[calls[d].key].id = calls[d].own
            PROVE  rows'[calls[d].key].id = calls[d].own
        <5>1. calls[d].own \in DOMAIN execs /\ calls[d].key \in Key
          BY <4>1, <4>3 DEF Owns, Working
        <5>2. calls[d].own # 0
          BY <2>1, <5>1
        <5>3. calls[d].key # k
          BY <1>5, <4>3, <5>2 DEF NoRow
        <5> QED
          BY <2>8, <4>3, <5>1, <5>3
      <4>4. calls[d].pc \in Working \cup {"done"} => execs'[calls[d].own] = execs[calls[d].own]
        BY <2>3, <4>1 DEF Owns
      <4> QED
        BY <1>2, <4>1, <4>2, <4>3, <4>4 DEF Stage, Working
    <3> QED
      BY <3>1, <3>2
  <2>12. Distinct'
    <3>1. \A d \in Call \ {c} : calls[d].pc \in Working => calls[d].own # id
      BY <2>1 DEF IInv, CallsOK, Owns
    <3> QED
      BY <2>4, <2>5, <2>6, <3>1 DEF IInv, Distinct
  <2>13. PostedIsRow'
    <3> SUFFICES ASSUME NEW j \in Key \ excused, NEW i \in Postings(j)'
                 PROVE  rows'[j].id = i
      BY <1>2 DEF PostedIsRow
    <3>1. i \in DOMAIN execs /\ execs[i].key = j /\ execs[i].posted
      BY <2>3 DEF Postings, exec
    <3>2. rows[j].id = i /\ i # 0
      BY <2>1, <3>1 DEF IInv, PostedIsRow, Postings
    <3>3. j # k
      BY <1>5, <3>2 DEF NoRow
    <3> QED
      BY <2>8, <3>2, <3>3
  <2> QED
    BY <2>9, <2>10, <2>11, <2>12, <2>13 DEF IInv
<1> QED
  BY <1>3, <1>4, <1>5 DEF Insert

\* The posting: the execution is the request's own, and its row unless excused.
LEMMA RunPreserves ==
  ASSUME IInv, NEW c \in Call, Run(c)
  PROVE  IInv'
<1> DEFINE call == calls[c]
           own  == call.own
<1>1. /\ call \in CallState /\ call.pc = "run" /\ call.key \in Key /\ call.hash \in Hash
      /\ own \in DOMAIN execs /\ execs[own].key = call.key /\ execs[own].hash = call.hash
      /\ ~execs[own].posted /\ Owns(c) /\ Stage(c)
  BY DEF Run, IInv, TypeOK, CallsOK, Owns, Stage, Working
<1>2. UNCHANGED <<rows, expired, excused, deaths>>
  BY DEF Run
<1>3. CASE Goto(c, "discard") /\ UNCHANGED execs
  <2> DEFINE new == [call EXCEPT !.pc = "discard"]
  <2>1. new \in CallState /\ calls' = [calls EXCEPT ![c] = new] /\ calls'[c] = new
    BY <1>1, <1>3 DEF Goto, CallState, PC, IInv, TypeOK
  <2>2. new.pc = "discard" /\ new.key = call.key /\ new.hash = call.hash /\ new.own = own
    BY <1>1 DEF CallState
  <2>3. Owns(c)' /\ Stage(c)'
    BY <1>1, <1>3, <2>1, <2>2 DEF Owns, Stage, Working
  <2> HIDE DEF new
  <2> QED
    BY <1>1, <1>2, <1>3, <2>1, <2>2, <2>3, LocalStep DEF IInv, TypeOK, Working
<1>4. CASE execs' = [execs EXCEPT ![own].posted = TRUE] /\ Goto(c, "ran")
  <2> DEFINE new  == [call EXCEPT !.pc = "ran"]
             exec == [execs[own] EXCEPT !.posted = TRUE]
  <2>1. /\ execs \in Seq(Exec) /\ Len(execs) \in Nat /\ DOMAIN execs = 1..Len(execs)
        /\ execs[own] \in Exec
    BY <1>1, Execs DEF IInv
  <2>2. /\ exec \in Exec /\ exec.posted /\ exec.key = call.key /\ exec.hash = call.hash
    BY <1>1, <2>1 DEF Exec
  <2>3. /\ execs' \in Seq(Exec) /\ DOMAIN execs' = DOMAIN execs /\ Len(execs') = Len(execs)
        /\ execs'[own] = exec /\ \A i \in DOMAIN execs \ {own} : execs'[i] = execs[i]
    <3>1. execs' = [execs EXCEPT ![own] = exec] /\ own \in 1..Len(execs)
      BY <1>1, <1>4, <2>1
    <3> HIDE DEF exec, own
    <3> QED
      BY <2>1, <2>2, <3>1, ExceptSeq
  <2>4. new \in CallState /\ calls' = [calls EXCEPT ![c] = new] /\ calls'[c] = new
    BY <1>1, <1>4 DEF Goto, CallState, PC, IInv, TypeOK
  <2>5. new.pc = "ran" /\ new.key = call.key /\ new.hash = call.hash /\ new.own = own
    BY <1>1 DEF CallState
  <2>6. \A d \in Call \ {c} : calls'[d] = calls[d]
    BY <1>4 DEF Goto, IInv, TypeOK
  <2>7. TypeOK'
    <3>1. calls' \in [Call -> CallState]
      BY <2>4 DEF IInv, TypeOK
    <3> QED
      BY <1>2, <2>3, <3>1 DEF IInv, TypeOK, Exec
  <2> HIDE DEF new, exec
  <2>8. \A i \in DOMAIN execs : /\ execs'[i].key = execs[i].key /\ execs'[i].hash = execs[i].hash
                                /\ execs[i].posted => execs'[i].posted
    BY <1>1, <2>2, <2>3
  <2>9. RowsOK'
    BY <1>2, <2>3, <2>8 DEF IInv, RowsOK, RowOK
  <2>10. CallsOK'
    <3> SUFFICES ASSUME NEW d \in Call PROVE Owns(d)' /\ Stage(d)'
      BY DEF CallsOK
    <3>1. CASE d = c
      BY <1>1, <1>2, <2>2, <2>3, <2>4, <2>5, <3>1 DEF Owns, Stage, Working
    <3>2. CASE d # c
      <4>1. Owns(d) /\ Stage(d) /\ calls'[d] = calls[d] /\ expired \subseteq DOMAIN execs
        BY <2>6, <3>2 DEF IInv, CallsOK, TypeOK
      <4>2. Owns(d)'
        BY <1>2, <2>3, <2>8, <4>1 DEF Owns
      <4>3. calls[d].pc \in Working => calls[d].own # own /\ calls[d].own \in DOMAIN execs
        BY <1>1, <3>2, <4>1 DEF IInv, Distinct, Working, Owns
      <4>4. calls[d].pc = "done" => execs'[calls[d].own].posted
        BY <2>8, <4>1 DEF Owns, Stage
      <4> QED
        BY <1>2, <2>3, <4>1, <4>2, <4>3, <4>4 DEF Stage, Working
    <3> QED
      BY <3>1, <3>2
  <2>11. Distinct'
    BY <1>1, <2>4, <2>5, <2>6 DEF IInv, Distinct, Working
  <2>12. PostedIsRow'
    <3> SUFFICES ASSUME NEW j \in Key \ excused, NEW i \in Postings(j)'
                 PROVE  rows[j].id = i
      BY <1>2 DEF PostedIsRow
    <3>1. CASE i = own
      BY <1>1, <2>2, <2>3, <3>1 DEF Postings, Stage
    <3>2. CASE i # own
      BY <2>3, <3>2 DEF IInv, PostedIsRow, Postings
    <3> QED
      BY <3>1, <3>2
  <2> QED
    BY <2>7, <2>9, <2>10, <2>11, <2>12 DEF IInv
<1> QED
  BY <1>3, <1>4 DEF Run

LEMMA RespondPreserves ==
  ASSUME IInv, NEW c \in Call, Respond(c)
  PROVE  IInv'
<1> DEFINE call == calls[c]
<1>1. call \in CallState /\ call.pc = "ran" /\ call.key \in Key /\ Owns(c) /\ Stage(c)
  BY DEF Respond, IInv, TypeOK, CallsOK, Owns
<1>2. UNCHANGED <<rows, execs, expired, deaths>>
  BY DEF Respond
<1>3. ASSUME NEW pc \in {"persist", "discard"}, Goto(c, pc),
             excused' = IF pc = "discard" THEN excused \cup {call.key} ELSE excused
      PROVE  IInv'
  <2> DEFINE new == [call EXCEPT !.pc = pc]
  <2>1. new \in CallState /\ calls' = [calls EXCEPT ![c] = new] /\ calls'[c] = new
    BY <1>1, <1>3 DEF Goto, CallState, PC, IInv, TypeOK
  <2>2. new.pc = pc /\ new.key = call.key /\ new.hash = call.hash /\ new.own = call.own
    BY <1>1 DEF CallState
  <2>3. excused \subseteq excused' /\ excused' \subseteq Key
    BY <1>1, <1>3 DEF IInv, TypeOK
  <2>4. Owns(c)' /\ Stage(c)'
    BY <1>1, <1>2, <1>3, <2>1, <2>2 DEF Owns, Stage, Working
  <2> HIDE DEF new
  <2> QED
    BY <1>1, <1>2, <2>1, <2>2, <2>3, <2>4, LocalStep DEF IInv, TypeOK, Working
<1> QED
  BY <1>3 DEF Respond

\* The row of a request's key is written only while it is the request's own: what it
\* becomes then is either nothing or its completed reservation.
LEMMA OwnRowStep ==
  ASSUME IInv, NEW c \in Call, calls[c].pc \in {"persist", "discard"}, Return(c),
         NEW row \in Row,
         rows' = IF rows[calls[c].key].id = calls[c].own
                 THEN [rows EXCEPT ![calls[c].key] = row] ELSE rows,
         \/ row = NoRow /\ calls[c].pc = "discard"
         \/ /\ row = [rows[calls[c].key] EXCEPT !.response = calls[c].own]
            /\ calls[c].pc = "persist",
         UNCHANGED <<execs, expired, excused, deaths>>
  PROVE  IInv'
<1> DEFINE call == calls[c]
           k    == call.key
<1>1. /\ k \in Key /\ Owns(c) /\ Stage(c) /\ call.own \in DOMAIN execs
      /\ execs[call.own].key = k
      /\ RowOK(k) /\ rows[k] \in Row
  BY DEF IInv, TypeOK, CallsOK, RowsOK, Owns, Working
<1>2. CASE rows[k].id # call.own
  BY <1>2, ReturnStep DEF IInv, TypeOK
<1>3. CASE rows[k].id = call.own
  <2>1. rows' \in [Key -> Row] /\ rows'[k] = row /\ \A j \in Key \ {k} : rows'[j] = rows[j]
    BY <1>1, <1>3 DEF IInv, TypeOK
  <2>2. Idle \in CallState /\ calls' = [calls EXCEPT ![c] = Idle]
    BY DEF Return, Idle, CallState, PC
  <2>3. calls'[c] = Idle /\ \A d \in Call \ {c} : calls'[d] = calls[d]
    BY <2>2 DEF IInv, TypeOK
  <2>4. TypeOK'
    BY <2>1, <2>2 DEF IInv, TypeOK
  <2>5. call.own \in Nat \ {0}
    BY <1>1, Execs DEF IInv
  <2>6. row # NoRow => /\ call.pc = "persist" /\ row.id = call.own /\ row.hash = rows[k].hash
                      /\ row.response = call.own /\ rows[k] # NoRow
    BY <1>1, <1>3, <2>5 DEF Row, NoRow
  <2>7. RowsOK'
    <3> SUFFICES ASSUME NEW j \in Key PROVE RowOK(j)'
      BY DEF RowsOK
    <3>1. CASE j = k
      <4>1. rows'[j] = row /\ RowOK(j)
        BY <1>1, <2>1, <3>1
      <4> QED
        BY <1>1, <1>3, <2>6, <3>1, <4>1 DEF RowOK, Stage
    <3>2. CASE j # k
      BY <2>1, <3>2 DEF IInv, RowsOK, RowOK
    <3> QED
      BY <3>1, <3>2
  <2>8. CallsOK'
    <3> SUFFICES ASSUME NEW d \in Call PROVE Owns(d)' /\ Stage(d)'
      BY DEF CallsOK
    <3>1. CASE d = c
      BY <2>3, <3>1 DEF Owns, Stage, Idle, Working
    <3>2. CASE d # c
      <4>1. Owns(d) /\ Stage(d) /\ calls'[d] = calls[d]
        BY <2>3, <3>2 DEF IInv, CallsOK
      <4>2. calls[d].pc \in Working => calls[d].own # call.own /\ calls[d].key \in Key
        BY <3>2, <4>1 DEF IInv, Distinct, Working, Owns
      <4>3. ASSUME calls[d].pc \in Working, rows[calls[d].key].id = calls[d].own
            PROVE  rows'[calls[d].key].id = calls[d].own
        BY <1>3, <2>1, <4>2, <4>3
      <4> QED
        BY <4>1, <4>3 DEF Owns, Stage, Working
    <3> QED
      BY <3>1, <3>2
  <2>9. Distinct'
    BY <2>3 DEF IInv, Distinct, Idle, Working
  <2>10. PostedIsRow'
    <3> SUFFICES ASSUME NEW j \in Key \ excused, NEW i \in Postings(j)
                 PROVE  rows'[j].id = i
      BY DEF PostedIsRow, Postings
    <3>1. rows[j].id = i /\ execs[i].posted
      BY DEF IInv, PostedIsRow, Postings
    <3>2. CASE j = k
      <4>1. call.pc = "persist"
        BY <1>1, <1>3, <3>1, <3>2 DEF Stage
      <4>2. row.id = call.own
        BY <1>1, <1>3, <4>1 DEF Row
      <4> QED
        BY <1>3, <2>1, <3>1, <3>2, <4>2
    <3>3. CASE j # k
      BY <2>1, <3>1, <3>3
    <3> QED
      BY <3>2, <3>3
  <2> QED
    BY <2>4, <2>7, <2>8, <2>9, <2>10 DEF IInv
<1> QED
  BY <1>2, <1>3

LEMMA PersistPreserves ==
  ASSUME IInv, NEW c \in Call, PersistResponse(c)
  PROVE  IInv'
<1> DEFINE row == [rows[calls[c].key] EXCEPT !.response = calls[c].own]
<1>1. /\ calls[c].pc = "persist" /\ calls[c].key \in Key /\ calls[c].own \in Id \cup {0}
      /\ Return(c) /\ UNCHANGED <<execs, expired, excused, deaths>>
  BY DEF PersistResponse, IInv, TypeOK, CallsOK, Owns, CallState
<1>2. row \in Row
  BY <1>1 DEF IInv, TypeOK, Row
<1>3. rows' = IF rows[calls[c].key].id = calls[c].own
              THEN [rows EXCEPT ![calls[c].key] = row] ELSE rows
  BY DEF PersistResponse
<1> QED
  BY <1>1, <1>2, <1>3, OwnRowStep

LEMMA DiscardPreserves ==
  ASSUME IInv, NEW c \in Call, Discard(c)
  PROVE  IInv'
<1>1. NoRow \in Row
  BY DEF NoRow, Row
<1> QED
  BY <1>1, OwnRowStep DEF Discard

LEMMA PassTtlPreserves ==
  ASSUME IInv, NEW k \in Key, PassTtl(k)
  PROVE  IInv'
<1>1. /\ rows[k].id \in DOMAIN execs /\ expired' = expired \cup {rows[k].id}
      /\ UNCHANGED <<rows, execs, calls, excused, deaths>>
  BY DEF PassTtl, IInv, RowsOK, RowOK, InProgress
<1>2. TypeOK'
  BY <1>1 DEF IInv, TypeOK
<1>3. RowsOK' /\ Distinct' /\ PostedIsRow'
  BY <1>1 DEF IInv, RowsOK, RowOK, Distinct, PostedIsRow, Postings
<1>4. CallsOK'
  BY <1>1 DEF IInv, CallsOK, Owns, Stage
<1> QED
  BY <1>2, <1>3, <1>4 DEF IInv

LEMMA NextInv == IInv /\ [Next]_vars => IInv'
<1> SUFFICES ASSUME IInv, [Next]_vars PROVE IInv'
  OBVIOUS
<1>1. ASSUME NEW c \in Call, NEW k \in Key, NEW h \in Hash, Receive(c, k, h) PROVE IInv'
  BY <1>1, ReceivePreserves
<1>2. ASSUME NEW c \in Call, Serve(c) PROVE IInv'
  BY <1>2, LookPreserves, ReleasePreserves, InsertPreserves, RunPreserves, RespondPreserves,
     PersistPreserves, DiscardPreserves DEF Serve
<1>3. ASSUME NEW c \in Call, Abort(c) PROVE IInv'
  BY <1>3, AbortPreserves
<1>4. ASSUME NEW k \in Key, PassTtl(k) PROVE IInv'
  BY <1>4, PassTtlPreserves
<1>5. CASE UNCHANGED vars
  BY <1>5 DEF vars, IInv, TypeOK, RowsOK, RowOK, CallsOK, Owns, Stage, Distinct,
              PostedIsRow, Postings
<1> QED
  BY <1>1, <1>2, <1>3, <1>4, <1>5 DEF Next

(***************************************************************************)
(* The theorems.                                                            *)
(***************************************************************************)
\* What every reachable state satisfies; the theorems below follow from it.
THEOREM IdempotencyInvariant == Spec => []IInv
BY InitInv, NextInv, PTL DEF Spec

\* Rows, executions and requests keep their types: in particular no reservation is
\* taken for stale that was never made.
THEOREM IdempotencyTypeCorrect == Spec => []TypeOK
<1>1. IInv => TypeOK
  BY DEF IInv
<1> QED
  BY <1>1, IdempotencyInvariant, PTL

\* A key posts once, however often and however concurrently it is sent, unless a handler
\* failed after posting or the TTL ran out on one that had begun.
THEOREM IdempotencyEffectOnce == Spec => []EffectOnce
<1>1. IInv => EffectOnce
  <2> SUFFICES ASSUME IInv, NEW k \in Key \ excused PROVE Cardinality(Postings(k)) <= 1
    BY DEF EffectOnce
  <2>1. Postings(k) \subseteq {rows[k].id}
    BY DEF IInv, PostedIsRow
  <2>2. IsFiniteSet({rows[k].id}) /\ Cardinality({rows[k].id}) = 1
    BY FS_Singleton
  <2>3. Cardinality(Postings(k)) <= Cardinality({rows[k].id})
    BY <2>1, <2>2, FS_Subset
  <2> QED
    BY <2>2, <2>3
<1> QED
  BY <1>1, IdempotencyInvariant, PTL

\* Two handlers run under one key only if the TTL ran out on one of them.
THEOREM IdempotencyHandlersExclude == Spec => []HandlersExclude
<1>1. IInv => HandlersExclude
  <2> SUFFICES ASSUME IInv, NEW c \in Call, NEW d \in Call, c # d, calls[c].key = calls[d].key,
                      calls[c].pc \in {"run", "ran"}, calls[d].pc \in {"run", "ran"}
               PROVE  calls[c].own \in expired \/ calls[d].own \in expired
    BY DEF HandlersExclude
  <2>1. calls[c].own # calls[d].own
    BY DEF IInv, Distinct, Working
  <2> QED
    BY <2>1 DEF IInv, CallsOK, Stage
<1> QED
  BY <1>1, IdempotencyInvariant, PTL

\* A success a client receives, fresh or replayed, tells of a posting made for the body
\* it sent.
THEOREM IdempotencyAnswerIsOfItsBody == Spec => []AnswerIsOfItsBody
<1>1. IInv => AnswerIsOfItsBody
  <2> SUFFICES ASSUME IInv, NEW c \in Call, calls[c].pc \in {"persist", "done"}
               PROVE  execs[calls[c].own] =
                        [key |-> calls[c].key, hash |-> calls[c].hash, posted |-> TRUE]
    BY DEF AnswerIsOfItsBody
  <2>1. /\ calls[c].own \in DOMAIN execs /\ execs[calls[c].own].key = calls[c].key
        /\ execs[calls[c].own].hash = calls[c].hash /\ execs[calls[c].own].posted
    BY DEF IInv, CallsOK, Owns, Stage, Working
  <2>2. execs[calls[c].own] \in Exec
    BY <2>1, Execs DEF IInv
  <2> QED
    BY <2>1, <2>2 DEF Exec
<1> QED
  BY <1>1, IdempotencyInvariant, PTL

\* A reservation stores the answer of its own execution and of no other.
THEOREM IdempotencyStoredAnswerIsOwn == Spec => []StoredAnswerIsOwn
<1>1. IInv => StoredAnswerIsOwn
  BY DEF IInv, RowsOK, RowOK, StoredAnswerIsOwn, NoRow
<1> QED
  BY <1>1, IdempotencyInvariant, PTL
==========================================================================
