--------------------------- MODULE Idempotency ---------------------------
(***************************************************************************)
(* src/src/middleware/idempotency.js in front of a handler that posts.     *)
(*                                                                         *)
(* A request with an Idempotency-Key reserves a row of                     *)
(* api_idempotency_requests, runs the handler, and only then      *)
(* stores the answer in the row (or deletes the row when the answer is an  *)
(* error).  Every database call is an action; a process may stop between   *)
(* any two.  Time is abstracted to the set of reservations older than      *)
(* IDEMPOTENCY_IN_PROGRESS_TTL_MS, which is assumed not to be 0.           *)
(***************************************************************************)
EXTENDS Naturals, Sequences, FiniteSets

CONSTANTS
    Key,        \* scope, user, method, route and Idempotency-Key: the unique index
    Hash,       \* hashes of request bodies
    Call,       \* requests being served at the same time
    MaxId,      \* bound: reservations made
    MaxDeaths,  \* bound: requests that die
    NoKey, NoHash

ASSUME IdempotencyAssumption == MaxId \in Nat /\ MaxDeaths \in Nat /\ NoKey \notin Key /\ NoHash \notin Hash

Id == 1..MaxId                  \* reservations, each one execution of a handler

VARIABLES
    rows,       \* api_idempotency_requests: key -> row
    execs,      \* what each reservation ran: key, body, and whether it has posted
    expired,    \* reservations older than the TTL
    calls,      \* the requests in flight
    deaths,     \* requests that died midway
    excused     \* history: keys an execution of which was lost sight of

vars == <<rows, execs, expired, calls, deaths, excused>>

Row == [ id : Id \cup {0}, hash : Hash \cup {NoHash}, response : Id \cup {0} ]
NoRow == [ id |-> 0, hash |-> NoHash, response |-> 0 ]
InProgress(row) == row # NoRow /\ row.response = 0

PC == {"idle", "look", "release", "insert", "run", "ran", "persist", "discard", "done"}

CallState == [ pc : PC, key : Key \cup {NoKey}, hash : Hash \cup {NoHash},
               round : 0..2, own : Id \cup {0} ]
Idle == [ pc |-> "idle", key |-> NoKey, hash |-> NoHash, round |-> 0, own |-> 0 ]

Goto(c, pc) == calls' = [calls EXCEPT ![c].pc = pc]
Return(c)   == calls' = [calls EXCEPT ![c] = Idle]

Init ==
    /\ rows = [k \in Key |-> NoRow]
    /\ execs = << >>
    /\ expired = {}
    /\ calls = [c \in Call |-> Idle]
    /\ deaths = 0
    /\ excused = {}
--------------------------------------------------------------------------
(* The reservation.                                                        *)

\* A client sends, or sends again, a body under a key.
Receive(c, k, h) ==
    /\ calls[c].pc \in {"idle", "done"}
    /\ calls' = [calls EXCEPT ![c] = [Idle EXCEPT !.pc = "look", !.key = k, !.hash = h]]
    /\ UNCHANGED <<rows, execs, expired, excused, deaths>>

\* The stored answer is sent: "done" is a request whose client has a success.
Replay(c, row) ==
    calls' = [calls EXCEPT ![c].pc = "done", ![c].own = row.response]

\* Mutant: a reservation in progress is taken over however young it is.
LookImpatient(c) ==
    LET call == calls[c]
        row  == rows[call.key]
    IN
    /\ call.pc = "look"
    /\ \/ row = NoRow /\ call.round = 0 /\ Goto(c, "insert")
       \/ /\ row # NoRow /\ row.hash = call.hash /\ InProgress(row) /\ call.round < 2
          /\ calls' = [calls EXCEPT ![c].pc = "release", ![c].own = row.id]
       \/ row # NoRow /\ row.hash = call.hash /\ ~InProgress(row) /\ Replay(c, row)
       \/ row # NoRow /\ row.hash # call.hash /\ Return(c)
    /\ UNCHANGED <<rows, execs, expired, excused, deaths>>

\* Mutant: the hash is compared only on the first look.
LookUnhashed(c) ==
    LET call == calls[c]
        row  == rows[call.key]
    IN
    /\ call.pc = "look"
    /\ \/ row = NoRow /\ call.round = 0 /\ Goto(c, "insert")
       \/ /\ row # NoRow /\ (call.round > 0 \/ row.hash = call.hash)
          /\ ~InProgress(row) /\ Replay(c, row)
       \/ row # NoRow /\ Return(c)
    /\ UNCHANGED <<rows, execs, expired, excused, deaths>>

\* The row is read and judged: on arrival (round 0), and again after each insert
\* that met the unique index (rounds 1 and 2).  A row gone by then is a 500.
Look(c) ==
    LET call == calls[c]
        row  == rows[call.key]
        takeOver == InProgress(row) /\ row.id \in expired /\ call.round < 2
        refused == \/ row = NoRow /\ call.round > 0
                   \/ row # NoRow /\ row.hash # call.hash
                   \/ InProgress(row) /\ ~takeOver
    IN
    /\ call.pc = "look"
    /\ \/ refused /\ Return(c)
       \/ row = NoRow /\ ~refused /\ Goto(c, "insert")
       \/ /\ takeOver /\ ~refused
          /\ calls' = [calls EXCEPT ![c].pc = "release", ![c].own = row.id]
       \/ row # NoRow /\ ~InProgress(row) /\ ~refused /\ Replay(c, row)
    /\ UNCHANGED <<rows, execs, expired, excused, deaths>>

Live(id) == \E c \in Call : calls[c].pc \in {"run", "ran"} /\ calls[c].own = id

\* Mutant: only completed reservations are deleted.
ReleaseCompleted(c) ==
    LET call == calls[c] IN
    /\ call.pc = "release"
    /\ IF rows[call.key].id = call.own /\ ~InProgress(rows[call.key])
       THEN /\ rows' = [rows EXCEPT ![call.key] = NoRow]
            /\ calls' = [calls EXCEPT ![c].pc = "insert", ![c].own = 0]
       ELSE Return(c) /\ UNCHANGED rows
    /\ UNCHANGED <<execs, expired, excused, deaths>>

\* delete ... where id = the row read and it is still in progress.
ReleaseStaleInProgressReservation(c) ==
    LET call == calls[c]
        k    == call.key
        mine == rows[k].id = call.own /\ InProgress(rows[k])
    IN
    /\ call.pc = "release"
    /\ \/ /\ mine
          /\ rows' = [rows EXCEPT ![k] = NoRow]
          /\ excused' = IF Live(call.own) \/ execs[call.own].posted THEN excused \cup {k} ELSE excused
          /\ calls' = [calls EXCEPT ![c].pc = "insert", ![c].own = 0]
       \/ ~mine /\ Return(c) /\ UNCHANGED <<rows, excused>>
    /\ UNCHANGED <<execs, expired, deaths>>

\* The unique index lets one row per key in.  Past the bound the insert fails.
Insert(c) ==
    LET call == calls[c]
        k    == call.key
        id   == Len(execs) + 1
    IN
    /\ call.pc = "insert"
    /\ \/ /\ rows[k] = NoRow /\ id <= MaxId
          /\ rows' = [rows EXCEPT ![k] = [id |-> id, hash |-> call.hash, response |-> 0]]
          /\ execs' = Append(execs, [key |-> k, hash |-> call.hash, posted |-> FALSE])
          /\ calls' = [calls EXCEPT ![c].pc = "run", ![c].own = id]
       \/ /\ rows[k] # NoRow
          /\ calls' = [calls EXCEPT ![c].pc = "look", ![c].round = @ + 1]
          /\ UNCHANGED <<rows, execs>>
       \/ rows[k] = NoRow /\ id > MaxId /\ Return(c) /\ UNCHANGED <<rows, execs>>
    /\ UNCHANGED <<expired, excused, deaths>>
--------------------------------------------------------------------------
(* The handler, its answer, and persistResponse.                           *)

\* The handler posts; or it fails before it does and its error is the answer.
Run(c) ==
    /\ calls[c].pc = "run"
    /\ \/ execs' = [execs EXCEPT ![calls[c].own].posted = TRUE] /\ Goto(c, "ran")
       \/ Goto(c, "discard") /\ UNCHANGED execs
    /\ UNCHANGED <<rows, expired, excused, deaths>>

\* res.json.  A step after the posting may fail: the answer is an error then,
\* although the posting stays.
Respond(c) ==
    LET call == calls[c] IN
    /\ call.pc = "ran"
    /\ \/ Goto(c, "persist") /\ UNCHANGED excused
       \/ /\ excused' = excused \cup {call.key}
          /\ Goto(c, "discard")
    /\ UNCHANGED <<rows, execs, expired, deaths>>

\* Mutant: the answer goes to whatever row the key has now.
PersistByKey(c) ==
    LET call == calls[c] IN
    /\ call.pc = "persist"
    /\ rows' = IF rows[call.key] # NoRow
               THEN [rows EXCEPT ![call.key].response = call.own] ELSE rows
    /\ Return(c)
    /\ UNCHANGED <<execs, expired, excused, deaths>>

\* Mutant: the reservation is dropped after a success as after an error.
PersistNothing(c) ==
    LET call == calls[c] IN
    /\ call.pc = "persist"
    /\ rows' = IF rows[call.key].id = call.own
               THEN [rows EXCEPT ![call.key] = NoRow] ELSE rows
    /\ Return(c)
    /\ UNCHANGED <<execs, expired, excused, deaths>>

\* update ... where id = the reservation, after the answer has left.
PersistResponse(c) ==
    LET call == calls[c] IN
    /\ call.pc = "persist"
    /\ rows' = IF rows[call.key].id = call.own
               THEN [rows EXCEPT ![call.key].response = call.own] ELSE rows
    /\ Return(c)
    /\ UNCHANGED <<execs, expired, excused, deaths>>

\* delete ... where id = the reservation, after an answer that is not a 2xx.
Discard(c) ==
    LET call == calls[c] IN
    /\ call.pc = "discard"
    /\ rows' = IF rows[call.key].id = call.own
               THEN [rows EXCEPT ![call.key] = NoRow] ELSE rows
    /\ Return(c)
    /\ UNCHANGED <<execs, expired, excused, deaths>>

\* The process stops, or the database call fails: persistResponse swallows the
\* error, the others answer with one.
Abort(c) ==
    /\ calls[c].pc \notin {"idle", "done"} /\ deaths < MaxDeaths
    /\ deaths' = deaths + 1
    /\ Return(c)
    /\ UNCHANGED <<rows, execs, expired, excused>>

\* Mutant: age alone makes a reservation stale, whether or not there is one.
PassTtlAny(k) ==
    /\ expired' = expired \cup {rows[k].id}
    /\ UNCHANGED <<rows, execs, calls, excused, deaths>>

\* isStaleInProgressReservation holds of the row from now on.
PassTtl(k) ==
    /\ InProgress(rows[k])
    /\ expired' = expired \cup {rows[k].id}
    /\ UNCHANGED <<rows, execs, calls, excused, deaths>>

Serve(c) ==
    \/ Look(c) \/ ReleaseStaleInProgressReservation(c) \/ Insert(c)
    \/ Run(c) \/ Respond(c) \/ PersistResponse(c) \/ Discard(c)

Next ==
    \/ \E c \in Call : \/ \E k \in Key, h \in Hash : Receive(c, k, h)
                       \/ Serve(c) \/ Abort(c)
    \/ \E k \in Key : PassTtl(k)

\* A request is served unless it dies, time passes, and clients send again.
Fairness ==
    /\ \A c \in Call : WF_vars(Serve(c))
    /\ \A k \in Key : WF_vars(PassTtl(k))
    /\ \A c \in Call, k \in Key, h \in Hash : SF_vars(Receive(c, k, h))

Spec == Init /\ [][Next]_vars
FairSpec == Spec /\ Fairness
--------------------------------------------------------------------------
(* Properties.                                                             *)

TypeOK ==
    /\ rows \in [Key -> Row]
    /\ execs \in Seq([key : Key, hash : Hash, posted : BOOLEAN]) /\ Len(execs) <= MaxId
    /\ expired \subseteq DOMAIN execs
    /\ calls \in [Call -> CallState]
    /\ deaths \in 0..MaxDeaths
    /\ excused \subseteq Key

Postings(k) == {i \in DOMAIN execs : execs[i].key = k /\ execs[i].posted}

\* A key posts once, however often and however concurrently it is sent, unless a
\* handler failed after posting or the TTL ran out on one that had begun.
EffectOnce == \A k \in Key \ excused : Cardinality(Postings(k)) <= 1

\* Two handlers run under one key only if the TTL ran out on one of them.
HandlersExclude ==
    \A c, d \in Call :
        /\ c # d /\ calls[c].key = calls[d].key
        /\ calls[c].pc \in {"run", "ran"} /\ calls[d].pc \in {"run", "ran"}
        => {calls[c].own, calls[d].own} \cap expired # {}

\* A success a client receives, fresh or replayed, tells of a posting made for the
\* body it sent, also when the key was sent with other bodies in between.
AnswerIsOfItsBody ==
    \A c \in Call : calls[c].pc \in {"persist", "done"} =>
        execs[calls[c].own] = [key |-> calls[c].key, hash |-> calls[c].hash, posted |-> TRUE]

\* A reservation stores the answer of its own execution and of no other, also
\* when the key has been taken over while the older handler was still running.
StoredAnswerIsOwn == \A k \in Key : rows[k].response \in {0, rows[k].id}

\* A key whose process died is not blocked for ever: the reservation is
\* completed or given up.
NoKeyStaysBlocked == \A k \in Key : InProgress(rows[k]) ~> ~InProgress(rows[k])
==========================================================================
