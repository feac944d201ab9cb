------------------------------- MODULE Telemetry -------------------------------
(***************************************************************************)
(* How a process of the server speaks to the database and counts what it    *)
(* does: the fetch that repeats what may be repeated                        *)
(* (src/src/config/supabase.js), the counters and samples of                *)
(* services/observability.service.js, and the queue that is written to      *)
(* api_metrics and api_errors (services/api-metrics-collector.service.js),  *)
(* whose flush goes through the same fetch and ends with the process.       *)
(*                                                                          *)
(* A request does one query, as a job of its own or not, and is answered.   *)
(* Rows are numbered in the order they were recorded.  The counters by      *)
(* endpoint, operation and job type are kept as those by tenant are, and    *)
(* are left out.                                                            *)
(***************************************************************************)
EXTENDS Naturals, FiniteSets, SequencesExt

CONSTANTS
    Call,
    Tenant,
    MaxAttempts,  \* SUPABASE_FETCH_RETRY_MAX_ATTEMPTS
    MaxQueue,     \* API_METRICS_MAX_QUEUE_SIZE
    BatchSize,    \* API_METRICS_BATCH_SIZE
    SampleLimit,  \* OBSERVABILITY_SAMPLE_LIMIT
    MaxRows       \* bound: requests recorded

VARIABLES
    up, timer,            \* the process runs; its flush timer
    closing,              \* shutdown has begun, and whether it waits for a flush
    fetches,              \* the fetch of each caller
    calls,
    counts, tenants,      \* state.request, .db, .jobs and state.tenants
    samples,              \* listDurations and heavyReportDurations: slow or not
    queues,               \* metricsQueue and errorsQueue
    flush,                \* flushing, and the batch that was taken off a queue
    recorded,             \* history: the rows that were queued, and which tell of an error
    tables,               \* api_metrics and api_errors
    gone,                 \* history: rows of the metrics queue that were given up
    disturbed             \* history: an insert failed, a queue was full or the end overlapped

vars == << up, timer, closing, fetches, calls, counts, tenants, samples, queues, flush,
           recorded, tables, gone, disturbed >>

Unknown == "unknown"
Queue == {"metrics", "errors"}
Kinds == {"request", "db", "job"}
Flusher == "flusher"
Caller == Call \cup {Flusher}

Zero == [total |-> 0, failed |-> 0, serverError |-> 0]
NoFetch == [at |-> "idle", method |-> "", tenant |-> "", attempt |-> 0, applied |-> 0]
NoCallYet == [pc |-> "idle", job |-> FALSE, status |-> 0]
NoFlush == [at |-> "idle", batch |-> <<>>]

NoFetches == [c \in Caller |-> NoFetch]
NoCalls == [c \in Call |-> NoCallYet]
NoCounts == [k \in Kinds |-> Zero]
NoTenants == [k \in Kinds |-> [t \in Tenant \cup {Unknown} |-> Zero]]
NoSamples == [s \in {"list", "heavy"} |-> <<>>]
NoQueues == [q \in Queue |-> <<>>]

Init ==
    /\ up = TRUE /\ timer = TRUE /\ closing = "no"
    /\ fetches = NoFetches /\ calls = NoCalls
    /\ counts = NoCounts /\ tenants = NoTenants /\ samples = NoSamples
    /\ queues = NoQueues /\ flush = NoFlush
    /\ recorded = <<>> /\ tables = NoQueues
    /\ gone = {} /\ disturbed = FALSE
----------------------------------------------------------------------------
(* Counters.                                                                *)

Tally(row, status, failed) ==
    [ total |-> row.total + 1,
      failed |-> row.failed + IF failed THEN 1 ELSE 0,
      serverError |-> row.serverError + IF status >= 500 THEN 1 ELSE 0 ]

Observe(kind, tenant, status, failed) ==
    /\ counts' = [counts EXCEPT ![kind] = Tally(@, status, failed)]
    /\ tenants' = [tenants EXCEPT ![kind][tenant] = Tally(@, status, failed)]

ObserveRequest(tenant, status) == Observe("request", tenant, status, status >= 400)
ObserveDbQuery(tenant, status) == Observe("db", tenant, 0, status >= 400 \/ status = 0)
ObserveJob(tenant, failed) == Observe("job", tenant, 0, failed)

PushSample(series, value) ==
    IF Len(series) < SampleLimit THEN Append(series, value) ELSE Append(Tail(series), value)

\* Nearest rank: slow when fewer than 95 of 100 samples are not.
Percentile95(series) ==
    LET n == Len(series) IN
    100 * Cardinality({i \in 1..n : ~series[i]}) < 95 * n

SloStatus(series) ==
    IF series = <<>> THEN "no_data" ELSE IF Percentile95(series) THEN "fail" ELSE "pass"

ResetObservability ==
    /\ up
    /\ counts' = NoCounts /\ tenants' = NoTenants /\ samples' = NoSamples
    /\ UNCHANGED << up, timer, closing, fetches, calls, queues, flush, recorded, tables, gone,
                    disturbed >>
----------------------------------------------------------------------------
(* The fetch.                                                               *)

\* A sign-in changes nothing that doing it twice would change again.
CanRetryRequest(method) == method \in {"read", "signIn"}

\* What an attempt may bring, as the status that is counted.
Outcomes == {"ok", "refused", "unavailable", "network", "broken"}
Status(o) == CASE o = "ok" -> 200 [] o = "refused" -> 400 [] o = "unavailable" -> 503
               [] o \in {"network", "broken"} -> 0

IsRetryable(o) == o \in {"unavailable", "network"}
Repeats(c, o) ==
    /\ CanRetryRequest(fetches[c].method) /\ MaxAttempts > 1
    /\ IsRetryable(o) /\ fetches[c].attempt < MaxAttempts

Ask(c, method, tenant) ==
    fetches' = [fetches EXCEPT ![c] = [ NoFetch EXCEPT !.at = "asked", !.method = method,
                                                       !.tenant = tenant, !.attempt = 1 ]]

\* An attempt that did not come back with an answer may have been carried out.
MayApply(o) == CASE o = "ok" -> {1} [] o = "refused" -> {0} [] OTHER -> {0, 1}

Insert(c, applied) ==
    tables' = IF c = Flusher /\ applied = 1
              THEN [tables EXCEPT ![flush.at] = @ \o flush.batch] ELSE tables

Attempt(c, o) ==
    /\ fetches[c].at = "asked"
    /\ ObserveDbQuery(fetches[c].tenant, Status(o))
    /\ \E applied \in MayApply(o) :
          /\ fetches' = [fetches EXCEPT
                ![c].applied = @ + applied,
                ![c].at = IF Repeats(c, o) THEN "asleep" ELSE "answered"]
          /\ Insert(c, applied)
    /\ calls' = IF c \in Call THEN [calls EXCEPT ![c].status = Status(o)] ELSE calls
    /\ flush' = IF c = Flusher /\ ~Repeats(c, o)
                THEN [flush EXCEPT !.batch = IF o = "ok" THEN <<>> ELSE @] ELSE flush
    /\ UNCHANGED <<up, timer, closing, samples, queues, recorded, gone, disturbed>>

AwakeFetch(c) ==
    /\ fetches[c].at = "asleep"
    /\ fetches' = [fetches EXCEPT ![c].at = "asked", ![c].attempt = @ + 1]
    /\ UNCHANGED << up, timer, closing, calls, counts, tenants, samples, queues, flush,
                    recorded, tables, gone, disturbed >>
----------------------------------------------------------------------------
(* Requests.                                                                *)

BeginRequest(c, method, tenant, job) ==
    /\ up /\ calls[c].pc = "idle"
    /\ Ask(c, method, tenant)
    /\ calls' = [calls EXCEPT ![c] = [NoCallYet EXCEPT !.pc = "query", !.job = job]]
    /\ UNCHANGED << up, timer, closing, counts, tenants, samples, queues, flush, recorded,
                    tables, gone, disturbed >>

Answer(status) == IF status \in {200, 400} THEN status ELSE 500

\* runObservedJob: once, however the task ends.
FinishJob(c) ==
    /\ calls[c].pc = "query" /\ fetches[c].at = "answered"
    /\ IF calls[c].job THEN ObserveJob(fetches[c].tenant, calls[c].status # 200)
       ELSE UNCHANGED <<counts, tenants>>
    /\ calls' = [calls EXCEPT ![c].pc = "respond", ![c].status = Answer(@)]
    /\ UNCHANGED << up, timer, closing, fetches, samples, queues, flush, recorded, tables,
                    gone, disturbed >>

\* The oldest rows make way.
TrimQueue(queue) ==
    IF Len(queue) <= MaxQueue THEN queue
    ELSE SubSeq(queue, Len(queue) - MaxQueue + 1, Len(queue))

Enqueue(q, row) == TrimQueue(Append(queues[q], row))

RecordApiMetric(status) ==
    LET row == Len(recorded) + 1
        Full(q) == Len(queues[q]) = MaxQueue
    IN
    /\ row <= MaxRows /\ recorded' = Append(recorded, status >= 400)
    /\ queues' = [ metrics |-> Enqueue("metrics", row),
                   errors |-> IF status >= 400 THEN Enqueue("errors", row)
                              ELSE queues["errors"] ]
    /\ gone' = IF Full("metrics") THEN gone \cup {Head(queues["metrics"])} ELSE gone
    /\ disturbed' = (disturbed \/ closing # "no" \/ \E q \in Queue : Full(q))

\* series: the sample, if any, that the path of the request belongs to.
Respond(c, series, slow, skipped) ==
    LET status == calls[c].status IN
    /\ calls[c].pc = "respond"
    /\ ObserveRequest(fetches[c].tenant, status)
    /\ samples' = [s \in DOMAIN samples |->
                      IF s = series THEN PushSample(samples[s], slow) ELSE samples[s]]
    /\ IF skipped THEN UNCHANGED <<recorded, queues, gone, disturbed>>
       ELSE RecordApiMetric(status)
    /\ calls' = [calls EXCEPT ![c] = NoCallYet]
    /\ fetches' = [fetches EXCEPT ![c] = NoFetch]
    /\ UNCHANGED <<up, timer, closing, flush, tables>>
----------------------------------------------------------------------------
(* The flush.                                                               *)

\* The rows leave the queue before they are written.
TakeBatch(q) ==
    LET n == IF Len(queues[q]) < BatchSize THEN Len(queues[q]) ELSE BatchSize IN
    /\ queues' = [queues EXCEPT ![q] = SubSeq(@, n + 1, Len(@))]
    /\ flush' = [at |-> q, batch |-> SubSeq(queues[q], 1, n)]
    /\ Ask(Flusher, "write", Unknown)

FirstQueue ==
    IF queues["metrics"] # <<>> THEN {"metrics"}
    ELSE IF queues["errors"] # <<>> THEN {"errors"} ELSE {}

FlushQueues ==
    /\ up /\ timer /\ flush.at = "idle"
    /\ \E q \in FirstQueue : TakeBatch(q)
    /\ UNCHANGED << up, timer, closing, calls, counts, tenants, samples, recorded, tables,
                    gone, disturbed >>

\* The metrics are done before the errors: once there are errors on their way, a metric
\* that was queued meanwhile waits for the next flush.
NextQueue ==
    IF flush.at = "metrics" THEN FirstQueue
    ELSE IF queues["errors"] # <<>> THEN {"errors"} ELSE {}

FlushGoesOn ==
    /\ fetches[Flusher].at = "answered" /\ flush.batch = <<>>
    /\ IF NextQueue = {}
       THEN /\ flush' = NoFlush /\ UNCHANGED queues
            /\ fetches' = [fetches EXCEPT ![Flusher] = NoFetch]
       ELSE \E q \in NextQueue : TakeBatch(q)
    /\ UNCHANGED << up, timer, closing, calls, counts, tenants, samples, recorded, tables,
                    gone, disturbed >>

GiveUp(rows) == gone' = gone \cup (rows \ Range(tables["metrics"]))
InFlush(q) == IF flush.at = q THEN Range(flush.batch) ELSE {}

FlushFails ==
    /\ fetches[Flusher].at = "answered" /\ flush.batch # <<>>
    /\ GiveUp(InFlush("metrics"))
    /\ disturbed' = TRUE
    /\ flush' = NoFlush
    /\ fetches' = [fetches EXCEPT ![Flusher] = NoFetch]
    /\ UNCHANGED <<up, timer, closing, calls, counts, tenants, samples, queues, recorded, tables>>

\* shutdown: the last flush, which finds nothing to wait for if one is running already.
Shutdown ==
    /\ up /\ closing = "no" /\ timer' = FALSE
    /\ IF flush.at = "idle" /\ FirstQueue # {}
       THEN /\ \E q \in FirstQueue : TakeBatch(q)
            /\ closing' = "waits"
       ELSE closing' = "free" /\ UNCHANGED <<queues, flush, fetches>>
    /\ disturbed' = (disturbed \/ flush.at # "idle")
    /\ UNCHANGED <<up, calls, counts, tenants, samples, recorded, tables, gone>>

Stop ==
    /\ up /\ up' = FALSE
    /\ GiveUp(Range(queues["metrics"]) \cup InFlush("metrics"))
    /\ timer' = TRUE /\ closing' = "no"
    /\ fetches' = NoFetches /\ calls' = NoCalls
    /\ counts' = NoCounts /\ tenants' = NoTenants /\ samples' = NoSamples
    /\ queues' = NoQueues /\ flush' = NoFlush
    /\ UNCHANGED <<recorded, tables>>

\* Requests that run are waited for once the flush is done, or not waited for.
Exit ==
    /\ closing # "no" /\ \A c \in Call : calls[c].pc = "idle"
    /\ closing = "free" \/ flush.at = "idle"
    /\ Stop /\ UNCHANGED disturbed

Crash == Stop /\ disturbed' = TRUE

Restart ==
    /\ ~up /\ up' = TRUE
    /\ UNCHANGED << timer, closing, fetches, calls, counts, tenants, samples, queues, flush,
                    recorded, tables, gone, disturbed >>

Next ==
    \/ \E c \in Call :
          \/ \E method \in {"read", "write", "signIn"}, tenant \in Tenant \cup {Unknown},
                job \in BOOLEAN : BeginRequest(c, method, tenant, job)
          \/ FinishJob(c)
          \/ \E series \in {"list", "heavy", "other"}, slow, skipped \in BOOLEAN :
                Respond(c, series, slow, skipped)
    \/ \E c \in Caller : AwakeFetch(c) \/ \E o \in Outcomes : Attempt(c, o)
    \/ FlushQueues \/ FlushGoesOn \/ FlushFails
    \/ ResetObservability \/ Shutdown \/ Exit \/ Crash \/ Restart

Spec == Init /\ [][Next]_vars
----------------------------------------------------------------------------
(* Properties.                                                              *)

Counter == [total : Nat, failed : Nat, serverError : Nat]
TypeOK ==
    /\ up \in BOOLEAN /\ timer \in BOOLEAN /\ closing \in {"no", "waits", "free"}
    /\ fetches \in [Caller -> [ at : {"idle", "asked", "asleep", "answered"},
                                method : {"", "read", "write", "signIn"},
                                tenant : Tenant \cup {Unknown, ""}, attempt : 0..MaxAttempts,
                                applied : 0..MaxAttempts ]]
    /\ calls \in [Call -> [ pc : {"idle", "query", "respond"}, job : BOOLEAN,
                            status : {0, 200, 400, 500, 503} ]]
    /\ counts \in [Kinds -> Counter]
    /\ tenants \in [Kinds -> [Tenant \cup {Unknown} -> Counter]]
    /\ flush.at \in Queue \cup {"idle"} /\ flush.batch \in Seq(1..MaxRows)
    /\ \A q \in Queue : queues[q] \in Seq(1..MaxRows) /\ tables[q] \in Seq(1..MaxRows)
    /\ recorded \in Seq(BOOLEAN) /\ gone \subseteq 1..MaxRows /\ disturbed \in BOOLEAN

\* supabase.js:59: however an attempt fails, a write reaches the database once at most.
WritesOnce == \A c \in Caller : fetches[c].method = "write" => fetches[c].applied <= 1

\* What the running batch has not written yet.
Waiting(q) ==
    (IF flush.at = q /\ fetches[Flusher].applied = 0 THEN flush.batch ELSE <<>>) \o queues[q]

\* api-metrics-collector.service.js:92: rows reach their table in order and once, wherever
\* a flush was cut, and none is lost without a failure that lost it.
RowsKept ==
    /\ \A q \in Queue : LET rows == tables[q] \o Waiting(q) IN
          \A i, j \in 1..Len(rows) : i < j => rows[i] < rows[j]
    /\ 1..Len(recorded) = Range(tables["metrics"] \o Waiting("metrics")) \cup gone
    /\ Range(tables["metrics"] \o Waiting("metrics")) \cap gone = {}
    /\ \A i \in Range(tables["errors"] \o Waiting("errors")) : recorded[i]
    /\ \A q \in Queue : Len(queues[q]) <= MaxQueue

Total(kind, field) == FoldSet(LAMBDA t, n : n + tenants[kind][t][field], 0, DOMAIN tenants[kind])

\* observability.service.js:154: the dashboards of the tenants add up to the totals, a
\* failure is counted where its total is, and the answer on the service level follows
\* from the samples that are kept.
CountsAgree ==
    /\ \A k \in Kinds, f \in {"total", "failed", "serverError"} : counts[k][f] = Total(k, f)
    /\ \A k \in Kinds :
          counts[k].serverError <= counts[k].failed /\ counts[k].failed <= counts[k].total
    /\ Len(samples["list"]) <= SampleLimit /\ Len(samples["heavy"]) <= SampleLimit
    /\ Len(samples["list"]) + Len(samples["heavy"]) <= counts["request"].total
    /\ \A s \in DOMAIN samples : Len(samples[s]) < 20 =>
          (SloStatus(samples[s]) = "fail" <=> TRUE \in Range(samples[s]))

TelemetryAgrees == WritesOnce /\ RowsKept /\ CountsAgree

\* When no insert failed, no queue was full and the process was not cut, everything that
\* was recorded is written once the queues are empty, and when the process has ended.
SerialTelemetry ==
    ~disturbed =>
        /\ gone = {}
        /\ (~up \/ (flush.at = "idle" /\ \A q \in Queue : queues[q] = <<>>)) =>
              /\ tables["metrics"] = [i \in 1..Len(recorded) |-> i]
              /\ tables["errors"] = SelectSeq(tables["metrics"], LAMBDA i : recorded[i])
=============================================================================
