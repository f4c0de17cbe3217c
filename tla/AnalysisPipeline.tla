-------------------------- MODULE AnalysisPipeline --------------------------
(***************************************************************************)
(* The life of an uploaded capture, from the upload slot to the stored     *)
(* result: the job row in PostgreSQL, the preparation that parses the      *)
(* capture (PcapPreparationWorker), the job queue and its deduplication,   *)
(* the analysis workers (Worker, PostgresPayloadLoader), the result queue  *)
(* and its consumer (persist_claimed_result), and the API calls that       *)
(* cancel and delete a job.                                                *)
(*                                                                         *)
(* A database transaction, a Redis command and a Redis script are atomic;  *)
(* everything between two of them interleaves.  A lease is "live" while    *)
(* its heartbeat renews it: it expires freely when the holder is gone, and *)
(* at the price of a fault when the holder is merely slow.                 *)
(***************************************************************************)
EXTENDS QueueOps

CONSTANTS
    Jobs,           \* uploaded captures
    Controllers,    \* controller processes, one consume_results thread each
    Workers,        \* analysis worker processes
    Clients,        \* API requests that read a job and then write it
    MaxAttempts,    \* PcapPreparationWorker.max_attempts
    MaxTokens,      \* bound: preparation lease tokens ever drawn
    MaxFaults,      \* bound: crashes, lost calls and leases expired too early
    None            \* no worker, no message

Attempts == 0 .. MaxAttempts
Tokens == 0 .. MaxTokens

\* The delivery that _enqueue_prepared pushes: attempt and token of the
\* preparation that produced it.
Messages == [job : Jobs, attempt : Attempts, token : Tokens]

\* What a worker pushes on the result queue.  "INVALID" is a COMPLETED result
\* the controller will refuse.  Only the STARTED event names its preparation.
Results ==
    [job : Jobs, kind : {"COMPLETED", "INVALID", "ERROR", "SUPERSEDED"},
     attempt : {0}, token : {0}]
    \cup [job : Jobs, kind : {"STARTED"}, attempt : Attempts, token : Tokens]

Final == {"COMPLETED", "INVALID", "ERROR"}

Result(j, kind) == [job |-> j, kind |-> kind, attempt |-> 0, token |-> 0]

Started(m) == [job |-> m.job, kind |-> "STARTED", attempt |-> m.attempt, token |-> m.token]

Terminal == {"COMPLETED", "FAILED", "CANCELLED"}

Statuses == {"ABSENT", "CREATED", "INGESTING", "ANALYZING", "DELETED"} \cup Terminal

Phases == {"NONE", "UPLOAD_PENDING", "UPLOAD_STORED", "PARSING", "ENQUEUE_PENDING",
           "QUEUED", "CLAIMED", "RUNNING", "COMPLETED", "FAILED", "CANCELLED"}

Leases == {"none", "live", "expired"}

\* The job document: status and the "processing" object.  claim stands for
\* analysis_claim_token by the worker that drew it, alease for
\* analysis_lease_expires_at, lease for lease_expires_at.
Rows == [status : Statuses, phase : Phases, attempt : Attempts, token : Tokens,
         lease : Leases, claim : Workers \cup {None}, alease : Leases]

Row(status, phase) ==
    [status |-> status, phase |-> phase, attempt |-> 0, token |-> 0,
     lease |-> "none", claim |-> None, alease |-> "none"]

ASSUME PipelineConstants ==
    /\ MaxAttempts \in Nat /\ MaxTokens \in Nat /\ MaxFaults \in Nat
    /\ None \notin Workers /\ None \notin Messages /\ None \notin Results

VARIABLES
    job,        \* the job rows (controller_objects, kind 'job')
    flows,      \* the preparation attempt whose flow records are stored; 0: none
    cands,      \* whether a job's result has been published (candidate_records)
    jq,         \* the job queue
    dedupe,     \* jobs whose deduplication key is set in Redis
    rq,         \* the result queue
    ctl,        \* the controllers' threads
    wkr,        \* the workers
    api,        \* API requests between their read and their write
    minted,     \* preparation lease tokens drawn so far
    faults      \* faults so far

vars == <<job, flows, cands, jq, dedupe, rq, ctl, wkr, api, minted, faults>>

\* A controller thread: hold is the preparation it claimed and lost its
\* lease_lost event; res and doc are the result it claimed and the job it read.
IdleController == [pc |-> "idle", hold |-> None, lost |-> FALSE, res |-> None,
                   doc |-> Row("ABSENT", "NONE")]

Preparing == {"parsing", "staged", "enqueued"}
Consuming == {"reading", "finishing", "acking"}

IdleWorker == [pc |-> "idle", msg |-> None, loaded |-> 0, out |-> "none"]

\* Between a granted claim_analysis and the end of the analysis.
Analysing == {"loading", "fetching", "executing"}

IdleClient == [op |-> "none", job |-> None, doc |-> Row("ABSENT", "NONE")]

Fault == faults < MaxFaults /\ faults' = faults + 1

Init ==
    /\ job = [j \in Jobs |-> Row("ABSENT", "NONE")]
    /\ flows = [j \in Jobs |-> 0]
    /\ cands = [j \in Jobs |-> FALSE]
    /\ jq = EmptyQueue(Messages)
    /\ dedupe = {}
    /\ rq = EmptyQueue(Results)
    /\ ctl = [c \in Controllers |-> IdleController]
    /\ wkr = [w \in Workers |-> IdleWorker]
    /\ api = [a \in Clients |-> IdleClient]
    /\ minted = 0
    /\ faults = 0
-----------------------------------------------------------------------------
(* The upload slot and the upload *)

\* initiate_pcap_analysis_job: a fresh row.
Initiate(j) ==
    /\ job[j].status = "ABSENT"
    /\ job' = [job EXCEPT ![j] = Row("CREATED", "UPLOAD_PENDING")]
    /\ UNCHANGED <<flows, cands, jq, dedupe, rq, ctl, wkr, api, minted, faults>>

\* upload_pcap_analysis_capture and the conditional publication of the capture.
Upload(j) ==
    /\ job[j].status = "CREATED"
    /\ job[j].phase = "UPLOAD_PENDING"
    /\ job' = [job EXCEPT ![j] = Row("INGESTING", "UPLOAD_STORED")]
    /\ UNCHANGED <<flows, cands, jq, dedupe, rq, ctl, wkr, api, minted, faults>>
-----------------------------------------------------------------------------
(* Preparation: claim, parse, publish, enqueue, complete *)

Mortal(row) == row.status \notin Terminal

\* Whether the row has no lease in the way of a new claim.
Claimable(row) ==
    /\ Mortal(row)
    /\ \/ row.phase = "UPLOAD_STORED"
       \/ row.phase \in {"PARSING", "ENQUEUE_PENDING"} /\ row.lease = "expired"

\* _owns_pcap_preparation: the row still carries the attempt and token that the
\* controller claimed, in one of these phases, under a live lease.
Owns(row, h, phases) ==
    /\ Mortal(row)
    /\ row.phase \in phases
    /\ row.attempt = h.attempt
    /\ row.token = h.token
    /\ row.lease = "live"

Hold(j, row) == [job |-> j, attempt |-> row.attempt, token |-> row.token]

\* A new preparation attempt draws a new token.
ClaimParsing(c, j) ==
    /\ ctl[c].pc = "idle"
    /\ Claimable(job[j])
    /\ job[j].phase \in {"UPLOAD_STORED", "PARSING"}
    /\ job[j].attempt < MaxAttempts
    /\ minted < MaxTokens
    /\ minted' = minted + 1
    /\ LET row == [job[j] EXCEPT !.phase = "PARSING", !.attempt = @ + 1,
                                 !.token = minted + 1, !.lease = "live"] IN
       /\ job' = [job EXCEPT ![j] = row]
       /\ ctl' = [ctl EXCEPT ![c] = [IdleController EXCEPT !.pc = "parsing", !.hold = Hold(j, row)]]
    /\ UNCHANGED <<flows, cands, jq, dedupe, rq, wkr, api, faults>>

\* Mutant of ClaimEnqueuePending: the take-over draws a new token.
ClaimWithNewToken(c, j) ==
    /\ ctl[c].pc = "idle"
    /\ Claimable(job[j])
    /\ job[j].phase = "ENQUEUE_PENDING"
    /\ minted < MaxTokens
    /\ minted' = minted + 1
    /\ LET row == [job[j] EXCEPT !.lease = "live", !.token = minted + 1] IN
       /\ job' = [job EXCEPT ![j] = row]
       /\ ctl' = [ctl EXCEPT ![c] = [IdleController EXCEPT !.pc = "staged", !.hold = Hold(j, row)]]
    /\ UNCHANGED <<flows, cands, jq, dedupe, rq, wkr, api, faults>>

\* Taking over a preparation that was published but perhaps not enqueued keeps
\* its attempt and its token, so that a delivery already pushed stays valid.
ClaimEnqueuePending(c, j) ==
    /\ ctl[c].pc = "idle"
    /\ Claimable(job[j])
    /\ job[j].phase = "ENQUEUE_PENDING"
    /\ LET row == [job[j] EXCEPT !.lease = "live"] IN
       /\ job' = [job EXCEPT ![j] = row]
       /\ ctl' = [ctl EXCEPT ![c] = [IdleController EXCEPT !.pc = "staged", !.hold = Hold(j, row)]]
    /\ UNCHANGED <<flows, cands, jq, dedupe, rq, wkr, api, minted, faults>>

\* Mutant of ExhaustPreparation: one attempt too many is awaited.
ExhaustTooLate(c, j) ==
    /\ ctl[c].pc = "idle"
    /\ Claimable(job[j])
    /\ job[j].phase = "PARSING"
    /\ job[j].attempt > MaxAttempts
    /\ job' = [job EXCEPT ![j] = [Row("FAILED", "FAILED") EXCEPT !.attempt = job[j].attempt]]
    /\ UNCHANGED <<flows, cands, jq, dedupe, rq, ctl, wkr, api, minted, faults>>

\* _exhaust_pcap_preparation_metadata: the last attempt's lease has run out.
ExhaustPreparation(c, j) ==
    /\ ctl[c].pc = "idle"
    /\ Claimable(job[j])
    /\ job[j].phase = "PARSING"
    /\ job[j].attempt >= MaxAttempts
    /\ job' = [job EXCEPT ![j] = [Row("FAILED", "FAILED") EXCEPT !.attempt = job[j].attempt]]
    /\ UNCHANGED <<flows, cands, jq, dedupe, rq, ctl, wkr, api, minted, faults>>

ClaimPreparation(c, j) ==
    ClaimParsing(c, j) \/ ClaimEnqueuePending(c, j) \/ ExhaustPreparation(c, j)

\* The heartbeat thread: a refused renewal, or one that raised, sets lease_lost.
\* A granted renewal keeps the lease live and changes nothing here.
Heartbeat(c) ==
    /\ ctl[c].pc \in Preparing
    /\ ~ctl[c].lost
    /\ IF Owns(job[ctl[c].hold.job], ctl[c].hold, {"PARSING", "ENQUEUE_PENDING"})
       THEN Fault
       ELSE UNCHANGED faults
    /\ ctl' = [ctl EXCEPT ![c].lost = TRUE]
    /\ UNCHANGED <<job, flows, cands, jq, dedupe, rq, wkr, api, minted>>

\* run_once and _enqueue_prepared give up when lease_lost is set.
GiveUp(c) ==
    /\ ctl[c].pc \in Preparing
    /\ ctl[c].lost
    /\ ctl' = [ctl EXCEPT ![c] = IdleController]
    /\ UNCHANGED <<job, flows, cands, jq, dedupe, rq, wkr, api, minted, faults>>

\* The source is missing or does not match its digest: run_once raises, and the
\* row waits for its lease to run out.
SourceError(c) ==
    /\ ctl[c].pc = "parsing"
    /\ ctl' = [ctl EXCEPT ![c] = IdleController]
    /\ UNCHANGED <<job, flows, cands, jq, dedupe, rq, wkr, api, minted, faults>>

\* The capture cannot be parsed, or its reference binding is invalid:
\* fail_pcap_preparation, if the preparation is still this controller's.
RejectCapture(c) ==
    /\ ctl[c].pc = "parsing"
    /\ LET h == ctl[c].hold IN
       IF Owns(job[h.job], h, {"PARSING"})
       THEN job' = [job EXCEPT ![h.job] = Row("FAILED", "FAILED")]
       ELSE UNCHANGED job
    /\ ctl' = [ctl EXCEPT ![c] = IdleController]
    /\ UNCHANGED <<flows, cands, jq, dedupe, rq, wkr, api, minted, faults>>

\* Mutant of Publish: the flow records are left to a later write.
PublishWithoutFlows(c) ==
    /\ ctl[c].pc = "parsing"
    /\ ~ctl[c].lost
    /\ LET h == ctl[c].hold IN
       IF Owns(job[h.job], h, {"PARSING"})
       THEN /\ job' = [job EXCEPT ![h.job].status = "ANALYZING",
                                  ![h.job].phase = "ENQUEUE_PENDING"]
            /\ ctl' = [ctl EXCEPT ![c].pc = "staged"]
       ELSE /\ ctl' = [ctl EXCEPT ![c] = IdleController]
            /\ UNCHANGED job
    /\ UNCHANGED <<flows, cands, jq, dedupe, rq, wkr, api, minted, faults>>

\* publish_pcap_preparation: the row and the flow records in one transaction.
Publish(c) ==
    /\ ctl[c].pc = "parsing"
    /\ ~ctl[c].lost
    /\ LET h == ctl[c].hold IN
       IF Owns(job[h.job], h, {"PARSING"})
       THEN /\ job' = [job EXCEPT ![h.job].status = "ANALYZING",
                                  ![h.job].phase = "ENQUEUE_PENDING"]
            /\ flows' = [flows EXCEPT ![h.job] = h.attempt]
            /\ ctl' = [ctl EXCEPT ![c].pc = "staged"]
       ELSE /\ ctl' = [ctl EXCEPT ![c] = IdleController]
            /\ UNCHANGED <<job, flows>>
    /\ UNCHANGED <<cands, jq, dedupe, rq, wkr, api, minted, faults>>

\* The reference binding is invalid after the publication: _fail goes through
\* complete_pcap_preparation.
RejectReference(c) ==
    /\ ctl[c].pc = "staged"
    /\ ~ctl[c].lost
    /\ LET h == ctl[c].hold IN
       IF Owns(job[h.job], h, {"ENQUEUE_PENDING"})
       THEN job' = [job EXCEPT ![h.job] = Row("FAILED", "FAILED")]
       ELSE UNCHANGED job
    /\ ctl' = [ctl EXCEPT ![c] = IdleController]
    /\ UNCHANGED <<flows, cands, jq, dedupe, rq, wkr, api, minted, faults>>

\* RedisControllerQueue.enqueue: SET NX of the deduplication key, then LPUSH.
Enqueue(c) ==
    /\ ctl[c].pc = "staged"
    /\ ~ctl[c].lost
    /\ LET h == ctl[c].hold IN
       /\ jq' = IF h.job \in dedupe THEN jq ELSE Push(jq, h)
       /\ dedupe' = dedupe \cup {h.job}
    /\ ctl' = [ctl EXCEPT ![c].pc = "enqueued"]
    /\ UNCHANGED <<job, flows, cands, rq, wkr, api, minted, faults>>

\* Mutant of CompletePreparation: only the attempt is compared.
CompleteUnfenced(c) ==
    /\ ctl[c].pc = "enqueued"
    /\ ~ctl[c].lost
    /\ LET h == ctl[c].hold IN
       IF Mortal(job[h.job]) /\ job[h.job].attempt = h.attempt
       THEN job' = [job EXCEPT ![h.job].phase = "QUEUED", ![h.job].lease = "none"]
       ELSE UNCHANGED job
    /\ ctl' = [ctl EXCEPT ![c] = IdleController]
    /\ UNCHANGED <<flows, cands, jq, dedupe, rq, wkr, api, minted, faults>>

\* complete_pcap_preparation: the row is queued, unless a worker has already
\* claimed it or another controller has taken over.
CompletePreparation(c) ==
    /\ ctl[c].pc = "enqueued"
    /\ ~ctl[c].lost
    /\ LET h == ctl[c].hold IN
       IF Owns(job[h.job], h, {"ENQUEUE_PENDING"})
       THEN job' = [job EXCEPT ![h.job].phase = "QUEUED", ![h.job].lease = "none"]
       ELSE UNCHANGED job
    /\ ctl' = [ctl EXCEPT ![c] = IdleController]
    /\ UNCHANGED <<flows, cands, jq, dedupe, rq, wkr, api, minted, faults>>

\* The preparation lease runs out: freely when no heartbeat is renewing it.
ExpirePreparation(j) ==
    /\ Mortal(job[j])
    /\ job[j].lease = "live"
    /\ IF \E c \in Controllers : /\ ctl[c].pc \in Preparing
                                 /\ ctl[c].hold = Hold(j, job[j])
                                 /\ ~ctl[c].lost
       THEN Fault
       ELSE UNCHANGED faults
    /\ job' = [job EXCEPT ![j].lease = "expired"]
    /\ UNCHANGED <<flows, cands, jq, dedupe, rq, ctl, wkr, api, minted>>
-----------------------------------------------------------------------------
(* The analysis worker *)

\* RedisQueue.receive.
Receive(w, m) ==
    /\ wkr[w].pc = "idle"
    /\ jq.waiting[m] > 0
    /\ jq' = Deliver(jq, m)
    /\ wkr' = [wkr EXCEPT ![w] = [IdleWorker EXCEPT !.pc = "claiming", !.msg = m]]
    /\ UNCHANGED <<job, flows, cands, dedupe, rq, ctl, api, minted, faults>>

\* The worker has its result and goes on to report it.
Conclude(w, kind) ==
    wkr' = [wkr EXCEPT ![w].pc = "reporting", ![w].out = kind]

InAnalysis(row) == row.status = "ANALYZING" /\ row.phase \in {"CLAIMED", "RUNNING"}

\* claim_analysis grants a delivery that matches the row's preparation.
Grants(row, m) ==
    /\ row.status = "ANALYZING"
    /\ row.phase \in {"ENQUEUE_PENDING", "QUEUED"}
    /\ row.attempt = m.attempt
    /\ row.token = m.token

GrantClaim(w) ==
    /\ wkr[w].pc = "claiming"
    /\ LET m == wkr[w].msg IN
       /\ Grants(job[m.job], m)
       /\ job' = [job EXCEPT ![m.job].phase = "CLAIMED", ![m.job].claim = w,
                             ![m.job].alease = "live", ![m.job].lease = "none"]
    /\ wkr' = [wkr EXCEPT ![w].pc = "loading"]
    /\ UNCHANGED <<flows, cands, jq, dedupe, rq, ctl, api, minted, faults>>

\* Mutant of RetryLater: the message is settled although nothing came of it.
RetryAndSettle(w) ==
    /\ wkr[w].pc = "claiming"
    /\ LET row == job[wkr[w].msg.job] IN InAnalysis(row) /\ row.alease = "live"
    /\ jq' = Settle(jq, wkr[w].msg)
    /\ wkr' = [wkr EXCEPT ![w] = IdleWorker]
    /\ UNCHANGED <<job, flows, cands, dedupe, rq, ctl, api, minted, faults>>

\* ACTIVE: another worker is analysing this job; the message is left to its lease.
RetryLater(w) ==
    /\ wkr[w].pc = "claiming"
    /\ LET row == job[wkr[w].msg.job] IN InAnalysis(row) /\ row.alease = "live"
    /\ wkr' = [wkr EXCEPT ![w] = IdleWorker]
    /\ UNCHANGED <<job, flows, cands, jq, dedupe, rq, ctl, api, minted, faults>>

\* Mutant of FailLostAnalysis: an expired claim is taken over instead.
TakeOverLostAnalysis(w) ==
    /\ wkr[w].pc = "claiming"
    /\ LET j == wkr[w].msg.job IN
       /\ InAnalysis(job[j])
       /\ job[j].alease # "live"
       /\ job' = [job EXCEPT ![j].phase = "CLAIMED", ![j].claim = w, ![j].alease = "live"]
    /\ wkr' = [wkr EXCEPT ![w].pc = "loading"]
    /\ UNCHANGED <<flows, cands, jq, dedupe, rq, ctl, api, minted, faults>>

\* The worker that claimed the job has stopped renewing: ANALYSIS_WORKER_LOST.
FailLostAnalysis(w) ==
    /\ wkr[w].pc = "claiming"
    /\ LET j == wkr[w].msg.job IN
       /\ InAnalysis(job[j])
       /\ job[j].alease # "live"
       /\ job' = [job EXCEPT ![j].status = "FAILED", ![j].phase = "FAILED",
                             ![j].claim = None, ![j].alease = "none"]
    /\ Conclude(w, "SUPERSEDED")
    /\ UNCHANGED <<flows, cands, jq, dedupe, rq, ctl, api, minted, faults>>

\* SUPERSEDED: the job is gone, finished, or prepared by another attempt.
RefuseClaim(w) ==
    /\ wkr[w].pc = "claiming"
    /\ LET m == wkr[w].msg IN ~Grants(job[m.job], m) /\ ~InAnalysis(job[m.job])
    /\ Conclude(w, "SUPERSEDED")
    /\ UNCHANGED <<job, flows, cands, jq, dedupe, rq, ctl, api, minted, faults>>

\* Any exception before the analysis starts becomes PAYLOAD_LOAD_FAILED.
PayloadError(w) ==
    /\ wkr[w].pc \in {"claiming", "loading", "fetching"}
    /\ Fault
    /\ Conclude(w, "ERROR")
    /\ UNCHANGED <<job, flows, cands, jq, dedupe, rq, ctl, api, minted>>

\* _delivery_is_superseded, on the row that load returned.
Superseded(row, m) ==
    \/ row.status \in Terminal
    \/ row.attempt # m.attempt
    \/ row.phase \in {"ENQUEUE_PENDING", "QUEUED"} /\ row.token # m.token
    \/ row.phase \notin {"ENQUEUE_PENDING", "QUEUED", "CLAIMED"}

\* load reads the row ...
LoadRow(w) ==
    /\ wkr[w].pc = "loading"
    /\ LET m == wkr[w].msg
           row == job[m.job] IN
       \/ /\ row.status \in {"ABSENT", "DELETED"}
          /\ Conclude(w, "ERROR")
       \/ /\ row.status \notin {"ABSENT", "DELETED"}
          /\ Superseded(row, m)
          /\ Conclude(w, "SUPERSEDED")
       \/ /\ row.status \notin {"ABSENT", "DELETED"}
          /\ ~Superseded(row, m)
          /\ wkr' = [wkr EXCEPT ![w].pc = "fetching"]
    /\ UNCHANGED <<job, flows, cands, jq, dedupe, rq, ctl, api, minted, faults>>

\* ... then the flow records, in another statement; the STARTED event is pushed
\* on a best-effort basis.
LoadFlows(w) ==
    /\ wkr[w].pc = "fetching"
    /\ LET m == wkr[w].msg IN
       /\ wkr' = [wkr EXCEPT ![w].pc = "executing", ![w].loaded = flows[m.job]]
       /\ rq' \in {rq, Push(rq, Started(m))}
    /\ UNCHANGED <<job, flows, cands, jq, dedupe, ctl, api, minted, faults>>

\* execute returns a report, one the controller will not accept, or raises.
Execute(w) ==
    /\ wkr[w].pc = "executing"
    /\ \E kind \in Final : Conclude(w, kind)
    /\ UNCHANGED <<job, flows, cands, jq, dedupe, rq, ctl, api, minted, faults>>

\* RedisQueue.complete: the result is pushed and the message settled in one script.
Report(w) ==
    /\ wkr[w].pc = "reporting"
    /\ LET m == wkr[w].msg IN
       /\ rq' = Push(rq, Result(m.job, wkr[w].out))
       /\ jq' = Settle(jq, m)
    /\ wkr' = [wkr EXCEPT ![w] = IdleWorker]
    /\ UNCHANGED <<job, flows, cands, dedupe, ctl, api, minted, faults>>

\* The worker dies, or complete raises: the result is lost and the message
\* stays in flight.
CrashWorker(w) ==
    /\ wkr[w].pc # "idle"
    /\ Fault
    /\ wkr' = [wkr EXCEPT ![w] = IdleWorker]
    /\ UNCHANGED <<job, flows, cands, jq, dedupe, rq, ctl, api, minted>>

\* The analysis lease runs out: freely when no worker's heartbeat renews it.
ExpireAnalysis(j) ==
    /\ InAnalysis(job[j])
    /\ job[j].alease = "live"
    /\ IF \E w \in Workers : wkr[w].pc \in Analysing /\ job[j].claim = w
       THEN Fault
       ELSE UNCHANGED faults
    /\ job' = [job EXCEPT ![j].alease = "expired"]
    /\ UNCHANGED <<flows, cands, jq, dedupe, rq, ctl, wkr, api, minted>>

\* Mutant of RedeliverJob: the requeue does not ask whether the copy is there.
RedeliverUnchecked(m) ==
    /\ \E w \in Workers : wkr[w].msg = m
    /\ jq' = Redeliver(jq, m)
    /\ Fault
    /\ UNCHANGED <<job, flows, cands, dedupe, rq, ctl, wkr, api, minted>>

\* The queue's visibility timeout passes: freely when no worker holds the
\* message, else because the analysis takes longer than the timeout.
RedeliverJob(m) ==
    /\ jq.inflight[m] > 0
    /\ jq' = Redeliver(jq, m)
    /\ IF \E w \in Workers : wkr[w].msg = m THEN Fault ELSE UNCHANGED faults
    /\ UNCHANGED <<job, flows, cands, dedupe, rq, ctl, wkr, api, minted>>
-----------------------------------------------------------------------------
(* The result consumer *)

\* claim_result.
ClaimResult(c, r) ==
    /\ ctl[c].pc = "idle"
    /\ rq.waiting[r] > 0
    /\ rq' = Deliver(rq, r)
    /\ ctl' = [ctl EXCEPT ![c] = [IdleController EXCEPT !.pc = "reading", !.res = r]]
    /\ UNCHANGED <<job, flows, cands, jq, dedupe, wkr, api, minted, faults>>

\* mark_analysis_started accepts an event of a queued job, or of the very
\* preparation that was claimed.
AcceptsStart(row, r) ==
    /\ row.status = "ANALYZING"
    /\ \/ row.phase = "QUEUED"
       \/ row.phase = "CLAIMED" /\ row.attempt = r.attempt /\ row.token = r.token

\* complete_job_with_candidates and transition_job_terminal write only over a
\* row that exists and is not terminal.
Writable(row) == row.status \notin Terminal \cup {"ABSENT", "DELETED"}

\* persist_claimed_result reads the job; events are handled on the spot.
ReadJob(c) ==
    /\ ctl[c].pc = "reading"
    /\ LET r == ctl[c].res
           row == job[r.job] IN
       /\ ctl' = IF r.kind \in Final /\ Writable(row)
                 THEN [ctl EXCEPT ![c].pc = "finishing", ![c].doc = row]
                 ELSE [ctl EXCEPT ![c].pc = "acking"]
       /\ IF r.kind = "STARTED" /\ AcceptsStart(row, r)
          THEN job' = [job EXCEPT ![r.job].phase = "RUNNING", ![r.job].token = 0,
                                  ![r.job].lease = "none"]
          ELSE UNCHANGED job
    /\ UNCHANGED <<flows, cands, jq, dedupe, rq, wkr, api, minted, faults>>

\* The document persist_claimed_result writes: the one it read, finished.  A
\* refused result leaves the phase as it was.
Finished(doc, kind) ==
    CASE kind = "COMPLETED" -> [doc EXCEPT !.status = "COMPLETED", !.phase = "COMPLETED"]
      [] kind = "ERROR"     -> [doc EXCEPT !.status = "FAILED", !.phase = "FAILED"]
      [] OTHER              -> [doc EXCEPT !.status = "FAILED"]

\* Mutant of Finish: the candidates are stored before the row is looked at.
FinishCandidatesFirst(c) ==
    /\ ctl[c].pc = "finishing"
    /\ LET r == ctl[c].res
           doc == ctl[c].doc IN
       /\ ctl' = [ctl EXCEPT ![c] = [IdleController EXCEPT !.pc = "acking", !.res = r]]
       /\ cands' = [cands EXCEPT ![r.job] = @ \/ r.kind = "COMPLETED"]
       /\ job' = IF Writable(job[r.job])
                 THEN [job EXCEPT ![r.job] = Finished(doc, r.kind)] ELSE job
    /\ UNCHANGED <<flows, jq, dedupe, rq, wkr, api, minted, faults>>

\* The state machine completes a job only from ANALYZING, and raises otherwise.
Finish(c) ==
    /\ ctl[c].pc = "finishing"
    /\ LET r == ctl[c].res
           doc == ctl[c].doc IN
       IF r.kind = "COMPLETED" /\ doc.status # "ANALYZING"
       THEN /\ ctl' = [ctl EXCEPT ![c] = IdleController]
            /\ UNCHANGED <<job, cands>>
       ELSE /\ ctl' = [ctl EXCEPT ![c] = [IdleController EXCEPT !.pc = "acking", !.res = r]]
            /\ IF Writable(job[r.job])
               THEN /\ job' = [job EXCEPT ![r.job] = Finished(doc, r.kind)]
                    /\ cands' = [cands EXCEPT ![r.job] = @ \/ r.kind = "COMPLETED"]
               ELSE UNCHANGED <<job, cands>>
    /\ UNCHANGED <<flows, jq, dedupe, rq, wkr, api, minted, faults>>

\* ack_result; all but the STARTED event release the deduplication key.
Ack(c) ==
    /\ ctl[c].pc = "acking"
    /\ LET r == ctl[c].res IN
       /\ rq' = Settle(rq, r)
       /\ dedupe' = IF r.kind = "STARTED" THEN dedupe ELSE dedupe \ {r.job}
    /\ ctl' = [ctl EXCEPT ![c] = IdleController]
    /\ UNCHANGED <<job, flows, cands, jq, wkr, api, minted, faults>>

\* The controller dies, or a call raises and consume_results starts over.
CrashController(c) ==
    /\ ctl[c].pc # "idle"
    /\ Fault
    /\ ctl' = [ctl EXCEPT ![c] = IdleController]
    /\ UNCHANGED <<job, flows, cands, jq, dedupe, rq, wkr, api, minted>>

\* The result queue's visibility timeout passes.
RedeliverResult(r) ==
    /\ rq.inflight[r] > 0
    /\ rq' = Redeliver(rq, r)
    /\ IF \E c \in Controllers : ctl[c].res = r THEN Fault ELSE UNCHANGED faults
    /\ UNCHANGED <<job, flows, cands, jq, dedupe, ctl, wkr, api, minted>>
-----------------------------------------------------------------------------
(* API requests *)

\* cancel_analysis_job reads the job and builds the cancelled document ...
CancelRead(a, j) ==
    /\ api[a].op = "none"
    /\ Writable(job[j])
    /\ api' = [api EXCEPT ![a] =
                 [op |-> "cancel", job |-> j,
                  doc |-> [job[j] EXCEPT !.status = "CANCELLED", !.phase = "CANCELLED"]]]
    /\ UNCHANGED <<job, flows, cands, jq, dedupe, rq, ctl, wkr, minted, faults>>

\* Mutant of CancelWrite: the document is saved unconditionally.
CancelOverwrite(a) ==
    /\ api[a].op = "cancel"
    /\ job' = [job EXCEPT ![api[a].job] = api[a].doc]
    /\ api' = [api EXCEPT ![a] = IdleClient]
    /\ UNCHANGED <<flows, cands, jq, dedupe, rq, ctl, wkr, minted, faults>>

\* ... which transition_job_terminal writes if no one has finished the job since.
CancelWrite(a) ==
    /\ api[a].op = "cancel"
    /\ LET j == api[a].job IN
       job' = IF Writable(job[j]) THEN [job EXCEPT ![j] = api[a].doc] ELSE job
    /\ api' = [api EXCEPT ![a] = IdleClient]
    /\ UNCHANGED <<flows, cands, jq, dedupe, rq, ctl, wkr, minted, faults>>

\* delete_analysis_job admits a terminal job ...
DeleteRead(a, j) ==
    /\ api[a].op = "none"
    /\ job[j].status \in Terminal
    /\ api' = [api EXCEPT ![a] = [IdleClient EXCEPT !.op = "delete", !.job = j]]
    /\ UNCHANGED <<job, flows, cands, jq, dedupe, rq, ctl, wkr, minted, faults>>

\* ... and delete_job removes it with its flow records and candidates.
DeleteWrite(a) ==
    /\ api[a].op = "delete"
    /\ LET j == api[a].job IN
       /\ job' = [job EXCEPT ![j] = Row("DELETED", "NONE")]
       /\ flows' = [flows EXCEPT ![j] = 0]
       /\ cands' = [cands EXCEPT ![j] = FALSE]
    /\ api' = [api EXCEPT ![a] = IdleClient]
    /\ UNCHANGED <<jq, dedupe, rq, ctl, wkr, minted, faults>>
-----------------------------------------------------------------------------
ControllerStep(c) ==
    \/ GiveUp(c) \/ SourceError(c) \/ RejectCapture(c) \/ Publish(c)
    \/ RejectReference(c) \/ Enqueue(c) \/ CompletePreparation(c)
    \/ ReadJob(c) \/ Finish(c) \/ Ack(c)

WorkerStep(w) ==
    \/ GrantClaim(w) \/ RetryLater(w) \/ FailLostAnalysis(w) \/ RefuseClaim(w)
    \/ LoadRow(w) \/ LoadFlows(w) \/ Execute(w) \/ Report(w)

ApiStep(a) ==
    \/ \E j \in Jobs : CancelRead(a, j) \/ DeleteRead(a, j)
    \/ CancelWrite(a)
    \/ DeleteWrite(a)

Next ==
    \/ \E j \in Jobs : Initiate(j) \/ Upload(j) \/ ExpirePreparation(j) \/ ExpireAnalysis(j)
    \/ \E c \in Controllers :
        \/ \E j \in Jobs : ClaimPreparation(c, j)
        \/ \E r \in Results : ClaimResult(c, r)
        \/ ControllerStep(c)
        \/ Heartbeat(c)
        \/ CrashController(c)
    \/ \E w \in Workers :
        \/ \E m \in Messages : Receive(w, m)
        \/ WorkerStep(w)
        \/ PayloadError(w)
        \/ CrashWorker(w)
    \/ \E m \in Messages : RedeliverJob(m)
    \/ \E r \in Results : RedeliverResult(r)
    \/ \E a \in Clients : ApiStep(a)

Spec == Init /\ [][Next]_vars

\* consume_results tries a preparation and a result in every turn, the workers
\* keep receiving, nobody stops in the middle of a call except by a fault, and
\* time passes, so that what no one renews runs out.
Fairness ==
    /\ \A c \in Controllers :
        /\ WF_vars(ControllerStep(c))
        /\ WF_vars(\E j \in Jobs : ClaimPreparation(c, j))
        /\ WF_vars(\E r \in Results : ClaimResult(c, r))
    /\ \A w \in Workers :
        /\ WF_vars(WorkerStep(w))
        /\ WF_vars(\E m \in Messages : Receive(w, m))
    /\ \A j \in Jobs :
        /\ WF_vars(ExpirePreparation(j) /\ faults' = faults)
        /\ WF_vars(ExpireAnalysis(j) /\ faults' = faults)
    /\ \A m \in Messages : WF_vars(RedeliverJob(m) /\ faults' = faults)
    /\ \A r \in Results : WF_vars(RedeliverResult(r) /\ faults' = faults)

FairSpec == Spec /\ Fairness
-----------------------------------------------------------------------------
(* Properties *)

\* A process that is busy with a message, a result or a job has one.
ControllerStates ==
    {s \in [pc : {"idle"} \cup Preparing \cup Consuming, hold : Messages \cup {None},
            lost : BOOLEAN, res : Results \cup {None}, doc : Rows] :
        /\ s.pc \in Preparing => s.hold \in Messages
        /\ s.pc \in Consuming => s.res \in Results}

WorkerStates ==
    {s \in [pc : {"idle", "claiming", "reporting"} \cup Analysing, msg : Messages \cup {None},
            loaded : Attempts, out : {"none", "SUPERSEDED"} \cup Final] :
        /\ IF s.pc = "idle" THEN s.msg = None ELSE s.msg \in Messages
        /\ s.pc = "reporting" => s.out # "none"}

ClientStates ==
    {s \in [op : {"none", "cancel", "delete"}, job : Jobs \cup {None}, doc : Rows] :
        /\ s.op # "none" => s.job \in Jobs
        /\ s.op = "cancel" => s.doc.status = "CANCELLED" /\ s.doc.phase = "CANCELLED"}

\* Every variable has its type.
TypeOK ==
    /\ job \in [Jobs -> Rows]
    /\ flows \in [Jobs -> Attempts]
    /\ cands \in [Jobs -> BOOLEAN]
    /\ jq \in Queues(Messages)
    /\ dedupe \subseteq Jobs
    /\ rq \in Queues(Results)
    /\ ctl \in [Controllers -> ControllerStates]
    /\ wkr \in [Workers -> WorkerStates]
    /\ api \in [Clients -> ClientStates]
    /\ minted \in Tokens
    /\ faults \in 0 .. MaxFaults

\* No two workers ever analyse one job at the same time, although the queue
\* delivers a job's message again while its analysis is still running and a
\* worker's lease may expire under it (claim_analysis).
SingleExecution ==
    \A v, w \in Workers :
        /\ wkr[v].pc \in Analysing
        /\ wkr[w].pc \in Analysing
        /\ wkr[v].msg.job = wkr[w].msg.job
        => v = w

Gone(j) == job[j].status \in Terminal \cup {"DELETED"}

\* Whether a copy of m is on the queue or in a worker's hands.
Delivered(m) == Outstanding(jq, m) \/ \E w \in Workers : wkr[w].msg = m

\* A delivery becomes visible only after the flow records of its preparation
\* attempt are committed, and until the job is finished no other attempt takes
\* their place: the row, the stored flow records and every delivery name the
\* same attempt (publish before enqueue, and re-claims that keep the token).
DeliveriesAreCommitted ==
    \A m \in Messages :
        Delivered(m) =>
            \/ Gone(m.job)
            \/ /\ job[m.job].status = "ANALYZING"
               /\ job[m.job].attempt = m.attempt
               /\ flows[m.job] = m.attempt
               /\ job[m.job].phase \in {"ENQUEUE_PENDING", "QUEUED"} => job[m.job].token = m.token

\* A worker analyses the flow records of the preparation it was given, or the
\* job has been deleted between its two reads.
AnalysesItsOwnFlows ==
    \A w \in Workers :
        wkr[w].pc = "executing" =>
            wkr[w].loaded = wkr[w].msg.attempt \/ job[wkr[w].msg.job].status = "DELETED"

\* A job's candidates are published exactly when it is completed: a late, a
\* repeated or a refused result publishes nothing (complete_job_with_candidates).
CandidatesIffCompleted ==
    \A j \in Jobs : cands[j] <=> job[j].status = "COMPLETED"

HasDelivery(j) == \E m \in Messages : m.job = j /\ Outstanding(jq, m)

HasFinalResult(j) == \E r \in Results : r.job = j /\ r.kind \in Final /\ Outstanding(rq, r)

\* An unfinished job always has something that will move it on: a capture to
\* claim, a preparation lease that can expire, a message on the job queue or a
\* final result on the result queue.  In particular an enqueue that was dropped
\* as a duplicate is always covered by the delivery it duplicates.
NoJobForgotten ==
    \A j \in Jobs :
        /\ job[j].status = "INGESTING" =>
            \/ job[j].phase = "UPLOAD_STORED"
            \/ job[j].phase = "PARSING" /\ job[j].lease # "none"
        /\ job[j].status = "ANALYZING" =>
            \/ job[j].phase = "ENQUEUE_PENDING" /\ job[j].lease # "none"
            \/ job[j].phase \in {"QUEUED", "CLAIMED", "RUNNING"}
               /\ (HasDelivery(j) \/ HasFinalResult(j))

\* A finished job is never reopened, nor its outcome replaced: the only step
\* left to it is its deletion.  This is a promise about stale writers: the
\* result consumer and the cancel request write documents they read earlier.
TerminalSticky ==
    [][\A j \in Jobs :
        /\ job[j].status \in Terminal => job'[j].status \in {job[j].status, "DELETED"}
        /\ job[j].status = "DELETED" => job'[j].status = "DELETED"]_vars

\* The pipeline implements the lifecycle that the state machine of jobs.py and
\* the order of the phases promise, although no two writers of a row hold a
\* common lock and every one of them may act on a document it read long ago.
Lifecycle == INSTANCE JobLifecycle WITH
    status <- [j \in Jobs |-> job[j].status],
    phase <- [j \in Jobs |-> job[j].phase]

ImplementsJobLifecycle == Lifecycle!LifecycleSpec

\* Every capture that was uploaded is brought to an end, whatever crashes, lost
\* leases and lost results (up to the bound) it meets on the way.
UploadsTerminate ==
    \A j \in Jobs : job[j].status = "INGESTING" ~> Gone(j)
=============================================================================
