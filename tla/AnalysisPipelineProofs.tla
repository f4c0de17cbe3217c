----------------------- MODULE AnalysisPipelineProofs -----------------------
(***************************************************************************)
(* Proofs about AnalysisPipeline, for any jobs, controllers, workers and   *)
(* clients, and any bounds.                                                *)
(***************************************************************************)
EXTENDS AnalysisPipeline, TLAPS

(* Lemmas: the operators on queues keep queues well formed. *)

\* A message pushed on a queue leaves it a queue.
LEMMA PushType ==
    ASSUME NEW M, NEW q \in Queues(M), NEW m \in M
    PROVE  Push(q, m) \in Queues(M)
BY DEF Queues, Push

\* Delivering a copy that waits leaves a queue.
LEMMA DeliverType ==
    ASSUME NEW M, NEW q \in Queues(M), NEW m \in M, q.waiting[m] > 0
    PROVE  Deliver(q, m) \in Queues(M)
<1>1. q.waiting[m] - 1 \in Nat
  BY DEF Queues
<1>2. q.inflight[m] + 1 \in Nat
  BY DEF Queues
<1> QED
  BY <1>1, <1>2, Zenon DEF Queues, Deliver

\* Redelivering a copy in flight leaves a queue.
LEMMA RedeliverType ==
    ASSUME NEW M, NEW q \in Queues(M), NEW m \in M, q.inflight[m] > 0
    PROVE  Redeliver(q, m) \in Queues(M)
<1>1. q.inflight[m] - 1 \in Nat
  BY DEF Queues
<1>2. q.waiting[m] + 1 \in Nat
  BY DEF Queues
<1> QED
  BY <1>1, <1>2, Zenon DEF Queues, Redeliver

\* Settling, whether or not the copy is still in flight, leaves a queue.
LEMMA SettleType ==
    ASSUME NEW M, NEW q \in Queues(M), NEW m \in M
    PROVE  Settle(q, m) \in Queues(M)
<1>1. CASE q.inflight[m] > 0
  <2>1. q.inflight[m] - 1 \in Nat
    BY <1>1 DEF Queues
  <2> QED
    BY <1>1, <2>1 DEF Queues, Settle
<1>2. CASE ~(q.inflight[m] > 0)
  BY <1>2 DEF Settle
<1> QED
  BY <1>1, <1>2

\* A new queue is empty and well formed.
LEMMA EmptyType ==
    ASSUME NEW M
    PROVE  EmptyQueue(M) \in Queues(M)
BY DEF Queues, EmptyQueue

(* Lemmas: the records that actions build. *)

\* Fresh rows and idle processes have their types.
LEMMA FreshTypes ==
    /\ \A s \in Statuses, p \in Phases : Row(s, p) \in Rows
    /\ IdleController \in ControllerStates
    /\ IdleWorker \in WorkerStates
    /\ IdleClient \in ClientStates
<1> USE PipelineConstants DEF Attempts, Tokens
<1>1. \A s \in Statuses, p \in Phases : Row(s, p) \in Rows
  BY DEF Row, Rows, Leases
<1>2. Row("ABSENT", "NONE") \in Rows
  BY <1>1 DEF Statuses, Phases
<1>3. IdleController \in ControllerStates
  BY <1>2 DEF IdleController, ControllerStates, Preparing, Consuming
<1>4. IdleWorker \in WorkerStates
  BY DEF IdleWorker, WorkerStates
<1>5. IdleClient \in ClientStates
  BY <1>2 DEF IdleClient, ClientStates
<1> QED
  BY <1>1, <1>3, <1>4, <1>5

\* The result a worker reports, and the event it sends, are results.
LEMMA ResultTypes ==
    /\ \A j \in Jobs, k \in {"SUPERSEDED"} \cup Final : Result(j, k) \in Results
    /\ \A m \in Messages : Started(m) \in Results
BY DEF Result, Started, Results, Messages, Final

\* A controller that has claimed a preparation.
LEMMA HoldType ==
    ASSUME NEW pc \in Preparing, NEW j \in Jobs, NEW row \in Rows
    PROVE  [IdleController EXCEPT !.pc = pc, !.hold = Hold(j, row)] \in ControllerStates
<1>1. Hold(j, row) \in Messages
  BY DEF Hold, Messages, Rows
<1>2. pc \notin Consuming
  BY DEF Preparing, Consuming
<1> QED
  BY <1>1, <1>2, FreshTypes, Zenon DEF ControllerStates, IdleController

\* A controller that has claimed a result.
LEMMA ResultHeldType ==
    ASSUME NEW pc \in Consuming, NEW r \in Results
    PROVE  [IdleController EXCEPT !.pc = pc, !.res = r] \in ControllerStates
<1>1. pc \notin Preparing
  BY DEF Preparing, Consuming
<1> QED
  BY <1>1, FreshTypes, Zenon DEF ControllerStates, IdleController

\* A worker that has its result.
LEMMA ConcludeType ==
    ASSUME TypeOK, NEW w \in Workers, wkr[w].pc # "idle",
           NEW k \in {"SUPERSEDED"} \cup Final, Conclude(w, k)
    PROVE  wkr' \in [Workers -> WorkerStates]
<1>1. [wkr[w] EXCEPT !.pc = "reporting", !.out = k] \in WorkerStates
  BY Zenon DEF TypeOK, WorkerStates, Final
<1>2. wkr' = [wkr EXCEPT ![w] = [wkr[w] EXCEPT !.pc = "reporting", !.out = k]]
  BY Zenon DEF Conclude, TypeOK
<1> QED
  BY <1>1, <1>2 DEF TypeOK

\* A fault keeps the count of faults within its bound.
LEMMA FaultType ==
    ASSUME TypeOK, Fault \/ UNCHANGED faults
    PROVE  faults' \in 0 .. MaxFaults
BY PipelineConstants DEF TypeOK, Fault

(* The type invariant. *)

LEMMA TypeInit == Init => TypeOK
<1> SUFFICES ASSUME Init PROVE TypeOK
  OBVIOUS
<1> USE PipelineConstants
<1>1. Row("ABSENT", "NONE") \in Rows
  BY FreshTypes DEF Statuses, Phases
<1>2. jq \in Queues(Messages) /\ rq \in Queues(Results)
  BY EmptyType DEF Init
<1> QED
  BY <1>1, <1>2, FreshTypes DEF Init, TypeOK, Attempts, Tokens

\* The steps of the upload and of the preparation keep the types.
LEMMA PreparationTypes ==
    ASSUME TypeOK
    PROVE  /\ \A j \in Jobs : Initiate(j) \/ Upload(j) \/ ExpirePreparation(j) => TypeOK'
           /\ \A c \in Controllers, j \in Jobs : ClaimPreparation(c, j) => TypeOK'
           /\ \A c \in Controllers :
                \/ Heartbeat(c) \/ GiveUp(c) \/ SourceError(c) \/ RejectCapture(c)
                \/ Publish(c) \/ RejectReference(c) \/ Enqueue(c) \/ CompletePreparation(c)
                => TypeOK'
<1> USE PipelineConstants
<1>rows. /\ Row("CREATED", "UPLOAD_PENDING") \in Rows
         /\ Row("INGESTING", "UPLOAD_STORED") \in Rows
         /\ Row("FAILED", "FAILED") \in Rows
  BY FreshTypes DEF Statuses, Phases, Terminal
<1>hold. \A c \in Controllers : ctl[c].pc \in Preparing => /\ ctl[c].hold \in Messages
                                                           /\ ctl[c].hold.job \in Jobs
                                                           /\ ctl[c].hold.attempt \in Attempts
  BY DEF TypeOK, ControllerStates, Messages
<1>1. ASSUME NEW j \in Jobs, Initiate(j) PROVE TypeOK'
  BY <1>1, <1>rows DEF Initiate, TypeOK
<1>2. ASSUME NEW j \in Jobs, Upload(j) PROVE TypeOK'
  BY <1>2, <1>rows DEF Upload, TypeOK
<1>3. ASSUME NEW j \in Jobs, ExpirePreparation(j) PROVE TypeOK'
  <2>1. [job[j] EXCEPT !.lease = "expired"] \in Rows
    BY DEF TypeOK, Rows, Leases
  <2>2. faults' \in 0 .. MaxFaults
    BY <1>3, FaultType DEF ExpirePreparation
  <2> QED
    BY <1>3, <2>1, <2>2 DEF ExpirePreparation, TypeOK
<1>4. ASSUME NEW c \in Controllers, NEW j \in Jobs, ClaimParsing(c, j) PROVE TypeOK'
  <2> DEFINE row == [job[j] EXCEPT !.phase = "PARSING", !.attempt = @ + 1,
                                   !.token = minted + 1, !.lease = "live"]
  <2>1. job[j] \in Rows /\ minted \in Tokens
    BY DEF TypeOK
  <2>2. job[j].attempt \in Attempts /\ job[j].attempt < MaxAttempts /\ minted < MaxTokens
    BY <1>4, <2>1 DEF ClaimParsing, Rows
  <2>3. job[j].attempt + 1 \in Attempts /\ minted + 1 \in Tokens
    BY <2>1, <2>2 DEF Attempts, Tokens
  <2>4. row \in Rows
    BY <2>1, <2>3, Zenon DEF Rows, Phases, Leases
  <2>5. [IdleController EXCEPT !.pc = "parsing", !.hold = Hold(j, row)] \in ControllerStates
    BY <2>4, HoldType, Zenon DEF Preparing
  <2> QED
    BY <1>4, <2>3, <2>4, <2>5 DEF ClaimParsing, TypeOK
<1>5. ASSUME NEW c \in Controllers, NEW j \in Jobs, ClaimEnqueuePending(c, j) PROVE TypeOK'
  <2> DEFINE row == [job[j] EXCEPT !.lease = "live"]
  <2>1. row \in Rows
    BY DEF TypeOK, Rows, Leases
  <2>2. [IdleController EXCEPT !.pc = "staged", !.hold = Hold(j, row)] \in ControllerStates
    BY <2>1, HoldType, Zenon DEF Preparing
  <2> QED
    BY <1>5, <2>1, <2>2 DEF ClaimEnqueuePending, TypeOK
<1>6. ASSUME NEW c \in Controllers, NEW j \in Jobs, ExhaustPreparation(c, j) PROVE TypeOK'
  <2>1. job[j].attempt \in Attempts
    BY DEF TypeOK, Rows
  <2>2. [Row("FAILED", "FAILED") EXCEPT !.attempt = job[j].attempt] \in Rows
    BY <2>1, <1>rows DEF Rows
  <2> QED
    BY <1>6, <2>2 DEF ExhaustPreparation, TypeOK
<1>7. ASSUME NEW c \in Controllers, Heartbeat(c) PROVE TypeOK'
  <2>1. [ctl[c] EXCEPT !.lost = TRUE] \in ControllerStates
    BY Zenon DEF TypeOK, ControllerStates
  <2>2. faults' \in 0 .. MaxFaults
    BY <1>7, FaultType DEF Heartbeat
  <2> QED
    BY <1>7, <2>1, <2>2 DEF Heartbeat, TypeOK
<1>8. ASSUME NEW c \in Controllers, GiveUp(c) \/ SourceError(c) PROVE TypeOK'
  BY <1>8, FreshTypes DEF GiveUp, SourceError, TypeOK
<1>9. ASSUME NEW c \in Controllers, RejectCapture(c) \/ RejectReference(c) PROVE TypeOK'
  <2>1. ctl[c].hold.job \in Jobs
    BY <1>9, <1>hold DEF RejectCapture, RejectReference, Preparing
  <2> QED
    BY <1>9, <1>rows, <2>1, FreshTypes DEF RejectCapture, RejectReference, TypeOK
<1>10. ASSUME NEW c \in Controllers, Publish(c) PROVE TypeOK'
  <2> DEFINE h == ctl[c].hold
             row == [job[h.job] EXCEPT !.status = "ANALYZING", !.phase = "ENQUEUE_PENDING"]
  <2>1. h \in Messages /\ h.job \in Jobs /\ h.attempt \in Attempts
    BY <1>10, <1>hold DEF Publish, Preparing
  <2>0. job[h.job] \in Rows
    BY <2>1 DEF TypeOK
  <2>2. row \in Rows
    BY <2>0, Zenon DEF Rows, Statuses, Phases
  <2>3. [ctl[c] EXCEPT !.pc = "staged"] \in ControllerStates
    BY <2>1, Zenon DEF TypeOK, ControllerStates, Preparing, Consuming
  <2>4. [job EXCEPT ![h.job] = row] \in [Jobs -> Rows]
    BY <2>1, <2>2 DEF TypeOK
  <2>5. job' = job \/ job' = [job EXCEPT ![h.job] = row]
    BY <1>10, <2>1, Zenon DEF Publish, TypeOK
  <2>6. ctl' \in [Controllers -> ControllerStates] /\ flows' \in [Jobs -> Attempts]
    BY <1>10, <2>1, <2>3, FreshTypes DEF Publish, TypeOK
  <2> QED
    BY <1>10, <2>4, <2>5, <2>6 DEF Publish, TypeOK
<1>11. ASSUME NEW c \in Controllers, Enqueue(c) PROVE TypeOK'
  <2>1. ctl[c].hold \in Messages /\ ctl[c].hold.job \in Jobs
    BY <1>11, <1>hold DEF Enqueue, Preparing
  <2>2. [ctl[c] EXCEPT !.pc = "enqueued"] \in ControllerStates
    BY <2>1 DEF TypeOK, ControllerStates, Preparing, Consuming
  <2>3. Push(jq, ctl[c].hold) \in Queues(Messages)
    BY <2>1, PushType DEF TypeOK
  <2> QED
    BY <1>11, <2>1, <2>2, <2>3 DEF Enqueue, TypeOK
<1>12. ASSUME NEW c \in Controllers, CompletePreparation(c) PROVE TypeOK'
  <2> DEFINE h == ctl[c].hold
             row == [job[h.job] EXCEPT !.phase = "QUEUED", !.lease = "none"]
  <2>1. h.job \in Jobs
    BY <1>12, <1>hold DEF CompletePreparation, Preparing
  <2>0. job[h.job] \in Rows
    BY <2>1 DEF TypeOK
  <2>2. row \in Rows
    BY <2>0, Zenon DEF Rows, Phases, Leases
  <2>3. job' = job \/ job' = [job EXCEPT ![h.job] = row]
    BY <1>12, <2>1, Zenon DEF CompletePreparation, TypeOK
  <2>4. job' \in [Jobs -> Rows]
    BY <2>1, <2>2, <2>3 DEF TypeOK
  <2> QED
    BY <1>12, <2>4, FreshTypes DEF CompletePreparation, TypeOK
<1> QED
  BY <1>1, <1>2, <1>3, <1>4, <1>5, <1>6, <1>7, <1>8, <1>9, <1>10, <1>11, <1>12 DEF ClaimPreparation

\* The steps of the workers keep the types.
LEMMA WorkerTypes ==
    ASSUME TypeOK
    PROVE  /\ \A w \in Workers, m \in Messages : Receive(w, m) => TypeOK'
           /\ \A w \in Workers : WorkerStep(w) \/ PayloadError(w) \/ CrashWorker(w) => TypeOK'
           /\ \A j \in Jobs : ExpireAnalysis(j) => TypeOK'
           /\ \A m \in Messages : RedeliverJob(m) => TypeOK'
<1> USE PipelineConstants
<1>busy. \A w \in Workers : wkr[w].pc # "idle" => /\ wkr[w].msg \in Messages
                                                  /\ wkr[w].msg.job \in Jobs
                                                  /\ job[wkr[w].msg.job] \in Rows
  BY DEF TypeOK, WorkerStates, Messages
<1>1. ASSUME NEW w \in Workers, NEW m \in Messages, Receive(w, m) PROVE TypeOK'
  <2>1. [IdleWorker EXCEPT !.pc = "claiming", !.msg = m] \in WorkerStates
    BY FreshTypes, Zenon DEF WorkerStates, IdleWorker
  <2>2. Deliver(jq, m) \in Queues(Messages)
    BY <1>1, DeliverType, Zenon DEF Receive, TypeOK
  <2> QED
    BY <1>1, <2>1, <2>2 DEF Receive, TypeOK
<1>2. ASSUME NEW w \in Workers, GrantClaim(w) PROVE TypeOK'
  <2> DEFINE j == wkr[w].msg.job
             row == [job[j] EXCEPT !.phase = "CLAIMED", !.claim = w,
                                   !.alease = "live", !.lease = "none"]
  <2>1. wkr[w].msg \in Messages /\ j \in Jobs /\ job[j] \in Rows
    BY <1>2, <1>busy DEF GrantClaim
  <2>2. row \in Rows
    BY <2>1, Zenon DEF Rows, Phases, Leases
  <2>3. [wkr[w] EXCEPT !.pc = "loading"] \in WorkerStates
    BY <2>1 DEF TypeOK, WorkerStates, Analysing
  <2>4. job' = [job EXCEPT ![j] = row]
    BY <1>2, <2>1, ZenonT(30) DEF GrantClaim, TypeOK
  <2>5. job' \in [Jobs -> Rows]
    BY <2>1, <2>2, <2>4 DEF TypeOK
  <2> QED
    BY <1>2, <2>3, <2>5, Zenon DEF GrantClaim, TypeOK
<1>3. ASSUME NEW w \in Workers, RetryLater(w) PROVE TypeOK'
  BY <1>3, FreshTypes, Zenon DEF RetryLater, TypeOK
<1>4. ASSUME NEW w \in Workers, FailLostAnalysis(w) PROVE TypeOK'
  <2> DEFINE j == wkr[w].msg.job
             row == [job[j] EXCEPT !.status = "FAILED", !.phase = "FAILED",
                                   !.claim = None, !.alease = "none"]
  <2>1. j \in Jobs /\ job[j] \in Rows
    BY <1>4, <1>busy DEF FailLostAnalysis
  <2>2. row \in Rows
    BY <2>1, Zenon DEF Rows, Statuses, Terminal, Phases, Leases
  <2>3. wkr' \in [Workers -> WorkerStates]
    BY <1>4, ConcludeType DEF FailLostAnalysis
  <2>4. job' = [job EXCEPT ![j] = row]
    BY <1>4, <2>1, Zenon DEF FailLostAnalysis, TypeOK
  <2>5. job' \in [Jobs -> Rows]
    BY <2>1, <2>2, <2>4 DEF TypeOK
  <2> QED
    BY <1>4, <2>3, <2>5, Zenon DEF FailLostAnalysis, TypeOK
<1>5. ASSUME NEW w \in Workers, RefuseClaim(w) PROVE TypeOK'
  <2>1. wkr' \in [Workers -> WorkerStates]
    BY <1>5, ConcludeType DEF RefuseClaim
  <2> QED
    BY <1>5, <2>1 DEF RefuseClaim, TypeOK
<1>6. ASSUME NEW w \in Workers, PayloadError(w) PROVE TypeOK'
  <2>1. wkr' \in [Workers -> WorkerStates]
    BY <1>6, ConcludeType DEF PayloadError, Final
  <2>2. faults' \in 0 .. MaxFaults
    BY <1>6, FaultType DEF PayloadError
  <2> QED
    BY <1>6, <2>1, <2>2 DEF PayloadError, TypeOK
<1>7. ASSUME NEW w \in Workers, LoadRow(w) PROVE TypeOK'
  <2>1. wkr[w].pc # "idle" /\ wkr[w].msg \in Messages
    BY <1>7, <1>busy DEF LoadRow
  <2>2. [wkr[w] EXCEPT !.pc = "fetching"] \in WorkerStates
    BY <2>1 DEF TypeOK, WorkerStates, Analysing
  <2>3. \/ Conclude(w, "ERROR") \/ Conclude(w, "SUPERSEDED")
        \/ wkr' = [wkr EXCEPT ![w].pc = "fetching"]
    BY <1>7 DEF LoadRow
  <2>4. wkr' \in [Workers -> WorkerStates]
    BY <2>1, <2>2, <2>3, ConcludeType DEF Final, TypeOK
  <2> QED
    BY <1>7, <2>4 DEF LoadRow, TypeOK
<1>8. ASSUME NEW w \in Workers, LoadFlows(w) PROVE TypeOK'
  <2>1. wkr[w].msg \in Messages /\ wkr[w].msg.job \in Jobs
    BY <1>8, <1>busy DEF LoadFlows
  <2>2. flows[wkr[w].msg.job] \in Attempts
    BY <2>1 DEF TypeOK
  <2>3. [wkr[w] EXCEPT !.pc = "executing", !.loaded = flows[wkr[w].msg.job]] \in WorkerStates
    BY <2>1, <2>2, Zenon DEF TypeOK, WorkerStates, Analysing
  <2>4. wkr' = [wkr EXCEPT ![w] =
                 [wkr[w] EXCEPT !.pc = "executing", !.loaded = flows[wkr[w].msg.job]]]
    BY <1>8, Zenon DEF LoadFlows, TypeOK
  <2>5. Push(rq, Started(wkr[w].msg)) \in Queues(Results)
    BY <2>1, PushType, ResultTypes DEF TypeOK
  <2>6. wkr' \in [Workers -> WorkerStates] /\ rq' \in Queues(Results)
    BY <1>8, <2>3, <2>4, <2>5 DEF LoadFlows, TypeOK
  <2> QED
    BY <1>8, <2>6 DEF LoadFlows, TypeOK
<1>9. ASSUME NEW w \in Workers, Execute(w) PROVE TypeOK'
  <2>1. PICK k \in Final : Conclude(w, k)
    BY <1>9 DEF Execute
  <2>2. wkr' \in [Workers -> WorkerStates]
    BY <1>9, <2>1, ConcludeType, Zenon DEF Execute
  <2> QED
    BY <1>9, <2>2 DEF Execute, TypeOK
<1>10. ASSUME NEW w \in Workers, Report(w) PROVE TypeOK'
  <2>1. wkr[w].msg \in Messages /\ wkr[w].msg.job \in Jobs
    BY <1>10, <1>busy DEF Report
  <2>2. wkr[w].out \in {"SUPERSEDED"} \cup Final
    BY <1>10 DEF Report, TypeOK, WorkerStates
  <2>3. Result(wkr[w].msg.job, wkr[w].out) \in Results
    BY <2>1, <2>2, ResultTypes, Zenon
  <2>4. Push(rq, Result(wkr[w].msg.job, wkr[w].out)) \in Queues(Results)
    BY <2>3, PushType DEF TypeOK
  <2>5. Settle(jq, wkr[w].msg) \in Queues(Messages)
    BY <2>1, SettleType DEF TypeOK
  <2> QED
    BY <1>10, <2>4, <2>5, FreshTypes DEF Report, TypeOK
<1>11. ASSUME NEW w \in Workers, CrashWorker(w) PROVE TypeOK'
  <2>1. faults' \in 0 .. MaxFaults
    BY <1>11, FaultType DEF CrashWorker
  <2> QED
    BY <1>11, <2>1, FreshTypes DEF CrashWorker, TypeOK
<1>12. ASSUME NEW j \in Jobs, ExpireAnalysis(j) PROVE TypeOK'
  <2>1. [job[j] EXCEPT !.alease = "expired"] \in Rows
    BY DEF TypeOK, Rows, Leases
  <2>2. faults' \in 0 .. MaxFaults
    BY <1>12, FaultType DEF ExpireAnalysis
  <2> QED
    BY <1>12, <2>1, <2>2 DEF ExpireAnalysis, TypeOK
<1>13. ASSUME NEW m \in Messages, RedeliverJob(m) PROVE TypeOK'
  <2>1. Redeliver(jq, m) \in Queues(Messages)
    BY <1>13, RedeliverType DEF RedeliverJob, TypeOK
  <2>2. faults' \in 0 .. MaxFaults
    BY <1>13, FaultType DEF RedeliverJob
  <2> QED
    BY <1>13, <2>1, <2>2 DEF RedeliverJob, TypeOK
<1> QED
  BY <1>1, <1>2, <1>3, <1>4, <1>5, <1>6, <1>7, <1>8, <1>9, <1>10, <1>11, <1>12, <1>13 DEF WorkerStep

\* The document persist_claimed_result writes is a terminal row.
LEMMA FinishedType ==
    ASSUME NEW doc \in Rows, NEW k
    PROVE  /\ Finished(doc, k) \in Rows
           /\ Finished(doc, k).status \in Terminal
           /\ Finished(doc, k).status = "COMPLETED" <=> k = "COMPLETED"
           /\ Finished(doc, k).phase \in {doc.phase, "FAILED", "COMPLETED"}
<1>1. CASE k = "COMPLETED"
  BY <1>1, Zenon DEF Finished, Rows, Statuses, Terminal, Phases
<1>2. CASE k = "ERROR"
  BY <1>2, Zenon DEF Finished, Rows, Statuses, Terminal, Phases
<1>3. CASE k # "COMPLETED" /\ k # "ERROR"
  BY <1>3 DEF Finished, Rows, Statuses, Terminal, Phases
<1> QED
  BY <1>1, <1>2, <1>3

\* The steps of the result consumer and of the API requests keep the types.
LEMMA ResultAndApiTypes ==
    ASSUME TypeOK
    PROVE  /\ \A c \in Controllers, r \in Results : ClaimResult(c, r) => TypeOK'
           /\ \A c \in Controllers :
                ReadJob(c) \/ Finish(c) \/ Ack(c) \/ CrashController(c) => TypeOK'
           /\ \A r \in Results : RedeliverResult(r) => TypeOK'
           /\ \A a \in Clients : ApiStep(a) => TypeOK'
<1> USE PipelineConstants
<1>busy. \A c \in Controllers : ctl[c].pc \in Consuming => /\ ctl[c].res \in Results
                                                           /\ ctl[c].res.job \in Jobs
                                                           /\ job[ctl[c].res.job] \in Rows
  BY DEF TypeOK, ControllerStates, Results
<1>1. ASSUME NEW c \in Controllers, NEW r \in Results, ClaimResult(c, r) PROVE TypeOK'
  <2>1. [IdleController EXCEPT !.pc = "reading", !.res = r] \in ControllerStates
    BY ResultHeldType, Zenon DEF Consuming
  <2>2. Deliver(rq, r) \in Queues(Results)
    BY <1>1, DeliverType DEF ClaimResult, TypeOK
  <2> QED
    BY <1>1, <2>1, <2>2 DEF ClaimResult, TypeOK
<1>2. ASSUME NEW c \in Controllers, ReadJob(c) PROVE TypeOK'
  <2> DEFINE r == ctl[c].res
             row == [job[r.job] EXCEPT !.phase = "RUNNING", !.token = 0, !.lease = "none"]
  <2>1. r \in Results /\ r.job \in Jobs /\ job[r.job] \in Rows
    BY <1>2, <1>busy DEF ReadJob, Consuming
  <2>2. [ctl[c] EXCEPT !.pc = "finishing", !.doc = job[r.job]] \in ControllerStates
    BY <2>1, Zenon DEF TypeOK, ControllerStates, Preparing, Consuming
  <2>3. [ctl[c] EXCEPT !.pc = "acking"] \in ControllerStates
    BY <2>1 DEF TypeOK, ControllerStates, Preparing, Consuming
  <2>4. \/ ctl' = [ctl EXCEPT ![c] = [ctl[c] EXCEPT !.pc = "finishing", !.doc = job[r.job]]]
        \/ ctl' = [ctl EXCEPT ![c] = [ctl[c] EXCEPT !.pc = "acking"]]
    BY <1>2, Zenon DEF ReadJob, TypeOK
  <2>5. ctl' \in [Controllers -> ControllerStates]
    BY <2>2, <2>3, <2>4 DEF TypeOK
  <2>6. row \in Rows
    <3>1. 0 \in Tokens
      BY DEF Tokens
    <3> QED
      BY <2>1, <3>1, Zenon DEF Rows, Phases, Leases
  <2>7. job' = job \/ job' = [job EXCEPT ![r.job] = row]
    BY <1>2, <2>1, Zenon DEF ReadJob, TypeOK
  <2>8. job' \in [Jobs -> Rows]
    BY <2>1, <2>6, <2>7 DEF TypeOK
  <2> QED
    BY <1>2, <2>5, <2>8 DEF ReadJob, TypeOK
<1>3. ASSUME NEW c \in Controllers, Finish(c) PROVE TypeOK'
  <2> DEFINE r == ctl[c].res
  <2>1. r \in Results /\ r.job \in Jobs
    BY <1>3, <1>busy DEF Finish, Consuming
  <2>2. Finished(ctl[c].doc, r.kind) \in Rows
    BY FinishedType DEF TypeOK, ControllerStates
  <2>3. [IdleController EXCEPT !.pc = "acking", !.res = r] \in ControllerStates
    BY <2>1, ResultHeldType, Zenon DEF Consuming
  <2> QED
    BY <1>3, <2>1, <2>2, <2>3, FreshTypes, Zenon DEF Finish, TypeOK
<1>4. ASSUME NEW c \in Controllers, Ack(c) PROVE TypeOK'
  <2>1. ctl[c].res \in Results
    BY <1>4, <1>busy DEF Ack, Consuming
  <2>2. Settle(rq, ctl[c].res) \in Queues(Results)
    BY <2>1, SettleType DEF TypeOK
  <2> QED
    BY <1>4, <2>2, FreshTypes DEF Ack, TypeOK
<1>5. ASSUME NEW c \in Controllers, CrashController(c) PROVE TypeOK'
  <2>1. faults' \in 0 .. MaxFaults
    BY <1>5, FaultType DEF CrashController
  <2> QED
    BY <1>5, <2>1, FreshTypes DEF CrashController, TypeOK
<1>6. ASSUME NEW r \in Results, RedeliverResult(r) PROVE TypeOK'
  <2>1. Redeliver(rq, r) \in Queues(Results)
    BY <1>6, RedeliverType DEF RedeliverResult, TypeOK
  <2>2. faults' \in 0 .. MaxFaults
    BY <1>6, FaultType DEF RedeliverResult
  <2> QED
    BY <1>6, <2>1, <2>2 DEF RedeliverResult, TypeOK
<1>7. ASSUME NEW a \in Clients, NEW j \in Jobs, CancelRead(a, j) PROVE TypeOK'
  <2> DEFINE doc == [job[j] EXCEPT !.status = "CANCELLED", !.phase = "CANCELLED"]
  <2>1. doc \in Rows /\ doc.status = "CANCELLED" /\ doc.phase = "CANCELLED"
    BY Zenon DEF TypeOK, Rows, Statuses, Terminal, Phases
  <2>2. [op |-> "cancel", job |-> j, doc |-> doc] \in ClientStates
    BY <2>1, Zenon DEF ClientStates
  <2> QED
    BY <1>7, <2>2 DEF CancelRead, TypeOK
<1>8. ASSUME NEW a \in Clients, NEW j \in Jobs, DeleteRead(a, j) PROVE TypeOK'
  <2>1. [IdleClient EXCEPT !.op = "delete", !.job = j] \in ClientStates
    BY FreshTypes, Zenon DEF ClientStates, IdleClient
  <2> QED
    BY <1>8, <2>1 DEF DeleteRead, TypeOK
<1>9. ASSUME NEW a \in Clients, CancelWrite(a) PROVE TypeOK'
  <2>1. api[a].job \in Jobs /\ api[a].doc \in Rows
    BY <1>9 DEF CancelWrite, TypeOK, ClientStates
  <2> QED
    BY <1>9, <2>1, FreshTypes DEF CancelWrite, TypeOK
<1>10. ASSUME NEW a \in Clients, DeleteWrite(a) PROVE TypeOK'
  <2>1. api[a].job \in Jobs /\ Row("DELETED", "NONE") \in Rows /\ 0 \in Attempts
    BY <1>10, FreshTypes DEF DeleteWrite, TypeOK, ClientStates, Statuses, Phases, Attempts
  <2> QED
    BY <1>10, <2>1, FreshTypes DEF DeleteWrite, TypeOK
<1> QED
  BY <1>1, <1>2, <1>3, <1>4, <1>5, <1>6, <1>7, <1>8, <1>9, <1>10 DEF ApiStep

\* A step of the pipeline keeps every variable's type.
LEMMA TypeNext == TypeOK /\ [Next]_vars => TypeOK'
<1> SUFFICES ASSUME TypeOK, [Next]_vars PROVE TypeOK'
  OBVIOUS
<1>1. CASE Next
  BY <1>1, PreparationTypes, WorkerTypes, ResultAndApiTypes DEF Next, ControllerStep
<1>2. CASE UNCHANGED vars
  BY <1>2 DEF vars, TypeOK
<1> QED
  BY <1>1, <1>2

\* Every variable of the pipeline keeps its type, and every busy process has
\* the message, result or job it is busy with.
THEOREM TypeCorrect == Spec => []TypeOK
BY TypeInit, TypeNext, PTL DEF Spec

-----------------------------------------------------------------------------
(***************************************************************************)
(* The safety of AnalysisPipeline, for any jobs, controllers, workers and  *)
(* clients, and any bounds.  RowStep says what any step of any process may *)
(* do to a job row.  The inductive invariant ties what the processes hold  *)
(* (a document, a preparation, a delivery, a claim) to the row and to the  *)
(* stored flow records; RowStep is then all that most of its parts need.   *)
(***************************************************************************)

(* The inductive invariant *)

Unfinished == {"CREATED", "INGESTING", "ANALYZING"}

\* The phases that go with a status.
Shape(row) ==
    /\ row.status \in {"ABSENT", "DELETED"} => row.phase = "NONE"
    /\ row.status = "CREATED" => row.phase = "UPLOAD_PENDING"
    /\ row.status = "INGESTING" => row.phase \in {"UPLOAD_STORED", "PARSING"}
    /\ row.status = "ANALYZING" =>
        row.phase \in {"ENQUEUE_PENDING", "QUEUED", "CLAIMED", "RUNNING"}

ShapesOK == \A j \in Jobs : Shape(job[j])

\* A deletion in progress was admitted for a finished job, and it still is one.
DeletesFinished == \A a \in Clients : api[a].op = "delete" => Gone(api[a].job)

\* The document the result consumer is about to finish was that of an unfinished
\* job, and if the job was being analysed then, it still is or has finished.
DocumentsOK ==
    \A c \in Controllers :
        ctl[c].pc = "finishing" =>
            /\ ctl[c].doc.status \in Unfinished
            /\ Shape(ctl[c].doc)
            /\ ctl[c].doc.status = "ANALYZING" =>
                job[ctl[c].res.job].status = "ANALYZING" \/ Gone(ctl[c].res.job)

\* The row and the stored flow records agree with a delivery.
Committed(m) ==
    \/ Gone(m.job)
    \/ /\ job[m.job].status = "ANALYZING"
       /\ job[m.job].attempt = m.attempt
       /\ flows[m.job] = m.attempt
       /\ job[m.job].phase \in {"ENQUEUE_PENDING", "QUEUED"} => job[m.job].token = m.token

\* The flow records of a job under analysis are those of its attempt.
FlowsStored == \A j \in Jobs : job[j].status = "ANALYZING" => flows[j] = job[j].attempt

\* What a controller has published and is about to enqueue, or has enqueued.
StagedCommitted ==
    \A c \in Controllers : ctl[c].pc \in {"staged", "enqueued"} => Committed(ctl[c].hold)

QueuedCommitted ==
    \A m \in Messages : Outstanding(jq, m) => Committed(m)

ReceivedCommitted ==
    \A w \in Workers : wkr[w].pc # "idle" => Committed(wkr[w].msg)

\* A worker that analyses a job has claimed it, and the flow records it was
\* promised stay until the job is deleted.
ClaimsOK ==
    \A w \in Workers :
        wkr[w].pc \in Analysing =>
            /\ InAnalysis(job[wkr[w].msg.job]) \/ Gone(wkr[w].msg.job)
            /\ flows[wkr[w].msg.job] = wkr[w].msg.attempt \/ job[wkr[w].msg.job].status = "DELETED"

RowsInv == TypeOK /\ ShapesOK /\ DeletesFinished /\ DocumentsOK

SafetyInv ==
    /\ RowsInv
    /\ FlowsStored
    /\ StagedCommitted /\ QueuedCommitted /\ ReceivedCommitted
    /\ ClaimsOK
    /\ SingleExecution
    /\ AnalysesItsOwnFlows
-----------------------------------------------------------------------------
(* What a step may do to a row *)

Keeps(old, new) == new.attempt = old.attempt /\ new.token = old.token

Moves(old, new, s, phases, t, p) ==
    old.status = s /\ old.phase \in phases /\ new.status = t /\ new.phase = p

RowStep(old, new) ==
    \/ new.status = old.status /\ new.phase = old.phase /\ Keeps(old, new)
    \/ Moves(old, new, "ABSENT", {"NONE"}, "CREATED", "UPLOAD_PENDING")
    \/ Moves(old, new, "CREATED", {"UPLOAD_PENDING"}, "INGESTING", "UPLOAD_STORED")
    \/ Moves(old, new, "INGESTING", {"UPLOAD_STORED", "PARSING"}, "INGESTING", "PARSING")
    \/ Moves(old, new, "INGESTING", {"PARSING"}, "ANALYZING", "ENQUEUE_PENDING")
    \/ Moves(old, new, "ANALYZING", {"ENQUEUE_PENDING"}, "ANALYZING", "QUEUED") /\ Keeps(old, new)
    \/ Moves(old, new, "ANALYZING", {"ENQUEUE_PENDING", "QUEUED"}, "ANALYZING", "CLAIMED")
       /\ Keeps(old, new)
    \/ Moves(old, new, "ANALYZING", {"QUEUED", "CLAIMED"}, "ANALYZING", "RUNNING")
       /\ new.attempt = old.attempt
    \/ old.status = "ANALYZING" /\ new.status = "COMPLETED" /\ new.phase = "COMPLETED"
    \/ old.status \in Unfinished /\ new.status = "FAILED" /\ new.phase \in Lifecycle!Phases \cup {"FAILED"}
    \/ old.status \in Unfinished /\ new.status = "CANCELLED" /\ new.phase = "CANCELLED"
    \/ old.status \in Terminal \cup {"DELETED"} /\ new.status = "DELETED" /\ new.phase = "NONE"

\* A step changes one row at most.
RowsStep ==
    /\ \A j \in Jobs : RowStep(job[j], job'[j])
    /\ \A j, k \in Jobs : job'[j] # job[j] /\ job'[k] # job[k] => j = k

\* A step that writes one row is a RowsStep.
LEMMA OneRow ==
    ASSUME TypeOK, NEW k \in Jobs, NEW row \in Rows,
           job' = [job EXCEPT ![k] = row], RowStep(job[k], row)
    PROVE  RowsStep
<1>1. job'[k] = row /\ \A j \in Jobs \ {k} : job'[j] = job[j]
  BY DEF TypeOK
<1>2. \A j \in Jobs : RowStep(job[j], job'[j])
  BY <1>1 DEF RowStep, Keeps
<1> QED
  BY <1>1, <1>2 DEF RowsStep

\* A step that writes no row is a RowsStep.
LEMMA NoRow ==
    ASSUME job' = job
    PROVE  RowsStep
BY DEF RowsStep, RowStep, Keeps

\* In an unfinished row the phase tells the status.
LEMMA PhaseTellsStatus ==
    ASSUME NEW row \in Rows, Shape(row), Mortal(row)
    PROVE  /\ row.phase \in {"UPLOAD_STORED", "PARSING"} => row.status = "INGESTING"
           /\ row.phase \in {"ENQUEUE_PENDING", "QUEUED", "CLAIMED", "RUNNING"} =>
                row.status = "ANALYZING"
BY DEF Rows, Statuses, Shape, Mortal

\* The rows a preparation writes.
LEMMA PreparationRows ==
    ASSUME TypeOK, TypeOK', ShapesOK
    PROVE  /\ \A j \in Jobs : Initiate(j) \/ Upload(j) \/ ExpirePreparation(j) =>
                RowsStep
           /\ \A c \in Controllers, j \in Jobs : ClaimPreparation(c, j) =>
                RowsStep
           /\ \A c \in Controllers :
                RejectCapture(c) \/ Publish(c) \/ RejectReference(c) \/ CompletePreparation(c) =>
                RowsStep
<1> USE PipelineConstants
<1> DEFINE Goal == RowsStep
<1>rows. \A j \in Jobs : job[j] \in Rows /\ job'[j] \in Rows /\ Shape(job[j])
  BY DEF TypeOK, ShapesOK
<1>held. \A c \in Controllers : ctl[c].pc \in Preparing => /\ ctl[c].hold \in Messages
                                                           /\ ctl[c].hold.job \in Jobs
  BY DEF TypeOK, ControllerStates, Messages
<1>1. ASSUME NEW j \in Jobs, Initiate(j) PROVE Goal
  <2>1. RowStep(job[j], job'[j])
    BY <1>1, <1>rows DEF Initiate, TypeOK, RowStep, Moves, Row, Shape
  <2> QED
    BY <1>1, <1>rows, <2>1, OneRow, Zenon DEF Initiate, TypeOK
<1>2. ASSUME NEW j \in Jobs, Upload(j) PROVE Goal
  <2>1. RowStep(job[j], job'[j])
    BY <1>2, <1>rows DEF Upload, TypeOK, RowStep, Moves, Row
  <2> QED
    BY <1>2, <1>rows, <2>1, OneRow, Zenon DEF Upload, TypeOK
<1>3. ASSUME NEW j \in Jobs, ExpirePreparation(j) PROVE Goal
  <2>1. job' = [job EXCEPT ![j] = [job[j] EXCEPT !.lease = "expired"]]
    BY <1>3 DEF ExpirePreparation, TypeOK
  <2>2. RowStep(job[j], job'[j])
    BY <2>1, <1>rows DEF TypeOK, RowStep, Keeps, Rows
  <2> QED
    BY <1>rows, <2>1, <2>2, OneRow, Zenon DEF TypeOK
<1>4. ASSUME NEW c \in Controllers, NEW j \in Jobs, ClaimParsing(c, j) PROVE Goal
  <2> DEFINE row == [job[j] EXCEPT !.phase = "PARSING", !.attempt = @ + 1,
                                   !.token = minted + 1, !.lease = "live"]
  <2>1. job' = [job EXCEPT ![j] = row]
    BY <1>4 DEF ClaimParsing
  <2>2. job[j].status = "INGESTING" /\ job[j].phase \in {"UPLOAD_STORED", "PARSING"}
    BY <1>4, <1>rows, PhaseTellsStatus DEF ClaimParsing, Claimable
  <2>3. row.status = job[j].status /\ row.phase = "PARSING"
    BY <1>rows DEF Rows
  <2>4. RowStep(job[j], row)
    BY <2>2, <2>3 DEF RowStep, Moves
  <2>5. row \in Rows
    BY <2>1, <1>rows DEF TypeOK
  <2> QED
    BY <2>1, <2>4, <2>5, OneRow, Zenon
<1>5. ASSUME NEW c \in Controllers, NEW j \in Jobs, ClaimEnqueuePending(c, j) PROVE Goal
  <2>1. job' = [job EXCEPT ![j] = [job[j] EXCEPT !.lease = "live"]]
    BY <1>5 DEF ClaimEnqueuePending, TypeOK
  <2>2. RowStep(job[j], job'[j])
    BY <2>1, <1>rows DEF TypeOK, RowStep, Keeps, Rows
  <2> QED
    BY <1>rows, <2>1, <2>2, OneRow, Zenon DEF TypeOK
<1>6. ASSUME NEW c \in Controllers, NEW j \in Jobs, ExhaustPreparation(c, j) PROVE Goal
  <2>1. job[j].status = "INGESTING"
    BY <1>6, <1>rows, PhaseTellsStatus DEF ExhaustPreparation, Claimable
  <2>2. job'[j].status = "FAILED" /\ job'[j].phase = "FAILED"
    BY <1>6, <1>rows DEF ExhaustPreparation, TypeOK, Row
  <2>3. RowStep(job[j], job'[j])
    BY <2>1, <2>2 DEF RowStep, Unfinished
  <2> QED
    BY <1>6, <1>rows, <2>3, OneRow, Zenon DEF ExhaustPreparation, TypeOK
<1>7. ASSUME NEW c \in Controllers, ctl[c].pc \in Preparing,
             job' = [job EXCEPT ![ctl[c].hold.job] = Row("FAILED", "FAILED")],
             Owns(job[ctl[c].hold.job], ctl[c].hold, {"PARSING"})
             \/ Owns(job[ctl[c].hold.job], ctl[c].hold, {"ENQUEUE_PENDING"})
      PROVE Goal
  <2> DEFINE k == ctl[c].hold.job
  <2>1. k \in Jobs
    BY <1>7, <1>held
  <2>2. job[k].status \in Unfinished
    BY <1>7, <1>rows, <2>1, PhaseTellsStatus DEF Owns, Unfinished
  <2>3. job'[k].status = "FAILED" /\ job'[k].phase = "FAILED"
    BY <1>7, <2>1 DEF TypeOK, Row
  <2>4. RowStep(job[k], job'[k])
    BY <2>2, <2>3 DEF RowStep
  <2>5. job'[k] = Row("FAILED", "FAILED")
    BY <1>7, <2>1 DEF TypeOK
  <2> QED
    BY <1>7, <1>rows, <2>1, <2>4, <2>5, OneRow, Zenon
<1>8. ASSUME NEW c \in Controllers, RejectCapture(c) PROVE Goal
  BY <1>8, <1>7, NoRow DEF RejectCapture, Preparing
<1>9. ASSUME NEW c \in Controllers, RejectReference(c) PROVE Goal
  BY <1>9, <1>7, NoRow DEF RejectReference, Preparing
<1>10. ASSUME NEW c \in Controllers, Publish(c) PROVE Goal
  <2> DEFINE k == ctl[c].hold.job
             row == [job[k] EXCEPT !.status = "ANALYZING", !.phase = "ENQUEUE_PENDING"]
  <2>1. k \in Jobs /\ job[k] \in Rows
    BY <1>10, <1>held, <1>rows DEF Publish, Preparing
  <2>2. job' = job \/ (Owns(job[k], ctl[c].hold, {"PARSING"}) /\ job' = [job EXCEPT ![k] = row])
    BY <1>10, <2>1, Zenon DEF Publish, TypeOK
  <2>3. CASE Owns(job[k], ctl[c].hold, {"PARSING"}) /\ job' = [job EXCEPT ![k] = row]
    <3>1. job[k].status = "INGESTING" /\ job[k].phase = "PARSING"
      BY <2>1, <2>3, <1>rows, PhaseTellsStatus DEF Owns
    <3>2. row.status = "ANALYZING" /\ row.phase = "ENQUEUE_PENDING"
      BY <2>1 DEF Rows
    <3>3. row \in Rows
      BY <2>1, <2>3, <1>rows DEF TypeOK
    <3>4. RowStep(job[k], row)
      BY <3>1, <3>2 DEF RowStep, Moves
    <3> QED
      BY <2>1, <2>3, <3>3, <3>4, OneRow, Zenon
  <2> QED
    BY <2>2, <2>3, NoRow
<1>11. ASSUME NEW c \in Controllers, CompletePreparation(c) PROVE Goal
  <2> DEFINE k == ctl[c].hold.job
             row == [job[k] EXCEPT !.phase = "QUEUED", !.lease = "none"]
  <2>1. k \in Jobs /\ job[k] \in Rows
    BY <1>11, <1>held, <1>rows DEF CompletePreparation, Preparing
  <2>2. job' = job \/ (Owns(job[k], ctl[c].hold, {"ENQUEUE_PENDING"}) /\ job' = [job EXCEPT ![k] = row])
    BY <1>11, <2>1, Zenon DEF CompletePreparation, TypeOK
  <2>3. CASE Owns(job[k], ctl[c].hold, {"ENQUEUE_PENDING"}) /\ job' = [job EXCEPT ![k] = row]
    <3>1. job[k].status = "ANALYZING" /\ job[k].phase = "ENQUEUE_PENDING"
      BY <2>1, <2>3, <1>rows, PhaseTellsStatus DEF Owns
    <3>2. row.status = job[k].status /\ row.phase = "QUEUED" /\ Keeps(job[k], row)
      BY <2>1 DEF Rows, Keeps
    <3>3. row \in Rows
      BY <2>1, <2>3, <1>rows DEF TypeOK
    <3>4. RowStep(job[k], row)
      BY <3>1, <3>2 DEF RowStep, Moves
    <3> QED
      BY <2>1, <2>3, <3>3, <3>4, OneRow, Zenon
  <2> QED
    BY <2>2, <2>3, NoRow
<1> QED
  BY <1>1, <1>2, <1>3, <1>4, <1>5, <1>6, <1>8, <1>9, <1>10, <1>11 DEF ClaimPreparation

\* The rows a worker's claim, a result and an API request write.
LEMMA AnalysisRows ==
    ASSUME RowsInv, TypeOK'
    PROVE  /\ \A w \in Workers : GrantClaim(w) \/ FailLostAnalysis(w) =>
                RowsStep
           /\ \A j \in Jobs : ExpireAnalysis(j) => RowsStep
           /\ \A c \in Controllers : ReadJob(c) \/ Finish(c) =>
                RowsStep
           /\ \A a \in Clients : ApiStep(a) => RowsStep
<1> USE PipelineConstants
<1> DEFINE Goal == RowsStep
<1>type. TypeOK
  BY DEF RowsInv
<1>rows. \A j \in Jobs : job[j] \in Rows /\ job'[j] \in Rows /\ Shape(job[j])
  BY DEF TypeOK, RowsInv, ShapesOK
<1>busy. \A w \in Workers : wkr[w].pc # "idle" => wkr[w].msg.job \in Jobs
  BY <1>type DEF TypeOK, WorkerStates, Messages
<1>read. \A c \in Controllers : ctl[c].pc \in Consuming => ctl[c].res.job \in Jobs
  BY <1>type DEF TypeOK, ControllerStates, Results
<1>1. ASSUME NEW w \in Workers, GrantClaim(w) PROVE Goal
  <2> DEFINE k == wkr[w].msg.job
             row == [job[k] EXCEPT !.phase = "CLAIMED", !.claim = w,
                                   !.alease = "live", !.lease = "none"]
  <2>1. k \in Jobs /\ job[k] \in Rows
    BY <1>1, <1>busy, <1>rows, Zenon DEF GrantClaim
  <2>2. job' = [job EXCEPT ![k] = row]
    BY <1>1, <1>type, <2>1, Zenon DEF GrantClaim, TypeOK
  <2>3. row.status = job[k].status /\ row.phase = "CLAIMED" /\ Keeps(job[k], row)
    BY <2>1 DEF Rows, Keeps
  <2>4. RowStep(job[k], row)
    BY <1>1, <2>3, Zenon DEF GrantClaim, Grants, RowStep, Moves
  <2>5. row \in Rows
    BY <1>type, <1>rows, <2>1, <2>2 DEF TypeOK
  <2> QED
    BY <1>type, <2>1, <2>2, <2>4, <2>5, OneRow, Zenon
<1>2. ASSUME NEW w \in Workers, FailLostAnalysis(w) PROVE Goal
  <2> DEFINE k == wkr[w].msg.job
             row == [job[k] EXCEPT !.status = "FAILED", !.phase = "FAILED",
                                   !.claim = None, !.alease = "none"]
  <2>1. k \in Jobs /\ job[k] \in Rows
    BY <1>2, <1>busy, <1>rows, Zenon DEF FailLostAnalysis
  <2>2. job' = [job EXCEPT ![k] = row]
    BY <1>2, <1>type, <2>1, Zenon DEF FailLostAnalysis, TypeOK
  <2>3. row.status = "FAILED" /\ row.phase = "FAILED"
    BY <2>1, Zenon DEF Rows
  <2>4. RowStep(job[k], row)
    BY <1>2, <2>3 DEF FailLostAnalysis, InAnalysis, RowStep, Unfinished
  <2>5. row \in Rows
    BY <1>type, <1>rows, <2>1, <2>2 DEF TypeOK
  <2> QED
    BY <1>type, <2>1, <2>2, <2>4, <2>5, OneRow, Zenon
<1>3. ASSUME NEW j \in Jobs, ExpireAnalysis(j) PROVE Goal
  <2>1. job' = [job EXCEPT ![j] = [job[j] EXCEPT !.alease = "expired"]]
    BY <1>3, <1>type DEF ExpireAnalysis, TypeOK
  <2>2. RowStep(job[j], job'[j])
    BY <2>1, <1>rows, <1>type DEF TypeOK, RowStep, Keeps, Rows
  <2> QED
    BY <1>rows, <1>type, <2>1, <2>2, OneRow, Zenon DEF TypeOK
<1>4. ASSUME NEW c \in Controllers, ReadJob(c) PROVE Goal
  <2> DEFINE k == ctl[c].res.job
             row == [job[k] EXCEPT !.phase = "RUNNING", !.token = 0, !.lease = "none"]
  <2>1. k \in Jobs /\ job[k] \in Rows
    BY <1>4, <1>read, <1>rows DEF ReadJob, Consuming
  <2>2. job' = job \/ (AcceptsStart(job[k], ctl[c].res) /\ job' = [job EXCEPT ![k] = row])
    BY <1>4, <1>type, <2>1, Zenon DEF ReadJob, TypeOK
  <2>3. CASE AcceptsStart(job[k], ctl[c].res) /\ job' = [job EXCEPT ![k] = row]
    <3>1. row.status = job[k].status /\ row.phase = "RUNNING" /\ row.attempt = job[k].attempt
      BY <2>1 DEF Rows
    <3>2. RowStep(job[k], row)
      BY <2>3, <3>1 DEF AcceptsStart, RowStep, Moves
    <3>3. row \in Rows
      BY <1>type, <1>rows, <2>1, <2>3 DEF TypeOK
    <3> QED
      BY <1>type, <2>1, <2>3, <3>2, <3>3, OneRow, Zenon
  <2> QED
    BY <2>2, <2>3, NoRow
<1>5. ASSUME NEW c \in Controllers, Finish(c) PROVE Goal
  <2> DEFINE k == ctl[c].res.job
             kind == ctl[c].res.kind
             doc == ctl[c].doc
             row == Finished(doc, kind)
  <2>1. k \in Jobs /\ job[k] \in Rows /\ doc \in Rows
    BY <1>5, <1>read, <1>rows, <1>type DEF Finish, Consuming, TypeOK, ControllerStates
  <2>2. \/ job' = job
        \/ /\ Writable(job[k]) /\ job' = [job EXCEPT ![k] = row]
           /\ ~(kind = "COMPLETED" /\ doc.status # "ANALYZING")
    BY <1>5, <1>type, <2>1 DEF Finish, TypeOK
  <2>3. CASE /\ Writable(job[k]) /\ job' = [job EXCEPT ![k] = row]
             /\ ~(kind = "COMPLETED" /\ doc.status # "ANALYZING")
    <3>1. job[k].status \in Unfinished
      BY <2>1, <2>3 DEF Writable, Rows, Statuses, Unfinished
    <3>2. Shape(doc) /\ doc.status \in Unfinished
          /\ (doc.status = "ANALYZING" => job[k].status = "ANALYZING")
      BY <1>5, <2>3, Zenon DEF Finish, RowsInv, DocumentsOK, Gone, Writable
    <3>3. ASSUME kind = "COMPLETED" PROVE RowStep(job[k], row)
      <4>1. row.status = "COMPLETED" /\ row.phase = "COMPLETED"
        BY <2>1, <3>3, Zenon DEF Finished, Rows
      <4> QED
        BY <2>3, <3>2, <3>3, <4>1 DEF RowStep
    <3>4. ASSUME kind # "COMPLETED" PROVE RowStep(job[k], row)
      <4>1. row.status = "FAILED" /\ row.phase \in {doc.phase, "FAILED"}
        <5>1. CASE kind = "ERROR"
          BY <2>1, <5>1, Zenon DEF Finished, Rows
        <5>2. CASE kind # "ERROR"
          BY <2>1, <3>4, <5>2 DEF Finished, Rows
        <5> QED
          BY <5>1, <5>2
      <4>2. doc.phase \in Lifecycle!Phases
        BY <3>2 DEF Shape, Unfinished, Lifecycle!Phases
      <4> QED
        BY <3>1, <4>1, <4>2 DEF RowStep
    <3>5. RowStep(job[k], row)
      BY <3>3, <3>4
    <3>6. row \in Rows
      BY <1>type, <1>rows, <2>1, <2>3 DEF TypeOK
    <3> QED
      BY <1>type, <2>1, <2>3, <3>5, <3>6, OneRow, Zenon
  <2> QED
    BY <2>2, <2>3, NoRow
<1>6. ASSUME NEW a \in Clients, NEW j \in Jobs, CancelRead(a, j) \/ DeleteRead(a, j) PROVE Goal
  BY <1>6, NoRow DEF CancelRead, DeleteRead
<1>7. ASSUME NEW a \in Clients, CancelWrite(a) PROVE Goal
  <2> DEFINE k == api[a].job
             row == api[a].doc
  <2>1. k \in Jobs /\ row \in Rows /\ row.status = "CANCELLED" /\ row.phase = "CANCELLED"
    BY <1>7, <1>type DEF CancelWrite, TypeOK, ClientStates
  <2>2. job' = job \/ (Writable(job[k]) /\ job' = [job EXCEPT ![k] = row])
    BY <1>7 DEF CancelWrite
  <2>3. Writable(job[k]) => job[k].status \in Unfinished
    BY <2>1, <1>rows DEF Writable, Rows, Statuses, Unfinished
  <2>4. Writable(job[k]) => RowStep(job[k], row)
    BY <2>1, <2>3 DEF RowStep
  <2> QED
    BY <1>type, <2>1, <2>2, <2>4, OneRow, NoRow
<1>8. ASSUME NEW a \in Clients, DeleteWrite(a) PROVE Goal
  <2> DEFINE k == api[a].job
             row == Row("DELETED", "NONE")
  <2>1. k \in Jobs /\ job[k] \in Rows /\ Shape(job[k])
    BY <1>8, <1>type, <1>rows DEF DeleteWrite, TypeOK, ClientStates
  <2>2. job[k].status \in Terminal \/ job[k].status = "DELETED"
    BY <1>8 DEF DeleteWrite, RowsInv, DeletesFinished, Gone
  <2>3. job' = [job EXCEPT ![k] = row]
    BY <1>8 DEF DeleteWrite
  <2>4. row \in Rows /\ row.status = "DELETED" /\ row.phase = "NONE"
    BY <1>type, <1>rows, <2>1, <2>3 DEF TypeOK, Row
  <2>5. RowStep(job[k], row)
    BY <2>2, <2>4 DEF RowStep
  <2> QED
    BY <1>type, <2>1, <2>3, <2>4, <2>5, OneRow, Zenon
<1> QED
  BY <1>1, <1>2, <1>3, <1>4, <1>5, <1>6, <1>7, <1>8 DEF ApiStep

\* Whatever step is taken, what it does to the rows is a RowsStep.
LEMMA RowSteps ==
    ASSUME RowsInv, TypeOK', Next
    PROVE  RowsStep
<1> TypeOK /\ ShapesOK
  BY DEF RowsInv
<1>1. ASSUME NEW j \in Jobs, Initiate(j) \/ Upload(j) \/ ExpirePreparation(j) \/ ExpireAnalysis(j)
      PROVE  RowsStep
  BY <1>1, PreparationRows, AnalysisRows
<1>2. ASSUME NEW c \in Controllers, NEW j \in Jobs, ClaimPreparation(c, j)
      PROVE  RowsStep
  BY <1>2, PreparationRows
<1>3. ASSUME NEW c \in Controllers, ControllerStep(c) \/ Heartbeat(c) \/ CrashController(c)
      PROVE  RowsStep
  <2>1. CASE GiveUp(c) \/ SourceError(c) \/ Enqueue(c) \/ Ack(c) \/ Heartbeat(c) \/ CrashController(c)
    BY <2>1, NoRow DEF GiveUp, SourceError, Enqueue, Ack, Heartbeat, CrashController
  <2>2. CASE RejectCapture(c) \/ Publish(c) \/ RejectReference(c) \/ CompletePreparation(c)
    BY <2>2, PreparationRows
  <2>3. CASE ReadJob(c) \/ Finish(c)
    BY <2>3, AnalysisRows
  <2> QED
    BY <1>3, <2>1, <2>2, <2>3 DEF ControllerStep
<1>4. ASSUME NEW c \in Controllers, NEW r \in Results, ClaimResult(c, r) \/ RedeliverResult(r)
      PROVE  RowsStep
  BY <1>4, NoRow DEF ClaimResult, RedeliverResult
<1>5. ASSUME NEW w \in Workers, WorkerStep(w) \/ PayloadError(w) \/ CrashWorker(w)
      PROVE  RowsStep
  <2>1. CASE GrantClaim(w) \/ FailLostAnalysis(w)
    BY <2>1, AnalysisRows
  <2>2. CASE ~(GrantClaim(w) \/ FailLostAnalysis(w))
    <3>1. job' = job
      BY <1>5, <2>2 DEF WorkerStep, RetryLater, RefuseClaim, LoadRow, LoadFlows, Execute,
                        Report, PayloadError, CrashWorker
    <3> QED
      BY <3>1, NoRow
  <2> QED
    BY <2>1, <2>2
<1>6. ASSUME NEW w \in Workers, NEW m \in Messages, Receive(w, m)
      PROVE  RowsStep
  BY <1>6, NoRow DEF Receive
<1>7. ASSUME NEW m \in Messages, RedeliverJob(m)
      PROVE  RowsStep
  BY <1>7, NoRow DEF RedeliverJob
<1>8. ASSUME NEW r \in Results, RedeliverResult(r)
      PROVE  RowsStep
  BY <1>8, NoRow DEF RedeliverResult
<1>9. ASSUME NEW a \in Clients, ApiStep(a)
      PROVE  RowsStep
  BY <1>9, AnalysisRows
<1> QED
  BY <1>1, <1>2, <1>3, <1>4, <1>5, <1>6, <1>7, <1>8, <1>9 DEF Next
-----------------------------------------------------------------------------
(* The rows stay consistent with what requests and documents assume of them *)

\* What a RowStep keeps: the shape, the end of a finished job, the attempt of a
\* job under analysis and, until it is claimed, its token.
LEMMA RowStepKeeps ==
    ASSUME NEW old \in Rows, NEW new \in Rows, Shape(old), RowStep(old, new)
    PROVE  /\ Shape(new)
           /\ old.status \in Terminal => new.status \in {old.status, "DELETED"}
           /\ old.status = "DELETED" => new.status = "DELETED"
           /\ old.status = "ANALYZING" /\ new.status \notin Terminal =>
                /\ new.status = "ANALYZING"
                /\ new.attempt = old.attempt
                /\ new.phase \in {"ENQUEUE_PENDING", "QUEUED"} =>
                    old.phase \in {"ENQUEUE_PENDING", "QUEUED"} /\ new.token = old.token
           /\ InAnalysis(old) => InAnalysis(new) \/ new.status \in Terminal
<1>1. Shape(new)
  BY DEF RowStep, Moves, Shape, Unfinished, Terminal
<1>2. old.status \in Terminal => new.status \in {old.status, "DELETED"}
  BY DEF RowStep, Moves, Unfinished, Terminal
<1>3. old.status = "DELETED" => new.status = "DELETED"
  BY DEF RowStep, Moves, Unfinished, Terminal
<1>4. old.status = "ANALYZING" /\ new.status \notin Terminal =>
        /\ new.status = "ANALYZING"
        /\ new.attempt = old.attempt
        /\ new.phase \in {"ENQUEUE_PENDING", "QUEUED"} =>
            old.phase \in {"ENQUEUE_PENDING", "QUEUED"} /\ new.token = old.token
  BY DEF RowStep, Moves, Keeps, Terminal
<1>5. InAnalysis(old) => InAnalysis(new) \/ new.status \in Terminal
  BY DEF RowStep, Moves, InAnalysis, Terminal
<1> QED
  BY <1>1, <1>2, <1>3, <1>4, <1>5

\* A request that is going to delete a job was so already, or has just seen that
\* the job is finished.
LEMMA DeleteSteps ==
    ASSUME TypeOK, Next, NEW a \in Clients, api'[a].op = "delete"
    PROVE  \/ api'[a] = api[a]
           \/ api'[a].job \in Jobs /\ Gone(api'[a].job) /\ job' = job
<1>1. CASE UNCHANGED api
  BY <1>1
<1>2. ASSUME NEW b \in Clients, ApiStep(b)
      PROVE  \/ api'[a] = api[a]
             \/ api'[a].job \in Jobs /\ Gone(api'[a].job) /\ job' = job
  <2>1. CASE CancelWrite(b) \/ DeleteWrite(b)
    BY <2>1 DEF CancelWrite, DeleteWrite, IdleClient, TypeOK
  <2>2. ASSUME NEW j \in Jobs, CancelRead(b, j)
        PROVE  api'[a] = api[a]
    BY <2>2 DEF CancelRead, TypeOK
  <2>3. ASSUME NEW j \in Jobs, DeleteRead(b, j)
        PROVE  \/ api'[a] = api[a]
               \/ api'[a].job \in Jobs /\ Gone(api'[a].job) /\ job' = job
    BY <2>3 DEF DeleteRead, TypeOK, IdleClient, Gone
  <2> QED
    BY <1>2, <2>1, <2>2, <2>3 DEF ApiStep
<1>3. (\E b \in Clients : ApiStep(b)) \/ UNCHANGED api
  BY ZenonT(30) DEF Next, Initiate, Upload, ExpirePreparation, ExpireAnalysis, ClaimPreparation, ClaimParsing,
         ClaimEnqueuePending, ExhaustPreparation, ClaimResult, ControllerStep, GiveUp, SourceError,
         RejectCapture, Publish, RejectReference, Enqueue, CompletePreparation, ReadJob, Finish, Ack,
         Heartbeat, CrashController, Receive, WorkerStep, GrantClaim, RetryLater, FailLostAnalysis,
         RefuseClaim, LoadRow, LoadFlows, Execute, Report, PayloadError, CrashWorker, RedeliverJob,
         RedeliverResult
<1> QED
  BY <1>1, <1>2, <1>3

\* The steps that change a controller thread.
LEMMA ControllerChanges ==
    ASSUME Next
    PROVE  \/ UNCHANGED ctl
           \/ \E d \in Controllers :
               \/ \E j \in Jobs : ClaimPreparation(d, j)
               \/ \E r \in Results : ClaimResult(d, r)
               \/ ControllerStep(d) \/ Heartbeat(d) \/ CrashController(d)
BY Zenon DEF Next, Initiate, Upload, ExpirePreparation, ExpireAnalysis, Receive, WorkerStep, GrantClaim,
       RetryLater, FailLostAnalysis, RefuseClaim, LoadRow, LoadFlows, Execute, Report, PayloadError,
       CrashWorker, RedeliverJob, RedeliverResult, ApiStep, CancelRead, CancelWrite, DeleteRead,
       DeleteWrite

\* A controller about to finish a job was so already, or has just read it.
LEMMA FinishingSteps ==
    ASSUME TypeOK, Next, NEW c \in Controllers, ctl'[c].pc = "finishing"
    PROVE  \/ /\ ctl[c].pc = "finishing"
              /\ ctl'[c].doc = ctl[c].doc /\ ctl'[c].res = ctl[c].res
           \/ /\ ctl'[c].res \in Results /\ ctl'[c].res.job \in Jobs
              /\ ctl'[c].doc = job[ctl'[c].res.job]
              /\ Writable(ctl'[c].doc)
              /\ job' = job
<1> DEFINE Goal == \/ /\ ctl[c].pc = "finishing"
                      /\ ctl'[c].doc = ctl[c].doc /\ ctl'[c].res = ctl[c].res
                   \/ /\ ctl'[c].res \in Results /\ ctl'[c].res.job \in Jobs
                      /\ ctl'[c].doc = job[ctl'[c].res.job]
                      /\ Writable(ctl'[c].doc)
                      /\ job' = job
<1>1. CASE UNCHANGED ctl
  BY <1>1
<1>2. ASSUME NEW d \in Controllers, NEW j \in Jobs, ClaimPreparation(d, j) PROVE Goal
  BY <1>2, Zenon DEF ClaimPreparation, ClaimParsing, ClaimEnqueuePending, ExhaustPreparation,
              IdleController, TypeOK
<1>3. ASSUME NEW d \in Controllers, NEW r \in Results, ClaimResult(d, r) PROVE Goal
  BY <1>3 DEF ClaimResult, IdleController, TypeOK
<1>4. ASSUME NEW d \in Controllers, ReadJob(d) PROVE Goal
  <2>1. ctl[d] \in ControllerStates /\ ctl[d].res \in Results /\ ctl[d].res.job \in Jobs
    BY <1>4 DEF ReadJob, TypeOK, ControllerStates, Consuming, Results
  <2>2. CASE c # d
    BY <1>4, <2>2 DEF ReadJob, TypeOK
  <2>3. CASE c = d
    <3>1. ctl[d].res.kind \in Final /\ Writable(job[ctl[d].res.job])
          /\ ctl'[c].res = ctl[d].res /\ ctl'[c].doc = job[ctl[d].res.job]
      BY <1>4, <2>1, <2>3, Zenon DEF ReadJob, TypeOK, ControllerStates
    <3>2. job' = job
      BY <1>4, <3>1, Zenon DEF ReadJob, Final
    <3> QED
      BY <2>1, <3>1, <3>2
  <2> QED
    BY <2>2, <2>3
<1>5. ASSUME NEW d \in Controllers,
             GiveUp(d) \/ SourceError(d) \/ RejectCapture(d) \/ Publish(d) \/ RejectReference(d)
             \/ Enqueue(d) \/ CompletePreparation(d) \/ Finish(d) \/ Ack(d) \/ Heartbeat(d)
             \/ CrashController(d)
      PROVE Goal
  <2>1. CASE c # d
    BY <1>5, <2>1, Zenon DEF GiveUp, SourceError, RejectCapture, Publish, RejectReference, Enqueue,
                      CompletePreparation, Finish, Ack, Heartbeat, CrashController, TypeOK
  <2>2. CASE c = d
    <3>1. ctl[c] \in ControllerStates
      BY DEF TypeOK
    <3>2. CASE GiveUp(d) \/ SourceError(d) \/ RejectCapture(d) \/ RejectReference(d)
               \/ CompletePreparation(d) \/ Ack(d) \/ CrashController(d)
      BY <2>2, <3>2 DEF GiveUp, SourceError, RejectCapture, RejectReference, CompletePreparation,
                        Ack, CrashController, IdleController, TypeOK
    <3>3. CASE Publish(d)
      <4>1. \/ ctl'[c] = IdleController
            \/ ctl'[c] = [ctl[c] EXCEPT !.pc = "staged"]
        BY <2>2, <3>3 DEF Publish, TypeOK
      <4> QED
        BY <3>1, <4>1 DEF IdleController, ControllerStates
    <3>4. CASE Enqueue(d)
      BY <2>2, <3>1, <3>4 DEF Enqueue, TypeOK, ControllerStates
    <3>5. CASE Finish(d)
      <4>1. \/ ctl'[c] = IdleController
            \/ ctl'[c] = [IdleController EXCEPT !.pc = "acking", !.res = ctl[c].res]
        BY <2>2, <3>5 DEF Finish, TypeOK
      <4>2. IdleController.pc = "idle"
        BY DEF IdleController
      <4>3. [IdleController EXCEPT !.pc = "acking", !.res = ctl[c].res].pc = "acking"
        BY DEF IdleController
      <4> QED
        BY <4>1, <4>2, <4>3, Zenon
    <3>6. CASE Heartbeat(d)
      BY <2>2, <3>1, <3>6 DEF Heartbeat, TypeOK, ControllerStates, Preparing
    <3> QED
      BY <1>5, <3>2, <3>3, <3>4, <3>5, <3>6
  <2> QED
    BY <2>1, <2>2
<1> QED
  BY <1>1, <1>2, <1>3, <1>4, <1>5, ControllerChanges DEF ControllerStep

\* The rows, the deletions and the documents stay consistent.
LEMMA RowsNext ==
    ASSUME RowsInv, [Next]_vars
    PROVE  RowsInv'
<1>type. TypeOK /\ TypeOK'
  BY TypeNext DEF RowsInv
<1>1. CASE UNCHANGED vars
  BY <1>1, <1>type DEF vars, RowsInv, ShapesOK, DeletesFinished, DocumentsOK, Gone
<1>2. CASE Next
  <2>1. \A j \in Jobs : /\ job[j] \in Rows /\ job'[j] \in Rows /\ Shape(job[j])
                        /\ RowStep(job[j], job'[j])
    BY <1>2, <1>type, RowSteps DEF RowsStep, RowsInv, ShapesOK, TypeOK
  <2>2. ShapesOK'
    BY <2>1, RowStepKeeps DEF ShapesOK
  <2>3. \A j \in Jobs : Gone(j) => Gone(j)'
    BY <2>1, RowStepKeeps DEF Gone
  <2>4. DeletesFinished'
    <3> SUFFICES ASSUME NEW a \in Clients, api'[a].op = "delete"
                 PROVE  Gone(api[a].job)'
      BY DEF DeletesFinished
    <3>1. api'[a].job \in Jobs
      BY <1>type DEF TypeOK, ClientStates
    <3>2. Gone(api'[a].job)
      BY <1>2, <1>type, DeleteSteps DEF RowsInv, DeletesFinished
    <3> QED
      BY <2>3, <3>1, <3>2 DEF Gone
  <2>5. DocumentsOK'
    <3> SUFFICES ASSUME NEW c \in Controllers, ctl'[c].pc = "finishing"
                 PROVE  /\ ctl'[c].doc.status \in Unfinished
                        /\ Shape(ctl'[c].doc)
                        /\ ctl'[c].doc.status = "ANALYZING" =>
                            job'[ctl'[c].res.job].status = "ANALYZING" \/ Gone(ctl[c].res.job)'
      BY DEF DocumentsOK
    <3>1. ctl'[c].res \in Results /\ ctl'[c].res.job \in Jobs /\ ctl'[c].doc \in Rows
      BY <1>type DEF TypeOK, ControllerStates, Consuming, Results
    <3>2. CASE /\ ctl[c].pc = "finishing"
               /\ ctl'[c].doc = ctl[c].doc /\ ctl'[c].res = ctl[c].res
      <4> DEFINE k == ctl[c].res.job
      <4>1. k \in Jobs
        BY <3>1, <3>2
      <4>2. job[k].status = "ANALYZING" => job'[k].status \in {"ANALYZING"} \cup Terminal
        BY <2>1, <4>1, RowStepKeeps
      <4>3. /\ ctl[c].doc.status \in Unfinished
            /\ Shape(ctl[c].doc)
            /\ ctl[c].doc.status = "ANALYZING" => job[k].status = "ANALYZING" \/ Gone(k)
        BY <3>2 DEF RowsInv, DocumentsOK
      <4> QED
        BY <2>3, <3>2, <4>1, <4>2, <4>3 DEF Gone
    <3>3. CASE /\ ctl'[c].doc = job[ctl'[c].res.job]
               /\ Writable(ctl'[c].doc)
               /\ job' = job
      BY <2>1, <3>1, <3>3 DEF Writable, Rows, Statuses, Unfinished
    <3> QED
      BY <1>2, <1>type, <3>2, <3>3, FinishingSteps
  <2> QED
    BY <1>type, <2>2, <2>4, <2>5 DEF RowsInv
<1> QED
  BY <1>1, <1>2

\* At the start there is no request and no document.
LEMMA RowsInit == Init => RowsInv
<1> SUFFICES ASSUME Init PROVE RowsInv
  OBVIOUS
<1>1. TypeOK
  BY TypeInit
<1>2. ShapesOK /\ DeletesFinished /\ DocumentsOK
  BY DEF Init, ShapesOK, Shape, Row, DeletesFinished, IdleClient, DocumentsOK, IdleController
<1> QED
  BY <1>1, <1>2 DEF RowsInv

\* The rows, the requests and the documents are consistent in every behaviour.
THEOREM RowsConsistent == Spec => []RowsInv
BY RowsInit, RowsNext, PTL DEF Spec

\* No step, however stale what it writes, reopens a finished job, replaces its
\* outcome or revives a deleted job (transition_job_terminal,
\* complete_job_with_candidates, delete_job).
THEOREM FinishedForGood == Spec => TerminalSticky
<1>1. RowsInv /\ [Next]_vars =>
        [\A j \in Jobs :
            /\ job[j].status \in Terminal => job'[j].status \in {job[j].status, "DELETED"}
            /\ job[j].status = "DELETED" => job'[j].status = "DELETED"]_vars
  <2> SUFFICES ASSUME RowsInv, Next, NEW j \in Jobs
               PROVE  /\ job[j].status \in Terminal => job'[j].status \in {job[j].status, "DELETED"}
                      /\ job[j].status = "DELETED" => job'[j].status = "DELETED"
    OBVIOUS
  <2>1. TypeOK /\ TypeOK'
    BY TypeNext DEF RowsInv
  <2>2. job[j] \in Rows /\ job'[j] \in Rows /\ Shape(job[j]) /\ RowStep(job[j], job'[j])
    BY <2>1, RowSteps DEF RowsStep, RowsInv, ShapesOK, TypeOK
  <2> QED
    BY <2>2, RowStepKeeps
<1> QED
  BY <1>1, RowsConsistent, PTL DEF Spec, TerminalSticky

\* Every step of the pipeline is a step of the lifecycle of one job, or leaves
\* every status and phase alone (StateMachine.transitions of jobs.py, and the
\* order of the processing phases).
THEOREM LifecycleImplemented == Spec => ImplementsJobLifecycle
<1> DEFINE status == [j \in Jobs |-> job[j].status]
           phase == [j \in Jobs |-> job[j].phase]
<1>1. Init => Lifecycle!LifecycleInit
  BY DEF Init, Lifecycle!LifecycleInit, Row
<1>2. RowsInv /\ [Next]_vars => [Lifecycle!LifecycleNext]_<<status, phase>>
  <2> SUFFICES ASSUME RowsInv, [Next]_vars
               PROVE  Lifecycle!LifecycleNext \/ UNCHANGED <<status, phase>>
    OBVIOUS
  <2>1. CASE \A j \in Jobs : job'[j] = job[j]
    BY <2>1
  <2>2. ASSUME NEW k \in Jobs, job'[k] # job[k]
        PROVE  Lifecycle!LifecycleNext \/ UNCHANGED <<status, phase>>
    <3>1. Next
      BY <2>2 DEF vars
    <3>2. TypeOK /\ TypeOK'
      BY TypeNext DEF RowsInv
    <3>3. /\ job[k] \in Rows /\ job'[k] \in Rows /\ Shape(job[k])
          /\ RowStep(job[k], job'[k])
          /\ \A j \in Jobs \ {k} : job'[j] = job[j]
      BY <2>2, <3>1, <3>2, RowSteps DEF RowsStep, RowsInv, ShapesOK, TypeOK
    <3>4. /\ status' = [status EXCEPT ![k] = job'[k].status]
          /\ phase' = [phase EXCEPT ![k] = job'[k].phase]
      BY <3>3, Zenon
    <3>5. CASE job'[k].status = job[k].status /\ job'[k].phase = job[k].phase
      BY <3>4, <3>5, Zenon
    <3>6. CASE job'[k].status # job[k].status \/ job'[k].phase # job[k].phase
      <4>1. \A t, p : job'[k].status = t /\ job'[k].phase = p => Lifecycle!Becomes(k, t, p)
        BY <3>4 DEF Lifecycle!Becomes
      <4>2. \A t, ps : job[k].status = t /\ job[k].phase \in ps => Lifecycle!At(k, t, ps)
        BY DEF Lifecycle!At
      <4>3. status[k] = job[k].status
        BY Zenon
      <4>4. \/ Lifecycle!Advance(k)
            \/ job[k].status \in Unfinished /\ job'[k].status \in Terminal
            \/ job[k].status \in Terminal \cup {"DELETED"}
        BY <3>3, <3>6, <4>1, <4>2 DEF RowStep, Moves, Lifecycle!Advance, Terminal, Unfinished
      <4>5. ASSUME job[k].status \in Unfinished, job'[k].status \in Terminal
            PROVE  Lifecycle!End(k)
        <5>1. \/ job[k].status = "ANALYZING" /\ job'[k].status = "COMPLETED" /\ job'[k].phase = "COMPLETED"
              \/ /\ job'[k].status = "FAILED"
                 /\ job'[k].phase \in Lifecycle!Phases \cup {"FAILED"}
              \/ job'[k].status = "CANCELLED" /\ job'[k].phase = "CANCELLED"
          BY <3>3, <4>5 DEF RowStep, Moves, Terminal, Unfinished
        <5> QED
          BY <3>4, <4>1, <4>3, <4>5, <5>1, Zenon DEF Lifecycle!End, Lifecycle!Unfinished, Unfinished
      <4>6. ASSUME job[k].status \in Terminal \cup {"DELETED"}
            PROVE  Lifecycle!Delete(k)
        <5>1. job[k].status \in Terminal /\ job'[k].status = "DELETED" /\ job'[k].phase = "NONE"
          BY <3>3, <3>6, <4>6 DEF RowStep, Moves, Shape, Terminal, Unfinished
        <5> QED
          BY <4>1, <4>3, <5>1 DEF Lifecycle!Delete, Lifecycle!Finished, Terminal
      <4> QED
        BY <4>4, <4>5, <4>6 DEF Lifecycle!LifecycleNext
    <3> QED
      BY <3>5, <3>6
  <2> QED
    BY <2>1, <2>2
<1> QED
  BY <1>1, <1>2, RowsConsistent, PTL DEF Spec, ImplementsJobLifecycle, Lifecycle!LifecycleSpec
-----------------------------------------------------------------------------
(* What a step may do to the flow records, the candidates and the holders of deliveries *)

\* Flow records change when a preparation that is still being parsed is
\* published, and when the job is deleted.
LEMMA FlowSteps ==
    ASSUME RowsInv, Next, NEW j \in Jobs, flows'[j] # flows[j]
    PROVE  job[j].status = "INGESTING" \/ job'[j].status = "DELETED"
<1>type. TypeOK /\ ShapesOK
  BY DEF RowsInv
<1>1. ASSUME NEW c \in Controllers, Publish(c) PROVE job[j].status = "INGESTING"
  <2> DEFINE k == ctl[c].hold.job
  <2>1. k \in Jobs
    BY <1>1, <1>type DEF Publish, TypeOK, ControllerStates, Preparing, Messages
  <2>2. j = k /\ Owns(job[k], ctl[c].hold, {"PARSING"})
    BY <1>1, <2>1, <1>type DEF Publish, TypeOK
  <2> QED
    BY <2>1, <2>2, <1>type, PhaseTellsStatus DEF Owns, TypeOK, ShapesOK
<1>2. ASSUME NEW a \in Clients, DeleteWrite(a) PROVE job'[j].status = "DELETED"
  BY <1>2, <1>type DEF DeleteWrite, TypeOK, ClientStates, Row
<1>3. (\E c \in Controllers : Publish(c)) \/ (\E a \in Clients : DeleteWrite(a)) \/ UNCHANGED flows
  BY ZenonT(30) DEF Next, Initiate, Upload, ExpirePreparation, ExpireAnalysis, ClaimPreparation, ClaimParsing,
         ClaimEnqueuePending, ExhaustPreparation, ClaimResult, ControllerStep, GiveUp, SourceError,
         RejectCapture, RejectReference, Enqueue, CompletePreparation, ReadJob, Finish, Ack,
         Heartbeat, CrashController, Receive, WorkerStep, GrantClaim, RetryLater, FailLostAnalysis,
         RefuseClaim, LoadRow, LoadFlows, Execute, Report, PayloadError, CrashWorker, RedeliverJob,
         RedeliverResult, ApiStep, CancelRead, CancelWrite, DeleteRead
<1> QED
  BY <1>1, <1>2, <1>3

\* Only a publication, a result and a deletion make a job ANALYZING, COMPLETED or
\* DELETED.
LEMMA StatusSources ==
    ASSUME TypeOK, Next, NEW j \in Jobs
    PROVE  \/ job'[j].status \in {job[j].status, "CREATED", "INGESTING", "FAILED", "CANCELLED"}
           \/ \E c \in Controllers : Publish(c) \/ Finish(c)
           \/ \E a \in Clients : DeleteWrite(a)
<1> DEFINE Goal == job'[j].status \in {job[j].status, "CREATED", "INGESTING", "FAILED", "CANCELLED"}
<1>type. TypeOK /\ job[j] \in Rows
  BY DEF TypeOK
<1>1. ASSUME NEW k \in Jobs, Initiate(k) \/ Upload(k) \/ ExpirePreparation(k) \/ ExpireAnalysis(k)
      PROVE  Goal
  BY <1>1, <1>type DEF Initiate, Upload, ExpirePreparation, ExpireAnalysis, TypeOK, Row, Rows
<1>2. ASSUME NEW c \in Controllers, NEW k \in Jobs, ClaimPreparation(c, k)
      PROVE  Goal
  <2>1. CASE ClaimParsing(c, k)
    <3>1. job'[k].status = job[k].status /\ \A i \in Jobs \ {k} : job'[i] = job[i]
      BY <2>1, <1>type DEF ClaimParsing, TypeOK, Rows
    <3> QED
      BY <3>1
  <2>2. CASE ClaimEnqueuePending(c, k)
    <3>1. job'[k].status = job[k].status /\ \A i \in Jobs \ {k} : job'[i] = job[i]
      BY <2>2, <1>type DEF ClaimEnqueuePending, TypeOK, Rows
    <3> QED
      BY <3>1
  <2>3. CASE ExhaustPreparation(c, k)
    <3>1. job'[k].status = "FAILED" /\ \A i \in Jobs \ {k} : job'[i] = job[i]
      BY <2>3, <1>type DEF ExhaustPreparation, TypeOK, Row
    <3> QED
      BY <3>1
  <2> QED
    BY <1>2, <2>1, <2>2, <2>3 DEF ClaimPreparation
<1>3. ASSUME NEW c \in Controllers, ControllerStep(c) \/ Heartbeat(c) \/ CrashController(c),
             ~Publish(c), ~Finish(c)
      PROVE  Goal
  <2>1. CASE RejectCapture(c) \/ RejectReference(c)
    BY <2>1, <1>type DEF RejectCapture, RejectReference, TypeOK, Row
  <2>2. CASE CompletePreparation(c)
    BY <2>2, <1>type DEF CompletePreparation, TypeOK, Rows
  <2>3. CASE ReadJob(c)
    BY <2>3, <1>type DEF ReadJob, TypeOK, Rows
  <2>4. CASE UNCHANGED job
    BY <2>4
  <2> QED
    BY <1>3, <2>1, <2>2, <2>3, <2>4
       DEF ControllerStep, GiveUp, SourceError, Enqueue, Ack, Heartbeat, CrashController
<1>4. ASSUME NEW w \in Workers, WorkerStep(w) \/ PayloadError(w) \/ CrashWorker(w)
      PROVE  Goal
  <2>1. CASE GrantClaim(w)
    BY <2>1, <1>type, ZenonT(30) DEF GrantClaim, TypeOK, Rows
  <2>2. CASE FailLostAnalysis(w)
    BY <2>2, <1>type DEF FailLostAnalysis, TypeOK, Rows
  <2>3. CASE UNCHANGED job
    BY <2>3
  <2> QED
    BY <1>4, <2>1, <2>2, <2>3 DEF WorkerStep, RetryLater, RefuseClaim, LoadRow, LoadFlows, Execute,
                                  Report, PayloadError, CrashWorker
<1>5. ASSUME NEW a \in Clients, ApiStep(a), ~DeleteWrite(a)
      PROVE  Goal
  <2>1. CASE CancelWrite(a)
    <3>1. api[a].doc.status = "CANCELLED"
      BY <2>1, <1>type DEF CancelWrite, TypeOK, ClientStates
    <3> QED
      BY <2>1, <3>1, <1>type DEF CancelWrite, TypeOK
  <2> QED
    BY <1>5, <2>1, Zenon DEF ApiStep, CancelRead, DeleteRead
<1> QED
  BY <1>1, <1>2, <1>3, <1>4, <1>5, Zenon DEF Next, ClaimResult, Receive, RedeliverJob, RedeliverResult

\* The analysis of a job begins with the publication of its flow records.
LEMMA AnalysisStarts ==
    ASSUME RowsInv, Next, NEW j \in Jobs, job[j].status = "INGESTING", job'[j].status = "ANALYZING"
    PROVE  flows'[j] = job'[j].attempt
<1>type. TypeOK /\ job[j] \in Rows
  BY DEF RowsInv, TypeOK
<1>1. ASSUME NEW c \in Controllers, Publish(c) PROVE flows'[j] = job'[j].attempt
  <2> DEFINE h == ctl[c].hold
             row == [job[h.job] EXCEPT !.status = "ANALYZING", !.phase = "ENQUEUE_PENDING"]
  <2>1. h.job \in Jobs
    BY <1>1, <1>type DEF Publish, TypeOK, ControllerStates, Preparing, Messages
  <2>2. j = h.job /\ Owns(job[j], h, {"PARSING"})
    BY <1>1, <2>1, <1>type DEF Publish, TypeOK
  <2>3. job'[j] = row /\ flows'[j] = h.attempt
    BY <1>1, <2>2, <1>type, Zenon DEF Publish, TypeOK
  <2>4. row.attempt = job[j].attempt
    BY <2>2, <1>type DEF Rows
  <2> QED
    BY <2>2, <2>3, <2>4 DEF Owns
<1>2. ASSUME NEW c \in Controllers, Finish(c) PROVE FALSE
  <2>1. ctl[c].doc \in Rows
    BY <1>type DEF TypeOK, ControllerStates
  <2>2. job'[j] = job[j] \/ job'[j] = Finished(ctl[c].doc, ctl[c].res.kind)
    BY <1>2, <1>type DEF Finish, TypeOK
  <2> QED
    BY <2>1, <2>2, FinishedType DEF Terminal
<1>3. ASSUME NEW a \in Clients, DeleteWrite(a) PROVE FALSE
  BY <1>3, <1>type DEF DeleteWrite, TypeOK, Row
<1> QED
  BY <1>type, <1>1, <1>2, <1>3, StatusSources

\* The flow records of a job under analysis stay those of its attempt.
LEMMA FlowsStoredNext ==
    ASSUME RowsInv, FlowsStored, TypeOK', Next
    PROVE  FlowsStored'
<1> SUFFICES ASSUME NEW j \in Jobs, job'[j].status = "ANALYZING"
             PROVE  flows'[j] = job'[j].attempt
  BY DEF FlowsStored
<1>1. job[j] \in Rows /\ job'[j] \in Rows /\ Shape(job[j]) /\ RowStep(job[j], job'[j])
  BY RowSteps DEF RowsStep, RowsInv, ShapesOK, TypeOK
<1>2. job[j].status \in {"INGESTING", "ANALYZING"}
  BY <1>1 DEF RowStep, Moves
<1>3. CASE job[j].status = "ANALYZING"
  <2>1. job'[j].attempt = job[j].attempt
    BY <1>1, <1>3, RowStepKeeps DEF Terminal
  <2>2. flows'[j] = flows[j]
    BY <1>3, FlowSteps
  <2> QED
    BY <1>3, <2>1, <2>2 DEF FlowsStored
<1> QED
  BY <1>2, <1>3, AnalysisStarts

\* What is committed stays so: until the job is gone its attempt, its flow
\* records and, until it is claimed, its token do not change.
LEMMA CommittedNext ==
    ASSUME RowsInv, TypeOK', Next, NEW m \in Messages, Committed(m)
    PROVE  Committed(m)'
<1> DEFINE k == m.job
<1>1. k \in Jobs /\ job[k] \in Rows /\ job'[k] \in Rows /\ Shape(job[k])
  BY DEF RowsInv, ShapesOK, TypeOK, Messages
<1>2. RowStep(job[k], job'[k])
  BY <1>1, RowSteps DEF RowsStep
<1>3. CASE Gone(k)
  BY <1>1, <1>2, <1>3, RowStepKeeps DEF Gone, Committed
<1>4. CASE ~Gone(k)
  <2>1. /\ job[k].status = "ANALYZING" /\ job[k].attempt = m.attempt /\ flows[k] = m.attempt
        /\ job[k].phase \in {"ENQUEUE_PENDING", "QUEUED"} => job[k].token = m.token
    BY <1>4 DEF Committed
  <2>2. CASE job'[k].status \in Terminal
    BY <2>2 DEF Committed, Gone
  <2>3. CASE job'[k].status \notin Terminal
    <3>1. /\ job'[k].status = "ANALYZING" /\ job'[k].attempt = m.attempt
          /\ job'[k].phase \in {"ENQUEUE_PENDING", "QUEUED"} => job'[k].token = m.token
      BY <1>1, <1>2, <2>1, <2>3, RowStepKeeps
    <3>2. flows'[k] = flows[k]
      BY <1>1, <2>1, <3>1, FlowSteps, Zenon
    <3> QED
      BY <2>1, <3>1, <3>2 DEF Committed
  <2> QED
    BY <2>2, <2>3
<1> QED
  BY <1>3, <1>4

\* A controller that holds a published preparation held it before, or has just
\* published it or taken it over, and then the row agrees with it.
LEMMA StagedSteps ==
    ASSUME RowsInv, TypeOK', Next, NEW c \in Controllers, ctl'[c].pc \in {"staged", "enqueued"}
    PROVE  \/ ctl[c].pc \in {"staged", "enqueued"} /\ ctl'[c].hold = ctl[c].hold
           \/ \E j \in Jobs : ClaimEnqueuePending(c, j)
           \/ /\ Publish(c) /\ ctl[c].hold \in Messages /\ ctl'[c].hold = ctl[c].hold
              /\ Owns(job[ctl[c].hold.job], ctl[c].hold, {"PARSING"})
<1> DEFINE Goal == \/ ctl[c].pc \in {"staged", "enqueued"} /\ ctl'[c].hold = ctl[c].hold
                   \/ \E j \in Jobs : ClaimEnqueuePending(c, j)
                   \/ /\ Publish(c) /\ ctl[c].hold \in Messages /\ ctl'[c].hold = ctl[c].hold
                      /\ Owns(job[ctl[c].hold.job], ctl[c].hold, {"PARSING"})
<1>type. TypeOK /\ ctl[c] \in ControllerStates
  BY DEF RowsInv, TypeOK
<1>idle. /\ IdleController.pc = "idle"
         /\ \A x : [IdleController EXCEPT !.pc = "parsing", !.hold = x].pc = "parsing"
         /\ \A x : [IdleController EXCEPT !.pc = "reading", !.res = x].pc = "reading"
         /\ \A x : [IdleController EXCEPT !.pc = "acking", !.res = x].pc = "acking"
  BY DEF IdleController
<1>1. CASE UNCHANGED ctl
  BY <1>1
<1>2. ASSUME NEW d \in Controllers, NEW j \in Jobs, ClaimPreparation(d, j) PROVE Goal
  <2>1. CASE ClaimParsing(d, j)
    BY <2>1, <1>type, <1>idle DEF ClaimParsing, TypeOK
  <2>2. CASE ClaimEnqueuePending(d, j)
    BY <2>2, <1>type, Zenon DEF ClaimEnqueuePending, TypeOK
  <2>3. CASE ExhaustPreparation(d, j)
    BY <2>3 DEF ExhaustPreparation
  <2> QED
    BY <1>2, <2>1, <2>2, <2>3 DEF ClaimPreparation
<1>3. ASSUME NEW d \in Controllers, NEW r \in Results, ClaimResult(d, r) PROVE Goal
  BY <1>3, <1>type, <1>idle DEF ClaimResult, TypeOK
<1>4. ASSUME NEW d \in Controllers, ControllerStep(d) \/ Heartbeat(d) \/ CrashController(d) PROVE Goal
  <2>1. CASE c # d
    BY <1>4, <2>1, <1>type, ZenonT(30)
       DEF ControllerStep, GiveUp, SourceError, RejectCapture, Publish, RejectReference, Enqueue,
           CompletePreparation, ReadJob, Finish, Ack, Heartbeat, CrashController, TypeOK
  <2>2. CASE c = d
    <3>1. CASE GiveUp(d) \/ SourceError(d) \/ RejectCapture(d) \/ RejectReference(d)
               \/ CompletePreparation(d) \/ Ack(d) \/ CrashController(d)
      BY <2>2, <3>1, <1>type, <1>idle DEF GiveUp, SourceError, RejectCapture, RejectReference,
                                          CompletePreparation, Ack, CrashController, TypeOK
    <3>2. CASE Publish(d)
      <4>1. \/ ctl'[c] = IdleController
            \/ /\ ctl'[c] = [ctl[c] EXCEPT !.pc = "staged"]
               /\ Owns(job[ctl[c].hold.job], ctl[c].hold, {"PARSING"})
        BY <2>2, <3>2, <1>type DEF Publish, TypeOK
      <4>2. ctl[c].hold \in Messages
        BY <2>2, <3>2, <1>type DEF Publish, ControllerStates, Preparing
      <4>3. [ctl[c] EXCEPT !.pc = "staged"].hold = ctl[c].hold
        BY <1>type DEF ControllerStates
      <4> QED
        BY <2>2, <3>2, <4>1, <4>2, <4>3, <1>idle, Zenon
    <3>3. CASE Enqueue(d)
      <4>1. ctl'[c] = [ctl[c] EXCEPT !.pc = "enqueued"] /\ ctl[c].pc = "staged"
        BY <2>2, <3>3, <1>type DEF Enqueue, TypeOK
      <4> QED
        BY <4>1, <1>type DEF ControllerStates
    <3>4. CASE Finish(d)
      <4>1. \/ ctl'[c] = IdleController
            \/ ctl'[c] = [IdleController EXCEPT !.pc = "acking", !.res = ctl[c].res]
        BY <2>2, <3>4, <1>type DEF Finish, TypeOK
      <4> QED
        BY <4>1, <1>idle, Zenon
    <3>5. CASE ReadJob(d)
      <4>1. \/ ctl'[c] = [ctl[c] EXCEPT !.pc = "finishing", !.doc = job[ctl[c].res.job]]
            \/ ctl'[c] = [ctl[c] EXCEPT !.pc = "acking"]
        BY <2>2, <3>5, <1>type DEF ReadJob, TypeOK
      <4> QED
        BY <4>1, <1>type, Zenon DEF ControllerStates
    <3>6. CASE Heartbeat(d)
      <4>1. ctl'[c] = [ctl[c] EXCEPT !.lost = TRUE]
        BY <2>2, <3>6, <1>type DEF Heartbeat, TypeOK
      <4> QED
        BY <4>1, <1>type DEF ControllerStates
    <3> QED
      BY <1>4, <3>1, <3>2, <3>3, <3>4, <3>5, <3>6, Zenon DEF ControllerStep
  <2> QED
    BY <2>1, <2>2
<1> QED
  BY <1>1, <1>2, <1>3, <1>4, ControllerChanges, Zenon

\* A message on the queue was there before, or a controller that held its
\* published preparation has just enqueued it.
LEMMA QueueSteps ==
    ASSUME TypeOK, Next, NEW m \in Messages, Outstanding(jq, m)'
    PROVE  \/ Outstanding(jq, m)
           \/ \E c \in Controllers : ctl[c].pc = "staged" /\ ctl[c].hold = m
<1> DEFINE Goal == \/ Outstanding(jq, m)
                   \/ \E c \in Controllers : ctl[c].pc = "staged" /\ ctl[c].hold = m
<1>1. CASE UNCHANGED jq
  BY <1>1 DEF Outstanding
<1>2. ASSUME NEW c \in Controllers, Enqueue(c) PROVE Goal
  <2>1. ctl[c].hold \in Messages /\ ctl[c].pc = "staged"
    BY <1>2 DEF Enqueue, TypeOK, ControllerStates, Preparing
  <2>2. CASE ctl[c].hold = m
    BY <2>1, <2>2
  <2>3. CASE ctl[c].hold # m
    <3>1. jq' = jq \/ jq' = Push(jq, ctl[c].hold)
      BY <1>2 DEF Enqueue
    <3> QED
      BY <2>1, <2>3, <3>1 DEF Push, Outstanding, TypeOK, Queues
  <2> QED
    BY <2>2, <2>3
<1>3. ASSUME NEW n \in Messages, jq.waiting[n] > 0, jq' = Deliver(jq, n) PROVE Goal
  <2>1. CASE n = m
    BY <1>3, <2>1 DEF Outstanding
  <2>2. CASE n # m
    BY <1>3, <2>2 DEF Deliver, Outstanding, TypeOK, Queues
  <2> QED
    BY <2>1, <2>2
<1>4. ASSUME NEW n \in Messages, jq.inflight[n] > 0, jq' = Redeliver(jq, n) PROVE Goal
  <2>1. CASE n = m
    BY <1>4, <2>1 DEF Outstanding
  <2>2. CASE n # m
    BY <1>4, <2>2 DEF Redeliver, Outstanding, TypeOK, Queues
  <2> QED
    BY <2>1, <2>2
<1>5. ASSUME NEW n \in Messages, jq' = Settle(jq, n) PROVE Goal
  <2>1. CASE jq.inflight[n] > 0 /\ n = m
    BY <2>1 DEF Outstanding
  <2>2. CASE ~(jq.inflight[n] > 0)
    BY <1>5, <2>2 DEF Settle, Outstanding
  <2>3. CASE jq.inflight[n] > 0 /\ n # m
    BY <1>5, <2>3 DEF Settle, Outstanding, TypeOK, Queues
  <2> QED
    BY <2>1, <2>2, <2>3
<1>6. ASSUME NEW w \in Workers, Report(w) PROVE Goal
  <2>1. wkr[w].msg \in Messages
    BY <1>6 DEF Report, TypeOK, WorkerStates
  <2> QED
    BY <1>5, <1>6, <2>1 DEF Report
<1>7. \/ UNCHANGED jq
      \/ \E c \in Controllers : Enqueue(c)
      \/ \E w \in Workers, n \in Messages : Receive(w, n)
      \/ \E n \in Messages : RedeliverJob(n)
      \/ \E w \in Workers : Report(w)
  BY ZenonT(30) DEF Next, Initiate, Upload, ExpirePreparation, ExpireAnalysis, ClaimPreparation, ClaimParsing,
         ClaimEnqueuePending, ExhaustPreparation, ClaimResult, ControllerStep, GiveUp, SourceError,
         RejectCapture, Publish, RejectReference, CompletePreparation, ReadJob, Finish, Ack,
         Heartbeat, CrashController, WorkerStep, GrantClaim, RetryLater, FailLostAnalysis,
         RefuseClaim, LoadRow, LoadFlows, Execute, PayloadError, CrashWorker, RedeliverResult,
         ApiStep, CancelRead, CancelWrite, DeleteRead, DeleteWrite
<1> QED
  BY <1>1, <1>2, <1>3, <1>4, <1>6, <1>7, Zenon DEF Receive, RedeliverJob

\* A worker with a delivery had it before, or has just received it from the
\* queue; one that analyses a job did so before, or has just been granted it.
LEMMA WorkerSteps ==
    ASSUME TypeOK, Next, NEW w \in Workers
    PROVE  /\ wkr'[w].pc # "idle" =>
                \/ wkr[w].pc # "idle" /\ wkr'[w].msg = wkr[w].msg
                \/ wkr'[w].pc = "claiming" /\ wkr'[w].msg \in Messages /\ Outstanding(jq, wkr'[w].msg)
           /\ wkr'[w].pc \in Analysing =>
                /\ wkr'[w].msg = wkr[w].msg
                /\ wkr[w].pc \in Analysing \/ GrantClaim(w)
           /\ wkr'[w].pc = "executing" =>
                \/ wkr[w].pc = "executing" /\ wkr'[w].loaded = wkr[w].loaded
                \/ wkr[w].pc = "fetching" /\ wkr'[w].loaded = flows[wkr[w].msg.job] /\ job' = job
<1> DEFINE Goal ==
      /\ wkr'[w].pc # "idle" =>
           \/ wkr[w].pc # "idle" /\ wkr'[w].msg = wkr[w].msg
           \/ wkr'[w].pc = "claiming" /\ wkr'[w].msg \in Messages /\ Outstanding(jq, wkr'[w].msg)
      /\ wkr'[w].pc \in Analysing =>
           /\ wkr'[w].msg = wkr[w].msg
           /\ wkr[w].pc \in Analysing \/ GrantClaim(w)
      /\ wkr'[w].pc = "executing" =>
           \/ wkr[w].pc = "executing" /\ wkr'[w].loaded = wkr[w].loaded
           \/ wkr[w].pc = "fetching" /\ wkr'[w].loaded = flows[wkr[w].msg.job] /\ job' = job
<1>type. wkr[w] \in WorkerStates
  BY DEF TypeOK
<1>1. CASE wkr'[w] = wkr[w]
  BY <1>1, <1>type DEF Analysing, WorkerStates
<1>2. CASE wkr'[w] = IdleWorker
  BY <1>2 DEF IdleWorker, Analysing
<1>3. ASSUME NEW n \in Messages, Receive(w, n) PROVE Goal
  <2>1. wkr'[w] = [IdleWorker EXCEPT !.pc = "claiming", !.msg = n]
    BY <1>3 DEF Receive, TypeOK
  <2>2. wkr'[w].pc = "claiming" /\ wkr'[w].msg = n
    BY <2>1 DEF IdleWorker
  <2> QED
    BY <1>3, <2>2 DEF Receive, Outstanding, Analysing
<1>4. ASSUME NEW k, Conclude(w, k), wkr[w].pc # "idle" PROVE Goal
  <2>1. wkr'[w] = [wkr[w] EXCEPT !.pc = "reporting", !.out = k]
    BY <1>4 DEF Conclude, TypeOK
  <2>2. wkr'[w].pc = "reporting" /\ wkr'[w].msg = wkr[w].msg
    BY <2>1, <1>type, Zenon DEF WorkerStates
  <2> QED
    BY <1>4, <2>2 DEF Analysing
<1>5. ASSUME GrantClaim(w) PROVE Goal
  <2>1. wkr'[w] = [wkr[w] EXCEPT !.pc = "loading"]
    BY <1>5 DEF GrantClaim, TypeOK
  <2>2. wkr'[w].pc = "loading" /\ wkr'[w].msg = wkr[w].msg
    BY <2>1, <1>type DEF WorkerStates
  <2> QED
    BY <1>5, <2>2 DEF GrantClaim
<1>6. ASSUME wkr[w].pc = "loading", wkr' = [wkr EXCEPT ![w].pc = "fetching"] PROVE Goal
  <2>1. wkr'[w] = [wkr[w] EXCEPT !.pc = "fetching"]
    BY <1>6 DEF TypeOK
  <2>2. wkr'[w].pc = "fetching" /\ wkr'[w].msg = wkr[w].msg
    BY <2>1, <1>type DEF WorkerStates
  <2> QED
    BY <1>6, <2>2 DEF Analysing
<1>7. ASSUME LoadFlows(w) PROVE Goal
  <2>1. wkr'[w] = [wkr[w] EXCEPT !.pc = "executing", !.loaded = flows[wkr[w].msg.job]]
    BY <1>7 DEF LoadFlows, TypeOK
  <2>2. wkr'[w].pc = "executing" /\ wkr'[w].msg = wkr[w].msg
        /\ wkr'[w].loaded = flows[wkr[w].msg.job]
    BY <2>1, <1>type DEF WorkerStates
  <2> QED
    BY <1>7, <2>2 DEF LoadFlows, Analysing
<1>8. ASSUME NEW v \in Workers, WorkerStep(v) \/ PayloadError(v) \/ CrashWorker(v)
      PROVE  Goal
  <2>1. CASE v # w
    <3>1. wkr'[w] = wkr[w]
      BY <1>8, <2>1, ZenonT(30) DEF WorkerStep, GrantClaim, RetryLater, FailLostAnalysis, RefuseClaim, LoadRow,
                        LoadFlows, Execute, Report, PayloadError, CrashWorker, Conclude, TypeOK
    <3> QED
      BY <1>1, <3>1
  <2>2. CASE v = w
    <3>1. CASE RetryLater(w) \/ Report(w) \/ CrashWorker(w)
      BY <1>2, <3>1 DEF RetryLater, Report, CrashWorker, TypeOK
    <3>2. CASE FailLostAnalysis(w) \/ RefuseClaim(w) \/ PayloadError(w) \/ Execute(w)
      BY <1>4, <3>2, Zenon DEF FailLostAnalysis, RefuseClaim, PayloadError, Execute
    <3>3. CASE LoadRow(w)
      BY <1>4, <1>6, <3>3 DEF LoadRow
    <3> QED
      BY <1>5, <1>7, <1>8, <2>2, <3>1, <3>2, <3>3, ZenonT(30) DEF WorkerStep
  <2> QED
    BY <2>1, <2>2
<1>9. ASSUME NEW v \in Workers, NEW n \in Messages, Receive(v, n) PROVE Goal
  <2>1. CASE v # w
    BY <1>1, <1>9, <2>1 DEF Receive, TypeOK
  <2> QED
    BY <1>3, <1>9, <2>1, Zenon
<1>10. \/ UNCHANGED wkr
       \/ \E v \in Workers : \/ \E n \in Messages : Receive(v, n)
                             \/ WorkerStep(v) \/ PayloadError(v) \/ CrashWorker(v)
  BY Zenon DEF Next, Initiate, Upload, ExpirePreparation, ExpireAnalysis, ClaimPreparation, ClaimParsing,
         ClaimEnqueuePending, ExhaustPreparation, ClaimResult, ControllerStep, GiveUp, SourceError,
         RejectCapture, Publish, RejectReference, Enqueue, CompletePreparation, ReadJob, Finish, Ack,
         Heartbeat, CrashController, RedeliverJob, RedeliverResult, ApiStep, CancelRead, CancelWrite,
         DeleteRead, DeleteWrite
<1> QED
  BY <1>1, <1>8, <1>9, <1>10, Zenon
-----------------------------------------------------------------------------
(* Deliveries, claims and flow records *)

\* What controllers, the queue and workers hold stays committed.
LEMMA DeliveriesNext ==
    ASSUME SafetyInv, TypeOK', Next
    PROVE  StagedCommitted' /\ QueuedCommitted' /\ ReceivedCommitted'
<1>inv. RowsInv /\ TypeOK /\ FlowsStored /\ StagedCommitted /\ QueuedCommitted /\ ReceivedCommitted
  BY DEF SafetyInv, RowsInv
<1>keep. \A m \in Messages : Committed(m) => Committed(m)'
  BY <1>inv, CommittedNext
<1>1. StagedCommitted'
  <2> SUFFICES ASSUME NEW c \in Controllers, ctl'[c].pc \in {"staged", "enqueued"}
               PROVE  Committed(ctl[c].hold)'
    BY DEF StagedCommitted
  <2>1. ctl'[c].hold \in Messages /\ ctl'[c].hold.job \in Jobs
    BY DEF TypeOK, ControllerStates, Preparing, Messages
  <2>2. CASE ctl[c].pc \in {"staged", "enqueued"} /\ ctl'[c].hold = ctl[c].hold
    BY <1>inv, <1>keep, <2>1, <2>2 DEF StagedCommitted, Committed, Gone
  <2>3. ASSUME NEW j \in Jobs, ClaimEnqueuePending(c, j)
        PROVE  Committed(ctl[c].hold)'
    <3> DEFINE row == [job[j] EXCEPT !.lease = "live"]
    <3>1. job[j] \in Rows /\ job[j].status = "ANALYZING"
      BY <1>inv, <2>3, PhaseTellsStatus
         DEF ClaimEnqueuePending, Claimable, RowsInv, ShapesOK, TypeOK
    <3>2. job'[j] = row /\ flows' = flows
          /\ ctl'[c] = [IdleController EXCEPT !.pc = "staged", !.hold = Hold(j, row)]
      BY <1>inv, <2>3 DEF ClaimEnqueuePending, TypeOK
    <3>3. ctl'[c].hold = Hold(j, row)
      BY <3>2 DEF IdleController
    <3>4. row.status = "ANALYZING" /\ row.attempt = job[j].attempt /\ row.token = job[j].token
      BY <3>1 DEF Rows
    <3>5. ctl'[c].hold.job = j /\ ctl'[c].hold.attempt = row.attempt /\ ctl'[c].hold.token = row.token
      BY <3>3 DEF Hold
    <3> QED
      BY <1>inv, <3>1, <3>2, <3>4, <3>5, Zenon DEF Committed, FlowsStored
  <2>4. CASE /\ Publish(c) /\ ctl[c].hold \in Messages /\ ctl'[c].hold = ctl[c].hold
             /\ Owns(job[ctl[c].hold.job], ctl[c].hold, {"PARSING"})
    <3> DEFINE h == ctl[c].hold
               row == [job[h.job] EXCEPT !.status = "ANALYZING", !.phase = "ENQUEUE_PENDING"]
    <3>1. h.job \in Jobs /\ job[h.job] \in Rows
      BY <1>inv, <2>1, <2>4 DEF TypeOK
    <3>2. job'[h.job] = row /\ flows'[h.job] = h.attempt
      BY <1>inv, <2>4, <3>1, Zenon DEF Publish, TypeOK
    <3>3. row.status = "ANALYZING" /\ row.attempt = job[h.job].attempt /\ row.token = job[h.job].token
      BY <3>1 DEF Rows
    <3> QED
      BY <2>4, <3>2, <3>3 DEF Owns, Committed
  <2> QED
    BY <1>inv, <2>2, <2>3, <2>4, StagedSteps, Zenon
<1>2. QueuedCommitted'
  <2> SUFFICES ASSUME NEW m \in Messages, Outstanding(jq, m)'
               PROVE  Committed(m)'
    BY DEF QueuedCommitted
  <2>1. Committed(m)
    BY <1>inv, QueueSteps DEF QueuedCommitted, StagedCommitted
  <2> QED
    BY <1>keep, <2>1
<1>3. ReceivedCommitted'
  <2> SUFFICES ASSUME NEW w \in Workers, wkr'[w].pc # "idle"
               PROVE  Committed(wkr[w].msg)'
    BY DEF ReceivedCommitted
  <2>1. wkr'[w].msg \in Messages
    BY DEF TypeOK, WorkerStates
  <2>2. Committed(wkr'[w].msg)
    BY <1>inv, WorkerSteps DEF QueuedCommitted, ReceivedCommitted
  <2> QED
    BY <1>keep, <2>1, <2>2 DEF Committed, Gone
<1> QED
  BY <1>1, <1>2, <1>3

\* Workers analyse what they have claimed, one worker a job.
LEMMA ClaimsNext ==
    ASSUME SafetyInv, TypeOK', Next
    PROVE  ClaimsOK' /\ SingleExecution' /\ AnalysesItsOwnFlows'
<1>inv. RowsInv /\ TypeOK /\ ReceivedCommitted /\ ClaimsOK /\ SingleExecution /\ AnalysesItsOwnFlows
  BY DEF SafetyInv, RowsInv
<1>rows. \A j \in Jobs : /\ job[j] \in Rows /\ job'[j] \in Rows /\ Shape(job[j])
                         /\ RowStep(job[j], job'[j])
  BY <1>inv, RowSteps DEF RowsStep, RowsInv, ShapesOK, TypeOK
<1>msg. \A w \in Workers : wkr'[w].pc \in Analysing =>
          wkr'[w].msg = wkr[w].msg /\ wkr[w].msg.job \in Jobs
  BY <1>inv, WorkerSteps DEF TypeOK, WorkerStates, Analysing, Messages
<1>1. ASSUME NEW w \in Workers, GrantClaim(w)
      PROVE  LET k == wkr[w].msg.job IN
             /\ k \in Jobs
             /\ job[k].status = "ANALYZING" /\ job[k].phase \in {"ENQUEUE_PENDING", "QUEUED"}
             /\ InAnalysis(job'[k])
             /\ flows[k] = wkr[w].msg.attempt /\ flows' = flows
             /\ \A v \in Workers \ {w} : wkr'[v] = wkr[v]
  <2> DEFINE k == wkr[w].msg.job
             row == [job[k] EXCEPT !.phase = "CLAIMED", !.claim = w,
                                   !.alease = "live", !.lease = "none"]
  <2>1. k \in Jobs
    BY <1>1, <1>inv DEF GrantClaim, TypeOK, WorkerStates, Messages
  <2>2. job[k].status = "ANALYZING" /\ job[k].phase \in {"ENQUEUE_PENDING", "QUEUED"}
    BY <1>1, Zenon DEF GrantClaim, Grants
  <2>3. job'[k] = row
    BY <1>1, <1>inv, <2>1, Zenon DEF GrantClaim, TypeOK
  <2>4. InAnalysis(row)
    BY <1>rows, <2>1, <2>2, Zenon DEF Rows, InAnalysis
  <2>5. Committed(wkr[w].msg)
    BY <1>1, <1>inv DEF GrantClaim, ReceivedCommitted
  <2>6. flows[k] = wkr[w].msg.attempt
    BY <2>2, <2>5 DEF Committed, Gone, Terminal
  <2>7. flows' = flows /\ \A v \in Workers \ {w} : wkr'[v] = wkr[v]
    BY <1>1, <1>inv, Zenon DEF GrantClaim, TypeOK
  <2> QED
    BY <2>1, <2>2, <2>3, <2>4, <2>6, <2>7
<1>2. ClaimsOK'
  <2> SUFFICES ASSUME NEW w \in Workers, wkr'[w].pc \in Analysing
               PROVE  LET k == wkr'[w].msg.job IN
                      /\ InAnalysis(job'[k]) \/ job'[k].status \in Terminal \cup {"DELETED"}
                      /\ flows'[k] = wkr'[w].msg.attempt \/ job'[k].status = "DELETED"
    BY DEF ClaimsOK, Gone, InAnalysis
  <2> DEFINE k == wkr[w].msg.job
  <2>1. k \in Jobs /\ wkr'[w].msg = wkr[w].msg
    BY <1>msg
  <2>2. CASE GrantClaim(w)
    BY <1>1, <2>1, <2>2
  <2>3. CASE wkr[w].pc \in Analysing
    <3>1. /\ InAnalysis(job[k]) \/ Gone(k)
          /\ flows[k] = wkr[w].msg.attempt \/ job[k].status = "DELETED"
      BY <1>inv, <2>3 DEF ClaimsOK
    <3>2. InAnalysis(job'[k]) \/ job'[k].status \in Terminal \cup {"DELETED"}
      BY <1>rows, <2>1, <3>1, RowStepKeeps DEF Gone
    <3>3. job[k].status # "INGESTING"
      BY <3>1 DEF InAnalysis, Gone, Terminal
    <3>4. flows'[k] = wkr[w].msg.attempt \/ job'[k].status = "DELETED"
      BY <1>inv, <1>rows, <2>1, <3>1, <3>3, FlowSteps, RowStepKeeps
    <3> QED
      BY <2>1, <3>2, <3>4
  <2> QED
    BY <1>inv, <2>2, <2>3, WorkerSteps
<1>3. SingleExecution'
  <2>1. ASSUME NEW v \in Workers, NEW w \in Workers, v # w,
               wkr'[v].pc \in Analysing, wkr'[w].pc \in Analysing,
               wkr'[v].msg.job = wkr'[w].msg.job, GrantClaim(v)
        PROVE  FALSE
    <3>1. wkr[w].pc \in Analysing /\ wkr[w].msg.job = wkr[v].msg.job
      BY <1>1, <1>msg, <2>1
    <3>2. InAnalysis(job[wkr[v].msg.job]) \/ Gone(wkr[v].msg.job)
      BY <1>inv, <3>1 DEF ClaimsOK
    <3> QED
      BY <1>1, <2>1, <3>2 DEF InAnalysis, Gone, Terminal
  <2> SUFFICES ASSUME NEW v \in Workers, NEW w \in Workers, v # w,
                      wkr'[v].pc \in Analysing, wkr'[w].pc \in Analysing,
                      wkr'[v].msg.job = wkr'[w].msg.job
               PROVE  FALSE
    BY DEF SingleExecution
  <2>2. wkr[v].pc \in Analysing /\ wkr[w].pc \in Analysing
    BY <1>inv, <2>1, WorkerSteps
  <2> QED
    BY <1>inv, <1>msg, <2>2 DEF SingleExecution
<1>4. AnalysesItsOwnFlows'
  <2> SUFFICES ASSUME NEW w \in Workers, wkr'[w].pc = "executing"
               PROVE  \/ wkr'[w].loaded = wkr'[w].msg.attempt
                      \/ job'[wkr'[w].msg.job].status = "DELETED"
    BY DEF AnalysesItsOwnFlows
  <2> DEFINE k == wkr[w].msg.job
  <2>1. k \in Jobs /\ wkr'[w].msg = wkr[w].msg
    BY <1>msg DEF Analysing
  <2>2. job[k].status = "DELETED" => job'[k].status = "DELETED"
    BY <1>rows, <2>1, RowStepKeeps
  <2>3. CASE wkr[w].pc = "executing" /\ wkr'[w].loaded = wkr[w].loaded
    BY <1>inv, <2>1, <2>2, <2>3 DEF AnalysesItsOwnFlows
  <2>4. CASE wkr[w].pc = "fetching" /\ wkr'[w].loaded = flows[k]
    BY <1>inv, <2>1, <2>2, <2>4 DEF ClaimsOK, Analysing
  <2> QED
    BY <1>inv, <2>3, <2>4, WorkerSteps
<1> QED
  BY <1>2, <1>3, <1>4

\* The inductive invariant holds at the start ...
LEMMA SafetyInit == Init => SafetyInv
<1> SUFFICES ASSUME Init PROVE SafetyInv
  OBVIOUS
<1>1. RowsInv
  BY RowsInit
<1>2. FlowsStored /\ StagedCommitted
  BY DEF Init, FlowsStored, Row, StagedCommitted, IdleController
<1>3. QueuedCommitted
  BY DEF Init, QueuedCommitted, Outstanding, EmptyQueue
<1>4. ReceivedCommitted /\ ClaimsOK /\ SingleExecution /\ AnalysesItsOwnFlows
  BY DEF Init, ReceivedCommitted, ClaimsOK, SingleExecution, AnalysesItsOwnFlows, IdleWorker,
         Analysing
<1> QED
  BY <1>1, <1>2, <1>3, <1>4 DEF SafetyInv

\* ... and every step keeps it.
LEMMA SafetyNext == SafetyInv /\ [Next]_vars => SafetyInv'
<1> SUFFICES ASSUME SafetyInv, [Next]_vars PROVE SafetyInv'
  OBVIOUS
<1>1. RowsInv' /\ TypeOK'
  BY RowsNext DEF SafetyInv, RowsInv
<1>2. CASE UNCHANGED vars
  BY <1>1, <1>2, Zenon DEF vars, SafetyInv, FlowsStored, StagedCommitted, QueuedCommitted,
                    ReceivedCommitted, ClaimsOK, SingleExecution, AnalysesItsOwnFlows, Committed,
                    Gone, Outstanding
<1>3. CASE Next
  BY <1>1, <1>3, FlowsStoredNext, DeliveriesNext, ClaimsNext DEF SafetyInv
<1> QED
  BY <1>2, <1>3

\* What processes hold agrees with the rows and the flow records, always.
THEOREM SafetyHolds == Spec => []SafetyInv
BY SafetyInit, SafetyNext, PTL DEF Spec

\* However often a message is redelivered and whichever leases expire, at most
\* one worker at a time analyses a job (claim_analysis).
THEOREM OneAnalysisPerJob == Spec => []SingleExecution
<1>1. SafetyInv => SingleExecution
  BY DEF SafetyInv
<1> QED
  BY <1>1, SafetyHolds, PTL

\* A delivery is never visible before its flow records are committed, and the
\* row, the records and the deliveries never disagree on the attempt
\* (publish_pcap_preparation, _enqueue_prepared, claim_pcap_preparation).
THEOREM DeliveriesFollowCommits == Spec => []DeliveriesAreCommitted
<1>1. SafetyInv => DeliveriesAreCommitted
  <2> SUFFICES ASSUME SafetyInv, NEW m \in Messages, Delivered(m) PROVE Committed(m)
    BY DEF DeliveriesAreCommitted, Committed
  <2>1. CASE Outstanding(jq, m)
    BY <2>1 DEF SafetyInv, QueuedCommitted
  <2>2. ASSUME NEW w \in Workers, wkr[w].msg = m PROVE Committed(m)
    <3>1. CASE wkr[w].pc # "idle"
      BY <2>2, <3>1 DEF SafetyInv, ReceivedCommitted
    <3>2. wkr[w].pc # "idle"
      BY <2>2, PipelineConstants DEF SafetyInv, RowsInv, TypeOK, WorkerStates
    <3> QED
      BY <3>1, <3>2
  <2> QED
    BY <2>1, <2>2 DEF Delivered
<1> QED
  BY <1>1, SafetyHolds, PTL

\* A worker analyses the flow records of the preparation it was given, unless
\* the job is deleted under it (load reads the row and the records apart).
THEOREM OwnFlowsAnalysed == Spec => []AnalysesItsOwnFlows
<1>1. SafetyInv => AnalysesItsOwnFlows
  BY DEF SafetyInv
<1> QED
  BY <1>1, SafetyHolds, PTL
-----------------------------------------------------------------------------
(* Candidates *)

\* A step keeps candidates and completion together.
LEMMA CandidatesNext ==
    ASSUME RowsInv, TypeOK', Next, CandidatesIffCompleted
    PROVE  CandidatesIffCompleted'
<1>type. TypeOK
  BY DEF RowsInv
<1>1. CASE UNCHANGED cands /\ \A j \in Jobs : job'[j].status = "COMPLETED" <=> job[j].status = "COMPLETED"
  BY <1>1 DEF CandidatesIffCompleted
<1>2. ASSUME NEW a \in Clients, DeleteWrite(a) PROVE CandidatesIffCompleted'
  <2>1. api[a].job \in Jobs
    BY <1>2, <1>type DEF DeleteWrite, TypeOK, ClientStates
  <2>2. ASSUME NEW j \in Jobs PROVE (cands[j] <=> job[j].status = "COMPLETED")'
    BY <1>2, <1>type, <2>1, <2>2 DEF DeleteWrite, TypeOK, CandidatesIffCompleted, Row
  <2> QED
    BY <2>2 DEF CandidatesIffCompleted
<1>3. ASSUME NEW c \in Controllers, Finish(c) PROVE CandidatesIffCompleted'
  <2> DEFINE k == ctl[c].res.job
             row == Finished(ctl[c].doc, ctl[c].res.kind)
  <2>1. k \in Jobs /\ ctl[c].doc \in Rows
    BY <1>3, <1>type DEF Finish, TypeOK, ControllerStates, Consuming, Results
  <2>2. \/ UNCHANGED <<job, cands>>
        \/ /\ Writable(job[k]) /\ job' = [job EXCEPT ![k] = row]
           /\ cands' = [cands EXCEPT ![k] = cands[k] \/ ctl[c].res.kind = "COMPLETED"]
    BY <1>3 DEF Finish
  <2>3. CASE UNCHANGED <<job, cands>>
    BY <1>1, <2>3
  <2>4. CASE /\ Writable(job[k]) /\ job' = [job EXCEPT ![k] = row]
             /\ cands' = [cands EXCEPT ![k] = cands[k] \/ ctl[c].res.kind = "COMPLETED"]
    <3>1. ~cands[k]
      BY <2>1, <2>4 DEF Writable, CandidatesIffCompleted, Terminal
    <3>2. row.status = "COMPLETED" <=> ctl[c].res.kind = "COMPLETED"
      BY <2>1, FinishedType
    <3>3. cands'[k] <=> job'[k].status = "COMPLETED"
      BY <1>type, <2>1, <2>4, <3>1, <3>2, Zenon DEF TypeOK
    <3>4. \A j \in Jobs \ {k} : cands'[j] = cands[j] /\ job'[j] = job[j]
      BY <1>type, <2>1, <2>4, Zenon DEF TypeOK
    <3> QED
      BY <3>3, <3>4 DEF CandidatesIffCompleted
  <2> QED
    BY <2>2, <2>3, <2>4
<1>4. CASE ~(\E c \in Controllers : Finish(c)) /\ ~(\E a \in Clients : DeleteWrite(a))
  <2>1. UNCHANGED cands
    BY <1>4, ZenonT(30)
       DEF Next, Initiate, Upload, ExpirePreparation, ExpireAnalysis, ClaimPreparation, ClaimParsing,
           ClaimEnqueuePending, ExhaustPreparation, ClaimResult, ControllerStep, GiveUp, SourceError,
           RejectCapture, Publish, RejectReference, Enqueue, CompletePreparation, ReadJob, Ack,
           Heartbeat, CrashController, Receive, WorkerStep, GrantClaim, RetryLater,
           FailLostAnalysis, RefuseClaim, LoadRow, LoadFlows, Execute, Report, PayloadError,
           CrashWorker, RedeliverJob, RedeliverResult, ApiStep, CancelRead, CancelWrite, DeleteRead
  <2>2. ASSUME NEW j \in Jobs PROVE job'[j].status = "COMPLETED" <=> job[j].status = "COMPLETED"
    <3>1. job[j] \in Rows /\ job'[j] \in Rows /\ Shape(job[j]) /\ RowStep(job[j], job'[j])
      BY RowSteps DEF RowsStep, RowsInv, ShapesOK, TypeOK
    <3>2. job[j].status = "COMPLETED" => job'[j].status \in {"COMPLETED", "DELETED"}
      BY <3>1, RowStepKeeps DEF Terminal
    <3>3. CASE job'[j].status \in {job[j].status, "CREATED", "INGESTING", "FAILED", "CANCELLED"}
      BY <3>2, <3>3
    <3>4. ASSUME NEW c \in Controllers, Publish(c)
          PROVE  job'[j].status \in {job[j].status, "ANALYZING"}
      <4> DEFINE k == ctl[c].hold.job
                 row == [job[k] EXCEPT !.status = "ANALYZING", !.phase = "ENQUEUE_PENDING"]
      <4>1. k \in Jobs
        BY <3>4, <1>type DEF Publish, TypeOK, ControllerStates, Preparing, Messages
      <4>2. job' = job \/ job' = [job EXCEPT ![k] = row]
        BY <3>4, <4>1, <1>type, Zenon DEF Publish, TypeOK
      <4>3. row.status = "ANALYZING"
        BY <4>1, <1>type DEF TypeOK, Rows
      <4> QED
        BY <4>1, <4>2, <4>3, <1>type, Zenon DEF TypeOK
    <3> QED
      BY <1>4, <1>type, <3>2, <3>3, <3>4, StatusSources
  <2> QED
    BY <1>1, <2>1, <2>2
<1> QED
  BY <1>2, <1>3, <1>4

\* A job's candidates are published exactly when it completes: late, repeated
\* and refused results publish nothing (complete_job_with_candidates).
THEOREM CandidatesOfCompletedJobs == Spec => []CandidatesIffCompleted
<1>1. Init => CandidatesIffCompleted
  BY DEF Init, CandidatesIffCompleted, Row
<1>2. RowsInv /\ CandidatesIffCompleted /\ [Next]_vars => CandidatesIffCompleted'
  <2> SUFFICES ASSUME RowsInv, CandidatesIffCompleted, [Next]_vars PROVE CandidatesIffCompleted'
    OBVIOUS
  <2>1. TypeOK'
    BY TypeNext DEF RowsInv
  <2>2. CASE UNCHANGED vars
    BY <2>2 DEF vars, CandidatesIffCompleted
  <2> QED
    BY <2>1, <2>2, CandidatesNext
<1> QED
  BY <1>1, <1>2, RowsConsistent, PTL DEF Spec

-----------------------------------------------------------------------------
(***************************************************************************)
(* No unfinished job of AnalysisPipeline is forgotten, for any jobs,       *)
(* controllers, workers and clients, and any bounds.  A job is Served when *)
(* a delivery or a final result of it is on a queue, or it is finished.    *)
(* Once served a job stays so: a delivery leaves its queue only with a     *)
(* result, and a result leaves its queue only after the row was finished.  *)
(* The inductive invariant says who may rely on a job being served.        *)
(***************************************************************************)

Served(j) == HasDelivery(j) \/ HasFinalResult(j) \/ Gone(j)

\* A preparation in progress is under a lease, live or expired, so that another
\* controller can take it over.
LeasedRow(row) ==
    /\ row.status = "INGESTING" /\ row.phase = "PARSING" => row.lease # "none"
    /\ row.status = "ANALYZING" /\ row.phase = "ENQUEUE_PENDING" => row.lease # "none"

LeasesKept == \A j \in Jobs : LeasedRow(job[j])

\* A row that only a delivery or a result can move on.
UnderWay(row) == row.status = "ANALYZING" /\ row.phase # "ENQUEUE_PENDING"

\* The rows, deduplication keys and processes that rely on a job being served.
ReliedOn ==
    /\ \A j \in Jobs : UnderWay(job[j]) => Served(j)
    /\ \A j \in dedupe : Served(j)
    /\ \A c \in Controllers : ctl[c].pc = "enqueued" => Served(ctl[c].hold.job)
    /\ \A w \in Workers : wkr[w].pc # "idle" => Served(wkr[w].msg.job)

\* A worker gives a delivery up as superseded only when the job is finished, and
\* until it has loaded its job nobody marks the job as running.
LoadersOK ==
    \A w \in Workers :
        /\ wkr[w].pc = "reporting" /\ wkr[w].out = "SUPERSEDED" => Gone(wkr[w].msg.job)
        /\ wkr[w].pc \in {"loading", "fetching"} =>
            (job[wkr[w].msg.job].status = "ANALYZING" /\ job[wkr[w].msg.job].phase = "CLAIMED")
            \/ Gone(wkr[w].msg.job)

\* A result names a job that was being analysed; a STARTED event, one whose
\* worker has loaded it.
ResultOK(r) ==
    \/ Gone(r.job)
    \/ /\ job[r.job].status = "ANALYZING"
       /\ r.kind = "STARTED" =>
            /\ job[r.job].phase \in {"CLAIMED", "RUNNING"}
            /\ \A w \in Workers : wkr[w].pc \in {"loading", "fetching"} => wkr[w].msg.job # r.job

ResultsOK ==
    /\ \A r \in Results : Outstanding(rq, r) => ResultOK(r)
    /\ \A c \in Controllers : ctl[c].pc \in Consuming => ResultOK(ctl[c].res)
    /\ \A c \in Controllers : ctl[c].pc = "acking" /\ ctl[c].res.kind \in Final => Gone(ctl[c].res.job)

DeliveryInv == SafetyInv /\ LeasesKept /\ ReliedOn /\ LoadersOK /\ ResultsOK

-----------------------------------------------------------------------------
(* What leaves and what enters the queues *)

\* The operators of a queue keep every other message outstanding, and this one
\* too unless it is settled.
LEMMA QueueKeeps ==
    ASSUME NEW M, NEW q \in Queues(M), NEW m \in M, NEW n \in M, Outstanding(q, m)
    PROVE  /\ Outstanding(Push(q, n), m)
           /\ q.waiting[n] > 0 => Outstanding(Deliver(q, n), m)
           /\ q.inflight[n] > 0 => Outstanding(Redeliver(q, n), m)
           /\ n # m => Outstanding(Settle(q, n), m)
<1>type. q.waiting[m] \in Nat /\ q.inflight[m] \in Nat /\ q.waiting[n] \in Nat /\ q.inflight[n] \in Nat
  BY DEF Queues
<1>1. Outstanding(Push(q, n), m)
  BY <1>type DEF Outstanding, Push, Queues
<1>2. q.waiting[n] > 0 => Outstanding(Deliver(q, n), m)
  BY <1>type DEF Outstanding, Deliver, Queues
<1>3. q.inflight[n] > 0 => Outstanding(Redeliver(q, n), m)
  BY <1>type DEF Outstanding, Redeliver, Queues
<1>4. n # m => Outstanding(Settle(q, n), m)
  BY <1>type DEF Outstanding, Settle, Queues
<1> QED
  BY <1>1, <1>2, <1>3, <1>4

\* What is pushed is outstanding, and nothing else appears.
LEMMA QueueAdds ==
    ASSUME NEW M, NEW q \in Queues(M), NEW m \in M, NEW n \in M
    PROVE  /\ Outstanding(Push(q, n), n)
           /\ Outstanding(Push(q, n), m) => m = n \/ Outstanding(q, m)
           /\ q.waiting[n] > 0 /\ Outstanding(Deliver(q, n), m) => Outstanding(q, m)
           /\ q.inflight[n] > 0 /\ Outstanding(Redeliver(q, n), m) => Outstanding(q, m)
           /\ Outstanding(Settle(q, n), m) => Outstanding(q, m)
<1>type. q.waiting[m] \in Nat /\ q.inflight[m] \in Nat /\ q.waiting[n] \in Nat /\ q.inflight[n] \in Nat
  BY DEF Queues
<1>1. Outstanding(Push(q, n), n)
  BY <1>type DEF Outstanding, Push, Queues
<1>2. Outstanding(Push(q, n), m) => m = n \/ Outstanding(q, m)
  BY <1>type DEF Outstanding, Push, Queues
<1>3. q.waiting[n] > 0 /\ Outstanding(Deliver(q, n), m) => Outstanding(q, m)
  BY <1>type DEF Outstanding, Deliver, Queues
<1>4. q.inflight[n] > 0 /\ Outstanding(Redeliver(q, n), m) => Outstanding(q, m)
  BY <1>type DEF Outstanding, Redeliver, Queues
<1>5. Outstanding(Settle(q, n), m) => Outstanding(q, m)
  BY <1>type DEF Outstanding, Settle, Queues
<1> QED
  BY <1>1, <1>2, <1>3, <1>4, <1>5

\* A message leaves the job queue only when a worker reports on it.
LEMMA JobQueueKeeps ==
    ASSUME TypeOK, Next, NEW m \in Messages, Outstanding(jq, m)
    PROVE  Outstanding(jq', m) \/ \E w \in Workers : Report(w) /\ wkr[w].msg = m
<1> DEFINE Goal == Outstanding(jq', m) \/ \E w \in Workers : Report(w) /\ wkr[w].msg = m
<1>type. jq \in Queues(Messages)
  BY DEF TypeOK
<1>1. CASE UNCHANGED jq
  BY <1>1
<1>2. ASSUME NEW c \in Controllers, Enqueue(c) PROVE Goal
  <2>1. ctl[c].hold \in Messages
    BY <1>2 DEF Enqueue, TypeOK, ControllerStates, Preparing
  <2>2. jq' = jq \/ jq' = Push(jq, ctl[c].hold)
    BY <1>2 DEF Enqueue
  <2> QED
    BY <1>type, <2>1, <2>2, QueueKeeps
<1>3. ASSUME NEW w \in Workers, NEW n \in Messages, Receive(w, n) PROVE Goal
  BY <1>3, <1>type, QueueKeeps DEF Receive
<1>4. ASSUME NEW n \in Messages, RedeliverJob(n) PROVE Goal
  BY <1>4, <1>type, QueueKeeps DEF RedeliverJob
<1>5. ASSUME NEW w \in Workers, Report(w) PROVE Goal
  <2>1. wkr[w].msg \in Messages
    BY <1>5 DEF Report, TypeOK, WorkerStates
  <2>2. jq' = Settle(jq, wkr[w].msg)
    BY <1>5 DEF Report
  <2> QED
    BY <1>5, <1>type, <2>1, <2>2, QueueKeeps
<1>6. \/ UNCHANGED jq
      \/ \E c \in Controllers : Enqueue(c)
      \/ \E w \in Workers, n \in Messages : Receive(w, n)
      \/ \E n \in Messages : RedeliverJob(n)
      \/ \E w \in Workers : Report(w)
  BY ZenonT(30) DEF Next, Initiate, Upload, ExpirePreparation, ExpireAnalysis, ClaimPreparation, ClaimParsing,
         ClaimEnqueuePending, ExhaustPreparation, ClaimResult, ControllerStep, GiveUp, SourceError,
         RejectCapture, Publish, RejectReference, CompletePreparation, ReadJob, Finish, Ack,
         Heartbeat, CrashController, WorkerStep, GrantClaim, RetryLater, FailLostAnalysis,
         RefuseClaim, LoadRow, LoadFlows, Execute, PayloadError, CrashWorker, RedeliverResult,
         ApiStep, CancelRead, CancelWrite, DeleteRead, DeleteWrite
<1> QED
  BY <1>1, <1>2, <1>3, <1>4, <1>5, <1>6

\* A result leaves the result queue only when a controller acknowledges it.
LEMMA ResultQueueKeeps ==
    ASSUME TypeOK, Next, NEW r \in Results
    PROVE  /\ Outstanding(rq, r) =>
                Outstanding(rq', r) \/ \E c \in Controllers : Ack(c) /\ ctl[c].res = r
           /\ Outstanding(rq', r) =>
                \/ Outstanding(rq, r)
                \/ \E w \in Workers : Report(w) /\ r = Result(wkr[w].msg.job, wkr[w].out)
                \/ \E w \in Workers : LoadFlows(w) /\ r = Started(wkr[w].msg)
<1> DEFINE Goal ==
      /\ Outstanding(rq, r) =>
           Outstanding(rq', r) \/ \E c \in Controllers : Ack(c) /\ ctl[c].res = r
      /\ Outstanding(rq', r) =>
           \/ Outstanding(rq, r)
           \/ \E w \in Workers : Report(w) /\ r = Result(wkr[w].msg.job, wkr[w].out)
           \/ \E w \in Workers : LoadFlows(w) /\ r = Started(wkr[w].msg)
<1>type. rq \in Queues(Results)
  BY DEF TypeOK
<1>1. CASE UNCHANGED rq
  BY <1>1
<1>2. ASSUME NEW w \in Workers, LoadFlows(w) PROVE Goal
  <2>1. Started(wkr[w].msg) \in Results
    BY <1>2, ResultTypes DEF LoadFlows, TypeOK, WorkerStates
  <2>2. rq' = rq \/ rq' = Push(rq, Started(wkr[w].msg))
    BY <1>2 DEF LoadFlows
  <2>3. CASE rq' = Push(rq, Started(wkr[w].msg))
    <3>1. Outstanding(rq, r) => Outstanding(rq', r)
      BY <1>type, <2>1, <2>3, QueueKeeps
    <3>2. Outstanding(rq', r) => Outstanding(rq, r) \/ r = Started(wkr[w].msg)
      BY <1>type, <2>1, <2>3, QueueAdds
    <3> QED
      BY <1>2, <3>1, <3>2
  <2> QED
    BY <1>1, <2>2, <2>3
<1>3. ASSUME NEW w \in Workers, Report(w) PROVE Goal
  <2> DEFINE n == Result(wkr[w].msg.job, wkr[w].out)
  <2>1. n \in Results
    BY <1>3, ResultTypes, Zenon DEF Report, TypeOK, WorkerStates, Messages
  <2>2. rq' = Push(rq, n)
    BY <1>3 DEF Report
  <2> HIDE DEF n
  <2>3. Outstanding(rq, r) => Outstanding(rq', r)
    BY <1>type, <2>1, <2>2, QueueKeeps
  <2>4. Outstanding(rq', r) => Outstanding(rq, r) \/ r = n
    BY <1>type, <2>1, <2>2, QueueAdds, Zenon
  <2> QED
    BY <1>3, <2>3, <2>4 DEF n
<1>4. ASSUME NEW c \in Controllers, NEW n \in Results, ClaimResult(c, n) PROVE Goal
  <2>1. rq' = Deliver(rq, n) /\ rq.waiting[n] > 0
    BY <1>4, Zenon DEF ClaimResult
  <2> QED
    BY <1>type, <2>1, QueueKeeps, QueueAdds
<1>5. ASSUME NEW n \in Results, RedeliverResult(n) PROVE Goal
  <2>1. rq' = Redeliver(rq, n) /\ rq.inflight[n] > 0
    BY <1>5 DEF RedeliverResult
  <2> QED
    BY <1>type, <2>1, QueueKeeps, QueueAdds
<1>6. ASSUME NEW c \in Controllers, Ack(c) PROVE Goal
  <2>1. ctl[c].res \in Results
    BY <1>6 DEF Ack, TypeOK, ControllerStates, Consuming
  <2>2. rq' = Settle(rq, ctl[c].res)
    BY <1>6 DEF Ack
  <2>3. Outstanding(rq, r) => Outstanding(rq', r) \/ ctl[c].res = r
    BY <1>type, <2>1, <2>2, QueueKeeps
  <2>4. Outstanding(rq', r) => Outstanding(rq, r)
    BY <1>type, <2>1, <2>2, QueueAdds
  <2> QED
    BY <1>6, <2>3, <2>4
<1>7. \/ UNCHANGED rq
      \/ \E w \in Workers : LoadFlows(w) \/ Report(w)
      \/ \E c \in Controllers, n \in Results : ClaimResult(c, n)
      \/ \E n \in Results : RedeliverResult(n)
      \/ \E c \in Controllers : Ack(c)
  BY ZenonT(30) DEF Next, Initiate, Upload, ExpirePreparation, ExpireAnalysis, ClaimPreparation, ClaimParsing,
         ClaimEnqueuePending, ExhaustPreparation, ControllerStep, GiveUp, SourceError,
         RejectCapture, Publish, RejectReference, Enqueue, CompletePreparation, ReadJob, Finish,
         Heartbeat, CrashController, Receive, WorkerStep, GrantClaim, RetryLater, FailLostAnalysis,
         RefuseClaim, LoadRow, Execute, PayloadError, CrashWorker, RedeliverJob,
         ApiStep, CancelRead, CancelWrite, DeleteRead, DeleteWrite
<1> QED
  BY <1>1, <1>2, <1>3, <1>4, <1>5, <1>6, <1>7

\* A served job stays served: a delivery leaves its queue only with a final
\* result, or because the job is finished, and a final result leaves its queue
\* only after the job was finished.
LEMMA ServedNext ==
    ASSUME DeliveryInv, TypeOK', Next, NEW j \in Jobs, Served(j)
    PROVE  Served(j)'
<1>type. TypeOK /\ RowsInv
  BY DEF DeliveryInv, SafetyInv, RowsInv
<1>gone. Gone(j) => Gone(j)'
  <2>1. job[j] \in Rows /\ job'[j] \in Rows /\ Shape(job[j]) /\ RowStep(job[j], job'[j])
    BY <1>type, RowSteps DEF RowsStep, RowsInv, ShapesOK, TypeOK
  <2> QED
    BY <2>1, RowStepKeeps DEF Gone
<1>1. CASE Gone(j)
  BY <1>1, <1>gone DEF Served
<1>2. CASE HasDelivery(j)
  <2>1. PICK m \in Messages : m.job = j /\ Outstanding(jq, m)
    BY <1>2 DEF HasDelivery
  <2>2. CASE Outstanding(jq', m)
    BY <2>1, <2>2 DEF Served, HasDelivery
  <2>3. ASSUME NEW w \in Workers, Report(w), wkr[w].msg = m
        PROVE  Served(j)'
    <3>1. wkr[w].pc = "reporting" /\ wkr[w].out \in {"SUPERSEDED"} \cup Final
      BY <2>3, <1>type DEF Report, TypeOK, WorkerStates
    <3>2. CASE wkr[w].out = "SUPERSEDED"
      <4>1. Gone(j)
        BY <2>1, <2>3, <3>1, <3>2 DEF DeliveryInv, LoadersOK
      <4> QED
        BY <1>gone, <4>1, Zenon DEF Served
    <3>3. CASE wkr[w].out \in Final
      <4>1. PICK r \in Results : r = Result(j, wkr[w].out)
        BY <3>3, ResultTypes, Zenon
      <4>2. r.job = j /\ r.kind \in Final
        BY <3>3, <4>1 DEF Result
      <4>3. rq' = Push(rq, r)
        BY <2>1, <2>3, <4>1 DEF Report
      <4>4. Outstanding(rq', r)
        BY <1>type, <4>3, QueueAdds, Zenon DEF TypeOK
      <4> QED
        BY <4>2, <4>4 DEF Served, HasFinalResult
    <3> QED
      BY <3>1, <3>2, <3>3
  <2> QED
    BY <1>type, <2>1, <2>2, <2>3, JobQueueKeeps
<1>3. CASE HasFinalResult(j)
  <2>1. PICK r \in Results : r.job = j /\ r.kind \in Final /\ Outstanding(rq, r)
    BY <1>3 DEF HasFinalResult
  <2>2. CASE Outstanding(rq', r)
    BY <2>1, <2>2 DEF Served, HasFinalResult
  <2>3. ASSUME NEW c \in Controllers, Ack(c), ctl[c].res = r
        PROVE  Served(j)'
    <3>1. Gone(j)
      BY <2>1, <2>3 DEF Ack, DeliveryInv, ResultsOK
    <3> QED
      BY <1>gone, <3>1 DEF Served
  <2> QED
    BY <1>type, <2>1, <2>2, <2>3, ResultQueueKeeps
<1> QED
  BY <1>1, <1>2, <1>3 DEF Served
-----------------------------------------------------------------------------
(* Who comes to hold a result or a delivery *)

\* A controller that consumes a result did so before or has just claimed it; one
\* that acknowledges it has just read or finished the job; one that has enqueued
\* a preparation did so before or just now.
LEMMA HolderSteps ==
    ASSUME TypeOK, Next, NEW c \in Controllers
    PROVE  /\ ctl'[c].pc \in Consuming =>
                \/ ctl[c].pc \in Consuming /\ ctl'[c].res = ctl[c].res
                \/ /\ ctl'[c].pc = "reading" /\ ctl'[c].res \in Results
                   /\ Outstanding(rq, ctl'[c].res) /\ job' = job /\ wkr' = wkr
           /\ ctl'[c].pc = "acking" => ctl[c].pc = "acking" \/ ReadJob(c) \/ Finish(c)
           /\ ctl'[c].pc = "enqueued" =>
                ctl'[c].hold = ctl[c].hold /\ (ctl[c].pc = "enqueued" \/ Enqueue(c))
<1> DEFINE Goal ==
      /\ ctl'[c].pc \in Consuming =>
           \/ ctl[c].pc \in Consuming /\ ctl'[c].res = ctl[c].res
           \/ /\ ctl'[c].pc = "reading" /\ ctl'[c].res \in Results
              /\ Outstanding(rq, ctl'[c].res) /\ job' = job /\ wkr' = wkr
      /\ ctl'[c].pc = "acking" => ctl[c].pc = "acking" \/ ReadJob(c) \/ Finish(c)
      /\ ctl'[c].pc = "enqueued" =>
           ctl'[c].hold = ctl[c].hold /\ (ctl[c].pc = "enqueued" \/ Enqueue(c))
<1> SUFFICES Goal
  OBVIOUS
<1>type. ctl[c] \in ControllerStates
  BY DEF TypeOK
<1>idle. /\ IdleController.pc = "idle"
         /\ \A p, x : [IdleController EXCEPT !.pc = p, !.hold = x].pc = p
         /\ \A p, x : /\ [IdleController EXCEPT !.pc = p, !.res = x].pc = p
                      /\ [IdleController EXCEPT !.pc = p, !.res = x].res = x
  BY DEF IdleController
<1>1. CASE ctl'[c] = ctl[c]
  BY <1>1
<1>2. CASE ctl'[c].pc \in {"idle", "parsing", "staged"}
  BY <1>2 DEF Consuming
<1>3. ASSUME NEW j \in Jobs, ClaimPreparation(c, j) PROVE Goal
  <2>1. CASE ClaimParsing(c, j)
    BY <2>1, <1>2, <1>idle DEF ClaimParsing, TypeOK
  <2>2. CASE ClaimEnqueuePending(c, j)
    BY <2>2, <1>2, <1>idle DEF ClaimEnqueuePending, TypeOK
  <2>3. CASE ExhaustPreparation(c, j)
    BY <2>3, <1>1 DEF ExhaustPreparation
  <2> QED
    BY <1>3, <2>1, <2>2, <2>3, Zenon DEF ClaimPreparation
<1>4. ASSUME NEW r \in Results, ClaimResult(c, r) PROVE Goal
  <2>1. ctl'[c] = [IdleController EXCEPT !.pc = "reading", !.res = r] /\ job' = job /\ wkr' = wkr
    BY <1>4 DEF ClaimResult, TypeOK
  <2>2. ctl'[c].pc = "reading" /\ ctl'[c].res = r
    BY <2>1, <1>idle
  <2>3. Outstanding(rq, r)
    BY <1>4 DEF ClaimResult, Outstanding
  <2> QED
    BY <2>1, <2>2, <2>3
<1>5. CASE GiveUp(c) \/ SourceError(c) \/ RejectCapture(c) \/ RejectReference(c)
           \/ CompletePreparation(c) \/ Ack(c) \/ CrashController(c)
  <2>1. ctl'[c] = IdleController
    BY <1>5 DEF GiveUp, SourceError, RejectCapture, RejectReference, CompletePreparation, Ack,
                CrashController, TypeOK
  <2> QED
    BY <2>1, <1>2, <1>idle
<1>6. CASE Publish(c)
  <2>1. ctl'[c] = IdleController \/ ctl'[c] = [ctl[c] EXCEPT !.pc = "staged"]
    BY <1>6 DEF Publish, TypeOK
  <2>2. [ctl[c] EXCEPT !.pc = "staged"].pc = "staged"
    BY <1>type DEF ControllerStates
  <2> QED
    BY <2>1, <2>2, <1>2, <1>idle, Zenon
<1>7. CASE Enqueue(c)
  <2>1. ctl'[c] = [ctl[c] EXCEPT !.pc = "enqueued"]
    BY <1>7 DEF Enqueue, TypeOK
  <2>2. ctl'[c].pc = "enqueued" /\ ctl'[c].hold = ctl[c].hold
    BY <2>1, <1>type, Zenon DEF ControllerStates
  <2> QED
    BY <1>7, <2>2 DEF Consuming
<1>8. CASE ReadJob(c)
  <2>1. \/ ctl'[c] = [ctl[c] EXCEPT !.pc = "finishing", !.doc = job[ctl[c].res.job]]
        \/ ctl'[c] = [ctl[c] EXCEPT !.pc = "acking"]
    BY <1>8 DEF ReadJob, TypeOK
  <2>2. ctl'[c].res = ctl[c].res /\ ctl'[c].pc \in {"finishing", "acking"}
    BY <2>1, <1>type, Zenon DEF ControllerStates
  <2> QED
    BY <1>8, <2>2 DEF ReadJob, Consuming
<1>9. CASE Finish(c)
  <2>1. \/ ctl'[c] = IdleController
        \/ ctl'[c] = [IdleController EXCEPT !.pc = "acking", !.res = ctl[c].res]
    BY <1>9 DEF Finish, TypeOK
  <2> DEFINE ack == [IdleController EXCEPT !.pc = "acking", !.res = ctl[c].res]
  <2>a. ack.pc = "acking" /\ ack.res = ctl[c].res
    BY DEF IdleController
  <2> HIDE DEF ack
  <2>b. ctl'[c] = IdleController \/ ctl'[c] = ack
    BY <2>1 DEF ack
  <2>2. ctl'[c].pc = "idle" \/ (ctl'[c].pc = "acking" /\ ctl'[c].res = ctl[c].res)
    BY <2>a, <2>b, <1>idle
  <2> QED
    BY <1>9, <2>2 DEF Finish, Consuming
<1>10. CASE Heartbeat(c)
  <2>1. ctl'[c] = [ctl[c] EXCEPT !.lost = TRUE]
    BY <1>10 DEF Heartbeat, TypeOK
  <2>2. ctl'[c].pc = ctl[c].pc /\ ctl'[c].res = ctl[c].res /\ ctl'[c].hold = ctl[c].hold
    BY <2>1, <1>type DEF ControllerStates
  <2> QED
    BY <2>2
<1>11. ASSUME NEW d \in Controllers, d # c,
              \/ \E j \in Jobs : ClaimPreparation(d, j)
              \/ \E r \in Results : ClaimResult(d, r)
              \/ ControllerStep(d) \/ Heartbeat(d) \/ CrashController(d)
       PROVE  Goal
  <2>1. ctl'[c] = ctl[c]
    BY <1>11, Zenon DEF ClaimPreparation, ClaimParsing, ClaimEnqueuePending, ExhaustPreparation, ClaimResult,
           ControllerStep, GiveUp, SourceError, RejectCapture, Publish, RejectReference, Enqueue,
           CompletePreparation, ReadJob, Finish, Ack, Heartbeat, CrashController, TypeOK
  <2> QED
    BY <2>1, <1>1
<1>12. \/ ctl'[c] = ctl[c]
       \/ \E d \in Controllers :
           \/ \E j \in Jobs : ClaimPreparation(d, j)
           \/ \E r \in Results : ClaimResult(d, r)
           \/ ControllerStep(d) \/ Heartbeat(d) \/ CrashController(d)
  BY ControllerChanges
<1> HIDE DEF Goal
<1> QED
  BY <1>1, <1>3, <1>4, <1>5, <1>6, <1>7, <1>8, <1>9, <1>10, <1>11, <1>12, Zenon DEF ControllerStep

\* A worker that loads its job did so before or has just claimed it; one that
\* gives its delivery up as superseded did so before, or has just been refused
\* the claim or has read a row that supersedes it.
LEMMA LoaderSteps ==
    ASSUME TypeOK, Next, NEW w \in Workers
    PROVE  /\ wkr'[w].pc \in {"loading", "fetching"} =>
                wkr[w].pc \in {"loading", "fetching"} \/ GrantClaim(w)
           /\ wkr'[w].pc = "reporting" /\ wkr'[w].out = "SUPERSEDED" =>
                \/ wkr[w].pc = "reporting" /\ wkr[w].out = "SUPERSEDED"
                \/ FailLostAnalysis(w) \/ RefuseClaim(w)
                \/ LoadRow(w) /\ Superseded(job[wkr[w].msg.job], wkr[w].msg)
<1> DEFINE Goal ==
      /\ wkr'[w].pc \in {"loading", "fetching"} =>
           wkr[w].pc \in {"loading", "fetching"} \/ GrantClaim(w)
      /\ wkr'[w].pc = "reporting" /\ wkr'[w].out = "SUPERSEDED" =>
           \/ wkr[w].pc = "reporting" /\ wkr[w].out = "SUPERSEDED"
           \/ FailLostAnalysis(w) \/ RefuseClaim(w)
           \/ LoadRow(w) /\ Superseded(job[wkr[w].msg.job], wkr[w].msg)
<1> SUFFICES Goal
  OBVIOUS
<1>type. wkr[w] \in WorkerStates
  BY DEF TypeOK
<1>1. CASE wkr'[w] = wkr[w]
  BY <1>1
<1>2. CASE wkr'[w].pc \in {"idle", "claiming", "executing"}
  BY <1>2
<1>3. ASSUME NEW k, Conclude(w, k)
      PROVE  wkr'[w].pc = "reporting" /\ wkr'[w].out = k
  <2>1. wkr'[w] = [wkr[w] EXCEPT !.pc = "reporting", !.out = k]
    BY <1>3 DEF Conclude, TypeOK
  <2> QED
    BY <2>1, <1>type DEF WorkerStates
<1>4. CASE RetryLater(w) \/ Report(w) \/ CrashWorker(w)
  <2>1. wkr'[w] = IdleWorker
    BY <1>4 DEF RetryLater, Report, CrashWorker, TypeOK
  <2>2. IdleWorker.pc = "idle"
    BY Zenon DEF IdleWorker
  <2> QED
    BY <2>1, <2>2, <1>2, Zenon
<1>5. ASSUME NEW m \in Messages, Receive(w, m) PROVE Goal
  <2>1. wkr'[w] = [IdleWorker EXCEPT !.pc = "claiming", !.msg = m]
    BY <1>5 DEF Receive, TypeOK
  <2>2. wkr'[w].pc = "claiming"
    BY <2>1, Zenon DEF IdleWorker
  <2> QED
    BY <2>2
<1>6. CASE GrantClaim(w)
  <2>1. wkr'[w] = [wkr[w] EXCEPT !.pc = "loading"]
    BY <1>6 DEF GrantClaim, TypeOK
  <2>2. wkr'[w].pc = "loading"
    BY <2>1, <1>type DEF WorkerStates
  <2> QED
    BY <1>6, <2>2
<1>7. CASE FailLostAnalysis(w) \/ RefuseClaim(w)
  <2>1. Conclude(w, "SUPERSEDED")
    BY <1>7, Zenon DEF FailLostAnalysis, RefuseClaim
  <2> QED
    BY <1>3, <1>7, <2>1
<1>8. CASE PayloadError(w) \/ Execute(w)
  <2>1. \E k \in Final : Conclude(w, k)
    BY <1>8 DEF PayloadError, Execute, Final
  <2> QED
    BY <1>3, <2>1 DEF Final
<1>9. CASE LoadRow(w)
  <2>1. \/ Conclude(w, "ERROR")
        \/ Superseded(job[wkr[w].msg.job], wkr[w].msg) /\ Conclude(w, "SUPERSEDED")
        \/ wkr' = [wkr EXCEPT ![w].pc = "fetching"]
    BY <1>9 DEF LoadRow
  <2>2. CASE wkr' = [wkr EXCEPT ![w].pc = "fetching"]
    <3>1. wkr'[w] = [wkr[w] EXCEPT !.pc = "fetching"]
      BY <2>2 DEF TypeOK
    <3>2. wkr'[w].pc = "fetching" /\ wkr[w].pc = "loading"
      BY <3>1, <1>9, <1>type DEF WorkerStates, LoadRow
    <3> QED
      BY <3>2
  <2>3. CASE Conclude(w, "ERROR")
    BY <1>3, <2>3
  <2>4. CASE Superseded(job[wkr[w].msg.job], wkr[w].msg) /\ Conclude(w, "SUPERSEDED")
    BY <1>3, <1>9, <2>4
  <2> QED
    BY <2>1, <2>2, <2>3, <2>4
<1>10. CASE LoadFlows(w)
  <2>1. wkr'[w] = [wkr[w] EXCEPT !.pc = "executing", !.loaded = flows[wkr[w].msg.job]]
    BY <1>10 DEF LoadFlows, TypeOK
  <2>2. wkr'[w].pc = "executing"
    BY <2>1, <1>type, Zenon DEF WorkerStates
  <2> QED
    BY <2>2
<1>11. ASSUME NEW v \in Workers, v # w,
              \/ \E m \in Messages : Receive(v, m)
              \/ WorkerStep(v) \/ PayloadError(v) \/ CrashWorker(v)
       PROVE  Goal
  <2>1. wkr'[w] = wkr[w]
    BY <1>11, ZenonT(30) DEF Receive, WorkerStep, GrantClaim, RetryLater, FailLostAnalysis, RefuseClaim, LoadRow,
                 LoadFlows, Execute, Report, PayloadError, CrashWorker, Conclude, TypeOK
  <2> QED
    BY <2>1, <1>1
<1>12. \/ wkr'[w] = wkr[w]
       \/ \E v \in Workers : \/ \E n \in Messages : Receive(v, n)
                             \/ WorkerStep(v) \/ PayloadError(v) \/ CrashWorker(v)
  BY Zenon DEF Next, Initiate, Upload, ExpirePreparation, ExpireAnalysis, ClaimPreparation, ClaimParsing,
         ClaimEnqueuePending, ExhaustPreparation, ClaimResult, ControllerStep, GiveUp, SourceError,
         RejectCapture, Publish, RejectReference, Enqueue, CompletePreparation, ReadJob, Finish, Ack,
         Heartbeat, CrashController, RedeliverJob, RedeliverResult, ApiStep, CancelRead, CancelWrite,
         DeleteRead, DeleteWrite
<1> HIDE DEF Goal
<1> QED
  BY <1>1, <1>4, <1>5, <1>6, <1>7, <1>8, <1>9, <1>10, <1>11, <1>12, Zenon DEF WorkerStep
-----------------------------------------------------------------------------
(* The rows *)

Running(row) == row.status = "ANALYZING" /\ row.phase = "RUNNING"

\* A controller has enqueued the job's delivery, or a worker has received it.
HandedOver(j) ==
    \/ \E c \in Controllers : ctl[c].pc = "enqueued" /\ ctl[c].hold.job = j
    \/ \E w \in Workers : wkr[w].pc = "claiming" /\ wkr[w].msg.job = j

\* A controller is handling a STARTED event of the job.
StartSeen(j) ==
    \E c \in Controllers : ctl[c].pc = "reading" /\ ctl[c].res.kind = "STARTED" /\ ctl[c].res.job = j

\* A row under preparation keeps a lease.  A row gets under way when its
\* delivery was handed over, and is running when its STARTED event was seen.
RowGoal(j) ==
    /\ LeasedRow(job[j]) => LeasedRow(job'[j])
    /\ UnderWay(job'[j]) => UnderWay(job[j]) \/ HandedOver(j)
    /\ Running(job'[j]) => Running(job[j]) \/ StartSeen(j)

\* A step that writes one row.
LEMMA OneRowGoal ==
    ASSUME TypeOK, NEW k \in Jobs, NEW row, job' = [job EXCEPT ![k] = row],
           LeasedRow(job[k]) => LeasedRow(row),
           UnderWay(row) => UnderWay(job[k]) \/ HandedOver(k),
           Running(row) => Running(job[k]) \/ StartSeen(k)
    PROVE  \A j \in Jobs : RowGoal(j)
<1>1. job'[k] = row /\ \A j \in Jobs \ {k} : job'[j] = job[j]
  BY DEF TypeOK
<1>2. RowGoal(k)
  BY <1>1 DEF RowGoal
<1>3. \A j \in Jobs \ {k} : RowGoal(j)
  BY <1>1 DEF RowGoal
<1> QED
  BY <1>2, <1>3

\* A row that is in neither of these states needs nothing.
Quiet(row) == LeasedRow(row) /\ ~UnderWay(row)

LEMMA QuietRowGoal ==
    ASSUME TypeOK, NEW k \in Jobs, NEW row, job' = [job EXCEPT ![k] = row], Quiet(row)
    PROVE  \A j \in Jobs : RowGoal(j)
<1>1. ~Running(row)
  BY DEF Quiet, UnderWay, Running
<1> QED
  BY <1>1, OneRowGoal, Zenon DEF Quiet

LEMMA QuietRows ==
    ASSUME NEW row, row.status \notin {"INGESTING", "ANALYZING"}
    PROVE  Quiet(row)
BY DEF Quiet, LeasedRow, UnderWay

\* What every step does to the leases and the phases.
LEMMA RowGoals ==
    ASSUME RowsInv, TypeOK', Next
    PROVE  \A j \in Jobs : RowGoal(j)
<1> DEFINE Goal == \A j \in Jobs : RowGoal(j)
<1> SUFFICES Goal
  OBVIOUS
<1>type. TypeOK
  BY DEF RowsInv
<1>rows. \A j \in Jobs : job[j] \in Rows /\ Shape(job[j])
  BY Zenon DEF TypeOK, RowsInv, ShapesOK
<1>held. \A c \in Controllers :
           /\ ctl[c].pc \in Preparing => ctl[c].hold.job \in Jobs
           /\ ctl[c].pc \in Consuming => ctl[c].res.job \in Jobs
  BY <1>type DEF TypeOK, ControllerStates, Messages, Results
<1>busy. \A w \in Workers : wkr[w].pc # "idle" => wkr[w].msg.job \in Jobs
  BY <1>type DEF TypeOK, WorkerStates, Messages
<1>0. CASE UNCHANGED job
  BY <1>0 DEF RowGoal
<1>fresh. /\ Quiet(Row("CREATED", "UPLOAD_PENDING")) /\ Quiet(Row("INGESTING", "UPLOAD_STORED"))
         /\ Quiet(Row("FAILED", "FAILED")) /\ Quiet(Row("DELETED", "NONE"))
  BY DEF Quiet, LeasedRow, UnderWay, Row
<1>1. ASSUME NEW j \in Jobs, Initiate(j) PROVE Goal
  BY <1>1, <1>type, <1>fresh, QuietRowGoal, Zenon DEF Initiate
<1>2. ASSUME NEW j \in Jobs, Upload(j) PROVE Goal
  BY <1>2, <1>type, <1>fresh, QuietRowGoal, Zenon DEF Upload
<1>3. ASSUME NEW j \in Jobs, ExpirePreparation(j) PROVE Goal
  <2> DEFINE row == [job[j] EXCEPT !.lease = "expired"]
  <2>1. job' = [job EXCEPT ![j] = row]
    BY <1>3, <1>type DEF ExpirePreparation, TypeOK
  <2>2. row.status = job[j].status /\ row.phase = job[j].phase /\ row.lease = "expired"
    BY <1>rows DEF Rows
  <2> HIDE DEF row
  <2>3. LeasedRow(row) /\ (UnderWay(row) => UnderWay(job[j])) /\ (Running(row) => Running(job[j]))
    BY <2>2 DEF LeasedRow, UnderWay, Running
  <2> QED
    BY <1>type, <2>1, <2>3, OneRowGoal, Zenon
<1>4. ASSUME NEW j \in Jobs, ExpireAnalysis(j) PROVE Goal
  <2> DEFINE row == [job[j] EXCEPT !.alease = "expired"]
  <2>1. job' = [job EXCEPT ![j] = row]
    BY <1>4, <1>type DEF ExpireAnalysis, TypeOK
  <2>2. row.status = job[j].status /\ row.phase = job[j].phase /\ row.lease = job[j].lease
    BY <1>rows DEF Rows
  <2> HIDE DEF row
  <2>3. /\ LeasedRow(job[j]) => LeasedRow(row)
        /\ UnderWay(row) => UnderWay(job[j])
        /\ Running(row) => Running(job[j])
    BY <2>2 DEF LeasedRow, UnderWay, Running
  <2> QED
    BY <1>type, <2>1, <2>3, OneRowGoal, Zenon
<1>5. ASSUME NEW c \in Controllers, NEW j \in Jobs, ClaimParsing(c, j) PROVE Goal
  <2> DEFINE row == [job[j] EXCEPT !.phase = "PARSING", !.attempt = @ + 1,
                                   !.token = minted + 1, !.lease = "live"]
  <2>1. job' = [job EXCEPT ![j] = row]
    BY <1>5 DEF ClaimParsing
  <2>2. job[j].status = "INGESTING"
    BY <1>5, <1>rows, PhaseTellsStatus DEF ClaimParsing, Claimable
  <2>3. row.status = job[j].status /\ row.phase = "PARSING" /\ row.lease = "live"
    BY <1>rows DEF Rows
  <2> HIDE DEF row
  <2>4. LeasedRow(row) /\ ~UnderWay(row) /\ ~Running(row)
    BY <2>2, <2>3 DEF LeasedRow, UnderWay, Running
  <2> QED
    BY <1>type, <2>1, <2>4, OneRowGoal, Zenon
<1>6. ASSUME NEW c \in Controllers, NEW j \in Jobs, ClaimEnqueuePending(c, j) PROVE Goal
  <2> DEFINE row == [job[j] EXCEPT !.lease = "live"]
  <2>1. job' = [job EXCEPT ![j] = row]
    BY <1>6 DEF ClaimEnqueuePending
  <2>2. row.status = job[j].status /\ row.phase = job[j].phase /\ row.lease = "live"
    BY <1>rows DEF Rows
  <2> HIDE DEF row
  <2>3. LeasedRow(row) /\ (UnderWay(row) => UnderWay(job[j])) /\ (Running(row) => Running(job[j]))
    BY <2>2 DEF LeasedRow, UnderWay, Running
  <2> QED
    BY <1>type, <2>1, <2>3, OneRowGoal, Zenon
<1>7. ASSUME NEW c \in Controllers, NEW j \in Jobs, ExhaustPreparation(c, j) PROVE Goal
  <2> DEFINE row == [Row("FAILED", "FAILED") EXCEPT !.attempt = job[j].attempt]
  <2>1. job' = [job EXCEPT ![j] = row] /\ row.status = "FAILED"
    BY <1>7 DEF ExhaustPreparation, Row
  <2> HIDE DEF row
  <2>2. Quiet(row)
    BY <2>1, QuietRows
  <2> QED
    BY <1>type, <2>1, <2>2, QuietRowGoal, Zenon
<1>8. ASSUME NEW c \in Controllers, RejectCapture(c) \/ RejectReference(c) PROVE Goal
  <2>1. \/ job' = job
        \/ job' = [job EXCEPT ![ctl[c].hold.job] = Row("FAILED", "FAILED")]
    BY <1>8 DEF RejectCapture, RejectReference
  <2>2. ctl[c].hold.job \in Jobs
    BY <1>8, <1>held DEF RejectCapture, RejectReference, Preparing
  <2> QED
    BY <1>0, <1>type, <1>fresh, <2>1, <2>2, QuietRowGoal, Zenon
<1>9. ASSUME NEW c \in Controllers, Publish(c) PROVE Goal
  <2> DEFINE k == ctl[c].hold.job
             row == [job[k] EXCEPT !.status = "ANALYZING", !.phase = "ENQUEUE_PENDING"]
  <2>1. k \in Jobs
    BY <1>9, <1>held DEF Publish, Preparing
  <2>2. job' = job \/ (job[k].lease = "live" /\ job' = [job EXCEPT ![k] = row])
    BY <1>9, <1>type, <2>1, Zenon DEF Publish, Owns, TypeOK
  <2>3. row.status = "ANALYZING" /\ row.phase = "ENQUEUE_PENDING" /\ row.lease = job[k].lease
    BY <1>rows, <2>1 DEF Rows
  <2> HIDE DEF row, k
  <2>4. CASE job[k].lease = "live" /\ job' = [job EXCEPT ![k] = row]
    <3>1. LeasedRow(row) /\ ~UnderWay(row) /\ ~Running(row)
      BY <2>3, <2>4 DEF LeasedRow, UnderWay, Running
    <3> QED
      BY <1>type, <2>1, <2>4, <3>1, OneRowGoal, Zenon
  <2> QED
    BY <1>0, <2>2, <2>4
<1>10. ASSUME NEW c \in Controllers, CompletePreparation(c) PROVE Goal
  <2> DEFINE k == ctl[c].hold.job
             row == [job[k] EXCEPT !.phase = "QUEUED", !.lease = "none"]
  <2>1. k \in Jobs /\ ctl[c].pc = "enqueued"
    BY <1>10, <1>held DEF CompletePreparation, Preparing
  <2>2. job' = job \/ (job[k].status = "ANALYZING" /\ job' = [job EXCEPT ![k] = row])
    BY <1>10, <1>type, <1>rows, <2>1, PhaseTellsStatus, Zenon DEF CompletePreparation, Owns, TypeOK
  <2>3. row.status = job[k].status /\ row.phase = "QUEUED"
    BY <1>rows, <2>1 DEF Rows
  <2>4. HandedOver(k)
    BY <2>1 DEF HandedOver
  <2> HIDE DEF row, k
  <2>5. CASE job[k].status = "ANALYZING" /\ job' = [job EXCEPT ![k] = row]
    <3>1. LeasedRow(row) /\ ~Running(row)
      BY <2>3 DEF LeasedRow, Running
    <3> QED
      BY <1>type, <2>1, <2>4, <2>5, <3>1, OneRowGoal, Zenon
  <2> QED
    BY <1>0, <2>2, <2>5
<1>11. ASSUME NEW w \in Workers, GrantClaim(w) PROVE Goal
  <2> DEFINE k == wkr[w].msg.job
             row == [job[k] EXCEPT !.phase = "CLAIMED", !.claim = w,
                                   !.alease = "live", !.lease = "none"]
  <2>1. k \in Jobs /\ wkr[w].pc = "claiming"
    BY <1>11, <1>busy DEF GrantClaim
  <2>2. job' = [job EXCEPT ![k] = row]
    BY <1>11, <1>type, <2>1, Zenon DEF GrantClaim, TypeOK
  <2>3. row.status = job[k].status /\ row.phase = "CLAIMED"
    BY <1>rows, <2>1 DEF Rows
  <2>4. HandedOver(k)
    BY <2>1 DEF HandedOver
  <2> HIDE DEF row, k
  <2>5. LeasedRow(row) /\ ~Running(row)
    BY <2>3 DEF LeasedRow, Running
  <2> QED
    BY <1>type, <2>1, <2>2, <2>4, <2>5, OneRowGoal, Zenon
<1>12. ASSUME NEW w \in Workers, FailLostAnalysis(w) PROVE Goal
  <2> DEFINE k == wkr[w].msg.job
             row == [job[k] EXCEPT !.status = "FAILED", !.phase = "FAILED",
                                   !.claim = None, !.alease = "none"]
  <2>1. k \in Jobs
    BY <1>12, <1>busy DEF FailLostAnalysis
  <2>2. job' = [job EXCEPT ![k] = row]
    BY <1>12, <1>type, <2>1, Zenon DEF FailLostAnalysis, TypeOK
  <2>3. row.status = "FAILED"
    BY <1>rows, <2>1 DEF Rows
  <2> HIDE DEF row
  <2>4. Quiet(row)
    BY <2>3, QuietRows
  <2> QED
    BY <1>type, <2>1, <2>2, <2>4, QuietRowGoal, Zenon
<1>13. ASSUME NEW c \in Controllers, ReadJob(c) PROVE Goal
  <2> DEFINE k == ctl[c].res.job
             row == [job[k] EXCEPT !.phase = "RUNNING", !.token = 0, !.lease = "none"]
  <2>1. k \in Jobs
    BY <1>13, <1>held DEF ReadJob, Consuming
  <2>2. job' = job \/ (/\ AcceptsStart(job[k], ctl[c].res) /\ ctl[c].res.kind = "STARTED"
                       /\ job' = [job EXCEPT ![k] = row])
    BY <1>13, <1>type, <2>1, Zenon DEF ReadJob, TypeOK
  <2>3. row.status = job[k].status /\ row.phase = "RUNNING"
    BY <1>rows, <2>1 DEF Rows
  <2>5. ctl[c].res.kind = "STARTED" => StartSeen(k)
    BY <1>13 DEF ReadJob, StartSeen
  <2> HIDE DEF row, k
  <2>4. CASE /\ AcceptsStart(job[k], ctl[c].res) /\ ctl[c].res.kind = "STARTED"
             /\ job' = [job EXCEPT ![k] = row]
    <3>1. LeasedRow(row) /\ UnderWay(job[k]) /\ StartSeen(k)
      BY <2>3, <2>4, <2>5 DEF LeasedRow, UnderWay, AcceptsStart
    <3> QED
      BY <1>type, <2>1, <2>4, <3>1, OneRowGoal, Zenon
  <2> QED
    BY <1>0, <2>2, <2>4
<1>14. ASSUME NEW c \in Controllers, Finish(c) PROVE Goal
  <2> DEFINE k == ctl[c].res.job
             row == Finished(ctl[c].doc, ctl[c].res.kind)
  <2>1. k \in Jobs /\ ctl[c].doc \in Rows
    BY <1>14, <1>held, <1>type DEF Finish, Consuming, TypeOK, ControllerStates
  <2>2. job' = job \/ job' = [job EXCEPT ![k] = row]
    BY <1>14 DEF Finish
  <2>3. row.status \in {"COMPLETED", "FAILED"}
    BY <2>1 DEF Finished, Rows
  <2> HIDE DEF row, k
  <2>4. Quiet(row)
    BY <2>3, QuietRows
  <2> QED
    BY <1>0, <1>type, <2>1, <2>2, <2>4, QuietRowGoal
<1>15. ASSUME NEW a \in Clients, ApiStep(a) PROVE Goal
  <2>1. CASE CancelWrite(a)
    <3>1. api[a].job \in Jobs /\ api[a].doc.status = "CANCELLED"
      BY <2>1, <1>type DEF CancelWrite, TypeOK, ClientStates
    <3>3. Quiet(api[a].doc)
      BY <3>1, QuietRows
    <3>2. job' = job \/ job' = [job EXCEPT ![api[a].job] = api[a].doc]
      BY <2>1 DEF CancelWrite
    <3> QED
      BY <1>0, <1>type, <3>1, <3>2, <3>3, QuietRowGoal
  <2>2. CASE DeleteWrite(a)
    <3>1. api[a].job \in Jobs
      BY <2>2, <1>type DEF DeleteWrite, TypeOK, ClientStates
    <3>2. job' = [job EXCEPT ![api[a].job] = Row("DELETED", "NONE")]
      BY <2>2 DEF DeleteWrite
    <3> QED
      BY <1>type, <1>fresh, <3>1, <3>2, QuietRowGoal, Zenon
  <2> QED
    BY <1>0, <1>15, <2>1, <2>2, Zenon DEF ApiStep, CancelRead, DeleteRead
<1>16. \/ UNCHANGED job
       \/ \E j \in Jobs : Initiate(j) \/ Upload(j) \/ ExpirePreparation(j) \/ ExpireAnalysis(j)
       \/ \E c \in Controllers, j \in Jobs :
            ClaimParsing(c, j) \/ ClaimEnqueuePending(c, j) \/ ExhaustPreparation(c, j)
       \/ \E c \in Controllers : RejectCapture(c) \/ RejectReference(c) \/ Publish(c)
                                 \/ CompletePreparation(c) \/ ReadJob(c) \/ Finish(c)
       \/ \E w \in Workers : GrantClaim(w) \/ FailLostAnalysis(w)
       \/ \E a \in Clients : ApiStep(a)
  BY Zenon DEF Next, ClaimPreparation, ClaimResult, ControllerStep, GiveUp, SourceError, Enqueue, Ack,
         Heartbeat, CrashController, Receive, WorkerStep, RetryLater, RefuseClaim, LoadRow,
         LoadFlows, Execute, Report, PayloadError, CrashWorker, RedeliverJob, RedeliverResult
<1> HIDE DEF Goal
<1> QED
  BY <1>0, <1>1, <1>2, <1>3, <1>4, <1>5, <1>6, <1>7, <1>8, <1>9, <1>10, <1>11, <1>12, <1>13, <1>14,
     <1>15, <1>16

-----------------------------------------------------------------------------
(* The invariant is inductive *)

\* What the steps below start from.
LEMMA DeliveryFacts ==
    ASSUME DeliveryInv, TypeOK', Next
    PROVE  /\ TypeOK /\ RowsInv /\ SafetyInv
           /\ \A j \in Jobs : /\ job[j] \in Rows /\ job'[j] \in Rows /\ Shape(job[j])
                              /\ RowStep(job[j], job'[j])
           /\ \A j \in Jobs : Gone(j) => Gone(j)'
           /\ \A j \in Jobs : Served(j) => Served(j)'
<1>1. TypeOK /\ RowsInv /\ SafetyInv
  BY DEF DeliveryInv, SafetyInv, RowsInv
<1>2. \A j \in Jobs : /\ job[j] \in Rows /\ job'[j] \in Rows /\ Shape(job[j])
                      /\ RowStep(job[j], job'[j])
  BY <1>1, RowSteps DEF RowsStep, RowsInv, ShapesOK, TypeOK
<1>3. \A j \in Jobs : Gone(j) => Gone(j)'
  BY <1>2, RowStepKeeps, Zenon DEF Gone
<1>4. \A j \in Jobs : Served(j) => Served(j)'
  BY ServedNext
<1> QED
  BY <1>1, <1>2, <1>3, <1>4

\* A controller that enqueues a preparation serves its job: the delivery is
\* pushed, or the deduplication key says that one was.
LEMMA EnqueueServes ==
    ASSUME DeliveryInv, TypeOK', Next, NEW c \in Controllers, Enqueue(c), NEW j \in Jobs, ctl[c].hold.job = j
    PROVE  Served(j)'
<1>1. PICK m \in Messages : m = ctl[c].hold
  BY Zenon DEF Enqueue, DeliveryInv, SafetyInv, RowsInv, TypeOK, ControllerStates, Preparing
<1>2. CASE j \in dedupe
  BY <1>2, DeliveryFacts, Zenon DEF DeliveryInv, ReliedOn
<1>3. CASE j \notin dedupe
  <2>1. jq' = Push(jq, m)
    BY <1>1, <1>3 DEF Enqueue
  <2>2. Outstanding(jq', m)
    BY <2>1, QueueAdds, Zenon DEF DeliveryInv, SafetyInv, RowsInv, TypeOK
  <2> QED
    BY <1>1, <2>2 DEF Served, HasDelivery
<1> QED
  BY <1>2, <1>3

\* Deduplication keys are set by an Enqueue alone.
LEMMA DedupeSteps ==
    ASSUME Next, NEW j \in dedupe'
    PROVE  j \in dedupe \/ \E c \in Controllers : Enqueue(c) /\ ctl[c].hold.job = j
<1>1. ASSUME NEW c \in Controllers, Enqueue(c) PROVE j \in dedupe \/ ctl[c].hold.job = j
  BY <1>1 DEF Enqueue
<1>2. ASSUME NEW c \in Controllers, Ack(c) PROVE j \in dedupe
  BY <1>2, Zenon DEF Ack
<1>3. UNCHANGED dedupe \/ \E c \in Controllers : Enqueue(c) \/ Ack(c)
  BY ZenonT(30) DEF Next, Initiate, Upload, ExpirePreparation, ExpireAnalysis, ClaimPreparation, ClaimParsing,
         ClaimEnqueuePending, ExhaustPreparation, ClaimResult, ControllerStep, GiveUp, SourceError,
         RejectCapture, Publish, RejectReference, CompletePreparation, ReadJob, Finish,
         Heartbeat, CrashController, Receive, WorkerStep, GrantClaim, RetryLater, FailLostAnalysis,
         RefuseClaim, LoadRow, LoadFlows, Execute, Report, PayloadError, CrashWorker, RedeliverJob,
         RedeliverResult, ApiStep, CancelRead, CancelWrite, DeleteRead, DeleteWrite
<1> QED
  BY <1>1, <1>2, <1>3

\* Whoever relies on a job being served may go on doing so.
LEMMA ReliedOnNext ==
    ASSUME DeliveryInv, TypeOK', Next
    PROVE  LeasesKept' /\ ReliedOn'
<1>inv. /\ TypeOK /\ RowsInv /\ LeasesKept /\ ReliedOn
        /\ \A j \in Jobs : Served(j) => Served(j)'
  BY DeliveryFacts, Zenon DEF DeliveryInv
<1>rows. \A j \in Jobs : RowGoal(j)
  BY <1>inv, RowGoals
<1>1. LeasesKept'
  BY <1>inv, <1>rows DEF LeasesKept, RowGoal
<1>2. ASSUME NEW j \in Jobs, UnderWay(job'[j]) PROVE Served(j)'
  <2>1. Served(j)
    BY <1>inv, <1>2, <1>rows DEF RowGoal, ReliedOn, HandedOver
  <2> QED
    BY <1>inv, <2>1
<1>3. ASSUME NEW j \in dedupe' PROVE Served(j)'
  <2>1. j \in Jobs
    BY <1>3 DEF TypeOK
  <2>2. CASE j \in dedupe
    BY <1>inv, <2>1, <2>2 DEF ReliedOn
  <2> QED
    BY <2>1, <2>2, DedupeSteps, EnqueueServes
<1>4. ASSUME NEW c \in Controllers, ctl'[c].pc = "enqueued" PROVE Served(ctl[c].hold.job)'
  <2>1. PICK j \in Jobs : j = ctl'[c].hold.job
    BY <1>4 DEF TypeOK, ControllerStates, Preparing, Messages
  <2>2. ctl'[c].hold = ctl[c].hold /\ (ctl[c].pc = "enqueued" \/ Enqueue(c))
    BY <1>4, <1>inv, HolderSteps
  <2>3. Served(j)'
    <3>1. CASE ctl[c].pc = "enqueued"
      BY <1>inv, <2>1, <2>2, <3>1 DEF ReliedOn
    <3>2. CASE Enqueue(c)
      BY <2>1, <2>2, <3>2, EnqueueServes
    <3> QED
      BY <2>2, <3>1, <3>2, Zenon
  <2> QED
    BY <2>1, <2>3 DEF Served, HasDelivery, HasFinalResult, Gone
<1>5. ASSUME NEW w \in Workers, wkr'[w].pc # "idle" PROVE Served(wkr[w].msg.job)'
  <2>1. PICK m \in Messages : m = wkr'[w].msg
    BY <1>5 DEF TypeOK, WorkerStates
  <2>2. PICK j \in Jobs : j = m.job
    BY DEF Messages
  <2>3. Served(j)
    <3>1. CASE wkr[w].pc # "idle" /\ wkr'[w].msg = wkr[w].msg
      BY <1>inv, <2>1, <2>2, <3>1 DEF ReliedOn
    <3>2. CASE Outstanding(jq, m)
      BY <2>2, <3>2 DEF Served, HasDelivery
    <3> QED
      BY <1>inv, <1>5, <2>1, <3>1, <3>2, WorkerSteps, Zenon
  <2>4. Served(j)'
    BY <1>inv, <2>3
  <2> QED
    BY <2>1, <2>2, <2>4 DEF Served, HasDelivery, HasFinalResult, Gone
<1>6. ReliedOn'
  BY <1>2, <1>3, <1>4, <1>5 DEF ReliedOn, UnderWay
<1> QED
  BY <1>1, <1>6

\* A delivery given up is one of a finished job, and a worker that loads its job
\* finds it claimed.
LEMMA LoadersNext ==
    ASSUME DeliveryInv, TypeOK', Next
    PROVE  LoadersOK'
<1>inv. /\ TypeOK /\ RowsInv /\ SafetyInv /\ LoadersOK /\ ResultsOK
        /\ \A j \in Jobs : /\ job[j] \in Rows /\ job'[j] \in Rows /\ Shape(job[j])
                           /\ RowStep(job[j], job'[j])
        /\ \A j \in Jobs : Gone(j) => Gone(j)'
  BY DeliveryFacts DEF DeliveryInv
<1> SUFFICES ASSUME NEW w \in Workers
             PROVE  /\ wkr'[w].pc = "reporting" /\ wkr'[w].out = "SUPERSEDED" => Gone(wkr[w].msg.job)'
                    /\ wkr'[w].pc \in {"loading", "fetching"} =>
                        \/ /\ job'[wkr'[w].msg.job].status = "ANALYZING"
                           /\ job'[wkr'[w].msg.job].phase = "CLAIMED"
                        \/ Gone(wkr[w].msg.job)'
  BY Zenon DEF LoadersOK
<1>1. ASSUME wkr'[w].pc = "reporting", wkr'[w].out = "SUPERSEDED" PROVE Gone(wkr[w].msg.job)'
  <2>1. wkr[w].pc # "idle" /\ wkr'[w].msg = wkr[w].msg
    BY <1>inv, <1>1, WorkerSteps, Zenon
  <2>2. PICK m \in Messages : m = wkr[w].msg
    BY <1>inv, <2>1 DEF TypeOK, WorkerStates
  <2>3. PICK j \in Jobs : j = m.job
    BY DEF Messages
  <2>4. Committed(m)
    BY <1>inv, <2>1, <2>2, Zenon DEF SafetyInv, ReceivedCommitted
  <2>5. CASE wkr[w].pc = "reporting" /\ wkr[w].out = "SUPERSEDED"
    BY <1>inv, <2>1, <2>2, <2>3, <2>5, Zenon DEF LoadersOK, Gone
  <2>6. CASE FailLostAnalysis(w)
    <3> DEFINE row == [job[j] EXCEPT !.status = "FAILED", !.phase = "FAILED",
                                     !.claim = None, !.alease = "none"]
    <3>1. job'[j] = row
      BY <1>inv, <2>2, <2>3, <2>6, Zenon DEF FailLostAnalysis, TypeOK
    <3>2. row.status = "FAILED"
      BY <1>inv DEF Rows
    <3> QED
      BY <2>1, <2>2, <2>3, <3>1, <3>2 DEF Gone, Terminal
  <2>7. CASE RefuseClaim(w)
    <3>1. ~Grants(job[j], m) /\ ~InAnalysis(job[j])
      BY <2>2, <2>3, <2>7, Zenon DEF RefuseClaim
    <3>2. Gone(j)
      BY <1>inv, <2>3, <2>4, <3>1 DEF Committed, Grants, InAnalysis, Shape
    <3> QED
      BY <1>inv, <2>1, <2>2, <2>3, <3>2, Zenon DEF Gone
  <2>8. CASE LoadRow(w) /\ Superseded(job[wkr[w].msg.job], wkr[w].msg)
    <3>1. \/ job[j].status = "ANALYZING" /\ job[j].phase = "CLAIMED"
          \/ Gone(j)
      BY <1>inv, <2>2, <2>3, <2>8, Zenon DEF LoadRow, LoadersOK
    <3>2. Gone(j)
      BY <2>2, <2>3, <2>4, <2>8, <3>1, Zenon DEF Committed, Superseded, Gone, Terminal
    <3> QED
      BY <1>inv, <2>1, <2>2, <2>3, <3>2 DEF Gone
  <2> QED
    BY <1>inv, <1>1, <2>5, <2>6, <2>7, <2>8, LoaderSteps, Zenon
<1>2. ASSUME wkr'[w].pc \in {"loading", "fetching"}
      PROVE  \/ /\ job'[wkr'[w].msg.job].status = "ANALYZING"
                /\ job'[wkr'[w].msg.job].phase = "CLAIMED"
             \/ Gone(wkr[w].msg.job)'
  <2>1. wkr[w].pc # "idle" /\ wkr'[w].msg = wkr[w].msg
    BY <1>inv, <1>2, WorkerSteps, Zenon
  <2>2. PICK j \in Jobs : j = wkr[w].msg.job
    BY <1>inv, <2>1, Zenon DEF TypeOK, WorkerStates, Messages
  <2>3. CASE GrantClaim(w)
    <3> DEFINE row == [job[j] EXCEPT !.phase = "CLAIMED", !.claim = w,
                                     !.alease = "live", !.lease = "none"]
    <3>1. job'[j] = row /\ job[j].status = "ANALYZING"
      BY <1>inv, <2>2, <2>3, Zenon DEF GrantClaim, Grants, TypeOK
    <3>2. row.status = job[j].status /\ row.phase = "CLAIMED"
      BY <1>inv, Zenon DEF Rows
    <3> QED
      BY <2>1, <2>2, <3>1, <3>2
  <2>4. CASE wkr[w].pc \in {"loading", "fetching"}
    <3>1. CASE Gone(j)
      BY <1>inv, <2>1, <2>2, <3>1 DEF Gone
    <3>2. CASE job[j].status = "ANALYZING" /\ job[j].phase = "CLAIMED"
      <4>1. \/ InAnalysis(job'[j])
            \/ job'[j].status \in Terminal
        BY <1>inv, <3>2, RowStepKeeps DEF InAnalysis
      <4>2. ~StartSeen(j)
        <5> SUFFICES ASSUME NEW c \in Controllers, ctl[c].pc = "reading",
                            ctl[c].res.kind = "STARTED", ctl[c].res.job = j
                     PROVE  FALSE
          BY DEF StartSeen
        <5>1. ResultOK(ctl[c].res)
          BY <1>inv, Zenon DEF ResultsOK, Consuming
        <5> QED
          BY <2>2, <2>4, <3>2, <5>1 DEF ResultOK, Gone, Terminal
      <4>3. ~Running(job'[j])
        BY <1>inv, <3>2, <4>2, RowGoals DEF RowGoal, Running
      <4> QED
        BY <2>1, <2>2, <4>1, <4>3, Zenon DEF InAnalysis, Running, Gone
    <3> QED
      BY <1>inv, <2>2, <2>4, <3>1, <3>2, Zenon DEF LoadersOK
  <2> QED
    BY <1>inv, <1>2, <2>3, <2>4, LoaderSteps, Zenon
<1> QED
  BY <1>1, <1>2

\* A result goes on naming a job under analysis, or a finished one.
LEMMA ResultStays ==
    ASSUME DeliveryInv, TypeOK', Next, NEW r \in Results, ResultOK(r)
    PROVE  ResultOK(r)'
<1>inv. /\ TypeOK /\ RowsInv
        /\ \A j \in Jobs : /\ job[j] \in Rows /\ job'[j] \in Rows /\ Shape(job[j])
                           /\ RowStep(job[j], job'[j])
        /\ \A j \in Jobs : Gone(j) => Gone(j)'
  BY DeliveryFacts
<1>1. PICK j \in Jobs : j = r.job
  BY DEF Results
<1>2. CASE Gone(j) \/ job'[j].status \in Terminal
  BY <1>inv, <1>1, <1>2 DEF ResultOK, Gone
<1>3. CASE ~Gone(j) /\ job'[j].status \notin Terminal
  <2>1. job[j].status = "ANALYZING" /\ job'[j].status = "ANALYZING"
    BY <1>inv, <1>1, <1>3, RowStepKeeps, Zenon DEF ResultOK
  <2>2. ASSUME r.kind = "STARTED"
        PROVE  /\ job'[j].phase \in {"CLAIMED", "RUNNING"}
               /\ \A w \in Workers : wkr'[w].pc \in {"loading", "fetching"} => wkr'[w].msg.job # j
    <3>1. /\ job[j].phase \in {"CLAIMED", "RUNNING"}
          /\ \A w \in Workers : wkr[w].pc \in {"loading", "fetching"} => wkr[w].msg.job # j
      BY <1>1, <1>3, <2>2, Zenon DEF ResultOK
    <3>2. InAnalysis(job'[j])
      BY <1>inv, <1>3, <2>1, <3>1, RowStepKeeps DEF InAnalysis
    <3>3. ASSUME NEW w \in Workers, wkr'[w].pc \in {"loading", "fetching"}
          PROVE  wkr'[w].msg.job # j
      <4>1. wkr'[w].msg = wkr[w].msg
        BY <1>inv, <3>3, WorkerSteps, Zenon
      <4>2. CASE GrantClaim(w)
        BY <3>1, <4>1, <4>2, Zenon DEF GrantClaim, Grants
      <4> QED
        BY <1>inv, <3>1, <3>3, <4>1, <4>2, LoaderSteps, Zenon
    <3> QED
      BY <3>2, <3>3, Zenon DEF InAnalysis
  <2> QED
    BY <1>1, <2>1, <2>2 DEF ResultOK
<1> QED
  BY <1>2, <1>3

\* Results are those of analysed jobs, and a final one is acknowledged only when
\* its job is finished.
LEMMA ResultsNext ==
    ASSUME DeliveryInv, TypeOK', Next
    PROVE  ResultsOK'
<1>inv. /\ TypeOK /\ RowsInv /\ SafetyInv /\ ResultsOK
        /\ \A j \in Jobs : /\ job[j] \in Rows /\ job'[j] \in Rows /\ Shape(job[j])
                           /\ RowStep(job[j], job'[j])
        /\ \A j \in Jobs : Gone(j) => Gone(j)'
  BY DeliveryFacts DEF DeliveryInv
<1>keep. \A r \in Results : ResultOK(r) => ResultOK(r)'
  BY ResultStays, Zenon
<1>1. ASSUME NEW r \in Results, Outstanding(rq', r) PROVE ResultOK(r)'
  <2>1. CASE Outstanding(rq, r)
    BY <1>inv, <1>keep, <2>1 DEF ResultsOK
  <2>2. ASSUME NEW w \in Workers, Report(w), r = Result(wkr[w].msg.job, wkr[w].out)
        PROVE  ResultOK(r)'
    <3>1. Committed(wkr[w].msg)
      BY <1>inv, <2>2 DEF Report, SafetyInv, ReceivedCommitted
    <3>2. wkr[w].out # "STARTED"
      BY <1>inv, <2>2 DEF TypeOK, WorkerStates, Final
    <3>3. r.job = wkr[w].msg.job /\ r.kind = wkr[w].out
      BY <2>2, Zenon DEF Result
    <3>4. ResultOK(r)
      BY <3>1, <3>2, <3>3 DEF Committed, ResultOK
    <3> QED
      BY <1>keep, <3>4
  <2>3. ASSUME NEW w \in Workers, LoadFlows(w), r = Started(wkr[w].msg)
        PROVE  ResultOK(r)'
    <3>1. r.job = wkr[w].msg.job /\ wkr[w].pc = "fetching" /\ job' = job
      BY <2>3 DEF Started, LoadFlows
    <3>2. PICK j \in Jobs : j = r.job
      BY Zenon DEF Results
    <3>3. InAnalysis(job[j]) \/ Gone(j)
      BY <1>inv, <3>1, <3>2 DEF SafetyInv, ClaimsOK, Analysing
    <3>4. ASSUME NEW v \in Workers, wkr'[v].pc \in {"loading", "fetching"}
          PROVE  wkr'[v].msg.job # j
      <4>1. v # w
        <5>1. wkr'[w] = [wkr[w] EXCEPT !.pc = "executing", !.loaded = flows[wkr[w].msg.job]]
          BY <1>inv, <2>3 DEF LoadFlows, TypeOK
        <5>2. wkr'[w].pc = "executing"
          BY <1>inv, <5>1 DEF TypeOK, WorkerStates
        <5> QED
          BY <3>4, <5>2
      <4>2. wkr'[v] = wkr[v]
        BY <1>inv, <2>3, <4>1 DEF LoadFlows, TypeOK
      <4>3. wkr[v].pc \in Analysing /\ wkr[w].pc \in Analysing
        BY <3>1, <3>4, <4>2 DEF Analysing
      <4> QED
        BY <1>inv, <3>1, <3>2, <4>1, <4>2, <4>3 DEF SafetyInv, SingleExecution
    <3> QED
      BY <3>1, <3>2, <3>3, <3>4 DEF ResultOK, InAnalysis, Gone
  <2> QED
    BY <1>1, <1>inv, <2>1, <2>2, <2>3, ResultQueueKeeps, Zenon
<1>2. ASSUME NEW c \in Controllers, ctl'[c].pc \in Consuming PROVE ResultOK(ctl[c].res)'
  <2>1. PICK r \in Results : r = ctl'[c].res
    BY <1>2, Zenon DEF TypeOK, ControllerStates
  <2>2. ResultOK(r)
    BY <1>inv, <1>2, <2>1, HolderSteps DEF ResultsOK
  <2>3. ResultOK(r)'
    BY <1>keep, <2>2
  <2> QED
    BY <2>1, <2>3 DEF ResultOK, Gone
<1>3. ASSUME NEW c \in Controllers, ctl'[c].pc = "acking", ctl'[c].res.kind \in Final
      PROVE  Gone(ctl[c].res.job)'
  <2>1. PICK r \in Results : r = ctl'[c].res
    BY <1>3 DEF TypeOK, ControllerStates, Consuming
  <2>2. PICK j \in Jobs : j = r.job
    BY DEF Results
  <2>3. ctl[c].pc \in Consuming /\ ctl[c].res = r /\ ResultOK(r)
    BY <1>inv, <1>3, <2>1, HolderSteps, Zenon DEF Consuming, ResultsOK
  <2>4. Gone(j) \/ job[j].status = "ANALYZING"
    BY <2>2, <2>3 DEF ResultOK
  <2>5. CASE Gone(j)
    BY <1>inv, <2>1, <2>2, <2>5, Zenon DEF Gone
  <2>6. CASE job[j].status = "ANALYZING"
    <3>1. Writable(job[j])
      BY <2>6 DEF Writable, Terminal
    <3>2. CASE ctl[c].pc = "acking"
      BY <1>inv, <1>3, <2>1, <2>2, <2>3, <2>5, <3>2, Zenon DEF ResultsOK
    <3>3. CASE ReadJob(c)
      <4>1. ctl'[c] = [ctl[c] EXCEPT !.pc = "finishing", !.doc = job[j]]
        BY <1>inv, <1>3, <2>1, <2>2, <2>3, <3>1, <3>3, Zenon DEF ReadJob, TypeOK
      <4>2. ctl'[c].pc = "finishing"
        BY <1>inv, <4>1 DEF TypeOK, ControllerStates
      <4> QED
        BY <1>3, <4>2
    <3>4. CASE Finish(c)
      <4>1. \/ ctl'[c] = IdleController
            \/ job' = [job EXCEPT ![j] = Finished(ctl[c].doc, r.kind)]
        BY <1>inv, <2>2, <2>3, <3>1, <3>4 DEF Finish, TypeOK
      <4>2. ctl'[c] # IdleController
        BY <1>3 DEF IdleController
      <4>3. job'[j] = Finished(ctl[c].doc, r.kind)
        BY <1>inv, <4>1, <4>2 DEF TypeOK
      <4>4. ctl[c].doc \in Rows
        BY <1>inv DEF TypeOK, ControllerStates
      <4>5. job'[j].status \in Terminal
        BY <4>3, <4>4, FinishedType
      <4> QED
        BY <2>1, <2>2, <4>5 DEF Gone
    <3> QED
      BY <1>inv, <1>3, <3>2, <3>3, <3>4, HolderSteps, Zenon
  <2> QED
    BY <2>4, <2>5, <2>6
<1> QED
  BY <1>1, <1>2, <1>3 DEF ResultsOK

\* The inductive invariant holds at the start ...
LEMMA DeliveryInit == Init => DeliveryInv
<1> SUFFICES ASSUME Init PROVE DeliveryInv
  OBVIOUS
<1>1. SafetyInv
  BY SafetyInit
<1>2. LeasesKept
  BY Zenon DEF Init, LeasesKept, LeasedRow, Row
<1>3. ReliedOn
  BY DEF Init, ReliedOn, UnderWay, Row, IdleController, IdleWorker
<1>4. LoadersOK
  BY DEF Init, LoadersOK, IdleWorker
<1>5. \A r \in Results : ~Outstanding(rq, r)
  BY DEF Init, Outstanding, EmptyQueue
<1>6. \A c \in Controllers : ctl[c].pc = "idle"
  BY DEF Init, IdleController
<1> QED
  BY <1>1, <1>2, <1>3, <1>4, <1>5, <1>6 DEF DeliveryInv, ResultsOK, Consuming

\* ... and every step keeps it.
LEMMA DeliveryNext == DeliveryInv /\ [Next]_vars => DeliveryInv'
<1> SUFFICES ASSUME DeliveryInv, [Next]_vars PROVE DeliveryInv'
  OBVIOUS
<1>1. SafetyInv' /\ TypeOK'
  BY SafetyNext DEF DeliveryInv, SafetyInv, RowsInv
<1>2. CASE UNCHANGED vars
  <2>1. \A j : (Served(j)' <=> Served(j)) /\ (Gone(j)' <=> Gone(j))
    BY <1>2 DEF vars, Served, HasDelivery, HasFinalResult, Outstanding, Gone
  <2>2. \A r : ResultOK(r)' <=> ResultOK(r)
    BY <1>2, Zenon DEF vars, ResultOK, Gone
  <2>3. LeasesKept' /\ LoadersOK'
    BY <1>2 DEF vars, DeliveryInv, LeasesKept, LeasedRow, LoadersOK, Gone
  <2>4. ReliedOn'
    BY <1>2, <2>1, Zenon DEF vars, DeliveryInv, ReliedOn, UnderWay, Served, HasDelivery, HasFinalResult,
                      Outstanding, Gone
  <2>5. ResultsOK'
    BY <1>2, <2>1, <2>2, Zenon DEF vars, DeliveryInv, ResultsOK, ResultOK, Outstanding, Gone
  <2> QED
    BY <1>1, <2>3, <2>4, <2>5 DEF DeliveryInv
<1>3. CASE Next
  BY <1>1, <1>3, ReliedOnNext, LoadersNext, ResultsNext DEF DeliveryInv
<1> QED
  BY <1>2, <1>3

\* Who relies on a job being served is right, in every behaviour.
THEOREM DeliveriesHold == Spec => []DeliveryInv
BY DeliveryInit, DeliveryNext, PTL DEF Spec

\* A job that is not finished has something that will move it on: its stored
\* capture, a preparation that can be taken over when its lease runs out, a
\* delivery or a final result on a queue.  This is so through crashes, expired
\* leases, redelivered and duplicate messages and cancellations
\* (_enqueue_prepared, claim_analysis, RedisQueue.complete, persist_claimed_result).
THEOREM NoJobIsForgotten == Spec => []NoJobForgotten
<1>1. DeliveryInv => NoJobForgotten
  <2> SUFFICES ASSUME DeliveryInv, NEW j \in Jobs
               PROVE  /\ job[j].status = "INGESTING" =>
                          \/ job[j].phase = "UPLOAD_STORED"
                          \/ job[j].phase = "PARSING" /\ job[j].lease # "none"
                      /\ job[j].status = "ANALYZING" =>
                          \/ job[j].phase = "ENQUEUE_PENDING" /\ job[j].lease # "none"
                          \/ job[j].phase \in {"QUEUED", "CLAIMED", "RUNNING"}
                             /\ (HasDelivery(j) \/ HasFinalResult(j))
    BY Zenon DEF NoJobForgotten
  <2>1. Shape(job[j]) /\ LeasedRow(job[j]) /\ (UnderWay(job[j]) => Served(j))
    BY DEF DeliveryInv, SafetyInv, RowsInv, ShapesOK, LeasesKept, ReliedOn
  <2>2. job[j].status = "ANALYZING" => ~Gone(j)
    BY DEF Gone, Terminal
  <2> QED
    BY <2>1, <2>2 DEF Shape, LeasedRow, UnderWay, Served
<1> QED
  BY <1>1, DeliveriesHold, PTL
=============================================================================
