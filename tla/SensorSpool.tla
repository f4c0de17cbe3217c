---------------------------- MODULE SensorSpool ----------------------------
(***************************************************************************)
(* Flow batches of one sensor, from the pipelines that make them to the    *)
(* tables that hold their records: the bounded queue, the writer and the   *)
(* uploader of BatchManager, the spool directory with its loss report, and *)
(* the controller's ingestion (ClickHouseFlowStore).                       *)
(*                                                                         *)
(* Batch n is the n-th one made, so the order of batches is the order of   *)
(* CreatedAt.  Spool.mu makes Put, Pending, Retry and ACK atomic for the   *)
(* two loops; a crash may still fall between two file operations of one of *)
(* them.  Time is counted in upload intervals: wait is what is left of a   *)
(* batch's back-off, life what is left of MaxAge.                          *)
(***************************************************************************)
EXTENDS Integers, FiniteSets, Sequences, FiniteSetsExt, SequencesExt

CONSTANTS
    NumBatches,     \* bound: batches made
    SpoolBytes,     \* limits.MaxBytes
    LargestSizes,   \* sizes the last batch may have
    PoisonSets,     \* sets of batches the controller may refuse for ever
    MaxLife,        \* limits.MaxAge, in upload intervals
    BatchQueueSize, \* cfg.QueueSize
    MaxShift,       \* bound: the 6 of Retry's 1 << min(attempts - 1, 6)
    MaxSpoolFaults, \* bound: file errors, failed or unanswered requests
    MaxMishaps      \* bound: damaged files, crashes, stops and new configurations

BatchIds == 1 .. NumBatches

NoBatch == 0

ASSUME SpoolConstants ==
    /\ NumBatches \in Nat \ {0} /\ SpoolBytes \in Nat \ {0} /\ MaxLife \in Nat
    /\ LargestSizes \subseteq Nat \ {0} /\ PoisonSets \subseteq SUBSET BatchIds
    /\ BatchQueueSize \in Nat \ {0} /\ MaxShift \in Nat
    /\ MaxSpoolFaults \in Nat /\ MaxMishaps \in Nat

VARIABLES
    expiry,     \* whether limits.MaxAge is set
    poison,     \* the batches the controller refuses (422)
    largest,    \* the size of the last batch; the others have size 1
    made,       \* batches made so far
    outgoing,   \* BatchManager.queue
    stored,     \* batches with a readable file in the spool
    damaged,    \* batches whose file cannot be decoded
    wait,       \* what is left until a batch's NextAttempt
    attempts,   \* Batch.Attempts
    life,       \* what is left of a batch's MaxAge
    loss,       \* Spool.loss.Batches
    diskLoss,   \* .loss.json
    queueLost,  \* BatchManager.queueLostBatches
    reported,   \* BatchManager.snapshot.LostBatches
    writer,     \* "idle" | "refresh"
    uploader,   \* "starting" | "idle" | "draining" | "done"
    forced,     \* whether the drain is the last one
    todo,       \* the batches the drain has still to upload
    due,        \* whether the ticker or uploadNow has fired
    request,    \* the upload in progress at the controller
    stray,      \* requests the sensor no longer waits for
    manager,    \* "running" | "stopping" | "down"
    opened,     \* the loss a spool opened for the next manager has read
    ledger,     \* batches in flow_batch_ledger
    rows,       \* copies of a batch in flow_records
    forgotten,  \* losses that no counter holds any more
    spoolFaults, mishaps

spoolConfig == <<expiry, poison, largest>>
disk == <<stored, damaged, wait, attempts, life, diskLoss>>
upload == <<uploader, forced, todo, due, request, stray>>
controller == <<ledger, rows>>
spoolBudget == <<spoolFaults, mishaps>>
spoolVars == <<expiry, poison, largest, made, outgoing, stored, damaged, wait, attempts, life, loss, diskLoss,
               queueLost, reported, writer, uploader, forced, todo, due, request, stray, manager, opened,
               ledger, rows, forgotten, spoolFaults, mishaps>>

NoRequest == [batch |-> NoBatch, step |-> "none"]

Unopened == 99

SpoolInit ==
    /\ expiry \in BOOLEAN
    /\ poison \in PoisonSets
    /\ largest \in LargestSizes
    /\ made = 0 /\ outgoing = <<>>
    /\ stored = {} /\ damaged = {}
    /\ wait = [b \in BatchIds |-> 0]
    /\ attempts = [b \in BatchIds |-> 0]
    /\ life = [b \in BatchIds |-> MaxLife]
    /\ loss = 0 /\ diskLoss = 0 /\ queueLost = 0 /\ reported = 0 /\ forgotten = 0
    /\ writer = "idle" /\ uploader = "starting" /\ forced = FALSE
    /\ todo = <<>> /\ due = FALSE /\ request = NoRequest /\ stray = {}
    /\ manager = "running" /\ opened = Unopened
    /\ ledger = {} /\ rows = [b \in BatchIds |-> 0]
    /\ spoolFaults = 0 /\ mishaps = 0

SpoolFault ==
    /\ spoolFaults < MaxSpoolFaults
    /\ spoolFaults' = spoolFaults + 1 /\ UNCHANGED mishaps

Mishap ==
    /\ mishaps < MaxMishaps
    /\ mishaps' = mishaps + 1 /\ UNCHANGED spoolFaults

----------------------------------------------------------------------------
(* The spool.                                                              *)

Bytes(b) == IF b = NumBatches THEN largest ELSE 1

TotalBytes(S) == MapThenSumSet(Bytes, S)

Expired(b) == expiry /\ life[b] = 0

\* One iteration of enforce: batches are visited oldest first, and the running
\* total decides whether the next one has to go.
Visit(acc, b) ==
    IF Expired(b) \/ acc.total > SpoolBytes
    THEN [total |-> acc.total - Bytes(b), victims |-> acc.victims \cup {b}]
    ELSE acc

\* The batches enforce removes from the directory S.
Victims(S) ==
    FoldLeft(Visit, [total |-> TotalBytes(S), victims |-> {}], SetToSortSeq(S, <)).victims

\* A mutant: an enforcement counts as one loss however many batches went.
EnforceCountingOnce(S) ==
    /\ stored' = S \ Victims(S)
    /\ damaged' = {}
    /\ loss' = loss + (IF damaged \cup Victims(S) = {} THEN 0 ELSE 1)
    /\ diskLoss' = loss'

\* enforce over the directory S: unreadable files are put aside and counted,
\* the victims removed and counted, the report saved.
Enforce(S) ==
    /\ stored' = S \ Victims(S)
    /\ damaged' = {}
    /\ loss' = loss + Cardinality(damaged) + Cardinality(Victims(S))
    /\ diskLoss' = loss'

\* What enforce has removed when it stops before the victim x.
Before(S, x) == {v \in Victims(S) : v < x}

\* enforce stops at a file it cannot remove, or cannot save the report: what
\* was removed before is counted in memory only.
EnforceFails(S) ==
    \E x \in Victims(S) \cup {NumBatches + 1} :
        /\ stored' = S \ Before(S, x)
        /\ damaged' = {}
        /\ loss' = loss + Cardinality(damaged) + Cardinality(Before(S, x))
        /\ UNCHANGED diskLoss

----------------------------------------------------------------------------
(* The batch manager: queue and writer.                                    *)

\* recordLocalLoss overwrites the reported count by the queue's own.
RecordLocalLoss ==
    /\ queueLost' = queueLost + 1
    /\ reported' = queueLost + 1

\* A pipeline hands over a finished batch without ever blocking.
Enqueue ==
    /\ manager = "running"
    /\ made < NumBatches
    /\ made' = made + 1
    /\ \/ /\ Len(outgoing) < BatchQueueSize
          /\ outgoing' = Append(outgoing, made + 1)
          /\ UNCHANGED <<queueLost, reported>>
       \/ /\ Len(outgoing) = BatchQueueSize
          /\ RecordLocalLoss
          /\ UNCHANGED outgoing
    /\ UNCHANGED <<spoolConfig, disk, loss, writer, upload, manager, opened, controller, forgotten,
                   spoolBudget>>

\* Put, under the spool's lock.
Put(b) ==
    \/ /\ Bytes(b) > SpoolBytes
       /\ RecordLocalLoss
       /\ UNCHANGED <<stored, damaged, loss, diskLoss, writer, spoolBudget>>
    \/ /\ Bytes(b) <= SpoolBytes
       /\ Enforce(stored \cup {b})
       /\ writer' = "refresh"
       /\ UNCHANGED <<queueLost, reported, spoolBudget>>
    \/ /\ Bytes(b) <= SpoolBytes /\ SpoolFault
       /\ \/ EnforceFails(stored \cup {b})
          \/ UNCHANGED <<stored, damaged, loss, diskLoss>>
       /\ RecordLocalLoss
       /\ UNCHANGED writer

WriteBatch ==
    /\ manager # "down" /\ writer = "idle" /\ outgoing # <<>>
    /\ Put(Head(outgoing))
    /\ outgoing' = Tail(outgoing)
    /\ UNCHANGED <<spoolConfig, made, wait, attempts, life, upload, manager, opened, controller, forgotten>>

\* A mutant: the count of the spool alone is published.
RefreshSpoolOnly ==
    /\ Enforce(stored)
    /\ reported' = loss'
    /\ UNCHANGED spoolBudget

\* refreshMetrics: Pending enforces the limits once more before the counters
\* are published.  Its two locks are one step here: both counts only grow.
RefreshMetrics ==
    \/ /\ Enforce(stored)
       /\ reported' = loss' + queueLost
       /\ UNCHANGED spoolBudget
    \/ /\ SpoolFault /\ EnforceFails(stored)
       /\ UNCHANGED reported

WriterRefresh ==
    /\ manager # "down" /\ writer = "refresh"
    /\ RefreshMetrics
    /\ writer' = "idle"
    /\ due' = TRUE
    /\ UNCHANGED <<spoolConfig, made, outgoing, wait, attempts, life, queueLost, uploader, forced, todo,
                   request, stray, manager, opened, controller, forgotten>>

----------------------------------------------------------------------------
(* The batch manager: uploader.                                            *)

\* ctx.Err() of a drain: the last one has a context of its own.
Cancelled == manager = "stopping" /\ ~forced

WriterDone == writer = "idle" /\ outgoing = <<>>

\* drain begins with Pending; NextAttempt is compared with the time of that
\* moment.
StartDrain(force) ==
    /\ uploader \in {"starting", "idle"}
    /\ IF force THEN manager = "stopping" /\ WriterDone
                ELSE manager = "running" /\ (uploader = "starting" \/ due)
    /\ due' = FALSE
    /\ forced' = force
    /\ \/ /\ Enforce(stored)
          /\ todo' = SetToSortSeq({b \in stored' : force \/ wait[b] = 0}, <)
          /\ uploader' = "draining"
          /\ UNCHANGED spoolBudget
       \/ /\ SpoolFault /\ EnforceFails(stored)
          /\ uploader' = IF force THEN "done" ELSE "idle"
          /\ UNCHANGED todo
    /\ UNCHANGED <<spoolConfig, made, outgoing, wait, attempts, life, queueLost, reported, writer, request,
                   stray, manager, opened, controller, forgotten>>

Upload ==
    /\ uploader = "draining" /\ request = NoRequest /\ todo # <<>> /\ ~Cancelled
    /\ manager # "down"
    /\ request' = [batch |-> Head(todo), step |-> "check"]
    /\ todo' = Tail(todo)
    /\ UNCHANGED <<spoolConfig, made, outgoing, disk, loss, queueLost, reported, writer, uploader, forced,
                   due, stray, manager, opened, controller, forgotten, spoolBudget>>

\* The context of the drain ends between two batches; the last drain's one
\* lasts five seconds.
CutDrain ==
    /\ uploader = "draining" /\ request = NoRequest /\ todo # <<>>
    /\ manager # "down"
    /\ \/ Cancelled /\ UNCHANGED spoolBudget
       \/ forced /\ SpoolFault
    /\ todo' = <<>>
    /\ UNCHANGED <<spoolConfig, made, outgoing, disk, loss, queueLost, reported, writer, uploader, forced,
                   due, request, stray, manager, opened, controller, forgotten>>

\* After a failure only the last drain goes on to the next batch.
AfterFailure == todo' = IF forced THEN todo ELSE <<>>

\* The controller has accepted the batch, or had it already: ACK removes the
\* file.
Acknowledge ==
    /\ uploader = "draining" /\ request.step \in {"accepted", "duplicate"}
    /\ \/ /\ stored' = stored \ {request.batch}
          /\ damaged' = damaged \ {request.batch}
          /\ UNCHANGED <<todo, spoolBudget>>
       \/ /\ SpoolFault
          /\ AfterFailure
          /\ UNCHANGED <<stored, damaged>>
    /\ request' = NoRequest
    /\ UNCHANGED <<spoolConfig, made, outgoing, wait, attempts, life, loss, diskLoss, queueLost, reported,
                   writer, uploader, forced, due, stray, manager, opened, controller, forgotten>>

\* A mutant: the batch is tried again at once.
RetryAtOnce(b) ==
    /\ attempts' = [attempts EXCEPT ![b] = IF @ > MaxShift THEN @ ELSE @ + 1]
    /\ UNCHANGED <<wait, stored>>

\* Retry: the file is read, the back-off doubled and the file written; a
\* file that is gone is left alone.
Retry(b) ==
    /\ attempts' = [attempts EXCEPT ![b] = IF b \notin stored \/ @ > MaxShift THEN @ ELSE @ + 1]
    /\ wait' = [wait EXCEPT ![b] =
                    IF b \in stored THEN 2 ^ (IF attempts[b] < MaxShift THEN attempts[b] ELSE MaxShift)
                    ELSE @]
    /\ UNCHANGED stored

\* The upload is refused, fails, is not answered in time or is cancelled: the
\* controller may still be working on it.
UploadFails ==
    /\ uploader = "draining" /\ request # NoRequest
    /\ \/ (request.step = "error" \/ Cancelled) /\ UNCHANGED spoolBudget
       \/ request.step # "error" /\ SpoolFault
    /\ Retry(request.batch)
    /\ AfterFailure
    /\ stray' = stray \cup (IF request.step \in {"check", "insert", "record"} THEN {request} ELSE {})
    /\ request' = NoRequest
    /\ UNCHANGED <<spoolConfig, made, outgoing, damaged, life, loss, diskLoss, queueLost, reported, writer,
                   uploader, forced, due, manager, opened, controller, forgotten>>

FinishDrain ==
    /\ uploader = "draining" /\ request = NoRequest /\ todo = <<>>
    /\ manager # "down"
    /\ RefreshMetrics
    /\ uploader' = IF forced THEN "done" ELSE "idle"
    /\ UNCHANGED <<spoolConfig, made, outgoing, wait, attempts, life, queueLost, writer, forced, todo, due,
                   request, stray, manager, opened, controller, forgotten>>

----------------------------------------------------------------------------
(* The controller.                                                         *)

AtMostTwo(n) == IF n < 2 THEN n ELSE 2

\* ingest_batch: the ledger is asked, the records inserted, the ledger row
\* inserted; three requests to ClickHouse.
Handle(r, step) ==
    \/ /\ r.step = "check"
       /\ step = IF r.batch \in poison THEN "error"
                 ELSE IF r.batch \in ledger THEN "duplicate" ELSE "insert"
       /\ UNCHANGED controller
    \/ /\ r.step = "insert" /\ step = "record"
       /\ rows' = [rows EXCEPT ![r.batch] = AtMostTwo(@ + 1)]
       /\ UNCHANGED ledger
    \/ /\ r.step = "record" /\ step = "accepted"
       /\ ledger' = ledger \cup {r.batch}
       /\ UNCHANGED rows

Steps == {"check", "insert", "record", "accepted", "duplicate", "error"}

\* A request to ClickHouse fails, before or after it took effect.
HandleFails(r) ==
    /\ r.step \in {"check", "insert", "record"}
    /\ SpoolFault
    /\ \/ UNCHANGED controller
       \/ \E step \in Steps : Handle(r, step)

Ingest ==
    /\ \/ \E step \in Steps :
            /\ Handle(request, step)
            /\ request' = [request EXCEPT !.step = step]
            /\ UNCHANGED spoolBudget
       \/ HandleFails(request) /\ request' = [request EXCEPT !.step = "error"]
    /\ UNCHANGED <<spoolConfig, made, outgoing, disk, loss, queueLost, reported, writer, uploader, forced,
                   todo, due, stray, manager, opened, forgotten>>

\* A request nobody waits for any more goes on all the same.
IngestStray ==
    /\ \E r \in stray : \E step \in Steps :
          /\ Handle(r, step)
          /\ stray' = (stray \ {r}) \cup (IF step \in {"insert", "record"}
                                          THEN {[r EXCEPT !.step = step]} ELSE {})
    /\ UNCHANGED <<spoolConfig, made, outgoing, disk, loss, queueLost, reported, writer, uploader, forced,
                   todo, due, request, manager, opened, forgotten, spoolBudget>>

----------------------------------------------------------------------------
(* Time, damage, and the life of the manager.                              *)

\* An upload interval passes.  The running loop answers its ticker, and ends a
\* drain that has nothing left to upload, within one.
TickSpool ==
    /\ manager = "running" => /\ ~(due /\ uploader = "idle")
                              /\ ~(uploader = "draining" /\ request = NoRequest)
    /\ \/ due = FALSE
       \/ \E b \in stored : wait[b] > 0 \/ (expiry /\ life[b] > 0)
    /\ due' = TRUE
    /\ wait' = [b \in BatchIds |-> IF wait[b] > 0 THEN wait[b] - 1 ELSE 0]
    /\ life' = [b \in BatchIds |-> IF expiry /\ b <= made /\ life[b] > 0 THEN life[b] - 1 ELSE life[b]]
    /\ UNCHANGED <<spoolConfig, made, outgoing, stored, damaged, attempts, loss, diskLoss, queueLost,
                   reported, writer, uploader, forced, todo, request, stray, manager, opened, controller,
                   forgotten, spoolBudget>>

DamageFile ==
    /\ Mishap
    /\ \E b \in stored : stored' = stored \ {b} /\ damaged' = damaged \cup {b}
    /\ UNCHANGED <<spoolConfig, made, outgoing, wait, attempts, life, loss, diskLoss, queueLost, reported,
                   writer, upload, manager, opened, controller, forgotten>>

\* A new configuration: buildPipelines opens a spool on the same directory
\* while the current manager goes on.
OpenNext ==
    /\ manager = "running" /\ opened = Unopened
    /\ Mishap
    /\ opened' = diskLoss
    /\ UNCHANGED <<spoolConfig, made, outgoing, disk, loss, queueLost, reported, writer, upload, manager,
                   controller, forgotten>>

\* The rest of the configuration is refused and the spool dropped.
RejectNext ==
    /\ manager = "running" /\ opened # Unopened
    /\ opened' = Unopened
    /\ UNCHANGED <<spoolConfig, made, outgoing, disk, loss, queueLost, reported, writer, upload, manager,
                   controller, forgotten, spoolBudget>>

\* Apply, or the end of the process: the capture is over and the manager's
\* context is cancelled.
StopManager ==
    /\ manager = "running"
    /\ \/ opened # Unopened /\ UNCHANGED spoolBudget
       \/ opened = Unopened /\ Mishap
    /\ manager' = "stopping"
    /\ UNCHANGED <<spoolConfig, made, outgoing, disk, loss, queueLost, reported, writer, upload, opened,
                   controller, forgotten>>

\* The counters of a new manager, whose spool has read the report.  What the
\* old one knew beyond the report is forgotten.
TakeOver(read) ==
    /\ loss' = read /\ queueLost' = 0 /\ reported' = 0
    /\ forgotten' = forgotten + loss + queueLost - read

\* The old manager is done: the next one starts with the loss its spool read
\* when it was opened, or the process ends.
Handover ==
    /\ manager = "stopping" /\ uploader = "done"
    /\ IF opened # Unopened
       THEN manager' = "running" /\ TakeOver(opened)
       ELSE manager' = "down" /\ TakeOver(diskLoss)
    /\ opened' = Unopened
    /\ uploader' = "starting" /\ forced' = FALSE /\ due' = FALSE
    /\ UNCHANGED <<spoolConfig, made, outgoing, disk, writer, todo, request, stray, controller, spoolBudget>>

\* The process dies, perhaps in the middle of Put or enforce: some victims
\* are gone and the report does not say so.
CrashSensor ==
    /\ manager # "down"
    /\ Mishap
    /\ \E S \in {stored} \cup (IF writer = "idle" /\ outgoing # <<>> /\ Bytes(Head(outgoing)) <= SpoolBytes
                               THEN {stored \cup {Head(outgoing)}} ELSE {}) :
       \E x \in Victims(S) \cup {0, NumBatches + 1} :
          /\ stored' = S \ Before(S, x)
          /\ forgotten' = forgotten + loss + queueLost - diskLoss + Cardinality(Before(S, x))
                          + Len(outgoing) - Cardinality(S \ stored)
    /\ loss' = diskLoss /\ queueLost' = 0 /\ reported' = 0
    /\ outgoing' = <<>> /\ writer' = "idle"
    /\ uploader' = "starting" /\ forced' = FALSE /\ todo' = <<>> /\ due' = FALSE
    /\ stray' = stray \cup (IF request.step \in {"check", "insert", "record"} THEN {request} ELSE {})
    /\ request' = NoRequest
    /\ manager' = "down" /\ opened' = Unopened
    /\ UNCHANGED <<spoolConfig, made, damaged, wait, attempts, life, diskLoss, controller>>

\* Open reads the report; one it cannot decode is put aside and counting
\* starts again.
Restart ==
    /\ manager = "down"
    /\ \/ loss' = diskLoss /\ UNCHANGED <<diskLoss, forgotten, spoolBudget>>
       \/ /\ Mishap
          /\ loss' = 0 /\ diskLoss' = 0 /\ forgotten' = forgotten + diskLoss
    /\ manager' = "running"
    /\ UNCHANGED <<spoolConfig, made, outgoing, stored, damaged, wait, attempts, life, queueLost, reported,
                   writer, upload, opened, controller>>

UploaderStep == StartDrain(FALSE) \/ StartDrain(TRUE) \/ Upload \/ CutDrain \/ Acknowledge \/ UploadFails \/ FinishDrain

SpoolNext ==
    \/ Enqueue \/ WriteBatch \/ WriterRefresh
    \/ StartDrain(FALSE) \/ StartDrain(TRUE) \/ Upload \/ CutDrain \/ Acknowledge \/ UploadFails \/ FinishDrain
    \/ Ingest \/ IngestStray
    \/ TickSpool \/ DamageFile
    \/ OpenNext \/ RejectNext \/ StopManager \/ Handover \/ CrashSensor \/ Restart

\* The two loops run as long as the process does, time passes, the controller
\* gets on with a request it has, and the process is started again.
SpoolFairness ==
    /\ WF_spoolVars(WriteBatch) /\ WF_spoolVars(WriterRefresh)
    /\ WF_spoolVars(UploaderStep)
    /\ WF_spoolVars(Ingest)
    /\ WF_spoolVars(TickSpool)
    /\ WF_spoolVars(Handover) /\ WF_spoolVars(Restart)

SpoolSpec == SpoolInit /\ [][SpoolNext]_spoolVars /\ SpoolFairness

----------------------------------------------------------------------------
(* Properties.                                                             *)

SpoolTypeOK ==
    /\ expiry \in BOOLEAN /\ poison \subseteq BatchIds /\ largest \in Nat
    /\ made \in 0 .. NumBatches
    /\ outgoing \in BoundedSeq(BatchIds, BatchQueueSize)
    /\ stored \subseteq 1 .. made /\ damaged \subseteq 1 .. made /\ stored \cap damaged = {}
    /\ wait \in [BatchIds -> 0 .. 2 ^ MaxShift]
    /\ attempts \in [BatchIds -> 0 .. MaxShift + 1]
    /\ life \in [BatchIds -> 0 .. MaxLife]
    /\ loss \in Nat /\ diskLoss \in Nat /\ queueLost \in Nat /\ reported \in Nat /\ forgotten \in Int
    /\ writer \in {"idle", "refresh"}
    /\ uploader \in {"starting", "idle", "draining", "done"}
    /\ forced \in BOOLEAN /\ due \in BOOLEAN
    /\ todo \in BoundedSeq(BatchIds, NumBatches)
    /\ request \in [batch : BatchIds, step : Steps] \cup {NoRequest}
    /\ stray \subseteq [batch : BatchIds, step : {"check", "insert", "record"}]
    /\ manager \in {"running", "stopping", "down"}
    /\ opened \in 0 .. NumBatches \cup {Unopened}
    /\ ledger \subseteq BatchIds /\ rows \in [BatchIds -> 0 .. 2]

\* The batches that are neither on the sensor nor at the controller.
Missing == {b \in 1 .. made : b \notin Range(outgoing) \cup stored \cup damaged /\ rows[b] = 0}

\* Every batch that is gone without having reached the controller is counted,
\* in the spool's loss or in the queue's, as long as the process that saw it
\* go lives: evictions, a full queue, refused and failed writes, damaged files
\* and acknowledgements (enforce, Enqueue, write, quarantineCorrupt, drain).
EveryBatchAccounted == Cardinality(Missing) <= loss + queueLost + forgotten

\* A spool no file operation failed on never holds more than its limit from
\* the first drain on, for any order of puts, retries, acknowledgements and
\* whatever a crash left behind (enforce).
SpoolWithinLimit ==
    spoolFaults = 0 /\ manager = "running" /\ uploader # "starting" => TotalBytes(stored) <= SpoolBytes

\* The ledger, which makes the controller answer "duplicate" and the sensor
\* delete its file, names only batches whose records are stored
\* (ClickHouseFlowStore.ingest_batch).
LedgerAfterRecords == \A b \in ledger : rows[b] > 0

\* What the spool, its manager and the ingestion keep together: no batch goes missing
\* uncounted, the limit holds, and what the controller calls a duplicate is stored.
SpoolIsSound == SpoolTypeOK /\ EveryBatchAccounted /\ SpoolWithinLimit /\ LedgerAfterRecords
=============================================================================
