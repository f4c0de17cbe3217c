------------------------------ MODULE LiveJobs ------------------------------
(***************************************************************************)
(* A LIVE analysis job from its creation to its result: the request that   *)
(* creates it, the sensors that poll for it, capture their share and       *)
(* report in heartbeats that they have reached it, the loop that ends due  *)
(* captures and enqueues their analysis, and a client that cancels.        *)
(*                                                                         *)
(* Each of them reads the job's metadata, edits its copy and writes all of *)
(* it back; only the terminal writes look at what is stored.  The flows to *)
(* analyse are stored apart, and metadata written late leaves them alone.  *)
(*                                                                         *)
(* In local mode (LocalAnalysisRuntime) the accepted flows and the queue   *)
(* are in the controller's memory and are lost when it stops; otherwise    *)
(* they are in ClickHouse and Redis.                                       *)
(***************************************************************************)
EXTENDS Integers, Sequences, FiniteSets, FiniteSetsExt

CONSTANTS
    Probes,         \* the selected sensors, numbered in the order of their ids
    PacketLimits,   \* capture.max_packets: the limits to check
    EndTime,        \* end_time as requested
    Grace,          \* flow_ingestion_grace_seconds
    LocalModes,     \* the modes to check: TRUE is the local one
    Horizon,        \* bound: the last moment
    MaxMade,        \* bound: flows that one sensor makes
    MaxReplaced,    \* bound: capture groups replaced for other reasons
    MaxRestarts     \* bound: crashes of the controller

ASSUME LiveConstants ==
    /\ Probes \subseteq Nat \ {0} /\ IsFiniteSet(Probes) /\ Probes # {}
    /\ PacketLimits \subseteq Nat \ {0} /\ LocalModes \subseteq BOOLEAN
    /\ {EndTime, Grace, Horizon, MaxMade, MaxReplaced, MaxRestarts} \subseteq Nat
    /\ Horizon >= EndTime + Grace

VARIABLES
    setup,      \* the mode and the packet limit
    clock,
    meta,       \* the job's metadata, or NoLive
    saved,      \* the flows saved with the job, and accepted ones that they lack
    creator,    \* create_analysis_job: its step
    beats,      \* for each sensor, its heartbeat that reports a completion
    canceller,  \* cancel_analysis_job: its step and copy
    dueLoop,    \* process_due_live_jobs_once: its step and copies
    publisher,  \* persist_claimed_result: its step, copy and result
    probes,     \* what each sensor does for the job
    filled,   \* sensors that have ever reached their share
    fullAt,     \* when the last participant did
    kept,       \* flows in the flow store
    accepted,   \* flows ever answered with 202
    desk,       \* the analysis queue, and LocalAnalysisRuntime
    liveMishaps

job == <<meta, saved>>
handlers == <<creator, beats, canceller>>
loops == <<dueLoop, publisher>>
field == <<probes, filled, fullAt>>
flows == <<kept, accepted>>
liveVars == <<setup, clock, job, handlers, loops, field, flows, desk, liveMishaps>>

NoLive == [status |-> "none"]
NoCopy == [pc |-> "idle"]
Done == [pc |-> "done"]

TerminalStates == {"COMPLETED", "FAILED", "CANCELLED"}
ActiveStates == {"CAPTURING", "UPLOADING"}

\* allocate_sensor_limit: the share of a sensor; the first ones get the remainder.
AllocateSensorLimit(s) ==
    LET n == Cardinality(Probes)
        index == Cardinality({t \in Probes : t < s})
    IN  (setup.limit \div n) + IF index < setup.limit % n THEN 1 ELSE 0

\* capture_participant_sensor_ids
Participants == {s \in Probes : AllocateSensorLimit(s) # 0}

LiveInit ==
    /\ setup \in [local : LocalModes, limit : PacketLimits]
    /\ clock = 0
    /\ meta = NoLive
    /\ saved = [records |-> {}, missing |-> {}]
    /\ creator = "new"
    /\ beats = [s \in Probes |-> NoCopy]
    /\ canceller = NoCopy /\ dueLoop = NoCopy /\ publisher = NoCopy
    /\ probes = [s \in Probes |-> [st |-> "idle", taken |-> 0, made |-> 0, spool |-> {}]]
    /\ filled = {} /\ fullAt = Horizon
    /\ kept = {} /\ accepted = {}
    /\ desk = [up |-> TRUE, queue |-> 0, bridge |-> FALSE, results |-> <<>>, pending |-> "none",
               inflight |-> FALSE, recovery |-> FALSE]
    /\ liveMishaps = [replaced |-> 0, restarts |-> 0]

Tick ==
    /\ clock < Horizon
    /\ clock' = clock + 1
    /\ UNCHANGED <<setup, job, handlers, loops, field, flows, desk, liveMishaps>>

-----------------------------------------------------------------------------
(* Requests.                                                               *)

NewLive(status) == [status |-> status, end |-> EndTime, completions |-> {}]

\* create_job: the document and its idempotency key in one transaction.
CreateJob ==
    /\ desk.up /\ creator = "new"
    /\ meta' = NewLive("CREATED")
    /\ creator' = "created"
    /\ UNCHANGED <<setup, clock, saved, beats, canceller, loops, field, flows, desk, liveMishaps>>

\* begin_live_capture, in the same request, writes the metadata again.
BeginLiveCapture ==
    /\ creator = "created"
    /\ meta' = NewLive("CAPTURING")
    /\ creator' = "done"
    /\ UNCHANGED <<setup, clock, saved, beats, canceller, loops, field, flows, desk, liveMishaps>>

\* record_capture_completions reads the job that a heartbeat reports ...
ReadCompletion(s) ==
    /\ desk.up /\ beats[s] = NoCopy
    /\ probes[s].st = "full" /\ s \in Participants
    /\ meta.status = "CAPTURING" /\ clock + Grace <= Horizon
    /\ beats' = [beats EXCEPT ![s] = [pc |-> "read", doc |-> meta, now |-> clock]]
    /\ UNCHANGED <<setup, clock, job, creator, canceller, loops, field, flows, desk, liveMishaps>>

\* A mutant: the capture stops at the first report.
RecordedTooSoon(doc, s, now) == [doc EXCEPT !.completions = @ \cup {s}, !.status = "UPLOADING", !.end = now]

\* ... adds the sensor, stops the capture when that makes all participants ...
Recorded(doc, s, now) ==
    LET all == doc.completions \cup {s} IN
    IF Participants \subseteq all THEN [doc EXCEPT !.completions = all, !.status = "UPLOADING", !.end = now]
    ELSE [doc EXCEPT !.completions = all]

\* ... and writes the metadata, whatever has become of them.
WriteCompletion(s) ==
    /\ beats[s] # NoCopy
    /\ meta' = Recorded(beats[s].doc, s, beats[s].now)
    /\ beats' = [beats EXCEPT ![s] = NoCopy]
    /\ UNCHANGED <<setup, clock, saved, creator, canceller, loops, field, flows, desk, liveMishaps>>

\* cancel_analysis_job reads the job ...
ReadCancel ==
    /\ desk.up /\ canceller = NoCopy
    /\ meta.status \notin TerminalStates \cup {"none"}
    /\ canceller' = [pc |-> "read", doc |-> meta]
    /\ UNCHANGED <<setup, clock, job, creator, beats, loops, field, flows, desk, liveMishaps>>

\* A terminal write replaces metadata that are not terminal.
EndWith(doc, status) == meta' = IF meta.status \in TerminalStates THEN meta ELSE [doc EXCEPT !.status = status]

\* ... and ends it.
WriteCancel ==
    /\ canceller.pc = "read"
    /\ EndWith(canceller.doc, "CANCELLED")
    /\ canceller' = Done
    /\ UNCHANGED <<setup, clock, saved, creator, beats, loops, field, flows, desk, liveMishaps>>

-----------------------------------------------------------------------------
(* The loop that ends captures.  It runs in turn with the publication of   *)
(* results, in consume_results and in LocalAnalysisRuntime.run.            *)

Coordinating == desk.up /\ dueLoop = NoCopy /\ publisher = NoCopy

\* A mutant: captures that nothing has stopped are not listed.
ListActiveUploading == meta.status = "UPLOADING"

\* list_active_live_jobs
ListActiveLiveJobs == meta.status \in ActiveStates

\* process_due_live_jobs_once goes through the active jobs that are due ...
DueLists ==
    /\ Coordinating
    /\ ListActiveLiveJobs /\ meta.end <= clock
    /\ dueLoop' = [pc |-> "listed", status |-> meta.status, end |-> meta.end, now |-> clock]
    /\ UNCHANGED <<setup, clock, job, handlers, publisher, field, flows, desk, liveMishaps>>

GracePassed(end, now) == end + Grace <= now

\* ... reads each again, and passes over it when its status has changed, or when its
\* flows may still be under way ...
DueReads ==
    /\ dueLoop.pc = "listed"
    /\ dueLoop' = IF meta.status # dueLoop.status THEN NoCopy
                  ELSE IF meta.status = "CAPTURING" THEN [pc |-> "ending", doc |-> meta]
                  ELSE IF GracePassed(dueLoop.end, dueLoop.now) THEN [pc |-> "waited", doc |-> meta]
                  ELSE NoCopy
    /\ UNCHANGED <<setup, clock, job, handlers, publisher, field, flows, desk, liveMishaps>>

\* ... ends its capture ...
DueEnds ==
    /\ dueLoop.pc = "ending"
    /\ meta' = [dueLoop.doc EXCEPT !.status = "UPLOADING"]
    /\ dueLoop' = NoCopy
    /\ UNCHANGED <<setup, clock, saved, handlers, publisher, field, flows, desk, liveMishaps>>

\* apply_job_packet_limit: no more packets than the limit.
Limited(S) == IF Cardinality(S) <= setup.limit THEN {S} ELSE kSubset(setup.limit, S)

\* ... or, in enqueue_analysis, takes the flows of its window ...
DueSnapshots ==
    /\ dueLoop.pc = "waited"
    /\ LET inside(S) == {f \in S : f.at <= dueLoop.doc.end} IN
       \E D \in Limited(inside(kept)) :
           dueLoop' = [pc |-> "taken", doc |-> [dueLoop.doc EXCEPT !.status = "ANALYZING"], records |-> D,
                       missing |-> IF Cardinality(D) < setup.limit THEN inside(accepted) \ D ELSE {}]
    /\ UNCHANGED <<setup, clock, job, handlers, publisher, field, flows, desk, liveMishaps>>

\* ... saves them with the job (save_job) ...
DueSaves ==
    /\ dueLoop.pc = "taken"
    /\ meta' = dueLoop.doc
    /\ saved' = [records |-> dueLoop.records, missing |-> dueLoop.missing]
    /\ dueLoop' = [pc |-> "saved"]
    /\ UNCHANGED <<setup, clock, handlers, publisher, field, flows, desk, liveMishaps>>

\* ... and hands the job to the workers.
DuePushes ==
    /\ dueLoop.pc = "saved"
    /\ dueLoop' = NoCopy
    /\ desk' = [desk EXCEPT !.queue = @ + 1]
    /\ UNCHANGED <<setup, clock, job, handlers, publisher, field, flows, liveMishaps>>

-----------------------------------------------------------------------------
(* The sensors.                                                            *)

\* active_capture_jobs gives the job to the sensor, and its window is open.
Wanted(s) == meta.status = "CAPTURING" /\ s \in Participants /\ clock < meta.end

\* A mutant: a job that is no longer wanted is kept.
PollAdds(s) ==
    /\ desk.up
    /\ Wanted(s) /\ probes[s].st = "idle"
    /\ probes' = [probes EXCEPT ![s].st = "capturing", ![s].taken = 0]
    /\ UNCHANGED <<setup, clock, job, handlers, loops, filled, fullAt, flows, desk, liveMishaps>>

\* controlLoop: the jobs are not those of the current group, which is replaced.
PollConfig(s) ==
    /\ desk.up
    /\ Wanted(s) <=> probes[s].st = "idle"
    /\ probes' = [probes EXCEPT ![s].st = IF Wanted(s) THEN "capturing" ELSE "idle", ![s].taken = 0]
    /\ UNCHANGED <<setup, clock, job, handlers, loops, filled, fullAt, flows, desk, liveMishaps>>

\* The group is replaced for another reason: a new budget, and no completions.
ReplaceGroup(s) ==
    /\ probes[s].st # "idle" /\ liveMishaps.replaced < MaxReplaced
    /\ probes' = [probes EXCEPT ![s].st = "capturing", ![s].taken = 0]
    /\ liveMishaps' = [liveMishaps EXCEPT !.replaced = @ + 1]
    /\ UNCHANGED <<setup, clock, job, handlers, loops, filled, fullAt, flows, desk>>

\* CaptureBudget.Reserve: this packet is the last one.
Full(taken, s) == taken = AllocateSensorLimit(s)

\* A packet becomes a flow to upload; the last one of the share completes the job.
CaptureFlow(s) ==
    /\ probes[s].st = "capturing" /\ clock < EndTime /\ probes[s].made < MaxMade
    /\ LET x == probes[s]
           full == Full(x.taken + 1, s)
           all == IF full THEN filled \cup {s} ELSE filled
       IN  /\ probes' = [probes EXCEPT ![s] =
                  [st |-> IF full THEN "full" ELSE "capturing", taken |-> x.taken + 1, made |-> x.made + 1,
                   spool |-> x.spool \cup {[probe |-> s, n |-> x.made, at |-> clock]}]]
           /\ filled' = all
           /\ fullAt' = IF Participants \subseteq all /\ filled # all THEN clock ELSE fullAt
    /\ UNCHANGED <<setup, clock, job, handlers, loops, flows, desk, liveMishaps>>

\* ingest_flow_batch: the spooled flows are stored.
UploadFlows(s) ==
    /\ desk.up /\ probes[s].spool # {}
    /\ kept' = kept \cup probes[s].spool
    /\ accepted' = accepted \cup probes[s].spool
    /\ probes' = [probes EXCEPT ![s].spool = {}]
    /\ UNCHANGED <<setup, clock, job, handlers, loops, filled, fullAt, desk, liveMishaps>>

-----------------------------------------------------------------------------
(* The analysis.                                                           *)

\* persist_claimed_result drops what comes after the end, and what the machine of job
\* states forbids is refused, to be tried again ...
MayPublish(result) == result = "COMPLETED" => meta.status \in TerminalStates \cup {"ANALYZING"}

\* consume_results: a result of the workers, which stays in Redis until it is stored.
ClaimResult ==
    /\ Coordinating /\ ~setup.local /\ desk.queue > 0
    /\ \E result \in {"COMPLETED", "FAILED"} :
           /\ MayPublish(result)
           /\ publisher' = [pc |-> "read", doc |-> meta, result |-> result]
    /\ UNCHANGED <<setup, clock, job, handlers, dueLoop, field, flows, desk, liveMishaps>>

\* LocalAnalysisRuntime.run: a result of the worker's thread ...
TakeResult ==
    /\ Coordinating /\ setup.local /\ desk.pending = "none" /\ desk.results # <<>>
    /\ desk' = [desk EXCEPT !.pending = Head(desk.results), !.results = Tail(@)]
    /\ UNCHANGED <<setup, clock, job, handlers, loops, field, flows, liveMishaps>>

\* ... which stays pending until it is published ...
ReadPending ==
    /\ Coordinating /\ setup.local /\ desk.pending # "none" /\ MayPublish(desk.pending)
    /\ publisher' = [pc |-> "read", doc |-> meta, result |-> desk.pending]
    /\ UNCHANGED <<setup, clock, job, handlers, dueLoop, field, flows, desk, liveMishaps>>

\* ... with the copy just read.  An event says that the analysis has begun: nothing
\* that a live job keeps.
PublishResult ==
    /\ publisher.pc = "read"
    /\ IF publisher.result = "EVENT" THEN meta' = meta ELSE EndWith(publisher.doc, publisher.result)
    /\ publisher' = NoCopy
    /\ desk' = IF setup.local THEN [desk EXCEPT !.pending = "none", !.inflight = publisher.result = "EVENT"]
               ELSE [desk EXCEPT !.queue = @ - 1]
    /\ UNCHANGED <<setup, clock, saved, handlers, dueLoop, field, flows, liveMishaps>>

\* recover_one: an analysis that a restart has interrupted is enqueued again, with the
\* flows that were saved.
RecoverOne ==
    /\ Coordinating /\ ~desk.inflight /\ desk.pending = "none" /\ desk.recovery
    /\ desk' = [desk EXCEPT !.recovery = FALSE, !.queue = IF meta.status = "ANALYZING" THEN @ + 1 ELSE @]
    /\ UNCHANGED <<setup, clock, job, handlers, loops, field, flows, liveMishaps>>

MayDispatch == ~desk.inflight

\* The next job goes to the worker, if it still is to be analysed.
Dispatch ==
    /\ Coordinating /\ setup.local /\ MayDispatch /\ desk.queue > 0
    /\ desk' = IF meta.status = "ANALYZING" THEN [desk EXCEPT !.queue = @ - 1, !.bridge = TRUE, !.inflight = TRUE]
               ELSE [desk EXCEPT !.queue = @ - 1]
    /\ UNCHANGED <<setup, clock, job, handlers, loops, field, flows, liveMishaps>>

\* The thread announces the analysis, runs it and hands in the result.
LocalWorker ==
    /\ desk.up /\ desk.bridge
    /\ \E result \in {"COMPLETED", "FAILED"} :
           desk' = [desk EXCEPT !.bridge = FALSE, !.results = @ \o <<"EVENT", result>>]
    /\ UNCHANGED <<setup, clock, job, handlers, loops, field, flows, liveMishaps>>

-----------------------------------------------------------------------------
(* Restarts.                                                               *)

\* The controller's process ends.
CrashController ==
    /\ desk.up /\ liveMishaps.restarts < MaxRestarts
    /\ liveMishaps' = [liveMishaps EXCEPT !.restarts = @ + 1]
    /\ creator' = IF creator = "new" THEN "new" ELSE "done"
    /\ beats' = [s \in Probes |-> NoCopy]
    /\ canceller' = IF canceller = NoCopy THEN NoCopy ELSE Done
    /\ dueLoop' = NoCopy /\ publisher' = NoCopy
    /\ kept' = IF setup.local THEN {} ELSE kept
    /\ desk' = [up |-> FALSE, queue |-> IF setup.local THEN 0 ELSE desk.queue, bridge |-> FALSE, results |-> <<>>,
                pending |-> "none", inflight |-> FALSE, recovery |-> FALSE]
    /\ UNCHANGED <<setup, clock, job, field, accepted>>

\* A mutant: captures go on although their flows are lost.
RestartForgiving ==
    /\ ~desk.up
    /\ desk' = [desk EXCEPT !.up = TRUE, !.recovery = setup.local /\ meta.status = "ANALYZING"]
    /\ UNCHANGED <<setup, clock, job, handlers, loops, field, flows, liveMishaps>>

\* A mutant: analyses under way are not taken up again.
RestartForgetful ==
    /\ ~desk.up
    /\ desk' = [desk EXCEPT !.up = TRUE]
    /\ meta' = IF setup.local /\ meta.status \in ActiveStates THEN [meta EXCEPT !.status = "FAILED"] ELSE meta
    /\ UNCHANGED <<setup, clock, saved, handlers, loops, field, flows, liveMishaps>>

\* recover_volatile_captures fails the captures whose flows were in memory, and
\* LocalAnalysisRuntime.start notes the analyses that were under way.
RestartController ==
    /\ ~desk.up
    /\ desk' = [desk EXCEPT !.up = TRUE, !.recovery = setup.local /\ meta.status = "ANALYZING"]
    /\ meta' = IF setup.local /\ meta.status \in ActiveStates THEN [meta EXCEPT !.status = "FAILED"] ELSE meta
    /\ UNCHANGED <<setup, clock, saved, handlers, loops, field, flows, liveMishaps>>

-----------------------------------------------------------------------------
DueStep == DueLists \/ DueReads \/ DueEnds \/ DueSnapshots \/ DueSaves \/ DuePushes

AnalysisStep == ClaimResult \/ TakeResult \/ ReadPending \/ PublishResult \/ RecoverOne \/ Dispatch

LiveNext ==
    \/ Tick \/ CreateJob \/ BeginLiveCapture \/ ReadCancel \/ WriteCancel
    \/ DueStep \/ AnalysisStep \/ LocalWorker \/ CrashController \/ RestartController
    \/ \E s \in Probes : ReadCompletion(s) \/ WriteCompletion(s) \/ PollConfig(s) \/ ReplaceGroup(s)
                         \/ CaptureFlow(s) \/ UploadFlows(s)

LiveSpec == LiveInit /\ [][LiveNext]_liveVars

\* Time passes, requests that were begun are finished, the loop takes its turns, the
\* sensors poll, and a controller that stops is started again.  Nobody has to capture,
\* to report or to cancel.
LiveFairness ==
    /\ WF_liveVars(Tick) /\ WF_liveVars(BeginLiveCapture) /\ WF_liveVars(WriteCancel)
    /\ WF_liveVars(RestartController) /\ WF_liveVars(LocalWorker)
    /\ SF_liveVars(DueStep) /\ SF_liveVars(AnalysisStep)
    /\ \A s \in Probes : WF_liveVars(WriteCompletion(s)) /\ SF_liveVars(PollConfig(s))

-----------------------------------------------------------------------------
(* Properties.                                                             *)

\* The type of every variable.
LiveTypeOK ==
    /\ clock \in 0 .. Horizon /\ fullAt \in 0 .. Horizon
    /\ meta.status \in {"none", "CREATED", "ANALYZING"} \cup ActiveStates \cup TerminalStates
    /\ creator \in {"new", "created", "done"}
    /\ dueLoop.pc \in {"idle", "listed", "ending", "waited", "taken", "saved"}
    /\ \A s \in Probes : probes[s].st \in {"idle", "capturing", "full"} /\ probes[s].taken <= AllocateSensorLimit(s)
    /\ filled \subseteq Probes /\ kept \subseteq accepted
    /\ desk.queue \in Nat /\ desk.pending \in {"none", "EVENT", "COMPLETED", "FAILED"}

\* When every participant has reached its share, together they have captured as many
\* packets as were asked for: no packet of the limit is lost to the division, and a
\* sensor whose share is nothing does not hold the job open.
SharesMakeUpTheLimit ==
    filled # {} /\ Participants \subseteq filled =>
        MapThenSumSet(LAMBDA s : probes[s].made, Probes) >= setup.limit

\* A capture is stopped only when its time has come or every participant has reached
\* its share, also when heartbeats overwrite each other, and an analysis is enqueued
\* only when the grace period has passed since then.
StopsOnlyWhenDue ==
    [][/\ meta.status = "CAPTURING" /\ meta'.status = "UPLOADING" =>
              clock >= EndTime \/ Participants \subseteq filled
       /\ desk'.queue > desk.queue => clock >= Grace + Min({EndTime, fullAt})]_liveVars

\* No analysis gets more packets than the limit, although a sensor that starts over
\* gets a new budget.
DatasetWithinLimit == Cardinality(saved.records) <= setup.limit

\* An analysis lacks no flow that was accepted before it, unless the limit is reached:
\* when a restart has lost flows, the capture has failed instead.
DatasetIsWhole == meta.status \in {"ANALYZING", "COMPLETED"} => saved.missing = {}

\* LocalWorkerQueue: the worker's two messages always find room, which they are not
\* given time to wait for.
ResultsFit == Len(desk.results) <= 2

\* What an analysis of a live capture gets: all of what was asked for and accepted, no
\* more than the limit, through a queue that has room for its results.
DatasetIsRight ==
    LiveTypeOK /\ SharesMakeUpTheLimit /\ DatasetWithinLimit /\ DatasetIsWhole /\ ResultsFit
=============================================================================
