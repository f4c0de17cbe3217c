----------------------------- MODULE MCProgress ------------------------------
(***************************************************************************)
(* What must happen in the end, for the components of MCSensor, of         *)
(* MCController and of MCStores and for the exports, on smaller instances. *)
(* A behaviour is about one of them, its focus.                            *)
(***************************************************************************)
EXTENDS SensorSpool, PcapArchive, CaptureSupervisor, PcapIndex, LeasedQueue, BaselineTransport, AIRuns, LiveJobs

CONSTANT Foci   \* the components to check

VARIABLES focus, cast

\* Two workers and one export, of a live job with slow uploads; no crash.
VARIABLES scene, parent, source, row, doc, outbox, exported, thr, downs, errors

exportVars == <<scene, parent, source, row, doc, outbox, exported, thr, downs, errors>>

Export == INSTANCE ExportStore WITH
    Exports <- {"a"}, Synchronous <- {}, Workers <- {"w1", "w2"}, Deleter <- "deleter", MaxAttempts <- 2,
    Modes <- {[live |-> TRUE, slow |-> TRUE]}, SweepParses <- TRUE, MaxGeneration <- 0, MaxCrashes <- 0,
    MaxErrors <- 2, mode <- scene, blobs <- exported, crashes <- downs

\* Old batches expire, one is refused for ever, or an upload fails.
SpoolCast == expiry \/ poison # {} => spoolFaults' = 0

\* Unique messages, and crashes anywhere but between the pop and the lease.
Unique == {[copies |-> 1, crash |-> {"recovering", "holding"}]}

SomeCalls == {<<"preview", 1>>, <<"approve", 1>>, <<"plain", 1>>}

\* Two workers and an early expiry, or one worker that crashes or loses a commit; no
\* reviewer.
AICasts ==
    {[kinds |-> {"plain", "report"}, hands |-> 2, faults |-> 0, expiries |-> 1, crashes |-> 0],
     [kinds |-> {"historical"}, hands |-> 2, faults |-> 0, expiries |-> 1, crashes |-> 0],
     [kinds |-> {"plain", "historical"}, hands |-> 1, faults |-> 1, expiries |-> 0, crashes |-> 1]}

AICast ==
    /\ \A k \in RunKeys : airuns[k] = NoRun /\ airuns'[k] # NoRun => airuns'[k].kind \in cast.kinds
    /\ aiMishaps'.faults <= cast.faults /\ aiMishaps'.expiries <= cast.expiries
    /\ aiMishaps'.crashes <= cast.crashes
    /\ Cardinality({w \in AIWorkers : executor'[w] # Idling}) <= cast.hands
    /\ revision' = 1 /\ \A d \in drafts' : d.n = 0

\* No snapshots.
CaptureCast == snap' = snap

\* A local controller that restarts; one that does not, and a client that cancels; two
\* sensors that report, and flows that are not uploaded.
LiveCasts ==
    {[local |-> TRUE, limit |-> 1, restarts |-> 1, cancels |-> FALSE],
     [local |-> FALSE, limit |-> 1, restarts |-> 0, cancels |-> TRUE],
     [local |-> FALSE, limit |-> 2, restarts |-> 0, cancels |-> FALSE]}

LiveCast ==
    /\ liveMishaps'.restarts <= cast.restarts
    /\ cast.cancels \/ canceller' = canceller
    /\ cast.limit = 1 \/ kept' = kept

Casts == CASE focus = "ai" -> AICasts
           [] focus = "live" -> LiveCasts
           [] OTHER -> {<<>>}

ProgressInit ==
    /\ focus \in Foci
    /\ cast \in Casts
    /\ SpoolInit
    /\ focus # "spool" => ~expiry /\ poison = CHOOSE S \in PoisonSets : TRUE
    /\ expiry => poison = {}
    /\ ArchiveInit /\ SupervisorInit /\ PcapIndexInit /\ Init /\ TransportInit /\ AIInit
    /\ LiveInit
    /\ setup = IF focus = "live" THEN [local |-> cast.local, limit |-> cast.limit]
               ELSE CHOOSE x \in [local : LocalModes, limit : PacketLimits] : TRUE
    /\ Export!Init

OthersRest ==
    /\ focus # "spool" => UNCHANGED spoolVars
    /\ focus # "pcap" => UNCHANGED archiveVars
    /\ focus # "capture" => UNCHANGED supervisorVars
    /\ focus # "index" => UNCHANGED indexVars
    /\ focus # "queue" => UNCHANGED vars
    /\ focus # "transport" => UNCHANGED transportVars
    /\ focus # "ai" => UNCHANGED aiVars
    /\ focus # "live" => UNCHANGED liveVars
    /\ focus # "export" => UNCHANGED exportVars
    /\ UNCHANGED <<focus, cast>>

ProgressNext ==
    /\ \/ focus = "spool" /\ SpoolNext /\ SpoolCast
       \/ focus = "pcap" /\ ArchiveNext
       \/ focus = "capture" /\ SupervisorNext /\ CaptureCast
       \/ focus = "index" /\ PcapIndexNext
       \/ focus = "queue" /\ Next
       \/ focus = "transport" /\ TransportNext
       \/ focus = "ai" /\ AINext /\ AICast
       \/ focus = "live" /\ LiveNext /\ LiveCast
       \/ focus = "export" /\ Export!Next
    /\ OthersRest

progressVars == <<focus, cast, spoolVars, archiveVars, supervisorVars, indexVars, vars, transportVars, aiVars,
                  liveVars, exportVars>>

-----------------------------------------------------------------------------
(* Fairness, as the components state it.  A behaviour is about one of them *)
(* only, so that weak fairness of an action of one and of an action of     *)
(* another is weak fairness of their disjunction: the n-th duty.           *)

Nth(s, n) == {s[i] : i \in {n} \cap DOMAIN s}

PcapWriterSeq == SetToSeq(PcapWriters)
LineSeq == SetToSeq(Gens \X Lines)
SegmentSeq == SetToSeq(Segments)
SourceSeq == SetToSeq(CaptureSources)
BuildSeq == SetToSeq(CaptureSources \X BuildNumbers)
IndexWorkerSeq == SetToSeq(IndexWorkers)
PostingWorkerSeq == SetToSeq(PostingWorkers)
ConsumerSeq == SetToSeq(Consumers)
MessageSeq == SetToSeq(Messages)
CallSeq == SetToSeq(Invocations)
AIWorkerSeq == SetToSeq(AIWorkers)
RunSeq == SetToSeq(RunKeys)
ProbeSeq == SetToSeq(Probes)
ExportThreads == <<"w1", "w2", "deleter">>

SpoolDuty(n) ==
    \/ n = 1 /\ WriteBatch
    \/ n = 2 /\ WriterRefresh
    \/ n = 3 /\ UploaderStep
    \/ n = 4 /\ Ingest
    \/ n = 5 /\ TickSpool
    \/ n = 6 /\ Handover
    \/ n = 7 /\ Restart

ArchiveDuty(n) ==
    \/ n = 1 /\ WritersDone
    \/ n = 2 /\ StartGroup
    \/ n = 3 /\ ArchiveDone
    \/ n = 4 /\ ClaimSegment
    \/ n = 5 /\ ReceiveAnswer
    \/ n = 6 /\ \E r \in puts : CheckUpload(r)
    \/ n = 7 /\ \E r \in puts : PutBlob(r)
    \/ n = 8 /\ \E r \in puts : CommitUpload(r)
    \/ \E w \in Nth(PcapWriterSeq, n - 8) : WriterStep(w)

SupervisorDuty(n) ==
    \/ n = 1 /\ Poll
    \/ n = 2 /\ ApplyStep
    \/ n = 3 /\ RunStep
    \/ n - 3 \in Gens /\ GroupStep(n - 3)
    \/ \E x \in Nth(LineSeq, n - 3 - MaxGens) : LineStep(x[1], x[2])

IndexDuty(n) ==
    \/ \E s \in Nth(SegmentSeq, n) : admit_live_segment_index(s)
    \/ \E s \in Nth(SegmentSeq, n - 1) : recover_live_segment_indexes(s)
    \/ \E s \in Nth(SegmentSeq, n - 2) : TickLive(s)
    \/ \E s \in Nth(SegmentSeq, n - 3), w \in IndexWorkers : claim_live_segment_index(w, s)
    \/ \E s \in Nth(SourceSeq, n - 4) : reconcile_posting_indexes(s)
    \/ \E s \in Nth(SourceSeq, n - 5) : recover_posting_indexes(s)
    \/ \E s \in Nth(SourceSeq, n - 6) : cleanup_stale_posting_indexes(s)
    \/ \E s \in Nth(SourceSeq, n - 7) : TickPosting(s)
    \/ \E s \in Nth(SourceSeq, n - 8), p \in PostingWorkers : claim_posting_index(p, s)
    \/ \E w \in Nth(IndexWorkerSeq, n - 9) : WorkerStep(w)
    \/ \E p \in Nth(PostingWorkerSeq, n - 10) : PosterStep(p)
    \/ \E x \in Nth(BuildSeq, n - 11) : cleanup_stale_structural_indexes(x[1], x[2])
    \/ n = 14 /\ "live" \in fatal /\ RestartLive
    \/ n = 15 /\ "posting" \in fatal /\ RestartPosting

QueueDuty(n) ==
    \/ \E c \in Nth(ConsumerSeq, n) : ConsumerStep(c)
    \/ \E m \in Nth(MessageSeq, n - 2) : Expire(m) /\ ~ \E c \in Consumers : Holds(c, m)

TransportDuty(n) ==
    \/ \E i \in Nth(CallSeq, n) : ThreadStep(i)
    \/ n = 4 /\ Drained

AIDuty(n) ==
    \/ \E w \in Nth(AIWorkerSeq, n) : ExecutorStep(w)
    \/ \E k \in Nth(RunSeq, n - 2) : recover(k)

LiveDuty(n) ==
    \/ n = 1 /\ Tick
    \/ n = 2 /\ BeginLiveCapture
    \/ n = 3 /\ WriteCancel
    \/ n = 4 /\ RestartController
    \/ n = 5 /\ LocalWorker
    \/ \E s \in Nth(ProbeSeq, n - 5) : WriteCompletion(s)

ExportDuty(n) ==
    \/ \E t \in Nth(ExportThreads, n) : Export!Attempting(t)
    \/ \E t \in Nth(ExportThreads, n - 3) : Export!Maintaining(t)
    \/ n = 7 /\ Export!Expire("a")

Duty(n) ==
    /\ \/ focus = "spool" /\ SpoolDuty(n) /\ SpoolCast
       \/ focus = "pcap" /\ ArchiveDuty(n)
       \/ focus = "capture" /\ SupervisorDuty(n) /\ CaptureCast
       \/ focus = "index" /\ IndexDuty(n)
       \/ focus = "queue" /\ QueueDuty(n)
       \/ focus = "transport" /\ TransportDuty(n)
       \/ focus = "ai" /\ AIDuty(n) /\ AICast
       \/ focus = "live" /\ LiveDuty(n) /\ LiveCast
       \/ focus = "export" /\ ExportDuty(n)
    /\ UNCHANGED focus

\* The same for strong fairness.
StrongDuty(n) ==
    /\ \/ focus = "live" /\ n = 1 /\ DueStep /\ LiveCast
       \/ focus = "live" /\ n = 2 /\ AnalysisStep /\ LiveCast
       \/ focus = "live" /\ (\E s \in Nth(ProbeSeq, n - 2) : PollConfig(s)) /\ LiveCast
       \/ focus = "export" /\ n = 1 /\ \E t \in {"w1", "w2"} : Export!Claim(t, "a")
    /\ UNCHANGED focus

\* The variables a behaviour is about.
focusVars ==
    CASE focus = "spool" -> <<spoolVars>>
      [] focus = "pcap" -> <<archiveVars>>
      [] focus = "capture" -> <<supervisorVars>>
      [] focus = "index" -> <<indexVars>>
      [] focus = "queue" -> <<vars>>
      [] focus = "transport" -> <<transportVars>>
      [] focus = "ai" -> <<aiVars>>
      [] focus = "live" -> <<liveVars>>
      [] focus = "export" -> <<exportVars>>

FairProgress ==
    /\ ProgressInit /\ [][ProgressNext]_progressVars
    /\ \A n \in 1 .. 15 : WF_focusVars(Duty(n))
    /\ \A n \in 1 .. 4 : SF_focusVars(StrongDuty(n))

-----------------------------------------------------------------------------
(* Progress.  What is promised is stated for all components together, as a *)
(* behaviour is about one of them.                                         *)

\* The batches that are refused for ever are the only ones to stay.
GoodBatches == stored \ poison

Waiting ==
    \/ focus = "spool" /\ GoodBatches # {}
    \/ focus = "pcap" /\ \E s \in DOMAIN files : files[s].suffix = "pcap"
    \/ focus = "queue" /\ \E m \in Messages : produced[m] > settled[m]
    \/ focus = "ai" /\ \E k \in RunKeys : Occurs(aiQueue, k)
    \/ focus = "index" /\ \/ \E s \in Segments : wish[s] \in {"PENDING", "DEFERRED"}
                          \/ \E s \in CaptureSources : Eligible(s)
    \/ focus = "transport" /\ Running # {}
    \/ focus = "capture" /\ desired \notin BadVersions \cup {sup.version}
    \/ focus = "live" /\ (meta.status = "CAPTURING" \/ \E s \in Probes : probes[s].st # "idle")
    \/ focus = "export" /\ row["a"].status \in {"QUEUED", "RUNNING"}

Settled ==
    \/ focus = "spool" /\ GoodBatches = {}
    \/ focus = "pcap" /\ \A s \in DOMAIN files : files[s].suffix \notin {"pcap", "uploading"}
    \/ focus = "queue" /\ \A m \in Messages : produced[m] = settled[m]
    \/ focus = "ai" /\ \A k \in RunKeys : \/ ~Occurs(aiQueue, k) /\ ~Occurs(aiProcessing, k)
                                          \/ airuns[k] = NoRun \/ Stranded(k)
    \/ focus = "index" /\ (\A s \in Segments : wish[s] \notin {"PENDING", "DEFERRED"})
                       /\ (\A s \in CaptureSources : ~Eligible(s))
    \/ focus = "transport" /\ Running = {}
    \/ focus = "capture" /\ (desired \in BadVersions \cup {sup.version} \/ sup.gen = MaxGens \/ sup.stop)
    \/ focus = "live" /\ meta.status # "CAPTURING" /\ \A s \in Probes : probes[s].st = "idle"
    \/ focus = "export" /\ row["a"].status \notin {"QUEUED", "RUNNING"}

\* What one part hands over to another is taken care of in the end, whatever crashes,
\* expires or is refused on the way.
\*   - A stored batch is acknowledged or evicted, and one that the controller refuses
\*     for ever does not hold up the ones behind it (Retry's back-off, drain's break).
\*   - A finished PCAP segment is uploaded or rejected, by this group or a later one.
\*   - A message that was pushed is worked on to completion, and an AI run's envelope
\*     leaves the queue, unless its run was deleted or the envelope is stranded.
\*   - A wanted index is built or given up.
\*   - An invocation of the baseline's store ends, although its client goes away.
\*   - A configuration that the controller keeps wanting is applied, unless it cannot
\*     be built or the process stops.
\*   - A capture comes to its analysis or to an end, whatever reports were lost or
\*     late, and its sensors let go of it.
\*   - An admitted export reaches a final status.
DeliveriesSettle == Waiting ~> Settled

Begun ==
    \/ focus = "spool" /\ manager = "running" /\ loss + queueLost > reported
    \/ focus = "index" /\ \E s \in CaptureSources : \E g \in gens[s] \cup pgens[s] : g.state # "READY"
    \/ focus = "transport" /\ closing = "closing"
    \/ focus = "capture" /\ sup.stop
    \/ focus = "live" /\ setup.local /\ meta.status = "ANALYZING"

Over ==
    \/ focus = "spool" /\ (manager # "running" \/ loss + queueLost = reported)
    \/ focus = "index" /\ \A s \in CaptureSources : \A g \in gens[s] \cup pgens[s] : g.state = "READY"
    \/ focus = "transport" /\ closing = "closed"
    \/ focus = "capture" /\ runner.pc = "returned"
    \/ focus = "live" /\ meta.status \in TerminalStates

\* What a part has begun comes to its end.
\*   - A loss that the running batch manager knows of appears in its snapshot,
\*     whatever its other loop overwrites there (recordLocalLoss, refreshMetrics).
\*   - What dead builders of indexes staged is removed.
\*   - The shutdown of the baseline's transport ends: lease and lock are taken in
\*     either order, and still nobody waits for somebody who waits.
\*   - A sensor that is told to stop returns: no lock, join or pipeline holds it up.
\*   - In local mode an analysis ends in spite of restarts.
WorkEnds == Begun ~> Over
=============================================================================
