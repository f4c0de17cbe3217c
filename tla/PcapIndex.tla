----------------------------- MODULE PcapIndex ------------------------------
(***************************************************************************)
(* The indexes of stored captures in PostgreSQL and the workers that build *)
(* them.  An upload is indexed by the request that stores it, a live       *)
(* segment by an index worker that holds its leased task; a posting index  *)
(* is built by a posting worker below the structural generation that owns  *)
(* the source.  Every repository method is one transaction.                *)
(*                                                                         *)
(* A capture never changes under its identifier, so a source is its        *)
(* version.  A structural build is named by its number for the source (for *)
(* a segment, the attempt of its task), a posting build by parent and      *)
(* attempt; lease tokens are drawn at each claim and so are named by the   *)
(* attempt as well.  Scanning and packet bytes are outcomes.               *)
(***************************************************************************)
EXTENDS Integers, FiniteSets

CONSTANTS
    Uploads, Segments, \* captures: uploaded, and written by a sensor
    IndexWorkers, PostingWorkers,
    QueueCapacity,     \* queue_capacity of both queues
    MaxAttempts,       \* max_attempts of both queues
    MaxBuilds,         \* bound: builds of an upload's index
    LeaseTicks         \* lease_seconds of both queues, in ticks

CaptureSources == Uploads \cup Segments

ASSUME IndexConstants ==
    /\ Uploads \cap Segments = {} /\ IsFiniteSet(CaptureSources)
    /\ {QueueCapacity, MaxAttempts, MaxBuilds, LeaseTicks} \subseteq Nat \ {0}

VARIABLES
    capture,  \* the job or sensor_pcap row: "none" | "stored" | "gone"
    version,  \* sources with a row in pcap_capture_source_versions
    wish,     \* index_intent_state of a segment
    task,     \* pcap_offset_index_jobs
    gens,     \* pcap_offset_index_generations of a source
    owner,    \* pcap_offset_index_owners: the build, 0 for none
    intent,   \* pcap_posting_index_intents
    ptask,    \* pcap_posting_index_jobs
    pgens,    \* pcap_posting_index_generations of a source
    powner,   \* pcap_posting_index_owners: the attempt, 0 for none
    indexing, \* the request that indexes an upload
    worker,   \* the index workers' builds
    poster,   \* the posting workers' builds
    fatal     \* processes told to stop: "live", "posting"

sourceRows == <<capture, version>>
liveRows == <<wish, task>>
structure == <<gens, owner>>
postingRows == <<intent, ptask>>
postings == <<pgens, powner>>
builders == <<indexing, worker, poster, fatal>>
indexVars == <<capture, version, wish, task, gens, owner, intent, ptask, pgens, powner,
               indexing, worker, poster, fatal>>

BuildNumbers == 1 .. (IF MaxAttempts > MaxBuilds THEN MaxAttempts ELSE MaxBuilds)

NoTask == [status |-> "none", attempt |-> 0, lease |-> 0, ready |-> FALSE]

NoIntent == [parent |-> 0, status |-> "none"]

NoPosting == [parent |-> 0, status |-> "none", attempt |-> 0, lease |-> 0, ready |-> FALSE]

Idle == [pc |-> "idle", src |-> "none", build |-> 0, orphan |-> FALSE]

NoPoster == [pc |-> "idle", src |-> "none", parent |-> 0, attempt |-> 0, orphan |-> FALSE]

PcapIndexInit ==
    /\ capture = [s \in CaptureSources |-> "none"]
    /\ version = {}
    /\ wish = [s \in Segments |-> "none"]
    /\ task = [s \in Segments |-> NoTask]
    /\ gens = [s \in CaptureSources |-> {}]
    /\ owner = [s \in CaptureSources |-> 0]
    /\ intent = [s \in CaptureSources |-> NoIntent]
    /\ ptask = [s \in CaptureSources |-> NoPosting]
    /\ pgens = [s \in CaptureSources |-> {}]
    /\ powner = [s \in CaptureSources |-> 0]
    /\ indexing = [u \in Uploads |-> [pc |-> "none", build |-> 0]]
    /\ worker = [w \in IndexWorkers |-> Idle]
    /\ poster = [p \in PostingWorkers |-> NoPoster]
    /\ fatal = {}

Staging(n) == [build |-> n, state |-> "STAGING"]

Ready(n) == [build |-> n, state |-> "READY"]

----------------------------------------------------------------------------
(* The queue of live segments.                                             *)

ActiveLive == {s \in Segments : task[s].status \in {"QUEUED", "RUNNING"}}

\* A mutant: the segment is not told what became of its task.
SetTaskOnly(s, row, state) == task' = [task EXCEPT ![s] = row] /\ UNCHANGED wish

SetTask(s, row, state) ==
    /\ task' = [task EXCEPT ![s] = row]
    /\ wish' = [wish EXCEPT ![s] = state]

\* An eligible segment is stored with its index request (_with_index_intent).
StoreSegment(s) ==
    /\ capture[s] = "none"
    /\ capture' = [capture EXCEPT ![s] = "stored"]
    /\ wish' = [wish EXCEPT ![s] = "PENDING"]
    /\ UNCHANGED <<version, task, structure, postingRows, postings, builders>>

AdmitWithinCapacity(s) ==
    IF Cardinality(ActiveLive) >= QueueCapacity
    THEN SetTask(s, NoTask, "DEFERRED")
    ELSE SetTask(s, [NoTask EXCEPT !.status = "QUEUED", !.ready = TRUE], "PENDING")

admit_live_segment_index(s) ==
    /\ capture[s] = "stored" /\ task[s] = NoTask /\ wish[s] \in {"PENDING", "DEFERRED"}
    /\ AdmitWithinCapacity(s)
    /\ UNCHANGED <<sourceRows, structure, postingRows, postings, builders>>

claim_live_segment_index(w, s) ==
    /\ worker[w].pc = "idle" /\ "live" \notin fatal
    /\ task[s].status = "QUEUED" /\ task[s].ready
    /\ task' = [task EXCEPT ![s].status = "RUNNING", ![s].attempt = @ + 1, ![s].lease = LeaseTicks]
    /\ worker' = [worker EXCEPT ![w] = [Idle EXCEPT !.pc = "claimed", !.src = s,
                                                    !.build = task[s].attempt + 1]]
    /\ UNCHANGED <<sourceRows, wish, structure, postingRows, postings, indexing, poster, fatal>>

\* The task is RUNNING under this attempt's token and the lease has not expired.
Owns(s, attempt) ==
    task[s].status = "RUNNING" /\ task[s].attempt = attempt /\ task[s].lease > 0

heartbeat_live_segment_index(w) ==
    /\ worker[w].pc \in {"claimed", "staging", "scanned"} /\ ~worker[w].orphan
    /\ Owns(worker[w].src, worker[w].build)
    /\ task' = [task EXCEPT ![worker[w].src].lease = LeaseTicks]
    /\ UNCHANGED <<sourceRows, wish, structure, postingRows, postings, builders>>

\* The compare-and-swap of a failed attempt; it changes nothing when the lease
\* is not held.
fail_live_segment_index(s, attempt, transient) ==
    LET retry == transient /\ attempt < MaxAttempts IN
    IF Owns(s, attempt)
    THEN SetTask(s, [task[s] EXCEPT !.status = IF retry THEN "QUEUED" ELSE "FAILED", !.lease = 0,
                                    !.ready = ~retry],
                 IF retry THEN "PENDING" ELSE "FAILED")
    ELSE UNCHANGED liveRows

\* A mutant: the last attempt is not recovered.
LapsedUnlessLast(s) ==
    task[s].status = "RUNNING" /\ task[s].lease = 0 /\ task[s].attempt < MaxAttempts

Lapsed(s) == task[s].status = "RUNNING" /\ task[s].lease = 0

recover_live_segment_indexes(s) ==
    LET retry == task[s].attempt < MaxAttempts IN
    /\ Lapsed(s)
    /\ SetTask(s, [task[s] EXCEPT !.status = IF retry THEN "QUEUED" ELSE "FAILED", !.lease = 0,
                                  !.ready = TRUE],
               IF retry THEN "PENDING" ELSE "FAILED")
    /\ UNCHANGED <<sourceRows, structure, postingRows, postings, builders>>

cleanup_terminal_live_segment_indexes(s) ==
    /\ task[s].status \in {"COMPLETED", "FAILED"}
    /\ task' = [task EXCEPT ![s] = NoTask]
    /\ UNCHANGED <<sourceRows, wish, structure, postingRows, postings, builders>>

----------------------------------------------------------------------------
(* Structural generations.                                                 *)

\* A scan has written its packets below a generation that is still STAGING.
Stageable(s, n) == Staging(n) \in gens[s]

\* No posting task works below the generation that would be replaced.
NoPostingBelow(s) ==
    ~(owner[s] # 0 /\ ptask[s].parent = owner[s] /\ ptask[s].status \in {"QUEUED", "RUNNING"})

\* A mutant: the previous generation stays READY.
TakeOwnershipBeside(s, n, ask) ==
    /\ gens' = [gens EXCEPT ![s] = (@ \ {Staging(n)}) \cup {Ready(n)}]
    /\ owner' = [owner EXCEPT ![s] = n]
    /\ UNCHANGED <<intent, ptask, pgens, powner>>

\* The rest of both publications: the generation becomes READY and owns the
\* source, the previous one goes with every posting row below it (the foreign
\* keys cascade), and a posting intent is written when ask holds.
TakeOwnership(s, n, ask) ==
    LET below(row) == owner[s] # 0 /\ row.parent = owner[s] IN
    /\ gens' = [gens EXCEPT ![s] = (@ \ {Staging(n), Ready(owner[s])}) \cup {Ready(n)}]
    /\ owner' = [owner EXCEPT ![s] = n]
    /\ intent' = [intent EXCEPT ![s] = IF ask THEN [parent |-> n, status |-> "PENDING"]
                                       ELSE IF below(@) THEN NoIntent ELSE @]
    /\ ptask' = [ptask EXCEPT ![s] = IF below(@) THEN NoPosting ELSE @]
    /\ pgens' = [pgens EXCEPT ![s] = {g \in @ : ~below(g)}]
    /\ powner' = [powner EXCEPT ![s] = IF owner[s] # 0 THEN 0 ELSE @]

\* A mutant: the posting tasks of the previous owner are not looked at.
PublishOverPostings(u, n) == capture[u] = "stored" /\ u \in version /\ Stageable(u, n)

PublishAllowed(u, n) ==
    capture[u] = "stored" /\ u \in version /\ Stageable(u, n) /\ NoPostingBelow(u)

\* A mutant: the last compare-and-swap forgets that the lease may have expired.
PublishExpired(s, n) ==
    /\ capture[s] = "stored" /\ Stageable(s, n) /\ NoPostingBelow(s)
    /\ task[s].status = "RUNNING" /\ task[s].attempt = n

\* A mutant: a generation that a cleanup has removed is published.
PublishUnstaged(s, n) == capture[s] = "stored" /\ NoPostingBelow(s) /\ Owns(s, n)

PublishLiveAllowed(s, n) ==
    capture[s] = "stored" /\ Stageable(s, n) /\ NoPostingBelow(s) /\ Owns(s, n)

abort_structural_index(s, n) == gens' = [gens EXCEPT ![s] = @ \ {Staging(n)}]

cleanup_stale_structural_indexes(s, n) ==
    /\ Stageable(s, n)
    /\ abort_structural_index(s, n)
    /\ UNCHANGED <<sourceRows, liveRows, owner, postingRows, postings, builders>>

\* delete_job: every row that belongs to the capture goes in one transaction.
delete_job(s) ==
    /\ capture[s] = "stored"
    /\ capture' = [capture EXCEPT ![s] = "gone"]
    /\ version' = version \ {s}
    /\ gens' = [gens EXCEPT ![s] = {}] /\ owner' = [owner EXCEPT ![s] = 0]
    /\ intent' = [intent EXCEPT ![s] = NoIntent] /\ ptask' = [ptask EXCEPT ![s] = NoPosting]
    /\ pgens' = [pgens EXCEPT ![s] = {}] /\ powner' = [powner EXCEPT ![s] = 0]
    /\ IF s \in Segments THEN SetTask(s, NoTask, "gone") ELSE UNCHANGED liveRows
    /\ UNCHANGED builders

----------------------------------------------------------------------------
(* The request that stores and indexes an upload, and its later rebuilds.  *)

SetRequest(u, pc, n) == indexing' = [indexing EXCEPT ![u] = [pc |-> pc, build |-> n]]

StoreUpload(u) ==
    /\ capture[u] = "none"
    /\ capture' = [capture EXCEPT ![u] = "stored"]
    /\ version' = version \cup {u}
    /\ SetRequest(u, "open", 1)
    /\ UNCHANGED <<liveRows, structure, postingRows, postings, worker, poster, fatal>>

rebuild_offline_upload_index(u) ==
    /\ capture[u] = "stored" /\ indexing[u].pc = "none" /\ indexing[u].build < MaxBuilds
    /\ SetRequest(u, "open", indexing[u].build + 1)
    /\ UNCHANGED <<sourceRows, liveRows, structure, postingRows, postings, worker, poster, fatal>>

\* begin_structural_index asks nothing of the source.
BeginUpload(u) ==
    /\ indexing[u].pc = "open"
    /\ gens' = [gens EXCEPT ![u] = @ \cup {Staging(indexing[u].build)}]
    /\ SetRequest(u, "scan", indexing[u].build)
    /\ UNCHANGED <<sourceRows, liveRows, owner, postingRows, postings, worker, poster, fatal>>

StageUpload(u) ==
    /\ indexing[u].pc = "scan" /\ Stageable(u, indexing[u].build)
    /\ SetRequest(u, "publish", indexing[u].build)
    /\ UNCHANGED <<sourceRows, liveRows, structure, postingRows, postings, worker, poster, fatal>>

PublishUpload(u, ask) ==
    /\ indexing[u].pc = "publish" /\ PublishAllowed(u, indexing[u].build)
    /\ TakeOwnership(u, indexing[u].build, ask)
    /\ SetRequest(u, IF ask THEN "admit" ELSE "none", indexing[u].build)
    /\ UNCHANGED <<sourceRows, liveRows, worker, poster, fatal>>

\* Any other way out of build_offline_upload_index: a storage error, a capture
\* that does not scan, a lost generation or a refused publication.  The finally
\* clause aborts the generation, unless the storage or the process is gone.
LeaveUpload(u) ==
    /\ indexing[u].pc \in {"open", "scan", "publish"}
    /\ \/ abort_structural_index(u, indexing[u].build)
       \/ UNCHANGED gens
    /\ SetRequest(u, "none", indexing[u].build)
    /\ UNCHANGED <<sourceRows, liveRows, owner, postingRows, postings, worker, poster, fatal>>

----------------------------------------------------------------------------
(* The posting lifecycle.                                                  *)

ActivePosting == {s \in CaptureSources : ptask[s].status \in {"QUEUED", "RUNNING"}}

Eligible(s) == intent[s].status \in {"PENDING", "DEFERRED"}

OwnsPosting(s, parent, attempt) ==
    /\ ptask[s].status = "RUNNING" /\ ptask[s].lease > 0
    /\ ptask[s].parent = parent /\ ptask[s].attempt = attempt

\* Admission leaves a DEFERRED intent DEFERRED when it queues the task.
AdmitPosting(s) ==
    IF Eligible(s) /\ ptask[s] = NoPosting
    THEN IF Cardinality(ActivePosting) >= QueueCapacity
         THEN intent' = [intent EXCEPT ![s].status = "DEFERRED"] /\ UNCHANGED ptask
         ELSE /\ ptask' = [ptask EXCEPT ![s] = [NoPosting EXCEPT !.parent = intent[s].parent,
                                                                !.status = "QUEUED", !.ready = TRUE]]
              /\ UNCHANGED intent
    ELSE UNCHANGED postingRows

reconcile_posting_indexes(s) ==
    /\ Eligible(s) /\ ptask[s] = NoPosting
    /\ AdmitPosting(s)
    /\ UNCHANGED <<sourceRows, liveRows, structure, postings, builders>>

\* A current structural owner without an intent; a segment's index task must
\* still be there, COMPLETED.
BackfillWanted(s) ==
    /\ owner[s] # 0 /\ s \in version /\ capture[s] = "stored"
    /\ intent[s] = NoIntent
    /\ s \in Segments => task[s].status = "COMPLETED"

request_posting_index_backfill(s) ==
    /\ BackfillWanted(s)
    /\ intent' = [intent EXCEPT ![s] = [parent |-> owner[s], status |-> "PENDING"]]
    /\ UNCHANGED <<sourceRows, liveRows, structure, ptask, postings, builders>>

claim_posting_index(p, s) ==
    /\ poster[p].pc = "idle" /\ "posting" \notin fatal
    /\ ptask[s].status = "QUEUED" /\ ptask[s].ready
    /\ Eligible(s) /\ intent[s].parent = ptask[s].parent
    /\ ptask' = [ptask EXCEPT ![s].status = "RUNNING", ![s].attempt = @ + 1, ![s].lease = LeaseTicks]
    /\ poster' = [poster EXCEPT ![p] = [NoPoster EXCEPT !.pc = "claimed", !.src = s,
                                                        !.parent = ptask[s].parent,
                                                        !.attempt = ptask[s].attempt + 1]]
    /\ UNCHANGED <<sourceRows, liveRows, structure, intent, postings, indexing, worker, fatal>>

heartbeat_posting_index(p) ==
    LET b == poster[p] IN
    /\ b.pc \in {"claimed", "staging", "staged"} /\ ~b.orphan
    /\ OwnsPosting(b.src, b.parent, b.attempt)
    /\ ptask' = [ptask EXCEPT ![b.src].lease = LeaseTicks]
    /\ UNCHANGED <<sourceRows, liveRows, structure, intent, postings, builders>>

fail_posting_index(s, parent, attempt, transient) ==
    LET retry == transient /\ attempt < MaxAttempts IN
    IF Eligible(s) /\ intent[s].parent = parent /\ OwnsPosting(s, parent, attempt)
    THEN /\ ptask' = [ptask EXCEPT ![s].status = IF retry THEN "QUEUED" ELSE "FAILED",
                                   ![s].lease = 0, ![s].ready = ~retry]
         /\ intent' = [intent EXCEPT ![s].status = IF retry THEN "PENDING" ELSE "FAILED"]
    ELSE UNCHANGED postingRows

RetryLeft(s) == ptask[s].attempt < MaxAttempts

recover_posting_indexes(s) ==
    /\ Eligible(s) /\ intent[s].parent = ptask[s].parent
    /\ ptask[s].status = "RUNNING" /\ ptask[s].lease = 0
    /\ ptask' = [ptask EXCEPT ![s].status = IF RetryLeft(s) THEN "QUEUED" ELSE "FAILED",
                              ![s].ready = TRUE]
    /\ intent' = [intent EXCEPT ![s].status = IF RetryLeft(s) THEN "PENDING" ELSE "FAILED"]
    /\ UNCHANGED <<sourceRows, liveRows, structure, postings, builders>>

cleanup_terminal_posting_indexes(s) ==
    /\ ptask[s].status \in {"COMPLETED", "FAILED"}
    /\ ptask' = [ptask EXCEPT ![s] = NoPosting]
    /\ UNCHANGED <<sourceRows, liveRows, structure, intent, postings, builders>>

\* A mutant: what earlier attempts left is not looked at.
StaleOfLastAttempt(s, g) ==
    g.state = "STAGING" /\ ~OwnsPosting(s, g.parent, g.attempt) /\ ptask[s].attempt = g.attempt

StalePosting(s, g) == g.state = "STAGING" /\ ~OwnsPosting(s, g.parent, g.attempt)

cleanup_stale_posting_indexes(s) ==
    /\ \E g \in pgens[s] :
           StalePosting(s, g) /\ pgens' = [pgens EXCEPT ![s] = @ \ {g}]
    /\ UNCHANGED <<sourceRows, liveRows, structure, postingRows, powner, builders>>

----------------------------------------------------------------------------
(* Index workers: build_live_segment_index in a thread of its own.         *)

Building == {"claimed", "staging", "scanned"}

StepWorker(w, pc) == worker' = [worker EXCEPT ![w].pc = pc]

BeginLive(w) ==
    /\ worker[w].pc = "claimed" /\ capture[worker[w].src] = "stored"
    /\ gens' = [gens EXCEPT ![worker[w].src] = @ \cup {Staging(worker[w].build)}]
    /\ StepWorker(w, "staging")
    /\ UNCHANGED <<sourceRows, liveRows, owner, postingRows, postings, indexing, poster, fatal>>

StageLive(w) ==
    /\ worker[w].pc = "staging" /\ Stageable(worker[w].src, worker[w].build)
    /\ StepWorker(w, "scanned")
    /\ UNCHANGED <<sourceRows, liveRows, structure, postingRows, postings, indexing, poster, fatal>>

publish_live_structural_index(w, ask) ==
    LET s == worker[w].src  n == worker[w].build IN
    /\ worker[w].pc = "scanned" /\ PublishLiveAllowed(s, n)
    /\ version' = version \cup {s}
    /\ TakeOwnership(s, n, ask)
    /\ SetTask(s, [task[s] EXCEPT !.status = "COMPLETED", !.lease = 0], "COMPLETED")
    /\ StepWorker(w, IF ask THEN "admit" ELSE "done")
    /\ UNCHANGED <<capture, indexing, poster, fatal>>

\* The build ends without a publication; the finally clause drops what it staged
\* unless the storage refuses.  Whatever ended it decides whether it is retried.
LeaveLive(w) ==
    LET s == worker[w].src  n == worker[w].build IN
    /\ worker[w].pc \in Building
    /\ \/ abort_structural_index(s, n)
       \/ UNCHANGED gens
    /\ \E why \in {"transient", "permanent"} : StepWorker(w, why)
    /\ UNCHANGED <<sourceRows, liveRows, owner, postingRows, postings, indexing, poster, fatal>>

\* admit_posting_index after the commit; an exception is only logged.
AdmitAfterPublish ==
    /\ \/ \E u \in Uploads :
              /\ indexing[u].pc = "admit"
              /\ AdmitPosting(u) \/ UNCHANGED postingRows
              /\ SetRequest(u, "none", indexing[u].build)
              /\ UNCHANGED worker
       \/ \E w \in IndexWorkers :
              /\ worker[w].pc = "admit"
              /\ AdmitPosting(worker[w].src) \/ UNCHANGED postingRows
              /\ StepWorker(w, "done")
              /\ UNCHANGED indexing
    /\ UNCHANGED <<sourceRows, liveRows, structure, postings, poster, fatal>>

\* run_once after the build has ended in time: the failure is settled, or the
\* settlement itself fails and ends the thread, and with it the process.
SettleLive(w) ==
    LET b == worker[w] IN
    /\ b.pc \in {"transient", "permanent", "done"} /\ ~b.orphan
    /\ worker' = [worker EXCEPT ![w] = Idle]
    /\ IF b.pc = "done"
       THEN UNCHANGED <<liveRows, fatal>>
       ELSE \/ fail_live_segment_index(b.src, b.build, b.pc = "transient") /\ UNCHANGED fatal
            \/ fatal' = fatal \cup {"live"} /\ UNCHANGED liveRows
    /\ UNCHANGED <<sourceRows, structure, postingRows, postings, indexing, poster>>

\* run_once at the deadline: the attempt is given back while its thread may still
\* be at work, so the process has to stop.
TimeoutLive(w) ==
    /\ worker[w].pc \in Building \cup {"admit"} /\ ~worker[w].orphan
    /\ fail_live_segment_index(worker[w].src, worker[w].build, TRUE)
    /\ worker' = [worker EXCEPT ![w].orphan = TRUE]
    /\ fatal' = fatal \cup {"live"}
    /\ UNCHANGED <<sourceRows, structure, postingRows, postings, indexing, poster>>

----------------------------------------------------------------------------
(* Posting workers: build_and_publish_source_posting_index in a thread.    *)

StepPoster(p, pc) == poster' = [poster EXCEPT ![p].pc = pc]

Draft(b) == [parent |-> b.parent, attempt |-> b.attempt, state |-> "STAGING",
             expected |-> powner[b.src]]

DraftOf(b) == {g \in pgens[b.src] : g.parent = b.parent /\ g.attempt = b.attempt /\ g.state = "STAGING"}

BeginPosting(p) ==
    LET b == poster[p] IN
    /\ b.pc = "claimed"
    /\ b.src \in version /\ owner[b.src] = b.parent
    /\ OwnsPosting(b.src, b.parent, b.attempt)
    /\ pgens' = [pgens EXCEPT ![b.src] = @ \cup {Draft(b)}]
    /\ StepPoster(p, "staging")
    /\ UNCHANGED <<sourceRows, liveRows, structure, postingRows, powner, indexing, worker, fatal>>

StagePosting(p) ==
    LET b == poster[p] IN
    /\ b.pc = "staging"
    /\ OwnsPosting(b.src, b.parent, b.attempt) /\ Eligible(b.src) /\ intent[b.src].parent = b.parent
    /\ DraftOf(b) # {}
    /\ StepPoster(p, "staged")
    /\ UNCHANGED <<sourceRows, liveRows, structure, postingRows, postings, indexing, worker, fatal>>

PublishPostingAllowed(b) ==
    /\ b.src \in version /\ owner[b.src] = b.parent
    /\ Eligible(b.src) /\ intent[b.src].parent = b.parent
    /\ OwnsPosting(b.src, b.parent, b.attempt)
    /\ \E g \in DraftOf(b) : g.expected = powner[b.src]

publish_posting_index(p) ==
    LET b == poster[p]  s == poster[p].src IN
    /\ b.pc = "staged" /\ PublishPostingAllowed(b)
    /\ pgens' = [pgens EXCEPT ![s] = {g \in @ \ DraftOf(b) : g.state # "READY"}
                                        \cup {[g EXCEPT !.state = "READY"] : g \in DraftOf(b)}]
    /\ powner' = [powner EXCEPT ![s] = b.attempt]
    /\ ptask' = [ptask EXCEPT ![s].status = "COMPLETED", ![s].lease = 0]
    /\ intent' = [intent EXCEPT ![s].status = "COMPLETED"]
    /\ StepPoster(p, "done")
    /\ UNCHANGED <<sourceRows, liveRows, structure, indexing, worker, fatal>>

\* The build ends without a publication; abort_posting_index needs the lease.
LeavePosting(p) ==
    LET b == poster[p] IN
    /\ b.pc \in {"claimed", "staging", "staged"}
    /\ \/ /\ OwnsPosting(b.src, b.parent, b.attempt) /\ Eligible(b.src)
          /\ pgens' = [pgens EXCEPT ![b.src] = @ \ DraftOf(b)]
       \/ UNCHANGED pgens
    /\ \E why \in {"transient", "permanent"} : StepPoster(p, why)
    /\ UNCHANGED <<sourceRows, liveRows, structure, postingRows, powner, indexing, worker, fatal>>

SettlePosting(p) ==
    LET b == poster[p] IN
    /\ b.pc \in {"transient", "permanent", "done"} /\ ~b.orphan
    /\ poster' = [poster EXCEPT ![p] = NoPoster]
    /\ IF b.pc = "done"
       THEN UNCHANGED <<postingRows, fatal>>
       ELSE \/ fail_posting_index(b.src, b.parent, b.attempt, b.pc = "transient") /\ UNCHANGED fatal
            \/ fatal' = fatal \cup {"posting"} /\ UNCHANGED postingRows
    /\ UNCHANGED <<sourceRows, liveRows, structure, postings, indexing, worker>>

\* The deadline, or a fatal event of another worker, while the build runs.
TimeoutPosting(p) ==
    LET b == poster[p] IN
    /\ b.pc \in {"claimed", "staging", "staged"} /\ ~b.orphan
    /\ fail_posting_index(b.src, b.parent, b.attempt, TRUE)
    /\ poster' = [poster EXCEPT ![p].orphan = TRUE]
    /\ fatal' = fatal \cup {"posting"}
    /\ UNCHANGED <<sourceRows, liveRows, structure, postings, indexing, worker>>

\* The heartbeat is refused: the build is cancelled and nothing is settled.
LosePosting(p) ==
    LET b == poster[p] IN
    /\ b.pc \in {"claimed", "staging", "staged"} /\ ~b.orphan
    /\ ~OwnsPosting(b.src, b.parent, b.attempt)
    /\ \/ poster' = [poster EXCEPT ![p] = NoPoster] /\ UNCHANGED fatal
       \/ poster' = [poster EXCEPT ![p].orphan = TRUE] /\ fatal' = fatal \cup {"posting"}
    /\ UNCHANGED <<sourceRows, liveRows, structure, postingRows, postings, indexing, worker>>

----------------------------------------------------------------------------
(* Time, and the end of a process.                                         *)

TickLive(s) ==
    /\ \/ /\ task[s].status = "RUNNING" /\ task[s].lease > 0
          /\ task' = [task EXCEPT ![s].lease = @ - 1]
       \/ /\ task[s].status = "QUEUED" /\ ~task[s].ready
          /\ task' = [task EXCEPT ![s].ready = TRUE]
    /\ UNCHANGED <<sourceRows, wish, structure, postingRows, postings, builders>>

TickPosting(s) ==
    /\ \/ /\ ptask[s].status = "RUNNING" /\ ptask[s].lease > 0
          /\ ptask' = [ptask EXCEPT ![s].lease = @ - 1]
       \/ /\ ptask[s].status = "QUEUED" /\ ~ptask[s].ready
          /\ ptask' = [ptask EXCEPT ![s].ready = TRUE]
    /\ UNCHANGED <<sourceRows, liveRows, structure, intent, postings, builders>>

\* A process stops, by a crash or because it was told to, and starts again; its
\* threads, orphans included, are gone.
RestartLive ==
    /\ "live" \in fatal \/ \E w \in IndexWorkers : worker[w] # Idle
    /\ worker' = [w \in IndexWorkers |-> Idle]
    /\ fatal' = fatal \ {"live"}
    /\ UNCHANGED <<sourceRows, liveRows, structure, postingRows, postings, indexing, poster>>

RestartPosting ==
    /\ "posting" \in fatal \/ \E p \in PostingWorkers : poster[p] # NoPoster
    /\ poster' = [p \in PostingWorkers |-> NoPoster]
    /\ fatal' = fatal \ {"posting"}
    /\ UNCHANGED <<sourceRows, liveRows, structure, postingRows, postings, indexing, worker>>

UploadStep(u) ==
    \/ StoreUpload(u) \/ rebuild_offline_upload_index(u) \/ BeginUpload(u) \/ StageUpload(u)
    \/ LeaveUpload(u)
    \/ \E ask \in BOOLEAN : PublishUpload(u, ask)

WorkerStep(w) ==
    \/ BeginLive(w) \/ StageLive(w) \/ LeaveLive(w) \/ SettleLive(w)
    \/ \E ask \in BOOLEAN : publish_live_structural_index(w, ask)

PosterStep(p) ==
    \/ BeginPosting(p) \/ StagePosting(p) \/ publish_posting_index(p) \/ LeavePosting(p)
    \/ SettlePosting(p)

PcapIndexNext ==
    \/ \E u \in Uploads : UploadStep(u)
    \/ \E s \in Segments :
           \/ StoreSegment(s) \/ admit_live_segment_index(s) \/ recover_live_segment_indexes(s)
           \/ cleanup_terminal_live_segment_indexes(s) \/ TickLive(s)
    \/ \E s \in CaptureSources :
           \/ delete_job(s) \/ reconcile_posting_indexes(s) \/ request_posting_index_backfill(s)
           \/ recover_posting_indexes(s) \/ cleanup_terminal_posting_indexes(s)
           \/ cleanup_stale_posting_indexes(s) \/ TickPosting(s)
           \/ \E n \in BuildNumbers : cleanup_stale_structural_indexes(s, n)
    \/ \E w \in IndexWorkers :
           \/ WorkerStep(w) \/ TimeoutLive(w) \/ heartbeat_live_segment_index(w)
           \/ \E s \in Segments : claim_live_segment_index(w, s)
    \/ \E p \in PostingWorkers :
           \/ PosterStep(p) \/ TimeoutPosting(p) \/ LosePosting(p) \/ heartbeat_posting_index(p)
           \/ \E s \in CaptureSources : claim_posting_index(p, s)
    \/ AdmitAfterPublish
    \/ RestartLive \/ RestartPosting

\* The maintenance of a worker that runs, its build threads, the wall clock, and a
\* supervisor that restarts a process that was told to stop.
PcapIndexFairness ==
    /\ \A s \in Segments :
           /\ WF_indexVars(admit_live_segment_index(s))
           /\ WF_indexVars(recover_live_segment_indexes(s))
           /\ WF_indexVars(TickLive(s))
           /\ WF_indexVars(\E w \in IndexWorkers : claim_live_segment_index(w, s))
    /\ \A s \in CaptureSources :
           /\ WF_indexVars(reconcile_posting_indexes(s))
           /\ WF_indexVars(recover_posting_indexes(s))
           /\ WF_indexVars(cleanup_stale_posting_indexes(s))
           /\ WF_indexVars(TickPosting(s))
           /\ WF_indexVars(\E p \in PostingWorkers : claim_posting_index(p, s))
           /\ \A n \in BuildNumbers : WF_indexVars(cleanup_stale_structural_indexes(s, n))
    /\ \A w \in IndexWorkers : WF_indexVars(WorkerStep(w))
    /\ \A p \in PostingWorkers : WF_indexVars(PosterStep(p))
    /\ WF_indexVars("live" \in fatal /\ RestartLive)
    /\ WF_indexVars("posting" \in fatal /\ RestartPosting)

PcapIndexSpec == PcapIndexInit /\ [][PcapIndexNext]_indexVars /\ PcapIndexFairness

----------------------------------------------------------------------------
(* Properties.                                                             *)

IndexTypeOK ==
    /\ capture \in [CaptureSources -> {"none", "stored", "gone"}]
    /\ version \subseteq CaptureSources
    /\ wish \in [Segments -> {"none", "PENDING", "DEFERRED", "COMPLETED", "FAILED", "gone"}]
    /\ \A s \in Segments : task[s].attempt \in 0 .. MaxAttempts /\ task[s].lease \in 0 .. LeaseTicks
    /\ \A s \in CaptureSources :
           /\ gens[s] \subseteq [build : BuildNumbers, state : {"STAGING", "READY"}]
           /\ owner[s] \in 0 .. MaxBuilds \cup BuildNumbers
           /\ ptask[s].attempt \in 0 .. MaxAttempts /\ ptask[s].lease \in 0 .. LeaseTicks
    /\ fatal \subseteq {"live", "posting"}

\* A posting build that holds its lease keeps what it staged: no cleanup, abort
\* or publication of another attempt removes it.
HeldDraftsStay ==
    \A p \in PostingWorkers :
        LET b == poster[p] IN
        b.pc \in {"staging", "staged"} /\ OwnsPosting(b.src, b.parent, b.attempt) => DraftOf(b) # {}

\* What readers find: the owner of a source is its only READY generation, of a
\* capture that is stored, and the posting owner is the only READY posting
\* generation, below that very owner (publish_structural_index,
\* publish_live_structural_index, publish_posting_index and delete_job).  Everything
\* below a structural generation belongs to the one that owns the source: no intent,
\* task or posting generation survives its parent.
OwnersAreWhole ==
    /\ IndexTypeOK /\ HeldDraftsStay
    /\ \A s \in CaptureSources :
        /\ intent[s].parent \in {0, owner[s]} /\ ptask[s].parent \in {0, intent[s].parent}
        /\ \A g \in pgens[s] : g.parent = owner[s]
        /\ {g \in gens[s] : g.state = "READY"} = (IF owner[s] = 0 THEN {} ELSE {Ready(owner[s])})
        /\ owner[s] # 0 => capture[s] = "stored" /\ s \in version
        /\ {<<g.parent, g.attempt>> : g \in {h \in pgens[s] : h.state = "READY"}}
               = (IF powner[s] = 0 THEN {} ELSE {<<owner[s], powner[s]>>})

\* The intent tells the truth: COMPLETED exactly when the index is there, whichever
\* attempt, orphan or late worker built it (index_intent_state and
\* pcap_posting_index_intents.status).  A task that is no longer wanted is not left
\* active: an active task has an intent that waits for it.
IntentsTellTheTruth ==
    /\ \A s \in Segments : wish[s] = "COMPLETED" <=> owner[s] # 0
    /\ \A s \in CaptureSources : intent[s].status = "COMPLETED" <=> powner[s] # 0
    /\ \A s \in ActiveLive : wish[s] = "PENDING" /\ capture[s] = "stored"
    /\ \A s \in ActivePosting : Eligible(s) /\ ptask[s].parent = intent[s].parent

\* The PostgreSQL queue implements the queue under the repository's lock.
LiveQueue == INSTANCE LiveIndexQueue WITH Capacity <- QueueCapacity, MaxTries <- MaxAttempts

ImplementsLiveIndexQueue == LiveQueue!Spec

\* An intent that stays DEFERRED while its task is queued is a PENDING one.
shownIntent ==
    [s \in CaptureSources |->
        IF intent[s].status = "DEFERRED" /\ ptask[s] # NoPosting
        THEN [intent[s] EXCEPT !.status = "PENDING"] ELSE intent[s]]

\* A draft names the index it expects to replace with the parent of that index.
ShownDraft(g) ==
    [parent |-> g.parent, attempt |-> g.attempt,
     expected |-> <<IF g.expected = 0 THEN 0 ELSE g.parent, g.expected>>]

shownDrafts ==
    [s \in CaptureSources |-> {ShownDraft(g) : g \in {h \in pgens[s] : h.state = "STAGING"}}]

shownIndex ==
    [s \in CaptureSources |-> IF powner[s] = 0 THEN <<0, 0>> ELSE <<owner[s], powner[s]>>]

PostingQueue ==
    INSTANCE PostingIndexQueue
    WITH Sources <- CaptureSources, Parents <- BuildNumbers, Capacity <- QueueCapacity,
         MaxTries <- MaxAttempts, intent <- shownIntent, drafts <- shownDrafts, index <- shownIndex

ImplementsPostingIndexQueue == PostingQueue!Spec

\* The generation tables implement the in-memory store of structural indexes.
stagedBuilds == [s \in CaptureSources |-> {n \in BuildNumbers : Stageable(s, n)}]

StructuralStore ==
    INSTANCE StructuralIndexStore
    WITH Sources <- CaptureSources, Builds <- BuildNumbers, held <- capture, current <- owner,
         staging <- stagedBuilds

ImplementsStructuralIndexStore == StructuralStore!Spec
=============================================================================
