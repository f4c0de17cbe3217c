-------------------------- MODULE PcapIndexProofs ---------------------------
(***************************************************************************)
(* Every step keeps the invariant of PcapIndex: what readers find is whole *)
(* and intents tell the truth. The tables implement the queues and the     *)
(* store of the in-memory repository.                                      *)
(***************************************************************************)
EXTENDS PcapIndexInvariant

----------------------------------------------------------------------------
(* The steps.                                                              *)

WorkersGood ==
    /\ worker' \in [IndexWorkers -> WorkerRecords \cup {Idle}]
    /\ fatal' \subseteq {"live", "posting"}

\* The parts of the invariant put together.
LEMMA Together ==
    ASSUME RowsGood, PostersGood, WorkersGood
    PROVE  IndexInv'
<1>1. TypeInv'
  BY DEF RowsGood, OwnersGood, LiveGood, RequestsGood, PostingsGood, PostingRowTypes, PostersGood,
         WorkersGood, TypeInv
<1> QED
  BY <1>1 DEF RowsGood, OwnersGood, LiveGood, RequestsGood, PostingsGood, PostersGood, IndexInv

\* An index worker's record after a step of its build.
LEMMA WorkerSteps ==
    ASSUME TypeInv, NEW w \in IndexWorkers, worker[w].pc # "idle",
           NEW pc \in {"staging", "scanned", "admit", "done", "transient", "permanent"},
           StepWorker(w, pc), UNCHANGED fatal
    PROVE  WorkersGood
<1>1. worker[w] \in WorkerRecords  BY WorkerTypes
<1>2. [worker[w] EXCEPT !.pc = pc] \in WorkerRecords  BY <1>1 DEF WorkerRecords
<1>3. worker' = [worker EXCEPT ![w] = [worker[w] EXCEPT !.pc = pc]]  BY DEF StepWorker
<1> QED  BY <1>2, <1>3 DEF TypeInv, WorkersGood

LEMMA WorkersUnchanged ==
    ASSUME TypeInv, UNCHANGED worker,
           fatal' = fatal \/ fatal' = fatal \cup {"posting"} \/ fatal' = fatal \ {"posting"}
    PROVE  WorkersGood
BY Zenon DEF TypeInv, WorkersGood

LEMMA StoreUploadStep ==
    ASSUME IndexInv, NEW u \in Uploads, StoreUpload(u)
    PROVE  IndexInv'
<1>1. /\ TypeInv /\ u \in CaptureSources /\ u \notin Segments /\ capture[u] = "none"
      /\ capture' = [capture EXCEPT ![u] = "stored"] /\ version' = version \cup {u}
      /\ SetRequest(u, "open", 1)
      /\ UNCHANGED <<wish, task, gens, owner, intent, ptask, pgens, powner, worker, poster, fatal>>
  BY Constants DEF IndexInv, StoreUpload, liveRows, structure, postingRows, postings
<1>2. OwnersGood  BY <1>1, StoreOwnersGood, Zenon DEF IndexInv
<1>3. LiveGood
  <2>1. \A s \in Segments : capture'[s] = capture[s] /\ owner'[s] = owner[s]
    BY <1>1, Constants DEF TypeInv
  <2> QED  BY <1>1, <2>1, LiveUnchanged DEF IndexInv
<1>4. RequestsGood
  <2>1. owner[u] = 0  BY <1>1 DEF IndexInv, OwnerInv
  <2> QED  BY <1>1, <2>1, Numbers, RequestUpdate DEF IndexInv
<1>5. PostingsGood  BY <1>1, PostingsUnchanged DEF IndexInv
<1>6. RowsGood  BY <1>2, <1>3, <1>4, <1>5 DEF RowsGood
<1> QED  BY <1>1, <1>6, PostersUnchanged, WorkersUnchanged, Together

\* The steps of a request that stage, drop or renumber a build.
LEMMA RequestSteps ==
    ASSUME IndexInv, NEW u \in Uploads,
           rebuild_offline_upload_index(u) \/ BeginUpload(u) \/ StageUpload(u) \/ LeaveUpload(u)
    PROVE  IndexInv'
<1>1. TypeInv /\ u \in CaptureSources /\ UploadInv(u)  BY Constants DEF IndexInv
<1>2. UNCHANGED <<capture, version, wish, task, owner, intent, ptask, pgens, powner, worker, poster, fatal>>
  BY DEF rebuild_offline_upload_index, BeginUpload, StageUpload, LeaveUpload, sourceRows, liveRows,
         structure, postingRows, postings
<1>3. indexing[u].build \in Nat /\ indexing[u].build \in 0 .. MaxBuilds /\ owner[u] \in Nat
  BY <1>1, RequestFields, ZenonT(30)
<1>4. CASE rebuild_offline_upload_index(u)
  <2>1. indexing[u].build < MaxBuilds /\ SetRequest(u, "open", indexing[u].build + 1) /\ UNCHANGED gens
    BY <1>4, Zenon DEF rebuild_offline_upload_index, structure
  <2>2. owner[u] <= indexing[u].build  BY <1>1 DEF UploadInv, UploadOK
  <2> DEFINE n == indexing[u].build + 1
  <2>3. n \in 0 .. MaxBuilds /\ n > 0 /\ owner[u] <= n /\ owner[u] < n /\ indexing[u].build < n /\ indexing[u].build <= n
    BY <1>3, <2>1, <2>2, Numbers
  <2>4. SetRequest(u, "open", n)  BY <2>1
  <2> HIDE DEF n
  <2>5. RequestsGood  BY <1>1, <1>2, <2>3, <2>4, RequestUpdate DEF IndexInv
  <2>6. OwnersGood  BY <1>1, <1>2, <2>1, OwnersUnchanged, Zenon DEF IndexInv
  <2> QED
    BY <1>1, <1>2, <2>5, <2>6, LiveUnchanged, PostingsUnchanged, PostersUnchanged, WorkersUnchanged, Together
    DEF IndexInv, RowsGood
<1>5. ASSUME OwnersGood, RequestsGood  PROVE IndexInv'
  <2>1. LiveGood /\ PostingsGood  BY <1>1, <1>2, LiveUnchanged, PostingsUnchanged, Zenon DEF IndexInv
  <2>2. RowsGood  BY <1>5, <2>1 DEF RowsGood
  <2> QED  BY <1>1, <1>2, <2>2, PostersUnchanged, WorkersUnchanged, Together
<1>6. CASE BeginUpload(u)
  <2>1. /\ indexing[u].pc = "open" /\ gens' = [gens EXCEPT ![u] = @ \cup {Staging(indexing[u].build)}]
        /\ SetRequest(u, "scan", indexing[u].build)
    BY <1>6 DEF BeginUpload
  <2>2. indexing[u].build \in BuildNumbers  BY <1>1, <1>3, <2>1, Numbers DEF UploadInv, UploadOK
  <2>3. OwnersGood  BY <1>1, <1>2, <2>1, <2>2, StagingGood, Zenon DEF IndexInv
  <2>4. RequestsGood  BY <1>1, <1>2, <2>1, RequestStep DEF IndexInv
  <2> QED  BY <1>5, <2>3, <2>4
<1>7. CASE StageUpload(u)
  <2>1. UNCHANGED gens /\ indexing[u].pc = "scan" /\ SetRequest(u, "publish", indexing[u].build)
    BY <1>7, ZenonT(30) DEF StageUpload, structure
  <2>2. OwnersGood  BY <1>1, <1>2, <2>1, OwnersUnchanged, Zenon DEF IndexInv
  <2>3. RequestsGood  BY <1>1, <1>2, <2>1, RequestStep DEF IndexInv
  <2> QED  BY <1>5, <2>2, <2>3
<1>8. CASE LeaveUpload(u)
  <2>1. /\ indexing[u].pc \in {"open", "scan", "publish"} /\ SetRequest(u, "none", indexing[u].build)
        /\ \/ gens' = [gens EXCEPT ![u] = @ \ {Staging(indexing[u].build)}]
           \/ UNCHANGED gens
    BY <1>8 DEF LeaveUpload, abort_structural_index
  <2>2. indexing[u].build \in BuildNumbers  BY <1>1, <1>3, <2>1, Numbers DEF UploadInv, UploadOK
  <2>3. OwnersGood  BY <1>1, <1>2, <2>1, <2>2, StagingGood, OwnersUnchanged, ZenonT(30) DEF IndexInv
  <2>4. RequestsGood  BY <1>1, <1>2, <2>1, RequestStep, Zenon DEF IndexInv
  <2> QED  BY <1>5, <2>3, <2>4
<1> QED  BY <1>4, <1>6, <1>7, <1>8

LEMMA PublishUploadStep ==
    ASSUME IndexInv, NEW u \in Uploads, NEW ask \in BOOLEAN, PublishUpload(u, ask)
    PROVE  IndexInv'
<1>1. PICK n : n = indexing[u].build  OBVIOUS
<1>2. /\ TypeInv /\ u \in CaptureSources /\ UploadInv(u) /\ indexing[u].pc = "publish"
      /\ capture[u] = "stored" /\ u \in version /\ TakeOwnership(u, n, ask)
      /\ SetRequest(u, IF ask THEN "admit" ELSE "none", n)
      /\ UNCHANGED <<capture, version, wish, task, worker, poster, fatal>>
  BY <1>1, Constants, ZenonT(30) DEF IndexInv, PublishUpload, PublishAllowed, sourceRows, liveRows
<1>3. n \in 0 .. MaxBuilds /\ n \in BuildNumbers /\ n > 0 /\ n \in Nat /\ owner[u] < n /\ owner[u] \in Nat
  BY <1>1, <1>2, RequestFields, Numbers, ZenonT(30) DEF UploadInv, UploadOK
<1>4. owner' = [owner EXCEPT ![u] = n]  BY <1>2, Zenon DEF TakeOwnership
<1>5. owner'[u] = n /\ \A h \in CaptureSources \ {u} : owner'[h] = owner[h]  BY <1>2, <1>4 DEF TypeInv
<1>6. OwnersGood  BY <1>1, <1>2, <1>3, OwnershipGood DEF IndexInv
<1>7. LiveGood
  <2>1. \A s \in Segments : capture'[s] = capture[s] /\ owner'[s] = owner[s]  BY <1>2, <1>5, Constants
  <2> QED  BY <1>2, <2>1, LiveUnchanged DEF IndexInv
<1>8. RequestsGood
  <2> DEFINE pc == IF ask THEN "admit" ELSE "none"
  <2>1. pc \in {"none", "open", "scan", "publish", "admit"} /\ pc \notin {"open", "scan", "publish"}  OBVIOUS
  <2>2. SetRequest(u, pc, n)  BY <1>2
  <2>3. \A h \in Uploads \ {u} : owner'[h] = owner[h]  BY <1>5, Constants
  <2> HIDE DEF pc
  <2> QED  BY <1>1, <1>2, <1>3, <1>5, <2>1, <2>2, <2>3, RequestUpdate DEF IndexInv
<1>9. PostingsGood
  <2>1. n # owner[u]  BY <1>3
  <2> QED  BY <1>2, <1>3, <2>1, TakeOwnershipGood DEF IndexInv
<1>10. RowsGood  BY <1>6, <1>7, <1>8, <1>9 DEF RowsGood
<1> QED  BY <1>2, <1>10, PostersUnchanged, WorkersUnchanged, Together

LEMMA UploadSteps ==
    ASSUME IndexInv, NEW u \in Uploads, UploadStep(u)
    PROVE  IndexInv'
BY StoreUploadStep, RequestSteps, PublishUploadStep DEF UploadStep

\* Whatever changes no capture, structural row or posting row.
LEMMA LiveOnly ==
    ASSUME IndexInv, LiveGood, WorkersGood,
           UNCHANGED <<capture, version, gens, owner, intent, ptask, pgens, powner, indexing, poster>>
    PROVE  IndexInv'
<1>1. TypeInv  BY DEF IndexInv
<1>2. OwnersGood /\ PostingsGood  BY <1>1, OwnersUnchanged, PostingsUnchanged DEF IndexInv
<1>3. RequestsGood  BY <1>1, RequestsUnchanged DEF IndexInv
<1>4. RowsGood  BY <1>2, <1>3 DEF RowsGood
<1> QED  BY <1>4, PostersUnchanged, Together

LEMMA SegmentSteps ==
    ASSUME IndexInv, NEW s \in Segments,
           \/ StoreSegment(s) \/ admit_live_segment_index(s) \/ recover_live_segment_indexes(s)
           \/ cleanup_terminal_live_segment_indexes(s) \/ TickLive(s)
    PROVE  IndexInv'
<1>1. TypeInv /\ \A h \in Segments : SegmentInv(h)  BY DEF IndexInv
<1>2. CASE StoreSegment(s)
  <2>1. /\ s \in CaptureSources /\ capture' = [capture EXCEPT ![s] = "stored"]
        /\ UNCHANGED <<version, gens, owner, intent, ptask, pgens, powner, indexing, worker, poster, fatal>>
    BY <1>2, Constants DEF StoreSegment, structure, postingRows, postings, builders
  <2>2. OwnersGood /\ PostingsGood  BY <1>1, <2>1, StoreOwnersGood, PostingsUnchanged, Zenon DEF IndexInv
  <2>3. RequestsGood  BY <1>1, <2>1, RequestsUnchanged DEF IndexInv
  <2>4. RowsGood  BY <1>1, <1>2, <2>2, <2>3, StoreSegmentGood DEF RowsGood
  <2> QED  BY <1>1, <2>1, <2>4, PostersUnchanged, WorkersUnchanged, Together
<1>3. CASE ~StoreSegment(s)
  <2>1. UNCHANGED <<capture, version, gens, owner, intent, ptask, pgens, powner, indexing, worker, poster, fatal>>
    BY <1>3 DEF admit_live_segment_index, recover_live_segment_indexes,
                cleanup_terminal_live_segment_indexes, TickLive, sourceRows, structure, postingRows,
                postings, builders
  <2>2. LiveGood
    BY <1>1, <1>3, AdmitLiveGood, RecoverLiveGood, ForgetLiveGood, TickLiveGood
  <2> QED  BY <1>1, <2>1, <2>2, WorkersUnchanged, LiveOnly
<1> QED  BY <1>2, <1>3

\* Whatever changes posting rows only.
LEMMA PostingOnly ==
    ASSUME IndexInv, PostingsGood, UNCHANGED <<capture, version, wish, task, gens, owner, indexing>>
    PROVE  RowsGood
<1>1. TypeInv  BY DEF IndexInv
<1>2. OwnersGood /\ LiveGood  BY <1>1, OwnersUnchanged, LiveUnchanged DEF IndexInv
<1>3. RequestsGood  BY <1>1, RequestsUnchanged DEF IndexInv
<1> QED  BY <1>2, <1>3 DEF RowsGood

LEMMA DeleteStep ==
    ASSUME IndexInv, NEW s \in CaptureSources, delete_job(s)
    PROVE  IndexInv'
<1>1. TypeInv /\ UNCHANGED <<indexing, worker, poster, fatal>> /\ owner' = [owner EXCEPT ![s] = 0]
  BY DEF IndexInv, delete_job, builders
<1>2. OwnersGood /\ LiveGood /\ PostingsGood
  BY <1>1, DeleteOwnersGood, DeleteLiveGood, DeleteGood DEF IndexInv
<1>3. \A u \in Uploads : owner'[u] \in {0, owner[u]}  BY <1>1, Constants DEF TypeInv
<1>4. RequestsGood  BY <1>1, <1>3, RequestsUnchanged DEF IndexInv
<1>5. RowsGood  BY <1>2, <1>4 DEF RowsGood
<1> QED  BY <1>1, <1>5, PostersUnchanged, WorkersUnchanged, Together

LEMMA SourceSteps ==
    ASSUME IndexInv, NEW s \in CaptureSources,
           \/ reconcile_posting_indexes(s) \/ request_posting_index_backfill(s)
           \/ recover_posting_indexes(s) \/ cleanup_terminal_posting_indexes(s)
           \/ cleanup_stale_posting_indexes(s) \/ TickPosting(s)
    PROVE  IndexInv'
<1>1. TypeInv /\ \A h \in CaptureSources : RowsOK(h)  BY DEF IndexInv
<1>2. UNCHANGED <<capture, version, wish, task, gens, owner, indexing, worker, poster, fatal>>
  BY DEF reconcile_posting_indexes, request_posting_index_backfill, recover_posting_indexes,
         cleanup_terminal_posting_indexes, cleanup_stale_posting_indexes, TickPosting,
         sourceRows, liveRows, structure, builders
<1>3. CASE reconcile_posting_indexes(s)
  <2>1. AdmitPosting(s) /\ UNCHANGED <<pgens, powner, owner>>
    BY <1>3 DEF reconcile_posting_indexes, postings, structure
  <2> QED  BY <1>1, <1>2, <2>1, AdmitGood, PostingOnly, PostersUnchanged, WorkersUnchanged, Together
<1>4. CASE ~reconcile_posting_indexes(s)
  <2>1. PostingsGood
    BY <1>1, <1>4, BackfillGood, RecoverGood, ForgetGood, SweepGood, TickGood
  <2> QED  BY <1>1, <1>2, <2>1, PostingOnly, PostersUnchanged, WorkersUnchanged, Together
<1> QED  BY <1>3, <1>4

\* Whatever changes structural generations only.
LEMMA StagingOnly ==
    ASSUME IndexInv, OwnersGood, WorkersGood,
           UNCHANGED <<capture, version, wish, task, owner, intent, ptask, pgens, powner, indexing, poster>>
    PROVE  IndexInv'
<1>1. TypeInv  BY DEF IndexInv
<1>2. LiveGood /\ PostingsGood  BY <1>1, LiveUnchanged, PostingsUnchanged DEF IndexInv
<1>3. RequestsGood  BY <1>1, RequestsUnchanged DEF IndexInv
<1>4. RowsGood  BY <1>2, <1>3 DEF RowsGood
<1> QED  BY <1>4, PostersUnchanged, Together

LEMMA StaleStep ==
    ASSUME IndexInv, NEW s \in CaptureSources, NEW n \in BuildNumbers,
           cleanup_stale_structural_indexes(s, n)
    PROVE  IndexInv'
<1>1. /\ TypeInv /\ gens' = [gens EXCEPT ![s] = @ \ {Staging(n)}]
      /\ UNCHANGED <<capture, version, wish, task, owner, intent, ptask, pgens, powner, indexing, worker, poster, fatal>>
  BY DEF IndexInv, cleanup_stale_structural_indexes, abort_structural_index, sourceRows, liveRows,
         postingRows, postings, builders
<1> QED  BY <1>1, StagingGood, WorkersUnchanged, StagingOnly, Zenon DEF IndexInv

LEMMA WorkerBuildSteps ==
    ASSUME IndexInv, NEW w \in IndexWorkers, BeginLive(w) \/ StageLive(w) \/ LeaveLive(w)
    PROVE  IndexInv'
<1>1. TypeInv /\ worker[w].pc # "idle"
  BY Zenon DEF IndexInv, BeginLive, StageLive, LeaveLive, Building
<1>2. PICK s \in CaptureSources, n \in BuildNumbers : s = worker[w].src /\ n = worker[w].build
  BY <1>1, WorkerTypes
<1>3. UNCHANGED <<capture, version, wish, task, owner, intent, ptask, pgens, powner, indexing, poster, fatal>>
  BY Zenon DEF BeginLive, StageLive, LeaveLive, sourceRows, liveRows, structure, postingRows, postings
<1>4. WorkersGood  BY <1>1, <1>3, WorkerSteps DEF BeginLive, StageLive, LeaveLive
<1>5. \/ gens' = [gens EXCEPT ![s] = @ \cup {Staging(n)}]
      \/ gens' = [gens EXCEPT ![s] = @ \ {Staging(n)}]
      \/ UNCHANGED gens
  BY <1>2 DEF BeginLive, StageLive, LeaveLive, abort_structural_index, structure
<1>6. OwnersGood  BY <1>1, <1>3, <1>5, StagingGood, OwnersUnchanged DEF IndexInv
<1> QED  BY <1>3, <1>4, <1>6, StagingOnly

LEMMA PublishLiveStep ==
    ASSUME IndexInv, NEW w \in IndexWorkers, NEW ask \in BOOLEAN, publish_live_structural_index(w, ask)
    PROVE  IndexInv'
<1>1. TypeInv /\ worker[w].pc = "scanned"  BY DEF IndexInv, publish_live_structural_index
<1>2. PICK s \in Segments, n \in BuildNumbers : s = worker[w].src /\ n = worker[w].build
  BY <1>1, WorkerTypes
<1>3. /\ capture[s] = "stored" /\ Owns(s, n) /\ version' = version \cup {s} /\ TakeOwnership(s, n, ask)
      /\ SetTask(s, [task[s] EXCEPT !.status = "COMPLETED", !.lease = 0], "COMPLETED")
      /\ StepWorker(w, IF ask THEN "admit" ELSE "done")
      /\ UNCHANGED <<capture, indexing, poster, fatal>>
  BY <1>2 DEF publish_live_structural_index, PublishLiveAllowed
<1>4. s \in CaptureSources /\ s \notin Uploads /\ owner' = [owner EXCEPT ![s] = n]
  BY <1>3, Constants DEF TakeOwnership
<1>5. wish[s] = "PENDING" /\ owner[s] = 0 /\ n # 0
  BY <1>3, Numbers DEF IndexInv, SegmentInv, SegmentOK, Owns
<1>6. OwnersGood  BY <1>1, <1>3, <1>4, <1>5, OwnershipGood DEF IndexInv
<1>7. LiveGood  BY <1>1, <1>3, <1>4, PublishLiveGood, Zenon DEF IndexInv
<1>8. PostingsGood  BY <1>1, <1>3, <1>4, <1>5, TakeOwnershipGood DEF IndexInv
<1>9. RequestsGood
  <2>1. \A u \in Uploads : owner'[u] \in {0, owner[u]}  BY <1>1, <1>4, Constants DEF TypeInv
  <2> QED  BY <1>1, <1>3, <2>1, RequestsUnchanged DEF IndexInv
<1>10. WorkersGood
  <2>1. CASE ask  BY <2>1, <1>1, <1>3, WorkerSteps
  <2>2. CASE ~ask  BY <2>2, <1>1, <1>3, WorkerSteps
  <2> QED  BY <2>1, <2>2
<1>11. RowsGood  BY <1>6, <1>7, <1>8, <1>9 DEF RowsGood
<1> QED  BY <1>3, <1>10, <1>11, PostersUnchanged, Together

LEMMA ClaimLiveStep ==
    ASSUME IndexInv, NEW w \in IndexWorkers, NEW s \in Segments, claim_live_segment_index(w, s)
    PROVE  IndexInv'
<1> DEFINE b == [Idle EXCEPT !.pc = "claimed", !.src = s, !.build = task[s].attempt + 1]
<1>1. /\ TypeInv /\ task[s].status = "QUEUED" /\ worker' = [worker EXCEPT ![w] = b]
      /\ UNCHANGED <<capture, version, gens, owner, intent, ptask, pgens, powner, indexing, poster, fatal>>
  BY DEF IndexInv, claim_live_segment_index, sourceRows, structure, postingRows, postings
<1>2. task[s].attempt < MaxAttempts  BY <1>1 DEF IndexInv, SegmentInv, SegmentOK
<1>3. task[s].attempt + 1 \in Tries  BY <1>1, <1>2, LiveFields, Numbers
<1>4. b \in WorkerRecords  BY <1>3, Zenon DEF Idle, WorkerRecords
<1> HIDE DEF b
<1>5. WorkersGood  BY <1>1, <1>4 DEF TypeInv, WorkersGood
<1>6. LiveGood  BY <1>1, ClaimLiveGood, Zenon DEF IndexInv
<1> QED  BY <1>1, <1>5, <1>6, LiveOnly

LEMMA WorkerTaskSteps ==
    ASSUME IndexInv, NEW w \in IndexWorkers,
           heartbeat_live_segment_index(w) \/ SettleLive(w) \/ TimeoutLive(w)
    PROVE  IndexInv'
<1>1. TypeInv /\ (\A h \in Segments : SegmentInv(h)) /\ worker[w].pc # "idle"
  BY Zenon DEF IndexInv, heartbeat_live_segment_index, SettleLive, TimeoutLive, Building
<1>2. PICK s \in Segments, n \in BuildNumbers : s = worker[w].src /\ n = worker[w].build
  BY <1>1, WorkerTypes
<1>3. UNCHANGED <<capture, version, gens, owner, intent, ptask, pgens, powner, indexing, poster>>
  BY Zenon DEF heartbeat_live_segment_index, SettleLive, TimeoutLive, sourceRows, structure, postingRows,
         postings, builders
<1>4. CASE heartbeat_live_segment_index(w)
  <2>1. /\ Owns(s, n) /\ task' = [task EXCEPT ![s].lease = LeaseTicks] /\ UNCHANGED <<wish, worker, fatal>>
    BY <1>2, <1>4 DEF heartbeat_live_segment_index, builders
  <2>2. LiveGood  BY <1>1, <1>3, <2>1, HeartbeatLiveGood, Zenon
  <2> QED  BY <1>1, <1>3, <2>1, <2>2, WorkersUnchanged, LiveOnly
<1>5. CASE SettleLive(w)
  <2>1. /\ worker' = [worker EXCEPT ![w] = Idle] /\ (fatal' = fatal \/ fatal' = fatal \cup {"live"})
        /\ \/ UNCHANGED liveRows
           \/ fail_live_segment_index(s, n, worker[w].pc = "transient")
    BY <1>2, <1>5 DEF SettleLive
  <2>2. WorkersGood  BY <1>1, <2>1, ZenonT(30) DEF TypeInv, WorkersGood
  <2>3. CASE UNCHANGED liveRows
    BY <1>1, <1>3, <2>2, <2>3, LiveUnchanged, LiveOnly, Zenon DEF liveRows
  <2>4. CASE fail_live_segment_index(s, n, worker[w].pc = "transient")
    <3>1. PICK transient \in BOOLEAN : transient = (worker[w].pc = "transient")  BY Zenon
    <3>2. fail_live_segment_index(s, n, transient)  BY <2>4, <3>1
    <3> QED  BY <1>1, <1>3, <2>2, <3>2, FailLiveGood, LiveOnly, Zenon
  <2> QED  BY <2>1, <2>3, <2>4
<1>6. CASE TimeoutLive(w)
  <2>1. /\ fail_live_segment_index(s, n, TRUE) /\ worker' = [worker EXCEPT ![w].orphan = TRUE]
        /\ fatal' = fatal \cup {"live"}
    BY <1>2, <1>6, Zenon DEF TimeoutLive
  <2>2. worker[w] \in WorkerRecords  BY <1>1, WorkerTypes
  <2>3. [worker[w] EXCEPT !.orphan = TRUE] \in WorkerRecords  BY <2>2, Zenon DEF WorkerRecords
  <2>4. worker' = [worker EXCEPT ![w] = [worker[w] EXCEPT !.orphan = TRUE]]  BY <2>1
  <2>5. WorkersGood  BY <1>1, <2>1, <2>3, <2>4 DEF TypeInv, WorkersGood
  <2> QED  BY <1>1, <1>3, <2>1, <2>5, FailLiveGood, LiveOnly, Zenon
<1> QED  BY <1>4, <1>5, <1>6

LEMMA PosterRowSteps ==
    ASSUME IndexInv, NEW p \in PostingWorkers,
           \/ BeginPosting(p) \/ StagePosting(p) \/ publish_posting_index(p) \/ LeavePosting(p)
    PROVE  IndexInv'
<1>1. /\ TypeInv /\ (\A h \in CaptureSources : RowsOK(h)) /\ poster[p].pc # "idle"
  BY DEF IndexInv, BeginPosting, StagePosting, publish_posting_index, LeavePosting
<1>2. UNCHANGED <<capture, version, wish, task, gens, owner, indexing, worker, fatal>>
  BY DEF BeginPosting, StagePosting, publish_posting_index, LeavePosting, sourceRows, liveRows, structure
<1>3. WorkersGood  BY <1>1, <1>2, WorkersUnchanged
<1>4. PostingsGood
  <2>1. CASE StagePosting(p)
    BY <1>1, <1>2, <2>1, PostingsUnchanged DEF StagePosting, postingRows, postings
  <2> QED  BY <1>1, <2>1, BeginPostingGood, PublishPostingGood, LeavePostingGood
<1>5. RowsGood  BY <1>2, <1>4, PostingOnly
<1>6. CASE BeginPosting(p)
  <2>1. PICK s \in CaptureSources : s = poster[p].src  BY <1>1, PosterTypes
  <2> DEFINE d == Draft(poster[p])
  <2>2. pgens' = [pgens EXCEPT ![s] = @ \cup {d}] /\ StepPoster(p, "staging")
    BY <1>6, <2>1 DEF BeginPosting
  <2>3. d.parent = poster[p].parent /\ d.attempt = poster[p].attempt /\ d.state = "STAGING"  BY DEF Draft
  <2>4. d \in pgens'[s]  BY <1>1, <2>2 DEF TypeInv
  <2> HIDE DEF d
  <2> QED  BY <1>1, <1>3, <1>5, <2>1, <2>2, <2>3, <2>4, PosterSteps, Together
<1>7. CASE StagePosting(p)
  BY <1>1, <1>3, <1>5, <1>7, PosterSteps, Together, Zenon DEF StagePosting
<1>8. CASE publish_posting_index(p)
  BY <1>1, <1>3, <1>5, <1>8, PosterSteps, Together DEF publish_posting_index
<1>9. CASE LeavePosting(p)
  BY <1>1, <1>3, <1>5, <1>9, PosterSteps, Together, Zenon DEF LeavePosting
<1> QED  BY <1>6, <1>7, <1>8, <1>9

LEMMA PosterTaskSteps ==
    ASSUME IndexInv, NEW p \in PostingWorkers,
           heartbeat_posting_index(p) \/ SettlePosting(p) \/ TimeoutPosting(p) \/ LosePosting(p)
    PROVE  IndexInv'
<1>1. /\ TypeInv /\ (\A h \in CaptureSources : RowsOK(h)) /\ poster[p].pc # "idle"
  BY Zenon DEF IndexInv, heartbeat_posting_index, SettlePosting, TimeoutPosting, LosePosting
<1>2. PICK s \in CaptureSources, parent \in BuildNumbers, attempt \in Tries :
          s = poster[p].src /\ parent = poster[p].parent /\ attempt = poster[p].attempt
  BY <1>1, PosterTypes
<1>3. UNCHANGED <<capture, version, wish, task, gens, owner, pgens, powner, indexing, worker>>
  BY Zenon DEF heartbeat_posting_index, SettlePosting, TimeoutPosting, LosePosting, sourceRows, liveRows,
         structure, postings, builders
<1>4. CASE heartbeat_posting_index(p)
  <2>1. /\ OwnsPosting(s, parent, attempt) /\ ptask' = [ptask EXCEPT ![s].lease = LeaseTicks]
        /\ UNCHANGED <<intent, poster, fatal>>
    BY <1>2, <1>4 DEF heartbeat_posting_index, builders
  <2>2. PostingsGood  BY <1>1, <1>3, <2>1, HeartbeatGood, Zenon
  <2> QED  BY <1>1, <1>3, <2>1, <2>2, PostingOnly, PostersUnchanged, WorkersUnchanged, Together
<1>5. CASE SettlePosting(p)
  <2>1. /\ poster' = [poster EXCEPT ![p] = NoPoster] /\ (fatal' = fatal \/ fatal' = fatal \cup {"posting"})
        /\ \/ UNCHANGED postingRows
           \/ fail_posting_index(s, parent, attempt, poster[p].pc = "transient")
    BY <1>2, <1>5 DEF SettlePosting
  <2>2. PICK transient \in BOOLEAN : transient = (poster[p].pc = "transient")  BY Zenon
  <2>3. UNCHANGED postingRows \/ fail_posting_index(s, parent, attempt, transient)  BY <2>1, <2>2
  <2>4. PostingsGood
    BY <1>1, <1>3, <2>3, PostingsUnchanged, FailGood, Zenon DEF postingRows
  <2> QED  BY <1>1, <1>3, <2>1, <2>4, PostingOnly, PosterEnds, WorkersUnchanged, Together, Zenon
<1>6. CASE TimeoutPosting(p)
  <2>1. /\ fail_posting_index(s, parent, attempt, TRUE) /\ poster' = [poster EXCEPT ![p].orphan = TRUE]
        /\ fatal' = fatal \cup {"posting"}
    BY <1>2, <1>6, Zenon DEF TimeoutPosting
  <2>2. PostingsGood  BY <1>1, <1>3, <2>1, FailGood, Zenon
  <2> QED  BY <1>1, <1>3, <2>1, <2>2, PostingOnly, PosterEnds, WorkersUnchanged, Together, Zenon
<1>7. CASE LosePosting(p)
  <2>1. /\ \/ poster' = [poster EXCEPT ![p] = NoPoster] \/ poster' = [poster EXCEPT ![p].orphan = TRUE]
        /\ fatal' = fatal \/ fatal' = fatal \cup {"posting"}
        /\ UNCHANGED <<intent, ptask>>
    BY <1>7 DEF LosePosting, postingRows
  <2>2. PostingsGood  BY <1>1, <1>3, <2>1, PostingsUnchanged
  <2> QED  BY <1>1, <1>3, <2>1, <2>2, PostingOnly, PosterEnds, WorkersUnchanged, Together
<1> QED  BY <1>4, <1>5, <1>6, <1>7

LEMMA ClaimPostingStep ==
    ASSUME IndexInv, NEW p \in PostingWorkers, NEW s \in CaptureSources, claim_posting_index(p, s)
    PROVE  IndexInv'
<1>1. TypeInv /\ UNCHANGED <<capture, version, wish, task, gens, owner, indexing, worker, fatal>>
  BY DEF IndexInv, claim_posting_index, sourceRows, liveRows, structure
<1>2. PostingsGood  BY <1>1, ClaimGood DEF IndexInv
<1> QED  BY <1>1, <1>2, PostingOnly, PostersClaim, WorkersUnchanged, Together

LEMMA AdmitStep ==
    ASSUME IndexInv, AdmitAfterPublish
    PROVE  IndexInv'
<1>1. /\ TypeInv /\ \A h \in CaptureSources : RowsOK(h)
      /\ UNCHANGED <<capture, version, wish, task, gens, owner, pgens, powner, poster, fatal>>
  BY DEF IndexInv, AdmitAfterPublish, sourceRows, liveRows, structure, postings
<1>2. ASSUME NEW s \in CaptureSources, AdmitPosting(s) \/ UNCHANGED postingRows
      PROVE  PostingsGood
  BY <1>1, <1>2, AdmitGood, PostingsUnchanged DEF postingRows
<1>3. ASSUME NEW u \in Uploads, indexing[u].pc = "admit", AdmitPosting(u) \/ UNCHANGED postingRows,
             SetRequest(u, "none", indexing[u].build), UNCHANGED worker
      PROVE  IndexInv'
  <2>1. PostingsGood  BY <1>2, <1>3, Constants
  <2>2. OwnersGood /\ LiveGood  BY <1>1, OwnersUnchanged, LiveUnchanged DEF IndexInv
  <2>3. RequestsGood  BY <1>1, <1>3, RequestStep DEF IndexInv
  <2>4. RowsGood  BY <2>1, <2>2, <2>3 DEF RowsGood
  <2> QED  BY <1>1, <1>3, <2>4, PostersUnchanged, WorkersUnchanged, Together
<1>4. ASSUME NEW w \in IndexWorkers, worker[w].pc = "admit",
             AdmitPosting(worker[w].src) \/ UNCHANGED postingRows, StepWorker(w, "done"), UNCHANGED indexing
      PROVE  IndexInv'
  <2>1. PICK s \in CaptureSources : s = worker[w].src  BY <1>1, <1>4, WorkerTypes
  <2>2. AdmitPosting(s) \/ UNCHANGED postingRows  BY <1>4, <2>1
  <2>3. PostingsGood  BY <1>2, <2>2
  <2>4. WorkersGood  BY <1>1, <1>4, WorkerSteps
  <2> QED  BY <1>1, <1>4, <2>3, <2>4, PostingOnly, PostersUnchanged, Together
<1> QED  BY <1>3, <1>4 DEF AdmitAfterPublish

LEMMA RestartSteps ==
    ASSUME IndexInv, RestartLive \/ RestartPosting
    PROVE  IndexInv'
<1>1. TypeInv  BY DEF IndexInv
<1>2. UNCHANGED <<capture, version, wish, task, gens, owner, intent, ptask, pgens, powner, indexing>>
  BY DEF RestartLive, RestartPosting, sourceRows, liveRows, structure, postingRows, postings
<1>3. RowsGood  BY <1>1, <1>2, PostingsUnchanged, PostingOnly DEF IndexInv
<1>4. CASE RestartLive
  <2>1. worker' = [w \in IndexWorkers |-> Idle] /\ fatal' = fatal \ {"live"} /\ UNCHANGED poster
    BY <1>4 DEF RestartLive
  <2>2. WorkersGood  BY <1>1, <2>1 DEF TypeInv, WorkersGood
  <2> QED  BY <1>3, <2>1, <2>2, PostersUnchanged, Together
<1>5. CASE RestartPosting
  <2>1. poster' = [p \in PostingWorkers |-> NoPoster] /\ fatal' = fatal \ {"posting"} /\ UNCHANGED worker
    BY <1>5 DEF RestartPosting
  <2>2. \A p \in PostingWorkers : PosterKept(p)  BY <2>1 DEF PosterKept, NoPoster
  <2>3. PostersGood  BY <1>3, <2>1, <2>2, PostersKept
  <2> QED  BY <1>1, <1>3, <2>1, <2>3, WorkersUnchanged, Together
<1> QED  BY <1>4, <1>5

LEMMA NextIndexInv ==
    ASSUME IndexInv, [PcapIndexNext]_indexVars
    PROVE  IndexInv'
<1>1. CASE UNCHANGED indexVars
  <2>1. /\ TypeInv /\ UNCHANGED <<capture, version, wish, task, gens, owner, intent, ptask, pgens, powner,
                                  indexing, worker, poster, fatal>>
    BY <1>1 DEF indexVars, IndexInv
  <2>2. RowsGood  BY <2>1, PostingsUnchanged, PostingOnly DEF IndexInv
  <2> QED  BY <2>1, <2>2, PostersUnchanged, WorkersUnchanged, Together
<1>2. ASSUME NEW s \in CaptureSources,
             \/ delete_job(s) \/ reconcile_posting_indexes(s) \/ request_posting_index_backfill(s)
             \/ recover_posting_indexes(s) \/ cleanup_terminal_posting_indexes(s)
             \/ cleanup_stale_posting_indexes(s) \/ TickPosting(s)
             \/ \E n \in BuildNumbers : cleanup_stale_structural_indexes(s, n)
      PROVE  IndexInv'
  BY <1>2, DeleteStep, SourceSteps, StaleStep
<1>3. ASSUME NEW w \in IndexWorkers,
             \/ WorkerStep(w) \/ TimeoutLive(w) \/ heartbeat_live_segment_index(w)
             \/ \E s \in Segments : claim_live_segment_index(w, s)
      PROVE  IndexInv'
  BY <1>3, WorkerBuildSteps, PublishLiveStep, WorkerTaskSteps, ClaimLiveStep DEF WorkerStep
<1>4. ASSUME NEW p \in PostingWorkers,
             \/ PosterStep(p) \/ TimeoutPosting(p) \/ LosePosting(p) \/ heartbeat_posting_index(p)
             \/ \E s \in CaptureSources : claim_posting_index(p, s)
      PROVE  IndexInv'
  BY <1>4, PosterRowSteps, PosterTaskSteps, ClaimPostingStep DEF PosterStep
<1>5. CASE PcapIndexNext
  BY <1>2, <1>3, <1>4, <1>5, UploadSteps, SegmentSteps, AdmitStep, RestartSteps DEF PcapIndexNext
<1> QED  BY <1>1, <1>5

\* The inductive invariant holds of every state of the tables and their builders.
THEOREM IndexStaysSound == PcapIndexSpec => []IndexInv
BY InitIndexInv, NextIndexInv, PTL DEF PcapIndexSpec

LEMMA InvOwners == IndexInv => OwnersAreWhole
<1> SUFFICES ASSUME IndexInv  PROVE OwnersAreWhole
  OBVIOUS
<1>1. TypeInv /\ HeldDraftsStay  BY DEF IndexInv
<1>2. IndexTypeOK
  <2>1. \A s \in CaptureSources :
           /\ gens[s] \subseteq [build : BuildNumbers, state : {"STAGING", "READY"}]
           /\ owner[s] \in 0 .. MaxBuilds \cup BuildNumbers
           /\ ptask[s].attempt \in 0 .. MaxAttempts /\ ptask[s].lease \in 0 .. LeaseTicks
    BY <1>1, RowTypes, LifecycleFields, Constants DEF GenRecords, Owners
  <2>2. \A s \in Segments : task[s].attempt \in 0 .. MaxAttempts /\ task[s].lease \in 0 .. LeaseTicks
    BY <1>1, LiveFields
  <2> QED  BY <1>1, <2>1, <2>2 DEF TypeInv, IndexTypeOK, WishStates
<1>3. ASSUME NEW s \in CaptureSources
      PROVE  /\ intent[s].parent \in {0, owner[s]} /\ ptask[s].parent \in {0, intent[s].parent}
             /\ \A g \in pgens[s] : g.parent = owner[s]
             /\ owner[s] # 0 => capture[s] = "stored" /\ s \in version
  <2>1. RowsOK(s) /\ OwnerInv(s)  BY DEF IndexInv
  <2>2. intent[s].parent \in {0, owner[s]}  BY <2>1 DEF RowsOK, LifecycleOK, NoIntent
  <2>3. ptask[s].parent \in {0, intent[s].parent}  BY <2>1 DEF RowsOK, LifecycleOK, NoPosting
  <2> QED  BY <2>1, <2>2, <2>3, Zenon DEF RowsOK, PostingOK, OwnerInv
<1>4. ASSUME NEW s \in CaptureSources
      PROVE  {g \in gens[s] : g.state = "READY"} = (IF owner[s] = 0 THEN {} ELSE {Ready(owner[s])})
  <2>1. OwnerInv(s) /\ gens[s] \subseteq GenRecords /\ owner[s] \in Owners  BY <1>1, RowTypes DEF IndexInv
  <2>2. ASSUME NEW g \in gens[s], g.state = "READY"
        PROVE  g = Ready(owner[s]) /\ owner[s] # 0
    <3>1. g \in GenRecords /\ g.build \in BuildNumbers  BY <2>1 DEF GenRecords
    <3>2. g = Ready(g.build)  BY <2>2, <3>1 DEF Ready, GenRecords
    <3> QED  BY <2>1, <3>1, <3>2, Numbers, Zenon DEF OwnerInv
  <2>3. owner[s] # 0 => Ready(owner[s]) \in gens[s]  BY <2>1 DEF OwnerInv, Owners
  <2>4. Ready(owner[s]).state = "READY"  BY DEF Ready
  <2> QED  BY <2>2, <2>3, <2>4, Zenon
<1>5. ASSUME NEW s \in CaptureSources
      PROVE  {<<g.parent, g.attempt>> : g \in {h \in pgens[s] : h.state = "READY"}}
                 = (IF powner[s] = 0 THEN {} ELSE {<<owner[s], powner[s]>>})
  <2>1. PostingOK(owner[s], intent[s], pgens[s], powner[s]) /\ pgens[s] \subseteq DraftRecords
    BY <1>1, RowTypes DEF IndexInv, RowsOK
  <2>2. \A g \in pgens[s] : g.state = "READY" =>
            g.parent = owner[s] /\ g.attempt = powner[s] /\ g.attempt # 0
    BY <2>1, Numbers DEF PostingOK, DraftRecords
  <2>3. CASE powner[s] = 0  BY <2>2, <2>3
  <2>4. CASE powner[s] # 0
    <3>1. PICK g \in pgens[s] : g.state = "READY"  BY <2>1, <2>4 DEF PostingOK
    <3> QED  BY <2>2, <2>4, <3>1
  <2> QED  BY <2>3, <2>4
<1> QED  BY <1>1, <1>2, <1>3, <1>4, <1>5 DEF OwnersAreWhole

LEMMA InvIntents == IndexInv => IntentsTellTheTruth
<1> SUFFICES ASSUME IndexInv  PROVE IntentsTellTheTruth
  OBVIOUS
<1>1. \A s \in Segments : wish[s] = "COMPLETED" <=> owner[s] # 0  BY DEF IndexInv, SegmentInv, SegmentOK
<1>2. \A s \in CaptureSources : intent[s].status = "COMPLETED" <=> powner[s] # 0
  BY DEF IndexInv, RowsOK, PostingOK
<1>3. \A s \in ActiveLive : wish[s] = "PENDING" /\ capture[s] = "stored"
  BY DEF IndexInv, SegmentInv, SegmentOK, ActiveLive
<1>4. \A s \in ActivePosting : Eligible(s) /\ ptask[s].parent = intent[s].parent
  BY DEF IndexInv, RowsOK, LifecycleOK, ActivePosting, Eligible, NoPosting
<1> QED  BY <1>1, <1>2, <1>3, <1>4 DEF IntentsTellTheTruth

\* What readers find is whole: the owner of a source is its only READY generation,
\* the posting owner the only READY one below it, and a build that holds its lease
\* keeps its draft, for any captures, workers, capacity, attempts and lease.
THEOREM OwnersHold == PcapIndexSpec => []OwnersAreWhole
BY IndexStaysSound, InvOwners, PTL

\* The intents tell what became of the index, whichever worker, orphan or late
\* attempt built it, and no active task is left that nobody waits for.
THEOREM IntentsHold == PcapIndexSpec => []IntentsTellTheTruth
BY IndexStaysSound, InvIntents, PTL

----------------------------------------------------------------------------
(* The PostgreSQL queue of live segments implements the queue under a lock. *)

LiveStep == [LiveQueue!Next]_(LiveQueue!queueVars)

LEMMA LiveStutters ==
    ASSUME UNCHANGED <<wish, task>>
    PROVE  LiveStep
BY DEF LiveStep, LiveQueue!queueVars

LEMMA LiveStoreStep ==
    ASSUME IndexInv, NEW s \in Segments, StoreSegment(s)
    PROVE  LiveStep
<1>1. wish[s] = "none"  BY DEF StoreSegment, IndexInv, SegmentInv, SegmentOK
<1>2. LiveQueue!Request(s)  BY <1>1 DEF StoreSegment, LiveQueue!Request, LiveQueue!Mark
<1> QED  BY <1>2 DEF LiveStep, LiveQueue!Next

LEMMA LiveAdmitStep ==
    ASSUME IndexInv, NEW s \in Segments, admit_live_segment_index(s)
    PROVE  LiveStep
<1>0. LiveQueue!ActiveTasks = ActiveLive  BY DEF LiveQueue!ActiveTasks, ActiveLive
<1>1. LiveQueue!Cardinality(LiveQueue!ActiveTasks) = Cardinality(ActiveLive)
  BY <1>0 DEF LiveQueue!Cardinality, Cardinality
<1>2. LiveQueue!NoTask = NoTask  BY DEF LiveQueue!NoTask, NoTask
<1>3. /\ task[s] = NoTask /\ wish[s] \in {"PENDING", "DEFERRED"} /\ AdmitWithinCapacity(s)
  BY DEF admit_live_segment_index
<1>4. task \in [Segments -> TaskRecords]  BY DEF IndexInv, TypeInv
<1>5. LiveQueue!admit(s)
  <2>1. CASE Cardinality(ActiveLive) >= QueueCapacity
    <3>1. task' = [task EXCEPT ![s] = NoTask] /\ wish' = [wish EXCEPT ![s] = "DEFERRED"]
      BY <1>3, <2>1 DEF AdmitWithinCapacity, SetTask
    <3>2. task' = task  BY <1>3, <1>4, <3>1
    <3> QED  BY <1>1, <1>2, <1>3, <2>1, <3>1, <3>2 DEF LiveQueue!admit, LiveQueue!Mark
  <2>2. CASE ~(Cardinality(ActiveLive) >= QueueCapacity)
    BY <1>1, <1>2, <1>3, <2>2 DEF AdmitWithinCapacity, SetTask, LiveQueue!admit, LiveQueue!Mark, LiveQueue!Put
  <2> QED  BY <2>1, <2>2
<1> QED  BY <1>5 DEF LiveStep, LiveQueue!Next, LiveQueue!reconcile

LEMMA LiveClaimStep ==
    ASSUME IndexInv, NEW w \in IndexWorkers, NEW s \in Segments, claim_live_segment_index(w, s)
    PROVE  LiveStep
<1>1. LiveQueue!claim(s)
  BY Zenon DEF claim_live_segment_index, LiveQueue!claim, LiveQueue!Put
<1> QED  BY <1>1 DEF LiveStep, LiveQueue!Next

LEMMA LiveHeartbeatStep ==
    ASSUME IndexInv, NEW w \in IndexWorkers, heartbeat_live_segment_index(w)
    PROVE  LiveStep
<1>1. TypeInv /\ worker[w].pc # "idle"  BY DEF IndexInv, heartbeat_live_segment_index
<1>2. PICK s \in Segments : s = worker[w].src  BY <1>1, WorkerTypes
<1>3. LiveQueue!heartbeat(s)
  BY <1>2 DEF heartbeat_live_segment_index, Owns, LiveQueue!heartbeat, LiveQueue!Holds, LiveQueue!Put
<1> QED  BY <1>3 DEF LiveStep, LiveQueue!Next

LEMMA LiveFailStep ==
    ASSUME IndexInv, NEW s \in Segments, NEW n, NEW transient \in BOOLEAN,
           fail_live_segment_index(s, n, transient)
    PROVE  LiveStep
<1>1. CASE Owns(s, n)
  <2>1. LiveQueue!fail(s, transient)
    BY <1>1 DEF fail_live_segment_index, Owns, SetTask, LiveQueue!fail, LiveQueue!Holds, LiveQueue!Put,
                LiveQueue!Mark
  <2> QED  BY <2>1 DEF LiveStep, LiveQueue!Next
<1>2. CASE ~Owns(s, n)  BY <1>2, LiveStutters DEF fail_live_segment_index, liveRows
<1> QED  BY <1>1, <1>2

LEMMA LiveSettleStep ==
    ASSUME IndexInv, NEW w \in IndexWorkers, SettleLive(w) \/ TimeoutLive(w)
    PROVE  LiveStep
<1>1. TypeInv /\ worker[w].pc # "idle"  BY Zenon DEF IndexInv, SettleLive, TimeoutLive, Building
<1>2. PICK s \in Segments, n \in BuildNumbers : s = worker[w].src /\ n = worker[w].build  BY <1>1, WorkerTypes
<1>3. PICK transient \in BOOLEAN : transient = (worker[w].pc = "transient")  BY Zenon
<1>4. \/ UNCHANGED liveRows
      \/ fail_live_segment_index(s, n, transient)
      \/ fail_live_segment_index(s, n, TRUE)
  BY <1>2, <1>3, Zenon DEF SettleLive, TimeoutLive
<1> QED  BY <1>4, LiveStutters, LiveFailStep, Zenon DEF liveRows

LEMMA LiveRecoverStep ==
    ASSUME IndexInv, NEW s \in Segments, recover_live_segment_indexes(s)
    PROVE  LiveStep
<1> DEFINE retry == task[s].attempt < MaxAttempts
           status == IF retry THEN "QUEUED" ELSE "FAILED"
<1>1. /\ task[s].status = "RUNNING" /\ task[s].lease = 0
      /\ task' = [task EXCEPT ![s] = [task[s] EXCEPT !.status = status, !.lease = 0, !.ready = TRUE]]
      /\ wish' = [wish EXCEPT ![s] = IF retry THEN "PENDING" ELSE "FAILED"]
  BY DEF recover_live_segment_indexes, Lapsed, SetTask
<1>2. TypeInv /\ task[s] \in TaskRecords  BY RowTypes DEF IndexInv
<1>3. [task[s] EXCEPT !.status = status, !.lease = 0, !.ready = TRUE]
          = [task[s] EXCEPT !.status = status, !.ready = TRUE]
  BY <1>1, <1>2, Zenon DEF TaskRecords
<1>4. LiveQueue!recover(s)
  BY <1>1, <1>3, Zenon DEF LiveQueue!recover, LiveQueue!Put, LiveQueue!Mark
<1> QED  BY <1>4 DEF LiveStep, LiveQueue!Next

LEMMA LiveForgetStep ==
    ASSUME IndexInv, NEW s \in Segments, cleanup_terminal_live_segment_indexes(s) \/ TickLive(s)
    PROVE  LiveStep
<1>1. LiveQueue!NoTask = NoTask  BY DEF LiveQueue!NoTask, NoTask
<1>2. CASE cleanup_terminal_live_segment_indexes(s)
  <2>1. LiveQueue!cleanup_terminal(s)
    BY <1>1, <1>2 DEF cleanup_terminal_live_segment_indexes, LiveQueue!cleanup_terminal, LiveQueue!Put
  <2> QED  BY <2>1 DEF LiveStep, LiveQueue!Next
<1>3. CASE TickLive(s)
  <2>1. LiveQueue!Tick(s)  BY <1>3 DEF TickLive, LiveQueue!Tick, LiveQueue!Put
  <2> QED  BY <2>1 DEF LiveStep, LiveQueue!Next
<1> QED  BY <1>2, <1>3

LEMMA LivePublishStep ==
    ASSUME IndexInv, NEW w \in IndexWorkers, NEW ask \in BOOLEAN, publish_live_structural_index(w, ask)
    PROVE  LiveStep
<1>1. TypeInv /\ worker[w].pc # "idle"  BY DEF IndexInv, publish_live_structural_index
<1>2. PICK s \in Segments : s = worker[w].src  BY <1>1, WorkerTypes
<1>3. LiveQueue!complete(s)
  BY <1>2 DEF publish_live_structural_index, PublishLiveAllowed, Owns, SetTask, LiveQueue!complete,
              LiveQueue!Holds, LiveQueue!Put, LiveQueue!Mark
<1> QED  BY <1>3 DEF LiveStep, LiveQueue!Next

LEMMA LiveDeleteStep ==
    ASSUME IndexInv, NEW s \in CaptureSources, delete_job(s)
    PROVE  LiveStep
<1>1. CASE s \in Segments
  <2>1. wish[s] \notin {"none", "gone"}
    BY <1>1 DEF delete_job, IndexInv, SegmentInv, SegmentOK
  <2>2. LiveQueue!NoTask = NoTask  BY DEF LiveQueue!NoTask, NoTask
  <2>3. LiveQueue!Remove(s)
    BY <1>1, <2>1, <2>2, Zenon DEF delete_job, SetTask, LiveQueue!Remove, LiveQueue!Put, LiveQueue!Mark
  <2> QED  BY <1>1, <2>3 DEF LiveStep, LiveQueue!Next
<1>2. CASE s \notin Segments  BY <1>2, LiveStutters DEF delete_job, liveRows
<1> QED  BY <1>1, <1>2

LEMMA LiveRefines ==
    ASSUME IndexInv, [PcapIndexNext]_indexVars
    PROVE  LiveStep
<1>1. CASE UNCHANGED indexVars  BY <1>1, LiveStutters DEF indexVars
<1>2. ASSUME NEW u \in Uploads, UploadStep(u)  PROVE LiveStep
  <2>1. UNCHANGED <<wish, task>>
    BY <1>2, Zenon DEF UploadStep, StoreUpload, rebuild_offline_upload_index, BeginUpload, StageUpload, LeaveUpload,
                PublishUpload, liveRows
  <2> QED  BY <2>1, LiveStutters
<1>3. ASSUME NEW s \in Segments,
             \/ StoreSegment(s) \/ admit_live_segment_index(s) \/ recover_live_segment_indexes(s)
             \/ cleanup_terminal_live_segment_indexes(s) \/ TickLive(s)
      PROVE  LiveStep
  BY <1>3, LiveStoreStep, LiveAdmitStep, LiveRecoverStep, LiveForgetStep
<1>4. ASSUME NEW s \in CaptureSources,
             \/ reconcile_posting_indexes(s) \/ request_posting_index_backfill(s)
             \/ recover_posting_indexes(s) \/ cleanup_terminal_posting_indexes(s)
             \/ cleanup_stale_posting_indexes(s) \/ TickPosting(s)
             \/ \E n \in BuildNumbers : cleanup_stale_structural_indexes(s, n)
      PROVE  LiveStep
  <2>1. UNCHANGED <<wish, task>>
    BY <1>4 DEF reconcile_posting_indexes, request_posting_index_backfill, recover_posting_indexes,
                cleanup_terminal_posting_indexes, cleanup_stale_posting_indexes, TickPosting,
                cleanup_stale_structural_indexes, liveRows
  <2> QED  BY <2>1, LiveStutters
<1>5. ASSUME NEW w \in IndexWorkers, BeginLive(w) \/ StageLive(w) \/ LeaveLive(w)  PROVE LiveStep
  BY <1>5, LiveStutters, ZenonT(30) DEF BeginLive, StageLive, LeaveLive, liveRows
<1>6. ASSUME NEW p \in PostingWorkers,
             \/ PosterStep(p) \/ TimeoutPosting(p) \/ LosePosting(p) \/ heartbeat_posting_index(p)
             \/ \E s \in CaptureSources : claim_posting_index(p, s)
      PROVE  LiveStep
  <2>1. UNCHANGED <<wish, task>>
    BY <1>6, Zenon DEF PosterStep, BeginPosting, StagePosting, publish_posting_index, LeavePosting, SettlePosting,
                TimeoutPosting, LosePosting, heartbeat_posting_index, claim_posting_index, liveRows
  <2> QED  BY <2>1, LiveStutters
<1>7. CASE AdmitAfterPublish \/ RestartLive \/ RestartPosting
  BY <1>7, LiveStutters DEF AdmitAfterPublish, RestartLive, RestartPosting, liveRows
<1>8. ASSUME NEW w \in IndexWorkers,
             \/ WorkerStep(w) \/ TimeoutLive(w) \/ heartbeat_live_segment_index(w)
             \/ \E s \in Segments : claim_live_segment_index(w, s)
      PROVE  LiveStep
  BY <1>5, <1>8, LivePublishStep, LiveSettleStep, LiveHeartbeatStep, LiveClaimStep DEF WorkerStep
<1>9. CASE PcapIndexNext
  BY <1>2, <1>3, <1>4, <1>6, <1>7, <1>8, <1>9, LiveDeleteStep DEF PcapIndexNext
<1> QED  BY <1>1, <1>9

\* Every step of the tables is a step of the queue that the in-memory and SQLite
\* repositories keep under their lock, or changes nothing of it.
THEOREM LiveQueueImplemented == PcapIndexSpec => ImplementsLiveIndexQueue
<1>1. PcapIndexInit => LiveQueue!Init
  BY DEF PcapIndexInit, LiveQueue!Init, LiveQueue!NoTask, NoTask
<1>2. IndexInv /\ [PcapIndexNext]_indexVars => [LiveQueue!Next]_(LiveQueue!queueVars)
  BY LiveRefines DEF LiveStep
<1> QED  BY <1>1, <1>2, IndexStaysSound, PTL DEF PcapIndexSpec, ImplementsLiveIndexQueue, LiveQueue!Spec

----------------------------------------------------------------------------
(* The generation tables implement the store of structural indexes.        *)

StructuralStep == [StructuralStore!Next]_(StructuralStore!storeVars)

\* What is staged of a source is read off its generations.
LEMMA StagedOf ==
    \A s \in CaptureSources : stagedBuilds[s] = {n \in BuildNumbers : Staging(n) \in gens[s]}
BY DEF stagedBuilds, Stageable

LEMMA StagedLater ==
    /\ stagedBuilds' = [s \in CaptureSources |-> {n \in BuildNumbers : Staging(n) \in gens'[s]}]
    /\ stagedBuilds = [s \in CaptureSources |-> {n \in BuildNumbers : Staging(n) \in gens[s]}]
BY DEF stagedBuilds, Stageable, Staging

LEMMA StagedUpdate ==
    ASSUME NEW s \in CaptureSources, NEW B, \A h \in CaptureSources \ {s} : gens'[h] = gens[h],
           B = {n \in BuildNumbers : Staging(n) \in gens'[s]}
    PROVE  stagedBuilds' = [stagedBuilds EXCEPT ![s] = B]
BY StagedLater, Zenon

LEMMA StructureStutters ==
    ASSUME UNCHANGED <<capture, gens, owner>>
    PROVE  StructuralStep
<1>1. stagedBuilds' = stagedBuilds  BY StagedLater
<1> QED  BY <1>1 DEF StructuralStep, StructuralStore!storeVars

LEMMA StagingNames == \A m, n : (Staging(m) = Staging(n) => m = n) /\ Staging(m) # Ready(n)
BY DEF Staging, Ready

\* A build is staged (again), or a staged one is dropped.
LEMMA StructureStages ==
    ASSUME TypeInv, NEW s \in CaptureSources, NEW n \in BuildNumbers, UNCHANGED <<capture, owner>>,
           \/ gens' = [gens EXCEPT ![s] = @ \cup {Staging(n)}]
           \/ gens' = [gens EXCEPT ![s] = @ \ {Staging(n)}]
           \/ UNCHANGED gens
    PROVE  StructuralStep
<1>1. CASE UNCHANGED gens  BY <1>1, StructureStutters
<1>2. CASE gens' = [gens EXCEPT ![s] = @ \cup {Staging(n)}]
  <2>1. CASE Staging(n) \in gens[s]
    <3>1. gens' = gens  BY <1>2, <2>1 DEF TypeInv
    <3> QED  BY <3>1, StructureStutters
  <2>2. CASE Staging(n) \notin gens[s]
    <3>0. /\ gens'[s] = gens[s] \cup {Staging(n)}
          /\ \A h \in CaptureSources \ {s} : gens'[h] = gens[h]
      BY <1>2 DEF TypeInv
    <3>1. stagedBuilds' = [stagedBuilds EXCEPT ![s] = @ \cup {n}]
      <4>1. stagedBuilds[s] \cup {n} = {m \in BuildNumbers : Staging(m) \in gens'[s]}
        BY <3>0, StagedOf, StagingNames
      <4> QED  BY <3>0, <4>1, StagedUpdate, Zenon
    <3>2. n \notin stagedBuilds[s]  BY <2>2, StagedOf
    <3>3. StructuralStore!begin_structural_index(s, n)
      BY <3>1, <3>2 DEF StructuralStore!begin_structural_index
    <3> QED  BY <3>3 DEF StructuralStep, StructuralStore!Next
  <2> QED  BY <2>1, <2>2
<1>3. CASE gens' = [gens EXCEPT ![s] = @ \ {Staging(n)}]
  <2>0. /\ gens'[s] = gens[s] \ {Staging(n)}
        /\ \A h \in CaptureSources \ {s} : gens'[h] = gens[h]
    BY <1>3 DEF TypeInv
  <2>1. stagedBuilds' = [stagedBuilds EXCEPT ![s] = @ \ {n}]
    <3>1. stagedBuilds[s] \ {n} = {m \in BuildNumbers : Staging(m) \in gens'[s]}
      BY <2>0, StagedOf, StagingNames
    <3> QED  BY <2>0, <3>1, StagedUpdate, ZenonT(30)
  <2>2. StructuralStore!abort_structural_index(s, n)
    BY <2>1 DEF StructuralStore!abort_structural_index
  <2> QED  BY <2>2 DEF StructuralStep, StructuralStore!Next
<1> QED  BY <1>1, <1>2, <1>3

LEMMA StructurePublishes ==
    ASSUME TypeInv, NEW s \in CaptureSources, NEW n \in BuildNumbers, NEW ask, TakeOwnership(s, n, ask),
           capture[s] = "stored", UNCHANGED capture, Stageable(s, n)
    PROVE  StructuralStep
<1>1. /\ gens' = [gens EXCEPT ![s] = (@ \ {Staging(n), Ready(owner[s])}) \cup {Ready(n)}]
      /\ owner' = [owner EXCEPT ![s] = n]
  BY DEF TakeOwnership
<1>2. stagedBuilds' = [stagedBuilds EXCEPT ![s] = @ \ {n}]
  <2>1. /\ gens'[s] = (gens[s] \ {Staging(n), Ready(owner[s])}) \cup {Ready(n)}
        /\ \A h \in CaptureSources \ {s} : gens'[h] = gens[h]
    BY <1>1 DEF TypeInv
  <2>2. stagedBuilds[s] \ {n} = {m \in BuildNumbers : Staging(m) \in gens'[s]}
    BY <2>1, StagedOf, StagingNames, ZenonT(30)
  <2> QED  BY <2>1, <2>2, StagedUpdate, Zenon
<1>3. n \in stagedBuilds[s]  BY StagedOf DEF Stageable
<1>4. StructuralStore!publish_structural_index(s, n)
  BY <1>1, <1>2, <1>3 DEF StructuralStore!publish_structural_index
<1> QED  BY <1>4 DEF StructuralStep, StructuralStore!Next

LEMMA StructureDeletes ==
    ASSUME TypeInv, NEW s \in CaptureSources, delete_job(s)
    PROVE  StructuralStep
<1>1. /\ capture[s] = "stored" /\ capture' = [capture EXCEPT ![s] = "gone"]
      /\ gens' = [gens EXCEPT ![s] = {}] /\ owner' = [owner EXCEPT ![s] = 0]
  BY DEF delete_job
<1>2. stagedBuilds' = [stagedBuilds EXCEPT ![s] = {}]  BY <1>1, StagedLater, Zenon DEF TypeInv
<1>3. StructuralStore!delete_structural_indexes_for_source(s)
  BY <1>1, <1>2 DEF StructuralStore!delete_structural_indexes_for_source
<1> QED  BY <1>3 DEF StructuralStep, StructuralStore!Next

LEMMA StructureStores ==
    ASSUME NEW s \in CaptureSources, capture[s] = "none", capture' = [capture EXCEPT ![s] = "stored"],
           UNCHANGED <<gens, owner>>
    PROVE  StructuralStep
<1>1. stagedBuilds' = stagedBuilds  BY StagedLater
<1>2. StructuralStore!save_capture(s)  BY <1>1 DEF StructuralStore!save_capture
<1> QED  BY <1>2 DEF StructuralStep, StructuralStore!Next

LEMMA StructureUploads ==
    ASSUME IndexInv, NEW u \in Uploads, UploadStep(u)
    PROVE  StructuralStep
<1>1. TypeInv /\ u \in CaptureSources /\ UploadInv(u)  BY Constants DEF IndexInv
<1>2. CASE StoreUpload(u)  BY <1>1, <1>2, StructureStores, Zenon DEF StoreUpload, structure
<1>3. CASE rebuild_offline_upload_index(u) \/ StageUpload(u)
  BY <1>3, StructureStutters DEF rebuild_offline_upload_index, StageUpload, sourceRows, structure
<1>4. ASSUME indexing[u].pc \in {"open", "scan", "publish"}  PROVE indexing[u].build \in BuildNumbers
  BY <1>1, <1>4, RequestFields, Numbers, ZenonT(30) DEF UploadInv, UploadOK
<1>5. CASE BeginUpload(u)
  BY <1>1, <1>4, <1>5, StructureStages, Zenon DEF BeginUpload, sourceRows
<1>6. CASE LeaveUpload(u)
  BY <1>1, <1>4, <1>6, StructureStages DEF LeaveUpload, abort_structural_index, sourceRows
<1>7. ASSUME NEW ask \in BOOLEAN, PublishUpload(u, ask)  PROVE StructuralStep
  BY <1>1, <1>4, <1>7, StructurePublishes DEF PublishUpload, PublishAllowed, sourceRows
<1> QED  BY <1>2, <1>3, <1>5, <1>6, <1>7 DEF UploadStep

LEMMA StructureWorkers ==
    ASSUME IndexInv, NEW w \in IndexWorkers, WorkerStep(w)
    PROVE  StructuralStep
<1>1. TypeInv  BY DEF IndexInv
<1>2. CASE SettleLive(w)  BY <1>2, StructureStutters DEF SettleLive, sourceRows, structure
<1>3. CASE ~SettleLive(w)
  <2>1. worker[w].pc # "idle"
    BY <1>3 DEF WorkerStep, BeginLive, StageLive, LeaveLive, publish_live_structural_index, Building
  <2>2. PICK s \in CaptureSources, n \in BuildNumbers : s = worker[w].src /\ n = worker[w].build
    BY <1>1, <2>1, WorkerTypes
  <2>3. CASE BeginLive(w) \/ StageLive(w) \/ LeaveLive(w)
    <3>1. /\ UNCHANGED <<capture, owner>>
          /\ \/ gens' = [gens EXCEPT ![s] = @ \cup {Staging(n)}]
             \/ gens' = [gens EXCEPT ![s] = @ \ {Staging(n)}]
             \/ UNCHANGED gens
      BY <2>2, <2>3 DEF BeginLive, StageLive, LeaveLive, abort_structural_index, sourceRows, structure
    <3> QED  BY <1>1, <3>1, StructureStages
  <2>4. ASSUME NEW ask \in BOOLEAN, publish_live_structural_index(w, ask)  PROVE StructuralStep
    <3>1. /\ TakeOwnership(s, n, ask) /\ capture[s] = "stored" /\ Stageable(s, n) /\ UNCHANGED capture
      BY <2>2, <2>4 DEF publish_live_structural_index, PublishLiveAllowed
    <3> QED  BY <1>1, <3>1, StructurePublishes
  <2> QED  BY <1>3, <2>3, <2>4 DEF WorkerStep
<1> QED  BY <1>2, <1>3

LEMMA StructureRefines ==
    ASSUME IndexInv, [PcapIndexNext]_indexVars
    PROVE  StructuralStep
<1>0. TypeInv  BY DEF IndexInv
<1>1. CASE UNCHANGED indexVars  BY <1>1, StructureStutters DEF indexVars
<1>2. ASSUME NEW s \in Segments,
             \/ StoreSegment(s) \/ admit_live_segment_index(s) \/ recover_live_segment_indexes(s)
             \/ cleanup_terminal_live_segment_indexes(s) \/ TickLive(s)
      PROVE  StructuralStep
  <2>1. CASE StoreSegment(s)  BY <2>1, Constants, StructureStores, Zenon DEF StoreSegment, structure
  <2>2. CASE ~StoreSegment(s)
    BY <1>2, <2>2, StructureStutters
    DEF admit_live_segment_index, recover_live_segment_indexes, cleanup_terminal_live_segment_indexes,
        TickLive, sourceRows, structure
  <2> QED  BY <2>1, <2>2
<1>3. ASSUME NEW s \in CaptureSources,
             \/ reconcile_posting_indexes(s) \/ request_posting_index_backfill(s)
             \/ recover_posting_indexes(s) \/ cleanup_terminal_posting_indexes(s)
             \/ cleanup_stale_posting_indexes(s) \/ TickPosting(s)
      PROVE  StructuralStep
  BY <1>3, StructureStutters
  DEF reconcile_posting_indexes, request_posting_index_backfill, recover_posting_indexes,
      cleanup_terminal_posting_indexes, cleanup_stale_posting_indexes, TickPosting, sourceRows, structure
<1>4. ASSUME NEW s \in CaptureSources, NEW n \in BuildNumbers, cleanup_stale_structural_indexes(s, n)
      PROVE  StructuralStep
  BY <1>0, <1>4, StructureStages, Zenon DEF cleanup_stale_structural_indexes, abort_structural_index, sourceRows
<1>5. ASSUME NEW w \in IndexWorkers,
             \/ TimeoutLive(w) \/ heartbeat_live_segment_index(w)
             \/ \E s \in Segments : claim_live_segment_index(w, s)
      PROVE  StructuralStep
  BY <1>5, StructureStutters, Zenon
  DEF TimeoutLive, heartbeat_live_segment_index, claim_live_segment_index, sourceRows, structure
<1>6. ASSUME NEW p \in PostingWorkers,
             \/ PosterStep(p) \/ TimeoutPosting(p) \/ LosePosting(p) \/ heartbeat_posting_index(p)
             \/ \E s \in CaptureSources : claim_posting_index(p, s)
      PROVE  StructuralStep
  <2>1. UNCHANGED <<capture, gens, owner>>
    BY <1>6, Zenon DEF PosterStep, BeginPosting, StagePosting, publish_posting_index, LeavePosting, SettlePosting,
                TimeoutPosting, LosePosting, heartbeat_posting_index, claim_posting_index, sourceRows, structure
  <2> QED  BY <2>1, StructureStutters
<1>7. CASE AdmitAfterPublish \/ RestartLive \/ RestartPosting
  BY <1>7, StructureStutters DEF AdmitAfterPublish, RestartLive, RestartPosting, sourceRows, structure
<1>8. CASE PcapIndexNext
  BY <1>0, <1>2, <1>3, <1>4, <1>5, <1>6, <1>7, <1>8, StructureUploads, StructureWorkers, StructureDeletes
  DEF PcapIndexNext
<1> QED  BY <1>1, <1>8

\* Every step of the generation tables is a step of the in-memory store of
\* structural indexes, or changes nothing of it.
THEOREM StructuralStoreImplemented == PcapIndexSpec => ImplementsStructuralIndexStore
<1>1. PcapIndexInit => StructuralStore!Init
  <2> SUFFICES ASSUME PcapIndexInit  PROVE StructuralStore!Init
    OBVIOUS
  <2>1. stagedBuilds = [s \in CaptureSources |-> {}]  BY StagedLater DEF PcapIndexInit
  <2> QED  BY <2>1 DEF PcapIndexInit, StructuralStore!Init
<1>2. IndexInv /\ [PcapIndexNext]_indexVars => [StructuralStore!Next]_(StructuralStore!storeVars)
  BY StructureRefines DEF StructuralStep
<1> QED
  BY <1>1, <1>2, IndexStaysSound, PTL DEF PcapIndexSpec, ImplementsStructuralIndexStore, StructuralStore!Spec

----------------------------------------------------------------------------
(* The posting tables implement the lifecycle under a lock.                *)

PostingStep == [PostingQueue!Next]_(PostingQueue!postingVars)

\* What the abstract lifecycle sees of the rows of one source.
IntentView(i, t) ==
    IF i.status = "DEFERRED" /\ t # NoPosting THEN [i EXCEPT !.status = "PENDING"] ELSE i

DraftView(G) == {ShownDraft(g) : g \in {h \in G : h.state = "STAGING"}}

IndexView(o, w) == IF w = 0 THEN <<0, 0>> ELSE <<o, w>>

LEMMA Views ==
    /\ shownIntent = [s \in CaptureSources |-> IntentView(intent[s], ptask[s])]
    /\ shownDrafts = [s \in CaptureSources |-> DraftView(pgens[s])]
    /\ shownIndex = [s \in CaptureSources |-> IndexView(owner[s], powner[s])]
    /\ shownIntent' = [s \in CaptureSources |-> IntentView(intent'[s], ptask'[s])]
    /\ shownDrafts' = [s \in CaptureSources |-> DraftView(pgens'[s])]
    /\ shownIndex' = [s \in CaptureSources |-> IndexView(owner'[s], powner'[s])]
BY DEF shownIntent, shownDrafts, shownIndex, IntentView, DraftView, IndexView, ShownDraft, NoPosting

LEMMA DraftsOf ==
    ASSUME NEW G, NEW n, \A g \in G : g.parent = n
    PROVE  \A d \in DraftView(G) : d.parent = n
BY DEF DraftView, ShownDraft

LEMMA NoDraftOf ==
    ASSUME NEW G, NEW n, \A g \in G : g.parent # n
    PROVE  {d \in DraftView(G) : d.parent = n} = {}
BY DEF DraftView, ShownDraft

\* Between two lifecycles nothing is active.
LEMMA RowsBetween ==
    ASSUME NEW s \in CaptureSources, RowsOK(s), NoPostingBelow(s)
    PROVE  intent[s].parent \in {0, owner[s]} /\ ptask[s].status \notin {"QUEUED", "RUNNING"}
BY DEF NoPostingBelow, RowsOK, LifecycleOK, NoPosting, NoIntent

\* A step on the rows of one source changes what is seen of that source.
LEMMA ViewUpdate ==
    ASSUME NEW s \in CaptureSources, \A h \in CaptureSources \ {s} : PostingKept(h)
    PROVE  /\ shownIntent' = [shownIntent EXCEPT ![s] = IntentView(intent'[s], ptask'[s])]
           /\ shownDrafts' = [shownDrafts EXCEPT ![s] = DraftView(pgens'[s])]
           /\ shownIndex' = [shownIndex EXCEPT ![s] = IndexView(owner'[s], powner'[s])]
           /\ shownIntent[s] = IntentView(intent[s], ptask[s])
           /\ shownDrafts[s] = DraftView(pgens[s])
           /\ shownIndex[s] = IndexView(owner[s], powner[s])
<1>1. \A h \in CaptureSources \ {s} :
          /\ IntentView(intent'[h], ptask'[h]) = IntentView(intent[h], ptask[h])
          /\ DraftView(pgens'[h]) = DraftView(pgens[h])
          /\ IndexView(owner'[h], powner'[h]) = IndexView(owner[h], powner[h])
  BY DEF PostingKept
<1> QED  BY <1>1, Views, Zenon

LEMMA PostingStutters ==
    ASSUME UNCHANGED <<intent, ptask, pgens, powner, owner>>
    PROVE  PostingStep
<1>1. shownIntent' = shownIntent /\ shownDrafts' = shownDrafts /\ shownIndex' = shownIndex  BY Views
<1> QED  BY <1>1 DEF PostingStep, PostingQueue!postingVars

LEMMA AbstractNames ==
    /\ PostingQueue!NoPosting = NoPosting /\ PostingQueue!NoIntent = NoIntent
    /\ PostingQueue!Unindexed = <<0, 0>> /\ PostingQueue!ActivePostings = ActivePosting
    /\ PostingQueue!Cardinality(PostingQueue!ActivePostings) = Cardinality(ActivePosting)
<1>1. PostingQueue!ActivePostings = ActivePosting  BY DEF PostingQueue!ActivePostings, ActivePosting
<1>2. PostingQueue!Cardinality(PostingQueue!ActivePostings) = Cardinality(ActivePosting)
  BY <1>1 DEF PostingQueue!Cardinality, Cardinality
<1> QED
  BY <1>1, <1>2 DEF PostingQueue!NoPosting, NoPosting, PostingQueue!NoIntent, NoIntent, PostingQueue!Unindexed

\* The parent of an intent is seen as it is, and its status up to DEFERRED.
LEMMA IntentSeen ==
    ASSUME TypeInv, NEW s \in CaptureSources
    PROVE  /\ shownIntent[s] = IntentView(intent[s], ptask[s])
           /\ shownIntent[s] \in IntentRecords /\ shownIntent[s].parent = intent[s].parent
           /\ shownIntent[s].status \in {"PENDING", "DEFERRED"} <=> Eligible(s)
           /\ \A c : [shownIntent[s] EXCEPT !.status = c] = [intent[s] EXCEPT !.status = c]
<1>1. intent[s] \in IntentRecords  BY LifecycleFields
<1>2. shownIntent[s] = IntentView(intent[s], ptask[s])  BY Views, ZenonT(30)
<1>3. CASE intent[s].status = "DEFERRED" /\ ptask[s] # NoPosting
  <2>1. shownIntent[s] = [intent[s] EXCEPT !.status = "PENDING"]  BY <1>2, <1>3 DEF IntentView
  <2> QED  BY <1>1, <1>2, <1>3, <2>1, Zenon DEF IntentRecords, IntentStates, Eligible
<1>4. CASE ~(intent[s].status = "DEFERRED" /\ ptask[s] # NoPosting)
  <2>1. shownIntent[s] = intent[s]  BY <1>2, <1>4 DEF IntentView
  <2> QED  BY <1>1, <1>2, <2>1 DEF IntentRecords, Eligible
<1> QED  BY <1>3, <1>4

\* Only the lifecycle of a source is written.
LEMMA LifecycleViews ==
    ASSUME TypeInv, NEW s \in CaptureSources, NEW i, NEW t,
           intent' = [intent EXCEPT ![s] = i], ptask' = [ptask EXCEPT ![s] = t],
           UNCHANGED <<pgens, powner, owner>>
    PROVE  /\ shownIntent' = [shownIntent EXCEPT ![s] = IntentView(i, t)]
           /\ shownDrafts' = shownDrafts /\ shownIndex' = shownIndex
<1>1. \A h \in CaptureSources \ {s} : PostingKept(h)  BY DEF TypeInv, PostingKept
<1>2. intent'[s] = i /\ ptask'[s] = t  BY DEF TypeInv
<1>3. shownDrafts' = shownDrafts /\ shownIndex' = shownIndex  BY Views
<1> QED  BY <1>1, <1>2, <1>3, ViewUpdate

LEMMA AdmitRefines ==
    ASSUME IndexInv, NEW s \in CaptureSources, AdmitPosting(s), UNCHANGED <<pgens, powner, owner>>
    PROVE  PostingStep
<1>1. TypeInv /\ intent[s] \in IntentRecords  BY LifecycleFields DEF IndexInv
<1>2. CASE ~(Eligible(s) /\ ptask[s] = NoPosting)
  BY <1>2, PostingStutters DEF AdmitPosting, postingRows
<1>3. CASE Eligible(s) /\ ptask[s] = NoPosting
  <2>1. shownIntent[s] = intent[s]  BY <1>1, <1>3, IntentSeen, Zenon DEF IntentView
  <2>2. CASE Cardinality(ActivePosting) >= QueueCapacity
    <3> DEFINE i == [intent[s] EXCEPT !.status = "DEFERRED"]
    <3>1. intent' = [intent EXCEPT ![s] = i] /\ ptask' = [ptask EXCEPT ![s] = NoPosting] /\ ptask' = ptask
      BY <1>1, <1>3, <2>2 DEF AdmitPosting, TypeInv
    <3>2. IntentView(i, NoPosting) = i  BY DEF IntentView
    <3> HIDE DEF i
    <3>3. shownIntent' = [shownIntent EXCEPT ![s] = i] /\ shownDrafts' = shownDrafts /\ shownIndex' = shownIndex
      <4>1. shownIntent' = [shownIntent EXCEPT ![s] = IntentView(i, NoPosting)]
            /\ shownDrafts' = shownDrafts /\ shownIndex' = shownIndex
        BY <1>1, <3>1, LifecycleViews, Zenon
      <4> QED  BY <3>2, <4>1
    <3>4. PostingQueue!admit(s)
      BY <1>1, <1>3, <2>1, <2>2, <3>1, <3>3, AbstractNames, IntentSeen
      DEF i, PostingQueue!admit, PostingQueue!eligible, PostingQueue!store
    <3> QED  BY <3>4 DEF PostingStep, PostingQueue!Next, PostingQueue!reconcile
  <2>3. CASE ~(Cardinality(ActivePosting) >= QueueCapacity)
    <3> DEFINE t == [NoPosting EXCEPT !.parent = intent[s].parent, !.status = "QUEUED", !.ready = TRUE]
    <3>1. intent' = [intent EXCEPT ![s] = intent[s]] /\ ptask' = [ptask EXCEPT ![s] = t]
      BY <1>1, <1>3, <2>3 DEF AdmitPosting, TypeInv
    <3>2. t # NoPosting  BY Zenon DEF NoPosting
    <3>3. IntentView(intent[s], t) = [intent[s] EXCEPT !.status = "PENDING"]
      BY <1>1, <1>3, <3>2 DEF IntentView, Eligible, IntentRecords
    <3>4. /\ shownIntent' = [shownIntent EXCEPT ![s] = IntentView(intent[s], t)]
          /\ shownDrafts' = shownDrafts /\ shownIndex' = shownIndex
      BY <1>1, <3>1, LifecycleViews, Zenon
    <3>5. shownIntent' = [shownIntent EXCEPT ![s].status = "PENDING"]  BY <2>1, <3>3, <3>4, Zenon
    <3>6. PostingQueue!admit(s)
      BY <1>1, <1>3, <2>1, <2>3, <3>1, <3>4, <3>5, AbstractNames, IntentSeen, Zenon
      DEF PostingQueue!admit, PostingQueue!eligible, PostingQueue!store
    <3> QED  BY <3>6 DEF PostingStep, PostingQueue!Next, PostingQueue!reconcile
  <2> QED  BY <2>2, <2>3
<1> QED  BY <1>2, <1>3

\* A task is written and its intent is not; both are active before and after, or the
\* intent does not wait.
LEMMA TaskViews ==
    ASSUME TypeInv, NEW s \in CaptureSources, NEW t, ptask' = [ptask EXCEPT ![s] = t],
           UNCHANGED <<intent, pgens, powner, owner>>,
           (t = NoPosting <=> ptask[s] = NoPosting) \/ intent[s].status # "DEFERRED"
    PROVE  /\ shownIntent' = shownIntent /\ shownDrafts' = shownDrafts /\ shownIndex' = shownIndex
<1>1. /\ ptask'[s] = t /\ \A h \in CaptureSources \ {s} : ptask'[h] = ptask[h]  BY DEF TypeInv
<1>2. \A h \in CaptureSources : IntentView(intent'[h], ptask'[h]) = IntentView(intent[h], ptask[h])
  BY <1>1 DEF IntentView
<1>3. shownIntent' = shownIntent  BY <1>2, Views
<1>4. shownDrafts' = shownDrafts /\ shownIndex' = shownIndex  BY Views
<1> QED  BY <1>3, <1>4

LEMMA ClaimRefines ==
    ASSUME IndexInv, NEW p \in PostingWorkers, NEW s \in CaptureSources, claim_posting_index(p, s)
    PROVE  PostingStep
<1> DEFINE t == [ptask[s] EXCEPT !.status = "RUNNING", !.attempt = @ + 1, !.lease = LeaseTicks]
<1>1. /\ TypeInv /\ ptask[s].status = "QUEUED" /\ ptask[s].ready /\ Eligible(s)
      /\ intent[s].parent = ptask[s].parent /\ UNCHANGED <<intent, pgens, powner, owner>>
      /\ ptask' = [ptask EXCEPT ![s].status = "RUNNING", ![s].attempt = @ + 1, ![s].lease = LeaseTicks]
  BY DEF IndexInv, claim_posting_index, structure, postings
<1>2. ptask' = [ptask EXCEPT ![s] = t]  BY <1>1, Zenon
<1>3. t.status = "RUNNING"  BY <1>1, LifecycleFields DEF PostingRecords
<1> HIDE DEF t
<1>4. t # NoPosting /\ ptask[s] # NoPosting  BY <1>1, <1>3 DEF NoPosting
<1>5. shownIntent' = shownIntent /\ shownDrafts' = shownDrafts /\ shownIndex' = shownIndex
  BY <1>1, <1>2, <1>4, TaskViews, Zenon
<1>6. PostingQueue!claim(s)
  BY <1>1, <1>5, IntentSeen DEF PostingQueue!claim, PostingQueue!eligible, PostingQueue!store
<1> QED  BY <1>6 DEF PostingStep, PostingQueue!Next

LEMMA HeartbeatRefines ==
    ASSUME IndexInv, NEW p \in PostingWorkers, heartbeat_posting_index(p)
    PROVE  PostingStep
<1>1. TypeInv /\ poster[p].pc # "idle"  BY DEF IndexInv, heartbeat_posting_index
<1>2. PICK s \in CaptureSources : s = poster[p].src  BY <1>1, PosterTypes
<1> DEFINE t == [ptask[s] EXCEPT !.lease = LeaseTicks]
<1>3. /\ ptask[s].status = "RUNNING" /\ ptask[s].lease > 0 /\ UNCHANGED <<intent, pgens, powner, owner>>
      /\ ptask' = [ptask EXCEPT ![s].lease = LeaseTicks] /\ ptask' = [ptask EXCEPT ![s] = t]
  BY <1>2 DEF heartbeat_posting_index, OwnsPosting, structure, postings
<1>4. t.status = "RUNNING"  BY <1>1, <1>3, LifecycleFields DEF PostingRecords
<1>5. t # NoPosting /\ ptask[s] # NoPosting  BY <1>3, <1>4 DEF NoPosting
<1> HIDE DEF t
<1>6. shownIntent' = shownIntent /\ shownDrafts' = shownDrafts /\ shownIndex' = shownIndex
  BY <1>1, <1>3, <1>5, TaskViews, Zenon
<1>7. PostingQueue!heartbeat(s)
  BY <1>3, <1>6 DEF PostingQueue!heartbeat, PostingQueue!owns_unexpired, PostingQueue!store
<1> QED  BY <1>7 DEF PostingStep, PostingQueue!Next

LEMMA TickRefines ==
    ASSUME IndexInv, NEW s \in CaptureSources, TickPosting(s)
    PROVE  PostingStep
<1>1. TypeInv /\ UNCHANGED <<intent, pgens, powner, owner>>
  BY DEF IndexInv, TickPosting, structure, postings
<1>2. PICK t : /\ ptask' = [ptask EXCEPT ![s] = t]
               /\ t # NoPosting /\ ptask[s] # NoPosting
  <2>1. CASE /\ ptask[s].status = "RUNNING" /\ ptask[s].lease > 0
             /\ ptask' = [ptask EXCEPT ![s].lease = @ - 1]
    <3> DEFINE t == [ptask[s] EXCEPT !.lease = @ - 1]
    <3>1. ptask' = [ptask EXCEPT ![s] = t]  BY <2>1
    <3>2. t.status = "RUNNING"  BY <1>1, <2>1, LifecycleFields DEF PostingRecords
    <3>3. t # NoPosting /\ ptask[s] # NoPosting  BY <2>1, <3>2 DEF NoPosting
    <3> QED  BY <3>1, <3>3, Zenon
  <2>2. CASE ptask[s].status = "QUEUED" /\ ptask' = [ptask EXCEPT ![s].ready = TRUE]
    <3> DEFINE t == [ptask[s] EXCEPT !.ready = TRUE]
    <3>1. ptask' = [ptask EXCEPT ![s] = t]  BY <2>2
    <3>2. t.status = "QUEUED"  BY <1>1, <2>2, LifecycleFields DEF PostingRecords
    <3>3. t # NoPosting /\ ptask[s] # NoPosting  BY <2>2, <3>2 DEF NoPosting
    <3> QED  BY <3>1, <3>3, Zenon
  <2> QED  BY <2>1, <2>2 DEF TickPosting
<1>3. shownIntent' = shownIntent /\ shownDrafts' = shownDrafts /\ shownIndex' = shownIndex
  BY <1>1, <1>2, TaskViews, ZenonT(30)
<1>4. PostingQueue!Tick(s)  BY <1>3 DEF TickPosting, PostingQueue!Tick, PostingQueue!store
<1> QED  BY <1>4 DEF PostingStep, PostingQueue!Next

LEMMA ForgetRefines ==
    ASSUME IndexInv, NEW s \in CaptureSources, cleanup_terminal_posting_indexes(s)
    PROVE  PostingStep
<1>1. /\ TypeInv /\ ptask[s].status \in {"COMPLETED", "FAILED"}
      /\ ptask' = [ptask EXCEPT ![s] = NoPosting] /\ UNCHANGED <<intent, pgens, powner, owner>>
  BY DEF IndexInv, cleanup_terminal_posting_indexes, structure, postings
<1>2. intent[s].status # "DEFERRED"  BY <1>1 DEF IndexInv, RowsOK, LifecycleOK
<1>3. shownIntent' = shownIntent /\ shownDrafts' = shownDrafts /\ shownIndex' = shownIndex
  BY <1>1, <1>2, TaskViews, Zenon
<1>4. PostingQueue!cleanup_terminal(s)
  BY <1>1, <1>3, AbstractNames DEF PostingQueue!cleanup_terminal, PostingQueue!store
<1> QED  BY <1>4 DEF PostingStep, PostingQueue!Next

\* A task ends or is queued again, and its intent with it.
LEMMA SettleSeen ==
    ASSUME TypeInv, NEW s \in CaptureSources, NEW t, NEW status, status # "DEFERRED",
           intent[s].parent = ptask[s].parent,
           ptask' = [ptask EXCEPT ![s] = t], intent' = [intent EXCEPT ![s].status = status]
    PROVE  PostingQueue!Settle(s, t, status)
<1> DEFINE i == [intent[s] EXCEPT !.status = status]
<1>1. intent' = [intent EXCEPT ![s] = i]  OBVIOUS
<1>2. i.status = status  BY LifecycleFields DEF IntentRecords
<1>3. IntentView(i, t) = i  BY <1>2 DEF IntentView
<1>4. i = [shownIntent[s] EXCEPT !.status = status]  BY IntentSeen
<1> HIDE DEF i
<1>5. /\ intent'[s] = i /\ ptask'[s] = t
      /\ \A h \in CaptureSources \ {s} : intent'[h] = intent[h] /\ ptask'[h] = ptask[h]
  BY <1>1 DEF TypeInv
<1>6. \A h \in CaptureSources :
          IntentView(intent'[h], ptask'[h]) = IF h = s THEN i ELSE IntentView(intent[h], ptask[h])
  BY <1>3, <1>5
<1>7. shownIntent' = [shownIntent EXCEPT ![s] = i]  BY <1>6, Views
<1>8. shownIntent' = [shownIntent EXCEPT ![s].status = status]  BY <1>4, <1>7
<1> QED  BY <1>8, IntentSeen DEF PostingQueue!Settle

LEMMA SettleViews ==
    ASSUME TypeInv, NEW s \in CaptureSources, NEW t, NEW status, status # "DEFERRED",
           intent[s].parent = ptask[s].parent,
           ptask' = [ptask EXCEPT ![s] = t], intent' = [intent EXCEPT ![s].status = status],
           UNCHANGED <<pgens, powner, owner>>
    PROVE  /\ PostingQueue!Settle(s, t, status)
           /\ shownDrafts' = shownDrafts /\ shownIndex' = shownIndex
<1>1. PostingQueue!Settle(s, t, status)  BY SettleSeen, ZenonT(30)
<1>2. shownDrafts' = shownDrafts /\ shownIndex' = shownIndex  BY Views
<1> QED  BY <1>1, <1>2

LEMMA FailRefines ==
    ASSUME IndexInv, NEW s \in CaptureSources, NEW parent, NEW attempt, NEW transient \in BOOLEAN,
           fail_posting_index(s, parent, attempt, transient), UNCHANGED <<pgens, powner, owner>>
    PROVE  PostingStep
<1> DEFINE may == Eligible(s) /\ intent[s].parent = parent /\ OwnsPosting(s, parent, attempt)
           retry == transient /\ attempt < MaxAttempts
           t == [ptask[s] EXCEPT !.status = IF retry THEN "QUEUED" ELSE "FAILED", !.lease = 0,
                                 !.ready = ~retry]
           status == IF retry THEN "PENDING" ELSE "FAILED"
<1>1. CASE ~may  BY <1>1, PostingStutters DEF fail_posting_index, postingRows
<1>2. CASE may
  <2>1. /\ TypeInv /\ ptask[s].attempt = attempt /\ ptask[s].parent = parent
        /\ ptask[s].status = "RUNNING" /\ ptask[s].lease > 0 /\ intent[s].parent = ptask[s].parent
    BY <1>2, Zenon DEF IndexInv, OwnsPosting
  <2>2. ptask' = [ptask EXCEPT ![s] = t] /\ intent' = [intent EXCEPT ![s].status = status]
    BY <1>2, Zenon DEF fail_posting_index
  <2>3. status # "DEFERRED"  OBVIOUS
  <2>4. PostingQueue!Settle(s, t, status) /\ shownDrafts' = shownDrafts /\ shownIndex' = shownIndex
    <3> HIDE DEF t, status
    <3> QED  BY <2>1, <2>2, <2>3, SettleViews, Zenon
  <2>5. PostingQueue!fail(s, transient)
    BY <2>1, <2>4 DEF PostingQueue!fail, PostingQueue!owns_unexpired, PostingQueue!store
  <2> QED  BY <2>5 DEF PostingStep, PostingQueue!Next
<1> QED  BY <1>1, <1>2

LEMMA RecoverRefines ==
    ASSUME IndexInv, NEW s \in CaptureSources, recover_posting_indexes(s)
    PROVE  PostingStep
<1> DEFINE retry == ptask[s].attempt < MaxAttempts
           t == [ptask[s] EXCEPT !.status = IF retry THEN "QUEUED" ELSE "FAILED", !.ready = TRUE]
           status == IF retry THEN "PENDING" ELSE "FAILED"
<1>1. /\ TypeInv /\ ptask[s].status = "RUNNING" /\ ptask[s].lease = 0 /\ intent[s].parent = ptask[s].parent
      /\ ptask' = [ptask EXCEPT ![s] = t] /\ intent' = [intent EXCEPT ![s].status = status]
      /\ UNCHANGED <<pgens, powner, owner>>
  BY Zenon DEF IndexInv, recover_posting_indexes, RetryLeft, structure, postings
<1>2. status # "DEFERRED"  OBVIOUS
<1>3. PostingQueue!Settle(s, t, status) /\ shownDrafts' = shownDrafts /\ shownIndex' = shownIndex
  <2> HIDE DEF t, status
  <2> QED  BY <1>1, <1>2, SettleViews, Zenon
<1>4. PostingQueue!recover(s)  BY <1>1, <1>3 DEF PostingQueue!recover, PostingQueue!store
<1> QED  BY <1>4 DEF PostingStep, PostingQueue!Next

\* Two drafts that are seen alike are one.
LEMMA DraftsTellApart ==
    ASSUME NEW g \in DraftRecords, NEW h \in DraftRecords, g.state = h.state, ShownDraft(g) = ShownDraft(h)
    PROVE  g = h
<1>1. ShownDraft(g).parent = ShownDraft(h).parent /\ ShownDraft(g).attempt = ShownDraft(h).attempt
      /\ ShownDraft(g).expected = ShownDraft(h).expected
  OBVIOUS
<1>2. g.parent = h.parent /\ g.attempt = h.attempt  BY <1>1 DEF ShownDraft
<1>3. <<IF g.expected = 0 THEN 0 ELSE g.parent, g.expected>> = <<IF h.expected = 0 THEN 0 ELSE h.parent, h.expected>>
  BY <1>1 DEF ShownDraft
<1>4. g.expected = h.expected  BY <1>3
<1> QED  BY <1>2, <1>4 DEF DraftRecords

LEMMA DraftsAdded ==
    ASSUME NEW G, NEW d, d.state = "STAGING"
    PROVE  DraftView(G \cup {d}) = DraftView(G) \cup {ShownDraft(d)}
BY DEF DraftView

LEMMA DraftsRemoved ==
    ASSUME NEW G \in SUBSET DraftRecords, NEW D \in SUBSET G, \A d \in D : d.state = "STAGING"
    PROVE  DraftView(G \ D) = DraftView(G) \ DraftView(D)
<1>1. ASSUME NEW x \in DraftView(G \ D)  PROVE x \in DraftView(G) \ DraftView(D)
  <2>1. PICK g \in G \ D : g.state = "STAGING" /\ x = ShownDraft(g)  BY <1>1 DEF DraftView
  <2>2. x \in DraftView(G)  BY <2>1 DEF DraftView
  <2>3. ASSUME x \in DraftView(D)  PROVE FALSE
    <3>1. PICK h \in D : h.state = "STAGING" /\ x = ShownDraft(h)  BY <2>3 DEF DraftView
    <3>2. g = h  BY <2>1, <3>1, DraftsTellApart, ZenonT(30)
    <3> QED  BY <2>1, <3>1, <3>2
  <2> QED  BY <2>2, <2>3
<1>2. ASSUME NEW x \in DraftView(G) \ DraftView(D)  PROVE x \in DraftView(G \ D)
  <2>1. PICK g \in G : g.state = "STAGING" /\ x = ShownDraft(g)  BY <1>2 DEF DraftView
  <2>2. g \notin D  BY <1>2, <2>1 DEF DraftView
  <2> QED  BY <2>1, <2>2 DEF DraftView
<1> QED  BY <1>1, <1>2

\* Only the posting generations of a source are written.
LEMMA DraftViews ==
    ASSUME TypeInv, NEW s \in CaptureSources, NEW G, pgens' = [pgens EXCEPT ![s] = G],
           UNCHANGED <<intent, ptask, powner, owner>>
    PROVE  /\ shownDrafts' = [shownDrafts EXCEPT ![s] = DraftView(G)]
           /\ shownIntent' = shownIntent /\ shownIndex' = shownIndex
           /\ shownDrafts[s] = DraftView(pgens[s]) /\ shownIndex[s] = IndexView(owner[s], powner[s])
<1>1. /\ pgens'[s] = G /\ \A h \in CaptureSources \ {s} : pgens'[h] = pgens[h]  BY DEF TypeInv
<1>2. \A h \in CaptureSources \ {s} : PostingKept(h)  BY <1>1 DEF PostingKept
<1>3. shownIntent' = shownIntent /\ shownIndex' = shownIndex  BY Views
<1> QED  BY <1>1, <1>2, <1>3, ViewUpdate, Zenon

LEMMA BeginRefines ==
    ASSUME IndexInv, NEW p \in PostingWorkers, BeginPosting(p)
    PROVE  PostingStep
<1>1. TypeInv /\ poster[p].pc # "idle"  BY DEF IndexInv, BeginPosting
<1>2. PICK s \in CaptureSources : s = poster[p].src  BY <1>1, PosterTypes
<1>3. PICK d : d = Draft(poster[p])  OBVIOUS
<1>4. /\ ptask[s].status = "RUNNING" /\ ptask[s].lease > 0 /\ owner[s] = ptask[s].parent
      /\ d.parent = ptask[s].parent /\ d.attempt = ptask[s].attempt /\ d.state = "STAGING"
      /\ d.expected = powner[s]
  BY <1>2, <1>3, ZenonT(30) DEF BeginPosting, OwnsPosting, Draft
<1>5. /\ pgens' = [pgens EXCEPT ![s] = pgens[s] \cup {d}]
      /\ UNCHANGED <<intent, ptask, powner, owner>>
  BY <1>2, <1>3, Zenon DEF BeginPosting, postingRows, structure
<1>6. /\ shownDrafts' = [shownDrafts EXCEPT ![s] = DraftView(pgens[s] \cup {d})]
      /\ shownIntent' = shownIntent /\ shownIndex' = shownIndex
      /\ shownDrafts[s] = DraftView(pgens[s]) /\ shownIndex[s] = IndexView(owner[s], powner[s])
  BY <1>1, <1>5, DraftViews, ZenonT(30)
<1>7. DraftView(pgens[s] \cup {d}) = shownDrafts[s] \cup {ShownDraft(d)}  BY <1>4, <1>6, DraftsAdded
<1>8. ShownDraft(d) = [parent |-> ptask[s].parent, attempt |-> ptask[s].attempt, expected |-> shownIndex[s]]
  BY <1>4, <1>6 DEF ShownDraft, IndexView
<1>9. PostingQueue!begin_posting_index(s)
  BY <1>4, <1>5, <1>6, <1>7, <1>8, ZenonT(30) DEF PostingQueue!begin_posting_index, PostingQueue!owns_unexpired, PostingQueue!lifecycle
<1> QED  BY <1>9 DEF PostingStep, PostingQueue!Next

\* The drafts of the attempt that holds the lease are seen as such.
LEMMA CurrentSeen ==
    ASSUME TypeInv, NEW s \in CaptureSources, NEW b, b.src = s,
           ptask[s].parent = b.parent, ptask[s].attempt = b.attempt
    PROVE  /\ PostingQueue!Current(s) = DraftView(DraftOf(b))
           /\ DraftOf(b) \subseteq pgens[s] /\ \A d \in DraftOf(b) : d.state = "STAGING"
           /\ DraftView(pgens[s] \ DraftOf(b)) = shownDrafts[s] \ PostingQueue!Current(s)
<1>1. DraftOf(b) \in SUBSET pgens[s] /\ \A d \in DraftOf(b) : d.state = "STAGING"  BY DEF DraftOf
<1>2. shownDrafts[s] = DraftView(pgens[s])  BY Views, Zenon
<1>3. \A g : ShownDraft(g).parent = g.parent /\ ShownDraft(g).attempt = g.attempt  BY DEF ShownDraft
<1>4. PostingQueue!Current(s) = DraftView(DraftOf(b))
  BY <1>2, <1>3 DEF PostingQueue!Current, DraftView, DraftOf
<1>5. pgens[s] \in SUBSET DraftRecords  BY DEF TypeInv
<1>6. DraftView(pgens[s] \ DraftOf(b)) = DraftView(pgens[s]) \ DraftView(DraftOf(b))
  BY <1>1, <1>5, DraftsRemoved, Zenon
<1> QED  BY <1>1, <1>2, <1>4, <1>6, ZenonT(30)

LEMMA LeaveRefines ==
    ASSUME IndexInv, NEW p \in PostingWorkers, LeavePosting(p)
    PROVE  PostingStep
<1>1. TypeInv /\ poster[p].pc # "idle"  BY Zenon DEF IndexInv, LeavePosting
<1>2. PICK s \in CaptureSources : s = poster[p].src  BY <1>1, PosterTypes
<1>3. UNCHANGED <<intent, ptask, powner, owner>>  BY DEF LeavePosting, postingRows, structure
<1>4. CASE UNCHANGED pgens  BY <1>3, <1>4, PostingStutters
<1>5. CASE ~UNCHANGED pgens
  <2>1. PICK G : G = pgens[s] \ DraftOf(poster[p])  BY ZenonT(30)
  <2>2. /\ OwnsPosting(s, poster[p].parent, poster[p].attempt) /\ Eligible(s)
        /\ pgens' = [pgens EXCEPT ![s] = G]
    BY <1>2, <1>5, <2>1 DEF LeavePosting
  <2>3. /\ ptask[s].status = "RUNNING" /\ ptask[s].lease > 0
        /\ ptask[s].parent = poster[p].parent /\ ptask[s].attempt = poster[p].attempt
    BY <2>2, Zenon DEF OwnsPosting
  <2>4. intent[s].parent = ptask[s].parent
    BY <2>3 DEF IndexInv, RowsOK, LifecycleOK, NoPosting
  <2>5. /\ shownDrafts' = [shownDrafts EXCEPT ![s] = DraftView(G)]
        /\ shownIntent' = shownIntent /\ shownIndex' = shownIndex
    BY <1>1, <1>3, <2>2, DraftViews, ZenonT(30)
  <2>6. DraftView(G) = shownDrafts[s] \ PostingQueue!Current(s)
    BY <1>1, <1>2, <2>1, <2>3, CurrentSeen, Zenon
  <2>7. PostingQueue!abort_posting_index(s)
    BY <1>1, <1>3, <2>2, <2>3, <2>4, <2>5, <2>6, IntentSeen
    DEF PostingQueue!abort_posting_index, PostingQueue!owns_unexpired, PostingQueue!eligible, PostingQueue!lifecycle
  <2> QED  BY <2>7 DEF PostingStep, PostingQueue!Next
<1> QED  BY <1>4, <1>5

LEMMA SweepRefines ==
    ASSUME IndexInv, NEW s \in CaptureSources, cleanup_stale_posting_indexes(s)
    PROVE  PostingStep
<1>1. TypeInv /\ UNCHANGED <<intent, ptask, powner, owner>>
  BY DEF IndexInv, cleanup_stale_posting_indexes, postingRows, structure
<1>2. PICK g \in pgens[s] : StalePosting(s, g) /\ pgens' = [pgens EXCEPT ![s] = pgens[s] \ {g}]
  BY ZenonT(30) DEF cleanup_stale_posting_indexes
<1>3. g.state = "STAGING" /\ ~OwnsPosting(s, g.parent, g.attempt)  BY <1>2 DEF StalePosting
<1>4. PICK d : d = ShownDraft(g)  OBVIOUS
<1>5. d.parent = g.parent /\ d.attempt = g.attempt  BY <1>4 DEF ShownDraft
<1>6. /\ shownDrafts' = [shownDrafts EXCEPT ![s] = DraftView(pgens[s] \ {g})]
      /\ shownIntent' = shownIntent /\ shownIndex' = shownIndex
      /\ shownDrafts[s] = DraftView(pgens[s])
  BY <1>1, <1>2, DraftViews, Zenon
<1>7. pgens[s] \in SUBSET DraftRecords /\ {g} \in SUBSET pgens[s]  BY <1>1, Zenon DEF TypeInv
<1>8. DraftView(pgens[s] \ {g}) = DraftView(pgens[s]) \ DraftView({g})  BY <1>3, <1>7, DraftsRemoved
<1>9. DraftView({g}) = {d} /\ d \in DraftView(pgens[s])  BY <1>3, <1>4, Zenon DEF DraftView
<1>10. ~(d \in PostingQueue!Current(s) /\ PostingQueue!owns_unexpired(s))
  BY <1>3, <1>5 DEF PostingQueue!Current, PostingQueue!owns_unexpired, OwnsPosting
<1>11. PostingQueue!cleanup_stale_posting_indexes(s)
  BY <1>1, <1>6, <1>8, <1>9, <1>10, Zenon DEF PostingQueue!cleanup_stale_posting_indexes, PostingQueue!lifecycle
<1> QED  BY <1>11, Zenon DEF PostingStep, PostingQueue!Next

LEMMA PublishRefines ==
    ASSUME IndexInv, NEW p \in PostingWorkers, publish_posting_index(p)
    PROVE  PostingStep
<1> DEFINE b == poster[p]
<1>1. TypeInv /\ b.pc = "staged" /\ PublishPostingAllowed(b)  BY Zenon DEF IndexInv, publish_posting_index
<1>2. PICK s \in CaptureSources : s = b.src  BY <1>1, PosterTypes
<1>3. b.attempt \in Tries /\ b.attempt # 0  BY <1>1, PosterTypes, Numbers
<1> DEFINE t == [ptask[s] EXCEPT !.status = "COMPLETED", !.lease = 0]
           G == {g \in pgens[s] \ DraftOf(b) : g.state # "READY"}
                    \cup {[g EXCEPT !.state = "READY"] : g \in DraftOf(b)}
<1>4. /\ owner[s] = b.parent /\ intent[s].parent = b.parent
      /\ ptask[s].status = "RUNNING" /\ ptask[s].lease > 0
      /\ ptask[s].parent = b.parent /\ ptask[s].attempt = b.attempt
      /\ \E g \in DraftOf(b) : g.expected = powner[s]
  BY <1>1, <1>2 DEF PublishPostingAllowed, OwnsPosting
<1>5. /\ pgens' = [pgens EXCEPT ![s] = G] /\ ptask' = [ptask EXCEPT ![s] = t]
      /\ powner' = [powner EXCEPT ![s] = b.attempt] /\ intent' = [intent EXCEPT ![s].status = "COMPLETED"]
      /\ UNCHANGED owner
  <2>1. pgens' = [pgens EXCEPT ![s] = G]  BY <1>2 DEF publish_posting_index
  <2>2. ptask' = [ptask EXCEPT ![s] = t]  BY <1>2, Zenon DEF publish_posting_index
  <2>3. /\ powner' = [powner EXCEPT ![s] = b.attempt] /\ intent' = [intent EXCEPT ![s].status = "COMPLETED"]
        /\ UNCHANGED owner
    BY <1>2 DEF publish_posting_index, structure
  <2> QED  BY <2>1, <2>2, <2>3
<1>6. PostingQueue!Settle(s, t, "COMPLETED")
  <2> HIDE DEF t
  <2>1. intent[s].parent = ptask[s].parent /\ "COMPLETED" # "DEFERRED"  BY <1>4
  <2> QED  BY <1>1, <1>5, <2>1, SettleSeen, Zenon
<1>7. DraftView(G) = DraftView(pgens[s] \ DraftOf(b))
  <2>1. pgens[s] \subseteq DraftRecords /\ DraftOf(b) \subseteq pgens[s]  BY <1>1, <1>2, Zenon DEF TypeInv, DraftOf
  <2>2. \A g \in DraftOf(b) : [g EXCEPT !.state = "READY"].state = "READY"  BY <2>1 DEF DraftRecords
  <2>3. {h \in G : h.state = "STAGING"} = {h \in pgens[s] \ DraftOf(b) : h.state = "STAGING"}  BY <2>2, Zenon
  <2> HIDE DEF G
  <2> QED  BY <2>3 DEF DraftView
<1> HIDE DEF G
<1>8. /\ shownDrafts' = [shownDrafts EXCEPT ![s] = DraftView(G)]
      /\ shownIndex' = [shownIndex EXCEPT ![s] = IndexView(owner[s], b.attempt)]
      /\ shownIndex[s] = IndexView(owner[s], powner[s]) /\ shownDrafts[s] = DraftView(pgens[s])
  <2>1. pgens'[s] = G /\ powner'[s] = b.attempt /\ owner'[s] = owner[s]  BY <1>1, <1>5 DEF TypeInv
  <2>2. \A h \in CaptureSources \ {s} : PostingKept(h)
    <3> HIDE DEF t
    <3> QED  BY <1>1, <1>5 DEF TypeInv, PostingKept
  <2> QED  BY <2>1, <2>2, ViewUpdate, Zenon
<1>9. PICK g \in DraftOf(b) : g.expected = powner[s]  BY <1>4
<1>10. /\ PostingQueue!Current(s) = DraftView(DraftOf(b)) /\ g.state = "STAGING"
       /\ DraftView(pgens[s] \ DraftOf(b)) = shownDrafts[s] \ PostingQueue!Current(s)
  BY <1>1, <1>2, <1>4, CurrentSeen, ZenonT(30)
<1>11. ShownDraft(g) \in PostingQueue!Current(s)  BY <1>10, ZenonT(30) DEF DraftView
<1>12. ShownDraft(g).expected = shownIndex[s]
  <2>1. g.parent = owner[s]  BY <1>4, ZenonT(30) DEF DraftOf
  <2> QED  BY <1>8, <1>9, <2>1, ZenonT(30) DEF ShownDraft, IndexView
<1>13. IndexView(owner[s], b.attempt) = <<ptask[s].parent, ptask[s].attempt>>  BY <1>3, <1>4, Zenon DEF IndexView
<1>14. shownIntent[s].parent = ptask[s].parent  BY <1>1, <1>4, IntentSeen
<1>15. PostingQueue!publish_posting_index(s)
  BY <1>4, <1>6, <1>7, <1>8, <1>10, <1>11, <1>12, <1>13, <1>14, ZenonT(30)
  DEF PostingQueue!publish_posting_index, PostingQueue!owns_unexpired
<1> QED  BY <1>15 DEF PostingStep, PostingQueue!Next

LEMMA BackfillRefines ==
    ASSUME IndexInv, NEW s \in CaptureSources, request_posting_index_backfill(s)
    PROVE  PostingStep
<1> DEFINE i == [parent |-> owner[s], status |-> "PENDING"]
<1>1. /\ TypeInv /\ owner[s] # 0 /\ intent[s] = NoIntent /\ UNCHANGED <<ptask, pgens, powner, owner>>
      /\ intent' = [intent EXCEPT ![s] = i]
  BY Zenon DEF IndexInv, request_posting_index_backfill, BackfillWanted, structure, postings
<1>2. RowsOK(s) /\ intent[s].status = "none" /\ intent[s].parent = 0  BY <1>1 DEF IndexInv, NoIntent
<1>3. ptask[s] = NoPosting /\ ptask' = [ptask EXCEPT ![s] = NoPosting]
  BY <1>1, <1>2, Zenon DEF RowsOK, LifecycleOK, TypeInv
<1>4. powner[s] = 0 /\ \A g \in pgens[s] : g.parent = owner[s]  BY <1>2 DEF RowsOK, PostingOK
<1>5. IntentView(i, NoPosting) = i  BY DEF IntentView
<1> HIDE DEF i
<1>6. /\ shownIntent' = [shownIntent EXCEPT ![s] = IntentView(i, NoPosting)]
      /\ shownDrafts' = shownDrafts /\ shownIndex' = shownIndex
  <2>1. TypeInv /\ UNCHANGED <<pgens, powner, owner>>  BY <1>1
  <2>2. intent' = [intent EXCEPT ![s] = i] /\ ptask' = [ptask EXCEPT ![s] = NoPosting]  BY <1>1, <1>3, ZenonT(30)
  <2> QED  BY <2>1, <2>2, LifecycleViews, Zenon
<1>7. shownDrafts[s] = {d \in shownDrafts[s] : d.parent = owner[s]}
  <2>1. shownDrafts[s] = DraftView(pgens[s])  BY Views
  <2>2. \A d \in DraftView(pgens[s]) : d.parent = owner[s]  BY <1>4, DraftsOf, Zenon
  <2> QED  BY <2>1, <2>2, Zenon
<1>8. shownIndex[s] = <<0, 0>>  BY <1>4, Views DEF IndexView
<1>9. /\ shownDrafts' = [shownDrafts EXCEPT ![s] = {d \in @ : d.parent = owner[s]}]
      /\ shownIndex' = [shownIndex EXCEPT ![s] = <<0, 0>>]
  BY <1>6, <1>7, <1>8, Views, ZenonT(30)
<1>10. owner[s] \in BuildNumbers /\ s \notin ActivePosting
  BY <1>1, <1>3 DEF TypeInv, Owners, ActivePosting, NoPosting
<1>11. PostingQueue!request(s, owner[s])
  BY <1>1, <1>2, <1>3, <1>5, <1>6, <1>8, <1>9, <1>10, IntentSeen, AbstractNames, Zenon
  DEF i, PostingQueue!request
<1> QED  BY <1>10, <1>11 DEF PostingStep, PostingQueue!Next

\* The rows of a source are emptied, and its intent is of another parent or none.
LEMMA ResetViews ==
    ASSUME TypeInv, NEW s \in CaptureSources, NEW i, NEW o, i.status # "DEFERRED",
           intent' = [intent EXCEPT ![s] = i], ptask' = [ptask EXCEPT ![s] = NoPosting],
           pgens' = [pgens EXCEPT ![s] = {}], powner' = [powner EXCEPT ![s] = 0],
           owner' = [owner EXCEPT ![s] = o]
    PROVE  /\ shownIntent' = [shownIntent EXCEPT ![s] = i]
           /\ shownDrafts' = [shownDrafts EXCEPT ![s] = {}]
           /\ shownIndex' = [shownIndex EXCEPT ![s] = <<0, 0>>]
<1>1. /\ intent'[s] = i /\ ptask'[s] = NoPosting /\ pgens'[s] = {} /\ powner'[s] = 0
      /\ \A h \in CaptureSources \ {s} : PostingKept(h)
  BY DEF TypeInv, PostingKept
<1>2. /\ IntentView(intent'[s], ptask'[s]) = i /\ DraftView(pgens'[s]) = {}
      /\ IndexView(owner'[s], powner'[s]) = <<0, 0>>
  BY <1>1 DEF IntentView, DraftView, IndexView
<1> QED  BY <1>1, <1>2, ViewUpdate

LEMMA ForgotRefines ==
    ASSUME TypeInv, NEW s \in CaptureSources, NEW o,
           intent' = [intent EXCEPT ![s] = NoIntent], ptask' = [ptask EXCEPT ![s] = NoPosting],
           pgens' = [pgens EXCEPT ![s] = {}], powner' = [powner EXCEPT ![s] = 0],
           owner' = [owner EXCEPT ![s] = o]
    PROVE  PostingStep
<1>1. NoIntent.status # "DEFERRED"  BY DEF NoIntent
<1>2. /\ shownIntent' = [shownIntent EXCEPT ![s] = NoIntent]
      /\ shownDrafts' = [shownDrafts EXCEPT ![s] = {}]
      /\ shownIndex' = [shownIndex EXCEPT ![s] = <<0, 0>>]
  BY <1>1, ResetViews, Zenon
<1>3. PostingQueue!delete_posting_indexes_for_source(s)
  BY <1>2, AbstractNames DEF PostingQueue!delete_posting_indexes_for_source
<1> QED  BY <1>3 DEF PostingStep, PostingQueue!Next

LEMMA DeleteRefines ==
    ASSUME IndexInv, NEW s \in CaptureSources, delete_job(s)
    PROVE  PostingStep
<1>1. /\ TypeInv /\ owner' = [owner EXCEPT ![s] = 0]
      /\ intent' = [intent EXCEPT ![s] = NoIntent] /\ ptask' = [ptask EXCEPT ![s] = NoPosting]
      /\ pgens' = [pgens EXCEPT ![s] = {}] /\ powner' = [powner EXCEPT ![s] = 0]
  BY DEF IndexInv, delete_job
<1> QED  BY <1>1, ForgotRefines, Zenon

\* A publication that asks for a posting index starts the lifecycle of its generation;
\* one that does not leaves none.
LEMMA OwnershipRefines ==
    ASSUME IndexInv, NEW s \in CaptureSources, NEW n \in BuildNumbers, NEW ask \in BOOLEAN,
           n # owner[s], NoPostingBelow(s), TakeOwnership(s, n, ask)
    PROVE  PostingStep
<1>1. TypeInv /\ RowsOK(s)  BY DEF IndexInv
<1>2. /\ intent' = [intent EXCEPT ![s] = IF ask THEN [parent |-> n, status |-> "PENDING"] ELSE NoIntent]
      /\ ptask' = [ptask EXCEPT ![s] = NoPosting]
      /\ pgens' = [pgens EXCEPT ![s] = {}] /\ powner' = [powner EXCEPT ![s] = 0]
      /\ owner' = [owner EXCEPT ![s] = n]
  BY <1>1, TakeOwnershipRows
<1>3. CASE ~ask
  <2>1. intent' = [intent EXCEPT ![s] = NoIntent]  BY <1>2, <1>3
  <2> QED  BY <1>1, <1>2, <2>1, ForgotRefines, Zenon
<1>4. CASE ask
  <2> DEFINE i == [parent |-> n, status |-> "PENDING"]
  <2>1. intent' = [intent EXCEPT ![s] = i] /\ i.status # "DEFERRED"  BY <1>2, <1>4
  <2> HIDE DEF i
  <2>2. /\ shownIntent' = [shownIntent EXCEPT ![s] = i]
        /\ shownDrafts' = [shownDrafts EXCEPT ![s] = {}]
        /\ shownIndex' = [shownIndex EXCEPT ![s] = <<0, 0>>]
    BY <1>1, <1>2, <2>1, ResetViews, Zenon
  <2>3. n # 0  BY Numbers
  <2>4. intent[s].parent \in {0, owner[s]} /\ ptask[s].status \notin {"QUEUED", "RUNNING"}  BY <1>1, RowsBetween, Zenon
  <2>5. shownIntent[s].parent # n  BY <1>1, <2>3, <2>4, IntentSeen
  <2>6. s \notin ActivePosting
    BY <2>4, Zenon DEF ActivePosting
  <2>7. \A g \in pgens[s] : g.parent # n  BY <1>1, Zenon DEF RowsOK, PostingOK
  <2>8. {d \in shownDrafts[s] : d.parent = n} = {}
    <3>1. shownDrafts[s] = DraftView(pgens[s])  BY Views, Zenon
    <3> QED  BY <2>7, <3>1, NoDraftOf, Zenon
  <2>9. shownIndex[s][1] # n
    <3>1. shownIndex[s] = IndexView(owner[s], powner[s])  BY Views, Zenon
    <3> QED  BY <2>3, <3>1 DEF IndexView
  <2>10. PostingQueue!request(s, n)
    BY <1>2, <2>2, <2>5, <2>6, <2>8, <2>9, AbstractNames, Zenon DEF i, PostingQueue!request
  <2> QED  BY <2>10 DEF PostingStep, PostingQueue!Next
<1> QED  BY <1>3, <1>4

LEMMA UploadRefines ==
    ASSUME IndexInv, NEW u \in Uploads, UploadStep(u)
    PROVE  PostingStep
<1>1. CASE \/ StoreUpload(u) \/ rebuild_offline_upload_index(u) \/ BeginUpload(u) \/ StageUpload(u)
           \/ LeaveUpload(u)
  BY <1>1, PostingStutters, Zenon DEF StoreUpload, rebuild_offline_upload_index, BeginUpload, StageUpload, LeaveUpload,
                               structure, postingRows, postings
<1>2. ASSUME NEW ask \in BOOLEAN, PublishUpload(u, ask)  PROVE PostingStep
  <2>1. PICK n : n = indexing[u].build  OBVIOUS
  <2>2. /\ TypeInv /\ u \in CaptureSources /\ UploadInv(u) /\ indexing[u].pc = "publish"
        /\ NoPostingBelow(u) /\ TakeOwnership(u, n, ask)
    BY <1>2, <2>1, Constants, ZenonT(30) DEF IndexInv, PublishUpload, PublishAllowed
  <2>3. n \in BuildNumbers /\ owner[u] < n /\ n \in Nat /\ owner[u] \in Nat
    BY <2>1, <2>2, RequestFields, Numbers, Zenon DEF UploadInv, UploadOK
  <2>4. n # owner[u]  BY <2>3
  <2> QED  BY <1>2, <2>2, <2>3, <2>4, OwnershipRefines
<1> QED  BY <1>1, <1>2 DEF UploadStep

LEMMA WorkerRefines ==
    ASSUME IndexInv, NEW w \in IndexWorkers, WorkerStep(w)
    PROVE  PostingStep
<1>1. CASE BeginLive(w) \/ StageLive(w) \/ LeaveLive(w) \/ SettleLive(w)
  BY <1>1, PostingStutters, Zenon DEF BeginLive, StageLive, LeaveLive, SettleLive, structure, postingRows, postings
<1>2. ASSUME NEW ask \in BOOLEAN, publish_live_structural_index(w, ask)  PROVE PostingStep
  <2>1. TypeInv /\ worker[w].pc = "scanned"  BY <1>2 DEF IndexInv, publish_live_structural_index
  <2>2. PICK s \in Segments, n \in BuildNumbers : s = worker[w].src /\ n = worker[w].build
    BY <2>1, WorkerTypes
  <2>3. s \in CaptureSources /\ NoPostingBelow(s) /\ Owns(s, n) /\ TakeOwnership(s, n, ask)
    BY <1>2, <2>2, Constants DEF publish_live_structural_index, PublishLiveAllowed
  <2>4. n # owner[s]  BY <2>3, Numbers, Zenon DEF IndexInv, SegmentInv, SegmentOK, Owns
  <2> QED  BY <1>2, <2>3, <2>4, OwnershipRefines
<1> QED  BY <1>1, <1>2 DEF WorkerStep

LEMMA PosterRefines ==
    ASSUME IndexInv, NEW p \in PostingWorkers,
           PosterStep(p) \/ TimeoutPosting(p) \/ LosePosting(p)
    PROVE  PostingStep
<1>1. CASE BeginPosting(p) \/ publish_posting_index(p) \/ LeavePosting(p)
  BY <1>1, BeginRefines, PublishRefines, LeaveRefines
<1>2. CASE StagePosting(p) \/ LosePosting(p)
  BY <1>2, PostingStutters DEF StagePosting, LosePosting, structure, postingRows, postings
<1>3. CASE SettlePosting(p) \/ TimeoutPosting(p)
  <2>1. UNCHANGED <<pgens, powner, owner>>  BY <1>3, Zenon DEF SettlePosting, TimeoutPosting, structure, postings
  <2>2. CASE UNCHANGED postingRows  BY <2>1, <2>2, PostingStutters DEF postingRows
  <2>3. CASE ~UNCHANGED postingRows
    <3>1. PICK transient \in BOOLEAN :
              fail_posting_index(poster[p].src, poster[p].parent, poster[p].attempt, transient)
      BY <1>3, <2>3, Zenon DEF SettlePosting, TimeoutPosting
    <3>2. TypeInv /\ poster[p].pc # "idle"  BY <1>3, Zenon DEF IndexInv, SettlePosting, TimeoutPosting
    <3>3. PICK s \in CaptureSources : s = poster[p].src  BY <3>2, PosterTypes
    <3> QED  BY <2>1, <3>1, <3>3, FailRefines
  <2> QED  BY <2>2, <2>3
<1> QED  BY <1>1, <1>2, <1>3 DEF PosterStep

LEMMA AdmitAfterRefines ==
    ASSUME IndexInv, AdmitAfterPublish
    PROVE  PostingStep
<1>1. UNCHANGED <<pgens, powner, owner>>  BY DEF AdmitAfterPublish, structure, postings
<1>2. CASE UNCHANGED postingRows  BY <1>1, <1>2, PostingStutters DEF postingRows
<1>3. CASE ~UNCHANGED postingRows
  <2>1. \/ \E u \in Uploads : AdmitPosting(u)
        \/ \E w \in IndexWorkers : worker[w].pc = "admit" /\ AdmitPosting(worker[w].src)
    BY <1>3 DEF AdmitAfterPublish
  <2>2. TypeInv  BY DEF IndexInv
  <2>3. PICK s \in CaptureSources : AdmitPosting(s)
    <3>1. ASSUME NEW w \in IndexWorkers, worker[w].pc = "admit"  PROVE worker[w].src \in CaptureSources
      BY <2>2, <3>1, WorkerTypes, Constants
    <3> QED  BY <2>1, <3>1, Constants
  <2> QED  BY <1>1, <2>3, AdmitRefines
<1> QED  BY <1>2, <1>3

LEMMA PostingRefines ==
    ASSUME IndexInv, [PcapIndexNext]_indexVars
    PROVE  PostingStep
<1>1. CASE UNCHANGED indexVars  BY <1>1, PostingStutters DEF indexVars
<1>2. ASSUME NEW s \in Segments,
             \/ StoreSegment(s) \/ admit_live_segment_index(s) \/ recover_live_segment_indexes(s)
             \/ cleanup_terminal_live_segment_indexes(s) \/ TickLive(s)
      PROVE  PostingStep
  BY <1>2, PostingStutters
  DEF StoreSegment, admit_live_segment_index, recover_live_segment_indexes,
      cleanup_terminal_live_segment_indexes, TickLive, structure, postingRows, postings
<1>3. ASSUME NEW s \in CaptureSources, reconcile_posting_indexes(s)  PROVE PostingStep
  BY <1>3, AdmitRefines DEF reconcile_posting_indexes, structure, postings
<1>4. ASSUME NEW s \in CaptureSources, NEW n \in BuildNumbers, cleanup_stale_structural_indexes(s, n)
      PROVE  PostingStep
  BY <1>4, PostingStutters DEF cleanup_stale_structural_indexes, postingRows, postings
<1>5. ASSUME NEW s \in CaptureSources,
             \/ delete_job(s) \/ reconcile_posting_indexes(s) \/ request_posting_index_backfill(s)
             \/ recover_posting_indexes(s) \/ cleanup_terminal_posting_indexes(s)
             \/ cleanup_stale_posting_indexes(s) \/ TickPosting(s)
             \/ \E n \in BuildNumbers : cleanup_stale_structural_indexes(s, n)
      PROVE  PostingStep
  BY <1>3, <1>4, <1>5, DeleteRefines, BackfillRefines, RecoverRefines, ForgetRefines, SweepRefines, TickRefines
<1>6. ASSUME NEW w \in IndexWorkers,
             \/ TimeoutLive(w) \/ heartbeat_live_segment_index(w)
             \/ \E s \in Segments : claim_live_segment_index(w, s)
      PROVE  PostingStep
  BY <1>6, PostingStutters, Zenon
  DEF TimeoutLive, heartbeat_live_segment_index, claim_live_segment_index, structure, postingRows, postings
<1>7. CASE RestartLive \/ RestartPosting
  BY <1>7, PostingStutters DEF RestartLive, RestartPosting, structure, postingRows, postings
<1>8. CASE PcapIndexNext
  BY <1>2, <1>5, <1>6, <1>7, <1>8, UploadRefines, WorkerRefines, PosterRefines, HeartbeatRefines,
     ClaimRefines, AdmitAfterRefines
  DEF PcapIndexNext
<1> QED  BY <1>1, <1>8

\* Every step of the posting tables is a step of the lifecycle that the in-memory and
\* SQLite repositories keep under their lock, or changes nothing of it, although the
\* tables leave an admitted intent DEFERRED and let the foreign keys cascade.
THEOREM PostingQueueImplemented == PcapIndexSpec => ImplementsPostingIndexQueue
<1>1. PcapIndexInit => PostingQueue!Init
  <2> SUFFICES ASSUME PcapIndexInit  PROVE PostingQueue!Init
    OBVIOUS
  <2>1. /\ intent = [s \in CaptureSources |-> NoIntent] /\ ptask = [s \in CaptureSources |-> NoPosting]
        /\ pgens = [s \in CaptureSources |-> {}] /\ powner = [s \in CaptureSources |-> 0]
    BY DEF PcapIndexInit
  <2>2. \A s \in CaptureSources : /\ IntentView(intent[s], ptask[s]) = NoIntent
                                 /\ DraftView(pgens[s]) = {} /\ IndexView(owner[s], powner[s]) = <<0, 0>>
    BY <2>1 DEF IntentView, DraftView, IndexView, NoIntent
  <2>3. /\ shownIntent = [s \in CaptureSources |-> NoIntent] /\ shownDrafts = [s \in CaptureSources |-> {}]
        /\ shownIndex = [s \in CaptureSources |-> <<0, 0>>]
    BY <2>2, Views, Zenon
  <2> QED  BY <2>1, <2>3, AbstractNames DEF PostingQueue!Init
<1>2. IndexInv /\ [PcapIndexNext]_indexVars => [PostingQueue!Next]_(PostingQueue!postingVars)
  BY PostingRefines DEF PostingStep
<1> QED
  BY <1>1, <1>2, IndexStaysSound, PTL DEF PcapIndexSpec, ImplementsPostingIndexQueue, PostingQueue!Spec
=============================================================================
