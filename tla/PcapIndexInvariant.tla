------------------------- MODULE PcapIndexInvariant -------------------------
(***************************************************************************)
(* PcapIndex for any captures, workers, capacity, attempts and leases: the *)
(* inductive invariant, and that each operation on the rows keeps it.      *)
(***************************************************************************)
EXTENDS PcapIndex, TLAPS

(* The inductive invariant *)

WishStates == {"none", "PENDING", "DEFERRED", "COMPLETED", "FAILED", "gone"}

TaskStates == {"none", "QUEUED", "RUNNING", "COMPLETED", "FAILED"}

IntentStates == {"none", "PENDING", "DEFERRED", "COMPLETED", "FAILED"}

Owners == {0} \cup BuildNumbers

Tries == 1 .. MaxAttempts

TaskRecords ==
    [status : TaskStates, attempt : 0 .. MaxAttempts, lease : 0 .. LeaseTicks, ready : BOOLEAN]

GenRecords == [build : BuildNumbers, state : {"STAGING", "READY"}]

IntentRecords == [parent : Owners, status : IntentStates]

PostingRecords ==
    [parent : Owners, status : TaskStates, attempt : 0 .. MaxAttempts, lease : 0 .. LeaseTicks,
     ready : BOOLEAN]

DraftRecords ==
    [parent : BuildNumbers, attempt : Tries, state : {"STAGING", "READY"}, expected : 0 .. MaxAttempts]

Requests == [pc : {"none", "open", "scan", "publish", "admit"}, build : 0 .. MaxBuilds]

WorkerRecords ==
    [pc : {"claimed", "staging", "scanned", "admit", "done", "transient", "permanent"},
     src : Segments, build : Tries, orphan : BOOLEAN]

PosterRecords ==
    [pc : {"claimed", "staging", "staged", "done", "transient", "permanent"},
     src : CaptureSources, parent : BuildNumbers, attempt : Tries, orphan : BOOLEAN]

\* Every variable has its type, in full.
TypeInv ==
    /\ capture \in [CaptureSources -> {"none", "stored", "gone"}]
    /\ version \subseteq CaptureSources
    /\ wish \in [Segments -> WishStates]
    /\ task \in [Segments -> TaskRecords]
    /\ gens \in [CaptureSources -> SUBSET GenRecords]
    /\ owner \in [CaptureSources -> Owners]
    /\ intent \in [CaptureSources -> IntentRecords]
    /\ ptask \in [CaptureSources -> PostingRecords]
    /\ pgens \in [CaptureSources -> SUBSET DraftRecords]
    /\ powner \in [CaptureSources -> 0 .. MaxAttempts]
    /\ indexing \in [Uploads -> Requests]
    /\ worker \in [IndexWorkers -> WorkerRecords \cup {Idle}]
    /\ poster \in [PostingWorkers -> PosterRecords \cup {NoPoster}]
    /\ fatal \subseteq {"live", "posting"}

\* The owner of a source is its only READY generation, of a stored capture.
OwnerInv(s) ==
    /\ \A n \in BuildNumbers : Ready(n) \in gens[s] <=> owner[s] = n
    /\ owner[s] # 0 => capture[s] = "stored" /\ s \in version

\* The intent i and the task t of a source are of its owner o; an active task has an
\* intent that waits for it, and one that has ended an intent that says so.
LifecycleOK(o, i, t) ==
    /\ i = NoIntent \/ (i.parent = o /\ o # 0 /\ i.status # "none")
    /\ t = NoPosting \/ (t.parent = o /\ o # 0 /\ t.status # "none" /\ i.parent = o)
    /\ t.status = "QUEUED" => t.attempt < MaxAttempts
    /\ t.status = "RUNNING" => t.attempt > 0
    /\ t.status \in {"QUEUED", "RUNNING"} => i.status \in {"PENDING", "DEFERRED"}
    /\ t.status \in {"COMPLETED", "FAILED"} => i.status \in {"COMPLETED", "FAILED"}

\* The posting generations G are of the owner o, the READY ones of the attempt w that
\* was published, which the intent i reports.
PostingOK(o, i, G, w) ==
    /\ \A g \in G : g.parent = o /\ (g.state = "READY" => g.attempt = w)
    /\ w # 0 => \E g \in G : g.state = "READY"
    /\ i.status = "COMPLETED" <=> w # 0

RowsOK(s) ==
    LifecycleOK(owner[s], intent[s], ptask[s]) /\ PostingOK(owner[s], intent[s], pgens[s], powner[s])

\* The wish w and the task t of a segment whose capture is in state c and has owner o.
SegmentOK(c, o, w, t) ==
    /\ w = "COMPLETED" <=> o # 0
    /\ w = "none" <=> c = "none"
    /\ w = "gone" <=> c = "gone"
    /\ t = NoTask \/ t.status # "none"
    /\ t.status \in {"QUEUED", "RUNNING"} => w = "PENDING" /\ c = "stored"
    /\ t.status = "QUEUED" => t.attempt < MaxAttempts
    /\ t.status = "RUNNING" => t.attempt > 0

SegmentInv(s) == SegmentOK(capture[s], owner[s], wish[s], task[s])

\* Builds of an upload are numbered upwards.
UploadOK(o, r) ==
    /\ r.pc # "none" => r.build > 0
    /\ o <= r.build
    /\ r.pc \in {"open", "scan", "publish"} => o < r.build

UploadInv(u) == UploadOK(owner[u], indexing[u])

\* A posting build was claimed below a generation that has been published; while it
\* is the owner, the task counts the build's attempt or has ended for good.
PosterInv(p) ==
    LET b == poster[p] IN
    b.pc # "idle" =>
        /\ capture[b.src] # "none"
        /\ b.parent = owner[b.src] =>
            \/ ptask[b.src].parent = b.parent /\ b.attempt <= ptask[b.src].attempt
            \/ intent[b.src].status \in {"COMPLETED", "FAILED"}
        /\ b.src \in Uploads =>
            /\ b.parent <= indexing[b.src].build
            /\ indexing[b.src].pc \in {"open", "scan", "publish"} => b.parent < indexing[b.src].build
        /\ b.src \in Segments => wish[b.src] \in {"COMPLETED", "gone"}

\* No two builds are of the same attempt.
OneBuildPerAttempt ==
    \A p, q \in PostingWorkers :
        /\ p # q /\ poster[p].pc # "idle" /\ poster[q].pc # "idle"
        => ~(/\ poster[p].src = poster[q].src /\ poster[p].parent = poster[q].parent
             /\ poster[p].attempt = poster[q].attempt)

IndexInv ==
    /\ TypeInv
    /\ \A s \in CaptureSources : OwnerInv(s) /\ RowsOK(s)
    /\ \A s \in Segments : SegmentInv(s)
    /\ \A u \in Uploads : UploadInv(u)
    /\ \A p \in PostingWorkers : PosterInv(p)
    /\ OneBuildPerAttempt
    /\ HeldDraftsStay

----------------------------------------------------------------------------
(* Constants, and the records of the tables.                               *)

LEMMA Constants ==
    /\ MaxAttempts \in Nat \ {0} /\ MaxBuilds \in Nat \ {0} /\ LeaseTicks \in Nat \ {0}
    /\ Uploads \cap Segments = {} /\ CaptureSources = Uploads \cup Segments
    /\ BuildNumbers \subseteq Nat \ {0}
    /\ 1 .. MaxAttempts \subseteq BuildNumbers /\ 1 .. MaxBuilds \subseteq BuildNumbers
<1>1. /\ MaxAttempts \in Nat \ {0} /\ MaxBuilds \in Nat \ {0} /\ LeaseTicks \in Nat \ {0}
      /\ Uploads \cap Segments = {}
  BY IndexConstants
<1>2. CASE MaxAttempts > MaxBuilds
  BY <1>1, <1>2 DEF BuildNumbers, CaptureSources
<1>3. CASE ~(MaxAttempts > MaxBuilds)
  BY <1>1, <1>3 DEF BuildNumbers, CaptureSources
<1> QED  BY <1>2, <1>3

LEMMA Numbers ==
    /\ Owners \subseteq Nat /\ 0 \in Owners /\ 0 \notin BuildNumbers /\ BuildNumbers \subseteq Owners
    /\ Tries \subseteq Nat \ {0} /\ Tries \subseteq BuildNumbers /\ Tries \subseteq 0 .. MaxAttempts
    /\ 0 \in 0 .. MaxAttempts /\ 0 \in 0 .. LeaseTicks /\ LeaseTicks \in 0 .. LeaseTicks
    /\ \A n \in 0 .. MaxAttempts : n \in Nat /\ (n < MaxAttempts => n + 1 \in Tries) /\ (n > 0 => n \in Tries)
    /\ \A n \in 0 .. LeaseTicks : n > 0 => n - 1 \in 0 .. LeaseTicks
    /\ \A n \in 0 .. MaxBuilds : /\ n \in Nat
                                 /\ n < MaxBuilds => n + 1 \in 0 .. MaxBuilds
                                 /\ n > 0 => n \in BuildNumbers
    /\ 1 \in 0 .. MaxBuilds
BY Constants DEF Owners, Tries

LEMMA RowTypes ==
    ASSUME TypeInv
    PROVE  /\ \A s \in CaptureSources :
                /\ capture[s] \in {"none", "stored", "gone"}
                /\ gens[s] \subseteq GenRecords /\ owner[s] \in Owners
                /\ intent[s] \in IntentRecords /\ ptask[s] \in PostingRecords
                /\ pgens[s] \subseteq DraftRecords /\ powner[s] \in 0 .. MaxAttempts
           /\ \A s \in Segments : wish[s] \in WishStates /\ task[s] \in TaskRecords
           /\ \A u \in Uploads : indexing[u] \in Requests
           /\ \A w \in IndexWorkers : worker[w] \in WorkerRecords \/ worker[w] = Idle
           /\ \A p \in PostingWorkers : poster[p] \in PosterRecords \/ poster[p] = NoPoster
BY DEF TypeInv

LEMMA WorkerTypes ==
    ASSUME TypeInv, NEW w \in IndexWorkers, worker[w].pc # "idle"
    PROVE  /\ worker[w] \in WorkerRecords
           /\ worker[w].src \in Segments /\ worker[w].src \in CaptureSources
           /\ worker[w].build \in Tries /\ worker[w].build \in BuildNumbers
           /\ worker[w].orphan \in BOOLEAN
<1>1. worker[w] \in WorkerRecords  BY RowTypes DEF Idle
<1> QED  BY <1>1, Numbers, Constants, Zenon DEF WorkerRecords

LEMMA PosterTypes ==
    ASSUME TypeInv, NEW p \in PostingWorkers, poster[p].pc # "idle"
    PROVE  /\ poster[p] \in PosterRecords
           /\ poster[p].src \in CaptureSources
           /\ poster[p].parent \in BuildNumbers /\ poster[p].attempt \in Tries
           /\ poster[p].orphan \in BOOLEAN
<1>1. poster[p] \in PosterRecords  BY RowTypes DEF NoPoster
<1> QED  BY <1>1 DEF PosterRecords

LEMMA InitIndexInv == ASSUME PcapIndexInit  PROVE IndexInv
<1>1. NoTask \in TaskRecords  BY Numbers DEF NoTask, TaskRecords, TaskStates
<1>2. NoPosting \in PostingRecords  BY Numbers DEF NoPosting, PostingRecords, TaskStates
<1>3. NoIntent \in IntentRecords  BY Numbers DEF NoIntent, IntentRecords, IntentStates
<1>4. TypeInv
  <2>1. [pc |-> "none", build |-> 0] \in Requests  BY Constants DEF Requests
  <2> QED  BY <1>1, <1>2, <1>3, <2>1, Numbers DEF PcapIndexInit, TypeInv, WishStates
<1>5. \A s \in CaptureSources : OwnerInv(s)
  BY Numbers DEF PcapIndexInit, OwnerInv
<1>6. \A s \in CaptureSources : RowsOK(s)
  BY DEF PcapIndexInit, RowsOK, LifecycleOK, PostingOK, NoPosting, NoIntent
<1>8. \A s \in Segments : SegmentInv(s)
  BY Constants DEF PcapIndexInit, SegmentInv, SegmentOK, NoTask
<1>9. \A u \in Uploads : UploadInv(u)  BY Constants DEF PcapIndexInit, UploadInv, UploadOK
<1>10. \A p \in PostingWorkers : poster[p].pc = "idle"  BY DEF PcapIndexInit, NoPoster
<1>11. (\A p \in PostingWorkers : PosterInv(p)) /\ OneBuildPerAttempt /\ HeldDraftsStay
  BY <1>10 DEF PosterInv, OneBuildPerAttempt, HeldDraftsStay
<1> QED  BY <1>4, <1>5, <1>6, <1>8, <1>9, <1>11 DEF IndexInv

----------------------------------------------------------------------------
(* What a step does to the posting rows of its source.                     *)

\* What builds that are under way rely on: a task that has ended has ended for good,
\* attempts are counted upwards, and the draft of a lease that is held is kept until
\* its own builder gives it up.
PostingMove(s) ==
    /\ owner'[s] = owner[s] =>
        /\ intent[s].status \in {"COMPLETED", "FAILED"} => intent'[s].status \in {"COMPLETED", "FAILED"}
        /\ ptask[s].parent = owner[s] /\ owner[s] # 0 =>
            \/ ptask'[s].parent = owner[s] /\ ptask[s].attempt <= ptask'[s].attempt
            \/ intent'[s].status \in {"COMPLETED", "FAILED"}
    /\ \A parent \in BuildNumbers, attempt \in Tries : OwnsPosting(s, parent, attempt)' =>
        \/ /\ OwnsPosting(s, parent, attempt)
           /\ \A g \in pgens[s] : g.parent = parent /\ g.attempt = attempt /\ g.state = "STAGING" => g \in pgens'[s]
        \/ /\ owner[s] = parent /\ ptask[s].parent = parent /\ attempt > ptask[s].attempt
           /\ intent[s].status \notin {"COMPLETED", "FAILED"}
        \/ \E p \in PostingWorkers :
            /\ poster[p].src = s /\ poster[p].parent = parent /\ poster[p].attempt = attempt
            /\ poster[p].pc # "idle" /\ poster'[p].pc \notin {"staging", "staged"}

PostingKept(s) ==
    /\ intent'[s] = intent[s] /\ ptask'[s] = ptask[s] /\ pgens'[s] = pgens[s] /\ powner'[s] = powner[s]
    /\ owner'[s] = owner[s]

PostingRowTypes ==
    /\ intent \in [CaptureSources -> IntentRecords]
    /\ ptask \in [CaptureSources -> PostingRecords]
    /\ pgens \in [CaptureSources -> SUBSET DraftRecords]
    /\ powner \in [CaptureSources -> 0 .. MaxAttempts]

\* The posting rows stay right, and move as builds expect.
PostingsGood ==
    /\ PostingRowTypes'
    /\ \A s \in CaptureSources : RowsOK(s)' /\ PostingMove(s)

LEMMA KeptPostings ==
    ASSUME TypeInv, NEW s \in CaptureSources, RowsOK(s), PostingKept(s)
    PROVE  RowsOK(s)' /\ PostingMove(s)
<1>1. ptask[s].attempt \in Nat  BY RowTypes, Numbers DEF PostingRecords
<1>2. RowsOK(s)'  BY DEF RowsOK, PostingKept
<1>3. PostingMove(s)  BY <1>1 DEF PostingMove, PostingKept, OwnsPosting
<1> QED  BY <1>2, <1>3

\* A step that leaves the posting rows alone.
LEMMA PostingsUnchanged ==
    ASSUME TypeInv, \A s \in CaptureSources : RowsOK(s),
           UNCHANGED <<intent, ptask, pgens, powner, owner>>
    PROVE  PostingsGood
<1>1. PostingRowTypes'  BY DEF TypeInv, PostingRowTypes
<1>2. \A s \in CaptureSources : PostingKept(s)  BY DEF PostingKept
<1> QED  BY <1>1, <1>2, KeptPostings DEF PostingsGood

\* A step that changes the rows of one source.
LEMMA PostingsOfOne ==
    ASSUME TypeInv, \A h \in CaptureSources : RowsOK(h), NEW s \in CaptureSources,
           PostingRowTypes', \A h \in CaptureSources \ {s} : PostingKept(h),
           RowsOK(s)', PostingMove(s)
    PROVE  PostingsGood
BY KeptPostings DEF PostingsGood

\* An intent and a task are written.
LEMMA LifecycleUpdate ==
    ASSUME TypeInv, NEW s \in CaptureSources, NEW i \in IntentRecords, NEW t \in PostingRecords,
           intent' = [intent EXCEPT ![s] = i], ptask' = [ptask EXCEPT ![s] = t],
           UNCHANGED <<pgens, powner, owner>>
    PROVE  /\ PostingRowTypes' /\ \A h \in CaptureSources \ {s} : PostingKept(h)
           /\ intent'[s] = i /\ ptask'[s] = t
BY DEF TypeInv, PostingRowTypes, PostingKept

\* Posting generations and their owner are written as well.
LEMMA GenerationUpdate ==
    ASSUME TypeInv, NEW s \in CaptureSources, NEW i \in IntentRecords, NEW t \in PostingRecords,
           NEW G \in SUBSET DraftRecords, NEW w \in 0 .. MaxAttempts, NEW o,
           intent' = [intent EXCEPT ![s] = i], ptask' = [ptask EXCEPT ![s] = t],
           pgens' = [pgens EXCEPT ![s] = G], powner' = [powner EXCEPT ![s] = w],
           owner' = [owner EXCEPT ![s] = o]
    PROVE  /\ PostingRowTypes' /\ \A h \in CaptureSources \ {s} : PostingKept(h)
           /\ intent'[s] = i /\ ptask'[s] = t /\ pgens'[s] = G /\ powner'[s] = w /\ owner'[s] = o
BY DEF TypeInv, PostingRowTypes, PostingKept

\* A step of the lifecycle of one source; no generation is written.
LEMMA LifecycleStep ==
    ASSUME TypeInv, \A h \in CaptureSources : RowsOK(h),
           NEW s \in CaptureSources, NEW i \in IntentRecords, NEW t \in PostingRecords,
           intent' = [intent EXCEPT ![s] = i], ptask' = [ptask EXCEPT ![s] = t],
           UNCHANGED <<pgens, powner, owner>>,
           LifecycleOK(owner[s], i, t),
           i.status = "COMPLETED" <=> intent[s].status = "COMPLETED",
           intent[s].status = "FAILED" => i.status = "FAILED",
           ptask[s].parent = owner[s] /\ owner[s] # 0 =>
               \/ t.parent = owner[s] /\ ptask[s].attempt <= t.attempt
               \/ i.status \in {"COMPLETED", "FAILED"},
           t.status = "RUNNING" /\ t.lease > 0 =>
               \/ /\ ptask[s].status = "RUNNING" /\ ptask[s].lease > 0
                  /\ t.parent = ptask[s].parent /\ t.attempt = ptask[s].attempt
               \/ /\ t.parent = owner[s] /\ ptask[s].parent = owner[s] /\ t.attempt > ptask[s].attempt
                  /\ intent[s].status \notin {"COMPLETED", "FAILED"}
    PROVE  PostingsGood
<1>1. /\ PostingRowTypes' /\ \A h \in CaptureSources \ {s} : PostingKept(h)
      /\ intent'[s] = i /\ ptask'[s] = t
      /\ pgens'[s] = pgens[s] /\ powner'[s] = powner[s] /\ owner'[s] = owner[s]
  BY LifecycleUpdate, Zenon
<1>2. RowsOK(s)'
  <2>1. PostingOK(owner[s], i, pgens[s], powner[s])  BY DEF RowsOK, PostingOK
  <2> QED  BY <1>1, <2>1 DEF RowsOK
<1>3. PostingMove(s)
  <2>1. ASSUME NEW parent \in BuildNumbers, NEW attempt \in Tries, OwnsPosting(s, parent, attempt)'
        PROVE  \/ OwnsPosting(s, parent, attempt)
               \/ /\ owner[s] = parent /\ ptask[s].parent = parent /\ attempt > ptask[s].attempt
                  /\ intent[s].status \notin {"COMPLETED", "FAILED"}
    <3>1. t.status = "RUNNING" /\ t.lease > 0 /\ t.parent = parent /\ t.attempt = attempt
      BY <1>1, <2>1 DEF OwnsPosting
    <3> QED  BY <3>1 DEF OwnsPosting
  <2>2. intent[s].status \in {"COMPLETED", "FAILED"} => intent'[s].status \in {"COMPLETED", "FAILED"}
    BY <1>1
  <2>3. ptask[s].parent = owner[s] /\ owner[s] # 0 =>
            \/ ptask'[s].parent = owner[s] /\ ptask[s].attempt <= ptask'[s].attempt
            \/ intent'[s].status \in {"COMPLETED", "FAILED"}
    BY <1>1
  <2> QED  BY <1>1, <2>1, <2>2, <2>3 DEF PostingMove
<1> QED  BY <1>1, <1>2, <1>3, PostingsOfOne

LEMMA LifecycleFields ==
    ASSUME TypeInv, NEW s \in CaptureSources
    PROVE  /\ owner[s] \in Owners /\ intent[s] \in IntentRecords /\ ptask[s] \in PostingRecords
           /\ intent[s].parent \in Owners /\ intent[s].status \in IntentStates
           /\ ptask[s].parent \in Owners /\ ptask[s].status \in TaskStates
           /\ ptask[s].attempt \in 0 .. MaxAttempts /\ ptask[s].attempt \in Nat
           /\ ptask[s].lease \in 0 .. LeaseTicks /\ ptask[s].ready \in BOOLEAN
           /\ DOMAIN intent = CaptureSources /\ DOMAIN ptask = CaptureSources
<1>1. owner[s] \in Owners /\ intent[s] \in IntentRecords /\ ptask[s] \in PostingRecords  BY RowTypes
<1>2. DOMAIN intent = CaptureSources /\ DOMAIN ptask = CaptureSources  BY DEF TypeInv
<1> QED  BY <1>1, <1>2, Numbers DEF IntentRecords, PostingRecords

LEMMA EmptyRows ==
    NoTask \in TaskRecords /\ NoPosting \in PostingRecords /\ NoIntent \in IntentRecords
<1>1. NoTask \in TaskRecords  BY Numbers DEF NoTask, TaskRecords, TaskStates
<1>2. NoPosting \in PostingRecords  BY Numbers DEF NoPosting, PostingRecords, TaskStates
<1>3. NoIntent \in IntentRecords  BY Numbers DEF NoIntent, IntentRecords, IntentStates
<1> QED  BY <1>1, <1>2, <1>3

\* Admission, from reconcile_posting_indexes and after a publication.
LEMMA AdmitGood ==
    ASSUME TypeInv, \A h \in CaptureSources : RowsOK(h), NEW s \in CaptureSources,
           AdmitPosting(s), UNCHANGED <<pgens, powner, owner>>
    PROVE  PostingsGood
<1>1. CASE UNCHANGED postingRows  BY <1>1, PostingsUnchanged DEF postingRows
<1>2. ASSUME Eligible(s), ptask[s] = NoPosting, UNCHANGED ptask,
             intent' = [intent EXCEPT ![s].status = "DEFERRED"]
      PROVE  PostingsGood
  <2> DEFINE i == [intent[s] EXCEPT !.status = "DEFERRED"]
  <2>1. i \in IntentRecords /\ i.parent = intent[s].parent /\ i.status = "DEFERRED"
    BY LifecycleFields DEF IntentRecords, IntentStates
  <2>2. intent' = [intent EXCEPT ![s] = i] /\ ptask' = [ptask EXCEPT ![s] = ptask[s]]
    BY <1>2 DEF TypeInv
  <2> HIDE DEF i
  <2>3. ptask[s].parent = 0 /\ ptask[s].status = "none" /\ ptask[s].attempt = 0  BY <1>2 DEF NoPosting
  <2>4. LifecycleOK(owner[s], i, ptask[s])
    BY <1>2, <2>1, <2>3 DEF RowsOK, LifecycleOK, Eligible, NoIntent
  <2> QED
    BY <1>2, <2>1, <2>2, <2>3, <2>4, LifecycleStep, LifecycleFields, ZenonT(30) DEF Eligible
<1>3. ASSUME Eligible(s), ptask[s] = NoPosting, UNCHANGED intent,
             ptask' = [ptask EXCEPT ![s] = [NoPosting EXCEPT !.parent = intent[s].parent,
                                                             !.status = "QUEUED", !.ready = TRUE]]
      PROVE  PostingsGood
  <2> DEFINE t == [NoPosting EXCEPT !.parent = intent[s].parent, !.status = "QUEUED", !.ready = TRUE]
  <2>1. /\ t.parent = intent[s].parent /\ t.status = "QUEUED" /\ t.attempt = 0
        /\ t \in PostingRecords
    BY LifecycleFields, Numbers, Zenon DEF NoPosting, PostingRecords, TaskStates
  <2>2. intent' = [intent EXCEPT ![s] = intent[s]] /\ ptask' = [ptask EXCEPT ![s] = t]
    BY <1>3 DEF TypeInv
  <2> HIDE DEF t
  <2>3. ptask[s].parent = 0 /\ ptask[s].status = "none" /\ ptask[s].attempt = 0  BY <1>3 DEF NoPosting
  <2>4. LifecycleOK(owner[s], intent[s], t)
    BY <1>3, <2>1, <2>3, Constants DEF RowsOK, LifecycleOK, Eligible, NoIntent
  <2> QED
    BY <1>3, <2>1, <2>2, <2>3, <2>4, LifecycleStep, LifecycleFields, Zenon DEF Eligible
<1> QED  BY <1>1, <1>2, <1>3 DEF AdmitPosting

LEMMA BackfillGood ==
    ASSUME TypeInv, \A h \in CaptureSources : RowsOK(h), NEW s \in CaptureSources,
           request_posting_index_backfill(s)
    PROVE  PostingsGood
<1>1. /\ owner[s] # 0 /\ intent[s] = NoIntent /\ UNCHANGED <<ptask, pgens, powner, owner>>
      /\ intent' = [intent EXCEPT ![s] = [parent |-> owner[s], status |-> "PENDING"]]
  BY DEF request_posting_index_backfill, BackfillWanted, structure, postings
<1> DEFINE i == [parent |-> owner[s], status |-> "PENDING"]
<1>2. i \in IntentRecords /\ i.parent = owner[s] /\ i.status = "PENDING"
  BY LifecycleFields DEF IntentRecords, IntentStates
<1>3. intent' = [intent EXCEPT ![s] = i] /\ ptask' = [ptask EXCEPT ![s] = ptask[s]]
  BY <1>1 DEF TypeInv
<1> HIDE DEF i
<1>4. ptask[s] = NoPosting /\ intent[s].status = "none" /\ intent[s].parent = 0
  BY <1>1 DEF RowsOK, LifecycleOK, NoIntent
<1>5. ptask[s].parent = 0 /\ ptask[s].status = "none" /\ ptask[s].attempt = 0  BY <1>4 DEF NoPosting
<1>6. LifecycleOK(owner[s], i, ptask[s])
  BY <1>1, <1>2, <1>4, <1>5 DEF LifecycleOK
<1> QED  BY <1>1, <1>2, <1>3, <1>4, <1>5, <1>6, LifecycleStep, LifecycleFields, Zenon

LEMMA ClaimGood ==
    ASSUME TypeInv, \A h \in CaptureSources : RowsOK(h), NEW s \in CaptureSources,
           NEW p \in PostingWorkers, claim_posting_index(p, s)
    PROVE  PostingsGood
<1> DEFINE t == [ptask[s] EXCEPT !.status = "RUNNING", !.attempt = @ + 1, !.lease = LeaseTicks]
<1>1. /\ ptask[s].status = "QUEUED" /\ intent[s].parent = ptask[s].parent
      /\ UNCHANGED <<intent, pgens, powner, owner>>
      /\ intent[s].status \in {"PENDING", "DEFERRED"}
  BY DEF claim_posting_index, structure, postings, Eligible
<1>2. ptask' = [ptask EXCEPT ![s] = t]
  BY Zenon DEF claim_posting_index
<1>3. ptask[s].attempt < MaxAttempts /\ ptask[s].parent = owner[s] /\ owner[s] # 0 /\ intent[s] # NoIntent
  BY <1>1 DEF RowsOK, LifecycleOK, NoPosting, NoIntent
<1>4. ptask[s].attempt + 1 \in Tries /\ ptask[s].attempt + 1 \in 0 .. MaxAttempts
      /\ ptask[s].attempt + 1 > ptask[s].attempt /\ ptask[s].attempt + 1 > 0
  BY <1>3, LifecycleFields, Numbers
<1>5. /\ t \in PostingRecords /\ t.parent = ptask[s].parent /\ t.status = "RUNNING"
      /\ t.attempt = ptask[s].attempt + 1
  BY <1>4, LifecycleFields, Numbers, Zenon DEF PostingRecords, TaskStates
<1>6. intent' = [intent EXCEPT ![s] = intent[s]]  BY <1>1 DEF TypeInv
<1> HIDE DEF t
<1>7. LifecycleOK(owner[s], intent[s], t)
  BY <1>1, <1>3, <1>4, <1>5 DEF RowsOK, LifecycleOK
<1>8. ptask[s].attempt <= t.attempt /\ t.attempt > ptask[s].attempt  BY <1>4, <1>5, LifecycleFields
<1>9. intent[s] \in IntentRecords  BY LifecycleFields
<1> QED  BY <1>1, <1>2, <1>3, <1>5, <1>6, <1>7, <1>8, <1>9, LifecycleStep, Zenon

\* A task that is kept active, or whose clock moves.
LEMMA TaskOnly ==
    ASSUME TypeInv, \A h \in CaptureSources : RowsOK(h), NEW s \in CaptureSources,
           NEW t \in PostingRecords, ptask' = [ptask EXCEPT ![s] = t],
           UNCHANGED <<intent, pgens, powner, owner>>,
           t.parent = ptask[s].parent, t.status = ptask[s].status, t.attempt = ptask[s].attempt,
           ptask[s].status # "none", t.lease > 0 => ptask[s].lease > 0
    PROVE  PostingsGood
<1>1. intent' = [intent EXCEPT ![s] = intent[s]]  BY DEF TypeInv
<1>2. t # NoPosting /\ ptask[s] # NoPosting  BY DEF NoPosting
<1>3. LifecycleOK(owner[s], intent[s], t)  BY <1>2 DEF RowsOK, LifecycleOK
<1>4. intent[s] \in IntentRecords /\ ptask[s].attempt <= t.attempt  BY LifecycleFields
<1> QED  BY <1>1, <1>3, <1>4, LifecycleStep, Zenon

LEMMA HeartbeatGood ==
    ASSUME TypeInv, \A h \in CaptureSources : RowsOK(h), NEW s \in CaptureSources,
           NEW parent, NEW attempt, OwnsPosting(s, parent, attempt),
           ptask' = [ptask EXCEPT ![s].lease = LeaseTicks], UNCHANGED <<intent, pgens, powner, owner>>
    PROVE  PostingsGood
<1> DEFINE t == [ptask[s] EXCEPT !.lease = LeaseTicks]
<1>1. ptask' = [ptask EXCEPT ![s] = t]  BY LifecycleFields
<1>2. /\ t \in PostingRecords /\ t.parent = ptask[s].parent /\ t.status = ptask[s].status
      /\ t.attempt = ptask[s].attempt
  BY LifecycleFields, Numbers DEF PostingRecords
<1>3. ptask[s].status # "none" /\ ptask[s].lease > 0  BY DEF OwnsPosting
<1> HIDE DEF t
<1> QED  BY <1>1, <1>2, <1>3, TaskOnly, Zenon

LEMMA TickGood ==
    ASSUME TypeInv, \A h \in CaptureSources : RowsOK(h), NEW s \in CaptureSources, TickPosting(s)
    PROVE  PostingsGood
<1>1. UNCHANGED <<intent, pgens, powner, owner>>  BY DEF TickPosting, structure, postings
<1>2. ASSUME ptask[s].status = "RUNNING", ptask[s].lease > 0,
             ptask' = [ptask EXCEPT ![s].lease = @ - 1]
      PROVE  PostingsGood
  <2> DEFINE t == [ptask[s] EXCEPT !.lease = @ - 1]
  <2>1. ptask' = [ptask EXCEPT ![s] = t]  BY <1>2, LifecycleFields
  <2>2. ptask[s].lease - 1 \in 0 .. LeaseTicks  BY <1>2, LifecycleFields, Numbers
  <2>3. /\ t \in PostingRecords /\ t.parent = ptask[s].parent /\ t.status = ptask[s].status
        /\ t.attempt = ptask[s].attempt
    BY <2>2, LifecycleFields DEF PostingRecords
  <2> HIDE DEF t
  <2> QED  BY <1>1, <1>2, <2>1, <2>3, TaskOnly, Zenon
<1>3. ASSUME ptask[s].status = "QUEUED", ptask' = [ptask EXCEPT ![s].ready = TRUE]
      PROVE  PostingsGood
  <2> DEFINE t == [ptask[s] EXCEPT !.ready = TRUE]
  <2>1. ptask' = [ptask EXCEPT ![s] = t]  BY <1>3, LifecycleFields
  <2>2. /\ t \in PostingRecords /\ t.parent = ptask[s].parent /\ t.status = ptask[s].status
        /\ t.attempt = ptask[s].attempt /\ t.lease = ptask[s].lease
    BY LifecycleFields, Zenon DEF PostingRecords
  <2> HIDE DEF t
  <2> QED  BY <1>1, <1>3, <2>1, <2>2, TaskOnly, Zenon
<1> QED  BY <1>2, <1>3 DEF TickPosting

\* An active task is queued again or has FAILED, and its intent with it.
LEMMA SettleGood ==
    ASSUME TypeInv, \A h \in CaptureSources : RowsOK(h), NEW s \in CaptureSources,
           Eligible(s), intent[s].parent = ptask[s].parent, ptask[s].status = "RUNNING",
           NEW retry \in BOOLEAN, retry => ptask[s].attempt < MaxAttempts,
           NEW t \in PostingRecords, ptask' = [ptask EXCEPT ![s] = t],
           t.parent = ptask[s].parent, t.attempt = ptask[s].attempt,
           t.status = (IF retry THEN "QUEUED" ELSE "FAILED"),
           intent' = [intent EXCEPT ![s].status = IF retry THEN "PENDING" ELSE "FAILED"],
           UNCHANGED <<pgens, powner, owner>>
    PROVE  PostingsGood
<1> DEFINE i == [intent[s] EXCEPT !.status = IF retry THEN "PENDING" ELSE "FAILED"]
<1>1. intent' = [intent EXCEPT ![s] = i]  BY LifecycleFields
<1>2. i \in IntentRecords /\ i.parent = intent[s].parent /\ i.status = (IF retry THEN "PENDING" ELSE "FAILED")
  BY LifecycleFields DEF IntentRecords, IntentStates
<1> HIDE DEF i
<1>3. intent[s].parent = owner[s] /\ owner[s] # 0
  BY DEF RowsOK, LifecycleOK, NoPosting
<1>4. LifecycleOK(owner[s], i, t)
  <2>1. CASE retry  BY <2>1, <1>2, <1>3 DEF LifecycleOK, RowsOK
  <2>2. CASE ~retry  BY <2>2, <1>2, <1>3 DEF LifecycleOK, RowsOK
  <2> QED  BY <2>1, <2>2
<1>5. /\ intent[s].status \notin {"COMPLETED", "FAILED"} /\ i.status # "COMPLETED"
      /\ t.status # "RUNNING" /\ ptask[s].attempt <= t.attempt
  <2>1. intent[s].status \notin {"COMPLETED", "FAILED"}  BY DEF Eligible
  <2>2. i.status # "COMPLETED" /\ t.status # "RUNNING"  BY <1>2
  <2>3. ptask[s].attempt <= t.attempt  BY LifecycleFields
  <2> QED  BY <2>1, <2>2, <2>3
<1>6. t.parent = owner[s]  BY <1>3
<1> QED  BY <1>1, <1>2, <1>4, <1>5, <1>6, LifecycleStep, Zenon

LEMMA FailGood ==
    ASSUME TypeInv, \A h \in CaptureSources : RowsOK(h), NEW s \in CaptureSources,
           NEW parent, NEW attempt, NEW transient \in BOOLEAN,
           fail_posting_index(s, parent, attempt, transient), UNCHANGED <<pgens, powner, owner>>
    PROVE  PostingsGood
<1>1. CASE UNCHANGED postingRows  BY <1>1, PostingsUnchanged DEF postingRows
<1> DEFINE retry == transient /\ attempt < MaxAttempts
           t == [ptask[s] EXCEPT !.status = IF retry THEN "QUEUED" ELSE "FAILED", !.lease = 0,
                                 !.ready = ~retry]
<1>2. ASSUME Eligible(s), intent[s].parent = parent, OwnsPosting(s, parent, attempt),
             ptask' = [ptask EXCEPT ![s].status = IF retry THEN "QUEUED" ELSE "FAILED",
                                    ![s].lease = 0, ![s].ready = ~retry],
             intent' = [intent EXCEPT ![s].status = IF retry THEN "PENDING" ELSE "FAILED"]
      PROVE  PostingsGood
  <2>1. retry \in BOOLEAN  OBVIOUS
  <2>2. retry => ptask[s].attempt < MaxAttempts  BY <1>2 DEF OwnsPosting
  <2> HIDE DEF retry
  <2>3. /\ t \in PostingRecords /\ t.parent = ptask[s].parent /\ t.attempt = ptask[s].attempt
        /\ t.status = (IF retry THEN "QUEUED" ELSE "FAILED")
    <3>1. CASE retry = TRUE  BY <3>1, LifecycleFields, Numbers, Zenon DEF PostingRecords, TaskStates
    <3>2. CASE retry = FALSE  BY <3>2, LifecycleFields, Numbers, Zenon DEF PostingRecords, TaskStates
    <3> QED  BY <2>1, <3>1, <3>2, Zenon
  <2>4. ptask' = [ptask EXCEPT ![s] = t]  BY <1>2, LifecycleFields, Zenon
  <2>5. ptask[s].status = "RUNNING" /\ intent[s].parent = ptask[s].parent  BY <1>2 DEF OwnsPosting
  <2> HIDE DEF t
  <2> QED  BY <1>2, <2>1, <2>2, <2>3, <2>4, <2>5, SettleGood, Zenon
<1> QED  BY <1>1, <1>2 DEF fail_posting_index

LEMMA RecoverGood ==
    ASSUME TypeInv, \A h \in CaptureSources : RowsOK(h), NEW s \in CaptureSources,
           recover_posting_indexes(s)
    PROVE  PostingsGood
<1> DEFINE retry == ptask[s].attempt < MaxAttempts
           t == [ptask[s] EXCEPT !.status = IF retry THEN "QUEUED" ELSE "FAILED", !.ready = TRUE]
<1>1. /\ Eligible(s) /\ intent[s].parent = ptask[s].parent /\ ptask[s].status = "RUNNING"
      /\ ptask' = [ptask EXCEPT ![s].status = IF retry THEN "QUEUED" ELSE "FAILED", ![s].ready = TRUE]
      /\ intent' = [intent EXCEPT ![s].status = IF retry THEN "PENDING" ELSE "FAILED"]
      /\ UNCHANGED <<pgens, powner, owner>>
  BY DEF recover_posting_indexes, RetryLeft, postings, structure
<1>2. retry \in BOOLEAN /\ (retry => ptask[s].attempt < MaxAttempts)  OBVIOUS
<1> HIDE DEF retry
<1>3. /\ t \in PostingRecords /\ t.parent = ptask[s].parent /\ t.attempt = ptask[s].attempt
      /\ t.status = (IF retry THEN "QUEUED" ELSE "FAILED")
  <2>1. CASE retry = TRUE  BY <2>1, LifecycleFields, Zenon DEF PostingRecords, TaskStates
  <2>2. CASE retry = FALSE  BY <2>2, LifecycleFields, Zenon DEF PostingRecords, TaskStates
  <2> QED  BY <1>2, <2>1, <2>2, Zenon
<1>4. ptask' = [ptask EXCEPT ![s] = t]  BY <1>1, LifecycleFields, Zenon
<1> HIDE DEF t
<1> QED  BY <1>1, <1>2, <1>3, <1>4, SettleGood, Zenon

LEMMA ForgetGood ==
    ASSUME TypeInv, \A h \in CaptureSources : RowsOK(h), NEW s \in CaptureSources,
           cleanup_terminal_posting_indexes(s)
    PROVE  PostingsGood
<1>1. /\ ptask[s].status \in {"COMPLETED", "FAILED"} /\ ptask' = [ptask EXCEPT ![s] = NoPosting]
      /\ UNCHANGED <<intent, pgens, powner, owner>>
  BY DEF cleanup_terminal_posting_indexes, structure, postings
<1>2. intent' = [intent EXCEPT ![s] = intent[s]]  BY <1>1 DEF TypeInv
<1>3. intent[s].status \in {"COMPLETED", "FAILED"}  BY <1>1 DEF RowsOK, LifecycleOK
<1>4. NoPosting.status = "none"  BY DEF NoPosting
<1>5. LifecycleOK(owner[s], intent[s], NoPosting)  BY <1>4 DEF RowsOK, LifecycleOK
<1> QED  BY <1>1, <1>2, <1>3, <1>4, <1>5, EmptyRows, LifecycleFields, LifecycleStep, Zenon

\* Generations come and go below an owner that stays.
LEMMA GenerationStep ==
    ASSUME TypeInv, \A h \in CaptureSources : RowsOK(h), NEW s \in CaptureSources,
           NEW G \in SUBSET DraftRecords, pgens' = [pgens EXCEPT ![s] = G],
           UNCHANGED <<intent, ptask, powner, owner>>,
           PostingOK(owner[s], intent[s], G, powner[s]), PostingMove(s)
    PROVE  PostingsGood
<1>1. PostingRowTypes' /\ \A h \in CaptureSources \ {s} : PostingKept(h)
  BY DEF TypeInv, PostingRowTypes, PostingKept
<1>2. pgens'[s] = G  BY DEF TypeInv
<1>3. RowsOK(s)'  BY <1>2 DEF RowsOK
<1> QED  BY <1>1, <1>3, PostingsOfOne

\* The move is one of generations only.
LEMMA GenerationMove ==
    ASSUME TypeInv, NEW s \in CaptureSources, UNCHANGED <<intent, ptask, powner, owner>>,
           \A parent \in BuildNumbers, attempt \in Tries : OwnsPosting(s, parent, attempt) =>
               \/ \A g \in pgens[s] :
                      g.parent = parent /\ g.attempt = attempt /\ g.state = "STAGING" => g \in pgens'[s]
               \/ \E p \in PostingWorkers :
                      /\ poster[p].src = s /\ poster[p].parent = parent /\ poster[p].attempt = attempt
                      /\ poster[p].pc # "idle" /\ poster'[p].pc \notin {"staging", "staged"}
    PROVE  PostingMove(s)
<1>1. ptask[s].attempt \in Nat  BY LifecycleFields
<1>2. \A parent \in BuildNumbers, attempt \in Tries :
          OwnsPosting(s, parent, attempt)' <=> OwnsPosting(s, parent, attempt)
  BY DEF OwnsPosting
<1> QED  BY <1>1, <1>2 DEF PostingMove

LEMMA BeginPostingGood ==
    ASSUME TypeInv, \A h \in CaptureSources : RowsOK(h), NEW p \in PostingWorkers, BeginPosting(p)
    PROVE  PostingsGood
<1> DEFINE b == poster[p]
           d == Draft(b)
<1>0. PICK s \in CaptureSources : s = b.src  BY PosterTypes DEF BeginPosting
<1> DEFINE G == pgens[s] \cup {d}
<1>1. /\ b.pc # "idle" /\ owner[s] = b.parent /\ OwnsPosting(s, b.parent, b.attempt)
      /\ pgens' = [pgens EXCEPT ![s] = G] /\ UNCHANGED <<intent, ptask, powner, owner>>
  BY <1>0 DEF BeginPosting, structure, postingRows
<1>2. b.parent \in BuildNumbers /\ b.attempt \in Tries  BY <1>1, PosterTypes
<1>3. powner[s] \in 0 .. MaxAttempts /\ pgens[s] \subseteq DraftRecords /\ pgens'[s] = G
  BY <1>1, <1>2 DEF TypeInv
<1>4. d \in DraftRecords /\ d.parent = b.parent /\ d.attempt = b.attempt /\ d.state = "STAGING"
  BY <1>0, <1>2, <1>3 DEF Draft, DraftRecords
<1> HIDE DEF d
<1>5. PostingOK(owner[s], intent[s], G, powner[s])
  BY <1>1, <1>2, <1>4 DEF RowsOK, PostingOK
<1>6. PostingMove(s)  BY <1>1, <1>2, <1>3, GenerationMove
<1> QED  BY <1>1, <1>2, <1>3, <1>4, <1>5, <1>6, GenerationStep, Zenon

LEMMA SweepGood ==
    ASSUME TypeInv, \A h \in CaptureSources : RowsOK(h), NEW s \in CaptureSources,
           cleanup_stale_posting_indexes(s)
    PROVE  PostingsGood
<1>1. PICK g \in pgens[s] : StalePosting(s, g) /\ pgens' = [pgens EXCEPT ![s] = @ \ {g}]
  BY Zenon DEF cleanup_stale_posting_indexes
<1> DEFINE G == pgens[s] \ {g}
<1>2. UNCHANGED <<intent, ptask, powner, owner>>
  BY DEF cleanup_stale_posting_indexes, structure, postingRows
<1>3. pgens' = [pgens EXCEPT ![s] = G] /\ pgens[s] \subseteq DraftRecords /\ pgens'[s] = G
  BY <1>1 DEF TypeInv
<1>4. PostingOK(owner[s], intent[s], G, powner[s])
  BY <1>1 DEF RowsOK, PostingOK, StalePosting
<1>5. PostingMove(s)  BY <1>1, <1>2, <1>3, GenerationMove DEF StalePosting
<1> QED  BY <1>2, <1>3, <1>4, <1>5, GenerationStep, Zenon

LEMMA LeavePostingGood ==
    ASSUME TypeInv, \A h \in CaptureSources : RowsOK(h), NEW p \in PostingWorkers, LeavePosting(p)
    PROVE  PostingsGood
<1> DEFINE b == poster[p]
<1>0. PICK s \in CaptureSources : s = b.src  BY PosterTypes DEF LeavePosting
<1> DEFINE G == pgens[s] \ DraftOf(b)
<1>1. b.pc # "idle" /\ UNCHANGED <<intent, ptask, powner, owner>>
  BY DEF LeavePosting, structure, postingRows
<1>2. b.parent \in BuildNumbers /\ b.attempt \in Tries  BY <1>1, PosterTypes
<1>3. CASE UNCHANGED pgens  BY <1>1, <1>3, PostingsUnchanged
<1>4. ASSUME pgens' = [pgens EXCEPT ![s] = @ \ DraftOf(b)]  PROVE PostingsGood
  <2>1. pgens' = [pgens EXCEPT ![s] = G] /\ pgens[s] \subseteq DraftRecords /\ pgens'[s] = G
    BY <1>2, <1>4 DEF TypeInv
  <2>2. PostingOK(owner[s], intent[s], G, powner[s])
    BY <1>0, <1>2 DEF RowsOK, PostingOK, DraftOf
  <2>3. poster'[p].pc \notin {"staging", "staged"}
    BY <1>1 DEF LeavePosting, StepPoster, TypeInv, PosterRecords, NoPoster
  <2>4. PostingMove(s)
    <3> SUFFICES ASSUME NEW parent \in BuildNumbers, NEW attempt \in Tries, NEW g \in pgens[s],
                        g.parent = parent /\ g.attempt = attempt /\ g.state = "STAGING", g \notin pgens'[s]
                 PROVE  /\ poster[p].src = s /\ poster[p].parent = parent /\ poster[p].attempt = attempt
                        /\ poster[p].pc # "idle" /\ poster'[p].pc \notin {"staging", "staged"}
      BY <1>1, <1>2, GenerationMove
    <3>1. g \in DraftOf(b)  BY <2>1
    <3> QED  BY <3>1, <1>0, <1>1, <2>3 DEF DraftOf
  <2> QED  BY <1>1, <1>2, <2>1, <2>2, <2>4, GenerationStep, Zenon
<1> QED  BY <1>0, <1>3, <1>4 DEF LeavePosting

LEMMA PublishPostingGood ==
    ASSUME TypeInv, \A h \in CaptureSources : RowsOK(h), NEW p \in PostingWorkers,
           publish_posting_index(p)
    PROVE  PostingsGood
<1> DEFINE b == poster[p]
<1>0. PICK s \in CaptureSources : s = b.src  BY PosterTypes DEF publish_posting_index
<1> DEFINE i == [intent[s] EXCEPT !.status = "COMPLETED"]
           t == [ptask[s] EXCEPT !.status = "COMPLETED", !.lease = 0]
           made == {[g EXCEPT !.state = "READY"] : g \in DraftOf(b)}
           G == {g \in pgens[s] \ DraftOf(b) : g.state # "READY"} \cup made
<1>1. /\ b.pc = "staged" /\ PublishPostingAllowed(b)
      /\ pgens' = [pgens EXCEPT ![s] = {g \in @ \ DraftOf(b) : g.state # "READY"}
                                           \cup {[g EXCEPT !.state = "READY"] : g \in DraftOf(b)}]
      /\ powner' = [powner EXCEPT ![s] = b.attempt]
      /\ ptask' = [ptask EXCEPT ![s].status = "COMPLETED", ![s].lease = 0]
      /\ intent' = [intent EXCEPT ![s].status = "COMPLETED"]
      /\ UNCHANGED owner
  BY <1>0 DEF publish_posting_index, structure
<1>2. /\ b.parent \in BuildNumbers /\ b.attempt \in Tries
      /\ b.attempt \in 0 .. MaxAttempts /\ b.attempt # 0
  BY <1>1, PosterTypes, Numbers
<1>3. /\ owner[s] = b.parent /\ Eligible(s) /\ intent[s].parent = b.parent
      /\ OwnsPosting(s, b.parent, b.attempt) /\ DraftOf(b) # {}
  BY <1>0, <1>1 DEF PublishPostingAllowed
<1>4. /\ pgens' = [pgens EXCEPT ![s] = G] /\ ptask' = [ptask EXCEPT ![s] = t]
      /\ intent' = [intent EXCEPT ![s] = i] /\ owner' = [owner EXCEPT ![s] = owner[s]]
      /\ pgens[s] \subseteq DraftRecords
  <2>1. pgens' = [pgens EXCEPT ![s] = G]  BY <1>1
  <2>2. ptask' = [ptask EXCEPT ![s] = t]  BY <1>1, Zenon
  <2>3. intent' = [intent EXCEPT ![s] = i]  BY <1>1
  <2>4. owner' = [owner EXCEPT ![s] = owner[s]] /\ pgens[s] \subseteq DraftRecords  BY <1>1, <1>2 DEF TypeInv
  <2> QED  BY <2>1, <2>2, <2>3, <2>4
<1>5. /\ i \in IntentRecords /\ i.parent = intent[s].parent /\ i.status = "COMPLETED"
  BY <1>2, LifecycleFields DEF IntentRecords, IntentStates
<1>6. /\ t \in PostingRecords /\ t.parent = ptask[s].parent /\ t.status = "COMPLETED"
      /\ t.attempt = ptask[s].attempt
  BY <1>2, LifecycleFields, Numbers, Zenon DEF PostingRecords, TaskStates
<1>7. \A g \in made : g \in DraftRecords /\ g.parent = b.parent /\ g.attempt = b.attempt /\ g.state = "READY"
  <2> SUFFICES ASSUME NEW g \in DraftOf(b)
               PROVE  LET r == [g EXCEPT !.state = "READY"]
                      IN  r \in DraftRecords /\ r.parent = b.parent /\ r.attempt = b.attempt /\ r.state = "READY"
    BY Zenon
  <2>1. g \in DraftRecords /\ g.parent = b.parent /\ g.attempt = b.attempt  BY <1>0, <1>4 DEF DraftOf
  <2> QED  BY <2>1 DEF DraftRecords
<1>8. made # {}  BY <1>3, Zenon
<1> HIDE DEF i, t, made
<1>9. G \in SUBSET DraftRecords  BY <1>4, <1>7
<1> HIDE DEF G
<1>10. /\ PostingRowTypes' /\ \A h \in CaptureSources \ {s} : PostingKept(h)
       /\ intent'[s] = i /\ ptask'[s] = t /\ pgens'[s] = G /\ powner'[s] = b.attempt /\ owner'[s] = owner[s]
  <2>1. powner' = [powner EXCEPT ![s] = b.attempt] /\ b.attempt \in 0 .. MaxAttempts  BY <1>1, <1>2
  <2>2. i \in IntentRecords /\ t \in PostingRecords  BY <1>5, <1>6
  <2>3. PostingRowTypes'  BY <1>4, <1>9, <2>1, <2>2 DEF TypeInv, PostingRowTypes
  <2>4. \A h \in CaptureSources \ {s} : PostingKept(h)  BY <1>4, <2>1 DEF TypeInv, PostingKept
  <2> QED  BY <1>4, <2>1, <2>3, <2>4 DEF TypeInv
<1>11. RowsOK(s)'
  <2>1. LifecycleOK(owner[s], i, t)
    <3>1. ptask[s].parent = owner[s] /\ owner[s] # 0
      BY <1>2, <1>3, Numbers DEF OwnsPosting
    <3> QED  BY <1>2, <1>3, <1>5, <1>6, <3>1 DEF LifecycleOK
  <2>2. PostingOK(owner[s], i, G, b.attempt)
    BY <1>2, <1>3, <1>5, <1>7, <1>8 DEF PostingOK, RowsOK, G
  <2> QED  BY <1>10, <2>1, <2>2 DEF RowsOK
<1>12. PostingMove(s)
  <2>1. \A parent, attempt : ~OwnsPosting(s, parent, attempt)'  BY <1>6, <1>10 DEF OwnsPosting
  <2> QED  BY <1>5, <1>10, <2>1 DEF PostingMove
<1> QED  BY <1>2, <1>10, <1>11, <1>12, PostingsOfOne

\* The structural owner is replaced or removed: whatever was below it is gone.
LEMMA ResetGood ==
    ASSUME TypeInv, \A h \in CaptureSources : RowsOK(h), NEW s \in CaptureSources, NEW o \in Owners,
           NEW i \in IntentRecords, i = NoIntent \/ (i = [parent |-> o, status |-> "PENDING"] /\ o # 0),
           o # owner[s] \/ o = 0,
           intent' = [intent EXCEPT ![s] = i], ptask' = [ptask EXCEPT ![s] = NoPosting],
           pgens' = [pgens EXCEPT ![s] = {}], powner' = [powner EXCEPT ![s] = 0],
           owner' = [owner EXCEPT ![s] = o]
    PROVE  PostingsGood
<1>1. /\ PostingRowTypes' /\ \A h \in CaptureSources \ {s} : PostingKept(h)
      /\ intent'[s] = i /\ ptask'[s] = NoPosting /\ pgens'[s] = {} /\ powner'[s] = 0 /\ owner'[s] = o
  BY EmptyRows, Numbers, GenerationUpdate, Zenon
<1>2. NoPosting.status = "none" /\ i.status \in {"none", "PENDING"} /\ (i = NoIntent \/ i.parent = o)
  BY DEF NoPosting, NoIntent
<1>3. RowsOK(s)'
  <2>1. LifecycleOK(o, i, NoPosting)
    <3>1. CASE i = NoIntent  BY <3>1, <1>2 DEF LifecycleOK
    <3>2. CASE i = [parent |-> o, status |-> "PENDING"] /\ o # 0  BY <3>2, <1>2 DEF LifecycleOK
    <3> QED  BY <3>1, <3>2
  <2>2. PostingOK(o, i, {}, 0)  BY <1>2 DEF PostingOK
  <2> QED  BY <1>1, <2>1, <2>2, Zenon DEF RowsOK
<1>4. PostingMove(s)
  <2>1. \A parent, attempt : ~OwnsPosting(s, parent, attempt)'  BY <1>1, <1>2 DEF OwnsPosting
  <2>2. owner[s] = o => intent[s].status \notin {"COMPLETED", "FAILED"} /\ ~(owner[s] # 0)
    BY DEF RowsOK, LifecycleOK, NoIntent
  <2> QED  BY <1>1, <2>1, <2>2 DEF PostingMove
<1> QED  BY <1>1, <1>3, <1>4, PostingsOfOne

\* What TakeOwnership leaves of the posting rows.
LEMMA TakeOwnershipRows ==
    ASSUME TypeInv, NEW s \in CaptureSources, RowsOK(s), NEW n \in BuildNumbers, NEW ask \in BOOLEAN,
           TakeOwnership(s, n, ask)
    PROVE  /\ intent' = [intent EXCEPT ![s] = IF ask THEN [parent |-> n, status |-> "PENDING"] ELSE NoIntent]
           /\ ptask' = [ptask EXCEPT ![s] = NoPosting]
           /\ pgens' = [pgens EXCEPT ![s] = {}] /\ powner' = [powner EXCEPT ![s] = 0]
           /\ owner' = [owner EXCEPT ![s] = n]
<1> DEFINE below(row) == owner[s] # 0 /\ row.parent = owner[s]
<1>1. (IF below(intent[s]) THEN NoIntent ELSE intent[s]) = NoIntent
  BY DEF RowsOK, LifecycleOK
<1>2. (IF below(ptask[s]) THEN NoPosting ELSE ptask[s]) = NoPosting
  BY DEF RowsOK, LifecycleOK
<1>3. \A g \in pgens[s] : g.parent = owner[s] /\ g.parent \in BuildNumbers
  <2>1. pgens[s] \subseteq DraftRecords  BY RowTypes
  <2> QED  BY <2>1 DEF RowsOK, PostingOK, DraftRecords
<1>4. {g \in pgens[s] : ~below(g)} = {}  BY <1>3, Numbers
<1>5. (IF owner[s] # 0 THEN 0 ELSE powner[s]) = 0
  <2>1. CASE owner[s] = 0
    <3>1. pgens[s] = {}  BY <2>1, <1>3, Numbers
    <3> QED  BY <3>1 DEF RowsOK, PostingOK
  <2> QED  BY <2>1
<1>6. /\ intent' = [intent EXCEPT ![s] = IF ask THEN [parent |-> n, status |-> "PENDING"]
                                       ELSE IF below(intent[s]) THEN NoIntent ELSE intent[s]]
      /\ ptask' = [ptask EXCEPT ![s] = IF below(ptask[s]) THEN NoPosting ELSE ptask[s]]
      /\ pgens' = [pgens EXCEPT ![s] = {g \in pgens[s] : ~below(g)}]
      /\ powner' = [powner EXCEPT ![s] = IF owner[s] # 0 THEN 0 ELSE powner[s]]
      /\ owner' = [owner EXCEPT ![s] = n]
  BY DEF TakeOwnership
<1> HIDE DEF below
<1> QED  BY <1>1, <1>2, <1>4, <1>5, <1>6, Zenon

LEMMA TakeOwnershipGood ==
    ASSUME TypeInv, \A h \in CaptureSources : RowsOK(h), NEW s \in CaptureSources, NEW n \in BuildNumbers,
           NEW ask \in BOOLEAN, n # owner[s], TakeOwnership(s, n, ask)
    PROVE  PostingsGood
<1> DEFINE i == IF ask THEN [parent |-> n, status |-> "PENDING"] ELSE NoIntent
<1>1. n # 0 /\ n \in Owners  BY Numbers
<1>2. [parent |-> n, status |-> "PENDING"] \in IntentRecords  BY <1>1 DEF IntentRecords, IntentStates
<1>3. i \in IntentRecords /\ (i = NoIntent \/ (i = [parent |-> n, status |-> "PENDING"] /\ n # 0))
  BY <1>1, <1>2, EmptyRows
<1> QED  BY <1>1, <1>3, TakeOwnershipRows, ResetGood

LEMMA DeleteGood ==
    ASSUME TypeInv, \A h \in CaptureSources : RowsOK(h), NEW s \in CaptureSources, delete_job(s)
    PROVE  PostingsGood
BY EmptyRows, Numbers, ResetGood, Zenon DEF delete_job

----------------------------------------------------------------------------
(* Captures, their structural generations and owners.                      *)

\* A new owner is a build that was not published before.
OwnerMove(s) ==
    \/ owner'[s] \in {0, owner[s]}
    \/ s \in Uploads /\ indexing[s].pc = "publish" /\ owner'[s] = indexing[s].build
    \/ s \in Segments /\ wish[s] \notin {"COMPLETED", "gone"}

OwnersGood ==
    /\ capture' \in [CaptureSources -> {"none", "stored", "gone"}]
    /\ version' \subseteq CaptureSources
    /\ gens' \in [CaptureSources -> SUBSET GenRecords]
    /\ owner' \in [CaptureSources -> Owners]
    /\ \A s \in CaptureSources :
        /\ OwnerInv(s)' /\ OwnerMove(s)
        /\ capture[s] # "none" => capture'[s] # "none"

LEMMA OwnersUnchanged ==
    ASSUME TypeInv, \A s \in CaptureSources : OwnerInv(s), UNCHANGED <<capture, version, gens, owner>>
    PROVE  OwnersGood
<1>1. \A s \in CaptureSources : OwnerInv(s)'  BY DEF OwnerInv
<1> QED  BY <1>1 DEF TypeInv, OwnersGood, OwnerMove

\* A generation is staged, or a staged one is dropped.
LEMMA StagingGood ==
    ASSUME TypeInv, \A h \in CaptureSources : OwnerInv(h), NEW s \in CaptureSources, NEW n \in BuildNumbers,
           \/ gens' = [gens EXCEPT ![s] = @ \cup {Staging(n)}]
           \/ gens' = [gens EXCEPT ![s] = @ \ {Staging(n)}],
           UNCHANGED <<capture, version, owner>>
    PROVE  OwnersGood
<1>1. gens \in [CaptureSources -> SUBSET GenRecords] /\ Staging(n) \in GenRecords
  BY DEF TypeInv, Staging, GenRecords
<1>2. gens' \in [CaptureSources -> SUBSET GenRecords]
  BY <1>1
<1>3. \A m \in BuildNumbers : Ready(m) # Staging(n)  BY DEF Ready, Staging
<1>4. ASSUME NEW h \in CaptureSources, NEW m \in BuildNumbers
      PROVE  Ready(m) \in gens'[h] <=> Ready(m) \in gens[h]
  BY <1>1, <1>3
<1>5. \A h \in CaptureSources : OwnerInv(h)'
  BY <1>4 DEF OwnerInv, Ready
<1> QED  BY <1>2, <1>5 DEF TypeInv, OwnersGood, OwnerMove

\* A staged generation takes the source over.
LEMMA OwnershipGood ==
    ASSUME TypeInv, \A h \in CaptureSources : OwnerInv(h), NEW s \in CaptureSources, NEW n \in BuildNumbers,
           NEW ask, TakeOwnership(s, n, ask), capture[s] = "stored", UNCHANGED capture,
           version' = version \/ version' = version \cup {s}, s \in version',
           \/ s \in Uploads /\ indexing[s].pc = "publish" /\ n = indexing[s].build
           \/ s \in Segments /\ wish[s] \notin {"COMPLETED", "gone"}
    PROVE  OwnersGood
<1> DEFINE G == (gens[s] \ {Staging(n), Ready(owner[s])}) \cup {Ready(n)}
<1>1. gens' = [gens EXCEPT ![s] = G] /\ owner' = [owner EXCEPT ![s] = n]  BY DEF TakeOwnership
<1>2. /\ gens \in [CaptureSources -> SUBSET GenRecords] /\ owner \in [CaptureSources -> Owners]
      /\ Ready(n) \in GenRecords /\ n \in Owners
  BY Numbers DEF TypeInv, Ready, GenRecords
<1>3. gens' \in [CaptureSources -> SUBSET GenRecords] /\ owner' \in [CaptureSources -> Owners]
      /\ version' \subseteq CaptureSources
  BY <1>1, <1>2, Zenon DEF TypeInv
<1>4. \A m, k : (Ready(m) = Ready(k) => m = k) /\ Ready(m) # Staging(k)
  BY DEF Ready, Staging
<1>5. \A m \in BuildNumbers : Ready(m) \in G <=> m = n
  BY <1>4 DEF OwnerInv
<1>6. gens'[s] = G /\ owner'[s] = n /\ \A h \in CaptureSources \ {s} : gens'[h] = gens[h] /\ owner'[h] = owner[h]
  BY <1>1, <1>2
<1> HIDE DEF G
<1>7. OwnerInv(s)'  BY <1>5, <1>6 DEF OwnerInv, Ready
<1>8. \A h \in CaptureSources \ {s} : OwnerInv(h)'  BY <1>6 DEF OwnerInv, Ready
<1>9. \A h \in CaptureSources : OwnerMove(h)  BY <1>6 DEF OwnerMove
<1> QED  BY <1>3, <1>7, <1>8, <1>9 DEF TypeInv, OwnersGood

LEMMA DeleteOwnersGood ==
    ASSUME TypeInv, \A h \in CaptureSources : OwnerInv(h), NEW s \in CaptureSources, delete_job(s)
    PROVE  OwnersGood
<1>1. /\ capture' = [capture EXCEPT ![s] = "gone"] /\ version' = version \ {s}
      /\ gens' = [gens EXCEPT ![s] = {}] /\ owner' = [owner EXCEPT ![s] = 0]
  BY DEF delete_job
<1>2. /\ capture' \in [CaptureSources -> {"none", "stored", "gone"}]
      /\ version' \subseteq CaptureSources
      /\ gens' \in [CaptureSources -> SUBSET GenRecords]
      /\ owner' \in [CaptureSources -> Owners]
  BY <1>1, Numbers DEF TypeInv
<1>3. /\ gens'[s] = {} /\ owner'[s] = 0 /\ capture'[s] = "gone"
      /\ \A h \in CaptureSources \ {s} :
           /\ gens'[h] = gens[h] /\ owner'[h] = owner[h] /\ capture'[h] = capture[h]
           /\ h \in version' <=> h \in version
  BY <1>1 DEF TypeInv
<1>4. OwnerInv(s)'  BY <1>3, Numbers DEF OwnerInv
<1>5. \A h \in CaptureSources \ {s} : OwnerInv(h)'  BY <1>3 DEF OwnerInv, Ready
<1> QED  BY <1>2, <1>3, <1>4, <1>5 DEF OwnersGood, OwnerMove

LEMMA StoreOwnersGood ==
    ASSUME TypeInv, \A h \in CaptureSources : OwnerInv(h), NEW s \in CaptureSources,
           capture' = [capture EXCEPT ![s] = "stored"], UNCHANGED <<gens, owner>>,
           version' = version \/ version' = version \cup {s}
    PROVE  OwnersGood
<1>1. /\ capture' \in [CaptureSources -> {"none", "stored", "gone"}]
      /\ version' \subseteq CaptureSources
  BY DEF TypeInv
<1>2. \A h \in CaptureSources : OwnerInv(h)'  BY DEF TypeInv, OwnerInv, Ready
<1> QED  BY <1>1, <1>2 DEF TypeInv, OwnersGood, OwnerMove

----------------------------------------------------------------------------
(* The live queue.                                                         *)

LiveGood ==
    /\ wish' \in [Segments -> WishStates]
    /\ task' \in [Segments -> TaskRecords]
    /\ \A s \in Segments :
        /\ SegmentInv(s)'
        /\ wish[s] \in {"COMPLETED", "gone"} => wish'[s] \in {"COMPLETED", "gone"}

LEMMA LiveUnchanged ==
    ASSUME TypeInv, \A s \in Segments : SegmentInv(s), UNCHANGED <<wish, task>>,
           \A s \in Segments : capture'[s] = capture[s] /\ owner'[s] = owner[s]
    PROVE  LiveGood
<1>1. \A s \in Segments : SegmentInv(s)'  BY DEF SegmentInv
<1> QED  BY <1>1 DEF TypeInv, LiveGood

LEMMA LiveUpdate ==
    ASSUME TypeInv, \A h \in Segments : SegmentInv(h), NEW s \in Segments,
           NEW t \in TaskRecords, NEW w \in WishStates,
           task' = [task EXCEPT ![s] = t], wish' = [wish EXCEPT ![s] = w],
           \A h \in Segments \ {s} : capture'[h] = capture[h] /\ owner'[h] = owner[h],
           SegmentOK(capture'[s], owner'[s], w, t),
           wish[s] \in {"COMPLETED", "gone"} => w \in {"COMPLETED", "gone"}
    PROVE  LiveGood
<1>1. /\ wish' \in [Segments -> WishStates] /\ task' \in [Segments -> TaskRecords]
      /\ wish'[s] = w /\ task'[s] = t
      /\ \A h \in Segments \ {s} : wish'[h] = wish[h] /\ task'[h] = task[h]
  BY DEF TypeInv
<1>2. SegmentInv(s)'  BY <1>1 DEF SegmentInv
<1>3. \A h \in Segments \ {s} : SegmentInv(h)'  BY <1>1 DEF SegmentInv
<1> QED  BY <1>1, <1>2, <1>3 DEF LiveGood

LEMMA LiveFields ==
    ASSUME TypeInv, NEW s \in Segments
    PROVE  /\ wish[s] \in WishStates /\ task[s] \in TaskRecords /\ s \in CaptureSources
           /\ task[s].status \in TaskStates /\ task[s].attempt \in 0 .. MaxAttempts
           /\ task[s].attempt \in Nat /\ task[s].lease \in 0 .. LeaseTicks /\ task[s].ready \in BOOLEAN
           /\ capture[s] \in {"none", "stored", "gone"} /\ owner[s] \in Owners
<1>1. /\ wish[s] \in WishStates /\ task[s] \in TaskRecords /\ s \in CaptureSources
      /\ capture[s] \in {"none", "stored", "gone"} /\ owner[s] \in Owners
  BY RowTypes, Constants
<1> QED  BY <1>1, Numbers DEF TaskRecords

LEMMA StoreSegmentGood ==
    ASSUME TypeInv, \A h \in Segments : SegmentInv(h), NEW s \in Segments, StoreSegment(s)
    PROVE  LiveGood
<1>1. /\ capture[s] = "none" /\ capture' = [capture EXCEPT ![s] = "stored"]
      /\ wish' = [wish EXCEPT ![s] = "PENDING"] /\ task' = task /\ owner' = owner
  BY DEF StoreSegment, structure
<1>2. /\ task' = [task EXCEPT ![s] = task[s]] /\ task[s] \in TaskRecords /\ s \in CaptureSources
      /\ capture'[s] = "stored" /\ owner'[s] = owner[s]
      /\ \A h \in Segments \ {s} : capture'[h] = capture[h] /\ owner'[h] = owner[h]
  BY <1>1, Constants DEF TypeInv
<1>3. SegmentOK("stored", owner[s], "PENDING", task[s]) /\ wish[s] = "none"
  BY <1>1 DEF SegmentInv, SegmentOK
<1> QED  BY <1>1, <1>2, <1>3, LiveUpdate, Zenon DEF WishStates

LEMMA AdmitLiveGood ==
    ASSUME TypeInv, \A h \in Segments : SegmentInv(h), NEW s \in Segments, admit_live_segment_index(s)
    PROVE  LiveGood
<1> DEFINE q == [NoTask EXCEPT !.status = "QUEUED", !.ready = TRUE]
<1>1. /\ capture[s] = "stored" /\ task[s] = NoTask /\ wish[s] \in {"PENDING", "DEFERRED"}
      /\ UNCHANGED <<capture, owner>>
      /\ \/ SetTask(s, NoTask, "DEFERRED")
         \/ SetTask(s, q, "PENDING")
  BY DEF admit_live_segment_index, AdmitWithinCapacity, sourceRows, structure
<1>2. q \in TaskRecords /\ q.status = "QUEUED" /\ q.attempt = 0
  BY Numbers, Zenon DEF NoTask, TaskRecords, TaskStates
<1> HIDE DEF q
<1>3. SegmentOK(capture'[s], owner'[s], "PENDING", q)
  BY <1>1, <1>2, Constants DEF SegmentInv, SegmentOK
<1>4. SegmentOK(capture'[s], owner'[s], "DEFERRED", NoTask)
  BY <1>1 DEF SegmentInv, SegmentOK, NoTask
<1>5. CASE SetTask(s, NoTask, "DEFERRED")
  BY <1>1, <1>4, <1>5, EmptyRows, LiveUpdate, Zenon DEF SetTask, WishStates
<1>6. CASE SetTask(s, q, "PENDING")
  BY <1>1, <1>2, <1>3, <1>6, LiveUpdate, Zenon DEF SetTask, WishStates
<1> QED  BY <1>1, <1>5, <1>6

\* An active task that stays active: it is claimed, or its clock moves.
LEMMA ActiveLiveGood ==
    ASSUME TypeInv, \A h \in Segments : SegmentInv(h), NEW s \in Segments, NEW t \in TaskRecords,
           task' = [task EXCEPT ![s] = t], UNCHANGED <<wish, capture, owner>>,
           task[s].status \in {"QUEUED", "RUNNING"}, t.status \in {"QUEUED", "RUNNING"},
           t.status = "QUEUED" => t.attempt < MaxAttempts, t.status = "RUNNING" => t.attempt > 0
    PROVE  LiveGood
<1>1. wish' = [wish EXCEPT ![s] = wish[s]] /\ wish[s] \in WishStates  BY DEF TypeInv
<1>2. SegmentOK(capture'[s], owner'[s], wish[s], t)
  BY DEF SegmentInv, SegmentOK
<1> QED  BY <1>1, <1>2, LiveUpdate, Zenon

LEMMA ClaimLiveGood ==
    ASSUME TypeInv, \A h \in Segments : SegmentInv(h), NEW s \in Segments, NEW w \in IndexWorkers,
           claim_live_segment_index(w, s)
    PROVE  LiveGood
<1> DEFINE t == [task[s] EXCEPT !.status = "RUNNING", !.attempt = @ + 1, !.lease = LeaseTicks]
<1>1. task[s].status = "QUEUED" /\ UNCHANGED <<wish, capture, owner>> /\ task' = [task EXCEPT ![s] = t]
  BY Zenon DEF claim_live_segment_index, sourceRows, structure
<1>2. task[s].attempt < MaxAttempts  BY <1>1 DEF SegmentInv, SegmentOK
<1>3. task[s].attempt + 1 \in 0 .. MaxAttempts /\ task[s].attempt + 1 > 0
  BY <1>2, LiveFields, Numbers
<1>4. t \in TaskRecords /\ t.status = "RUNNING" /\ t.attempt = task[s].attempt + 1
  BY <1>3, LiveFields, Numbers, Zenon DEF TaskRecords, TaskStates
<1> HIDE DEF t
<1>5. t.attempt > 0  BY <1>3, <1>4
<1> QED  BY <1>1, <1>4, <1>5, ActiveLiveGood, Zenon

LEMMA HeartbeatLiveGood ==
    ASSUME TypeInv, \A h \in Segments : SegmentInv(h), NEW s \in Segments, NEW attempt, Owns(s, attempt),
           task' = [task EXCEPT ![s].lease = LeaseTicks], UNCHANGED <<wish, capture, owner>>
    PROVE  LiveGood
<1> DEFINE t == [task[s] EXCEPT !.lease = LeaseTicks]
<1>1. task' = [task EXCEPT ![s] = t] /\ task[s].status = "RUNNING"  BY DEF Owns
<1>2. task[s].attempt > 0  BY <1>1 DEF SegmentInv, SegmentOK
<1>3. t \in TaskRecords /\ t.status = "RUNNING" /\ t.attempt = task[s].attempt
  BY <1>1, LiveFields, Numbers DEF TaskRecords
<1> HIDE DEF t
<1> QED  BY <1>1, <1>2, <1>3, ActiveLiveGood, Zenon

LEMMA TickLiveGood ==
    ASSUME TypeInv, \A h \in Segments : SegmentInv(h), NEW s \in Segments, TickLive(s)
    PROVE  LiveGood
<1>1. UNCHANGED <<wish, capture, owner>>  BY DEF TickLive, sourceRows, structure
<1>2. ASSUME task[s].status = "RUNNING", task[s].lease > 0, task' = [task EXCEPT ![s].lease = @ - 1]
      PROVE  LiveGood
  <2> DEFINE t == [task[s] EXCEPT !.lease = @ - 1]
  <2>1. task' = [task EXCEPT ![s] = t]  BY <1>2
  <2>2. task[s].lease - 1 \in 0 .. LeaseTicks  BY <1>2, LiveFields, Numbers
  <2>3. t \in TaskRecords /\ t.status = "RUNNING" /\ t.attempt = task[s].attempt
    BY <1>2, <2>2, LiveFields DEF TaskRecords
  <2>4. task[s].attempt > 0  BY <1>2 DEF SegmentInv, SegmentOK
  <2> HIDE DEF t
  <2> QED  BY <1>1, <1>2, <2>1, <2>3, <2>4, ActiveLiveGood, Zenon
<1>3. ASSUME task[s].status = "QUEUED", task' = [task EXCEPT ![s].ready = TRUE]
      PROVE  LiveGood
  <2> DEFINE t == [task[s] EXCEPT !.ready = TRUE]
  <2>1. task' = [task EXCEPT ![s] = t]  BY <1>3
  <2>2. t \in TaskRecords /\ t.status = "QUEUED" /\ t.attempt = task[s].attempt
    BY <1>3, LiveFields, Zenon DEF TaskRecords
  <2>3. task[s].attempt < MaxAttempts  BY <1>3 DEF SegmentInv, SegmentOK
  <2> HIDE DEF t
  <2> QED  BY <1>1, <1>3, <2>1, <2>2, <2>3, ActiveLiveGood, Zenon
<1> QED  BY <1>2, <1>3 DEF TickLive

\* A RUNNING task is queued again or has FAILED.
LEMMA SettleLiveGood ==
    ASSUME TypeInv, \A h \in Segments : SegmentInv(h), NEW s \in Segments,
           task[s].status = "RUNNING", UNCHANGED <<capture, owner>>,
           NEW retry \in BOOLEAN, retry => task[s].attempt < MaxAttempts, NEW ready \in BOOLEAN,
           SetTask(s, [task[s] EXCEPT !.status = IF retry THEN "QUEUED" ELSE "FAILED", !.lease = 0,
                                      !.ready = ready],
                   IF retry THEN "PENDING" ELSE "FAILED")
    PROVE  LiveGood
<1> DEFINE t == [task[s] EXCEPT !.status = IF retry THEN "QUEUED" ELSE "FAILED", !.lease = 0,
                                !.ready = ready]
           w == IF retry THEN "PENDING" ELSE "FAILED"
<1>1. task' = [task EXCEPT ![s] = t] /\ wish' = [wish EXCEPT ![s] = w]  BY DEF SetTask
<1>2. /\ t \in TaskRecords /\ t.attempt = task[s].attempt
      /\ t.status = (IF retry THEN "QUEUED" ELSE "FAILED") /\ w \in WishStates
  <2>1. CASE retry  BY <2>1, LiveFields, Numbers, Zenon DEF TaskRecords, TaskStates, WishStates
  <2>2. CASE ~retry  BY <2>2, LiveFields, Numbers, Zenon DEF TaskRecords, TaskStates, WishStates
  <2> QED  BY <2>1, <2>2
<1>3. wish[s] = "PENDING" /\ capture[s] = "stored" /\ owner[s] = 0
  BY DEF SegmentInv, SegmentOK
<1> HIDE DEF t
<1>4. SegmentOK(capture'[s], owner'[s], w, t)
  BY <1>2, <1>3 DEF SegmentOK
<1> HIDE DEF w
<1> QED  BY <1>1, <1>2, <1>3, <1>4, LiveUpdate, Zenon

LEMMA FailLiveGood ==
    ASSUME TypeInv, \A h \in Segments : SegmentInv(h), NEW s \in Segments, NEW attempt,
           NEW transient \in BOOLEAN, fail_live_segment_index(s, attempt, transient),
           UNCHANGED <<capture, owner>>
    PROVE  LiveGood
<1>1. CASE UNCHANGED liveRows  BY <1>1, LiveUnchanged DEF liveRows
<1> DEFINE retry == transient /\ attempt < MaxAttempts
<1>2. ASSUME Owns(s, attempt),
             SetTask(s, [task[s] EXCEPT !.status = IF retry THEN "QUEUED" ELSE "FAILED", !.lease = 0,
                                        !.ready = ~retry],
                     IF retry THEN "PENDING" ELSE "FAILED")
      PROVE  LiveGood
  <2>1. /\ retry \in BOOLEAN /\ (~retry) \in BOOLEAN /\ (retry => task[s].attempt < MaxAttempts)
        /\ task[s].status = "RUNNING"
    BY <1>2 DEF Owns
  <2> HIDE DEF retry
  <2> QED  BY <1>2, <2>1, SettleLiveGood, Zenon
<1> QED  BY <1>1, <1>2 DEF fail_live_segment_index

LEMMA RecoverLiveGood ==
    ASSUME TypeInv, \A h \in Segments : SegmentInv(h), NEW s \in Segments, recover_live_segment_indexes(s)
    PROVE  LiveGood
<1> DEFINE retry == task[s].attempt < MaxAttempts
<1>1. /\ task[s].status = "RUNNING" /\ UNCHANGED <<capture, owner>>
      /\ SetTask(s, [task[s] EXCEPT !.status = IF retry THEN "QUEUED" ELSE "FAILED", !.lease = 0,
                                    !.ready = TRUE],
                 IF retry THEN "PENDING" ELSE "FAILED")
  BY DEF recover_live_segment_indexes, Lapsed, sourceRows, structure
<1>2. retry \in BOOLEAN /\ (retry => task[s].attempt < MaxAttempts)  OBVIOUS
<1> HIDE DEF retry
<1> QED  BY <1>1, <1>2, SettleLiveGood, Zenon

LEMMA ForgetLiveGood ==
    ASSUME TypeInv, \A h \in Segments : SegmentInv(h), NEW s \in Segments,
           cleanup_terminal_live_segment_indexes(s)
    PROVE  LiveGood
<1>1. UNCHANGED <<wish, capture, owner>> /\ task' = [task EXCEPT ![s] = NoTask]
  BY DEF cleanup_terminal_live_segment_indexes, sourceRows, structure
<1>2. wish' = [wish EXCEPT ![s] = wish[s]] /\ wish[s] \in WishStates  BY <1>1 DEF TypeInv
<1>3. SegmentOK(capture'[s], owner'[s], wish[s], NoTask)  BY <1>1 DEF SegmentInv, SegmentOK, NoTask
<1> QED  BY <1>1, <1>2, <1>3, EmptyRows, LiveUpdate, Zenon

LEMMA PublishLiveGood ==
    ASSUME TypeInv, \A h \in Segments : SegmentInv(h), NEW s \in Segments, NEW n \in BuildNumbers,
           Owns(s, n), owner' = [owner EXCEPT ![s] = n], UNCHANGED capture,
           SetTask(s, [task[s] EXCEPT !.status = "COMPLETED", !.lease = 0], "COMPLETED")
    PROVE  LiveGood
<1> DEFINE t == [task[s] EXCEPT !.status = "COMPLETED", !.lease = 0]
<1>1. t \in TaskRecords /\ t.status = "COMPLETED"  BY LiveFields, Numbers, Zenon DEF TaskRecords, TaskStates
<1>2. task' = [task EXCEPT ![s] = t] /\ wish' = [wish EXCEPT ![s] = "COMPLETED"]  BY DEF SetTask
<1>3. owner'[s] = n /\ n # 0 /\ \A h \in Segments \ {s} : owner'[h] = owner[h] /\ capture'[h] = capture[h]
  BY Constants, Numbers DEF TypeInv
<1>4. capture[s] = "stored" /\ "COMPLETED" \in WishStates  BY DEF SegmentInv, SegmentOK, Owns, WishStates
<1> HIDE DEF t
<1>5. SegmentOK(capture'[s], owner'[s], "COMPLETED", t)
  BY <1>1, <1>3, <1>4 DEF SegmentOK, NoTask
<1> QED  BY <1>1, <1>2, <1>3, <1>4, <1>5, LiveUpdate, Zenon

LEMMA DeleteLiveGood ==
    ASSUME TypeInv, \A h \in Segments : SegmentInv(h), NEW s \in CaptureSources, delete_job(s)
    PROVE  LiveGood
<1>1. /\ capture' = [capture EXCEPT ![s] = "gone"] /\ owner' = [owner EXCEPT ![s] = 0]
  BY DEF delete_job
<1>2. CASE s \in Segments
  <2>1. /\ capture'[s] = "gone" /\ owner'[s] = 0
        /\ \A h \in Segments \ {s} : owner'[h] = owner[h] /\ capture'[h] = capture[h]
    BY <1>1, <1>2, Constants DEF TypeInv
  <2>2. task' = [task EXCEPT ![s] = NoTask] /\ wish' = [wish EXCEPT ![s] = "gone"]
    BY <1>2 DEF delete_job, SetTask
  <2>3. SegmentOK(capture'[s], owner'[s], "gone", NoTask) /\ "gone" \in WishStates
    BY <2>1 DEF SegmentOK, NoTask, WishStates
  <2> QED  BY <1>2, <2>1, <2>2, <2>3, EmptyRows, LiveUpdate, Zenon
<1>3. CASE s \notin Segments
  <2>1. UNCHANGED <<wish, task>>  BY <1>3 DEF delete_job, liveRows
  <2>2. \A h \in Segments : owner'[h] = owner[h] /\ capture'[h] = capture[h]
    BY <1>1, <1>3, Constants DEF TypeInv
  <2> QED  BY <2>1, <2>2, LiveUnchanged
<1> QED  BY <1>2, <1>3

----------------------------------------------------------------------------
(* The requests that index uploads.                                        *)

RequestMove(u) ==
    capture[u] # "none" =>
        /\ indexing[u].build <= indexing'[u].build
        /\ indexing'[u].pc \in {"open", "scan", "publish"} =>
            \/ indexing[u].build < indexing'[u].build
            \/ indexing[u].build = indexing'[u].build /\ indexing[u].pc \in {"open", "scan", "publish"}

LEMMA BuildsGrow ==
    ASSUME NEW u, NEW n \in Nat, capture[u] # "none", RequestMove(u),
           indexing[u].build \in Nat, indexing'[u].build \in Nat, n <= indexing[u].build,
           indexing[u].pc \in {"open", "scan", "publish"} => n < indexing[u].build
    PROVE  /\ n <= indexing'[u].build
           /\ indexing'[u].pc \in {"open", "scan", "publish"} => n < indexing'[u].build
BY DEF RequestMove

LEMMA AttemptsGrow ==
    ASSUME NEW s, NEW n \in Nat, PostingMove(s), owner'[s] = owner[s], owner[s] # 0, ptask[s].parent = owner[s],
           ptask[s].attempt \in Nat, ptask'[s].attempt \in Nat, n <= ptask[s].attempt
    PROVE  \/ ptask'[s].parent = owner[s] /\ n <= ptask'[s].attempt
           \/ intent'[s].status \in {"COMPLETED", "FAILED"}
BY DEF PostingMove

RequestsGood ==
    /\ indexing' \in [Uploads -> Requests]
    /\ \A u \in Uploads : UploadInv(u)' /\ RequestMove(u)

LEMMA RequestFields ==
    ASSUME TypeInv, NEW u \in Uploads
    PROVE  /\ u \in CaptureSources /\ owner[u] \in Owners /\ owner[u] \in Nat
           /\ indexing[u] \in Requests
           /\ indexing[u].pc \in {"none", "open", "scan", "publish", "admit"}
           /\ indexing[u].build \in 0 .. MaxBuilds /\ indexing[u].build \in Nat
           /\ indexing[u] = [pc |-> indexing[u].pc, build |-> indexing[u].build]
<1>1. u \in CaptureSources /\ owner[u] \in Owners /\ indexing[u] \in Requests  BY Constants, RowTypes
<1> QED  BY <1>1, Numbers, Zenon DEF Requests

LEMMA RequestsUnchanged ==
    ASSUME TypeInv, \A u \in Uploads : UploadInv(u), UNCHANGED indexing,
           \A u \in Uploads : owner'[u] \in {0, owner[u]}
    PROVE  RequestsGood
<1>1. ASSUME NEW u \in Uploads  PROVE UploadInv(u)' /\ RequestMove(u)
  <2>1. indexing[u].build \in Nat /\ owner[u] \in Nat  BY RequestFields, Zenon
  <2>2. UploadInv(u)'
    <3>1. UploadOK(owner[u], indexing[u])  BY DEF UploadInv
    <3>2. UploadOK(0, indexing[u])  BY <2>1, <3>1 DEF UploadOK
    <3> QED  BY <3>1, <3>2 DEF UploadInv
  <2> QED  BY <2>1, <2>2 DEF RequestMove
<1> QED  BY <1>1 DEF TypeInv, RequestsGood

LEMMA RequestUpdate ==
    ASSUME TypeInv, \A h \in Uploads : UploadInv(h), NEW u \in Uploads,
           NEW pc \in {"none", "open", "scan", "publish", "admit"}, NEW n \in 0 .. MaxBuilds,
           SetRequest(u, pc, n), \A h \in Uploads \ {u} : owner'[h] = owner[h],
           pc # "none" => n > 0, owner'[u] <= n, pc \in {"open", "scan", "publish"} => owner'[u] < n,
           capture[u] # "none" =>
               /\ indexing[u].build <= n
               /\ pc \in {"open", "scan", "publish"} =>
                   indexing[u].build < n
                   \/ (indexing[u].build = n /\ indexing[u].pc \in {"open", "scan", "publish"})
    PROVE  RequestsGood
<1> DEFINE r == [pc |-> pc, build |-> n]
<1>1. r \in Requests /\ r.pc = pc /\ r.build = n  BY DEF Requests
<1>2. indexing' = [indexing EXCEPT ![u] = r]  BY DEF SetRequest
<1> HIDE DEF r
<1>3. indexing' \in [Uploads -> Requests] /\ indexing'[u] = r
      /\ \A h \in Uploads \ {u} : indexing'[h] = indexing[h]
  BY <1>1, <1>2 DEF TypeInv
<1>4. UploadInv(u)'  BY <1>1, <1>3 DEF UploadInv, UploadOK
<1>5. RequestMove(u)  BY <1>1, <1>3 DEF RequestMove
<1>6. ASSUME NEW h \in Uploads \ {u}  PROVE UploadInv(h)' /\ RequestMove(h)
  <2>1. indexing[h].build \in Nat  BY RequestFields, Zenon
  <2>2. UploadInv(h)'  BY <1>3 DEF UploadInv
  <2> QED  BY <2>1, <2>2, <1>3 DEF RequestMove
<1> QED  BY <1>3, <1>4, <1>5, <1>6 DEF RequestsGood

\* A step of a request that keeps its number and does not touch the owner.
LEMMA RequestStep ==
    ASSUME TypeInv, \A h \in Uploads : UploadInv(h), NEW u \in Uploads, UNCHANGED owner,
           NEW pc \in {"none", "scan", "publish"}, SetRequest(u, pc, indexing[u].build),
           pc # "none" => indexing[u].pc \in {"open", "scan", "publish"}
    PROVE  RequestsGood
<1>1. indexing[u].build \in 0 .. MaxBuilds /\ indexing[u].build \in Nat  BY RequestFields, Zenon
<1>2. /\ pc # "none" => indexing[u].build > 0
      /\ owner[u] <= indexing[u].build
      /\ pc \in {"open", "scan", "publish"} => owner[u] < indexing[u].build
  BY DEF UploadInv, UploadOK
<1> DEFINE n == indexing[u].build
<1>3. n \in 0 .. MaxBuilds /\ SetRequest(u, pc, n) /\ n <= n  BY <1>1
<1> QED  BY <1>2, <1>3, RequestUpdate

----------------------------------------------------------------------------
(* The posting builds.                                                     *)

RowsGood == OwnersGood /\ LiveGood /\ RequestsGood /\ PostingsGood

\* The build of a worker ends, or goes on below the same lease.
PosterKept(p) ==
    \/ poster'[p].pc = "idle"
    \/ /\ poster[p].pc # "idle" /\ poster'[p].src = poster[p].src
       /\ poster'[p].parent = poster[p].parent /\ poster'[p].attempt = poster[p].attempt
       /\ poster'[p].pc \in {"staging", "staged"} =>
            \/ poster[p].pc \in {"staging", "staged"}
            \/ \E g \in pgens'[poster[p].src] :
                   g.parent = poster[p].parent /\ g.attempt = poster[p].attempt /\ g.state = "STAGING"

PostersGood ==
    /\ poster' \in [PostingWorkers -> PosterRecords \cup {NoPoster}]
    /\ \A p \in PostingWorkers : PosterInv(p)'
    /\ OneBuildPerAttempt' /\ HeldDraftsStay'

\* What a build relies on survives every move of the rows.
LEMMA PosterInvKept ==
    ASSUME IndexInv, RowsGood, NEW p \in PostingWorkers, PosterKept(p)
    PROVE  PosterInv(p)'
<1> SUFFICES ASSUME poster'[p].pc # "idle"  PROVE PosterInv(p)'
  BY DEF PosterInv
<1>1. /\ poster[p].pc # "idle" /\ poster'[p].src = poster[p].src
      /\ poster'[p].parent = poster[p].parent /\ poster'[p].attempt = poster[p].attempt
  BY DEF PosterKept
<1>2. PICK s, parent, attempt : /\ s = poster[p].src /\ parent = poster[p].parent
                                /\ attempt = poster[p].attempt
  OBVIOUS
<1>3. TypeInv  BY DEF IndexInv
<1>4. s \in CaptureSources /\ parent \in BuildNumbers /\ attempt \in Tries /\ parent \in Nat \ {0} /\ attempt \in Nat
  BY <1>1, <1>2, <1>3, PosterTypes, Numbers, Constants, Zenon
<1>5. /\ capture[s] # "none"
      /\ parent = owner[s] =>
            \/ ptask[s].parent = parent /\ attempt <= ptask[s].attempt
            \/ intent[s].status \in {"COMPLETED", "FAILED"}
      /\ s \in Uploads =>
            /\ parent <= indexing[s].build
            /\ indexing[s].pc \in {"open", "scan", "publish"} => parent < indexing[s].build
      /\ s \in Segments => wish[s] \in {"COMPLETED", "gone"}
  BY <1>1, <1>2 DEF IndexInv, PosterInv
<1>6. /\ OwnerMove(s) /\ capture'[s] # "none" /\ PostingMove(s)
      /\ s \in Segments => wish'[s] \in {"COMPLETED", "gone"}
      /\ s \in Uploads => RequestMove(s)
  BY <1>4, <1>5 DEF RowsGood, OwnersGood, LiveGood, RequestsGood, PostingsGood
<1>7. s \in Uploads => indexing[s].build \in Nat /\ indexing'[s].build \in Nat
  <2>1. s \in Uploads => indexing'[s] \in Requests  BY Zenon DEF RowsGood, RequestsGood
  <2> QED  BY <2>1, <1>3, RequestFields, Numbers, Zenon DEF Requests
<1>8. s \in Uploads =>
        /\ parent <= indexing'[s].build
        /\ indexing'[s].pc \in {"open", "scan", "publish"} => parent < indexing'[s].build
  BY <1>4, <1>5, <1>6, <1>7, BuildsGrow, Zenon
<1>9. parent = owner'[s] => owner'[s] = owner[s]
  BY <1>4, <1>5, <1>6, <1>7 DEF OwnerMove
<1>10. parent = owner'[s] =>
            \/ ptask'[s].parent = parent /\ attempt <= ptask'[s].attempt
            \/ intent'[s].status \in {"COMPLETED", "FAILED"}
  <2> SUFFICES ASSUME parent = owner'[s]
               PROVE  \/ ptask'[s].parent = parent /\ attempt <= ptask'[s].attempt
                      \/ intent'[s].status \in {"COMPLETED", "FAILED"}
    OBVIOUS
  <2>1. ptask[s].attempt \in Nat /\ ptask'[s].attempt \in Nat
    <3>1. ptask'[s] \in PostingRecords  BY <1>4 DEF RowsGood, PostingsGood, PostingRowTypes
    <3> QED  BY <3>1, <1>3, <1>4, LifecycleFields, Numbers DEF PostingRecords
  <2>2. CASE ptask[s].parent = parent /\ attempt <= ptask[s].attempt
    BY <2>1, <2>2, <1>4, <1>6, <1>9, AttemptsGrow, Zenon
  <2>3. CASE intent[s].status \in {"COMPLETED", "FAILED"}
    BY <2>3, <1>6, <1>9 DEF PostingMove
  <2> QED  BY <1>5, <1>9, <2>2, <2>3
<1>11. poster'[p].src = s /\ poster'[p].parent = parent /\ poster'[p].attempt = attempt  BY <1>1, <1>2
<1> QED  BY <1>6, <1>8, <1>10, <1>11 DEF PosterInv

\* A build that holds its lease still has its draft.
LEMMA HeldDraftKept ==
    ASSUME IndexInv, RowsGood, NEW p \in PostingWorkers, PosterKept(p),
           poster'[p].pc \in {"staging", "staged"},
           OwnsPosting(poster[p].src, poster[p].parent, poster[p].attempt)'
    PROVE  DraftOf(poster[p])' # {}
<1>1. /\ poster[p].pc # "idle" /\ poster'[p].src = poster[p].src
      /\ poster'[p].parent = poster[p].parent /\ poster'[p].attempt = poster[p].attempt
  BY DEF PosterKept
<1>2. PICK s, parent, attempt : /\ s = poster[p].src /\ parent = poster[p].parent
                                /\ attempt = poster[p].attempt
  OBVIOUS
<1>3. TypeInv  BY DEF IndexInv
<1>4. s \in CaptureSources /\ parent \in BuildNumbers /\ attempt \in Tries /\ attempt \in Nat
  BY <1>1, <1>2, <1>3, PosterTypes, Numbers, Zenon
<1>5. poster'[p].src = s /\ poster'[p].parent = parent /\ poster'[p].attempt = attempt  BY <1>1, <1>2
<1>6. OwnsPosting(s, parent, attempt)'  BY <1>5 DEF OwnsPosting
<1> SUFFICES \E g \in pgens'[s] : g.parent = parent /\ g.attempt = attempt /\ g.state = "STAGING"
  BY <1>5 DEF DraftOf
<1>7. CASE poster[p].pc \in {"staging", "staged"}
  <2>1. PostingMove(s)  BY <1>4 DEF RowsGood, PostingsGood
  <2>2. CASE /\ OwnsPosting(s, parent, attempt)
             /\ \A g \in pgens[s] :
                    g.parent = parent /\ g.attempt = attempt /\ g.state = "STAGING" => g \in pgens'[s]
    BY <2>2, <1>2, <1>7, Zenon DEF IndexInv, HeldDraftsStay, DraftOf
  <2>3. CASE /\ owner[s] = parent /\ ptask[s].parent = parent /\ attempt > ptask[s].attempt
             /\ intent[s].status \notin {"COMPLETED", "FAILED"}
    <3>1. ptask[s].attempt \in Nat  BY <1>3, <1>4, LifecycleFields
    <3>2. \/ ptask[s].parent = parent /\ attempt <= ptask[s].attempt
          \/ owner[s] # parent \/ intent[s].status \in {"COMPLETED", "FAILED"}
      BY <1>1, <1>2, Zenon DEF IndexInv, PosterInv
    <3> QED  BY <3>1, <3>2, <2>3, <1>4
  <2>4. CASE \E q \in PostingWorkers :
                 /\ poster[q].src = s /\ poster[q].parent = parent /\ poster[q].attempt = attempt
                 /\ poster[q].pc # "idle" /\ poster'[q].pc \notin {"staging", "staged"}
    BY <2>4, <1>1, <1>2, Zenon DEF IndexInv, OneBuildPerAttempt
  <2> QED  BY <1>4, <1>6, <2>1, <2>2, <2>3, <2>4 DEF PostingMove
<1> QED  BY <1>2, <1>7 DEF PosterKept

LEMMA PostersKept ==
    ASSUME IndexInv, RowsGood, poster' \in [PostingWorkers -> PosterRecords \cup {NoPoster}],
           \A p \in PostingWorkers : PosterKept(p)
    PROVE  PostersGood
<1>1. \A p \in PostingWorkers : PosterInv(p)'  BY PosterInvKept
<1>2. OneBuildPerAttempt'
  <2> SUFFICES ASSUME NEW p \in PostingWorkers, NEW q \in PostingWorkers, p # q,
                      poster'[p].pc # "idle", poster'[q].pc # "idle",
                      poster'[p].src = poster'[q].src, poster'[p].parent = poster'[q].parent,
                      poster'[p].attempt = poster'[q].attempt
               PROVE  FALSE
    BY DEF OneBuildPerAttempt
  <2> QED  BY Zenon DEF IndexInv, OneBuildPerAttempt, PosterKept
<1>3. HeldDraftsStay'
  <2> SUFFICES ASSUME NEW p \in PostingWorkers, poster'[p].pc \in {"staging", "staged"},
                      OwnsPosting(poster[p].src, poster[p].parent, poster[p].attempt)'
               PROVE  DraftOf(poster[p])' # {}
    BY DEF HeldDraftsStay
  <2> QED  BY HeldDraftKept
<1> QED  BY <1>1, <1>2, <1>3 DEF PostersGood

LEMMA PostersUnchanged ==
    ASSUME IndexInv, RowsGood, UNCHANGED poster
    PROVE  PostersGood
BY PostersKept, Zenon DEF PosterKept, IndexInv, TypeInv

\* A claim starts the build of an attempt nobody has built.
LEMMA PostersClaim ==
    ASSUME IndexInv, RowsGood, NEW p \in PostingWorkers, NEW s \in CaptureSources,
           claim_posting_index(p, s)
    PROVE  PostersGood
<1> DEFINE b == [NoPoster EXCEPT !.pc = "claimed", !.src = s, !.parent = ptask[s].parent,
                                 !.attempt = ptask[s].attempt + 1]
<1>1. TypeInv /\ RowsOK(s) /\ OwnerInv(s)  BY DEF IndexInv
<1>2. /\ ptask[s].status = "QUEUED" /\ intent[s].parent = ptask[s].parent
      /\ intent[s].status \in {"PENDING", "DEFERRED"} /\ poster' = [poster EXCEPT ![p] = b]
      /\ ptask' = [ptask EXCEPT ![s].status = "RUNNING", ![s].attempt = @ + 1, ![s].lease = LeaseTicks]
      /\ UNCHANGED <<intent, owner, capture, indexing, wish>>
  BY DEF claim_posting_index, Eligible, sourceRows, structure, liveRows
<1>3. ptask[s].parent = owner[s] /\ owner[s] # 0 /\ ptask[s].attempt < MaxAttempts
  BY <1>1, <1>2 DEF RowsOK, LifecycleOK, NoPosting
<1>4. /\ ptask[s].attempt \in Nat /\ ptask[s].attempt + 1 \in Tries /\ owner[s] \in BuildNumbers
      /\ owner[s] \in Nat
  BY <1>1, <1>3, LifecycleFields, Numbers, Zenon DEF Owners
<1>5. /\ b.pc = "claimed" /\ b.src = s /\ b.parent = owner[s] /\ b.attempt = ptask[s].attempt + 1
      /\ b \in PosterRecords
  BY <1>3, <1>4, Zenon DEF NoPoster, PosterRecords
<1> HIDE DEF b
<1>6. poster' \in [PostingWorkers -> PosterRecords \cup {NoPoster}] /\ poster'[p] = b
      /\ \A q \in PostingWorkers \ {p} : poster'[q] = poster[q]
  BY <1>1, <1>2, <1>5 DEF TypeInv
<1>7. \A q \in PostingWorkers \ {p} : PosterKept(q)  BY <1>6 DEF PosterKept
<1>8. ptask'[s].parent = owner[s] /\ ptask'[s].attempt = ptask[s].attempt + 1
  BY <1>1, <1>2, <1>3, LifecycleFields DEF PostingRecords
<1>9. PosterInv(p)'
  <2>1. capture'[s] # "none"  BY <1>1, <1>2, <1>3 DEF OwnerInv
  <2>2. s \in Uploads => /\ owner[s] <= indexing'[s].build
                         /\ indexing'[s].pc \in {"open", "scan", "publish"} => owner[s] < indexing'[s].build
    BY <1>2 DEF IndexInv, UploadInv, UploadOK
  <2>3. s \in Segments => wish'[s] \in {"COMPLETED", "gone"}
    BY <1>2, <1>3 DEF IndexInv, SegmentInv, SegmentOK
  <2>4. b.attempt <= ptask'[s].attempt /\ ptask'[s].parent = b.parent  BY <1>4, <1>5, <1>8
  <2> QED  BY <1>5, <1>6, <2>1, <2>2, <2>3, <2>4 DEF PosterInv
<1>10. ASSUME NEW q \in PostingWorkers, q # p, poster[q].pc # "idle",
              poster[q].src = s, poster[q].parent = owner[s], poster[q].attempt = ptask[s].attempt + 1
       PROVE  FALSE
  <2>1. poster[q].attempt <= ptask[s].attempt
    BY <1>2, <1>3, <1>10 DEF IndexInv, PosterInv
  <2> QED  BY <2>1, <1>4, <1>10
<1>11. OneBuildPerAttempt'
  <2> SUFFICES ASSUME NEW q \in PostingWorkers, NEW r \in PostingWorkers, q # r,
                      poster'[q].pc # "idle", poster'[r].pc # "idle",
                      poster'[q].src = poster'[r].src, poster'[q].parent = poster'[r].parent,
                      poster'[q].attempt = poster'[r].attempt
               PROVE  FALSE
    BY DEF OneBuildPerAttempt
  <2>1. CASE q = p  BY <2>1, <1>5, <1>6, <1>10
  <2>2. CASE r = p  BY <2>2, <1>5, <1>6, <1>10
  <2>3. CASE q # p /\ r # p  BY <2>3, <1>6 DEF IndexInv, OneBuildPerAttempt
  <2> QED  BY <2>1, <2>2, <2>3
<1>12. HeldDraftsStay'
  <2> SUFFICES ASSUME NEW q \in PostingWorkers, poster'[q].pc \in {"staging", "staged"},
                      OwnsPosting(poster[q].src, poster[q].parent, poster[q].attempt)'
               PROVE  DraftOf(poster[q])' # {}
    BY DEF HeldDraftsStay
  <2>1. q # p  BY <1>5, <1>6
  <2> QED  BY <2>1, <1>7, HeldDraftKept
<1> QED  BY <1>6, <1>7, <1>9, <1>11, <1>12, PosterInvKept DEF PostersGood

\* A worker's build moves on, below the lease it has.
LEMMA PosterSteps ==
    ASSUME IndexInv, RowsGood, NEW p \in PostingWorkers, poster[p].pc # "idle",
           NEW pc \in {"staging", "staged", "done", "transient", "permanent"}, StepPoster(p, pc),
           pc = "staged" => poster[p].pc \in {"staging", "staged"},
           pc = "staging" =>
               \E g \in pgens'[poster[p].src] :
                   g.parent = poster[p].parent /\ g.attempt = poster[p].attempt /\ g.state = "STAGING"
    PROVE  PostersGood
<1> DEFINE b == [poster[p] EXCEPT !.pc = pc]
<1>1. TypeInv /\ poster[p] \in PosterRecords  BY PosterTypes DEF IndexInv
<1>2. /\ b \in PosterRecords /\ b.pc = pc /\ b.src = poster[p].src /\ b.parent = poster[p].parent
      /\ b.attempt = poster[p].attempt
  BY <1>1 DEF PosterRecords
<1>3. poster' = [poster EXCEPT ![p] = b]  BY DEF StepPoster
<1> HIDE DEF b
<1>4. poster' \in [PostingWorkers -> PosterRecords \cup {NoPoster}] /\ poster'[p] = b
      /\ \A q \in PostingWorkers \ {p} : poster'[q] = poster[q]
  BY <1>1, <1>2, <1>3 DEF TypeInv
<1>5. \A q \in PostingWorkers : PosterKept(q)  BY <1>2, <1>4 DEF PosterKept
<1> QED  BY <1>4, <1>5, PostersKept

\* It ends, or its thread is given up.
LEMMA PosterEnds ==
    ASSUME IndexInv, RowsGood, NEW p \in PostingWorkers, poster[p].pc # "idle",
           \/ poster' = [poster EXCEPT ![p] = NoPoster]
           \/ poster' = [poster EXCEPT ![p].orphan = TRUE]
    PROVE  PostersGood
<1>1. TypeInv /\ poster[p] \in PosterRecords  BY PosterTypes DEF IndexInv
<1>2. CASE poster' = [poster EXCEPT ![p] = NoPoster]
  <2>1. poster' \in [PostingWorkers -> PosterRecords \cup {NoPoster}] /\ poster'[p] = NoPoster
        /\ \A q \in PostingWorkers \ {p} : poster'[q] = poster[q]
    BY <1>1, <1>2 DEF TypeInv
  <2>2. \A q \in PostingWorkers : PosterKept(q)  BY <2>1 DEF PosterKept, NoPoster
  <2> QED  BY <2>1, <2>2, PostersKept
<1>3. CASE poster' = [poster EXCEPT ![p].orphan = TRUE]
  <2> DEFINE b == [poster[p] EXCEPT !.orphan = TRUE]
  <2>1. /\ b \in PosterRecords /\ b.pc = poster[p].pc /\ b.src = poster[p].src
        /\ b.parent = poster[p].parent /\ b.attempt = poster[p].attempt
    BY <1>1, Zenon DEF PosterRecords
  <2>2. poster' = [poster EXCEPT ![p] = b]  BY <1>3
  <2> HIDE DEF b
  <2>3. poster' \in [PostingWorkers -> PosterRecords \cup {NoPoster}] /\ poster'[p] = b
        /\ \A q \in PostingWorkers \ {p} : poster'[q] = poster[q]
    BY <1>1, <2>1, <2>2 DEF TypeInv
  <2>4. \A q \in PostingWorkers : PosterKept(q)  BY <2>1, <2>3 DEF PosterKept
  <2> QED  BY <2>3, <2>4, PostersKept
<1> QED  BY <1>2, <1>3
=============================================================================
