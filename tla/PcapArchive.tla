---------------------------- MODULE PcapArchive ----------------------------
(***************************************************************************)
(* Raw packets of one sensor, from the pipelines that see them to the      *)
(* controller's capture store: PCAPWriter with its queue, the job's        *)
(* PCAPBudget and the disk limit; Rotator and the segment files; the       *)
(* PCAPArchiveManager that uploads finished segments; upload_sensor_pcap   *)
(* and save_sensor_pcap_limited in the controller; crashes, and the        *)
(* recovery of segments left unfinished.                                   *)
(*                                                                         *)
(* A packet's record and a file's global header count one unit each.  A    *)
(* segment is named by its number, in the order of creation; its suffix is *)
(* its state.  pcapDiskMu makes claiming, renaming and storing a packet    *)
(* atomic.  The offset index admitted after an upload is PcapIndex's.      *)
(***************************************************************************)
EXTENDS Integers, FiniteSets, Sequences, FiniteSetsExt, SequencesExt

CONSTANTS
    PcapJobs,       \* jobs that store packets
    Interfaces,     \* one writer for each job and interface
    SegmentUnits,   \* pcapstore.Limits.MaxBytes
    DiskUnits,      \* MaxDiskBytes
    JobUnits,       \* the job's max_bytes, for the sensor's budget and the controller
    PcapQueueSize,
    NumPackets,     \* bound: packets taken by the writers
    NumUploads,     \* bound: upload requests sent
    NumPeers,       \* bound: segments of the same jobs uploaded by other sensors
    MaxPcapFaults,  \* bound: failed file operations, requests and commits
    MaxCrashes      \* bound: crashes, failures of the capture group, new configurations

PcapWriters == PcapJobs \X Interfaces

Job(w) == w[1]

NoSegment == 0

ASSUME ArchiveConstants ==
    /\ SegmentUnits \in Nat \ {0, 1} /\ DiskUnits \in Nat /\ JobUnits \in Nat
    /\ PcapQueueSize \in Nat \ {0} /\ NumPackets \in Nat /\ NumUploads \in Nat /\ NumPeers \in Nat
    /\ MaxPcapFaults \in Nat /\ MaxCrashes \in Nat

VARIABLES
    files,      \* the segments ever opened: job, suffix, complete records
    order,      \* the segments on disk, by modification time
    pens,       \* the writers: queue, packet being written, open segment
    spent,      \* PCAPBudget.bytes of each job
    group,      \* "running" | "stopping" | "final" | "down"
    late,       \* whether the pipelines outlive the writers: the group has failed
    archive,    \* the upload manager: the claim, the upload it waits for
    blocked,    \* PCAPArchiveManager.blockedJobs
    live,       \* jobs that are not in a terminal status
    segmentRows,\* the controller's sensor_pcap rows: the object and its records
    blobs,      \* objects in the blob store, by the upload that put them
    puts,       \* upload requests at the controller
    tally,      \* packets taken, dropped by a writer, lost; uploads sent, and those of
                \* peers; whether sensor or its capture group has ever failed
    pcapFaults, crashes

penVars == <<pens, spent>>
managerVars == <<archive, blocked>>
storeState == <<live, segmentRows, blobs>>
archiveVars == <<files, order, pens, spent, group, late, archive, blocked, live, segmentRows, blobs,
                 puts, tally, pcapFaults, crashes>>

\* A writer with nothing to do; open names its segment.
Pen(segment) == [queue |-> 0, writing |-> FALSE, rotates |-> FALSE, open |-> segment, closed |-> FALSE]

NoClaim == [segment |-> NoSegment, upload |-> 0]

NoRow == [job |-> "none", object |-> 0, recs |-> 0]

ArchiveInit ==
    /\ files = <<>> /\ order = <<>>
    /\ pens = [w \in PcapWriters |-> Pen(NoSegment)]
    /\ spent = [j \in PcapJobs |-> 0]
    /\ group = "running" /\ late = FALSE
    /\ archive = NoClaim /\ blocked = {}
    /\ live = PcapJobs
    /\ segmentRows = <<>> /\ blobs = {} /\ puts = {}
    /\ tally = [taken |-> 0, dropped |-> 0, lost |-> 0, uploads |-> 0, peers |-> 0, failed |-> FALSE]
    /\ pcapFaults = 0 /\ crashes = 0

PcapFault ==
    /\ pcapFaults < MaxPcapFaults
    /\ pcapFaults' = pcapFaults + 1 /\ UNCHANGED crashes

Mischance ==
    /\ crashes < MaxCrashes
    /\ crashes' = crashes + 1 /\ UNCHANGED pcapFaults

NoTrouble == UNCHANGED <<pcapFaults, crashes>>

Row(s) == IF s \in DOMAIN segmentRows THEN segmentRows[s] ELSE NoRow

Marked(s, suffix) == [files EXCEPT ![s].suffix = suffix]

Size(s) == 1 + files[s].recs

----------------------------------------------------------------------------
(* The writers.                                                            *)

\* Enqueue: a packet the budget may still admit and the queue has a slot for.
\* Any other packet only adds to PCAPDroppedPackets.
EnqueuePacket(w) ==
    /\ group = "running" \/ late
    /\ tally.taken < NumPackets
    /\ spent[Job(w)] < JobUnits
    /\ pens[w].queue < PcapQueueSize
    /\ pens' = [pens EXCEPT ![w].queue = @ + 1]
    /\ tally' = [tally EXCEPT !.taken = @ + 1]
    /\ UNCHANGED <<files, order, spent, group, late, managerVars, storeState, puts>> /\ NoTrouble

\* Whether WritePacket opens a new segment: none is open, or the open one has a
\* packet and is full, or too old for this packet.
Rotates(w, old) ==
    LET s == pens[w].open IN
    s # NoSegment /\ files[s].recs > 0 /\ (old \/ Size(s) + 1 > SegmentUnits)

Fresh(w, old) == pens[w].open = NoSegment \/ Rotates(w, old)

\* EstimatedWriteBytes.
EstimatedWriteBytes(w, old) == IF Fresh(w, old) THEN 2 ELSE 1

\* PCAPBudget.Reserve.
Admits(j, needed) == spent[j] + needed <= JobUnits

\* The writer takes a packet from its queue and reserves the estimated bytes in
\* the job's budget; without them the packet is dropped.
ReservePacket(w) ==
    /\ group \in {"running", "stopping"} /\ ~pens[w].closed
    /\ pens[w].queue > 0 /\ ~pens[w].writing
    /\ \E old \in BOOLEAN :
           LET needed == EstimatedWriteBytes(w, old) IN
           IF Admits(Job(w), needed)
           THEN /\ spent' = [spent EXCEPT ![Job(w)] = @ + needed]
                /\ pens' = [pens EXCEPT ![w].queue = @ - 1, ![w].writing = TRUE, ![w].rotates = old]
                /\ UNCHANGED tally
           ELSE /\ pens' = [pens EXCEPT ![w].queue = @ - 1]
                /\ tally' = [tally EXCEPT !.dropped = @ + 1]
                /\ UNCHANGED spent
    /\ UNCHANGED <<files, order, group, late, managerVars, storeState, puts>> /\ NoTrouble

Used(segments) == MapThenSumSet(Size, segments)

\* One iteration over the finalized files, oldest first.
Evict(acc, s) == IF acc.total + acc.needed <= DiskUnits THEN acc
                 ELSE [acc EXCEPT !.total = @ - Size(s), !.gone = @ \cup {s}]

Finalized(s) == files[s].suffix \in {"uploaded", "rejected", "corrupt"}

\* makePCAPRoom: what is removed, and the bytes then in use.
MakeRoom(needed) ==
    FoldLeft(Evict, [total |-> Used(ToSet(order)), needed |-> needed, gone |-> {}],
             SelectSeq(order, Finalized))

Without(S) == SelectSeq(order, LAMBDA s : s \notin S)

\* The packet is dropped and its reservation given back.
Drop(w, needed) ==
    /\ spent' = [spent EXCEPT ![Job(w)] = @ - needed]
    /\ tally' = [tally EXCEPT !.dropped = @ + 1]

\* Rotator.WritePacket: a full segment gets its final name before the next one
\* is opened.  fails: the new segment cannot be opened, or the record not written.
WritePacket(w, gone, fails) ==
    LET old == pens[w].rotates
        s == pens[w].open
        closed == IF Rotates(w, old) THEN Marked(s, "pcap") ELSE files
        next == Len(files) + 1
    IN  CASE fails -> /\ files' = closed /\ order' = Without(gone)
                      /\ pens' = [pens EXCEPT ![w].writing = FALSE,
                                              ![w].open = IF Rotates(w, old) THEN NoSegment ELSE @]
                      /\ Drop(w, EstimatedWriteBytes(w, old))
          [] ~fails /\ Fresh(w, old) ->
                      /\ files' = Append(closed, [job |-> Job(w), suffix |-> "partial", recs |-> 1])
                      /\ order' = Append(Without(gone), next)
                      /\ pens' = [pens EXCEPT ![w].writing = FALSE, ![w].open = next]
                      /\ UNCHANGED <<spent, tally>>
          [] OTHER -> /\ files' = [files EXCEPT ![s].recs = @ + 1]
                      /\ order' = Append(Without(gone \cup {s}), s)
                      /\ pens' = [pens EXCEPT ![w].writing = FALSE]
                      /\ UNCHANGED <<spent, tally>>

\* The rest of write, under pcapDiskMu: room is made, the packet written.
StorePacket(w) ==
    /\ pens[w].writing
    /\ LET needed == EstimatedWriteBytes(w, pens[w].rotates)
           room == MakeRoom(needed)
       IN  IF room.total + needed <= DiskUnits
           THEN \/ WritePacket(w, room.gone, FALSE) /\ NoTrouble
                \/ WritePacket(w, room.gone, TRUE) /\ PcapFault
           ELSE /\ pens' = [pens EXCEPT ![w].writing = FALSE]
                /\ order' = Without(room.gone)
                /\ Drop(w, needed)
                /\ UNCHANGED files /\ NoTrouble
    /\ UNCHANGED <<group, late, managerVars, storeState, puts>>

\* A mutant: the writer closes its segment and leaves its queue behind.
CloseWithoutDraining(w) ==
    /\ group = "stopping" /\ ~pens[w].closed /\ ~pens[w].writing
    /\ files' = IF pens[w].open = NoSegment THEN files ELSE Marked(pens[w].open, "pcap")
    /\ pens' = [pens EXCEPT ![w].open = NoSegment, ![w].closed = TRUE]
    /\ UNCHANGED <<order, spent, group, late, managerVars, storeState, puts, tally>> /\ NoTrouble

\* The writer has drained its queue: Rotator.Close gives the segment its final
\* name.  When the rename fails the file stays partial, until the next start.
CloseWriter(w) ==
    /\ group = "stopping" /\ ~pens[w].closed
    /\ pens[w].queue = 0 /\ ~pens[w].writing
    /\ \/ /\ files' = IF pens[w].open = NoSegment THEN files ELSE Marked(pens[w].open, "pcap")
          /\ NoTrouble
       \/ pens[w].open # NoSegment /\ UNCHANGED files /\ PcapFault
    /\ pens' = [pens EXCEPT ![w].open = NoSegment, ![w].closed = TRUE]
    /\ UNCHANGED <<order, spent, group, late, managerVars, storeState, puts, tally>>

----------------------------------------------------------------------------
(* The capture group, and the process around it.                           *)

\* A new configuration or a shutdown stops the pipelines first; the failure of a
\* member stops the writers while the pipelines still hand them packets.
StopGroup ==
    /\ group = "running"
    /\ group' = "stopping"
    /\ late' \in BOOLEAN
    /\ tally' = [tally EXCEPT !.failed = @ \/ late']
    /\ Mischance
    /\ UNCHANGED <<files, order, penVars, managerVars, storeState, puts>>

\* What a failed group's pipelines have handed over too late is lost.
WritersDone ==
    /\ group = "stopping"
    /\ \A w \in PcapWriters : pens[w].closed
    /\ group' = "final" /\ late' = FALSE
    /\ tally' = [tally EXCEPT !.lost = @ + MapThenSumSet(LAMBDA w : pens[w].queue, PcapWriters)]
    /\ pens' = [w \in PcapWriters |-> [pens[w] EXCEPT !.queue = 0]]
    /\ UNCHANGED <<files, order, spent, managerVars, storeState, puts>> /\ NoTrouble

\* A crash: of an unfinished segment some records may not have reached the disk,
\* nor, with none left, the whole global header (recs is then -1).
CrashSensorPcap ==
    /\ group # "down"
    /\ Mischance
    /\ group' = "down" /\ late' = FALSE
    /\ \E kept \in [{s \in DOMAIN files : files[s].suffix = "partial"} -> -1 .. NumPackets] :
           /\ \A s \in DOMAIN kept : kept[s] <= files[s].recs
           /\ files' = [s \in DOMAIN files |->
                            IF s \in DOMAIN kept THEN [files[s] EXCEPT !.recs = kept[s]] ELSE files[s]]
           /\ tally' = [tally EXCEPT !.failed = TRUE, !.lost =
                  @ + MapThenSumSet(LAMBDA s : files[s].recs - Max({0, kept[s]}), DOMAIN kept)
                    + MapThenSumSet(LAMBDA w : pens[w].queue, PcapWriters)
                    + Cardinality({w \in PcapWriters : pens[w].writing})]
    /\ pens' = [w \in PcapWriters |-> Pen(NoSegment)]
    /\ archive' = NoClaim
    /\ UNCHANGED <<order, spent, blocked, storeState, puts>>

\* repairPartialSegment keeps the complete records of a segment with a header.
Recovered(f) ==
    CASE f.suffix # "partial" -> f
      [] f.recs < 0 -> [f EXCEPT !.suffix = "corrupt"]
      [] OTHER -> [f EXCEPT !.suffix = "pcap"]

\* The next group: PCAPStartup.Prepare recovers what was left unfinished before
\* a writer or the upload manager begins; both are new, and so are the budgets.
StartGroup ==
    /\ group = "down"
    /\ group' = "running" /\ late' = FALSE
    /\ files' = [s \in DOMAIN files |-> Recovered(files[s])]
    /\ pens' = [w \in PcapWriters |-> Pen(NoSegment)]
    /\ spent' = [j \in PcapJobs |-> 0]
    /\ archive' = NoClaim /\ blocked' = {}
    /\ UNCHANGED <<order, storeState, puts, tally>> /\ NoTrouble

----------------------------------------------------------------------------
(* The upload manager.                                                     *)

\* A mutant: a claim left by a process that stopped is not found again.
UploadableUnclaimed == SelectSeq(order, LAMBDA s : files[s].suffix = "pcap")

\* The segments a scan finds, oldest first.
Uploadable == SelectSeq(order, LAMBDA s : files[s].suffix \in {"pcap", "uploading"})

\* In its last pass the manager waits until no segment is unfinished.
MayScan ==
    /\ archive = NoClaim
    /\ \/ group \in {"running", "stopping"}
       \/ group = "final" /\ \A s \in DOMAIN files : files[s].suffix # "partial"

Sent(s, j, recs, n) ==
    [segment |-> s, job |-> j, recs |-> recs, upload |-> n, pc |-> "check", reply |-> "none"]

\* claimOldestPCAP and the upload of the claim, or its rejection when the job is
\* blocked.
ClaimSegment ==
    /\ MayScan
    /\ Uploadable # <<>>
    /\ LET s == Head(Uploadable)
           n == tally.uploads + 1
       IN  IF files[s].job \in blocked
           THEN files' = Marked(s, "rejected") /\ UNCHANGED <<archive, puts, tally>>
           ELSE /\ n <= NumUploads
                /\ files' = Marked(s, "uploading")
                /\ archive' = [segment |-> s, upload |-> n]
                /\ puts' = puts \cup {Sent(s, files[s].job, files[s].recs, n)}
                /\ tally' = [tally EXCEPT !.uploads = n]
    /\ UNCHANGED <<order, penVars, group, late, blocked, storeState>> /\ NoTrouble

\* What the manager makes of an answer (Permanent, BlocksJob): the claim's next
\* suffix, and whether the job's other segments are to be rejected unasked.
Verdict(reply) ==
    CASE reply = "ok" -> [suffix |-> "uploaded", blocks |-> FALSE]
      [] reply \in {"closed", "limit"} -> [suffix |-> "rejected", blocks |-> TRUE]
      [] reply = "conflict" -> [suffix |-> "rejected", blocks |-> FALSE]
      [] OTHER -> [suffix |-> "pcap", blocks |-> FALSE]

Awaited(r) == r.upload = archive.upload

\* The answer arrives.  A claim that cannot be renamed is found again by the next
\* scan, under one name or the other.
ReceiveAnswer ==
    \E r \in puts :
        /\ Awaited(r) /\ r.pc = "answered"
        /\ LET v == Verdict(r.reply) IN
           \/ /\ files' = Marked(r.segment, v.suffix)
              /\ blocked' = IF v.blocks THEN blocked \cup {r.job} ELSE blocked
              /\ NoTrouble
           \/ /\ files' = IF v.suffix = "rejected" THEN Marked(r.segment, "pcap") ELSE files
              /\ UNCHANGED blocked /\ PcapFault
        /\ archive' = NoClaim
        /\ puts' = puts \ {r}
        /\ UNCHANGED <<order, penVars, group, late, storeState, tally>>

\* The request fails or its answer does not come in time: the claim is restored,
\* while the controller may still be at work on the request.
AbandonUpload ==
    /\ archive # NoClaim
    /\ PcapFault
    /\ files' = Marked(archive.segment, "pcap")
    /\ archive' = NoClaim
    /\ \/ puts' = {r \in puts : ~Awaited(r)}
       \/ UNCHANGED puts
    /\ UNCHANGED <<order, penVars, group, late, blocked, storeState, tally>>

\* The last pass is over: nothing is left to upload, or FinalTimeout has passed
\* while a segment stays unfinished.
ArchiveDone ==
    /\ group = "final" /\ archive = NoClaim
    /\ Uploadable = <<>> \/ ~MayScan
    /\ group' = "down"
    /\ UNCHANGED <<files, order, penVars, late, managerVars, storeState, puts, tally>> /\ NoTrouble

----------------------------------------------------------------------------
(* The controller.                                                         *)

Answered(r, reply) == puts' = (puts \ {r}) \cup {[r EXCEPT !.pc = "answered", !.reply = reply]}

Advanced(r, pc) == puts' = (puts \ {r}) \cup {[r EXCEPT !.pc = pc]}

RowsOf(j) == {s \in DOMAIN segmentRows : segmentRows[s].job = j}

StoredUnits(S) == MapThenSumSet(LAMBDA s : 1 + segmentRows[s].recs, S)

\* upload_sensor_pcap up to the body: the job has to be open, and the segment to
\* fit beside the job's other segments.
CheckUpload(r) ==
    /\ r.pc = "check"
    /\ CASE r.job \notin live -> Answered(r, "closed")
         [] r.job \in live /\ StoredUnits(RowsOf(r.job) \ {r.segment}) + 1 + r.recs > JobUnits ->
                Answered(r, "limit")
         [] OTHER -> Advanced(r, "put")
    /\ UNCHANGED <<files, order, penVars, group, late, managerVars, storeState, tally>> /\ NoTrouble

Agreement(r) == IF Row(r.segment).recs = r.recs THEN "ok" ELSE "conflict"

\* A segment already stored is acknowledged; else its bytes are put under a key of
\* their own.
PutBlob(r) ==
    /\ r.pc = "put"
    /\ \/ Row(r.segment) # NoRow /\ Answered(r, Agreement(r)) /\ UNCHANGED blobs /\ NoTrouble
       \/ Row(r.segment) = NoRow /\ Advanced(r, "commit") /\ blobs' = blobs \cup {r.upload} /\ NoTrouble
       \/ Row(r.segment) = NoRow /\ Answered(r, "error") /\ UNCHANGED blobs /\ PcapFault
    /\ UNCHANGED <<files, order, penVars, group, late, managerVars, live, segmentRows, tally>>

\* What the transaction of save_sensor_pcap_limited finds.
Decision(r) ==
    CASE r.job \notin live -> "closed"
      [] r.job \in live /\ Row(r.segment) # NoRow -> Agreement(r)
      [] r.job \in live /\ Row(r.segment) = NoRow
         /\ StoredUnits(RowsOf(r.job)) + 1 + r.recs > JobUnits -> "limit"
      [] OTHER -> "insert"

Inserted(r) ==
    [s \in DOMAIN segmentRows \cup {r.segment} |->
        IF s = r.segment THEN [job |-> r.job, object |-> r.upload, recs |-> r.recs] ELSE segmentRows[s]]

\* The transaction: the row is inserted, or the object put for nothing is deleted
\* (which may fail).
CommitUpload(r) ==
    /\ r.pc = "commit"
    /\ \/ /\ Decision(r) = "insert"
          /\ segmentRows' = Inserted(r)
          /\ Answered(r, "ok") /\ UNCHANGED blobs /\ NoTrouble
       \/ /\ Decision(r) # "insert"
          /\ Answered(r, Decision(r))
          /\ \/ blobs' = blobs \ {r.upload} /\ NoTrouble
             \/ UNCHANGED blobs /\ PcapFault
          /\ UNCHANGED segmentRows
    /\ UNCHANGED <<files, order, penVars, group, late, managerVars, live, tally>>

\* A mutant: whatever became of the commit, the object is deleted.
CommitFailsDeleting(r) ==
    /\ r.pc = "commit" /\ Decision(r) = "insert"
    /\ PcapFault
    /\ segmentRows' = Inserted(r) \/ UNCHANGED segmentRows
    /\ blobs' = blobs \ {r.upload}
    /\ Answered(r, "error")
    /\ UNCHANGED <<files, order, penVars, group, late, managerVars, live, tally>>

\* The commit fails, though the row may have been inserted: the object is deleted
\* unless the row names it, and stays when the connection is lost with the outcome.
CommitFails(r) ==
    /\ r.pc = "commit" /\ Decision(r) = "insert"
    /\ PcapFault
    /\ \/ segmentRows' = Inserted(r) /\ UNCHANGED blobs
       \/ UNCHANGED segmentRows /\ blobs' = blobs \ {r.upload}
       \/ UNCHANGED <<segmentRows, blobs>>
    /\ Answered(r, "error")
    /\ UNCHANGED <<files, order, penVars, group, late, managerVars, live, tally>>

\* Another sensor uploads a segment of the job: a number below zero names it.
PeerUpload(j) ==
    /\ tally.peers < NumPeers /\ tally.uploads < NumUploads
    /\ tally' = [tally EXCEPT !.peers = @ + 1, !.uploads = @ + 1]
    /\ puts' = puts \cup {Sent(-(tally.peers + 1), j, 1, tally.uploads + 1)}
    /\ UNCHANGED <<files, order, penVars, group, late, managerVars, storeState>> /\ NoTrouble

\* Nobody waits for the answer to an abandoned upload, or to another sensor's.
ForgetAnswer(r) ==
    /\ r.pc = "answered" /\ ~Awaited(r)
    /\ puts' = puts \ {r}
    /\ UNCHANGED <<files, order, penVars, group, late, managerVars, storeState, tally>> /\ NoTrouble

\* A controller stops: its requests end where they are.
CrashControllerPcap ==
    /\ puts # {} /\ Mischance
    /\ puts' = {}
    /\ IF archive = NoClaim THEN UNCHANGED <<files, archive>>
       ELSE files' = Marked(archive.segment, "pcap") /\ archive' = NoClaim
    /\ UNCHANGED <<order, penVars, group, late, blocked, storeState, tally>>

\* A job ends: its analysis completes or fails, or it is cancelled.
EndPcapJob(j) ==
    /\ j \in live
    /\ live' = live \ {j}
    /\ UNCHANGED <<files, order, penVars, group, late, managerVars, segmentRows, blobs, puts, tally>>
    /\ NoTrouble

WriterStep(w) == ReservePacket(w) \/ StorePacket(w) \/ CloseWriter(w)

ControllerStepPcap(r) ==
    CheckUpload(r) \/ PutBlob(r) \/ CommitUpload(r) \/ CommitFails(r) \/ ForgetAnswer(r)

ArchiveNext ==
    \/ \E w \in PcapWriters : EnqueuePacket(w) \/ WriterStep(w)
    \/ StopGroup \/ WritersDone \/ CrashSensorPcap \/ StartGroup
    \/ ClaimSegment \/ ReceiveAnswer \/ AbandonUpload \/ ArchiveDone
    \/ \E r \in puts : ControllerStepPcap(r)
    \/ CrashControllerPcap
    \/ \E j \in PcapJobs : PeerUpload(j) \/ EndPcapJob(j)

ArchiveSpec == ArchiveInit /\ [][ArchiveNext]_archiveVars

----------------------------------------------------------------------------
(* Properties.                                                             *)

SegmentStates == {"partial", "pcap", "uploading", "uploaded", "rejected", "corrupt"}

\* The type of every variable.
ArchiveTypeOK ==
    /\ files \in Seq([job : PcapJobs, suffix : SegmentStates, recs : -1 .. NumPackets])
    /\ order \in Seq(DOMAIN files)
    /\ pens \in [PcapWriters -> [queue : 0 .. PcapQueueSize, writing : BOOLEAN, rotates : BOOLEAN,
                                 open : {NoSegment} \cup DOMAIN files, closed : BOOLEAN]]
    /\ spent \in [PcapJobs -> 0 .. JobUnits]
    /\ group \in {"running", "stopping", "final", "down"} /\ late \in BOOLEAN
    /\ archive \in [segment : {NoSegment} \cup DOMAIN files, upload : 0 .. NumUploads]
    /\ blocked \subseteq PcapJobs /\ live \subseteq PcapJobs
    /\ DOMAIN segmentRows \subseteq -NumPeers .. Len(files)
    /\ blobs \subseteq 1 .. NumUploads
    /\ \A r \in puts : r.segment \in -NumPeers .. Len(files) /\ r.pc \in {"check", "put", "commit", "answered"}

\* A segment the sensor marks as uploaded, and may therefore evict, is stored in
\* the controller with all of its records, whatever answers were lost, requests
\* repeated, or processes restarted on the way.
UploadedIsStored ==
    \A s \in DOMAIN files : files[s].suffix = "uploaded" => Row(s) # NoRow /\ Row(s).recs = files[s].recs

\* Every packet a writer took is in its queue or hand, in a segment, counted as
\* dropped, or lost to a crash or a failed group: an orderly stop loses none.
EveryPacketAccounted ==
    /\ tally.taken = tally.dropped + tally.lost
          + MapThenSumSet(LAMBDA w : pens[w].queue + (IF pens[w].writing THEN 1 ELSE 0), PcapWriters)
          + MapThenSumSet(LAMBDA s : Max({0, files[s].recs}), DOMAIN files)
    /\ ~tally.failed => tally.lost = 0

\* makePCAPRoom frees the disk of segments that are done with, never of one that is
\* unfinished or waits for its upload.
OnlyFinalizedEvicted ==
    \A s \in DOMAIN files : s \notin ToSet(order) => Finalized(s)

\* The segments on disk stay within MaxDiskBytes, although two writers estimate
\* their next write before either holds the disk.
DiskWithinLimit == Used(ToSet(order)) <= DiskUnits

\* A row's object is in the store: the compensation of a losing or failed upload
\* never deletes the object of the one that won.
RowsHaveObjects == \A s \in DOMAIN segmentRows : segmentRows[s].object \in blobs

\* An object without a row belongs to a request still at work, unless a process
\* has stopped or a call has failed.
ObjectsHaveOwners ==
    pcapFaults = 0 /\ crashes = 0 =>
        \A b \in blobs : \/ \E s \in DOMAIN segmentRows : segmentRows[s].object = b
                         \/ \E r \in puts : r.upload = b

\* Concurrent uploads together keep the job's size limit.
RowsWithinJobLimit == \A j \in PcapJobs : StoredUnits(RowsOf(j)) <= JobUnits

\* A segment is rejected only when its job has ended, or a segment of the job does
\* not fit beside those stored; no transient failure costs a segment.
RejectedForCause ==
    \A s \in DOMAIN files :
        files[s].suffix = "rejected" =>
            \/ files[s].job \notin live
            \/ \E t \in DOMAIN files :
                   /\ files[t].job = files[s].job
                   /\ StoredUnits(RowsOf(files[s].job) \ {t}) + 1 + files[t].recs > JobUnits

\* A segment leaves the sensor's care only stored, for a cause, or done with, and every
\* packet that was taken is accounted for.
SegmentsAccounted ==
    ArchiveTypeOK /\ UploadedIsStored /\ EveryPacketAccounted /\ OnlyFinalizedEvicted /\ RejectedForCause

\* Rows and objects belong together, and neither the sensor's disk nor a job's share of
\* the store is overfilled.
StoreIsConsistent == RowsHaveObjects /\ ObjectsHaveOwners /\ RowsWithinJobLimit /\ DiskWithinLimit

\* The goroutines run; the upload manager's ticker fires; the service manager starts
\* the sensor again.
ArchiveFairness ==
    /\ \A w \in PcapWriters : WF_archiveVars(WriterStep(w))
    /\ WF_archiveVars(WritersDone) /\ WF_archiveVars(StartGroup) /\ WF_archiveVars(ArchiveDone)
    /\ WF_archiveVars(ClaimSegment) /\ WF_archiveVars(ReceiveAnswer)
    /\ WF_archiveVars(\E r \in puts : CheckUpload(r))
    /\ WF_archiveVars(\E r \in puts : PutBlob(r))
    /\ WF_archiveVars(\E r \in puts : CommitUpload(r))
=============================================================================
