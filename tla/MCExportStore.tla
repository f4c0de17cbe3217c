--------------------------- MODULE MCExportStore ---------------------------
(* Instances of ExportStore for TLC. *)
EXTENDS ExportStore, TLC

\* A live job with slow uploads, and an uploaded one with quick ones.
LiveSlow == {[live |-> TRUE, slow |-> TRUE]}
StoredQuick == {[live |-> FALSE, slow |-> FALSE]}
EitherMode == LiveSlow \cup StoredQuick

\* Worker threads are interchangeable.
WorkerSymmetry == Permutations(Workers)

\* Of a live job one queued export that all workers meet; of a stored job a
\* synchronous one as well, one worker at a time, one crash and a source that stays.
BothScenes ==
    IF mode.live
    THEN \A e \in Synchronous : row[e].status = "ABSENT"
    ELSE /\ Cardinality({t \in Workers : thr[t].pc # "down"}) <= 1
         /\ crashes <= 1 /\ source = 0
=============================================================================
