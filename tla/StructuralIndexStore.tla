------------------------ MODULE StructuralIndexStore ------------------------
(***************************************************************************)
(* The structural indexes of captures as the in-memory repository keeps    *)
(* them: staged builds and the published build of each source, every       *)
(* operation under the repository's lock.  It is the abstract              *)
(* specification of the generation tables of PcapIndex.                    *)
(***************************************************************************)
EXTENDS Integers

CONSTANTS Sources, Builds

VARIABLES
    held,    \* the source is stored: "none" | "stored" | "gone"
    staging, \* structural_index_staging: builds of a source
    current  \* structural_index_owners: the published build, 0 for none

storeVars == <<held, staging, current>>

Init ==
    /\ held = [s \in Sources |-> "none"]
    /\ staging = [s \in Sources |-> {}]
    /\ current = [s \in Sources |-> 0]

save_capture(s) ==
    /\ held[s] = "none"
    /\ held' = [held EXCEPT ![s] = "stored"] /\ UNCHANGED <<staging, current>>

begin_structural_index(s, n) ==
    /\ n \notin staging[s]
    /\ staging' = [staging EXCEPT ![s] = @ \cup {n}] /\ UNCHANGED <<held, current>>

\* Of an upload or of a live segment: only a staged build of a stored source, and
\* it replaces the one before.
publish_structural_index(s, n) ==
    /\ held[s] = "stored" /\ n \in staging[s]
    /\ staging' = [staging EXCEPT ![s] = @ \ {n}]
    /\ current' = [current EXCEPT ![s] = n] /\ UNCHANGED held

abort_structural_index(s, n) ==
    /\ staging' = [staging EXCEPT ![s] = @ \ {n}] /\ UNCHANGED <<held, current>>

\* delete_job through delete_structural_indexes_for_source.
delete_structural_indexes_for_source(s) ==
    /\ held[s] = "stored"
    /\ held' = [held EXCEPT ![s] = "gone"]
    /\ staging' = [staging EXCEPT ![s] = {}]
    /\ current' = [current EXCEPT ![s] = 0]

\* Whatever was staged long enough ago.
cleanup_stale_structural_indexes(s) ==
    /\ \E old \in SUBSET staging[s] : staging' = [staging EXCEPT ![s] = @ \ old]
    /\ UNCHANGED <<held, current>>

Next ==
    \E s \in Sources :
        \/ save_capture(s) \/ delete_structural_indexes_for_source(s) \/ cleanup_stale_structural_indexes(s)
        \/ \E n \in Builds :
               \/ begin_structural_index(s, n) \/ publish_structural_index(s, n)
               \/ abort_structural_index(s, n)

Spec == Init /\ [][Next]_storeVars
=============================================================================
