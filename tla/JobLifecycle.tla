---------------------------- MODULE JobLifecycle ----------------------------
(***************************************************************************)
(* What the controller promises about an uploaded job's status and phase:  *)
(* StateMachine.transitions, and the order of the processing phases within *)
(* INGESTING and ANALYZING.  Nothing is said of who takes a step or when.  *)
(***************************************************************************)
CONSTANT Jobs

VARIABLES status, phase

Finished == {"COMPLETED", "FAILED", "CANCELLED"}

Phases == {"UPLOAD_PENDING", "UPLOAD_STORED", "PARSING", "ENQUEUE_PENDING", "QUEUED",
           "CLAIMED", "RUNNING"}

Unfinished == {"CREATED", "INGESTING", "ANALYZING"}

At(j, s, phases) == status[j] = s /\ phase[j] \in phases

Becomes(j, s, p) ==
    /\ status' = [status EXCEPT ![j] = s]
    /\ phase' = [phase EXCEPT ![j] = p]

LifecycleInit ==
    /\ status = [j \in Jobs |-> "ABSENT"]
    /\ phase = [j \in Jobs |-> "NONE"]

\* The way forward, one disjunct for each phase.
Advance(j) ==
    \/ At(j, "ABSENT", {"NONE"}) /\ Becomes(j, "CREATED", "UPLOAD_PENDING")
    \/ At(j, "CREATED", {"UPLOAD_PENDING"}) /\ Becomes(j, "INGESTING", "UPLOAD_STORED")
    \/ At(j, "INGESTING", {"UPLOAD_STORED", "PARSING"}) /\ Becomes(j, "INGESTING", "PARSING")
    \/ At(j, "INGESTING", {"PARSING"}) /\ Becomes(j, "ANALYZING", "ENQUEUE_PENDING")
    \/ At(j, "ANALYZING", {"ENQUEUE_PENDING"}) /\ Becomes(j, "ANALYZING", "QUEUED")
    \/ At(j, "ANALYZING", {"ENQUEUE_PENDING", "QUEUED"}) /\ Becomes(j, "ANALYZING", "CLAIMED")
    \/ At(j, "ANALYZING", {"QUEUED", "CLAIMED"}) /\ Becomes(j, "ANALYZING", "RUNNING")

\* A job completes only from ANALYZING; a failure may leave any phase behind.
End(j) ==
    \/ status[j] = "ANALYZING" /\ Becomes(j, "COMPLETED", "COMPLETED")
    \/ status[j] \in Unfinished /\ status' = [status EXCEPT ![j] = "FAILED"]
       /\ \E p \in Phases \cup {"FAILED"} : phase' = [phase EXCEPT ![j] = p]
    \/ status[j] \in Unfinished /\ Becomes(j, "CANCELLED", "CANCELLED")

Delete(j) == status[j] \in Finished /\ Becomes(j, "DELETED", "NONE")

LifecycleNext == \E j \in Jobs : Advance(j) \/ End(j) \/ Delete(j)

LifecycleSpec == LifecycleInit /\ [][LifecycleNext]_<<status, phase>>
=============================================================================
