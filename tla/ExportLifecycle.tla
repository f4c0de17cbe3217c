-------------------------- MODULE ExportLifecycle --------------------------
(***************************************************************************)
(* What the controller promises about a filtered PCAP export: its status   *)
(* moves QUEUED -> RUNNING -> COMPLETED | FAILED | CANCELLED, with RUNNING *)
(* -> QUEUED for a bounded number of attempts; it has a public artefact    *)
(* exactly while it is COMPLETED, that artefact is the one of the attempt  *)
(* that held the lease, and it is never replaced.                          *)
(***************************************************************************)
EXTENDS Naturals

CONSTANTS Exports, MaxAttempts

\* artifact: the attempt whose bytes a download serves; 0: none.
VARIABLES status, attempt, artifact

Ends == {"COMPLETED", "FAILED", "CANCELLED"}

LifecycleInit ==
    /\ status = [e \in Exports |-> "ABSENT"]
    /\ attempt = [e \in Exports |-> 0]
    /\ artifact = [e \in Exports |-> 0]

\* A new export is queued, or starts its only attempt inside the request.
Admitted(e) ==
    /\ status[e] = "ABSENT"
    /\ \/ status' = [status EXCEPT ![e] = "QUEUED"] /\ UNCHANGED attempt
       \/ /\ status' = [status EXCEPT ![e] = "RUNNING"]
          /\ attempt' = [attempt EXCEPT ![e] = 1]
    /\ UNCHANGED artifact

Attempted(e) ==
    /\ status[e] = "QUEUED" /\ attempt[e] < MaxAttempts
    /\ status' = [status EXCEPT ![e] = "RUNNING"]
    /\ attempt' = [attempt EXCEPT ![e] = attempt[e] + 1]
    /\ UNCHANGED artifact

Published(e) ==
    /\ status[e] = "RUNNING"
    /\ status' = [status EXCEPT ![e] = "COMPLETED"]
    /\ artifact' = [artifact EXCEPT ![e] = attempt[e]]
    /\ UNCHANGED attempt

\* Lease recovery ends or requeues several exports in one transaction.
Abandoned(es) ==
    /\ \A e \in es : status[e] \in {"QUEUED", "RUNNING"}
    /\ \E s \in [es -> {"QUEUED", "FAILED", "CANCELLED"}] :
          /\ \A e \in es : s[e] = "QUEUED" => status[e] = "RUNNING" /\ attempt[e] < MaxAttempts
          /\ \A e \in es : s[e] = "FAILED" => status[e] = "RUNNING"
          /\ status' = [e \in Exports |-> IF e \in es THEN s[e] ELSE status[e]]
    /\ UNCHANGED <<attempt, artifact>>

\* Retention and the deletion of the analysis job remove several at once.
Removed(es) ==
    /\ \A e \in es : status[e] \in Ends
    /\ status' = [e \in Exports |-> IF e \in es THEN "GONE" ELSE status[e]]
    /\ artifact' = [e \in Exports |-> IF e \in es THEN 0 ELSE artifact[e]]
    /\ UNCHANGED attempt

LifecycleNext ==
    \/ \E e \in Exports : Admitted(e) \/ Attempted(e) \/ Published(e)
    \/ \E es \in SUBSET Exports : Abandoned(es) \/ Removed(es)

LifecycleSpec == LifecycleInit /\ [][LifecycleNext]_<<status, attempt, artifact>>
=============================================================================
