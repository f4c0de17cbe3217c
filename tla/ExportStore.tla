---------------------------- MODULE ExportStore ----------------------------
(***************************************************************************)
(* Filtered PCAP exports of one analysis job: the durable rows of          *)
(* pcap_export_jobs, the workers that claim them (PcapExportWorker), the   *)
(* requests that run a small export themselves, the hidden and published   *)
(* artefact metadata, the object store, and the cleanup outbox that ties   *)
(* an object to whoever must delete it.                                    *)
(*                                                                         *)
(* A transaction and an object-store call are atomic; everything between   *)
(* two of them interleaves.  A claim draws a fresh lease_token and adds    *)
(* one to attempt, so the attempt stands for the token; an attempt saves   *)
(* at most one object, so export and attempt stand for the object key.     *)
(***************************************************************************)
EXTENDS Naturals, FiniteSets

CONSTANTS
    Exports,        \* export identifiers
    Synchronous,    \* the exports that run inside their request
    Workers,        \* pcap-export-worker threads
    Deleter,        \* the request that deletes the analysis job
    MaxAttempts,    \* pcap_export_max_attempts
    Modes,          \* of a behaviour: live, whether the analysis job is a LIVE one, and
                    \* slow, whether an upload may outlast orphan_max_age_seconds
    SweepParses,    \* whether PostgreSQL accepts the orphan cleanup's query
    MaxGeneration,  \* bound: changes of the retained source
    MaxCrashes,     \* bound: crashes, and leases expired under a live holder
    MaxErrors,      \* bound: storage errors and lost replies
    None

Threads == Workers \cup Synchronous \cup {Deleter}

Attempts == 1 .. MaxAttempts

Keys == [export : Exports, attempt : Attempts]

\* The identifier of a cleanup row: _pcap_cleanup_id(scope, object_key).
Scopes == {"publication", "orphan", "retention", "job-delete"}

Intents == [scope : Scopes, key : Keys, state : {"UPLOADING", "STAGED", "READY", "DELETING"}]

Terminal == {"COMPLETED", "FAILED", "CANCELLED"}

Active == {"QUEUED", "RUNNING"}

\* A row of pcap_export_jobs.  key is the object_key of the artefact the row
\* accepted, generation its source_generation.
Rows == [status : {"ABSENT", "GONE"} \cup Active \cup Terminal, attempt : 0 .. MaxAttempts,
         lease : {"none", "live", "expired"}, cancel : BOOLEAN, key : Keys \cup {None},
         generation : 0 .. MaxGeneration]

\* Artefact metadata (controller_objects, kind 'export').
Documents == [key : Keys, published : BOOLEAN]

Steps == {"down", "retaining", "sweeping", "erasing", "idle", "claimed", "checked", "building",
          "saving", "uploading", "staging", "discarding", "staged", "verified", "publishing",
          "compensating", "cancelling", "failing", "retrying"}

\* A thread: the attempt it works on, whether its artefact holds a packet
\* (artifact status COMPLETED or FAILED), the step that follows the current
\* clean-up or failure step, and the objects it has still to erase.
ThreadStates == [pc : Steps, export : Exports \cup {None}, attempt : 0 .. MaxAttempts,
                 matched : BOOLEAN, then : Steps, pending : SUBSET (Scopes \X Keys)]

ASSUME ExportConstants ==
    /\ MaxAttempts \in Nat \ {0} /\ MaxGeneration \in Nat
    /\ MaxCrashes \in Nat /\ MaxErrors \in Nat
    /\ Modes \subseteq [live : BOOLEAN, slow : BOOLEAN] /\ SweepParses \in BOOLEAN
    /\ Synchronous \subseteq Exports
    /\ None \notin Exports /\ None \notin Keys /\ None \notin Documents
    /\ Workers \cap Exports = {} /\ Deleter \notin Workers \cup Exports

VARIABLES
    mode,       \* the mode of this behaviour
    parent,     \* whether the analysis job exists
    source,     \* generation of the retained source the exports read
    row,        \* pcap_export_jobs
    doc,        \* artefact metadata
    outbox,     \* cleanup rows (controller_objects, kind 'pcap_export_cleanup')
    blobs,      \* objects in the object store
    thr,        \* the threads
    crashes, errors

world == <<mode, parent, source>>
artifacts == <<doc, outbox, blobs>>
budget == <<crashes, errors>>
vars == <<mode, parent, source, row, doc, outbox, blobs, thr, crashes, errors>>

Resting(pc) == [pc |-> pc, export |-> None, attempt |-> 0, matched |-> FALSE,
                then |-> "idle", pending |-> {}]

NewRow == [status |-> "ABSENT", attempt |-> 0, lease |-> "none", cancel |-> FALSE,
           key |-> None, generation |-> 0]

Init ==
    /\ mode \in Modes
    /\ parent = "present"
    /\ source = 0
    /\ row = [e \in Exports |-> NewRow]
    /\ doc = [e \in Exports |-> None]
    /\ outbox = {}
    /\ blobs = {}
    /\ thr = [t \in Threads |-> Resting(IF t \in Workers THEN "down" ELSE "idle")]
    /\ crashes = 0
    /\ errors = 0

TypeOK ==
    /\ mode \in Modes
    /\ parent \in {"present", "deleted"}
    /\ source \in 0 .. MaxGeneration
    /\ row \in [Exports -> Rows]
    /\ doc \in [Exports -> Documents \cup {None}]
    /\ outbox \subseteq Intents
    /\ blobs \subseteq Keys
    /\ thr \in [Threads -> ThreadStates]
    /\ \A t \in Threads :
          thr[t].pc \in Steps \ {"down", "retaining", "sweeping", "erasing", "idle"} =>
             thr[t].export \in Exports /\ thr[t].attempt \in Attempts
    /\ crashes \in 0 .. MaxCrashes
    /\ errors \in 0 .. MaxErrors

Crashing == crashes < MaxCrashes /\ crashes' = crashes + 1 /\ UNCHANGED errors

Failing == errors < MaxErrors /\ errors' = errors + 1 /\ UNCHANGED crashes

Key(t) == [export |-> thr[t].export, attempt |-> thr[t].attempt]

Async(t) == t \in Workers

\* A thread goes to step pc, and from there to step then.
Goto(t, pc, then) == thr' = [thr EXCEPT ![t].pc = pc, ![t].then = then]

Rest(t) == thr' = [thr EXCEPT ![t] = Resting("idle")]

\* To the step that the current one announced.
GoOn(t) == IF thr[t].then = "idle" THEN Rest(t) ELSE Goto(t, thr[t].then, "idle")

\* An exception before there is an artefact: a worker retries or fails the
\* row, a request always fails it.
Raise(t, step) == Goto(t, IF Async(t) THEN step ELSE "failing", "idle")

\* An exception after that: a worker compensates and then settles the row, a
\* request does so in the other order.
RaiseStaged(t, step) ==
    IF Async(t) THEN Goto(t, "compensating", step) ELSE Goto(t, "failing", "compensating")

\* Mutant of Owns: any running attempt will do.
OwnsAnyAttempt(t) == row[thr[t].export].status = "RUNNING"

\* The row carries the attempt and token of the claim (_guarded_pcap_update).
Owns(t) ==
    /\ row[thr[t].export].status = "RUNNING"
    /\ row[thr[t].export].attempt = thr[t].attempt

\* validate_pcap_export_source: the snapshot of the job's source is unchanged.
SourceCurrent(e) == parent = "present" /\ row[e].generation = source

IntentsOf(k) == {i \in outbox : i.key = k}

Without(scope, k) == {i \in outbox : ~ (i.scope = scope /\ i.key = k)}

\* INSERT ... ON CONFLICT(kind,id) DO UPDATE
Upsert(scope, k, state) ==
    Without(scope, k) \cup {[scope |-> scope, key |-> k, state |-> state]}

\* The intent of an upload that failed is left to the orphan cleanup.
Readied(k) ==
    {IF i.scope = "publication" /\ i.key = k /\ i.state \in {"UPLOADING", "STAGED"}
     THEN [i EXCEPT !.state = "READY"] ELSE i : i \in outbox}
-----------------------------------------------------------------------------
(* The API *)

\* enqueue_pcap_export_job, for a request that is neither a replay nor over a
\* limit: the snapshot is validated again in the admission transaction.
Admit(e) ==
    /\ parent = "present"
    /\ row[e].status = "ABSENT"
    /\ IF e \in Synchronous
         THEN /\ row' = [row EXCEPT ![e] = [NewRow EXCEPT !.status = "RUNNING", !.attempt = 1,
                                            !.lease = "live", !.generation = source]]
              /\ thr' = [thr EXCEPT ![e] = [Resting("building") EXCEPT
                                            !.export = e, !.attempt = 1]]
         ELSE /\ row' = [row EXCEPT ![e] = [NewRow EXCEPT !.status = "QUEUED",
                                            !.generation = source]]
              /\ UNCHANGED thr
    /\ UNCHANGED <<world, artifacts, budget>>

\* cancel_pcap_export_job
Cancel(e) ==
    /\ row[e].status \in Active
    /\ ~ row[e].cancel
    /\ row' = [row EXCEPT ![e].cancel = TRUE,
                          ![e].status = IF row[e].status = "QUEUED" THEN "CANCELLED" ELSE @]
    /\ UNCHANGED <<world, artifacts, thr, budget>>

\* A row that is removed keeps nothing but its generation and its attempt.
RemovedRow(r) == [r EXCEPT !.status = "GONE", !.lease = "none", !.cancel = FALSE, !.key = None]

\* delete_job: refused while an export is active.  The objects it puts in the
\* outbox are the exports' only when the job is not a LIVE one.
DeleteParent ==
    LET hidden == IF mode.live THEN {} ELSE {doc[e].key : e \in {x \in Exports : doc[x] # None}} IN
    /\ parent = "present"
    /\ thr[Deleter].pc = "idle"
    /\ \A e \in Exports : row[e].status \notin Active
    /\ parent' = "deleted"
    /\ row' = [e \in Exports |->
                 IF row[e].status \in Terminal THEN RemovedRow(row[e]) ELSE row[e]]
    /\ doc' = [e \in Exports |-> None]
    /\ outbox' = {i \in outbox : ~ (i.scope = "job-delete" /\ i.key \in hidden)}
                 \cup [scope : {"job-delete"}, key : hidden, state : {"READY"}]
    /\ thr' = [thr EXCEPT ![Deleter].pc = IF hidden = {} THEN "idle" ELSE "erasing",
                          ![Deleter].pending = {"job-delete"} \X hidden]
    /\ UNCHANGED <<mode, source, blobs, budget>>

\* The retained source is replaced, or a segment is added or retired.
ChangeSource ==
    /\ parent = "present"
    /\ source < MaxGeneration
    /\ source' = source + 1
    /\ UNCHANGED <<mode, parent, row, artifacts, thr, budget>>
-----------------------------------------------------------------------------
(* Claim, lease, checkpoints *)

\* claim_pcap_export_job.  Which queued row is oldest and due is left open.
Claim(t, e) ==
    /\ Async(t)
    /\ thr[t].pc = "idle"
    /\ row[e].status = "QUEUED"
    /\ row' = [row EXCEPT ![e].status = "RUNNING", ![e].attempt = @ + 1, ![e].lease = "live"]
    /\ thr' = [thr EXCEPT ![t] = [Resting("claimed") EXCEPT
                                  !.export = e, !.attempt = row[e].attempt + 1]]
    /\ UNCHANGED <<world, artifacts, budget>>

Holders(e) == {t \in Threads : thr[t].export = e /\ Owns(t)}

\* A lease whose holder is gone expires; under a live holder it costs a fault.
Expire(e) ==
    /\ row[e].status = "RUNNING"
    /\ row[e].lease = "live"
    /\ row' = [row EXCEPT ![e].lease = "expired"]
    /\ IF Holders(e) = {} THEN UNCHANGED budget ELSE Crashing
    /\ UNCHANGED <<world, artifacts, thr>>

\* heartbeat_pcap_export_job does not look at the lease it renews.
Heartbeat(t) ==
    /\ Async(t)
    /\ thr[t].export # None
    /\ Owns(t)
    /\ row[thr[t].export].lease = "expired"
    /\ row' = [row EXCEPT ![thr[t].export].lease = "live"]
    /\ UNCHANGED <<world, artifacts, thr, budget>>

\* checkpoint(): a cancellation or a lost lease ends the attempt.
Interrupted(t) == row[thr[t].export].cancel \/ ~ Owns(t)

\* The first checkpoint of _run_once.
Checkpoint(t) ==
    /\ thr[t].pc = "claimed"
    /\ \/ Interrupted(t) /\ Raise(t, "cancelling") /\ UNCHANGED budget
       \/ ~ Interrupted(t) /\ Goto(t, "checked", "idle") /\ UNCHANGED budget
       \/ Failing /\ Raise(t, "retrying")
    /\ UNCHANGED <<world, row, artifacts>>

ValidateSource(t) ==
    /\ thr[t].pc = "checked"
    /\ \/ /\ Goto(t, IF SourceCurrent(thr[t].export) THEN "building" ELSE "failing", "idle")
          /\ UNCHANGED budget
       \/ Failing /\ Raise(t, "failing")
    /\ UNCHANGED <<world, row, artifacts>>

\* PcapExportExecutor.execute up to the save: it finds packets or none, it is
\* interrupted at a checkpoint (a request has none), it times out or meets a
\* storage error, or it fails for good.
Build(t) ==
    /\ thr[t].pc = "building"
    /\ \/ /\ Async(t) => ~ Interrupted(t)
          /\ \E m \in BOOLEAN :
                thr' = [thr EXCEPT ![t].pc = "saving", ![t].matched = m]
          /\ UNCHANGED budget
       \/ Async(t) /\ Interrupted(t) /\ Raise(t, "cancelling") /\ UNCHANGED budget
       \/ Failing /\ \E step \in {"retrying", "failing"} : Raise(t, step)
    /\ UNCHANGED <<world, row, artifacts>>
-----------------------------------------------------------------------------
(* save_export_stream: intent, upload, hidden metadata *)

\* First transaction.  A hidden artefact of an earlier attempt goes to the
\* outbox; a published one refuses the save.
SaveIntent(t) ==
    LET e == thr[t].export
        stale == IF doc[e] = None THEN outbox ELSE Upsert("publication", doc[e].key, "READY")
        refused == doc[e] # None /\ doc[e].published IN
    /\ thr[t].pc = "saving"
    /\ \/ refused /\ Raise(t, "failing") /\ UNCHANGED <<doc, outbox, budget>>
       \/ /\ ~ refused
          /\ doc' = [doc EXCEPT ![e] = None]
          /\ outbox' = {i \in stale : ~ (i.scope = "publication" /\ i.key = Key(t))}
                       \cup {[scope |-> "publication", key |-> Key(t), state |-> "UPLOADING"]}
          /\ \/ Goto(t, "uploading", "idle") /\ UNCHANGED budget
             \/ Failing /\ Raise(t, "retrying")
       \/ Failing /\ Raise(t, "retrying") /\ UNCHANGED <<doc, outbox>>
    /\ UNCHANGED <<world, row, blobs>>

\* put_stream.  A failed upload may leave the object behind.
Put(t) ==
    /\ thr[t].pc = "uploading"
    /\ \/ /\ blobs' = blobs \cup {Key(t)}
          /\ Goto(t, "staging", "idle")
          /\ UNCHANGED <<outbox, budget>>
       \/ /\ Failing
          /\ blobs' \in {blobs, blobs \cup {Key(t)}}
          /\ outbox' \in {outbox, Readied(Key(t))}
          /\ \E step \in {"retrying", "failing"} : Raise(t, step)
    /\ UNCHANGED <<world, row, doc>>

\* Second transaction: hidden metadata, and the intent becomes STAGED.
Stage(t) ==
    LET e == thr[t].export
        mine == [scope |-> "publication", key |-> Key(t), state |-> "UPLOADING"]
        staged == /\ doc' = [doc EXCEPT ![e] = [key |-> Key(t), published |-> FALSE]]
                  /\ outbox' = (outbox \ {mine}) \cup {[mine EXCEPT !.state = "STAGED"]}
        give_up(step) == Goto(t, "discarding", IF Async(t) THEN step ELSE "failing") IN
    /\ thr[t].pc = "staging"
    /\ \/ /\ parent = "present" /\ doc[e] = None /\ mine \in outbox
          /\ staged
          /\ \/ Goto(t, "staged", "idle") /\ UNCHANGED budget
             \/ Failing /\ give_up("retrying")
       \/ /\ parent = "deleted" \/ doc[e] # None
          /\ give_up("failing")
          /\ UNCHANGED <<doc, outbox, budget>>
       \/ /\ parent = "present" /\ doc[e] = None /\ mine \notin outbox
          /\ give_up("retrying")
          /\ UNCHANGED <<doc, outbox, budget>>
       \/ Failing /\ give_up("retrying") /\ UNCHANGED <<doc, outbox>>
    /\ UNCHANGED <<world, row, blobs>>

\* After a failed second transaction: ready the intent, delete the object,
\* acknowledge.  Every one of the three may fail.
Discard(t) ==
    /\ thr[t].pc = "discarding"
    /\ \/ /\ blobs' = blobs \ {Key(t)}
          /\ outbox' = Without("publication", Key(t))
          /\ UNCHANGED budget
       \/ /\ Failing
          /\ blobs' \in {blobs, blobs \ {Key(t)}}
          /\ outbox' \in {outbox, Readied(Key(t))}
    /\ GoOn(t)
    /\ UNCHANGED <<world, row, doc>>
-----------------------------------------------------------------------------
(* Publication *)

\* A worker validates the source again; a request completes at once.
Revalidate(t) ==
    /\ thr[t].pc = "staged"
    /\ \/ ~ Async(t) /\ Goto(t, "publishing", "idle") /\ UNCHANGED budget
       \/ /\ Async(t) /\ SourceCurrent(thr[t].export)
          /\ Goto(t, "verified", "idle") /\ UNCHANGED budget
       \/ /\ Async(t) /\ ~ SourceCurrent(thr[t].export)
          /\ RaiseStaged(t, "failing") /\ UNCHANGED budget
       \/ Async(t) /\ Failing /\ RaiseStaged(t, "failing")
    /\ UNCHANGED <<world, row, artifacts>>

\* checkpoint(phase="PUBLISH", percent=99)
LastCheckpoint(t) ==
    /\ thr[t].pc = "verified"
    /\ \/ Interrupted(t) /\ RaiseStaged(t, "cancelling") /\ UNCHANGED budget
       \/ ~ Interrupted(t) /\ Goto(t, "publishing", "idle") /\ UNCHANGED budget
       \/ Failing /\ RaiseStaged(t, "retrying")
    /\ UNCHANGED <<world, row, artifacts>>

Settled(r, status) == [r EXCEPT !.status = status, !.lease = "none"]

\* A worker that did not win compensates and takes the next job; a request
\* reports the failure to the row first.
NotWon(t) ==
    IF Async(t) THEN Goto(t, "compensating", "idle") ELSE RaiseStaged(t, "failing")

\* Mutant of Publishable: the source is trusted since its last validation.
PublishableUnvalidated(t) ==
    /\ doc[thr[t].export] = [key |-> Key(t), published |-> FALSE]
    /\ IntentsOf(Key(t)) = {[scope |-> "publication", key |-> Key(t), state |-> "STAGED"]}

\* The artefact may be published: parent and source as admitted, the hidden
\* metadata is this attempt's, and its own STAGED intent is the only one.
Publishable(t) ==
    /\ SourceCurrent(thr[t].export)
    /\ doc[thr[t].export] = [key |-> Key(t), published |-> FALSE]
    /\ IntentsOf(Key(t)) = {[scope |-> "publication", key |-> Key(t), state |-> "STAGED"]}

\* complete_pcap_export_job on a row the thread owns: what it commits, with
\* whether it accepts the artefact.
Commit(t, accepted) ==
    LET e == thr[t].export IN
    \/ /\ row[e].cancel /\ ~ accepted
       /\ row' = [row EXCEPT ![e] = Settled(@, "CANCELLED")]
       /\ UNCHANGED <<doc, outbox>>
    \/ /\ ~ row[e].cancel /\ thr[t].matched /\ Publishable(t) /\ accepted
       /\ row' = [row EXCEPT ![e] = [Settled(@, "COMPLETED") EXCEPT !.key = Key(t)]]
       /\ doc' = [doc EXCEPT ![e].published = TRUE]
       /\ outbox' = Without("publication", Key(t))
    \/ /\ ~ row[e].cancel /\ ~ thr[t].matched /\ accepted
       /\ row' = [row EXCEPT ![e] = [Settled(@, "FAILED") EXCEPT !.key = Key(t)]]
       /\ UNCHANGED <<doc, outbox>>

\* mutate() returns False, or the row is another attempt's: nothing changes.
Rejected(t) ==
    \/ ~ Owns(t)
    \/ ~ row[thr[t].export].cancel /\ thr[t].matched /\ ~ Publishable(t)

Complete(t) ==
    /\ thr[t].pc = "publishing"
    /\ \/ Owns(t) /\ Commit(t, TRUE) /\ Rest(t) /\ UNCHANGED budget
       \/ Owns(t) /\ Commit(t, FALSE) /\ NotWon(t) /\ UNCHANGED budget
       \/ Rejected(t) /\ NotWon(t) /\ UNCHANGED <<row, doc, outbox, budget>>
       \/ /\ Owns(t) /\ \E accepted \in BOOLEAN : Commit(t, accepted)
          /\ Failing /\ RaiseStaged(t, "retrying")
       \/ Failing /\ RaiseStaged(t, "retrying") /\ UNCHANGED <<row, doc, outbox>>
    /\ UNCHANGED <<world, blobs>>
-----------------------------------------------------------------------------
(* After an attempt: compensation, and the row *)

\* Mutant of Compensate: the row is not asked whether it accepted the object.
CompensateBlindly(t) ==
    LET e == thr[t].export
        k == Key(t) IN
    /\ thr[t].pc = "compensating"
    /\ doc' = IF doc[e] # None /\ doc[e].key = k THEN [doc EXCEPT ![e] = None] ELSE doc
    /\ outbox' = (outbox \ IntentsOf(k))
                 \cup {[scope |-> "publication", key |-> k, state |-> "READY"]}
    /\ thr' = [thr EXCEPT ![t].pc = "erasing", ![t].pending = {<<"publication", k>>}]
    /\ UNCHANGED <<world, row, blobs, budget>>

\* compensate_pcap_export_artifact.  The object of a row that accepted it is
\* kept, and intents left for it are dropped.
Compensate(t) ==
    LET e == thr[t].export
        k == Key(t)
        found == doc[e] # None /\ doc[e].key = k IN
    /\ thr[t].pc = "compensating"
    /\ \/ /\ row[e].key = k
          /\ outbox' = outbox \ IntentsOf(k)
          /\ GoOn(t) /\ UNCHANGED <<doc, budget>>
       \/ /\ row[e].key # k /\ ~ found /\ IntentsOf(k) = {}
          /\ GoOn(t) /\ UNCHANGED <<doc, outbox, budget>>
       \/ /\ row[e].key # k /\ (found \/ IntentsOf(k) # {})
          /\ doc' = IF found THEN [doc EXCEPT ![e] = None] ELSE doc
          /\ outbox' = (outbox \ IntentsOf(k))
                       \cup {[scope |-> "publication", key |-> k, state |-> "READY"]}
          /\ thr' = [thr EXCEPT ![t].pc = "erasing", ![t].pending = {<<"publication", k>>}]
          /\ UNCHANGED budget
       \/ Failing /\ GoOn(t) /\ UNCHANGED <<doc, outbox>>
    /\ UNCHANGED <<world, row, blobs>>

\* retry_pcap_export_job: cancelled, queued again, or failed.
Ended(r, limit, transient) ==
    IF r.cancel THEN Settled(r, "CANCELLED")
    ELSE IF transient /\ r.attempt < limit THEN Settled(r, "QUEUED")
    ELSE Settled(r, "FAILED")

Limit(e) == IF e \in Synchronous THEN 1 ELSE MaxAttempts

\* Mutant of RetryOrFail: a cancelled attempt leaves its row alone.
RetryUnlessCancelled(t) ==
    LET e == thr[t].export IN
    /\ thr[t].pc \in {"cancelling", "failing", "retrying"}
    /\ row' = IF Owns(t) /\ ~ row[e].cancel
                THEN [row EXCEPT ![e] = Ended(@, Limit(e), thr[t].pc = "retrying")]
                ELSE row
    /\ GoOn(t)
    /\ UNCHANGED <<world, artifacts, budget>>

\* A worker whose call fails dies with the exception (Crash); a request logs
\* it and goes on.
RetryOrFail(t) ==
    LET e == thr[t].export IN
    /\ thr[t].pc \in {"cancelling", "failing", "retrying"}
    /\ \/ /\ row' = IF Owns(t)
                      THEN [row EXCEPT ![e] = Ended(@, Limit(e), thr[t].pc = "retrying")]
                      ELSE row
          /\ UNCHANGED budget
       \/ ~ Async(t) /\ Failing /\ UNCHANGED row
    /\ GoOn(t)
    /\ UNCHANGED <<world, artifacts>>

\* Mutant of Erase: the cleanup row goes whether or not the object did.
EraseUnconfirmed(t) ==
    /\ thr[t].pc = "erasing"
    /\ \E p \in thr[t].pending :
          /\ outbox' = Without(p[1], p[2])
          /\ \/ blobs' = blobs \ {p[2]} /\ UNCHANGED budget
             \/ Failing /\ UNCHANGED blobs
          /\ IF thr[t].pending = {p}
               THEN GoOn(t)
               ELSE thr' = [thr EXCEPT ![t].pending = @ \ {p}]
    /\ UNCHANGED <<world, row, doc>>

\* blob_store.delete, then the acknowledgement, for one object of the list.
\* A failed delete keeps the cleanup row, and so does a failed acknowledgement.
Erase(t) ==
    /\ thr[t].pc = "erasing"
    /\ \E p \in thr[t].pending :
          /\ \/ /\ blobs' = blobs \ {p[2]}
                /\ outbox' = Without(p[1], p[2])
                /\ UNCHANGED budget
             \/ Failing /\ blobs' \in {blobs, blobs \ {p[2]}} /\ UNCHANGED outbox
          /\ IF thr[t].pending = {p}
               THEN GoOn(t)
               ELSE thr' = [thr EXCEPT ![t].pending = @ \ {p}]
    /\ UNCHANGED <<world, row, doc>>
-----------------------------------------------------------------------------
(* Start-up of a worker: recovery and maintenance, in this order and only   *)
(* then (PcapExportWorker.run)                                              *)

\* Mutant of Recovered: an expired lease is requeued, cancelled or not.
RecoveredUncancelled(r, limit) ==
    IF r.status = "RUNNING" /\ r.lease = "expired"
    THEN Settled(r, IF r.attempt < limit THEN "QUEUED" ELSE "FAILED") ELSE r

\* recover_pcap_export_jobs
Recovered(r, limit) ==
    IF r.status = "RUNNING" /\ r.lease = "expired" THEN Ended(r, limit, TRUE) ELSE r

Start(t) ==
    /\ Async(t)
    /\ thr[t].pc = "down"
    /\ row' = [e \in Exports |-> Recovered(row[e], Limit(e))]
    /\ Goto(t, "retaining", "idle")
    /\ UNCHANGED <<world, artifacts, budget>>

\* On to erasing these objects, and then to the next step.
EraseThen(t, objects, next) ==
    IF objects = {}
    THEN IF next = "idle" THEN Rest(t) ELSE Goto(t, next, "idle")
    ELSE thr' = [thr EXCEPT ![t].pc = "erasing", ![t].pending = objects, ![t].then = next]

\* retain_pcap_export_jobs: age, count and bytes select terminal rows; which
\* ones they reach is left open.  A row that accepted an artefact leaves its
\* object to the outbox; the metadata of every selected export goes.
Retain(t) ==
    /\ thr[t].pc = "retaining"
    /\ \/ \E old \in SUBSET {e \in Exports : row[e].status \in Terminal} :
             LET objects == {row[e].key : e \in old} \ {None} IN
             /\ row' = [e \in Exports |-> IF e \in old THEN RemovedRow(row[e]) ELSE row[e]]
             /\ doc' = [e \in Exports |-> IF e \in old THEN None ELSE doc[e]]
             /\ outbox' = {i \in outbox : ~ (i.scope = "retention" /\ i.key \in objects)}
                          \cup [scope : {"retention"}, key : objects, state : {"READY"}]
             /\ EraseThen(t, {"retention"} \X objects, "sweeping")
             /\ UNCHANGED budget
       \/ Failing /\ Goto(t, "sweeping", "idle") /\ UNCHANGED <<row, doc, outbox>>
    /\ UNCHANGED <<world, blobs>>

\* A RUNNING row still holds the attempt that writes this object.
Protected(k) == row[k.export].status = "RUNNING" /\ row[k.export].attempt = k.attempt

\* created_at is older than orphan_max_age_seconds.
Aged(k) ==
    mode.slow \/ \A t \in Threads : thr[t].pc \in {"uploading", "staging"} => Key(t) # k

Sweepable(i) ==
    /\ \/ i.state \in {"READY", "DELETING"}
       \/ i.state = "UPLOADING" /\ Aged(i.key) /\ ~ Protected(i.key)
    /\ \A e \in Exports : row[e].status = "COMPLETED" => row[e].key # i.key

\* Hidden metadata that no row refers to and no attempt will publish.
Orphaned(e) ==
    /\ doc[e] # None /\ ~ doc[e].published
    /\ \A x \in Exports : row[x].key # doc[e].key
    /\ ~ Protected(doc[e].key)

\* cleanup_pcap_export_orphans, with fewer rows than orphan_cleanup_batch_size.
\* Uploads and hidden metadata are taken when they are old enough.  A failure
\* is logged and changes nothing; it costs no error, so that a clean-up which
\* always fails is among the behaviours.
Sweep(t) ==
    /\ thr[t].pc = "sweeping"
    /\ \/ /\ SweepParses
          /\ \E due \in {s \in SUBSET {i \in outbox : Sweepable(i)} :
                          \A i \in outbox : Sweepable(i) /\ i.state # "UPLOADING" => i \in s},
                lost \in SUBSET {e \in Exports : Orphaned(e)} :
                LET objects == {doc[e].key : e \in lost} IN
                /\ outbox' = {IF i \in due THEN [i EXCEPT !.state = "DELETING"] ELSE i :
                                 i \in {j \in outbox :
                                          ~ (j.scope = "orphan" /\ j.key \in objects)}}
                             \cup [scope : {"orphan"}, key : objects, state : {"DELETING"}]
                /\ doc' = [e \in Exports |-> IF e \in lost THEN None ELSE doc[e]]
                /\ EraseThen(t, {<<i.scope, i.key>> : i \in due}
                                \cup ({"orphan"} \X objects), "idle")
          /\ UNCHANGED budget
       \/ Rest(t) /\ UNCHANGED <<doc, outbox, budget>>
    /\ UNCHANGED <<world, row, blobs>>

\* SIGTERM between two jobs.
Stop(t) ==
    /\ Async(t)
    /\ thr[t].pc = "idle"
    /\ thr' = [thr EXCEPT ![t] = Resting("down")]
    /\ UNCHANGED <<world, row, artifacts, budget>>

\* A process dies, or a worker thread ends with an exception.
Crash(t) ==
    /\ thr[t].pc \notin {"idle", "down"}
    /\ Crashing
    /\ thr' = [thr EXCEPT ![t] = Resting(IF Async(t) THEN "down" ELSE "idle")]
    /\ UNCHANGED <<world, row, artifacts>>
-----------------------------------------------------------------------------
Attempting(t) ==
    \/ Checkpoint(t) \/ ValidateSource(t) \/ Build(t) \/ SaveIntent(t) \/ Put(t) \/ Stage(t)
    \/ Discard(t) \/ Revalidate(t) \/ LastCheckpoint(t) \/ Complete(t) \/ Compensate(t)
    \/ RetryOrFail(t) \/ Erase(t)

Maintaining(t) == Start(t) \/ Retain(t) \/ Sweep(t)

Api == \/ \E e \in Exports : Admit(e) \/ Cancel(e)
       \/ DeleteParent
       \/ ChangeSource

Next ==
    \/ Api
    \/ \E t \in Threads : Attempting(t) \/ Maintaining(t) \/ Heartbeat(t) \/ Stop(t) \/ Crash(t)
    \/ \E t \in Workers, e \in Exports : Claim(t, e)
    \/ \E e \in Exports : Expire(e)

Spec == Init /\ [][Next]_vars
-----------------------------------------------------------------------------
\* A completed export can be downloaded: its metadata is public, names the
\* object the row accepted, and that object is there.  No stale attempt, no
\* compensation and no clean-up takes it away.
PublishedIntact ==
    \A e \in Exports : row[e].status = "COMPLETED" =>
       /\ doc[e] = [key |-> row[e].key, published |-> TRUE]
       /\ row[e].key \in blobs

\* A cancellation that was accepted is honoured: the export can only end
\* CANCELLED, also when its artefact is ready or its lease is recovered.
\* Once the analysis job is deleted, no export row and no metadata of it is
\* left or comes back, whatever workers were still doing.
CancelHonoured ==
    \A e \in Exports :
       /\ row[e].cancel => row[e].status \in {"RUNNING", "CANCELLED"}
       /\ parent = "deleted" => row[e].status \in {"ABSENT", "GONE"} /\ doc[e] = None

\* Every object in the store will be deleted by someone: it is named by a cleanup
\* row, or it is the object that an export's row accepted, which retention deletes.
\* A crash between two steps never leaves bytes that nobody knows of.  For uploads
\* shorter than orphan_max_age_seconds, and until the analysis job is deleted.
BlobsAccounted ==
    (parent = "present" /\ ~ mode.slow) =>
        \A k \in blobs : IntentsOf(k) # {} \/ row[k.export].key = k

\* Objects that metadata does not name are in the outbox in a state that the
\* orphan cleanup takes up.
BlobsReclaimable ==
    \A k \in blobs : \/ \E i \in IntentsOf(k) : i.state # "STAGED"
                     \/ \E e \in Exports : doc[e] # None /\ doc[e].key = k

\* An artefact is published only of the source the export was admitted for,
\* while the analysis job exists, and never after a cancellation.
PublishesCurrentSource ==
    [][\A e \in Exports :
          row'[e].status = "COMPLETED" /\ row[e].status # "COMPLETED" =>
             SourceCurrent(e) /\ ~ row[e].cancel]_vars

Lifecycle == INSTANCE ExportLifecycle WITH
    status <- [e \in Exports |-> row[e].status],
    attempt <- [e \in Exports |-> row[e].attempt],
    artifact <- [e \in Exports |->
                   IF doc[e] # None THEN IF doc[e].published THEN doc[e].key.attempt ELSE 0
                   ELSE 0]

\* The rows and the metadata implement the abstract export: bounded attempts,
\* final statuses, and one artefact, public exactly while COMPLETED.
ImplementsExportLifecycle == Lifecycle!LifecycleSpec

\* Threads run, leases run out, and a queued export is claimed at last: strong
\* fairness, for workers that are restarted, but not for ever before their
\* first poll.  Nothing has to restart a worker that is idle.
Fairness ==
    /\ \A t \in Threads : WF_vars(Attempting(t)) /\ WF_vars(Maintaining(t))
    /\ \A e \in Exports : SF_vars(\E t \in Workers : Claim(t, e)) /\ WF_vars(Expire(e))

FairSpec == Spec /\ Fairness

\* As FairSpec, in a deployment that keeps restarting its workers.
RestartingSpec == FairSpec /\ \A t \in Workers : WF_vars(Stop(t))

\* An object whose deletion was left to the outbox is deleted at last.
OutboxDrained ==
    \A k \in Keys : (\E i \in IntentsOf(k) : i.state = "READY")
                    ~> (\A i \in IntentsOf(k) : i.state # "READY")

\* A lease that has expired is recovered: the row does not stay RUNNING.
ExpiredLeasesRecovered ==
    \A e \in Exports : row[e].status = "RUNNING" /\ row[e].lease = "expired"
                      ~> row[e].status # "RUNNING" \/ row[e].lease # "expired"
=============================================================================
