------------------------- MODULE PostingIndexQueue --------------------------
(***************************************************************************)
(* The lifecycle of posting indexes as the in-memory and SQLite            *)
(* repositories keep it (pcap_posting_index_queue.py and the posting mixin *)
(* of repositories.py), each operation under the repository's lock.  An intent and a task belong to one        *)
(* structural generation of their source, the parent (0 when there is      *)
(* none); a new parent starts a new lifecycle.  The abstract specification *)
(* of the PostgreSQL lifecycle of PcapIndex.                               *)
(***************************************************************************)
EXTENDS Integers, FiniteSets

CONSTANTS Sources, Parents, Capacity, MaxTries, LeaseTicks

VARIABLES
    intent,  \* [parent, status] of each source
    ptask,   \* the task of each source
    drafts,  \* posting_index_staging: what the attempts of a source staged
    index    \* posting_index_owners: the <<parent, attempt>> published, or <<0, 0>>

postingVars == <<intent, ptask, drafts, index>>
lifecycle == <<intent, ptask>>
store == <<drafts, index>>

Unindexed == <<0, 0>>

NoIntent == [parent |-> 0, status |-> "none"]

NoPosting == [parent |-> 0, status |-> "none", attempt |-> 0, lease |-> 0, ready |-> FALSE]

ActivePostings == {s \in Sources : ptask[s].status \in {"QUEUED", "RUNNING"}}

eligible(s) == intent[s].status \in {"PENDING", "DEFERRED"}

owns_unexpired(s) == ptask[s].status = "RUNNING" /\ ptask[s].lease > 0

\* The task and its intent; the intent of another parent is left alone.
Settle(s, row, status) ==
    /\ ptask' = [ptask EXCEPT ![s] = row]
    /\ intent' = IF intent[s].parent = ptask[s].parent
                 THEN [intent EXCEPT ![s].status = status] ELSE intent

Init ==
    /\ intent = [s \in Sources |-> NoIntent]
    /\ ptask = [s \in Sources |-> NoPosting]
    /\ drafts = [s \in Sources |-> {}]
    /\ index = [s \in Sources |-> Unindexed]

\* request and request_backfill: a parent that has no intent yet.
request(s, parent) ==
    /\ intent[s].parent # parent /\ s \notin ActivePostings
    /\ intent' = [intent EXCEPT ![s] = [parent |-> parent, status |-> "PENDING"]]
    /\ ptask' = [ptask EXCEPT ![s] = NoPosting]
    /\ drafts' = [drafts EXCEPT ![s] = {d \in @ : d.parent = parent}]
    /\ index' = [index EXCEPT ![s] = IF @[1] = parent THEN @ ELSE Unindexed]

admit(s) ==
    /\ ptask[s] = NoPosting /\ eligible(s)
    /\ IF Cardinality(ActivePostings) >= Capacity
       THEN intent' = [intent EXCEPT ![s].status = "DEFERRED"] /\ UNCHANGED ptask
       ELSE /\ ptask' = [ptask EXCEPT ![s] = [NoPosting EXCEPT !.parent = intent[s].parent,
                                                              !.status = "QUEUED", !.ready = TRUE]]
            /\ intent' = [intent EXCEPT ![s].status = "PENDING"]
    /\ UNCHANGED store

claim(s) ==
    /\ ptask[s].status = "QUEUED" /\ ptask[s].ready
    /\ eligible(s) /\ intent[s].parent = ptask[s].parent
    /\ ptask' = [ptask EXCEPT ![s].status = "RUNNING", ![s].attempt = @ + 1, ![s].lease = LeaseTicks]
    /\ UNCHANGED <<intent, store>>

heartbeat(s) ==
    /\ owns_unexpired(s)
    /\ ptask' = [ptask EXCEPT ![s].lease = LeaseTicks] /\ UNCHANGED <<intent, store>>

fail(s, transient) ==
    LET retry == transient /\ ptask[s].attempt < MaxTries IN
    /\ owns_unexpired(s)
    /\ Settle(s, [ptask[s] EXCEPT !.status = IF retry THEN "QUEUED" ELSE "FAILED", !.lease = 0,
                                  !.ready = ~retry],
              IF retry THEN "PENDING" ELSE "FAILED")
    /\ UNCHANGED store

recover(s) ==
    LET retry == ptask[s].attempt < MaxTries IN
    /\ ptask[s].status = "RUNNING" /\ ptask[s].lease = 0
    /\ Settle(s, [ptask[s] EXCEPT !.status = IF retry THEN "QUEUED" ELSE "FAILED", !.ready = TRUE],
              IF retry THEN "PENDING" ELSE "FAILED")
    /\ UNCHANGED store

begin_posting_index(s) ==
    /\ owns_unexpired(s)
    /\ drafts' = [drafts EXCEPT ![s] = @ \cup {[parent |-> ptask[s].parent, attempt |-> ptask[s].attempt,
                                               expected |-> index[s]]}]
    /\ UNCHANGED <<lifecycle, index>>

\* The draft of the attempt that holds the lease.
Current(s) == {d \in drafts[s] : d.parent = ptask[s].parent /\ d.attempt = ptask[s].attempt}

publish_posting_index(s) ==
    /\ owns_unexpired(s) /\ intent[s].parent = ptask[s].parent
    /\ \E d \in Current(s) : d.expected = index[s]
    /\ drafts' = [drafts EXCEPT ![s] = @ \ Current(s)]
    /\ index' = [index EXCEPT ![s] = <<ptask[s].parent, ptask[s].attempt>>]
    /\ Settle(s, [ptask[s] EXCEPT !.status = "COMPLETED", !.lease = 0], "COMPLETED")

abort_posting_index(s) ==
    /\ owns_unexpired(s) /\ eligible(s) /\ intent[s].parent = ptask[s].parent
    /\ drafts' = [drafts EXCEPT ![s] = @ \ Current(s)]
    /\ UNCHANGED <<lifecycle, index>>

cleanup_stale_posting_indexes(s) ==
    /\ \E d \in drafts[s] :
           /\ ~(d \in Current(s) /\ owns_unexpired(s))
           /\ drafts' = [drafts EXCEPT ![s] = @ \ {d}]
    /\ UNCHANGED <<lifecycle, index>>

cleanup_terminal(s) ==
    /\ ptask[s].status \in {"COMPLETED", "FAILED"}
    /\ ptask' = [ptask EXCEPT ![s] = NoPosting] /\ UNCHANGED <<intent, store>>

reconcile == \E s \in Sources : admit(s)

\* The source, or its structural generation, is deleted.
delete_posting_indexes_for_source(s) ==
    /\ intent' = [intent EXCEPT ![s] = NoIntent]
    /\ ptask' = [ptask EXCEPT ![s] = NoPosting]
    /\ drafts' = [drafts EXCEPT ![s] = {}]
    /\ index' = [index EXCEPT ![s] = Unindexed]

Tick(s) ==
    /\ \/ ptask[s].status = "RUNNING" /\ ptask[s].lease > 0
          /\ ptask' = [ptask EXCEPT ![s].lease = @ - 1]
       \/ ptask[s].status = "QUEUED" /\ ~ptask[s].ready
          /\ ptask' = [ptask EXCEPT ![s].ready = TRUE]
    /\ UNCHANGED <<intent, store>>

Next ==
    \/ reconcile
    \/ \E s \in Sources :
           \/ claim(s) \/ heartbeat(s) \/ recover(s) \/ cleanup_terminal(s) \/ Tick(s)
           \/ begin_posting_index(s) \/ publish_posting_index(s) \/ abort_posting_index(s)
           \/ cleanup_stale_posting_indexes(s) \/ delete_posting_indexes_for_source(s)
           \/ \E parent \in Parents : request(s, parent)
           \/ \E transient \in BOOLEAN : fail(s, transient)

Spec == Init /\ [][Next]_postingVars
=============================================================================
