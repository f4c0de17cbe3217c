-------------------------- MODULE BaselineCatalog ---------------------------
(***************************************************************************)
(* The historical-baseline scopes as the in-memory repository keeps them,  *)
(* every operation under its lock: creation, the approval of an analysed   *)
(* source (which publishes a new generation of the reference), and the     *)
(* control operations.  It is the abstract specification of BaselineScopes.*)
(*                                                                         *)
(* A source is <<root, copy>>: the capture it descends from, numbered by   *)
(* event time, and which analysis of that capture it is.  A generation is  *)
(* named by its publication_revision, which is unique in its scope, and is *)
(* the roots it was built from: sources are sorted by event time and their *)
(* roots differ.  The digest of a request is the request; windows,         *)
(* profiles and statistics are left out.                                   *)
(***************************************************************************)
EXTENDS Integers, FiniteSetsExt

CONSTANTS
    ScopeIds,
    Creators,      \* a configuration and who asks for it
    Sources,       \* see above
    PartialSources, \* PARTIALLY_COMPLETED jobs
    PoorSources,   \* known partial, clock uncertain or without eligible profile
    MaxScopes,     \* 16
    MaxOperations, \* 64 retained per scope
    MaxReceipts,   \* 16 source receipts of a generation
    EventHorizon,  \* timedelta(days=30)
    MaxRequests,   \* bound: different requests sent
    MaxEdits       \* bound: edits and deletions of sources

ASSUME BaselineConstants ==
    /\ {MaxScopes, MaxOperations, MaxReceipts, EventHorizon, MaxRequests} \subseteq Nat \ {0}
    /\ MaxEdits \in Nat /\ PartialSources \cup PoorSources \subseteq Sources
    /\ \A j \in Sources : j[1] \in Nat \ {0}

VARIABLES
    scopes,      \* baseline_scopes
    generations, \* baseline_generations of a scope: [rev, roots]
    operations,  \* baseline_operations of a scope: [rev, request]
    sources,     \* the source's job rows: [state, edit]
    requests     \* what clients have asked for

catalogVars == <<scopes, generations, operations, sources, requests>>

Unclaimed == "none"
NoScope == [creator |-> Unclaimed, rev |-> 0, frozen |-> FALSE, state |-> "EMPTY", accepted |-> 0,
            active |-> 0, previous |-> 0]

Exists(s) == scopes[s].creator # Unclaimed

Document(s, rev) == CHOOSE g \in generations[s] : g.rev = rev

Pointers(view) == {view.active, view.previous} \ {0}

CatalogInit ==
    /\ scopes = [s \in ScopeIds |-> NoScope]
    /\ generations = [s \in ScopeIds |-> {}]
    /\ operations = [s \in ScopeIds |-> {}]
    /\ sources = [j \in Sources |->
           [state |-> IF j \in PartialSources THEN "PARTIALLY_COMPLETED" ELSE "COMPLETED", edit |-> 0]]
    /\ requests = {}

\* A client composes a request from the scope and, by a preview, the source as they are now.
Controls(s) ==
    {[action |-> a, target |-> 0] : a \in {"FREEZE", "UNFREEZE", "REVOKE", "RETIRE"}}
        \cup {[action |-> "ROLLBACK", target |-> g] : g \in Pointers(scopes[s])}

Approvals ==
    {[action |-> "APPROVE", source |-> j, binding |-> sources[j].edit] :
        j \in {i \in Sources : sources[i].state # "GONE"}}

Ask(s, key, what) ==
    /\ Exists(s) /\ Cardinality(requests) < MaxRequests /\ key <= Cardinality(requests) + 1
    /\ what \in Controls(s) \cup Approvals
    /\ requests' = requests \cup {[scope |-> s, key |-> key, rev |-> scopes[s].rev, what |-> what]}
    /\ UNCHANGED <<scopes, generations, operations, sources>>

Edits == MapThenSumSet(LAMBDA j : sources[j].edit, Sources)

\* save_job changes what the binding digests; delete_job removes the row.
ChangeSource(j, state) ==
    /\ Edits < MaxEdits /\ sources[j].state # "GONE" /\ state \in {sources[j].state, "GONE"}
    /\ sources' = [sources EXCEPT ![j] = [state |-> state, edit |-> @.edit + 1]]
    /\ UNCHANGED <<scopes, generations, operations, requests>>

memory_create(s, creator) ==
    /\ ~Exists(s) /\ Cardinality({t \in ScopeIds : Exists(t)}) < MaxScopes
    /\ scopes' = [scopes EXCEPT ![s] = [NoScope EXCEPT !.creator = creator]]
    /\ UNCHANGED <<generations, operations, sources, requests>>

\* The newest MaxOperations of them.
RetainOperation(s, r) ==
    LET rows == operations[s] \cup {[rev |-> scopes[s].rev + 1, request |-> r]}
    IN  {o \in rows : Cardinality({p \in rows : p.rev > o.rev}) < MaxOperations}

\* The receipt that carries the request's key, if it is still retained.
Retained(r) == {o \in operations[r.scope] : o.request.key = r.key}

Replays(r) == \E o \in Retained(r) : o.request = r
KeyTaken(r) == \E o \in Retained(r) : o.request # r

\* produce_generation's receipts: those of the generation before that are recent
\* enough, the last ones if they are many, and the new one.
Receipts(view, s, root) ==
    LET before == IF view.active = 0 THEN {} ELSE Document(s, view.active).roots
        recent == {e \in before : root - e <= EventHorizon}
    IN  {e \in recent : Cardinality({f \in recent : f > e}) < MaxReceipts - 1} \cup {root}

\* _stage_publication and produce_generation, with the source as the transaction reads it.
ApprovalError(r, source) ==
    LET view == scopes[r.scope] root == r.what.source[1]
    IN  CASE view.rev # r.rev -> "REVISION_CONFLICT"
          [] view.rev = r.rev /\ view.frozen -> "FROZEN"
          [] view.rev = r.rev /\ ~view.frozen /\ source.edit # r.what.binding -> "SOURCE_CHANGED"
          [] OTHER ->
               IF r.what.source \in PoorSources THEN "SOURCE_QUALITY"
               ELSE IF view.active # 0 /\ root \in Document(r.scope, view.active).roots
               THEN "SOURCE_DUPLICATE"
               ELSE IF root <= view.accepted THEN "EVENT_ORDER" ELSE "OK"

Publish(r) ==
    LET s == r.scope view == scopes[s] root == r.what.source[1]
        doc == [rev |-> view.rev + 1, roots |-> Receipts(view, s, root)]
    IN  /\ scopes' = [scopes EXCEPT ![s] = [view EXCEPT !.rev = @ + 1, !.state = "HAS_REFERENCE",
                         !.accepted = root, !.active = doc.rev, !.previous = view.active]]
        /\ generations' = [generations EXCEPT ![s] = {g \in @ : g.rev # view.previous} \cup {doc}]
        /\ operations' = [operations EXCEPT ![s] = RetainOperation(s, r)]

memory_publish(r) ==
    /\ r.what.action = "APPROVE" /\ Retained(r) = {}
    /\ sources[r.what.source].state = "COMPLETED"
    /\ ApprovalError(r, sources[r.what.source]) = "OK"
    /\ Publish(r) /\ UNCHANGED <<sources, requests>>

\* _stage_control.
ControlError(r) ==
    LET view == scopes[r.scope]
    IN  CASE view.rev # r.rev -> "REVISION_CONFLICT"
          [] view.rev = r.rev /\ r.what.action = "ROLLBACK" /\ view.previous = 0 -> "ROLLBACK_UNAVAILABLE"
          [] view.rev = r.rev /\ r.what.action = "ROLLBACK" /\ view.previous \notin {0, r.what.target} ->
                 "GENERATION_MISMATCH"
          [] OTHER -> "OK"

Controlled(view, what) ==
    LET ends == what.action \in {"REVOKE", "RETIRE"}
    IN  [view EXCEPT !.rev = @ + 1, !.frozen = what.action # "UNFREEZE",
           !.state = CASE what.action = "REVOKE" -> "REVOKED" [] what.action = "RETIRE" -> "RETIRED" [] OTHER -> @,
           !.active = IF ends THEN 0 ELSE IF what.action = "ROLLBACK" THEN view.previous ELSE @,
           !.previous = IF ends \/ what.action = "ROLLBACK" THEN 0 ELSE @]

\* A wrong version: a rollback also takes the accepted event end back.
ControlRewinding(r) ==
    LET s == r.scope after == Controlled(scopes[s], r.what)
    IN  /\ scopes' = [scopes EXCEPT ![s] = IF r.what.action = "ROLLBACK"
                        THEN [after EXCEPT !.accepted = Max(Document(s, after.active).roots)] ELSE after]
        /\ generations' = [generations EXCEPT ![s] = {g \in @ : g.rev \in Pointers(after)}]
        /\ operations' = [operations EXCEPT ![s] = RetainOperation(s, r)]

Control(r) ==
    LET s == r.scope after == Controlled(scopes[s], r.what)
    IN  /\ scopes' = [scopes EXCEPT ![s] = after]
        /\ generations' = [generations EXCEPT ![s] = {g \in @ : g.rev \in Pointers(after)}]
        /\ operations' = [operations EXCEPT ![s] = RetainOperation(s, r)]

memory_control(r) ==
    /\ r.what.action # "APPROVE" /\ Retained(r) = {} /\ ControlError(r) = "OK"
    /\ Control(r) /\ UNCHANGED <<sources, requests>>

CatalogNext ==
    \/ \E s \in ScopeIds : \/ \E creator \in Creators : memory_create(s, creator)
                           \/ \E key \in 1 .. MaxRequests, what \in Controls(s) \cup Approvals : Ask(s, key, what)
    \/ \E j \in Sources, state \in {"COMPLETED", "PARTIALLY_COMPLETED", "GONE"} : ChangeSource(j, state)
    \/ \E r \in requests : memory_publish(r) \/ memory_control(r)

\* The catalogue changes only by whole operations, one after the other: what the
\* transactions of several controllers on PostgreSQL amount to.
CatalogSpec == CatalogInit /\ [][CatalogNext]_catalogVars
=============================================================================
