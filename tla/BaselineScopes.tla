--------------------------- MODULE BaselineScopes ---------------------------
(***************************************************************************)
(* The historical-baseline scopes in PostgreSQL, worked on by several      *)
(* controllers.  A controller serves one call at a time (the repository's  *)
(* lock) in the transactions of sql_create, sql_publish and sql_control: a *)
(* read for a retained receipt, the writing transaction, and either the    *)
(* read-back of what was committed or, after a refusal, one more read for  *)
(* a receipt.  The writing transaction of an approval reads the source's   *)
(* rows, locks them, and compares; the scope's row stays locked from its   *)
(* first use to the commit, so that part is one step.                      *)
(***************************************************************************)
EXTENDS BaselineCatalog, Sequences

CONSTANTS
    Controllers,
    MaxLosses \* bound: lost commits and crashes

VARIABLES
    calls,   \* the call a controller serves
    broken,  \* _PublicationConnection.failed
    losses,
    effects  \* history: the requests that changed a scope, in order

scopeVars == <<scopes, generations, operations, sources, requests, calls, broken, losses, effects>>

NoCall == [pc |-> "idle"]
Calls(pc) == {c \in Controllers : calls[c].pc = pc}
At(c, pc) == calls[c].pc = pc

Goto(c, pc) == calls' = [calls EXCEPT ![c].pc = pc]
Reply(c, result) == calls' = [calls EXCEPT ![c] = [pc |-> "reply", request |-> @.request, result |-> result]]

\* The rows of a source are locked from the comparison to the end of the transaction.
Locked(j) == \E c \in Calls("publish") : calls[c].request.what.source = j

ScopesInit ==
    /\ CatalogInit
    /\ calls = [c \in Controllers |-> NoCall]
    /\ broken = {} /\ losses = 0 /\ effects = <<>>

\* sql_create is one transaction below the catalogue's row lock.
sql_create(c, s, creator) ==
    /\ At(c, "idle") /\ memory_create(s, creator)
    /\ UNCHANGED <<calls, broken, losses, effects>>

\* A request reaches a controller, for the first time or again.
Serve(c, r) == calls' = [calls EXCEPT ![c] = [pc |-> "replay", request |-> r]]

SendNew(c, s, key, what) ==
    /\ At(c, "idle") /\ Ask(s, key, what)
    /\ \E r \in requests' \ requests : Serve(c, r)
    /\ UNCHANGED <<broken, losses, effects>>

SendAgain(c, r) ==
    /\ At(c, "idle") /\ Serve(c, r)
    /\ UNCHANGED <<catalogVars, broken, losses, effects>>

\* The first transaction of sql_publish and sql_control.
Replay(c) ==
    LET r == calls[c].request
    IN  /\ At(c, "replay")
        /\ CASE c \in broken -> Reply(c, "unavailable")
             [] c \notin broken /\ Replays(r) -> Reply(c, "ok")
             [] c \notin broken /\ KeyTaken(r) -> Reply(c, "refused")
             [] OTHER -> Goto(c, IF r.what.action = "APPROVE" THEN "discover" ELSE "control")
        /\ UNCHANGED <<catalogVars, broken, losses, effects>>

\* The lease of the controller's admission is taken by another thread, or a row
\* stays locked for longer than lock_timeout.
Busy(c) ==
    /\ At(c, "discover") \/ (At(c, "lock") /\ Locked(calls[c].request.what.source))
    /\ Reply(c, "busy") /\ UNCHANGED <<catalogVars, broken, losses, effects>>

\* _chain of _postgres_acquire, before any lock.
Discover(c) ==
    LET source == sources[calls[c].request.what.source]
    IN  /\ At(c, "discover")
        /\ IF source.state = "GONE" THEN Goto(c, "recover")
           ELSE calls' = [calls EXCEPT ![c] = [pc |-> "lock", request |-> @.request, seen |-> source]]
        /\ UNCHANGED <<catalogVars, broken, losses, effects>>

\* A wrong version: what was read before the lock is used after it.
LockSourceTrusting(c) ==
    LET r == calls[c].request
    IN  /\ At(c, "lock") /\ ~Locked(r.what.source)
        /\ IF calls[c].seen.state # "COMPLETED" THEN Reply(c, "refused") ELSE Goto(c, "publish")
        /\ UNCHANGED <<catalogVars, broken, losses, effects>>

\* The rest of _postgres_acquire: lock the rows, read them again, compare.
LockSource(c) ==
    LET r == calls[c].request source == sources[r.what.source]
    IN  /\ At(c, "lock") /\ ~Locked(r.what.source)
        /\ IF source # calls[c].seen THEN Goto(c, "recover")
           ELSE IF source.state # "COMPLETED" THEN Reply(c, "refused")
           ELSE Goto(c, "publish")
        /\ UNCHANGED <<catalogVars, broken, losses, effects>>

\* The end of a writing transaction: committed and known to be, committed or not
\* but the connection failed (and is discarded), or refused by the database.
Commit(c, Write, next) ==
    \/ /\ Write /\ effects' = Append(effects, calls[c].request)
       /\ \/ Goto(c, next) /\ UNCHANGED <<broken, losses>>
          \/ /\ losses < MaxLosses /\ losses' = losses + 1
             /\ Reply(c, "unavailable") /\ broken' = broken \cup {c}
    \/ /\ losses < MaxLosses /\ losses' = losses + 1
       /\ UNCHANGED <<scopes, generations, operations, effects>>
       /\ Reply(c, "unavailable") /\ broken' \in {broken, broken \cup {c}}

Refuse(c, next) ==
    /\ IF next = "reply" THEN Reply(c, "refused") ELSE Goto(c, next)
    /\ UNCHANGED <<scopes, generations, operations, broken, losses, effects>>

\* The scope's row locked: a receipt, or the staged publication.
PublishStep(c) ==
    LET r == calls[c].request error == ApprovalError(r, calls[c].seen)
    IN  /\ At(c, "publish") /\ UNCHANGED <<sources, requests>>
        /\ IF Replays(r)
           THEN Reply(c, "ok") /\ UNCHANGED <<scopes, generations, operations, broken, losses, effects>>
           ELSE IF KeyTaken(r) THEN Refuse(c, "reply")
           ELSE IF error = "OK" THEN Commit(c, Publish(r), "readback")
           ELSE Refuse(c, IF error \in {"SOURCE_CHANGED", "REVISION_CONFLICT", "FROZEN"} THEN "recover" ELSE "reply")

ControlStep(c) ==
    LET r == calls[c].request
    IN  /\ At(c, "control") /\ UNCHANGED <<sources, requests>>
        /\ IF Replays(r)
           THEN Reply(c, "ok") /\ UNCHANGED <<scopes, generations, operations, broken, losses, effects>>
           ELSE IF KeyTaken(r) \/ ControlError(r) # "OK" THEN Refuse(c, "reply")
           ELSE Commit(c, Control(r), "readback")

\* A wrong version: the refusal stands.
RecoverRefusing(c) ==
    /\ At(c, "recover") /\ Reply(c, "refused")
    /\ UNCHANGED <<catalogVars, broken, losses, effects>>

\* After a refusal that a copy of the request may have caused.
Recover(c) ==
    /\ At(c, "recover")
    /\ Reply(c, IF Replays(calls[c].request) THEN "ok" ELSE "refused")
    /\ UNCHANGED <<catalogVars, broken, losses, effects>>

\* What was committed is read once more: the receipt and, of an approval, the
\* generation must still be retained.
ReadBack(c) ==
    LET r == calls[c].request
    IN  /\ At(c, "readback")
        /\ Reply(c, IF Replays(r) /\ (r.what.action = "APPROVE" => r.rev + 1 \in Pointers(scopes[r.scope]))
                    THEN "ok" ELSE "unavailable")
        /\ UNCHANGED <<catalogVars, broken, losses, effects>>

Return(c) ==
    /\ At(c, "reply")
    /\ calls' = [calls EXCEPT ![c] = NoCall]
    /\ UNCHANGED <<catalogVars, broken, losses, effects>>

\* The process is started again, with a new connection; its transaction is rolled back.
RestartController(c) ==
    /\ IF At(c, "idle") THEN c \in broken ELSE ~At(c, "reply") /\ losses < MaxLosses
    /\ losses' = IF At(c, "idle") THEN losses ELSE losses + 1
    /\ calls' = [calls EXCEPT ![c] = NoCall] /\ broken' = broken \ {c}
    /\ UNCHANGED <<catalogVars, effects>>

ScopesNext ==
    \/ \E j \in Sources, state \in {"COMPLETED", "PARTIALLY_COMPLETED", "GONE"} :
           ~Locked(j) /\ ChangeSource(j, state) /\ UNCHANGED <<calls, broken, losses, effects>>
    \/ \E c \in Controllers :
           \/ \E s \in ScopeIds :
                  \/ \E creator \in Creators : sql_create(c, s, creator)
                  \/ \E key \in 1 .. MaxRequests, what \in Controls(s) \cup Approvals : SendNew(c, s, key, what)
           \/ \E r \in requests : SendAgain(c, r)
           \/ Replay(c) \/ Busy(c) \/ Discover(c) \/ LockSource(c) \/ PublishStep(c) \/ ControlStep(c)
           \/ Recover(c) \/ ReadBack(c) \/ Return(c) \/ RestartController(c)

ScopesSpec == ScopesInit /\ [][ScopesNext]_scopeVars
-----------------------------------------------------------------------------
\* What a generation's document must satisfy to be loaded (GenerationDocument).
ValidDocument(g) ==
    /\ g.roots # {} /\ Cardinality(g.roots) <= MaxReceipts /\ Cardinality(g.roots) <= g.rev
    /\ \A e, f \in g.roots : f - e <= EventHorizon

\* The documents a scope's row points to are the ones that are kept, the previous
\* one published before the active one, each of them valid and no newer than the
\* accepted event end: what _SQL.get demands before it returns a scope at all
\* (lines 439-531).
ScopesReadable ==
    \A s \in ScopeIds :
        LET view == scopes[s]
        IN  /\ {g.rev : g \in generations[s]} = Pointers(view)
            /\ view.previous # 0 => view.previous < view.active
            /\ (view.state = "HAS_REFERENCE") = (view.active # 0)
            /\ \A g \in generations[s] :
                  g.rev <= view.rev /\ ValidDocument(g) /\ \A e \in g.roots : e <= view.accepted
            /\ Cardinality(operations[s]) <= MaxOperations

\* No capture is approved twice for a scope, under whatever analysis of it and
\* whatever was rolled back, revoked or retired since.
ApprovedOnce ==
    \A i, k \in DOMAIN effects :
        /\ i # k /\ effects[i].what.action = "APPROVE" /\ effects[k].what.action = "APPROVE"
        /\ effects[i].scope = effects[k].scope
        => effects[i].what.source[1] # effects[k].what.source[1]

\* A request changes its scope at most once, however often and through whichever
\* controller it is sent, also when its receipt is no longer retained.
AppliedOnce == \A i, k \in DOMAIN effects : i # k => effects[i] # effects[k]

\* A scope stays readable, and neither a request nor a capture counts twice in it.
ScopesAreSound == ScopesReadable /\ ApprovedOnce /\ AppliedOnce

\* A controller that answers with a receipt answers for a change that was made, and
\* one that refuses a request holds no receipt of having made it.  What it publishes is a
\* completed source as its reviewer saw it.
TrueReply(c) ==
    LET r == calls[c].request
    IN  /\ calls'[c].pc = "reply" /\ ~At(c, "reply") =>
               /\ calls'[c].result = "ok" => \E i \in DOMAIN effects : effects[i] = r
               /\ calls'[c].result = "refused" => ~Replays(r)
        /\ At(c, "publish") /\ effects' # effects /\ calls'[c] # calls[c] =>
               sources[r.what.source] = [state |-> "COMPLETED", edit |-> r.what.binding]

RepliesAreTrue == [][\A c \in Controllers : TrueReply(c)]_scopeVars
=============================================================================
