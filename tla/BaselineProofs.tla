--------------------------- MODULE BaselineProofs ---------------------------
(***************************************************************************)
(* The baseline catalog and the transport of its calls, each for any value *)
(* of its constants.                                                       *)
(***************************************************************************)
EXTENDS BaselineTransport, BaselineScopes, FiniteSetTheorems, TLAPS

-----------------------------------------------------------------------------
(***************************************************************************)
(* BaselineTransport for any calls and any number of slots: however        *)
(* clients go away and whenever shutdown comes, no slot, lease or lock     *)
(* leaks.                                                                  *)
(***************************************************************************)

\* NothingLeaks with the types it needs.  That the threads at work are finitely many
\* is part of it: the calls themselves need not be.
TransportInv ==
    /\ stage \in [Invocations -> {"new", "lease", "lock", "replay", "work", "done"}]
    /\ freeSlots \in Nat
    /\ closing \in {"open", "closing", "closed"}
    /\ IsFiniteSet(Running)
    /\ computing \in Running \cup {Nobody} /\ repoLock \in Running \cup {Nobody}
    /\ NothingLeaks

\* A call that is let in takes a slot.
LEMMA Starts ==
  ASSUME TransportInv, NEW i \in Invocations, stage[i] = "new",
         NEW s \in {"lease", "lock"}, stage' = [stage EXCEPT ![i] = s]
  PROVE  /\ Running' = Running \cup {i} /\ IsFiniteSet(Running')
         /\ Cardinality(Running') = Cardinality(Running) + 1
<1> USE DEF TransportInv
<1>1. Running' = Running \cup {i}
  BY DEF Running
<1>2. i \notin Running
  BY DEF Running
<1>3. IsFiniteSet(Running)
  OBVIOUS
<1>4. IsFiniteSet(Running \cup {i}) /\ Cardinality(Running \cup {i}) = Cardinality(Running) + 1
  BY <1>2, <1>3, FS_AddElement, Zenon
<1> QED
  BY <1>1, <1>4

\* A thread that ends gives its slot back, and whatever else it held.
LEMMA CallEnds ==
  ASSUME TransportInv, NEW i \in Running, NEW r, Finish(i, r), closing' = closing
  PROVE  TransportInv'
<1> USE DEF TransportInv
<1>1. i \in Invocations /\ stage' = [stage EXCEPT ![i] = "done"]
  BY DEF Running, Finish, To
<1>2. Running' = Running \ {i}
  BY <1>1 DEF Running
<1>3. IsFiniteSet(Running)
  OBVIOUS
<1>4. IsFiniteSet(Running \ {i}) /\ Cardinality(Running \ {i}) = Cardinality(Running) - 1
  BY <1>3, FS_RemoveElement, Zenon
<1>5. Cardinality(Running) \in Nat
  BY <1>3, FS_CardinalityType
<1>6. freeSlots' = freeSlots + 1 /\ Cardinality(Running') + freeSlots' = Slots
  BY <1>2, <1>4, <1>5 DEF Finish, NothingLeaks
<1>7. computing' \in Running' \cup {Nobody} /\ repoLock' \in Running' \cup {Nobody}
  BY <1>2 DEF Finish
<1>8. stage' \in [Invocations -> {"new", "lease", "lock", "replay", "work", "done"}]
  BY <1>1
<1>9. closing' # "closed"
  BY DEF NothingLeaks
<1> QED
  BY <1>2, <1>4, <1>6, <1>7, <1>8, <1>9 DEF NothingLeaks

\* A thread that moves on keeps its slot.
LEMMA CallMoves ==
  ASSUME TransportInv, NEW i \in Running, NEW s \in {"lease", "lock", "replay", "work"},
         stage' = [stage EXCEPT ![i] = s], UNCHANGED <<freeSlots, closing>>,
         computing' \in {computing, i}, repoLock' \in {repoLock, i}
  PROVE  TransportInv'
<1> USE DEF TransportInv
<1>1. Running' = Running
  BY DEF Running
<1>2. closing # "closed"
  BY DEF NothingLeaks
<1>3. stage' \in [Invocations -> {"new", "lease", "lock", "replay", "work", "done"}]
  BY Zenon
<1> QED
  BY <1>1, <1>2, <1>3 DEF NothingLeaks

LEMMA TransportStart == TransportInit => TransportInv
<1> SUFFICES ASSUME TransportInit PROVE TransportInv
  OBVIOUS
<1>1. Running = {}
  BY DEF TransportInit, Running
<1> QED
  BY <1>1, FS_EmptySet, TransportConstants DEF TransportInit, TransportInv, NothingLeaks

LEMMA TransportStep == TransportInv /\ [TransportNext]_transportVars => TransportInv'
<1> SUFFICES ASSUME TransportInv, [TransportNext]_transportVars PROVE TransportInv'
  OBVIOUS
<1>k. stage' = stage => Running' = Running
  BY DEF Running
<1>r. \A i \in Invocations : stage[i] \in {"lease", "lock", "replay", "work"} => i \in Running
  BY DEF Running
<1>1. CASE UNCHANGED transportVars
  BY <1>1, <1>k DEF transportVars, TransportInv, NothingLeaks
<1>2. CASE Shutdown
  BY <1>2, <1>k DEF Shutdown, TransportInv, NothingLeaks
<1>3. CASE Drained
  BY <1>3, <1>k DEF Drained, TransportInv, NothingLeaks
<1>4. ASSUME NEW i \in Invocations, Disconnect(i)
      PROVE  TransportInv'
  BY <1>4, <1>k DEF Disconnect, TransportInv, NothingLeaks
<1>5. ASSUME NEW i \in Invocations, Call(i)
      PROVE  TransportInv'
  <2>1. CASE closing = "closing" \/ freeSlots = 0
    <3>1. stage' = [stage EXCEPT ![i] = "done"] /\ stage[i] = "new"
          /\ UNCHANGED <<freeSlots, closing, computing, repoLock>>
      BY <1>5, <2>1 DEF Call, To
    <3>2. Running' = Running
      BY <3>1 DEF Running, TransportInv
    <3>3. stage' \in [Invocations -> {"new", "lease", "lock", "replay", "work", "done"}]
      BY <3>1 DEF TransportInv
    <3> QED
      BY <3>1, <3>2, <3>3 DEF TransportInv, NothingLeaks
  <2>2. CASE ~(closing = "closing" \/ freeSlots = 0)
    <3>1. PICK s \in {"lease", "lock"} : stage' = [stage EXCEPT ![i] = s]
      BY <1>5, <2>2 DEF Call, To
    <3>2. stage[i] = "new" /\ closing = "open" /\ freeSlots' = freeSlots - 1 /\ freeSlots > 0
          /\ UNCHANGED <<closing, computing, repoLock>>
      BY <1>5, <2>2 DEF Call, TransportInv
    <3>3. /\ Running' = Running \cup {i} /\ IsFiniteSet(Running')
          /\ Cardinality(Running') = Cardinality(Running) + 1
      BY <3>1, <3>2, Starts, Zenon
    <3>4. Cardinality(Running) \in Nat
      BY FS_CardinalityType DEF TransportInv
    <3>5. Cardinality(Running') + freeSlots' = Slots /\ freeSlots' \in Nat
      BY <3>2, <3>3, <3>4 DEF TransportInv, NothingLeaks
    <3>6. stage' \in [Invocations -> {"new", "lease", "lock", "replay", "work", "done"}]
      BY <3>1 DEF TransportInv
    <3> QED
      BY <3>2, <3>3, <3>5, <3>6 DEF TransportInv, NothingLeaks
  <2> QED
    BY <2>1, <2>2
<1>6. ASSUME NEW i \in Invocations, AcquireLease(i)
      PROVE  TransportInv'
  <2>1. CASE computing = Nobody
    <3>1. PICK s \in {"lock", "work"} : stage' = [stage EXCEPT ![i] = s]
      BY <1>6, <2>1 DEF AcquireLease, To
    <3> QED
      BY <1>6, <1>r, <2>1, <3>1, CallMoves, Zenon DEF AcquireLease
  <2>2. CASE computing # Nobody
    BY <1>6, <1>r, <2>2, CallEnds DEF AcquireLease
  <2> QED
    BY <2>1, <2>2
<1>7. ASSUME NEW i \in Invocations, LockRepository(i)
      PROVE  TransportInv'
  <2>1. PICK s \in {"replay", "work"} : stage' = [stage EXCEPT ![i] = s]
    BY <1>7, Zenon DEF LockRepository, To
  <2> QED
    BY <1>7, <1>r, <2>1, CallMoves, Zenon DEF LockRepository
<1>8. ASSUME NEW i \in Invocations, LookForReceipt(i)
      PROVE  TransportInv'
  <2>1. CASE Finish(i, "answered")
    BY <1>8, <1>r, <2>1, CallEnds DEF LookForReceipt
  <2>2. CASE To(i, "lease") /\ UNCHANGED <<awaited, freeSlots, computing, repoLock, outcome>>
    BY <1>8, <1>r, <2>2, CallMoves, Zenon DEF LookForReceipt, To
  <2> QED
    BY <1>8, <2>1, <2>2 DEF LookForReceipt
<1>9. ASSUME NEW i \in Invocations, Work(i)
      PROVE  TransportInv'
  BY <1>9, <1>r, CallEnds DEF Work
<1> QED
  BY <1>1, <1>2, <1>3, <1>4, <1>5, <1>6, <1>7, <1>8, <1>9 DEF TransportNext, ThreadStep

\* No slot, computation lease or repository lock of the controller's baseline calls
\* leaks, for any number of slots and any calls: neither a client that goes away, nor a
\* refused lease, nor shutdown leaves a slot taken or a lock held by a thread that ended,
\* and nothing runs once shutdown() has returned.
THEOREM NoLeak == TransportSpec => []NothingLeaks
<1>1. TransportInv => NothingLeaks
  BY DEF TransportInv
<1> QED
  BY <1>1, TransportStart, TransportStep, PTL DEF TransportSpec

-----------------------------------------------------------------------------
(***************************************************************************)
(* BaselineScopes for any scopes, sources, controllers and limits.         *)
(***************************************************************************)

Views ==
    [creator : Creators \cup {Unclaimed}, rev : Nat, frozen : BOOLEAN,
     state : {"EMPTY", "HAS_REFERENCE", "REVOKED", "RETIRED"}, accepted : Nat, active : Nat, previous : Nat]
Generations == [rev : Nat, roots : SUBSET Nat]
Whats ==
    [action : {"APPROVE"}, source : Sources, binding : Nat]
        \cup [action : {"FREEZE", "UNFREEZE", "REVOKE", "RETIRE", "ROLLBACK"}, target : Nat]
Requests == [scope : ScopeIds, key : Nat, rev : Nat, what : Whats]
Operations == [rev : Nat, request : Requests]
SourceRows == [state : {"COMPLETED", "PARTIALLY_COMPLETED", "GONE"}, edit : Nat]
Results == {"ok", "refused", "busy", "unavailable"}
\* The types of the catalogue and of its history.
TablesInv ==
    /\ scopes \in [ScopeIds -> Views]
    /\ generations \in [ScopeIds -> SUBSET Generations]
    /\ operations \in [ScopeIds -> SUBSET Operations]
    /\ sources \in [Sources -> SourceRows]
    /\ requests \in SUBSET Requests
    /\ effects \in Seq(Requests)

\* A scope that was not created is untouched, and nobody asks anything of it.
CreatedInv ==
    /\ \A s \in ScopeIds : ~Exists(s) => scopes[s] = NoScope
    /\ \A r \in requests : Exists(r.scope)

\* The generations of a scope differ by their revision, and their documents are finite.
GenerationsInv ==
    \A s \in ScopeIds : /\ \A g, h \in generations[s] : g.rev = h.rev => g = h
                        /\ \A g \in generations[s] : IsFiniteSet(g.roots)

\* The receipts of a scope differ by revision and by key, and each is of a change made.
ReceiptsInv ==
    \A s \in ScopeIds :
        /\ IsFiniteSet(operations[s])
        /\ \A o \in operations[s] : o.rev <= scopes[s].rev /\ \E i \in DOMAIN effects : effects[i] = o.request
        /\ \A o, p \in operations[s] : o.rev = p.rev \/ o.request.key = p.request.key => o = p

\* What was applied is behind the revision and the accepted event end of its scope,
\* and only completed sources were approved.
EffectsInv ==
    \A i \in DOMAIN effects :
        LET r == effects[i]
        IN  /\ r.rev < scopes[r.scope].rev
            /\ r.what.action = "APPROVE" => /\ r.what.source[1] <= scopes[r.scope].accepted
                                            /\ sources[r.what.source].state # "PARTIALLY_COMPLETED"

\* Where a call is, its request and the source it has seen fit together; a locked
\* source is as it was seen.
Working(call) ==
    /\ call \in [pc : {"replay", "discover", "recover", "control", "readback"}, request : requests]
    /\ call.pc = "discover" => call.request.what.action = "APPROVE"
    /\ call.pc = "control" => call.request.what.action # "APPROVE"
Seeing(call) ==
    /\ call \in [pc : {"lock", "publish", "recover", "readback"}, request : requests, seen : SourceRows]
    /\ call.pc \in {"lock", "publish"} => call.request.what.action = "APPROVE"
    /\ call.pc = "lock" => call.seen.state # "GONE"
    /\ call.pc = "publish" => call.seen = sources[call.request.what.source] /\ call.seen.state = "COMPLETED"
Replying(call) == call \in [pc : {"reply"}, request : requests, result : Results]

CallOK(call) == call = NoCall \/ Working(call) \/ Seeing(call) \/ Replying(call)
CallsInv == /\ DOMAIN calls = Controllers /\ calls = [c \in Controllers |-> calls[c]]
            /\ \A c \in Controllers : CallOK(calls[c])

\* ScopesAreSound with what it rests on.
CatalogInv == TablesInv /\ CreatedInv /\ GenerationsInv /\ ReceiptsInv /\ EffectsInv /\ ScopesAreSound

ScopesInv == CatalogInv /\ CallsInv

-----------------------------------------------------------------------------
(* What is kept of a ranked set.                                           *)

Above(S, rank, e) == {f \in S : rank[f] > rank[e]}

\* Of a finite set whose members differ by rank, at most n have fewer than n above them.
LEMMA Newest ==
  ASSUME NEW S, IsFiniteSet(S), NEW rank \in [S -> Nat], NEW n \in Nat,
         \A e, f \in S : rank[e] = rank[f] => e = f,
         NEW K \in SUBSET S, \A e \in K : Cardinality(Above(S, rank, e)) < n
  PROVE  IsFiniteSet(K) /\ Cardinality(K) <= n
<1> DEFINE height == [e \in K |-> Cardinality(Above(S, rank, e))]
<1>1. \A e \in S : IsFiniteSet(Above(S, rank, e)) /\ Cardinality(Above(S, rank, e)) \in Nat
  <2> SUFFICES ASSUME NEW e \in S PROVE IsFiniteSet(Above(S, rank, e)) /\ Cardinality(Above(S, rank, e)) \in Nat
    OBVIOUS
  <2>1. Above(S, rank, e) \in SUBSET S
    BY DEF Above
  <2>2. IsFiniteSet(Above(S, rank, e))
    BY <2>1, FS_Subset
  <2> QED
    BY <2>2, FS_CardinalityType
<1>2. ASSUME NEW e \in S, NEW f \in S, rank[e] < rank[f]
      PROVE  Cardinality(Above(S, rank, f)) # Cardinality(Above(S, rank, e))
  <2>1. Above(S, rank, f) \in SUBSET Above(S, rank, e) /\ f \in Above(S, rank, e) /\ f \notin Above(S, rank, f)
    BY <1>2 DEF Above
  <2> QED
    BY <1>1, <2>1, FS_Subset
<1>3. height \in Injection(K, 0 .. n - 1)
  <2>1. height \in [K -> 0 .. n - 1]
    <3>1. \A e \in K : Cardinality(Above(S, rank, e)) \in Nat /\ Cardinality(Above(S, rank, e)) < n
      BY <1>1
    <3> QED
      BY <3>1
  <2>2. \A e, f \in K : height[e] = height[f] => e = f
    <3> SUFFICES ASSUME NEW e \in K, NEW f \in K, e # f PROVE height[e] # height[f]
      OBVIOUS
    <3>1. e \in S /\ f \in S
      OBVIOUS
    <3>2. rank[e] < rank[f] \/ rank[f] < rank[e]
      BY <3>1
    <3>3. height[e] = Cardinality(Above(S, rank, e)) /\ height[f] = Cardinality(Above(S, rank, f))
      OBVIOUS
    <3> HIDE DEF height
    <3> QED
      BY <1>2, <3>1, <3>2, <3>3
  <2> HIDE DEF height
  <2> QED
    BY <2>1, <2>2 DEF Injection, IsInjective
<1>4. IsFiniteSet(0 .. n - 1) /\ Cardinality(0 .. n - 1) = n
  BY FS_Interval
<1> HIDE DEF height
<1> QED
  BY <1>3, <1>4, FS_Injection

LEMMA NewestNumbers ==
  ASSUME NEW S \in SUBSET Nat, IsFiniteSet(S), NEW n \in Nat,
         NEW K \in SUBSET S, \A e \in K : Cardinality({f \in S : f > e}) < n
  PROVE  IsFiniteSet(K) /\ Cardinality(K) <= n
<1> DEFINE rank == [e \in S |-> e]
<1>1. rank \in [S -> Nat]
  OBVIOUS
<1>2. \A e, f \in S : rank[e] = rank[f] => e = f
  OBVIOUS
<1>3. \A e \in K : Cardinality(Above(S, rank, e)) < n
  <2>1. \A e \in S : Above(S, rank, e) = {f \in S : f > e}
    BY DEF Above
  <2> HIDE DEF rank
  <2> QED
    BY <2>1
<1> HIDE DEF rank
<1> QED
  BY <1>1, <1>2, <1>3, Newest, Zenon

-----------------------------------------------------------------------------
(* A request that is applied.                                              *)

\* What both kinds of request do when they are applied: the revision moves on by one,
\* the accepted event end never back, and no other scope changes.
Applies(r) ==
    /\ r \in requests /\ Retained(r) = {} /\ r.rev = scopes[r.scope].rev
    /\ \A s \in ScopeIds \ {r.scope} : scopes'[s] = scopes[s]
    /\ scopes'[r.scope] \in Views
    /\ scopes'[r.scope].creator = scopes[r.scope].creator
    /\ scopes'[r.scope].rev = scopes[r.scope].rev + 1
    /\ scopes'[r.scope].accepted >= scopes[r.scope].accepted
    /\ effects' = Append(effects, r) /\ UNCHANGED <<sources, requests>>

LEMMA AppendedEffects ==
  ASSUME TablesInv, NEW r \in Requests, effects' = Append(effects, r)
  PROVE  /\ effects' \in Seq(Requests) /\ Len(effects) \in Nat
         /\ DOMAIN effects = 1 .. Len(effects) /\ DOMAIN effects' = 1 .. Len(effects) + 1
         /\ \A i \in DOMAIN effects : effects'[i] = effects[i] /\ effects[i] \in Requests
         /\ effects'[Len(effects) + 1] = r
<1>1. effects \in Seq(Requests)
  BY DEF TablesInv
<1> HIDE DEF Requests
<1> QED
  BY <1>1

LEMMA ReceiptsStay ==
  ASSUME CatalogInv, NEW r, Applies(r),
         operations' = [operations EXCEPT ![r.scope] = RetainOperation(r.scope, r)]
  PROVE  /\ operations' \in [ScopeIds -> SUBSET Operations]
         /\ ReceiptsInv'
         /\ \A s \in ScopeIds : Cardinality(operations'[s]) <= MaxOperations
<1> DEFINE s == r.scope
           new == [rev |-> scopes[s].rev + 1, request |-> r]
           rows == operations[s] \cup {new}
           rank == [o \in rows |-> o.rev]
           kept == {o \in rows : Cardinality({p \in rows : p.rev > o.rev}) < MaxOperations}
<1>1. r \in Requests /\ s \in ScopeIds /\ scopes[s].rev \in Nat
  BY DEF CatalogInv, TablesInv, Applies, Requests, Views
<1>2. new \in Operations
  BY <1>1 DEF Operations
<1>3. operations[s] \in SUBSET Operations /\ IsFiniteSet(operations[s])
  BY <1>1 DEF CatalogInv, TablesInv, ReceiptsInv
<1>4. \A o \in operations[s] : o.rev <= scopes[s].rev /\ o.rev \in Nat /\ o.request.key # r.key
  BY <1>1, <1>3 DEF CatalogInv, ReceiptsInv, Operations, Applies, Retained
<1>5. \A o, p \in operations[s] : o.rev = p.rev \/ o.request.key = p.request.key => o = p
  BY <1>1 DEF CatalogInv, ReceiptsInv
<1>6. new.rev = scopes[s].rev + 1 /\ new.request = r
  OBVIOUS
<1>7. IsFiniteSet(rows) /\ rows \in SUBSET Operations
  <2> HIDE DEF new
  <2> QED
    BY <1>2, <1>3, FS_AddElement
<1>8. \A o, p \in rows : o.rev = p.rev \/ o.request.key = p.request.key => o = p
  <2> HIDE DEF new
  <2>1. \A o \in operations[s] : o.rev # new.rev /\ o.request.key # new.request.key
    BY <1>1, <1>4, <1>6
  <2>2. \A o \in rows : o = new \/ o \in operations[s]
    OBVIOUS
  <2> HIDE DEF rows, s
  <2> TAKE o, p \in rows
  <2>3. CASE o = new \/ p = new
    BY <2>1, <2>2, <2>3
  <2>4. CASE o \in operations[s] /\ p \in operations[s]
    BY <1>5, <2>4
  <2> QED
    BY <2>2, <2>3, <2>4
<1>9. \A o \in rows : o.rev \in Nat /\ o.rev <= scopes[s].rev + 1
  <2> HIDE DEF new
  <2> QED
    BY <1>1, <1>4, <1>6
<1>10. MaxOperations \in Nat
  BY BaselineConstants
<1>11. kept \in SUBSET rows /\ IsFiniteSet(kept) /\ Cardinality(kept) <= MaxOperations
  <2> HIDE DEF rows
  <2>1. rank \in [rows -> Nat]
    BY <1>9
  <2>2. \A o, p \in rows : rank[o] = rank[p] => o = p
    BY <1>8
  <2>3. \A o \in kept : Cardinality(Above(rows, rank, o)) < MaxOperations
    <3>1. \A o \in rows : Above(rows, rank, o) = {p \in rows : p.rev > o.rev}
      BY DEF Above
    <3> HIDE DEF rank
    <3> QED
      BY <3>1, Zenon
  <2>4. kept \in SUBSET rows
    OBVIOUS
  <2> HIDE DEF rank, kept
  <2> QED
    BY <1>7, <1>10, <2>1, <2>2, <2>3, <2>4, Newest
<1>12. operations' = [operations EXCEPT ![s] = kept]
  BY DEF RetainOperation
<1> HIDE DEF kept, rows, new
<1>13. operations \in [ScopeIds -> SUBSET Operations]
  BY DEF CatalogInv, TablesInv
<1>14. operations' \in [ScopeIds -> SUBSET Operations] /\ operations'[s] = kept
       /\ \A t \in ScopeIds \ {s} : operations'[t] = operations[t]
  BY <1>1, <1>7, <1>11, <1>12, <1>13
<1>15. /\ DOMAIN effects = 1 .. Len(effects) /\ DOMAIN effects' = 1 .. Len(effects) + 1
       /\ Len(effects) \in Nat /\ \A i \in DOMAIN effects : effects'[i] = effects[i]
       /\ effects'[Len(effects) + 1] = r
  <2>1. effects' = Append(effects, r) /\ TablesInv
    BY DEF Applies, CatalogInv
  <2> QED
    BY <1>1, <2>1, AppendedEffects
<1>16. \A q \in Requests : (\E i \in DOMAIN effects : effects[i] = q) \/ q = r => \E i \in DOMAIN effects' : effects'[i] = q
  BY <1>15
<1>17. \A o \in kept : o.rev <= scopes'[s].rev /\ \E i \in DOMAIN effects' : effects'[i] = o.request
  <2> TAKE o \in kept
  <2>1. o \in rows
    BY <1>11
  <2>2. o.rev <= scopes'[s].rev
    BY <1>9, <2>1 DEF Applies
  <2>3. o.request \in Requests
    BY <1>7, <2>1 DEF Operations
  <2>4. o = new \/ o \in operations[s]
    BY <2>1 DEF rows
  <2>5. o.request = r \/ \E i \in DOMAIN effects : effects[i] = o.request
    BY <1>1, <1>6, <2>4 DEF CatalogInv, ReceiptsInv
  <2> QED
    BY <1>16, <2>2, <2>3, <2>5
<1>18. ReceiptsInv'
  <2> SUFFICES ASSUME NEW t \in ScopeIds
               PROVE  /\ IsFiniteSet(operations'[t])
                      /\ \A o \in operations'[t] : o.rev <= scopes'[t].rev /\ \E i \in DOMAIN effects' : effects'[i] = o.request
                      /\ \A o, p \in operations'[t] : o.rev = p.rev \/ o.request.key = p.request.key => o = p
    BY DEF ReceiptsInv
  <2>1. CASE t = s
    BY <1>8, <1>11, <1>14, <1>17, <2>1
  <2>2. CASE t # s
    <3>1. operations'[t] = operations[t] /\ scopes'[t] = scopes[t]
      BY <1>14, <2>2 DEF Applies
    <3>2. \A o \in operations[t] : o.rev <= scopes[t].rev /\ \E i \in DOMAIN effects : effects[i] = o.request
      BY DEF CatalogInv, ReceiptsInv
    <3>3. \A o \in operations[t] : \E i \in DOMAIN effects' : effects'[i] = o.request
      BY <1>15, <3>2
    <3> QED
      BY <3>1, <3>2, <3>3 DEF CatalogInv, ReceiptsInv
  <2> QED
    BY <2>1, <2>2
<1>19. \A t \in ScopeIds : Cardinality(operations'[t]) <= MaxOperations
  BY <1>11, <1>14 DEF CatalogInv, ScopesAreSound, ScopesReadable
<1> QED
  BY <1>14, <1>18, <1>19

\* The history: a new entry is beyond all earlier ones of its scope.
LEMMA EffectsStay ==
  ASSUME CatalogInv, NEW r, Applies(r),
         r.what.action = "APPROVE" =>
             /\ r.what.source[1] > scopes[r.scope].accepted /\ r.what.source[1] <= scopes'[r.scope].accepted
             /\ sources[r.what.source].state = "COMPLETED"
  PROVE  EffectsInv' /\ ApprovedOnce' /\ AppliedOnce' /\ effects' \in Seq(Requests)
<1>1. r \in Requests /\ r.scope \in ScopeIds /\ TablesInv /\ r.what \in Whats
  BY DEF CatalogInv, TablesInv, Applies, Requests
<1>2. effects' = Append(effects, r) /\ sources' = sources /\ r.rev = scopes[r.scope].rev
  BY DEF Applies
<1>3. /\ DOMAIN effects = 1 .. Len(effects) /\ DOMAIN effects' = 1 .. Len(effects) + 1
      /\ Len(effects) \in Nat /\ \A i \in DOMAIN effects : effects'[i] = effects[i] /\ effects[i] \in Requests
      /\ effects'[Len(effects) + 1] = r /\ effects' \in Seq(Requests)
  BY <1>1, <1>2, AppendedEffects
<1>4. \A s \in ScopeIds : /\ scopes[s].rev \in Nat /\ scopes'[s].rev \in Nat /\ scopes'[s].rev >= scopes[s].rev
                          /\ scopes[s].accepted \in Nat /\ scopes'[s].accepted \in Nat
                          /\ scopes'[s].accepted >= scopes[s].accepted
  <2> TAKE s \in ScopeIds
  <2>1. scopes[s] \in Views
    BY <1>1 DEF TablesInv
  <2>2. CASE s = r.scope
    BY <2>1, <2>2 DEF Applies, Views
  <2>3. CASE s # r.scope
    BY <2>1, <2>3 DEF Applies, Views
  <2> QED
    BY <2>2, <2>3
<1>5. \A q \in Requests : /\ q.scope \in ScopeIds /\ q.rev \in Nat
                          /\ q.what.action = "APPROVE" => q.what.source[1] \in Nat /\ q.what.source \in Sources
  BY BaselineConstants DEF Requests, Whats
<1>6. \A i \in DOMAIN effects :
         /\ effects[i].rev < scopes[effects[i].scope].rev
         /\ effects[i].what.action = "APPROVE" =>
               /\ effects[i].what.source[1] <= scopes[effects[i].scope].accepted
               /\ sources[effects[i].what.source].state # "PARTIALLY_COMPLETED"
  BY DEF CatalogInv, EffectsInv
<1>7. EffectsInv'
  <2> SUFFICES ASSUME NEW i \in DOMAIN effects'
               PROVE  /\ effects'[i].rev < scopes'[effects'[i].scope].rev
                      /\ effects'[i].what.action = "APPROVE" =>
                           /\ effects'[i].what.source[1] <= scopes'[effects'[i].scope].accepted
                           /\ sources'[effects'[i].what.source].state # "PARTIALLY_COMPLETED"
    BY DEF EffectsInv
  <2>1. CASE i = Len(effects) + 1
    BY <1>1, <1>2, <1>3, <1>4, <1>5, <2>1 DEF Applies
  <2>2. CASE i \in DOMAIN effects
    BY <1>1, <1>2, <1>3, <1>4, <1>5, <1>6, <2>2
  <2> QED
    BY <1>3, <2>1, <2>2
<1>8. \A i \in DOMAIN effects : effects[i] # r
  BY <1>1, <1>2, <1>4, <1>6
<1>9. AppliedOnce'
  BY <1>3, <1>8 DEF CatalogInv, ScopesAreSound, AppliedOnce
<1>10. \A i \in DOMAIN effects : effects[i].what.action = "APPROVE" /\ r.what.action = "APPROVE"
                                 /\ effects[i].scope = r.scope => effects[i].what.source[1] # r.what.source[1]
  BY <1>1, <1>3, <1>4, <1>5, <1>6
<1>11. ApprovedOnce'
  BY <1>3, <1>10 DEF CatalogInv, ScopesAreSound, ApprovedOnce
<1> QED
  BY <1>3, <1>7, <1>9, <1>11

LEMMA ViewFields ==
  ASSUME NEW view \in Views
  PROVE  /\ view.creator \in Creators \cup {Unclaimed} /\ view.rev \in Nat /\ view.frozen \in BOOLEAN
         /\ view.state \in {"EMPTY", "HAS_REFERENCE", "REVOKED", "RETIRED"} /\ view.accepted \in Nat
         /\ view.active \in Nat /\ view.previous \in Nat
         /\ view = [creator |-> view.creator, rev |-> view.rev, frozen |-> view.frozen, state |-> view.state,
                    accepted |-> view.accepted, active |-> view.active, previous |-> view.previous]
BY DEF Views

\* What an approval and the control operations make of a scope's row is such a row.
LEMMA PublishedView ==
  ASSUME NEW view \in Views, NEW rev \in Nat, NEW accepted \in Nat, NEW active \in Nat, NEW previous \in Nat
  PROVE  [view EXCEPT !.rev = rev, !.state = "HAS_REFERENCE", !.accepted = accepted, !.active = active, !.previous = previous] \in Views
<1>1. PICK a \in Views : a = [view EXCEPT !.rev = rev]
  BY Zenon DEF Views
<1>2. PICK b \in Views : b = [a EXCEPT !.state = "HAS_REFERENCE"]
  BY Zenon DEF Views
<1>3. PICK c \in Views : c = [b EXCEPT !.accepted = accepted]
  BY Zenon DEF Views
<1>4. PICK d \in Views : d = [c EXCEPT !.active = active]
  BY Zenon DEF Views
<1>5. PICK e \in Views : e = [d EXCEPT !.previous = previous]
  BY Zenon DEF Views
<1> QED
  BY <1>1, <1>2, <1>3, <1>4, <1>5

LEMMA ControlledView ==
  ASSUME NEW view \in Views, NEW rev \in Nat, NEW frozen \in BOOLEAN,
         NEW state \in {"EMPTY", "HAS_REFERENCE", "REVOKED", "RETIRED"}, NEW active \in Nat, NEW previous \in Nat
  PROVE  [view EXCEPT !.rev = rev, !.frozen = frozen, !.state = state, !.active = active, !.previous = previous] \in Views
<1>1. PICK a \in Views : a = [view EXCEPT !.rev = rev]
  BY Zenon DEF Views
<1>2. PICK b \in Views : b = [a EXCEPT !.frozen = frozen]
  BY Zenon DEF Views
<1>3. PICK c \in Views : c = [b EXCEPT !.state = state]
  BY Zenon DEF Views
<1>4. PICK d \in Views : d = [c EXCEPT !.active = active]
  BY Zenon DEF Views
<1>5. PICK e \in Views : e = [d EXCEPT !.previous = previous]
  BY Zenon DEF Views
<1> QED
  BY <1>1, <1>2, <1>3, <1>4, <1>5

\* One scope's part of ScopesReadable and GenerationsInv.
Readable(view, gens) ==
    /\ gens \in SUBSET Generations
    /\ {g.rev : g \in gens} = Pointers(view)
    /\ view.previous # 0 => view.previous < view.active
    /\ (view.state = "HAS_REFERENCE") = (view.active # 0)
    /\ \A g \in gens : /\ g.rev <= view.rev /\ ValidDocument(g) /\ IsFiniteSet(g.roots)
                       /\ \A e \in g.roots : e <= view.accepted
    /\ \A g, h \in gens : g.rev = h.rev => g = h

LEMMA AllReadable ==
  ASSUME CatalogInv
  PROVE  \A s \in ScopeIds : Readable(scopes[s], generations[s]) /\ scopes[s] \in Views
BY DEF CatalogInv, TablesInv, GenerationsInv, ScopesAreSound, ScopesReadable, Readable

\* A request that leaves its scope readable leaves the catalogue sound.
LEMMA Applied ==
  ASSUME CatalogInv, NEW r, Applies(r),
         operations' = [operations EXCEPT ![r.scope] = RetainOperation(r.scope, r)],
         r.what.action = "APPROVE" =>
             /\ r.what.source[1] > scopes[r.scope].accepted /\ r.what.source[1] <= scopes'[r.scope].accepted
             /\ sources[r.what.source].state = "COMPLETED",
         NEW gens, generations' = [generations EXCEPT ![r.scope] = gens],
         Readable(scopes'[r.scope], gens), DOMAIN scopes' = ScopeIds, scopes' = [s \in ScopeIds |-> scopes'[s]]
  PROVE  CatalogInv'
<1>1. r \in requests /\ r \in Requests /\ r.scope \in ScopeIds
  BY DEF CatalogInv, TablesInv, Applies, Requests
<1>2. /\ operations' \in [ScopeIds -> SUBSET Operations] /\ ReceiptsInv'
      /\ \A s \in ScopeIds : Cardinality(operations'[s]) <= MaxOperations
  BY ReceiptsStay, Zenon
<1>3. EffectsInv' /\ ApprovedOnce' /\ AppliedOnce' /\ effects' \in Seq(Requests)
  BY EffectsStay
<1>4. \A s \in ScopeIds : Readable(scopes'[s], generations'[s]) /\ scopes'[s] \in Views
  <2> TAKE s \in ScopeIds
  <2>1. CASE s = r.scope
    <3>1. generations'[s] = gens
      BY <1>1, <2>1 DEF CatalogInv, TablesInv
    <3> QED
      BY <2>1, <3>1 DEF Applies
  <2>2. CASE s # r.scope
    <3>1. generations'[s] = generations[s] /\ scopes'[s] = scopes[s]
      BY <2>2 DEF CatalogInv, TablesInv, Applies
    <3> QED
      BY <3>1, AllReadable
  <2> QED
    BY <2>1, <2>2
<1>5. scopes' \in [ScopeIds -> Views] /\ generations' \in [ScopeIds -> SUBSET Generations]
  <2>1. \A s \in ScopeIds : scopes'[s] \in Views /\ generations'[s] \in SUBSET Generations
    BY <1>4 DEF Readable
  <2>2. generations' = [s \in ScopeIds |-> generations'[s]]
    BY Zenon DEF CatalogInv, TablesInv
  <2> QED
    BY <2>1, <2>2, Zenon
<1>6. TablesInv'
  BY <1>2, <1>3, <1>5 DEF CatalogInv, TablesInv, Applies
<1>7. CreatedInv'
  <2>1. \A s \in ScopeIds : scopes'[s].creator = scopes[s].creator
    BY DEF Applies
  <2>2. \A s \in ScopeIds : scopes[s].creator = Unclaimed => scopes'[s] = scopes[s]
    BY <1>1 DEF CatalogInv, CreatedInv, Exists, Applies
  <2>3. \A q \in requests : q.scope \in ScopeIds /\ scopes[q.scope].creator # Unclaimed
    BY DEF CatalogInv, CreatedInv, TablesInv, Requests, Exists
  <2>4. \A s \in ScopeIds : scopes[s].creator = Unclaimed => scopes[s] = NoScope
    BY DEF CatalogInv, CreatedInv, Exists
  <2>5. requests' = requests
    BY DEF Applies
  <2> QED
    BY <2>1, <2>2, <2>3, <2>4, <2>5 DEF CreatedInv, Exists
<1>8. GenerationsInv' /\ ScopesReadable'
  BY <1>2, <1>4 DEF GenerationsInv, ScopesReadable, Readable, ValidDocument
<1> QED
  BY <1>2, <1>3, <1>6, <1>7, <1>8 DEF CatalogInv, ScopesAreSound

-----------------------------------------------------------------------------
(* Approvals.                                                              *)

\* What an approval that is not refused has been compared with.
LEMMA Approved ==
  ASSUME NEW r, NEW source, ApprovalError(r, source) = "OK",
         scopes[r.scope].frozen \in BOOLEAN, scopes[r.scope].accepted \in Nat, r.what.source[1] \in Nat
  PROVE  /\ scopes[r.scope].rev = r.rev /\ source.edit = r.what.binding
         /\ r.what.source[1] > scopes[r.scope].accepted
<1> DEFINE view == scopes[r.scope]
<1>1. CASE view.rev # r.rev
  BY <1>1 DEF ApprovalError
<1>2. CASE view.rev = r.rev /\ view.frozen
  BY <1>2 DEF ApprovalError
<1>3. CASE view.rev = r.rev /\ ~view.frozen /\ source.edit # r.what.binding
  BY <1>3 DEF ApprovalError
<1>4. CASE view.rev = r.rev /\ ~view.frozen /\ source.edit = r.what.binding
  BY <1>4 DEF ApprovalError
<1> QED
  BY <1>1, <1>2, <1>3, <1>4

\* The receipts of the new generation make a valid document.
LEMMA ValidReceipts ==
  ASSUME CatalogInv, NEW s \in ScopeIds, NEW root \in Nat, root > scopes[s].accepted,
         NEW R, R = Receipts(scopes[s], s, root)
  PROVE  /\ R \in SUBSET Nat /\ IsFiniteSet(R) /\ R # {}
         /\ Cardinality(R) <= MaxReceipts /\ Cardinality(R) <= scopes[s].rev + 1
         /\ \A e, f \in R : f - e <= EventHorizon
         /\ \A e \in R : e <= root
<1> DEFINE view == scopes[s]
           before == IF view.active = 0 THEN {} ELSE Document(s, view.active).roots
           recent == {e \in before : root - e <= EventHorizon}
           kept == {e \in recent : Cardinality({f \in recent : f > e}) < MaxReceipts - 1}
<1>1. MaxReceipts \in Nat /\ MaxReceipts > 0 /\ EventHorizon \in Nat
  BY BaselineConstants
<1>2. view \in Views /\ Readable(view, generations[s])
  BY AllReadable
<1>3. view.rev \in Nat /\ view.accepted \in Nat /\ view.active \in Nat
  BY <1>2 DEF Views
<1>4. /\ before \in SUBSET Nat /\ IsFiniteSet(before) /\ Cardinality(before) <= view.rev
      /\ \A e \in before : e < root
  <2>1. CASE view.active = 0
    BY <1>3, <2>1, FS_EmptySet
  <2>2. CASE view.active # 0
    <3>1. view.active \in {g.rev : g \in generations[s]}
      BY <1>2, <2>2 DEF Readable, Pointers
    <3>2. PICK g \in generations[s] : g.rev = view.active
      BY <3>1
    <3>3. Document(s, view.active) \in generations[s]
      BY <3>2 DEF Document
    <3>4. PICK d \in generations[s] : d = Document(s, view.active)
      BY <3>3
    <3>5. d \in Generations /\ d.rev <= view.rev /\ ValidDocument(d) /\ IsFiniteSet(d.roots)
          /\ \A e \in d.roots : e <= view.accepted
      BY <1>2 DEF Readable
    <3>6. d.roots \in SUBSET Nat /\ d.rev \in Nat
      BY <3>5 DEF Generations
    <3>7. Cardinality(d.roots) \in Nat /\ Cardinality(d.roots) <= d.rev
      BY <3>5, FS_CardinalityType DEF ValidDocument
    <3>8. before = d.roots
      BY <2>2, <3>4
    <3> HIDE DEF before
    <3> QED
      BY <1>3, <3>5, <3>6, <3>7, <3>8
  <2> QED
    BY <2>1, <2>2
<1> HIDE DEF before
<1>5. recent \in SUBSET before /\ \A e \in recent : root - e <= EventHorizon
  OBVIOUS
<1>6. IsFiniteSet(recent)
  BY <1>4, <1>5, FS_Subset
<1> HIDE DEF recent
<1>7. kept \in SUBSET recent
  OBVIOUS
<1>8. Cardinality(kept) <= MaxReceipts - 1 /\ IsFiniteSet(kept)
  <2>1. PICK n \in Nat : n = MaxReceipts - 1
    BY <1>1
  <2>2. \A e \in kept : Cardinality({f \in recent : f > e}) < n
    BY <2>1
  <2>3. recent \in SUBSET Nat
    BY <1>4, <1>5
  <2> HIDE DEF kept
  <2>4. IsFiniteSet(kept) /\ Cardinality(kept) <= n
    BY <1>6, <1>7, <2>2, <2>3, NewestNumbers
  <2> QED
    BY <2>1, <2>4
<1> HIDE DEF kept
<1>9. R = kept \cup {root}
  BY DEF Receipts, kept, recent, before
<1>10. kept \in SUBSET before
  BY <1>5, <1>7
<1>11. Cardinality(kept) <= Cardinality(before) /\ Cardinality(kept) \in Nat /\ Cardinality(before) \in Nat
  BY <1>4, <1>8, <1>10, FS_Subset, FS_CardinalityType, Zenon
<1>12. IsFiniteSet(R) /\ Cardinality(R) <= Cardinality(kept) + 1 /\ Cardinality(R) \in Nat
  <2>1. IsFiniteSet(kept \cup {root})
        /\ Cardinality(kept \cup {root}) = IF root \in kept THEN Cardinality(kept) ELSE Cardinality(kept) + 1
    BY <1>8, FS_AddElement
  <2> QED
    BY <1>9, <1>11, <2>1
<1>13. Cardinality(R) <= MaxReceipts /\ Cardinality(R) <= view.rev + 1
  BY <1>1, <1>3, <1>4, <1>8, <1>11, <1>12
<1>14. \A e \in kept : e \in Nat /\ e < root /\ root - e <= EventHorizon
  BY <1>4, <1>5, <1>7, <1>10, Zenon
<1> QED
  BY <1>1, <1>9, <1>12, <1>13, <1>14

LEMMA PublishKeeps ==
  ASSUME CatalogInv, NEW r \in requests, NEW source, r.what.action = "APPROVE", Retained(r) = {},
         sources[r.what.source].state = "COMPLETED", ApprovalError(r, source) = "OK",
         Publish(r), effects' = Append(effects, r), UNCHANGED <<sources, requests>>
  PROVE  CatalogInv'
<1> DEFINE s == r.scope
           view == scopes[s]
           root == r.what.source[1]
           R == Receipts(view, s, root)
           doc == [rev |-> view.rev + 1, roots |-> R]
           kept == {g \in generations[s] : g.rev # view.previous}
           after == [view EXCEPT !.rev = @ + 1, !.state = "HAS_REFERENCE",
                         !.accepted = root, !.active = doc.rev, !.previous = view.active]
<1>1. r \in Requests /\ r.what \in Whats /\ s \in ScopeIds
  BY DEF CatalogInv, TablesInv, Requests
<1>2. root \in Nat
  BY <1>1, BaselineConstants DEF Whats
<1>3. view \in Views /\ Readable(view, generations[s])
  BY <1>1, AllReadable
<1>4. /\ view.rev \in Nat /\ view.frozen \in BOOLEAN /\ view.accepted \in Nat /\ view.active \in Nat
      /\ view.previous \in Nat
  BY <1>3 DEF Views
<1>5. view.rev = r.rev /\ root > view.accepted
  BY <1>2, <1>4, Approved
<1>6. /\ R \in SUBSET Nat /\ IsFiniteSet(R) /\ R # {}
      /\ Cardinality(R) <= MaxReceipts /\ Cardinality(R) <= view.rev + 1
      /\ \A e, f \in R : f - e <= EventHorizon
      /\ \A e \in R : e <= root
  BY <1>1, <1>2, <1>5, ValidReceipts
<1>7. /\ scopes' = [scopes EXCEPT ![s] = after]
      /\ generations' = [generations EXCEPT ![s] = kept \cup {doc}]
      /\ operations' = [operations EXCEPT ![s] = RetainOperation(s, r)]
  <2>1. scopes' = [scopes EXCEPT ![s] = after]
    BY DEF Publish
  <2>2. generations' = [generations EXCEPT ![s] = kept \cup {doc}]
    BY <1>1 DEF Publish, CatalogInv, TablesInv
  <2> QED
    BY <2>1, <2>2 DEF Publish
<1> HIDE DEF R
<1>8. doc.rev = view.rev + 1 /\ doc.roots = R /\ doc \in Generations
  BY <1>4, <1>6 DEF Generations
<1>9. /\ after \in Views /\ after.creator = view.creator /\ after.rev = view.rev + 1 /\ after.accepted = root
      /\ after.active = view.rev + 1 /\ after.previous = view.active /\ after.state = "HAS_REFERENCE"
  <2>1. view.rev + 1 \in Nat
    BY <1>4
  <2>2. after \in Views
    BY <1>2, <1>3, <1>4, <2>1, PublishedView, Zenon
  <2> QED
    BY <1>3, <2>2 DEF Views
<1> HIDE DEF doc, after
<1>10. scopes'[s] = after /\ \A t \in ScopeIds \ {s} : scopes'[t] = scopes[t]
  BY <1>1, <1>7 DEF CatalogInv, TablesInv
<1>11. DOMAIN scopes' = ScopeIds /\ scopes' = [t \in ScopeIds |-> scopes'[t]]
  BY <1>7, Zenon DEF CatalogInv, TablesInv
<1>12. Applies(r)
  BY <1>2, <1>4, <1>5, <1>9, <1>10 DEF Applies
<1>13. \A g \in generations[s] : /\ g \in Generations /\ g.rev \in Pointers(view) /\ g.rev \in Nat /\ g.rev <= view.rev
                                 /\ ValidDocument(g) /\ IsFiniteSet(g.roots) /\ g.roots \in SUBSET Nat
                                 /\ \A e \in g.roots : e <= view.accepted
  BY <1>3 DEF Readable, Generations
<1>14. \A n \in Pointers(view) : n <= view.rev /\ \E g \in generations[s] : g.rev = n
  BY <1>3 DEF Readable
<1>15. {g.rev : g \in kept \cup {doc}} = Pointers(after)
  <2>1. \A g \in kept : g.rev = view.active /\ g.rev # 0
    BY <1>13 DEF Pointers
  <2>2. view.active # 0 => \E g \in kept : g.rev = view.active
    <3> SUFFICES ASSUME view.active # 0 PROVE \E g \in kept : g.rev = view.active
      OBVIOUS
    <3>1. PICK g \in generations[s] : g.rev = view.active
      BY <1>14, Zenon DEF Pointers
    <3>2. view.active # view.previous
      BY <1>3, <1>4 DEF Readable
    <3> QED
      BY <3>1, <3>2
  <2>3. Pointers(after) = {view.rev + 1, view.active} \ {0}
    BY <1>9 DEF Pointers
  <2> HIDE DEF kept
  <2>4. \A n \in Pointers(after) : \E g \in kept \cup {doc} : g.rev = n
    BY <1>8, <2>2, <2>3
  <2>5. \A g \in kept \cup {doc} : g.rev \in Pointers(after)
    BY <1>4, <1>8, <2>1, <2>3
  <2> QED
    BY <2>4, <2>5
<1>16. ValidDocument(doc)
  BY <1>6, <1>8, Zenon DEF ValidDocument
<1>17. Readable(after, kept \cup {doc})
  <2>1. kept \cup {doc} \in SUBSET Generations
    BY <1>8, <1>13
  <2>2. after.previous # 0 => after.previous < after.active
    <3>1. view.active # 0 => view.active <= view.rev
      BY <1>14 DEF Pointers
    <3> QED
      BY <1>4, <1>9, <3>1
  <2>3. (after.state = "HAS_REFERENCE") = (after.active # 0)
    BY <1>4, <1>9
  <2>4. \A g \in kept \cup {doc} : /\ g.rev <= after.rev /\ ValidDocument(g) /\ IsFiniteSet(g.roots)
                                   /\ \A e \in g.roots : e <= after.accepted
    <3> TAKE g \in kept \cup {doc}
    <3>1. CASE g = doc
      <4>1. g.rev <= after.rev /\ g.roots = R /\ after.accepted = root
        BY <1>4, <1>8, <1>9, <3>1
      <4> HIDE DEF root
      <4>2. \A e \in R : e <= root
        BY <1>6, Zenon
      <4> QED
        BY <1>6, <1>16, <3>1, <4>1, <4>2, Zenon
    <3>2. CASE g \in generations[s]
      <4>1. \A e \in g.roots : e <= after.accepted
        BY <1>2, <1>4, <1>5, <1>9, <1>13, <3>2
      <4> QED
        BY <1>4, <1>9, <1>13, <3>2, <4>1
    <3> QED
      BY <3>1, <3>2
  <2>5. \A g, h \in kept \cup {doc} : g.rev = h.rev => g = h
    <3>1. \A g \in kept : g.rev # doc.rev
      BY <1>4, <1>8, <1>13
    <3>2. \A g, h \in kept : g.rev = h.rev => g = h
      BY <1>3 DEF Readable
    <3> HIDE DEF kept
    <3> QED
      BY <3>1, <3>2
  <2> QED
    BY <1>15, <2>1, <2>2, <2>3, <2>4, <2>5 DEF Readable
<1> QED
  <2>1. Readable(scopes'[r.scope], kept \cup {doc})
    BY <1>10, <1>17
  <2>2. r.what.source[1] > scopes[r.scope].accepted /\ r.what.source[1] <= scopes'[r.scope].accepted
    BY <1>2, <1>5, <1>9, <1>10
  <2> HIDE DEF kept
  <2> QED
    BY <1>7, <1>11, <1>12, <2>1, <2>2, Applied, Zenon

-----------------------------------------------------------------------------
(* Control operations.                                                     *)

LEMMA ControlKeeps ==
  ASSUME CatalogInv, NEW r \in requests, r.what.action # "APPROVE", Retained(r) = {}, ControlError(r) = "OK",
         Control(r), effects' = Append(effects, r), UNCHANGED <<sources, requests>>
  PROVE  CatalogInv'
<1> DEFINE s == r.scope
           view == scopes[s]
           after == Controlled(view, r.what)
           kept == {g \in generations[s] : g.rev \in Pointers(after)}
<1>1. r \in Requests /\ r.what \in Whats /\ s \in ScopeIds
  BY DEF CatalogInv, TablesInv, Requests
<1>2. r.what.action \in {"FREEZE", "UNFREEZE", "REVOKE", "RETIRE", "ROLLBACK"}
  BY <1>1 DEF Whats
<1>3. view \in Views /\ Readable(view, generations[s])
  BY <1>1, AllReadable
<1>4. /\ view.rev \in Nat /\ view.frozen \in BOOLEAN /\ view.accepted \in Nat /\ view.active \in Nat
      /\ view.previous \in Nat
  BY <1>3 DEF Views
<1>5. view.rev = r.rev /\ (r.what.action = "ROLLBACK" => view.previous # 0)
  <2>1. CASE view.rev # r.rev
    BY <2>1 DEF ControlError
  <2>2. CASE view.rev = r.rev /\ r.what.action = "ROLLBACK" /\ view.previous = 0
    BY <2>2 DEF ControlError
  <2> QED
    BY <2>1, <2>2
<1>6. /\ after \in Views /\ after.creator = view.creator /\ after.rev = view.rev + 1
      /\ after.accepted = view.accepted
      /\ after.active \in {0, view.active, view.previous} /\ after.previous \in {0, view.previous}
      /\ after.previous # 0 => after.active = view.active
      /\ (after.state = "HAS_REFERENCE") = (after.active # 0)
  <2> DEFINE ends == r.what.action \in {"REVOKE", "RETIRE"}
             frozen == r.what.action # "UNFREEZE"
             state == CASE r.what.action = "REVOKE" -> "REVOKED" [] r.what.action = "RETIRE" -> "RETIRED"
                        [] OTHER -> view.state
             active == IF ends THEN 0 ELSE IF r.what.action = "ROLLBACK" THEN view.previous ELSE view.active
             previous == IF ends \/ r.what.action = "ROLLBACK" THEN 0 ELSE view.previous
  <2>1. view.rev + 1 \in Nat /\ frozen \in BOOLEAN /\ active \in Nat /\ previous \in Nat
    BY <1>4
  <2>2. /\ ends => state \in {"REVOKED", "RETIRED"}
        /\ ~ends => state = view.state
        /\ state \in {"EMPTY", "HAS_REFERENCE", "REVOKED", "RETIRED"}
    <3>1. view.state \in {"EMPTY", "HAS_REFERENCE", "REVOKED", "RETIRED"}
      BY <1>3, ViewFields
    <3> QED
      BY <1>2, <3>1
  <2>3. after = [view EXCEPT !.rev = view.rev + 1, !.frozen = frozen, !.state = state, !.active = active,
                             !.previous = previous]
    BY <1>3 DEF Controlled, Views
  <2> HIDE DEF frozen, state, after
  <2>4. after \in Views
    <3> HIDE DEF active, previous, ends, view
    <3> QED
      BY <1>3, <2>1, <2>2, <2>3, ControlledView, Zenon
  <2>5. /\ after.creator = view.creator /\ after.rev = view.rev + 1 /\ after.accepted = view.accepted
        /\ after.state = state /\ after.active = active /\ after.previous = previous
    <3> HIDE DEF active, previous, ends
    <3> QED
      BY <1>3, <2>3 DEF Views
  <2>6. (view.state = "HAS_REFERENCE") = (view.active # 0) /\ (view.previous # 0 => view.active # 0)
    BY <1>3, <1>4 DEF Readable
  <2> QED
    BY <1>2, <1>4, <1>5, <2>2, <2>4, <2>5, <2>6
<1>7. /\ scopes' = [scopes EXCEPT ![s] = after]
      /\ generations' = [generations EXCEPT ![s] = kept]
      /\ operations' = [operations EXCEPT ![s] = RetainOperation(s, r)]
  BY <1>1 DEF Control, CatalogInv, TablesInv
<1> HIDE DEF after
<1>8. scopes'[s] = after /\ \A t \in ScopeIds \ {s} : scopes'[t] = scopes[t]
  BY <1>1, <1>7 DEF CatalogInv, TablesInv
<1>9. DOMAIN scopes' = ScopeIds /\ scopes' = [t \in ScopeIds |-> scopes'[t]]
  BY <1>7, Zenon DEF CatalogInv, TablesInv
<1>10. Applies(r)
  BY <1>4, <1>5, <1>6, <1>8 DEF Applies
<1>11. Pointers(after) \in SUBSET Pointers(view)
  BY <1>6 DEF Pointers
<1>12. {g.rev : g \in kept} = Pointers(after)
  <2>1. \A n \in Pointers(view) : \E g \in generations[s] : g.rev = n
    BY <1>3 DEF Readable
  <2> QED
    BY <1>11, <2>1
<1>13. Readable(after, kept)
  <2>1. kept \in SUBSET generations[s]
    OBVIOUS
  <2>2. \A g \in kept : /\ g.rev <= after.rev /\ ValidDocument(g) /\ IsFiniteSet(g.roots)
                        /\ \A e \in g.roots : e <= after.accepted
    BY <1>3, <1>4, <1>6, <2>1 DEF Readable, Generations
  <2>3. after.previous # 0 => after.previous < after.active
    BY <1>3, <1>4, <1>6 DEF Readable
  <2>4. /\ kept \in SUBSET Generations
        /\ \A g, h \in kept : g.rev = h.rev => g = h
    BY <1>3, <2>1 DEF Readable
  <2> HIDE DEF kept
  <2> QED
    BY <1>6, <1>12, <2>2, <2>3, <2>4 DEF Readable
<1> QED
  <2>1. Readable(scopes'[r.scope], kept)
    BY <1>8, <1>13
  <2> HIDE DEF kept
  <2> QED
    BY <1>7, <1>9, <1>10, <2>1, Applied, Zenon

-----------------------------------------------------------------------------
(* The catalogue's part of a step.                                         *)

LEMMA CatalogStarts == CatalogInit /\ effects = << >> => CatalogInv
<1> SUFFICES ASSUME CatalogInit, effects = << >> PROVE CatalogInv
  OBVIOUS
<1>1. NoScope \in Views /\ Pointers(NoScope) = {} /\ NoScope.creator = Unclaimed
  BY DEF NoScope, Views, Pointers
<1>2. \A s \in ScopeIds : scopes[s] = NoScope /\ generations[s] = {} /\ operations[s] = {}
  BY DEF CatalogInit
<1>3. TablesInv
  <2>1. \A j \in Sources : sources[j] \in SourceRows
    BY DEF CatalogInit, SourceRows
  <2>2. effects \in Seq(Requests)
    OBVIOUS
  <2> QED
    BY <1>1, <2>1, <2>2 DEF CatalogInit, TablesInv
<1>4. CreatedInv /\ GenerationsInv
  BY <1>1, <1>2 DEF CatalogInit, CreatedInv, GenerationsInv, Exists
<1>5. ReceiptsInv
  BY <1>2, FS_EmptySet, Zenon DEF ReceiptsInv
<1>6. EffectsInv /\ ApprovedOnce /\ AppliedOnce
  BY DEF EffectsInv, ApprovedOnce, AppliedOnce
<1>7. ScopesReadable
  <2>1. NoScope.previous = 0 /\ NoScope.active = 0 /\ NoScope.state = "EMPTY" /\ 0 <= MaxOperations
    BY BaselineConstants DEF NoScope
  <2>2. {g.rev : g \in {}} = {}
    OBVIOUS
  <2> QED
    BY <1>1, <1>2, <2>1, <2>2, FS_EmptySet, Zenon DEF ScopesReadable
<1> QED
  BY <1>3, <1>4, <1>5, <1>6, <1>7 DEF CatalogInv, ScopesAreSound

LEMMA CatalogStays ==
  ASSUME CatalogInv, UNCHANGED <<scopes, generations, operations, effects>>,
         requests' \in SUBSET Requests, \A r \in requests' : Exists(r.scope),
         sources' \in [Sources -> SourceRows],
         \A j \in Sources : sources'[j].state = "PARTIALLY_COMPLETED" => sources[j].state = "PARTIALLY_COMPLETED"
  PROVE  CatalogInv'
<1>1. TablesInv'
  BY DEF CatalogInv, TablesInv
<1>2. CreatedInv' /\ GenerationsInv' /\ ReceiptsInv'
  BY DEF CatalogInv, CreatedInv, GenerationsInv, ReceiptsInv, Exists
<1>3. EffectsInv'
  <2>1. \A i \in DOMAIN effects : effects[i] \in Requests
    BY DEF CatalogInv, TablesInv
  <2>2. \A r \in Requests : r.what.action = "APPROVE" => r.what.source \in Sources
    BY DEF Requests, Whats
  <2> QED
    BY <2>1, <2>2 DEF CatalogInv, EffectsInv
<1>4. ScopesAreSound'
  BY DEF CatalogInv, ScopesAreSound, ScopesReadable, ApprovedOnce, AppliedOnce, ValidDocument
<1> QED
  BY <1>1, <1>2, <1>3, <1>4 DEF CatalogInv

LEMMA AskKeeps ==
  ASSUME CatalogInv, NEW s \in ScopeIds, NEW key \in 1 .. MaxRequests, NEW what \in Controls(s) \cup Approvals,
         Ask(s, key, what), effects' = effects
  PROVE  CatalogInv'
<1>1. MaxRequests \in Nat
  BY BaselineConstants
<1>2. scopes[s] \in Views /\ sources \in [Sources -> SourceRows] /\ requests \in SUBSET Requests
  BY DEF CatalogInv, TablesInv
<1>3. scopes[s].rev \in Nat /\ scopes[s].active \in Nat /\ scopes[s].previous \in Nat
  BY <1>2, ViewFields
<1>4. what \in Whats
  <2>1. CASE what \in Controls(s)
    BY <1>3, <2>1 DEF Controls, Pointers, Whats
  <2>2. CASE what \in Approvals
    BY <1>2, <2>2 DEF Approvals, Whats, SourceRows
  <2> QED
    BY <2>1, <2>2
<1> DEFINE r == [scope |-> s, key |-> key, rev |-> scopes[s].rev, what |-> what]
<1>5. r \in Requests /\ r.scope = s
  BY <1>1, <1>3, <1>4 DEF Requests
<1>6. requests' = requests \cup {r} /\ Exists(s)
  BY DEF Ask
<1>7. \A q \in requests : Exists(q.scope)
  BY DEF CatalogInv, CreatedInv
<1> HIDE DEF r
<1>8. requests' \in SUBSET Requests /\ \A q \in requests' : Exists(q.scope)
  BY <1>2, <1>5, <1>6, <1>7
<1> QED
  BY <1>2, <1>8, CatalogStays DEF Ask

LEMMA ChangeKeeps ==
  ASSUME CatalogInv, NEW j \in Sources, NEW state \in {"COMPLETED", "PARTIALLY_COMPLETED", "GONE"},
         ChangeSource(j, state), effects' = effects
  PROVE  CatalogInv'
<1>1. sources \in [Sources -> SourceRows] /\ requests \in SUBSET Requests /\ \A q \in requests : Exists(q.scope)
  BY DEF CatalogInv, TablesInv, CreatedInv
<1>2. sources' = [sources EXCEPT ![j] = [state |-> state, edit |-> sources[j].edit + 1]]
      /\ state \in {sources[j].state, "GONE"}
  BY DEF ChangeSource
<1>3. [state |-> state, edit |-> sources[j].edit + 1] \in SourceRows
  BY <1>1 DEF SourceRows
<1>4. sources' \in [Sources -> SourceRows]
  BY <1>1, <1>2, <1>3
<1>5. \A i \in Sources : sources'[i].state = "PARTIALLY_COMPLETED" => sources[i].state = "PARTIALLY_COMPLETED"
  BY <1>1, <1>2
<1> QED
  BY <1>1, <1>4, <1>5, CatalogStays DEF ChangeSource

LEMMA CreateKeeps ==
  ASSUME CatalogInv, NEW s \in ScopeIds, NEW creator \in Creators, memory_create(s, creator), effects' = effects
  PROVE  CatalogInv'
<1> DEFINE new == [NoScope EXCEPT !.creator = creator]
<1>1. scopes[s] = NoScope /\ scopes' = [scopes EXCEPT ![s] = new]
  BY DEF memory_create, CatalogInv, CreatedInv
<1>2. new \in Views /\ new.creator = creator
  BY Zenon DEF NoScope, Views
<1>3. /\ new.rev = NoScope.rev /\ new.accepted = NoScope.accepted /\ new.active = NoScope.active
      /\ new.previous = NoScope.previous /\ new.state = NoScope.state
  BY DEF NoScope
<1>4. creator = Unclaimed => new = NoScope
  <2>1. NoScope.creator = Unclaimed
    BY DEF NoScope
  <2>2. NoScope = [NoScope EXCEPT !.creator = NoScope.creator]
    BY Zenon DEF NoScope
  <2> HIDE DEF NoScope
  <2> QED
    BY <2>1, <2>2
<1> HIDE DEF new
<1>5. scopes \in [ScopeIds -> Views]
  BY DEF CatalogInv, TablesInv
<1>6. scopes' \in [ScopeIds -> Views] /\ scopes'[s] = new /\ \A t \in ScopeIds \ {s} : scopes'[t] = scopes[t]
  BY <1>1, <1>2, <1>5
<1>7. \A t \in ScopeIds : /\ scopes'[t].rev = scopes[t].rev /\ scopes'[t].accepted = scopes[t].accepted
                          /\ scopes'[t].active = scopes[t].active /\ scopes'[t].previous = scopes[t].previous
                          /\ scopes'[t].state = scopes[t].state
  BY <1>1, <1>3, <1>6
<1>8. TablesInv'
  BY <1>6 DEF CatalogInv, TablesInv, memory_create
<1>9. CreatedInv'
  <2>1. \A t \in ScopeIds : scopes'[t].creator = Unclaimed => scopes'[t] = NoScope
    BY <1>2, <1>4, <1>6 DEF CatalogInv, CreatedInv, Exists
  <2>2. \A q \in requests : q.scope \in ScopeIds \ {s} /\ scopes[q.scope].creator # Unclaimed
    BY DEF CatalogInv, CreatedInv, TablesInv, Requests, Exists, memory_create
  <2>3. requests' = requests
    BY DEF memory_create
  <2> QED
    BY <1>6, <2>1, <2>2, <2>3 DEF CreatedInv, Exists
<1>10. GenerationsInv' /\ ReceiptsInv'
  BY <1>7 DEF CatalogInv, GenerationsInv, ReceiptsInv, memory_create
<1>11. EffectsInv'
  <2>1. \A i \in DOMAIN effects : effects[i].scope \in ScopeIds
    <3>1. \A i \in DOMAIN effects : effects[i] \in Requests
      BY DEF CatalogInv, TablesInv
    <3> QED
      BY <3>1 DEF Requests
  <2> QED
    BY <1>7, <2>1 DEF CatalogInv, EffectsInv, memory_create
<1>12. ScopesAreSound'
  <2>1. ApprovedOnce' /\ AppliedOnce'
    BY DEF CatalogInv, ScopesAreSound, ApprovedOnce, AppliedOnce
  <2>2. \A t \in ScopeIds : Pointers(scopes'[t]) = Pointers(scopes[t])
    BY <1>7 DEF Pointers
  <2>3. UNCHANGED <<generations, operations>>
    BY Zenon DEF memory_create
  <2>4. ScopesReadable'
    BY <1>7, <2>2, <2>3, Zenon DEF CatalogInv, ScopesAreSound, ScopesReadable, ValidDocument
  <2> QED
    BY <2>1, <2>4 DEF ScopesAreSound
<1> QED
  BY <1>8, <1>9, <1>10, <1>11, <1>12 DEF CatalogInv

-----------------------------------------------------------------------------
(* The calls' part of a step.                                              *)

\* What a controller's move does to the calls.
TurnsInto(c, call) == calls' = [calls EXCEPT ![c] = call]

LEMMA CallsStay ==
  ASSUME CallsInv, calls' = calls, requests \in SUBSET requests',
         \A j \in Sources : Locked(j) => sources'[j] = sources[j], requests \in SUBSET Requests
  PROVE  CallsInv'
<1> SUFFICES ASSUME NEW c \in Controllers PROVE CallOK(calls[c])'
  BY DEF CallsInv
<1>1. calls'[c] = calls[c] /\ CallOK(calls[c])
  BY DEF CallsInv
<1>2. CASE calls[c] = NoCall
  BY <1>1, <1>2 DEF CallOK, NoCall
<1>3. CASE Working(calls[c])
  BY <1>1, <1>3, Zenon DEF CallOK, Working
<1>4. CASE Seeing(calls[c])
  <2>1. calls[c].pc = "publish" => sources'[calls[c].request.what.source] = sources[calls[c].request.what.source]
    <3> SUFFICES ASSUME calls[c].pc = "publish"
                 PROVE  sources'[calls[c].request.what.source] = sources[calls[c].request.what.source]
      OBVIOUS
    <3>1. calls[c].request \in Requests /\ calls[c].request.what.action = "APPROVE"
      BY <1>4 DEF Seeing
    <3>2. calls[c].request.what.source \in Sources
      BY <3>1 DEF Requests, Whats
    <3>3. Locked(calls[c].request.what.source)
      BY DEF Locked, Calls
    <3> QED
      BY <3>2, <3>3
  <2> QED
    BY <1>1, <1>4, <2>1 DEF CallOK, Seeing
<1>5. CASE Replying(calls[c])
  BY <1>1, <1>5 DEF CallOK, Replying
<1> QED
  BY <1>1, <1>2, <1>3, <1>4, <1>5 DEF CallOK

LEMMA CallStays ==
  ASSUME NEW call, CallOK(call), requests \in SUBSET requests', sources' = sources
  PROVE  CallOK(call)'
<1>1. CASE call = NoCall
  BY <1>1 DEF CallOK, NoCall
<1>2. CASE Working(call)
  BY <1>2 DEF CallOK, Working
<1>3. CASE Seeing(call)
  BY <1>3 DEF CallOK, Seeing
<1>4. CASE Replying(call)
  BY <1>4 DEF CallOK, Replying
<1> QED
  BY <1>1, <1>2, <1>3, <1>4 DEF CallOK

LEMMA CallsMove ==
  ASSUME CallsInv, NEW c \in Controllers, NEW call, TurnsInto(c, call), CallOK(call)',
         requests \in SUBSET requests', sources' = sources
  PROVE  CallsInv'
<1>1. /\ DOMAIN calls' = Controllers /\ calls' = [d \in Controllers |-> calls'[d]]
      /\ calls'[c] = call /\ \A d \in Controllers \ {c} : calls'[d] = calls[d]
  BY DEF TurnsInto, CallsInv
<1>2. ASSUME NEW d \in Controllers PROVE CallOK(calls[d])'
  <2>1. CASE d = c
    BY <1>1, <2>1 DEF CallOK, Working, Seeing, Replying
  <2>2. CASE d # c
    <3>1. PICK own : own = calls[d]
      OBVIOUS
    <3>2. CallOK(own)
      BY <3>1 DEF CallsInv
    <3>3. CallOK(own)'
      BY <3>2, CallStays
    <3>4. own = calls'[d]
      BY <1>1, <2>2, <3>1
    <3> QED
      BY <3>3, <3>4 DEF CallOK, Working, Seeing, Replying
  <2> QED
    BY <2>1, <2>2
<1> QED
  BY <1>1, <1>2 DEF CallsInv

LEMMA OthersReply ==
  ASSUME CallsInv, NEW c \in Controllers, NEW call, TurnsInto(c, call), TrueReply(c)
  PROVE  \A d \in Controllers : TrueReply(d)
<1>1. \A d \in Controllers \ {c} : calls'[d] = calls[d]
  BY DEF TurnsInto, CallsInv
<1> QED
  BY <1>1 DEF TrueReply, At

\* The receipt of a request is of a change that was made, and its key has no other.
LEMMA Replayed ==
  ASSUME CatalogInv, NEW r \in requests
  PROVE  /\ Replays(r) => (\E i \in DOMAIN effects : effects[i] = r) /\ ~KeyTaken(r)
         /\ ~Replays(r) /\ ~KeyTaken(r) => Retained(r) = {}
<1>1. r.scope \in ScopeIds
  BY DEF CatalogInv, TablesInv, Requests
<1> QED
  BY <1>1 DEF Replays, KeyTaken, Retained, CatalogInv, ReceiptsInv

\* What a step has to show.
StepOK == /\ ScopesInv' /\ [CatalogNext]_catalogVars
          /\ \A c \in Controllers : TrueReply(c)

\* A controller's move that leaves the catalogue alone.
LEMMA QuietMove ==
  ASSUME ScopesInv, NEW c \in Controllers, NEW call, TurnsInto(c, call), CallOK(call),
         UNCHANGED <<catalogVars, effects>>,
         call.pc = "reply" =>
            /\ call.result = "ok" => Replays(calls[c].request) /\ calls[c].request \in requests
            /\ call.result = "refused" => ~Replays(calls[c].request)
  PROVE  StepOK
<1>1. UNCHANGED <<scopes, generations, operations, sources, requests, effects>>
  BY DEF catalogVars
<1>2. CatalogInv'
  <2>1. requests' \in SUBSET Requests /\ sources' \in [Sources -> SourceRows] /\ \A r \in requests' : Exists(r.scope)
    BY <1>1 DEF ScopesInv, CatalogInv, TablesInv, CreatedInv
  <2> QED
    BY <1>1, <2>1, CatalogStays, Zenon DEF ScopesInv
<1>3. CallsInv'
  <2>1. CallOK(call)'
    BY <1>1, CallStays
  <2> QED
    BY <1>1, <2>1, CallsMove DEF ScopesInv
<1>4. calls'[c] = call
  BY DEF ScopesInv, CallsInv, TurnsInto
<1>5. TrueReply(c)
  <2>1. call.pc = "reply" /\ call.result = "ok" => \E i \in DOMAIN effects : effects[i] = calls[c].request
    BY Replayed DEF ScopesInv
  <2> QED
    BY <1>1, <1>4, <2>1 DEF TrueReply
<1>6. \A d \in Controllers : TrueReply(d)
  BY <1>5, OthersReply DEF ScopesInv
<1> QED
  BY <1>1, <1>2, <1>3, <1>6 DEF StepOK, ScopesInv, catalogVars

\* A controller that is busy has a request, and goes on with it.
LEMMA Requesting ==
  ASSUME ScopesInv, NEW c \in Controllers, ~At(c, "idle")
  PROVE  calls[c].request \in requests
<1>1. CallOK(calls[c]) /\ calls[c] # NoCall
  BY DEF ScopesInv, CallsInv, At, NoCall
<1> QED
  BY <1>1 DEF CallOK, Working, Seeing, Replying

LEMMA ReplyMove ==
  ASSUME ScopesInv, NEW c \in Controllers, ~At(c, "idle"), NEW result \in Results, Reply(c, result)
  PROVE  \E call : /\ TurnsInto(c, call) /\ CallOK(call)
                   /\ call = [pc |-> "reply", request |-> calls[c].request, result |-> result]
<1>1. PICK call : call = [pc |-> "reply", request |-> calls[c].request, result |-> result]
  BY Zenon
<1>2. TurnsInto(c, call)
  BY <1>1 DEF Reply, TurnsInto, ScopesInv, CallsInv
<1>3. calls[c].request \in requests
  BY Requesting
<1>4. CallOK(call)
  BY <1>1, <1>3 DEF CallOK, Replying
<1> QED
  BY <1>1, <1>2, <1>4

LEMMA WorkingMove ==
  ASSUME ScopesInv, NEW c \in Controllers, Working(calls[c]), NEW step \in {"discover", "recover", "control", "readback"},
         Goto(c, step), step = "discover" => calls[c].request.what.action = "APPROVE",
         step = "control" => calls[c].request.what.action # "APPROVE"
  PROVE  \E call : TurnsInto(c, call) /\ CallOK(call) /\ call.pc = step
<1>1. PICK call : call = [calls[c] EXCEPT !.pc = step]
  BY Zenon
<1>2. TurnsInto(c, call)
  BY <1>1 DEF Goto, TurnsInto, ScopesInv, CallsInv
<1>3. Working(call) /\ call.pc = step
  BY <1>1 DEF Working
<1> QED
  BY <1>2, <1>3 DEF CallOK

LEMMA SeeingMove ==
  ASSUME ScopesInv, NEW c \in Controllers, Seeing(calls[c]), NEW step \in {"publish", "recover", "readback"},
         Goto(c, step),
         step = "publish" => /\ calls[c].request.what.action = "APPROVE" /\ calls[c].seen.state = "COMPLETED"
                           /\ calls[c].seen = sources[calls[c].request.what.source]
  PROVE  \E call : TurnsInto(c, call) /\ CallOK(call) /\ call.pc = step
<1>1. PICK call : call = [calls[c] EXCEPT !.pc = step]
  BY Zenon
<1>2. TurnsInto(c, call)
  BY <1>1 DEF Goto, TurnsInto, ScopesInv, CallsInv
<1>3. Seeing(call) /\ call.pc = step
  BY <1>1 DEF Seeing
<1> QED
  BY <1>2, <1>3 DEF CallOK

-----------------------------------------------------------------------------
(* The actions.                                                            *)

\* Which shape the record of a call has where it is.
LEMMA Shapes ==
  ASSUME ScopesInv, NEW c \in Controllers
  PROVE  /\ At(c, "replay") \/ At(c, "discover") \/ At(c, "control") => Working(calls[c])
         /\ At(c, "lock") \/ At(c, "publish") => Seeing(calls[c])
<1>1. CallOK(calls[c])
  BY DEF ScopesInv, CallsInv
<1> QED
  BY <1>1 DEF CallOK, Working, Seeing, Replying, NoCall, At

\* A reply that leaves the catalogue alone.
LEMMA QuietReply ==
  ASSUME ScopesInv, NEW c \in Controllers, ~At(c, "idle"), NEW result \in Results, Reply(c, result),
         UNCHANGED <<catalogVars, effects>>,
         result = "ok" => Replays(calls[c].request), result = "refused" => ~Replays(calls[c].request)
  PROVE  StepOK
<1>1. PICK call : /\ TurnsInto(c, call) /\ CallOK(call)
                  /\ call = [pc |-> "reply", request |-> calls[c].request, result |-> result]
  BY ReplyMove
<1>2. call.result = result /\ calls[c].request \in requests
  BY <1>1, Requesting
<1> QED
  BY <1>1, <1>2, QuietMove

LEMMA ReplayOK ==
  ASSUME ScopesInv, NEW c \in Controllers, Replay(c)
  PROVE  StepOK
<1> DEFINE r == calls[c].request
<1>1. At(c, "replay") /\ ~At(c, "idle") /\ UNCHANGED <<catalogVars, effects>>
  BY DEF Replay, At
<1>2. Working(calls[c]) /\ r \in requests
  BY <1>1, Shapes, Requesting
<1>3. Replays(r) => ~KeyTaken(r)
  BY <1>2, Replayed DEF ScopesInv
<1>4. CASE c \in broken
  <2>1. Reply(c, "unavailable")
    BY <1>4 DEF Replay
  <2> QED
    BY <1>1, <2>1, QuietReply DEF Results
<1>5. CASE c \notin broken /\ Replays(r)
  <2>1. Reply(c, "ok")
    BY <1>3, <1>5 DEF Replay
  <2> QED
    BY <1>1, <1>5, <2>1, QuietReply DEF Results
<1>6. CASE c \notin broken /\ KeyTaken(r)
  <2>1. Reply(c, "refused")
    BY <1>3, <1>6 DEF Replay
  <2> QED
    BY <1>1, <1>3, <1>6, <2>1, QuietReply DEF Results
<1>7. CASE c \notin broken /\ ~Replays(r) /\ ~KeyTaken(r)
  <2>1. PICK step \in {"discover", "control"} :
           Goto(c, step) /\ (step = "discover" <=> r.what.action = "APPROVE")
    BY <1>7 DEF Replay
  <2>2. PICK call : TurnsInto(c, call) /\ CallOK(call) /\ call.pc = step
    BY <1>2, <2>1, WorkingMove
  <2> QED
    BY <1>1, <2>2, QuietMove
<1> QED
  BY <1>4, <1>5, <1>6, <1>7

LEMMA DiscoverOK ==
  ASSUME ScopesInv, NEW c \in Controllers, Discover(c)
  PROVE  StepOK
<1> DEFINE r == calls[c].request
           source == sources[r.what.source]
<1>1. At(c, "discover") /\ ~At(c, "idle") /\ UNCHANGED <<catalogVars, effects>>
  BY DEF Discover, At
<1>2. Working(calls[c]) /\ r \in requests /\ r.what.action = "APPROVE"
  BY <1>1, Shapes, Requesting DEF Working, At
<1>3. source \in SourceRows
  BY <1>2, Zenon DEF ScopesInv, CatalogInv, TablesInv, Requests, Whats
<1>4. CASE source.state = "GONE"
  <2>1. Goto(c, "recover")
    BY <1>4 DEF Discover
  <2>2. PICK call : TurnsInto(c, call) /\ CallOK(call) /\ call.pc = "recover"
    BY <1>2, <2>1, WorkingMove
  <2> QED
    BY <1>1, <2>2, QuietMove
<1>5. CASE source.state # "GONE"
  <2>1. PICK call : call = [pc |-> "lock", request |-> r, seen |-> source]
    BY Zenon
  <2>2. TurnsInto(c, call)
    BY <1>5, <2>1, Zenon DEF Discover, TurnsInto, ScopesInv, CallsInv
  <2> HIDE DEF r, source
  <2>3. Seeing(call) /\ call.pc = "lock"
    BY <1>2, <1>3, <1>5, <2>1 DEF Seeing
  <2> QED
    BY <1>1, <2>2, <2>3, QuietMove DEF CallOK
<1> QED
  BY <1>4, <1>5

LEMMA LockOK ==
  ASSUME ScopesInv, NEW c \in Controllers, LockSource(c)
  PROVE  StepOK
<1> DEFINE r == calls[c].request
           source == sources[r.what.source]
<1>1. At(c, "lock") /\ ~At(c, "idle") /\ UNCHANGED <<catalogVars, effects>>
  BY DEF LockSource, At
<1>2. Seeing(calls[c]) /\ r \in requests /\ r.what.action = "APPROVE" /\ calls[c].seen.state # "GONE"
  BY <1>1, Shapes, Requesting DEF Seeing, At
<1>3. CASE source # calls[c].seen
  <2>1. Goto(c, "recover")
    BY <1>3 DEF LockSource
  <2>2. PICK call : TurnsInto(c, call) /\ CallOK(call) /\ call.pc = "recover"
    BY <1>2, <2>1, SeeingMove
  <2> QED
    BY <1>1, <2>2, QuietMove
<1>4. CASE source = calls[c].seen /\ source.state # "COMPLETED"
  <2>1. Reply(c, "refused")
    BY <1>4 DEF LockSource
  <2>2. source.state = "PARTIALLY_COMPLETED"
    BY <1>2, <1>4, Zenon DEF Seeing, SourceRows
  <2>3. ~Replays(r)
    BY <1>2, <2>2, Replayed DEF ScopesInv, CatalogInv, EffectsInv
  <2> QED
    BY <1>1, <2>1, <2>3, QuietReply DEF Results
<1>5. CASE source = calls[c].seen /\ source.state = "COMPLETED"
  <2>1. Goto(c, "publish")
    BY <1>5 DEF LockSource
  <2>2. PICK call : TurnsInto(c, call) /\ CallOK(call) /\ call.pc = "publish"
    BY <1>2, <1>5, <2>1, SeeingMove
  <2> QED
    BY <1>1, <2>2, QuietMove
<1> QED
  BY <1>3, <1>4, <1>5

\* Writing: the change is made, and the call moves on or its connection is lost; or
\* nothing happens but that.
LEMMA WriteOK ==
  ASSUME ScopesInv, NEW c \in Controllers, ~At(c, "idle"), NEW call, TurnsInto(c, call), CallOK(call),
         UNCHANGED <<sources, requests>>, CatalogInv', CatalogNext,
         call.pc = "reply" => call.result = "unavailable",
         At(c, "publish") => sources[calls[c].request.what.source]
                               = [state |-> "COMPLETED", edit |-> calls[c].request.what.binding]
  PROVE  StepOK
<1>1. CallsInv'
  <2>1. CallOK(call)'
    BY CallStays
  <2> QED
    BY <2>1, CallsMove DEF ScopesInv
<1>2. calls'[c] = call
  BY DEF ScopesInv, CallsInv, TurnsInto
<1>3. TrueReply(c)
  BY <1>2 DEF TrueReply
<1>4. \A d \in Controllers : TrueReply(d)
  BY <1>3, OthersReply DEF ScopesInv
<1> QED
  BY <1>1, <1>4 DEF StepOK, ScopesInv

LEMMA PublishOK ==
  ASSUME ScopesInv, NEW c \in Controllers, PublishStep(c)
  PROVE  StepOK
<1> DEFINE r == calls[c].request
           error == ApprovalError(r, calls[c].seen)
<1>1. At(c, "publish") /\ ~At(c, "idle") /\ UNCHANGED <<sources, requests>>
  BY Zenon DEF PublishStep, At
<1>2. /\ Seeing(calls[c]) /\ r \in requests /\ r.what.action = "APPROVE"
      /\ calls[c].seen = sources[r.what.source] /\ calls[c].seen.state = "COMPLETED" /\ calls[c].seen \in SourceRows
  BY <1>1, Shapes, Requesting DEF Seeing, At
<1>3. CASE Replays(r)
  <2>1. Reply(c, "ok") /\ UNCHANGED <<scopes, generations, operations, effects>>
    BY <1>3 DEF PublishStep
  <2> QED
    BY <1>1, <1>3, <2>1, QuietReply DEF Results, catalogVars
<1>4. ASSUME ~Replays(r), Refuse(c, "reply") \/ Refuse(c, "recover")
      PROVE  StepOK
  <2>1. UNCHANGED <<catalogVars, effects>>
    BY <1>1, <1>4 DEF Refuse, catalogVars
  <2>2. CASE Refuse(c, "reply")
    BY <1>1, <1>4, <2>1, <2>2, QuietReply DEF Results, Refuse
  <2>3. CASE Refuse(c, "recover")
    <3>1. Goto(c, "recover")
      BY <2>3, Zenon DEF Refuse
    <3>2. PICK call : TurnsInto(c, call) /\ CallOK(call) /\ call.pc = "recover"
      BY <1>2, <3>1, SeeingMove
    <3> QED
      BY <2>1, <3>2, QuietMove
  <2> QED
    BY <1>4, <2>2, <2>3
<1>5. CASE ~Replays(r) /\ ~KeyTaken(r) /\ error = "OK"
  <2>1. Commit(c, Publish(r), "readback") /\ Retained(r) = {}
    BY <1>2, <1>5, Replayed, Zenon DEF PublishStep, ScopesInv
  <2>2. ASSUME Publish(r), effects' = Append(effects, r), Goto(c, "readback") \/ Reply(c, "unavailable")
        PROVE  StepOK
    <3>1. CatalogInv'
      BY <1>1, <1>2, <1>5, <2>1, <2>2, PublishKeeps, Zenon DEF ScopesInv
    <3>2. memory_publish(r)
      BY <1>1, <1>2, <1>5, <2>1, <2>2, Zenon DEF memory_publish
    <3>3. CatalogNext
      BY <1>2, <3>2, Zenon DEF CatalogNext
    <3>4. sources[r.what.source] = [state |-> "COMPLETED", edit |-> r.what.binding]
      <4>1. scopes[r.scope] \in Views /\ r.what.source[1] \in Nat
        BY <1>2, BaselineConstants, Zenon DEF ScopesInv, CatalogInv, TablesInv, Requests, Whats
      <4>2. scopes[r.scope].frozen \in BOOLEAN /\ scopes[r.scope].accepted \in Nat
        BY <4>1, ViewFields
      <4>3. calls[c].seen.edit = r.what.binding
        BY <1>5, <4>1, <4>2, Approved, Zenon
      <4> HIDE DEF r
      <4> QED
        BY <1>2, <4>3, Zenon DEF SourceRows
    <3>5. PICK call : /\ TurnsInto(c, call) /\ CallOK(call)
                      /\ call.pc = "readback" \/ (call.pc = "reply" /\ call.result = "unavailable")
      <4>1. CASE Goto(c, "readback")
        <5>1. \E call : TurnsInto(c, call) /\ CallOK(call) /\ call.pc = "readback"
          BY <1>2, <4>1, SeeingMove
        <5> QED
          BY <5>1
      <4>2. CASE Reply(c, "unavailable")
        <5>1. \E call : /\ TurnsInto(c, call) /\ CallOK(call)
                        /\ call = [pc |-> "reply", request |-> calls[c].request, result |-> "unavailable"]
          BY <1>1, <4>2, ReplyMove DEF Results
        <5> QED
          BY <5>1
      <4> QED
        BY <2>2, <4>1, <4>2
    <3> QED
      BY <1>1, <3>1, <3>3, <3>4, <3>5, WriteOK, Zenon
  <2>3. ASSUME UNCHANGED <<scopes, generations, operations, effects>>, Reply(c, "unavailable")
        PROVE  StepOK
    BY <1>1, <2>3, QuietReply DEF Results, catalogVars
  <2> QED
    BY <2>1, <2>2, <2>3 DEF Commit
<1>6. CASE ~Replays(r) /\ ~(~KeyTaken(r) /\ error = "OK")
  <2>1. Refuse(c, "reply") \/ Refuse(c, "recover")
    BY <1>6 DEF PublishStep
  <2> QED
    BY <1>4, <1>6, <2>1
<1> QED
  BY <1>3, <1>5, <1>6

LEMMA ControlOK ==
  ASSUME ScopesInv, NEW c \in Controllers, ControlStep(c)
  PROVE  StepOK
<1> DEFINE r == calls[c].request
<1>1. At(c, "control") /\ ~At(c, "idle") /\ ~At(c, "publish") /\ UNCHANGED <<sources, requests>>
  BY DEF ControlStep, At
<1>2. Working(calls[c]) /\ r \in requests /\ r.what.action # "APPROVE"
  BY <1>1, Shapes, Requesting DEF Working, At
<1>3. CASE Replays(r)
  <2>1. Reply(c, "ok") /\ UNCHANGED <<scopes, generations, operations, effects>>
    BY <1>3 DEF ControlStep
  <2> QED
    BY <1>1, <1>3, <2>1, QuietReply DEF Results, catalogVars
<1>4. CASE ~Replays(r) /\ (KeyTaken(r) \/ ControlError(r) # "OK")
  <2>1. Refuse(c, "reply")
    BY <1>4 DEF ControlStep
  <2>2. Reply(c, "refused") /\ UNCHANGED <<catalogVars, effects>>
    BY <1>1, <2>1, Zenon DEF Refuse, catalogVars
  <2> QED
    BY <1>1, <1>4, <2>2, QuietReply DEF Results
<1>5. CASE ~Replays(r) /\ ~KeyTaken(r) /\ ControlError(r) = "OK"
  <2>1. Commit(c, Control(r), "readback") /\ Retained(r) = {}
    BY <1>2, <1>5, Replayed, Zenon DEF ControlStep, ScopesInv
  <2>2. ASSUME Control(r), effects' = Append(effects, r), Goto(c, "readback") \/ Reply(c, "unavailable")
        PROVE  StepOK
    <3>1. CatalogInv'
      BY <1>1, <1>2, <1>5, <2>1, <2>2, ControlKeeps, Zenon DEF ScopesInv
    <3>2. memory_control(r)
      BY <1>1, <1>2, <1>5, <2>1, <2>2, Zenon DEF memory_control
    <3>3. CatalogNext
      BY <1>2, <3>2, Zenon DEF CatalogNext
    <3>4. PICK call : /\ TurnsInto(c, call) /\ CallOK(call)
                      /\ call.pc = "readback" \/ (call.pc = "reply" /\ call.result = "unavailable")
      <4>1. CASE Goto(c, "readback")
        <5>1. \E call : TurnsInto(c, call) /\ CallOK(call) /\ call.pc = "readback"
          BY <1>2, <4>1, WorkingMove
        <5> QED
          BY <5>1
      <4>2. CASE Reply(c, "unavailable")
        <5>1. \E call : /\ TurnsInto(c, call) /\ CallOK(call)
                        /\ call = [pc |-> "reply", request |-> calls[c].request, result |-> "unavailable"]
          BY <1>1, <4>2, ReplyMove DEF Results
        <5> QED
          BY <5>1
      <4> QED
        BY <2>2, <4>1, <4>2
    <3> QED
      BY <1>1, <3>1, <3>3, <3>4, WriteOK, Zenon
  <2>3. ASSUME UNCHANGED <<scopes, generations, operations, effects>>, Reply(c, "unavailable")
        PROVE  StepOK
    BY <1>1, <2>3, QuietReply DEF Results, catalogVars
  <2> QED
    BY <2>1, <2>2, <2>3 DEF Commit
<1> QED
  BY <1>3, <1>4, <1>5, Zenon

LEMMA NextOK == ScopesInv /\ ScopesNext => StepOK
<1> SUFFICES ASSUME ScopesInv, ScopesNext PROVE StepOK
  OBVIOUS
<1>0. CatalogInv /\ CallsInv /\ requests \in SUBSET Requests
  BY DEF ScopesInv, CatalogInv, TablesInv
<1>q. ASSUME calls' = calls PROVE \A c \in Controllers : TrueReply(c)
  BY <1>q DEF TrueReply, At
<1>1. ASSUME NEW j \in Sources, NEW state \in {"COMPLETED", "PARTIALLY_COMPLETED", "GONE"},
             ~Locked(j), ChangeSource(j, state), UNCHANGED <<calls, broken, losses, effects>>
      PROVE  StepOK
  <2>1. CatalogInv'
    BY <1>0, <1>1, ChangeKeeps
  <2>2. \A i \in Sources : Locked(i) => sources'[i] = sources[i]
    BY <1>1 DEF ChangeSource, ScopesInv, CatalogInv, TablesInv
  <2>3. requests' = requests
    BY <1>1 DEF ChangeSource
  <2>4. CallsInv'
    BY <1>0, <1>1, <2>2, <2>3, CallsStay
  <2>5. CatalogNext
    BY <1>1 DEF CatalogNext
  <2> QED
    BY <1>1, <1>q, <2>1, <2>4, <2>5 DEF StepOK, ScopesInv
<1>2. ASSUME NEW c \in Controllers, NEW s \in ScopeIds, NEW creator \in Creators, sql_create(c, s, creator)
      PROVE  StepOK
  <2>1. memory_create(s, creator) /\ calls' = calls /\ effects' = effects
    BY <1>2 DEF sql_create
  <2>2. CatalogInv'
    BY <1>0, <2>1, CreateKeeps
  <2>3. UNCHANGED <<sources, requests>>
    BY <2>1 DEF memory_create
  <2>4. CallsInv'
    BY <1>0, <2>1, <2>3, CallsStay
  <2>5. CatalogNext
    BY <2>1 DEF CatalogNext
  <2> QED
    BY <1>q, <2>1, <2>2, <2>4, <2>5 DEF StepOK, ScopesInv
<1>3. ASSUME NEW c \in Controllers, NEW s \in ScopeIds, NEW key \in 1 .. MaxRequests,
             NEW what \in Controls(s) \cup Approvals, SendNew(c, s, key, what)
      PROVE  StepOK
  <2>1. Ask(s, key, what) /\ effects' = effects /\ At(c, "idle")
    BY <1>3 DEF SendNew
  <2>2. CatalogInv'
    BY <1>0, <2>1, AskKeeps
  <2>3. sources' = sources /\ requests \in SUBSET requests'
    BY <2>1 DEF Ask
  <2>4. PICK r \in requests' : Serve(c, r)
    BY <1>3 DEF SendNew
  <2>5. PICK call : call = [pc |-> "replay", request |-> r]
    BY Zenon
  <2>6. TurnsInto(c, call)
    BY <2>4, <2>5 DEF Serve, TurnsInto
  <2>7. CallOK(call)'
    BY <2>4, <2>5 DEF CallOK, Working
  <2>8. CallsInv'
    BY <1>0, <2>3, <2>6, <2>7, CallsMove
  <2>9. CatalogNext
    BY <2>1 DEF CatalogNext
  <2>10. calls'[c] = call /\ call.pc = "replay"
    BY <1>0, <2>5, <2>6 DEF TurnsInto, CallsInv
  <2>11. TrueReply(c)
    BY <2>1, <2>10 DEF TrueReply
  <2> QED
    BY <1>0, <2>2, <2>6, <2>8, <2>9, <2>11, OthersReply DEF StepOK, ScopesInv
<1>4. ASSUME NEW c \in Controllers, NEW r \in requests, SendAgain(c, r)
      PROVE  StepOK
  <2>1. PICK call : call = [pc |-> "replay", request |-> r]
    BY Zenon
  <2>2. TurnsInto(c, call)
    BY <1>4, <2>1 DEF SendAgain, Serve, TurnsInto
  <2>3. CallOK(call) /\ call.pc = "replay"
    BY <2>1 DEF CallOK, Working
  <2> QED
    BY <1>4, <2>2, <2>3, QuietMove DEF SendAgain
<1>5. ASSUME NEW c \in Controllers, Busy(c) PROVE StepOK
  <2>1. ~At(c, "idle") /\ Reply(c, "busy") /\ UNCHANGED <<catalogVars, effects>>
    BY <1>5 DEF Busy, At
  <2> QED
    BY <2>1, QuietReply DEF Results
<1>6. ASSUME NEW c \in Controllers, Recover(c) PROVE StepOK
  <2>1. ~At(c, "idle") /\ UNCHANGED <<catalogVars, effects>>
    BY <1>6 DEF Recover, At
  <2>2. PICK result \in {"ok", "refused"} : Reply(c, result) /\ (result = "ok" <=> Replays(calls[c].request))
    BY <1>6 DEF Recover
  <2> QED
    BY <2>1, <2>2, QuietReply DEF Results
<1>7. ASSUME NEW c \in Controllers, ReadBack(c) PROVE StepOK
  <2>1. ~At(c, "idle") /\ UNCHANGED <<catalogVars, effects>>
    BY <1>7 DEF ReadBack, At
  <2>2. PICK result \in {"ok", "unavailable"} : Reply(c, result) /\ (result = "ok" => Replays(calls[c].request))
    BY <1>7 DEF ReadBack
  <2> QED
    BY <2>1, <2>2, QuietReply DEF Results
<1>8. ASSUME NEW c \in Controllers, Return(c) \/ RestartController(c) PROVE StepOK
  <2>1. TurnsInto(c, NoCall) /\ UNCHANGED <<catalogVars, effects>>
    BY <1>8 DEF Return, RestartController, TurnsInto
  <2>2. CallOK(NoCall) /\ NoCall.pc = "idle"
    BY DEF CallOK, NoCall
  <2> QED
    BY <2>1, <2>2, QuietMove
<1> QED
  BY <1>1, <1>2, <1>3, <1>4, <1>5, <1>6, <1>7, <1>8, ReplayOK, DiscoverOK, LockOK, PublishOK, ControlOK
     DEF ScopesNext

LEMMA StutterOK == ScopesInv /\ UNCHANGED scopeVars => ScopesInv'
<1> SUFFICES ASSUME ScopesInv, UNCHANGED scopeVars PROVE ScopesInv'
  OBVIOUS
<1>1. UNCHANGED <<scopes, generations, operations, sources, requests, calls, effects>>
  BY DEF scopeVars
<1>2. /\ requests' \in SUBSET Requests /\ sources' \in [Sources -> SourceRows] /\ requests \in SUBSET Requests
      /\ \A r \in requests' : Exists(r.scope)
  BY <1>1 DEF ScopesInv, CatalogInv, TablesInv, CreatedInv
<1>3. CatalogInv'
  BY <1>1, <1>2, CatalogStays DEF ScopesInv
<1>4. CallsInv'
  BY <1>1, <1>2, CallsStay DEF ScopesInv
<1> QED
  BY <1>3, <1>4 DEF ScopesInv

LEMMA ScopesStart == ScopesInit => ScopesInv
<1> SUFFICES ASSUME ScopesInit PROVE ScopesInv
  OBVIOUS
<1>1. CatalogInv
  BY CatalogStarts DEF ScopesInit
<1>2. CallsInv
  BY DEF ScopesInit, CallsInv, CallOK
<1> QED
  BY <1>1, <1>2 DEF ScopesInv

LEMMA ScopesStep == ScopesInv /\ [ScopesNext]_scopeVars => ScopesInv'
BY NextOK, StutterOK DEF StepOK

\* For any scopes, captures, controllers and limits: a scope stays readable (its row,
\* its generations, their documents and its receipts agree as _SQL.get demands), no
\* request is applied twice and no capture approved twice, also after a lost commit, a
\* restart, a rollback or the loss of the receipt.
THEOREM ScopesSound == ScopesSpec => []ScopesAreSound
<1>1. ScopesInv => ScopesAreSound
  BY DEF ScopesInv, CatalogInv
<1> QED
  BY <1>1, ScopesStart, ScopesStep, PTL DEF ScopesSpec

\* A controller answers with a receipt only for a change that was made, refuses only a
\* request without one, and publishes only a completed source its reviewer saw.
THEOREM TrueReplies == ScopesSpec => RepliesAreTrue
<1>1. ScopesInv /\ [ScopesNext]_scopeVars => [\A c \in Controllers : TrueReply(c)]_scopeVars
  BY NextOK DEF StepOK
<1> QED
  BY <1>1, ScopesStart, ScopesStep, PTL DEF ScopesSpec, RepliesAreTrue

\* The transactions of several controllers on PostgreSQL amount to the operations of the
\* in-memory repository, each done at once, whatever is lost or repeated between them.
THEOREM CatalogImplemented == ScopesSpec => CatalogSpec
<1>1. ScopesInv /\ [ScopesNext]_scopeVars => [CatalogNext]_catalogVars
  BY NextOK DEF StepOK, scopeVars, catalogVars
<1>2. ScopesInit => CatalogInit
  BY DEF ScopesInit
<1> QED
  BY <1>1, <1>2, ScopesStart, ScopesStep, PTL DEF ScopesSpec, CatalogSpec
=============================================================================
