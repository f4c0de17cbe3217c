------------------------- MODULE ExportStoreProofs --------------------------
(***************************************************************************)
(* The steps from the publication on keep the invariant of ExportStore.    *)
(* From it follow type correctness, PublishedIntact, CancelHonoured,       *)
(* BlobsAccounted, PublishesCurrentSource and the refinement of            *)
(* ExportLifecycle.                                                        *)
(***************************************************************************)
EXTENDS ExportStoreInvariant

LEMMA KeyFields ==
  ASSUME NEW k \in Keys
  PROVE  k.export \in Exports /\ k.attempt \in Nat
BY DEF Keys, Attempts

\* The object of the next attempt is not one of an earlier attempt.
LEMMA NextIsNotPast ==
  ASSUME NEW e \in Exports, row[e].attempt \in Nat
  PROVE  ~ KeyPast([export |-> e, attempt |-> row[e].attempt + 1])
BY DEF KeyPast

-----------------------------------------------------------------------------
(* Publication *)

LEMMA AcceptKeeps ==
  ASSUME ExportInv, NEW t \in Threads, thr[t].pc = "publishing", Owns(t), ~ row[thr[t].export].cancel,
         NEW s \in {"COMPLETED", "FAILED"},
         row' = [row EXCEPT ![thr[t].export] = [Settled(@, s) EXCEPT !.key = Key(t)]],
         doc' \in [Exports -> Documents \cup {None}],
         \A x \in Exports : doc'[x] # None => doc[x] # None /\ doc'[x].key = doc[x].key,
         \A x \in Exports : x # thr[t].export => doc'[x] = doc[x],
         outbox' \subseteq outbox, \A i \in outbox \ outbox' : i.key = Key(t),
         doc'[thr[t].export] # None => (doc'[thr[t].export].published => s = "COMPLETED"),
         s = "COMPLETED" => /\ doc'[thr[t].export] = [key |-> Key(t), published |-> TRUE] /\ Key(t) \in blobs
                            /\ ~ Doomed(Key(t)),
         UNCHANGED <<world, blobs>>, Failing \/ UNCHANGED budget,
         Moved, Quiet, \A u \in Threads : u # t => thr'[u] = thr[u], thr'[t].pc \notin Path \cup {"discarding"}
  PROVE  ExportInv'
<1> DEFINE e == thr[t].export
           k == Key(t)
<1>0. thr[t].pc \in Steps \ Idling
  BY DEF Steps, Idling
<1>1. /\ TypeInv /\ Busy(t) /\ k \in Keys /\ k # None /\ k.export = e /\ e \in Exports
      /\ \A u \in Threads : Busy(u) /\ Key(u) = k => u = t
  BY <1>0, AtWork
<1>2. /\ row' \in [Exports -> Rows] /\ \A x \in Exports : x # e => row'[x] = row[x]
      /\ row'[e].status = s /\ row'[e].key = k /\ ~ row'[e].cancel /\ row'[e].attempt = row[e].attempt
  <2>1. row[e] \in Rows /\ row \in [Exports -> Rows]
    BY <1>1 DEF TypeInv, TypeOK
  <2>2. /\ [Settled(row[e], s) EXCEPT !.key = k] \in Rows
        /\ [Settled(row[e], s) EXCEPT !.key = k].status = s /\ [Settled(row[e], s) EXCEPT !.key = k].key = k
        /\ [Settled(row[e], s) EXCEPT !.key = k].cancel = row[e].cancel
        /\ [Settled(row[e], s) EXCEPT !.key = k].attempt = row[e].attempt
    BY <1>1, <2>1, Zenon DEF Settled, Rows, Terminal
  <2>3. row' = [row EXCEPT ![e] = [Settled(row[e], s) EXCEPT !.key = k]]
    BY <2>1
  <2> QED
    BY <1>1, <2>1, <2>2, <2>3
<1>3. row[e].status = "RUNNING" /\ row[e].key = None /\ parent # "deleted"
  <2>1. row[e].status = "RUNNING"
    BY DEF Owns
  <2> QED
    BY <1>1, <2>1 DEF ExportInv, KeysArePast, CancelHonoured
<1>4. NoNewRuns
  BY <1>2 DEF NoNewRuns
<1>p. PendingShrinks
  BY DEF Quiet, PendingShrinks
<1>5. KeysGrow
  <2>1. \A i \in outbox' : i.key \in Keys /\ Known(i.key)
    BY <1>1 DEF TypeInv, TypeOK, Intents, Known, IntentsOf
  <2>2. DocGrows
    BY DEF DocGrows
  <2>3. RowKeysGrow
    BY <1>1, <1>2 DEF RowKeysGrow, ExportInv, KeysArePast
  <2> QED
    BY <1>p, <2>1, <2>2, <2>3, PendingKnown DEF KeysGrow
<1>6. DeletesGrow
  BY <1>p, PendingKnown DEF DeletesGrow, ExportInv, DeletesAreDoomed
<1>7. BlobsShrink
  BY DEF BlobsShrink, Quiet, Sending
<1>8. SendsBegin
  BY DEF SendsBegin, Quiet, Sending
<1>9. ~ mode.slow => SendsUntouched
  <2> SUFFICES ASSUME ~ mode.slow, NEW u \in Threads, thr[u].pc \in Sending, thr'[u].pc \in Sending
               PROVE  /\ \A i : i.key = Key(u) => (i \in outbox' <=> i \in outbox)
                      /\ \A v \in Threads : \A p \in thr'[v].pending : p[2] # Key(u)
    BY DEF SendsUntouched
  <2>1. Busy(u)
    BY <1>1, BusyKeys DEF Sending, Steps, Idling
  <2>2. Key(u) # k
    BY <1>1, <2>1 DEF Sending
  <2>3. \A v \in Threads : ~ PendingKey(v, Key(u))
    BY DEF ExportInv, SendsAreCovered
  <2> QED
    BY <1>p, <2>2, <2>3 DEF PendingKey, PendingShrinks
<1>10. Counted
  BY <1>1, CountsKept
<1>11. RowsTyped
  BY <1>1, <1>2 DEF RowsTyped, TypeInv
<1>12. ArtifactsTyped
  BY <1>1 DEF ArtifactsTyped, TypeInv, TypeOK
<1>13. CancelHonoured'
  BY <1>2, <1>3 DEF ExportInv, CancelHonoured, world
<1>14. PublishedIsKept'
  <2>1. ASSUME s = "COMPLETED" PROVE \A u \in Threads : ~ PendingKey(u, k)
    BY <2>1 DEF PendingKey, ExportInv, DeletesAreDoomed
  <2>2. \A u \in Threads : \A p \in thr'[u].pending : p \in thr[u].pending
    BY <1>p DEF PendingShrinks
  <2>3. ASSUME NEW x \in Exports, row'[x].status = "COMPLETED"
        PROVE  /\ doc'[x] = [key |-> row'[x].key, published |-> TRUE] /\ row'[x].key \in blobs'
               /\ \A u \in Threads : \A p \in thr'[u].pending : p[2] # row'[x].key
    <3>1. CASE x = e
      <4>1. row'[x].key = k /\ s = "COMPLETED"
        BY <1>2, <2>3, <3>1
      <4>2. \A u \in Threads : \A p \in thr'[u].pending : p[2] # k
        BY <2>1, <2>2, <4>1 DEF PendingKey
      <4>3. doc'[x] = [key |-> k, published |-> TRUE] /\ k \in blobs'
        BY <3>1, <4>1
      <4> HIDE DEF k
      <4> QED
        BY <4>1, <4>2, <4>3, Zenon
    <3>2. CASE x # e
      <4>1. row'[x] = row[x] /\ doc'[x] = doc[x] /\ blobs' = blobs
        BY <1>2, <3>2
      <4>2. /\ doc[x] = [key |-> row[x].key, published |-> TRUE] /\ row[x].key \in blobs
            /\ \A u \in Threads : \A p \in thr[u].pending : p[2] # row[x].key
        BY <2>3, <4>1, Zenon DEF ExportInv, PublishedIsKept, PublishedIntact, PendingKey
      <4> QED
        BY <2>2, <4>1, <4>2, Zenon
    <3> QED
      BY <3>1, <3>2
  <2>4. \A x \in Exports : doc'[x] # None => (doc'[x].published => row'[x].status = "COMPLETED")
    BY <1>2 DEF ExportInv, PublishedIsKept
  <2> QED
    BY <2>3, <2>4 DEF PublishedIsKept, PublishedIntact, PendingKey
<1>15. BlobsAccounted'
  <2> SUFFICES ASSUME parent = "present", ~ mode.slow, NEW x \in blobs
               PROVE  (\E i \in outbox' : i.key = x) \/ row'[x.export].key = x
    BY DEF BlobsAccounted, IntentsOf, world
  <2>1. CASE x = k
    BY <1>1, <1>2, <2>1
  <2>2. CASE x # k
    <3>1. x \in Keys /\ x # None /\ x.export \in Exports
      BY <1>1, ExportConstants DEF TypeInv, TypeOK, Keys
    <3>2. (\E i \in outbox : i.key = x) \/ row[x.export].key = x
      BY DEF ExportInv, BlobsAccounted, IntentsOf
    <3> QED
      BY <1>2, <1>3, <2>2, <3>1, <3>2
  <2> QED
    BY <2>1, <2>2
<1> QED
  BY <1>4, <1>5, <1>6, <1>7, <1>8, <1>9, <1>10, <1>11, <1>12, <1>13, <1>14, <1>15, Assembled

LEMMA CompleteKeeps ==
  ASSUME ExportInv, NEW t \in Threads, Complete(t)
  PROVE  ExportInv'
<1> DEFINE e == thr[t].export
           k == Key(t)
<1>0. thr[t].pc = "publishing" /\ thr[t].pc \in Steps \ Idling
  BY DEF Complete, Steps, Idling
<1>1. /\ TypeInv /\ Busy(t) /\ k \in Keys /\ k # None /\ k.export = e /\ e \in Exports
      /\ k.attempt = thr[t].attempt
  BY <1>0, AtWork
<1>2. /\ Moved /\ Quiet /\ (\A u \in Threads : u # t => thr'[u] = thr[u])
      /\ thr'[t].pc \notin Path \cup {"discarding"}
  <2>1. CASE Rest(t)
    <3>1. Rested(t)
      BY <1>1, <2>1, RestMoves, Zenon DEF Rest
    <3>2. {"idle", "down"} \cap (Path \cup {"discarding"}) = {}
      BY DEF Path, Early, Sending, Late
    <3> QED
      BY <1>1, <3>1, <3>2, RestWalks DEF Rested
  <2>2. CASE NotWon(t) \/ RaiseStaged(t, "retrying")
    <3>1. PICK p \in Winding, n \in {"idle"} \cup Winding : Goto(t, p, n)
      BY <2>2 DEF NotWon, RaiseStaged, Winding
    <3>2. p \in Steps /\ n \in Steps /\ p \notin Path \cup {"discarding"}
      BY StepsAre DEF Steps, Winding
    <3>3. MovedTo(t, p, n, thr[t].pending)
      BY <1>1, <3>1, <3>2, GotoMoves
    <3> QED
      BY <1>1, <3>1, <3>2, <3>3, WindsUp DEF MovedTo
  <2> QED
    BY <2>1, <2>2, Zenon DEF Complete
<1>3. UNCHANGED <<world, blobs>> /\ (Failing \/ UNCHANGED budget)
  BY ZenonT(30) DEF Complete
<1>4. CASE UNCHANGED <<row, doc, outbox>>
  BY <1>2, <1>3, <1>4, ThreadOnly DEF artifacts
<1>5. ASSUME NEW accepted \in BOOLEAN, Owns(t), Commit(t, accepted)
      PROVE  ExportInv'
  <2>1. CASE row[e].cancel /\ row' = [row EXCEPT ![e] = Settled(@, "CANCELLED")] /\ UNCHANGED <<doc, outbox>>
    <3> DEFINE S == {e}
               T == [x \in Exports |-> FALSE]
    <3>1. row' = [x \in Exports |-> IF x \in S THEN Ended(row[x], Limit(x), T[x]) ELSE row[x]]
      BY <1>1, <2>1, ZenonT(30) DEF TypeInv, TypeOK, Ended
    <3>2. S \in SUBSET Exports /\ T \in [Exports -> BOOLEAN] /\ \A x \in S : row[x].status = "RUNNING"
      BY <1>1, <1>5, Zenon DEF Owns
    <3> HIDE DEF S, T
    <3>3. RowsEnd
      BY <3>1, <3>2, EndsRows
    <3> QED
      BY <1>1, <1>2, <1>3, <2>1, <3>3, CountsKept, Frame, Zenon DEF world, artifacts
  <2>2. CASE /\ ~ row[e].cancel /\ thr[t].matched /\ Publishable(t)
             /\ row' = [row EXCEPT ![e] = [Settled(@, "COMPLETED") EXCEPT !.key = Key(t)]]
             /\ doc' = [doc EXCEPT ![e].published = TRUE]
             /\ outbox' = Without("publication", Key(t))
    <3>1. doc[e] = [key |-> k, published |-> FALSE] /\ [key |-> k, published |-> FALSE] \in Documents
      BY <1>1, <2>2 DEF Publishable, Documents
    <3>2. doc[e] # None /\ doc[e].key = k
      <4>1. doc[e] # None
        BY <3>1, ExportConstants, Zenon
      <4> QED
        BY <3>1, <4>1
    <3>3. /\ doc'[e] = [key |-> k, published |-> TRUE] /\ \A x \in Exports : x # e => doc'[x] = doc[x]
          /\ doc' \in [Exports -> Documents \cup {None}]
      <4>1. doc' = [doc EXCEPT ![e] = [doc[e] EXCEPT !.published = TRUE]] /\ doc \in [Exports -> Documents \cup {None}]
        BY <1>1, <2>2 DEF TypeInv, TypeOK
      <4>2. [doc[e] EXCEPT !.published = TRUE] = [key |-> k, published |-> TRUE]
        <5>1. doc[e] \in Documents /\ doc[e].key = k
          BY <3>1, <3>2
        <5> DEFINE d == [doc[e] EXCEPT !.published = TRUE]
        <5>2. d \in Documents /\ d.key = k /\ d.published
          BY <5>1, Zenon DEF Documents
        <5> HIDE DEF d
        <5>3. d = [key |-> k, published |-> TRUE]
          BY <5>2 DEF Documents
        <5> QED
          BY <5>3 DEF d
      <4>3. [key |-> k, published |-> TRUE] \in Documents
        BY <1>1 DEF Documents
      <4> QED
        BY <1>1, <4>1, <4>2, <4>3, Zenon
    <3>4. ~ Doomed(k)
      BY <1>0, <1>1, <1>5, <3>2 DEF Doomed, Protected, Owns, DocIs, Path, Late
    <3>5. k \in blobs
      BY <1>0, <3>4 DEF ExportInv, UploadsAreThere, Late
    <3>6. \A x \in Exports : doc'[x] # None => doc[x] # None /\ doc'[x].key = doc[x].key
      BY <3>2, <3>3
    <3>7. outbox' \subseteq outbox /\ \A i \in outbox \ outbox' : i.key = k
      BY <2>2 DEF Without
    <3> QED
      BY <1>0, <1>2, <1>3, <1>5, <2>2, <3>3, <3>4, <3>5, <3>6, <3>7, AcceptKeeps, Zenon
  <2>3. CASE /\ ~ row[e].cancel /\ ~ thr[t].matched
             /\ row' = [row EXCEPT ![e] = [Settled(@, "FAILED") EXCEPT !.key = Key(t)]]
             /\ UNCHANGED <<doc, outbox>>
    <3>1. doc[e] # None => ~ doc[e].published
      BY <1>1, <1>5 DEF Owns, ExportInv, PublishedIsKept
    <3>2. doc' \in [Exports -> Documents \cup {None}]
      BY <1>1, <2>3 DEF TypeInv, TypeOK
    <3> QED
      BY <1>0, <1>2, <1>3, <1>5, <2>3, <3>1, <3>2, AcceptKeeps, Zenon
  <2> QED
    BY <1>5, <2>1, <2>2, <2>3 DEF Commit
<1> QED
  BY <1>4, <1>5, Zenon DEF Complete

-----------------------------------------------------------------------------
(* Clean-up *)

\* A thread with objects to erase.
LEMMA PendingMoves ==
  ASSUME TypeInv, NEW t \in Threads, NEW p \in Steps, NEW n \in Steps, NEW q \in SUBSET (Scopes \X Keys),
         \/ thr' = [thr EXCEPT ![t].pc = p, ![t].pending = q, ![t].then = n]
         \/ thr' = [thr EXCEPT ![t].pc = p, ![t].pending = q] /\ n = thr[t].then
         \/ thr' = [thr EXCEPT ![t].pending = q] /\ n = thr[t].then /\ p = thr[t].pc
  PROVE  MovedTo(t, p, n, q)
<1>1. thr \in [Threads -> ThreadStates] /\ thr[t] \in ThreadStates
  BY DEF TypeInv, TypeOK
<1>2. PICK r \in ThreadStates :
         /\ thr' = [thr EXCEPT ![t] = r]
         /\ r.pc = p /\ r.then = n /\ r.pending = q /\ r.export = thr[t].export /\ r.attempt = thr[t].attempt
  <2>1. CASE thr' = [thr EXCEPT ![t].pc = p, ![t].pending = q, ![t].then = n]
    <3> DEFINE r == [thr[t] EXCEPT !.pc = p, !.pending = q, !.then = n]
    <3>1. thr' = [thr EXCEPT ![t] = r]
      BY <1>1, <2>1, Zenon
    <3>2. /\ r \in ThreadStates
          /\ r.pc = p /\ r.then = n /\ r.pending = q /\ r.export = thr[t].export /\ r.attempt = thr[t].attempt
      BY <1>1, Zenon DEF ThreadStates
    <3> QED
      BY <3>1, <3>2, Zenon
  <2>2. CASE thr' = [thr EXCEPT ![t].pc = p, ![t].pending = q] /\ n = thr[t].then
    <3> DEFINE r == [thr[t] EXCEPT !.pc = p, !.pending = q]
    <3>1. thr' = [thr EXCEPT ![t] = r]
      BY <1>1, <2>2, Zenon
    <3>2. /\ r \in ThreadStates
          /\ r.pc = p /\ r.then = n /\ r.pending = q /\ r.export = thr[t].export /\ r.attempt = thr[t].attempt
      BY <1>1, <2>2, Zenon DEF ThreadStates
    <3> QED
      BY <3>1, <3>2, Zenon
  <2>3. CASE thr' = [thr EXCEPT ![t].pending = q] /\ n = thr[t].then /\ p = thr[t].pc
    <3> DEFINE r == [thr[t] EXCEPT !.pending = q]
    <3>1. thr' = [thr EXCEPT ![t] = r]
      BY <1>1, <2>3
    <3>2. /\ r \in ThreadStates
          /\ r.pc = p /\ r.then = n /\ r.pending = q /\ r.export = thr[t].export /\ r.attempt = thr[t].attempt
      BY <1>1, <2>3 DEF ThreadStates
    <3> QED
      BY <3>1, <3>2, Zenon
  <2> QED
    BY <2>1, <2>2, <2>3
<1> QED
  BY <1>1, <1>2 DEF MovedTo

LEMMA CompensateKeeps ==
  ASSUME ExportInv, NEW t \in Threads, Compensate(t)
  PROVE  ExportInv'
<1> DEFINE e == thr[t].export
           k == Key(t)
           ready == [scope |-> "publication", key |-> k, state |-> "READY"]
<1>0. thr[t].pc = "compensating" /\ thr[t].pc \in Steps \ Idling
  BY DEF Compensate, Steps, Idling
<1>1. /\ TypeInv /\ Busy(t) /\ k \in Keys /\ k # None /\ k.export = e /\ e \in Exports
      /\ \A u \in Threads : Busy(u) /\ Key(u) = k => u = t
  BY <1>0, AtWork
<1>2. RowsGo({}) /\ UNCHANGED <<world, row, blobs>> /\ (Failing \/ UNCHANGED budget)
  BY <1>1 DEF Compensate, RowsGo, TypeInv, TypeOK
<1>3. Counted
  BY <1>1, <1>2, CountsKept
<1>4. Doomed(k)
  <2>1. thr[t].pc \notin Path
    BY <1>0, StepsAre DEF Winding
  <2> QED
    BY <1>1, <2>1, OffPath
<1>5. ASSUME NEW u \in Threads, thr[u].pc \in Sending
      PROVE  Key(u) # k
  <2>1. Busy(u)
    BY <1>1, <1>5, BusyKeys DEF Sending, Steps, Idling
  <2> QED
    BY <1>0, <1>1, <1>5, <2>1 DEF Sending
<1>6. CASE GoOn(t) /\ UNCHANGED <<doc, outbox>>
  BY <1>1, <1>2, <1>6, GoOnWalks, ThreadOnly DEF artifacts
<1>7. CASE row[e].key = k /\ outbox' = outbox \ IntentsOf(k) /\ GoOn(t) /\ UNCHANGED doc
  <2>1. Moved /\ Quiet
    BY <1>1, <1>7, GoOnWalks
  <2>2. ArtifactsTyped
    BY <1>1, <1>2, <1>7, Zenon DEF ArtifactsTyped, TypeInv, TypeOK
  <2>3. DocsGo({})
    BY <1>7 DEF DocsGo
  <2>4. ObjectsGo
    BY <1>2, <1>7, <2>1, ZenonT(30) DEF ObjectsGo, Quiet, Known, IntentsOf
  <2>5. ~ mode.slow => SendsUntouched
    BY <1>5, <1>7, <2>1, Zenon DEF SendsUntouched, Quiet, IntentsOf, ExportInv, SendsAreCovered, PendingKey
  <2>6. parent' = "present" /\ ~ mode.slow =>
           \A x \in blobs' : (\E i \in outbox' : i.key = x) \/ row'[x.export].key = x
    BY <1>1, <1>2, <1>7 DEF ExportInv, BlobsAccounted, IntentsOf, world
  <2> QED
    BY <1>2, <1>3, <2>1, <2>2, <2>3, <2>4, <2>5, <2>6, Cleans DEF Quiet, world
<1>8. CASE /\ row[e].key # k /\ (DocIs(k) \/ IntentsOf(k) # {})
           /\ doc' = IF DocIs(k) THEN [doc EXCEPT ![e] = None] ELSE doc
           /\ outbox' = (outbox \ IntentsOf(k)) \cup {ready}
           /\ thr' = [thr EXCEPT ![t].pc = "erasing", ![t].pending = {<<"publication", k>>}]
  <2>1. MovedTo(t, "erasing", thr[t].then, {<<"publication", k>>})
    <3>1. "erasing" \in Steps /\ {<<"publication", k>>} \in SUBSET (Scopes \X Keys)
      BY <1>1 DEF Steps, Scopes
    <3> QED
      BY <1>1, <1>8, <3>1, ThreadFields, PendingMoves, Zenon
  <2>2. Moved
    <3>1. "erasing" \in Steps /\ Order(thr[t].pc, "erasing") /\ thr[t].then \in {"idle", "sweeping"} \cup Winding
      BY <1>1 DEF Steps, Order, Early, Late, TypeInv
    <3> QED
      BY <1>1, <2>1, <3>1, StaysMoved, Zenon
  <2>3. \A u \in Threads : thr'[u].pc \in Sending => thr[u].pc = thr'[u].pc
    BY <2>1 DEF MovedTo, Sending
  <2>4. /\ ready \in Intents /\ ready.key = k
        /\ \A i : i.key # k => (i \in outbox' <=> i \in outbox)
        /\ \A i \in outbox' : i = ready \/ i \in outbox
        /\ ready \in outbox'
    BY <1>1, <1>8 DEF Intents, Scopes, IntentsOf
  <2> HIDE DEF ready
  <2>5. \A x \in Exports : doc'[x] = doc[x] \/ (x = e /\ doc'[x] = None /\ DocIs(k))
    BY <1>1, <1>8 DEF TypeInv, TypeOK
  <2>6. doc' \in [Exports -> Documents \cup {None}]
    BY <1>1, <1>8 DEF TypeInv, TypeOK
  <2>7. ArtifactsTyped
    BY <1>1, <1>2, <2>4, <2>6, Zenon DEF ArtifactsTyped, TypeInv, TypeOK
  <2>8. row[e].status = "COMPLETED" => ~ DocIs(k)
    BY <1>1, <1>8, CompletedDoc DEF DocIs
  <2>9. DocsGo({})
    BY <1>2, <2>5, <2>8 DEF DocsGo
  <2>10. Known(k) /\ Spared(k)
    <3>1. \A x \in Exports : row[x].key # k
      BY <1>1, <1>8 DEF ExportInv, KeysArePast
    <3> QED
      BY <1>2, <1>8, <3>1 DEF Known, Spared
  <2>11. ObjectsGo
    <3>1. \A u \in Threads : \A p \in thr'[u].pending : p \in thr[u].pending \/ p[2] = k
      BY <2>1 DEF MovedTo
    <3>2. \A i \in outbox' : Known(i.key)
      BY <2>4, <2>10 DEF Known, IntentsOf
    <3> QED
      BY <1>2, <1>4, <2>4, <2>10, <3>1, <3>2 DEF ObjectsGo
  <2>12. ~ mode.slow => SendsUntouched
    <3>1. \A u \in Threads : \A p \in thr'[u].pending : p \in thr[u].pending \/ p[2] = k
      BY <2>1 DEF MovedTo
    <3> QED
      BY <1>5, <2>4, <3>1 DEF SendsUntouched, ExportInv, SendsAreCovered, PendingKey
  <2>13. parent' = "present" /\ ~ mode.slow =>
           \A x \in blobs' : (\E i \in outbox' : i.key = x) \/ row'[x.export].key = x
    BY <1>2, <2>4 DEF ExportInv, BlobsAccounted, IntentsOf, world
  <2> QED
    BY <1>2, <1>3, <2>2, <2>3, <2>7, <2>9, <2>11, <2>12, <2>13, Cleans DEF world
<1> QED
  BY <1>1, <1>6, <1>7, <1>8 DEF Compensate, DocIs

LEMMA EraseKeeps ==
  ASSUME ExportInv, NEW t \in Threads, Erase(t)
  PROVE  ExportInv'
<1>1. TypeInv /\ thr[t].pc = "erasing" /\ thr[t].pending \in SUBSET (Scopes \X Keys)
  BY ThreadFields DEF ExportInv, Erase
<1>2. PICK p \in thr[t].pending :
         /\ \/ /\ blobs' = blobs \ {p[2]}
               /\ outbox' = Without(p[1], p[2])
               /\ UNCHANGED budget
            \/ Failing /\ blobs' \in {blobs, blobs \ {p[2]}} /\ UNCHANGED outbox
         /\ IF thr[t].pending = {p}
              THEN GoOn(t)
              ELSE thr' = [thr EXCEPT ![t].pending = thr[t].pending \ {p}]
  BY <1>1 DEF Erase, TypeInv, TypeOK
<1>3. UNCHANGED <<world, row, doc>>
  BY DEF Erase
<1>4. PICK k \in Keys : k = p[2]
  BY <1>1
<1>5. Doomed(k) /\ PendingKey(t, k) /\ ~ (\E u \in Threads : ~ mode.slow /\ thr[u].pc \in Sending /\ Key(u) = k)
  <2>1. PendingKey(t, k)
    BY <1>2, <1>4 DEF PendingKey
  <2> QED
    BY <1>2, <1>4, <2>1 DEF ExportInv, DeletesAreDoomed, SendsAreCovered
<1>6. Moved /\ Quiet
  <2>1. CASE GoOn(t)
    BY <1>1, <2>1, GoOnWalks
  <2>2. CASE thr' = [thr EXCEPT ![t].pending = thr[t].pending \ {p}]
    <3>1. "erasing" \in Steps /\ thr[t].then \in Steps /\ thr[t].then \in {"idle", "sweeping"} \cup Winding
          /\ "erasing" \notin Steps \ Idling /\ "erasing" \notin Sending /\ (thr[t].then \in Winding => Busy(t))
      BY <1>1, ThreadFields, ZenonT(30) DEF Steps, Idling, Sending, TypeInv
    <3>2. MovedTo(t, "erasing", thr[t].then, thr[t].pending \ {p})
      BY <1>1, <2>2, <3>1, PendingMoves, ZenonT(30)
    <3>3. Moved
      BY <1>1, <3>1, <3>2, StaysMoved, SameOrder, Zenon
    <3> QED
      BY <3>1, <3>2, <3>3 DEF Quiet, MovedTo
  <2> QED
    BY <1>2, <2>1, <2>2
<1>7. /\ outbox' \subseteq outbox /\ (\A i \in outbox \ outbox' : i.key = k) /\ blobs' \in {blobs, blobs \ {k}}
      /\ outbox' = outbox \/ k \notin blobs'
  BY <1>2, <1>4 DEF Without
<1>8. RowsGo({}) /\ DocsGo({})
  BY <1>1, <1>3, Zenon DEF RowsGo, DocsGo, TypeInv, TypeOK
<1>9. Counted
  BY <1>1, <1>2, <1>3, CountsKept
<1>10. ArtifactsTyped
  BY <1>1, <1>3, <1>7, ZenonT(30) DEF ArtifactsTyped, TypeInv, TypeOK
<1>11. ObjectsGo
  <2>1. Spared(k)
    BY <1>3, <1>5 DEF Spared, ExportInv, PublishedIsKept
  <2> QED
    BY <1>5, <1>6, <1>7, <2>1, ZenonT(30) DEF ObjectsGo, Quiet, Known, IntentsOf
<1>12. ~ mode.slow => SendsUntouched
  BY <1>5, <1>6, <1>7 DEF SendsUntouched, Quiet, ExportInv, SendsAreCovered, PendingKey
<1>13. parent' = "present" /\ ~ mode.slow =>
          \A x \in blobs' : (\E i \in outbox' : i.key = x) \/ row'[x.export].key = x
  BY <1>3, <1>7 DEF ExportInv, BlobsAccounted, IntentsOf, world
<1> QED
  BY <1>3, <1>6, <1>8, <1>9, <1>10, <1>11, <1>12, <1>13, Cleans DEF Quiet, world

\* A thread that goes on to erase these objects.
LEMMA EraseThenMoves ==
  ASSUME TypeInv, NEW t \in Threads, NEW q \in SUBSET (Scopes \X Keys), NEW n \in {"idle", "sweeping"},
         EraseThen(t, q, n)
  PROVE  /\ Moved /\ \A u \in Threads : thr'[u].pc \in Sending => thr[u].pc = thr'[u].pc
         /\ \A u \in Threads : \A p \in thr'[u].pending : p \in thr[u].pending \/ p \in q
<1>1. CASE Rest(t)
  BY <1>1, RestMoves, RestWalks, Zenon DEF Rest, Quiet
<1>2. CASE Goto(t, "sweeping", "idle")
  <2>1. "sweeping" \in Steps /\ "idle" \in Steps /\ "sweeping" \notin Sending /\ "sweeping" \notin Steps \ Idling
        /\ Order(thr[t].pc, "sweeping") /\ "idle" \notin Winding
    BY DEF Steps, Sending, Idling, Order, Early, Late, Winding
  <2>2. MovedTo(t, "sweeping", "idle", thr[t].pending)
    BY <1>2, <2>1, GotoMoves
  <2>3. Moved
    BY <2>1, <2>2, StaysMoved
  <2> QED
    BY <2>1, <2>2, <2>3 DEF MovedTo
<1>3. CASE thr' = [thr EXCEPT ![t].pc = "erasing", ![t].pending = q, ![t].then = n]
  <2>1. "erasing" \in Steps /\ n \in Steps /\ "erasing" \notin Sending /\ "erasing" \notin Steps \ Idling
        /\ Order(thr[t].pc, "erasing") /\ n \notin Winding
    BY DEF Steps, Sending, Idling, Order, Early, Late, Winding
  <2>2. MovedTo(t, "erasing", n, q)
    BY <1>3, <2>1, PendingMoves, Zenon
  <2>3. Moved
    BY <2>1, <2>2, StaysMoved
  <2> QED
    BY <2>1, <2>2, <2>3 DEF MovedTo
<1> QED
  BY <1>1, <1>2, <1>3 DEF EraseThen

\* A row that is removed.
LEMMA RemovedFields ==
  ASSUME NEW r \in Rows
  PROVE  /\ RemovedRow(r) \in Rows /\ RemovedRow(r).status = "GONE" /\ ~ RemovedRow(r).cancel
         /\ RemovedRow(r).key = None /\ RemovedRow(r).attempt = r.attempt
BY Zenon DEF RemovedRow, Rows

LEMMA RetainKeeps ==
  ASSUME ExportInv, NEW t \in Threads, Retain(t)
  PROVE  ExportInv'
<1>t. TypeInv /\ UNCHANGED <<world, blobs>> /\ (Failing \/ UNCHANGED budget)
  BY Zenon DEF ExportInv, Retain
<1>c. Counted
  BY <1>t, CountsKept
<1>1. CASE Goto(t, "sweeping", "idle") /\ UNCHANGED <<row, doc, outbox>>
  <2>1. EraseThen(t, {}, "sweeping")
    BY <1>1 DEF EraseThen
  <2>2. Moved /\ Quiet
    BY <1>t, <2>1, EraseThenMoves DEF Quiet
  <2> QED
    BY <1>1, <1>t, <2>2, ThreadOnly DEF artifacts
<1>2. ASSUME NEW old \in SUBSET {e \in Exports : row[e].status \in Terminal}, NEW objects,
             objects = {row[e].key : e \in old} \ {None},
             row' = [e \in Exports |-> IF e \in old THEN RemovedRow(row[e]) ELSE row[e]],
             doc' = [e \in Exports |-> IF e \in old THEN None ELSE doc[e]],
             outbox' = {i \in outbox : ~ (i.scope = "retention" /\ i.key \in objects)}
                          \cup [scope : {"retention"}, key : objects, state : {"READY"}],
             EraseThen(t, {"retention"} \X objects, "sweeping")
      PROVE  ExportInv'
  <2>1. ASSUME NEW k \in objects
        PROVE  /\ k \in Keys /\ k.export \in old /\ row[k.export].key = k
               /\ Known(k) /\ Spared(k)
    <3>1. PICK e \in old : k = row[e].key /\ row[e].key # None
      BY <1>2, <2>1
    <3>2. k \in Keys /\ k.export = e
      BY <1>t, <3>1 DEF TypeInv, TypeOK, Rows, ExportInv, KeysArePast
    <3>3. ASSUME NEW x \in Exports, row'[x].status = "COMPLETED" PROVE row'[x].key # k
      <4>1. x \notin old /\ row'[x] = row[x]
        BY <1>2, <1>t, <3>3, RemovedFields, ZenonT(30) DEF TypeInv, TypeOK
      <4> QED
        BY <3>2, <4>1, CompletedDoc, <3>3
    <3> QED
      BY <3>1, <3>2, <3>3 DEF Known, Spared
  <2>2. RowsGo(old)
    BY <1>2, <1>t, RemovedFields, Zenon DEF RowsGo, TypeInv, TypeOK
  <2>3. ASSUME NEW k \in Keys, k \in objects PROVE Doomed(k)'
    <3>1. row'[k.export].status = "GONE"
      BY <2>1, <2>2, <2>3 DEF RowsGo
    <3> QED
      BY <3>1 DEF Doomed, Protected
  <2>4. DocsGo(old)
    BY <1>2, <2>2, Zenon DEF DocsGo, RowsGo
  <2>5. /\ \A i \in outbox' : i \in outbox \/ (i \in Intents /\ i.key \in objects)
        /\ \A i : i.key \notin objects => (i \in outbox' <=> i \in outbox)
        /\ \A k \in objects : \E i \in outbox' : i.key = k
    <3>1. ASSUME NEW i \in [scope : {"retention"}, key : objects, state : {"READY"}]
          PROVE  i \in Intents /\ i.key \in objects
      BY <2>1 DEF Intents, Scopes
    <3>2. ASSUME NEW k \in objects PROVE \E i \in outbox' : i.key = k
      <4>1. [scope |-> "retention", key |-> k, state |-> "READY"] \in outbox'
        BY <1>2
      <4> QED
        BY <4>1
    <3> QED
      BY <1>2, <3>1, <3>2
  <2>6. {"retention"} \X objects \in SUBSET (Scopes \X Keys)
    BY <2>1 DEF Scopes
  <2>7. /\ Moved /\ \A u \in Threads : thr'[u].pc \in Sending => thr[u].pc = thr'[u].pc
        /\ \A u \in Threads : \A p \in thr'[u].pending : p \in thr[u].pending \/ p[2] \in objects
    BY <1>2, <1>t, <2>6, EraseThenMoves
  <2>8. ArtifactsTyped
    <3>1. doc' \in [Exports -> Documents \cup {None}]
      BY <1>2, <1>t, Zenon DEF TypeInv, TypeOK
    <3> QED
      BY <1>t, <2>5, <3>1 DEF ArtifactsTyped, TypeInv, TypeOK
  <2>9. ObjectsGo
    <3>1. \A i \in outbox' : i \in outbox \/ (Known(i.key) /\ Doomed(i.key)')
      BY <2>1, <2>3, <2>5
    <3>2. \A i \in outbox : Known(i.key)
      BY DEF Known, IntentsOf
    <3>3. \A u \in Threads : \A p \in thr'[u].pending :
             p \in thr[u].pending \/ (Known(p[2]) /\ Doomed(p[2])' /\ Spared(p[2]))
      BY <2>1, <2>3, <2>7, ZenonT(30)
    <3> QED
      BY <1>t, <3>1, <3>2, <3>3 DEF ObjectsGo
  <2>10. ~ mode.slow => SendsUntouched
    <3> SUFFICES ASSUME ~ mode.slow, NEW u \in Threads, thr[u].pc \in Sending
                 PROVE  /\ \A i : i.key = Key(u) => (i \in outbox' <=> i \in outbox)
                        /\ \A v \in Threads : \A p \in thr'[v].pending : p[2] # Key(u)
      BY DEF SendsUntouched
    <3>1. Key(u) \notin objects
      <4>1. Key(u).export = thr[u].export
        BY <1>t, BusyKeys DEF Sending, Steps, Idling
      <4>2. row[thr[u].export].key # Key(u)
        BY DEF ExportInv, PathsAreFresh, Path
      <4> QED
        BY <2>1, <4>1, <4>2
    <3>2. \A v \in Threads : ~ PendingKey(v, Key(u))
      BY DEF ExportInv, SendsAreCovered
    <3> QED
      BY <2>5, <2>7, <3>1, <3>2, Zenon DEF PendingKey
  <2>11. parent' = "present" /\ ~ mode.slow =>
            \A x \in blobs' : (\E i \in outbox' : i.key = x) \/ row'[x.export].key = x
    <3> SUFFICES ASSUME parent = "present", ~ mode.slow, NEW x \in blobs
                 PROVE  (\E i \in outbox' : i.key = x) \/ row'[x.export].key = x
      BY <1>t DEF world
    <3>0. x \in Keys /\ x.export \in Exports /\ x # None
      BY <1>t, ExportConstants, ZenonT(30) DEF TypeInv, TypeOK, Keys
    <3>1. CASE \E i \in outbox : i.key = x
      BY <2>5, <3>1, Zenon
    <3>2. CASE row[x.export].key = x
      <4>1. CASE x.export \in old
        <5>1. x \in objects
          BY <1>2, <3>0, <3>2, <4>1
        <5> QED
          BY <2>5, <5>1
      <4>2. CASE x.export \notin old
        BY <2>2, <3>0, <3>2, <4>2 DEF RowsGo
      <4> QED
        BY <4>1, <4>2
    <3> QED
      BY <3>1, <3>2 DEF ExportInv, BlobsAccounted, IntentsOf
  <2> QED
    BY <1>t, <1>c, <2>2, <2>4, <2>7, <2>8, <2>9, <2>10, <2>11, Cleans DEF world
<1> QED
  BY <1>1, <1>2, Zenon DEF Retain

LEMMA SweepKeeps ==
  ASSUME ExportInv, NEW t \in Threads, Sweep(t)
  PROVE  ExportInv'
<1>t. TypeInv /\ UNCHANGED <<world, row, blobs>> /\ UNCHANGED budget
  BY DEF ExportInv, Sweep
<1>c. Counted
  BY <1>t, CountsKept
<1>1. CASE Rest(t) /\ UNCHANGED <<doc, outbox>>
  BY <1>1, <1>t, RestMoves, RestWalks, ThreadOnly, Zenon DEF Rest, artifacts
<1>2. ASSUME NEW due \in SUBSET {i \in outbox : Sweepable(i)}, NEW lost \in SUBSET {e \in Exports : Orphaned(e)},
             NEW objects, objects = {doc[e].key : e \in lost},
             outbox' = {IF i \in due THEN [i EXCEPT !.state = "DELETING"] ELSE i :
                           i \in {j \in outbox : ~ (j.scope = "orphan" /\ j.key \in objects)}}
                       \cup [scope : {"orphan"}, key : objects, state : {"DELETING"}],
             doc' = [e \in Exports |-> IF e \in lost THEN None ELSE doc[e]],
             EraseThen(t, {<<i.scope, i.key>> : i \in due} \cup ({"orphan"} \X objects), "idle")
      PROVE  ExportInv'
  <2> DEFINE targets == {i.key : i \in due} \cup objects
             D(i) == IF i \in due THEN [i EXCEPT !.state = "DELETING"] ELSE i
  <2>1. ASSUME NEW k \in objects
        PROVE  k \in Keys /\ DocIs(k) /\ Known(k) /\ Spared(k) /\ Doomed(k)
    <3>1. PICK e \in lost : k = doc[e].key /\ Orphaned(e)
      BY <1>2, <2>1
    <3>2. doc[e] # None /\ k \in Keys /\ k.export = e
      BY <1>t, <3>1 DEF Orphaned, TypeInv, TypeOK, Documents, ExportInv, KeysArePast
    <3>3. DocIs(k) /\ Doomed(k)
      BY <3>1, <3>2, Zenon DEF DocIs, Orphaned, Doomed
    <3>4. Spared(k)
      BY <1>t, <3>1, Zenon DEF Orphaned, Spared
    <3> QED
      BY <3>2, <3>3, <3>4 DEF Known
  <2>2. ASSUME NEW i \in due
        PROVE  i \in outbox /\ i \in Intents /\ i.key \in Keys /\ Known(i.key) /\ Spared(i.key) /\ Doomed(i.key)
    <3>1. i \in outbox /\ Sweepable(i)
      BY <2>2
    <3>2. i \in Intents /\ i.key \in Keys /\ Known(i.key)
      BY <1>t, <3>1, ZenonT(30) DEF TypeInv, TypeOK, Intents, Known, IntentsOf
    <3>3. Spared(i.key)
      BY <1>t, <3>1, ZenonT(30) DEF Sweepable, Spared
    <3>4. Doomed(i.key)
      BY <3>1, Zenon DEF Sweepable, ExportInv, DeletesAreDoomed, Doomed
    <3> QED
      BY <3>1, <3>2, <3>3, <3>4
  <2>3. \A k \in targets : k \in Keys /\ Known(k) /\ Spared(k) /\ Doomed(k)
    BY <2>1, <2>2
  <2>4. \A i \in outbox : i \in Intents /\ D(i) \in Intents /\ D(i).key = i.key /\ (i.key \notin targets => D(i) = i)
    BY <1>t DEF TypeInv, TypeOK, Intents
  <2>5. /\ \A i \in outbox' : i \in outbox \/ (i \in Intents /\ i.key \in targets)
        /\ \A i : i.key \notin targets => (i \in outbox' <=> i \in outbox)
        /\ \A i \in outbox : \E j \in outbox' : j.key = i.key
    <3> DEFINE Kept == {j \in outbox : ~ (j.scope = "orphan" /\ j.key \in objects)}
               New == [scope : {"orphan"}, key : objects, state : {"DELETING"}]
    <3>1. ASSUME NEW i \in New PROVE i \in Intents /\ i.key \in objects
      BY <2>1 DEF Intents, Scopes
    <3>2. outbox' = {D(i) : i \in Kept} \cup New
      BY <1>2
    <3>3. \A i \in outbox : i \in due => i.key \in targets
      OBVIOUS
    <3>4. ASSUME NEW k \in objects PROVE \E i \in New : i.key = k
      <4>1. [scope |-> "orphan", key |-> k, state |-> "DELETING"] \in New
        OBVIOUS
      <4> QED
        BY <4>1, Zenon
    <3>5. \A k \in objects : k \in targets
      OBVIOUS
    <3>6. \A i \in outbox : i \in due \/ D(i) = i
      OBVIOUS
    <3>7. Kept \subseteq outbox /\ \A i \in outbox \ Kept : i.key \in objects
      OBVIOUS
    <3> HIDE DEF D, New, Kept, targets
    <3>8. \A i \in outbox' : i \in outbox \/ (i \in Intents /\ i.key \in targets)
      BY <2>4, <3>1, <3>2, <3>3, <3>5, <3>6, <3>7
    <3>9. \A i : i.key \notin targets => (i \in outbox' <=> i \in outbox)
      BY <2>4, <3>1, <3>2, <3>3, <3>5, <3>6, <3>7
    <3>10. \A i \in outbox : \E j \in outbox' : j.key = i.key
      BY <2>4, <3>2, <3>4, <3>7
    <3> QED
      BY <3>8, <3>9, <3>10
  <2>6. /\ Moved /\ \A u \in Threads : thr'[u].pc \in Sending => thr[u].pc = thr'[u].pc
        /\ \A u \in Threads : \A p \in thr'[u].pending : p \in thr[u].pending \/ p[2] \in targets
    <3> DEFINE q == {<<i.scope, i.key>> : i \in due} \cup ({"orphan"} \X objects)
    <3>1. q \in SUBSET (Scopes \X Keys) /\ \A p \in q : p[2] \in targets
      BY <2>1, <2>2 DEF Intents, Scopes
    <3>2. EraseThen(t, q, "idle")
      BY <1>2
    <3> HIDE DEF q, targets
    <3> QED
      BY <1>t, <3>1, <3>2, EraseThenMoves
  <2> HIDE DEF D
  <2>7. RowsGo({}) /\ DocsGo({})
    <3>1. \A e \in lost : row[e].status # "COMPLETED"
      BY CompletedDoc DEF Orphaned
    <3> QED
      BY <1>2, <1>t, <3>1 DEF RowsGo, DocsGo, TypeInv, TypeOK
  <2>8. ArtifactsTyped
    <3>1. doc' \in [Exports -> Documents \cup {None}]
      BY <1>2, <1>t DEF TypeInv, TypeOK
    <3> QED
      BY <1>t, <2>5, <3>1 DEF ArtifactsTyped, TypeInv, TypeOK
  <2>9. ASSUME ~ mode.slow, NEW u \in Threads, thr[u].pc \in Sending PROVE Key(u) \notin targets
    <3>1. Key(u) \notin objects
      BY <2>1, <2>9 DEF ExportInv, PathsAreFresh
    <3>2. ASSUME NEW i \in due, i.key = Key(u) PROVE FALSE
      <4>1. i = [scope |-> "publication", key |-> Key(u), state |-> "UPLOADING"]
        BY <2>2, <2>9, <3>2 DEF ExportInv, SendsAreCovered, IntentsOf
      <4>2. Aged(Key(u))
        BY <3>2, <4>1 DEF Sweepable
      <4> QED
        BY <2>9, <4>2 DEF Aged, Sending
    <3> QED
      BY <3>1, <3>2
  <2> HIDE DEF targets
  <2>10. ObjectsGo
    <3>1. \A i \in outbox' : i \in outbox \/ (Known(i.key) /\ Doomed(i.key))
      BY <2>3, <2>5
    <3>2. \A i \in outbox : Known(i.key)
      BY DEF Known, IntentsOf
    <3>3. \A u \in Threads : \A p \in thr'[u].pending :
             p \in thr[u].pending \/ (Known(p[2]) /\ Doomed(p[2]) /\ Spared(p[2]))
      BY <2>3, <2>6, ZenonT(30)
    <3> QED
      BY <1>t, <3>1, <3>2, <3>3 DEF ObjectsGo
  <2>11. ~ mode.slow => SendsUntouched
    BY <2>5, <2>6, <2>9, Zenon DEF SendsUntouched, ExportInv, SendsAreCovered, PendingKey
  <2>12. parent' = "present" /\ ~ mode.slow =>
            \A x \in blobs' : (\E i \in outbox' : i.key = x) \/ row'[x.export].key = x
    BY <1>t, <2>5 DEF ExportInv, BlobsAccounted, IntentsOf, world
  <2> QED
    BY <1>t, <1>c, <2>6, <2>7, <2>8, <2>10, <2>11, <2>12, Cleans DEF world
<1> QED
  BY <1>1, <1>2, Zenon DEF Sweep

LEMMA DeleteParentKeeps ==
  ASSUME ExportInv, DeleteParent
  PROVE  ExportInv'
<1> DEFINE gone == {e \in Exports : row[e].status \in Terminal}
<1>t. TypeInv /\ UNCHANGED <<mode, source, blobs, budget>> /\ parent' = "deleted" /\ Deleter \in Threads
      /\ thr[Deleter].pc = "idle"
  BY DEF ExportInv, DeleteParent, Threads
<1>1. Counted
  BY <1>t DEF Counted, TypeInv, TypeOK, budget
<1>2. PICK hidden : /\ hidden \subseteq {doc[e].key : e \in {x \in Exports : doc[x] # None}}
                    /\ outbox' = {i \in outbox : ~ (i.scope = "job-delete" /\ i.key \in hidden)}
                                 \cup [scope : {"job-delete"}, key : hidden, state : {"READY"}]
                    /\ thr' = [thr EXCEPT ![Deleter].pc = IF hidden = {} THEN "idle" ELSE "erasing",
                                          ![Deleter].pending = {"job-delete"} \X hidden]
  BY ZenonT(30) DEF DeleteParent
<1>3. \A e \in Exports : row[e].status \notin Active
  BY DEF DeleteParent
<1>4. RowsGo(gone)
  BY <1>t, RemovedFields DEF DeleteParent, RowsGo, TypeInv, TypeOK
<1>5. \A e \in Exports : row'[e].status \in {"ABSENT", "GONE"} /\ doc'[e] = None
  <2>1. \A e \in Exports : row[e].status \in Terminal \cup {"ABSENT", "GONE"}
    BY <1>t, <1>3 DEF TypeInv, TypeOK, Rows
  <2> QED
    BY <1>4, <2>1 DEF RowsGo, DeleteParent
<1>6. DocsGo(gone)
  BY <1>5 DEF DocsGo
<1>7. ASSUME NEW k \in hidden PROVE k \in Keys /\ DocIs(k) /\ Known(k) /\ Spared(k) /\ Doomed(k)
  <2>1. PICK e \in Exports : doc[e] # None /\ k = doc[e].key
    BY <1>2, <1>7
  <2>2. k \in Keys /\ k.export = e
    BY <1>t, <2>1 DEF TypeInv, TypeOK, Documents, ExportInv, KeysArePast
  <2>3. ~ Protected(k)
    BY <1>3, <2>2 DEF Protected, Active
  <2> QED
    BY <1>5, <2>1, <2>2, <2>3, Zenon DEF DocIs, Known, Spared, Doomed
<1>8. /\ Moved /\ \A u \in Threads : thr'[u].pc \in Sending => thr[u].pc = thr'[u].pc
      /\ \A u \in Threads : \A p \in thr'[u].pending : p \in thr[u].pending \/ p[2] \in hidden
  <2>1. PICK p \in {"idle", "erasing"} : p = IF hidden = {} THEN "idle" ELSE "erasing"
    OBVIOUS
  <2>2. p \in Steps /\ thr[Deleter].then \in Steps /\ {"job-delete"} \X hidden \in SUBSET (Scopes \X Keys)
        /\ thr[Deleter].then \in {"idle", "sweeping"} \cup Winding /\ (thr[Deleter].then \in Winding => Busy(Deleter))
        /\ p \notin Steps \ Idling /\ p \notin Sending /\ Order("idle", p)
    BY <1>t, <1>7, ThreadFields, ZenonT(30) DEF Steps, Scopes, Idling, Sending, TypeInv, Order, Early, Late
  <2>3. MovedTo(Deleter, p, thr[Deleter].then, {"job-delete"} \X hidden)
    BY <1>2, <1>t, <2>1, <2>2, PendingMoves, ZenonT(30)
  <2>4. Moved
    BY <1>t, <2>2, <2>3, StaysMoved, Zenon
  <2> QED
    BY <2>2, <2>3, <2>4 DEF MovedTo
<1>9. /\ \A i \in outbox' : i \in outbox \/ (i \in Intents /\ i.key \in hidden)
      /\ \A i : i.key \notin hidden => (i \in outbox' <=> i \in outbox)
  <2>1. ASSUME NEW i \in [scope : {"job-delete"}, key : hidden, state : {"READY"}]
        PROVE  i \in Intents /\ i.key \in hidden
    BY <1>7 DEF Intents, Scopes
  <2> QED
    BY <1>2, <2>1
<1>10. ArtifactsTyped
  <2>1. doc' \in [Exports -> Documents \cup {None}]
    BY DEF DeleteParent
  <2> QED
    BY <1>t, <1>9, <2>1 DEF ArtifactsTyped, TypeInv, TypeOK
<1>11. ObjectsGo
  <2>1. \A i \in outbox' : i \in outbox \/ (Known(i.key) /\ Doomed(i.key))
    BY <1>7, <1>9
  <2>2. \A i \in outbox : Known(i.key)
    BY DEF Known, IntentsOf
  <2>3. \A u \in Threads : \A p \in thr'[u].pending :
           p \in thr[u].pending \/ (Known(p[2]) /\ Doomed(p[2]) /\ Spared(p[2]))
    BY <1>7, <1>8
  <2> QED
    BY <1>t, <2>1, <2>2, <2>3 DEF ObjectsGo
<1>12. ~ mode.slow => SendsUntouched
  <2>1. \A u \in Threads : thr[u].pc \in Sending => Key(u) \notin hidden
    BY <1>7 DEF ExportInv, PathsAreFresh
  <2> QED
    BY <1>8, <1>9, <2>1 DEF SendsUntouched, ExportInv, SendsAreCovered, PendingKey
<1>13. gone \in SUBSET Exports /\ parent' # "present"
  BY <1>t
<1> QED
  BY <1>1, <1>4, <1>5, <1>6, <1>8, <1>10, <1>11, <1>12, <1>13, Cleans

-----------------------------------------------------------------------------
(* A new attempt *)

\* Thread t begins the next attempt of e; what it worked on before is dropped.
Begun(t, e, p) ==
    /\ thr' \in [Threads -> ThreadStates] /\ \A u \in Threads : u # t => thr'[u] = thr[u]
    /\ thr'[t].pc = p /\ thr'[t].export = e /\ thr'[t].attempt = row[e].attempt + 1
    /\ thr'[t].then = "idle" /\ thr'[t].pending = {}
    /\ row' \in [Exports -> Rows] /\ \A x \in Exports : x # e => row'[x] = row[x]
    /\ row'[e].status = "RUNNING" /\ row'[e].attempt = row[e].attempt + 1 /\ row'[e].key = row[e].key
    /\ ~ row'[e].cancel
    /\ row[e].status \in {"ABSENT", "QUEUED"} /\ row[e].attempt + 1 \in Attempts
    /\ parent = "present" /\ UNCHANGED <<world, artifacts, budget>>

LEMMA BegunKeeps ==
  ASSUME ExportInv, NEW t \in Threads, NEW e \in Exports, NEW p \in Early, Begun(t, e, p)
  PROVE  ExportInv'
<1> USE DEF ExportInv, artifacts, world, budget
<1>1. TypeInv /\ p \in Steps /\ p \notin Sending /\ p \notin Late /\ e # None
  BY ExportConstants DEF Early, Steps, Sending, Late
<1>2. row[e].attempt \in Nat /\ row[e].key = None
  BY <1>1 DEF TypeInv, TypeOK, Rows, KeysArePast, Begun
<1>p. \A u \in Threads : \A q \in thr'[u].pending : q \in thr[u].pending
  BY Zenon DEF Begun
<1>3. ASSUME NEW k \in Keys, KeyPast(k)
      PROVE  /\ k.attempt <= row'[k.export].attempt
             /\ k.export = e => k.attempt # row[e].attempt + 1
  <2>1. k.export \in Exports /\ k.attempt \in Nat
    BY KeyFields, Zenon
  <2> QED
    BY <1>2, <1>3, <2>1 DEF KeyPast, Begun
<1>4. \A u \in Threads : thr'[u].export # None => u = t \/ (thr'[u] = thr[u] /\ Busy(u))
  BY DEF Begun, Busy
<1>5. \A u \in Threads : Busy(u) => Key(u) \in Keys /\ KeyPast(Key(u))
  BY <1>1, BusyKeys DEF AttemptsAreUnique, KeyPast
<1>6. ASSUME NEW k \in Keys, KeyPast(k), Doomed(k) PROVE Doomed(k)'
  <2>0. k.export \in Exports
    BY DEF Keys
  <2>1. CASE ~ Protected(k)
    BY <1>3, <1>6, <2>0, <2>1, ZenonT(30) DEF Doomed, Protected, Begun
  <2>2. CASE \A u \in Threads : Busy(u) /\ Key(u) = k =>
                thr[u].pc \notin Path \/ (thr[u].pc \in Late /\ ~ DocIs(k))
    <3> SUFFICES ASSUME NEW u \in Threads, thr'[u].export # None, Key(u)' = k
                 PROVE  thr'[u].pc \notin Path \/ (thr'[u].pc \in Late /\ ~ DocIs(k))
      BY DEF Doomed, Busy, DocIs, Begun
    <3>1. u # t
      BY <1>3, <1>6, ZenonT(30) DEF Begun, Key
    <3> QED
      BY <1>4, <2>2, <3>1, ZenonT(30) DEF Key
  <2> QED
    BY <1>6, <2>1, <2>2, Zenon DEF Doomed
<1>7. TypeInv'
  <2>1. TypeOK'
    BY <1>1, ZenonT(30) DEF TypeOK, TypeInv, Begun
  <2>2. \A u \in Threads : /\ thr'[u].then \in {"idle", "sweeping"} \cup Winding
                           /\ thr'[u].then \in Winding => thr'[u].export # None
                           /\ thr'[u].export # None => thr'[u].attempt \in Attempts
    BY <1>1, ZenonT(30) DEF TypeInv, Begun, Busy, Winding
  <2>3. \A x \in Exports : /\ row'[x].status = "QUEUED" => row'[x].attempt < MaxAttempts
                           /\ row'[x].status = "ABSENT" => row'[x].attempt = 0
    BY <1>1 DEF TypeInv, Begun
  <2> QED
    BY <2>1, <2>2, <2>3, ZenonT(30) DEF TypeInv, Busy
<1>8. CancelHonoured'
  BY DEF CancelHonoured, Begun
<1>9. AttemptsAreUnique'
  <2>1. ASSUME NEW u \in Threads, Busy(u), u # t
        PROVE  /\ thr[u].export \in Exports /\ thr[u].attempt <= row'[thr[u].export].attempt
               /\ thr[u].export # e \/ thr[u].attempt # row[e].attempt + 1
    <3>1. Key(u) \in Keys /\ KeyPast(Key(u)) /\ Key(u).export = thr[u].export /\ Key(u).attempt = thr[u].attempt
          /\ thr[u].export \in Exports
      BY <1>1, <1>5, <2>1, BusyKeys, Zenon
    <3> QED
      BY <1>3, <3>1, ZenonT(30)
  <2>2. thr'[t].attempt <= row'[thr'[t].export].attempt
    BY <1>2 DEF Begun
  <2>3. \A u \in Threads : thr'[u].export # None => thr'[u].attempt <= row'[thr'[u].export].attempt
    BY <1>4, <2>1, <2>2
  <2>4. ASSUME NEW u \in Threads, NEW v \in Threads, u # v, thr'[u].export # None, thr'[v].export # None
        PROVE  thr'[u].export # thr'[v].export \/ thr'[u].attempt # thr'[v].attempt
    <3>1. CASE u # t /\ v # t
      BY <1>4, <2>4, <3>1 DEF AttemptsAreUnique
    <3>2. CASE u = t \/ v = t
      BY <1>4, <2>1, <2>4, <3>2, ZenonT(30) DEF Begun
    <3> QED
      BY <3>1, <3>2
  <2> QED
    BY <2>3, <2>4, ZenonT(30) DEF AttemptsAreUnique, Busy
<1>10. KeysArePast'
  <2> DEFINE Past(k) == k.attempt <= row'[k.export].attempt
  <2>0. \A k \in Keys : KeyPast(k) => Past(k)
    BY <1>3
  <2> HIDE DEF Past
  <2>1. \A i \in outbox : i.key \in Keys
    BY <1>1, ZenonT(30) DEF TypeInv, TypeOK, Intents
  <2>2. \A x \in Exports : /\ doc[x] # None => doc[x].key \in Keys
                           /\ row[x].key # None => row[x].key \in Keys
    BY <1>1 DEF TypeInv, TypeOK, Documents, Rows
  <2>3. \A u \in Threads : \A q \in thr[u].pending : q[2] \in Keys
    BY <1>1, ThreadFields
  <2>4. \A i \in outbox' : Past(i.key)
    BY <2>0, <2>1 DEF KeysArePast, Begun
  <2>5. \A x \in Exports : doc'[x] # None => doc'[x].key.export = x /\ Past(doc'[x].key)
    BY <2>0, <2>2 DEF KeysArePast, Begun
  <2>6. \A x \in Exports : row'[x].key # None =>
           row'[x].key.export = x /\ Past(row'[x].key) /\ row'[x].status \in {"COMPLETED", "FAILED"}
    BY <1>2, <2>0, <2>2 DEF KeysArePast, Begun
  <2>7. \A u \in Threads : \A q \in thr'[u].pending : Past(q[2])
    BY <1>p, <2>0, <2>3, ZenonT(30) DEF KeysArePast
  <2> QED
    BY <2>4, <2>5, <2>6, <2>7, Zenon DEF KeysArePast, KeyPast, Past
<1>11. PathsAreFresh'
  <2> DEFINE k == [export |-> e, attempt |-> row[e].attempt + 1]
  <2>1. k \in Keys /\ k # None /\ Key(t)' = k /\ k.export = e
    BY ExportConstants DEF Keys, Begun, Key
  <2>2. ~ KeyPast(k)
    BY <1>2, NextIsNotPast, Zenon
  <2> HIDE DEF k
  <2>3. /\ {i \in outbox' : i.key = k} = {} /\ (\A u \in Threads : \A q \in thr'[u].pending : q[2] # k)
        /\ ~ (doc'[e] # None /\ doc'[e].key = k) /\ row'[e].key # k
    BY <1>2, <1>p, <2>1, <2>2 DEF KeysArePast, Begun
  <2>4. ASSUME NEW u \in Threads, u # t
        PROVE  /\ thr'[u].pc \in Early => /\ {i \in outbox' : i.key = Key(u)'} = {}
                                          /\ \A v \in Threads : \A q \in thr'[v].pending : q[2] # Key(u)'
               /\ thr'[u].pc \in Early \cup Sending =>
                     ~ (doc'[Key(u)'.export] # None /\ doc'[Key(u)'.export].key = Key(u)')
               /\ thr'[u].pc \in Path \cup {"discarding"} => row'[thr'[u].export].key # Key(u)'
    <3>1. thr'[u] = thr[u] /\ Key(u)' = Key(u)
      BY <2>4 DEF Begun, Key
    <3>2. \A x \in Exports : row'[x].key = row[x].key
      BY DEF Begun
    <3>3. thr[u].pc \in Path \cup {"discarding"} => thr[u].export \in Exports
      BY <1>1, BusyKeys, StepsAre
    <3> QED
      BY <1>p, <3>1, <3>2, <3>3 DEF PathsAreFresh, IntentsOf, PendingKey, DocIs, Begun
  <2>5. /\ thr'[t].pc \in Early => /\ {i \in outbox' : i.key = Key(t)'} = {}
                                   /\ \A v \in Threads : \A q \in thr'[v].pending : q[2] # Key(t)'
        /\ ~ (doc'[Key(t)'.export] # None /\ doc'[Key(t)'.export].key = Key(t)')
        /\ row'[thr'[t].export].key # Key(t)'
    BY <2>1, <2>3 DEF Begun
  <2> QED
    BY <2>4, <2>5, ZenonT(30) DEF PathsAreFresh, IntentsOf, PendingKey, DocIs
<1>12. DeletesAreDoomed'
  <2>1. \A i \in outbox : i.key \in Keys /\ KeyPast(i.key)
    BY <1>1, ZenonT(30) DEF TypeInv, TypeOK, Intents, KeysArePast
  <2>2. \A u \in Threads : \A q \in thr[u].pending : q[2] \in Keys /\ KeyPast(q[2])
    BY <1>1, ThreadFields, Zenon DEF KeysArePast
  <2>3. \A i \in outbox' : i.state \in {"READY", "DELETING"} => Doomed(i.key)'
    BY <1>6, <2>1 DEF DeletesAreDoomed, Begun
  <2>4. \A u \in Threads : \A q \in thr'[u].pending : Doomed(q[2])'
    BY <1>6, <1>p, <2>2, ZenonT(30) DEF DeletesAreDoomed
  <2> QED
    BY <2>3, <2>4, ZenonT(30) DEF DeletesAreDoomed
<1>13. UploadsAreThere'
  <2> SUFFICES ASSUME NEW u \in Threads, thr'[u].pc \in {"staging"} \cup Late, ~ Doomed(Key(u))'
               PROVE  Key(u)' \in blobs'
    BY DEF UploadsAreThere
  <2>1. thr'[u] = thr[u] /\ Key(u)' = Key(u)
    BY <1>1 DEF Begun, Key, Early, Late
  <2>2. Busy(u)
    BY <1>1, <2>1, BusyKeys, ZenonT(30) DEF Steps, Idling, Late
  <2>k. PICK k \in Keys : k = Key(u) /\ KeyPast(k)
    BY <1>5, <2>2, ZenonT(30)
  <2>3. ~ Doomed(k)'
    BY <2>1, <2>k, ZenonT(30) DEF Doomed, Protected, DocIs
  <2> QED
    BY <1>6, <2>1, <2>k, <2>3, ZenonT(30) DEF UploadsAreThere, Begun
<1>14. PublishedIsKept'
  <2>1. \A x \in Exports : row'[x].status = "COMPLETED" => x # e
    BY DEF Begun
  <2> QED
    BY <1>p, <2>1 DEF PublishedIsKept, PublishedIntact, PendingKey, Begun
<1>15. SendsAreCovered'
  <2> SUFFICES ASSUME ~ mode.slow, NEW u \in Threads, thr'[u].pc \in Sending
               PROVE  /\ IntentsOf(Key(u))' = {[scope |-> "publication", key |-> Key(u)', state |-> "UPLOADING"]}
                      /\ \A v \in Threads : ~ PendingKey(v, Key(u))'
    BY ZenonT(30) DEF SendsAreCovered, Begun
  <2>1. thr'[u] = thr[u] /\ Key(u)' = Key(u) /\ outbox' = outbox
    BY <1>1, ZenonT(30) DEF Begun, Key
  <2>2. IntentsOf(Key(u)) = {[scope |-> "publication", key |-> Key(u), state |-> "UPLOADING"]}
        /\ \A v \in Threads : ~ PendingKey(v, Key(u))
    BY <2>1 DEF SendsAreCovered
  <2>3. IntentsOf(Key(u))' = IntentsOf(Key(u))
    BY <2>1 DEF IntentsOf
  <2> QED
    BY <1>p, <2>1, <2>2, <2>3 DEF PendingKey
<1>16. BlobsAccounted'
  <2>1. \A x \in blobs : x.export \in Exports
    BY <1>1 DEF TypeInv, TypeOK, Keys
  <2> QED
    BY <2>1, ZenonT(30) DEF BlobsAccounted, IntentsOf, Begun
<1> QED
  BY <1>7, <1>8, <1>9, <1>10, <1>11, <1>12, <1>13, <1>14, <1>15, <1>16

LEMMA NewRowIs ==
  /\ NewRow \in Rows /\ NewRow.status = "ABSENT" /\ NewRow.attempt = 0 /\ ~ NewRow.cancel
  /\ NewRow.key = None
BY ExportConstants DEF NewRow, Rows

Starting(p, e, n) == [Resting(p) EXCEPT !.export = e, !.attempt = n]

LEMMA StartsAs ==
  ASSUME NEW p \in Steps, NEW e \in Exports, NEW n \in 0 .. MaxAttempts
  PROVE  /\ Starting(p, e, n) \in ThreadStates /\ Starting(p, e, n).pc = p /\ Starting(p, e, n).export = e
         /\ Starting(p, e, n).attempt = n /\ Starting(p, e, n).then = "idle" /\ Starting(p, e, n).pending = {}
<1> DEFINE q == Resting(p)
<1>1. q \in ThreadStates /\ q.pc = p /\ q.then = "idle" /\ q.pending = {}
  BY ExportConstants DEF Resting, ThreadStates, Steps
<1> HIDE DEF q
<1>2. LET s == [q EXCEPT !.export = e, !.attempt = n] IN
      s \in ThreadStates /\ s.pc = p /\ s.export = e /\ s.attempt = n /\ s.then = "idle" /\ s.pending = {}
  BY <1>1, Zenon DEF ThreadStates
<1> QED
  BY <1>2 DEF q, Starting

LEMMA ClaimKeeps ==
  ASSUME ExportInv, NEW t \in Threads, NEW e \in Exports, Claim(t, e)
  PROVE  ExportInv'
<1>1. TypeInv /\ row \in [Exports -> Rows] /\ thr \in [Threads -> ThreadStates] /\ row[e] \in Rows
  BY DEF ExportInv, TypeInv, TypeOK
<1>2. /\ row[e].status = "QUEUED" /\ row[e].attempt < MaxAttempts /\ ~ row[e].cancel /\ parent = "present"
      /\ row[e].attempt \in Nat /\ row[e].attempt + 1 \in Attempts
  <2>1. row[e].status = "QUEUED"
    BY DEF Claim
  <2>2. row[e].attempt < MaxAttempts /\ ~ row[e].cancel /\ parent = "present" /\ row[e].attempt \in Nat
    BY <1>1, <2>1 DEF ExportInv, CancelHonoured, TypeInv, TypeOK, Rows
  <2> QED
    BY <2>1, <2>2, ExportConstants DEF Attempts
<1> DEFINE n == row[e].attempt + 1
           r == [row[e] EXCEPT !.status = "RUNNING", !.attempt = n, !.lease = "live"]
           s == Starting("claimed", e, n)
<1>n. n \in 0 .. MaxAttempts
  BY <1>2, ExportConstants DEF Attempts
<1>3. /\ r \in Rows /\ r.status = "RUNNING" /\ r.attempt = n /\ r.key = row[e].key /\ r.cancel = row[e].cancel
      /\ row' = [row EXCEPT ![e] = r]
  <2>1. row' = [row EXCEPT ![e] = r]
    BY <1>1, Zenon DEF Claim
  <2> HIDE DEF n
  <2>2. /\ r \in Rows /\ r.status = "RUNNING" /\ r.attempt = n /\ r.key = row[e].key
        /\ r.cancel = row[e].cancel
    BY <1>1, <1>n, Zenon DEF Rows, Active
  <2> QED
    BY <2>1, <2>2
<1>4. /\ s \in ThreadStates /\ s.pc = "claimed" /\ s.export = e /\ s.attempt = n /\ s.then = "idle" /\ s.pending = {}
      /\ thr' = [thr EXCEPT ![t] = s]
  <2>1. thr' = [thr EXCEPT ![t] = s]
    BY DEF Claim, Starting
  <2>2. "claimed" \in Steps
    BY DEF Steps
  <2> HIDE DEF n
  <2> QED
    BY <1>n, <2>1, <2>2, StartsAs
<1>u. UNCHANGED <<world, artifacts, budget>>
  BY DEF Claim
<1> HIDE DEF r, s
<1>5. Begun(t, e, "claimed")
  BY <1>1, <1>2, <1>3, <1>4, <1>u, Zenon DEF Begun
<1> QED
  BY <1>5, BegunKeeps DEF Early

LEMMA AdmitKeeps ==
  ASSUME ExportInv, NEW e \in Exports, Admit(e)
  PROVE  ExportInv'
<1>1. TypeInv /\ row \in [Exports -> Rows] /\ thr \in [Threads -> ThreadStates] /\ row[e] \in Rows
      /\ UNCHANGED <<world, artifacts, budget>>
  BY DEF ExportInv, TypeInv, TypeOK, Admit
<1>2. /\ row[e].status = "ABSENT" /\ row[e].attempt = 0 /\ parent = "present" /\ row[e].key = None
      /\ 1 \in Attempts /\ source \in 0 .. MaxGeneration
  BY ExportConstants DEF Admit, ExportInv, TypeInv, TypeOK, KeysArePast, Attempts
<1>3. CASE e \in Synchronous
  <2> DEFINE r == [NewRow EXCEPT !.status = "RUNNING", !.attempt = 1, !.lease = "live", !.generation = source]
             s == Starting("building", e, 1)
  <2>1. /\ r \in Rows /\ r.status = "RUNNING" /\ r.attempt = 1 /\ r.key = None /\ ~ r.cancel
        /\ row' = [row EXCEPT ![e] = r]
    <3>1. r \in Rows /\ r.status = "RUNNING" /\ r.attempt = 1 /\ r.key = None /\ ~ r.cancel
      <4>1. 1 \in 0 .. MaxAttempts
        BY <1>2 DEF Attempts
      <4> QED
        BY <1>2, <4>1, NewRowIs, ZenonT(30) DEF Rows, Active
    <3> QED
      BY <1>3, <3>1 DEF Admit
  <2>2. /\ s \in ThreadStates /\ s.pc = "building" /\ s.export = e /\ s.attempt = 1 /\ s.then = "idle" /\ s.pending = {}
        /\ thr' = [thr EXCEPT ![e] = s] /\ e \in Threads
    <3>1. 1 \in 0 .. MaxAttempts /\ "building" \in Steps
      BY <1>2 DEF Attempts, Steps
    <3> QED
      <4>1. thr' = [thr EXCEPT ![e] = s] /\ e \in Threads
        BY <1>3, Zenon DEF Admit, Starting, Threads
      <4> QED
        BY <3>1, <4>1, StartsAs
  <2> HIDE DEF r, s
  <2>3. Begun(e, e, "building")
    BY <1>1, <1>2, <2>1, <2>2 DEF Begun
  <2> QED
    BY <2>2, <2>3, BegunKeeps, Zenon DEF Early
<1>4. CASE e \notin Synchronous
  <2> DEFINE r == [NewRow EXCEPT !.status = "QUEUED", !.generation = source]
  <2>1. /\ r \in Rows /\ r.status = "QUEUED" /\ r.attempt = 0 /\ r.key = None /\ ~ r.cancel
        /\ row' = [row EXCEPT ![e] = r] /\ UNCHANGED thr
    <3>1. r \in Rows /\ r.status = "QUEUED" /\ r.attempt = 0 /\ r.key = None /\ ~ r.cancel
      BY <1>2, NewRowIs, Zenon DEF Rows, Active
    <3> QED
      BY <1>4, <3>1 DEF Admit
  <2> HIDE DEF r
  <2>2. RowsEnd
    <3>1. \A x \in Exports : /\ row[x].cancel => row[x].status \in {"RUNNING", "CANCELLED"}
                             /\ row[x].status = "QUEUED" => row[x].attempt < MaxAttempts
      BY DEF ExportInv, CancelHonoured, TypeInv
    <3>2. 0 < MaxAttempts
      BY ExportConstants
    <3> QED
      BY <1>1, <1>2, <2>1, <3>1, <3>2 DEF RowsEnd
  <2> QED
    BY <1>1, <2>1, <2>2, CountsKept, ThreadsSame, Frame DEF world
<1> QED
  BY <1>3, <1>4

-----------------------------------------------------------------------------
(* The invariant *)

LEMMA InitInv == Init => ExportInv
<1> SUFFICES ASSUME Init PROVE ExportInv
  OBVIOUS
<1>1. \A p \in {"idle", "down"} : /\ Resting(p) \in ThreadStates /\ Resting(p).pc = p /\ Resting(p).then = "idle"
                                  /\ Resting(p).export = None /\ Resting(p).pending = {}
  BY ExportConstants DEF Resting, ThreadStates, Steps
<1>2. \A t \in Threads : thr[t].pc \in {"idle", "down"} /\ thr[t].then = "idle" /\ thr[t].export = None
                         /\ thr[t].pending = {} /\ thr[t] \in ThreadStates
  BY <1>1, Zenon DEF Init
<1>3. /\ NewRow \in Rows /\ NewRow.status = "ABSENT" /\ NewRow.attempt = 0 /\ ~ NewRow.cancel
      /\ NewRow.key = None
  BY NewRowIs
<1>4. /\ \A e \in Exports : row[e] = NewRow /\ doc[e] = None
      /\ outbox = {} /\ blobs = {} /\ parent = "present"
  BY DEF Init
<1>5. {"idle", "down"} \cap (Path \cup {"discarding"} \cup Winding) = {}
  BY DEF Path, Early, Sending, Late, Winding
<1>6. \A t \in Threads : thr[t].pc \notin Path \cup {"discarding"} /\ thr[t].then \notin Winding
  BY <1>2, <1>5
<1>7. TypeOK
  <2>1. thr \in [Threads -> ThreadStates]
    BY <1>2, Zenon DEF Init
  <2>2. row \in [Exports -> Rows] /\ doc \in [Exports -> Documents \cup {None}]
    BY <1>3 DEF Init
  <2> QED
    BY <1>2, <2>1, <2>2, ExportConstants DEF Init, TypeOK
<1>8. TypeInv
  BY <1>2, <1>3, <1>4, <1>6, <1>7 DEF TypeInv, Busy
<1>9. CancelHonoured /\ AttemptsAreUnique /\ KeysArePast
  BY <1>2, <1>3, <1>4 DEF CancelHonoured, AttemptsAreUnique, KeysArePast, Busy
<1>10. PathsAreFresh /\ DeletesAreDoomed /\ UploadsAreThere /\ SendsAreCovered
  BY <1>2, <1>4, <1>6, ZenonT(30) DEF PathsAreFresh, DeletesAreDoomed, UploadsAreThere, SendsAreCovered, Path
<1>11. PublishedIsKept /\ BlobsAccounted
  BY <1>3, <1>4 DEF PublishedIsKept, PublishedIntact, BlobsAccounted
<1> QED
  BY <1>8, <1>9, <1>10, <1>11 DEF ExportInv

LEMMA StutterInv == ExportInv /\ UNCHANGED vars => ExportInv'
<1> SUFFICES ASSUME ExportInv, UNCHANGED vars PROVE ExportInv'
  OBVIOUS
<1>1. UNCHANGED <<world, row, artifacts>> /\ UNCHANGED budget /\ UNCHANGED thr /\ TypeInv
  BY DEF vars, world, artifacts, budget, ExportInv
<1> QED
  BY <1>1, ThreadsSame, ThreadOnly

LEMMA NextInv == ExportInv /\ [Next]_vars => ExportInv'
<1> SUFFICES ASSUME ExportInv, [Next]_vars PROVE ExportInv'
  OBVIOUS
<1>1. CASE Api
  BY <1>1, AdmitKeeps, RowActions, DeleteParentKeeps DEF Api
<1>2. ASSUME NEW t \in Threads, Attempting(t) PROVE ExportInv'
  BY <1>2, WalkActions, SaveIntentKeeps, PutKeeps, StageKeeps, DiscardKeeps, CompleteKeeps, CompensateKeeps,
     RowActions, EraseKeeps DEF Attempting
<1>3. ASSUME NEW t \in Threads, Maintaining(t) \/ Heartbeat(t) \/ Stop(t) \/ Crash(t) PROVE ExportInv'
  BY <1>3, RowActions, RetainKeeps, SweepKeeps, WalkActions DEF Maintaining
<1>4. ASSUME NEW t \in Workers, NEW e \in Exports, Claim(t, e) PROVE ExportInv'
  BY <1>4, ClaimKeeps DEF Threads
<1>5. ASSUME NEW e \in Exports, Expire(e) PROVE ExportInv'
  BY <1>5, RowActions
<1> QED
  BY <1>1, <1>2, <1>3, <1>4, <1>5, StutterInv DEF Next

\* The inductive invariant holds, with it the types.
THEOREM ExportTypeCorrect == Spec => []ExportInv
BY InitInv, NextInv, PTL DEF Spec

-----------------------------------------------------------------------------
(* What the rows go through *)

RowStays(e) ==
    row'[e].status = row[e].status /\ row'[e].attempt = row[e].attempt /\ row'[e].key = row[e].key

RowAdmitted(e) ==
    /\ row[e].status = "ABSENT"
    /\ \/ row'[e].status = "QUEUED" /\ row'[e].attempt = row[e].attempt
       \/ row'[e].status = "RUNNING" /\ row'[e].attempt = 1

RowClaimed(e) ==
    /\ row[e].status = "QUEUED" /\ row[e].attempt < MaxAttempts
    /\ row'[e].status = "RUNNING" /\ row'[e].attempt = row[e].attempt + 1

RowPublished(e) ==
    /\ row[e].status = "RUNNING" /\ SourceCurrent(e) /\ ~ row[e].cancel
    /\ row'[e].status = "COMPLETED" /\ row'[e].attempt = row[e].attempt
    /\ row'[e].key.attempt = row[e].attempt

RowEnded(e) ==
    /\ row[e].status \in {"QUEUED", "RUNNING"} /\ row'[e].attempt = row[e].attempt
    /\ row'[e].status \in {"QUEUED", "FAILED", "CANCELLED"}
    /\ row'[e].status = "QUEUED" => row[e].status = "RUNNING" /\ row[e].attempt < MaxAttempts
    /\ row'[e].status = "FAILED" => row[e].status = "RUNNING"

RowRemoved(e) ==
    row[e].status \in Terminal /\ row'[e].status = "GONE" /\ row'[e].attempt = row[e].attempt

RowMoves ==
    \/ \E e \in Exports : /\ RowAdmitted(e) \/ RowClaimed(e) \/ RowPublished(e)
                          /\ \A x \in Exports : x # e => RowStays(x)
    \/ \A e \in Exports : RowStays(e) \/ RowEnded(e)
    \/ \A e \in Exports : RowStays(e) \/ RowRemoved(e)

LEMMA SameRows == UNCHANGED row => RowMoves
BY DEF RowMoves, RowStays

LEMMA SettledRows ==
  ASSUME ExportInv, NEW S \in SUBSET Exports, NEW T \in [Exports -> BOOLEAN],
         \A e \in S : row[e].status = "RUNNING",
         row' = [e \in Exports |-> IF e \in S THEN Ended(row[e], Limit(e), T[e]) ELSE row[e]]
  PROVE  RowMoves
<1>1. \A e \in Exports : row[e] \in Rows /\ row[e].attempt \in Nat
  BY DEF ExportInv, TypeInv, TypeOK, Rows
<1>2. ASSUME NEW e \in S PROVE RowEnded(e)
  <2>1. row'[e] = Ended(row[e], Limit(e), T[e]) /\ T[e] \in BOOLEAN
    OBVIOUS
  <2> QED
    BY <1>1, <2>1, EndedFields, LimitsAre DEF RowEnded
<1>3. ASSUME NEW e \in Exports \ S PROVE RowStays(e)
  BY DEF RowStays
<1> QED
  BY <1>2, <1>3, Zenon DEF RowMoves

LEMMA RemovedRows ==
  ASSUME ExportInv, NEW S \in SUBSET {e \in Exports : row[e].status \in Terminal},
         row' = [e \in Exports |-> IF e \in S THEN RemovedRow(row[e]) ELSE row[e]]
  PROVE  RowMoves
<1>1. \A e \in Exports : row[e] \in Rows
  BY DEF ExportInv, TypeInv, TypeOK
<1>2. ASSUME NEW e \in S PROVE RowRemoved(e)
  BY <1>1, RemovedFields DEF RowRemoved
<1>3. ASSUME NEW e \in Exports \ S PROVE RowStays(e)
  BY DEF RowStays
<1> QED
  BY <1>2, <1>3 DEF RowMoves

LEMMA CommitMoves ==
  ASSUME ExportInv, NEW t \in Threads, thr[t].pc = "publishing", Owns(t), NEW accepted, Commit(t, accepted)
  PROVE  RowMoves
<1> DEFINE e == thr[t].export
<1>0. thr[t].pc \in Steps \ Idling
  BY DEF Steps, Idling
<1>1. TypeInv /\ e \in Exports /\ Key(t) \in Keys /\ Key(t).attempt = thr[t].attempt
  BY <1>0, AtWork
<1>2. row \in [Exports -> Rows] /\ row[e] \in Rows /\ row[e].status = "RUNNING" /\ row[e].attempt = thr[t].attempt
  BY <1>1 DEF TypeInv, TypeOK, Owns
<1>3. ASSUME NEW s \in Terminal, NEW r, r = Settled(row[e], s) \/ r = [Settled(row[e], s) EXCEPT !.key = Key(t)],
             row' = [row EXCEPT ![e] = r]
      PROVE  /\ row'[e].status = s /\ row'[e].attempt = row[e].attempt
             /\ r = [Settled(row[e], s) EXCEPT !.key = Key(t)] => row'[e].key = Key(t)
             /\ \A x \in Exports : x # e => RowStays(x)
  <2> DEFINE q == Settled(row[e], s)
  <2>1. q \in Rows /\ q.status = s /\ q.attempt = row[e].attempt
    BY <1>2, Zenon DEF Settled, Rows
  <2> HIDE DEF q
  <2>2. /\ [q EXCEPT !.key = Key(t)].status = s /\ [q EXCEPT !.key = Key(t)].attempt = row[e].attempt
        /\ [q EXCEPT !.key = Key(t)].key = Key(t)
    BY <1>1, <2>1 DEF Rows
  <2>3. r.status = s /\ r.attempt = row[e].attempt /\ (r = [q EXCEPT !.key = Key(t)] => r.key = Key(t))
    BY <1>3, <2>1, <2>2, Zenon DEF q
  <2>4. row'[e] = r /\ \A x \in Exports : x # e => row'[x] = row[x]
    BY <1>1, <1>2, <1>3
  <2> QED
    BY <2>3, <2>4 DEF RowStays, q
<1>4. CASE row' = [row EXCEPT ![e] = Settled(@, "CANCELLED")]
  <2>1. RowEnded(e) /\ \A x \in Exports : x # e => RowStays(x)
    BY <1>2, <1>3, <1>4, Zenon DEF RowEnded, Terminal
  <2> QED
    BY <2>1, Zenon DEF RowMoves
<1>5. CASE row' = [row EXCEPT ![e] = [Settled(@, "FAILED") EXCEPT !.key = Key(t)]]
  <2>1. RowEnded(e) /\ \A x \in Exports : x # e => RowStays(x)
    BY <1>2, <1>3, <1>5, Zenon DEF RowEnded, Terminal
  <2> QED
    BY <2>1 DEF RowMoves
<1>6. CASE /\ row' = [row EXCEPT ![e] = [Settled(@, "COMPLETED") EXCEPT !.key = Key(t)]]
           /\ ~ row[e].cancel /\ Publishable(t)
  <2>1. RowPublished(e) /\ \A x \in Exports : x # e => RowStays(x)
    BY <1>1, <1>2, <1>3, <1>6, Zenon DEF RowPublished, Publishable, Terminal
  <2> QED
    BY <1>1, <2>1, Zenon DEF RowMoves
<1> QED
  BY <1>4, <1>5, <1>6 DEF Commit

LEMMA ClaimMoves ==
  ASSUME ExportInv, NEW t \in Threads, NEW e \in Exports, Claim(t, e)
  PROVE  RowMoves
<1>1. row \in [Exports -> Rows] /\ row[e] \in Rows /\ row[e].status = "QUEUED" /\ row[e].attempt < MaxAttempts
      /\ row[e].attempt \in Nat
  BY DEF ExportInv, TypeInv, TypeOK, Rows, Claim
<1> DEFINE r == [row[e] EXCEPT !.status = "RUNNING", !.attempt = row[e].attempt + 1, !.lease = "live"]
<1>2. row' = [row EXCEPT ![e] = r]
  BY <1>1, Zenon DEF Claim
<1>3. r.status = "RUNNING" /\ r.attempt = row[e].attempt + 1
  BY <1>1 DEF Rows
<1> HIDE DEF r
<1>4. RowClaimed(e) /\ \A x \in Exports : x # e => RowStays(x)
  BY <1>1, <1>2, <1>3 DEF RowClaimed, RowStays
<1> QED
  BY <1>4 DEF RowMoves

LEMMA AdmitMoves ==
  ASSUME ExportInv, NEW e \in Exports, Admit(e)
  PROVE  RowMoves
<1>1. row \in [Exports -> Rows] /\ row[e].status = "ABSENT" /\ row[e].attempt = 0
  BY DEF ExportInv, TypeInv, TypeOK, Admit
<1> DEFINE r == [NewRow EXCEPT !.status = "RUNNING", !.attempt = 1, !.lease = "live", !.generation = source]
           q == [NewRow EXCEPT !.status = "QUEUED", !.generation = source]
<1>2. r.status = "RUNNING" /\ r.attempt = 1 /\ q.status = "QUEUED" /\ q.attempt = 0
  BY NewRowIs DEF Rows
<1>3. row' = [row EXCEPT ![e] = r] \/ row' = [row EXCEPT ![e] = q]
  BY DEF Admit
<1> HIDE DEF r, q
<1>4. RowAdmitted(e) /\ \A x \in Exports : x # e => RowStays(x)
  BY <1>1, <1>2, <1>3 DEF RowAdmitted, RowStays
<1> QED
  BY <1>4 DEF RowMoves

LEMMA CancelMoves ==
  ASSUME ExportInv, NEW e \in Exports, Cancel(e)
  PROVE  RowMoves
<1>1. row \in [Exports -> Rows] /\ row[e] \in Rows /\ row[e].status \in Active
  BY DEF ExportInv, TypeInv, TypeOK, Cancel
<1> DEFINE r == [row[e] EXCEPT !.cancel = TRUE, !.status = IF row[e].status = "QUEUED" THEN "CANCELLED" ELSE @]
<1>2. row' = [row EXCEPT ![e] = r]
  BY <1>1, Zenon DEF Cancel
<1>3. /\ r.status = IF row[e].status = "QUEUED" THEN "CANCELLED" ELSE row[e].status
      /\ r.attempt = row[e].attempt /\ r.key = row[e].key
  BY <1>1 DEF Rows
<1> HIDE DEF r
<1>4. (RowEnded(e) \/ RowStays(e)) /\ \A x \in Exports : x # e => RowStays(x)
  BY <1>1, <1>2, <1>3 DEF RowEnded, RowStays, Active
<1> QED
  BY <1>4 DEF RowMoves

LEMMA LeaseMoves ==
  ASSUME ExportInv, NEW e \in Exports, NEW l \in {"live", "expired"}, row' = [row EXCEPT ![e].lease = l]
  PROVE  RowMoves
<1>1. row \in [Exports -> Rows] /\ row[e] \in Rows
  BY DEF ExportInv, TypeInv, TypeOK
<1> DEFINE r == [row[e] EXCEPT !.lease = l]
<1>2. row' = [row EXCEPT ![e] = r]
  BY <1>1
<1>3. r.status = row[e].status /\ r.attempt = row[e].attempt /\ r.key = row[e].key
  BY <1>1 DEF Rows
<1> HIDE DEF r
<1>4. \A x \in Exports : RowStays(x)
  BY <1>1, <1>2, <1>3 DEF RowStays
<1> QED
  BY <1>4 DEF RowMoves

LEMMA RowsMove ==
  ASSUME ExportInv, [Next]_vars
  PROVE  RowMoves
<1>1. CASE Api
  <2>1. ASSUME DeleteParent PROVE RowMoves
    <3> DEFINE S == {e \in Exports : row[e].status \in Terminal}
    <3>1. row' = [e \in Exports |-> IF e \in S THEN RemovedRow(row[e]) ELSE row[e]]
      BY <2>1 DEF DeleteParent
    <3> QED
      BY <3>1, RemovedRows, Zenon
  <2>2. ChangeSource => RowMoves
    BY SameRows DEF ChangeSource
  <2> QED
    BY <1>1, <2>1, <2>2, AdmitMoves, CancelMoves DEF Api
<1>2. ASSUME NEW t \in Threads, Attempting(t) PROVE RowMoves
  <2>1. CASE UNCHANGED row
    BY <2>1, SameRows
  <2>2. CASE Complete(t) /\ ~ UNCHANGED row
    BY <2>2, CommitMoves, Zenon DEF Complete
  <2>3. CASE RetryOrFail(t) /\ ~ UNCHANGED row
    <3> DEFINE S == {thr[t].export}
               T == [e \in Exports |-> thr[t].pc = "retrying"]
    <3>0. TypeInv /\ thr[t].export \in Exports
      BY <2>3, BusyKeys, Zenon DEF ExportInv, RetryOrFail, Steps, Idling
    <3>1. Owns(t) /\ row' = [e \in Exports |-> IF e \in S THEN Ended(row[e], Limit(e), T[e]) ELSE row[e]]
      BY <2>3, <3>0 DEF TypeInv, TypeOK, RetryOrFail
    <3>2. S \in SUBSET Exports /\ T \in [Exports -> BOOLEAN] /\ \A e \in S : row[e].status = "RUNNING"
      BY <3>0, <3>1, Zenon DEF Owns
    <3> HIDE DEF S, T
    <3> QED
      BY <3>1, <3>2, SettledRows
  <2>4. UNCHANGED row \/ Complete(t) \/ RetryOrFail(t)
    BY <1>2 DEF Attempting, Checkpoint, ValidateSource, Build, SaveIntent, Put, Stage, Discard, Revalidate,
                LastCheckpoint, Compensate, Erase
  <2> QED
    BY <2>1, <2>2, <2>3, <2>4
<1>3. ASSUME NEW t \in Threads, Maintaining(t) \/ Heartbeat(t) \/ Stop(t) \/ Crash(t) PROVE RowMoves
  <2>1. CASE UNCHANGED row
    BY <2>1, SameRows
  <2>2. CASE Start(t)
    <3> DEFINE S == {e \in Exports : row[e].status = "RUNNING" /\ row[e].lease = "expired"}
               T == [e \in Exports |-> TRUE]
    <3>1. row' = [e \in Exports |-> IF e \in S THEN Ended(row[e], Limit(e), T[e]) ELSE row[e]]
      BY <2>2 DEF Start, Recovered
    <3>2. S \in SUBSET Exports /\ T \in [Exports -> BOOLEAN] /\ \A e \in S : row[e].status = "RUNNING"
      OBVIOUS
    <3> HIDE DEF S, T
    <3> QED
      BY <3>1, <3>2, SettledRows
  <2>3. CASE Retain(t)
    BY <2>1, <2>3, RemovedRows, Zenon DEF Retain
  <2>4. CASE Heartbeat(t)
    <3>1. thr[t].export \in Exports
      BY <2>4, BusyKeys DEF ExportInv, Heartbeat, Busy
    <3> QED
      BY <2>4, <3>1, LeaseMoves, Zenon DEF Heartbeat
  <2>5. UNCHANGED row \/ Start(t) \/ Retain(t) \/ Heartbeat(t)
    BY <1>3 DEF Maintaining, Sweep, Stop, Crash
  <2> QED
    BY <2>1, <2>2, <2>3, <2>4, <2>5
<1>4. ASSUME NEW t \in Workers, NEW e \in Exports, Claim(t, e) PROVE RowMoves
  BY <1>4, ClaimMoves DEF Threads
<1>5. ASSUME NEW e \in Exports, Expire(e) PROVE RowMoves
  BY <1>5, LeaseMoves, ZenonT(30) DEF Expire
<1>6. CASE UNCHANGED vars
  BY <1>6, SameRows DEF vars
<1> QED
  BY <1>1, <1>2, <1>3, <1>4, <1>5, <1>6 DEF Next

\* No stale attempt, compensation or clean-up takes away what a completed export
\* published: metadata, and the object it names (PublishedIntact).
THEOREM PublishedExportsStay == Spec => []PublishedIntact
<1>1. ExportInv => PublishedIntact
  BY DEF ExportInv, PublishedIsKept
<1> QED
  BY <1>1, ExportTypeCorrect, PTL

\* An accepted cancellation is honoured, and a deleted analysis job leaves neither
\* export rows nor metadata (CancelHonoured).
THEOREM CancellationsHold == Spec => []CancelHonoured
<1>1. ExportInv => CancelHonoured
  BY DEF ExportInv
<1> QED
  BY <1>1, ExportTypeCorrect, PTL

\* Every stored object is named by a cleanup row or by the row that accepted it, so
\* that somebody will delete it (BlobsAccounted).
THEOREM ObjectsHaveOwners == Spec => []BlobsAccounted
<1>1. ExportInv => BlobsAccounted
  BY DEF ExportInv
<1> QED
  BY <1>1, ExportTypeCorrect, PTL

\* An export completes only of the source it was admitted for, while the analysis
\* job exists and without a cancellation (PublishesCurrentSource).
THEOREM CurrentSourceOnly == Spec => PublishesCurrentSource
<1> DEFINE A == \A e \in Exports : row'[e].status = "COMPLETED" /\ row[e].status # "COMPLETED" =>
                                     SourceCurrent(e) /\ ~ row[e].cancel
<1>1. ExportInv /\ [Next]_vars => [A]_vars
  <2> SUFFICES ASSUME ExportInv, [Next]_vars, NEW e \in Exports,
                      row'[e].status = "COMPLETED", row[e].status # "COMPLETED"
               PROVE  SourceCurrent(e) /\ ~ row[e].cancel
    OBVIOUS
  <2>1. RowMoves
    BY RowsMove
  <2> QED
    BY <2>1, Zenon DEF RowMoves, RowStays, RowAdmitted, RowClaimed, RowPublished, RowEnded, RowRemoved
<1> QED
  BY <1>1, ExportTypeCorrect, PTL DEF Spec, PublishesCurrentSource

\* The attempt whose artefact a download serves.
Served(e) == IF doc[e] # None THEN IF doc[e].published THEN doc[e].key.attempt ELSE 0 ELSE 0

LEMMA ServedIs ==
  ExportInv => \A e \in Exports : Served(e) = IF row[e].status = "COMPLETED" THEN row[e].key.attempt ELSE 0
<1> SUFFICES ASSUME ExportInv, NEW e \in Exports
             PROVE  Served(e) = IF row[e].status = "COMPLETED" THEN row[e].key.attempt ELSE 0
  OBVIOUS
<1>1. CASE row[e].status = "COMPLETED"
  BY <1>1, CompletedDoc DEF Served
<1>2. CASE row[e].status # "COMPLETED"
  <2>1. doc[e] # None => ~ doc[e].published
    BY <1>2 DEF ExportInv, PublishedIsKept
  <2> QED
    BY <1>2, <2>1 DEF Served
<1> QED
  BY <1>1, <1>2

\* The exports implement the abstract lifecycle: bounded attempts, final statuses,
\* and one artefact, served exactly while COMPLETED (ImplementsExportLifecycle).
THEOREM ExportsImplemented == Spec => ImplementsExportLifecycle
<1> DEFINE status == [e \in Exports |-> row[e].status]
           attempt == [e \in Exports |-> row[e].attempt]
           artifact == [e \in Exports |-> Served(e)]
<1>1. Init => Lifecycle!LifecycleInit
  <2> SUFFICES ASSUME Init PROVE Lifecycle!LifecycleInit
    OBVIOUS
  <2>1. \A e \in Exports : row[e].status = "ABSENT" /\ row[e].attempt = 0 /\ doc[e] = None
    BY NewRowIs DEF Init
  <2> QED
    BY <2>1 DEF Lifecycle!LifecycleInit
<1>2. ExportInv /\ ExportInv' /\ [Next]_vars => [Lifecycle!LifecycleNext]_<<status, attempt, artifact>>
  <2> SUFFICES ASSUME ExportInv, ExportInv', [Next]_vars
               PROVE  Lifecycle!LifecycleNext \/ UNCHANGED <<status, attempt, artifact>>
    OBVIOUS
  <2>1. \A e \in Exports : Served(e) = IF row[e].status = "COMPLETED" THEN row[e].key.attempt ELSE 0
    BY ServedIs
  <2>2. \A e \in Exports : Served(e)' = IF row'[e].status = "COMPLETED" THEN row'[e].key.attempt ELSE 0
    <3>1. (\A e \in Exports : Served(e) = IF row[e].status = "COMPLETED" THEN row[e].key.attempt ELSE 0)'
      BY ServedIs, PTL
    <3> QED
      BY <3>1
  <2>3. \A e \in Exports : RowStays(e) => Served(e)' = Served(e)
    BY <2>1, <2>2 DEF RowStays
  <2>4. ASSUME NEW e \in Exports, RowAdmitted(e), \A x \in Exports : x # e => RowStays(x)
        PROVE  Lifecycle!Admitted(e)
    <3>1. Served(e)' = Served(e)
      BY <2>1, <2>2, <2>4, ZenonT(30) DEF RowAdmitted
    <3> QED
      BY <2>3, <2>4, <3>1, ZenonT(30) DEF Lifecycle!Admitted, RowAdmitted, RowStays, Served
  <2>5. ASSUME NEW e \in Exports, RowClaimed(e), \A x \in Exports : x # e => RowStays(x)
        PROVE  Lifecycle!Attempted(e)
    <3>1. Served(e)' = Served(e)
      BY <2>1, <2>2, <2>5, ZenonT(30) DEF RowClaimed
    <3> QED
      BY <2>3, <2>5, <3>1, ZenonT(30) DEF Lifecycle!Attempted, RowClaimed, RowStays, Served
  <2>6. ASSUME NEW e \in Exports, RowPublished(e), \A x \in Exports : x # e => RowStays(x)
        PROVE  Lifecycle!Published(e)
    <3>1. Served(e)' = row[e].attempt
      BY <2>2, <2>6 DEF RowPublished
    <3> QED
      BY <2>3, <2>6, <3>1, Zenon DEF Lifecycle!Published, RowPublished, RowStays, Served
  <2>7. ASSUME \A e \in Exports : RowStays(e) \/ RowEnded(e)
        PROVE  \E es \in SUBSET Exports : Lifecycle!Abandoned(es)
    <3>0. PICK es \in SUBSET Exports : es = {e \in Exports : ~ RowStays(e)}
      BY Zenon
    <3> DEFINE s == [e \in es |-> row'[e].status]
    <3>1. \A e \in es : RowEnded(e)
      BY <2>7, <3>0
    <3>2. \A e \in Exports : Served(e)' = Served(e)
      BY <2>1, <2>2, <2>3, <2>7 DEF RowEnded
    <3>3. s \in [es -> {"QUEUED", "FAILED", "CANCELLED"}]
      BY <3>1 DEF RowEnded
    <3>4. \A e \in Exports \ es : row'[e].status = row[e].status
      BY <3>0 DEF RowStays
    <3>5. \A e \in Exports : row'[e].attempt = row[e].attempt
      BY <2>7 DEF RowStays, RowEnded
    <3>6. Lifecycle!Abandoned(es)
      BY <3>1, <3>2, <3>3, <3>4, <3>5, ZenonT(30) DEF Lifecycle!Abandoned, RowEnded, Served
    <3> QED
      BY <3>6
  <2>8. ASSUME \A e \in Exports : RowStays(e) \/ RowRemoved(e)
        PROVE  \E es \in SUBSET Exports : Lifecycle!Removed(es)
    <3>0. PICK es \in SUBSET Exports : es = {e \in Exports : ~ RowStays(e)}
      BY Zenon
    <3>1. \A e \in es : RowRemoved(e) /\ Served(e)' = 0
      BY <2>2, <2>8, <3>0 DEF RowRemoved
    <3>2. \A e \in Exports \ es : row'[e].status = row[e].status /\ Served(e)' = Served(e)
      BY <2>3, <3>0 DEF RowStays
    <3>3. \A e \in Exports : row'[e].attempt = row[e].attempt
      BY <2>8 DEF RowStays, RowRemoved
    <3>4. Lifecycle!Removed(es)
      BY <3>1, <3>2, <3>3, Zenon DEF Lifecycle!Removed, Lifecycle!Ends, RowRemoved, Served, Terminal
    <3> QED
      BY <3>4
  <2> QED
    BY <2>4, <2>5, <2>6, <2>7, <2>8, RowsMove, Zenon DEF RowMoves, Lifecycle!LifecycleNext
<1> QED
  BY <1>1, <1>2, ExportTypeCorrect, PTL DEF Spec, ImplementsExportLifecycle, Lifecycle!LifecycleSpec, Served
=============================================================================
