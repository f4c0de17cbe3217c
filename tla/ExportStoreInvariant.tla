------------------------ MODULE ExportStoreInvariant ------------------------
(***************************************************************************)
(* ExportStore for any exports, workers, attempts, modes and faults: the   *)
(* inductive invariant, and that the steps up to the staged artefact keep  *)
(* it.                                                                     *)
(***************************************************************************)
EXTENDS ExportStore, TLAPS

(* The inductive invariant *)

\* The steps of an attempt up to its publication, in three stretches: before the
\* object has a cleanup row, while it is sent, and with its metadata stored.
Early == {"claimed", "checked", "building", "saving"}
Sending == {"uploading", "staging"}
Late == {"staged", "verified", "publishing"}
Path == Early \cup Sending \cup Late

\* The steps that wind an attempt up.
Winding == {"compensating", "cancelling", "failing", "retrying"}

Idling == {"down", "retaining", "sweeping", "erasing", "idle"}

Busy(t) == thr[t].export # None

\* Types: a thread that is at a step of an attempt, or has such a step before it,
\* has an attempt; a queued export has an attempt left.
TypeInv ==
    /\ TypeOK
    /\ \A t \in Threads :
          /\ thr[t].then \in {"idle", "sweeping"} \cup Winding
          /\ thr[t].then \in Winding => Busy(t)
          /\ Busy(t) => thr[t].attempt \in Attempts
    /\ \A e \in Exports :
          /\ row[e].status = "QUEUED" => row[e].attempt < MaxAttempts
          /\ row[e].status = "ABSENT" => row[e].attempt = 0

\* An attempt belongs to one thread, and is at most the row's.
AttemptsAreUnique ==
    /\ \A t \in Threads : Busy(t) => thr[t].attempt <= row[thr[t].export].attempt
    /\ \A t, u \in Threads :
          t # u /\ Busy(t) /\ Busy(u) => thr[t].export # thr[u].export \/ thr[t].attempt # thr[u].attempt

\* The keys that are in use: of cleanup rows, metadata, rows, and pending erasures.
KeyPast(k) == k.attempt <= row[k.export].attempt

PendingKey(t, k) == \E p \in thr[t].pending : p[2] = k

DocIs(k) == doc[k.export] # None /\ doc[k.export].key = k

KeysArePast ==
    /\ \A i \in outbox : KeyPast(i.key)
    /\ \A e \in Exports : doc[e] # None => doc[e].key.export = e /\ KeyPast(doc[e].key)
    /\ \A e \in Exports : row[e].key # None =>
          row[e].key.export = e /\ KeyPast(row[e].key) /\ row[e].status \in {"COMPLETED", "FAILED"}
    /\ \A t \in Threads : \A p \in thr[t].pending : KeyPast(p[2])

\* What an attempt that is still on its way has not yet done, nobody has done for it.
PathsAreFresh ==
    \A t \in Threads :
       /\ thr[t].pc \in Early => /\ IntentsOf(Key(t)) = {}
                                 /\ \A u \in Threads : ~ PendingKey(u, Key(t))
       /\ thr[t].pc \in Early \cup Sending => ~ DocIs(Key(t))
       /\ thr[t].pc \in Path \cup {"discarding"} => row[thr[t].export].key # Key(t)

\* An object that will never be published: its attempt has lost the row, has left the
\* path to publication, or has lost its metadata to another attempt.
Doomed(k) ==
    \/ ~ Protected(k)
    \/ \A t \in Threads : Busy(t) /\ Key(t) = k =>
          thr[t].pc \notin Path \/ (thr[t].pc \in Late /\ ~ DocIs(k))

\* Only doomed objects are up for deletion.
DeletesAreDoomed ==
    /\ \A i \in outbox : i.state \in {"READY", "DELETING"} => Doomed(i.key)
    /\ \A t \in Threads : \A p \in thr[t].pending : Doomed(p[2])

\* An attempt that may still publish has its object in the store.
UploadsAreThere ==
    \A t \in Threads :
       thr[t].pc \in {"staging"} \cup Late /\ ~ Doomed(Key(t)) => Key(t) \in blobs

\* A published object is not up for deletion, and nothing else is published.
PublishedIsKept ==
    /\ PublishedIntact
    /\ \A e \in Exports : row[e].status = "COMPLETED" => \A t \in Threads : ~ PendingKey(t, row[e].key)
    /\ \A e \in Exports : doc[e] # None => (doc[e].published => row[e].status = "COMPLETED")

\* With uploads that are quick enough, an object being sent keeps its cleanup row.
SendsAreCovered ==
    ~ mode.slow => \A t \in Threads : thr[t].pc \in Sending =>
       /\ IntentsOf(Key(t)) = {[scope |-> "publication", key |-> Key(t), state |-> "UPLOADING"]}
       /\ \A u \in Threads : ~ PendingKey(u, Key(t))

ExportInv ==
    /\ TypeInv /\ CancelHonoured /\ AttemptsAreUnique /\ KeysArePast /\ PathsAreFresh
    /\ DeletesAreDoomed /\ UploadsAreThere /\ PublishedIsKept /\ SendsAreCovered /\ BlobsAccounted

-----------------------------------------------------------------------------
(* How a thread moves *)

\* The fields of a thread's state.
LEMMA ThreadFields ==
  ASSUME TypeInv, NEW t \in Threads
  PROVE  /\ thr[t].pc \in Steps /\ thr[t].then \in Steps /\ thr[t].export \in Exports \cup {None}
         /\ thr[t].attempt \in 0 .. MaxAttempts /\ thr[t].matched \in BOOLEAN
         /\ thr[t].pending \subseteq Scopes \X Keys
BY DEF TypeInv, TypeOK, ThreadStates

\* All but one thread stay where they are, and that one keeps its attempt.
MovedTo(t, pc, then, pending) ==
    /\ thr' \in [Threads -> ThreadStates]
    /\ \A u \in Threads : u # t => thr'[u] = thr[u]
    /\ thr'[t].pc = pc /\ thr'[t].then = then /\ thr'[t].pending = pending
    /\ thr'[t].export = thr[t].export /\ thr'[t].attempt = thr[t].attempt

\* All but one thread stay where they are, and that one drops its attempt.
Rested(t) ==
    /\ thr' \in [Threads -> ThreadStates]
    /\ \A u \in Threads : u # t => thr'[u] = thr[u]
    /\ thr'[t].export = None /\ thr'[t].pc \in {"idle", "down"} /\ thr'[t].then = "idle"
    /\ thr'[t].pending = {}

LEMMA GotoMoves ==
  ASSUME TypeInv, NEW t \in Threads, NEW p \in Steps, NEW n \in Steps, Goto(t, p, n)
  PROVE  MovedTo(t, p, n, thr[t].pending)
<1>1. thr \in [Threads -> ThreadStates]
  BY DEF TypeInv, TypeOK
<1>2. thr' = [thr EXCEPT ![t] = [thr[t] EXCEPT !.pc = p, !.then = n]]
  BY <1>1, Zenon DEF Goto
<1>3. [thr[t] EXCEPT !.pc = p, !.then = n] \in ThreadStates
  BY <1>1, Zenon DEF ThreadStates
<1> QED
  BY <1>1, <1>2, <1>3 DEF MovedTo, ThreadStates

LEMMA RestMoves ==
  ASSUME TypeInv, NEW t \in Threads, NEW p \in {"idle", "down"}, thr' = [thr EXCEPT ![t] = Resting(p)]
  PROVE  Rested(t)
<1>1. thr \in [Threads -> ThreadStates]
  BY DEF TypeInv, TypeOK
<1>2. Resting(p) \in ThreadStates
  BY ExportConstants DEF Resting, ThreadStates, Steps
<1> QED
  BY <1>1, <1>2 DEF Rested, Resting

\* To the step that was announced, or to rest.
LEMMA GoOnMoves ==
  ASSUME TypeInv, NEW t \in Threads, GoOn(t)
  PROVE  \/ Rested(t)
         \/ thr[t].then \in Winding \cup {"sweeping"} /\ MovedTo(t, thr[t].then, "idle", thr[t].pending)
<1>1. thr[t].then \in {"idle", "sweeping"} \cup Winding
  BY DEF TypeInv
<1>2. CASE thr[t].then = "idle"
  BY <1>2, RestMoves DEF GoOn, Rest
<1>3. CASE thr[t].then # "idle"
  <2>1. thr[t].then \in Steps /\ "idle" \in Steps
    BY <1>1 DEF Steps, Winding
  <2>2. Goto(t, thr[t].then, "idle")
    BY <1>3 DEF GoOn
  <2>3. MovedTo(t, thr[t].then, "idle", thr[t].pending)
    BY <2>1, <2>2, GotoMoves
  <2> QED
    BY <1>1, <1>3, <2>3
<1> QED
  BY <1>2, <1>3

-----------------------------------------------------------------------------
(* What every step but a claim keeps *)

\* From step a an attempt may get to step b.
Order(a, b) ==
    /\ b \in Early => a \in Early
    /\ b = "uploading" => a \in {"saving", "uploading"}
    /\ b = "staging" => a \in Sending
    /\ b \in Late => a \in Late \cup {"staging"}
    /\ b = "discarding" => a \in Path \cup {"discarding"}

\* Threads keep or drop their attempts, and move along them.
Moved ==
    /\ thr' \in [Threads -> ThreadStates]
    /\ \A u \in Threads :
          /\ thr'[u].export # None =>
                thr[u].export # None /\ thr'[u].export = thr[u].export /\ thr'[u].attempt = thr[u].attempt
          /\ Order(thr[u].pc, thr'[u].pc)
          /\ thr'[u].pc \in Steps \ Idling => thr'[u].export # None
          /\ thr'[u].then \in {"idle", "sweeping"} \cup Winding
          /\ thr'[u].then \in Winding => thr'[u].export # None

\* No attempt begins.
NoNewRuns ==
    \A e \in Exports : /\ row'[e].attempt = row[e].attempt
                       /\ row'[e].status = "RUNNING" => row[e].status = "RUNNING"

\* A key that is in use, and the key of a thread that is past its early steps.
Known(k) ==
    \/ IntentsOf(k) # {} \/ DocIs(k) \/ row[k.export].key = k
    \/ \E u \in Threads : PendingKey(u, k)

Mine(k) == \E t \in Threads : Busy(t) /\ Key(t) = k /\ thr'[t].pc \notin Early

\* Cleanup rows, metadata, rows and erasures take no other keys.
DocGrows ==
    \A e \in Exports : doc'[e] # None =>
       \/ doc[e] # None /\ doc'[e].key = doc[e].key
       \/ \E t \in Threads : /\ thr[t].pc = "staging" /\ thr'[t].pc \notin Early \cup Sending
                             /\ thr[t].export = e /\ doc'[e].key = Key(t)

RowKeysGrow ==
    \A e \in Exports : row'[e].key # None =>
       /\ row'[e].status \in {"COMPLETED", "FAILED"}
       /\ \/ row'[e].key = row[e].key
          \/ \E t \in Threads : /\ Busy(t) /\ thr'[t].pc \notin Path \cup {"discarding"}
                                /\ thr[t].export = e /\ row'[e].key = Key(t)

KeysGrow ==
    /\ \A i \in outbox' : i.key \in Keys /\ (Known(i.key) \/ Mine(i.key))
    /\ \A u \in Threads : \A p \in thr'[u].pending : Known(p[2]) \/ Mine(p[2])
    /\ DocGrows /\ RowKeysGrow

\* Only doomed objects are put up for deletion, or deleted.
DeletesGrow ==
    /\ \A i \in outbox' : i.state \in {"READY", "DELETING"} => Doomed(i.key) \/ Doomed(i.key)'
    /\ \A u \in Threads : \A p \in thr'[u].pending : Doomed(p[2]) \/ Doomed(p[2])'

BlobsShrink ==
    /\ \A k \in blobs \ blobs' : Doomed(k) \/ Doomed(k)'
    /\ \A u \in Threads : thr[u].pc = "uploading" /\ thr'[u].pc = "staging" => Key(u) \in blobs'

LEMMA SameOrder == \A a : Order(a, a)
BY DEF Order, Sending

LEMMA StepsAre ==
  /\ Path \cup Winding \cup {"discarding"} = Steps \ Idling
  /\ Early \cap Sending = {} /\ Early \cap Late = {} /\ Sending \cap Late = {}
  /\ Winding \cap (Path \cup {"discarding"}) = {} /\ "discarding" \notin Path
BY DEF Path, Winding, Steps, Idling, Early, Sending, Late

\* A thread at a step of an attempt has one; its key is a key.
LEMMA BusyKeys ==
  ASSUME TypeInv, NEW t \in Threads
  PROVE  /\ thr[t].pc \in Steps \ Idling => Busy(t)
         /\ Busy(t) => /\ Key(t) \in Keys /\ Key(t).export = thr[t].export /\ Key(t).attempt = thr[t].attempt
                       /\ thr[t].export \in Exports /\ thr[t].attempt \in Attempts
BY ThreadFields, ExportConstants DEF TypeInv, TypeOK, Busy, Key, Keys, Idling

LEMMA KeyKept ==
  ASSUME TypeInv, Moved, NEW u \in Threads, thr'[u].export # None
  PROVE  Busy(u) /\ Key(u)' = Key(u) /\ Key(u) \in Keys
BY BusyKeys DEF Moved, Busy, Key

\* Two threads have no key in common.
LEMMA OneThread ==
  ASSUME TypeInv, AttemptsAreUnique, NEW t \in Threads, NEW u \in Threads, Busy(t), Busy(u), Key(t) = Key(u)
  PROVE  t = u
BY BusyKeys DEF AttemptsAreUnique

LEMMA UniqueKept ==
  ASSUME TypeInv, AttemptsAreUnique, Moved, NoNewRuns
  PROVE  AttemptsAreUnique'
<1>1. \A t \in Threads : Busy(t) => thr[t].export \in Exports
  BY BusyKeys
<1> QED
  BY <1>1 DEF AttemptsAreUnique, Moved, NoNewRuns, Busy

\* A doomed object stays doomed.
LEMMA DoomedKept ==
  ASSUME TypeInv, Moved, NoNewRuns, DocGrows, NEW k \in Keys, Doomed(k)
  PROVE  Doomed(k)'
<1>1. k.export \in Exports
  BY DEF Keys
<1>2. CASE ~ Protected(k)
  BY <1>1, <1>2 DEF Doomed, Protected, NoNewRuns
<1>3. CASE \A t \in Threads : Busy(t) /\ Key(t) = k =>
             thr[t].pc \notin Path \/ (thr[t].pc \in Late /\ ~ DocIs(k))
  <2> SUFFICES ASSUME NEW t \in Threads, Busy(t)', Key(t)' = k, thr'[t].pc \in Path
               PROVE  thr'[t].pc \in Late /\ ~ DocIs(k)'
    BY DEF Doomed
  <2>1. Busy(t) /\ Key(t) = k
    BY KeyKept DEF Busy
  <2>2. thr[t].pc \in Path
    BY DEF Moved, Order, Path, Sending, Early, Late
  <2>3. thr[t].pc \in Late /\ ~ DocIs(k)
    BY <1>3, <2>1, <2>2
  <2>4. thr'[t].pc \in Late
    BY <2>3 DEF Moved, Order, Path, Sending, Early, Late
  <2>5. ASSUME DocIs(k)' PROVE FALSE
    <3>1. doc'[k.export] # None /\ doc'[k.export].key = k
      BY <2>5 DEF DocIs
    <3>2. PICK x \in Threads : thr[x].pc = "staging" /\ k = Key(x)
      BY <1>1, <2>3, <3>1 DEF DocGrows, DocIs
    <3>3. Busy(x)
      BY <3>2, BusyKeys DEF Steps, Idling
    <3> QED
      BY <1>3, <3>2, <3>3 DEF Path, Sending, Late
  <2> QED
    BY <2>4, <2>5
<1> QED
  BY <1>2, <1>3 DEF Doomed

\* The keys in use are past, whoever uses them.
LEMMA KnownPast ==
  ASSUME TypeInv, AttemptsAreUnique, KeysArePast, NEW k \in Keys, Known(k) \/ Mine(k)
  PROVE  KeyPast(k)
<1>1. k.export \in Exports
  BY DEF Keys
<1>2. k # None
  BY ExportConstants
<1>3. CASE IntentsOf(k) # {}
  BY <1>3 DEF IntentsOf, KeysArePast
<1>4. CASE DocIs(k)
  BY <1>1, <1>4 DEF DocIs, KeysArePast
<1>5. CASE row[k.export].key = k
  BY <1>1, <1>2, <1>5 DEF KeysArePast
<1>6. CASE \E u \in Threads : PendingKey(u, k)
  BY <1>6 DEF PendingKey, KeysArePast
<1>7. CASE Mine(k)
  BY <1>7, BusyKeys DEF Mine, KeyPast, AttemptsAreUnique
<1> QED
  BY <1>3, <1>4, <1>5, <1>6, <1>7 DEF Known

LEMMA PastKept ==
  ASSUME TypeInv, AttemptsAreUnique, KeysArePast, Moved, NoNewRuns, KeysGrow, TypeOK'
  PROVE  KeysArePast'
<1> DEFINE Past(k) == k.attempt <= row'[k.export].attempt
<1>1. \A k \in Keys : KeyPast(k) => Past(k)
  BY DEF KeyPast, NoNewRuns, Keys
<1>2. \A k \in Keys : Known(k) \/ Mine(k) => Past(k)
  BY <1>1, KnownPast
<1>3. \A i \in outbox' : Past(i.key)
  BY <1>2 DEF KeysGrow
<1>4. ASSUME NEW u \in Threads, NEW p \in thr'[u].pending PROVE Past(p[2])
  <2>1. thr'[u].pending \subseteq Scopes \X Keys
    BY DEF Moved, ThreadStates
  <2> QED
    BY <1>2, <2>1 DEF KeysGrow
<1>5. ASSUME NEW e \in Exports, doc'[e] # None PROVE doc'[e].key.export = e /\ Past(doc'[e].key)
  <2>1. CASE doc[e] # None /\ doc'[e].key = doc[e].key
    <3>1. doc[e].key \in Keys /\ doc[e].key.export = e /\ KeyPast(doc[e].key)
      BY <2>1 DEF TypeInv, TypeOK, Documents, KeysArePast
    <3> QED
      BY <1>1, <2>1, <3>1
  <2>2. ASSUME NEW t \in Threads, thr[t].pc = "staging", thr[t].export = e, doc'[e].key = Key(t)
        PROVE  doc'[e].key.export = e /\ Past(doc'[e].key)
    <3>1. Busy(t) /\ Key(t) \in Keys /\ Key(t).export = e /\ Key(t).attempt = thr[t].attempt
      BY <2>2, BusyKeys DEF Steps, Idling
    <3>2. KeyPast(Key(t))
      BY <3>1, <2>2 DEF KeyPast, AttemptsAreUnique
    <3> QED
      BY <1>1, <2>2, <3>1, <3>2
  <2> QED
    BY <1>5, <2>1, <2>2 DEF KeysGrow, DocGrows
<1>6. ASSUME NEW e \in Exports, row'[e].key # None
      PROVE  /\ row'[e].key.export = e /\ Past(row'[e].key)
             /\ row'[e].status \in {"COMPLETED", "FAILED"}
  <2>0. row'[e].status \in {"COMPLETED", "FAILED"}
    BY <1>6 DEF KeysGrow, RowKeysGrow
  <2>1. CASE row'[e].key = row[e].key
    <3>1. row[e].key \in Keys /\ row[e].key.export = e /\ KeyPast(row[e].key)
      BY <1>6, <2>1 DEF TypeInv, TypeOK, Rows, KeysArePast
    <3> QED
      BY <1>1, <2>0, <2>1, <3>1
  <2>2. ASSUME NEW t \in Threads, Busy(t), thr[t].export = e, row'[e].key = Key(t)
        PROVE  row'[e].key.export = e /\ Past(row'[e].key)
    <3>1. Key(t) \in Keys /\ Key(t).export = e /\ Key(t).attempt = thr[t].attempt
      BY <2>2, BusyKeys
    <3>2. KeyPast(Key(t))
      BY <3>1, <2>2 DEF KeyPast, AttemptsAreUnique
    <3> QED
      BY <1>1, <2>2, <3>1, <3>2
  <2> QED
    BY <1>6, <2>0, <2>1, <2>2 DEF KeysGrow, RowKeysGrow
<1> QED
  BY <1>3, <1>4, <1>5, <1>6 DEF KeysArePast, KeyPast

LEMMA FreshKept ==
  ASSUME TypeInv, AttemptsAreUnique, KeysArePast, PathsAreFresh, Moved, NoNewRuns, KeysGrow
  PROVE  PathsAreFresh'
<1> SUFFICES ASSUME NEW t \in Threads, thr'[t].pc \in Path \cup {"discarding"}
             PROVE  /\ thr'[t].pc \in Early => /\ IntentsOf(Key(t))' = {}
                                               /\ \A u \in Threads : ~ PendingKey(u, Key(t))'
                    /\ thr'[t].pc \in Early \cup Sending => ~ DocIs(Key(t))'
                    /\ row'[thr'[t].export].key # Key(t)'
  BY DEF PathsAreFresh, Path
<1>1. /\ thr'[t].export # None /\ Busy(t) /\ Key(t)' = Key(t) /\ Key(t) \in Keys
      /\ thr'[t].export = thr[t].export /\ thr[t].export \in Exports /\ Key(t).export = thr[t].export
  <2>1. thr'[t].export # None
    BY StepsAre DEF Moved
  <2> QED
    BY <2>1, KeyKept, BusyKeys DEF Moved
<1>2. /\ thr[t].pc \in Path \cup {"discarding"}
      /\ thr'[t].pc \in Early => thr[t].pc \in Early
      /\ thr'[t].pc \in Early \cup Sending => thr[t].pc \in Early \cup Sending
  BY DEF Moved, Order, Path, Sending, Early, Late
<1>3. ASSUME NEW u \in Threads, Busy(u), Key(u) = Key(t) PROVE u = t
  BY <1>1, <1>3, OneThread
<1>4. ASSUME thr'[t].pc \in Early
      PROVE  ~ (Known(Key(t)) \/ Mine(Key(t)))
  <2>1. ~ Mine(Key(t))
    BY <1>3, <1>4 DEF Mine
  <2>2. IntentsOf(Key(t)) = {} /\ (\A u \in Threads : ~ PendingKey(u, Key(t))) /\ ~ DocIs(Key(t))
        /\ row[Key(t).export].key # Key(t)
    BY <1>1, <1>2, <1>4 DEF PathsAreFresh, Path
  <2> QED
    BY <2>1, <2>2 DEF Known
<1>5. ASSUME thr'[t].pc \in Early
      PROVE  IntentsOf(Key(t))' = {} /\ \A u \in Threads : ~ PendingKey(u, Key(t))'
  BY <1>1, <1>4, <1>5 DEF KeysGrow, IntentsOf, PendingKey
<1>6. ASSUME thr'[t].pc \in Early \cup Sending, DocIs(Key(t))'
      PROVE  FALSE
  <2>1. doc'[thr[t].export] # None /\ doc'[thr[t].export].key = Key(t)
    BY <1>1, <1>6 DEF DocIs
  <2>2. ~ DocIs(Key(t))
    BY <1>2, <1>6 DEF PathsAreFresh
  <2>3. PICK x \in Threads : /\ thr[x].pc = "staging" /\ thr'[x].pc \notin Early \cup Sending
                             /\ Key(x) = Key(t)
    BY <1>1, <2>1, <2>2 DEF KeysGrow, DocGrows, DocIs
  <2>4. Busy(x)
    BY <2>3, BusyKeys DEF Steps, Idling
  <2> QED
    BY <1>3, <1>6, <2>3, <2>4
<1>7. row'[thr'[t].export].key # Key(t)'
  <2>1. SUFFICES ASSUME row'[thr[t].export].key = Key(t) PROVE FALSE
    BY <1>1
  <2>2. Key(t) # None
    BY <1>1, ExportConstants
  <2>3. row[thr[t].export].key # Key(t)
    BY <1>2 DEF PathsAreFresh
  <2>4. PICK x \in Threads : Busy(x) /\ thr'[x].pc \notin Path \cup {"discarding"} /\ Key(x) = Key(t)
    BY <1>1, <2>1, <2>2, <2>3 DEF KeysGrow, RowKeysGrow
  <2> QED
    BY <1>3, <2>4
<1> QED
  BY <1>5, <1>6, <1>7

LEMMA DeletesKept ==
  ASSUME TypeInv, Moved, NoNewRuns, KeysGrow, DeletesGrow
  PROVE  DeletesAreDoomed'
<1>1. \A k \in Keys : Doomed(k) => Doomed(k)'
  BY DoomedKept DEF KeysGrow
<1>2. \A i \in outbox' : i.state \in {"READY", "DELETING"} => Doomed(i.key)'
  BY <1>1 DEF KeysGrow, DeletesGrow
<1>3. ASSUME NEW u \in Threads, NEW p \in thr'[u].pending PROVE Doomed(p[2])'
  <2>1. thr'[u].pending \subseteq Scopes \X Keys
    BY DEF Moved, ThreadStates
  <2> QED
    BY <1>1, <2>1 DEF DeletesGrow
<1> QED
  BY <1>2, <1>3 DEF DeletesAreDoomed

LEMMA UploadsKept ==
  ASSUME TypeInv, UploadsAreThere, Moved, NoNewRuns, DocGrows, BlobsShrink
  PROVE  UploadsAreThere'
<1> SUFFICES ASSUME NEW t \in Threads, thr'[t].pc \in {"staging"} \cup Late, ~ Doomed(Key(t))'
             PROVE  Key(t)' \in blobs'
  BY DEF UploadsAreThere
<1>1. thr'[t].export # None
  BY DEF Moved, Steps, Idling, Late
<1>2. Key(t)' = Key(t) /\ Key(t) \in Keys
  BY <1>1, KeyKept
<1>k. PICK k \in Keys : k = Key(t)
  BY <1>2
<1>3. ~ Doomed(k)' /\ ~ Doomed(k)
  <2>1. ~ Doomed(k)'
    BY <1>2, <1>k DEF Doomed, Protected, DocIs
  <2> QED
    BY <2>1, DoomedKept
<1>4. thr[t].pc \in {"uploading", "staging"} \cup Late
  BY DEF Moved, Order, Sending
<1>5. CASE thr[t].pc = "uploading"
  BY <1>2, <1>5 DEF BlobsShrink, Moved, Order, Late
<1>6. CASE thr[t].pc \in {"staging"} \cup Late
  BY <1>2, <1>k, <1>3, <1>6 DEF UploadsAreThere, BlobsShrink
<1> QED
  BY <1>4, <1>5, <1>6

\* The counters of the model stay within their bounds.
Counted ==
    /\ source' \in 0 .. MaxGeneration /\ crashes' \in 0 .. MaxCrashes /\ errors' \in 0 .. MaxErrors
    /\ mode' = mode /\ parent' \in {"present", "deleted"}

RowsTyped ==
    /\ row' \in [Exports -> Rows]
    /\ \A e \in Exports : /\ row'[e].status = "QUEUED" => row'[e].attempt < MaxAttempts
                          /\ row'[e].status = "ABSENT" => row'[e].attempt = 0

LEMMA TypeKept ==
  ASSUME TypeInv, Moved, Counted, RowsTyped, doc' \in [Exports -> Documents \cup {None}],
         outbox' \subseteq Intents, blobs' \subseteq Keys
  PROVE  TypeInv'
<1>1. ASSUME NEW t \in Threads, thr'[t].export # None
      PROVE  thr'[t].export \in Exports /\ thr'[t].attempt \in Attempts
  BY <1>1, BusyKeys DEF Moved, Busy
<1>2. TypeOK'
  BY <1>1 DEF TypeOK, TypeInv, Moved, Counted, RowsTyped, Idling
<1> QED
  BY <1>1, <1>2 DEF TypeInv, Moved, RowsTyped, Busy

\* The cleanup rows of an object that is being sent stay as they are.
SendsUntouched ==
    \A u \in Threads : thr[u].pc \in Sending /\ thr'[u].pc \in Sending =>
       /\ \A i : i.key = Key(u) => (i \in outbox' <=> i \in outbox)
       /\ \A v \in Threads : \A p \in thr'[v].pending : p[2] # Key(u)

\* An object that begins to be sent has its own cleanup row and no other.
SendsBegin ==
    \A u \in Threads : thr[u].pc = "saving" /\ thr'[u].pc = "uploading" =>
       /\ \A i : i.key = Key(u) =>
             (i \in outbox' <=> i = [scope |-> "publication", key |-> Key(u), state |-> "UPLOADING"])
       /\ \A v \in Threads : \A p \in thr'[v].pending : p[2] # Key(u)

LEMMA SendsKept ==
  ASSUME TypeInv, SendsAreCovered, Moved, mode' = mode, ~ mode.slow => SendsUntouched, SendsBegin
  PROVE  SendsAreCovered'
<1> SUFFICES ASSUME ~ mode.slow, NEW t \in Threads, thr'[t].pc \in Sending
             PROVE  /\ IntentsOf(Key(t))' = {[scope |-> "publication", key |-> Key(t)', state |-> "UPLOADING"]}
                    /\ \A u \in Threads : ~ PendingKey(u, Key(t))'
  BY DEF SendsAreCovered
<1>1. thr'[t].export # None
  BY DEF Moved, Steps, Idling, Sending
<1>2. Key(t)' = Key(t)
  BY <1>1, KeyKept
<1> DEFINE mine == [scope |-> "publication", key |-> Key(t), state |-> "UPLOADING"]
<1>3. mine.key = Key(t)
  OBVIOUS
<1> HIDE DEF mine
<1>4. thr[t].pc \in Sending \/ (thr[t].pc = "saving" /\ thr'[t].pc = "uploading")
  BY DEF Moved, Order, Sending
<1>5. CASE thr[t].pc \in Sending
  <2>1. IntentsOf(Key(t)) = {mine}
    BY <1>5 DEF SendsAreCovered, mine
  <2>2. \A i : i.key = Key(t) => (i \in outbox' <=> i \in outbox)
    BY <1>5 DEF SendsUntouched
  <2>3. {i \in outbox' : i.key = Key(t)} = {mine}
    BY <1>3, <2>1, <2>2 DEF IntentsOf
  <2>4. \A v \in Threads : \A p \in thr'[v].pending : p[2] # Key(t)
    BY <1>5 DEF SendsUntouched
  <2> QED
    BY <1>2, <2>3, <2>4 DEF IntentsOf, PendingKey, mine
<1>6. CASE thr[t].pc = "saving" /\ thr'[t].pc = "uploading"
  <2>1. \A i : i.key = Key(t) => (i \in outbox' <=> i = mine)
    BY <1>6 DEF SendsBegin, mine
  <2>3. {i \in outbox' : i.key = Key(t)} = {mine}
    BY <1>3, <2>1
  <2>4. \A v \in Threads : \A p \in thr'[v].pending : p[2] # Key(t)
    BY <1>6 DEF SendsBegin
  <2> QED
    BY <1>2, <2>3, <2>4 DEF IntentsOf, PendingKey, mine
<1> QED
  BY <1>4, <1>5, <1>6

-----------------------------------------------------------------------------
(* Steps that leave the artefacts alone *)

\* Rows end or are requeued; none is accepted, removed or claimed.
RowsEnd ==
    /\ row' \in [Exports -> Rows]
    /\ \A e \in Exports :
          /\ row'[e].attempt = row[e].attempt /\ row'[e].key = row[e].key
          /\ row'[e].status = "COMPLETED" <=> row[e].status = "COMPLETED"
          /\ row'[e].status = "RUNNING" => row[e].status = "RUNNING"
          /\ row'[e].status = "ABSENT" => row[e].status = "ABSENT"
          /\ row'[e].status = "QUEUED" => row[e].attempt < MaxAttempts
          /\ row'[e].cancel => row'[e].status \in {"RUNNING", "CANCELLED"}
          /\ row[e].key # None => row'[e].status = row[e].status
          /\ parent = "deleted" => row'[e].status = row[e].status

\* No thread takes on an erasure or begins to send.
Quiet ==
    /\ \A u \in Threads : thr'[u].pending \subseteq thr[u].pending
    /\ \A u \in Threads : thr'[u].pc \in Sending => thr[u].pc = thr'[u].pc

LEMMA Frame ==
  ASSUME ExportInv, Moved, Counted, RowsEnd, UNCHANGED artifacts, parent' = parent,
         Quiet
  PROVE  ExportInv'
<1> USE DEF ExportInv, artifacts, Quiet
<1>1. NoNewRuns
  BY DEF RowsEnd, NoNewRuns
<1>2. DocGrows
  BY DEF DocGrows
<1>3. RowKeysGrow
  BY DEF RowKeysGrow, RowsEnd, KeysArePast
<1>4. ASSUME NEW u \in Threads, NEW p \in thr'[u].pending PROVE p \in thr[u].pending
  OBVIOUS
<1>5. KeysGrow
  <2>1. \A i \in outbox' : i.key \in Keys /\ Known(i.key)
    BY DEF TypeInv, TypeOK, Intents, Known, IntentsOf
  <2>2. \A u \in Threads : \A p \in thr'[u].pending : Known(p[2])
    BY <1>4 DEF Known, PendingKey
  <2> QED
    BY <1>2, <1>3, <2>1, <2>2 DEF KeysGrow
<1>6. DeletesGrow
  BY <1>4 DEF DeletesGrow, DeletesAreDoomed
<1>7. BlobsShrink
  BY DEF BlobsShrink, Sending
<1>8. RowsTyped
  BY DEF RowsTyped, RowsEnd, TypeInv
<1>9. TypeInv'
  BY <1>8, TypeKept DEF TypeInv, TypeOK
<1>10. SendsAreCovered'
  <2>1. SendsBegin
    BY DEF SendsBegin, Sending
  <2>2. ~ mode.slow => SendsUntouched
    BY <1>4 DEF SendsUntouched, SendsAreCovered, PendingKey
  <2> QED
    BY <2>1, <2>2, SendsKept DEF Counted
<1>11. CancelHonoured'
  BY DEF CancelHonoured, RowsEnd
<1>12. PublishedIsKept'
  BY <1>4 DEF PublishedIsKept, PublishedIntact, PendingKey, RowsEnd
<1>13. BlobsAccounted'
  BY DEF BlobsAccounted, RowsEnd, IntentsOf, TypeInv, TypeOK, Keys, Counted
<1>14. TypeOK'
  BY <1>9 DEF TypeInv
<1> QED
  BY <1>1, <1>2, <1>5, <1>6, <1>7, <1>9, <1>10, <1>11, <1>12, <1>13, <1>14,
     UniqueKept, PastKept, FreshKept, DeletesKept, UploadsKept

LEMMA StaysMoved ==
  ASSUME TypeInv, NEW t \in Threads, NEW p \in Steps, NEW n \in {"idle", "sweeping"} \cup Winding, NEW q,
         MovedTo(t, p, n, q), Order(thr[t].pc, p), p \in Steps \ Idling \/ n \in Winding => Busy(t)
  PROVE  Moved
<1>1. \A u \in Threads : thr[u].pc \in Steps \ Idling => thr[u].export # None
  BY BusyKeys DEF Busy
<1> QED
  BY <1>1, SameOrder DEF Moved, MovedTo, Busy, TypeInv

LEMMA Walks ==
  ASSUME TypeInv, NEW t \in Threads, Busy(t), NEW p \in Steps \ Sending, NEW n \in {"idle"} \cup Winding,
         Goto(t, p, n), Order(thr[t].pc, p)
  PROVE  Moved /\ Quiet
<1>1. n \in Steps
  BY DEF Steps, Winding
<1>2. MovedTo(t, p, n, thr[t].pending)
  BY <1>1, GotoMoves
<1>3. Moved
  BY <1>2, StaysMoved
<1> QED
  BY <1>2, <1>3 DEF Quiet, MovedTo

LEMMA RestWalks ==
  ASSUME TypeInv, NEW t \in Threads, Rested(t)
  PROVE  Moved /\ Quiet
<1>1. \A u \in Threads : thr[u].pc \in Steps \ Idling => thr[u].export # None
  BY BusyKeys DEF Busy
<1>2. Order(thr[t].pc, thr'[t].pc)
  BY DEF Rested, Order, Early, Late
<1> QED
  BY <1>1, <1>2, SameOrder DEF Moved, Rested, Busy, TypeInv, Quiet, Idling, Winding, Sending

\* Winding up is open to any attempt.
LEMMA WindsUp ==
  ASSUME TypeInv, NEW t \in Threads, Busy(t), NEW p \in Winding, NEW n \in {"idle"} \cup Winding, Goto(t, p, n)
  PROVE  Moved /\ Quiet
<1>1. p \in Steps \ Sending /\ Order(thr[t].pc, p)
  BY DEF Winding, Steps, Sending, Order, Early, Late
<1> QED
  BY <1>1, Walks

LEMMA RaiseWalks ==
  ASSUME TypeInv, NEW t \in Threads, Busy(t), NEW step \in Winding,
         Raise(t, step) \/ RaiseStaged(t, step) \/ NotWon(t)
  PROVE  Moved /\ Quiet
<1>1. "failing" \in Winding /\ "compensating" \in Winding
  BY DEF Winding
<1>2. PICK p \in Winding, n \in {"idle"} \cup Winding : Goto(t, p, n)
  BY <1>1, Zenon DEF Raise, RaiseStaged, NotWon
<1> QED
  BY <1>2, WindsUp

LEMMA GoOnWalks ==
  ASSUME TypeInv, NEW t \in Threads, GoOn(t)
  PROVE  Moved /\ Quiet
<1>1. CASE Rested(t)
  BY <1>1, RestWalks
<1>2. CASE thr[t].then \in Winding \cup {"sweeping"} /\ MovedTo(t, thr[t].then, "idle", thr[t].pending)
  <2>1. thr[t].then \in Winding => Busy(t)
    BY DEF TypeInv
  <2>2. Order(thr[t].pc, thr[t].then) /\ thr[t].then \in Steps /\ thr[t].then \notin Sending
    BY <1>2 DEF Order, Early, Late, Winding, Steps, Sending
  <2>3. thr[t].then \in Steps \ Idling => thr[t].then \in Winding
    BY <1>2 DEF Idling
  <2>4. Moved
    BY <1>2, <2>1, <2>2, <2>3, StaysMoved DEF Winding
  <2> QED
    BY <1>2, <2>2, <2>4 DEF Quiet, MovedTo
<1> QED
  BY <1>1, <1>2, GoOnMoves

LEMMA CountsKept ==
  ASSUME TypeInv, UNCHANGED world, Failing \/ Crashing \/ UNCHANGED budget
  PROVE  Counted
BY ExportConstants DEF TypeInv, TypeOK, Counted, world, budget, Failing, Crashing

LEMMA RowsSame ==
  ASSUME ExportInv, UNCHANGED row
  PROVE  RowsEnd
BY DEF ExportInv, TypeInv, TypeOK, RowsEnd, CancelHonoured

\* A step of a thread that changes nothing but the thread and the fault counts.
LEMMA ThreadOnly ==
  ASSUME ExportInv, Moved, Quiet, UNCHANGED <<world, row, artifacts>>,
         Failing \/ Crashing \/ UNCHANGED budget
  PROVE  ExportInv'
<1>1. TypeInv
  BY DEF ExportInv
<1> QED
  BY <1>1, CountsKept, RowsSame, Frame DEF world

LEMMA WalkActions ==
  ASSUME ExportInv, NEW t \in Threads,
         \/ Checkpoint(t) \/ ValidateSource(t) \/ Build(t) \/ Revalidate(t) \/ LastCheckpoint(t)
         \/ Stop(t) \/ Crash(t)
  PROVE  ExportInv'
<1>t. TypeInv
  BY DEF ExportInv
<1>b. thr[t].pc \in Steps \ Idling => Busy(t)
  BY <1>t, BusyKeys
<1>w. "idle" \in {"idle"} \cup Winding /\ {"failing", "retrying", "cancelling"} \subseteq Winding
  BY DEF Winding
<1>1. CASE Checkpoint(t)
  <2>1. Busy(t)
    BY <1>1, <1>b DEF Checkpoint, Steps, Idling
  <2>2. "checked" \in Steps \ Sending /\ Order(thr[t].pc, "checked")
    BY <1>1 DEF Checkpoint, Steps, Sending, Order, Early, Late
  <2>3. Moved /\ Quiet
    BY <1>1, <1>t, <1>w, <2>1, <2>2, RaiseWalks, Walks DEF Checkpoint
  <2> QED
    BY <1>1, <2>3, ThreadOnly DEF Checkpoint
<1>2. CASE ValidateSource(t)
  <2>1. Busy(t)
    BY <1>2, <1>b DEF ValidateSource, Steps, Idling
  <2>2. "building" \in Steps \ Sending /\ Order(thr[t].pc, "building")
    BY <1>2 DEF ValidateSource, Steps, Sending, Order, Early, Late
  <2>3. Moved /\ Quiet
    BY <1>2, <1>t, <1>w, <2>1, <2>2, RaiseWalks, Walks, WindsUp DEF ValidateSource
  <2> QED
    BY <1>2, <2>3, ThreadOnly DEF ValidateSource
<1>3. CASE Build(t)
  <2>1. Busy(t)
    BY <1>3, <1>b DEF Build, Steps, Idling
  <2>2. ASSUME NEW m \in BOOLEAN, thr' = [thr EXCEPT ![t].pc = "saving", ![t].matched = m]
        PROVE  Moved /\ Quiet
    <3>1. thr \in [Threads -> ThreadStates]
      BY <1>t DEF TypeInv, TypeOK
    <3>2. thr' = [thr EXCEPT ![t] = [thr[t] EXCEPT !.pc = "saving", !.matched = m]]
      BY <2>2, <3>1, Zenon
    <3>3. [thr[t] EXCEPT !.pc = "saving", !.matched = m] \in ThreadStates
      BY <3>1, ZenonT(30) DEF ThreadStates, Steps
    <3>4. MovedTo(t, "saving", thr[t].then, thr[t].pending)
      BY <3>1, <3>2, <3>3 DEF MovedTo, ThreadStates
    <3>5. "saving" \in Steps /\ Order(thr[t].pc, "saving") /\ "saving" \notin Sending
      BY <1>3 DEF Build, Order, Early, Late, Steps, Sending
    <3>6. Moved
      BY <1>t, <2>1, <3>4, <3>5, StaysMoved, Zenon DEF TypeInv
    <3> QED
      BY <3>4, <3>5, <3>6 DEF Quiet, MovedTo
  <2>3. Moved /\ Quiet
    BY <1>3, <1>t, <1>w, <2>1, <2>2, RaiseWalks DEF Build
  <2> QED
    BY <1>3, <2>3, ThreadOnly DEF Build
<1>4. CASE Revalidate(t)
  <2>1. Busy(t)
    BY <1>4, <1>b DEF Revalidate, Steps, Idling
  <2>2. \A p \in {"publishing", "verified"} : p \in Steps \ Sending /\ Order(thr[t].pc, p)
    BY <1>4 DEF Revalidate, Steps, Sending, Order, Early, Late
  <2>3. Moved /\ Quiet
    BY <1>4, <1>t, <1>w, <2>1, <2>2, RaiseWalks, Walks DEF Revalidate
  <2> QED
    BY <1>4, <2>3, ThreadOnly DEF Revalidate
<1>5. CASE LastCheckpoint(t)
  <2>1. Busy(t)
    BY <1>5, <1>b DEF LastCheckpoint, Steps, Idling
  <2>2. "publishing" \in Steps \ Sending /\ Order(thr[t].pc, "publishing")
    BY <1>5 DEF LastCheckpoint, Steps, Sending, Order, Early, Late
  <2>3. Moved /\ Quiet
    BY <1>5, <1>t, <1>w, <2>1, <2>2, RaiseWalks, Walks DEF LastCheckpoint
  <2> QED
    BY <1>5, <2>3, ThreadOnly DEF LastCheckpoint
<1>6. CASE Stop(t)
  <2>1. Moved /\ Quiet
    BY <1>6, <1>t, RestMoves, RestWalks, Zenon DEF Stop
  <2> QED
    BY <1>6, <2>1, ThreadOnly DEF Stop
<1>7. CASE Crash(t)
  <2>1. Moved /\ Quiet
    BY <1>7, <1>t, RestMoves, RestWalks, Zenon DEF Crash
  <2> QED
    BY <1>7, <2>1, ThreadOnly DEF Crash
<1> QED
  BY <1>1, <1>2, <1>3, <1>4, <1>5, <1>6, <1>7

LEMMA ThreadsSame ==
  ASSUME TypeInv, UNCHANGED thr
  PROVE  Moved /\ Quiet
<1>1. \A u \in Threads : thr[u].pc \in Steps \ Idling => thr[u].export # None
  BY BusyKeys DEF Busy
<1> QED
  BY <1>1, SameOrder DEF Moved, Quiet, TypeInv, TypeOK, Busy

\* What settling a row does to its fields.
LEMMA EndedFields ==
  ASSUME NEW r \in Rows, NEW limit, NEW transient \in BOOLEAN
  PROVE  LET x == Ended(r, limit, transient) IN
         /\ x \in Rows /\ x.attempt = r.attempt /\ x.key = r.key /\ x.cancel = r.cancel
         /\ x.status \in {"CANCELLED", "QUEUED", "FAILED"}
         /\ r.cancel => x.status = "CANCELLED"
         /\ x.status = "QUEUED" => r.attempt < limit
<1>1. ASSUME NEW s \in {"CANCELLED", "QUEUED", "FAILED"}
      PROVE  /\ Settled(r, s) \in Rows /\ Settled(r, s).attempt = r.attempt /\ Settled(r, s).key = r.key
             /\ Settled(r, s).cancel = r.cancel /\ Settled(r, s).status = s
  BY Zenon DEF Settled, Rows, Active, Terminal
<1> QED
  BY <1>1 DEF Ended

LEMMA LimitsAre == \A e \in Exports, n \in Nat : n < Limit(e) => n < MaxAttempts
BY ExportConstants DEF Limit

\* Recovery and the end of an attempt settle rows that are running.
LEMMA EndsRows ==
  ASSUME ExportInv, NEW S \in SUBSET Exports, NEW T \in [Exports -> BOOLEAN],
         \A e \in S : row[e].status = "RUNNING",
         row' = [e \in Exports |-> IF e \in S THEN Ended(row[e], Limit(e), T[e]) ELSE row[e]]
  PROVE  RowsEnd
<1>1. \A e \in Exports : row[e] \in Rows /\ row[e].attempt \in Nat
  BY DEF ExportInv, TypeInv, TypeOK, Rows
<1>2. ASSUME NEW e \in S
      PROVE  /\ row'[e] \in Rows /\ row'[e].attempt = row[e].attempt /\ row'[e].key = row[e].key
             /\ row'[e].cancel = row[e].cancel
             /\ row'[e].status \in {"CANCELLED", "QUEUED", "FAILED"}
             /\ row[e].cancel => row'[e].status = "CANCELLED"
             /\ row'[e].status = "QUEUED" => row[e].attempt < MaxAttempts
             /\ row[e].status = "RUNNING" /\ row[e].key = None /\ parent # "deleted"
  <2>1. row'[e] = Ended(row[e], Limit(e), T[e]) /\ T[e] \in BOOLEAN
    OBVIOUS
  <2>2. row[e].status = "RUNNING" /\ row[e].key = None /\ parent # "deleted"
    BY DEF ExportInv, KeysArePast, CancelHonoured
  <2> QED
    BY <1>1, <2>1, <2>2, EndedFields, LimitsAre
<1>3. ASSUME NEW e \in Exports \ S PROVE row'[e] = row[e]
  OBVIOUS
<1>4. \A e \in Exports : /\ row[e].cancel => row[e].status \in {"RUNNING", "CANCELLED"}
                         /\ row[e].status = "QUEUED" => row[e].attempt < MaxAttempts
  BY DEF ExportInv, CancelHonoured, TypeInv
<1>5. row' \in [Exports -> Rows]
  BY <1>1, <1>2, <1>3
<1> QED
  BY <1>2, <1>3, <1>4, <1>5 DEF RowsEnd

LEMMA RowActions ==
  ASSUME ExportInv,
         \/ \E e \in Exports : Cancel(e) \/ Expire(e)
         \/ \E t \in Threads : Heartbeat(t) \/ Start(t) \/ RetryOrFail(t)
         \/ ChangeSource
  PROVE  ExportInv'
<1>t. TypeInv
  BY DEF ExportInv
<1>r. \A e \in Exports : row[e] \in Rows
  BY <1>t DEF TypeInv, TypeOK
<1>c. \A e \in Exports : /\ row[e].cancel => row[e].status \in {"RUNNING", "CANCELLED"}
                         /\ row[e].status = "QUEUED" => row[e].attempt < MaxAttempts
                         /\ row[e].status \in Active => row[e].key = None /\ parent # "deleted"
  BY DEF ExportInv, CancelHonoured, TypeInv, KeysArePast, Active
<1>1. ASSUME NEW e \in Exports, Cancel(e) PROVE ExportInv'
  <2>1. /\ row' \in [Exports -> Rows] /\ \A x \in Exports : x # e => row'[x] = row[x]
        /\ row'[e].attempt = row[e].attempt /\ row'[e].key = row[e].key
        /\ row'[e].status = IF row[e].status = "QUEUED" THEN "CANCELLED" ELSE row[e].status
        /\ row[e].status \in Active
    <3>1. row[e].status \in Active
          /\ row' = [row EXCEPT ![e] = [row[e] EXCEPT !.cancel = TRUE,
                         !.status = IF row[e].status = "QUEUED" THEN "CANCELLED" ELSE @]]
      BY <1>1, <1>t, Zenon DEF Cancel, TypeInv, TypeOK
    <3>2. [row[e] EXCEPT !.cancel = TRUE, !.status = IF row[e].status = "QUEUED" THEN "CANCELLED" ELSE @] \in Rows
      BY <1>r, Zenon DEF Rows, Active, Terminal
    <3> QED
      BY <1>t, <3>1, <3>2 DEF TypeInv, TypeOK, Rows
  <2>2. RowsEnd
    BY <1>c, <2>1 DEF RowsEnd, Active
  <2> QED
    BY <1>1, <1>t, <2>2, Frame, ThreadsSame, CountsKept DEF Cancel, world
<1>2. ASSUME NEW e \in Exports, NEW l \in {"live", "expired"}, row' = [row EXCEPT ![e].lease = l]
      PROVE  RowsEnd
  <2>1. /\ row' \in [Exports -> Rows] /\ \A x \in Exports : x # e => row'[x] = row[x]
        /\ row'[e].attempt = row[e].attempt /\ row'[e].key = row[e].key
        /\ row'[e].status = row[e].status /\ row'[e].cancel = row[e].cancel
    BY <1>2, <1>t DEF TypeInv, TypeOK, Rows
  <2> QED
    BY <1>c, <2>1 DEF RowsEnd
<1>3. ASSUME NEW e \in Exports, Expire(e) PROVE ExportInv'
  <2>1. RowsEnd
    BY <1>2, <1>3, Zenon DEF Expire
  <2> QED
    BY <1>3, <1>t, <2>1, Frame, ThreadsSame, CountsKept DEF Expire, world
<1>4. ASSUME NEW t \in Threads, Heartbeat(t) PROVE ExportInv'
  <2>1. thr[t].export \in Exports
    BY <1>4, <1>t, BusyKeys DEF Heartbeat, Busy
  <2>2. RowsEnd
    BY <1>2, <1>4, <2>1, Zenon DEF Heartbeat
  <2> QED
    BY <1>4, <1>t, <2>2, Frame, ThreadsSame, CountsKept DEF Heartbeat, world
<1>5. ASSUME NEW t \in Threads, Start(t) PROVE ExportInv'
  <2> DEFINE S == {e \in Exports : row[e].status = "RUNNING" /\ row[e].lease = "expired"}
             T == [e \in Exports |-> TRUE]
  <2>1. row' = [e \in Exports |-> IF e \in S THEN Ended(row[e], Limit(e), T[e]) ELSE row[e]]
    BY <1>5 DEF Start, Recovered
  <2>2. RowsEnd
    <3>1. S \in SUBSET Exports /\ T \in [Exports -> BOOLEAN] /\ \A e \in S : row[e].status = "RUNNING"
      BY Zenon
    <3> HIDE DEF S, T
    <3> QED
      BY <2>1, <3>1, EndsRows
  <2>3. MovedTo(t, "retaining", "idle", thr[t].pending)
    BY <1>5, <1>t, GotoMoves DEF Start, Steps
  <2>4. "retaining" \in Steps /\ "retaining" \notin Steps \ Idling /\ Order(thr[t].pc, "retaining")
        /\ "retaining" \notin Sending /\ "idle" \notin Winding
    BY DEF Steps, Idling, Order, Early, Late, Sending, Winding
  <2>5. Moved
    BY <1>t, <2>3, <2>4, StaysMoved
  <2>6. Quiet
    BY <2>3, <2>4, Zenon DEF Quiet, MovedTo
  <2> QED
    BY <1>5, <1>t, <2>2, <2>5, <2>6, Frame, CountsKept DEF Start, world
<1>6. ASSUME NEW t \in Threads, RetryOrFail(t) PROVE ExportInv'
  <2>0. Busy(t) /\ thr[t].export \in Exports
    BY <1>6, <1>t, BusyKeys DEF RetryOrFail, Steps, Idling
  <2>1. CASE UNCHANGED row
    BY <1>6, <1>t, <2>1, RowsSame, GoOnWalks, Frame, CountsKept DEF RetryOrFail, world
  <2>2. CASE row' = [row EXCEPT ![thr[t].export] = Ended(@, Limit(thr[t].export), thr[t].pc = "retrying")] /\ Owns(t)
    <3> DEFINE S == {thr[t].export}
               T == [e \in Exports |-> thr[t].pc = "retrying"]
    <3>1. row' = [e \in Exports |-> IF e \in S THEN Ended(row[e], Limit(e), T[e]) ELSE row[e]]
      BY <1>t, <2>0, <2>2, Zenon DEF TypeInv, TypeOK
    <3>2. S \in SUBSET Exports /\ T \in [Exports -> BOOLEAN] /\ \A e \in S : row[e].status = "RUNNING"
      BY <2>0, <2>2 DEF Owns
    <3> HIDE DEF S, T
    <3>3. RowsEnd
      BY <3>1, <3>2, EndsRows
    <3> QED
      BY <1>6, <1>t, <3>3, GoOnWalks, Frame, CountsKept DEF RetryOrFail, world
  <2> QED
    BY <1>6, <2>1, <2>2, Zenon DEF RetryOrFail
<1>7. ASSUME ChangeSource PROVE ExportInv'
  <2>1. Counted
    BY <1>7, <1>t, ExportConstants DEF ChangeSource, Counted, TypeInv, TypeOK, budget
  <2> QED
    BY <1>7, <1>t, <2>1, Frame, ThreadsSame, RowsSame DEF ChangeSource
<1> QED
  BY <1>1, <1>3, <1>4, <1>5, <1>6, <1>7

-----------------------------------------------------------------------------
(* Saving an artefact *)

ArtifactsTyped ==
    doc' \in [Exports -> Documents \cup {None}] /\ outbox' \subseteq Intents /\ blobs' \subseteq Keys

LEMMA Assembled ==
  ASSUME ExportInv, Moved, NoNewRuns, KeysGrow, DeletesGrow, BlobsShrink, Counted, RowsTyped, ArtifactsTyped,
         ~ mode.slow => SendsUntouched, SendsBegin, CancelHonoured', PublishedIsKept', BlobsAccounted'
  PROVE  ExportInv'
<1>1. TypeInv'
  BY TypeKept DEF ExportInv, ArtifactsTyped
<1>2. TypeOK' /\ DocGrows /\ mode' = mode
  BY <1>1 DEF TypeInv, KeysGrow, Counted
<1> QED
  BY <1>1, <1>2, UniqueKept, PastKept, FreshKept, DeletesKept, UploadsKept, SendsKept DEF ExportInv

\* Pending erasures stay as they are, or go.
PendingShrinks == \A u \in Threads : thr'[u].pending \subseteq thr[u].pending

LEMMA PendingKnown ==
  ASSUME ExportInv, PendingShrinks
  PROVE  \A u \in Threads : \A p \in thr'[u].pending : Known(p[2]) /\ Doomed(p[2])
BY DEF PendingShrinks, Known, PendingKey, ExportInv, DeletesAreDoomed

\* The facts about a thread that is at a step of an attempt.
LEMMA AtWork ==
  ASSUME ExportInv, NEW t \in Threads, thr[t].pc \in Steps \ Idling
  PROVE  /\ TypeInv /\ Busy(t) /\ Key(t) \in Keys /\ Key(t) # None /\ Key(t).export = thr[t].export
         /\ Key(t).attempt = thr[t].attempt /\ thr[t].export \in Exports /\ KeyPast(Key(t))
         /\ \A u \in Threads : Busy(u) /\ Key(u) = Key(t) => u = t
<1>1. TypeInv /\ AttemptsAreUnique
  BY DEF ExportInv
<1>2. Busy(t) /\ Key(t) \in Keys /\ Key(t).export = thr[t].export /\ thr[t].export \in Exports
      /\ Key(t).attempt = thr[t].attempt
  BY <1>1, BusyKeys
<1>3. KeyPast(Key(t))
  BY <1>1, <1>2 DEF AttemptsAreUnique, KeyPast
<1>4. Key(t) # None
  BY <1>2, ExportConstants
<1> QED
  BY <1>1, <1>2, <1>3, <1>4, OneThread

\* A key whose only thread is off the path is doomed.
LEMMA OffPath ==
  ASSUME NEW k, \A u \in Threads : Busy(u) /\ Key(u) = k => thr[u].pc \notin Path
  PROVE  Doomed(k)
BY DEF Doomed

\* The metadata of a completed export.
LEMMA CompletedDoc ==
  ASSUME ExportInv, NEW e \in Exports, row[e].status = "COMPLETED"
  PROVE  /\ row[e].key \in Keys /\ row[e].key.export = e /\ row[e].key \in blobs
         /\ doc[e] # None /\ doc[e].key = row[e].key /\ doc[e].published
<1>1. doc[e] = [key |-> row[e].key, published |-> TRUE] /\ row[e].key \in blobs
  BY DEF ExportInv, PublishedIsKept, PublishedIntact
<1>2. row[e].key \in Keys
  BY <1>1 DEF ExportInv, TypeInv, TypeOK
<1>3. row[e].key # None
  BY <1>2, ExportConstants
<1>4. row[e].key.export = e
  BY <1>3 DEF ExportInv, KeysArePast
<1>5. [key |-> row[e].key, published |-> TRUE] \in Documents
  BY <1>2 DEF Documents
<1>6. doc[e] # None
  BY <1>1, <1>5, ExportConstants, Zenon
<1>7. doc[e].key = row[e].key /\ doc[e].published
  BY <1>1
<1> QED
  BY <1>1, <1>2, <1>4, <1>6, <1>7

LEMMA SaveIntentKeeps ==
  ASSUME ExportInv, NEW t \in Threads, SaveIntent(t)
  PROVE  ExportInv'
<1> DEFINE e == thr[t].export
           k == Key(t)
           mine == [scope |-> "publication", key |-> k, state |-> "UPLOADING"]
           ready == [scope |-> "publication", key |-> doc[e].key, state |-> "READY"]
<1>0. thr[t].pc = "saving" /\ thr[t].pc \in Steps \ Idling
  BY DEF SaveIntent, Steps, Idling
<1>1. /\ TypeInv /\ Busy(t) /\ k \in Keys /\ k # None /\ k.export = e /\ e \in Exports /\ KeyPast(k)
      /\ \A u \in Threads : Busy(u) /\ Key(u) = k => u = t
  BY <1>0, AtWork
<1>w. "failing" \in Winding /\ "retrying" \in Winding
  BY Zenon DEF Winding
<1>2. CASE UNCHANGED <<doc, outbox>>  /\ (Raise(t, "failing") \/ Raise(t, "retrying"))
  BY <1>1, <1>2, <1>w, RaiseWalks, ThreadOnly DEF SaveIntent, artifacts
<1>3. ASSUME ~ (doc[e] # None /\ doc[e].published),
             doc' = [doc EXCEPT ![e] = None],
             outbox' = {i \in (IF doc[e] = None THEN outbox ELSE Upsert("publication", doc[e].key, "READY")) :
                          ~ (i.scope = "publication" /\ i.key = k)} \cup {mine},
             (Goto(t, "uploading", "idle") /\ UNCHANGED budget) \/ (Failing /\ Raise(t, "retrying"))
      PROVE  ExportInv'
  <2>1. /\ IntentsOf(k) = {} /\ (\A u \in Threads : ~ PendingKey(u, k)) /\ ~ DocIs(k)
        /\ row[e].key # k
    BY <1>0 DEF ExportInv, PathsAreFresh, Early, Path
  <2>2. doc[e] # None => doc[e].key \in Keys /\ doc[e].key.export = e /\ doc[e].key # k /\ DocIs(doc[e].key)
    <3>1. doc[e] # None => doc[e] \in Documents
      BY <1>1, Zenon DEF TypeInv, TypeOK
    <3>2. doc[e] # None => doc[e].key.export = e
      BY <1>1, Zenon DEF ExportInv, KeysArePast
    <3> QED
      BY <2>1, <3>1, <3>2 DEF Documents, DocIs
  <2>m. Moved /\ PendingShrinks /\ \A u \in Threads : u # t => thr'[u] = thr[u]
    <3>1. CASE Goto(t, "uploading", "idle")
      <4>1. "uploading" \in Steps /\ "idle" \in Steps /\ Order(thr[t].pc, "uploading")
        BY <1>0, Zenon DEF Steps, Order, Early, Late
      <4>2. MovedTo(t, "uploading", "idle", thr[t].pending)
        BY <1>1, <3>1, <4>1, GotoMoves, Zenon
      <4> QED
        BY <1>1, <4>1, <4>2, StaysMoved, ZenonT(30) DEF MovedTo, PendingShrinks
    <3>2. CASE Raise(t, "retrying")
      <4>1. \A u \in Threads : u # t => thr'[u] = thr[u]
        BY <1>1, <3>2, Zenon DEF Raise, Goto, TypeInv, TypeOK
      <4> QED
        BY <1>1, <1>w, <3>2, <4>1, RaiseWalks, Zenon DEF Quiet, PendingShrinks
    <3> QED
      BY <1>3, <3>1, <3>2
  <2>o. \A i : /\ i \in outbox' => i = mine \/ (i \in outbox /\ i.key # k) \/ (i = ready /\ doc[e] # None)
               /\ i \in outbox /\ ~ (doc[e] # None /\ i.scope = "publication" /\ i.key = doc[e].key) => i \in outbox'
               /\ doc[e] # None => ready \in outbox'
    <3>1. \A i \in outbox : i.key # k
      BY <2>1 DEF IntentsOf
    <3>2. ready.key = doc[e].key /\ mine.key = k
      BY Zenon
    <3> QED
      BY <1>3, <2>2, <3>1, <3>2 DEF Upsert, Without
  <2>d. doc'[e] = None /\ \A x \in Exports : x # e => doc'[x] = doc[x]
    BY <1>1, <1>3, Zenon DEF TypeInv, TypeOK
  <2>f. mine \in Intents /\ (doc[e] # None => ready \in Intents) /\ mine.key = k /\ ready.key = doc[e].key
        /\ mine.state = "UPLOADING"
    BY <1>1, <2>2, Zenon DEF Intents, Scopes
  <2> HIDE DEF mine, ready
  <2>3. NoNewRuns /\ UNCHANGED row /\ blobs' = blobs /\ parent' = parent
    BY DEF SaveIntent, NoNewRuns, world
  <2>4. thr'[t].pc \notin Early
    BY <1>1, <1>3, <1>w, GotoMoves, Zenon DEF Raise, MovedTo, Early, Steps
  <2>5. KeysGrow
    <3>1. \A i \in outbox' : i.key \in Keys /\ (Known(i.key) \/ Mine(i.key))
      <4>1. Mine(k)
        BY <1>1, <2>4, Zenon DEF Mine
      <4>2. \A i \in outbox : i.key \in Keys /\ Known(i.key)
        BY <1>1, Zenon DEF Known, IntentsOf, TypeInv, TypeOK, Intents
      <4>3. doc[e] # None => doc[e].key \in Keys /\ Known(doc[e].key)
        BY <2>2 DEF Known
      <4> QED
        BY <1>1, <2>o, <2>f, <4>1, <4>2, <4>3
    <3>2. DocGrows
      BY <2>d DEF DocGrows
    <3>3. RowKeysGrow
      BY <2>3 DEF RowKeysGrow, ExportInv, KeysArePast
    <3> QED
      BY <2>m, <3>1, <3>2, <3>3, PendingKnown, Zenon DEF KeysGrow
  <2>6. ASSUME NEW x \in Keys, doc[e] # None, x = doc[e].key PROVE Doomed(x)'
    <3>1. ~ DocIs(x)'
      BY <2>2, <2>d, <2>6 DEF DocIs
    <3> SUFFICES ASSUME NEW u \in Threads, Busy(u)', Key(u)' = x PROVE thr'[u].pc \notin Path \/ thr'[u].pc \in Late
      BY <3>1 DEF Doomed
    <3>2. Busy(u) /\ Key(u) = x
      BY <1>1, <2>m, KeyKept DEF Busy
    <3>3. u # t
      BY <2>2, <2>6, <3>2, Zenon
    <3>4. thr[u].pc \notin Early \cup Sending
      BY <2>2, <2>6, <3>2, Zenon DEF ExportInv, PathsAreFresh
    <3> QED
      BY <2>m, <3>3, <3>4 DEF Path
  <2>7. DeletesGrow
    <3>1. ASSUME NEW i \in outbox', i.state \in {"READY", "DELETING"}
          PROVE  Doomed(i.key) \/ Doomed(i.key)'
      <4>1. CASE i \in outbox
        BY <3>1, <4>1 DEF ExportInv, DeletesAreDoomed
      <4>2. CASE i = ready /\ doc[e] # None
        BY <2>2, <2>f, <2>6, <4>2
      <4> QED
        BY <2>o, <2>f, <3>1, <4>1, <4>2
    <3> QED
      BY <2>m, <3>1, PendingKnown DEF DeletesGrow
  <2>8. BlobsShrink
    BY <1>0, <2>3, <2>m DEF BlobsShrink
  <2>9. SendsBegin
    <3>1. \A i : i.key = k => (i \in outbox' <=> i = mine)
      BY <2>1, <2>2, <2>o, <2>f, <1>3, Zenon
    <3>2. \A v \in Threads : \A p \in thr'[v].pending : p[2] # k
      BY <2>1, <2>m DEF PendingKey, PendingShrinks
    <3>3. \A u \in Threads : thr[u].pc = "saving" /\ thr'[u].pc = "uploading" => u = t
      BY <2>m
    <3> QED
      BY <3>1, <3>2, <3>3, Zenon DEF SendsBegin, mine
  <2>10. ~ mode.slow => SendsUntouched
    <3> SUFFICES ASSUME ~ mode.slow, NEW u \in Threads, thr[u].pc \in Sending, thr'[u].pc \in Sending
                 PROVE  /\ \A i : i.key = Key(u) => (i \in outbox' <=> i \in outbox)
                        /\ \A v \in Threads : \A p \in thr'[v].pending : p[2] # Key(u)
      BY DEF SendsUntouched
    <3>1. Busy(u)
      BY <1>1, BusyKeys DEF Sending, Steps, Idling
    <3>2. Key(u) # k
      BY <1>0, <1>1, <3>1 DEF Sending
    <3>3. ~ DocIs(Key(u)) /\ \A v \in Threads : ~ PendingKey(v, Key(u))
      BY DEF ExportInv, PathsAreFresh, SendsAreCovered
    <3>4. doc[e] # None => Key(u) # doc[e].key
      BY <2>2, <3>3
    <3> QED
      BY <2>m, <2>o, <2>f, <3>2, <3>3, <3>4, Zenon DEF PendingKey, PendingShrinks
  <2>11. Counted
    BY <1>1, <1>3, CountsKept, ZenonT(30) DEF SaveIntent
  <2>12. RowsTyped
    BY <1>1, <2>3, ZenonT(30) DEF RowsTyped, TypeInv, TypeOK
  <2>13. ArtifactsTyped
    <3>1. doc' \in [Exports -> Documents \cup {None}]
      BY <1>1, <1>3, Zenon DEF TypeInv, TypeOK
    <3>2. outbox' \subseteq Intents
      BY <1>1, <2>o, <2>f, Zenon DEF TypeInv, TypeOK
    <3> QED
      BY <1>1, <2>3, <3>1, <3>2, ZenonT(30) DEF ArtifactsTyped, TypeInv, TypeOK
  <2>14. CancelHonoured'
    BY <2>3, <2>d DEF ExportInv, CancelHonoured
  <2>15. PublishedIsKept'
    <3>1. row[e].status # "COMPLETED"
      BY <1>1, <1>3, CompletedDoc, Zenon
    <3> QED
      BY <2>3, <2>d, <2>m, <3>1, Zenon DEF ExportInv, PublishedIsKept, PublishedIntact, PendingKey, PendingShrinks
  <2>16. BlobsAccounted'
    <3>1. \A x : IntentsOf(x) # {} => \E i \in outbox' : i.key = x
      BY <2>o, <2>f DEF IntentsOf
    <3> QED
      BY <2>3, <2>11, <3>1 DEF ExportInv, BlobsAccounted, IntentsOf, Counted
  <2> QED
    BY <2>3, <2>5, <2>7, <2>8, <2>9, <2>10, <2>11, <2>12, <2>13, <2>14, <2>15, <2>16, <2>m, Assembled, Zenon
<1> QED
  BY <1>2, <1>3, Zenon DEF SaveIntent

\* Readying an upload's cleanup row leaves the rows of other objects alone, and drops none.
LEMMA ReadiedIs ==
  ASSUME outbox \subseteq Intents, NEW k
  PROVE  /\ Readied(k) \subseteq Intents
         /\ \A i : i.key # k => (i \in Readied(k) <=> i \in outbox)
         /\ \A i \in Readied(k) : \E j \in outbox : j.key = i.key
         /\ \A j \in outbox : \E i \in Readied(k) : i.key = j.key
<1> DEFINE R(i) == IF i.scope = "publication" /\ i.key = k /\ i.state \in {"UPLOADING", "STAGED"}
                   THEN [i EXCEPT !.state = "READY"] ELSE i
<1>1. ASSUME NEW i \in outbox
      PROVE  R(i) \in Intents /\ R(i).key = i.key /\ (i.key # k => R(i) = i)
  BY <1>1 DEF Intents
<1>2. Readied(k) = {R(i) : i \in outbox}
  BY DEF Readied
<1> HIDE DEF R
<1> QED
  BY <1>1, <1>2

\* Steps of an attempt that change only its own object and cleanup rows.
OwnObjectOnly(t) ==
    /\ UNCHANGED <<world, row, doc>> /\ (Failing \/ UNCHANGED budget)
    /\ blobs' \in {blobs, blobs \cup {Key(t)}, blobs \ {Key(t)}}
    /\ \A i : i.key # Key(t) => (i \in outbox' <=> i \in outbox)
    /\ outbox' \subseteq Intents /\ \A i \in outbox' : \E j \in outbox : j.key = i.key

LEMMA OwnObject ==
  ASSUME ExportInv, NEW t \in Threads, thr[t].pc \in {"uploading", "discarding"}, OwnObjectOnly(t),
         Moved, PendingShrinks, thr'[t].pc \notin Early,
         thr[t].pc = "uploading" /\ thr'[t].pc \in Path => outbox' = outbox /\ Key(t) \in blobs',
         thr[t].pc = "uploading" => blobs \subseteq blobs',
         parent = "present" /\ ~ mode.slow /\ Key(t) \in blobs' => \E i \in outbox' : i.key = Key(t),
         \A u \in Threads : u # t => thr'[u] = thr[u]
  PROVE  ExportInv'
<1> DEFINE k == Key(t)
<1>0. thr[t].pc \in Steps \ Idling /\ thr[t].pc \in Path \cup {"discarding"}
  BY DEF Steps, Idling, Path, Sending
<1>1. /\ TypeInv /\ Busy(t) /\ k \in Keys /\ k # None /\ k.export = thr[t].export /\ thr[t].export \in Exports
      /\ \A u \in Threads : Busy(u) /\ Key(u) = k => u = t
  BY <1>0, AtWork
<1>2. NoNewRuns /\ UNCHANGED row /\ UNCHANGED doc /\ mode' = mode /\ parent' = parent
  BY Zenon DEF OwnObjectOnly, NoNewRuns, world
<1>3. row[thr[t].export].key # k
  BY <1>0 DEF ExportInv, PathsAreFresh
<1>4. DocGrows
  BY <1>2 DEF DocGrows
<1>5. KeysGrow
  <2>1. \A i \in outbox' : i.key \in Keys /\ Known(i.key)
    BY DEF OwnObjectOnly, Known, IntentsOf, Intents
  <2>2. RowKeysGrow
    BY <1>2 DEF RowKeysGrow, ExportInv, KeysArePast
  <2> QED
    BY <1>4, <2>1, <2>2, PendingKnown, Zenon DEF KeysGrow
<1>6. thr'[t].pc \notin Path => Doomed(Key(t)) \/ \A x \in Keys : x = Key(t) => Doomed(x)'
  <2> SUFFICES ASSUME thr'[t].pc \notin Path, NEW x \in Keys, x = Key(t) PROVE Doomed(x)'
    OBVIOUS
  <2> SUFFICES ASSUME NEW u \in Threads, Busy(u)', Key(u)' = x PROVE thr'[u].pc \notin Path
    BY DEF Doomed
  <2>1. Busy(u) /\ Key(u) = x
    BY <1>1, KeyKept, Zenon DEF Busy
  <2> QED
    BY <1>1, <2>1
<1>7. thr[t].pc = "discarding" => Doomed(Key(t))
  BY <1>1, StepsAre, Zenon DEF Doomed
<1>8. thr[t].pc = "discarding" => thr'[t].pc \notin Path
  BY StepsAre DEF Moved, Order, Path, Sending, Early, Late
<1>9. DeletesGrow
  <2>1. ASSUME NEW i \in outbox', i.state \in {"READY", "DELETING"}
        PROVE  Doomed(i.key) \/ Doomed(i.key)'
    <3>1. CASE i \in outbox
      BY <2>1, <3>1 DEF ExportInv, DeletesAreDoomed
    <3>2. CASE i \notin outbox
      <4>1. i.key = Key(t) /\ thr'[t].pc \notin Path
        BY <3>2, <1>8 DEF OwnObjectOnly
      <4> QED
        BY <1>1, <1>6, <4>1
    <3> QED
      BY <3>1, <3>2, Zenon
  <2> QED
    BY <2>1, PendingKnown, Zenon DEF DeletesGrow
<1>10. BlobsShrink
  <2>1. \A x \in blobs \ blobs' : x = Key(t) /\ thr[t].pc = "discarding"
    BY DEF OwnObjectOnly
  <2>2. \A u \in Threads : thr[u].pc = "uploading" /\ thr'[u].pc = "staging" => Key(u) \in blobs'
    BY DEF Path, Sending
  <2> QED
    BY <1>7, <2>1, <2>2 DEF BlobsShrink
<1>11. SendsBegin
  BY DEF SendsBegin
<1>12. ~ mode.slow => SendsUntouched
  <2> SUFFICES ASSUME ~ mode.slow, NEW u \in Threads, thr[u].pc \in Sending, thr'[u].pc \in Sending
               PROVE  /\ \A i : i.key = Key(u) => (i \in outbox' <=> i \in outbox)
                      /\ \A v \in Threads : \A p \in thr'[v].pending : p[2] # Key(u)
    BY Zenon DEF SendsUntouched
  <2>1. Busy(u)
    BY <1>1, BusyKeys DEF Sending, Steps, Idling
  <2>2. \A v \in Threads : ~ PendingKey(v, Key(u))
    BY DEF ExportInv, SendsAreCovered
  <2>3. \A i : i.key = Key(u) => (i \in outbox' <=> i \in outbox)
    <3>1. CASE u = t
      BY <3>1 DEF Path, Sending
    <3>2. CASE u # t
      BY <1>1, <2>1, <3>2 DEF OwnObjectOnly
    <3> QED
      BY <3>1, <3>2
  <2> QED
    BY <2>2, <2>3 DEF PendingKey, PendingShrinks
<1>13. Counted
  BY <1>1, CountsKept DEF OwnObjectOnly
<1>14. RowsTyped
  BY <1>1, <1>2, Zenon DEF RowsTyped, TypeInv, TypeOK
<1>15. ArtifactsTyped
  <2>1. blobs' \subseteq Keys
    BY <1>1, Zenon DEF OwnObjectOnly, TypeInv, TypeOK
  <2> QED
    BY <1>1, <1>2, <2>1, Zenon DEF ArtifactsTyped, TypeInv, TypeOK, OwnObjectOnly
<1>16. CancelHonoured'
  BY <1>2 DEF ExportInv, CancelHonoured
<1>17. PublishedIsKept'
  <2>1. ASSUME NEW e \in Exports, row[e].status = "COMPLETED" PROVE row[e].key \in blobs'
    <3>1. row[e].key \in blobs /\ row[e].key.export = e
      BY <2>1, CompletedDoc
    <3>2. row[e].key # k
      BY <1>1, <1>3, <3>1, Zenon
    <3> QED
      BY <3>1, <3>2 DEF OwnObjectOnly
  <2> QED
    BY <1>2, <2>1 DEF ExportInv, PublishedIsKept, PublishedIntact, PendingKey, PendingShrinks
<1>18. BlobsAccounted'
  <2> SUFFICES ASSUME parent = "present", ~ mode.slow, NEW x \in blobs'
               PROVE  (\E i \in outbox' : i.key = x) \/ row[x.export].key = x
    BY <1>2 DEF BlobsAccounted, IntentsOf
  <2>1. CASE x = k
    BY <2>1, Zenon
  <2>2. CASE x # k
    BY <2>2 DEF OwnObjectOnly, ExportInv, BlobsAccounted, IntentsOf
  <2> QED
    BY <2>1, <2>2
<1> QED
  BY <1>2, <1>5, <1>9, <1>10, <1>11, <1>12, <1>13, <1>14, <1>15, <1>16, <1>17, <1>18, Assembled

LEMMA PutKeeps ==
  ASSUME ExportInv, NEW t \in Threads, Put(t)
  PROVE  ExportInv'
<1>0. thr[t].pc = "uploading" /\ thr[t].pc \in Steps \ Idling
  BY DEF Put, Steps, Idling
<1>1. TypeInv /\ Busy(t) /\ outbox \subseteq Intents
  BY <1>0, AtWork, Zenon DEF TypeInv, TypeOK
<1>2. parent = "present" /\ ~ mode.slow => \E i \in outbox : i.key = Key(t)
  BY <1>0, ZenonT(30) DEF ExportInv, SendsAreCovered, Sending, IntentsOf
<1>w. "failing" \in Winding /\ "retrying" \in Winding
  BY DEF Winding
<1>3. CASE blobs' = blobs \cup {Key(t)} /\ Goto(t, "staging", "idle") /\ UNCHANGED <<outbox, budget>>
  <2>1. "staging" \in Steps /\ "idle" \in Steps /\ Order(thr[t].pc, "staging") /\ "staging" \notin Early
    BY <1>0 DEF Steps, Order, Early, Late, Sending
  <2>2. MovedTo(t, "staging", "idle", thr[t].pending)
    BY <1>1, <1>3, <2>1, GotoMoves
  <2>3. Moved /\ PendingShrinks /\ (\A u \in Threads : u # t => thr'[u] = thr[u]) /\ thr'[t].pc \notin Early
    BY <1>1, <2>1, <2>2, StaysMoved DEF MovedTo, PendingShrinks
  <2>4. OwnObjectOnly(t)
    BY <1>1, <1>3, Zenon DEF Put, OwnObjectOnly
  <2> QED
    BY <1>0, <1>2, <1>3, <2>3, <2>4, OwnObject
<1>4. CASE /\ Failing /\ blobs' \in {blobs, blobs \cup {Key(t)}} /\ outbox' \in {outbox, Readied(Key(t))}
           /\ \E step \in {"retrying", "failing"} : Raise(t, step)
  <2>1. PICK p \in Winding : Goto(t, p, "idle")
    BY <1>4, <1>w DEF Raise
  <2>2. p \in Steps /\ "idle" \in Steps /\ p \notin Path
    BY StepsAre DEF Steps
  <2>3. MovedTo(t, p, "idle", thr[t].pending)
    BY <1>1, <2>1, <2>2, GotoMoves
  <2>4. Moved /\ PendingShrinks /\ (\A u \in Threads : u # t => thr'[u] = thr[u]) /\ thr'[t].pc \notin Path
    BY <1>1, <2>1, <2>2, <2>3, WindsUp, Zenon DEF MovedTo, PendingShrinks
  <2>5. OwnObjectOnly(t)
    BY <1>1, <1>4, ReadiedIs, Zenon DEF Put, OwnObjectOnly
  <2>6. parent = "present" /\ ~ mode.slow => \E i \in outbox' : i.key = Key(t)
    BY <1>1, <1>2, <1>4, ReadiedIs, Zenon
  <2> QED
    BY <1>0, <1>4, <2>4, <2>5, <2>6, OwnObject DEF Path
<1> QED
  BY <1>3, <1>4 DEF Put

LEMMA DiscardKeeps ==
  ASSUME ExportInv, NEW t \in Threads, Discard(t)
  PROVE  ExportInv'
<1>0. thr[t].pc = "discarding" /\ thr[t].pc \in Steps \ Idling
  BY DEF Discard, Steps, Idling
<1>1. TypeInv /\ Busy(t) /\ outbox \subseteq Intents /\ Key(t).export = thr[t].export
  BY <1>0, AtWork, Zenon DEF TypeInv, TypeOK
<1>2. parent = "present" /\ ~ mode.slow /\ Key(t) \in blobs => \E i \in outbox : i.key = Key(t)
  BY <1>0, <1>1 DEF ExportInv, BlobsAccounted, PathsAreFresh, IntentsOf
<1>3. Moved /\ PendingShrinks
  BY <1>1, GoOnWalks DEF Discard, Quiet, PendingShrinks
<1>4. (\A u \in Threads : u # t => thr'[u] = thr[u]) /\ thr'[t].pc \notin Early
  <2>1. \/ Rested(t)
        \/ thr[t].then \in Winding \cup {"sweeping"} /\ MovedTo(t, thr[t].then, "idle", thr[t].pending)
    BY <1>1, GoOnMoves, Zenon DEF Discard
  <2> QED
    BY <2>1 DEF Rested, MovedTo, Early, Winding
<1>5. CASE blobs' = blobs \ {Key(t)} /\ outbox' = Without("publication", Key(t)) /\ UNCHANGED budget
  <2>1. OwnObjectOnly(t)
    BY <1>1, <1>5, Zenon DEF Discard, OwnObjectOnly, Without
  <2> QED
    BY <1>0, <1>3, <1>4, <1>5, <2>1, OwnObject
<1>6. CASE Failing /\ blobs' \in {blobs, blobs \ {Key(t)}} /\ outbox' \in {outbox, Readied(Key(t))}
  <2>1. OwnObjectOnly(t)
    BY <1>1, <1>6, ReadiedIs DEF Discard, OwnObjectOnly
  <2>2. parent = "present" /\ ~ mode.slow /\ Key(t) \in blobs' => \E i \in outbox' : i.key = Key(t)
    <3>1. \A j \in outbox : \E i \in outbox' : i.key = j.key
      <4>1. CASE outbox' = outbox
        BY <4>1, Zenon
      <4>2. CASE outbox' = Readied(Key(t))
        BY <1>1, <4>2, ReadiedIs, Zenon
      <4> QED
        BY <1>6, <4>1, <4>2, Zenon
    <3>2. Key(t) \in blobs' => Key(t) \in blobs
      BY <1>6, Zenon
    <3> QED
      BY <1>2, <3>1, <3>2, Zenon
  <2> QED
    BY <1>0, <1>3, <1>4, <2>1, <2>2, OwnObject
<1> QED
  BY <1>5, <1>6 DEF Discard

\* The steps that take rows, metadata, cleanup rows or objects away: S are the exports whose rows go.
Spared(k) == \A e \in Exports : row'[e].status = "COMPLETED" => row'[e].key # k

RowsGo(S) ==
    /\ row' \in [Exports -> Rows]
    /\ \A e \in Exports : e \notin S => row'[e] = row[e]
    /\ \A e \in S : /\ row[e].status \in Terminal /\ row'[e].status = "GONE" /\ ~ row'[e].cancel
                    /\ row'[e].key = None /\ row'[e].attempt = row[e].attempt

DocsGo(S) ==
    /\ \A e \in Exports : doc'[e] = None \/ (e \notin S /\ doc'[e] = doc[e])
    /\ \A e \in Exports : row'[e].status = "COMPLETED" => doc'[e] = doc[e]

ObjectsGo ==
    /\ \A i \in outbox' : /\ Known(i.key)
                          /\ i.state \in {"READY", "DELETING"} => i \in outbox \/ Doomed(i.key) \/ Doomed(i.key)'
    /\ \A u \in Threads : \A p \in thr'[u].pending :
          p \in thr[u].pending \/ (Known(p[2]) /\ (Doomed(p[2]) \/ Doomed(p[2])') /\ Spared(p[2]))
    /\ blobs' \subseteq blobs
    /\ \A k \in blobs \ blobs' : (Doomed(k) \/ Doomed(k)') /\ Spared(k)

LEMMA Cleans ==
  ASSUME ExportInv, NEW S \in SUBSET Exports, Moved, Counted, ArtifactsTyped, RowsGo(S), DocsGo(S), ObjectsGo,
         \A u \in Threads : thr'[u].pc \in Sending => thr[u].pc = thr'[u].pc,
         ~ mode.slow => SendsUntouched,
         parent' = parent \/ \A e \in Exports : row'[e].status \in {"ABSENT", "GONE"} /\ doc'[e] = None,
         parent' = "present" /\ ~ mode.slow =>
            \A x \in blobs' : (\E i \in outbox' : i.key = x) \/ row'[x.export].key = x
  PROVE  ExportInv'
<1>t. TypeInv /\ mode' = mode
  BY DEF ExportInv, Counted
<1>1. NoNewRuns
  BY Zenon DEF NoNewRuns, RowsGo
<1>2. DocGrows
  BY Zenon DEF DocGrows, DocsGo
<1>3. RowKeysGrow
  BY ZenonT(30) DEF RowKeysGrow, RowsGo, ExportInv, KeysArePast
<1>4. KeysGrow
  <2>1. \A i \in outbox' : i.key \in Keys
    BY DEF ArtifactsTyped, Intents
  <2>2. \A u \in Threads : \A p \in thr'[u].pending : Known(p[2])
    BY ZenonT(30) DEF ObjectsGo, Known, PendingKey
  <2> QED
    BY <1>2, <1>3, <2>1, <2>2, ZenonT(30) DEF KeysGrow, ObjectsGo
<1>5. DeletesGrow
  BY Zenon DEF DeletesGrow, ObjectsGo, ExportInv, DeletesAreDoomed
<1>6. BlobsShrink
  BY Zenon DEF BlobsShrink, ObjectsGo, Sending
<1>7. SendsBegin
  BY DEF SendsBegin, Sending
<1>8. RowsTyped
  BY <1>t DEF RowsTyped, RowsGo, TypeInv
<1>9. CancelHonoured'
  <2>1. \A e \in Exports : row'[e].cancel => row'[e].status \in {"RUNNING", "CANCELLED"}
    BY Zenon DEF RowsGo, ExportInv, CancelHonoured
  <2>2. ASSUME parent' = parent, parent = "deleted", NEW e \in Exports
        PROVE  row'[e].status \in {"ABSENT", "GONE"} /\ doc'[e] = None
    BY <2>2 DEF RowsGo, DocsGo, ExportInv, CancelHonoured
  <2> QED
    BY <2>1, <2>2 DEF CancelHonoured
<1>10. PublishedIsKept'
  <2>1. ASSUME NEW e \in Exports, row'[e].status = "COMPLETED"
        PROVE  /\ doc'[e] = [key |-> row'[e].key, published |-> TRUE] /\ row'[e].key \in blobs'
               /\ \A u \in Threads : \A p \in thr'[u].pending : p[2] # row'[e].key
    <3>1. row'[e] = row[e] /\ row[e].status = "COMPLETED" /\ doc'[e] = doc[e]
      BY <2>1 DEF RowsGo, DocsGo
    <3>2. /\ doc[e] = [key |-> row[e].key, published |-> TRUE] /\ row[e].key \in blobs
          /\ \A u \in Threads : ~ PendingKey(u, row[e].key)
      BY <3>1, Zenon DEF ExportInv, PublishedIsKept, PublishedIntact
    <3>3. row[e].key \in blobs'
      BY <2>1, <3>1, <3>2, Zenon DEF ObjectsGo, Spared
    <3>4. \A u \in Threads : \A p \in thr'[u].pending : p[2] # row[e].key
      BY <2>1, <3>1, <3>2, ZenonT(30) DEF ObjectsGo, Spared, PendingKey
    <3> QED
      BY <3>1, <3>2, <3>3, <3>4, Zenon
  <2>2. ASSUME NEW e \in Exports, doc'[e] # None, doc'[e].published PROVE row'[e].status = "COMPLETED"
    BY <2>2, Zenon DEF DocsGo, RowsGo, ExportInv, PublishedIsKept
  <2> QED
    BY <2>1, <2>2, ZenonT(30) DEF PublishedIsKept, PublishedIntact, PendingKey
<1>11. BlobsAccounted'
  BY <1>t, Zenon DEF BlobsAccounted, IntentsOf
<1> QED
  BY <1>1, <1>4, <1>5, <1>6, <1>7, <1>8, <1>9, <1>10, <1>11, Assembled, Zenon

LEMMA StageKeeps ==
  ASSUME ExportInv, NEW t \in Threads, Stage(t)
  PROVE  ExportInv'
<1> DEFINE e == thr[t].export
           k == Key(t)
           mine == [scope |-> "publication", key |-> k, state |-> "UPLOADING"]
           staged == [mine EXCEPT !.state = "STAGED"]
<1>0. thr[t].pc = "staging" /\ thr[t].pc \in Steps \ Idling
  BY DEF Stage, Steps, Idling
<1>1. /\ TypeInv /\ Busy(t) /\ k \in Keys /\ k # None /\ k.export = e /\ e \in Exports
      /\ \A u \in Threads : Busy(u) /\ Key(u) = k => u = t
  BY <1>0, AtWork, Zenon
<1>2. ASSUME NEW p \in {"staged", "discarding"}, NEW n \in {"idle"} \cup Winding, Goto(t, p, n)
      PROVE  /\ Moved /\ Quiet /\ (\A u \in Threads : u # t => thr'[u] = thr[u])
             /\ thr'[t].pc \notin Early \cup Sending
  <2>1. p \in Steps \ Sending /\ n \in Steps /\ Order(thr[t].pc, p) /\ p \notin Early \cup Sending
    BY <1>0 DEF Steps, Sending, Winding, Order, Early, Late, Path
  <2>2. MovedTo(t, p, n, thr[t].pending)
    BY <1>1, <1>2, <2>1, GotoMoves
  <2> QED
    BY <1>1, <1>2, <2>1, <2>2, Walks DEF MovedTo
<1>3. \/ Goto(t, "staged", "idle")
      \/ \E n \in Winding : Goto(t, "discarding", n)
  BY DEF Stage, Winding
<1>4. /\ Moved /\ Quiet /\ (\A u \in Threads : u # t => thr'[u] = thr[u])
      /\ thr'[t].pc \notin Early \cup Sending
  BY <1>2, <1>3, Zenon
<1>5. Failing \/ UNCHANGED budget
  BY DEF Stage
<1>6. CASE UNCHANGED <<doc, outbox>>
  BY <1>4, <1>5, <1>6, ThreadOnly DEF Stage, artifacts
<1>7. CASE /\ parent = "present" /\ doc[e] = None /\ mine \in outbox
           /\ doc' = [doc EXCEPT ![e] = [key |-> k, published |-> FALSE]]
           /\ outbox' = (outbox \ {mine}) \cup {staged}
  <2>1. NoNewRuns /\ UNCHANGED <<row, blobs, parent>>
    BY DEF Stage, NoNewRuns, world
  <2>2. /\ doc'[e].key = k /\ ~ doc'[e].published /\ \A x \in Exports : x # e => doc'[x] = doc[x]
        /\ doc' \in [Exports -> Documents \cup {None}]
    BY <1>1, <1>7 DEF TypeInv, TypeOK, Documents
  <2>3. mine.key = k /\ staged.key = k /\ staged.state = "STAGED" /\ staged \in Intents
    BY <1>1 DEF Intents, Scopes
  <2> HIDE DEF mine, staged
  <2>4. PendingShrinks
    BY <1>4 DEF Quiet, PendingShrinks
  <2>5. KeysGrow
    <3>1. \A i \in outbox' : i.key \in Keys /\ Known(i.key)
      BY <1>1, <1>7, <2>3, ZenonT(30) DEF TypeInv, TypeOK, Intents, Known, IntentsOf
    <3>2. DocGrows
      BY <1>0, <1>1, <1>4, <2>2 DEF DocGrows
    <3>3. RowKeysGrow
      BY <2>1, ZenonT(30) DEF RowKeysGrow, ExportInv, KeysArePast
    <3> QED
      BY <2>4, <3>1, <3>2, <3>3, PendingKnown DEF KeysGrow
  <2>6. DeletesGrow
    BY <1>7, <2>3, <2>4, PendingKnown, Zenon DEF DeletesGrow, ExportInv, DeletesAreDoomed
  <2>7. BlobsShrink
    BY <1>4, <2>1 DEF BlobsShrink, Sending
  <2>8. SendsBegin
    BY <1>4, <1>0 DEF SendsBegin
  <2>9. ~ mode.slow => SendsUntouched
    <3> SUFFICES ASSUME ~ mode.slow, NEW u \in Threads, thr[u].pc \in Sending, thr'[u].pc \in Sending
                 PROVE  /\ \A i : i.key = Key(u) => (i \in outbox' <=> i \in outbox)
                        /\ \A v \in Threads : \A p \in thr'[v].pending : p[2] # Key(u)
      BY DEF SendsUntouched
    <3>1. Busy(u)
      BY <1>1, BusyKeys DEF Sending, Steps, Idling
    <3>2. Key(u) # k
      BY <1>1, <1>4, <3>1
    <3>3. \A v \in Threads : ~ PendingKey(v, Key(u))
      BY DEF ExportInv, SendsAreCovered
    <3> QED
      BY <1>7, <2>3, <2>4, <3>2, <3>3 DEF PendingKey, PendingShrinks
  <2>10. Counted
    BY <1>1, <1>5, CountsKept, Zenon DEF Stage
  <2>11. RowsTyped
    BY <1>1, <2>1 DEF RowsTyped, TypeInv, TypeOK
  <2>12. ArtifactsTyped
    BY <1>1, <1>7, <2>1, <2>2, <2>3, ZenonT(30) DEF ArtifactsTyped, TypeInv, TypeOK
  <2>13. CancelHonoured'
    BY <1>7, <2>1 DEF ExportInv, CancelHonoured
  <2>14. PublishedIsKept'
    <3>1. row[e].status # "COMPLETED"
      BY <1>1, <1>7, CompletedDoc, Zenon
    <3> QED
      BY <2>1, <2>2, <2>4, <3>1, Zenon DEF ExportInv, PublishedIsKept, PublishedIntact, PendingKey, PendingShrinks
  <2>15. BlobsAccounted'
    <3>1. \A x : IntentsOf(x) # {} => \E i \in outbox' : i.key = x
      BY <1>7, <2>3 DEF IntentsOf
    <3> QED
      BY <2>1, <2>10, <3>1 DEF ExportInv, BlobsAccounted, IntentsOf, Counted
  <2> QED
    BY <1>4, <2>1, <2>5, <2>6, <2>7, <2>8, <2>9, <2>10, <2>11, <2>12, <2>13, <2>14, <2>15, Assembled
<1> QED
  BY <1>6, <1>7 DEF Stage
=============================================================================
