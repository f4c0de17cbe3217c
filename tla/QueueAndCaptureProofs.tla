----------------------- MODULE QueueAndCaptureProofs ------------------------
(***************************************************************************)
(* The leased queue of the controller and the workers, and the capture     *)
(* supervisor of the sensor, each for any value of its constants.          *)
(***************************************************************************)
EXTENDS LeasedQueue, CaptureSupervisor, FiniteSetTheorems, TLAPS

-----------------------------------------------------------------------------
(***************************************************************************)
(* LeasedQueue for any messages, consumers, modes and bounds: type         *)
(* correctness, the refinement of AtLeastOnceQueue, and that no message is *)
(* stranded as long as no consumer crashes between the pop and the lease.  *)
(***************************************************************************)

(* Counting the copies on a list. *)

Copies(s, m) == {i \in DOMAIN s : s[i] = m}

\* The positions of a message on a list are finitely many.
LEMMA CopiesFinite ==
  ASSUME NEW S, NEW s \in Seq(S), NEW m
  PROVE  IsFiniteSet(Copies(s, m)) /\ Cardinality(Copies(s, m)) \in Nat
<1>1. DOMAIN s = 1 .. Len(s) /\ Len(s) \in Nat
  OBVIOUS
<1>2. IsFiniteSet(1 .. Len(s))
  BY <1>1, FS_Interval
<1>3. Copies(s, m) \in SUBSET (1 .. Len(s))
  BY <1>1 DEF Copies
<1> QED
  BY <1>2, <1>3, FS_Subset, FS_CardinalityType

\* LPUSH adds one copy of the message it pushes, and none of any other.
LEMMA CopiesPushed ==
  ASSUME NEW S, NEW s \in Seq(S), NEW x \in S, NEW m
  PROVE  Cardinality(Copies(<<x>> \o s, m)) = Cardinality(Copies(s, m)) + (IF x = m THEN 1 ELSE 0)
<1> DEFINE t == <<x>> \o s
           Moved == {i + 1 : i \in Copies(s, m)}
           f == [i \in Copies(s, m) |-> i + 1]
<1>1. /\ t \in Seq(S) /\ Len(t) = Len(s) + 1 /\ t[1] = x
      /\ \A i \in 1 .. Len(s) : t[i + 1] = s[i]
      /\ DOMAIN t = 1 .. Len(s) + 1 /\ DOMAIN s = 1 .. Len(s) /\ Len(s) \in Nat
  OBVIOUS
<1>2. Copies(s, m) \subseteq Nat \ {0}
  BY <1>1 DEF Copies
<1>3. f \in Bijection(Copies(s, m), Moved)
  <2>1. f \in [Copies(s, m) -> Moved]
    OBVIOUS
  <2>2. \A a, b \in Copies(s, m) : f[a] = f[b] => a = b
    BY <1>2
  <2>3. \A b \in Moved : \E a \in Copies(s, m) : f[a] = b
    OBVIOUS
  <2> QED
    BY <2>1, <2>2, <2>3, Zenon DEF Bijection, Injection, Surjection, IsInjective
<1>4. IsFiniteSet(Copies(s, m)) /\ Cardinality(Copies(s, m)) \in Nat
  BY CopiesFinite
<1>5. IsFiniteSet(Moved) /\ Cardinality(Moved) = Cardinality(Copies(s, m))
  BY <1>3, <1>4, FS_Bijection DEF ExistsBijection
<1>6. 1 \notin Moved
  BY <1>2
<1>7. Copies(t, m) = IF x = m THEN Moved \cup {1} ELSE Moved
  <2>1. \A i \in DOMAIN t : i = 1 \/ (i - 1 \in DOMAIN s /\ t[i] = s[i - 1] /\ i = (i - 1) + 1)
    BY <1>1
  <2>2. ASSUME NEW i \in Copies(t, m)
        PROVE  i \in Moved \/ (i = 1 /\ x = m)
    BY <2>1, <1>1 DEF Copies
  <2>3. ASSUME NEW i \in Moved
        PROVE  i \in Copies(t, m)
    BY <1>1 DEF Copies
  <2>4. x = m => 1 \in Copies(t, m)
    BY <1>1 DEF Copies
  <2> QED
    BY <2>2, <2>3, <2>4, Zenon
<1>8. Cardinality(Moved \cup {1}) = Cardinality(Moved) + 1
  BY <1>5, <1>6, FS_AddElement, Zenon
<1> HIDE DEF Moved, f
<1> QED
  BY <1>4, <1>5, <1>7, <1>8

\* BRPOPLPUSH takes one copy off the end of the list.
LEMMA CopiesPopped ==
  ASSUME NEW S, NEW s \in Seq(S), s # << >>, NEW m
  PROVE  /\ LastOf(s) \in S /\ FrontOf(s) \in Seq(S)
         /\ Cardinality(Copies(FrontOf(s), m)) = Cardinality(Copies(s, m)) - (IF LastOf(s) = m THEN 1 ELSE 0)
         /\ LastOf(s) = m => Cardinality(Copies(s, m)) > 0
<1>1. /\ Len(s) \in Nat \ {0} /\ DOMAIN s = 1 .. Len(s) /\ LastOf(s) = s[Len(s)] /\ LastOf(s) \in S
      /\ FrontOf(s) \in Seq(S) /\ DOMAIN FrontOf(s) = 1 .. Len(s) - 1
      /\ \A i \in 1 .. Len(s) - 1 : FrontOf(s)[i] = s[i]
  BY DEF LastOf, FrontOf
<1>2. Copies(FrontOf(s), m) = Copies(s, m) \ {Len(s)}
  BY <1>1 DEF Copies
<1>3. Len(s) \in Copies(s, m) <=> LastOf(s) = m
  BY <1>1 DEF Copies
<1>4. IsFiniteSet(Copies(s, m)) /\ Cardinality(Copies(s, m)) \in Nat
  BY CopiesFinite
<1>5. LastOf(s) = m => Cardinality(Copies(s, m)) # 0
  BY <1>3, <1>4, FS_EmptySet
<1>6. Cardinality(Copies(s, m) \ {Len(s)}) =
        IF Len(s) \in Copies(s, m) THEN Cardinality(Copies(s, m)) - 1 ELSE Cardinality(Copies(s, m))
  BY <1>4, FS_RemoveElement, Zenon
<1> QED
  BY <1>1, <1>2, <1>3, <1>4, <1>5, <1>6

-----------------------------------------------------------------------------
(* Type correctness. *)

\* A consumer between its pop and its completion holds a message.
Holding == \A c \in Consumers : pc[c] \in {"leasing", "holding"} => held[c] \in Messages

QueueInv == TypeOK /\ Holding

\* The copies of each message on the waiting list.
Waits == [m \in Messages |-> WaitingCopies(m)]

LEMMA WaitsCount ==
  /\ Waits = [m \in Messages |-> Cardinality(Copies(waiting, m))]
  /\ Waits' = [m \in Messages |-> Cardinality(Copies(waiting', m))]
BY DEF Waits, WaitingCopies, Copies

LEMMA WaitsType ==
  ASSUME TypeOK
  PROVE  Waits \in [Messages -> Nat]
<1>1. \A m \in Messages : Cardinality(Copies(waiting, m)) \in Nat
  BY CopiesFinite DEF TypeOK
<1> QED
  BY <1>1, WaitsCount

\* What LPUSH does to the list of waiting messages.
LEMMA Pushed ==
  ASSUME TypeOK, NEW x \in Messages, waiting' = <<x>> \o waiting
  PROVE  waiting' \in Seq(Messages) /\ Waits' = [Waits EXCEPT ![x] = @ + 1]
<1>1. waiting \in Seq(Messages)
  BY DEF TypeOK
<1>2. waiting' \in Seq(Messages)
  BY <1>1
<1>3. \A m \in Messages : Cardinality(Copies(waiting', m)) = Cardinality(Copies(waiting, m)) + (IF x = m THEN 1 ELSE 0)
  BY <1>1, CopiesPushed
<1>4. \A m \in Messages : Cardinality(Copies(waiting, m)) \in Nat
  BY <1>1, CopiesFinite
<1>5. ASSUME NEW m \in Messages
      PROVE  Waits'[m] = [Waits EXCEPT ![x] = @ + 1][m]
  BY <1>3, <1>4, WaitsCount
<1> QED
  BY <1>2, <1>5, WaitsCount, WaitsType, Zenon

\* What BRPOPLPUSH does to it.
LEMMA Popped ==
  ASSUME TypeOK, waiting # << >>, waiting' = FrontOf(waiting)
  PROVE  /\ waiting' \in Seq(Messages) /\ LastOf(waiting) \in Messages
         /\ Waits[LastOf(waiting)] > 0
         /\ Waits' = [Waits EXCEPT ![LastOf(waiting)] = @ - 1]
<1> DEFINE x == LastOf(waiting)
<1>1. waiting \in Seq(Messages)
  BY DEF TypeOK
<1>2. waiting' \in Seq(Messages) /\ x \in Messages
  BY <1>1, CopiesPopped, Zenon
<1>3. \A m \in Messages : Cardinality(Copies(waiting', m)) = Cardinality(Copies(waiting, m)) - (IF x = m THEN 1 ELSE 0)
  BY <1>1, CopiesPopped
<1>4. \A m \in Messages : x = m => Cardinality(Copies(waiting, m)) > 0
  BY <1>1, CopiesPopped
<1>5. \A m \in Messages : Cardinality(Copies(waiting, m)) \in Nat
  BY <1>1, CopiesFinite
<1> HIDE DEF x
<1>6. ASSUME NEW m \in Messages
      PROVE  Waits'[m] = [Waits EXCEPT ![x] = @ - 1][m]
  BY <1>2, <1>3, <1>5, WaitsCount
<1>7. Waits' = [Waits EXCEPT ![x] = @ - 1]
  BY <1>2, <1>6, WaitsCount, WaitsType
<1>8. Waits[x] > 0
  BY <1>2, <1>4, WaitsCount
<1> QED
  BY <1>2, <1>7, <1>8 DEF x

LEMMA Kept ==
  ASSUME waiting' = waiting
  PROVE  Waits' = Waits
BY WaitsCount

LEMMA InitInv == Init => QueueInv
<1> SUFFICES ASSUME Init PROVE QueueInv
  OBVIOUS
<1>1. waiting \in Seq(Messages)
  BY DEF Init
<1> QED
  BY <1>1, QueueConstants DEF Init, QueueInv, TypeOK, Holding

LEMMA StepInv == QueueInv /\ [Next]_vars => QueueInv'
<1> SUFFICES ASSUME QueueInv, [Next]_vars PROVE QueueInv'
  OBVIOUS
<1> USE QueueConstants DEF QueueInv, TypeOK, Holding
<1>1. CASE UNCHANGED vars
  BY <1>1 DEF vars
<1>2. ASSUME NEW m \in Messages, PushMessage(m)
      PROVE  QueueInv'
  <2>1. waiting' \in Seq(Messages)
    BY <1>2, Pushed DEF PushMessage
  <2>2. produced' \in [Messages -> 0 .. MaxPushes]
    BY <1>2 DEF PushMessage
  <2> QED
    BY <1>2, <2>1, <2>2 DEF PushMessage
<1>3. ASSUME NEW m \in Messages, Expire(m)
      PROVE  QueueInv'
  BY <1>3 DEF Expire
<1>4. ASSUME NEW c \in Consumers, ScanExpired(c)
      PROVE  QueueInv'
  BY <1>4 DEF ScanExpired
<1>5. ASSUME NEW c \in Consumers, NEW m \in Messages, Requeue(c, m)
      PROVE  QueueInv'
  <2>1. waiting' \in Seq(Messages)
    BY <1>5, Pushed, Zenon DEF Requeue, RequeueScript
  <2>2. processing' \in [Messages -> Nat]
    <3>1. processing \in [Messages -> Nat] /\ (processing[m] > 0 => processing[m] - 1 \in Nat)
      OBVIOUS
    <3> QED
      BY <1>5, <3>1 DEF Requeue, RequeueScript
  <2>3. lease' \in [Messages -> {"none", "live", "expired"}] /\ scan' \in [Consumers -> SUBSET Messages]
    BY <1>5 DEF Requeue, RequeueScript
  <2> QED
    BY <1>5, <2>1, <2>2, <2>3 DEF Requeue
<1>6. ASSUME NEW c \in Consumers, Pop(c)
      PROVE  QueueInv'
  <2>1. waiting' \in Seq(Messages) /\ LastOf(waiting) \in Messages
    BY <1>6, Popped DEF Pop
  <2>2. processing' \in [Messages -> Nat] /\ held' \in [Consumers -> Messages \cup {None}]
    BY <1>6, <2>1 DEF Pop
  <2>3. Holding'
    BY <1>6, <2>1 DEF Pop
  <2> QED
    BY <1>6, <2>1, <2>2, <2>3 DEF Pop
<1>7. ASSUME NEW c \in Consumers, PopNothing(c)
      PROVE  QueueInv'
  BY <1>7 DEF PopNothing
<1>8. ASSUME NEW c \in Consumers, AddLease(c)
      PROVE  QueueInv'
  BY <1>8 DEF AddLease
<1>9. ASSUME NEW c \in Consumers, Complete(c)
      PROVE  QueueInv'
  <2>0. held[c] \in Messages
    BY <1>9 DEF Complete
  <2>1. processing' \in [Messages -> Nat] /\ settled' \in [Messages -> Nat]
    <3>1. CASE processing[held[c]] > 0
      <4>1. processing[held[c]] - 1 \in Nat /\ settled[held[c]] + 1 \in Nat
        BY <2>0, <3>1
      <4>2. /\ processing' = [processing EXCEPT ![held[c]] = @ - 1]
            /\ settled' = [settled EXCEPT ![held[c]] = @ + 1]
        BY <1>9, <3>1 DEF Complete
      <4> QED
        BY <2>0, <4>1, <4>2
    <3>2. CASE ~(processing[held[c]] > 0)
      BY <1>9, <3>2 DEF Complete
    <3> QED
      BY <3>1, <3>2
  <2> QED
    BY <1>9, <2>1, Zenon DEF Complete
<1>10. ASSUME NEW c \in Consumers, Crash(c)
      PROVE  QueueInv'
  BY <1>10 DEF Crash
<1> QED
  BY <1>1, <1>2, <1>3, <1>4, <1>5, <1>6, <1>7, <1>8, <1>9, <1>10 DEF Next, ConsumerStep

\* Every variable keeps its type, for any messages, consumers and faults.
THEOREM QueueTypeCorrect == Spec => []QueueInv
BY InitInv, StepInv, PTL DEF Spec

-----------------------------------------------------------------------------
(* The refinement. *)

\* What the operators of QueueOps do to the two fields of a queue.
LEMMA BothFields ==
  ASSUME NEW W, NEW P, NEW W1, NEW P1
  PROVE  [[waiting |-> W, inflight |-> P] EXCEPT !.waiting = W1, !.inflight = P1] = [waiting |-> W1, inflight |-> P1]
<1> DEFINE q == [waiting |-> W, inflight |-> P]
<1>1. [q EXCEPT !.waiting = W1] = [waiting |-> W1, inflight |-> P]
  OBVIOUS
<1>2. [q EXCEPT !.waiting = W1, !.inflight = P1] = [[q EXCEPT !.waiting = W1] EXCEPT !.inflight = P1]
  OBVIOUS
<1>3. [[waiting |-> W1, inflight |-> P] EXCEPT !.inflight = P1] = [waiting |-> W1, inflight |-> P1]
  OBVIOUS
<1> QED
  BY <1>1, <1>2, <1>3, Zenon

QueueOf(W, P) == [waiting |-> W, inflight |-> P]
More(f, m) == [f EXCEPT ![m] = @ + 1]
Less(f, m) == [f EXCEPT ![m] = @ - 1]

LEMMA QueueFields ==
  ASSUME NEW W, NEW P, NEW m
  PROVE  /\ QueueOf(W, P).waiting = W /\ QueueOf(W, P).inflight = P
         /\ Push(QueueOf(W, P), m) = QueueOf(More(W, m), P)
         /\ Deliver(QueueOf(W, P), m) = QueueOf(Less(W, m), More(P, m))
         /\ Redeliver(QueueOf(W, P), m) = QueueOf(More(W, m), Less(P, m))
         /\ P[m] > 0 => Settle(QueueOf(W, P), m) = QueueOf(W, Less(P, m))
<1> DEFINE q == [waiting |-> W, inflight |-> P]
<1>1. q.waiting = W /\ q.inflight = P
  OBVIOUS
<1>2. Push(q, m) = [waiting |-> More(W, m), inflight |-> P]
  BY <1>1 DEF Push, More
<1>3. Deliver(q, m) = [q EXCEPT !.waiting = Less(W, m), !.inflight = More(P, m)]
  BY <1>1 DEF Deliver, More, Less
<1>4. Redeliver(q, m) = [q EXCEPT !.waiting = More(W, m), !.inflight = Less(P, m)]
  BY <1>1 DEF Redeliver, More, Less
<1>5. P[m] > 0 => Settle(q, m) = [waiting |-> W, inflight |-> Less(P, m)]
  BY <1>1 DEF Settle, Less
<1>6. Deliver(q, m) = [waiting |-> Less(W, m), inflight |-> More(P, m)]
  BY <1>3, BothFields, Zenon
<1>7. Redeliver(q, m) = [waiting |-> More(W, m), inflight |-> Less(P, m)]
  BY <1>4, BothFields, Zenon
<1> QED
  BY <1>1, <1>2, <1>5, <1>6, <1>7, Zenon DEF QueueOf

\* Each Redis command is a step of the abstract queue or leaves it alone.
LEMMA StepRefines == QueueInv /\ [Next]_vars => [Abstract!QueueNext]_(Abstract!abstractVars)
<1> SUFFICES ASSUME QueueInv, [Next]_vars PROVE [Abstract!QueueNext]_(Abstract!abstractVars)
  OBVIOUS
<1> DEFINE q == QueueOf(Waits, processing)
<1> USE DEF QueueInv
<1>t. processing \in [Messages -> Nat] /\ Waits \in [Messages -> Nat]
  BY WaitsType DEF TypeOK
<1>f. q.waiting = Waits /\ q.inflight = processing
  BY QueueFields, Zenon
<1>q. q' = QueueOf(Waits', processing')
  BY DEF QueueOf
<1>a. /\ Abstract!abstractVars = <<q, produced, settled>>
      /\ Abstract!abstractVars' = <<q', produced', settled'>>
  BY DEF Abstract!abstractVars, Waits, QueueOf
<1>k. ASSUME waiting' = waiting, processing' = processing, produced' = produced, settled' = settled
      PROVE  UNCHANGED Abstract!abstractVars
  BY <1>k, <1>a, Kept
<1>1. CASE UNCHANGED vars
  BY <1>1, <1>k DEF vars
<1>2. ASSUME NEW m \in Messages, PushMessage(m)
      PROVE  Abstract!QueueNext
  <2>1. Waits' = [Waits EXCEPT ![m] = @ + 1]
    BY <1>2, Pushed DEF PushMessage
  <2>2. q' = Push(q, m)
    <3>1. Waits' = More(Waits, m) /\ processing' = processing
      BY <1>2, <2>1 DEF PushMessage, More
    <3> QED
      BY <1>q, <3>1, QueueFields
  <2>3. Abstract!ProduceCopy(m)
    BY <1>2, <2>2 DEF PushMessage, Abstract!ProduceCopy, Abstract!Push, Push, Waits, QueueOf
  <2> QED
    BY <2>3 DEF Abstract!QueueNext
<1>3. ASSUME NEW m \in Messages, Expire(m)
      PROVE  UNCHANGED Abstract!abstractVars
  BY <1>3, <1>k DEF Expire
<1>4. ASSUME NEW c \in Consumers, ScanExpired(c) \/ PopNothing(c) \/ AddLease(c) \/ Crash(c)
      PROVE  UNCHANGED Abstract!abstractVars
  BY <1>4, <1>k DEF ScanExpired, PopNothing, AddLease, Crash
<1>5. ASSUME NEW c \in Consumers, NEW m \in Messages, Requeue(c, m)
      PROVE  [Abstract!QueueNext]_(Abstract!abstractVars)
  <2>1. CASE processing[m] > 0
    <3>1. Waits' = [Waits EXCEPT ![m] = @ + 1]
      BY <1>5, <2>1, Pushed DEF Requeue, RequeueScript
    <3>2. q' = Redeliver(q, m) /\ q.inflight[m] > 0
      <4>1. Waits' = More(Waits, m) /\ processing' = Less(processing, m)
        BY <1>5, <2>1, <3>1 DEF Requeue, RequeueScript, More, Less
      <4>2. q' = Redeliver(q, m)
        BY <1>q, <4>1, QueueFields
      <4> QED
        BY <1>f, <2>1, <4>2
    <3>3. Abstract!RedeliverCopy(m)
      BY <1>5, <2>1, <3>2 DEF Requeue, Abstract!RedeliverCopy, Abstract!Redeliver, Redeliver, Waits, QueueOf
    <3> QED
      BY <3>3 DEF Abstract!QueueNext
  <2>2. CASE ~(processing[m] > 0)
    BY <1>5, <1>k, <2>2 DEF Requeue, RequeueScript
  <2> QED
    BY <2>1, <2>2
<1>6. ASSUME NEW c \in Consumers, Pop(c)
      PROVE  Abstract!QueueNext
  <2> DEFINE m == LastOf(waiting)
  <2>1. m \in Messages /\ Waits[m] > 0 /\ Waits' = [Waits EXCEPT ![m] = @ - 1]
    BY <1>6, Popped DEF Pop
  <2>2. processing' = [processing EXCEPT ![m] = @ + 1]
    BY <1>6 DEF Pop
  <2> HIDE DEF m
  <2>3. q' = Deliver(q, m) /\ q.waiting[m] > 0
    <3>1. Waits' = Less(Waits, m) /\ processing' = More(processing, m)
      BY <2>1, <2>2 DEF More, Less
    <3>2. q' = Deliver(q, m)
      BY <1>q, <3>1, QueueFields
    <3> QED
      BY <1>f, <2>1, <3>2
  <2>4. Abstract!DeliverCopy(m)
    BY <1>6, <2>1, <2>3 DEF Pop, Abstract!DeliverCopy, Abstract!Deliver, Deliver, Waits, QueueOf
  <2> QED
    BY <2>1, <2>4 DEF Abstract!QueueNext
<1>7. ASSUME NEW c \in Consumers, Complete(c)
      PROVE  [Abstract!QueueNext]_(Abstract!abstractVars)
  <2> DEFINE m == held[c]
  <2>0. m \in Messages
    BY <1>7 DEF Complete, Holding
  <2>1. CASE processing[m] > 0
    <3>1. Waits' = Waits
      BY <1>7, Kept DEF Complete
    <3>2. processing' = [processing EXCEPT ![m] = @ - 1] /\ settled' = [settled EXCEPT ![m] = @ + 1]
      BY <1>7, <2>1 DEF Complete
    <3> HIDE DEF m
    <3>3. q' = Settle(q, m) /\ q.inflight[m] > 0
      <4>1. processing' = Less(processing, m)
        BY <3>2 DEF Less
      <4>2. q' = Settle(q, m)
        BY <1>q, <2>1, <3>1, <4>1, QueueFields
      <4> QED
        BY <1>f, <2>1, <4>2
    <3>4. Abstract!SettleCopy(m)
      BY <1>7, <2>1, <3>2, <3>3 DEF Complete, Abstract!SettleCopy, Abstract!Settle, Settle, Waits, QueueOf
    <3> QED
      BY <2>0, <3>4 DEF Abstract!QueueNext
  <2>2. CASE ~(processing[m] > 0)
    BY <1>7, <1>k, <2>2 DEF Complete
  <2> QED
    BY <2>1, <2>2
<1> QED
  BY <1>1, <1>2, <1>3, <1>4, <1>5, <1>6, <1>7 DEF Next, ConsumerStep

LEMMA InitRefines == Init => Abstract!QueueInit
<1> SUFFICES ASSUME Init PROVE Abstract!QueueInit
  OBVIOUS
<1>1. \A m \in Messages : WaitingCopies(m) = 0
  BY FS_EmptySet DEF Init, WaitingCopies
<1> QED
  BY <1>1 DEF Init, Abstract!QueueInit, Abstract!EmptyQueue

\* The Redis code implements the at-least-once queue: with any number of consumers,
\* equal messages, crashes anywhere and stale requeues, every copy that was pushed is
\* waiting, in flight or settled, and is settled only from in flight.
THEOREM QueueImplemented == Spec => ImplementsAtLeastOnceQueue
BY InitRefines, StepRefines, QueueTypeCorrect, PTL DEF Spec, ImplementsAtLeastOnceQueue, Abstract!QueueSpec

-----------------------------------------------------------------------------
(* No message is stranded. *)

\* With one copy of a message allowed, there is at most one, on one of the lists.
Single == mode.copies = 1 => \A m \in Messages : Waits[m] + processing[m] <= 1

\* The modes with unique messages have no crash between the pop and the lease: the
\* window that the two commands of receive leave open is excluded, nothing else.
LeasesFollowPops == \A md \in Modes : md.copies = 1 => "leasing" \notin md.crash

StrandInv == QueueInv /\ Single /\ NothingStranded

LEMMA SingleInit == Init => Single
<1> SUFFICES ASSUME Init PROVE Single
  OBVIOUS
<1>1. \A m \in Messages : WaitingCopies(m) = 0
  BY FS_EmptySet DEF Init, WaitingCopies
<1> QED
  BY <1>1 DEF Init, Single, Waits

\* A message with one copy allowed stays at one copy: what leaves one list joins the
\* other in the same command.
LEMMA SingleStep == QueueInv /\ Single /\ [Next]_vars => Single'
<1> SUFFICES ASSUME QueueInv, Single, [Next]_vars PROVE Single'
  OBVIOUS
<1> SUFFICES ASSUME mode.copies = 1, NEW m \in Messages
             PROVE  Waits'[m] + processing'[m] <= 1
  <2>1. mode' = mode
    BY Zenon DEF vars, Next, ConsumerStep, PushMessage, Expire, ScanExpired, Requeue, Pop, PopNothing,
           AddLease, Complete, Crash
  <2> QED
    BY <2>1 DEF Single
<1> USE DEF QueueInv
<1>t. processing \in [Messages -> Nat] /\ Waits \in [Messages -> Nat]
  BY WaitsType DEF TypeOK
<1>s. \A x \in Messages : Waits[x] + processing[x] <= 1
  BY DEF Single
<1>k. ASSUME waiting' = waiting, processing' = processing
      PROVE  Waits'[m] + processing'[m] <= 1
  BY <1>k, <1>s, Kept
<1>1. CASE UNCHANGED vars
  BY <1>1, <1>k DEF vars
<1>2. ASSUME NEW x \in Messages, PushMessage(x)
      PROVE  Waits'[m] + processing'[m] <= 1
  <2>1. Waits' = [Waits EXCEPT ![x] = @ + 1] /\ processing' = processing
    BY <1>2, Pushed DEF PushMessage
  <2>2. Waits[x] + processing[x] < 1
    BY <1>2 DEF PushMessage, Waits
  <2> QED
    BY <1>t, <1>s, <2>1, <2>2
<1>3. ASSUME NEW x \in Messages, Expire(x)
      PROVE  Waits'[m] + processing'[m] <= 1
  BY <1>3, <1>k DEF Expire
<1>4. ASSUME NEW c \in Consumers, ScanExpired(c) \/ PopNothing(c) \/ AddLease(c) \/ Crash(c)
      PROVE  Waits'[m] + processing'[m] <= 1
  BY <1>4, <1>k DEF ScanExpired, PopNothing, AddLease, Crash
<1>5. ASSUME NEW c \in Consumers, NEW x \in Messages, Requeue(c, x)
      PROVE  Waits'[m] + processing'[m] <= 1
  <2>1. CASE processing[x] > 0
    <3>1. Waits' = [Waits EXCEPT ![x] = @ + 1]
      BY <1>5, <2>1, Pushed DEF Requeue, RequeueScript
    <3>2. processing' = [processing EXCEPT ![x] = @ - 1]
      BY <1>5, <2>1 DEF Requeue, RequeueScript
    <3> QED
      BY <1>t, <1>s, <2>1, <3>1, <3>2
  <2>2. CASE ~(processing[x] > 0)
    BY <1>5, <1>k, <2>2 DEF Requeue, RequeueScript
  <2> QED
    BY <2>1, <2>2
<1>6. ASSUME NEW c \in Consumers, Pop(c)
      PROVE  Waits'[m] + processing'[m] <= 1
  <2> DEFINE x == LastOf(waiting)
  <2>1. x \in Messages /\ Waits[x] > 0 /\ Waits' = [Waits EXCEPT ![x] = @ - 1]
    BY <1>6, Popped DEF Pop
  <2>2. processing' = [processing EXCEPT ![x] = @ + 1]
    BY <1>6 DEF Pop
  <2> HIDE DEF x
  <2> QED
    BY <1>t, <1>s, <2>1, <2>2
<1>7. ASSUME NEW c \in Consumers, Complete(c)
      PROVE  Waits'[m] + processing'[m] <= 1
  <2>1. Waits' = Waits
    BY <1>7, Kept DEF Complete
  <2>2. processing' = processing \/ (processing[held[c]] > 0 /\ processing' = [processing EXCEPT ![held[c]] = @ - 1])
    BY <1>7 DEF Complete
  <2> QED
    BY <1>t, <1>s, <2>1, <2>2
<1> QED
  BY <1>1, <1>2, <1>3, <1>4, <1>5, <1>6, <1>7 DEF Next, ConsumerStep

\* A popped copy stays within reach of recover_expired: the consumer that popped it
\* leases it before anything else happens to it, and a lease leaves the sorted set
\* only in the script that takes the copy off the processing list.
LEMMA StrandStep == LeasesFollowPops /\ StrandInv /\ [Next]_vars => NothingStranded'
<1> SUFFICES ASSUME LeasesFollowPops, StrandInv, [Next]_vars PROVE NothingStranded'
  OBVIOUS
<1> USE DEF StrandInv, QueueInv, TypeOK
<1> SUFFICES ASSUME mode.copies = 1, NEW m \in Messages, processing'[m] > 0
             PROVE  \/ lease'[m] # "none"
                    \/ \E c \in Consumers : pc'[c] = "leasing" /\ held'[c] = m
  <2>1. mode' = mode
    BY Zenon DEF vars, Next, ConsumerStep, PushMessage, Expire, ScanExpired, Requeue, Pop, PopNothing,
           AddLease, Complete, Crash
  <2> QED
    BY <2>1 DEF NothingStranded
<1> DEFINE Safe == lease'[m] # "none" \/ \E c \in Consumers : pc'[c] = "leasing" /\ held'[c] = m
<1>s. \A x \in Messages : Waits[x] + processing[x] <= 1 /\ Waits[x] \in Nat /\ processing[x] \in Nat
  BY WaitsType DEF Single
<1>p. processing[m] \in {0, 1} /\ m \in DOMAIN processing
  <2>1. Waits[m] + processing[m] <= 1 /\ Waits[m] \in Nat /\ processing[m] \in Nat
    BY <1>s
  <2> QED
    BY <2>1
<1>h. processing[m] > 0 => lease[m] # "none" \/ \E c \in Consumers : pc[c] = "leasing" /\ held[c] = m
  BY DEF NothingStranded
<1>c. \A c \in Consumers : pc[c] = "leasing" => held[c] \in Messages
  BY DEF Holding
<1>1. CASE UNCHANGED vars
  BY <1>1, <1>h DEF vars
<1>2. ASSUME NEW x \in Messages, PushMessage(x)
      PROVE  Safe
  BY <1>2, <1>h DEF PushMessage
<1>3. ASSUME NEW x \in Messages, Expire(x)
      PROVE  Safe
  BY <1>3, <1>h DEF Expire
<1>4. ASSUME NEW c \in Consumers, ScanExpired(c)
      PROVE  Safe
  BY <1>4, <1>h DEF ScanExpired
<1>5. ASSUME NEW c \in Consumers, NEW x \in Messages, Requeue(c, x)
      PROVE  Safe
  <2>1. CASE x = m
    <3>2. processing[m] = 0 => processing' = processing
      BY <1>5, <2>1 DEF Requeue, RequeueScript
    <3>3. processing[m] > 0 => processing' = [processing EXCEPT ![m] = @ - 1]
      BY <1>5, <2>1 DEF Requeue, RequeueScript
    <3>4. processing'[m] = 0
      BY <3>2, <3>3, <1>p
    <3> QED
      BY <3>4
  <2>2. CASE x # m
    BY <1>5, <2>2, <1>h DEF Requeue, RequeueScript
  <2> QED
    BY <2>1, <2>2
<1>6. ASSUME NEW c \in Consumers, Pop(c)
      PROVE  Safe
  <2> DEFINE x == LastOf(waiting)
  <2>1. x \in Messages
    BY <1>6, Popped DEF Pop
  <2>2. /\ processing' = [processing EXCEPT ![x] = @ + 1] /\ held' = [held EXCEPT ![c] = x]
        /\ pc[c] = "recovering" /\ pc' = [pc EXCEPT ![c] = "leasing"] /\ lease' = lease
    BY <1>6 DEF Pop
  <2> HIDE DEF x
  <2>3. CASE x = m
    BY <2>2, <2>3
  <2>4. CASE x # m
    BY <2>1, <2>2, <2>4, <1>h
  <2> QED
    BY <2>3, <2>4
<1>7. ASSUME NEW c \in Consumers, PopNothing(c)
      PROVE  Safe
  BY <1>7, <1>h DEF PopNothing
<1>8. ASSUME NEW c \in Consumers, AddLease(c)
      PROVE  Safe
  BY <1>8, <1>h, <1>c DEF AddLease
<1>9. ASSUME NEW c \in Consumers, Complete(c)
      PROVE  Safe
  <2>1. held[c] \in Messages
    BY <1>9 DEF Complete, Holding
  <2>2. CASE held[c] = m
    <3>2. processing[m] = 0 => processing' = processing
      BY <1>9, <2>2 DEF Complete
    <3>3. processing[m] > 0 => processing' = [processing EXCEPT ![m] = @ - 1]
      BY <1>9, <2>2 DEF Complete
    <3>4. processing'[m] = 0
      BY <3>2, <3>3, <1>p
    <3> QED
      BY <3>4
  <2>3. CASE held[c] # m
    BY <1>9, <2>1, <2>3, <1>h DEF Complete
  <2> QED
    BY <2>2, <2>3
<1>10. ASSUME NEW c \in Consumers, Crash(c)
      PROVE  Safe
  <2>1. "leasing" \notin mode.crash
    BY DEF LeasesFollowPops
  <2> QED
    BY <1>10, <2>1, <1>h DEF Crash
<1> QED
  BY <1>1, <1>2, <1>3, <1>4, <1>5, <1>6, <1>7, <1>8, <1>9, <1>10 DEF Next, ConsumerStep

\* No message is lost on the processing list: with unique messages, early expiries,
\* stale receipts and crashes everywhere but in the pop-to-lease window, a copy in flight
\* always has a lease or a consumer that is about to add one.  The window itself is a
\* real loss, which the run leased_queue_pop_crash exhibits.
THEOREM NoMessageStranded ==
  ASSUME LeasesFollowPops
  PROVE  Spec => []NothingStranded
<1>1. Init => StrandInv
  BY InitInv, SingleInit DEF StrandInv, NothingStranded, Init
<1>2. StrandInv /\ [Next]_vars => StrandInv'
  BY StepInv, SingleStep, StrandStep DEF StrandInv
<1>3. StrandInv => NothingStranded
  BY DEF StrandInv
<1> QED
  BY <1>1, <1>2, <1>3, PTL DEF Spec

-----------------------------------------------------------------------------
(***************************************************************************)
(* The safety of CaptureSupervisor, for any pipelines, configurations,     *)
(* generations, packet sizes and budgets.  The lifecycle lock says who may *)
(* own a group that has started; what a step may do to a pipeline, to a    *)
(* group and to a budget then carries the rest of the invariant.           *)
(***************************************************************************)

(* The inductive invariant *)

LineStates == {"new", "launched", "reading", "stopping", "limit", "flushing", "done"}

SupRecords ==
    [stop : BOOLEAN, ctx : BOOLEAN, owner : 0 .. MaxGens, version : 1 .. MaxVersions, gen : Gens]

ControlRecords ==
    [pc : {"idle", "applying", "revoke", "cancel", "join", "install"}, version : 0 .. MaxVersions,
     stops : 0 .. MaxGens]

RunnerRecords ==
    [pc : {"new", "serving", "revoke", "join", "leave", "returned"}, stops : 0 .. MaxGens]

OwnerRecords ==
    [st : {"none", "started", "running", "done"}, revoked : BOOLEAN, cancelled : BOOLEAN,
     ended : BOOLEAN, failed : BOOLEAN, manager : {"running", "stopped"}, writer : {"running", "failed"}]

LineRecords ==
    [st : LineStates, ready : BOOLEAN, latched : BOOLEAN, err : BOOLEAN, records : {0, 1}, lost : {0, 1}]

BudgetRecords == [used : 0 .. BudgetUnits, closed : BOOLEAN, completed : BOOLEAN]

SnapRecords ==
    [pc : {"idle", "sampling", "checked", "answered"}, gen : 0 .. MaxGens, owner : 0 .. MaxGens,
     dead : SUBSET (Gens \X Lines), rows : SUBSET (Gens \X Lines), seen : SUBSET Lines,
     complete : BOOLEAN]

\* Every variable has its type, in full.
TypeInv ==
    /\ desired \in 1 .. MaxVersions
    /\ sup \in SupRecords
    /\ lifecycle \in {"free", "apply", "run"}
    /\ control \in ControlRecords
    /\ control.pc # "idle" => control.version \in 1 .. MaxVersions /\ sup.gen < MaxGens
    /\ control.pc \in {"cancel", "join"} => control.stops \in Gens
    /\ runner \in RunnerRecords
    /\ runner.pc = "join" => runner.stops \in Gens
    /\ owners \in [Gens -> OwnerRecords]
    /\ lines \in [Gens -> [Lines -> LineRecords]]
    /\ budgets \in [Gens -> BudgetRecords]
    /\ snap \in SnapRecords
    /\ snap.pc # "idle" => snap.gen \in Gens
    /\ upsets \in Nat

\* The lifecycle lock is held from the revocation to the installation, or to the
\* end of Run; meanwhile, and outside Run, no group is owned.
LockInv ==
    /\ control.pc \in {"revoke", "cancel", "join", "install"} <=> lifecycle = "apply"
    /\ runner.pc \in {"revoke", "join", "leave"} <=> lifecycle = "run"
    /\ sup.owner \in {NoGroup, sup.gen}
    /\ control.pc \in {"cancel", "join", "install"} => sup.owner = NoGroup
    /\ runner.pc \in {"new", "join", "leave", "returned"} => sup.owner = NoGroup
    /\ sup.ctx => runner.pc \notin {"new", "returned"}
    /\ runner.pc \in {"new", "returned"} => control.pc \notin {"cancel", "join"}

Active(g) == owners[g].st \in {"started", "running"}

\* A group that has started is owned, or the one that Apply or Run waits for.
OwnedInv ==
    \A g \in Gens :
        Active(g) => \/ sup.owner = g
                     \/ control.pc \in {"cancel", "join"} /\ control.stops = g
                     \/ runner.pc = "join" /\ runner.stops = g

Exhausted(b) == b.closed => BudgetUnits - b.used < Max(PacketSizes)

\* A reader that was revoked is not ready; a limit is that of a closed budget;
\* budgets close when they are exhausted; a batch manager stops after the last
\* pipeline or a failure; only a failure loses records.
GroupsInv ==
    \A g \in Gens :
        /\ \A l \in Lines :
            /\ lines[g][l].latched => ~lines[g][l].ready
            /\ lines[g][l].st = "limit" => budgets[g].closed
            /\ lines[g][l].lost > 0 => Faulty(g)
        /\ Exhausted(budgets[g])
        /\ budgets[g].completed => budgets[g].closed
        /\ owners[g].manager = "stopped" => Foreground(g) = {} \/ Faulty(g)
        /\ owners[g].failed => Faulty(g)

\* A snapshot holds rows of its generation, and none of a reader that had
\* stopped before; a reader that had stopped stays so.
SnapInv ==
    /\ snap.pc \in {"sampling", "checked"} =>
        \A g \in Gens, l \in Lines : <<g, l>> \in snap.dead => lines[g][l].latched \/ Halted(g)
    /\ snap.rows \cap snap.dead = {}
    /\ snap.pc = "answered" => snap.dead = {}
    /\ \A row \in snap.rows : row[1] = snap.gen

SupervisorInv == TypeInv /\ LockInv /\ OwnedInv /\ GroupsInv /\ SnapInv

----------------------------------------------------------------------------
(* Types.                                                                  *)

\* The largest packet, as Max defines it.
LEMMA LargestPacket ==
    /\ Max(PacketSizes) \in PacketSizes
    /\ \A n \in PacketSizes : n <= Max(PacketSizes)
BY SupervisorConstants, Zenon DEF Max

LEMMA Constants ==
    /\ MaxVersions \in Nat \ {0} /\ MaxGens \in Nat \ {0} /\ BudgetUnits \in Nat
    /\ PacketSizes \subseteq Nat \ {0} /\ MaxUpsets \in Nat
    /\ Gens = 1 .. MaxGens /\ 1 \in Gens /\ NoGroup = 0
BY SupervisorConstants DEF Gens, NoGroup

LEMMA GroupNumbers == NoGroup \in 0 .. MaxGens /\ \A g \in Gens : g \in 0 .. MaxGens
BY Constants

\* What Reserve leaves is a budget; it never reopens one, closes it only when less
\* than the largest packet is left, and refuses a packet only by closing it.
LEMMA ReserveKeeps ==
    ASSUME NEW b \in BudgetRecords, NEW n \in PacketSizes
    PROVE  /\ Reserve(b, n) \in BudgetRecords
           /\ b.closed => Reserve(b, n).closed
           /\ Exhausted(b) => Exhausted(Reserve(b, n))
           /\ Reserve(b, n).completed = b.completed
           /\ ~(Reserve(b, n).used > b.used) \/ Reserve(b, n).used >= BudgetUnits
                => Reserve(b, n).closed
<1>1. n \in Nat \ {0} /\ n <= Max(PacketSizes) /\ Max(PacketSizes) \in Nat
  BY LargestPacket, Constants, Zenon
<1>2. b.used \in 0 .. BudgetUnits /\ b.closed \in BOOLEAN /\ b.completed \in BOOLEAN
  BY DEF BudgetRecords
<1> DEFINE r == Reserve(b, n)
<1> SUFFICES /\ r \in BudgetRecords
             /\ b.closed => r.closed
             /\ Exhausted(b) => Exhausted(r)
             /\ r.completed = b.completed
             /\ ~(r.used > b.used) \/ r.used >= BudgetUnits => r.closed
  OBVIOUS
<1>3. CASE n > BudgetUnits - b.used
  <2>1. r = [b EXCEPT !.closed = TRUE]  BY <1>3 DEF Reserve
  <2>2. r \in BudgetRecords /\ r.used = b.used /\ r.closed = TRUE /\ r.completed = b.completed
    BY <2>1, Zenon DEF BudgetRecords
  <2> HIDE DEF r
  <2> QED  BY <2>2, <1>1, <1>2, <1>3, Constants DEF Exhausted
<1>4. CASE ~(n > BudgetUnits - b.used)
  <2>1. r = [b EXCEPT !.used = b.used + n, !.closed = b.closed \/ b.used + n >= BudgetUnits]
    BY <1>4 DEF Reserve
  <2>2. b.used + n \in 0 .. BudgetUnits  BY <1>1, <1>2, <1>4, Constants
  <2>3. /\ r.used = b.used + n
        /\ r.closed <=> b.closed \/ b.used + n >= BudgetUnits
        /\ r.completed = b.completed
    BY <2>1, <1>2, Zenon DEF BudgetRecords
  <2>4. r \in BudgetRecords  BY <2>1, <2>2, <1>2, Zenon DEF BudgetRecords
  <2> HIDE DEF r
  <2> QED  BY <2>2, <2>3, <2>4, <1>1, <1>2, <1>4, Constants DEF Exhausted
<1> QED  BY <1>3, <1>4

\* What a step does to the pipelines: at most one of them changes.
LEMMA LineUpdate ==
    ASSUME TypeInv, NEW g \in Gens, NEW l \in Lines, NEW x, SetLine(g, l, x)
    PROVE  /\ lines'[g][l] = x
           /\ \A h \in Gens, m \in Lines : h # g \/ m # l => lines'[h][m] = lines[h][m]
           /\ x \in LineRecords => lines' \in [Gens -> [Lines -> LineRecords]]
BY Zenon DEF TypeInv, SetLine

LEMMA InitTypes == SupervisorInit => TypeInv
BY Constants DEF SupervisorInit, TypeInv, NewOwner, NewLine, NewBudget, NoSnap, SupRecords,
   ControlRecords, RunnerRecords, OwnerRecords, LineRecords, LineStates, BudgetRecords, SnapRecords

\* The steps of the supervisor, of a group, of a pipeline and of a snapshot.
SupervisionStep == ChangeDesired \/ Poll \/ Reload \/ ApplyStep \/ RunStep \/ CancelProcess

AnyGroupStep(g) == GroupStep(g) \/ WriterFails(g)

AnyLineStep(g, l) ==
    \/ LineStep(g, l) \/ TakePacket(g, l) \/ IdleTick(g, l) \/ WindowEnds(g, l)
    \/ OpenFails(g, l) \/ ReaderFails(g, l) \/ PersistFails(g, l)

SnapStep == SnapBegins \/ SnapChecksGroup \/ SnapAnswers \/ \E l \in Lines : SnapSamples(l)

LEMMA StepKinds ==
    ASSUME SupervisorNext
    PROVE  \/ SupervisionStep
           \/ \E g \in Gens : AnyGroupStep(g)
           \/ \E g \in Gens, l \in Lines : AnyLineStep(g, l)
           \/ SnapStep
BY DEF SupervisorNext, SupervisionStep, AnyGroupStep, AnyLineStep, SnapStep

\* What the fields of the supervisor's records may be.
LEMMA Fields ==
    ASSUME TypeInv
    PROVE  /\ sup.owner \in 0 .. MaxGens /\ sup.gen \in Gens /\ sup.stop \in BOOLEAN /\ sup.ctx \in BOOLEAN
           /\ control.pc \in {"idle", "applying", "revoke", "cancel", "join", "install"}
           /\ runner.pc \in {"new", "serving", "revoke", "join", "leave", "returned"}
BY DEF TypeInv, SupRecords, ControlRecords, RunnerRecords

\* Updates of one group's record.
LEMMA OwnerUpdate ==
    ASSUME owners \in [Gens -> OwnerRecords], NEW g \in Gens, NEW y \in OwnerRecords,
           owners' = [owners EXCEPT ![g] = y]
    PROVE  /\ owners' \in [Gens -> OwnerRecords]
           /\ owners'[g] = y
           /\ \A h \in Gens : h # g => owners'[h] = owners[h]
OBVIOUS

LEMMA OwnerFields ==
    ASSUME owners \in [Gens -> OwnerRecords], NEW g \in Gens
    PROVE  /\ [owners[g] EXCEPT !.st = "started"] \in OwnerRecords
           /\ [owners[g] EXCEPT !.st = "started"].st = "started"
           /\ [owners[g] EXCEPT !.revoked = TRUE] \in OwnerRecords
           /\ [owners[g] EXCEPT !.revoked = TRUE].st = owners[g].st
           /\ [owners[g] EXCEPT !.cancelled = TRUE] \in OwnerRecords
           /\ [owners[g] EXCEPT !.cancelled = TRUE].st = owners[g].st
BY Zenon DEF OwnerRecords

----------------------------------------------------------------------------
(* The lifecycle lock and the groups that have started.                    *)

Owned == TypeInv /\ LockInv /\ OwnedInv

LEMMA PollOwned == ASSUME Owned, Poll \/ Reload  PROVE Owned'
<1>1. /\ control.pc = "idle" /\ sup.gen < MaxGens
      /\ control' = [control EXCEPT !.pc = "applying", !.version = desired]
      /\ UNCHANGED <<desired, sup, lifecycle, runner, owners, lines, budgets, snap>>
      /\ upsets' = upsets \/ upsets' = upsets + 1
  BY DEF Poll, Reload, BeginApply, Upset, capturing
<1>2. control \in ControlRecords /\ desired \in 1 .. MaxVersions  BY DEF Owned, TypeInv
<1>3. control' \in ControlRecords /\ control'.pc = "applying" /\ control'.version = desired
  <2>1. desired \in 0 .. MaxVersions  BY <1>2, Constants
  <2> QED  BY <1>1, <1>2, <2>1, Zenon DEF ControlRecords
<1>4. TypeInv'  BY <1>1, <1>2, <1>3 DEF Owned, TypeInv
<1> QED  BY <1>1, <1>3, <1>4 DEF Owned, LockInv, OwnedInv, Active

LEMMA OutsideOwned == ASSUME Owned, ChangeDesired \/ CancelProcess  PROVE Owned'
<1>1. /\ UNCHANGED <<lifecycle, control, runner, owners, lines, budgets, snap, upsets>>
      /\ sup' = sup \/ sup' = [sup EXCEPT !.stop = TRUE]
      /\ desired' = desired \/ (desired < MaxVersions /\ desired' = desired + 1)
  BY DEF ChangeDesired, CancelProcess, capturing
<1>2. sup \in SupRecords /\ desired \in 1 .. MaxVersions  BY DEF Owned, TypeInv
<1>3. sup' \in SupRecords /\ sup'.gen = sup.gen /\ sup'.owner = sup.owner /\ sup'.ctx = sup.ctx
  BY <1>1, <1>2, Zenon DEF SupRecords
<1>4. desired' \in 1 .. MaxVersions  BY <1>1, <1>2, Constants
<1>5. TypeInv'  BY <1>1, <1>3, <1>4 DEF Owned, TypeInv
<1> QED  BY <1>1, <1>3, <1>5 DEF Owned, LockInv, OwnedInv, Active

LEMMA ApplyOwned == ASSUME Owned, ApplyLocks \/ ApplyJoins  PROVE Owned'
<1>0. control \in ControlRecords  BY DEF Owned, TypeInv
<1>1. CASE ApplyLocks
  <2>1. control' \in ControlRecords /\ control'.pc = "revoke" /\ control'.version = control.version
    BY <1>0, <1>1 DEF ApplyLocks, ControlRecords
  <2>2. TypeInv'  BY <1>1, <2>1 DEF Owned, TypeInv, ApplyLocks, capturing
  <2> QED  BY <1>1, <2>1, <2>2 DEF Owned, LockInv, OwnedInv, Active, ApplyLocks, capturing
<1>2. CASE ApplyJoins
  <2>1. control' \in ControlRecords /\ control'.pc = "install" /\ control'.version = control.version
    <3>1. NoGroup \in 0 .. MaxGens  BY Constants
    <3> QED  BY <1>0, <1>2, <3>1, Zenon DEF ApplyJoins, ControlRecords
  <2>2. TypeInv'  BY <1>2, <2>1 DEF Owned, TypeInv, ApplyJoins, capturing
  <2> QED  BY <1>2, <2>1, <2>2 DEF Owned, LockInv, OwnedInv, Active, ApplyJoins, capturing
<1> QED  BY <1>1, <1>2

LEMMA CancelOwned == ASSUME Owned, ApplyCancels  PROVE Owned'
<1>0. control \in ControlRecords /\ owners \in [Gens -> OwnerRecords] /\ control.stops \in Gens
  BY DEF Owned, TypeInv, ApplyCancels
<1>1. /\ control' \in ControlRecords /\ control'.pc = "join" /\ control'.version = control.version
      /\ control'.stops = control.stops
  BY <1>0 DEF ApplyCancels, ControlRecords
<1>2. PICK g \in Gens : g = control.stops  BY <1>0
<1>3. owners' = [owners EXCEPT ![g] = [owners[g] EXCEPT !.cancelled = TRUE]]
  BY <1>2 DEF ApplyCancels
<1>4. owners' \in [Gens -> OwnerRecords] /\ \A h \in Gens : owners'[h].st = owners[h].st
  BY <1>0, <1>3, OwnerUpdate, OwnerFields, Zenon
<1>5. TypeInv'  BY <1>0, <1>1, <1>4 DEF Owned, TypeInv, ApplyCancels
<1> QED  BY <1>1, <1>4, <1>5 DEF Owned, LockInv, OwnedInv, Active, ApplyCancels

\* Whoever revokes the owner keeps every group's state.
LEMMA Revoked ==
    ASSUME Owned, Revoke(sup.owner)
    PROVE  /\ owners' \in [Gens -> OwnerRecords]
           /\ \A h \in Gens : owners'[h].st = owners[h].st
           /\ sup' \in SupRecords /\ sup'.owner = NoGroup /\ sup'.gen = sup.gen /\ sup'.ctx = sup.ctx
<1>0. owners \in [Gens -> OwnerRecords] /\ sup \in SupRecords  BY DEF Owned, TypeInv
<1>1. sup' \in SupRecords /\ sup'.owner = NoGroup /\ sup'.gen = sup.gen /\ sup'.ctx = sup.ctx
  BY <1>0, Constants DEF Revoke, SupRecords
<1>2. CASE sup.owner = NoGroup  BY <1>0, <1>1, <1>2 DEF Revoke
<1>3. CASE sup.owner # NoGroup
  <2>1. PICK g \in Gens : g = sup.owner  BY <1>3, Fields DEF Owned, LockInv
  <2>2. owners' = [owners EXCEPT ![g] = [owners[g] EXCEPT !.revoked = TRUE]]
    BY <1>3, <2>1 DEF Revoke
  <2> QED  BY <1>0, <1>1, <2>2, OwnerUpdate, OwnerFields, Zenon
<1> QED  BY <1>2, <1>3

LEMMA ApplyRevokesOwned == ASSUME Owned, ApplyRevokes  PROVE Owned'
<1>0. control \in ControlRecords /\ sup.owner \in 0 .. MaxGens  BY Fields DEF Owned, TypeInv
<1>1. /\ control' \in ControlRecords /\ control'.version = control.version
      /\ control'.stops = sup.owner
      /\ control'.pc = IF sup.owner = NoGroup THEN "install" ELSE "cancel"
  BY <1>0, Zenon DEF ApplyRevokes, ControlRecords
<1>2. sup.owner = NoGroup \/ sup.owner \in Gens  BY Fields DEF Owned, LockInv
<1>3. Revoke(sup.owner) /\ control.pc = "revoke"  BY DEF ApplyRevokes
<1>4. TypeInv'  BY <1>1, <1>2, <1>3, Revoked DEF Owned, TypeInv, ApplyRevokes
<1>5. LockInv'  BY <1>1, <1>3, Revoked DEF Owned, LockInv, ApplyRevokes
<1>6. OwnedInv'
  BY <1>1, <1>3, Revoked, Constants DEF Owned, LockInv, OwnedInv, Active, ApplyRevokes
<1> QED  BY <1>4, <1>5, <1>6 DEF Owned

LEMMA RunRevokesOwned == ASSUME Owned, RunRevokes  PROVE Owned'
<1>0. runner \in RunnerRecords /\ sup.owner \in 0 .. MaxGens  BY Fields DEF Owned, TypeInv
<1>1. /\ runner' \in RunnerRecords /\ runner'.stops = sup.owner
      /\ runner'.pc = IF sup.owner = NoGroup THEN "leave" ELSE "join"
  BY <1>0, Zenon DEF RunRevokes, RunnerRecords
<1>2. sup.owner = NoGroup \/ sup.owner \in Gens  BY Fields DEF Owned, LockInv
<1>3. Revoke(sup.owner) /\ runner.pc = "revoke"  BY DEF RunRevokes
<1>4. TypeInv'  BY <1>1, <1>2, <1>3, Revoked DEF Owned, TypeInv, RunRevokes
<1>5. LockInv'  BY <1>1, <1>3, Revoked DEF Owned, LockInv, RunRevokes
<1>6. OwnedInv'
  BY <1>1, <1>3, Revoked, Constants DEF Owned, LockInv, OwnedInv, Active, RunRevokes
<1> QED  BY <1>4, <1>5, <1>6 DEF Owned

LEMMA InstallOwned == ASSUME Owned, Install  PROVE Owned'
<1>0. /\ control \in ControlRecords /\ sup \in SupRecords /\ owners \in [Gens -> OwnerRecords]
      /\ control.pc = "install" /\ sup.gen < MaxGens /\ control.version \in 1 .. MaxVersions
      /\ sup.gen \in Gens
  BY Fields DEF Owned, TypeInv, Install
<1>1. PICK n \in Gens : n = sup.gen + 1 /\ n \in 0 .. MaxGens  BY <1>0, Constants
<1>2. /\ control' \in ControlRecords /\ control'.pc = "idle"
  BY <1>0 DEF Install, ControlRecords
<1>3. \/ /\ sup' = [sup EXCEPT !.gen = n, !.version = control.version, !.owner = n]
         /\ owners' = [owners EXCEPT ![n] = [owners[n] EXCEPT !.st = "started"]]
         /\ sup.ctx
      \/ /\ sup' = [sup EXCEPT !.gen = n, !.version = control.version, !.owner = NoGroup]
         /\ owners' = owners
  BY <1>1, Zenon DEF Install, Started
<1>4. sup' \in SupRecords /\ sup'.gen = n /\ sup'.ctx = sup.ctx
  <2>1. NoGroup \in 0 .. MaxGens  BY Constants
  <2> QED  BY <1>0, <1>1, <1>3, <2>1, Zenon DEF SupRecords
<1>5. \/ /\ sup'.owner = n /\ sup.ctx
         /\ \A h \in Gens : h # n => owners'[h] = owners[h]
      \/ sup'.owner = NoGroup /\ owners' = owners
  BY <1>0, <1>3, OwnerUpdate, OwnerFields, Zenon DEF SupRecords
<1>6. owners' \in [Gens -> OwnerRecords]  BY <1>0, <1>3, OwnerUpdate, OwnerFields, Zenon
<1>7. TypeInv'  BY <1>0, <1>2, <1>4, <1>6 DEF Owned, TypeInv, Install
<1>8. LockInv'  BY <1>0, <1>2, <1>4, <1>5 DEF Owned, LockInv, Install
<1>9. OwnedInv'  BY <1>0, <1>2, <1>5, Constants DEF Owned, LockInv, OwnedInv, Active, Install
<1> QED  BY <1>7, <1>8, <1>9 DEF Owned

LEMMA RunStartsOwned == ASSUME Owned, RunStarts  PROVE Owned'
<1>0. /\ runner \in RunnerRecords /\ sup \in SupRecords /\ owners \in [Gens -> OwnerRecords]
      /\ runner.pc = "new" /\ lifecycle = "free"
      /\ sup.gen \in Gens
  BY Fields DEF Owned, TypeInv, RunStarts
<1>1. PICK n \in Gens : n = sup.gen /\ n \in 0 .. MaxGens  BY <1>0, Constants
<1>2. runner' \in RunnerRecords /\ runner'.pc = "serving"  BY <1>0 DEF RunStarts, RunnerRecords
<1>3. \/ /\ sup' = [sup EXCEPT !.ctx = TRUE, !.owner = n]
         /\ owners' = [owners EXCEPT ![n] = [owners[n] EXCEPT !.st = "started"]]
      \/ /\ sup' = [sup EXCEPT !.ctx = TRUE, !.owner = NoGroup]
         /\ owners' = owners
  BY <1>1, Zenon DEF RunStarts, Started
<1>4. sup' \in SupRecords /\ sup'.gen = n
  <2>1. NoGroup \in 0 .. MaxGens  BY Constants
  <2> QED  BY <1>0, <1>1, <1>3, <2>1, Zenon DEF SupRecords
<1>5. \/ /\ sup'.owner = n
         /\ \A h \in Gens : h # n => owners'[h] = owners[h]
      \/ sup'.owner = NoGroup /\ owners' = owners
  BY <1>0, <1>3, OwnerUpdate, OwnerFields, Zenon DEF SupRecords
<1>6. owners' \in [Gens -> OwnerRecords]  BY <1>0, <1>3, OwnerUpdate, OwnerFields, Zenon
<1>7. TypeInv'  BY <1>0, <1>1, <1>2, <1>4, <1>6 DEF Owned, TypeInv, RunStarts
<1>8. LockInv'  BY <1>0, <1>2, <1>4, <1>5 DEF Owned, LockInv, RunStarts
<1>9. OwnedInv'  BY <1>0, <1>2, <1>5, Constants DEF Owned, LockInv, OwnedInv, Active, RunStarts
<1> QED  BY <1>7, <1>8, <1>9 DEF Owned

LEMMA RunOwned == ASSUME Owned, RunLocks \/ RunJoins \/ RunLeaves  PROVE Owned'
<1>0. runner \in RunnerRecords /\ sup \in SupRecords  BY DEF Owned, TypeInv
<1>1. CASE RunLocks
  <2>1. runner' \in RunnerRecords /\ runner'.pc = "revoke"  BY <1>0, <1>1 DEF RunLocks, RunnerRecords
  <2>2. TypeInv'  BY <1>1, <2>1 DEF Owned, TypeInv, RunLocks, capturing
  <2> QED  BY <1>1, <2>1, <2>2 DEF Owned, LockInv, OwnedInv, Active, RunLocks, capturing
<1>2. CASE RunJoins
  <2>1. runner' \in RunnerRecords /\ runner'.pc = "leave"
    <3>1. NoGroup \in 0 .. MaxGens  BY Constants
    <3> QED  BY <1>0, <1>2, <3>1, Zenon DEF RunJoins, RunnerRecords
  <2>2. TypeInv'  BY <1>2, <2>1 DEF Owned, TypeInv, RunJoins, capturing
  <2> QED  BY <1>2, <2>1, <2>2 DEF Owned, LockInv, OwnedInv, Active, RunJoins, capturing
<1>3. CASE RunLeaves
  <2>1. runner' \in RunnerRecords /\ runner'.pc = "returned"  BY <1>0, <1>3 DEF RunLeaves, RunnerRecords
  <2>2. sup' \in SupRecords /\ sup'.owner = sup.owner /\ sup'.gen = sup.gen /\ sup'.ctx = FALSE
    BY <1>0, <1>3, Zenon DEF RunLeaves, SupRecords
  <2>3. TypeInv'  BY <1>3, <2>1, <2>2 DEF Owned, TypeInv, RunLeaves, capturing
  <2> QED  BY <1>3, <2>1, <2>2, <2>3 DEF Owned, LockInv, OwnedInv, Active, RunLeaves, capturing
<1> QED  BY <1>1, <1>2, <1>3

LEMMA SupervisionOwned == ASSUME Owned, SupervisionStep  PROVE Owned'
BY PollOwned, OutsideOwned, ApplyOwned, CancelOwned, ApplyRevokesOwned, InstallOwned, RunStartsOwned,
   RunRevokesOwned, RunOwned DEF SupervisionStep, ApplyStep, RunStep

----------------------------------------------------------------------------
(* What a step may do to a group, to a pipeline and to a budget.           *)

\* Failures and cancellations stay; a group records the failure of a member; the
\* batch manager stops after the pipelines or a recorded failure.
OwnerMove(g) ==
    /\ owners[g].cancelled => owners'[g].cancelled
    /\ owners[g].failed => owners'[g].failed
    /\ owners[g].writer = "failed" => owners'[g].writer = "failed"
    /\ owners'[g].failed => owners[g].failed \/ Faulty(g)
    /\ owners'[g].manager = "stopped" =>
           owners[g].manager = "stopped" \/ Foreground(g) = {} \/ owners[g].failed

\* A pipeline that is done stays as it is, a revoked reader stays revoked, a limit is
\* that of a closed budget, and records are lost to an error or to a stopped manager.
LineMove(g, l) ==
    /\ lines[g][l].st = "done" => lines'[g][l] = lines[g][l]
    /\ lines[g][l].latched => lines'[g][l].latched
    /\ lines'[g][l].latched => \/ ~lines'[g][l].ready
                               \/ lines[g][l].latched /\ (lines'[g][l].ready => lines[g][l].ready)
    /\ lines'[g][l].st = "limit" => lines[g][l].st = "limit" \/ budgets'[g].closed
    /\ lines'[g][l].lost > 0 =>
           \/ lines[g][l].lost > 0
           \/ lines'[g][l].st = "done" /\ lines'[g][l].err
           \/ lines[g][l].st # "done" /\ owners[g].manager = "stopped"

\* A budget closes when it is exhausted and stays closed; it completes when it is
\* closed or one of its pipelines has met the limit.
BudgetMove(g) ==
    /\ budgets[g].closed => budgets'[g].closed
    /\ Exhausted(budgets[g]) => Exhausted(budgets'[g])
    /\ budgets'[g].completed =>
           \/ budgets[g].completed
           \/ budgets[g].closed \/ \E l \in Lines : lines[g][l].st = "limit"

Moves ==
    /\ sup.stop => sup'.stop
    /\ \A g \in Gens : OwnerMove(g) /\ BudgetMove(g)
    /\ \A g \in Gens, l \in Lines : LineMove(g, l)

LEMMA FaultyStays ==
    ASSUME Moves, NEW g \in Gens, Faulty(g)
    PROVE  Faulty(g)'
BY Zenon DEF Moves, OwnerMove, LineMove, Faulty

LEMMA MovesKeepGroups == ASSUME TypeInv, GroupsInv, Moves  PROVE GroupsInv'
<1> SUFFICES ASSUME NEW g \in Gens
             PROVE  (/\ \A l \in Lines :
                        /\ lines[g][l].latched => ~lines[g][l].ready
                        /\ lines[g][l].st = "limit" => budgets[g].closed
                        /\ lines[g][l].lost > 0 => Faulty(g)
                     /\ Exhausted(budgets[g])
                     /\ budgets[g].completed => budgets[g].closed
                     /\ owners[g].manager = "stopped" => Foreground(g) = {} \/ Faulty(g)
                     /\ owners[g].failed => Faulty(g))'
  BY DEF GroupsInv
<1>1. OwnerMove(g) /\ BudgetMove(g) /\ \A l \in Lines : LineMove(g, l)  BY DEF Moves
<1>2. Faulty(g) => Faulty(g)'  BY FaultyStays
<1>3. Foreground(g) = {} => Foreground(g)' = {}  BY <1>1, Zenon DEF Foreground, LineMove
<1>4. ASSUME NEW l \in Lines
      PROVE  (/\ lines[g][l].latched => ~lines[g][l].ready
              /\ lines[g][l].st = "limit" => budgets[g].closed)'
  BY <1>1 DEF GroupsInv, LineMove, BudgetMove
<1>5. ASSUME NEW l \in Lines, lines'[g][l].lost > 0  PROVE Faulty(g)'
  <2>1. CASE lines[g][l].lost > 0  BY <2>1, <1>2 DEF GroupsInv
  <2>2. CASE lines'[g][l].st = "done" /\ lines'[g][l].err  BY <2>2 DEF Faulty
  <2>3. CASE lines[g][l].st # "done" /\ owners[g].manager = "stopped"
    <3>1. Foreground(g) # {}  BY <2>3 DEF Foreground
    <3> QED  BY <2>3, <3>1, <1>2 DEF GroupsInv
  <2> QED  BY <1>1, <1>5, <2>1, <2>2, <2>3 DEF LineMove
<1>6. Exhausted(budgets[g])' /\ (budgets'[g].completed => budgets'[g].closed)
  BY <1>1 DEF GroupsInv, BudgetMove, Exhausted
<1>7. /\ owners'[g].manager = "stopped" => Foreground(g)' = {} \/ Faulty(g)'
      /\ owners'[g].failed => Faulty(g)'
  BY <1>1, <1>2, <1>3 DEF GroupsInv, OwnerMove
<1> QED  BY <1>4, <1>5, <1>6, <1>7

\* A reader that had stopped stays so, whatever happens during a snapshot.
LEMMA MovesKeepSnap == ASSUME TypeInv, SnapInv, Moves, UNCHANGED snap  PROVE SnapInv'
<1>1. ASSUME NEW g \in Gens, Halted(g)  PROVE Halted(g)'
  BY <1>1 DEF Moves, OwnerMove, Halted
<1>2. \A g \in Gens, l \in Lines : lines[g][l].latched => lines'[g][l].latched
  BY DEF Moves, LineMove
<1> QED  BY <1>1, <1>2 DEF SnapInv

\* Steps of the supervisor.
LEMMA SupervisionMoves == ASSUME Owned, SupervisionStep  PROVE Moves /\ UNCHANGED snap
<1>0. owners \in [Gens -> OwnerRecords] /\ sup \in SupRecords /\ sup.owner \in 0 .. MaxGens
  BY Fields DEF Owned, TypeInv
<1>1. UNCHANGED <<lines, budgets, snap>>
  BY DEF SupervisionStep, ApplyStep, RunStep, ChangeDesired, Poll, Reload, BeginApply, CancelProcess,
         ApplyLocks, ApplyRevokes, ApplyCancels, ApplyJoins, Install, RunStarts, RunLocks, RunRevokes,
         RunJoins, RunLeaves, capturing
<1>2. \/ UNCHANGED sup \/ CancelProcess \/ ApplyRevokes \/ RunRevokes
      \/ Install \/ RunStarts \/ RunLeaves
  BY DEF SupervisionStep, ApplyStep, RunStep, ChangeDesired, Poll, Reload, BeginApply,
         ApplyLocks, ApplyCancels, ApplyJoins, RunLocks, RunJoins
<1>3. sup.stop => sup'.stop
  <2>1. CASE CancelProcess \/ ApplyRevokes \/ RunRevokes \/ RunLeaves
    BY <1>0, <2>1 DEF SupRecords, CancelProcess, ApplyRevokes, RunRevokes, RunLeaves, Revoke
  <2>2. CASE Install \/ RunStarts
    BY <1>0, <2>2, Zenon DEF SupRecords, Install, RunStarts
  <2> QED  BY <1>2, <2>1, <2>2
<1>4. \/ UNCHANGED owners
      \/ \E g : \/ owners' = [owners EXCEPT ![g].revoked = TRUE]
                \/ owners' = [owners EXCEPT ![g].cancelled = TRUE]
                \/ owners' = [owners EXCEPT ![g].st = "started"]
  BY DEF SupervisionStep, ApplyStep, RunStep, ChangeDesired, Poll, Reload, BeginApply, CancelProcess,
         ApplyLocks, ApplyRevokes, ApplyCancels, ApplyJoins, Install, RunStarts, RunLocks, RunRevokes,
         RunJoins, RunLeaves, Revoke, Started, capturing
<1>5. \A g \in Gens : OwnerMove(g)
  BY <1>0, <1>4 DEF OwnerMove, OwnerRecords
<1> QED  BY <1>1, <1>3, <1>5 DEF Moves, LineMove, BudgetMove

\* Steps of a group.
LEMMA GroupMoves ==
    ASSUME Owned, NEW g \in Gens, AnyGroupStep(g)
    PROVE  Moves /\ UNCHANGED snap /\ Owned'
<1>0. owners \in [Gens -> OwnerRecords] /\ upsets \in Nat  BY DEF Owned, TypeInv
<1>1. /\ UNCHANGED <<desired, sup, lifecycle, control, runner, lines, budgets, snap>>
      /\ upsets' \in Nat
  BY <1>0 DEF AnyGroupStep, GroupStep, GroupRuns, RecordFailure, ManagerStops, GroupEnds,
         WriterFails, Upset, supervision
<1>2. \E y \in OwnerRecords :
         /\ owners' = [owners EXCEPT ![g] = y]
         /\ y.st \in {"started", "running"} => Active(g)
         /\ y.cancelled = owners[g].cancelled
         /\ owners[g].failed => y.failed
         /\ owners[g].writer = "failed" => y.writer = "failed"
         /\ y.failed => owners[g].failed \/ Faulty(g)
         /\ y.manager = "stopped" =>
                owners[g].manager = "stopped" \/ Foreground(g) = {} \/ owners[g].failed
  <2>1. CASE GroupRuns(g)
    <3>1. owners' = [owners EXCEPT ![g] = [owners[g] EXCEPT !.st = "running"]]
      BY <2>1 DEF GroupRuns
    <3>2. [owners[g] EXCEPT !.st = "running"] \in OwnerRecords  BY <1>0 DEF OwnerRecords
    <3> QED  BY <1>0, <2>1, <3>1, <3>2, Zenon DEF GroupRuns, Active, OwnerRecords
  <2>2. CASE RecordFailure(g)
    <3>1. owners' = [owners EXCEPT ![g] = [owners[g] EXCEPT !.failed = TRUE]]
      BY <2>2 DEF RecordFailure
    <3>2. [owners[g] EXCEPT !.failed = TRUE] \in OwnerRecords  BY <1>0, Zenon DEF OwnerRecords
    <3> QED  BY <1>0, <2>2, <3>1, <3>2, Zenon DEF RecordFailure, Active, OwnerRecords
  <2>3. CASE ManagerStops(g)
    <3>1. owners' = [owners EXCEPT ![g] = [owners[g] EXCEPT !.manager = "stopped"]]
      BY <2>3 DEF ManagerStops
    <3>2. [owners[g] EXCEPT !.manager = "stopped"] \in OwnerRecords  BY <1>0 DEF OwnerRecords
    <3> QED  BY <1>0, <2>3, <3>1, <3>2, Zenon DEF ManagerStops, Active, OwnerRecords
  <2>4. CASE GroupEnds(g)
    <3>1. owners' = [owners EXCEPT ![g] = [owners[g] EXCEPT !.st = "done", !.ended = TRUE, !.revoked = TRUE]]
      BY <1>0, <2>4, Zenon DEF GroupEnds, OwnerRecords
    <3>2. [owners[g] EXCEPT !.st = "done", !.ended = TRUE, !.revoked = TRUE] \in OwnerRecords
      BY <1>0, Zenon DEF OwnerRecords
    <3> QED  BY <1>0, <2>4, <3>1, <3>2, Zenon DEF GroupEnds, Active, OwnerRecords
  <2>5. CASE WriterFails(g)
    <3>1. owners' = [owners EXCEPT ![g] = [owners[g] EXCEPT !.writer = "failed", !.ended = TRUE]]
      BY <1>0, <2>5, Zenon DEF WriterFails, OwnerRecords
    <3>2. [owners[g] EXCEPT !.writer = "failed", !.ended = TRUE] \in OwnerRecords
      BY <1>0, Zenon DEF OwnerRecords
    <3> QED  BY <1>0, <2>5, <3>1, <3>2, Zenon DEF WriterFails, Active, OwnerRecords
  <2> QED  BY <2>1, <2>2, <2>3, <2>4, <2>5 DEF AnyGroupStep, GroupStep
<1>3. PICK y \in OwnerRecords :
         /\ owners' = [owners EXCEPT ![g] = y]
         /\ y.st \in {"started", "running"} => Active(g)
         /\ y.cancelled = owners[g].cancelled
         /\ owners[g].failed => y.failed
         /\ owners[g].writer = "failed" => y.writer = "failed"
         /\ y.failed => owners[g].failed \/ Faulty(g)
         /\ y.manager = "stopped" =>
                owners[g].manager = "stopped" \/ Foreground(g) = {} \/ owners[g].failed
  BY <1>2, Zenon
<1>4. /\ owners' \in [Gens -> OwnerRecords] /\ owners'[g] = y
      /\ \A h \in Gens : h # g => owners'[h] = owners[h]
  BY <1>0, <1>3, OwnerUpdate
<1>5. \A h \in Gens : OwnerMove(h)  BY <1>3, <1>4 DEF OwnerMove
<1>6. Moves  BY <1>1, <1>5, Zenon DEF Moves, LineMove, BudgetMove
<1>7. TypeInv' /\ LockInv'  BY <1>1, <1>4 DEF Owned, TypeInv, LockInv
<1>8. \A h \in Gens : Active(h)' => Active(h)  BY <1>3, <1>4 DEF Active
<1>9. OwnedInv'  BY <1>1, <1>8 DEF Owned, OwnedInv
<1> QED  BY <1>1, <1>6, <1>7, <1>9 DEF Owned

\* Steps of a pipeline, which leave y in its place.
LineBecomes(g, l, y) ==
    /\ y \in LineRecords
    /\ SetLine(g, l, y)
    /\ lines[g][l].st # "done"
    /\ lines[g][l].latched => y.latched
    /\ y.latched => ~y.ready \/ (lines[g][l].latched /\ (y.ready => lines[g][l].ready))
    /\ y.st = "limit" => lines[g][l].st = "limit" \/ budgets'[g].closed
    /\ y.lost > 0 => \/ lines[g][l].lost > 0
                     \/ y.st = "done" /\ y.err
                     \/ owners[g].manager = "stopped"

LEMMA OpenLine ==
    ASSUME TypeInv, NEW g \in Gens, NEW l \in Lines,
           OpenSource(g, l) \/ OpenFails(g, l) \/ MarkReaderStarted(g, l)
    PROVE  \E y : LineBecomes(g, l, y)
<1>0. lines[g][l] \in LineRecords  BY DEF TypeInv
<1> DEFINE x == lines[g][l]
<1>1. CASE OpenSource(g, l)
  <2>1. x.st = "new"  BY <1>1 DEF OpenSource
  <2>2. \/ SetLine(g, l, [x EXCEPT !.st = "done", !.latched = TRUE, !.ready = FALSE])
        \/ SetLine(g, l, [x EXCEPT !.st = "launched"])
    BY <1>1 DEF OpenSource, Ends
  <2>3. SetLine(g, l, [x EXCEPT !.st = "done", !.latched = TRUE, !.ready = FALSE]) =>
          LineBecomes(g, l, [x EXCEPT !.st = "done", !.latched = TRUE, !.ready = FALSE])
    BY <1>0, <2>1, Zenon DEF LineBecomes, LineRecords, LineStates
  <2>4. SetLine(g, l, [x EXCEPT !.st = "launched"]) => LineBecomes(g, l, [x EXCEPT !.st = "launched"])
    BY <1>0, <2>1 DEF LineBecomes, LineRecords, LineStates
  <2> QED  BY <2>2, <2>3, <2>4
<1>2. CASE OpenFails(g, l)
  <2>1. x.st = "new"  BY <1>2 DEF OpenFails
  <2>2. SetLine(g, l, [x EXCEPT !.err = TRUE, !.st = "done", !.latched = TRUE, !.ready = FALSE])
    BY <1>2 DEF OpenFails, Ends
  <2>3. LineBecomes(g, l, [x EXCEPT !.err = TRUE, !.st = "done", !.latched = TRUE, !.ready = FALSE])
    BY <1>0, <2>1, <2>2, Zenon DEF LineBecomes, LineRecords, LineStates
  <2> QED  BY <2>3
<1>3. CASE MarkReaderStarted(g, l)
  <2>1. x.st = "launched"  BY <1>3 DEF MarkReaderStarted
  <2>2. PICK r \in BOOLEAN : /\ SetLine(g, l, [x EXCEPT !.st = "reading", !.ready = r])
                             /\ r => ~x.latched
    BY <1>3, Zenon DEF MarkReaderStarted
  <2>3. LineBecomes(g, l, [x EXCEPT !.st = "reading", !.ready = r])
    BY <1>0, <2>1, <2>2, Zenon DEF LineBecomes, LineRecords, LineStates
  <2> QED  BY <2>3
<1> QED  BY <1>1, <1>2, <1>3

LEMMA ReadLine ==
    ASSUME TypeInv, NEW g \in Gens, NEW l \in Lines,
           IdleTick(g, l) \/ WindowEnds(g, l) \/ ReaderFails(g, l) \/ PersistFails(g, l) \/ Flush(g, l)
    PROVE  \E y : LineBecomes(g, l, y)
<1>0. lines[g][l] \in LineRecords /\ owners[g] \in OwnerRecords  BY DEF TypeInv
<1> DEFINE x == lines[g][l]
<1>1. CASE IdleTick(g, l)
  <2>1. x.st = "reading"  BY <1>1 DEF IdleTick
  <2>2. PICK n \in {0, 1} : /\ SetLine(g, l, [x EXCEPT !.records = 0, !.lost = n])
                            /\ n = x.lost \/ owners[g].manager = "stopped"
    BY <1>0, <1>1, Zenon DEF IdleTick, LineRecords, OwnerRecords
  <2>3. LineBecomes(g, l, [x EXCEPT !.records = 0, !.lost = n])
    BY <1>0, <2>1, <2>2, Zenon DEF LineBecomes, LineRecords, LineStates
  <2> QED  BY <2>3
<1>2. CASE WindowEnds(g, l)
  <2>1. x.st = "reading"  BY <1>2 DEF WindowEnds
  <2>2. SetLine(g, l, [x EXCEPT !.st = "flushing", !.latched = TRUE, !.ready = FALSE])
    BY <1>2 DEF WindowEnds, Joined
  <2>3. LineBecomes(g, l, [x EXCEPT !.st = "flushing", !.latched = TRUE, !.ready = FALSE])
    BY <1>0, <2>1, <2>2, ZenonT(30) DEF LineBecomes, LineRecords, LineStates
  <2> QED  BY <2>3
<1>3. CASE ReaderFails(g, l)
  <2>1. x.st = "reading"  BY <1>3, Zenon DEF ReaderFails
  <2>2. PICK e \in BOOLEAN :
           SetLine(g, l, [x EXCEPT !.st = "stopping", !.err = e, !.latched = TRUE, !.ready = FALSE])
    BY <1>3, Zenon DEF ReaderFails
  <2>3. LineBecomes(g, l, [x EXCEPT !.st = "stopping", !.err = e, !.latched = TRUE, !.ready = FALSE])
    BY <1>0, <2>1, <2>2, Zenon DEF LineBecomes, LineRecords, LineStates
  <2> QED  BY <2>3
<1>4. CASE PersistFails(g, l)
  <2>1. x.st = "reading"  BY <1>4 DEF PersistFails
  <2> DEFINE y == [x EXCEPT !.err = TRUE, !.records = 0, !.lost = 1, !.st = "done", !.latched = TRUE,
                            !.ready = FALSE]
  <2>2. SetLine(g, l, y)  BY <1>4 DEF PersistFails, Ends
  <2>3. y \in LineRecords /\ y.st = "done" /\ y.err /\ y.latched /\ ~y.ready
    BY <1>0, Zenon DEF LineRecords, LineStates
  <2> HIDE DEF y
  <2>4. LineBecomes(g, l, y)  BY <2>1, <2>2, <2>3 DEF LineBecomes
  <2> QED  BY <2>4
<1>5. CASE Flush(g, l)
  <2>1. x.st = "flushing"  BY <1>5 DEF Flush
  <2>2. x.lost \in {0, 1} /\ x.records \in {0, 1}  BY <1>0 DEF LineRecords
  <2>3. \/ SetLine(g, l, [x EXCEPT !.records = 0, !.st = "done", !.latched = TRUE, !.ready = FALSE])
        \/ /\ SetLine(g, l, [x EXCEPT !.records = 0, !.lost = x.records, !.st = "done", !.latched = TRUE,
                                      !.ready = FALSE])
           /\ owners[g].manager = "stopped"
    BY <1>0, <1>5 DEF Flush, Ends, OwnerRecords
  <2>4. ASSUME SetLine(g, l, [x EXCEPT !.records = 0, !.st = "done", !.latched = TRUE, !.ready = FALSE])
        PROVE  LineBecomes(g, l, [x EXCEPT !.records = 0, !.st = "done", !.latched = TRUE, !.ready = FALSE])
    BY <1>0, <2>1, <2>4, Zenon DEF LineBecomes, LineRecords, LineStates
  <2> DEFINE y == [x EXCEPT !.records = 0, !.lost = x.records, !.st = "done", !.latched = TRUE,
                            !.ready = FALSE]
  <2>5. ASSUME SetLine(g, l, y), owners[g].manager = "stopped"  PROVE LineBecomes(g, l, y)
    <3>1. y \in LineRecords /\ y.st = "done" /\ y.latched /\ ~y.ready
      BY <1>0, <2>2, Zenon DEF LineRecords, LineStates
    <3> HIDE DEF y
    <3> QED  BY <2>1, <2>5, <3>1 DEF LineBecomes
  <2> QED  BY <2>3, <2>4, <2>5
<1> QED  BY <1>1, <1>2, <1>3, <1>4, <1>5

\* Updates of one group's budget.
LEMMA BudgetUpdate ==
    ASSUME TypeInv, NEW g \in Gens, NEW b \in BudgetRecords, budgets' = [budgets EXCEPT ![g] = b],
           budgets[g].closed => b.closed,
           Exhausted(budgets[g]) => Exhausted(b),
           b.completed => \/ budgets[g].completed
                          \/ budgets[g].closed \/ \E l \in Lines : lines[g][l].st = "limit"
    PROVE  budgets' \in [Gens -> BudgetRecords] /\ \A h \in Gens : BudgetMove(h)
<1>1. budgets \in [Gens -> BudgetRecords]  BY DEF TypeInv
<1>2. /\ budgets' \in [Gens -> BudgetRecords] /\ budgets'[g] = b
      /\ \A h \in Gens : h # g => budgets'[h] = budgets[h]
  BY <1>1
<1> QED  BY <1>2 DEF BudgetMove

LEMMA TakePacketLine ==
    ASSUME TypeInv, NEW g \in Gens, NEW l \in Lines, TakePacket(g, l)
    PROVE  /\ \E y : LineBecomes(g, l, y)
           /\ budgets' \in [Gens -> BudgetRecords] /\ \A h \in Gens : BudgetMove(h)
<1>0. /\ lines[g][l] \in LineRecords /\ budgets[g] \in BudgetRecords
      /\ budgets \in [Gens -> BudgetRecords]
  BY DEF TypeInv
<1> DEFINE x == lines[g][l]
<1>1. x.st = "reading"  BY DEF TakePacket
<1>2. PICK n \in PacketSizes :
         LET b == Reserve(budgets[g], n)
             accepted == b.used > budgets[g].used
             y == IF accepted THEN [x EXCEPT !.records = 1] ELSE x
         IN  /\ budgets' = [budgets EXCEPT ![g] = b]
             /\ SetLine(g, l, IF ~accepted \/ b.used >= BudgetUnits
                              THEN [y EXCEPT !.st = "limit", !.latched = TRUE, !.ready = FALSE]
                              ELSE y)
  BY Zenon DEF TakePacket
<1> DEFINE b == Reserve(budgets[g], n)
<1>3. /\ b \in BudgetRecords /\ budgets' = [budgets EXCEPT ![g] = b]
      /\ budgets[g].closed => b.closed
      /\ Exhausted(budgets[g]) => Exhausted(b)
      /\ b.completed = budgets[g].completed
      /\ ~(b.used > budgets[g].used) \/ b.used >= BudgetUnits => b.closed
  BY <1>0, <1>2, ReserveKeeps
<1>4. /\ \/ /\ SetLine(g, l, [x EXCEPT !.records = 1, !.st = "limit", !.latched = TRUE, !.ready = FALSE])
            /\ b.closed
         \/ /\ SetLine(g, l, [x EXCEPT !.st = "limit", !.latched = TRUE, !.ready = FALSE])
            /\ b.closed
         \/ SetLine(g, l, [x EXCEPT !.records = 1])
         \/ SetLine(g, l, x)
      /\ budgets'[g] = b
  <2>1. budgets'[g] = b  BY <1>0, <1>3
  <2> HIDE DEF b
  <2> QED  BY <1>2, <1>3, <2>1, Zenon DEF b
<1> HIDE DEF b
<1>5. \A h \in Gens : BudgetMove(h)  BY <1>3, BudgetUpdate, Zenon
<1>6. budgets' \in [Gens -> BudgetRecords]  BY <1>3, BudgetUpdate, Zenon
<1>7. ASSUME SetLine(g, l, [x EXCEPT !.records = 1, !.st = "limit", !.latched = TRUE, !.ready = FALSE]), b.closed
      PROVE  LineBecomes(g, l, [x EXCEPT !.records = 1, !.st = "limit", !.latched = TRUE, !.ready = FALSE])
  BY <1>0, <1>1, <1>4, <1>7, Zenon DEF LineBecomes, LineRecords, LineStates
<1>8. ASSUME SetLine(g, l, [x EXCEPT !.st = "limit", !.latched = TRUE, !.ready = FALSE]), b.closed
      PROVE  LineBecomes(g, l, [x EXCEPT !.st = "limit", !.latched = TRUE, !.ready = FALSE])
  BY <1>0, <1>1, <1>4, <1>8, Zenon DEF LineBecomes, LineRecords, LineStates
<1>9. ASSUME SetLine(g, l, [x EXCEPT !.records = 1])
      PROVE  LineBecomes(g, l, [x EXCEPT !.records = 1])
  BY <1>0, <1>1, <1>9 DEF LineBecomes, LineRecords, LineStates
<1>10. ASSUME SetLine(g, l, x)  PROVE LineBecomes(g, l, x)
  BY <1>0, <1>1, <1>10 DEF LineBecomes, LineRecords, LineStates
<1>11. \E y : LineBecomes(g, l, y)  BY <1>4, <1>7, <1>8, <1>9, <1>10
<1> QED  BY <1>5, <1>6, <1>11

LEMMA FinishedLine ==
    ASSUME TypeInv, NEW g \in Gens, NEW l \in Lines, FinishLine(g, l)
    PROVE  /\ \E y : LineBecomes(g, l, y)
           /\ budgets' \in [Gens -> BudgetRecords] /\ \A h \in Gens : BudgetMove(h)
<1>0. /\ lines[g][l] \in LineRecords /\ budgets[g] \in BudgetRecords
      /\ budgets \in [Gens -> BudgetRecords]
  BY DEF TypeInv
<1> DEFINE x == lines[g][l]
<1>1. x.st \in {"reading", "stopping", "limit"}  BY DEF FinishLine
<1>2. \/ SetLine(g, l, [x EXCEPT !.err = FALSE, !.st = "flushing", !.latched = TRUE, !.ready = FALSE])
      \/ SetLine(g, l, [x EXCEPT !.st = "flushing", !.latched = TRUE, !.ready = FALSE])
  BY DEF FinishLine, Joined
<1>3. ASSUME SetLine(g, l, [x EXCEPT !.err = FALSE, !.st = "flushing", !.latched = TRUE, !.ready = FALSE])
      PROVE  LineBecomes(g, l, [x EXCEPT !.err = FALSE, !.st = "flushing", !.latched = TRUE, !.ready = FALSE])
  BY <1>0, <1>1, <1>3, Zenon DEF LineBecomes, LineRecords, LineStates
<1>4. ASSUME SetLine(g, l, [x EXCEPT !.st = "flushing", !.latched = TRUE, !.ready = FALSE])
      PROVE  LineBecomes(g, l, [x EXCEPT !.st = "flushing", !.latched = TRUE, !.ready = FALSE])
  BY <1>0, <1>1, <1>4, Zenon DEF LineBecomes, LineRecords, LineStates
<1>5. \/ UNCHANGED budgets
      \/ /\ x.st = "limit" \/ budgets[g].closed
         /\ budgets' = [budgets EXCEPT ![g] = [budgets[g] EXCEPT !.completed = TRUE]]
  BY DEF FinishLine
<1>6. CASE UNCHANGED budgets  BY <1>0, <1>2, <1>3, <1>4, <1>6 DEF BudgetMove
<1>7. CASE /\ x.st = "limit" \/ budgets[g].closed
           /\ budgets' = [budgets EXCEPT ![g] = [budgets[g] EXCEPT !.completed = TRUE]]
  <2> DEFINE b == [budgets[g] EXCEPT !.completed = TRUE]
  <2>1. b \in BudgetRecords /\ b.closed = budgets[g].closed /\ b.used = budgets[g].used
    BY <1>0, Zenon DEF BudgetRecords
  <2>2. budgets' = [budgets EXCEPT ![g] = b]  BY <1>7
  <2> HIDE DEF b
  <2>3. Exhausted(budgets[g]) => Exhausted(b)  BY <2>1 DEF Exhausted
  <2>4. budgets' \in [Gens -> BudgetRecords] /\ \A h \in Gens : BudgetMove(h)
    BY <1>7, <2>1, <2>2, <2>3, BudgetUpdate, Zenon
  <2> QED  BY <2>4, <1>2, <1>3, <1>4
<1> QED  BY <1>5, <1>6, <1>7

LEMMA PipelineMoves ==
    ASSUME Owned, NEW g \in Gens, NEW l \in Lines, AnyLineStep(g, l)
    PROVE  Moves /\ UNCHANGED snap /\ Owned'
<1>0. owners \in [Gens -> OwnerRecords] /\ upsets \in Nat /\ TypeInv  BY DEF Owned, TypeInv
<1>1. /\ UNCHANGED <<desired, sup, lifecycle, control, runner, snap>>
      /\ upsets' \in Nat
  <2>1. CASE OpenSource(g, l) \/ MarkReaderStarted(g, l) \/ FinishLine(g, l) \/ Flush(g, l)
    BY <2>1, <1>0 DEF OpenSource, MarkReaderStarted, FinishLine, Flush, supervision
  <2>2. CASE TakePacket(g, l) \/ IdleTick(g, l) \/ WindowEnds(g, l)
    BY <2>2, <1>0, Zenon DEF TakePacket, IdleTick, WindowEnds, supervision
  <2>3. CASE OpenFails(g, l) \/ ReaderFails(g, l) \/ PersistFails(g, l)
    <3>1. UNCHANGED <<desired, sup, lifecycle, control, runner, snap>>
      BY <2>3, ZenonT(30) DEF OpenFails, ReaderFails, PersistFails, supervision
    <3>2. upsets' = upsets + 1  BY <2>3, Zenon DEF OpenFails, ReaderFails, PersistFails, Upset
    <3> QED  BY <1>0, <3>1, <3>2
  <2> QED  BY <2>1, <2>2, <2>3 DEF AnyLineStep, LineStep
<1>2. UNCHANGED owners \/ owners' = [owners EXCEPT ![g].ended = TRUE]
  <2>1. CASE OpenSource(g, l) \/ OpenFails(g, l)  BY <2>1 DEF OpenSource, OpenFails, Ends
  <2>2. CASE Flush(g, l)  BY <2>2 DEF Flush, Ends
  <2>3. CASE PersistFails(g, l)  BY <2>3 DEF PersistFails, Ends
  <2>4. CASE \/ MarkReaderStarted(g, l) \/ FinishLine(g, l) \/ TakePacket(g, l)
             \/ IdleTick(g, l) \/ WindowEnds(g, l) \/ ReaderFails(g, l)
    BY <2>4, Zenon DEF MarkReaderStarted, FinishLine, TakePacket, IdleTick, WindowEnds, ReaderFails
  <2> QED  BY <2>1, <2>2, <2>3, <2>4 DEF AnyLineStep, LineStep
<1>3. /\ owners' \in [Gens -> OwnerRecords]
      /\ \A h \in Gens : OwnerMove(h) /\ owners'[h].st = owners[h].st
  <2>1. CASE UNCHANGED owners  BY <2>1, <1>0 DEF OwnerMove
  <2>2. CASE owners' = [owners EXCEPT ![g].ended = TRUE]
    <3> DEFINE y == [owners[g] EXCEPT !.ended = TRUE]
    <3>1. owners' = [owners EXCEPT ![g] = y]  BY <2>2
    <3>2. /\ y \in OwnerRecords /\ y.st = owners[g].st /\ y.cancelled = owners[g].cancelled
          /\ y.failed = owners[g].failed /\ y.writer = owners[g].writer /\ y.manager = owners[g].manager
      BY <1>0, Zenon DEF OwnerRecords
    <3> HIDE DEF y
    <3> QED  BY <1>0, <3>1, <3>2, OwnerUpdate DEF OwnerMove
  <2> QED  BY <1>2, <2>1, <2>2
<1>4. TakePacket(g, l) \/ FinishLine(g, l) \/ UNCHANGED budgets
  <2>1. ASSUME \/ OpenSource(g, l) \/ OpenFails(g, l) \/ MarkReaderStarted(g, l) \/ Flush(g, l)
        PROVE UNCHANGED budgets
    BY <2>1 DEF OpenSource, OpenFails, MarkReaderStarted, Flush
  <2>2. ASSUME \/ IdleTick(g, l) \/ WindowEnds(g, l) \/ ReaderFails(g, l) \/ PersistFails(g, l)
        PROVE UNCHANGED budgets
    BY <2>2, Zenon DEF IdleTick, WindowEnds, ReaderFails, PersistFails
  <2> QED  BY <2>1, <2>2 DEF AnyLineStep, LineStep
<1>5. budgets' \in [Gens -> BudgetRecords] /\ \A h \in Gens : BudgetMove(h)
  <2>1. CASE UNCHANGED budgets  BY <2>1, <1>0 DEF BudgetMove, TypeInv
  <2> QED  BY <1>0, <1>4, <2>1, TakePacketLine, FinishedLine
<1>6. PICK y : LineBecomes(g, l, y)
  BY <1>0, TakePacketLine, FinishedLine, OpenLine, ReadLine DEF AnyLineStep, LineStep
<1>7. /\ lines'[g][l] = y /\ lines' \in [Gens -> [Lines -> LineRecords]]
      /\ \A h \in Gens, m \in Lines : h # g \/ m # l => lines'[h][m] = lines[h][m]
  BY <1>0, <1>6, LineUpdate, Zenon DEF LineBecomes
<1>8. LineMove(g, l)  BY <1>6, <1>7, Zenon DEF LineBecomes, LineMove
<1>9. \A h \in Gens, m \in Lines : LineMove(h, m)  BY <1>7, <1>8 DEF LineMove
<1>10. Moves  BY <1>1, <1>3, <1>5, <1>9, Zenon DEF Moves
<1>11. TypeInv'  BY <1>1, <1>3, <1>5, <1>7, Zenon DEF Owned, TypeInv
<1>12. LockInv' /\ OwnedInv'  BY <1>1, <1>3 DEF Owned, LockInv, OwnedInv, Active
<1> QED  BY <1>1, <1>10, <1>11, <1>12 DEF Owned

\* A snapshot's steps change nothing else.
LEMMA SnapMoves ==
    ASSUME SupervisorInv, SnapStep
    PROVE  Owned' /\ Moves /\ SnapInv'
<1>1. UNCHANGED <<desired, sup, lifecycle, control, runner, owners, lines, budgets, upsets>>
  BY Zenon DEF SnapStep, SnapBegins, SnapSamples, SnapChecksGroup, SnapAnswers, supervision, capturing
<1>2. Moves  BY <1>1, Zenon DEF Moves, OwnerMove, LineMove, BudgetMove
<1>3. \A g \in Gens : Halted(g)' <=> Halted(g)  BY <1>1 DEF Halted
<1>4. snap \in SnapRecords /\ (snap.pc # "idle" => snap.gen \in Gens) /\ sup.gen \in Gens /\ sup.owner \in 0 .. MaxGens
  BY Fields DEF SupervisorInv, TypeInv
<1> DEFINE Good == snap' \in SnapRecords /\ snap'.gen \in Gens /\ SnapInv'
<1>5. ASSUME SnapBegins  PROVE Good
  <2> DEFINE d == DeadLines
  <2>1. d \subseteq Gens \X Lines  BY DEF DeadLines
  <2>2. \A g \in Gens, l \in Lines : <<g, l>> \in d => lines[g][l].latched \/ Halted(g)
    BY DEF DeadLines
  <2>3. PICK c \in BOOLEAN :
           snap' = [pc |-> "sampling", gen |-> sup.gen, owner |-> sup.owner, dead |-> d, rows |-> {},
                    seen |-> {}, complete |-> c]
    BY <1>5, ZenonT(30) DEF SnapBegins, NoSnap, GroupRunning
  <2> HIDE DEF d
  <2>4. sup.gen \in 0 .. MaxGens  BY <1>4, Constants
  <2>5. snap' \in SnapRecords /\ snap'.gen \in Gens  BY <1>4, <2>1, <2>3, <2>4 DEF SnapRecords
  <2>6. SnapInv'  BY <1>1, <1>3, <2>2, <2>3 DEF SnapInv
  <2> QED  BY <2>5, <2>6
<1>6. ASSUME NEW l \in Lines, SnapSamples(l)  PROVE Good
  <2>1. PICK g \in Gens : g = snap.gen  BY <1>4, <1>6 DEF SnapSamples
  <2>2. \E r : /\ snap' = [snap EXCEPT !.seen = snap.seen \cup {l}, !.rows = r]
               /\ r = snap.rows \/ (r = snap.rows \cup {<<g, l>>} /\ lines[g][l].ready /\ ~Halted(g))
    <3>1. CASE lines[g][l].ready /\ ~Halted(g) /\ ~budgets[g].closed  BY <1>6, <2>1, <3>1, Zenon DEF SnapSamples
    <3>2. CASE ~(lines[g][l].ready /\ ~Halted(g) /\ ~budgets[g].closed)  BY <1>6, <2>1, <3>2, ZenonT(30) DEF SnapSamples
    <3> QED  BY <3>1, <3>2, Zenon
  <2>3. PICK r : /\ snap' = [snap EXCEPT !.seen = snap.seen \cup {l}, !.rows = r]
                 /\ r = snap.rows \/ (r = snap.rows \cup {<<g, l>>} /\ lines[g][l].ready /\ ~Halted(g))
    BY <2>2, Zenon
  <2>4. snap.rows \subseteq Gens \X Lines /\ snap.dead \subseteq Gens \X Lines  BY <1>4 DEF SnapRecords
  <2>5. r \subseteq Gens \X Lines  BY <2>3, <2>4
  <2>6. /\ snap' \in SnapRecords /\ snap'.pc = snap.pc /\ snap'.gen = snap.gen /\ snap'.rows = r
        /\ snap'.dead = snap.dead
    BY <1>4, <2>3, <2>5, Zenon DEF SnapRecords
  <2>7. snap.pc = "sampling"  BY <1>6 DEF SnapSamples
  <2>8. r \cap snap.dead = {}
    <3>1. CASE r = snap.rows  BY <3>1 DEF SupervisorInv, SnapInv
    <3>2. CASE r = snap.rows \cup {<<g, l>>} /\ lines[g][l].ready /\ ~Halted(g)
      <4>1. <<g, l>> \notin snap.dead  BY <2>7, <3>2 DEF SupervisorInv, SnapInv, GroupsInv
      <4> QED  BY <3>2, <4>1 DEF SupervisorInv, SnapInv
    <3> QED  BY <2>3, <3>1, <3>2
  <2>9. \A row \in r : row[1] = snap.gen  BY <2>1, <2>3 DEF SupervisorInv, SnapInv
  <2>10. SnapInv'  BY <1>1, <1>3, <2>6, <2>7, <2>8, <2>9 DEF SupervisorInv, SnapInv
  <2> QED  BY <2>1, <2>6, <2>10
<1>7. ASSUME SnapChecksGroup  PROVE Good
  <2>1. PICK c \in BOOLEAN : snap' = [snap EXCEPT !.pc = "checked", !.complete = c]
    <3>1. snap.complete \in BOOLEAN  BY <1>4 DEF SnapRecords
    <3> QED  BY <1>7, <3>1, Zenon DEF SnapChecksGroup
  <2>2. /\ snap' \in SnapRecords /\ snap'.pc = "checked" /\ snap'.gen = snap.gen /\ snap'.rows = snap.rows
        /\ snap'.dead = snap.dead
    BY <1>4, <2>1, Zenon DEF SnapRecords
  <2>3. snap.pc = "sampling"  BY <1>7 DEF SnapChecksGroup
  <2> QED  BY <1>1, <1>3, <1>4, <2>2, <2>3 DEF SupervisorInv, SnapInv
<1>8. ASSUME SnapAnswers  PROVE Good
  <2>1. \E c \in BOOLEAN : snap' = SnapAnswer(c) /\ (c => snap.gen = sup.gen)
    <3>1. snap.complete \in BOOLEAN  BY <1>4 DEF SnapRecords
    <3> QED  BY <1>8, <3>1, Zenon DEF SnapAnswers
  <2>2. PICK c \in BOOLEAN : snap' = SnapAnswer(c) /\ (c => snap.gen = sup.gen)  BY <2>1
  <2>3. PICK r : r = (IF c THEN snap.rows ELSE {})  BY Zenon
  <2>4. r \cap snap.dead = {} /\ r \subseteq Gens \X Lines /\ \A row \in r : row[1] = sup.gen
    BY <1>4, <2>2, <2>3 DEF SupervisorInv, SnapInv, SnapRecords
  <2>5. snap' = [pc |-> "answered", gen |-> sup.gen, owner |-> NoGroup, dead |-> {}, rows |-> r,
                 seen |-> {}, complete |-> c]
    BY <2>2, <2>3, <2>4, Zenon DEF SnapAnswer, NoSnap
  <2>6. sup.gen \in 0 .. MaxGens /\ NoGroup \in 0 .. MaxGens  BY <1>4, GroupNumbers, Zenon
  <2>7. snap' \in SnapRecords /\ snap'.gen \in Gens  BY <1>4, <2>4, <2>5, <2>6 DEF SnapRecords
  <2>8. SnapInv'
    <3>1. snap'.pc = "answered" /\ snap'.gen = sup.gen /\ snap'.dead = {} /\ snap'.rows = r  BY <2>5
    <3> QED  BY <2>4, <3>1 DEF SnapInv
  <2> QED  BY <2>7, <2>8
<1>9. Good  BY <1>5, <1>6, <1>7, <1>8 DEF SnapStep
<1>10. Owned'  BY <1>1, <1>9 DEF SupervisorInv, Owned, TypeInv, LockInv, OwnedInv, Active
<1> QED  BY <1>2, <1>9, <1>10

----------------------------------------------------------------------------
(* Results.                                                                *)

LEMMA SupervisorInvHolds == SupervisorSpec => []SupervisorInv
<1>1. SupervisorInit => SupervisorInv
  <2> SUFFICES ASSUME SupervisorInit  PROVE SupervisorInv  OBVIOUS
  <2>1. TypeInv  BY InitTypes
  <2>2. LockInv /\ SnapInv  BY DEF SupervisorInit, LockInv, SnapInv, NoSnap
  <2>3. OwnedInv  BY Zenon DEF SupervisorInit, OwnedInv, Active, NewOwner
  <2>4. GroupsInv
    BY DEF SupervisorInit, GroupsInv, NewOwner, NewLine, NewBudget, Exhausted, Faulty, Foreground
  <2> QED  BY <2>1, <2>2, <2>3, <2>4 DEF SupervisorInv
<1>2. ASSUME SupervisorInv, [SupervisorNext]_supervisorVars  PROVE SupervisorInv'
  <2>0. Owned  BY <1>2 DEF SupervisorInv, Owned
  <2>1. CASE SupervisorNext
    <3>1. Owned' /\ Moves /\ (UNCHANGED snap \/ SnapInv')
      BY <1>2, <2>0, <2>1, StepKinds, SupervisionOwned, SupervisionMoves, GroupMoves, PipelineMoves, SnapMoves
    <3>2. GroupsInv' /\ SnapInv'
      BY <1>2, <3>1, MovesKeepGroups, MovesKeepSnap DEF SupervisorInv
    <3> QED  BY <3>1, <3>2 DEF SupervisorInv, Owned
  <2>2. CASE UNCHANGED supervisorVars
    BY <1>2, <2>2, Zenon DEF supervisorVars, SupervisorInv, TypeInv, LockInv, OwnedInv, Active, GroupsInv,
       Faulty, Foreground, SnapInv, Halted
  <2> QED  BY <1>2, <2>1, <2>2
<1> QED  BY <1>1, <1>2, PTL DEF SupervisorSpec

\* Two groups never capture at the same time, and when Run has returned nothing
\* captures: the lifecycle lock orders Apply and Run, and each of them waits for the
\* group it has revoked before it lets go of the lock.
THEOREM OneGroupAtATime == SupervisorSpec => []OneGroupCaptures
<1>1. SupervisorInv => OneGroupCaptures
  <2> SUFFICES ASSUME SupervisorInv  PROVE OneGroupCaptures  OBVIOUS
  <2>1. ASSUME NEW g \in Gens, NEW h \in Gens, Active(g), Active(h)  PROVE g = h
    BY <2>1, Constants DEF SupervisorInv, LockInv, OwnedInv
  <2>2. ASSUME runner.pc = "returned", NEW g \in Gens, Active(g)  PROVE FALSE
    BY <2>2, Constants DEF SupervisorInv, LockInv, OwnedInv
  <2> QED  BY <2>1, <2>2 DEF OneGroupCaptures, Active
<1> QED  BY <1>1, SupervisorInvHolds, PTL

\* A readiness row is of the generation it is shown under, and of a reader that had
\* not stopped when the snapshot was begun: readers that stop stay stopped.
THEOREM ReadinessHolds == SupervisorSpec => []ReadinessIsTrue
<1>1. SupervisorInv => ReadinessIsTrue  BY DEF SupervisorInv, SnapInv, ReadinessIsTrue
<1> QED  BY <1>1, SupervisorInvHolds, PTL

\* Unless a member fails, what a pipeline flushes reaches the batch manager; and jobs
\* are completed only when their budget is exhausted to within less than a packet.
THEOREM CapturesComplete == SupervisorSpec => []CaptureIsComplete
<1>1. SupervisorInv => CaptureIsComplete
  <2> SUFFICES ASSUME SupervisorInv  PROVE CaptureIsComplete  OBVIOUS
  <2>1. FlushedInTime /\ CompletionMeansExhausted
    BY DEF SupervisorInv, GroupsInv, FlushedInTime, CompletionMeansExhausted, Exhausted
  <2>2. \A g \in Gens : /\ owners[g].st \in {"none", "started", "running", "done"}
                        /\ budgets[g].used \in 0 .. BudgetUnits
    BY DEF SupervisorInv, TypeInv, OwnerRecords, BudgetRecords
  <2>3. \A g \in Gens, l \in Lines : lines[g][l].st \in LineStates
    BY DEF SupervisorInv, TypeInv, LineRecords
  <2>4. snap.pc \in {"idle", "sampling", "checked", "answered"}
    BY DEF SupervisorInv, TypeInv, SnapRecords
  <2>5. SupervisorTypeOK
    BY <2>2, <2>3, <2>4, Fields DEF SupervisorInv, TypeInv, SupRecords, LineStates, SupervisorTypeOK
  <2> QED  BY <2>1, <2>5 DEF CaptureIsComplete
<1> QED  BY <1>1, SupervisorInvHolds, PTL
=============================================================================
