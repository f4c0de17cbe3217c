---------------------------- MODULE AIRunsProofs ----------------------------
(***************************************************************************)
(* The safety of AIRuns, for any runs, workers, candidates, drafts and     *)
(* reviewers, and any number of crashes, faults and expired leases.        *)
(***************************************************************************)
EXTENDS AIRuns, NaturalsInduction, WellFoundedInduction, TLAPS

Kinds == {"plain", "report", "historical"}
Statuses == {"QUEUED", "PREPARING", "ANALYZING", "VALIDATING", "COMPLETED", "FAILED", "CANCELLED"}
Transitions == Statuses \X (AIWorkers \cup {"api"})
Runs == [kind : Kinds, transitions : Seq(Transitions) \ {<< >>}, snapshot : Nat, answered : BOOLEAN]

\* The tables, the Redis keys and the requests.
TablesInv ==
    /\ airuns \in [RunKeys -> Runs \cup {NoRun}]
    /\ \A k \in RunKeys : airuns[k].kind = "plain" => CandidateCount > 0
    /\ \A a \in assessments : /\ a = [key |-> a.key, cand |-> a.cand, copy |-> a.copy]
                              /\ a.key \in RunKeys /\ airuns[a.key] # NoRun /\ a.cand \in 1..CandidateCount
                              /\ airuns[a.key].kind = "historical" => a.copy = 0
    /\ \A d \in drafts : /\ d = [of |-> d.of, kind |-> d.kind, n |-> d.n, review |-> d.review]
                         /\ d.of \in assessments /\ d.review \in {"PENDING", "APPROVED", "REJECTED"}
    /\ jobThere \in BOOLEAN
    /\ aiLeases \in SUBSET RunKeys
    /\ dispatching \in SUBSET RunKeys /\ unsent \in SUBSET RunKeys

ListsInv == aiQueue \in Seq(RunKeys) /\ aiProcessing \in Seq(RunKeys)

ReviewsInv ==
    /\ DOMAIN reviewing = Analysts
    /\ \A a \in Analysts :
          \/ reviewing[a] = Idling
          \/ LET d == reviewing[a].draft
             IN  /\ reviewing[a].at = "decided"
                 /\ d = [of |-> d.of, kind |-> d.kind, n |-> d.n, review |-> d.review]
                 /\ d.review \in {"APPROVED", "REJECTED"}

\* The candidate has an assessment with all its drafts.
Whole(k, c) ==
    \E a \in assessments : /\ a.key = k /\ a.cand = c
                           /\ \A kind \in Drafts : \E d \in drafts : d.of = a /\ d.kind = kind

-----------------------------------------------------------------------------
(* What a worker holds.                                                    *)

\* The envelope only.
Envelope(e) == /\ DOMAIN e = {"at", "key"} /\ e.key \in RunKeys
               /\ e.at \in {"popped", "claimed", "ack"}

\* A run it has read.
Begun(e) ==
    /\ DOMAIN e = {"at", "key", "run", "pos", "target", "kept", "copy", "missing"} /\ e.key \in RunKeys
    /\ e.run \in Runs /\ e.pos \in Nat
    /\ e.at \in {"save", "model", "assess", "list", "draft", "loop", "retained", "ack"}
    /\ e.target \in {"PREPARING", "ANALYZING", "VALIDATING", "COMPLETED", "FAILED", "CANCELLED"}

\* Where a worker may be with each kind of run, and at which candidate.
InRange(n) == n >= 1 /\ n <= CandidateCount
ReportPlace(e) ==
    /\ e.at \in {"save", "model", "ack"}
    /\ e.at = "save" /\ e.target = "COMPLETED" => e.run.answered
PlainPlace(e) ==
    /\ CandidateCount > 0 /\ e.at \in {"save", "model", "assess", "draft", "ack"}
    /\ e.at \in {"model", "assess", "draft"} => InRange(e.pos)
    /\ e.at = "save" => /\ e.target = "PREPARING" => e.pos = 0
                        /\ e.target = "ANALYZING" => e.pos < CandidateCount
                        /\ e.target = "VALIDATING" => InRange(e.pos)
                        /\ e.target = "COMPLETED" => e.pos = CandidateCount
HistoricalPlace(e) ==
    /\ e.copy = 0
    /\ e.at \in {"model", "assess", "list", "draft"} => InRange(e.pos)
    /\ e.at = "loop" => e.pos >= 1
    /\ e.at = "save" => /\ e.target = "PREPARING" => e.pos = 0
                        /\ e.target = "ANALYZING" => e.pos <= CandidateCount
                        /\ e.target = "VALIDATING" => InRange(e.pos) \/ CandidateCount = 0
                        /\ e.target = "COMPLETED" => e.pos > CandidateCount \/ CandidateCount = 0
Placed(e) ==
    /\ e.run.kind = "report" => ReportPlace(e)
    /\ e.run.kind = "plain" => PlainPlace(e)
    /\ e.run.kind = "historical" => HistoricalPlace(e)

\* The candidates it is done with.
Passed(e, c) ==
    \/ c < e.pos
    \/ c = e.pos /\ e.run.kind = "plain" /\ e.at = "save" /\ e.target \in {"ANALYZING", "COMPLETED"}

AssessmentOf(e) == [key |-> e.key, cand |-> e.pos, copy |-> e.copy]

\* A worker that has saved PREPARING goes on to the first candidate.
LEMMA PlacedFirst ==
  ASSUME NEW x, NEW e, Placed(x), x.at = "save", x.target = "PREPARING", e.at = "save", e.target = "ANALYZING",
         e.run.kind = x.run.kind, e.pos = x.pos, e.copy = x.copy
  PROVE  Placed(e)
BY AIConstants DEF Placed, ReportPlace, PlainPlace, HistoricalPlace

\* Going to the model does not pass a candidate.
LEMMA NoneSkipped ==
  ASSUME NEW x, NEW e, x.pos \in Nat, x.at = "save", x.target = "ANALYZING", x.run.kind \in {"plain", "historical"},
         e.at # "save", e.pos = (IF x.run.kind = "historical" THEN x.pos ELSE x.pos + 1),
         NEW c \in 1..CandidateCount, Passed(e, c)
  PROVE  Passed(x, c)
BY AIConstants DEF Passed

\* Nor does having prepared.
LEMMA NoneReached ==
  ASSUME NEW x, NEW e, Placed(x), x.pos \in Nat, x.at = "save", x.target = "PREPARING",
         e.run.kind = x.run.kind, e.pos = x.pos, NEW c \in 1..CandidateCount, Passed(e, c)
  PROVE  Passed(x, c)
BY AIConstants DEF Passed, Placed, PlainPlace

\* They say nothing about the tables.
LEMMA PlacesStay ==
  ASSUME NEW e, Begun(e), Placed(e)
  PROVE  Begun(e)' /\ Placed(e)'
BY DEF Begun, Placed, ReportPlace, PlainPlace, HistoricalPlace, InRange

\* What it has written is there, unless the job was deleted.
Written(e) ==
    /\ e.run.kind # "report" => \A c \in 1..CandidateCount : Passed(e, c) => Whole(e.key, c)
    /\ e.at \in {"list", "draft"} => AssessmentOf(e) \in assessments
    /\ e.at = "draft" => \A kind \in Drafts \ e.missing : \E d \in drafts : d.of = AssessmentOf(e) /\ d.kind = kind
    /\ \A c \in e.kept : \E a \in assessments : a.key = e.key /\ a.cand = c

\* A worker that passes no further candidate has still written what it has written.
LEMMA WrittenOnward ==
  ASSUME NEW x, NEW e, e.key = x.key, e.kept = x.kept, e.run.kind = x.run.kind, e.at \notin {"list", "draft"},
         \A c \in 1..CandidateCount : e.run.kind # "report" /\ Passed(e, c) => Passed(x, c), Written(x)'
  PROVE  Written(e)'
BY DEF Written

\* What it has read agrees with the table; an acknowledged run is over.
Agrees(e) ==
    /\ airuns[e.key] # NoRun => airuns[e.key].kind = e.run.kind
    /\ Ended(e.run) => ~Active(e.key)

ExecutorOK(e) ==
    \/ e = Idling
    \/ Envelope(e) /\ (e.at = "ack" => ~Active(e.key))
    \/ /\ Begun(e) /\ Placed(e) /\ Agrees(e)
       /\ jobThere => Written(e)
       /\ e.at = "ack" => ~Active(e.key)

ExecutorsInv ==
    /\ DOMAIN executor = AIWorkers /\ executor = [w \in AIWorkers |-> executor[w]]
    /\ \A w \in AIWorkers : ExecutorOK(executor[w])

-----------------------------------------------------------------------------
\* Before its first push a run has no envelope and no worker, and is at most cancelled.
Unheard(k) == /\ ~Occurs(aiQueue, k) /\ ~Occurs(aiProcessing, k)
              /\ \A w \in AIWorkers : executor[w] # Idling => executor[w].key # k
DispatchInv ==
    \A k \in RunKeys :
        /\ jobThere /\ airuns[k] = NoRun => k \notin dispatching /\ k \notin unsent
        /\ jobThere /\ (airuns[k] = NoRun \/ k \in unsent) => Unheard(k)
        /\ airuns[k] # NoRun /\ k \in unsent => Status(airuns[k]) \in {"QUEUED", "CANCELLED"}

RunsInv ==
    /\ TablesInv /\ ListsInv /\ ReviewsInv /\ ExecutorsInv /\ DispatchInv
    /\ CompletedIsWhole /\ EnvelopeKept /\ DeletionIsComplete

-----------------------------------------------------------------------------
(* The Redis lists.                                                        *)

\* A nonempty set of numbers has a least one.
LEMMA LeastNat == ASSUME NEW I \in SUBSET Nat, I # {} PROVE Min(I) \in I
<1> DEFINE R == OpToRel(<, Nat)
<1>1. IsWellFoundedOn(R, Nat)
  BY NatLessThanWellFounded, Zenon
<1>2. \A x, y \in Nat : y < x => <<y, x>> \in R
  BY DEF OpToRel
<1> HIDE DEF R
<1>3. PICK x \in I : \A y \in I : <<y, x>> \notin R
  BY <1>1, WFMin, Zenon
<1>4. ASSUME NEW y \in I PROVE x <= y
  <2>1. x \in Nat /\ y \in Nat
    OBVIOUS
  <2>2. ~(y < x)
    BY <1>2, <1>3, <2>1, Zenon
  <2> QED
    BY <2>1, <2>2
<1> QED BY <1>4, Zenon DEF Min

\* LREM takes an occurrence of the envelope off the list,
LEMMA Removes == ASSUME NEW S, NEW s \in Seq(S), NEW e, Occurs(s, e)
  PROVE \E i \in 1 .. Len(s) : s[i] = e /\ DropFirst(s, e) = DropAt(s, i)
<1> DEFINE I == {i \in 1 .. Len(s) : s[i] = e}
<1>1. I \in SUBSET Nat /\ I # {} 
  BY DEF Occurs
<1>2. Min(I) \in I
  BY <1>1, LeastNat, Zenon
<1>3. DropFirst(s, e) = DropAt(s, Min(I))
  BY <1>1 DEF DropFirst
<1> QED
  BY <1>2, <1>3, Zenon

\* which leaves the other envelopes there.
LEMMA Kept == ASSUME NEW S, NEW s \in Seq(S), NEW i \in 1 .. Len(s)
  PROVE /\ DropAt(s, i) \in Seq(S)
        /\ \A k : k # s[i] => (Occurs(DropAt(s, i), k) <=> Occurs(s, k))
<1> DEFINE t == DropAt(s, i)
           a == SubSeq(s, 1, i - 1)
           b == SubSeq(s, i + 1, Len(s))
<1>a. a \in Seq(S) /\ Len(a) = i - 1 /\ \A j \in 1 .. i - 1 : a[j] = s[j]
  OBVIOUS
<1>b. b \in Seq(S) /\ Len(b) = Len(s) - i /\ \A j \in 1 .. Len(s) - i : b[j] = s[i + j]
  OBVIOUS
<1>c. t = a \o b
  BY DEF DropAt
<1> HIDE DEF a, b, t
<1>1. t \in Seq(S) /\ Len(t) = Len(s) - 1
  BY <1>a, <1>b, <1>c
<1>2. \A j \in 1 .. Len(t) : t[j] = IF j < i THEN s[j] ELSE s[j + 1]
  <2> TAKE j \in 1 .. Len(t)
  <2>1. CASE j < i
    BY <1>a, <1>b, <1>c, <1>1, <2>1
  <2>2. CASE ~(j < i)
    <3>1. j - (i - 1) \in 1 .. Len(s) - i /\ i + (j - (i - 1)) = j + 1
      BY <1>1, <2>2
    <3>2. t[j] = b[j - (i - 1)]
      BY <1>a, <1>b, <1>c, <1>1, <2>2
    <3> QED
      BY <1>b, <2>2, <3>1, <3>2
  <2> QED
    BY <2>1, <2>2
<1>3. ASSUME NEW k, k # s[i] PROVE Occurs(t, k) <=> Occurs(s, k)
  <2>1. ASSUME Occurs(t, k) PROVE Occurs(s, k)
    <3> HIDE DEF t
    <3>1. PICK j \in 1 .. Len(t) : t[j] = k
      BY <2>1 DEF Occurs
    <3> QED
      BY <1>1, <1>2, <3>1 DEF Occurs
  <2>2. ASSUME Occurs(s, k) PROVE Occurs(t, k)
    <3> HIDE DEF t
    <3>1. PICK j \in 1 .. Len(s) : s[j] = k
      BY <2>2 DEF Occurs
    <3>2. CASE j < i
      BY <1>1, <1>2, <3>1, <3>2 DEF Occurs
    <3>3. CASE j > i
      <4>1. j - 1 \in 1 .. Len(t) /\ t[j - 1] = s[j]
        BY <1>1, <1>2, <3>3
      <4> QED
        BY <3>1, <4>1 DEF Occurs
    <3> QED
      BY <1>3, <3>1, <3>2, <3>3
  <2> QED
    BY <2>1, <2>2
<1> QED
  BY <1>1, <1>3 DEF t

\* LREM on a list of envelopes.
LEMMA Taken ==
  ASSUME NEW S, NEW s \in Seq(S), NEW e
  PROVE  /\ DropFirst(s, e) \in Seq(S)
         /\ \A k : k # e => (Occurs(DropFirst(s, e), k) <=> Occurs(s, k))
         /\ Occurs(DropFirst(s, e), e) => Occurs(s, e)
<1>1. CASE Occurs(s, e)
  <2>1. PICK i \in 1 .. Len(s) : s[i] = e /\ DropFirst(s, e) = DropAt(s, i)
    BY <1>1, Removes
  <2> QED
    BY <1>1, <2>1, Kept
<1>2. CASE ~Occurs(s, e)
  <2>1. DropFirst(s, e) = s
    BY <1>2 DEF DropFirst, Occurs
  <2> QED
    BY <1>2, <2>1
<1> QED
  BY <1>1, <1>2

\* LPUSH.
LEMMA Pushed ==
  ASSUME NEW S, NEW s \in Seq(S), NEW e \in S
  PROVE  /\ Append(s, e) \in Seq(S)
         /\ \A k : Occurs(Append(s, e), k) <=> (Occurs(s, k) \/ k = e)
<1>1. Append(s, e) \in Seq(S) /\ Len(Append(s, e)) = Len(s) + 1
  OBVIOUS
<1>2. \A i \in 1 .. Len(s) : Append(s, e)[i] = s[i]
  OBVIOUS
<1>3. Append(s, e)[Len(s) + 1] = e
  OBVIOUS
<1>4. Len(s) \in Nat
  OBVIOUS
<1> DEFINE t == Append(s, e)
<1> HIDE DEF t
<1>5. ASSUME NEW k, Occurs(s, k) \/ k = e PROVE Occurs(t, k)
  BY <1>1, <1>2, <1>3, <1>4, <1>5 DEF Occurs, t
<1>6. ASSUME NEW k, Occurs(t, k) PROVE Occurs(s, k) \/ k = e
  <2>1. PICK i \in 1 .. Len(t) : t[i] = k
    BY <1>6 DEF Occurs
  <2>2. i = Len(s) + 1 \/ i \in 1 .. Len(s)
    BY <1>1, <1>4, <2>1 DEF t
  <2> QED
    BY <1>2, <1>3, <2>1, <2>2 DEF Occurs, t
<1> QED
  BY <1>1, <1>5, <1>6 DEF t

\* RPOP.
LEMMA Popped ==
  ASSUME NEW S, NEW s \in Seq(S), s # << >>
  PROVE  /\ Head(s) \in S /\ Occurs(s, Head(s)) /\ Tail(s) \in Seq(S)
         /\ \A k : Occurs(s, k) => Occurs(Tail(s), k) \/ k = Head(s)
         /\ \A k : Occurs(Tail(s), k) => Occurs(s, k)
<1>1. Head(s) \in S /\ Head(s) = s[1] /\ Len(s) \in Nat /\ Len(s) >= 1
  OBVIOUS
<1>2. Tail(s) \in Seq(S) /\ Len(Tail(s)) = Len(s) - 1 /\ \A i \in 1 .. Len(s) - 1 : Tail(s)[i] = s[i + 1]
  OBVIOUS
<1> DEFINE t == Tail(s)
<1> HIDE DEF t
<1>3. Occurs(s, Head(s))
  BY <1>1 DEF Occurs
<1>4. ASSUME NEW k, Occurs(s, k), k # Head(s) PROVE Occurs(t, k)
  <2>1. PICK i \in 1 .. Len(s) : s[i] = k
    BY <1>4 DEF Occurs
  <2>2. i - 1 \in 1 .. Len(t) /\ t[i - 1] = s[i]
    BY <1>1, <1>2, <1>4, <2>1 DEF t
  <2> QED
    BY <2>1, <2>2 DEF Occurs
<1>5. ASSUME NEW k, Occurs(t, k) PROVE Occurs(s, k)
  <2>1. PICK i \in 1 .. Len(t) : t[i] = k
    BY <1>5 DEF Occurs
  <2>2. i + 1 \in 1 .. Len(s) /\ t[i] = s[i + 1]
    BY <1>1, <1>2, <2>1 DEF t
  <2> QED
    BY <2>1, <2>2 DEF Occurs
<1> QED
  BY <1>1, <1>2, <1>3, <1>4, <1>5 DEF t

-----------------------------------------------------------------------------
(* What other steps leave of what a worker holds.                          *)

\* The run stays of its kind and, once it is over, over.
RunKept(k) ==
    /\ airuns'[k] # NoRun => airuns[k] # NoRun /\ airuns'[k].kind = airuns[k].kind
    /\ Active(k)' => Active(k)

\* Results stay, up to the review of a draft.
ResultsGrow ==
    jobThere' => /\ jobThere /\ assessments \subseteq assessments'
                 /\ \A d \in drafts : \E f \in drafts' : f.of = d.of /\ f.kind = d.kind

LEMMA WholeStays ==
  ASSUME NEW k, NEW c, ResultsGrow, jobThere', Whole(k, c)
  PROVE  Whole(k, c)'
BY DEF ResultsGrow, Whole

LEMMA WrittenStays ==
  ASSUME NEW e, ResultsGrow, jobThere', jobThere => Written(e)
  PROVE  Written(e)'
<1>1. jobThere /\ assessments \subseteq assessments' /\ \A d \in drafts : \E f \in drafts' : f.of = d.of /\ f.kind = d.kind
  BY DEF ResultsGrow
<1>2. e.run.kind # "report" => \A c \in 1..CandidateCount : Passed(e, c) => Whole(e.key, c)'
  BY <1>1, WholeStays DEF Written
<1>3. e.at \in {"list", "draft"} => AssessmentOf(e) \in assessments'
  BY <1>1 DEF Written
<1>4. e.at = "draft" => \A kind \in Drafts \ e.missing : \E d \in drafts' : d.of = AssessmentOf(e) /\ d.kind = kind
  <2> HIDE DEF AssessmentOf
  <2> QED
    BY <1>1 DEF Written
<1>5. \A c \in e.kept : \E a \in assessments' : a.key = e.key /\ a.cand = c
  BY <1>1 DEF Written
<1> QED
  BY <1>2, <1>3, <1>4, <1>5 DEF Written

LEMMA HeldStays ==
  ASSUME NEW e, ExecutorOK(e), ResultsGrow, e # Idling => RunKept(e.key)
  PROVE  ExecutorOK(e)'
<1>1. CASE e = Idling
  BY <1>1 DEF ExecutorOK
<1>2. CASE e # Idling /\ Envelope(e) /\ (e.at = "ack" => ~Active(e.key))
  BY <1>2 DEF ExecutorOK, RunKept, Envelope
<1>3. CASE /\ e # Idling /\ Begun(e) /\ Placed(e) /\ Agrees(e) /\ (jobThere => Written(e))
           /\ e.at = "ack" => ~Active(e.key)
  <2>1. Begun(e)' /\ Placed(e)'
    BY <1>3 DEF Begun, Placed, ReportPlace, PlainPlace, HistoricalPlace, InRange
  <2>2. Agrees(e)'
    BY <1>3 DEF Agrees, RunKept, Ended, Status
  <2>3. jobThere' => Written(e)'
    BY <1>3, WrittenStays
  <2>4. e.at = "ack" => ~Active(e.key)'
    BY <1>3 DEF RunKept
  <2> QED
    BY <2>1, <2>2, <2>3, <2>4 DEF ExecutorOK
<1> QED
  BY <1>1, <1>2, <1>3 DEF ExecutorOK

-----------------------------------------------------------------------------
(* The steps of a worker.                                                  *)

LEMMA Holding ==
  ASSUME NEW e, ExecutorOK(e), e # Idling
  PROVE  e.key \in RunKeys /\ e.at # "idle"
BY DEF ExecutorOK, Envelope, Begun

LEMMA Executing ==
  ASSUME NEW e, ExecutorOK(e), e.at \notin {"idle", "popped", "claimed", "ack"}
  PROVE  /\ e # Idling /\ Begun(e) /\ Placed(e) /\ Agrees(e)
         /\ jobThere => Written(e)
BY DEF ExecutorOK, Envelope, Idling

\* What a worker's step does to the tables.
StoreStep ==
    /\ jobThere' = jobThere /\ ResultsGrow
    /\ \A k \in RunKeys : /\ RunKept(k) /\ (airuns'[k] = NoRun => airuns[k] = NoRun)
                          /\ k \in unsent => airuns'[k] = airuns[k]

LEMMA OthersStay ==
  ASSUME RunsInv, NEW w \in AIWorkers, NEW e, Becomes(w, e), ExecutorOK(e)', ResultsGrow,
         \A k \in RunKeys : RunKept(k)
  PROVE  ExecutorsInv'
<1>1. /\ DOMAIN executor = AIWorkers /\ executor = [v \in AIWorkers |-> executor[v]]
      /\ \A v \in AIWorkers : ExecutorOK(executor[v])
  BY DEF RunsInv, ExecutorsInv
<1>2. /\ DOMAIN executor' = AIWorkers /\ executor' = [v \in AIWorkers |-> executor'[v]]
      /\ executor'[w] = e /\ \A v \in AIWorkers : v # w => executor'[v] = executor[v]
  BY <1>1 DEF Becomes
<1>3. ASSUME NEW v \in AIWorkers, v # w PROVE ExecutorOK(executor[v])'
  <2>1. PICK x : x = executor[v]
    OBVIOUS
  <2>2. ExecutorOK(x)
    BY <1>1, <2>1
  <2>3. ExecutorOK(x)'
    BY <2>2, Holding, HeldStays
  <2>4. executor'[v] = x
    BY <1>2, <1>3, <2>1
  <2> QED
    BY <2>3, <2>4
<1>4. ExecutorOK(executor[w])'
  BY <1>2
<1> QED
  BY <1>2, <1>3, <1>4 DEF ExecutorsInv

LEMMA WorkerMoves ==
  ASSUME RunsInv, NEW w \in AIWorkers, executor[w] # Idling, NEW e, Becomes(w, e),
         e # Idling => e.key = executor[w].key, ExecutorOK(e)', StoreStep,
         UNCHANGED <<aiQueue, aiProcessing, callVars, reviewing>>
  PROVE  ListsInv' /\ ReviewsInv' /\ ExecutorsInv' /\ DispatchInv' /\ EnvelopeKept'
<1>1. ExecutorsInv'
  BY OthersStay DEF StoreStep
<1>2. ListsInv' /\ ReviewsInv'
  <2>1. aiQueue' = aiQueue /\ aiProcessing' = aiProcessing /\ reviewing' = reviewing
    OBVIOUS
  <2> QED
    BY <2>1 DEF RunsInv, ListsInv, ReviewsInv
<1>3. EnvelopeKept'
  BY DEF RunsInv, EnvelopeKept, StoreStep, RunKept, callVars
<1>4. ASSUME NEW k \in RunKeys, Unheard(k) PROVE Unheard(k)'
  <2>1. \A v \in AIWorkers : executor'[v] = IF v = w THEN e ELSE executor[v]
    BY DEF RunsInv, ExecutorsInv, Becomes
  <2>2. aiQueue' = aiQueue /\ aiProcessing' = aiProcessing
    OBVIOUS
  <2> QED
    BY <1>4, <2>1, <2>2 DEF Unheard
<1>5. DispatchInv'
  BY <1>4 DEF RunsInv, DispatchInv, StoreStep, RunKept, callVars
<1> QED
  BY <1>1, <1>2, <1>3, <1>5

\* The tables untouched.
LEMMA QuietStore ==
  ASSUME UNCHANGED storeVars
  PROVE  StoreStep /\ ResultsGrow /\ \A k : RunKept(k)
BY DEF storeVars, StoreStep, ResultsGrow, RunKept, Active, Ended, Status

LEMMA QuietTables ==
  ASSUME RunsInv, UNCHANGED storeVars, UNCHANGED callVars
  PROVE  aiLeases' \in SUBSET RunKeys => TablesInv' /\ CompletedIsWhole' /\ DeletionIsComplete'
BY DEF RunsInv, TablesInv, CompletedIsWhole, DeletionIsComplete, storeVars, callVars, Status

LEMMA QuietMoves ==
  ASSUME RunsInv, NEW w \in AIWorkers, executor[w] # Idling, NEW e, Becomes(w, e),
         e # Idling => e.key = executor[w].key, ExecutorOK(e),
         UNCHANGED <<storeVars, redisVars, callVars, reviewing>>
  PROVE  RunsInv'
<1>1. StoreStep /\ ResultsGrow /\ \A k : RunKept(k)
  BY QuietStore
<1>2. ExecutorOK(e)'
  BY <1>1, HeldStays
<1>3. ListsInv' /\ ReviewsInv' /\ ExecutorsInv' /\ DispatchInv' /\ EnvelopeKept'
  BY <1>1, <1>2, WorkerMoves DEF redisVars
<1>4. TablesInv' /\ CompletedIsWhole' /\ DeletionIsComplete'
  BY QuietTables DEF RunsInv, TablesInv, redisVars
<1> QED
  BY <1>3, <1>4 DEF RunsInv

\* Worker w is at a step of a run, as x says.
AtWork(w, x) == /\ x = executor[w] /\ Begun(x) /\ Placed(x) /\ Agrees(x) /\ (jobThere => Written(x))
                /\ x.at \notin {"idle", "ack"} /\ x # Idling

LEMMA Working ==
  ASSUME RunsInv, NEW w \in AIWorkers, executor[w].at \notin {"idle", "popped", "claimed", "ack"}
  PROVE  \E x : AtWork(w, x)
<1>1. PICK x : x = executor[w]
  OBVIOUS
<1>2. ExecutorOK(x)
  BY <1>1 DEF RunsInv, ExecutorsInv
<1> QED
  BY <1>1, <1>2, Executing DEF AtWork

\* The envelope a worker becomes e with.
Outcome(w, x, e) == Becomes(w, e) /\ (e # Idling => e.key = x.key)

LEMMA Raised ==
  ASSUME NEW w, NEW x, AtWork(w, x), Raise(w)
  PROVE  \E e : Outcome(w, x, e) /\ ExecutorOK(e)
<1>1. CASE Historical(w) \/ executor[w].target \in {"FAILED", "CANCELLED"}
  BY <1>1 DEF Raise, ExecutorOK, Outcome
<1>2. CASE ~(Historical(w) \/ executor[w].target \in {"FAILED", "CANCELLED"})
  <2>1. PICK e : e = [x EXCEPT !.at = "save", !.target = "FAILED"]
    OBVIOUS
  <2>2. /\ DOMAIN e = {"at", "key", "run", "pos", "target", "kept", "copy", "missing"}
        /\ e.at = "save" /\ e.target = "FAILED" /\ e.key = x.key /\ e.run = x.run /\ e.pos = x.pos
        /\ e.copy = x.copy /\ e.kept = x.kept
    BY <2>1 DEF AtWork, Begun
  <2>3. Becomes(w, e)
    BY <1>2, <2>1 DEF Raise, AtWork
  <2>4. Begun(e)
    BY <2>2 DEF AtWork, Begun
  <2>5. Placed(e)
    BY <2>2 DEF AtWork, Placed, ReportPlace, PlainPlace, HistoricalPlace
  <2>6. Agrees(e)
    BY <2>2 DEF AtWork, Agrees
  <2>7. jobThere => Written(e)
    <3>1. \A c : Passed(e, c) => Passed(x, c)
      BY <2>2 DEF Passed
    <3> QED
      BY <2>2, <3>1 DEF AtWork, Written
  <2> QED
    BY <2>2, <2>3, <2>4, <2>5, <2>6, <2>7 DEF ExecutorOK, Outcome
<1> QED
  BY <1>1, <1>2

\* A transition follows, with the run as it was read or saved.
Saves(x, target, e) == e = [x EXCEPT !.at = "save", !.run = x.run, !.pos = x.pos, !.target = target]

LEMMA Saving ==
  ASSUME NEW w, NEW x, AtWork(w, x), NEW target \in {"VALIDATING", "COMPLETED", "FAILED", "CANCELLED", "ANALYZING"},
         NEW e, Saves(x, target, e), Placed(e),
         jobThere => \A c \in 1..CandidateCount : Passed(e, c) /\ ~Passed(x, c) => Whole(x.key, c)
  PROVE  ExecutorOK(e) /\ e.key = x.key
<1>2. /\ DOMAIN e = {"at", "key", "run", "pos", "target", "kept", "copy", "missing"}
      /\ e.at = "save" /\ e.target = target /\ e.key = x.key /\ e.run = x.run /\ e.pos = x.pos
      /\ e.copy = x.copy /\ e.kept = x.kept
  BY DEF AtWork, Begun, Saves
<1>4. Begun(e)
  BY <1>2 DEF AtWork, Begun
<1>6. Agrees(e)
  BY <1>2 DEF AtWork, Agrees
<1>7. jobThere => Written(e)
  BY <1>2 DEF AtWork, Written
<1> QED
  BY <1>2, <1>4, <1>6, <1>7 DEF ExecutorOK

LEMMA AssessKeeps ==
  ASSUME RunsInv, NEW w \in AIWorkers, assess_candidate(w)
  PROVE  RunsInv'
<1>1. PICK x : AtWork(w, x)
  BY Working DEF assess_candidate, Doing
<1>2. executor[w] = x /\ x.at = "model" /\ x # Idling
  BY <1>1 DEF AtWork, assess_candidate, Doing
<1>3. UNCHANGED <<storeVars, redisVars, callVars, reviewing>>
  BY DEF assess_candidate
<1> DEFINE stopped == Now(w) # NoRun /\ Status(Now(w)) = "CANCELLED"
<1>4. ASSUME NEW target \in {"VALIDATING", "FAILED", "CANCELLED"}, Save(w, x.run, x.pos, target)
      PROVE  RunsInv'
  <2>1. PICK e : Saves(x, target, e)
    BY DEF Saves
  <2>2. e.at = "save" /\ e.target = target /\ e.run = x.run /\ e.pos = x.pos /\ e.copy = x.copy /\ e.kept = x.kept
    BY <1>1, <2>1 DEF AtWork, Begun, Saves
  <2>3. Placed(e)
    BY <1>1, <1>2, <2>2 DEF AtWork, Placed, ReportPlace, PlainPlace, HistoricalPlace
  <2>4. \A c : Passed(e, c) => Passed(x, c)
    BY <2>2 DEF Passed
  <2>5. ExecutorOK(e) /\ e.key = x.key
    <3>1. target \in {"VALIDATING", "COMPLETED", "FAILED", "CANCELLED", "ANALYZING"}
      OBVIOUS
    <3>2. jobThere => \A c \in 1..CandidateCount : Passed(e, c) /\ ~Passed(x, c) => Whole(x.key, c)
      BY <2>4
    <3> QED
      BY <1>1, <2>1, <2>3, <3>1, <3>2, Saving
  <2>6. Becomes(w, e)
    BY <1>2, <1>4, <2>1 DEF Save, Saves
  <2> QED
    BY <1>2, <1>3, <2>5, <2>6, QuietMoves
<1>5. ASSUME NEW at \in {"assess", "ack"}, Go(w, at), at = "assess" => x.run.kind = "historical",
             at = "ack" => ~Active(x.key)
      PROVE  RunsInv'
  <2>1. PICK e : e = [x EXCEPT !.at = at]
    BY Zenon
  <2>2. /\ DOMAIN e = {"at", "key", "run", "pos", "target", "kept", "copy", "missing"}
        /\ e.at = at /\ e.target = x.target /\ e.key = x.key /\ e.run = x.run /\ e.pos = x.pos
        /\ e.copy = x.copy /\ e.kept = x.kept
    BY <1>1, <2>1 DEF AtWork, Begun
  <2>3. Begun(e) /\ Agrees(e)
    BY <1>1, <2>2 DEF AtWork, Begun, Agrees
  <2>4. Placed(e)
    BY <1>1, <1>2, <1>5, <2>2 DEF AtWork, Placed, ReportPlace, PlainPlace, HistoricalPlace
  <2>5. \A c : Passed(e, c) => Passed(x, c)
    BY <2>2, <1>5 DEF Passed
  <2>6. jobThere => Written(e)
    BY <1>1, <2>2, <2>5 DEF AtWork, Written
  <2>7. ExecutorOK(e)
    BY <1>5, <2>2, <2>3, <2>4, <2>6 DEF ExecutorOK
  <2>8. Becomes(w, e)
    BY <1>2, <1>5, <2>1 DEF Go
  <2> QED
    BY <1>2, <1>3, <2>2, <2>7, <2>8, QuietMoves
<1>6. \/ Historical(w) /\ Go(w, "assess")
      \/ \E target \in {"VALIDATING", "FAILED", "CANCELLED"} : Save(w, x.run, x.pos, target)
      \/ stopped /\ Go(w, "ack")
  BY <1>2 DEF assess_candidate
<1>7. stopped => ~Active(x.key)
  BY <1>2 DEF Now, Active, Ended, AITerminal
<1> QED
  BY <1>2, <1>4, <1>5, <1>6, <1>7 DEF Historical

LEMMA ExecuteKeeps ==
  ASSUME RunsInv, NEW w \in AIWorkers, execute(w)
  PROVE  RunsInv'
<1>1. PICK x : x = executor[w]
  OBVIOUS
<1>2. ExecutorOK(x) /\ x.at = "claimed"
  BY <1>1 DEF RunsInv, ExecutorsInv, execute, Doing
<1>3. x # Idling /\ x.key \in RunKeys
  BY <1>2 DEF ExecutorOK, Idling, Envelope, Begun
<1>4. UNCHANGED <<storeVars, redisVars, callVars, reviewing>>
  BY DEF execute
<1>5. PICK k, r : k = x.key /\ r = airuns[k]
  OBVIOUS
<1>6. r = NoRun \/ r \in Runs
  BY <1>3, <1>5 DEF RunsInv, TablesInv
<1> DEFINE first == IF r.kind # "historical" \/ Status(r) = "QUEUED" THEN "PREPARING" ELSE "ANALYZING"
           begun == [at |-> "save", key |-> k, run |-> r, pos |-> 0, target |-> first,
                     kept |-> {}, copy |-> 0, missing |-> {}]
<1>7. \/ Becomes(w, Idling)
      \/ r # NoRun /\ Ended(r) /\ Becomes(w, [at |-> "ack", key |-> k])
      \/ r # NoRun /\ ~Ended(r) /\ r.kind = "historical" /\ Becomes(w, [begun EXCEPT !.at = "retained"])
      \/ r # NoRun /\ ~Ended(r) /\ Becomes(w, begun)
  <2>1. Becomes(w, CASE r = NoRun -> Idling
                     [] r # NoRun /\ Ended(r) -> [at |-> "ack", key |-> k]
                     [] r.kind = "historical" /\ Status(r) \in {"ANALYZING", "VALIDATING"} ->
                          [begun EXCEPT !.at = "retained"]
                     [] OTHER -> begun)
    BY <1>1, <1>5 DEF execute
  <2> HIDE DEF begun
  <2>2. CASE r = NoRun
    <3>1. r.kind # "historical"
      BY <2>2 DEF NoRun
    <3> QED
      BY <2>1, <2>2, <3>1
  <2>3. CASE r # NoRun /\ Ended(r)
    <3>1. Status(r) \notin {"ANALYZING", "VALIDATING"}
      BY <2>3 DEF Ended, AITerminal
    <3> QED
      BY <2>1, <2>3, <3>1
  <2>4. CASE r # NoRun /\ ~Ended(r)
    BY <2>1, <2>4
  <2> QED
    BY <2>2, <2>3, <2>4
<1>8. CASE Becomes(w, Idling)
  BY <1>1, <1>3, <1>4, <1>8, QuietMoves DEF ExecutorOK
<1>9. CASE r # NoRun /\ Ended(r) /\ Becomes(w, [at |-> "ack", key |-> k])
  <2>1. PICK e : e = [at |-> "ack", key |-> k]
    BY Zenon
  <2>2. ExecutorOK(e) /\ e.key = k
    BY <1>3, <1>5, <1>9, <2>1 DEF ExecutorOK, Envelope, Active
  <2> QED
    BY <1>1, <1>3, <1>4, <1>5, <1>9, <2>1, <2>2, QuietMoves
<1>10. ASSUME r # NoRun, ~Ended(r), NEW e, e = begun \/ (r.kind = "historical" /\ e = [begun EXCEPT !.at = "retained"]),
              Becomes(w, e)
       PROVE  RunsInv'
  <2>1. /\ DOMAIN e = {"at", "key", "run", "pos", "target", "kept", "copy", "missing"}
        /\ e.key = k /\ e.run = r /\ e.pos = 0 /\ e.target = first /\ e.copy = 0 /\ e.kept = {}
        /\ e.at = "save" \/ (r.kind = "historical" /\ e.at = "retained")
    BY <1>10
  <2>2. first \in {"PREPARING", "ANALYZING"} /\ (first = "ANALYZING" => r.kind = "historical")
    OBVIOUS
  <2> HIDE DEF first, begun
  <2>3. Begun(e)
    BY <1>3, <1>5, <1>6, <1>10, <2>1, <2>2 DEF Begun
  <2>4. Agrees(e)
    BY <1>5, <1>10, <2>1 DEF Agrees
  <2>5. r.kind = "plain" => CandidateCount > 0
    BY <1>3, <1>5 DEF RunsInv, TablesInv
  <2>6. Placed(e)
    BY <2>1, <2>2, <2>5, AIConstants DEF Placed, ReportPlace, PlainPlace, HistoricalPlace
  <2>7. Written(e)
    BY <2>1, AIConstants DEF Written, Passed
  <2>8. ExecutorOK(e)
    BY <2>1, <2>3, <2>4, <2>6, <2>7 DEF ExecutorOK
  <2> QED
    BY <1>1, <1>3, <1>4, <1>5, <1>10, <2>1, <2>8, QuietMoves
<1> HIDE DEF first, begun
<1> QED
  BY <1>7, <1>8, <1>9, <1>10

LEMMA EnsureKeeps ==
  ASSUME RunsInv, NEW w \in AIWorkers, ensure_artifacts(w)
  PROVE  RunsInv'
<1>1. PICK x : AtWork(w, x)
  BY Working DEF ensure_artifacts, Doing
<1>2. executor[w] = x /\ x.at = "list" /\ x # Idling
  BY <1>1 DEF AtWork, ensure_artifacts, Doing
<1>3. UNCHANGED <<storeVars, redisVars, callVars, reviewing>>
  BY DEF ensure_artifacts
<1>4. PICK m : m = {kind \in Drafts : ~\E d \in drafts : SameDraft(d, AIDraft(Assessed(w), kind, 0))}
  BY Zenon
<1>5. PICK e : e = [x EXCEPT !.at = "draft", !.missing = m]
  OBVIOUS
<1>6. Becomes(w, e)
  BY <1>2, <1>4, <1>5 DEF ensure_artifacts
<1>7. /\ DOMAIN e = {"at", "key", "run", "pos", "target", "kept", "copy", "missing"}
      /\ e.at = "draft" /\ e.key = x.key /\ e.run = x.run /\ e.pos = x.pos /\ e.target = x.target
      /\ e.copy = x.copy /\ e.missing = m /\ e.kept = x.kept
  BY <1>1, <1>5 DEF AtWork, Begun
<1>8. Begun(e) /\ Agrees(e)
  BY <1>1, <1>7 DEF AtWork, Begun, Agrees
<1>9. Placed(e)
  BY <1>1, <1>2, <1>7 DEF AtWork, Placed, ReportPlace, PlainPlace, HistoricalPlace
<1>10. ASSUME jobThere PROVE Written(e)
  <2>1. \A c : Passed(e, c) => Passed(x, c)
    BY <1>7 DEF Passed
  <2>2. AssessmentOf(e) = AssessmentOf(x) /\ AssessmentOf(x) \in assessments /\ Assessed(w) = AssessmentOf(x)
    BY <1>1, <1>2, <1>7, <1>10 DEF AtWork, AssessmentOf, Written, Assessed
  <2>3. \A kind \in Drafts \ m : \E d \in drafts : d.of = Assessed(w) /\ d.kind = kind
    BY <1>4 DEF SameDraft, AIDraft
  <2> QED
    BY <1>1, <1>7, <1>10, <2>1, <2>2, <2>3 DEF AtWork, Written
<1>11. ExecutorOK(e)
  BY <1>7, <1>8, <1>9, <1>10 DEF ExecutorOK
<1> QED
  BY <1>2, <1>3, <1>6, <1>7, <1>11, QuietMoves

LEMMA NextCandidateKeeps ==
  ASSUME RunsInv, NEW w \in AIWorkers, NextCandidate(w)
  PROVE  RunsInv'
<1>1. PICK x : AtWork(w, x)
  BY Working DEF NextCandidate, Doing
<1>2. executor[w] = x /\ x.at = "draft" /\ x # Idling /\ x.missing = {}
  BY <1>1 DEF AtWork, NextCandidate, Doing
<1>3. UNCHANGED <<storeVars, redisVars, callVars, reviewing>>
  BY DEF NextCandidate
<1>4. x.run.kind \in {"plain", "historical"} /\ InRange(x.pos) /\ x.pos \in Nat
  BY <1>1, <1>2 DEF AtWork, Begun, Placed, ReportPlace, PlainPlace, HistoricalPlace, Runs, Kinds
<1>5. ASSUME jobThere PROVE Whole(x.key, x.pos)
  <2>1. /\ AssessmentOf(x) \in assessments
        /\ \A kind \in Drafts : \E d \in drafts : d.of = AssessmentOf(x) /\ d.kind = kind
    BY <1>1, <1>2, <1>5 DEF AtWork, Written
  <2>2. AssessmentOf(x).key = x.key /\ AssessmentOf(x).cand = x.pos
    BY DEF AssessmentOf
  <2> QED
    BY <2>1, <2>2 DEF Whole
<1>6. CASE Historical(w)
  <2>1. PICK e : e = [x EXCEPT !.at = "loop", !.pos = x.pos + 1]
    OBVIOUS
  <2>2. /\ DOMAIN e = {"at", "key", "run", "pos", "target", "kept", "copy", "missing"}
        /\ e.at = "loop" /\ e.key = x.key /\ e.run = x.run /\ e.pos = x.pos + 1 /\ e.target = x.target
        /\ e.copy = x.copy /\ e.kept = x.kept
    BY <1>1, <2>1 DEF AtWork, Begun
  <2>3. Becomes(w, e)
    BY <1>2, <1>6, <2>1 DEF NextCandidate
  <2>4. Begun(e) /\ Agrees(e)
    BY <1>1, <1>4, <2>2 DEF AtWork, Begun, Agrees
  <2>5. Placed(e)
    BY <1>1, <1>2, <1>4, <1>6, <2>2 DEF Historical, AtWork, Placed, HistoricalPlace
  <2>6. ASSUME jobThere PROVE Written(e)
    <3>1. \A c \in 1..CandidateCount : Passed(e, c) => c = x.pos \/ Passed(x, c)
      BY <1>2, <1>4, <1>6, <2>2 DEF Passed, Historical
    <3> QED
      BY <1>1, <1>5, <2>2, <2>6, <3>1 DEF AtWork, Written
  <2>7. ExecutorOK(e)
    BY <2>2, <2>4, <2>5, <2>6 DEF ExecutorOK
  <2> QED
    BY <1>1, <1>2, <1>3, <2>2, <2>3, <2>7, QuietMoves
<1>7. CASE ~Historical(w)
  <2>1. PICK target \in {"ANALYZING", "COMPLETED"} : target = IF x.pos < CandidateCount THEN "ANALYZING" ELSE "COMPLETED"
    OBVIOUS
  <2>2. PICK e : Saves(x, target, e)
    BY DEF Saves
  <2>3. e.at = "save" /\ e.target = target /\ e.run = x.run /\ e.pos = x.pos /\ e.copy = x.copy /\ e.kept = x.kept
    BY <1>1, <2>2 DEF AtWork, Begun, Saves
  <2>4. Placed(e)
    BY <1>1, <1>2, <1>4, <1>7, <2>1, <2>3, AIConstants DEF Historical, AtWork, Placed, PlainPlace, InRange
  <2>5. jobThere => \A c \in 1..CandidateCount : Passed(e, c) /\ ~Passed(x, c) => Whole(x.key, c)
    BY <1>5, <2>3 DEF Passed
  <2>6. ExecutorOK(e) /\ e.key = x.key
    BY <1>1, <2>1, <2>2, <2>4, <2>5, Saving
  <2>7. Becomes(w, e)
    BY <1>2, <1>7, <2>1, <2>2 DEF NextCandidate, Save, Saves
  <2> QED
    BY <1>2, <1>3, <2>6, <2>7, QuietMoves
<1> QED
  BY <1>6, <1>7

LEMMA ListKeeps ==
  ASSUME RunsInv, NEW w \in AIWorkers, list_ai_assessments(w)
  PROVE  RunsInv'
<1>1. PICK x : AtWork(w, x)
  BY Working DEF list_ai_assessments, Doing
<1>2. executor[w] = x /\ x.at = "retained" /\ x # Idling
  BY <1>1 DEF AtWork, list_ai_assessments, Doing
<1>3. UNCHANGED <<storeVars, redisVars, callVars, reviewing>>
  BY DEF list_ai_assessments
<1>4. PICK m : m = {a.cand : a \in {a \in assessments : a.key = x.key}}
  BY Zenon
<1>5. PICK e : e = [x EXCEPT !.at = "loop", !.pos = 1, !.kept = m]
  OBVIOUS
<1>6. Becomes(w, e)
  BY <1>2, <1>4, <1>5 DEF list_ai_assessments
<1>7. /\ DOMAIN e = {"at", "key", "run", "pos", "target", "kept", "copy", "missing"}
      /\ e.at = "loop" /\ e.key = x.key /\ e.run = x.run /\ e.pos = 1 /\ e.target = x.target
      /\ e.copy = x.copy /\ e.kept = m
  BY <1>1, <1>5 DEF AtWork, Begun
<1>8. Begun(e) /\ Agrees(e)
  BY <1>1, <1>7 DEF AtWork, Begun, Agrees
<1>9. Placed(e)
  BY <1>1, <1>2, <1>7 DEF AtWork, Placed, ReportPlace, PlainPlace, HistoricalPlace
<1>10. Written(e)
  <2>1. \A c \in 1..CandidateCount : ~Passed(e, c)
    BY <1>7, AIConstants DEF Passed
  <2>2. \A c \in m : \E a \in assessments : a.key = x.key /\ a.cand = c
    BY <1>4
  <2> QED
    BY <1>7, <2>1, <2>2 DEF Written
<1>11. ExecutorOK(e)
  BY <1>7, <1>8, <1>9, <1>10 DEF ExecutorOK
<1> QED
  BY <1>2, <1>3, <1>6, <1>7, <1>11, QuietMoves

LEMMA SavedKeeps ==
  ASSUME RunsInv, NEW w \in AIWorkers, execute_saved(w)
  PROVE  RunsInv'
<1>1. PICK x : AtWork(w, x)
  BY Working DEF execute_saved, Doing
<1>2. executor[w] = x /\ x.at = "loop" /\ x # Idling
  BY <1>1 DEF AtWork, execute_saved, Doing
<1>3. UNCHANGED <<storeVars, redisVars, callVars, reviewing>>
  BY DEF execute_saved
<1>4. x.run.kind = "historical" /\ x.pos \in Nat /\ x.pos >= 1 /\ x.copy = 0
  BY <1>1, <1>2 DEF AtWork, Begun, Placed, ReportPlace, PlainPlace, HistoricalPlace, Runs, Kinds
<1>5. ASSUME NEW target \in {"VALIDATING", "COMPLETED", "ANALYZING"}, Save(w, x.run, x.pos, target),
             target = "ANALYZING" => x.pos <= CandidateCount,
             target = "VALIDATING" => CandidateCount = 0,
             target = "COMPLETED" => x.pos > CandidateCount
      PROVE  RunsInv'
  <2>1. PICK e : Saves(x, target, e)
    BY DEF Saves
  <2>2. e.at = "save" /\ e.target = target /\ e.run = x.run /\ e.pos = x.pos /\ e.copy = x.copy
    BY <1>1, <2>1 DEF AtWork, Begun, Saves
  <2>3. Placed(e)
    BY <1>4, <1>5, <2>2 DEF Placed, HistoricalPlace
  <2>4. \A c : Passed(e, c) => Passed(x, c)
    BY <1>4, <2>2 DEF Passed
  <2>5. ExecutorOK(e) /\ e.key = x.key
    BY <1>1, <2>1, <2>3, <2>4, Saving
  <2>6. Becomes(w, e)
    BY <1>2, <1>5, <2>1 DEF Save, Saves
  <2> QED
    BY <1>2, <1>3, <2>5, <2>6, QuietMoves
<1>6. ASSUME NEW at \in {"ack", "list", "model"}, Go(w, at), at = "ack" => Ended(x.run),
             x.pos <= CandidateCount, at = "list" => x.pos \in x.kept
      PROVE  RunsInv'
  <2>1. PICK e : e = [x EXCEPT !.at = at]
    BY Zenon
  <2>2. /\ DOMAIN e = {"at", "key", "run", "pos", "target", "kept", "copy", "missing"}
        /\ e.at = at /\ e.target = x.target /\ e.key = x.key /\ e.run = x.run /\ e.pos = x.pos
        /\ e.copy = x.copy /\ e.kept = x.kept
    BY <1>1, <2>1 DEF AtWork, Begun
  <2>3. Begun(e) /\ Agrees(e)
    BY <1>1, <2>2 DEF AtWork, Begun, Agrees
  <2>4. Placed(e)
    BY <1>4, <1>6, <2>2 DEF Placed, HistoricalPlace, InRange
  <2>5. \A c : Passed(e, c) => Passed(x, c)
    BY <2>2, <1>6 DEF Passed
  <2>6. ASSUME jobThere, at = "list" PROVE AssessmentOf(e) \in assessments
    <3>1. PICK a \in assessments : a.key = x.key /\ a.cand = x.pos
      BY <1>1, <1>6, <2>6 DEF AtWork, Written
    <3>2. airuns[x.key] # NoRun /\ a = [key |-> a.key, cand |-> a.cand, copy |-> a.copy]
      BY <3>1 DEF RunsInv, TablesInv
    <3>3. airuns[x.key].kind = "historical"
      BY <1>1, <1>4, <3>2 DEF AtWork, Agrees
    <3>4. a.copy = 0
      BY <3>1, <3>3 DEF RunsInv, TablesInv
    <3>5. a = AssessmentOf(e)
      BY <1>4, <2>2, <3>1, <3>2, <3>4 DEF AssessmentOf
    <3> QED
      BY <3>5
  <2>7. jobThere => Written(e)
    BY <1>1, <2>2, <2>5, <2>6 DEF AtWork, Written
  <2>8. ExecutorOK(e)
    BY <1>1, <1>6, <2>2, <2>3, <2>4, <2>7 DEF AtWork, Agrees, ExecutorOK
  <2>9. Becomes(w, e)
    BY <1>2, <1>6, <2>1 DEF Go
  <2> QED
    BY <1>2, <1>3, <2>2, <2>8, <2>9, QuietMoves
<1>7. CASE Raise(w)
  BY <1>1, <1>2, <1>3, <1>7, Raised, QuietMoves DEF Outcome
<1>8. CASE x.pos > CandidateCount
  <2>1. \E target \in {"VALIDATING", "COMPLETED"} : Save(w, x.run, x.pos, target) /\ (target = "VALIDATING" => CandidateCount = 0)
    <3>1. ~(x.pos <= CandidateCount)
      BY <1>4, <1>8, AIConstants
    <3>2. Save(w, x.run, x.pos, IF CandidateCount = 0 /\ Status(x.run) = "ANALYZING" THEN "VALIDATING" ELSE "COMPLETED")
      BY <1>2, <1>8, <3>1 DEF execute_saved
    <3> QED
      BY <3>2
  <2> QED
    BY <1>5, <1>8, <2>1
<1>9. CASE ~(x.pos > CandidateCount)
  <2>1. x.pos <= CandidateCount
    BY <1>4, <1>9, AIConstants
  <2>2. CASE Ended(x.run)
    BY <1>2, <1>6, <1>9, <2>1, <2>2 DEF execute_saved
  <2>3. CASE ~Ended(x.run) /\ x.pos \in x.kept
    BY <1>2, <1>6, <1>9, <2>1, <2>3 DEF execute_saved
  <2>4. CASE ~Ended(x.run) /\ x.pos \notin x.kept
    <3>1. Raise(w) \/ Save(w, x.run, x.pos, "ANALYZING") \/ Go(w, "model")
      BY <1>2, <1>9, <2>1, <2>4 DEF execute_saved
    <3> QED
      BY <1>5, <1>6, <1>7, <2>1, <3>1
  <2> QED
    BY <2>2, <2>3, <2>4
<1> QED
  BY <1>8, <1>9

-----------------------------------------------------------------------------
(* The steps on the Redis keys.                                            *)

LEMMA ListsMove ==
  ASSUME RunsInv, UNCHANGED <<storeVars, reviewing>>, UNCHANGED callVars, ExecutorsInv', ListsInv', aiLeases' \in SUBSET RunKeys,
         \A k \in RunKeys : Unheard(k) => Unheard(k)',
         \A k \in RunKeys : Active(k) /\ (Occurs(aiQueue, k) \/ Occurs(aiProcessing, k))
                            => Occurs(aiQueue', k) \/ Occurs(aiProcessing', k)
  PROVE  RunsInv'
<1>1. TablesInv' /\ CompletedIsWhole' /\ DeletionIsComplete'
  BY QuietTables
<1>2. airuns' = airuns /\ jobThere' = jobThere /\ unsent' = unsent /\ dispatching' = dispatching
  BY DEF storeVars, callVars
<1>3. ReviewsInv'
  BY DEF RunsInv, ReviewsInv
<1>4. \A k \in RunKeys : Active(k)' <=> Active(k)
  BY <1>2 DEF Active, Ended, Status
<1>5. EnvelopeKept'
  BY <1>2, <1>4 DEF RunsInv, EnvelopeKept
<1>6. DispatchInv'
  BY <1>2 DEF RunsInv, DispatchInv, Status
<1> QED
  BY <1>1, <1>3, <1>5, <1>6 DEF RunsInv

LEMMA LeaseKeeps ==
  ASSUME RunsInv, NEW w \in AIWorkers, LeaseEnvelope(w)
  PROVE  RunsInv'
<1>1. PICK x : x = executor[w]
  OBVIOUS
<1>2. ExecutorOK(x) /\ x.at = "popped"
  BY <1>1 DEF RunsInv, ExecutorsInv, LeaseEnvelope, Doing
<1>3. x # Idling /\ x.key \in RunKeys /\ DOMAIN x = {"at", "key"}
  BY <1>2 DEF ExecutorOK, Idling, Envelope, Begun
<1>4. PICK e : e = [x EXCEPT !.at = "claimed"]
  BY Zenon
<1>5. e.at = "claimed" /\ e.key = x.key /\ DOMAIN e = {"at", "key"}
  BY <1>3, <1>4
<1>6. ExecutorOK(e)
  BY <1>3, <1>5 DEF ExecutorOK, Envelope
<1>7. StoreStep /\ ResultsGrow /\ \A k : RunKept(k)
  BY QuietStore DEF LeaseEnvelope
<1>8. ExecutorOK(e)'
  BY <1>6, <1>7, HeldStays
<1>9. Becomes(w, e) /\ UNCHANGED <<storeVars, aiQueue, aiProcessing, callVars, reviewing>> /\ aiLeases' = aiLeases \cup {x.key}
  BY <1>1, <1>4 DEF LeaseEnvelope
<1>10. ListsInv' /\ ReviewsInv' /\ ExecutorsInv' /\ DispatchInv' /\ EnvelopeKept'
  BY <1>1, <1>3, <1>5, <1>7, <1>8, <1>9, WorkerMoves
<1>11. aiLeases' \in SUBSET RunKeys
  BY <1>3, <1>9 DEF RunsInv, TablesInv
<1> QED
  BY <1>9, <1>10, <1>11, QuietTables DEF RunsInv

LEMMA PopKeeps ==
  ASSUME RunsInv, NEW w \in AIWorkers, PopEnvelope(w)
  PROVE  RunsInv'
<1>1. aiQueue \in Seq(RunKeys) /\ aiProcessing \in Seq(RunKeys) /\ aiQueue # << >>
  BY DEF RunsInv, ListsInv, PopEnvelope
<1>2. PICK h : h = Head(aiQueue)
  OBVIOUS
<1>3. /\ h \in RunKeys /\ Occurs(aiQueue, h) /\ Tail(aiQueue) \in Seq(RunKeys)
      /\ \A k : Occurs(aiQueue, k) => Occurs(Tail(aiQueue), k) \/ k = h
      /\ \A k : Occurs(Tail(aiQueue), k) => Occurs(aiQueue, k)
  BY <1>1, <1>2, Popped
<1>4. /\ Append(aiProcessing, h) \in Seq(RunKeys)
      /\ \A k : Occurs(Append(aiProcessing, h), k) <=> (Occurs(aiProcessing, k) \/ k = h)
  BY <1>1, <1>3, Pushed
<1>5. PICK e : e = [at |-> "popped", key |-> h]
  BY Zenon
<1>6. /\ aiProcessing' = Append(aiProcessing, h) /\ aiQueue' = Tail(aiQueue) /\ Becomes(w, e)
      /\ UNCHANGED <<storeVars, reviewing>> /\ UNCHANGED callVars /\ aiLeases' = aiLeases
  BY <1>2, <1>5 DEF PopEnvelope
<1>7. ExecutorOK(e)'
  BY <1>3, <1>5 DEF ExecutorOK, Envelope
<1>8. ExecutorsInv'
  BY <1>6, <1>7, QuietStore, OthersStay
<1>9. ListsInv' /\ aiLeases' \in SUBSET RunKeys
  BY <1>3, <1>4, <1>6 DEF RunsInv, TablesInv, ListsInv
<1>10. ASSUME NEW k \in RunKeys, Unheard(k) PROVE Unheard(k)'
  <2>1. k # h
    BY <1>3, <1>10 DEF Unheard
  <2>2. \A v \in AIWorkers : executor'[v] = IF v = w THEN e ELSE executor[v]
    BY <1>6 DEF RunsInv, ExecutorsInv, Becomes
  <2>3. e.key # k
    BY <1>5, <2>1
  <2>4. ~Occurs(aiQueue', k) /\ ~Occurs(aiProcessing', k)
    BY <1>3, <1>4, <1>6, <1>10, <2>1 DEF Unheard
  <2>5. \A v \in AIWorkers : executor'[v] # Idling => executor'[v].key # k
    BY <1>10, <2>2, <2>3 DEF Unheard
  <2> QED
    BY <2>4, <2>5 DEF Unheard
<1> QED
  BY <1>3, <1>4, <1>6, <1>8, <1>9, <1>10, ListsMove

LEMMA AckKeeps ==
  ASSUME RunsInv, NEW w \in AIWorkers, ack(w)
  PROVE  RunsInv'
<1>1. PICK x, h : x = executor[w] /\ h = x.key
  OBVIOUS
<1>2. ExecutorOK(x) /\ x.at = "ack"
  BY <1>1 DEF RunsInv, ExecutorsInv, ack, Doing
<1>3. x # Idling /\ h \in RunKeys /\ ~Active(h)
  BY <1>1, <1>2 DEF ExecutorOK, Idling, Envelope, Begun
<1>4. /\ DropFirst(aiProcessing, h) \in Seq(RunKeys)
      /\ \A k : k # h => (Occurs(DropFirst(aiProcessing, h), k) <=> Occurs(aiProcessing, k))
      /\ Occurs(DropFirst(aiProcessing, h), h) => Occurs(aiProcessing, h)
  BY Taken DEF RunsInv, ListsInv
<1>5. /\ aiProcessing' = DropFirst(aiProcessing, h) /\ aiQueue' = aiQueue /\ aiLeases' = aiLeases \ {h}
      /\ Becomes(w, Idling) /\ UNCHANGED <<storeVars, reviewing>> /\ UNCHANGED callVars
  BY <1>1 DEF ack
<1>6. ExecutorsInv'
  <2>1. PICK e : e = Idling
    OBVIOUS
  <2>2. ExecutorOK(e)' /\ Becomes(w, e)
    BY <1>5, <2>1 DEF ExecutorOK
  <2> QED
    BY <1>5, <2>2, QuietStore, OthersStay
<1>7. ListsInv' /\ aiLeases' \in SUBSET RunKeys
  BY <1>4, <1>5 DEF RunsInv, TablesInv, ListsInv
<1>8. ASSUME NEW k \in RunKeys, Unheard(k) PROVE Unheard(k)'
  <2>1. \A v \in AIWorkers : executor'[v] = IF v = w THEN Idling ELSE executor[v]
    BY <1>5 DEF RunsInv, ExecutorsInv, Becomes
  <2>2. ~Occurs(aiQueue', k) /\ ~Occurs(aiProcessing', k)
    BY <1>4, <1>5, <1>8 DEF Unheard
  <2> QED
    BY <1>8, <2>1, <2>2 DEF Unheard
<1> QED
  BY <1>3, <1>4, <1>5, <1>6, <1>7, <1>8, ListsMove

LEMMA CrashKeeps ==
  ASSUME RunsInv, NEW w \in AIWorkers, CrashWorker(w)
  PROVE  RunsInv'
<1>1. PICK e : e = Idling
  OBVIOUS
<1>2. ExecutorOK(e) /\ executor[w] # Idling
  BY <1>1 DEF ExecutorOK, CrashWorker, Doing, Idling
<1>3. Becomes(w, e) /\ UNCHANGED <<storeVars, redisVars, callVars, reviewing>>
  BY <1>1 DEF CrashWorker
<1> QED
  BY <1>1, <1>2, <1>3, QuietMoves

LEMMA RecoverKeeps ==
  ASSUME RunsInv, NEW h \in RunKeys, recover(h)
  PROVE  RunsInv'
<1>1. aiQueue \in Seq(RunKeys) /\ aiProcessing \in Seq(RunKeys)
  BY DEF RunsInv, ListsInv
<1>2. /\ DropFirst(aiProcessing, h) \in Seq(RunKeys)
      /\ \A k : k # h => (Occurs(DropFirst(aiProcessing, h), k) <=> Occurs(aiProcessing, k))
      /\ Occurs(DropFirst(aiProcessing, h), h) => Occurs(aiProcessing, h)
  BY <1>1, Taken
<1>3. /\ Append(aiQueue, h) \in Seq(RunKeys)
      /\ \A k : Occurs(Append(aiQueue, h), k) <=> (Occurs(aiQueue, k) \/ k = h)
  BY <1>1, Pushed
<1>4. /\ aiProcessing' = DropFirst(aiProcessing, h)
      /\ aiQueue' = IF Occurs(aiProcessing, h) THEN Append(aiQueue, h) ELSE aiQueue
      /\ aiLeases' = aiLeases \ {h}
      /\ UNCHANGED <<storeVars, reviewing>> /\ UNCHANGED callVars /\ executor' = executor
  BY DEF recover
<1>5. ExecutorsInv'
  <2>1. ResultsGrow /\ \A k : RunKept(k)
    BY <1>4, QuietStore
  <2>2. ASSUME NEW v \in AIWorkers PROVE ExecutorOK(executor[v])'
    <3>1. PICK x : x = executor[v]
      OBVIOUS
    <3>2. ExecutorOK(x)
      BY <3>1 DEF RunsInv, ExecutorsInv
    <3>3. ExecutorOK(x)'
      BY <2>1, <3>2, HeldStays
    <3> QED
      BY <1>4, <3>1, <3>3
  <2> QED
    BY <1>4, <2>2 DEF RunsInv, ExecutorsInv
<1>6. ListsInv' /\ aiLeases' \in SUBSET RunKeys
  BY <1>1, <1>2, <1>3, <1>4 DEF RunsInv, TablesInv, ListsInv
<1>7. ASSUME NEW k \in RunKeys, Unheard(k) PROVE Unheard(k)'
  BY <1>2, <1>3, <1>4, <1>7 DEF Unheard
<1> QED
  BY <1>2, <1>3, <1>4, <1>5, <1>6, <1>7, ListsMove

-----------------------------------------------------------------------------
(* The steps that write results.                                           *)

LEMMA ResultsMove ==
  ASSUME RunsInv, ResultsGrow, airuns' = airuns, jobThere' = jobThere, jobThere
  PROVE  StoreStep /\ CompletedIsWhole' /\ DeletionIsComplete'
<1>1. StoreStep
  BY DEF StoreStep, RunKept, Active, Ended, Status
<1>2. CompletedIsWhole'
  <2>1. \A k \in RunKeys, c \in 1..CandidateCount : Whole(k, c) => Whole(k, c)'
    BY WholeStays
  <2> QED
    BY <2>1 DEF RunsInv, CompletedIsWhole, Whole, Status
<1> QED
  BY <1>1, <1>2 DEF DeletionIsComplete

\* The worker after a write whose outcome it does not know.
LEMMA RaisedAfter ==
  ASSUME RunsInv, NEW w \in AIWorkers, NEW x, AtWork(w, x), Raise(w), StoreStep
  PROVE  \E e : Outcome(w, x, e) /\ ExecutorOK(e)'
<1>1. PICK e : Outcome(w, x, e) /\ ExecutorOK(e)
  BY Raised
<1>2. ExecutorOK(e)'
  BY <1>1, Holding, HeldStays DEF StoreStep
<1> QED
  BY <1>1, <1>2

LEMMA RaiseQuietly ==
  ASSUME RunsInv, NEW w \in AIWorkers, NEW x, AtWork(w, x), Raise(w),
         UNCHANGED <<storeVars, redisVars, callVars, reviewing>>
  PROVE  RunsInv'
BY Raised, QuietMoves DEF Outcome, AtWork

LEMMA AssessmentKeeps ==
  ASSUME RunsInv, NEW w \in AIWorkers, save_ai_assessment(w)
  PROVE  RunsInv'
<1>1. PICK x : AtWork(w, x)
  BY Working DEF save_ai_assessment, Doing
<1>2. executor[w] = x /\ x.at = "assess" /\ x # Idling /\ x.key \in RunKeys
  BY <1>1 DEF AtWork, Begun, save_ai_assessment, Doing
<1>3. UNCHANGED <<redisVars, callVars, reviewing>>
  BY DEF save_ai_assessment
<1>4. /\ x.run.kind \in {"plain", "historical"} /\ x.pos \in 1..CandidateCount
      /\ Historical(w) <=> x.run.kind = "historical"
  BY <1>1, <1>2, AIConstants
  DEF AtWork, Begun, Placed, ReportPlace, PlainPlace, HistoricalPlace, Runs, Kinds, InRange, Historical
<1>5. PICK n : n = IF Historical(w) THEN 0 ELSE Cardinality({a \in assessments : a.key = x.key /\ a.cand = x.pos})
  OBVIOUS
<1>6. PICK of : of = [key |-> x.key, cand |-> x.pos, copy |-> n]
  BY Zenon
<1> DEFINE refused == Now(w) = NoRun \/ (Historical(w) /\ (of \in assessments \/ Ended(Now(w))))
           written == assessments' = assessments \cup {of} /\ UNCHANGED <<airuns, drafts>>
           next == [x EXCEPT !.at = IF Historical(w) THEN "list" ELSE "draft", !.copy = of.copy, !.missing = Drafts]
<1>7. IF refused THEN Raise(w) /\ UNCHANGED <<storeVars, aiMishaps>>
      ELSE Commits(w, written, Becomes(w, next)) /\ UNCHANGED <<jobThere, revision>>
  BY <1>2, <1>5, <1>6, Zenon DEF save_ai_assessment
<1>8. CASE refused
  <2>1. Raise(w) /\ UNCHANGED storeVars
    BY <1>7, <1>8
  <2> QED
    BY <1>1, <1>3, <2>1, RaiseQuietly
<1>9. CASE ~refused
  <2>1. airuns[x.key] # NoRun /\ jobThere /\ UNCHANGED <<jobThere, revision>>
    BY <1>2, <1>7, <1>9 DEF Now, RunsInv, DeletionIsComplete
  <2>2. \/ UNCHANGED storeVars /\ Raise(w)
        \/ written /\ Raise(w)
        \/ written /\ Becomes(w, next)
    BY <1>7, <1>9, <2>1 DEF Commits, storeVars
  <2>3. CASE UNCHANGED storeVars /\ Raise(w)
    BY <1>1, <1>3, <2>3, RaiseQuietly
  <2>4. CASE written
    <3>1. ResultsGrow
      BY <2>1, <2>4 DEF ResultsGrow
    <3>2. StoreStep /\ CompletedIsWhole' /\ DeletionIsComplete'
      BY <2>1, <2>4, <3>1, ResultsMove
    <3>3. TablesInv'
      <4>1. airuns[x.key].kind = "historical" => n = 0
        BY <1>1, <1>4, <1>5, <2>1 DEF AtWork, Agrees
      <4>2. /\ of = [key |-> of.key, cand |-> of.cand, copy |-> of.copy] /\ of.key = x.key
            /\ of.cand = x.pos /\ of.copy = n
        BY <1>6
      <4> QED
        BY <1>2, <1>3, <1>4, <2>1, <2>4, <4>1, <4>2 DEF RunsInv, TablesInv, redisVars, callVars
    <3>4. \E e : Outcome(w, x, e) /\ ExecutorOK(e)'
      <4>1. CASE Raise(w)
        BY <1>1, <3>2, <4>1, RaisedAfter
      <4>2. CASE Becomes(w, next)
        <5>1. PICK e : e = next
          OBVIOUS
        <5>2. /\ DOMAIN e = {"at", "key", "run", "pos", "target", "kept", "copy", "missing"}
              /\ e.at = (IF Historical(w) THEN "list" ELSE "draft") /\ e.key = x.key /\ e.run = x.run /\ e.pos = x.pos
              /\ e.target = x.target /\ e.kept = x.kept /\ e.copy = n /\ e.missing = Drafts
          BY <1>1, <1>6, <5>1, Zenon DEF AtWork, Begun
        <5> HIDE DEF next
        <5>3. Begun(e)' /\ Agrees(e)'
          BY <1>1, <2>4, <5>2 DEF AtWork, Begun, Agrees, Active, Ended, Status
        <5>4. Placed(e)'
          BY <1>1, <1>2, <1>4, <1>5, <5>2, Zenon DEF AtWork, Placed, ReportPlace, PlainPlace, HistoricalPlace
        <5>5. Written(x)'
          BY <1>1, <2>1, <3>1, WrittenStays DEF AtWork
        <5>6. \A c : Passed(e, c) => Passed(x, c)
          BY <5>2 DEF Passed
        <5>7. AssessmentOf(e) = of /\ of \in assessments'
          BY <1>6, <2>4, <5>2 DEF AssessmentOf
        <5>8. Written(e)'
          BY <5>2, <5>5, <5>6, <5>7 DEF Written
        <5>9. ExecutorOK(e)'
          BY <5>2, <5>3, <5>4, <5>8 DEF ExecutorOK
        <5> QED
          BY <4>2, <5>1, <5>2, <5>9 DEF Outcome
      <4> QED
        BY <2>2, <4>1, <4>2, <1>1, <2>4, QuietStore, RaisedAfter
    <3>5. PICK e : Outcome(w, x, e) /\ ExecutorOK(e)'
      BY <3>4
    <3>6. ListsInv' /\ ReviewsInv' /\ ExecutorsInv' /\ DispatchInv' /\ EnvelopeKept'
      BY <1>2, <1>3, <3>2, <3>5, WorkerMoves DEF Outcome, redisVars
    <3> QED
      BY <3>2, <3>3, <3>6 DEF RunsInv
  <2> HIDE DEF written, next
  <2> QED
    BY <2>2, <2>3, <2>4
<1> HIDE DEF refused
<1> QED
  BY <1>8, <1>9

LEMMA ArtifactKeeps ==
  ASSUME RunsInv, NEW w \in AIWorkers, save_ai_artifact(w)
  PROVE  RunsInv'
<1>1. PICK x : AtWork(w, x)
  BY Working DEF save_ai_artifact, Doing
<1>2. executor[w] = x /\ x.at = "draft" /\ x # Idling /\ x.missing # {} /\ Assessed(w) = AssessmentOf(x)
  BY <1>1 DEF AtWork, Begun, save_ai_artifact, Doing, Assessed, AssessmentOf
<1>3. UNCHANGED <<redisVars, callVars, reviewing>>
  BY DEF save_ai_artifact
<1>4. PICK kind : kind = CHOOSE y \in x.missing : TRUE
  OBVIOUS
<1>5. PICK new, of : of = AssessmentOf(x) /\ new = AIDraft(of, kind, 0)
  OBVIOUS
<1>6. new.of = of /\ new.kind = kind /\ new.review = "PENDING"
      /\ new = [of |-> new.of, kind |-> new.kind, n |-> new.n, review |-> new.review]
  BY <1>5 DEF AIDraft
<1> DEFINE refused == of \notin assessments \/ (Historical(w) /\ Status(Now(w)) \in {"FAILED", "CANCELLED"})
           written == /\ drafts' = IF \E d \in drafts : SameDraft(d, new) THEN drafts ELSE drafts \cup {new}
                      /\ UNCHANGED <<airuns, assessments>>
           next == [x EXCEPT !.missing = x.missing \ {kind}]
<1>7. IF refused THEN Raise(w) /\ UNCHANGED <<storeVars, aiMishaps>>
      ELSE Commits(w, written, Becomes(w, next)) /\ UNCHANGED <<jobThere, revision>>
  BY <1>2, <1>4, <1>5, Zenon DEF save_ai_artifact
<1>8. CASE refused
  <2>1. Raise(w) /\ UNCHANGED storeVars
    BY <1>7, <1>8, Zenon
  <2> QED
    BY <1>1, <1>3, <2>1, RaiseQuietly
<1>9. CASE ~refused
  <2>1. of \in assessments /\ jobThere /\ UNCHANGED <<jobThere, revision>>
    BY <1>7, <1>9 DEF RunsInv, DeletionIsComplete
  <2>2. \/ UNCHANGED storeVars /\ Raise(w)
        \/ written /\ Raise(w)
        \/ written /\ Becomes(w, next)
    BY <1>7, <1>9, <2>1 DEF Commits, storeVars
  <2>3. CASE UNCHANGED storeVars /\ Raise(w)
    BY <1>1, <1>3, <2>3, RaiseQuietly
  <2>4. CASE written
    <3>0. drafts \subseteq drafts' /\ drafts' \subseteq drafts \cup {new} /\ airuns' = airuns /\ assessments' = assessments
      BY <2>4
    <3>1. ResultsGrow
      BY <2>1, <3>0 DEF ResultsGrow
    <3>2. StoreStep /\ CompletedIsWhole' /\ DeletionIsComplete'
      BY <2>1, <3>0, <3>1, ResultsMove
    <3>3. TablesInv'
      <4>1. ASSUME NEW d \in drafts'
            PROVE  /\ d = [of |-> d.of, kind |-> d.kind, n |-> d.n, review |-> d.review]
                   /\ d.of \in assessments /\ d.review \in {"PENDING", "APPROVED", "REJECTED"}
        <5>1. CASE d \in drafts
          BY <5>1 DEF RunsInv, TablesInv
        <5>2. CASE d = new
          BY <1>6, <2>1, <5>2
        <5> QED
          BY <3>0, <5>1, <5>2
      <4> QED
        BY <1>3, <2>1, <3>0, <4>1 DEF RunsInv, TablesInv, redisVars, callVars
    <3>4. ASSUME Becomes(w, next) PROVE \E e : Outcome(w, x, e) /\ ExecutorOK(e)'
      <4>1. PICK e : e = next
        BY ZenonT(30)
      <4>2. /\ DOMAIN e = {"at", "key", "run", "pos", "target", "kept", "copy", "missing"}
            /\ e.at = x.at /\ e.key = x.key /\ e.run = x.run /\ e.pos = x.pos
            /\ e.target = x.target /\ e.kept = x.kept /\ e.copy = x.copy /\ e.missing = x.missing \ {kind}
        BY <1>1, <4>1, Zenon DEF AtWork, Begun
      <4> HIDE DEF next
      <4>3. Begun(e)' /\ Agrees(e)'
        BY <1>1, <3>0, <4>2 DEF AtWork, Begun, Agrees, Active, Ended, Status
      <4>4. Placed(e)'
        BY <1>1, <4>2, Zenon DEF AtWork, Placed, ReportPlace, PlainPlace, HistoricalPlace
      <4>5. Written(x)'
        BY <1>1, <2>1, <3>1, WrittenStays DEF AtWork
      <4>6. \A c : Passed(e, c) <=> Passed(x, c)
        BY <4>2 DEF Passed
      <4>7. AssessmentOf(e) = of
        BY <1>5, <4>2 DEF AssessmentOf
      <4>8. \E d \in drafts' : d.of = of /\ d.kind = kind
        BY <1>6, <2>4 DEF SameDraft
      <4>9. Written(e)'
        <5>1. \A y \in Drafts \ e.missing : y = kind \/ y \in Drafts \ x.missing
          BY <4>2, Zenon
        <5> QED
          BY <1>2, <1>5, <4>2, <4>5, <4>6, <4>7, <4>8, <5>1 DEF Written
      <4>10. ExecutorOK(e)'
        BY <1>2, <4>2, <4>3, <4>4, <4>9 DEF ExecutorOK
      <4> QED
        BY <3>4, <4>1, <4>2, <4>10 DEF Outcome
    <3>5. PICK e : Outcome(w, x, e) /\ ExecutorOK(e)'
      <4>1. CASE Raise(w)
        BY <1>1, <3>2, <4>1, RaisedAfter
      <4> HIDE DEF written, next
      <4> QED
        BY <1>1, <2>2, <3>2, <3>4, <4>1, RaisedAfter
    <3>6. ListsInv' /\ ReviewsInv' /\ ExecutorsInv' /\ DispatchInv' /\ EnvelopeKept'
      BY <1>2, <1>3, <3>2, <3>5, WorkerMoves, Zenon DEF Outcome, redisVars
    <3> QED
      BY <3>2, <3>3, <3>6 DEF RunsInv
  <2> HIDE DEF written, next
  <2> QED
    BY <2>2, <2>3, <2>4
<1> HIDE DEF refused
<1> QED
  BY <1>8, <1>9

-----------------------------------------------------------------------------
(* The transitions of a run.                                               *)

\* After a transition that left the run as r.
LEMMA Continued ==
  ASSUME NEW w, NEW x, x = executor[w], Begun(x), Placed(x), x.at = "save", NEW r \in Runs, r.kind = x.run.kind,
         airuns'[x.key] # NoRun => airuns'[x.key].kind = r.kind, Ended(r) => ~Active(x.key)',
         x.target \in AITerminal => ~Active(x.key)', jobThere' => Written(x)', Continue(w, r)
  PROVE  \E e : Outcome(w, x, e) /\ ExecutorOK(e)'
<1> DEFINE historical == r.kind = "historical"
           over == x.target \in AITerminal \/ (historical /\ Ended(r) /\ (x.target # "ANALYZING" \/ x.pos > 0))
           analyzing == [x EXCEPT !.run = r, !.pos = IF historical THEN x.pos ELSE x.pos + 1,
                                  !.at = IF historical /\ x.pos = 0 THEN "retained" ELSE "model"]
<1>1. /\ DOMAIN x = {"at", "key", "run", "pos", "target", "kept", "copy", "missing"}
      /\ x.key \in RunKeys /\ x.pos \in Nat /\ r.kind \in Kinds
      /\ x.target \in {"PREPARING", "ANALYZING", "VALIDATING", "COMPLETED", "FAILED", "CANCELLED"}
  BY Zenon DEF Begun, Runs
<1>2. CASE over
  <2>1. PICK e : e = [at |-> "ack", key |-> x.key]
    BY Zenon
  <2>2. ~Active(x.key)'
    BY <1>2
  <2>3. Becomes(w, e)
    <3>1. Becomes(w, [at |-> "ack", key |-> executor[w].key])
      BY <1>2, Zenon DEF Continue
    <3> QED
      BY <2>1, <3>1
  <2>4. ExecutorOK(e)'
    BY <1>1, <2>1, <2>2, Zenon DEF ExecutorOK, Envelope
  <2> QED
    BY <2>1, <2>3, <2>4 DEF Outcome
<1>3. ASSUME NEW e, DOMAIN e = {"at", "key", "run", "pos", "target", "kept", "copy", "missing"},
             e.key = x.key, e.run \in Runs, e.run.kind = r.kind, e.run.transitions = r.transitions, e.pos \in Nat,
             e.target \in {"ANALYZING", "VALIDATING", "COMPLETED"}, e.kept = x.kept,
             e.at \in {"save", "model", "retained", "assess"}, Placed(e),
             \A c \in 1..CandidateCount : Passed(e, c) => Passed(x, c)
      PROVE  ExecutorOK(e)'
  <2>1. Begun(e)' /\ Placed(e)'
    BY <1>1, <1>3, ZenonT(30) DEF Begun, Placed, ReportPlace, PlainPlace, HistoricalPlace, InRange
  <2>2. Agrees(e)'
    BY <1>3, ZenonT(30) DEF Agrees, Ended, Status
  <2>3. jobThere' => Written(e)'
    BY <1>3, WrittenOnward
  <2> QED
    BY <1>3, <2>1, <2>2, <2>3 DEF ExecutorOK
<1>4. CASE ~over /\ x.target = "PREPARING"
  <2>1. PICK e : e = [x EXCEPT !.at = "save", !.run = r, !.pos = x.pos, !.target = "ANALYZING"]
    OBVIOUS
  <2>2. /\ DOMAIN e = {"at", "key", "run", "pos", "target", "kept", "copy", "missing"}
        /\ e.at = "save" /\ e.key = x.key /\ e.run = r /\ e.pos = x.pos /\ e.target = "ANALYZING"
        /\ e.kept = x.kept /\ e.copy = x.copy
    BY <1>1, <2>1
  <2>3. Becomes(w, e)
    <3>1. Save(w, r, x.pos, "ANALYZING")
      BY <1>4 DEF Continue
    <3> QED
      BY <2>1, <3>1 DEF Save
  <2>4. Placed(e)
    BY <1>4, <2>2, PlacedFirst, Zenon
  <2>5. \A c \in 1..CandidateCount : Passed(e, c) => Passed(x, c)
    BY <1>1, <1>4, <2>2, NoneReached, Zenon
  <2>6. ExecutorOK(e)'
    BY <1>1, <1>3, <2>2, <2>4, <2>5
  <2> QED
    BY <2>2, <2>3, <2>6 DEF Outcome
<1>5. CASE ~over /\ x.target = "ANALYZING"
  <2>1. PICK e : e = analyzing
    OBVIOUS
  <2>2. /\ DOMAIN e = {"at", "key", "run", "pos", "target", "kept", "copy", "missing"}
        /\ e.at = (IF historical /\ x.pos = 0 THEN "retained" ELSE "model") /\ e.key = x.key /\ e.run = r
        /\ e.pos = (IF historical THEN x.pos ELSE x.pos + 1) /\ e.target = "ANALYZING"
        /\ e.kept = x.kept /\ e.copy = x.copy
    BY <1>1, <1>5, <2>1
  <2>3. Becomes(w, e)
    <3>1. Becomes(w, [executor[w] EXCEPT !.run = r, !.pos = IF historical THEN @ ELSE @ + 1,
                                         !.at = IF historical /\ x.pos = 0 THEN "retained" ELSE "model"])
      BY <1>5, Zenon DEF Continue
    <3> QED
      BY <2>1, <3>1
  <2>4. Placed(e)
    BY <1>1, <1>5, <2>2, AIConstants DEF Placed, ReportPlace, PlainPlace, HistoricalPlace, InRange
  <2>5. \A c \in 1..CandidateCount : r.kind # "report" /\ Passed(e, c) => Passed(x, c)
    <3>1. e.at # "save"
      BY <2>2, Zenon
    <3> QED
      BY <1>1, <1>5, <2>2, <3>1, NoneSkipped, Zenon DEF Kinds
  <2>6. ExecutorOK(e)'
    <3>1. Begun(e)' /\ Placed(e)'
      <4>1. Begun(e)
        BY <1>1, <2>2 DEF Begun
      <4> QED
        BY <2>4, <4>1, PlacesStay, Zenon
    <3>2. Agrees(e)'
      BY <2>2 DEF Agrees, Ended, Status
    <3>3. jobThere' => Written(e)'
      BY <2>2, <2>5, WrittenOnward
    <3> QED
      BY <2>2, <3>1, <3>2, <3>3 DEF ExecutorOK
  <2> QED
    BY <2>2, <2>3, <2>6 DEF Outcome
<1>6. CASE ~over /\ x.target = "VALIDATING"
  <2>1. CASE r.kind = "report"
    <3>1. PICK s : s = [r EXCEPT !.answered = TRUE]
      BY Zenon
    <3>2. s \in Runs /\ s.kind = r.kind /\ s.transitions = r.transitions /\ s.answered = TRUE
      BY <3>1, Zenon DEF Runs
    <3>3. PICK e : e = [x EXCEPT !.at = "save", !.run = s, !.pos = x.pos, !.target = "COMPLETED"]
      OBVIOUS
    <3>4. /\ DOMAIN e = {"at", "key", "run", "pos", "target", "kept", "copy", "missing"}
          /\ e.at = "save" /\ e.key = x.key /\ e.run = s /\ e.pos = x.pos /\ e.target = "COMPLETED"
          /\ e.kept = x.kept
      BY <1>1, <3>3
    <3>5. Becomes(w, e)
      <4>1. Save(w, [r EXCEPT !.answered = TRUE], x.pos, "COMPLETED")
        BY <1>6, <2>1, Zenon DEF Continue
      <4> QED
        BY <3>1, <3>3, <4>1 DEF Save
    <3>6. Placed(e)
      BY <2>1, <3>2, <3>4 DEF Placed, ReportPlace
    <3>7. \A c \in 1..CandidateCount : Passed(e, c) => Passed(x, c)
      BY <2>1, <3>2, <3>4, Zenon DEF Passed
    <3>8. ExecutorOK(e)'
      BY <1>1, <1>3, <3>2, <3>4, <3>6, <3>7
    <3> QED
      BY <3>4, <3>5, <3>8 DEF Outcome
  <2>2. CASE historical /\ CandidateCount = 0
    <3>3. PICK e : e = [x EXCEPT !.at = "save", !.run = r, !.pos = x.pos, !.target = "COMPLETED"]
      OBVIOUS
    <3>4. /\ DOMAIN e = {"at", "key", "run", "pos", "target", "kept", "copy", "missing"}
          /\ e.at = "save" /\ e.key = x.key /\ e.run = r /\ e.pos = x.pos /\ e.target = "COMPLETED"
          /\ e.kept = x.kept /\ e.copy = x.copy
      BY <1>1, <3>3
    <3>5. Becomes(w, e)
      <4>1. Save(w, r, x.pos, "COMPLETED")
        BY <1>6, <2>2, Zenon DEF Continue
      <4> QED
        BY <3>3, <4>1 DEF Save
    <3>6. Placed(e)
      BY <2>2, <3>4 DEF Placed, HistoricalPlace
    <3>7. \A c \in 1..CandidateCount : Passed(e, c) => Passed(x, c)
      BY <2>2, <3>4, Zenon DEF Passed
    <3>8. ExecutorOK(e)'
      BY <1>1, <1>3, <3>4, <3>6, <3>7
    <3> QED
      BY <3>4, <3>5, <3>8 DEF Outcome
  <2>3. CASE r.kind # "report" /\ ~(historical /\ CandidateCount = 0)
    <3>3. PICK e : e = [x EXCEPT !.run = r, !.at = "assess"]
      OBVIOUS
    <3>4. /\ DOMAIN e = {"at", "key", "run", "pos", "target", "kept", "copy", "missing"}
          /\ e.at = "assess" /\ e.key = x.key /\ e.run = r /\ e.pos = x.pos /\ e.target = "VALIDATING"
          /\ e.kept = x.kept /\ e.copy = x.copy
      BY <1>1, <1>6, <3>3
    <3>5. Becomes(w, e)
      <4>1. Becomes(w, [executor[w] EXCEPT !.run = r, !.at = "assess"])
        BY <1>6, <2>3, Zenon DEF Continue
      <4> QED
        BY <3>3, <4>1
    <3>6. Placed(e)
      BY <1>6, <2>3, <3>4 DEF Placed, PlainPlace, HistoricalPlace
    <3>7. \A c \in 1..CandidateCount : Passed(e, c) => Passed(x, c)
      BY <3>4, Zenon DEF Passed
    <3>8. ExecutorOK(e)'
      BY <1>1, <1>3, <3>4, <3>6, <3>7, Zenon
    <3> QED
      BY <3>4, <3>5, <3>8, Zenon DEF Outcome
  <2> QED
    BY <2>1, <2>2, <2>3
<1>7. ~over => x.target \in {"PREPARING", "ANALYZING", "VALIDATING"}
  BY <1>1 DEF AITerminal
<1> QED
  BY <1>2, <1>4, <1>5, <1>6, <1>7, Zenon

LEMMA NoRunIsNone == \A r \in Runs : r # NoRun /\ r.kind \in Kinds
BY DEF Runs, NoRun, Kinds

LEMMA MovedRun ==
  ASSUME NEW r \in Runs, NEW target \in Statuses, NEW writer \in AIWorkers \cup {"api"}
  PROVE  /\ Moved(r, target, writer) \in Runs /\ Moved(r, target, writer).kind = r.kind
         /\ Moved(r, target, writer).answered = r.answered /\ Status(Moved(r, target, writer)) = target
         /\ Moved(r, target, writer).transitions = Append(r.transitions, <<target, writer>>)
<1>1. r.transitions \in Seq(Transitions) \ {<< >>}
  BY DEF Runs
<1>2. <<target, writer>> \in Transitions
  BY DEF Transitions
<1>3. PICK t : t = Append(r.transitions, <<target, writer>>)
  BY Zenon
<1>4. t \in Seq(Transitions) /\ t # << >> /\ Len(t) = Len(r.transitions) + 1 /\ t[Len(t)] = <<target, writer>>
  BY <1>1, <1>2, <1>3
<1>5. Moved(r, target, writer) = [r EXCEPT !.transitions = t]
  BY <1>3 DEF Moved
<1>6. [r EXCEPT !.transitions = t] \in Runs
  BY <1>4 DEF Runs
<1>7. /\ [r EXCEPT !.transitions = t].transitions = t /\ [r EXCEPT !.transitions = t].kind = r.kind
      /\ [r EXCEPT !.transitions = t].answered = r.answered
  BY DEF Runs
<1>8. <<target, writer>>[1] = target
  OBVIOUS
<1> QED
  BY <1>3, <1>4, <1>5, <1>6, <1>7, <1>8 DEF Status, LastOf

\* The table after a save of s.
LEMMA SaveMoves ==
  ASSUME RunsInv, NEW k \in RunKeys, airuns[k] # NoRun, NEW s \in Runs, airuns' = [airuns EXCEPT ![k] = s],
         s.kind = airuns[k].kind, Ended(airuns[k]) => s = airuns[k],
         Status(s) = "COMPLETED" => IF s.kind = "report" THEN s.answered ELSE \A c \in 1..CandidateCount : Whole(k, c),
         UNCHANGED <<assessments, drafts, jobThere>>, UNCHANGED <<redisVars, callVars>>
  PROVE  /\ ResultsGrow /\ (\A j \in RunKeys : RunKept(j) /\ (airuns'[j] = NoRun => airuns[j] = NoRun))
         /\ TablesInv' /\ DeletionIsComplete' /\ CompletedIsWhole'
<1>1. airuns \in [RunKeys -> Runs \cup {NoRun}] /\ s # NoRun /\ jobThere
  BY NoRunIsNone DEF RunsInv, TablesInv, DeletionIsComplete
<1>2. airuns' \in [RunKeys -> Runs \cup {NoRun}] /\ \A j \in RunKeys : airuns'[j] = IF j = k THEN s ELSE airuns[j]
  BY <1>1
<1>3. ResultsGrow
  BY <1>1 DEF ResultsGrow
<1>4. ASSUME NEW j \in RunKeys PROVE RunKept(j) /\ (airuns'[j] = NoRun => airuns[j] = NoRun)
  <2>1. CASE j = k
    BY <1>1, <1>2, <2>1 DEF RunKept, Active
  <2>2. CASE j # k
    BY <1>2, <2>2 DEF RunKept, Active, Ended, Status
  <2> QED
    BY <2>1, <2>2
<1>5. TablesInv'
  <2>1. \A j \in RunKeys : airuns'[j].kind = airuns[j].kind /\ (airuns[j] # NoRun => airuns'[j] # NoRun)
    BY <1>1, <1>2
  <2> QED
    BY <1>2, <2>1 DEF RunsInv, TablesInv, redisVars, callVars
<1>6. DeletionIsComplete'
  BY <1>1 DEF DeletionIsComplete
<1>7. CompletedIsWhole'
  <2>1. ASSUME NEW j \in RunKeys, airuns'[j] # NoRun, Status(airuns'[j]) = "COMPLETED"
        PROVE  IF airuns'[j].kind = "report" THEN airuns'[j].answered ELSE \A c \in 1..CandidateCount : Whole(j, c)
    <3>1. CASE j = k
      BY <1>2, <2>1, <3>1
    <3>2. CASE j # k
      BY <1>2, <2>1, <3>2 DEF RunsInv, CompletedIsWhole, Whole
    <3> QED
      BY <3>1, <3>2
  <2> QED
    BY <2>1 DEF CompletedIsWhole, Whole, Status
<1> QED
  BY <1>3, <1>4, <1>5, <1>6, <1>7

LEMMA TransitionKeeps ==
  ASSUME RunsInv, NEW w \in AIWorkers, transition(w)
  PROVE  RunsInv'
<1>1. PICK x : AtWork(w, x)
  BY Working DEF transition, Doing
<1>2. executor[w] = x /\ x.at = "save" /\ x # Idling /\ x.key \in RunKeys /\ x.run \in Runs
  BY <1>1, Zenon DEF AtWork, Begun, transition, Doing
<1>3. UNCHANGED <<redisVars, callVars, reviewing>> /\ UNCHANGED <<redisVars, callVars>>
  BY DEF transition
<1>4. PICK m : m = Moved(x.run, x.target, w)
  OBVIOUS
<1>5. m \in Runs /\ m.kind = x.run.kind /\ m.answered = x.run.answered /\ Status(m) = x.target
  <2>1. x.target \in Statuses
    BY <1>1 DEF AtWork, Begun, Statuses
  <2> QED
    BY <1>2, <1>4, <2>1, MovedRun
<1>6. CASE Ended(x.run)
  <2>1. Continue(w, x.run) /\ UNCHANGED storeVars
    BY <1>2, <1>6, Zenon DEF transition
  <2>2. StoreStep /\ ResultsGrow /\ \A k : RunKept(k)
    BY <2>1, QuietStore
  <2>3. airuns' = airuns /\ ~Active(x.key)'
    BY <1>1, <1>6, <2>1, <2>2, Zenon DEF AtWork, Agrees, RunKept, storeVars
  <2>4. jobThere' => Written(x)'
    BY <1>1, <2>2, WrittenStays DEF AtWork
  <2>5. airuns'[x.key] # NoRun => airuns'[x.key].kind = x.run.kind
    BY <1>1, <2>3 DEF AtWork, Agrees
  <2>6. PICK e : Outcome(w, x, e) /\ ExecutorOK(e)'
    BY <1>1, <1>2, <2>1, <2>3, <2>4, <2>5, Continued, Zenon DEF AtWork
  <2>7. ListsInv' /\ ReviewsInv' /\ ExecutorsInv' /\ DispatchInv' /\ EnvelopeKept'
    BY <1>2, <1>3, <2>2, <2>6, WorkerMoves DEF Outcome, redisVars
  <2>8. TablesInv' /\ CompletedIsWhole' /\ DeletionIsComplete'
    BY <1>3, <2>1, QuietTables DEF RunsInv, TablesInv, redisVars
  <2> QED
    BY <2>7, <2>8 DEF RunsInv
<1> DEFINE refused == x.target \notin AllowedTransitions[Status(x.run)] \/ ~CanSave(x.key, m)
           saved == save_ai_run(x.key, m)
           written == airuns' = [airuns EXCEPT ![x.key] = saved] /\ UNCHANGED <<assessments, drafts>>
<1>7. CASE ~Ended(x.run) /\ refused
  <2>1. Raise(w) /\ UNCHANGED storeVars
    BY <1>2, <1>4, <1>7, Zenon DEF transition
  <2> QED
    BY <1>1, <1>3, <2>1, RaiseQuietly
<1>8. CASE ~Ended(x.run) /\ ~refused
  <2>1. Commits(w, written, Continue(w, saved)) /\ UNCHANGED <<jobThere, revision>>
    BY <1>2, <1>4, <1>8, Zenon DEF transition
  <2>2. airuns[x.key] # NoRun /\ airuns[x.key] \in Runs /\ jobThere /\ airuns[x.key].kind = x.run.kind
    BY <1>1, <1>2, <1>8 DEF CanSave, RunsInv, TablesInv, DeletionIsComplete, AtWork, Agrees
  <2>3. \/ UNCHANGED storeVars /\ Raise(w)
        \/ written /\ Raise(w)
        \/ written /\ Continue(w, saved)
    BY <2>1 DEF Commits, storeVars
  <2>4. CASE UNCHANGED storeVars /\ Raise(w)
    BY <1>1, <1>3, <2>4, RaiseQuietly
  <2>5. CASE written
    <3>1. PICK s : s = saved
      OBVIOUS
    <3>2. s = IF Ended(airuns[x.key]) THEN airuns[x.key] ELSE m
      BY <3>1 DEF save_ai_run
    <3>3. s \in Runs /\ s.kind = airuns[x.key].kind /\ (Ended(airuns[x.key]) => s = airuns[x.key])
      BY <1>5, <2>2, <3>2
    <3>4. Status(s) = "COMPLETED" =>
             IF s.kind = "report" THEN s.answered ELSE \A c \in 1..CandidateCount : Whole(x.key, c)
      <4>1. CASE Ended(airuns[x.key])
        BY <1>2, <2>2, <3>2, <4>1 DEF RunsInv, CompletedIsWhole, Whole
      <4>2. CASE ~Ended(airuns[x.key]) /\ s.kind = "report"
        <5>1. s = m /\ Placed(x) /\ x.run.kind = "report"
          BY <1>1, <1>5, <3>2, <4>2 DEF AtWork
        <5> QED
          BY <1>2, <1>5, <4>2, <5>1, Zenon DEF Placed, ReportPlace
      <4>3. CASE ~Ended(airuns[x.key]) /\ s.kind # "report"
        <5>1. s = m /\ Placed(x) /\ x.run.kind \in {"plain", "historical"} /\ Written(x) /\ x.pos \in Nat
          BY <1>1, <1>2, <1>5, <2>2, <3>2, <4>3, Zenon DEF AtWork, Begun, Runs, Kinds
        <5>2. ASSUME x.target = "COMPLETED", NEW c \in 1..CandidateCount PROVE Passed(x, c)
          BY <1>2, <5>1, <5>2, AIConstants DEF Placed, PlainPlace, HistoricalPlace, Passed
        <5> QED
          BY <1>5, <4>3, <5>1, <5>2 DEF Written
      <4> QED
        BY <4>1, <4>2, <4>3
    <3>5. airuns' = [airuns EXCEPT ![x.key] = s] /\ UNCHANGED <<assessments, drafts, jobThere>>
      BY <2>1, <2>5, <3>1
    <3>6. /\ ResultsGrow /\ (\A j \in RunKeys : RunKept(j) /\ (airuns'[j] = NoRun => airuns[j] = NoRun))
          /\ TablesInv' /\ DeletionIsComplete' /\ CompletedIsWhole'
      BY <1>2, <1>3, <2>2, <3>3, <3>4, <3>5, SaveMoves, Zenon
    <3>7. StoreStep
      <4>1. x.key \notin unsent
        BY <1>2, <2>2 DEF RunsInv, DispatchInv, Unheard
      <4>2. \A j \in RunKeys : j # x.key => airuns'[j] = airuns[j]
        BY <3>5 DEF RunsInv, TablesInv
      <4> QED
        BY <3>5, <3>6, <4>1, <4>2 DEF StoreStep
    <3>8. airuns'[x.key] = s
      BY <1>2, <3>5 DEF RunsInv, TablesInv
    <3>9. ASSUME Continue(w, saved) PROVE \E e : Outcome(w, x, e) /\ ExecutorOK(e)'
      <4>1. Ended(s) => ~Active(x.key)'
        BY <3>8 DEF Active, Ended, Status
      <4>2. x.target \in AITerminal => ~Active(x.key)'
        BY <1>5, <3>2, <4>1 DEF Ended
      <4>3. jobThere' => Written(x)'
        BY <1>1, <3>6, WrittenStays DEF AtWork
      <4>4. s.kind = x.run.kind /\ Continue(w, s)
        BY <2>2, <3>1, <3>3, <3>9
      <4> QED
        BY <1>1, <1>2, <3>3, <3>8, <4>1, <4>2, <4>3, <4>4, Continued, Zenon DEF AtWork
    <3>10. Raise(w) => \E e : Outcome(w, x, e) /\ ExecutorOK(e)'
      BY <1>1, <3>7, RaisedAfter
    <3> HIDE DEF written, saved
    <3>11. PICK e : Outcome(w, x, e) /\ ExecutorOK(e)'
      BY <2>3, <3>9, <3>10, Zenon
    <3>12. ListsInv' /\ ReviewsInv' /\ ExecutorsInv' /\ DispatchInv' /\ EnvelopeKept'
      BY <1>2, <1>3, <3>7, <3>11, WorkerMoves DEF Outcome, redisVars
    <3> QED
      BY <3>6, <3>12, Zenon DEF RunsInv
  <2> HIDE DEF written, saved
  <2> QED
    BY <2>3, <2>4, <2>5
<1> HIDE DEF refused
<1> QED
  BY <1>6, <1>7, <1>8, Zenon

-----------------------------------------------------------------------------
(* The requests.                                                           *)

\* The workers when none of them moves.
LEMMA WorkersStay ==
  ASSUME RunsInv, executor' = executor, ResultsGrow,
         \A v \in AIWorkers : executor[v] # Idling => RunKept(executor[v].key)
  PROVE  ExecutorsInv'
<1>1. ASSUME NEW v \in AIWorkers PROVE ExecutorOK(executor[v])'
  <2>1. PICK x : x = executor[v]
    OBVIOUS
  <2>2. ExecutorOK(x)
    BY <2>1 DEF RunsInv, ExecutorsInv
  <2>3. x # Idling => RunKept(x.key)
    BY <2>1
  <2>4. ExecutorOK(x)'
    BY <2>2, <2>3, HeldStays
  <2> QED
    BY <2>1, <2>4
<1> QED
  BY <1>1 DEF RunsInv, ExecutorsInv

LEMMA KeysHeld ==
  ASSUME RunsInv, NEW v \in AIWorkers, executor[v] # Idling
  PROVE  executor[v].key \in RunKeys
<1>1. PICK x : x = executor[v]
  OBVIOUS
<1>2. ExecutorOK(x)
  BY <1>1 DEF RunsInv, ExecutorsInv
<1> QED
  BY <1>1, <1>2, Holding

\* A run is created, of whatever kind.
LEMMA CreateMoves ==
  ASSUME RunsInv, NEW k \in RunKeys, NEW kind \in Kinds, NEW n \in Nat, jobThere, airuns[k] = NoRun,
         kind = "plain" => CandidateCount > 0, airuns' = [airuns EXCEPT ![k] = NewRun(kind, n)],
         dispatching' = dispatching \cup {k}, unsent' = unsent \cup {k},
         UNCHANGED <<assessments, drafts, jobThere, revision, redisVars, executor, reviewing, aiMishaps>>
  PROVE  RunsInv'
<1>1. PICK s : s = NewRun(kind, n)
  OBVIOUS
<1>2. s \in Runs /\ s.kind = kind /\ Status(s) = "QUEUED"
  <2>1. <<"QUEUED", "api">> \in Transitions
    BY DEF Transitions, Statuses
  <2>2. << <<"QUEUED", "api">> >> \in Seq(Transitions) \ {<< >>}
    BY <2>1
  <2>3. s.transitions = << <<"QUEUED", "api">> >> /\ s.kind = kind
    BY <1>1 DEF NewRun
  <2>4. s.transitions[Len(s.transitions)][1] = "QUEUED"
    BY <2>3
  <2> QED
    BY <1>1, <2>2, <2>3, <2>4 DEF NewRun, Runs, Status, LastOf
<1>3. s # NoRun
  BY <1>2, NoRunIsNone
<1>4. /\ airuns' \in [RunKeys -> Runs \cup {NoRun}] /\ airuns'[k] = s
      /\ \A j \in RunKeys : j # k => airuns'[j] = airuns[j]
  BY <1>1, <1>2 DEF RunsInv, TablesInv
<1>5. UNCHANGED <<aiQueue, aiProcessing, aiLeases>>
  BY DEF redisVars
<1>6. TablesInv'
  <2>1. \A j \in RunKeys : airuns'[j].kind = "plain" => CandidateCount > 0
    BY <1>2, <1>4 DEF RunsInv, TablesInv
  <2>2. \A a \in assessments : a.key # k
    BY DEF RunsInv, TablesInv
  <2>3. \A a \in assessments' : /\ a = [key |-> a.key, cand |-> a.cand, copy |-> a.copy]
                                /\ a.key \in RunKeys /\ airuns'[a.key] # NoRun /\ a.cand \in 1..CandidateCount
                                /\ airuns'[a.key].kind = "historical" => a.copy = 0
    BY <1>4, <2>2 DEF RunsInv, TablesInv
  <2> QED
    BY <1>4, <1>5, <2>1, <2>3 DEF RunsInv, TablesInv
<1>7. ListsInv' /\ ReviewsInv' /\ DeletionIsComplete'
  BY <1>5 DEF RunsInv, ListsInv, ReviewsInv, DeletionIsComplete
<1>8. Unheard(k)
  BY DEF RunsInv, DispatchInv
<1>9. \A j \in RunKeys : j # k => RunKept(j)
  BY <1>4 DEF RunKept, Active, Ended, Status
<1>10. ExecutorsInv'
  <2>1. ResultsGrow
    BY DEF ResultsGrow
  <2>2. \A v \in AIWorkers : executor[v] # Idling => RunKept(executor[v].key)
    BY <1>8, <1>9, KeysHeld DEF Unheard
  <2> QED
    BY <2>1, <2>2, WorkersStay
<1>11. \A j \in RunKeys : Unheard(j)' <=> Unheard(j)
  BY <1>5 DEF Unheard
<1>12. DispatchInv'
  BY <1>2, <1>3, <1>4, <1>8, <1>11 DEF RunsInv, DispatchInv, Status
<1>13. EnvelopeKept'
  BY <1>4, <1>5, <1>9 DEF RunsInv, EnvelopeKept, RunKept
<1>14. CompletedIsWhole'
  <2>1. Status(airuns'[k]) # "COMPLETED"
    BY <1>2, <1>4
  <2> QED
    BY <1>4, <2>1 DEF RunsInv, CompletedIsWhole, Status
<1> QED
  BY <1>6, <1>7, <1>10, <1>12, <1>13, <1>14 DEF RunsInv

LEMMA CreateKeeps ==
  ASSUME RunsInv, NEW k \in RunKeys, NEW kind \in {"plain", "report"}, create_run(k, kind)
  PROVE  RunsInv'
BY CreateMoves, Zenon DEF create_run, Kinds

LEMMA AdmitKeeps ==
  ASSUME RunsInv, NEW k \in RunKeys, NEW expected \in 1..2, admit_historical_ai_run(k, expected)
  PROVE  RunsInv'
<1>1. CASE airuns[k] = NoRun /\ airuns' = [airuns EXCEPT ![k] = NewRun("historical", expected)] /\ unsent' = unsent \cup {k}
  <2>1. PICK kind \in Kinds, n \in Nat : kind = "historical" /\ n = expected
    BY DEF Kinds
  <2>2. /\ jobThere /\ airuns' = [airuns EXCEPT ![k] = NewRun(kind, n)] /\ dispatching' = dispatching \cup {k}
        /\ UNCHANGED <<assessments, drafts, jobThere, revision, redisVars, executor, reviewing, aiMishaps>>
    BY <1>1, <2>1 DEF admit_historical_ai_run
  <2> QED
    BY <1>1, <2>1, <2>2, CreateMoves, Zenon
<1>2. CASE MayResume(k, expected) /\ UNCHANGED <<airuns, unsent>>
  <2>1. /\ UNCHANGED <<airuns, assessments, drafts, jobThere, unsent, executor, reviewing>>
        /\ aiQueue' = aiQueue /\ aiProcessing' = aiProcessing /\ aiLeases' = aiLeases
        /\ dispatching' = dispatching \cup {k} /\ airuns[k] # NoRun
    BY <1>2 DEF admit_historical_ai_run, redisVars, MayResume, NoRun
  <2>2. UNCHANGED storeVars
    BY <1>2 DEF admit_historical_ai_run, storeVars
  <2>3. TablesInv' /\ CompletedIsWhole' /\ DeletionIsComplete'
    BY <2>1 DEF RunsInv, TablesInv, CompletedIsWhole, DeletionIsComplete, Status
  <2>4. ListsInv' /\ ReviewsInv' /\ EnvelopeKept'
    BY <2>1, Zenon DEF RunsInv, ListsInv, ReviewsInv, EnvelopeKept, Active, Ended, Status
  <2>5. ExecutorsInv'
    BY <2>1, <2>2, QuietStore, WorkersStay
  <2>6. DispatchInv'
    BY <2>1, Zenon DEF RunsInv, DispatchInv, Unheard, Status
  <2> QED
    BY <2>3, <2>4, <2>5, <2>6 DEF RunsInv
<1> QED
  BY <1>1, <1>2 DEF admit_historical_ai_run

LEMMA EnqueueKeeps ==
  ASSUME RunsInv, NEW k \in RunKeys, enqueue(k)
  PROVE  RunsInv'
<1>1. /\ k \in dispatching /\ dispatching' = dispatching \ {k} /\ unsent' = unsent \ {k}
      /\ aiProcessing' = aiProcessing /\ aiLeases' = aiLeases /\ executor' = executor /\ reviewing' = reviewing
      /\ UNCHANGED storeVars /\ UNCHANGED <<airuns, assessments, drafts, jobThere>>
  BY DEF enqueue, storeVars
<1>2. /\ Append(aiQueue, k) \in Seq(RunKeys)
      /\ \A j : Occurs(Append(aiQueue, k), j) <=> (Occurs(aiQueue, j) \/ j = k)
  BY Pushed DEF RunsInv, ListsInv
<1>3. aiQueue' = Append(aiQueue, k) \/ (aiQueue' = aiQueue /\ (Occurs(aiQueue, k) \/ Occurs(aiProcessing, k)))
  BY DEF enqueue
<1>4. /\ aiQueue' \in Seq(RunKeys) /\ (Occurs(aiQueue', k) \/ Occurs(aiProcessing, k))
      /\ \A j : j # k => (Occurs(aiQueue', j) <=> Occurs(aiQueue, j))
      /\ \A j : Occurs(aiQueue, j) => Occurs(aiQueue', j)
  BY <1>2, <1>3, Zenon DEF RunsInv, ListsInv
<1>5. TablesInv' /\ CompletedIsWhole' /\ DeletionIsComplete'
  BY <1>1 DEF RunsInv, TablesInv, CompletedIsWhole, DeletionIsComplete, Status
<1>6. ListsInv' /\ ReviewsInv'
  BY <1>1, <1>4, Zenon DEF RunsInv, ListsInv, ReviewsInv
<1>7. EnvelopeKept'
  BY <1>1, <1>4 DEF RunsInv, EnvelopeKept, Active, Ended, Status
<1>8. ExecutorsInv'
  BY <1>1, QuietStore, WorkersStay
<1>9. DispatchInv'
  <2>1. jobThere => airuns[k] # NoRun
    BY <1>1 DEF RunsInv, DispatchInv
  <2>2. \A j \in RunKeys : j # k => (Unheard(j) => Unheard(j)')
    BY <1>1, <1>4 DEF Unheard
  <2> QED
    BY <1>1, <2>1, <2>2 DEF RunsInv, DispatchInv, Status
<1> QED
  BY <1>5, <1>6, <1>7, <1>8, <1>9 DEF RunsInv

LEMMA LoseKeeps ==
  ASSUME RunsInv, NEW k \in RunKeys, LoseDispatch(k)
  PROVE  RunsInv'
<1>1. /\ dispatching' = dispatching \ {k} /\ unsent' = unsent
      /\ aiQueue' = aiQueue /\ aiProcessing' = aiProcessing /\ aiLeases' = aiLeases
      /\ executor' = executor /\ reviewing' = reviewing
      /\ UNCHANGED storeVars /\ UNCHANGED <<airuns, assessments, drafts, jobThere>>
  BY DEF LoseDispatch, storeVars, redisVars
<1>2. TablesInv' /\ CompletedIsWhole' /\ DeletionIsComplete'
  BY <1>1 DEF RunsInv, TablesInv, CompletedIsWhole, DeletionIsComplete, Status
<1>3. ListsInv' /\ ReviewsInv' /\ EnvelopeKept'
  BY <1>1, Zenon DEF RunsInv, ListsInv, ReviewsInv, EnvelopeKept, Active, Ended, Status
<1>4. ExecutorsInv'
  BY <1>1, QuietStore, WorkersStay
<1>5. DispatchInv'
  BY <1>1 DEF RunsInv, DispatchInv, Unheard, Status
<1> QED
  BY <1>2, <1>3, <1>4, <1>5 DEF RunsInv

LEMMA CancelKeeps ==
  ASSUME RunsInv, NEW k \in RunKeys, cancel(k)
  PROVE  RunsInv'
<1>1. airuns[k] # NoRun /\ ~Ended(airuns[k]) /\ airuns[k] \in Runs
  BY DEF cancel, Active, RunsInv, TablesInv
<1>2. PICK r, s : r = airuns[k] /\ s = Moved(r, "CANCELLED", "api")
  OBVIOUS
<1>3. s \in Runs /\ s.kind = r.kind /\ Status(s) = "CANCELLED"
  BY <1>1, <1>2, MovedRun DEF Statuses
<1>4. /\ airuns' = [airuns EXCEPT ![k] = s]
      /\ UNCHANGED <<assessments, drafts, jobThere>> /\ UNCHANGED <<redisVars, callVars>>
      /\ executor' = executor /\ reviewing' = reviewing
  BY <1>1, <1>2 DEF cancel, save_ai_run
<1>5. /\ ResultsGrow /\ (\A j \in RunKeys : RunKept(j) /\ (airuns'[j] = NoRun => airuns[j] = NoRun))
      /\ TablesInv' /\ DeletionIsComplete' /\ CompletedIsWhole'
  BY <1>1, <1>2, <1>3, <1>4, SaveMoves, Zenon
<1>6. ExecutorsInv'
  BY <1>4, <1>5, KeysHeld, WorkersStay
<1>7. /\ aiQueue' = aiQueue /\ aiProcessing' = aiProcessing /\ dispatching' = dispatching /\ unsent' = unsent
      /\ jobThere' = jobThere /\ \A j \in RunKeys : airuns'[j] = IF j = k THEN s ELSE airuns[j]
  BY <1>3, <1>4 DEF redisVars, callVars, RunsInv, TablesInv
<1>8. ListsInv' /\ ReviewsInv'
  BY <1>4, <1>7, Zenon DEF RunsInv, ListsInv, ReviewsInv
<1>9. EnvelopeKept'
  BY <1>5, <1>7, Zenon DEF RunsInv, EnvelopeKept, RunKept
<1>10. DispatchInv'
  <2>1. \A j \in RunKeys : Unheard(j)' <=> Unheard(j)
    BY <1>4, <1>7 DEF Unheard
  <2>2. \A j \in RunKeys : Status(airuns'[j]) = IF j = k THEN "CANCELLED" ELSE Status(airuns[j])
    BY <1>3, <1>7, Zenon
  <2>3. \A j \in RunKeys : Status(airuns[j])' = Status(airuns'[j])
    BY DEF Status
  <2> QED
    BY <1>1, <1>5, <1>7, <2>1, <2>2, <2>3 DEF RunsInv, DispatchInv
<1> QED
  BY <1>5, <1>6, <1>8, <1>9, <1>10 DEF RunsInv

LEMMA DeleteKeeps ==
  ASSUME RunsInv, delete_ai_runs
  PROVE  RunsInv'
<1>1. /\ ~jobThere' /\ airuns' = [k \in RunKeys |-> NoRun] /\ assessments' = {} /\ drafts' = {}
      /\ executor' = executor /\ reviewing' = reviewing
      /\ aiQueue' = aiQueue /\ aiProcessing' = aiProcessing /\ aiLeases' = aiLeases
      /\ dispatching' = dispatching /\ unsent' = unsent /\ jobThere' \in BOOLEAN
  BY ZenonT(30) DEF delete_ai_runs, redisVars, callVars
<1>2. NoRun.kind # "plain"
  BY DEF NoRun
<1>3. TablesInv' /\ CompletedIsWhole' /\ DeletionIsComplete' /\ DispatchInv'
  BY <1>1, <1>2 DEF RunsInv, TablesInv, CompletedIsWhole, DeletionIsComplete, DispatchInv
<1>4. ListsInv' /\ ReviewsInv'
  BY <1>1, Zenon DEF RunsInv, ListsInv, ReviewsInv
<1>5. \A k \in RunKeys : RunKept(k) /\ ~Active(k)'
  BY <1>1 DEF RunKept, Active
<1>6. EnvelopeKept'
  BY <1>5 DEF EnvelopeKept
<1>7. ExecutorsInv'
  <2>1. ResultsGrow
    BY <1>1 DEF ResultsGrow
  <2> QED
    BY <1>1, <1>5, <2>1, KeysHeld, WorkersStay
<1> QED
  BY <1>3, <1>4, <1>6, <1>7 DEF RunsInv

\* A review or new drafts: only the drafts change.
LEMMA DraftsMove ==
  ASSUME RunsInv, ReviewsInv', UNCHANGED <<airuns, assessments, jobThere>>, UNCHANGED <<redisVars, callVars, executor>>,
         \A d \in drafts' : /\ d = [of |-> d.of, kind |-> d.kind, n |-> d.n, review |-> d.review]
                            /\ d.of \in assessments /\ d.review \in {"PENDING", "APPROVED", "REJECTED"},
         \A d \in drafts : \E f \in drafts' : f.of = d.of /\ f.kind = d.kind
  PROVE  RunsInv'
<1>1. ResultsGrow
  BY DEF ResultsGrow
<1>2. TablesInv'
  BY DEF RunsInv, TablesInv, redisVars, callVars
<1>3. aiQueue' = aiQueue /\ aiProcessing' = aiProcessing /\ dispatching' = dispatching /\ unsent' = unsent
  BY DEF redisVars, callVars
<1>4. ListsInv'
  BY <1>3 DEF RunsInv, ListsInv
<1>5. EnvelopeKept' /\ DispatchInv'
  BY <1>3 DEF RunsInv, EnvelopeKept, DispatchInv, Unheard, Active, Ended, Status
<1>6. ExecutorsInv'
  <2>1. \A k : RunKept(k)
    BY DEF RunKept, Active, Ended, Status
  <2> QED
    BY <1>1, <2>1, WorkersStay
<1>7. CompletedIsWhole' /\ DeletionIsComplete'
  <2>1. CASE jobThere
    BY <1>1, <2>1, ResultsMove
  <2>2. CASE ~jobThere
    <3>1. drafts' = {} /\ assessments = {} /\ \A k \in RunKeys : airuns[k] = NoRun
      BY <2>2, Zenon DEF RunsInv, DeletionIsComplete
    <3> QED
      BY <2>2, <3>1 DEF CompletedIsWhole, DeletionIsComplete
  <2> QED
    BY <2>1, <2>2
<1> QED
  BY <1>2, <1>4, <1>5, <1>6, <1>7 DEF RunsInv

LEMMA ReviewKeeps ==
  ASSUME RunsInv, NEW a \in Analysts, NEW verdict \in {"APPROVED", "REJECTED"}, review(a, verdict)
  PROVE  RunsInv'
<1>1. PICK d \in drafts : reviewing' = [reviewing EXCEPT ![a] = [at |-> "decided", draft |-> [d EXCEPT !.review = verdict]]]
  BY Zenon DEF review
<1>2. PICK f : f = [d EXCEPT !.review = verdict]
  BY Zenon
<1>3. d = [of |-> d.of, kind |-> d.kind, n |-> d.n, review |-> d.review]
  BY DEF RunsInv, TablesInv
<1>4. f = [of |-> f.of, kind |-> f.kind, n |-> f.n, review |-> f.review] /\ f.review = verdict
  BY <1>2, <1>3
<1>5. PICK new : new = [at |-> "decided", draft |-> f]
  BY Zenon
<1>6. new.at = "decided" /\ new.draft = f
  BY <1>5
<1>7. /\ DOMAIN reviewing' = Analysts /\ reviewing'[a] = new
      /\ \A b \in Analysts : b # a => reviewing'[b] = reviewing[b]
  BY <1>1, <1>2, <1>5 DEF RunsInv, ReviewsInv
<1>8. ReviewsInv'
  BY <1>4, <1>6, <1>7 DEF RunsInv, ReviewsInv
<1>9. UNCHANGED <<airuns, assessments, jobThere>> /\ UNCHANGED <<redisVars, callVars, executor>> /\ drafts' = drafts
  BY DEF review, storeVars
<1> QED
  BY <1>8, <1>9, DraftsMove DEF RunsInv, TablesInv

LEMMA SaveReviewKeeps ==
  ASSUME RunsInv, NEW a \in Analysts, save_review(a)
  PROVE  RunsInv'
<1>0. reviewing[a].at = "decided"
  BY Zenon DEF save_review
<1>1. reviewing[a] # Idling
  BY <1>0 DEF Idling
<1>2. PICK new : new = reviewing[a].draft
  OBVIOUS
<1>3. /\ new = [of |-> new.of, kind |-> new.kind, n |-> new.n, review |-> new.review]
      /\ new.review \in {"APPROVED", "REJECTED"}
  BY <1>1, <1>2, Zenon DEF RunsInv, ReviewsInv
<1>4. PICK old : old = {d \in drafts : SameDraft(d, new)}
  BY Zenon
<1>5. drafts' = drafts \/ (old # {} /\ drafts' = (drafts \ old) \cup {new})
  BY <1>2, <1>4, Zenon DEF save_review
<1>6. UNCHANGED <<airuns, assessments, jobThere>> /\ UNCHANGED <<redisVars, callVars, executor>>
      /\ reviewing' = [reviewing EXCEPT ![a] = Idling]
  BY Zenon DEF save_review
<1>7. ReviewsInv'
  BY <1>6, Zenon DEF RunsInv, ReviewsInv
<1>8. CASE drafts' = drafts
  BY <1>6, <1>7, <1>8, DraftsMove DEF RunsInv, TablesInv
<1>9. CASE old # {} /\ drafts' = (drafts \ old) \cup {new}
  <2>1. new.of \in assessments
    BY <1>4, <1>9 DEF SameDraft, RunsInv, TablesInv
  <2>2. ASSUME NEW d \in drafts'
        PROVE  /\ d = [of |-> d.of, kind |-> d.kind, n |-> d.n, review |-> d.review]
               /\ d.of \in assessments /\ d.review \in {"PENDING", "APPROVED", "REJECTED"}
    <3>1. CASE d \in drafts
      BY <3>1 DEF RunsInv, TablesInv
    <3>2. CASE d = new
      BY <1>3, <2>1, <3>2
    <3> QED
      BY <1>9, <3>1, <3>2
  <2>3. \A d \in drafts : \E f \in drafts' : f.of = d.of /\ f.kind = d.kind
    BY <1>4, <1>9 DEF SameDraft
  <2> QED
    BY <1>6, <1>7, <2>2, <2>3, DraftsMove
<1> QED
  BY <1>5, <1>8, <1>9

LEMMA RegenerateKeeps ==
  ASSUME RunsInv, NEW of \in assessments, regenerate_ai_artifacts(of)
  PROVE  RunsInv'
<1>1. /\ drafts' = drafts \cup {AIDraft(of, kind, 1) : kind \in Drafts}
      /\ UNCHANGED <<airuns, assessments, jobThere>> /\ UNCHANGED <<redisVars, callVars, executor>>
      /\ reviewing' = reviewing
  BY Zenon DEF regenerate_ai_artifacts
<1>2. ReviewsInv'
  BY <1>1 DEF RunsInv, ReviewsInv
<1>3. ASSUME NEW d \in drafts'
      PROVE  /\ d = [of |-> d.of, kind |-> d.kind, n |-> d.n, review |-> d.review]
             /\ d.of \in assessments /\ d.review \in {"PENDING", "APPROVED", "REJECTED"}
  <2>1. CASE d \in drafts
    BY <2>1 DEF RunsInv, TablesInv
  <2>2. CASE d \notin drafts
    <3>1. PICK kind \in Drafts : d = AIDraft(of, kind, 1)
      BY <1>1, <2>2
    <3> QED
      BY <3>1 DEF AIDraft
  <2> QED
    BY <2>1, <2>2
<1>4. \A d \in drafts : \E f \in drafts' : f.of = d.of /\ f.kind = d.kind
  BY <1>1, Zenon
<1> QED
  BY <1>1, <1>2, <1>3, <1>4, DraftsMove

LEMMA StillKeeps ==
  ASSUME RunsInv, UNCHANGED <<airuns, assessments, drafts, jobThere>>, UNCHANGED <<redisVars, callVars, executor>>,
         UNCHANGED reviewing
  PROVE  RunsInv'
<1>1. ReviewsInv'
  BY DEF RunsInv, ReviewsInv
<1> QED
  BY <1>1, DraftsMove DEF RunsInv, TablesInv

-----------------------------------------------------------------------------
(* The theorems.                                                           *)

LEMMA RunsInit == AIInit => RunsInv
<1> SUFFICES ASSUME AIInit PROVE RunsInv
  OBVIOUS
<1>1. TablesInv
  BY DEF AIInit, TablesInv, NoRun
<1>2. ListsInv /\ ReviewsInv
  BY DEF AIInit, ListsInv, ReviewsInv
<1>3. ExecutorsInv
  BY DEF AIInit, ExecutorsInv, ExecutorOK
<1>4. DispatchInv
  BY DEF AIInit, DispatchInv, Unheard, Occurs
<1>5. CompletedIsWhole /\ EnvelopeKept /\ DeletionIsComplete
  BY DEF AIInit, CompletedIsWhole, EnvelopeKept, DeletionIsComplete, Active
<1> QED
  BY <1>1, <1>2, <1>3, <1>4, <1>5 DEF RunsInv

LEMMA RunsNext == RunsInv /\ [AINext]_aiVars => RunsInv'
<1> SUFFICES ASSUME RunsInv, [AINext]_aiVars PROVE RunsInv'
  OBVIOUS
<1>1. CASE UNCHANGED aiVars
  BY <1>1, StillKeeps DEF aiVars, storeVars
<1>2. ASSUME NEW k \in RunKeys,
             \/ \E kind \in {"plain", "report"} : create_run(k, kind)
             \/ \E expected \in 1..2 : admit_historical_ai_run(k, expected)
             \/ enqueue(k) \/ LoseDispatch(k) \/ cancel(k) \/ recover(k)
      PROVE  RunsInv'
  BY <1>2, CreateKeeps, AdmitKeeps, EnqueueKeeps, LoseKeeps, CancelKeeps, RecoverKeeps
<1>3. CASE ChangeScope
  BY <1>3, StillKeeps DEF ChangeScope
<1>4. CASE delete_ai_runs
  BY <1>4, DeleteKeeps
<1>5. ASSUME NEW w \in AIWorkers, ExecutorStep(w) \/ CrashWorker(w) PROVE RunsInv'
  BY <1>5, PopKeeps, LeaseKeeps, ExecuteKeeps, TransitionKeeps, AssessKeeps, AssessmentKeeps, EnsureKeeps, ArtifactKeeps,
     NextCandidateKeeps, ListKeeps, SavedKeeps, AckKeeps, CrashKeeps DEF ExecutorStep
<1>6. ASSUME NEW a \in Analysts, save_review(a) \/ \E verdict \in {"APPROVED", "REJECTED"} : review(a, verdict)
      PROVE  RunsInv'
  BY <1>6, SaveReviewKeeps, ReviewKeeps
<1>7. ASSUME NEW of \in assessments, regenerate_ai_artifacts(of) PROVE RunsInv'
  BY <1>7, RegenerateKeeps
<1> QED
  BY <1>1, <1>2, <1>3, <1>4, <1>5, <1>6, <1>7 DEF AINext

LEMMA RunsInvariant == AISpec => []RunsInv
BY RunsInit, RunsNext, PTL DEF AISpec

\* For every number of workers, runs, candidates, drafts, crashes, lost commits and expired
\* leases: a run that save_ai_run stored as COMPLETED has each candidate's assessment with all
\* its drafts (or its report's answer), an active run has its envelope on a Redis list or can be
\* dispatched by repeating the request, and a deleted job leaves nothing.
THEOREM WholeRuns == AISpec => []RunsAreWhole
<1>1. RunsInv => RunsAreWhole
  <2> SUFFICES ASSUME RunsInv PROVE RunsAreWhole
    OBVIOUS
  <2>1. AITypeOK
    BY NoRunIsNone DEF RunsInv, TablesInv, ListsInv, AITypeOK, Kinds
  <2>2. RetryDispatches
    <3> SUFFICES ASSUME NEW k \in RunKeys, airuns[k].kind = "historical", Active(k), k \in unsent \ dispatching
                 PROVE  MayResume(k, airuns[k].snapshot)
      BY DEF RetryDispatches
    <3>1. airuns[k] # NoRun /\ ~Ended(airuns[k]) /\ jobThere
      BY DEF Active, RunsInv, DeletionIsComplete
    <3>2. Status(airuns[k]) \in {"QUEUED", "CANCELLED"}
      BY <3>1 DEF RunsInv, DispatchInv
    <3> QED
      BY <3>1, <3>2 DEF MayResume, Ended, AITerminal
  <2> QED
    BY <2>1, <2>2 DEF RunsInv, RunsAreWhole
<1> QED
  BY <1>1, RunsInvariant, PTL

\* The steps that write to the tables.
LEMMA Writers ==
  ASSUME [AINext]_aiVars
  PROVE  \/ UNCHANGED <<airuns, assessments, drafts>>
         \/ \E k \in RunKeys : \/ airuns[k] = NoRun /\ UNCHANGED <<assessments, drafts>>
                                  /\ \E r : airuns' = [airuns EXCEPT ![k] = r]
                               \/ cancel(k)
         \/ delete_ai_runs
         \/ \E w \in AIWorkers : transition(w) \/ save_ai_assessment(w) \/ save_ai_artifact(w)
         \/ \E a \in Analysts : save_review(a)
         \/ \E of \in assessments : regenerate_ai_artifacts(of)
<1>1. CASE UNCHANGED aiVars
  BY <1>1 DEF aiVars, storeVars
<1>2. ASSUME NEW k \in RunKeys, NEW kind \in {"plain", "report"}, create_run(k, kind)
      PROVE  airuns[k] = NoRun /\ UNCHANGED <<assessments, drafts>> /\ \E r : airuns' = [airuns EXCEPT ![k] = r]
  BY <1>2, Zenon DEF create_run
<1>3. ASSUME NEW k \in RunKeys, NEW expected \in 1..2, admit_historical_ai_run(k, expected)
      PROVE  \/ UNCHANGED <<airuns, assessments, drafts>>
             \/ airuns[k] = NoRun /\ UNCHANGED <<assessments, drafts>> /\ \E r : airuns' = [airuns EXCEPT ![k] = r]
  BY <1>3, Zenon DEF admit_historical_ai_run
<1>4. ASSUME NEW k \in RunKeys, enqueue(k) \/ LoseDispatch(k) \/ recover(k)
      PROVE  UNCHANGED <<airuns, assessments, drafts>>
  BY <1>4 DEF enqueue, LoseDispatch, recover, storeVars
<1>5. ASSUME NEW w \in AIWorkers, ExecutorStep(w) \/ CrashWorker(w)
      PROVE  \/ UNCHANGED <<airuns, assessments, drafts>>
             \/ transition(w) \/ save_ai_assessment(w) \/ save_ai_artifact(w)
  BY <1>5 DEF ExecutorStep, CrashWorker, PopEnvelope, LeaseEnvelope, execute, assess_candidate, ensure_artifacts,
              NextCandidate, list_ai_assessments, execute_saved, ack, storeVars
<1>6. ASSUME NEW a \in Analysts, NEW verdict, review(a, verdict) PROVE UNCHANGED <<airuns, assessments, drafts>>
  BY <1>6 DEF review, storeVars
<1>7. ChangeScope => UNCHANGED <<airuns, assessments, drafts>>
  BY DEF ChangeScope
<1> QED
  BY <1>1, <1>2, <1>3, <1>4, <1>5, <1>6, <1>7 DEF AINext

LEMMA Extended ==
  ASSUME NEW S, NEW s \in Seq(S), NEW e \in S
  PROVE  /\ Begins(s, s)
         /\ Begins(s, Append(s, e))
         /\ FrontOf(Append(s, e)) = s
<1>1. Append(s, e) \in Seq(S) /\ Len(Append(s, e)) = Len(s) + 1 /\ Len(s) \in Nat
  OBVIOUS
<1>2. SubSeq(Append(s, e), 1, Len(s)) = s
  OBVIOUS
<1>3. SubSeq(s, 1, Len(s)) = s
  OBVIOUS
<1>4. Begins(s, s)
  BY <1>1 DEF Begins
<1>5. Begins(s, Append(s, e))
  BY <1>1, <1>2, <1>3 DEF Begins
<1>6. FrontOf(Append(s, e)) = s
  BY <1>1, <1>2 DEF FrontOf
<1> QED
  BY <1>4, <1>5, <1>6

\* Run k takes s: an ended run is what it was, and the history of a historical one is extended.
Advances(k, s) ==
    /\ Ended(airuns[k]) => s = airuns[k]
    /\ ~Ended(airuns[k]) /\ airuns[k].kind = "historical" => Begins(airuns[k].transitions, s.transitions)

LEMMA CancelAdvances ==
  ASSUME RunsInv, NEW k \in RunKeys, cancel(k)
  PROVE  /\ UNCHANGED <<assessments, drafts>>
         /\ \E s : airuns' = [airuns EXCEPT ![k] = s] /\ Advances(k, s)
<1>1. airuns[k] # NoRun /\ ~Ended(airuns[k]) /\ airuns[k] \in Runs
  BY DEF cancel, Active, RunsInv, TablesInv
<1>2. PICK r, s : r = airuns[k] /\ s = Moved(r, "CANCELLED", "api")
  OBVIOUS
<1>3. s.transitions = Append(r.transitions, <<"CANCELLED", "api">>)
  BY <1>1, <1>2, MovedRun DEF Statuses
<1>4. r.transitions \in Seq(Transitions) /\ <<"CANCELLED", "api">> \in Transitions
  BY <1>1, <1>2 DEF Runs, Transitions, Statuses
<1>5. Begins(r.transitions, s.transitions)
  BY <1>3, <1>4, Extended
<1>6. UNCHANGED <<assessments, drafts>> /\ airuns' = [airuns EXCEPT ![k] = s]
  BY <1>1, <1>2 DEF cancel, save_ai_run
<1> QED
  BY <1>1, <1>2, <1>5, <1>6, Zenon DEF Advances

LEMMA TransitionAdvances ==
  ASSUME RunsInv, NEW w \in AIWorkers, transition(w)
  PROVE  /\ UNCHANGED <<assessments, drafts>>
         /\ \/ airuns' = airuns
            \/ \E k \in RunKeys : \E s : airuns' = [airuns EXCEPT ![k] = s] /\ Advances(k, s)
<1>1. PICK x : AtWork(w, x)
  BY Working DEF transition, Doing
<1>2. executor[w] = x /\ x.at = "save" /\ x # Idling /\ x.key \in RunKeys /\ x.run \in Runs
  BY <1>1, Zenon DEF AtWork, Begun, transition, Doing
<1>4. PICK m : m = Moved(x.run, x.target, w)
  OBVIOUS
<1>5. /\ m.kind = x.run.kind /\ m.transitions = Append(x.run.transitions, <<x.target, w>>)
      /\ x.run.transitions \in Seq(Transitions) /\ <<x.target, w>> \in Transitions
  <2>1. x.target \in Statuses
    BY <1>1 DEF AtWork, Begun, Statuses
  <2> QED
    BY <1>2, <1>4, <2>1, MovedRun DEF Runs, Transitions
<1>6. FrontOf(m.transitions) = x.run.transitions /\ Begins(x.run.transitions, m.transitions)
  BY <1>5, Extended
<1> DEFINE refused == x.target \notin AllowedTransitions[Status(x.run)] \/ ~CanSave(x.key, m)
           saved == save_ai_run(x.key, m)
<1>7. CASE Ended(x.run) \/ refused
  BY <1>2, <1>4, <1>7, Zenon DEF transition, storeVars
<1>8. CASE ~Ended(x.run) /\ ~refused
  <2>1. Commits(w, airuns' = [airuns EXCEPT ![x.key] = saved] /\ UNCHANGED <<assessments, drafts>>, Continue(w, saved))
    BY <1>2, <1>4, <1>8, ZenonT(30) DEF transition
  <2>2. airuns[x.key] # NoRun /\ airuns[x.key].kind = x.run.kind
    BY <1>1, <1>8, ZenonT(30) DEF CanSave, AtWork, Agrees
  <2>3. PICK s : s = saved
    OBVIOUS
  <2>4. s = IF Ended(airuns[x.key]) THEN airuns[x.key] ELSE m
    BY <2>3 DEF save_ai_run
  <2>5. ~Ended(airuns[x.key]) /\ airuns[x.key].kind = "historical" => x.run.transitions = airuns[x.key].transitions
    BY <1>5, <1>6, <1>8, <2>2, ZenonT(30) DEF CanSave, lifecycle_save
  <2>6. Advances(x.key, s)
    BY <1>6, <2>4, <2>5 DEF Advances
  <2> QED
    BY <1>2, <2>1, <2>3, <2>6, ZenonT(30) DEF Commits
<1> QED
  BY <1>7, <1>8

LEMMA RunsAdvance ==
  ASSUME RunsInv, [AINext]_aiVars
  PROVE  \/ ~jobThere'
         \/ airuns' = airuns
         \/ \E k \in RunKeys : \E s : airuns' = [airuns EXCEPT ![k] = s] /\ (airuns[k] = NoRun \/ Advances(k, s))
<1>1. ASSUME NEW w \in AIWorkers, save_ai_assessment(w) \/ save_ai_artifact(w) PROVE airuns' = airuns
  BY <1>1 DEF save_ai_assessment, save_ai_artifact, Commits, storeVars
<1>2. ASSUME NEW a \in Analysts, save_review(a) PROVE airuns' = airuns
  BY <1>2 DEF save_review
<1>3. ASSUME NEW of \in assessments, regenerate_ai_artifacts(of) PROVE airuns' = airuns
  BY <1>3 DEF regenerate_ai_artifacts
<1>4. delete_ai_runs => ~jobThere'
  BY DEF delete_ai_runs
<1>5. ASSUME NEW k \in RunKeys, cancel(k)
      PROVE  \E s : airuns' = [airuns EXCEPT ![k] = s] /\ Advances(k, s)
  BY <1>5, CancelAdvances
<1>6. ASSUME NEW w \in AIWorkers, transition(w)
      PROVE  \/ airuns' = airuns
             \/ \E k \in RunKeys : \E s : airuns' = [airuns EXCEPT ![k] = s] /\ Advances(k, s)
  BY <1>6, TransitionAdvances
<1> QED
  BY <1>1, <1>2, <1>3, <1>4, <1>5, <1>6, Writers

\* The results of run k are closed.
Closed(k) == airuns[k].kind = "historical" /\ Status(airuns[k]) \in {"FAILED", "CANCELLED"}
Decided(d) == airuns[d.of.key].kind = "historical" /\ d.review # "PENDING"

\* No result of a closed run comes or goes, and no decided draft goes.
ResultsKept ==
    /\ assessments \subseteq assessments'
    /\ \A a \in assessments' : a \in assessments \/ ~Closed(a.key)
    /\ \A d \in drafts' : d \in drafts \/ ~Closed(d.of.key)
    /\ \A d \in drafts : d \in drafts' \/ (~Closed(d.of.key) /\ ~Decided(d))

LEMMA AssessmentsKept ==
  ASSUME RunsInv, NEW w \in AIWorkers, save_ai_assessment(w)
  PROVE  ResultsKept
<1>1. PICK x : AtWork(w, x)
  BY Working DEF save_ai_assessment, Doing
<1>2. executor[w] = x /\ x.key \in RunKeys
  BY <1>1 DEF AtWork, Begun
<1>3. PICK of : of = [key |-> x.key, cand |-> x.pos,
                      copy |-> IF Historical(w) THEN 0
                               ELSE Cardinality({a \in assessments : a.key = x.key /\ a.cand = x.pos})]
  BY Zenon
<1>4. \/ UNCHANGED <<assessments, drafts>>
      \/ /\ Now(w) # NoRun /\ ~(Historical(w) /\ (of \in assessments \/ Ended(Now(w))))
         /\ assessments' = assessments \cup {of} /\ drafts' = drafts
  BY <1>2, <1>3 DEF save_ai_assessment, Commits, storeVars
<1>5. of.key = x.key
  BY <1>3, Zenon
<1>6. Now(w) # NoRun /\ ~(Historical(w) /\ Ended(Now(w))) => ~Closed(x.key)
  BY <1>1, <1>2 DEF AtWork, Agrees, Now, Historical, Closed, Ended, AITerminal
<1> QED
  BY <1>4, <1>5, <1>6 DEF ResultsKept

LEMMA ArtifactsKept ==
  ASSUME RunsInv, NEW w \in AIWorkers, save_ai_artifact(w)
  PROVE  ResultsKept
<1>1. PICK x : AtWork(w, x)
  BY Working DEF save_ai_artifact, Doing
<1>2. executor[w] = x /\ x.key \in RunKeys /\ Assessed(w) = AssessmentOf(x)
  BY <1>1 DEF AtWork, Begun, Assessed, AssessmentOf
<1>3. PICK new, of : of = AssessmentOf(x) /\ new = AIDraft(of, CHOOSE y \in x.missing : TRUE, 0)
  BY ZenonT(30)
<1>4. new.of = of /\ of.key = x.key
  BY <1>3 DEF AIDraft, AssessmentOf
<1>5. \/ UNCHANGED <<assessments, drafts>>
      \/ /\ of \in assessments /\ ~(Historical(w) /\ Status(Now(w)) \in {"FAILED", "CANCELLED"})
         /\ drafts \subseteq drafts' /\ drafts' \subseteq drafts \cup {new} /\ assessments' = assessments
  BY <1>2, <1>3 DEF save_ai_artifact, Commits, storeVars
<1>6. of \in assessments /\ ~(Historical(w) /\ Status(Now(w)) \in {"FAILED", "CANCELLED"}) => ~Closed(x.key)
  <2>1. of \in assessments => airuns[x.key] # NoRun
    BY <1>4 DEF RunsInv, TablesInv
  <2> QED
    BY <1>1, <1>2, <2>1, Zenon DEF AtWork, Agrees, Now, Historical, Closed
<1> QED
  BY <1>4, <1>5, <1>6 DEF ResultsKept

LEMMA ReviewsKept ==
  ASSUME RunsInv, NEW a \in Analysts, save_review(a)
  PROVE  ResultsKept
<1>1. PICK new, old : new = reviewing[a].draft /\ old = {d \in drafts : SameDraft(d, new)}
  BY Zenon
<1>2. /\ assessments' = assessments
      /\ \/ drafts' = drafts
         \/ /\ ~Closed(new.of.key) /\ drafts' = (drafts \ old) \cup {new}
            /\ airuns[new.of.key].kind = "historical" => \A d \in old : d.review = "PENDING"
  BY <1>1, Zenon DEF save_review, Closed
<1>3. \A d \in old : d.of = new.of
  BY <1>1 DEF SameDraft
<1> QED
  BY <1>2, <1>3 DEF ResultsKept, Decided

LEMMA ResultsStay ==
  ASSUME RunsInv, [AINext]_aiVars
  PROVE  ~jobThere' \/ ResultsKept
<1>1. UNCHANGED <<assessments, drafts>> => ResultsKept
  BY DEF ResultsKept
<1>2. ASSUME NEW of \in assessments, regenerate_ai_artifacts(of) PROVE ResultsKept
  <2>1. /\ assessments' = assessments /\ drafts' = drafts \cup {AIDraft(of, kind, 1) : kind \in Drafts}
        /\ ~Closed(of.key)
    BY <1>2 DEF regenerate_ai_artifacts, Closed
  <2>2. ASSUME NEW d \in drafts', d \notin drafts PROVE d.of = of
    <3>1. PICK kind \in Drafts : d = AIDraft(of, kind, 1)
      BY <2>1, <2>2
    <3> QED
      BY <3>1 DEF AIDraft
  <2> QED
    BY <2>1, <2>2 DEF ResultsKept
<1>3. delete_ai_runs => ~jobThere'
  BY DEF delete_ai_runs
<1>4. ASSUME NEW k \in RunKeys, cancel(k) PROVE ResultsKept
  BY <1>1, <1>4, CancelAdvances
<1>5. ASSUME NEW w \in AIWorkers, transition(w) \/ save_ai_assessment(w) \/ save_ai_artifact(w) PROVE ResultsKept
  BY <1>1, <1>5, TransitionAdvances, AssessmentsKept, ArtifactsKept
<1>6. ASSUME NEW a \in Analysts, save_review(a) PROVE ResultsKept
  BY <1>6, ReviewsKept
<1> QED
  BY <1>1, <1>2, <1>3, <1>4, <1>5, <1>6, Writers

LEMMA StepSettles ==
  ASSUME RunsInv, [AINext]_aiVars
  PROVE  OutcomeStays /\ HistoryExtends /\ ResultsFrozen /\ VerdictStays
<1>1. \A k \in RunKeys :
         \/ ~jobThere'
         \/ airuns[k] = NoRun
         \/ airuns'[k] = airuns[k]
         \/ Active(k) /\ (airuns[k].kind = "historical" => Begins(airuns[k].transitions, airuns'[k].transitions))
  <2>1. DOMAIN airuns = RunKeys
    BY DEF RunsInv, TablesInv
  <2>2. CASE ~jobThere' \/ airuns' = airuns
    BY <2>2
  <2>3. ASSUME NEW j \in RunKeys, NEW s, airuns' = [airuns EXCEPT ![j] = s], airuns[j] = NoRun \/ Advances(j, s)
        PROVE  \A k \in RunKeys :
                  \/ airuns[k] = NoRun
                  \/ airuns'[k] = airuns[k]
                  \/ Active(k) /\ (airuns[k].kind = "historical" => Begins(airuns[k].transitions, airuns'[k].transitions))
    <3>1. \A k \in RunKeys : airuns'[k] = IF k = j THEN s ELSE airuns[k]
      BY <2>1, <2>3
    <3>2. airuns'[j] = s
      BY <3>1
    <3>3. \/ airuns[j] = NoRun
          \/ airuns'[j] = airuns[j]
          \/ Active(j) /\ (airuns[j].kind = "historical" => Begins(airuns[j].transitions, airuns'[j].transitions))
      BY <2>3, <3>2 DEF Advances, Active
    <3>4. \A k \in RunKeys : k # j => airuns'[k] = airuns[k]
      BY <3>1
    <3> QED
      BY <3>3, <3>4, Zenon
  <2> QED
    BY <2>2, <2>3, RunsAdvance
<1>2. \A k \in RunKeys : airuns[k].kind = "historical" => /\ airuns[k] # NoRun
                                                          /\ Begins(airuns[k].transitions, airuns[k].transitions)
  <2> SUFFICES ASSUME NEW k \in RunKeys, airuns[k].kind = "historical"
               PROVE  airuns[k] # NoRun /\ Begins(airuns[k].transitions, airuns[k].transitions)
    OBVIOUS
  <2>1. airuns[k] # NoRun /\ airuns[k] \in Runs
    BY DEF RunsInv, TablesInv, NoRun
  <2>2. airuns[k].transitions \in Seq(Transitions) /\ airuns[k].transitions # << >>
    BY <2>1 DEF Runs
  <2>3. PICK e : e \in Transitions
    BY <2>2
  <2> QED
    BY <2>1, <2>2, <2>3, Extended
<1>3. OutcomeStays
  BY <1>1 DEF OutcomeStays, Active
<1>4. HistoryExtends
  BY <1>1, <1>2 DEF HistoryExtends
<1>5. ResultsFrozen /\ VerdictStays
  <2>1. CASE ~jobThere'
    BY <2>1 DEF ResultsFrozen, VerdictStays
  <2>2. CASE ResultsKept
    <3>1. ASSUME NEW k \in RunKeys, Closed(k)
          PROVE  /\ {a \in assessments' : a.key = k} = {a \in assessments : a.key = k}
                 /\ {d \in drafts' : d.of.key = k} = {d \in drafts : d.of.key = k}
      BY <2>2, <3>1 DEF ResultsKept
    <3>2. ResultsFrozen
      BY <3>1 DEF ResultsFrozen, Closed
    <3>3. VerdictStays
      BY <2>2 DEF VerdictStays, ResultsKept, Decided
    <3> QED
      BY <3>2, <3>3
  <2> QED
    BY <2>1, <2>2, ResultsStay
<1> QED
  BY <1>3, <1>4, <1>5, Zenon

\* For any number of workers holding the same envelope, and any late cancellation, crash, lost
\* commit, second reviewer or repeated delivery: what save_ai_run stored as a run's outcome
\* stays until the job is deleted, the history of a historical run is only extended, the results
\* of a failed or cancelled historical run do not change, and its decided drafts stay decided.
THEOREM SettledForGood == AISpec => SettledStays
<1>1. RunsInv /\ [AINext]_aiVars => [OutcomeStays /\ HistoryExtends /\ ResultsFrozen /\ VerdictStays]_aiVars
  BY StepSettles
<1>2. [OutcomeStays /\ HistoryExtends /\ ResultsFrozen /\ VerdictStays]_aiVars =>
          [OutcomeStays]_aiVars /\ [HistoryExtends]_aiVars /\ [ResultsFrozen]_aiVars /\ [VerdictStays]_aiVars
  OBVIOUS
<1> QED
  BY <1>1, <1>2, RunsInvariant, PTL DEF AISpec, SettledStays, EndedRunsStay, HistoryGrows, FailedResultsFreeze, ReviewsStay
=============================================================================
