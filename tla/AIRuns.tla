------------------------------- MODULE AIRuns --------------------------------
(***************************************************************************)
(* AI analysis runs: an HTTP request creates a run and pushes its envelope *)
(* on a Redis list, workers claim envelopes under a lease and execute the  *)
(* run, analysts cancel runs and review the drafts.                        *)
(*                                                                         *)
(* There are three kinds.  A "plain" run assesses the candidates of a job; *)
(* its saves overwrite whatever is not terminal.  A "report" run           *)
(* interprets a network or DDoS report, and its one answer is part of the  *)
(* run.  A "historical" run executes the evidence it was admitted with:    *)
(* its saves extend the recorded transitions by exactly one, and its       *)
(* assessments and drafts have identifiers derived from the run's.         *)
(*                                                                         *)
(* A run is named by its idempotency key, which the database keeps unique. *)
(* A transition is <<status, writer>>: the writer stands for the time of   *)
(* the transition, which differs from writer to writer.                    *)
(***************************************************************************)
EXTENDS Lists, FiniteSets

CONSTANTS
    RunKeys,        \* idempotency keys of one analysis job
    AIWorkers,
    CandidateCount, \* candidates selected for a plain or a historical run
    Drafts,         \* kinds of drafts built for an assessment
    Analysts,       \* who reviews drafts
    MaxAICrashes,   \* workers and controllers that die
    MaxAIFaults,    \* commits whose outcome the caller does not learn
    MaxAIExpiries   \* leases that expire under a worker

ASSUME AIConstants ==
    /\ CandidateCount \in Nat
    /\ {MaxAICrashes, MaxAIFaults, MaxAIExpiries} \subseteq Nat

VARIABLES
    airuns,       \* ai_analysis_runs, by idempotency key
    assessments,  \* ai_candidate_assessments: <<key, candidate, copy>>
    drafts,       \* ai_generated_artifacts: of an assessment, with the review
    jobThere,     \* the analysis job is not deleted
    revision,     \* the baseline scope's revision
    aiQueue, aiProcessing, aiLeases,  \* the Redis keys, by run key
    dispatching,  \* requests between the creation of a run and the push
    executor,     \* the workers
    reviewing,    \* reviews between the read of a draft and its save
    unsent,       \* runs whose envelope was never pushed
    aiMishaps     \* how many crashes, faults and expiries there were

storeVars == <<airuns, assessments, drafts, jobThere, revision>>
redisVars == <<aiQueue, aiProcessing, aiLeases>>
callVars == <<dispatching, unsent>>
aiVars == <<storeVars, redisVars, callVars, executor, reviewing, aiMishaps>>

NoRun == [kind |-> "none"]
AITerminal == {"COMPLETED", "FAILED", "CANCELLED"}

AllowedTransitions ==
    [QUEUED     |-> {"PREPARING", "FAILED", "CANCELLED"},
     PREPARING  |-> {"ANALYZING", "FAILED", "CANCELLED"},
     ANALYZING  |-> {"VALIDATING", "FAILED", "CANCELLED"},
     VALIDATING |-> {"ANALYZING", "COMPLETED", "FAILED", "CANCELLED"}]

Status(r) == LastOf(r.transitions)[1]
Ended(r) == Status(r) \in AITerminal
Active(k) == airuns[k] # NoRun /\ ~Ended(airuns[k])
Validations(r) == Len(SelectSeq(r.transitions, LAMBDA t : t[1] = "VALIDATING"))

Idling == [at |-> "idle"]

AIInit ==
    /\ airuns = [k \in RunKeys |-> NoRun]
    /\ assessments = {} /\ drafts = {}
    /\ jobThere = TRUE /\ revision = 1
    /\ aiQueue = <<>> /\ aiProcessing = <<>> /\ aiLeases = {}
    /\ dispatching = {} /\ unsent = {}
    /\ executor = [w \in AIWorkers |-> Idling]
    /\ reviewing = [a \in Analysts |-> Idling]
    /\ aiMishaps = [crashes |-> 0, faults |-> 0, expiries |-> 0]

AIMishap(kind) == aiMishaps' = [aiMishaps EXCEPT ![kind] = @ + 1]

-----------------------------------------------------------------------------
(* Requests.                                                               *)

NewRun(kind, snapshot) ==
    [kind |-> kind, transitions |-> << <<"QUEUED", "api">> >>, snapshot |-> snapshot, answered |-> FALSE]

\* A plain or report run is created from the job.  The same key returns the run
\* that has it, or is refused when that is a run of another kind.
create_run(k, kind) ==
    /\ jobThere
    /\ kind = "plain" => CandidateCount > 0
    /\ k \notin dispatching
    /\ airuns[k] = NoRun
    /\ airuns' = [airuns EXCEPT ![k] = NewRun(kind, 0)]
    /\ dispatching' = dispatching \cup {k} /\ unsent' = unsent \cup {k}
    /\ UNCHANGED <<assessments, drafts, jobThere, revision, redisVars, executor, reviewing, aiMishaps>>

\* The request finds its run, still queued.
MayResume(k, expected) ==
    /\ jobThere /\ k \notin dispatching
    /\ airuns[k].kind = "historical" /\ airuns[k].snapshot = expected
    /\ Status(airuns[k]) = "QUEUED"

\* A historical run is admitted at the revision the request expects; a request that
\* finds its run, still queued, dispatches it once more.
admit_historical_ai_run(k, expected) ==
    /\ jobThere /\ k \notin dispatching
    /\ \/ /\ airuns[k] = NoRun /\ expected = revision
          /\ airuns' = [airuns EXCEPT ![k] = NewRun("historical", expected)]
          /\ unsent' = unsent \cup {k}
       \/ MayResume(k, expected) /\ UNCHANGED <<airuns, unsent>>
    /\ dispatching' = dispatching \cup {k}
    /\ UNCHANGED <<assessments, drafts, jobThere, revision, redisVars, executor, reviewing, aiMishaps>>

\* LPUSH; for a historical run only when the envelope is on neither list.
enqueue(k) ==
    /\ k \in dispatching
    /\ aiQueue' = IF /\ airuns[k].kind = "historical"
                     /\ Occurs(aiQueue, k) \/ Occurs(aiProcessing, k)
                  THEN aiQueue ELSE Append(aiQueue, k)
    /\ dispatching' = dispatching \ {k} /\ unsent' = unsent \ {k}
    /\ UNCHANGED <<storeVars, aiProcessing, aiLeases, executor, reviewing, aiMishaps>>

\* The controller dies, or loses Redis, before the push.
LoseDispatch(k) ==
    /\ k \in dispatching /\ aiMishaps.crashes < MaxAICrashes
    /\ dispatching' = dispatching \ {k}
    /\ AIMishap("crashes")
    /\ UNCHANGED <<storeVars, redisVars, unsent, executor, reviewing>>

ChangeScope ==
    /\ revision = 1 /\ revision' = 2
    /\ UNCHANGED <<airuns, assessments, drafts, jobThere, redisVars, callVars, executor, reviewing, aiMishaps>>

-----------------------------------------------------------------------------
(* Saving a run.                                                           *)

Moved(r, target, writer) == [r EXCEPT !.transitions = Append(@, <<target, writer>>)]

\* The guard of a save: an unconditional overwrite for a plain run; a historical run
\* takes its next transition, and once ended accepts a late writer without effect.
lifecycle_save(existing, submitted) ==
    LET old == existing.transitions
        new == submitted.transitions
    IN  \/ Ended(existing) /\ Begins(FrontOf(new), old)
        \/ ~Ended(existing) /\ FrontOf(new) = old

CanSave(k, submitted) ==
    /\ airuns[k] # NoRun
    /\ submitted.kind = "historical" => lifecycle_save(airuns[k], submitted)

\* A wrong version: the save does not look at the stored state.
save_ai_run_blindly(k, submitted) == submitted

\* What a save leaves in the table and returns to its caller.
save_ai_run(k, submitted) == IF Ended(airuns[k]) THEN airuns[k] ELSE submitted

\* Cancelling reads the run and saves the transition.  A writer between the two makes
\* the save of a historical run fail and leaves an ended run alone, and either is a
\* cancellation that did not happen; a plain run is overwritten.
cancel(k) ==
    /\ Active(k)
    /\ airuns' = [airuns EXCEPT ![k] = save_ai_run(k, Moved(airuns[k], "CANCELLED", "api"))]
    /\ UNCHANGED <<assessments, drafts, jobThere, revision, redisVars, callVars, executor, reviewing, aiMishaps>>

\* A job is deleted when no run is active, and takes its runs and their results along.
delete_ai_runs ==
    /\ jobThere /\ \A k \in RunKeys : ~Active(k)
    /\ jobThere' = FALSE
    /\ airuns' = [k \in RunKeys |-> NoRun]
    /\ assessments' = {} /\ drafts' = {}
    /\ UNCHANGED <<revision, redisVars, callVars, executor, reviewing, aiMishaps>>

-----------------------------------------------------------------------------
(* The queue, as a worker sees it.                                         *)

\* An expired lease sends the envelope back, if it is still being processed.
recover(k) ==
    /\ k \in aiLeases
    /\ \E w \in AIWorkers : executor[w] = Idling
    /\ aiLeases' = aiLeases \ {k}
    /\ aiProcessing' = DropFirst(aiProcessing, k)
    /\ aiQueue' = IF Occurs(aiProcessing, k) THEN Append(aiQueue, k) ELSE aiQueue
    /\ IF \E w \in AIWorkers : executor[w] # Idling /\ executor[w].key = k
       THEN aiMishaps.expiries < MaxAIExpiries /\ AIMishap("expiries")
       ELSE UNCHANGED aiMishaps
    /\ UNCHANGED <<storeVars, callVars, executor, reviewing>>

Doing(w, step) == executor[w].at = step
Becomes(w, e) == executor' = [executor EXCEPT ![w] = e]

PopEnvelope(w) ==
    /\ Doing(w, "idle") /\ aiQueue # <<>>
    /\ aiProcessing' = Append(aiProcessing, Head(aiQueue))
    /\ aiQueue' = Tail(aiQueue)
    /\ Becomes(w, [at |-> "popped", key |-> Head(aiQueue)])
    /\ UNCHANGED <<storeVars, aiLeases, callVars, reviewing, aiMishaps>>

LeaseEnvelope(w) ==
    /\ Doing(w, "popped")
    /\ aiLeases' = aiLeases \cup {executor[w].key}
    /\ Becomes(w, [executor[w] EXCEPT !.at = "claimed"])
    /\ UNCHANGED <<storeVars, aiQueue, aiProcessing, callVars, reviewing, aiMishaps>>

ack(w) ==
    /\ Doing(w, "ack")
    /\ aiProcessing' = DropFirst(aiProcessing, executor[w].key)
    /\ aiLeases' = aiLeases \ {executor[w].key}
    /\ Becomes(w, Idling)
    /\ UNCHANGED <<storeVars, aiQueue, callVars, reviewing, aiMishaps>>

CrashWorker(w) ==
    /\ ~Doing(w, "idle") /\ aiMishaps.crashes < MaxAICrashes
    /\ AIMishap("crashes")
    /\ Becomes(w, Idling)
    /\ UNCHANGED <<storeVars, redisVars, callVars, reviewing>>

-----------------------------------------------------------------------------
(* The execution of a run: the steps of a worker between two accesses to   *)
(* the repository or the model.                                            *)

Now(w) == airuns[executor[w].key]
Historical(w) == executor[w].run.kind = "historical"
Go(w, step) == Becomes(w, [executor[w] EXCEPT !.at = step])
Save(w, run, pos, target) ==
    Becomes(w, [executor[w] EXCEPT !.at = "save", !.run = run, !.pos = pos, !.target = target])

\* An exception: a plain run is failed, but the failure of that save escapes, and so
\* does every failure of a historical run's storage.  The envelope is not acknowledged.
Raise(w) ==
    IF Historical(w) \/ executor[w].target \in {"FAILED", "CANCELLED"}
    THEN Becomes(w, Idling)
    ELSE Becomes(w, [executor[w] EXCEPT !.at = "save", !.target = "FAILED"])

\* A write is committed, or the worker does not learn whether it is.
Commits(w, Write, OnSuccess) ==
    \/ Write /\ OnSuccess /\ UNCHANGED aiMishaps
    \/ /\ aiMishaps.faults < MaxAIFaults /\ AIMishap("faults")
       /\ Write \/ UNCHANGED <<airuns, assessments, drafts>>
       /\ Raise(w)

\* A wrong version: a run that is over is not acknowledged.
execute_without_ack(w) ==
    /\ Doing(w, "claimed")
    /\ LET k == executor[w].key
           r == airuns[k]
       IN  Becomes(w,
             IF r = NoRun \/ Ended(r) THEN Idling
             ELSE [at |-> "save", key |-> k, run |-> r, pos |-> 0, target |-> "PREPARING",
                   kept |-> {}, copy |-> 0, missing |-> {}])
    /\ UNCHANGED <<storeVars, redisVars, callVars, reviewing, aiMishaps>>

\* Reading the run: gone, over, or the first transition.
execute(w) ==
    /\ Doing(w, "claimed")
    /\ LET k == executor[w].key
           r == airuns[k]
           first == IF r.kind # "historical" \/ Status(r) = "QUEUED" THEN "PREPARING" ELSE "ANALYZING"
           begun == [at |-> "save", key |-> k, run |-> r, pos |-> 0, target |-> first,
                     kept |-> {}, copy |-> 0, missing |-> {}]
       IN  Becomes(w,
             CASE r = NoRun -> Idling
               [] r # NoRun /\ Ended(r) -> [at |-> "ack", key |-> k]
               [] r.kind = "historical" /\ Status(r) \in {"ANALYZING", "VALIDATING"} ->
                    [begun EXCEPT !.at = "retained"]
               [] OTHER -> begun)
    /\ UNCHANGED <<storeVars, redisVars, callVars, reviewing, aiMishaps>>

\* What follows a transition: the end of the run, or the next step of its kind.
Continue(w, r) ==
    LET pos == executor[w].pos
        target == executor[w].target
        historical == r.kind = "historical"
        over == target \in AITerminal \/ (historical /\ Ended(r) /\ (target # "ANALYZING" \/ pos > 0))
    IN  CASE over -> Becomes(w, [at |-> "ack", key |-> executor[w].key])
          [] ~over /\ target = "PREPARING" -> Save(w, r, pos, "ANALYZING")
          [] ~over /\ target = "ANALYZING" ->
               Becomes(w, [executor[w] EXCEPT !.run = r, !.pos = IF historical THEN @ ELSE @ + 1,
                                              !.at = IF historical /\ pos = 0 THEN "retained" ELSE "model"])
          [] ~over /\ target = "VALIDATING" ->
               CASE r.kind = "report" -> Save(w, [r EXCEPT !.answered = TRUE], pos, "COMPLETED")
                 [] historical /\ CandidateCount = 0 -> Save(w, r, pos, "COMPLETED")
                 [] OTHER -> Becomes(w, [executor[w] EXCEPT !.run = r, !.at = "assess"])

\* _transition: nothing for a run that has ended, an error for a step that is not
\* allowed, and otherwise a save.
transition(w) ==
    /\ Doing(w, "save")
    /\ LET r == executor[w].run
           k == executor[w].key
           target == executor[w].target
           submitted == Moved(r, target, w)
       IN  IF Ended(r)
           THEN Continue(w, r) /\ UNCHANGED <<storeVars, aiMishaps>>
           ELSE IF target \notin AllowedTransitions[Status(r)] \/ ~CanSave(k, submitted)
           THEN Raise(w) /\ UNCHANGED <<storeVars, aiMishaps>>
           ELSE /\ Commits(w, /\ airuns' = [airuns EXCEPT ![k] = save_ai_run(k, submitted)]
                              /\ UNCHANGED <<assessments, drafts>>,
                           Continue(w, save_ai_run(k, submitted)))
                /\ UNCHANGED <<jobThere, revision>>
    /\ UNCHANGED <<redisVars, callVars, reviewing>>

\* The model is asked while the run is not seen to be cancelled, and answers or fails.
assess_candidate(w) ==
    /\ Doing(w, "model")
    /\ LET r == executor[w].run
           pos == executor[w].pos
           stopped == Now(w) # NoRun /\ Status(Now(w)) = "CANCELLED"
       IN  \/ /\ ~stopped
              /\ IF Historical(w) /\ Status(r) # "ANALYZING" THEN Go(w, "assess")
                 ELSE Save(w, r, pos, "VALIDATING")
           \/ ~stopped /\ Save(w, r, pos, "FAILED")
           \/ stopped /\ IF Historical(w) THEN Save(w, r, pos, "CANCELLED") ELSE Go(w, "ack")
    /\ UNCHANGED <<storeVars, redisVars, callVars, reviewing, aiMishaps>>

\* An assessment of a plain run has a new identifier; that of a historical run has the
\* candidate's, is written once, and not to a run that is over.
save_ai_assessment(w) ==
    /\ Doing(w, "assess")
    /\ LET k == executor[w].key
           pos == executor[w].pos
           of == [key |-> k, cand |-> pos,
                  copy |-> IF Historical(w) THEN 0
                           ELSE Cardinality({a \in assessments : a.key = k /\ a.cand = pos})]
           refused == Now(w) = NoRun \/ (Historical(w) /\ (of \in assessments \/ Ended(Now(w))))
       IN  IF refused
           THEN Raise(w) /\ UNCHANGED <<storeVars, aiMishaps>>
           ELSE /\ Commits(w, assessments' = assessments \cup {of} /\ UNCHANGED <<airuns, drafts>>,
                           Becomes(w, [executor[w] EXCEPT
                               !.at = IF Historical(w) THEN "list" ELSE "draft",
                               !.copy = of.copy, !.missing = Drafts]))
                /\ UNCHANGED <<jobThere, revision>>
    /\ UNCHANGED <<redisVars, callVars, reviewing>>

AIDraft(of, kind, n) == [of |-> of, kind |-> kind, n |-> n, review |-> "PENDING"]
SameDraft(d, e) == d.of = e.of /\ d.kind = e.kind /\ d.n = e.n

\* The assessment whose drafts the worker is writing.
Assessed(w) == [key |-> executor[w].key, cand |-> executor[w].pos, copy |-> executor[w].copy]

\* _ensure_artifacts, once per assessment that is new or was found.
ensure_artifacts(w) ==
    /\ Doing(w, "list")
    /\ Becomes(w, [executor[w] EXCEPT !.at = "draft", !.missing =
           {kind \in Drafts : ~\E d \in drafts : SameDraft(d, AIDraft(Assessed(w), kind, 0))}])
    /\ UNCHANGED <<storeVars, redisVars, callVars, reviewing, aiMishaps>>

save_ai_artifact(w) ==
    /\ Doing(w, "draft") /\ executor[w].missing # {}
    /\ LET kind == CHOOSE x \in executor[w].missing : TRUE
           new == AIDraft(Assessed(w), kind, 0)
           refused == \/ Assessed(w) \notin assessments
                      \/ Historical(w) /\ Status(Now(w)) \in {"FAILED", "CANCELLED"}
       IN  IF refused
           THEN Raise(w) /\ UNCHANGED <<storeVars, aiMishaps>>
           ELSE /\ Commits(w, /\ drafts' = IF \E d \in drafts : SameDraft(d, new) THEN drafts
                                          ELSE drafts \cup {new}
                              /\ UNCHANGED <<airuns, assessments>>,
                           Becomes(w, [executor[w] EXCEPT !.missing = @ \ {kind}]))
                /\ UNCHANGED <<jobThere, revision>>
    /\ UNCHANGED <<redisVars, callVars, reviewing>>

\* The next candidate, or the end.
NextCandidate(w) ==
    /\ Doing(w, "draft") /\ executor[w].missing = {}
    /\ LET pos == executor[w].pos
       IN  IF Historical(w) THEN Becomes(w, [executor[w] EXCEPT !.at = "loop", !.pos = @ + 1])
           ELSE Save(w, executor[w].run, pos, IF pos < CandidateCount THEN "ANALYZING" ELSE "COMPLETED")
    /\ UNCHANGED <<storeVars, redisVars, callVars, reviewing, aiMishaps>>

\* A historical run continues from the assessments that are already there.
list_ai_assessments(w) ==
    /\ Doing(w, "retained")
    /\ Becomes(w, [executor[w] EXCEPT !.at = "loop", !.pos = 1,
                       !.kept = {a.cand : a \in {a \in assessments : a.key = executor[w].key}}])
    /\ UNCHANGED <<storeVars, redisVars, callVars, reviewing, aiMishaps>>

\* A wrong version: an assessment that is there is taken to have its drafts.
execute_saved_trusting(w) ==
    /\ Doing(w, "loop")
    /\ LET r == executor[w].run
           pos == executor[w].pos
       IN  CASE pos > CandidateCount -> Save(w, r, pos, "COMPLETED")
             [] pos <= CandidateCount /\ pos \in executor[w].kept -> Becomes(w, [executor[w] EXCEPT !.pos = @ + 1])
             [] OTHER -> IF Status(r) = "VALIDATING" /\ Validations(r) = pos - 1 THEN Save(w, r, pos, "ANALYZING")
                         ELSE Go(w, "model")
    /\ UNCHANGED <<storeVars, redisVars, callVars, reviewing, aiMishaps>>

execute_saved(w) ==
    /\ Doing(w, "loop")
    /\ LET r == executor[w].run
           pos == executor[w].pos
           seen == Validations(r)
       IN  CASE pos > CandidateCount ->
                  Save(w, r, pos, IF CandidateCount = 0 /\ Status(r) = "ANALYZING" THEN "VALIDATING" ELSE "COMPLETED")
             [] pos <= CandidateCount /\ Ended(r) -> Go(w, "ack")
             [] pos <= CandidateCount /\ ~Ended(r) /\ pos \in executor[w].kept -> Go(w, "list")
             [] OTHER ->
                  IF seen \notin {pos - 1, pos} THEN Raise(w)
                  ELSE IF Status(r) = "VALIDATING" /\ seen = pos - 1 THEN Save(w, r, pos, "ANALYZING")
                  ELSE Go(w, "model")
    /\ UNCHANGED <<storeVars, redisVars, callVars, reviewing, aiMishaps>>

-----------------------------------------------------------------------------
(* The analysts.                                                           *)

\* A review reads a draft that is pending, and saves it later.
review(a, verdict) ==
    /\ reviewing[a] = Idling
    /\ \E d \in drafts : /\ d.review = "PENDING"
                         /\ reviewing' = [reviewing EXCEPT ![a] = [at |-> "decided", draft |-> [d EXCEPT !.review = verdict]]]
    /\ UNCHANGED <<storeVars, redisVars, callVars, executor, aiMishaps>>

\* Over a draft that is reviewed meanwhile, a historical draft keeps the first review.
save_review(a) ==
    /\ reviewing[a].at = "decided"
    /\ LET new == reviewing[a].draft
           r == airuns[new.of.key]
           old == {d \in drafts : SameDraft(d, new)}
           kept == /\ r.kind = "historical"
                   /\ Status(r) \in {"FAILED", "CANCELLED"} \/ \E d \in old : d.review # "PENDING"
       IN  drafts' = IF old = {} \/ kept THEN drafts ELSE (drafts \ old) \cup {new}
    /\ reviewing' = [reviewing EXCEPT ![a] = Idling]
    /\ UNCHANGED <<airuns, assessments, jobThere, revision, redisVars, callVars, executor, aiMishaps>>

regenerate_ai_artifacts(of) ==
    /\ of \in assessments
    /\ airuns[of.key].kind = "historical" => Status(airuns[of.key]) \notin {"FAILED", "CANCELLED"}
    /\ ~\E d \in drafts : d.of = of /\ d.n = 1
    /\ drafts' = drafts \cup {AIDraft(of, kind, 1) : kind \in Drafts}
    /\ UNCHANGED <<airuns, assessments, jobThere, revision, redisVars, callVars, executor, reviewing, aiMishaps>>

-----------------------------------------------------------------------------
ExecutorStep(w) ==
    \/ PopEnvelope(w) \/ LeaseEnvelope(w) \/ execute(w) \/ transition(w) \/ assess_candidate(w)
    \/ save_ai_assessment(w) \/ ensure_artifacts(w) \/ save_ai_artifact(w) \/ NextCandidate(w)
    \/ list_ai_assessments(w) \/ execute_saved(w) \/ ack(w)

AINext ==
    \/ \E k \in RunKeys :
          \/ \E kind \in {"plain", "report"} : create_run(k, kind)
          \/ \E expected \in 1..2 : admit_historical_ai_run(k, expected)
          \/ enqueue(k) \/ LoseDispatch(k) \/ cancel(k) \/ recover(k)
    \/ ChangeScope \/ delete_ai_runs
    \/ \E w \in AIWorkers : ExecutorStep(w) \/ CrashWorker(w)
    \/ \E a \in Analysts : save_review(a) \/ \E verdict \in {"APPROVED", "REJECTED"} : review(a, verdict)
    \/ \E of \in assessments : regenerate_ai_artifacts(of)

AISpec == AIInit /\ [][AINext]_aiVars

-----------------------------------------------------------------------------
(* Properties.                                                             *)

\* Every row of the AI tables belongs to a row above it and has one of the known
\* states; the Redis keys hold envelopes of known runs.
AITypeOK ==
    /\ \A k \in RunKeys : airuns[k] = NoRun \/ airuns[k].kind \in {"plain", "report", "historical"}
    /\ \A a \in assessments : a.key \in RunKeys /\ a.cand \in 1..CandidateCount
    /\ \A d \in drafts : d.of \in assessments /\ d.review \in {"PENDING", "APPROVED", "REJECTED"}
    /\ aiQueue \in Seq(RunKeys) /\ aiProcessing \in Seq(RunKeys) /\ aiLeases \subseteq RunKeys
    /\ dispatching \subseteq RunKeys

\* A run that has ended keeps its outcome until its job is deleted, whatever a second
\* worker, a late cancellation or the failure handler still tries to save.
OutcomeStays ==
    \A k \in RunKeys : airuns[k] # NoRun /\ ~Active(k) /\ jobThere' => airuns'[k] = airuns[k]
EndedRunsStay == [][OutcomeStays]_aiVars

\* The recorded transitions of a historical run are only ever extended, by one worker
\* at a time, however many workers hold its envelope.
HistoryExtends ==
    \A k \in RunKeys : airuns[k].kind = "historical" /\ jobThere'
        => Begins(airuns[k].transitions, airuns'[k].transitions)
HistoryGrows == [][HistoryExtends]_aiVars

\* A completed run has everything it promises: an assessment of each candidate with all
\* its drafts, or the answer about the report, also when workers died between the saves.
CompletedIsWhole ==
    \A k \in RunKeys : airuns[k] # NoRun /\ Status(airuns[k]) = "COMPLETED" =>
        IF airuns[k].kind = "report" THEN airuns[k].answered
        ELSE \A c \in 1..CandidateCount : \E a \in assessments :
                 /\ a.key = k /\ a.cand = c
                 /\ \A kind \in Drafts : \E d \in drafts : d.of = a /\ d.kind = kind

\* An active run whose push was not lost is on a Redis list: neither the recovery of a
\* lease nor the acknowledgement of another worker takes its last envelope away.
EnvelopeKept ==
    \A k \in RunKeys : Active(k) /\ k \notin unsent =>
        Occurs(aiQueue, k) \/ Occurs(aiProcessing, k)

\* When the push was lost, repeating the request dispatches a queued historical run,
\* also after the baseline scope has moved on.
RetryDispatches ==
    \A k \in RunKeys : airuns[k].kind = "historical" /\ Active(k) /\ k \in unsent \ dispatching
                       => MayResume(k, airuns[k].snapshot)

\* The assessments and drafts of a historical run that failed or was cancelled do not
\* change any more, although its worker and the analysts may still be at work.
ResultsFrozen ==
    \A k \in RunKeys :
        airuns[k].kind = "historical" /\ Status(airuns[k]) \in {"FAILED", "CANCELLED"} /\ jobThere'
        => /\ {a \in assessments' : a.key = k} = {a \in assessments : a.key = k}
           /\ {d \in drafts' : d.of.key = k} = {d \in drafts : d.of.key = k}
FailedResultsFreeze == [][ResultsFrozen]_aiVars

\* A draft of a historical run that is approved or rejected stays so: not a worker that
\* redelivers the draft nor a second reviewer changes it.
VerdictStays ==
    \A d \in drafts : d.review # "PENDING" /\ airuns[d.of.key].kind = "historical" /\ jobThere'
        => d \in drafts'
ReviewsStay == [][VerdictStays]_aiVars

\* A deleted job leaves no run, assessment or draft behind, whoever was still at work.
DeletionIsComplete ==
    ~jobThere => assessments = {} /\ drafts = {} /\ \A k \in RunKeys : airuns[k] = NoRun

\* What the tables and the queue hold of a run is complete: a finished run's results, an
\* unfinished run's envelope or the way to a new one, and nothing of a deleted job.
RunsAreWhole ==
    AITypeOK /\ CompletedIsWhole /\ EnvelopeKept /\ RetryDispatches /\ DeletionIsComplete

\* What is settled of a run stays: its outcome, its history, the results of a run that
\* failed, and the reviews.
SettledStays == EndedRunsStay /\ HistoryGrows /\ FailedResultsFreeze /\ ReviewsStay

\* A worker that died between taking an envelope and leasing it leaves it where neither
\* the recovery nor a repeated request finds it.
Stranded(k) ==
    /\ Occurs(aiProcessing, k) /\ k \notin aiLeases
    /\ ~\E w \in AIWorkers : executor[w] # Idling /\ executor[w].key = k

\* Workers keep claiming and executing; a lease whose holder is gone expires.
AIFairness ==
    /\ \A w \in AIWorkers : WF_aiVars(ExecutorStep(w))
    /\ \A k \in RunKeys : WF_aiVars(recover(k))
=============================================================================
