------------------------- MODULE CaptureSupervisor -------------------------
(***************************************************************************)
(* The sensor's capture runtime: the loop that polls the desired           *)
(* configuration (controlLoop), the Supervisor that replaces one capture   *)
(* group by the next, the CaptureGroup that orders its members' ends, the  *)
(* Pipelines with their readers and their shared CaptureBudget, and the    *)
(* snapshots that health checks and heartbeats take of all of them.        *)
(*                                                                         *)
(* Group g is the one Apply installs as generation g.  Supervisor.mu and   *)
(* Pipeline.mu make single publications atomic; lifecycle is a lock held   *)
(* over several steps.  Contexts are the flags that cancel them.           *)
(***************************************************************************)
EXTENDS Integers, FiniteSets, FiniteSetsExt

CONSTANTS
    Lines,          \* the capture sources: one pipeline each
    MaxVersions,    \* bound: configurations the controller ever wants
    BadVersions,    \* configurations buildPipelines or NewCaptureGroup refuse
    MaxGens,        \* bound: groups ever installed
    BudgetUnits,    \* CaptureBudget.maxBytes
    PacketSizes,    \* wire lengths
    MaxUpsets       \* bound: failing readers and forced reloads

Gens == 1 .. MaxGens

NoGroup == 0

ASSUME SupervisorConstants ==
    /\ MaxVersions \in Nat \ {0} /\ MaxGens \in Nat \ {0} /\ BudgetUnits \in Nat
    /\ BadVersions \subseteq Nat /\ PacketSizes \subseteq Nat \ {0} /\ MaxUpsets \in Nat
    /\ 1 \notin BadVersions
    /\ \E n \in PacketSizes : \A m \in PacketSizes : n >= m   \* a frame has a largest size

VARIABLES
    desired,    \* the configuration the controller wants
    sup,        \* the process context, and Supervisor: ctx, owner, version, generation
    lifecycle,  \* who holds Supervisor.lifecycle: "free" | "apply" | "run"
    control,    \* the control loop: its step, version and the owner it stops
    runner,     \* Supervisor.Run: its step and the owner it stops
    owners,     \* captureOwner and CaptureGroup of each generation
    lines,      \* the pipelines of each generation
    budgets,    \* CaptureBudget of each generation
    snap,       \* a Snapshot in progress, or its answer
    upsets

supervision == <<desired, sup, lifecycle, control, runner>>
capturing == <<owners, lines, budgets>>
supervisorVars == <<desired, sup, lifecycle, control, runner, owners, lines, budgets, snap, upsets>>

\* revoked: lifetime.terminal of the owner; cancelled: its context; ended: the
\* group's own lifetime.terminal; failed: the group has recorded a member's error;
\* manager and writer: its background members.
NewOwner == [st |-> "none", revoked |-> FALSE, cancelled |-> FALSE, ended |-> FALSE, failed |-> FALSE,
             manager |-> "running", writer |-> "running"]

\* latched: readerTerminal; ready: readerReady; records: packets aggregated and not
\* yet handed to the batch manager.
NewLine == [st |-> "new", ready |-> FALSE, latched |-> FALSE, err |-> FALSE, records |-> 0, lost |-> 0]

NewBudget == [used |-> 0, closed |-> FALSE, completed |-> FALSE]

NoSnap == [pc |-> "idle", gen |-> NoGroup, owner |-> NoGroup, dead |-> {}, rows |-> {}, seen |-> {},
           complete |-> FALSE]

\* run applies the first configuration before it starts the other goroutines.
SupervisorInit ==
    /\ desired = 1
    /\ sup = [stop |-> FALSE, ctx |-> FALSE, owner |-> NoGroup, version |-> 1, gen |-> 1]
    /\ lifecycle = "free"
    /\ control = [pc |-> "idle", version |-> 0, stops |-> NoGroup]
    /\ runner = [pc |-> "new", stops |-> NoGroup]
    /\ owners = [g \in Gens |-> NewOwner]
    /\ lines = [g \in Gens |-> [l \in Lines |-> NewLine]]
    /\ budgets = [g \in Gens |-> NewBudget]
    /\ snap = NoSnap
    /\ upsets = 0

Upset == upsets < MaxUpsets /\ upsets' = upsets + 1

\* The context of a group's pipelines: cancelled by its owner, by the process, or
\* by the group once a member has failed.
Halted(g) == owners[g].cancelled \/ sup.stop \/ owners[g].failed

----------------------------------------------------------------------------
(* The control loop and the supervisor.                                    *)

\* A new configuration, or a job that begins or ends on this sensor.
ChangeDesired ==
    /\ desired < MaxVersions
    /\ desired' = desired + 1
    /\ UNCHANGED <<sup, lifecycle, control, runner, capturing, snap, upsets>>

\* A configuration that cannot be built leaves everything as it is.
BeginApply ==
    /\ control.pc = "idle" /\ ~sup.stop /\ sup.gen < MaxGens
    /\ desired \notin BadVersions
    /\ control' = [control EXCEPT !.pc = "applying", !.version = desired]
    /\ UNCHANGED <<desired, sup, lifecycle, runner, capturing, snap>>

\* controlLoop: a poll that finds something new ...
Poll == desired # sup.version /\ BeginApply /\ UNCHANGED upsets

\* ... or one that SIGHUP forces.
Reload == desired = sup.version /\ BeginApply /\ Upset

\* Apply takes the lifecycle lock ...
ApplyLocks ==
    /\ control.pc = "applying" /\ lifecycle = "free"
    /\ lifecycle' = "apply"
    /\ control' = [control EXCEPT !.pc = "revoke"]
    /\ UNCHANGED <<desired, sup, runner, capturing, snap, upsets>>

\* stopOwned, under Supervisor.mu: the owner is revoked before it is cancelled.
Revoke(g) ==
    /\ sup' = [sup EXCEPT !.owner = NoGroup]
    /\ owners' = IF g = NoGroup THEN owners ELSE [owners EXCEPT ![g].revoked = TRUE]

ApplyRevokes ==
    /\ control.pc = "revoke"
    /\ Revoke(sup.owner)
    /\ control' = [control EXCEPT !.pc = IF sup.owner = NoGroup THEN "install" ELSE "cancel", !.stops = sup.owner]
    /\ UNCHANGED <<desired, lifecycle, runner, lines, budgets, snap, upsets>>

ApplyCancels ==
    /\ control.pc = "cancel"
    /\ owners' = [owners EXCEPT ![control.stops].cancelled = TRUE]
    /\ control' = [control EXCEPT !.pc = "join"]
    /\ UNCHANGED <<desired, sup, lifecycle, runner, lines, budgets, snap, upsets>>

\* A mutant: the next group is installed without waiting for the last one.
ApplyDoesNotJoin ==
    /\ control.pc = "join"
    /\ control' = [control EXCEPT !.pc = "install", !.stops = NoGroup]
    /\ UNCHANGED <<desired, sup, lifecycle, runner, capturing, snap, upsets>>

\* ... waits until the last group's goroutine has returned ...
ApplyJoins ==
    /\ control.pc = "join"
    /\ owners[control.stops].st = "done"
    /\ control' = [control EXCEPT !.pc = "install", !.stops = NoGroup]
    /\ UNCHANGED <<desired, sup, lifecycle, runner, capturing, snap, upsets>>

Started(g) == [owners EXCEPT ![g].st = "started"]

\* A mutant: the lifecycle lock is not released.
InstallKeepsLock ==
    /\ control.pc = "install"
    /\ LET g == sup.gen + 1
           starts == sup.ctx /\ ~sup.stop
       IN  /\ sup' = [sup EXCEPT !.gen = g, !.version = control.version, !.owner = IF starts THEN g ELSE NoGroup]
           /\ owners' = IF starts THEN Started(g) ELSE owners
    /\ control' = [control EXCEPT !.pc = "idle"]
    /\ UNCHANGED <<desired, lifecycle, runner, lines, budgets, snap, upsets>>

\* ... and publishes the next one, which starts at once when Run is active.
Install ==
    /\ control.pc = "install"
    /\ LET g == sup.gen + 1
           starts == sup.ctx /\ ~sup.stop
       IN  /\ sup' = [sup EXCEPT !.gen = g, !.version = control.version, !.owner = IF starts THEN g ELSE NoGroup]
           /\ owners' = IF starts THEN Started(g) ELSE owners
    /\ lifecycle' = "free"
    /\ control' = [control EXCEPT !.pc = "idle"]
    /\ UNCHANGED <<desired, runner, lines, budgets, snap, upsets>>

\* Supervisor.Run starts the group that was installed before it.
RunStarts ==
    /\ runner.pc = "new" /\ lifecycle = "free"
    /\ sup' = [sup EXCEPT !.ctx = TRUE, !.owner = IF sup.stop THEN NoGroup ELSE sup.gen]
    /\ owners' = IF sup.stop THEN owners ELSE Started(sup.gen)
    /\ runner' = [runner EXCEPT !.pc = "serving"]
    /\ UNCHANGED <<desired, lifecycle, control, lines, budgets, snap, upsets>>

\* The process is told to stop, or its health server or registration fails.
CancelProcess ==
    /\ ~sup.stop
    /\ sup' = [sup EXCEPT !.stop = TRUE]
    /\ UNCHANGED <<desired, lifecycle, control, runner, capturing, snap, upsets>>

RunLocks ==
    /\ runner.pc = "serving" /\ sup.stop /\ lifecycle = "free"
    /\ lifecycle' = "run"
    /\ runner' = [runner EXCEPT !.pc = "revoke"]
    /\ UNCHANGED <<desired, sup, control, capturing, snap, upsets>>

RunRevokes ==
    /\ runner.pc = "revoke"
    /\ Revoke(sup.owner)
    /\ runner' = [runner EXCEPT !.pc = IF sup.owner = NoGroup THEN "leave" ELSE "join", !.stops = sup.owner]
    /\ UNCHANGED <<desired, lifecycle, control, lines, budgets, snap, upsets>>

RunJoins ==
    /\ runner.pc = "join"
    /\ owners[runner.stops].st = "done"
    /\ runner' = [runner EXCEPT !.pc = "leave", !.stops = NoGroup]
    /\ UNCHANGED <<desired, sup, lifecycle, control, capturing, snap, upsets>>

RunLeaves ==
    /\ runner.pc = "leave"
    /\ sup' = [sup EXCEPT !.ctx = FALSE]
    /\ runner' = [runner EXCEPT !.pc = "returned"]
    /\ lifecycle' = "free"
    /\ UNCHANGED <<desired, control, capturing, snap, upsets>>

----------------------------------------------------------------------------
(* The capture group.                                                      *)

GroupRunning(g) == owners[g].st = "running"

\* CaptureGroup.Run publishes its lifetime and starts its members.
GroupRuns(g) ==
    /\ owners[g].st = "started"
    /\ owners' = [owners EXCEPT ![g].st = "running"]
    /\ UNCHANGED <<supervision, lines, budgets, snap, upsets>>

Foreground(g) == {l \in Lines : lines[g][l].st # "done"}

\* A member has returned an error ...
Faulty(g) == owners[g].writer = "failed" \/ \E l \in Lines : lines[g][l].st = "done" /\ lines[g][l].err

\* A PCAP writer cannot write.
WriterFails(g) ==
    /\ GroupRunning(g) /\ owners[g].writer = "running" /\ owners[g].manager = "running" /\ Upset
    /\ owners' = [owners EXCEPT ![g].writer = "failed", ![g].ended = TRUE]
    /\ UNCHANGED <<supervision, lines, budgets, snap>>

\* ... which the group records: foreground and background are cancelled alike.
RecordFailure(g) ==
    /\ GroupRunning(g) /\ Faulty(g) /\ ~owners[g].failed
    /\ owners' = [owners EXCEPT ![g].failed = TRUE]
    /\ UNCHANGED <<supervision, lines, budgets, snap, upsets>>

\* A mutant: the background is cancelled together with the pipelines.
ManagerStopsEarly(g) ==
    /\ GroupRunning(g) /\ owners[g].manager = "running"
    /\ Foreground(g) = {} \/ Halted(g)
    /\ owners' = [owners EXCEPT ![g].manager = "stopped"]
    /\ UNCHANGED <<supervision, lines, budgets, snap, upsets>>

\* The batch manager and the writers are cancelled once every pipeline's result is
\* recorded, or a failure is.
ManagerStops(g) ==
    /\ GroupRunning(g) /\ owners[g].manager = "running"
    /\ (Foreground(g) = {} /\ ~Faulty(g)) \/ owners[g].failed
    /\ owners' = [owners EXCEPT ![g].manager = "stopped"]
    /\ UNCHANGED <<supervision, lines, budgets, snap, upsets>>

\* The archive manager goes last; then Run returns and the owner is done.
GroupEnds(g) ==
    /\ GroupRunning(g)
    /\ Foreground(g) = {} /\ owners[g].manager = "stopped"
    /\ owners' = [owners EXCEPT ![g].st = "done", ![g].ended = TRUE, ![g].revoked = TRUE]
    /\ UNCHANGED <<supervision, lines, budgets, snap, upsets>>

----------------------------------------------------------------------------
(* A pipeline and its reader.                                              *)

SetLine(g, l, x) == lines' = [lines EXCEPT ![g][l] = x]

\* A pipeline's Run returns: its group's observations are void from here on.
Ends(g, l, x) ==
    /\ SetLine(g, l, [x EXCEPT !.st = "done", !.latched = TRUE, !.ready = FALSE])
    /\ owners' = [owners EXCEPT ![g].ended = TRUE]

\* Run up to the reader's launch: a cancelled context ends it, and so does a
\* source that cannot be opened.
OpenSource(g, l) ==
    LET x == lines[g][l] IN
    /\ GroupRunning(g) /\ x.st = "new"
    /\ \/ Halted(g) /\ Ends(g, l, x)
       \/ ~Halted(g) /\ SetLine(g, l, [x EXCEPT !.st = "launched"]) /\ UNCHANGED owners
    /\ UNCHANGED <<supervision, budgets, snap, upsets>>

OpenFails(g, l) ==
    /\ GroupRunning(g) /\ lines[g][l].st = "new" /\ Upset
    /\ Ends(g, l, [lines[g][l] EXCEPT !.err = TRUE])
    /\ UNCHANGED <<supervision, budgets, snap>>

\* markReaderStarted, the reader's first act.
MarkReaderStarted(g, l) ==
    LET x == lines[g][l] IN
    /\ x.st = "launched"
    /\ SetLine(g, l, [x EXCEPT !.st = "reading", !.ready = ~x.latched /\ ~Halted(g)])
    /\ UNCHANGED <<supervision, owners, budgets, snap, upsets>>

\* A mutant: the reader's end is noticed only by the pipeline's own loop.
ReaderFailsQuietly(g, l) ==
    LET x == lines[g][l] IN
    /\ x.st = "reading" /\ Upset
    /\ \E err \in BOOLEAN : SetLine(g, l, [x EXCEPT !.st = "stopping", !.err = err, !.latched = TRUE])
    /\ UNCHANGED <<supervision, owners, budgets, snap>>

\* The reader meets the end of its input, or an error: it revokes itself first.
ReaderFails(g, l) ==
    LET x == lines[g][l] IN
    /\ x.st = "reading" /\ Upset
    /\ \E err \in BOOLEAN :
           SetLine(g, l, [x EXCEPT !.st = "stopping", !.err = err, !.latched = TRUE, !.ready = FALSE])
    /\ UNCHANGED <<supervision, owners, budgets, snap>>

\* CaptureBudget.Reserve: a packet that does not fit is refused and closes the
\* budget, as does the one that exhausts it.
Reserve(b, n) ==
    IF n > BudgetUnits - b.used THEN [b EXCEPT !.closed = TRUE]
    ELSE [b EXCEPT !.used = @ + n, !.closed = @ \/ b.used + n >= BudgetUnits]

\* One packet: the budget is asked; a packet it accepts is aggregated; when it is
\* refused or the last that fits, the reader is revoked and the pipeline is to finish.
TakePacket(g, l) ==
    LET x == lines[g][l] IN
    /\ x.st = "reading"
    /\ \E n \in PacketSizes :
           LET b == Reserve(budgets[g], n)
               accepted == b.used > budgets[g].used
               y == IF accepted THEN [x EXCEPT !.records = 1] ELSE x
           IN  /\ budgets' = [budgets EXCEPT ![g] = b]
               /\ SetLine(g, l, IF ~accepted \/ b.used >= BudgetUnits
                                THEN [y EXCEPT !.st = "limit", !.latched = TRUE, !.ready = FALSE]
                                ELSE y)
    /\ UNCHANGED <<supervision, owners, snap, upsets>>

\* The idle ticker: expired flows go to the batch manager.
IdleTick(g, l) ==
    LET x == lines[g][l] IN
    /\ x.st = "reading" /\ x.records > 0
    /\ SetLine(g, l, [x EXCEPT !.records = 0, !.lost = IF owners[g].manager = "running" THEN @ ELSE 1])
    /\ UNCHANGED <<supervision, owners, budgets, snap, upsets>>

\* A batch that cannot be encoded ends the pipeline at once.
PersistFails(g, l) ==
    LET x == lines[g][l] IN
    /\ x.st = "reading" /\ x.records > 0 /\ Upset
    /\ Ends(g, l, [x EXCEPT !.err = TRUE, !.records = 0, !.lost = 1])
    /\ UNCHANGED <<supervision, budgets, snap>>

Joined(x) == [x EXCEPT !.st = "flushing", !.latched = TRUE, !.ready = FALSE]

\* A packet from beyond the capture window finishes the pipeline.
WindowEnds(g, l) ==
    /\ lines[g][l].st = "reading"
    /\ SetLine(g, l, Joined(lines[g][l]))
    /\ UNCHANGED <<supervision, owners, budgets, snap, upsets>>

\* A mutant: a pipeline that waits for packets does not see that it is cancelled.
FinishOnEventOnly(g, l) ==
    LET x == lines[g][l] IN
    /\ x.st \in {"stopping", "limit"}
    /\ budgets' = [budgets EXCEPT ![g].completed = @ \/ x.st = "limit"]
    /\ SetLine(g, l, Joined(x))
    /\ UNCHANGED <<supervision, owners, snap, upsets>>

\* finish: the reader is joined; a limit is published as the completion of the
\* group's jobs before the last records leave.  When several events wait, select
\* takes any of them; the reader's error counts only if it is the one.
FinishLine(g, l) ==
    LET x == lines[g][l]
        quiet == [x EXCEPT !.err = FALSE]
    IN  /\ \/ /\ x.st = "limit" \/ (x.st \in {"reading", "stopping"} /\ budgets[g].closed)
              /\ budgets' = [budgets EXCEPT ![g].completed = TRUE]
              /\ SetLine(g, l, Joined(quiet))
           \/ /\ x.st \in {"reading", "stopping"} /\ Halted(g)
              /\ SetLine(g, l, Joined(quiet)) /\ UNCHANGED budgets
           \/ /\ x.st = "stopping"
              /\ SetLine(g, l, Joined(x)) /\ UNCHANGED budgets
        /\ UNCHANGED <<supervision, owners, snap, upsets>>

\* The last records go to the batch manager, which takes none once it has stopped.
Flush(g, l) ==
    LET x == lines[g][l] IN
    /\ x.st = "flushing"
    /\ IF owners[g].manager = "running" THEN Ends(g, l, [x EXCEPT !.records = 0])
       ELSE Ends(g, l, [x EXCEPT !.records = 0, !.lost = x.records])
    /\ UNCHANGED <<supervision, budgets, snap, upsets>>

----------------------------------------------------------------------------
(* Snapshots.                                                              *)

\* The pipelines whose reader can be known to have stopped.
DeadLines ==
    {row \in Gens \X Lines :
        lines[row[1]][row[2]].latched \/ (owners[row[1]].st # "none" /\ Halted(row[1]))}

\* Supervisor.Snapshot, which leaves no trace, is followed once per behaviour.  It
\* reads what is published ...
SnapBegins ==
    /\ snap.pc = "idle"
    /\ snap' = [NoSnap EXCEPT !.pc = "sampling", !.gen = sup.gen, !.owner = sup.owner, !.dead = DeadLines,
                              !.complete = GroupRunning(sup.gen)]
    /\ UNCHANGED <<supervision, capturing, upsets>>

\* ... asks the group's members one by one ...
SnapSamples(l) ==
    /\ snap.pc = "sampling" /\ l \notin snap.seen
    /\ LET g == snap.gen
           ready == lines[g][l].ready /\ ~Halted(g) /\ ~budgets[g].closed
       IN  snap' = [snap EXCEPT !.seen = @ \cup {l}, !.rows = IF ready THEN @ \cup {<<g, l>>} ELSE @]
    /\ UNCHANGED <<supervision, capturing, upsets>>

\* ... voids the observation of a group that has ended in the meantime ...
SnapChecksGroup ==
    /\ snap.pc = "sampling" /\ snap.seen = Lines
    /\ LET g == snap.gen IN
       snap' = [snap EXCEPT !.pc = "checked",
                            !.complete = @ /\ ~owners[g].ended /\ ~Halted(g)]
    /\ UNCHANGED <<supervision, capturing, upsets>>

\* What is kept of an answer: its rows, and which of them are of readers that were
\* known to have stopped when the snapshot was begun.
SnapAnswer(complete) ==
    LET rows == IF complete THEN snap.rows ELSE {}
    IN  [NoSnap EXCEPT !.pc = "answered", !.gen = sup.gen, !.complete = complete, !.rows = rows,
                       !.dead = rows \cap snap.dead]

\* ... and publishes the rows under the current envelope only when group, owner and
\* generation are still those it has read, and the owner is live.
SnapAnswers ==
    /\ snap.pc = "checked"
    /\ LET holds == /\ snap.gen = sup.gen /\ snap.owner = sup.owner /\ snap.owner # NoGroup
                    /\ ~owners[sup.owner].revoked /\ ~owners[sup.owner].cancelled /\ ~sup.stop
       IN  snap' = SnapAnswer(holds /\ snap.complete)
    /\ UNCHANGED <<supervision, capturing, upsets>>

----------------------------------------------------------------------------
LineStep(g, l) ==
    OpenSource(g, l) \/ MarkReaderStarted(g, l) \/ FinishLine(g, l) \/ Flush(g, l)

GroupStep(g) == GroupRuns(g) \/ RecordFailure(g) \/ ManagerStops(g) \/ GroupEnds(g)

ApplyStep == ApplyLocks \/ ApplyRevokes \/ ApplyCancels \/ ApplyJoins \/ Install

RunStep == RunStarts \/ RunLocks \/ RunRevokes \/ RunJoins \/ RunLeaves

SupervisorNext ==
    \/ ChangeDesired \/ Poll \/ Reload \/ ApplyStep \/ RunStep \/ CancelProcess
    \/ \E g \in Gens : GroupStep(g) \/ WriterFails(g)
    \/ \E g \in Gens, l \in Lines : LineStep(g, l)
    \/ \E g \in Gens, l \in Lines : TakePacket(g, l) \/ IdleTick(g, l) \/ WindowEnds(g, l)
    \/ \E g \in Gens, l \in Lines : OpenFails(g, l) \/ ReaderFails(g, l) \/ PersistFails(g, l)
    \/ SnapBegins \/ SnapChecksGroup \/ SnapAnswers
    \/ \E l \in Lines : SnapSamples(l)

SupervisorSpec == SupervisorInit /\ [][SupervisorNext]_supervisorVars

\* Goroutines that can run do; the poll's ticker fires.
SupervisorFairness ==
    /\ WF_supervisorVars(Poll) /\ WF_supervisorVars(ApplyStep) /\ WF_supervisorVars(RunStep)
    /\ \A g \in Gens : WF_supervisorVars(GroupStep(g))
    /\ \A g \in Gens, l \in Lines : WF_supervisorVars(LineStep(g, l))

----------------------------------------------------------------------------
(* Properties.                                                             *)

\* The type of every variable.
SupervisorTypeOK ==
    /\ desired \in 1 .. MaxVersions
    /\ sup \in [stop : BOOLEAN, ctx : BOOLEAN, owner : 0 .. MaxGens, version : 1 .. MaxVersions, gen : Gens]
    /\ lifecycle \in {"free", "apply", "run"}
    /\ control.pc \in {"idle", "applying", "revoke", "cancel", "join", "install"}
    /\ runner.pc \in {"new", "serving", "revoke", "join", "leave", "returned"}
    /\ \A g \in Gens : owners[g].st \in {"none", "started", "running", "done"} /\ budgets[g].used \in 0 .. BudgetUnits
    /\ \A g \in Gens, l \in Lines :
           lines[g][l].st \in {"new", "launched", "reading", "stopping", "limit", "flushing", "done"}
    /\ snap.pc \in {"idle", "sampling", "checked", "answered"}

\* Two groups never capture at the same time: the next one starts when the last has
\* returned, whoever stopped it.  Supervisor.Run returns when nothing captures any more,
\* and no Apply that was under way starts a group behind its back.
OneGroupCaptures ==
    /\ \A g, h \in Gens : {owners[g].st, owners[h].st} \subseteq {"started", "running"} => g = h
    /\ runner.pc = "returned" => \A g \in Gens : owners[g].st \notin {"started", "running"}

\* A readiness row shown under a generation is of that generation's group, and of a
\* reader that had not stopped when the snapshot was begun.
ReadinessIsTrue ==
    snap.pc = "answered" => snap.dead = {} /\ \A row \in snap.rows : row[1] = snap.gen

\* Unless a member fails, the records a pipeline flushes at its end reach the batch
\* manager before that stops.
FlushedInTime == \A g \in Gens, l \in Lines : lines[g][l].lost > 0 => Faulty(g)

\* Jobs are reported as completed only when the budget their pipelines share is
\* exhausted to within less than a packet, and it is never exceeded.
CompletionMeansExhausted ==
    \A g \in Gens : budgets[g].completed => budgets[g].closed /\ BudgetUnits - budgets[g].used < Max(PacketSizes)

\* What a group took is delivered, and it calls its jobs completed when they are.
CaptureIsComplete == SupervisorTypeOK /\ FlushedInTime /\ CompletionMeansExhausted
=============================================================================
