---------------------------- MODULE MCController -----------------------------
(***************************************************************************)
(* The controller's queues, baselines and AI runs, which share no state,   *)
(* checked in one run: a behaviour is about one of them, its focus, and    *)
(* the others stay as they begin.  Its cast says which actors take part    *)
(* and how often things go wrong; a component is explored with several     *)
(* small casts.                                                            *)
(***************************************************************************)
EXTENDS LeasedQueue, BaselineScopes, BaselineTransport, AIRuns

CONSTANT Foci   \* the components to check

VARIABLES focus, cast

One(S) == {CHOOSE x \in S : TRUE}

-----------------------------------------------------------------------------
(* The queue.                                                              *)

Anywhere == {"recovering", "leasing", "holding"}

\* Equal copies outstanding together and crashes anywhere; unique messages and
\* crashes anywhere but between the pop and the lease.
EqualOrUnique ==
    {[copies |-> 2, crash |-> Anywhere], [copies |-> 1, crash |-> Anywhere \ {"leasing"}]}

-----------------------------------------------------------------------------
(* The baselines.                                                          *)

TwoCaptures == {<<1, 1>>, <<1, 2>>, <<2, 1>>}

\* One controller and a client that sends five requests one after the other; two
\* controllers and an edited source; two controllers and a lost commit or a crash.
BaselineCasts ==
    {[hands |-> 1, edits |-> 0, losses |-> 0, reuse |-> FALSE,
      asks |-> <<{"APPROVE"}, {"APPROVE"}, {"ROLLBACK", "REVOKE", "FREEZE"}, {"UNFREEZE"}, {"APPROVE", "FREEZE"}>>],
     [hands |-> 2, edits |-> 1, losses |-> 0, reuse |-> FALSE, asks |-> <<{"APPROVE"}, {"APPROVE", "FREEZE"}>>],
     [hands |-> 2, edits |-> 0, losses |-> 1, reuse |-> TRUE, asks |-> <<{"APPROVE"}, {"APPROVE", "RETIRE"}>>]}

BaselineCast ==
    /\ Edits' <= cast.edits /\ losses' <= cast.losses
    /\ Cardinality(requests') <= Len(cast.asks)
    /\ \A r \in requests' \ requests :
          LET n == Cardinality(requests')
          IN  /\ r.what.action \in cast.asks[n]
              /\ r.key = n \/ cast.reuse
              /\ cast.hands > 1 /\ r.what.action = "APPROVE" => r.what.source = <<1, n>>
    /\ cast.hands = 1 => /\ requests # requests' => Len(effects) = Cardinality(requests)
                         /\ \A c \in Controllers \ One(Controllers) : calls'[c] = NoCall

SomeCalls == {<<"preview", 1>>, <<"approve", 1>>, <<"approve", 2>>, <<"plain", 1>>}

-----------------------------------------------------------------------------
(* The AI runs.                                                            *)

\* Two workers with a plain or a report run, and with a historical one; one worker,
\* a lost commit, a moved scope and a deleted job; two reviewers; one reviewer, and
\* a job deleted under them.
AICasts ==
    {[kinds |-> {"plain", "report"}, hands |-> 2, reviewers |-> 0, crashes |-> 1, faults |-> 0, expiries |-> 1,
      cancels |-> TRUE, moves |-> FALSE],
     [kinds |-> {"historical"}, hands |-> 2, reviewers |-> 0, crashes |-> 1, faults |-> 0, expiries |-> 1,
      cancels |-> FALSE, moves |-> FALSE],
     [kinds |-> {"historical", "plain"}, hands |-> 1, reviewers |-> 0, crashes |-> 1, faults |-> 1, expiries |-> 0,
      cancels |-> TRUE, moves |-> TRUE],
     [kinds |-> {"historical"}, hands |-> 1, reviewers |-> 2, crashes |-> 0, faults |-> 0, expiries |-> 0,
      cancels |-> TRUE, moves |-> FALSE],
     [kinds |-> {"plain"}, hands |-> 1, reviewers |-> 1, crashes |-> 0, faults |-> 0, expiries |-> 0,
      cancels |-> TRUE, moves |-> TRUE]}

AICast ==
    /\ \A k \in RunKeys : airuns[k] = NoRun /\ airuns'[k] # NoRun => airuns'[k].kind \in cast.kinds
    /\ aiMishaps'.crashes <= cast.crashes /\ aiMishaps'.faults <= cast.faults
    /\ aiMishaps'.expiries <= cast.expiries
    /\ Cardinality({w \in AIWorkers : executor'[w] # Idling}) <= cast.hands
    /\ Cardinality({a \in Analysts : reviewing'[a] # Idling}) <= cast.reviewers
    /\ cast.reviewers # 1 => \A d \in drafts' : d.n = 0
    /\ ~cast.cancels => \A k \in RunKeys : airuns'[k] # NoRun => LastOf(airuns'[k].transitions) # <<"CANCELLED", "api">>
    /\ ~cast.moves => jobThere' /\ revision' = 1

-----------------------------------------------------------------------------
Casts == CASE focus = "baseline" -> BaselineCasts
           [] focus = "ai" -> AICasts
           [] OTHER -> {<<>>}

ControllerInit ==
    /\ focus \in Foci
    /\ cast \in Casts
    /\ Init /\ (focus # "queue" => mode = CHOOSE m \in Modes : TRUE)
    /\ ScopesInit /\ TransportInit /\ AIInit

ControllerNext ==
    /\ \/ focus = "queue" /\ Next
       \/ focus = "baseline" /\ ScopesNext /\ BaselineCast
       \/ focus = "transport" /\ TransportNext
       \/ focus = "ai" /\ AINext /\ AICast
    /\ focus # "queue" => UNCHANGED vars
    /\ focus # "baseline" => UNCHANGED scopeVars
    /\ focus # "transport" => UNCHANGED transportVars
    /\ focus # "ai" => UNCHANGED aiVars
    /\ UNCHANGED <<focus, cast>>

controllerVars == <<focus, cast, vars, scopeVars, transportVars, aiVars>>

ControllerSpec == ControllerInit /\ [][ControllerNext]_controllerVars
=============================================================================
