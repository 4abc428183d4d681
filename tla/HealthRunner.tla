---------------------------- MODULE HealthRunner ----------------------------
(***************************************************************************)
(* health/runner.go: the health check runner.  Start runs one cycle in the  *)
(* caller's goroutine and then the ticker loop, which starts a goroutine    *)
(* per tick.  A cycle runs every check concurrently; the goroutines of      *)
(* compositeChecker.Check share finalStatus without synchronisation, so its *)
(* test and the stores of its fields are separate steps.  A check that      *)
(* outlives its deadline is abandoned and keeps running.                    *)
(***************************************************************************)
EXTENDS Integers, Sequences, FiniteSets

CONSTANTS
    Checks,         \* names of the checks
    Errs,           \* errors a CheckFunc may return
    None,           \* no error, no source, no status
    Main,           \* the goroutine that calls Start
    Ticks,          \* goroutines that ticks start (reused once they end)
    panicOnError,   \* WithPanicOnError
    FuncMayPanic    \* may a CheckFunc panic?

ASSUME RunnerAssumption ==
    /\ IsFiniteSet(Checks) /\ Main \notin Ticks
    /\ None \notin Checks \cup Errs
    /\ panicOnError \in BOOLEAN /\ FuncMayPanic \in BOOLEAN

Cycles == Ticks \cup {Main}

Status == [State : {"Unknown", "Healthy", "Unhealthy"},
           Error : Errs \cup {None}, Source : Checks \cup {None}]

ASSUME StatusAssumption == None \notin Status

Fields == {"State", "Error", "Source"}

StateOnly(s) == [State |-> s, Error |-> None, Source |-> None]

VARIABLES
    loop,               \* the run loop: "new", "starting", "on", "off"
    stopped,            \* is r.stop closed?
    cl,                 \* the checks added so far
    runningCheckCycle,
    lastStatus,
    reportChan,
    dropped,            \* was the newest report dropped?
    at,                 \* where each cycle goroutine is
    finalStatus,        \* finalStatus of each cycle
    worker,             \* where the goroutine of each check of each cycle is
    status,             \* what its unaryChecker returned
    todo,               \* the fields it has yet to store into finalStatus
    abandoned,          \* has a call been abandoned? (it may run on for ever)
    crashed             \* a panic ended the process

vars == <<loop, stopped, cl, runningCheckCycle, lastStatus, reportChan, dropped,
          at, finalStatus, worker, status, todo, abandoned, crashed>>

reporter == <<lastStatus, reportChan, dropped>>
checking == <<finalStatus, worker, status, todo>>
control == <<loop, stopped, cl>>

Idle(S, v) == [g \in Cycles |-> [k \in S |-> v]]

Init ==
    /\ loop = "new" /\ stopped = FALSE /\ cl = {}
    /\ runningCheckCycle = FALSE
    /\ lastStatus = StateOnly("Unknown") /\ reportChan = <<>> /\ dropped = FALSE
    /\ at = [g \in Cycles |-> "idle"]
    /\ finalStatus = [g \in Cycles |-> StateOnly("Healthy")]
    /\ worker = Idle(Checks, "off")
    /\ status = Idle(Checks, StateOnly("Healthy"))
    /\ todo = Idle(Checks, {})
    /\ abandoned = FALSE /\ crashed = FALSE

-----------------------------------------------------------------------------
(* Start, Stop, AddCheck and the loop *)
AddCheck(k) ==
    /\ loop = "new" /\ cl' = cl \cup {k}
    /\ UNCHANGED <<loop, stopped, runningCheckCycle, reporter, at, checking, abandoned, crashed>>

Start ==
    /\ loop = "new" /\ loop' = "starting"
    /\ at' = [at EXCEPT ![Main] = "swap"]
    /\ UNCHANGED <<stopped, cl, runningCheckCycle, reporter, checking, abandoned, crashed>>

\* The first cycle is over: "go r.run()".
StartLoop ==
    /\ loop = "starting" /\ at[Main] = "idle"
    /\ loop' = "on"
    /\ UNCHANGED <<stopped, cl, runningCheckCycle, reporter, at, checking, abandoned, crashed>>

Tick(g) ==
    /\ loop = "on" /\ g \in Ticks /\ at[g] = "idle"
    /\ at' = [at EXCEPT ![g] = "swap"]
    /\ UNCHANGED <<control, runningCheckCycle, reporter, checking, abandoned, crashed>>

Stop ==
    /\ ~stopped /\ stopped' = TRUE
    /\ UNCHANGED <<loop, cl, runningCheckCycle, reporter, at, checking, abandoned, crashed>>

\* Mutant: the loop never looks at r.stop.
LoopIgnoresStop ==
    /\ loop = "on" /\ stopped /\ FALSE
    /\ loop' = "off"
    /\ UNCHANGED <<stopped, cl, runningCheckCycle, reporter, at, checking, abandoned, crashed>>

LoopEnds ==
    /\ loop = "on" /\ stopped
    /\ loop' = "off"
    /\ UNCHANGED <<stopped, cl, runningCheckCycle, reporter, at, checking, abandoned, crashed>>

-----------------------------------------------------------------------------
(* runHealthCheck *)
\* Mutant: the flag is tested, but not in one step with the store (a load here,
\* a store after the checks were started).
SwapTestOnly(g) ==
    /\ at[g] = "swap"
    /\ IF runningCheckCycle
       THEN /\ at' = [at EXCEPT ![g] = "idle"] /\ UNCHANGED worker
       ELSE /\ at' = [at EXCEPT ![g] = "check"]
            /\ worker' = [worker EXCEPT ![g] = [k \in Checks |-> IF k \in cl THEN "run" ELSE "off"]]
    /\ UNCHANGED <<control, runningCheckCycle, reporter, finalStatus, status, todo, abandoned, crashed>>

\* The compare-and-swap; a busy runner drops the cycle.
Swap(g) ==
    /\ at[g] = "swap"
    /\ IF runningCheckCycle
       THEN /\ at' = [at EXCEPT ![g] = "idle"]
            /\ UNCHANGED <<runningCheckCycle, worker>>
       ELSE /\ runningCheckCycle' = TRUE
            /\ at' = [at EXCEPT ![g] = "check"]
            /\ worker' = [worker EXCEPT ![g] = [k \in Checks |-> IF k \in cl THEN "run" ELSE "off"]]
    /\ UNCHANGED <<control, reporter, finalStatus, status, todo, abandoned, crashed>>

\* unaryChecker.Check returns s to the goroutine of compositeChecker.Check,
\* which has nothing to do for a healthy check.
Answer(g, k, s) ==
    /\ at[g] = "check" /\ worker[g][k] = "run"
    /\ status' = [status EXCEPT ![g][k] = s]
    /\ worker' = [worker EXCEPT ![g][k] = IF s.State = "Healthy" THEN "done" ELSE "test"]
    /\ UNCHANGED <<control, runningCheckCycle, reporter, at, finalStatus, todo, crashed>>

CheckReturns(g, k) ==
    /\ \/ Answer(g, k, StateOnly("Healthy"))
       \/ \E e \in Errs : Answer(g, k, [State |-> "Unhealthy", Error |-> e, Source |-> k])
    /\ UNCHANGED abandoned

\* Mutant: the answer of a timed-out check is waited for.
NoDeadline(g, k) ==
    /\ Answer(g, k, [State |-> "Unknown", Error |-> None, Source |-> k])
    /\ FALSE /\ UNCHANGED abandoned

\* The deadline passes first: the call goes on without anybody waiting for it.
Deadline(g, k) ==
    /\ Answer(g, k, [State |-> "Unknown", Error |-> None, Source |-> k])
    /\ abandoned' = TRUE

\* A running or an abandoned call panics; nothing recovers it.
CheckPanics ==
    /\ FuncMayPanic
    /\ abandoned \/ \E g \in Cycles, k \in Checks : at[g] = "check" /\ worker[g][k] = "run"
    /\ crashed' = TRUE
    /\ UNCHANGED <<control, runningCheckCycle, reporter, at, checking, abandoned>>

\* Mutant: only an error is kept, a timeout is not.
KeepsErrorOnly(g, k) == status[g][k].State = "Unhealthy"

\* The condition under which a goroutine overwrites finalStatus.
Overwrites(g, k) == \/ status[g][k].State = "Unhealthy"
                    \/ finalStatus[g].State = "Healthy"

Test(g, k) ==
    /\ worker[g][k] = "test"
    /\ worker' = [worker EXCEPT ![g][k] = IF Overwrites(g, k) THEN "store" ELSE "done"]
    /\ todo' = [todo EXCEPT ![g][k] = IF Overwrites(g, k) THEN Fields ELSE {}]
    /\ UNCHANGED <<control, runningCheckCycle, reporter, at, finalStatus, status, abandoned, crashed>>

\* "finalStatus = status" is a store per field.
StoreField(g, k, f) ==
    /\ worker[g][k] = "store" /\ f \in todo[g][k]
    /\ finalStatus' = [finalStatus EXCEPT ![g][f] = status[g][k][f]]
    /\ todo' = [todo EXCEPT ![g][k] = @ \ {f}]
    /\ worker' = [worker EXCEPT ![g][k] = IF todo[g][k] = {f} THEN "done" ELSE "store"]
    /\ UNCHANGED <<control, runningCheckCycle, reporter, at, status, abandoned, crashed>>

\* wg.Wait()
Join(g) == \A k \in cl : worker[g][k] = "done"

EndCheck(g) ==
    /\ at[g] = "check" /\ Join(g)
    /\ at' = [at EXCEPT ![g] = "compare"]
    /\ UNCHANGED <<control, runningCheckCycle, reporter, checking, abandoned, crashed>>

\* status.Equal(&r.lastStatus), and the panic of panicOnError.
Compare(g) ==
    /\ at[g] = "compare"
    /\ IF finalStatus[g] = lastStatus
       THEN at' = [at EXCEPT ![g] = "release"] /\ UNCHANGED crashed
       ELSE IF panicOnError /\ finalStatus[g].State = "Unhealthy"
            THEN crashed' = TRUE /\ UNCHANGED at
            ELSE at' = [at EXCEPT ![g] = "assign"] /\ UNCHANGED crashed
    /\ UNCHANGED <<control, runningCheckCycle, reporter, checking, abandoned>>

Assign(g) ==
    /\ at[g] = "assign"
    /\ lastStatus' = finalStatus[g]
    /\ at' = [at EXCEPT ![g] = "report"]
    /\ UNCHANGED <<control, runningCheckCycle, reportChan, dropped, checking, abandoned, crashed>>

\* Mutant: the oldest report makes room for the new one.
ReportReplaces(g) ==
    /\ at[g] = "report"
    /\ dropped' = (reportChan # <<>>)
    /\ reportChan' = <<finalStatus[g]>>
    /\ at' = [at EXCEPT ![g] = "release"]
    /\ UNCHANGED <<control, runningCheckCycle, lastStatus, checking, abandoned, crashed>>

\* The send with a default case.
Report(g) ==
    /\ at[g] = "report"
    /\ dropped' = (reportChan # <<>>)
    /\ reportChan' = IF reportChan = <<>> THEN <<finalStatus[g]>> ELSE reportChan
    /\ at' = [at EXCEPT ![g] = "release"]
    /\ UNCHANGED <<control, runningCheckCycle, lastStatus, checking, abandoned, crashed>>

\* The deferred compare-and-swap; the locals of the cycle are gone.
Release(g) ==
    /\ at[g] = "release"
    /\ runningCheckCycle' = FALSE
    /\ at' = [at EXCEPT ![g] = "idle"]
    /\ finalStatus' = [finalStatus EXCEPT ![g] = StateOnly("Healthy")]
    /\ worker' = [worker EXCEPT ![g] = [k \in Checks |-> "off"]]
    /\ status' = [status EXCEPT ![g] = [k \in Checks |-> StateOnly("Healthy")]]
    /\ UNCHANGED <<control, reporter, todo, abandoned, crashed>>

\* Whoever reads StatusReportChan.
Consume ==
    /\ reportChan # <<>> /\ reportChan' = Tail(reportChan)
    /\ UNCHANGED <<control, runningCheckCycle, lastStatus, dropped, at, checking, abandoned, crashed>>

Worker(g, k) == Test(g, k) \/ \E f \in Fields : StoreField(g, k, f)
Cycle(g) == Swap(g) \/ EndCheck(g) \/ Compare(g) \/ Assign(g) \/ Report(g) \/ Release(g)

Next ==
    /\ ~crashed
    /\ \/ Start \/ StartLoop \/ Stop \/ LoopEnds \/ Consume \/ CheckPanics
       \/ \E k \in Checks : AddCheck(k)
       \/ \E g \in Cycles : Tick(g) \/ Cycle(g)
       \/ \E g \in Cycles, k \in Checks : CheckReturns(g, k) \/ Deadline(g, k) \/ Worker(g, k)

Spec == Init /\ [][Next]_vars

\* Goroutines that can run do run and deadlines fire; a CheckFunc may hang.
Fairness ==
    /\ WF_vars(~crashed /\ StartLoop)
    /\ WF_vars(~crashed /\ LoopEnds)
    /\ \A g \in Cycles : WF_vars(~crashed /\ Cycle(g))
    /\ \A g \in Cycles, k \in Checks :
          WF_vars(~crashed /\ (Deadline(g, k) \/ Worker(g, k)))

FairSpec == Spec /\ Fairness

-----------------------------------------------------------------------------
(* Properties *)
InCycle == {"check", "compare", "assign", "report", "release"}
Concluded == {"compare", "assign", "report"}

\* The types of the runner's fields and of the cycles' locals; the report
\* channel holds at most one status.
TypeOK ==
    /\ loop \in {"new", "starting", "on", "off"} /\ stopped \in BOOLEAN
    /\ cl \subseteq Checks /\ runningCheckCycle \in BOOLEAN
    /\ lastStatus \in Status /\ reportChan \in Seq(Status) /\ Len(reportChan) <= 1 /\ dropped \in BOOLEAN
    /\ at \in [Cycles -> InCycle \cup {"idle", "swap"}]
    /\ finalStatus \in [Cycles -> Status]
    /\ worker \in [Cycles -> [Checks -> {"off", "run", "test", "store", "done"}]]
    /\ status \in [Cycles -> [Checks -> Status]]
    /\ todo \in [Cycles -> [Checks -> SUBSET Fields]]
    /\ {abandoned, crashed} \subseteq BOOLEAN

\* A tick that fires while a cycle still runs (a check slower than the
\* interval, or Start's own cycle) is dropped: one cycle at a time, so that
\* lastStatus has one writer.
OneCycle ==
    /\ TypeOK
    /\ \A g, h \in Cycles : at[g] \in InCycle /\ at[h] \in InCycle => g = h
    /\ runningCheckCycle = (\E g \in Cycles : at[g] \in InCycle)

\* However the check goroutines race on finalStatus, a cycle ends Healthy
\* exactly when every check was, and otherwise with the state of some check.
VerdictSound == \A g \in Cycles : at[g] \in Concluded =>
    IF \A k \in cl : status[g][k].State = "Healthy"
    THEN finalStatus[g] = StateOnly("Healthy")
    ELSE /\ finalStatus[g].State # "Healthy"
         /\ \E k \in cl : status[g][k].State = finalStatus[g].State

\* The status that is stored and not yet offered to the report channel.
Pending == IF \E g \in Cycles : at[g] = "report"
           THEN finalStatus[CHOOSE g \in Cycles : at[g] = "report"] ELSE None

\* The Reporter a client of the runner sees.
Reporter == INSTANCE HealthReporter WITH
    Statuses <- Status, InitialStatus <- StateOnly("Unknown"), pending <- Pending

\* The runner keeps the promises of a Reporter: changes are stored and offered
\* to the report channel one by one and in order, none twice.
ImplementsReporter == Reporter!ReporterSpec

\* A cycle ends, although its CheckFuncs may hang for ever, unless a panic ends
\* the process.
CycleEnds == \A g \in Cycles : at[g] = "check" ~> (at[g] = "idle" \/ crashed)

\* After Stop the runner comes to rest: the cycle under way ends and no tick
\* starts another one.
Quiesces == <>stopped => <>[](crashed \/ \A g \in Cycles : at[g] = "idle")
=============================================================================
