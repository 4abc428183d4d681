------------------------- MODULE HealthRunnerProofs -------------------------
(***************************************************************************)
(* Theorems about HealthRunner: one cycle at a time, the verdict of a cycle *)
(* whatever the races on finalStatus, and the Reporter interface.           *)
(***************************************************************************)
EXTENDS HealthRunner, TLAPS

-----------------------------------------------------------------------------
(* Types and the single cycle *)
\* Nothing runs before Start, so that Start cannot disturb a cycle of Main and
\* the list of checks is final when the first cycle begins.
NotStarted == loop = "new" => \A g \in Cycles : at[g] = "idle"

CycleInv == OneCycle /\ NotStarted

\* A status is a record of three fields; a store changes one of them.
Stored(s, r, f) == [s EXCEPT ![f] = r[f]]

LEMMA StatusField ==
    ASSUME NEW s \in Status, NEW r \in Status, NEW f \in Fields
    PROVE  /\ Stored(s, r, f) \in Status
           /\ f # "State" => Stored(s, r, f).State = s.State
           /\ f = "State" => Stored(s, r, f).State = r.State
  BY DEF Status, Fields, Stored

LEMMA StatusMade ==
    ASSUME NEW k \in Checks
    PROVE  /\ \A s \in {"Unknown", "Healthy", "Unhealthy"} : StateOnly(s) \in Status
           /\ [State |-> "Unknown", Error |-> None, Source |-> k] \in Status
           /\ \A e \in Errs : [State |-> "Unhealthy", Error |-> e, Source |-> k] \in Status
  BY DEF Status, StateOnly

LEMMA CycleInit == Init => CycleInv
  <1> SUFFICES ASSUME Init PROVE CycleInv
    OBVIOUS
  <1>1. StateOnly("Unknown") \in Status /\ StateOnly("Healthy") \in Status
    BY DEF Status, StateOnly
  <1>2. worker \in [Cycles -> [Checks -> {"off", "run", "test", "store", "done"}]]
    BY DEF Init, Idle
  <1>3. status \in [Cycles -> [Checks -> Status]] /\ todo \in [Cycles -> [Checks -> SUBSET Fields]]
    BY <1>1 DEF Init, Idle
  <1>4. at \in [Cycles -> InCycle \cup {"idle", "swap"}] /\ finalStatus \in [Cycles -> Status]
    BY <1>1 DEF Init
  <1>5. reportChan \in Seq(Status) /\ Len(reportChan) <= 1
    BY DEF Init
  <1>6. {abandoned, crashed} \subseteq BOOLEAN
    BY DEF Init
  <1>7. TypeOK
    BY <1>1, <1>2, <1>3, <1>4, <1>5, <1>6 DEF Init, TypeOK
  <1> QED BY <1>7 DEF Init, CycleInv, OneCycle, NotStarted, InCycle

\* What is left of TypeOK and of the single cycle when the locals of the checks
\* are put aside.
LEMMA CycleStep == CycleInv /\ [Next]_vars => CycleInv'
  <1> SUFFICES ASSUME CycleInv, [Next]_vars PROVE CycleInv'
    OBVIOUS
  <1>t. TypeOK /\ NotStarted /\ OneCycle
    BY DEF CycleInv, OneCycle
  <1> USE DEF CycleInv, OneCycle, NotStarted, InCycle
  <1>1. CASE Start
    BY <1>t, <1>1 DEF Start, TypeOK, reporter, checking, Cycles
  <1>2. CASE StartLoop \/ Stop \/ LoopEnds \/ CheckPanics \/ (\E k \in Checks : AddCheck(k))
    BY <1>t, <1>2 DEF StartLoop, Stop, LoopEnds, CheckPanics, AddCheck, TypeOK, reporter, checking, control
  <1>3. CASE Consume
    BY <1>t, <1>3 DEF Consume, TypeOK, checking, control
  <1>4. ASSUME NEW g \in Cycles, Tick(g) PROVE CycleInv'
    BY <1>t, <1>4 DEF Tick, TypeOK, reporter, checking, control
  <1>5. ASSUME NEW g \in Cycles, Swap(g) PROVE CycleInv'
    <2>1. [k \in Checks |-> IF k \in cl THEN "run" ELSE "off"]
            \in [Checks -> {"off", "run", "test", "store", "done"}]
      OBVIOUS
    <2>2. worker' \in [Cycles -> [Checks -> {"off", "run", "test", "store", "done"}]]
      BY <1>t, <1>5, <2>1 DEF Swap, TypeOK
    <2>3. TypeOK'
      BY <1>t, <1>5, <2>2 DEF Swap, TypeOK, reporter, control
    <2>4. CASE runningCheckCycle
      BY <1>t, <1>5, <2>3, <2>4 DEF Swap, TypeOK, control
    <2>5. CASE ~runningCheckCycle
      <3>1. \A h \in Cycles : at[h] \notin InCycle
        BY <1>t, <2>5
      <3>2. /\ runningCheckCycle' = TRUE /\ loop' = loop
            /\ at' = [at EXCEPT ![g] = "check"]
        BY <1>5, <2>5 DEF Swap, control
      <3>3. \A h \in Cycles : at'[h] \in InCycle <=> h = g
        BY <1>t, <3>1, <3>2 DEF TypeOK
      <3>4. at[g] # "idle"
        BY <1>5 DEF Swap
      <3>5. NotStarted'
        BY <1>t, <3>2, <3>4
      <3> QED BY <2>3, <3>2, <3>3, <3>5
    <2> QED BY <2>4, <2>5
  <1>6. ASSUME NEW g \in Cycles, EndCheck(g) PROVE CycleInv'
    BY <1>t, <1>6 DEF EndCheck, TypeOK, reporter, checking, control
  <1>7. ASSUME NEW g \in Cycles, Compare(g) PROVE CycleInv'
    BY <1>t, <1>7 DEF Compare, TypeOK, reporter, checking, control
  <1>8. ASSUME NEW g \in Cycles, Assign(g) PROVE CycleInv'
    BY <1>t, <1>8 DEF Assign, TypeOK, checking, control
  <1>9. ASSUME NEW g \in Cycles, Report(g) PROVE CycleInv'
    BY <1>t, <1>9 DEF Report, TypeOK, checking, control
  <1>10. ASSUME NEW g \in Cycles, Release(g) PROVE CycleInv'
    <2>1. StateOnly("Healthy") \in Status
      BY DEF Status, StateOnly
    <2>2. TypeOK'
      BY <1>t, <1>10, <2>1 DEF Release, TypeOK, reporter, control
    <2> QED BY <1>t, <1>10, <2>2 DEF Release, TypeOK, control
  <1>11. ASSUME NEW g \in Cycles, NEW k \in Checks, CheckReturns(g, k) \/ Deadline(g, k) PROVE CycleInv'
    <2>1. PICK s \in Status : Answer(g, k, s) /\ (UNCHANGED abandoned \/ abandoned' = TRUE)
      BY <1>11, StatusMade DEF CheckReturns, Deadline
    <2>2. /\ status' \in [Cycles -> [Checks -> Status]]
          /\ worker' \in [Cycles -> [Checks -> {"off", "run", "test", "store", "done"}]]
      BY <1>t, <2>1 DEF Answer, TypeOK
    <2>3. TypeOK'
      BY <1>t, <2>1, <2>2 DEF Answer, TypeOK, reporter, control
    <2> QED BY <1>t, <2>1, <2>3 DEF Answer, TypeOK, control
  <1>12. ASSUME NEW g \in Cycles, NEW k \in Checks, Test(g, k) PROVE CycleInv'
    <2>1. TypeOK'
      BY <1>t, <1>12 DEF Test, TypeOK, reporter, control
    <2> QED BY <1>t, <1>12, <2>1 DEF Test, TypeOK, control
  <1>13. ASSUME NEW g \in Cycles, NEW k \in Checks, NEW f \in Fields, StoreField(g, k, f) PROVE CycleInv'
    <2>1. Stored(finalStatus[g], status[g][k], f) \in Status
      <3>1. finalStatus[g] \in Status /\ status[g][k] \in Status
        BY <1>t DEF TypeOK
      <3> QED BY <3>1, StatusField
    <2>2. finalStatus' = [finalStatus EXCEPT ![g] = Stored(finalStatus[g], status[g][k], f)]
      BY <1>t, <1>13 DEF StoreField, TypeOK, Stored
    <2>3. finalStatus' \in [Cycles -> Status]
      BY <1>t, <2>1, <2>2 DEF TypeOK
    <2>4. /\ worker' \in [Cycles -> [Checks -> {"off", "run", "test", "store", "done"}]]
          /\ todo' \in [Cycles -> [Checks -> SUBSET Fields]]
      BY <1>t, <1>13 DEF StoreField, TypeOK
    <2>5. TypeOK'
      BY <1>t, <1>13, <2>3, <2>4 DEF StoreField, TypeOK, reporter, control
    <2> QED BY <1>t, <1>13, <2>5 DEF StoreField, control
  <1>14. CASE UNCHANGED vars
    BY <1>t, <1>14 DEF vars, TypeOK
  <1> QED BY <1>1, <1>2, <1>3, <1>4, <1>5, <1>6, <1>7, <1>8, <1>9, <1>10, <1>11, <1>12, <1>13, <1>14
          DEF Next, Cycle, Worker

LEMMA CycleAlways == Spec => []CycleInv
  BY CycleInit, CycleStep, PTL DEF Spec

\* One cycle at a time: a tick that fires during a cycle, or during that of
\* Start, leaves lastStatus and the flag alone (runHealthCheck).
THEOREM OneCycleHolds == Spec => []OneCycle
  <1>1. CycleInv => OneCycle
    BY DEF CycleInv
  <1> QED BY <1>1, CycleAlways, PTL

-----------------------------------------------------------------------------
(* The verdict of a cycle *)
Busy == {"run", "test", "store"}

\* Check goroutines run only in a cycle that waits for them; those of a cycle
\* are the goroutines of the checks that were added.
WorkersOK == \A g \in Cycles, k \in Checks :
    /\ worker[g][k] \in Busy => at[g] = "check"
    /\ worker[g][k] # "off" <=> at[g] \in InCycle /\ k \in cl
    /\ worker[g][k] \in {"off", "run"} => status[g][k] = StateOnly("Healthy")
    /\ worker[g][k] \in {"test", "store"} => status[g][k].State # "Healthy"

\* finalStatus is touched only by checks that are not healthy, holds the state of
\* one of them if it is not Healthy itself, and is not Healthy once one of them
\* has stored its state or has seen that somebody did.
FinalOK == \A g \in Cycles :
    /\ (\A k \in Checks : status[g][k].State = "Healthy") => finalStatus[g] = StateOnly("Healthy")
    /\ finalStatus[g].State # "Healthy" =>
         \E k \in Checks : status[g][k].State = finalStatus[g].State
    /\ \A k \in Checks :
         status[g][k].State # "Healthy" /\ (worker[g][k] = "done" \/ (worker[g][k] = "store" /\ "State" \notin todo[g][k]))
         => finalStatus[g].State # "Healthy"

VerdictInv == WorkersOK /\ FinalOK

LEMMA VerdictInit == Init => VerdictInv
  <1> SUFFICES ASSUME Init PROVE VerdictInv
    OBVIOUS
  <1>1. \A g \in Cycles, k \in Checks :
          worker[g][k] = "off" /\ status[g][k] = StateOnly("Healthy") /\ at[g] = "idle"
    BY DEF Init, Idle
  <1>2. \A g \in Cycles : finalStatus[g] = StateOnly("Healthy")
    BY DEF Init
  <1>3. StateOnly("Healthy").State = "Healthy"
    BY DEF StateOnly
  <1>4. WorkersOK
    BY <1>1 DEF WorkersOK, Busy, InCycle
  <1> QED BY <1>1, <1>2, <1>3, <1>4 DEF VerdictInv, FinalOK

\* A step that leaves the locals of the checks alone may move a cycle on, but
\* leaves "check" only when every goroutine is done.
Moves(g) ==
    /\ (at'[g] \in InCycle) <=> (at[g] \in InCycle)
    /\ \A k \in Checks : worker[g][k] \in Busy => at'[g] = at[g]

LEMMA VerdictFrame ==
    VerdictInv /\ UNCHANGED <<finalStatus, worker, status, todo, cl>> /\ (\A g \in Cycles : Moves(g))
    => VerdictInv'
  <1> SUFFICES ASSUME VerdictInv, UNCHANGED <<finalStatus, worker, status, todo, cl>>,
                      \A g \in Cycles : Moves(g)
               PROVE  VerdictInv'
    OBVIOUS
  <1>1. FinalOK'
    BY DEF VerdictInv, FinalOK
  <1>2. WorkersOK'
    BY DEF VerdictInv, WorkersOK, Moves
  <1> QED BY <1>1, <1>2 DEF VerdictInv

LEMMA VerdictStep == CycleInv /\ VerdictInv /\ [Next]_vars => VerdictInv'
  <1> SUFFICES ASSUME CycleInv, VerdictInv, [Next]_vars PROVE VerdictInv'
    OBVIOUS
  <1>t. TypeOK /\ NotStarted /\ WorkersOK /\ FinalOK
    BY DEF CycleInv, OneCycle, VerdictInv
  <1>h. StateOnly("Healthy").State = "Healthy" /\ StateOnly("Healthy") \in Status
    BY DEF StateOnly, Status
  <1>n. \A g \in Cycles, k \in Checks : at[g] # "check" => worker[g][k] \notin Busy
    BY <1>t DEF WorkersOK
  <1>1. CASE StartLoop \/ Stop \/ LoopEnds \/ CheckPanics \/ Consume
    <2>1. UNCHANGED <<finalStatus, worker, status, todo, cl, at>>
      BY <1>1 DEF StartLoop, Stop, LoopEnds, CheckPanics, Consume, checking, control
    <2>2. \A g \in Cycles : Moves(g)
      BY <2>1 DEF Moves
    <2> QED BY <2>1, <2>2, VerdictFrame
  <1>2. CASE Start
    <2>1. /\ UNCHANGED <<finalStatus, worker, status, todo, cl>>
          /\ at' = [at EXCEPT ![Main] = "swap"] /\ at[Main] = "idle" /\ Main \in Cycles
      BY <1>t, <1>2 DEF Start, checking, NotStarted, Cycles
    <2>2. at \in [Cycles -> InCycle \cup {"idle", "swap"}]
      BY <1>t DEF TypeOK
    <2>3. \A g \in Cycles : at'[g] = IF g = Main THEN "swap" ELSE at[g]
      BY <2>1, <2>2
    <2>4. \A g \in Cycles : Moves(g)
      BY <1>n, <2>1, <2>3 DEF Moves, InCycle
    <2> QED BY <2>1, <2>4, VerdictFrame
  <1>3. ASSUME NEW k \in Checks, AddCheck(k) PROVE VerdictInv'
    <2>1. UNCHANGED <<finalStatus, worker, status, todo, at>> /\ \A g \in Cycles : at[g] = "idle"
      BY <1>t, <1>3 DEF AddCheck, checking, NotStarted
    <2>2. WorkersOK'
      BY <1>t, <2>1 DEF WorkersOK, InCycle
    <2> QED BY <1>t, <2>1, <2>2 DEF VerdictInv, FinalOK
  <1>4. ASSUME NEW g \in Cycles, Tick(g) \/ Compare(g) \/ Assign(g) \/ Report(g) PROVE VerdictInv'
    <2>1. /\ UNCHANGED <<finalStatus, worker, status, todo, cl>>
          /\ \/ UNCHANGED at
             \/ /\ at[g] = "idle" /\ at' = [at EXCEPT ![g] = "swap"]
             \/ /\ at[g] \in Concluded
                /\ \E w \in {"assign", "report", "release"} : at' = [at EXCEPT ![g] = w]
      BY <1>4 DEF Tick, Compare, Assign, Report, checking, control, Concluded
    <2>2. at \in [Cycles -> InCycle \cup {"idle", "swap"}]
      BY <1>t DEF TypeOK
    <2>3. \A h \in Cycles : /\ h # g => at'[h] = at[h]
                            /\ (at'[h] \in InCycle) <=> (at[h] \in InCycle)
      BY <2>1, <2>2 DEF InCycle, Concluded
    <2>4. (at'[g] # at[g]) => (at[g] # "check")
      BY <2>1, <2>2 DEF Concluded
    <2>5. \A h \in Cycles : Moves(h)
      BY <1>n, <2>3, <2>4 DEF Moves
    <2> QED BY <2>1, <2>5, VerdictFrame
  <1>5. ASSUME NEW g \in Cycles, EndCheck(g) PROVE VerdictInv'
    <2>1. /\ UNCHANGED <<finalStatus, worker, status, todo, cl>>
          /\ at[g] = "check" /\ at' = [at EXCEPT ![g] = "compare"] /\ Join(g)
      BY <1>5 DEF EndCheck, checking, control
    <2>2. \A k \in Checks : worker[g][k] \notin Busy
      BY <1>t, <2>1 DEF Join, WorkersOK, Busy
    <2>3. at \in [Cycles -> InCycle \cup {"idle", "swap"}]
      BY <1>t DEF TypeOK
    <2>4. \A h \in Cycles : at'[h] = IF h = g THEN "compare" ELSE at[h]
      BY <2>1, <2>3
    <2>5. \A h \in Cycles : Moves(h)
      BY <2>1, <2>2, <2>4 DEF Moves, InCycle
    <2> QED BY <2>1, <2>5, VerdictFrame
  <1>6. ASSUME NEW g \in Cycles, Swap(g) PROVE VerdictInv'
    <2>a. at \in [Cycles -> InCycle \cup {"idle", "swap"}]
      BY <1>t DEF TypeOK
    <2>b. UNCHANGED <<finalStatus, status, todo, cl>> /\ at[g] = "swap"
      BY <1>6 DEF Swap, control
    <2>c. \A k \in Checks : worker[g][k] = "off"
      BY <1>t, <2>b DEF WorkersOK, InCycle
    <2>1. CASE runningCheckCycle
      <3>1. UNCHANGED worker /\ at' = [at EXCEPT ![g] = "idle"]
        BY <1>6, <2>1 DEF Swap
      <3>2. \A h \in Cycles : at'[h] = IF h = g THEN "idle" ELSE at[h]
        BY <2>a, <3>1
      <3>3. \A h \in Cycles : Moves(h)
        BY <1>n, <2>b, <3>2 DEF Moves, InCycle
      <3> QED BY <2>b, <3>1, <3>3, VerdictFrame
    <2>2. CASE ~runningCheckCycle
      <3>1. /\ worker' = [worker EXCEPT ![g] = [k \in Checks |-> IF k \in cl THEN "run" ELSE "off"]]
            /\ at' = [at EXCEPT ![g] = "check"]
        BY <1>6, <2>2 DEF Swap
      <3>2. worker \in [Cycles -> [Checks -> {"off", "run", "test", "store", "done"}]]
        BY <1>t DEF TypeOK
      <3>3. \A k \in Checks : worker'[g][k] = IF k \in cl THEN "run" ELSE "off"
        BY <3>1, <3>2
      <3>4. \A h \in Cycles : h # g => worker'[h] = worker[h] /\ at'[h] = at[h]
        BY <2>a, <3>1, <3>2
      <3>5. at'[g] = "check"
        BY <2>a, <3>1
      <3>6. WorkersOK'
        BY <1>t, <2>b, <2>c, <3>3, <3>4, <3>5 DEF WorkersOK, InCycle, Busy
      <3>7. FinalOK'
        BY <1>t, <2>b, <2>c, <3>3, <3>4 DEF FinalOK
      <3> QED BY <3>6, <3>7 DEF VerdictInv
    <2> QED BY <2>1, <2>2
  <1>7. ASSUME NEW g \in Cycles, Release(g) PROVE VerdictInv'
    <2>1. /\ at[g] = "release" /\ UNCHANGED <<cl, todo>>
          /\ at' = [at EXCEPT ![g] = "idle"]
          /\ finalStatus' = [finalStatus EXCEPT ![g] = StateOnly("Healthy")]
          /\ worker' = [worker EXCEPT ![g] = [k \in Checks |-> "off"]]
          /\ status' = [status EXCEPT ![g] = [k \in Checks |-> StateOnly("Healthy")]]
      BY <1>7 DEF Release, control
    <2>2. /\ at'[g] = "idle" /\ finalStatus'[g] = StateOnly("Healthy")
          /\ \A k \in Checks : worker'[g][k] = "off" /\ status'[g][k] = StateOnly("Healthy")
      BY <1>t, <2>1 DEF TypeOK
    <2>3. \A h \in Cycles : h # g =>
            worker'[h] = worker[h] /\ status'[h] = status[h] /\ at'[h] = at[h] /\ finalStatus'[h] = finalStatus[h]
      BY <1>t, <2>1 DEF TypeOK
    <2>4. WorkersOK'
      BY <1>t, <2>1, <2>2, <2>3 DEF WorkersOK, InCycle, Busy
    <2>5. FinalOK'
      BY <1>t, <1>h, <2>1, <2>2, <2>3 DEF FinalOK
    <2> QED BY <2>4, <2>5 DEF VerdictInv
  <1>8. ASSUME NEW g \in Cycles, NEW k \in Checks, CheckReturns(g, k) \/ Deadline(g, k) PROVE VerdictInv'
    <2>1. PICK s \in Status : Answer(g, k, s) /\ (s.State = "Healthy" => s = StateOnly("Healthy"))
      BY <1>8, <1>h, StatusMade DEF CheckReturns, Deadline
    <2>2. /\ at[g] = "check" /\ worker[g][k] = "run" /\ UNCHANGED <<cl, at, finalStatus, todo>>
          /\ status' = [status EXCEPT ![g][k] = s]
          /\ worker' = [worker EXCEPT ![g][k] = IF s.State = "Healthy" THEN "done" ELSE "test"]
      BY <2>1 DEF Answer, control
    <2>3. status'[g][k] = s /\ worker'[g][k] = IF s.State = "Healthy" THEN "done" ELSE "test"
      BY <1>t, <2>2 DEF TypeOK
    <2>4. \A h \in Cycles, x \in Checks : h # g \/ x # k =>
            status'[h][x] = status[h][x] /\ worker'[h][x] = worker[h][x]
      BY <1>t, <2>2 DEF TypeOK
    <2>5. WorkersOK'
      BY <1>t, <2>2, <2>3, <2>4 DEF WorkersOK, Busy, InCycle
    <2>6. status[g][k] = StateOnly("Healthy")
      BY <1>t, <2>2 DEF WorkersOK
    <2>7. FinalOK'
      BY <1>t, <1>h, <2>2, <2>3, <2>4, <2>6 DEF FinalOK
    <2> QED BY <2>5, <2>7 DEF VerdictInv
  <1>9. ASSUME NEW g \in Cycles, NEW k \in Checks, Test(g, k) PROVE VerdictInv'
    <2>1. /\ worker[g][k] = "test" /\ UNCHANGED <<cl, at, finalStatus, status>>
          /\ worker' = [worker EXCEPT ![g][k] = IF Overwrites(g, k) THEN "store" ELSE "done"]
          /\ todo' = [todo EXCEPT ![g][k] = IF Overwrites(g, k) THEN Fields ELSE {}]
      BY <1>9 DEF Test, control
    <2>2. /\ worker'[g][k] = IF Overwrites(g, k) THEN "store" ELSE "done"
          /\ todo'[g][k] = IF Overwrites(g, k) THEN Fields ELSE {}
      BY <1>t, <2>1 DEF TypeOK
    <2>3. \A h \in Cycles, x \in Checks : h # g \/ x # k =>
            todo'[h][x] = todo[h][x] /\ worker'[h][x] = worker[h][x]
      BY <1>t, <2>1 DEF TypeOK
    <2>4. WorkersOK'
      BY <1>t, <2>1, <2>2, <2>3 DEF WorkersOK, Busy, InCycle
    <2>5. FinalOK'
      BY <1>t, <2>1, <2>2, <2>3 DEF FinalOK, Overwrites, Fields
    <2> QED BY <2>4, <2>5 DEF VerdictInv
  <1>10. ASSUME NEW g \in Cycles, NEW k \in Checks, NEW f \in Fields, StoreField(g, k, f) PROVE VerdictInv'
    <2>1. /\ worker[g][k] = "store" /\ f \in todo[g][k] /\ UNCHANGED <<cl, at, status>>
          /\ finalStatus' = [finalStatus EXCEPT ![g][f] = status[g][k][f]]
          /\ todo' = [todo EXCEPT ![g][k] = @ \ {f}]
          /\ worker' = [worker EXCEPT ![g][k] = IF todo[g][k] = {f} THEN "done" ELSE "store"]
      BY <1>10 DEF StoreField, control
    <2>2. finalStatus[g] \in Status /\ status[g][k] \in Status
      BY <1>t DEF TypeOK
    <2>3. /\ worker'[g][k] = IF todo[g][k] = {f} THEN "done" ELSE "store"
          /\ todo'[g][k] = todo[g][k] \ {f}
          /\ finalStatus'[g] = Stored(finalStatus[g], status[g][k], f)
      BY <1>t, <2>1 DEF TypeOK, Stored
    <2>4. \A h \in Cycles, x \in Checks : h # g \/ x # k =>
            todo'[h][x] = todo[h][x] /\ worker'[h][x] = worker[h][x]
      BY <1>t, <2>1 DEF TypeOK
    <2>5. \A h \in Cycles : h # g => finalStatus'[h] = finalStatus[h]
      BY <1>t, <2>1 DEF TypeOK
    <2>6. status[g][k].State # "Healthy"
      BY <1>t, <2>1 DEF WorkersOK
    <2>7. WorkersOK'
      BY <1>t, <2>1, <2>3, <2>4 DEF WorkersOK, Busy, InCycle
    <2>8. finalStatus'[g].State = IF f = "State" THEN status[g][k].State ELSE finalStatus[g].State
      <3>1. PICK a \in Status, b \in Status : a = finalStatus[g] /\ b = status[g][k]
        BY <2>2
      <3>2. /\ f # "State" => Stored(a, b, f).State = a.State
            /\ f = "State" => Stored(a, b, f).State = b.State
        BY StatusField
      <3> QED BY <2>3, <3>1, <3>2
    <2>9. FinalOK'
      <3>1. CASE f = "State"
        BY <1>t, <2>1, <2>3, <2>4, <2>5, <2>6, <2>8, <3>1 DEF FinalOK
      <3>2. CASE f # "State"
        <4>1. "State" \notin todo'[g][k] /\ worker'[g][k] \in {"store", "done"} => "State" \notin todo[g][k]
          BY <2>3, <3>2
        <4>2. worker'[g][k] = "done" => "State" \notin todo[g][k]
          BY <2>3, <3>2
        <4> QED BY <1>t, <2>1, <2>3, <2>4, <2>5, <2>6, <2>8, <3>2, <4>1, <4>2 DEF FinalOK
      <3> QED BY <3>1, <3>2
    <2> QED BY <2>7, <2>9 DEF VerdictInv
  <1>11. CASE UNCHANGED vars
    <2>1. UNCHANGED <<finalStatus, worker, status, todo, cl, at>>
      BY <1>11 DEF vars
    <2>2. \A g \in Cycles : Moves(g)
      BY <2>1 DEF Moves
    <2> QED BY <2>1, <2>2, VerdictFrame
  <1> QED BY <1>1, <1>2, <1>3, <1>4, <1>5, <1>6, <1>7, <1>8, <1>9, <1>10, <1>11
          DEF Next, Cycle, Worker

\* However the check goroutines race on finalStatus (compositeChecker.Check), a
\* cycle ends Healthy exactly when every check was, and otherwise with the state
\* of some check that was not.
THEOREM VerdictHolds == Spec => []VerdictSound
  <1>1. CycleInv /\ VerdictInv => VerdictSound
    <2> SUFFICES ASSUME CycleInv, VerdictInv, NEW g \in Cycles, at[g] \in Concluded
                 PROVE  IF \A k \in cl : status[g][k].State = "Healthy"
                        THEN finalStatus[g] = StateOnly("Healthy")
                        ELSE /\ finalStatus[g].State # "Healthy"
                             /\ \E k \in cl : status[g][k].State = finalStatus[g].State
      BY DEF VerdictSound
    <2>1. TypeOK /\ WorkersOK /\ FinalOK /\ StateOnly("Healthy").State = "Healthy"
      BY DEF CycleInv, OneCycle, VerdictInv, StateOnly
    <2>2. \A k \in Checks : worker[g][k] = IF k \in cl THEN "done" ELSE "off"
      BY <2>1 DEF TypeOK, WorkersOK, Busy, Concluded, InCycle
    <2>3. \A k \in Checks : k \notin cl => status[g][k].State = "Healthy"
      BY <2>1, <2>2 DEF WorkersOK
    <2>4. cl \subseteq Checks
      BY <2>1 DEF TypeOK
    <2>5. CASE \A k \in cl : status[g][k].State = "Healthy"
      BY <2>1, <2>3, <2>5 DEF FinalOK
    <2>6. CASE \E k \in cl : status[g][k].State # "Healthy"
      BY <2>1, <2>2, <2>3, <2>4, <2>6 DEF FinalOK
    <2> QED BY <2>5, <2>6
  <1>2. Spec => []VerdictInv
    BY CycleAlways, VerdictInit, VerdictStep, PTL DEF Spec
  <1> QED BY <1>1, <1>2, CycleAlways, PTL

-----------------------------------------------------------------------------
(* The Reporter *)
\* What a cycle is about to store differs from the last status: nobody writes
\* either of them between the comparison and the assignment.
ChangeOK == \A g \in Cycles : at[g] = "assign" => finalStatus[g] # lastStatus

\* Pending is the status of the cycle at "report", and there is one at most.
PendingOK ==
    /\ \A g \in Cycles : at[g] = "report" => Pending = finalStatus[g]
    /\ (\A g \in Cycles : at[g] # "report") => Pending = None

LEMMA PendingKnown == CycleInv => PendingOK
  <1> SUFFICES ASSUME CycleInv PROVE PendingOK
    OBVIOUS
  <1>1. \A g, h \in Cycles : at[g] = "report" /\ at[h] = "report" => g = h
    BY DEF CycleInv, OneCycle, InCycle
  <1>2. ASSUME NEW g \in Cycles, at[g] = "report" PROVE Pending = finalStatus[g]
    <2>1. (CHOOSE h \in Cycles : at[h] = "report") = g
      BY <1>1, <1>2
    <2> QED BY <1>2, <2>1 DEF Pending
  <1> QED BY <1>2 DEF PendingOK, Pending

\* A step that moves no cycle to or from "report", nor the status of one there.
LEMMA PendingFrame ==
    ASSUME CycleInv, UNCHANGED finalStatus \/ \A g \in Cycles : at[g] = "report" => finalStatus'[g] = finalStatus[g],
           \A g \in Cycles : (at'[g] = "report") <=> (at[g] = "report"), CycleInv'
    PROVE  Pending' = Pending
  <1>1. PendingOK /\ PendingOK'
    BY PendingKnown, PTL
  <1>2. CASE \E g \in Cycles : at[g] = "report"
    BY <1>1, <1>2 DEF PendingOK
  <1>3. CASE \A g \in Cycles : at[g] # "report"
    BY <1>1, <1>3 DEF PendingOK
  <1> QED BY <1>2, <1>3

LEMMA ReporterInitial == Init => Reporter!ReporterInit /\ ChangeOK
  <1> SUFFICES ASSUME Init PROVE Reporter!ReporterInit /\ ChangeOK
    OBVIOUS
  <1>1. \A g \in Cycles : at[g] = "idle"
    BY DEF Init
  <1>2. Pending = None
    BY <1>1 DEF Pending
  <1> QED BY <1>1, <1>2 DEF Init, ChangeOK, Reporter!ReporterInit

\* Every step of the runner is a step of the Reporter or none.
LEMMA ReporterStep ==
    CycleInv /\ VerdictInv /\ ChangeOK /\ CycleInv' /\ [Next]_vars
    => ChangeOK' /\ [Reporter!ReporterNext]_(Reporter!reporterVars)
  <1> SUFFICES ASSUME CycleInv, VerdictInv, ChangeOK, CycleInv', [Next]_vars
               PROVE  ChangeOK' /\ [Reporter!ReporterNext]_(Reporter!reporterVars)
    OBVIOUS
  <1>t. TypeOK /\ WorkersOK /\ NotStarted
    BY DEF CycleInv, OneCycle, VerdictInv
  <1>o. \A g, h \in Cycles : at[g] \in InCycle /\ at[h] \in InCycle => g = h
    BY DEF CycleInv, OneCycle
  <1>p. PendingOK /\ PendingOK'
    BY PendingKnown, PTL
  <1>a. /\ at \in [Cycles -> InCycle \cup {"idle", "swap"}]
        /\ finalStatus \in [Cycles -> Status] /\ lastStatus \in Status
    BY <1>t DEF TypeOK
  \* Most steps leave the reporter's variables and the cycles at "report" and "assign" alone.
  <1>f. ASSUME UNCHANGED reporter,
               \A g \in Cycles : (at'[g] = "report") <=> (at[g] = "report"),
               \A g \in Cycles : at'[g] = "assign" => at[g] = "assign" \/ finalStatus[g] # lastStatus,
               \A g \in Cycles : at[g] = "report" \/ at'[g] = "assign" => finalStatus'[g] = finalStatus[g]
        PROVE  ChangeOK' /\ [Reporter!ReporterNext]_(Reporter!reporterVars)
    <2>1. Pending' = Pending
      BY <1>f, PendingFrame
    <2>2. ChangeOK'
      BY <1>f DEF ChangeOK, reporter
    <2> QED BY <1>f, <2>1, <2>2 DEF reporter, Reporter!reporterVars
  <1>1. CASE StartLoop \/ Stop \/ LoopEnds \/ CheckPanics \/ (\E k \in Checks : AddCheck(k)) \/ UNCHANGED vars
    <2>1. UNCHANGED <<lastStatus, reportChan, dropped, at, finalStatus>>
      BY <1>1 DEF StartLoop, Stop, LoopEnds, CheckPanics, AddCheck, checking, reporter, vars
    <2> QED BY <1>f, <2>1 DEF reporter
  <1>2. CASE Start
    <2>1. UNCHANGED <<reporter, finalStatus>> /\ at' = [at EXCEPT ![Main] = "swap"] /\ at[Main] = "idle"
      BY <1>t, <1>2 DEF Start, checking, NotStarted, Cycles
    <2>2. \A g \in Cycles : at'[g] = IF g = Main THEN "swap" ELSE at[g]
      BY <1>a, <2>1
    <2> QED BY <1>f, <2>1, <2>2
  <1>3. ASSUME NEW g \in Cycles, Tick(g) \/ Swap(g) \/ EndCheck(g) \/ Release(g)
        PROVE  ChangeOK' /\ [Reporter!ReporterNext]_(Reporter!reporterVars)
    <2>1. /\ UNCHANGED reporter /\ at[g] \in {"idle", "swap", "check", "release"}
          /\ \E w \in {"idle", "swap", "check", "compare"} : at' = [at EXCEPT ![g] = w]
          /\ \/ UNCHANGED finalStatus
             \/ finalStatus' = [finalStatus EXCEPT ![g] = StateOnly("Healthy")]
      BY <1>3 DEF Tick, Swap, EndCheck, Release, checking, control
    <2>2. /\ at'[g] \in {"idle", "swap", "check", "compare"}
          /\ \A h \in Cycles : h # g => at'[h] = at[h] /\ finalStatus'[h] = finalStatus[h]
      BY <1>a, <2>1
    <2> QED BY <1>f, <2>1, <2>2
  <1>4. ASSUME NEW g \in Cycles, Compare(g)
        PROVE  ChangeOK' /\ [Reporter!ReporterNext]_(Reporter!reporterVars)
    <2>1. /\ UNCHANGED <<reporter, finalStatus>> /\ at[g] = "compare"
          /\ \/ UNCHANGED at
             \/ at' = [at EXCEPT ![g] = "release"]
             \/ at' = [at EXCEPT ![g] = "assign"] /\ finalStatus[g] # lastStatus
      BY <1>4 DEF Compare, checking
    <2>2. /\ at'[g] = "compare" \/ at'[g] = "release" \/ (at'[g] = "assign" /\ finalStatus[g] # lastStatus)
          /\ \A h \in Cycles : h # g => at'[h] = at[h]
      BY <1>a, <2>1
    <2> QED BY <1>f, <2>1, <2>2
  <1>5. ASSUME NEW g \in Cycles, Assign(g)
        PROVE  ChangeOK' /\ [Reporter!ReporterNext]_(Reporter!reporterVars)
    <2>1. /\ at[g] = "assign" /\ lastStatus' = finalStatus[g] /\ at' = [at EXCEPT ![g] = "report"]
          /\ UNCHANGED <<reportChan, dropped, finalStatus>>
      BY <1>5 DEF Assign, checking
    <2>2. at'[g] = "report" /\ \A h \in Cycles : h # g => at'[h] = at[h] /\ at[h] \notin InCycle
      BY <1>a, <1>o, <2>1 DEF InCycle
    <2>3. Pending = None /\ Pending' = finalStatus[g]
      BY <1>p, <2>1, <2>2 DEF PendingOK, InCycle
    <2>4. finalStatus[g] # lastStatus /\ finalStatus[g] \in Status
      BY <1>a, <2>1 DEF ChangeOK
    <2>5. Reporter!Store(finalStatus[g])
      BY <2>1, <2>3, <2>4 DEF Reporter!Store
    <2>6. Reporter!ReporterNext
      BY <2>4, <2>5 DEF Reporter!ReporterNext
    <2>7. ChangeOK'
      BY <2>2 DEF ChangeOK, InCycle
    <2> QED BY <2>6, <2>7
  <1>6. ASSUME NEW g \in Cycles, Report(g)
        PROVE  ChangeOK' /\ [Reporter!ReporterNext]_(Reporter!reporterVars)
    <2>1. /\ at[g] = "report" /\ at' = [at EXCEPT ![g] = "release"]
          /\ dropped' = (reportChan # <<>>)
          /\ reportChan' = IF reportChan = <<>> THEN <<finalStatus[g]>> ELSE reportChan
          /\ UNCHANGED <<lastStatus, finalStatus>>
      BY <1>6 DEF Report, checking
    <2>2. at'[g] = "release" /\ \A h \in Cycles : h # g => at'[h] = at[h] /\ at[h] \notin InCycle
      BY <1>a, <1>o, <2>1 DEF InCycle
    <2>3. Pending = finalStatus[g] /\ Pending' = None
      BY <1>p, <2>1, <2>2 DEF PendingOK, InCycle
    <2>4. finalStatus[g] # None
      BY <1>a, StatusAssumption
    <2>5. Reporter!Offer
      BY <2>1, <2>3, <2>4 DEF Reporter!Offer
    <2>6. ChangeOK'
      BY <2>2 DEF ChangeOK, InCycle
    <2> QED BY <2>5, <2>6 DEF Reporter!ReporterNext
  <1>7. CASE Consume
    <2>1. /\ reportChan # <<>> /\ reportChan' = Tail(reportChan)
          /\ UNCHANGED <<lastStatus, dropped, at, finalStatus>>
      BY <1>7 DEF Consume, checking
    <2>2. Pending' = Pending
      BY <2>1, PendingFrame
    <2>3. ChangeOK'
      BY <2>1 DEF ChangeOK
    <2>4. Reporter!Consume
      BY <2>1, <2>2 DEF Reporter!Consume
    <2> QED BY <2>3, <2>4 DEF Reporter!ReporterNext
  <1>8. ASSUME NEW g \in Cycles, NEW k \in Checks, CheckReturns(g, k) \/ Deadline(g, k) \/ Test(g, k)
        PROVE  ChangeOK' /\ [Reporter!ReporterNext]_(Reporter!reporterVars)
    <2>1. UNCHANGED <<reporter, at, finalStatus>>
      BY <1>8 DEF CheckReturns, Deadline, Answer, Test
    <2> QED BY <1>f, <2>1
  <1>9. ASSUME NEW g \in Cycles, NEW k \in Checks, NEW f \in Fields, StoreField(g, k, f)
        PROVE  ChangeOK' /\ [Reporter!ReporterNext]_(Reporter!reporterVars)
    <2>1. /\ UNCHANGED <<reporter, at>> /\ at[g] = "check"
          /\ finalStatus' = [finalStatus EXCEPT ![g][f] = status[g][k][f]]
      BY <1>t, <1>9 DEF StoreField, WorkersOK, Busy
    <2>2. \A h \in Cycles : h # g => finalStatus'[h] = finalStatus[h]
      BY <1>a, <2>1
    <2> QED BY <1>f, <2>1, <2>2
  <1> QED BY <1>1, <1>2, <1>3, <1>4, <1>5, <1>6, <1>7, <1>8, <1>9 DEF Next, Cycle, Worker

\* The runner keeps the promises of a Reporter (health/runner.go): changes are
\* stored and offered to the report channel one by one and in order, none twice.
THEOREM RunnerImplementsReporter == Spec => ImplementsReporter
  <1>1. Spec => []VerdictInv
    BY CycleAlways, VerdictInit, VerdictStep, PTL DEF Spec
  <1>2. Spec => []ChangeOK
    BY <1>1, CycleAlways, ReporterInitial, ReporterStep, PTL DEF Spec
  <1> QED BY <1>1, <1>2, CycleAlways, ReporterInitial, ReporterStep, PTL
          DEF Spec, ImplementsReporter, Reporter!ReporterSpec
=============================================================================
