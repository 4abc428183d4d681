----------------------------- MODULE AppProofs -----------------------------
(***************************************************************************)
(* Theorems about App: the channel of the jobs' errors, what is stopped     *)
(* when Run returns, and when the process may panic.                        *)
(***************************************************************************)
EXTENDS App, FiniteSetTheorems, TLAPS

-----------------------------------------------------------------------------
(* The inductive invariants *)
Ended == {j \in Jobs : job[j] \in {"ending", "done"}}

\* A job that was started is configured and an error to send was recorded; the
\* channel was closed after the last job ended; a job that sent an error has one
\* message at most in the channel and is past its send.
JobsOK ==
    /\ pc = "init" => \A j \in Jobs : job[j] = "new"
    /\ \A j \in Jobs : job[j] # "new" => j \in config
    /\ \A j \in Jobs : job[j] = "failing" => j \in failed
    /\ closed => pc \notin {"init", "jobs"} /\ JobsOver
    /\ Len(chJobs) <= Cardinality(Ended)

\* Until Run has left its select an error is with its job or in the channel.
Before == {"init", "jobs", "services", "notify", "select"}

ErrorsOK == pc \in Before =>
    \A j \in failed : job[j] = "failing" \/ \E i \in 1 .. Len(chJobs) : chJobs[i] = j

\* The two goroutines of a server, its listener and the wait group.
ServerOK(s) ==
    /\ (lis[s] = "off") <=> (stop[s] = "off")
    /\ (lis[s] = "off") <=> (serve[s] = "off")
    /\ stop[s] \in {"grace", "done"} => cancelled
    /\ lis[s] = "closed" => stop[s] # "armed"
    /\ lis[s] = "open" => stop[s] = "armed" \/ serve[s] = "ready"
    /\ serve[s] = "done" => lis[s] = "closed"
    /\ s[2] = "grpc" /\ serve[s] = "done" => stop[s] = "done"
    /\ s[2] = "grpc" /\ s \in busy => stop[s] \in {"armed", "grace"}
    /\ lis[s] # "off" /\ s \notin wg =>
         IF s[2] = "grpc" THEN serve[s] = "done" ELSE stop[s] = "done"

ServersOK == \A s \in Servers : ServerOK(s)

\* What Run waited for stays as it is.
WaitOK == pc = "returned" /\ err = "nil" => JobsOver /\ wg = {}

-----------------------------------------------------------------------------
(* Types *)
\* The values of pc and err.
PCs == {"init", "jobs", "services", "notify", "select", "wait"} \cup Over

\* TypeOK of main's variables, of the jobs' and of the servers'; no service has
\* started before Init is over.
MainType ==
    /\ pc \in PCs /\ err \in {"nil", "service", "job"} /\ config \subseteq Jobs \cup {Ghost}
    /\ todo \subseteq Services /\ current \subseteq todo /\ Cardinality(current) <= 1
    /\ pc = "init" => current = {}

JobType ==
    /\ job \in [Jobs -> {"new", "running", "failing", "ending", "done"}]
    /\ failed \subseteq Jobs /\ chJobs \in Seq(failed)

FlagType == closed \in BOOLEAN /\ cancelled \in BOOLEAN /\ quit \in BOOLEAN

ServerType ==
    /\ lis \in [Servers -> {"off", "open", "closed"}]
    /\ serve \in [Servers -> {"off", "ready", "serving", "done"}]
    /\ stop \in [Servers -> {"off", "armed", "grace", "done"}]
    /\ \A s \in Servers : lis[s] = "off" => serve[s] = "off" /\ stop[s] = "off"
    /\ busy \cup wg \subseteq Servers

TypeInv == MainType /\ JobType /\ FlagType /\ ServerType

LEMMA TypeParts == TypeInv => TypeOK
  <1>1. FlagType => {closed, cancelled, quit} \subseteq BOOLEAN
    BY Zenon DEF FlagType
  <1> QED BY <1>1 DEF TypeOK, TypeInv, MainType, JobType, ServerType, PCs

LEMMA TypeInit == Init => TypeInv
  <1> SUFFICES ASSUME Init PROVE TypeInv
    OBVIOUS
  <1>1. Cardinality({}) <= 1
    BY FS_EmptySet
  <1>2. <<>> \in Seq({}) /\ {FALSE} \subseteq BOOLEAN
    OBVIOUS
  <1>3. chJobs \in Seq(failed) /\ {closed, cancelled, quit} \subseteq BOOLEAN
    BY <1>2 DEF Init
  <1>4. FlagType
    BY DEF Init, FlagType
  <1> QED BY <1>1, <1>3, <1>4 DEF Init, TypeInv, MainType, JobType, ServerType, PCs, Over, Dead

LEMMA MainTypeStep == MainType /\ [Next]_vars => MainType'
  <1> SUFFICES ASSUME MainType, [Next]_vars PROVE MainType'
    OBVIOUS
  <1>t. MainType
    OBVIOUS
  <1>e. Cardinality({}) = 0 /\ \A v : Cardinality({v}) = 1
    BY FS_EmptySet, FS_Singleton, Zenon
  <1> USE DEF PCs, Over, Dead
  <1>1. CASE InitApp
    BY <1>t, <1>1 DEF InitApp, MainType
  <1>2. CASE JobsStarted \/ Notify \/ SelectError \/ SelectCompleted \/ SelectQuit \/ Wait \/ Exit
    BY <1>t, <1>2 DEF JobsStarted, Notify, SelectError, SelectCompleted, SelectQuit, Wait, Exit, Goto, Fail, MainType
  <1>3. CASE ServiceRuns
    <2>1. Cardinality({}) <= 1 /\ Cardinality({}) = 0
      BY <1>e
    <2>2. PICK v \in current : todo' = todo \ {v} /\ current' = {} /\ UNCHANGED <<pc, err, config>>
      BY <1>3 DEF ServiceRuns
    <2> QED BY <1>t, <2>1, <2>2 DEF MainType
  <1>4. ASSUME NEW j \in Jobs \cup {Ghost}, StartJob(j) PROVE MainType'
    BY <1>t, <1>4 DEF StartJob, MainType
  <1>5. ASSUME NEW v \in Services, RunService(v) PROVE MainType'
    <2>1. Cardinality({v}) = 1
      BY <1>e, Zenon
    <2> QED BY <1>t, <2>1, <1>5 DEF RunService, Fail, MainType
  <1>6. ASSUME NEW s \in Servers, StartServer(s) PROVE MainType'
    BY <1>t, <1>6 DEF StartServer, Fail, MainType
  <1>7. CASE Signal \/ CloseJobs \/ UNCHANGED vars
    BY <1>t, <1>7 DEF Signal, CloseJobs, vars, main, MainType
  <1>8. ASSUME NEW j \in Jobs, JobReturns(j) \/ JobSends(j) \/ JobDone(j) PROVE MainType'
    BY <1>t, <1>8 DEF JobReturns, JobSends, JobDone, main, MainType
  <1>9. ASSUME NEW s \in Servers, Serve(s) \/ ServeFails(s) PROVE MainType'
    BY <1>t, <1>9 DEF Serve, ServeFails, Goto, MainType
  <1>10. ASSUME NEW s \in Servers,
                Connect(s) \/ Disconnect(s) \/ Shutdown(s) \/ Graceful(s) \/ Timeout(s) \/ ServeEnds(s)
         PROVE  MainType'
    BY <1>t, <1>10 DEF Connect, Disconnect, Shutdown, Graceful, Timeout, ServeEnds, Stopped, main, MainType
  <1> QED BY <1>1, <1>2, <1>3, <1>4, <1>5, <1>6, <1>7, <1>8, <1>9, <1>10 DEF Next, Run

\* The steps that leave the jobs, and those that leave the servers alone.
LEMMA JobFrame ==
    [Next]_vars => \/ UNCHANGED jobs \/ SelectError \/ CloseJobs
                   \/ \E j \in Jobs : StartJob(j) \/ JobReturns(j) \/ JobSends(j) \/ JobDone(j)
  <1> SUFFICES ASSUME [Next]_vars
               PROVE  \/ UNCHANGED jobs \/ SelectError \/ CloseJobs
                      \/ \E j \in Jobs : StartJob(j) \/ JobReturns(j) \/ JobSends(j) \/ JobDone(j)
    OBVIOUS
  <1>1. ASSUME NEW j \in Jobs \cup {Ghost}, StartJob(j) PROVE UNCHANGED jobs \/ (j \in Jobs)
    BY <1>1 DEF StartJob, jobs
  <1>2. CASE InitApp \/ JobsStarted \/ ServiceRuns \/ Notify \/ SelectCompleted \/ SelectQuit \/ Wait \/ Exit \/ Signal \/ UNCHANGED vars
    BY <1>2 DEF InitApp, JobsStarted, ServiceRuns, Notify, SelectCompleted, SelectQuit, Wait, Exit, Signal, vars, jobs
  <1>3. CASE \/ \E v \in Services : RunService(v)
             \/ \E s \in Servers : StartServer(s) \/ Serve(s) \/ ServeFails(s)
    BY <1>3 DEF RunService, StartServer, Serve, ServeFails
  <1>4. CASE \E s \in Servers : Connect(s) \/ Disconnect(s) \/ Shutdown(s) \/ Graceful(s) \/ Timeout(s) \/ ServeEnds(s)
    BY <1>4 DEF Connect, Disconnect, Shutdown, Graceful, Timeout, ServeEnds, Stopped
  <1> QED BY <1>1, <1>2, <1>3, <1>4 DEF Next, Run

LEMMA ServerFrame ==
    [Next]_vars => \/ UNCHANGED servers
                   \/ \E s \in Servers : \/ StartServer(s) \/ Serve(s) \/ Connect(s) \/ Disconnect(s)
                                         \/ Shutdown(s) \/ Graceful(s) \/ Timeout(s) \/ ServeEnds(s)
  <1> SUFFICES ASSUME [Next]_vars
               PROVE  \/ UNCHANGED servers
                      \/ \E s \in Servers : \/ StartServer(s) \/ Serve(s) \/ Connect(s) \/ Disconnect(s)
                                            \/ Shutdown(s) \/ Graceful(s) \/ Timeout(s) \/ ServeEnds(s)
    OBVIOUS
  <1>1. CASE InitApp \/ JobsStarted \/ ServiceRuns \/ Notify \/ SelectCompleted \/ SelectQuit \/ Wait \/ Exit \/ Signal \/ UNCHANGED vars
    BY <1>1 DEF InitApp, JobsStarted, ServiceRuns, Notify, SelectCompleted, SelectQuit, Wait, Exit, Signal, vars, servers
  <1>2. CASE SelectError \/ CloseJobs \/ (\E v \in Services : RunService(v)) \/ (\E s \in Servers : ServeFails(s))
    BY <1>2 DEF SelectError, CloseJobs, RunService, ServeFails
  <1>3. CASE \/ \E j \in Jobs \cup {Ghost} : StartJob(j)
             \/ \E j \in Jobs : JobReturns(j) \/ JobSends(j) \/ JobDone(j)
    BY <1>3 DEF StartJob, JobReturns, JobSends, JobDone
  <1> QED BY <1>1, <1>2, <1>3 DEF Next, Run

-----------------------------------------------------------------------------
(* The jobs and their channel *)
\* Run moves forward, and the configuration is read by Init alone.
LEMMA MainFrame ==
    MainType /\ [Next]_vars =>
        /\ pc' = "init" => pc = "init"
        /\ pc' = "jobs" => pc \in {"init", "jobs"}
        /\ pc' \in Before => pc \in Before
        /\ config' = config \/ pc = "init"
        /\ config' \subseteq Jobs \cup {Ghost}
  <1> SUFFICES ASSUME MainType, [Next]_vars
               PROVE  /\ pc' = "init" => pc = "init"
                      /\ pc' = "jobs" => pc \in {"init", "jobs"}
                      /\ pc' \in Before => pc \in Before
                      /\ config' = config \/ pc = "init"
    BY MainTypeStep DEF MainType
  <1> USE DEF Before
  <1>1. CASE InitApp
    BY <1>1 DEF InitApp
  <1>2. CASE JobsStarted \/ Notify \/ SelectError \/ SelectCompleted \/ SelectQuit \/ Wait \/ Exit \/ ServiceRuns
    BY <1>2 DEF JobsStarted, Notify, SelectError, SelectCompleted, SelectQuit, Wait, Exit, ServiceRuns, Goto, Fail
  <1>3. CASE \/ \E j \in Jobs \cup {Ghost} : StartJob(j)
             \/ \E v \in Services : RunService(v)
             \/ \E s \in Servers : StartServer(s)
    BY <1>3 DEF StartJob, RunService, StartServer, Fail
  <1>4. CASE Signal \/ CloseJobs \/ UNCHANGED vars
    BY <1>4 DEF Signal, CloseJobs, vars, main
  <1>5. CASE \E j \in Jobs : JobReturns(j) \/ JobSends(j) \/ JobDone(j)
    BY <1>5 DEF JobReturns, JobSends, JobDone, main
  <1>6. CASE \E s \in Servers : Serve(s) \/ ServeFails(s)
    BY <1>6 DEF Serve, ServeFails, Goto
  <1>7. CASE \E s \in Servers : Connect(s) \/ Disconnect(s) \/ Shutdown(s) \/ Graceful(s) \/ Timeout(s) \/ ServeEnds(s)
    BY <1>7 DEF Connect, Disconnect, Shutdown, Graceful, Timeout, ServeEnds, Stopped, main
  <1> QED BY <1>1, <1>2, <1>3, <1>4, <1>5, <1>6, <1>7 DEF Next, Run

\* A failing job has not sent yet, so that there is room for its error.
LEMMA RoomForError ==
    ASSUME MainType, JobType, JobsOK, NEW j \in Jobs, job[j] = "failing"
    PROVE  Len(chJobs) < Cardinality(config) /\ ~closed
  <1>1. IsFiniteSet(config)
    <2>1. IsFiniteSet(Jobs \cup {Ghost})
      BY AppAssumption, FS_AddElement
    <2> QED BY <2>1, FS_Subset DEF MainType
  <1>2. IsFiniteSet(Ended) /\ j \notin Ended
    BY AppAssumption, FS_Subset DEF Ended
  <1>3. Cardinality(Ended \cup {j}) = Cardinality(Ended) + 1 /\ Cardinality(Ended) \in Nat
    BY <1>2, FS_AddElement, FS_CardinalityType
  <1>4. Ended \cup {j} \subseteq config
    BY DEF Ended, JobsOK
  <1>5. Cardinality(Ended \cup {j}) <= Cardinality(config) /\ Cardinality(config) \in Nat
    BY <1>1, <1>4, FS_Subset, FS_CardinalityType
  <1>6. Len(chJobs) \in Nat /\ Len(chJobs) <= Cardinality(Ended)
    BY DEF JobType, JobsOK
  <1>7. ~closed
    BY DEF JobsOK, JobsOver
  <1> QED BY <1>3, <1>5, <1>6, <1>7

LEMMA JobInit == Init => JobsOK /\ ErrorsOK
  <1> SUFFICES ASSUME Init PROVE JobsOK /\ ErrorsOK
    OBVIOUS
  <1>1. Ended = {}
    BY DEF Init, Ended
  <1>2. Len(chJobs) = 0 /\ Cardinality(Ended) = 0
    BY <1>1, FS_EmptySet DEF Init
  <1> QED BY <1>2 DEF Init, JobsOK, ErrorsOK

JobInv == JobType /\ JobsOK /\ ErrorsOK

\* A step of the jobs: nobody leaves the set of ended jobs, and the channel
\* grows with it.
LEMMA EndedGrows ==
    ASSUME \A j \in Jobs : job[j] \in {"ending", "done"} => job'[j] \in {"ending", "done"}
    PROVE  /\ Cardinality(Ended) \in Nat /\ Cardinality(Ended') \in Nat
           /\ Cardinality(Ended) <= Cardinality(Ended')
  <1>1. Ended \subseteq Ended' /\ Ended' \subseteq Jobs
    BY DEF Ended
  <1>2. IsFiniteSet(Ended')
    BY <1>1, AppAssumption, FS_Subset
  <1> QED BY <1>1, <1>2, FS_Subset, FS_CardinalityType

LEMMA JobStep == MainType /\ FlagType /\ JobInv /\ [Next]_vars => JobInv'
  <1> SUFFICES ASSUME MainType, FlagType, JobInv, [Next]_vars PROVE JobInv'
    OBVIOUS
  <1>t. JobType /\ JobsOK /\ ErrorsOK
    BY DEF JobInv
  <1>c. Len(chJobs) \in Nat /\ Len(chJobs) <= Cardinality(Ended)
    BY <1>t DEF JobType, JobsOK
  <1>m. /\ pc' = "init" => pc = "init"
        /\ pc' = "jobs" => pc \in {"init", "jobs"}
        /\ pc' \in Before => pc \in Before
        /\ config' = config \/ pc = "init"
    BY MainFrame
  <1>1. CASE UNCHANGED jobs
    <2>1. UNCHANGED <<job, failed, chJobs, closed>>
      BY <1>1 DEF jobs
    <2>2. JobType' /\ ErrorsOK'
      BY <1>t, <1>m, <2>1 DEF JobType, ErrorsOK
    <2>3. Ended' = Ended
      BY <2>1 DEF Ended
    <2>4. JobsOK'
      BY <1>t, <1>m, <2>1, <2>3 DEF JobsOK, JobsOver
    <2> QED BY <2>2, <2>4 DEF JobInv
  <1>2. CASE SelectError
    <2>1. /\ chJobs # <<>> /\ chJobs' = Tail(chJobs) /\ pc' = "returned"
          /\ UNCHANGED <<config, job, failed, closed>>
      BY <1>2 DEF SelectError, Fail
    <2>2. chJobs' \in Seq(failed) /\ Len(chJobs') = Len(chJobs) - 1
      BY <1>t, <2>1 DEF JobType
    <2>3. JobType' /\ ErrorsOK'
      BY <1>t, <2>1, <2>2 DEF JobType, ErrorsOK, Before
    <2>4. Ended' = Ended
      BY <2>1 DEF Ended
    <2>5. Len(chJobs') <= Cardinality(Ended') /\ Len(chJobs') \in Nat
      BY <1>t, <1>c, <2>2, <2>4, EndedGrows, <2>1
    <2>6. JobsOK'
      BY <1>t, <1>m, <2>1, <2>5 DEF JobsOK, JobsOver
    <2> QED BY <2>3, <2>6 DEF JobInv
  <1>3. CASE CloseJobs
    <2>1. /\ \A j \in config : job[j] = "done"
          /\ pc \notin {"init", "jobs"} /\ UNCHANGED <<job, failed, chJobs, pc, config>>
      BY <1>3 DEF CloseJobs, main
    <2>2. JobType' /\ ErrorsOK'
      BY <1>t, <2>1 DEF JobType, ErrorsOK
    <2>3. JobsOver'
      BY <1>t, <2>1 DEF JobsOver, JobsOK
    <2>4. Ended' = Ended
      BY <2>1 DEF Ended
    <2>5. JobsOK'
      BY <1>t, <2>1, <2>3, <2>4 DEF JobsOK
    <2> QED BY <2>2, <2>5 DEF JobInv
  <1>4. ASSUME NEW j \in Jobs, StartJob(j) \/ JobDone(j) PROVE JobInv'
    <2>1. /\ UNCHANGED <<failed, chJobs, closed>>
          /\ \/ UNCHANGED job
             \/ pc = "jobs" /\ j \in config /\ job[j] = "new" /\ job' = [job EXCEPT ![j] = "running"] /\ config' = config
             \/ job[j] = "ending" /\ job' = [job EXCEPT ![j] = "done"] /\ config' = config
      BY <1>4 DEF StartJob, JobDone, main
    <2>2. CASE UNCHANGED job
      BY <1>1, <2>1, <2>2 DEF jobs
    <2>3. CASE ~UNCHANGED job
      <3>1. /\ UNCHANGED <<failed, chJobs, closed, config>>
            /\ \/ job[j] = "new" /\ pc = "jobs" /\ j \in config /\ job'[j] = "running"
               \/ job[j] = "ending" /\ job'[j] = "done"
            /\ \A i \in Jobs : i # j => job'[i] = job[i]
            /\ job' \in [Jobs -> {"new", "running", "failing", "ending", "done"}]
        BY <1>t, <2>1, <2>3 DEF JobType
      <3>2. JobType' /\ ErrorsOK'
        BY <1>t, <1>m, <3>1 DEF JobType, ErrorsOK
      <3>3. Cardinality(Ended) \in Nat /\ Cardinality(Ended') \in Nat /\ Cardinality(Ended) <= Cardinality(Ended')
        BY <3>1, EndedGrows
      <3>4. Len(chJobs') <= Cardinality(Ended')
        BY <1>c, <3>1, <3>3
      <3>5. JobsOK'
        BY <1>t, <1>m, <3>1, <3>4 DEF JobsOK, JobsOver
      <3> QED BY <3>2, <3>5 DEF JobInv
    <2> QED BY <2>2, <2>3
  <1>5. ASSUME NEW j \in Jobs, JobReturns(j) PROVE JobInv'
    <2>1. /\ UNCHANGED <<chJobs, closed, config>> /\ job[j] = "running"
          /\ \/ job' = [job EXCEPT ![j] = "ending"] /\ UNCHANGED failed
             \/ job' = [job EXCEPT ![j] = "failing"] /\ failed' = failed \cup {j}
      BY <1>5 DEF JobReturns, main
    <2>2. /\ job'[j] \in {"ending", "failing"} /\ \A i \in Jobs : i # j => job'[i] = job[i]
          /\ job' \in [Jobs -> {"new", "running", "failing", "ending", "done"}]
          /\ job'[j] = "failing" => j \in failed'
          /\ failed \subseteq failed' /\ failed' \subseteq Jobs
          /\ \A i \in failed' : i \in failed \/ (i = j /\ job'[j] = "failing")
      BY <1>t, <2>1 DEF JobType
    <2>3. chJobs' \in Seq(failed')
      BY <1>t, <2>1, <2>2 DEF JobType
    <2>4. JobType' /\ ErrorsOK'
      BY <1>t, <1>m, <2>1, <2>2, <2>3 DEF JobType, ErrorsOK
    <2>5. Cardinality(Ended) \in Nat /\ Cardinality(Ended') \in Nat /\ Cardinality(Ended) <= Cardinality(Ended')
      BY <2>1, <2>2, EndedGrows
    <2>6. Len(chJobs') <= Cardinality(Ended')
      BY <1>c, <2>1, <2>5
    <2>7. JobsOK'
      BY <1>t, <1>m, <2>1, <2>2, <2>6 DEF JobsOK, JobsOver
    <2> QED BY <2>4, <2>7 DEF JobInv
  <1>6. ASSUME NEW j \in Jobs, JobSends(j) PROVE JobInv'
    <2>1. ~closed /\ job[j] = "failing" /\ j \in failed
      BY <1>t, <1>6, RoomForError DEF JobSends, JobsOK
    <2>2. /\ chJobs' = Append(chJobs, j) /\ job' = [job EXCEPT ![j] = "ending"]
          /\ UNCHANGED <<failed, closed, config>>
      BY <1>6, <2>1 DEF JobSends
    <2>3. /\ job'[j] = "ending" /\ \A i \in Jobs : i # j => job'[i] = job[i]
          /\ job' \in [Jobs -> {"new", "running", "failing", "ending", "done"}]
      BY <1>t, <2>2 DEF JobType
    <2>4. /\ chJobs' \in Seq(failed) /\ Len(chJobs') = Len(chJobs) + 1
          /\ chJobs'[Len(chJobs) + 1] = j
          /\ \A i \in 1 .. Len(chJobs) : chJobs'[i] = chJobs[i]
      BY <1>t, <2>1, <2>2 DEF JobType
    <2>5. JobType'
      BY <1>t, <2>2, <2>3, <2>4 DEF JobType
    <2>6. ErrorsOK'
      <3> SUFFICES ASSUME pc \in Before, NEW i \in failed, job'[i] # "failing"
                   PROVE  \E n \in 1 .. Len(chJobs') : chJobs'[n] = i
        BY <1>m, <2>2 DEF ErrorsOK
      <3>1. CASE i = j
        BY <1>c, <2>4, <3>1
      <3>2. CASE i # j
        <4>1. PICK n \in 1 .. Len(chJobs) : chJobs[n] = i
          BY <1>t, <2>3, <3>2 DEF ErrorsOK, JobType
        <4> QED BY <1>c, <2>4, <4>1
      <3> QED BY <3>1, <3>2
    <2>7. Ended' = Ended \cup {j} /\ j \notin Ended /\ IsFiniteSet(Ended)
      <3>1. IsFiniteSet(Ended)
        BY AppAssumption, FS_Subset DEF Ended
      <3> QED BY <2>1, <2>3, <3>1 DEF Ended
    <2>8. Cardinality(Ended') = Cardinality(Ended) + 1 /\ Cardinality(Ended) \in Nat
      BY <2>7, FS_AddElement, FS_CardinalityType
    <2>9. Len(chJobs') <= Cardinality(Ended')
      BY <1>c, <2>4, <2>8
    <2>10. JobsOK'
      BY <1>t, <1>m, <2>1, <2>2, <2>3, <2>9 DEF JobsOK, JobsOver
    <2> QED BY <2>5, <2>6, <2>10 DEF JobInv
  <1> QED BY <1>1, <1>2, <1>3, <1>4, <1>5, <1>6, JobFrame

-----------------------------------------------------------------------------
(* The servers *)
LEMMA FlagStep == FlagType /\ [Next]_vars => FlagType' /\ (cancelled => cancelled')
  <1> SUFFICES ASSUME FlagType, [Next]_vars PROVE FlagType' /\ (cancelled => cancelled')
    OBVIOUS
  <1>1. CASE InitApp \/ JobsStarted \/ Notify \/ SelectError \/ SelectCompleted \/ SelectQuit \/ Wait \/ Exit \/ ServiceRuns
    BY <1>1 DEF InitApp, JobsStarted, Notify, SelectError, SelectCompleted, SelectQuit, Wait, Exit, ServiceRuns, FlagType, jobs
  <1>2. CASE \/ \E j \in Jobs \cup {Ghost} : StartJob(j)
             \/ \E v \in Services : RunService(v)
             \/ \E s \in Servers : StartServer(s)
    BY <1>2 DEF StartJob, RunService, StartServer, FlagType, jobs
  <1>3. CASE Signal \/ CloseJobs \/ UNCHANGED vars
    BY <1>3 DEF Signal, CloseJobs, vars, FlagType, jobs
  <1>4. CASE \E j \in Jobs : JobReturns(j) \/ JobSends(j) \/ JobDone(j)
    BY <1>4 DEF JobReturns, JobSends, JobDone, FlagType
  <1>5. CASE \E s \in Servers : Serve(s) \/ ServeFails(s) \/ Connect(s) \/ Disconnect(s)
    BY <1>5 DEF Serve, ServeFails, Connect, Disconnect, FlagType, jobs
  <1>6. CASE \E s \in Servers : Shutdown(s) \/ Graceful(s) \/ Timeout(s) \/ ServeEnds(s)
    BY <1>6 DEF Shutdown, Graceful, Timeout, ServeEnds, Stopped, FlagType, jobs
  <1> QED BY <1>1, <1>2, <1>3, <1>4, <1>5, <1>6 DEF Next, Run

LEMMA ServerInit == Init => ServersOK /\ WaitOK /\ PanicOnlyAtStop
  BY DEF Init, ServersOK, ServerOK, WaitOK, PanicOnlyAtStop

\* A step of one server disturbs no other.
LEMMA OneServer ==
    ASSUME ServersOK, ServerType, cancelled => cancelled', NEW s \in Servers,
           ServerType', ServerOK(s)',
           \A r \in Servers : r # s => /\ lis'[r] = lis[r] /\ serve'[r] = serve[r] /\ stop'[r] = stop[r]
                                       /\ (r \in busy') <=> (r \in busy)
                                       /\ (r \in wg') <=> (r \in wg)
    PROVE  ServersOK'
  <1>1. ASSUME NEW r \in Servers, r # s PROVE ServerOK(r)'
    <2>1. ServerOK(r)
      BY DEF ServersOK
    <2> QED BY <1>1, <2>1 DEF ServerOK
  <1> QED BY <1>1 DEF ServersOK

LEMMA ServersStep ==
    FlagType /\ ServerType /\ ServersOK /\ [Next]_vars => ServerType' /\ ServersOK'
  <1> SUFFICES ASSUME FlagType, ServerType, ServersOK, [Next]_vars PROVE ServerType' /\ ServersOK'
    OBVIOUS
  <1>c. cancelled => cancelled'
    BY FlagStep
  <1>1. CASE UNCHANGED servers
    <2>1. UNCHANGED <<lis, serve, stop, busy, wg>>
      BY <1>1 DEF servers
    <2> QED BY <1>c, <2>1 DEF ServerType, ServersOK, ServerOK
  <1>2. ASSUME NEW s \in Servers, StartServer(s) PROVE ServerType' /\ ServersOK'
    <2>0. ServerOK(s) /\ lis[s] = "off" /\ wg' = wg \cup {s} /\ UNCHANGED busy
      BY <1>2 DEF StartServer, ServersOK
    <2>1. CASE UNCHANGED <<lis, serve, stop>>
      <3>1. ServerType' /\ ServerOK(s)'
        BY <2>0, <2>1, <1>c DEF ServerType, ServerOK
      <3> QED BY <1>c, <2>0, <2>1, <3>1, OneServer
    <2>2. CASE /\ lis' = [lis EXCEPT ![s] = "open"] /\ serve' = [serve EXCEPT ![s] = "ready"]
               /\ stop' = [stop EXCEPT ![s] = "armed"]
      <3>1. lis'[s] = "open" /\ serve'[s] = "ready" /\ stop'[s] = "armed"
        BY <2>2 DEF ServerType
      <3>2. \A r \in Servers : r # s => lis'[r] = lis[r] /\ serve'[r] = serve[r] /\ stop'[r] = stop[r]
        BY <2>2 DEF ServerType
      <3>3. ServerType'
        BY <2>0, <2>2, <3>1, <3>2 DEF ServerType
      <3>4. ServerOK(s)'
        BY <2>0, <3>1 DEF ServerOK
      <3> QED BY <1>c, <2>0, <3>2, <3>3, <3>4, OneServer
    <2> QED BY <1>2, <2>1, <2>2 DEF StartServer
  <1>3. ASSUME NEW s \in Servers, Serve(s) PROVE ServerType' /\ ServersOK'
    <2>1. /\ UNCHANGED <<cancelled, stop, busy, wg>> /\ serve[s] = "ready" /\ ServerOK(s)
          /\ \/ stop[s] = "armed" /\ UNCHANGED lis
             \/ stop[s] # "armed" /\ lis' = [lis EXCEPT ![s] = "closed"]
          /\ \/ UNCHANGED serve /\ stop[s] # "armed"
             \/ stop[s] = "armed" /\ serve' = [serve EXCEPT ![s] = "serving"]
             \/ stop[s] # "armed" /\ s[2] = "http" /\ serve' = [serve EXCEPT ![s] = "done"]
      BY <1>3 DEF Serve, ServersOK
    <2>2. /\ \/ stop[s] = "armed" /\ lis'[s] = lis[s] /\ serve'[s] = "serving"
             \/ stop[s] # "armed" /\ lis'[s] = "closed" /\ serve'[s] = "ready"
             \/ stop[s] # "armed" /\ lis'[s] = "closed" /\ s[2] = "http" /\ serve'[s] = "done"
          /\ \A r \in Servers : r # s => serve'[r] = serve[r] /\ lis'[r] = lis[r]
          /\ serve' \in [Servers -> {"off", "ready", "serving", "done"}]
          /\ lis' \in [Servers -> {"off", "open", "closed"}]
      BY <2>1 DEF ServerType
    <2>3. lis[s] # "off" /\ stop[s] # "off"
      BY <2>1 DEF ServerOK
    <2>4. ServerType'
      BY <2>1, <2>2, <2>3 DEF ServerType
    <2>5. ServerOK(s)'
      BY <2>1, <2>2, <2>3 DEF ServerOK
    <2> QED BY <1>c, <2>1, <2>2, <2>4, <2>5, OneServer
  <1>4. ASSUME NEW s \in Servers, Connect(s) \/ Disconnect(s) PROVE ServerType' /\ ServersOK'
    <2>1. /\ UNCHANGED <<cancelled, lis, serve, stop, wg>> /\ ServerOK(s)
          /\ \/ lis[s] = "open" /\ serve[s] = "serving" /\ busy' = busy \cup {s}
             \/ busy' = busy \ {s}
      BY <1>4 DEF Connect, Disconnect, ServersOK
    <2>2. ServerType'
      BY <2>1 DEF ServerType
    <2>3. ServerOK(s)'
      BY <2>1 DEF ServerOK
    <2> QED BY <1>c, <2>1, <2>2, <2>3, OneServer
  <1>5. ASSUME NEW s \in Servers, Shutdown(s) PROVE ServerType' /\ ServersOK'
    <2>1. /\ UNCHANGED <<cancelled, serve, busy, wg>> /\ ServerOK(s) /\ stop[s] = "armed" /\ cancelled
          /\ stop' = [stop EXCEPT ![s] = "grace"]
          /\ lis' = IF serve[s] = "serving" THEN [lis EXCEPT ![s] = "closed"] ELSE lis
      BY <1>5 DEF Shutdown, ServersOK
    <2>2. /\ stop'[s] = "grace" /\ lis'[s] = IF serve[s] = "serving" THEN "closed" ELSE lis[s]
          /\ \A r \in Servers : r # s => stop'[r] = stop[r] /\ lis'[r] = lis[r]
      BY <2>1 DEF ServerType
    <2>3. ServerType'
      BY <2>1, <2>2 DEF ServerType
    <2>4. serve[s] \in {"ready", "serving"}
      BY <2>1 DEF ServerOK, ServerType
    <2>5. ServerOK(s)'
      BY <2>1, <2>2, <2>4 DEF ServerOK
    <2> QED BY <1>c, <2>1, <2>2, <2>3, <2>5, OneServer
  <1>6. ASSUME NEW s \in Servers, Graceful(s) \/ Timeout(s) PROVE ServerType' /\ ServersOK'
    <2>1. /\ UNCHANGED <<cancelled, serve, lis>> /\ ServerOK(s) /\ stop[s] = "grace"
          /\ stop' = [stop EXCEPT ![s] = "done"]
          /\ wg' = IF s[2] = "http" THEN wg \ {s} ELSE wg
          /\ busy' \in {busy, busy \ {s}}
          /\ s[2] = "grpc" => s \notin busy'
      BY <1>6 DEF Graceful, Timeout, Stopped, ServersOK
    <2>2. stop'[s] = "done" /\ \A r \in Servers : r # s => stop'[r] = stop[r]
      BY <2>1 DEF ServerType
    <2>3. ServerType'
      BY <2>1, <2>2 DEF ServerType
    <2>4. s[2] = "grpc" \/ s[2] = "http"
      BY DEF Servers
    <2>5. ServerOK(s)'
      BY <2>1, <2>2, <2>4 DEF ServerOK
    <2> QED BY <1>c, <2>1, <2>2, <2>3, <2>5, OneServer
  <1>7. ASSUME NEW s \in Servers, ServeEnds(s) PROVE ServerType' /\ ServersOK'
    <2>1. /\ UNCHANGED <<cancelled, stop, lis, busy>> /\ ServerOK(s) /\ serve[s] = "serving" /\ lis[s] = "closed"
          /\ serve' = [serve EXCEPT ![s] = "done"]
          /\ \/ s[2] = "http" /\ wg' = wg
             \/ s[2] = "grpc" /\ stop[s] = "done" /\ wg' = wg \ {s}
      BY <1>7 DEF ServeEnds, ServersOK
    <2>2. serve'[s] = "done" /\ \A r \in Servers : r # s => serve'[r] = serve[r]
      BY <2>1 DEF ServerType
    <2>3. ServerType'
      BY <2>1, <2>2 DEF ServerType
    <2>4. ServerOK(s)'
      BY <2>1, <2>2 DEF ServerOK
    <2> QED BY <1>c, <2>1, <2>2, <2>3, <2>4, OneServer
  <1> QED BY <1>1, <1>2, <1>3, <1>4, <1>5, <1>6, <1>7, ServerFrame

-----------------------------------------------------------------------------
(* The end of Run *)
AppInv == TypeInv /\ JobInv /\ ServersOK /\ WaitOK /\ PanicOnlyAtStop

LEMMA AppInit == Init => AppInv
  BY TypeInit, JobInit, ServerInit DEF AppInv, JobInv, TypeInv

\* Run returns nil by Wait only.
LEMMA ReturnsNil ==
    [Next]_vars => (pc' = "returned" /\ err' = "nil" => Wait \/ (pc = "returned" /\ err = "nil"))
  <1> SUFFICES ASSUME [Next]_vars, pc' = "returned", err' = "nil"
               PROVE  Wait \/ (pc = "returned" /\ err = "nil")
    OBVIOUS
  <1>1. CASE InitApp \/ JobsStarted \/ Notify \/ SelectError \/ SelectCompleted \/ SelectQuit \/ Exit \/ ServiceRuns
    BY <1>1 DEF InitApp, JobsStarted, Notify, SelectError, SelectCompleted, SelectQuit, Exit, ServiceRuns, Goto, Fail
  <1>2. CASE \/ \E j \in Jobs \cup {Ghost} : StartJob(j)
             \/ \E v \in Services : RunService(v)
             \/ \E s \in Servers : StartServer(s)
    BY <1>2 DEF StartJob, RunService, StartServer, Fail
  <1>3. CASE Signal \/ CloseJobs \/ UNCHANGED vars
    BY <1>3 DEF Signal, CloseJobs, vars, main
  <1>4. CASE \E j \in Jobs : JobReturns(j) \/ JobSends(j) \/ JobDone(j)
    BY <1>4 DEF JobReturns, JobSends, JobDone, main
  <1>5. CASE \E s \in Servers : Serve(s) \/ ServeFails(s) \/ Connect(s) \/ Disconnect(s)
    BY <1>5 DEF Serve, ServeFails, Connect, Disconnect, Goto, main
  <1>6. CASE \E s \in Servers : Shutdown(s) \/ Graceful(s) \/ Timeout(s) \/ ServeEnds(s)
    BY <1>6 DEF Shutdown, Graceful, Timeout, ServeEnds, Stopped, main
  <1> QED BY <1>1, <1>2, <1>3, <1>4, <1>5, <1>6 DEF Next, Run

LEMMA WaitStep == TypeInv /\ WaitOK /\ [Next]_vars => WaitOK'
  <1> SUFFICES ASSUME TypeInv, WaitOK, [Next]_vars, pc' = "returned", err' = "nil"
               PROVE  (JobsOver /\ wg = {})'
    BY DEF WaitOK
  <1>1. CASE Wait
    BY <1>1 DEF Wait, Goto, jobs, servers, JobsOver
  <1>2. CASE pc = "returned" /\ err = "nil"
    <2>1. JobsOver /\ wg = {}
      BY <1>2 DEF WaitOK
    <2>2. UNCHANGED job
      <3>1. ~SelectError /\ (CloseJobs => UNCHANGED job)
        BY <1>2 DEF SelectError, CloseJobs
      <3>2. ASSUME NEW j \in Jobs PROVE ~StartJob(j) /\ ~JobReturns(j) /\ ~JobSends(j) /\ ~JobDone(j)
        BY <1>2, <2>1 DEF JobsOver, StartJob, JobReturns, JobSends, JobDone
      <3> QED BY <3>1, <3>2, JobFrame DEF jobs
    <2>3. wg' \subseteq wg
      <3>1. ASSUME NEW s \in Servers PROVE ~StartServer(s)
        BY <1>2 DEF StartServer
      <3>2. CASE \E s \in Servers : Serve(s) \/ Connect(s) \/ Disconnect(s) \/ Shutdown(s)
        BY <3>2 DEF Serve, Connect, Disconnect, Shutdown
      <3>3. CASE \E s \in Servers : Graceful(s) \/ Timeout(s) \/ ServeEnds(s)
        BY <3>3 DEF Graceful, Timeout, Stopped, ServeEnds
      <3> QED BY <3>1, <3>2, <3>3, ServerFrame DEF servers
    <2> QED BY <2>1, <2>2, <2>3 DEF JobsOver
  <1> QED BY <1>1, <1>2, ReturnsNil

LEMMA PanicStep == AppInv /\ [Next]_vars => PanicOnlyAtStop'
  <1> SUFFICES ASSUME AppInv, [Next]_vars, pc' = "panicked" PROVE cancelled'
    BY DEF PanicOnlyAtStop
  <1>c. cancelled => cancelled'
    BY FlagStep DEF AppInv, TypeInv
  <1>0. pc = "panicked" => cancelled
    BY DEF AppInv, PanicOnlyAtStop
  <1>1. CASE InitApp \/ JobsStarted \/ Notify \/ SelectError \/ SelectCompleted \/ SelectQuit \/ Wait \/ Exit \/ ServiceRuns
    BY <1>c, <1>0, <1>1 DEF InitApp, JobsStarted, Notify, SelectError, SelectCompleted, SelectQuit, Wait, Exit, ServiceRuns, Goto, Fail
  <1>2. CASE \/ \E j \in Jobs \cup {Ghost} : StartJob(j)
             \/ \E v \in Services : RunService(v)
             \/ \E s \in Servers : StartServer(s)
    BY <1>c, <1>0, <1>2 DEF StartJob, RunService, StartServer, Fail
  <1>3. CASE Signal \/ CloseJobs \/ UNCHANGED vars
    BY <1>c, <1>0, <1>3 DEF Signal, CloseJobs, vars, main
  <1>4. ASSUME NEW j \in Jobs, JobReturns(j) \/ JobSends(j) \/ JobDone(j) PROVE cancelled'
    <2>1. JobSends(j) => pc' = pc
      <3>1. job[j] = "failing" => ~closed
        BY RoomForError DEF AppInv, TypeInv, JobInv
      <3> QED BY <3>1 DEF JobSends
    <2> QED BY <1>c, <1>0, <1>4, <2>1 DEF JobReturns, JobDone, main
  <1>5. ASSUME NEW s \in Servers, Serve(s) PROVE cancelled'
    <2>1. ServerOK(s) /\ stop[s] \in {"off", "armed", "grace", "done"}
      BY DEF AppInv, ServersOK, TypeInv, ServerType
    <2> QED BY <1>c, <1>0, <1>5, <2>1 DEF Serve, ServerOK
  <1>6. CASE \E s \in Servers : ServeFails(s) \/ Connect(s) \/ Disconnect(s)
    BY <1>c, <1>0, <1>6 DEF ServeFails, Connect, Disconnect, Goto, main
  <1>7. CASE \E s \in Servers : Shutdown(s) \/ Graceful(s) \/ Timeout(s) \/ ServeEnds(s)
    BY <1>c, <1>0, <1>7 DEF Shutdown, Graceful, Timeout, ServeEnds, Stopped, main
  <1> QED BY <1>1, <1>2, <1>3, <1>4, <1>5, <1>6, <1>7 DEF Next, Run

LEMMA AppStep == AppInv /\ [Next]_vars => AppInv'
  <1> SUFFICES ASSUME AppInv, [Next]_vars PROVE AppInv'
    OBVIOUS
  <1>1. MainType /\ JobType /\ FlagType /\ ServerType /\ TypeInv /\ JobInv /\ ServersOK /\ WaitOK
    BY DEF AppInv, TypeInv
  <1>2. MainType' /\ FlagType'
    BY <1>1, MainTypeStep, FlagStep
  <1>3. JobInv'
    BY <1>1, JobStep
  <1>4. ServerType' /\ ServersOK'
    BY <1>1, ServersStep
  <1>5. WaitOK' /\ PanicOnlyAtStop'
    BY <1>1, WaitStep, PanicStep
  <1> QED BY <1>2, <1>3, <1>4, <1>5 DEF AppInv, TypeInv, JobInv

LEMMA AppAlways == Spec => []AppInv
  BY AppInit, AppStep, PTL DEF Spec

-----------------------------------------------------------------------------
(* The theorems *)
\* chJobs is closed after the last send and has room for every job's error: a job
\* that fails neither panics nor blocks (appmgr/app.go, Run).
THEOREM JobSendSafeHolds == Spec => []JobSendSafe
  <1>1. AppInv => JobSendSafe
    BY TypeParts, RoomForError DEF AppInv, TypeInv, JobInv, JobSendSafe
  <1> QED BY <1>1, AppAlways, PTL

\* When Run returns nil every job has ended, nobody accepts any more and the gRPC
\* servers have no connection left; a socket still open is that of an HTTP server
\* that never served (appmgr/app.go, serve.go).
THEOREM StoppedOnReturnHolds == Spec => []StoppedOnReturn
  <1>1. AppInv => StoppedOnReturn
    <2> SUFFICES ASSUME AppInv, pc = "returned", err = "nil"
                 PROVE  /\ JobsOver
                        /\ \A s \in Servers : lis[s] = "open" => s[2] = "http" /\ serve[s] = "ready" /\ stop[s] = "done"
                        /\ \A s \in Servers : s[2] = "grpc" => serve[s] \in {"off", "done"} /\ s \notin busy
      BY DEF StoppedOnReturn
    <2>1. JobsOver /\ wg = {}
      BY DEF AppInv, WaitOK
    <2>2. ASSUME NEW s \in Servers
          PROVE  /\ lis[s] = "open" => s[2] = "http" /\ serve[s] = "ready" /\ stop[s] = "done"
                 /\ s[2] = "grpc" => serve[s] \in {"off", "done"} /\ s \notin busy
      <3>1. ServerOK(s) /\ s \notin wg
        BY <2>1 DEF AppInv, ServersOK
      <3>2. s[2] \in {"grpc", "http"}
        BY DEF Servers
      <3> QED BY <3>1, <3>2 DEF ServerOK
    <2> QED BY <2>1, <2>2
  <1> QED BY <1>1, AppAlways, PTL

\* As long as the listeners work the process panics only once somebody cancelled
\* the application's context (appmgr/serve.go).
THEOREM PanicOnlyAtStopHolds == Spec => []PanicOnlyAtStop
  <1>1. AppInv => PanicOnlyAtStop
    BY DEF AppInv
  <1> QED BY <1>1, AppAlways, PTL

\* "All Jobs Completed" is concluded only when no job failed: an error in chJobs is
\* read before the close of the channel (appmgr/app.go, Run).
THEOREM ErrorNotLostHolds == Spec => ErrorNotLost
  <1>1. AppInv => (SelectCompleted => failed = {})
    <2> SUFFICES ASSUME AppInv, SelectCompleted, NEW j \in failed PROVE FALSE
      OBVIOUS
    <2>1. pc = "select" /\ closed /\ Len(chJobs) = 0 /\ j \in Jobs
      BY DEF SelectCompleted, AppInv, TypeInv, JobType
    <2>2. job[j] \in {"new", "done"}
      BY <2>1 DEF AppInv, JobInv, JobsOK, JobsOver
    <2>3. job[j] = "failing" \/ \E i \in 1 .. Len(chJobs) : chJobs[i] = j
      BY <2>1 DEF AppInv, JobInv, ErrorsOK, Before
    <2> QED BY <2>1, <2>2, <2>3
  <1> QED BY <1>1, AppAlways, PTL DEF ErrorNotLost
=============================================================================
