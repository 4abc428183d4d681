-------------------------------- MODULE App --------------------------------
(***************************************************************************)
(* appmgr: the life of an application.  Run (app.go) starts the jobs, the   *)
(* services (service.go) and the observable service (observable.go), waits  *)
(* for a signal, for a job's error or for the end of all jobs, and then for *)
(* everything to stop.  A server (serve.go) has a goroutine in Serve and    *)
(* one that waits for the context to shut it down.  A server is a pair      *)
(* <<service, "grpc" or "http">>.                                           *)
(***************************************************************************)
EXTENDS Integers, Sequences, FiniteSets

CONSTANTS
    Jobs,               \* the jobs AddJob registered
    Ghost,              \* a job the configuration may name and nobody registered
    Services,           \* the configured services
    HasGrpc, HasHttp,   \* those with a gRPC, with an HTTP endpoint
    Obs                 \* the observable service

ASSUME AppAssumption ==
    /\ IsFiniteSet(Jobs) /\ Ghost \notin Jobs
    /\ HasGrpc \cup HasHttp \subseteq Services /\ Obs \notin Services

Servers == (HasGrpc \X {"grpc"}) \cup ((HasHttp \cup {Obs}) \X {"http"})

VARIABLES
    pc,         \* where main is: Init, Run, RunOrExit
    err,        \* what Run returns: "nil", "service" or "job"
    config,     \* a.config.Jobs
    todo,       \* services that Run has yet to start
    current,    \* services whose Run is under way (at most one)
    job,        \* "new", "running", "failing" (has an error to send), "ending", "done"
    failed,     \* jobs that returned an error
    chJobs, closed,
    cancelled,  \* is the application's context done?
    quit,       \* the buffered channel of signals
    lis,        \* listeners: "off", "open", "closed"
    serve,      \* the goroutine in Serve: "off", "ready", "serving", "done"
    stop,       \* the other one: "off", "armed", "grace", "done"
    busy,       \* servers with an open connection
    wg          \* servers the wait groups count

vars == <<pc, err, config, todo, current, job, failed, chJobs, closed,
          cancelled, quit, lis, serve, stop, busy, wg>>

main == <<pc, err, config, todo, current>>
jobs == <<job, failed, chJobs, closed>>
servers == <<lis, serve, stop, busy, wg>>

Dead == {"exited", "killed", "panicked", "broken"}
Over == Dead \cup {"returned"}

Init ==
    /\ pc = "init" /\ err = "nil" /\ config = {} /\ todo = {} /\ current = {}
    /\ job = [j \in Jobs |-> "new"] /\ failed = {} /\ chJobs = <<>> /\ closed = FALSE
    /\ cancelled = FALSE /\ quit = FALSE
    /\ lis = [s \in Servers |-> "off"] /\ serve = [s \in Servers |-> "off"]
    /\ stop = [s \in Servers |-> "off"] /\ busy = {} /\ wg = {}

-----------------------------------------------------------------------------
(* Init, Run and RunOrExit: the main goroutine *)
Goto(where) == pc' = where /\ UNCHANGED <<err, config, todo, current>>

\* Init: the configuration, the clients, the services.  With --job only that
\* job runs, and no service.  An error of any step exits.
InitApp ==
    /\ pc = "init"
    /\ \/ pc' = "exited" /\ UNCHANGED <<config, todo>>
       \/ pc' = "jobs" /\ config' \in SUBSET (Jobs \cup {Ghost}) /\ todo' = Services
       \/ pc' = "jobs" /\ config' \in {{j} : j \in Jobs \cup {Ghost}} /\ todo' = {}
    /\ UNCHANGED <<err, current, jobs, cancelled, quit, servers>>

\* Starts a job; a name that is not registered is fatal, whatever already runs.
StartJob(j) ==
    /\ pc = "jobs" /\ j \in config
    /\ \/ /\ j \in Jobs /\ job[j] = "new"
          /\ job' = [job EXCEPT ![j] = "running"] /\ UNCHANGED pc
       \/ j = Ghost /\ pc' = "exited" /\ UNCHANGED job
    /\ UNCHANGED <<err, config, todo, current, failed, chJobs, closed, cancelled, quit, servers>>

JobsStarted ==
    /\ pc = "jobs" /\ \A j \in config : j \in Jobs /\ job[j] # "new"
    /\ Goto("services")
    /\ UNCHANGED <<jobs, cancelled, quit, servers>>

Fail(e) == pc' = "returned" /\ err' = e

\* The first cycle of the health runner decides whether a service runs.
RunService(v) ==
    /\ pc = "services" /\ current = {} /\ v \in todo
    /\ \/ current' = {v} /\ UNCHANGED <<pc, err>>
       \/ Fail("service") /\ UNCHANGED current
    /\ UNCHANGED <<config, todo, jobs, cancelled, quit, servers>>

ServiceRuns ==
    /\ \E v \in current :
         /\ \A s \in Servers : s[1] = v => lis[s] # "off"
         /\ todo' = todo \ {v} /\ current' = {}
    /\ UNCHANGED <<pc, err, config, jobs, cancelled, quit, servers>>

\* The gRPC server of a service comes first.
NextOfService(s) ==
    /\ s[1] \in current
    /\ s[2] = "http" /\ s[1] \in HasGrpc => lis[<<s[1], "grpc">>] # "off"

RunObservable(s) == s[1] = Obs /\ todo = {}

\* The wait group is raised before the endpoint is opened.
StartServer(s) ==
    /\ pc = "services" /\ lis[s] = "off"
    /\ NextOfService(s) \/ RunObservable(s)
    /\ wg' = wg \cup {s}
    /\ \/ /\ lis' = [lis EXCEPT ![s] = "open"]
          /\ serve' = [serve EXCEPT ![s] = "ready"]
          /\ stop' = [stop EXCEPT ![s] = "armed"]
          /\ pc' = IF s[1] = Obs THEN "notify" ELSE pc
          /\ UNCHANGED err
       \/ Fail("service") /\ UNCHANGED <<lis, serve, stop>>
    /\ UNCHANGED <<config, todo, current, jobs, cancelled, quit, busy>>

Notify ==
    /\ pc = "notify" /\ Goto("select")
    /\ UNCHANGED <<jobs, cancelled, quit, servers>>

\* A signal; the default action of the runtime until Notify was called.
Signal ==
    /\ pc \notin Over
    /\ \/ pc \in {"select", "wait"} /\ quit' = TRUE /\ UNCHANGED pc
       \/ pc \notin {"select", "wait"} /\ pc' = "killed" /\ UNCHANGED quit
    /\ UNCHANGED <<err, config, todo, current, jobs, cancelled, servers>>

\* An error of a job returns at once; the services stay as they are.
SelectError ==
    /\ pc = "select" /\ chJobs # <<>>
    /\ Fail("job") /\ chJobs' = Tail(chJobs)
    /\ UNCHANGED <<config, todo, current, job, failed, closed, cancelled, quit, servers>>

\* Mutant: the close of the channel is taken for its end, errors in it or not.
SelectClosedEarly ==
    /\ pc = "select" /\ closed
    /\ Goto("wait") /\ cancelled' = TRUE
    /\ UNCHANGED <<jobs, quit, servers>>

\* A closed channel yields nil once its errors are read: all jobs completed.
SelectCompleted ==
    /\ pc = "select" /\ closed /\ chJobs = <<>>
    /\ Goto("wait") /\ cancelled' = TRUE
    /\ UNCHANGED <<jobs, quit, servers>>

\* The third case, a context that is done already, never comes: nobody else
\* calls a.cancel.
SelectQuit ==
    /\ pc = "select" /\ quit
    /\ Goto("wait") /\ quit' = FALSE /\ cancelled' = TRUE
    /\ UNCHANGED <<jobs, servers>>

JobsOver == \A j \in Jobs : job[j] \in {"new", "done"}

\* wgJobs.Wait() and the Wait of every service.
Wait ==
    /\ pc = "wait" /\ JobsOver /\ wg = {} /\ Goto("returned")
    /\ UNCHANGED <<jobs, cancelled, quit, servers>>

\* RunOrExit, or the end of main: nothing survives.
Exit ==
    /\ pc = "returned" /\ Goto("exited")
    /\ UNCHANGED <<jobs, cancelled, quit, servers>>

-----------------------------------------------------------------------------
(* The jobs' goroutines and the one that closes chJobs *)
Alive == pc \notin Dead

JobReturns(j) ==
    /\ Alive /\ job[j] = "running"
    /\ \/ job' = [job EXCEPT ![j] = "ending"] /\ UNCHANGED failed
       \/ job' = [job EXCEPT ![j] = "failing"] /\ failed' = failed \cup {j}
    /\ UNCHANGED <<main, chJobs, closed, cancelled, quit, servers>>

\* A send on the closed channel would panic.
JobSends(j) ==
    /\ Alive /\ job[j] = "failing" /\ Len(chJobs) < Cardinality(config)
    /\ \/ closed /\ pc' = "panicked" /\ UNCHANGED <<job, chJobs>>
       \/ ~closed /\ chJobs' = Append(chJobs, j) /\ job' = [job EXCEPT ![j] = "ending"] /\ UNCHANGED pc
    /\ UNCHANGED <<err, config, todo, current, failed, closed, cancelled, quit, servers>>

JobDone(j) ==
    /\ Alive /\ job[j] = "ending" /\ job' = [job EXCEPT ![j] = "done"]
    /\ UNCHANGED <<main, failed, chJobs, closed, cancelled, quit, servers>>

\* Mutant: the closer waits for the first job only.
CloseFirst ==
    /\ Alive /\ config # {} /\ ~closed /\ pc \notin {"init", "jobs"}
    /\ \E j \in config : job[j] = "done"
    /\ closed' = TRUE
    /\ UNCHANGED <<main, job, failed, chJobs, cancelled, quit, servers>>

CloseJobs ==
    /\ Alive /\ config # {} /\ ~closed /\ pc \notin {"init", "jobs"}
    /\ \A j \in config : job[j] = "done"
    /\ closed' = TRUE
    /\ UNCHANGED <<main, job, failed, chJobs, cancelled, quit, servers>>

-----------------------------------------------------------------------------
(* serveHttpService and serveGrpcService *)
\* Serve starts and hands its listener to the server.  After a stop it closes the
\* listener itself; net/http returns ErrServerClosed, which is fine, and gRPC
\* ErrServerStopped, which the goroutine turns into a panic.
Serve(s) ==
    /\ Alive /\ serve[s] = "ready"
    /\ \/ /\ stop[s] = "armed"
          /\ serve' = [serve EXCEPT ![s] = "serving"] /\ UNCHANGED <<pc, lis>>
       \/ /\ stop[s] # "armed" /\ lis' = [lis EXCEPT ![s] = "closed"]
          /\ \/ s[2] = "http" /\ serve' = [serve EXCEPT ![s] = "done"] /\ UNCHANGED pc
             \/ s[2] = "grpc" /\ pc' = "panicked" /\ UNCHANGED serve
    /\ UNCHANGED <<err, config, todo, current, jobs, cancelled, quit, stop, busy, wg>>

\* Any other error of Serve is a panic too.
ServeFails(s) ==
    /\ Alive /\ serve[s] = "serving" /\ lis[s] = "open" /\ Goto("broken")
    /\ UNCHANGED <<jobs, cancelled, quit, servers>>

Connect(s) ==
    /\ Alive /\ serve[s] = "serving" /\ lis[s] = "open" /\ busy' = busy \cup {s}
    /\ UNCHANGED <<main, jobs, cancelled, quit, lis, serve, stop, wg>>

Disconnect(s) ==
    /\ Alive /\ s \in busy /\ busy' = busy \ {s}
    /\ UNCHANGED <<main, jobs, cancelled, quit, lis, serve, stop, wg>>

\* Mutant: the goroutine does not wait for the context.
ShutdownAtOnce(s) ==
    /\ Alive /\ stop[s] = "armed"
    /\ stop' = [stop EXCEPT ![s] = "grace"]
    /\ lis' = IF serve[s] = "serving" THEN [lis EXCEPT ![s] = "closed"] ELSE lis
    /\ UNCHANGED <<main, jobs, cancelled, quit, serve, busy, wg>>

\* The context is done: Shutdown or GracefulStop closes the listener, if Serve
\* has handed it over.
Shutdown(s) ==
    /\ Alive /\ stop[s] = "armed" /\ cancelled
    /\ stop' = [stop EXCEPT ![s] = "grace"]
    /\ lis' = IF serve[s] = "serving" THEN [lis EXCEPT ![s] = "closed"] ELSE lis
    /\ UNCHANGED <<main, jobs, cancelled, quit, serve, busy, wg>>

\* The shutdown is over; the goroutine of an HTTP server lowers the wait group.
Stopped(s) ==
    /\ stop' = [stop EXCEPT ![s] = "done"]
    /\ wg' = IF s[2] = "http" THEN wg \ {s} ELSE wg
    /\ UNCHANGED <<main, jobs, cancelled, quit, lis, serve>>

Graceful(s) == Alive /\ stop[s] = "grace" /\ s \notin busy /\ Stopped(s) /\ UNCHANGED busy

\* Mutant: the timeout leaves the connections of a gRPC server open.
TimeoutLeaves(s) == Alive /\ stop[s] = "grace" /\ Stopped(s) /\ UNCHANGED busy

\* Mutant: no timeout.
NoTimeout(s) == Alive /\ stop[s] = "grace" /\ FALSE /\ Stopped(s) /\ UNCHANGED busy

\* shutdownTimeout: Shutdown gives up and leaves the connections of an HTTP
\* server open, Stop closes those of a gRPC server.
Timeout(s) ==
    /\ Alive /\ stop[s] = "grace" /\ Stopped(s)
    /\ busy' = IF s[2] = "grpc" THEN busy \ {s} ELSE busy

\* Serve returns after the listener was closed; that of gRPC waits for the stop
\* to be over and then lowers the wait group.
ServeEnds(s) ==
    /\ Alive /\ serve[s] = "serving" /\ lis[s] = "closed"
    /\ \/ s[2] = "http" /\ UNCHANGED wg
       \/ s[2] = "grpc" /\ stop[s] = "done" /\ wg' = wg \ {s}
    /\ serve' = [serve EXCEPT ![s] = "done"]
    /\ UNCHANGED <<main, jobs, cancelled, quit, lis, stop, busy>>

-----------------------------------------------------------------------------
Run == \/ InitApp \/ JobsStarted \/ ServiceRuns \/ Notify \/ SelectError
       \/ SelectCompleted \/ SelectQuit \/ Wait \/ Exit
       \/ \E j \in Jobs \cup {Ghost} : StartJob(j)
       \/ \E v \in Services : RunService(v)
       \/ \E s \in Servers : StartServer(s)

Next ==
    \/ Run \/ Signal \/ CloseJobs
    \/ \E j \in Jobs : JobReturns(j) \/ JobSends(j) \/ JobDone(j)
    \/ \E s \in Servers : \/ Serve(s) \/ ServeFails(s) \/ Connect(s) \/ Disconnect(s) \/ Shutdown(s)
                          \/ Graceful(s) \/ Timeout(s) \/ ServeEnds(s)

Spec == Init /\ [][Next]_vars

\* Goroutines that can run do run and timers fire.  A job runs as long as it
\* likes, but returns once its context is done; connections may stay for ever.
Fairness ==
    /\ WF_vars(Run) /\ WF_vars(CloseJobs)
    /\ \A j \in Jobs : /\ WF_vars(cancelled /\ JobReturns(j))
                       /\ WF_vars(JobSends(j) \/ JobDone(j))
    /\ \A s \in Servers : /\ WF_vars(Serve(s) \/ ServeEnds(s))
                          /\ WF_vars(Shutdown(s) \/ Graceful(s) \/ Timeout(s))

FairSpec == Spec /\ Fairness

-----------------------------------------------------------------------------
(* Properties *)
\* The types; only a started server is waited for, served or stopped.
TypeOK ==
    /\ pc \in {"init", "jobs", "services", "notify", "select", "wait"} \cup Over
    /\ err \in {"nil", "service", "job"} /\ config \subseteq Jobs \cup {Ghost}
    /\ todo \subseteq Services /\ current \subseteq todo /\ Cardinality(current) <= 1
    /\ job \in [Jobs -> {"new", "running", "failing", "ending", "done"}]
    /\ failed \subseteq Jobs /\ chJobs \in Seq(failed) /\ {closed, cancelled, quit} \subseteq BOOLEAN
    /\ lis \in [Servers -> {"off", "open", "closed"}]
    /\ serve \in [Servers -> {"off", "ready", "serving", "done"}]
    /\ stop \in [Servers -> {"off", "armed", "grace", "done"}]
    /\ \A s \in Servers : lis[s] = "off" => serve[s] = "off" /\ stop[s] = "off"
    /\ busy \cup wg \subseteq Servers

\* chJobs is closed after the last send, and has room for every job's error: a
\* job that fails neither panics nor blocks, whatever Run does meanwhile.
JobSendSafe == TypeOK /\ \A j \in Jobs : job[j] = "failing" => ~closed /\ Len(chJobs) < Cardinality(config)

\* "All Services Stopped": when Run returns nil every job has ended, nobody
\* accepts and the gRPC servers are gone with their connections, in whatever order
\* the shutdowns, their timeouts and the Serve goroutines came.  A socket that
\* still listens is that of an HTTP server whose Serve has not run yet, which will
\* close it and never serve.
StoppedOnReturn == pc = "returned" /\ err = "nil" =>
    /\ JobsOver
    /\ \A s \in Servers : lis[s] = "open" => s[2] = "http" /\ serve[s] = "ready" /\ stop[s] = "done"
    /\ \A s \in Servers : s[2] = "grpc" => serve[s] \in {"off", "done"} /\ s \notin busy

\* "All Jobs Completed" is concluded only when no job failed: the select may
\* prefer the close of chJobs to nothing that is still in it.
ErrorNotLost == [][SelectCompleted => failed = {}]_vars

\* As long as the listeners work the process panics only while it stops, never
\* before somebody cancelled the application's context.
PanicOnlyAtStop == pc = "panicked" => cancelled

\* Run ends on a signal it listens for, and once every configured job has ended,
\* with or without an error, although connections may stay open for ever.
RunEnds ==
    (pc = "select" /\ (quit \/ (config # {} /\ \A j \in config : job[j] = "done"))) ~> pc \in Over
=============================================================================
