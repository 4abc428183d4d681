---------------------------- MODULE HealthServer ----------------------------
(***************************************************************************)
(* health/service.go: the gRPC health server over a Reporter.  One          *)
(* goroutine (broadcastStatus) passes each report on to the channel of      *)
(* every Watch call; newStatusChan and removeStatusChan change the list of  *)
(* channels.  Those two never block while they hold statusReportLock, so    *)
(* each is one step; broadcastStatus does, so it holds the lock over        *)
(* several steps: exactly while its pc is "send".                           *)
(***************************************************************************)
EXTENDS HealthReporter, Integers

CONSTANTS
    Watchers,      \* clients; each has at most one Watch call at a time
    Recovery       \* is the recovery middleware installed?

ASSUME ServerAssumption == Recovery \in BOOLEAN

VARIABLES
    statusChans,   \* the list of channels, each named by its watcher
    chan,          \* per watcher: "none", "open" or "closed"
    buf,           \* the message buffered in the channel, at most one
    wpc,           \* where each Watch call is
    resp,          \* the status each Watch call is sending
    seen,          \* the status last sent to the client
    bpc,           \* broadcastStatus: "recv", "lock" or "send"
    bstatus,       \* its local status
    left,          \* the channels its inner loop has yet to serve
    answer,        \* the last answer of the rpc Check
    crashed        \* a panic ended the process

watchVars == <<statusChans, chan, buf, wpc, resp, seen>>
castVars == <<bpc, bstatus, left>>
vars == <<reporterVars, watchVars, castVars, answer, crashed>>

Unlocked == bpc # "send"

Init ==
    /\ ReporterInit
    /\ statusChans = <<>>
    /\ chan = [w \in Watchers |-> "none"]
    /\ buf = [w \in Watchers |-> <<>>]
    /\ wpc = [w \in Watchers |-> "out"]
    /\ resp = [w \in Watchers |-> None]
    /\ seen = [w \in Watchers |-> None]
    /\ bpc = "recv" /\ bstatus = None /\ left = <<>>
    /\ answer = None /\ crashed = FALSE

-----------------------------------------------------------------------------
fillProtoStatus(s) == CASE s = "Healthy" -> "SERVING"
                        [] s = "Unhealthy" -> "NOT_SERVING"
                        [] OTHER -> "SERVICE_UNKNOWN"

Check ==
    /\ answer' = fillProtoStatus(lastStatus)
    /\ UNCHANGED <<reporterVars, watchVars, castVars, crashed>>

\* Mutant: the current status is not sent to a new watcher.
newStatusChanSilent(w) ==
    /\ wpc[w] = "out" /\ Unlocked
    /\ statusChans' = Append(statusChans, w)
    /\ chan' = [chan EXCEPT ![w] = "open"]
    /\ buf' = [buf EXCEPT ![w] = <<>>]
    /\ wpc' = [wpc EXCEPT ![w] = "recv"]
    /\ UNCHANGED <<reporterVars, castVars, resp, seen, answer, crashed>>

\* Watch begins.
newStatusChan(w) ==
    /\ wpc[w] = "out" /\ Unlocked
    /\ statusChans' = Append(statusChans, w)
    /\ chan' = [chan EXCEPT ![w] = "open"]
    /\ buf' = [buf EXCEPT ![w] = <<lastStatus>>]
    /\ wpc' = [wpc EXCEPT ![w] = "recv"]
    /\ UNCHANGED <<reporterVars, castVars, resp, seen, answer, crashed>>

Receive(w) ==
    /\ wpc[w] = "recv" /\ buf[w] # <<>>
    /\ resp' = [resp EXCEPT ![w] = Head(buf[w])]
    /\ buf' = [buf EXCEPT ![w] = Tail(@)]
    /\ wpc' = [wpc EXCEPT ![w] = "send"]
    /\ UNCHANGED <<reporterVars, castVars, statusChans, chan, seen, answer, crashed>>

\* stream.Send; an error (the client has gone) ends the call, which runs the deferred removeStatusChan.
Send(w) ==
    /\ wpc[w] = "send"
    /\ \/ /\ seen' = [seen EXCEPT ![w] = resp[w]]
          /\ wpc' = [wpc EXCEPT ![w] = "recv"]
       \/ /\ wpc' = [wpc EXCEPT ![w] = "remove"]
          /\ UNCHANGED seen
    /\ resp' = [resp EXCEPT ![w] = None]
    /\ UNCHANGED <<reporterVars, castVars, statusChans, chan, buf, answer, crashed>>

Without(l, i) == SubSeq(l, 1, i - 1) \o SubSeq(l, i + 1, Len(l))

\* Mutant: the element after the one found is cut out.
RemovedNext(l, w) ==
    IF \E i \in 1..Len(l) : l[i] = w
    THEN LET i == CHOOSE i \in 1..Len(l) : l[i] = w
         IN  Without(l, IF i = Len(l) THEN i ELSE i + 1)
    ELSE l

Removed(l, w) ==
    IF \E i \in 1..Len(l) : l[i] = w
    THEN Without(l, CHOOSE i \in 1..Len(l) : l[i] = w)
    ELSE l

\* The loop's bound is the length before the removal: unless the channel found
\* is the last one, the loop goes on to an index that is out of range.
Overruns(l, w) == \E i \in 1..(Len(l) - 1) : l[i] = w

\* A panic skips close(ch); the deferred unlock still runs.
removeStatusChan(w) ==
    /\ wpc[w] = "remove" /\ Unlocked
    /\ statusChans' = Removed(statusChans, w)
    /\ chan' = [chan EXCEPT ![w] = IF Overruns(statusChans, w) THEN "open" ELSE "closed"]
    /\ crashed' = (Overruns(statusChans, w) /\ ~Recovery)
    /\ buf' = [buf EXCEPT ![w] = <<>>]
    /\ seen' = [seen EXCEPT ![w] = None]
    /\ wpc' = [wpc EXCEPT ![w] = "out"]
    /\ UNCHANGED <<reporterVars, castVars, resp, answer>>

-----------------------------------------------------------------------------
(* broadcastStatus *)
CastReceive ==
    /\ bpc = "recv" /\ Consume
    /\ bstatus' = Head(reportChan)
    /\ bpc' = "lock"
    /\ UNCHANGED <<watchVars, left, answer, crashed>>

CastLock ==
    /\ bpc = "lock"
    /\ left' = statusChans
    /\ bpc' = "send"
    /\ UNCHANGED <<reporterVars, watchVars, bstatus, answer, crashed>>

\* Mutant: a send with a default case.
CastSendDrops ==
    /\ bpc = "send" /\ left # <<>>
    /\ LET w == Head(left) IN
        buf' = [buf EXCEPT ![w] = IF @ = <<>> THEN <<bstatus>> ELSE @]
    /\ left' = Tail(left)
    /\ UNCHANGED <<reporterVars, statusChans, chan, wpc, resp, seen, bpc, bstatus, answer, crashed>>

\* "ch <- status" blocks while the channel is full.
CastSend ==
    /\ bpc = "send" /\ left # <<>>
    /\ LET w == Head(left) IN /\ buf[w] = <<>>
                              /\ buf' = [buf EXCEPT ![w] = <<bstatus>>]
    /\ left' = Tail(left)
    /\ UNCHANGED <<reporterVars, statusChans, chan, wpc, resp, seen, bpc, bstatus, answer, crashed>>

CastUnlock ==
    /\ bpc = "send" /\ left = <<>>
    /\ bpc' = "recv" /\ bstatus' = None
    /\ UNCHANGED <<reporterVars, watchVars, left, answer, crashed>>

Broadcast == CastReceive \/ CastLock \/ CastSend \/ CastUnlock

\* The runner behind the reporter, which does not wait for anybody.
Runner == /\ (\E s \in Statuses : Store(s)) \/ Offer
          /\ UNCHANGED <<watchVars, castVars, answer, crashed>>

Watch(w) == newStatusChan(w) \/ Receive(w) \/ Send(w) \/ removeStatusChan(w)

Next == ~crashed /\ (Check \/ Runner \/ Broadcast \/ \E w \in Watchers : Watch(w))

Spec == Init /\ [][Next]_vars

\* Goroutines run, a Send completes one way or the other, and sync.Mutex does
\* not starve a waiter (its starvation mode).
Fairness ==
    /\ WF_vars(~crashed /\ Offer /\ UNCHANGED <<watchVars, castVars, answer, crashed>>)
    /\ WF_vars(~crashed /\ Broadcast)
    /\ \A w \in Watchers :
        /\ WF_vars(~crashed /\ (Receive(w) \/ Send(w)))
        /\ SF_vars(~crashed /\ removeStatusChan(w))

FairSpec == Spec /\ Fairness

-----------------------------------------------------------------------------
(* Properties *)
Watching == {"recv", "send", "remove"}

\* The types of the server's fields and of the handlers' locals; every channel
\* holds at most one status.
TypeOK ==
    /\ lastStatus \in Statuses /\ pending \in Statuses \cup {None}
    /\ reportChan \in Seq(Statuses) /\ Len(reportChan) <= 1 /\ dropped \in BOOLEAN
    /\ statusChans \in Seq(Watchers) /\ left \in Seq(Watchers)
    /\ chan \in [Watchers -> {"none", "open", "closed"}]
    /\ buf \in [Watchers -> Seq(Statuses)] /\ \A w \in Watchers : Len(buf[w]) <= 1
    /\ wpc \in [Watchers -> Watching \cup {"out"}]
    /\ resp \in [Watchers -> Statuses \cup {None}]
    /\ seen \in [Watchers -> Statuses \cup {None}]
    /\ bpc \in {"recv", "lock", "send"} /\ bstatus \in Statuses \cup {None}
    /\ answer \in {None, "SERVING", "NOT_SERVING", "SERVICE_UNKNOWN"}
    /\ crashed \in BOOLEAN

\* The list holds the channel of every Watch call under way, once, and of no
\* other, also after a removal that panicked: broadcastStatus never sends on a
\* closed channel, which would panic with the lock held.
ListExact ==
    /\ TypeOK
    /\ \A w \in Watchers : (wpc[w] \in Watching) = (\E i \in 1..Len(statusChans) : statusChans[i] = w)
    /\ \A i, j \in 1..Len(statusChans) : statusChans[i] = statusChans[j] => i = j
    /\ bpc = "send" => \A i \in 1..Len(left) : chan[left[i]] = "open"

\* Once a change was reported without a drop and everything in flight has been
\* delivered, every client that is still served has last been sent the
\* reporter's status, however its registration raced with the broadcast.
WatchersAgree ==
    pending = None /\ ~dropped /\ reportChan = <<>> /\ bpc = "recv" =>
        \A w \in Watchers : wpc[w] = "recv" /\ buf[w] = <<>> => seen[w] = lastStatus

\* A report does not stay in the report channel, where it makes the runner drop
\* the reports after it ("should be consumed immediately").
ReportsConsumed == reportChan # <<>> ~> reportChan = <<>>

\* A client that watches is sent a status whose report was not dropped, unless
\* the status changes first or a client is leaving, whose removal may wait for the
\* broadcaster that waits for it; a departure that is over does not hinder it.
WatchersCatchUp == \A w \in Watchers : \A s \in Statuses :
    (wpc[w] \in Watching /\ lastStatus = s /\ pending = None /\ ~dropped)
        ~> (seen[w] = s \/ lastStatus # s \/ \E v \in Watchers : wpc[v] = "remove")
=============================================================================
