--------------------------- MODULE HealthReporter ---------------------------
(***************************************************************************)
(* What a health Reporter (health/runner.go, interface Reporter) promises   *)
(* to whoever reads it: the last status changes one status at a time, every *)
(* change is offered once to a report channel that holds one message, in    *)
(* the order of the changes, and an offer to a full channel is dropped.     *)
(***************************************************************************)
EXTENDS Sequences

CONSTANTS
    Statuses,        \* the statuses a cycle can end with
    InitialStatus,   \* the status before the first cycle
    None             \* no status

ASSUME ReporterAssumption == InitialStatus \in Statuses /\ None \notin Statuses

VARIABLES
    lastStatus,   \* what LastStatus returns
    reportChan,   \* the buffer of StatusReportChan, capacity 1
    pending,      \* a stored status not yet offered to the channel
    dropped       \* was the newest offer dropped?

reporterVars == <<lastStatus, reportChan, pending, dropped>>

ReporterInit ==
    /\ lastStatus = InitialStatus /\ reportChan = <<>>
    /\ pending = None /\ dropped = FALSE

Store(s) ==
    /\ pending = None /\ s # lastStatus
    /\ lastStatus' = s /\ pending' = s
    /\ UNCHANGED <<reportChan, dropped>>

Offer ==
    /\ pending # None
    /\ dropped' = (reportChan # <<>>)
    /\ reportChan' = IF reportChan = <<>> THEN <<pending>> ELSE reportChan
    /\ pending' = None
    /\ UNCHANGED lastStatus

Consume ==
    /\ reportChan # <<>>
    /\ reportChan' = Tail(reportChan)
    /\ UNCHANGED <<lastStatus, pending, dropped>>

ReporterNext == (\E s \in Statuses : Store(s)) \/ Offer \/ Consume

ReporterSpec == ReporterInit /\ [][ReporterNext]_reporterVars
=============================================================================
