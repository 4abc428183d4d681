---------------------------- MODULE ErrorStatus ----------------------------
(***************************************************************************)
(* errors/error.go: errors that wrap each other, with the gRPC status each  *)
(* of them caches.  An error is known by the order of its creation, which   *)
(* also stands for its message; a cause is created before its wrapper.      *)
(***************************************************************************)
EXTENDS Integers, Sequences, FiniteSetsExt

CONSTANTS
    MaxErrors,      \* bound on the errors of a chain
    Codes,          \* the codes WithCode is called with
    Details,        \* values With gives to the one field that is modelled
    OddDetails,     \* those of them that structpb cannot represent
    None            \* no status, no detail

InvalidCode == -1
OK == 0
Unknown == 2

VARIABLES
    err,            \* the errors: code, detail, cause, cached grpcStatus
    grpcDebugMode

errorVars == <<err, grpcDebugMode>>

\* What is wrapped besides errors of this package: nothing, an error without a
\* gRPC status, and one that has a status (the error of a gRPC client).
NoCause == 0
Plain == -1
Remote == -2
Foreign == {NoCause, Plain, Remote}
RemoteStatus == [code |-> 14, message |-> 0, details |-> <<>>]

ErrorInit == err = <<>> /\ grpcDebugMode = FALSE

-----------------------------------------------------------------------------
\* The error i and its causes of this package, outermost first.
Causes[i \in DOMAIN err] ==
    <<i>> \o IF err[i].cause \in Foreign THEN <<>> ELSE Causes[err[i].cause]

Root(i) == err[Causes[i][Len(Causes[i])]].cause

\* structpb.NewStruct fails as a whole on a value it cannot represent.
NewStruct(detail) == IF detail \in OddDetails THEN None ELSE detail

Entry(i) == [error |-> i, detail |-> NewStruct(err[i].detail)]

\* One entry for the error; in debug mode one for each cause too.
detailProto(i) ==
    IF ~grpcDebugMode THEN <<Entry(i)>>
    ELSE LET chain == Causes[i] IN
         [k \in DOMAIN chain |-> Entry(chain[k])]
           \o IF Root(i) = NoCause THEN <<>> ELSE <<[error |-> 0, detail |-> None]>>

\* status.New and WithDetails, which refuses details for the code OK.
NewStatus(i, code) ==
    [code |-> code, message |-> i, details |-> IF code = OK THEN <<>> ELSE detailProto(i)]

\* The call passes to the cause while there is no cached status and no code.
Stops(i) == err[i].grpcStatus # None \/ err[i].code # InvalidCode \/ err[i].cause \in Foreign

\* Mutant: an error without a code does not ask its cause.
ProviderItself(chain) == 1

\* The place in the chain where the status comes from.
Provider(chain) == Min({k \in DOMAIN chain : Stops(chain[k])})

Provided(i) ==
    LET e == err[i] IN
    IF e.grpcStatus # None THEN e.grpcStatus
    ELSE IF e.code # InvalidCode THEN NewStatus(i, e.code)
    ELSE IF e.cause = Remote THEN RemoteStatus
    ELSE NewStatus(i, Unknown)

\* Every error the call passes through caches the result.
GRPCStatus(i) ==
    LET chain == Causes[i] p == Provider(chain) status == Provided(chain[p]) IN
    /\ err' = [j \in DOMAIN err |->
                 IF \E k \in 1..p : chain[k] = j THEN [err[j] EXCEPT !.grpcStatus = status] ELSE err[j]]
    /\ UNCHANGED grpcDebugMode

Wrap(cause) ==
    /\ Len(err) < MaxErrors
    /\ err' = Append(err, [code |-> InvalidCode, detail |-> None, cause |-> cause, grpcStatus |-> None])
    /\ UNCHANGED grpcDebugMode

New == Wrap(NoCause)

WithCode(i, code) ==
    /\ err' = [err EXCEPT ![i].code = code, ![i].grpcStatus = None]
    /\ UNCHANGED grpcDebugMode

\* Mutant: the cached status is not reset.
WithKeeps(i, value) ==
    /\ err' = [err EXCEPT ![i].detail = value]
    /\ UNCHANGED grpcDebugMode

With(i, value) ==
    /\ err' = [err EXCEPT ![i].detail = value, ![i].grpcStatus = None]
    /\ UNCHANGED grpcDebugMode

SetGRPCDebugMode(enable) == grpcDebugMode' = enable /\ UNCHANGED err

\* Errors without a common cause share nothing: the first one is the only root.
ErrorNext ==
    \/ err = <<>> /\ New
    \/ \E c \in IF err = <<>> THEN Foreign \ {NoCause} ELSE DOMAIN err : Wrap(c)
    \/ \E i \in DOMAIN err : \/ GRPCStatus(i)
                             \/ \E c \in Codes : WithCode(i, c)
                             \/ \E d \in Details : With(i, d)
    \/ \E b \in BOOLEAN : SetGRPCDebugMode(b)

ErrorSpec == ErrorInit /\ [][ErrorNext]_errorVars

-----------------------------------------------------------------------------
(* Properties *)
\* The cache is coherent where the comment of GRPCStatus (and docs/errors.md:39)
\* deny it ("new changes will not be reflected in new calls"): an error with a code
\* of its own answers with that code, its own message and its present detail,
\* whatever was changed or asked before.
StatusFresh == \A i \in DOMAIN err :
    LET s == err[i].grpcStatus IN
    s # None /\ err[i].code # InvalidCode =>
        /\ s.code = err[i].code /\ s.message = i
        /\ s.code # OK => s.details[1] = Entry(i)

NearestCode(i) ==
    LET chain == Causes[i] coded == {k \in DOMAIN chain : err[chain[k]].code # InvalidCode} IN
    IF coded # {} THEN err[chain[Min(coded)]].code
    ELSE IF Root(i) = Remote THEN RemoteStatus.code ELSE Unknown

\* "Try to call GRPCStatus from upper layer errors if code was not set": a status
\* that is made anew has the outermost code that is set, that of the foreign error
\* at the root, or Unknown.  Nothing but an error in front of that code, without
\* one itself, may answer instead, from a cache that may be older than the code.
InheritsNearest == [][\A i \in DOMAIN err :
    err[i].grpcStatus = None /\ err'[i].grpcStatus # None =>
        \/ err'[i].grpcStatus.code = NearestCode(i)
        \/ \E k \in DOMAIN Causes[i] :
             /\ err[Causes[i][k]].grpcStatus = err'[i].grpcStatus
             /\ \A l \in 1..k : err[Causes[i][l]].code = InvalidCode]_errorVars
=============================================================================
