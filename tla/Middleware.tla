----------------------------- MODULE Middleware -----------------------------
(***************************************************************************)
(* appmgr/middleware.go with the interceptors of grpcex: how a configured   *)
(* list of middlewares becomes the chains of a service, and what happens to *)
(* a request on its way through them.  A request passes the frames of its   *)
(* path downwards to the handler, then its answer, or a panic, passes them  *)
(* upwards.  An HTTP request that no Gin route takes goes on as a gRPC      *)
(* request in the process itself, in a goroutine of its own ("gateway").    *)
(***************************************************************************)
EXTENDS Integers, Sequences, FiniteSets

CONSTANTS
    Configs,    \* the lists of middlewares a configuration may hold
    Policy      \* the subjects the access policy allows

ASSUME MiddlewareAssumption == Configs \subseteq Seq(STRING)

\* Which handlers a middleware has: for Gin, for unary and for stream calls, for
\* the unary calls of a client.
contextTags == {"unary", "stream"}
serviceContext == {"gin", "unary", "stream"}
contextLogger == {"gin", "unary", "stream"}
logRequest == {"gin", "unary", "stream"}
metrics == {"gin", "unary", "stream", "client"}
openTracing == {}

\* Mutant: no interceptor for streams.
recoveryUnaryOnly == {"gin", "unary"}

recovery == {"gin", "unary", "stream"}
requestValidation == {"unary", "stream", "client"}
cors == {"gin"}
compress == {"gin"}
accessControl == {"unary", "stream"}

Slots == [context_tags |-> contextTags, service_context |-> serviceContext,
          context_logger |-> contextLogger, log_request |-> logRequest,
          metrics |-> metrics, open_tracing |-> openTracing, recovery |-> recovery,
          request_validation |-> requestValidation, cors |-> cors,
          compress |-> compress, access_control |-> accessControl,
          access_control_without_policy |-> accessControl]

\* The names a configuration may use: those of the two that Apply adds are not.
Registered == DOMAIN Slots \ {"context_tags", "service_context"}

VARIABLES
    mcs,        \* the middlewares of the applier
    applied,    \* "no", "ready", "exited" or "panicked"
    owned,      \* is the applier that of a service (and not of the clients)?
    wanted,     \* its configuration
    rq          \* the request

middlewareVars == <<mcs, applied, owned, wanted, rq>>

NoRequest == [kind |-> "none"]

MiddlewareInit ==
    /\ mcs = <<>> /\ applied = "no" /\ rq = NoRequest
    /\ owned \in BOOLEAN /\ wanted \in Configs

-----------------------------------------------------------------------------
(* Apply *)
\* GetMiddleware: an entry of an unknown type, without a name or with an unknown
\* one is an error.
Known(entry) == entry \in Registered

\* The members of s that are in T, in order (SelectSeq, as a recursive function).
Kept(s, T) ==
    LET kept[n \in 0..Len(s)] ==
            IF n = 0 THEN <<>>
            ELSE IF s[n] \in T THEN Append(kept[n - 1], s[n]) ELSE kept[n - 1]
    IN kept[Len(s)]

\* AddMiddlewareByConfig for each entry: one with an error is logged and skipped.
AddMiddlewares(configs) == Kept(configs, Registered)

\* Without a service the log of an error dereferences nil.  A gRPC server whose
\* access control has no policy does not start.
Apply ==
    /\ applied = "no"
    /\ \/ ~owned /\ (\E i \in DOMAIN wanted : ~Known(wanted[i]))
          /\ applied' = "panicked" /\ UNCHANGED mcs
       \/ /\ owned \/ \A i \in DOMAIN wanted : Known(wanted[i])
          /\ IF owned /\ \E i \in DOMAIN wanted : wanted[i] = "access_control_without_policy"
             THEN applied' = "exited" /\ UNCHANGED mcs
             ELSE /\ applied' = "ready"
                  /\ mcs' = <<"context_tags">>
                            \o (IF owned THEN <<"service_context">> ELSE <<>>)
                            \o AddMiddlewares(wanted)
    /\ UNCHANGED <<owned, wanted, rq>>

IsMiddlewareEnabled(name) == \E i \in DOMAIN mcs : mcs[i] = name

\* ApplyGin, GrpcServerInterceptor, GrpcClientInterceptor: the handlers that are
\* not nil, in order.
Chain(slot) == Kept(mcs, {m \in DOMAIN Slots : slot \in Slots[m]})

-----------------------------------------------------------------------------
(* AccessController *)
Subjects(peer) == CASE peer.auth = "inproc" -> {"<anonymous>"}
                    [] peer.auth = "tls" -> peer.names
                    [] OTHER -> {}

\* Mutant: what is neither in the process nor TLS is let through.
checkAccessOpen(peer, exempt) ==
    IF exempt \/ peer.auth = "other" \/ Subjects(peer) \cap Policy # {} THEN "OK"
    ELSE IF peer.auth = "nil" THEN "panic" ELSE "Unauthenticated"

\* Reflection, channelz and health calls are exempt.  Without TLS the server
\* leaves AuthInfo nil, and its AuthType() panics.
checkAccess(peer, exempt) ==
    IF exempt THEN "OK"
    ELSE IF peer.auth = "nil" THEN "panic"
    ELSE IF Subjects(peer) \cap Policy # {} THEN "OK" ELSE "Unauthenticated"

-----------------------------------------------------------------------------
(* A request *)
Peers == {[auth |-> a, names |-> {}] : a \in {"none", "nil", "other", "tls"}}
         \cup {[auth |-> "tls", names |-> {n}] : n \in {"friend", "stranger"}}

\* newService: Gin routes, the gRPC server, and the mux behind NoRoute; a call of
\* a gRPC client passes the interceptors of the clients.
Path(kind) == IF kind = "gateway" THEN Chain("gin") \o <<"gateway">> \o Chain("unary")
              ELSE Chain(kind)

Arrive(kind, peer, exempt, valid) ==
    /\ applied = "ready" /\ owned = (kind # "client") /\ rq = NoRequest
    /\ rq' = [kind |-> kind, exempt |-> exempt, valid |-> valid,
              peer |-> IF kind = "gateway" THEN [auth |-> "inproc", names |-> {}] ELSE peer,
              path |-> Path(kind), pos |-> 1, dir |-> "down", code |-> "OK",
              deep |-> 0, starts |-> <<>>, logs |-> <<>>, received |-> FALSE, by |-> "none"]
    /\ UNCHANGED <<mcs, applied, owned, wanted>>

\* What a frame does before it calls the next one.
Verdict(frame) ==
    CASE frame = "access_control" -> checkAccess(rq.peer, rq.exempt)
      [] frame = "request_validation" /\ rq.kind # "stream" /\ ~rq.valid -> "InvalidArgument"
      [] OTHER -> "OK"

Going(dir) == rq # NoRequest /\ rq.dir = dir
Here == rq.path[rq.pos]
Rest == UNCHANGED <<mcs, applied, owned, wanted>>

\* For a stream log_request begins with a line.
Started == IF Here = "log_request" /\ rq.kind = "stream" THEN Append(rq.starts, rq.pos) ELSE rq.starts

Descend ==
    /\ Going("down") /\ rq.pos <= Len(rq.path)
    /\ LET v == Verdict(Here) IN
       rq' = CASE v = "OK" -> [rq EXCEPT !.pos = @ + 1, !.deep = rq.pos, !.starts = Started]
               [] v = "panic" -> [rq EXCEPT !.pos = @ - 1, !.dir = "panic", !.by = Here]
               [] OTHER -> [rq EXCEPT !.pos = @ - 1, !.dir = "up", !.code = v]
    /\ Rest

\* RecvMsg of a validated stream: the handler gets the error, not the message.
Refused == /\ rq.kind = "stream" /\ ~rq.valid
           /\ \E i \in DOMAIN rq.path : rq.path[i] = "request_validation"

Handle ==
    /\ Going("down") /\ rq.pos = Len(rq.path) + 1
    /\ \E v \in {"OK", "Unknown"} \cup (IF rq.kind = "client" THEN {} ELSE {"panic"}) :
         rq' = [rq EXCEPT !.pos = @ - 1, !.received = ~Refused,
                          !.dir = IF v = "panic" THEN "panic" ELSE "up",
                          !.by = IF v = "panic" THEN "handler" ELSE @,
                          !.code = IF v = "panic" THEN @ ELSE IF Refused THEN "InvalidArgument" ELSE v]
    /\ Rest

\* log_request writes a line when the call below it has returned, or panicked.
Logged == IF Here = "log_request" THEN Append(rq.logs, rq.pos) ELSE rq.logs

Return ==
    /\ Going("up") /\ rq.pos > 0
    /\ rq' = [rq EXCEPT !.pos = @ - 1, !.logs = Logged]
    /\ Rest

\* Mutant: the line is written by the call that returns only.
UnwindSilent ==
    /\ Going("panic") /\ rq.pos > 0 /\ Here # "gateway"
    /\ rq' = [rq EXCEPT !.pos = @ - 1,
                        !.dir = IF Here = "recovery" THEN "up" ELSE "panic",
                        !.code = IF Here = "recovery" THEN "Internal" ELSE @]
    /\ Rest

\* A panic: log_request logs it and raises it again, recovery turns it into an
\* error.
Unwind ==
    /\ Going("panic") /\ rq.pos > 0 /\ Here # "gateway"
    /\ rq' = [rq EXCEPT !.pos = @ - 1, !.logs = Logged,
                        !.dir = IF Here = "recovery" THEN "up" ELSE "panic",
                        !.code = IF Here = "recovery" THEN "Internal" ELSE @]
    /\ Rest

\* The top of a goroutine: net/http recovers its own, the others end the process.
Answer ==
    /\ \/ Going("up") /\ rq.pos = 0 /\ rq' = [rq EXCEPT !.dir = "done"]
       \/ /\ Going("panic") /\ rq.pos = 0
          /\ rq' = [rq EXCEPT !.dir = IF rq.kind \in {"gin", "gateway"} THEN "aborted" ELSE "crashed"]
       \/ /\ Going("panic") /\ rq.pos > 0
          /\ Here = "gateway" /\ rq' = [rq EXCEPT !.dir = "crashed"]
    /\ Rest

MiddlewareNext ==
    \/ Apply \/ Descend \/ Handle \/ Return \/ Unwind \/ Answer
    \/ \E kind \in {"gin", "unary", "stream", "gateway", "client"}, peer \in Peers, exempt, valid \in BOOLEAN :
          Arrive(kind, peer, exempt, valid)

MiddlewareSpec == MiddlewareInit /\ [][MiddlewareNext]_middlewareVars

-----------------------------------------------------------------------------
(* Properties *)
\* Access control and validation guard the handler wherever they stand in the
\* configuration, for unary calls, for streams (whose messages arrive later) and
\* for HTTP requests that are passed on to gRPC; a client sends valid messages.
HandlerGuarded == rq # NoRequest /\ rq.kind # "gin" =>
    (rq.received =>
        /\ IsMiddlewareEnabled("access_control") /\ owned => rq.exempt \/ Subjects(rq.peer) \cap Policy # {}
        /\ IsMiddlewareEnabled("request_validation") => rq.valid)

Count(lines, i) == Cardinality({n \in DOMAIN lines : lines[n] = i})

\* "handles the panic case and still write the error log": whatever became of the
\* request, every log_request it came through has closed it with exactly one line,
\* and for a stream opened it with one, except those above the gateway when a
\* panic behind it ends the process at once.
LoggedOnce == rq # NoRequest /\ rq.dir \in {"done", "aborted", "crashed"} =>
    \A i \in DOMAIN rq.path : rq.path[i] = "log_request" =>
        /\ Count(rq.logs, i) = (IF rq.pos < i /\ i <= rq.deep THEN 1 ELSE 0)
        /\ Count(rq.starts, i) = (IF rq.kind = "stream" /\ i <= rq.deep THEN 1 ELSE 0)
        /\ rq.pos > 0 => rq.dir = "crashed" /\ rq.kind = "gateway" /\ rq.path[rq.pos] = "gateway"

Exposed(name) == \E i \in DOMAIN mcs : mcs[i] = name /\ \A k \in 1..(i - 1) : mcs[k] # "recovery"

\* A panic is never answered with success, and where recovery is configured
\* before what panics it does not end the process, in a unary call, a stream or
\* a request from the gateway.
PanicContained == rq # NoRequest /\ rq.by # "none" =>
    /\ rq.dir = "done" => rq.code = "Internal"
    /\ rq.dir = "crashed" => IF rq.by = "handler" THEN ~IsMiddlewareEnabled("recovery")
                             ELSE Exposed(rq.by)
=============================================================================
