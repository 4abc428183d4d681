----------------------------- MODULE MCLibrary -----------------------------
(***************************************************************************)
(* The packages a service is built from, checked together.  They share no   *)
(* state, so a behaviour exercises one of them: that named by part.         *)
(***************************************************************************)
EXTENDS Middleware, Codec, ErrorStatus, CacheClient, HttpClient

CONSTANTS k1, k2

VARIABLE part

Names == {"access_control", "request_validation", "recovery", "log_request", "cors",
          "unknown", "access_control_without_policy"}
MCConfigs == UNION {[1..n -> Names] : n \in 0..3}

MCRequests == {r \in RequestType : r.data \notin Formable => r.value = "scalar"}

One(op, v, t) == [op |-> op, arg |-> (k1 :> v), ttl |-> t]
Two(op, v, w) == [op |-> op, arg |-> (k1 :> v @@ k2 :> w), ttl |-> "none"]
MCCommands ==
    {One("Add", <<"int", -2>>, "some"), One("IncrBy", <<"int", 1>>, "none"),
     One("Set", <<"uint", 7>>, "none"), One("Set", <<"int8", -3>>, "none"), One("Set", <<"chan", 0>>, "none"),
     One("Update", <<"struct", 1>>, "keep"), One("Delete", <<>>, "none"), One("Exists", <<>>, "none"),
     One("Expire", <<>>, "keep"), One("Expire", <<>>, "some"),
     One("Get", "uint", "none"), One("Get", "string", "none"), One("Get", "int8", "none"),
     Two("MSet", <<"int", 0>>, <<"int", 1>>), Two("MGet", "int", "int"), Two("MGet", "struct", "nil")}

\* The packages that are not exercised rest in one of their initial states.
Init ==
    /\ part \in {"middleware", "codec", "errors", "cache", "http"}
    /\ (IF part = "middleware" THEN TRUE ELSE owned = TRUE /\ wanted = <<>>) /\ MiddlewareInit
    /\ (IF part = "http" THEN TRUE
        ELSE request = (CHOOSE r \in MCRequests : TRUE) /\ answer = "down") /\ HttpInit
    /\ CodecInit /\ ErrorInit /\ CacheInit

Next ==
    /\ UNCHANGED part
    /\ \/ part = "middleware" /\ MiddlewareNext /\ UNCHANGED <<codecVars, errorVars, cacheVars, httpVars>>
       \/ part = "codec" /\ CodecNext /\ UNCHANGED <<middlewareVars, errorVars, cacheVars, httpVars>>
       \/ part = "errors" /\ ErrorNext /\ UNCHANGED <<middlewareVars, codecVars, cacheVars, httpVars>>
       \/ part = "cache" /\ CacheNext /\ UNCHANGED <<middlewareVars, codecVars, errorVars, httpVars>>
       \/ part = "http" /\ HttpNext /\ UNCHANGED <<middlewareVars, codecVars, errorVars, cacheVars>>

vars == <<part, middlewareVars, codecVars, errorVars, cacheVars, httpVars>>
Spec == Init /\ [][Next]_vars
=============================================================================
