---------------------------- MODULE CacheClient ----------------------------
(***************************************************************************)
(* client/cache: the operations of redisClient and the serialisation of     *)
(* values.  Redis executes one command at a time (external); a request or   *)
(* its reply may get lost, and go-redis then sends the command again, up to *)
(* the MaxRetries the client is created with.                               *)
(***************************************************************************)
EXTENDS Integers, Sequences, FiniteSets, SequencesExt

CONSTANTS
    Callers, CacheKeys,
    MaxRetries,     \* redis.Options.MaxRetries
    Wide, Narrow,   \* an int64 is in -Wide .. Wide - 1, an int8 in -Narrow .. Narrow - 1
    Commands        \* the calls to make

\* A value is a pair of its type and a number that stands for its content.
Int64 == (-Wide) .. (Wide - 1)
Int8 == (-Narrow) .. (Narrow - 1)
TypedValues == ({"int"} \X Int64) \cup ({"int8"} \X Int8) \cup ({"uint"} \X (0 .. (2 * Wide - 1)))
               \cup ({"string", "struct", "chan"} \X Nat)
Writing == {"Add", "Update", "Set", "MSet"}
Operations == Writing \cup {"Delete", "Exists", "Expire", "IncrBy", "Get", "MGet"}

\* Get and IncrBy are about one key.
ASSUME CommandAssumption ==
    /\ Wide \in Nat /\ Narrow \in 1 .. Wide
    /\ \A c \in Commands :
         /\ c.op \in Operations
         /\ DOMAIN c.arg \subseteq CacheKeys /\ IsFiniteSet(DOMAIN c.arg)
         /\ c.op \in Writing => c.arg \in [DOMAIN c.arg -> TypedValues]
         /\ c.op \in {"Get", "IncrBy"} => \E k \in CacheKeys : DOMAIN c.arg = {k}
         /\ c.op = "IncrBy" => \A k \in DOMAIN c.arg : c.arg[k] \in {"int"} \X Int64

VARIABLES
    store,          \* key -> Absent or the stored bytes, with their origin
    calls,          \* per caller
    added           \* key -> how many were told that they added it, since it was absent

cacheVars == <<store, calls, added>>

Absent == [bytes |-> <<"absent">>, from |-> <<"none", 0>>, ttl |-> FALSE]

-----------------------------------------------------------------------------
(* Serialize and Deserialize *)
\* SetInt keeps the low bits.
Signed(n, half) == ((n + half) % (2 * half)) - half

Fails == <<"error">>

\* Integers in decimal, strings as they are, the rest with gob.
Serialize(v) ==
    CASE v[1] \in {"int", "int8", "uint"} -> <<"decimal", v[2]>>
      [] v[1] = "string" -> <<"text", v[2]>>
      [] v[1] = "struct" -> <<"gob", v[2]>>
      [] v[1] = "chan" -> Fails

\* The type of the pointer decides.  All integers are parsed with 64 bits, and
\* SetInt cuts the number to the width of the variable without an error.  gob
\* reads a message into a nil pointer by skipping it.
Deserialize(b, type) ==
    CASE type = "int" /\ b[1] = "decimal" -> IF b[2] \in Int64 THEN <<"int", b[2]>> ELSE Fails
      [] type = "int8" /\ b[1] = "decimal" -> IF b[2] \in Int64 THEN <<"int8", Signed(b[2], Narrow)>> ELSE Fails
      [] type = "uint" /\ b[1] = "decimal" -> IF b[2] >= 0 THEN <<"uint", b[2]>> ELSE Fails
      [] type = "string" -> <<"string", b[2]>>
      [] type = "struct" /\ b[1] = "gob" -> <<"struct", b[2]>>
      [] type = "nil" /\ b[1] = "gob" -> <<"nil">>
      [] OTHER -> Fails

-----------------------------------------------------------------------------
\* A call: for each of its keys the value to write or the type to read it as, and
\* the expiration: "none" (0), "some" time, or "keep" (KeepExpiration).
Waiting == [at |-> "out", cmd |-> <<>>, order |-> <<>>, attempt |-> 0, result |-> <<>>]

CacheInit ==
    /\ store = [k \in CacheKeys |-> Absent]
    /\ calls = [p \in Callers |-> Waiting]
    /\ added = [k \in CacheKeys |-> 0]

\* What a command makes of the keys, and its reply.
Yes == <<"done", TRUE>>
No == <<"done", FALSE>>
Reply(s, r) == [store |-> s, reply |-> r]
Held(arg) == {k \in DOMAIN arg : store[k] # Absent}
Without(keys) == [k \in CacheKeys |-> IF k \in keys THEN Absent ELSE store[k]]
Write(arg, ttl) == [k \in CacheKeys |->
    IF k \notin DOMAIN arg THEN store[k]
    ELSE [bytes |-> Serialize(arg[k]), from |-> arg[k],
          ttl |-> IF ttl = "keep" THEN store[k].ttl ELSE ttl = "some"]]

Set(arg, ttl) == Reply(Write(arg, ttl), Yes)
MSet(arg) == Reply(Write(arg, "none"), Yes)

\* Mutant: the key is set although it exists.
AddSets(arg, ttl) == Reply(Write(arg, ttl), Yes)

Add(arg, ttl) == IF Held(arg) = {} THEN Reply(Write(arg, ttl), Yes) ELSE Reply(store, No)
Update(arg, ttl) == IF Held(arg) # {} THEN Reply(Write(arg, ttl), Yes) ELSE Reply(store, No)
Delete(arg) == Reply(Without(DOMAIN arg), <<"count", Cardinality(Held(arg))>>)
Exists(arg) == Reply(store, <<"count", Cardinality(Held(arg))>>)

\* EXPIRE counts seconds: 0, and KeepExpiration too, remove the key at once.
Expire(arg, ttl) ==
    Reply(IF ttl = "some" THEN [k \in CacheKeys |-> [store[k] EXCEPT !.ttl = @ \/ k \in Held(arg)]]
          ELSE Without(DOMAIN arg), IF Held(arg) = {} THEN No ELSE Yes)

\* An absent key counts from 0, without expiration; what is not a number, or would
\* overflow, is an error.
IncrBy(arg) ==
    LET k == CHOOSE x \in DOMAIN arg : TRUE
        old == IF store[k] = Absent THEN 0 ELSE store[k].bytes[2]
        n == arg[k][2] + old IN
    IF store[k].bytes[1] \in {"absent", "decimal"} /\ {old, n} \subseteq Int64
    THEN Reply(Write([x \in {k} |-> <<"int", n>>], "keep"), <<"count", n>>)
    ELSE Reply(store, Fails)

\* Get: an absent key is an error (Nil).
Get(arg) ==
    LET k == CHOOSE x \in DOMAIN arg : TRUE IN
    Reply(store, IF store[k] = Absent \/ Deserialize(store[k].bytes, arg[k]) = Fails THEN Fails
                 ELSE <<"read", [x \in {k} |-> Deserialize(store[k].bytes, arg[k])]>>)

\* Mutant: the map is ranged over again, in another order, for the answers.
MGetReordered(arg, o) ==
    LET back == Reverse(o)
        value(i) == IF store[o[i]] = Absent THEN <<"nil">>
                    ELSE Deserialize(store[o[i]].bytes, arg[back[i]]) IN
    Reply(store, IF \E i \in DOMAIN o : value(i) = Fails THEN Fails
                 ELSE <<"read", [k \in DOMAIN arg |-> value(CHOOSE i \in DOMAIN o : back[i] = k)]>>)

\* The i-th answer belongs to the i-th key of the slice made from the map; an
\* absent key's pointer is replaced by nil.  The first value that cannot be read
\* ends the loop with an error.
MGet(arg, o) ==
    LET value(i) == IF store[o[i]] = Absent THEN <<"nil">>
                    ELSE Deserialize(store[o[i]].bytes, arg[o[i]]) IN
    Reply(store, IF \E i \in DOMAIN o : value(i) = Fails THEN Fails
                 ELSE <<"read", [k \in DOMAIN arg |-> value(CHOOSE i \in DOMAIN o : o[i] = k)]>>)

Execute(c, o) ==
    CASE c.op = "Add" -> Add(c.arg, c.ttl)
      [] c.op = "Update" -> Update(c.arg, c.ttl)
      [] c.op = "Set" -> Set(c.arg, c.ttl)
      [] c.op = "MSet" -> MSet(c.arg)
      [] c.op = "Delete" -> Delete(c.arg)
      [] c.op = "Exists" -> Exists(c.arg)
      [] c.op = "Expire" -> Expire(c.arg, c.ttl)
      [] c.op = "IncrBy" -> IncrBy(c.arg)
      [] c.op = "Get" -> Get(c.arg)
      [] c.op = "MGet" -> MGet(c.arg, o)

-----------------------------------------------------------------------------
\* Every value is serialised before anything is sent.
Unserialisable(c) ==
    c.op \in Writing /\ \E k \in DOMAIN c.arg : Serialize(c.arg[k]) = Fails

BeginCall(p, c) ==
    /\ calls[p].at # "sent"
    /\ \E o \in SetToSeqs(DOMAIN c.arg) :
         calls' = [calls EXCEPT ![p] =
                     IF Unserialisable(c) THEN [Waiting EXCEPT !.result = Fails]
                     ELSE [Waiting EXCEPT !.at = "sent", !.cmd = c, !.order = o]]
    /\ UNCHANGED <<store, added>>

Recount(s, told) == [k \in CacheKeys |->
    IF s[k] = Absent THEN 0 ELSE added[k] + IF k \in told THEN 1 ELSE 0]

\* go-redis gives up after MaxRetries.
Lost == <<"lost">>
Again(p) ==
    calls' = [calls EXCEPT ![p] = IF @.attempt < MaxRetries THEN [@ EXCEPT !.attempt = @ + 1]
                                  ELSE [Waiting EXCEPT !.result = Lost]]

LoseRequest(p) == calls[p].at = "sent" /\ Again(p) /\ UNCHANGED <<store, added>>

LoseReply(p) ==
    /\ calls[p].at = "sent" /\ Again(p)
    /\ store' = Execute(calls[p].cmd, calls[p].order).store
    /\ added' = Recount(store', {})

Answered(p) ==
    LET c == calls[p].cmd e == Execute(c, calls[p].order) IN
    /\ calls[p].at = "sent"
    /\ store' = e.store
    /\ added' = Recount(e.store, IF c.op = "Add" /\ e.reply = Yes THEN DOMAIN c.arg ELSE {})
    /\ calls' = [calls EXCEPT ![p] = [Waiting EXCEPT !.result = e.reply]]

Expires(k) ==
    /\ store[k].ttl /\ store' = Without({k}) /\ added' = Recount(store', {})
    /\ UNCHANGED calls

CacheNext ==
    \/ \E p \in Callers : \/ \E c \in Commands : BeginCall(p, c)
                          \/ LoseRequest(p) \/ LoseReply(p) \/ Answered(p)
    \/ \E k \in CacheKeys : Expires(k)

CacheSpec == CacheInit /\ [][CacheNext]_cacheVars

-----------------------------------------------------------------------------
(* Properties *)
\* "Returns whether the key is added": as a lock, Add lets at most one caller in
\* for each time the key comes into being, although commands are sent again and
\* other callers update, expire and delete the key.  (The one whose reply was
\* lost may be told that it was not added.)
AddExclusive == \A k \in CacheKeys : added[k] <= 1

\* What one caller stores another reads back: a Get or MGet that asks each key for
\* the type it was stored as succeeds, and gives each key its own value.
Asked(p) == calls[p].cmd.arg
Reads(p) == calls[p].at = "sent" /\ calls[p].cmd.op \in {"Get", "MGet"}
ReadBack == [][\A p \in Callers :
    Reads(p) /\ calls'[p].at = "out" /\ calls'[p].result # Lost
        /\ (\A k \in DOMAIN Asked(p) : store[k] # Absent /\ store[k].from[1] = Asked(p)[k])
    => calls'[p].result = <<"read", [k \in DOMAIN Asked(p) |-> store[k].from]>>]_cacheVars
=============================================================================
