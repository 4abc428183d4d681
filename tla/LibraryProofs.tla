--------------------------- MODULE LibraryProofs ---------------------------
(***************************************************************************)
(* Theorems about the packages that MCLibrary checks together: Codec,       *)
(* CacheClient, HttpClient, ErrorStatus and Middleware.  They share no      *)
(* state, so each theorem is about the specification of one of them, which  *)
(* that of MCLibrary implies.                                               *)
(***************************************************************************)
EXTENDS Codec, CacheClient, HttpClient, ErrorStatus, Middleware, SequenceTheorems,
        FiniteSetTheorems, WellFoundedInduction, TLAPS

-----------------------------------------------------------------------------
(* client/cache: Add as a lock *)
\* Who was told that he added a key did so since the key was absent.
AddedOK == /\ added \in [CacheKeys -> {0, 1}]
           /\ \A k \in CacheKeys : store[k] = Absent => added[k] = 0

\* A command whose reply says that it added the keys found them absent.
LEMMA AddFoundAbsent ==
    ASSUME NEW c, NEW o, c.op = "Add", Execute(c, o).reply = Yes, NEW k \in DOMAIN c.arg
    PROVE  store[k] = Absent
  <1>1. Execute(c, o) = Add(c.arg, c.ttl)
    BY DEF Execute
  <1>2. No # Yes
    BY DEF Yes, No
  <1>3. Held(c.arg) = {}
    BY <1>1, <1>2 DEF Add, Reply
  <1> QED BY <1>3 DEF Held

LEMMA RecountOK ==
    ASSUME AddedOK, NEW told, \A k \in told : store[k] = Absent, added' = Recount(store', told)
    PROVE  AddedOK'
  BY DEF AddedOK, Recount

\* However often go-redis sends a command again, at most one caller is told that
\* it added a key, for each time the key comes into being (client/cache, Add).
THEOREM AddExclusiveHolds == CacheSpec => []AddExclusive
  <1>1. CacheInit => AddedOK
    BY DEF CacheInit, AddedOK
  <1>2. AddedOK /\ [CacheNext]_cacheVars => AddedOK'
    <2> SUFFICES ASSUME AddedOK, [CacheNext]_cacheVars PROVE AddedOK'
      OBVIOUS
    <2>1. ASSUME NEW p \in Callers, (\E c \in Commands : BeginCall(p, c)) \/ LoseRequest(p) PROVE AddedOK'
      BY <2>1 DEF BeginCall, LoseRequest, AddedOK
    <2>2. ASSUME NEW p \in Callers, LoseReply(p) PROVE AddedOK'
      BY <2>2, RecountOK DEF LoseReply
    <2>3. ASSUME NEW p \in Callers, Answered(p) PROVE AddedOK'
      <3> DEFINE c == calls[p].cmd
                 e == Execute(c, calls[p].order)
                 told == IF c.op = "Add" /\ e.reply = Yes THEN DOMAIN c.arg ELSE {}
      <3>1. store' = e.store /\ added' = Recount(e.store, told)
        BY <2>3 DEF Answered
      <3>2. \A k \in told : store[k] = Absent
        BY AddFoundAbsent
      <3>3. added' = Recount(store', told)
        BY <3>1
      <3> HIDE DEF told
      <3> QED BY <3>2, <3>3, RecountOK
    <2>4. ASSUME NEW k \in CacheKeys, Expires(k) PROVE AddedOK'
      BY <2>4, RecountOK DEF Expires
    <2>5. CASE UNCHANGED cacheVars
      BY <2>5 DEF cacheVars, AddedOK
    <2> QED BY <2>1, <2>2, <2>3, <2>4, <2>5 DEF CacheNext
  <1>3. AddedOK => AddExclusive
    BY DEF AddedOK, AddExclusive
  <1> QED BY <1>1, <1>2, <1>3, PTL DEF CacheSpec

-----------------------------------------------------------------------------
(* client/cache: what is read back *)

\* What is stored is the text of the value it comes from.
Sound(s) ==
    /\ s = [k \in CacheKeys |-> s[k]]
    /\ \A k \in CacheKeys : s[k] = [bytes |-> s[k].bytes, from |-> s[k].from, ttl |-> s[k].ttl]
    /\ \A k \in CacheKeys : s[k] # Absent =>
         /\ s[k].from \in TypedValues /\ s[k].from[1] # "chan"
         /\ s[k].bytes = Serialize(s[k].from)

\* A command that was sent is one of those to make, its values have a text, and
\* its order is one of its keys.
CallsOK ==
    /\ calls = [p \in Callers |-> calls[p]]
    /\ \A p \in Callers :
         /\ DOMAIN calls[p] = DOMAIN Waiting
         /\ calls[p].at = "sent" => /\ calls[p].cmd \in Commands /\ ~Unserialisable(calls[p].cmd)
                                    /\ calls[p].order \in SetToSeqs(DOMAIN calls[p].cmd.arg)

LEMMA RemainderIs ==
    ASSUME NEW n \in Nat, NEW m \in Nat, n < m
    PROVE  n % m = n
  OBVIOUS

\* A number that fits its type survives the cut to its width.
LEMMA SignedIs ==
    ASSUME NEW half \in Nat, NEW n \in (-half) .. (half - 1)
    PROVE  Signed(n, half) = n
  <1>1. n + half \in Nat /\ 2 * half \in Nat /\ n + half < 2 * half
    OBVIOUS
  <1>2. (n + half) % (2 * half) = n + half
    BY <1>1, RemainderIs
  <1> QED BY <1>2 DEF Signed

\* Whatever has a text is read back from it as its own type.
LEMMA RoundTrip ==
    ASSUME NEW v \in TypedValues, v[1] # "chan"
    PROVE  /\ Serialize(v) # Fails /\ Deserialize(Serialize(v), v[1]) = v
           /\ v # Fails /\ v # <<"nil">>
  <1>1. CASE v \in {"int"} \X Int64
    <2>1. PICK n \in Int64 : v = <<"int", n>>
      BY <1>1
    <2> QED BY <2>1 DEF Serialize, Deserialize, Fails
  <1>2. CASE v \in {"int8"} \X Int8
    <2>1. PICK n \in Int8 : v = <<"int8", n>>
      BY <1>2
    <2>2. n \in Int64 /\ Signed(n, Narrow) = n
      <3>1. Wide \in Nat /\ Narrow \in Nat /\ Narrow <= Wide
        BY CommandAssumption
      <3> QED BY <3>1, SignedIs DEF Int8, Int64
    <2> QED BY <2>1, <2>2 DEF Serialize, Deserialize, Fails
  <1>3. CASE v \in {"uint"} \X (0 .. (2 * Wide - 1))
    <2>1. PICK n \in 0 .. (2 * Wide - 1) : v = <<"uint", n>>
      BY <1>3
    <2>2. n >= 0
      BY <2>1, CommandAssumption
    <2> QED BY <2>1, <2>2 DEF Serialize, Deserialize, Fails
  <1>4. CASE v \in {"string", "struct"} \X Nat
    <2>1. PICK s \in {"string", "struct"}, n \in Nat : v = <<s, n>>
      BY <1>4
    <2> QED BY <2>1 DEF Serialize, Deserialize, Fails
  <1> QED BY <1>1, <1>2, <1>3, <1>4 DEF TypedValues

LEMMA WriteSound ==
    ASSUME Sound(store), NEW ttl, NEW arg,
           \A k \in DOMAIN arg : arg[k] \in TypedValues /\ arg[k][1] # "chan"
    PROVE  Sound(Write(arg, ttl))
  BY DEF Sound, Write

LEMMA WithoutSound == ASSUME Sound(store), NEW keys PROVE Sound(Without(keys))
  <1>1. Absent = [bytes |-> Absent.bytes, from |-> Absent.from, ttl |-> Absent.ttl]
    BY DEF Absent
  <1> QED BY <1>1 DEF Sound, Without

LEMMA ExpireSound ==
    ASSUME Sound(store), NEW arg, NEW s,
           s = [k \in CacheKeys |-> [store[k] EXCEPT !.ttl = @ \/ k \in Held(arg)]]
    PROVE  Sound(s)
  <1>1. ASSUME NEW k \in CacheKeys
        PROVE  /\ s[k] = [bytes |-> store[k].bytes, from |-> store[k].from, ttl |-> s[k].ttl]
               /\ store[k] = Absent => s[k] = Absent
    <2>1. store[k] = [bytes |-> store[k].bytes, from |-> store[k].from, ttl |-> store[k].ttl]
      BY DEF Sound
    <2>2. s[k] = [bytes |-> store[k].bytes, from |-> store[k].from,
                  ttl |-> store[k].ttl \/ k \in Held(arg)]
      BY <2>1
    <2>3. ASSUME store[k] = Absent PROVE s[k] = Absent
      <3>1. (store[k].ttl \/ k \in Held(arg)) = FALSE
        BY <2>3 DEF Absent, Held
      <3>2. s[k] = [bytes |-> store[k].bytes, from |-> store[k].from, ttl |-> FALSE]
        BY <2>2, <3>1
      <3>3. store[k].bytes = <<"absent">> /\ store[k].from = <<"none", 0>>
        BY <2>3 DEF Absent
      <3> QED BY <3>2, <3>3 DEF Absent
    <2> QED BY <2>2, <2>3
  <1>2. s = [k \in CacheKeys |-> s[k]]
    OBVIOUS
  <1>3. ASSUME NEW k \in CacheKeys
        PROVE  s[k].bytes = store[k].bytes /\ s[k].from = store[k].from
    <2>1. s[k] = [bytes |-> store[k].bytes, from |-> store[k].from, ttl |-> s[k].ttl]
      BY <1>1
    <2> QED BY <2>1
  <1>4. \A k \in CacheKeys : s[k] = [bytes |-> s[k].bytes, from |-> s[k].from, ttl |-> s[k].ttl]
    BY <1>1, <1>3
  <1>5. ASSUME NEW k \in CacheKeys, s[k] # Absent
        PROVE  /\ s[k].from \in TypedValues /\ s[k].from[1] # "chan"
               /\ s[k].bytes = Serialize(s[k].from)
    <2>1. store[k] # Absent
      BY <1>1, <1>5
    <2>2. /\ store[k].from \in TypedValues /\ store[k].from[1] # "chan"
          /\ store[k].bytes = Serialize(store[k].from)
      BY <2>1 DEF Sound
    <2> QED BY <1>3, <2>2
  <1> QED BY <1>2, <1>4, <1>5 DEF Sound

LEMMA WrittenHaveText ==
    ASSUME NEW c \in Commands, ~Unserialisable(c), c.op \in Writing, NEW k \in DOMAIN c.arg
    PROVE  c.arg[k] \in TypedValues /\ c.arg[k][1] # "chan"
  <1>1. c.arg[k] \in TypedValues
    BY CommandAssumption
  <1>2. Serialize(c.arg[k]) # Fails
    BY DEF Unserialisable, Writing
  <1> QED BY <1>1, <1>2 DEF Serialize

LEMMA IncrBySound ==
    ASSUME Sound(store), NEW c \in Commands, c.op = "IncrBy"
    PROVE  Sound(IncrBy(c.arg).store)
  <1> DEFINE k == CHOOSE x \in DOMAIN c.arg : TRUE
             old == IF store[k] = Absent THEN 0 ELSE store[k].bytes[2]
             n == c.arg[k][2] + old
  <1>1. CASE store[k].bytes[1] \in {"absent", "decimal"} /\ {old, n} \subseteq Int64
    <2>1. IncrBy(c.arg).store = Write([x \in {k} |-> <<"int", n>>], "keep")
      BY <1>1 DEF IncrBy, Reply
    <2>2. <<"int", n>> \in TypedValues /\ <<"int", n>>[1] # "chan"
      BY <1>1 DEF TypedValues
    <2> HIDE DEF n, old, k
    <2> QED BY <2>1, <2>2, WriteSound
  <1>2. CASE ~(store[k].bytes[1] \in {"absent", "decimal"} /\ {old, n} \subseteq Int64)
    BY <1>2 DEF IncrBy, Reply
  <1> QED BY <1>1, <1>2

LEMMA ExecuteSound ==
    ASSUME Sound(store), NEW c \in Commands, ~Unserialisable(c), NEW o
    PROVE  Sound(Execute(c, o).store)
  <1> DEFINE s == Execute(c, o).store
  <1>1. CASE c.op \in Writing
    <2>1. s = store \/ \E ttl : s = Write(c.arg, ttl)
      BY <1>1 DEF Writing, Execute, Add, Update, Set, MSet, Reply
    <2> QED BY <1>1, <2>1, WriteSound, WrittenHaveText
  <1>2. CASE c.op \in {"Delete", "Exists"}
    <2>1. s = store \/ s = Without(DOMAIN c.arg)
      BY <1>2 DEF Execute, Delete, Exists, Reply
    <2> QED BY <2>1, WithoutSound
  <1>3. CASE c.op = "Expire"
    <2>1. CASE s = Without(DOMAIN c.arg)
      BY <2>1, WithoutSound
    <2>2. CASE s = [k \in CacheKeys |-> [store[k] EXCEPT !.ttl = @ \/ k \in Held(c.arg)]]
      BY <2>2, ExpireSound
    <2>3. s = Without(DOMAIN c.arg)
          \/ s = [k \in CacheKeys |-> [store[k] EXCEPT !.ttl = @ \/ k \in Held(c.arg)]]
      BY <1>3 DEF Execute, Expire, Reply
    <2> QED BY <2>1, <2>2, <2>3
  <1>4. CASE c.op = "IncrBy"
    <2>1. s = IncrBy(c.arg).store
      BY <1>4 DEF Execute
    <2> QED BY <1>4, <2>1, IncrBySound
  <1>5. CASE c.op \in {"Get", "MGet"}
    <2>1. s = store
      BY <1>5 DEF Execute, Get, MGet, Reply
    <2> QED BY <2>1
  <1>6. c.op \in Operations
    BY CommandAssumption
  <1> QED BY <1>1, <1>2, <1>3, <1>4, <1>5, <1>6 DEF Operations

-----------------------------------------------------------------------------
\* A sequence of all keys of a command holds each of them once.
LEMMA OrderOfKeys ==
    ASSUME NEW S, IsFiniteSet(S), NEW o \in SetToSeqs(S)
    PROVE  /\ \A i \in DOMAIN o : o[i] \in S
           /\ \A k \in S : \E i \in DOMAIN o : o[i] = k
           /\ \A i, j \in DOMAIN o : o[i] = o[j] => i = j
  <1> DEFINE D == 1 .. Cardinality(S)
  <1>1. /\ o \in [D -> S]
        /\ \A i, j \in D : i # j => o[i] # o[j]
    BY DEF SetToSeqs
  <1>2. Cardinality(S) \in Nat
    BY FS_CardinalityType
  <1>3. Cardinality(D) = Cardinality(S)
    BY <1>2, FS_Interval
  <1>4. o \in Injection(D, S)
    BY <1>1 DEF Injection, IsInjective
  <1>5. o \in Surjection(D, S)
    BY <1>3, <1>4, FS_Injection
  <1> QED BY <1>1, <1>5 DEF Surjection

LEMMA ReadAsStored ==
    ASSUME Sound(store), NEW k \in CacheKeys, store[k] # Absent
    PROVE  /\ Deserialize(store[k].bytes, store[k].from[1]) = store[k].from
           /\ store[k].from # Fails
  BY RoundTrip DEF Sound

LEMMA GetReads ==
    ASSUME Sound(store), NEW c \in Commands, c.op = "Get", NEW o,
           \A k \in DOMAIN c.arg : store[k] # Absent /\ store[k].from[1] = c.arg[k]
    PROVE  Execute(c, o).reply = <<"read", [k \in DOMAIN c.arg |-> store[k].from]>>
  <1>1. PICK k \in CacheKeys : DOMAIN c.arg = {k}
    BY CommandAssumption
  <1>2. (CHOOSE x \in DOMAIN c.arg : TRUE) = k
    BY <1>1
  <1>3. Deserialize(store[k].bytes, c.arg[k]) = store[k].from /\ store[k].from # Fails
    BY <1>1, ReadAsStored
  <1>4. Execute(c, o).reply = <<"read", [x \in {k} |-> store[k].from]>>
    BY <1>1, <1>2, <1>3 DEF Execute, Get, Reply
  <1>5. [x \in {k} |-> store[k].from] = [x \in DOMAIN c.arg |-> store[x].from]
    BY <1>1
  <1> QED BY <1>4, <1>5

LEMMA MGetReads ==
    ASSUME Sound(store), NEW c \in Commands, c.op = "MGet", NEW o \in SetToSeqs(DOMAIN c.arg),
           \A k \in DOMAIN c.arg : store[k] # Absent /\ store[k].from[1] = c.arg[k]
    PROVE  Execute(c, o).reply = <<"read", [k \in DOMAIN c.arg |-> store[k].from]>>
  <1> DEFINE value(i) == IF store[o[i]] = Absent THEN <<"nil">>
                         ELSE Deserialize(store[o[i]].bytes, c.arg[o[i]])
             read == [k \in DOMAIN c.arg |-> value(CHOOSE i \in DOMAIN o : o[i] = k)]
  <1>1. IsFiniteSet(DOMAIN c.arg) /\ DOMAIN c.arg \subseteq CacheKeys
    BY CommandAssumption
  <1>2. /\ \A i \in DOMAIN o : o[i] \in DOMAIN c.arg
        /\ \A k \in DOMAIN c.arg : \E i \in DOMAIN o : o[i] = k
    BY <1>1, OrderOfKeys
  <1>3. ASSUME NEW i \in DOMAIN o PROVE value(i) = store[o[i]].from /\ value(i) # Fails
    <2>1. o[i] \in CacheKeys /\ store[o[i]] # Absent /\ store[o[i]].from[1] = c.arg[o[i]]
      BY <1>1, <1>2
    <2> QED BY <2>1, ReadAsStored
  <1>4. Execute(c, o).reply = <<"read", read>>
    <2>1. Execute(c, o) = MGet(c.arg, o)
      BY DEF Execute
    <2>2. MGet(c.arg, o).reply = IF \E i \in DOMAIN o : value(i) = Fails THEN Fails ELSE <<"read", read>>
      BY DEF MGet, Reply
    <2> HIDE DEF value, read
    <2> QED BY <1>3, <2>1, <2>2
  <1>5. ASSUME NEW k \in DOMAIN c.arg
        PROVE  value(CHOOSE i \in DOMAIN o : o[i] = k) = store[k].from
    <2> DEFINE j == CHOOSE i \in DOMAIN o : o[i] = k
    <2>1. j \in DOMAIN o /\ o[j] = k
      BY <1>2
    <2> HIDE DEF j
    <2>2. value(j) = store[k].from
      BY <1>3, <2>1
    <2> QED BY <2>2 DEF j
  <1> HIDE DEF value
  <1>6. read = [k \in DOMAIN c.arg |-> store[k].from]
    BY <1>5
  <1> QED BY <1>4, <1>6

-----------------------------------------------------------------------------
CacheInv == Sound(store) /\ CallsOK

LEMMA CacheStart == CacheInit => CacheInv
  BY DEF CacheInit, CacheInv, Sound, CallsOK, Waiting, Absent

\* The commands that are under way keep the form in which they were sent.
LEMMA CallsStep ==
    ASSUME CallsOK, [CacheNext]_cacheVars
    PROVE  CallsOK'
  <1>1. ASSUME NEW p \in Callers, NEW c \in Commands, BeginCall(p, c) PROVE CallsOK'
    BY <1>1 DEF BeginCall, CallsOK, Waiting
  <1>2. ASSUME NEW p \in Callers, calls[p].at = "sent", Again(p) PROVE CallsOK'
    BY <1>2 DEF Again, CallsOK, Waiting
  <1>3. ASSUME NEW p \in Callers, Answered(p) PROVE CallsOK'
    BY <1>3 DEF Answered, CallsOK, Waiting
  <1>4. CASE UNCHANGED calls
    BY <1>4 DEF CallsOK
  <1> QED BY <1>1, <1>2, <1>3, <1>4 DEF CacheNext, LoseRequest, LoseReply, Expires, cacheVars

LEMMA StoreStep ==
    ASSUME CacheInv, [CacheNext]_cacheVars
    PROVE  Sound(store)'
  <1> USE DEF CacheInv
  <1>1. ASSUME NEW p \in Callers, LoseReply(p) \/ Answered(p) PROVE Sound(store')
    <2> DEFINE c == calls[p].cmd
    <2>1. c \in Commands /\ ~Unserialisable(c)
      BY <1>1 DEF CallsOK, LoseReply, Answered
    <2>2. store' = Execute(c, calls[p].order).store
      BY <1>1 DEF LoseReply, Answered
    <2> QED BY <2>1, <2>2, ExecuteSound
  <1>2. ASSUME NEW k \in CacheKeys, Expires(k) PROVE Sound(store')
    BY <1>2, WithoutSound DEF Expires
  <1>3. CASE UNCHANGED store
    BY <1>3
  <1> QED BY <1>1, <1>2, <1>3 DEF CacheNext, BeginCall, LoseRequest, cacheVars

\* A Get or MGet that asks each key for the type it was stored as gives each key
\* its own value, whatever other callers store and however often commands are sent
\* again, with any number of keys and integers of any width (client/cache).
THEOREM ReadBackHolds == CacheSpec => ReadBack
  <1>1. CacheInv /\ [CacheNext]_cacheVars => CacheInv'
    BY CallsStep, StoreStep DEF CacheInv
  <1> DEFINE Back == \A p \in Callers :
                 Reads(p) /\ calls'[p].at = "out" /\ calls'[p].result # Lost
                     /\ (\A k \in DOMAIN Asked(p) : store[k] # Absent /\ store[k].from[1] = Asked(p)[k])
                 => calls'[p].result = <<"read", [k \in DOMAIN Asked(p) |-> store[k].from]>>
  <1>2. CacheInv /\ [CacheNext]_cacheVars => [Back]_cacheVars
    <2> SUFFICES ASSUME CacheInv, CacheNext, NEW p \in Callers, Reads(p),
                        calls'[p].at = "out", calls'[p].result # Lost,
                        \A k \in DOMAIN Asked(p) : store[k] # Absent /\ store[k].from[1] = Asked(p)[k]
                 PROVE  calls'[p].result = <<"read", [k \in DOMAIN Asked(p) |-> store[k].from]>>
      OBVIOUS
    <2> DEFINE c == calls[p].cmd
               o == calls[p].order
    <2>1. calls[p].at = "sent" /\ c.op \in {"Get", "MGet"} /\ calls = [q \in Callers |-> calls[q]]
      BY DEF Reads, CacheInv, CallsOK
    <2>2. Answered(p)
      <3>1. ASSUME Again(p) PROVE FALSE
        BY <2>1, <3>1 DEF Again, Waiting, CacheInv, CallsOK
      <3>2. ASSUME NEW q \in Callers \ {p}, (\E d \in Commands : BeginCall(q, d)) \/ Again(q) \/ Answered(q)
            PROVE  calls'[p] = calls[p]
        BY <2>1, <3>2 DEF BeginCall, Again, Answered
      <3>3. ASSUME NEW d \in Commands, BeginCall(p, d) PROVE FALSE
        BY <2>1, <3>3 DEF BeginCall
      <3> QED BY <2>1, <3>1, <3>2, <3>3 DEF CacheNext, LoseRequest, LoseReply, Expires
    <2>3. calls'[p].result = Execute(c, o).reply
      BY <2>1, <2>2 DEF Answered, Waiting
    <2>4. c \in Commands /\ o \in SetToSeqs(DOMAIN c.arg)
      BY <2>1 DEF CacheInv, CallsOK
    <2>5. Execute(c, o).reply = <<"read", [k \in DOMAIN c.arg |-> store[k].from]>>
      <3>1. Sound(store) /\ \A k \in DOMAIN c.arg : store[k] # Absent /\ store[k].from[1] = c.arg[k]
        BY DEF CacheInv, Asked
      <3> HIDE DEF c, o
      <3> QED BY <2>1, <2>4, <3>1, GetReads, MGetReads
    <2> QED BY <2>3, <2>5 DEF Asked
  <1> QED BY <1>1, <1>2, CacheStart, PTL DEF CacheSpec, ReadBack

-----------------------------------------------------------------------------
(* copy: GobDeepCopy *)
Holding == {"defer", "encode", "decode", "copied", "failed", "panicked"}
CallType == [at : Holding \cup {"out", "test", "create", "get"}, src : Values \cup {Nil},
             dst : {"pointer", "mismatch", "value", "nil"}, pool : CodecPools \cup {Nil},
             codec : Codecs \cup {Nil}, result : Values \cup {Nil}]

CodecTypes ==
    /\ gobCodecPool \in CodecPools \cup {Nil} /\ made \subseteq CodecPools
    /\ idle \in [CodecPools -> SUBSET Codecs] /\ lent \in [CodecPools -> SUBSET Codecs]
    /\ buffer \in [Codecs -> Seq(Values)] /\ spoiled \subseteq Codecs
    /\ call \in [Copiers -> CallType]
    /\ \A g \in Copiers : call[g].at # "out" => call[g].src \in Values

\* A call has its codec from Get until its Put has returned.
Holds(g, c) == call[g].at \in Holding /\ call[g].codec = c
In(p, c) == c \in idle[p] \cup lent[p]

\* Once there is a pool there always is one; a codec is in one pool, either idle
\* or lent to one call.
LeasesOK ==
    /\ \A g \in Copiers : call[g].at \in Holding \cup {"get"} => gobCodecPool # Nil
    /\ \A g \in Copiers : call[g].at \in Holding \ {"defer"} => call[g].pool # Nil
    /\ \A g \in Copiers : call[g].at \in Holding =>
         call[g].codec \in Codecs /\ \E p \in CodecPools : call[g].codec \in lent[p]
    /\ \A g, h \in Copiers, c \in Codecs : Holds(g, c) /\ Holds(h, c) => g = h
    /\ \A p, q \in CodecPools, c \in Codecs : In(p, c) /\ In(q, c) => p = q
    /\ \A p \in CodecPools : idle[p] \cap lent[p] = {}

\* What is in the buffers: the message of a call between its encoding and its
\* decoding, and nothing else unless the codec is spoiled.
BuffersOK ==
    /\ \A g \in Copiers : call[g].at = "decode" => buffer[call[g].codec] # <<>>
    /\ \A c \in Codecs : c \notin spoiled =>
         /\ (\A g \in Copiers : ~(call[g].at = "decode" /\ call[g].codec = c)) => buffer[c] = <<>>
         /\ \A g \in Copiers : call[g].at = "decode" /\ call[g].codec = c => buffer[c] = <<call[g].src>>
    /\ CopyExact

CodecInv == CodecTypes /\ LeasesOK /\ BuffersOK

LEMMA CodecStart == CodecInit => CodecInv
  <1> SUFFICES ASSUME CodecInit PROVE CodecInv
    OBVIOUS
  <1>1. gobCodecPool \in CodecPools \cup {Nil}
    BY CodecAssumption DEF CodecInit
  <1>2. \A g \in Copiers : call[g] = Idling /\ call[g].at = "out"
    BY DEF CodecInit, Idling
  <1>3. Idling \in CallType
    BY DEF Idling, CallType
  <1>4. CodecTypes
    <2>1. buffer \in [Codecs -> Seq(Values)]
      BY DEF CodecInit
    <2>2. call \in [Copiers -> CallType]
      BY <1>2, <1>3 DEF CodecInit
    <2>3. /\ made \subseteq CodecPools /\ spoiled \subseteq Codecs
          /\ idle \in [CodecPools -> SUBSET Codecs] /\ lent \in [CodecPools -> SUBSET Codecs]
      BY <1>1 DEF CodecInit
    <2> QED BY <1>1, <1>2, <2>1, <2>2, <2>3 DEF CodecTypes
  <1>5. LeasesOK
    BY <1>2 DEF CodecInit, LeasesOK, Holding, Holds, In
  <1>6. BuffersOK
    BY <1>2 DEF CodecInit, BuffersOK, CopyExact
  <1> QED BY <1>4, <1>5, <1>6 DEF CodecInv

\* A step of copier g on the way to its codec or after it has got it: the pools,
\* the buffers and the other calls stay as they are.
LEMMA MoveTyped ==
    ASSUME CodecTypes, NEW g \in Copiers, NEW at \in Holding \cup {"test", "create", "get"},
           call[g].at # "out", Move(g, at)
    PROVE  /\ call' \in [Copiers -> CallType] /\ call'[g].at = at
           /\ call'[g].src = call[g].src /\ call'[g].dst = call[g].dst /\ call'[g].pool = call[g].pool
           /\ call'[g].codec = call[g].codec /\ call'[g].result = call[g].result
           /\ \A h \in Copiers : h # g => call'[h] = call[h]
  BY DEF CodecTypes, Move, CallType

LEMMA TestStep ==
    ASSUME CodecInv, NEW g \in Copiers, PoolTest(g) \/ PoolCreate(g)
    PROVE  CodecInv'
  <1>1. /\ call[g].at \in {"test", "create"} /\ call[g].at # "out"
        /\ \E at \in {"create", "get"} : Move(g, at)
        /\ UNCHANGED <<idle, lent, buffer, spoiled>>
    <2>1. CASE PoolTest(g) /\ gobCodecPool = Nil
      BY <2>1 DEF PoolTest, pools
    <2>2. CASE PoolTest(g) /\ gobCodecPool # Nil
      BY <2>2 DEF PoolTest, pools
    <2>3. CASE PoolCreate(g)
      BY <2>3 DEF PoolCreate
    <2> QED BY <2>1, <2>2, <2>3
  <1>2. /\ call' \in [Copiers -> CallType] /\ call'[g].at \in {"create", "get"}
        /\ call'[g].src = call[g].src /\ \A h \in Copiers : h # g => call'[h] = call[h]
    BY <1>1, MoveTyped DEF CodecInv
  <1>3. /\ gobCodecPool' \in CodecPools \cup {Nil} /\ made' \subseteq CodecPools
        /\ gobCodecPool # Nil => gobCodecPool' # Nil
        /\ call'[g].at = "get" => gobCodecPool' # Nil
    <2>1. CASE PoolTest(g)
      BY <2>1, MoveTyped DEF PoolTest, pools, CodecInv, CodecTypes
    <2>2. CASE PoolCreate(g)
      <3>1. gobCodecPool' \in CodecPools /\ made' = made \cup {gobCodecPool'}
        BY <2>2 DEF PoolCreate, CodecInv, CodecTypes
      <3> QED BY <3>1, CodecAssumption DEF CodecInv, CodecTypes
    <2> QED BY <2>1, <2>2
  <1>4. CodecTypes'
    BY <1>1, <1>2, <1>3 DEF CodecInv, CodecTypes
  <1>5. LeasesOK'
    BY <1>1, <1>2, <1>3 DEF CodecInv, LeasesOK, Holding, Holds, In
  <1>6. BuffersOK'
    BY <1>1, <1>2 DEF CodecInv, BuffersOK, CopyExact, Holding
  <1> QED BY <1>4, <1>5, <1>6 DEF CodecInv

LEMMA StartStep ==
    ASSUME CodecInv, NEW g \in Copiers, NEW v \in Values,
           NEW d \in {"pointer", "mismatch", "value", "nil"}, CopyStart(g, v, d)
    PROVE  CodecInv'
  <1>1. Idling \in CallType /\ [Idling EXCEPT !.at = "test", !.src = v, !.dst = d] \in CallType
    BY DEF Idling, CallType
  <1>2. /\ call[g].at = "out" /\ call' \in [Copiers -> CallType]
        /\ call'[g].at = "out" \/ (call'[g].at = "test" /\ call'[g].src = v)
        /\ \A h \in Copiers : h # g => call'[h] = call[h]
        /\ UNCHANGED <<gobCodecPool, made, idle, lent, buffer, spoiled>>
    BY <1>1 DEF CopyStart, pools, CodecInv, CodecTypes, Idling
  <1>3. CodecTypes'
    BY <1>2 DEF CodecInv, CodecTypes
  <1>4. LeasesOK'
    BY <1>2 DEF CodecInv, LeasesOK, Holding, Holds, In
  <1>5. BuffersOK'
    BY <1>2 DEF CodecInv, BuffersOK, CopyExact
  <1> QED BY <1>3, <1>4, <1>5 DEF CodecInv

LEMMA GetStep ==
    ASSUME CodecInv, NEW g \in Copiers, CodecGet(g)
    PROVE  CodecInv'
  <1> DEFINE pool == gobCodecPool
  <1>0. pool \in CodecPools /\ call[g].at = "get" /\ call[g].src \in Values
    BY DEF CodecGet, CodecInv, CodecTypes, LeasesOK
  <1>1. PICK c \in Codecs :
          /\ c \in idle[pool] \cup (Codecs \ UNION {idle[p] \cup lent[p] : p \in CodecPools})
          /\ lent' = [lent EXCEPT ![pool] = @ \cup {c}] /\ idle' = [idle EXCEPT ![pool] = @ \ {c}]
          /\ call' = [call EXCEPT ![g].at = "defer", ![g].codec = c]
    BY <1>0 DEF CodecGet, CodecInv, CodecTypes
  <1>2. \A p \in CodecPools : c \notin lent[p] /\ (c \in idle[p] => p = pool)
    BY <1>0, <1>1 DEF CodecInv, CodecTypes, LeasesOK, In
  <1>3. /\ call' \in [Copiers -> CallType] /\ call'[g].at = "defer" /\ call'[g].codec = c
        /\ call'[g].src = call[g].src /\ \A h \in Copiers : h # g => call'[h] = call[h]
    <2>1. [call[g] EXCEPT !.at = "defer", !.codec = c] \in CallType
      BY <1>2 DEF CodecInv, CodecTypes, CallType, Holding
    <2>2. call' = [call EXCEPT ![g] = [call[g] EXCEPT !.at = "defer", !.codec = c]]
      BY <1>1 DEF CodecInv, CodecTypes
    <2>3. call[g] \in CallType
      BY DEF CodecInv, CodecTypes
    <2> QED BY <2>1, <2>2, <2>3 DEF CodecInv, CodecTypes, CallType
  <1>4. /\ \A p \in CodecPools : /\ lent'[p] = (IF p = pool THEN lent[p] \cup {c} ELSE lent[p])
                                 /\ idle'[p] = (IF p = pool THEN idle[p] \ {c} ELSE idle[p])
        /\ UNCHANGED <<gobCodecPool, made, buffer, spoiled>>
    BY <1>1 DEF CodecGet, CodecInv, CodecTypes
  <1>5. CodecTypes'
    BY <1>0, <1>1, <1>2, <1>3, <1>4 DEF CodecInv, CodecTypes
  \* No call can have had a codec that was not lent.
  <1>6. \A h \in Copiers : ~Holds(h, c)
    BY <1>2 DEF Holds, CodecInv, LeasesOK
  <1>7. LeasesOK'
    <2>1. \A h \in Copiers : call'[h].at \in Holding => call'[h].codec \in Codecs /\ \E p \in CodecPools : call'[h].codec \in lent'[p]
      BY <1>0, <1>2, <1>3, <1>4 DEF CodecInv, LeasesOK
    <2>2. \A h, f \in Copiers, b \in Codecs : Holds(h, b)' /\ Holds(f, b)' => h = f
      BY <1>3, <1>6 DEF CodecInv, LeasesOK, Holds
    <2>3. \A p, q \in CodecPools, b \in Codecs : In(p, b)' /\ In(q, b)' => p = q
      <3>1. \A p \in CodecPools : In(p, c)' => p = pool
        BY <1>2, <1>4 DEF In
      <3>2. ASSUME NEW p \in CodecPools, NEW b \in Codecs, b # c, In(p, b)'
            PROVE  In(p, b)
        <4>1. b \in idle'[p] \cup lent'[p]
          BY <3>2 DEF In
        <4>2. b \in idle[p] \cup lent[p]
          BY <1>4, <3>2, <4>1
        <4> QED BY <4>2 DEF In
      <3> QED BY <3>1, <3>2 DEF CodecInv, LeasesOK
    <2>4. \A p \in CodecPools : idle'[p] \cap lent'[p] = {}
      BY <1>0, <1>2, <1>4 DEF CodecInv, LeasesOK
    <2>5. \A h \in Copiers : /\ call'[h].at \in Holding \cup {"get"} => gobCodecPool' # Nil
                             /\ call'[h].at \in Holding \ {"defer"} => call'[h].pool # Nil
      BY <1>0, <1>3, <1>4, CodecAssumption DEF CodecInv, LeasesOK
    <2> QED BY <2>1, <2>2, <2>3, <2>4, <2>5 DEF LeasesOK
  <1>8. BuffersOK'
    BY <1>0, <1>3, <1>4, <1>6 DEF CodecInv, BuffersOK, CopyExact, Holds, Holding
  <1> QED BY <1>5, <1>7, <1>8 DEF CodecInv

LEMMA OneMessage == \A v : /\ Append(<<>>, v) = <<v>> /\ <<v>> # <<>>
                          /\ Head(<<v>>) = v /\ Tail(<<v>>) = <<>>
  OBVIOUS

\* A step of a call that has its codec: the pools stay as they are.
LEMMA KeptLeases ==
    ASSUME LeasesOK, NEW g \in Copiers, UNCHANGED <<gobCodecPool, idle, lent>>,
           call[g].at \in Holding, call'[g].at \in Holding, call'[g].codec = call[g].codec,
           call'[g].pool # Nil, \A h \in Copiers : h # g => call'[h] = call[h]
    PROVE  LeasesOK'
  BY DEF LeasesOK, Holds, In

LEMMA DeferStep ==
    ASSUME CodecInv, NEW g \in Copiers, DeferPut(g)
    PROVE  CodecInv'
  <1>1. /\ call[g].at = "defer" /\ gobCodecPool # Nil
        /\ call' = [call EXCEPT ![g].at = "encode", ![g].pool = gobCodecPool]
        /\ UNCHANGED <<gobCodecPool, made, idle, lent, buffer, spoiled>>
    BY DEF DeferPut, pools, CodecInv, LeasesOK, Holding
  <1>2. /\ call' \in [Copiers -> CallType] /\ call'[g].at = "encode" /\ call'[g].pool = gobCodecPool
        /\ call'[g].codec = call[g].codec /\ call'[g].src = call[g].src
        /\ \A h \in Copiers : h # g => call'[h] = call[h]
    BY <1>1, ZenonT(120) DEF CodecInv, CodecTypes, CallType, Holding
  <1>3. CodecTypes'
    BY <1>1, <1>2 DEF CodecInv, CodecTypes
  <1>4. LeasesOK'
    BY <1>1, <1>2, KeptLeases DEF CodecInv, Holding
  <1>5. BuffersOK'
    BY <1>1, <1>2 DEF CodecInv, BuffersOK, CopyExact
  <1> QED BY <1>3, <1>4, <1>5 DEF CodecInv

LEMMA EncodeStep ==
    ASSUME CodecInv, NEW g \in Copiers, Encode(g)
    PROVE  CodecInv'
  <1>1. PICK c \in Codecs : c = call[g].codec
    BY DEF Encode, CodecInv, LeasesOK, Holding
  <1>2. /\ call[g].at = "encode" /\ call[g].src \in Values /\ call[g].pool # Nil
        /\ UNCHANGED <<gobCodecPool, made, idle, lent, spoiled>>
    BY DEF Encode, pools, CodecInv, CodecTypes, LeasesOK, Holding
  <1>3. \/ buffer' = [buffer EXCEPT ![c] = Append(@, call[g].src)] /\ Move(g, "decode")
        \/ Move(g, "failed") /\ buffer' = buffer
    BY <1>1 DEF Encode
  <1>4. /\ call' \in [Copiers -> CallType] /\ call'[g].src = call[g].src /\ call'[g].codec = c
        /\ call'[g].pool = call[g].pool /\ \A h \in Copiers : h # g => call'[h] = call[h]
        /\ \/ call'[g].at = "decode" /\ buffer' = [buffer EXCEPT ![c] = Append(@, call[g].src)]
           \/ call'[g].at = "failed" /\ buffer' = buffer
    BY <1>1, <1>2, <1>3, MoveTyped DEF CodecInv, Holding
  <1>5. /\ Append(buffer[c], call[g].src) \in Seq(Values) /\ Append(buffer[c], call[g].src) # <<>>
        /\ buffer[c] = <<>> => Append(buffer[c], call[g].src) = <<call[g].src>>
    <2>1. buffer[c] \in Seq(Values)
      BY DEF CodecInv, CodecTypes
    <2> QED BY <1>2, <2>1, AppendProperties, OneMessage
  <1>6. CodecTypes'
    BY <1>2, <1>4, <1>5 DEF CodecInv, CodecTypes
  <1>7. LeasesOK'
    BY <1>1, <1>2, <1>4, KeptLeases DEF CodecInv, Holding
  <1>8. \A h \in Copiers : h # g /\ call[h].at \in Holding => call[h].codec # c
    BY <1>1, <1>2 DEF CodecInv, LeasesOK, Holds, Holding
  <1>9. BuffersOK'
    <2>1. CASE buffer' = buffer /\ call'[g].at = "failed"
      BY <1>1, <1>2, <1>4, <2>1 DEF CodecInv, BuffersOK, CopyExact
    <2>2. CASE buffer' = [buffer EXCEPT ![c] = Append(@, call[g].src)] /\ call'[g].at = "decode"
      <3>1. /\ buffer'[c] = Append(buffer[c], call[g].src)
            /\ \A b \in Codecs : b # c => buffer'[b] = buffer[b]
        BY <2>2 DEF CodecInv, CodecTypes
      <3>2. c \notin spoiled => buffer[c] = <<>>
        BY <1>1, <1>2, <1>8 DEF CodecInv, BuffersOK, Holding
      <3>3. \A h \in Copiers : call'[h].at = "decode" => buffer'[call'[h].codec] # <<>>
        BY <1>4, <1>5, <1>8, <2>2, <3>1 DEF CodecInv, BuffersOK, LeasesOK, Holding
      <3>4. \A b \in Codecs : b \notin spoiled =>
              /\ (\A h \in Copiers : ~(call'[h].at = "decode" /\ call'[h].codec = b)) => buffer'[b] = <<>>
              /\ \A h \in Copiers : call'[h].at = "decode" /\ call'[h].codec = b => buffer'[b] = <<call'[h].src>>
        <4> SUFFICES ASSUME NEW b \in Codecs, b \notin spoiled
                     PROVE  /\ (\A h \in Copiers : ~(call'[h].at = "decode" /\ call'[h].codec = b)) => buffer'[b] = <<>>
                            /\ \A h \in Copiers : call'[h].at = "decode" /\ call'[h].codec = b => buffer'[b] = <<call'[h].src>>
          OBVIOUS
        <4>1. CASE b = c
          BY <1>4, <1>5, <1>8, <2>2, <3>1, <3>2, <4>1 DEF Holding
        <4>2. CASE b # c
          BY <1>1, <1>2, <1>4, <3>1, <4>2 DEF CodecInv, BuffersOK
        <4> QED BY <4>1, <4>2
      <3>5. CopyExact'
        BY <1>2, <1>4, <2>2 DEF CodecInv, BuffersOK, CopyExact
      <3> QED BY <1>2, <3>3, <3>4, <3>5 DEF BuffersOK
    <2> QED BY <1>4, <2>1, <2>2
  <1> QED BY <1>6, <1>7, <1>9 DEF CodecInv

LEMMA DecodeStep ==
    ASSUME CodecInv, NEW g \in Copiers, Decode(g)
    PROVE  CodecInv'
  <1>1. PICK c \in Codecs : c = call[g].codec
    BY DEF Decode, CodecInv, LeasesOK, Holding
  <1>2. /\ call[g].at = "decode" /\ call[g].src \in Values /\ call[g].pool # Nil
        /\ UNCHANGED <<gobCodecPool, made, idle, lent>>
        /\ buffer[c] \in Seq(Values) /\ buffer[c] # <<>>
        /\ c \notin spoiled => buffer[c] = <<call[g].src>>
    BY <1>1 DEF Decode, pools, CodecInv, CodecTypes, LeasesOK, BuffersOK, Holding
  <1>3. /\ Head(buffer[c]) \in Values /\ Tail(buffer[c]) \in Seq(Values)
        /\ c \notin spoiled => Head(buffer[c]) = call[g].src /\ Tail(buffer[c]) = <<>>
    BY <1>2, HeadTailProperties, OneMessage
  <1>4. /\ call' \in [Copiers -> CallType] /\ call'[g].src = call[g].src /\ call'[g].codec = c
        /\ call'[g].pool = call[g].pool /\ \A h \in Copiers : h # g => call'[h] = call[h]
        /\ \/ call'[g].at = "failed" \/ (call'[g].at = "copied" /\ call'[g].result = Head(buffer[c]))
        /\ \/ buffer' = [buffer EXCEPT ![c] = Tail(@)] /\ spoiled' = spoiled
           \/ buffer' = buffer /\ spoiled' = spoiled \cup {c} /\ call'[g].at = "failed"
    <2>1. CASE Move(g, "failed")
      BY <1>1, <1>2, <2>1, MoveTyped DEF Decode, CodecInv, Holding
    <2>2. CASE call' = [call EXCEPT ![g].at = "copied", ![g].result = Head(buffer[c])]
      <3>1. [call[g] EXCEPT !.at = "copied", !.result = Head(buffer[c])] \in CallType
        BY <1>3 DEF CodecInv, CodecTypes, CallType, Holding
      <3>2. call' = [call EXCEPT ![g] = [call[g] EXCEPT !.at = "copied", !.result = Head(buffer[c])]]
        BY <2>2 DEF CodecInv, CodecTypes
      <3>3. call[g] \in CallType /\ Move(g, "failed") => call'[g].at = "failed"
        BY DEF CodecInv, CodecTypes, Move, CallType
      <3>4. call'[g].at = "copied"
        BY <3>2 DEF CodecInv, CodecTypes, CallType
      <3> QED BY <1>1, <3>1, <3>2, <3>3, <3>4 DEF Decode, CodecInv, CodecTypes, CallType
    <2> QED BY <1>1, <2>1, <2>2 DEF Decode
  <1>5. CodecTypes'
    BY <1>2, <1>3, <1>4 DEF CodecInv, CodecTypes
  <1>6. LeasesOK'
    BY <1>1, <1>2, <1>4, KeptLeases DEF CodecInv, Holding
  <1>7. \A h \in Copiers : h # g /\ call[h].at \in Holding => call[h].codec # c
    BY <1>1, <1>2 DEF CodecInv, LeasesOK, Holds, Holding
  <1>8. /\ \A b \in Codecs : b # c => buffer'[b] = buffer[b] /\ (b \in spoiled' <=> b \in spoiled)
        /\ c \notin spoiled' => c \notin spoiled /\ buffer'[c] = <<>>
    BY <1>3, <1>4 DEF CodecInv, CodecTypes
  <1>9. \A h \in Copiers : call'[h].at = "decode" => h # g /\ call[h].at = "decode" /\ call[h].codec # c
    BY <1>4, <1>7 DEF Holding
  <1>10. \A h \in Copiers : call'[h].at = "decode" => buffer'[call'[h].codec] # <<>>
    BY <1>4, <1>8, <1>9 DEF CodecInv, BuffersOK, LeasesOK, Holding
  <1>11. \A b \in Codecs : b \notin spoiled' =>
           /\ (\A h \in Copiers : ~(call'[h].at = "decode" /\ call'[h].codec = b)) => buffer'[b] = <<>>
           /\ \A h \in Copiers : call'[h].at = "decode" /\ call'[h].codec = b => buffer'[b] = <<call'[h].src>>
    <2> SUFFICES ASSUME NEW b \in Codecs, b \notin spoiled'
                 PROVE  /\ (\A h \in Copiers : ~(call'[h].at = "decode" /\ call'[h].codec = b)) => buffer'[b] = <<>>
                        /\ \A h \in Copiers : call'[h].at = "decode" /\ call'[h].codec = b => buffer'[b] = <<call'[h].src>>
      OBVIOUS
    <2>1. CASE b = c
      BY <1>4, <1>8, <1>9, <2>1
    <2>2. CASE b # c
      BY <1>1, <1>4, <1>8, <1>9, <2>2 DEF CodecInv, BuffersOK
    <2> QED BY <2>1, <2>2
  <1>12. CopyExact'
    <2> SUFFICES ASSUME NEW h \in Copiers, call'[h].at = "copied", call'[h].codec \notin spoiled'
                 PROVE  call'[h].result = call'[h].src
      BY DEF CopyExact
    <2>1. CASE h = g
      BY <1>3, <1>4, <1>8, <2>1
    <2>2. CASE h # g
      <3>1. call[h].at = "copied" /\ call[h].codec \in Codecs /\ call[h].codec # c
        BY <1>4, <1>7, <2>2 DEF CodecInv, LeasesOK, Holding
      <3> QED BY <1>4, <1>8, <2>2, <3>1 DEF CodecInv, BuffersOK, CopyExact
    <2> QED BY <2>1, <2>2
  <1> QED BY <1>5, <1>6, <1>10, <1>11, <1>12 DEF CodecInv, BuffersOK

LEMMA PutStep ==
    ASSUME CodecInv, NEW g \in Copiers, CodecPut(g)
    PROVE  CodecInv'
  <1>1. PICK c \in Codecs, p \in CodecPools : c = call[g].codec /\ p = call[g].pool
    BY DEF CodecPut, CodecInv, CodecTypes, CallType, LeasesOK, Holding
  <1>2. /\ call[g].at \in {"copied", "failed"} /\ call[g].at # "out"
        /\ UNCHANGED <<gobCodecPool, made, buffer, spoiled>>
    BY DEF CodecPut
  <1>3. CASE c \notin lent[p]
    <2>1. Move(g, "panicked") /\ UNCHANGED <<lent, idle>>
      BY <1>1, <1>3 DEF CodecPut
    <2>2. /\ call' \in [Copiers -> CallType] /\ call'[g].at = "panicked" /\ call'[g].src = call[g].src
          /\ call'[g].codec = call[g].codec /\ call'[g].pool = call[g].pool
          /\ \A h \in Copiers : h # g => call'[h] = call[h]
      BY <1>2, <2>1, MoveTyped DEF CodecInv, Holding
    <2>3. CodecTypes'
      BY <1>2, <2>1, <2>2 DEF CodecInv, CodecTypes
    <2>4. LeasesOK'
      BY <1>1, <1>2, <2>1, <2>2, KeptLeases, CodecAssumption DEF CodecInv, Holding
    <2>5. BuffersOK'
      BY <1>2, <2>2 DEF CodecInv, BuffersOK, CopyExact
    <2> QED BY <2>3, <2>4, <2>5 DEF CodecInv
  <1>4. CASE c \in lent[p]
    <2>1. /\ lent' = [lent EXCEPT ![p] = @ \ {c}] /\ idle' = [idle EXCEPT ![p] = @ \cup {c}]
          /\ call' = [call EXCEPT ![g] = Idling]
      BY <1>1, <1>4 DEF CodecPut
    <2>2. Idling \in CallType /\ Idling.at = "out"
      BY DEF Idling, CallType
    <2>3. /\ call' \in [Copiers -> CallType] /\ call'[g].at = "out"
          /\ \A h \in Copiers : h # g => call'[h] = call[h]
      BY <2>1, <2>2 DEF CodecInv, CodecTypes
    <2>4. \A q \in CodecPools : /\ lent'[q] = (IF q = p THEN lent[p] \ {c} ELSE lent[q])
                                /\ idle'[q] = (IF q = p THEN idle[p] \cup {c} ELSE idle[q])
      BY <2>1 DEF CodecInv, CodecTypes
    <2>5. CodecTypes'
      BY <1>2, <2>1, <2>3 DEF CodecInv, CodecTypes
    \* Nobody else has the codec that goes back.
    <2>6. \A h \in Copiers : h # g /\ call[h].at \in Holding => call[h].codec # c
      BY <1>1, <1>2 DEF CodecInv, LeasesOK, Holds, Holding
    <2>7. LeasesOK'
      <3>1. \A h \in Copiers : call'[h].at \in Holding => call'[h].codec \in Codecs /\ \E q \in CodecPools : call'[h].codec \in lent'[q]
        <4> SUFFICES ASSUME NEW h \in Copiers, call'[h].at \in Holding
                     PROVE  call'[h].codec \in Codecs /\ \E q \in CodecPools : call'[h].codec \in lent'[q]
          OBVIOUS
        <4>1. h # g /\ call'[h] = call[h] /\ call[h].codec # c
          BY <2>3, <2>6 DEF Holding
        <4>2. PICK q \in CodecPools : call[h].codec \in lent[q]
          BY <4>1 DEF CodecInv, LeasesOK
        <4>3. call[h].codec \in lent'[q]
          BY <2>4, <4>1, <4>2
        <4> QED BY <4>1, <4>3 DEF CodecInv, LeasesOK
      <3>2. \A h, f \in Copiers, b \in Codecs : Holds(h, b)' /\ Holds(f, b)' => h = f
        BY <2>3 DEF CodecInv, LeasesOK, Holds, Holding
      <3>3. ASSUME NEW q \in CodecPools, NEW b \in Codecs, In(q, b)' PROVE In(q, b)
        BY <1>4, <2>4, <3>3 DEF In
      <3>4. \A q, r \in CodecPools, b \in Codecs : In(q, b)' /\ In(r, b)' => q = r
        BY <3>3 DEF CodecInv, LeasesOK
      <3>5. \A q \in CodecPools : idle'[q] \cap lent'[q] = {}
        BY <2>4 DEF CodecInv, LeasesOK
      <3> QED BY <1>2, <2>3, <3>1, <3>2, <3>4, <3>5 DEF CodecInv, LeasesOK, Holding
    <2>8. BuffersOK'
      BY <1>2, <2>3 DEF CodecInv, BuffersOK, CopyExact
    <2> QED BY <2>5, <2>7, <2>8 DEF CodecInv
  <1> QED BY <1>3, <1>4

LEMMA ExpireStep ==
    ASSUME CodecInv, NEW p \in CodecPools, NEW c \in Codecs, CodecExpires(p, c)
    PROVE  CodecInv'
  <1>1. /\ c \in idle[p] /\ idle' = [idle EXCEPT ![p] = @ \ {c}] /\ buffer' = [buffer EXCEPT ![c] = <<>>]
        /\ spoiled' = spoiled \ {c} /\ UNCHANGED <<gobCodecPool, made, lent, call>>
    BY DEF CodecExpires
  <1>2. /\ \A q \in CodecPools : idle'[q] = (IF q = p THEN idle[p] \ {c} ELSE idle[q])
        /\ \A b \in Codecs : buffer'[b] = (IF b = c THEN <<>> ELSE buffer[b])
    BY <1>1 DEF CodecInv, CodecTypes
  <1>3. CodecTypes'
    <2>1. <<>> \in Seq(Values)
      OBVIOUS
    <2>2. buffer' \in [Codecs -> Seq(Values)]
      BY <1>1, <2>1 DEF CodecInv, CodecTypes
    <2> QED BY <1>1, <2>2 DEF CodecInv, CodecTypes
  <1>4. LeasesOK'
    <2>1. \A q, r \in CodecPools, b \in Codecs : In(q, b)' /\ In(r, b)' => q = r
      <3>1. ASSUME NEW q \in CodecPools, NEW b \in Codecs, In(q, b)' PROVE In(q, b)
        BY <1>1, <1>2, <3>1 DEF In
      <3> QED BY <3>1 DEF CodecInv, LeasesOK
    <2>2. \A q \in CodecPools : idle'[q] \cap lent'[q] = {}
      BY <1>1, <1>2 DEF CodecInv, LeasesOK
    <2>3. \A h, f \in Copiers, b \in Codecs : Holds(h, b)' /\ Holds(f, b)' => h = f
      BY <1>1 DEF CodecInv, LeasesOK, Holds
    <2> QED BY <1>1, <2>1, <2>2, <2>3 DEF CodecInv, LeasesOK
  \* An idle codec is nobody's.
  <1>5. \A h \in Copiers : call[h].at \in Holding => call[h].codec # c
    <2> SUFFICES ASSUME NEW h \in Copiers, call[h].at \in Holding, call[h].codec = c
                 PROVE  FALSE
      OBVIOUS
    <2>1. PICK q \in CodecPools : c \in lent[q]
      BY DEF CodecInv, LeasesOK
    <2>2. q = p
      BY <1>1, <2>1 DEF CodecInv, LeasesOK, In
    <2> QED BY <1>1, <2>1, <2>2 DEF CodecInv, LeasesOK
  <1>6. BuffersOK'
    <2>1. \A h \in Copiers : call'[h].at = "decode" => buffer'[call'[h].codec] # <<>>
      BY <1>1, <1>2, <1>5 DEF CodecInv, BuffersOK, LeasesOK, Holding
    <2>2. \A b \in Codecs : b \notin spoiled' =>
            /\ (\A h \in Copiers : ~(call'[h].at = "decode" /\ call'[h].codec = b)) => buffer'[b] = <<>>
            /\ \A h \in Copiers : call'[h].at = "decode" /\ call'[h].codec = b => buffer'[b] = <<call'[h].src>>
      BY <1>1, <1>2, <1>5 DEF CodecInv, BuffersOK, Holding
    <2>3. CopyExact'
      BY <1>1, <1>5 DEF CodecInv, BuffersOK, CopyExact, Holding
    <2> QED BY <2>1, <2>2, <2>3 DEF BuffersOK
  <1> QED BY <1>3, <1>4, <1>6 DEF CodecInv

LEMMA CodecStep == CodecInv /\ [CodecNext]_codecVars => CodecInv'
  <1>1. CodecInv /\ CodecNext => CodecInv'
    BY StartStep, TestStep, GetStep, DeferStep, EncodeStep, DecodeStep, PutStep, ExpireStep DEF CodecNext
  <1>2. CodecInv /\ UNCHANGED codecVars => CodecInv'
    BY DEF codecVars, CodecInv, CodecTypes, LeasesOK, BuffersOK, CopyExact, Holds, In
  <1> QED BY <1>1, <1>2

\* "DeepCopy deep copies the source to destination": with any number of callers,
\* pools and codecs, whatever calls failed before (copy/copy.go, GobDeepCopy).
THEOREM CopyExactHolds == CodecSpec => []CopyExact
  <1>1. CodecInv => CopyExact
    BY DEF CodecInv, BuffersOK
  <1> QED BY <1>1, CodecStart, CodecStep, PTL DEF CodecSpec

\* A step that creates no pool: codecs go on towards the pool that lent them, and
\* no Put panics.
LEMMA ReturningStep ==
    ASSUME CodecInv, Returning, [CodecNext]_codecVars, gobCodecPool' = gobCodecPool
    PROVE  Returning' /\ locked' = locked
  <1> DEFINE Back(g) == /\ call[g].at = "defer" => call[g].codec \in lent[gobCodecPool]
                        /\ call[g].at \in {"encode", "decode", "copied", "failed"} =>
                              call[g].codec \in lent[call[g].pool]
  <1>0. \A g \in Copiers : Back(g)
    BY DEF Returning
  <1>r. (\A g \in Copiers : Back(g)') => Returning'
    BY DEF Returning
  <1>1. ASSUME NEW g \in Copiers, NEW v \in Values, NEW d \in {"pointer", "mismatch", "value", "nil"}, CopyStart(g, v, d)
        PROVE  Returning' /\ locked' = locked
    <2>1. /\ call'[g].at \in {"out", "test"} /\ \A h \in Copiers : h # g => call'[h] = call[h]
          /\ UNCHANGED <<gobCodecPool, lent, locked>>
      BY <1>1 DEF CopyStart, pools, CodecInv, CodecTypes, Idling
    <2> QED BY <1>0, <1>r, <2>1
  <1>2. ASSUME NEW g \in Copiers, PoolTest(g) \/ PoolCreate(g) PROVE Returning' /\ locked' = locked
    <2>1. /\ call[g].at \in {"test", "create"} /\ call[g].at # "out" /\ UNCHANGED <<lent, locked>>
          /\ \E at \in {"create", "get"} : Move(g, at)
      <3>1. CASE PoolTest(g) /\ gobCodecPool = Nil
        BY <3>1 DEF PoolTest, pools
      <3>2. CASE PoolTest(g) /\ gobCodecPool # Nil
        BY <3>2 DEF PoolTest, pools
      <3>3. CASE PoolCreate(g)
        BY <3>3 DEF PoolCreate
      <3> QED BY <1>2, <3>1, <3>2, <3>3
    <2>2. call'[g].at \in {"create", "get"} /\ \A h \in Copiers : h # g => call'[h] = call[h]
      BY <2>1, MoveTyped DEF CodecInv
    <2> QED BY <1>0, <1>r, <2>1, <2>2
  <1>4. ASSUME NEW g \in Copiers, CodecGet(g) PROVE Returning' /\ locked' = locked
    <2>1. PICK c : /\ lent' = [lent EXCEPT ![gobCodecPool] = @ \cup {c}]
                   /\ call' = [call EXCEPT ![g].at = "defer", ![g].codec = c]
                   /\ UNCHANGED locked
      BY <1>4 DEF CodecGet
    <2>2. call'[g].at = "defer" /\ call'[g].codec = c /\ \A h \in Copiers : h # g => call'[h] = call[h]
      BY <2>1 DEF CodecInv, CodecTypes, CallType
    <2>3. gobCodecPool \in CodecPools
      BY <1>4 DEF CodecGet, CodecInv, CodecTypes, LeasesOK
    <2>4. c \in lent'[gobCodecPool] /\ \A p \in CodecPools : lent[p] \subseteq lent'[p]
      BY <2>1, <2>3 DEF CodecInv, CodecTypes
    <2>5. \A h \in Copiers : call[h].at \in {"encode", "decode", "copied", "failed"} => call[h].pool \in CodecPools
      BY DEF CodecInv, CodecTypes, LeasesOK, CallType, Holding
    <2> QED BY <1>0, <1>r, <2>1, <2>2, <2>3, <2>4, <2>5
  <1>5. ASSUME NEW g \in Copiers, DeferPut(g) PROVE Returning' /\ locked' = locked
    <2>1. /\ call[g].at = "defer" /\ UNCHANGED <<gobCodecPool, lent, locked>>
          /\ call' = [call EXCEPT ![g].at = "encode", ![g].pool = gobCodecPool]
      BY <1>5 DEF DeferPut, pools
    <2>2. /\ call'[g].at = "encode" /\ call'[g].pool = gobCodecPool /\ call'[g].codec = call[g].codec
          /\ \A h \in Copiers : h # g => call'[h] = call[h]
      BY <2>1 DEF CodecInv, CodecTypes, CallType
    <2> QED BY <1>0, <1>r, <2>1, <2>2
  <1>6. ASSUME NEW g \in Copiers, Encode(g) \/ Decode(g) PROVE Returning' /\ locked' = locked
    <2>1. /\ call[g].at \in {"encode", "decode"} /\ UNCHANGED <<gobCodecPool, lent, locked>>
          /\ call[g].at # "out"
          /\ \/ \E at \in {"decode", "failed"} : Move(g, at)
             \/ call' = [call EXCEPT ![g].at = "copied", ![g].result = Head(buffer[call[g].codec])]
      BY <1>6 DEF Encode, Decode, pools
    <2>2. /\ call'[g].at \in {"decode", "failed", "copied"}
          /\ call'[g].pool = call[g].pool /\ call'[g].codec = call[g].codec
          /\ \A h \in Copiers : h # g => call'[h] = call[h]
      <3>1. ASSUME NEW at \in {"decode", "failed"}, Move(g, at)
            PROVE  /\ call'[g].at = at /\ call'[g].pool = call[g].pool /\ call'[g].codec = call[g].codec
                   /\ \A h \in Copiers : h # g => call'[h] = call[h]
        BY <2>1, <3>1, MoveTyped DEF CodecInv, Holding
      <3>2. CASE call' = [call EXCEPT ![g].at = "copied", ![g].result = Head(buffer[call[g].codec])]
        BY <3>2 DEF CodecInv, CodecTypes, CallType
      <3> QED BY <2>1, <3>1, <3>2
    <2> QED BY <1>0, <1>r, <2>1, <2>2
  <1>7. ASSUME NEW g \in Copiers, CodecPut(g) PROVE Returning' /\ locked' = locked
    <2>1. PICK c \in Codecs, p \in CodecPools : c = call[g].codec /\ p = call[g].pool
      BY <1>7 DEF CodecPut, CodecInv, CodecTypes, CallType, LeasesOK, Holding
    <2>2. call[g].at \in {"copied", "failed"} /\ c \in lent[p]
      BY <1>0, <1>7, <2>1 DEF CodecPut
    <2>3. /\ lent' = [lent EXCEPT ![p] = @ \ {c}] /\ call' = [call EXCEPT ![g] = Idling]
          /\ UNCHANGED <<gobCodecPool, locked>>
      BY <1>7, <2>1, <2>2 DEF CodecPut
    <2>4. /\ call'[g].at = "out" /\ \A h \in Copiers : h # g => call'[h] = call[h]
          /\ \A q \in CodecPools : lent[q] \ {c} \subseteq lent'[q]
      BY <2>3 DEF CodecInv, CodecTypes, Idling
    <2>5. \A h \in Copiers : h # g /\ call[h].at \in Holding => call[h].codec # c
      BY <2>1, <2>2 DEF CodecInv, LeasesOK, Holds, Holding
    <2>6. \A h \in Copiers :
             /\ call[h].at \in {"encode", "decode", "copied", "failed"} => call[h].pool \in CodecPools
             /\ call[h].at = "defer" => gobCodecPool \in CodecPools
      BY DEF CodecInv, CodecTypes, LeasesOK, CallType, Holding
    <2> QED BY <1>0, <1>r, <2>3, <2>4, <2>5, <2>6 DEF Holding
  <1>8. CASE (\E p \in CodecPools, c \in Codecs : CodecExpires(p, c)) \/ UNCHANGED codecVars
    <2>1. UNCHANGED <<gobCodecPool, lent, locked, call>>
      BY <1>8 DEF CodecExpires, codecVars
    <2> QED BY <1>0, <1>r, <2>1
  <1> QED BY <1>1, <1>2, <1>4, <1>5, <1>6, <1>7, <1>8 DEF CodecNext

\* Only PoolCreate changes the pointer, and only a call that finds no pool goes on
\* to create one.
LEMMA CreateFrame ==
    ASSUME CodecInv, [CodecNext]_codecVars
    PROVE  /\ (gobCodecPool' = gobCodecPool /\ made' = made) \/ \E g \in Copiers : PoolCreate(g)
           /\ gobCodecPool # Nil => \A g \in Copiers : call'[g].at = "create" => call[g].at = "create"
  <1>1. ASSUME NEW g \in Copiers, NEW v \in Values, NEW d \in {"pointer", "mismatch", "value", "nil"}, CopyStart(g, v, d)
        PROVE  /\ gobCodecPool' = gobCodecPool /\ made' = made
               /\ \A h \in Copiers : call'[h].at = "create" => call[h].at = "create"
    BY <1>1 DEF CopyStart, pools, CodecInv, CodecTypes, Idling
  <1>2. ASSUME NEW g \in Copiers, PoolTest(g)
        PROVE  /\ gobCodecPool' = gobCodecPool /\ made' = made
               /\ gobCodecPool # Nil => \A h \in Copiers : call'[h].at = "create" => call[h].at = "create"
    BY <1>2 DEF PoolTest, Move, pools, CodecInv, CodecTypes, CallType
  <1>3. ASSUME NEW g \in Copiers, PoolCreate(g)
        PROVE  \A h \in Copiers : call'[h].at = "create" => call[h].at = "create"
    BY <1>3 DEF PoolCreate, Move, CodecInv, CodecTypes, CallType
  <1>4. ASSUME NEW g \in Copiers, CodecGet(g)
        PROVE  /\ gobCodecPool' = gobCodecPool /\ made' = made
               /\ \A h \in Copiers : call'[h].at = "create" => call[h].at = "create"
    BY <1>4 DEF CodecGet, CodecInv, CodecTypes, CallType
  <1>5. ASSUME NEW g \in Copiers, DeferPut(g) \/ Encode(g)
        PROVE  /\ gobCodecPool' = gobCodecPool /\ made' = made
               /\ \A h \in Copiers : call'[h].at = "create" => call[h].at = "create"
    <2>1. CASE DeferPut(g)
      BY <2>1 DEF DeferPut, pools, CodecInv, CodecTypes, CallType
    <2>2. CASE Encode(g)
      <3>1. /\ \E at \in {"decode", "failed"} : Move(g, at)
            /\ call[g].at # "out" /\ gobCodecPool' = gobCodecPool /\ made' = made
        BY <2>2 DEF Encode, pools
      <3> QED BY <3>1, MoveTyped DEF CodecInv, Holding
    <2> QED BY <1>5, <2>1, <2>2
  <1>6. ASSUME NEW g \in Copiers, Decode(g)
        PROVE  /\ gobCodecPool' = gobCodecPool /\ made' = made
               /\ \A h \in Copiers : call'[h].at = "create" => call[h].at = "create"
    BY <1>6 DEF Decode, Move, pools, CodecInv, CodecTypes, CallType
  <1>7. ASSUME NEW g \in Copiers, CodecPut(g)
        PROVE  /\ gobCodecPool' = gobCodecPool /\ made' = made
               /\ \A h \in Copiers : call'[h].at = "create" => call[h].at = "create"
    <2>1. /\ gobCodecPool' = gobCodecPool /\ made' = made
          /\ call' = [call EXCEPT ![g] = Idling] \/ call' = [call EXCEPT ![g].at = "panicked"]
      BY <1>7 DEF CodecPut, Move
    <2> QED BY <2>1 DEF CodecInv, CodecTypes, CallType, Idling
  <1>8. CASE (\E p \in CodecPools, c \in Codecs : CodecExpires(p, c)) \/ UNCHANGED codecVars
    BY <1>8 DEF CodecExpires, codecVars
  <1> QED BY <1>1, <1>2, <1>3, <1>4, <1>5, <1>6, <1>7, <1>8 DEF CodecNext

\* As long as one pool at most was created every codec is on its way back to it.
FirstPool ==
    /\ (made = {}) <=> (gobCodecPool = Nil)
    /\ (\A p, q \in made : p = q) => Returning

LEMMA FirstPoolStart == CodecInit => FirstPool
  <1> SUFFICES ASSUME CodecInit PROVE FirstPool
    OBVIOUS
  <1>1. \A g \in Copiers : call[g].at = "out"
    BY DEF CodecInit, Idling
  <1> QED BY <1>1 DEF CodecInit, FirstPool, Returning

LEMMA FirstPoolStep ==
    ASSUME CodecInv, FirstPool, [CodecNext]_codecVars
    PROVE  FirstPool'
  <1>1. CASE gobCodecPool' = gobCodecPool /\ made' = made
    BY <1>1, ReturningStep DEF FirstPool
  <1>2. ASSUME NEW g \in Copiers, PoolCreate(g) PROVE FirstPool'
    <2>1. gobCodecPool' \in CodecPools /\ gobCodecPool' \notin made /\ made' = made \cup {gobCodecPool'}
      BY <1>2 DEF PoolCreate, CodecInv, CodecTypes
    <2>2. made' # {} /\ gobCodecPool' # Nil
      BY <2>1, CodecAssumption
    <2>3. CASE made # {}
      <3>1. PICK p \in made : p # gobCodecPool' /\ p \in made' /\ gobCodecPool' \in made'
        BY <2>1, <2>3
      <3> QED BY <2>2, <3>1 DEF FirstPool
    <2>4. CASE made = {}
      <3>1. \A h \in Copiers : call[h].at \notin Holding \cup {"get"}
        BY <2>4 DEF FirstPool, CodecInv, LeasesOK
      <3>2. call'[g].at = "get" /\ \A h \in Copiers : h # g => call'[h] = call[h]
        BY <1>2, MoveTyped DEF PoolCreate, CodecInv
      <3>3. Returning'
        BY <3>1, <3>2 DEF Returning, Holding
      <3> QED BY <2>2, <3>3 DEF FirstPool
    <2> QED BY <2>3, <2>4
  <1> QED BY <1>1, <1>2, CreateFrame

\* A Put panics only after two calls have created a pool each, and once no further
\* pool is on its way and every codec goes back to its own, none ever will again
\* (copy/copy.go, GobDeepCopy).
THEOREM PanicNeedsRaceHolds == CodecSpec => PanicNeedsRace
  <1>1. CodecInv /\ FirstPool /\ [CodecNext]_codecVars =>
          [/\ locked' # locked => \E p, q \in made : p # q
           /\ Settled => Settled' /\ locked' = locked]_codecVars
    <2> SUFFICES ASSUME CodecInv, FirstPool, [CodecNext]_codecVars
                 PROVE  /\ locked' # locked => \E p, q \in made : p # q
                        /\ Settled => Settled' /\ locked' = locked
      OBVIOUS
    <2>1. CASE gobCodecPool' = gobCodecPool
      <3>1. Returning => Returning' /\ locked' = locked
        BY <2>1, ReturningStep
      <3> QED BY <2>1, <3>1, CreateFrame DEF FirstPool, Settled
    <2>2. ASSUME NEW g \in Copiers, PoolCreate(g)
          PROVE  ~Settled /\ locked' = locked
      BY <2>2 DEF PoolCreate, Settled
    <2> QED BY <2>1, <2>2, CreateFrame
  <1>2. CodecInv /\ FirstPool /\ [CodecNext]_codecVars => CodecInv' /\ FirstPool'
    BY CodecStep, FirstPoolStep
  <1> QED BY <1>1, <1>2, CodecStart, FirstPoolStart, PTL DEF CodecSpec, PanicNeedsRace

-----------------------------------------------------------------------------
(* client/http: RequestJSON *)
\* A record of a client's progress, and where a call stands after each step: a call
\* depends on nothing but the request and the answer.
Made(at, body, query, contentType, header, sent, result) ==
    [at |-> at, body |-> body, query |-> query, contentType |-> contentType,
     header |-> header, sent |-> sent, result |-> result]

\* The empty text and the two values of "sent" under names of their own.
Unset == ""
Unsent == FALSE
Sent == TRUE

\* p is that record, field by field.
Is(p, at, body, query, contentType, header, sent, result) ==
    p \in [at : {at}, body : {body}, query : {query}, contentType : {contentType},
           header : {header}, sent : {sent}, result : {result}]

Body(c) == IF c = "fast" THEN FastBody(BodyOf(request)) ELSE BodyOf(request)
Query(c) == IF ~(HasForm(request) /\ request.format = "QueryString") THEN OwnQuery(request)
            ELSE IF c = "fast" THEN OwnQuery(request) \o FormOf(request) ELSE FormOf(request)
Type(c) == IF c = "fast" THEN FastType(request) ELSE ContentType(request)
Header == setHeader(request.header)

Encoded == Made("build", BodyOf(request), <<>>, Unset, <<>>, Unsent, Unset)
Built(c) == Made("header", Body(c), Query(c), Type(c), <<>>, Unsent, Unset)
Headed(c) == Made("do", Body(c), Query(c), Type(c), Header, Unsent, Unset)
Reading == Made("read", BodyOf(request), Query("net"), Type("net"), Header, Sent, Unset)

\* The result of a request that gets as far as the wire.
Outcome(c) ==
    IF answer \in {"down", "500"} THEN "error"
    ELSE IF c = "net" THEN (IF ~request.respData \/ answer \in {"json", "redirect"} THEN "ok" ELSE "error")
    ELSE IF request.respData /\ answer = "json" THEN "ok" ELSE "error"

End(c) ==
    IF BadData(request) THEN Made("done", <<>>, <<>>, Unset, <<>>, Unsent, "error")
    ELSE IF request.url = "bad" THEN Made("done", BodyOf(request), <<>>, Unset, <<>>, Unsent, "panic")
    ELSE IF Header = <<"error">>
         THEN Made("done", Body(c), Query(c), Type(c), <<>>, Unsent, "error")
    ELSE Made("done", Body(c), Query(c), Type(c), Header, Sent, Outcome(c))

\* The places of client c on its way to the end, as far as the request gets.
Sendable == ~BadData(request) /\ request.url # "bad" /\ Header # <<"error">>

Stage(c, p) ==
    \/ p = Fresh \/ p = End(c)
    \/ p = Encoded /\ ~BadData(request)
    \/ p = Built(c) /\ ~BadData(request) /\ request.url # "bad"
    \/ p = Headed(c) /\ Sendable
    \/ c = "net" /\ p = Reading /\ Sendable /\ answer \notin {"down", "500"}

HttpInv ==
    /\ request \in RequestType /\ answer \in AnswerType
    /\ progress = [c \in Clients |-> progress[c]]
    /\ \A c \in Clients : Stage(c, progress[c])

\* What is known field by field is known of the record.
LEMMA IsMade ==
    ASSUME NEW at, NEW body, NEW query, NEW contentType, NEW header, NEW sent, NEW result, NEW p
    PROVE  Is(p, at, body, query, contentType, header, sent, result)
             <=> p = Made(at, body, query, contentType, header, sent, result)
  BY DEF Is, Made

LEMMA HttpStart == HttpInit => HttpInv
  BY HttpAssumption DEF HttpInit, HttpInv, Stage

\* A step of client c that takes it to the next place on its way.
LEMMA ProgressStep ==
    ASSUME HttpInv, NEW c \in Clients, NEW next, Step(c, next), Stage(c, next)
    PROVE  HttpInv'
  <1>1. /\ UNCHANGED <<request, answer>> /\ progress' = [d \in Clients |-> progress'[d]]
        /\ progress'[c] = next /\ \A d \in Clients : d # c => progress'[d] = progress[d]
    BY DEF Step, HttpInv
  <1>2. ASSUME NEW d \in Clients, NEW p, Stage(d, p) PROVE Stage(d, p)'
    BY <1>1, <1>2 DEF Stage, Sendable, Encoded, Reading, Built, Headed, End, Outcome, Body, Query, Header, Type, FastBody
  <1>3. \A d \in Clients : Stage(d, progress[d])
    BY DEF HttpInv
  <1>4. ASSUME NEW d \in Clients PROVE Stage(d, progress[d])'
    <2>1. PICK p : p = progress'[d] /\ Stage(d, p)
      BY <1>1, <1>3
    <2>2. Stage(d, p)'
      BY <1>2, <2>1
    <2> QED BY <2>1, <2>2 DEF Stage
  <1> QED BY <1>1, <1>4 DEF HttpInv

\* Where a step of a client starts from.
LEMMA StageAt ==
    ASSUME NEW c \in Clients, NEW p, Stage(c, p)
    PROVE  /\ p.at = "encode" => p = Fresh
           /\ p.at = "build" => p = Encoded /\ ~BadData(request)
           /\ p.at = "header" => p = Built(c) /\ ~BadData(request) /\ request.url # "bad"
           /\ p.at = "do" => p = Headed(c) /\ Sendable
           /\ p.at = "read" => c = "net" /\ p = Reading /\ Sendable /\ answer \notin {"down", "500"}
           /\ p.at = "done" => p = End(c)
  <1>1. /\ Fresh.at = "encode" /\ Encoded.at = "build" /\ Built(c).at = "header"
        /\ Headed(c).at = "do" /\ Reading.at = "read"
    BY DEF Fresh, Encoded, Built, Headed, Reading, Made
  <1>2. End(c).at = "done"
    BY DEF End, Made
  <1> QED BY <1>1, <1>2 DEF Stage

LEMMA HttpStep == HttpInv /\ [HttpNext]_httpVars => HttpInv'
  <1> SUFFICES ASSUME HttpInv, [HttpNext]_httpVars PROVE HttpInv'
    OBVIOUS
  <1>0. "net" \in Clients /\ "fast" \in Clients /\ \A c \in Clients : Stage(c, progress[c])
    BY DEF Clients, HttpInv
  <1>1. ASSUME NEW c \in Clients, EncodeData(c) PROVE HttpInv'
    <2>1. progress[c] = Fresh
      BY <1>0, <1>1, StageAt DEF EncodeData
    <2>fields. Is(progress[c], "encode", <<>>, <<>>, Unset, <<>>, Unsent, Unset)
      BY <2>1, IsMade DEF Fresh, Made, Unset, Unsent
    <2>2. CASE BadData(request)
      <3>1. PICK next : Step(c, next) /\ next = EndCall(progress[c], "error")
        BY <1>1, <2>2 DEF EncodeData
      <3>2. Is(next, "done", <<>>, <<>>, Unset, <<>>, Unsent, "error")
        BY <2>fields, <3>1 DEF Is, EndCall, Sent
      <3>3. next = End(c)
        BY <3>2, <2>1, <2>2, IsMade DEF End
      <3> QED BY <1>0, <2>1, <2>2, <3>1, <3>3, ProgressStep DEF Stage
    <2>3. CASE ~BadData(request)
      <3>1. PICK next : Step(c, next) /\ next = [progress[c] EXCEPT !.at = "build", !.body = BodyOf(request)]
        BY <1>1, <2>3 DEF EncodeData
      <3>2. Is(next, "build", BodyOf(request), <<>>, Unset, <<>>, Unsent, Unset)
        BY <2>fields, <3>1 DEF Is, Sent
      <3>3. next = Encoded
        BY <3>2, IsMade DEF Encoded
      <3> QED BY <1>0, <2>1, <2>3, <3>1, <3>3, ProgressStep DEF Stage
    <2> QED BY <2>2, <2>3
  <1>2. ASSUME NEW c \in Clients, Headers(c) PROVE HttpInv'
    <2>1. progress[c] = Built(c) /\ ~BadData(request) /\ request.url # "bad"
      BY <1>0, <1>2, StageAt DEF Headers
    <2>fields. Is(progress[c], "header", Body(c), Query(c), Type(c), <<>>, Unsent, Unset)
      BY <2>1, IsMade DEF Built
    <2>2. CASE Header = <<"error">>
      <3>1. PICK next : Step(c, next) /\ next = EndCall(progress[c], "error")
        BY <1>2, <2>2 DEF Headers, Header
      <3>2. Is(next, "done", Body(c), Query(c), Type(c), <<>>, Unsent, "error")
        BY <2>fields, <3>1 DEF Is, EndCall, Sent
      <3>3. next = End(c)
        BY <3>2, <2>1, <2>2, IsMade DEF End
      <3> QED BY <1>0, <2>1, <2>2, <3>1, <3>3, ProgressStep DEF Stage
    <2>3. CASE Header # <<"error">>
      <3>1. PICK next : Step(c, next) /\ next = [progress[c] EXCEPT !.at = "do", !.header = Header]
        BY <1>2, <2>3 DEF Headers, Header
      <3>2. Is(next, "do", Body(c), Query(c), Type(c), Header, Unsent, Unset)
        BY <2>fields, <3>1 DEF Is, Sent
      <3>3. next = Headed(c)
        BY <3>2, IsMade DEF Headed
      <3> QED BY <1>0, <2>1, <2>3, <3>1, <3>3, ProgressStep DEF Stage, Sendable
    <2> QED BY <2>2, <2>3
  <1>3. ASSUME NetBuild PROVE HttpInv'
    <2>1. progress["net"] = Encoded /\ ~BadData(request)
      BY <1>0, <1>3, StageAt DEF NetBuild
    <2>fields. Is(progress["net"], "build", BodyOf(request), <<>>, Unset, <<>>, Unsent, Unset)
      BY <2>1, IsMade DEF Encoded
    <2>2. CASE request.url = "bad"
      <3>1. PICK next : Step("net", next) /\ next = EndCall(progress["net"], "panic")
        BY <1>3, <2>2 DEF NetBuild
      <3>2. Is(next, "done", BodyOf(request), <<>>, Unset, <<>>, Unsent, "panic")
        BY <2>fields, <3>1 DEF Is, EndCall, Sent
      <3>3. next = End("net")
        BY <3>2, <2>1, <2>2, IsMade DEF End
      <3> QED BY <1>0, <2>1, <2>2, <3>1, <3>3, ProgressStep DEF Stage
    <2>3. CASE request.url # "bad"
      <3>1. PICK next : Step("net", next) /\ next = [progress["net"] EXCEPT !.at = "header", !.contentType = Type("net"), !.query = Query("net")]
        BY <1>3, <2>3 DEF NetBuild, Query, Type
      <3>2. Is(next, "header", Body("net"), Query("net"), Type("net"), <<>>, Unsent, Unset)
        BY <2>fields, <3>1 DEF Is, Sent, Body
      <3>3. next = Built("net")
        BY <3>2, IsMade DEF Built
      <3> QED BY <1>0, <2>1, <2>3, <3>1, <3>3, ProgressStep DEF Stage
    <2> QED BY <2>2, <2>3
  <1>4. ASSUME FastBuild PROVE HttpInv'
    <2>1. progress["fast"] = Encoded /\ ~BadData(request)
      BY <1>0, <1>4, StageAt DEF FastBuild
    <2>fields. Is(progress["fast"], "build", BodyOf(request), <<>>, Unset, <<>>, Unsent, Unset)
      BY <2>1, IsMade DEF Encoded
    <2>2. CASE request.url = "bad"
      <3>1. PICK next : Step("fast", next) /\ next = EndCall(progress["fast"], "panic")
        BY <1>4, <2>2 DEF FastBuild
      <3>2. Is(next, "done", BodyOf(request), <<>>, Unset, <<>>, Unsent, "panic")
        BY <2>fields, <3>1 DEF Is, EndCall, Sent
      <3>3. next = End("fast")
        BY <3>2, <2>1, <2>2, IsMade DEF End
      <3> QED BY <1>0, <2>1, <2>2, <3>1, <3>3, ProgressStep DEF Stage
    <2>3. CASE request.url # "bad"
      <3>1. PICK next : Step("fast", next) /\ next = [progress["fast"] EXCEPT !.at = "header",
                      !.contentType = Type("fast"), !.body = FastBody(@), !.query = Query("fast")]
        BY <1>4, <2>3 DEF FastBuild, Query, Type
      <3>2. Is(next, "header", Body("fast"), Query("fast"), Type("fast"), <<>>, Unsent, Unset)
        BY <2>fields, <3>1 DEF Is, Sent, Body
      <3>3. next = Built("fast")
        BY <3>2, IsMade DEF Built
      <3> QED BY <1>0, <2>1, <2>3, <3>1, <3>3, ProgressStep DEF Stage
    <2> QED BY <2>2, <2>3
  <1>5. ASSUME NetDo PROVE HttpInv'
    <2>1. progress["net"] = Headed("net") /\ Sendable
      BY <1>0, <1>5, StageAt DEF NetDo
    <2>fields. Is(progress["net"], "do", Body("net"), Query("net"), Type("net"), Header, Unsent, Unset)
      BY <2>1, IsMade DEF Headed
    <2>2. CASE answer \in {"down", "500"}
      <3>1. PICK next : Step("net", next) /\ next = EndCall([progress["net"] EXCEPT !.sent = TRUE], "error")
        BY <1>5, <2>2 DEF NetDo
      <3>2. Is(next, "done", Body("net"), Query("net"), Type("net"), Header, Sent, "error")
        BY <2>fields, <3>1 DEF Is, EndCall, Sent
      <3>3. next = End("net")
        BY <3>2, <2>1, <2>2, IsMade DEF End, Sendable, Outcome
      <3> QED BY <1>0, <2>1, <2>2, <3>1, <3>3, ProgressStep DEF Stage
    <2>3. CASE answer \notin {"down", "500"}
      <3>1. PICK next : Step("net", next) /\ next = [[progress["net"] EXCEPT !.sent = TRUE] EXCEPT !.at = "read"]
        BY <1>5, <2>3 DEF NetDo
      <3>2. Is(next, "read", BodyOf(request), Query("net"), Type("net"), Header, Sent, Unset)
        BY <2>fields, <3>1 DEF Is, Sent, Body
      <3>3. next = Reading
        BY <3>2, IsMade DEF Reading
      <3> QED BY <1>0, <2>1, <2>3, <3>1, <3>3, ProgressStep DEF Stage
    <2> QED BY <2>2, <2>3
  <1>6. ASSUME NetRead PROVE HttpInv'
    <2>1. progress["net"] = Reading /\ Sendable /\ answer \notin {"down", "500"}
      BY <1>0, <1>6, StageAt DEF NetRead
    <2>fields. Is(progress["net"], "read", BodyOf(request), Query("net"), Type("net"), Header, Sent, Unset)
      BY <2>1, IsMade DEF Reading
    <2>2. Outcome("net") = IF ~request.respData \/ answer \in {"json", "redirect"} THEN "ok" ELSE "error"
      BY <2>1 DEF Outcome
    <2>3. PICK next : Step("net", next) /\ next = EndCall(progress["net"], Outcome("net"))
      BY <1>6, <2>2 DEF NetRead
    <2>4. Is(next, "done", Body("net"), Query("net"), Type("net"), Header, Sent, Outcome("net"))
      BY <2>fields, <2>3 DEF Is, EndCall, Sent, Body
    <2>5. next = End("net")
      BY <2>1, <2>4, IsMade DEF End, Sendable
    <2> QED BY <1>0, <2>3, <2>5, ProgressStep DEF Stage
  <1>7. ASSUME FastDo PROVE HttpInv'
    <2>1. progress["fast"] = Headed("fast") /\ Sendable
      BY <1>0, <1>7, StageAt DEF FastDo
    <2>fields. Is(progress["fast"], "do", Body("fast"), Query("fast"), Type("fast"), Header, Unsent, Unset)
      BY <2>1, IsMade DEF Headed
    <2>2. PICK next : Step("fast", next) /\ next = EndCall([progress["fast"] EXCEPT !.sent = TRUE], Outcome("fast"))
      <3>1. Outcome("fast") = IF request.respData /\ answer = "json" THEN "ok" ELSE "error"
        BY DEF Outcome
      <3> QED BY <1>7, <3>1 DEF FastDo
    <2>3. Is(next, "done", Body("fast"), Query("fast"), Type("fast"), Header, Sent, Outcome("fast"))
      BY <2>fields, <2>2 DEF Is, EndCall, Sent
    <2>4. next = End("fast")
      BY <2>1, <2>3, IsMade DEF End, Sendable
    <2> QED BY <1>0, <2>2, <2>4, ProgressStep DEF Stage
  <1>8. CASE UNCHANGED httpVars
    <2>1. ASSUME NEW d \in Clients, NEW p, Stage(d, p) PROVE Stage(d, p)'
      BY <1>8, <2>1 DEF httpVars, Stage, Sendable, Encoded, Reading, Built, Headed, End, Outcome, Body, Query,
                        Header, Type, FastBody
    <2>2. ASSUME NEW d \in Clients PROVE Stage(d, progress[d])'
      <3>1. PICK p : p = progress'[d] /\ Stage(d, p)
        BY <1>0, <1>8 DEF httpVars
      <3>2. Stage(d, p)'
        BY <2>1, <3>1
      <3> QED BY <3>1, <3>2 DEF Stage
    <2> QED BY <1>8, <2>2 DEF httpVars, HttpInv
  <1> QED BY <1>1, <1>2, <1>3, <1>4, <1>5, <1>6, <1>7, <1>8 DEF HttpNext

LEMMA HttpAlways == HttpSpec => []HttpInv
  BY HttpStart, HttpStep, PTL DEF HttpSpec

\* What a call that returned nil leaves behind.
LEMMA OkRecord ==
    ASSUME HttpInv, NEW c \in Clients, progress[c].result = "ok"
    PROVE  /\ Sendable /\ Outcome(c) = "ok"
           /\ progress[c] = Made("done", Body(c), Query(c), Type(c), Header, TRUE, "ok")
  <1>1. PICK p : p = progress[c] /\ Stage(c, p) /\ p.result = "ok"
    BY DEF HttpInv
  <1>2. /\ Fresh.result # "ok" /\ Encoded.result # "ok" /\ Built(c).result # "ok"
        /\ Headed(c).result # "ok" /\ Reading.result # "ok"
    BY DEF Fresh, Encoded, Built, Headed, Reading, Made, Unset
  <1>3. p = End(c)
    BY <1>1, <1>2 DEF Stage
  <1>4. Sendable
    BY <1>1, <1>3 DEF End, Made, Sendable
  <1>5. p = Made("done", Body(c), Query(c), Type(c), Header, Sent, Outcome(c))
    BY <1>3, <1>4 DEF End, Sendable
  <1>6. Outcome(c) = "ok"
    BY <1>1, <1>5 DEF Made
  <1> QED BY <1>1, <1>4, <1>5, <1>6 DEF Sent

\* Nothing in front of a form leaves the form.
LEMMA FormIsItems ==
    ASSUME NEW r
    PROVE  FormOf(r) = Items(r.value) /\ <<>> \o FormOf(r) = FormOf(r)
  <1>1. FormOf(r) = Items(r.value)
    BY DEF FormOf, setFormValue
  <1>2. \A S : \A x, y \in S : <<x, y>> \in Seq(S) /\ <<x>> \in Seq(S)
    OBVIOUS
  <1>3. FormOf(r) \in Seq({"a", "b"})
    <2>1. FormOf(r) = <<"a", "b">> \/ FormOf(r) = <<"a">>
      BY <1>1 DEF Items
    <2>2. "a" \in {"a", "b"} /\ "b" \in {"a", "b"}
      OBVIOUS
    <2> QED BY <1>2, <2>1, <2>2
  <1> QED BY <1>1, <1>3, ConcatEmptySeq

\* No error is swallowed on the way from the data to the decoded answer
\* (client/http/client.go, RequestJSON of both clients).
THEOREM SuccessSoundHolds == HttpSpec => []SuccessSound
  <1>1. ASSUME HttpInv PROVE SuccessSound
    <2> SUFFICES ASSUME NEW c \in Clients, progress[c].result = "ok"
                 PROVE  /\ progress[c].sent /\ ~BadData(request)
                        /\ answer \notin {"down", "500"} /\ (request.respData => answer \in {"json", "redirect"})
                        /\ c = "fast" => answer # "redirect"
                        /\ HasForm(request) /\ request.format = "QueryString" /\ request.url = "plain" =>
                             progress[c].query = Items(request.value)
                        /\ request.format = "JSON" => progress[c].contentType = "json"
                        /\ HasForm(request) /\ request.format = "Form" /\ request.method = "POST" =>
                             progress[c].body = Items(request.value) /\ progress[c].contentType = "form"
      BY DEF SuccessSound
    <2>1. Sendable /\ Outcome(c) = "ok"
      BY <1>1, OkRecord
    <2>2. /\ progress[c].sent /\ progress[c].contentType = Type(c)
          /\ progress[c].query = Query(c) /\ progress[c].body = Body(c)
      <3>1. PICK p : p = progress[c] /\ p = Made("done", Body(c), Query(c), Type(c), Header, TRUE, "ok")
        BY <1>1, OkRecord
      <3>2. p.sent /\ p.contentType = Type(c) /\ p.query = Query(c) /\ p.body = Body(c)
        BY <3>1 DEF Made
      <3> QED BY <3>1, <3>2
    <2>3. /\ answer \notin {"down", "500"} /\ (request.respData => answer \in {"json", "redirect"})
          /\ c = "fast" => answer # "redirect"
      BY <1>1, <2>1 DEF Outcome, HttpInv
    <2>4. ASSUME HasForm(request), request.format = "QueryString", request.url = "plain"
          PROVE  progress[c].query = Items(request.value)
      <3>1. OwnQuery(request) = <<>>
        BY <2>4 DEF OwnQuery
      <3>2. Query(c) = FormOf(request)
        BY <2>4, <3>1, FormIsItems DEF Query
      <3> QED BY <2>2, <3>2, FormIsItems
    <2>5. ASSUME HasForm(request), request.format = "Form", request.method = "POST"
          PROVE  progress[c].body = Items(request.value)
      <3>1. request.data # "nil"
        BY <2>5 DEF HasForm, Formable
      <3>2. BodyOf(request) = FormOf(request)
        BY <2>5, <3>1 DEF BodyOf
      <3>3. Body(c) = BodyOf(request)
        BY <2>5 DEF Body, FastBody
      <3> QED BY <2>2, <3>2, <3>3, FormIsItems
    <2>6. /\ request.format = "JSON" => progress[c].contentType = "json"
          /\ request.format = "Form" => progress[c].contentType = "form"
      <3>1. /\ request.format = "JSON" => ContentType(request) = "json"
            /\ request.format = "Form" => ContentType(request) = "form"
        BY DEF ContentType
      <3>2. ContentType(request) # "" => Type(c) = ContentType(request)
        BY DEF Type, FastType
      <3> QED BY <2>2, <3>1, <3>2
    <2> QED BY <2>1, <2>2, <2>3, <2>4, <2>5, <2>6 DEF Sendable
  <1> QED BY <1>1, HttpAlways, PTL

-----------------------------------------------------------------------------
(* errors: least counterexamples stand for induction *)
\* Every set of numbers that is not empty has a least one.
LEMMA LeastNat ==
    ASSUME NEW T, T \subseteq Nat, T # {}
    PROVE  \E x \in T : \A y \in T : x <= y
  <1>1. PICK x \in T : \A y \in T : ~(<<y, x>> \in OpToRel(<, Nat))
    BY NatLessThanWellFounded, WFMin
  <1>2. \A y \in T : ~(y < x)
    BY <1>1 DEF OpToRel
  <1> QED BY <1>2

\* What Min chooses.
LEMMA MinIsLeast ==
    ASSUME NEW T, T \subseteq Nat, T # {}
    PROVE  Min(T) \in T /\ \A y \in T : Min(T) <= y
  BY LeastNat DEF Min

-----------------------------------------------------------------------------
(* errors: GRPCStatus *)

ErrorType(G) == [code : Codes \cup {InvalidCode}, detail : Details \cup {None}, cause : Int, grpcStatus : G]

\* The errors are records, and a cause is older than its wrapper.
ErrorsOK ==
    /\ \E G : err \in Seq(ErrorType(G))
    /\ \A i \in DOMAIN err : err[i].cause \notin Foreign => err[i].cause \in 1..(i - 1)

ErrorInv == ErrorsOK /\ StatusFresh

\* The equation of Causes for one error, and for the first n.
Links(f, i) == <<i>> \o IF err[i].cause \in Foreign THEN <<>> ELSE f[err[i].cause]
Follows(f, n) == f = [i \in 1..n |-> Links(f, i)]

\* Causes exists: the causes of an error are those of an older one, with itself
\* in front.
LEMMA CausesExist ==
    ASSUME ErrorsOK
    PROVE  \E f : Follows(f, Len(err))
  <1>0. PICK m \in Nat : m = Len(err) /\ DOMAIN err = 1..m
    BY DEF ErrorsOK
  <1> DEFINE Bad == {n \in 0..m : ~\E f : Follows(f, n)}
  <1>1. SUFFICES ASSUME Bad # {} PROVE FALSE
    <2>1. m \in 0..m
      OBVIOUS
    <2> QED BY <1>0, <2>1
  <1>2. PICK n \in Bad : \A k \in Bad : n <= k
    <2>1. Bad \subseteq Nat
      OBVIOUS
    <2> HIDE DEF Bad
    <2> QED BY <1>1, <2>1, LeastNat
  <1>3. n # 0
    <2>1. Follows(<<>>, 0)
      BY DEF Follows
    <2> QED BY <2>1
  <1>4. n - 1 \in 0..m /\ n - 1 \notin Bad
    BY <1>2, <1>3
  <1>5. PICK f : Follows(f, n - 1)
    BY <1>4
  <1>6. PICK g : g = [i \in 1..n |-> Links(f, i)]
    OBVIOUS
  <1>7. ASSUME NEW i \in 1..(n - 1) PROVE i \in 1..n /\ g[i] = f[i]
    <2>1. i \in 1..n
      BY <1>4
    <2> QED BY <1>5, <1>6, <2>1 DEF Follows
  <1>8. ASSUME NEW i \in 1..n PROVE Links(f, i) = Links(g, i)
    <2>1. CASE err[i].cause \in Foreign
      BY <2>1 DEF Links
    <2>2. CASE err[i].cause \notin Foreign
      <3>1. err[i].cause \in 1..(i - 1)
        BY <1>0, <1>4, <2>2 DEF ErrorsOK
      <3>2. err[i].cause \in 1..(n - 1)
        BY <1>4, <3>1
      <3> QED BY <1>7, <3>2 DEF Links
    <2> QED BY <2>1, <2>2
  <1>9. Follows(g, n)
    BY <1>6, <1>8 DEF Follows
  <1> QED BY <1>9

LEMMA CausesDef ==
    ASSUME ErrorsOK, NEW i \in DOMAIN err
    PROVE  Causes[i] = Links(Causes, i)
  <1> DEFINE P(f) == f = [j \in DOMAIN err |-> <<j>> \o IF err[j].cause \in Foreign THEN <<>> ELSE f[err[j].cause]]
  <1>1. \E f : P(f)
    <2>1. Len(err) \in Nat /\ DOMAIN err = 1..Len(err)
      BY DEF ErrorsOK
    <2>2. PICK f : Follows(f, Len(err))
      BY CausesExist
    <2> QED BY <2>1, <2>2 DEF Follows, Links
  <1>2. Causes = CHOOSE f : P(f)
    BY DEF Causes
  <1> HIDE DEF P
  <1>3. P(Causes)
    BY <1>1, <1>2
  <1> QED BY <1>3 DEF P, Links

\* What is known of the causes of an error: it comes first, the last one has a
\* foreign cause, and the causes of each are those that follow.
Linked(i) ==
    /\ Causes[i] \in Seq(DOMAIN err) /\ Len(Causes[i]) >= 1 /\ Causes[i][1] = i
    /\ \A k \in 1..Len(Causes[i]) : err[Causes[i][k]].cause \in Foreign <=> k = Len(Causes[i])
    /\ \A k \in 1..Len(Causes[i]) :
          /\ Len(Causes[Causes[i][k]]) = Len(Causes[i]) - k + 1
          /\ \A n \in 1..(Len(Causes[i]) - k + 1) : Causes[Causes[i][k]][n] = Causes[i][n + k - 1]

LEMMA CausesLinked ==
    ASSUME ErrorsOK
    PROVE  \A i \in DOMAIN err : Linked(i)
  <1> DEFINE Bad == {i \in DOMAIN err : ~Linked(i)}
  <1>1. SUFFICES ASSUME Bad # {} PROVE FALSE
    OBVIOUS
  <1>2. PICK m \in Nat : DOMAIN err = 1..m
    BY DEF ErrorsOK
  <1>3. PICK i \in Bad : \A k \in Bad : i <= k
    <2>1. Bad \subseteq Nat
      BY <1>2
    <2> HIDE DEF Bad
    <2> QED BY <1>1, <2>1, LeastNat
  <1>4. i \in DOMAIN err /\ Causes[i] = Links(Causes, i)
    BY CausesDef
  <1>5. CASE err[i].cause \in Foreign
    <2>1. Causes[i] = <<i>>
      <3>1. Causes[i] = <<i>> \o <<>>
        BY <1>4, <1>5 DEF Links
      <3>2. <<i>> \in Seq(DOMAIN err)
        BY <1>4
      <3> QED BY <3>1, <3>2, ConcatEmptySeq
    <2>2. Causes[i] \in Seq(DOMAIN err) /\ Len(Causes[i]) = 1 /\ Causes[i][1] = i
      BY <1>4, <2>1
    <2>3. ASSUME NEW k \in 1..Len(Causes[i]) PROVE k = 1 /\ Causes[i][k] = i
      BY <2>2
    <2>4. \A k \in 1..Len(Causes[i]) : err[Causes[i][k]].cause \in Foreign <=> k = Len(Causes[i])
      BY <1>5, <2>2, <2>3
    <2>5. ASSUME NEW k \in 1..Len(Causes[i])
          PROVE  /\ Len(Causes[Causes[i][k]]) = Len(Causes[i]) - k + 1
                 /\ \A n \in 1..(Len(Causes[i]) - k + 1) : Causes[Causes[i][k]][n] = Causes[i][n + k - 1]
      <3>1. k = 1 /\ Causes[Causes[i][k]] = Causes[i] /\ Len(Causes[i]) = 1
        BY <2>2, <2>3
      <3>2. \A n \in Int : n + k - 1 = n
        BY <3>1
      <3> QED BY <3>1, <3>2
    <2>6. Linked(i)
      BY <2>2, <2>4, <2>5 DEF Linked
    <2> QED BY <2>6
  <1>6. CASE err[i].cause \notin Foreign
    <2>1. PICK c \in DOMAIN err : c = err[i].cause /\ c < i
      BY <1>2, <1>4, <1>6 DEF ErrorsOK
    <2>2. Linked(c)
      BY <1>2, <1>3, <1>4, <2>1
    <2>3. PICK r \in Seq(DOMAIN err) : r = Causes[c]
      BY <2>2 DEF Linked
    <2>4. PICK s : s = Causes[i]
      OBVIOUS
    <2>5. s = <<i>> \o r
      BY <1>4, <1>6, <2>1, <2>3, <2>4 DEF Links
    <2>6. /\ s \in Seq(DOMAIN err) /\ Len(s) = Len(r) + 1 /\ Len(r) \in Nat /\ Len(r) >= 1 /\ s[1] = i
          /\ \A k \in 1..Len(r) : s[k + 1] = r[k]
      BY <1>4, <2>2, <2>3, <2>5 DEF Linked
    <2>7. \A k \in 1..Len(s) : k # 1 => k - 1 \in 1..Len(r) /\ s[k] = r[k - 1]
      <3>1. ASSUME NEW k \in 1..Len(s), k # 1 PROVE k - 1 \in 1..Len(r) /\ (k - 1) + 1 = k
        BY <2>6, <3>1
      <3> QED BY <2>6, <3>1
    <2>8. \A k \in 1..Len(s) : err[s[k]].cause \in Foreign <=> k = Len(s)
      <3> SUFFICES ASSUME NEW k \in 1..Len(s) PROVE err[s[k]].cause \in Foreign <=> k = Len(s)
        OBVIOUS
      <3>1. CASE k = 1
        BY <1>6, <2>6, <3>1
      <3>2. CASE k # 1
        <4>1. err[r[k - 1]].cause \in Foreign <=> k - 1 = Len(r)
          BY <2>2, <2>3, <2>7, <3>2 DEF Linked
        <4> QED BY <2>6, <2>7, <3>2, <4>1
      <3> QED BY <3>1, <3>2
    <2>9. ASSUME NEW k \in 1..Len(s)
          PROVE  /\ Len(Causes[s[k]]) = Len(s) - k + 1
                 /\ \A n \in 1..(Len(s) - k + 1) : Causes[s[k]][n] = s[n + k - 1]
      <3>1. CASE k = 1
        BY <2>4, <2>6, <3>1
      <3>2. CASE k # 1
        <4>1. PICK l \in 1..Len(r) : l = k - 1 /\ s[k] = r[l]
          BY <2>7, <3>2
        <4>2. /\ Len(Causes[r[l]]) = Len(r) - l + 1
              /\ \A n \in 1..(Len(r) - l + 1) : Causes[r[l]][n] = r[n + l - 1]
          BY <2>2, <2>3 DEF Linked
        <4>3. Len(s) - k + 1 = Len(r) - l + 1
          BY <2>6, <4>1
        <4>4. ASSUME NEW n \in 1..(Len(s) - k + 1) PROVE Causes[s[k]][n] = s[n + k - 1]
          <5>1. n + l - 1 \in 1..Len(r) /\ (n + l - 1) + 1 = n + k - 1
            BY <2>6, <4>1, <4>3
          <5>2. s[(n + l - 1) + 1] = r[n + l - 1]
            BY <2>6, <5>1
          <5> QED BY <4>1, <4>2, <4>3, <5>1, <5>2
        <4> QED BY <4>1, <4>2, <4>3, <4>4
      <3> QED BY <3>1, <3>2
    <2>10. Linked(i)
      BY <2>4, <2>6, <2>8, <2>9 DEF Linked
    <2> QED BY <2>10
  <1> QED BY <1>5, <1>6

\* Where the status that a call of GRPCStatus caches comes from.
LEMMA ProviderFirst ==
    ASSUME ErrorsOK, NEW i \in DOMAIN err
    PROVE  /\ Causes[i] \in Seq(DOMAIN err)
           /\ Provider(Causes[i]) \in 1..Len(Causes[i])
           /\ Stops(Causes[i][Provider(Causes[i])])
           /\ \A k \in 1..Len(Causes[i]) : Stops(Causes[i][k]) => Provider(Causes[i]) <= k
  <1>1. PICK chain \in Seq(DOMAIN err) : chain = Causes[i]
    BY CausesLinked DEF Linked
  <1>2. PICK T : T = {k \in DOMAIN chain : Stops(chain[k])}
    OBVIOUS
  <1>3. Len(chain) \in 1..Len(chain) /\ Stops(chain[Len(chain)])
    <2>1. Len(chain) >= 1 /\ \A k \in 1..Len(chain) : err[chain[k]].cause \in Foreign <=> k = Len(chain)
      BY <1>1, CausesLinked DEF Linked
    <2>2. Len(chain) \in 1..Len(chain)
      BY <2>1
    <2> QED BY <2>1, <2>2 DEF Stops
  <1>4. T \subseteq Nat /\ T # {}
    BY <1>1, <1>2, <1>3
  <1>5. Provider(chain) = Min(T)
    BY <1>2 DEF Provider
  <1>6. Provider(chain) \in T /\ \A k \in T : Provider(chain) <= k
    BY <1>4, <1>5, MinIsLeast
  <1> QED BY <1>1, <1>2, <1>6

\* The details of an error begin with its own entry.
LEMMA OwnDetail ==
    ASSUME ErrorsOK, NEW i \in DOMAIN err
    PROVE  detailProto(i)[1] = Entry(i)
  <1>1. CASE ~grpcDebugMode
    BY <1>1 DEF detailProto
  <1>2. CASE grpcDebugMode
    <2>1. PICK chain \in Seq(DOMAIN err) : chain = Causes[i] /\ Len(chain) >= 1 /\ chain[1] = i
      BY CausesLinked DEF Linked
    <2>2. PICK S : S = {Entry(chain[k]) : k \in DOMAIN chain} \cup {[error |-> 0, detail |-> None]}
      OBVIOUS
    <2>3. PICK own \in Seq(S) : own = [k \in DOMAIN chain |-> Entry(chain[k])]
      <3>1. [k \in 1..Len(chain) |-> Entry(chain[k])] \in Seq(S)
        BY <2>2
      <3>2. DOMAIN chain = 1..Len(chain)
        BY <2>1
      <3> QED BY <3>1, <3>2
    <2>4. PICK rest \in Seq(S) : rest = IF Root(i) = NoCause THEN <<>> ELSE <<[error |-> 0, detail |-> None]>>
      <3>1. PICK last \in S : last = [error |-> 0, detail |-> None]
        BY <2>2
      <3>2. <<>> \in Seq(S) /\ <<last>> \in Seq(S)
        OBVIOUS
      <3>3. CASE Root(i) = NoCause
        BY <3>2, <3>3
      <3>4. CASE Root(i) # NoCause
        BY <3>1, <3>2, <3>4
      <3> QED BY <3>3, <3>4
    <2>5. detailProto(i) = own \o rest
      BY <1>2, <2>1, <2>3, <2>4 DEF detailProto
    <2>6. own[1] = Entry(i) /\ Len(own) \in Nat /\ Len(own) >= 1 /\ Len(rest) \in Nat
      BY <2>1, <2>3
    <2>7. (own \o rest)[1] = own[1]
      <3>1. 1 \in 1..(Len(own) + Len(rest)) /\ 1 <= Len(own)
        BY <2>6
      <3> QED BY <3>1, ConcatProperties
    <2> QED BY <2>5, <2>6, <2>7
  <1> QED BY <1>1, <1>2

\* A step after which every error has no status, or the one and the fields it had.
LEMMA FreshKept ==
    ASSUME StatusFresh,
           \A j \in DOMAIN err' : err'[j].grpcStatus = None \/ (j \in DOMAIN err /\ err'[j] = err[j])
    PROVE  StatusFresh'
  BY DEF StatusFresh, Entry

\* The record of a status, field by field.
LEMMA StatusFields ==
    ASSUME NEW i, NEW code
    PROVE  /\ NewStatus(i, code).code = code /\ NewStatus(i, code).message = i
           /\ NewStatus(i, code).details = IF code = OK THEN <<>> ELSE detailProto(i)
  BY DEF NewStatus

\* What a call of GRPCStatus changes.
LEMMA StatusCached ==
    ASSUME ErrorsOK, NEW i \in DOMAIN err, GRPCStatus(i)
    PROVE  \E p \in DOMAIN Causes[i] : \E e \in DOMAIN err :
             /\ e = Causes[i][p] /\ Stops(e) /\ \A k \in 1..(p - 1) : ~Stops(Causes[i][k])
             /\ DOMAIN err' = DOMAIN err
             /\ \A j \in DOMAIN err :
                  IF \E k \in 1..p : Causes[i][k] = j
                  THEN /\ err'[j].grpcStatus = Provided(e)
                       /\ err'[j].code = err[j].code /\ err'[j].detail = err[j].detail
                       /\ err'[j].cause = err[j].cause
                  ELSE err'[j] = err[j]
  <1>1. PICK p : p = Provider(Causes[i])
    OBVIOUS
  <1>2. p \in DOMAIN Causes[i] /\ Causes[i][p] \in DOMAIN err /\ Stops(Causes[i][p])
    BY <1>1, ProviderFirst
  <1>3. \A k \in 1..(p - 1) : ~Stops(Causes[i][k])
    <2>1. PICK n \in Nat : n = Len(Causes[i]) /\ p \in 1..n
      BY <1>1, ProviderFirst
    <2>2. ASSUME NEW k \in 1..(p - 1) PROVE k \in 1..n /\ ~(p <= k)
      BY <2>1
    <2> QED BY <1>1, <2>1, <2>2, ProviderFirst
  <1>4. err' = [j \in DOMAIN err |-> IF \E k \in 1..p : Causes[i][k] = j
                                     THEN [err[j] EXCEPT !.grpcStatus = Provided(Causes[i][p])] ELSE err[j]]
    BY <1>1 DEF GRPCStatus
  <1>5. PICK G : err \in Seq(ErrorType(G))
    BY DEF ErrorsOK
  <1>6. ASSUME NEW j \in DOMAIN err, NEW x
        PROVE  /\ [err[j] EXCEPT !.grpcStatus = x].grpcStatus = x
               /\ [err[j] EXCEPT !.grpcStatus = x].code = err[j].code
               /\ [err[j] EXCEPT !.grpcStatus = x].detail = err[j].detail
               /\ [err[j] EXCEPT !.grpcStatus = x].cause = err[j].cause
    BY <1>5 DEF ErrorType
  <1> QED BY <1>2, <1>3, <1>4, <1>6

\* A step that changes nothing but the fields of errors keeps them well formed.
LEMMA CausesKept ==
    ASSUME ErrorsOK, NEW G, err' \in [DOMAIN err -> ErrorType(G)],
           \A i \in DOMAIN err : err'[i].cause = err[i].cause
    PROVE  ErrorsOK'
  <1>1. PICK m \in Nat : DOMAIN err = 1..m
    BY DEF ErrorsOK
  <1>2. err' \in Seq(ErrorType(G)) /\ DOMAIN err' = 1..m
    BY <1>1
  <1> QED BY <1>1, <1>2 DEF ErrorsOK

LEMMA Widened ==
    ASSUME NEW G, NEW x
    PROVE  ErrorType(G) \subseteq ErrorType(G \cup {x})
  BY DEF ErrorType

\* Changing the code of an error keeps the errors well formed and drops its status.
LEMMA CodeChanged ==
    ASSUME ErrorsOK, NEW i \in DOMAIN err, NEW code \in Codes,
           err' = [err EXCEPT ![i].code = code, ![i].grpcStatus = None]
    PROVE  /\ ErrorsOK' /\ DOMAIN err' = DOMAIN err
           /\ err'[i].grpcStatus = None /\ \A j \in DOMAIN err : j # i => err'[j] = err[j]
  <1>1. PICK G : err \in Seq(ErrorType(G))
    BY DEF ErrorsOK
  <1>2. PICK m \in Nat : m = Len(err) /\ DOMAIN err = 1..m /\ i \in 1..m
    BY <1>1
  <1>3. PICK e : e = err'[i]
    OBVIOUS
  <1>4. /\ DOMAIN err' = 1..m /\ err' = [j \in 1..m |-> err'[j]]
        /\ \A j \in 1..m : j # i => err'[j] = err[j]
    BY <1>1, <1>2
  <1>5. e = [err[i] EXCEPT !.code = code, !.grpcStatus = None]
    BY <1>1, <1>2, <1>3
  <1>6. err[i] \in ErrorType(G)
    BY <1>1, <1>2
  <1>7. e \in ErrorType(G \cup {None}) /\ e.cause = err[i].cause /\ e.grpcStatus = None
    <2>1. PICK r \in ErrorType(G) : r = err[i]
      BY <1>6
    <2> QED BY <1>5, <2>1 DEF ErrorType
  <1>8. \A j \in 1..m : err'[j] \in ErrorType(G \cup {None}) /\ err'[j].cause = err[j].cause
    <2>1. \A j \in 1..m : err[j] \in ErrorType(G \cup {None})
      <3>1. \A j \in 1..m : err[j] \in ErrorType(G)
        BY <1>1, <1>2
      <3>2. ErrorType(G) \subseteq ErrorType(G \cup {None})
        BY Widened
      <3> QED BY <3>1, <3>2
    <2> QED BY <1>3, <1>4, <1>7, <2>1
  <1>9. err' \in [DOMAIN err -> ErrorType(G \cup {None})]
    BY <1>2, <1>4, <1>8
  <1>10. ErrorsOK'
    BY <1>2, <1>8, <1>9, CausesKept
  <1> QED BY <1>2, <1>3, <1>4, <1>7, <1>10

\* So does changing its detail.
LEMMA DetailChanged ==
    ASSUME ErrorsOK, NEW i \in DOMAIN err, NEW d \in Details,
           err' = [err EXCEPT ![i].detail = d, ![i].grpcStatus = None]
    PROVE  /\ ErrorsOK' /\ DOMAIN err' = DOMAIN err
           /\ err'[i].grpcStatus = None /\ \A j \in DOMAIN err : j # i => err'[j] = err[j]
  <1>1. PICK G : err \in Seq(ErrorType(G))
    BY DEF ErrorsOK
  <1>2. PICK m \in Nat : m = Len(err) /\ DOMAIN err = 1..m /\ i \in 1..m
    BY <1>1
  <1>3. PICK e : e = err'[i]
    OBVIOUS
  <1>4. /\ DOMAIN err' = 1..m /\ err' = [j \in 1..m |-> err'[j]]
        /\ \A j \in 1..m : j # i => err'[j] = err[j]
    BY <1>1, <1>2
  <1>5. e = [err[i] EXCEPT !.detail = d, !.grpcStatus = None]
    BY <1>1, <1>2, <1>3
  <1>6. err[i] \in ErrorType(G)
    BY <1>1, <1>2
  <1>7. e \in ErrorType(G \cup {None}) /\ e.cause = err[i].cause /\ e.grpcStatus = None
    <2>1. PICK r \in ErrorType(G) : r = err[i]
      BY <1>6
    <2> QED BY <1>5, <2>1 DEF ErrorType
  <1>8. \A j \in 1..m : err'[j] \in ErrorType(G \cup {None}) /\ err'[j].cause = err[j].cause
    <2>1. \A j \in 1..m : err[j] \in ErrorType(G \cup {None})
      <3>1. \A j \in 1..m : err[j] \in ErrorType(G)
        BY <1>1, <1>2
      <3>2. ErrorType(G) \subseteq ErrorType(G \cup {None})
        BY Widened
      <3> QED BY <3>1, <3>2
    <2> QED BY <1>3, <1>4, <1>7, <2>1
  <1>9. err' \in [DOMAIN err -> ErrorType(G \cup {None})]
    BY <1>2, <1>4, <1>8
  <1>10. ErrorsOK'
    BY <1>2, <1>8, <1>9, CausesKept
  <1> QED BY <1>2, <1>3, <1>4, <1>7, <1>10

LEMMA ErrorsStep ==
    ASSUME ErrorsOK, [ErrorNext]_errorVars
    PROVE  ErrorsOK'
  <1>1. PICK G : err \in Seq(ErrorType(G))
    BY DEF ErrorsOK
  <1>2. PICK m \in Nat : m = Len(err) /\ DOMAIN err = 1..m
    BY <1>1
  <1>3. \A i \in 1..m : err[i].cause \notin Foreign => err[i].cause \in 1..(i - 1)
    BY <1>2 DEF ErrorsOK
  <1>5. ASSUME NEW c, c \in Foreign \/ c \in DOMAIN err, Wrap(c) PROVE ErrorsOK'
    <2>1. PICK S : S = ErrorType(G \cup {None})
      OBVIOUS
    <2>2. PICK r \in S : r = [code |-> InvalidCode, detail |-> None, cause |-> c, grpcStatus |-> None]
      <3>1. c \in Int
        BY <1>2, <1>5 DEF Foreign, NoCause, Plain, Remote
      <3> QED BY <2>1, <3>1 DEF ErrorType
    <2>3. \A i \in 1..m : err[i] \in S
      <3>1. \A i \in 1..m : err[i] \in ErrorType(G)
        BY <1>1, <1>2
      <3> QED BY <2>1, <3>1, Widened
    <2>4. err \in Seq(S)
      BY <1>1, <1>2, <2>3
    <2>5. err' = Append(err, r)
      BY <1>5, <2>2 DEF Wrap
    <2>6. /\ err' \in Seq(S) /\ DOMAIN err' = 1..(m + 1) /\ err'[m + 1] = r
          /\ \A i \in 1..m : err'[i] = err[i]
      BY <1>2, <2>4, <2>5, AppendProperties
    <2>7. r.cause = c
      BY <2>2
    <2>8. ASSUME NEW i \in 1..(m + 1), err'[i].cause \notin Foreign PROVE err'[i].cause \in 1..(i - 1)
      <3>1. CASE i = m + 1
        BY <1>2, <1>5, <2>6, <2>7, <2>8, <3>1
      <3>2. CASE i \in 1..m
        BY <1>3, <2>6, <2>8, <3>2
      <3> QED BY <3>1, <3>2
    <2> QED BY <2>1, <2>6, <2>8 DEF ErrorsOK, ErrorType
  <1>6. ASSUME NEW i \in DOMAIN err, NEW code \in Codes, WithCode(i, code) PROVE ErrorsOK'
    BY <1>6, CodeChanged DEF WithCode
  <1>7. ASSUME NEW i \in DOMAIN err, NEW d \in Details, With(i, d) PROVE ErrorsOK'
    BY <1>7, DetailChanged DEF With
  <1>8. ASSUME NEW i \in DOMAIN err, GRPCStatus(i) PROVE ErrorsOK'
    <2>0. PICK status : status = Provided(Causes[i][Provider(Causes[i])])
      OBVIOUS
    <2> DEFINE Passed(j) == \E k \in 1..Provider(Causes[i]) : Causes[i][k] = j
    <2>1. err' = [j \in DOMAIN err |-> IF Passed(j) THEN [err[j] EXCEPT !.grpcStatus = status] ELSE err[j]]
      BY <1>8, <2>0 DEF GRPCStatus
    <2> HIDE DEF Passed
    <2>2. ASSUME NEW j \in 1..m PROVE err'[j] \in ErrorType(G \cup {status}) /\ err'[j].cause = err[j].cause
      <3>1. PICK r \in ErrorType(G) : r = err[j]
        BY <1>1, <1>2
      <3>2. r \in ErrorType(G \cup {status})
        BY Widened
      <3>3. [r EXCEPT !.grpcStatus = status] \in ErrorType(G \cup {status})
            /\ [r EXCEPT !.grpcStatus = status].cause = r.cause
        BY DEF ErrorType
      <3> QED BY <1>2, <2>1, <3>1, <3>2, <3>3
    <2>3. err' \in [1..m -> ErrorType(G \cup {status})]
      BY <1>2, <2>1, <2>2
    <2> QED BY <1>2, <2>2, <2>3, CausesKept
  <1>9. CASE UNCHANGED err
    BY <1>9 DEF ErrorsOK
  <1>10. 0 \in Foreign
    BY DEF Foreign, NoCause
  <1> QED BY <1>5, <1>6, <1>7, <1>8, <1>9, <1>10 DEF ErrorNext, New, NoCause, SetGRPCDebugMode, errorVars

\* A step keeps the statuses fresh.
LEMMA FreshStep ==
    ASSUME ErrorsOK, StatusFresh, [ErrorNext]_errorVars
    PROVE  StatusFresh'
  <1>1. PICK m \in Nat : m = Len(err) /\ DOMAIN err = 1..m
    BY DEF ErrorsOK
  <1>2. PICK G : err \in Seq(ErrorType(G))
    BY DEF ErrorsOK
  <1>3. ASSUME NEW c, Wrap(c) PROVE StatusFresh'
    <2>1. PICK r : r = [code |-> InvalidCode, detail |-> None, cause |-> c, grpcStatus |-> None] /\ err' = Append(err, r)
      BY <1>3 DEF Wrap
    <2>2. r.grpcStatus = None
      BY <2>1
    <2>3. DOMAIN err' = 1..(m + 1) /\ err'[m + 1] = r /\ \A i \in 1..m : err'[i] = err[i]
      BY <1>1, <1>2, <2>1
    <2>4. ASSUME NEW j \in 1..(m + 1) PROVE j = m + 1 \/ j \in 1..m
      OBVIOUS
    <2>5. \A j \in DOMAIN err' : err'[j].grpcStatus = None \/ (j \in DOMAIN err /\ err'[j] = err[j])
      BY <1>1, <2>2, <2>3, <2>4
    <2> QED BY <2>5, FreshKept
  <1>4. ASSUME NEW i \in DOMAIN err, NEW code \in Codes, WithCode(i, code) PROVE StatusFresh'
    <2>1. DOMAIN err' = DOMAIN err /\ err'[i].grpcStatus = None /\ \A j \in DOMAIN err : j # i => err'[j] = err[j]
      BY <1>4, CodeChanged DEF WithCode
    <2>2. \A j \in DOMAIN err' : err'[j].grpcStatus = None \/ (j \in DOMAIN err /\ err'[j] = err[j])
      BY <2>1
    <2> QED BY <2>2, FreshKept
  <1>5. ASSUME NEW i \in DOMAIN err, NEW d \in Details, With(i, d) PROVE StatusFresh'
    <2>1. DOMAIN err' = DOMAIN err /\ err'[i].grpcStatus = None /\ \A j \in DOMAIN err : j # i => err'[j] = err[j]
      BY <1>5, DetailChanged DEF With
    <2>2. \A j \in DOMAIN err' : err'[j].grpcStatus = None \/ (j \in DOMAIN err /\ err'[j] = err[j])
      BY <2>1
    <2> QED BY <2>2, FreshKept
  <1>6. ASSUME NEW i \in DOMAIN err, GRPCStatus(i) PROVE StatusFresh'
    <2>1. PICK p \in DOMAIN Causes[i], e \in DOMAIN err :
             /\ e = Causes[i][p] /\ \A k \in 1..(p - 1) : ~Stops(Causes[i][k])
             /\ DOMAIN err' = DOMAIN err
             /\ \A j \in DOMAIN err :
                  IF \E k \in 1..p : Causes[i][k] = j
                  THEN /\ err'[j].grpcStatus = Provided(e)
                       /\ err'[j].code = err[j].code /\ err'[j].detail = err[j].detail
                  ELSE err'[j] = err[j]
      BY <1>6, StatusCached
    <2>2. p \in Nat
      BY CausesLinked DEF Linked
    <2> SUFFICES ASSUME NEW j \in DOMAIN err, err'[j].grpcStatus # None, err'[j].code # InvalidCode
                 PROVE  LET s == err'[j].grpcStatus IN
                        /\ s.code = err'[j].code /\ s.message = j
                        /\ s.code # OK => s.details[1] = Entry(j)'
      BY <2>1 DEF StatusFresh
    <2>3. Entry(j)' = Entry(j) /\ err'[j].code = err[j].code
      BY <2>1 DEF Entry
    <2>4. CASE ~\E k \in 1..p : Causes[i][k] = j
      BY <2>1, <2>3, <2>4 DEF StatusFresh
    <2>5. CASE \E k \in 1..p : Causes[i][k] = j
      <3>1. PICK k \in 1..p : Causes[i][k] = j
        BY <2>5
      <3>2. Stops(j)
        BY <2>3 DEF Stops
      <3>3. k \notin 1..(p - 1)
        BY <2>1, <3>1, <3>2
      <3>4. k = p /\ e = j
        BY <2>1, <2>2, <3>1, <3>3
      <3>5. err'[j].grpcStatus = Provided(j)
        BY <2>1, <2>5, <3>4
      <3>6. CASE err[j].grpcStatus # None
        BY <2>3, <3>5, <3>6 DEF Provided, StatusFresh
      <3>7. CASE err[j].grpcStatus = None
        <4>1. Provided(j) = NewStatus(j, err[j].code)
          BY <2>3, <3>7 DEF Provided
        <4> QED BY <2>3, <3>5, <4>1, StatusFields, OwnDetail
      <3> QED BY <3>6, <3>7
    <2> QED BY <2>4, <2>5
  <1>7. CASE UNCHANGED err
    BY <1>7 DEF StatusFresh, Entry
  <1> QED BY <1>3, <1>4, <1>5, <1>6, <1>7 DEF ErrorNext, New, SetGRPCDebugMode, errorVars

\* Where the status of an error that GRPCStatus passed comes from: the error e, which
\* has the nearest code or is the last of the causes, unless it answers from its
\* cache and has no code.
LEMMA NearestProvided ==
    ASSUME ErrorsOK, NEW i \in DOMAIN err, NEW p \in DOMAIN Causes[i], NEW e \in DOMAIN err,
           e = Causes[i][p], Stops(e), \A k \in 1..(p - 1) : ~Stops(Causes[i][k]),
           StatusFresh, NEW k \in 1..p
    PROVE  \/ Provided(e).code = NearestCode(Causes[i][k])
           \/ \E l \in DOMAIN Causes[Causes[i][k]] :
                /\ err[Causes[Causes[i][k]][l]].grpcStatus = Provided(e)
                /\ \A n \in 1..l : err[Causes[Causes[i][k]][n]].code = InvalidCode
  <1>1. PICK chain \in Seq(DOMAIN err) : chain = Causes[i]
    BY CausesLinked DEF Linked
  <1>2. PICK n \in Nat : n = Len(chain) /\ p \in 1..n /\ k \in 1..n
    BY <1>1
  <1>3. PICK j \in DOMAIN err : j = chain[k]
    BY <1>1, <1>2
  <1>4. PICK rest \in Seq(DOMAIN err) : rest = Causes[j]
    BY CausesLinked DEF Linked
  <1>5. /\ Len(rest) = n - k + 1
        /\ \A l \in 1..(n - k + 1) : rest[l] = chain[l + k - 1]
        /\ \A l \in 1..n : err[chain[l]].cause \in Foreign <=> l = n
    <2>1. Linked(i)
      BY CausesLinked
    <2>2. k \in 1..Len(Causes[i]) /\ Causes[i][k] = j /\ Len(Causes[i]) = n
      BY <1>1, <1>2, <1>3
    <2>3. /\ Len(Causes[j]) = n - k + 1
          /\ \A l \in 1..(n - k + 1) : Causes[j][l] = Causes[i][l + k - 1]
      BY <2>1, <2>2 DEF Linked
    <2>4. \A l \in 1..n : err[Causes[i][l]].cause \in Foreign <=> l = n
      BY <2>1, <2>2 DEF Linked
    <2> QED BY <1>1, <1>4, <2>3, <2>4
  <1>6. PICK q \in 1..(n - k + 1) : q = p - k + 1 /\ rest[q] = e
    <2>1. p - k + 1 \in 1..(n - k + 1) /\ (p - k + 1) + k - 1 = p
      BY <1>2
    <2> QED BY <1>1, <1>5, <2>1
  <1>7. ASSUME NEW l \in 1..(n - k + 1), l < q PROVE err[rest[l]].code = InvalidCode
    <2>1. l + k - 1 \in 1..(p - 1)
      BY <1>2, <1>6, <1>7
    <2>2. ~Stops(rest[l])
      BY <1>1, <1>5, <2>1
    <2> QED BY <2>2 DEF Stops
  <1>8. PICK coded : coded = {l \in DOMAIN rest : err[rest[l]].code # InvalidCode}
    OBVIOUS
  <1>9. NearestCode(j) = IF coded # {} THEN err[rest[Min(coded)]].code
                         ELSE IF Root(j) = Remote THEN RemoteStatus.code ELSE Unknown
    BY <1>4, <1>8 DEF NearestCode
  <1>10. DOMAIN rest = 1..(n - k + 1)
    BY <1>5
  <1>11. CASE err[e].code # InvalidCode
    <2>1. q \in coded /\ coded \subseteq Nat
      BY <1>6, <1>8, <1>10, <1>11
    <2>2. Min(coded) \in coded /\ Min(coded) <= q
      BY <2>1, MinIsLeast
    <2>3. Min(coded) \in 1..(n - k + 1) /\ ~(Min(coded) < q)
      BY <1>7, <1>8, <1>10, <2>2
    <2>4. Min(coded) = q
      BY <1>6, <2>2, <2>3
    <2>5. Provided(e).code = err[e].code
      <3>1. CASE err[e].grpcStatus = None
        <4>1. Provided(e) = NewStatus(e, err[e].code)
          BY <1>11, <3>1 DEF Provided
        <4> QED BY <4>1, StatusFields
      <3>2. CASE err[e].grpcStatus # None
        BY <1>11, <3>2 DEF Provided, StatusFresh
      <3> QED BY <3>1, <3>2
    <2> QED BY <1>1, <1>3, <1>6, <1>9, <2>1, <2>4, <2>5
  <1>12. CASE err[e].code = InvalidCode /\ err[e].grpcStatus # None
    <2>1. Provided(e) = err[e].grpcStatus
      BY <1>12 DEF Provided
    <2>2. ASSUME NEW l \in 1..q PROVE err[rest[l]].code = InvalidCode
      <3>1. l \in 1..(n - k + 1) /\ (l = q \/ l < q)
        BY <1>2, <1>6
      <3> QED BY <1>6, <1>7, <1>12, <3>1
    <2> QED BY <1>1, <1>3, <1>4, <1>6, <1>10, <2>1, <2>2
  <1>13. CASE err[e].code = InvalidCode /\ err[e].grpcStatus = None
    <2>1. err[e].cause \in Foreign
      BY <1>13 DEF Stops
    <2>2. p = n /\ q = n - k + 1
      BY <1>1, <1>2, <1>5, <1>6, <2>1
    <2>3. ASSUME NEW l \in 1..(n - k + 1) PROVE l = q \/ l < q
      <3>1. n - k + 1 \in Int /\ l <= n - k + 1
        BY <1>2
      <3> QED BY <2>2, <3>1
    <2>4. coded = {}
      BY <1>6, <1>7, <1>8, <1>10, <1>13, <2>3
    <2>5. Root(j) = err[e].cause
      BY <1>4, <1>5, <1>6, <2>2 DEF Root
    <2>6. Provided(e) = IF err[e].cause = Remote THEN RemoteStatus ELSE NewStatus(e, Unknown)
      BY <1>13 DEF Provided
    <2> QED BY <1>1, <1>3, <1>9, <2>4, <2>5, <2>6, StatusFields
  <1> QED BY <1>11, <1>12, <1>13

\* What InheritsNearest says of one error in one step.
Inherits(j) ==
    \/ err'[j].grpcStatus.code = NearestCode(j)
    \/ \E k \in DOMAIN Causes[j] :
         /\ err[Causes[j][k]].grpcStatus = err'[j].grpcStatus
         /\ \A l \in 1..k : err[Causes[j][l]].code = InvalidCode

LEMMA NearestStep ==
    ASSUME ErrorsOK, StatusFresh, ErrorNext, NEW j \in DOMAIN err,
           err[j].grpcStatus = None, err'[j].grpcStatus # None
    PROVE  Inherits(j)
  <1>2. ASSUME NEW c, Wrap(c) PROVE FALSE
    <2>1. PICK G : err \in Seq(ErrorType(G))
      BY DEF ErrorsOK
    <2>2. err'[j] = err[j]
      BY <1>2, <2>1 DEF Wrap
    <2> QED BY <2>2
  <1>3. ASSUME NEW i \in DOMAIN err, NEW code \in Codes, WithCode(i, code) PROVE FALSE
    <2>1. err'[i].grpcStatus = None /\ \A l \in DOMAIN err : l # i => err'[l] = err[l]
      BY <1>3, CodeChanged DEF WithCode
    <2> QED BY <2>1
  <1>4. ASSUME NEW i \in DOMAIN err, NEW d \in Details, With(i, d) PROVE FALSE
    <2>1. err'[i].grpcStatus = None /\ \A l \in DOMAIN err : l # i => err'[l] = err[l]
      BY <1>4, DetailChanged DEF With
    <2> QED BY <2>1
  <1>5. ASSUME NEW i \in DOMAIN err, GRPCStatus(i) PROVE Inherits(j)
    <2>1. PICK p \in DOMAIN Causes[i], e \in DOMAIN err :
             /\ e = Causes[i][p] /\ Stops(e) /\ \A k \in 1..(p - 1) : ~Stops(Causes[i][k])
             /\ \A l \in DOMAIN err :
                  IF \E k \in 1..p : Causes[i][k] = l
                  THEN err'[l].grpcStatus = Provided(e)
                  ELSE err'[l] = err[l]
      BY <1>5, StatusCached
    <2>2. PICK k \in 1..p : Causes[i][k] = j
      BY <2>1
    <2>3. err'[j].grpcStatus = Provided(e)
      BY <2>1, <2>2
    <2> QED BY <2>1, <2>2, <2>3, NearestProvided DEF Inherits
  <1>6. CASE UNCHANGED err
    BY <1>6
  <1> QED BY <1>2, <1>3, <1>4, <1>5, <1>6 DEF ErrorNext, New, SetGRPCDebugMode

LEMMA ErrorAlways == ErrorSpec => [](ErrorsOK /\ StatusFresh)
  <1>1. ErrorInit => ErrorsOK /\ StatusFresh
    BY DEF ErrorInit, ErrorsOK, StatusFresh
  <1>2. ErrorsOK /\ StatusFresh /\ [ErrorNext]_errorVars => ErrorsOK' /\ StatusFresh'
    BY ErrorsStep, FreshStep
  <1> QED BY <1>1, <1>2, PTL DEF ErrorSpec

\* An error with a code of its own never answers with what it or its causes were
\* before (errors/error.go, GRPCStatus and the mutators).
THEOREM StatusFreshHolds == ErrorSpec => []StatusFresh
  BY ErrorAlways, PTL

\* A status that is made anew has the outermost code that is set; nothing but the
\* cache of an error without a code can come in front of it (errors/error.go,
\* GRPCStatus).
THEOREM InheritsNearestHolds == ErrorSpec => InheritsNearest
  <1>1. ErrorsOK /\ StatusFresh /\ [ErrorNext]_errorVars =>
          [\A i \in DOMAIN err :
             err[i].grpcStatus = None /\ err'[i].grpcStatus # None => Inherits(i)]_errorVars
    BY NearestStep
  <1>2. ErrorsOK /\ StatusFresh /\ [ErrorNext]_errorVars =>
          [\A i \in DOMAIN err :
             err[i].grpcStatus = None /\ err'[i].grpcStatus # None =>
               \/ err'[i].grpcStatus.code = NearestCode(i)
               \/ \E k \in DOMAIN Causes[i] :
                    /\ err[Causes[i][k]].grpcStatus = err'[i].grpcStatus
                    /\ \A l \in 1..k : err[Causes[i][l]].code = InvalidCode]_errorVars
    BY <1>1 DEF Inherits
  <1> QED BY <1>2, ErrorAlways, PTL DEF ErrorSpec, InheritsNearest

-----------------------------------------------------------------------------
(* appmgr: the chains of middlewares *)

\* The equation of kept for one n, and for the first N.
KeptTo(f, s, T, n) ==
    IF n = 0 THEN <<>> ELSE IF s[n] \in T THEN Append(f[n - 1], s[n]) ELSE f[n - 1]
Keeps(f, s, T, N) == f = [n \in 0..N |-> KeptTo(f, s, T, n)]

LEMMA KeptExists ==
    ASSUME NEW s, NEW T, NEW N \in Nat
    PROVE  \E f : Keeps(f, s, T, N)
  <1> DEFINE Bad == {n \in Nat : ~\E f : Keeps(f, s, T, n)}
  <1>1. SUFFICES ASSUME Bad # {} PROVE FALSE
    OBVIOUS
  <1>2. PICK n \in Bad : \A k \in Bad : n <= k
    <2>1. Bad \subseteq Nat
      OBVIOUS
    <2> HIDE DEF Bad
    <2> QED BY <1>1, <2>1, LeastNat
  <1>3. n # 0
    <2>1. PICK f : f = [k \in 0..0 |-> <<>>]
      OBVIOUS
    <2>2. f = [k \in 0..0 |-> KeptTo(f, s, T, k)]
      BY <2>1 DEF KeptTo
    <2>3. Keeps(f, s, T, 0)
      BY <2>2 DEF Keeps
    <2> QED BY <2>3
  <1>4. n - 1 \in Nat /\ n - 1 \notin Bad
    BY <1>2, <1>3
  <1>5. PICK f : Keeps(f, s, T, n - 1)
    BY <1>4
  <1>6. PICK g : g = [k \in 0..n |-> KeptTo(f, s, T, k)]
    OBVIOUS
  <1>7. ASSUME NEW k \in 0..(n - 1) PROVE k \in 0..n /\ g[k] = f[k]
    <2>1. k \in 0..n
      BY <1>4
    <2> QED BY <1>5, <1>6, <2>1 DEF Keeps
  <1>8. ASSUME NEW k \in 0..n PROVE KeptTo(f, s, T, k) = KeptTo(g, s, T, k)
    <2>1. k # 0 => k - 1 \in 0..(n - 1)
      BY <1>4
    <2> QED BY <1>7, <2>1 DEF KeptTo
  <1>9. Keeps(g, s, T, n)
    BY <1>6, <1>8 DEF Keeps
  <1> QED BY <1>9

LEMMA KeptDef ==
    ASSUME NEW S, NEW s \in Seq(S), NEW T
    PROVE  \E f : Keeps(f, s, T, Len(s)) /\ Kept(s, T) = f[Len(s)]
  <1> DEFINE P(f) == f = [n \in 0..Len(s) |->
                            IF n = 0 THEN <<>>
                            ELSE IF s[n] \in T THEN Append(f[n - 1], s[n]) ELSE f[n - 1]]
  <1>1. \E f : P(f)
    <2>1. Len(s) \in Nat
      OBVIOUS
    <2>2. PICK f : Keeps(f, s, T, Len(s))
      BY <2>1, KeptExists
    <2>3. f = [n \in 0..Len(s) |-> KeptTo(f, s, T, n)]
      BY <2>2 DEF Keeps
    <2> QED BY <2>3 DEF KeptTo
  <1>2. PICK f : f = CHOOSE g : P(g)
    OBVIOUS
  <1>3. Kept(s, T) = f[Len(s)]
    BY <1>2 DEF Kept
  <1> HIDE DEF P
  <1>4. P(f)
    BY <1>1, <1>2
  <1>5. Keeps(f, s, T, Len(s))
    BY <1>4 DEF P, Keeps, KeptTo
  <1> QED BY <1>3, <1>5

\* r keeps, in their order, the members of s up to n that are in T.
IsKept(r, s, T, n) ==
    /\ \A i \in 1..n : s[i] \in T => \E j \in DOMAIN r : r[j] = s[i]
    /\ \A j \in DOMAIN r : \E i \in 1..n :
          s[i] = r[j] /\ \A k \in 1..(i - 1) : s[k] \in T => \E l \in 1..(j - 1) : r[l] = s[k]

LEMMA KeptGrows ==
    ASSUME NEW S, NEW s, NEW T, NEW n \in Nat, n # 0, s[n] \in S, s[n] \in T,
           NEW r \in Seq(S \cap T), IsKept(r, s, T, n - 1)
    PROVE  Append(r, s[n]) \in Seq(S \cap T) /\ IsKept(Append(r, s[n]), s, T, n)
  <1>1. PICK q : q = Append(r, s[n])
    OBVIOUS
  <1>2. PICK m \in Nat : m = Len(r) /\ DOMAIN r = 1..m
    OBVIOUS
  <1>3. /\ q \in Seq(S \cap T) /\ DOMAIN q = 1..(m + 1) /\ q[m + 1] = s[n]
        /\ \A j \in 1..m : q[j] = r[j]
    BY <1>1, <1>2, AppendProperties
  <1>4. ASSUME NEW i \in 1..n, s[i] \in T PROVE \E j \in DOMAIN q : q[j] = s[i]
    <2>1. CASE i = n
      <3>1. m + 1 \in DOMAIN q /\ q[m + 1] = s[i]
        BY <1>3, <2>1
      <3> QED BY <3>1
    <2>2. CASE i # n
      <3>1. i \in 1..(n - 1)
        BY <2>2
      <3>2. PICK j \in 1..m : r[j] = s[i]
        BY <1>2, <1>4, <3>1 DEF IsKept
      <3>3. j \in DOMAIN q /\ q[j] = s[i]
        BY <1>3, <3>2
      <3> QED BY <3>3
    <2> QED BY <2>1, <2>2
  <1>5. ASSUME NEW j \in DOMAIN q
        PROVE  \E i \in 1..n :
                 s[i] = q[j] /\ \A k \in 1..(i - 1) : s[k] \in T => \E l \in 1..(j - 1) : q[l] = s[k]
    <2>1. CASE j = m + 1
      <3>1. ASSUME NEW k \in 1..(n - 1), s[k] \in T PROVE \E l \in 1..m : q[l] = s[k]
        BY <1>2, <1>3, <3>1 DEF IsKept
      <3>2. n \in 1..n /\ j - 1 = m
        BY <2>1
      <3>3. s[n] = q[j]
        BY <1>3, <2>1
      <3> QED BY <3>1, <3>2, <3>3
    <2>2. CASE j # m + 1
      <3>1. j \in 1..m
        BY <1>3, <2>2
      <3>2. PICK i \in 1..(n - 1) :
              s[i] = r[j] /\ \A k \in 1..(i - 1) : s[k] \in T => \E l \in 1..(j - 1) : r[l] = s[k]
        BY <1>2, <3>1 DEF IsKept
      <3>3. i \in 1..n /\ s[i] = q[j]
        BY <1>3, <3>1, <3>2
      <3>4. \A l \in 1..(j - 1) : q[l] = r[l]
        BY <1>3, <3>1
      <3>5. \A k \in 1..(i - 1) : s[k] \in T => \E l \in 1..(j - 1) : q[l] = s[k]
        BY <3>2, <3>4
      <3> QED BY <3>3, <3>5
    <2> QED BY <2>1, <2>2
  <1>6. IsKept(q, s, T, n)
    BY <1>4, <1>5 DEF IsKept
  <1> QED BY <1>1, <1>3, <1>6

\* What Kept returns.
LEMMA KeptIs ==
    ASSUME NEW S, NEW s \in Seq(S), NEW T
    PROVE  Kept(s, T) \in Seq(S \cap T) /\ IsKept(Kept(s, T), s, T, Len(s))
  <1>1. PICK m \in Nat : m = Len(s) /\ \A n \in 1..m : s[n] \in S
    OBVIOUS
  <1>2. PICK f : Keeps(f, s, T, m) /\ Kept(s, T) = f[m]
    BY <1>1, KeptDef
  <1> DEFINE Bad == {n \in 0..m : ~(f[n] \in Seq(S \cap T) /\ IsKept(f[n], s, T, n))}
  <1>3. ASSUME Bad # {} PROVE FALSE
    <2>1. PICK n \in Bad : \A k \in Bad : n <= k
      <3>1. Bad \subseteq Nat
        OBVIOUS
      <3> HIDE DEF Bad
      <3> QED BY <1>3, <3>1, LeastNat
    <2>2. f[n] = KeptTo(f, s, T, n)
      BY <1>2 DEF Keeps
    <2>3. n # 0
      <3>1. ASSUME n = 0 PROVE f[n] = <<>>
        BY <2>2, <3>1 DEF KeptTo
      <3>2. <<>> \in Seq(S \cap T) /\ IsKept(<<>>, s, T, 0)
        BY DEF IsKept
      <3> QED BY <3>1, <3>2
    <2>4. n - 1 \in 0..m /\ n - 1 \notin Bad /\ n \in 1..m
      BY <2>1, <2>3
    <2>5. PICK r : r \in Seq(S \cap T) /\ r = f[n - 1] /\ IsKept(r, s, T, n - 1)
      BY <2>4
    <2>6. CASE s[n] \in T
      <3>1. f[n] = Append(r, s[n])
        BY <2>2, <2>3, <2>5, <2>6 DEF KeptTo
      <3>2. n \in Nat /\ s[n] \in S
        BY <1>1, <2>4
      <3>3. Append(r, s[n]) \in Seq(S \cap T) /\ IsKept(Append(r, s[n]), s, T, n)
        BY <2>3, <2>5, <2>6, <3>2, KeptGrows, Zenon
      <3> QED BY <3>1, <3>3
    <2>7. CASE s[n] \notin T
      <3>1. f[n] = r
        BY <2>2, <2>3, <2>5, <2>7 DEF KeptTo
      <3>2. \A i \in 1..n : s[i] \in T => i \in 1..(n - 1)
        BY <2>4, <2>7
      <3>3. 1..(n - 1) \subseteq 1..n
        BY <2>4
      <3>4. IsKept(r, s, T, n)
        BY <2>5, <3>2, <3>3 DEF IsKept
      <3> QED BY <2>5, <3>1, <3>4
    <2> QED BY <2>6, <2>7
  <1>4. m \in 0..m
    OBVIOUS
  <1> QED BY <1>1, <1>2, <1>3, <1>4

\* The handlers of the middlewares that the proofs look at.
LEMMA SlotsAre ==
    /\ {"access_control", "request_validation", "recovery"} \subseteq DOMAIN Slots
    /\ "gateway" \notin DOMAIN Slots /\ "handler" \notin DOMAIN Slots
    /\ Slots["access_control"] = {"unary", "stream"}
    /\ Slots["request_validation"] = {"unary", "stream", "client"}
    /\ Slots["recovery"] = {"gin", "unary", "stream"}
  <1>1. DOMAIN Slots = {"context_tags", "service_context", "context_logger", "log_request", "metrics",
                        "open_tracing", "recovery", "request_validation", "cors", "compress",
                        "access_control", "access_control_without_policy"}
    BY DEF Slots
  <1>2. Slots["access_control"] = {"unary", "stream"}
    BY DEF Slots, accessControl
  <1>3. Slots["request_validation"] = {"unary", "stream", "client"}
    BY DEF Slots, requestValidation
  <1>4. Slots["recovery"] = {"gin", "unary", "stream"}
    BY DEF Slots, recovery
  <1>5. "gateway" \notin DOMAIN Slots /\ "handler" \notin DOMAIN Slots
    BY <1>1
  <1>6. {"access_control", "request_validation", "recovery"} \subseteq DOMAIN Slots
    BY <1>1
  <1> QED BY <1>2, <1>3, <1>4, <1>5, <1>6

Frames == DOMAIN Slots \cup {"gateway"}

Filter(slot) == {m \in DOMAIN Slots : slot \in Slots[m]}

\* The chain of a slot holds what is enabled and has a handler for it, in order.
LEMMA ChainIs ==
    ASSUME mcs \in Seq(DOMAIN Slots), NEW slot
    PROVE  /\ Chain(slot) \in Seq(Filter(slot))
           /\ IsKept(Chain(slot), mcs, Filter(slot), Len(mcs))
  <1>1. Chain(slot) = Kept(mcs, Filter(slot))
    BY DEF Chain, Filter
  <1>2. DOMAIN Slots \cap Filter(slot) = Filter(slot)
    BY DEF Filter
  <1> QED BY <1>1, <1>2, KeptIs

LEMMA ChainHolds ==
    ASSUME mcs \in Seq(DOMAIN Slots), NEW slot, NEW name, IsMiddlewareEnabled(name), slot \in Slots[name]
    PROVE  \E j \in DOMAIN Chain(slot) : Chain(slot)[j] = name
  <1>1. PICK i \in 1..Len(mcs) : mcs[i] = name
    BY DEF IsMiddlewareEnabled
  <1>2. name \in Filter(slot)
    BY <1>1 DEF Filter
  <1> QED BY <1>1, <1>2, ChainIs DEF IsKept

\* What fails before any recovery in its chain is enabled before any recovery.
LEMMA ChainExposes ==
    ASSUME mcs \in Seq(DOMAIN Slots), NEW slot \in Slots["recovery"], NEW j \in DOMAIN Chain(slot),
           \A k \in 1..(j - 1) : Chain(slot)[k] # "recovery"
    PROVE  Exposed(Chain(slot)[j])
  <1>1. PICK i \in 1..Len(mcs) :
           /\ mcs[i] = Chain(slot)[j]
           /\ \A k \in 1..(i - 1) :
                 mcs[k] \in Filter(slot) => \E l \in 1..(j - 1) : Chain(slot)[l] = mcs[k]
    BY ChainIs DEF IsKept
  <1>2. "recovery" \in Filter(slot)
    BY SlotsAre DEF Filter
  <1>3. \A k \in 1..(i - 1) : mcs[k] # "recovery"
    BY <1>1, <1>2
  <1>4. i \in DOMAIN mcs
    BY <1>1
  <1> QED BY <1>1, <1>3, <1>4 DEF Exposed

LEMMA ConcatIs ==
    ASSUME NEW S, NEW a \in Seq(S), NEW b \in Seq(S)
    PROVE  /\ a \o b \in Seq(S) /\ Len(a \o b) = Len(a) + Len(b) /\ Len(a) \in Nat /\ Len(b) \in Nat
           /\ \A k \in 1..Len(a) : (a \o b)[k] = a[k]
           /\ \A j \in 1..Len(b) : (a \o b)[Len(a) + j] = b[j]
  <1>1. PICK m \in Nat, n \in Nat : m = Len(a) /\ n = Len(b)
    OBVIOUS
  <1>2. ASSUME NEW k \in 1..m PROVE (a \o b)[k] = a[k]
    <2>1. k \in 1..(m + n) /\ k <= m
      OBVIOUS
    <2> QED BY <1>1, <2>1, ConcatProperties
  <1>3. ASSUME NEW j \in 1..n PROVE (a \o b)[m + j] = b[j]
    <2>1. m + j \in 1..(m + n) /\ ~(m + j <= m) /\ m + j - m = j
      OBVIOUS
    <2> QED BY <1>1, <2>1, ConcatProperties
  <1>4. a \o b \in Seq(S) /\ Len(a \o b) = m + n
    BY <1>1, ConcatProperties
  <1> QED BY <1>1, <1>2, <1>3, <1>4

\* The path of a request: its frames, and where that of the gateway has its own.
LEMMA PathIs ==
    ASSUME mcs \in Seq(DOMAIN Slots), NEW kind \in {"gin", "unary", "stream", "gateway", "client"}
    PROVE  /\ Path(kind) \in Seq(Frames)
           /\ kind # "gateway" => Path(kind) = Chain(kind)
           /\ kind = "gateway" => \E g \in Nat :
                /\ g = Len(Chain("gin")) + 1 /\ Len(Path(kind)) = g + Len(Chain("unary"))
                /\ Path(kind)[g] = "gateway"
                /\ \A k \in 1..(g - 1) : Path(kind)[k] # "gateway"
                /\ \A j \in 1..Len(Chain("unary")) :
                      Path(kind)[g + j] = Chain("unary")[j] /\ Path(kind)[g + j] # "gateway"
  <1>1. ASSUME NEW slot PROVE Chain(slot) \in Seq(DOMAIN Slots) /\ Chain(slot) \in Seq(Frames)
    <2>1. Filter(slot) \subseteq DOMAIN Slots /\ Filter(slot) \subseteq Frames
      BY DEF Filter, Frames
    <2>2. Chain(slot) \in Seq(Filter(slot))
      BY ChainIs
    <2> QED BY <2>1, <2>2
  <1>2. CASE kind # "gateway"
    BY <1>1, <1>2 DEF Path
  <1>3. CASE kind = "gateway"
    <2>1. PICK F : F = Frames /\ "gateway" \in F
      BY DEF Frames
    <2>2. PICK a \in Seq(F), b \in Seq(F), w \in Seq(F) :
             a = Chain("gin") /\ b = Chain("unary") /\ w = <<"gateway">> /\ Len(w) = 1 /\ w[1] = "gateway"
      <3>1. <<"gateway">> \in Seq(F)
        BY <2>1
      <3> QED BY <1>1, <2>1, <3>1
    <2>3. (\A k \in 1..Len(a) : a[k] # "gateway") /\ (\A k \in 1..Len(b) : b[k] # "gateway")
      BY <1>1, <2>2, SlotsAre
    <2>4. PICK aw \in Seq(F) : aw = a \o w
      BY ConcatIs
    <2>5. PICK p \in Seq(F) : p = aw \o b
      BY ConcatIs
    <2>6. PICK g \in Nat : g = Len(a) + 1 /\ Len(a) \in Nat
      OBVIOUS
    <2>7. Len(aw) = g /\ aw[g] = "gateway" /\ \A k \in 1..(g - 1) : aw[k] = a[k]
      <3>1. /\ Len(a \o w) = Len(a) + Len(w) /\ \A k \in 1..Len(a) : (a \o w)[k] = a[k]
            /\ \A j \in 1..Len(w) : (a \o w)[Len(a) + j] = w[j]
        BY ConcatIs
      <3>2. g - 1 = Len(a) /\ 1 \in 1..Len(w)
        BY <2>2, <2>6
      <3> QED BY <2>2, <2>4, <2>6, <3>1, <3>2
    <2>8. /\ Len(p) = g + Len(b) /\ \A k \in 1..g : p[k] = aw[k]
          /\ \A j \in 1..Len(b) : p[g + j] = b[j]
      <3>1. /\ Len(aw \o b) = Len(aw) + Len(b) /\ \A k \in 1..Len(aw) : (aw \o b)[k] = aw[k]
            /\ \A j \in 1..Len(b) : (aw \o b)[Len(aw) + j] = b[j]
        BY ConcatIs
      <3> QED BY <2>5, <2>7, <3>1
    <2>9. ASSUME NEW k \in 1..(g - 1) PROVE p[k] # "gateway"
      <3>1. k \in 1..Len(a) /\ k \in 1..g
        BY <2>6
      <3> QED BY <2>3, <2>7, <2>8, <3>1
    <2>10. g \in 1..g
      BY <2>6
    <2>11. Path(kind) = p
      BY <1>3, <2>2, <2>4, <2>5 DEF Path
    <2>12. Path(kind) \in Seq(Frames)
      BY <2>1, <2>5, <2>11
    <2>13. /\ g = Len(Chain("gin")) + 1 /\ Len(Path(kind)) = g + Len(Chain("unary"))
           /\ Path(kind)[g] = "gateway"
           /\ \A k \in 1..(g - 1) : Path(kind)[k] # "gateway"
           /\ \A j \in 1..Len(Chain("unary")) :
                 Path(kind)[g + j] = Chain("unary")[j] /\ Path(kind)[g + j] # "gateway"
      BY <2>2, <2>3, <2>6, <2>7, <2>8, <2>9, <2>10, <2>11, ZenonT(120)
    <2> QED BY <1>3, <2>12, <2>13
  <1> QED BY <1>2, <1>3

-----------------------------------------------------------------------------
(* appmgr: a request on its way *)
Verdicts == {"OK", "panic", "InvalidArgument", "Unauthenticated"}

Request ==
    [kind : {"gin", "unary", "stream", "gateway", "client"}, exempt : BOOLEAN, valid : BOOLEAN,
     peer : Peers \cup {[auth |-> "inproc", names |-> {}]}, path : Seq(Frames), pos : Nat,
     dir : {"down", "up", "panic", "done", "aborted", "crashed"},
     code : (Verdicts \ {"panic"}) \cup {"Unknown", "Internal"}, deep : Nat,
     starts : Seq(Nat), logs : Seq(Nat), received : BOOLEAN, by : Frames \cup {"none", "handler"}]

\* Verdict and Refused, of what they depend on.
Gives(frame, kind, exempt, valid, peer) ==
    CASE frame = "access_control" -> checkAccess(peer, exempt)
      [] frame = "request_validation" /\ kind # "stream" /\ ~valid -> "InvalidArgument"
      [] OTHER -> "OK"

Refuses(kind, valid, path) ==
    kind = "stream" /\ ~valid /\ \E i \in DOMAIN path : path[i] = "request_validation"

\* What the applier has made, and for whom.
AppliedOK ==
    /\ wanted \in Seq(STRING) /\ mcs \in Seq(DOMAIN Slots)
    /\ rq # NoRequest =>
         /\ rq \in Request /\ applied = "ready"
         /\ owned = (rq.kind # "client") /\ rq.path = Path(rq.kind)
         /\ rq.kind = "gateway" => rq.peer.auth = "inproc"

\* How far the request came: every frame it is below of let it through.
WayOK ==
    /\ rq.deep <= Len(rq.path)
    /\ \A k \in 1..rq.deep : Gives(rq.path[k], rq.kind, rq.exempt, rq.valid, rq.peer) = "OK"
    /\ rq.dir = "down" => rq.pos = rq.deep + 1 /\ rq.by = "none" /\ ~rq.received
    /\ rq.dir \in {"up", "panic"} => rq.pos <= rq.deep
    /\ rq.dir \in {"done", "aborted"} => rq.pos = 0
    /\ rq.received => rq.deep = Len(rq.path) /\ ~Refuses(rq.kind, rq.valid, rq.path)

\* Where a panic came from, and what it has passed on its way up.
PanicOK ==
    /\ rq.dir \in {"up", "done"} /\ rq.by # "none" => rq.code = "Internal"
    /\ rq.dir \in {"panic", "crashed"} =>
         /\ \A k \in (rq.pos + 1)..rq.deep : rq.path[k] \notin {"recovery", "gateway"}
         /\ IF rq.by = "handler" THEN rq.deep = Len(rq.path) /\ rq.kind # "client"
            ELSE /\ rq.deep < Len(rq.path) /\ rq.by = rq.path[rq.deep + 1]
                 /\ Gives(rq.by, rq.kind, rq.exempt, rq.valid, rq.peer) = "panic"
    /\ rq.dir = "crashed" => IF rq.pos = 0 THEN rq.kind \notin {"gin", "gateway"}
                             ELSE rq.pos <= rq.deep /\ rq.path[rq.pos] = "gateway"

\* One line of each log_request among the frames S, and no other line.
Lines(lines, S, path) ==
    /\ \A n \in DOMAIN lines : lines[n] \in S /\ path[lines[n]] = "log_request"
    /\ \A n, m \in DOMAIN lines : lines[n] = lines[m] => n = m
    /\ \A i \in S : path[i] = "log_request" => \E n \in DOMAIN lines : lines[n] = i

\* The frames between the request and its deepest point have written their last
\* lines, and all down to that point their first ones.
LogsOK ==
    /\ Lines(rq.logs, (rq.pos + 1)..rq.deep, rq.path)
    /\ Lines(rq.starts, IF rq.kind = "stream" THEN 1..rq.deep ELSE {}, rq.path)

MiddlewareInv == AppliedOK /\ (rq # NoRequest => WayOK /\ PanicOK /\ LogsOK)

LEMMA GivesIs ==
    ASSUME NEW frame
    PROVE  Verdict(frame) = Gives(frame, rq.kind, rq.exempt, rq.valid, rq.peer)
  BY DEF Verdict, Gives

LEMMA GivesType ==
    ASSUME NEW frame, NEW kind, NEW exempt \in BOOLEAN, NEW valid \in BOOLEAN, NEW peer
    PROVE  Gives(frame, kind, exempt, valid, peer) \in Verdicts
  <1>1. checkAccess(peer, exempt) \in Verdicts
    BY DEF checkAccess, Verdicts
  <1> QED BY <1>1 DEF Gives, Verdicts

\* Only the access control lets nothing through, and panics without TLS only.
LEMMA GivesPanic ==
    ASSUME NEW frame, NEW kind, NEW exempt \in BOOLEAN, NEW valid \in BOOLEAN, NEW peer
    PROVE  /\ Gives(frame, kind, exempt, valid, peer) = "panic" =>
                frame = "access_control" /\ peer.auth = "nil"
           /\ frame = "access_control" /\ Gives(frame, kind, exempt, valid, peer) = "OK" =>
                exempt \/ Subjects(peer) \cap Policy # {}
           /\ frame = "request_validation" /\ kind # "stream" /\ ~valid =>
                Gives(frame, kind, exempt, valid, peer) # "OK"
  <1>1. CASE frame = "access_control"
    <2>1. Gives(frame, kind, exempt, valid, peer) = checkAccess(peer, exempt)
      BY <1>1 DEF Gives
    <2> QED BY <1>1, <2>1 DEF checkAccess
  <1>2. CASE frame # "access_control"
    <2>1. Gives(frame, kind, exempt, valid, peer) \in {"InvalidArgument", "OK"}
      BY <1>2 DEF Gives
    <2>2. frame = "request_validation" /\ kind # "stream" /\ ~valid =>
            Gives(frame, kind, exempt, valid, peer) = "InvalidArgument"
      BY DEF Gives
    <2> QED BY <1>2, <2>1, <2>2
  <1> QED BY <1>1, <1>2

\* What no step of a request changes.
Same ==
    /\ rq \in Request /\ rq' \in Request
    /\ rq'.kind = rq.kind /\ rq'.exempt = rq.exempt /\ rq'.valid = rq.valid
    /\ rq'.peer = rq.peer /\ rq'.path = rq.path

LEMMA RefusedIs == Refused = Refuses(rq.kind, rq.valid, rq.path)
  BY DEF Refused, Refuses

\* The fields that a step of a request changes, with their new values.
Changes(pos, dir, code, deep, starts, logs, received, by) ==
    /\ rq'.pos = pos /\ rq'.dir = dir /\ rq'.code = code /\ rq'.deep = deep
    /\ rq'.starts = starts /\ rq'.logs = logs /\ rq'.received = received /\ rq'.by = by

LEMMA DescendDoes ==
    ASSUME AppliedOK, WayOK, Descend
    PROVE  LET v == Gives(rq.path[rq.pos], rq.kind, rq.exempt, rq.valid, rq.peer) IN
           /\ Same /\ v \in Verdicts /\ rq.dir = "down" /\ rq.pos = rq.deep + 1 /\ rq.pos <= Len(rq.path)
           /\ IF v = "OK" THEN Changes(rq.pos + 1, "down", rq.code, rq.pos, Started, rq.logs, rq.received, rq.by)
              ELSE IF v = "panic"
              THEN Changes(rq.deep, "panic", rq.code, rq.deep, rq.starts, rq.logs, rq.received, rq.path[rq.pos])
              ELSE Changes(rq.deep, "up", v, rq.deep, rq.starts, rq.logs, rq.received, rq.by)
  <1>1. rq # NoRequest /\ rq.dir = "down" /\ rq.pos <= Len(rq.path) /\ rq \in Request
    BY DEF Descend, Going, AppliedOK
  <1>2. PICK r \in Request : r = rq
    BY <1>1
  <1>3. PICK v : v = Gives(r.path[r.pos], r.kind, r.exempt, r.valid, r.peer)
    OBVIOUS
  <1>4. v \in Verdicts /\ v = Verdict(Here)
    BY <1>2, <1>3, GivesType, GivesIs DEF Here, Request
  <1>5. r.pos = r.deep + 1
    BY <1>1, <1>2 DEF WayOK
  <1>6. r.path[r.pos] \in Frames /\ r.pos - 1 = r.deep /\ r.deep \in Nat
    <2>1. r.path \in Seq(Frames) /\ r.deep \in Nat /\ r.pos \in 1..Len(r.path)
      BY <1>1, <1>2, <1>5 DEF Request
    <2> QED BY <1>5, <2>1
  <1>s. PICK st \in Seq(Nat) : st = Started
    <2>1. r.starts \in Seq(Nat) /\ r.pos \in Nat
      BY DEF Request
    <2>2. Append(r.starts, r.pos) \in Seq(Nat)
      BY <2>1, AppendProperties
    <2>3. Started \in Seq(Nat)
      BY <1>2, <2>1, <2>2 DEF Started
    <2> QED BY <2>3
  <1>7. rq' = IF v = "OK" THEN [r EXCEPT !.pos = r.pos + 1, !.deep = r.pos, !.starts = st]
              ELSE IF v = "panic"
              THEN [r EXCEPT !.pos = r.pos - 1, !.dir = "panic", !.by = r.path[r.pos]]
              ELSE [r EXCEPT !.pos = r.pos - 1, !.dir = "up", !.code = v]
    <2>1. Here = r.path[r.pos]
      BY <1>2 DEF Here
    <2> QED BY <1>2, <1>4, <1>s, <2>1 DEF Descend
  <1>8. CASE v = "OK"
    <2>1. rq' = [r EXCEPT !.pos = r.pos + 1, !.deep = r.pos, !.starts = st]
      BY <1>7, <1>8
    <2>2. PICK p \in Nat, d \in Nat : p = r.pos + 1 /\ d = r.pos
      BY <1>2 DEF Request
    <2>3. rq' = [r EXCEPT !.pos = p, !.deep = d, !.starts = st]
      BY <2>1, <2>2
    <2>4. rq' \in Request
      BY <1>2, <2>3 DEF Request
    <2>5. Same /\ Changes(p, "down", r.code, d, st, r.logs, r.received, r.by)
      BY <1>1, <1>2, <2>3, <2>4, ZenonT(120) DEF Same, Changes, Request
    <2> QED BY <1>1, <1>2, <1>3, <1>4, <1>5, <1>8, <1>s, <2>2, <2>5
  <1>9. CASE v = "panic"
    <2>1. PICK f \in Frames : f = r.path[r.pos]
      BY <1>6
    <2>2. rq' = [r EXCEPT !.pos = r.deep, !.dir = "panic", !.by = f]
      BY <1>6, <1>7, <1>9, <2>1
    <2>3. f \in Frames \cup {"none", "handler"}
      BY <2>1
    <2>4. Same /\ Changes(r.deep, "panic", r.code, r.deep, r.starts, r.logs, r.received, f)
      BY <1>1, <1>2, <1>6, <2>2, <2>3, ZenonT(120) DEF Same, Changes, Request
    <2> QED BY <1>1, <1>2, <1>3, <1>4, <1>5, <1>9, <2>1, <2>4
  <1>10. CASE v \notin {"OK", "panic"}
    <2>1. rq' = [r EXCEPT !.pos = r.deep, !.dir = "up", !.code = v]
      BY <1>6, <1>7, <1>10
    <2>2. Same /\ Changes(r.deep, "up", v, r.deep, r.starts, r.logs, r.received, r.by)
      BY <1>1, <1>2, <1>4, <1>6, <1>10, <2>1, ZenonT(120) DEF Same, Changes, Request, Verdicts
    <2> QED BY <1>1, <1>2, <1>3, <1>4, <1>5, <1>10, <2>2
  <1> QED BY <1>8, <1>9, <1>10

LEMMA RequestRemade ==
    ASSUME NEW r \in Request, NEW pos \in Nat, NEW got \in BOOLEAN,
           NEW dir \in {"down", "up", "panic", "done", "aborted", "crashed"},
           NEW code \in (Verdicts \ {"panic"}) \cup {"Unknown", "Internal"},
           NEW by \in Frames \cup {"none", "handler"}
    PROVE  [r EXCEPT !.pos = pos, !.received = got, !.dir = dir, !.by = by, !.code = code] \in Request
  BY ZenonT(120) DEF Request

LEMMA FieldsRemade ==
    ASSUME NEW r \in Request, NEW pos, NEW got, NEW dir, NEW code, NEW by,
           rq' = [r EXCEPT !.pos = pos, !.received = got, !.dir = dir, !.by = by, !.code = code]
    PROVE  /\ rq'.kind = r.kind /\ rq'.exempt = r.exempt /\ rq'.valid = r.valid /\ rq'.peer = r.peer
           /\ rq'.path = r.path /\ rq'.pos = pos /\ rq'.dir = dir /\ rq'.code = code
           /\ rq'.deep = r.deep /\ rq'.starts = r.starts /\ rq'.logs = r.logs /\ rq'.received = got /\ rq'.by = by
  <1>1. DOMAIN r = {"kind", "exempt", "valid", "peer", "path", "pos", "dir", "code", "deep", "starts", "logs", "received", "by"}
    BY DEF Request
  <1> QED BY <1>1

LEMMA HandleDoes ==
    ASSUME AppliedOK, WayOK, Handle
    PROVE  \E code, dir, received, by :
           /\ Same /\ rq.dir = "down" /\ rq.pos = rq.deep + 1 /\ rq.deep = Len(rq.path)
           /\ Changes(rq.deep, dir, code, rq.deep, rq.starts, rq.logs, received, by)
           /\ received => ~Refuses(rq.kind, rq.valid, rq.path)
           /\ \/ dir = "up" /\ by = rq.by
              \/ dir = "panic" /\ by = "handler" /\ rq.kind # "client"
  <1>1. rq # NoRequest /\ rq.dir = "down" /\ rq.pos = Len(rq.path) + 1 /\ rq \in Request
    BY DEF Handle, Going, AppliedOK
  <1>2. PICK r \in Request : r = rq
    BY <1>1
  <1>3. r.pos = r.deep + 1 /\ r.deep \in Nat /\ Len(r.path) \in Nat /\ r.pos - 1 = r.deep
    BY <1>1, <1>2 DEF WayOK, Request
  <1>4. PICK v \in {"OK", "Unknown"} \cup (IF r.kind = "client" THEN {} ELSE {"panic"}) :
           rq' = [r EXCEPT !.pos = r.pos - 1, !.received = ~Refused,
                           !.dir = IF v = "panic" THEN "panic" ELSE "up",
                           !.by = IF v = "panic" THEN "handler" ELSE r.by,
                           !.code = IF v = "panic" THEN r.code ELSE IF Refused THEN "InvalidArgument" ELSE v]
    BY <1>2 DEF Handle
  <1>5. PICK got \in BOOLEAN : got = ~Refused
    OBVIOUS
  <1>6. PICK code, dir, by :
           /\ code = (IF v = "panic" THEN r.code ELSE IF Refused THEN "InvalidArgument" ELSE v)
           /\ dir = (IF v = "panic" THEN "panic" ELSE "up")
           /\ by = (IF v = "panic" THEN "handler" ELSE r.by)
    OBVIOUS
  <1>7. /\ code \in (Verdicts \ {"panic"}) \cup {"Unknown", "Internal"}
        /\ dir \in {"down", "up", "panic", "done", "aborted", "crashed"}
        /\ by \in Frames \cup {"none", "handler"}
    BY <1>2, <1>4, <1>6 DEF Request, Verdicts
  <1>8. rq' = [r EXCEPT !.pos = r.deep, !.received = got, !.dir = dir, !.by = by, !.code = code]
    BY <1>3, <1>4, <1>5, <1>6
  <1>9. Same /\ Changes(r.deep, dir, code, r.deep, r.starts, r.logs, got, by)
    <2>1. r \in Request /\ r.deep \in Nat /\ got \in BOOLEAN
      BY <1>3
    <2>2. [r EXCEPT !.pos = r.deep, !.received = got, !.dir = dir, !.by = by, !.code = code] \in Request
      BY <1>7, <2>1, RequestRemade, ZenonT(120)
    <2>3. /\ rq'.kind = r.kind /\ rq'.exempt = r.exempt /\ rq'.valid = r.valid /\ rq'.peer = r.peer
          /\ rq'.path = r.path /\ rq'.pos = r.deep /\ rq'.dir = dir /\ rq'.code = code
          /\ rq'.deep = r.deep /\ rq'.starts = r.starts /\ rq'.logs = r.logs /\ rq'.received = got /\ rq'.by = by
      BY <1>8, <2>1, FieldsRemade, ZenonT(120)
    <2> QED BY <1>1, <1>2, <1>8, <2>2, <2>3 DEF Same, Changes
  <1>10. got => ~Refuses(r.kind, r.valid, r.path)
    BY <1>2, <1>5, RefusedIs
  <1>11. \/ dir = "up" /\ by = r.by
         \/ dir = "panic" /\ by = "handler" /\ r.kind # "client"
    BY <1>4, <1>6
  <1> QED BY <1>1, <1>2, <1>3, <1>9, <1>10, <1>11

\* Return and Unwind: one frame up, with its line.
LEMMA UpDoes ==
    ASSUME AppliedOK, WayOK, Return \/ Unwind
    PROVE  \E dir, code :
           /\ Same /\ rq.pos \in 1..rq.deep /\ rq.deep \in 1..Len(rq.path)
           /\ Changes(rq.pos - 1, dir, code, rq.deep, rq.starts, Logged, rq.received, rq.by)
           /\ \/ rq.dir = "up" /\ dir = "up" /\ code = rq.code
              \/ /\ rq.dir = "panic" /\ rq.path[rq.pos] # "gateway"
                 /\ \/ dir = "panic" /\ rq.path[rq.pos] # "recovery"
                    \/ dir = "up" /\ code = "Internal"
  <1>1. rq # NoRequest /\ rq.dir \in {"up", "panic"} /\ rq.pos > 0 /\ rq \in Request
    BY DEF Return, Unwind, Going, AppliedOK
  <1>2. PICK r \in Request : r = rq
    BY <1>1
  <1>3. r.pos \in 1..r.deep /\ r.deep \in 1..Len(r.path) /\ r.pos - 1 \in Nat
    <2>1. r.pos \in Nat /\ r.deep \in Nat /\ Len(r.path) \in Nat
      BY DEF Request
    <2> QED BY <1>1, <1>2, <2>1 DEF WayOK
  <1>4. PICK f : f = r.path[r.pos]
    OBVIOUS
  <1>5. PICK logs \in Seq(Nat) : logs = Logged
    <2>1. r.logs \in Seq(Nat) /\ r.pos \in Nat
      BY DEF Request
    <2>2. Append(r.logs, r.pos) \in Seq(Nat)
      BY <2>1, AppendProperties
    <2>3. Logged \in Seq(Nat)
      BY <1>2, <2>1, <2>2 DEF Logged
    <2> QED BY <2>3
  <1>6. PICK dir, code : /\ rq' = [r EXCEPT !.pos = r.pos - 1, !.logs = logs, !.dir = dir, !.code = code]
                         /\ \/ r.dir = "up" /\ dir = "up" /\ code = r.code
                            \/ /\ r.dir = "panic" /\ f # "gateway"
                               /\ \/ dir = "panic" /\ f # "recovery" /\ code = r.code
                                  \/ dir = "up" /\ code = "Internal"
    <2>1. CASE Return
      <3>1. rq' = [r EXCEPT !.pos = r.pos - 1, !.logs = logs] /\ r.dir = "up"
        BY <1>2, <1>5, <2>1 DEF Return, Going
      <3>2. [r EXCEPT !.pos = r.pos - 1, !.logs = logs]
            = [r EXCEPT !.pos = r.pos - 1, !.logs = logs, !.dir = "up", !.code = r.code]
        BY <3>1 DEF Request
      <3> QED BY <3>1, <3>2
    <2>2. CASE Unwind
      <3>1. /\ r.dir = "panic" /\ f # "gateway"
            /\ rq' = [r EXCEPT !.pos = r.pos - 1, !.logs = logs,
                               !.dir = IF f = "recovery" THEN "up" ELSE "panic",
                               !.code = IF f = "recovery" THEN "Internal" ELSE r.code]
        BY <1>2, <1>4, <1>5, <2>2 DEF Unwind, Going, Here
      <3>2. CASE f = "recovery"
        BY <3>1, <3>2
      <3>3. CASE f # "recovery"
        BY <3>1, <3>3
      <3> QED BY <3>2, <3>3
    <2> QED BY <2>1, <2>2
  <1>7. /\ dir \in {"down", "up", "panic", "done", "aborted", "crashed"}
        /\ code \in (Verdicts \ {"panic"}) \cup {"Unknown", "Internal"}
    BY <1>6 DEF Request
  <1>8. Same /\ Changes(r.pos - 1, dir, code, r.deep, r.starts, logs, r.received, r.by)
    BY <1>1, <1>2, <1>3, <1>5, <1>6, <1>7, ZenonT(120) DEF Same, Changes, Request
  <1> QED BY <1>2, <1>3, <1>4, <1>5, <1>6, <1>8

LEMMA AnswerDoes ==
    ASSUME AppliedOK, Answer
    PROVE  \E dir :
           /\ Same /\ Changes(rq.pos, dir, rq.code, rq.deep, rq.starts, rq.logs, rq.received, rq.by)
           /\ \/ rq.dir = "up" /\ rq.pos = 0 /\ dir = "done"
              \/ rq.dir = "panic" /\ rq.pos = 0 /\ dir = "aborted"
              \/ rq.dir = "panic" /\ rq.pos = 0 /\ dir = "crashed" /\ rq.kind \notin {"gin", "gateway"}
              \/ rq.dir = "panic" /\ rq.pos > 0 /\ dir = "crashed" /\ rq.path[rq.pos] = "gateway"
  <1>1. rq # NoRequest /\ rq \in Request
    BY DEF Answer, Going, AppliedOK
  <1>2. PICK r \in Request : r = rq
    BY <1>1
  <1>3. PICK dir : /\ rq' = [r EXCEPT !.dir = dir]
                   /\ \/ r.dir = "up" /\ r.pos = 0 /\ dir = "done"
                      \/ r.dir = "panic" /\ r.pos = 0 /\ dir = "aborted"
                      \/ r.dir = "panic" /\ r.pos = 0 /\ dir = "crashed" /\ r.kind \notin {"gin", "gateway"}
                      \/ r.dir = "panic" /\ r.pos > 0 /\ dir = "crashed" /\ r.path[r.pos] = "gateway"
    <2>1. CASE r.dir = "panic" /\ r.pos = 0 /\ rq' = [r EXCEPT !.dir = IF r.kind \in {"gin", "gateway"} THEN "aborted" ELSE "crashed"]
      <3>1. CASE r.kind \in {"gin", "gateway"}
        BY <2>1, <3>1
      <3>2. CASE r.kind \notin {"gin", "gateway"}
        BY <2>1, <3>2
      <3> QED BY <3>1, <3>2
    <2>2. CASE ~(r.dir = "panic" /\ r.pos = 0)
      BY <1>2, <2>2 DEF Answer, Going, Here
    <2> QED BY <1>2, <2>1, <2>2 DEF Answer, Going
  <1>4. dir \in {"down", "up", "panic", "done", "aborted", "crashed"}
    BY <1>3
  <1>5. Same /\ Changes(r.pos, dir, r.code, r.deep, r.starts, r.logs, r.received, r.by)
    BY <1>1, <1>2, <1>3, <1>4, ZenonT(120) DEF Same, Changes, Request
  <1> QED BY <1>2, <1>3, <1>5

-----------------------------------------------------------------------------
\* The types of the fields that the order of things is about.
LEMMA RequestFields ==
    ASSUME NEW r \in Request
    PROVE  /\ r.pos \in Nat /\ r.deep \in Nat /\ r.path \in Seq(Frames)
           /\ r.starts \in Seq(Nat) /\ r.logs \in Seq(Nat)
           /\ Len(r.path) \in Nat /\ r.exempt \in BOOLEAN /\ r.valid \in BOOLEAN
           /\ r.kind \in {"gin", "unary", "stream", "gateway", "client"}
           /\ r.by \in Frames \cup {"none", "handler"}
           /\ r.dir \in {"down", "up", "panic", "done", "aborted", "crashed"}
           /\ r # NoRequest
  <1>1. r.path \in Seq(Frames) /\ Len(r.path) \in Nat
    BY DEF Request
  <1>2. r.kind # NoRequest.kind
    BY DEF Request, NoRequest
  <1> QED BY <1>1, <1>2 DEF Request

\* A step of a request leaves what the applier made.
LEMMA AppliedKept ==
    ASSUME AppliedOK, rq # NoRequest, Same, Rest
    PROVE  AppliedOK'
  <1>1. Path(rq.kind)' = Path(rq'.kind)
    BY DEF Path, Chain, Rest, Same
  <1>2. Path(rq'.kind) = rq'.path
    BY DEF AppliedOK, Same
  <1> QED BY <1>1, <1>2 DEF AppliedOK, Same, Rest

\* A log_request adds its line.
LEMMA LineAdded ==
    ASSUME NEW old \in Seq(Nat), NEW S, NEW p \in Nat, p \notin S, NEW path, Lines(old, S, path),
           NEW lines, lines = (IF path[p] = "log_request" THEN Append(old, p) ELSE old)
    PROVE  Lines(lines, S \cup {p}, path)
  <1>1. CASE path[p] # "log_request"
    BY <1>1 DEF Lines
  <1>2. CASE path[p] = "log_request"
    <2>1. PICK m \in Nat : m = Len(old) /\ DOMAIN old = 1..m
      OBVIOUS
    <2>2. DOMAIN lines = 1..(m + 1) /\ lines[m + 1] = p /\ \A n \in 1..m : lines[n] = old[n]
      BY <1>2, <2>1, AppendProperties
    <2>3. \A n \in 1..(m + 1) : n = m + 1 \/ n \in 1..m
      BY <2>1
    <2>4. /\ \A n \in 1..m : old[n] \in S /\ path[old[n]] = "log_request"
          /\ \A n, l \in 1..m : old[n] = old[l] => n = l
          /\ \A i \in S : path[i] = "log_request" => \E n \in 1..m : old[n] = i
      BY <2>1 DEF Lines
    <2>5. \A n \in DOMAIN lines : lines[n] \in S \cup {p} /\ path[lines[n]] = "log_request"
      BY <1>2, <2>2, <2>3, <2>4
    <2>6. \A n, l \in DOMAIN lines : lines[n] = lines[l] => n = l
      BY <2>2, <2>3, <2>4
    <2>7. 1..m \subseteq 1..(m + 1) /\ m + 1 \in 1..(m + 1)
      BY <2>1
    <2>8. \A i \in S \cup {p} : path[i] = "log_request" => \E n \in DOMAIN lines : lines[n] = i
      <3> SUFFICES ASSUME NEW i \in S \cup {p}, path[i] = "log_request" PROVE \E n \in DOMAIN lines : lines[n] = i
        OBVIOUS
      <3>1. CASE i = p
        BY <2>2, <2>7, <3>1
      <3>2. CASE i # p
        <4>1. PICK n \in 1..m : old[n] = i
          BY <2>4, <3>2
        <4>2. n \in DOMAIN lines /\ lines[n] = i
          BY <2>2, <2>7, <4>1
        <4> QED BY <4>2
      <3> QED BY <3>1, <3>2
    <2> QED BY <2>5, <2>6, <2>8 DEF Lines
  <1> QED BY <1>1, <1>2

\* How many lines there are.
LEMMA LinesCount ==
    ASSUME NEW lines, NEW S, NEW path, Lines(lines, S, path), NEW i, path[i] = "log_request"
    PROVE  (i \in S => Count(lines, i) = 1) /\ (i \notin S => Count(lines, i) = 0)
  <1>1. PICK T : T = {n \in DOMAIN lines : lines[n] = i}
    OBVIOUS
  <1>2. CASE i \in S
    <2>1. PICK n \in DOMAIN lines : lines[n] = i
      BY <1>2 DEF Lines
    <2>2. T = {n}
      BY <1>1, <2>1 DEF Lines
    <2> QED BY <1>1, <1>2, <2>2, FS_Singleton DEF Count
  <1>3. CASE i \notin S
    <2>1. T = {}
      BY <1>1, <1>3 DEF Lines
    <2> QED BY <1>1, <1>3, <2>1, FS_EmptySet DEF Count
  <1> QED BY <1>2, <1>3

\* No line is written where there is nothing between the request and its deepest point.
LEMMA NoLines ==
    ASSUME Same, LogsOK, rq.pos >= rq.deep, rq'.logs = rq.logs, rq'.pos >= rq'.deep,
           \/ rq'.starts = rq.starts /\ rq'.deep = rq.deep
           \/ rq'.starts = Started /\ rq.pos = rq.deep + 1 /\ rq'.deep = rq.pos
    PROVE  LogsOK'
  <1>1. rq.pos \in Nat /\ rq.deep \in Nat /\ rq'.pos \in Nat /\ rq'.deep \in Nat /\ rq.starts \in Seq(Nat)
    BY RequestFields DEF Same
  <1>2. (rq.pos + 1)..rq.deep = {} /\ (rq'.pos + 1)..rq'.deep = {}
    BY <1>1
  <1>3. Lines(rq'.logs, (rq'.pos + 1)..rq'.deep, rq'.path)
    BY <1>2 DEF LogsOK, Same
  <1>4. Lines(rq'.starts, IF rq.kind = "stream" THEN 1..rq'.deep ELSE {}, rq.path)
    <2>1. CASE rq'.starts = rq.starts /\ rq'.deep = rq.deep
      BY <2>1 DEF LogsOK
    <2>2. CASE rq'.starts = Started /\ rq.pos = rq.deep + 1 /\ rq'.deep = rq.pos
      <3>1. CASE rq.kind # "stream"
        BY <2>2, <3>1 DEF LogsOK, Started
      <3>2. CASE rq.kind = "stream"
        <4>1. 1..rq'.deep = (1..rq.deep) \cup {rq.pos} /\ rq.pos \notin 1..rq.deep
          BY <1>1, <2>2
        <4>2. rq'.starts = IF rq.path[rq.pos] = "log_request" THEN Append(rq.starts, rq.pos) ELSE rq.starts
          BY <2>2, <3>2 DEF Started, Here
        <4>3. Lines(rq.starts, 1..rq.deep, rq.path)
          BY <3>2 DEF LogsOK
        <4>4. Lines(rq'.starts, (1..rq.deep) \cup {rq.pos}, rq.path)
          BY <1>1, <4>1, <4>2, <4>3, LineAdded
        <4> QED BY <3>2, <4>1, <4>4
      <3> QED BY <3>1, <3>2
    <2> QED BY <2>1, <2>2
  <1> QED BY <1>3, <1>4 DEF LogsOK, Same

\* One frame up, its line is written if it has one.
LEMMA LineWritten ==
    ASSUME Same, LogsOK, rq.pos \in 1..rq.deep,
           rq'.pos = rq.pos - 1, rq'.deep = rq.deep, rq'.starts = rq.starts, rq'.logs = Logged
    PROVE  LogsOK'
  <1>1. rq.pos \in Nat /\ rq.deep \in Nat /\ rq.logs \in Seq(Nat)
    BY RequestFields DEF Same
  <1>2. /\ (rq'.pos + 1)..rq'.deep = ((rq.pos + 1)..rq.deep) \cup {rq.pos}
        /\ rq.pos \notin (rq.pos + 1)..rq.deep
    BY <1>1
  <1>3. rq'.logs = IF rq.path[rq.pos] = "log_request" THEN Append(rq.logs, rq.pos) ELSE rq.logs
    BY DEF Logged, Here
  <1>4. Lines(rq.logs, (rq.pos + 1)..rq.deep, rq.path)
    BY DEF LogsOK
  <1>5. Lines(rq'.logs, ((rq.pos + 1)..rq.deep) \cup {rq.pos}, rq.path)
    BY <1>1, <1>2, <1>3, <1>4, LineAdded
  <1> QED BY <1>2, <1>5 DEF LogsOK, Same

LEMMA DescendKeeps ==
    ASSUME AppliedOK, WayOK, PanicOK, LogsOK, Descend
    PROVE  AppliedOK' /\ WayOK' /\ PanicOK' /\ LogsOK'
  <1> DEFINE G(f) == Gives(f, rq.kind, rq.exempt, rq.valid, rq.peer)
  <1>0. PICK v : v = G(rq.path[rq.pos])
    OBVIOUS
  <1>1. /\ Same /\ v \in Verdicts /\ rq.dir = "down" /\ rq.pos = rq.deep + 1 /\ rq.pos <= Len(rq.path)
        /\ IF v = "OK" THEN Changes(rq.pos + 1, "down", rq.code, rq.pos, Started, rq.logs, rq.received, rq.by)
           ELSE IF v = "panic"
           THEN Changes(rq.deep, "panic", rq.code, rq.deep, rq.starts, rq.logs, rq.received, rq.path[rq.pos])
           ELSE Changes(rq.deep, "up", v, rq.deep, rq.starts, rq.logs, rq.received, rq.by)
    BY <1>0, DescendDoes
  <1>2. rq.pos \in Nat /\ rq.deep \in Nat /\ rq \in Request /\ rq' \in Request /\ rq # NoRequest
        /\ rq.path \in Seq(Frames) /\ Len(rq.path) \in Nat
    BY <1>1, RequestFields DEF Same
  <1>3. AppliedOK'
    BY <1>1, <1>2, AppliedKept DEF Descend
  <1>4. rq.by = "none" /\ ~rq.received /\ \A k \in 1..rq.deep : G(rq.path[k]) = "OK"
    BY <1>1 DEF WayOK
  <1>5. \A f : Gives(f, rq'.kind, rq'.exempt, rq'.valid, rq'.peer) = G(f)
    BY <1>1 DEF Same
  <1>6. rq'.path = rq.path /\ rq'.kind = rq.kind
    BY <1>1 DEF Same
  <1>7. rq.path[rq.deep + 1] # "handler" /\ rq.path[rq.pos] \in Frames
    <2>1. rq.pos \in 1..Len(rq.path)
      BY <1>1, <1>2
    <2> QED BY <1>1, <1>2, <2>1, SlotsAre DEF Frames
  <1> HIDE DEF G
  <1>8. CASE v = "OK"
    <2>1. rq'.pos = rq.pos + 1 /\ rq'.dir = "down" /\ rq'.deep = rq.pos /\ rq'.logs = rq.logs /\ rq'.starts = Started
          /\ rq'.received = rq.received /\ rq'.by = rq.by
      BY <1>1, <1>8 DEF Changes
    <2>2. \A k \in 1..rq'.deep : k = rq.pos \/ k \in 1..rq.deep
      BY <1>1, <1>2, <2>1
    <2>3. \A k \in 1..rq'.deep : Gives(rq'.path[k], rq'.kind, rq'.exempt, rq'.valid, rq'.peer) = "OK"
      BY <1>0, <1>4, <1>5, <1>6, <1>8, <2>2
    <2>4. WayOK'
      BY <1>1, <1>2, <1>4, <1>6, <2>1, <2>3 DEF WayOK
    <2>5. PanicOK'
      BY <2>1 DEF PanicOK
    <2>6. LogsOK'
      BY <1>1, <1>2, <2>1, NoLines
    <2> QED BY <1>3, <2>4, <2>5, <2>6
  <1>9. CASE v = "panic"
    <2>1. rq'.pos = rq.deep /\ rq'.dir = "panic" /\ rq'.deep = rq.deep /\ rq'.logs = rq.logs /\ rq'.starts = rq.starts
          /\ rq'.received = rq.received /\ rq'.by = rq.path[rq.pos]
      BY <1>1, <1>9 DEF Changes
    <2>2. WayOK'
      BY <1>1, <1>2, <1>4, <1>5, <1>6, <2>1 DEF WayOK
    <2>3. (rq'.pos + 1)..rq'.deep = {} /\ rq'.deep < Len(rq'.path) /\ rq'.by = rq'.path[rq'.deep + 1]
      BY <1>1, <1>2, <1>6, <2>1
    <2>4. Gives(rq'.by, rq'.kind, rq'.exempt, rq'.valid, rq'.peer) = "panic" /\ rq'.by # "handler"
      BY <1>0, <1>1, <1>5, <1>7, <1>9, <2>1
    <2>5. PanicOK'
      BY <2>1, <2>3, <2>4 DEF PanicOK
    <2>6. LogsOK'
      BY <1>1, <1>2, <2>1, NoLines
    <2> QED BY <1>3, <2>2, <2>5, <2>6
  <1>10. CASE v \notin {"OK", "panic"}
    <2>1. rq'.pos = rq.deep /\ rq'.dir = "up" /\ rq'.deep = rq.deep /\ rq'.logs = rq.logs /\ rq'.starts = rq.starts
          /\ rq'.received = rq.received /\ rq'.by = rq.by
      BY <1>1, <1>10 DEF Changes
    <2>2. WayOK'
      BY <1>1, <1>2, <1>4, <1>5, <1>6, <2>1 DEF WayOK
    <2>3. PanicOK'
      BY <1>4, <2>1 DEF PanicOK
    <2>4. LogsOK'
      BY <1>1, <1>2, <2>1, NoLines
    <2> QED BY <1>3, <2>2, <2>3, <2>4
  <1> QED BY <1>8, <1>9, <1>10

LEMMA HandleKeeps ==
    ASSUME AppliedOK, WayOK, PanicOK, LogsOK, Handle
    PROVE  AppliedOK' /\ WayOK' /\ PanicOK' /\ LogsOK'
  <1>1. PICK code, dir, received, by :
           /\ Same /\ rq.dir = "down" /\ rq.pos = rq.deep + 1 /\ rq.deep = Len(rq.path)
           /\ Changes(rq.deep, dir, code, rq.deep, rq.starts, rq.logs, received, by)
           /\ received => ~Refuses(rq.kind, rq.valid, rq.path)
           /\ \/ dir = "up" /\ by = rq.by
              \/ dir = "panic" /\ by = "handler" /\ rq.kind # "client"
    BY HandleDoes
  <1>2. rq.pos \in Nat /\ rq.deep \in Nat /\ rq \in Request /\ rq' \in Request /\ rq # NoRequest
    BY <1>1, RequestFields DEF Same
  <1>3. AppliedOK'
    BY <1>1, <1>2, AppliedKept DEF Handle
  <1>4. rq'.pos = rq.deep /\ rq'.dir = dir /\ rq'.deep = rq.deep /\ rq'.logs = rq.logs /\ rq'.starts = rq.starts
        /\ rq'.received = received /\ rq'.by = by
    BY <1>1 DEF Changes
  <1>5. rq.by = "none"
    BY <1>1 DEF WayOK
  <1>6. WayOK'
    BY <1>1, <1>2, <1>4 DEF WayOK, Same
  <1>7. (rq'.pos + 1)..rq'.deep = {}
    BY <1>2, <1>4
  <1>8. PanicOK'
    BY <1>1, <1>4, <1>5, <1>7 DEF PanicOK, Same
  <1>9. LogsOK'
    BY <1>1, <1>2, <1>4, NoLines
  <1> QED BY <1>3, <1>6, <1>8, <1>9

LEMMA UpKeeps ==
    ASSUME AppliedOK, WayOK, PanicOK, LogsOK, Return \/ Unwind
    PROVE  AppliedOK' /\ WayOK' /\ PanicOK' /\ LogsOK'
  <1>1. PICK dir, code :
           /\ Same /\ rq.pos \in 1..rq.deep /\ rq.deep \in 1..Len(rq.path)
           /\ Changes(rq.pos - 1, dir, code, rq.deep, rq.starts, Logged, rq.received, rq.by)
           /\ \/ rq.dir = "up" /\ dir = "up" /\ code = rq.code
              \/ /\ rq.dir = "panic" /\ rq.path[rq.pos] # "gateway"
                 /\ \/ dir = "panic" /\ rq.path[rq.pos] # "recovery"
                    \/ dir = "up" /\ code = "Internal"
    BY UpDoes
  <1>2. rq.pos \in Nat /\ rq.deep \in Nat /\ rq # NoRequest
    BY <1>1, RequestFields DEF Same
  <1>3. AppliedOK'
    BY <1>1, <1>2, AppliedKept DEF Return, Unwind
  <1>4. rq'.pos = rq.pos - 1 /\ rq'.dir = dir /\ rq'.deep = rq.deep /\ rq'.logs = Logged /\ rq'.starts = rq.starts
        /\ rq'.received = rq.received /\ rq'.by = rq.by /\ rq'.code = code
    BY <1>1 DEF Changes
  <1>5. WayOK'
    BY <1>1, <1>2, <1>4 DEF WayOK, Same
  <1>6. PanicOK'
    <2>1. CASE dir = "up"
      BY <1>1, <1>4, <2>1 DEF PanicOK
    <2>2. CASE dir = "panic"
      <3>1. rq.dir = "panic" /\ rq.path[rq.pos] \notin {"recovery", "gateway"}
        BY <1>1, <2>2
      <3>2. \A k \in (rq'.pos + 1)..rq'.deep : k = rq.pos \/ k \in (rq.pos + 1)..rq.deep
        BY <1>2, <1>4
      <3>3. \A k \in (rq'.pos + 1)..rq'.deep : rq'.path[k] \notin {"recovery", "gateway"}
        BY <1>1, <3>1, <3>2 DEF PanicOK, Same
      <3> QED BY <1>1, <1>4, <2>2, <3>1, <3>3 DEF PanicOK, Same
    <2> QED BY <1>1, <2>1, <2>2
  <1>7. LogsOK'
    BY <1>1, <1>4, LineWritten
  <1> QED BY <1>3, <1>5, <1>6, <1>7

LEMMA AnswerKeeps ==
    ASSUME AppliedOK, WayOK, PanicOK, LogsOK, Answer
    PROVE  AppliedOK' /\ WayOK' /\ PanicOK' /\ LogsOK'
  <1>1. PICK dir :
           /\ Same /\ Changes(rq.pos, dir, rq.code, rq.deep, rq.starts, rq.logs, rq.received, rq.by)
           /\ \/ rq.dir = "up" /\ rq.pos = 0 /\ dir = "done"
              \/ rq.dir = "panic" /\ rq.pos = 0 /\ dir = "aborted"
              \/ rq.dir = "panic" /\ rq.pos = 0 /\ dir = "crashed" /\ rq.kind \notin {"gin", "gateway"}
              \/ rq.dir = "panic" /\ rq.pos > 0 /\ dir = "crashed" /\ rq.path[rq.pos] = "gateway"
    BY AnswerDoes
  <1>2. rq # NoRequest /\ rq.pos \in Nat
    BY <1>1, RequestFields DEF Same
  <1>3. AppliedOK'
    BY <1>1, <1>2, AppliedKept DEF Answer
  <1>4. rq'.pos = rq.pos /\ rq'.dir = dir /\ rq'.deep = rq.deep /\ rq'.logs = rq.logs /\ rq'.starts = rq.starts
        /\ rq'.received = rq.received /\ rq'.by = rq.by /\ rq'.code = rq.code
    BY <1>1 DEF Changes
  <1>5. WayOK'
    BY <1>1, <1>4 DEF WayOK, Same
  <1>6. PanicOK'
    BY <1>1, <1>2, <1>4 DEF PanicOK, WayOK, Same
  <1>7. LogsOK'
    BY <1>1, <1>4 DEF LogsOK, Same
  <1> QED BY <1>3, <1>5, <1>6, <1>7

LEMMA ArriveKeeps ==
    ASSUME AppliedOK, NEW kind \in {"gin", "unary", "stream", "gateway", "client"}, NEW peer \in Peers,
           NEW exempt \in BOOLEAN, NEW valid \in BOOLEAN, Arrive(kind, peer, exempt, valid)
    PROVE  AppliedOK' /\ WayOK' /\ PanicOK' /\ LogsOK'
  <1>1. PICK who \in Peers \cup {[auth |-> "inproc", names |-> {}]} :
           who = (IF kind = "gateway" THEN [auth |-> "inproc", names |-> {}] ELSE peer)
    OBVIOUS
  <1>2. PICK path \in Seq(Frames) : path = Path(kind)
    BY PathIs DEF AppliedOK
  <1>3. PICK q : q = [kind |-> kind, exempt |-> exempt, valid |-> valid, peer |-> who, path |-> path, pos |-> 1,
                      dir |-> "down", code |-> "OK", deep |-> 0, starts |-> <<>>, logs |-> <<>>, received |-> FALSE, by |-> "none"]
    OBVIOUS
  <1>4. q \in Request
    <2>1. <<>> \in Seq(Nat) /\ "OK" \in (Verdicts \ {"panic"}) \cup {"Unknown", "Internal"}
          /\ "none" \in Frames \cup {"none", "handler"}
      BY DEF Verdicts
    <2> QED BY <1>3, <2>1 DEF Request
  <1>5. rq' = q /\ applied = "ready" /\ owned = (kind # "client") /\ UNCHANGED <<mcs, applied, owned, wanted>>
    BY <1>1, <1>2, <1>3 DEF Arrive
  <1>6. /\ q.kind = kind /\ q.peer = who /\ q.path = path /\ q.pos = 1 /\ q.dir = "down" /\ q.deep = 0
        /\ q.starts = <<>> /\ q.logs = <<>> /\ q.received = FALSE /\ q.by = "none" /\ Len(q.path) \in Nat
    BY <1>3
  <1>8. AppliedOK'
    <2>1. Path(rq.kind)' = path
      BY <1>2, <1>5, <1>6 DEF Path, Chain
    <2>2. kind = "gateway" => who.auth = "inproc"
      BY <1>1
    <2> QED BY <1>4, <1>5, <1>6, <2>1, <2>2 DEF AppliedOK
  <1>9. WayOK'
    BY <1>5, <1>6 DEF WayOK
  <1>10. PanicOK'
    BY <1>5, <1>6 DEF PanicOK
  <1>11. LogsOK'
    BY <1>5, <1>6 DEF LogsOK, Lines
  <1> QED BY <1>8, <1>9, <1>10, <1>11

LEMMA ApplyKeeps ==
    ASSUME AppliedOK, Apply
    PROVE  AppliedOK' /\ rq' = NoRequest
  <1>1. rq = NoRequest /\ rq' = NoRequest /\ wanted' = wanted
    BY DEF Apply, AppliedOK
  <1>2. mcs' \in Seq(DOMAIN Slots)
    <2>1. CASE UNCHANGED mcs
      BY <2>1 DEF AppliedOK
    <2>2. CASE mcs' = <<"context_tags">> \o (IF owned THEN <<"service_context">> ELSE <<>>) \o AddMiddlewares(wanted)
      <3>1. PICK S : S = DOMAIN Slots /\ "context_tags" \in S /\ "service_context" \in S
        BY DEF Slots
      <3>2. PICK a \in Seq(S), b \in Seq(S) :
              a = <<"context_tags">> /\ b = (IF owned THEN <<"service_context">> ELSE <<>>)
        <4>1. <<"context_tags">> \in Seq(S) /\ <<"service_context">> \in Seq(S) /\ <<>> \in Seq(S)
          BY <3>1
        <4>2. CASE owned
          BY <4>1, <4>2
        <4>3. CASE ~owned
          BY <4>1, <4>3
        <4> QED BY <4>2, <4>3
      <3>3. PICK c \in Seq(S) : c = AddMiddlewares(wanted)
        <4>1. Kept(wanted, Registered) \in Seq(STRING \cap Registered)
          BY KeptIs DEF AppliedOK
        <4>2. STRING \cap Registered \subseteq S
          BY <3>1 DEF Registered
        <4>3. Kept(wanted, Registered) \in Seq(S)
          BY <4>1, <4>2
        <4> QED BY <4>3 DEF AddMiddlewares
      <3>4. PICK ab \in Seq(S) : ab = a \o b
        BY ConcatIs
      <3>5. ab \o c \in Seq(S)
        BY ConcatIs
      <3> QED BY <2>2, <3>1, <3>2, <3>3, <3>4, <3>5
    <2> QED BY <2>1, <2>2 DEF Apply
  <1> QED BY <1>1, <1>2 DEF AppliedOK

LEMMA MiddlewareAlways == MiddlewareSpec => []MiddlewareInv
  <1>1. MiddlewareInit => MiddlewareInv
    BY MiddlewareAssumption DEF MiddlewareInit, MiddlewareInv, AppliedOK
  <1>2. MiddlewareInv /\ [MiddlewareNext]_middlewareVars => MiddlewareInv'
    <2> SUFFICES ASSUME MiddlewareInv, [MiddlewareNext]_middlewareVars PROVE MiddlewareInv'
      OBVIOUS
    <2> USE DEF MiddlewareInv
    <2>1. CASE Apply
      BY <2>1, ApplyKeeps
    <2>2. CASE Descend
      BY <2>2, DescendKeeps DEF Descend, Going
    <2>3. CASE Handle
      BY <2>3, HandleKeeps DEF Handle, Going
    <2>4. CASE Return \/ Unwind
      BY <2>4, UpKeeps DEF Return, Unwind, Going
    <2>5. CASE Answer
      BY <2>5, AnswerKeeps DEF Answer, Going
    <2>6. ASSUME NEW kind \in {"gin", "unary", "stream", "gateway", "client"}, NEW peer \in Peers,
                 NEW exempt \in BOOLEAN, NEW valid \in BOOLEAN, Arrive(kind, peer, exempt, valid)
          PROVE  MiddlewareInv'
      BY <2>6, ArriveKeeps
    <2>7. CASE UNCHANGED middlewareVars
      BY <2>7 DEF middlewareVars, AppliedOK, WayOK, PanicOK, LogsOK, Path, Chain
    <2> QED BY <2>1, <2>2, <2>3, <2>4, <2>5, <2>6, <2>7 DEF MiddlewareNext
  <1> QED BY <1>1, <1>2, PTL DEF MiddlewareSpec

LEMMA GatewayPath ==
    ASSUME mcs \in Seq(DOMAIN Slots)
    PROVE  \E g \in Nat : \E u \in Seq(Filter("unary")) :
             /\ g >= 1 /\ u = Chain("unary") /\ Len(u) \in Nat /\ Len(Path("gateway")) = g + Len(u)
             /\ \A k \in 1..(g - 1) : Path("gateway")[k] # "gateway"
             /\ \A j \in 1..Len(u) : Path("gateway")[g + j] = u[j] /\ Path("gateway")[g + j] # "gateway"
  <1>1. PICK kind \in {"gin", "unary", "stream", "gateway", "client"} : kind = "gateway"
    OBVIOUS
  <1>2. PICK g \in Nat :
          /\ g = Len(Chain("gin")) + 1 /\ Len(Path(kind)) = g + Len(Chain("unary"))
          /\ \A k \in 1..(g - 1) : Path(kind)[k] # "gateway"
          /\ \A j \in 1..Len(Chain("unary")) :
                Path(kind)[g + j] = Chain("unary")[j] /\ Path(kind)[g + j] # "gateway"
    BY <1>1, PathIs
  <1>3. Chain("gin") \in Seq(Filter("gin")) /\ Chain("unary") \in Seq(Filter("unary"))
    BY ChainIs
  <1>4. Len(Chain("gin")) \in Nat /\ Len(Chain("unary")) \in Nat
    BY <1>3
  <1>5. PICK u \in Seq(Filter("unary")) : u = Chain("unary")
    BY <1>3
  <1>6. /\ g >= 1 /\ Len(u) \in Nat /\ Len(Path("gateway")) = g + Len(u)
        /\ \A k \in 1..(g - 1) : Path("gateway")[k] # "gateway"
        /\ \A j \in 1..Len(u) : Path("gateway")[g + j] = u[j] /\ Path("gateway")[g + j] # "gateway"
    BY <1>1, <1>2, <1>4, <1>5
  <1> QED BY <1>5, <1>6

\* A path other than Gin's holds what is enabled and has a handler for it.
LEMMA PathHolds ==
    ASSUME mcs \in Seq(DOMAIN Slots), NEW kind \in {"unary", "stream", "gateway", "client"},
           NEW name, IsMiddlewareEnabled(name), (IF kind = "gateway" THEN "unary" ELSE kind) \in Slots[name]
    PROVE  \E k \in 1..Len(Path(kind)) : Path(kind)[k] = name
  <1>1. CASE kind # "gateway"
    <2>1. Path(kind) = Chain(kind) /\ Path(kind) \in Seq(Frames)
      BY <1>1, PathIs
    <2>2. PICK j \in DOMAIN Chain(kind) : Chain(kind)[j] = name
      BY <1>1, ChainHolds
    <2> QED BY <2>1, <2>2
  <1>2. CASE kind = "gateway"
    <2>1. PICK g \in Nat :
            /\ g >= 1 /\ Len(Path(kind)) = g + Len(Chain("unary"))
            /\ \A j \in 1..Len(Chain("unary")) : Path(kind)[g + j] = Chain("unary")[j]
      BY <1>2, GatewayPath
    <2>2. PICK j \in DOMAIN Chain("unary") : Chain("unary")[j] = name
      BY <1>2, ChainHolds
    <2>3. j \in 1..Len(Chain("unary")) /\ Len(Chain("unary")) \in Nat
      BY <2>2, ChainIs
    <2>4. g + j \in 1..Len(Path(kind))
      BY <2>1, <2>3
    <2> QED BY <2>1, <2>2, <2>3, <2>4
  <1> QED BY <1>1, <1>2

LEMMA GuardedNow == MiddlewareInv => HandlerGuarded
  <1> SUFFICES ASSUME AppliedOK, WayOK, rq # NoRequest, rq.kind # "gin", rq.received
               PROVE  /\ IsMiddlewareEnabled("access_control") /\ owned =>
                            rq.exempt \/ Subjects(rq.peer) \cap Policy # {}
                      /\ IsMiddlewareEnabled("request_validation") => rq.valid
    BY DEF MiddlewareInv, HandlerGuarded
  <1>1. PICK r \in Request : r = rq
    BY DEF AppliedOK
  <1>2. /\ r.kind \in {"unary", "stream", "gateway", "client"} /\ r.exempt \in BOOLEAN /\ r.valid \in BOOLEAN
        /\ r.path = Path(r.kind) /\ mcs \in Seq(DOMAIN Slots) /\ owned = (r.kind # "client")
        /\ r.path \in Seq(Frames)
    BY <1>1, RequestFields DEF AppliedOK
  <1>3. /\ \A k \in 1..Len(r.path) : Gives(r.path[k], r.kind, r.exempt, r.valid, r.peer) = "OK"
        /\ ~Refuses(r.kind, r.valid, r.path)
    BY <1>1 DEF WayOK
  <1>4. ASSUME IsMiddlewareEnabled("access_control"), owned
        PROVE  r.exempt \/ Subjects(r.peer) \cap Policy # {}
    <2>1. (IF r.kind = "gateway" THEN "unary" ELSE r.kind) \in Slots["access_control"]
      BY <1>2, <1>4, SlotsAre
    <2>2. PICK k \in 1..Len(r.path) : r.path[k] = "access_control"
      BY <1>2, <1>4, <2>1, PathHolds
    <2>3. Gives("access_control", r.kind, r.exempt, r.valid, r.peer) = "OK"
      BY <1>3, <2>2
    <2> QED BY <1>2, <2>3, GivesPanic
  <1>5. ASSUME IsMiddlewareEnabled("request_validation"), ~r.valid PROVE FALSE
    <2>1. (IF r.kind = "gateway" THEN "unary" ELSE r.kind) \in Slots["request_validation"]
      BY <1>2, SlotsAre
    <2>2. PICK k \in 1..Len(r.path) : r.path[k] = "request_validation"
      BY <1>2, <1>5, <2>1, PathHolds
    <2>3. Gives("request_validation", r.kind, r.exempt, r.valid, r.peer) = "OK"
      BY <1>3, <2>2
    <2>4. r.kind = "stream"
      BY <1>2, <1>5, <2>3, GivesPanic
    <2>5. k \in DOMAIN r.path
      BY <1>2, <2>2
    <2> QED BY <1>3, <1>5, <2>2, <2>4, <2>5 DEF Refuses
  <1> QED BY <1>1, <1>4, <1>5

LEMMA LoggedNow == MiddlewareInv => LoggedOnce
  <1> SUFFICES ASSUME AppliedOK, WayOK, PanicOK, LogsOK, rq # NoRequest, rq.dir \in {"done", "aborted", "crashed"},
                      NEW i \in DOMAIN rq.path, rq.path[i] = "log_request"
               PROVE  /\ Count(rq.logs, i) = (IF rq.pos < i /\ i <= rq.deep THEN 1 ELSE 0)
                      /\ Count(rq.starts, i) = (IF rq.kind = "stream" /\ i <= rq.deep THEN 1 ELSE 0)
                      /\ rq.pos > 0 => rq.dir = "crashed" /\ rq.kind = "gateway" /\ rq.path[rq.pos] = "gateway"
    BY DEF MiddlewareInv, LoggedOnce
  <1>1. rq.pos \in Nat /\ rq.deep \in Nat /\ i \in Nat /\ i >= 1 /\ rq.path \in Seq(Frames)
    <2>1. rq \in Request
      BY DEF AppliedOK
    <2>2. rq.path \in Seq(Frames) /\ rq.deep \in Nat /\ rq.pos \in Nat
      BY <2>1, RequestFields
    <2> QED BY <2>2
  <1>2. i \in (rq.pos + 1)..rq.deep <=> rq.pos < i /\ i <= rq.deep
    BY <1>1
  <1>3. i \in (IF rq.kind = "stream" THEN 1..rq.deep ELSE {}) <=> rq.kind = "stream" /\ i <= rq.deep
    BY <1>1
  <1>l. PICK starts, logs, path, S, T :
          /\ starts = rq.starts /\ logs = rq.logs /\ path = rq.path
          /\ S = (IF rq.kind = "stream" THEN 1..rq.deep ELSE {}) /\ T = (rq.pos + 1)..rq.deep
    OBVIOUS
  <1>m. Lines(starts, S, path) /\ Lines(logs, T, path) /\ path[i] = "log_request"
    BY <1>l DEF LogsOK
  <1>4. Count(rq.logs, i) = (IF i \in (rq.pos + 1)..rq.deep THEN 1 ELSE 0)
    <2>1. (i \in T => Count(logs, i) = 1) /\ (i \notin T => Count(logs, i) = 0)
      BY <1>m, LinesCount
    <2> QED BY <1>l, <2>1
  <1>5. Count(rq.starts, i) = (IF i \in (IF rq.kind = "stream" THEN 1..rq.deep ELSE {}) THEN 1 ELSE 0)
    <2>1. (i \in S => Count(starts, i) = 1) /\ (i \notin S => Count(starts, i) = 0)
      BY <1>m, LinesCount
    <2> QED BY <1>l, <2>1
  <1>6. ASSUME rq.pos > 0
        PROVE  rq.dir = "crashed" /\ rq.kind = "gateway" /\ rq.path[rq.pos] = "gateway"
    <2>1. rq.dir = "crashed" /\ rq.path[rq.pos] = "gateway" /\ rq.pos <= Len(rq.path) /\ Len(rq.path) \in Nat
      BY <1>1, <1>6 DEF WayOK, PanicOK
    <2>2. ASSUME rq.kind # "gateway" PROVE FALSE
      <3>1. rq.kind \in {"gin", "unary", "stream", "client"} /\ rq.path = Path(rq.kind) /\ mcs \in Seq(DOMAIN Slots)
        BY <2>2, RequestFields DEF AppliedOK
      <3>2. rq.path = Chain(rq.kind) /\ rq.path \in Seq(Filter(rq.kind))
        BY <2>2, <3>1, PathIs, ChainIs
      <3>3. rq.path[rq.pos] \in Filter(rq.kind)
        BY <1>1, <1>6, <2>1, <3>2
      <3> QED BY <2>1, <3>3, SlotsAre DEF Filter
    <2> QED BY <2>1, <2>2
  <1> QED BY <1>2, <1>3, <1>4, <1>5, <1>6

LEMMA ContainedNow == MiddlewareInv => PanicContained
  <1> SUFFICES ASSUME AppliedOK, WayOK, PanicOK, rq # NoRequest, rq.dir = "crashed"
               PROVE  IF rq.by = "handler" THEN ~IsMiddlewareEnabled("recovery") ELSE Exposed(rq.by)
    BY DEF MiddlewareInv, PanicContained, PanicOK
  <1>1. PICK r \in Request : r = rq
    BY DEF AppliedOK
  <1>2. /\ r.kind \in {"gin", "unary", "stream", "gateway", "client"} /\ r.exempt \in BOOLEAN /\ r.valid \in BOOLEAN
        /\ r.path = Path(r.kind) /\ mcs \in Seq(DOMAIN Slots) /\ r.path \in Seq(Frames) /\ Len(r.path) \in Nat
        /\ r.pos \in Nat /\ r.deep \in Nat /\ r.deep <= Len(r.path)
        /\ r.kind = "gateway" => r.peer.auth = "inproc"
    BY <1>1, RequestFields DEF AppliedOK, WayOK
  <1>3. /\ \A k \in (r.pos + 1)..r.deep : r.path[k] # "recovery"
        /\ IF r.by = "handler" THEN r.deep = Len(r.path) /\ r.kind # "client"
           ELSE /\ r.deep < Len(r.path) /\ r.by = r.path[r.deep + 1]
                /\ Gives(r.by, r.kind, r.exempt, r.valid, r.peer) = "panic"
        /\ IF r.pos = 0 THEN r.kind \notin {"gin", "gateway"}
           ELSE r.pos <= r.deep /\ r.path[r.pos] = "gateway"
    BY <1>1 DEF PanicOK
  <1>4. ASSUME r.kind # "gateway"
        PROVE  r.pos = 0 /\ r.path = Chain(r.kind) /\ r.path \in Seq(Filter(r.kind))
    <2>1. r.path = Chain(r.kind) /\ r.path \in Seq(Filter(r.kind))
      BY <1>2, <1>4, PathIs, ChainIs
    <2>2. \A k \in 1..Len(r.path) : r.path[k] # "gateway"
      BY <1>2, <2>1, SlotsAre DEF Filter
    <2> QED BY <1>2, <1>3, <2>1, <2>2
  <1>5. CASE r.by = "handler"
    <2> SUFFICES ASSUME IsMiddlewareEnabled("recovery") PROVE FALSE
      BY <1>1, <1>5
    <2>1. CASE r.kind # "gateway"
      <3>1. r.kind \in Slots["recovery"]
        BY <1>2, <1>3, <1>4, <1>5, <2>1, SlotsAre
      <3>2. PICK j \in DOMAIN Chain(r.kind) : Chain(r.kind)[j] = "recovery"
        BY <1>2, <3>1, ChainHolds
      <3>3. j \in (r.pos + 1)..r.deep
        BY <1>2, <1>3, <1>4, <1>5, <2>1, <3>2
      <3> QED BY <1>3, <1>4, <2>1, <3>2, <3>3
    <2>2. CASE r.kind = "gateway"
      <3>1. PICK g \in Nat : \E u \in Seq(Filter("unary")) :
              /\ u = Chain("unary") /\ Len(u) \in Nat /\ Len(r.path) = g + Len(u)
              /\ \A k \in 1..(g - 1) : r.path[k] # "gateway"
              /\ \A j \in 1..Len(u) : r.path[g + j] = u[j] /\ r.path[g + j] # "gateway"
        <4>1. r.path = Path("gateway") /\ mcs \in Seq(DOMAIN Slots)
          BY <1>2, <2>2
        <4> QED BY <4>1, GatewayPath
      <3>u. PICK u \in Seq(Filter("unary")) :
              /\ u = Chain("unary") /\ Len(u) \in Nat /\ Len(r.path) = g + Len(u)
              /\ \A k \in 1..(g - 1) : r.path[k] # "gateway"
              /\ \A j \in 1..Len(u) : r.path[g + j] = u[j] /\ r.path[g + j] # "gateway"
        BY <3>1
      <3>2. "unary" \in Slots["recovery"]
        BY SlotsAre
      <3>3. PICK j \in 1..Len(u) : u[j] = "recovery"
        BY <1>2, <3>u, <3>2, ChainHolds
      <3>4. r.pos >= 1 /\ r.pos <= Len(r.path) /\ r.path[r.pos] = "gateway"
        BY <1>2, <1>3, <2>2
      <3>5. r.pos <= g
        <4>1. ASSUME r.pos > g PROVE FALSE
          <5>1. PICK l \in 1..Len(u) : r.pos = g + l
            <6>1. r.pos - g \in 1..Len(u) /\ r.pos = g + (r.pos - g)
              BY <1>2, <3>u, <3>4, <4>1
            <6> QED BY <6>1
          <5> QED BY <3>u, <3>4, <5>1
        <4> QED BY <1>2, <4>1
      <3>6. g + j \in (r.pos + 1)..r.deep
        BY <1>2, <1>3, <1>5, <3>u, <3>3, <3>5
      <3> QED BY <1>3, <3>u, <3>3, <3>6
    <2> QED BY <2>1, <2>2
  <1>6. CASE r.by # "handler"
    <2>1. r.by = "access_control" /\ r.peer.auth = "nil"
      BY <1>2, <1>3, <1>6, GivesPanic
    <2>2. r.kind # "gateway"
      BY <1>2, <2>1
    <2>3. PICK j \in DOMAIN Chain(r.kind) : j = r.deep + 1 /\ Chain(r.kind)[j] = r.by
      BY <1>2, <1>3, <1>4, <1>6, <2>2
    <2>4. r.kind \in Slots["access_control"]
      BY <1>4, <2>1, <2>2, <2>3 DEF Filter
    <2>5. r.kind \in Slots["recovery"]
      BY <2>4, SlotsAre
    <2>6. \A k \in 1..(j - 1) : Chain(r.kind)[k] # "recovery"
      BY <1>2, <1>3, <1>4, <2>2, <2>3
    <2>7. Exposed(Chain(r.kind)[j])
      BY <1>2, <2>3, <2>5, <2>6, ChainExposes
    <2> QED BY <1>1, <1>6, <2>3, <2>7
  <1> QED BY <1>5, <1>6

\* Access control and validation guard the handler wherever they stand in the
\* configuration (appmgr/middleware.go, grpcex/access_controller.go, validator.go).
THEOREM HandlerGuardedHolds == MiddlewareSpec => []HandlerGuarded
  BY MiddlewareAlways, GuardedNow, PTL

\* Every log_request that a request came through has closed it with one line, panic
\* or not, and opened a stream with one; those above the gateway have not when a
\* panic behind it ends the process (grpcex/zerolog.go, ginex/zerolog.go).
THEOREM LoggedOnceHolds == MiddlewareSpec => []LoggedOnce
  BY MiddlewareAlways, LoggedNow, PTL

\* A panic is never a success, and where recovery is configured before what
\* panics it does not end the process (appmgr/middleware.go, recovery).
THEOREM PanicContainedHolds == MiddlewareSpec => []PanicContained
  BY MiddlewareAlways, ContainedNow, PTL
=============================================================================
