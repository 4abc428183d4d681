------------------------------- MODULE Codec -------------------------------
(***************************************************************************)
(* copy/copy.go: GobDeepCopy.  The codecs (an encoder and a decoder over    *)
(* one buffer) come from a global pool that the first call creates, without *)
(* synchronisation: the pointer is read for the nil test, for Get and again *)
(* for the deferred Put.  The pool itself is the lease of ConnLease; a Put  *)
(* of a codec it has not lent panics with its mutex held (wedged in Pool).  *)
(* The other copies marshal into bytes of their own and share nothing.       *)
(***************************************************************************)
EXTENDS Integers, Sequences, FiniteSets

CONSTANTS
    Copiers,        \* goroutines that call GobDeepCopy
    Values,         \* the values they copy
    CodecPools,     \* the pools that may get created
    Codecs,         \* the codecs that may get dialled
    Nil,
    MaxBuffer       \* bound on the messages in a buffer

ASSUME CodecAssumption == CodecPools # {} /\ Nil \notin CodecPools

VARIABLES
    gobCodecPool,   \* the global pointer
    made,           \* the pools created so far
    idle, lent,     \* the codecs in each pool, and those it has lent
    locked,         \* the pools whose mutex a panic left locked
    buffer,         \* the messages in the buffer of each codec
    spoiled,        \* codecs that were used with a dst that is no pointer
    call            \* per copier: None or its call

codecVars == <<gobCodecPool, made, idle, lent, locked, buffer, spoiled, call>>
pools == <<gobCodecPool, made, idle, lent, locked>>

Idling == [at |-> "out", src |-> Nil, dst |-> "pointer", pool |-> Nil,
           codec |-> Nil, result |-> Nil]

CodecInit ==
    /\ gobCodecPool = Nil /\ made = {}
    /\ idle = [p \in CodecPools |-> {}] /\ lent = [p \in CodecPools |-> {}] /\ locked = {}
    /\ buffer = [c \in Codecs |-> <<>>] /\ spoiled = {}
    /\ call = [g \in Copiers |-> Idling]

-----------------------------------------------------------------------------
Move(g, at) == call' = [call EXCEPT ![g].at = at]

\* A nil src or dst is an error before anything else.
CopyStart(g, v, d) ==
    /\ call[g].at = "out"
    /\ call' = [call EXCEPT ![g] = IF d = "nil" THEN Idling
                                   ELSE [Idling EXCEPT !.at = "test", !.src = v, !.dst = d]]
    /\ UNCHANGED <<pools, buffer, spoiled>>

\* Mutant: the test of the pointer is missing.
PoolTestMissing(g) ==
    /\ call[g].at = "test" /\ Move(g, "create")
    /\ UNCHANGED <<pools, buffer, spoiled>>

PoolTest(g) ==
    /\ call[g].at = "test" /\ Move(g, IF gobCodecPool = Nil THEN "create" ELSE "get")
    /\ UNCHANGED <<pools, buffer, spoiled>>

PoolCreate(g) ==
    /\ call[g].at = "create" /\ Move(g, "get")
    /\ CodecPools # made
    /\ gobCodecPool' = CHOOSE p \in CodecPools : p \notin made
    /\ made' = made \cup {gobCodecPool'}
    /\ UNCHANGED <<idle, lent, locked, buffer, spoiled>>

\* Get: an idle codec or a new one.  A pool whose mutex is locked blocks.
CodecGet(g) ==
    /\ call[g].at = "get" /\ gobCodecPool \notin locked
    /\ \E c \in idle[gobCodecPool] \cup (Codecs \ UNION {idle[p] \cup lent[p] : p \in CodecPools}) :
         /\ lent' = [lent EXCEPT ![gobCodecPool] = @ \cup {c}]
         /\ idle' = [idle EXCEPT ![gobCodecPool] = @ \ {c}]
         /\ call' = [call EXCEPT ![g].at = "defer", ![g].codec = c]
    /\ UNCHANGED <<gobCodecPool, made, locked, buffer, spoiled>>

\* "defer gobCodecPool.Put(gc)" reads the pointer a third time.
DeferPut(g) ==
    /\ call[g].at = "defer"
    /\ call' = [call EXCEPT ![g].at = "encode", ![g].pool = gobCodecPool]
    /\ UNCHANGED <<pools, buffer, spoiled>>

\* A value that gob cannot encode leaves nothing in the buffer.
Encode(g) ==
    /\ call[g].at = "encode"
    /\ LET c == call[g].codec IN
       \/ /\ Len(buffer[c]) < MaxBuffer
          /\ buffer' = [buffer EXCEPT ![c] = Append(@, call[g].src)] /\ Move(g, "decode")
       \/ Move(g, "failed") /\ UNCHANGED buffer
    /\ UNCHANGED <<pools, spoiled>>

\* Mutant: the message of a failed decode stays in the buffer.
DecodeKeeps(g) ==
    /\ call[g].at = "decode"
    /\ LET c == call[g].codec IN
       \/ /\ call[g].dst = "pointer" /\ buffer' = [buffer EXCEPT ![c] = Tail(@)]
          /\ call' = [call EXCEPT ![g].at = "copied", ![g].result = Head(buffer[c])]
          /\ UNCHANGED spoiled
       \/ /\ call[g].dst = "mismatch" /\ UNCHANGED <<buffer, spoiled>> /\ Move(g, "failed")
       \/ /\ call[g].dst = "value" /\ spoiled' = spoiled \cup {c}
          /\ Move(g, "failed") /\ UNCHANGED buffer
    /\ UNCHANGED pools

\* The decoder reads the oldest message: into a pointer of a fitting type; for
\* another type it fails with the message read; and it refuses a dst that is no
\* pointer before it reads.
Decode(g) ==
    /\ call[g].at = "decode"
    /\ LET c == call[g].codec IN
       \/ /\ call[g].dst = "pointer" /\ buffer' = [buffer EXCEPT ![c] = Tail(@)]
          /\ call' = [call EXCEPT ![g].at = "copied", ![g].result = Head(buffer[c])]
          /\ UNCHANGED spoiled
       \/ /\ call[g].dst = "mismatch" /\ buffer' = [buffer EXCEPT ![c] = Tail(@)]
          /\ Move(g, "failed") /\ UNCHANGED spoiled
       \/ /\ call[g].dst = "value" /\ spoiled' = spoiled \cup {c}
          /\ Move(g, "failed") /\ UNCHANGED buffer
    /\ UNCHANGED pools

\* The deferred Put into the pool that was read last.
CodecPut(g) ==
    /\ call[g].at \in {"copied", "failed"} /\ call[g].pool \notin locked
    /\ LET p == call[g].pool c == call[g].codec IN
       \/ /\ c \in lent[p]
          /\ lent' = [lent EXCEPT ![p] = @ \ {c}] /\ idle' = [idle EXCEPT ![p] = @ \cup {c}]
          /\ call' = [call EXCEPT ![g] = Idling] /\ UNCHANGED locked
       \/ /\ c \notin lent[p]
          /\ locked' = locked \cup {p} /\ Move(g, "panicked") /\ UNCHANGED <<lent, idle>>
    /\ UNCHANGED <<gobCodecPool, made, buffer, spoiled>>

\* IdleTimeout: the pool closes an idle codec.
CodecExpires(p, c) ==
    /\ c \in idle[p] /\ p \notin locked
    /\ idle' = [idle EXCEPT ![p] = @ \ {c}] /\ buffer' = [buffer EXCEPT ![c] = <<>>]
    /\ spoiled' = spoiled \ {c}
    /\ UNCHANGED <<gobCodecPool, made, lent, locked, call>>

CodecNext ==
    \/ \E g \in Copiers, v \in Values, d \in {"pointer", "mismatch", "value", "nil"} : CopyStart(g, v, d)
    \/ \E g \in Copiers : \/ PoolTest(g) \/ PoolCreate(g) \/ CodecGet(g) \/ DeferPut(g)
                          \/ Encode(g) \/ Decode(g) \/ CodecPut(g)
    \/ \E p \in CodecPools, c \in Codecs : CodecExpires(p, c)

CodecSpec == CodecInit /\ [][CodecNext]_codecVars

-----------------------------------------------------------------------------
(* Properties *)
\* "DeepCopy deep copies the source to destination": a copy that succeeds with a
\* codec no one gave a dst that is no pointer delivers its own source, whatever
\* calls failed on that codec before.
CopyExact == \A g \in Copiers : call[g].at = "copied" /\ call[g].codec \notin spoiled =>
    call[g].result = call[g].src

\* Every codec is on its way back to the pool that lent it.
Returning == \A g \in Copiers :
    /\ call[g].at = "defer" => call[g].codec \in lent[gobCodecPool]
    /\ call[g].at \in {"encode", "decode", "copied", "failed"} => call[g].codec \in lent[call[g].pool]

\* So it is, and nobody is about to create another pool.
Settled == Returning /\ gobCodecPool # Nil /\ \A g \in Copiers : call[g].at # "create"

\* A Put panics, and leaves its pool locked for everybody, only after two calls
\* have found no pool and each created one; and once no call is about to create
\* another and every codec is on its way back, that is over for good, however many
\* copies follow.
PanicNeedsRace == [][/\ locked' # locked => \E p, q \in made : p # q
                     /\ Settled => Settled' /\ locked' = locked]_codecVars
=============================================================================
