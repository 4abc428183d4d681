------------------------------ MODULE UniqueID ------------------------------
(***************************************************************************)
(* uniqueid/generator.go: processes that each derive a node id from a       *)
(* service id and an instance index and mint ids.  A clock reading is taken *)
(* on every attempt; clocks may be set back; a process may restart, which   *)
(* forgets lastTime and step.  NewID holds the generator's lock, so its     *)
(* calls within one process are serialised: one attempt is one step.        *)
(***************************************************************************)
EXTENDS Integers

CONSTANTS
    Procs,          \* pairs <<serviceID, instanceIndex>> as given to NewGeneratorFromHostName
    ServiceCount, InstanceCount, StepCount, TimeCount,   \* 2^6, 2^6, 2^10, 2^42
    maxReservedId,  \* 0xffffffff
    Encrypt(_),     \* the XTEA block cipher under the shared key (external)
    MaxClock,       \* bound on the clocks
    ClockBack,      \* the processes whose clock may be set back
    Restarting,     \* the processes that may restart
    RestartEarly,   \* may they come back while their clock is behind what they handed out?
    MaxRestarts     \* bound on restarts

NodeCount == ServiceCount * InstanceCount
PlainIDs == 0..(TimeCount * NodeCount * StepCount - 1)

ASSUME UniqueIDAssumption ==
    /\ ServiceCount \in Nat \ {0} /\ InstanceCount \in Nat \ {0}
    /\ StepCount \in Nat \ {0} /\ TimeCount \in Nat \ {0}
    /\ Procs \subseteq Int \X Int
    /\ maxReservedId \in Nat /\ MaxClock \in Nat /\ MaxRestarts \in Nat
    /\ ClockBack \subseteq Procs /\ Restarting \subseteq Procs /\ RestartEarly \in BOOLEAN

\* A block cipher under one key is a permutation of the blocks.
ASSUME EncryptAssumption ==
    /\ \A x \in PlainIDs : Encrypt(x) \in Nat
    /\ \A x, y \in PlainIDs : Encrypt(x) = Encrypt(y) => x = y

VARIABLES
    clock,      \* milliseconds since epoch, per process
    gen,        \* "none" before NewGenerator..., "ready", or "error"
    lastTime,   \* g.lastTime
    step,       \* g.step
    minted,     \* ids returned so far, without the last one
    last,       \* the id returned last, in a set of at most one element
    restarts    \* restarts so far

vars == <<clock, gen, lastTime, step, minted, last, restarts>>

Init ==
    /\ clock \in [Procs -> 0..MaxClock]
    /\ gen = [p \in Procs |-> "none"]
    /\ lastTime = [p \in Procs |-> 0]
    /\ step = [p \in Procs |-> 0]
    /\ minted = {} /\ last = {} /\ restarts = 0

-----------------------------------------------------------------------------
\* Mutant: the instance index may be one too large.
AcceptsLargeIndex(p) ==
    /\ 0 <= p[1] /\ p[1] <= ServiceCount - 1
    /\ 0 <= p[2] /\ p[2] <= InstanceCount

\* service_id_overflow, instance_index_overflow
Accepts(p) ==
    /\ 0 <= p[1] /\ p[1] <= ServiceCount - 1
    /\ 0 <= p[2] /\ p[2] <= InstanceCount - 1

nodeID(p) == p[1] * InstanceCount + p[2]

NewGeneratorFromHostName(p) ==
    /\ gen[p] = "none"
    /\ gen' = [gen EXCEPT ![p] = IF Accepts(p) THEN "ready" ELSE "error"]
    /\ UNCHANGED <<clock, lastTime, step, minted, last, restarts>>

\* Mutant: the overflow test lets the step reach its limit.
NextTickLate(now, t, s) ==
    IF now <= t
    THEN IF s + 1 > StepCount THEN <<t + 1, 0>> ELSE <<t, s + 1>>
    ELSE <<now, 0>>

\* lastTime and step after snowflakeID reads the clock.
NextTick(now, t, s) ==
    IF now <= t
    THEN IF s + 1 > StepCount - 1 THEN <<t + 1, 0>> ELSE <<t, s + 1>>
    ELSE <<now, 0>>

\* (lastTime << timeShift) | (nodeID << nodeShift) | step
Pack(t, n, s) == (t * NodeCount + n) * StepCount + s

\* One attempt of NewID, with a clock past the epoch; an id in the reserved range is skipped and the loop
\* goes on with another attempt.
NewID(p) ==
    LET tick == NextTick(clock[p], lastTime[p], step[p])
        id == Encrypt(Pack(tick[1], nodeID(p), tick[2]))
    IN  /\ gen[p] = "ready"
        /\ tick[1] < TimeCount
        /\ lastTime' = [lastTime EXCEPT ![p] = tick[1]]
        /\ step' = [step EXCEPT ![p] = tick[2]]
        /\ \/ /\ id > maxReservedId
              /\ minted' = minted \cup last
              /\ last' = {id}
           \/ /\ id <= maxReservedId
              /\ UNCHANGED <<minted, last>>
        /\ UNCHANGED <<clock, gen, restarts>>

\* The process ends and starts again with a new generator.
Restart(p) ==
    /\ p \in Restarting /\ gen[p] = "ready" /\ restarts < MaxRestarts
    /\ RestartEarly \/ clock[p] > lastTime[p]
    /\ gen' = [gen EXCEPT ![p] = "none"]
    /\ lastTime' = [lastTime EXCEPT ![p] = 0]
    /\ step' = [step EXCEPT ![p] = 0]
    /\ restarts' = restarts + 1
    /\ UNCHANGED <<clock, minted, last>>

\* The clock moves on, or is set back.
Clock(p) ==
    /\ \E c \in 0..MaxClock : /\ c > clock[p] \/ (p \in ClockBack /\ c < clock[p])
                              /\ clock' = [clock EXCEPT ![p] = c]
    /\ UNCHANGED <<gen, lastTime, step, minted, last, restarts>>

Next == \E p \in Procs :
            NewGeneratorFromHostName(p) \/ NewID(p) \/ Restart(p) \/ Clock(p)

Spec == Init /\ [][Next]_vars

-----------------------------------------------------------------------------
(* Properties *)

\* lastTime, step and the ids are unsigned: no path of snowflakeID takes them
\* below zero.
TypeOK ==
    /\ clock \in [Procs -> 0..MaxClock]
    /\ gen \in [Procs -> {"none", "ready", "error"}]
    /\ lastTime \in [Procs -> Nat] /\ step \in [Procs -> Nat]
    /\ minted \subseteq Nat /\ last \subseteq Nat
    /\ restarts \in Nat

\* "every instance mints non-colliding IDs": the id returned last was never
\* returned before, by any process, though clocks are set back and steps overflow.
\* A process that restarts must have a clock that is past what it handed out
\* (RestartEarly is FALSE, its clock not in ClockBack).
Unique == last \cap minted = {}

\* The three fields of an id never run into each other, so that no step of one
\* instance produces another instance's bits.
FieldsFit == \A p \in Procs : gen[p] = "ready" =>
    /\ step[p] < StepCount
    /\ nodeID(p) \in 0..(NodeCount - 1)
    /\ \A q \in Procs : gen[q] = "ready" /\ nodeID(q) = nodeID(p) => q = p

\* While a generator lives, its (lastTime, step) only ever grows, also when the
\* clock is set back.
Before(t, s, t1, s1) == t < t1 \/ (t = t1 /\ s < s1)
TickGrows == [][\A p \in Procs :
                  gen[p] = "ready" /\ gen'[p] = "ready"
                  /\ <<lastTime[p], step[p]>>' # <<lastTime[p], step[p]>>
                    => Before(lastTime[p], step[p], lastTime'[p], step'[p])]_vars
=============================================================================
