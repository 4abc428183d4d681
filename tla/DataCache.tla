------------------------------ MODULE DataCache ------------------------------
(***************************************************************************)
(* datacache/datacache.go: one cached value, reloaded in the background by  *)
(* whichever Get finds it expired.  Time is in milliseconds, the unit of    *)
(* the options and of the sleep.  Get reads the clock once, at its start,   *)
(* and works with that reading: a reader may act on an old one.             *)
(***************************************************************************)
EXTENDS Integers, FiniteSets

CONSTANTS
    Readers,           \* goroutines that call Get
    Loaders,           \* goroutines that load (reused once they end)
    None,              \* the zero value; no load
    expiration, retryInterval, waitTimeout,
    ErrExpirations,    \* the values of expirationOnErr to consider
    MaxLoad,           \* loadData returns within MaxLoad
    Prompt,            \* does a reader reach its lock before the clock moves on?
    MaxClock           \* bound on the clock

ASSUME CacheAssumption ==
    /\ expiration \in Nat /\ ErrExpirations \subseteq Nat /\ waitTimeout \in Nat
    /\ retryInterval \in Nat \ {0} /\ MaxLoad \in Nat /\ MaxClock \in Nat \ {0}
    /\ Prompt \in BOOLEAN /\ None \notin Nat

VARIABLES
    expirationOnErr, \* an option, never changed
    clock,           \* time.Now()
    data,            \* None, or the time at which the load of the data began
    nextUpdateTime,
    initCutOffTime,
    pc,              \* where each reader is
    rnow,            \* its local now
    got,             \* what its last Get returned
    load,            \* per loader: None, or when its load began
    firstGet         \* when the first Get began (0: none yet)

vars == <<expirationOnErr, clock, data, nextUpdateTime, initCutOffTime, pc, rnow, got, load, firstGet>>

\* NewDataCache with or without initial data, at time 1: 0 stands for "not set"
\* in initCutOffTime.
Init ==
    /\ clock = 1
    /\ expirationOnErr \in ErrExpirations
    /\ data \in {None, 0}
    /\ nextUpdateTime = 0
    /\ initCutOffTime = IF data = None THEN 0 ELSE 1
    /\ pc = [r \in Readers |-> "out"]
    /\ rnow = [r \in Readers |-> 0]
    /\ got = [r \in Readers |-> 0]
    /\ load = [l \in Loaders |-> None]
    /\ firstGet = 0

-----------------------------------------------------------------------------
(* Get *)
GetStart(r) ==
    /\ pc[r] = "out"
    /\ pc' = [pc EXCEPT ![r] = "read"]
    /\ rnow' = [rnow EXCEPT ![r] = clock]
    /\ firstGet' = IF firstGet = 0 THEN clock ELSE firstGet
    /\ UNCHANGED <<expirationOnErr, clock, data, nextUpdateTime, initCutOffTime, got, load>>

\* The check under the read lock.
GetRead(r) ==
    /\ pc[r] = "read"
    /\ pc' = [pc EXCEPT ![r] = IF rnow[r] >= nextUpdateTime THEN "lock" ELSE "wait"]
    /\ UNCHANGED <<expirationOnErr, clock, data, nextUpdateTime, initCutOffTime, rnow, got, load, firstGet>>

\* Mutant: the check is not repeated under the write lock.
MustUpdateUnchecked(r) == TRUE

\* The check under the write lock.
MustUpdate(r) == rnow[r] >= nextUpdateTime

\* Mutant: the next update is not put off while the load runs.
RetryAtOnce(now) == now

\* When the data is due again unless the load ends before.
RetryAt(now) == now + retryInterval

\* Mutant: readers do not wait for the first data.
CutOffNow(now) == now

CutOff(now) == now + waitTimeout

GetLock(r) ==
    /\ pc[r] = "lock"
    /\ pc' = [pc EXCEPT ![r] = "wait"]
    /\ initCutOffTime' = IF initCutOffTime = 0 THEN CutOff(rnow[r]) ELSE initCutOffTime
    /\ \/ /\ MustUpdate(r)
          /\ nextUpdateTime' = RetryAt(rnow[r])
          /\ \E l \in Loaders : load[l] = None /\ load' = [load EXCEPT ![l] = clock]
       \/ ~MustUpdate(r) /\ UNCHANGED <<nextUpdateTime, load>>
    /\ UNCHANGED <<expirationOnErr, clock, data, rnow, got, firstGet>>

\* Another round of the wait loop: Sleep(1ms); now += 1ms.
GetSleep(r) ==
    /\ pc[r] = "wait" /\ rnow[r] <= initCutOffTime
    /\ rnow[r] < clock
    /\ rnow' = [rnow EXCEPT ![r] = @ + 1]
    /\ UNCHANGED <<expirationOnErr, clock, data, nextUpdateTime, initCutOffTime, pc, got, load, firstGet>>

GetReturn(r) ==
    /\ pc[r] = "wait" /\ rnow[r] > initCutOffTime
    /\ got' = [got EXCEPT ![r] = data]
    /\ pc' = [pc EXCEPT ![r] = "out"]
    /\ rnow' = [rnow EXCEPT ![r] = 0]
    /\ UNCHANGED <<expirationOnErr, clock, data, nextUpdateTime, initCutOffTime, load, firstGet>>

-----------------------------------------------------------------------------
(* The goroutine that loads *)
\* The clock is read and the lock taken in one step.
Apply(l, d, expire) ==
    /\ load[l] # None
    /\ data' = d
    /\ nextUpdateTime' = clock + expire
    /\ initCutOffTime' = IF clock < initCutOffTime THEN clock ELSE initCutOffTime
    /\ load' = [load EXCEPT ![l] = None]
    /\ UNCHANGED <<expirationOnErr, clock, pc, rnow, got, firstGet>>

LoadOK(l) == Apply(l, load[l], expiration)

\* An error is cached, with whatever loadData returned beside it (the zero
\* value), only if expirationOnErr is set.
LoadError(l) ==
    \/ expirationOnErr > 0 /\ Apply(l, None, expirationOnErr)
    \/ /\ expirationOnErr <= 0 /\ load[l] # None
       /\ load' = [load EXCEPT ![l] = None]
       /\ UNCHANGED <<expirationOnErr, clock, data, nextUpdateTime, initCutOffTime, pc, rnow, got, firstGet>>

Tick ==
    /\ clock < MaxClock
    /\ Prompt => \A r \in Readers : pc[r] \notin {"read", "lock"}
    /\ \A l \in Loaders : load[l] # None => clock - load[l] < MaxLoad
    /\ clock' = clock + 1
    /\ UNCHANGED <<expirationOnErr, data, nextUpdateTime, initCutOffTime, pc, rnow, got, load, firstGet>>

Next ==
    \/ Tick
    \/ \E r \in Readers : \/ GetStart(r) \/ GetRead(r) \/ GetLock(r)
                          \/ GetSleep(r) \/ GetReturn(r)
    \/ \E l \in Loaders : LoadOK(l) \/ LoadError(l)

Spec == Init /\ [][Next]_vars

-----------------------------------------------------------------------------
(* Properties *)
Times == Nat \cup {None}

\* The types of the cache's fields and of the readers' locals; times are unix
\* times and never negative.
TypeOK ==
    /\ expirationOnErr \in ErrExpirations
    /\ clock \in 1..MaxClock /\ data \in Times
    /\ nextUpdateTime \in Nat /\ initCutOffTime \in Nat
    /\ pc \in [Readers -> {"out", "read", "lock", "wait"}]
    /\ rnow \in [Readers -> Nat] /\ got \in [Readers -> Times]
    /\ load \in [Loaders -> Times] /\ firstGet \in Nat

\* "Only one go routine will try to load the data during one RetryInterval":
\* however many readers find the data expired at the same moment, and whether
\* earlier loads have ended, failed or are still running, loads under way began
\* at least RetryInterval apart.
Apart(l, m) == load[l] + retryInterval <= load[m] \/ load[m] + retryInterval <= load[l]
SingleLoad ==
    TypeOK /\ \A l, m \in Loaders : load[l] # None /\ load[m] # None /\ l # m => Apart(l, m)

\* The last load to end wins.  A slow one that ends after a later one does put
\* back older data, but only if it began at least RetryInterval before the one
\* it overwrites; and unless errors are cached, a failed load does not lose the
\* data there is.
DataGrows == [][data # None /\ data' # data =>
                  IF data' = None THEN expirationOnErr > 0
                  ELSE data' > data \/ data' + retryInterval <= data]_data

\* "all Get requests will wait for first data until WaitTimeout": a Get that
\* returns the zero value has waited out the timeout of the first Get,
\* although every reader counts its own milliseconds, unless errors are cached.
WaitsForFirst == \A r \in Readers :
    got[r] = None /\ expirationOnErr = 0 => clock > firstGet + waitTimeout
=============================================================================
