-------------------------- MODULE DataCacheProofs --------------------------
(***************************************************************************)
(* Theorems about DataCache: how far apart loads begin, what a load may     *)
(* overwrite, and the wait for the first data.                              *)
(***************************************************************************)
EXTENDS DataCache, TLAPS

\* The regime in which the retry interval does what it is for: a reader does not
\* sit on its reading of the clock, and the end of a load does not make the data
\* due within the retry interval of another one, because a load ends within the
\* interval or because what it stores lasts that long.
Lasting == expiration >= retryInterval /\ \A e \in ErrExpirations : e = 0 \/ e >= retryInterval
Regime == Prompt /\ (MaxLoad < retryInterval \/ Lasting)

-----------------------------------------------------------------------------
(* The inductive invariants *)
\* A reader's now is a time since the first Get; before the locks it is the clock.
ReadersOK ==
    /\ firstGet <= clock
    /\ \A r \in Readers :
         /\ rnow[r] <= clock
         /\ pc[r] # "out" => firstGet > 0 /\ rnow[r] >= firstGet
         /\ Prompt /\ pc[r] \in {"read", "lock"} => rnow[r] = clock

\* Within the regime a load under way holds off the next one for the retry
\* interval, and is that far from every other one; it began no earlier than the
\* load of the data, or that long before.
LoadsOK ==
    /\ data # None => data <= clock
    /\ \A l, m \in Loaders : load[l] # None /\ load[m] # None /\ l # m => Apart(l, m)
    /\ \A l \in Loaders : load[l] # None =>
         /\ load[l] <= clock /\ clock <= load[l] + MaxLoad
         /\ load[l] + retryInterval <= nextUpdateTime
         /\ data # None => data <= load[l] \/ load[l] + retryInterval <= data

\* While there is no data and errors are not cached the cut-off time is that of
\* a Get, or nobody has got past the locks yet and nothing is loaded.
WaitOK ==
    /\ initCutOffTime = 0 => /\ nextUpdateTime = 0 /\ \A r \in Readers : pc[r] # "wait"
                             /\ \A l \in Loaders : load[l] = None
    /\ data = None /\ expirationOnErr = 0 =>
         initCutOffTime = 0 \/ (firstGet > 0 /\ initCutOffTime >= firstGet + waitTimeout)
    /\ \A r \in Readers : got[r] = None /\ expirationOnErr = 0 =>
         firstGet > 0 /\ clock > firstGet + waitTimeout

-----------------------------------------------------------------------------
(* Types *)
LEMMA TypeInit == Init => TypeOK
  <1> SUFFICES ASSUME Init PROVE TypeOK
    OBVIOUS
  <1>1. data \in Times /\ initCutOffTime \in Nat
    BY DEF Init, Times
  <1> QED BY <1>1, CacheAssumption DEF Init, TypeOK, Times

LEMMA ApplyTyped ==
    ASSUME TypeOK, NEW l \in Loaders, NEW d \in Times, NEW e \in Nat, Apply(l, d, e)
    PROVE  TypeOK'
  <1>1. clock \in Nat
    BY CacheAssumption DEF TypeOK
  <1>2. nextUpdateTime' \in Nat /\ initCutOffTime' \in Nat /\ data' \in Times
    BY <1>1 DEF Apply, TypeOK
  <1> QED BY <1>2 DEF Apply, TypeOK, Times

LEMMA TypeStep == TypeOK /\ [Next]_vars => TypeOK'
  <1> SUFFICES ASSUME TypeOK, [Next]_vars PROVE TypeOK'
    OBVIOUS
  <1>0. clock \in Nat /\ clock \in Times
    BY CacheAssumption DEF TypeOK, Times
  <1>1. CASE Tick
    BY <1>1, CacheAssumption DEF Tick, TypeOK
  <1>2. ASSUME NEW r \in Readers, GetStart(r) PROVE TypeOK'
    BY <1>0, <1>2 DEF GetStart, TypeOK
  <1>3. ASSUME NEW r \in Readers, GetRead(r) PROVE TypeOK'
    BY <1>3 DEF GetRead, TypeOK
  <1>4. ASSUME NEW r \in Readers, GetLock(r) PROVE TypeOK'
    <2>1. rnow[r] \in Nat /\ initCutOffTime' \in Nat
      BY <1>4, CacheAssumption DEF GetLock, CutOff, TypeOK
    <2>2. nextUpdateTime' \in Nat /\ load' \in [Loaders -> Times]
      BY <1>0, <1>4, <2>1, CacheAssumption DEF GetLock, RetryAt, TypeOK
    <2> QED BY <1>4, <2>1, <2>2 DEF GetLock, TypeOK
  <1>5. ASSUME NEW r \in Readers, GetSleep(r) \/ GetReturn(r) PROVE TypeOK'
    BY <1>5 DEF GetSleep, GetReturn, TypeOK
  <1>6. ASSUME NEW l \in Loaders, LoadOK(l) PROVE TypeOK'
    BY <1>6, ApplyTyped, CacheAssumption DEF LoadOK, TypeOK
  <1>7. ASSUME NEW l \in Loaders, LoadError(l) PROVE TypeOK'
    <2>1. expirationOnErr \in Nat /\ None \in Times
      BY CacheAssumption DEF TypeOK, Times
    <2>2. CASE Apply(l, None, expirationOnErr)
      BY <2>1, <2>2, ApplyTyped
    <2>3. CASE ~Apply(l, None, expirationOnErr)
      BY <1>7, <2>3 DEF LoadError, TypeOK, Times
    <2> QED BY <2>2, <2>3
  <1>8. CASE UNCHANGED vars
    BY <1>8 DEF vars, TypeOK
  <1> QED BY <1>1, <1>2, <1>3, <1>4, <1>5, <1>6, <1>7, <1>8 DEF Next

LEMMA TypeAlways == Spec => []TypeOK
  BY TypeInit, TypeStep, PTL DEF Spec

\* The arithmetic facts of TypeOK.
LEMMA Numbers ==
    ASSUME TypeOK
    PROVE  /\ clock \in Nat /\ clock >= 1 /\ nextUpdateTime \in Nat /\ initCutOffTime \in Nat
           /\ firstGet \in Nat /\ \A r \in Readers : rnow[r] \in Nat
           /\ \A l \in Loaders : load[l] # None => load[l] \in Nat
           /\ data # None => data \in Nat
           /\ None \notin Nat /\ expirationOnErr \in Nat /\ retryInterval \in Nat /\ retryInterval >= 1
           /\ waitTimeout \in Nat /\ MaxLoad \in Nat
  BY CacheAssumption DEF TypeOK, Times

-----------------------------------------------------------------------------
(* The readers *)
LEMMA ReadersStep == TypeOK /\ ReadersOK /\ [Next]_vars => ReadersOK'
  <1> SUFFICES ASSUME TypeOK, ReadersOK, [Next]_vars PROVE ReadersOK'
    OBVIOUS
  <1>n. clock \in Nat /\ clock >= 1 /\ firstGet \in Nat /\ \A r \in Readers : rnow[r] \in Nat
    BY Numbers
  <1>1. CASE Tick
    BY <1>n, <1>1 DEF Tick, ReadersOK
  <1>2. ASSUME NEW r \in Readers, GetStart(r) PROVE ReadersOK'
    <2>1. /\ pc'[r] = "read" /\ rnow'[r] = clock /\ clock' = clock
          /\ \A q \in Readers : q # r => pc'[q] = pc[q] /\ rnow'[q] = rnow[q]
          /\ firstGet' = IF firstGet = 0 THEN clock ELSE firstGet
      BY <1>2 DEF GetStart, TypeOK
    <2> QED BY <1>n, <2>1 DEF ReadersOK
  <1>3. ASSUME NEW r \in Readers, GetRead(r) \/ GetLock(r) PROVE ReadersOK'
    <2>1. /\ pc[r] # "out" /\ UNCHANGED <<clock, firstGet, rnow>> /\ pc[r] \in {"read", "lock"}
          /\ \A q \in Readers : q # r => pc'[q] = pc[q]
      BY <1>3 DEF GetRead, GetLock, TypeOK
    <2> QED BY <1>n, <2>1 DEF ReadersOK
  <1>4. ASSUME NEW r \in Readers, GetSleep(r) \/ GetReturn(r) PROVE ReadersOK'
    <2>1. /\ UNCHANGED <<clock, firstGet>> /\ pc[r] = "wait"
          /\ \/ pc' = pc /\ rnow[r] < clock /\ rnow'[r] = rnow[r] + 1
             \/ pc'[r] = "out" /\ rnow'[r] = 0
          /\ \A q \in Readers : q # r => pc'[q] = pc[q] /\ rnow'[q] = rnow[q]
      BY <1>4 DEF GetSleep, GetReturn, TypeOK
    <2> QED BY <1>n, <2>1 DEF ReadersOK
  <1>5. CASE (\E l \in Loaders : LoadOK(l) \/ LoadError(l)) \/ UNCHANGED vars
    <2>1. UNCHANGED <<clock, firstGet, rnow, pc>>
      BY <1>5 DEF LoadOK, LoadError, Apply, vars
    <2> QED BY <2>1 DEF ReadersOK
  <1> QED BY <1>1, <1>2, <1>3, <1>4, <1>5 DEF Next

-----------------------------------------------------------------------------
(* The loads *)
\* The step by which a loader ends: with data, with a cached error or for nothing.
LEMMA LoadEnds ==
    ASSUME NEW l \in Loaders, LoadOK(l) \/ LoadError(l)
    PROVE  /\ load[l] # None /\ load' = [load EXCEPT ![l] = None]
           /\ UNCHANGED <<expirationOnErr, clock, pc, rnow, got, firstGet>>
           /\ \/ data' = load[l] /\ nextUpdateTime' = clock + expiration
              \/ data' = None /\ expirationOnErr > 0 /\ nextUpdateTime' = clock + expirationOnErr
              \/ UNCHANGED <<data, nextUpdateTime, initCutOffTime>>
           /\ initCutOffTime' \in {initCutOffTime, IF clock < initCutOffTime THEN clock ELSE initCutOffTime}
  BY DEF LoadOK, LoadError, Apply

\* What a load that ends leaves to those that go on: the next update is still the
\* retry interval away from them.
LEMMA OthersHold ==
    ASSUME Regime, TypeOK, LoadsOK, NEW l \in Loaders, LoadOK(l) \/ LoadError(l),
           NEW m \in Loaders, m # l, load[m] # None
    PROVE  load[m] + retryInterval <= nextUpdateTime'
  <1>n. /\ clock \in Nat /\ nextUpdateTime \in Nat /\ None \notin Nat
        /\ load[m] \in Nat /\ load[l] \in Nat /\ load[l] # None
        /\ retryInterval \in Nat /\ MaxLoad \in Nat /\ expirationOnErr \in Nat /\ expiration \in Nat
    BY Numbers, LoadEnds, CacheAssumption
  <1>1. /\ load[m] <= clock /\ load[m] + retryInterval <= nextUpdateTime /\ Apart(l, m)
        /\ clock <= load[l] + MaxLoad /\ clock <= load[m] + MaxLoad /\ load[l] <= clock
    BY <1>n DEF LoadsOK
  <1>2. Lasting
    BY <1>n, <1>1 DEF Regime, Apart
  <1>3. expirationOnErr = 0 \/ expirationOnErr >= retryInterval
    BY <1>2 DEF Lasting, TypeOK
  <1>4. \/ nextUpdateTime' = clock + expiration
        \/ expirationOnErr > 0 /\ nextUpdateTime' = clock + expirationOnErr
        \/ nextUpdateTime' = nextUpdateTime
    BY LoadEnds
  <1> QED BY <1>n, <1>1, <1>2, <1>3, <1>4 DEF Lasting

LEMMA LoadsStep == Regime /\ TypeOK /\ ReadersOK /\ LoadsOK /\ [Next]_vars => LoadsOK'
  <1> SUFFICES ASSUME Regime, TypeOK, ReadersOK, LoadsOK, [Next]_vars PROVE LoadsOK'
    OBVIOUS
  <1>n. /\ clock \in Nat /\ nextUpdateTime \in Nat /\ \A r \in Readers : rnow[r] \in Nat
        /\ \A l \in Loaders : load[l] # None => load[l] \in Nat
        /\ data # None => data \in Nat
        /\ None \notin Nat /\ retryInterval \in Nat /\ MaxLoad \in Nat
    BY Numbers
  <1>1. CASE Tick
    <2>1. /\ clock' = clock + 1 /\ UNCHANGED <<load, data, nextUpdateTime>>
          /\ \A l \in Loaders : load[l] # None => clock - load[l] < MaxLoad
      BY <1>1 DEF Tick
    <2> QED BY <1>n, <2>1 DEF LoadsOK, Apart
  <1>2. ASSUME NEW r \in Readers, GetLock(r), MustUpdate(r) PROVE LoadsOK'
    <2>1. /\ nextUpdateTime' = clock + retryInterval /\ clock >= nextUpdateTime
          /\ UNCHANGED <<clock, data>>
      BY <1>2 DEF GetLock, MustUpdate, RetryAt, Regime, ReadersOK
    <2>2. PICK k \in Loaders : load[k] = None /\ load' = [load EXCEPT ![k] = clock]
      BY <1>2 DEF GetLock
    <2>3. \A l \in Loaders : load'[l] = IF l = k THEN clock ELSE load[l]
      BY <2>2 DEF TypeOK
    \* The loads before it began at least the retry interval ago.
    <2>4. \A l \in Loaders : load[l] # None => load[l] + retryInterval <= clock
      BY <1>n, <2>1 DEF LoadsOK
    <2>5. \A l, m \in Loaders : load'[l] # None /\ load'[m] # None /\ l # m => Apart(l, m)'
      BY <2>3, <2>4 DEF LoadsOK, Apart
    <2>6. \A l \in Loaders : load'[l] # None =>
            /\ load'[l] <= clock /\ clock <= load'[l] + MaxLoad
            /\ load'[l] + retryInterval <= clock + retryInterval
            /\ data # None => data <= load'[l] \/ load'[l] + retryInterval <= data
      BY <1>n, <2>3 DEF LoadsOK
    <2> QED BY <1>n, <2>1, <2>5, <2>6 DEF LoadsOK
  <1>3. ASSUME NEW r \in Readers, GetStart(r) \/ GetRead(r) \/ (GetLock(r) /\ ~MustUpdate(r)) \/ GetSleep(r) \/ GetReturn(r)
        PROVE  LoadsOK'
    <2>1. UNCHANGED <<clock, data, nextUpdateTime, load>>
      BY <1>3 DEF GetStart, GetRead, GetLock, GetSleep, GetReturn
    <2> QED BY <2>1 DEF LoadsOK, Apart
  <1>4. ASSUME NEW l \in Loaders, LoadOK(l) \/ LoadError(l) PROVE LoadsOK'
    <2>1. /\ load[l] # None /\ clock' = clock
          /\ data' = load[l] \/ data' = None \/ data' = data
      BY <1>4, LoadEnds
    <2>2. \A m \in Loaders : load'[m] = IF m = l THEN None ELSE load[m]
      BY <1>4, LoadEnds DEF TypeOK
    <2>3. \A m \in Loaders : load'[m] # None => m # l /\ load[m] # None /\ Apart(l, m)
      BY <2>1, <2>2 DEF LoadsOK
    <2>4. \A k, m \in Loaders : load'[k] # None /\ load'[m] # None /\ k # m => Apart(k, m)'
      BY <2>2 DEF LoadsOK, Apart
    <2>5. \A m \in Loaders : load'[m] # None => load'[m] + retryInterval <= nextUpdateTime'
      BY <1>4, <2>2, <2>3, OthersHold
    <2>6. data' # None => /\ data' <= clock
                          /\ \A m \in Loaders : load'[m] # None =>
                               data' <= load'[m] \/ load'[m] + retryInterval <= data'
      BY <1>n, <2>1, <2>2, <2>3 DEF LoadsOK, Apart
    <2>7. \A m \in Loaders : load'[m] # None => load'[m] <= clock /\ clock <= load'[m] + MaxLoad
      BY <2>2 DEF LoadsOK
    <2> QED BY <2>1, <2>4, <2>5, <2>6, <2>7 DEF LoadsOK
  <1>5. CASE UNCHANGED vars
    BY <1>5 DEF vars, LoadsOK, Apart
  <1> QED BY <1>1, <1>2, <1>3, <1>4, <1>5 DEF Next

LEMMA ReadersInit == Init => ReadersOK
  BY DEF Init, ReadersOK

LEMMA LoadsInit == Init => LoadsOK
  BY DEF Init, LoadsOK

LEMMA LoadsAlways == Regime /\ Spec => [](TypeOK /\ ReadersOK /\ LoadsOK)
  <1>1. Spec => []ReadersOK
    BY ReadersInit, ReadersStep, TypeAlways, PTL DEF Spec
  <1>2. CASE Regime
    <2>1. TypeOK /\ ReadersOK /\ LoadsOK /\ [Next]_vars => LoadsOK'
      BY <1>2, LoadsStep
    <2> QED BY <1>1, <2>1, LoadsInit, TypeAlways, PTL DEF Spec
  <1>3. CASE ~Regime
    BY <1>3
  <1> QED BY <1>2, <1>3

\* "Only one go routine will try to load the data during one RetryInterval"
\* (datacache/datacache.go, Get), within the regime.
THEOREM SingleLoadHolds == Regime /\ Spec => []SingleLoad
  <1>1. TypeOK /\ LoadsOK => SingleLoad
    BY DEF LoadsOK, SingleLoad
  <1> QED BY <1>1, LoadsAlways, PTL

\* Within the regime, in which slow loads do end after later ones, a load brings
\* back older data only if it began at least the retry interval before what it
\* overwrites, and a failed load loses the data only if errors are cached
\* (datacache/datacache.go, the goroutine of Get).
THEOREM DataGrowsHolds == Regime /\ Spec => DataGrows
  <1>1. TypeOK /\ LoadsOK /\ [Next]_vars
        => (data # None /\ data' # data => IF data' = None THEN expirationOnErr > 0
                                           ELSE data' > data \/ data' + retryInterval <= data)
    <2> SUFFICES ASSUME TypeOK, LoadsOK, [Next]_vars, data # None, data' # data
                 PROVE  IF data' = None THEN expirationOnErr > 0
                        ELSE data' > data \/ data' + retryInterval <= data
      OBVIOUS
    <2>1. PICK l \in Loaders : LoadOK(l) \/ LoadError(l)
      BY DEF Next, Tick, GetStart, GetRead, GetLock, GetSleep, GetReturn, vars
    <2>2. load[l] # None /\ (data' = load[l] \/ (data' = None /\ expirationOnErr > 0))
      BY <2>1, LoadEnds
    <2>3. /\ load[l] \in Nat /\ data \in Nat /\ None \notin Nat /\ retryInterval \in Nat
          /\ data <= load[l] \/ load[l] + retryInterval <= data
      BY <2>2, Numbers DEF LoadsOK
    <2> QED BY <2>2, <2>3
  <1> QED BY <1>1, LoadsAlways, PTL DEF DataGrows, Spec

-----------------------------------------------------------------------------
(* The wait for the first data *)
LEMMA WaitInit == Init => WaitOK
  <1> SUFFICES ASSUME Init PROVE WaitOK
    OBVIOUS
  <1>1. /\ \A r \in Readers : got[r] # None /\ pc[r] = "out"
        /\ \A l \in Loaders : load[l] = None
    BY CacheAssumption DEF Init
  <1> QED BY <1>1, CacheAssumption DEF Init, WaitOK

LEMMA WaitStep == TypeOK /\ ReadersOK /\ WaitOK /\ [Next]_vars => WaitOK'
  <1> SUFFICES ASSUME TypeOK, ReadersOK, WaitOK, [Next]_vars PROVE WaitOK'
    OBVIOUS
  <1>n. /\ clock \in Nat /\ clock >= 1 /\ nextUpdateTime \in Nat /\ initCutOffTime \in Nat
        /\ firstGet \in Nat /\ \A r \in Readers : rnow[r] \in Nat
        /\ \A l \in Loaders : load[l] # None => load[l] \in Nat
        /\ None \notin Nat /\ retryInterval \in Nat /\ waitTimeout \in Nat
    BY Numbers
  <1>1. CASE Tick
    <2>1. clock' = clock + 1 /\ UNCHANGED <<load, expirationOnErr, data, nextUpdateTime, initCutOffTime, pc, got, firstGet>>
      BY <1>1 DEF Tick
    <2> QED BY <1>n, <2>1 DEF WaitOK
  <1>2. ASSUME NEW r \in Readers, GetStart(r) PROVE WaitOK'
    <2>1. /\ UNCHANGED <<load, expirationOnErr, clock, data, nextUpdateTime, initCutOffTime, got>>
          /\ pc'[r] = "read" /\ \A q \in Readers : q # r => pc'[q] = pc[q]
          /\ firstGet > 0 => firstGet' = firstGet
      BY <1>2, <1>n DEF GetStart, TypeOK
    <2> QED BY <1>n, <2>1 DEF WaitOK
  <1>3. ASSUME NEW r \in Readers, GetRead(r) PROVE WaitOK'
    <2>1. /\ UNCHANGED <<load, expirationOnErr, clock, data, nextUpdateTime, initCutOffTime, got, firstGet>>
          /\ pc'[r] = "lock" \/ nextUpdateTime > rnow[r]
          /\ \A q \in Readers : q # r => pc'[q] = pc[q]
      BY <1>3, <1>n DEF GetRead, TypeOK
    <2> QED BY <1>n, <2>1 DEF WaitOK
  <1>4. ASSUME NEW r \in Readers, GetLock(r) PROVE WaitOK'
    <2>1. /\ UNCHANGED <<expirationOnErr, clock, data, got, firstGet>>
          /\ firstGet > 0 /\ rnow[r] >= firstGet
          /\ initCutOffTime' = IF initCutOffTime = 0 THEN rnow[r] + waitTimeout ELSE initCutOffTime
      BY <1>4 DEF GetLock, CutOff, ReadersOK
    <2>2. initCutOffTime' # 0
      BY <1>n, <2>1
    <2>3. data = None /\ expirationOnErr = 0 => initCutOffTime' >= firstGet + waitTimeout
      BY <1>n, <2>1 DEF WaitOK
    <2> QED BY <1>n, <2>1, <2>2, <2>3 DEF WaitOK
  <1>5. ASSUME NEW r \in Readers, GetSleep(r) PROVE WaitOK'
    BY <1>5 DEF GetSleep, WaitOK
  <1>6. ASSUME NEW r \in Readers, GetReturn(r) PROVE WaitOK'
    <2>1. /\ UNCHANGED <<load, expirationOnErr, clock, data, nextUpdateTime, initCutOffTime, firstGet>>
          /\ pc[r] = "wait" /\ rnow[r] > initCutOffTime /\ rnow[r] <= clock
          /\ got'[r] = data /\ pc'[r] = "out"
          /\ \A q \in Readers : q # r => pc'[q] = pc[q] /\ got'[q] = got[q]
      BY <1>6 DEF GetReturn, TypeOK, ReadersOK
    <2>2. initCutOffTime # 0
      BY <2>1 DEF WaitOK
    <2>3. data = None /\ expirationOnErr = 0 => firstGet > 0 /\ clock > firstGet + waitTimeout
      BY <1>n, <2>1, <2>2 DEF WaitOK
    <2> QED BY <2>1, <2>2, <2>3 DEF WaitOK
  <1>7. ASSUME NEW l \in Loaders, LoadOK(l) \/ LoadError(l) PROVE WaitOK'
    <2>1. /\ load[l] # None /\ UNCHANGED <<expirationOnErr, clock, pc, rnow, got, firstGet>>
          /\ \/ data' = load[l] \/ (data' = None /\ expirationOnErr > 0)
             \/ UNCHANGED <<data, nextUpdateTime, initCutOffTime>>
          /\ initCutOffTime' \in {initCutOffTime, IF clock < initCutOffTime THEN clock ELSE initCutOffTime}
      BY <1>7, LoadEnds
    <2>2. CASE UNCHANGED <<data, nextUpdateTime, initCutOffTime>>
      BY <2>1, <2>2 DEF WaitOK
    <2>3. CASE data' = load[l] \/ (data' = None /\ expirationOnErr > 0)
      <3>1. ~(data' = None /\ expirationOnErr = 0)
        BY <1>n, <2>1, <2>3
      <3>2. initCutOffTime' # 0
        BY <1>n, <2>1 DEF WaitOK
      <3> QED BY <1>n, <2>1, <3>1, <3>2 DEF WaitOK
    <2> QED BY <2>1, <2>2, <2>3
  <1>8. CASE UNCHANGED vars
    BY <1>8 DEF vars, WaitOK
  <1> QED BY <1>1, <1>2, <1>3, <1>4, <1>5, <1>6, <1>7, <1>8 DEF Next

\* "all Get requests will wait for first data until WaitTimeout": whatever the
\* timing, a Get that returns the zero value has waited out the timeout of the
\* first Get, unless errors are cached (datacache/datacache.go, Get).
THEOREM WaitsForFirstHolds == Spec => []WaitsForFirst
  <1>1. WaitOK => WaitsForFirst
    BY DEF WaitOK, WaitsForFirst
  <1> QED BY <1>1, ReadersInit, ReadersStep, WaitInit, WaitStep, TypeAlways, PTL DEF Spec
=============================================================================
