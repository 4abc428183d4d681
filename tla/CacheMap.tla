------------------------------ MODULE CacheMap ------------------------------
(***************************************************************************)
(* datacache/datacachemap.go: cached values by key, loaded by background    *)
(* goroutines one key at a time or in batches, and evicted by a ticker.     *)
(* Time is in milliseconds.  c.mu guards the map; an item's times are       *)
(* guarded by its own mutex in Get and updateData, by c.mu in the second    *)
(* half of GetMany.  GetMany holds c.mu over several steps: for reading     *)
(* while its pc is "scan", for writing while it is "claim" or "mark".       *)
(***************************************************************************)
EXTENDS Integers, FiniteSets

CONSTANTS
    Keys, Readers,     \* goroutines that call Get and GetMany
    Loaders,           \* goroutines that load (reused once they end)
    Items,             \* CacheItems (reused once nothing refers to them)
    None,
    expiration, retryInterval, waitTimeout, evictTimeout,
    Options,           \* the values of (loadDataBatch given?, expirationOnErr)
    GetKeys, ManyKeys, \* the keys read with Get, with GetMany
    Evicts,            \* does the eviction ticker fire?
    MaxLoad,           \* a load returns within MaxLoad
    MaxClock           \* bound on the clock

ASSUME MapAssumption ==
    /\ expiration \in Nat /\ Options \subseteq BOOLEAN \X Nat /\ waitTimeout \in Nat
    /\ retryInterval \in Nat \ {0} /\ evictTimeout \in Nat /\ evictTimeout > expiration
    /\ MaxLoad \in Nat /\ MaxClock \in Nat /\ None \notin Items \cup Nat
    /\ Evicts \in BOOLEAN /\ GetKeys \cup ManyKeys \subseteq Keys

VARIABLES
    clock,
    dataMap,   \* key -> item or None
    item,      \* the fields of the items
    pc, rnow,  \* where each reader is, its local now
    todo,      \* the keys its loop has yet to visit
    miss,      \* uncachedKeys; at "mark", the key being marked
    refs,      \* its item (Get), unCachedDataMap (GetMany)
    fresh,     \* hasNonExistKey
    rcut,      \* updatedStatus.initCutOffTime
    load,      \* per loader: None or its job
    doomed,    \* the keys evictKeys is about to delete
    options    \* chosen when the map is created

vars == <<options, clock, dataMap, item, pc, rnow, todo, miss, refs, fresh, rcut, load, doomed>>

Batch == options[1]
expirationOnErr == options[2]

NoRefs == [k \in Keys |-> None]
Absent == [data |-> None, next |-> 0, cut |-> 0, evict |-> 0]

Init ==
    /\ clock = 1 /\ dataMap = NoRefs
    /\ item = [i \in Items |-> Absent]
    /\ pc = [r \in Readers |-> "out"]
    /\ rnow = [r \in Readers |-> 0]
    /\ todo = [r \in Readers |-> {}]
    /\ miss = [r \in Readers |-> {}]
    /\ refs = [r \in Readers |-> NoRefs]
    /\ fresh = [r \in Readers |-> FALSE]
    /\ rcut = [r \in Readers |-> 0]
    /\ load = [l \in Loaders |-> None]
    /\ doomed = {}
    /\ options \in Options

-----------------------------------------------------------------------------
RLockable == \A r \in Readers : pc[r] \notin {"claim", "mark"}
Lockable == RLockable /\ \A r \in Readers : pc[r] # "scan"

Goto(r, where) == pc' = [pc EXCEPT ![r] = where]

Unused(i) ==
    /\ \A k \in Keys : dataMap[k] # i /\ \A r \in Readers : refs[r][k] # i
    /\ \A l \in Loaders, k \in Keys : load[l] # None => load[l].refs[k] # i

\* Mutant: a new item is due at once, while its first load runs.
NewItemNow(now) == [data |-> None, next |-> now,
                    cut |-> now + waitTimeout, evict |-> now + evictTimeout]

NewItem(now) == [data |-> None, next |-> now + retryInterval,
                 cut |-> now + waitTimeout, evict |-> now + evictTimeout]

Job(m, r) == [refs |-> m, since |-> clock, end |-> None, expire |-> 0, by |-> r]

Spawn(m, r) == \E l \in Loaders : load[l] = None /\ load' = [load EXCEPT ![l] = Job(m, r)]

Only(k, i) == [NoRefs EXCEPT ![k] = i]

\* A call is over: its locals are gone, and so is its updatedStatus.
Leave(r) ==
    /\ Goto(r, "out")
    /\ rnow' = [rnow EXCEPT ![r] = 0]
    /\ refs' = [refs EXCEPT ![r] = NoRefs]
    /\ miss' = [miss EXCEPT ![r] = {}]
    /\ fresh' = [fresh EXCEPT ![r] = FALSE]
    /\ rcut' = [rcut EXCEPT ![r] = 0]
    /\ load' = [l \in Loaders |-> IF load[l] # None /\ load[l].by = r
                                  THEN [load[l] EXCEPT !.by = None] ELSE load[l]]

locals == <<rnow, miss, refs, fresh, rcut>>

-----------------------------------------------------------------------------
(* Get *)
GetStart(r, k) ==
    /\ k \in GetKeys /\ pc[r] = "out"
    /\ Goto(r, "find")
    /\ rnow' = [rnow EXCEPT ![r] = clock]
    /\ todo' = [todo EXCEPT ![r] = {k}]
    /\ UNCHANGED <<options, clock, dataMap, item, miss, refs, fresh, rcut, load, doomed>>

GetFind(r, k) ==
    /\ pc[r] = "find" /\ k \in todo[r] /\ RLockable
    /\ Goto(r, IF dataMap[k] # None THEN "check" ELSE "insert")
    /\ refs' = [refs EXCEPT ![r] = Only(k, dataMap[k])]
    /\ UNCHANGED <<options, clock, dataMap, item, rnow, todo, miss, fresh, rcut, load, doomed>>

\* Mutant: the item is not looked up again under the write lock.
InsertsAlways(k) == TRUE

Inserts(k) == dataMap[k] = None

GetInsert(r, k) ==
    /\ pc[r] = "insert" /\ k \in todo[r] /\ Lockable
    /\ Goto(r, "check")
    /\ \/ /\ Inserts(k)
          /\ \E i \in Items :
               /\ Unused(i)
               /\ item' = [item EXCEPT ![i] = NewItem(rnow[r])]
               /\ dataMap' = [dataMap EXCEPT ![k] = i]
               /\ refs' = [refs EXCEPT ![r] = Only(k, i)]
               /\ Spawn(Only(k, i), None)
       \/ /\ ~Inserts(k)
          /\ refs' = [refs EXCEPT ![r] = Only(k, dataMap[k])]
          /\ UNCHANGED <<item, dataMap, load>>
    /\ UNCHANGED <<options, clock, rnow, todo, miss, fresh, rcut, doomed>>

Expired(r, i) == rnow[r] > item[i].next

GetCheck(r, k) ==
    /\ pc[r] = "check" /\ k \in todo[r]
    /\ Goto(r, IF Expired(r, refs[r][k]) THEN "renew" ELSE "wait")
    /\ UNCHANGED <<options, clock, dataMap, item, locals, todo, load, doomed>>

\* Mutant: the next update is not put off while the load runs.
RetryAtOnce(now) == now

\* When the data is due again unless the load ends before.
RetryAt(now) == now + retryInterval

\* "Guarantee only 1 goroutine created for update"
GetRenew(r, k) ==
    /\ pc[r] = "renew" /\ k \in todo[r]
    /\ Goto(r, "wait")
    /\ LET i == refs[r][k] IN
       \/ /\ Expired(r, i)
          /\ item' = [item EXCEPT ![i].next = RetryAt(rnow[r])]
          /\ Spawn(Only(k, i), None)
       \/ ~Expired(r, i) /\ UNCHANGED <<item, load>>
    /\ UNCHANGED <<options, clock, dataMap, locals, todo, doomed>>

\* The wait loop: Sleep(1ms); now += 1ms.
Sleep(r, cut) ==
    /\ rnow[r] <= cut /\ rnow[r] < clock
    /\ rnow' = [rnow EXCEPT ![r] = @ + 1]
    /\ UNCHANGED <<options, clock, dataMap, item, pc, todo, miss, refs, fresh, rcut, load, doomed>>

GetSleep(r, k) == pc[r] = "wait" /\ k \in todo[r] /\ Sleep(r, item[refs[r][k]].cut)

\* updateEvictTime: "guarantee it uses biggest value of all goroutines"
EvictTime(old, now) == IF now + evictTimeout > old THEN now + evictTimeout ELSE old

GetReturn(r, k) ==
    /\ pc[r] = "wait" /\ k \in todo[r]
    /\ LET i == refs[r][k] IN
       /\ rnow[r] > item[i].cut
       /\ item' = [item EXCEPT ![i].evict = EvictTime(@, rnow[r])]
    /\ todo' = [todo EXCEPT ![r] = {}]
    /\ Leave(r)
    /\ UNCHANGED <<options, clock, dataMap, doomed>>

-----------------------------------------------------------------------------
(* GetMany *)
ManyStart(r, K) ==
    /\ pc[r] = "out"
    /\ Goto(r, "rlock")
    /\ rnow' = [rnow EXCEPT ![r] = clock]
    /\ todo' = [todo EXCEPT ![r] = K]
    /\ UNCHANGED <<options, clock, dataMap, item, miss, refs, fresh, rcut, load, doomed>>

ManyRLock(r) ==
    /\ pc[r] = "rlock" /\ RLockable
    /\ Goto(r, "scan")
    /\ UNCHANGED <<options, clock, dataMap, item, locals, todo, load, doomed>>

ManyScan(r, k) ==
    /\ pc[r] = "scan" /\ k \in todo[r]
    /\ LET i == dataMap[k] IN
       /\ item' = IF i = None THEN item
                  ELSE [item EXCEPT ![i].evict = EvictTime(@, rnow[r])]
       /\ miss' = IF (IF i = None THEN TRUE ELSE Expired(r, i))
                  THEN [miss EXCEPT ![r] = @ \cup {k}] ELSE miss
    /\ todo' = [todo EXCEPT ![r] = @ \ {k}]
    /\ UNCHANGED <<options, clock, dataMap, pc, rnow, refs, fresh, rcut, load, doomed>>

ManyScanned(r) ==
    /\ pc[r] = "scan" /\ todo[r] = {}
    /\ \/ miss[r] = {} /\ Leave(r) /\ UNCHANGED todo
       \/ /\ miss[r] # {} /\ Goto(r, "lock")
          /\ todo' = [todo EXCEPT ![r] = miss[r]]
          /\ UNCHANGED <<locals, load>>
    /\ UNCHANGED <<options, clock, dataMap, item, doomed>>

ManyLock(r) ==
    /\ pc[r] = "lock" /\ Lockable
    /\ Goto(r, "claim")
    /\ rcut' = [rcut EXCEPT ![r] = rnow[r] + waitTimeout]
    /\ UNCHANGED <<options, clock, dataMap, item, rnow, miss, refs, fresh, todo, load, doomed>>

\* The test of nextUpdateTime at the second visit, without the item's mutex.
ManyClaim(r, k) ==
    /\ pc[r] = "claim" /\ k \in todo[r]
    /\ \/ /\ dataMap[k] = None
          /\ \E i \in Items :
               /\ Unused(i)
               /\ item' = [item EXCEPT ![i] = NewItem(rnow[r])]
               /\ dataMap' = [dataMap EXCEPT ![k] = i]
               /\ refs' = [refs EXCEPT ![r][k] = i]
          /\ fresh' = [fresh EXCEPT ![r] = TRUE]
          /\ todo' = [todo EXCEPT ![r] = @ \ {k}]
          /\ UNCHANGED <<pc, miss>>
       \/ /\ dataMap[k] # None
          /\ IF Expired(r, dataMap[k])
             THEN /\ Goto(r, "mark") /\ miss' = [miss EXCEPT ![r] = {k}]
                  /\ UNCHANGED todo
             ELSE /\ todo' = [todo EXCEPT ![r] = @ \ {k}] /\ UNCHANGED <<pc, miss>>
          /\ UNCHANGED <<item, dataMap, refs, fresh>>
    /\ UNCHANGED <<options, clock, rnow, rcut, load, doomed>>

\* The store that follows a test that succeeded.
ManyMark(r, k) ==
    /\ pc[r] = "mark" /\ k \in miss[r]
    /\ item' = [item EXCEPT ![dataMap[k]].next = RetryAt(rnow[r])]
    /\ refs' = [refs EXCEPT ![r][k] = dataMap[k]]
    /\ todo' = [todo EXCEPT ![r] = @ \ {k}]
    /\ Goto(r, "claim")
    /\ UNCHANGED <<options, clock, dataMap, rnow, miss, fresh, rcut, load, doomed>>

ManyUnlock(r) ==
    /\ pc[r] = "claim" /\ todo[r] = {}
    /\ \/ refs[r] = NoRefs /\ Leave(r) /\ UNCHANGED todo
       \/ /\ refs[r] # NoRefs /\ Goto(r, "spawn")
          /\ todo' = [todo EXCEPT ![r] = {k \in Keys : refs[r][k] # None}]
          /\ UNCHANGED <<locals, load>>
    /\ UNCHANGED <<options, clock, dataMap, item, doomed>>

\* One updateBatch for all keys, or one updateData per key.
ManySpawn(r) ==
    /\ pc[r] = "spawn" /\ todo[r] # {}
    /\ \/ Batch /\ Spawn(refs[r], r) /\ todo' = [todo EXCEPT ![r] = {}]
       \/ /\ ~Batch
          /\ \E k \in todo[r] : /\ Spawn(Only(k, refs[r][k]), None)
                                /\ todo' = [todo EXCEPT ![r] = @ \ {k}]
    /\ UNCHANGED <<options, clock, dataMap, item, pc, locals, doomed>>

ManySleep(r) == pc[r] = "spawn" /\ todo[r] = {} /\ fresh[r] /\ Sleep(r, rcut[r])

ManyReturn(r) ==
    /\ pc[r] = "spawn" /\ todo[r] = {}
    /\ ~fresh[r] \/ rnow[r] > rcut[r]
    /\ Leave(r)
    /\ UNCHANGED <<options, clock, dataMap, item, todo, doomed>>

-----------------------------------------------------------------------------
(* updateData and updateBatch *)
Loading(l) == load[l] # None /\ load[l].end = None

Ended(l, exp) ==
    /\ load' = [load EXCEPT ![l].end = clock, ![l].expire = exp]
    /\ UNCHANGED <<options, clock, dataMap, item, pc, locals, todo, doomed>>

LoadOK(l) == Loading(l) /\ Ended(l, expiration)

LoadError(l) ==
    /\ Loading(l)
    /\ \/ expirationOnErr > 0 /\ Ended(l, expirationOnErr)
       \/ /\ expirationOnErr <= 0 /\ load' = [load EXCEPT ![l] = None]
          /\ UNCHANGED <<options, clock, dataMap, item, pc, locals, todo, doomed>>

\* An item after its critical section in updateData.
Updated(it, j) == [it EXCEPT !.data = j.since, !.next = j.end + j.expire,
                             !.cut = IF j.end < @ THEN j.end ELSE @]

LoadApply(l, k) ==
    /\ load[l] # None
    /\ load[l].end # None /\ load[l].refs[k] # None
    /\ item' = [item EXCEPT ![load[l].refs[k]] = Updated(@, load[l])]
    /\ load' = [load EXCEPT ![l].refs[k] = None]
    /\ UNCHANGED <<options, clock, dataMap, pc, locals, todo, doomed>>

LoadFinish(l) ==
    /\ load[l] # None
    /\ load[l].end # None /\ load[l].refs = NoRefs
    /\ rcut' = IF load[l].by = None THEN rcut ELSE [rcut EXCEPT ![load[l].by] = load[l].end]
    /\ load' = [load EXCEPT ![l] = None]
    /\ UNCHANGED <<options, clock, dataMap, item, pc, rnow, miss, refs, fresh, todo, doomed>>

-----------------------------------------------------------------------------
(* evictKeys *)
Idle(k) == dataMap[k] # None /\ item[dataMap[k]].evict < clock

EvictScan ==
    /\ Evicts /\ doomed = {} /\ RLockable
    /\ doomed' = {k \in Keys : Idle(k)} /\ doomed' # {}
    /\ UNCHANGED <<options, clock, dataMap, item, pc, locals, todo, load>>

EvictDelete ==
    /\ doomed # {} /\ Lockable
    /\ dataMap' = [k \in Keys |-> IF k \in doomed THEN None ELSE dataMap[k]]
    /\ doomed' = {}
    /\ UNCHANGED <<options, clock, item, pc, locals, todo, load>>

\* Goroutines that can run do so before the next millisecond.
Tick ==
    /\ clock < MaxClock
    /\ \A r \in Readers : pc[r] \in {"out", "wait", "spawn"} /\ (pc[r] = "spawn" => todo[r] = {})
    /\ \A l \in Loaders : load[l] # None => load[l].end = None /\ clock - load[l].since < MaxLoad
    /\ doomed = {}
    /\ clock' = clock + 1
    /\ UNCHANGED <<options, dataMap, item, pc, locals, todo, load, doomed>>

Get(r, k) == \/ GetStart(r, k) \/ GetFind(r, k) \/ GetInsert(r, k) \/ GetCheck(r, k)
             \/ GetRenew(r, k) \/ GetSleep(r, k) \/ GetReturn(r, k)
GetMany(r) == \/ \E K \in SUBSET ManyKeys \ {{}} : ManyStart(r, K)
              \/ ManyRLock(r) \/ ManyScanned(r) \/ ManyLock(r) \/ ManyUnlock(r)
              \/ ManySpawn(r) \/ ManySleep(r) \/ ManyReturn(r)
              \/ \E k \in Keys : ManyScan(r, k) \/ ManyClaim(r, k) \/ ManyMark(r, k)
Load(l) == LoadOK(l) \/ LoadError(l) \/ LoadFinish(l) \/ \E k \in Keys : LoadApply(l, k)

Next ==
    \/ Tick \/ EvictScan \/ EvictDelete
    \/ \E r \in Readers : GetMany(r) \/ \E k \in Keys : Get(r, k)
    \/ \E l \in Loaders : Load(l)

Spec == Init /\ [][Next]_vars

-----------------------------------------------------------------------------
(* Properties *)
InFlight(l, i) == load[l] # None /\ \E k \in Keys : load[l].refs[k] = i

\* "Only one goroutine will try to load the data during one RetryInterval": however
\* calls, failures and evictions interleave, and although a slow load may still be
\* running when the next one is due, loads of an item began more than that apart.
Apart(l, m) == \/ load[l].since + retryInterval < load[m].since
               \/ load[m].since + retryInterval < load[l].since
SingleLoad == \A i \in Items, l, m \in Loaders :
    InFlight(l, i) /\ InFlight(m, i) /\ l # m => Apart(l, m)

\* Calls that race to insert a key end up with one item: an item in the map is
\* never replaced by another one, only evicted, so that its load serves all who
\* hold it.
OneItem == [][\A k \in Keys : dataMap[k] # None => dataMap'[k] \in {dataMap[k], None}]_vars

\* The last load to end wins.  As long as the map, a call or a load refers to an
\* item, its data (or the error cached in its place) is replaced by those of a
\* load that began later, or by those of a slow one that began more than the retry
\* interval before: loads of one key and of a batch do not mix more than that.
ItemDataGrows == [][\A i \in Items : ~Unused(i) /\ item[i].data # None =>
                      /\ item'[i].data # None
                      /\ \/ item'[i].data >= item[i].data
                         \/ item'[i].data + retryInterval < item[i].data]_vars
=============================================================================
