--------------------------- MODULE CacheMapProofs ---------------------------
(***************************************************************************)
(* Theorems about CacheMap: an item in the map is never replaced, and the   *)
(* loads of an item, and so the data they may overwrite, are the retry      *)
(* interval apart as long as no key is read both with Get and with GetMany. *)
(***************************************************************************)
EXTENDS CacheMap, TLAPS

\* The regime in which the claims of an item exclude each other: Get and GetMany,
\* which guard nextUpdateTime with different locks, read different keys, and the
\* end of a load does not make an item due within the retry interval of another
\* load, because a load ends within the interval or because what it stores lasts
\* that long.
Lasting == expiration >= retryInterval /\ \A o \in Options : o[2] = 0 \/ o[2] >= retryInterval
Regime == GetKeys \cap ManyKeys = {} /\ (MaxLoad < retryInterval \/ Lasting)

-----------------------------------------------------------------------------
(* The inductive invariant *)
Refs == [Keys -> Items \cup {None}]
ItemType == [data : Nat \cup {None}, next : Nat, cut : Nat, evict : Nat]
JobType == [refs : Refs, since : Nat, end : Nat \cup {None}, expire : Nat, by : Readers \cup {None}]

GetPCs == {"find", "insert", "check", "renew", "wait"}
ManyPCs == {"rlock", "scan", "lock", "claim", "mark"}

Types ==
    /\ options \in Options /\ clock \in Nat /\ dataMap \in Refs /\ item \in [Items -> ItemType]
    /\ pc \in [Readers -> GetPCs \cup ManyPCs \cup {"out", "spawn"}]
    /\ rnow \in [Readers -> Nat]
    /\ todo \in [Readers -> SUBSET Keys] /\ miss \in [Readers -> SUBSET Keys]
    /\ refs \in [Readers -> Refs]
    /\ load \in [Loaders -> JobType \cup {None}]

\* A reader whose next step does not wait for anything: time stands still.
Prompt(r) == pc[r] \notin {"out", "wait"} /\ (pc[r] = "spawn" => todo[r] # {})

ReaderOK(r) ==
    /\ Prompt(r) => rnow[r] = clock
    /\ pc[r] \in GetPCs => \E k \in GetKeys : todo[r] = {k}
    /\ pc[r] \in {"check", "renew", "wait"} => \A k \in todo[r] : refs[r][k] # None
    /\ pc[r] \in ManyPCs => todo[r] \cup miss[r] \subseteq ManyKeys
    /\ pc[r] = "mark" => \A k \in miss[r] : dataMap[k] # None
    /\ pc[r] \in GetPCs \cup {"out"} => miss[r] = {}
    /\ pc[r] \in {"out", "rlock", "scan", "lock"} => refs[r] = NoRefs
    /\ pc[r] = "spawn" /\ Batch /\ todo[r] # {} => todo[r] = {k \in Keys : refs[r][k] # None}

ReadersOK ==
    /\ \A r \in Readers : ReaderOK(r)
    /\ \A r, q \in Readers : pc[r] \in {"claim", "mark"} /\ pc[q] \in {"claim", "mark"} => r = q

\* The age of a load, and how long what it has brought is to last.
LoadsOK == \A l \in Loaders : load[l] # None =>
    /\ load[l].since <= clock /\ clock <= load[l].since + MaxLoad
    /\ load[l].end # None =>
         /\ load[l].end = clock
         /\ load[l].expire = expiration \/ (expirationOnErr > 0 /\ load[l].expire = expirationOnErr)

\* An item belongs to one key for whoever refers to it.
Loads(l, k, i) == load[l] # None /\ load[l].refs[k] = i

Refers(k, i) == \/ dataMap[k] = i
                \/ \E r \in Readers : refs[r][k] = i
                \/ \E l \in Loaders : Loads(l, k, i)

Owned == \A i \in Items, k, h \in Keys : Refers(k, i) /\ Refers(h, i) => k = h

\* A reader that has claimed an item and not yet started its load.
Claims(r, k, i) == /\ refs[r][k] = i
                   /\ pc[r] \in {"claim", "mark"} \/ (pc[r] = "spawn" /\ k \in todo[r])

\* The loads of an item are the retry interval apart and hold off the next one as
\* long; so does a claim, which is the only one and comes that long after every
\* load.
ClaimsOK == \A i \in Items, k, h \in Keys :
    /\ \A l \in Loaders : Loads(l, k, i) =>
         /\ load[l].since + retryInterval <= item[i].next
         /\ \A m \in Loaders : Loads(m, h, i) /\ l # m => Apart(l, m)
    /\ \A r \in Readers : Claims(r, k, i) =>
         /\ clock + retryInterval <= item[i].next
         /\ \A q \in Readers : Claims(q, h, i) => q = r
         /\ \A l \in Loaders : Loads(l, h, i) => load[l].since + retryInterval < clock

\* An item that may be claimed: nobody has, and its loads began long ago.
Ready(i) == \A k \in Keys :
    /\ \A r \in Readers : ~Claims(r, k, i)
    /\ \A l \in Loaders : Loads(l, k, i) => load[l].since + retryInterval < clock

\* What GetMany has tested may still be claimed when it stores, even if a load has
\* ended in between.
MarkOK == \A r \in Readers : pc[r] = "mark" => \A k \in miss[r] : Ready(dataMap[k])

CacheInv == Types /\ ReadersOK /\ LoadsOK /\ Owned /\ ClaimsOK /\ MarkOK

-----------------------------------------------------------------------------
(* Types *)
LEMMA Constants ==
    /\ None \notin Items /\ None \notin Nat
    /\ expiration \in Nat /\ waitTimeout \in Nat /\ evictTimeout \in Nat /\ MaxLoad \in Nat
    /\ retryInterval \in Nat /\ retryInterval >= 1 /\ evictTimeout > expiration
    /\ GetKeys \subseteq Keys /\ ManyKeys \subseteq Keys
  BY MapAssumption

LEMMA TypeInit == Init => Types
  BY Constants DEF Init, Types, Refs, NoRefs, ItemType, Absent

LEMMA NoRefsTyped == NoRefs \in Refs
  BY DEF NoRefs, Refs

LEMMA OnlyTyped == \A k \in Keys, i \in Items \cup {None} : Only(k, i) \in Refs
  BY DEF Only, NoRefs, Refs

LEMMA SpawnTyped ==
    ASSUME Types, NEW m \in Refs, NEW r \in Readers \cup {None}, Spawn(m, r)
    PROVE  load' \in [Loaders -> JobType \cup {None}]
  <1>1. Job(m, r) \in JobType
    BY DEF Types, Job, JobType
  <1> QED BY <1>1 DEF Spawn, Types

LEMMA LeaveTyped ==
    ASSUME Types, NEW r \in Readers, Leave(r)
    PROVE  /\ pc' \in [Readers -> GetPCs \cup ManyPCs \cup {"out", "spawn"}]
           /\ rnow' \in [Readers -> Nat] /\ miss' \in [Readers -> SUBSET Keys]
           /\ refs' \in [Readers -> Refs] /\ load' \in [Loaders -> JobType \cup {None}]
  <1>1. \A j \in JobType : [j EXCEPT !.by = None] \in JobType
    BY DEF JobType
  <1>2. load' \in [Loaders -> JobType \cup {None}]
    BY <1>1 DEF Leave, Types
  <1> QED BY <1>2, NoRefsTyped DEF Leave, Goto, Types

LEMMA NewItemTyped == \A now \in Nat : NewItem(now) \in ItemType
  BY Constants DEF NewItem, ItemType

LEMMA EvictTyped == \A it \in ItemType, now \in Nat : [it EXCEPT !.evict = EvictTime(@, now)] \in ItemType
  <1>1. \A old, now \in Nat : EvictTime(old, now) \in Nat
    BY Constants DEF EvictTime
  <1> QED BY <1>1 DEF ItemType

LEMMA NextTyped == \A it \in ItemType, n \in Nat : [it EXCEPT !.next = n] \in ItemType
  BY DEF ItemType

LEMMA UpdatedTyped ==
    ASSUME NEW it \in ItemType, NEW j \in JobType, j.end # None
    PROVE  Updated(it, j) \in ItemType
  <1>1. j.since \in Nat /\ j.end \in Nat /\ j.end + j.expire \in Nat
    BY DEF JobType
  <1> QED BY <1>1 DEF Updated, ItemType

\* What the types say of single values.
LEMMA Typed ==
    ASSUME Types
    PROVE  /\ clock \in Nat /\ \A i \in Items : item[i] \in ItemType /\ item[i].next \in Nat
           /\ \A k \in Keys : dataMap[k] \in Items \cup {None}
           /\ \A r \in Readers : /\ rnow[r] \in Nat /\ todo[r] \subseteq Keys /\ miss[r] \subseteq Keys
                                 /\ refs[r] \in Refs /\ \A k \in Keys : refs[r][k] \in Items \cup {None}
           /\ \A l \in Loaders : load[l] # None =>
                /\ load[l] \in JobType /\ load[l].since \in Nat
                /\ load[l].refs \in Refs /\ \A k \in Keys : load[l].refs[k] \in Items \cup {None}
  BY DEF Types, Refs, ItemType, JobType

LEMMA GetTyped ==
    ASSUME Types, ReadersOK, NEW r \in Readers, NEW k \in Keys, Get(r, k)
    PROVE  Types'
  <1>0. clock \in Nat /\ rnow[r] \in Nat /\ dataMap[k] \in Items \cup {None}
    BY Typed
  <1>1. CASE GetStart(r, k)
    BY <1>0, <1>1 DEF GetStart, Goto, Types, GetPCs
  <1>2. CASE GetFind(r, k)
    BY <1>0, <1>2, OnlyTyped DEF GetFind, Goto, Types, GetPCs
  <1>3. CASE GetInsert(r, k)
    <2>1. CASE ~Inserts(k)
      BY <1>0, <1>3, <2>1, OnlyTyped DEF GetInsert, Goto, Types, GetPCs
    <2>2. CASE Inserts(k)
      <3>1. PICK i \in Items : /\ item' = [item EXCEPT ![i] = NewItem(rnow[r])]
                               /\ dataMap' = [dataMap EXCEPT ![k] = i]
                               /\ refs' = [refs EXCEPT ![r] = Only(k, i)]
                               /\ Spawn(Only(k, i), None)
        BY <1>3, <2>2 DEF GetInsert
      <3>2. Only(k, i) \in Refs /\ NewItem(rnow[r]) \in ItemType
        BY <1>0, OnlyTyped, NewItemTyped
      <3>3. load' \in [Loaders -> JobType \cup {None}]
        BY <3>1, <3>2, SpawnTyped
      <3>4. dataMap' \in Refs
        BY <3>1 DEF Types, Refs
      <3> QED BY <1>3, <3>1, <3>2, <3>3, <3>4 DEF GetInsert, Goto, Types, GetPCs
    <2> QED BY <2>1, <2>2
  <1>4. CASE GetCheck(r, k)
    BY <1>4 DEF GetCheck, Goto, locals, Types, GetPCs
  <1>5. CASE GetRenew(r, k)
    <2>1. pc' \in [Readers -> GetPCs \cup ManyPCs \cup {"out", "spawn"}]
      BY <1>5 DEF GetRenew, Goto, Types, GetPCs
    <2>2. CASE ~Expired(r, refs[r][k])
      BY <1>5, <2>1, <2>2 DEF GetRenew, locals, Types
    <2>3. CASE Expired(r, refs[r][k])
      <3>1. /\ item' = [item EXCEPT ![refs[r][k]].next = rnow[r] + retryInterval]
            /\ Spawn(Only(k, refs[r][k]), None)
        BY <1>5, <2>3 DEF GetRenew, RetryAt
      <3>2. refs[r][k] \in Items
        BY <1>5, Typed DEF GetRenew, ReadersOK, ReaderOK
      <3>3. item' \in [Items -> ItemType]
        <4>1. PICK n \in Nat : n = rnow[r] + retryInterval
          BY <1>0, Constants DEF Types
        <4>2. item[refs[r][k]] \in ItemType
          BY <1>0, <3>2 DEF Types
        <4>3. [item[refs[r][k]] EXCEPT !.next = n] \in ItemType
          BY <4>2, NextTyped
        <4>4. item' = [item EXCEPT ![refs[r][k]] = [item[refs[r][k]] EXCEPT !.next = n]]
          BY <3>1, <4>1
        <4> QED BY <1>0, <3>2, <4>3, <4>4 DEF Types
      <3>4. load' \in [Loaders -> JobType \cup {None}]
        BY <3>1, <3>2, OnlyTyped, SpawnTyped
      <3> QED BY <1>5, <2>1, <3>3, <3>4 DEF GetRenew, locals, Types
    <2> QED BY <2>2, <2>3
  <1>6. CASE GetSleep(r, k)
    BY <1>0, <1>6 DEF GetSleep, Sleep, Types
  <1>7. CASE GetReturn(r, k)
    <2>1. item' = [item EXCEPT ![refs[r][k]].evict = EvictTime(@, rnow[r])]
      BY <1>7 DEF GetReturn
    <2>2. refs[r][k] \in Items
      BY <1>7, Typed DEF GetReturn, ReadersOK, ReaderOK
    <2>3. item' \in [Items -> ItemType]
      BY <1>0, <2>1, <2>2, EvictTyped DEF Types
    <2> QED BY <1>7, <2>3, LeaveTyped DEF GetReturn, Types
  <1> QED BY <1>1, <1>2, <1>3, <1>4, <1>5, <1>6, <1>7 DEF Get

LEMMA ManyTyped ==
    ASSUME Types, ReadersOK, NEW r \in Readers, GetMany(r)
    PROVE  Types'
  <1>0. clock \in Nat /\ rnow[r] \in Nat /\ todo[r] \subseteq Keys /\ miss[r] \subseteq Keys
    BY Typed
  <1>1. ASSUME NEW K \in SUBSET ManyKeys \ {{}}, ManyStart(r, K) PROVE Types'
    <2>1. K \in SUBSET Keys
      BY Constants
    <2> QED BY <1>0, <1>1, <2>1 DEF ManyStart, Goto, Types, ManyPCs
  <1>2. CASE ManyRLock(r) \/ ManyLock(r)
    BY <1>2 DEF ManyRLock, ManyLock, Goto, locals, Types, ManyPCs
  <1>3. ASSUME NEW k \in Keys, ManyScan(r, k) PROVE Types'
    <2>1. /\ item' = IF dataMap[k] = None THEN item
                     ELSE [item EXCEPT ![dataMap[k]].evict = EvictTime(@, rnow[r])]
          /\ miss' \in {miss, [miss EXCEPT ![r] = @ \cup {k}]}
      BY <1>3 DEF ManyScan
    <2>2. item' \in [Items -> ItemType]
      <3>1. dataMap[k] \in Items \cup {None}
        BY Typed
      <3>2. CASE dataMap[k] = None
        BY <2>1, <3>2 DEF Types
      <3>3. CASE dataMap[k] # None
        BY <1>0, <2>1, <3>1, <3>3, EvictTyped DEF Types
      <3> QED BY <3>2, <3>3
    <2>3. miss' \in [Readers -> SUBSET Keys]
      BY <2>1 DEF Types
    <2> QED BY <1>3, <2>2, <2>3 DEF ManyScan, Types
  <1>4. CASE ManyScanned(r) \/ ManyUnlock(r)
    <2>1. CASE Leave(r) /\ UNCHANGED todo
      BY <1>4, <2>1, LeaveTyped DEF ManyScanned, ManyUnlock, Types
    <2>2. CASE ~(Leave(r) /\ UNCHANGED todo)
      BY <1>4, <2>2 DEF ManyScanned, ManyUnlock, Goto, locals, Types, ManyPCs
    <2> QED BY <2>1, <2>2
  <1>5. ASSUME NEW k \in Keys, ManyClaim(r, k) PROVE Types'
    <2>1. CASE dataMap[k] # None
      BY <1>5, <2>1 DEF ManyClaim, Goto, Types, ManyPCs
    <2>2. CASE dataMap[k] = None
      <3>1. PICK i \in Items : /\ item' = [item EXCEPT ![i] = NewItem(rnow[r])]
                               /\ dataMap' = [dataMap EXCEPT ![k] = i]
                               /\ refs' = [refs EXCEPT ![r][k] = i]
        BY <1>5, <2>2 DEF ManyClaim
      <3>2. NewItem(rnow[r]) \in ItemType
        BY <1>0, NewItemTyped
      <3>3. dataMap' \in Refs /\ refs' \in [Readers -> Refs]
        BY <3>1 DEF Types, Refs
      <3> QED BY <1>5, <2>2, <3>1, <3>2, <3>3 DEF ManyClaim, Types
    <2> QED BY <2>1, <2>2
  <1>6. ASSUME NEW k \in Keys, ManyMark(r, k) PROVE Types'
    <2>1. dataMap[k] \in Items
      BY <1>6, Typed DEF ManyMark, ReadersOK, ReaderOK
    <2>2. item' = [item EXCEPT ![dataMap[k]].next = rnow[r] + retryInterval]
          /\ refs' = [refs EXCEPT ![r][k] = dataMap[k]]
      BY <1>6 DEF ManyMark, RetryAt
    <2>3. item' \in [Items -> ItemType]
      <3>1. rnow[r] + retryInterval \in Nat
        BY <1>0, Constants
      <3> QED BY <2>1, <2>2, <3>1, NextTyped DEF Types
    <2>4. refs' \in [Readers -> Refs]
      BY <2>1, <2>2 DEF Types, Refs
    <2> QED BY <1>6, <2>3, <2>4 DEF ManyMark, Goto, Types, ManyPCs
  <1>7. CASE ManySpawn(r)
    <2>1. todo' \in [Readers -> SUBSET Keys]
      BY <1>7 DEF ManySpawn, Types
    <2>2. \E m \in Refs, by \in Readers \cup {None} : Spawn(m, by)
      <3>1. refs[r] \in Refs /\ \A k \in todo[r] : Only(k, refs[r][k]) \in Refs
        BY <1>0, Typed, OnlyTyped
      <3> QED BY <1>7, <3>1 DEF ManySpawn
    <2>3. load' \in [Loaders -> JobType \cup {None}]
      BY <2>2, SpawnTyped
    <2> QED BY <1>7, <2>1, <2>3 DEF ManySpawn, locals, Types
  <1>8. CASE ManySleep(r)
    BY <1>0, <1>8 DEF ManySleep, Sleep, Types
  <1>9. CASE ManyReturn(r)
    BY <1>9, LeaveTyped DEF ManyReturn, Types
  <1> QED BY <1>1, <1>2, <1>3, <1>4, <1>5, <1>6, <1>7, <1>8, <1>9 DEF GetMany

LEMMA LoadTyped ==
    ASSUME Types, NEW l \in Loaders, Load(l)
    PROVE  Types'
  <1>0. clock \in Nat /\ (load[l] # None => load[l] \in JobType)
    BY Typed
  <1>1. ASSUME NEW e \in Nat, load[l] # None, Ended(l, e) PROVE Types'
    <2>1. [load[l] EXCEPT !.end = clock, !.expire = e] \in JobType
      BY <1>0, <1>1 DEF JobType
    <2>2. load' = [load EXCEPT ![l] = [load[l] EXCEPT !.end = clock, !.expire = e]]
      BY <1>1 DEF Ended, Types
    <2> QED BY <1>1, <2>1, <2>2 DEF Ended, locals, Types
  <1>2. CASE LoadOK(l)
    BY <1>1, <1>2, Constants DEF LoadOK, Loading
  <1>3. CASE LoadError(l)
    <2>1. expirationOnErr \in Nat
      BY MapAssumption DEF Types, expirationOnErr
    <2>2. CASE load' = [load EXCEPT ![l] = None] /\ UNCHANGED <<options, clock, dataMap, item, pc, locals, todo, doomed>>
      BY <2>2 DEF locals, Types
    <2> QED BY <1>1, <1>3, <2>1, <2>2 DEF LoadError, Loading
  <1>4. ASSUME NEW k \in Keys, LoadApply(l, k) PROVE Types'
    <2>1. /\ load[l] \in JobType /\ load[l].end # None /\ load[l].refs[k] \in Items
          /\ item' = [item EXCEPT ![load[l].refs[k]] = Updated(@, load[l])]
          /\ load' = [load EXCEPT ![l].refs[k] = None]
      BY <1>0, <1>4, Typed DEF LoadApply
    <2>2. item' \in [Items -> ItemType]
      BY <2>1, UpdatedTyped DEF Types
    <2>3. [load[l] EXCEPT !.refs = [@ EXCEPT ![k] = None]] \in JobType
      BY <2>1 DEF JobType, Refs
    <2>4. load' = [load EXCEPT ![l] = [load[l] EXCEPT !.refs = [@ EXCEPT ![k] = None]]]
      BY <2>1
    <2> QED BY <1>4, <2>2, <2>3, <2>4 DEF LoadApply, locals, Types
  <1>5. CASE LoadFinish(l)
    BY <1>5 DEF LoadFinish, Types
  <1> QED BY <1>2, <1>3, <1>4, <1>5 DEF Load

LEMMA TypeStep == Types /\ ReadersOK /\ [Next]_vars => Types'
  <1> SUFFICES ASSUME Types, ReadersOK, [Next]_vars PROVE Types'
    OBVIOUS
  <1>1. CASE Tick
    BY <1>1, Typed DEF Tick, locals, Types
  <1>2. CASE EvictScan
    BY <1>2 DEF EvictScan, locals, Types
  <1>3. CASE EvictDelete
    <2>1. dataMap' \in Refs
      BY <1>3, Typed DEF EvictDelete, Refs
    <2> QED BY <1>3, <2>1 DEF EvictDelete, locals, Types
  <1>4. CASE UNCHANGED vars
    BY <1>4 DEF vars, Types
  <1> QED BY <1>1, <1>2, <1>3, <1>4, GetTyped, ManyTyped, LoadTyped DEF Next

-----------------------------------------------------------------------------
(* The readers and the age of the loads *)
LEMMA ReadersInit == Init => ReadersOK
  <1> SUFFICES ASSUME Init PROVE ReadersOK
    OBVIOUS
  <1>1. \A r \in Readers : pc[r] = "out" /\ miss[r] = {} /\ refs[r] = NoRefs
    BY DEF Init
  <1> QED BY <1>1 DEF ReadersOK, ReaderOK, Prompt, GetPCs, ManyPCs

\* What a step of reader r leaves alone; the map holds still while a reader is
\* between its test and its store.
OnlyReader(r) ==
    /\ clock' = clock /\ options' = options
    /\ \A q \in Readers : q # r => /\ pc'[q] = pc[q] /\ rnow'[q] = rnow[q] /\ todo'[q] = todo[q]
                                   /\ miss'[q] = miss[q] /\ refs'[q] = refs[q]
                                   /\ pc[q] = "mark" => dataMap' = dataMap
    /\ pc'[r] \in {"claim", "mark"} => pc[r] \in {"claim", "mark"} \/ Lockable

LEMMA LeaveFrame ==
    ASSUME Types, NEW r \in Readers, Leave(r)
    PROVE  /\ pc'[r] = "out" /\ rnow'[r] = 0 /\ miss'[r] = {} /\ refs'[r] = NoRefs
           /\ \A q \in Readers : q # r => /\ pc'[q] = pc[q] /\ rnow'[q] = rnow[q]
                                          /\ miss'[q] = miss[q] /\ refs'[q] = refs[q]
  BY DEF Types, Leave, Goto

LEMMA GetFrame ==
    ASSUME Types, NEW r \in Readers, NEW k \in Keys, Get(r, k)
    PROVE  OnlyReader(r)
  <1>1. CASE GetStart(r, k) \/ GetFind(r, k) \/ GetCheck(r, k) \/ GetRenew(r, k) \/ GetSleep(r, k)
    BY <1>1 DEF GetStart, GetFind, GetCheck, GetRenew, GetSleep, Sleep, Goto, locals, Types, OnlyReader
  <1>2. CASE GetInsert(r, k)
    BY <1>2 DEF GetInsert, Goto, Types, OnlyReader, Lockable, RLockable
  <1>3. CASE GetReturn(r, k)
    BY <1>3, LeaveFrame DEF GetReturn, Types, OnlyReader
  <1> QED BY <1>1, <1>2, <1>3 DEF Get

LEMMA ManyFrame ==
    ASSUME Types, ReadersOK, NEW r \in Readers, GetMany(r)
    PROVE  OnlyReader(r)
  <1>1. ASSUME NEW K \in SUBSET ManyKeys \ {{}}, ManyStart(r, K) PROVE OnlyReader(r)
    BY <1>1 DEF ManyStart, Goto, Types, OnlyReader
  <1>2. CASE ManyRLock(r) \/ ManyLock(r) \/ ManySpawn(r) \/ ManySleep(r)
    BY <1>2 DEF ManyRLock, ManyLock, ManySpawn, ManySleep, Sleep, Goto, locals, Types, OnlyReader
  <1>3. ASSUME NEW k \in Keys, ManyScan(r, k) \/ ManyMark(r, k) PROVE OnlyReader(r)
    BY <1>3 DEF ManyScan, ManyMark, Goto, Types, OnlyReader
  <1>4. ASSUME NEW k \in Keys, ManyClaim(r, k) PROVE OnlyReader(r)
    <2>1. \A q \in Readers : q # r => pc[q] # "mark"
      BY <1>4 DEF ManyClaim, ReadersOK
    <2> QED BY <1>4, <2>1 DEF ManyClaim, Goto, Types, OnlyReader
  <1>5. CASE ManyScanned(r) \/ ManyUnlock(r) \/ ManyReturn(r)
    <2>1. CASE Leave(r)
      BY <1>5, <2>1, LeaveFrame DEF ManyScanned, ManyUnlock, ManyReturn, Types, OnlyReader
    <2>2. CASE ~Leave(r)
      BY <1>5, <2>2 DEF ManyScanned, ManyUnlock, ManyReturn, Goto, locals, Types, OnlyReader
    <2> QED BY <2>1, <2>2
  <1> QED BY <1>1, <1>2, <1>3, <1>4, <1>5 DEF GetMany

LEMMA ReadersFrame ==
    ASSUME ReadersOK, NEW r \in Readers, OnlyReader(r), ReaderOK(r)'
    PROVE  ReadersOK'
  <1>1. ASSUME NEW q \in Readers, q # r PROVE ReaderOK(q)'
    <2>1. ReaderOK(q)
      BY DEF ReadersOK
    <2>2. Prompt(q)' = Prompt(q) /\ Batch' = Batch
      BY <1>1 DEF OnlyReader, Prompt, Batch
    <2> QED BY <1>1, <2>1, <2>2 DEF OnlyReader, ReaderOK
  <1>2. ASSUME NEW q \in Readers, q # r, pc'[q] \in {"claim", "mark"} PROVE pc'[r] \notin {"claim", "mark"}
    BY <1>2 DEF ReadersOK, OnlyReader, Lockable, RLockable
  <1>3. ASSUME NEW p \in Readers, NEW q \in Readers, pc'[p] \in {"claim", "mark"}, pc'[q] \in {"claim", "mark"}
        PROVE  p = q
    <2>1. CASE p = r \/ q = r
      BY <1>2, <1>3, <2>1
    <2>2. CASE p # r /\ q # r
      BY <1>3, <2>2 DEF OnlyReader, ReadersOK
    <2> QED BY <2>1, <2>2
  <1> QED BY <1>1, <1>3 DEF ReadersOK

LEMMA GetReader ==
    ASSUME Types, ReadersOK, NEW r \in Readers, NEW k \in Keys, Get(r, k)
    PROVE  ReaderOK(r)'
  <1>0. ReaderOK(r) /\ \A h \in Keys : Only(h, None) = NoRefs /\ \A i \in Items : Only(h, i)[h] = i
    BY DEF ReadersOK, Only, NoRefs
  <1>1. CASE GetStart(r, k)
    <2>1. /\ pc'[r] = "find" /\ rnow'[r] = clock /\ clock' = clock /\ todo'[r] = {k} /\ k \in GetKeys
          /\ miss'[r] = {}
      BY <1>0, <1>1 DEF GetStart, Goto, Types, ReaderOK
    <2> QED BY <2>1 DEF ReaderOK, GetPCs, ManyPCs
  <1>2. CASE GetFind(r, k)
    <2>1. /\ pc[r] = "find" /\ k \in todo[r] /\ pc'[r] = IF dataMap[k] # None THEN "check" ELSE "insert"
          /\ refs'[r] = Only(k, dataMap[k]) /\ UNCHANGED <<clock, todo, miss, rnow>>
      BY <1>2 DEF GetFind, Goto, Types
    <2>2. todo[r] = {k} /\ rnow[r] = clock /\ miss[r] = {} /\ \E h \in GetKeys : todo[r] = {h}
      BY <1>0, <2>1 DEF ReaderOK, GetPCs, Prompt
    <2>3. dataMap[k] # None => refs'[r][k] # None
      BY <1>0, <2>1, Typed
    <2> QED BY <2>1, <2>2, <2>3 DEF ReaderOK, GetPCs, ManyPCs, Prompt
  <1>3. CASE GetInsert(r, k)
    <2>1. /\ pc[r] = "insert" /\ k \in todo[r] /\ pc'[r] = "check"
          /\ UNCHANGED <<clock, todo, miss, rnow>>
          /\ \/ \E i \in Items : refs'[r] = Only(k, i)
             \/ dataMap[k] # None /\ refs'[r] = Only(k, dataMap[k])
      BY <1>3 DEF GetInsert, Inserts, Goto, Types
    <2>2. todo[r] = {k} /\ rnow[r] = clock /\ miss[r] = {} /\ \E h \in GetKeys : todo[r] = {h}
      BY <1>0, <2>1 DEF ReaderOK, GetPCs, Prompt
    <2>3. refs'[r][k] # None
      BY <1>0, <2>1, Typed, Constants
    <2> QED BY <2>1, <2>2, <2>3 DEF ReaderOK, GetPCs, ManyPCs, Prompt
  <1>4. CASE GetCheck(r, k) \/ GetRenew(r, k) \/ GetSleep(r, k)
    <2>1. /\ pc[r] \in {"check", "renew", "wait"} /\ pc'[r] \in {"renew", "wait"}
          /\ pc[r] = "wait" => pc'[r] = "wait"
          /\ pc[r] # "wait" => rnow' = rnow
          /\ UNCHANGED <<clock, todo, miss, refs>>
      BY <1>4 DEF GetCheck, GetRenew, GetSleep, Sleep, Goto, locals, Types
    <2> QED BY <1>0, <2>1 DEF ReaderOK, GetPCs, ManyPCs, Prompt
  <1>5. CASE GetReturn(r, k)
    BY <1>5, LeaveFrame DEF GetReturn, ReaderOK, GetPCs, ManyPCs, Prompt
  <1> QED BY <1>1, <1>2, <1>3, <1>4, <1>5 DEF Get

LEMMA ManyReader ==
    ASSUME Types, ReadersOK, NEW r \in Readers, GetMany(r)
    PROVE  ReaderOK(r)'
  <1>0. ReaderOK(r) /\ Batch' = Batch
    BY ManyFrame DEF ReadersOK, OnlyReader, Batch
  <1>1. ASSUME NEW K \in SUBSET ManyKeys \ {{}}, ManyStart(r, K) PROVE ReaderOK(r)'
    <2>1. /\ pc'[r] = "rlock" /\ rnow'[r] = clock /\ clock' = clock /\ todo'[r] = K
          /\ miss'[r] = {} /\ refs'[r] = NoRefs
      BY <1>0, <1>1 DEF ManyStart, Goto, Types, ReaderOK
    <2> QED BY <1>1, <2>1 DEF ReaderOK, GetPCs, ManyPCs
  <1>2. CASE ManyRLock(r) \/ ManyLock(r)
    <2>1. /\ \/ pc[r] = "rlock" /\ pc'[r] = "scan"
             \/ pc[r] = "lock" /\ pc'[r] = "claim"
          /\ UNCHANGED <<clock, rnow, todo, miss, refs>>
      BY <1>2 DEF ManyRLock, ManyLock, Goto, locals, Types
    <2> QED BY <1>0, <2>1 DEF ReaderOK, GetPCs, ManyPCs, Prompt
  <1>3. ASSUME NEW k \in Keys, ManyScan(r, k) PROVE ReaderOK(r)'
    <2>1. /\ pc[r] = "scan" /\ k \in todo[r] /\ UNCHANGED <<clock, rnow, pc, refs>>
          /\ todo'[r] = todo[r] \ {k} /\ miss'[r] \in {miss[r], miss[r] \cup {k}}
      BY <1>3 DEF ManyScan, Types
    <2> QED BY <1>0, <2>1 DEF ReaderOK, GetPCs, ManyPCs, Prompt
  <1>4. CASE Leave(r) /\ clock' = clock
    BY <1>4, LeaveFrame DEF ReaderOK, GetPCs, ManyPCs, Prompt
  <1>5. CASE ManyScanned(r) /\ ~Leave(r)
    <2>1. /\ pc[r] = "scan" /\ pc'[r] = "lock" /\ todo'[r] = miss[r]
          /\ UNCHANGED <<clock, rnow, miss, refs>>
      BY <1>5 DEF ManyScanned, Goto, locals, Types
    <2> QED BY <1>0, <2>1 DEF ReaderOK, GetPCs, ManyPCs, Prompt
  <1>6. ASSUME NEW k \in Keys, ManyClaim(r, k) PROVE ReaderOK(r)'
    <2>1. /\ pc[r] = "claim" /\ k \in todo[r] /\ UNCHANGED <<clock, rnow>>
          /\ \/ pc'[r] = "claim" /\ todo'[r] = todo[r] \ {k} /\ miss' = miss
             \/ /\ pc'[r] = "mark" /\ dataMap[k] # None /\ dataMap' = dataMap
                /\ todo' = todo /\ miss'[r] = {k}
      BY <1>6 DEF ManyClaim, Goto, Types
    <2> QED BY <1>0, <2>1 DEF ReaderOK, GetPCs, ManyPCs, Prompt
  <1>7. ASSUME NEW k \in Keys, ManyMark(r, k) PROVE ReaderOK(r)'
    <2>1. /\ pc[r] = "mark" /\ pc'[r] = "claim" /\ UNCHANGED <<clock, rnow, miss>>
          /\ todo'[r] = todo[r] \ {k}
      BY <1>7 DEF ManyMark, Goto, Types
    <2> QED BY <1>0, <2>1 DEF ReaderOK, GetPCs, ManyPCs, Prompt
  <1>8. CASE ManyUnlock(r) /\ ~Leave(r)
    <2>1. /\ pc[r] = "claim" /\ pc'[r] = "spawn" /\ todo'[r] = {k \in Keys : refs[r][k] # None}
          /\ UNCHANGED <<clock, rnow, miss, refs>>
      BY <1>8 DEF ManyUnlock, Goto, locals, Types
    <2> QED BY <1>0, <2>1 DEF ReaderOK, GetPCs, ManyPCs, Prompt
  <1>9. CASE ManySpawn(r) \/ ManySleep(r)
    <2>1. /\ pc[r] = "spawn" /\ UNCHANGED <<clock, pc, miss, refs>>
          /\ \/ rnow' = rnow /\ todo[r] # {} /\ (Batch => todo'[r] = {})
             \/ todo' = todo /\ todo[r] = {}
      BY <1>9 DEF ManySpawn, ManySleep, Sleep, locals, Types
    <2> QED BY <1>0, <2>1 DEF ReaderOK, GetPCs, ManyPCs, Prompt
  <1>10. ManyScanned(r) \/ ManyUnlock(r) \/ ManyReturn(r) => clock' = clock
    BY DEF ManyScanned, ManyUnlock, ManyReturn
  <1>11. ManyReturn(r) => Leave(r)
    BY DEF ManyReturn
  <1> QED BY <1>1, <1>2, <1>3, <1>4, <1>5, <1>6, <1>7, <1>8, <1>9, <1>10, <1>11 DEF GetMany

LEMMA ReadersStep == Types /\ ReadersOK /\ [Next]_vars => ReadersOK'
  <1> SUFFICES ASSUME Types, ReadersOK, [Next]_vars PROVE ReadersOK'
    OBVIOUS
  <1>1. ASSUME NEW r \in Readers, NEW k \in Keys, Get(r, k) PROVE ReadersOK'
    BY <1>1, GetFrame, GetReader, ReadersFrame
  <1>2. ASSUME NEW r \in Readers, GetMany(r) PROVE ReadersOK'
    BY <1>2, ManyFrame, ManyReader, ReadersFrame
  <1>3. CASE Tick
    <2>1. /\ \A r \in Readers : ~Prompt(r)
          /\ UNCHANGED <<options, pc, rnow, todo, miss, refs, dataMap>>
      BY <1>3 DEF Tick, locals, Prompt
    <2> QED BY <2>1 DEF ReadersOK, ReaderOK, Prompt, Batch
  <1>4. CASE EvictDelete
    <2>1. /\ \A r \in Readers : pc[r] # "mark"
          /\ UNCHANGED <<options, clock, pc, rnow, todo, miss, refs>>
      BY <1>4 DEF EvictDelete, Lockable, RLockable, locals
    <2> QED BY <2>1 DEF ReadersOK, ReaderOK, Prompt, Batch
  <1>5. CASE EvictScan \/ (\E l \in Loaders : Load(l)) \/ UNCHANGED vars
    <2>1. UNCHANGED <<options, clock, pc, rnow, todo, miss, refs, dataMap>>
      BY <1>5 DEF EvictScan, Load, LoadOK, LoadError, Ended, LoadApply, LoadFinish, locals, vars
    <2> QED BY <2>1 DEF ReadersOK, ReaderOK, Prompt, Batch
  <1> QED BY <1>1, <1>2, <1>3, <1>4, <1>5 DEF Next

LEMMA TypesKnown == Spec => [](Types /\ ReadersOK)
  BY TypeInit, ReadersInit, TypeStep, ReadersStep, PTL DEF Spec

\* A step either starts a load now, with refs of a reader or a new item, or it
\* leaves those there are as they are but for what they have dealt with.
LEMMA SpawnFacts ==
    ASSUME Types, NEW m, NEW r \in Readers \cup {None}, Spawn(m, r)
    PROVE  \E n \in Loaders :
             /\ load[n] = None /\ load'[n].refs = m /\ load'[n].since = clock
             /\ \A l \in Loaders : l # n => load'[l] = load[l]
  BY DEF Types, Spawn, Job, JobType

NoNewLoads ==
    \A l \in Loaders : load'[l] # None =>
        /\ load[l] # None /\ load'[l].since = load[l].since
        /\ \A k \in Keys : load'[l].refs[k] # None => load'[l].refs[k] = load[l].refs[k]

LEMMA LeaveLoads ==
    ASSUME Types, NEW r \in Readers, Leave(r)
    PROVE  NoNewLoads
  BY DEF Leave, NoNewLoads, Types, JobType

LEMMA LoadLoads ==
    ASSUME Types, NEW l \in Loaders, Load(l)
    PROVE  NoNewLoads /\ clock' = clock
  <1>1. ASSUME NEW e \in Nat, load[l] # None, Ended(l, e) PROVE NoNewLoads /\ clock' = clock
    BY <1>1 DEF Ended, NoNewLoads, Types, JobType
  <1>2. CASE load' = [load EXCEPT ![l] = None] /\ clock' = clock
    BY <1>2 DEF NoNewLoads, Types
  <1>3. expiration \in Nat /\ expirationOnErr \in Nat
    BY MapAssumption DEF Types, expirationOnErr
  <1>4. ASSUME NEW k \in Keys, LoadApply(l, k) PROVE NoNewLoads /\ clock' = clock
    <2>1. load[l] # None /\ load' = [load EXCEPT ![l].refs[k] = None] /\ clock' = clock
      BY <1>4 DEF LoadApply
    <2> QED BY <2>1 DEF NoNewLoads, Types, JobType, Refs
  <1> QED BY <1>1, <1>2, <1>3, <1>4 DEF Load, LoadOK, LoadError, LoadFinish, Loading

\* The steps that start a load, with what it is to load.
Starts(m) == \E r \in Readers \cup {None} : Spawn(m, r)

LEMMA ReaderLoads ==
    ASSUME Types, NEW r \in Readers, GetMany(r) \/ \E k \in Keys : Get(r, k)
    PROVE  NoNewLoads \/ \E m : Starts(m)
  <1>1. load' = load => NoNewLoads
    BY DEF NoNewLoads
  <1>2. Leave(r) => NoNewLoads
    BY LeaveLoads
  <1>3. ASSUME NEW k \in Keys, Get(r, k) PROVE NoNewLoads \/ \E m : Starts(m)
    BY <1>1, <1>2, <1>3 DEF Get, GetStart, GetFind, GetInsert, GetCheck, GetRenew, GetSleep, GetReturn,
                            Sleep, Starts
  <1>4. CASE GetMany(r)
    BY <1>1, <1>2, <1>4 DEF GetMany, ManyStart, ManyRLock, ManyScan, ManyScanned, ManyLock, ManyClaim, ManyMark,
                            ManyUnlock, ManySpawn, ManySleep, ManyReturn, Sleep, Starts, locals
  <1> QED BY <1>3, <1>4

\* What is stored of the end of a load.
LEMMA EndsKept ==
    ASSUME Types, ReadersOK, [Next]_vars, NEW l \in Loaders, load'[l] # None, load'[l].end # None
    PROVE  /\ clock' = clock /\ options' = options
           /\ \/ load[l] # None /\ load'[l].end = load[l].end /\ load'[l].expire = load[l].expire
              \/ load'[l].end = clock /\ load'[l].expire = expiration
              \/ load'[l].end = clock /\ expirationOnErr > 0 /\ load'[l].expire = expirationOnErr
  <1> DEFINE Old == load[l] # None /\ load'[l].end = load[l].end /\ load'[l].expire = load[l].expire
  <1>1. load' = load => Old
    OBVIOUS
  <1>2. ASSUME NEW r \in Readers, Leave(r) PROVE Old
    BY <1>2 DEF Leave, Types, JobType
  <1>3. ASSUME NEW m, NEW r \in Readers \cup {None}, Spawn(m, r) PROVE Old
    BY <1>3 DEF Spawn, Job, Types
  <1>4. ASSUME NEW r \in Readers, NEW k \in Keys, Get(r, k) PROVE Old /\ UNCHANGED <<clock, options>>
    <2>1. UNCHANGED <<clock, options>>
      BY <1>4, GetFrame DEF OnlyReader
    <2> QED BY <1>1, <1>2, <1>3, <1>4, <2>1 DEF Get, GetStart, GetFind, GetInsert, GetCheck, GetRenew, GetSleep,
                                                 GetReturn, Sleep
  <1>5. ASSUME NEW r \in Readers, GetMany(r) PROVE Old /\ UNCHANGED <<clock, options>>
    <2>1. UNCHANGED <<clock, options>>
      BY <1>5, ManyFrame DEF OnlyReader
    <2> QED BY <1>1, <1>2, <1>3, <1>5, <2>1 DEF GetMany, ManyStart, ManyRLock, ManyScan, ManyScanned, ManyLock,
                 ManyClaim, ManyMark, ManyUnlock, ManySpawn, ManySleep, ManyReturn, Sleep, locals
  <1>6. ASSUME NEW m \in Loaders, NEW e, load[m] # None, Ended(m, e)
        PROVE  UNCHANGED <<clock, options>> /\ (Old \/ (load'[l].end = clock /\ load'[l].expire = e))
    BY <1>6 DEF Ended, Types, JobType
  <1>7. ASSUME NEW m \in Loaders, Load(m)
        PROVE  /\ UNCHANGED <<clock, options>>
               /\ \/ Old
                  \/ load'[l].end = clock /\ load'[l].expire = expiration
                  \/ load'[l].end = clock /\ expirationOnErr > 0 /\ load'[l].expire = expirationOnErr
    <2>1. CASE LoadOK(m)
      BY <1>6, <2>1 DEF LoadOK, Loading
    <2>2. CASE LoadError(m) /\ expirationOnErr > 0 /\ Ended(m, expirationOnErr)
      BY <1>6, <2>2 DEF LoadError, Loading
    <2>3. CASE load' = [load EXCEPT ![m] = None] /\ UNCHANGED <<clock, options>>
      BY <2>3 DEF Types
    <2>4. ASSUME NEW k \in Keys, LoadApply(m, k) PROVE Old /\ UNCHANGED <<clock, options>>
      BY <2>4 DEF LoadApply, Types, JobType
    <2> QED BY <1>7, <2>1, <2>2, <2>3, <2>4 DEF Load, LoadError, LoadFinish
  <1>8. CASE Tick
    \* No load that has ended is there when the clock moves on.
    BY <1>8 DEF Tick
  <1>9. CASE EvictScan \/ EvictDelete \/ UNCHANGED vars
    BY <1>1, <1>9 DEF EvictScan, EvictDelete, vars
  <1> QED BY <1>4, <1>5, <1>7, <1>8, <1>9 DEF Next

LEMMA LoadsStep == Types /\ ReadersOK /\ LoadsOK /\ [Next]_vars => LoadsOK'
  <1> SUFFICES ASSUME Types, ReadersOK, LoadsOK, [Next]_vars PROVE LoadsOK'
    OBVIOUS
  <1> DEFINE Aged == \A l \in Loaders : load'[l] # None =>
                         load'[l].since <= clock' /\ clock' <= load'[l].since + MaxLoad
  <1>n. clock \in Nat /\ MaxLoad \in Nat /\ \A l \in Loaders : load[l] # None => load[l].since \in Nat
    BY Typed, Constants
  <1>1. CASE Tick
    BY <1>n, <1>1 DEF Tick, LoadsOK
  <1>2. ASSUME NEW r \in Readers, GetMany(r) \/ \E k \in Keys : Get(r, k) PROVE Aged
    <2>1. clock' = clock
      BY <1>2, GetFrame, ManyFrame DEF OnlyReader
    <2>2. CASE NoNewLoads
      BY <2>1, <2>2 DEF NoNewLoads, LoadsOK
    <2>3. CASE \E m : Starts(m)
      <3>1. PICK n \in Loaders : load'[n].since = clock /\ \A l \in Loaders : l # n => load'[l] = load[l]
        BY <2>3, SpawnFacts DEF Starts
      <3> QED BY <1>n, <2>1, <3>1 DEF LoadsOK
    <2> QED BY <1>2, <2>2, <2>3, ReaderLoads
  <1>3. ASSUME NEW l \in Loaders, Load(l) PROVE Aged
    BY <1>3, LoadLoads DEF NoNewLoads, LoadsOK
  <1>4. ASSUME EvictScan \/ EvictDelete \/ UNCHANGED vars PROVE Aged
    BY <1>4 DEF EvictScan, EvictDelete, vars, LoadsOK
  <1>5. Aged
    BY <1>1, <1>2, <1>3, <1>4 DEF Next, LoadsOK
  <1>6. ASSUME NEW l \in Loaders, load'[l] # None, load'[l].end # None
        PROVE  /\ load'[l].end = clock'
               /\ \/ load'[l].expire = expiration
                  \/ expirationOnErr' > 0 /\ load'[l].expire = expirationOnErr'
    BY <1>6, EndsKept DEF LoadsOK, expirationOnErr
  <1> QED BY <1>5, <1>6 DEF LoadsOK

-----------------------------------------------------------------------------
(* The owners of the items and the claims on them *)

\* Nothing refers to an unused item, and an expired one may be claimed.
LEMMA UnusedIsFree ==
    ASSUME NEW i \in Items, Unused(i)
    PROVE  \A k \in Keys : ~Refers(k, i)
  BY DEF Unused, Loads, Refers

LEMMA DueIsReady ==
    ASSUME Types, ClaimsOK, NEW i \in Items, clock > item[i].next
    PROVE  Ready(i)
  <1>1. /\ clock \in Nat /\ retryInterval \in Nat /\ item[i].next \in Nat
        /\ \A l \in Loaders : load[l] # None => load[l].since \in Nat
    BY Typed, Constants
  <1>2. \A k \in Keys, l \in Loaders : Loads(l, k, i) => load[l].since + retryInterval < clock
    BY <1>1 DEF ClaimsOK, Loads
  <1>3. \A k \in Keys, r \in Readers : ~Claims(r, k, i)
    BY <1>1 DEF ClaimsOK
  <1> QED BY <1>2, <1>3 DEF Ready

SameNext == \A i \in Items : item'[i].next = item[i].next

NoNewRefs == \A i \in Items, k \in Keys : Refers(k, i)' => Refers(k, i)

NoNewClaims == \A i \in Items, k \in Keys, r \in Readers : Claims(r, k, i)' => Claims(r, k, i)

\* What r is about to mark after a step could be claimed before it.
MarksDue(r) == pc'[r] = "mark" => \A k \in miss'[r] : Ready(dataMap'[k])

\* The steps that neither claim an item nor start a load nor set a next update.
Quiet == /\ clock' = clock /\ SameNext /\ NoNewRefs /\ NoNewClaims /\ NoNewLoads
         /\ \A r \in Readers : MarksDue(r)

\* An item stays ready as long as it is neither claimed nor loaded.
LEMMA ReadyStays ==
    ASSUME NEW i, Ready(i), clock' = clock,
           \A k \in Keys, r \in Readers : Claims(r, k, i)' => Claims(r, k, i),
           \A k \in Keys, l \in Loaders : Loads(l, k, i)' => Loads(l, k, i) /\ load'[l].since = load[l].since
    PROVE  Ready(i)'
  BY DEF Ready

LEMMA QuietStep ==
    ASSUME Types, ReadersOK, ReadersOK', Types', Owned, ClaimsOK, Quiet
    PROVE  Owned' /\ ClaimsOK' /\ MarkOK'
  <1>1. \A l \in Loaders, k \in Keys, i \in Items : Loads(l, k, i)' => Loads(l, k, i) /\ load'[l].since = load[l].since
    BY Constants DEF Quiet, NoNewLoads, Loads
  <1>2. Owned'
    BY DEF Quiet, NoNewRefs, Owned
  <1>3. ClaimsOK'
    <2> SUFFICES ASSUME NEW i \in Items, NEW k \in Keys, NEW h \in Keys
                 PROVE  /\ \A l \in Loaders : Loads(l, k, i)' =>
                             /\ load'[l].since + retryInterval <= item'[i].next
                             /\ \A m \in Loaders : Loads(m, h, i)' /\ l # m => Apart(l, m)'
                        /\ \A r \in Readers : Claims(r, k, i)' =>
                             /\ clock' + retryInterval <= item'[i].next
                             /\ \A q \in Readers : Claims(q, h, i)' => q = r
                             /\ \A l \in Loaders : Loads(l, h, i)' => load'[l].since + retryInterval < clock'
      BY DEF ClaimsOK
    <2> QED BY <1>1 DEF Quiet, SameNext, NoNewClaims, ClaimsOK, Apart
  <1>4. MarkOK'
    <2> SUFFICES ASSUME NEW r \in Readers, pc'[r] = "mark", NEW k \in miss'[r]
                 PROVE  Ready(dataMap[k])'
      BY DEF MarkOK
    <2>1. k \in Keys /\ dataMap'[k] # None
      BY Typed, Constants DEF ReadersOK, ReaderOK, ManyPCs
    <2>2. PICK i \in Items : i = dataMap'[k]
      BY <2>1 DEF Types, Refs
    <2>3. Ready(i)
      BY <2>2 DEF Quiet, MarksDue
    <2>4. Ready(i)'
      BY <1>1, <2>3, ReadyStays DEF Quiet, NoNewClaims
    <2> QED BY <2>2, <2>4
  <1> QED BY <1>2, <1>3, <1>4

\* A step of a reader that is quiet because of what it leaves in the map, in its
\* references and in its claims.
Calm(r) ==
    /\ dataMap' = dataMap /\ NoNewLoads /\ SameNext /\ MarksDue(r)
    /\ \A k \in Keys : refs'[r][k] \in {None, refs[r][k], dataMap[k]}
    /\ \A k \in Keys, i \in Items : Claims(r, k, i)' => Claims(r, k, i)

LEMMA CalmIsQuiet ==
    ASSUME Types, MarkOK, NEW r \in Readers, OnlyReader(r), Calm(r)
    PROVE  Quiet
  <1>1. NoNewClaims
    BY DEF NoNewClaims, Calm, OnlyReader, Claims
  <1>2. NoNewRefs
    <2> SUFFICES ASSUME NEW i \in Items, NEW k \in Keys, Refers(k, i)'
                 PROVE  Refers(k, i)
      BY DEF NoNewRefs
    <2>1. CASE dataMap'[k] = i
      BY <2>1 DEF Calm, Refers
    <2>2. ASSUME NEW q \in Readers, refs'[q][k] = i PROVE Refers(k, i)
      BY <2>2, Constants DEF Calm, OnlyReader, Refers
    <2>3. ASSUME NEW l \in Loaders, Loads(l, k, i)' PROVE Refers(k, i)
      BY <2>3, Constants DEF Calm, NoNewLoads, Loads, Refers
    <2> QED BY <2>1, <2>2, <2>3 DEF Refers
  <1>3. \A q \in Readers : MarksDue(q)
    BY DEF MarksDue, MarkOK, Calm, OnlyReader
  <1> QED BY <1>1, <1>2, <1>3 DEF Quiet, Calm, OnlyReader

LEMMA SameLoads == load' = load => NoNewLoads
  BY DEF NoNewLoads

\* The steps of Get and GetMany that claim nothing and load nothing.
LEMMA GetCalm ==
    ASSUME Types, ReadersOK, NEW r \in Readers, NEW k \in Keys, Get(r, k),
           ~(GetInsert(r, k) /\ Inserts(k)), ~(GetRenew(r, k) /\ Expired(r, refs[r][k]))
    PROVE  Calm(r)
  <1>1. pc'[r] \in GetPCs \cup {"out"} => MarksDue(r) /\ \A h \in Keys, i \in Items : ~Claims(r, h, i)'
    BY DEF GetPCs, MarksDue, Claims
  <1>2. \A h \in Keys, i \in Items \cup {None} : Only(k, i)[h] = IF h = k THEN i ELSE None
    BY DEF Only, NoRefs
  <1>3. CASE GetStart(r, k) \/ GetFind(r, k) \/ GetInsert(r, k) \/ GetCheck(r, k) \/ GetRenew(r, k)
    <2>1. /\ pc'[r] \in GetPCs
          /\ UNCHANGED <<dataMap, item, load>>
          /\ refs'[r] \in {refs[r], Only(k, dataMap[k])}
      BY <1>3 DEF GetStart, GetFind, GetInsert, GetCheck, GetRenew, Goto, locals, Types, GetPCs
    <2>2. dataMap[k] \in Items \cup {None}
      BY Typed
    <2> QED BY <1>1, <1>2, <2>1, <2>2, SameLoads DEF Calm, SameNext
  <1>4. CASE GetSleep(r, k)
    <2>1. pc[r] = "wait" /\ UNCHANGED <<dataMap, item, load, refs, pc>>
      BY <1>4 DEF GetSleep, Sleep
    <2> QED BY <1>1, <2>1, SameLoads DEF Calm, SameNext, GetPCs
  <1>5. CASE GetReturn(r, k)
    <2>1. /\ dataMap' = dataMap /\ Leave(r)
          /\ item' = [item EXCEPT ![refs[r][k]].evict = EvictTime(@, rnow[r])]
      BY <1>5 DEF GetReturn
    <2>2. SameNext
      BY <2>1 DEF SameNext, Types, ItemType
    <2>3. pc'[r] = "out" /\ \A h \in Keys : refs'[r][h] = None
      BY <2>1, LeaveFrame DEF NoRefs
    <2> QED BY <1>1, <2>1, <2>2, <2>3, LeaveLoads DEF Calm
  <1> QED BY <1>3, <1>4, <1>5 DEF Get

LEMMA ManyCalm ==
    ASSUME Types, ReadersOK, ClaimsOK, NEW r \in Readers, GetMany(r),
           ~ManySpawn(r), \A k \in Keys : ~ManyMark(r, k) /\ ~(ManyClaim(r, k) /\ dataMap[k] = None)
    PROVE  Calm(r)
  <1>0. ReaderOK(r)
    BY DEF ReadersOK
  <1>1. pc'[r] \in {"rlock", "scan", "lock", "out"} => MarksDue(r) /\ \A h \in Keys, i \in Items : ~Claims(r, h, i)'
    BY DEF MarksDue, Claims
  <1>2. CASE Leave(r) /\ UNCHANGED <<dataMap, item>>
    <2>1. pc'[r] = "out" /\ \A h \in Keys : refs'[r][h] = None
      BY <1>2, LeaveFrame DEF NoRefs
    <2> QED BY <1>1, <1>2, <2>1, LeaveLoads DEF Calm, SameNext
  <1>3. ASSUME NEW K \in SUBSET ManyKeys \ {{}}, ManyStart(r, K) PROVE Calm(r)
    <2>1. pc'[r] = "rlock" /\ UNCHANGED <<dataMap, item, load, refs>>
      BY <1>3 DEF ManyStart, Goto, Types
    <2> QED BY <1>1, <2>1, SameLoads DEF Calm, SameNext
  <1>4. CASE ManyRLock(r) \/ (ManyScanned(r) /\ ~Leave(r))
    <2>1. pc'[r] \in {"scan", "lock"} /\ UNCHANGED <<dataMap, item, load, refs>>
      BY <1>4 DEF ManyRLock, ManyScanned, Goto, locals, Types
    <2> QED BY <1>1, <2>1, SameLoads DEF Calm, SameNext
  <1>5. ASSUME NEW k \in Keys, ManyScan(r, k) PROVE Calm(r)
    <2>1. /\ pc[r] = "scan" /\ UNCHANGED <<dataMap, load, refs, pc>>
          /\ item' = IF dataMap[k] = None THEN item
                     ELSE [item EXCEPT ![dataMap[k]].evict = EvictTime(@, rnow[r])]
      BY <1>5 DEF ManyScan
    <2>2. SameNext
      BY <2>1 DEF SameNext, Types, ItemType
    <2> QED BY <1>1, <2>1, <2>2, SameLoads DEF Calm
  <1>6. CASE ManyLock(r)
    <2>1. pc'[r] = "claim" /\ pc[r] = "lock" /\ UNCHANGED <<dataMap, item, load, refs>>
      BY <1>6 DEF ManyLock, Goto, Types
    <2>2. \A h \in Keys : refs[r][h] = None
      BY <1>0, <2>1 DEF ReaderOK, NoRefs
    <2>3. \A h \in Keys, i \in Items : ~Claims(r, h, i)'
      BY <2>1, <2>2, Constants DEF Claims
    <2> QED BY <2>1, <2>3, SameLoads DEF Calm, SameNext, MarksDue
  <1>7. ASSUME NEW k \in Keys, ManyClaim(r, k) PROVE Calm(r)
    <2>1. /\ pc[r] = "claim" /\ UNCHANGED <<dataMap, item, load, refs>>
          /\ \/ pc'[r] = "claim"
             \/ pc'[r] = "mark" /\ miss'[r] = {k} /\ Expired(r, dataMap[k])
      BY <1>7 DEF ManyClaim, Goto, Types
    <2>2. pc'[r] = "mark" => dataMap[k] \in Items /\ clock > item[dataMap[k]].next
      BY <1>0, <1>7, <2>1, Typed DEF ManyClaim, Goto, Types, ReaderOK, Prompt, Expired
    <2>3. MarksDue(r)
      BY <2>1, <2>2, DueIsReady DEF MarksDue
    <2> QED BY <2>1, <2>3, SameLoads DEF Calm, SameNext, Claims
  <1>8. CASE ManyUnlock(r) /\ ~Leave(r)
    <2>1. pc[r] = "claim" /\ pc'[r] = "spawn" /\ UNCHANGED <<dataMap, item, load, refs>>
      BY <1>8 DEF ManyUnlock, Goto, locals, Types
    <2> QED BY <2>1, SameLoads DEF Calm, SameNext, MarksDue, Claims
  <1>9. CASE ManySleep(r)
    <2>1. pc[r] = "spawn" /\ UNCHANGED <<dataMap, item, load, refs, pc, todo>>
      BY <1>9 DEF ManySleep, Sleep
    <2> QED BY <2>1, SameLoads DEF Calm, SameNext, MarksDue, Claims
  <1>10. ManyScanned(r) \/ ManyUnlock(r) \/ ManyReturn(r) => UNCHANGED <<dataMap, item>>
    BY DEF ManyScanned, ManyUnlock, ManyReturn
  <1>11. ManyReturn(r) => Leave(r)
    BY DEF ManyReturn
  <1> QED BY <1>2, <1>3, <1>4, <1>5, <1>6, <1>7, <1>8, <1>9, <1>10, <1>11 DEF GetMany

\* The steps in the background that store nothing in an item.
LEMMA BackgroundQuiet ==
    ASSUME Types, MarkOK, NoNewLoads, UNCHANGED <<clock, item, pc, refs, todo, miss>>,
           dataMap' = dataMap \/ (EvictDelete /\ Lockable)
    PROVE  Quiet
  <1>1. \A k \in Keys : dataMap'[k] \in {dataMap[k], None}
    BY DEF EvictDelete
  <1>2. NoNewRefs
    BY <1>1, Constants DEF NoNewRefs, Refers, NoNewLoads, Loads
  <1>3. \A r \in Readers : MarksDue(r)
    BY DEF MarksDue, MarkOK, Lockable, RLockable
  <1> QED BY <1>2, <1>3 DEF Quiet, SameNext, NoNewClaims, Claims

\* What a step does that starts a load of item i for key k, or claims it, when it
\* may be claimed: the references it adds are to i, and the next update of i is
\* the retry interval away.
Takes(k, i) ==
    /\ i \in Items /\ k \in Keys /\ clock' = clock
    /\ \A h \in Keys, j \in Items : j # i =>
         /\ item'[j].next = item[j].next
         /\ Refers(h, j)' => Refers(h, j)
         /\ \A r \in Readers : Claims(r, h, j)' => Claims(r, h, j)
         /\ \A l \in Loaders : Loads(l, h, j)' => Loads(l, h, j) /\ load'[l].since = load[l].since
    /\ item'[i].next = clock + retryInterval
    /\ \A h \in Keys : Refers(h, i)' => h = k
    /\ \E n : \A l \in Loaders : Loads(l, k, i)' =>
         \/ l = n /\ load'[l].since = clock /\ \A r \in Readers : ~Claims(r, k, i)'
         \/ Loads(l, k, i) /\ load'[l].since = load[l].since /\ load[l].since + retryInterval < clock
    /\ \A r, q \in Readers : Claims(r, k, i)' /\ Claims(q, k, i)' => r = q

LEMMA TakesStep ==
    ASSUME Types, Owned, ClaimsOK, NEW k, NEW i, Takes(k, i)
    PROVE  Owned' /\ ClaimsOK'
  <1>0. clock \in Nat /\ retryInterval \in Nat /\ \A l \in Loaders : load[l] # None => load[l].since \in Nat
    BY Typed, Constants
  <1>1. \A h \in Keys, j \in Items : \A l \in Loaders : Loads(l, h, j)' => Refers(h, j)'
    BY DEF Refers
  <1>2. \A h \in Keys, j \in Items : \A r \in Readers : Claims(r, h, j)' => Refers(h, j)'
    BY DEF Refers, Claims
  <1>3. Owned'
    BY DEF Owned, Takes
  <1>4. ClaimsOK'
    <2> SUFFICES ASSUME NEW j \in Items, NEW g \in Keys, NEW h \in Keys
                 PROVE  /\ \A l \in Loaders : Loads(l, g, j)' =>
                             /\ load'[l].since + retryInterval <= item'[j].next
                             /\ \A m \in Loaders : Loads(m, h, j)' /\ l # m => Apart(l, m)'
                        /\ \A r \in Readers : Claims(r, g, j)' =>
                             /\ clock' + retryInterval <= item'[j].next
                             /\ \A q \in Readers : Claims(q, h, j)' => q = r
                             /\ \A l \in Loaders : Loads(l, h, j)' => load'[l].since + retryInterval < clock'
      BY DEF ClaimsOK
    <2>1. CASE j = i
      <3>1. PICK n : \A l \in Loaders : Loads(l, k, i)' =>
              \/ l = n /\ load'[l].since = clock /\ \A r \in Readers : ~Claims(r, k, i)'
              \/ Loads(l, k, i) /\ load'[l].since = load[l].since /\ load[l].since + retryInterval < clock
        BY DEF Takes
      <3>2. /\ \A l \in Loaders : Loads(l, g, i)' => g = k
            /\ \A l \in Loaders : Loads(l, h, i)' => h = k
            /\ \A r \in Readers : Claims(r, g, i)' => g = k
            /\ \A r \in Readers : Claims(r, h, i)' => h = k
        BY <1>1, <1>2 DEF Takes
      <3>3. ASSUME NEW l \in Loaders, Loads(l, g, i)'
            PROVE  /\ load'[l].since + retryInterval <= clock + retryInterval
                   /\ \A m \in Loaders : Loads(m, h, i)' /\ l # m => Apart(l, m)'
        <4>1. load'[l].since + retryInterval <= clock + retryInterval
          BY <1>0, <3>1, <3>2, <3>3 DEF Loads
        <4>2. ASSUME NEW m \in Loaders, Loads(m, h, i)', l # m PROVE Apart(l, m)'
          <5>1. Loads(l, k, i)' /\ Loads(m, k, i)'
            BY <3>2, <3>3, <4>2
          <5>2. CASE Loads(l, k, i) /\ Loads(m, k, i) /\ load'[l].since = load[l].since /\ load'[m].since = load[m].since
            BY <4>2, <5>2, <2>1 DEF Takes, ClaimsOK, Apart
          <5>3. CASE l = n \/ m = n
            BY <3>1, <4>2, <5>1, <5>2, <5>3 DEF Apart
          <5> QED BY <3>1, <5>1, <5>2, <5>3
        <4> QED BY <4>1, <4>2
      <3>4. ASSUME NEW r \in Readers, Claims(r, g, i)'
            PROVE  /\ \A q \in Readers : Claims(q, h, i)' => q = r
                   /\ \A l \in Loaders : Loads(l, h, i)' => load'[l].since + retryInterval < clock
        BY <3>1, <3>2, <3>4 DEF Takes
      <3> QED BY <1>0, <2>1, <3>3, <3>4 DEF Takes
    <2>2. CASE j # i
      BY <2>2 DEF Takes, ClaimsOK, Apart
    <2> QED BY <2>1, <2>2
  <1> QED BY <1>3, <1>4

LEMMA InsertTakes ==
    ASSUME Types, ReadersOK, NEW r \in Readers, NEW k \in Keys, GetInsert(r, k), Inserts(k)
    PROVE  (\E i \in Items : Takes(k, i)) /\ MarkOK'
  <1>1. PICK i \in Items : /\ Unused(i) /\ item' = [item EXCEPT ![i] = NewItem(rnow[r])]
                           /\ dataMap' = [dataMap EXCEPT ![k] = i]
                           /\ refs' = [refs EXCEPT ![r] = Only(k, i)]
                           /\ Spawn(Only(k, i), None)
    BY DEF GetInsert
  <1>2. PICK n \in Loaders : /\ load[n] = None /\ load'[n].refs = Only(k, i) /\ load'[n].since = clock
                             /\ \A l \in Loaders : l # n => load'[l] = load[l]
    BY <1>1, SpawnFacts
  <1>3. /\ clock' = clock /\ pc'[r] = "check" /\ todo' = todo
        /\ \A q \in Readers : q # r => pc'[q] = pc[q] /\ refs'[q] = refs[q] /\ pc[q] \notin {"claim", "mark"}
    BY DEF GetInsert, Goto, Types, Lockable, RLockable
  <1>4. /\ \A h \in Keys : dataMap'[h] = (IF h = k THEN i ELSE dataMap[h])
        /\ \A h \in Keys : refs'[r][h] = (IF h = k THEN i ELSE None)
        /\ \A h \in Keys : load'[n].refs[h] = (IF h = k THEN i ELSE None)
    BY <1>1, <1>2 DEF Types, Refs, Only, NoRefs
  <1>5. /\ \A j \in Items : j # i => item'[j].next = item[j].next
        /\ item'[i].next = clock + retryInterval
    <2>1. rnow[r] = clock
      BY DEF GetInsert, ReadersOK, ReaderOK, Prompt
    <2> QED BY <1>1, <2>1 DEF Types, NewItem
  <1>6. \A h \in Keys : ~Refers(h, i)
    BY <1>1, UnusedIsFree
  <1>7. \A h \in Keys, j \in Items, l \in Loaders :
          Loads(l, h, j)' => (Loads(l, h, j) /\ load'[l].since = load[l].since) \/ (l = n /\ h = k /\ j = i)
    BY <1>2, <1>4, Constants DEF Loads
  <1>8. \A h \in Keys, j \in Items, q \in Readers : Claims(q, h, j)' => Claims(q, h, j)
    BY <1>3 DEF Claims
  <1>9. \A h \in Keys, j \in Items : Refers(h, j)' => Refers(h, j) \/ (h = k /\ j = i)
    BY <1>3, <1>4, <1>7, Constants DEF Refers
  <1>10. /\ \A q \in Readers, h \in Keys : ~Claims(q, h, i)
         /\ \A l \in Loaders, h \in Keys : ~Loads(l, h, i)
    BY <1>6 DEF Refers, Claims
  <1>11. Takes(k, i)
    <2>1. \A l \in Loaders : Loads(l, k, i)' => l = n
      BY <1>7, <1>10
    <2> QED BY <1>2, <1>3, <1>5, <1>6, <1>7, <1>8, <1>9, <1>10, <2>1 DEF Takes
  <1> QED BY <1>3, <1>11 DEF MarkOK

LEMMA RenewTakes ==
    ASSUME Regime, CacheInv, NEW r \in Readers, NEW k \in Keys, GetRenew(r, k), Expired(r, refs[r][k])
    PROVE  (\E i \in Items : Takes(k, i)) /\ MarkOK'
  <1>0. Types /\ ReadersOK /\ LoadsOK /\ Owned /\ ClaimsOK /\ MarkOK /\ ReaderOK(r)
    BY DEF CacheInv, ReadersOK
  <1>1. PICK i \in Items : i = refs[r][k] /\ clock > item[i].next /\ rnow[r] = clock /\ k \in GetKeys
    BY <1>0, Typed DEF GetRenew, ReaderOK, Prompt, Expired, GetPCs
  <1>2. /\ item' = [item EXCEPT ![i].next = rnow[r] + retryInterval] /\ Spawn(Only(k, i), None)
        /\ UNCHANGED <<clock, dataMap, refs, todo, miss>> /\ pc'[r] = "wait"
        /\ \A q \in Readers : q # r => pc'[q] = pc[q]
    BY <1>0, <1>1 DEF GetRenew, RetryAt, Goto, locals, Types
  <1>3. PICK n \in Loaders : /\ load[n] = None /\ load'[n].refs = Only(k, i) /\ load'[n].since = clock
                             /\ \A l \in Loaders : l # n => load'[l] = load[l]
    BY <1>0, <1>2, SpawnFacts
  <1>4. \A h \in Keys : load'[n].refs[h] = IF h = k THEN i ELSE None
    BY <1>3 DEF Only, NoRefs
  <1>5. /\ \A j \in Items : j # i => item'[j].next = item[j].next
        /\ item'[i].next = clock + retryInterval
    BY <1>0, <1>1, <1>2 DEF Types, ItemType
  <1>6. Ready(i) /\ Refers(k, i)
    BY <1>0, <1>1, DueIsReady DEF Refers
  <1>7. \A h \in Keys, j \in Items, l \in Loaders :
          Loads(l, h, j)' => (Loads(l, h, j) /\ load'[l].since = load[l].since) \/ (l = n /\ h = k /\ j = i)
    BY <1>3, <1>4, Constants DEF Loads
  <1>8. \A h \in Keys, j \in Items, q \in Readers : Claims(q, h, j)' => Claims(q, h, j)
    BY <1>2 DEF Claims
  <1>9. \A h \in Keys, j \in Items : Refers(h, j)' => Refers(h, j) \/ (h = k /\ j = i)
    BY <1>2, <1>7 DEF Refers
  <1>10. \A h \in Keys : Refers(h, i) => h = k
    BY <1>0, <1>1, <1>6 DEF Owned
  <1>11. Takes(k, i)
    <2>1. \A q \in Readers : ~Claims(q, k, i)'
      BY <1>6, <1>8 DEF Ready
    <2>2. \A l \in Loaders : Loads(l, k, i)' =>
            \/ l = n /\ load'[l].since = clock
            \/ Loads(l, k, i) /\ load'[l].since = load[l].since /\ load[l].since + retryInterval < clock
      BY <1>3, <1>6, <1>7 DEF Ready
    <2>3. \A h \in Keys : Refers(h, i)' => h = k
      BY <1>9, <1>10
    <2>4. \A h \in Keys, j \in Items, l \in Loaders : j # i /\ Loads(l, h, j)' =>
            Loads(l, h, j) /\ load'[l].since = load[l].since
      BY <1>7
    <2> QED BY <1>1, <1>2, <1>5, <1>8, <1>9, <2>1, <2>2, <2>3, <2>4 DEF Takes
  \* What GetMany is marking is another key's, and so another item.
  <1>12. MarkOK'
    <2> SUFFICES ASSUME NEW q \in Readers, pc'[q] = "mark", NEW h \in miss'[q]
                 PROVE  Ready(dataMap[h])'
      BY DEF MarkOK
    <2>1. pc[q] = "mark" /\ h \in miss[q]
      BY <1>2
    <2>2. h \in ManyKeys /\ dataMap[h] # None
      BY <1>0, <2>1 DEF ReadersOK, ReaderOK, ManyPCs
    <2>3. PICK j \in Items : j = dataMap[h] /\ j # i
      BY <1>0, <1>1, <1>10, <2>2, Constants, Typed DEF Regime, Refers
    <2>4. Ready(j)'
      BY <1>0, <1>2, <1>7, <1>8, <2>1, <2>3, ReadyStays DEF MarkOK
    <2> QED BY <1>2, <2>3, <2>4
  <1> QED BY <1>1, <1>11, <1>12

LEMMA ClaimTakes ==
    ASSUME CacheInv, NEW r \in Readers, NEW k \in Keys, ManyClaim(r, k), dataMap[k] = None
    PROVE  (\E i \in Items : Takes(k, i)) /\ MarkOK'
  <1>0. Types /\ ReadersOK /\ ReaderOK(r)
    BY DEF CacheInv, ReadersOK
  <1>1. PICK i \in Items : /\ Unused(i) /\ item' = [item EXCEPT ![i] = NewItem(rnow[r])]
                           /\ dataMap' = [dataMap EXCEPT ![k] = i]
                           /\ refs' = [refs EXCEPT ![r][k] = i]
    BY DEF ManyClaim
  <1>2. /\ UNCHANGED <<clock, load, pc, miss>> /\ pc[r] = "claim" /\ rnow[r] = clock
        /\ \A q \in Readers : q # r => pc[q] \notin {"claim", "mark"} /\ todo'[q] = todo[q] /\ refs'[q] = refs[q]
    <2>1. /\ UNCHANGED <<clock, load, pc, miss>> /\ pc[r] = "claim"
          /\ todo' = [todo EXCEPT ![r] = @ \ {k}]
      BY DEF ManyClaim
    <2>2. rnow[r] = clock
      BY <1>0, <2>1 DEF ReaderOK, Prompt
    <2>3. \A q \in Readers : q # r => pc[q] \notin {"claim", "mark"}
      BY <1>0, <2>1 DEF ReadersOK
    <2> QED BY <1>0, <1>1, <2>1, <2>2, <2>3 DEF Types
  <1>3. /\ \A h \in Keys : dataMap'[h] = (IF h = k THEN i ELSE dataMap[h])
        /\ \A h \in Keys : refs'[r][h] = (IF h = k THEN i ELSE refs[r][h])
    BY <1>0, <1>1 DEF Types, Refs
  <1>4. /\ \A j \in Items : j # i => item'[j].next = item[j].next
        /\ item'[i].next = clock + retryInterval
    BY <1>0, <1>1, <1>2 DEF Types, NewItem
  <1>5. \A h \in Keys : ~Refers(h, i)
    BY <1>1, UnusedIsFree
  <1>6. \A h \in Keys, j \in Items, l \in Loaders : Loads(l, h, j)' => Loads(l, h, j) /\ load'[l].since = load[l].since
    BY <1>2 DEF Loads
  <1>7. \A h \in Keys, j \in Items, q \in Readers : Claims(q, h, j)' => Claims(q, h, j) \/ (q = r /\ h = k /\ j = i)
    BY <1>2, <1>3 DEF Claims
  <1>8. \A h \in Keys, j \in Items : Refers(h, j)' => Refers(h, j) \/ (h = k /\ j = i)
    BY <1>2, <1>3, <1>6 DEF Refers
  <1>9. /\ \A q \in Readers, h \in Keys : ~Claims(q, h, i)
        /\ \A l \in Loaders, h \in Keys : ~Loads(l, h, i)
    BY <1>5 DEF Refers, Claims
  <1>10. Takes(k, i)
    <2>1. \A l \in Loaders : ~Loads(l, k, i)'
      BY <1>6, <1>9
    <2>2. \A q \in Readers : Claims(q, k, i)' => q = r
      BY <1>7, <1>9
    <2>3. \A h \in Keys : Refers(h, i)' => h = k
      BY <1>5, <1>8
    <2>4. \A h \in Keys, j \in Items : j # i =>
            /\ Refers(h, j)' => Refers(h, j)
            /\ \A q \in Readers : Claims(q, h, j)' => Claims(q, h, j)
      BY <1>7, <1>8
    <2> QED BY <1>2, <1>4, <1>6, <2>1, <2>2, <2>3, <2>4 DEF Takes
  <1> QED BY <1>2, <1>10 DEF MarkOK

LEMMA MarkTakes ==
    ASSUME CacheInv, NEW r \in Readers, NEW k \in Keys, ManyMark(r, k)
    PROVE  (\E i \in Items : Takes(k, i)) /\ MarkOK'
  <1>0. Types /\ ReadersOK /\ LoadsOK /\ Owned /\ ClaimsOK /\ MarkOK /\ ReaderOK(r)
    BY DEF CacheInv, ReadersOK
  <1>1. PICK i \in Items : i = dataMap[k] /\ Ready(i) /\ rnow[r] = clock
    BY <1>0, Typed DEF ManyMark, ReaderOK, Prompt, MarkOK
  <1>2. /\ item' = [item EXCEPT ![i].next = rnow[r] + retryInterval]
        /\ refs' = [refs EXCEPT ![r][k] = i]
        /\ UNCHANGED <<clock, dataMap, load, miss>> /\ pc[r] = "mark" /\ pc'[r] = "claim"
    BY <1>0, <1>1 DEF ManyMark, RetryAt, Goto, Types
  <1>3. \A q \in Readers : q # r => /\ pc'[q] = pc[q] /\ pc[q] \notin {"claim", "mark"}
                                    /\ todo'[q] = todo[q] /\ refs'[q] = refs[q]
    BY <1>0, <1>2 DEF ManyMark, Goto, Types, ReadersOK
  <1>4. \A h \in Keys : refs'[r][h] = (IF h = k THEN i ELSE refs[r][h])
    BY <1>0, <1>2 DEF Types, Refs
  <1>5. /\ \A j \in Items : j # i => item'[j].next = item[j].next
        /\ item'[i].next = clock + retryInterval
    BY <1>0, <1>1, <1>2 DEF Types, ItemType
  <1>6. k \in Keys /\ Refers(k, i)
    BY <1>1 DEF Refers
  <1>7. \A h \in Keys, j \in Items, l \in Loaders : Loads(l, h, j)' => Loads(l, h, j) /\ load'[l].since = load[l].since
    BY <1>2 DEF Loads
  <1>8. \A h \in Keys, j \in Items, q \in Readers : Claims(q, h, j)' => Claims(q, h, j) \/ (q = r /\ h = k /\ j = i)
    BY <1>2, <1>3, <1>4 DEF Claims
  <1>9. \A h \in Keys, j \in Items : Refers(h, j)' => Refers(h, j) \/ (h = k /\ j = i)
    BY <1>2, <1>3, <1>4, <1>7 DEF Refers
  <1>10. \A h \in Keys : Refers(h, i) => h = k
    BY <1>0, <1>1, <1>6 DEF Owned
  <1>11. Takes(k, i)
    <2>1. \A q \in Readers : Claims(q, k, i)' => q = r
      BY <1>1, <1>8 DEF Ready
    <2>2. \A l \in Loaders : Loads(l, k, i)' =>
            Loads(l, k, i) /\ load'[l].since = load[l].since /\ load[l].since + retryInterval < clock
      BY <1>1, <1>7 DEF Ready
    <2>3. \A h \in Keys : Refers(h, i)' => h = k
      BY <1>9, <1>10
    <2>4. \A h \in Keys, j \in Items, q \in Readers : j # i /\ Claims(q, h, j)' => Claims(q, h, j)
      BY <1>8
    <2>5. \A h \in Keys, j \in Items : j # i /\ Refers(h, j)' => Refers(h, j)
      BY <1>9
    <2> QED BY <1>1, <1>2, <1>5, <1>7, <2>1, <2>2, <2>3, <2>4, <2>5 DEF Takes
  <1> QED BY <1>1, <1>2, <1>3, <1>11 DEF MarkOK

\* The load of what has been claimed starts: a claim becomes a load.
LEMMA SpawnStep ==
    ASSUME CacheInv, NEW r \in Readers, ManySpawn(r)
    PROVE  Owned' /\ ClaimsOK' /\ MarkOK'
  <1>0. Types /\ ReadersOK /\ ReaderOK(r) /\ Owned /\ ClaimsOK /\ MarkOK
    BY DEF CacheInv, ReadersOK
  <1>1. /\ UNCHANGED <<clock, dataMap, item, pc, miss, refs>> /\ pc[r] = "spawn"
        /\ \A q \in Readers : q # r => todo'[q] = todo[q]
        /\ todo'[r] \subseteq todo[r]
    BY <1>0 DEF ManySpawn, locals, Types
  <1>2. PICK m : /\ Starts(m)
                 /\ \A h \in Keys, j \in Items : m[h] = j => refs[r][h] = j /\ h \in todo[r] /\ h \notin todo'[r]
    <2>1. CASE Batch /\ Spawn(refs[r], r) /\ todo' = [todo EXCEPT ![r] = {}]
      <3>1. \A h \in Keys, j \in Items : refs[r][h] = j => h \in todo[r]
        BY <1>0, <1>1, <2>1, Constants DEF ReaderOK, ManySpawn
      <3> QED BY <1>0, <2>1, <3>1 DEF Starts, Types
    <2>2. ASSUME NEW k \in todo[r], Spawn(Only(k, refs[r][k]), None), todo' = [todo EXCEPT ![r] = @ \ {k}]
          PROVE  \E m : /\ Starts(m)
                        /\ \A h \in Keys, j \in Items : m[h] = j => refs[r][h] = j /\ h \in todo[r] /\ h \notin todo'[r]
      <3>1. \A h \in Keys, j \in Items : Only(k, refs[r][k])[h] = j => h = k /\ refs[r][k] = j
        BY Constants DEF Only, NoRefs
      <3> QED BY <1>0, <2>2, <3>1 DEF Starts, Types
    <2> QED BY <2>1, <2>2 DEF ManySpawn
  <1>3. PICK n \in Loaders : /\ load[n] = None /\ load'[n].refs = m /\ load'[n].since = clock
                             /\ \A l \in Loaders : l # n => load'[l] = load[l]
    BY <1>0, <1>2, SpawnFacts DEF Starts
  <1>4. \A h \in Keys, j \in Items, q \in Readers : Claims(q, h, j)' => Claims(q, h, j)
    BY <1>1 DEF Claims
  <1>5. \A h \in Keys, j \in Items, l \in Loaders :
          Loads(l, h, j)' => \/ l # n /\ Loads(l, h, j) /\ load'[l].since = load[l].since
                             \/ l = n /\ load'[l].since = clock /\ Claims(r, h, j) /\ ~Claims(r, h, j)'
    BY <1>1, <1>2, <1>3 DEF Loads, Claims
  <1>6. \A h \in Keys, j \in Items : Refers(h, j)' => Refers(h, j)
    BY <1>1, <1>5 DEF Refers, Claims
  <1>7. ClaimsOK'
    <2> SUFFICES ASSUME NEW j \in Items, NEW g \in Keys, NEW h \in Keys
                 PROVE  /\ \A l \in Loaders : Loads(l, g, j)' =>
                             /\ load'[l].since + retryInterval <= item'[j].next
                             /\ \A p \in Loaders : Loads(p, h, j)' /\ l # p => Apart(l, p)'
                        /\ \A q \in Readers : Claims(q, g, j)' =>
                             /\ clock' + retryInterval <= item'[j].next
                             /\ \A p \in Readers : Claims(p, h, j)' => p = q
                             /\ \A l \in Loaders : Loads(l, h, j)' => load'[l].since + retryInterval < clock'
      BY DEF ClaimsOK
    <2>1. ASSUME NEW l \in Loaders, Loads(l, g, j)'
          PROVE  /\ load'[l].since + retryInterval <= item'[j].next
                 /\ \A p \in Loaders : Loads(p, h, j)' /\ l # p => Apart(l, p)'
      <3>1. load'[l].since + retryInterval <= item'[j].next
        BY <1>0, <1>1, <1>5, <2>1 DEF ClaimsOK
      <3>2. ASSUME NEW p \in Loaders, Loads(p, h, j)', l # p PROVE Apart(l, p)'
        BY <1>0, <1>5, <2>1, <3>2 DEF ClaimsOK, Apart
      <3> QED BY <3>1, <3>2
    <2>2. ASSUME NEW q \in Readers, Claims(q, g, j)'
          PROVE  /\ clock' + retryInterval <= item'[j].next
                 /\ \A p \in Readers : Claims(p, h, j)' => p = q
                 /\ \A l \in Loaders : Loads(l, h, j)' => load'[l].since + retryInterval < clock'
      <3>1. Claims(q, g, j)
        BY <1>4, <2>2
      <3>2. Claims(q, h, j) => g = h
        BY <1>0, <3>1 DEF Owned, Refers, Claims
      <3> QED BY <1>0, <1>1, <1>4, <1>5, <2>2, <3>1, <3>2 DEF ClaimsOK
    <2> QED BY <2>1, <2>2
  <1>8. Owned'
    BY <1>0, <1>6 DEF Owned
  \* What another GetMany is marking is not claimed, so it is not what is loaded.
  <1>9. MarkOK'
    <2> SUFFICES ASSUME NEW q \in Readers, pc'[q] = "mark", NEW h \in miss'[q]
                 PROVE  Ready(dataMap[h])'
      BY DEF MarkOK
    <2>1. pc[q] = "mark" /\ h \in miss[q]
      BY <1>1
    <2>2. h \in Keys /\ dataMap[h] # None
      BY <1>0, <2>1, Typed DEF ReadersOK, ReaderOK
    <2>3. PICK j \in Items : j = dataMap[h] /\ Ready(j)
      BY <1>0, <2>1, <2>2, Typed DEF MarkOK
    <2>4. \A g \in Keys, l \in Loaders : Loads(l, g, j)' => Loads(l, g, j) /\ load'[l].since = load[l].since
      BY <1>5, <2>3 DEF Ready
    <2>5. Ready(j)'
      BY <1>1, <1>4, <2>3, <2>4, ReadyStays
    <2> QED BY <1>1, <2>3, <2>5
  <1> QED BY <1>7, <1>8, <1>9

\* A load that is done with an item makes it due no earlier than the retry interval
\* from now, unless nothing else loads it or has claimed it.
LEMMA ApplyNext ==
    ASSUME Regime, CacheInv, NEW l \in Loaders, NEW k \in Keys, LoadApply(l, k),
           NEW i \in Items, i = load[l].refs[k]
    PROVE  \/ clock + retryInterval <= item'[i].next
           \/ \A h \in Keys : /\ \A m \in Loaders : Loads(m, h, i) => m = l
                              /\ \A r \in Readers : ~Claims(r, h, i)
  <1>0. /\ Types /\ LoadsOK /\ ClaimsOK /\ load[l] # None /\ load[l].end # None /\ Loads(l, k, i)
        /\ load[l] \in JobType /\ item[i] \in ItemType
    BY Typed DEF CacheInv, LoadApply, Loads, Types
  <1>n. /\ clock \in Nat /\ retryInterval \in Nat /\ MaxLoad \in Nat /\ expiration \in Nat
        /\ \A m \in Loaders : load[m] # None => load[m].since \in Nat
    BY <1>0, Typed, Constants
  <1>1. CASE Lasting
    <2>1. expirationOnErr \in Nat /\ (expirationOnErr = 0 \/ expirationOnErr >= retryInterval)
      BY <1>0, <1>1, MapAssumption DEF Lasting, Types, expirationOnErr
    <2>2. /\ load[l].end = clock
          /\ load[l].expire = expiration \/ (expirationOnErr > 0 /\ load[l].expire = expirationOnErr)
      BY <1>0 DEF LoadsOK
    <2>3. item'[i].next = load[l].end + load[l].expire
      BY <1>0 DEF LoadApply, Updated, Types, ItemType
    <2> QED BY <1>n, <1>1, <2>1, <2>2, <2>3 DEF Lasting
  <1>2. CASE MaxLoad < retryInterval
    <2>1. ASSUME NEW h \in Keys, NEW m \in Loaders, Loads(m, h, i) PROVE m = l
      BY <1>0, <1>n, <1>2, <2>1 DEF LoadsOK, ClaimsOK, Loads, Apart
    <2>2. ASSUME NEW h \in Keys, NEW r \in Readers, Claims(r, h, i) PROVE FALSE
      BY <1>0, <1>n, <1>2, <2>2 DEF LoadsOK, ClaimsOK, Loads
    <2> QED BY <2>1, <2>2
  <1> QED BY <1>1, <1>2 DEF Regime

LEMMA ApplyStep ==
    ASSUME Regime, CacheInv, NEW l \in Loaders, NEW k \in Keys, LoadApply(l, k)
    PROVE  Owned' /\ ClaimsOK' /\ MarkOK'
  <1>0. Types /\ ReadersOK /\ LoadsOK /\ Owned /\ ClaimsOK /\ MarkOK
    BY DEF CacheInv
  <1>n. /\ clock \in Nat /\ retryInterval \in Nat
        /\ \A m \in Loaders : load[m] # None => load[m].since \in Nat
    BY <1>0, Typed, Constants
  <1>1. PICK i \in Items : i = load[l].refs[k] /\ Loads(l, k, i) /\ Refers(k, i)
    BY <1>0, Typed DEF LoadApply, Loads, Refers
  <1>2. /\ item' = [item EXCEPT ![i] = Updated(@, load[l])]
        /\ UNCHANGED <<clock, dataMap, pc, refs, todo, miss>>
    BY <1>1 DEF LoadApply, locals
  <1>3. /\ load'[l].refs[k] = None
        /\ \A m \in Loaders, h \in Keys, j \in Items :
             Loads(m, h, j)' => Loads(m, h, j) /\ load'[m].since = load[m].since
    <2>1. load[l] \in JobType /\ load' = [load EXCEPT ![l].refs[k] = None]
      BY <1>0, Typed DEF LoadApply
    <2>2. /\ load'[l].refs = [load[l].refs EXCEPT ![k] = None] /\ load'[l].since = load[l].since
          /\ \A m \in Loaders : m # l => load'[m] = load[m]
      BY <1>0, <2>1 DEF Types, JobType
    <2>3. load[l].refs \in Refs /\ load[l] # None
      BY <1>1, <2>1 DEF JobType, Loads
    <2> QED BY <2>2, <2>3, Constants DEF Loads, Refs
  \* The load is done with the item: it had it under one key only.
  <1>4. \A m \in Loaders, h \in Keys : Loads(m, h, i)' => m # l
    <2>1. \A h \in Keys : Loads(l, h, i) => h = k
      BY <1>0, <1>1 DEF Owned, Refers
    <2> QED BY <1>1, <1>3, <2>1, Constants DEF Loads
  <1>5. \A j \in Items : j # i => item'[j] = item[j]
    BY <1>0, <1>2 DEF Types
  <1>6. \A q \in Readers, h \in Keys, j \in Items : Claims(q, h, j)' = Claims(q, h, j)
    BY <1>2 DEF Claims
  <1>7. Owned'
    BY <1>0, <1>2, <1>3 DEF Owned, Refers
  <1>8. ClaimsOK'
    <2> SUFFICES ASSUME NEW j \in Items, NEW g \in Keys, NEW h \in Keys
                 PROVE  /\ \A m \in Loaders : Loads(m, g, j)' =>
                             /\ load'[m].since + retryInterval <= item'[j].next
                             /\ \A p \in Loaders : Loads(p, h, j)' /\ m # p => Apart(m, p)'
                        /\ \A q \in Readers : Claims(q, g, j)' =>
                             /\ clock' + retryInterval <= item'[j].next
                             /\ \A p \in Readers : Claims(p, h, j)' => p = q
                             /\ \A m \in Loaders : Loads(m, h, j)' => load'[m].since + retryInterval < clock'
      BY DEF ClaimsOK
    <2>1. ASSUME NEW m \in Loaders, Loads(m, g, j)' PROVE load'[m].since + retryInterval <= item'[j].next
      <3>1. load[m].since <= clock /\ load'[m].since = load[m].since /\ load[m].since \in Nat
        BY <1>0, <1>n, <1>3, <2>1 DEF LoadsOK, Loads
      <3>2. CASE j # i
        BY <1>0, <1>3, <1>5, <2>1, <3>2 DEF ClaimsOK
      <3>3. CASE j = i
        <4>1. clock + retryInterval <= item'[i].next
          BY <1>1, <1>3, <1>4, <2>1, <3>3, ApplyNext
        <4>2. item'[i].next \in Int
          BY TypeStep, <1>0, <1>1, LoadTyped DEF Load, Types, ItemType
        <4> QED BY <1>n, <3>1, <3>3, <4>1, <4>2
      <3> QED BY <3>2, <3>3
    <2>2. ASSUME NEW m \in Loaders, NEW p \in Loaders, Loads(m, g, j)', Loads(p, h, j)', m # p PROVE Apart(m, p)'
      BY <1>0, <1>3, <2>2 DEF ClaimsOK, Apart
    <2>3. ASSUME NEW q \in Readers, Claims(q, g, j)'
          PROVE  /\ clock' + retryInterval <= item'[j].next
                 /\ \A p \in Readers : Claims(p, h, j)' => p = q
                 /\ \A m \in Loaders : Loads(m, h, j)' => load'[m].since + retryInterval < clock'
      <3>1. clock' + retryInterval <= item'[j].next
        <4>1. CASE j # i
          BY <1>0, <1>2, <1>5, <1>6, <2>3, <4>1 DEF ClaimsOK
        <4>2. CASE j = i
          BY <1>1, <1>2, <1>6, <2>3, <4>2, ApplyNext
        <4> QED BY <4>1, <4>2
      <3> QED BY <1>0, <1>2, <1>3, <1>6, <2>3, <3>1 DEF ClaimsOK
    <2> QED BY <2>1, <2>2, <2>3
  <1>9. MarkOK'
    <2> SUFFICES ASSUME NEW q \in Readers, pc'[q] = "mark", NEW h \in miss'[q]
                 PROVE  Ready(dataMap[h])'
      BY DEF MarkOK
    <2>1. pc[q] = "mark" /\ h \in miss[q]
      BY <1>2
    <2>2. h \in Keys /\ dataMap[h] # None
      BY <1>0, <2>1, Typed DEF ReadersOK, ReaderOK
    <2>3. PICK j \in Items : j = dataMap[h] /\ Ready(j)
      BY <1>0, <2>1, <2>2, Typed DEF MarkOK
    <2>4. Ready(j)'
      BY <1>2, <1>3, <1>6, <2>3, ReadyStays
    <2> QED BY <1>2, <2>3, <2>4
  <1> QED BY <1>7, <1>8, <1>9

LEMMA TickStep ==
    ASSUME CacheInv, Tick
    PROVE  Owned' /\ ClaimsOK' /\ MarkOK'
  <1>1. /\ \A r \in Readers : ~Prompt(r)
        /\ UNCHANGED <<dataMap, item, pc, refs, todo, miss, load>>
    BY DEF Tick, locals, Prompt
  <1>2. \A r \in Readers, k \in Keys, i \in Items : ~Claims(r, k, i)
    BY <1>1 DEF Claims, Prompt
  <1>3. Owned'
    BY <1>1 DEF CacheInv, Owned, Refers, Loads
  <1>4. ClaimsOK'
    BY <1>1, <1>2 DEF CacheInv, ClaimsOK, Claims, Loads, Apart
  <1>5. MarkOK'
    BY <1>1 DEF MarkOK, Prompt
  <1> QED BY <1>3, <1>4, <1>5

LEMMA CacheStep ==
    ASSUME Regime, CacheInv, [Next]_vars
    PROVE  CacheInv'
  <1>0. Types /\ ReadersOK /\ LoadsOK /\ Owned /\ ClaimsOK /\ MarkOK
    BY DEF CacheInv
  <1>1. Types' /\ ReadersOK' /\ LoadsOK'
    BY <1>0, TypeStep, ReadersStep, LoadsStep
  <1>2. Quiet => Owned' /\ ClaimsOK' /\ MarkOK'
    BY <1>0, <1>1, QuietStep
  <1>3. \A k, i : Takes(k, i) => Owned' /\ ClaimsOK'
    BY <1>0, TakesStep
  <1>4. ASSUME NEW r \in Readers, NEW k \in Keys, Get(r, k)
        PROVE  Owned' /\ ClaimsOK' /\ MarkOK'
    <2>1. CASE GetInsert(r, k) /\ Inserts(k)
      BY <1>0, <1>3, <2>1, InsertTakes
    <2>2. CASE GetRenew(r, k) /\ Expired(r, refs[r][k])
      BY <1>3, <2>2, RenewTakes
    <2>3. CASE ~(GetInsert(r, k) /\ Inserts(k)) /\ ~(GetRenew(r, k) /\ Expired(r, refs[r][k]))
      <3>1. Calm(r) /\ OnlyReader(r)
        BY <1>0, <1>4, <2>3, GetCalm, GetFrame
      <3> QED BY <1>0, <1>2, <3>1, CalmIsQuiet
    <2> QED BY <2>1, <2>2, <2>3
  <1>5. ASSUME NEW r \in Readers, GetMany(r)
        PROVE  Owned' /\ ClaimsOK' /\ MarkOK'
    <2>1. ASSUME NEW k \in Keys, ManyClaim(r, k), dataMap[k] = None PROVE Owned' /\ ClaimsOK' /\ MarkOK'
      BY <1>3, <2>1, ClaimTakes
    <2>2. ASSUME NEW k \in Keys, ManyMark(r, k) PROVE Owned' /\ ClaimsOK' /\ MarkOK'
      BY <1>3, <2>2, MarkTakes
    <2>3. CASE ManySpawn(r)
      BY <2>3, SpawnStep
    <2>4. CASE ~ManySpawn(r) /\ \A k \in Keys : ~ManyMark(r, k) /\ ~(ManyClaim(r, k) /\ dataMap[k] = None)
      <3>1. Calm(r) /\ OnlyReader(r)
        BY <1>0, <1>5, <2>4, ManyCalm, ManyFrame
      <3> QED BY <1>0, <1>2, <3>1, CalmIsQuiet
    <2> QED BY <2>1, <2>2, <2>3, <2>4
  <1>6. ASSUME NEW l \in Loaders, Load(l)
        PROVE  Owned' /\ ClaimsOK' /\ MarkOK'
    <2>1. ASSUME NEW k \in Keys, LoadApply(l, k) PROVE Owned' /\ ClaimsOK' /\ MarkOK'
      BY <2>1, ApplyStep
    <2>2. CASE LoadOK(l) \/ LoadError(l) \/ LoadFinish(l)
      <3>1. UNCHANGED <<clock, dataMap, item, pc, refs, todo, miss>>
        BY <2>2 DEF LoadOK, LoadError, LoadFinish, Ended, locals
      <3> QED BY <1>0, <1>2, <1>6, <3>1, LoadLoads, BackgroundQuiet
    <2> QED BY <1>6, <2>1, <2>2 DEF Load
  <1>7. ASSUME EvictScan \/ EvictDelete \/ UNCHANGED vars
        PROVE  Owned' /\ ClaimsOK' /\ MarkOK'
    <2>1. /\ UNCHANGED <<clock, item, pc, refs, todo, miss, load>>
          /\ dataMap' = dataMap \/ (EvictDelete /\ Lockable)
      BY <1>7 DEF EvictScan, EvictDelete, vars, locals
    <2> QED BY <1>0, <1>2, <2>1, SameLoads, BackgroundQuiet
  <1>8. ASSUME Tick PROVE Owned' /\ ClaimsOK' /\ MarkOK'
    BY <1>8, TickStep
  <1>9. Owned' /\ ClaimsOK' /\ MarkOK'
    BY <1>4, <1>5, <1>6, <1>7, <1>8 DEF Next
  <1> QED BY <1>1, <1>9 DEF CacheInv

LEMMA CacheInit == Init => CacheInv
  <1> SUFFICES ASSUME Init PROVE CacheInv
    OBVIOUS
  <1>1. \A k \in Keys, i \in Items : ~Refers(k, i)
    BY Constants DEF Init, Refers, NoRefs, Loads
  <1>2. \A r \in Readers : pc[r] = "out"
    BY DEF Init
  <1>3. \A l \in Loaders : load[l] = None
    BY DEF Init
  <1>4. \A r \in Readers, k \in Keys, i \in Items : ~Claims(r, k, i)
    BY <1>2 DEF Claims
  <1>5. ClaimsOK
    BY <1>3, <1>4 DEF ClaimsOK, Loads
  <1>6. Owned
    BY <1>1 DEF Owned
  <1>7. LoadsOK /\ MarkOK
    BY <1>2, <1>3 DEF LoadsOK, MarkOK
  <1> QED BY <1>5, <1>6, <1>7, TypeInit, ReadersInit DEF CacheInv

\* "Only one goroutine will try to load the data during one RetryInterval"
\* (datacache/datacachemap.go), for any readers, keys, items and loads, as long
\* as a key is read either with Get or with GetMany.
THEOREM SingleLoadHolds == Regime /\ Spec => []SingleLoad
  <1>1. CacheInv => SingleLoad
    <2> SUFFICES ASSUME CacheInv, NEW i \in Items, NEW l \in Loaders, NEW m \in Loaders,
                        InFlight(l, i), InFlight(m, i), l # m
                 PROVE  Apart(l, m)
      BY DEF SingleLoad
    <2>1. PICK k \in Keys : Loads(l, k, i)
      BY DEF InFlight, Loads
    <2>2. PICK h \in Keys : Loads(m, h, i)
      BY DEF InFlight, Loads
    <2> QED BY <2>1, <2>2 DEF CacheInv, ClaimsOK
  <1>2. CASE Regime
    <2>1. CacheInv /\ [Next]_vars => CacheInv'
      BY <1>2, CacheStep
    <2> QED BY <1>1, <2>1, CacheInit, PTL DEF Spec
  <1>3. CASE ~Regime
    BY <1>3
  <1> QED BY <1>2, <1>3

\* An item in the map is never replaced, only evicted: calls that race to insert a
\* key end up with one item (datacache/datacachemap.go, Get and GetMany).
THEOREM OneItemHolds == Spec => OneItem
  <1>1. Types /\ [Next]_vars => \A k \in Keys : dataMap[k] # None => dataMap'[k] \in {dataMap[k], None}
    <2> SUFFICES ASSUME Types, [Next]_vars, NEW k \in Keys, dataMap[k] # None
                 PROVE  dataMap'[k] \in {dataMap[k], None}
      OBVIOUS
    <2>1. \A h \in Keys, i \in Items : dataMap' = [dataMap EXCEPT ![h] = i] /\ dataMap[h] = None => dataMap'[k] = dataMap[k]
      BY DEF Types, Refs
    <2>2. ASSUME NEW r \in Readers, NEW h \in Keys, Get(r, h) PROVE dataMap'[k] = dataMap[k]
      BY <2>1, <2>2 DEF Get, GetStart, GetFind, GetInsert, Inserts, GetCheck, GetRenew, GetSleep, GetReturn, Sleep
    <2>3. ASSUME NEW r \in Readers, GetMany(r) PROVE dataMap'[k] = dataMap[k]
      BY <2>1, <2>3 DEF GetMany, ManyStart, ManyRLock, ManyScan, ManyScanned, ManyLock, ManyClaim, ManyMark,
                        ManyUnlock, ManySpawn, ManySleep, ManyReturn, Sleep
    <2>4. ASSUME NEW l \in Loaders, Load(l) PROVE dataMap' = dataMap
      BY <2>4 DEF Load, LoadOK, LoadError, Ended, LoadApply, LoadFinish
    <2> QED BY <2>2, <2>3, <2>4 DEF Next, Tick, EvictScan, EvictDelete, vars
  <1> QED BY <1>1, TypesKnown, PTL DEF OneItem, Spec

-----------------------------------------------------------------------------
(* The age of the data *)

\* What a step does to the data of an item: nothing, or it is a new item, or a
\* load of the item has ended.
Ages(i) == \/ item'[i].data = item[i].data
           \/ Unused(i) /\ item'[i].data = None
           \/ \E l \in Loaders, k \in Keys : Loads(l, k, i) /\ item'[i].data = load[l].since

LEMMA InsertAges ==
    ASSUME Types, NEW j, NEW now, Unused(j), item' = [item EXCEPT ![j] = NewItem(now)]
    PROVE  \A i \in Items : Ages(i)
  BY DEF Types, NewItem, Ages

LEMMA TimesAges ==
    ASSUME Types, NEW j, NEW e,
           item' = [item EXCEPT ![j].evict = e] \/ item' = [item EXCEPT ![j].next = e]
    PROVE  \A i \in Items : Ages(i)
  <1>1. \A i \in Items : item'[i].data = item[i].data
    <2>1. CASE item' = [item EXCEPT ![j].evict = e]
      BY <2>1 DEF Types, ItemType
    <2>2. CASE item' = [item EXCEPT ![j].next = e]
      BY <2>2 DEF Types, ItemType
    <2> QED BY <2>1, <2>2
  <1> QED BY <1>1 DEF Ages

LEMMA GetAges ==
    ASSUME Types, NEW r \in Readers, NEW k \in Keys, Get(r, k)
    PROVE  \A i \in Items : Ages(i)
  <1>1. item' = item => \A i \in Items : Ages(i)
    BY DEF Ages
  <1>2. CASE GetInsert(r, k)
    BY <1>1, <1>2, InsertAges DEF GetInsert
  <1>3. CASE GetRenew(r, k)
    BY <1>1, <1>3, TimesAges DEF GetRenew
  <1>4. CASE GetReturn(r, k)
    <2>1. item' = [item EXCEPT ![refs[r][k]].evict = EvictTime(@, rnow[r])]
      BY <1>4 DEF GetReturn
    <2> QED BY <2>1 DEF Types, ItemType, Ages
  <1> QED BY <1>1, <1>2, <1>3, <1>4 DEF Get, GetStart, GetFind, GetCheck, GetSleep, Sleep

LEMMA ManyAges ==
    ASSUME Types, NEW r \in Readers, GetMany(r)
    PROVE  \A i \in Items : Ages(i)
  <1>1. item' = item => \A i \in Items : Ages(i)
    BY DEF Ages
  <1>2. ASSUME NEW k \in Keys, ManyScan(r, k) PROVE \A i \in Items : Ages(i)
    <2>1. \/ item' = item
          \/ item' = [item EXCEPT ![dataMap[k]].evict = EvictTime(@, rnow[r])]
      BY <1>2 DEF ManyScan
    <2> QED BY <2>1 DEF Types, ItemType, Ages
  <1>3. ASSUME NEW k \in Keys, ManyClaim(r, k) PROVE \A i \in Items : Ages(i)
    BY <1>1, <1>3, InsertAges DEF ManyClaim
  <1>4. ASSUME NEW k \in Keys, ManyMark(r, k) PROVE \A i \in Items : Ages(i)
    BY <1>4, TimesAges DEF ManyMark
  <1> QED BY <1>1, <1>2, <1>3, <1>4
          DEF GetMany, ManyStart, ManyRLock, ManyScanned, ManyLock, ManyUnlock, ManySpawn, ManySleep,
              ManyReturn, Sleep

LEMMA ApplyAges ==
    ASSUME Types, NEW l \in Loaders, NEW k \in Keys, LoadApply(l, k)
    PROVE  \A i \in Items : Ages(i)
  <1>1. PICK j \in Items : j = load[l].refs[k] /\ Loads(l, k, j)
    BY Typed DEF LoadApply, Loads
  <1>2. item' = [item EXCEPT ![j] = Updated(@, load[l])]
    BY <1>1 DEF LoadApply
  <1>3. \A i \in Items : i # j => item'[i] = item[i]
    BY <1>2 DEF Types
  <1>4. item'[j].data = load[l].since
    <2>1. item'[j] = Updated(item[j], load[l]) /\ item[j] \in ItemType
      BY <1>2 DEF Types
    <2> QED BY <2>1 DEF Updated, ItemType
  <1> QED BY <1>1, <1>3, <1>4 DEF Ages

\* A load of an item is one there was, or begins now.
LoadsAge(i) == \A l \in Loaders, k \in Keys : Loads(l, k, i)' =>
    load'[l].since = clock \/ (Loads(l, k, i) /\ load'[l].since = load[l].since)

LEMMA NoNewLoadsAge == NoNewLoads => \A i \in Items : LoadsAge(i)
  BY Constants DEF NoNewLoads, LoadsAge, Loads

LEMMA AllLoadsAge ==
    ASSUME Types, ReadersOK, [Next]_vars
    PROVE  \A i \in Items : LoadsAge(i)
  <1>1. ASSUME NEW r \in Readers, GetMany(r) \/ \E k \in Keys : Get(r, k) PROVE \A i \in Items : LoadsAge(i)
    <2>1. ASSUME NEW m, Starts(m) PROVE \A i \in Items : LoadsAge(i)
      <3>1. PICK n \in Loaders : load'[n].since = clock /\ \A l \in Loaders : l # n => load'[l] = load[l]
        BY <2>1, SpawnFacts DEF Starts
      <3> QED BY <3>1 DEF LoadsAge, Loads
    <2> QED BY <1>1, <2>1, ReaderLoads, NoNewLoadsAge
  <1>2. ASSUME NEW l \in Loaders, Load(l) PROVE \A i \in Items : LoadsAge(i)
    BY <1>2, LoadLoads, NoNewLoadsAge
  <1>3. CASE Tick \/ EvictScan \/ EvictDelete \/ UNCHANGED vars
    <2>1. load' = load
      BY <1>3 DEF Tick, EvictScan, EvictDelete, vars
    <2> QED BY <2>1, SameLoads, NoNewLoadsAge
  <1> QED BY <1>1, <1>2, <1>3 DEF Next

LEMMA AllAge ==
    ASSUME Types, ReadersOK, [Next]_vars
    PROVE  clock <= clock' /\ \A i \in Items : Ages(i)
  <1>0. clock \in Nat
    BY DEF Types
  <1>1. item' = item => \A i \in Items : Ages(i)
    BY DEF Ages
  <1>2. ASSUME NEW r \in Readers, NEW k \in Keys, Get(r, k)
        PROVE  clock' = clock /\ \A i \in Items : Ages(i)
    BY <1>2, GetAges, GetFrame DEF OnlyReader
  <1>3. ASSUME NEW r \in Readers, GetMany(r)
        PROVE  clock' = clock /\ \A i \in Items : Ages(i)
    BY <1>3, ManyAges, ManyFrame DEF OnlyReader
  <1>4. ASSUME NEW l \in Loaders, Load(l)
        PROVE  clock' = clock /\ \A i \in Items : Ages(i)
    <2>1. clock' = clock
      BY <1>4, LoadLoads
    <2>2. LoadOK(l) \/ LoadError(l) \/ LoadFinish(l) => item' = item
      BY DEF LoadOK, LoadError, LoadFinish, Ended
    <2> QED BY <1>1, <1>4, <2>1, <2>2, ApplyAges DEF Load
  <1>5. CASE Tick \/ EvictScan \/ EvictDelete \/ UNCHANGED vars
    <2>1. item' = item /\ (clock' = clock \/ clock' = clock + 1)
      BY <1>5 DEF Tick, EvictScan, EvictDelete, vars
    <2> QED BY <1>0, <1>1, <2>1
  <1> QED BY <1>0, <1>2, <1>3, <1>4, <1>5 DEF Next

\* The data of an item is no younger than any load of it, or the retry interval
\* younger.
DataOK == \A i \in Items : item[i].data # None =>
    /\ item[i].data <= clock
    /\ \A l \in Loaders, k \in Keys : Loads(l, k, i) =>
         item[i].data <= load[l].since \/ load[l].since + retryInterval < item[i].data

LEMMA DataStep ==
    ASSUME CacheInv, DataOK, [Next]_vars
    PROVE  DataOK'
  <1> SUFFICES ASSUME NEW i \in Items, item'[i].data # None
               PROVE  /\ item'[i].data <= clock'
                      /\ \A m \in Loaders, h \in Keys : Loads(m, h, i)' =>
                            item'[i].data <= load'[m].since \/ load'[m].since + retryInterval < item'[i].data
    BY DEF DataOK
  <1>1. Types /\ Types' /\ ReadersOK /\ LoadsOK /\ ClaimsOK
    BY TypeStep DEF CacheInv
  <1>2. /\ clock \in Nat /\ clock' \in Nat /\ item'[i].data \in Nat
        /\ \A l \in Loaders : load[l] # None => load[l].since \in Nat
    BY <1>1, Typed DEF Types, ItemType
  <1>3. clock <= clock' /\ Ages(i) /\ LoadsAge(i)
    BY <1>1, AllAge, AllLoadsAge
  <1>4. CASE item'[i].data = item[i].data
    BY <1>2, <1>3, <1>4 DEF DataOK, LoadsAge
  <1>5. ASSUME NEW l \in Loaders, NEW k \in Keys, Loads(l, k, i), item'[i].data = load[l].since
        PROVE  /\ item'[i].data <= clock'
               /\ \A m \in Loaders, h \in Keys : Loads(m, h, i)' =>
                     item'[i].data <= load'[m].since \/ load'[m].since + retryInterval < item'[i].data
    <2>1. load[l].since <= clock /\ load[l].since \in Nat
      BY <1>1, <1>2, <1>5 DEF LoadsOK, Loads
    <2>2. ASSUME NEW m \in Loaders, NEW h \in Keys, Loads(m, h, i), m # l
          PROVE  load[l].since <= load[m].since \/ load[m].since + retryInterval < load[l].since
      <3>1. Apart(l, m) /\ load[m].since \in Nat
        BY <1>1, <1>2, <1>5, <2>2 DEF ClaimsOK, Loads
      <3> QED BY <2>1, <3>1, Constants DEF Apart
    <2> QED BY <1>2, <1>3, <1>5, <2>1, <2>2 DEF LoadsAge
  <1> QED BY <1>3, <1>4, <1>5 DEF Ages

\* A load brings back older data only if it began more than the retry interval
\* before what it overwrites (datacache/datacachemap.go, updateData and
\* updateBatch), for any readers, keys, items and loads, in the regime; loads of an
\* item do overlap in it.
THEOREM ItemDataGrowsHolds == Regime /\ Spec => ItemDataGrows
  <1>1. ASSUME CacheInv, DataOK, [Next]_vars
        PROVE  \A i \in Items : ~Unused(i) /\ item[i].data # None =>
                 /\ item'[i].data # None
                 /\ \/ item'[i].data >= item[i].data
                    \/ item'[i].data + retryInterval < item[i].data
    <2> SUFFICES ASSUME NEW i \in Items, ~Unused(i), item[i].data # None
                 PROVE  /\ item'[i].data # None
                        /\ \/ item'[i].data >= item[i].data
                           \/ item'[i].data + retryInterval < item[i].data
      OBVIOUS
    <2>1. Ages(i) /\ item[i].data \in Nat
      BY <1>1, AllAge DEF CacheInv, Types, ItemType
    <2>2. ASSUME NEW l \in Loaders, NEW k \in Keys, Loads(l, k, i), item'[i].data = load[l].since
          PROVE  /\ item'[i].data \in Nat
                 /\ \/ item'[i].data >= item[i].data
                    \/ item'[i].data + retryInterval < item[i].data
      BY <1>1, <2>1, <2>2, Typed DEF DataOK, CacheInv, Loads
    <2> QED BY <2>1, <2>2, Constants DEF Ages
  <1>2. Init => DataOK
    BY DEF Init, DataOK, Absent
  <1>3. CASE Regime
    <2>1. CacheInv /\ DataOK /\ [Next]_vars => CacheInv' /\ DataOK'
      BY <1>3, CacheStep, DataStep
    <2> QED BY <1>1, <1>2, <2>1, CacheInit, PTL DEF Spec, ItemDataGrows
  <1>4. CASE ~Regime
    BY <1>4
  <1> QED BY <1>3, <1>4
=============================================================================
