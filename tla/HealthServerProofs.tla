------------------------- MODULE HealthServerProofs -------------------------
(***************************************************************************)
(* Theorems about HealthServer: the list of channels is that of the Watch   *)
(* calls under way, and the watchers agree with the reporter once all that  *)
(* was in flight is delivered.                                              *)
(***************************************************************************)
EXTENDS HealthServer, SequenceTheorems, TLAPS

-----------------------------------------------------------------------------
(* The inductive invariants *)
Listed(w) == \E i \in 1..Len(statusChans) : statusChans[i] = w
InLeft(w) == \E i \in 1..Len(left) : left[i] = w

\* A Watch call under way has an open channel, and whoever broadcastStatus has
\* yet to serve is under way: it holds the lock that removeStatusChan needs.
Exact ==
    /\ \A w \in Watchers : (wpc[w] \in Watching) <=> Listed(w)
    /\ \A i, j \in 1..Len(statusChans) : statusChans[i] = statusChans[j] => i = j
    /\ \A w \in Watchers : wpc[w] \in Watching => chan[w] = "open"
    /\ bpc = "send" => \A w \in Watchers : InLeft(w) => wpc[w] \in Watching
    /\ bpc # "recv" => bstatus \in Statuses

\* The status a client that is still served will have been sent last.
Latest(w) == IF buf[w] # <<>> THEN Head(buf[w])
             ELSE IF wpc[w] = "send" THEN resp[w] ELSE seen[w]

Quiet == pending = None /\ ~dropped /\ reportChan = <<>>

-----------------------------------------------------------------------------
(* removeStatusChan cuts an element out of the list *)
LEMMA WithoutFacts ==
    ASSUME NEW S, NEW l \in Seq(S), NEW i \in 1..Len(l)
    PROVE  /\ Without(l, i) \in Seq(S) /\ Len(Without(l, i)) = Len(l) - 1
           /\ \A n \in 1..(Len(l) - 1) : Without(l, i)[n] = IF n < i THEN l[n] ELSE l[n + 1]
  <1> DEFINE a == SubSeq(l, 1, i - 1)
             b == SubSeq(l, i + 1, Len(l))
  <1>1. Len(l) \in Nat /\ i \in Nat /\ i >= 1 /\ i <= Len(l)
    OBVIOUS
  <1>2. a \in Seq(S) /\ Len(a) = i - 1 /\ \A n \in 1..(i - 1) : a[n] = l[n]
    BY <1>1
  <1>3. b \in Seq(S) /\ Len(b) = Len(l) - i /\ \A n \in 1..(Len(l) - i) : b[n] = l[i + n]
    BY <1>1
  <1>4. Without(l, i) = a \o b
    BY DEF Without
  <1> HIDE DEF a, b
  <1>5. a \o b \in Seq(S) /\ Len(a \o b) = Len(l) - 1
    <2>1. a \o b \in Seq(S) /\ Len(a \o b) = Len(a) + Len(b)
      BY <1>2, <1>3, ConcatProperties
    <2> QED BY <1>1, <1>2, <1>3, <2>1
  <1>6. ASSUME NEW n \in 1..(Len(l) - 1)
        PROVE  (a \o b)[n] = IF n < i THEN l[n] ELSE l[n + 1]
    <2>1. CASE n < i
      BY <1>1, <1>2, <1>3, <2>1
    <2>2. CASE n >= i
      <3>1. (a \o b)[n] = b[n - (i - 1)]
        BY <1>1, <1>2, <1>3, <2>2
      <3>2. b[n - (i - 1)] = l[i + (n - (i - 1))]
        BY <1>1, <1>3, <2>2
      <3>3. i + (n - (i - 1)) = n + 1 /\ ~(n < i)
        BY <1>1, <2>2
      <3> QED BY <3>1, <3>2, <3>3
    <2>3. n < i \/ n >= i
      BY <1>1
    <2> QED BY <2>1, <2>2, <2>3, Zenon
  <1> QED BY <1>4, <1>5, <1>6

\* Of a list without duplicates one element is removed and the others stay.
Distinct(l) == \A i, j \in 1..Len(l) : l[i] = l[j] => i = j
In(l, x) == \E i \in 1..Len(l) : l[i] = x

LEMMA RemovedFacts ==
    ASSUME NEW S, NEW l \in Seq(S), NEW w, Distinct(l)
    PROVE  /\ Removed(l, w) \in Seq(S) /\ Distinct(Removed(l, w))
           /\ \A x : In(Removed(l, w), x) <=> (x # w /\ In(l, x))
  <1> USE DEF Distinct, In
  <1>1. CASE \A i \in 1..Len(l) : l[i] # w
    <2>1. Removed(l, w) = l
      BY <1>1 DEF Removed
    <2> QED BY <1>1, <2>1
  <1>2. CASE \E i \in 1..Len(l) : l[i] = w
    <2>1. PICK k \in 1..Len(l) : l[k] = w /\ Removed(l, w) = Without(l, k)
      BY <1>2 DEF Removed
    <2> DEFINE r == Without(l, k)
    <2>2. /\ r \in Seq(S) /\ Len(r) = Len(l) - 1
          /\ \A n \in 1..(Len(l) - 1) : r[n] = IF n < k THEN l[n] ELSE l[n + 1]
      BY WithoutFacts
    <2>3. Len(l) \in Nat /\ k \in Nat /\ k >= 1 /\ k <= Len(l)
      OBVIOUS
    <2> HIDE DEF r
    <2>4. ASSUME NEW i \in 1..Len(r), NEW j \in 1..Len(r), r[i] = r[j] PROVE i = j
      <3>1. l[IF i < k THEN i ELSE i + 1] = l[IF j < k THEN j ELSE j + 1]
        BY <2>2, <2>3, <2>4
      <3>2. (IF i < k THEN i ELSE i + 1) = (IF j < k THEN j ELSE j + 1)
        BY <2>2, <2>3, <3>1
      <3> QED BY <2>3, <2>2, <3>2
    <2>5. ASSUME NEW x, NEW i \in 1..Len(r), r[i] = x PROVE x # w /\ \E n \in 1..Len(l) : l[n] = x
      <3>1. l[IF i < k THEN i ELSE i + 1] = x /\ (IF i < k THEN i ELSE i + 1) \in 1..Len(l)
        BY <2>2, <2>3, <2>5
      <3>2. (IF i < k THEN i ELSE i + 1) # k
        BY <2>2, <2>3
      <3> QED BY <2>1, <3>1, <3>2
    <2>6. ASSUME NEW x, x # w, NEW n \in 1..Len(l), l[n] = x PROVE \E i \in 1..Len(r) : r[i] = x
      <3>1. n # k
        BY <2>1, <2>6
      <3>2. CASE n < k
        BY <2>2, <2>3, <2>6, <3>2
      <3>3. CASE n > k
        <4>1. n - 1 \in 1..Len(r) /\ r[n - 1] = l[n]
          BY <2>2, <2>3, <3>3
        <4> QED BY <2>6, <4>1
      <3> QED BY <2>3, <3>1, <3>2, <3>3
    <2>7. \A x : (\E i \in 1..Len(r) : r[i] = x) <=> (x # w /\ \E i \in 1..Len(l) : l[i] = x)
      BY <2>5, <2>6, Zenon
    <2>8. Removed(l, w) = r
      BY <2>1 DEF r
    <2> QED BY <2>2, <2>4, <2>7, <2>8
  <1> QED BY <1>1, <1>2

-----------------------------------------------------------------------------
(* Types *)
ReporterTypes ==
    /\ lastStatus \in Statuses /\ pending \in Statuses \cup {None}
    /\ reportChan \in Seq(Statuses) /\ Len(reportChan) <= 1 /\ dropped \in BOOLEAN

ListTypes == statusChans \in Seq(Watchers) /\ left \in Seq(Watchers)

WatchTypes ==
    /\ chan \in [Watchers -> {"none", "open", "closed"}]
    /\ buf \in [Watchers -> Seq(Statuses)] /\ \A w \in Watchers : Len(buf[w]) <= 1
    /\ wpc \in [Watchers -> Watching \cup {"out"}]
    /\ resp \in [Watchers -> Statuses \cup {None}]
    /\ seen \in [Watchers -> Statuses \cup {None}]

CastTypes == bpc \in {"recv", "lock", "send"} /\ bstatus \in Statuses \cup {None}

OtherTypes == /\ answer \in {None, "SERVING", "NOT_SERVING", "SERVICE_UNKNOWN"}
              /\ crashed \in BOOLEAN

LEMMA TypeParts == TypeOK <=> ReporterTypes /\ ListTypes /\ WatchTypes /\ CastTypes /\ OtherTypes
  BY DEF TypeOK, ReporterTypes, ListTypes, WatchTypes, CastTypes, OtherTypes

LEMMA OneMessage == \A s \in Statuses : <<s>> \in Seq(Statuses) /\ Len(<<s>>) = 1 /\ Head(<<s>>) = s
  OBVIOUS

LEMMA ReporterTyped ==
    ReporterTypes /\ [ReporterNext]_reporterVars => ReporterTypes'
  <1> SUFFICES ASSUME ReporterTypes, [ReporterNext]_reporterVars PROVE ReporterTypes'
    OBVIOUS
  <1>1. ASSUME NEW s \in Statuses, Store(s) PROVE ReporterTypes'
    BY <1>1 DEF Store, ReporterTypes
  <1>2. CASE Offer
    <2>1. pending \in Statuses
      BY <1>2 DEF Offer, ReporterTypes
    <2>2. reportChan' \in Seq(Statuses) /\ Len(reportChan') <= 1
      BY <1>2, <2>1, OneMessage DEF Offer, ReporterTypes
    <2> QED BY <1>2, <2>2 DEF Offer, ReporterTypes
  <1>3. CASE Consume
    BY <1>3 DEF Consume, ReporterTypes
  <1>4. CASE UNCHANGED reporterVars
    BY <1>4 DEF reporterVars, ReporterTypes
  <1> QED BY <1>1, <1>2, <1>3, <1>4 DEF ReporterNext

\* Which step changes what.
LEMMA ReporterFrame == Next => [ReporterNext]_reporterVars
  BY DEF Next, Check, Runner, Broadcast, CastReceive, CastLock, CastSend, CastUnlock, Watch,
         newStatusChan, Receive, Send, removeStatusChan, ReporterNext

LEMMA OtherTyped == OtherTypes /\ [Next]_vars => OtherTypes'
  <1> SUFFICES ASSUME OtherTypes, [Next]_vars PROVE OtherTypes'
    OBVIOUS
  <1>1. CASE Check
    BY <1>1 DEF Check, fillProtoStatus, OtherTypes
  <1>2. CASE Runner \/ Broadcast
    BY <1>2 DEF Runner, Broadcast, CastReceive, CastLock, CastSend, CastUnlock, OtherTypes
  <1>3. ASSUME NEW w \in Watchers, newStatusChan(w) \/ Receive(w) \/ Send(w) PROVE OtherTypes'
    BY <1>3 DEF newStatusChan, Receive, Send, OtherTypes
  <1>4. ASSUME NEW w \in Watchers, removeStatusChan(w) PROVE OtherTypes'
    <2>1. crashed' = (Overruns(statusChans, w) /\ ~Recovery) /\ answer' = answer
      BY <1>4 DEF removeStatusChan
    <2>2. crashed' \in BOOLEAN
      BY <2>1, ServerAssumption DEF Overruns
    <2> QED BY <2>1, <2>2 DEF OtherTypes
  <1>5. CASE UNCHANGED vars
    BY <1>5 DEF vars, OtherTypes
  <1> QED BY <1>1, <1>2, <1>3, <1>4, <1>5 DEF Next, Watch

-----------------------------------------------------------------------------
(* The list of channels *)
ServerTypes == ListTypes /\ WatchTypes /\ CastTypes

LEMMA ExactList == TypeOK /\ Exact => ListExact
  <1> SUFFICES ASSUME TypeOK, Exact PROVE ListExact
    OBVIOUS
  <1>1. left \in Seq(Watchers) /\ Len(left) \in Nat /\ \A i \in 1..Len(left) : left[i] \in Watchers
    BY DEF TypeOK
  <1>2. ASSUME NEW w \in Watchers PROVE (wpc[w] \in Watching) = Listed(w)
    <2>1. (wpc[w] \in Watching) <=> Listed(w)
      BY DEF Exact
    <2>2. (wpc[w] \in Watching) \in BOOLEAN /\ Listed(w) \in BOOLEAN
      BY DEF Listed
    <2> QED BY <2>1, <2>2
  <1>3. bpc = "send" => \A i \in 1..Len(left) : chan[left[i]] = "open"
    BY <1>1 DEF Exact, InLeft
  <1> QED BY <1>2, <1>3 DEF ListExact, Exact, Listed

LEMMA ExactStep ==
    ReporterTypes /\ ServerTypes /\ Exact /\ [Next]_vars => ServerTypes' /\ Exact'
  <1> SUFFICES ASSUME ReporterTypes, ServerTypes, Exact, [Next]_vars PROVE ServerTypes' /\ Exact'
    OBVIOUS
  <1>t. ListTypes /\ WatchTypes /\ CastTypes
    BY DEF ServerTypes
  <1>u. ASSUME UNCHANGED <<statusChans, left, bpc, chan, bstatus>>, WatchTypes',
               \A w \in Watchers : (wpc'[w] \in Watching) <=> (wpc[w] \in Watching)
        PROVE  ServerTypes' /\ Exact'
    <2>1. \A w \in Watchers : (Listed(w)' <=> Listed(w)) /\ (InLeft(w)' <=> InLeft(w))
      BY <1>u DEF Listed, InLeft
    <2> QED BY <1>t, <1>u, <2>1 DEF Exact, ServerTypes, ListTypes, CastTypes
  <1>1. CASE Check \/ Runner \/ UNCHANGED vars
    <2>1. UNCHANGED <<watchVars, castVars>>
      BY <1>1 DEF Check, Runner, vars
    <2> QED BY <1>t, <1>u, <2>1 DEF watchVars, castVars, WatchTypes
  <1>2. CASE CastReceive \/ CastUnlock
    <2>1. /\ UNCHANGED <<watchVars, left>> /\ bpc' \in {"lock", "recv"}
          /\ bstatus' \in Statuses \cup {None}
          /\ bpc' = "lock" => bstatus' \in Statuses
      BY <1>2 DEF CastReceive, CastUnlock, Consume, ReporterTypes
    <2>2. \A w \in Watchers : Listed(w)' <=> Listed(w)
      BY <2>1 DEF Listed, watchVars
    <2> QED BY <1>t, <2>1, <2>2 DEF watchVars, Exact, ServerTypes, ListTypes, WatchTypes, CastTypes
  <1>3. CASE CastLock
    <2>1. UNCHANGED <<watchVars, bstatus>> /\ bpc = "lock" /\ bpc' = "send" /\ left' = statusChans
      BY <1>3 DEF CastLock
    <2>2. \A w \in Watchers : (Listed(w)' <=> Listed(w)) /\ (InLeft(w)' <=> Listed(w))
      BY <2>1 DEF Listed, InLeft, watchVars
    <2> QED BY <1>t, <2>1, <2>2 DEF watchVars, Exact, ServerTypes, ListTypes, WatchTypes, CastTypes
  <1>4. CASE CastSend
    <2> DEFINE v == Head(left)
    <2>1. /\ left # <<>> /\ left' = Tail(left) /\ buf' = [buf EXCEPT ![v] = <<bstatus>>]
          /\ UNCHANGED <<statusChans, chan, wpc, resp, seen, bpc, bstatus>>
      BY <1>4 DEF CastSend
    <2>2. ListTypes' /\ \A w \in Watchers : InLeft(w)' => InLeft(w)
      BY <1>t, <2>1 DEF ListTypes, InLeft
    <2>3. \A w \in Watchers : Listed(w)' <=> Listed(w)
      BY <2>1 DEF Listed
    <2>4. bstatus \in Statuses
      BY <1>4 DEF CastSend, Exact
    <2>5. v \in Watchers
      BY <1>t, <2>1 DEF ListTypes
    <2>6. WatchTypes'
      BY <1>t, <2>1, <2>4, <2>5, OneMessage DEF WatchTypes
    <2> QED BY <1>t, <2>1, <2>2, <2>3, <2>6 DEF Exact, ServerTypes, CastTypes
  <1>5. ASSUME NEW w \in Watchers, newStatusChan(w) PROVE ServerTypes' /\ Exact'
    <2>1. /\ wpc[w] = "out" /\ bpc # "send" /\ UNCHANGED <<left, bpc, bstatus, resp, seen>>
          /\ statusChans' = Append(statusChans, w)
          /\ chan' = [chan EXCEPT ![w] = "open"] /\ buf' = [buf EXCEPT ![w] = <<lastStatus>>]
          /\ wpc' = [wpc EXCEPT ![w] = "recv"]
      BY <1>5 DEF newStatusChan, Unlocked, castVars
    <2>2. WatchTypes'
      BY <1>t, <2>1, OneMessage DEF WatchTypes, Watching, ReporterTypes
    <2>3. /\ wpc'[w] = "recv" /\ chan'[w] = "open"
          /\ \A v \in Watchers : v # w => wpc'[v] = wpc[v] /\ chan'[v] = chan[v]
      BY <1>t, <2>1 DEF WatchTypes
    <2>4. statusChans \in Seq(Watchers) /\ Len(statusChans) \in Nat /\ ~Listed(w)
      BY <1>t, <2>1 DEF ListTypes, Exact, Watching
    <2>5. /\ statusChans' \in Seq(Watchers) /\ Len(statusChans') = Len(statusChans) + 1
          /\ \A i \in 1..Len(statusChans) : statusChans'[i] = statusChans[i]
          /\ statusChans'[Len(statusChans) + 1] = w
      BY <2>1, <2>4
    <2>6. \A v \in Watchers : Listed(v)' <=> (v = w \/ Listed(v))
      BY <2>4, <2>5 DEF Listed
    <2>7. ASSUME NEW i \in 1..Len(statusChans'), NEW j \in 1..Len(statusChans'), statusChans'[i] = statusChans'[j]
          PROVE  i = j
      <3>1. CASE i \in 1..Len(statusChans) /\ j \in 1..Len(statusChans)
        BY <2>5, <2>7, <3>1 DEF Exact
      <3>2. CASE i = Len(statusChans) + 1 \/ j = Len(statusChans) + 1
        BY <2>4, <2>5, <2>7, <3>2 DEF Listed
      <3> QED BY <2>4, <2>5, <3>1, <3>2
    <2>8. Exact'
      BY <2>1, <2>3, <2>6, <2>7 DEF Exact, Watching
    <2> QED BY <1>t, <2>1, <2>2, <2>5, <2>8 DEF ServerTypes, ListTypes, CastTypes
  <1>6. ASSUME NEW w \in Watchers, Receive(w) PROVE ServerTypes' /\ Exact'
    <2>1. /\ UNCHANGED <<statusChans, left, bpc, chan, bstatus, seen>> /\ wpc[w] = "recv" /\ buf[w] # <<>>
          /\ wpc' = [wpc EXCEPT ![w] = "send"] /\ buf' = [buf EXCEPT ![w] = Tail(@)]
          /\ resp' = [resp EXCEPT ![w] = Head(buf[w])]
      BY <1>6 DEF Receive, castVars
    <2>2. buf[w] \in Seq(Statuses) /\ Len(buf[w]) <= 1
      BY <1>t DEF WatchTypes
    <2>3. Head(buf[w]) \in Statuses /\ Tail(buf[w]) \in Seq(Statuses) /\ Len(Tail(buf[w])) <= 1
      BY <2>1, <2>2
    <2>4. WatchTypes'
      BY <1>t, <2>1, <2>3 DEF WatchTypes, Watching
    <2>5. \A v \in Watchers : (wpc'[v] \in Watching) <=> (wpc[v] \in Watching)
      BY <1>t, <2>1 DEF WatchTypes, Watching
    <2> QED BY <1>u, <2>1, <2>4, <2>5
  <1>7. ASSUME NEW w \in Watchers, Send(w) PROVE ServerTypes' /\ Exact'
    <2>1. /\ UNCHANGED <<statusChans, left, bpc, chan, bstatus, buf>> /\ wpc[w] = "send"
          /\ wpc' \in {[wpc EXCEPT ![w] = "recv"], [wpc EXCEPT ![w] = "remove"]}
          /\ seen' \in {seen, [seen EXCEPT ![w] = resp[w]]}
          /\ resp' = [resp EXCEPT ![w] = None]
      BY <1>7 DEF Send, castVars
    <2>4. WatchTypes'
      BY <1>t, <2>1 DEF WatchTypes, Watching
    <2>5. \A v \in Watchers : (wpc'[v] \in Watching) <=> (wpc[v] \in Watching)
      BY <1>t, <2>1 DEF WatchTypes, Watching
    <2> QED BY <1>u, <2>1, <2>4, <2>5
  <1>8. ASSUME NEW w \in Watchers, removeStatusChan(w) PROVE ServerTypes' /\ Exact'
    <2>1. /\ wpc[w] = "remove" /\ bpc # "send" /\ UNCHANGED <<left, bpc, bstatus, resp>>
          /\ statusChans' = Removed(statusChans, w)
          /\ chan' \in {[chan EXCEPT ![w] = "open"], [chan EXCEPT ![w] = "closed"]}
          /\ buf' = [buf EXCEPT ![w] = <<>>] /\ seen' = [seen EXCEPT ![w] = None]
          /\ wpc' = [wpc EXCEPT ![w] = "out"]
      BY <1>8 DEF removeStatusChan, Unlocked, castVars
    <2>2. <<>> \in Seq(Statuses) /\ Len(<<>>) <= 1
      OBVIOUS
    <2>3. WatchTypes'
      BY <1>t, <2>1, <2>2 DEF WatchTypes, Watching
    <2>4. /\ wpc'[w] = "out"
          /\ \A v \in Watchers : v # w => wpc'[v] = wpc[v] /\ chan'[v] = chan[v]
      BY <1>t, <2>1 DEF WatchTypes
    <2>5. /\ statusChans' \in Seq(Watchers)
          /\ \A i, j \in 1..Len(statusChans') : statusChans'[i] = statusChans'[j] => i = j
          /\ \A x \in Watchers : Listed(x)' <=> (x # w /\ Listed(x))
      <3>1. statusChans \in Seq(Watchers) /\ \A i, j \in 1..Len(statusChans) : statusChans[i] = statusChans[j] => i = j
        BY <1>t DEF ListTypes, Exact
      <3>2. Distinct(statusChans)
        BY <3>1 DEF Distinct
      <3>3. /\ Removed(statusChans, w) \in Seq(Watchers) /\ Distinct(Removed(statusChans, w))
            /\ \A x : In(Removed(statusChans, w), x) <=> (x # w /\ In(statusChans, x))
        BY <3>1, <3>2, RemovedFacts
      <3> QED BY <2>1, <3>3 DEF Listed, Distinct, In
    <2>6. Exact'
      BY <2>1, <2>4, <2>5 DEF Exact, Watching
    <2> QED BY <1>t, <2>1, <2>3, <2>5, <2>6 DEF ServerTypes, ListTypes, CastTypes
  <1> QED BY <1>1, <1>2, <1>3, <1>4, <1>5, <1>6, <1>7, <1>8 DEF Next, Broadcast, Watch

ListInv == ReporterTypes /\ ServerTypes /\ OtherTypes /\ Exact

LEMMA ListInit == Init => ListInv
  <1> SUFFICES ASSUME Init PROVE ListInv
    OBVIOUS
  <1> USE DEF Init, ReporterInit
  <1>1. statusChans = <<>> /\ left = <<>> /\ reportChan = <<>>
    OBVIOUS
  <1>3. <<>> \in Seq(Watchers) /\ <<>> \in Seq(Statuses) /\ Len(<<>>) = 0
    OBVIOUS
  <1>2. ReporterTypes /\ OtherTypes
    <2>1. dropped \in BOOLEAN /\ crashed \in BOOLEAN
      BY Zenon
    <2>2. answer = None /\ Len(reportChan) <= 1
      BY <1>3
    <2> QED BY <1>3, <2>1, <2>2, ReporterAssumption DEF ReporterTypes, OtherTypes
  <1>4. ServerTypes
    BY <1>3 DEF ServerTypes, ListTypes, WatchTypes, CastTypes
  <1>5. Exact
    BY <1>1, <1>3 DEF Exact, Listed, InLeft, Watching
  <1> QED BY <1>2, <1>4, <1>5 DEF ListInv

LEMMA ListStep == ListInv /\ [Next]_vars => ListInv'
  <1> SUFFICES ASSUME ListInv, [Next]_vars PROVE ListInv'
    OBVIOUS
  <1>1. [ReporterNext]_reporterVars
    BY ReporterFrame DEF vars
  <1>2. ReporterTypes' /\ OtherTypes'
    BY <1>1, ReporterTyped, OtherTyped DEF ListInv
  <1> QED BY <1>2, ExactStep DEF ListInv

LEMMA ListAlways == Spec => []ListInv
  BY ListInit, ListStep, PTL DEF Spec

\* The list holds the channel of every Watch call under way, once, and of no
\* other, also after a removal that panicked, and broadcastStatus sends on open
\* channels only (health/service.go).
THEOREM ListExactHolds == Spec => []ListExact
  <1>1. ListInv => ListExact
    BY ExactList, TypeParts DEF ListInv, ServerTypes
  <1> QED BY <1>1, ListAlways, PTL

-----------------------------------------------------------------------------
(* The watchers agree *)
\* The newest status is pending, in the report channel, with broadcastStatus, or
\* on its way to each client broadcastStatus has no business with any more.
Delivered ==
    Quiet /\ bpc # "lock" =>
         \A w \in Watchers : wpc[w] \in {"recv", "send"} /\ (bpc = "send" => ~InLeft(w))
                             => Latest(w) = lastStatus

InFlight ==
    /\ pending # None => pending = lastStatus
    /\ pending = None /\ ~dropped /\ reportChan # <<>> => Head(reportChan) = lastStatus
    /\ Quiet /\ bpc # "recv" => bstatus = lastStatus

LEMMA AgreeInit == Init => InFlight /\ Delivered
  BY DEF Init, ReporterInit, InFlight, Delivered

LEMMA InFlightStep == ListInv /\ InFlight /\ [Next]_vars => InFlight'
  <1> SUFFICES ASSUME ListInv, InFlight, [Next]_vars PROVE InFlight'
    OBVIOUS
  <1> USE DEF InFlight, Quiet
  <1>t. reportChan \in Seq(Statuses) /\ Len(reportChan) <= 1
    BY DEF ListInv, ReporterTypes
  <1>1. ASSUME NEW s \in Statuses, Store(s), UNCHANGED castVars PROVE InFlight'
    <2>1. pending' = lastStatus' /\ pending' # None
      BY <1>1, ReporterAssumption DEF Store
    <2> QED BY <2>1
  <1>2. ASSUME Offer, UNCHANGED castVars PROVE InFlight'
    <2>1. pending = lastStatus /\ lastStatus' = lastStatus /\ pending' = None /\ reportChan' # <<>>
      BY <1>2 DEF Offer
    <2>2. ~dropped' => reportChan = <<>>
      BY <1>2, Zenon DEF Offer
    <2>3. reportChan = <<>> => Head(reportChan') = lastStatus'
      BY <1>2, <2>1 DEF Offer
    <2> QED BY <2>1, <2>2, <2>3
  <1>3. CASE CastReceive
    <2>1. /\ UNCHANGED <<lastStatus, pending, dropped>> /\ reportChan # <<>> /\ reportChan' = <<>>
          /\ bstatus' = Head(reportChan)
      BY <1>t, <1>3 DEF CastReceive, Consume
    <2> QED BY <2>1
  <1>4. CASE CastLock \/ CastSend \/ CastUnlock
    <2>1. UNCHANGED <<lastStatus, pending, dropped, reportChan>> /\ bpc' \in {"send", "recv"}
          /\ (bpc' = "recv" \/ bstatus' = bstatus) /\ bpc # "recv"
      BY <1>4 DEF CastLock, CastSend, CastUnlock, reporterVars
    <2> QED BY <2>1
  <1>5. CASE Check \/ (\E w \in Watchers : Watch(w)) \/ UNCHANGED vars
    <2>1. UNCHANGED <<lastStatus, pending, dropped, reportChan, bpc, bstatus>>
      BY <1>5 DEF Check, Watch, newStatusChan, Receive, Send, removeStatusChan, vars, reporterVars, castVars
    <2> QED BY <2>1
  <1> QED BY <1>1, <1>2, <1>3, <1>4, <1>5 DEF Next, Runner, Broadcast

LEMMA DeliveredStep == ListInv /\ InFlight /\ InFlight' /\ Delivered /\ [Next]_vars => Delivered'
  <1> SUFFICES ASSUME ListInv, InFlight, InFlight', Delivered, [Next]_vars, Quiet', bpc' # "lock",
                      NEW w \in Watchers, wpc'[w] \in {"recv", "send"}, bpc' = "send" => ~InLeft(w)'
               PROVE  Latest(w)' = lastStatus'
    BY DEF Delivered
  <1>t. WatchTypes /\ ListTypes /\ Exact /\ reportChan \in Seq(Statuses)
    BY DEF ListInv, ServerTypes, ReporterTypes
  <1>d. Quiet /\ bpc # "lock" /\ wpc[w] \in {"recv", "send"} /\ (bpc = "send" => ~InLeft(w))
        => Latest(w) = lastStatus
    BY DEF Delivered
  <1>1. CASE Runner
    <2>1. ASSUME NEW s \in Statuses, Store(s) PROVE FALSE
      BY <2>1, ReporterAssumption DEF Store, Quiet
    <2>2. CASE Offer
      BY <2>2, <1>t DEF Offer, Quiet
    <2> QED BY <1>1, <2>1, <2>2 DEF Runner
  <1>2. CASE CastReceive
    BY <1>2 DEF CastReceive
  <1>3. CASE CastLock
    <2>1. wpc[w] \in Watching /\ left' = statusChans /\ bpc' = "send"
      BY <1>3 DEF CastLock, watchVars, Watching
    <2>2. InLeft(w)'
      BY <1>t, <2>1 DEF Exact, Listed, InLeft
    <2> QED BY <2>1, <2>2
  <1>4. CASE CastSend
    <2>1. /\ left # <<>> /\ left' = Tail(left) /\ buf' = [buf EXCEPT ![Head(left)] = <<bstatus>>]
          /\ bpc = "send" /\ UNCHANGED <<reporterVars, wpc, resp, seen, bpc>>
      BY <1>4 DEF CastSend
    <2>2. Quiet /\ bstatus = lastStatus /\ lastStatus' = lastStatus
      BY <2>1 DEF Quiet, InFlight, reporterVars
    <2>3. CASE w = Head(left)
      <3>1. buf'[w] = <<bstatus>>
        BY <1>t, <2>1, <2>3 DEF WatchTypes
      <3> QED BY <2>2, <3>1 DEF Latest
    <2>4. CASE w # Head(left)
      <3>1. ~InLeft(w)
        <4>1. Len(left) \in Nat /\ Len(left) >= 1 /\ Len(left') = Len(left) - 1
              /\ \A i \in 1..Len(left') : left'[i] = left[i + 1]
          BY <1>t, <2>1 DEF ListTypes
        <4>2. left[1] # w
          BY <1>t, <2>1, <2>4 DEF ListTypes
        <4>3. ASSUME NEW i \in 1..Len(left), left[i] = w PROVE InLeft(w)'
          <5>1. i - 1 \in 1..Len(left') /\ left'[i - 1] = w
            BY <4>1, <4>2, <4>3
          <5> QED BY <5>1 DEF InLeft
        <4> QED BY <2>1, <4>3 DEF InLeft
      <3>2. buf'[w] = buf[w] /\ wpc'[w] = wpc[w] /\ resp'[w] = resp[w] /\ seen'[w] = seen[w]
        BY <1>t, <2>1, <2>4 DEF WatchTypes
      <3> QED BY <1>d, <2>1, <2>2, <3>1, <3>2 DEF Latest
    <2> QED BY <2>3, <2>4
  <1>5. CASE CastUnlock
    <2>1. left = <<>> /\ bpc = "send" /\ UNCHANGED <<reporterVars, watchVars, left>>
      BY <1>5 DEF CastUnlock
    <2>2. ~InLeft(w)
      BY <2>1 DEF InLeft
    <2> QED BY <1>d, <2>1, <2>2 DEF Latest, Quiet, reporterVars, watchVars
  <1>6. CASE Check \/ UNCHANGED vars
    <2>1. UNCHANGED <<reporterVars, watchVars, castVars>>
      BY <1>6 DEF Check, vars
    <2> QED BY <1>d, <2>1 DEF Latest, Quiet, InLeft, reporterVars, watchVars, castVars
  <1>7. ASSUME NEW v \in Watchers, Watch(v) PROVE Latest(w)' = lastStatus'
    <2>1. UNCHANGED <<reporterVars, castVars>>
      BY <1>7 DEF Watch, newStatusChan, Receive, Send, removeStatusChan
    <2>2. Quiet /\ bpc # "lock" /\ lastStatus' = lastStatus /\ (bpc = "send" => ~InLeft(w))
      BY <2>1 DEF Quiet, reporterVars, castVars, InLeft
    <2>3. CASE v # w
      <3>1. wpc'[w] = wpc[w] /\ buf'[w] = buf[w] /\ resp'[w] = resp[w] /\ seen'[w] = seen[w]
        <4>1. CASE newStatusChan(v) \/ Receive(v)
          BY <1>t, <2>3, <4>1 DEF newStatusChan, Receive, WatchTypes
        <4>2. CASE Send(v) \/ removeStatusChan(v)
          BY <1>t, <2>3, <4>2 DEF Send, removeStatusChan, WatchTypes
        <4> QED BY <1>7, <4>1, <4>2 DEF Watch
      <3> QED BY <1>d, <2>2, <3>1 DEF Latest
    <2>4. CASE v = w
      <3>1. CASE newStatusChan(w)
        <4>1. buf'[w] = <<lastStatus>>
          BY <1>t, <3>1 DEF newStatusChan, WatchTypes
        <4> QED BY <2>2, <4>1 DEF Latest
      <3>2. CASE Receive(w)
        <4>1. /\ wpc[w] = "recv" /\ buf[w] # <<>> /\ Len(buf[w]) <= 1 /\ buf[w] \in Seq(Statuses)
              /\ resp'[w] = Head(buf[w]) /\ buf'[w] = Tail(buf[w]) /\ wpc'[w] = "send"
          BY <1>t, <3>2 DEF Receive, WatchTypes
        <4>2. buf'[w] = <<>>
          BY <4>1
        <4> QED BY <1>d, <2>2, <4>1, <4>2 DEF Latest
      <3>3. CASE Send(w)
        <4>1. wpc[w] = "send" /\ buf'[w] = buf[w] /\ (wpc'[w] = "remove" \/ (wpc'[w] = "recv" /\ seen'[w] = resp[w]))
          BY <1>t, <3>3 DEF Send, WatchTypes
        <4> QED BY <1>d, <2>2, <4>1 DEF Latest
      <3>4. CASE removeStatusChan(w)
        BY <1>t, <3>4 DEF removeStatusChan, WatchTypes
      <3> QED BY <1>7, <2>4, <3>1, <3>2, <3>3, <3>4 DEF Watch
    <2> QED BY <2>3, <2>4
  <1> QED BY <1>1, <1>2, <1>3, <1>4, <1>5, <1>6, <1>7 DEF Next, Broadcast

\* Once a change was reported without a drop and all that is in flight has been
\* delivered, every client that is still served was last sent the reporter's
\* status (health/service.go, Watch and broadcastStatus).
THEOREM WatchersAgreeHolds == Spec => []WatchersAgree
  <1>1. InFlight /\ Delivered => WatchersAgree
    BY DEF Delivered, Quiet, Latest, WatchersAgree
  <1>2. Spec => [](InFlight /\ Delivered)
    BY ListAlways, AgreeInit, InFlightStep, DeliveredStep, PTL DEF Spec
  <1> QED BY <1>1, <1>2, PTL
=============================================================================
