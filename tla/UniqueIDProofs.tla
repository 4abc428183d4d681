-------------------------- MODULE UniqueIDProofs ----------------------------
(* Theorems about UniqueID, for every field width, clock and set of processes. *)
EXTENDS UniqueID, TLAPS

-----------------------------------------------------------------------------
(* Packing *)

\* A number is determined by its quotient part and remainder part.
LEMMA Digit ==
    ASSUME NEW a \in Nat, NEW b \in Nat, NEW k \in Nat \ {0},
           NEW r \in 0..(k - 1), NEW q \in 0..(k - 1), a * k + r = b * k + q
    PROVE  a = b /\ r = q
  <1>1. ASSUME NEW x \in Nat, NEW y \in Nat, NEW u \in 0..(k - 1), NEW v \in 0..(k - 1),
               x * k + u = y * k + v, x < y
        PROVE  FALSE
    <2>1. y = x + (y - x) /\ y - x \in Nat /\ y - x >= 1
      BY <1>1
    <2>2. PICK d \in Nat : d >= 1 /\ y = x + d
      BY <2>1
    <2>3. y * k = x * k + d * k
      BY <2>2
    <2>4. d * k >= k
      BY <2>2
    <2>5. x * k \in Int /\ d * k \in Int
      BY <2>2
    <2> QED BY <1>1, <2>3, <2>4, <2>5
  <1>2. a = b
    BY <1>1
  <1>3. a * k \in Int
    OBVIOUS
  <1> QED BY <1>2, <1>3

\* Ids are packed without loss when the fields fit.
LEMMA PackInjective ==
    ASSUME NEW t \in Nat, NEW u \in Nat, NEW m \in 0..(NodeCount - 1), NEW n \in 0..(NodeCount - 1),
           NEW r \in 0..(StepCount - 1), NEW s \in 0..(StepCount - 1),
           Pack(t, m, r) = Pack(u, n, s)
    PROVE  t = u /\ m = n /\ r = s
  <1>1. NodeCount \in Nat \ {0} /\ StepCount \in Nat \ {0}
    BY UniqueIDAssumption DEF NodeCount
  <1>2. t * NodeCount + m \in Nat /\ u * NodeCount + n \in Nat
    BY <1>1
  <1>3. t * NodeCount + m = u * NodeCount + n /\ r = s
    BY <1>1, <1>2, Digit DEF Pack
  <1> QED BY <1>1, <1>3, Digit
\* Packed ids are blocks of the cipher.
LEMMA PackRange ==
    ASSUME NEW t \in 0..(TimeCount - 1), NEW n \in 0..(NodeCount - 1), NEW s \in 0..(StepCount - 1)
    PROVE  Pack(t, n, s) \in PlainIDs
  <1>0. /\ NodeCount \in Nat \ {0} /\ StepCount \in Nat \ {0} /\ TimeCount \in Nat \ {0}
    BY UniqueIDAssumption DEF NodeCount
  <1>1. ASSUME NEW a \in Nat, NEW b \in Nat \ {0}, NEW k \in Nat \ {0}, a < b, NEW r \in 0..(k - 1)
        PROVE  a * k + r \in Nat /\ a * k + r < b * k /\ b * k \in Nat \ {0}
    <2>1. PICK d \in Nat : d >= 1 /\ b = a + d
      <3>1. b - a \in Nat /\ b - a >= 1 /\ b = a + (b - a)
        BY <1>1
      <3> QED BY <3>1
    <2>2. b * k = a * k + d * k /\ d * k >= k /\ a * k \in Nat /\ d * k \in Nat
      BY <2>1
    <2> QED BY <2>2
  <1> DEFINE N == NodeCount
             x == t * N + n
             T == TimeCount * N
  <1> HIDE DEF N
  <1>2. x \in Nat /\ x < T /\ T \in Nat \ {0}
    BY <1>0, <1>1 DEF N
  <1> HIDE DEF x, T
  <1>3. x * StepCount + s \in Nat /\ x * StepCount + s < T * StepCount /\ T * StepCount \in Nat
    BY <1>0, <1>1, <1>2
  <1> QED BY <1>3 DEF Pack, PlainIDs, x, T, N

\* Accepted processes have node ids in range, and no two have the same.
LEMMA NodeIDs ==
    /\ \A p \in Procs : Accepts(p) => nodeID(p) \in 0..(NodeCount - 1)
    /\ \A p, q \in Procs : Accepts(p) /\ Accepts(q) /\ nodeID(p) = nodeID(q) => p = q
  <1>0. /\ InstanceCount \in Nat \ {0} /\ ServiceCount \in Nat \ {0}
        /\ \A p \in Procs : p = <<p[1], p[2]>> /\ p[1] \in Int /\ p[2] \in Int
    BY UniqueIDAssumption
  <1>1. ASSUME NEW p \in Procs, Accepts(p) PROVE nodeID(p) \in 0..(NodeCount - 1)
    <2>1. /\ p[1] \in Nat /\ p[1] < ServiceCount /\ p[2] \in 0..(InstanceCount - 1)
      BY <1>0, <1>1 DEF Accepts
    <2>2. PICK d \in Nat : d >= 1 /\ ServiceCount = p[1] + d
      <3>1. ServiceCount - p[1] \in Nat /\ ServiceCount - p[1] >= 1
            /\ ServiceCount = p[1] + (ServiceCount - p[1])
        BY <1>0, <2>1
      <3> QED BY <3>1
    <2>3. /\ ServiceCount * InstanceCount = p[1] * InstanceCount + d * InstanceCount
          /\ d * InstanceCount >= InstanceCount
          /\ p[1] * InstanceCount \in Nat /\ d * InstanceCount \in Nat
      BY <1>0, <2>1, <2>2
    <2> QED BY <1>0, <2>1, <2>3 DEF nodeID, NodeCount
  <1>2. ASSUME NEW p \in Procs, NEW q \in Procs, Accepts(p), Accepts(q), nodeID(p) = nodeID(q)
        PROVE  p = q
    <2>1. /\ p[1] \in Nat /\ p[2] \in 0..(InstanceCount - 1)
          /\ q[1] \in Nat /\ q[2] \in 0..(InstanceCount - 1)
      BY <1>0, <1>2 DEF Accepts
    <2>2. p[1] = q[1] /\ p[2] = q[2]
      BY <1>0, <1>2, <2>1, Digit DEF nodeID
    <2> QED BY <1>0, <2>2
  <1> QED BY <1>1, <1>2

-----------------------------------------------------------------------------
(* The tick *)

\* Every attempt moves (lastTime, step) forward, and not behind the clock.
LEMMA TickForward ==
    ASSUME NEW now \in Nat, NEW t \in Nat, NEW s \in Nat, s < StepCount
    PROVE  /\ NextTick(now, t, s)[1] \in Nat /\ NextTick(now, t, s)[2] \in 0..(StepCount - 1)
           /\ Before(t, s, NextTick(now, t, s)[1], NextTick(now, t, s)[2])
           /\ now <= NextTick(now, t, s)[1]
  BY UniqueIDAssumption DEF NextTick, Before

-----------------------------------------------------------------------------
(* Types, without any assumption on clocks and restarts *)

TInv ==
    /\ TypeOK
    /\ \A p \in Procs : step[p] < StepCount
    /\ \A p \in Procs : gen[p] = "ready" => Accepts(p)

\* What one attempt of NewID does, with names for its tick and its id.
LEMMA Attempt ==
    ASSUME TInv, NEW p \in Procs, NewID(p)
    PROVE  \E t1 \in 0..(TimeCount - 1), s1 \in 0..(StepCount - 1), id \in Nat :
              /\ id = Encrypt(Pack(t1, nodeID(p), s1))
              /\ lastTime' = [lastTime EXCEPT ![p] = t1] /\ step' = [step EXCEPT ![p] = s1]
              /\ \/ minted' = minted \cup last /\ last' = {id}
                 \/ minted' = minted /\ last' = last
              /\ UNCHANGED <<clock, gen, restarts>>
              /\ Before(lastTime[p], step[p], t1, s1) /\ clock[p] <= t1
              /\ Accepts(p)
  <1> USE UniqueIDAssumption
  <1> DEFINE tick == NextTick(clock[p], lastTime[p], step[p])
  <1>0. \E t1, s1, id : t1 = tick[1] /\ s1 = tick[2] /\ id = Encrypt(Pack(t1, nodeID(p), s1))
    OBVIOUS
  <1> PICK t1, s1, id : t1 = tick[1] /\ s1 = tick[2] /\ id = Encrypt(Pack(t1, nodeID(p), s1))
    BY <1>0
  <1>1. /\ gen[p] = "ready" /\ t1 < TimeCount
        /\ lastTime' = [lastTime EXCEPT ![p] = t1] /\ step' = [step EXCEPT ![p] = s1]
        /\ \/ minted' = minted \cup last /\ last' = {id}
           \/ minted' = minted /\ last' = last
        /\ UNCHANGED <<clock, gen, restarts>>
    BY DEF NewID
  <1>2. /\ t1 \in Nat /\ s1 \in 0..(StepCount - 1)
        /\ Before(lastTime[p], step[p], t1, s1) /\ clock[p] <= t1
    <2>1. clock[p] \in Nat /\ lastTime[p] \in Nat /\ step[p] \in Nat /\ step[p] < StepCount
      BY DEF TInv, TypeOK
    <2> QED BY <2>1, TickForward
  <1> HIDE DEF tick
  <1>3. Accepts(p) /\ nodeID(p) \in 0..(NodeCount - 1)
    BY <1>1, NodeIDs DEF TInv
  <1>4. t1 \in 0..(TimeCount - 1)
    BY <1>1, <1>2
  <1>5. Pack(t1, nodeID(p), s1) \in PlainIDs
    BY <1>2, <1>3, <1>4, PackRange
  <1>6. id \in Nat
    BY <1>5, EncryptAssumption
  <1> QED BY <1>1, <1>2, <1>3, <1>4, <1>6

\* Every step keeps the types, the bound on the step and the checked node ids.
LEMMA TInvStep == TInv /\ [Next]_vars => TInv'
  <1> USE UniqueIDAssumption
  <1> SUFFICES ASSUME TInv, [Next]_vars PROVE TInv'
    OBVIOUS
  <1>t. /\ clock \in [Procs -> 0..MaxClock] /\ gen \in [Procs -> {"none", "ready", "error"}]
        /\ lastTime \in [Procs -> Nat] /\ step \in [Procs -> Nat]
        /\ minted \subseteq Nat /\ last \subseteq Nat /\ restarts \in Nat
    BY DEF TInv, TypeOK
  <1>1. ASSUME NEW p \in Procs, NewGeneratorFromHostName(p) PROVE TInv'
    <2>1. \A q \in Procs : gen'[q] = "ready" => Accepts(q)
      BY <1>1, <1>t DEF NewGeneratorFromHostName, TInv
    <2> QED BY <1>1, <1>t, <2>1 DEF NewGeneratorFromHostName, TInv, TypeOK
  <1>2. ASSUME NEW p \in Procs, NewID(p) PROVE TInv'
    <2>1. PICK t1 \in 0..(TimeCount - 1), s1 \in 0..(StepCount - 1), id \in Nat :
              /\ lastTime' = [lastTime EXCEPT ![p] = t1] /\ step' = [step EXCEPT ![p] = s1]
              /\ \/ minted' = minted \cup last /\ last' = {id}
                 \/ minted' = minted /\ last' = last
              /\ UNCHANGED <<clock, gen, restarts>>
      BY <1>2, Attempt
    <2>2. lastTime' \in [Procs -> Nat] /\ step' \in [Procs -> Nat]
      BY <1>t, <2>1
    <2>3. minted' \subseteq Nat /\ last' \subseteq Nat
      BY <1>t, <2>1
    <2>4. \A q \in Procs : step'[q] < StepCount
      BY <1>t, <2>1 DEF TInv
    <2> QED BY <1>t, <2>1, <2>2, <2>3, <2>4 DEF TInv, TypeOK
  <1>3. ASSUME NEW p \in Procs, Restart(p) PROVE TInv'
    <2>1. \A q \in Procs : gen'[q] = "ready" => Accepts(q)
      BY <1>3, <1>t DEF Restart, TInv
    <2>2. \A q \in Procs : step'[q] < StepCount
      BY <1>3, <1>t DEF Restart, TInv
    <2> QED BY <1>3, <1>t, <2>1, <2>2 DEF Restart, TInv, TypeOK
  <1>4. ASSUME NEW p \in Procs, Clock(p) PROVE TInv'
    BY <1>4, <1>t DEF Clock, TInv, TypeOK
  <1>5. CASE UNCHANGED vars
    BY <1>5 DEF vars, TInv, TypeOK
  <1> QED BY <1>1, <1>2, <1>3, <1>4, <1>5 DEF Next

\* Initially there are no generators.
LEMMA InitTInv == Init => TInv
  <1> SUFFICES ASSUME Init PROVE TInv
    OBVIOUS
  <1>1. TypeOK
    BY DEF Init, TypeOK
  <1>2. \A p \in Procs : step[p] = 0 /\ gen[p] = "none"
    BY DEF Init
  <1> QED BY <1>1, <1>2, UniqueIDAssumption DEF TInv

\* The fields of the ids of living generators never overlap, for every clock
\* and every restart: the step stays below StepCount and node ids are distinct.
THEOREM FieldsFitHolds == Spec => []FieldsFit
  <1>1. TInv => FieldsFit
    <2> SUFFICES ASSUME TInv, NEW p \in Procs, gen[p] = "ready"
                 PROVE  /\ step[p] < StepCount
                        /\ nodeID(p) \in 0..(NodeCount - 1)
                        /\ \A q \in Procs : gen[q] = "ready" /\ nodeID(q) = nodeID(p) => q = p
      BY DEF FieldsFit
    <2> QED BY NodeIDs DEF TInv
  <1> QED BY <1>1, InitTInv, TInvStep, PTL DEF Spec

-----------------------------------------------------------------------------
(* Uniqueness *)

\* Where an id came from, and why it cannot come again: its tick is not after
\* the generator's, or it lies before the clock and the clock never goes back.
Spent(p, t, s) ==
    \/ t < lastTime[p]
    \/ t = lastTime[p] /\ s <= step[p]
    \/ p \notin ClockBack /\ t < clock[p]

Origin(x) ==
    \E p \in Procs, t \in 0..(TimeCount - 1), s \in 0..(StepCount - 1) :
        /\ Accepts(p)
        /\ x = Encrypt(Pack(t, nodeID(p), s))
        /\ Spent(p, t, s)

IInv == TInv /\ \A x \in minted \cup last : Origin(x)

\* The processes that restart have monotonic clocks, and come back only once
\* their clock has passed everything they handed out.
Regime == Restarting = {} \/ (Restarting \cap ClockBack = {} /\ ~RestartEarly)

\* A process that only changes its own state in a way that keeps what is spent
\* keeps the origin of every id.
LEMMA OriginKept ==
    ASSUME \A p \in Procs, t \in 0..(TimeCount - 1), s \in 0..(StepCount - 1) :
              Spent(p, t, s) => Spent(p, t, s)',
           NEW x, Origin(x)
    PROVE  Origin(x)'
  BY DEF Origin

\* Every step keeps the inductive invariant and the uniqueness of ids.
LEMMA UniqueStep ==
    ASSUME Regime, IInv, Unique, [Next]_vars
    PROVE  IInv' /\ Unique'
  <1> USE UniqueIDAssumption
  <1>0. TInv /\ TInv'
    BY TInvStep DEF IInv
  <1>t. /\ clock \in [Procs -> 0..MaxClock] /\ gen \in [Procs -> {"none", "ready", "error"}]
        /\ lastTime \in [Procs -> Nat] /\ step \in [Procs -> Nat]
    BY <1>0 DEF TInv, TypeOK
  <1>s. ASSUME minted' = minted, last' = last,
               \A q \in Procs, t \in 0..(TimeCount - 1), s \in 0..(StepCount - 1) :
                   Spent(q, t, s) => Spent(q, t, s)'
        PROVE  IInv' /\ Unique'
    <2>1. \A x \in minted \cup last : Origin(x)'
      BY <1>s, OriginKept DEF IInv
    <2> QED BY <1>0, <1>s, <2>1 DEF IInv, Unique
  <1>1. ASSUME NEW p \in Procs, NewGeneratorFromHostName(p) PROVE IInv' /\ Unique'
    BY <1>1, <1>s DEF NewGeneratorFromHostName, Spent
  <1>2. ASSUME NEW p \in Procs, NewID(p) PROVE IInv' /\ Unique'
    <2>1. PICK t1 \in 0..(TimeCount - 1), s1 \in 0..(StepCount - 1), id \in Nat :
              /\ id = Encrypt(Pack(t1, nodeID(p), s1))
              /\ lastTime' = [lastTime EXCEPT ![p] = t1] /\ step' = [step EXCEPT ![p] = s1]
              /\ \/ minted' = minted \cup last /\ last' = {id}
                 \/ minted' = minted /\ last' = last
              /\ UNCHANGED <<clock, gen, restarts>>
              /\ Before(lastTime[p], step[p], t1, s1) /\ clock[p] <= t1
              /\ Accepts(p)
      BY <1>0, <1>2, Attempt
    <2>3. Accepts(p) /\ nodeID(p) \in 0..(NodeCount - 1)
      BY <2>1, NodeIDs
    <2>4. Pack(t1, nodeID(p), s1) \in PlainIDs
      BY <2>3, PackRange
    <2>5. ASSUME NEW t \in 0..(TimeCount - 1), NEW s \in 0..(StepCount - 1), Spent(p, t, s)
          PROVE  t < t1 \/ (t = t1 /\ s < s1)
      BY <1>t, <2>1, <2>5 DEF Spent, Before
    <2>6. id \notin minted \cup last
      <3> SUFFICES ASSUME id \in minted \cup last PROVE FALSE
        OBVIOUS
      <3>1. PICK q \in Procs, t \in 0..(TimeCount - 1), s \in 0..(StepCount - 1) :
               Accepts(q) /\ id = Encrypt(Pack(t, nodeID(q), s)) /\ Spent(q, t, s)
        BY DEF IInv, Origin
      <3>2. nodeID(q) \in 0..(NodeCount - 1)
        BY <3>1, NodeIDs
      <3>3. Pack(t, nodeID(q), s) \in PlainIDs
        BY <3>2, PackRange
      <3>4. Pack(t, nodeID(q), s) = Pack(t1, nodeID(p), s1)
        BY <2>1, <2>4, <3>1, <3>3, EncryptAssumption
      <3>5. t = t1 /\ nodeID(q) = nodeID(p) /\ s = s1
        BY <2>3, <3>2, <3>4, PackInjective
      <3>6. q = p
        BY <2>3, <3>1, <3>5, NodeIDs
      <3> QED BY <2>5, <3>1, <3>5, <3>6
    <2>7. \A q \in Procs, t \in 0..(TimeCount - 1), s \in 0..(StepCount - 1) :
              Spent(q, t, s) => Spent(q, t, s)'
      BY <1>t, <2>1, <2>5 DEF Spent
    <2>8. \A x \in minted \cup last : Origin(x)'
      BY <2>7, OriginKept DEF IInv
    <2>9. Origin(id)'
      <3>1. Spent(p, t1, s1)'
        BY <1>t, <2>1 DEF Spent
      <3> QED BY <2>1, <3>1 DEF Origin
    <2>10. minted' \cup last' \subseteq minted \cup last \cup {id}
      BY <2>1
    <2>13. Unique'
      BY <2>1, <2>6 DEF Unique
    <2> QED BY <1>0, <2>8, <2>9, <2>10, <2>13 DEF IInv
  <1>3. ASSUME NEW p \in Procs, Restart(p) PROVE IInv' /\ Unique'
    <2>1. p \notin ClockBack /\ clock[p] > lastTime[p]
      BY <1>3, <1>t DEF Restart, Regime
    <2>2. \A q \in Procs, t \in 0..(TimeCount - 1), s \in 0..(StepCount - 1) :
              Spent(q, t, s) => Spent(q, t, s)'
      BY <1>3, <1>t, <2>1 DEF Restart, Spent
    <2> QED BY <1>3, <1>s, <2>2 DEF Restart
  <1>4. ASSUME NEW p \in Procs, Clock(p) PROVE IInv' /\ Unique'
    <2>1. PICK c \in 0..MaxClock : (c > clock[p] \/ (p \in ClockBack /\ c < clock[p]))
                                   /\ clock' = [clock EXCEPT ![p] = c]
      BY <1>4 DEF Clock
    <2>2. UNCHANGED <<gen, lastTime, step, minted, last, restarts>>
      BY <1>4 DEF Clock
    <2>3. \A q \in Procs, t \in 0..(TimeCount - 1), s \in 0..(StepCount - 1) :
              Spent(q, t, s) => Spent(q, t, s)'
      BY <1>t, <2>1, <2>2 DEF Spent
    <2> QED BY <1>s, <2>2, <2>3
  <1>5. CASE UNCHANGED vars
    BY <1>5, <1>s DEF vars, Spent
  <1> QED BY <1>1, <1>2, <1>3, <1>4, <1>5 DEF Next

\* Initially nothing was minted.
LEMMA InitInv == Init => IInv /\ Unique
  BY InitTInv DEF Init, IInv, Unique

\* Ids never collide, across processes, whatever the clocks do, as long as no
\* process restarts; with restarts, as long as clocks are monotonic and a process
\* comes back only after its clock has passed what it handed out.
THEOREM UniqueHolds == Regime /\ Spec => []Unique
  <1>1. Init => IInv /\ Unique
    BY InitInv
  <1>2. Regime /\ IInv /\ Unique /\ [Next]_vars => IInv' /\ Unique'
    BY UniqueStep
  <1>3. Regime => Regime'
    BY DEF Regime
  <1> QED BY <1>1, <1>2, <1>3, PTL DEF Spec

\* The tick of a living generator only moves forward, for every clock and every
\* restart.
THEOREM TickGrowsHolds == Spec => TickGrows
  <1> DEFINE Grows == \A p \in Procs :
                  gen[p] = "ready" /\ gen'[p] = "ready"
                  /\ <<lastTime[p], step[p]>>' # <<lastTime[p], step[p]>>
                    => Before(lastTime[p], step[p], lastTime'[p], step'[p])
  <1>1. TInv /\ [Next]_vars => [Grows]_vars
    <2> SUFFICES ASSUME TInv, Next, NEW q \in Procs, gen[q] = "ready", gen'[q] = "ready",
                        <<lastTime[q], step[q]>>' # <<lastTime[q], step[q]>>
                 PROVE  Before(lastTime[q], step[q], lastTime'[q], step'[q])
      OBVIOUS
    <2>1. /\ lastTime \in [Procs -> Nat] /\ step \in [Procs -> Nat]
          /\ gen \in [Procs -> {"none", "ready", "error"}]
      BY DEF TInv, TypeOK
    <2>2. PICK p \in Procs : NewGeneratorFromHostName(p) \/ NewID(p) \/ Restart(p) \/ Clock(p)
      BY DEF Next
    <2>3. NewID(p) /\ p = q
      BY <2>1, <2>2 DEF NewGeneratorFromHostName, NewID, Restart, Clock
    <2>4. PICK t1 \in 0..(TimeCount - 1), s1 \in 0..(StepCount - 1), id \in Nat :
              /\ lastTime' = [lastTime EXCEPT ![p] = t1] /\ step' = [step EXCEPT ![p] = s1]
              /\ Before(lastTime[p], step[p], t1, s1)
      BY <2>3, Attempt
    <2> QED BY <2>1, <2>3, <2>4
  <1> QED BY <1>1, InitTInv, TInvStep, PTL DEF Spec, TickGrows

=============================================================================
