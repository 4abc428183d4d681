----------------------------- MODULE PoolProofs -----------------------------
(* Theorems about Pool, for every set of borrowers and every configuration.  *)
EXTENDS Pool, FiniteSetTheorems, TLAPS

-----------------------------------------------------------------------------
(* Sequences of connections: what the idle-list operations return. *)

\* popBack keeps all elements but the last.
LEMMA PopBackProps ==
    ASSUME NEW S, NEW l \in Seq(S), l # <<>>
    PROVE  /\ popBack(l) \in Seq(S)
           /\ Len(popBack(l)) = Len(l) - 1
           /\ \A i \in 1..(Len(l) - 1) : popBack(l)[i] = l[i]
           /\ Back(l) \in S
           /\ Len(l) \in Nat /\ Len(l) >= 1
  <1>1. Len(l) \in Nat /\ Len(l) >= 1 /\ \A i \in 1..Len(l) : l[i] \in S
    OBVIOUS
  <1>2. \A i \in 1..(Len(l) - 1) : l[i] \in S
    BY <1>1
  <1>3. popBack(l) \in Seq(S) /\ Len(popBack(l)) = Len(l) - 1
    BY <1>1, <1>2 DEF popBack
  <1>4. \A i \in 1..(Len(l) - 1) : popBack(l)[i] = l[i]
    BY DEF popBack
  <1> QED BY <1>1, <1>3, <1>4 DEF Back

\* popFront keeps all elements but the first.
LEMMA PopFrontProps ==
    ASSUME NEW S, NEW l \in Seq(S), l # <<>>
    PROVE  /\ popFront(l) \in Seq(S)
           /\ Len(popFront(l)) = Len(l) - 1
           /\ \A i \in 1..(Len(l) - 1) : popFront(l)[i] = l[i + 1]
           /\ Head(l) \in S /\ Head(l) = l[1]
           /\ Len(l) \in Nat /\ Len(l) >= 1
  BY DEF popFront

\* pushFront adds one element at the front.
LEMMA PushFrontProps ==
    ASSUME NEW S, NEW l \in Seq(S), NEW c \in S
    PROVE  /\ pushFront(l, c) \in Seq(S)
           /\ Len(pushFront(l, c)) = Len(l) + 1
           /\ pushFront(l, c)[1] = c
           /\ \A i \in 1..Len(l) : pushFront(l, c)[i + 1] = l[i]
           /\ pushFront(l, c) # <<>>
           /\ Len(l) \in Nat
  BY DEF pushFront

\* Taking the last element out of a list without duplicates.
LEMMA PopBackElems ==
    ASSUME NEW S, NEW l \in Seq(S), l # <<>>, Distinct(l)
    PROVE  /\ Distinct(popBack(l))
           /\ Elems(popBack(l)) = Elems(l) \ {Back(l)}
           /\ Back(l) \in Elems(l)
  <1>0. /\ Len(popBack(l)) = Len(l) - 1 /\ Len(l) \in Nat /\ Len(l) >= 1
        /\ \A i \in 1..(Len(l) - 1) : popBack(l)[i] = l[i]
    BY PopBackProps
  <1>1. l[Len(l)] \in Elems(l) /\ Len(l) \in 1..Len(l)
    BY <1>0 DEF Elems
  <1>2. Distinct(popBack(l))
    <2> SUFFICES ASSUME NEW i \in 1..(Len(l) - 1), NEW j \in 1..(Len(l) - 1), l[i] = l[j]
                 PROVE  i = j
      BY <1>0 DEF Distinct
    <2>1. i \in 1..Len(l) /\ j \in 1..Len(l)
      BY <1>0
    <2> QED BY <2>1 DEF Distinct
  <1>3. ASSUME NEW c PROVE c \in Elems(popBack(l)) <=> c \in Elems(l) \ {l[Len(l)]}
    <2>1. ASSUME c \in Elems(popBack(l)) PROVE c \in Elems(l) \ {l[Len(l)]}
      <3>1. PICK i \in 1..(Len(l) - 1) : c = l[i]
        BY <2>1, PopBackProps DEF Elems
      <3> QED BY <3>1, <1>1 DEF Elems, Distinct
    <2>2. ASSUME c \in Elems(l), c # l[Len(l)] PROVE c \in Elems(popBack(l))
      <3>1. PICK i \in 1..Len(l) : c = l[i]
        BY <2>2 DEF Elems
      <3>2. i \in 1..(Len(l) - 1)
        BY <3>1, <2>2, PopBackProps
      <3>3. c = popBack(l)[i] /\ i \in 1..Len(popBack(l))
        BY <3>1, <3>2, PopBackProps
      <3> QED BY <3>3 DEF Elems
    <2> QED BY <2>1, <2>2
  <1> QED BY <1>1, <1>2, <1>3 DEF Back

\* Taking the first element out of a list without duplicates.
LEMMA PopFrontElems ==
    ASSUME NEW S, NEW l \in Seq(S), l # <<>>, Distinct(l)
    PROVE  /\ Distinct(popFront(l))
           /\ Elems(popFront(l)) = Elems(l) \ {Head(l)}
           /\ Head(l) \in Elems(l)
  <1>1. l[1] \in Elems(l) /\ 1 \in 1..Len(l) /\ Head(l) = l[1]
    BY PopFrontProps DEF Elems
  <1>2. Distinct(popFront(l))
    <2> SUFFICES ASSUME NEW i \in 1..Len(popFront(l)), NEW j \in 1..Len(popFront(l)),
                        popFront(l)[i] = popFront(l)[j]
                 PROVE  i = j
      BY DEF Distinct
    <2>1. i \in 1..(Len(l) - 1) /\ j \in 1..(Len(l) - 1) /\ l[i + 1] = l[j + 1]
      BY PopFrontProps
    <2>2. i + 1 \in 1..Len(l) /\ j + 1 \in 1..Len(l)
      BY <2>1, PopFrontProps
    <2>3. i + 1 = j + 1
      BY <2>1, <2>2 DEF Distinct
    <2> QED BY <2>3, <2>1
  <1>3. ASSUME NEW c PROVE c \in Elems(popFront(l)) <=> c \in Elems(l) \ {l[1]}
    <2>1. ASSUME c \in Elems(popFront(l)) PROVE c \in Elems(l) \ {l[1]}
      <3>1. PICK i \in 1..(Len(l) - 1) : c = l[i + 1]
        BY <2>1, PopFrontProps DEF Elems
      <3>2. i + 1 \in 1..Len(l) /\ i + 1 # 1
        BY <3>1, PopFrontProps
      <3> QED BY <3>1, <3>2, <1>1 DEF Elems, Distinct
    <2>2. ASSUME c \in Elems(l), c # l[1] PROVE c \in Elems(popFront(l))
      <3>1. PICK i \in 1..Len(l) : c = l[i]
        BY <2>2 DEF Elems
      <3>2. i - 1 \in 1..(Len(l) - 1) /\ (i - 1) + 1 = i
        BY <3>1, <2>2, PopFrontProps
      <3>3. c = popFront(l)[i - 1] /\ i - 1 \in 1..Len(popFront(l))
        BY <3>1, <3>2, PopFrontProps
      <3> QED BY <3>3 DEF Elems
    <2> QED BY <2>1, <2>2
  <1> QED BY <1>1, <1>2, <1>3

\* Adding a new element at the front of a list without duplicates.
LEMMA PushFrontElems ==
    ASSUME NEW S, NEW l \in Seq(S), NEW c \in S, Distinct(l), c \notin Elems(l)
    PROVE  /\ Distinct(pushFront(l, c))
           /\ Elems(pushFront(l, c)) = Elems(l) \cup {c}
  <1> DEFINE p == pushFront(l, c)
  <1>1. /\ p \in Seq(S) /\ Len(p) = Len(l) + 1 /\ Len(l) \in Nat /\ p[1] = c
        /\ \A i \in 1..Len(l) : p[i + 1] = l[i]
    BY PushFrontProps
  <1>2. \A i \in 1..Len(p) : i # 1 => i - 1 \in 1..Len(l) /\ p[i] = l[i - 1]
    <2> SUFFICES ASSUME NEW i \in 1..Len(p), i # 1
                 PROVE  i - 1 \in 1..Len(l) /\ p[i] = l[i - 1]
      OBVIOUS
    <2>1. i - 1 \in 1..Len(l) /\ (i - 1) + 1 = i
      BY <1>1
    <2> QED BY <2>1, <1>1
  <1> HIDE DEF p
  <1>3. Distinct(p)
    <2> SUFFICES ASSUME NEW i \in 1..Len(p), NEW j \in 1..Len(p), p[i] = p[j]
                 PROVE  i = j
      BY DEF Distinct
    <2>1. CASE i = 1 \/ j = 1
      BY <2>1, <1>1, <1>2 DEF Elems
    <2>2. CASE i # 1 /\ j # 1
      <3>1. i - 1 = j - 1
        BY <2>2, <1>2 DEF Distinct
      <3> QED BY <3>1, <1>1
    <2> QED BY <2>1, <2>2
  <1>4. ASSUME NEW d PROVE d \in Elems(p) <=> d \in Elems(l) \cup {c}
    <2>1. ASSUME d \in Elems(p) PROVE d \in Elems(l) \cup {c}
      BY <2>1, <1>1, <1>2 DEF Elems
    <2>2. ASSUME d \in Elems(l) PROVE d \in Elems(p)
      <3>1. PICK i \in 1..Len(l) : d = l[i]
        BY <2>2 DEF Elems
      <3>2. i + 1 \in 1..Len(p) /\ d = p[i + 1]
        BY <3>1, <1>1
      <3> QED BY <3>2 DEF Elems
    <2>3. c \in Elems(p)
      <3>1. 1 \in 1..Len(p)
        BY <1>1
      <3> QED BY <1>1, <3>1 DEF Elems
    <2> QED BY <2>1, <2>2, <2>3
  <1> QED BY <1>3, <1>4 DEF p

-----------------------------------------------------------------------------
(* Types *)

\* The part of the type invariant about the borrowers' local state.
LocalTypeOK ==
    /\ pc \in [Borrowers -> PC]
    /\ held \in [Borrowers -> Conns \cup {None}]
    /\ \A t \in Borrowers : (pc[t] \in Holding) <=> (held[t] # None)

\* Moving one borrower keeps the local types.
LEMMA GotoType ==
    ASSUME LocalTypeOK, NEW t \in Borrowers, NEW w \in PC, NEW c \in Conns \cup {None},
           Goto(t, w, c), (w \in Holding) <=> (c # None)
    PROVE  LocalTypeOK'
  BY DEF LocalTypeOK, Goto

\* The three outcomes of the borrow loop.
LEMMA BorrowType ==
    ASSUME TypeOK, NEW t \in Borrowers, NEW act \in Int, Borrow(t, act)
    PROVE  LocalTypeOK' /\ idle' \in Seq(Conns) /\ active' \in Int /\ left' \in [Borrowers -> Int]
  <1>1. LocalTypeOK /\ left' \in [Borrowers -> Int]
    BY DEF TypeOK, LocalTypeOK, Borrow
  <1>2. {"testing", "nil", "dialing"} \subseteq PC /\ "testing" \in Holding
        /\ "nil" \notin Holding /\ "dialing" \notin Holding
    BY DEF PC, Working, Counted, Holding
  <1>3. CASE idle # <<>>
    <2>1. /\ idle' = popFront(idle) /\ active' = act /\ Goto(t, "testing", Head(idle))
      BY <1>3 DEF Borrow
    <2>2. Head(idle) \in Conns /\ popFront(idle) \in Seq(Conns) /\ Head(idle) # None
      BY <1>3, PopFrontProps, PoolAssumption DEF TypeOK
    <2>3. LocalTypeOK'
      BY <1>1, <1>2, <2>1, <2>2, GotoType
    <2> QED BY <1>1, <2>1, <2>2, <2>3
  <1>4. CASE idle = <<>>
    <2>1. /\ idle' = idle /\ active' \in Int
          /\ Goto(t, "nil", None) \/ Goto(t, "dialing", None)
      BY <1>4 DEF Borrow
    <2>2. LocalTypeOK'
      BY <1>1, <1>2, <2>1, GotoType
    <2> QED BY <1>1, <2>1, <2>2 DEF TypeOK
  <1> QED BY <1>3, <1>4

\* The prune loop either takes a stale connection out or falls through.
LEMMA PruneType ==
    ASSUME TypeOK, NEW t \in Borrowers, NEW n \in Int, NEW act \in Int, Prune(t, n, act)
    PROVE  LocalTypeOK' /\ idle' \in Seq(Conns) /\ active' \in Int /\ left' \in [Borrowers -> Int]
  <1>1. CASE Borrow(t, act)
    BY <1>1, BorrowType
  <1>2. CASE /\ idle # <<>>
             /\ idle' = popBack(idle)
             /\ left' = [left EXCEPT ![t] = n - 1]
             /\ active' = act
             /\ Goto(t, "pruned", Back(idle))
    <2>1. Back(idle) \in Conns /\ popBack(idle) \in Seq(Conns) /\ Back(idle) # None
      BY <1>2, PopBackProps, PoolAssumption DEF TypeOK
    <2>2. LocalTypeOK /\ "pruned" \in PC /\ "pruned" \in Holding
      BY DEF TypeOK, LocalTypeOK, PC, Working, Counted, Holding
    <2>3. LocalTypeOK'
      BY <1>2, <2>1, <2>2, GotoType
    <2> QED BY <1>2, <2>1, <2>3 DEF TypeOK
  <1> QED BY <1>1, <1>2 DEF Prune

\* A borrower closes the connection it holds.
LEMMA CloseConnType ==
    ASSUME TypeOK, NEW t \in Borrowers, NEW from \in Holding, NEW to \in PC \ Holding,
           CloseConn(t, from, to)
    PROVE  TypeOK'
  <1>1. LocalTypeOK'
    BY GotoType DEF CloseConn, TypeOK, LocalTypeOK
  <1> QED BY <1>1 DEF TypeOK, LocalTypeOK, CloseConn, shared

\* Every step keeps the types.
LEMMA TypeStep ==
    ASSUME TypeOK, [Next]_vars
    PROVE  TypeOK'
  <1> USE DEF shared
  <1>0. LocalTypeOK
    BY DEF TypeOK, LocalTypeOK
  <1>p. /\ PC = {"pruned", "pruneRelock", "testing", "rejected", "rejectRelock", "dialing",
                 "got", "lent", "putting", "evicting", "putRelock", "lock", "out",
                 "lazyInit", "recv", "nil"}
        /\ Holding = {"pruned", "testing", "rejected", "got", "lent", "putting", "evicting"}
    BY DEF PC, Working, Counted, Holding
  <1>1. ASSUME NEW t \in Borrowers, StartGet(t) PROVE TypeOK'
    <2>1. LocalTypeOK'
      BY <1>0, <1>1, <1>p, GotoType DEF StartGet
    <2> QED BY <1>1, <2>1 DEF StartGet, TypeOK, LocalTypeOK
  <1>2. ASSUME NEW t \in Borrowers, lazyInit(t) PROVE TypeOK'
    <2>1. LocalTypeOK'
      BY <1>0, <1>2, <1>p, GotoType DEF lazyInit
    <2> QED BY <1>2, <2>1, PoolAssumption DEF lazyInit, TypeOK, LocalTypeOK
  <1>3. ASSUME NEW t \in Borrowers, Receive(t) PROVE TypeOK'
    <2>1. LocalTypeOK'
      BY <1>0, <1>3, <1>p, GotoType DEF Receive
    <2> QED BY <1>3, <2>1 DEF Receive, TypeOK, LocalTypeOK
  <1>4. ASSUME NEW t \in Borrowers, GetLocked(t) PROVE TypeOK'
    <2>1. Len(idle) \in Int /\ active \in Int
      BY DEF TypeOK
    <2>2. LocalTypeOK' /\ idle' \in Seq(Conns) /\ active' \in Int /\ left' \in [Borrowers -> Int]
      BY <1>4, <2>1, PruneType DEF GetLocked
    <2> QED BY <1>4, <2>2 DEF GetLocked, TypeOK, LocalTypeOK
  <1>5. ASSUME NEW t \in Borrowers, PruneClose(t) PROVE TypeOK'
    BY <1>5, <1>p, CloseConnType DEF PruneClose
  <1>6. ASSUME NEW t \in Borrowers, PruneRelock(t) PROVE TypeOK'
    <2>1. left[t] \in Int /\ active - 1 \in Int
      BY DEF TypeOK
    <2>2. LocalTypeOK' /\ idle' \in Seq(Conns) /\ active' \in Int /\ left' \in [Borrowers -> Int]
      BY <1>6, <2>1, PruneType DEF PruneRelock
    <2> QED BY <1>6, <2>2 DEF PruneRelock, TypeOK, LocalTypeOK
  <1>7. ASSUME NEW t \in Borrowers, TestConn(t) PROVE TypeOK'
    <2>1. held[t] \in Conns /\ held[t] # None
      BY <1>7, <1>p DEF TestConn, TypeOK
    <2>2. Goto(t, "got", held[t]) \/ Goto(t, "rejected", held[t])
      BY <1>7 DEF TestConn
    <2>3. LocalTypeOK'
      BY <1>0, <1>p, <2>1, <2>2, GotoType
    <2> QED BY <1>7, <2>3 DEF TestConn, TypeOK, LocalTypeOK
  <1>8. ASSUME NEW t \in Borrowers, RejectClose(t) PROVE TypeOK'
    BY <1>8, <1>p, CloseConnType DEF RejectClose
  <1>9. ASSUME NEW t \in Borrowers, RejectRelock(t) PROVE TypeOK'
    <2>1. active - 1 \in Int
      BY DEF TypeOK
    <2>2. LocalTypeOK' /\ idle' \in Seq(Conns) /\ active' \in Int /\ left' \in [Borrowers -> Int]
      BY <1>9, <2>1, BorrowType DEF RejectRelock
    <2> QED BY <1>9, <2>2 DEF RejectRelock, TypeOK, LocalTypeOK
  <1>10. ASSUME NEW t \in Borrowers, Dial(t) PROVE TypeOK'
    <2>1. PICK c \in Conns \ open : open' = open \cup {c} /\ Goto(t, "got", c)
      BY <1>10 DEF Dial
    <2>2. LocalTypeOK'
      BY <1>0, <1>p, <2>1, GotoType, PoolAssumption
    <2> QED BY <1>10, <2>1, <2>2 DEF Dial, TypeOK, LocalTypeOK
  <1>11. ASSUME NEW t \in Borrowers, DialError(t) PROVE TypeOK'
    <2>1. LocalTypeOK'
      BY <1>0, <1>11, <1>p, GotoType DEF DialError
    <2> QED BY <1>11, <2>1 DEF DialError, ReturnToken, TypeOK, LocalTypeOK
  <1>12. ASSUME NEW t \in Borrowers, Register(t) PROVE TypeOK'
    <2>1. held[t] \in Conns /\ held[t] # None
      BY <1>12, <1>p DEF Register, TypeOK
    <2>2. LocalTypeOK'
      BY <1>0, <1>12, <1>p, <2>1, GotoType DEF Register
    <2> QED BY <1>12, <2>1, <2>2 DEF Register, TypeOK, LocalTypeOK
  <1>13. ASSUME NEW t \in Borrowers, DropNil(t) \/ PutNil(t) PROVE TypeOK'
    <2>1. LocalTypeOK'
      BY <1>0, <1>13, <1>p, GotoType DEF DropNil, PutNil
    <2> QED BY <1>13, <2>1 DEF DropNil, PutNil, TypeOK, LocalTypeOK
  <1>14. ASSUME NEW t \in Borrowers, PutLookup(t) PROVE TypeOK'
    <2>1. held[t] \in Conns /\ held[t] # None
      BY <1>14, <1>p DEF PutLookup, TypeOK
    <2>2. LocalTypeOK'
      BY <1>0, <1>14, <1>p, <2>1, GotoType DEF PutLookup
    <2> QED BY <1>14, <2>2 DEF PutLookup, TypeOK, LocalTypeOK
  <1>15. ASSUME NEW t \in Borrowers, PutLocked(t) PROVE TypeOK'
    <2>1. held[t] \in Conns /\ held[t] # None
      BY <1>15, <1>p DEF PutLocked, TypeOK
    <2> DEFINE p == pushFront(idle, held[t])
    <2>2. p \in Seq(Conns) /\ popBack(p) \in Seq(Conns) /\ Back(p) \in Conns /\ Back(p) # None
      <3>1. idle \in Seq(Conns)
        BY DEF TypeOK
      <3>2. p \in Seq(Conns) /\ p # <<>>
        BY <2>1, <3>1, PushFrontProps
      <3> HIDE DEF p
      <3> QED BY <3>2, PopBackProps, PoolAssumption
    <2>3. Goto(t, "evicting", Back(p)) \/ Goto(t, "out", None) \/ Goto(t, "evicting", held[t])
      BY <1>15 DEF PutLocked
    <2>4. LocalTypeOK'
      BY <1>0, <1>p, <2>1, <2>2, <2>3, GotoType
    <2>5. idle' \in {idle, p, popBack(p)} /\ stamp' \in {stamp, [stamp EXCEPT ![held[t]] = now]}
          /\ tokens' \in {tokens, tokens + 1}
      BY <1>15 DEF PutLocked, ReturnToken
    <2> HIDE DEF p
    <2>6. idle' \in Seq(Conns) /\ stamp' \in [Conns -> Nat] /\ tokens' \in Int
      BY <2>1, <2>2, <2>5 DEF TypeOK
    <2>7. UNCHANGED <<closed, ch, poolConnMap, wedged, closing, now, active, left, open>>
      BY <1>15 DEF PutLocked
    <2> QED BY <2>4, <2>6, <2>7 DEF TypeOK, LocalTypeOK
  <1>16. ASSUME NEW t \in Borrowers, EvictClose(t) PROVE TypeOK'
    BY <1>16, <1>p, CloseConnType DEF EvictClose
  <1>17. ASSUME NEW t \in Borrowers, PutRelock(t) PROVE TypeOK'
    <2>1. LocalTypeOK'
      BY <1>0, <1>17, <1>p, GotoType DEF PutRelock
    <2> QED BY <1>17, <2>1 DEF PutRelock, ReturnToken, TypeOK, LocalTypeOK
  <1>18. CASE Close
    BY <1>18 DEF Close, TypeOK
  <1>19. CASE CloseWalk
    BY <1>19 DEF CloseWalk, TypeOK
  <1>20. CASE Tick
    BY <1>20 DEF Tick, TypeOK
  <1>21. CASE UNCHANGED vars
    BY <1>21 DEF vars, TypeOK
  <1> QED
    BY <1>1, <1>2, <1>3, <1>4, <1>5, <1>6, <1>7, <1>8, <1>9, <1>10, <1>11, <1>12, <1>13,
       <1>14, <1>15, <1>16, <1>17, <1>18, <1>19, <1>20, <1>21 DEF Next, GetStep, PutStep

\* Every variable of the pool keeps its type; a borrower has a connection in its
\* hands exactly where the code of get and put has one.
THEOREM TypeCorrect == Spec => []TypeOK
  <1>1. Init => TypeOK
    <2> SUFFICES ASSUME Init PROVE TypeOK
      OBVIOUS
    <2>1. "out" \in PC /\ "out" \notin Holding
      BY DEF PC, Holding
    <2>2. <<>> \in Seq(Conns)
      OBVIOUS
    <2>3. idle \in Seq(Conns) /\ closing \in Seq(Conns)
      BY <2>2 DEF Init
    <2>4. closed \in BOOLEAN /\ wedged \in BOOLEAN
      BY DEF Init
    <2>5. left \in [Borrowers -> Int] /\ stamp \in [Conns -> Nat]
      BY DEF Init
    <2>6. /\ pc \in [Borrowers -> PC] /\ held \in [Borrowers -> Conns \cup {None}]
          /\ \A t \in Borrowers : (pc[t] \in Holding) <=> (held[t] # None)
      BY <2>1 DEF Init
    <2>7. /\ active \in Int /\ tokens \in Int /\ now \in Nat /\ ch \in {"nil", "open", "closed"}
          /\ poolConnMap \subseteq Conns /\ open \subseteq Conns
      BY DEF Init
    <2> QED BY <2>3, <2>4, <2>5, <2>6, <2>7 DEF TypeOK
  <1>2. TypeOK /\ [Next]_vars => TypeOK'
    BY TypeStep
  <1> QED BY <1>1, <1>2, PTL DEF Spec

-----------------------------------------------------------------------------
(* Counting *)

\* The borrowers at some place, split into one of them and the others.
LEMMA CountSplit ==
    ASSUME NEW f, NEW S, NEW t \in Borrowers
    PROVE  LET A == {u \in Borrowers : f[u] \in S}
           IN  /\ IsFiniteSet(A \ {t}) /\ Cardinality(A \ {t}) \in Nat
               /\ Cardinality(A) = Cardinality(A \ {t}) + (IF f[t] \in S THEN 1 ELSE 0)
  <1> DEFINE A == {u \in Borrowers : f[u] \in S}
  <1>1. IsFiniteSet(A)
    BY FS_Subset, PoolAssumption
  <1>2. IsFiniteSet(A \ {t}) /\ Cardinality(A \ {t}) \in Nat /\ Cardinality(A) \in Nat
    BY <1>1, FS_Subset, FS_CardinalityType
  <1>3. CASE f[t] \in S
    <2>1. t \in A
      BY <1>3
    <2>2. Cardinality(A \ {t}) = Cardinality(A) - 1
      BY <1>1, <2>1, FS_RemoveElement
    <2> QED BY <1>2, <1>3, <2>2
  <1>4. CASE f[t] \notin S
    <2>1. A \ {t} = A
      BY <1>4
    <2> QED BY <1>2, <1>4, <2>1
  <1> QED BY <1>3, <1>4

\* When borrower t moves to w, the number of other borrowers that are counted (c)
\* and that are working (k) does not change.
LEMMA MoveCounts ==
    ASSUME TypeOK, NEW t \in Borrowers, NEW w, pc' = [pc EXCEPT ![t] = w]
    PROVE  \E c, k \in Nat :
              /\ c <= k
              /\ Cardinality(At(Counted)) = c + (IF pc[t] \in Counted THEN 1 ELSE 0)
              /\ Cardinality(At(Counted))' = c + (IF w \in Counted THEN 1 ELSE 0)
              /\ Cardinality(At(Working)) = k + (IF pc[t] \in Working THEN 1 ELSE 0)
              /\ Cardinality(At(Working))' = k + (IF w \in Working THEN 1 ELSE 0)
  <1> DEFINE C == {u \in Borrowers : pc[u] \in Counted}
             K == {u \in Borrowers : pc[u] \in Working}
             g == [pc EXCEPT ![t] = w]
             C1 == {u \in Borrowers : g[u] \in Counted}
             K1 == {u \in Borrowers : g[u] \in Working}
  <1>1. g[t] = w /\ \A u \in Borrowers : u # t => g[u] = pc[u]
    BY DEF TypeOK
  <1>2. C1 \ {t} = C \ {t} /\ K1 \ {t} = K \ {t}
    BY <1>1
  <1>3. /\ IsFiniteSet(C \ {t}) /\ Cardinality(C \ {t}) \in Nat
        /\ Cardinality(C) = Cardinality(C \ {t}) + (IF pc[t] \in Counted THEN 1 ELSE 0)
    BY CountSplit
  <1>4. /\ IsFiniteSet(K \ {t}) /\ Cardinality(K \ {t}) \in Nat
        /\ Cardinality(K) = Cardinality(K \ {t}) + (IF pc[t] \in Working THEN 1 ELSE 0)
    BY CountSplit
  <1>5. Cardinality(C1) = Cardinality(C1 \ {t}) + (IF g[t] \in Counted THEN 1 ELSE 0)
    BY CountSplit
  <1>6. Cardinality(K1) = Cardinality(K1 \ {t}) + (IF g[t] \in Working THEN 1 ELSE 0)
    BY CountSplit
  <1>7. Cardinality(C \ {t}) <= Cardinality(K \ {t})
    <2>1. C \ {t} \subseteq K \ {t}
      BY DEF Working
    <2> QED BY <2>1, <1>4, FS_Subset
  <1>8. At(Counted) = C /\ At(Working) = K /\ At(Counted)' = C1 /\ At(Working)' = K1
    BY DEF At
  <1> HIDE DEF C, K, C1, K1, g
  <1> USE <1>3, <1>4
  <1> WITNESS Cardinality(C \ {t}) \in Nat, Cardinality(K \ {t}) \in Nat
  <1> QED BY <1>1, <1>2, <1>3, <1>4, <1>5, <1>6, <1>7, <1>8

Num(w, S) == IF w \in S THEN 1 ELSE 0

\* A move of one borrower that leaves the channel and Close's list alone keeps the
\* counting invariant when it adjusts p.active and the tokens by what it moves.
LEMMA MoveCounting ==
    ASSUME TypeOK, TypeOK', CountingInv, NEW t \in Borrowers, NEW w,
           pc' = [pc EXCEPT ![t] = w],
           UNCHANGED <<closed, ch, closing>>,
           closed => idle' = <<>>,
           active' - Len(idle') - Num(w, Counted)
             = active - Len(idle) - Num(pc[t], Counted),
           ch # "nil" /\ ~closed =>
             tokens' + Num(w, Working) = tokens + Num(pc[t], Working),
           tokens' >= 0,
           w \in Working \cup {"recv"} /\ Limited => pc[t] \in Working \cup {"recv"},
           w = "lazyInit" => Limited,
           MaxActive > 0 => active' + Len(closing) <= MaxActive
    PROVE  CountingInv'
  <1>1. PICK c \in Nat, k \in Nat :
              /\ Cardinality(At(Counted)) = c + (IF pc[t] \in Counted THEN 1 ELSE 0)
              /\ Cardinality(At(Counted))' = c + (IF w \in Counted THEN 1 ELSE 0)
              /\ Cardinality(At(Working)) = k + (IF pc[t] \in Working THEN 1 ELSE 0)
              /\ Cardinality(At(Working))' = k + (IF w \in Working THEN 1 ELSE 0)
    BY MoveCounts
  <1>2. /\ active \in Int /\ active' \in Int /\ tokens \in Int /\ tokens' \in Int
        /\ Len(idle) \in Nat /\ Len(idle') \in Nat /\ Len(closing) \in Nat
    BY DEF TypeOK
  <1>n. /\ Cardinality(At(Counted)) = c + Num(pc[t], Counted)
        /\ Cardinality(At(Counted))' = c + Num(w, Counted)
        /\ Cardinality(At(Working)) = k + Num(pc[t], Working)
        /\ Cardinality(At(Working))' = k + Num(w, Working)
    BY <1>1 DEF Num
  <1>m. \A x, S : Num(x, S) \in Nat
    BY DEF Num
  <1>3. Accounting'
    <2>1. active = Len(idle) + Cardinality(At(Counted))
      BY DEF CountingInv, Accounting
    <2>2. Num(pc[t], Counted) \in Int /\ Num(w, Counted) \in Int
      BY <1>m
    <2>3. active = Len(idle) + (c + Num(pc[t], Counted))
      BY <1>n, <2>1
    <2>4. PICK a \in Int, b \in Int, l \in Int, m \in Int, x \in Int, y \in Int :
             /\ a = active /\ b = active' /\ l = Len(idle) /\ m = Len(idle')
             /\ x = Num(pc[t], Counted) /\ y = Num(w, Counted)
      BY <1>2, <2>2
    <2>5. b - m - y = a - l - x /\ a = l + (c + x)
      BY <2>3, <2>4
    <2>6. b = m + (c + y)
      BY <2>5
    <2> QED BY <1>n, <2>4, <2>6 DEF Accounting
  <1>4. TokenBalance'
    <2> SUFFICES ASSUME ch # "nil", ~closed
                 PROVE  tokens' + Cardinality(At(Working))' = MaxActive
      BY DEF TokenBalance
    <2>1. tokens + Cardinality(At(Working)) = MaxActive
      BY DEF CountingInv, TokenBalance
    <2>2. tokens' + Num(w, Working) = tokens + Num(pc[t], Working)
      OBVIOUS
    <2>3. Num(w, Working) \in Int /\ Num(pc[t], Working) \in Int
      BY <1>m
    <2>4. tokens + (k + Num(pc[t], Working)) = MaxActive
      BY <1>n, <2>1
    <2>5. PICK a \in Int, b \in Int, x \in Int, y \in Int :
             a = tokens /\ b = tokens' /\ x = Num(pc[t], Working) /\ y = Num(w, Working)
      BY <1>2, <2>3
    <2>6. b + y = a + x /\ a + (k + x) = MaxActive
      BY <2>2, <2>4, <2>5
    <2>7. b + (k + y) = MaxActive
      BY <2>6, PoolAssumption
    <2> QED BY <1>n, <2>5, <2>7
  <1>5. ChannelOK'
    <2>1. ASSUME Limited, NEW u \in Borrowers, pc'[u] \in Working \cup {"recv"}
          PROVE  ch # "nil"
      <3>1. pc[u] \in Working \cup {"recv"}
        BY <2>1 DEF TypeOK
      <3> QED BY <2>1, <3>1 DEF CountingInv, ChannelOK, At
    <2>2. ASSUME NEW u \in Borrowers, pc'[u] = "lazyInit" PROVE Limited
      <3>1. pc[u] = "lazyInit" \/ w = "lazyInit"
        BY <2>2 DEF TypeOK
      <3> QED BY <3>1, <2>2 DEF CountingInv, ChannelOK, At
    <2> QED BY <2>1, <2>2 DEF CountingInv, ChannelOK, At, Limited
  <1>6. ActiveLimit' /\ ListsOK'
    BY DEF CountingInv, ActiveLimit, ListsOK
  <1> QED BY <1>3, <1>4, <1>5, <1>6 DEF CountingInv

\* The borrow loop, for a borrower whose own share was already taken out of act.
\* A dial finds no idle connection, so with Wait the other counted borrowers,
\* each of which has a token, are all that p.active counts.
LEMMA BorrowCounting ==
    ASSUME TypeOK, TypeOK', CountingInv, NEW t \in Borrowers, NEW act \in Int,
           pc[t] \in Working, act = active - Num(pc[t], Counted),
           Borrow(t, act), UNCHANGED <<closed, ch, closing, tokens>>
    PROVE  CountingInv'
  <1> USE DEF Goto
  <1>p. /\ {"testing", "dialing"} \subseteq Counted /\ "nil" \notin Counted
        /\ {"testing", "dialing"} \subseteq Working /\ "nil" \notin Working /\ "nil" # "recv"
    BY DEF Counted, Working
  <1>t. /\ active \in Int /\ active' \in Int /\ tokens \in Int /\ tokens' \in Int
        /\ Len(idle) \in Nat /\ Len(idle') \in Nat /\ Len(closing) \in Nat
        /\ tokens >= 0 /\ MaxActive \in Nat
    BY PoolAssumption DEF TypeOK, CountingInv, ChannelOK
  <1>1. CASE idle # <<>>
    <2>1. /\ idle' = popFront(idle) /\ active' = act /\ pc' = [pc EXCEPT ![t] = "testing"]
      BY <1>1 DEF Borrow
    <2>2. Len(idle') = Len(idle) - 1 /\ ~closed
      BY <1>1, <2>1, PopFrontProps DEF TypeOK, CountingInv, ListsOK
    <2>3. MaxActive > 0 => active' + Len(closing) <= MaxActive
      BY <1>t, <2>1 DEF CountingInv, ActiveLimit, Num
    <2>7. active' - Len(idle') - Num("testing", Counted)
            = active - Len(idle) - Num(pc[t], Counted)
      BY <1>p, <1>t, <2>1, <2>2, <2>3 DEF Num
    <2>8. ch # "nil" /\ ~closed =>
            tokens' + Num("testing", Working) = tokens + Num(pc[t], Working)
      BY <1>p, <1>t, <2>1, <2>2, <2>3 DEF Num
    <2>9. closed => idle' = <<>>
      BY <1>p, <1>t, <2>1, <2>2, <2>3
    <2> QED BY <1>p, <1>t, <2>1, <2>2, <2>3, <2>7, <2>8, <2>9, MoveCounting
  <1>2. CASE idle = <<>> /\ Refused(act)
    <2>1. /\ idle' = idle /\ active' = act /\ pc' = [pc EXCEPT ![t] = "nil"]
      BY <1>2 DEF Borrow
    <2>2. MaxActive > 0 => active' + Len(closing) <= MaxActive
      BY <1>t, <2>1 DEF CountingInv, ActiveLimit, Num
    <2>3. ch = "nil" \/ closed
      BY <1>2 DEF Refused, CountingInv, ChannelOK, Limited
    <2>7. active' - Len(idle') - Num("nil", Counted)
            = active - Len(idle) - Num(pc[t], Counted)
      BY <1>2, <1>p, <1>t, <2>1, <2>2, <2>3 DEF Num
    <2>8. ch # "nil" /\ ~closed =>
            tokens' + Num("nil", Working) = tokens + Num(pc[t], Working)
      BY <1>2, <1>p, <1>t, <2>1, <2>2, <2>3 DEF Num
    <2>9. closed => idle' = <<>>
      BY <1>2, <1>p, <1>t, <2>1, <2>2, <2>3
    <2> QED BY <1>2, <1>p, <1>t, <2>1, <2>2, <2>3, <2>7, <2>8, <2>9, MoveCounting
  <1>3. CASE idle = <<>> /\ ~Refused(act)
    <2>1. /\ idle' = idle /\ active' = act + 1 /\ pc' = [pc EXCEPT ![t] = "dialing"]
      BY <1>3 DEF Borrow
    <2>2. ~closed /\ closing = <<>> /\ Len(closing) = 0 /\ Len(idle) = 0
      BY <1>3 DEF Refused, CountingInv, ListsOK
    <2>3. MaxActive > 0 => act + 1 <= MaxActive
      <3>1. CASE ~Wait
        BY <1>3, <1>t, <3>1 DEF Refused
      <3>2. CASE Wait /\ MaxActive > 0
        <4>1. ch # "nil"
          BY <3>2 DEF Limited, CountingInv, ChannelOK, At
        <4>2. tokens + Cardinality(At(Working)) = MaxActive
          BY <2>2, <4>1 DEF CountingInv, TokenBalance
        <4>3. PICK c \in Nat, k \in Nat :
                 /\ c <= k
                 /\ Cardinality(At(Counted)) = c + (IF pc[t] \in Counted THEN 1 ELSE 0)
                 /\ Cardinality(At(Working)) = k + (IF pc[t] \in Working THEN 1 ELSE 0)
          BY <2>1, MoveCounts
        <4>4. act = c
          BY <1>t, <2>2, <4>3 DEF CountingInv, Accounting, Num
        <4> QED BY <1>t, <4>2, <4>3, <4>4
      <3> QED BY <3>1, <3>2, PoolAssumption
    <2>7. active' - Len(idle') - Num("dialing", Counted)
            = active - Len(idle) - Num(pc[t], Counted)
      BY <1>3, <1>p, <1>t, <2>1, <2>2, <2>3 DEF Num
    <2>8. ch # "nil" /\ ~closed =>
            tokens' + Num("dialing", Working) = tokens + Num(pc[t], Working)
      BY <1>3, <1>p, <1>t, <2>1, <2>2, <2>3 DEF Num
    <2>9. closed => idle' = <<>>
      BY <1>3, <1>p, <1>t, <2>1, <2>2, <2>3
    <2>10. MaxActive > 0 => active' + Len(closing) <= MaxActive
      BY <1>t, <2>1, <2>2, <2>3
    <2> QED BY <1>p, <1>t, <2>1, <2>7, <2>8, <2>9, <2>10, MoveCounting
  <1> QED BY <1>1, <1>2, <1>3

\* The prune loop moves a connection from the idle list to the borrower.
LEMMA PruneCounting ==
    ASSUME TypeOK, TypeOK', CountingInv, NEW t \in Borrowers, NEW n \in Int, NEW act \in Int,
           pc[t] \in Working, act = active - Num(pc[t], Counted),
           Prune(t, n, act), UNCHANGED <<closed, ch, closing, tokens>>
    PROVE  CountingInv'
  <1>1. CASE Borrow(t, act)
    BY <1>1, BorrowCounting
  <1>2. CASE /\ idle # <<>>
             /\ idle' = popBack(idle)
             /\ active' = act
             /\ Goto(t, "pruned", Back(idle))
    <2>1. "pruned" \in Counted /\ "pruned" \in Working
      BY DEF Counted, Working
    <2>2. /\ active \in Int /\ active' \in Int /\ tokens \in Int /\ tokens' \in Int
          /\ Len(idle) \in Nat /\ Len(idle') \in Nat /\ Len(closing) \in Nat
          /\ tokens >= 0 /\ MaxActive \in Nat
      BY PoolAssumption DEF TypeOK, CountingInv, ChannelOK
    <2>3. Len(idle') = Len(idle) - 1 /\ ~closed
      BY <1>2, PopBackProps DEF TypeOK, CountingInv, ListsOK
    <2>4. MaxActive > 0 => active' + Len(closing) <= MaxActive
      BY <1>2, <2>2 DEF CountingInv, ActiveLimit, Num
    <2>7. active' - Len(idle') - Num("pruned", Counted)
            = active - Len(idle) - Num(pc[t], Counted)
      BY <1>2, <2>1, <2>2, <2>3, <2>4 DEF Num
    <2>8. ch # "nil" /\ ~closed =>
            tokens' + Num("pruned", Working) = tokens + Num(pc[t], Working)
      BY <1>2, <2>1, <2>2, <2>3, <2>4 DEF Num
    <2>9. closed => idle' = <<>>
      BY <1>2, <2>1, <2>2, <2>3, <2>4
    <2> QED BY <1>2, <2>1, <2>2, <2>3, <2>4, <2>7, <2>8, <2>9, MoveCounting DEF Goto
  <1> QED BY <1>1, <1>2 DEF Prune


\* Every step keeps the counting invariant.
LEMMA CountingStep ==
    ASSUME TypeOK, TypeOK', CountingInv, [Next]_vars
    PROVE  CountingInv'
  <1> USE DEF shared
  <1>p. /\ Counted = {"pruned", "pruneRelock", "testing", "rejected", "rejectRelock", "dialing",
                      "got", "lent", "putting", "evicting", "putRelock"}
        /\ Working = Counted \cup {"lock"}
    BY DEF Working, Counted
  <1>t. /\ active \in Int /\ active' \in Int /\ tokens \in Int /\ tokens' \in Int
        /\ Len(idle) \in Nat /\ Len(idle') \in Nat /\ Len(closing) \in Nat
        /\ tokens >= 0 /\ MaxActive \in Nat
    BY PoolAssumption DEF TypeOK, CountingInv, ChannelOK
  <1>l. /\ MaxActive > 0 => active + Len(closing) <= MaxActive
        /\ closed => idle = <<>>
    BY DEF CountingInv, ActiveLimit, ListsOK
  <1>1. ASSUME NEW t \in Borrowers, StartGet(t) PROVE CountingInv'
    <2>1. CASE Limited
      <3>1. pc' = [pc EXCEPT ![t] = "lazyInit"] /\ pc[t] = "out"
            /\ UNCHANGED <<closed, ch, closing, active, idle, tokens>>
        BY <1>1, <2>1 DEF StartGet, Goto
      <3> QED BY <1>p, <1>t, <1>l, <2>1, <3>1, MoveCounting DEF Num
    <2>2. CASE ~Limited
      <3>1. pc' = [pc EXCEPT ![t] = "lock"] /\ pc[t] = "out"
            /\ UNCHANGED <<closed, ch, closing, active, idle, tokens>>
        BY <1>1, <2>2 DEF StartGet, Goto
      <3>2. ch = "nil"
        BY <2>2 DEF CountingInv, ChannelOK
      <3> QED BY <1>p, <1>t, <1>l, <2>2, <3>1, <3>2, MoveCounting DEF Num
    <2> QED BY <2>1, <2>2
  <1>2. ASSUME NEW t \in Borrowers, lazyInit(t) PROVE CountingInv'
    <2>1. /\ pc' = [pc EXCEPT ![t] = "recv"] /\ pc[t] = "lazyInit"
          /\ UNCHANGED <<closed, active, idle, closing>>
      BY <1>2 DEF lazyInit, Goto
    <2>2. CASE ch # "nil"
      <3>1. UNCHANGED <<ch, tokens>>
        BY <1>2, <2>2 DEF lazyInit
      <3>2. "recv" \in Working \cup {"recv"} /\ Limited => pc[t] \in Working \cup {"recv"} \/ ch # "nil"
        BY <2>2
      <3>3. PICK c \in Nat, k \in Nat :
              /\ Cardinality(At(Counted)) = c + (IF pc[t] \in Counted THEN 1 ELSE 0)
              /\ Cardinality(At(Counted))' = c + (IF "recv" \in Counted THEN 1 ELSE 0)
              /\ Cardinality(At(Working)) = k + (IF pc[t] \in Working THEN 1 ELSE 0)
              /\ Cardinality(At(Working))' = k + (IF "recv" \in Working THEN 1 ELSE 0)
        BY <2>1, MoveCounts
      <3>4. Cardinality(At(Counted))' = Cardinality(At(Counted))
            /\ Cardinality(At(Working))' = Cardinality(At(Working))
        BY <1>p, <2>1, <3>3
      <3>5. Accounting' /\ TokenBalance'
        BY <2>1, <3>1, <3>4 DEF CountingInv, Accounting, TokenBalance
      <3>6. ChannelOK'
        BY <2>1, <2>2, <3>1 DEF CountingInv, ChannelOK, At, Limited
      <3> QED BY <2>1, <3>1, <3>5, <3>6 DEF CountingInv, ActiveLimit, ListsOK
    <2>3. CASE ch = "nil"
      <3>0. Limited
        BY <1>2, <2>1, <2>3 DEF CountingInv, ChannelOK, At
      <3>1. /\ ch' = IF closed THEN "closed" ELSE "open"
            /\ tokens' = IF closed THEN 0 ELSE MaxActive
        BY <1>2, <2>3 DEF lazyInit
      <3>2. \A u \in Borrowers : pc[u] \notin Working
        BY <2>3, <3>0 DEF CountingInv, ChannelOK, At
      <3>3. \A u \in Borrowers : pc'[u] \notin Working
        BY <1>p, <2>1, <3>2 DEF TypeOK
      <3>4. At(Working)' = {} /\ At(Counted)' = {} /\ At(Counted) = {}
        BY <3>2, <3>3, <1>p DEF At
      <3>5. Cardinality({}) = 0
        BY FS_EmptySet
      <3>6. Accounting' /\ TokenBalance'
        BY <1>t, <2>1, <3>1, <3>4, <3>5 DEF CountingInv, Accounting, TokenBalance
      <3>7. ChannelOK'
        BY <1>t, <2>1, <3>0, <3>1 DEF CountingInv, ChannelOK, At, Limited
      <3> QED BY <2>1, <3>6, <3>7 DEF CountingInv, ActiveLimit, ListsOK
    <2> QED BY <2>2, <2>3
  <1>3. ASSUME NEW t \in Borrowers, Receive(t) PROVE CountingInv'
    <2>1. /\ pc' = [pc EXCEPT ![t] = "lock"] /\ pc[t] = "recv"
          /\ UNCHANGED <<closed, ch, closing, active, idle>>
          /\ tokens' = IF tokens > 0 THEN tokens - 1 ELSE 0
          /\ tokens > 0 \/ ch = "closed"
      BY <1>3 DEF Receive, Goto
    <2>2. tokens' >= 0 /\ (ch # "nil" /\ ~closed =>
            tokens' + Num("lock", Working) = tokens + Num(pc[t], Working))
      BY <2>1, <1>p, <1>t DEF Num, CountingInv, ChannelOK
    <2>3. active' - Len(idle') - Num("lock", Counted) = active - Len(idle) - Num(pc[t], Counted)
      BY <2>1, <1>p, <1>t DEF Num
    <2> QED BY <1>l, <2>1, <2>2, <2>3, MoveCounting
  <1>4. ASSUME NEW t \in Borrowers, GetLocked(t) PROVE CountingInv'
    <2>1. pc[t] \in Working /\ active = active - Num(pc[t], Counted) /\ Len(idle) \in Int
      BY <1>4, <1>p, <1>t DEF GetLocked, Num
    <2> QED BY <1>4, <1>t, <2>1, PruneCounting DEF GetLocked
  <1>5. ASSUME NEW t \in Borrowers, PruneClose(t) PROVE CountingInv'
    <2>1. /\ pc' = [pc EXCEPT ![t] = "pruneRelock"] /\ UNCHANGED <<closed, ch, closing>>
          /\ active' - Len(idle') - Num("pruneRelock", Counted) = active - Len(idle) - Num(pc[t], Counted)
      BY <1>5, <1>p, <1>t DEF PruneClose, CloseConn, Goto, Num
    <2>2. tokens' >= 0 /\ (ch # "nil" /\ ~closed =>
            tokens' + Num("pruneRelock", Working) = tokens + Num(pc[t], Working))
      BY <1>5, <1>p, <1>t DEF PruneClose, CloseConn, Num
    <2>3. closed => idle' = <<>>
      BY <1>5, <1>l DEF PruneClose, CloseConn
    <2>4. MaxActive > 0 => active' + Len(closing) <= MaxActive
      BY <1>5, <1>t, <1>l DEF PruneClose, CloseConn
    <2>5. "pruneRelock" \in Working \cup {"recv"} => pc[t] \in Working \cup {"recv"}
      BY <1>5, <1>p DEF PruneClose, CloseConn
    <2> QED BY <2>1, <2>2, <2>3, <2>4, <2>5, MoveCounting
  <1>6. ASSUME NEW t \in Borrowers, PruneRelock(t) PROVE CountingInv'
    <2>1. pc[t] \in Working /\ active - 1 = active - Num(pc[t], Counted) /\ left[t] \in Int
          /\ active - 1 \in Int
      BY <1>6, <1>p, <1>t DEF PruneRelock, Num, TypeOK
    <2> QED BY <1>6, <2>1, PruneCounting DEF PruneRelock
  <1>7. ASSUME NEW t \in Borrowers, TestConn(t) PROVE CountingInv'
    <2>1. /\ pc[t] = "testing" /\ UNCHANGED <<closed, ch, closing, active, idle, tokens>>
          /\ pc' = [pc EXCEPT ![t] = "got"] \/ pc' = [pc EXCEPT ![t] = "rejected"]
      BY <1>7 DEF TestConn, Goto
    <2>2. /\ Num("got", Counted) = 1 /\ Num("rejected", Counted) = 1 /\ Num(pc[t], Counted) = 1
          /\ Num("got", Working) = 1 /\ Num("rejected", Working) = 1 /\ Num(pc[t], Working) = 1
          /\ pc[t] \in Working
      BY <2>1, <1>p DEF Num
    <2> QED BY <1>t, <1>l, <2>1, <2>2, MoveCounting
  <1>8. ASSUME NEW t \in Borrowers, RejectClose(t) PROVE CountingInv'
    <2>1. /\ pc' = [pc EXCEPT ![t] = "rejectRelock"] /\ UNCHANGED <<closed, ch, closing>>
          /\ active' - Len(idle') - Num("rejectRelock", Counted) = active - Len(idle) - Num(pc[t], Counted)
      BY <1>8, <1>p, <1>t DEF RejectClose, CloseConn, Goto, Num
    <2>2. tokens' >= 0 /\ (ch # "nil" /\ ~closed =>
            tokens' + Num("rejectRelock", Working) = tokens + Num(pc[t], Working))
      BY <1>8, <1>p, <1>t DEF RejectClose, CloseConn, Num
    <2>3. closed => idle' = <<>>
      BY <1>8, <1>l DEF RejectClose, CloseConn
    <2>4. MaxActive > 0 => active' + Len(closing) <= MaxActive
      BY <1>8, <1>t, <1>l DEF RejectClose, CloseConn
    <2>5. "rejectRelock" \in Working \cup {"recv"} => pc[t] \in Working \cup {"recv"}
      BY <1>8, <1>p DEF RejectClose, CloseConn
    <2> QED BY <2>1, <2>2, <2>3, <2>4, <2>5, MoveCounting
  <1>9. ASSUME NEW t \in Borrowers, RejectRelock(t) PROVE CountingInv'
    <2>1. pc[t] \in Working /\ active - 1 = active - Num(pc[t], Counted) /\ active - 1 \in Int
      BY <1>9, <1>p, <1>t DEF RejectRelock, Num
    <2> QED BY <1>9, <2>1, BorrowCounting DEF RejectRelock
  <1>10. ASSUME NEW t \in Borrowers, Dial(t) PROVE CountingInv'
    <2>1. /\ pc' = [pc EXCEPT ![t] = "got"] /\ UNCHANGED <<closed, ch, closing>>
          /\ active' - Len(idle') - Num("got", Counted) = active - Len(idle) - Num(pc[t], Counted)
      BY <1>10, <1>p, <1>t DEF Dial, Goto, Num
    <2>2. tokens' >= 0 /\ (ch # "nil" /\ ~closed =>
            tokens' + Num("got", Working) = tokens + Num(pc[t], Working))
      BY <1>10, <1>p, <1>t DEF Dial, Num
    <2>3. closed => idle' = <<>>
      BY <1>10, <1>l DEF Dial
    <2>4. MaxActive > 0 => active' + Len(closing) <= MaxActive
      BY <1>10, <1>t, <1>l DEF Dial
    <2>5. "got" \in Working \cup {"recv"} => pc[t] \in Working \cup {"recv"}
      BY <1>10, <1>p DEF Dial
    <2> QED BY <2>1, <2>2, <2>3, <2>4, <2>5, MoveCounting
  <1>11. ASSUME NEW t \in Borrowers, DialError(t) PROVE CountingInv'
    <2>1. /\ pc' = [pc EXCEPT ![t] = "nil"] /\ UNCHANGED <<closed, ch, closing>>
          /\ active' - Len(idle') - Num("nil", Counted) = active - Len(idle) - Num(pc[t], Counted)
      BY <1>11, <1>p, <1>t DEF DialError, ReturnToken, Goto, Num
    <2>2. tokens' >= 0 /\ (ch # "nil" /\ ~closed =>
            tokens' + Num("nil", Working) = tokens + Num(pc[t], Working))
      BY <1>11, <1>p, <1>t DEF DialError, ReturnToken, Num
    <2>3. closed => idle' = <<>>
      BY <1>11, <1>l DEF DialError, ReturnToken
    <2>4. MaxActive > 0 => active' + Len(closing) <= MaxActive
      BY <1>11, <1>t, <1>l DEF DialError, ReturnToken
    <2>5. "nil" \in Working \cup {"recv"} => pc[t] \in Working \cup {"recv"}
      BY <1>11, <1>p DEF DialError, ReturnToken
    <2> QED BY <2>1, <2>2, <2>3, <2>4, <2>5, MoveCounting
  <1>12. ASSUME NEW t \in Borrowers, Register(t) PROVE CountingInv'
    <2>1. /\ pc' = [pc EXCEPT ![t] = "lent"] /\ UNCHANGED <<closed, ch, closing>>
          /\ active' - Len(idle') - Num("lent", Counted) = active - Len(idle) - Num(pc[t], Counted)
      BY <1>12, <1>p, <1>t DEF Register, Goto, Num
    <2>2. tokens' >= 0 /\ (ch # "nil" /\ ~closed =>
            tokens' + Num("lent", Working) = tokens + Num(pc[t], Working))
      BY <1>12, <1>p, <1>t DEF Register, Num
    <2>3. closed => idle' = <<>>
      BY <1>12, <1>l DEF Register
    <2>4. MaxActive > 0 => active' + Len(closing) <= MaxActive
      BY <1>12, <1>t, <1>l DEF Register
    <2>5. "lent" \in Working \cup {"recv"} => pc[t] \in Working \cup {"recv"}
      BY <1>12, <1>p DEF Register
    <2> QED BY <2>1, <2>2, <2>3, <2>4, <2>5, MoveCounting
  <1>13. ASSUME NEW t \in Borrowers, DropNil(t) PROVE CountingInv'
    <2>1. /\ pc' = [pc EXCEPT ![t] = "out"] /\ UNCHANGED <<closed, ch, closing>>
          /\ active' - Len(idle') - Num("out", Counted) = active - Len(idle) - Num(pc[t], Counted)
      BY <1>13, <1>p, <1>t DEF DropNil, Goto, Num
    <2>2. tokens' >= 0 /\ (ch # "nil" /\ ~closed =>
            tokens' + Num("out", Working) = tokens + Num(pc[t], Working))
      BY <1>13, <1>p, <1>t DEF DropNil, Num
    <2>3. closed => idle' = <<>>
      BY <1>13, <1>l DEF DropNil
    <2>4. MaxActive > 0 => active' + Len(closing) <= MaxActive
      BY <1>13, <1>t, <1>l DEF DropNil
    <2>5. "out" \in Working \cup {"recv"} => pc[t] \in Working \cup {"recv"}
      BY <1>13, <1>p DEF DropNil
    <2> QED BY <2>1, <2>2, <2>3, <2>4, <2>5, MoveCounting
  <1>14. ASSUME NEW t \in Borrowers, PutNil(t) PROVE CountingInv'
    <2>1. /\ pc' = [pc EXCEPT ![t] = "out"] /\ UNCHANGED <<closed, ch, closing>>
          /\ active' - Len(idle') - Num("out", Counted) = active - Len(idle) - Num(pc[t], Counted)
      BY <1>14, <1>p, <1>t DEF PutNil, Goto, Num
    <2>2. tokens' >= 0 /\ (ch # "nil" /\ ~closed =>
            tokens' + Num("out", Working) = tokens + Num(pc[t], Working))
      BY <1>14, <1>p, <1>t DEF PutNil, Num
    <2>3. closed => idle' = <<>>
      BY <1>14, <1>l DEF PutNil
    <2>4. MaxActive > 0 => active' + Len(closing) <= MaxActive
      BY <1>14, <1>t, <1>l DEF PutNil
    <2>5. "out" \in Working \cup {"recv"} => pc[t] \in Working \cup {"recv"}
      BY <1>14, <1>p DEF PutNil
    <2> QED BY <2>1, <2>2, <2>3, <2>4, <2>5, MoveCounting
  <1>15. ASSUME NEW t \in Borrowers, PutLookup(t) PROVE CountingInv'
    <2>1. /\ pc' = [pc EXCEPT ![t] = "putting"] /\ UNCHANGED <<closed, ch, closing>>
          /\ active' - Len(idle') - Num("putting", Counted) = active - Len(idle) - Num(pc[t], Counted)
      BY <1>15, <1>p, <1>t DEF PutLookup, Goto, Num
    <2>2. tokens' >= 0 /\ (ch # "nil" /\ ~closed =>
            tokens' + Num("putting", Working) = tokens + Num(pc[t], Working))
      BY <1>15, <1>p, <1>t DEF PutLookup, Num
    <2>3. closed => idle' = <<>>
      BY <1>15, <1>l DEF PutLookup
    <2>4. MaxActive > 0 => active' + Len(closing) <= MaxActive
      BY <1>15, <1>t, <1>l DEF PutLookup
    <2>5. "putting" \in Working \cup {"recv"} => pc[t] \in Working \cup {"recv"}
      BY <1>15, <1>p DEF PutLookup
    <2> QED BY <2>1, <2>2, <2>3, <2>4, <2>5, MoveCounting
  <1>16. ASSUME NEW t \in Borrowers, PutLocked(t) PROVE CountingInv'
    <2> DEFINE p == pushFront(idle, held[t])
    <2>0. /\ pc[t] = "putting" /\ UNCHANGED <<closed, ch, closing, active>>
          /\ Num(pc[t], Counted) = 1 /\ Num(pc[t], Working) = 1 /\ pc[t] \in Working
          /\ Num("evicting", Counted) = 1 /\ Num("evicting", Working) = 1
          /\ Num("out", Counted) = 0 /\ Num("out", Working) = 0 /\ "out" \notin Working
      BY <1>16, <1>p DEF PutLocked, Num
    <2>1. held[t] \in Conns /\ idle \in Seq(Conns)
      BY <1>16 DEF PutLocked, TypeOK, Holding
    <2>2. p \in Seq(Conns) /\ p # <<>> /\ Len(p) = Len(idle) + 1
      <3>1. pushFront(idle, held[t]) \in Seq(Conns) /\ Len(pushFront(idle, held[t])) = Len(idle) + 1
            /\ pushFront(idle, held[t]) # <<>>
        BY <2>1 DEF pushFront
      <3> QED BY <3>1
    <2>3. CASE ~closed /\ Len(p) > MaxIdle
      <3>1. idle' = popBack(p) /\ pc' = [pc EXCEPT ![t] = "evicting"] /\ tokens' = tokens
        BY <1>16, <2>2, <2>3, <1>t, PoolAssumption DEF PutLocked, Goto
      <3>2. Len(idle') = Len(idle)
        <4> HIDE DEF p
        <4> QED BY <1>t, <2>2, <3>1, PopBackProps
      <3> QED BY <1>t, <1>l, <2>0, <2>3, <3>1, <3>2, MoveCounting
    <2>4. CASE ~closed /\ Len(p) <= MaxIdle
      <3>1. idle' = p /\ pc' = [pc EXCEPT ![t] = "out"]
            /\ tokens' = IF ch # "nil" /\ ~closed THEN tokens + 1 ELSE tokens
        BY <1>16, <2>2, <2>4, <1>t, PoolAssumption DEF PutLocked, Goto, ReturnToken
      <3>2. tokens' >= 0 /\ (ch # "nil" /\ ~closed =>
              tokens' + Num("out", Working) = tokens + Num(pc[t], Working))
        BY <1>t, <2>0, <3>1
      <3>3. active' - Len(idle') - Num("out", Counted) = active - Len(idle) - Num(pc[t], Counted)
        BY <1>t, <2>0, <2>2, <3>1
      <3> QED BY <1>t, <1>l, <2>0, <2>4, <3>1, <3>2, <3>3, MoveCounting
    <2>5. CASE closed
      <3>1. idle' = idle /\ pc' = [pc EXCEPT ![t] = "evicting"] /\ tokens' = tokens
        BY <1>16, <2>5 DEF PutLocked, Goto
      <3> QED BY <1>t, <1>l, <2>0, <3>1, MoveCounting
    <2> QED BY <2>2, <2>3, <2>4, <2>5, <1>t, PoolAssumption
  <1>17. ASSUME NEW t \in Borrowers, EvictClose(t) PROVE CountingInv'
    <2>1. /\ pc' = [pc EXCEPT ![t] = "putRelock"] /\ UNCHANGED <<closed, ch, closing>>
          /\ active' - Len(idle') - Num("putRelock", Counted) = active - Len(idle) - Num(pc[t], Counted)
      BY <1>17, <1>p, <1>t DEF EvictClose, CloseConn, Goto, Num
    <2>2. tokens' >= 0 /\ (ch # "nil" /\ ~closed =>
            tokens' + Num("putRelock", Working) = tokens + Num(pc[t], Working))
      BY <1>17, <1>p, <1>t DEF EvictClose, CloseConn, Num
    <2>3. closed => idle' = <<>>
      BY <1>17, <1>l DEF EvictClose, CloseConn
    <2>4. MaxActive > 0 => active' + Len(closing) <= MaxActive
      BY <1>17, <1>t, <1>l DEF EvictClose, CloseConn
    <2>5. "putRelock" \in Working \cup {"recv"} => pc[t] \in Working \cup {"recv"}
      BY <1>17, <1>p DEF EvictClose, CloseConn
    <2> QED BY <2>1, <2>2, <2>3, <2>4, <2>5, MoveCounting
  <1>18. ASSUME NEW t \in Borrowers, PutRelock(t) PROVE CountingInv'
    <2>1. /\ pc' = [pc EXCEPT ![t] = "out"] /\ UNCHANGED <<closed, ch, closing>>
          /\ active' - Len(idle') - Num("out", Counted) = active - Len(idle) - Num(pc[t], Counted)
      BY <1>18, <1>p, <1>t DEF PutRelock, ReturnToken, Goto, Num
    <2>2. tokens' >= 0 /\ (ch # "nil" /\ ~closed =>
            tokens' + Num("out", Working) = tokens + Num(pc[t], Working))
      BY <1>18, <1>p, <1>t DEF PutRelock, ReturnToken, Num
    <2>3. closed => idle' = <<>>
      BY <1>18, <1>l DEF PutRelock, ReturnToken
    <2>4. MaxActive > 0 => active' + Len(closing) <= MaxActive
      BY <1>18, <1>t, <1>l DEF PutRelock, ReturnToken
    <2>5. "out" \in Working \cup {"recv"} => pc[t] \in Working \cup {"recv"}
      BY <1>18, <1>p DEF PutRelock, ReturnToken
    <2> QED BY <2>1, <2>2, <2>3, <2>4, <2>5, MoveCounting
  <1>19. CASE Close
    <2>1. At(Counted)' = At(Counted) /\ At(Working)' = At(Working)
          /\ At(Working \cup {"recv"})' = At(Working \cup {"recv"})
      BY <1>19 DEF Close, At
    <2>2. closing = <<>> /\ Len(closing) = 0 /\ Len(<<>>) = 0
      BY <1>19 DEF Close, CountingInv, ListsOK
    <2>3. closing' = idle /\ idle' = <<>> /\ active' = active - Len(idle) /\ closed' = TRUE /\ tokens' = tokens
          /\ ch' = IF ch # "nil" THEN "closed" ELSE ch
      BY <1>19 DEF Close
    <2>4. Accounting' /\ ActiveLimit'
      <3>1. Cardinality(At(Counted)) \in Int
        BY FS_Subset, FS_CardinalityType, PoolAssumption DEF At
      <3> QED BY <1>t, <2>1, <2>2, <2>3, <3>1 DEF CountingInv, Accounting, ActiveLimit
    <2>5. ChannelOK'
      BY <1>19, <2>3 DEF CountingInv, ChannelOK, Limited, At, Close
    <2>6. TokenBalance' /\ ListsOK'
      BY <2>3 DEF TokenBalance, ListsOK
    <2> QED BY <2>4, <2>5, <2>6 DEF CountingInv
  <1>20. CASE CloseWalk
    <2>1. At(Counted)' = At(Counted) /\ At(Working)' = At(Working)
          /\ At(Working \cup {"recv"})' = At(Working \cup {"recv"})
      BY <1>20 DEF CloseWalk, At
    <2>2. closing # <<>> /\ closing' = Tail(closing)
          /\ UNCHANGED <<closed, active, idle, ch, tokens>>
      BY <1>20 DEF CloseWalk
    <2>3. Len(closing') = Len(closing) - 1 /\ closed
      BY <2>2 DEF TypeOK, CountingInv, ListsOK
    <2>4. ActiveLimit' /\ ListsOK'
      BY <1>t, <1>l, <2>2, <2>3 DEF ActiveLimit, ListsOK
    <2>5. Accounting' /\ TokenBalance'
      BY <2>1, <2>2 DEF CountingInv, Accounting, TokenBalance
    <2>6. ChannelOK'
      BY <1>20, <2>2 DEF CountingInv, ChannelOK, Limited, At, CloseWalk
    <2> QED BY <2>4, <2>5, <2>6 DEF CountingInv
  <1>21. CASE Tick \/ UNCHANGED vars
    <2>1. UNCHANGED <<closed, active, idle, ch, tokens, pc, closing>>
      BY <1>21 DEF Tick, vars
    <2>2. Accounting' /\ TokenBalance'
      BY <2>1 DEF CountingInv, Accounting, TokenBalance, At
    <2>3. ChannelOK'
      BY <2>1 DEF CountingInv, ChannelOK, Limited, At
    <2> QED BY <2>1, <2>2, <2>3 DEF CountingInv, ActiveLimit, ListsOK
  <1> QED
    BY <1>1, <1>2, <1>3, <1>4, <1>5, <1>6, <1>7, <1>8, <1>9, <1>10, <1>11, <1>12, <1>13, <1>14, <1>15, <1>16, <1>17, <1>18, <1>19, <1>20, <1>21 DEF Next, GetStep, PutStep

\* The counting invariant holds in every reachable state.
LEMMA CountingAlways == Spec => []CountingInv
  <1>1. Init => CountingInv
    <2> SUFFICES ASSUME Init PROVE CountingInv
      OBVIOUS
    <2>1. At(Counted) = {} /\ At(Working \cup {"recv"}) = {} /\ At({"lazyInit"}) = {}
      BY DEF Init, At, Counted, Working
    <2>2. Len(idle) = 0 /\ Len(closing) = 0 /\ Cardinality({}) = 0
      BY FS_EmptySet DEF Init
    <2>3. Accounting /\ ActiveLimit
      BY <2>1, <2>2, PoolAssumption DEF Init, Accounting, ActiveLimit
    <2>4. ChannelOK
      <3>1. tokens >= 0 /\ ch = "nil"
        BY DEF Init
      <3> QED BY <2>1, <3>1 DEF ChannelOK
    <2>5. TokenBalance /\ ListsOK
      BY DEF Init, TokenBalance, ListsOK
    <2> QED BY <2>3, <2>4, <2>5 DEF CountingInv
  <1>2. TypeOK /\ TypeOK' /\ CountingInv /\ [Next]_vars => CountingInv'
    BY CountingStep
  <1> QED BY <1>1, <1>2, TypeCorrect, PTL DEF Spec

\* The counter is exact: p.active is the number of idle connections plus the
\* borrowers that own or are dialling one, whatever the configuration.
THEOREM AccountingHolds == Spec => []Accounting
  <1>1. CountingInv => Accounting
    BY DEF CountingInv
  <1> QED BY <1>1, CountingAlways, PTL

\* No goroutine ever blocks on, or panics in, a send on p.ch while it holds p.mu.
THEOREM SendsNeverBlock == Spec => []SendSafe
  <1>1. TypeOK /\ CountingInv => SendSafe
    <2> SUFFICES ASSUME TypeOK, CountingInv, NEW t \in Borrowers,
                        pc[t] \in {"dialing", "putting", "putRelock"}, ch # "nil", ~closed
                 PROVE  ch = "open" /\ tokens < MaxActive
      BY DEF SendSafe, At
    <2>1. ch = "open"
      BY DEF TypeOK, CountingInv, ChannelOK
    <2>2. pc[t] \in Working
      BY DEF Working, Counted
    <2> DEFINE A == {u \in Borrowers : pc[u] \in Working}
    <2>3. Cardinality(A) = Cardinality(A \ {t}) + (IF pc[t] \in Working THEN 1 ELSE 0)
          /\ Cardinality(A \ {t}) \in Nat
      BY CountSplit
    <2>4. tokens + Cardinality(A) = MaxActive
      BY DEF CountingInv, TokenBalance, At
    <2> HIDE DEF A
    <2>5. tokens \in Int /\ MaxActive \in Nat
      BY PoolAssumption DEF TypeOK
    <2> QED BY <2>1, <2>2, <2>3, <2>4, <2>5
  <1> QED BY <1>1, TypeCorrect, CountingAlways, PTL

-----------------------------------------------------------------------------
(* Ownership *)

\* SoleOwner with the borrowers' connections read off held alone: by the type
\* invariant, a borrower is at a place of Holding exactly when held is not None.
OwnerInv ==
    /\ Distinct(idle) /\ Distinct(closing)
    /\ Elems(idle) \cap Elems(closing) = {}
    /\ Elems(idle) \subseteq open /\ Elems(closing) \subseteq open
    /\ \A t \in Borrowers : held[t] # None =>
          held[t] \in open /\ held[t] \notin Elems(idle) /\ held[t] \notin Elems(closing)
    /\ \A t, u \in Borrowers : held[t] # None /\ held[t] = held[u] => t = u
    /\ \A c \in open : c \in Elems(idle) \/ c \in Elems(closing)
                       \/ \E t \in Borrowers : held[t] = c

\* The two formulations agree.
LEMMA OwnerInvEquiv ==
    ASSUME TypeOK
    PROVE  OwnerInv <=> SoleOwner
  <1>1. At(Holding) = {t \in Borrowers : held[t] # None}
    BY DEF TypeOK, At
  <1>2. ASSUME OwnerInv PROVE SoleOwner
    <2>1. None \notin open
      BY PoolAssumption DEF TypeOK
    <2>2. open = Elems(idle) \cup Elems(closing) \cup {held[t] : t \in At(Holding)}
      BY <1>1, <1>2, <2>1 DEF OwnerInv
    <2> QED BY <1>1, <1>2, <2>2 DEF OwnerInv, SoleOwner
  <1>3. ASSUME SoleOwner PROVE OwnerInv
    BY <1>1, <1>3 DEF OwnerInv, SoleOwner
  <1> QED BY <1>2, <1>3

\* A connection popped from the idle list belongs to the borrower that popped it.
LEMMA PopOwner ==
    ASSUME TypeOK, OwnerInv, NEW t \in Borrowers, held[t] = None, NEW c \in Elems(idle),
           Distinct(idle'), Elems(idle') = Elems(idle) \ {c},
           held' = [held EXCEPT ![t] = c], UNCHANGED <<closing, open>>
    PROVE  OwnerInv'
  <1>1. held'[t] = c /\ \A u \in Borrowers : u # t => held'[u] = held[u]
    BY DEF TypeOK
  <1>2. \A u \in Borrowers : held[u] # None => held[u] # c
    BY DEF OwnerInv
  <1>3. ASSUME NEW d \in open, d # c
        PROVE  d \in Elems(idle') \/ d \in Elems(closing) \/ \E u \in Borrowers : held'[u] = d
    <2>1. CASE d \in Elems(idle) \/ d \in Elems(closing)
      BY <1>3, <2>1
    <2>2. CASE \E u \in Borrowers : held[u] = d
      <3>1. PICK u \in Borrowers : held[u] = d
        BY <2>2
      <3>2. d \in Conns /\ None \notin Conns
        BY PoolAssumption DEF TypeOK
      <3>3. u # t
        BY <3>1, <3>2
      <3> QED BY <1>1, <3>1, <3>3
    <2> QED BY <2>1, <2>2 DEF OwnerInv
  <1>4. \A d \in open : d \in Elems(idle') \/ d \in Elems(closing)
                        \/ \E u \in Borrowers : held'[u] = d
    BY <1>1, <1>3
  <1>5. \A u \in Borrowers : held'[u] # None =>
          held'[u] \in open /\ held'[u] \notin Elems(idle') /\ held'[u] \notin Elems(closing)
    BY <1>1, <1>2 DEF OwnerInv
  <1>6. \A u, v \in Borrowers : held'[u] # None /\ held'[u] = held'[v] => u = v
    BY <1>1, <1>2 DEF OwnerInv
  <1>7. Elems(idle)' = Elems(idle') /\ Elems(closing)' = Elems(closing) /\ Distinct(idle)' = Distinct(idle')
        /\ Distinct(closing)' = Distinct(closing)
    BY DEF Elems, Distinct
  <1> QED BY <1>4, <1>5, <1>6, <1>7 DEF OwnerInv

\* The effect of the borrow loop on ownership.
LEMMA BorrowOwner ==
    ASSUME TypeOK, OwnerInv, NEW t \in Borrowers, NEW act, held[t] = None, Borrow(t, act),
           UNCHANGED <<closing, open>>
    PROVE  OwnerInv'
  <1>1. CASE idle # <<>>
    <2>1. idle' = popFront(idle) /\ held' = [held EXCEPT ![t] = Head(idle)]
      BY <1>1 DEF Borrow, Goto
    <2>2. /\ Distinct(popFront(idle)) /\ Elems(popFront(idle)) = Elems(idle) \ {Head(idle)}
          /\ Head(idle) \in Elems(idle)
      BY <1>1, PopFrontElems DEF TypeOK, OwnerInv
    <2> QED BY <2>1, <2>2, PopOwner
  <1>2. CASE idle = <<>>
    <2>1. idle' = idle /\ held' = [held EXCEPT ![t] = None]
      BY <1>2 DEF Borrow, Goto
    <2>2. held' = held
      BY <2>1 DEF TypeOK
    <2> QED BY <2>1, <2>2 DEF OwnerInv, Elems, Distinct
  <1> QED BY <1>1, <1>2

\* The effect of the prune loop on ownership.
LEMMA PruneOwner ==
    ASSUME TypeOK, OwnerInv, NEW t \in Borrowers, NEW n, NEW act, held[t] = None,
           Prune(t, n, act), UNCHANGED <<closing, open>>
    PROVE  OwnerInv'
  <1>1. CASE Borrow(t, act)
    BY <1>1, BorrowOwner
  <1>2. CASE idle # <<>> /\ idle' = popBack(idle) /\ Goto(t, "pruned", Back(idle))
    <2>1. /\ Distinct(popBack(idle)) /\ Elems(popBack(idle)) = Elems(idle) \ {Back(idle)}
          /\ Back(idle) \in Elems(idle)
      BY <1>2, PopBackElems DEF TypeOK, OwnerInv
    <2> QED BY <1>2, <2>1, PopOwner DEF Goto
  <1> QED BY <1>1, <1>2 DEF Prune

\* A borrower that closes its connection is no longer its owner.
LEMMA CloseConnOwner ==
    ASSUME TypeOK, OwnerInv, NEW t \in Borrowers, NEW from \in Holding, NEW to,
           CloseConn(t, from, to)
    PROVE  OwnerInv'
  <1>1. /\ held' = [held EXCEPT ![t] = None] /\ open' = open \ {held[t]}
        /\ idle' = idle /\ closing' = closing /\ held[t] # None
    BY DEF CloseConn, Goto, shared, TypeOK
  <1>2. held'[t] = None /\ \A u \in Borrowers : u # t => held'[u] = held[u]
    BY <1>1 DEF TypeOK
  <1>3. Elems(idle)' = Elems(idle) /\ Elems(closing)' = Elems(closing)
        /\ Distinct(idle)' = Distinct(idle) /\ Distinct(closing)' = Distinct(closing)
    BY <1>1 DEF Elems, Distinct
  <1>4. \A u \in Borrowers : held'[u] # None =>
          held'[u] \in open' /\ held'[u] \notin Elems(idle) /\ held'[u] \notin Elems(closing)
    BY <1>1, <1>2 DEF OwnerInv
  <1>5. \A u, v \in Borrowers : held'[u] # None /\ held'[u] = held'[v] => u = v
    BY <1>2 DEF OwnerInv
  <1>6. \A d \in open' : d \in Elems(idle) \/ d \in Elems(closing)
                         \/ \E u \in Borrowers : held'[u] = d
    BY <1>1, <1>2 DEF OwnerInv
  <1>7. Elems(idle) \subseteq open' /\ Elems(closing) \subseteq open'
    BY <1>1 DEF OwnerInv
  <1>8. Elems(idle) \cap Elems(closing) = {} /\ Distinct(idle) /\ Distinct(closing)
    BY DEF OwnerInv
  <1> QED BY <1>3, <1>4, <1>5, <1>6, <1>7, <1>8 DEF OwnerInv

\* A dialled connection belongs to the borrower that dialled it.
LEMMA DialOwner ==
    ASSUME TypeOK, OwnerInv, NEW t \in Borrowers, Dial(t)
    PROVE  OwnerInv'
  <1>0. held[t] = None
    BY DEF Dial, TypeOK, Holding
  <1>1. PICK c \in Conns \ open : open' = open \cup {c} /\ held' = [held EXCEPT ![t] = c]
    BY DEF Dial, Goto
  <1>2. held'[t] = c /\ (\A u \in Borrowers : u # t => held'[u] = held[u])
        /\ idle' = idle /\ closing' = closing
    BY <1>1 DEF TypeOK, Dial, shared
  <1>3. Elems(idle)' = Elems(idle) /\ Elems(closing)' = Elems(closing)
        /\ Distinct(idle)' = Distinct(idle) /\ Distinct(closing)' = Distinct(closing)
    BY <1>2 DEF Elems, Distinct
  <1>4. \A u \in Borrowers : held'[u] # None =>
          held'[u] \in open' /\ held'[u] \notin Elems(idle) /\ held'[u] \notin Elems(closing)
    BY <1>1, <1>2 DEF OwnerInv
  <1>5. \A u, v \in Borrowers : held'[u] # None /\ held'[u] = held'[v] => u = v
    BY <1>1, <1>2 DEF OwnerInv
  <1>6. \A d \in open' : d \in Elems(idle) \/ d \in Elems(closing)
                         \/ \E u \in Borrowers : held'[u] = d
    <2> SUFFICES ASSUME NEW d \in open, d \notin Elems(idle), d \notin Elems(closing)
                 PROVE  \E u \in Borrowers : held'[u] = d
      BY <1>1, <1>2
    <2>1. PICK u \in Borrowers : held[u] = d
      BY DEF OwnerInv
    <2>2. d # None
      BY PoolAssumption DEF TypeOK
    <2> QED BY <1>0, <1>2, <2>1, <2>2
  <1>7. Elems(idle) \subseteq open' /\ Elems(closing) \subseteq open'
    BY <1>1 DEF OwnerInv
  <1>8. Elems(idle) \cap Elems(closing) = {} /\ Distinct(idle) /\ Distinct(closing)
    BY DEF OwnerInv
  <1> QED BY <1>3, <1>4, <1>5, <1>6, <1>7, <1>8 DEF OwnerInv

\* put hands the connection to the idle list, and takes out the one at its back
\* when the list is too long.
LEMMA PutOwner ==
    ASSUME TypeOK, OwnerInv, NEW t \in Borrowers, PutLocked(t)
    PROVE  OwnerInv'
  <1> DEFINE h == held[t]
             p == pushFront(idle, h)
  <1>0. h \in Conns /\ h # None /\ idle \in Seq(Conns) /\ h \in open /\ h \notin Elems(idle)
        /\ h \notin Elems(closing) /\ closing' = closing /\ open' = open
    BY DEF PutLocked, TypeOK, Holding, OwnerInv, shared
  <1>h. \A u \in Borrowers : u # t => held[u] # h
    BY <1>0 DEF OwnerInv
  <1>1. p \in Seq(Conns) /\ p # <<>>
    BY <1>0 DEF pushFront
  <1>2. Distinct(p) /\ Elems(p) = Elems(idle) \cup {h}
    BY <1>0, PushFrontElems DEF OwnerInv
  <1>3. CASE closed
    <2>1. held' = [held EXCEPT ![t] = held[t]] /\ idle' = idle
      BY <1>3 DEF PutLocked, Goto
    <2>2. held' = held
      BY <2>1 DEF TypeOK
    <2> QED BY <1>0, <2>1, <2>2 DEF OwnerInv, Elems, Distinct
  <1>4. CASE ~closed /\ idle' = popBack(p) /\ held' = [held EXCEPT ![t] = Back(p)]
    <2> HIDE DEF p, h
    <2>1. Distinct(idle') /\ Elems(idle') = Elems(p) \ {Back(p)} /\ Back(p) \in Elems(p)
      BY <1>1, <1>2, <1>4, PopBackElems
    <2>2. held'[t] = Back(p) /\ \A u \in Borrowers : u # t => held'[u] = held[u]
      BY <1>4 DEF TypeOK
    <2>3. \A u \in Borrowers : u # t /\ held[u] # None => held[u] # Back(p)
      BY <1>h, <1>2, <2>1 DEF OwnerInv
    <2>4. Elems(idle)' = Elems(idle') /\ Elems(closing)' = Elems(closing)
          /\ Distinct(idle)' = Distinct(idle') /\ Distinct(closing)' = Distinct(closing)
      BY <1>0 DEF Elems, Distinct
    <2>5. \A u \in Borrowers : held'[u] # None =>
            held'[u] \in open /\ held'[u] \notin Elems(idle') /\ held'[u] \notin Elems(closing)
      BY <1>0, <1>h, <1>2, <2>1, <2>2, <2>3 DEF OwnerInv
    <2>6. \A u, v \in Borrowers : held'[u] # None /\ held'[u] = held'[v] => u = v
      BY <2>2, <2>3 DEF OwnerInv
    <2>7. \A d \in open : d \in Elems(idle') \/ d \in Elems(closing)
                          \/ \E u \in Borrowers : held'[u] = d
      <3> SUFFICES ASSUME NEW d \in open, d \notin Elems(idle'), d \notin Elems(closing), d # Back(p)
                   PROVE  \E u \in Borrowers : held'[u] = d
        BY <2>2
      <3>1. d \notin Elems(idle) /\ d # h
        BY <1>2, <2>1
      <3>2. PICK u \in Borrowers : held[u] = d
        BY <3>1 DEF OwnerInv
      <3> QED BY <2>2, <3>1, <3>2 DEF h
    <2>8. Elems(idle') \subseteq open /\ Elems(idle') \cap Elems(closing) = {}
      BY <1>0, <1>2, <2>1 DEF OwnerInv
    <2> QED BY <1>0, <2>1, <2>4, <2>5, <2>6, <2>7, <2>8 DEF OwnerInv
  <1>5. CASE ~closed /\ idle' = p /\ held' = [held EXCEPT ![t] = None]
    <2> HIDE DEF p, h
    <2>2. held'[t] = None /\ \A u \in Borrowers : u # t => held'[u] = held[u]
      BY <1>5 DEF TypeOK
    <2>4. Elems(idle)' = Elems(p) /\ Elems(closing)' = Elems(closing)
          /\ Distinct(idle)' = Distinct(p) /\ Distinct(closing)' = Distinct(closing)
      BY <1>0, <1>5 DEF Elems, Distinct
    <2>5. \A u \in Borrowers : held'[u] # None =>
            held'[u] \in open /\ held'[u] \notin Elems(p) /\ held'[u] \notin Elems(closing)
      BY <1>h, <1>2, <2>2 DEF OwnerInv
    <2>6. \A u, v \in Borrowers : held'[u] # None /\ held'[u] = held'[v] => u = v
      BY <2>2 DEF OwnerInv
    <2>7. \A d \in open : d \in Elems(p) \/ d \in Elems(closing)
                          \/ \E u \in Borrowers : held'[u] = d
      BY <1>2, <2>2 DEF OwnerInv, h
    <2>8. Elems(p) \subseteq open /\ Elems(p) \cap Elems(closing) = {}
      BY <1>0, <1>2 DEF OwnerInv
    <2> QED BY <1>0, <1>2, <2>4, <2>5, <2>6, <2>7, <2>8 DEF OwnerInv
  <1> QED BY <1>3, <1>4, <1>5 DEF PutLocked, Goto

\* Every step keeps the ownership invariant.
LEMMA OwnerStep ==
    ASSUME TypeOK, CountingInv, OwnerInv, [Next]_vars
    PROVE  OwnerInv'
  <1> USE DEF shared
  <1>0. ASSUME UNCHANGED <<idle, closing, open, held>> PROVE OwnerInv'
    BY <1>0 DEF OwnerInv, Elems, Distinct
  <1>h. \A t \in Borrowers : held = [held EXCEPT ![t] = held[t]]
    BY DEF TypeOK
  <1>n. \A t \in Borrowers : pc[t] \notin Holding => held[t] = None
    BY DEF TypeOK
  <1>p. Holding = {"pruned", "testing", "rejected", "got", "lent", "putting", "evicting"}
    BY DEF Holding
  <1>1. ASSUME NEW t \in Borrowers,
               StartGet(t) \/ lazyInit(t) \/ Receive(t) \/ DialError(t) \/ DropNil(t)
               \/ PutNil(t) \/ PutRelock(t)
        PROVE  OwnerInv'
    <2>1. held[t] = None /\ held' = [held EXCEPT ![t] = None] /\ UNCHANGED <<idle, closing, open>>
      BY <1>1, <1>n, <1>p
         DEF StartGet, lazyInit, Receive, DialError, DropNil, PutNil, PutRelock, Goto
    <2> QED BY <1>0, <1>h, <2>1
  <1>2. ASSUME NEW t \in Borrowers, TestConn(t) \/ Register(t) \/ PutLookup(t)
        PROVE  OwnerInv'
    <2>1. held' = [held EXCEPT ![t] = held[t]] /\ UNCHANGED <<idle, closing, open>>
      BY <1>2 DEF TestConn, Register, PutLookup, Goto
    <2> QED BY <1>0, <1>h, <2>1
  <1>3. ASSUME NEW t \in Borrowers, GetLocked(t) PROVE OwnerInv'
    BY <1>3, <1>n, <1>p, PruneOwner DEF GetLocked
  <1>4. ASSUME NEW t \in Borrowers, PruneRelock(t) PROVE OwnerInv'
    BY <1>4, <1>n, <1>p, PruneOwner DEF PruneRelock
  <1>5. ASSUME NEW t \in Borrowers, RejectRelock(t) PROVE OwnerInv'
    BY <1>5, <1>n, <1>p, BorrowOwner DEF RejectRelock
  <1>6. ASSUME NEW t \in Borrowers, PruneClose(t) \/ RejectClose(t) \/ EvictClose(t) PROVE OwnerInv'
    BY <1>6, <1>p, CloseConnOwner DEF PruneClose, RejectClose, EvictClose
  <1>7. ASSUME NEW t \in Borrowers, Dial(t) PROVE OwnerInv'
    BY <1>7, DialOwner
  <1>8. ASSUME NEW t \in Borrowers, PutLocked(t) PROVE OwnerInv'
    BY <1>8, PutOwner
  <1>9. CASE Close
    <2>1. closing = <<>> /\ closing' = idle /\ idle' = <<>> /\ UNCHANGED <<held, open>>
      BY <1>9 DEF Close, CountingInv, ListsOK
    <2>2. Elems(closing) = {} /\ Elems(idle)' = {} /\ Elems(closing)' = Elems(idle)
          /\ Distinct(idle)' /\ Distinct(closing)' = Distinct(idle)
      BY <2>1 DEF Elems, Distinct
    <2> QED BY <2>1, <2>2 DEF OwnerInv
  <1>10. CASE CloseWalk
    <2>1. closing # <<>> /\ closing' = popFront(closing) /\ idle' = idle /\ held' = held
          /\ open' = open \ {Head(closing)}
      BY <1>10 DEF CloseWalk, popFront
    <2>2. /\ Distinct(popFront(closing)) /\ Elems(popFront(closing)) = Elems(closing) \ {Head(closing)}
          /\ Head(closing) \in Elems(closing)
      BY <2>1, PopFrontElems DEF TypeOK, OwnerInv
    <2>3. Elems(closing)' = Elems(closing) \ {Head(closing)} /\ Elems(idle)' = Elems(idle)
          /\ Distinct(idle)' = Distinct(idle) /\ Distinct(closing)'
      BY <2>1, <2>2 DEF Elems, Distinct
    <2> QED BY <2>1, <2>2, <2>3 DEF OwnerInv
  <1>11. CASE Tick \/ UNCHANGED vars
    BY <1>0, <1>11 DEF Tick, vars
  <1> QED
    BY <1>1, <1>2, <1>3, <1>4, <1>5, <1>6, <1>7, <1>8, <1>9, <1>10, <1>11
       DEF Next, GetStep, PutStep

\* The ownership invariant holds in every reachable state.
LEMMA OwnerAlways == Spec => []OwnerInv
  <1>1. Init => OwnerInv
    <2> SUFFICES ASSUME Init PROVE OwnerInv
      OBVIOUS
    <2>1. idle = <<>> /\ closing = <<>> /\ open = {} /\ \A t \in Borrowers : held[t] = None
      BY DEF Init
    <2>2. Elems(idle) = {} /\ Elems(closing) = {} /\ Distinct(idle) /\ Distinct(closing)
      BY <2>1 DEF Elems, Distinct
    <2> QED BY <2>1, <2>2 DEF OwnerInv
  <1>2. TypeOK /\ CountingInv /\ OwnerInv /\ [Next]_vars => OwnerInv'
    BY OwnerStep
  <1> QED BY <1>1, <1>2, TypeCorrect, CountingAlways, PTL DEF Spec

\* Every open connection has exactly one owner, and every owned connection is open.
THEOREM SoleOwnerHolds == Spec => []SoleOwner
  <1>1. TypeOK /\ OwnerInv => SoleOwner
    BY OwnerInvEquiv
  <1> QED BY <1>1, TypeCorrect, OwnerAlways, PTL

-----------------------------------------------------------------------------
(* The limit on open connections *)

\* A list has at most as many elements as positions.
LEMMA ElemsCard ==
    ASSUME NEW l \in Seq(Conns)
    PROVE  IsFiniteSet(Elems(l)) /\ Cardinality(Elems(l)) \in Nat /\ Cardinality(Elems(l)) <= Len(l)
  <1>1. Len(l) \in Nat
    OBVIOUS
  <1>2. IsFiniteSet(1..Len(l)) /\ Cardinality(1..Len(l)) = Len(l)
    BY <1>1, FS_Interval
  <1> DEFINE f == [i \in 1..Len(l) |-> l[i]]
  <1>3. Elems(l) = {f[i] : i \in 1..Len(l)}
    BY DEF Elems
  <1>4. IsFiniteSet(Elems(l)) /\ Cardinality(Elems(l)) <= Cardinality(1..Len(l))
    <2>1. f \in Surjection(1..Len(l), Elems(l))
      BY <1>3 DEF Surjection
    <2> HIDE DEF f
    <2> QED BY <1>2, <2>1, FS_Surjection
  <1> QED BY <1>2, <1>4, FS_CardinalityType

\* The open connections and the dials in flight are all accounted for.
LEMMA OpenBound ==
    ASSUME TypeOK, OwnerInv
    PROVE  /\ IsFiniteSet(open) /\ Cardinality(open) \in Nat
           /\ Cardinality(At({"dialing"})) \in Nat
           /\ Cardinality(open) + Cardinality(At({"dialing"}))
                <= Len(idle) + Len(closing) + Cardinality(At(Counted))
  <1> DEFINE H == At(Holding)
             D == At({"dialing"})
             K == At(Counted)
             G == {held[t] : t \in H}
             E == Elems(idle) \cup Elems(closing)
  <1>1. IsFiniteSet(H) /\ IsFiniteSet(D) /\ IsFiniteSet(K)
    BY FS_Subset, PoolAssumption DEF At
  <1>2. H \cap D = {} /\ H \cup D \subseteq K
    BY DEF At, Holding, Counted
  <1>3. /\ Cardinality(H) \in Nat /\ Cardinality(D) \in Nat /\ Cardinality(K) \in Nat
        /\ Cardinality(H) + Cardinality(D) <= Cardinality(K)
    <2> HIDE DEF H, D, K
    <2>1. Cardinality(H \cup D) = Cardinality(H) + Cardinality(D) - Cardinality(H \cap D)
      BY <1>1, FS_Union
    <2>2. Cardinality(H \cup D) <= Cardinality(K)
      BY <1>1, <1>2, FS_Subset
    <2>3. Cardinality(H \cap D) = 0
      BY <1>2, FS_EmptySet
    <2> QED BY <1>1, <2>1, <2>2, <2>3, FS_CardinalityType
  <1>4. IsFiniteSet(G) /\ Cardinality(G) <= Cardinality(H)
    <2> DEFINE f == [t \in H |-> held[t]]
    <2>1. f \in Surjection(H, G)
      BY DEF Surjection
    <2> HIDE DEF f, H, G
    <2> QED BY <1>1, <2>1, FS_Surjection
  <1>5. /\ IsFiniteSet(Elems(idle)) /\ IsFiniteSet(Elems(closing))
        /\ Cardinality(Elems(idle)) \in Nat /\ Cardinality(Elems(closing)) \in Nat
        /\ Cardinality(Elems(idle)) <= Len(idle) /\ Cardinality(Elems(closing)) <= Len(closing)
        /\ Len(idle) \in Nat /\ Len(closing) \in Nat
    BY ElemsCard DEF TypeOK
  <1>6. IsFiniteSet(E) /\ Cardinality(E) <= Len(idle) + Len(closing) /\ Cardinality(E) \in Nat
    <2>1. /\ IsFiniteSet(E)
          /\ Cardinality(E) = Cardinality(Elems(idle)) + Cardinality(Elems(closing))
                              - Cardinality(Elems(idle) \cap Elems(closing))
      BY <1>5, FS_Union
    <2>2. Cardinality(Elems(idle) \cap Elems(closing)) = 0
      BY FS_EmptySet DEF OwnerInv
    <2> HIDE DEF E
    <2> QED BY <1>5, <2>1, <2>2, FS_CardinalityType
  <1>7. open = E \cup G
    BY OwnerInvEquiv DEF SoleOwner
  <1> HIDE DEF H, D, K, G, E
  <1>8. /\ IsFiniteSet(open) /\ Cardinality(G) \in Nat
        /\ Cardinality(open) = Cardinality(E) + Cardinality(G) - Cardinality(E \cap G)
        /\ Cardinality(E \cap G) \in Nat /\ Cardinality(open) \in Nat
    <2>1. IsFiniteSet(E \cap G)
      BY <1>6, FS_Subset
    <2> QED BY <1>4, <1>6, <1>7, <2>1, FS_Union, FS_CardinalityType
  <1>9. Cardinality(open) + Cardinality(D) <= Len(idle) + Len(closing) + Cardinality(K)
    BY <1>3, <1>4, <1>5, <1>6, <1>8
  <1> QED BY <1>3, <1>8, <1>9 DEF D, K

\* Counting all of them against the limit.
LEMMA OpenLimit ==
    ASSUME TypeOK, CountingInv, OwnerInv, MaxActive > 0
    PROVE  Cardinality(open) + Cardinality(At({"dialing"})) <= MaxActive
  <1>1. active \in Int /\ Len(idle) \in Nat /\ Len(closing) \in Nat /\ MaxActive \in Nat
        /\ Cardinality(At(Counted)) \in Nat
    BY FS_Subset, FS_CardinalityType, PoolAssumption DEF TypeOK, At
  <1>2. active = Len(idle) + Cardinality(At(Counted)) /\ active + Len(closing) <= MaxActive
    BY DEF CountingInv, Accounting, ActiveLimit
  <1> QED BY <1>1, <1>2, OpenBound

\* Neither p.active nor the number of physically open connections ever exceeds
\* MaxActive, for any number of borrowers, with Wait and without.
THEOREM ConnLimitHolds == Spec => []ConnLimit
  <1>1. TypeOK /\ CountingInv /\ OwnerInv => ConnLimit
    <2> SUFFICES ASSUME TypeOK, CountingInv, OwnerInv, MaxActive > 0
                 PROVE  active <= MaxActive /\ Cardinality(open) <= MaxActive
      BY DEF ConnLimit
    <2>1. active <= MaxActive
      BY PoolAssumption DEF CountingInv, ActiveLimit, TypeOK
    <2>2. Cardinality(open) <= MaxActive
      BY OpenLimit, OpenBound, PoolAssumption
    <2> QED BY <2>1, <2>2
  <1> QED BY <1>1, TypeCorrect, CountingAlways, OwnerAlways, PTL

-----------------------------------------------------------------------------
(* The pool implements the lease *)

lentMap == [t \in Borrowers |-> IF pc[t] = "lent" THEN held[t] ELSE None]
dialCount == Cardinality(At({"dialing"}))
OpenWithin == MaxActive > 0 => Cardinality(open) + dialCount <= MaxActive

\* The open connections and the dials in flight stay within the limit.
LEMMA OpenWithinAlways == Spec => []OpenWithin
  <1>1. TypeOK /\ CountingInv /\ OwnerInv => OpenWithin
    BY OpenLimit DEF OpenWithin, dialCount
  <1> QED BY <1>1, TypeCorrect, CountingAlways, OwnerAlways, PTL

\* How a move of one borrower shows in the lease.
LEMMA MoveLease ==
    ASSUME TypeOK, NEW t \in Borrowers, NEW w, NEW c, Goto(t, w, c)
    PROVE  /\ lentMap' = [lentMap EXCEPT ![t] = IF w = "lent" THEN c ELSE None]
           /\ lentMap[t] = IF pc[t] = "lent" THEN held[t] ELSE None
           /\ (pc[t] = "dialing" <=> w = "dialing") => dialCount' = dialCount
           /\ pc[t] # "dialing" /\ w = "dialing" => dialCount' = dialCount + 1
           /\ pc[t] = "dialing" /\ w # "dialing" => dialCount > 0 /\ dialCount' = dialCount - 1
  <1>1. /\ pc' = [pc EXCEPT ![t] = w] /\ held' = [held EXCEPT ![t] = c]
        /\ pc \in [Borrowers -> PC] /\ held \in [Borrowers -> Conns \cup {None}]
    BY DEF Goto, TypeOK
  <1>2. lentMap' = [lentMap EXCEPT ![t] = IF w = "lent" THEN c ELSE None]
    BY <1>1 DEF lentMap
  <1>3. lentMap[t] = IF pc[t] = "lent" THEN held[t] ELSE None
    BY DEF lentMap
  <1> DEFINE g == [pc EXCEPT ![t] = w]
             D == {u \in Borrowers : pc[u] \in {"dialing"}}
             D1 == {u \in Borrowers : g[u] \in {"dialing"}}
  <1>4. At({"dialing"}) = D /\ At({"dialing"})' = D1
    BY <1>1 DEF At
  <1>5. g[t] = w /\ \A u \in Borrowers : u # t => g[u] = pc[u]
    BY <1>1
  <1>6. D \ {t} = D1 \ {t}
    BY <1>5
  <1>7. /\ Cardinality(D \ {t}) \in Nat
        /\ Cardinality(D) = Cardinality(D \ {t}) + (IF pc[t] \in {"dialing"} THEN 1 ELSE 0)
    BY CountSplit
  <1>8. Cardinality(D1) = Cardinality(D1 \ {t}) + (IF g[t] \in {"dialing"} THEN 1 ELSE 0)
    BY CountSplit
  <1> HIDE DEF g, D, D1
  <1>9. /\ dialCount = Cardinality(D \ {t}) + (IF pc[t] = "dialing" THEN 1 ELSE 0)
        /\ dialCount' = Cardinality(D \ {t}) + (IF w = "dialing" THEN 1 ELSE 0)
    BY <1>4, <1>5, <1>6, <1>7, <1>8 DEF dialCount
  <1> QED BY <1>2, <1>3, <1>7, <1>9

\* A connection in the hands of a borrower that is not "lent" it, or on Close's
\* list, is free in the lease.
LEMMA FreeConn ==
    ASSUME TypeOK, OwnerInv, NEW c \in open,
           \A u \in Borrowers : pc[u] = "lent" => held[u] # c
    PROVE  c \in Conns /\ \A u \in Borrowers : lentMap[u] # c
  <1>1. c \in Conns /\ c # None
    BY PoolAssumption DEF TypeOK
  <1> QED BY <1>1 DEF lentMap

\* A borrower that moves without dialling or lending is invisible.
LEMMA StutterLease ==
    ASSUME TypeOK, NEW t \in Borrowers, NEW w, NEW c, Goto(t, w, c),
           pc[t] # "lent", w # "lent", pc[t] = "dialing" <=> w = "dialing",
           UNCHANGED <<open, closed>>
    PROVE  UNCHANGED <<open, lentMap, dialCount, closed>>
  <1>1. lentMap' = [lentMap EXCEPT ![t] = None] /\ lentMap[t] = None /\ dialCount' = dialCount
    BY MoveLease
  <1>2. lentMap' = lentMap
    BY <1>1 DEF lentMap
  <1> QED BY <1>1, <1>2

\* Closing the connection in hand is the lease's Discard.
LEMMA CloseConnLease ==
    ASSUME TypeOK, OwnerInv, NEW t \in Borrowers, NEW from \in Holding \ {"lent"},
           NEW to, to # "lent", to # "dialing", CloseConn(t, from, to)
    PROVE  Lease!Discard
  <1>1. /\ pc[t] = from /\ Goto(t, to, None) /\ open' = open \ {held[t]} /\ closed' = closed
        /\ held[t] # None /\ held[t] \in open /\ from # "dialing"
    BY DEF CloseConn, shared, TypeOK, OwnerInv, Holding
  <1>2. \A u \in Borrowers : pc[u] = "lent" => held[u] # held[t]
    BY <1>1 DEF OwnerInv
  <1>3. held[t] \in Conns /\ \A u \in Borrowers : lentMap[u] # held[t]
    BY <1>1, <1>2, FreeConn
  <1>4. lentMap' = [lentMap EXCEPT ![t] = None] /\ lentMap[t] = None /\ dialCount' = dialCount
    BY <1>1, MoveLease
  <1>5. lentMap' = lentMap
    BY <1>4 DEF lentMap
  <1> QED BY <1>1, <1>3, <1>4, <1>5 DEF Lease!Discard, Lease!Free, lentMap, dialCount

\* The borrow loop is a StartDial or invisible.
LEMMA BorrowLease ==
    ASSUME TypeOK, OwnerInv, OpenWithin', NEW t \in Borrowers, NEW act,
           pc[t] # "lent", pc[t] # "dialing", Borrow(t, act), UNCHANGED <<open, closed>>
    PROVE  Lease!StartDial \/ UNCHANGED Lease!vars
  <1>1. CASE Goto(t, "testing", Head(idle)) \/ Goto(t, "nil", None)
    <2>1. UNCHANGED <<open, lentMap, dialCount, closed>>
      BY <1>1, StutterLease
    <2> QED BY <2>1 DEF Lease!vars, lentMap, dialCount
  <1>2. CASE Goto(t, "dialing", None) /\ ~Refused(act)
    <2>1. /\ lentMap' = [lentMap EXCEPT ![t] = None] /\ lentMap[t] = None
          /\ dialCount' = dialCount + 1
      BY <1>2, MoveLease
    <2>2. lentMap' = lentMap /\ ~closed
      BY <1>2, <2>1 DEF lentMap, Refused
    <2>3. MaxActive > 0 => Cardinality(open') + dialCount' <= MaxActive
      BY DEF OpenWithin
    <2>4. Cardinality(open) \in Nat /\ dialCount \in Nat /\ MaxActive \in Nat
      BY OpenBound, PoolAssumption DEF dialCount
    <2>5. MaxActive > 0 => Cardinality(open) + dialCount < MaxActive
      BY <2>1, <2>3, <2>4
    <2>6. Lease!StartDial
      <3>1. MaxActive > 0 => Cardinality(open) + Cardinality(At({"dialing"})) < MaxActive
        BY <2>5 DEF dialCount
      <3>2. Cardinality(At({"dialing"}))' = Cardinality(At({"dialing"})) + 1
        BY <2>1 DEF dialCount
      <3>3. UNCHANGED [u \in Borrowers |-> IF pc[u] = "lent" THEN held[u] ELSE None]
        BY <2>2 DEF lentMap
      <3>4. Lease!Cardinality(open) = Cardinality(open)
        BY Zenon DEF Lease!Cardinality, Cardinality
      <3> QED BY <2>2, <3>1, <3>2, <3>3, <3>4 DEF Lease!StartDial
    <2> QED BY <2>6
  <1> QED BY <1>1, <1>2 DEF Borrow

\* The prune loop is a StartDial or invisible.
LEMMA PruneLease ==
    ASSUME TypeOK, OwnerInv, OpenWithin', NEW t \in Borrowers, NEW n, NEW act,
           pc[t] # "lent", pc[t] # "dialing", Prune(t, n, act), UNCHANGED <<open, closed>>
    PROVE  Lease!StartDial \/ UNCHANGED Lease!vars
  <1>1. CASE Borrow(t, act)
    BY <1>1, BorrowLease
  <1>2. CASE Goto(t, "pruned", Back(idle))
    <2>1. UNCHANGED <<open, lentMap, dialCount, closed>>
      BY <1>2, StutterLease
    <2> QED BY <2>1 DEF Lease!vars, lentMap, dialCount
  <1> QED BY <1>1, <1>2 DEF Prune

\* Every step of the pool is a step of the lease or invisible to it.
LEMMA LeaseStep ==
    ASSUME TypeOK, OwnerInv, CountingInv, OpenWithin', [Next]_vars
    PROVE  [Lease!Next]_(Lease!vars)
  <1> USE DEF shared
  <1>s. ASSUME UNCHANGED <<open, lentMap, dialCount, closed>> PROVE UNCHANGED Lease!vars
    BY <1>s DEF Lease!vars, lentMap, dialCount
  <1>p. Holding = {"pruned", "testing", "rejected", "got", "lent", "putting", "evicting"}
    BY DEF Holding
  <1>1. ASSUME NEW t \in Borrowers,
               StartGet(t) \/ lazyInit(t) \/ Receive(t) \/ DropNil(t) \/ PutNil(t) \/ PutRelock(t)
        PROVE  UNCHANGED Lease!vars
    <2>1. \E w, c : /\ Goto(t, w, c) /\ pc[t] # "lent" /\ w # "lent"
                    /\ pc[t] # "dialing" /\ w # "dialing" /\ UNCHANGED <<open, closed>>
      BY <1>1 DEF StartGet, lazyInit, Receive, DropNil, PutNil, PutRelock
    <2> QED BY <1>s, <2>1, StutterLease
  <1>2. ASSUME NEW t \in Borrowers, TestConn(t) PROVE UNCHANGED Lease!vars
    <2>1. \E w, c : /\ Goto(t, w, c) /\ pc[t] # "lent" /\ w # "lent"
                    /\ pc[t] # "dialing" /\ w # "dialing" /\ UNCHANGED <<open, closed>>
      BY <1>2 DEF TestConn
    <2> QED BY <1>s, <2>1, StutterLease
  <1>3. ASSUME NEW t \in Borrowers, PutLocked(t) PROVE UNCHANGED Lease!vars
    <2>1. \E w, c : /\ Goto(t, w, c) /\ pc[t] # "lent" /\ w # "lent"
                    /\ pc[t] # "dialing" /\ w # "dialing" /\ UNCHANGED <<open, closed>>
      <3>1. pc[t] = "putting" /\ UNCHANGED <<open, closed>>
        BY <1>3 DEF PutLocked
      <3>2. \/ Goto(t, "evicting", Back(pushFront(idle, held[t])))
            \/ Goto(t, "out", None) \/ Goto(t, "evicting", held[t])
        BY <1>3 DEF PutLocked
      <3> QED BY <3>1, <3>2
    <2> QED BY <1>s, <2>1, StutterLease
  <1>4. ASSUME NEW t \in Borrowers, GetLocked(t) PROVE Lease!StartDial \/ UNCHANGED Lease!vars
    BY <1>4, PruneLease DEF GetLocked
  <1>5. ASSUME NEW t \in Borrowers, PruneRelock(t) PROVE Lease!StartDial \/ UNCHANGED Lease!vars
    BY <1>5, PruneLease DEF PruneRelock
  <1>6. ASSUME NEW t \in Borrowers, RejectRelock(t) PROVE Lease!StartDial \/ UNCHANGED Lease!vars
    BY <1>6, BorrowLease DEF RejectRelock
  <1>7. ASSUME NEW t \in Borrowers, PruneClose(t) \/ RejectClose(t) \/ EvictClose(t)
        PROVE  Lease!Discard
    BY <1>7, <1>p, CloseConnLease DEF PruneClose, RejectClose, EvictClose
  <1>8. ASSUME NEW t \in Borrowers, Dial(t) PROVE Lease!EndDial
    <2>1. PICK c \in Conns \ open : open' = open \cup {c} /\ Goto(t, "got", c)
      BY <1>8 DEF Dial
    <2>2. pc[t] = "dialing" /\ closed' = closed
      BY <1>8 DEF Dial
    <2>3. /\ lentMap' = [lentMap EXCEPT ![t] = None] /\ lentMap[t] = None
          /\ dialCount > 0 /\ dialCount' = dialCount - 1
      BY <2>1, <2>2, MoveLease
    <2>4. lentMap' = lentMap
      BY <2>3 DEF lentMap
    <2> QED BY <2>1, <2>2, <2>3, <2>4 DEF Lease!EndDial, lentMap, dialCount
  <1>9. ASSUME NEW t \in Borrowers, DialError(t) PROVE Lease!EndDial
    <2>2. pc[t] = "dialing" /\ closed' = closed /\ open' = open /\ Goto(t, "nil", None)
      BY <1>9 DEF DialError
    <2>3. /\ lentMap' = [lentMap EXCEPT ![t] = None] /\ lentMap[t] = None
          /\ dialCount > 0 /\ dialCount' = dialCount - 1
      BY <2>2, MoveLease
    <2>4. lentMap' = lentMap
      BY <2>3 DEF lentMap
    <2> QED BY <2>2, <2>3, <2>4 DEF Lease!EndDial, lentMap, dialCount
  <1>10. ASSUME NEW t \in Borrowers, Register(t) PROVE Lease!Lend(t)
    <2>1. pc[t] = "got" /\ Goto(t, "lent", held[t]) /\ closed' = closed /\ open' = open
      BY <1>10 DEF Register
    <2>2. held[t] # None /\ held[t] \in open
      BY <1>p, <2>1 DEF TypeOK, OwnerInv
    <2>3. \A u \in Borrowers : pc[u] = "lent" => held[u] # held[t]
      BY <2>1, <2>2 DEF OwnerInv
    <2>4. held[t] \in Conns /\ \A u \in Borrowers : lentMap[u] # held[t]
      BY <2>2, <2>3, FreeConn
    <2>5. lentMap' = [lentMap EXCEPT ![t] = held[t]] /\ lentMap[t] = None /\ dialCount' = dialCount
      BY <2>1, MoveLease
    <2> QED BY <2>1, <2>2, <2>4, <2>5 DEF Lease!Lend, Lease!Free, lentMap, dialCount
  <1>11. ASSUME NEW t \in Borrowers, PutLookup(t) PROVE Lease!Return(t)
    <2>1. pc[t] = "lent" /\ Goto(t, "putting", held[t]) /\ closed' = closed /\ open' = open
      BY <1>11 DEF PutLookup
    <2>2. held[t] # None
      BY <1>p, <2>1 DEF TypeOK
    <2>3. lentMap' = [lentMap EXCEPT ![t] = None] /\ lentMap[t] = held[t] /\ dialCount' = dialCount
      BY <2>1, MoveLease
    <2> QED BY <2>1, <2>2, <2>3 DEF Lease!Return, lentMap, dialCount
  <1>12. CASE Close
    <2>1. UNCHANGED <<open, lentMap, dialCount>>
      BY <1>12 DEF Close, lentMap, dialCount, At
    <2>2. Lease!Shut
      BY <1>12, <2>1 DEF Close, Lease!Shut, lentMap, dialCount
    <2> QED BY <2>2 DEF Lease!Next
  <1>13. CASE CloseWalk
    <2>1. UNCHANGED <<lentMap, dialCount, closed>>
      BY <1>13 DEF CloseWalk, lentMap, dialCount, At
    <2>2. Head(closing) \in Elems(closing)
      BY <1>13, PopFrontElems DEF CloseWalk, TypeOK, OwnerInv
    <2>3. Head(closing) \in open /\ \A u \in Borrowers : pc[u] = "lent" => held[u] # Head(closing)
      BY <1>p, <2>2 DEF OwnerInv, TypeOK
    <2>4. Head(closing) \in Conns /\ \A u \in Borrowers : lentMap[u] # Head(closing)
      BY <2>3, FreeConn
    <2>5. open' = open \ {Head(closing)}
      BY <1>13 DEF CloseWalk
    <2>6. Lease!Discard
      BY <2>1, <2>3, <2>4, <2>5 DEF Lease!Discard, Lease!Free, lentMap, dialCount
    <2> QED BY <2>6 DEF Lease!Next
  <1>14. CASE Tick \/ UNCHANGED vars
    <2>1. UNCHANGED <<open, lentMap, dialCount, closed>>
      BY <1>14 DEF Tick, vars, lentMap, dialCount, At
    <2> QED BY <1>s, <2>1
  <1>15. ASSUME NEW t \in Borrowers, StartGet(t) \/ Receive(t) \/ GetStep(t) \/ PutStep(t)
         PROVE  [Lease!Next]_(Lease!vars)
    BY <1>1, <1>2, <1>3, <1>4, <1>5, <1>6, <1>7, <1>8, <1>9, <1>10, <1>11, <1>15
       DEF GetStep, PutStep, Lease!Next
  <1> QED BY <1>12, <1>13, <1>14, <1>15 DEF Next

\* The pool implements the lease: exclusive loans of at most MaxActive connections,
\* none dialled once Close was called.
THEOREM PoolImplementsLease == Spec => ImplementsLease
  <1>1. Init => Lease!Init
    <2> SUFFICES ASSUME Init PROVE Lease!Init
      OBVIOUS
    <2>1. At({"dialing"}) = {}
      BY DEF Init, At
    <2>2. Cardinality(At({"dialing"})) = 0
      BY <2>1, FS_EmptySet
    <2> QED BY <2>2 DEF Init, Lease!Init
  <1>2. TypeOK /\ OwnerInv /\ CountingInv /\ OpenWithin' /\ [Next]_vars => [Lease!Next]_(Lease!vars)
    BY LeaseStep
  <1> QED BY <1>1, <1>2, TypeCorrect, OwnerAlways, CountingAlways, OpenWithinAlways, PTL
          DEF Spec, ImplementsLease, Lease!Spec

-----------------------------------------------------------------------------
(* The order of the idle list *)

\* IdleListOK needs that no connection is stamped with a time to come: Put can
\* then push in front of all others.
IdleInv == IdleListOK /\ \A c \in Conns : stamp[c] <= now

\* A step that takes an end off the list, or leaves it alone, keeps the order.
LEMMA PopIdle ==
    ASSUME TypeOK, IdleInv, UNCHANGED <<closed, stamp, now>>,
           \/ idle' = idle
           \/ idle # <<>> /\ idle' \in {popFront(idle), popBack(idle)}
    PROVE  IdleInv'
  <1>1. idle \in Seq(Conns) /\ Len(idle) \in Nat /\ MaxIdle \in Nat /\ stamp \in [Conns -> Nat]
    BY PoolAssumption DEF TypeOK
  <1>2. PICK d \in {0, 1} : /\ Len(idle') \in Nat /\ Len(idle') + d <= Len(idle)
                            /\ \A i \in 1..Len(idle') : idle'[i] = idle[i + d]
    <2>1. CASE idle' = idle
      BY <1>1, <2>1
    <2>2. CASE idle # <<>> /\ idle' = popFront(idle)
      <3>1. /\ Len(idle') = Len(idle) - 1 /\ Len(idle) >= 1
            /\ \A i \in 1..(Len(idle) - 1) : idle'[i] = idle[i + 1]
        BY <1>1, <2>2, PopFrontProps
      <3>2. Len(idle') \in Nat /\ Len(idle') + 1 <= Len(idle)
        BY <1>1, <3>1
      <3> QED BY <3>1, <3>2
    <2>3. CASE idle # <<>> /\ idle' = popBack(idle)
      <3>1. /\ Len(idle') = Len(idle) - 1 /\ Len(idle) >= 1
            /\ \A i \in 1..(Len(idle) - 1) : idle'[i] = idle[i]
        BY <1>1, <2>3, PopBackProps
      <3>2. Len(idle') \in Nat /\ Len(idle') + 0 <= Len(idle)
        BY <1>1, <3>1
      <3>3. \A i \in 1..Len(idle') : idle'[i] = idle[i + 0]
        BY <1>1, <3>1
      <3> QED BY <3>2, <3>3
    <2> QED BY <2>1, <2>2, <2>3
  <1>3. ASSUME NEW i \in 1..Len(idle'), NEW j \in 1..Len(idle'), i <= j
        PROVE  stamp[idle'[i]] >= stamp[idle'[j]]
    <2>1. i + d \in 1..Len(idle) /\ j + d \in 1..Len(idle) /\ i + d <= j + d
      <3>1. d \in {0, 1} /\ Len(idle') \in Nat /\ Len(idle') + d <= Len(idle)
        BY <1>2
      <3> QED BY <1>1, <1>3, <3>1
    <2>2. stamp[idle[i + d]] >= stamp[idle[j + d]]
      <3>1. \A a, b \in 1..Len(idle) : a <= b => stamp[idle[a]] >= stamp[idle[b]]
        BY DEF IdleInv, IdleListOK
      <3> QED BY <2>1, <3>1
    <2> QED BY <1>2, <2>2
  <1>4. Len(idle') <= MaxIdle
    BY <1>1, <1>2 DEF IdleInv, IdleListOK
  <1>5. closed => idle' = <<>>
    <2>1. closed => idle = <<>>
      BY DEF IdleInv, IdleListOK
    <2> QED BY <2>1
  <1> QED BY <1>3, <1>4, <1>5 DEF IdleInv, IdleListOK

\* A connection that is closed is not on the list: resetting its stamp does not
\* show there.
LEMMA ClosedIdle ==
    ASSUME TypeOK, IdleInv, NEW c \in Conns, c \notin Elems(idle),
           stamp' = [stamp EXCEPT ![c] = 0], UNCHANGED <<closed, idle, now>>
    PROVE  IdleInv'
  <1>1. stamp'[c] = 0 /\ now \in Nat /\ \A d \in Conns : d # c => stamp'[d] = stamp[d]
    BY DEF TypeOK
  <1>2. \A i \in 1..Len(idle) : idle[i] \in Conns /\ idle[i] # c
    BY DEF TypeOK, Elems
  <1>3. \A i \in 1..Len(idle) : stamp'[idle[i]] = stamp[idle[i]]
    BY <1>1, <1>2
  <1> QED BY <1>1, <1>3 DEF IdleInv, IdleListOK

\* put stamps its connection with the present and pushes it in front; what is
\* over MaxIdle is taken from the back in the same step.
LEMMA PutIdle ==
    ASSUME TypeOK, OwnerInv, IdleInv, NEW t \in Borrowers, PutLocked(t)
    PROVE  IdleInv'
  <1>1. PICK c \in Conns : c = held[t] /\ c \notin Elems(idle)
    BY DEF PutLocked, TypeOK, Holding, OwnerInv
  <1>2. PICK p : p = pushFront(idle, c)
    OBVIOUS
  <1>3. /\ p \in Seq(Conns) /\ p # <<>> /\ Len(p) = Len(idle) + 1 /\ Len(idle) \in Nat /\ p[1] = c
        /\ \A i \in 1..Len(idle) : p[i + 1] = idle[i]
    <2>1. PICK l \in Seq(Conns) : l = idle
      BY DEF TypeOK
    <2>2. /\ pushFront(l, c) \in Seq(Conns) /\ pushFront(l, c) # <<>>
          /\ Len(pushFront(l, c)) = Len(l) + 1 /\ Len(l) \in Nat /\ pushFront(l, c)[1] = c
      BY PushFrontProps
    <2>3. \A i \in 1..Len(l) : pushFront(l, c)[i + 1] = l[i]
      BY PushFrontProps
    <2>4. p = pushFront(l, c)
      BY <1>2, <2>1
    <2> QED BY <2>1, <2>2, <2>3, <2>4
  <1>4. UNCHANGED <<closed, now>> /\ MaxIdle \in Nat /\ now \in Nat
    BY PoolAssumption DEF PutLocked, shared, TypeOK
  <1>s. \/ closed /\ UNCHANGED <<idle, stamp>>
        \/ ~closed /\ Len(p) > MaxIdle /\ idle' = popBack(p) /\ stamp' = [stamp EXCEPT ![c] = now]
        \/ ~closed /\ Len(p) <= MaxIdle /\ idle' = p /\ stamp' = [stamp EXCEPT ![c] = now]
    BY <1>1, <1>2 DEF PutLocked
  <1>5. CASE closed
    BY <1>4, <1>5, <1>s, PopIdle
  <1>6. ASSUME ~closed, stamp' = [stamp EXCEPT ![c] = now]
        PROVE  \A i, j \in 1..Len(p) : i <= j => stamp'[p[i]] >= stamp'[p[j]]
    <2>1. stamp'[c] = now /\ \A d \in Conns : d # c => stamp'[d] = stamp[d]
      BY <1>6 DEF TypeOK
    <2>2. \A i \in 1..Len(p) : stamp'[p[i]] \in Nat /\ stamp'[p[i]] <= now
      BY <1>3, <1>4, <2>1 DEF IdleInv, TypeOK
    <2>3. \A i \in 1..Len(idle) : idle[i] \in Conns /\ idle[i] # c
      BY <1>1 DEF TypeOK, Elems
    <2> SUFFICES ASSUME NEW i \in 1..Len(p), NEW j \in 1..Len(p), i <= j
                 PROVE  stamp'[p[i]] >= stamp'[p[j]]
      OBVIOUS
    <2>4. CASE i = 1
      BY <1>3, <1>4, <2>1, <2>2, <2>4
    <2>5. CASE i # 1
      <3>1. /\ i - 1 \in 1..Len(idle) /\ j - 1 \in 1..Len(idle) /\ i - 1 <= j - 1
            /\ (i - 1) + 1 = i /\ (j - 1) + 1 = j
        BY <1>3, <2>5
      <3>2. p[i] = idle[i - 1] /\ p[j] = idle[j - 1]
        BY <1>3, <3>1
      <3>3. stamp[idle[i - 1]] >= stamp[idle[j - 1]]
        BY <3>1 DEF IdleInv, IdleListOK
      <3> QED BY <2>1, <2>3, <3>1, <3>2, <3>3
    <2> QED BY <2>4, <2>5
  <1>7. ASSUME ~closed, stamp' = [stamp EXCEPT ![c] = now] PROVE \A d \in Conns : stamp'[d] <= now'
    BY <1>4, <1>7 DEF IdleInv, TypeOK
  <1>8. CASE ~closed /\ Len(p) > MaxIdle
    <2>1. idle' = popBack(p) /\ stamp' = [stamp EXCEPT ![c] = now]
      BY <1>3, <1>4, <1>8, <1>s
    <2>2. /\ Len(idle') = Len(p) - 1 /\ \A i \in 1..(Len(p) - 1) : idle'[i] = p[i]
      BY <1>3, <2>1, PopBackProps
    <2>3. Len(idle') <= MaxIdle
      BY <1>3, <1>4, <2>2 DEF IdleInv, IdleListOK
    <2>4. \A i, j \in 1..Len(idle') : i <= j => stamp'[idle'[i]] >= stamp'[idle'[j]]
      <3> SUFFICES ASSUME NEW i \in 1..Len(idle'), NEW j \in 1..Len(idle'), i <= j
                   PROVE  stamp'[idle'[i]] >= stamp'[idle'[j]]
        OBVIOUS
      <3>1. idle'[i] = p[i] /\ idle'[j] = p[j] /\ i \in 1..Len(p) /\ j \in 1..Len(p)
        BY <1>3, <2>2
      <3> QED BY <1>6, <1>8, <2>1, <3>1
    <2> QED BY <1>4, <1>7, <1>8, <2>1, <2>3, <2>4 DEF IdleInv, IdleListOK
  <1>9. CASE ~closed /\ Len(p) <= MaxIdle
    <2>1. idle' = p /\ stamp' = [stamp EXCEPT ![c] = now]
      BY <1>3, <1>4, <1>9, <1>s
    <2> QED BY <1>4, <1>6, <1>7, <1>9, <2>1 DEF IdleInv, IdleListOK
  <1> QED BY <1>3, <1>4, <1>5, <1>8, <1>9

LEMMA IdleStep ==
    ASSUME TypeOK, OwnerInv, IdleInv, [Next]_vars
    PROVE  IdleInv'
  <1>1. ASSUME UNCHANGED <<closed, idle, stamp, now>> PROVE IdleInv'
    BY <1>1, PopIdle
  <1>2. ASSUME NEW t \in Borrowers, NEW act, Borrow(t, act), UNCHANGED <<closed, stamp, now>>
        PROVE  IdleInv'
    <2>1. CASE idle = <<>>
      BY <1>2, <2>1, PopIdle DEF Borrow
    <2>2. CASE idle # <<>>
      BY <1>2, <2>2, PopIdle DEF Borrow
    <2> QED BY <2>1, <2>2
  <1>3. ASSUME NEW t \in Borrowers, NEW n, NEW act, Prune(t, n, act), UNCHANGED <<closed, stamp, now>>
        PROVE  IdleInv'
    <2>1. CASE Borrow(t, act)
      BY <1>2, <1>3, <2>1
    <2>2. CASE idle # <<>> /\ idle' = popBack(idle)
      BY <1>3, <2>2, PopIdle
    <2> QED BY <1>3, <2>1, <2>2 DEF Prune
  <1>4. ASSUME NEW t \in Borrowers,
               \/ StartGet(t) \/ lazyInit(t) \/ Receive(t) \/ TestConn(t) \/ Dial(t) \/ DialError(t)
               \/ Register(t) \/ DropNil(t) \/ PutNil(t) \/ PutLookup(t) \/ PutRelock(t)
        PROVE  IdleInv'
    BY <1>1, <1>4 DEF StartGet, lazyInit, Receive, TestConn, Dial, DialError, Register, DropNil, PutNil,
                      PutLookup, PutRelock, shared
  <1>5. ASSUME NEW t \in Borrowers, GetLocked(t) \/ PruneRelock(t) PROVE IdleInv'
    BY <1>3, <1>5 DEF GetLocked, PruneRelock, shared
  <1>6. ASSUME NEW t \in Borrowers, RejectRelock(t) PROVE IdleInv'
    BY <1>2, <1>6 DEF RejectRelock, shared
  <1>7. ASSUME NEW t \in Borrowers, NEW from \in Holding, NEW to, CloseConn(t, from, to) PROVE IdleInv'
    <2>1. held[t] \in Conns /\ held[t] \notin Elems(idle)
      BY <1>7 DEF CloseConn, TypeOK, OwnerInv
    <2> QED BY <1>7, <2>1, ClosedIdle DEF CloseConn, shared
  <1>8. ASSUME NEW t \in Borrowers, PruneClose(t) \/ RejectClose(t) \/ EvictClose(t) PROVE IdleInv'
    BY <1>7, <1>8 DEF PruneClose, RejectClose, EvictClose, Holding
  <1>9. ASSUME NEW t \in Borrowers, PutLocked(t) PROVE IdleInv'
    BY <1>9, PutIdle
  <1>10. CASE Close
    BY <1>10, PoolAssumption DEF Close, IdleInv, IdleListOK
  <1>11. CASE CloseWalk
    <2>1. Head(closing) \in Conns /\ Head(closing) \in Elems(closing)
      BY <1>11, PopFrontElems, PopFrontProps DEF CloseWalk, TypeOK, OwnerInv
    <2>2. Head(closing) \notin Elems(idle)
      BY <2>1 DEF OwnerInv
    <2> QED BY <1>11, <2>1, <2>2, ClosedIdle DEF CloseWalk
  <1>12. CASE Tick
    BY <1>12 DEF Tick, IdleInv, IdleListOK, TypeOK
  <1>13. CASE UNCHANGED vars
    BY <1>1, <1>13 DEF vars
  <1> QED
    BY <1>4, <1>5, <1>6, <1>8, <1>9, <1>10, <1>11, <1>12, <1>13 DEF Next, GetStep, PutStep

\* The idle list is bounded, empty after Close and in the order in which pruning
\* from the back relies on (pool/pool.go, Put and get).
THEOREM IdleListHolds == Spec => []IdleListOK
  <1>1. Init => IdleInv
    BY PoolAssumption DEF Init, IdleInv, IdleListOK
  <1>2. TypeOK /\ OwnerInv /\ IdleInv /\ [Next]_vars => IdleInv'
    BY IdleStep
  <1>3. IdleInv => IdleListOK
    BY DEF IdleInv
  <1> QED BY <1>1, <1>2, <1>3, TypeCorrect, OwnerAlways, PTL DEF Spec
=============================================================================
