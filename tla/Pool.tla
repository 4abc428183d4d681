-------------------------------- MODULE Pool --------------------------------
(***************************************************************************)
(* pool/pool.go: the connection pool.  Every borrower runs sessions of      *)
(* Get ... Put; Close may be called once at any moment.  A step is what a   *)
(* goroutine does between two points where it releases p.mu, blocks on      *)
(* p.ch, or is inside an application callback (Dial, TestOnBorrow, the      *)
(* connection's Close): everything the code does while it holds p.mu is one *)
(* step, everything it does outside the mutex is a step of its own.         *)
(***************************************************************************)
EXTENDS Integers, Sequences, FiniteSets

CONSTANTS
    Borrowers,     \* goroutines that use the pool
    Conns,         \* identities of connections (an identity is reused once closed)
    None,          \* no connection
    MaxIdle, MaxActive, IdleTimeout, Wait,   \* the fields of Pool
    TestOnBorrow,  \* may the borrow test (or MaxConnLifetime) reject a connection?
    DialMayFail,   \* may Dial return an error?
    PutsNil,       \* does the application Put what Get returned even if it is nil?
    MaxTime        \* bound on the clock

ASSUME PoolAssumption ==
    /\ IsFiniteSet(Borrowers)
    /\ None \notin Conns
    /\ MaxIdle \in Nat /\ MaxActive \in Nat /\ IdleTimeout \in Nat /\ MaxTime \in Nat
    /\ Wait \in BOOLEAN /\ TestOnBorrow \in BOOLEAN
    /\ DialMayFail \in BOOLEAN /\ PutsNil \in BOOLEAN

VARIABLES
    closed,        \* p.closed
    active,        \* p.active
    idle,          \* p.idle, front first
    ch,            \* p.ch: "nil", "open" or "closed"
    tokens,        \* the elements buffered in p.ch
    poolConnMap,   \* the keys of p.poolConnMap
    wedged,        \* a panicking Put left p.mu locked
    pc,            \* where each borrower is
    held,          \* the local pc (poolConn) of each borrower
    left,          \* n - i of the prune loop of each borrower
    closing,       \* the detached list Close still has to walk
    open,          \* the connections that are physically open
    stamp,         \* poolConn.t, the time of the last Put
    now            \* nowFunc()

vars == <<closed, active, idle, ch, tokens, poolConnMap, wedged, pc, held,
          left, closing, open, stamp, now>>

shared == <<closed, ch, poolConnMap, wedged, closing, now>>

Limited == Wait /\ MaxActive > 0

-----------------------------------------------------------------------------
(* Where a borrower can be. *)
Counted == {"pruned", "pruneRelock", "testing", "rejected", "rejectRelock",
            "dialing", "got", "lent", "putting", "evicting", "putRelock"}
Working == Counted \cup {"lock"}
Holding == {"pruned", "testing", "rejected", "got", "lent", "putting", "evicting"}
PC == Working \cup {"out", "lazyInit", "recv", "nil"}

Init ==
    /\ closed = FALSE /\ active = 0 /\ idle = <<>>
    /\ ch = "nil" /\ tokens = 0
    /\ poolConnMap = {} /\ wedged = FALSE
    /\ pc = [t \in Borrowers |-> "out"]
    /\ held = [t \in Borrowers |-> None]
    /\ left = [t \in Borrowers |-> 0]
    /\ closing = <<>> /\ open = {}
    /\ stamp = [c \in Conns |-> 0] /\ now = 0

-----------------------------------------------------------------------------
(* idleList *)
\* Mutant: pushes at the wrong end.
pushBack(l, c) == Append(l, c)
pushFront(l, c) == <<c>> \o l
\* Mutant: the popped element stays linked.
peekFront(l) == l
popFront(l) == Tail(l)
popBack(l) == [i \in 1..(Len(l) - 1) |-> l[i]]
Back(l) == l[Len(l)]

Stale(c) == IdleTimeout > 0 /\ stamp[c] + IdleTimeout < now

Goto(t, where, c) == /\ pc' = [pc EXCEPT ![t] = where]
                     /\ held' = [held EXCEPT ![t] = c]

\* Mutant: the token is never sent back.
LoseToken == tokens' = tokens

\* A send on p.ch while p.mu is held, guarded by "p.ch != nil && !p.closed".
ReturnToken == tokens' = IF ch # "nil" /\ ~closed THEN tokens + 1 ELSE tokens

\* The application's Close of a connection, outside the mutex.
CloseConn(t, from, to) ==
    /\ pc[t] = from
    /\ open' = open \ {held[t]}
    /\ stamp' = [stamp EXCEPT ![held[t]] = 0]
    /\ Goto(t, to, None)
    /\ UNCHANGED <<shared, active, idle, tokens, left>>

-----------------------------------------------------------------------------
(* Get *)
StartGet(t) ==
    /\ pc[t] = "out"
    /\ Goto(t, IF Limited THEN "lazyInit" ELSE "lock", None)
    /\ UNCHANGED <<shared, active, idle, tokens, left, open, stamp>>

\* Mutant: the second check of chInitialized, under the mutex, is missing.
lazyInitTwice(t) ==
    /\ pc[t] = "lazyInit" /\ ~wedged
    /\ ch' = IF closed THEN "closed" ELSE "open"
    /\ tokens' = IF closed THEN 0 ELSE MaxActive
    /\ Goto(t, "recv", None)
    /\ UNCHANGED <<closed, active, idle, poolConnMap, wedged, left, closing, open, stamp, now>>

\* The fast path takes no lock.
lazyInit(t) ==
    /\ pc[t] = "lazyInit"
    /\ ch = "nil" => ~wedged
    /\ IF ch # "nil" THEN UNCHANGED <<ch, tokens>>
       ELSE /\ ch' = IF closed THEN "closed" ELSE "open"
            /\ tokens' = IF closed THEN 0 ELSE MaxActive
    /\ Goto(t, "recv", None)
    /\ UNCHANGED <<closed, active, idle, poolConnMap, wedged, left, closing, open, stamp, now>>

\* Mutant: a receive that does not wait for a token (select with a default case).
ReceiveNoWait(t) ==
    /\ pc[t] = "recv"
    /\ tokens' = IF tokens > 0 THEN tokens - 1 ELSE 0
    /\ Goto(t, "lock", None)
    /\ UNCHANGED <<shared, active, idle, left, open, stamp>>

\* "<-p.ch": a closed channel first hands out what is buffered, then never blocks.
Receive(t) ==
    /\ pc[t] = "recv"
    /\ tokens > 0 \/ ch = "closed"
    /\ tokens' = IF tokens > 0 THEN tokens - 1 ELSE 0
    /\ Goto(t, "lock", None)
    /\ UNCHANGED <<shared, active, idle, left, open, stamp>>

\* Mutant: no check for a closed pool before dialling.
RefusedNotClosed(act) == ~Wait /\ MaxActive > 0 /\ act >= MaxActive

\* "get on closed pool" and ErrPoolExhausted.
Refused(act) == closed \/ (~Wait /\ MaxActive > 0 /\ act >= MaxActive)

\* From the borrow loop on, with act the value of p.active so far.
Borrow(t, act) ==
    /\ left' = [left EXCEPT ![t] = 0]
    /\ \/ /\ idle # <<>>
          /\ idle' = popFront(idle)
          /\ active' = act
          /\ Goto(t, "testing", Head(idle))
       \/ /\ idle = <<>>
          /\ Refused(act)
          /\ active' = act
          /\ Goto(t, "nil", None)
          /\ UNCHANGED idle
       \/ /\ idle = <<>>
          /\ ~Refused(act)
          /\ active' = act + 1
          /\ Goto(t, "dialing", None)
          /\ UNCHANGED idle

\* From the prune loop on, with n iterations left.
Prune(t, n, act) ==
    \/ /\ n > 0 /\ idle # <<>> /\ Stale(Back(idle))
       /\ idle' = popBack(idle)
       /\ left' = [left EXCEPT ![t] = n - 1]
       /\ active' = act
       /\ Goto(t, "pruned", Back(idle))
    \/ /\ ~(n > 0 /\ idle # <<>> /\ Stale(Back(idle)))
       /\ Borrow(t, act)

GetLocked(t) ==
    /\ pc[t] = "lock" /\ ~wedged
    /\ Prune(t, Len(idle), active)
    /\ UNCHANGED <<shared, tokens, open, stamp>>

PruneClose(t) == CloseConn(t, "pruned", "pruneRelock")

PruneRelock(t) ==
    /\ pc[t] = "pruneRelock" /\ ~wedged
    /\ Prune(t, left[t], active - 1)
    /\ UNCHANGED <<shared, tokens, open, stamp>>

\* TestOnBorrow and the MaxConnLifetime test, outside the mutex.
TestConn(t) ==
    /\ pc[t] = "testing"
    /\ \E ok \in {TRUE} \cup {~TestOnBorrow} :
          Goto(t, IF ok THEN "got" ELSE "rejected", held[t])
    /\ UNCHANGED <<shared, active, idle, tokens, left, open, stamp>>

RejectClose(t) == CloseConn(t, "rejected", "rejectRelock")

RejectRelock(t) ==
    /\ pc[t] = "rejectRelock" /\ ~wedged
    /\ Borrow(t, active - 1)
    /\ UNCHANGED <<shared, tokens, open, stamp>>

Dial(t) ==
    /\ pc[t] = "dialing"
    /\ \E c \in Conns \ open :
          /\ open' = open \cup {c}
          /\ Goto(t, "got", c)
    /\ UNCHANGED <<shared, active, idle, tokens, left, stamp>>

DialError(t) ==
    /\ pc[t] = "dialing" /\ DialMayFail /\ ~wedged
    /\ active' = active - 1
    /\ ReturnToken
    /\ Goto(t, "nil", None)
    /\ UNCHANGED <<shared, idle, left, open, stamp>>

\* Get records the connection it is about to return.
Register(t) ==
    /\ pc[t] = "got" /\ ~wedged
    /\ poolConnMap' = poolConnMap \cup {held[t]}
    /\ Goto(t, "lent", held[t])
    /\ UNCHANGED <<closed, active, idle, ch, tokens, wedged, left, closing, open, stamp, now>>

\* The application does nothing with a nil result.
DropNil(t) ==
    /\ pc[t] = "nil"
    /\ Goto(t, "out", None)
    /\ UNCHANGED <<shared, active, idle, tokens, left, open, stamp>>

-----------------------------------------------------------------------------
(* Put *)

\* Put(nil): the map has no such key, so put dereferences a nil poolConn with
\* p.mu locked, unless the pool is closed.
PutNil(t) ==
    /\ pc[t] = "nil" /\ PutsNil /\ ~wedged
    /\ wedged' = ~closed
    /\ Goto(t, "out", None)
    /\ UNCHANGED <<closed, active, idle, ch, tokens, poolConnMap, left, closing, open, stamp, now>>

PutLookup(t) ==
    /\ pc[t] = "lent" /\ ~wedged
    /\ poolConnMap' = poolConnMap \ {held[t]}
    /\ Goto(t, "putting", held[t])
    /\ UNCHANGED <<closed, active, idle, ch, tokens, wedged, left, closing, open, stamp, now>>

\* put up to the point where it releases p.mu: the connection goes to the front
\* of the idle list; what exceeds MaxIdle, or any connection when the pool is
\* closed, is taken out to be closed.
PutLocked(t) ==
    /\ pc[t] = "putting" /\ ~wedged
    /\ LET pushed == pushFront(idle, held[t])
       IN \/ /\ ~closed /\ Len(pushed) > MaxIdle
             /\ stamp' = [stamp EXCEPT ![held[t]] = now]
             /\ idle' = popBack(pushed)
             /\ Goto(t, "evicting", Back(pushed))
             /\ UNCHANGED tokens
          \/ /\ ~closed /\ Len(pushed) <= MaxIdle
             /\ stamp' = [stamp EXCEPT ![held[t]] = now]
             /\ idle' = pushed
             /\ ReturnToken
             /\ Goto(t, "out", None)
          \/ /\ closed
             /\ Goto(t, "evicting", held[t])
             /\ UNCHANGED <<idle, stamp, tokens>>
    /\ UNCHANGED <<shared, active, left, open>>

EvictClose(t) == CloseConn(t, "evicting", "putRelock")

PutRelock(t) ==
    /\ pc[t] = "putRelock" /\ ~wedged
    /\ active' = active - 1
    /\ ReturnToken
    /\ Goto(t, "out", None)
    /\ UNCHANGED <<shared, idle, left, open, stamp>>

-----------------------------------------------------------------------------
\* Mutant: Close leaves p.active alone.
CloseUncounted ==
    /\ ~closed /\ ~wedged
    /\ closed' = TRUE
    /\ closing' = idle
    /\ idle' = <<>>
    /\ ch' = IF ch # "nil" THEN "closed" ELSE ch
    /\ UNCHANGED <<active, tokens, poolConnMap, wedged, pc, held, left, open, stamp, now>>

\* Mutant: Close forgets the head of the list it detached.
CloseLeaks ==
    /\ ~closed /\ ~wedged
    /\ closed' = TRUE
    /\ active' = active - Len(idle)
    /\ closing' = IF idle = <<>> THEN idle ELSE Tail(idle)
    /\ idle' = <<>>
    /\ ch' = IF ch # "nil" THEN "closed" ELSE ch
    /\ UNCHANGED <<tokens, poolConnMap, wedged, pc, held, left, open, stamp, now>>

(* Close: a second call returns at once and is not a step. *)
Close ==
    /\ ~closed /\ ~wedged
    /\ closed' = TRUE
    /\ active' = active - Len(idle)
    /\ closing' = idle
    /\ idle' = <<>>
    /\ ch' = IF ch # "nil" THEN "closed" ELSE ch
    /\ UNCHANGED <<tokens, poolConnMap, wedged, pc, held, left, open, stamp, now>>

\* Close walks the detached list outside the mutex.
CloseWalk ==
    /\ closing # <<>>
    /\ open' = open \ {Head(closing)}
    /\ stamp' = [stamp EXCEPT ![Head(closing)] = 0]
    /\ closing' = Tail(closing)
    /\ UNCHANGED <<closed, active, idle, ch, tokens, poolConnMap, wedged, pc, held, left, now>>

Tick ==
    /\ now < MaxTime
    /\ now' = now + 1
    /\ UNCHANGED <<closed, active, idle, ch, tokens, poolConnMap, wedged, pc, held,
                   left, closing, open, stamp>>

GetStep(t) ==
    \/ lazyInit(t) \/ GetLocked(t) \/ PruneClose(t) \/ PruneRelock(t)
    \/ TestConn(t) \/ RejectClose(t) \/ RejectRelock(t)
    \/ Dial(t) \/ DialError(t) \/ Register(t)

PutStep(t) ==
    \/ DropNil(t) \/ PutNil(t)
    \/ PutLookup(t) \/ PutLocked(t) \/ EvictClose(t) \/ PutRelock(t)

Next ==
    \/ \E t \in Borrowers : StartGet(t) \/ Receive(t) \/ GetStep(t) \/ PutStep(t)
    \/ Close \/ CloseWalk \/ Tick

Spec == Init /\ [][Next]_vars

(* The Go runtime runs every runnable goroutine; receivers of a channel are
   served in order, hence SF for Receive; the application eventually Puts
   what it got.  Nothing obliges it to call Get or Close. *)
Fairness ==
    /\ \A t \in Borrowers : WF_vars(GetStep(t)) /\ SF_vars(Receive(t)) /\ WF_vars(PutStep(t))
    /\ WF_vars(CloseWalk)

FairSpec == Spec /\ Fairness

-----------------------------------------------------------------------------
(* Properties *)

At(where) == {t \in Borrowers : pc[t] \in where}
Elems(s) == {s[i] : i \in 1..Len(s)}
Distinct(s) == \A i, j \in 1..Len(s) : s[i] = s[j] => i = j

\* The variables have the types of the fields and locals they stand for, and a
\* borrower refers to a connection exactly while it is at a step that owns one.
TypeOK ==
    /\ closed \in BOOLEAN /\ wedged \in BOOLEAN
    /\ active \in Int /\ tokens \in Int
    /\ idle \in Seq(Conns) /\ closing \in Seq(Conns)
    /\ ch \in {"nil", "open", "closed"}
    /\ poolConnMap \subseteq Conns /\ open \subseteq Conns
    /\ pc \in [Borrowers -> PC]
    /\ held \in [Borrowers -> Conns \cup {None}]
    /\ \A t \in Borrowers : (pc[t] \in Holding) <=> (held[t] # None)
    /\ left \in [Borrowers -> Int]
    /\ stamp \in [Conns -> Nat] /\ now \in Nat

\* p.active counts, at every moment the mutex is free, the idle connections and
\* the borrowers that own or are about to own one; no path of get, put or Close
\* forgets to adjust it or adjusts it twice.
Accounting == active = Len(idle) + Cardinality(At(Counted))

\* "Maximum number of connections allocated by the pool at a given time": neither
\* the counter nor the number of connections physically open exceeds MaxActive,
\* with connections being closed outside the mutex and with Close under way.
ConnLimit == MaxActive > 0 => active <= MaxActive /\ Cardinality(open) <= MaxActive

\* The sends on p.ch happen with p.mu locked, so one that blocked would stop the
\* whole pool, and one on a closed channel would panic: whenever a borrower may
\* be about to send, the channel is open and has room.
SendSafe ==
    \A t \in At({"dialing", "putting", "putRelock"}) :
        ch # "nil" /\ ~closed => ch = "open" /\ tokens < MaxActive

\* What makes the counting properties inductive.  While the pool is open each
\* borrower past the receive has one of the MaxActive tokens; Close moves the
\* idle connections from p.active to the list it walks.
ChannelOK ==
    /\ tokens >= 0
    /\ ch # "nil" => Limited /\ (ch = "closed" <=> closed)
    /\ Limited => \A t \in At(Working \cup {"recv"}) : ch # "nil"
    /\ \A t \in At({"lazyInit"}) : Limited
TokenBalance == ch # "nil" /\ ~closed => tokens + Cardinality(At(Working)) = MaxActive
ActiveLimit == MaxActive > 0 => active + Len(closing) <= MaxActive
ListsOK == /\ closed => idle = <<>>
           /\ ~closed => closing = <<>>
CountingInv == Accounting /\ ChannelOK /\ TokenBalance /\ ActiveLimit /\ ListsOK

\* A connection has one owner: it is in the idle list once, or in the hands of
\* one borrower, or on the list Close is walking; an owned connection is open (a
\* lent one is never closed under its borrower, none is closed twice), and an
\* open connection has an owner (none leaks).
SoleOwner ==
    /\ Distinct(idle) /\ Distinct(closing)
    /\ Elems(idle) \cap Elems(closing) = {}
    /\ \A t \in At(Holding) : held[t] \notin Elems(idle) \cup Elems(closing)
    /\ \A t, u \in At(Holding) : held[t] = held[u] => t = u
    /\ open = Elems(idle) \cup Elems(closing) \cup {held[t] : t \in At(Holding)}

\* The idle list never exceeds MaxIdle between steps, is empty once the pool is
\* closed, and is ordered by the time of the last Put, so that pruning from the
\* back reaches every stale connection.
IdleListOK ==
    /\ Len(idle) <= MaxIdle
    /\ closed => idle = <<>>
    /\ \A i, j \in 1..Len(idle) : i <= j => stamp[idle[i]] >= stamp[idle[j]]

Lease == INSTANCE ConnLease WITH
             lent <- [t \in Borrowers |-> IF pc[t] = "lent" THEN held[t] ELSE None],
             dials <- Cardinality(At({"dialing"})),
             shut <- closed

\* Get, Put and Close are exclusive leases of at most MaxActive connections: every
\* step of the pool is a step of the abstract lease or invisible to it.
ImplementsLease == Lease!Spec

\* The same with the lease's fairness: dials end, loans end, and after Close every
\* connection is closed in the end, also those that were on loan or being dialled.
ImplementsFairLease == Lease!FairSpec

\* "If Wait is true and the pool is at the MaxActive limit, then Get() waits for a
\* connection to be returned to the pool before returning": a Get that waits, for
\* a token or for the mutex, returns in the end, by a connection or by nil, also
\* when dials fail and when the pool is closed meanwhile.  (The application puts
\* back what it got; run pool_nil shows what a Put of nil does to it.)
GetReturns == \A t \in Borrowers : pc[t] \in {"recv", "lock"} ~> pc[t] \in {"lent", "nil"}
=============================================================================
