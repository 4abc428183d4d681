----------------------------- MODULE ConnLease ------------------------------
(***************************************************************************)
(* What the pool promises its users, without idle list, tokens or mutex: a  *)
(* set of open connections, each lent to at most one borrower, never more   *)
(* than MaxActive of them counting the dials in flight, none dialled after  *)
(* the pool is shut, and all of them closed in the end once it is.          *)
(***************************************************************************)
EXTENDS Integers, FiniteSets

CONSTANTS Borrowers, Conns, None, MaxActive

VARIABLES open,    \* open connections
          lent,    \* the connection each borrower has, or None
          dials,   \* number of dials in flight
          shut     \* the pool was closed

vars == <<open, lent, dials, shut>>

Init == /\ open = {}
        /\ lent = [t \in Borrowers |-> None]
        /\ dials = 0
        /\ shut = FALSE

Free(c) == c \in open /\ \A t \in Borrowers : lent[t] # c

StartDial == /\ ~shut
             /\ MaxActive > 0 => Cardinality(open) + dials < MaxActive
             /\ dials' = dials + 1
             /\ UNCHANGED <<open, lent, shut>>

EndDial == /\ dials > 0
           /\ dials' = dials - 1
           /\ open' = open \/ \E c \in Conns \ open : open' = open \cup {c}
           /\ UNCHANGED <<lent, shut>>

Lend(t) == /\ lent[t] = None
           /\ \E c \in Conns : Free(c) /\ lent' = [lent EXCEPT ![t] = c]
           /\ UNCHANGED <<open, dials, shut>>

Return(t) == /\ lent[t] # None
             /\ lent' = [lent EXCEPT ![t] = None]
             /\ UNCHANGED <<open, dials, shut>>

Discard == /\ \E c \in Conns : Free(c) /\ open' = open \ {c}
           /\ UNCHANGED <<lent, dials, shut>>

Shut == /\ ~shut /\ shut' = TRUE
        /\ UNCHANGED <<open, lent, dials>>

Next == \/ StartDial \/ EndDial \/ Discard \/ Shut
        \/ \E t \in Borrowers : Lend(t) \/ Return(t)

Spec == Init /\ [][Next]_vars

Fairness == /\ WF_vars(EndDial)
            /\ \A t \in Borrowers : WF_vars(Return(t))
            /\ WF_vars(shut /\ Discard)

FairSpec == Spec /\ Fairness
=============================================================================
