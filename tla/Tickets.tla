------------------------------ MODULE Tickets ------------------------------
(***************************************************************************)
(* What the server promises of its challenges, as an observer counts the   *)
(* requests let through with each: a challenge is accepted only if the     *)
(* running process handed it out, and while its time has not run out only  *)
(* if no acceptance of it is on record.  A record is lost only when the    *)
(* challenge's time is over, or one at a time to make room for another.    *)
(* AuthServer keeps this promise with signatures, two readings of a clock  *)
(* that may be set, and a bounded dictionary.                              *)
(***************************************************************************)
EXTENDS Naturals, FiniteSets

CONSTANTS
    Nonces,
    Room                \* the records there is room for

VARIABLES
    good,               \* handed out by the running process
    live,               \* those of them whose time is not over
    taken,              \* accepted, and on record
    times               \* how often a request was let through with each

vars == <<good, live, taken, times>>

Init ==
    /\ good = {}
    /\ live = {}
    /\ taken = {}
    /\ times = [n \in Nonces |-> 0]

\* A challenge is handed out that no request was ever let through with.
Issue ==
    /\ \E n \in Nonces \ good : /\ times[n] = 0
                                /\ good' = good \cup {n}
                                /\ live' = live \cup {n}
    /\ UNCHANGED <<taken, times>>

\* Time passes, or the clock is set.
Pass ==
    /\ live' \in SUBSET good
    /\ UNCHANGED <<good, taken, times>>

\* A request is let through, and is counted: with a challenge that is on
\* record, only if its time is over.  A new record may push out another.
Take(n) ==
    /\ n \in good
    /\ n \notin taken \cap live
    /\ times' = [times EXCEPT ![n] = @ + 1]
    /\ \/ taken' = taken \cup {n}
       \/ /\ n \notin taken
          /\ Cardinality(taken) >= Room
          /\ \E o \in taken : taken' = (taken \ {o}) \cup {n}
    /\ UNCHANGED <<good, live>>

Forget ==
    /\ \E n \in taken \ live : taken' = taken \ {n}
    /\ UNCHANGED <<good, live, times>>

\* The process ends, and with it all it handed out.
Void ==
    /\ good' = {}
    /\ live' = {}
    /\ taken' = {}
    /\ UNCHANGED times

Next == Issue \/ Pass \/ (\E n \in Nonces : Take(n)) \/ Forget \/ Void

Spec == Init /\ [][Next]_vars
=============================================================================
