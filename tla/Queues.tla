------------------------------- MODULE Queues -------------------------------
(* Queues that are cleaned: Vec::retain() and VecDeque::retain() in the      *)
(* daemon, and the filters of the script and the plugin.                     *)
EXTENDS Naturals, Sequences, FiniteSets

\* The places of s whose elements are not in X, and how many there are up to i.
KeptPlaces(s, X) == {i \in DOMAIN s : s[i] \notin X}
Rank(places, i) == Cardinality({j \in places : j <= i})

\* s without the elements of X, in their order.
Without(s, X) ==
    LET places == KeptPlaces(s, X)
    IN  [k \in 1..Cardinality(places) |-> s[CHOOSE i \in places : Rank(places, i) = k]]
=============================================================================
