--------------------------- MODULE HomelabSampling ---------------------------
(***************************************************************************)
(* Which services a refresh probes, and how often it says it does:         *)
(* nabla/api/homelab_probe_policy.py.  Clocks are counted in windows of    *)
(* HEALTH_CACHE_TTL_SEC; the catalogue is a sequence of services without   *)
(* duplicates.                                                             *)
(***************************************************************************)
EXTENDS Integers, Sequences, FiniteSets

CONSTANTS
    Catalogue,   \* the services in the order of the catalogue
    Rank,        \* their priority, or NoRank
    NoRank

Services == {Catalogue[i] : i \in 1 .. Len(Catalogue)}

ASSUME SamplingAssumption ==
    /\ Catalogue \in Seq(Services)
    /\ \A i, j \in 1 .. Len(Catalogue) : Catalogue[i] = Catalogue[j] => i = j
    /\ \A s \in Services : Rank[s] \in Nat \cup {NoRank}

Earlier(s, t) == \E i, j \in 1 .. Len(Catalogue) :
                    i < j /\ Catalogue[i] = s /\ Catalogue[j] = t

\* A catalogue reduced to what is eligible, in its order.
Place(S, s) == Cardinality({t \in S : Earlier(t, s)})
Only(S)     == [k \in 1 .. Cardinality(S) |-> CHOOSE s \in S : Place(S, s) = k - 1]

\* Where a service stands among the ranked ones: by rank, then by id, for which
\* the order of the catalogue stands in.
Before(s, t)   == \/ Rank[s] < Rank[t]
                  \/ Rank[s] = Rank[t] /\ Earlier(s, t)
Ranked(S)      == {s \in S : Rank[s] # NoRank}
Position(S, s) == Cardinality({t \in Ranked(S) : Before(t, s)})

\* Rotating slots are kept free even when the priorities would fill the limit.
Reserved(n, limit) ==
    IF limit > 3 /\ n > limit THEN IF limit > 5 THEN 2 ELSE limit - 3 ELSE 0

Fixed(S, limit) ==
    {s \in Ranked(S) : Position(S, s) < limit - Reserved(Cardinality(S), limit)}

Rotating(S, limit) == Only(S \ Fixed(S, limit))
Slots(S, limit)    == limit - Cardinality(Fixed(S, limit))

AllFit(S, limit) == Cardinality(S) <= limit

\* The rotating slots of a window: the wheel is read from where the windows
\* before it, one after the other, would have come to.
FirstSlots(wheel, slots, bucket) ==                 \* bug: no rotation
    {wheel[k] : k \in 1 .. slots}
Turn(wheel, slots, bucket) ==
    LET start == (bucket * slots) % Len(wheel)
    IN  {wheel[((start + k) % Len(wheel)) + 1] : k \in 0 .. slots - 1}

\* select_probe_subset
Selected(S, limit, bucket) ==
    IF AllFit(S, limit) THEN S ELSE Fixed(S, limit) \cup
         Turn(Rotating(S, limit), Slots(S, limit), bucket)

\* estimated_full_cycle_seconds and estimated_probe_interval_seconds in windows;
\* 0 when they are None
CeilDiv(a, b) == (a + b - 1) \div b

FullCycle(S, limit) ==
    IF AllFit(S, limit) THEN 1
    ELSE IF Slots(S, limit) = 0 THEN 0
    ELSE CeilDiv(Cardinality(S \ Fixed(S, limit)), Slots(S, limit))

Interval(S, limit, s) ==
    IF s \in Fixed(S, limit) THEN 1 ELSE FullCycle(S, limit)

=============================================================================
