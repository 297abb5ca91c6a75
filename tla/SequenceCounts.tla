--------------------------- MODULE SequenceCounts ---------------------------
(* How often a sequence that only grows holds an element of a set.          *)
EXTENDS Integers, Sequences, FiniteSets, FiniteSetTheorems, TLAPS

\* Where s has an element of T.
Hits(s, T) == {i \in DOMAIN s : s[i] \in T}

\* The hits can be counted.
LEMMA HitsFinite ==
    ASSUME NEW R, NEW s \in Seq(R), NEW T
    PROVE  IsFiniteSet(Hits(s, T)) /\ Cardinality(Hits(s, T)) \in Nat
<1>1. DOMAIN s = 1 .. Len(s) /\ Len(s) \in Nat
  OBVIOUS
<1>2. IsFiniteSet(1 .. Len(s))
  BY <1>1, FS_Interval
<1>3. Hits(s, T) \in SUBSET (1 .. Len(s))
  BY <1>1 DEF Hits
<1> QED
  BY <1>2, <1>3, FS_Subset, FS_CardinalityType

\* Append adds the new place to the hits, or nothing.
LEMMA HitsAppend ==
    ASSUME NEW R, NEW s \in Seq(R), NEW r \in R, NEW T
    PROVE  Cardinality(Hits(Append(s, r), T)) =
              Cardinality(Hits(s, T)) + (IF r \in T THEN 1 ELSE 0)
<1>1. DOMAIN s = 1 .. Len(s) /\ Len(s) \in Nat
  OBVIOUS
<1>2. IsFiniteSet(Hits(s, T)) /\ Cardinality(Hits(s, T)) \in Nat
  BY HitsFinite
<1>3. /\ Append(s, r) \in Seq(R) /\ DOMAIN Append(s, r) = 1 .. (Len(s) + 1)
      /\ Append(s, r)[Len(s) + 1] = r
      /\ \A i \in 1 .. Len(s) : Append(s, r)[i] = s[i]
  OBVIOUS
<1>4. CASE r \in T
  <2>1. Hits(Append(s, r), T) = Hits(s, T) \cup {Len(s) + 1}
    BY <1>1, <1>3, <1>4 DEF Hits
  <2>2. Len(s) + 1 \notin Hits(s, T)
    BY <1>1 DEF Hits
  <2>3. Cardinality(Hits(s, T) \cup {Len(s) + 1}) = Cardinality(Hits(s, T)) + 1
    BY <1>2, <2>2, FS_AddElement
  <2> QED
    BY <1>2, <1>4, <2>1, <2>3
<1>5. CASE r \notin T
  <2>1. Hits(Append(s, r), T) = Hits(s, T)
    BY <1>1, <1>3, <1>5 DEF Hits
  <2> QED
    BY <1>2, <1>5, <2>1
<1> QED
  BY <1>2, <1>4, <1>5
=============================================================================
