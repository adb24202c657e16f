--------------------------- MODULE SequenceLemmas ---------------------------
(***************************************************************************)
(* Sequences from which an element is taken: the job list and the queues of *)
(* badvpn, and the lists of connections of both sides of udpgw.             *)
(***************************************************************************)
EXTENDS Integers, Sequences, FiniteSets, TLAPS, SequenceTheorems, WellFoundedInduction

(* Two sequences, one after the other.                                     *)
LEMMA Join ==
    ASSUME NEW S, NEW a \in Seq(S), NEW b \in Seq(S), NEW u, u = a \o b
    PROVE  /\ u \in Seq(S) /\ Len(u) = Len(a) + Len(b)
           /\ \A j \in 1..Len(u) : u[j] = IF j <= Len(a) THEN a[j] ELSE b[j - Len(a)]
<1>1. u \in Seq(S) /\ Len(u) = Len(a) + Len(b)
    BY ConcatProperties
<1>2. \A j \in 1..Len(a)+Len(b) : u[j] = IF j <= Len(a) THEN a[j] ELSE b[j - Len(a)]
    BY ConcatProperties, Zenon
<1> QED
    BY <1>1, <1>2

(* What is left when the element at i is taken out.                         *)
LEMMA SubSeqIndex ==
    ASSUME NEW S, NEW s \in Seq(S), NEW i \in 1..Len(s)
    PROVE  LET u == SubSeq(s, 1, i - 1) \o SubSeq(s, i + 1, Len(s))
           IN  /\ u \in Seq(S) /\ Len(u) = Len(s) - 1
               /\ \A j \in 1..Len(u) :
                     u[j] = IF j < i THEN s[j] ELSE s[j + 1]
<1>1. PICK a : a = SubSeq(s, 1, i - 1)
    OBVIOUS
<1>2. PICK b : b = SubSeq(s, i + 1, Len(s))
    OBVIOUS
<1>3. PICK u : u = a \o b
    OBVIOUS
<1>4. a \in Seq(S) /\ b \in Seq(S)
    BY <1>1, <1>2, SubSeqProperties
<1>5. /\ u \in Seq(S) /\ Len(u) = Len(a) + Len(b)
      /\ \A j \in 1..Len(u) : u[j] = IF j <= Len(a) THEN a[j] ELSE b[j - Len(a)]
    BY <1>3, <1>4, Join, SMT
<1>6. Len(a) = i - 1 /\ \A j \in 1..Len(a) : a[j] = s[j]
    BY <1>1, SubSeqProperties
<1>7. Len(b) = Len(s) - i /\ \A j \in 1..Len(b) : b[j] = s[i + j]
    BY <1>2, SubSeqProperties
<1>8. Len(u) = Len(s) - 1 /\ Len(s) \in Nat
    BY <1>5, <1>6, <1>7
<1>9. ASSUME NEW j \in 1..Len(u)
      PROVE  u[j] = IF j < i THEN s[j] ELSE s[j + 1]
    <2>1. CASE j < i
        <3>1. j <= Len(a) /\ j \in 1..Len(a)
            BY <1>6, <1>8, <2>1
        <3> QED
            BY <1>5, <1>6, <2>1, <3>1
    <2>2. CASE ~(j < i)
        <3>1. ~(j <= Len(a)) /\ j - Len(a) \in 1..Len(b) /\ i + (j - Len(a)) = j + 1
            BY <1>5, <1>6, <1>7, <1>8, <2>2
        <3> QED
            BY <1>5, <1>7, <2>2, <3>1
    <2> QED
        BY <2>1, <2>2
<1> QED
    BY <1>1, <1>2, <1>3, <1>5, <1>8, <1>9

(* The same for one element at the end.                                    *)
LEMMA AppendIndex ==
    ASSUME NEW S, NEW s \in Seq(S), NEW e \in S
    PROVE  /\ Append(s, e) \in Seq(S) /\ Len(Append(s, e)) = Len(s) + 1 /\ Len(s) \in Nat
           /\ \A j \in 1..Len(s) + 1 : Append(s, e)[j] = IF j <= Len(s) THEN s[j] ELSE e
    OBVIOUS

(* A set of positions that is not empty has a first one.                    *)
LEMMA FirstPosition ==
    ASSUME NEW S \in SUBSET Nat, S # {}
    PROVE  \E x \in S : \A y \in S : x <= y
<1> DEFINE R == OpToRel(<, Nat)
<1>1. PICK x \in S : \A y \in S : ~(<<y, x>> \in R)
    <2> HIDE DEF R
    <2>1. IsWellFoundedOn(R, Nat)
        BY NatLessThanWellFounded DEF R
    <2> QED
        BY <2>1, WFMin
<1>2. \A y \in S : ~(y < x)
    BY <1>1 DEF OpToRel
<1> QED
    BY <1>2
=============================================================================
