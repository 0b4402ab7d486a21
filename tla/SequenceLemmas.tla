--------------------------- MODULE SequenceLemmas ---------------------------
(***************************************************************************)
(* What the proofs about the components need to know of sequences: queues   *)
(* that are filled at the end and emptied at the front, and lists in which  *)
(* nothing is twice.                                                       *)
(***************************************************************************)
EXTENDS Naturals, SequencesExt, SequenceTheorems, WellFoundedInduction, TLAPS

-----------------------------------------------------------------------------
(* Queues *)

\* Pushing onto the second of two sequences pushes onto their concatenation.
LEMMA PushConcat ==
    ASSUME NEW S, NEW p \in Seq(S), NEW q \in Seq(S), NEW x \in S
    PROVE  p \o Append(q, x) = Append(p \o q, x)
  <1> DEFINE one == <<x>>
  <1>1. p \o q \in Seq(S) /\ one \in Seq(S)
    BY ConcatProperties
  <1>2. Append(q, x) = q \o one /\ Append(p \o q, x) = (p \o q) \o one
    BY <1>1, AppendIsConcat, Zenon
  <1> HIDE DEF one
  <1>3. (p \o q) \o one = p \o (q \o one)
    BY <1>1, ConcatAssociative
  <1> QED  BY <1>2, <1>3

\* The head of a sequence moves to the end of the one before it: the concatenation
\* stays, and the head is its element at that place.
LEMMA HeadMoves ==
    ASSUME NEW S, NEW p \in Seq(S), NEW q \in Seq(S), q # <<>>
    PROVE  /\ Append(p, Head(q)) \o Tail(q) = p \o q
           /\ (p \o q)[Len(p) + 1] = Head(q)
           /\ Len(p) < Len(p \o q)
  <1>1. /\ Head(q) \in S /\ Tail(q) \in Seq(S)
        /\ Len(Tail(q)) = Len(q) - 1
        /\ \A i \in 1 .. Len(Tail(q)) : Tail(q)[i] = q[i + 1]
    BY HeadTailProperties
  <1>2. Len(q) \in Nat \ {0} /\ Len(p) \in Nat
    BY EmptySeq, LenProperties
  <1>3. Head(q) = q[1]
    BY <1>2
  <1>4. /\ Append(p, Head(q)) \in Seq(S)
        /\ Len(Append(p, Head(q))) = Len(p) + 1
    BY <1>1, AppendProperties
  <1>5. /\ Append(p, Head(q)) \o Tail(q) \in Seq(S)
        /\ p \o q \in Seq(S)
        /\ Len(Append(p, Head(q)) \o Tail(q)) = (Len(p) + 1) + (Len(q) - 1)
        /\ Len(p \o q) = Len(p) + Len(q)
    BY <1>1, <1>4, ConcatProperties
  <1>6. (p \o q)[Len(p) + 1] = Head(q)
    <2>1. Len(p) + 1 \in 1 .. Len(p) + Len(q)
      BY <1>2
    <2>2. (p \o q)[Len(p) + 1] = q[(Len(p) + 1) - Len(p)]
      BY <1>2, <2>1, ConcatProperties
    <2> QED  BY <1>2, <1>3, <2>2
  <1>7. ASSUME NEW i \in 1 .. Len(p) + Len(q)
        PROVE  (Append(p, Head(q)) \o Tail(q))[i] = (p \o q)[i]
    <2>1. (p \o q)[i] = IF i <= Len(p) THEN p[i] ELSE q[i - Len(p)]
      BY ConcatProperties
    <2>2. (Append(p, Head(q)) \o Tail(q))[i]
             = IF i <= Len(p) + 1 THEN Append(p, Head(q))[i] ELSE Tail(q)[i - (Len(p) + 1)]
      <3>1. i \in 1 .. Len(Append(p, Head(q))) + Len(Tail(q))
        BY <1>1, <1>2, <1>4
      <3> QED  BY <1>1, <1>4, <3>1, ConcatProperties
    <2>3. CASE i <= Len(p)
      <3>1. Append(p, Head(q))[i] = p[i]
        BY <1>1, <1>2, <2>3, AppendProperties
      <3> QED  BY <1>2, <2>1, <2>2, <2>3, <3>1
    <2>4. CASE i = Len(p) + 1
      <3>1. Append(p, Head(q))[i] = Head(q)
        BY <1>1, <2>4, AppendProperties
      <3> QED  BY <1>2, <1>6, <2>2, <2>4, <3>1
    <2>5. CASE i > Len(p) + 1
      <3>1. i - (Len(p) + 1) \in 1 .. Len(Tail(q))
        BY <1>1, <1>2, <2>5
      <3>2. Tail(q)[i - (Len(p) + 1)] = q[i - (Len(p) + 1) + 1]
        BY <1>1, <3>1
      <3>3. i - (Len(p) + 1) + 1 = i - Len(p)
        BY <1>2
      <3> QED  BY <1>2, <2>1, <2>2, <2>5, <3>2, <3>3
    <2> QED  BY <1>2, <2>3, <2>4, <2>5
  <1>8. Append(p, Head(q)) \o Tail(q) = p \o q
    <2>1. Len(Append(p, Head(q)) \o Tail(q)) = Len(p \o q)
      BY <1>2, <1>5
    <2> QED  BY <1>5, <1>7, <2>1, SeqEqual
  <1> QED  BY <1>2, <1>5, <1>6, <1>8
-----------------------------------------------------------------------------
(* Numbers *)

\* The least element of a set of natural numbers.
LEMMA LeastNat ==
    ASSUME NEW T \in SUBSET Nat, T # {}
    PROVE  \E x \in T : \A y \in T : x <= y
  <1>1. PICK x \in T : \A y \in T : ~(<<y, x>> \in OpToRel(<, Nat))
    BY NatLessThanWellFounded, WFMin
  <1>2. \A y \in T : ~(y < x)
    BY <1>1 DEF OpToRel
  <1>3. \A y \in T : x <= y
    BY <1>2
  <1> QED  BY <1>3

-----------------------------------------------------------------------------
(* Sequences without repetitions *)

\* Taking an element out of a sequence without repetitions leaves all the others
\* and no repetition.
LEMMA RemoveFirstProperties ==
    ASSUME NEW S, NEW s \in Seq(S), IsInjective(s), NEW e
    PROVE  /\ RemoveFirst(s, e) \in Seq(S)
           /\ IsInjective(RemoveFirst(s, e))
           /\ Range(RemoveFirst(s, e)) = Range(s) \ {e}
  <1> DEFINE r == RemoveFirst(s, e)
             I == {i \in 1 .. Len(s) : s[i] = e}
  <1>0. Len(s) \in Nat /\ DOMAIN s = 1 .. Len(s)
    BY LenProperties
  <1>1. CASE I = {}
    <2>1. r = s
      BY <1>1 DEF RemoveFirst
    <2>2. e \notin Range(s)
      BY <1>0, <1>1 DEF Range
    <2> QED  BY <2>1, <2>2
  <1>2. CASE I # {}
    <2> DEFINE k == Min(I)
    <2>1. k \in 1 .. Len(s) /\ s[k] = e
      <3>1. I \in SUBSET Nat
        BY <1>0
      <3>2. Min(I) \in I
        BY <1>2, <3>1, LeastNat DEF Min
      <3> QED  BY <3>2
    <2>2. r = SubSeq(s, 1, k - 1) \o SubSeq(s, k + 1, Len(s))
      BY <1>2 DEF RemoveFirst, SelectInSeq, RemoveAt
    <2> DEFINE f == SubSeq(s, 1, k - 1)
               b == SubSeq(s, k + 1, Len(s))
    <2> HIDE DEF k, f, b
    <2>3. /\ f \in Seq(S) /\ Len(f) = k - 1
          /\ \A i \in 1 .. k - 1 : f[i] = s[i]
      BY <1>0, <2>1, SubSeqProperties, ElementOfSeq DEF f
    <2>4. /\ b \in Seq(S) /\ Len(b) = Len(s) - k
          /\ \A i \in 1 .. Len(s) - k : b[i] = s[k + i]
      <3>1. \A i \in k + 1 .. Len(s) : s[i] \in S
        BY <1>0, <2>1, ElementOfSeq
      <3>2. /\ b \in Seq(S)
            /\ \A i \in 1 .. Len(s) - (k + 1) + 1 : b[i] = s[k + 1 + i - 1]
        BY <1>0, <2>1, <3>1, SubSeqProperties DEF b
      <3>4. Len(b) = IF k + 1 <= Len(s) THEN Len(s) - (k + 1) + 1 ELSE 0
        BY <1>0, <2>1, <3>1, SubSeqProperties DEF b
      <3>5. Len(b) = Len(s) - k
        <4>1. k \in 1 .. Len(s) /\ Len(s) \in Nat
          BY <1>0, <2>1
        <4>2. CASE k + 1 <= Len(s)
          BY <3>4, <4>1, <4>2
        <4>3. CASE ~(k + 1 <= Len(s))
          BY <3>4, <4>1, <4>3
        <4> QED  BY <4>2, <4>3
      <3>3. ASSUME NEW i \in 1 .. Len(s) - k PROVE b[i] = s[k + i]
        <4>1. i \in 1 .. Len(s) - (k + 1) + 1 /\ k + 1 + i - 1 = k + i
          BY <1>0, <2>1
        <4> QED  BY <3>2, <4>1
      <3> QED  BY <3>2, <3>3, <3>5
    <2>5. /\ r \in Seq(S)
          /\ Len(r) = Len(s) - 1
          /\ \A i \in 1 .. Len(s) - 1 : r[i] = IF i < k THEN f[i] ELSE b[i - (k - 1)]
      <3>1. /\ f \o b \in Seq(S) /\ Len(f \o b) = Len(f) + Len(b)
            /\ \A i \in 1 .. Len(f) + Len(b) :
                  (f \o b)[i] = IF i <= Len(f) THEN f[i] ELSE b[i - Len(f)]
        BY <2>3, <2>4, ConcatProperties
      <3>2. Len(f) + Len(b) = Len(s) - 1 /\ r = f \o b
        <4>1. Len(f) = k - 1 /\ Len(b) = Len(s) - k
          BY <2>3, <2>4
        <4>2. Len(f) + Len(b) = Len(s) - 1
          BY <1>0, <2>1, <4>1
        <4> QED  BY <2>2, <4>2 DEF f, b
      <3>3. ASSUME NEW i \in 1 .. Len(s) - 1
            PROVE  r[i] = IF i < k THEN f[i] ELSE b[i - (k - 1)]
        <4>1. (f \o b)[i] = IF i <= Len(f) THEN f[i] ELSE b[i - Len(f)]
          BY <3>1, <3>2
        <4> QED  BY <1>0, <2>1, <2>3, <3>2, <4>1
      <3> QED  BY <3>1, <3>2, <3>3
    <2> HIDE DEF r
    <2>6. DOMAIN r = 1 .. Len(s) - 1
      BY <2>5, LenProperties
    <2>7. \A i \in 1 .. Len(s) - 1 : r[i] = IF i < k THEN s[i] ELSE s[i + 1]
      <3> SUFFICES ASSUME NEW i \in 1 .. Len(s) - 1
                   PROVE  r[i] = IF i < k THEN s[i] ELSE s[i + 1]
        OBVIOUS
      <3>1. CASE i < k
        BY <1>0, <2>1, <2>3, <2>5, <3>1
      <3>2. CASE ~(i < k)
        <4>1. i - (k - 1) \in 1 .. Len(s) - k /\ k + (i - (k - 1)) = i + 1
          BY <1>0, <2>1, <3>2
        <4>2. b[i - (k - 1)] = s[k + (i - (k - 1))]
          BY <2>4, <4>1
        <4> QED  BY <2>5, <3>2, <4>1, <4>2
      <3> QED  BY <3>1, <3>2
    <2>8. IsInjective(r)
      <3> SUFFICES ASSUME NEW i \in 1 .. Len(s) - 1, NEW j \in 1 .. Len(s) - 1,
                          r[i] = r[j]
                   PROVE  i = j
        BY <2>6 DEF IsInjective
      <3>1. \A m \in 1 .. Len(s), n \in 1 .. Len(s) : s[m] = s[n] => m = n
        BY <1>0 DEF IsInjective
      <3>2. /\ r[i] = s[IF i < k THEN i ELSE i + 1]
            /\ r[j] = s[IF j < k THEN j ELSE j + 1]
        BY <2>7
      <3>3. /\ (IF i < k THEN i ELSE i + 1) \in 1 .. Len(s)
            /\ (IF j < k THEN j ELSE j + 1) \in 1 .. Len(s)
        BY <1>0
      <3>4. (IF i < k THEN i ELSE i + 1) = (IF j < k THEN j ELSE j + 1)
        BY <2>7, <3>1, <3>2, <3>3, Zenon
      <3> QED  BY <1>0, <2>1, <3>4
    <2>9. Range(r) = Range(s) \ {e}
      <3>1. ASSUME NEW x \in Range(r) PROVE x \in Range(s) \ {e}
        BY <1>0, <2>1, <2>6, <2>7, <3>1 DEF Range, IsInjective
      <3>2. ASSUME NEW x \in Range(s) \ {e} PROVE x \in Range(r)
        <4>1. PICK j \in 1 .. Len(s) : x = s[j]
          BY <1>0, <3>2 DEF Range
        <4>2. j # k
          BY <2>1, <3>2, <4>1
        <4>3. CASE j < k
          BY <1>0, <2>1, <2>6, <2>7, <4>1, <4>3 DEF Range
        <4>4. CASE j > k
          <5>1. j - 1 \in DOMAIN r /\ r[j - 1] = s[(j - 1) + 1]
            BY <1>0, <2>1, <2>6, <2>7, <4>4
          <5> QED  BY <1>0, <2>1, <4>1, <4>4, <5>1 DEF Range
        <4> QED  BY <1>0, <2>1, <4>2, <4>3, <4>4
      <3> QED  BY <3>1, <3>2
    <2> QED  BY <2>5, <2>8, <2>9 DEF r
  <1> QED  BY <1>1, <1>2

\* Appending a new element to a sequence without repetitions adds it, and brings
\* no repetition.
LEMMA AppendNew ==
    ASSUME NEW S, NEW s \in Seq(S), IsInjective(s), NEW e \in S, e \notin Range(s)
    PROVE  /\ Append(s, e) \in Seq(S)
           /\ IsInjective(Append(s, e))
           /\ Range(Append(s, e)) = Range(s) \cup {e}
  <1>1. /\ Len(s) \in Nat /\ DOMAIN s = 1 .. Len(s)
        /\ Append(s, e) \in Seq(S) /\ Len(Append(s, e)) = Len(s) + 1
        /\ \A i \in 1 .. Len(s) : Append(s, e)[i] = s[i]
        /\ Append(s, e)[Len(s) + 1] = e
    BY AppendProperties, LenProperties
  <1>2. DOMAIN Append(s, e) = 1 .. Len(s) + 1
    BY <1>1, LenProperties
  <1>3. \A i \in 1 .. Len(s) : s[i] # e
    BY <1>1 DEF Range
  <1>4. IsInjective(Append(s, e))
    BY <1>1, <1>2, <1>3 DEF IsInjective
  <1>5. Range(Append(s, e)) = Range(s) \cup {e}
    BY <1>1, <1>2 DEF Range
  <1> QED  BY <1>1, <1>4, <1>5

\* Taking the first element of a sequence without repetitions takes it away.
LEMMA TakeFirst ==
    ASSUME NEW S, NEW s \in Seq(S), IsInjective(s), s # <<>>
    PROVE  /\ Head(s) \in Range(s)
           /\ Tail(s) \in Seq(S)
           /\ IsInjective(Tail(s))
           /\ Range(Tail(s)) = Range(s) \ {Head(s)}
  <1>1. /\ Len(s) \in Nat \ {0} /\ DOMAIN s = 1 .. Len(s)
        /\ Tail(s) \in Seq(S) /\ Len(Tail(s)) = Len(s) - 1
        /\ \A i \in 1 .. Len(s) - 1 : Tail(s)[i] = s[i + 1]
        /\ Head(s) = s[1]
    BY HeadTailProperties, LenProperties, EmptySeq
  <1>2. DOMAIN Tail(s) = 1 .. Len(s) - 1
    BY <1>1, LenProperties
  <1>3. Head(s) \in Range(s)
    BY <1>1 DEF Range
  <1>4. IsInjective(Tail(s))
    BY <1>1, <1>2 DEF IsInjective
  <1>5. ASSUME NEW x \in Range(Tail(s)) PROVE x \in Range(s) \ {Head(s)}
    BY <1>1, <1>2, <1>5 DEF Range, IsInjective
  <1>6. ASSUME NEW x \in Range(s) \ {Head(s)} PROVE x \in Range(Tail(s))
    <2>1. PICK i \in 1 .. Len(s) : x = s[i]
      BY <1>1, <1>6 DEF Range
    <2>2. i # 1
      BY <1>1, <1>6, <2>1
    <2>3. i - 1 \in 1 .. Len(s) - 1 /\ (i - 1) + 1 = i
      BY <1>1, <2>2
    <2>4. Tail(s)[i - 1] = x
      BY <1>1, <2>1, <2>3
    <2> QED  BY <1>2, <2>3, <2>4 DEF Range
  <1> QED  BY <1>1, <1>3, <1>4, <1>5, <1>6

\* So does putting a new element before a sequence without repetitions.
LEMMA PushFront ==
    ASSUME NEW S, NEW s \in Seq(S), IsInjective(s), NEW e \in S, e \notin Range(s)
    PROVE  /\ <<e>> \o s \in Seq(S)
           /\ IsInjective(<<e>> \o s)
           /\ Range(<<e>> \o s) = Range(s) \cup {e}
  <1> DEFINE one == <<e>>
             r == one \o s
  <1>1. one \in Seq(S) /\ Len(one) = 1 /\ one[1] = e
    OBVIOUS
  <1> HIDE DEF one
  <1>2. /\ Len(s) \in Nat /\ DOMAIN s = 1 .. Len(s)
        /\ r \in Seq(S) /\ Len(r) = 1 + Len(s)
        /\ \A i \in 1 .. 1 + Len(s) : r[i] = IF i <= 1 THEN one[i] ELSE s[i - 1]
    <2>1. /\ r \in Seq(S) /\ Len(r) = Len(one) + Len(s)
          /\ \A i \in 1 .. Len(one) + Len(s) :
                r[i] = IF i <= Len(one) THEN one[i] ELSE s[i - Len(one)]
      BY <1>1, ConcatProperties
    <2> HIDE DEF r
    <2> QED  BY <1>1, <2>1, LenProperties
  <1>3. DOMAIN r = 1 .. 1 + Len(s)
    BY <1>2, LenProperties
  <1> HIDE DEF r
  <1>4. r[1] = e /\ 1 \in DOMAIN r
    BY <1>1, <1>2, <1>3
  <1>5. \A i \in DOMAIN r : i # 1 => i - 1 \in DOMAIN s /\ r[i] = s[i - 1]
    BY <1>2, <1>3
  <1>6. \A i \in DOMAIN s : i + 1 \in DOMAIN r /\ r[i + 1] = s[i]
    BY <1>2, <1>3
  <1>7. IsInjective(r)
    <2> SUFFICES ASSUME NEW i \in DOMAIN r, NEW j \in DOMAIN r, r[i] = r[j] PROVE i = j
      BY DEF IsInjective
    <2>1. \A k \in DOMAIN s : s[k] # e
      BY DEF Range
    <2>2. CASE i = 1 \/ j = 1
      BY <1>4, <1>5, <2>1, <2>2
    <2>3. CASE i # 1 /\ j # 1
      <3>1. i - 1 = j - 1
        BY <1>5, <2>3 DEF IsInjective
      <3> QED  BY <1>2, <1>3, <3>1
    <2> QED  BY <2>2, <2>3
  <1>8. Range(r) = Range(s) \cup {e}
    <2>1. ASSUME NEW x \in Range(r) PROVE x \in Range(s) \cup {e}
      BY <1>4, <1>5, <2>1 DEF Range
    <2>2. ASSUME NEW x \in Range(s) \cup {e} PROVE x \in Range(r)
      BY <1>4, <1>6, <2>2 DEF Range
    <2> QED  BY <2>1, <2>2
  <1> QED  BY <1>2, <1>7, <1>8 DEF r, one
=============================================================================
