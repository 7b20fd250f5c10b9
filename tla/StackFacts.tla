---------------------------- MODULE StackFacts -----------------------------
(***************************************************************************)
(* Facts about sequences used as stacks, the top last, that the proofs     *)
(* about free lists, pools and deques share.                               *)
(***************************************************************************)
EXTENDS Integers, SequencesExt, SequenceTheorems, TLAPS

(* An entry put on top changes none of those below it.                        *)
LEMMA PushFacts ==
  ASSUME NEW S, NEW s \in Seq(S), NEW x \in S
  PROVE  /\ Append(s, x) \in Seq(S) /\ Len(s) \in Nat /\ Len(Append(s, x)) = Len(s) + 1
         /\ Append(s, x)[Len(s) + 1] = x
         /\ \A i \in 1..Len(s) : Append(s, x)[i] = s[i]
BY AppendProperties, LenProperties

(* Nor does taking the top entry.                                             *)
LEMMA PopFacts ==
  ASSUME NEW S, NEW s \in Seq(S), s # <<>>
  PROVE  /\ Len(s) \in Nat \ {0} /\ Last(s) = s[Len(s)] /\ Last(s) \in S
         /\ Front(s) \in Seq(S) /\ Len(Front(s)) = Len(s) - 1
         /\ \A i \in 1..Len(s) - 1 : Front(s)[i] = s[i]
<1>1. Len(s) \in Nat /\ \A i \in 1..Len(s) : s[i] \in S
  BY LenProperties, ElementOfSeq
<1>2. Len(s) # 0
  BY <1>1, EmptySeq
<1>3. /\ Front(s) \in Seq(S)
      /\ Len(Front(s)) = IF 1 <= Len(s) - 1 THEN (Len(s) - 1) - 1 + 1 ELSE 0
      /\ \A i \in 1 .. (Len(s) - 1) - 1 + 1 : Front(s)[i] = s[1 + i - 1]
  <2>1. Len(s) - 1 \in Int /\ 1 \in Int /\ \A i \in 1 .. Len(s) - 1 : s[i] \in S
    BY <1>1
  <2>. QED  BY <2>1, SubSeqProperties DEF Front
<1>4. Len(Front(s)) = Len(s) - 1
  <2>1. \A m \in Nat : m # 0 => (IF 1 <= m - 1 THEN (m - 1) - 1 + 1 ELSE 0) = m - 1
    OBVIOUS
  <2>. QED  BY <1>1, <1>2, <1>3, <2>1, Zenon
<1>5. \A i \in 1..Len(s) - 1 : Front(s)[i] = s[i]
  BY <1>1, <1>3
<1>6. Last(s) = s[Len(s)] /\ s[Len(s)] \in S
  BY <1>1, <1>2 DEF Last
<1>. QED  BY <1>1, <1>2, <1>3, <1>4, <1>5, <1>6

(* What a stack holds, and that it holds nothing twice, after a push ...      *)
LEMMA PushRange ==
  ASSUME NEW S, NEW s \in Seq(S), NEW x \in S
  PROVE  /\ Range(Append(s, x)) = Range(s) \union {x}
         /\ IsInjective(s) /\ x \notin Range(s) => IsInjective(Append(s, x))
<1>. DEFINE t == Append(s, x)
<1>1. /\ t \in Seq(S) /\ Len(s) \in Nat /\ Len(t) = Len(s) + 1
      /\ t[Len(s) + 1] = x /\ \A i \in 1..Len(s) : t[i] = s[i]
  BY PushFacts
<1>2. DOMAIN s = 1..Len(s) /\ DOMAIN t = 1..Len(s) + 1
  BY <1>1, LenProperties
<1>. HIDE DEF t
<1>3. Range(t) = Range(s) \union {x}
  <2>1. 1..Len(s) + 1 = 1..Len(s) \union {Len(s) + 1}
    BY <1>1
  <2>. QED  BY <1>1, <1>2, <2>1 DEF Range
<1>4. ASSUME IsInjective(s), x \notin Range(s)  PROVE IsInjective(t)
  <2>. SUFFICES ASSUME NEW i \in 1..Len(s) + 1, NEW j \in 1..Len(s) + 1, t[i] = t[j]  PROVE i = j
    BY <1>2 DEF IsInjective
  <2>1. \A k \in 1..Len(s) : t[k] = s[k] /\ s[k] # x
    BY <1>1, <1>2, <1>4 DEF Range
  <2>2. CASE i = Len(s) + 1 \/ j = Len(s) + 1
    BY <1>1, <2>1, <2>2
  <2>3. CASE i \in 1..Len(s) /\ j \in 1..Len(s)
    BY <1>2, <1>4, <2>1, <2>3 DEF IsInjective
  <2>. QED  BY <1>1, <2>2, <2>3
<1>. QED  BY <1>3, <1>4 DEF t

(* ... after a pop ...                                                        *)
LEMMA PopRange ==
  ASSUME NEW S, NEW s \in Seq(S), s # <<>>, IsInjective(s)
  PROVE  /\ Last(s) \in Range(s) /\ Range(Front(s)) = Range(s) \ {Last(s)}
         /\ IsInjective(Front(s))
<1>. DEFINE n == Len(s)
            t == Front(s)
<1>1. /\ n \in Nat \ {0} /\ Last(s) = s[n] /\ t \in Seq(S) /\ Len(t) = n - 1
      /\ \A i \in 1..n - 1 : t[i] = s[i]
  BY PopFacts
<1>2. DOMAIN s = 1..n /\ DOMAIN t = 1..n - 1
  BY <1>1, LenProperties
<1>3. \A i, j \in 1..n : s[i] = s[j] => i = j
  BY <1>2 DEF IsInjective
<1>. HIDE DEF n, t
<1>4. 1..n = 1..n - 1 \union {n} /\ n \notin 1..n - 1 /\ n \in 1..n
  BY <1>1
<1>5. Range(s) = {s[i] : i \in 1..n} /\ Range(t) = {s[i] : i \in 1..n - 1}
  BY <1>1, <1>2 DEF Range
<1>6. Range(t) = Range(s) \ {s[n]}
  <2>1. \A x : x \in Range(t) => x \in Range(s) \ {s[n]}
    BY <1>3, <1>4, <1>5
  <2>2. \A x : x \in Range(s) \ {s[n]} => x \in Range(t)
    BY <1>4, <1>5
  <2>. QED  BY <2>1, <2>2
<1>7. IsInjective(t)
  BY <1>1, <1>2, <1>3, <1>4 DEF IsInjective
<1>. QED  BY <1>1, <1>4, <1>5, <1>6, <1>7 DEF t

(* ... and when one is put on the other.                                      *)
LEMMA JoinRange ==
  ASSUME NEW S, NEW s \in Seq(S), NEW t \in Seq(S)
  PROVE  /\ s \o t \in Seq(S) /\ Len(s) \in Nat /\ Len(t) \in Nat
         /\ Len(s \o t) = Len(s) + Len(t)
         /\ Range(s \o t) = Range(s) \union Range(t)
         /\ IsInjective(s) /\ IsInjective(t) /\ Range(s) \intersect Range(t) = {}
              => IsInjective(s \o t)
<1>. DEFINE m == Len(s)
            n == Len(t)
            u == s \o t
<1>1. /\ u \in Seq(S) /\ Len(u) = m + n /\ m \in Nat /\ n \in Nat
      /\ \A i \in 1..m + n : u[i] = IF i <= m THEN s[i] ELSE t[i - m]
  BY ConcatProperties, LenProperties
<1>2. DOMAIN s = 1..m /\ DOMAIN t = 1..n /\ DOMAIN u = 1..m + n
  BY <1>1, LenProperties
<1>. HIDE DEF m, n, u
<1>3. \A i \in 1..m : i \in 1..m + n /\ u[i] = s[i]
  BY <1>1
<1>4. \A i \in 1..n : m + i \in 1..m + n /\ u[m + i] = t[i]
  BY <1>1
<1>5. \A i \in 1..m + n : i \in 1..m \/ \E j \in 1..n : i = m + j
  <2>. SUFFICES ASSUME NEW i \in 1..m + n, i \notin 1..m  PROVE \E j \in 1..n : i = m + j
    OBVIOUS
  <2>1. i - m \in 1..n /\ i = m + (i - m)
    BY <1>1
  <2>. QED  BY <2>1
<1>6. Range(u) = Range(s) \union Range(t)
  <2>1. \A x \in Range(u) : x \in Range(s) \union Range(t)
    BY <1>2, <1>3, <1>4, <1>5 DEF Range
  <2>2. \A x \in Range(s) : x \in Range(u)
    BY <1>2, <1>3 DEF Range
  <2>3. \A x \in Range(t) : x \in Range(u)
    BY <1>2, <1>4 DEF Range
  <2>. QED  BY <2>1, <2>2, <2>3
<1>7. ASSUME IsInjective(s), IsInjective(t), Range(s) \intersect Range(t) = {}  PROVE IsInjective(u)
  <2>. SUFFICES ASSUME NEW i \in 1..m + n, NEW j \in 1..m + n, u[i] = u[j]  PROVE i = j
    BY <1>2 DEF IsInjective
  <2>1. \A k \in 1..m : \A l \in 1..n : s[k] # t[l]
    BY <1>2, <1>7 DEF Range
  <2>2. \A k, l \in 1..m : s[k] = s[l] => k = l
    BY <1>2, <1>7 DEF IsInjective
  <2>3. \A k, l \in 1..n : t[k] = t[l] => k = l
    BY <1>2, <1>7 DEF IsInjective
  <2>4. CASE i \in 1..m /\ j \in 1..m
    BY <1>3, <2>2, <2>4
  <2>5. CASE i \in 1..m /\ j \notin 1..m
    BY <1>3, <1>4, <1>5, <2>1, <2>5
  <2>6. CASE i \notin 1..m /\ j \in 1..m
    BY <1>3, <1>4, <1>5, <2>1, <2>6
  <2>7. CASE i \notin 1..m /\ j \notin 1..m
    BY <1>4, <1>5, <2>3, <2>7
  <2>. QED  BY <2>4, <2>5, <2>6, <2>7
<1>. QED  BY <1>1, <1>6, <1>7 DEF m, n, u
=============================================================================
