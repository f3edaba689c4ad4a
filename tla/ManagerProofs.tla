--------------------------- MODULE ManagerProofs ---------------------------
(***************************************************************************)
(* What the decisions of Manager guarantee for every snapshot, every       *)
(* listing and every pair of minimums.                                     *)
(***************************************************************************)
EXTENDS Manager, FiniteSetTheorems, SequenceTheorems, WellFoundedInduction, TLAPS

(* A permutation of a bucket is a sequence of its elements.                *)
LEMMA OrdenEsSecuencia ==
  ASSUME NEW S, IsFiniteSet(S), NEW s \in SetToSeqs(S)
  PROVE  /\ s \in Seq(S)
         /\ Len(s) = Cardinality(S)
         /\ s \in Bijection(1..Cardinality(S), S)
         /\ ToSet(s) = S
<1>1. Cardinality(S) \in Nat
  BY FS_CardinalityType
<1>2. /\ s \in [1..Cardinality(S) -> S]
      /\ \A i, j \in 1..Cardinality(S) : i # j => s[i] # s[j]
  BY DEF SetToSeqs
<1>3. s \in Seq(S) /\ Len(s) = Cardinality(S) /\ DOMAIN s = 1..Cardinality(S)
  BY <1>1, <1>2, IsASeq
<1>4. s \in Injection(1..Cardinality(S), S)
  BY <1>2 DEF Injection, IsInjective
<1>5. Cardinality(1..Cardinality(S)) = Cardinality(S)
  BY <1>1, FS_Interval
<1>6. s \in Surjection(1..Cardinality(S), S)
  BY <1>4, <1>5, FS_Injection
<1>7. ToSet(s) = S
  BY <1>2, <1>6 DEF Surjection, ToSet
<1> QED
  BY <1>3, <1>4, <1>6, <1>7 DEF Bijection

(* pruneExcess marks members of the bucket, each once, and spares exactly  *)
(* the minimum, or the whole bucket when it is smaller (manager.go         *)
(* 192-199): the loop neither stops early nor goes one too far.            *)
THEOREM PruneSparesMinimum ==
  ASSUME NEW metrics, NEW bucket, IsFiniteSet(bucket), NEW minimo \in Nat,
         NEW v \in pruneExcess(metrics, bucket, minimo)
  PROVE  /\ v \in Seq(bucket)
         /\ ToSet(v) \subseteq bucket
         /\ \A i, j \in 1..Len(v) : i # j => v[i] # v[j]
         /\ Cardinality(bucket \ ToSet(v)) =
              IF Cardinality(bucket) > minimo THEN minimo ELSE Cardinality(bucket)
<1> DEFINE n == Cardinality(bucket)
           k == n - minimo
<1>1. n \in Nat
  BY FS_CardinalityType
<1>2. PICK s \in SetToSeqs(bucket) : v = SubSeq(s, 1, Len(s) - minimo)
  BY DEF pruneExcess, Ordenes
<1>3. s \in Seq(bucket) /\ Len(s) = n /\ s \in Bijection(1..n, bucket) /\ ToSet(s) = bucket
  BY OrdenEsSecuencia
<1>4. CASE n <= minimo
  <2>1. v = <<>>
    BY <1>1, <1>2, <1>3, <1>4, SubSeqEmpty
  <2>2. ToSet(v) = {} /\ bucket \ ToSet(v) = bucket
    BY <2>1 DEF ToSet
  <2>3. v \in Seq(bucket) /\ Len(v) = 0
    BY <2>1, EmptySeq
  <2> QED
    BY <1>1, <1>4, <2>2, <2>3
<1>5. CASE n > minimo
  <2>1. k \in 1..n
    BY <1>1, <1>5
  <2>2. /\ v \in Seq(bucket) /\ Len(v) = k
        /\ \A i \in 1..k : v[i] = s[i]
    BY <1>2, <1>3, <2>1, SubSeqProperties
  <2>3. ToSet(v) = {s[i] : i \in 1..k}
    BY <2>2 DEF ToSet
  <2>4. \A i, j \in 1..n : i # j => s[i] # s[j]
    BY <1>3 DEF Bijection, Injection, IsInjective
  <2> DEFINE f == [i \in k+1..n |-> s[i]]
             R == bucket \ ToSet(v)
  <2>5. f \in Bijection(k+1..n, R)
    <3>1. \A i \in k+1..n : s[i] \in R
      BY <1>1, <1>3, <2>1, <2>3, <2>4 DEF Bijection, Injection
    <3>2. f \in Injection(k+1..n, R)
      BY <3>1, <1>1, <2>1, <2>4 DEF Injection, IsInjective
    <3>3. \A r \in R : \E i \in k+1..n : f[i] = r
      <4> SUFFICES ASSUME NEW r \in R PROVE \E i \in k+1..n : f[i] = r
        OBVIOUS
      <4>1. PICK i \in 1..n : s[i] = r
        BY <1>3 DEF Bijection, Surjection
      <4>2. i \notin 1..k
        BY <4>1, <2>3
      <4> QED
        BY <4>1, <4>2, <1>1, <2>1
    <3> QED
      BY <3>2, <3>3 DEF Bijection, Surjection, Injection
  <2>6. /\ IsFiniteSet(k+1..n) /\ Cardinality(k+1..n) = minimo
    <3>1. k + 1 \in Int /\ n \in Int /\ n - (k + 1) + 1 = minimo /\ (k + 1 > n => minimo = 0)
      BY <1>1, <1>5
    <3> HIDE DEF k, n
    <3> QED
      BY <3>1, FS_Interval
  <2>7. Cardinality(R) = minimo
    <3>1. ExistsBijection(k+1..n, R)
      BY <2>5 DEF ExistsBijection
    <3> QED
      BY <3>1, <2>6, FS_Bijection
  <2>8. ToSet(v) \subseteq bucket
    BY <2>2 DEF ToSet
  <2>9. \A i, j \in 1..Len(v) : i # j => v[i] # v[j]
    BY <1>1, <2>1, <2>2, <2>4
  <2> QED
    BY <1>1, <1>5, <2>2, <2>7, <2>8, <2>9
<1> QED
  BY <1>1, <1>4, <1>5

(* The victims of a bucket go before every container the order puts after  *)
(* them, the spared ones included.                                         *)
LEMMA PruneHeaviestFirst ==
  ASSUME NEW metrics, NEW bucket, IsFiniteSet(bucket), NEW minimo \in Nat,
         NEW v \in pruneExcess(metrics, bucket, minimo), NEW k \in 1..Len(v),
         NEW c \in bucket, c \notin {v[j] : j \in 1..k}
  PROVE  ~Antes(metrics[c], metrics[v[k]])
<1> DEFINE n == Cardinality(bucket)
<1>1. n \in Nat
  BY FS_CardinalityType
<1>2. PICK s \in Ordenes(metrics, bucket) : v = SubSeq(s, 1, Len(s) - minimo)
  BY DEF pruneExcess
<1>3. /\ s \in SetToSeqs(bucket)
      /\ \A i, j \in 1..Len(s) : i < j => ~Antes(metrics[s[j]], metrics[s[i]])
  BY DEF Ordenes
<1>4. s \in Seq(bucket) /\ Len(s) = n /\ ToSet(s) = bucket
  BY <1>3, OrdenEsSecuencia
<1>5. /\ Len(v) = IF 1 <= n - minimo THEN n - minimo ELSE 0
      /\ \A i \in 1..n - minimo : v[i] = s[i]
  <2>1. \A i \in 1..n - minimo : s[i] \in bucket
    BY <1>1, <1>4
  <2>2. n - minimo \in Int /\ 1 \in Int
    BY <1>1
  <2> HIDE DEF n
  <2> QED
    BY <1>2, <1>4, <2>1, <2>2, SubSeqProperties
<1>6. PICK j \in 1..n : s[j] = c
  BY <1>4 DEF ToSet
<1> HIDE DEF n
<1>7. k \in 1..n - minimo /\ k \in 1..n /\ \A i \in 1..k : v[i] = s[i]
  BY <1>1, <1>5
<1>8. j \notin 1..k
  BY <1>6, <1>7
<1>9. k < j
  BY <1>1, <1>7, <1>8
<1> QED
  BY <1>3, <1>4, <1>6, <1>7, <1>9

----------------------------------------------------------------------------
(* A sequence without repetitions has as many elements as positions.       *)
SinRepetir(s) == \A i, j \in 1..Len(s) : i # j => s[i] # s[j]
(* A sequence without repetitions is as long as its set.                   *)
LEMMA SinRepetirCardinality ==
  ASSUME NEW S, NEW s \in Seq(S), SinRepetir(s)
  PROVE  Cardinality(ToSet(s)) = Len(s)
<1>1. Len(s) \in Nat /\ DOMAIN s = 1..Len(s) /\ s \in [1..Len(s) -> S]
  BY LenProperties
<1>2. s \in Bijection(1..Len(s), ToSet(s))
  BY <1>1 DEF ToSet, SinRepetir, Bijection, Injection, Surjection, IsInjective
<1>3. IsFiniteSet(1..Len(s)) /\ Cardinality(1..Len(s)) = Len(s)
  <2>1. /\ IsFiniteSet(1..Len(s))
        /\ Cardinality(1..Len(s)) = IF 1 > Len(s) THEN 0 ELSE Len(s) - 1 + 1
    <3>1. 1 \in Int /\ Len(s) \in Int
      BY <1>1
    <3> QED
      BY <3>1, FS_Interval, Zenon
  <2> QED
    BY <1>1, <2>1
<1>4. ExistsBijection(1..Len(s), ToSet(s))
  BY <1>2 DEF ExistsBijection
<1> QED
  BY <1>3, <1>4, FS_Bijection

(* Two of them with no common element make a third.                        *)
LEMMA SinRepetirConcat ==
  ASSUME NEW S, NEW s \in Seq(S), NEW t \in Seq(S), SinRepetir(s), SinRepetir(t),
         ToSet(s) \cap ToSet(t) = {}
  PROVE  SinRepetir(s \o t)
<1> DEFINE m == Len(s)
           n == Len(t)
<1>1. m \in Nat /\ n \in Nat /\ DOMAIN s = 1..m /\ DOMAIN t = 1..n
  BY LenProperties
<1>2. /\ Len(s \o t) = m + n
      /\ \A i \in 1..(m + n) : (s \o t)[i] = IF i <= m THEN s[i] ELSE t[i - m]
  BY ConcatProperties
<1>3. \A i \in 1..m, j \in 1..n : s[i] # t[j]
  BY <1>1 DEF ToSet
<1>4. /\ \A i, j \in 1..m : i # j => s[i] # s[j]
      /\ \A i, j \in 1..n : i # j => t[i] # t[j]
  BY DEF SinRepetir
<1> HIDE DEF m, n
<1>5. ASSUME NEW i \in 1..(m + n), NEW j \in 1..(m + n), i # j
      PROVE  (s \o t)[i] # (s \o t)[j]
  <2>1. CASE i <= m /\ j <= m
    BY <1>1, <1>2, <1>4, <1>5, <2>1
  <2>2. CASE i <= m /\ ~(j <= m)
    <3>1. j - m \in 1..n /\ i \in 1..m
      BY <1>1, <2>2
    <3> QED
      BY <1>2, <1>3, <2>2, <3>1
  <2>3. CASE ~(i <= m) /\ j <= m
    <3>1. i - m \in 1..n /\ j \in 1..m
      BY <1>1, <2>3
    <3> QED
      BY <1>2, <1>3, <2>3, <3>1
  <2>4. CASE ~(i <= m) /\ ~(j <= m)
    <3>1. i - m \in 1..n /\ j - m \in 1..n /\ i - m # j - m
      BY <1>1, <1>5, <2>4
    <3> QED
      BY <1>2, <1>4, <2>4, <3>1
  <2> QED
    BY <2>1, <2>2, <2>3, <2>4
<1> QED
  BY <1>2, <1>5 DEF SinRepetir

(* The elements of a concatenation.                                        *)
LEMMA ConcatToSet ==
  ASSUME NEW S, NEW s \in Seq(S), NEW t \in Seq(S)
  PROVE  s \o t \in Seq(S) /\ ToSet(s \o t) = ToSet(s) \cup ToSet(t)
<1> DEFINE m == Len(s)
           n == Len(t)
<1>1. /\ m \in Nat /\ n \in Nat /\ DOMAIN s = 1..m /\ DOMAIN t = 1..n
  BY LenProperties
<1>2. /\ s \o t \in Seq(S) /\ DOMAIN (s \o t) = 1..(m + n)
      /\ \A i \in 1..(m + n) : (s \o t)[i] = IF i <= m THEN s[i] ELSE t[i - m]
  BY ConcatProperties, LenProperties
<1>3. ASSUME NEW x \in ToSet(s) PROVE x \in ToSet(s \o t)
  <2>1. PICK i \in 1..m : s[i] = x
    BY <1>1 DEF ToSet
  <2>2. i \in 1..(m + n) /\ (s \o t)[i] = x
    BY <1>1, <1>2, <2>1
  <2> QED
    BY <1>2, <2>2 DEF ToSet
<1>4. ASSUME NEW x \in ToSet(t) PROVE x \in ToSet(s \o t)
  <2>1. PICK i \in 1..n : t[i] = x
    BY <1>1 DEF ToSet
  <2>2. m + i \in 1..(m + n) /\ (s \o t)[m + i] = x
    BY <1>1, <1>2, <2>1
  <2> QED
    BY <1>2, <2>2 DEF ToSet
<1>5. ASSUME NEW x \in ToSet(s \o t) PROVE x \in ToSet(s) \cup ToSet(t)
  <2>1. PICK i \in 1..(m + n) : (s \o t)[i] = x
    BY <1>2 DEF ToSet
  <2>2. (i \in 1..m /\ s[i] = x) \/ (i - m \in 1..n /\ t[i - m] = x)
    BY <1>1, <1>2, <2>1
  <2> QED
    BY <1>1, <2>2 DEF ToSet
<1> QED
  BY <1>2, <1>3, <1>4, <1>5

(* What one call of Decide eliminates: only containers with metrics, every *)
(* intruso, and of each bucket all but its minimum (manager.go 105-134).   *)
THEOREM DecideSparesMinimum ==
  ASSUME NEW metrics, IsFiniteSet(DOMAIN metrics), NEW d \in Decide(metrics)
  PROVE  /\ d \in Seq(DOMAIN metrics)
         /\ Grupo(metrics, {"intruso"}) \subseteq ToSet(d)
         /\ Cardinality(Grupo(metrics, Alto) \ ToSet(d)) =
              IF Cardinality(Grupo(metrics, Alto)) > MinAlto
              THEN MinAlto ELSE Cardinality(Grupo(metrics, Alto))
         /\ Cardinality(Grupo(metrics, {"bajo"}) \ ToSet(d)) =
              IF Cardinality(Grupo(metrics, {"bajo"})) > MinBajo
              THEN MinBajo ELSE Cardinality(Grupo(metrics, {"bajo"}))
<1> DEFINE D == DOMAIN metrics
           I == Grupo(metrics, {"intruso"})
           A == Grupo(metrics, Alto)
           B == Grupo(metrics, {"bajo"})
<1>1. /\ I \subseteq D /\ A \subseteq D /\ B \subseteq D
      /\ I \cap A = {} /\ I \cap B = {} /\ A \cap B = {}
  BY DEF Grupo, Alto
<1>2. IsFiniteSet(I) /\ IsFiniteSet(A) /\ IsFiniteSet(B)
  BY <1>1, FS_Subset
<1>3. PICK i \in SetToSeqs(I), a \in pruneExcess(metrics, A, MinAlto),
           b \in pruneExcess(metrics, B, MinBajo) : d = i \o a \o b
  BY DEF Decide
<1>4. i \in Seq(I) /\ ToSet(i) = I
  BY <1>2, OrdenEsSecuencia
<1> HIDE DEF D, I, A, B
<1>5. /\ a \in Seq(A) /\ ToSet(a) \subseteq A
      /\ Cardinality(A \ ToSet(a)) = IF Cardinality(A) > MinAlto THEN MinAlto ELSE Cardinality(A)
  BY <1>2, PruneSparesMinimum, MinimosAssumption
<1>6. /\ b \in Seq(B) /\ ToSet(b) \subseteq B
      /\ Cardinality(B \ ToSet(b)) = IF Cardinality(B) > MinBajo THEN MinBajo ELSE Cardinality(B)
  BY <1>2, PruneSparesMinimum, MinimosAssumption
<1> USE DEF D, I, A, B
<1>7. i \in Seq(D) /\ a \in Seq(D) /\ b \in Seq(D)
  BY <1>1, <1>4, <1>5, <1>6, SeqMonotonic
<1>8. i \o a \in Seq(D) /\ ToSet(i \o a) = ToSet(i) \cup ToSet(a)
  BY <1>7, ConcatToSet
<1>9. d \in Seq(D) /\ ToSet(d) = ToSet(i) \cup ToSet(a) \cup ToSet(b)
  <2> DEFINE ia == i \o a
  <2>1. ia \in Seq(D) /\ b \in Seq(D) /\ d = ia \o b
    BY <1>3, <1>7, <1>8
  <2> HIDE DEF ia, D
  <2>2. ia \o b \in Seq(D) /\ ToSet(ia \o b) = ToSet(ia) \cup ToSet(b)
    BY <2>1, ConcatToSet
  <2> QED
    BY <1>8, <2>1, <2>2 DEF ia
<1>10. I \subseteq ToSet(d) /\ A \ ToSet(d) = A \ ToSet(a) /\ B \ ToSet(d) = B \ ToSet(b)
  BY <1>1, <1>4, <1>5, <1>6, <1>9
<1> QED
  BY <1>5, <1>6, <1>9, <1>10

(* A decision is made of three parts: the intrusos, the victims of the     *)
(* bucket of high consumption and those of the low one.                    *)
LEMMA DecideParts ==
  ASSUME NEW metrics, IsFiniteSet(DOMAIN metrics), NEW d \in Decide(metrics)
  PROVE  \E i \in Seq(Grupo(metrics, {"intruso"})),
            a \in pruneExcess(metrics, Grupo(metrics, Alto), MinAlto) \cap Seq(Grupo(metrics, Alto)),
            b \in pruneExcess(metrics, Grupo(metrics, {"bajo"}), MinBajo)
                    \cap Seq(Grupo(metrics, {"bajo"})) :
           /\ d = i \o a \o b
           /\ SinRepetir(i) /\ SinRepetir(a) /\ SinRepetir(b)
<1> DEFINE I == Grupo(metrics, {"intruso"})
           A == Grupo(metrics, Alto)
           B == Grupo(metrics, {"bajo"})
<1>1. I \subseteq DOMAIN metrics /\ A \subseteq DOMAIN metrics /\ B \subseteq DOMAIN metrics
  BY DEF Grupo
<1>2. IsFiniteSet(I) /\ IsFiniteSet(A) /\ IsFiniteSet(B)
  BY <1>1, FS_Subset
<1>3. PICK i \in SetToSeqs(I), a \in pruneExcess(metrics, A, MinAlto),
           b \in pruneExcess(metrics, B, MinBajo) : d = i \o a \o b
  BY DEF Decide
<1>4. i \in Seq(I) /\ SinRepetir(i)
  BY <1>2, OrdenEsSecuencia DEF SinRepetir, Bijection, Injection, IsInjective
<1>5. a \in Seq(A) /\ SinRepetir(a)
  BY <1>2, PruneSparesMinimum, MinimosAssumption DEF SinRepetir
<1>6. b \in Seq(B) /\ SinRepetir(b)
  BY <1>2, PruneSparesMinimum, MinimosAssumption DEF SinRepetir
<1> QED
  BY <1>3, <1>4, <1>5, <1>6

(* No container is decided twice.                                          *)
LEMMA DecideSinRepetir ==
  ASSUME NEW metrics, IsFiniteSet(DOMAIN metrics), NEW d \in Decide(metrics)
  PROVE  SinRepetir(d)
<1> DEFINE D == DOMAIN metrics
           I == Grupo(metrics, {"intruso"})
           A == Grupo(metrics, Alto)
           B == Grupo(metrics, {"bajo"})
<1>1. /\ I \subseteq D /\ A \subseteq D /\ B \subseteq D
      /\ I \cap A = {} /\ I \cap B = {} /\ A \cap B = {}
  BY DEF Grupo, Alto
<1>2. PICK i \in Seq(I), a \in Seq(A), b \in Seq(B) :
        d = i \o a \o b /\ SinRepetir(i) /\ SinRepetir(a) /\ SinRepetir(b)
  BY DecideParts
<1>3. ToSet(i) \subseteq I /\ ToSet(a) \subseteq A /\ ToSet(b) \subseteq B
  BY DEF ToSet
<1>4. i \in Seq(D) /\ a \in Seq(D) /\ b \in Seq(D)
  BY <1>1, SeqMonotonic
<1> HIDE DEF D, I, A, B
<1> DEFINE ia == i \o a
<1>5. ia \in Seq(D) /\ ToSet(ia) = ToSet(i) \cup ToSet(a)
  BY <1>4, ConcatToSet
<1>6. SinRepetir(ia)
  BY <1>1, <1>2, <1>3, <1>4, SinRepetirConcat
<1>7. ToSet(ia) \cap ToSet(b) = {}
  BY <1>1, <1>3, <1>5
<1> HIDE DEF ia
<1>8. SinRepetir(ia \o b)
  BY <1>2, <1>4, <1>5, <1>6, <1>7, SinRepetirConcat
<1> QED
  BY <1>2, <1>8 DEF ia

(* A container that dies in its bucket goes before every other one of the  *)
(* bucket that has not died yet, and before those that are spared.         *)
THEOREM DecideHeaviestFirst ==
  ASSUME NEW metrics, IsFiniteSet(DOMAIN metrics), NEW d \in Decide(metrics),
         NEW cubo \in {Alto, {"bajo"}}, NEW m \in 1..Len(d), d[m] \in Grupo(metrics, cubo),
         NEW c \in Grupo(metrics, cubo), c \notin {d[j] : j \in 1..m}
  PROVE  ~Antes(metrics[c], metrics[d[m]])
<1> DEFINE D == DOMAIN metrics
           I == Grupo(metrics, {"intruso"})
           A == Grupo(metrics, Alto)
           B == Grupo(metrics, {"bajo"})
<1>1. /\ I \subseteq D /\ A \subseteq D /\ B \subseteq D
      /\ I \cap A = {} /\ I \cap B = {} /\ A \cap B = {}
  BY DEF Grupo, Alto
<1>2. IsFiniteSet(A) /\ IsFiniteSet(B)
  BY <1>1, FS_Subset
<1>3. PICK i \in Seq(I), a \in pruneExcess(metrics, A, MinAlto) \cap Seq(A),
           b \in pruneExcess(metrics, B, MinBajo) \cap Seq(B) :
        d = i \o a \o b /\ SinRepetir(i) /\ SinRepetir(a) /\ SinRepetir(b)
  BY DecideParts
<1>4. i \in Seq(D) /\ a \in Seq(D) /\ b \in Seq(D)
  BY <1>1, <1>3, SeqMonotonic
<1> DEFINE p == Len(i)
           q == Len(a)
           r == Len(b)
<1>5. p \in Nat /\ q \in Nat /\ r \in Nat
  BY <1>4, LenProperties
<1>6. /\ Len(d) = p + q + r
      /\ \A x \in 1..p : d[x] = i[x]
      /\ \A x \in 1..q : d[p + x] = a[x]
      /\ \A x \in 1..r : d[p + q + x] = b[x]
  <2> DEFINE ia == i \o a
  <2>1. /\ ia \in Seq(D) /\ Len(ia) = p + q
        /\ \A x \in 1..p + q : ia[x] = IF x <= p THEN i[x] ELSE a[x - p]
    BY <1>4, ConcatProperties
  <2>2. d = ia \o b
    BY <1>3
  <2> HIDE DEF ia
  <2>7. r = Len(b)
    OBVIOUS
  <2> HIDE DEF p, q, r, D, I, A, B
  <2>9. b \in Seq(D) /\ ia \in Seq(D)
    BY <1>4, <2>1
  <2>8. /\ Len(ia \o b) = Len(ia) + Len(b)
        /\ \A x \in 1..Len(ia) + Len(b) :
             (ia \o b)[x] = IF x <= Len(ia) THEN ia[x] ELSE b[x - Len(ia)]
    BY <2>9, ConcatProperties
  <2>3. /\ Len(d) = p + q + r
        /\ \A x \in 1..p + q + r : d[x] = IF x <= p + q THEN ia[x] ELSE b[x - (p + q)]
    BY <2>1, <2>2, <2>7, <2>8
  <2>4. \A x \in 1..p : d[x] = i[x]
    BY <1>5, <2>1, <2>3
  <2>5. \A x \in 1..q : d[p + x] = a[x]
    <3> SUFFICES ASSUME NEW x \in 1..q PROVE d[p + x] = a[x]
      OBVIOUS
    <3>1. p + x \in 1..p + q + r /\ p + x <= p + q /\ ~(p + x <= p) /\ p + x - p = x
      BY <1>5
    <3> QED
      BY <1>5, <2>1, <2>3, <3>1
  <2>6. \A x \in 1..r : d[p + q + x] = b[x]
    <3> SUFFICES ASSUME NEW x \in 1..r PROVE d[p + q + x] = b[x]
      OBVIOUS
    <3>1. PICK y \in 1..p + q + r : y = p + q + x
      BY <1>5
    <3>2. ~(y <= p + q) /\ y - (p + q) = x
      BY <1>5, <3>1
    <3>3. d[y] = b[y - (p + q)]
      BY <2>3, <3>2
    <3> QED
      BY <3>1, <3>2, <3>3
  <2> QED
    BY <2>3, <2>4, <2>5, <2>6
<1>7. /\ \A x \in 1..p : i[x] \in I
      /\ \A x \in 1..q : a[x] \in A
      /\ \A x \in 1..r : b[x] \in B
  BY <1>3, ElementOfSeq
<1>8. \/ m \in 1..p
      \/ \E x \in 1..q : m = p + x
      \/ \E x \in 1..r : m = p + q + x
  <2> HIDE DEF p, q, r
  <2>1. m <= p \/ (m - p \in 1..q /\ m = p + (m - p))
          \/ (m - (p + q) \in 1..r /\ m = p + q + (m - (p + q)))
    BY <1>5, <1>6
  <2> QED
    BY <1>5, <2>1
<1> HIDE DEF p, q, r, D, I, A, B
<1>9. CASE m \in 1..p
  BY <1>1, <1>6, <1>7, <1>9 DEF A, B
<1>10. ASSUME NEW x \in 1..q, m = p + x PROVE ~Antes(metrics[c], metrics[d[m]])
  <2>1. d[m] = a[x] /\ d[m] \in A
    BY <1>6, <1>7, <1>10
  <2>2. cubo = Alto
    BY <1>1, <2>1 DEF A, B
  <2>3. c \in A /\ c \notin {a[j] : j \in 1..x}
    <3>1. \A j \in 1..x : j \in 1..q /\ p + j \in 1..m
      BY <1>5, <1>10
    <3>2. \A j \in 1..x : a[j] \in {d[y] : y \in 1..m}
      BY <1>6, <3>1
    <3> QED
      BY <2>2, <3>2 DEF A
  <2>4. Len(a) = q
    BY DEF q
  <2> QED
    BY <1>2, <1>3, <2>1, <2>3, <2>4, PruneHeaviestFirst, MinimosAssumption
<1>11. ASSUME NEW x \in 1..r, m = p + q + x PROVE ~Antes(metrics[c], metrics[d[m]])
  <2>1. d[m] = b[x] /\ d[m] \in B
    BY <1>6, <1>7, <1>11
  <2>2. cubo = {"bajo"}
    BY <1>1, <2>1 DEF A, B
  <2>3. c \in B /\ c \notin {b[j] : j \in 1..x}
    <3>1. \A j \in 1..x : j \in 1..r /\ p + q + j \in 1..m
      BY <1>5, <1>11
    <3>2. \A j \in 1..x : b[j] \in {d[y] : y \in 1..m}
      BY <1>6, <3>1
    <3> QED
      BY <2>2, <3>2 DEF B
  <2>4. Len(b) = r
    BY DEF r
  <2> QED
    BY <1>2, <1>3, <2>1, <2>3, <2>4, PruneHeaviestFirst, MinimosAssumption
<1> QED
  BY <1>8, <1>9, <1>10, <1>11

(* DecideLaunches asks, for each bucket, exactly what it lacks.            *)
LEMMA LaunchesOfBucket ==
  ASSUME NEW metrics, IsFiniteSet(DOMAIN metrics)
  PROVE  /\ {x \in ToSet(DecideLaunches(metrics)) : x.perfil \in Alto} =
              IF Cardinality(Grupo(metrics, Alto)) < MinAlto
              THEN {[perfil |-> "alto-cpu", cantidad |-> MinAlto - Cardinality(Grupo(metrics, Alto))]}
              ELSE {}
         /\ {x \in ToSet(DecideLaunches(metrics)) : x.perfil \in {"bajo"}} =
              IF Cardinality(Grupo(metrics, {"bajo"})) < MinBajo
              THEN {[perfil |-> "bajo", cantidad |-> MinBajo - Cardinality(Grupo(metrics, {"bajo"}))]}
              ELSE {}
         /\ {x \in ToSet(DecideLaunches(metrics)) : x.perfil \in {"intruso"}} = {}
<1> DEFINE na == Cardinality(Grupo(metrics, Alto))
           nb == Cardinality(Grupo(metrics, {"bajo"}))
           la == [perfil |-> "alto-cpu", cantidad |-> MinAlto - na]
           lb == [perfil |-> "bajo", cantidad |-> MinBajo - nb]
           sa == IF na < MinAlto THEN <<la>> ELSE <<>>
           sb == IF nb < MinBajo THEN <<lb>> ELSE <<>>
<1>1. DecideLaunches(metrics) = sa \o sb
  BY DEF DecideLaunches
<1>2. sa \in Seq({la, lb}) /\ sb \in Seq({la, lb})
  <2> HIDE DEF la, lb, na, nb
  <2>1. <<la>> \in Seq({la, lb}) /\ <<lb>> \in Seq({la, lb}) /\ <<>> \in Seq({la, lb})
    OBVIOUS
  <2> QED
    BY <2>1
<1>3. ToSet(sa) = IF na < MinAlto THEN {la} ELSE {}
  BY DEF ToSet
<1>4. ToSet(sb) = IF nb < MinBajo THEN {lb} ELSE {}
  BY DEF ToSet
<1>5. ToSet(DecideLaunches(metrics)) = ToSet(sa) \cup ToSet(sb)
  <2> HIDE DEF sa, sb, la, lb
  <2> QED
    BY <1>1, <1>2, ConcatToSet
<1>6. /\ la.perfil \in Alto /\ la.perfil \notin {"bajo", "intruso"}
      /\ lb.perfil = "bajo" /\ lb.perfil \notin Alto
  BY DEF Alto
<1> HIDE DEF la, lb, sa, sb
<1> QED
  <2>1. {x \in ToSet(sa) \cup ToSet(sb) : x.perfil \in Alto} = IF na < MinAlto THEN {la} ELSE {}
    BY <1>3, <1>4, <1>6
  <2>2. {x \in ToSet(sa) \cup ToSet(sb) : x.perfil \in {"bajo"}} = IF nb < MinBajo THEN {lb} ELSE {}
    BY <1>3, <1>4, <1>6
  <2>3. {x \in ToSet(sa) \cup ToSet(sb) : x.perfil \in {"intruso"}} = {}
    BY <1>3, <1>4, <1>6
  <2> QED
    BY <1>5, <2>1, <2>2, <2>3 DEF la, lb

----------------------------------------------------------------------------
(* A set of naturals with a member has a least one.                        *)
LEMMA MinimoNatural ==
  ASSUME NEW T \in SUBSET Nat, T # {}
  PROVE  \E m \in T : \A k \in T : m <= k
<1> DEFINE R == OpToRel(<, Nat)
<1>1. IsWellFoundedOn(R, Nat)
  BY NatLessThanWellFounded
<1>2. R = {ss \in Nat \X Nat : ss[1] < ss[2]}
  BY DEF OpToRel
<1> HIDE DEF R
<1>3. PICK m \in T : \A y \in T : ~(<<y, m>> \in R)
  BY <1>1, WFMin
<1>4. \A y \in T : ~(y < m)
  BY <1>2, <1>3
<1> QED
  BY <1>4

(* Induction over the naturals, for a set instead of a predicate.          *)
LEMMA InduccionConjunto ==
  ASSUME NEW T \in SUBSET Nat, 0 \in T, \A n \in T : n + 1 \in T
  PROVE  T = Nat
<1> SUFFICES ASSUME T # Nat PROVE FALSE
  OBVIOUS
<1>1. PICK m \in Nat \ T : \A k \in Nat \ T : m <= k
  BY MinimoNatural
<1>2. m - 1 \in Nat /\ m - 1 < m
  BY <1>1
<1>3. m - 1 \in T
  BY <1>1, <1>2
<1> QED
  BY <1>1, <1>2, <1>3

(* Induction over the subsets of a finite set, for a set of them.          *)
LEMMA InduccionFinita ==
  ASSUME NEW S, IsFiniteSet(S), NEW F \in SUBSET SUBSET S, {} \in F,
         \A T \in SUBSET S : T # {} /\ (\A x \in T : T \ {x} \in F) => T \in F
  PROVE  F = SUBSET S
<1> DEFINE N == {n \in Nat : \A T \in SUBSET S : Cardinality(T) = n => T \in F}
<1>0. \A T \in SUBSET S : IsFiniteSet(T) /\ Cardinality(T) \in Nat
  BY FS_Subset, FS_CardinalityType
<1>1. 0 \in N
  <2>1. \A T \in SUBSET S : Cardinality(T) = 0 => T = {}
    BY <1>0, FS_EmptySet
  <2> QED
    BY <2>1
<1>2. ASSUME NEW n \in N PROVE n + 1 \in N
  <2> SUFFICES ASSUME NEW T \in SUBSET S, Cardinality(T) = n + 1 PROVE T \in F
    OBVIOUS
  <2>1. n \in Nat /\ \A U \in SUBSET S : Cardinality(U) = n => U \in F
    BY <1>2
  <2>2. T # {}
    BY <2>1, FS_EmptySet
  <2>3. ASSUME NEW x \in T PROVE T \ {x} \in F
    <3>1. Cardinality(T \ {x}) = Cardinality(T) - 1
      BY <1>0, FS_RemoveElement
    <3> QED
      BY <2>1, <3>1
  <2> QED
    BY <2>2, <2>3
<1>3. N = Nat
  <2>1. N \in SUBSET Nat
    OBVIOUS
  <2> HIDE DEF N
  <2> QED
    BY <1>1, <1>2, <2>1, InduccionConjunto
<1>4. \A T \in SUBSET S : T \in F
  BY <1>0, <1>3
<1> QED
  BY <1>4

(* The recursion behind a sum over a finite set has a solution.            *)
Suma1(g, f, s) == IF s = {} THEN 0
                  ELSE LET x == CHOOSE x \in s : TRUE IN g[x] + f[s \ {x}]
EsSuma(S, g, f) == f = [s \in SUBSET S |-> Suma1(g, f, s)]
(* The recursion by which a finite set is summed has a solution.           *)
LEMMA SumaExiste ==
  ASSUME NEW S, IsFiniteSet(S), NEW g \in [S -> Nat]
  PROVE  \E f : EsSuma(S, g, f)
<1> DEFINE ch(s) == CHOOSE x \in s : TRUE
           Hasta(n, f) == \A T \in SUBSET S : Cardinality(T) <= n => f[T] = Suma1(g, f, T)
           N == {n \in Nat : \E f \in [SUBSET S -> Nat] : Hasta(n, f)}
<1>0. \A T \in SUBSET S : IsFiniteSet(T) /\ Cardinality(T) \in Nat /\ (Cardinality(T) = 0 <=> T = {})
  BY FS_Subset, FS_CardinalityType, FS_EmptySet
<1>1. 0 \in N
  <2> DEFINE f == [s \in SUBSET S |-> 0]
  <2>1. f \in [SUBSET S -> Nat] /\ Hasta(0, f)
    BY <1>0 DEF Suma1
  <2> HIDE DEF f
  <2> QED
    BY <2>1
<1>5. \A s \in SUBSET S : s # {} => ch(s) \in s /\ Cardinality(s \ {ch(s)}) = Cardinality(s) - 1
  BY <1>0, FS_RemoveElement
<1>2. ASSUME NEW n \in N PROVE n + 1 \in N
  <2>1. n \in Nat
    OBVIOUS
  <2>2. PICK f \in [SUBSET S -> Nat] : Hasta(n, f)
    BY <1>2
  <2> DEFINE h == [s \in SUBSET S |-> IF Cardinality(s) <= n THEN f[s] ELSE Suma1(g, f, s)]
  <2> HIDE DEF ch
  <2>7. \A s \in SUBSET S : \A k : Suma1(g, k, s) = IF s = {} THEN 0 ELSE g[ch(s)] + k[s \ {ch(s)}]
    BY DEF Suma1, ch
  <2>3. h \in [SUBSET S -> Nat]
    <3>1. ASSUME NEW s \in SUBSET S PROVE Suma1(g, f, s) \in Nat
      <4>1. CASE s = {}
        BY <4>1 DEF Suma1
      <4>2. CASE s # {}
        <5>1. ch(s) \in S /\ s \ {ch(s)} \in SUBSET S
          BY <1>5, <4>2
        <5>2. g[ch(s)] \in Nat /\ f[s \ {ch(s)}] \in Nat
          BY <5>1
        <5> QED
          BY <2>7, <4>2, <5>2
      <4> QED
        BY <4>1, <4>2
    <3> QED
      BY <3>1
  <2>4. ASSUME NEW s \in SUBSET S, Cardinality(s) <= n + 1 PROVE h[s] = Suma1(g, h, s)
    <3>1. CASE s = {}
      <4>1. h[s] = f[s] /\ f[s] = 0
        BY <1>0, <2>1, <2>2, <2>7, <3>1
      <4> QED
        BY <2>7, <3>1, <4>1
    <3>2. CASE s # {}
      <4> DEFINE t == s \ {ch(s)}
      <4>1. t \in SUBSET S /\ Cardinality(t) <= n /\ Cardinality(t) \in Nat
        BY <1>0, <1>5, <2>1, <2>4, <3>2
      <4>2. h[t] = f[t]
        BY <4>1
      <4>3. h[s] = Suma1(g, f, s)
        BY <2>2
      <4>4. Suma1(g, f, s) = g[ch(s)] + f[t] /\ Suma1(g, h, s) = g[ch(s)] + h[t]
        BY <2>7, <3>2
      <4> QED
        BY <4>2, <4>3, <4>4
    <3> QED
      BY <3>1, <3>2
  <2>5. Hasta(n + 1, h)
    BY <2>4
  <2> HIDE DEF h, Hasta
  <2> QED
    BY <2>1, <2>3, <2>5
<1>3. N = Nat
  <2>1. N \in SUBSET Nat
    OBVIOUS
  <2> HIDE DEF N
  <2> QED
    BY <1>1, <1>2, <2>1, InduccionConjunto
<1>4. PICK f \in [SUBSET S -> Nat] : Hasta(Cardinality(S), f)
  BY <1>3, FS_CardinalityType
<1>6. \A T \in SUBSET S : Cardinality(T) <= Cardinality(S)
  BY FS_Subset
<1>7. EsSuma(S, g, f)
  BY <1>4, <1>6 DEF EsSuma
<1> QED
  BY <1>7

(* What it computes from naturals is a natural.                            *)
LEMMA SumaEsNatural ==
  ASSUME NEW S, IsFiniteSet(S), NEW g \in [S -> Nat],
         NEW f, EsSuma(S, g, f)
  PROVE  f[S] \in Nat
<1> DEFINE F == {T \in SUBSET S : f[T] \in Nat}
<1>1. \A T \in SUBSET S : f[T] = Suma1(g, f, T)
  BY Zenon DEF EsSuma
<1>2. F \in SUBSET SUBSET S
  OBVIOUS
<1>3. {} \in F
  <2>1. f[{}] = Suma1(g, f, {}) /\ Suma1(g, f, {}) = 0
    <3>1. {} \in SUBSET S
      OBVIOUS
    <3>2. f[{}] = Suma1(g, f, {})
      BY <1>1, <3>1, Zenon
    <3>3. Suma1(g, f, {}) = 0
      BY DEF Suma1
    <3> QED
      BY <3>2, <3>3
  <2> QED
    BY <2>1
<1>4. \A T \in SUBSET S : T # {} /\ (\A x \in T : T \ {x} \in F) => T \in F
  <2> SUFFICES ASSUME NEW T \in SUBSET S, T # {}, \A x \in T : T \ {x} \in F PROVE T \in F
    OBVIOUS
  <2>1. PICK x \in T : x = CHOOSE y \in T : TRUE
    OBVIOUS
  <2>2. f[T] = g[x] + f[T \ {x}]
    BY <1>1, <2>1 DEF Suma1
  <2>3. f[T \ {x}] \in Nat /\ g[x] \in Nat
    OBVIOUS
  <2> QED
    BY <2>2, <2>3
<1> HIDE DEF F
<1>5. F = SUBSET S
  BY <1>2, <1>3, <1>4, InduccionFinita
<1> QED
  BY <1>5 DEF F

(* The resident memory aggregate adds up is a natural.                     *)
LEMMA SumaRss ==
  ASSUME NEW S, IsFiniteSet(S), \A p \in S : p.rss \in Nat
  PROVE  MapThenSumSet(LAMBDA p : p.rss, S) \in Nat
<1> DEFINE Ec(f) == f = [s \in SUBSET S |-> IF s = {} THEN 0
                    ELSE LET x == CHOOSE x \in s : TRUE IN x.rss + f[s \ {x}]]
           g == [p \in S |-> p.rss]
           F == CHOOSE f : Ec(f)
<1>1. MapThenSumSet(LAMBDA p : p.rss, S) = F[S]
  BY DEF MapThenSumSet, MapThenFoldSet
<1>0. g \in [S -> Nat]
  OBVIOUS
<1>2. ASSUME NEW f PROVE Ec(f) <=> EsSuma(S, g, f)
  <2>1. ASSUME NEW s \in SUBSET S
        PROVE  Suma1(g, f, s) = IF s = {} THEN 0
                    ELSE LET x == CHOOSE x \in s : TRUE IN x.rss + f[s \ {x}]
    <3>1. CASE s = {}
      BY <3>1 DEF Suma1
    <3>2. CASE s # {}
      <4>1. PICK x \in s : x = CHOOSE y \in s : TRUE
        BY <3>2
      <4>2. Suma1(g, f, s) = g[x] + f[s \ {x}] /\ g[x] = x.rss
        BY <3>2, <4>1 DEF Suma1
      <4> QED
        BY <3>2, <4>1, <4>2
    <3> QED
      BY <3>1, <3>2
  <2>2. [s \in SUBSET S |-> Suma1(g, f, s)] =
          [s \in SUBSET S |-> IF s = {} THEN 0
                    ELSE LET x == CHOOSE x \in s : TRUE IN x.rss + f[s \ {x}]]
    BY <2>1
  <2> QED
    BY <2>2 DEF EsSuma
<1> HIDE DEF g, Ec
<1>3. \E f : Ec(f)
  <2>1. PICK f : EsSuma(S, g, f)
    BY <1>0, SumaExiste
  <2>2. Ec(f)
    BY <1>2, <2>1
  <2> QED
    BY <2>2
<1>4. Ec(F)
  BY <1>3
<1>5. EsSuma(S, g, F)
  BY <1>2, <1>4
<1>6. F[S] \in Nat
  BY <1>0, <1>5, SumaEsNatural
<1> QED
  BY <1>1, <1>6

----------------------------------------------------------------------------
(* The containers with metrics are the listed ones with a process line.    *)
LEMMA AggregateFacts ==
  ASSUME NEW procs, NEW listados
  PROVE  /\ DOMAIN aggregate(procs, listados) =
              ({p.cid : p \in procs} \ {SinContenedor}) \cap DOMAIN listados
         /\ \A c \in DOMAIN aggregate(procs, listados) :
              aggregate(procs, listados)[c].perfil = listados[c]
BY DEF aggregate
=============================================================================
