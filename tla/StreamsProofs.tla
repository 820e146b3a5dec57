---------------------------- MODULE StreamsProofs ----------------------------
(***************************************************************************)
(* What is proved of the dashboards' stream: the pages that Redis hands    *)
(* out hold the least entries in order, what the group was delivered is    *)
(* broadcast before it is acknowledged, only an entry that was handed over *)
(* is broadcast twice, and a reclaim that ends has left nothing behind.    *)
(***************************************************************************)
EXTENDS Streams, FiniteSetTheorems, SequenceTheorems, WellFoundedInduction, TLAPS

-----------------------------------------------------------------------------
(* Sets of entries.                                                        *)

Bounded(S) == \E n \in Nat : \A e \in S : e <= n

(* A set of entries has a least one, which Min chooses.                    *)
LEMMA MinLemma ==
  ASSUME NEW S, S \subseteq Nat, S # {}
  PROVE  Min(S) \in S /\ \A e \in S : Min(S) <= e
<1> DEFINE R == {ss \in Nat \X Nat : ss[1] < ss[2]}
<1>1. IsWellFoundedOn(R, Nat)
  <2>1. OpToRel(<, Nat) = R
    BY Zenon DEF OpToRel
  <2> QED BY <2>1, NatLessThanWellFounded, Zenon
<1>2. \E x \in S : \A y \in S : x <= y
  <2> HIDE DEF R
  <2>1. PICK x \in S : \A y \in S : ~(<<y, x>> \in R)
    BY <1>1, WFMin, Zenon
  <2>2. ASSUME NEW y \in S PROVE x <= y
    <3>1. ~(y < x)
      BY <2>1 DEF R
    <3> QED BY <3>1
  <2> QED BY <2>2
<1> QED BY <1>2 DEF Min

(* A bounded one has a greatest.                                           *)
LEMMA MaxLemma ==
  ASSUME NEW S, S \subseteq Nat, S # {}, Bounded(S)
  PROVE  Max(S) \in S /\ \A e \in S : e <= Max(S)
<1>1. PICK n \in Nat : \A e \in S : e <= n
  BY DEF Bounded
<1> DEFINE D == {n - e : e \in S}
<1>2. D \subseteq Nat /\ D # {}
  <2>1. \A e \in S : e \in Nat /\ n - e \in Nat
    BY <1>1
  <2> QED BY <2>1
<1>3. PICK m \in D : \A d \in D : m <= d
  BY <1>2, MinLemma, Zenon
<1>4. PICK x \in S : m = n - x
  OBVIOUS
<1>5. ASSUME NEW y \in S PROVE x >= y
  <2>1. n - y \in D
    OBVIOUS
  <2>2. n - x <= n - y
    BY <2>1, <1>3, <1>4
  <2>3. x \in Nat /\ y \in Nat
    BY <1>4
  <2> HIDE DEF D
  <2> QED BY <2>2, <2>3
<1>6. \E z \in S : \A y \in S : z >= y
  BY <1>5
<1>7. Max(S) \in S /\ \A y \in S : Max(S) >= y
  BY <1>6 DEF Max
<1> QED BY <1>7

(* The place of a member in the order of its set.                          *)
Rank(S, e) == Cardinality({f \in S : f < e}) + 1

LEMMA RankOrder ==
  ASSUME NEW S, S \subseteq Nat, IsFiniteSet(S), NEW e \in S, NEW g \in S, e < g
  PROVE  Rank(S, e) < Rank(S, g)
<1> DEFINE E == {f \in S : f < e}  G == {f \in S : f < g}
<1>1. IsFiniteSet(G) /\ Cardinality(G) \in Nat
  <2>1. G \in SUBSET S
    OBVIOUS
  <2> QED BY <2>1, FS_Subset, FS_CardinalityType, Zenon
<1>2. E \subseteq G /\ e \in G /\ e \notin E
  <2>1. \A f \in S : f \in Nat
    OBVIOUS
  <2>2. \A f \in S : f < e => f < g
    BY <2>1
  <2>3. ~(e < e)
    BY <2>1
  <2> QED BY <2>2, <2>3
<1>3. IsFiniteSet(E) /\ Cardinality(E) <= Cardinality(G) /\ (Cardinality(G) = Cardinality(E) => G = E)
  BY <1>1, <1>2, FS_Subset, Zenon
<1>4. Cardinality(E) \in Nat
  BY <1>3, FS_CardinalityType
<1>5. Cardinality(G) # Cardinality(E)
  BY <1>2, <1>3, Zenon
<1> HIDE DEF E, G
<1>6. Cardinality(E) + 1 < Cardinality(G) + 1
  BY <1>1, <1>3, <1>4, <1>5
<1> QED BY <1>6 DEF Rank, E, G

LEMMA RankType ==
  ASSUME NEW S, S \subseteq Nat, IsFiniteSet(S), NEW e \in S
  PROVE  Rank(S, e) \in 1..Cardinality(S)
<1> DEFINE E == {f \in S : f < e}
<1>1. E \in SUBSET S /\ e \notin E
  OBVIOUS
<1>2. IsFiniteSet(E) /\ Cardinality(E) <= Cardinality(S) /\ (Cardinality(S) = Cardinality(E) => S = E)
  BY <1>1, FS_Subset, Zenon
<1>3. Cardinality(E) \in Nat /\ Cardinality(S) \in Nat
  BY <1>2, FS_CardinalityType
<1>4. Cardinality(S) # Cardinality(E)
  BY <1>1, <1>2, Zenon
<1> HIDE DEF E
<1>5. Cardinality(E) + 1 \in 1..Cardinality(S)
  BY <1>2, <1>3, <1>4
<1> QED BY <1>5 DEF Rank, E

(* Every place is taken.                                                   *)
LEMMA RankOnto ==
  ASSUME NEW S, S \subseteq Nat, IsFiniteSet(S), NEW i \in 1..Cardinality(S)
  PROVE  \E e \in S : Rank(S, e) = i
<1> DEFINE c == Cardinality(S)  rank == [e \in S |-> Rank(S, e)]
<1>1. c \in Nat
  BY FS_CardinalityType
<1>0. \A e \in S : Rank(S, e) \in 1..c
  BY RankType, Zenon
<1> HIDE DEF c
<1>2. rank \in [S -> 1..c]
  BY <1>0, Zenon
<1>3. ASSUME NEW e \in S, NEW g \in S, rank[e] = rank[g] PROVE e = g
  <2>0. Rank(S, e) = Rank(S, g) /\ Rank(S, e) \in Int
    BY <1>0, <1>1, <1>3
  <2>1. ~(e < g)
    <3>1. e < g => Rank(S, e) < Rank(S, g)
      BY RankOrder, Zenon
    <3> QED BY <2>0, <3>1
  <2>2. ~(g < e)
    <3>1. g < e => Rank(S, g) < Rank(S, e)
      BY RankOrder, Zenon
    <3> QED BY <2>0, <3>1
  <2>3. e \in Nat /\ g \in Nat
    OBVIOUS
  <2> QED BY <2>1, <2>2, <2>3
<1>4. rank \in Injection(S, 1..c)
  BY <1>2, <1>3 DEF Injection, IsInjective
<1>5. IsFiniteSet(1..c) /\ Cardinality(1..c) = c
  BY <1>1, FS_Interval
<1> USE DEF c
<1>6. rank \in Surjection(S, 1..c)
  BY <1>4, <1>5, FS_Injection, Zenon
<1> QED BY <1>6 DEF Surjection

Rising(seq) == \A i, j \in 1..Len(seq) : i < j => seq[i] < seq[j]

(* A page of n: members in order, all of them up to its last, and all      *)
(* there are if it is not full.                                            *)
PageOf(S, n, page) ==
  /\ page \in Seq(S) /\ Len(page) <= n
  /\ Rising(page)
  /\ \A i \in 1..Len(page) : \A e \in S : e <= page[i] => e \in In(page)
  /\ Len(page) < n => S \subseteq In(page)

LEMMA LeastLemma ==
  ASSUME NEW S, S \subseteq Nat, IsFiniteSet(S), NEW n \in Nat
  PROVE  PageOf(S, n, Least(S, n))
<1> DEFINE c == Cardinality(S)
           k == IF c < n THEN c ELSE n
           L == [i \in 1..k |-> CHOOSE e \in S : Rank(S, e) = i]
<1>1. c \in Nat
  BY FS_CardinalityType
<1>2. L = Least(S, n)
  BY DEF Least, Rank
<1> HIDE DEF c
<1>3. k \in Nat /\ k <= n /\ k <= c /\ (k < n => k = c)
  BY <1>1
<1> HIDE DEF k
<1>4. \A i \in 1..c : \E e \in S : Rank(S, e) = i
  BY RankOnto, Zenon DEF c
<1>5. \A i \in 1..k : i \in 1..c /\ i \in Nat
  BY <1>1, <1>3
<1>6. ASSUME NEW i \in 1..k PROVE L[i] \in S /\ Rank(S, L[i]) = i
  BY <1>4, <1>5, Zenon
<1> HIDE DEF L
<1>7. DOMAIN L = 1..k
  BY DEF L
<1>8. L \in Seq(S) /\ Len(L) = k
  <2>1. L \in [1..k -> S]
    BY <1>6 DEF L
  <2>2. L \in Seq(S)
    <3>1. [1..k -> S] \in {[1..m -> S] : m \in Nat}
      BY <1>3
    <3> QED BY <2>1, <3>1, SeqDef, Zenon
  <2>3. Len(L) \in Nat /\ DOMAIN L = 1..Len(L)
    BY <2>2, LenProperties, Zenon
  <2>4. Len(L) = k
    BY <1>3, <1>7, <2>3
  <2> QED BY <2>2, <2>4
<1>9. \A e \in S : e \in Nat /\ Rank(S, e) \in 1..c
  BY RankType DEF c
<1>10. \A e, g \in S : e < g => Rank(S, e) < Rank(S, g)
  BY RankOrder, Zenon
<1>11. \A e, g \in S : e <= g => Rank(S, e) <= Rank(S, g)
  BY <1>1, <1>9, <1>10
<1>12. \A e, g \in S : Rank(S, e) = Rank(S, g) => e = g
  BY <1>1, <1>9, <1>10
<1>13. Rising(L)
  <2>1. ASSUME NEW i \in 1..k, NEW j \in 1..k, i < j PROVE L[i] < L[j]
    <3>1. L[i] \in S /\ L[j] \in S /\ Rank(S, L[i]) = i /\ Rank(S, L[j]) = j
      BY <1>6
    <3>2. ~(L[j] <= L[i])
      <4>1. L[j] <= L[i] => j <= i
        BY <3>1, <1>11, Zenon
      <4>2. i \in Nat /\ j \in Nat
        BY <1>5
      <4> QED BY <4>1, <4>2, <2>1
    <3>3. L[i] \in Nat /\ L[j] \in Nat
      BY <3>1, <1>9, Zenon
    <3> QED BY <3>2, <3>3
  <2> QED BY <2>1, <1>8, Zenon DEF Rising
<1>14. ASSUME NEW e \in S, Rank(S, e) <= k PROVE e \in In(L)
  <2>1. PICK i \in 1..k : i = Rank(S, e)
    BY <1>1, <1>3, <1>9, <1>14
  <2>2. L[i] \in S /\ Rank(S, L[i]) = i
    BY <1>6, Zenon
  <2>3. L[i] = e
    BY <1>12, <2>1, <2>2, Zenon
  <2> QED BY <1>7, <2>1, <2>3, Zenon DEF In
<1>15. ASSUME NEW i \in 1..k, NEW e \in S, e <= L[i] PROVE e \in In(L)
  <2>1. L[i] \in S /\ Rank(S, L[i]) = i
    BY <1>6, Zenon
  <2>2. Rank(S, e) <= i
    BY <2>1, <1>11, <1>15, Zenon
  <2>3. Rank(S, e) <= k
    BY <2>2, <1>1, <1>3, <1>9
  <2> QED BY <2>3, <1>14
<1>16. ASSUME k < n PROVE S \subseteq In(L)
  <2>1. k = c
    BY <1>16, <1>3
  <2>2. \A e \in S : Rank(S, e) <= k
    BY <2>1, <1>1, <1>9
  <2> QED BY <2>2, <1>14, Zenon
<1>17. PageOf(S, n, L)
  BY <1>3, <1>8, <1>13, <1>15, <1>16, Zenon DEF PageOf
<1> QED BY <1>2, <1>17, Zenon

(* What a consumer has before it, when the first entry is off it.          *)
LEMMA TailLemma ==
  ASSUME NEW S, S \subseteq Nat, NEW seq \in Seq(S), seq # << >>, Rising(seq)
  PROVE  /\ Head(seq) \in In(seq) /\ Head(seq) = seq[1] /\ Head(seq) \in S
         /\ Tail(seq) \in Seq(S) /\ Rising(Tail(seq))
         /\ In(Tail(seq)) = In(seq) \ {Head(seq)}
<1> DEFINE t == Tail(seq)
<1>1. Len(seq) \in Nat /\ DOMAIN seq = 1..Len(seq) /\ Len(seq) # 0
  BY LenProperties, EmptySeq
<1>2. Head(seq) \in S /\ t \in Seq(S) /\ Len(t) = Len(seq) - 1
      /\ \A i \in 1..Len(t) : t[i] = seq[i + 1]
  BY HeadTailProperties, Zenon
<1>3. Head(seq) = seq[1]
  BY <1>1
<1>4. DOMAIN t = 1..Len(t)
  BY <1>2, LenProperties, Zenon
<1> HIDE DEF t
<1>5. \A i \in 1..Len(seq) : seq[i] \in Nat
  <2>1. \A i \in 1..Len(seq) : seq[i] \in S
    BY ElementOfSeq, Zenon
  <2> QED BY <2>1
<1>6. 1 \in 1..Len(seq)
  BY <1>1
<1>7. Head(seq) \in In(seq)
  BY <1>1, <1>3, <1>6, Zenon DEF In
<1>8. Rising(t)
  <2>1. ASSUME NEW i \in 1..Len(t), NEW j \in 1..Len(t), i < j PROVE t[i] < t[j]
    <3>1. i + 1 \in 1..Len(seq) /\ j + 1 \in 1..Len(seq) /\ i + 1 < j + 1
      BY <2>1, <1>1, <1>2
    <3>2. seq[i + 1] < seq[j + 1]
      BY <3>1 DEF Rising
    <3> QED BY <3>2, <1>2
  <2> QED BY <2>1 DEF Rising
<1>9. ASSUME NEW e \in In(t) PROVE e \in In(seq) /\ e # Head(seq)
  <2>1. PICK i \in 1..Len(t) : e = t[i]
    BY <1>4 DEF In
  <2>2. i + 1 \in 1..Len(seq) /\ e = seq[i + 1] /\ 1 < i + 1
    BY <2>1, <1>1, <1>2
  <2>3. seq[1] < seq[i + 1]
    BY <2>2, <1>6 DEF Rising
  <2>4. e \in In(seq)
    BY <2>2, <1>1, Zenon DEF In
  <2> QED BY <2>2, <2>3, <2>4, <1>3, <1>5, <1>6
<1>10. ASSUME NEW e \in In(seq), e # Head(seq) PROVE e \in In(t)
  <2>1. PICK i \in 1..Len(seq) : e = seq[i]
    BY <1>1 DEF In
  <2>2. i # 1
    BY <1>10, <2>1, <1>3
  <2>3. PICK j \in 1..Len(t) : i = j + 1
    <3>1. i - 1 \in 1..Len(t) /\ i = (i - 1) + 1
      BY <2>2, <1>1, <1>2
    <3> QED BY <3>1
  <2>4. e = t[j]
    BY <2>1, <2>3, <1>2
  <2> QED BY <2>4, <1>4, Zenon DEF In
<1>11. In(t) = In(seq) \ {Head(seq)}
  BY <1>9, <1>10, Zenon
<1> QED BY <1>2, <1>3, <1>7, <1>8, <1>11 DEF t

LEMMA InLemma ==
  ASSUME NEW S, NEW seq \in Seq(S)
  PROVE  /\ In(seq) \subseteq S /\ (seq = << >> <=> In(seq) = {})
         /\ \A e \in In(seq) : \E i \in 1..Len(seq) : e = seq[i]
         /\ \A i \in 1..Len(seq) : seq[i] \in In(seq)
<1>1. Len(seq) \in Nat /\ DOMAIN seq = 1..Len(seq) /\ (seq # << >> => Len(seq) # 0)
  BY LenProperties, EmptySeq
<1>2. \A i \in 1..Len(seq) : seq[i] \in S
  BY ElementOfSeq, Zenon
<1>3. ASSUME seq # << >> PROVE In(seq) # {}
  <2>1. 1 \in DOMAIN seq
    BY <1>1, <1>3
  <2> QED BY <2>1 DEF In
<1>4. ASSUME seq = << >> PROVE In(seq) = {}
  <2>1. Len(seq) = 0
    BY <1>4, EmptySeq
  <2> QED BY <1>1, <2>1 DEF In
<1>5. In(seq) = {seq[i] : i \in 1..Len(seq)}
  BY <1>1 DEF In
<1>6. In(seq) \subseteq S
  BY <1>2, <1>5
<1> QED BY <1>3, <1>4, <1>5, <1>6

-----------------------------------------------------------------------------
(* The invariant.                                                          *)

Acking == {"ackclaimed", "ackread"}
Reclaiming == {"claim", "claimed", "ackclaimed"}
Reading == {"read", "reading", "ackread"}
Places == {"connect", "backoff"} \cup Reclaiming \cup Reading

StreamTypeOK ==
  /\ published \in 0..MaxEvents
  /\ stored \subseteq 1..published
  /\ trimmed \in 0..published
  /\ first \in Int
  /\ last \in {-1, 0} \cup stored
  /\ pel \subseteq {e \in stored : e <= last} /\ idle \subseteq pel
  /\ pc \in [Workers -> Places]
  /\ batch \in [Workers -> Seq(Entries)]
  /\ cursor \in [Workers -> Nat]
  /\ casts \in [Entries -> Nat]
  /\ due \in [Workers -> SUBSET Entries]

(* A consumer has before it, in order, what the group was delivered; while *)
(* it awaits Redis for more, nothing.                                      *)
Batches ==
  \A w \in Workers :
    /\ Rising(batch[w])
    /\ \A e \in In(batch[w]) : e <= last
    /\ pc[w] \in Acking => batch[w] # << >>
    /\ pc[w] \in {"connect", "claim", "read", "backoff"} => batch[w] = << >>

(* What is about to be acknowledged was dispatched.                        *)
Dispatched ==
  \A w \in Workers :
    pc[w] \in Acking => casts[Head(batch[w])] > 0 \/ Head(batch[w]) \in dropped

(* An entry that was never handed over is before one consumer at most, and *)
(* was broadcast once at most, and then it is the one to be acknowledged.  *)
HeldOnce ==
  \A e \in Entries :
    /\ e > last => casts[e] = 0
    /\ e \notin claimed =>
         /\ casts[e] <= 1
         /\ \A w \in Workers : e \in In(batch[w]) =>
              /\ casts[e] = 1 => pc[w] \in Acking /\ e = Head(batch[w])
              /\ \A v \in Workers : e \in In(batch[v]) => v = w

(* What a reclaim is to deal with is before it, or idle and yet to come.   *)
ToReclaim ==
  \A w \in Workers :
    /\ \A e \in due[w] : e <= last
    /\ pc[w] \in Reclaiming =>
         \A e \in due[w] \cap pel :
           e \in In(batch[w]) \/ (e \in idle /\ cursor[w] # None /\ cursor[w] <= e)

StreamInv ==
  StreamTypeOK /\ Batches /\ AtLeastOnce /\ Dispatched /\ HeldOnce /\ ToReclaim /\ ReclaimThorough

LEMMA EntriesNat ==
  /\ MaxEvents \in Nat /\ Entries \subseteq Nat
  /\ \A e \in Entries : e \in Nat /\ e >= 1
BY StreamsAssumption DEF Entries

(* What the type says of the entries.                                      *)
LEMMA EntryFacts ==
  ASSUME StreamTypeOK
  PROVE  /\ stored \subseteq Entries /\ pel \subseteq stored /\ idle \subseteq pel
         /\ last \in Int /\ trimmed \in Nat /\ published \in Nat /\ last <= published
         /\ \A e \in stored : e \in Nat /\ e >= 1 /\ e <= published
         /\ \A e \in pel : e \in Nat /\ e >= 1 /\ e <= last
         /\ IsFiniteSet(stored)
<1>1. published \in Nat /\ published <= MaxEvents /\ MaxEvents \in Nat
  BY StreamsAssumption DEF StreamTypeOK
<1>2. stored \subseteq Entries /\ \A e \in stored : e \in Nat /\ e >= 1 /\ e <= published
  BY <1>1 DEF StreamTypeOK, Entries
<1>3. last \in Int /\ last <= published
  BY <1>1, <1>2 DEF StreamTypeOK
<1>4. IsFiniteSet(stored)
  <2>1. IsFiniteSet(1..published)
    BY <1>1, FS_Interval
  <2> QED BY <2>1, FS_Subset DEF StreamTypeOK
<1> QED BY <1>1, <1>2, <1>3, <1>4 DEF StreamTypeOK

(* What a consumer has before it.                                          *)
LEMMA BatchFacts ==
  ASSUME StreamTypeOK, Batches, NEW w \in Workers
  PROVE  /\ batch[w] \in Seq(Entries) /\ In(batch[w]) \subseteq Entries
         /\ batch[w] = << >> <=> In(batch[w]) = {}
         /\ batch[w] # << >> =>
              /\ Head(batch[w]) \in In(batch[w]) /\ Head(batch[w]) \in Entries
              /\ Tail(batch[w]) \in Seq(Entries) /\ Rising(Tail(batch[w]))
              /\ In(Tail(batch[w])) = In(batch[w]) \ {Head(batch[w])}
<1>1. batch[w] \in Seq(Entries) /\ Rising(batch[w])
  BY DEF StreamTypeOK, Batches
<1>2. In(batch[w]) \subseteq Entries /\ (batch[w] = << >> <=> In(batch[w]) = {})
  BY <1>1, InLemma, Zenon
<1>3. ASSUME batch[w] # << >>
      PROVE  /\ Head(batch[w]) \in In(batch[w]) /\ Head(batch[w]) \in Entries
             /\ Tail(batch[w]) \in Seq(Entries) /\ Rising(Tail(batch[w]))
             /\ In(Tail(batch[w])) = In(batch[w]) \ {Head(batch[w])}
  BY <1>1, <1>3, EntriesNat, TailLemma, Zenon
<1> QED BY <1>1, <1>2, <1>3, Zenon

LEMMA EmptyBatch == In(<< >>) = {} /\ Rising(<< >>) /\ << >> \in Seq(Entries)
<1>1. << >> \in Seq(Entries) /\ Len(<< >>) = 0
  BY EmptySeq
<1>2. In(<< >>) = {}
  BY <1>1, InLemma, Zenon
<1> QED BY <1>1, <1>2 DEF Rising

LEMMA StreamInit == Init => StreamInv
<1> SUFFICES ASSUME Init PROVE StreamInv
  OBVIOUS
<1>1. StreamTypeOK
  <2>1. batch \in [Workers -> Seq(Entries)]
    BY EmptyBatch DEF Init
  <2> QED BY <2>1, EntriesNat DEF Init, StreamTypeOK, Places, Reclaiming, Reading
<1>2. Batches
  <2> QED BY EmptyBatch DEF Init, Batches, Acking
<1>3. AtLeastOnce /\ Dispatched
  BY DEF Init, AtLeastOnce, Dispatched, Acking
<1>4. HeldOnce
  BY EmptyBatch DEF Init, HeldOnce
<1>5. ToReclaim /\ ReclaimThorough
  BY DEF Init, ToReclaim, ReclaimThorough, Reclaiming
<1> QED BY <1>1, <1>2, <1>3, <1>4, <1>5 DEF StreamInv

(* The producer appends behind everything the group has seen.              *)
LEMMA StreamPublish == StreamInv /\ Publish => StreamInv'
<1> SUFFICES ASSUME StreamInv, Publish PROVE StreamInv'
  OBVIOUS
<1> USE DEF StreamInv
<1>1. /\ published' = published + 1 /\ published < MaxEvents
      /\ first' = first /\ last' = last /\ pel' = pel /\ idle' = idle /\ pc' = pc
      /\ batch' = batch /\ cursor' = cursor /\ casts' = casts /\ claimed' = claimed
      /\ dropped' = dropped /\ due' = due
  BY DEF Publish, pending, history
<1>2. stored' \subseteq stored \cup {published'} /\ stored \subseteq stored'
  BY DEF Publish
<1>3. trimmed' \in Int /\ trimmed <= trimmed' /\ trimmed' <= published'
  <2>1. trimmed \in Nat /\ published \in Nat /\ trimmed <= published
    BY EntryFacts DEF StreamTypeOK
  <2>2. trimmed' \in trimmed..published' \/ trimmed' = trimmed
    BY DEF Publish
  <2> QED BY <1>1, <2>1, <2>2
<1>4. StreamTypeOK'
  <2>1. published' \in 0..MaxEvents /\ trimmed' \in 0..published'
    <3>1. published \in Nat /\ trimmed \in Nat /\ MaxEvents \in Nat
      BY EntryFacts, EntriesNat
    <3> QED BY <1>1, <1>3, <3>1
  <2>2. stored' \subseteq 1..published'
    BY <1>1, <1>2, EntryFacts DEF StreamTypeOK
  <2>3. last' \in {-1, 0} \cup stored' /\ pel' \subseteq {e \in stored' : e <= last'}
    BY <1>1, <1>2 DEF StreamTypeOK
  <2> QED BY <1>1, <2>1, <2>2, <2>3 DEF StreamTypeOK
<1>5. Batches' /\ Dispatched' /\ HeldOnce' /\ ToReclaim' /\ ReclaimThorough'
  BY <1>1 DEF Batches, Dispatched, HeldOnce, ToReclaim, ReclaimThorough
<1>6. AtLeastOnce'
  <2>1. ASSUME NEW e \in stored', e <= last PROVE e \in stored
    BY <2>1, <1>1, <1>2, EntryFacts
  <2>2. \A e \in stored : e <= trimmed => e <= trimmed'
    <3>1. trimmed \in Nat /\ \A e \in stored : e \in Nat
      BY EntryFacts
    <3> QED BY <1>3, <3>1
  <2> QED BY <1>1, <2>1, <2>2 DEF AtLeastOnce
<1> QED BY <1>4, <1>5, <1>6

LEMMA StreamGrowIdle == ASSUME NEW e \in Entries PROVE StreamInv /\ GrowIdle(e) => StreamInv'
<1> SUFFICES ASSUME StreamInv, GrowIdle(e) PROVE StreamInv'
  OBVIOUS
<1> USE DEF StreamInv
<1>1. /\ published' = published /\ stored' = stored /\ trimmed' = trimmed
      /\ first' = first /\ last' = last /\ pel' = pel /\ pc' = pc
      /\ batch' = batch /\ cursor' = cursor /\ casts' = casts /\ claimed' = claimed
      /\ dropped' = dropped /\ due' = due
  BY DEF GrowIdle, redis, history
<1>2. idle' = idle \cup {e} /\ e \in pel
  BY DEF GrowIdle
<1>3. StreamTypeOK'
  BY <1>1, <1>2 DEF StreamTypeOK
<1>4. Batches' /\ Dispatched' /\ HeldOnce' /\ AtLeastOnce' /\ ReclaimThorough'
  BY <1>1 DEF Batches, Dispatched, HeldOnce, AtLeastOnce, ReclaimThorough
<1>5. ToReclaim'
  BY <1>1, <1>2 DEF ToReclaim
<1> QED BY <1>3, <1>4, <1>5

(* The group begins at the last entry, and a reclaim with what is idle.    *)
LEMMA StreamEnsureGroups ==
  ASSUME NEW w \in Workers PROVE StreamInv /\ EnsureGroups(w) => StreamInv'
<1> SUFFICES ASSUME StreamInv, EnsureGroups(w) PROVE StreamInv'
  OBVIOUS
<1> USE DEF StreamInv
<1>1. /\ published' = published /\ stored' = stored /\ trimmed' = trimmed
      /\ pel' = pel /\ idle' = idle /\ batch' = batch /\ casts' = casts
      /\ claimed' = claimed /\ dropped' = dropped
  BY DEF EnsureGroups, pending
<1>2. /\ pc[w] = "connect" /\ pc' = [pc EXCEPT ![w] = "claim"]
      /\ cursor' = [cursor EXCEPT ![w] = 1] /\ due' = [due EXCEPT ![w] = idle]
  BY DEF EnsureGroups
<1>3. /\ last' \in {-1, 0} \cup stored /\ first' \in Int /\ last' \in Int /\ last <= last'
      /\ (first' = first /\ last' = last) \/ first' = last'
  <2>1. CASE first = -1
    <3> DEFINE S == stored \cup {0}
    <3>1. S \subseteq Nat /\ S # {} /\ \A e \in S : e <= published
      <4>1. published \in Nat /\ \A e \in stored : e \in Nat /\ e <= published
        BY EntryFacts
      <4> QED BY <4>1
    <3>2. Max(S) \in S /\ \A e \in S : e <= Max(S)
      <4>1. Bounded(S)
        BY <3>1, EntryFacts DEF Bounded
      <4> QED BY <3>1, <4>1, MaxLemma, Zenon
    <3>3. first' = Max(S) /\ last' = Max(S)
      BY <2>1 DEF EnsureGroups
    <3> HIDE DEF S
    <3>4. last' \in Nat /\ last' \in S /\ first' = last'
      BY <3>1, <3>2, <3>3
    <3>5. last <= last'
      <4>1. last \in S \/ last = -1
        BY DEF StreamTypeOK, S
      <4>2. last = -1 => last <= last'
        BY <3>4
      <4> QED BY <3>2, <3>3, <4>1, <4>2
    <3> QED BY <3>4, <3>5 DEF S
  <2>2. CASE first # -1
    <3>1. first' = first /\ last' = last
      BY <2>2 DEF EnsureGroups
    <3> QED BY <3>1, EntryFacts DEF StreamTypeOK
  <2> QED BY <2>1, <2>2
<1>4. \A v \in Workers : /\ pc'[v] = IF v = w THEN "claim" ELSE pc[v]
                         /\ cursor'[v] = IF v = w THEN 1 ELSE cursor[v]
                         /\ due'[v] = IF v = w THEN idle ELSE due[v]
  BY <1>2 DEF StreamTypeOK
<1>5. \A e \in Entries : e <= last => e <= last'
  <2>1. last \in Int /\ \A e \in Entries : e \in Nat
    BY EntryFacts, EntriesNat
  <2> QED BY <1>3, <2>1
<1>6. StreamTypeOK'
  <2>1. pc' \in [Workers -> Places]
    BY <1>2 DEF StreamTypeOK, Places, Reclaiming
  <2>2. cursor' \in [Workers -> Nat] /\ due' \in [Workers -> SUBSET Entries]
    BY <1>2, EntryFacts DEF StreamTypeOK
  <2>3. pel' \subseteq {e \in stored' : e <= last'}
    BY <1>1, <1>5, EntryFacts
  <2> QED BY <1>1, <1>3, <2>1, <2>2, <2>3 DEF StreamTypeOK
<1>7. Batches'
  <2>1. ASSUME NEW v \in Workers, NEW e \in In(batch[v]) PROVE e <= last'
    BY <2>1, <1>5, BatchFacts DEF Batches
  <2>2. batch[w] = << >>
    BY <1>2 DEF Batches
  <2> QED BY <1>1, <1>4, <2>1, <2>2 DEF Batches, Acking
<1>8. AtLeastOnce'
  <2>1. ASSUME NEW e \in stored, first' < e, e <= last' PROVE first < e /\ e <= last
    <3>1. e \in Nat
      BY EntryFacts
    <3> QED BY <2>1, <1>3, <3>1
  <2> QED BY <1>1, <2>1 DEF AtLeastOnce
<1>9. Dispatched'
  BY <1>1, <1>4 DEF Dispatched, Acking
<1>10. HeldOnce'
  <2>1. ASSUME NEW e \in Entries, e > last' PROVE casts[e] = 0
    <3>1. e > last
      <4>1. e \in Nat /\ last \in Int
        BY EntryFacts, EntriesNat
      <4> QED BY <2>1, <1>3, <4>1
    <3> QED BY <3>1 DEF HeldOnce
  <2>2. batch[w] = << >> /\ In(batch[w]) = {}
    BY <1>2, EmptyBatch DEF Batches
  <2> QED BY <1>1, <1>4, <2>1, <2>2 DEF HeldOnce
<1>11. ToReclaim'
  <2>1. ASSUME NEW v \in Workers, NEW e \in due'[v] PROVE e <= last'
    <3>1. e \in Entries /\ e <= last
      BY <2>1, <1>4, EntryFacts DEF ToReclaim, StreamTypeOK
    <3> QED BY <3>1, <1>5
  <2>2. ASSUME NEW e \in idle PROVE 1 <= e /\ 1 # None
    <3>1. e \in Nat /\ e >= 1
      BY EntryFacts
    <3> QED BY <3>1 DEF None
  <2> QED BY <1>1, <1>4, <2>1, <2>2 DEF ToReclaim
<1>12. ReclaimThorough'
  BY <1>1, <1>4 DEF ReclaimThorough
<1> QED BY <1>6, <1>7, <1>8, <1>9, <1>10, <1>11, <1>12

LEMMA StreamPageDone ==
  ASSUME NEW w \in Workers PROVE StreamInv /\ PageDone(w) => StreamInv'
<1> SUFFICES ASSUME StreamInv, PageDone(w) PROVE StreamInv'
  OBVIOUS
<1> USE DEF StreamInv
<1>1. /\ published' = published /\ stored' = stored /\ trimmed' = trimmed
      /\ first' = first /\ last' = last /\ pel' = pel /\ idle' = idle
      /\ batch' = batch /\ cursor' = cursor /\ casts' = casts /\ claimed' = claimed
      /\ dropped' = dropped /\ due' = due
  BY DEF PageDone, redis, pending, history
<1>2. PICK p \in {"claim", "read"} : pc' = [pc EXCEPT ![w] = p]
  BY DEF PageDone
<1>3. /\ batch[w] = << >>
      /\ p = "claim" => pc[w] = "claimed"
      /\ p = "read" => pc[w] = "reading" \/ (pc[w] = "claim" /\ cursor[w] = None)
  <2>1. pc'[w] = p
    BY <1>2 DEF StreamTypeOK
  <2>2. \/ pc[w] = "claimed" /\ pc'[w] = "claim"
        \/ pc[w] = "claim" /\ cursor[w] = None /\ pc'[w] = "read"
        \/ pc[w] = "reading" /\ pc'[w] = "read"
    BY DEF PageDone, StreamTypeOK
  <2> QED BY <2>1, <2>2 DEF PageDone
<1>4. \A v \in Workers : pc'[v] = IF v = w THEN p ELSE pc[v]
  BY <1>2 DEF StreamTypeOK
<1>5. StreamTypeOK'
  <2>1. pc' \in [Workers -> Places]
    BY <1>2 DEF StreamTypeOK, Places, Reclaiming, Reading
  <2> QED BY <1>1, <2>1 DEF StreamTypeOK
<1>6. Batches'
  BY <1>1, <1>3, <1>4 DEF Batches, Acking
<1>7. AtLeastOnce'
  BY <1>1 DEF AtLeastOnce
<1>8. Dispatched'
  BY <1>1, <1>4 DEF Dispatched, Acking
<1>9. HeldOnce'
  BY <1>1, <1>3, <1>4, EmptyBatch DEF HeldOnce
<1>10. ToReclaim'
  BY <1>1, <1>3, <1>4 DEF ToReclaim, Reclaiming
<1>11. ReclaimThorough'
  <2>1. ASSUME pc[w] = "claim", cursor[w] = None PROVE due[w] \cap pel = {}
    BY <2>1, <1>3, EmptyBatch DEF ToReclaim, Reclaiming
  <2> QED BY <1>1, <1>3, <1>4, <2>1 DEF ReclaimThorough
<1> QED BY <1>5, <1>6, <1>7, <1>8, <1>9, <1>10, <1>11

LEMMA StreamReconnect ==
  ASSUME NEW w \in Workers PROVE StreamInv /\ Reconnect(w) => StreamInv'
<1> SUFFICES ASSUME StreamInv, Reconnect(w) PROVE StreamInv'
  OBVIOUS
<1> USE DEF StreamInv
<1>1. /\ published' = published /\ stored' = stored /\ trimmed' = trimmed
      /\ first' = first /\ last' = last /\ pel' = pel /\ idle' = idle
      /\ batch' = batch /\ cursor' = cursor /\ casts' = casts /\ claimed' = claimed
      /\ dropped' = dropped /\ due' = due
  BY DEF Reconnect, redis, pending, history
<1>2. pc[w] = "backoff" /\ pc' = [pc EXCEPT ![w] = "connect"]
  BY DEF Reconnect
<1>3. \A v \in Workers : pc'[v] = IF v = w THEN "connect" ELSE pc[v]
  BY <1>2 DEF StreamTypeOK
<1>4. StreamTypeOK'
  <2>1. pc' \in [Workers -> Places]
    BY <1>2 DEF StreamTypeOK, Places
  <2> QED BY <1>1, <2>1 DEF StreamTypeOK
<1>5. Batches' /\ Dispatched' /\ AtLeastOnce'
  BY <1>1, <1>2, <1>3 DEF Batches, Dispatched, AtLeastOnce, Acking
<1>6. HeldOnce'
  BY <1>1, <1>2, <1>3, EmptyBatch DEF HeldOnce, Batches
<1>7. ToReclaim' /\ ReclaimThorough'
  BY <1>1, <1>3 DEF ToReclaim, ReclaimThorough, Reclaiming
<1> QED BY <1>4, <1>5, <1>6, <1>7

(* An error or a crash takes what was before the consumer away; it is      *)
(* pending yet.  Both give the reclaim up.                                 *)
LEMMA StreamLost ==
  ASSUME NEW w \in Workers PROVE StreamInv /\ (RedisError(w) \/ Crash(w)) => StreamInv'
<1> SUFFICES ASSUME StreamInv, RedisError(w) \/ Crash(w) PROVE StreamInv'
  OBVIOUS
<1> USE DEF StreamInv
<1>1. /\ published' = published /\ stored' = stored /\ trimmed' = trimmed
      /\ first' = first /\ last' = last /\ pel' = pel /\ idle' = idle
      /\ cursor' = cursor /\ casts' = casts /\ claimed' = claimed /\ dropped' = dropped
      /\ batch' = [batch EXCEPT ![w] = << >>]
  BY DEF RedisError, Crash, redis, pending
<1>2. PICK p \in {"read", "backoff"} : pc' = [pc EXCEPT ![w] = p]
  BY DEF RedisError, Crash
<1>3. \A v \in Workers : /\ pc'[v] = IF v = w THEN p ELSE pc[v]
                         /\ batch'[v] = IF v = w THEN << >> ELSE batch[v]
  BY <1>1, <1>2 DEF StreamTypeOK
<1>4. /\ due' \in [Workers -> SUBSET Entries]
      /\ p = "read" => due'[w] = {}
      /\ \A v \in Workers : due'[v] \subseteq due[v] /\ (v # w => due'[v] = due[v])
  <2>1. p = "read" => due' = [due EXCEPT ![w] = {}]
    <3>1. pc'[w] = p
      BY <1>2 DEF StreamTypeOK
    <3> QED BY <3>1 DEF RedisError, Crash, StreamTypeOK
  <2>2. due' = due \/ due' = [due EXCEPT ![w] = {}]
    BY DEF RedisError, Crash
  <2> QED BY <2>1, <2>2 DEF StreamTypeOK
<1>5. StreamTypeOK'
  <2>1. pc' \in [Workers -> Places]
    BY <1>2 DEF StreamTypeOK, Places, Reading
  <2>2. batch' \in [Workers -> Seq(Entries)]
    BY <1>1, EmptyBatch DEF StreamTypeOK
  <2> QED BY <1>1, <1>4, <2>1, <2>2 DEF StreamTypeOK
<1>6. Batches'
  BY <1>1, <1>3, EmptyBatch DEF Batches, Acking
<1>7. AtLeastOnce'
  BY <1>1 DEF AtLeastOnce
<1>8. Dispatched'
  BY <1>1, <1>3 DEF Dispatched, Acking
<1>9. HeldOnce'
  <2>1. \A v \in Workers : \A e \in In(batch'[v]) : e \in In(batch[v]) /\ v # w
    BY <1>3, EmptyBatch
  <2> QED BY <1>1, <1>3, <2>1 DEF HeldOnce
<1>10. ToReclaim'
  BY <1>1, <1>3, <1>4 DEF ToReclaim, Reclaiming
<1>11. ReclaimThorough'
  <2>1. ASSUME NEW v \in Workers, v # w PROVE due'[v] = due[v] /\ pc'[v] = pc[v]
    BY <2>1, <1>3, <1>4
  <2>2. pc'[w] = p
    BY <1>3
  <2> QED BY <1>1, <1>4, <2>1, <2>2 DEF ReclaimThorough
<1> QED BY <1>5, <1>6, <1>7, <1>8, <1>9, <1>10, <1>11

LEMMA StreamDispatch ==
  ASSUME NEW w \in Workers PROVE StreamInv /\ Dispatch(w) => StreamInv'
<1> SUFFICES ASSUME StreamInv, Dispatch(w) PROVE StreamInv'
  OBVIOUS
<1> USE DEF StreamInv
<1>1. /\ published' = published /\ stored' = stored /\ trimmed' = trimmed
      /\ first' = first /\ last' = last /\ pel' = pel /\ idle' = idle
      /\ batch' = batch /\ cursor' = cursor /\ claimed' = claimed
      /\ dropped' = dropped /\ due' = due
  BY DEF Dispatch, redis, pending
<1> DEFINE h == Head(batch[w])
<1>2. /\ pc[w] \in {"claimed", "reading"} /\ batch[w] # << >>
      /\ casts' = [casts EXCEPT ![h] = @ + 1]
      /\ pc' = [pc EXCEPT ![w] = IF @ = "claimed" THEN "ackclaimed" ELSE "ackread"]
  BY DEF Dispatch
<1>3. h \in Entries /\ h \in In(batch[w]) /\ h <= last
  <2>1. h \in Entries /\ h \in In(batch[w])
    BY <1>2, BatchFacts
  <2> QED BY <2>1 DEF Batches
<1>4. /\ \A v \in Workers : v # w => pc'[v] = pc[v]
      /\ pc[w] = "claimed" => pc'[w] = "ackclaimed"
      /\ pc[w] = "reading" => pc'[w] = "ackread"
  BY <1>2 DEF StreamTypeOK
<1>5. /\ \A e \in Entries : casts[e] \in Nat /\ casts'[e] = IF e = h THEN casts[e] + 1 ELSE casts[e]
      /\ casts' \in [Entries -> Nat]
  <2>1. casts \in [Entries -> Nat] /\ casts[h] + 1 \in Nat
    BY <1>3 DEF StreamTypeOK
  <2> HIDE DEF h
  <2> QED BY <1>2, <1>3, <2>1
<1> HIDE DEF h
<1>6. StreamTypeOK'
  <2>1. pc' \in [Workers -> Places]
    BY <1>2 DEF StreamTypeOK, Places, Reclaiming, Reading
  <2> QED BY <1>1, <1>5, <2>1 DEF StreamTypeOK
<1>7. Batches'
  BY <1>1, <1>2, <1>4 DEF Batches, Acking
<1>8. AtLeastOnce'
  <2>1. \A e \in stored : casts[e] > 0 => casts'[e] > 0
    BY <1>5, EntryFacts
  <2> QED BY <1>1, <2>1 DEF AtLeastOnce
<1>9. Dispatched'
  <2>1. casts'[h] > 0
    BY <1>3, <1>5
  <2>2. ASSUME NEW v \in Workers, pc[v] \in Acking, casts[Head(batch[v])] > 0
        PROVE  casts'[Head(batch[v])] > 0
    <3>1. Head(batch[v]) \in Entries
      BY <2>2, BatchFacts DEF Batches
    <3> QED BY <1>5, <2>2, <3>1
  <2> QED BY <1>1, <1>4, <2>1, <2>2 DEF Dispatched, h
<1>10. HeldOnce'
  <2>1. ASSUME NEW e \in Entries, e > last' PROVE casts'[e] = 0
    <3>1. e # h
      <4>1. e \in Nat /\ h \in Nat /\ last \in Int
        BY <1>3, EntryFacts, EntriesNat
      <4> QED BY <2>1, <1>1, <1>3, <4>1
    <3> QED BY <2>1, <3>1, <1>1, <1>5 DEF HeldOnce
  <2>2. ASSUME NEW e \in Entries, e \notin claimed'
        PROVE  /\ casts'[e] <= 1
               /\ \A u \in Workers : e \in In(batch'[u]) =>
                    /\ casts'[e] = 1 => pc'[u] \in Acking /\ e = Head(batch'[u])
                    /\ \A v \in Workers : e \in In(batch'[v]) => v = u
    <3>1. /\ casts[e] <= 1
          /\ \A u \in Workers : e \in In(batch[u]) =>
               /\ casts[e] = 1 => pc[u] \in Acking /\ e = Head(batch[u])
               /\ \A v \in Workers : e \in In(batch[v]) => v = u
      BY <2>2, <1>1 DEF HeldOnce
    <3>2. CASE e = h
      <4>1. casts[e] # 1
        BY <3>1, <3>2, <1>2, <1>3 DEF Acking
      <4>2. casts'[e] <= 1
        BY <3>1, <3>2, <4>1, <1>5
      <4>3. pc'[w] \in Acking /\ e = Head(batch'[w])
        BY <3>2, <1>1, <1>2, <1>4 DEF Acking, h
      <4> QED BY <3>1, <3>2, <4>2, <4>3, <1>1, <1>3
    <3>3. CASE e # h
      <4>1. casts'[e] = casts[e]
        BY <3>3, <1>5
      <4>2. \A u \in Workers : pc[u] \in Acking => pc'[u] \in Acking
        BY <1>2, <1>4 DEF Acking
      <4> QED BY <3>1, <4>1, <4>2, <1>1
    <3> QED BY <3>2, <3>3
  <2> QED BY <2>1, <2>2 DEF HeldOnce
<1>11. ToReclaim'
  <2>1. \A v \in Workers : pc'[v] \in Reclaiming => pc[v] \in Reclaiming
    BY <1>2, <1>4 DEF Reclaiming
  <2> QED BY <1>1, <2>1 DEF ToReclaim
<1>12. ReclaimThorough'
  BY <1>1, <1>2, <1>4 DEF ReclaimThorough
<1> QED BY <1>6, <1>7, <1>8, <1>9, <1>10, <1>11, <1>12

(* The read loop leaves the entry pending; the reclaim is to ack it.       *)
LEMMA StreamDispatchRaises ==
  ASSUME NEW w \in Workers PROVE StreamInv /\ DispatchRaises(w) => StreamInv'
<1> SUFFICES ASSUME StreamInv, DispatchRaises(w) PROVE StreamInv'
  OBVIOUS
<1> USE DEF StreamInv
<1>1. /\ published' = published /\ stored' = stored /\ trimmed' = trimmed
      /\ first' = first /\ last' = last /\ pel' = pel /\ idle' = idle
      /\ cursor' = cursor /\ casts' = casts /\ claimed' = claimed /\ due' = due
      /\ batch[w] # << >>
  BY DEF DispatchRaises, redis, pending
<1> DEFINE h == Head(batch[w])
<1>2. /\ h \in In(batch[w]) /\ Tail(batch[w]) \in Seq(Entries) /\ Rising(Tail(batch[w]))
      /\ In(Tail(batch[w])) = In(batch[w]) \ {h}
  BY <1>1, BatchFacts
<1>3. CASE pc[w] = "claimed"
  <2>1. pc' = [pc EXCEPT ![w] = "ackclaimed"] /\ dropped' = dropped \cup {h} /\ batch' = batch
    BY <1>3 DEF DispatchRaises
  <2>2. \A v \in Workers : pc'[v] = IF v = w THEN "ackclaimed" ELSE pc[v]
    BY <2>1 DEF StreamTypeOK
  <2>3. StreamTypeOK'
    <3>1. pc' \in [Workers -> Places]
      BY <2>1 DEF StreamTypeOK, Places, Reclaiming
    <3> QED BY <1>1, <2>1, <3>1 DEF StreamTypeOK
  <2>4. Batches'
    BY <1>1, <2>1, <2>2 DEF Batches, Acking
  <2>5. AtLeastOnce'
    BY <1>1, <2>1 DEF AtLeastOnce
  <2>6. Dispatched'
    BY <1>1, <2>1, <2>2 DEF Dispatched
  <2>7. HeldOnce'
    <3>1. \A u \in Workers : pc[u] \in Acking => pc'[u] \in Acking
      BY <2>2 DEF Acking
    <3> QED BY <1>1, <2>1, <3>1 DEF HeldOnce
  <2>8. ToReclaim' /\ ReclaimThorough'
    BY <1>1, <1>3, <2>1, <2>2 DEF ToReclaim, ReclaimThorough, Reclaiming
  <2> QED BY <2>3, <2>4, <2>5, <2>6, <2>7, <2>8
<1>4. CASE pc[w] = "reading"
  <2>1. batch' = [batch EXCEPT ![w] = Tail(@)] /\ pc' = pc /\ dropped' = dropped
    BY <1>4 DEF DispatchRaises
  <2>2. \A v \in Workers : batch'[v] = IF v = w THEN Tail(batch[w]) ELSE batch[v]
    BY <2>1 DEF StreamTypeOK
  <2>3. StreamTypeOK'
    <3>1. batch' \in [Workers -> Seq(Entries)]
      BY <1>2, <2>1 DEF StreamTypeOK
    <3> QED BY <1>1, <2>1, <3>1 DEF StreamTypeOK
  <2>4. \A v \in Workers : In(batch'[v]) \subseteq In(batch[v])
    BY <1>2, <2>2
  <2>5. Batches'
    <3>1. \A v \in Workers : Rising(batch'[v])
      BY <1>2, <2>2 DEF Batches
    <3>2. \A v \in Workers : \A e \in In(batch'[v]) : e <= last'
      BY <1>1, <2>4 DEF Batches
    <3> QED BY <1>4, <2>1, <2>2, <3>1, <3>2 DEF Batches, Acking
  <2>6. AtLeastOnce'
    BY <1>1, <2>1 DEF AtLeastOnce
  <2>7. Dispatched'
    BY <1>1, <1>4, <2>1, <2>2 DEF Dispatched, Acking
  <2>8. HeldOnce'
    BY <1>1, <1>4, <2>1, <2>2, <2>4 DEF HeldOnce, Acking
  <2>9. ToReclaim' /\ ReclaimThorough'
    BY <1>1, <1>4, <2>1, <2>2 DEF ToReclaim, ReclaimThorough, Reclaiming
  <2> QED BY <2>3, <2>5, <2>6, <2>7, <2>8, <2>9
<1> QED BY <1>3, <1>4 DEF DispatchRaises

LEMMA StreamAck ==
  ASSUME NEW w \in Workers PROVE StreamInv /\ Ack(w) => StreamInv'
<1> SUFFICES ASSUME StreamInv, Ack(w) PROVE StreamInv'
  OBVIOUS
<1> USE DEF StreamInv
<1> DEFINE h == Head(batch[w])
<1>1. /\ published' = published /\ stored' = stored /\ trimmed' = trimmed
      /\ first' = first /\ last' = last /\ cursor' = cursor /\ casts' = casts
      /\ claimed' = claimed /\ dropped' = dropped /\ due' = due
      /\ pel' = pel \ {h} /\ idle' = idle \ {h}
      /\ batch' = [batch EXCEPT ![w] = Tail(@)]
  BY DEF Ack, redis, history
<1>2. /\ pc[w] \in Acking
      /\ pc' = [pc EXCEPT ![w] = IF @ = "ackclaimed" THEN "claimed" ELSE "reading"]
  BY DEF Ack, Acking
<1>3. /\ h \in In(batch[w]) /\ h \in Entries
      /\ Tail(batch[w]) \in Seq(Entries) /\ Rising(Tail(batch[w]))
      /\ In(Tail(batch[w])) = In(batch[w]) \ {h}
  <2>1. batch[w] # << >>
    BY <1>2 DEF Batches
  <2> QED BY <2>1, BatchFacts
<1>4. casts[h] > 0 \/ h \in dropped
  BY <1>2 DEF Dispatched
<1>5. /\ \A v \in Workers : batch'[v] = IF v = w THEN Tail(batch[w]) ELSE batch[v]
      /\ \A v \in Workers : v # w => pc'[v] = pc[v]
      /\ pc'[w] \notin Acking
      /\ pc[w] = "ackclaimed" => pc'[w] = "claimed"
      /\ pc[w] = "ackread" => pc'[w] = "reading"
  BY <1>1, <1>2 DEF StreamTypeOK, Acking
<1> HIDE DEF h
<1>6. \A v \in Workers : In(batch'[v]) = IF v = w THEN In(batch[w]) \ {h} ELSE In(batch[v])
  BY <1>3, <1>5
<1>7. StreamTypeOK'
  <2>1. pc' \in [Workers -> Places]
    BY <1>2 DEF StreamTypeOK, Places, Reclaiming, Reading
  <2>2. batch' \in [Workers -> Seq(Entries)]
    BY <1>1, <1>3 DEF StreamTypeOK
  <2>3. pel' \subseteq {e \in stored' : e <= last'} /\ idle' \subseteq pel'
    BY <1>1 DEF StreamTypeOK
  <2> QED BY <1>1, <2>1, <2>2, <2>3 DEF StreamTypeOK
<1>8. Batches'
  <2>1. \A v \in Workers : Rising(batch'[v])
    BY <1>3, <1>5 DEF Batches
  <2>2. \A v \in Workers : \A e \in In(batch'[v]) : e <= last'
    BY <1>1, <1>6 DEF Batches
  <2>3. pc'[w] \in {"claimed", "reading"}
    BY <1>2, <1>5 DEF Acking
  <2> QED BY <1>5, <2>1, <2>2, <2>3 DEF Batches
<1>9. AtLeastOnce'
  BY <1>1, <1>4 DEF AtLeastOnce
<1>10. Dispatched'
  BY <1>1, <1>5 DEF Dispatched
<1>11. HeldOnce'
  <2>1. ASSUME NEW e \in Entries, e \notin claimed, NEW u \in Workers, e \in In(batch'[u])
        PROVE  /\ casts[e] = 1 => pc'[u] \in Acking /\ e = Head(batch'[u])
               /\ \A v \in Workers : e \in In(batch'[v]) => v = u
    <3>1. e \in In(batch[u])
      BY <2>1, <1>6
    <3>2. /\ casts[e] = 1 => pc[u] \in Acking /\ e = Head(batch[u])
          /\ \A v \in Workers : e \in In(batch[v]) => v = u
      BY <2>1, <3>1 DEF HeldOnce
    <3>3. u = w => e # h
      BY <2>1, <1>6
    <3>4. casts[e] = 1 => u # w
      BY <3>2, <3>3 DEF h
    <3> QED BY <3>2, <3>4, <1>5, <1>6
  <2> QED BY <1>1, <2>1 DEF HeldOnce
<1>12. ToReclaim'
  <2>1. ASSUME NEW v \in Workers, pc'[v] \in Reclaiming, NEW e \in due[v] \cap pel'
        PROVE  e \in In(batch'[v]) \/ (e \in idle' /\ cursor[v] # None /\ cursor[v] <= e)
    <3>1. pc[v] \in Reclaiming
      BY <2>1, <1>2, <1>5 DEF Reclaiming, Acking
    <3>2. e \in pel /\ e # h
      BY <1>1
    <3>3. e \in In(batch[v]) \/ (e \in idle /\ cursor[v] # None /\ cursor[v] <= e)
      BY <3>1, <3>2 DEF ToReclaim
    <3> QED BY <3>2, <3>3, <1>1, <1>6
  <2> QED BY <1>1, <2>1 DEF ToReclaim
<1>13. ReclaimThorough'
  BY <1>1, <1>2, <1>5 DEF ReclaimThorough, Acking
<1> QED BY <1>7, <1>8, <1>9, <1>10, <1>11, <1>12, <1>13

(* Delivered is what comes behind all that was, in order and complete but  *)
(* for what the stream has lost.                                           *)
LEMMA StreamReadGroup ==
  ASSUME NEW w \in Workers PROVE StreamInv /\ ReadGroup(w) => StreamInv'
<1> SUFFICES ASSUME StreamInv, ReadGroup(w) PROVE StreamInv'
  OBVIOUS
<1> USE DEF StreamInv
<1> DEFINE S == {e \in stored : e > last /\ e > trimmed}
           new == Least(S, ReadBatch)
<1>1. /\ pc[w] = "read" /\ new # << >>
      /\ last' = new[Len(new)] /\ pel' = pel \cup In(new)
      /\ \/ batch' = [batch EXCEPT ![w] = new] /\ pc' = [pc EXCEPT ![w] = "reading"]
         \/ batch' = batch /\ pc' = [pc EXCEPT ![w] = "backoff"]
  BY DEF ReadGroup
<1>2. /\ published' = published /\ stored' = stored /\ trimmed' = trimmed
      /\ first' = first /\ idle' = idle /\ cursor' = cursor
      /\ casts' = casts /\ claimed' = claimed /\ dropped' = dropped /\ due' = due
  BY DEF ReadGroup, history
<1>3. S \subseteq Nat /\ S \subseteq Entries /\ S \subseteq stored /\ IsFiniteSet(S)
  <2>1. stored \subseteq Entries /\ stored \subseteq Nat /\ IsFiniteSet(stored)
    BY EntryFacts, EntriesNat
  <2>2. S \in SUBSET stored
    OBVIOUS
  <2>3. IsFiniteSet(S)
    BY <2>1, <2>2, FS_Subset, Zenon
  <2> QED BY <2>1, <2>2, <2>3
<1>4. \A e \in S : e > last /\ e > trimmed
  OBVIOUS
<1>5. \A e \in stored : e <= last \/ e <= trimmed \/ e \in S
  <2>1. last \in Int /\ trimmed \in Nat /\ \A e \in stored : e \in Nat
    BY EntryFacts
  <2> QED BY <2>1
<1> HIDE DEF S
<1>6. PageOf(S, ReadBatch, new)
  <2>1. ReadBatch \in Nat
    BY StreamsAssumption
  <2> QED BY <1>3, <2>1, LeastLemma, Zenon
<1> HIDE DEF new
<1>7. /\ new \in Seq(S) /\ new \in Seq(Entries) /\ Rising(new)
      /\ In(new) \subseteq S /\ last' \in In(new)
      /\ \A e \in In(new) : e <= last'
      /\ \A e \in S : e <= last' => e \in In(new)
  <2>1. new \in Seq(S) /\ Rising(new)
    BY <1>6 DEF PageOf
  <2>2. new \in Seq(Entries)
    BY <2>1, <1>3, SeqMonotonic, Zenon
  <2>3. /\ In(new) \subseteq S
        /\ \A e \in In(new) : \E i \in 1..Len(new) : e = new[i]
        /\ \A i \in 1..Len(new) : new[i] \in In(new)
    BY <2>1, InLemma, Zenon
  <2>4. Len(new) \in Nat /\ Len(new) # 0
    BY <1>1, <2>1, LenProperties, EmptySeq
  <2>5. Len(new) \in 1..Len(new)
    BY <2>4
  <2>6. last' \in In(new) /\ last' \in Nat
    BY <1>1, <1>3, <2>3, <2>5
  <2>7. ASSUME NEW e \in In(new) PROVE e <= last'
    <3>1. PICK i \in 1..Len(new) : e = new[i]
      BY <2>3
    <3>2. CASE i = Len(new)
      BY <3>1, <3>2, <1>1, <2>6
    <3>3. CASE i < Len(new)
      <4>1. new[i] < new[Len(new)]
        BY <3>3, <2>1, <2>5, Zenon DEF Rising
      <4>2. e \in Nat
        BY <1>3, <2>3
      <4> QED BY <3>1, <4>1, <4>2, <1>1, <2>6
    <3> QED BY <2>4, <3>2, <3>3
  <2>8. \A e \in S : e <= last' => e \in In(new)
    BY <1>1, <1>6, <2>5 DEF PageOf
  <2> QED BY <2>1, <2>2, <2>3, <2>6, <2>7, <2>8
<1>8. last \in Int /\ last' \in Nat /\ last < last' /\ last' \in stored
  <2>1. last' \in stored /\ last' \in Nat /\ last' > last
    BY <1>3, <1>4, <1>7
  <2>2. last \in Int
    BY EntryFacts
  <2> QED BY <2>1, <2>2
<1>9. /\ \A e \in Entries : e <= last => e <= last'
      /\ \A e \in Entries : e > last' => e > last
      /\ \A e \in Entries : e \in In(new) => ~(e <= last)
  <2>1. \A e \in Entries : e \in Nat
    BY EntriesNat
  <2>2. \A e \in Entries : e \in In(new) => e > last
    BY <1>4, <1>7
  <2> QED BY <1>8, <2>1, <2>2
<1>10. PICK p \in {"reading", "backoff"} :
         /\ \A v \in Workers : pc'[v] = IF v = w THEN p ELSE pc[v]
         /\ \A v \in Workers : batch'[v] = IF v = w THEN (IF p = "reading" THEN new ELSE << >>)
                                           ELSE batch[v]
         /\ pc' = [pc EXCEPT ![w] = p]
         /\ batch' \in [Workers -> Seq(Entries)]
  <2>1. batch[w] = << >>
    BY <1>1 DEF Batches
  <2>2. CASE batch' = [batch EXCEPT ![w] = new] /\ pc' = [pc EXCEPT ![w] = "reading"]
    BY <2>2, <1>7 DEF StreamTypeOK
  <2>3. CASE batch' = batch /\ pc' = [pc EXCEPT ![w] = "backoff"]
    BY <2>1, <2>3 DEF StreamTypeOK
  <2> QED BY <1>1, <2>2, <2>3
<1>11. \A v \in Workers : \A e \in In(batch'[v]) : e \in Entries /\ (e \in In(batch[v]) \/ (v = w /\ p = "reading" /\ e \in In(new)))
  <2>1. \A v \in Workers : In(batch[v]) \subseteq Entries
    BY BatchFacts
  <2> QED BY <2>1, <1>3, <1>7, <1>10, EmptyBatch
<1>12. StreamTypeOK'
  <2>1. pc' \in [Workers -> Places]
    BY <1>10 DEF StreamTypeOK, Places, Reading
  <2>2. pel' \subseteq {e \in stored' : e <= last'} /\ idle' \subseteq pel'
    <3>1. \A e \in pel : e \in stored /\ e \in Entries /\ e <= last
      BY EntryFacts
    <3>2. \A e \in In(new) : e \in stored /\ e <= last'
      BY <1>3, <1>7
    <3>3. idle \subseteq pel
      BY EntryFacts
    <3> QED BY <1>1, <1>2, <1>9, <3>1, <3>2, <3>3
  <2> QED BY <1>2, <1>8, <1>10, <2>1, <2>2 DEF StreamTypeOK
<1>13. Batches'
  <2>1. \A v \in Workers : Rising(batch'[v])
    BY <1>7, <1>10, EmptyBatch DEF Batches
  <2>2. ASSUME NEW v \in Workers, NEW e \in In(batch'[v]) PROVE e <= last'
    <3>1. e \in Entries /\ (e \in In(batch[v]) \/ e \in In(new))
      BY <1>11
    <3> QED BY <3>1, <1>7, <1>9 DEF Batches
  <2> QED BY <1>10, <2>1, <2>2 DEF Batches, Acking
<1>14. AtLeastOnce'
  <2>1. ASSUME NEW e \in stored, first < e, e <= last', e \notin pel'
        PROVE  casts[e] > 0 \/ e <= trimmed \/ e \in dropped
    <3>1. e \notin pel /\ e \notin In(new)
      BY <2>1, <1>1
    <3>2. e \notin S
      BY <2>1, <3>1, <1>7
    <3>3. e <= last \/ e <= trimmed
      BY <3>2, <1>5
    <3> QED BY <2>1, <3>1, <3>3 DEF AtLeastOnce
  <2> QED BY <1>2, <2>1 DEF AtLeastOnce
<1>15. Dispatched'
  BY <1>2, <1>10 DEF Dispatched, Acking
<1>16. HeldOnce'
  <2>1. \A e \in Entries : e > last' => casts'[e] = 0
    BY <1>2, <1>9 DEF HeldOnce
  <2>2. \A e \in Entries : e \notin claimed' => casts'[e] <= 1
    BY <1>2 DEF HeldOnce
  <2>3. ASSUME NEW e \in Entries, e \notin claimed, NEW u \in Workers, e \in In(batch'[u])
        PROVE  /\ casts[e] = 1 => pc'[u] \in Acking /\ e = Head(batch'[u])
               /\ \A v \in Workers : e \in In(batch'[v]) => v = u
    <3>1. CASE e \in In(new)
      <4>1. e \in S /\ casts[e] = 0
        <5>1. e > last
          BY <3>1, <1>4, <1>7
        <5> QED BY <5>1, <3>1, <1>7 DEF HeldOnce
      <4>2. \A v \in Workers : e \notin In(batch[v])
        BY <3>1, <1>9 DEF Batches
      <4> QED BY <2>3, <4>1, <4>2, <1>11
    <3>2. CASE e \notin In(new)
      <4>1. \A v \in Workers : e \in In(batch'[v]) => e \in In(batch[v]) /\ v # w
        <5>1. In(batch[w]) = {}
          BY <1>1, EmptyBatch DEF Batches
        <5> QED BY <3>2, <5>1, <1>11
      <4>2. /\ casts[e] = 1 => pc[u] \in Acking /\ e = Head(batch[u])
            /\ \A v \in Workers : e \in In(batch[v]) => v = u
        BY <2>3, <4>1 DEF HeldOnce
      <4> QED BY <2>3, <4>1, <4>2, <1>10
    <3> QED BY <3>1, <3>2
  <2> QED BY <1>2, <2>1, <2>2, <2>3 DEF HeldOnce
<1>17. \A v \in Workers : \A e \in due[v] : e \in Entries /\ e <= last
  BY DEF ToReclaim, StreamTypeOK
<1>18. \A v \in Workers : due[v] \cap pel' = due[v] \cap pel
  BY <1>1, <1>9, <1>17
<1>19. ToReclaim'
  <2>1. \A v \in Workers : \A e \in due[v] : e <= last'
    BY <1>9, <1>17
  <2>2. \A v \in Workers : pc'[v] \in Reclaiming => pc[v] \in Reclaiming /\ batch'[v] = batch[v]
    BY <1>10 DEF Reclaiming
  <2> QED BY <1>2, <1>18, <2>1, <2>2 DEF ToReclaim
<1>20. ReclaimThorough'
  BY <1>1, <1>2, <1>10, <1>18 DEF ReclaimThorough
<1> QED BY <1>12, <1>13, <1>14, <1>15, <1>16, <1>19, <1>20

(* The page goes on where the last one ended: what is behind its end is    *)
(* left for the next, and what the stream has lost is cleared.             *)
LEMMA StreamAutoClaim ==
  ASSUME NEW w \in Workers PROVE StreamInv /\ AutoClaim(w) => StreamInv'
<1> SUFFICES ASSUME StreamInv, AutoClaim(w) PROVE StreamInv'
  OBVIOUS
<1> USE DEF StreamInv
<1> DEFINE seen == {e \in pel : e >= cursor[w]}
           S == {e \in seen \cap idle : e > trimmed}
           page == Least(S, ReadBatch)
           rest == {e \in seen : Len(page) = ReadBatch /\ e > page[Len(page)]}
           gone == {e \in (seen \cap idle) \ rest : e <= trimmed}
           next == IF rest = {} THEN None ELSE Min(rest)
<1>1. /\ published' = published /\ stored' = stored /\ trimmed' = trimmed
      /\ first' = first /\ last' = last /\ casts' = casts /\ dropped' = dropped
  BY DEF AutoClaim, redis
<1>2. /\ pc[w] = "claim" /\ cursor[w] # None
      /\ pel' = pel \ gone /\ idle' = idle \ (gone \cup In(page))
      /\ batch' = [batch EXCEPT ![w] = page]
      /\ cursor' = [cursor EXCEPT ![w] = next]
      /\ claimed' = claimed \cup In(page)
      /\ due' = [v \in Workers |-> IF v = w THEN due[v] ELSE due[v] \ In(page)]
      /\ pc' = [pc EXCEPT ![w] = "claimed"]
  BY DEF AutoClaim
<1>3. /\ pel \subseteq stored /\ pel \subseteq Entries /\ idle \subseteq pel
      /\ trimmed \in Nat /\ cursor[w] \in Nat
      /\ \A e \in pel : e \in Nat /\ e >= 1 /\ e <= last
  BY EntryFacts DEF StreamTypeOK
<1>4. S \subseteq Nat /\ S \subseteq pel /\ S \subseteq Entries /\ IsFiniteSet(S)
  <2>1. S \in SUBSET stored
    BY <1>3
  <2>2. IsFiniteSet(S)
    BY <2>1, EntryFacts, FS_Subset, Zenon
  <2> QED BY <2>2, <1>3
<1>5. PageOf(S, ReadBatch, page) /\ ReadBatch \in Nat \ {0}
  <2>1. ReadBatch \in Nat \ {0}
    BY StreamsAssumption
  <2> QED BY <1>4, <2>1, LeastLemma
<1>6. \A e \in idle : e >= cursor[w] => e \in seen /\ (e \in S \/ e <= trimmed)
  <2>1. \A e \in idle : e \in Nat /\ e \in pel
    BY <1>3
  <2> QED BY <1>3, <2>1
<1>7. seen \subseteq pel /\ rest \subseteq seen /\ gone \subseteq {e \in pel : e <= trimmed}
      /\ \A e \in gone : e \notin S
  <2>1. \A e \in S : ~(e <= trimmed)
    BY <1>3, <1>4
  <2> QED BY <2>1
<1> HIDE DEF S, page
<1>8. /\ page \in Seq(S) /\ page \in Seq(Entries) /\ Rising(page)
      /\ In(page) \subseteq S
  <2>1. page \in Seq(S) /\ Rising(page)
    BY <1>5, Zenon DEF PageOf
  <2>2. page \in Seq(Entries)
    BY <2>1, <1>4, SeqMonotonic, Zenon
  <2>3. In(page) \subseteq S
    BY <2>1, InLemma, Zenon
  <2> QED BY <2>1, <2>2, <2>3
<1>9. ASSUME NEW e \in S, e \notin In(page) PROVE e \in rest
  <2>1. Len(page) \in Nat /\ Len(page) <= ReadBatch
    BY <1>5, <1>8, LenProperties DEF PageOf
  <2>2. Len(page) = ReadBatch
    BY <1>5, <1>9, <2>1 DEF PageOf
  <2>3. Len(page) \in 1..Len(page)
    BY <2>1, <2>2, <1>5
  <2>4. ~(e <= page[Len(page)])
    BY <1>5, <1>9, <2>3 DEF PageOf
  <2>5. page[Len(page)] \in S
    BY <2>3, <1>8, ElementOfSeq, Zenon
  <2>6. e > page[Len(page)]
    <3>1. e \in Nat /\ page[Len(page)] \in Nat
      BY <2>5, <1>4
    <3> QED BY <2>4, <3>1
  <2>7. e \in seen
    BY <1>9 DEF S
  <2> HIDE DEF seen
  <2> QED BY <2>2, <2>6, <2>7
<1>10. ASSUME NEW e \in idle, e >= cursor[w], e \in pel'
       PROVE  e \in In(page) \/ e \in rest
  <2>1. CASE e \in S
    BY <2>1, <1>9
  <2>2. CASE e \notin S
    <3>1. e \in seen /\ e <= trimmed /\ e \notin gone
      BY <1>2, <1>6, <1>10, <2>2
    <3> QED BY <3>1
  <2> QED BY <2>1, <2>2
<1>11. next \in Nat /\ \A e \in rest : next # None /\ next <= e
  <2>1. rest \subseteq Nat /\ \A e \in rest : e >= 1
    BY <1>3, <1>7
  <2> HIDE DEF rest
  <2>2. CASE rest = {}
    BY <2>2 DEF None
  <2>3. CASE rest # {}
    <3>1. Min(rest) \in rest /\ \A e \in rest : Min(rest) <= e
      BY <2>1, <2>3, MinLemma, Zenon
    <3>2. next = Min(rest)
      BY <2>3
    <3>3. Min(rest) \in Nat /\ Min(rest) >= 1
      BY <2>1, <3>1
    <3> HIDE DEF next
    <3> QED BY <3>1, <3>2, <3>3 DEF None
  <2> QED BY <2>2, <2>3
<1> HIDE DEF seen, rest, gone, next
<1>12. rest \cap gone = {}
  BY DEF gone
<1>13. \A v \in Workers : /\ pc'[v] = IF v = w THEN "claimed" ELSE pc[v]
                          /\ batch'[v] = IF v = w THEN page ELSE batch[v]
                          /\ cursor'[v] = IF v = w THEN next ELSE cursor[v]
                          /\ due'[v] = IF v = w THEN due[v] ELSE due[v] \ In(page)
  BY <1>2 DEF StreamTypeOK
<1>14. StreamTypeOK'
  <2>1. pc' \in [Workers -> Places]
    BY <1>2 DEF StreamTypeOK, Places, Reclaiming
  <2>2. batch' \in [Workers -> Seq(Entries)] /\ cursor' \in [Workers -> Nat]
    BY <1>2, <1>8, <1>11 DEF StreamTypeOK
  <2>3. due' \in [Workers -> SUBSET Entries]
    BY <1>2 DEF StreamTypeOK
  <2>4. pel' \subseteq {e \in stored' : e <= last'} /\ idle' \subseteq pel'
    BY <1>1, <1>2 DEF StreamTypeOK
  <2> QED BY <1>1, <2>1, <2>2, <2>3, <2>4 DEF StreamTypeOK
<1>15. Batches'
  <2>1. \A v \in Workers : Rising(batch'[v])
    BY <1>8, <1>13 DEF Batches
  <2>2. \A e \in In(page) : e <= last
    BY <1>3, <1>4, <1>8
  <2>3. \A v \in Workers : \A e \in In(batch'[v]) : e <= last'
    BY <1>1, <1>13, <2>2 DEF Batches
  <2> QED BY <1>13, <2>1, <2>3 DEF Batches, Acking
<1>16. AtLeastOnce'
  <2>1. \A e \in stored : e \notin pel' => e \notin pel \/ e <= trimmed
    BY <1>2, <1>7
  <2> QED BY <1>1, <2>1 DEF AtLeastOnce
<1>17. Dispatched'
  BY <1>1, <1>13 DEF Dispatched, Acking
<1>18. HeldOnce'
  <2>1. \A e \in Entries : e > last' => casts'[e] = 0
    BY <1>1 DEF HeldOnce
  <2>2. ASSUME NEW e \in Entries, e \notin claimed'
        PROVE  /\ casts'[e] <= 1
               /\ \A u \in Workers : e \in In(batch'[u]) =>
                    /\ casts'[e] = 1 => pc'[u] \in Acking /\ e = Head(batch'[u])
                    /\ \A v \in Workers : e \in In(batch'[v]) => v = u
    <3>1. e \notin claimed /\ e \notin In(page)
      BY <2>2, <1>2
    <3>2. \A v \in Workers : e \in In(batch'[v]) => v # w /\ e \in In(batch[v])
      BY <3>1, <1>13
    <3>3. /\ casts[e] <= 1
          /\ \A u \in Workers : e \in In(batch[u]) =>
               /\ casts[e] = 1 => pc[u] \in Acking /\ e = Head(batch[u])
               /\ \A v \in Workers : e \in In(batch[v]) => v = u
      BY <3>1 DEF HeldOnce
    <3>4. \A v \in Workers : v # w => batch'[v] = batch[v] /\ pc'[v] = pc[v]
      BY <1>13
    <3> QED BY <3>2, <3>3, <3>4, <1>1
  <2> QED BY <2>1, <2>2 DEF HeldOnce
<1>19. ToReclaim'
  <2>1. \A v \in Workers : due'[v] \subseteq due[v]
    BY <1>13
  <2>2. ASSUME NEW v \in Workers, pc'[v] \in Reclaiming, NEW e \in due'[v] \cap pel'
        PROVE  e \in In(batch'[v]) \/ (e \in idle' /\ cursor'[v] # None /\ cursor'[v] <= e)
    <3>1. e \in due[v] \cap pel /\ e \notin gone
      BY <1>2, <2>1
    <3>2. CASE v = w
      <4>1. In(batch[w]) = {}
        BY <1>2, EmptyBatch DEF Batches
      <4>2. e \in idle /\ cursor[w] <= e
        BY <3>1, <3>2, <4>1, <1>2 DEF ToReclaim, Reclaiming
      <4>3. e \in In(page) \/ e \in rest
        <5>1. e \in Nat /\ cursor[w] \in Nat
          BY <3>1, <1>3
        <5>2. e >= cursor[w]
          BY <5>1, <4>2
        <5> QED BY <5>2, <4>2, <1>10
      <4>4. CASE e \in In(page)
        BY <3>2, <4>4, <1>13
      <4>5. CASE e \in rest /\ e \notin In(page)
        <5>1. e \in idle'
          BY <3>1, <4>2, <4>5, <1>2
        <5> QED BY <3>2, <4>5, <5>1, <1>11, <1>13
      <4> QED BY <4>3, <4>4, <4>5
    <3>3. CASE v # w
      <4>1. e \notin In(page) /\ pc[v] \in Reclaiming /\ cursor'[v] = cursor[v] /\ batch'[v] = batch[v]
        BY <2>2, <3>3, <1>13
      <4>2. e \in In(batch[v]) \/ (e \in idle /\ cursor[v] # None /\ cursor[v] <= e)
        BY <3>1, <4>1 DEF ToReclaim
      <4> QED BY <3>1, <4>1, <4>2, <1>2
    <3> QED BY <3>2, <3>3
  <2> QED BY <1>1, <2>1, <2>2 DEF ToReclaim
<1>20. ReclaimThorough'
  BY <1>2, <1>13 DEF ReclaimThorough
<1> QED BY <1>14, <1>15, <1>16, <1>17, <1>18, <1>19, <1>20

-----------------------------------------------------------------------------

LEMMA StreamStep == StreamInv /\ [Next]_vars => StreamInv'
<1> SUFFICES ASSUME StreamInv, [Next]_vars PROVE StreamInv'
  OBVIOUS
<1>1. CASE Publish
  BY <1>1, StreamPublish
<1>2. ASSUME NEW e \in Entries, GrowIdle(e) PROVE StreamInv'
  BY <1>2, StreamGrowIdle
<1>3. ASSUME NEW w \in Workers, Consumer(w) PROVE StreamInv'
  BY <1>3, StreamEnsureGroups, StreamAutoClaim, StreamPageDone, StreamReadGroup,
     StreamDispatch, StreamAck, StreamReconnect, Zenon DEF Consumer
<1>4. ASSUME NEW w \in Workers, DispatchRaises(w) PROVE StreamInv'
  BY <1>4, StreamDispatchRaises
<1>5. ASSUME NEW w \in Workers, RedisError(w) \/ Crash(w) PROVE StreamInv'
  BY <1>5, StreamLost
<1>6. CASE UNCHANGED vars
  <2>1. StreamTypeOK'
    BY <1>6 DEF StreamInv, StreamTypeOK, vars, redis, pending, history
  <2>2. Batches' /\ Dispatched' /\ AtLeastOnce' /\ HeldOnce'
    BY <1>6 DEF StreamInv, Batches, Dispatched, AtLeastOnce, HeldOnce, vars, redis, pending, history
  <2>3. ToReclaim' /\ ReclaimThorough'
    BY <1>6 DEF StreamInv, ToReclaim, ReclaimThorough, vars, redis, pending, history
  <2> QED BY <2>1, <2>2, <2>3 DEF StreamInv
<1> QED BY <1>1, <1>2, <1>3, <1>4, <1>5, <1>6 DEF Next

THEOREM StreamInvariant == Spec => []StreamInv
<1>1. Init => StreamInv
  BY StreamInit
<1>2. StreamInv /\ [Next]_vars => StreamInv'
  BY StreamStep
<1> QED BY <1>1, <1>2, PTL DEF Spec

(* What the group was delivered is broadcast before it is acknowledged,    *)
(* unless the stream trimmed it or a reclaim dropped it, however many      *)
(* workers read and die.                                                   *)
THEOREM AtLeastOnceHolds == Spec => []AtLeastOnce
<1>1. StreamInv => AtLeastOnce
  BY DEF StreamInv
<1> QED BY <1>1, StreamInvariant, PTL

(* Only an entry that was handed over is broadcast more than once.         *)
THEOREM OnceUnlessClaimedHolds == Spec => []OnceUnlessClaimed
<1>1. StreamInv => OnceUnlessClaimed
  <2> SUFFICES ASSUME StreamInv, NEW e \in stored, casts[e] > 1 PROVE e \in claimed
    BY DEF OnceUnlessClaimed
  <2>1. e \in Entries /\ casts[e] \in Nat
    <3>1. e \in Entries
      BY EntryFacts DEF StreamInv
    <3> QED BY <3>1 DEF StreamInv, StreamTypeOK
  <2>2. ~(casts[e] <= 1)
    BY <2>1
  <2> QED BY <2>1, <2>2 DEF StreamInv, HeldOnce
<1> QED BY <1>1, StreamInvariant, PTL

(* A reclaim that ran to its end leaves nothing pending of what was idle   *)
(* when it began, for every size of a page and number of workers.          *)
THEOREM ReclaimThoroughHolds == Spec => []ReclaimThorough
<1>1. StreamInv => ReclaimThorough
  BY DEF StreamInv
<1> QED BY <1>1, StreamInvariant, PTL
=============================================================================
