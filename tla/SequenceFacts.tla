---------------------------- MODULE SequenceFacts ----------------------------
(***************************************************************************)
(* What the two ends of a queue do to its elements: the facts the proofs   *)
(* about sockets and queues have in common.                                *)
(***************************************************************************)
EXTENDS Integers, Sequences, Functions, TLAPS

(* Sending: the new element is last, the others keep their places. *)
LEMMA AppendElements ==
  ASSUME NEW S, NEW s \in Seq(S), NEW e \in S
  PROVE  /\ Append(s, e) \in Seq(S)
         /\ Len(Append(s, e)) = Len(s) + 1
         /\ \A k \in 1 .. Len(s) : Append(s, e)[k] = s[k]
         /\ Append(s, e)[Len(s) + 1] = e
  OBVIOUS

(* Receiving: the first element goes, the others move up by one. *)
LEMMA TailElements ==
  ASSUME NEW S, NEW s \in Seq(S), s # <<>>
  PROVE  /\ Len(s) \in Nat \ {0}
         /\ Head(s) = s[1]
         /\ Head(s) \in S
         /\ Tail(s) \in Seq(S)
         /\ Len(Tail(s)) = Len(s) - 1
         /\ \A k \in 1 .. Len(s) - 1 : Tail(s)[k] = s[k + 1]
  OBVIOUS

(* The elements of a queue that grew by one. *)
LEMMA AppendAddsOne ==
  ASSUME NEW S, NEW s \in Seq(S), NEW e \in S
  PROVE  {Append(s, e)[k] : k \in 1 .. Len(Append(s, e))} = {s[k] : k \in 1 .. Len(s)} \cup {e}
<1>1. Len(s) \in Nat
  OBVIOUS
<1>2. 1 .. Len(Append(s, e)) = (1 .. Len(s)) \cup {Len(s) + 1}
  BY <1>1, AppendElements
<1> QED  BY <1>2, AppendElements

(* The elements of a queue that lost its first. *)
LEMMA TailDropsHead ==
  ASSUME NEW S, NEW s \in Seq(S), s # <<>>
  PROVE  {s[k] : k \in 1 .. Len(s)} = {Tail(s)[k] : k \in 1 .. Len(Tail(s))} \cup {Head(s)}
<1>1. Len(s) \in Nat \ {0} /\ Len(Tail(s)) = Len(s) - 1 /\ Head(s) = s[1]
  BY TailElements
<1>2. ASSUME NEW k \in 1 .. Len(s) - 1 PROVE Tail(s)[k] = s[k + 1] /\ k + 1 \in 1 .. Len(s)
  BY TailElements, <1>1
<1>3. ASSUME NEW k \in 1 .. Len(s), k # 1 PROVE k - 1 \in 1 .. Len(s) - 1 /\ Tail(s)[k - 1] = s[k]
  <2>1. k - 1 \in 1 .. Len(s) - 1
    BY <1>1, <1>3
  <2>2. Tail(s)[k - 1] = s[(k - 1) + 1]
    BY <1>2, <2>1
  <2> QED  BY <2>1, <2>2
<1>4. 1 \in 1 .. Len(s)
  BY <1>1
<1> QED  BY <1>1, <1>2, <1>3, <1>4

(* The same in terms of Range. *)
LEMMA RangeAppend ==
  ASSUME NEW S, NEW s \in Seq(S), NEW e \in S
  PROVE  /\ Range(s) \subseteq S
         /\ Range(Append(s, e)) = Range(s) \cup {e}
<1>1. DOMAIN s = 1 .. Len(s) /\ DOMAIN Append(s, e) = 1 .. Len(Append(s, e))
  OBVIOUS
<1>2. \A k \in 1 .. Len(s) : s[k] \in S
  OBVIOUS
<1> QED  BY <1>1, <1>2, AppendAddsOne DEF Range

-----------------------------------------------------------------------------
(* Where something is in a queue, and that it is there once. *)

InSeq(q, x) == \E k \in 1 .. Len(q) : q[k] = x

OnceIn(q, x) == \A j, k \in 1 .. Len(q) : q[j] = x /\ q[k] = x => j = k

LEMMA InAppend ==
  ASSUME NEW S, NEW q \in Seq(S), NEW e \in S, NEW x
  PROVE  /\ InSeq(Append(q, e), x) <=> InSeq(q, x) \/ x = e
         /\ OnceIn(q, x) /\ ~ (x = e /\ InSeq(q, x)) => OnceIn(Append(q, e), x)
<1> DEFINE r == Append(q, e)
<1>1. /\ Len(q) \in Nat /\ Len(r) = Len(q) + 1
      /\ \A k \in 1 .. Len(q) : r[k] = q[k]
      /\ r[Len(q) + 1] = e
  BY AppendElements
<1> HIDE DEF r
<1>2. \A k \in 1 .. Len(r) : k \in 1 .. Len(q) \/ k = Len(q) + 1
  BY <1>1
<1>3. /\ Len(q) + 1 \in 1 .. Len(r)
      /\ \A k \in 1 .. Len(q) : k \in 1 .. Len(r)
  BY <1>1
<1>4. InSeq(r, x) <=> InSeq(q, x) \/ x = e
  BY <1>1, <1>2, <1>3 DEF InSeq
<1>5. ASSUME OnceIn(q, x), ~ (x = e /\ InSeq(q, x)) PROVE OnceIn(r, x)
  BY <1>1, <1>2, <1>5 DEF InSeq, OnceIn
<1> QED  BY <1>4, <1>5 DEF r

LEMMA InTail ==
  ASSUME NEW S, NEW q \in Seq(S), q # <<>>, NEW x, OnceIn(q, x)
  PROVE  /\ InSeq(q, Head(q))
         /\ InSeq(Tail(q), x) <=> InSeq(q, x) /\ x # Head(q)
         /\ OnceIn(Tail(q), x)
<1> DEFINE r == Tail(q)
<1>1. /\ Len(q) \in Nat \ {0} /\ Len(r) = Len(q) - 1 /\ Head(q) = q[1]
      /\ \A k \in 1 .. Len(q) - 1 : r[k] = q[k + 1]
  BY TailElements
<1> HIDE DEF r
<1>2. 1 \in 1 .. Len(q)
  BY <1>1
<1>3. ASSUME NEW k \in 1 .. Len(r)
      PROVE  k + 1 \in 1 .. Len(q) /\ r[k] = q[k + 1] /\ k + 1 # 1
  BY <1>1
<1>4. ASSUME NEW k \in 1 .. Len(q), k # 1
      PROVE  k - 1 \in 1 .. Len(r) /\ r[k - 1] = q[k]
  <2>1. k - 1 \in 1 .. Len(r)
    BY <1>1, <1>4
  <2>2. r[k - 1] = q[(k - 1) + 1]
    BY <2>1, <1>3
  <2> QED  BY <2>1, <2>2
<1>5. InSeq(q, Head(q))
  BY <1>1, <1>2 DEF InSeq
<1>6. ASSUME InSeq(r, x) PROVE InSeq(q, x) /\ x # Head(q)
  <2>1. PICK k \in 1 .. Len(r) : r[k] = x
    BY <1>6 DEF InSeq
  <2>2. k + 1 \in 1 .. Len(q) /\ q[k + 1] = x /\ k + 1 # 1
    BY <2>1, <1>3
  <2> QED  BY <2>2, <1>1, <1>2 DEF InSeq, OnceIn
<1>7. ASSUME InSeq(q, x), x # Head(q) PROVE InSeq(r, x)
  <2>1. PICK k \in 1 .. Len(q) : q[k] = x
    BY <1>7 DEF InSeq
  <2>2. k # 1
    BY <2>1, <1>7, <1>1
  <2> QED  BY <2>1, <2>2, <1>4 DEF InSeq
<1>8. OnceIn(r, x)
  <2> SUFFICES ASSUME NEW j \in 1 .. Len(r), NEW k \in 1 .. Len(r), r[j] = x, r[k] = x PROVE j = k
    BY DEF OnceIn
  <2>1. j + 1 = k + 1
    BY <1>3 DEF OnceIn
  <2> QED  BY <2>1, <1>1
<1> QED  BY <1>5, <1>6, <1>7, <1>8 DEF r

(* The same for a queue of sets. *)

InSets(q, x) == \E k \in 1 .. Len(q) : x \in q[k]

OnceInSets(q, x) == \A j, k \in 1 .. Len(q) : x \in q[j] /\ x \in q[k] => j = k

LEMMA InSetsAppend ==
  ASSUME NEW S, NEW q \in Seq(S), NEW e \in S, NEW x
  PROVE  /\ InSets(Append(q, e), x) <=> InSets(q, x) \/ x \in e
         /\ OnceInSets(q, x) /\ ~ (x \in e /\ InSets(q, x)) => OnceInSets(Append(q, e), x)
<1> DEFINE r == Append(q, e)
<1>1. /\ Len(q) \in Nat /\ Len(r) = Len(q) + 1
      /\ \A k \in 1 .. Len(q) : r[k] = q[k]
      /\ r[Len(q) + 1] = e
  BY AppendElements
<1> HIDE DEF r
<1>2. \A k \in 1 .. Len(r) : k \in 1 .. Len(q) \/ k = Len(q) + 1
  BY <1>1
<1>3. /\ Len(q) + 1 \in 1 .. Len(r)
      /\ \A k \in 1 .. Len(q) : k \in 1 .. Len(r)
  BY <1>1
<1>4. InSets(r, x) <=> InSets(q, x) \/ x \in e
  BY <1>1, <1>2, <1>3 DEF InSets
<1>5. ASSUME OnceInSets(q, x), ~ (x \in e /\ InSets(q, x)) PROVE OnceInSets(r, x)
  BY <1>1, <1>2, <1>5 DEF InSets, OnceInSets
<1> QED  BY <1>4, <1>5 DEF r

LEMMA InSetsTail ==
  ASSUME NEW S, NEW q \in Seq(S), q # <<>>, NEW x, OnceInSets(q, x)
  PROVE  /\ x \in Head(q) => InSets(q, x)
         /\ InSets(Tail(q), x) <=> InSets(q, x) /\ x \notin Head(q)
         /\ OnceInSets(Tail(q), x)
<1> DEFINE r == Tail(q)
<1>1. /\ Len(q) \in Nat \ {0} /\ Len(r) = Len(q) - 1 /\ Head(q) = q[1]
      /\ \A k \in 1 .. Len(q) - 1 : r[k] = q[k + 1]
  BY TailElements
<1> HIDE DEF r
<1>2. 1 \in 1 .. Len(q)
  BY <1>1
<1>3. ASSUME NEW k \in 1 .. Len(r)
      PROVE  k + 1 \in 1 .. Len(q) /\ r[k] = q[k + 1] /\ k + 1 # 1
  BY <1>1
<1>4. ASSUME NEW k \in 1 .. Len(q), k # 1
      PROVE  k - 1 \in 1 .. Len(r) /\ r[k - 1] = q[k]
  <2>1. k - 1 \in 1 .. Len(r)
    BY <1>1, <1>4
  <2>2. r[k - 1] = q[(k - 1) + 1]
    BY <2>1, <1>3
  <2> QED  BY <2>1, <2>2
<1>5. x \in Head(q) => InSets(q, x)
  BY <1>1, <1>2 DEF InSets
<1>6. ASSUME InSets(r, x) PROVE InSets(q, x) /\ x \notin Head(q)
  <2>1. PICK k \in 1 .. Len(r) : x \in r[k]
    BY <1>6 DEF InSets
  <2>2. k + 1 \in 1 .. Len(q) /\ x \in q[k + 1] /\ k + 1 # 1
    BY <2>1, <1>3
  <2> QED  BY <2>2, <1>1, <1>2 DEF InSets, OnceInSets
<1>7. ASSUME InSets(q, x), x \notin Head(q) PROVE InSets(r, x)
  <2>1. PICK k \in 1 .. Len(q) : x \in q[k]
    BY <1>7 DEF InSets
  <2>2. k # 1
    BY <2>1, <1>7, <1>1
  <2> QED  BY <2>1, <2>2, <1>4 DEF InSets
<1>8. OnceInSets(r, x)
  <2> SUFFICES ASSUME NEW j \in 1 .. Len(r), NEW k \in 1 .. Len(r), x \in r[j], x \in r[k] PROVE j = k
    BY DEF OnceInSets
  <2>1. j + 1 = k + 1
    BY <1>3 DEF OnceInSets
  <2> QED  BY <2>1, <1>1
<1> QED  BY <1>5, <1>6, <1>7, <1>8 DEF r

(* A queue of sets cut off after its first n. *)
LEMMA InSetsPrefix ==
  ASSUME NEW S, NEW q \in Seq(S), NEW n \in 0 .. Len(q), NEW x, OnceInSets(q, x)
  PROVE  /\ SubSeq(q, 1, n) \in Seq(S)
         /\ InSets(SubSeq(q, 1, n), x) <=> InSets(q, x) /\ \A k \in n + 1 .. Len(q) : x \notin q[k]
         /\ OnceInSets(SubSeq(q, 1, n), x)
<1> DEFINE r == SubSeq(q, 1, n)
<1>1. Len(q) \in Nat /\ n \in Nat /\ n <= Len(q)
  OBVIOUS
<1>2. r \in Seq(S) /\ Len(r) = n /\ \A k \in 1 .. n : r[k] = q[k]
  BY <1>1
<1> HIDE DEF r
<1>3. \A k \in 1 .. Len(q) : k \in 1 .. n \/ k \in n + 1 .. Len(q)
  BY <1>1
<1>4. \A k \in 1 .. n : k \in 1 .. Len(q) /\ k \notin n + 1 .. Len(q)
  BY <1>1
<1>5. \A k \in n + 1 .. Len(q) : k \in 1 .. Len(q)
  BY <1>1
<1>6. InSets(r, x) <=> InSets(q, x) /\ \A k \in n + 1 .. Len(q) : x \notin q[k]
  BY <1>2, <1>3, <1>4, <1>5 DEF InSets, OnceInSets
<1>7. OnceInSets(r, x)
  BY <1>2, <1>4 DEF OnceInSets
<1> QED  BY <1>2, <1>6, <1>7 DEF r

=============================================================================
