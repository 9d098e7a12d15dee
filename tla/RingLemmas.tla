---------------------------- MODULE RingLemmas -----------------------------
(***************************************************************************)
(* What putting a message into a ring and taking one from it do to its     *)
(* entries.                                                                *)
(***************************************************************************)
EXTENDS Rings, TLAPS, SequenceTheorems

(* rngBufPut adds the message it puts and nothing else. *)
LEMMA EntriesOfAppend ==
  ASSUME NEW S, NEW q \in Seq(S), NEW m \in S
  PROVE  Entries(Append(q, m)) = Entries(q) \cup {m}
<1> DEFINE r == Append(q, m)
<1>1. /\ Len(r) = Len(q) + 1
      /\ \A i \in 1 .. Len(q) : r[i] = q[i]
      /\ r[Len(q) + 1] = m
      /\ Len(q) \in Nat
  BY AppendProperties, LenProperties
<1>2. 1 .. Len(r) = (1 .. Len(q)) \cup {Len(q) + 1}
  BY <1>1
<1> HIDE DEF r
<1>3. Entries(r) = Entries(q) \cup {m}
  BY <1>1, <1>2 DEF Entries
<1> QED
  BY <1>3 DEF r

(* rngBufGet takes the message it returns and nothing else. *)
LEMMA EntriesOfTail ==
  ASSUME NEW S, NEW q \in Seq(S), q # << >>
  PROVE  Entries(q) = {Head(q)} \cup Entries(Tail(q))
<1> DEFINE t == Tail(q)
<1>1. /\ Len(t) = Len(q) - 1
      /\ \A i \in 1 .. Len(t) : t[i] = q[i + 1]
      /\ Len(q) \in Nat \ {0}
      /\ Head(q) = q[1]
  BY HeadTailProperties, LenProperties, EmptySeq
<1> HIDE DEF t
<1>2. Entries(q) \subseteq {Head(q)} \cup Entries(t)
  <2> SUFFICES ASSUME NEW i \in 1 .. Len(q), i # 1
               PROVE  q[i] \in Entries(t)
    BY <1>1 DEF Entries
  <2>1. i - 1 \in 1 .. Len(t) /\ t[i - 1] = q[i]
    BY <1>1
  <2> QED
    BY <2>1 DEF Entries
<1>3. {Head(q)} \cup Entries(t) \subseteq Entries(q)
  <2>1. \A i \in 1 .. Len(t) : i + 1 \in 1 .. Len(q)
    BY <1>1
  <2>2. Entries(t) \subseteq Entries(q)
    BY <1>1, <2>1 DEF Entries
  <2>3. Head(q) \in Entries(q)
    BY <1>1 DEF Entries
  <2> QED
    BY <2>2, <2>3
<1> QED
  BY <1>2, <1>3 DEF t

(* A ring of messages holds messages. *)
LEMMA EntriesType ==
  ASSUME NEW S, NEW q \in Seq(S)
  PROVE  Entries(q) \subseteq S
BY ElementOfSeq DEF Entries

(* Putting a message that is not in the ring makes no duplicate. *)
LEMMA DistinctAppend ==
  ASSUME NEW S, NEW q \in Seq(S), NEW m \in S,
         Distinct(q), m \notin Entries(q)
  PROVE  Distinct(Append(q, m))
<1> DEFINE r == Append(q, m)
<1>1. /\ Len(r) = Len(q) + 1
      /\ \A i \in 1 .. Len(q) : r[i] = q[i]
      /\ r[Len(q) + 1] = m
      /\ Len(q) \in Nat
  BY AppendProperties, LenProperties
<1> HIDE DEF r
<1>2. \A i \in 1 .. Len(q) : q[i] # m
  BY DEF Entries
<1>3. Distinct(r)
  <2> SUFFICES ASSUME NEW i \in 1 .. Len(r), NEW j \in 1 .. Len(r), r[i] = r[j]
               PROVE  i = j
    BY DEF Distinct
  <2>1. CASE i \in 1 .. Len(q) /\ j \in 1 .. Len(q)
    BY <1>1, <2>1 DEF Distinct
  <2>2. CASE i = Len(q) + 1 \/ j = Len(q) + 1
    BY <1>1, <1>2, <2>2
  <2> QED
    BY <1>1, <2>1, <2>2
<1> QED
  BY <1>3 DEF r

(* Taking one leaves no other copy of it behind. *)
LEMMA DistinctTail ==
  ASSUME NEW S, NEW q \in Seq(S), q # << >>, Distinct(q)
  PROVE  /\ Distinct(Tail(q))
         /\ Head(q) \notin Entries(Tail(q))
<1> DEFINE t == Tail(q)
<1>1. /\ Len(t) = Len(q) - 1
      /\ \A i \in 1 .. Len(t) : t[i] = q[i + 1]
      /\ Len(q) \in Nat \ {0}
      /\ Head(q) = q[1]
  BY HeadTailProperties, LenProperties, EmptySeq
<1> HIDE DEF t
<1>2. Distinct(t)
  BY <1>1 DEF Distinct
<1>3. Head(q) \notin Entries(t)
  <2> SUFFICES ASSUME NEW i \in 1 .. Len(t), t[i] = q[1]
               PROVE  FALSE
    BY <1>1 DEF Entries
  <2>1. i + 1 \in 1 .. Len(q) /\ 1 \in 1 .. Len(q) /\ q[i + 1] = q[1]
    BY <1>1
  <2> QED
    BY <2>1 DEF Distinct
<1> QED
  BY <1>2, <1>3 DEF t
(***************************************************************************)
(* Rings, a message on its way and a FIFO one behind the other.            *)
(***************************************************************************)

(* One message is a sequence of one. *)
LEMMA OneItem ==
  ASSUME NEW S, NEW x \in S
  PROVE  << x >> \in Seq(S) /\ Len(<< x >>) = 1 /\ << x >>[1] = x
OBVIOUS

(* What is put at the end of the last goes to the end of the whole. *)
LEMMA AppendToLast ==
  ASSUME NEW S, NEW a \in Seq(S), NEW b \in Seq(S), NEW x \in S
  PROVE  a \o Append(b, x) = Append(a \o b, x)
<1>1. << x >> \in Seq(S)
  BY OneItem
<1>2. a \o b \in Seq(S)
  BY ConcatProperties
<1>3. Append(b, x) = b \o << x >> /\ Append(a \o b, x) = (a \o b) \o << x >>
  BY <1>2, AppendIsConcat
<1> QED
  BY <1>1, <1>3, ConcatAssociative

(* The oldest of a sequence, put before the rest, gives the sequence. *)
LEMMA HeadThenTail ==
  ASSUME NEW S, NEW q \in Seq(S), q # << >>
  PROVE  << Head(q) >> \o Tail(q) = q
<1> DEFINE h == << Head(q) >>
           t == Tail(q)
<1>1. /\ Head(q) \in S
      /\ t \in Seq(S)
      /\ Len(t) = Len(q) - 1
      /\ \A i \in 1 .. Len(t) : t[i] = q[i + 1]
      /\ Len(q) \in Nat \ {0}
      /\ Head(q) = q[1]
  BY HeadTailProperties, EmptySeq
<1>2. h \in Seq(S) /\ Len(h) = 1 /\ h[1] = q[1]
  BY <1>1, OneItem
<1> HIDE DEF h, t
<1>3. /\ h \o t \in Seq(S)
      /\ Len(h \o t) = Len(q)
      /\ \A i \in 1 .. Len(q) : (h \o t)[i] = IF i <= 1 THEN h[i] ELSE t[i - 1]
  <2>1. /\ h \o t \in Seq(S)
        /\ Len(h \o t) = Len(h) + Len(t)
        /\ \A i \in 1 .. Len(h) + Len(t) :
             (h \o t)[i] = IF i <= Len(h) THEN h[i] ELSE t[i - Len(h)]
    BY <1>1, <1>2, ConcatProperties
  <2>2. Len(h) + Len(t) = Len(q)
    BY <1>1, <1>2
  <2> QED
    BY <1>2, <2>1, <2>2
<1>4. \A i \in 1 .. Len(q) : (h \o t)[i] = q[i]
  <2> SUFFICES ASSUME NEW i \in 1 .. Len(q)
               PROVE  (h \o t)[i] = q[i]
    OBVIOUS
  <2>1. CASE i = 1
    BY <1>2, <1>3, <2>1
  <2>2. CASE i # 1
    <3>1. i - 1 \in 1 .. Len(t) /\ ~(i <= 1)
      BY <1>1, <2>2
    <3>2. t[i - 1] = q[(i - 1) + 1] /\ (i - 1) + 1 = i
      BY <1>1, <3>1
    <3> QED
      BY <1>3, <3>1, <3>2
  <2> QED
    BY <2>1, <2>2
<1>5. h \o t = q
  BY <1>3, <1>4, SeqEqual
<1> QED
  BY <1>5 DEF h, t

(* The oldest of the first is the oldest of the whole. *)
LEMMA HeadOfFirst ==
  ASSUME NEW S, NEW a \in Seq(S), NEW b \in Seq(S), a # << >>
  PROVE  /\ a \o b # << >>
         /\ Head(a \o b) = Head(a)
         /\ Tail(a \o b) = Tail(a) \o b
<1> DEFINE q == a \o b
           t == Tail(a) \o b
<1>1. /\ Len(a) \in Nat \ {0} /\ Len(b) \in Nat
      /\ Head(a) = a[1]
      /\ Tail(a) \in Seq(S)
      /\ Len(Tail(a)) = Len(a) - 1
      /\ \A i \in 1 .. Len(Tail(a)) : Tail(a)[i] = a[i + 1]
  BY HeadTailProperties, EmptySeq, LenProperties
<1>2. /\ q \in Seq(S)
      /\ Len(q) = Len(a) + Len(b)
      /\ \A i \in 1 .. Len(a) + Len(b) :
           q[i] = IF i <= Len(a) THEN a[i] ELSE b[i - Len(a)]
  BY ConcatProperties
<1>3. /\ t \in Seq(S)
      /\ Len(t) = Len(Tail(a)) + Len(b)
      /\ \A i \in 1 .. Len(Tail(a)) + Len(b) :
           t[i] = IF i <= Len(Tail(a)) THEN Tail(a)[i] ELSE b[i - Len(Tail(a))]
  BY <1>1, ConcatProperties
<1> HIDE DEF q, t
<1>4. q # << >>
  BY <1>1, <1>2, EmptySeq
<1>5. /\ Head(q) = q[1]
      /\ Tail(q) \in Seq(S)
      /\ Len(Tail(q)) = Len(q) - 1
      /\ \A i \in 1 .. Len(Tail(q)) : Tail(q)[i] = q[i + 1]
  BY <1>2, <1>4, HeadTailProperties
<1>6. Head(q) = Head(a)
  <2>1. 1 \in 1 .. Len(a) + Len(b) /\ 1 <= Len(a)
    BY <1>1
  <2> QED
    BY <1>1, <1>2, <1>5, <2>1
<1>7. \A i \in 1 .. Len(Tail(q)) : Tail(q)[i] = t[i]
  <2> SUFFICES ASSUME NEW i \in 1 .. Len(Tail(q))
               PROVE  q[i + 1] = t[i]
    BY <1>5
  <2>1. i \in 1 .. Len(Tail(a)) + Len(b) /\ i + 1 \in 1 .. Len(a) + Len(b)
    BY <1>1, <1>2, <1>5
  <2>2. CASE i <= Len(Tail(a))
    <3>1. i \in 1 .. Len(Tail(a)) /\ i + 1 <= Len(a)
      BY <1>1, <2>1, <2>2
    <3> QED
      BY <1>1, <1>2, <1>3, <2>1, <3>1
  <2>3. CASE ~(i <= Len(Tail(a)))
    <3>1. ~(i + 1 <= Len(a)) /\ i + 1 - Len(a) = i - Len(Tail(a))
      BY <1>1, <2>1, <2>3
    <3> QED
      BY <1>2, <1>3, <2>1, <2>3, <3>1
  <2> QED
    BY <2>2, <2>3
<1>8. Tail(q) = t
  <2>1. Len(Tail(q)) = Len(t)
    BY <1>1, <1>2, <1>3, <1>5
  <2> QED
    BY <1>3, <1>5, <1>7, <2>1, SeqEqual
<1> QED
  BY <1>4, <1>6, <1>8 DEF q, t

(* A run of consecutive items is lost (LossyFifo's Lose). *)
RunLost(q, r) ==
  \E i \in 0 .. Len(q) : \E j \in i + 1 .. Len(q) + 1 :
    r = SubSeq(q, 1, i) \o SubSeq(q, j, Len(q))

(* Dropping what is in the middle loses a run of consecutive items. *)
LEMMA DropMiddle ==
  ASSUME NEW S, NEW a \in Seq(S), NEW b \in Seq(S), NEW c \in Seq(S)
  PROVE  RunLost((a \o b) \o c, a \o c)
<1> DEFINE q == (a \o b) \o c
           i == Len(a)
           j == Len(a) + Len(b) + 1
           n == Len(q)
<1>1. Len(a) \in Nat /\ Len(b) \in Nat /\ Len(c) \in Nat
  BY LenProperties
<1>2. /\ a \o b \in Seq(S)
      /\ Len(a \o b) = Len(a) + Len(b)
      /\ \A k \in 1 .. Len(a) + Len(b) :
           (a \o b)[k] = IF k <= Len(a) THEN a[k] ELSE b[k - Len(a)]
  BY ConcatProperties
<1>3. /\ q \in Seq(S)
      /\ n = Len(a \o b) + Len(c)
      /\ \A k \in 1 .. Len(a \o b) + Len(c) :
           q[k] = IF k <= Len(a \o b) THEN (a \o b)[k] ELSE c[k - Len(a \o b)]
  BY <1>2, ConcatProperties
<1>4. i \in 0 .. n /\ j \in i + 1 .. n + 1 /\ n \in Nat
  BY <1>1, <1>2, <1>3
<1> HIDE DEF q, n
<1>5. \A k \in 1 .. n : q[k] \in S
  BY <1>3, ElementOfSeq DEF n
<1>6. SubSeq(q, 1, i) = a
  <2>1. /\ SubSeq(q, 1, i) \in Seq(S)
        /\ Len(SubSeq(q, 1, i)) = Len(a)
        /\ \A k \in 1 .. Len(a) : SubSeq(q, 1, i)[k] = q[k]
    <3>1. \A k \in 1 .. i : q[k] \in S
      BY <1>1, <1>4, <1>5
    <3>2. /\ SubSeq(q, 1, i) \in Seq(S)
          /\ Len(SubSeq(q, 1, i)) = IF 1 <= i THEN i - 1 + 1 ELSE 0
          /\ \A k \in 1 .. i - 1 + 1 : SubSeq(q, 1, i)[k] = q[1 + k - 1]
      BY <1>1, <3>1, SubSeqProperties
    <3> QED
      BY <1>1, <3>2
  <2>2. \A k \in 1 .. Len(a) : q[k] = a[k]
    BY <1>1, <1>2, <1>3, SMTT(30)
  <2> QED
    BY <2>1, <2>2, SeqEqual
<1>7. SubSeq(q, j, n) = c
  <2>1. /\ SubSeq(q, j, n) \in Seq(S)
        /\ Len(SubSeq(q, j, n)) = Len(c)
        /\ \A k \in 1 .. Len(c) : SubSeq(q, j, n)[k] = q[j + k - 1]
    <3>1. \A k \in j .. n : q[k] \in S
      BY <1>1, <1>4, <1>5
    <3>2. /\ SubSeq(q, j, n) \in Seq(S)
          /\ Len(SubSeq(q, j, n)) = IF j <= n THEN n - j + 1 ELSE 0
          /\ \A k \in 1 .. n - j + 1 : SubSeq(q, j, n)[k] = q[j + k - 1]
      BY <1>1, <1>4, <3>1, SubSeqProperties
    <3> QED
      BY <1>1, <1>2, <1>3, <3>2
  <2>2. \A k \in 1 .. Len(c) : q[j + k - 1] = c[k]
    <3> SUFFICES ASSUME NEW k \in 1 .. Len(c)
                 PROVE  q[j + k - 1] = c[k]
      OBVIOUS
    <3>1. /\ j + k - 1 \in 1 .. Len(a \o b) + Len(c)
          /\ ~(j + k - 1 <= Len(a \o b))
          /\ j + k - 1 - Len(a \o b) = k
      BY <1>1, <1>2
    <3> QED
      BY <1>3, <3>1
  <2> QED
    BY <2>1, <2>2, SeqEqual
<1>8. a \o c = SubSeq(q, 1, i) \o SubSeq(q, j, n)
  BY <1>6, <1>7
<1> QED
  BY <1>4, <1>8 DEF q, n, RunLost
=============================================================================
