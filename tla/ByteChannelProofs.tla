-------------------------- MODULE ByteChannelProofs --------------------------
(***************************************************************************)
(* Whatever implements the channel hands its bytes over in order, for any  *)
(* capacity and any number of bytes; and the facts about cutting sequences *)
(* in two that this and the implementations rest on.                       *)
(***************************************************************************)
EXTENDS ByteChannel, SequenceTheorems, TLAPS

Increasing(s) == \A m, n \in 1..Len(s) : m < n => s[m] < s[n]

AtMost(s, bound) == \A m \in 1..Len(s) : s[m] <= bound
-----------------------------------------------------------------------------
(* Sequences in two pieces                                                 *)

LEMMA Associative ==
  \A s, t, u \in Seq(Nat) : (s \o t) \o u = s \o (t \o u)
<1> SUFFICES ASSUME NEW s \in Seq(Nat), NEW t \in Seq(Nat), NEW u \in Seq(Nat)
             PROVE  (s \o t) \o u = s \o (t \o u)
  OBVIOUS
<1> DEFINE left == (s \o t) \o u  right == s \o (t \o u)
<1>1. s \o t \in Seq(Nat) /\ t \o u \in Seq(Nat)
  BY SMT
<1>2. left \in Seq(Nat) /\ right \in Seq(Nat)
  BY <1>1, SMT
<1>3. Len(s \o t) = Len(s) + Len(t) /\ Len(t \o u) = Len(t) + Len(u)
  BY SMT
<1>4. Len(left) = Len(right)
  BY <1>1, <1>3, SMT
<1>5. \A i \in 1..Len(left) : left[i] = right[i]
  BY <1>1, <1>3, SMT
<1> HIDE DEF left, right
<1>6. left = right
  BY <1>2, <1>4, <1>5, SeqEqual
<1> QED BY <1>6 DEF left, right

\* Concatenation under a name of its own, for steps that need its law only: where
\* it is visible the provers unfold it at every turn.
Join(s, t) == s \o t

LEMMA JoinAssociative ==
  \A s, t, u \in Seq(Nat) : Join(Join(s, t), u) = Join(s, Join(t, u))
  BY Associative DEF Join

\* The pieces can be had back.
LEMMA Halves ==
  ASSUME NEW s \in Seq(Nat), NEW t \in Seq(Nat)
  PROVE  /\ SubSeq(s \o t, 1, Len(s)) = s
         /\ SubSeq(s \o t, Len(s) + 1, Len(s \o t)) = t
<1>1. /\ s \o t \in Seq(Nat) /\ Len(s \o t) = Len(s) + Len(t)
      /\ Len(s) \in Nat /\ Len(t) \in Nat
  BY ConcatProperties, LenProperties
<1>2. SubSeq(s \o t, 1, Len(s)) = s
  <2>1. SubSeq(s \o t, 1, Len(s)) = SubSeq(s, 1, Len(s))
    BY <1>1, SubSeqOfConcat1, SMT
  <2> QED BY <2>1, SubSeqFull
<1>3. SubSeq(s \o t, Len(s) + 1, Len(s \o t)) = t
  <2>1. SubSeq(s \o t, Len(s) + 1, Len(s) + Len(t))
          = SubSeq(t, (Len(s) + 1) - Len(s), (Len(s) + Len(t)) - Len(s))
    BY <1>1, SubSeqOfConcat2, SMT
  <2>2. (Len(s) + 1) - Len(s) = 1 /\ (Len(s) + Len(t)) - Len(s) = Len(t)
    BY <1>1, SMT
  <2> QED BY <1>1, <2>1, <2>2, SubSeqFull
<1> QED BY <1>2, <1>3

\* A sequence can be cut anywhere.
LEMMA Cut ==
  ASSUME NEW s \in Seq(Nat), NEW n \in 0..Len(s)
  PROVE  /\ SubSeq(s, 1, n) \in Seq(Nat) /\ Len(SubSeq(s, 1, n)) = n
         /\ SubSeq(s, n + 1, Len(s)) \in Seq(Nat)
         /\ Len(SubSeq(s, n + 1, Len(s))) = Len(s) - n
         /\ SubSeq(s, 1, n) \o SubSeq(s, n + 1, Len(s)) = s
<1>1. Len(s) \in Nat /\ \A i \in 1..Len(s) : s[i] \in Nat
  BY LenProperties, ElementOfSeq
<1>2. SubSeq(s, 1, n) \in Seq(Nat) /\ Len(SubSeq(s, 1, n)) = n
  <2>1. \A i \in 1..n : s[i] \in Nat
    BY <1>1, SMT
  <2>2. /\ SubSeq(s, 1, n) \in Seq(Nat)
        /\ Len(SubSeq(s, 1, n)) = IF 1 <= n THEN n - 1 + 1 ELSE 0
    BY <2>1, SubSeqProperties, SMT
  <2> QED BY <1>1, <2>2, SMT
<1>3. /\ SubSeq(s, n + 1, Len(s)) \in Seq(Nat)
      /\ Len(SubSeq(s, n + 1, Len(s))) = Len(s) - n
  <2>1. (\A i \in (n + 1)..Len(s) : s[i] \in Nat) /\ n + 1 \in Int /\ Len(s) \in Int
    BY <1>1, SMT
  <2>2. /\ SubSeq(s, n + 1, Len(s)) \in Seq(Nat)
        /\ Len(SubSeq(s, n + 1, Len(s)))
             = IF n + 1 <= Len(s) THEN Len(s) - (n + 1) + 1 ELSE 0
    BY <2>1, SubSeqProperties
  <2> QED BY <1>1, <2>2, SMT
<1>4. SubSeq(s, 1, n) \o SubSeq(s, n + 1, Len(s)) = s
  <2>1. /\ 1 \in 1..(Len(s) + 1) /\ n \in (1 - 1)..Len(s)
        /\ Len(s) \in n..Len(s)
    BY <1>1, SMT
  <2>2. SubSeq(s, 1, n) \o SubSeq(s, n + 1, Len(s)) = SubSeq(s, 1, Len(s))
    BY <2>1, ConcatAdjacentSubSeq
  <2> QED BY <2>2, SubSeqFull
<1> QED BY <1>2, <1>3, <1>4
-----------------------------------------------------------------------------
(* Sequences that increase                                                 *)

\* Two sequences in a row increase if each does and the second is above the first.
LEMMA IncreasingConcat ==
  ASSUME NEW s \in Seq(Nat), NEW t \in Seq(Nat)
  PROVE  Increasing(s \o t) <=>
           /\ Increasing(s) /\ Increasing(t)
           /\ \A i \in 1..Len(s), j \in 1..Len(t) : s[i] < t[j]
<1>1. /\ s \o t \in Seq(Nat)
      /\ Len(s \o t) = Len(s) + Len(t)
      /\ \A i \in 1..(Len(s) + Len(t)) :
           (s \o t)[i] = IF i <= Len(s) THEN s[i] ELSE t[i - Len(s)]
      /\ Len(s) \in Nat /\ Len(t) \in Nat
  BY ConcatProperties, LenProperties
<1>2. /\ \A i \in 1..Len(s) : i \in 1..(Len(s) + Len(t)) /\ (s \o t)[i] = s[i]
      /\ \A j \in 1..Len(t) : /\ Len(s) + j \in 1..(Len(s) + Len(t))
                              /\ (s \o t)[Len(s) + j] = t[j]
  BY <1>1, SMT
<1>3. ASSUME Increasing(s \o t)
      PROVE  /\ Increasing(s) /\ Increasing(t)
             /\ \A i \in 1..Len(s), j \in 1..Len(t) : s[i] < t[j]
  <2>1. Increasing(s)
    BY <1>1, <1>2, <1>3, SMT DEF Increasing
  <2>2. Increasing(t)
    <3> SUFFICES ASSUME NEW m \in 1..Len(t), NEW n \in 1..Len(t), m < n
                 PROVE  t[m] < t[n]
      BY DEF Increasing
    <3>1. Len(s) + m < Len(s) + n
      BY <1>1, SMT
    <3>2. (s \o t)[Len(s) + m] < (s \o t)[Len(s) + n]
      BY <1>1, <1>2, <1>3, <3>1, Zenon DEF Increasing
    <3> QED BY <1>2, <3>2
  <2>3. ASSUME NEW i \in 1..Len(s), NEW j \in 1..Len(t)
        PROVE  s[i] < t[j]
    <3>1. i < Len(s) + j
      BY <1>1, SMT
    <3>2. (s \o t)[i] < (s \o t)[Len(s) + j]
      BY <1>1, <1>2, <1>3, <3>1, Zenon DEF Increasing
    <3> QED BY <1>2, <3>2
  <2> QED BY <2>1, <2>2, <2>3
<1>4. ASSUME Increasing(s), Increasing(t),
             \A i \in 1..Len(s), j \in 1..Len(t) : s[i] < t[j]
      PROVE  Increasing(s \o t)
  <2> SUFFICES ASSUME NEW m \in 1..(Len(s) + Len(t)), NEW n \in 1..(Len(s) + Len(t)), m < n
               PROVE  (s \o t)[m] < (s \o t)[n]
    BY <1>1 DEF Increasing
  <2>1. CASE n <= Len(s)
    BY <1>1, <1>4, <2>1, SMT DEF Increasing
  <2>2. CASE m <= Len(s) /\ ~(n <= Len(s))
    BY <1>1, <1>4, <2>2, SMT
  <2>3. CASE ~(m <= Len(s)) /\ ~(n <= Len(s))
    <3>1. /\ m - Len(s) \in 1..Len(t) /\ n - Len(s) \in 1..Len(t)
          /\ m - Len(s) < n - Len(s)
      BY <1>1, <2>3, SMT
    <3>2. t[m - Len(s)] < t[n - Len(s)]
      BY <1>4, <3>1 DEF Increasing
    <3> QED BY <1>1, <2>3, <3>2
  <2> QED BY <1>1, <2>1, <2>2, <2>3, SMT
<1> QED BY <1>3, <1>4

LEMMA AtMostConcat ==
  ASSUME NEW s \in Seq(Nat), NEW t \in Seq(Nat), NEW bound \in Int
  PROVE  AtMost(s \o t, bound) <=> AtMost(s, bound) /\ AtMost(t, bound)
<1>1. /\ Len(s \o t) = Len(s) + Len(t)
      /\ \A i \in 1..(Len(s) + Len(t)) :
           (s \o t)[i] = IF i <= Len(s) THEN s[i] ELSE t[i - Len(s)]
      /\ Len(s) \in Nat /\ Len(t) \in Nat
  BY ConcatProperties, LenProperties
<1>2. /\ \A i \in 1..Len(s) : i \in 1..(Len(s) + Len(t)) /\ (s \o t)[i] = s[i]
      /\ \A j \in 1..Len(t) : /\ Len(s) + j \in 1..(Len(s) + Len(t))
                              /\ (s \o t)[Len(s) + j] = t[j]
  BY <1>1, SMT
<1>3. ASSUME AtMost(s \o t, bound) PROVE AtMost(s, bound) /\ AtMost(t, bound)
  <2>1. \A i \in 1..(Len(s) + Len(t)) : (s \o t)[i] <= bound
    BY <1>1, <1>3 DEF AtMost
  <2>2. AtMost(s, bound)
    BY <1>2, <2>1 DEF AtMost
  <2>3. ASSUME NEW j \in 1..Len(t) PROVE t[j] <= bound
    <3>1. (s \o t)[Len(s) + j] <= bound
      BY <1>2, <2>1
    <3> QED BY <1>2, <3>1
  <2> QED BY <2>2, <2>3 DEF AtMost
<1>4. ASSUME AtMost(s, bound), AtMost(t, bound) PROVE AtMost(s \o t, bound)
  <2> SUFFICES ASSUME NEW i \in 1..(Len(s) + Len(t)) PROVE (s \o t)[i] <= bound
    BY <1>1 DEF AtMost
  <2>1. CASE i <= Len(s)
    BY <1>1, <1>4, <2>1, SMT DEF AtMost
  <2>2. CASE ~(i <= Len(s))
    <3>1. i - Len(s) \in 1..Len(t)
      BY <1>1, <2>2, SMT
    <3> QED BY <1>1, <1>4, <2>2, <3>1 DEF AtMost
  <2> QED BY <2>1, <2>2
<1> QED BY <1>3, <1>4

\* Bytes that are dropped on the way leave the others in order.
LEMMA DropMiddle ==
  ASSUME NEW s \in Seq(Nat), NEW t \in Seq(Nat), NEW u \in Seq(Nat),
         NEW bound \in Int,
         Increasing((s \o t) \o u), AtMost((s \o t) \o u, bound)
  PROVE  Increasing(s \o u) /\ AtMost(s \o u, bound)
<1>1. s \o t \in Seq(Nat) /\ t \o u \in Seq(Nat)
  BY ConcatProperties
<1>2. (s \o t) \o u = s \o (t \o u)
  BY Associative, Zenon
<1>3. Increasing(s \o t) /\ Increasing(u)
  BY <1>1, IncreasingConcat
<1>4. Increasing(s)
  BY <1>3, IncreasingConcat
<1>5. \A i \in 1..Len(s), k \in 1..Len(u) : s[i] < u[k]
  <2>1. \A i \in 1..Len(s), j \in 1..Len(t \o u) : s[i] < (t \o u)[j]
    BY <1>1, <1>2, IncreasingConcat
  <2>2. /\ Len(t \o u) = Len(t) + Len(u) /\ Len(t) \in Nat /\ Len(u) \in Nat
        /\ \A j \in 1..(Len(t) + Len(u)) :
             (t \o u)[j] = IF j <= Len(t) THEN t[j] ELSE u[j - Len(t)]
    BY ConcatProperties, LenProperties
  <2>3. ASSUME NEW i \in 1..Len(s), NEW k \in 1..Len(u)
        PROVE  s[i] < u[k]
    <3>1. Len(t) + k \in 1..Len(t \o u) /\ (t \o u)[Len(t) + k] = u[k]
      BY <2>2, SMT
    <3>2. s[i] < (t \o u)[Len(t) + k]
      BY <2>1, <3>1
    <3> QED BY <3>1, <3>2
  <2> QED BY <2>3
<1>6. AtMost(s, bound) /\ AtMost(u, bound)
  <2>1. AtMost(s \o t, bound) /\ AtMost(u, bound)
    BY <1>1, AtMostConcat
  <2> QED BY <2>1, AtMostConcat
<1> QED BY <1>3, <1>4, <1>5, <1>6, IncreasingConcat, AtMostConcat

\* A byte by itself.
LEMMA OneByte ==
  ASSUME NEW b \in Nat
  PROVE  <<b>> \in Seq(Nat) /\ Len(<<b>>) = 1 /\ <<b>>[1] = b
  BY SMT

\* A byte that comes last.
LEMMA AppendNewest ==
  ASSUME NEW s \in Seq(Nat), NEW bound \in Int, NEW b \in Nat, bound < b,
         Increasing(s), AtMost(s, bound)
  PROVE  Increasing(s \o <<b>>) /\ AtMost(s \o <<b>>, b)
<1>1. <<b>> \in Seq(Nat) /\ Len(<<b>>) = 1 /\ <<b>>[1] = b /\ b \in Int
  BY OneByte
<1>2. \A i \in 1..Len(s) : s[i] \in Int /\ s[i] < b /\ s[i] <= b
  <2> SUFFICES ASSUME NEW i \in 1..Len(s) PROVE s[i] \in Int /\ s[i] < b /\ s[i] <= b
    OBVIOUS
  <2>1. s[i] \in Int /\ s[i] <= bound
    <3>1. s[i] \in Nat
      BY ElementOfSeq
    <3> QED BY <3>1, SMT DEF AtMost
  <2> QED BY <1>1, <2>1, SMT
<1>3. Increasing(<<b>>) /\ AtMost(<<b>>, b) /\ AtMost(s, b)
  BY <1>1, <1>2, SMT DEF Increasing, AtMost
<1>4. \A i \in 1..Len(s), j \in 1..Len(<<b>>) : s[i] < <<b>>[j]
  <2> SUFFICES ASSUME NEW i \in 1..Len(s), NEW j \in 1..Len(<<b>>)
               PROVE  s[i] < <<b>>[j]
    OBVIOUS
  <2>1. j = 1
    BY <1>1, SMT
  <2> QED BY <1>1, <1>2, <2>1
<1> QED BY <1>1, <1>3, <1>4, IncreasingConcat, AtMostConcat
-----------------------------------------------------------------------------
(* The channel                                                             *)

ChannelTyped == /\ open \in BOOLEAN /\ arrived \in Nat
                /\ unread \in Seq(Nat) /\ delivered \in Seq(Nat)

\* The numbers increase, and none is above that of the last byte.
Ordered == /\ Increasing(delivered \o unread)
           /\ AtMost(delivered \o unread, arrived)

ChannelInv == ChannelTyped /\ Ordered

LEMMA ReceiveKeepsOrder ==
  ASSUME ChannelInv, Receive \/ Overrun
  PROVE  ChannelInv'
<1> DEFINE bytes == delivered \o unread
<1>1. /\ arrived \in Int /\ arrived' = arrived + 1 /\ arrived' \in Nat /\ arrived < arrived'
      /\ open' = open /\ delivered' = delivered
  BY SMT DEF ChannelInv, ChannelTyped, Receive, Overrun
<1>2. /\ delivered \in Seq(Nat) /\ unread \in Seq(Nat) /\ bytes \in Seq(Nat)
      /\ Increasing(bytes) /\ AtMost(bytes, arrived)
  BY ConcatProperties DEF ChannelInv, ChannelTyped, Ordered
<1>3. CASE Receive
  <2>1. unread' = unread \o <<arrived'>> /\ <<arrived'>> \in Seq(Nat)
    BY <1>1, <1>2, <1>3, AppendIsConcat, OneByte DEF Receive
  <2>2. delivered' \o unread' = bytes \o <<arrived'>>
    <3>1. (delivered \o unread) \o <<arrived'>> = delivered \o (unread \o <<arrived'>>)
      BY <1>2, <2>1, Associative
    <3> QED BY <1>1, <2>1, <3>1
  <2>3. unread' \in Seq(Nat)
    BY <1>2, <2>1, ConcatProperties
  <2> HIDE DEF bytes
  <2>4. Increasing(bytes \o <<arrived'>>) /\ AtMost(bytes \o <<arrived'>>, arrived')
    BY <1>1, <1>2, AppendNewest
  <2> QED BY <1>1, <1>2, <2>2, <2>3, <2>4
          DEF ChannelInv, ChannelTyped, Ordered, Increasing, AtMost
<1>4. CASE Overrun
  <2>1. unread' = unread
    BY <1>4 DEF Overrun
  <2> HIDE DEF bytes
  <2>2. \A m \in 1..Len(bytes) : bytes[m] <= arrived'
    <3> SUFFICES ASSUME NEW m \in 1..Len(bytes) PROVE bytes[m] <= arrived'
      OBVIOUS
    <3>1. bytes[m] \in Nat /\ bytes[m] <= arrived
      BY <1>2, ElementOfSeq DEF AtMost
    <3> QED BY <1>1, <3>1, SMT
  <2> QED BY <1>1, <1>2, <2>1, <2>2
          DEF bytes, ChannelInv, ChannelTyped, Ordered, Increasing, AtMost
<1> QED BY <1>3, <1>4

\* Reading moves the cut between what has been read and what has not.
LEMMA ReadKeepsOrder ==
  ASSUME ChannelInv, NEW n \in 1..Len(unread), Read(n)
  PROVE  ChannelInv'
<1> DEFINE taken == SubSeq(unread, 1, n)
           left  == SubSeq(unread, n + 1, Len(unread))
<1>1. delivered \in Seq(Nat) /\ unread \in Seq(Nat) /\ n \in 0..Len(unread)
  BY LenProperties, SMT DEF ChannelInv, ChannelTyped
<1>2. taken \in Seq(Nat) /\ left \in Seq(Nat) /\ taken \o left = unread
  BY <1>1, Cut
<1>3. delivered' = delivered \o taken /\ unread' = left /\ UNCHANGED <<open, arrived>>
  BY DEF Read
<1> HIDE DEF taken, left
<1>4. delivered' \in Seq(Nat) /\ unread' \in Seq(Nat)
  BY <1>1, <1>2, <1>3, ConcatProperties
<1>5. delivered' \o unread' = delivered \o unread
  <2>1. Join(Join(delivered, taken), left) = Join(delivered, Join(taken, left))
    BY <1>1, <1>2, JoinAssociative
  <2> QED BY <1>2, <1>3, <2>1 DEF Join
<1> QED BY <1>3, <1>4, <1>5 DEF ChannelInv, ChannelTyped, Ordered, Increasing, AtMost

\* Bytes that are lost leave a gap.
LEMMA LossKeepsOrder ==
  ASSUME ChannelInv, NEW s \in Seq(Nat), NEW t \in Seq(Nat), NEW u \in Seq(Nat),
         unread = (s \o t) \o u, unread' = s \o u,
         UNCHANGED <<open, arrived, delivered>>
  PROVE  ChannelInv'
<1>1. delivered \in Seq(Nat) /\ arrived \in Int
  BY DEF ChannelInv, ChannelTyped
<1>2. /\ s \o t \in Seq(Nat) /\ s \o u \in Seq(Nat) /\ delivered \o s \in Seq(Nat)
      /\ (delivered \o s) \o t \in Seq(Nat)
  BY <1>1, ConcatProperties
<1>3. delivered \o unread = ((delivered \o s) \o t) \o u
  <2> DEFINE st == Join(s, t)
  <2>1. st \in Seq(Nat)
    BY <1>2 DEF Join
  <2>2. Join(Join(delivered, s), t) = Join(delivered, st)
    BY <1>1, JoinAssociative
  <2> HIDE DEF st
  <2>3. Join(Join(delivered, st), u) = Join(delivered, Join(st, u))
    BY <1>1, <2>1, JoinAssociative
  <2>4. Join(delivered, Join(st, u)) = Join(Join(Join(delivered, s), t), u)
    BY <2>2, <2>3
  <2> QED BY <2>4 DEF Join, st
<1>4. delivered' \o unread' = (delivered \o s) \o u
  BY <1>1, Associative
<1>5. Increasing((delivered \o s) \o u) /\ AtMost((delivered \o s) \o u, arrived)
  BY <1>1, <1>2, <1>3, DropMiddle DEF ChannelInv, Ordered
<1> QED BY <1>2, <1>4, <1>5 DEF ChannelInv, ChannelTyped, Ordered, Increasing, AtMost

LEMMA ResetKeepsOrder ==
  ASSUME ChannelInv, NEW n \in 1..Len(unread), Reset(n)
  PROVE  ChannelInv'
<1> DEFINE gone == SubSeq(unread, 1, n)
           left == SubSeq(unread, n + 1, Len(unread))
<1>1. unread \in Seq(Nat) /\ n \in 0..Len(unread)
  BY LenProperties, SMT DEF ChannelInv, ChannelTyped
<1>2. gone \in Seq(Nat) /\ left \in Seq(Nat) /\ gone \o left = unread
  BY <1>1, Cut
<1>3. unread' = left /\ UNCHANGED <<open, arrived, delivered>>
  BY DEF Reset
<1> HIDE DEF gone, left
<1>4. <<>> \in Seq(Nat) /\ <<>> \o gone = gone /\ <<>> \o left = left
  BY <1>2, EmptySeq, ConcatEmptySeq
<1>5. unread = (<<>> \o gone) \o left /\ unread' = <<>> \o left
  BY <1>2, <1>3, <1>4
<1> QED BY <1>2, <1>3, <1>4, <1>5, LossKeepsOrder

LEMMA OverflowKeepsOrder ==
  ASSUME Capacity \in Nat, ChannelInv, Overflow
  PROVE  ChannelInv'
<1> DEFINE kept == SubSeq(unread, 1, Capacity)
           lost == SubSeq(unread, Capacity + 1, Capacity + 1)
           last == SubSeq(unread, Capacity + 2, Len(unread))
<1>1. /\ unread \in Seq(Nat) /\ Len(unread) \in Nat
      /\ Capacity \in 0..Len(unread) /\ Capacity + 1 \in 0..Len(unread)
  BY LenProperties, SMT DEF ChannelInv, ChannelTyped, Overflow
<1>2. kept \in Seq(Nat)
  BY <1>1, Cut
<1>3. /\ last \in Seq(Nat)
      /\ SubSeq(unread, 1, Capacity + 1) \o last = unread
  <2>1. (Capacity + 1) + 1 = Capacity + 2
    BY SMT
  <2>2. /\ SubSeq(unread, (Capacity + 1) + 1, Len(unread)) \in Seq(Nat)
        /\ SubSeq(unread, 1, Capacity + 1)
             \o SubSeq(unread, (Capacity + 1) + 1, Len(unread)) = unread
    BY <1>1, Cut
  <2> QED BY <2>1, <2>2
<1>4. lost \in Seq(Nat) /\ kept \o lost = SubSeq(unread, 1, Capacity + 1)
  <2>1. /\ 1 \in 1..(Len(unread) + 1) /\ Capacity \in (1 - 1)..Len(unread)
        /\ Capacity + 1 \in Capacity..Len(unread) /\ Capacity + 1 \in Int
    BY <1>1, SMT
  <2>2. kept \o lost = SubSeq(unread, 1, Capacity + 1)
    BY <1>1, <2>1, ConcatAdjacentSubSeq
  <2>3. \A i \in (Capacity + 1)..(Capacity + 1) : unread[i] \in Nat
    <3> SUFFICES ASSUME NEW i \in (Capacity + 1)..(Capacity + 1) PROVE unread[i] \in Nat
      OBVIOUS
    <3>1. i \in 1..Len(unread)
      BY <1>1, SMT
    <3> QED BY <1>1, <3>1, ElementOfSeq
  <2>4. lost \in Seq(Nat)
    BY <2>1, <2>3, SubSeqProperties
  <2> QED BY <2>2, <2>4
<1>5. unread' = kept \o last /\ UNCHANGED <<open, arrived, delivered>>
  BY DEF Overflow
<1> HIDE DEF kept, lost, last
<1> QED BY <1>2, <1>3, <1>4, <1>5, LossKeepsOrder

\* Bytes are read in the order in which they came in, none twice, however many
\* are lost on the way and however often the port is opened and closed.
THEOREM ChannelKeepsOrder ==
  ASSUME Capacity \in Nat
  PROVE  Spec => []InOrder
<1>1. Init => ChannelInv
  <2> SUFFICES ASSUME Init PROVE ChannelInv
    OBVIOUS
  <2>1. <<>> \in Seq(Nat) /\ <<>> \o <<>> = <<>> /\ Len(<<>>) = 0
    BY EmptySeq, ConcatEmptySeq
  <2>2. ChannelTyped
    <3>1. 0 \in Nat
      BY SMT
    <3> QED BY <2>1, <3>1 DEF Init, ChannelTyped
  <2>3. Ordered
    <3>1. Len(delivered \o unread) = 0
      BY <2>1 DEF Init
    <3> QED BY <3>1, SMT DEF Ordered, Increasing, AtMost
  <2> QED BY <2>2, <2>3 DEF ChannelInv
<1>2. ChannelInv /\ [Next]_vars => ChannelInv'
  <2> SUFFICES ASSUME ChannelInv, [Next]_vars PROVE ChannelInv'
    OBVIOUS
  <2>1. CASE Open \/ Close \/ UNCHANGED vars
    <3>1. open' \in BOOLEAN /\ UNCHANGED <<arrived, unread, delivered>>
      BY <2>1 DEF Open, Close, vars, ChannelInv, ChannelTyped
    <3> QED BY <3>1 DEF ChannelInv, ChannelTyped, Ordered, Increasing, AtMost
  <2> QED BY <2>1, ReceiveKeepsOrder, OverflowKeepsOrder, ReadKeepsOrder,
             ResetKeepsOrder DEF Next
<1>3. ChannelInv => InOrder
  BY DEF ChannelInv, Ordered, Increasing, InOrder
<1> QED BY <1>1, <1>2, <1>3, PTL DEF Spec
=============================================================================
