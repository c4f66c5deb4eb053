-------------------------------- MODULE Stacks --------------------------------
(***************************************************************************)
(* Sequences used as stacks: call stacks, tokens held, the owner's end of  *)
(* a deque.                                                                *)
(***************************************************************************)
EXTENDS Naturals, Sequences

Newest(s) == s[Len(s)]
Older(s)  == SubSeq(s, 1, Len(s) - 1)

(* Taking the newest element away leaves the others as they were.          *)
LEMMA OlderProperties ==
  ASSUME NEW S, NEW s \in Seq(S), s # <<>>
  PROVE  /\ Len(s) \in Nat \ {0} /\ Newest(s) \in S
         /\ Older(s) \in Seq(S) /\ Len(Older(s)) = Len(s) - 1
         /\ \A l \in 1 .. Len(s) - 1 : Older(s)[l] = s[l]
<1> DEFINE n == Len(s) - 1
<1>1. Len(s) \in Nat \ {0} /\ Newest(s) \in S
  BY DEF Newest
<1>2. n \in Nat /\ n <= Len(s)
  BY <1>1
<1>3. Older(s) = SubSeq(s, 1, n)
  BY DEF Older
<1> HIDE DEF n
<1>4. /\ SubSeq(s, 1, n) \in Seq(S) /\ Len(SubSeq(s, 1, n)) = n
      /\ \A l \in 1 .. n : SubSeq(s, 1, n)[l] = s[l]
  BY <1>2
<1>5. /\ Older(s) \in Seq(S) /\ Len(Older(s)) = n
      /\ \A l \in 1 .. n : Older(s)[l] = s[l]
  BY <1>3, <1>4
<1> QED  BY <1>1, <1>5 DEF n

(* A new element goes on top of the others.                                *)
LEMMA AppendOnTop ==
  ASSUME NEW S, NEW s \in Seq(S), NEW e \in S
  PROVE  /\ Append(s, e) \in Seq(S) /\ Append(s, e) # <<>>
         /\ Len(s) \in Nat /\ Len(Append(s, e)) = Len(s) + 1
         /\ Newest(Append(s, e)) = e /\ Append(s, e)[Len(s) + 1] = e
         /\ \A l \in 1 .. Len(s) : Append(s, e)[l] = s[l]
BY DEF Newest

(* Without its newest element a stack is what it was before.               *)
LEMMA OlderOfAppend ==
  ASSUME NEW S, NEW s \in Seq(S), NEW e \in S
  PROVE  Older(Append(s, e)) = s
<1> DEFINE r == Append(s, e)
<1>1. /\ r \in Seq(S) /\ r # <<>> /\ Len(s) \in Nat /\ Len(r) = Len(s) + 1
      /\ \A l \in 1 .. Len(s) : r[l] = s[l]
  BY AppendOnTop
<1> HIDE DEF r
<1>2. /\ Older(r) \in Seq(S) /\ Len(Older(r)) = Len(r) - 1
      /\ \A l \in 1 .. Len(r) - 1 : Older(r)[l] = r[l]
  BY <1>1, OlderProperties
<1>3. Older(r) = s
  BY <1>1, <1>2
<1> QED  BY <1>3 DEF r

(* A stack is its newest element on top of the others.                     *)
LEMMA NewestOnOlder ==
  ASSUME NEW S, NEW s \in Seq(S), s # <<>>
  PROVE  s = Append(Older(s), Newest(s))
<1> DEFINE r == Append(Older(s), Newest(s))
<1>1. /\ r \in Seq(S) /\ Len(r) = Len(s)
      /\ \A l \in 1 .. Len(s) - 1 : r[l] = s[l]
      /\ r[Len(s)] = s[Len(s)] /\ Len(s) \in Nat \ {0}
  BY AppendOnTop, OlderProperties DEF Newest
<1>2. \A l \in 1 .. Len(s) : r[l] = s[l]
  BY <1>1
<1> QED  BY <1>1, <1>2
===============================================================================
