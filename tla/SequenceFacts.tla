---------------------------- MODULE SequenceFacts ----------------------------
(* Facts about sequences over any set; cited by name, they spare the provers *)
(* the records the sequences of the models hold. And induction over the      *)
(* natural numbers, for sets.                                                *)
EXTENDS Integers, Sequences, Functions, WellFoundedInduction, TLAPS

\* The empty sequence is a sequence over any set.
LEMMA EmptySeqType == ASSUME NEW S PROVE <<>> \in Seq(S) /\ Len(<<>>) = 0
OBVIOUS

\* The empty sequence has no elements.
LEMMA RangeOfEmpty == Range(<<>>) = {}
BY DEF Range

\* The elements of a sequence are those at its indices.
LEMMA RangeOfSeq ==
    ASSUME NEW S, NEW s \in Seq(S)
    PROVE  Range(s) = {s[n] : n \in 1 .. Len(s)}
BY DEF Range

\* Appending makes a sequence longer by one and leaves what is there.
LEMMA AppendType ==
    ASSUME NEW S, NEW s \in Seq(S), NEW e \in S
    PROVE  /\ Append(s, e) \in Seq(S)
           /\ Len(Append(s, e)) = Len(s) + 1
           /\ Len(s) \in Nat
           /\ \A n \in 1 .. Len(s) : Append(s, e)[n] = s[n]
           /\ Append(s, e)[Len(s) + 1] = e
OBVIOUS

\* Appending adds one element.
LEMMA RangeOfAppend ==
    ASSUME NEW S, NEW s \in Seq(S), NEW e \in S
    PROVE  Range(Append(s, e)) = Range(s) \cup {e}
<1>1. /\ Append(s, e) \in Seq(S)
      /\ Range(s) = {s[n] : n \in 1 .. Len(s)}
  BY AppendType, RangeOfSeq
<1>2. Range(Append(s, e)) = {Append(s, e)[n] : n \in 1 .. Len(Append(s, e))}
  BY <1>1, RangeOfSeq
<1>3. 1 .. Len(Append(s, e)) = (1 .. Len(s)) \cup {Len(s) + 1}
  BY AppendType
<1> QED BY <1>1, <1>2, <1>3, AppendType

\* A beginning of a sequence has its first elements.
LEMMA PrefixType ==
    ASSUME NEW S, NEW s \in Seq(S), NEW k \in 0 .. Len(s)
    PROVE  /\ SubSeq(s, 1, k) \in Seq(S)
           /\ Len(SubSeq(s, 1, k)) = k
           /\ \A n \in 1 .. k : SubSeq(s, 1, k)[n] = s[n]
OBVIOUS

\* Sequences are equal if they have equal length and elements.
LEMMA SeqEqual ==
    ASSUME NEW S, NEW s \in Seq(S), NEW t \in Seq(S), Len(s) = Len(t),
           \A n \in 1 .. Len(t) : s[n] = t[n]
    PROVE  s = t
OBVIOUS

\* A sequence that agrees with the first elements of another is its beginning.
LEMMA PrefixIsSubSeq ==
    ASSUME NEW S, NEW s \in Seq(S), NEW t \in Seq(S), Len(t) <= Len(s),
           \A n \in 1 .. Len(t) : t[n] = s[n]
    PROVE  t = SubSeq(s, 1, Len(t))
<1>1. Len(t) \in 0 .. Len(s)
  OBVIOUS
<1>2. /\ SubSeq(s, 1, Len(t)) \in Seq(S) /\ Len(SubSeq(s, 1, Len(t))) = Len(t)
      /\ \A n \in 1 .. Len(t) : SubSeq(s, 1, Len(t))[n] = t[n]
  BY <1>1, PrefixType
<1> QED BY <1>2, SeqEqual

\* What Append makes of a sequence begins with it.
LEMMA AppendIsExtension ==
    ASSUME NEW S, NEW s \in Seq(S), NEW e \in S
    PROVE  /\ Len(Append(s, e)) = Len(s) + 1
           /\ SubSeq(Append(s, e), 1, Len(s)) = s
<1>1. /\ Append(s, e) \in Seq(S) /\ Len(Append(s, e)) = Len(s) + 1
      /\ \A n \in 1 .. Len(s) : Append(s, e)[n] = s[n]
  BY AppendType
<1>2. Len(s) <= Len(Append(s, e))
  BY <1>1
<1> QED BY <1>1, <1>2, PrefixIsSubSeq

\* An end of a sequence has its last elements.
LEMMA SuffixType ==
    ASSUME NEW S, NEW s \in Seq(S), NEW i \in 1 .. Len(s) + 1
    PROVE  /\ SubSeq(s, i, Len(s)) \in Seq(S)
           /\ Len(SubSeq(s, i, Len(s))) = Len(s) - i + 1
           /\ \A n \in 1 .. Len(s) - i + 1 : SubSeq(s, i, Len(s))[n] = s[n + i - 1]
OBVIOUS

\* Appending leaves no sequence empty; the tail of a sequence is over the same set.
LEMMA AppendAndTail ==
    ASSUME NEW S, NEW s \in Seq(S), NEW e \in S
    PROVE  /\ Append(s, e) \in Seq(S) /\ Append(s, e) # <<>>
           /\ s # <<>> => Tail(s) \in Seq(S)
<1>1. Append(s, e) \in Seq(S) /\ Len(Append(s, e)) = Len(s) + 1 /\ Len(s) \in Nat
  BY AppendType
<1>2. Append(s, e) # <<>>
  BY <1>1, EmptySeqType
<1>3. s # <<>> => Tail(s) \in Seq(S)
  OBVIOUS
<1> QED BY <1>1, <1>2, <1>3

\* A sequence of two elements.
LEMMA PairParts ==
    ASSUME NEW S, NEW s \in Seq(S), Len(s) = 2
    PROVE  /\ s[Len(s) - 1] = s[1] /\ Head(s) = s[1]
           /\ s[1] \in S /\ Len(Tail(s)) = 1
OBVIOUS

-----------------------------------------------------------------------------
\* A number is below another.
Below == {p \in Nat \X Nat : p[1] < p[2]}

\* No number is above infinitely many others.
LEMMA BelowIsWellFounded == IsWellFoundedOn(Below, Nat)
<1>1. OpToRel(<, Nat) = Below
  BY DEF OpToRel, Below
<1> QED BY <1>1, NatLessThanWellFounded

\* A set with 0 and the successor of each of its numbers has all numbers.
LEMMA NatSetInduction ==
    ASSUME NEW S, 0 \in S, \A n \in Nat : n \in S => n + 1 \in S
    PROVE  \A n \in Nat : n \in S
<1> DEFINE T == Nat \ S
<1> SUFFICES ASSUME T # {} PROVE FALSE
  OBVIOUS
<1>1. T \subseteq Nat
  OBVIOUS
<1>2. PICK x \in T : \A y \in T : ~(<<y, x>> \in Below)
  <2> HIDE DEF T
  <2> QED BY <1>1, BelowIsWellFounded, WFMin
<1>3. x \in Nat /\ x \notin S /\ x # 0
  OBVIOUS
<1>4. x - 1 \in Nat
  BY <1>3
<1>5. <<x - 1, x>> \in Below
  BY <1>3, <1>4 DEF Below
<1>6. x - 1 \in S
  BY <1>2, <1>4, <1>5
<1> QED BY <1>3, <1>4, <1>6
=============================================================================
