----------------------------- MODULE ListLemmas ------------------------------
(***************************************************************************)
(* Lemmas on the lists of sections that the models of threads keep in      *)
(* todo: what a few sections put in front of a list are, and which lists   *)
(* are some sections of one set in front of a given list.                  *)
(***************************************************************************)
EXTENDS Integers, SequencesExt, SequenceTheorems, TLAPS

(***************************************************************************)
(* A sequence is its head in front of its tail.                            *)
(***************************************************************************)
LEMMA HeadThenTail == ASSUME NEW S, NEW r \in Seq(S), r # <<>> PROVE <<Head(r)>> \o Tail(r) = r
<1>1. r = SubSeq(r, 1, Len(r)) /\ 1 \in 1..Len(r) /\ Len(r) \in 1..Len(r) /\ Head(r) = r[1]
  BY SubSeqFull, EmptySeq
<1>2. SubSeq(r, 1, Len(r)) = <<r[1]>> \o SubSeq(r, 2, Len(r))
  BY <1>1, SubSeqRecursiveFirst
<1> QED
  BY <1>1, <1>2, TailIsSubSeq

(***************************************************************************)
(* So sections put in front of others give the list one expects.           *)
(***************************************************************************)
LEMMA Joined2 == ASSUME NEW a, NEW b PROVE <<a>> \o <<b>> = <<a, b>>
<1> DEFINE r == <<a, b>>
           S == {a, b}
<1>1. r \in Seq(S) /\ r # <<>> /\ Head(r) = a /\ Tail(r) = <<b>>
  OBVIOUS
<1> HIDE DEF r, S
<1>2. <<a>> \o <<b>> = r
  BY <1>1, HeadThenTail
<1> QED
  BY <1>2 DEF r

(***************************************************************************)
(* The same for a list of three,                                           *)
(***************************************************************************)
LEMMA Joined3 == ASSUME NEW a, NEW b, NEW c PROVE <<a>> \o <<b, c>> = <<a, b, c>>
<1> DEFINE r == <<a, b, c>>
           S == {a, b, c}
<1>1. r \in Seq(S) /\ r # <<>> /\ Head(r) = a /\ Tail(r) = <<b, c>>
  OBVIOUS
<1> HIDE DEF r, S
<1>2. <<a>> \o <<b, c>> = r
  BY <1>1, HeadThenTail
<1> QED
  BY <1>2 DEF r

(***************************************************************************)
(* of four,                                                                *)
(***************************************************************************)
LEMMA Joined4 == ASSUME NEW a, NEW b, NEW c, NEW d PROVE <<a>> \o <<b, c, d>> = <<a, b, c, d>>
<1> DEFINE r == <<a, b, c, d>>
           S == {a, b, c, d}
<1>1. r \in Seq(S) /\ r # <<>> /\ Head(r) = a /\ Tail(r) = <<b, c, d>>
  OBVIOUS
<1> HIDE DEF r, S
<1>2. <<a>> \o <<b, c, d>> = r
  BY <1>1, HeadThenTail
<1> QED
  BY <1>2 DEF r

(***************************************************************************)
(* The lists that are sections of S in front of the list r.                *)
(***************************************************************************)
After(S, r) == {m \o r : m \in Seq(S)}

(***************************************************************************)
(* Such a list is a list, and ends as r does.                              *)
(***************************************************************************)
LEMMA AfterIsList ==
  ASSUME NEW S, NEW T, NEW r \in Seq(T), NEW q \in After(S, r)
  PROVE  /\ q \in Seq(S \cup T)
         /\ r # <<>> => q # <<>> /\ Last(q) = Last(r)
<1>1. PICK m \in Seq(S) : q = m \o r
  BY DEF After
<1>2. m \in Seq(S \cup T) /\ r \in Seq(S \cup T)
  BY SeqMonotonic
<1>3. /\ q \in Seq(S \cup T) /\ Len(q) = Len(m) + Len(r)
      /\ \A i \in 1..(Len(m) + Len(r)) : q[i] = IF i <= Len(m) THEN m[i] ELSE r[i - Len(m)]
  BY <1>1, <1>2, ConcatProperties
<1>4. Len(m) \in Nat /\ Len(r) \in Nat /\ Len(<<>>) = 0
  BY LenProperties
<1>5. r # <<>> => Len(r) > 0
  BY <1>2, <1>4, EmptySeq
<1> QED
  BY <1>3, <1>4, <1>5 DEF Last

(***************************************************************************)
(* The list r is one of them,                                              *)
(***************************************************************************)
LEMMA AfterNothing ==
  ASSUME NEW S, NEW T, NEW r \in Seq(T)
  PROVE  r \in After(S, r)
<1>1. <<>> \o r = r /\ <<>> \in Seq(S)
  BY ConcatEmptySeq, EmptySeq
<1> QED
  BY <1>1 DEF After

(***************************************************************************)
(* sections of S put in front of one give another,                         *)
(***************************************************************************)
LEMMA AfterMore ==
  ASSUME NEW S, NEW T, NEW r \in Seq(T), NEW q \in After(S, r), NEW m \in Seq(S)
  PROVE  m \o q \in After(S, r)
<1>1. PICK p \in Seq(S) : q = p \o r
  BY DEF After
<1>2. p \in Seq(S \cup T) /\ r \in Seq(S \cup T) /\ m \in Seq(S \cup T)
  BY SeqMonotonic
<1>3. m \o (p \o r) = (m \o p) \o r
  BY <1>2, ConcatAssociative
<1>4. m \o p \in Seq(S)
  BY ConcatProperties
<1> QED
  BY <1>1, <1>3, <1>4 DEF After

(***************************************************************************)
(* and one that is not r begins with a section of S, without which it is   *)
(* still one of them.                                                      *)
(***************************************************************************)
LEMMA AfterTail ==
  ASSUME NEW S, NEW T, NEW r \in Seq(T), NEW q \in After(S, r), q # r
  PROVE  q # <<>> /\ Head(q) \in S /\ Tail(q) \in After(S, r)
<1>1. PICK m \in Seq(S) : q = m \o r
  BY DEF After
<1>2. m \in Seq(S \cup T) /\ r \in Seq(S \cup T)
  BY SeqMonotonic
<1>3. m # <<>>
  BY <1>1, ConcatEmptySeq
<1>4. /\ q \in Seq(S \cup T) /\ Len(q) = Len(m) + Len(r)
      /\ \A i \in 1..(Len(m) + Len(r)) : q[i] = IF i <= Len(m) THEN m[i] ELSE r[i - Len(m)]
  BY <1>1, <1>2, ConcatProperties
<1>5. /\ Head(m) \in S /\ Tail(m) \in Seq(S) /\ Len(Tail(m)) = Len(m) - 1
      /\ \A i \in 1..Len(Tail(m)) : Tail(m)[i] = m[i + 1]
  BY <1>3, HeadTailProperties
<1>6. Len(m) \in Nat \ {0} /\ Len(r) \in Nat /\ Len(<<>>) = 0
  BY <1>3, LenProperties, EmptySeq
<1>7. q # <<>>
  BY <1>4, <1>6
<1>8. Head(q) = Head(m)
  BY <1>4, <1>6
<1>9. /\ Tail(q) \in Seq(S \cup T) /\ Len(Tail(q)) = Len(q) - 1
      /\ \A i \in 1..Len(Tail(q)) : Tail(q)[i] = q[i + 1]
  BY <1>4, <1>7, HeadTailProperties
<1>10. Tail(m) \in Seq(S \cup T)
  BY <1>5, SeqMonotonic
<1>11. /\ Tail(m) \o r \in Seq(S \cup T) /\ Len(Tail(m) \o r) = Len(Tail(m)) + Len(r)
       /\ \A i \in 1..(Len(Tail(m)) + Len(r)) :
             (Tail(m) \o r)[i] = IF i <= Len(Tail(m)) THEN Tail(m)[i] ELSE r[i - Len(Tail(m))]
  BY <1>2, <1>10, ConcatProperties
<1>12. Len(Tail(q)) = Len(Tail(m) \o r)
  BY <1>4, <1>5, <1>6, <1>9, <1>11
<1>13. \A i \in 1..Len(Tail(q)) : Tail(q)[i] = (Tail(m) \o r)[i]
  BY <1>4, <1>5, <1>6, <1>9, <1>11
<1>14. Tail(q) = Tail(m) \o r
  BY <1>9, <1>11, <1>12, <1>13, SeqEqual
<1> QED
  BY <1>5, <1>7, <1>8, <1>14 DEF After

(***************************************************************************)
(* A list that is written out is one of them, with nothing in front or     *)
(* with its first section.                                                 *)
(***************************************************************************)
LEMMA ListAfter ==
  ASSUME NEW S, NEW r
  PROVE  /\ \A a, b : r = <<a, b>> => r \in After(S, r)
         /\ \A a : r = <<a>> => r \in After(S, r)
         /\ \A a, b, c : r = <<a, b, c>> => r \in After(S, r)
         /\ \A a, b, c, d : r = <<a, b, c, d>> => r \in After(S, r)
         /\ \A a, b : a \in S /\ r = <<a, b>> => r \in After(S, <<b>>)
<1>1. ASSUME NEW a, NEW b, r = <<a, b>> PROVE r \in Seq({a, b})
  BY <1>1
<1>2. ASSUME NEW a, r = <<a>> PROVE r \in Seq({a})
  BY <1>2
<1>3. ASSUME NEW a, NEW b, NEW c, r = <<a, b, c>> PROVE r \in Seq({a, b, c})
  BY <1>3
<1>4. ASSUME NEW a, NEW b, NEW c, NEW d, r = <<a, b, c, d>> PROVE r \in Seq({a, b, c, d})
  BY <1>4
<1>5. ASSUME NEW a, NEW b, a \in S, r = <<a, b>> PROVE r \in After(S, <<b>>)
  <2>1. <<a>> \in Seq(S)
    BY <1>5
  <2>2. <<a>> \o <<b>> = <<a, b>>
    BY Joined2
  <2> QED
    BY <1>5, <2>1, <2>2 DEF After
<1> QED
  BY <1>1, <1>2, <1>3, <1>4, <1>5, AfterNothing
==============================================================================
