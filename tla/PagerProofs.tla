------------------------------ MODULE PagerProofs ------------------------------
(***************************************************************************)
(* The pager over any file, of any length and with any bytes in it, that   *)
(* may change or go away at any time: G ends, and the window's bookkeeping *)
(* holds the cursor; and while the file stays as it is, the window is the  *)
(* file's lines.                                                           *)
(*                                                                         *)
(* The lines of a file are counted by its newlines.  The first part says   *)
(* where the k-th one is, in a file, in its beginning and in its rest; the *)
(* second what one call reads; the last what the keys keep (PagerIInv).    *)
(***************************************************************************)
EXTENDS Pager, FiniteSetTheorems, SequenceTheorems, WellFoundedInduction, TLAPS

Bytes == Seq(Byte)

-----------------------------------------------------------------------------
(* Newlines.                                                               *)

LEMMA Least ==
  ASSUME NEW S \in SUBSET Nat, S # {}
  PROVE  \E m \in S : \A x \in S : m <= x
<1>1. PICK m \in S : \A x \in S : ~(<<x, m>> \in OpToRel(<, Nat))
  BY WFMin, NatLessThanWellFounded
<1>2. \A x \in S : ~(x < m)
  BY <1>1 DEF OpToRel
<1>3. QED
  BY <1>2

LEMMA Greatest ==
  ASSUME NEW S \in SUBSET Nat, S # {}, NEW b \in Nat, \A x \in S : x <= b
  PROVE  Max(S) \in S /\ \A x \in S : x <= Max(S)
<1> DEFINE R == {y \in Nat : \E x \in S : y = b - x}
<1>1. R # {}
  <2>1. PICK x \in S : x <= b
    OBVIOUS
  <2>2. b - x \in R
    BY <2>1
  <2>3. QED
    BY <2>2
<1>2. PICK m \in R : \A y \in R : m <= y
  BY <1>1, Least
<1>3. PICK x \in S : m = b - x
  BY <1>2
<1>4. \A z \in S : b - z \in R
  OBVIOUS
<1>5. \A z \in S : x >= z
  BY <1>2, <1>3, <1>4
<1>6. QED
  BY <1>5 DEF Max

LEMMA NewlinesBounds ==
  ASSUME NEW s, NEW i \in Nat
  PROVE  NewlinesTo(s, i) \in 0 .. i
<1> DEFINE T == {j \in 1 .. i : s[j] = Newline}
<1>1. IsFiniteSet(1 .. i) /\ Cardinality(1 .. i) = i
  BY FS_Interval
<1>2. IsFiniteSet(T) /\ Cardinality(T) <= i
  BY <1>1, FS_Subset
<1>3. Cardinality(T) \in Nat
  BY <1>2, FS_CardinalityType
<1>4. QED
  BY <1>2, <1>3 DEF NewlinesTo

LEMMA NewlinesNone ==
  ASSUME NEW s
  PROVE  NewlinesTo(s, 0) = 0
<1>1. NewlinesTo(s, 0) \in 0 .. 0
  BY NewlinesBounds
<1>2. QED
  BY <1>1

LEMMA NewlinesStep ==
  ASSUME NEW s, NEW i \in Nat
  PROVE  NewlinesTo(s, i + 1) = NewlinesTo(s, i) + (IF s[i + 1] = Newline THEN 1 ELSE 0)
<1> DEFINE T(n) == {j \in 1 .. n : s[j] = Newline}
<1>1. IsFiniteSet(T(i)) /\ Cardinality(T(i)) \in Nat
  <2>1. IsFiniteSet(1 .. i)
    BY FS_Interval
  <2>2. IsFiniteSet(T(i))
    BY <2>1, FS_Subset
  <2>3. QED
    BY <2>2, FS_CardinalityType
<1>2. CASE s[i + 1] = Newline
  <2>1. T(i + 1) = T(i) \cup {i + 1}
    BY <1>2
  <2>2. i + 1 \notin T(i)
    OBVIOUS
  <2>3. Cardinality(T(i) \cup {i + 1}) = Cardinality(T(i)) + 1
    BY <1>1, <2>2, FS_AddElement
  <2>4. QED
    BY <1>2, <2>1, <2>3 DEF NewlinesTo
<1>3. CASE s[i + 1] # Newline
  <2>1. T(i + 1) = T(i)
    BY <1>3
  <2>2. QED
    BY <1>1, <1>3, <2>1 DEF NewlinesTo
<1>4. QED
  BY <1>2, <1>3

LEMMA NewlinesGrow ==
  ASSUME NEW s, NEW i \in Nat, NEW j \in Nat, i <= j
  PROVE  NewlinesTo(s, i) <= NewlinesTo(s, j)
<1> DEFINE T(n) == {l \in 1 .. n : s[l] = Newline}
<1>1. IsFiniteSet(1 .. j)
  BY FS_Interval
<1>2. IsFiniteSet(T(j))
  BY <1>1, FS_Subset
<1>3. T(i) \subseteq T(j)
  OBVIOUS
<1>4. Cardinality(T(i)) <= Cardinality(T(j))
  BY <1>2, <1>3, FS_Subset
<1>5. QED
  BY <1>4 DEF NewlinesTo

\* A newline has more up to it than any place before it.
LEMMA NewlinesRise ==
  ASSUME NEW s, NEW i \in Nat, NEW j \in Nat, i < j, s[j] = Newline
  PROVE  NewlinesTo(s, i) < NewlinesTo(s, j)
<1>1. PICK l \in Nat : j = l + 1 /\ i <= l
  BY SMT
<1>2. NewlinesTo(s, j) = NewlinesTo(s, l) + 1
  BY <1>1, NewlinesStep
<1>3. NewlinesTo(s, i) <= NewlinesTo(s, l)
  BY <1>1, NewlinesGrow
<1>4. NewlinesTo(s, i) \in Nat /\ NewlinesTo(s, l) \in Nat
  BY NewlinesBounds
<1>5. QED
  BY <1>2, <1>3, <1>4

\* The k-th newline is where there are k of them.
LEMMA NewlineIsAt ==
  ASSUME NEW s \in Bytes, NEW i \in 1 .. Len(s), s[i] = Newline
  PROVE  NewlineAt(s, NewlinesTo(s, i)) = i
<1> DEFINE k == NewlinesTo(s, i)
<1>1. \A j \in 1 .. Len(s) : s[j] = Newline /\ NewlinesTo(s, j) = k => j = i
  <2> SUFFICES ASSUME NEW j \in 1 .. Len(s), s[j] = Newline, NewlinesTo(s, j) = k, j # i
               PROVE  FALSE
    OBVIOUS
  <2>1. Len(s) \in Nat /\ i \in Nat /\ j \in Nat
    BY DEF Bytes
  <2>2. NewlinesTo(s, i) < NewlinesTo(s, j) \/ NewlinesTo(s, j) < NewlinesTo(s, i)
    <3>1. CASE i < j
      BY <2>1, <3>1, NewlinesRise
    <3>2. CASE j < i
      BY <2>1, <3>2, NewlinesRise
    <3>3. QED
      BY <2>1, <3>1, <3>2
  <2>3. NewlinesTo(s, i) \in Nat
    BY <2>1, NewlinesBounds
  <2>4. QED
    BY <2>2, <2>3
<1>2. QED
  BY <1>1 DEF NewlineAt

\* There is one for every number up to their count.
LEMMA NewlineAtIs ==
  ASSUME NEW s \in Bytes, NEW k \in 1 .. NewlineCount(s)
  PROVE  /\ NewlineAt(s, k) \in 1 .. Len(s)
         /\ s[NewlineAt(s, k)] = Newline
         /\ NewlinesTo(s, NewlineAt(s, k)) = k
<1>1. Len(s) \in Nat /\ NewlineCount(s) \in Nat /\ k \in Nat /\ 1 <= k /\ k <= NewlineCount(s)
  <2>1. Len(s) \in Nat
    BY DEF Bytes
  <2>2. NewlineCount(s) \in Nat
    BY <2>1, NewlinesBounds DEF NewlineCount
  <2>3. QED
    BY <2>1, <2>2
<1> DEFINE S == {i \in Nat : k <= NewlinesTo(s, i)}
<1>2. Len(s) \in S
  BY <1>1 DEF NewlineCount
<1>3. PICK i \in S : \A x \in S : i <= x
  <2>1. S \in SUBSET Nat /\ S # {}
    BY <1>2
  <2>2. QED
    BY <2>1, Least
<1>4. i \in Nat /\ i <= Len(s) /\ k <= NewlinesTo(s, i)
  BY <1>2, <1>3
<1>5. i # 0
  BY <1>1, <1>4, NewlinesNone
<1>6. PICK l \in Nat : i = l + 1
  BY <1>4, <1>5, SMT
<1>7. ~(k <= NewlinesTo(s, l))
  BY <1>3, <1>6
<1>8. NewlinesTo(s, i) = NewlinesTo(s, l) + (IF s[i] = Newline THEN 1 ELSE 0)
  BY <1>6, NewlinesStep
<1>9. NewlinesTo(s, l) \in Nat
  BY NewlinesBounds
<1>10. s[i] = Newline /\ NewlinesTo(s, i) = k
  BY <1>1, <1>4, <1>7, <1>8, <1>9
<1>11. i \in 1 .. Len(s)
  BY <1>1, <1>4, <1>5
<1>12. NewlineAt(s, k) = i
  BY <1>10, <1>11, NewlineIsAt
<1>13. QED
  BY <1>10, <1>11, <1>12

-----------------------------------------------------------------------------
(* Lines.                                                                  *)

LEMMA Pieces ==
  ASSUME NEW s \in Bytes, NEW a \in 0 .. Len(s), NEW b \in 0 .. Len(s)
  PROVE  /\ SubSeq(s, a + 1, b) \in Bytes
         /\ Len(SubSeq(s, a + 1, b)) = IF a < b THEN b - a ELSE 0
         /\ \A i \in 1 .. b - a : SubSeq(s, a + 1, b)[i] = s[a + i]
<1>1. Len(s) \in Nat /\ \A i \in 1 .. Len(s) : s[i] \in Byte
  BY DEF Bytes
<1>2. a + 1 \in Int /\ b \in Int /\ \A i \in a + 1 .. b : s[i] \in Byte
  BY <1>1
<1>3. /\ SubSeq(s, a + 1, b) \in Seq(Byte)
      /\ Len(SubSeq(s, a + 1, b)) = IF a + 1 <= b THEN b - (a + 1) + 1 ELSE 0
      /\ \A i \in 1 .. b - (a + 1) + 1 : SubSeq(s, a + 1, b)[i] = s[(a + 1) + i - 1]
  BY <1>2, SubSeqProperties
<1>4. \A i \in 1 .. b - a : (a + 1) + i - 1 = a + i
  BY <1>1
<1>5. b - (a + 1) + 1 = b - a
  BY <1>1
<1>6. QED
  BY <1>1, <1>3, <1>4, <1>5 DEF Bytes

LEMMA RestIs ==
  ASSUME NEW s \in Bytes, NEW o \in 0 .. Len(s)
  PROVE  /\ From(s, o) \in Bytes
         /\ Len(From(s, o)) = Len(s) - o
         /\ \A i \in 1 .. Len(s) - o : From(s, o)[i] = s[o + i]
<1>1. Len(s) \in 0 .. Len(s)
  BY DEF Bytes
<1>2. QED
  BY <1>1, Pieces DEF From

LEMMA CutIs ==
  ASSUME NEW s \in Bytes, NEW n \in Nat
  PROVE  /\ Cut(s, n) \in Bytes
         /\ Len(Cut(s, n)) = IF n < Len(s) THEN n ELSE Len(s)
         /\ \A i \in 1 .. Len(Cut(s, n)) : Cut(s, n)[i] = s[i]
<1> DEFINE b == IF n < Len(s) THEN n ELSE Len(s)
<1>1. 0 \in 0 .. Len(s) /\ b \in 0 .. Len(s)
  BY DEF Bytes
<1>2. /\ SubSeq(s, 0 + 1, b) \in Bytes
      /\ Len(SubSeq(s, 0 + 1, b)) = IF 0 < b THEN b - 0 ELSE 0
      /\ \A i \in 1 .. b - 0 : SubSeq(s, 0 + 1, b)[i] = s[0 + i]
  BY <1>1, Pieces
<1>3. Cut(s, n) = SubSeq(s, 0 + 1, b)
  BY DEF Cut
<1>4. QED
  BY <1>1, <1>2, <1>3

LEMMA NewlineCounts ==
  ASSUME NEW s \in Bytes
  PROVE  Len(s) \in Nat /\ NewlineCount(s) \in 0 .. Len(s)
<1>1. Len(s) \in Nat
  BY DEF Bytes
<1>2. QED
  BY <1>1, NewlinesBounds DEF NewlineCount

LEMMA EndOfIs ==
  ASSUME NEW s \in Bytes, NEW k \in Nat
  PROVE  /\ EndOf(s, k) \in 0 .. Len(s)
         /\ k <= NewlineCount(s) => k <= EndOf(s, k) /\ NewlinesTo(s, EndOf(s, k)) = k
         /\ 0 < k /\ k <= NewlineCount(s) => 0 < EndOf(s, k) /\ s[EndOf(s, k)] = Newline
<1>1. Len(s) \in Nat /\ NewlineCount(s) \in Nat
  BY NewlineCounts
<1>2. CASE k = 0
  BY <1>1, <1>2, NewlinesNone DEF EndOf
<1>3. CASE k # 0 /\ k <= NewlineCount(s)
  <2>1. k \in 1 .. NewlineCount(s)
    BY <1>1, <1>3
  <2>2. /\ NewlineAt(s, k) \in 1 .. Len(s)
        /\ s[NewlineAt(s, k)] = Newline
        /\ NewlinesTo(s, NewlineAt(s, k)) = k
    BY <2>1, NewlineAtIs
  <2>3. EndOf(s, k) = NewlineAt(s, k)
    BY <1>3 DEF EndOf
  <2>4. NewlinesTo(s, NewlineAt(s, k)) \in 0 .. NewlineAt(s, k)
    BY <2>2, NewlinesBounds
  <2>5. QED
    BY <1>1, <2>2, <2>3, <2>4
<1>4. CASE k # 0 /\ ~(k <= NewlineCount(s))
  BY <1>1, <1>4 DEF EndOf
<1>5. QED
  BY <1>2, <1>3, <1>4

\* Where a line ends follows from where it starts on, and lines do not overlap.
LEMMA EndsGrow ==
  ASSUME NEW s \in Bytes, NEW j \in Nat, NEW k \in Nat, j <= k
  PROVE  EndOf(s, j) <= EndOf(s, k)
<1>1. /\ EndOf(s, j) \in 0 .. Len(s) /\ EndOf(s, k) \in 0 .. Len(s)
      /\ NewlineCount(s) \in Nat /\ Len(s) \in Nat
  BY EndOfIs, NewlineCounts
<1>2. CASE k <= NewlineCount(s) /\ EndOf(s, k) < EndOf(s, j)
  <2>1. j # 0
    BY <1>1, <1>2 DEF EndOf
  <2>2. j <= NewlineCount(s)
    BY <1>1, <1>2
  <2>3. s[EndOf(s, j)] = Newline /\ NewlinesTo(s, EndOf(s, j)) = j /\ NewlinesTo(s, EndOf(s, k)) = k
    BY <1>2, <2>1, <2>2, EndOfIs
  <2>4. NewlinesTo(s, EndOf(s, k)) < NewlinesTo(s, EndOf(s, j))
    BY <1>1, <1>2, <2>3, NewlinesRise
  <2>5. QED
    BY <2>3, <2>4
<1>3. CASE ~(k <= NewlineCount(s))
  <2>1. EndOf(s, k) = Len(s)
    BY <1>1, <1>3 DEF EndOf
  <2>2. QED
    BY <1>1, <2>1
<1>4. QED
  BY <1>1, <1>2, <1>3

\* The bytes of a line.
LEMMA LineIs ==
  ASSUME NEW s \in Bytes, NEW k \in Nat, 0 < k
  PROVE  LET a == EndOf(s, k - 1)
             b == IF k <= NewlineCount(s) THEN EndOf(s, k) - 1 ELSE Len(s)
         IN  /\ a \in 0 .. Len(s) /\ b \in 0 .. Len(s)
             /\ Line(s, k) = SubSeq(s, a + 1, b)
             /\ Line(s, k) \in Bytes
             /\ Len(Line(s, k)) = IF a < b THEN b - a ELSE 0
             /\ \A i \in 1 .. b - a : Line(s, k)[i] = s[a + i]
<1> DEFINE a == EndOf(s, k - 1)
           b == IF k <= NewlineCount(s) THEN EndOf(s, k) - 1 ELSE Len(s)
<1>1. Len(s) \in Nat /\ k - 1 \in Nat
  BY NewlineCounts
<1>2. a \in 0 .. Len(s) /\ EndOf(s, k) \in 0 .. Len(s)
  BY <1>1, EndOfIs
<1>3. k <= NewlineCount(s) => 0 < EndOf(s, k)
  BY EndOfIs
<1>4. b \in 0 .. Len(s)
  BY <1>1, <1>2, <1>3
<1>5. Line(s, k) = SubSeq(s, a + 1, b)
  BY DEF Line
<1> HIDE DEF a, b
<1>6. /\ SubSeq(s, a + 1, b) \in Bytes
      /\ Len(SubSeq(s, a + 1, b)) = IF a < b THEN b - a ELSE 0
      /\ \A i \in 1 .. b - a : SubSeq(s, a + 1, b)[i] = s[a + i]
  BY <1>2, <1>4, Pieces
<1>7. /\ a \in 0 .. Len(s) /\ b \in 0 .. Len(s)
      /\ Line(s, k) = SubSeq(s, a + 1, b)
      /\ Line(s, k) \in Bytes
      /\ Len(Line(s, k)) = IF a < b THEN b - a ELSE 0
      /\ \A i \in 1 .. b - a : Line(s, k)[i] = s[a + i]
  BY <1>2, <1>4, <1>5, <1>6
<1>8. QED
  BY <1>7 DEF a, b

-----------------------------------------------------------------------------
(* The beginning of a text, and its rest from the end of a line on.        *)

\* Where two texts have the same bytes they have the same pieces.
LEMMA SamePieces ==
  ASSUME NEW s \in Bytes, NEW t \in Bytes, NEW o \in Nat, NEW a \in Nat, NEW b \in Nat,
         b <= Len(t), \A i \in 1 .. b : t[i] = s[o + i]
  PROVE  SubSeq(t, a + 1, b) = SubSeq(s, o + a + 1, o + b)
  BY SMT

\* As many newlines as up to the same place.
LEMMA NewlinesInCut ==
  ASSUME NEW s \in Bytes, NEW n \in Nat, NEW i \in 0 .. Len(Cut(s, n))
  PROVE  NewlinesTo(Cut(s, n), i) = NewlinesTo(s, i)
<1>1. \A j \in 1 .. i : Cut(s, n)[j] = s[j]
  <2>1. Len(Cut(s, n)) \in Nat
    BY CutIs, NewlineCounts
  <2>2. QED
    BY <2>1, CutIs
<1>2. {j \in 1 .. i : Cut(s, n)[j] = Newline} = {j \in 1 .. i : s[j] = Newline}
  BY <1>1
<1>3. QED
  BY <1>2 DEF NewlinesTo

LEMMA EndsInCut ==
  ASSUME NEW s \in Bytes, NEW n \in Nat
  PROVE  /\ NewlineCount(Cut(s, n)) \in 0 .. NewlineCount(s)
         /\ \A k \in 0 .. NewlineCount(Cut(s, n)) : EndOf(Cut(s, n), k) = EndOf(s, k)
         /\ \A k \in 1 .. NewlineCount(Cut(s, n)) : Line(Cut(s, n), k) = Line(s, k)
<1> DEFINE c == Cut(s, n)
<1>1. /\ c \in Bytes /\ Len(c) \in Nat /\ Len(s) \in Nat /\ Len(c) <= Len(s)
      /\ \A i \in 1 .. Len(c) : c[i] = s[i]
      /\ NewlineCount(c) \in Nat /\ NewlineCount(s) \in Nat
  BY CutIs, NewlineCounts
<1>2. \A i \in 0 .. Len(c) : NewlinesTo(c, i) = NewlinesTo(s, i)
  BY NewlinesInCut
<1> HIDE DEF c
<1>3. NewlineCount(c) <= NewlineCount(s)
  <2>1. NewlinesTo(s, Len(c)) <= NewlinesTo(s, Len(s))
    BY <1>1, NewlinesGrow
  <2>2. NewlinesTo(c, Len(c)) = NewlinesTo(s, Len(c))
    BY <1>1, <1>2
  <2>3. QED
    BY <2>1, <2>2 DEF NewlineCount
<1>4. ASSUME NEW k \in 0 .. NewlineCount(c)
      PROVE  EndOf(c, k) = EndOf(s, k)
  <2>1. CASE k = 0
    BY <2>1 DEF EndOf
  <2>2. CASE k # 0
    <3>1. k \in Nat /\ 0 < k /\ k <= NewlineCount(c) /\ k <= NewlineCount(s)
      BY <1>1, <1>3, <2>2
    <3>2. /\ EndOf(c, k) \in 0 .. Len(c) /\ NewlinesTo(c, EndOf(c, k)) = k
          /\ 0 < EndOf(c, k) /\ c[EndOf(c, k)] = Newline
      BY <1>1, <3>1, EndOfIs
    <3>3. NewlinesTo(s, EndOf(c, k)) = k /\ s[EndOf(c, k)] = Newline /\ EndOf(c, k) \in 1 .. Len(s)
      BY <1>1, <1>2, <3>2
    <3>4. NewlineAt(s, k) = EndOf(c, k)
      BY <3>3, NewlineIsAt
    <3>5. QED
      BY <2>2, <3>1, <3>4 DEF EndOf
  <2>3. QED
    BY <2>1, <2>2
<1>5. ASSUME NEW k \in 1 .. NewlineCount(c)
      PROVE  Line(c, k) = Line(s, k)
  <2>1. k \in Nat /\ k - 1 \in Nat /\ 0 < k /\ k <= NewlineCount(c) /\ k <= NewlineCount(s)
    BY <1>1, <1>3
  <2>2. EndOf(c, k - 1) = EndOf(s, k - 1) /\ EndOf(c, k) = EndOf(s, k)
    BY <1>1, <1>4, <2>1
  <2>3. EndOf(c, k - 1) \in 0 .. Len(c) /\ EndOf(c, k) \in 0 .. Len(c) /\ 0 < EndOf(c, k)
    BY <1>1, <2>1, EndOfIs
  <2> DEFINE a == EndOf(c, k - 1)
             b == EndOf(c, k) - 1
  <2>4. a \in Nat /\ b \in Nat /\ b <= Len(c) /\ \A i \in 1 .. b : c[i] = s[0 + i]
    BY <1>1, <2>3
  <2>5. Line(c, k) = SubSeq(c, a + 1, b) /\ Line(s, k) = SubSeq(s, a + 1, b)
    BY <2>1, <2>2 DEF Line
  <2> HIDE DEF a, b
  <2>6. SubSeq(c, a + 1, b) = SubSeq(s, 0 + a + 1, 0 + b)
    BY <1>1, <2>4, SamePieces
  <2>7. 0 + a + 1 = a + 1 /\ 0 + b = b
    BY <2>4
  <2>8. QED
    BY <2>5, <2>6, <2>7
<1>6. NewlineCount(c) \in 0 .. NewlineCount(s)
  BY <1>1, <1>3
<1>7. QED
  BY <1>4, <1>5, <1>6 DEF c

\* What comes after a place has the newlines that are not up to it.
LEMMA NewlinesInRest ==
  ASSUME NEW s \in Bytes, NEW o \in 0 .. Len(s), NEW i \in 0 .. Len(s) - o
  PROVE  NewlinesTo(From(s, o), i) = NewlinesTo(s, o + i) - NewlinesTo(s, o)
<1> DEFINE t == From(s, o)
           Off == {j \in Nat : j <= Len(s) - o
                                 /\ NewlinesTo(t, j) # NewlinesTo(s, o + j) - NewlinesTo(s, o)}
<1>1. /\ Len(s) \in Nat /\ o \in Nat /\ o <= Len(s)
      /\ \A j \in 1 .. Len(s) - o : t[j] = s[o + j]
  BY NewlineCounts, RestIs
<1>2. NewlinesTo(s, o) \in Nat
  BY <1>1, NewlinesBounds
<1> HIDE DEF t
<1>3. CASE Off # {}
  <2>1. PICK j \in Off : \A x \in Off : j <= x
    <3>1. Off \in SUBSET Nat
      OBVIOUS
    <3>2. QED
      BY <1>3, <3>1, Least
  <2>2. j # 0
    <3>1. NewlinesTo(t, 0) = 0
      BY NewlinesNone
    <3>2. o + 0 = o
      BY <1>1
    <3>3. 0 \notin Off
      BY <1>2, <3>1, <3>2
    <3>4. QED
      BY <2>1, <3>3
  <2>3. PICK l \in Nat : j = l + 1
    BY <2>1, <2>2, SMT
  <2>4. l \notin Off
    BY <2>1, <2>3
  <2>5. l <= Len(s) - o /\ j \in 1 .. Len(s) - o /\ j \in Nat
    BY <1>1, <2>1, <2>3
  <2>6. NewlinesTo(t, l) = NewlinesTo(s, o + l) - NewlinesTo(s, o)
    BY <2>3, <2>4, <2>5
  <2>7. NewlinesTo(t, l + 1) = NewlinesTo(t, l) + (IF t[l + 1] = Newline THEN 1 ELSE 0)
    BY NewlinesStep
  <2>8. o + l \in Nat /\ (o + l) + 1 = o + j
    BY <1>1, <2>3
  <2>9. NewlinesTo(s, o + j) = NewlinesTo(s, o + l) + (IF s[o + j] = Newline THEN 1 ELSE 0)
    BY <2>8, NewlinesStep
  <2>10. t[l + 1] = s[o + j]
    BY <1>1, <2>3, <2>5
  <2>11. NewlinesTo(s, o + l) \in Nat
    BY <2>8, NewlinesBounds
  <2>12. NewlinesTo(t, j) = NewlinesTo(s, o + j) - NewlinesTo(s, o)
    BY <1>2, <2>3, <2>6, <2>7, <2>9, <2>10, <2>11
  <2>13. QED
    BY <2>1, <2>12
<1>4. CASE Off = {}
  <2>1. i \in Nat /\ i <= Len(s) - o
    BY <1>1
  <2>2. i \notin Off
    BY <1>4
  <2>3. QED
    BY <2>1, <2>2 DEF t
<1>5. QED
  BY <1>3, <1>4

LEMMA EndsInRest ==
  ASSUME NEW s \in Bytes, NEW m \in 0 .. NewlineCount(s)
  PROVE  LET o == EndOf(s, m)  t == From(s, o) IN
         /\ NewlineCount(t) = NewlineCount(s) - m
         /\ \A k \in 0 .. NewlineCount(t) + 1 : o + EndOf(t, k) = EndOf(s, m + k)
         /\ \A k \in 1 .. NewlineCount(t) + 1 : Line(t, k) = Line(s, m + k)
<1> DEFINE o == EndOf(s, m)
           t == From(s, o)
           K == NewlineCount(s)
           L == NewlineCount(t)
<1>1. Len(s) \in Nat /\ K \in Nat /\ m \in Nat /\ m <= K
  BY NewlineCounts
<1>2. o \in Nat /\ o <= Len(s) /\ o \in 0 .. Len(s) /\ NewlinesTo(s, o) = m
  BY <1>1, EndOfIs
<1> HIDE DEF o
<1>3. /\ t \in Bytes /\ Len(t) \in Nat /\ Len(t) = Len(s) - o /\ o + Len(t) = Len(s)
      /\ \A i \in 1 .. Len(t) : t[i] = s[o + i]
  <2>1. t \in Bytes /\ Len(t) = Len(s) - o /\ \A i \in 1 .. Len(s) - o : t[i] = s[o + i]
    BY <1>2, RestIs
  <2>2. QED
    BY <1>1, <1>2, <2>1
<1>4. \A i \in 0 .. Len(t) : NewlinesTo(t, i) = NewlinesTo(s, o + i) - m
  BY <1>2, <1>3, NewlinesInRest
<1> HIDE DEF t
<1>5. L = K - m /\ L \in Nat
  <2>1. L = NewlinesTo(s, o + Len(t)) - m
    BY <1>3, <1>4 DEF NewlineCount
  <2>2. QED
    BY <1>1, <1>3, <2>1 DEF NewlineCount
<1> HIDE DEF L
<1>6. ASSUME NEW k \in 0 .. L + 1
      PROVE  o + EndOf(t, k) = EndOf(s, m + k)
  <2>1. k \in Nat /\ k <= L + 1
    BY <1>5
  <2>2. CASE k = 0
    BY <1>1, <1>2, <2>2 DEF EndOf, o
  <2>3. CASE k # 0 /\ k <= L
    <3>1. /\ EndOf(t, k) \in 0 .. Len(t) /\ NewlinesTo(t, EndOf(t, k)) = k
          /\ 0 < EndOf(t, k) /\ t[EndOf(t, k)] = Newline
      <4>1. k \in Nat /\ 0 < k /\ k <= NewlineCount(t)
        BY <2>1, <2>3 DEF L
      <4>2. QED
        BY <1>3, <4>1, EndOfIs
    <3> DEFINE e == EndOf(t, k)
    <3>2. e \in 1 .. Len(t) /\ o + e \in 1 .. Len(s) /\ o + e \in Nat
      BY <1>2, <1>3, <3>1
    <3>3. s[o + e] = Newline
      BY <1>3, <3>1, <3>2
    <3>4. NewlinesTo(t, e) = NewlinesTo(s, o + e) - m
      BY <1>3, <1>4, <3>2
    <3>5. NewlinesTo(s, o + e) \in Nat
      BY <3>2, NewlinesBounds
    <3>6. NewlinesTo(s, o + e) = m + k
      BY <1>1, <2>1, <3>1, <3>4, <3>5
    <3>7. NewlineAt(s, m + k) = o + e
      BY <3>2, <3>3, <3>6, NewlineIsAt
    <3>8. m + k # 0 /\ m + k <= K
      BY <1>1, <1>5, <2>1, <2>3
    <3>9. QED
      BY <3>7, <3>8 DEF EndOf, K
  <2>4. CASE k = L + 1
    <3>1. ~(k <= L) /\ k # 0 /\ m + k # 0 /\ ~(m + k <= K)
      BY <1>1, <1>5, <2>4
    <3>2. EndOf(t, k) = Len(t) /\ EndOf(s, m + k) = Len(s)
      BY <3>1 DEF EndOf, K, L
    <3>3. QED
      BY <1>3, <3>2
  <2>5. QED
    BY <1>5, <2>1, <2>2, <2>3, <2>4
<1>7. ASSUME NEW k \in 1 .. L + 1
      PROVE  Line(t, k) = Line(s, m + k)
  <2>1. /\ k \in Nat /\ k - 1 \in 0 .. L + 1 /\ k \in 0 .. L + 1 /\ 0 < k
        /\ m + k \in Nat /\ 0 < m + k /\ m + (k - 1) = (m + k) - 1
        /\ (k <= L <=> m + k <= K)
    BY <1>1, <1>5
  <2> DEFINE a == EndOf(t, k - 1)
             b == IF k <= L THEN EndOf(t, k) - 1 ELSE Len(t)
             c == EndOf(s, (m + k) - 1)
             d == IF m + k <= K THEN EndOf(s, m + k) - 1 ELSE Len(s)
  <2>2. a \in 0 .. Len(t) /\ b \in 0 .. Len(t) /\ Line(t, k) = SubSeq(t, a + 1, b)
    BY <1>3, <2>1, LineIs DEF L
  <2>3. c \in 0 .. Len(s) /\ d \in 0 .. Len(s) /\ Line(s, m + k) = SubSeq(s, c + 1, d)
    BY <2>1, LineIs DEF K
  <2>4. o + a = c
    BY <1>6, <2>1
  <2>5. o + b = d
    <3>1. o + EndOf(t, k) = EndOf(s, m + k)
      BY <1>6, <2>1
    <3>2. EndOf(t, k) \in Nat
      BY <1>3, <2>1, EndOfIs
    <3>3. QED
      BY <1>2, <1>3, <2>1, <3>1, <3>2
  <2> HIDE DEF a, b, c, d
  <2>6. a \in Nat /\ b \in Nat /\ b <= Len(t) /\ \A i \in 1 .. b : t[i] = s[o + i]
    BY <1>3, <2>2
  <2>7. SubSeq(t, a + 1, b) = SubSeq(s, o + a + 1, o + b)
    BY <1>2, <1>3, <2>6, SamePieces
  <2>8. QED
    BY <2>2, <2>3, <2>4, <2>5, <2>7
<1>8. QED
  BY <1>5, <1>6, <1>7 DEF o, t, K, L

-----------------------------------------------------------------------------
(* What is read.                                                           *)

LEMMA MadeSeq ==
  ASSUME NEW S, NEW n \in Nat, NEW f, f = [k \in 1 .. n |-> f[k]], \A k \in 1 .. n : f[k] \in S
  PROVE  f \in Seq(S) /\ Len(f) = n
  OBVIOUS

LEMMA NoCrIs ==
  ASSUME NEW l \in Bytes
  PROVE  NoCr(l) \in Bytes
<1>1. Len(l) \in Nat
  BY NewlineCounts
<1>2. CASE l # <<>> /\ l[Len(l)] = Cr
  <2>1. Len(l) # 0
    BY <1>2 DEF Bytes
  <2>2. 0 \in 0 .. Len(l) /\ Len(l) - 1 \in 0 .. Len(l)
    BY <1>1, <2>1
  <2>3. SubSeq(l, 0 + 1, Len(l) - 1) \in Bytes
    BY <2>2, Pieces
  <2>4. QED
    BY <1>2, <2>3 DEF NoCr
<1>3. QED
  BY <1>2 DEF NoCr

LEMMA ReadLineIs ==
  ASSUME NEW s \in Bytes, NEW k \in Nat, 0 < k
  PROVE  ReadLine(s, k) \in Bytes /\ ReadLine(s, k) \in {Line(s, k), NoCr(Line(s, k))}
<1>1. Line(s, k) \in Bytes
  BY LineIs
<1>2. NoCr(Line(s, k)) \in Bytes
  BY <1>1, NoCrIs
<1>3. QED
  BY <1>1, <1>2 DEF ReadLine

LEMMA ReadCountIs ==
  ASSUME NEW s \in Bytes
  PROVE  /\ ReadCount(s) \in Nat
         /\ NewlineCount(s) <= ReadCount(s) /\ ReadCount(s) <= NewlineCount(s) + 1
  BY NewlineCounts DEF ReadCount

\* What one call takes of a text: no more lines than bytes, and all of them when
\* it stops before a chunk and each is UTF-8.
LEMMA TakenIs ==
  ASSUME PagerOK, NEW s \in Bytes
  PROVE  LET n == Max(Taken(s) \cup {0}) IN
         /\ n \in Nat /\ n <= ReadCount(s) /\ n <= ChunkBytes
         /\ EndOf(s, n) \in 0 .. Len(s)
         /\ EndOf(s, n) < ChunkBytes /\ (\A j \in 1 .. ReadCount(s) : FromUtf8(Line(s, j)))
              => n = ReadCount(s)
<1> DEFINE T == Taken(s) \cup {0}
           n == Max(T)
<1>1. /\ ReadCount(s) \in Nat /\ NewlineCount(s) \in Nat /\ Len(s) \in Nat /\ ChunkBytes \in Nat
      /\ ReadCount(s) <= NewlineCount(s) + 1
  BY ReadCountIs, NewlineCounts DEF PagerOK, SizesOK
<1>2. T \in SUBSET Nat /\ T # {} /\ \A x \in T : x <= ReadCount(s)
  <2>1. Taken(s) \subseteq 1 .. ReadCount(s)
    BY DEF Taken
  <2>2. QED
    BY <1>1, <2>1
<1> HIDE DEF T
<1>3. n \in T /\ \A x \in T : x <= n
  BY <1>1, <1>2, Greatest
<1> HIDE DEF n
<1>4. n \in Nat /\ n <= ReadCount(s)
  BY <1>2, <1>3
<1>5. n = 0 \/ n \in Taken(s)
  BY <1>3 DEF T
<1>6. n <= ChunkBytes
  <2>1. CASE n # 0
    <3>1. EndOf(s, n - 1) < ChunkBytes
      BY <1>5, <2>1 DEF Taken
    <3>2. n - 1 \in Nat /\ n - 1 <= NewlineCount(s)
      BY <1>1, <1>4, <2>1
    <3>3. n - 1 <= EndOf(s, n - 1) /\ EndOf(s, n - 1) \in Nat
      BY <1>1, <3>2, EndOfIs
    <3>4. QED
      BY <1>1, <1>4, <3>1, <3>3
  <2>2. QED
    BY <1>1, <2>1
<1>7. EndOf(s, n) \in 0 .. Len(s)
  BY <1>4, EndOfIs
<1>8. ASSUME EndOf(s, n) < ChunkBytes, \A j \in 1 .. ReadCount(s) : FromUtf8(Line(s, j)),
             n # ReadCount(s)
      PROVE  FALSE
  <2>1. n + 1 \in 1 .. ReadCount(s) /\ (n + 1) - 1 = n
    BY <1>1, <1>4, <1>8
  <2>2. \A j \in 1 .. n + 1 : j \in 1 .. ReadCount(s)
    BY <1>1, <1>4, <2>1
  <2>3. n + 1 \in Taken(s)
    BY <1>8, <2>1, <2>2 DEF Taken
  <2>4. n + 1 \in T
    BY <2>3 DEF T
  <2>5. QED
    BY <1>3, <1>4, <2>4
<1>9. QED
  BY <1>4, <1>6, <1>7, <1>8 DEF n, T

\* The fields of FilePreview, and its bookkeeping.
Preview ==
  [is_text : BOOLEAN, lines : Seq(Bytes), first : Nat, total : Nat, offset : Nat,
   eof : BOOLEAN, scroll : Nat, hung : BOOLEAN]

Booked(p) ==
  /\ p \in Preview
  /\ p.first + Len(p.lines) = p.total
  /\ Len(p.lines) <= MaxLines
  /\ p.total > 0 => p.first < p.total
  /\ p.is_text \/ p.eof
  /\ ~p.hung

\* One more line each pushes out one at the front, once there are enough.
LEMMA PushIs ==
  ASSUME PagerOK, NEW p, Booked(p), NEW new \in Seq(Bytes)
  PROVE  LET q == Push(p, new) IN
         /\ Booked(q)
         /\ q.total = p.total + Len(new)
         /\ p.first <= q.first
         /\ q.first = p.first \/ q.first = q.total - MaxLines
         /\ \A i \in 1 .. Len(q.lines) : q.lines[i] = (p.lines \o new)[(q.first - p.first) + i]
         /\ q = [p EXCEPT !.lines = q.lines, !.first = q.first, !.total = q.total]
<1> DEFINE all == p.lines \o new
           over == IF Len(all) > MaxLines THEN Len(all) - MaxLines ELSE 0
           ls == From(all, over)
           q == Push(p, new)
<1>1. MaxLines \in Nat /\ MaxLines > 0
  BY DEF PagerOK, SizesOK
<1>2. p \in Preview /\ p.first + Len(p.lines) = p.total /\ p.first \in Nat /\ p.total \in Nat
  BY DEF Booked, Preview
<1>3. p.lines \in Seq(Bytes) /\ Len(p.lines) \in Nat /\ Len(new) \in Nat
  BY <1>2 DEF Preview
<1>4. all \in Seq(Bytes) /\ Len(all) = Len(p.lines) + Len(new)
  BY <1>3, ConcatProperties
<1> HIDE DEF all
<1>5. over \in Nat /\ over <= Len(all) /\ Len(all) - over <= MaxLines
      /\ (over = 0 \/ over = Len(all) - MaxLines) /\ (Len(all) > 0 => over < Len(all))
  BY <1>1, <1>3, <1>4
<1>6. /\ ls \in Seq(Bytes) /\ Len(ls) = Len(all) - over
      /\ \A i \in 1 .. Len(all) - over : ls[i] = all[over + i]
  <2>1. \A i \in 1 .. Len(all) : all[i] \in Bytes
    BY <1>4
  <2>2. over + 1 \in Int /\ Len(all) \in Int /\ \A i \in over + 1 .. Len(all) : all[i] \in Bytes
    BY <1>3, <1>4, <1>5, <2>1
  <2> HIDE DEF over
  <2>3. /\ SubSeq(all, over + 1, Len(all)) \in Seq(Bytes)
        /\ Len(SubSeq(all, over + 1, Len(all)))
             = IF over + 1 <= Len(all) THEN Len(all) - (over + 1) + 1 ELSE 0
        /\ \A i \in 1 .. Len(all) - (over + 1) + 1 :
             SubSeq(all, over + 1, Len(all))[i] = all[(over + 1) + i - 1]
    BY <2>2, SubSeqProperties
  <2>4. Len(all) - (over + 1) + 1 = Len(all) - over
    BY <1>3, <1>4, <1>5
  <2>5. \A i \in 1 .. Len(all) - over : (over + 1) + i - 1 = over + i
    BY <1>5
  <2>6. QED
    BY <1>3, <1>4, <1>5, <2>3, <2>4, <2>5 DEF From
<1>7. q = [p EXCEPT !.lines = ls, !.first = p.first + over, !.total = p.total + Len(new)]
  BY <1>2 DEF Push, Preview, all
<1> HIDE DEF ls, over, q
<1>8. /\ q.lines = ls /\ q.first = p.first + over /\ q.total = p.total + Len(new)
      /\ q.is_text = p.is_text /\ q.eof = p.eof /\ q.hung = p.hung
  BY <1>2, <1>7 DEF Preview
<1>9. q \in Preview
  <2>1. p.first + over \in Nat /\ p.total + Len(new) \in Nat
    BY <1>2, <1>3, <1>5
  <2>2. ls \in Seq(Bytes)
    BY <1>6
  <2>3. QED
    BY <1>2, <1>7, <2>1, <2>2 DEF Preview
<1>10. Len(q.lines) = Len(all) - over
  BY <1>6, <1>8
<1>11. /\ q.first + Len(q.lines) = q.total /\ Len(q.lines) <= MaxLines
       /\ q.total > 0 => q.first < q.total
       /\ p.first <= q.first
       /\ q.first = p.first \/ q.first = q.total - MaxLines
  <2> DEFINE l == Len(q.lines)  a == Len(all)  b == Len(p.lines)  c == Len(new)
             x == q.first  y == q.total  z == p.first  w == p.total
  <2>1. /\ z + b = w /\ a = b + c /\ l = a - over /\ x = z + over /\ y = w + c
        /\ z \in Nat /\ w \in Nat /\ b \in Nat /\ c \in Nat
        /\ w > 0 => z < w
    BY <1>2, <1>3, <1>4, <1>8, <1>10 DEF Booked
  <2> HIDE DEF l, a, b, c, x, y, z, w
  <2>2. /\ over \in Nat /\ over <= a /\ a - over <= MaxLines
        /\ (over = 0 \/ over = a - MaxLines) /\ (a > 0 => over < a)
    BY <1>5 DEF a
  <2>3. /\ x + l = y /\ l <= MaxLines /\ (y > 0 => x < y)
        /\ z <= x /\ (x = z \/ x = y - MaxLines)
    BY ONLY <1>1, <2>1, <2>2, SMT
  <2>4. QED
    BY <2>3 DEF l, x, y, z
<1>12. Booked(q)
  BY <1>8, <1>9, <1>11 DEF Booked
<1>13. p.first <= q.first /\ (q.first = p.first \/ q.first = q.total - MaxLines)
  BY <1>11
<1>14. q.first - p.first = over
  BY <1>2, <1>5, <1>8
<1>15. \A i \in 1 .. Len(q.lines) : q.lines[i] = all[(q.first - p.first) + i]
  BY <1>6, <1>8, <1>14
<1>16. q = [p EXCEPT !.lines = q.lines, !.first = q.first, !.total = q.total]
  BY <1>7, <1>8
<1>17. QED
  BY <1>8, <1>12, <1>13, <1>15, <1>16 DEF q, all

LEMMA AnyRest ==
  ASSUME NEW s \in Bytes, NEW o \in Nat
  PROVE  /\ From(s, o) \in Bytes
         /\ o <= Len(s) => o + Len(From(s, o)) = Len(s)
         /\ ~(o <= Len(s)) => Len(From(s, o)) = 0
<1>1. Len(s) \in Nat
  BY NewlineCounts
<1>2. CASE o <= Len(s)
  <2>1. o \in 0 .. Len(s)
    BY <1>1, <1>2
  <2>2. From(s, o) \in Bytes /\ Len(From(s, o)) = Len(s) - o
    BY <2>1, RestIs
  <2>3. QED
    BY <1>1, <1>2, <2>2
<1>3. CASE ~(o <= Len(s))
  <2>1. o + 1 \in Int /\ Len(s) \in Int /\ Len(s) < o + 1
    BY <1>1, <1>3
  <2>2. From(s, o) = <<>>
    BY <2>1, SubSeqEmpty DEF From
  <2>3. <<>> \in Bytes /\ Len(<<>>) = 0
    BY EmptySeq DEF Bytes
  <2>4. QED
    BY <1>3, <2>2, <2>3
<1>4. QED
  BY <1>2, <1>3

\* The lines of one call, of the text from the offset on.
NewLines(s, n) == [k \in 1 .. n |-> ReadLine(s, k)]

LEMMA NewLinesAre ==
  ASSUME NEW s \in Bytes, NEW n \in Nat
  PROVE  NewLines(s, n) \in Seq(Bytes) /\ Len(NewLines(s, n)) = n
<1>1. \A k \in 1 .. n : ReadLine(s, k) \in Bytes
  BY ReadLineIs
<1>2. /\ NewLines(s, n) = [k \in 1 .. n |-> NewLines(s, n)[k]]
      /\ \A k \in 1 .. n : NewLines(s, n)[k] \in Bytes
  BY <1>1 DEF NewLines
<1> HIDE DEF NewLines
<1>3. QED
  BY <1>2, MadeSeq

FileOK == file \in Bytes \cup {Gone}

\* What a load that reads does.
LEMMA LoadReads ==
  ASSUME PagerOK, FileOK, NEW p, Booked(p), ~p.eof, file # Gone
  PROVE  LET q == LoadMore(p)
             s == From(file, p.offset)
             n == Max(Taken(s) \cup {0})
             r == Push(p, NewLines(s, n))
         IN  /\ p.is_text /\ s \in Bytes
             /\ q = [r EXCEPT !.offset = p.offset + EndOf(s, n), !.eof = EndOf(s, n) < ChunkBytes]
             /\ Booked(q)
             /\ q.lines = r.lines /\ q.first = r.first /\ q.total = p.total + n
             /\ q.offset = p.offset + EndOf(s, n) /\ q.eof = (EndOf(s, n) < ChunkBytes)
             /\ q.is_text = p.is_text /\ q.scroll = p.scroll
             /\ p.first <= q.first /\ (q.first = p.first \/ q.first = q.total - MaxLines)
<1> DEFINE q == LoadMore(p)
           s == From(file, p.offset)
           n == Max(Taken(s) \cup {0})
           new == NewLines(s, n)
           r == Push(p, new)
           e == EndOf(s, n)
<1>1. p \in Preview /\ p.is_text /\ p.offset \in Nat
  BY DEF Booked, Preview
<1>2. s \in Bytes
  <2>1. file \in Bytes
    BY DEF FileOK
  <2>2. QED
    BY <1>1, <2>1, AnyRest
<1>3. n \in Nat /\ EndOf(s, n) \in 0 .. Len(s)
  BY <1>2, TakenIs
<1>4. q = [r EXCEPT !.offset = @ + e, !.eof = e < ChunkBytes]
  BY <1>1 DEF LoadMore, NewLines
<1> HIDE DEF q, s, n, e
<1>5. new \in Seq(Bytes) /\ Len(new) = n
  BY <1>2, <1>3, NewLinesAre
<1> HIDE DEF new
<1>6. /\ Booked(r) /\ r.total = p.total + n
      /\ p.first <= r.first /\ (r.first = p.first \/ r.first = r.total - MaxLines)
      /\ r = [p EXCEPT !.lines = r.lines, !.first = r.first, !.total = r.total]
  BY <1>5, PushIs
<1> HIDE DEF r
<1>7. r.offset = p.offset /\ r.is_text = p.is_text /\ r.scroll = p.scroll
  BY <1>1, <1>6 DEF Preview
<1>8. q = [r EXCEPT !.offset = p.offset + e, !.eof = e < ChunkBytes]
  BY <1>4, <1>6, <1>7 DEF Booked, Preview
<1>9. p.offset + e \in Nat /\ (e < ChunkBytes) \in BOOLEAN /\ r \in Preview
  <2>1. e \in 0 .. Len(s) /\ Len(s) \in Nat
    BY <1>2, <1>3, NewlineCounts DEF e
  <2>2. QED
    BY <1>1, <1>6, <2>1 DEF Booked
<1>10. /\ q \in Preview
       /\ q.lines = r.lines /\ q.first = r.first /\ q.total = r.total
       /\ q.offset = p.offset + e /\ q.eof = (e < ChunkBytes)
       /\ q.is_text = p.is_text /\ q.scroll = p.scroll /\ q.hung = r.hung
  BY <1>7, <1>8, <1>9 DEF Preview
<1>11. Booked(q)
  BY <1>1, <1>6, <1>10 DEF Booked
<1>12. QED
  BY <1>1, <1>2, <1>6, <1>8, <1>10, <1>11 DEF q, s, n, e, new, r

\* A load keeps the books and the cursor, drops no line within Ahead of the last,
\* and ends the file or gets on in it.
LEMMA LoadKeeps ==
  ASSUME PagerOK, FileOK, NEW p, Booked(p)
  PROVE  LET q == LoadMore(p) IN
         /\ Booked(q)
         /\ q.is_text = p.is_text /\ q.scroll = p.scroll
         /\ p.total <= q.total /\ p.first <= q.first
         /\ q.first = p.first \/ q.first <= p.total - Ahead
         /\ q.eof \/ (file # Gone /\ p.offset < q.offset /\ q.offset <= Len(file))
<1> DEFINE q == LoadMore(p)
<1>1. p \in Preview /\ p.first \in Nat /\ p.total \in Nat /\ p.offset \in Nat
  BY DEF Booked, Preview
<1>2. CASE p.eof
  <2>1. q = p
    BY <1>2 DEF LoadMore
  <2>2. QED
    BY <1>1, <1>2, <2>1
<1>3. CASE ~p.eof /\ file = Gone
  <2>1. q = [p EXCEPT !.eof = TRUE]
    BY <1>3 DEF LoadMore, Booked
  <2>2. /\ q \in Preview /\ q.eof /\ q.lines = p.lines /\ q.first = p.first /\ q.total = p.total
        /\ q.is_text = p.is_text /\ q.scroll = p.scroll /\ q.hung = p.hung
    BY <1>1, <2>1 DEF Preview
  <2>3. QED
    BY <1>1, <2>2 DEF Booked
<1>4. CASE ~p.eof /\ file # Gone
  <2> DEFINE s == From(file, p.offset)
             n == Max(Taken(s) \cup {0})
  <2>1. /\ s \in Bytes /\ Booked(q) /\ q.total = p.total + n
        /\ q.offset = p.offset + EndOf(s, n) /\ q.eof = (EndOf(s, n) < ChunkBytes)
        /\ q.is_text = p.is_text /\ q.scroll = p.scroll
        /\ p.first <= q.first /\ (q.first = p.first \/ q.first = q.total - MaxLines)
    BY <1>4, LoadReads
  <2>2. n \in Nat /\ n <= ChunkBytes /\ EndOf(s, n) \in 0 .. Len(s) /\ Len(s) \in Nat
    BY <2>1, TakenIs, NewlineCounts
  <2>3. /\ ChunkBytes \in Nat /\ 0 < ChunkBytes /\ Ahead \in Nat /\ MaxLines \in Nat
        /\ MaxLines >= ChunkBytes + Ahead
    BY DEF PagerOK, SizesOK
  <2>4. /\ p.offset <= Len(file) => p.offset + Len(s) = Len(file)
        /\ ~(p.offset <= Len(file)) => Len(s) = 0
        /\ Len(file) \in Nat
    <3>1. file \in Bytes
      BY <1>4 DEF FileOK
    <3>2. QED
      BY <1>1, <3>1, AnyRest, NewlineCounts
  <2> HIDE DEF q, n
  <2>5. q.first = p.first \/ q.first <= p.total - Ahead
    BY <1>1, <2>1, <2>2, <2>3
  <2>6. q.eof \/ (p.offset < q.offset /\ q.offset <= Len(file))
    <3> DEFINE e == EndOf(s, n)  l == Len(s)  o == p.offset  x == q.offset  f == Len(file)
    <3>1. /\ e \in 0 .. l /\ l \in Nat /\ o \in Nat /\ x = o + e /\ f \in Nat
          /\ (o <= f => o + l = f) /\ (~(o <= f) => l = 0)
          /\ ChunkBytes \in Nat /\ 0 < ChunkBytes
      BY <1>1, <2>1, <2>2, <2>3, <2>4
    <3> HIDE DEF e, l, o, x, f
    <3>2. e < ChunkBytes \/ (o < x /\ x <= f)
      BY ONLY <3>1, SMT
    <3>3. q.eof = (e < ChunkBytes)
      BY <2>1 DEF e
    <3>4. QED
      BY <3>2, <3>3 DEF o, x, f
  <2>7. p.total <= q.total
    BY <1>1, <2>1, <2>2
  <2>8. QED
    BY <1>4, <2>1, <2>5, <2>6, <2>7 DEF q
<1>5. QED
  BY <1>2, <1>3, <1>4

-----------------------------------------------------------------------------
(* The window is the file's.                                               *)

\* A newline is no part of a longer character.
LEMMA LinesAreUtf8 ==
  ASSUME NEW s \in Bytes, FromUtf8(s), NEW k \in 1 .. NewlineCount(s) + 1
  PROVE  FromUtf8(Line(s, k))
<1> DEFINE a == EndOf(s, k - 1)
           b == IF k <= NewlineCount(s) THEN EndOf(s, k) - 1 ELSE Len(s)
           l == Line(s, k)
<1>1. /\ Len(s) \in Nat /\ NewlineCount(s) \in Nat
      /\ k \in Nat /\ 0 < k /\ k - 1 \in Nat /\ k - 1 <= NewlineCount(s)
  BY NewlineCounts
<1>2. /\ a \in 0 .. Len(s) /\ b \in 0 .. Len(s) /\ l \in Bytes
      /\ Len(l) = (IF a < b THEN b - a ELSE 0)
      /\ \A i \in 1 .. b - a : l[i] = s[a + i]
  BY <1>1, LineIs
<1>3. a = 0 \/ s[a] = Newline
  <2>1. CASE k - 1 = 0
    BY <2>1 DEF EndOf
  <2>2. CASE 0 < k - 1
    BY <1>1, <2>2, EndOfIs
  <2>3. QED
    BY <1>1, <2>1, <2>2
<1>4. b = Len(s) \/ s[b + 1] = Newline
  <2>1. CASE k <= NewlineCount(s)
    <3>1. s[EndOf(s, k)] = Newline /\ EndOf(s, k) \in 0 .. Len(s)
      BY <1>1, <2>1, EndOfIs
    <3>2. b + 1 = EndOf(s, k)
      BY <1>1, <2>1, <3>1
    <3>3. QED
      BY <3>1, <3>2
  <2>2. QED
    BY <2>1
<1> HIDE DEF a, b, l
<1>5. DOMAIN l = 1 .. Len(l) /\ DOMAIN s = 1 .. Len(s)
  BY <1>2 DEF Bytes
<1>6. Newline # Lead /\ Newline # Trail /\ Newline # Bad
  BY DEF Newline, Lead, Trail, Bad
<1>7. ASSUME NEW i \in DOMAIN l
      PROVE  /\ l[i] # Bad
             /\ l[i] = Lead  => i < Len(l) /\ l[i + 1] = Trail
             /\ l[i] = Trail => i > 1 /\ l[i - 1] = Lead
  <2>1. i \in Nat /\ 1 <= i /\ i <= b - a /\ Len(l) = b - a /\ a \in Nat /\ b \in Nat /\ b <= Len(s)
    BY <1>1, <1>2, <1>5
  <2>2. l[i] = s[a + i] /\ a + i \in DOMAIN s
    <3>1. i \in 1 .. b - a
      BY <2>1
    <3>2. a + i \in 1 .. Len(s)
      BY <1>1, <2>1
    <3>3. QED
      BY <1>2, <1>5, <3>1, <3>2
  <2>3. /\ s[a + i] # Bad
        /\ s[a + i] = Lead => a + i < Len(s) /\ s[(a + i) + 1] = Trail
        /\ s[a + i] = Trail => a + i > 1 /\ s[(a + i) - 1] = Lead
    BY <2>2 DEF FromUtf8
  <2>4. ASSUME l[i] = Lead
        PROVE  i < Len(l) /\ l[i + 1] = Trail
    <3>1. a + i < Len(s) /\ s[(a + i) + 1] = Trail
      BY <2>2, <2>3, <2>4
    <3>2. a + i # b
      <4>1. CASE a + i = b
        BY <1>1, <1>4, <1>6, <2>1, <3>1, <4>1
      <4>2. QED
        BY <4>1
    <3>3. i < b - a /\ i + 1 \in 1 .. b - a /\ (a + i) + 1 = a + (i + 1)
      <4>1. CASE a + i < b
        BY <2>1, <4>1
      <4>2. CASE ~(a + i < b)
        <5>1. a + i = b
          BY <2>1, <4>2
        <5>2. QED
          BY <3>2, <5>1
      <4>3. QED
        BY <4>1, <4>2
    <3>4. l[i + 1] = s[a + (i + 1)]
      <4>1. \A j \in 1 .. b - a : l[j] = s[a + j]
        BY <1>2
      <4>2. i + 1 \in 1 .. b - a
        BY <3>3
      <4>3. QED
        BY <4>1, <4>2, Zenon
    <3>5. QED
      BY <2>1, <3>1, <3>3, <3>4
  <2>5. ASSUME l[i] = Trail
        PROVE  i > 1 /\ l[i - 1] = Lead
    <3>1. a + i > 1 /\ s[(a + i) - 1] = Lead
      BY <2>2, <2>3, <2>5
    <3>2. i # 1
      <4>1. CASE i = 1
        <5>1. (a + i) - 1 = a /\ a # 0
          BY <2>1, <3>1, <4>1
        <5>2. QED
          BY <1>3, <1>6, <3>1, <5>1
      <4>2. QED
        BY <4>1
    <3>3. i > 1 /\ i - 1 \in 1 .. b - a /\ (a + i) - 1 = a + (i - 1)
      BY <2>1, <3>2
    <3>4. l[i - 1] = s[a + (i - 1)]
      BY <1>2, <3>3
    <3>5. l[i - 1] = Lead
      BY <3>1, <3>3, <3>4
    <3>6. QED
      BY <3>3, <3>5
  <2>6. QED
    BY <2>2, <2>3, <2>4, <2>5
<1>8. QED
  BY <1>7 DEF FromUtf8, l

\* What a load takes from the end of the m-th line on, are the file's next lines.
LEMMA RestRead ==
  ASSUME PagerOK, NEW s \in Bytes, NEW m \in 0 .. NewlineCount(s) + 1
  PROVE  LET t == From(s, EndOf(s, m))
             n == Max(Taken(t) \cup {0})
         IN  /\ m + n <= NewlineCount(s) + 1
             /\ EndOf(s, m) + EndOf(t, n) = EndOf(s, m + n)
             /\ \A k \in 1 .. n : Line(t, k) = Line(s, m + k)
             /\ EndOf(t, n) < ChunkBytes /\ FromUtf8(s) => m + n >= ReadCount(s)
<1> DEFINE o == EndOf(s, m)
           t == From(s, o)
           n == Max(Taken(t) \cup {0})
           K == NewlineCount(s)
<1>1. Len(s) \in Nat /\ K \in Nat /\ m \in Nat /\ m <= K + 1 /\ ReadCount(s) \in Nat
      /\ ReadCount(s) <= K + 1
  BY NewlineCounts, ReadCountIs
<1>2. o \in Nat /\ o <= Len(s)
  <2>1. o \in 0 .. Len(s)
    BY <1>1, EndOfIs
  <2>2. QED
    BY <1>1, <2>1
<1>3. t \in Bytes /\ Len(t) \in Nat /\ o + Len(t) = Len(s)
  <2>1. t \in Bytes /\ o + Len(t) = Len(s)
    BY <1>2, AnyRest
  <2>2. QED
    BY <2>1, NewlineCounts
<1>4. CASE m <= K
  <2>1. m \in 0 .. NewlineCount(s)
    BY <1>1, <1>4
  <2>2. /\ NewlineCount(t) = K - m
        /\ \A k \in 0 .. NewlineCount(t) + 1 : o + EndOf(t, k) = EndOf(s, m + k)
        /\ \A k \in 1 .. NewlineCount(t) + 1 : Line(t, k) = Line(s, m + k)
    BY <2>1, EndsInRest
  <2> HIDE DEF o, t
  <2>3. /\ n \in Nat /\ n <= ReadCount(t)
        /\ EndOf(t, n) < ChunkBytes /\ (\A j \in 1 .. ReadCount(t) : FromUtf8(Line(t, j)))
              => n = ReadCount(t)
    BY <1>3, TakenIs
  <2> HIDE DEF n, K
  <2>4. ReadCount(t) \in Nat /\ ReadCount(t) <= NewlineCount(t) + 1 /\ NewlineCount(t) \in Nat
    BY <1>3, ReadCountIs, NewlineCounts
  <2>5. m + n <= K + 1 /\ n \in 0 .. NewlineCount(t) + 1
    BY <1>1, <2>2, <2>3, <2>4
  <2>6. o + EndOf(t, n) = EndOf(s, m + n)
    BY <2>2, <2>5
  <2>7. ASSUME NEW k \in 1 .. n
        PROVE  Line(t, k) = Line(s, m + k)
    <3>1. k \in 1 .. NewlineCount(t) + 1
      BY <2>3, <2>4
    <3>2. QED
      BY <2>2, <3>1
  <2>8. ReadCount(s) = m + ReadCount(t)
    <3>1. NewlineCount(t) + 1 \in 1 .. NewlineCount(t) + 1
      BY <2>4
    <3>2. Line(t, NewlineCount(t) + 1) = Line(s, m + (NewlineCount(t) + 1))
      BY <2>2, <3>1
    <3>3. m + (NewlineCount(t) + 1) = K + 1
      BY <1>1, <2>2
    <3> DEFINE x == IF Line(s, K + 1) = <<>> THEN 0 ELSE 1
    <3>4. ReadCount(s) = K + x /\ ReadCount(t) = NewlineCount(t) + x
      BY <3>2, <3>3 DEF ReadCount, K
    <3>5. x \in Nat
      OBVIOUS
    <3> HIDE DEF x
    <3>6. QED
      BY <1>1, <2>2, <2>4, <3>4, <3>5
  <2>9. ASSUME EndOf(t, n) < ChunkBytes, FromUtf8(s)
        PROVE  m + n >= ReadCount(s)
    <3>1. ASSUME NEW j \in 1 .. ReadCount(t)
          PROVE  FromUtf8(Line(t, j))
      <4>1. j \in 1 .. NewlineCount(t) + 1 /\ m + j \in 1 .. NewlineCount(s) + 1
        BY <1>1, <2>2, <2>4 DEF K
      <4>2. Line(t, j) = Line(s, m + j)
        BY <2>2, <4>1
      <4>3. QED
        BY <2>9, <4>1, <4>2, LinesAreUtf8
    <3>2. n = ReadCount(t)
      BY <2>3, <2>9, <3>1
    <3>3. QED
      BY <1>1, <2>3, <2>8, <3>2
  <2>10. QED
    BY <2>5, <2>6, <2>7, <2>9 DEF o, t, n, K
<1>5. CASE ~(m <= K)
  <2>1. m = K + 1 /\ m # 0
    BY <1>1, <1>5
  <2>2. o = Len(s)
    BY <1>5, <2>1 DEF EndOf
  <2> HIDE DEF o, t
  <2>3. Len(t) = 0
    BY <1>1, <1>3, <2>2
  <2>4. NewlineCount(t) = 0
    <3>1. NewlineCount(t) \in 0 .. Len(t)
      BY <1>3, NewlineCounts
    <3>2. QED
      BY <2>3, <3>1
  <2>5. ReadCount(t) = 0
    <3>1. Line(t, 1) \in Bytes /\ Len(Line(t, 1)) = 0
      <4>1. EndOf(t, 1 - 1) \in 0 .. Len(t)
        BY <1>3, EndOfIs
      <4>2. Line(t, 1) \in Bytes
            /\ Len(Line(t, 1)) = IF EndOf(t, 1 - 1) < Len(t) THEN Len(t) - EndOf(t, 1 - 1) ELSE 0
        <5>1. 0 < 1 /\ 1 \in Nat /\ ~(1 <= NewlineCount(t))
          BY <2>4
        <5>2. LET a == EndOf(t, 1 - 1)
                  b == IF 1 <= NewlineCount(t) THEN EndOf(t, 1) - 1 ELSE Len(t)
              IN  Line(t, 1) \in Bytes /\ Len(Line(t, 1)) = IF a < b THEN b - a ELSE 0
          BY <1>3, <5>1, LineIs
        <5>3. QED
          BY <5>1, <5>2
      <4>3. QED
        BY <2>3, <4>1, <4>2
    <3>2. Line(t, 1) = <<>>
      BY <3>1, EmptySeq DEF Bytes
    <3>3. QED
      BY <2>4, <3>2 DEF ReadCount
  <2>6. n \in Nat /\ n <= ReadCount(t)
    BY <1>3, TakenIs
  <2> HIDE DEF n
  <2>7. n = 0
    BY <2>5, <2>6
  <2>8. EndOf(t, n) = 0
    BY <2>7 DEF EndOf
  <2> HIDE DEF K
  <2>9. m + n = m /\ m + n <= K + 1 /\ m + n >= ReadCount(s) /\ o + 0 = o
    BY <1>1, <1>2, <2>1, <2>7
  <2>10. \A k \in 1 .. n : Line(t, k) = Line(s, m + k)
    BY <2>7
  <2>11. o + EndOf(t, n) = EndOf(s, m + n)
    BY <2>8, <2>9 DEF o
  <2>12. QED
    BY <2>9, <2>10, <2>11 DEF o, t, n, K
<1>6. QED
  BY <1>4, <1>5

\* The window is lines of the file, in order and without a gap, and the next read
\* starts where the next line does.
Shown(p) ==
  /\ p.total <= NewlineCount(file) + 1
  /\ p.offset = EndOf(file, p.total)
  /\ \A i \in 1 .. Len(p.lines) :
       p.lines[i] \in {Line(file, p.first + i), NoCr(Line(file, p.first + i))}
  /\ p.eof /\ FromUtf8(file) /\ p.total > 0 => p.total >= ReadCount(file)

LEMMA LoadShows ==
  ASSUME PagerOK, FileOK, file # Gone, NEW p, Booked(p), Shown(p)
  PROVE  Shown(LoadMore(p))
<1> DEFINE q == LoadMore(p)
           s == From(file, p.offset)
           n == Max(Taken(s) \cup {0})
           new == NewLines(s, n)
           r == Push(p, new)
<1>1. file \in Bytes
  BY DEF FileOK
<1>2. /\ p.first \in Nat /\ p.total \in Nat /\ p.first + Len(p.lines) = p.total
      /\ p.lines \in Seq(Bytes) /\ Len(p.lines) \in Nat
  <2>1. p \in Preview
    BY DEF Booked
  <2>2. p.lines \in Seq(Bytes)
    BY <2>1 DEF Preview
  <2>3. QED
    BY <2>1, <2>2 DEF Booked, Preview
<1>3. CASE p.eof
  <2>1. q = p
    BY <1>3 DEF LoadMore
  <2>2. QED
    BY <2>1
<1>4. CASE ~p.eof
  <2>1. /\ s \in Bytes /\ Booked(q) /\ q.lines = r.lines /\ q.first = r.first
        /\ q.total = p.total + n /\ q.offset = p.offset + EndOf(s, n)
        /\ q.eof = (EndOf(s, n) < ChunkBytes)
    BY <1>4, LoadReads
  <2>2. n \in Nat
    BY <2>1, TakenIs
  <2>3. p.total \in 0 .. NewlineCount(file) + 1 /\ p.offset = EndOf(file, p.total)
    <3>1. NewlineCount(file) \in Nat /\ p.total <= NewlineCount(file) + 1
      BY <1>1, NewlineCounts DEF Shown
    <3>2. QED
      BY <1>2, <3>1 DEF Shown
  <2>4. /\ p.total + n <= NewlineCount(file) + 1
        /\ p.offset + EndOf(s, n) = EndOf(file, p.total + n)
        /\ \A k \in 1 .. n : Line(s, k) = Line(file, p.total + k)
        /\ EndOf(s, n) < ChunkBytes /\ FromUtf8(file) => p.total + n >= ReadCount(file)
    BY <1>1, <2>3, RestRead
  <2>5. new \in Seq(Bytes) /\ Len(new) = n
    BY <2>1, <2>2, NewLinesAre
  <2>6. \A k \in 1 .. n : new[k] \in {Line(file, p.total + k), NoCr(Line(file, p.total + k))}
    <3>1. \A k \in 1 .. n : new[k] = ReadLine(s, k)
      BY DEF NewLines
    <3>2. \A k \in 1 .. n : ReadLine(s, k) \in {Line(s, k), NoCr(Line(s, k))}
      BY <2>1, <2>2, ReadLineIs
    <3> HIDE DEF new
    <3>3. QED
      BY <2>4, <3>1, <3>2
  <2> HIDE DEF new, n, s
  <2>7. \A i \in 1 .. Len(r.lines) : r.lines[i] = (p.lines \o new)[(r.first - p.first) + i]
    BY <2>5, PushIs
  <2>8. p.first <= r.first
    BY <2>5, PushIs
  <2> HIDE DEF r, q
  <2>9. q.first \in Nat /\ q.first + Len(q.lines) = q.total /\ Len(q.lines) \in Nat
    <3>1. q \in Preview /\ q.first + Len(q.lines) = q.total
      BY <2>1 DEF Booked
    <3>2. q.lines \in Seq(Bytes) /\ q.first \in Nat
      BY <3>1 DEF Preview
    <3>3. QED
      BY <3>1, <3>2
  <2>10. ASSUME NEW i \in 1 .. Len(q.lines)
         PROVE  q.lines[i] \in {Line(file, q.first + i), NoCr(Line(file, q.first + i))}
    <3> DEFINE j == (q.first - p.first) + i
               len == Len(p.lines)
    <3>1. /\ i \in Nat /\ 1 <= i /\ j \in Nat /\ 1 <= j /\ p.first + j = q.first + i
          /\ j <= len + n
      <4> DEFINE x == q.first  y == q.total  z == p.first  w == p.total  l == Len(q.lines)
      <4>1. /\ x \in Nat /\ z \in Nat /\ w \in Nat /\ len \in Nat /\ l \in Nat /\ n \in Nat
            /\ z + len = w /\ x + l = y /\ y = w + n /\ z <= x
        BY <1>2, <2>1, <2>2, <2>8, <2>9
      <4>2. i \in Nat /\ 1 <= i /\ i <= l
        BY <4>1
      <4> HIDE DEF x, y, z, w, l, len
      <4>3. /\ (x - z) + i \in Nat /\ 1 <= (x - z) + i /\ z + ((x - z) + i) = x + i
            /\ (x - z) + i <= len + n
        BY ONLY <4>1, <4>2, SMT
      <4>4. QED
        BY <4>2, <4>3 DEF x, z
    <3>2. q.lines[i] = (p.lines \o new)[j]
      BY <2>1, <2>7
    <3> HIDE DEF j
    <3>3. (p.lines \o new)[j] = IF j <= len THEN p.lines[j] ELSE new[j - len]
      <4>1. \A l \in 1 .. Len(p.lines) + Len(new) :
              (p.lines \o new)[l]
                = IF l <= Len(p.lines) THEN p.lines[l] ELSE new[l - Len(p.lines)]
        BY <1>2, <2>5, ConcatProperties
      <4>2. j \in 1 .. Len(p.lines) + Len(new)
        BY <1>2, <2>2, <2>5, <3>1
      <4>3. QED
        BY <4>1, <4>2
    <3>4. CASE j <= len
      <4>1. j \in 1 .. Len(p.lines)
        BY <1>2, <3>1, <3>4
      <4>2. p.lines[j] \in {Line(file, p.first + j), NoCr(Line(file, p.first + j))}
        BY <4>1 DEF Shown
      <4>3. QED
        BY <3>1, <3>2, <3>3, <3>4, <4>2
    <3>5. CASE ~(j <= len)
      <4> DEFINE k == j - len
      <4>1. k \in 1 .. n /\ p.total + k = q.first + i
        BY <1>2, <2>2, <3>1, <3>5
      <4>2. new[k] \in {Line(file, p.total + k), NoCr(Line(file, p.total + k))}
        BY <2>6, <4>1
      <4>3. q.lines[i] = new[k]
        BY <3>2, <3>3, <3>5
      <4> HIDE DEF k
      <4>4. QED
        BY <4>1, <4>2, <4>3
    <3>6. QED
      BY <3>4, <3>5
  <2>11. QED
    BY <2>1, <2>4, <2>10 DEF Shown, q
<1>5. QED
  BY <1>3, <1>4

\* What the keys keep of a preview.
Kept(q, p) ==
  /\ Booked(q)
  /\ q.is_text = p.is_text
  /\ q.is_text \/ q.total = p.total
  /\ file # Gone /\ Shown(p) => Shown(q)

LEMMA LoadIsKept ==
  ASSUME PagerOK, FileOK, NEW p, Booked(p)
  PROVE  Kept(LoadMore(p), p)
<1> DEFINE q == LoadMore(p)
<1>1. Booked(q) /\ q.is_text = p.is_text
  BY LoadKeeps
<1>2. q.is_text \/ q.total = p.total
  <2>1. CASE p.eof
    BY <2>1 DEF LoadMore
  <2>2. CASE ~p.eof
    BY <1>1, <2>2 DEF Booked
  <2>3. QED
    BY <2>1, <2>2
<1>3. file # Gone /\ Shown(p) => Shown(q)
  BY LoadShows
<1>4. QED
  BY <1>1, <1>2, <1>3 DEF Kept

LEMMA KeptOnce ==
  ASSUME NEW p, NEW q, NEW r, Kept(q, p), Kept(r, q)
  PROVE  Kept(r, p)
  BY DEF Kept

-----------------------------------------------------------------------------
(* G: the loop over the rest of the file.                                  *)

\* What the loop's passes leave, one after another.
Passed(g, p, m) == g = [i \in 0 .. m |-> IF i = 0 THEN p ELSE LoadMore(g[i - 1])]

LEMMA PassesLeave ==
  ASSUME NEW p, NEW m \in Nat
  PROVE  \E g : Passed(g, p, m)
<1> DEFINE Off == {n \in Nat : ~\E g : Passed(g, p, n)}
<1>1. CASE Off # {}
  <2>1. PICK n \in Off : \A x \in Off : n <= x
    <3>1. Off \in SUBSET Nat
      OBVIOUS
    <3>2. QED
      BY <1>1, <3>1, Least
  <2>2. n # 0
    <3> DEFINE g == [i \in 0 .. 0 |-> p]
    <3>1. g = [i \in 0 .. 0 |-> IF i = 0 THEN p ELSE LoadMore(g[i - 1])]
      OBVIOUS
    <3>2. Passed(g, p, 0)
      BY <3>1 DEF Passed
    <3>3. QED
      BY <2>1, <3>2
  <2>3. PICK l \in Nat : n = l + 1
    BY <2>1, <2>2, SMT
  <2>4. l \notin Off
    BY <2>1, <2>3
  <2>5. PICK h : Passed(h, p, l)
    BY <2>4
  <2> DEFINE g == [i \in 0 .. n |-> IF i = n THEN LoadMore(h[l]) ELSE h[i]]
  <2>6. \A i \in 0 .. l : h[i] = IF i = 0 THEN p ELSE LoadMore(h[i - 1])
    BY <2>5 DEF Passed
  <2>7. ASSUME NEW i \in 0 .. n
        PROVE  g[i] = IF i = 0 THEN p ELSE LoadMore(g[i - 1])
    <3>1. CASE i = n
      <4>1. i - 1 = l /\ l \in 0 .. n /\ l # n /\ i # 0
        BY <2>3, <3>1
      <4>2. g[l] = h[l] /\ g[i] = LoadMore(h[l])
        BY <3>1, <4>1
      <4>3. QED
        BY <4>1, <4>2
    <3>2. CASE i # n
      <4>1. i \in 0 .. l /\ (i # 0 => i - 1 \in 0 .. n /\ i - 1 # n)
        BY <2>3, <3>2
      <4>2. g[i] = h[i] /\ (i # 0 => g[i - 1] = h[i - 1])
        BY <3>2, <4>1
      <4>3. h[i] = IF i = 0 THEN p ELSE LoadMore(h[i - 1])
        BY <2>6, <4>1
      <4>4. QED
        BY <4>2, <4>3
    <3>3. QED
      BY <3>1, <3>2
  <2>8. g = [i \in 0 .. n |-> g[i]]
    OBVIOUS
  <2> HIDE DEF g
  <2>9. Passed(g, p, n)
    BY <2>7, <2>8 DEF Passed
  <2>10. QED
    BY <2>1, <2>9
<1>2. CASE Off = {}
  <2>1. m \notin Off
    BY <1>2
  <2>2. QED
    BY <2>1
<1>3. QED
  BY <1>1, <1>2

LEMMA LoadToEofEnds ==
  ASSUME PagerOK, FileOK, NEW p, Booked(p)
  PROVE  Kept(LoadToEof(p), p)
<1>1. Passes \in Nat /\ 0 < Passes /\ (file # Gone => Len(file) \in Nat /\ Passes = Len(file) + 1)
  <2>1. CASE file = Gone
    BY <2>1 DEF Passes
  <2>2. CASE file # Gone
    <3>1. Len(file) \in Nat
      BY <2>2, NewlineCounts DEF FileOK
    <3>2. QED
      BY <2>2, <3>1 DEF Passes
  <2>3. QED
    BY <2>1, <2>2
<1> DEFINE after == CHOOSE g : Passed(g, p, Passes)
<1>2. Passed(after, p, Passes)
  BY <1>1, PassesLeave
<1>3. LoadToEof(p) = [after[Passes] EXCEPT !.hung = ~after[Passes].eof]
  BY DEF LoadToEof, Passed
<1> HIDE DEF after
<1>4. \A i \in 0 .. Passes : after[i] = IF i = 0 THEN p ELSE LoadMore(after[i - 1])
  BY <1>2 DEF Passed
<1> DEFINE Good(i) ==
             /\ Kept(after[i], p)
             /\ i # 0 => after[i].eof \/ (file # Gone /\ i <= after[i].offset
                                            /\ after[i].offset <= Len(file))
           Off == {i \in Nat : i <= Passes /\ ~Good(i)}
<1>5. CASE Off # {}
  <2>1. PICK i \in Off : \A x \in Off : i <= x
    <3>1. Off \in SUBSET Nat
      OBVIOUS
    <3>2. QED
      BY <1>5, <3>1, Least
  <2>2. i \in Nat /\ i <= Passes /\ ~Good(i)
    BY <2>1
  <2>3. i # 0
    <3>1. after[0] = p
      BY <1>1, <1>4
    <3>2. Good(0)
      BY <3>1 DEF Kept
    <3>3. QED
      BY <2>2, <3>2
  <2>4. PICK l \in Nat : i = l + 1
    BY <2>2, <2>3, SMT
  <2>5. l \notin Off /\ l <= Passes /\ i - 1 = l /\ i \in 0 .. Passes
    BY <1>1, <2>1, <2>2, <2>4
  <2>6. Good(l)
    BY <2>5
  <2>7. after[i] = LoadMore(after[l])
    BY <1>4, <2>3, <2>5
  <2> DEFINE a == after[l]
             b == after[i]
  <2>8. Booked(a) /\ b = LoadMore(a)
    BY <2>6, <2>7 DEF Kept
  <2> HIDE DEF a, b
  <2>9. /\ Booked(b) /\ b.is_text = a.is_text
        /\ b.eof \/ (file # Gone /\ a.offset < b.offset /\ b.offset <= Len(file))
    BY <2>8, LoadKeeps
  <2>10. Kept(b, a)
    BY <2>8, LoadIsKept
  <2>11. Kept(b, p)
    BY <2>6, <2>10, KeptOnce DEF a
  <2>12. b.eof \/ (file # Gone /\ i <= b.offset /\ b.offset <= Len(file))
    <3>1. a.offset \in Nat /\ b.offset \in Nat
      BY <2>8, <2>9 DEF Booked, Preview
    <3>2. CASE b.eof
      BY <3>2
    <3>3. CASE ~b.eof
      <4>1. file # Gone /\ a.offset < b.offset /\ b.offset <= Len(file)
        BY <2>9, <3>3
      <4>2. a.eof => b = a
        BY <2>8 DEF LoadMore
      <4>3. ~a.eof
        BY <3>3, <4>2
      <4>4. l # 0 => l <= a.offset
        BY <2>6, <4>3 DEF a
      <4>5. i <= b.offset
        BY <2>4, <3>1, <4>1, <4>4
      <4>6. QED
        BY <4>1, <4>5
    <3>4. QED
      BY <3>2, <3>3
  <2>13. Good(i)
    BY <2>11, <2>12 DEF b
  <2>14. QED
    BY <2>2, <2>13
<1>6. CASE Off = {}
  <2>1. Good(Passes)
    BY <1>1, <1>6
  <2> DEFINE b == after[Passes]
             q == LoadToEof(p)
  <2>2. Kept(b, p) /\ (b.eof \/ (file # Gone /\ Passes <= b.offset /\ b.offset <= Len(file)))
    BY <1>1, <2>1
  <2>3. b.eof
    <3>1. b.offset \in Nat
      BY <2>2 DEF Kept, Booked, Preview
    <3>2. QED
      BY <1>1, <2>2, <3>1
  <2>4. q = [b EXCEPT !.hung = ~b.eof]
    BY <1>3
  <2> HIDE DEF b, q
  <2>5. b \in Preview /\ ~b.hung
    BY <2>2 DEF Kept, Booked
  <2>6. q = b
    BY <2>3, <2>4, <2>5 DEF Preview
  <2>7. QED
    BY <2>2, <2>6 DEF q
<1>7. QED
  BY <1>5, <1>6

-----------------------------------------------------------------------------
(* Opening.                                                                *)

\* The cursor is on a line of the window, and only a text has lines.
Framed(p) == p.total > 0 => p.is_text /\ p.first <= p.scroll /\ p.scroll < p.total

Steady(p) ==
  p.is_text => /\ file \in Bytes /\ file # Gone
               /\ FromUtf8(Cut(file, ChunkBytes)) => Shown(p)

\* A preview without content.
LEMMA EmptyIsOK ==
  ASSUME PagerOK, NEW p \in Preview, p.lines = <<>>, p.first = 0, p.total = 0, p.offset = 0,
         p.is_text \/ p.eof, ~p.hung
  PROVE  Booked(p) /\ Framed(p) /\ (file \in Bytes => Shown(p))
<1>1. Len(p.lines) = 0
  BY EmptySeq
<1>2. MaxLines \in Nat
  BY DEF PagerOK, SizesOK
<1>3. Booked(p)
  BY <1>1, <1>2 DEF Booked
<1>4. ASSUME file \in Bytes
      PROVE  Shown(p)
  <2>1. NewlineCount(file) \in Nat
    BY <1>4, NewlineCounts
  <2>2. EndOf(file, p.total) = 0
    BY DEF EndOf
  <2>3. QED
    BY <1>1, <2>1, <2>2 DEF Shown
<1>5. QED
  BY <1>3, <1>4 DEF Framed

LEMMA OpenedIs ==
  Opened(TRUE) = [is_text |-> TRUE, lines |-> <<>>, first |-> 0, total |-> 0,
                  offset |-> 0, eof |-> FALSE, scroll |-> 0, hung |-> FALSE]
<1> DEFINE p == Opened(TRUE)
<1>1. ~TRUE = FALSE
  BY Zenon
<1>2. p = [Unreadable EXCEPT !.is_text = TRUE, !.eof = FALSE]
  BY <1>1, Zenon DEF Opened
<1> HIDE DEF p
<1>3. p = [is_text |-> TRUE, lines |-> <<>>, first |-> 0, total |-> 0,
           offset |-> 0, eof |-> FALSE, scroll |-> 0, hung |-> FALSE]
  BY <1>2 DEF Unreadable
<1>4. QED
  BY <1>3 DEF p

\* The fields that reading sets.
LEMMA Filled ==
  ASSUME NEW ls, NEW n, NEW off, NEW e, NEW p, NEW o,
         o = [is_text |-> TRUE, lines |-> <<>>, first |-> 0, total |-> 0,
              offset |-> 0, eof |-> FALSE, scroll |-> 0, hung |-> FALSE],
         p = [o EXCEPT !.lines = ls, !.total = n, !.eof = e, !.offset = off]
  PROVE  p = [is_text |-> TRUE, lines |-> ls, first |-> 0, total |-> n,
              offset |-> off, eof |-> e, scroll |-> 0, hung |-> FALSE]
  OBVIOUS

LEMMA FirstChunkIsOK ==
  ASSUME PagerOK, file \in Bytes, file # Gone
  PROVE  LET p == FirstChunk(file) IN Booked(p) /\ Framed(p) /\ Steady(p)
<1> DEFINE c == Cut(file, ChunkBytes)
           eof == Len(c) < ChunkBytes
           n == IF ~FromUtf8(c) THEN 0 ELSE NewlineCount(c) + (IF eof THEN 1 ELSE 0)
           back == IF FromUtf8(c) /\ ~eof THEN Len(Line(c, n + 1)) ELSE 0
           ls == [k \in 1 .. n |-> Line(c, k)]
           off == Len(c) - back
           p == FirstChunk(file)
<1>1. /\ ChunkBytes \in Nat /\ 0 < ChunkBytes /\ MaxLines \in Nat /\ MaxLines >= ChunkBytes
  BY DEF PagerOK, SizesOK
<1>2. /\ c \in Bytes /\ Len(c) = IF ChunkBytes < Len(file) THEN ChunkBytes ELSE Len(file)
      /\ \A i \in 1 .. Len(c) : c[i] = file[i]
  BY <1>1, CutIs
<1>3. Len(file) \in Nat /\ Len(c) \in Nat /\ NewlineCount(c) \in Nat /\ NewlineCount(c) <= Len(c)
  BY <1>2, NewlineCounts
<1>4. p = [Opened(TRUE) EXCEPT !.lines = ls, !.total = n, !.eof = eof, !.offset = off]
  BY DEF FirstChunk
<1> HIDE DEF p, c
<1>5. n \in Nat /\ n <= MaxLines
  BY <1>1, <1>2, <1>3
<1>6. ls \in Seq(Bytes) /\ Len(ls) = n
  <2>1. \A k \in 1 .. n : Line(c, k) \in Bytes
    BY <1>2, LineIs
  <2> HIDE DEF n
  <2>2. ls = [k \in 1 .. n |-> ls[k]] /\ \A k \in 1 .. n : ls[k] \in Bytes
    BY <2>1
  <2> HIDE DEF ls
  <2>3. QED
    BY <1>5, <2>2, MadeSeq
<1>7. off \in Nat /\ (FromUtf8(c) => off = IF eof THEN Len(c) ELSE EndOf(c, NewlineCount(c)))
  <2>1. CASE FromUtf8(c) /\ ~eof
    <3> DEFINE k == NewlineCount(c)
    <3>1. n = k /\ ~(k + 1 <= k) /\ k + 1 \in Nat /\ 0 < k + 1 /\ (k + 1) - 1 = k
      BY <1>3, <2>1
    <3>2. LET a == EndOf(c, (k + 1) - 1)
              b == IF k + 1 <= k THEN EndOf(c, k + 1) - 1 ELSE Len(c)
          IN  a \in 0 .. Len(c) /\ Len(Line(c, k + 1)) = IF a < b THEN b - a ELSE 0
      BY <1>2, <3>1, LineIs
    <3>3. EndOf(c, k) \in 0 .. Len(c)
          /\ Len(Line(c, k + 1)) = IF EndOf(c, k) < Len(c) THEN Len(c) - EndOf(c, k) ELSE 0
      BY <3>1, <3>2
    <3>4. back = Len(Line(c, k + 1))
      BY <2>1, <3>1
    <3> HIDE DEF back, n
    <3>5. Len(c) - back = EndOf(c, k) /\ EndOf(c, k) \in Nat
      BY <1>3, <3>3, <3>4
    <3>6. QED
      BY <2>1, <3>5
  <2>2. CASE ~(FromUtf8(c) /\ ~eof)
    BY <1>3, <2>2
  <2>3. QED
    BY <2>1, <2>2
<1> HIDE DEF ls, off
<1>8. eof \in BOOLEAN
  OBVIOUS
<1>9. /\ p \in Preview /\ p.is_text /\ p.lines = ls /\ p.total = n /\ p.eof = eof /\ p.offset = off
      /\ p.first = 0 /\ p.scroll = 0 /\ ~p.hung
  <2> HIDE DEF n, eof
  <2>1. p = [is_text |-> TRUE, lines |-> ls, first |-> 0, total |-> n,
             offset |-> off, eof |-> eof, scroll |-> 0, hung |-> FALSE]
    <3> DEFINE o == Opened(TRUE)
    <3>1. o = [is_text |-> TRUE, lines |-> <<>>, first |-> 0, total |-> 0,
               offset |-> 0, eof |-> FALSE, scroll |-> 0, hung |-> FALSE]
      BY OpenedIs
    <3>2. p = [o EXCEPT !.lines = ls, !.total = n, !.eof = eof, !.offset = off]
      BY <1>4
    <3> HIDE DEF o
    <3>3. QED
      BY <3>1, <3>2, Filled
  <2>2. QED
    BY <1>5, <1>6, <1>7, <1>8, <2>1 DEF Preview
<1>10. Booked(p) /\ Framed(p)
  <2> HIDE DEF n
  <2>1. Len(p.lines) = n
    BY <1>6, <1>9
  <2>2. QED
    BY <1>1, <1>5, <1>9, <2>1 DEF Booked, Framed
<1>11. ASSUME FromUtf8(c)
       PROVE  Shown(p)
  <2> DEFINE K == NewlineCount(file)
             l == NewlineCount(c)
  <2>1. K \in Nat /\ ReadCount(file) \in Nat /\ ReadCount(file) <= K + 1
    BY NewlineCounts, ReadCountIs
  <2>2. /\ l \in 0 .. K
        /\ \A k \in 0 .. l : EndOf(c, k) = EndOf(file, k)
        /\ \A k \in 1 .. l : Line(c, k) = Line(file, k)
    BY <1>1, EndsInCut DEF c
  <2>3. CASE eof
    <3>1. c = file
      <4>1. ~(ChunkBytes < Len(file))
        BY <1>1, <1>2, <1>3, <2>3
      <4>2. c = SubSeq(file, 1, Len(file))
        BY <4>1 DEF c, Cut
      <4>3. QED
        BY <1>2, <1>3, <4>1, SeqEqual DEF Bytes
    <3>2. n = K + 1 /\ off = Len(file)
      BY <1>7, <1>11, <2>3, <3>1
    <3>3. EndOf(file, K + 1) = Len(file)
      BY <2>1 DEF EndOf
    <3>4. \A i \in 1 .. n : ls[i] = Line(file, i)
      BY <3>1 DEF ls
    <3> HIDE DEF n, K
    <3>5. \A i \in 1 .. Len(p.lines) : p.lines[i] = Line(file, p.first + i)
      <4>1. \A i \in 1 .. n : 0 + i = i
        BY <1>5
      <4>2. QED
        BY <1>6, <1>9, <3>4, <4>1
    <3>6. p.total <= K + 1 /\ p.offset = EndOf(file, p.total) /\ p.total >= ReadCount(file)
      BY <1>9, <2>1, <3>2, <3>3
    <3>7. QED
      BY <3>5, <3>6 DEF Shown, K
  <2>4. CASE ~eof
    <3>1. n = l /\ off = EndOf(c, l) /\ l \in Nat
      BY <1>3, <1>7, <1>11, <2>4
    <3>2. EndOf(c, l) = EndOf(file, l) /\ l <= K
      BY <2>1, <2>2, <3>1
    <3>3. \A i \in 1 .. n : ls[i] = Line(c, i)
      BY DEF ls
    <3> HIDE DEF n, K, l
    <3>4. \A i \in 1 .. Len(p.lines) : p.lines[i] = Line(file, p.first + i)
      <4>1. \A i \in 1 .. n : 0 + i = i
        BY <1>5
      <4>2. QED
        BY <1>6, <1>9, <2>2, <3>1, <3>3, <4>1
    <3>5. p.total <= K + 1 /\ p.offset = EndOf(file, p.total)
      BY <1>9, <2>1, <3>1, <3>2
    <3>6. ~p.eof
      BY <1>9, <2>4
    <3>7. QED
      BY <3>4, <3>5, <3>6 DEF Shown, K
  <2>5. QED
    BY <2>3, <2>4
<1>12. QED
  BY <1>10, <1>11 DEF Steady, p, c

LEMMA OpeningIsOK ==
  ASSUME PagerOK, FileOK, NEW p \in LoadFilePreview(file)
  PROVE  Booked(p) /\ Framed(p) /\ Steady(p)
<1>1. <<>> \in Seq(Bytes)
  BY EmptySeq
<1>2. ASSUME NEW b \in BOOLEAN, NEW e \in BOOLEAN, b \/ e, b => file \in Bytes /\ file # Gone,
             p = [is_text |-> b, lines |-> <<>>, first |-> 0, total |-> 0,
                  offset |-> 0, eof |-> e, scroll |-> 0, hung |-> FALSE]
      PROVE  Booked(p) /\ Framed(p) /\ Steady(p)
  <2>1. p \in Preview
    BY <1>1, <1>2 DEF Preview
  <2>2. /\ p.lines = <<>> /\ p.first = 0 /\ p.total = 0 /\ p.offset = 0 /\ (p.is_text \/ p.eof)
        /\ ~p.hung /\ p.is_text = b
    BY <1>2
  <2>3. Booked(p) /\ Framed(p) /\ (file \in Bytes => Shown(p))
    BY <2>1, <2>2, EmptyIsOK
  <2>4. QED
    BY <1>2, <2>2, <2>3 DEF Steady
<1>3. CASE p = Unreadable
  BY <1>2, <1>3 DEF Unreadable
<1>4. CASE p = Opened(FALSE)
  BY <1>2, <1>4 DEF Opened, Unreadable
<1>5. CASE file \notin {Gone, <<>>}
  <2>1. file \in Bytes /\ file # Gone
    BY <1>5 DEF FileOK
  <2>2. CASE p = FirstChunk(file)
    BY <2>1, <2>2, FirstChunkIsOK
  <2>3. CASE p = Opened(TRUE)
    BY <1>2, <2>1, <2>3 DEF Opened, Unreadable
  <2>4. CASE p = [Opened(TRUE) EXCEPT !.eof = TRUE]
    <3>1. p = [is_text |-> TRUE, lines |-> <<>>, first |-> 0, total |-> 0,
               offset |-> 0, eof |-> TRUE, scroll |-> 0, hung |-> FALSE]
      BY <2>4 DEF Opened, Unreadable
    <3>2. QED
      BY <1>2, <2>1, <3>1
  <2>5. p \in {Opened(FALSE), FirstChunk(file), Opened(TRUE), [Opened(TRUE) EXCEPT !.eof = TRUE]}
    BY <1>5, Zenon DEF LoadFilePreview
  <2>6. QED
    BY <1>4, <2>2, <2>3, <2>4, <2>5
<1>6. CASE file \in {Gone, <<>>}
  BY <1>3, <1>6 DEF LoadFilePreview
<1>7. QED
  BY <1>5, <1>6

-----------------------------------------------------------------------------
(* The keys.                                                               *)

LEMMA Scrolled ==
  ASSUME NEW p, Booked(p), NEW n \in Nat
  PROVE  LET q == [p EXCEPT !.scroll = n] IN
         /\ Kept(q, p) /\ q.scroll = n
         /\ q.first = p.first /\ q.total = p.total /\ q.lines = p.lines /\ q.eof = p.eof
<1> DEFINE q == [p EXCEPT !.scroll = n]
<1>1. p \in Preview
  BY DEF Booked
<1>2. /\ q \in Preview /\ q.scroll = n /\ q.is_text = p.is_text /\ q.hung = p.hung
      /\ q.offset = p.offset
      /\ q.first = p.first /\ q.total = p.total /\ q.lines = p.lines /\ q.eof = p.eof
  BY <1>1 DEF Preview
<1> HIDE DEF q
<1>3. Booked(q)
  BY <1>2 DEF Booked
<1>4. Shown(p) => Shown(q)
  BY <1>2 DEF Shown
<1>5. QED
  BY <1>2, <1>3, <1>4 DEF Kept, q

\* A preview whose cursor is not above the window, as Clamped leaves it.
LEMMA ClampedIsOK ==
  ASSUME NEW p, Booked(p), p.total > 0 => p.is_text /\ p.first <= p.scroll
  PROVE  Kept(Clamped(p), p) /\ Framed(Clamped(p))
<1> DEFINE n == IF p.scroll < LastLine(p) THEN p.scroll ELSE LastLine(p)
           q == [p EXCEPT !.scroll = n]
<1>1. p.scroll \in Nat /\ p.total \in Nat /\ p.first \in Nat /\ p \in Preview
  BY DEF Booked, Preview
<1>2. n \in Nat
  BY <1>1 DEF LastLine
<1>3. Clamped(p) = q
  BY DEF Clamped
<1>4. p.total > 0 => p.first <= n /\ n < p.total
  BY <1>1 DEF LastLine, Booked
<1> HIDE DEF n
<1>5. Kept(q, p) /\ q.scroll = n /\ q.first = p.first /\ q.total = p.total
  BY <1>2, Scrolled
<1> HIDE DEF q
<1>6. QED
  BY <1>3, <1>4, <1>5 DEF Kept, Framed

\* j and d: down n lines, with a load when the end of the window is near.
LEMMA DownIsOK ==
  ASSUME PagerOK, FileOK, NEW p, Booked(p), Framed(p), NEW n \in Nat, NEW r,
         LET q == [p EXCEPT !.scroll = @ + n] IN
           r = q \/ (r = LoadMore(q) /\ q.scroll + Ahead >= LastLoaded(q))
  PROVE  Kept(Clamped(r), p) /\ Framed(Clamped(r))
<1> DEFINE m == p.scroll + n
           q == [p EXCEPT !.scroll = m]
<1>1. p.scroll \in Nat /\ p.total \in Nat /\ p.first \in Nat /\ m \in Nat /\ Ahead \in Nat
  BY DEF Booked, Preview, PagerOK, SizesOK
<1>2. r = q \/ (r = LoadMore(q) /\ q.scroll + Ahead >= LastLoaded(q))
  OBVIOUS
<1>3. p.total > 0 => p.is_text /\ p.first <= m
  BY <1>1 DEF Framed
<1> HIDE DEF m
<1>4. /\ Kept(q, p) /\ q.scroll = m
      /\ q.first = p.first /\ q.total = p.total /\ q.lines = p.lines
  BY <1>1, Scrolled
<1> HIDE DEF q
<1>5. Booked(q) /\ q.is_text = p.is_text /\ q.first + Len(q.lines) = q.total
  BY <1>4 DEF Kept, Booked
<1>6. CASE r = q
  <2>1. r.total > 0 => r.is_text /\ r.first <= r.scroll
    BY <1>3, <1>4, <1>5, <1>6
  <2>2. Kept(Clamped(r), r) /\ Framed(Clamped(r))
    BY <1>5, <1>6, <2>1, ClampedIsOK
  <2>3. QED
    BY <1>4, <1>6, <2>2, KeptOnce
<1>7. CASE r = LoadMore(q) /\ q.scroll + Ahead >= LastLoaded(q)
  <2>1. /\ Booked(r) /\ r.is_text = q.is_text /\ r.scroll = q.scroll
        /\ q.first <= r.first
        /\ r.first = q.first \/ r.first <= q.total - Ahead
    BY <1>5, <1>7, LoadKeeps
  <2>2. Kept(r, q)
    BY <1>5, <1>7, LoadIsKept
  <2>3. m + Ahead >= p.total
    BY <1>4, <1>5, <1>7 DEF LastLoaded
  <2>4. r.first \in Nat /\ r.total \in Nat
    BY <2>1 DEF Booked, Preview
  <2>5. r.first <= r.scroll
    <3>1. p.first <= m
      <4>1. CASE p.total > 0
        BY <1>3, <4>1
      <4>2. CASE p.total = 0
        <5>1. p.first + Len(p.lines) = 0 /\ Len(p.lines) \in Nat
          BY <4>2 DEF Booked, Preview
        <5>2. QED
          BY <1>1, <5>1
      <4>3. QED
        BY <1>1, <4>1, <4>2
    <3>2. QED
      BY <1>1, <1>4, <2>1, <2>3, <2>4, <3>1
  <2>6. r.total > 0 => r.is_text
    BY <1>3, <1>4, <1>5, <2>1, <2>2 DEF Kept
  <2>7. Kept(Clamped(r), r) /\ Framed(Clamped(r))
    BY <2>1, <2>5, <2>6, ClampedIsOK
  <2>8. QED
    BY <1>4, <2>2, <2>7, KeptOnce
<1>8. QED
  BY <1>2, <1>6, <1>7

\* k and u.
LEMMA UpIsOK ==
  ASSUME NEW p, Booked(p), Framed(p), NEW n \in Nat
  PROVE  Kept(Up(p, n), p) /\ Framed(Up(p, n))
<1> DEFINE m == IF p.scroll - n < p.first THEN p.first ELSE p.scroll - n
           q == [p EXCEPT !.scroll = m]
<1>1. p.scroll \in Nat /\ p.total \in Nat /\ p.first \in Nat
  BY DEF Booked, Preview
<1>2. m \in Nat /\ (p.total > 0 => p.is_text /\ p.first <= m /\ m < p.total)
  BY <1>1 DEF Framed
<1>3. Up(p, n) = q
  BY DEF Up
<1> HIDE DEF m
<1>4. Kept(q, p) /\ q.scroll = m /\ q.first = p.first /\ q.total = p.total
  BY <1>2, Scrolled
<1> HIDE DEF q
<1>5. QED
  BY <1>2, <1>3, <1>4 DEF Kept, Framed

\* g: to the first line, which is read again once it is out of the window.
LEMMA TopIsOK ==
  ASSUME PagerOK, FileOK, NEW p, Booked(p), Framed(p)
  PROVE  Kept(Top(p), p) /\ Framed(Top(p))
<1>1. /\ p.scroll \in Nat /\ p.total \in Nat /\ p.first \in Nat /\ p \in Preview
      /\ Len(p.lines) \in Nat
  BY DEF Booked, Preview
<1>2. CASE ~(p.first > 0)
  <2> DEFINE q == [p EXCEPT !.scroll = 0]
  <2>1. Top(p) = q
    BY <1>2 DEF Top
  <2>2. Kept(q, p) /\ q.scroll = 0 /\ q.first = p.first /\ q.total = p.total
    BY Scrolled
  <2> HIDE DEF q
  <2>3. QED
    BY <1>1, <1>2, <2>1, <2>2 DEF Kept, Framed
<1>3. CASE p.first > 0
  <2> DEFINE a == [p EXCEPT !.lines = <<>>, !.first = 0, !.total = 0, !.offset = 0,
                            !.eof = FALSE, !.scroll = 0]
             q == LoadMore(a)
  <2>1. p.total > 0 /\ p.is_text
    <3>1. p.first + Len(p.lines) = p.total
      BY DEF Booked
    <3>2. p.total > 0
      BY <1>1, <1>3, <3>1
    <3>3. QED
      BY <3>2 DEF Framed
  <2>2. Top(p) = q
    BY <1>3 DEF Top, ReloadFromStart
  <2> HIDE DEF a
  <2>3. a = [p EXCEPT !.lines = <<>>, !.first = 0, !.total = 0, !.offset = 0,
                      !.eof = FALSE, !.scroll = 0]
    BY DEF a
  <2>4. <<>> \in Seq(Bytes)
    BY EmptySeq
  <2>5. /\ a \in Preview /\ a.lines = <<>> /\ a.first = 0 /\ a.total = 0 /\ a.offset = 0
        /\ a.scroll = 0 /\ a.is_text = p.is_text /\ a.hung = p.hung
    BY <1>1, <2>3, <2>4 DEF Preview
  <2>6. Booked(a) /\ (file \in Bytes => Shown(a))
    BY <2>1, <2>5, EmptyIsOK DEF Booked
  <2>7. /\ Booked(q) /\ q.is_text = a.is_text /\ q.scroll = a.scroll
        /\ a.first <= q.first
        /\ q.first = a.first \/ q.first <= a.total - Ahead
    BY <2>6, LoadKeeps
  <2>8. Kept(q, a)
    BY <2>6, LoadIsKept
  <2> HIDE DEF q
  <2>9. q.first \in Nat /\ q.total \in Nat /\ q.first = 0
    <3>1. q.first \in Nat /\ q.total \in Nat
      BY <2>7 DEF Booked, Preview
    <3>2. Ahead \in Nat
      BY DEF PagerOK, SizesOK
    <3>3. QED
      BY <2>5, <2>7, <3>1, <3>2
  <2>10. Framed(q)
    BY <2>1, <2>5, <2>7, <2>9 DEF Framed
  <2>11. file # Gone => Shown(q)
    BY <2>6, <2>8 DEF Kept, FileOK
  <2>12. QED
    BY <2>1, <2>2, <2>5, <2>7, <2>10, <2>11 DEF Kept
<1>4. QED
  BY <1>2, <1>3

\* G: to the last line, after the rest of the file.
LEMMA EndIsOK ==
  ASSUME PagerOK, FileOK, NEW p, Booked(p), Framed(p)
  PROVE  Kept(End(p), p) /\ Framed(End(p))
<1> DEFINE a == LoadToEof(p)
           q == [a EXCEPT !.scroll = LastLine(a)]
<1>1. Kept(a, p)
  BY LoadToEofEnds
<1>2. End(p) = q
  BY DEF End
<1> HIDE DEF a
<1>3. Booked(a) /\ a.total \in Nat /\ a.first \in Nat
  BY <1>1 DEF Kept, Booked, Preview
<1>4. LastLine(a) \in Nat /\ (a.total > 0 => a.first <= LastLine(a) /\ LastLine(a) < a.total)
  BY <1>3 DEF LastLine, Booked
<1>5. Kept(q, a) /\ q.scroll = LastLine(a) /\ q.first = a.first /\ q.total = a.total
  BY <1>3, <1>4, Scrolled
<1> HIDE DEF q
<1>6. a.total > 0 => a.is_text
  BY <1>1 DEF Kept, Framed
<1>7. Framed(q)
  BY <1>4, <1>5, <1>6 DEF Framed, Kept
<1>8. QED
  BY <1>1, <1>2, <1>5, <1>7, KeptOnce

-----------------------------------------------------------------------------
(* What stays so.                                                          *)

PagerIInv ==
  /\ FileOK
  /\ changes \in Nat
  /\ Booked(preview)
  /\ Framed(preview)
  /\ changes = 0 => Steady(preview)

LEMMA PagerInitOK ==
  ASSUME PagerOK
  PROVE  PagerInit => PagerIInv
<1> SUFFICES ASSUME PagerInit
             PROVE  PagerIInv
  OBVIOUS
<1>1. FileOK
  BY DEF PagerInit, FileOK, PagerOK, FilesOK, Bytes
<1>2. preview \in LoadFilePreview(file)
  BY DEF PagerInit
<1>3. Booked(preview) /\ Framed(preview) /\ Steady(preview)
  BY <1>1, <1>2, OpeningIsOK
<1>4. QED
  BY <1>1, <1>3 DEF PagerInit, PagerIInv

LEMMA PressKeeps ==
  ASSUME PagerIInv, NEW p, Press(p), Kept(p, preview), Framed(p)
  PROVE  PagerIInv'
<1>1. preview' = p /\ file' = file /\ changes' = changes
  BY DEF Press
<1>2. FileOK' /\ changes' \in Nat
  BY <1>1 DEF PagerIInv, FileOK
<1>3. Booked(preview') /\ Framed(preview')
  BY <1>1 DEF Kept
<1>4. changes = 0 => Steady(p)
  <2>1. changes = 0 => Steady(preview)
    BY DEF PagerIInv
  <2>2. QED
    BY <2>1 DEF Steady, Kept
<1>5. (changes = 0 => Steady(preview))'
  BY <1>1, <1>4 DEF Steady, Shown
<1>6. QED
  BY <1>2, <1>3, <1>5 DEF PagerIInv, Booked, Framed

LEMMA PagerStepOK ==
  ASSUME PagerOK, PagerIInv, [PagerNext]_pagerVars
  PROVE  PagerIInv'
<1>1. FileOK /\ Booked(preview) /\ Framed(preview) /\ changes \in Nat
  BY DEF PagerIInv
<1>2. HalfPage \in Nat
  BY DEF PagerOK, SizesOK
<1>3. CASE KeyDown
  <2> DEFINE q == [preview EXCEPT !.scroll = @ + 1]
             r == IF q.scroll + Ahead >= LastLoaded(q) THEN LoadMore(q) ELSE q
  <2>1. r = q \/ (r = LoadMore(q) /\ q.scroll + Ahead >= LastLoaded(q))
    OBVIOUS
  <2>2. Down(preview) = Clamped(r)
    BY DEF Down
  <2>3. Kept(Clamped(r), preview) /\ Framed(Clamped(r))
    <3> HIDE DEF r
    <3>1. QED
      BY <1>1, <2>1, DownIsOK
  <2>4. QED
    BY <1>3, <2>2, <2>3, PressKeeps DEF KeyDown
<1>4. CASE KeyHalfDown
  <2> DEFINE q == [preview EXCEPT !.scroll = @ + HalfPage]
             r == IF q.scroll + Ahead >= LastLoaded(q) /\ ~q.eof THEN LoadMore(q) ELSE q
  <2>1. r = q \/ (r = LoadMore(q) /\ q.scroll + Ahead >= LastLoaded(q))
    OBVIOUS
  <2>2. HalfDown(preview) = Clamped(r)
    BY DEF HalfDown
  <2>3. Kept(Clamped(r), preview) /\ Framed(Clamped(r))
    <3> HIDE DEF r
    <3>1. QED
      BY <1>1, <1>2, <2>1, DownIsOK
  <2>4. QED
    BY <1>4, <2>2, <2>3, PressKeeps DEF KeyHalfDown
<1>5. CASE KeyUp
  BY <1>1, <1>5, UpIsOK, PressKeeps DEF KeyUp
<1>6. CASE KeyHalfUp
  BY <1>1, <1>2, <1>6, UpIsOK, PressKeeps DEF KeyHalfUp
<1>7. CASE KeyTop
  BY <1>1, <1>7, TopIsOK, PressKeeps DEF KeyTop
<1>8. CASE KeyEnd
  BY <1>1, <1>8, EndIsOK, PressKeeps DEF KeyEnd
<1>9. CASE Change
  <2>1. FileOK'
    BY <1>9 DEF Change, FileOK, PagerOK, FilesOK, Bytes
  <2>2. changes' \in Nat /\ changes' # 0 /\ preview' = preview
    BY <1>1, <1>9 DEF Change
  <2>3. QED
    BY <1>1, <2>1, <2>2 DEF PagerIInv, Booked, Framed
<1>10. CASE UNCHANGED pagerVars
  BY <1>10 DEF pagerVars, PagerIInv, FileOK, Booked, Framed, Steady, Shown
<1>11. QED
  BY <1>3, <1>4, <1>5, <1>6, <1>7, <1>8, <1>9, <1>10 DEF PagerNext

\* Whatever the keys and whatever becomes of the file, the preview is well formed.
THEOREM PagerStays ==
  PagerSpec => []PagerIInv
<1>1. PagerInit => PagerIInv
  BY PagerOK, PagerInitOK
<1>2. PagerIInv /\ [PagerNext]_pagerVars => PagerIInv'
  BY PagerOK, PagerStepOK
<1>3. QED
  BY <1>1, <1>2, PTL DEF PagerSpec

\* G comes back, of a file of any length that changes or goes away at any time.
THEOREM LoadingEnds ==
  PagerSpec => []NeverSpins
<1>1. PagerIInv => NeverSpins
  BY DEF PagerIInv, Booked, NeverSpins
<1>2. QED
  BY <1>1, PagerStays, PTL

\* The renderer always finds the cursor's line in the window, and while the file
\* stays as it was opened, the window is its lines, none lost and none twice.
THEOREM WindowIsAlwaysTheFile ==
  PagerSpec => []WindowIsTheFile
<1>1. PagerIInv => WindowHoldsCursor
  <2> SUFFICES ASSUME PagerIInv
               PROVE  WindowHoldsCursor
    OBVIOUS
  <2>1. /\ preview.first \in Nat /\ preview.total \in Nat /\ preview.scroll \in Nat
        /\ preview.first + Len(preview.lines) = preview.total
        /\ Len(preview.lines) <= MaxLines
        /\ preview.total > 0 => preview.first <= preview.scroll /\ preview.scroll < preview.total
    BY DEF PagerIInv, Booked, Preview, Framed
  <2>2. preview.total > 0 => preview.scroll \in preview.first .. preview.total - 1
    BY <2>1
  <2>3. QED
    BY <2>1, <2>2 DEF WindowHoldsCursor
<1>2. PagerIInv => WindowHoldsLines
  <2> SUFFICES ASSUME PagerIInv, changes = 0, preview.is_text, FromUtf8(Cut(file, ChunkBytes))
               PROVE  LET all == Split(file) IN
                      /\ preview.total <= Len(all)
                      /\ \A i \in DOMAIN preview.lines :
                           LET l == all[preview.first + i] IN preview.lines[i] \in {l, NoCr(l)}
                      /\ preview.eof /\ FromUtf8(file) /\ preview.total > 0
                           => preview.total >= ReadCount(file)
    BY DEF WindowHoldsLines
  <2> DEFINE all == Split(file)
             K == NewlineCount(file)
  <2>1. file \in Bytes /\ Shown(preview)
    BY DEF PagerIInv, Steady
  <2>2. K \in Nat /\ Len(all) = K + 1 /\ \A k \in 1 .. K + 1 : all[k] = Line(file, k)
    <3>1. K \in Nat
      BY <2>1, NewlineCounts
    <3> HIDE DEF K
    <3>2. all = [k \in 1 .. K + 1 |-> Line(file, k)]
      BY DEF Split, K
    <3>3. \A k \in 1 .. K + 1 : Line(file, k) \in Bytes
      BY <2>1, <3>1, LineIs
    <3> HIDE DEF all
    <3>4. all = [k \in 1 .. K + 1 |-> all[k]] /\ \A k \in 1 .. K + 1 : all[k] \in Bytes
      BY <3>2, <3>3
    <3>5. Len(all) = K + 1
      BY <3>1, <3>4, MadeSeq
    <3>6. QED
      BY <3>1, <3>2, <3>5
  <2>3. preview.first \in Nat /\ preview.lines \in Seq(Bytes) /\ Len(preview.lines) \in Nat
        /\ preview.first + Len(preview.lines) = preview.total
    <3>1. preview \in Preview
      BY DEF PagerIInv, Booked
    <3>2. preview.lines \in Seq(Bytes)
      BY <3>1 DEF Preview
    <3>3. QED
      BY <3>1, <3>2 DEF Preview, PagerIInv, Booked
  <2>4. preview.total <= K + 1
    BY <2>1 DEF Shown
  <2>5. ASSUME NEW i \in DOMAIN preview.lines
        PROVE  preview.lines[i] \in {all[preview.first + i], NoCr(all[preview.first + i])}
    <3>1. i \in 1 .. Len(preview.lines)
      BY <2>3
    <3>2. preview.first + i \in 1 .. K + 1
      BY <2>2, <2>3, <2>4, <3>1
    <3>3. all[preview.first + i] = Line(file, preview.first + i)
      BY <2>2, <3>2
    <3>4. QED
      BY <2>1, <3>1, <3>3 DEF Shown
  <2>6. preview.eof /\ FromUtf8(file) /\ preview.total > 0 => preview.total >= ReadCount(file)
    BY <2>1 DEF Shown
  <2> HIDE DEF all
  <2>7. preview.total <= Len(all)
    BY <2>2, <2>4
  <2>8. QED
    BY <2>5, <2>6, <2>7 DEF all
<1>3. PagerIInv => WindowIsTheFile
  BY <1>1, <1>2 DEF WindowIsTheFile
<1>4. QED
  BY <1>3, PagerStays, PTL

================================================================================
