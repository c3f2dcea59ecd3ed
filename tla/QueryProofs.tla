------------------------------ MODULE QueryProofs ------------------------------
(***************************************************************************)
(* The answers of xdu-view's queries over any index that crawls can make,  *)
(* under any filters: an entry's totals are those of the listing it opens. *)
(*                                                                         *)
(* The argument: the rows below an entry are parted by the entries of its  *)
(* listing, each row by the component of its path after the entry's, and   *)
(* a sum or a greatest value over the parts is the one over the whole.     *)
(* The first sections say so of finite sums; the sorted listings they end  *)
(* in are sequences, which ViewProofs builds on.                           *)
(***************************************************************************)
EXTENDS View, FiniteSetTheorems, SequenceTheorems, WellFoundedInduction, TLAPS

-----------------------------------------------------------------------------
(* Sequences.                                                              *)

IsSeq(s) == \E S : s \in Seq(S)

LEMMA SeqFacts ==
  ASSUME NEW s, IsSeq(s)
  PROVE  /\ Len(s) \in Nat /\ DOMAIN s = 1 .. Len(s)
         /\ s \in Seq(Range(s))
         /\ s = <<>> <=> Len(s) = 0
<1>1. PICK S : s \in Seq(S)
  BY DEF IsSeq
<1>2. Len(s) \in Nat /\ DOMAIN s = 1 .. Len(s) /\ s = [i \in 1 .. Len(s) |-> s[i]]
  BY <1>1, LenProperties
<1>3. \A i \in 1 .. Len(s) : s[i] \in Range(s)
  BY <1>2 DEF Range
<1>4. s \in Seq(Range(s))
  <2>1. s \in [1 .. Len(s) -> Range(s)]
    BY <1>2, <1>3
  <2>2. QED
    BY <1>2, <2>1, SeqDef
<1>5. s = <<>> <=> Len(s) = 0
  BY <1>1, EmptySeq
<1>6. QED
  BY <1>2, <1>4, <1>5

LEMMA AppendIsSeq ==
  ASSUME NEW s, IsSeq(s), NEW x
  PROVE  /\ IsSeq(Append(s, x)) /\ Len(Append(s, x)) = Len(s) + 1
         /\ \A i \in 1 .. Len(s) : Append(s, x)[i] = s[i]
         /\ Append(s, x)[Len(s) + 1] = x
<1> DEFINE S == Range(s) \cup {x}
<1>1. s \in Seq(S) /\ x \in S
  <2>1. Range(s) \subseteq S
    OBVIOUS
  <2> HIDE DEF S
  <2>2. \A T : T \subseteq S => Seq(T) \subseteq Seq(S)
    OBVIOUS
  <2>3. QED
    BY <2>1, <2>2, SeqFacts DEF S
<1> HIDE DEF S
<1>2. Append(s, x) \in Seq(S)
  BY <1>1, AppendProperties
<1>3. QED
  BY <1>1, <1>2, AppendProperties, SeqFacts DEF IsSeq

LEMMA SubSeqIsSeq ==
  ASSUME NEW s, IsSeq(s), NEW n \in 0 .. Len(s)
  PROVE  /\ IsSeq(SubSeq(s, 1, n)) /\ Len(SubSeq(s, 1, n)) = n
         /\ \A i \in 1 .. n : SubSeq(s, 1, n)[i] = s[i]
<1>1. s \in Seq(Range(s)) /\ Len(s) \in Nat
  BY SeqFacts
<1>2. CASE n = 0
  <2>1. SubSeq(s, 1, n) = <<>>
    BY <1>1, <1>2, SubSeqProperties
  <2>2. <<>> \in Seq({})
    OBVIOUS
  <2>3. QED
    BY <1>2, <2>1, <2>2 DEF IsSeq
<1>3. CASE n # 0
  <2>1. n \in 1 .. Len(s) /\ 1 \in 1 .. n + 1 /\ n \in 0 .. Len(s)
    BY <1>1, <1>3
  <2>2. SubSeq(s, 1, n) \in Seq(Range(s)) /\ Len(SubSeq(s, 1, n)) = n
    BY <1>1, <2>1, SubSeqProperties
  <2>3. \A i \in 1 .. n : SubSeq(s, 1, n)[i] = s[i]
    BY <1>1, <2>1, SubSeqProperties
  <2>4. QED
    BY <2>2, <2>3 DEF IsSeq
<1>4. QED
  BY <1>2, <1>3

LEMMA EmptyIsSeq == IsSeq(<<>>) /\ Len(<<>>) = 0
<1>1. <<>> \in Seq({})
  OBVIOUS
<1>2. QED
  BY <1>1 DEF IsSeq

LEMMA SeqsEqual ==
  ASSUME NEW s, NEW t, IsSeq(s), IsSeq(t), Len(s) = Len(t), \A i \in 1 .. Len(s) : s[i] = t[i]
  PROVE  s = t
<1>1. PICK S : s \in Seq(S)
  BY DEF IsSeq
<1>2. PICK T : t \in Seq(T)
  BY DEF IsSeq
<1>3. s = [i \in 1 .. Len(s) |-> s[i]] /\ t = [i \in 1 .. Len(t) |-> t[i]]
  BY <1>1, <1>2, LenProperties
<1>4. QED
  BY <1>3

LEMMA PrefixIsElementwise ==
  ASSUME NEW s, NEW t, IsSeq(s), IsSeq(t)
  PROVE  IsPrefixPath(s, t) <=> Len(s) <= Len(t) /\ \A i \in 1 .. Len(s) : s[i] = t[i]
<1>1. Len(s) \in Nat /\ Len(t) \in Nat
  BY SeqFacts
<1>2. CASE Len(s) <= Len(t)
  <2>1. Len(s) \in 0 .. Len(t)
    BY <1>1, <1>2
  <2>2. /\ IsSeq(SubSeq(t, 1, Len(s))) /\ Len(SubSeq(t, 1, Len(s))) = Len(s)
        /\ \A i \in 1 .. Len(s) : SubSeq(t, 1, Len(s))[i] = t[i]
    BY <2>1, SubSeqIsSeq
  <2>3. (\A i \in 1 .. Len(s) : s[i] = t[i]) => SubSeq(t, 1, Len(s)) = s
    <3> SUFFICES ASSUME \A i \in 1 .. Len(s) : s[i] = t[i] PROVE SubSeq(t, 1, Len(s)) = s
      OBVIOUS
    <3> DEFINE u == SubSeq(t, 1, Len(s))
    <3>1. IsSeq(u) /\ Len(u) = Len(s) /\ \A i \in 1 .. Len(u) : u[i] = s[i]
      BY <2>2
    <3> HIDE DEF u
    <3>2. u = s
      BY <3>1, SeqsEqual
    <3>3. QED
      BY <3>2 DEF u
  <2>4. SubSeq(t, 1, Len(s)) = s => \A i \in 1 .. Len(s) : s[i] = t[i]
    BY <2>2
  <2>5. QED
    BY <1>2, <2>3, <2>4 DEF IsPrefixPath
<1>3. CASE ~(Len(s) <= Len(t))
  BY <1>3 DEF IsPrefixPath
<1>4. QED
  BY <1>2, <1>3

LEMMA PrefixFacts ==
  ASSUME NEW s, NEW t, IsSeq(s), IsSeq(t)
  PROVE  /\ IsPrefixPath(s, s)
         /\ IsPrefixPath(<<>>, t)
         /\ IsPrefixPath(s, t) => \A x : IsPrefixPath(s, Append(t, x))
         /\ IsPrefixPath(s, t) /\ t # s /\ t # <<>> =>
              IsSeq(Front(t)) /\ IsPrefixPath(s, Front(t))
<1>1. /\ Len(s) \in Nat /\ Len(t) \in Nat /\ Len(<<>>) = 0 /\ IsSeq(<<>>)
      /\ t = <<>> <=> Len(t) = 0
  BY SeqFacts, EmptyIsSeq
<1>2. IsPrefixPath(s, s) /\ IsPrefixPath(<<>>, t)
  BY <1>1, PrefixIsElementwise
<1>3. ASSUME IsPrefixPath(s, t), NEW x PROVE IsPrefixPath(s, Append(t, x))
  <2>1. Len(s) <= Len(t) /\ \A i \in 1 .. Len(s) : s[i] = t[i]
    BY <1>3, PrefixIsElementwise
  <2>2. /\ IsSeq(Append(t, x)) /\ Len(Append(t, x)) = Len(t) + 1
        /\ \A i \in 1 .. Len(t) : Append(t, x)[i] = t[i]
    BY AppendIsSeq
  <2>3. Len(s) <= Len(Append(t, x)) /\ \A i \in 1 .. Len(s) : s[i] = Append(t, x)[i]
    BY <1>1, <2>1, <2>2
  <2>4. QED
    BY <2>2, <2>3, PrefixIsElementwise
<1>4. ASSUME IsPrefixPath(s, t), t # s, t # <<>>
      PROVE  IsSeq(Front(t)) /\ IsPrefixPath(s, Front(t))
  <2>1. Len(s) <= Len(t) /\ \A i \in 1 .. Len(s) : s[i] = t[i]
    BY <1>4, PrefixIsElementwise
  <2>2. Len(s) # Len(t)
    BY <1>4, <2>1, SeqsEqual
  <2>3. Len(t) - 1 \in 0 .. Len(t) /\ Len(s) <= Len(t) - 1
    BY <1>1, <1>4, <2>1, <2>2
  <2>4. /\ IsSeq(Front(t)) /\ Len(Front(t)) = Len(t) - 1
        /\ \A i \in 1 .. Len(t) - 1 : Front(t)[i] = t[i]
    BY <2>3, SubSeqIsSeq DEF Front
  <2>5. Len(s) <= Len(Front(t)) /\ \A i \in 1 .. Len(s) : s[i] = Front(t)[i]
    BY <1>1, <2>1, <2>3, <2>4
  <2>6. QED
    BY <2>4, <2>5, PrefixIsElementwise
<1>5. QED
  BY <1>2, <1>3, <1>4

-----------------------------------------------------------------------------
(* Sums over finite sets.                                                  *)

LEMMA NatMin ==
  ASSUME NEW S \in SUBSET Nat, S # {}
  PROVE  \E m \in S : \A x \in S : m <= x
<1>1. PICK m \in S : \A x \in S : ~(<<x, m>> \in OpToRel(<, Nat))
  BY WFMin, NatLessThanWellFounded
<1>2. \A x \in S : ~(x < m)
  BY <1>1 DEF OpToRel
<1>3. QED
  BY <1>2

LEMMA MinIsIn ==
  ASSUME NEW S \in SUBSET Nat, S # {}
  PROVE  Min(S) \in S
  BY NatMin DEF Min

LEMMA SmallestSet ==
  ASSUME NEW SS, SS # {}, \A T \in SS : IsFiniteSet(T)
  PROVE  \E T \in SS : \A U \in SS : ~(Cardinality(U) < Cardinality(T))
<1> DEFINE C == {Cardinality(T) : T \in SS}
<1>1. C \in SUBSET Nat /\ C # {}
  BY FS_CardinalityType
<1>2. PICK m \in C : \A x \in C : m <= x
  BY <1>1, NatMin
<1>3. PICK T \in SS : m = Cardinality(T)
  OBVIOUS
<1>4. \A U \in SS : Cardinality(U) \in C
  OBVIOUS
<1> HIDE DEF C
<1>5. ASSUME NEW U \in SS PROVE ~(Cardinality(U) < Cardinality(T))
  <2> DEFINE n == Cardinality(U)
  <2>1. n \in C
    BY <1>4
  <2> HIDE DEF n
  <2>2. n \in Nat /\ m \in Nat /\ m <= n
    BY <1>1, <1>2, <2>1
  <2>3. QED
    BY <1>3, <2>2 DEF n
<1>6. QED
  BY <1>5

\* A finite set less one of its elements.
LEMMA LessOne ==
  ASSUME NEW T, IsFiniteSet(T), NEW x \in T
  PROVE  /\ IsFiniteSet(T \ {x}) /\ Cardinality(T \ {x}) < Cardinality(T)
         /\ Cardinality(T) = Cardinality(T \ {x}) + 1 /\ Cardinality(T \ {x}) \in Nat
<1>1. IsFiniteSet(T \ {x}) /\ Cardinality(T \ {x}) = Cardinality(T) - 1
  BY FS_RemoveElement
<1>2. Cardinality(T \ {x}) \in Nat /\ Cardinality(T) \in Nat
  BY <1>1, FS_CardinalityType
<1>3. QED
  BY <1>1, <1>2

Sum(f, T) == SumFunctionOnSet(f, T)
AnyOf(s)  == CHOOSE x \in s : TRUE

\* The fold's recursion over the subsets of a set.
Iterates(g, f, T) ==
  g = [s \in SUBSET T |-> IF s = {} THEN 0 ELSE f[AnyOf(s)] + g[s \ {AnyOf(s)}]]

LEMMA AnyIsIn == ASSUME NEW s, s # {} PROVE AnyOf(s) \in s
  BY DEF AnyOf

LEMMA IteratesValues ==
  ASSUME NEW f, NEW T, NEW g, Iterates(g, f, T), NEW s \in SUBSET T
  PROVE  g[s] = IF s = {} THEN 0 ELSE f[AnyOf(s)] + g[s \ {AnyOf(s)}]
  BY Zenon DEF Iterates

\* The recursion has a solution.
LEMMA SumIsDefined ==
  ASSUME NEW f, NEW T, IsFiniteSet(T)
  PROVE  \E g : Iterates(g, f, T)
<1> DEFINE Upto(n) == {s \in SUBSET T : Cardinality(s) <= n}
           Fits(g, n) == g = [s \in Upto(n) |->
                                IF s = {} THEN 0 ELSE f[AnyOf(s)] + g[s \ {AnyOf(s)}]]
           Bad == {n \in Nat : ~\E g : Fits(g, n)}
<1>1. \A s \in SUBSET T : IsFiniteSet(s) /\ Cardinality(s) \in Nat
                            /\ Cardinality(s) <= Cardinality(T)
  BY FS_Subset, FS_CardinalityType
<1>2. Bad = {}
  <2> SUFFICES ASSUME Bad # {} PROVE FALSE
    OBVIOUS
  <2>1. PICK n \in Bad : \A x \in Bad : n <= x
    <3>1. Bad \in SUBSET Nat
      OBVIOUS
    <3>2. QED
      BY <3>1, NatMin
  <2>2. n \in Nat /\ ~\E g : Fits(g, n)
    OBVIOUS
  <2>3. CASE n = 0
    <3> DEFINE g == [s \in Upto(0) |-> 0]
    <3>1. \A s \in Upto(0) : s = {}
      BY <1>1, FS_EmptySet
    <3>2. \A s \in Upto(0) : g[s] = IF s = {} THEN 0 ELSE f[AnyOf(s)] + g[s \ {AnyOf(s)}]
      BY <3>1
    <3>3. g = [s \in Upto(0) |-> g[s]]
      OBVIOUS
    <3> HIDE DEF g, Upto
    <3>4. Fits(g, 0)
      BY <3>2, <3>3
    <3>5. QED
      BY <2>2, <2>3, <3>4
  <2>4. CASE n # 0
    <3>1. n - 1 \in Nat /\ ~(n <= n - 1)
      BY <2>2, <2>4
    <3>2. PICK h : Fits(h, n - 1)
      BY <2>1, <3>1
    <3> DEFINE g == [s \in Upto(n) |->
                       IF s = {} THEN 0 ELSE f[AnyOf(s)] + h[s \ {AnyOf(s)}]]
    <3>3. \A s \in Upto(n) : s # {} => s \ {AnyOf(s)} \in Upto(n - 1)
      <4> SUFFICES ASSUME NEW s \in Upto(n), s # {} PROVE s \ {AnyOf(s)} \in Upto(n - 1)
        OBVIOUS
      <4>1. AnyOf(s) \in s /\ IsFiniteSet(s) /\ Cardinality(s) <= n
        BY <1>1, AnyIsIn
      <4>2. /\ Cardinality(s) = Cardinality(s \ {AnyOf(s)}) + 1
            /\ Cardinality(s \ {AnyOf(s)}) \in Nat
        BY <4>1, LessOne
      <4>3. QED
        BY <2>2, <4>1, <4>2
    <3>4. Upto(n - 1) \subseteq Upto(n)
      BY <1>1, <2>2, <3>1
    <3>5. \A s \in Upto(n - 1) : h[s] = IF s = {} THEN 0 ELSE f[AnyOf(s)] + h[s \ {AnyOf(s)}]
      <4> HIDE DEF Upto
      <4>1. QED
        BY <3>2, Zenon
    <3>6. \A s \in Upto(n - 1) : g[s] = h[s]
      <4> HIDE DEF Upto
      <4>1. QED
        BY <3>4, <3>5
    <3>7. \A s \in Upto(n) : g[s] = IF s = {} THEN 0 ELSE f[AnyOf(s)] + g[s \ {AnyOf(s)}]
      <4> HIDE DEF Upto
      <4>1. QED
        BY <3>3, <3>6
    <3>8. g = [s \in Upto(n) |-> g[s]]
      OBVIOUS
    <3> HIDE DEF g, Upto
    <3>9. Fits(g, n)
      BY <3>7, <3>8
    <3>10. QED
      BY <2>2, <3>9
  <2>5. QED
    BY <2>3, <2>4
<1>3. Cardinality(T) \in Nat
  BY FS_CardinalityType
<1>4. PICK g : Fits(g, Cardinality(T))
  BY <1>2, <1>3
<1>5. Upto(Cardinality(T)) = SUBSET T
  BY <1>1
<1>6. QED
  BY <1>4, <1>5, Zenon DEF Iterates

LEMMA SumIterates ==
  ASSUME NEW f, NEW T, IsFiniteSet(T)
  PROVE  \E g : Iterates(g, f, T) /\ Sum(f, T) = g[T]
<1> DEFINE iter == CHOOSE g : Iterates(g, f, T)
<1>1. Iterates(iter, f, T)
  BY SumIsDefined, Zenon
<1>2. Sum(f, T) = iter[T]
  BY Zenon DEF Sum, SumFunctionOnSet, FoldFunctionOnSet, MapThenFoldSet, Iterates, AnyOf
<1>3. QED
  BY <1>1, <1>2

LEMMA SumOfNone == ASSUME NEW f PROVE Sum(f, {}) = 0
<1>1. PICK g : Iterates(g, f, {}) /\ Sum(f, {}) = g[{}]
  BY SumIterates, FS_EmptySet
<1>2. QED
  BY <1>1, IteratesValues

\* The fold takes any of the elements away and goes on.
LEMMA SumStep ==
  ASSUME NEW f, NEW T, IsFiniteSet(T), T # {}
  PROVE  Sum(f, T) = f[AnyOf(T)] + Sum(f, T \ {AnyOf(T)})
<1> DEFINE R == T \ {AnyOf(T)}
<1>1. PICK g : Iterates(g, f, T) /\ Sum(f, T) = g[T]
  BY SumIterates
<1>2. IsFiniteSet(R)
  BY FS_Subset
<1>3. PICK h : Iterates(h, f, R) /\ Sum(f, R) = h[R]
  BY <1>2, SumIterates
<1> HIDE DEF R
<1>4. R \subseteq T
  BY DEF R
<1>5. \A s \in SUBSET R : g[s] = h[s]
  <2> DEFINE Bad == {s \in SUBSET R : g[s] # h[s]}
  <2> SUFFICES ASSUME Bad # {} PROVE FALSE
    OBVIOUS
  <2>1. \A s \in Bad : IsFiniteSet(s)
    BY <1>2, FS_Subset
  <2>2. PICK s \in Bad : \A u \in Bad : ~(Cardinality(u) < Cardinality(s))
    <3> HIDE DEF Bad
    <3>1. QED
      BY <2>1, SmallestSet
  <2>3. s \in SUBSET R /\ s \in SUBSET T /\ g[s] # h[s] /\ IsFiniteSet(s)
    BY <1>4, <2>1
  <2>4. /\ g[s] = IF s = {} THEN 0 ELSE f[AnyOf(s)] + g[s \ {AnyOf(s)}]
        /\ h[s] = IF s = {} THEN 0 ELSE f[AnyOf(s)] + h[s \ {AnyOf(s)}]
    BY <1>1, <1>3, <2>3, IteratesValues
  <2>5. CASE s = {}
    BY <2>3, <2>4, <2>5
  <2>6. CASE s # {}
    <3>1. Cardinality(s \ {AnyOf(s)}) < Cardinality(s)
      BY <2>3, <2>6, AnyIsIn, LessOne
    <3>2. s \ {AnyOf(s)} \in SUBSET R
      BY <2>3
    <3>3. s \ {AnyOf(s)} \notin Bad
      BY <2>2, <3>1
    <3>4. g[s \ {AnyOf(s)}] = h[s \ {AnyOf(s)}]
      BY <3>2, <3>3
    <3>5. QED
      BY <2>3, <2>4, <2>6, <3>4
  <2>7. QED
    BY <2>5, <2>6
<1>6. Sum(f, T) = f[AnyOf(T)] + g[R]
  BY <1>1, IteratesValues DEF R
<1>7. QED
  BY <1>3, <1>5, <1>6 DEF R

LEMMA SumIsInt ==
  ASSUME NEW f, NEW T, IsFiniteSet(T), \A x \in T : f[x] \in Int
  PROVE  Sum(f, T) \in Int
<1> DEFINE Bad == {s \in SUBSET T : Sum(f, s) \notin Int}
<1> SUFFICES ASSUME Bad # {} PROVE FALSE
  OBVIOUS
<1>1. \A s \in Bad : IsFiniteSet(s)
  BY FS_Subset
<1>2. PICK s \in Bad : \A u \in Bad : ~(Cardinality(u) < Cardinality(s))
  <2> HIDE DEF Bad
  <2>1. QED
    BY <1>1, SmallestSet
<1>3. s \in SUBSET T /\ Sum(f, s) \notin Int /\ IsFiniteSet(s)
  BY <1>1
<1>4. s # {}
  BY <1>3, SumOfNone
<1>5. AnyOf(s) \in s
  BY <1>4, AnyIsIn
<1>6. Sum(f, s) = f[AnyOf(s)] + Sum(f, s \ {AnyOf(s)})
  BY <1>3, <1>4, SumStep
<1>7. s \ {AnyOf(s)} \notin Bad
  BY <1>2, <1>3, <1>5, LessOne
<1>8. Sum(f, s \ {AnyOf(s)}) \in Int /\ f[AnyOf(s)] \in Int
  BY <1>3, <1>5, <1>7
<1>9. QED
  BY <1>3, <1>6, <1>8

\* So does taking away any other one.
LEMMA SumWithout ==
  ASSUME NEW f, NEW T, IsFiniteSet(T), \A x \in T : f[x] \in Int, NEW y \in T
  PROVE  Sum(f, T) = f[y] + Sum(f, T \ {y})
<1> DEFINE Bad == {s \in SUBSET T : \E x \in s : Sum(f, s) # f[x] + Sum(f, s \ {x})}
<1> SUFFICES ASSUME Bad # {} PROVE FALSE
  OBVIOUS
<1>1. \A s \in Bad : IsFiniteSet(s)
  BY FS_Subset
<1>2. PICK s \in Bad : \A u \in Bad : ~(Cardinality(u) < Cardinality(s))
  <2> HIDE DEF Bad
  <2>1. QED
    BY <1>1, SmallestSet
<1>3. s \in SUBSET T /\ IsFiniteSet(s)
  BY <1>1
<1>4. PICK x \in s : Sum(f, s) # f[x] + Sum(f, s \ {x})
  OBVIOUS
<1> DEFINE c == AnyOf(s)
<1>5. c \in s /\ Sum(f, s) = f[c] + Sum(f, s \ {c})
  BY <1>3, <1>4, AnyIsIn, SumStep
<1> HIDE DEF c
<1>6. x # c
  BY <1>4, <1>5
<1>7. s \ {c} \notin Bad /\ s \ {x} \notin Bad
  BY <1>2, <1>3, <1>5, LessOne
<1>8. /\ Sum(f, s \ {c}) = f[x] + Sum(f, (s \ {c}) \ {x})
      /\ Sum(f, s \ {x}) = f[c] + Sum(f, (s \ {x}) \ {c})
  BY <1>3, <1>5, <1>6, <1>7
<1>9. (s \ {c}) \ {x} = (s \ {x}) \ {c}
  OBVIOUS
<1>10. Sum(f, (s \ {x}) \ {c}) \in Int /\ f[x] \in Int /\ f[c] \in Int
  <2>1. IsFiniteSet((s \ {x}) \ {c})
    BY <1>3, FS_Subset
  <2>2. QED
    BY <1>3, <1>5, <2>1, SumIsInt
<1>11. Sum(f, s) = f[c] + (f[x] + Sum(f, (s \ {x}) \ {c}))
  BY <1>5, <1>8, <1>9, Zenon
<1>12. Sum(f, s) # f[x] + (f[c] + Sum(f, (s \ {x}) \ {c}))
  BY <1>4, <1>8, Zenon
<1>13. \A i, j, k \in Int : i + (j + k) = j + (i + k)
  OBVIOUS
<1>14. QED
  BY <1>10, <1>11, <1>12, <1>13, Zenon

LEMMA SumOfSame ==
  ASSUME NEW f, NEW g, NEW T, IsFiniteSet(T), \A x \in T : f[x] = g[x]
  PROVE  Sum(f, T) = Sum(g, T)
<1> DEFINE Bad == {s \in SUBSET T : Sum(f, s) # Sum(g, s)}
<1> SUFFICES ASSUME Bad # {} PROVE FALSE
  OBVIOUS
<1>1. \A s \in Bad : IsFiniteSet(s)
  BY FS_Subset
<1>2. PICK s \in Bad : \A u \in Bad : ~(Cardinality(u) < Cardinality(s))
  <2> HIDE DEF Bad
  <2>1. QED
    BY <1>1, SmallestSet
<1>3. s \in SUBSET T /\ Sum(f, s) # Sum(g, s) /\ IsFiniteSet(s)
  BY <1>1
<1>4. s # {}
  BY <1>3, SumOfNone
<1> DEFINE c == AnyOf(s)
           r == s \ {c}
<1>5. c \in s
  BY <1>4, AnyIsIn
<1>6. Sum(f, s) = f[c] + Sum(f, r) /\ Sum(g, s) = g[c] + Sum(g, r)
  BY <1>3, <1>4, SumStep
<1>7. r \notin Bad
  BY <1>2, <1>3, <1>5, LessOne
<1>8. Sum(f, r) = Sum(g, r) /\ f[c] = g[c]
  BY <1>3, <1>5, <1>7
<1> HIDE DEF c, r
<1>9. QED
  BY <1>3, <1>6, <1>8, Zenon

LEMMA SumOfUnion ==
  ASSUME NEW f, NEW A, NEW B, IsFiniteSet(A), IsFiniteSet(B), A \cap B = {},
         \A x \in A \cup B : f[x] \in Int
  PROVE  Sum(f, A \cup B) = Sum(f, A) + Sum(f, B)
<1> DEFINE Bad == {s \in SUBSET B : Sum(f, A \cup s) # Sum(f, A) + Sum(f, s)}
<1> SUFFICES ASSUME Bad # {} PROVE FALSE
  OBVIOUS
<1>1. \A s \in Bad : IsFiniteSet(s)
  BY FS_Subset
<1>2. PICK s \in Bad : \A u \in Bad : ~(Cardinality(u) < Cardinality(s))
  <2> HIDE DEF Bad
  <2>1. QED
    BY <1>1, SmallestSet
<1>3. s \in SUBSET B /\ Sum(f, A \cup s) # Sum(f, A) + Sum(f, s) /\ IsFiniteSet(s)
  BY <1>1
<1>4. Sum(f, A) \in Int
  BY SumIsInt
<1>5. s # {}
  <2>1. ASSUME s = {} PROVE FALSE
    <3>1. A \cup s = A /\ Sum(f, s) = 0
      BY <2>1, SumOfNone
    <3>2. Sum(f, A) + 0 = Sum(f, A)
      BY <1>4
    <3>3. QED
      BY <1>3, <3>1, <3>2, Zenon
  <2>2. QED
    BY <2>1
<1>6. PICK c \in s : TRUE
  BY <1>5
<1> DEFINE r == s \ {c}
<1>7. IsFiniteSet(A \cup s) /\ IsFiniteSet(r) /\ r \in SUBSET B
  BY <1>3, FS_Union, FS_Subset
<1>8. (A \cup s) \ {c} = A \cup r
  BY <1>3, <1>6
<1>9. r \notin Bad
  BY <1>2, <1>3, <1>6, LessOne
<1>10. Sum(f, A \cup r) = Sum(f, A) + Sum(f, r)
  BY <1>7, <1>9
<1>11. Sum(f, A \cup s) = f[c] + Sum(f, A \cup r)
  BY <1>3, <1>6, <1>7, <1>8, SumWithout
<1>12. Sum(f, s) = f[c] + Sum(f, r)
  BY <1>3, <1>6, SumWithout
<1>13. Sum(f, r) \in Int /\ f[c] \in Int
  BY <1>3, <1>6, <1>7, SumIsInt
<1>14. \A i, j, k \in Int : i + (j + k) = j + (i + k)
  OBVIOUS
<1> HIDE DEF r, Bad
<1>15. f[c] + (Sum(f, A) + Sum(f, r)) = Sum(f, A) + (f[c] + Sum(f, r))
  BY <1>4, <1>13, <1>14
<1>16. QED
  BY <1>3, <1>10, <1>11, <1>12, <1>15, Zenon

\* A sum taken piece by piece.
LEMMA SumOfPieces ==
  ASSUME NEW f, NEW F, IsFiniteSet(F), \A x \in F : f[x] \in Int,
         NEW L, IsFiniteSet(L), NEW P, \A l \in L : P[l] \subseteq F,
         \A l, m \in L : l # m => P[l] \cap P[m] = {},
         \A x \in F : \E l \in L : x \in P[l],
         NEW g, \A l \in L : g[l] = Sum(f, P[l])
  PROVE  Sum(f, F) = Sum(g, L)
<1> DEFINE All(s) == UNION {P[l] : l \in s}
           Bad == {s \in SUBSET L : Sum(f, All(s)) # Sum(g, s)}
<1>1. Bad = {}
  <2> SUFFICES ASSUME Bad # {} PROVE FALSE
    OBVIOUS
  <2>1. \A s \in Bad : IsFiniteSet(s)
    BY FS_Subset
  <2>2. PICK s \in Bad : \A u \in Bad : ~(Cardinality(u) < Cardinality(s))
    <3> HIDE DEF Bad
    <3>1. QED
      BY <2>1, SmallestSet
  <2>3. s \in SUBSET L /\ Sum(f, All(s)) # Sum(g, s) /\ IsFiniteSet(s)
    BY <2>1
  <2>4. s # {}
    <3>1. ASSUME s = {} PROVE FALSE
      <4>1. All(s) = {}
        BY <3>1
      <4>2. QED
        BY <2>3, <3>1, <4>1, SumOfNone
    <3>2. QED
      BY <3>1
  <2>5. PICK l \in s : TRUE
    BY <2>4
  <2> DEFINE r == s \ {l}
  <2>6. r \in SUBSET L /\ r \notin Bad
    BY <2>2, <2>3, <2>5, LessOne
  <2>7. Sum(f, All(r)) = Sum(g, r)
    BY <2>6
  <2>8. All(s) = All(r) \cup P[l]
    BY <2>5
  <2>9. All(r) \cap P[l] = {}
    BY <2>3, <2>5
  <2>10. All(r) \subseteq F /\ P[l] \subseteq F
    BY <2>3, <2>5
  <2> HIDE DEF All
  <2>11. IsFiniteSet(All(r)) /\ IsFiniteSet(P[l])
    BY <2>10, FS_Subset
  <2>12. Sum(f, All(s)) = Sum(f, All(r)) + Sum(f, P[l])
    <3> DEFINE A == All(r)
               B == P[l]
    <3>1. IsFiniteSet(A) /\ IsFiniteSet(B) /\ A \cap B = {} /\ \A x \in A \cup B : f[x] \in Int
      BY <2>9, <2>10, <2>11
    <3> HIDE DEF A, B
    <3>2. Sum(f, A \cup B) = Sum(f, A) + Sum(f, B)
      BY <3>1, SumOfUnion
    <3>3. QED
      BY <2>8, <3>2 DEF A, B
  <2>13. \A m \in L : g[m] \in Int
    <3>1. \A m \in L : IsFiniteSet(P[m])
      BY FS_Subset
    <3>2. QED
      BY <3>1, SumIsInt
  <2>14. Sum(g, s) = g[l] + Sum(g, r)
    BY <2>3, <2>5, <2>13, SumWithout
  <2>15. Sum(g, r) \in Int /\ g[l] \in Int /\ g[l] = Sum(f, P[l])
    <3>1. IsFiniteSet(r)
      BY <2>3, FS_Subset
    <3>2. QED
      BY <2>3, <2>5, <2>6, <2>13, <3>1, SumIsInt
  <2> HIDE DEF r, Bad
  <2>16. QED
    BY <2>3, <2>7, <2>12, <2>14, <2>15
<1>2. All(L) = F
  OBVIOUS
<1>3. QED
  BY <1>1, <1>2

LEMMA CardinalityIsSum ==
  ASSUME NEW f, NEW T, IsFiniteSet(T), \A x \in T : f[x] = 1
  PROVE  Cardinality(T) = Sum(f, T)
<1> DEFINE Bad == {s \in SUBSET T : Cardinality(s) # Sum(f, s)}
<1> SUFFICES ASSUME Bad # {} PROVE FALSE
  OBVIOUS
<1>1. \A s \in Bad : IsFiniteSet(s)
  BY FS_Subset
<1>2. PICK s \in Bad : \A u \in Bad : ~(Cardinality(u) < Cardinality(s))
  <2> HIDE DEF Bad
  <2>1. QED
    BY <1>1, SmallestSet
<1>3. s \in SUBSET T /\ Cardinality(s) # Sum(f, s) /\ IsFiniteSet(s)
  BY <1>1
<1>4. s # {}
  BY <1>3, SumOfNone, FS_EmptySet
<1>5. PICK c \in s : TRUE
  BY <1>4
<1> DEFINE r == s \ {c}
<1>6. r \notin Bad
  BY <1>2, <1>3, <1>5, LessOne
<1>7. Cardinality(r) = Sum(f, r)
  BY <1>3, <1>6
<1>8. Cardinality(s) = Cardinality(r) + 1 /\ Cardinality(r) \in Nat
  BY <1>3, <1>5, LessOne
<1>9. Sum(f, s) = f[c] + Sum(f, r) /\ f[c] = 1
  BY <1>3, <1>5, SumWithout
<1> HIDE DEF r, Bad
<1>10. QED
  BY <1>3, <1>7, <1>8, <1>9

\* The greatest of a finite set of numbers.
LEMMA MaxOfFinite ==
  ASSUME NEW S \in SUBSET Int, IsFiniteSet(S), S # {}
  PROVE  Max(S) \in S /\ \A x \in S : x <= Max(S)
<1> DEFINE Has(s) == \E m \in s : \A x \in s : x <= m
           Bad == {s \in SUBSET S : s # {} /\ ~Has(s)}
<1>1. Bad = {}
  <2> SUFFICES ASSUME Bad # {} PROVE FALSE
    OBVIOUS
  <2>1. \A s \in Bad : IsFiniteSet(s)
    BY FS_Subset
  <2>2. PICK s \in Bad : \A u \in Bad : ~(Cardinality(u) < Cardinality(s))
    <3> HIDE DEF Bad
    <3>1. QED
      BY <2>1, SmallestSet
  <2>3. s \in SUBSET S /\ s # {} /\ ~Has(s) /\ IsFiniteSet(s)
    BY <2>1
  <2>4. PICK c \in s : TRUE
    BY <2>3
  <2> DEFINE r == s \ {c}
  <2>5. r \notin Bad
    BY <2>2, <2>3, <2>4, LessOne
  <2>6. CASE r = {}
    <3>1. \A x \in s : x <= c
      BY <2>3, <2>6
    <3>2. QED
      BY <2>3, <2>4, <3>1
  <2>7. CASE r # {}
    <3>1. PICK m \in r : \A x \in r : x <= m
      BY <2>3, <2>5, <2>7
    <3>2. \A x \in s : x = c \/ x <= m
      BY <3>1
    <3>3. m \in Int /\ c \in Int /\ \A x \in s : x \in Int
      BY <2>3, <2>4, <3>1
    <3>4. CASE c <= m
      BY <2>3, <3>1, <3>2, <3>4
    <3>5. CASE m <= c
      <4>1. \A x \in s : x <= c
        BY <3>2, <3>3, <3>5
      <4>2. QED
        BY <2>3, <2>4, <4>1
    <3>6. QED
      BY <3>3, <3>4, <3>5
  <2>8. QED
    BY <2>6, <2>7
<1>2. Has(S)
  BY <1>1
<1>3. QED
  BY <1>2 DEF Max

LEMMA MaxIsUnique ==
  ASSUME NEW S \in SUBSET Int, IsFiniteSet(S), NEW m \in S, \A x \in S : x <= m
  PROVE  Max(S) = m
<1>1. Max(S) \in S /\ \A x \in S : x <= Max(S)
  BY MaxOfFinite
<1>2. Max(S) <= m /\ m <= Max(S) /\ m \in Int /\ Max(S) \in Int
  BY <1>1
<1>3. QED
  BY <1>2

-----------------------------------------------------------------------------
(* Sorting.                                                                *)

\* Some element of a finite set comes first in a strict order of it.
LEMMA FirstIsThere ==
  ASSUME NEW S, IsFiniteSet(S), S # {}, NEW m,
         \A x \in S : ~Before(x, x, m),
         \A x, y, z \in S : Before(x, y, m) /\ Before(y, z, m) => Before(x, z, m)
  PROVE  \E x \in S : \A y \in S : ~Before(y, x, m)
<1> DEFINE Pred(x) == {y \in S : Before(y, x, m)}
           SS == {Pred(x) : x \in S}
<1>1. \A T \in SS : IsFiniteSet(T)
  BY FS_Subset
<1>2. PICK T \in SS : \A U \in SS : ~(Cardinality(U) < Cardinality(T))
  <2>1. \A x \in S : Pred(x) \in SS
    OBVIOUS
  <2> HIDE DEF SS
  <2>2. QED
    BY <1>1, <2>1, SmallestSet
<1>3. PICK x \in S : T = Pred(x)
  OBVIOUS
<1>4. ASSUME NEW y \in S, Before(y, x, m) PROVE FALSE
  <2>1. Pred(y) \subseteq Pred(x) /\ y \in Pred(x) /\ y \notin Pred(y)
    BY <1>4
  <2>2. Pred(y) \in SS /\ IsFiniteSet(Pred(y)) /\ IsFiniteSet(T)
    BY <1>1, <1>4
  <2> DEFINE P == Pred(y)
  <2>3. P \in SUBSET T /\ P # T
    BY <1>3, <2>1
  <2>4. IsFiniteSet(P) /\ ~(Cardinality(P) < Cardinality(T))
    BY <1>2, <2>2
  <2> HIDE DEF P, Pred, SS
  <2>5. Cardinality(P) <= Cardinality(T) /\ Cardinality(T) # Cardinality(P)
    BY <2>2, <2>3, FS_Subset
  <2>6. Cardinality(P) \in Nat /\ Cardinality(T) \in Nat
    BY <2>2, <2>4, FS_CardinalityType
  <2>7. QED
    BY <2>4, <2>5, <2>6
<1>5. QED
  BY <1>4

IsListing(s, E, m) ==
  /\ s \in [1 .. Cardinality(E) -> E]
  /\ \A i, j \in DOMAIN s : i < j => s[i] # s[j] /\ ~Before(s[j], s[i], m)

LEMMA ListingExists ==
  ASSUME NEW E, IsFiniteSet(E), NEW m,
         \A x \in E : ~Before(x, x, m),
         \A x, y, z \in E : Before(x, y, m) /\ Before(y, z, m) => Before(x, z, m)
  PROVE  \E s : IsListing(s, E, m)
<1> DEFINE Bad == {T \in SUBSET E : ~\E s : IsListing(s, T, m)}
<1> SUFFICES ASSUME Bad # {} PROVE FALSE
  OBVIOUS
<1>1. \A T \in Bad : IsFiniteSet(T)
  BY FS_Subset
<1>2. PICK T \in Bad : \A U \in Bad : ~(Cardinality(U) < Cardinality(T))
  <2> HIDE DEF Bad
  <2>1. QED
    BY <1>1, SmallestSet
<1>3. T \in SUBSET E /\ IsFiniteSet(T) /\ ~\E s : IsListing(s, T, m)
  BY <1>1
<1>4. CASE T = {}
  <2> DEFINE s == [i \in 1 .. 0 |-> 0]
  <2>1. Cardinality(T) = 0
    BY <1>4, FS_EmptySet
  <2>2. s \in [1 .. 0 -> T] /\ DOMAIN s = {}
    OBVIOUS
  <2> HIDE DEF s
  <2>3. IsListing(s, T, m)
    BY <2>1, <2>2 DEF IsListing
  <2>4. QED
    BY <1>3, <2>3
<1>5. CASE T # {}
  <2>1. PICK x \in T : \A y \in T : ~Before(y, x, m)
    <3>1. /\ \A y \in T : ~Before(y, y, m)
          /\ \A y, z, w \in T : Before(y, z, m) /\ Before(z, w, m) => Before(y, w, m)
      BY <1>3
    <3>2. QED
      BY <1>3, <1>5, <3>1, FirstIsThere
  <2> DEFINE R == T \ {x}
             n == Cardinality(T)
             k == Cardinality(R)
  <2>2. /\ IsFiniteSet(R) /\ n = k + 1 /\ k \in Nat /\ R \notin Bad
        /\ R \in SUBSET E
    BY <1>2, <1>3, LessOne
  <2>3. PICK t : IsListing(t, R, m)
    BY <2>2
  <2>4. /\ t \in [1 .. k -> R]
        /\ \A i, j \in 1 .. k : i < j => t[i] # t[j] /\ ~Before(t[j], t[i], m)
    BY <2>3 DEF IsListing
  <2> HIDE DEF k
  <2> DEFINE s == [i \in 1 .. k + 1 |-> IF i = 1 THEN x ELSE t[i - 1]]
  <2>5. \A i \in 1 .. k + 1 : i # 1 => i - 1 \in 1 .. k /\ s[i] = t[i - 1] /\ t[i - 1] \in R
    BY <2>2, <2>4
  <2>6. s[1] = x /\ DOMAIN s = 1 .. k + 1
    BY <2>2
  <2> HIDE DEF s, n
  <2>7. s \in [1 .. k + 1 -> T]
    <3>1. \A i \in 1 .. k + 1 : s[i] \in T
      BY <2>5, <2>6
    <3>2. s = [i \in 1 .. k + 1 |-> s[i]]
      BY DEF s
    <3>3. QED
      BY <3>1, <3>2
  <2>8. ASSUME NEW i \in 1 .. k + 1, NEW j \in 1 .. k + 1, i < j
        PROVE  s[i] # s[j] /\ ~Before(s[j], s[i], m)
    <3>1. j # 1 /\ j - 1 \in 1 .. k /\ s[j] = t[j - 1] /\ t[j - 1] \in R
      BY <2>2, <2>5, <2>8
    <3>2. CASE i = 1
      BY <2>1, <2>6, <3>1, <3>2
    <3>3. CASE i # 1
      <4>1. i - 1 \in 1 .. k /\ s[i] = t[i - 1] /\ i - 1 < j - 1
        BY <2>2, <2>5, <2>8, <3>3
      <4>2. QED
        BY <2>4, <3>1, <4>1
    <3>4. QED
      BY <3>2, <3>3
  <2>9. IsListing(s, T, m)
    <3>1. s \in [1 .. Cardinality(T) -> T]
      BY <2>2, <2>7 DEF n
    <3>2. QED
      BY <2>6, <2>8, <3>1 DEF IsListing
  <2>10. QED
    BY <1>3, <2>9
<1>6. QED
  BY <1>4, <1>5

\* An entry that can be sorted.
EntryOK(e) ==
  /\ e.name \in Names
  /\ e.total_size \in Int /\ e.file_count \in Int /\ e.latest_atime \in Int

LEMMA KeysAreNumbers ==
  ASSUME NamesOK, NEW e, EntryOK(e), NEW m
  PROVE  SortKey(e, m) \in Int /\ Rank(e.name) \in Int
<1>1. e.total_size \in Int /\ e.file_count \in Int /\ e.latest_atime \in Int
  BY DEF EntryOK
<1>2. -e.total_size \in Int /\ -e.file_count \in Int /\ -e.latest_atime \in Int
  BY <1>1
<1>3. SortKey(e, m) \in Int
  <2>1. (IF e.is_dir THEN 0 ELSE 1) \in Int
    OBVIOUS
  <2>2. SortKey(e, m) \in {IF e.is_dir THEN 0 ELSE 1, -e.total_size, e.total_size,
                           -e.file_count, e.file_count, e.latest_atime, -e.latest_atime}
    BY DEF SortKey
  <2>3. QED
    BY <1>1, <1>2, <2>1, <2>2
<1>4. Rank(e.name) \in DOMAIN NameOrder
  <2>1. \E i \in DOMAIN NameOrder : NameOrder[i] = e.name
    BY DEF EntryOK, Names, Range
  <2>2. QED
    BY <2>1 DEF Rank
<1>5. NameOrder \in Seq(Names)
  BY DEF NamesOK
<1>6. DOMAIN NameOrder = 1 .. Len(NameOrder) /\ Len(NameOrder) \in Nat
  BY <1>5
<1>7. QED
  BY <1>3, <1>4, <1>6

LEMMA SortedLists ==
  ASSUME NamesOK, NEW E, IsFiniteSet(E), \A e \in E : EntryOK(e), NEW m
  PROVE  /\ IsSeq(Sorted(E, m))
         /\ \A i \in DOMAIN Sorted(E, m) : Sorted(E, m)[i] \in E
<1>1. \A e \in E : SortKey(e, m) \in Int /\ Rank(e.name) \in Int
  BY KeysAreNumbers
<1>2. \A x \in E : ~Before(x, x, m)
  <2> SUFFICES ASSUME NEW x \in E PROVE ~Before(x, x, m)
    OBVIOUS
  <2>1. SortKey(x, m) \in Int /\ Rank(x.name) \in Int
    BY <1>1
  <2>2. QED
    BY <2>1 DEF Before
<1>3. ASSUME NEW x \in E, NEW y \in E, NEW z \in E, Before(x, y, m), Before(y, z, m)
      PROVE  Before(x, z, m)
  <2> DEFINE a == SortKey(x, m)  b == SortKey(y, m)  c == SortKey(z, m)
             u == Rank(x.name)   v == Rank(y.name)   w == Rank(z.name)
  <2>1. a \in Int /\ b \in Int /\ c \in Int /\ u \in Int /\ v \in Int /\ w \in Int
    BY <1>1
  <2>2. (a < b \/ (a = b /\ u < v)) /\ (b < c \/ (b = c /\ v < w))
    BY <1>3 DEF Before
  <2>3. (a < c \/ (a = c /\ u < w)) => Before(x, z, m)
    BY DEF Before
  <2> HIDE DEF a, b, c, u, v, w
  <2>4. a < c \/ (a = c /\ u < w)
    BY <2>1, <2>2
  <2>5. QED
    BY <2>3, <2>4
<1>4. \E s : IsListing(s, E, m)
  BY <1>2, <1>3, ListingExists
<1> DEFINE s == Sorted(E, m)
<1>5. IsListing(s, E, m)
  <2>1. \E t \in [1 .. Cardinality(E) -> E] :
          \A i, j \in DOMAIN t : i < j => t[i] # t[j] /\ ~Before(t[j], t[i], m)
    BY <1>4 DEF IsListing
  <2>2. QED
    BY <2>1, Zenon DEF Sorted, IsListing
<1> HIDE DEF s
<1>6. s \in [1 .. Cardinality(E) -> E]
  BY <1>5 DEF IsListing
<1>7. Cardinality(E) \in Nat
  BY FS_CardinalityType
<1>8. \A k \in Nat : \A S0, q : q \in [1 .. k -> S0] => q \in Seq(S0)
  OBVIOUS
<1>9. s \in Seq(E)
  BY <1>6, <1>7, <1>8, Zenon
<1>10. \A i \in DOMAIN s : s[i] \in E
  BY <1>6
<1>11. QED
  BY <1>9, <1>10 DEF IsSeq, s

-----------------------------------------------------------------------------
(* Answers: each is a finite set of entries that can be sorted.            *)

LEMMA ImageIsFinite ==
  ASSUME NEW S, IsFiniteSet(S), NEW f, f = [x \in S |-> f[x]]
  PROVE  IsFiniteSet({f[x] : x \in S})
<1> DEFINE T == {f[x] : x \in S}
<1>1. f \in Surjection(S, T)
  BY DEF Surjection
<1>2. QED
  BY <1>1, FS_Surjection

\* An index that queries can be sent to.
RowsOK == NamesOK /\ IndexOK(rows)

LEMMA AnswersAreFinite ==
  ASSUME RowsOK, NEW f, NEW p, NEW dir
  PROVE  /\ IsFiniteSet(Partitions(rows, f))
         /\ IsFiniteSet(RootFiles(rows, f))
         /\ IsFiniteSet(Directory(rows, p, dir, f))
<1>2. IsFiniteSet(Partitions(rows, f))
  <2> DEFINE S  == {x \in rows : Matches(f, x)}
             g  == [r \in S |-> r.partition]
             P  == {r.partition : r \in S} \ {Root}
             h  == [q \in P |-> PartitionEntry(rows, q, f)]
  <2>1. IsFiniteSet(S)
    BY FS_Subset DEF RowsOK, IndexOK
  <2>2. IsFiniteSet({g[r] : r \in S})
    <3> HIDE DEF S
    <3>1. g = [x \in S |-> g[x]]
      OBVIOUS
    <3> HIDE DEF g
    <3>2. QED
      BY <2>1, <3>1, ImageIsFinite
  <2>3. P \subseteq {g[r] : r \in S}
    OBVIOUS
  <2>4. IsFiniteSet(P)
    BY <2>2, <2>3, FS_Subset
  <2>5. IsFiniteSet({h[q] : q \in P})
    <3> HIDE DEF P
    <3>1. h = [x \in P |-> h[x]]
      OBVIOUS
    <3> HIDE DEF h
    <3>2. QED
      BY <2>4, <3>1, ImageIsFinite
  <2>6. Partitions(rows, f) = {h[q] : q \in P}
    BY Zenon DEF Partitions
  <2>7. QED
    BY <2>5, <2>6
<1>3. IsFiniteSet(RootFiles(rows, f))
  <2> DEFINE S == {x \in RowsOf(rows, Root) : Matches(f, x)}
             g == [r \in S |-> Entry(Last(r.path), r.path, FALSE, {r})]
  <2>1. S \subseteq rows
    BY DEF RowsOf
  <2>2. IsFiniteSet(S)
    BY <2>1, FS_Subset DEF RowsOK, IndexOK
  <2>3. IsFiniteSet({g[r] : r \in S})
    <3> HIDE DEF S
    <3>1. g = [x \in S |-> g[x]]
      OBVIOUS
    <3> HIDE DEF g
    <3>2. QED
      BY <2>2, <3>1, ImageIsFinite
  <2>4. RootFiles(rows, f) = {g[r] : r \in S}
    BY Zenon DEF RootFiles
  <2>5. QED
    BY <2>3, <2>4
<1>4. IsFiniteSet(Directory(rows, p, dir, f))
  <2> DEFINE S == {r \in RowsOf(rows, p) : Like(r.path, dir) /\ Matches(f, r)}
             At(n) == {r \in S : r.path[Len(dir) + 1] = n}
             N == {r.path[Len(dir) + 1] : r \in S}
             g == [r \in S |-> r.path[Len(dir) + 1]]
             h == [n \in N |-> Entry(n, Append(dir, n),
                                     \E r \in At(n) : Len(r.path) > Len(dir) + 1, At(n))]
  <2>1. S \subseteq rows
    BY DEF RowsOf
  <2>2. IsFiniteSet(S)
    BY <2>1, FS_Subset DEF RowsOK, IndexOK
  <2>3. IsFiniteSet({g[r] : r \in S})
    <3> HIDE DEF S
    <3>1. g = [x \in S |-> g[x]]
      OBVIOUS
    <3> HIDE DEF g
    <3>2. QED
      BY <2>2, <3>1, ImageIsFinite
  <2>4. N = {g[r] : r \in S}
    OBVIOUS
  <2>5. IsFiniteSet({h[n] : n \in N})
    <3> HIDE DEF N
    <3>1. h = [x \in N |-> h[x]]
      OBVIOUS
    <3> HIDE DEF h
    <3>2. QED
      BY <2>3, <2>4, <3>1, ImageIsFinite
  <2>6. Directory(rows, p, dir, f) = {h[n] : n \in N}
    BY Zenon DEF Directory
  <2>7. QED
    BY <2>5, <2>6
<1>5. QED
  BY <1>2, <1>3, <1>4

LEMMA SizesSum ==
  ASSUME NEW R
  PROVE  LET f == [r \in R |-> r.size] IN
         SumSizes(R) = Sum(f, R) /\ \A r \in R : f[r] = r.size
<1> DEFINE f == [r \in R |-> r.size]
<1>1. DOMAIN f = R /\ \A r \in R : f[r] = r.size
  OBVIOUS
<1>2. SumSizes(R) = SumFunction(f)
  BY DEF SumSizes
<1> HIDE DEF f
<1>3. SumFunction(f) = Sum(f, R)
  BY <1>1 DEF SumFunction, Sum
<1>4. QED
  BY <1>1, <1>2, <1>3 DEF f

\* The age of an entry: none of its rows is younger.
LEMMA LatestIsMax ==
  ASSUME NEW R, IsFiniteSet(R), R # {}, \A r \in R : r.atime \in Int
  PROVE  /\ LatestAtime(R) \in Int
         /\ LatestAtime(R) \in {r.atime : r \in R}
         /\ \A r \in R : r.atime <= LatestAtime(R)
<1> DEFINE A == {r.atime : r \in R}
           f == [r \in R |-> r.atime]
<1>1. IsFiniteSet({f[r] : r \in R})
  <2>1. f = [r \in R |-> f[r]]
    OBVIOUS
  <2> HIDE DEF f
  <2>2. QED
    BY <2>1, ImageIsFinite
<1>2. {f[r] : r \in R} = A
  OBVIOUS
<1>3. A # {} /\ A \in SUBSET Int /\ IsFiniteSet(A) /\ \A r \in R : r.atime \in A
  BY <1>1, <1>2
<1>4. LatestAtime(R) = Max(A)
  BY DEF LatestAtime
<1> HIDE DEF A
<1>5. Max(A) \in A /\ \A x \in A : x <= Max(A)
  BY <1>3, MaxOfFinite
<1>6. QED
  BY <1>3, <1>4, <1>5 DEF A

LEMMA EntryIsOK ==
  ASSUME NEW R, IsFiniteSet(R), R # {}, \A r \in R : r.size \in Nat /\ r.atime \in Int,
         NEW n \in Names, NEW path, NEW d
  PROVE  EntryOK(Entry(n, path, d, R))
<1>1. SumSizes(R) \in Int
  <2> DEFINE f == [r \in R |-> r.size]
  <2>1. SumSizes(R) = Sum(f, R) /\ \A r \in R : f[r] \in Int
    BY SizesSum
  <2> HIDE DEF f
  <2>2. QED
    BY <2>1, SumIsInt
<1>2. Cardinality(R) \in Int
  BY FS_CardinalityType
<1>3. LatestAtime(R) \in Int
  BY LatestIsMax
<1>4. QED
  BY <1>1, <1>2, <1>3 DEF EntryOK, Entry

\* The paths of an index.
LEMMA PathsAreSeqs ==
  ASSUME RowsOK, NEW r \in rows
  PROVE  /\ IsSeq(r.path) /\ r.path \in Seq(Names) /\ Len(r.path) \in Nat \ {0}
         /\ DOMAIN r.path = 1 .. Len(r.path)
         /\ \A i \in 1 .. Len(r.path) : r.path[i] \in Names
         /\ r.size \in Nat /\ r.atime \in Int /\ r.partition # None
         /\ r.partition # Root => Len(r.path) > 1 /\ r.path[1] = r.partition
<1>1. /\ r.path \in Seq(Names) /\ r.path # <<>> /\ r.partition # None
      /\ r.size \in Nat /\ r.atime \in Int
      /\ r.partition # Root => Len(r.path) > 1 /\ r.path[1] = r.partition
  BY DEF RowsOK, IndexOK
<1>2. IsSeq(r.path)
  BY <1>1 DEF IsSeq
<1>3. /\ Len(r.path) \in Nat /\ DOMAIN r.path = 1 .. Len(r.path) /\ Len(r.path) # 0
  BY <1>1, <1>2, SeqFacts
<1>4. QED
  BY <1>1, <1>2, <1>3

\* The age partitions_sql shows for a partition: that of its matching rows, but 1970
\* when they are older and a row does not match.
LEMMA LatestShownIs ==
  ASSUME NEW R, IsFiniteSet(R), \A r \in R : r.atime \in Int, NEW f,
         NEW F, F = {r \in R : Matches(f, r)}, F # {}
  PROVE  /\ LatestShown(R, f) \in Int
         /\ LatestShown(R, f) = IF \E r \in R : ~Matches(f, r)
                                THEN Max({0, LatestAtime(F)}) ELSE LatestAtime(F)
<1> DEFINE g == [r \in R |-> IF Matches(f, r) THEN r.atime ELSE 0]
           A == {g[r] : r \in R}
           m == LatestAtime(F)
           left == \E r \in R : ~Matches(f, r)
<1>1. IsFiniteSet(F) /\ F \subseteq R
  BY FS_Subset
<1>2. /\ m \in Int /\ (\E r \in F : m = r.atime) /\ \A r \in F : r.atime <= m
  BY <1>1, LatestIsMax
<1>3. LatestShown(R, f) = Max(A)
  BY DEF LatestShown
<1>4. IsFiniteSet(A)
  <2>1. g = [r \in R |-> g[r]]
    OBVIOUS
  <2> HIDE DEF g
  <2>2. QED
    BY <2>1, ImageIsFinite
<1>5. /\ \A r \in F : g[r] = r.atime /\ g[r] \in A
      /\ \A r \in R : r \notin F => ~Matches(f, r) /\ g[r] = 0 /\ g[r] \in A
      /\ \A r \in R : g[r] \in Int
      /\ \A n \in A : \E r \in R : n = g[r]
  OBVIOUS
<1>6. A \in SUBSET Int
  BY <1>5
<1>7. CASE left
  <2> DEFINE k == IF m > 0 THEN m ELSE 0
  <2>1. Max({0, m}) = k
    <3>1. IsFiniteSet({0, m}) /\ {0, m} \in SUBSET Int /\ k \in {0, m}
      <4>1. IsFiniteSet({0} \cup {m})
        BY FS_Singleton, FS_AddElement
      <4>2. {0} \cup {m} = {0, m}
        OBVIOUS
      <4>3. QED
        BY <1>2, <4>1, <4>2
    <3>2. \A n \in {0, m} : n <= k
      BY <1>2
    <3> HIDE DEF k
    <3>3. QED
      BY <3>1, <3>2, MaxIsUnique
  <2>2. 0 \in A /\ m \in A
    BY <1>1, <1>2, <1>5, <1>7
  <2>3. \A n \in A : n <= k
    BY <1>2, <1>5
  <2>4. k \in A
    BY <2>2
  <2> HIDE DEF A, k
  <2>5. Max(A) = k
    BY <1>4, <1>6, <2>3, <2>4, MaxIsUnique
  <2>6. k \in Int
    BY <1>6, <2>4
  <2>7. QED
    BY <1>3, <1>7, <2>1, <2>5, <2>6
<1>8. CASE ~left
  <2>1. m \in A /\ \A n \in A : n <= m
    BY <1>1, <1>2, <1>5, <1>8
  <2> HIDE DEF A, m
  <2>2. Max(A) = m
    BY <1>4, <1>6, <2>1, MaxIsUnique
  <2>3. QED
    BY <1>2, <1>3, <1>8, <2>2 DEF m
<1>9. QED
  BY <1>7, <1>8

LEMMA AnswersAreOK ==
  ASSUME RowsOK, NEW f, NEW p, NEW dir, IsSeq(dir)
  PROVE  /\ \A e \in Partitions(rows, f) : EntryOK(e)
         /\ \A e \in RootFiles(rows, f) : EntryOK(e)
         /\ \A e \in Directory(rows, p, dir, f) : EntryOK(e)
<1>1. ASSUME NEW R \in SUBSET rows
      PROVE  IsFiniteSet(R) /\ \A r \in R : r.size \in Nat /\ r.atime \in Int
  BY FS_Subset, PathsAreSeqs DEF RowsOK, IndexOK
<1>2. ASSUME NEW e \in Partitions(rows, f) PROVE EntryOK(e)
  <2>1. PICK q \in {r.partition : r \in {x \in rows : Matches(f, x)}} \ {Root} :
          e = PartitionEntry(rows, q, f)
    BY DEF Partitions
  <2>2. PICK r \in rows : q = r.partition /\ q # Root /\ Matches(f, r)
    OBVIOUS
  <2>3. q \in Names
    <3>1. 1 \in 1 .. Len(r.path) /\ r.path[1] = q
      BY <2>2, PathsAreSeqs
    <3>2. QED
      BY <3>1, PathsAreSeqs
  <2>4. /\ {x \in RowsOf(rows, q) : Matches(f, x)} \in SUBSET rows
        /\ {x \in RowsOf(rows, q) : Matches(f, x)} # {}
    BY <2>2 DEF RowsOf
  <2>5. EntryOK(Entry(q, <<q>>, TRUE, {x \in RowsOf(rows, q) : Matches(f, x)}))
    BY <1>1, <2>3, <2>4, EntryIsOK
  <2>6. LatestShown(RowsOf(rows, q), f) \in Int
    <3>1. RowsOf(rows, q) \in SUBSET rows
      BY DEF RowsOf
    <3>2. QED
      BY <1>1, <2>4, <3>1, LatestShownIs
  <2>7. QED
    BY <2>1, <2>5, <2>6 DEF PartitionEntry, EntryOK, Entry
<1>3. ASSUME NEW e \in RootFiles(rows, f) PROVE EntryOK(e)
  <2>1. PICK r \in RowsOf(rows, Root) : e = Entry(Last(r.path), r.path, FALSE, {r})
    BY DEF RootFiles
  <2>2. r \in rows /\ {r} \in SUBSET rows
    BY DEF RowsOf
  <2>3. Last(r.path) \in Names
    BY <2>2, PathsAreSeqs DEF Last
  <2>4. QED
    BY <1>1, <2>1, <2>2, <2>3, EntryIsOK
<1>4. ASSUME NEW e \in Directory(rows, p, dir, f) PROVE EntryOK(e)
  <2> DEFINE S == {r \in RowsOf(rows, p) : Like(r.path, dir) /\ Matches(f, r)}
             At(n) == {r \in S : r.path[Len(dir) + 1] = n}
  <2>1. PICK n \in {r.path[Len(dir) + 1] : r \in S} :
          e = Entry(n, Append(dir, n), \E r \in At(n) : Len(r.path) > Len(dir) + 1, At(n))
    BY Zenon DEF Directory
  <2>2. PICK r \in S : n = r.path[Len(dir) + 1]
    OBVIOUS
  <2>3. r \in rows /\ Len(r.path) > Len(dir) /\ Len(dir) \in Nat
    BY SeqFacts DEF RowsOf, Like
  <2>4. n \in Names
    <3>1. Len(dir) + 1 \in 1 .. Len(r.path)
      BY <2>3, PathsAreSeqs
    <3>2. QED
      BY <2>2, <2>3, <3>1, PathsAreSeqs
  <2>5. At(n) \in SUBSET rows /\ At(n) # {}
    BY <2>2 DEF RowsOf
  <2>6. QED
    BY <1>1, <2>1, <2>4, <2>5, EntryIsOK
<1>5. QED
  BY <1>2, <1>3, <1>4

\* Each list holds entries of its answer.
LEMMA ListsAreSeqs ==
  ASSUME RowsOK, NEW f, NEW m
  PROVE  /\ \A p, dir : IsSeq(dir) => IsSeq(Sorted(Directory(rows, p, dir, f), m))
         /\ IsSeq(Sorted(Partitions(rows, f) \cup RootFiles(rows, f), m))
         /\ \A i \in DOMAIN Sorted(Partitions(rows, f) \cup RootFiles(rows, f), m) :
              Sorted(Partitions(rows, f) \cup RootFiles(rows, f), m)[i]
                \in Partitions(rows, f) \cup RootFiles(rows, f)
         /\ IsSeq(Sorted(Partitions(rows, f) \cup {}, m))
<1> DEFINE A == Partitions(rows, f) \cup RootFiles(rows, f)
           B == Partitions(rows, f) \cup {}
<1>1. IsFiniteSet(A) /\ IsFiniteSet(B)
  BY AnswersAreFinite, FS_Union, FS_EmptySet
<1>2. (\A e \in A : EntryOK(e)) /\ (\A e \in B : EntryOK(e))
  BY AnswersAreOK, EmptyIsSeq
<1>3. NamesOK
  BY DEF RowsOK
<1>4. ASSUME NEW p, NEW dir, IsSeq(dir) PROVE IsSeq(Sorted(Directory(rows, p, dir, f), m))
  <2>1. IsFiniteSet(Directory(rows, p, dir, f)) /\ \A e \in Directory(rows, p, dir, f) : EntryOK(e)
    BY <1>4, AnswersAreFinite, AnswersAreOK
  <2>2. QED
    BY <1>3, <2>1, SortedLists
<1> HIDE DEF A, B
<1>5. IsSeq(Sorted(A, m)) /\ (\A i \in DOMAIN Sorted(A, m) : Sorted(A, m)[i] \in A)
        /\ IsSeq(Sorted(B, m))
  BY <1>1, <1>2, <1>3, SortedLists
<1>6. QED
  BY <1>4, <1>5 DEF A, B

\* A partition whose root is found is one of the index, and its root is a path.
LEMMA RootsArePaths ==
  ASSUME RowsOK, NEW p, NEW r \in PartitionRoots(rows, p)
  PROVE  p # None /\ IsSeq(r)
<1>1. PICK x \in RowsOf(rows, p) : r = Front(x.path)
  BY DEF PartitionRoots
<1>2. x \in rows /\ x.partition = p
  BY DEF RowsOf
<1>3. x.path \in Seq(Names) /\ x.path # <<>>
  BY <1>2 DEF RowsOK, IndexOK
<1>4. IsSeq(x.path)
  BY <1>3 DEF IsSeq
<1>5. Len(x.path) - 1 \in 0 .. Len(x.path)
  BY <1>3, <1>4, SeqFacts
<1>6. IsSeq(Front(x.path))
  BY <1>4, <1>5, SubSeqIsSeq DEF Front
<1>7. QED
  BY <1>1, <1>2, <1>6 DEF RowsOK, IndexOK

LEMMA SumIsNat ==
  ASSUME NEW f, NEW T, IsFiniteSet(T), \A x \in T : f[x] \in Nat
  PROVE  Sum(f, T) \in Nat
<1> DEFINE Bad == {s \in SUBSET T : Sum(f, s) \notin Nat}
<1> SUFFICES ASSUME Bad # {} PROVE FALSE
  OBVIOUS
<1>1. \A s \in Bad : IsFiniteSet(s)
  BY FS_Subset
<1>2. PICK s \in Bad : \A u \in Bad : ~(Cardinality(u) < Cardinality(s))
  <2> HIDE DEF Bad
  <2>1. QED
    BY <1>1, SmallestSet
<1>3. s \in SUBSET T /\ Sum(f, s) \notin Nat /\ IsFiniteSet(s)
  BY <1>1
<1>4. s # {}
  BY <1>3, SumOfNone
<1> DEFINE c == AnyOf(s)
           r == s \ {c}
<1>5. c \in s
  BY <1>4, AnyIsIn
<1>6. Sum(f, s) = f[c] + Sum(f, r)
  BY <1>3, <1>4, SumStep
<1>7. r \notin Bad
  BY <1>2, <1>3, <1>5, LessOne
<1>8. Sum(f, r) \in Nat /\ f[c] \in Nat
  BY <1>3, <1>5, <1>7
<1> HIDE DEF c, r
<1>9. QED
  BY <1>3, <1>6, <1>8

\* A partition with rows has a root: one of its paths is as short as any.
LEMMA RootsAreFound ==
  ASSUME RowsOK, NEW p, Readable(rows, p)
  PROVE  PartitionRoots(rows, p) # {}
<1>1. \A r \in rows : PathLen(r.path) \in Nat
  <2> SUFFICES ASSUME NEW r \in rows PROVE PathLen(r.path) \in Nat
    OBVIOUS
  <2> DEFINE D == DOMAIN r.path
             f == [i \in D |-> NameLen[r.path[i]] + 1]
  <2>1. D = 1 .. Len(r.path) /\ Len(r.path) \in Nat /\ \A i \in D : r.path[i] \in Names
    BY PathsAreSeqs
  <2>2. IsFiniteSet(D)
    BY <2>1, FS_Interval
  <2>3. \A i \in D : f[i] \in Nat
    <3>1. \A n \in Names : NameLen[n] \in Nat
      BY DEF RowsOK, NamesOK
    <3>2. QED
      BY <2>1, <3>1
  <2>4. PathLen(r.path) = SumFunction(f) /\ DOMAIN f = D
    BY DEF PathLen
  <2> HIDE DEF D, f
  <2>5. PathLen(r.path) = Sum(f, D)
    BY <2>4 DEF SumFunction, Sum
  <2>6. QED
    BY <2>2, <2>3, <2>5, SumIsNat
<1> DEFINE L == {PathLen(r.path) : r \in RowsOf(rows, p)}
<1>2. L \in SUBSET Nat /\ L # {}
  BY <1>1 DEF Readable, RowsOf
<1>3. PICK n \in L : \A x \in L : n <= x
  BY <1>2, NatMin
<1>4. PICK r \in RowsOf(rows, p) : n = PathLen(r.path)
  OBVIOUS
<1>5. \A y \in RowsOf(rows, p) : PathLen(r.path) <= PathLen(y.path)
  BY <1>3, <1>4
<1>6. Front(r.path) \in PartitionRoots(rows, p)
  BY <1>5 DEF PartitionRoots
<1>7. QED
  BY <1>6

-----------------------------------------------------------------------------
(* Totals.                                                                 *)

\* A row is in one piece: what the pieces show adds up to what the whole shows.
LEMMA PiecesAddUp ==
  ASSUME NEW F, IsFiniteSet(F), F # {}, \A r \in F : r.size \in Nat /\ r.atime \in Int,
         NEW L, IsFiniteSet(L), NEW P, \A x \in L : P[x] \subseteq F /\ P[x] # {},
         \A x, y \in L : x # y => P[x] \cap P[y] = {},
         \A r \in F : \E x \in L : r \in P[x],
         \A x \in L : /\ x.total_size = SumSizes(P[x])
                      /\ x.file_count = Cardinality(P[x])
                      /\ x.latest_atime = LatestAtime(P[x]),
         NEW e, e.total_size = SumSizes(F), e.file_count = Cardinality(F),
         e.latest_atime = LatestAtime(F)
  PROVE  AddsUp(e, L)
<1>1. \A x \in L : IsFiniteSet(P[x])
  BY FS_Subset
<1>2. e.total_size = SumFunction([x \in L |-> x.total_size])
  <2> DEFINE f == [r \in F |-> r.size]
             g == [x \in L |-> x.total_size]
  <2>1. SumSizes(F) = Sum(f, F) /\ \A r \in F : f[r] = r.size
    BY SizesSum
  <2>2. \A x \in L : g[x] = Sum(f, P[x])
    <3> SUFFICES ASSUME NEW x \in L PROVE g[x] = Sum(f, P[x])
      OBVIOUS
    <3> DEFINE R == P[x]
               h == [r \in R |-> r.size]
    <3>1. SumSizes(R) = Sum(h, R) /\ \A r \in R : h[r] = r.size
      BY SizesSum
    <3>2. IsFiniteSet(R) /\ R \subseteq F
      BY <1>1
    <3>3. g[x] = SumSizes(R)
      OBVIOUS
    <3> HIDE DEF R, f, g, h
    <3>4. \A r \in R : h[r] = f[r]
      BY <2>1, <3>1, <3>2
    <3>5. Sum(h, R) = Sum(f, R)
      BY <3>2, <3>4, SumOfSame
    <3>6. QED
      BY <3>1, <3>3, <3>5 DEF R
  <2>3. SumFunction(g) = Sum(g, L)
    <3>1. DOMAIN g = L
      OBVIOUS
    <3> HIDE DEF g
    <3>2. QED
      BY <3>1 DEF SumFunction, Sum
  <2>4. \A r \in F : f[r] \in Int
    BY <2>1
  <2> HIDE DEF f, g
  <2>5. Sum(f, F) = Sum(g, L)
    BY <2>2, <2>4, SumOfPieces
  <2>6. QED
    BY <2>1, <2>3, <2>5 DEF g
<1>3. e.file_count = SumFunction([x \in L |-> x.file_count])
  <2> DEFINE f == [r \in F |-> 1]
             g == [x \in L |-> x.file_count]
  <2>1. \A r \in F : f[r] = 1
    OBVIOUS
  <2>2. \A x \in L : g[x] = Cardinality(P[x])
    OBVIOUS
  <2>3. SumFunction(g) = Sum(g, L)
    <3>1. DOMAIN g = L
      OBVIOUS
    <3> HIDE DEF g
    <3>2. QED
      BY <3>1 DEF SumFunction, Sum
  <2> HIDE DEF f, g
  <2>4. \A x \in L : g[x] = Sum(f, P[x])
    <3> SUFFICES ASSUME NEW x \in L PROVE g[x] = Sum(f, P[x])
      OBVIOUS
    <3>1. IsFiniteSet(P[x]) /\ \A r \in P[x] : f[r] = 1
      BY <1>1, <2>1
    <3>2. Cardinality(P[x]) = Sum(f, P[x])
      BY <3>1, CardinalityIsSum
    <3>3. QED
      BY <2>2, <3>2
  <2>5. Cardinality(F) = Sum(f, F)
    BY <2>1, CardinalityIsSum
  <2>6. \A r \in F : f[r] \in Int
    BY <2>1
  <2>7. Sum(f, F) = Sum(g, L)
    BY <2>4, <2>6, SumOfPieces
  <2>8. QED
    BY <2>3, <2>5, <2>7 DEF g
<1>4. e.latest_atime = Max({x.latest_atime : x \in L})
  <2> DEFINE m == LatestAtime(F)
             g == [x \in L |-> x.latest_atime]
             A == {g[x] : x \in L}
  <2>1. m \in Int /\ m \in {r.atime : r \in F} /\ \A r \in F : r.atime <= m
    BY LatestIsMax
  <2>2. ASSUME NEW x \in L
        PROVE  g[x] \in Int /\ g[x] <= m /\ \A r \in P[x] : r.atime <= g[x]
    <3> DEFINE R == P[x]
    <3>1. IsFiniteSet(R) /\ R # {} /\ R \subseteq F /\ \A r \in R : r.atime \in Int
      BY <1>1
    <3>2. g[x] = LatestAtime(R)
      OBVIOUS
    <3> HIDE DEF R, g, m
    <3>3. /\ LatestAtime(R) \in Int /\ LatestAtime(R) \in {r.atime : r \in R}
          /\ \A r \in R : r.atime <= LatestAtime(R)
      BY <3>1, LatestIsMax
    <3>4. g[x] <= m
      BY <2>1, <3>1, <3>2, <3>3
    <3>5. QED
      BY <3>2, <3>3, <3>4 DEF R
  <2>3. {x.latest_atime : x \in L} = {g[x] : x \in L}
    OBVIOUS
  <2>4. IsFiniteSet({g[x] : x \in L})
    <3>1. g = [x \in L |-> g[x]]
      OBVIOUS
    <3> HIDE DEF g
    <3>2. QED
      BY <3>1, ImageIsFinite
  <2> HIDE DEF m, g
  <2>5. IsFiniteSet(A)
    BY <2>4
  <2>6. A \in SUBSET Int /\ \A n \in A : n <= m
    BY <2>1, <2>2
  <2>7. m \in A
    <3>1. PICK r \in F : m = r.atime
      BY <2>1
    <3>2. PICK x \in L : r \in P[x]
      OBVIOUS
    <3>3. g[x] \in Int /\ g[x] <= m /\ m <= g[x]
      BY <2>2, <3>1, <3>2
    <3>4. m = g[x]
      BY <2>1, <3>3
    <3>5. QED
      BY <3>4
  <2> HIDE DEF A
  <2>8. Max(A) = m
    BY <2>5, <2>6, <2>7, MaxIsUnique
  <2>9. QED
    BY <2>3, <2>8 DEF A, m
<1>5. QED
  BY <1>2, <1>3, <1>4 DEF AddsUp, SumsUp, Latest

\* The rows under a directory are those its listing shows, piece by piece.
LEMMA ListingAddsUp ==
  ASSUME RowsOK, NEW p, NEW dir, NEW f,
         NEW F, F = {r \in RowsOf(rows, p) : Like(r.path, dir) /\ Matches(f, r)}, F # {},
         NEW e, e.total_size = SumSizes(F), e.file_count = Cardinality(F),
         e.latest_atime = LatestAtime(F)
  PROVE  AddsUp(e, Directory(rows, p, dir, f))
<1> DEFINE L == Directory(rows, p, dir, f)
           At(n) == {r \in F : r.path[Len(dir) + 1] = n}
           N == {r.path[Len(dir) + 1] : r \in F}
           E(n) == Entry(n, Append(dir, n), \E r \in At(n) : Len(r.path) > Len(dir) + 1, At(n))
           P == [x \in L |-> At(x.name)]
<1>1. L = {E(n) : n \in N}
  BY Zenon DEF Directory
<1>2. F \subseteq rows
  BY DEF RowsOf
<1>3. IsFiniteSet(F) /\ \A r \in F : r.size \in Nat /\ r.atime \in Int
  BY <1>2, FS_Subset, PathsAreSeqs DEF RowsOK, IndexOK
<1>4. IsFiniteSet(L)
  BY AnswersAreFinite
<1>5. \A n : /\ E(n).name = n /\ E(n).total_size = SumSizes(At(n))
             /\ E(n).file_count = Cardinality(At(n)) /\ E(n).latest_atime = LatestAtime(At(n))
  BY DEF Entry
<1> HIDE DEF L, E
<1>6. \A x \in L : P[x] = At(x.name)
  OBVIOUS
<1>7. \A x \in L : x = E(x.name)
  BY <1>1, <1>5
<1>8. \A x \in L : /\ x.total_size = SumSizes(P[x])
                   /\ x.file_count = Cardinality(P[x])
                   /\ x.latest_atime = LatestAtime(P[x])
  <2> HIDE DEF P, At
  <2>1. QED
    BY <1>5, <1>6, <1>7
<1>9. \A x, y \in L : x # y => P[x] \cap P[y] = {}
  BY <1>6, <1>7
<1>10. \A x \in L : P[x] \subseteq F /\ P[x] # {}
  <2> SUFFICES ASSUME NEW x \in L PROVE P[x] \subseteq F /\ P[x] # {}
    OBVIOUS
  <2>1. x.name \in N
    BY <1>1, <1>5
  <2>2. QED
    BY <1>6, <2>1
<1>11. ASSUME NEW r \in F PROVE \E x \in L : r \in P[x]
  <2>1. r.path[Len(dir) + 1] \in N /\ r \in At(r.path[Len(dir) + 1])
    OBVIOUS
  <2>2. E(r.path[Len(dir) + 1]) \in L
    BY <1>1, <2>1
  <2>3. QED
    BY <1>5, <1>6, <2>1, <2>2
<1> HIDE DEF P
<1>12. AddsUp(e, L)
  BY <1>3, <1>4, <1>8, <1>9, <1>10, <1>11, PiecesAddUp
<1>13. QED
  BY <1>12 DEF L

\* A directory without a "_" in its path is listed by exactly the rows it is shown for.
LEMMA DirectoryAddsUp ==
  ASSUME RowsOK, NEW p, NEW dir, IsSeq(dir), NEW f,
         NEW e \in Directory(rows, p, dir, f), e.is_dir,
         Range(e.path) \cap {w[1] : w \in Wild} = {}
  PROVE  AddsUp(e, Directory(rows, p, e.path, f))
<1> DEFINE S == {r \in RowsOf(rows, p) : Like(r.path, dir) /\ Matches(f, r)}
           At(n) == {r \in S : r.path[Len(dir) + 1] = n}
           G == {r \in RowsOf(rows, p) : Like(r.path, e.path) /\ Matches(f, r)}
<1>1. PICK n \in {r.path[Len(dir) + 1] : r \in S} :
        e = Entry(n, Append(dir, n), \E r \in At(n) : Len(r.path) > Len(dir) + 1, At(n))
  BY Zenon DEF Directory
<1> DEFINE d == Append(dir, n)
           k == Len(dir)
<1>2. /\ e.path = d /\ (\E r \in At(n) : Len(r.path) > k + 1)
      /\ e.total_size = SumSizes(At(n)) /\ e.file_count = Cardinality(At(n))
      /\ e.latest_atime = LatestAtime(At(n))
  BY <1>1 DEF Entry
<1>3. /\ k \in Nat /\ DOMAIN dir = 1 .. k /\ DOMAIN d = 1 .. k + 1 /\ Len(d) = k + 1
      /\ IsSeq(d) /\ d[k + 1] = n /\ \A i \in 1 .. k : d[i] = dir[i]
  BY SeqFacts, AppendIsSeq
<1> HIDE DEF d, k
<1>4. \A i \in 1 .. k + 1 : \A x : <<d[i], x>> \notin Wild
  <2> SUFFICES ASSUME NEW i \in 1 .. k + 1, NEW x, <<d[i], x>> \in Wild PROVE FALSE
    OBVIOUS
  <2>1. d[i] \in Range(e.path)
    BY <1>2, <1>3 DEF Range
  <2>2. <<d[i], x>>[1] = d[i]
    OBVIOUS
  <2>3. d[i] \in {w[1] : w \in Wild}
    BY <2>2
  <2>4. QED
    BY <2>1, <2>3
<1>5. \A r : Like(r.path, d) <=> Len(r.path) > k + 1 /\ \A i \in 1 .. k + 1 : d[i] = r.path[i]
  BY <1>3, <1>4 DEF Like
<1>6. \A i \in 1 .. k : i \in 1 .. k + 1
  BY <1>3
<1>7. \A r : Like(r.path, dir) <=> Len(r.path) > k /\ \A i \in 1 .. k : dir[i] = r.path[i]
  BY <1>3, <1>4, <1>6 DEF Like, k
<1>8. \A r \in At(n) : /\ r \in rows /\ r.partition = p /\ Matches(f, r) /\ Len(r.path) > k
                       /\ \A i \in 1 .. k + 1 : d[i] = r.path[i]
  <2> SUFFICES ASSUME NEW r \in At(n), NEW i \in 1 .. k + 1
               PROVE  /\ r \in rows /\ r.partition = p /\ Matches(f, r) /\ Len(r.path) > k
                      /\ d[i] = r.path[i]
    BY <1>3, <1>7 DEF RowsOf
  <2>1. /\ r \in rows /\ r.partition = p /\ Matches(f, r) /\ Len(r.path) > k
        /\ r.path[k + 1] = n /\ \A j \in 1 .. k : dir[j] = r.path[j]
    BY <1>7 DEF RowsOf, k
  <2>2. CASE i = k + 1
    BY <1>3, <2>1, <2>2
  <2>3. CASE i # k + 1
    <3>1. i \in 1 .. k
      BY <1>3, <2>3
    <3>2. QED
      BY <1>3, <2>1, <3>1
  <2>4. QED
    BY <2>1, <2>2, <2>3
<1>9. ASSUME NEW r \in At(n) PROVE r \in G
  <2>1. /\ r \in rows /\ r.partition = p /\ Matches(f, r) /\ Len(r.path) > k
        /\ \A i \in 1 .. k + 1 : d[i] = r.path[i]
    BY <1>8
  <2>2. Len(r.path) # k + 1
    <3> SUFFICES ASSUME Len(r.path) = k + 1 PROVE FALSE
      OBVIOUS
    <3>1. PICK s \in At(n) : Len(s.path) > k + 1
      BY <1>2
    <3>2. s \in rows /\ s.partition = p /\ \A i \in 1 .. k + 1 : d[i] = s.path[i]
      BY <1>8
    <3>3. IsSeq(r.path) /\ IsSeq(s.path) /\ Len(s.path) \in Nat
      BY <2>1, <3>2, PathsAreSeqs
    <3>4. IsPrefixPath(r.path, s.path)
      BY <1>3, <2>1, <3>1, <3>2, <3>3, PrefixIsElementwise
    <3>5. r.path = SubSeq(s.path, 1, Len(r.path)) /\ Len(r.path) < Len(s.path)
      BY <1>3, <3>1, <3>3, <3>4 DEF IsPrefixPath
    <3>6. QED
      BY <2>1, <3>2, <3>5 DEF RowsOK, IndexOK
  <2>3. Len(r.path) \in Nat
    BY <2>1, PathsAreSeqs
  <2>4. Like(r.path, d)
    BY <1>3, <1>5, <2>1, <2>2, <2>3
  <2>5. QED
    BY <1>2, <2>1, <2>4 DEF RowsOf
<1>10. ASSUME NEW r \in G PROVE r \in At(n)
  <2>1. /\ r \in rows /\ r.partition = p /\ Matches(f, r) /\ Len(r.path) > k + 1
        /\ \A i \in 1 .. k + 1 : d[i] = r.path[i]
    BY <1>2, <1>5 DEF RowsOf
  <2>2. Len(r.path) > k /\ \A i \in 1 .. k : dir[i] = r.path[i]
    BY <1>3, <1>6, <2>1, PathsAreSeqs
  <2>3. r.path[k + 1] = n
    BY <1>3, <2>1
  <2>4. Like(r.path, dir)
    BY <1>7, <2>2
  <2>5. QED
    BY <2>1, <2>3, <2>4 DEF RowsOf, k
<1>11. At(n) = G
  BY <1>9, <1>10
<1> DEFINE H == At(n)
<1> HIDE DEF At, G
<1>12. H = {r \in RowsOf(rows, p) : Like(r.path, e.path) /\ Matches(f, r)}
  BY <1>11 DEF G
<1>13. /\ e.total_size = SumSizes(H) /\ e.file_count = Cardinality(H)
       /\ e.latest_atime = LatestAtime(H) /\ H # {}
  BY <1>2
<1> HIDE DEF H
<1>14. QED
  BY <1>12, <1>13, ListingAddsUp

LEMMA PartitionIsItsListing ==
  ASSUME RowsOK, NEW f, NEW e \in Partitions(rows, f)
  PROVE  PartitionAddsUp(e, Directory(rows, e.name, e.path, f), f)
<1>1. PICK q \in {r.partition : r \in {x \in rows : Matches(f, x)}} \ {Root} :
        e = PartitionEntry(rows, q, f)
  BY DEF Partitions
<1> DEFINE F == {r \in RowsOf(rows, q) : Matches(f, r)}
           top == Directory(rows, e.name, e.path, f)
           b == Entry(q, <<q>>, TRUE, F)
<1>2. /\ e.name = q /\ e.path = <<q>>
      /\ e.total_size = SumSizes(F) /\ e.file_count = Cardinality(F)
      /\ e.latest_atime = LatestShown(RowsOf(rows, q), f)
      /\ b.total_size = SumSizes(F) /\ b.file_count = Cardinality(F)
      /\ b.latest_atime = LatestAtime(F)
  BY <1>1 DEF PartitionEntry, Entry
<1> HIDE DEF b
<1>3. \A r \in RowsOf(rows, q) : Like(r.path, <<q>>)
  <2> SUFFICES ASSUME NEW r \in RowsOf(rows, q) PROVE Like(r.path, <<q>>)
    OBVIOUS
  <2>1. r \in rows /\ r.partition = q /\ q # Root
    BY DEF RowsOf
  <2>2. Len(r.path) > 1 /\ r.path[1] = q
    BY <2>1, PathsAreSeqs
  <2>3. Len(<<q>>) = 1 /\ DOMAIN <<q>> = {1} /\ <<q>>[1] = q
    OBVIOUS
  <2>4. QED
    BY <2>2, <2>3 DEF Like
<1>4. F = {r \in RowsOf(rows, e.name) : Like(r.path, e.path) /\ Matches(f, r)} /\ F # {}
  BY <1>2, <1>3 DEF RowsOf
<1>5. AddsUp(b, top)
  <2> HIDE DEF F
  <2>1. QED
    BY <1>2, <1>4, ListingAddsUp
<1>6. LatestShown(RowsOf(rows, q), f)
        = IF \E r \in RowsOf(rows, q) : ~Matches(f, r)
          THEN Max({0, LatestAtime(F)}) ELSE LatestAtime(F)
  <2>1. RowsOf(rows, q) \subseteq rows
    BY DEF RowsOf
  <2>2. IsFiniteSet(RowsOf(rows, q)) /\ \A r \in RowsOf(rows, q) : r.atime \in Int
    BY <2>1, FS_Subset, PathsAreSeqs DEF RowsOK, IndexOK
  <2>3. QED
    BY <1>4, <2>2, LatestShownIs
<1> HIDE DEF F, top
<1>7. SumsUp(e, top) /\ Latest(top) = LatestAtime(F)
  BY <1>2, <1>5 DEF AddsUp, SumsUp
<1>8. QED
  BY <1>2, <1>6, <1>7 DEF PartitionAddsUp, top

\* Over the rows of any index and under any filters, a directory or partition is shown
\* with the totals of the listing it opens, and a partition is listed when its top
\* directory has something to list: the grouped statements of partitions_sql and
\* list_directory_sql agree, but for a partition's age before 1970, shown as 1970
\* where the filters leave one of its files out.
THEOREM TotalsAlwaysAddUp == ASSUME ViewOK PROVE ViewSpec => []TotalsAddUp
<1> DEFINE Kept == rows \in Indexes
<1>1. ViewInit => Kept
  BY DEF ViewInit
<1>2. Kept /\ [ViewNext]_viewVars => Kept'
  <2> SUFFICES ASSUME Kept, [ViewNext]_viewVars PROVE Kept'
    OBVIOUS
  <2>1. CASE UNCHANGED rows
    BY <2>1
  <2>2. CASE Recrawl
    BY <2>2 DEF Recrawl
  <2>3. QED
    BY <2>1, <2>2
       DEF ViewNext, viewVars, Quit, Toggle, ClearFilters, StartSortSelect, SortSelectNext,
           SortSelectPrev, ConfirmSort, CancelSort, StartInput, CancelInput, FinishInput,
           ListMove, Enter, Back, OpenListPreview, CloseListPreview, TreeMove, TreeIn, TreeOut,
           LeavePager, ListKey, TreeKey, Key
<1>3. Kept => TotalsAddUp
  <2> SUFFICES ASSUME Kept PROVE TotalsAddUp
    OBVIOUS
  <2>1. RowsOK
    BY DEF ViewOK, RowsOK
  <2> DEFINE f == app.filters
  <2>2. ASSUME NEW part \in Parts, NEW dir \in DirsOf(part),
               NEW e \in Directory(rows, part, dir, f), e.is_dir,
               Range(e.path) \cap {w[1] : w \in Wild} = {}
        PROVE  AddsUp(e, Directory(rows, part, e.path, f))
    <3>1. PICK r \in RowsOf(rows, part) : \E n \in 1 .. Len(r.path) - 1 : dir = SubSeq(r.path, 1, n)
      BY DEF DirsOf
    <3>2. PICK n \in 1 .. Len(r.path) - 1 : dir = SubSeq(r.path, 1, n)
      BY <3>1
    <3>3. r \in rows
      BY DEF RowsOf
    <3>4. n \in 0 .. Len(r.path) /\ IsSeq(r.path)
      BY <2>1, <3>3, PathsAreSeqs
    <3>5. IsSeq(dir)
      BY <3>2, <3>4, SubSeqIsSeq
    <3>6. QED
      BY <2>1, <2>2, <3>5, DirectoryAddsUp
  <2>3. ASSUME NEW e \in Partitions(rows, f)
        PROVE  PartitionAddsUp(e, Directory(rows, e.name, e.path, f), f)
    BY <2>1, PartitionIsItsListing
  <2>4. ASSUME NEW part \in Parts, Directory(rows, part, <<part>>, f) # {}
        PROVE  \E e \in Partitions(rows, f) : e.name = part
    <3>1. PICK r \in RowsOf(rows, part) : Matches(f, r)
      BY <2>4 DEF Directory
    <3>2. r \in rows /\ r.partition = part /\ part # Root
      BY DEF RowsOf, Parts
    <3>3. part \in {s.partition : s \in {x \in rows : Matches(f, x)}} \ {Root}
      BY <3>1, <3>2
    <3> DEFINE e == PartitionEntry(rows, part, f)
    <3>4. e \in Partitions(rows, f)
      BY <3>3 DEF Partitions
    <3>5. e.name = part
      BY DEF PartitionEntry, Entry
    <3>6. QED
      BY <3>4, <3>5
  <2> HIDE DEF f
  <2>5. ASSUME NEW part \in Parts \ {e.name : e \in Partitions(rows, f)}
        PROVE  Directory(rows, part, <<part>>, f) = {}
    BY <2>4
  <2>6. QED
    BY <2>2, <2>3, <2>5, Zenon DEF TotalsAddUp, f
<1>4. QED
  BY <1>1, <1>2, <1>3, PTL DEF ViewSpec
=============================================================================
