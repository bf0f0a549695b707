---------------------------- MODULE CommonFacts ----------------------------
(***************************************************************************)
(* Facts that the proofs of several components rest on: how the number of  *)
(* processes at certain statements changes when one process moves, which   *)
(* are the steps of every counting argument about semaphores; what a queue *)
(* is after one element is added to it or taken from it; and what the sum  *)
(* of a function does when one summand changes.                            *)
(***************************************************************************)
EXTENDS FiniteSets, Integers, Sequences, Functions, FiniteSetTheorems, SequenceTheorems,
        WellFoundedInduction, TLAPS

\* The processes of S that f, a program counter, puts at one of the statements L.
Among(S, f, L) == {t \in S : f[t] \in L}

\* A process that moves to one of the statements counted adds one.
LEMMA CountEnter ==
  ASSUME NEW S, IsFiniteSet(S), NEW L, NEW f, NEW g, NEW t \in S,
         \A u \in S \ {t} : g[u] = f[u],
         f[t] \notin L, g[t] \in L
  PROVE  Cardinality(Among(S, g, L)) = Cardinality(Among(S, f, L)) + 1
<1>1. IsFiniteSet(Among(S, f, L))
  BY FS_Subset DEF Among
<1>2. t \notin Among(S, f, L)
  BY DEF Among
<1>3. Among(S, g, L) = Among(S, f, L) \cup {t}
  BY DEF Among
<1> QED BY <1>1, <1>2, <1>3, FS_AddElement

\* A process that leaves the statements counted takes one away.
LEMMA CountLeave ==
  ASSUME NEW S, IsFiniteSet(S), NEW L, NEW f, NEW g, NEW t \in S,
         \A u \in S \ {t} : g[u] = f[u],
         f[t] \in L, g[t] \notin L
  PROVE  Cardinality(Among(S, g, L)) = Cardinality(Among(S, f, L)) - 1
<1>1. IsFiniteSet(Among(S, f, L))
  BY FS_Subset DEF Among
<1>2. t \in Among(S, f, L)
  BY DEF Among
<1>3. Among(S, g, L) = Among(S, f, L) \ {t}
  BY DEF Among
<1> QED BY <1>1, <1>2, <1>3, FS_RemoveElement

\* Any other move leaves the number alone.
LEMMA CountStay ==
  ASSUME NEW S, NEW L, NEW f, NEW g, \A u \in S : f[u] \in L <=> g[u] \in L
  PROVE  Among(S, g, L) = Among(S, f, L)
BY DEF Among

\* The number is a natural number, and positive as soon as a process is there.
LEMMA AmongCount ==
  ASSUME NEW S, IsFiniteSet(S), NEW L, NEW f
  PROVE  /\ Cardinality(Among(S, f, L)) \in Nat
         /\ \A t \in S : f[t] \in L => Cardinality(Among(S, f, L)) > 0
<1>1. IsFiniteSet(Among(S, f, L))
  BY FS_Subset DEF Among
<1>2. Cardinality(Among(S, f, L)) \in Nat
  BY <1>1, FS_CardinalityType
<1>3. ASSUME NEW t \in S, f[t] \in L PROVE Cardinality(Among(S, f, L)) # 0
  BY <1>1, <1>3, FS_EmptySet DEF Among
<1> QED BY <1>2, <1>3

\* The three cases in one: the number changes by where the process comes from
\* and where it goes.
LEMMA CountMove ==
  ASSUME NEW S, IsFiniteSet(S), NEW L, NEW f, NEW g, NEW t \in S,
         \A u \in S \ {t} : g[u] = f[u]
  PROVE  /\ Cardinality(Among(S, f, L)) \in Nat
         /\ f[t] \in L => Cardinality(Among(S, f, L)) > 0
         /\ Cardinality(Among(S, g, L))
              = Cardinality(Among(S, f, L)) + (IF g[t] \in L THEN 1 ELSE 0)
                                            - (IF f[t] \in L THEN 1 ELSE 0)
<1>1. /\ Cardinality(Among(S, f, L)) \in Nat
      /\ f[t] \in L => Cardinality(Among(S, f, L)) > 0
  BY AmongCount
<1>2. CASE f[t] \notin L /\ g[t] \in L
  BY <1>1, <1>2, CountEnter
<1>3. CASE f[t] \in L /\ g[t] \notin L
  BY <1>1, <1>3, CountLeave
<1>4. CASE f[t] \in L <=> g[t] \in L
  <2>1. \A u \in S : f[u] \in L <=> g[u] \in L
    BY <1>4
  <2>2. Cardinality(Among(S, g, L)) = Cardinality(Among(S, f, L))
    BY <2>1, CountStay
  <2> QED BY <1>1, <1>4, <2>2
<1> QED BY <1>2, <1>3, <1>4

-----------------------------------------------------------------------------

\* A sequence that agrees with s and has e behind it is s with e appended.
LEMMA AppendIs ==
  ASSUME NEW S, NEW s \in Seq(S), NEW e, NEW r \in Seq(S),
         Len(r) = Len(s) + 1, r[Len(r)] = e,
         \A k \in 1 .. Len(s) : r[k] = s[k]
  PROVE  r = Append(s, e)
<1>1. Len(r) \in 1 .. Len(r) /\ e \in S
  BY LenProperties
<1>2. Append(s, e) \in Seq(S) /\ Len(Append(s, e)) = Len(r)
  BY <1>1, AppendProperties
<1>3. \A k \in 1 .. Len(r) : r[k] = Append(s, e)[k]
  BY <1>1, AppendProperties, LenProperties
<1> QED BY <1>2, <1>3, SeqEqual

\* A sequence that is s without its first element is its tail.
LEMMA TailIs ==
  ASSUME NEW S, NEW s \in Seq(S), s # <<>>, NEW r \in Seq(S),
         Len(r) = Len(s) - 1,
         \A k \in 1 .. Len(r) : r[k] = s[k + 1]
  PROVE  r = Tail(s)
<1>1. Tail(s) \in Seq(S) /\ Len(Tail(s)) = Len(r)
  BY HeadTailProperties
<1>2. \A k \in 1 .. Len(r) : r[k] = Tail(s)[k]
  BY HeadTailProperties
<1> QED BY <1>1, <1>2, SeqEqual

\* Nothing is in the queue twice.
Distinct(s) == \A j, k \in 1 .. Len(s) : s[j] = s[k] => j = k

\* What is in a queue to which one is added,
LEMMA RangeAppend ==
  ASSUME NEW S, NEW s \in Seq(S), NEW e \in S
  PROVE  /\ Range(Append(s, e)) = Range(s) \cup {e}
         /\ Distinct(s) /\ e \notin Range(s) => Distinct(Append(s, e))
<1> DEFINE r == Append(s, e)
<1>1. /\ Len(s) \in Nat /\ Len(r) = Len(s) + 1 /\ r[Len(s) + 1] = e
      /\ \A k \in 1 .. Len(s) : r[k] = s[k]
      /\ DOMAIN s = 1 .. Len(s) /\ DOMAIN r = 1 .. Len(r)
  BY AppendProperties, LenProperties
<1> HIDE DEF r
<1>2. 1 .. Len(r) = (1 .. Len(s)) \cup {Len(s) + 1}
  BY <1>1
<1>3. Range(r) = Range(s) \cup {e}
  BY <1>1, <1>2 DEF Range
<1>4. ASSUME Distinct(s), e \notin Range(s) PROVE Distinct(r)
  <2>1. \A k \in 1 .. Len(s) : r[k] # e
    BY <1>1, <1>4 DEF Range
  <2> QED BY <1>1, <1>2, <1>4, <2>1 DEF Distinct
<1> QED BY <1>3, <1>4 DEF r

\* and in one from which the first is taken.
LEMMA RangeTail ==
  ASSUME NEW S, NEW s \in Seq(S), s # <<>>
  PROVE  /\ Head(s) \in S /\ Head(s) \in Range(s) /\ Tail(s) \in Seq(S)
         /\ Range(Tail(s)) \subseteq Range(s)
         /\ Distinct(s) => Distinct(Tail(s)) /\ Range(Tail(s)) = Range(s) \ {Head(s)}
<1> DEFINE r == Tail(s)
<1>1. /\ Len(s) \in Nat /\ Len(s) > 0 /\ Len(r) = Len(s) - 1 /\ r \in Seq(S)
      /\ Head(s) = s[1] /\ Head(s) \in S
      /\ \A k \in 1 .. Len(r) : r[k] = s[k + 1]
      /\ DOMAIN s = 1 .. Len(s) /\ DOMAIN r = 1 .. Len(r)
  BY HeadTailProperties, LenProperties, EmptySeq
<1> HIDE DEF r
<1>2. Head(s) \in Range(s) /\ Range(r) \subseteq Range(s)
  BY <1>1 DEF Range
<1>3. ASSUME Distinct(s) PROVE Distinct(r) /\ Range(r) = Range(s) \ {Head(s)}
  <2>1. Distinct(r)
    BY <1>1, <1>3 DEF Distinct
  <2>2. \A k \in 1 .. Len(r) : r[k] # s[1]
    BY <1>1, <1>3 DEF Distinct
  <2>3. \A k \in 1 .. Len(s) : k = 1 \/ (k - 1 \in 1 .. Len(r) /\ r[k - 1] = s[k])
    BY <1>1
  <2>4. s[1] \notin Range(r)
    BY <1>1, <2>2 DEF Range
  <2>5. ASSUME NEW x \in Range(s), x # s[1] PROVE x \in Range(r)
    <3>1. PICK k \in 1 .. Len(s) : s[k] = x
      BY <1>1 DEF Range
    <3>2. k - 1 \in 1 .. Len(r) /\ r[k - 1] = x
      BY <2>3, <2>5, <3>1
    <3> QED BY <1>1, <3>2 DEF Range
  <2> QED BY <1>1, <1>2, <2>1, <2>4, <2>5
<1> QED BY <1>1, <1>2, <1>3 DEF r

\* and in one from which any position is cut out.
LEMMA RangeCut ==
  ASSUME NEW S, NEW s \in Seq(S), NEW n \in 1 .. Len(s), NEW r \in Seq(S),
         Len(r) = Len(s) - 1,
         \A k \in 1 .. Len(r) : r[k] = IF k < n THEN s[k] ELSE s[k + 1]
  PROVE  /\ Range(s) \ {s[n]} \subseteq Range(r) /\ Range(r) \subseteq Range(s)
         /\ Distinct(s) => Distinct(r) /\ Range(r) = Range(s) \ {s[n]}
<1>1. /\ Len(s) \in Nat /\ n \in Nat /\ 1 <= n /\ n <= Len(s)
      /\ DOMAIN s = 1 .. Len(s) /\ DOMAIN r = 1 .. Len(r)
  BY LenProperties
<1> DEFINE from(k) == IF k < n THEN k ELSE k + 1
<1>2. \A k \in 1 .. Len(r) : from(k) \in 1 .. Len(s) /\ from(k) # n /\ r[k] = s[from(k)]
  BY <1>1
<1>3. \A j, k \in 1 .. Len(r) : from(j) = from(k) => j = k
  BY <1>1
<1>4. \A j \in 1 .. Len(s) : j # n => \E k \in 1 .. Len(r) : from(k) = j
  <2> SUFFICES ASSUME NEW j \in 1 .. Len(s), j # n PROVE \E k \in 1 .. Len(r) : from(k) = j
    OBVIOUS
  <2>1. CASE j < n
    BY <1>1, <2>1
  <2>2. CASE j > n
    <3>1. j - 1 \in 1 .. Len(r) /\ from(j - 1) = j
      BY <1>1, <2>2
    <3> QED BY <3>1
  <2> QED BY <1>1, <2>1, <2>2
<1> HIDE DEF from
<1>5. Range(r) \subseteq Range(s) /\ Range(s) \ {s[n]} \subseteq Range(r)
  <2>1. Range(r) \subseteq Range(s)
    BY <1>1, <1>2 DEF Range
  <2>2. ASSUME NEW x \in Range(s), x # s[n] PROVE x \in Range(r)
    <3>1. PICK j \in 1 .. Len(s) : s[j] = x
      BY <1>1 DEF Range
    <3>2. PICK k \in 1 .. Len(r) : from(k) = j
      BY <1>4, <2>2, <3>1
    <3> QED BY <1>1, <1>2, <3>1, <3>2 DEF Range
  <2> QED BY <2>1, <2>2
<1>6. ASSUME Distinct(s) PROVE Distinct(r) /\ s[n] \notin Range(r)
  <2>1. \A j, k \in 1 .. Len(s) : s[j] = s[k] => j = k
    BY <1>1, <1>6 DEF Distinct
  <2>2. ASSUME NEW j \in 1 .. Len(r), NEW k \in 1 .. Len(r), r[j] = r[k] PROVE j = k
    <3>1. from(j) = from(k)
      <4>1. /\ from(j) \in 1 .. Len(s) /\ r[j] = s[from(j)]
            /\ from(k) \in 1 .. Len(s) /\ r[k] = s[from(k)]
        BY <1>2, <2>2
      <4>2. s[from(j)] = s[from(k)]
        BY <2>2, <4>1, Zenon
      <4> QED BY ONLY <2>1, <4>1, <4>2, Zenon
    <3> QED BY <1>3, <3>1
  <2>3. Distinct(r)
    BY <1>1, <2>2 DEF Distinct
  <2>4. ASSUME NEW k \in 1 .. Len(r) PROVE r[k] # s[n]
    BY <1>2, <2>1
  <2> QED BY <1>1, <2>3, <2>4 DEF Range
<1> QED BY <1>5, <1>6

\* which is what is left when the parts before and behind it are put together.
LEMMA CutIs ==
  ASSUME NEW S, NEW s \in Seq(S), NEW n \in 1 .. Len(s),
         NEW r, r = SubSeq(s, 1, n - 1) \o SubSeq(s, n + 1, Len(s))
  PROVE  /\ r \in Seq(S) /\ Len(r) = Len(s) - 1
         /\ \A k \in 1 .. Len(r) : r[k] = IF k < n THEN s[k] ELSE s[k + 1]
<1> DEFINE a == SubSeq(s, 1, n - 1)
           b == SubSeq(s, n + 1, Len(s))
           m == Len(s) - n
<1>1. Len(s) \in Nat /\ n \in Nat /\ 1 <= n /\ n <= Len(s)
  BY LenProperties
<1>2. a \in Seq(S) /\ Len(a) = n - 1 /\ \A k \in 1 .. n - 1 : a[k] = s[k]
  <2>1. \A k \in 1 .. n - 1 : s[k] \in S
    BY <1>1, ElementOfSeq
  <2>2. n - 1 \in Int /\ 1 \in Int
    BY <1>1
  <2>3. /\ a \in Seq(S) /\ Len(a) = IF 1 <= n - 1 THEN (n - 1) - 1 + 1 ELSE 0
        /\ \A k \in 1 .. (n - 1) - 1 + 1 : a[k] = s[1 + k - 1]
    BY ONLY <2>1, <2>2, SubSeqProperties
  <2> HIDE DEF a
  <2> QED BY ONLY <1>1, <2>3
<1>3. b \in Seq(S) /\ Len(b) = m /\ \A k \in 1 .. m : b[k] = s[k + n]
  <2>1. \A k \in n + 1 .. Len(s) : s[k] \in S
    BY <1>1, ElementOfSeq
  <2>2. n + 1 \in Int /\ Len(s) \in Int
    BY <1>1
  <2>3. /\ b \in Seq(S) /\ Len(b) = IF n + 1 <= Len(s) THEN Len(s) - (n + 1) + 1 ELSE 0
        /\ \A k \in 1 .. Len(s) - (n + 1) + 1 : b[k] = s[(n + 1) + k - 1]
    BY ONLY <2>1, <2>2, SubSeqProperties
  <2> HIDE DEF b
  <2> QED BY ONLY <1>1, <2>3
<1>4. r = a \o b
  OBVIOUS
<1> HIDE DEF a, b
<1>5. /\ r \in Seq(S) /\ Len(r) = Len(a) + Len(b)
      /\ \A k \in 1 .. Len(a) + Len(b) : r[k] = IF k <= Len(a) THEN a[k] ELSE b[k - Len(a)]
  <2>1. /\ a \o b \in Seq(S) /\ Len(a \o b) = Len(a) + Len(b)
        /\ \A k \in 1 .. Len(a) + Len(b) : (a \o b)[k] = IF k <= Len(a) THEN a[k] ELSE b[k - Len(a)]
    BY ONLY <1>2, <1>3, ConcatProperties
  <2> QED BY ONLY <1>4, <2>1
<1>6. Len(r) = Len(s) - 1
  BY ONLY <1>1, <1>2, <1>3, <1>5
<1>7. ASSUME NEW k \in 1 .. Len(r) PROVE r[k] = IF k < n THEN s[k] ELSE s[k + 1]
  <2>1. r[k] = IF k <= Len(a) THEN a[k] ELSE b[k - Len(a)]
    BY ONLY k \in 1 .. Len(r), <1>5
  <2>2. CASE k < n
    BY ONLY k \in 1 .. Len(r), <1>1, <1>2, <1>6, <2>1, <2>2
  <2>3. CASE ~ (k < n)
    <3>1. ~ (k <= Len(a)) /\ k - Len(a) \in 1 .. m /\ (k - Len(a)) + n = k + 1
      BY ONLY k \in 1 .. Len(r), <1>1, <1>2, <1>6, <2>3
    <3> QED BY ONLY <1>3, <2>1, <2>3, <3>1
  <2> QED BY <2>2, <2>3
<1> QED BY ONLY <1>5, <1>6, <1>7

-----------------------------------------------------------------------------
(* Induction, with a set in the place of a predicate.                      *)

\* A set of numbers that holds 0, and n + 1 with n, holds all of them.
LEMMA NumberInduction ==
  ASSUME NEW T, 0 \in T, \A n \in Nat : n \in T => n + 1 \in T
  PROVE  Nat \subseteq T
<1> SUFFICES ASSUME Nat \ T # {} PROVE FALSE
  OBVIOUS
<1>1. IsWellFoundedOn(OpToRel(<, Nat), Nat)
  BY NatLessThanWellFounded
<1>2. PICK n \in Nat \ T : \A m \in Nat \ T : ~ (<<m, n>> \in OpToRel(<, Nat))
  BY <1>1, WFMin
<1>3. n # 0 /\ n - 1 \in Nat
  OBVIOUS
<1>4. n - 1 \in Nat \ T
  BY <1>3
<1>5. <<n - 1, n>> \in OpToRel(<, Nat)
  BY <1>3 DEF OpToRel
<1> QED BY <1>2, <1>4, <1>5

\* A family of subsets of a finite set that holds the empty one, and each one
\* whose subsets with one element less it holds, holds all of them.
LEMMA SubsetInduction ==
  ASSUME NEW S, IsFiniteSet(S), NEW T, {} \in T,
         \A s \in SUBSET S : s # {} /\ (\A x \in s : s \ {x} \in T) => s \in T
  PROVE  SUBSET S \subseteq T
<1> SUFFICES ASSUME (SUBSET S) \ T # {} PROVE FALSE
  OBVIOUS
<1>1. IsWellFoundedOn(StrictSubsetOrdering(S), SUBSET S)
  BY FS_StrictSubsetOrderingWellFounded, FS_FiniteSubsetsOfFinite
<1>2. PICK s \in (SUBSET S) \ T :
        \A r \in (SUBSET S) \ T : ~ (<<r, s>> \in StrictSubsetOrdering(S))
  BY <1>1, WFMin
<1>3. PICK x \in s : s \ {x} \notin T
  OBVIOUS
<1>4. <<s \ {x}, s>> \in StrictSubsetOrdering(S)
  BY DEF StrictSubsetOrdering
<1> QED BY <1>2, <1>3, <1>4

-----------------------------------------------------------------------------
(* Sums.  SumFunctionOnSet adds in an order of its own choosing, by a      *)
(* recursive function on the subsets; that there is such a function comes  *)
(* first, and then that the order does not matter.                         *)

Chosen(s) == CHOOSE x \in s : TRUE
Adding(f, S, h) ==
  h = [s \in SUBSET S |-> IF s = {} THEN 0 ELSE f[Chosen(s)] + h[s \ {Chosen(s)}]]

\* Built up by the size of the subsets, so that each value is defined by an
\* earlier one.
LEMMA AddingExists ==
  ASSUME NEW S, IsFiniteSet(S), NEW f
  PROVE  \E h : Adding(f, S, h)
<1> DEFINE Upto(n) == {s \in SUBSET S : Cardinality(s) <= n}
           Good(n, h) == \A s \in Upto(n) :
                           h[s] = IF s = {} THEN 0 ELSE f[Chosen(s)] + h[s \ {Chosen(s)}]
           T == {n \in Nat : \E h : Good(n, h)}
<1>1. \A s \in SUBSET S : IsFiniteSet(s) /\ Cardinality(s) \in Nat
  BY FS_Subset, FS_CardinalityType
<1>2. \A s \in SUBSET S : s # {} => Chosen(s) \in s
  BY DEF Chosen
<1>3. 0 \in T
  <2>1. \A s \in Upto(0) : s = {}
    BY <1>1, FS_EmptySet
  <2>2. Good(0, [s \in {{}} |-> 0])
    BY <2>1
  <2> QED BY <2>2
<1>4. ASSUME NEW n \in Nat, n \in T PROVE n + 1 \in T
  <2>1. PICK g : Good(n, g)
    BY <1>4
  <2> DEFINE h == [s \in Upto(n + 1) |-> IF s = {} THEN 0 ELSE f[Chosen(s)] + g[s \ {Chosen(s)}]]
  <2>2. \A s \in Upto(n) : s \in Upto(n + 1) /\ h[s] = g[s]
    <3>1. \A s \in Upto(n) : s \in Upto(n + 1)
      BY <1>1
    <3> QED BY <2>1, <3>1
  <2>3. ASSUME NEW s \in Upto(n + 1), s # {} PROVE s \ {Chosen(s)} \in Upto(n)
    <3>1. Cardinality(s \ {Chosen(s)}) = Cardinality(s) - 1
      BY <1>1, <1>2, <2>3, FS_RemoveElement
    <3> QED BY <1>1, <3>1
  <2>4. Good(n + 1, h)
    <3> SUFFICES ASSUME NEW s \in Upto(n + 1)
                 PROVE  h[s] = IF s = {} THEN 0 ELSE f[Chosen(s)] + h[s \ {Chosen(s)}]
      OBVIOUS
    <3>1. s # {} => h[s \ {Chosen(s)}] = g[s \ {Chosen(s)}]
      BY <2>2, <2>3
    <3> QED BY <3>1
  <2> HIDE DEF Good
  <2> QED BY <2>4
<1>5. Cardinality(S) \in T
  <2> HIDE DEF T
  <2> QED BY <1>1, <1>3, <1>4, NumberInduction
<1>6. PICK h : Good(Cardinality(S), h)
  BY <1>5
<1>7. \A s \in SUBSET S : s \in Upto(Cardinality(S))
  BY FS_Subset
<1> DEFINE k == [s \in SUBSET S |-> h[s]]
<1>8. \A s \in SUBSET S : k[s] = IF s = {} THEN 0 ELSE f[Chosen(s)] + k[s \ {Chosen(s)}]
  BY <1>6, <1>7
<1>9. k = [s \in SUBSET S |-> IF s = {} THEN 0 ELSE f[Chosen(s)] + k[s \ {Chosen(s)}]]
  BY <1>8
<1> QED BY <1>9 DEF Adding

\* Such functions on a set and on a part of it are the same on the part.
LEMMA AddingAgrees ==
  ASSUME NEW S, NEW R \in SUBSET S, IsFiniteSet(R), NEW f,
         NEW h, Adding(f, S, h), NEW k, Adding(f, R, k)
  PROVE  h[R] = k[R]
<1> DEFINE T == {s \in SUBSET R : h[s] = k[s]}
<1>1. \A s \in SUBSET R :
        /\ h[s] = IF s = {} THEN 0 ELSE f[Chosen(s)] + h[s \ {Chosen(s)}]
        /\ k[s] = IF s = {} THEN 0 ELSE f[Chosen(s)] + k[s \ {Chosen(s)}]
  BY DEF Adding
<1>2. {} \in T
  BY <1>1
<1>3. ASSUME NEW s \in SUBSET R, s # {}, \A x \in s : s \ {x} \in T PROVE s \in T
  <2>1. Chosen(s) \in s
    BY <1>3 DEF Chosen
  <2> QED BY <1>1, <1>3, <2>1
<1> HIDE DEF T
<1>4. R \in T
  BY <1>2, <1>3, SubsetInduction
<1> QED BY <1>4 DEF T

\* The sum is what such a function gives for the whole set.
LEMMA SumIs ==
  ASSUME NEW S, IsFiniteSet(S), NEW f
  PROVE  \E h : Adding(f, S, h) /\ SumFunctionOnSet(f, S) = h[S]
<1> DEFINE Eq(h) == h = [s \in SUBSET S |-> IF s = {} THEN 0
                           ELSE f[CHOOSE x \in s : TRUE] + h[s \ {CHOOSE x \in s : TRUE}]]
           k == CHOOSE h : Eq(h)
<1>1. SumFunctionOnSet(f, S) = k[S]
  BY DEF SumFunctionOnSet, FoldFunctionOnSet, MapThenFoldSet
<1>2. \E h : Eq(h)
  <2>1. PICK h : Adding(f, S, h)
    BY AddingExists
  <2>2. Eq(h)
    BY <2>1 DEF Adding, Chosen
  <2> QED BY <2>2
<1>3. Eq(k)
  <2> HIDE DEF Eq
  <2> QED BY <1>2
<1> QED BY <1>1, <1>3 DEF Adding, Chosen

\* Any element may be added first.
LEMMA SumRemove ==
  ASSUME NEW S, IsFiniteSet(S), NEW f, \A x \in S : f[x] \in Int
  PROVE  /\ SumFunctionOnSet(f, S) \in Int
         /\ \A x \in S : SumFunctionOnSet(f, S) = f[x] + SumFunctionOnSet(f, S \ {x})
         /\ S = {} => SumFunctionOnSet(f, S) = 0
<1> DEFINE Sum(s) == SumFunctionOnSet(f, s)
           Any(s) == /\ Sum(s) \in Int
                     /\ \A x \in s : /\ Sum(s) = f[x] + Sum(s \ {x})
                                    /\ Sum(s \ {x}) \in Int
           T == {s \in SUBSET S : Any(s)}
<1>1. ASSUME NEW s \in SUBSET S
      PROVE  Sum(s) = IF s = {} THEN 0 ELSE f[Chosen(s)] + Sum(s \ {Chosen(s)})
  <2>1. IsFiniteSet(s) /\ IsFiniteSet(s \ {Chosen(s)})
    BY FS_Subset
  <2>2. PICK h : Adding(f, s, h) /\ Sum(s) = h[s]
    BY <2>1, SumIs
  <2>3. PICK k : Adding(f, s \ {Chosen(s)}, k) /\ Sum(s \ {Chosen(s)}) = k[s \ {Chosen(s)}]
    BY <2>1, SumIs
  <2>4. h[s \ {Chosen(s)}] = k[s \ {Chosen(s)}]
    BY <2>1, <2>2, <2>3, AddingAgrees
  <2>5. h[s] = IF s = {} THEN 0 ELSE f[Chosen(s)] + h[s \ {Chosen(s)}]
    BY <2>2 DEF Adding
  <2> QED BY <2>2, <2>3, <2>4, <2>5
<1> HIDE DEF Sum
<1>2. {} \in T
  <2>1. {} \in SUBSET S
    OBVIOUS
  <2>2. Sum({}) = 0
    BY <1>1, <2>1
  <2> QED BY <2>1, <2>2
<1>3. ASSUME NEW s \in SUBSET S, s # {}, \A x \in s : s \ {x} \in T PROVE s \in T
  <2> DEFINE c == Chosen(s)
  <2>1. c \in s /\ f[c] \in Int
    BY <1>3 DEF Chosen
  <2>2. Sum(s) = f[c] + Sum(s \ {c}) /\ Sum(s \ {c}) \in Int
    BY <1>1, <1>3, <2>1
  <2> HIDE DEF c
  <2>3. ASSUME NEW x \in s, x # c PROVE Sum(s) = f[x] + Sum(s \ {x})
    <3>1. /\ x \in s \ {c} /\ c \in s \ {x}
          /\ (s \ {c}) \ {x} = (s \ {x}) \ {c}
      BY <2>1, <2>3
    <3>2. Sum(s \ {c}) = f[x] + Sum((s \ {c}) \ {x})
      BY <1>3, <2>1, <3>1
    <3>3. Sum(s \ {x}) = f[c] + Sum((s \ {x}) \ {c}) /\ Sum(s \ {x}) \in Int
      BY <1>3, <3>1
    <3>4. f[x] \in Int /\ f[c] \in Int
      BY <2>1
    <3>5. Sum((s \ {c}) \ {x}) \in Int
      BY <1>3, <2>1, <3>1
    <3> QED BY <2>2, <3>1, <3>2, <3>3, <3>4, <3>5
  <2>4. \A x \in s : Sum(s \ {x}) \in Int
    BY <1>3
  <2>5. \A x \in s : Sum(s) = f[x] + Sum(s \ {x})
    <3> SUFFICES ASSUME NEW x \in s PROVE Sum(s) = f[x] + Sum(s \ {x})
      OBVIOUS
    <3>1. CASE x = c
      BY <2>2, <3>1
    <3> QED BY <2>3, <3>1
  <2>6. Sum(s) \in Int
    BY <2>1, <2>2
  <2> QED BY <2>4, <2>5, <2>6
<1> HIDE DEF T
<1>4. S \in T
  BY <1>2, <1>3, SubsetInduction
<1> QED BY <1>1, <1>4 DEF T, Sum

\* Two functions that agree have the same sum.
LEMMA SumSame ==
  ASSUME NEW S, IsFiniteSet(S), NEW f, NEW g, \A x \in S : f[x] \in Int /\ g[x] = f[x]
  PROVE  SumFunctionOnSet(g, S) = SumFunctionOnSet(f, S)
<1> DEFINE T == {s \in SUBSET S : SumFunctionOnSet(g, s) = SumFunctionOnSet(f, s)}
<1>1. ASSUME NEW s \in SUBSET S
      PROVE  /\ IsFiniteSet(s)
             /\ \A x \in s : /\ SumFunctionOnSet(f, s) = f[x] + SumFunctionOnSet(f, s \ {x})
                             /\ SumFunctionOnSet(g, s) = g[x] + SumFunctionOnSet(g, s \ {x})
             /\ s = {} => SumFunctionOnSet(f, s) = 0 /\ SumFunctionOnSet(g, s) = 0
  <2>1. IsFiniteSet(s) /\ (\A x \in s : f[x] \in Int) /\ (\A x \in s : g[x] \in Int)
    BY FS_Subset
  <2> QED BY <2>1, SumRemove
<1>2. {} \in T
  BY <1>1
<1>3. ASSUME NEW s \in SUBSET S, s # {}, \A x \in s : s \ {x} \in T PROVE s \in T
  <2>1. PICK x \in s : TRUE
    BY <1>3
  <2> QED BY <1>1, <1>3, <2>1
<1> HIDE DEF T
<1>4. S \in T
  BY <1>2, <1>3, SubsetInduction
<1> QED BY <1>4 DEF T

\* The sum changes by what one summand changes.
LEMMA SumChange ==
  ASSUME NEW S, IsFiniteSet(S), NEW f, NEW g, NEW x \in S,
         \A y \in S : f[y] \in Int /\ g[y] \in Int,
         \A y \in S \ {x} : g[y] = f[y]
  PROVE  /\ SumFunctionOnSet(f, S) \in Int
         /\ SumFunctionOnSet(g, S) = SumFunctionOnSet(f, S) + g[x] - f[x]
<1>1. IsFiniteSet(S \ {x})
  BY FS_Subset
<1>2. SumFunctionOnSet(g, S \ {x}) = SumFunctionOnSet(f, S \ {x})
  BY <1>1, SumSame
<1>3. SumFunctionOnSet(f, S \ {x}) \in Int
  BY <1>1, SumRemove
<1>4. /\ SumFunctionOnSet(f, S) = f[x] + SumFunctionOnSet(f, S \ {x})
      /\ SumFunctionOnSet(g, S) = g[x] + SumFunctionOnSet(g, S \ {x})
  BY SumRemove
<1> QED BY <1>2, <1>3, <1>4

\* A sum of natural numbers is one, and a sum of zeros is zero.
LEMMA SumNat ==
  ASSUME NEW S, IsFiniteSet(S), NEW f, \A x \in S : f[x] \in Nat
  PROVE  /\ SumFunctionOnSet(f, S) \in Nat
         /\ (\A x \in S : f[x] = 0) => SumFunctionOnSet(f, S) = 0
<1> DEFINE T == {s \in SUBSET S :
                   /\ SumFunctionOnSet(f, s) \in Nat
                   /\ (\A x \in S : f[x] = 0) => SumFunctionOnSet(f, s) = 0}
<1>1. ASSUME NEW s \in SUBSET S
      PROVE  /\ \A x \in s : SumFunctionOnSet(f, s) = f[x] + SumFunctionOnSet(f, s \ {x})
             /\ s = {} => SumFunctionOnSet(f, s) = 0
  <2>1. IsFiniteSet(s) /\ \A x \in s : f[x] \in Int
    BY FS_Subset
  <2> QED BY <2>1, SumRemove
<1>2. {} \in T
  BY <1>1
<1>3. ASSUME NEW s \in SUBSET S, s # {}, \A x \in s : s \ {x} \in T PROVE s \in T
  <2>1. PICK x \in s : f[x] \in Nat
    BY <1>3
  <2>2. SumFunctionOnSet(f, s) = f[x] + SumFunctionOnSet(f, s \ {x}) /\ s \ {x} \in T
    BY <1>1, <1>3
  <2>3. x \in S
    OBVIOUS
  <2> QED BY <2>1, <2>2, <2>3
<1> HIDE DEF T
<1>4. S \in T
  BY <1>2, <1>3, SubsetInduction
<1> QED BY <1>4 DEF T

\* The sum over the first numbers grows by the last of them.
LEMMA SumUpto ==
  ASSUME NEW n \in Nat, NEW f, \A k \in 1 .. n + 1 : f[k] \in Int
  PROVE  /\ SumFunctionOnSet(f, 1 .. n) \in Int
         /\ SumFunctionOnSet(f, 1 .. n + 1) = SumFunctionOnSet(f, 1 .. n) + f[n + 1]
         /\ SumFunctionOnSet(f, 1 .. 0) = 0
<1>1. IsFiniteSet(1 .. n) /\ IsFiniteSet(1 .. n + 1) /\ IsFiniteSet(1 .. 0)
  BY FS_Interval
<1>2. n + 1 \in 1 .. n + 1 /\ (1 .. n + 1) \ {n + 1} = 1 .. n /\ 1 .. 0 = {}
  OBVIOUS
<1>3. SumFunctionOnSet(f, 1 .. n) \in Int
  BY <1>1, SumRemove
<1>4. SumFunctionOnSet(f, 1 .. n + 1) = f[n + 1] + SumFunctionOnSet(f, 1 .. n)
  <2>1. SumFunctionOnSet(f, 1 .. n + 1)
          = f[n + 1] + SumFunctionOnSet(f, (1 .. n + 1) \ {n + 1})
    BY ONLY <1>1, <1>2, \A k \in 1 .. n + 1 : f[k] \in Int, SumRemove
  <2> QED BY <1>2, <2>1
<1>5. SumFunctionOnSet(f, {}) = 0
  BY FS_EmptySet, SumRemove
<1> QED BY <1>2, <1>3, <1>4, <1>5

\* A queue of numbers to which one is added.
LEMMA SumAppend ==
  ASSUME NEW q \in Seq(Int), NEW v \in Int
  PROVE  /\ SumFunctionOnSet(q, 1 .. Len(q)) \in Int
         /\ SumFunctionOnSet(Append(q, v), 1 .. Len(Append(q, v)))
              = SumFunctionOnSet(q, 1 .. Len(q)) + v
<1> DEFINE r == Append(q, v)
<1>1. /\ Len(q) \in Nat /\ Len(r) = Len(q) + 1
      /\ \A k \in 1 .. Len(q) : q[k] \in Int /\ r[k] = q[k]
      /\ r[Len(q) + 1] = v
  BY AppendProperties, LenProperties
<1> HIDE DEF r
<1>2. \A k \in 1 .. Len(q) + 1 : r[k] \in Int
  BY <1>1
<1>3. SumFunctionOnSet(r, 1 .. Len(q) + 1) = SumFunctionOnSet(r, 1 .. Len(q)) + v
  BY <1>1, <1>2, SumUpto
<1>4. IsFiniteSet(1 .. Len(q))
  BY <1>1, FS_Interval
<1>5. SumFunctionOnSet(r, 1 .. Len(q)) = SumFunctionOnSet(q, 1 .. Len(q))
  BY <1>1, <1>4, SumSame
<1>6. SumFunctionOnSet(q, 1 .. Len(q)) \in Int
  BY <1>1, <1>4, SumRemove
<1> QED BY <1>1, <1>3, <1>5, <1>6 DEF r

\* A queue of numbers from which the first is taken.
LEMMA SumTail ==
  ASSUME NEW q \in Seq(Int), q # <<>>
  PROVE  /\ SumFunctionOnSet(q, 1 .. Len(q)) \in Int
         /\ SumFunctionOnSet(Tail(q), 1 .. Len(Tail(q)))
              = SumFunctionOnSet(q, 1 .. Len(q)) - q[1]
<1> DEFINE r == Tail(q)
           Shifted(n) == SumFunctionOnSet(r, 1 .. n) = SumFunctionOnSet(q, 1 .. n + 1) - q[1]
           T == {n \in Nat : n < Len(q) => Shifted(n)}
<1>1. /\ Len(q) \in Nat /\ Len(q) > 0 /\ Len(r) = Len(q) - 1
      /\ \A k \in 1 .. Len(q) : q[k] \in Int
      /\ \A k \in 1 .. Len(r) : r[k] = q[k + 1]
  BY HeadTailProperties, LenProperties
<1> HIDE DEF r
<1>2. \A k \in 1 .. Len(r) : r[k] \in Int
  BY <1>1
<1>3. 0 \in T
  <2>1. 0 \in Nat /\ \A k \in 1 .. 0 + 1 : q[k] \in Int
    BY <1>1
  <2>2. SumFunctionOnSet(q, 1 .. 0 + 1) = SumFunctionOnSet(q, 1 .. 0) + q[0 + 1]
    BY <2>1, SumUpto
  <2>3. SumFunctionOnSet(q, 1 .. 0) = 0 /\ SumFunctionOnSet(r, 1 .. 0) = 0
    <3>1. 1 .. 0 = {}
      OBVIOUS
    <3> QED BY <3>1, FS_EmptySet, SumRemove
  <2> QED BY <1>1, <2>2, <2>3
<1>4. ASSUME NEW n \in Nat, n \in T PROVE n + 1 \in T
  <2> SUFFICES ASSUME n + 1 < Len(q) PROVE Shifted(n + 1)
    OBVIOUS
  <2>1. Shifted(n)
    BY <1>4, <1>1
  <2>2. /\ SumFunctionOnSet(q, 1 .. n + 1) \in Int
        /\ SumFunctionOnSet(q, 1 .. (n + 1) + 1) = SumFunctionOnSet(q, 1 .. n + 1) + q[(n + 1) + 1]
    <3>1. n + 1 \in Nat /\ \A k \in 1 .. (n + 1) + 1 : q[k] \in Int
      BY <1>1
    <3> QED BY <3>1, SumUpto
  <2>3. /\ SumFunctionOnSet(r, 1 .. n) \in Int
        /\ SumFunctionOnSet(r, 1 .. n + 1) = SumFunctionOnSet(r, 1 .. n) + r[n + 1]
    <3>1. \A k \in 1 .. n + 1 : r[k] \in Int
      BY <1>1, <1>2
    <3> QED BY <3>1, SumUpto
  <2>4. r[n + 1] = q[(n + 1) + 1] /\ q[(n + 1) + 1] \in Int /\ q[1] \in Int
    BY <1>1
  <2> QED BY <2>1, <2>2, <2>3, <2>4
<1>5. Shifted(Len(r))
  <2>1. Len(r) \in T
    <3> HIDE DEF T
    <3>1. Len(r) \in Nat
      BY <1>1
    <3> QED BY <1>3, <1>4, <3>1, NumberInduction
  <2> QED BY <1>1, <2>1
<1>6. SumFunctionOnSet(q, 1 .. Len(q)) \in Int
  <2>1. IsFiniteSet(1 .. Len(q))
    BY <1>1, FS_Interval
  <2> QED BY <1>1, <2>1, SumRemove
<1>7. Len(r) + 1 = Len(q)
  BY <1>1
<1> QED BY <1>5, <1>6, <1>7 DEF r
=============================================================================
