----------------------------- MODULE DataProofs -----------------------------
(***************************************************************************)
(* Facts about the data of the modules: sequences, index arrays, and what  *)
(* the ledgers of the contracts add up to.  SumFunctionOnSet is a          *)
(* recursive function over the subsets of a set, each taking the summand   *)
(* that CHOOSE picks: the lemmas show that it exists and is unique, by     *)
(* well-founded induction over the finite subsets, and then that a sum     *)
(* does not depend on the order in which it is taken, and what happens to  *)
(* it when one summand changes or one is added.                            *)
(***************************************************************************)
EXTENDS IndexArrays, Functions, FiniteSetTheorems, TLAPS

(* Sequences. *)

LEMMA AppendFacts ==
    ASSUME NEW S, NEW s \in Seq(S), NEW e \in S
    PROVE  /\ Append(s, e) \in Seq(S)
           /\ Len(Append(s, e)) = Len(s) + 1
           /\ DOMAIN Append(s, e) = DOMAIN s \cup {Len(s) + 1}
           /\ \A i \in DOMAIN s : Append(s, e)[i] = s[i]
           /\ Append(s, e)[Len(s) + 1] = e
  OBVIOUS

LEMMA ExceptFacts ==
    ASSUME NEW S, NEW s \in Seq(S), NEW k \in DOMAIN s, NEW e \in S
    PROVE  /\ [s EXCEPT ![k] = e] \in Seq(S)
           /\ Len([s EXCEPT ![k] = e]) = Len(s)
           /\ DOMAIN [s EXCEPT ![k] = e] = DOMAIN s
           /\ \A i \in DOMAIN s : [s EXCEPT ![k] = e][i] = IF i = k THEN e ELSE s[i]
  OBVIOUS

LEMMA ConcatFacts ==
    ASSUME NEW S, NEW s \in Seq(S), NEW T, NEW t \in Seq(T)
    PROVE  /\ s \o t \in Seq(S \cup T)
           /\ Len(s \o t) = Len(s) + Len(t)
           /\ \A i \in 1..Len(s) : (s \o t)[i] = s[i]
           /\ \A i \in 1..Len(t) : (s \o t)[Len(s) + i] = t[i]
<1>1. s \in Seq(S \cup T) /\ t \in Seq(S \cup T)
  OBVIOUS
<1> QED
  BY <1>1, SMTT(30)

\* Swap-and-pop removes the entry it is given from a list without duplicates and
\* keeps every other entry, once.
LEMMA SwapAndPopFacts ==
    ASSUME NEW ids \in Seq(Nat), NEW id,
           \A i, j \in DOMAIN ids : ids[i] = ids[j] => i = j,
           NEW k \in DOMAIN ids, ids[k] = id
    PROVE  LET r == SwapAndPop(ids, id)
           IN  /\ r \in Seq(Nat) /\ Len(r) = Len(ids) - 1
               /\ \A i \in DOMAIN r : r[i] # id /\ \E j \in DOMAIN ids : ids[j] = r[i]
               /\ \A i, j \in DOMAIN r : r[i] = r[j] => i = j
               /\ \A j \in DOMAIN ids : ids[j] # id => \E i \in DOMAIN r : r[i] = ids[j]
<1> DEFINE first == CHOOSE i \in DOMAIN ids : ids[i] = id /\ \A j \in 1 .. i - 1 : ids[j] # id
           n == Len(ids)
           w == [ids EXCEPT ![k] = ids[n]]
<1>1. /\ DOMAIN ids = 1 .. n /\ n \in Nat /\ n >= 1 /\ k \in 1 .. n /\ n \in DOMAIN ids
      /\ \A i, j \in 1 .. n : ids[i] = ids[j] => i = j
  OBVIOUS
<1>2. k \in DOMAIN ids /\ ids[k] = id /\ \A j \in 1 .. k - 1 : ids[j] # id
  BY <1>1
<1>3. first = k
  <2>1. first \in DOMAIN ids /\ ids[first] = id
    BY <1>2
  <2> QED
    BY <2>1
<1>4. SwapAndPop(ids, id) = SubSeq(w, 1, n - 1)
  BY <1>2, <1>3 DEF SwapAndPop
<1>5. /\ w \in Seq(Nat) /\ Len(w) = n
      /\ \A i \in 1 .. n : w[i] = IF i = k THEN ids[n] ELSE ids[i]
  BY <1>1, ExceptFacts
<1> DEFINE r == SubSeq(w, 1, n - 1)
<1> HIDE DEF w
<1>6. /\ r \in Seq(Nat) /\ Len(r) = n - 1 /\ DOMAIN r = 1 .. n - 1
      /\ \A i \in 1 .. n - 1 : r[i] = w[i]
  BY <1>1, <1>5, SMTT(30)
<1> HIDE DEF r, n
<1>7. ASSUME NEW i \in DOMAIN r PROVE r[i] # id /\ \E j \in DOMAIN ids : ids[j] = r[i]
  <2>1. i \in 1 .. n /\ i # n /\ r[i] = IF i = k THEN ids[n] ELSE ids[i]
    BY <1>1, <1>5, <1>6
  <2>2. CASE i = k
    BY <2>1, <2>2, <1>1
  <2>3. CASE i # k
    BY <2>1, <2>3, <1>1
  <2> QED
    BY <2>2, <2>3
<1>8. ASSUME NEW i \in DOMAIN r, NEW j \in DOMAIN r, r[i] = r[j] PROVE i = j
  <2>1. /\ i \in 1 .. n /\ i # n /\ r[i] = IF i = k THEN ids[n] ELSE ids[i]
        /\ j \in 1 .. n /\ j # n /\ r[j] = IF j = k THEN ids[n] ELSE ids[j]
    BY <1>1, <1>5, <1>6
  <2> QED
    BY <2>1, <1>8, <1>1
<1>9. ASSUME NEW j \in DOMAIN ids, ids[j] # id PROVE \E i \in DOMAIN r : r[i] = ids[j]
  <2>1. CASE j = n
    <3>1. k \in DOMAIN r /\ r[k] = ids[n]
      BY <2>1, <1>1, <1>5, <1>6, <1>9
    <3> QED
      BY <3>1, <2>1
  <2>2. CASE j # n
    <3>1. j \in DOMAIN r /\ r[j] = ids[j]
      BY <2>2, <1>1, <1>5, <1>6, <1>9
    <3> QED
      BY <3>1
  <2> QED
    BY <2>1, <2>2
<1> QED
  BY <1>4, <1>6, <1>7, <1>8, <1>9 DEF r, n

-----------------------------------------------------------------------------
(* Sums. *)

\* The summand that is taken first.
Pick(s) == CHOOSE x \in s : TRUE

\* g is the running sum of f over the subsets of S.
Running(g, f, S) ==
    g = [s \in SUBSET S |-> IF s = {} THEN 0 ELSE f[Pick(s)] + g[s \ {Pick(s)}]]

\* SumFunctionOnSet, its folds expanded.
LEMMA SumByPick ==
    ASSUME NEW f, NEW S
    PROVE  SumFunctionOnSet(f, S) = (CHOOSE g : Running(g, f, S))[S]
  BY DEF SumFunctionOnSet, FoldFunctionOnSet, MapThenFoldSet, Running, Pick

\* A property of subsets, given as the set of those that have it, holds of a finite
\* set when every subset inherits it from its strict subsets.
LEMMA SubsetInduction ==
    ASSUME NEW S, IsFiniteSet(S), NEW Good,
           \A T \in SUBSET S : (\A U \in SUBSET T : U # T => U \in Good) => T \in Good
    PROVE  S \in Good
  <1> SUFFICES ASSUME S \notin Good PROVE FALSE
    OBVIOUS
  <1> DEFINE Bad == {T \in SUBSET S : T \notin Good}
             R == StrictSubsetOrdering(S)
  <1>1. IsWellFoundedOn(R, FiniteSubsetsOf(S))
    BY FS_StrictSubsetOrderingWellFounded
  <1>2. Bad \subseteq FiniteSubsetsOf(S) /\ Bad # {}
    BY FS_Subset DEF FiniteSubsetsOf
  <1>3. PICK T \in Bad : \A U \in Bad : ~(<<U, T>> \in R)
    <2> HIDE DEF Bad, R
    <2> QED
      BY <1>1, <1>2, WFMin
  <1>4. \A U \in SUBSET T : U # T => U \in Good
    BY <1>3 DEF StrictSubsetOrdering
  <1> QED
    BY <1>3, <1>4

\* A running sum obeys its equation.
LEMMA RunningValues ==
    ASSUME NEW f, NEW S, NEW g, Running(g, f, S)
    PROVE  /\ g[{}] = 0
           /\ \A s \in SUBSET S : s # {} => /\ Pick(s) \in s /\ s \ {Pick(s)} \in SUBSET S
                                            /\ g[s] = f[Pick(s)] + g[s \ {Pick(s)}]
  <1> DEFINE e == [s \in SUBSET S |-> IF s = {} THEN 0 ELSE f[Pick(s)] + g[s \ {Pick(s)}]]
  <1>1. g = e
    BY DEF Running
  <1>2. \A s \in SUBSET S : e[s] = IF s = {} THEN 0 ELSE f[Pick(s)] + g[s \ {Pick(s)}]
    OBVIOUS
  <1>3. \A s : s # {} => Pick(s) \in s
    BY DEF Pick
  <1> HIDE DEF e
  <1> QED
    BY <1>1, <1>2, <1>3

\* Two running sums agree wherever both are defined.
LEMMA RunningUnique ==
    ASSUME NEW f, NEW S, NEW T, NEW g, NEW h, Running(g, f, S), Running(h, f, T),
           NEW U, IsFiniteSet(U), U \subseteq S, U \subseteq T
    PROVE  g[U] = h[U]
  <1> DEFINE Good == {s \in SUBSET U : g[s] = h[s]}
  <1>1. ASSUME NEW V \in SUBSET U, \A W \in SUBSET V : W # V => W \in Good
        PROVE  V \in Good
    <2>1. CASE V = {}
      BY <2>1, RunningValues
    <2>2. CASE V # {}
      <3>1. /\ Pick(V) \in V
            /\ g[V] = f[Pick(V)] + g[V \ {Pick(V)}]
            /\ h[V] = f[Pick(V)] + h[V \ {Pick(V)}]
        BY <2>2, RunningValues
      <3>2. V \ {Pick(V)} \in Good
        BY <1>1, <3>1
      <3> QED
        BY <3>1, <3>2
    <2> QED
      BY <2>1, <2>2
  <1>2. U \in Good
    <2> HIDE DEF Good
    <2> QED
      BY <1>1, SubsetInduction
  <1> QED
    BY <1>2

\* A finite set has a running sum: glue those of its strict subsets together.
LEMMA RunningExists ==
    ASSUME NEW f, NEW S, IsFiniteSet(S)
    PROVE  \E g : Running(g, f, S)
  <1> DEFINE Good == {T \in SUBSET S : \E g : Running(g, f, T)}
  <1>1. ASSUME NEW T \in SUBSET S, \A U \in SUBSET T : U # T => U \in Good
        PROVE  T \in Good
    <2> DEFINE G(U) == CHOOSE g : Running(g, f, U)
               g == [s \in SUBSET T |->
                        IF s = {} THEN 0 ELSE f[Pick(s)] + G(s \ {Pick(s)})[s \ {Pick(s)}]]
    <2>1. \A U \in SUBSET T : U # T => Running(G(U), f, U)
      BY <1>1
    <2>2. \A s \in SUBSET T :
             g[s] = IF s = {} THEN 0 ELSE f[Pick(s)] + G(s \ {Pick(s)})[s \ {Pick(s)}]
      OBVIOUS
    <2>3. \A s \in SUBSET T : s # {} => Pick(s) \in s
      BY DEF Pick
    <2> HIDE DEF g, G
    <2>4. ASSUME NEW U \in SUBSET T, U # T PROVE g[U] = G(U)[U]
      <3>1. CASE U = {}
        BY <3>1, <2>1, <2>2, <2>4, RunningValues
      <3>2. CASE U # {}
        <4> DEFINE W == U \ {Pick(U)}
        <4>1. Pick(U) \in U /\ W \in SUBSET T /\ W # T /\ W \subseteq U
          BY <2>3, <2>4, <3>2
        <4>2. G(U)[U] = f[Pick(U)] + G(U)[W]
          BY <2>1, <2>4, <3>2, RunningValues
        <4>3. IsFiniteSet(W)
          BY <4>1, FS_Subset
        <4>4. G(U)[W] = G(W)[W]
          BY <2>1, <2>4, <4>1, <4>3, RunningUnique
        <4> QED
          BY <2>2, <3>2, <4>2, <4>4
      <3> QED
        BY <3>1, <3>2
    <2>5. \A s \in SUBSET T :
             g[s] = IF s = {} THEN 0 ELSE f[Pick(s)] + g[s \ {Pick(s)}]
      <3> SUFFICES ASSUME NEW s \in SUBSET T, s # {}
                   PROVE  g[s \ {Pick(s)}] = G(s \ {Pick(s)})[s \ {Pick(s)}]
        BY <2>2
      <3>1. s \ {Pick(s)} \in SUBSET T /\ s \ {Pick(s)} # T
        BY <2>3
      <3> QED
        BY <2>4, <3>1
    <2>6. Running(g, f, T)
      BY <2>5 DEF Running, g
    <2> QED
      BY <2>6
  <1>2. S \in Good
    <2> HIDE DEF Good
    <2> QED
      BY <1>1, SubsetInduction
  <1> QED
    BY <1>2

-----------------------------------------------------------------------------
(* What a sum is. *)

\* Nothing adds up to zero.
LEMMA SumEmpty == \A f : SumFunctionOnSet(f, {}) = 0
  <1> TAKE f
  <1>1. IsFiniteSet({})
    BY FS_EmptySet
  <1>2. Running(CHOOSE g : Running(g, f, {}), f, {})
    BY <1>1, RunningExists
  <1> QED
    BY <1>2, RunningValues, SumByPick

\* The equation of the sum.
LEMMA SumPick ==
    ASSUME NEW f, NEW S, IsFiniteSet(S), S # {}
    PROVE  /\ Pick(S) \in S
           /\ SumFunctionOnSet(f, S) = f[Pick(S)] + SumFunctionOnSet(f, S \ {Pick(S)})
  <1> DEFINE G(T) == CHOOSE g : Running(g, f, T)
             U == S \ {Pick(S)}
  <1>1. IsFiniteSet(U)
    BY FS_Subset
  <1>2. Running(G(S), f, S) /\ Running(G(U), f, U)
    BY <1>1, RunningExists
  <1>3. SumFunctionOnSet(f, S) = G(S)[S] /\ SumFunctionOnSet(f, U) = G(U)[U]
    BY SumByPick
  <1> HIDE DEF G
  <1>4. Pick(S) \in S /\ G(S)[S] = f[Pick(S)] + G(S)[U]
    BY <1>2, RunningValues
  <1>5. G(S)[U] = G(U)[U]
    BY <1>1, <1>2, RunningUnique
  <1> QED
    BY <1>3, <1>4, <1>5

\* A sum of integers is an integer.
LEMMA SumType ==
    ASSUME NEW f, NEW S, IsFiniteSet(S), \A x \in S : f[x] \in Int
    PROVE  SumFunctionOnSet(f, S) \in Int
  <1> DEFINE Good == {T \in SUBSET S : SumFunctionOnSet(f, T) \in Int}
  <1>1. ASSUME NEW T \in SUBSET S, \A U \in SUBSET T : U # T => U \in Good
        PROVE  T \in Good
    <2>1. CASE T = {}
      BY <2>1, SumEmpty
    <2>2. CASE T # {}
      <3>1. IsFiniteSet(T)
        BY FS_Subset
      <3>2. /\ Pick(T) \in T
            /\ SumFunctionOnSet(f, T) = f[Pick(T)] + SumFunctionOnSet(f, T \ {Pick(T)})
        BY <2>2, <3>1, SumPick
      <3>3. T \ {Pick(T)} \in Good
        BY <1>1, <3>2
      <3> QED
        BY <3>2, <3>3
    <2> QED
      BY <2>1, <2>2
  <1>2. S \in Good
    <2> HIDE DEF Good
    <2> QED
      BY <1>1, SubsetInduction
  <1> QED
    BY <1>2

\* A sum does not depend on the order in which it is taken: any summand comes out first.
LEMMA SumRemove ==
    ASSUME NEW f, NEW S, IsFiniteSet(S), \A x \in S : f[x] \in Int, NEW e \in S
    PROVE  SumFunctionOnSet(f, S) = f[e] + SumFunctionOnSet(f, S \ {e})
  <1> DEFINE Sum(T) == SumFunctionOnSet(f, T)
             Good == {T \in SUBSET S : \A x \in T : Sum(T) = f[x] + Sum(T \ {x})}
  <1>1. ASSUME NEW T \in SUBSET S, \A U \in SUBSET T : U # T => U \in Good
        PROVE  T \in Good
    <2> SUFFICES ASSUME NEW x \in T PROVE Sum(T) = f[x] + Sum(T \ {x})
      OBVIOUS
    <2> DEFINE p == Pick(T)
    <2>1. IsFiniteSet(T) /\ \A U \in SUBSET T : IsFiniteSet(U) /\ Sum(U) \in Int
      BY FS_Subset, SumType
    <2>2. p \in T /\ Sum(T) = f[p] + Sum(T \ {p})
      BY <2>1, SumPick
    <2>3. CASE x = p
      BY <2>2, <2>3
    <2>4. CASE x # p
      <3>1. T \ {p} \in Good /\ T \ {x} \in Good
        BY <1>1, <2>2
      <3>2. x \in T \ {p} /\ p \in T \ {x} /\ (T \ {p}) \ {x} = (T \ {x}) \ {p}
        BY <2>2, <2>4
      <3> DEFINE rest == (T \ {x}) \ {p}
      <3>3. f[x] \in Int /\ f[p] \in Int /\ rest \in SUBSET T
        BY <2>2
      <3> HIDE DEF p
      <3>4. Sum(T \ {p}) = f[x] + Sum(rest) /\ Sum(T \ {x}) = f[p] + Sum(rest)
        BY <3>1, <3>2
      <3>5. Sum(rest) \in Int
        BY <2>1, <3>3
      <3> HIDE DEF Sum, rest
      <3> QED
        BY <2>2, <3>3, <3>4, <3>5
    <2> QED
      BY <2>3, <2>4
  <1>2. S \in Good
    <2> HIDE DEF Good
    <2> QED
      BY <1>1, SubsetInduction
  <1> QED
    BY <1>2

\* Only the summands in the set count.
LEMMA SumSame ==
    ASSUME NEW f, NEW g, NEW S, IsFiniteSet(S), \A x \in S : f[x] = g[x]
    PROVE  SumFunctionOnSet(f, S) = SumFunctionOnSet(g, S)
  <1> DEFINE Good == {T \in SUBSET S : SumFunctionOnSet(f, T) = SumFunctionOnSet(g, T)}
  <1>1. ASSUME NEW T \in SUBSET S, \A U \in SUBSET T : U # T => U \in Good
        PROVE  T \in Good
    <2>1. CASE T = {}
      BY <2>1, SumEmpty
    <2>2. CASE T # {}
      <3>1. IsFiniteSet(T)
        BY FS_Subset
      <3>2. /\ Pick(T) \in T
            /\ SumFunctionOnSet(f, T) = f[Pick(T)] + SumFunctionOnSet(f, T \ {Pick(T)})
            /\ SumFunctionOnSet(g, T) = g[Pick(T)] + SumFunctionOnSet(g, T \ {Pick(T)})
        BY <2>2, <3>1, SumPick
      <3>3. T \ {Pick(T)} \in Good
        BY <1>1, <3>2
      <3> QED
        BY <3>2, <3>3
    <2> QED
      BY <2>1, <2>2
  <1>2. S \in Good
    <2> HIDE DEF Good
    <2> QED
      BY <1>1, SubsetInduction
  <1> QED
    BY <1>2

\* One summand changes.
LEMMA SumChange ==
    ASSUME NEW f, NEW g, NEW S, IsFiniteSet(S), NEW e \in S,
           \A x \in S : f[x] \in Int /\ g[x] \in Int,
           \A x \in S : x # e => g[x] = f[x]
    PROVE  SumFunctionOnSet(g, S) = SumFunctionOnSet(f, S) + (g[e] - f[e])
  <1>1. IsFiniteSet(S \ {e})
    BY FS_Subset
  <1>2. SumFunctionOnSet(f, S \ {e}) = SumFunctionOnSet(g, S \ {e})
    BY <1>1, SumSame
  <1>3. SumFunctionOnSet(f, S \ {e}) \in Int
    BY <1>1, SumType
  <1>4. /\ SumFunctionOnSet(f, S) = f[e] + SumFunctionOnSet(f, S \ {e})
        /\ SumFunctionOnSet(g, S) = g[e] + SumFunctionOnSet(g, S \ {e})
    BY SumRemove
  <1> QED
    BY <1>2, <1>3, <1>4

\* One summand is new.
LEMMA SumAdd ==
    ASSUME NEW f, NEW g, NEW S, IsFiniteSet(S), NEW e, e \notin S,
           \A x \in S \cup {e} : g[x] \in Int,
           \A x \in S : g[x] = f[x]
    PROVE  SumFunctionOnSet(g, S \cup {e}) = SumFunctionOnSet(f, S) + g[e]
  <1>1. IsFiniteSet(S \cup {e})
    BY FS_AddElement
  <1>2. (S \cup {e}) \ {e} = S
    OBVIOUS
  <1>3. SumFunctionOnSet(g, S \cup {e}) = g[e] + SumFunctionOnSet(g, S)
    BY <1>1, <1>2, SumRemove
  <1>4. SumFunctionOnSet(g, S) = SumFunctionOnSet(f, S)
    BY SumSame
  <1>5. SumFunctionOnSet(g, S) \in Int
    BY SumType
  <1> QED
    BY <1>3, <1>4, <1>5

\* Equal summands.
LEMMA SumConstant ==
    ASSUME NEW f, NEW S, IsFiniteSet(S), NEW c \in Int, \A x \in S : f[x] = c
    PROVE  SumFunctionOnSet(f, S) = c * Cardinality(S)
  <1> DEFINE Good == {T \in SUBSET S : SumFunctionOnSet(f, T) = c * Cardinality(T)}
  <1>1. ASSUME NEW T \in SUBSET S, \A U \in SUBSET T : U # T => U \in Good
        PROVE  T \in Good
    <2>1. CASE T = {}
      <3>1. Cardinality({}) = 0
        BY FS_EmptySet
      <3> QED
        BY <2>1, <3>1, SumEmpty
    <2>2. CASE T # {}
      <3>1. IsFiniteSet(T)
        BY FS_Subset
      <3>2. PICK e \in T : TRUE
        BY <2>2
      <3>3. /\ IsFiniteSet(T \ {e}) /\ Cardinality(T) \in Nat
            /\ Cardinality(T \ {e}) = Cardinality(T) - 1
        BY <3>1, FS_RemoveElement, FS_CardinalityType
      <3>4. SumFunctionOnSet(f, T) = c + SumFunctionOnSet(f, T \ {e})
        BY <3>1, SumRemove
      <3>5. SumFunctionOnSet(f, T \ {e}) = c * Cardinality(T \ {e})
        <4>1. T \ {e} \in Good
          BY <1>1
        <4> QED
          BY <4>1
      <3>6. c + c * (Cardinality(T) - 1) = c * Cardinality(T)
        BY <3>3
      <3> QED
        BY <3>3, <3>4, <3>5, <3>6
    <2> QED
      BY <2>1, <2>2
  <1>2. S \in Good
    <2> HIDE DEF Good
    <2> QED
      BY <1>1, SubsetInduction
  <1> QED
    BY <1>2


\* A sum of naturals is a natural, and no summand exceeds it.
LEMMA SumNat ==
    ASSUME NEW f, NEW S, IsFiniteSet(S), \A x \in S : f[x] \in Nat
    PROVE  /\ SumFunctionOnSet(f, S) \in Nat
           /\ \A e \in S : f[e] <= SumFunctionOnSet(f, S)
<1> DEFINE Good == {T \in SUBSET S : SumFunctionOnSet(f, T) \in Nat}
<1>1. ASSUME NEW T \in SUBSET S, \A U \in SUBSET T : U # T => U \in Good
      PROVE  T \in Good
  <2>1. CASE T = {}
    BY <2>1, SumEmpty
  <2>2. CASE T # {}
    <3>1. IsFiniteSet(T)
      BY FS_Subset
    <3>2. /\ Pick(T) \in T
          /\ SumFunctionOnSet(f, T) = f[Pick(T)] + SumFunctionOnSet(f, T \ {Pick(T)})
      BY <2>2, <3>1, SumPick
    <3>3. T \ {Pick(T)} \in Good
      BY <1>1, <3>2
    <3> QED
      BY <3>2, <3>3
  <2> QED
    BY <2>1, <2>2
<1>2. \A T \in SUBSET S : SumFunctionOnSet(f, T) \in Nat
  <2> SUFFICES ASSUME NEW T \in SUBSET S PROVE T \in Good
    OBVIOUS
  <2>1. IsFiniteSet(T) /\ \A V \in SUBSET T : V \in SUBSET S
    BY FS_Subset
  <2> HIDE DEF Good
  <2> QED
    BY <1>1, <2>1, SubsetInduction
<1>3. ASSUME NEW e \in S PROVE f[e] <= SumFunctionOnSet(f, S)
  <2>1. SumFunctionOnSet(f, S) = f[e] + SumFunctionOnSet(f, S \ {e})
    BY SumRemove
  <2>2. f[e] \in Nat /\ SumFunctionOnSet(f, S \ {e}) \in Nat
    BY <1>2
  <2> QED
    BY <2>1, <2>2
<1> QED
  BY <1>2, <1>3

\* The same two lemmas for the summand of a group that n may or may not belong to.
LEMMA GroupAdd ==
    ASSUME NEW f, NEW g, NEW P, IsFiniteSet(P), NEW n, n \notin P, NEW Q, Q \ {n} = P,
           \A x \in P : f[x] \in Int /\ g[x] = f[x],
           g[n] \in Int
    PROVE  SumFunctionOnSet(g, Q) = SumFunctionOnSet(f, P) + (IF n \in Q THEN g[n] ELSE 0)
<1>1. CASE n \in Q
  <2>1. Q = P \cup {n}
    BY <1>1
  <2>2. SumFunctionOnSet(g, P \cup {n}) = SumFunctionOnSet(f, P) + g[n]
    BY SumAdd
  <2> QED
    BY <1>1, <2>1, <2>2
<1>2. CASE n \notin Q
  <2>1. Q = P
    BY <1>2
  <2>2. SumFunctionOnSet(f, P) = SumFunctionOnSet(g, P)
    BY SumSame
  <2>3. SumFunctionOnSet(f, P) \in Int
    BY SumType
  <2> QED
    BY <1>2, <2>1, <2>2, <2>3
<1> QED
  BY <1>1, <1>2

LEMMA GroupChange ==
    ASSUME NEW f, NEW g, NEW P, IsFiniteSet(P), NEW n,
           \A x \in P : f[x] \in Int /\ g[x] \in Int /\ (x # n => g[x] = f[x])
    PROVE  SumFunctionOnSet(g, P) =
             SumFunctionOnSet(f, P) + (IF n \in P THEN g[n] - f[n] ELSE 0)
<1>1. CASE n \in P
  BY <1>1, SumChange
<1>2. CASE n \notin P
  <2>1. SumFunctionOnSet(f, P) = SumFunctionOnSet(g, P)
    BY <1>2, SumSame
  <2>2. SumFunctionOnSet(f, P) \in Int
    BY SumType
  <2> QED
    BY <1>2, <2>1, <2>2
<1> QED
  BY <1>1, <1>2
=============================================================================
