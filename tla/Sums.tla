--------------------------------- MODULE Sums ---------------------------------
(***************************************************************************)
(* What the proofs need of sums: SumFunctionOnSet, with which wallets and  *)
(* ledgers are compared, adds each value once, in whatever order.  The     *)
(* library defines it by a fold that picks the next element by CHOOSE.     *)
(***************************************************************************)
EXTENDS Integers, FiniteSets, Functions, FiniteSetTheorems, WellFoundedInduction, TLAPS

Pick(s) == CHOOSE x \in s : TRUE

\* iter is the function by which the fold over S is defined.
Fits(f, S, iter) ==
  iter = [s \in SUBSET S |-> IF s = {} THEN 0 ELSE f[Pick(s)] + iter[s \ {Pick(s)}]]

-----------------------------------------------------------------------------
\* Among subsets of a finite set there is one none of whose own subsets is among
\* them.  A smallest counterexample takes the place of an induction.
LEMMA Smallest ==
  ASSUME NEW S, IsFiniteSet(S), NEW T \in SUBSET SUBSET S, T # {}
  PROVE  \E s \in T : \A t \in SUBSET s : t # s => t \notin T
<1>1. IsWellFoundedOn(StrictSubsetOrdering(S), FiniteSubsetsOf(S))
  BY FS_StrictSubsetOrderingWellFounded
<1>2. T \subseteq FiniteSubsetsOf(S)
  BY FS_Subset DEF FiniteSubsetsOf
<1>3. PICK s \in T : \A t \in T : <<t, s>> \notin StrictSubsetOrdering(S)
  BY <1>1, <1>2, WFMin
<1> SUFFICES ASSUME NEW t \in SUBSET s, t # s, t \in T PROVE FALSE
  BY <1>3
<1>4. <<t, s>> \in StrictSubsetOrdering(S)
  BY DEF StrictSubsetOrdering
<1> QED BY <1>3, <1>4

LEMMA Picked == \A s : s # {} => Pick(s) \in s /\ s \ {Pick(s)} # s
BY DEF Pick

\* Two such functions agree where both are defined.
LEMMA Agree ==
  ASSUME NEW f, NEW S, NEW T, NEW g, NEW h, Fits(f, S, g), Fits(f, T, h),
         NEW U \in SUBSET (S \cap T), IsFiniteSet(U)
  PROVE  g[U] = h[U]
<1> DEFINE Bad == {s \in SUBSET U : g[s] # h[s]}
<1> SUFFICES ASSUME Bad # {} PROVE FALSE
  OBVIOUS
<1>1. PICK s \in Bad : \A t \in SUBSET s : t # s => t \notin Bad
  <2>1. Bad \in SUBSET SUBSET U
    OBVIOUS
  <2> HIDE DEF Bad
  <2> QED BY <2>1, Smallest
<1>2. s \in SUBSET S /\ s \in SUBSET T
  OBVIOUS
<1>3. CASE s = {}
  <2>1. g[s] = 0 /\ h[s] = 0
    BY <1>2, <1>3 DEF Fits
  <2> QED BY <2>1
<1>4. CASE s # {}
  <2> DEFINE t == s \ {Pick(s)}
  <2>1. g[s] = f[Pick(s)] + g[t] /\ h[s] = f[Pick(s)] + h[t]
    BY <1>2, <1>4 DEF Fits
  <2>2. t \in SUBSET U /\ t \in SUBSET s /\ t # s
    BY <1>4, Picked
  <2>3. g[t] = h[t]
    BY <1>1, <2>2
  <2> QED BY <2>1, <2>3
<1> QED BY <1>3, <1>4

\* For a finite set there is one.
LEMMA Exists ==
  ASSUME NEW f, NEW S, IsFiniteSet(S)
  PROVE  \E g : Fits(f, S, g)
<1> DEFINE Bad == {s \in SUBSET S : ~\E g : Fits(f, s, g)}
<1> SUFFICES ASSUME Bad # {} PROVE FALSE
  OBVIOUS
<1>1. PICK s \in Bad : \A t \in SUBSET s : t # s => t \notin Bad
  <2>1. Bad \in SUBSET SUBSET S
    OBVIOUS
  <2> HIDE DEF Bad
  <2> QED BY <2>1, Smallest
<1> DEFINE Of(t) == CHOOSE g : Fits(f, t, g)
           Value(t) == Of(t)[t]
           Sum == [t \in SUBSET s |->
                     IF t = {} THEN 0 ELSE f[Pick(t)] + Value(t \ {Pick(t)})]
<1>2. \A t \in SUBSET s : t # s => Fits(f, t, Of(t))
  <2> SUFFICES ASSUME NEW t \in SUBSET s, t # s PROVE Fits(f, t, Of(t))
    OBVIOUS
  <2>1. \E g : Fits(f, t, g)
    BY <1>1
  <2> QED BY <2>1
<1> HIDE DEF Of
<1>3. ASSUME NEW u \in SUBSET s, u # s
      PROVE  Sum[u] = Value(u)
  <2>1. Fits(f, u, Of(u))
    BY <1>2, <1>3
  <2>2. Value(u) = IF u = {} THEN 0 ELSE f[Pick(u)] + Of(u)[u \ {Pick(u)}]
    BY <2>1 DEF Fits
  <2>3. CASE u = {}
    BY <2>2, <2>3
  <2>4. CASE u # {}
    <3> DEFINE t == u \ {Pick(u)}
    <3>1. t \in SUBSET u /\ t \in SUBSET s /\ t # s /\ t \in SUBSET (u \cap t)
      BY <1>3, <2>4, Picked
    <3>2. IsFiniteSet(t)
      BY <3>1, FS_Subset
    <3>3. Fits(f, t, Of(t))
      BY <1>2, <3>1
    <3>4. Of(u)[t] = Of(t)[t]
      BY <2>1, <3>1, <3>2, <3>3, Agree
    <3> QED BY <2>2, <2>4, <3>4
  <2> QED BY <2>3, <2>4
<1>4. Fits(f, s, Sum)
  <2>1. \A t \in SUBSET s : t # {} =>
          Sum[t \ {Pick(t)}] = Value(t \ {Pick(t)})
    <3> SUFFICES ASSUME NEW t \in SUBSET s, t # {}
                 PROVE  Sum[t \ {Pick(t)}] = Value(t \ {Pick(t)})
      OBVIOUS
    <3>1. t \ {Pick(t)} \in SUBSET s /\ t \ {Pick(t)} # s
      BY Picked
    <3> HIDE DEF Sum, Value
    <3> QED BY <1>3, <3>1
  <2>2. Sum = [t \in SUBSET s |-> IF t = {} THEN 0 ELSE f[Pick(t)] + Sum[t \ {Pick(t)}]]
    <3> DEFINE Again == [t \in SUBSET s |-> IF t = {} THEN 0 ELSE f[Pick(t)] + Sum[t \ {Pick(t)}]]
    <3>1. \A t \in SUBSET s : Sum[t] = Again[t]
      <4> SUFFICES ASSUME NEW t \in SUBSET s PROVE Sum[t] = Again[t]
        OBVIOUS
      <4>1. CASE t = {}
        BY <4>1
      <4>2. CASE t # {}
        <5>1. Sum[t] = f[Pick(t)] + Value(t \ {Pick(t)})
          BY <4>2
        <5>2. Again[t] = f[Pick(t)] + Sum[t \ {Pick(t)}]
          BY <4>2
        <5> HIDE DEF Sum, Again, Value
        <5> QED BY <2>1, <4>2, <5>1, <5>2
      <4> QED BY <4>1, <4>2
    <3>2. DOMAIN Sum = SUBSET s /\ DOMAIN Again = SUBSET s
      OBVIOUS
    <3> QED BY <3>1
  <2> HIDE DEF Sum
  <2> QED BY <2>2 DEF Fits
<1> HIDE DEF Sum
<1> QED BY <1>4

-----------------------------------------------------------------------------
\* The sum over S is the value at S of any function that fits.
LEMMA Unfold ==
  ASSUME NEW f, NEW S, IsFiniteSet(S)
  PROVE  \E g : Fits(f, S, g) /\ SumFunctionOnSet(f, S) = g[S]
<1> DEFINE g == CHOOSE iter : Fits(f, S, iter)
<1>1. SumFunctionOnSet(f, S) = g[S]
  BY DEF SumFunctionOnSet, FoldFunctionOnSet, MapThenFoldSet, Fits, Pick
<1>2. Fits(f, S, g)
  <2>1. \E iter : Fits(f, S, iter)
    BY Exists
  <2> QED BY <2>1
<1> QED BY <1>1, <1>2

\* Nothing adds up to nothing.
THEOREM SumEmpty == \A f : SumFunctionOnSet(f, {}) = 0
<1> SUFFICES ASSUME NEW f PROVE SumFunctionOnSet(f, {}) = 0
  OBVIOUS
<1>1. PICK g : Fits(f, {}, g) /\ SumFunctionOnSet(f, {}) = g[{}]
  BY Unfold, FS_EmptySet
<1> QED BY <1>1 DEF Fits

\* The sum is the value of the element the fold picks and the sum of the rest.
LEMMA SumPick ==
  ASSUME NEW f, NEW S, IsFiniteSet(S), S # {}
  PROVE  SumFunctionOnSet(f, S) = f[Pick(S)] + SumFunctionOnSet(f, S \ {Pick(S)})
<1> DEFINE R == S \ {Pick(S)}
<1>1. PICK g : Fits(f, S, g) /\ SumFunctionOnSet(f, S) = g[S]
  BY Unfold
<1>2. IsFiniteSet(R) /\ R \in SUBSET (S \cap R)
  BY FS_Subset
<1>3. PICK h : Fits(f, R, h) /\ SumFunctionOnSet(f, R) = h[R]
  BY <1>2, Unfold
<1>4. g[R] = h[R]
  BY <1>1, <1>2, <1>3, Agree
<1>5. g[S] = f[Pick(S)] + g[R]
  BY <1>1 DEF Fits
<1> QED BY <1>1, <1>3, <1>4, <1>5

\* A sum of integers is an integer.
THEOREM SumInt ==
  ASSUME NEW f, NEW S, IsFiniteSet(S), \A x \in S : f[x] \in Int
  PROVE  SumFunctionOnSet(f, S) \in Int
<1> DEFINE Bad == {s \in SUBSET S : SumFunctionOnSet(f, s) \notin Int}
<1> SUFFICES ASSUME Bad # {} PROVE FALSE
  OBVIOUS
<1>1. PICK s \in Bad : \A t \in SUBSET s : t # s => t \notin Bad
  <2>1. Bad \in SUBSET SUBSET S
    OBVIOUS
  <2> HIDE DEF Bad
  <2> QED BY <2>1, Smallest
<1>2. s # {}
  <2>1. SumFunctionOnSet(f, {}) \in Int
    BY SumEmpty
  <2> QED BY <2>1
<1>3. SumFunctionOnSet(f, s \ {Pick(s)}) \in Int
  BY <1>1, <1>2, Picked
<1>4. SumFunctionOnSet(f, s) = f[Pick(s)] + SumFunctionOnSet(f, s \ {Pick(s)})
  BY <1>2, SumPick, FS_Subset
<1>5. f[Pick(s)] \in Int
  BY <1>2, Picked
<1> QED BY <1>1, <1>3, <1>4, <1>5

\* A sum of naturals is a natural.
THEOREM SumNat ==
  ASSUME NEW f, NEW S, IsFiniteSet(S), \A x \in S : f[x] \in Nat
  PROVE  SumFunctionOnSet(f, S) \in Nat
<1> DEFINE Bad == {s \in SUBSET S : SumFunctionOnSet(f, s) \notin Nat}
<1> SUFFICES ASSUME Bad # {} PROVE FALSE
  OBVIOUS
<1>1. PICK s \in Bad : \A t \in SUBSET s : t # s => t \notin Bad
  <2>1. Bad \in SUBSET SUBSET S
    OBVIOUS
  <2> HIDE DEF Bad
  <2> QED BY <2>1, Smallest
<1>2. s # {}
  <2>1. SumFunctionOnSet(f, {}) \in Nat
    BY SumEmpty
  <2> QED BY <2>1
<1>3. SumFunctionOnSet(f, s \ {Pick(s)}) \in Nat
  BY <1>1, <1>2, Picked
<1>4. SumFunctionOnSet(f, s) = f[Pick(s)] + SumFunctionOnSet(f, s \ {Pick(s)})
  BY <1>2, SumPick, FS_Subset
<1>5. f[Pick(s)] \in Nat
  BY <1>2, Picked
<1> QED BY <1>1, <1>3, <1>4, <1>5

\* Functions that agree on S have the same sum over it.
THEOREM SumSame ==
  ASSUME NEW f, NEW g, NEW S, IsFiniteSet(S), \A x \in S : f[x] = g[x]
  PROVE  SumFunctionOnSet(f, S) = SumFunctionOnSet(g, S)
<1> DEFINE Bad == {s \in SUBSET S : SumFunctionOnSet(f, s) # SumFunctionOnSet(g, s)}
<1> SUFFICES ASSUME Bad # {} PROVE FALSE
  OBVIOUS
<1>1. PICK s \in Bad : \A t \in SUBSET s : t # s => t \notin Bad
  <2>1. Bad \in SUBSET SUBSET S
    OBVIOUS
  <2> HIDE DEF Bad
  <2> QED BY <2>1, Smallest
<1>2. s # {}
  BY <1>1, SumEmpty
<1> DEFINE r == s \ {Pick(s)}
<1>3. SumFunctionOnSet(f, r) = SumFunctionOnSet(g, r)
  BY <1>1, <1>2, Picked
<1>4. IsFiniteSet(s)
  BY FS_Subset
<1>5. SumFunctionOnSet(f, s) = f[Pick(s)] + SumFunctionOnSet(f, r)
  BY <1>2, <1>4, SumPick
<1>6. SumFunctionOnSet(g, s) = g[Pick(s)] + SumFunctionOnSet(g, r)
  BY <1>2, <1>4, SumPick
<1>7. f[Pick(s)] = g[Pick(s)]
  BY <1>2, Picked
<1> QED BY <1>1, <1>3, <1>5, <1>6, <1>7

\* Any element can be taken out: the order of a sum does not matter.
THEOREM SumRemove ==
  ASSUME NEW f, NEW S, IsFiniteSet(S), \A x \in S : f[x] \in Int, NEW e \in S
  PROVE  SumFunctionOnSet(f, S) = f[e] + SumFunctionOnSet(f, S \ {e})
<1> DEFINE Bad == {s \in SUBSET S : \E x \in s :
                     SumFunctionOnSet(f, s) # f[x] + SumFunctionOnSet(f, s \ {x})}
<1> SUFFICES ASSUME Bad # {} PROVE FALSE
  OBVIOUS
<1>1. PICK s \in Bad : \A t \in SUBSET s : t # s => t \notin Bad
  <2>1. Bad \in SUBSET SUBSET S
    OBVIOUS
  <2> HIDE DEF Bad
  <2> QED BY <2>1, Smallest
<1>2. PICK x \in s : SumFunctionOnSet(f, s) # f[x] + SumFunctionOnSet(f, s \ {x})
  BY <1>1
<1> DEFINE p == Pick(s)
<1>3. s \in SUBSET S /\ p \in s /\ s # {} /\ s \ {p} # s
  BY <1>1, Picked
<1> HIDE DEF Bad, p
<1>4. SumFunctionOnSet(f, s) = f[p] + SumFunctionOnSet(f, s \ {p})
  BY <1>3, SumPick, FS_Subset DEF p
<1>5. x # p
  BY <1>2, <1>4
<1>6. IsFiniteSet(s \ {x}) /\ IsFiniteSet((s \ {p}) \ {x})
  BY <1>3, FS_Subset
<1>7. SumFunctionOnSet(f, s \ {p}) = f[x] + SumFunctionOnSet(f, (s \ {p}) \ {x})
  BY <1>1, <1>3, <1>5 DEF Bad
<1>8. SumFunctionOnSet(f, s \ {x}) = f[p] + SumFunctionOnSet(f, (s \ {x}) \ {p})
  <2>1. s \ {x} \in SUBSET s /\ s \ {x} # s /\ p \in s \ {x} /\ s \ {x} \in SUBSET S
    BY <1>2, <1>3, <1>5
  <2>2. s \ {x} \notin Bad
    BY <1>1, <2>1
  <2> QED BY <2>1, <2>2 DEF Bad
<1>9. (s \ {x}) \ {p} = (s \ {p}) \ {x}
  OBVIOUS
<1>10. SumFunctionOnSet(f, (s \ {p}) \ {x}) \in Int /\ f[p] \in Int /\ f[x] \in Int
  BY <1>3, <1>6, SumInt
<1>11. SumFunctionOnSet(f, s \ {x}) = f[p] + SumFunctionOnSet(f, (s \ {p}) \ {x})
  BY <1>8, <1>9
<1> QED BY <1>2, <1>4, <1>7, <1>10, <1>11

\* An element added to the set adds its value.
THEOREM SumAdd ==
  ASSUME NEW f, NEW S, IsFiniteSet(S), NEW e, e \notin S,
         \A x \in S \cup {e} : f[x] \in Int
  PROVE  SumFunctionOnSet(f, S \cup {e}) = SumFunctionOnSet(f, S) + f[e]
<1>1. IsFiniteSet(S \cup {e}) /\ (S \cup {e}) \ {e} = S
  BY FS_AddElement
<1>2. SumFunctionOnSet(f, S \cup {e}) = f[e] + SumFunctionOnSet(f, (S \cup {e}) \ {e})
  BY <1>1, SumRemove
<1>3. SumFunctionOnSet(f, S) \in Int /\ f[e] \in Int
  BY SumInt
<1>4. SumFunctionOnSet(f, S \cup {e}) = f[e] + SumFunctionOnSet(f, S)
  BY <1>1, <1>2
<1> QED BY <1>3, <1>4

\* The sum over two sets apart is the sum of the two sums.
THEOREM SumUnion ==
  ASSUME NEW f, NEW S, NEW T, IsFiniteSet(S), IsFiniteSet(T), S \cap T = {},
         \A x \in S \cup T : f[x] \in Int
  PROVE  SumFunctionOnSet(f, S \cup T) = SumFunctionOnSet(f, S) + SumFunctionOnSet(f, T)
<1> DEFINE Bad == {s \in SUBSET T : SumFunctionOnSet(f, S \cup s)
                                      # SumFunctionOnSet(f, S) + SumFunctionOnSet(f, s)}
<1> SUFFICES ASSUME Bad # {} PROVE FALSE
  OBVIOUS
<1>1. PICK s \in Bad : \A t \in SUBSET s : t # s => t \notin Bad
  <2>1. Bad \in SUBSET SUBSET T
    OBVIOUS
  <2> HIDE DEF Bad
  <2> QED BY <2>1, Smallest
<1>2. SumFunctionOnSet(f, S) \in Int
  BY SumInt
<1>3. s # {}
  <2>1. SumFunctionOnSet(f, S \cup {}) = SumFunctionOnSet(f, S) + SumFunctionOnSet(f, {})
    BY <1>2, SumEmpty
  <2> QED BY <2>1
<1> DEFINE x == Pick(s)
           t == s \ {x}
<1>4. x \in s /\ t # s
  BY <1>3, Picked
<1> HIDE DEF x
<1>5. /\ s = t \cup {x} /\ x \notin S \cup t /\ x \in T /\ t \in SUBSET T
      /\ IsFiniteSet(t) /\ IsFiniteSet(S \cup t)
  BY <1>4, FS_Subset, FS_Union
<1>6. SumFunctionOnSet(f, S \cup t) = SumFunctionOnSet(f, S) + SumFunctionOnSet(f, t)
  BY <1>1, <1>4
<1>7. SumFunctionOnSet(f, (S \cup t) \cup {x}) = SumFunctionOnSet(f, S \cup t) + f[x]
  BY <1>5, SumAdd
<1>8. SumFunctionOnSet(f, t \cup {x}) = SumFunctionOnSet(f, t) + f[x]
  BY <1>5, SumAdd
<1>9. SumFunctionOnSet(f, t) \in Int /\ f[x] \in Int
  BY <1>5, SumInt
<1>10. (S \cup t) \cup {x} = S \cup s
  BY <1>5
<1>11. SumFunctionOnSet(f, S \cup s) # SumFunctionOnSet(f, S) + SumFunctionOnSet(f, s)
  BY <1>1
<1>12. SumFunctionOnSet(f, s) = SumFunctionOnSet(f, t) + f[x]
  BY <1>5, <1>8
<1> DEFINE a == SumFunctionOnSet(f, S)
           b == SumFunctionOnSet(f, t)
<1>13. /\ a \in Int /\ b \in Int /\ f[x] \in Int
       /\ SumFunctionOnSet(f, S \cup s) = (a + b) + f[x]
       /\ SumFunctionOnSet(f, s) = b + f[x]
       /\ SumFunctionOnSet(f, S \cup s) # a + SumFunctionOnSet(f, s)
  BY <1>2, <1>6, <1>7, <1>9, <1>10, <1>11, <1>12
<1> HIDE DEF a, b, t, Bad
<1> QED BY <1>13

\* A function changed at one element changes the sum by the difference.
THEOREM SumUpdate ==
  ASSUME NEW f, NEW g, NEW S, IsFiniteSet(S), NEW e \in S,
         \A x \in S : f[x] \in Int, g[e] \in Int,
         \A x \in S \ {e} : g[x] = f[x]
  PROVE  SumFunctionOnSet(g, S) = SumFunctionOnSet(f, S) + (g[e] - f[e])
<1>1. IsFiniteSet(S \ {e})
  BY FS_Subset
<1>2. \A x \in S : g[x] \in Int
  OBVIOUS
<1>3. SumFunctionOnSet(f, S) = f[e] + SumFunctionOnSet(f, S \ {e})
  BY SumRemove
<1>4. SumFunctionOnSet(g, S) = g[e] + SumFunctionOnSet(g, S \ {e})
  BY <1>2, SumRemove
<1>5. SumFunctionOnSet(g, S \ {e}) = SumFunctionOnSet(f, S \ {e})
  BY <1>1, SumSame
<1>6. SumFunctionOnSet(f, S \ {e}) \in Int
  BY <1>1, SumInt
<1> QED BY <1>3, <1>4, <1>5, <1>6

\* Zeros add up to zero.
THEOREM SumZero ==
  ASSUME NEW f, NEW S, IsFiniteSet(S), \A x \in S : f[x] = 0
  PROVE  SumFunctionOnSet(f, S) = 0
<1> DEFINE Bad == {s \in SUBSET S : SumFunctionOnSet(f, s) # 0}
<1> SUFFICES ASSUME Bad # {} PROVE FALSE
  OBVIOUS
<1>1. PICK s \in Bad : \A t \in SUBSET s : t # s => t \notin Bad
  <2>1. Bad \in SUBSET SUBSET S
    OBVIOUS
  <2> HIDE DEF Bad
  <2> QED BY <2>1, Smallest
<1>2. s # {}
  BY <1>1, SumEmpty
<1>3. SumFunctionOnSet(f, s \ {Pick(s)}) = 0
  BY <1>1, <1>2, Picked
<1>4. SumFunctionOnSet(f, s) = f[Pick(s)] + SumFunctionOnSet(f, s \ {Pick(s)})
  BY <1>2, SumPick, FS_Subset
<1>5. f[Pick(s)] = 0
  BY <1>2, Picked
<1> QED BY <1>1, <1>3, <1>4, <1>5
===============================================================================
