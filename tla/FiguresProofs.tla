---------------------------- MODULE FiguresProofs ----------------------------
(***************************************************************************)
(* What holds of the figures that are shown and recorded, for any cards,   *)
(* readings, thresholds, interfaces, rows and amounts: a total stands for  *)
(* every card or for none, the history gets what was measured, a token row *)
(* counts once, and a rate is of what passed between two readings.         *)
(*                                                                         *)
(* A sum over a set is a fold that takes the elements in an order of its   *)
(* own.  What it adds up to is found by the smallest counterexample: a     *)
(* family of subsets of a finite set has a smallest member.                *)
(***************************************************************************)
EXTENDS MCTsdb, FiniteSetTheorems, WellFoundedInduction, TLAPS

-----------------------------------------------------------------------------
(* Sums over finite sets.  A weight is a function.                         *)

LEMMA SmallestSubset ==
    ASSUME NEW S, IsFiniteSet(S), NEW Z, Z \subseteq SUBSET S, Z # {}
    PROVE  \E A \in Z : \A B \in Z : ~(B \subseteq A /\ B # A)
  <1>1. IsWellFoundedOn(StrictSubsetOrdering(S), SUBSET S)
    BY FS_StrictSubsetOrderingWellFounded, FS_FiniteSubsetsOfFinite
  <1>2. PICK A \in Z : \A B \in Z : ~(<<B, A>> \in StrictSubsetOrdering(S))
    BY <1>1, WFMin
  <1> QED
    BY <1>2 DEF StrictSubsetOrdering

Chosen(S) == CHOOSE x \in S : TRUE

LEMMA ChosenIn == ASSUME NEW S, S # {} PROVE Chosen(S) \in S
  BY DEF Chosen

\* f[A] is the sum of the weights of A for every subset A of S.
SumIs(w, S, f) ==
    f = [A \in SUBSET S |-> IF A = {} THEN 0 ELSE w[Chosen(A)] + f[A \ {Chosen(A)}]]

Sums(w, S) == CHOOSE f : SumIs(w, S, f)

SumOver(w, S) == Sums(w, S)[S]

LEMMA SumUnfold ==
    ASSUME NEW w, NEW S, NEW f, SumIs(w, S, f), NEW A, A \subseteq S
    PROVE  f[A] = IF A = {} THEN 0 ELSE w[Chosen(A)] + f[A \ {Chosen(A)}]
  <1> DEFINE g == [B \in SUBSET S |-> IF B = {} THEN 0 ELSE w[Chosen(B)] + f[B \ {Chosen(B)}]]
  <1>1. f = g
    BY DEF SumIs
  <1>2. g[A] = IF A = {} THEN 0 ELSE w[Chosen(A)] + f[A \ {Chosen(A)}]
    OBVIOUS
  <1> QED
    BY <1>1, <1>2

\* Two such functions agree wherever their weights do.
LEMMA SumsAgree ==
    ASSUME NEW w, NEW A, NEW f, SumIs(w, A, f), NEW v, NEW B, NEW g, SumIs(v, B, g),
           NEW S, S \subseteq A, S \subseteq B, IsFiniteSet(S), \A x \in S : w[x] = v[x]
    PROVE  f[S] = g[S]
  <1> DEFINE Bad == {D \in SUBSET S : f[D] # g[D]}
  <1>1. SUFFICES ASSUME Bad # {} PROVE FALSE
    OBVIOUS
  <1>2. PICK D \in Bad : \A U \in Bad : ~(U \subseteq D /\ U # D)
    <2>1. Bad \subseteq SUBSET S
      OBVIOUS
    <2> HIDE DEF Bad
    <2> QED
      BY <1>1, <2>1, SmallestSubset
  <1>3. D \subseteq A /\ D \subseteq B /\ D \subseteq S /\ f[D] # g[D]
    BY <1>2
  <1>4. D # {}
    BY <1>3, SumUnfold
  <1>5. Chosen(D) \in D
    BY <1>4, ChosenIn
  <1> DEFINE U == D \ {Chosen(D)}
  <1>6. U \subseteq D /\ U # D /\ U \subseteq S
    BY <1>3, <1>5
  <1>7. f[U] = g[U]
    BY <1>2, <1>6
  <1>8. f[D] = w[Chosen(D)] + f[U] /\ g[D] = v[Chosen(D)] + g[U]
    BY SMTT(30), <1>3, <1>4, SumUnfold
  <1> QED
    BY <1>3, <1>5, <1>7, <1>8

\* There is such a function for every finite set.
LEMMA SumExists ==
    ASSUME NEW w, NEW S, IsFiniteSet(S)
    PROVE  SumIs(w, S, Sums(w, S))
  <1> DEFINE Bad == {D \in SUBSET S : ~\E f : SumIs(w, D, f)}
  <1>1. Bad = {}
    <2>1. SUFFICES ASSUME Bad # {} PROVE FALSE
      OBVIOUS
    <2>2. PICK D \in Bad : \A U \in Bad : ~(U \subseteq D /\ U # D)
      <3>1. Bad \subseteq SUBSET S
        OBVIOUS
      <3> HIDE DEF Bad
      <3> QED
        BY <2>1, <3>1, SmallestSubset
    <2>3. \A U \in SUBSET D : U # D => SumIs(w, U, Sums(w, U))
      <3>1. SUFFICES ASSUME NEW U \in SUBSET D, U # D PROVE \E f : SumIs(w, U, f)
        BY DEF Sums
      <3> QED
        BY <2>2, <3>1
    <2> DEFINE known == [U \in SUBSET D |-> Sums(w, U)[U]]
               rest == D \ {Chosen(D)}
               whole == IF D = {} THEN 0 ELSE w[Chosen(D)] + known[rest]
               f == [U \in SUBSET D |-> IF U = D THEN whole ELSE known[U]]
               Step(U) == IF U = {} THEN 0 ELSE w[Chosen(U)] + f[U \ {Chosen(U)}]
    <2>4. ASSUME NEW U \in SUBSET D PROVE f[U] = Step(U)
      <3>1. CASE U = {} /\ U = D
        BY <3>1
      <3>2. CASE U = D /\ U # {}
        <4>1. Chosen(D) \in D
          BY <3>2, ChosenIn
        <4>2. rest \in SUBSET D /\ rest # D
          BY <4>1
        <4>3. f[rest] = known[rest]
          BY <4>2
        <4> QED
          BY <3>2, <4>3
      <3>3. CASE U # D /\ U = {}
        <4>1. Sums(w, U)[U] = 0
          BY <2>3, <3>3, SumUnfold
        <4> QED
          BY <3>3, <4>1
      <3>4. CASE U # D /\ U # {}
        <4> DEFINE W == U \ {Chosen(U)}
        <4>1. Chosen(U) \in U
          BY <3>4, ChosenIn
        <4>2. W \in SUBSET D /\ W # D /\ W \subseteq U /\ IsFiniteSet(W)
          <5>1. W \in SUBSET S
            BY <2>2
          <5> QED
            BY <4>1, <5>1, FS_Subset
        <4>3. Sums(w, U)[U] = w[Chosen(U)] + Sums(w, U)[W]
          BY <2>3, <3>4, SumUnfold
        <4>4. Sums(w, U)[W] = Sums(w, W)[W]
          <5>1. SumIs(w, U, Sums(w, U)) /\ SumIs(w, W, Sums(w, W))
            BY <2>3, <3>4, <4>2
          <5> HIDE DEF W
          <5> QED
            BY <4>2, <5>1, SumsAgree
        <4>5. f[W] = Sums(w, W)[W] /\ f[U] = Sums(w, U)[U]
          BY <3>4, <4>2
        <4> QED
          BY <3>4, <4>3, <4>4, <4>5
      <3> QED
        BY <3>1, <3>2, <3>3, <3>4
    <2>5. f = [U \in SUBSET D |-> Step(U)]
      <3> HIDE DEF Step
      <3> QED
        BY <2>4
    <2>6. SumIs(w, D, f)
      BY <2>5 DEF SumIs
    <2> QED
      BY <2>2, <2>6
  <1>2. \E f : SumIs(w, S, f)
    BY <1>1
  <1> QED
    BY <1>2 DEF Sums

\* Any fold with the weights of w is the sum.
LEMMA SumUnique ==
    ASSUME NEW w, NEW S, IsFiniteSet(S), NEW f, SumIs(w, S, f)
    PROVE  f[S] = SumOver(w, S)
  BY SumExists, SumsAgree DEF SumOver

Weights(w, S) == \A x \in S : w[x] \in Nat

LEMMA SumEmpty == ASSUME NEW w PROVE SumOver(w, {}) = 0
  <1>1. SumIs(w, {}, Sums(w, {}))
    BY FS_EmptySet, SumExists
  <1> QED
    BY <1>1, SumUnfold DEF SumOver

LEMMA SumCongruent ==
    ASSUME NEW w, NEW v, NEW S, IsFiniteSet(S), \A x \in S : w[x] = v[x]
    PROVE  SumOver(w, S) = SumOver(v, S)
  BY SumExists, SumsAgree DEF SumOver

LEMMA SumChosen ==
    ASSUME NEW w, NEW S, IsFiniteSet(S), S # {}
    PROVE  SumOver(w, S) = w[Chosen(S)] + SumOver(w, S \ {Chosen(S)})
  <1> DEFINE Q == S \ {Chosen(S)}
  <1>1. Q \subseteq S /\ IsFiniteSet(Q)
    BY FS_Subset
  <1>2. SumIs(w, S, Sums(w, S)) /\ SumIs(w, Q, Sums(w, Q))
    <2> HIDE DEF Q
    <2> QED
      BY <1>1, SumExists
  <1>3. Sums(w, S)[S] = w[Chosen(S)] + Sums(w, S)[Q]
    BY <1>2, SumUnfold
  <1>4. Sums(w, S)[Q] = Sums(w, Q)[Q]
    <2> HIDE DEF Q
    <2> QED
      BY <1>1, <1>2, SumsAgree
  <1> QED
    BY <1>3, <1>4 DEF SumOver

LEMMA SumType ==
    ASSUME NEW w, NEW S, IsFiniteSet(S), Weights(w, S)
    PROVE  SumOver(w, S) \in Nat
  <1> DEFINE Bad == {D \in SUBSET S : SumOver(w, D) \notin Nat}
  <1>1. SUFFICES ASSUME Bad # {} PROVE FALSE
    OBVIOUS
  <1>2. PICK D \in Bad : \A U \in Bad : ~(U \subseteq D /\ U # D)
    <2>1. Bad \subseteq SUBSET S
      OBVIOUS
    <2> HIDE DEF Bad
    <2> QED
      BY <1>1, <2>1, SmallestSubset
  <1>3. D \subseteq S /\ SumOver(w, D) \notin Nat /\ IsFiniteSet(D)
    BY <1>2, FS_Subset
  <1>4. D # {}
    BY <1>3, SumEmpty
  <1>5. Chosen(D) \in D
    BY <1>4, ChosenIn
  <1>6. SumOver(w, D \ {Chosen(D)}) \in Nat
    BY <1>2, <1>3, <1>5
  <1>7. w[Chosen(D)] \in Nat
    BY <1>3, <1>5 DEF Weights
  <1> QED
    BY <1>3, <1>4, <1>6, <1>7, SumChosen

\* The sum does not depend on the order in which the elements are taken.
LEMMA SumRemove ==
    ASSUME NEW w, NEW S, IsFiniteSet(S), Weights(w, S), NEW x \in S
    PROVE  SumOver(w, S) = w[x] + SumOver(w, S \ {x})
  <1> DEFINE Bad == {D \in SUBSET S : \E u \in D : SumOver(w, D) # w[u] + SumOver(w, D \ {u})}
  <1>1. Bad = {}
    <2>1. SUFFICES ASSUME Bad # {} PROVE FALSE
      OBVIOUS
    <2>2. PICK D \in Bad : \A U \in Bad : ~(U \subseteq D /\ U # D)
      <3>1. Bad \subseteq SUBSET S
        OBVIOUS
      <3> HIDE DEF Bad
      <3> QED
        BY <2>1, <3>1, SmallestSubset
    <2>3. PICK u \in D : SumOver(w, D) # w[u] + SumOver(w, D \ {u})
      BY <2>2
    <2>4. D \subseteq S /\ IsFiniteSet(D) /\ D # {}
      BY <2>2, <2>3, FS_Subset
    <2> DEFINE c == Chosen(D)
               U == D \ {c}
               V == D \ {u}
               W == D \ {c, u}
    <2>5. c \in D
      BY <2>4, ChosenIn
    <2>6. SumOver(w, D) = w[c] + SumOver(w, U)
      BY <2>4, SumChosen
    <2>7. c # u
      BY <2>3, <2>6
    <2>8. U \in SUBSET S /\ U \subseteq D /\ U # D /\ u \in U /\ W = U \ {u}
      BY <2>3, <2>4, <2>5, <2>7
    <2>9. V \in SUBSET S /\ V \subseteq D /\ V # D /\ c \in V /\ W = V \ {c}
      BY <2>3, <2>4, <2>5, <2>7
    <2>10. SumOver(w, U) = w[u] + SumOver(w, W)
      BY <2>2, <2>8
    <2>11. SumOver(w, V) = w[c] + SumOver(w, W)
      BY <2>2, <2>9
    <2>12. SumOver(w, W) \in Nat /\ w[c] \in Nat /\ w[u] \in Nat
      <3>1. W \in SUBSET S
        BY <2>8
      <3>2. IsFiniteSet(W) /\ Weights(w, W)
        BY <3>1, FS_Subset DEF Weights
      <3> QED
        BY <2>3, <2>4, <2>5, <3>2, SumType DEF Weights
    <2> QED
      BY <2>3, <2>6, <2>10, <2>11, <2>12
  <1> QED
    BY <1>1

\* The sum over two sets that share nothing.
LEMMA SumUnion ==
    ASSUME NEW w, NEW A, NEW B, IsFiniteSet(A), IsFiniteSet(B), A \cap B = {},
           Weights(w, A), Weights(w, B)
    PROVE  SumOver(w, A \cup B) = SumOver(w, A) + SumOver(w, B)
  <1> DEFINE Bad == {D \in SUBSET B : SumOver(w, A \cup D) # SumOver(w, A) + SumOver(w, D)}
  <1>1. SUFFICES ASSUME Bad # {} PROVE FALSE
    OBVIOUS
  <1>2. PICK D \in Bad : \A U \in Bad : ~(U \subseteq D /\ U # D)
    <2>1. Bad \subseteq SUBSET B
      OBVIOUS
    <2> HIDE DEF Bad
    <2> QED
      BY <1>1, <2>1, SmallestSubset
  <1>3. D \subseteq B /\ IsFiniteSet(D) /\ SumOver(w, A \cup D) # SumOver(w, A) + SumOver(w, D)
    BY <1>2, FS_Subset
  <1>4. SumOver(w, A) \in Nat
    BY SumType
  <1>5. D # {}
    <2>1. D = {} => A \cup D = A
      OBVIOUS
    <2> QED
      BY <1>3, <1>4, <2>1, SumEmpty
  <1>6. PICK x \in D : TRUE
    BY <1>5
  <1> DEFINE U == D \ {x}
  <1>7. U \in SUBSET B /\ U # D /\ U \subseteq D /\ IsFiniteSet(U) /\ w[x] \in Nat
    BY <1>3, <1>6, FS_Subset DEF Weights
  <1>8. SumOver(w, A \cup U) = SumOver(w, A) + SumOver(w, U)
    BY <1>2, <1>7
  <1>9. SumOver(w, D) = w[x] + SumOver(w, U)
    BY <1>3, <1>6, SumRemove DEF Weights
  <1>10. SumOver(w, A \cup D) = w[x] + SumOver(w, A \cup U)
    <2>1. (A \cup D) \ {x} = A \cup U /\ x \in A \cup D
      BY <1>3, <1>6
    <2>2. IsFiniteSet(A \cup D) /\ Weights(w, A \cup D)
      BY <1>3, FS_Union DEF Weights
    <2> QED
      BY <2>1, <2>2, SumRemove
  <1>11. SumOver(w, U) \in Nat
    BY <1>7, SumType DEF Weights
  <1> QED
    BY <1>3, <1>4, <1>7, <1>8, <1>9, <1>10, <1>11

\* The sum of two weights.
LEMMA SumAdd ==
    ASSUME NEW u, NEW v, NEW w, NEW S, IsFiniteSet(S), Weights(v, S), Weights(w, S),
           \A x \in S : u[x] = v[x] + w[x]
    PROVE  SumOver(u, S) = SumOver(v, S) + SumOver(w, S)
  <1> DEFINE Bad == {D \in SUBSET S : SumOver(u, D) # SumOver(v, D) + SumOver(w, D)}
  <1>1. SUFFICES ASSUME Bad # {} PROVE FALSE
    OBVIOUS
  <1>2. PICK D \in Bad : \A U \in Bad : ~(U \subseteq D /\ U # D)
    <2>1. Bad \subseteq SUBSET S
      OBVIOUS
    <2> HIDE DEF Bad
    <2> QED
      BY <1>1, <2>1, SmallestSubset
  <1>3. D \subseteq S /\ IsFiniteSet(D) /\ SumOver(u, D) # SumOver(v, D) + SumOver(w, D)
    BY <1>2, FS_Subset
  <1>4. D # {}
    BY <1>3, SumEmpty
  <1> DEFINE c == Chosen(D)
             U == D \ {c}
  <1>5. c \in D /\ U \in SUBSET S /\ U \subseteq D /\ U # D
    BY <1>3, <1>4, ChosenIn
  <1>6. SumOver(u, U) = SumOver(v, U) + SumOver(w, U)
    BY <1>2, <1>5
  <1>7. SumOver(u, D) = u[c] + SumOver(u, U) /\ SumOver(v, D) = v[c] + SumOver(v, U)
        /\ SumOver(w, D) = w[c] + SumOver(w, U)
    BY <1>3, <1>4, SumChosen
  <1>8. SumOver(v, U) \in Nat /\ SumOver(w, U) \in Nat
    <2>1. IsFiniteSet(U) /\ Weights(v, U) /\ Weights(w, U)
      BY <1>3, <1>5, FS_Subset DEF Weights
    <2> QED
      BY <2>1, SumType
  <1>9. v[c] \in Nat /\ w[c] \in Nat /\ u[c] = v[c] + w[c]
    BY <1>3, <1>5 DEF Weights
  <1> QED
    BY <1>3, <1>6, <1>7, <1>8, <1>9

LEMMA SumZero ==
    ASSUME NEW w, NEW S, IsFiniteSet(S), \A x \in S : w[x] = 0
    PROVE  SumOver(w, S) = 0
  <1>1. Weights(w, S)
    BY DEF Weights
  <1>2. SumOver(w, S) = SumOver(w, S) + SumOver(w, S)
    BY <1>1, SumAdd
  <1>3. SumOver(w, S) \in Nat
    BY <1>1, SumType
  <1>4. \A n \in Nat : n = n + n => n = 0
    OBVIOUS
  <1> QED
    BY <1>2, <1>3, <1>4

LEMMA SumOnes ==
    ASSUME NEW w, NEW S, IsFiniteSet(S), \A x \in S : w[x] = 1
    PROVE  SumOver(w, S) = Cardinality(S)
  <1> DEFINE Bad == {D \in SUBSET S : SumOver(w, D) # Cardinality(D)}
  <1>1. SUFFICES ASSUME Bad # {} PROVE FALSE
    OBVIOUS
  <1>2. PICK D \in Bad : \A U \in Bad : ~(U \subseteq D /\ U # D)
    <2>1. Bad \subseteq SUBSET S
      OBVIOUS
    <2> HIDE DEF Bad
    <2> QED
      BY <1>1, <2>1, SmallestSubset
  <1>3. D \subseteq S /\ IsFiniteSet(D) /\ SumOver(w, D) # Cardinality(D)
    BY <1>2, FS_Subset
  <1>4. D # {}
    BY <1>3, SumEmpty, FS_EmptySet
  <1> DEFINE c == Chosen(D)
             U == D \ {c}
  <1>5. c \in D /\ U \in SUBSET S /\ U \subseteq D /\ U # D
    BY <1>3, <1>4, ChosenIn
  <1>6. SumOver(w, U) = Cardinality(U)
    BY <1>2, <1>5
  <1>7. SumOver(w, D) = 1 + SumOver(w, U)
    BY <1>3, <1>4, <1>5, SumChosen
  <1>8. Cardinality(U) = Cardinality(D) - 1 /\ Cardinality(D) \in Nat
    BY <1>3, <1>5, FS_RemoveElement, FS_CardinalityType
  <1> QED
    BY <1>3, <1>6, <1>7, <1>8

\* One more for every member of a subset.
LEMMA SumRaised ==
    ASSUME NEW v, NEW w, NEW S, IsFiniteSet(S), Weights(w, S), NEW on, on \subseteq S,
           \A x \in S : v[x] = IF x \in on THEN w[x] + 1 ELSE w[x]
    PROVE  SumOver(v, S) = SumOver(w, S) + Cardinality(on)
  <1> DEFINE one == [x \in S |-> IF x \in on THEN 1 ELSE 0]
             off == S \ on
  <1>1. IsFiniteSet(on) /\ IsFiniteSet(off) /\ on \cap off = {} /\ S = on \cup off
    BY FS_Subset
  <1>2. Weights(one, S) /\ Weights(one, on) /\ Weights(one, off)
    BY DEF Weights
  <1>3. SumOver(v, S) = SumOver(w, S) + SumOver(one, S)
    <2>1. \A x \in S : v[x] = w[x] + one[x]
      BY DEF Weights
    <2> HIDE DEF one
    <2> QED
      BY <1>2, <2>1, SumAdd
  <1>4. SumOver(one, on) = Cardinality(on)
    <2>1. \A x \in on : one[x] = 1
      OBVIOUS
    <2> HIDE DEF one
    <2> QED
      BY <1>1, <2>1, SumOnes
  <1>5. SumOver(one, off) = 0
    <2>1. \A x \in off : one[x] = 0
      OBVIOUS
    <2> HIDE DEF one, off
    <2> QED
      BY <1>1, <2>1, SumZero
  <1>6. SumOver(one, S) = SumOver(one, on) + SumOver(one, off)
    <2> HIDE DEF one, off
    <2> QED
      BY <1>1, <1>2, SumUnion
  <1>7. Cardinality(on) \in Nat
    BY <1>1, FS_CardinalityType
  <1> QED
    BY <1>3, <1>4, <1>5, <1>6, <1>7

-----------------------------------------------------------------------------
(* Rates.                                                                  *)

\* The sum of the counters is the sum over the interfaces that are there.
LEMMA CarriedIsASum == R!Carried = SumOver(rx, R!Present)
  BY Zenon DEF R!Carried, R!MapThenSumSet, R!MapThenFoldSet, SumOver, Sums, SumIs, Chosen

Reading == Nat \cup {R!Null}

RateTypes ==
    /\ idle \in Nat /\ busy \in Nat /\ rx \in [Ifaces -> Reading]
    /\ prev \in [idle : Reading, total : Reading, rx : Reading]
    /\ gap \in [time : Int, rx : Nat, idle : Nat, busy : Nat]
    /\ rebooted \in BOOLEAN

\* Until something starts again, the counters are the reading kept and what passed since;
\* after that the interfaces carry no more than that, and the cpu has no bound at all.
GapIsWhatPassed ==
    /\ prev.idle = R!Null <=> prev.total = R!Null
    /\ ~rebooted /\ prev.total # R!Null =>
         idle = prev.idle + gap.idle /\ idle + busy = prev.total + gap.idle + gap.busy
    /\ prev.rx # R!Null => R!Carried <= prev.rx + gap.rx
    /\ ~rebooted /\ prev.rx # R!Null => R!Carried = prev.rx + gap.rx

RateInv == RateTypes /\ GapIsWhatPassed

LEMMA RateFacts == IsFiniteSet(Ifaces) /\ MaxCount \in Nat \ {0} /\ MaxGap \in Nat \ {0}
  <1>1. R!RateAssumption
    BY FiguresAssumption
  <1>2. R!IsFiniteSet(Ifaces) <=> IsFiniteSet(Ifaces)
    BY Zenon DEF IsFiniteSet, R!IsFiniteSet
  <1> QED
    BY <1>1, <1>2 DEF R!RateAssumption

LEMMA PresentFacts ==
    ASSUME RateTypes
    PROVE  IsFiniteSet(R!Present) /\ Weights(rx, R!Present) /\ R!Carried \in Nat
  <1>1. IsFiniteSet(R!Present)
    BY RateFacts, FS_Subset DEF R!Present
  <1>2. Weights(rx, R!Present)
    BY DEF Weights, R!Present, RateTypes, Reading
  <1> QED
    BY <1>1, <1>2, CarriedIsASum, SumType

LEMMA CarriedNext == R!Carried' = SumOver(rx', R!Present')
  BY Zenon DEF R!Carried, R!MapThenSumSet, R!MapThenFoldSet, SumOver, Sums, SumIs, Chosen

LEMMA PresentFactsNext ==
    ASSUME RateTypes'
    PROVE  IsFiniteSet(R!Present') /\ Weights(rx', R!Present') /\ R!Carried' \in Nat
  <1>1. R!Present' \subseteq Ifaces
    BY DEF R!Present
  <1>2. IsFiniteSet(R!Present')
    BY <1>1, RateFacts, FS_Subset
  <1>3. Weights(rx', R!Present')
    BY DEF Weights, R!Present, RateTypes, Reading
  <1> QED
    BY <1>2, <1>3, CarriedNext, SumType

LEMMA RatesStart == ASSUME R!Init PROVE RateInv
  <1>1. prev = [idle |-> -1, total |-> -1, rx |-> -1] /\ gap = [time |-> 0, rx |-> 0, idle |-> 0, busy |-> 0]
    BY DEF R!Init, R!NoReading, R!NoGap, R!Null
  <1>2. prev.idle = -1 /\ prev.total = -1 /\ prev.rx = -1
    BY <1>1
  <1>3. RateTypes
    <2>1. prev \in [idle : Reading, total : Reading, rx : Reading]
      <3>1. -1 \in Reading
        BY DEF Reading, R!Null
      <3> QED
        BY <1>1, <3>1
    <2>2. rx \in [Ifaces -> Reading]
      <3>1. rx = [i \in Ifaces |-> 0] /\ 0 \in Reading
        BY DEF R!Init, Reading
      <3> QED
        BY <3>1
    <2>3. gap \in [time : Int, rx : Nat, idle : Nat, busy : Nat]
      BY <1>1
    <2> QED
      BY <2>1, <2>2, <2>3 DEF R!Init, RateTypes
  <1>4. GapIsWhatPassed
    BY <1>2 DEF GapIsWhatPassed, R!Null
  <1> QED
    BY <1>3, <1>4 DEF RateInv

LEMMA RunsKeepsRates == ASSUME RateInv, R!Runs PROVE RateInv'
  <1>1. PICK b \in 0..1, on \in SUBSET {i \in Ifaces : rx[i] # R!Null} :
          /\ idle' = idle + 1 - b /\ busy' = busy + b
          /\ rx' = [i \in Ifaces |-> IF i \in on THEN rx[i] + 1 ELSE rx[i]]
          /\ gap' = [time |-> gap.time + 1, rx |-> gap.rx + R!Cardinality(on),
                     idle |-> gap.idle + 1 - b, busy |-> gap.busy + b]
          /\ prev' = prev /\ rebooted' = rebooted
    BY DEF R!Runs
  <1>2. R!Cardinality(on) = Cardinality(on)
    BY Zenon DEF Cardinality, R!Cardinality
  <1>3. RateTypes
    BY DEF RateInv
  <1>4. on \subseteq R!Present /\ IsFiniteSet(on) /\ Cardinality(on) \in Nat
    <2>1. on \subseteq R!Present
      BY DEF R!Present
    <2> QED
      BY <1>3, <2>1, PresentFacts, FS_Subset, FS_CardinalityType
  <1>5. R!Present' = R!Present
    BY <1>1, <1>3 DEF R!Present, RateTypes, Reading, R!Null
  <1>6. R!Carried' = R!Carried + Cardinality(on)
    <2>1. \A i \in R!Present : rx'[i] = IF i \in on THEN rx[i] + 1 ELSE rx[i]
      BY <1>1 DEF R!Present
    <2>2. SumOver(rx', R!Present) = SumOver(rx, R!Present) + Cardinality(on)
      BY <1>3, <1>4, <2>1, PresentFacts, SumRaised
    <2> QED
      BY <1>5, <2>2, CarriedNext, CarriedIsASum
  <1>7. RateTypes'
    BY <1>1, <1>2, <1>3, <1>4 DEF RateTypes, Reading, R!Null
  <1>8. GapIsWhatPassed'
    <2>1. R!Carried \in Nat
      BY <1>3, PresentFacts
    <2>2. gap'.rx = gap.rx + Cardinality(on) /\ gap'.idle = gap.idle + 1 - b /\ gap'.busy = gap.busy + b
      BY <1>1, <1>2
    <2>3. GapIsWhatPassed
      BY DEF RateInv
    <2> HIDE DEF RateInv
    <2> QED
      BY <1>1, <1>3, <1>4, <1>6, <2>1, <2>2, <2>3 DEF GapIsWhatPassed, RateTypes, Reading, R!Null
  <1> QED
    BY <1>7, <1>8 DEF RateInv

LEMMA RebootKeepsRates == ASSUME RateInv, R!Reboot PROVE RateInv'
  <1>1. /\ idle' = 0 /\ busy' = 0 /\ rx' = [i \in Ifaces |-> 0]
        /\ rebooted' = TRUE /\ prev' = prev /\ gap' = gap
    BY DEF R!Reboot
  <1>2. R!Carried' = 0
    <2>1. R!Present' \subseteq Ifaces
      BY DEF R!Present
    <2>2. IsFiniteSet(R!Present')
      BY <2>1, RateFacts, FS_Subset
    <2>3. \A i \in R!Present' : rx'[i] = 0
      BY <1>1, <2>1
    <2> QED
      BY <2>2, <2>3, SumZero, CarriedNext
  <1> QED
    BY <1>1, <1>2 DEF RateInv, RateTypes, GapIsWhatPassed, Reading, R!Null

LEMMA IfaceChangesKeepsRates == ASSUME RateInv, R!IfaceChanges PROVE RateInv'
  <1>1. PICK i \in Ifaces : /\ rx' = [rx EXCEPT ![i] = IF @ = R!Null THEN 0 ELSE R!Null]
                            /\ rebooted' = TRUE /\ rebooted = FALSE
                            /\ idle' = idle /\ busy' = busy /\ prev' = prev /\ gap' = gap
    BY DEF R!IfaceChanges, RateInv, RateTypes
  <1>2. RateTypes /\ RateTypes'
    BY <1>1 DEF RateInv, RateTypes, Reading
  <1>3. R!Carried' <= R!Carried
    <2>1. /\ IsFiniteSet(R!Present) /\ Weights(rx, R!Present)
          /\ IsFiniteSet(R!Present') /\ Weights(rx', R!Present')
          /\ R!Carried \in Nat /\ R!Carried' \in Nat
      BY <1>2, PresentFacts, PresentFactsNext
    <2>2. CASE rx[i] = R!Null
      <3>1. i \in R!Present' /\ R!Present' \ {i} = R!Present /\ rx'[i] = 0
        BY <1>1, <1>2, <2>2 DEF R!Present, R!Null, RateTypes
      <3>2. SumOver(rx', R!Present') = rx'[i] + SumOver(rx', R!Present)
        BY <2>1, <3>1, SumRemove
      <3>3. SumOver(rx', R!Present) = SumOver(rx, R!Present)
        <4>1. \A k \in R!Present : rx'[k] = rx[k]
          BY <1>1, <1>2, <2>2 DEF R!Present, RateTypes
        <4> QED
          BY <2>1, <4>1, SumCongruent
      <3> QED
        BY <2>1, <3>1, <3>2, <3>3, CarriedIsASum, CarriedNext
    <2>3. CASE rx[i] # R!Null
      <3>1. i \in R!Present /\ R!Present' = R!Present \ {i} /\ rx[i] \in Nat
        BY <1>1, <1>2, <2>3 DEF R!Present, RateTypes, Reading
      <3>2. SumOver(rx, R!Present) = rx[i] + SumOver(rx, R!Present')
        BY <2>1, <3>1, SumRemove
      <3>3. SumOver(rx', R!Present') = SumOver(rx, R!Present')
        <4>1. \A k \in R!Present' : rx'[k] = rx[k]
          BY <1>1, <1>2, <3>1 DEF R!Present, RateTypes
        <4> QED
          BY <2>1, <4>1, SumCongruent
      <3> QED
        BY <2>1, <3>1, <3>2, <3>3, CarriedIsASum, CarriedNext
    <2> QED
      BY <2>2, <2>3
  <1>4. R!Carried \in Nat /\ R!Carried' \in Nat
    BY <1>2, PresentFacts, PresentFactsNext
  <1> QED
    BY <1>1, <1>2, <1>3, <1>4 DEF RateInv, RateTypes, GapIsWhatPassed, Reading, R!Null

LEMMA ClockKeepsRates == ASSUME RateInv, R!ClockStepsBack PROVE RateInv'
  <1>1. /\ gap' = [gap EXCEPT !.time = -1]
        /\ idle' = idle /\ busy' = busy /\ rx' = rx /\ prev' = prev /\ rebooted' = rebooted
    BY DEF R!ClockStepsBack, R!host
  <1>2. RateTypes'
    BY <1>1 DEF RateInv, RateTypes
  <1>3. R!Carried' = R!Carried
    BY <1>1, CarriedIsASum, CarriedNext DEF R!Present
  <1>4. gap'.rx = gap.rx /\ gap'.idle = gap.idle /\ gap'.busy = gap.busy
    BY <1>1 DEF RateInv, RateTypes
  <1> QED
    BY <1>1, <1>2, <1>3, <1>4 DEF RateInv, GapIsWhatPassed

\* What a reading may be: of the counters as they are, or without a family.
ReadingOfNow(r) ==
    /\ r \in [idle : Reading, total : Reading, rx : Reading]
    /\ \/ r.idle = idle /\ r.total = idle + busy
       \/ r.idle = R!Null /\ r.total = R!Null
    /\ r.rx \in {R!Carried, R!Null}

WhatIsRead(cpu, net) == [idle |-> IF cpu THEN idle ELSE R!Null,
                         total |-> IF cpu THEN idle + busy ELSE R!Null,
                         rx |-> IF net THEN R!Carried ELSE R!Null]

LEMMA ReadsNow ==
    ASSUME RateInv, R!Scrape \/ R!Report
    PROVE  \E r : ReadingOfNow(r) /\ R!Read(r, R!Share(r), R!Rate(r))
  <1>1. idle \in Nat /\ busy \in Nat /\ R!Carried \in Nat
    BY PresentFacts DEF RateInv, RateTypes
  <1>2. ASSUME NEW cpu \in BOOLEAN, NEW net \in BOOLEAN PROVE ReadingOfNow(WhatIsRead(cpu, net))
    <2>1. idle + busy \in Nat
      BY <1>1
    <2>2. WhatIsRead(cpu, net) \in [idle : Reading, total : Reading, rx : Reading]
      BY <1>1, <2>1 DEF Reading, WhatIsRead
    <2>3. \/ WhatIsRead(cpu, net).idle = idle /\ WhatIsRead(cpu, net).total = idle + busy
          \/ WhatIsRead(cpu, net).idle = R!Null /\ WhatIsRead(cpu, net).total = R!Null
      BY DEF WhatIsRead
    <2>4. WhatIsRead(cpu, net).rx \in {R!Carried, R!Null}
      BY DEF WhatIsRead
    <2> QED
      BY <2>2, <2>3, <2>4 DEF ReadingOfNow
  <1>3. CASE R!Scrape
    <2>1. PICK families \in SUBSET {"cpu", "network"} :
            LET r == WhatIsRead("cpu" \in families, "network" \in families)
            IN  R!Read(r, R!Share(r), R!Rate(r))
      BY <1>3, Zenon DEF R!Scrape, WhatIsRead
    <2>2. ReadingOfNow(WhatIsRead("cpu" \in families, "network" \in families))
      <3>1. ("cpu" \in families) \in BOOLEAN /\ ("network" \in families) \in BOOLEAN
        OBVIOUS
      <3> QED
        BY <1>2, <3>1, Zenon
    <2> QED
      BY <2>1, <2>2, Zenon
  <1>4. CASE R!Report
    <2>1. PICK files \in SUBSET {"stat", "dev"} :
            LET r == WhatIsRead("stat" \in files, "dev" \in files /\ R!Present # {})
            IN  R!Read(r, R!Share(r), R!Rate(r))
      BY <1>4, Zenon DEF R!Report, WhatIsRead
    <2>2. ReadingOfNow(WhatIsRead("stat" \in files, "dev" \in files /\ R!Present # {}))
      <3>1. ("stat" \in files) \in BOOLEAN /\ ("dev" \in files /\ R!Present # {}) \in BOOLEAN
        OBVIOUS
      <3> QED
        BY <1>2, <3>1, Zenon
    <2> QED
      BY <2>1, <2>2, Zenon
  <1> QED
    BY <1>3, <1>4

LEMMA ReadingKeepsRates == ASSUME RateInv, R!Scrape \/ R!Report PROVE RateInv'
  <1>1. PICK r : ReadingOfNow(r) /\ R!Read(r, R!Share(r), R!Rate(r))
    BY ReadsNow
  <1>2. /\ prev' = r /\ gap' = [time |-> 0, rx |-> 0, idle |-> 0, busy |-> 0] /\ rebooted' = FALSE
        /\ idle' = idle /\ busy' = busy /\ rx' = rx
    BY <1>1 DEF R!Read, R!NoGap, R!host
  <1>3. R!Carried' = R!Carried /\ R!Carried \in Nat
    BY <1>2, CarriedIsASum, CarriedNext, PresentFacts DEF R!Present, RateInv
  <1>4. RateTypes'
    <2>1. gap' \in [time : Int, rx : Nat, idle : Nat, busy : Nat]
      BY <1>2
    <2>2. prev' \in [idle : Reading, total : Reading, rx : Reading]
      BY <1>1, <1>2 DEF ReadingOfNow
    <2> QED
      BY <1>2, <2>1, <2>2 DEF RateInv, RateTypes
  <1>5. gap'.rx = 0 /\ gap'.idle = 0 /\ gap'.busy = 0
    BY <1>2
  <1>6. idle \in Nat /\ busy \in Nat
    BY DEF RateInv, RateTypes
  <1>7. GapIsWhatPassed'
    BY <1>1, <1>2, <1>3, <1>5, <1>6 DEF GapIsWhatPassed, ReadingOfNow, R!Null
  <1> QED
    BY <1>4, <1>7 DEF RateInv

LEMMA ForgetKeepsRates == ASSUME RateInv, R!Forget PROVE RateInv'
  <1>1. /\ prev' = [idle |-> -1, total |-> -1, rx |-> -1]
        /\ gap' = [time |-> 0, rx |-> 0, idle |-> 0, busy |-> 0] /\ rebooted' = FALSE
        /\ idle' = idle /\ busy' = busy /\ rx' = rx
    BY DEF R!Forget, R!NoReading, R!NoGap, R!host, R!Null
  <1>2. prev' \in [idle : Reading, total : Reading, rx : Reading]
    <2>1. -1 \in Reading
      BY DEF Reading, R!Null
    <2> QED
      BY <1>1, <2>1
  <1>3. RateTypes'
    <2>1. gap' \in [time : Int, rx : Nat, idle : Nat, busy : Nat]
      BY <1>1
    <2> QED
      BY <1>1, <1>2, <2>1 DEF RateInv, RateTypes
  <1>4. prev'.idle = -1 /\ prev'.total = -1 /\ prev'.rx = -1
    BY <1>1
  <1>5. GapIsWhatPassed'
    BY <1>4 DEF GapIsWhatPassed, R!Null
  <1> QED
    BY <1>3, <1>5 DEF RateInv

LEMMA RatesKeep ==
    ASSUME RateInv, R!Next \/ UNCHANGED <<idle, busy, rx, prev, gap, rebooted>>
    PROVE  RateInv'
  <1>1. CASE UNCHANGED <<idle, busy, rx, prev, gap, rebooted>>
    <2>1. R!Carried' = R!Carried
      BY <1>1, CarriedIsASum, CarriedNext DEF R!Present
    <2> QED
      BY <1>1, <2>1 DEF RateInv, RateTypes, GapIsWhatPassed
  <1>2. CASE R!ReadFails
    <2>1. UNCHANGED <<idle, busy, rx, prev, gap, rebooted>>
      BY <1>2 DEF R!ReadFails, R!host
    <2> QED
      BY <1>1, <2>1
  <1> QED
    BY <1>1, <1>2, RunsKeepsRates, RebootKeepsRates, IfaceChangesKeepsRates, ClockKeepsRates,
       ReadingKeepsRates, ForgetKeepsRates DEF R!Next

LEMMA LeastOfTwo ==
    ASSUME NEW a \in Int, NEW b \in Int
    PROVE  R!Min({a, b}) = IF a <= b THEN a ELSE b
  <1> DEFINE m == IF a <= b THEN a ELSE b
  <1>1. m \in {a, b} /\ \A y \in {a, b} : m <= y
    OBVIOUS
  <1>2. R!Min({a, b}) \in {a, b} /\ \A y \in {a, b} : R!Min({a, b}) <= y
    BY <1>1 DEF R!Min
  <1> QED
    BY <1>2

\* What an answer is, whatever it was read with.
LEMMA AnswersAreMeasured == ASSUME RateInv PROVE R!MeasuredStep
  <1>1. SUFFICES ASSUME R!Scrape \/ R!Report
                 PROVE  /\ share' # R!NoRate => 0 <= share'.amount /\ share'.amount <= share'.over
                        /\ rate' # R!NoRate => rate'.amount <= gap.rx /\ rate'.over > 0
                        /\ ~rebooted /\ share' # R!NoRate =>
                             share'.amount = gap.idle /\ share'.over = gap.idle + gap.busy
                        /\ ~rebooted /\ rate' # R!NoRate => rate'.amount = gap.rx
    BY DEF R!MeasuredStep
  <1>2. PICK r : ReadingOfNow(r) /\ R!Read(r, R!Share(r), R!Rate(r))
    BY <1>1, ReadsNow
  <1>3. share' = R!Share(r) /\ rate' = R!Rate(r)
    BY <1>2 DEF R!Read
  <1>4. RateTypes /\ GapIsWhatPassed /\ R!Carried \in Nat
    BY PresentFacts DEF RateInv
  <1> DEFINE a == r.idle - prev.idle
             b == r.total - prev.total
  <1>5. ASSUME share' # R!NoRate
        PROVE  /\ 0 <= share'.amount /\ share'.amount <= share'.over
               /\ ~rebooted => share'.amount = gap.idle /\ share'.over = gap.idle + gap.busy
    <2>1. r.idle # R!Null /\ prev.total # R!Null /\ r.total > prev.total /\ r.idle >= prev.idle
          /\ r.idle = idle /\ r.total = idle + busy
      BY <1>2, <1>3, <1>4, <1>5 DEF R!Share, RateTypes, Reading, ReadingOfNow, R!Null
    <2>2. a \in Nat /\ b \in Nat /\ prev.idle \in Nat /\ prev.total \in Nat
      BY <1>4, <2>1 DEF RateTypes, Reading, GapIsWhatPassed, R!Null
    <2>3. R!Share(r) = [amount |-> R!Min({a, b}), over |-> b]
      BY <1>3, <1>5, Zenon DEF R!Share
    <2>4. share'.amount = (IF a <= b THEN a ELSE b) /\ share'.over = b
      BY <1>3, <2>2, <2>3, LeastOfTwo
    <2>5. ~rebooted => a = gap.idle /\ b = gap.idle + gap.busy
      BY <1>4, <2>1, <2>2 DEF GapIsWhatPassed, RateTypes
    <2>6. gap.idle \in Nat /\ gap.busy \in Nat
      BY <1>4 DEF RateTypes
    <2> HIDE DEF a, b
    <2>7. 0 <= share'.amount /\ share'.amount <= share'.over
      BY <2>2, <2>4
    <2>8. ~rebooted => share'.amount = gap.idle /\ share'.over = gap.idle + gap.busy
      BY <2>4, <2>5, <2>6
    <2> QED
      BY <2>7, <2>8
  <1>6. ASSUME rate' # R!NoRate
        PROVE  /\ rate'.amount <= gap.rx /\ rate'.over > 0
               /\ ~rebooted => rate'.amount = gap.rx
    <2>1. r.rx # R!Null /\ prev.rx # R!Null /\ ~(gap.time <= 0) /\ r.rx = R!Carried
          /\ R!Rate(r) = [amount |-> r.rx - prev.rx, over |-> gap.time]
      BY <1>2, <1>3, <1>6 DEF R!Rate, ReadingOfNow
    <2>2. rate'.amount = R!Carried - prev.rx /\ rate'.over = gap.time
      BY <1>3, <2>1
    <2>3. prev.rx \in Nat /\ gap.rx \in Nat /\ gap.time \in Int
      BY <1>4, <2>1 DEF RateTypes, Reading
    <2> QED
      BY <1>4, <2>1, <2>2, <2>3 DEF GapIsWhatPassed
  <1> QED
    BY <1>5, <1>6

RatesPart == part = "rates" => RateInv

LEMMA RatesPartKeeps == ASSUME RatesPart, [PartsNext]_<<part, vars, figures>> PROVE RatesPart'
  <1>1. SUFFICES ASSUME part' = "rates" PROVE RateInv'
    BY DEF RatesPart
  <1>2. part = "rates" /\ (R!Next \/ UNCHANGED rateVars)
    BY <1>1 DEF PartsNext, figures
  <1> QED
    BY <1>2, RatesKeep DEF RatesPart, rateVars

\* MCTsdb's ShownWasMeasured for any counters and interfaces: whatever restarts, goes or
\* comes between two readings, a share lies between none and all and a rate is of no more
\* than passed (prometheus.js:15-19, 162-172; ssh.js:160-167).
THEOREM RatesAreMeasured == PartsSpec => ShownWasMeasured
  <1>1. PartsInit => RatesPart
    BY RatesStart DEF PartsInit, RatesPart
  <1>2. RatesPart /\ [PartsNext]_<<part, vars, figures>> => RatesPart'
    BY RatesPartKeeps
  <1>3. RatesPart => (part = "rates" => R!MeasuredStep)
    BY AnswersAreMeasured DEF RatesPart
  <1> QED
    BY <1>1, <1>2, <1>3, PTL DEF PartsSpec, ShownWasMeasured

-----------------------------------------------------------------------------
(* Cards.                                                                  *)

LEMMA HasGreatest ==
    ASSUME NEW S, IsFiniteSet(S), S # {}, \A x \in S : x \in Int
    PROVE  \E x \in S : \A y \in S : x >= y
  <1> DEFINE Greatest(D) == \E x \in D : \A y \in D : x >= y
             Bad == {D \in SUBSET S : D # {} /\ ~Greatest(D)}
  <1>1. SUFFICES ASSUME Bad # {} PROVE FALSE
    OBVIOUS
  <1>2. PICK D \in Bad : \A U \in Bad : ~(U \subseteq D /\ U # D)
    <2>1. Bad \subseteq SUBSET S
      OBVIOUS
    <2> HIDE DEF Bad
    <2> QED
      BY <1>1, <2>1, SmallestSubset
  <1>3. D \subseteq S /\ D # {} /\ ~Greatest(D)
    BY <1>2
  <1>4. PICK c \in D : TRUE
    BY <1>3
  <1> DEFINE U == D \ {c}
  <1>5. U # {}
    BY <1>3, <1>4
  <1>6. Greatest(U)
    <2>1. U \in SUBSET S /\ U \subseteq D /\ U # D
      BY <1>3, <1>4
    <2> HIDE DEF U, Greatest
    <2> QED
      BY <1>2, <1>5, <2>1
  <1>7. PICK x \in U : \A y \in U : x >= y
    BY <1>6
  <1>8. CASE x >= c
    BY <1>3, <1>7, <1>8
  <1>9. CASE ~(x >= c)
    <2>1. \A y \in D : c >= y
      BY <1>3, <1>4, <1>7, <1>9
    <2> QED
      BY <1>3, <1>4, <2>1
  <1> QED
    BY <1>8, <1>9

LEMMA CardFacts ==
    /\ Levels \subseteq Nat /\ Levels # {} /\ IsFiniteSet(Levels)
    /\ IsFiniteSet(Cards) /\ "all" \notin Cards
    /\ Warn \in Nat /\ Danger \in Nat /\ PowerCap \in Nat /\ MaxAge \in Nat /\ FreshLive \in Nat
  <1>1. C!CardsAssumption
    BY FiguresAssumption
  <1>2. /\ C!IsFiniteSet(Levels) <=> IsFiniteSet(Levels)
        /\ C!IsFiniteSet(Cards) <=> IsFiniteSet(Cards)
    BY Zenon DEF IsFiniteSet, C!IsFiniteSet
  <1> QED
    BY <1>1, <1>2 DEF C!CardsAssumption

LEMMA TopLevel == C!Max(Levels) \in Nat
  <1>1. \E x \in Levels : \A y \in Levels : x >= y
    <2>1. IsFiniteSet(Levels) /\ Levels # {} /\ \A x \in Levels : x \in Int
      BY CardFacts
    <2> QED
      BY <2>1, HasGreatest
  <1>2. C!Max(Levels) \in Levels
    BY <1>1 DEF C!Max
  <1> QED
    BY <1>2, CardFacts

Sensor == Nat \cup {C!Null}

CardTypes ==
    /\ gpus \in [Cards -> [util : Sensor, vram : Sensor, temp : Sensor, power : Sensor,
                           cap : Sensor, clock : {"idle", "busy"}]]
    /\ speed \in [value : Nat, age : Nat]
    /\ live \in {"none", "serving", "quiet"}

\* What Normalize works out.
CardsRead == [c \in Cards |-> C!Sane(gpus[c])]
Spinning == C!Spins(CardsRead, C!Total(CardsRead, "util"))
TotalFigures == {<<"all", f, C!Grey(C!Total(CardsRead, f), Spinning /\ f = "util")>> : f \in C!Fields}
CardFigures ==
    {<<c, f, C!Grey(C!Metric(CardsRead[c][f], C!LevelOf(CardsRead[c][f])), Spinning /\ f = "util")>>
       : c \in Cards, f \in C!Fields}
SpeedFigure == <<"all", "speed", C!Fresh(speed)>>
SpinFigures ==
    IF live = "none" \/ C!Cardinality(Cards) < 2 \/ C!Total(CardsRead, "util").value = C!Null THEN {}
    ELSE {<<"all", "idle_spin", C!Metric(IF Spinning THEN 1 ELSE 0, "none")>>}

CardsInv ==
    /\ CardTypes
    /\ shown = {} \/ shown = TotalFigures \cup {SpeedFigure} \cup CardFigures \cup SpinFigures

LEMMA CardsStart == ASSUME C!Init PROVE CardsInv
  <1>1. C!Null \in Sensor /\ C!Max(Levels) \in Sensor /\ PowerCap \in Sensor /\ Levels \subseteq Sensor
    BY TopLevel, CardFacts DEF Sensor
  <1>2. C!Read \subseteq Sensor /\ {C!Null, C!Max(Levels)} \subseteq Sensor /\ {C!Null, PowerCap} \subseteq Sensor
    BY <1>1 DEF C!Read
  <1>3. gpus \in [Cards -> [util : Sensor, vram : Sensor, temp : Sensor, power : Sensor,
                           cap : Sensor, clock : {"idle", "busy"}]]
    <2> DEFINE G == [util : {C!Null, C!Max(Levels)}, vram : C!Read, temp : {C!Null, C!Max(Levels)},
                     power : C!Read, cap : {C!Null, PowerCap}, clock : {"idle", "busy"}]
               H == [util : Sensor, vram : Sensor, temp : Sensor, power : Sensor,
                     cap : Sensor, clock : {"idle", "busy"}]
    <2>1. gpus \in [Cards -> G]
      BY DEF C!Init
    <2>2. \A g \in G : g \in H
      BY <1>2
    <2> HIDE DEF G, H
    <2>3. gpus \in [Cards -> H]
      BY <2>1, <2>2
    <2> QED
      BY <2>3 DEF H
  <1>4. speed \in [value : Nat, age : Nat]
    <2>1. speed \in [value : {C!Max(Levels)}, age : {0, FreshLive + 1, MaxAge + 1}]
      BY DEF C!Init
    <2>2. {C!Max(Levels)} \subseteq Nat /\ {0, FreshLive + 1, MaxAge + 1} \subseteq Nat
      BY TopLevel, CardFacts
    <2> QED
      BY <2>1, <2>2
  <1> QED
    BY <1>3, <1>4 DEF C!Init, CardsInv, CardTypes

LEMMA CardsKeep ==
    ASSUME CardsInv, C!Normalize \/ UNCHANGED cardVars
    PROVE  CardsInv'
  <1>1. CASE UNCHANGED cardVars
    BY <1>1 DEF CardsInv, CardTypes, cardVars, CardsRead, Spinning, TotalFigures, SpeedFigure,
                CardFigures, SpinFigures, C!Spins, C!Fresh
  <1>2. CASE C!Normalize
    <2>1. shown' = TotalFigures \cup {SpeedFigure} \cup CardFigures \cup SpinFigures
      BY <1>2 DEF C!Normalize, CardsRead, Spinning, TotalFigures, SpeedFigure, CardFigures, SpinFigures
    <2>2. gpus' = gpus /\ speed' = speed /\ live' = live
      BY <1>2 DEF C!Normalize
    <2>3. CardTypes'
      BY <2>2 DEF CardsInv, CardTypes
    <2>4. UNCHANGED <<TotalFigures, SpeedFigure, CardFigures, SpinFigures>>
      BY <2>2 DEF CardsRead, Spinning, TotalFigures, SpeedFigure, CardFigures, SpinFigures, C!Spins, C!Fresh
    <2> QED
      BY <2>1, <2>3, <2>4 DEF CardsInv
  <1> QED
    BY <1>1, <1>2

LEMMA WorstIsWorst ==
    ASSUME NEW levels, levels \subseteq {"cool", "ok", "warn", "danger"}, NEW k \in levels
    PROVE  C!Rank[C!Worst(levels)] >= C!Rank[k]
  <1> DEFINE L == {"cool", "ok", "warn", "danger"}
  <1>1. C!Rank["cool"] = 0 /\ C!Rank["ok"] = 1 /\ C!Rank["warn"] = 2 /\ C!Rank["danger"] = 3
    BY DEF C!Rank
  <1>2. \A l \in L : C!Rank[l] \in 0..3
    BY <1>1
  <1>3. \E l \in levels : \A m \in levels : C!Rank[m] <= C!Rank[l]
    <2>1. CASE "danger" \in levels
      BY <1>1, <1>2, <2>1
    <2>2. CASE "danger" \notin levels /\ "warn" \in levels
      BY <1>1, <2>2
    <2>3. CASE "danger" \notin levels /\ "warn" \notin levels /\ "ok" \in levels
      BY <1>1, <2>3
    <2>4. CASE levels \subseteq {"cool"}
      BY <1>1, <2>4
    <2> QED
      BY <2>1, <2>2, <2>3, <2>4
  <1>4. \A m \in levels : C!Rank[m] <= C!Rank[C!Worst(levels)]
    BY <1>3 DEF C!Worst
  <1> QED
    BY <1>4

LEMMA LevelIn == ASSUME NEW v PROVE C!LevelOf(v) \in {"cool", "ok", "warn", "danger"}
  BY DEF C!LevelOf

\* What sanitizeGpuPower leaves alone, and what it takes away.
LEMMA SaneIs ==
    ASSUME CardTypes, NEW c \in Cards, NEW f \in C!Fields
    PROVE  /\ CardsRead[c][f] = IF C!Measured(c, f) THEN gpus[c][f] ELSE C!Null
           /\ gpus[c][f] \in Sensor
  <1>1. gpus[c] \in [util : Sensor, vram : Sensor, temp : Sensor, power : Sensor,
                     cap : Sensor, clock : {"idle", "busy"}]
    BY DEF CardTypes
  <1>2. CardsRead[c] = C!Sane(gpus[c])
    BY DEF CardsRead
  <1>3. CASE C!Glitch(c)
    <2>1. CardsRead[c] = [gpus[c] EXCEPT !.power = C!Null]
      BY <1>2, <1>3 DEF C!Sane, C!Glitch
    <2> QED
      BY <1>1, <1>3, <2>1 DEF C!Fields, C!Measured
  <1>4. CASE ~C!Glitch(c)
    <2>1. CardsRead[c] = gpus[c]
      BY <1>2, <1>4 DEF C!Sane, C!Glitch
    <2> QED
      BY <1>1, <1>4, <2>1 DEF C!Fields, C!Measured
  <1> QED
    BY <1>3, <1>4

\* Every card was read after the glitches were taken out exactly if every card was measured.
LEMMA EveryIsAll ==
    ASSUME CardTypes, NEW f \in C!Fields
    PROVE  C!Every(CardsRead, f) <=> C!OfAll(f)
  <1>1. \A c \in Cards : CardsRead[c][f] # C!Null <=> C!Measured(c, f)
    BY SaneIs DEF C!Measured
  <1> QED
    BY <1>1 DEF C!Every, C!OfAll

\* What the cards add up to.
Readings(f) == [c \in Cards |-> CardsRead[c][f]]

LEMMA CardsAreASum ==
    ASSUME NEW f0, NEW S, IsFiniteSet(S), S \subseteq Cards, S = C!Seen(CardsRead, f0)
    PROVE  C!SumOf(CardsRead, f0) = SumOver(Readings(f0), S)
  <1> DEFINE Is(f) == f = [A \in SUBSET S |-> IF A = {} THEN 0 ELSE CardsRead[Chosen(A)][f0] + f[A \ {Chosen(A)}]]
  <1>1. C!SumOf(CardsRead, f0) = (CHOOSE f : Is(f))[S]
    BY Zenon DEF C!SumOf, C!MapThenSumSet, C!MapThenFoldSet, Chosen
  <1>2. \A f : Is(f) <=> SumIs(Readings(f0), S, f)
    <2>1. TAKE f
    <2>2. [A \in SUBSET S |-> IF A = {} THEN 0 ELSE CardsRead[Chosen(A)][f0] + f[A \ {Chosen(A)}]]
          = [A \in SUBSET S |-> IF A = {} THEN 0 ELSE Readings(f0)[Chosen(A)] + f[A \ {Chosen(A)}]]
      <3>1. \A A \in SUBSET S : A # {} => Readings(f0)[Chosen(A)] = CardsRead[Chosen(A)][f0]
        BY ChosenIn DEF Readings
      <3> QED
        BY <3>1
    <2> QED
      BY <2>2 DEF SumIs
  <1>3. \E f : Is(f)
    <2> HIDE DEF Is
    <2> QED
      BY <1>2, SumExists
  <1> DEFINE f == CHOOSE f : Is(f)
  <1>4. SumIs(Readings(f0), S, f)
    <2> HIDE DEF Is
    <2> QED
      BY <1>2, <1>3
  <1> HIDE DEF Is
  <1> QED
    BY <1>1, <1>4, SumUnique

LEMMA Quotient == ASSUME NEW a \in Nat, NEW b \in Nat, b > 0 PROVE a \div b \in Nat
  OBVIOUS

\* The total of what every card has is a number.
LEMMA TotalIsANumber ==
    ASSUME CardTypes, NEW f \in C!Fields, C!Every(CardsRead, f)
    PROVE  C!TotalOf(CardsRead, f) \in Nat
  <1>1. Cards # {} /\ C!Seen(CardsRead, f) = Cards
    BY DEF C!Every, C!Seen
  <1>2. \A c \in Cards : CardsRead[c][f] \in Nat
    BY SaneIs DEF C!Every, Sensor
  <1>3. Weights(Readings(f), Cards) /\ IsFiniteSet(Cards)
    BY <1>2, CardFacts DEF Weights, Readings
  <1>4. C!SumOf(CardsRead, f) \in Nat
    BY <1>1, <1>3, CardsAreASum, SumType
  <1>5. C!Cardinality(Cards) \in Nat /\ C!Cardinality(Cards) > 0
    <2>1. C!Cardinality(Cards) = Cardinality(Cards)
      BY Zenon DEF C!Cardinality, Cardinality
    <2>2. Cardinality(Cards) \in Nat /\ Cardinality(Cards) # 0
      BY <1>1, <1>3, FS_EmptySet, FS_CardinalityType
    <2> QED
      BY <2>1, <2>2
  <1>6. C!Max({CardsRead[c][f] : c \in C!Seen(CardsRead, f)}) \in Nat
    <2> DEFINE S == {CardsRead[c][f] : c \in Cards}
    <2>1. S # {} /\ \A x \in S : x \in Nat
      BY <1>1, <1>2
    <2>2. IsFiniteSet(S)
      <3>1. Readings(f) \in Surjection(Cards, S)
        BY DEF Readings, Surjection
      <3> HIDE DEF S
      <3> QED
        BY <1>3, <3>1, FS_Surjection
    <2> HIDE DEF S
    <2>3. \E x \in S : \A y \in S : x >= y
      BY <2>1, <2>2, HasGreatest
    <2>4. C!Max(S) \in S
      BY <2>3 DEF C!Max
    <2>5. {CardsRead[c][f] : c \in C!Seen(CardsRead, f)} = S
      BY <1>1 DEF S
    <2> QED
      BY <2>1, <2>4, <2>5
  <1>7. CASE f \in {"util", "vram"}
    <2> DEFINE a == C!SumOf(CardsRead, f)
               b == C!Cardinality(Cards)
    <2>1. a \in Nat /\ b \in Nat /\ b > 0
      BY <1>4, <1>5
    <2>2. C!TotalOf(CardsRead, f) = a \div b
      BY <1>1, <1>7 DEF C!TotalOf
    <2> HIDE DEF a, b
    <2> QED
      BY <2>1, <2>2, Quotient
  <1>8. CASE f = "temp"
    BY <1>6, <1>8 DEF C!TotalOf
  <1>9. CASE f = "power"
    BY <1>4, <1>9 DEF C!TotalOf
  <1> QED
    BY <1>7, <1>8, <1>9 DEF C!Fields

\* A total has a value exactly if every card was measured.
LEMMA TotalHasValue ==
    ASSUME CardTypes, NEW f \in C!Fields
    PROVE  C!Total(CardsRead, f).value # C!Null <=> C!OfAll(f)
  <1>1. CASE C!Every(CardsRead, f)
    <2> DEFINE v == C!TotalOf(CardsRead, f)
    <2>1. v \in Nat
      BY <1>1, TotalIsANumber
    <2>2. C!Total(CardsRead, f).value = v
      BY <1>1 DEF C!Total, C!Metric
    <2> HIDE DEF v
    <2>3. v # C!Null
      BY <2>1 DEF C!Null
    <2> QED
      BY <1>1, <2>2, <2>3, EveryIsAll
  <1>2. CASE ~C!Every(CardsRead, f)
    <2>1. C!Total(CardsRead, f).value = C!Null
      BY <1>2 DEF C!Total, C!Metric
    <2> QED
      BY <1>2, <2>1, EveryIsAll
  <1> QED
    BY <1>1, <1>2

\* A total with a number needs every card, and takes the colour of the worst.
LEMMA TotalNeedsAll ==
    ASSUME NEW f, f # "util", C!Total(CardsRead, f).value # C!Null, NEW c \in Cards
    PROVE  /\ CardsRead[c][f] # C!Null
           /\ C!Rank[C!Total(CardsRead, f).level] >= C!Rank[C!LevelOf(CardsRead[c][f])]
  <1> DEFINE levels == {C!LevelOf(CardsRead[k][f]) : k \in C!Seen(CardsRead, f)}
  <1>1. C!Every(CardsRead, f)
    BY DEF C!Total, C!Metric
  <1>2. C!Total(CardsRead, f).level = C!Worst(levels)
    BY <1>1 DEF C!Total, C!Metric
  <1>3. CardsRead[c][f] # C!Null /\ c \in C!Seen(CardsRead, f)
    BY <1>1 DEF C!Every, C!Seen
  <1>4. C!LevelOf(CardsRead[c][f]) \in levels
    BY <1>3
  <1>5. levels \subseteq {"cool", "ok", "warn", "danger"}
    BY LevelIn
  <1> HIDE DEF levels
  <1> QED
    BY <1>2, <1>3, <1>4, <1>5, WorstIsWorst

\* The kinds of figures.
LEMMA FigureKinds ==
    ASSUME CardsInv, NEW m \in shown
    PROVE  \/ \E f \in C!Fields : m = <<"all", f, C!Grey(C!Total(CardsRead, f), Spinning /\ f = "util")>>
           \/ m = SpeedFigure
           \/ \E c \in Cards, f \in C!Fields :
                m = <<c, f, C!Grey(C!Metric(CardsRead[c][f], C!LevelOf(CardsRead[c][f])), Spinning /\ f = "util")>>
           \/ m[1] = "all" /\ m[2] = "idle_spin"
  <1>1. m \in TotalFigures \/ m = SpeedFigure \/ m \in CardFigures \/ m \in SpinFigures
    BY DEF CardsInv
  <1>2. CASE m \in TotalFigures
    BY <1>2 DEF TotalFigures
  <1>3. CASE m \in CardFigures
    BY <1>3 DEF CardFigures
  <1>4. CASE m \in SpinFigures
    BY <1>4 DEF SpinFigures
  <1> QED
    BY <1>1, <1>2, <1>3, <1>4

LEMMA GreyValue ==
    ASSUME NEW m, NEW spinning \in BOOLEAN, \E v, l : m = C!Metric(v, l)
    PROVE  /\ C!Grey(m, spinning).value = m.value
           /\ C!Grey(m, spinning).held = FALSE
  BY DEF C!Grey, C!Metric

LEMMA SpinningIs == Spinning \in BOOLEAN
  BY Zenon DEF Spinning, C!Spins

LEMMA TotalIsAMetric ==
    ASSUME NEW f
    PROVE  \E v, l : C!Total(CardsRead, f) = C!Metric(v, l)
  BY Zenon DEF C!Total

\* The figure of all the cards is the total, but for its colour.
LEMMA TotalFigure ==
    ASSUME CardTypes, CardsInv, NEW m \in shown, m[1] = "all", m[2] \in C!Fields
    PROVE  /\ m[3] = C!Grey(C!Total(CardsRead, m[2]), Spinning /\ m[2] = "util")
           /\ m[3].value = C!Total(CardsRead, m[2]).value
           /\ m[3].held = FALSE
  <1>1. "speed" \notin C!Fields /\ "idle_spin" \notin C!Fields
    BY DEF C!Fields
  <1>2. m # SpeedFigure /\ m[2] # "idle_spin"
    BY <1>1 DEF SpeedFigure
  <1>3. ~\E k \in Cards, f \in C!Fields :
          m = <<k, f, C!Grey(C!Metric(CardsRead[k][f], C!LevelOf(CardsRead[k][f])), Spinning /\ f = "util")>>
    <2>1. SUFFICES ASSUME NEW k \in Cards, NEW f \in C!Fields, NEW x, m = <<k, f, x>> PROVE FALSE
      OBVIOUS
    <2>2. m[1] = k
      BY <2>1
    <2> QED
      BY <2>2, CardFacts
  <1>4. PICK f \in C!Fields : m = <<"all", f, C!Grey(C!Total(CardsRead, f), Spinning /\ f = "util")>>
    BY <1>2, <1>3, FigureKinds
  <1> DEFINE x == C!Grey(C!Total(CardsRead, f), Spinning /\ f = "util")
  <1>5. m = <<"all", f, x>>
    BY <1>4
  <1>6. x.value = C!Total(CardsRead, f).value /\ x.held = FALSE
    <2>1. (Spinning /\ f = "util") \in BOOLEAN
      OBVIOUS
    <2> QED
      BY <2>1, TotalIsAMetric, GreyValue, Zenon
  <1> HIDE DEF x
  <1>7. m[2] = f /\ m[3] = x
    BY <1>5
  <1> QED
    BY <1>6, <1>7 DEF x

LEMMA TotalsStand == ASSUME CardsInv PROVE C!TotalsStandForEveryCard
  <1>1. SUFFICES ASSUME NEW m \in shown, m[1] = "all", m[2] \in C!Fields
                 PROVE  /\ m[3].value # C!Null <=> C!OfAll(m[2])
                        /\ m[2] # "util" /\ C!OfAll(m[2]) =>
                             \A c \in Cards : C!Rank[m[3].level] >= C!Rank[C!LevelOf(gpus[c][m[2]])]
    BY DEF C!TotalsStandForEveryCard
  <1>2. CardTypes
    BY DEF CardsInv
  <1>3. /\ m[3] = C!Grey(C!Total(CardsRead, m[2]), Spinning /\ m[2] = "util")
        /\ m[3].value = C!Total(CardsRead, m[2]).value
    BY <1>1, <1>2, TotalFigure
  <1>4. m[3].value # C!Null <=> C!OfAll(m[2])
    BY <1>1, <1>2, <1>3, TotalHasValue
  <1>5. ASSUME m[2] # "util", C!OfAll(m[2]), NEW c \in Cards
        PROVE  C!Rank[m[3].level] >= C!Rank[C!LevelOf(gpus[c][m[2]])]
    <2>1. m[3] = C!Total(CardsRead, m[2])
      BY <1>3, <1>5 DEF C!Grey
    <2>2. C!Rank[m[3].level] >= C!Rank[C!LevelOf(CardsRead[c][m[2]])]
      BY <1>4, <1>5, <2>1, TotalNeedsAll
    <2>3. CardsRead[c][m[2]] = gpus[c][m[2]]
      BY <1>1, <1>2, <1>5, SaneIs DEF C!OfAll
    <2> QED
      BY <2>2, <2>3
  <1> QED
    BY <1>4, <1>5

\* The rows of a card for one thing: at most the one that was measured.
LEMMA CardRows ==
    ASSUME CardsInv, shown # {}, NEW c \in Cards, NEW f \in C!Fields
    PROVE  {m[3].value : m \in {r \in C!Rows : r[1] = c /\ r[2] = f}}
             = IF C!Measured(c, f) THEN {gpus[c][f]} ELSE {}
  <1> DEFINE X(k, g) == C!Grey(C!Metric(CardsRead[k][g], C!LevelOf(CardsRead[k][g])), Spinning /\ g = "util")
             mine == <<c, f, X(c, f)>>
             rows0 == {r \in C!Rows : r[1] = c /\ r[2] = f}
  <1>1. CardTypes
    BY DEF CardsInv
  <1>2. X(c, f).value = CardsRead[c][f] /\ X(c, f).held = FALSE
    <2>1. (Spinning /\ f = "util") \in BOOLEAN
      OBVIOUS
    <2>2. C!Metric(CardsRead[c][f], C!LevelOf(CardsRead[c][f])).value = CardsRead[c][f]
      BY DEF C!Metric
    <2> QED
      BY <2>1, <2>2, GreyValue, Zenon
  <1>3. mine \in shown
    <2>1. mine \in CardFigures
      BY DEF CardFigures
    <2> QED
      BY <2>1 DEF CardsInv
  <1>4. \A r \in shown : r[1] = c /\ r[2] = f => r = mine
    <2>1. SUFFICES ASSUME NEW r \in shown, r[1] = c, r[2] = f PROVE r = mine
      OBVIOUS
    <2>2. c # "all"
      BY CardFacts
    <2>3. PICK k \in Cards, g \in C!Fields : r = <<k, g, X(k, g)>>
      <3>1. \A g, x : r # <<"all", g, x>>
        BY <2>1, <2>2
      <3> QED
        BY <2>1, <2>2, <3>1, FigureKinds DEF SpeedFigure
    <2>4. k = c /\ g = f
      <3> HIDE DEF X
      <3> QED
        BY <2>1, <2>3
    <2> QED
      BY <2>3, <2>4
  <1>5. mine[1] = c /\ mine[2] = f /\ mine[3] = X(c, f)
    <2> HIDE DEF X
    <2> QED
      OBVIOUS
  <1> DEFINE v == CardsRead[c][f]
  <1>6. mine[3].value = v /\ ~mine[3].held
    BY <1>2, <1>5
  <1> HIDE DEF mine
  <1>7. CASE C!Measured(c, f)
    <2>1. v = gpus[c][f] /\ v # C!Null
      BY <1>1, <1>7, SaneIs DEF C!Measured
    <2>2. rows0 = {mine}
      <3> HIDE DEF v
      <3>1. mine \in C!Rows
        BY <1>3, <1>6, <2>1 DEF C!Rows
      <3>2. C!Rows \subseteq shown
        BY DEF C!Rows
      <3> QED
        BY <1>4, <1>5, <3>1, <3>2
    <2> HIDE DEF rows0, v
    <2>3. {m[3].value : m \in rows0} = {gpus[c][f]}
      BY <1>6, <2>1, <2>2
    <2> QED
      BY <1>7, <2>3 DEF rows0
  <1>8. CASE ~C!Measured(c, f)
    <2>1. v = C!Null
      BY <1>1, <1>8, SaneIs
    <2>2. mine \notin C!Rows
      BY <1>6, <2>1 DEF C!Rows
    <2>3. rows0 = {}
      <3>1. C!Rows \subseteq shown
        BY DEF C!Rows
      <3> QED
        BY <1>4, <2>2, <3>1
    <2> HIDE DEF rows0
    <2> QED
      BY <1>8, <2>3 DEF rows0
  <1> QED
    BY <1>7, <1>8

\* The rows of all the cards: the totals that have a value.
LEMMA TotalRows ==
    ASSUME CardsInv, shown # {}, NEW f \in C!Fields
    PROVE  (\E m \in C!Rows : m[1] = "all" /\ m[2] = f) <=> C!OfAll(f)
  <1>1. CardTypes
    BY DEF CardsInv
  <1>2. ASSUME NEW m \in C!Rows, m[1] = "all", m[2] = f PROVE C!OfAll(f)
    <2>1. m \in shown /\ m[3].value # C!Null
      BY DEF C!Rows
    <2>2. m[3].value = C!Total(CardsRead, f).value
      BY <1>1, <1>2, <2>1, TotalFigure
    <2> QED
      BY <1>1, <2>1, <2>2, TotalHasValue
  <1>3. ASSUME C!OfAll(f) PROVE \E m \in C!Rows : m[1] = "all" /\ m[2] = f
    <2> DEFINE x == C!Grey(C!Total(CardsRead, f), Spinning /\ f = "util")
               m == <<"all", f, x>>
    <2>1. m \in shown
      <3>1. m \in TotalFigures
        BY DEF TotalFigures
      <3> QED
        BY <3>1 DEF CardsInv
    <2> HIDE DEF x
    <2>2. m[1] = "all" /\ m[2] = f
      OBVIOUS
    <2> HIDE DEF m
    <2>3. m[3].value = C!Total(CardsRead, f).value /\ m[3].held = FALSE
      BY <1>1, <2>1, <2>2, TotalFigure
    <2>4. m[3].value # C!Null
      BY <1>1, <1>3, <2>3, TotalHasValue
    <2>5. m \in C!Rows
      BY <2>1, <2>3, <2>4 DEF C!Rows
    <2> QED
      BY <2>2, <2>5
  <1> QED
    BY <1>2, <1>3

LEMMA HistoryMeasured == ASSUME CardsInv PROVE C!HistoryIsMeasured
  <1>1. SUFFICES ASSUME shown # {}
                 PROVE  /\ \A c \in Cards, f \in C!Fields :
                             {m[3].value : m \in {r \in C!Rows : r[1] = c /\ r[2] = f}}
                               = IF C!Measured(c, f) THEN {gpus[c][f]} ELSE {}
                        /\ \A f \in C!Fields :
                             (\E m \in C!Rows : m[1] = "all" /\ m[2] = f) <=> C!OfAll(f)
                        /\ (\E m \in C!Rows : m[2] = "speed") <=> speed.age <= FreshLive /\ speed.age <= MaxAge
    BY DEF C!HistoryIsMeasured
  <1>2. CardTypes /\ shown = TotalFigures \cup {SpeedFigure} \cup CardFigures \cup SpinFigures
    BY <1>1 DEF CardsInv
  <1>3. speed.age \in Nat /\ speed.value \in Nat
    BY <1>2 DEF CardTypes
  <1>4. SpeedFigure \in C!Rows <=> speed.age <= FreshLive /\ speed.age <= MaxAge
    <2>1. SpeedFigure \in shown /\ SpeedFigure[3] = C!Fresh(speed)
      BY <1>2 DEF SpeedFigure
    <2>2. SpeedFigure \in C!Rows <=> ~C!Fresh(speed).held /\ C!Fresh(speed).value # C!Null
      BY <2>1 DEF C!Rows
    <2>3. CASE speed.age > MaxAge
      <3>1. C!Fresh(speed).value = C!Null
        BY <2>3 DEF C!Fresh, C!Metric
      <3> QED
        BY <1>3, <2>2, <2>3, <3>1, CardFacts
    <2>4. CASE ~(speed.age > MaxAge)
      <3>1. C!Fresh(speed).value = speed.value /\ (C!Fresh(speed).held <=> speed.age > FreshLive)
        BY <2>4 DEF C!Fresh, C!Metric
      <3>2. C!Fresh(speed).value # C!Null
        BY <1>3, <3>1 DEF C!Null
      <3>3. speed.age > FreshLive <=> ~(speed.age <= FreshLive)
        BY <1>3, CardFacts
      <3>4. speed.age <= MaxAge
        BY <1>3, <2>4, CardFacts
      <3> QED
        BY <2>2, <3>1, <3>2, <3>3, <3>4, Zenon
    <2> QED
      BY <2>3, <2>4
  <1>5. \A m \in shown : m[2] = "speed" => m = SpeedFigure
    <2>1. SUFFICES ASSUME NEW m \in shown, m[2] = "speed", m # SpeedFigure PROVE FALSE
      OBVIOUS
    <2>2. "speed" \notin C!Fields
      BY DEF C!Fields
    <2>3. \A k, f, x : m = <<k, f, x>> => f = "speed"
      BY <2>1
    <2> QED
      BY <2>1, <2>2, <2>3, FigureKinds
  <1>6. SpeedFigure[2] = "speed"
    BY DEF SpeedFigure
  <1>7. (\E m \in C!Rows : m[2] = "speed") <=> SpeedFigure \in C!Rows
    BY <1>5, <1>6 DEF C!Rows
  <1> QED
    BY <1>1, <1>4, <1>7, CardRows, TotalRows

-----------------------------------------------------------------------------
(* Token tables.                                                           *)

\* Sums over the parts of a partition add up to the sum over the whole.
LEMMA SumOfParts ==
    ASSUME NEW w, NEW S, IsFiniteSet(S), Weights(w, S), NEW K, IsFiniteSet(K),
           NEW cls, \A x \in S : cls[x] \in K,
           NEW g, \A c \in K : g[c] = SumOver(w, {x \in S : cls[x] = c})
    PROVE  SumOver(g, K) = SumOver(w, S)
  <1> DEFINE Part(D) == {x \in S : cls[x] \in D}
             Bad == {D \in SUBSET K : SumOver(g, D) # SumOver(w, Part(D))}
  <1>1. Bad = {}
    <2>1. SUFFICES ASSUME Bad # {} PROVE FALSE
      OBVIOUS
    <2>2. PICK D \in Bad : \A U \in Bad : ~(U \subseteq D /\ U # D)
      <3>1. Bad \subseteq SUBSET K
        OBVIOUS
      <3> HIDE DEF Bad
      <3> QED
        BY <2>1, <3>1, SmallestSubset
    <2>3. D \subseteq K /\ IsFiniteSet(D) /\ SumOver(g, D) # SumOver(w, Part(D))
      BY <2>2, FS_Subset
    <2>4. D # {}
      <3>1. SUFFICES ASSUME D = {} PROVE FALSE
        OBVIOUS
      <3>2. Part(D) = {}
        BY <3>1
      <3>3. SumOver(g, D) = 0 /\ SumOver(w, Part(D)) = 0
        <4> HIDE DEF Part
        <4> QED
          BY <3>1, <3>2, SumEmpty
      <3> QED
        BY <2>3, <3>3
    <2> DEFINE c == Chosen(D)
               U == D \ {c}
               P == {x \in S : cls[x] = c}
    <2>5. c \in D /\ U \in SUBSET K /\ U \subseteq D /\ U # D
      BY <2>3, <2>4, ChosenIn
    <2>6. SumOver(g, U) = SumOver(w, Part(U))
      <3> HIDE DEF U, Part
      <3> QED
        BY <2>2, <2>5
    <2>7. SumOver(g, D) = g[c] + SumOver(g, U)
      BY <2>3, <2>4, SumChosen
    <2>8. g[c] = SumOver(w, P)
      BY <2>3, <2>5
    <2>9. Part(D) = P \cup Part(U) /\ P \cap Part(U) = {}
      BY <2>3, <2>5
    <2>10. IsFiniteSet(P) /\ IsFiniteSet(Part(U)) /\ Weights(w, P) /\ Weights(w, Part(U))
      BY FS_Subset DEF Weights
    <2>11. SumOver(w, Part(D)) = SumOver(w, P) + SumOver(w, Part(U))
      <3> HIDE DEF P, Part, U
      <3> QED
        BY <2>9, <2>10, SumUnion
    <2> QED
      BY <2>3, <2>6, <2>7, <2>8, <2>11
  <1>2. SumOver(g, K) = SumOver(w, Part(K))
    BY <1>1
  <1>3. Part(K) = S
    OBVIOUS
  <1> QED
    BY <1>2, <1>3

\* The tokens of rows, or those that were new, as weights of their places.
Amount(rs, f) == [i \in DOMAIN rs |-> rs[i][f]]

RowsFine(rs, days) ==
    /\ IsFiniteSet(DOMAIN rs) /\ (rs # <<>> => DOMAIN rs # {})
    /\ \A i \in DOMAIN rs : rs[i].tokens \in Nat /\ rs[i].day \in days
    /\ T!HasNet(rs) => \A i \in DOMAIN rs : rs[i].net \in Nat

LEMMA RowSetsFine ==
    ASSUME NEW days, NEW rs \in T!RowSets(days)
    PROVE  RowsFine(rs, days)
  <1>1. Amounts \subseteq Nat /\ Nets \subseteq Nat
    BY FiguresAssumption DEF T!PivotAssumption
  <1>2. PICK n \in 0..MaxRows :
          \/ rs \in [1..n -> [model : Models, day : days, tokens : Amounts, net : Nets]]
          \/ rs \in [1..n -> [model : Models, day : days, tokens : Amounts, net : {T!Null}]]
    BY DEF T!RowSets
  <1>3. DOMAIN rs = 1..n /\ \A i \in 1..n : rs[i].tokens \in Amounts /\ rs[i].day \in days
    BY <1>2
  <1>4. n \in Nat
    BY FiguresAssumption DEF T!PivotAssumption
  <1>5. IsFiniteSet(1..n)
    BY <1>4, FS_Interval
  <1>6. 1..n = {} => rs = <<>>
    BY <1>3
  <1>7. (\A i \in 1..n : rs[i].net \in Nets) \/ (\A i \in 1..n : rs[i].net = T!Null)
    BY <1>2
  <1>8. T!HasNet(rs) => \A i \in 1..n : rs[i].net \in Nat
    BY <1>1, <1>3, <1>7 DEF T!HasNet
  <1> QED
    BY <1>1, <1>3, <1>5, <1>6, <1>8 DEF RowsFine

\* What the table adds up is the sum of its rows.
LEMMA RowsAreASum ==
    ASSUME NEW rs, NEW f0, NEW S, IsFiniteSet(S), S \subseteq DOMAIN rs
    PROVE  T!Sum(rs, S, f0) = SumOver(Amount(rs, f0), S)
  <1> DEFINE Is(f) == f = [A \in SUBSET S |-> IF A = {} THEN 0 ELSE rs[Chosen(A)][f0] + f[A \ {Chosen(A)}]]
  <1>1. T!Sum(rs, S, f0) = (CHOOSE f : Is(f))[S]
    BY Zenon DEF T!Sum, T!MapThenSumSet, T!MapThenFoldSet, Chosen
  <1>2. \A f : Is(f) <=> SumIs(Amount(rs, f0), S, f)
    <2>1. TAKE f
    <2>2. [A \in SUBSET S |-> IF A = {} THEN 0 ELSE rs[Chosen(A)][f0] + f[A \ {Chosen(A)}]]
          = [A \in SUBSET S |-> IF A = {} THEN 0 ELSE Amount(rs, f0)[Chosen(A)] + f[A \ {Chosen(A)}]]
      <3>1. \A A \in SUBSET S : A # {} => Amount(rs, f0)[Chosen(A)] = rs[Chosen(A)][f0]
        BY ChosenIn DEF Amount
      <3> QED
        BY <3>1
    <2> QED
      BY <2>2 DEF SumIs
  <1>3. \E f : Is(f)
    <2> HIDE DEF Is
    <2> QED
      BY <1>2, SumExists
  <1> DEFINE f == CHOOSE f : Is(f)
  <1>4. SumIs(Amount(rs, f0), S, f)
    <2> HIDE DEF Is
    <2> QED
      BY <1>2, <1>3
  <1> HIDE DEF Is
  <1> QED
    BY <1>1, <1>4, SumUnique

LEMMA NoRows == ASSUME NEW rs, NEW f PROVE T!Sum(rs, {}, f) = 0
  BY FS_EmptySet, RowsAreASum, SumEmpty

LEMMA ClassesAreFinite == IsFiniteSet(T!Classes)
  <1>1. T!Classes = {"big", "all"} \cup {"fallback"}
    BY DEF T!Classes, Rules, T!Fallback
  <1>2. IsFiniteSet({"fallback"})
    BY FS_Singleton
  <1>3. IsFiniteSet({"big"} \cup {"all"})
    BY FS_Singleton, FS_Union
  <1>4. {"big", "all"} = {"big"} \cup {"all"}
    OBVIOUS
  <1> QED
    BY <1>1, <1>2, <1>3, <1>4, FS_Union

\* Every model has one class: the first rule that matches, or the fallback.
LEMMA ClassIsOne == ASSUME NEW m PROVE T!ClassOf(m) \in T!Classes
  <1> DEFINE hits == {i \in DOMAIN Rules : m \in Matches[Rules[i]]}
  <1>1. T!ClassOf(m) = IF hits = {} THEN T!Fallback ELSE Rules[T!Min(hits)]
    BY DEF T!ClassOf
  <1>2. CASE hits = {}
    BY <1>1, <1>2 DEF T!Classes
  <1>3. CASE hits # {}
    <2>1. DOMAIN Rules = {1, 2}
      BY DEF Rules
    <2>2. \E x \in hits : \A y \in hits : x =< y
      <3>1. hits \subseteq {1, 2}
        BY <2>1
      <3> HIDE DEF hits
      <3>2. CASE 1 \in hits
        BY <3>1, <3>2
      <3>3. CASE 1 \notin hits
        <4>1. hits = {2}
          BY <1>3, <3>1, <3>3
        <4> QED
          BY <4>1
      <3> QED
        BY <3>2, <3>3
    <2>3. T!Min(hits) \in hits
      <3> HIDE DEF hits
      <3> QED
        BY <2>2 DEF T!Min
    <2>4. T!Min(hits) \in DOMAIN Rules
      BY <2>3
    <2> HIDE DEF hits
    <2> QED
      BY <1>1, <1>3, <2>4 DEF T!Classes
  <1> QED
    BY <1>2, <1>3

ColumnOf(f) == [c \in T!Classes |-> columns[c][f]]
DayOf(d) == [c \in T!Classes |-> columns[c].matrix[d]]

LEMMA ColumnsAreASum == ASSUME NEW f0 PROVE T!Column(f0) = SumOver(ColumnOf(f0), T!Classes)
  <1> DEFINE K == T!Classes
             Is(f) == f = [A \in SUBSET K |-> IF A = {} THEN 0 ELSE columns[Chosen(A)][f0] + f[A \ {Chosen(A)}]]
  <1>1. T!Column(f0) = (CHOOSE f : Is(f))[K]
    BY Zenon DEF T!Column, T!MapThenSumSet, T!MapThenFoldSet, Chosen
  <1>2. \A f : Is(f) <=> SumIs(ColumnOf(f0), K, f)
    <2>1. TAKE f
    <2>2. [A \in SUBSET K |-> IF A = {} THEN 0 ELSE columns[Chosen(A)][f0] + f[A \ {Chosen(A)}]]
          = [A \in SUBSET K |-> IF A = {} THEN 0 ELSE ColumnOf(f0)[Chosen(A)] + f[A \ {Chosen(A)}]]
      <3>1. \A A \in SUBSET K : A # {} => ColumnOf(f0)[Chosen(A)] = columns[Chosen(A)][f0]
        BY ChosenIn DEF ColumnOf
      <3> QED
        BY <3>1
    <2> QED
      BY <2>2 DEF SumIs
  <1>3. \E f : Is(f)
    <2> HIDE DEF Is
    <2> QED
      BY <1>2, SumExists, ClassesAreFinite
  <1> DEFINE f == CHOOSE f : Is(f)
  <1>4. SumIs(ColumnOf(f0), K, f)
    <2> HIDE DEF Is
    <2> QED
      BY <1>2, <1>3
  <1> HIDE DEF Is
  <1> QED
    BY <1>1, <1>4, SumUnique, ClassesAreFinite

LEMMA DaysAreASum == ASSUME NEW d PROVE T!InMatrix(d) = SumOver(DayOf(d), T!Classes)
  <1> DEFINE K == T!Classes
             Is(f) == f = [A \in SUBSET K |-> IF A = {} THEN 0 ELSE columns[Chosen(A)].matrix[d] + f[A \ {Chosen(A)}]]
  <1>1. T!InMatrix(d) = (CHOOSE f : Is(f))[K]
    BY Zenon DEF T!InMatrix, T!MapThenSumSet, T!MapThenFoldSet, Chosen
  <1>2. \A f : Is(f) <=> SumIs(DayOf(d), K, f)
    <2>1. TAKE f
    <2>2. [A \in SUBSET K |-> IF A = {} THEN 0 ELSE columns[Chosen(A)].matrix[d] + f[A \ {Chosen(A)}]]
          = [A \in SUBSET K |-> IF A = {} THEN 0 ELSE DayOf(d)[Chosen(A)] + f[A \ {Chosen(A)}]]
      <3>1. \A A \in SUBSET K : A # {} => DayOf(d)[Chosen(A)] = columns[Chosen(A)].matrix[d]
        BY ChosenIn DEF DayOf
      <3> QED
        BY <3>1
    <2> QED
      BY <2>2 DEF SumIs
  <1>3. \E f : Is(f)
    <2> HIDE DEF Is
    <2> QED
      BY <1>2, SumExists, ClassesAreFinite
  <1> DEFINE f == CHOOSE f : Is(f)
  <1>4. SumIs(DayOf(d), K, f)
    <2> HIDE DEF Is
    <2> QED
      BY <1>2, <1>3
  <1> HIDE DEF Is
  <1> QED
    BY <1>1, <1>4, SumUnique, ClassesAreFinite

\* The classes are a partition of any rows.
LEMMA ClassesPart ==
    ASSUME NEW rs, NEW days, RowsFine(rs, days), NEW is, is \subseteq DOMAIN rs,
           NEW f, \A i \in DOMAIN rs : rs[i][f] \in Nat,
           NEW g, \A c \in T!Classes : g[c] = T!Sum(rs, {i \in is : T!ClassOf(rs[i].model) = c}, f)
    PROVE  SumOver(g, T!Classes) = T!Sum(rs, is, f) /\ Weights(g, T!Classes)
  <1> DEFINE cls == [i \in is |-> T!ClassOf(rs[i].model)]
             Of(c) == {i \in is : T!ClassOf(rs[i].model) = c}
  <1>1. IsFiniteSet(is) /\ Weights(Amount(rs, f), is)
    BY FS_Subset DEF RowsFine, Weights, Amount
  <1>2. \A i \in is : cls[i] \in T!Classes
    BY ClassIsOne
  <1>3. \A c \in T!Classes : g[c] = SumOver(Amount(rs, f), {i \in is : cls[i] = c}) /\ g[c] \in Nat
    <2>1. TAKE c \in T!Classes
    <2>2. {i \in is : cls[i] = c} = Of(c)
      OBVIOUS
    <2>3. IsFiniteSet(Of(c)) /\ Of(c) \subseteq DOMAIN rs /\ Weights(Amount(rs, f), Of(c))
      BY <1>1, FS_Subset DEF Weights
    <2> HIDE DEF cls
    <2>4. g[c] = T!Sum(rs, Of(c), f)
      OBVIOUS
    <2> HIDE DEF Of
    <2>5. g[c] = SumOver(Amount(rs, f), Of(c))
      BY <2>3, <2>4, RowsAreASum
    <2>6. SumOver(Amount(rs, f), Of(c)) \in Nat
      BY <2>3, SumType
    <2> QED
      BY <2>2, <2>5, <2>6
  <1> HIDE DEF cls
  <1>4. SumOver(g, T!Classes) = SumOver(Amount(rs, f), is)
    BY <1>1, <1>2, <1>3, ClassesAreFinite, SumOfParts
  <1>5. T!Sum(rs, is, f) = SumOver(Amount(rs, f), is)
    BY <1>1, RowsAreASum
  <1>6. Weights(g, T!Classes)
    BY <1>3 DEF Weights
  <1> QED
    BY <1>4, <1>5, <1>6

\* So what the classes add up of all the rows is what the rows add up to.
LEMMA ClassesAddUp ==
    ASSUME NEW rs, NEW days, RowsFine(rs, days), NEW f, \A i \in DOMAIN rs : rs[i][f] \in Nat,
           NEW g, \A c \in T!Classes : g[c] = T!Sum(rs, T!In(rs, c), f)
    PROVE  SumOver(g, T!Classes) = T!Sum(rs, DOMAIN rs, f) /\ Weights(g, T!Classes)
  <1> DEFINE is == DOMAIN rs
  <1>1. \A c \in T!Classes : g[c] = T!Sum(rs, {i \in is : T!ClassOf(rs[i].model) = c}, f)
    BY DEF T!In
  <1>2. is \subseteq DOMAIN rs
    OBVIOUS
  <1> HIDE DEF is
  <1>3. SumOver(g, T!Classes) = T!Sum(rs, is, f) /\ Weights(g, T!Classes)
    BY SMTT(60), <1>1, <1>2, ClassesPart
  <1> QED
    BY <1>3 DEF is

\* What Pivot works out.
Pivoted ==
    [c \in T!Classes |->
       [all |-> T!AllOf(c, "tokens"), net |-> IF T!HasNetAll THEN T!AllOf(c, "net") ELSE T!Null,
        today |-> T!Sum(rows, T!OfDay(T!In(rows, c), T!Today), "tokens"),
        matrix |-> [d \in T!Days |-> T!Sum(rows, T!OfDay(T!In(rows, c), d), "tokens")]]]

PivotInv ==
    /\ rows \in T!RowSets(T!Days) /\ totals \in T!RowSets({0})
    /\ columns = <<>> \/ columns = Pivoted

LEMMA PivotStarts == ASSUME T!Init PROVE PivotInv
  BY DEF T!Init, PivotInv

LEMMA PivotKeeps == ASSUME PivotInv, T!Pivot \/ UNCHANGED pivotVars PROVE PivotInv'
  <1>1. CASE UNCHANGED pivotVars
    <2>1. Pivoted' = Pivoted
      BY <1>1 DEF pivotVars, Pivoted, T!AllOf, T!UseTotals, T!Window, T!Today, T!OfDay, T!HasNetAll
    <2> QED
      BY <1>1, <2>1 DEF PivotInv, pivotVars
  <1>2. CASE T!Pivot
    <2>1. columns' = Pivoted /\ rows' = rows /\ totals' = totals /\ excluded' = excluded
      BY <1>2, Zenon DEF T!Pivot, Pivoted
    <2>2. Pivoted' = Pivoted
      BY <2>1 DEF Pivoted, T!AllOf, T!UseTotals, T!Window, T!Today, T!OfDay, T!HasNetAll
    <2> QED
      BY <2>1, <2>2 DEF PivotInv
  <1> QED
    BY <1>1, <1>2

\* The last day of the window is one of its days.
LEMMA TodayIsADay == ASSUME PivotInv, T!Today # T!Null PROVE T!Today \in T!Days
  <1>1. RowsFine(rows, T!Days)
    BY RowSetsFine DEF PivotInv
  <1> DEFINE days == {rows[i].day : i \in DOMAIN rows}
  <1>2. rows # <<>> /\ T!Today = T!Max(days)
    BY DEF T!Today
  <1>3. days \subseteq {1, 2} /\ days # {}
    BY <1>1, <1>2 DEF RowsFine, T!Days
  <1> HIDE DEF days
  <1>4. \E x \in days : \A y \in days : x >= y
    <2>1. CASE 2 \in days
      BY <1>3, <2>1
    <2>2. CASE 2 \notin days
      <3>1. days = {1}
        BY <1>3, <2>2
      <3> QED
        BY <3>1
    <2> QED
      BY <2>1, <2>2
  <1>5. T!Max(days) \in days
    BY <1>4 DEF T!Max
  <1> QED
    BY <1>2, <1>3, <1>5 DEF T!Days

LEMMA DayOfClass ==
    ASSUME NEW is, NEW d
    PROVE  \A c : T!OfDay(T!In(rows, c), d)
                  = {i \in T!OfDay(DOMAIN rows, d) : T!ClassOf(rows[i].model) = c}
  BY DEF T!OfDay, T!In

\* A column of all of the time is that of the rows that stand for it.
LEMMA AllIsOnce ==
    ASSUME PivotInv, NEW f, NEW g, \A c \in T!Classes : g[c] = T!AllOf(c, f),
           \A i \in T!Earlier : totals[i][f] \in Nat, \A i \in T!Recent : rows[i][f] \in Nat
    PROVE  SumOver(g, T!Classes) = T!InAll(f)
  <1>1. RowsFine(rows, T!Days) /\ RowsFine(totals, {0})
    BY RowSetsFine DEF PivotInv
  <1> DEFINE used == [c \in T!Classes |-> IF T!UseTotals THEN T!Sum(totals, T!In(totals, c), f) ELSE 0]
             window == [c \in T!Classes |-> T!Window(c, f)]
  <1>2. SumOver(used, T!Classes) = T!Sum(totals, T!Earlier, f) /\ Weights(used, T!Classes)
    <2>1. CASE T!UseTotals
      <3>1. \A c \in T!Classes : used[c] = T!Sum(totals, T!In(totals, c), f)
        BY <2>1
      <3>2. T!Earlier = DOMAIN totals
        BY <2>1 DEF T!Earlier
      <3>3. \A i \in DOMAIN totals : totals[i][f] \in Nat
        BY <3>2
      <3> HIDE DEF used
      <3>4. /\ SumOver(used, T!Classes) = T!Sum(totals, DOMAIN totals, f)
            /\ Weights(used, T!Classes)
        BY <1>1, <3>1, <3>3, ClassesAddUp
      <3> QED
        BY <3>2, <3>4
    <2>2. CASE ~T!UseTotals
      <3>1. \A c \in T!Classes : used[c] = 0
        BY <2>2
      <3>2. T!Sum(totals, T!Earlier, f) = 0
        BY <2>2, NoRows DEF T!Earlier
      <3> HIDE DEF used
      <3> QED
        BY <3>1, <3>2, ClassesAreFinite, SumZero DEF Weights
    <2> QED
      BY <2>1, <2>2
  <1>3. SumOver(window, T!Classes) = T!Sum(rows, T!Recent, f) /\ Weights(window, T!Classes)
    <2>1. CASE ~(T!UseTotals /\ ~excluded)
      <3>1. \A c \in T!Classes : window[c] = T!Sum(rows, T!In(rows, c), f)
        BY <2>1 DEF T!Window
      <3>2. T!Recent = DOMAIN rows
        BY <2>1 DEF T!Recent
      <3>3. \A i \in DOMAIN rows : rows[i][f] \in Nat
        BY <3>2
      <3> HIDE DEF window
      <3>4. /\ SumOver(window, T!Classes) = T!Sum(rows, DOMAIN rows, f)
            /\ Weights(window, T!Classes)
        BY <1>1, <3>1, <3>3, ClassesAddUp
      <3> QED
        BY <3>2, <3>4
    <2>2. CASE T!UseTotals /\ ~excluded
      <3>1. \A c \in T!Classes : window[c] = 0
        BY <2>2 DEF T!Window
      <3>2. T!Sum(rows, T!Recent, f) = 0
        BY <2>2, NoRows DEF T!Recent
      <3> HIDE DEF window
      <3> QED
        BY <3>1, <3>2, ClassesAreFinite, SumZero DEF Weights
    <2> QED
      BY <2>1, <2>2
  <1>4. \A c \in T!Classes : g[c] = used[c] + window[c]
    BY DEF T!AllOf
  <1> HIDE DEF used, window
  <1>5. SumOver(g, T!Classes) = SumOver(used, T!Classes) + SumOver(window, T!Classes)
    BY <1>2, <1>3, <1>4, ClassesAreFinite, SumAdd
  <1> QED
    BY <1>2, <1>3, <1>5 DEF T!InAll

LEMMA RowsCountOnce == ASSUME PivotInv PROVE T!EveryRowCountsOnce
  <1>1. SUFFICES ASSUME columns # <<>>
                 PROVE  /\ T!Column("all") = T!InAll("tokens")
                        /\ \A d \in T!Days :
                             T!InMatrix(d) = T!Sum(rows, T!OfDay(DOMAIN rows, d), "tokens")
                        /\ T!Today # T!Null => T!Column("today") = T!InMatrix(T!Today)
                        /\ (\E c \in T!Classes : columns[c].net # T!Null) =>
                             /\ \A i \in T!Earlier : totals[i].net # T!Null
                             /\ \A i \in T!Recent : rows[i].net # T!Null
                             /\ T!Column("net") = T!InAll("net")
    BY DEF T!EveryRowCountsOnce
  <1>2. columns = Pivoted
    BY <1>1 DEF PivotInv
  <1>3. RowsFine(rows, T!Days) /\ RowsFine(totals, {0})
    BY RowSetsFine DEF PivotInv
  <1>4. T!Earlier \subseteq DOMAIN totals /\ T!Recent \subseteq DOMAIN rows
    BY DEF T!Earlier, T!Recent
  <1>5. T!Column("all") = T!InAll("tokens")
    <2>1. \A c \in T!Classes : ColumnOf("all")[c] = T!AllOf(c, "tokens")
      BY <1>2 DEF ColumnOf, Pivoted
    <2>2. /\ \A i \in T!Earlier : totals[i]["tokens"] \in Nat
          /\ \A i \in T!Recent : rows[i]["tokens"] \in Nat
      BY <1>3, <1>4 DEF RowsFine
    <2> QED
      BY <2>1, <2>2, AllIsOnce, ColumnsAreASum
  <1>6. ASSUME NEW d \in T!Days
        PROVE  T!InMatrix(d) = T!Sum(rows, T!OfDay(DOMAIN rows, d), "tokens")
    <2>1. \A c \in T!Classes :
            DayOf(d)[c] = T!Sum(rows, {i \in T!OfDay(DOMAIN rows, d) : T!ClassOf(rows[i].model) = c}, "tokens")
      BY <1>2, DayOfClass DEF DayOf, Pivoted
    <2>2. T!OfDay(DOMAIN rows, d) \subseteq DOMAIN rows
      BY DEF T!OfDay
    <2>3. \A i \in DOMAIN rows : rows[i]["tokens"] \in Nat
      BY <1>3 DEF RowsFine
    <2> QED
      BY <1>3, <2>1, <2>2, <2>3, ClassesPart, DaysAreASum
  <1>7. ASSUME T!Today # T!Null PROVE T!Column("today") = T!InMatrix(T!Today)
    <2>1. T!Today \in T!Days
      BY <1>7, TodayIsADay
    <2>2. \A c \in T!Classes : ColumnOf("today")[c] = DayOf(T!Today)[c]
      BY <1>2, <2>1 DEF ColumnOf, DayOf, Pivoted
    <2> QED
      BY <2>2, ClassesAreFinite, SumCongruent, ColumnsAreASum, DaysAreASum
  <1>8. ASSUME NEW k \in T!Classes, columns[k].net # T!Null
        PROVE  /\ \A i \in T!Earlier : totals[i].net # T!Null
               /\ \A i \in T!Recent : rows[i].net # T!Null
               /\ T!Column("net") = T!InAll("net")
    <2>1. T!HasNetAll
      BY <1>2, <1>8 DEF Pivoted
    <2>2. \A i \in T!Earlier : totals[i].net \in Nat
      <3>1. CASE T!UseTotals
        BY <1>3, <1>4, <2>1, <3>1 DEF T!HasNetAll, RowsFine
      <3>2. CASE ~T!UseTotals
        BY <3>2 DEF T!Earlier
      <3> QED
        BY <3>1, <3>2
    <2>3. \A i \in T!Recent : rows[i].net \in Nat
      <3>1. CASE T!UseTotals /\ ~excluded
        BY <3>1 DEF T!Recent
      <3>2. CASE ~(T!UseTotals /\ ~excluded)
        <4>1. T!HasNet(rows)
          BY <2>1, <3>2 DEF T!HasNetAll
        <4> QED
          BY <1>3, <1>4, <4>1 DEF RowsFine
      <3> QED
        BY <3>1, <3>2
    <2>4. \A c \in T!Classes : ColumnOf("net")[c] = T!AllOf(c, "net")
      BY <1>2, <2>1 DEF ColumnOf, Pivoted
    <2>5. T!Column("net") = T!InAll("net")
      <3>1. (\A i \in T!Earlier : totals[i]["net"] \in Nat) /\ (\A i \in T!Recent : rows[i]["net"] \in Nat)
        BY <2>2, <2>3
      <3> QED
        BY <2>4, <3>1, AllIsOnce, ColumnsAreASum
    <2> QED
      BY <2>2, <2>3, <2>5 DEF T!Null
  <1> QED
    BY <1>5, <1>6, <1>7, <1>8

FiguresPart == /\ part = "cards" => CardsInv
               /\ part = "pivot" => PivotInv

LEMMA FiguresPartKeeps ==
    ASSUME FiguresPart, [PartsNext]_<<part, vars, figures>>
    PROVE  FiguresPart'
  <1>1. ASSUME part' = "cards" PROVE CardsInv'
    <2>1. part = "cards" /\ (C!Normalize \/ UNCHANGED cardVars)
      BY <1>1 DEF PartsNext, figures
    <2> QED
      BY <2>1, CardsKeep DEF FiguresPart
  <1>2. ASSUME part' = "pivot" PROVE PivotInv'
    <2>1. part = "pivot" /\ (T!Pivot \/ UNCHANGED pivotVars)
      BY <1>2 DEF PartsNext, figures
    <2> QED
      BY <2>1, PivotKeeps DEF FiguresPart
  <1> QED
    BY <1>1, <1>2 DEF FiguresPart

\* MCTsdb's FiguresHold for any cards, readings, thresholds, models, rows and amounts: a
\* total has a value exactly if every card was measured, the history gets a card's row for
\* just what was measured of it, and every token row counts once (normalize.js:201-289,
\* idle_spin.js:29-33, token_detail.js:69-140).
THEOREM FiguresRight == PartsSpec => []FiguresHold
  <1>1. PartsInit => FiguresPart
    BY CardsStart, PivotStarts DEF PartsInit, FiguresPart
  <1>2. FiguresPart /\ [PartsNext]_<<part, vars, figures>> => FiguresPart'
    BY FiguresPartKeeps
  <1>3. FiguresPart => FiguresHold
    BY TotalsStand, HistoryMeasured, RowsCountOnce DEF FiguresPart, FiguresHold
  <1> QED
    BY <1>1, <1>2, <1>3, PTL DEF PartsSpec

=============================================================================
