--------------------------- MODULE AnalyticsProofs ---------------------------
(***************************************************************************)
(* Each half of a report is right about the moment of its query, whatever  *)
(* is committed between the two and however floats round.  The sums of the *)
(* queries and of the reference are folds over sets of cases; each is      *)
(* shown to be a sum of cardinalities, by induction on the set.            *)
(***************************************************************************)
EXTENDS RecoveryAnalytics, FiniteSetTheorems, WellFoundedInduction, TLAPS

(* Induction on the subsets of a finite set, stated with counterexamples.  *)
LEMMA SmallestSubset ==
  ASSUME NEW S, IsFiniteSet(S), NEW B, B \subseteq SUBSET S, B # {}
  PROVE  \E T \in B : \A U \in B : U \subseteq T => U = T
<1>1. IsWellFoundedOn(StrictSubsetOrdering(S), SUBSET S)
  BY FS_StrictSubsetOrderingWellFounded, FS_FiniteSubsetsOfFinite
<1>2. PICK T \in B : \A U \in B : <<U, T>> \notin StrictSubsetOrdering(S)
  BY <1>1, WFMin
<1>3. QED
  BY <1>2 DEF StrictSubsetOrdering

(* The element that FoldSet takes next. *)
First(T) == CHOOSE x \in T : TRUE

(* Two functions on the subsets of S that are computed in the same way from *)
(* what they are without the next element, are the same.                   *)
LEMMA RecursionIsUnique ==
  ASSUME NEW S, IsFiniteSet(S), NEW f, NEW g, f[{}] = g[{}],
         \A T \in SUBSET S :
            T # {} /\ f[T \ {First(T)}] = g[T \ {First(T)}] => f[T] = g[T]
  PROVE  f[S] = g[S]
<1> DEFINE B == {T \in SUBSET S : f[T] # g[T]}
<1>1. SUFFICES ASSUME B # {} PROVE FALSE
  OBVIOUS
<1>2. PICK T \in B : \A U \in B : U \subseteq T => U = T
  <2>1. B \subseteq SUBSET S
    OBVIOUS
  <2> HIDE DEF B
  <2>2. QED
    BY <1>1, <2>1, SmallestSubset
<1>3. T # {} /\ T \subseteq S /\ f[T] # g[T]
  BY <1>2
<1>4. First(T) \in T
  BY <1>3 DEF First
<1>5. T \ {First(T)} \notin B
  BY <1>2, <1>4
<1>6. f[T \ {First(T)}] = g[T \ {First(T)}]
  BY <1>3, <1>5
<1>7. QED
  BY <1>3, <1>6

-----------------------------------------------------------------------------
(* A pile of things for each element of a set: the number of all of them.  *)
Piles(F, T) == UNION {{c} \X F[c] : c \in T}

LEMMA PilesAreFinite ==
  ASSUME NEW T, IsFiniteSet(T), NEW F, \A c \in T : IsFiniteSet(F[c])
  PROVE  IsFiniteSet(Piles(F, T))
<1> DEFINE P == {{c} \X F[c] : c \in T}
           f == [c \in T |-> {c} \X F[c]]
<1>1. f \in Surjection(T, P)
  BY DEF Surjection
<1>2. IsFiniteSet(P)
  BY <1>1, FS_Surjection
<1>3. \A c \in T : IsFiniteSet({c} \X F[c])
  BY FS_Singleton, FS_Product
<1>4. \A Q \in P : IsFiniteSet(Q)
  BY <1>3
<1>5. QED
  BY <1>2, <1>4, FS_UNION DEF Piles

LEMMA PilesGrow ==
  ASSUME NEW T, IsFiniteSet(T), NEW F, \A c \in T : IsFiniteSet(F[c]), NEW x \in T
  PROVE  Cardinality(Piles(F, T)) = Cardinality(Piles(F, T \ {x})) + Cardinality(F[x])
<1> DEFINE P == Piles(F, T \ {x})
           Q == {x} \X F[x]
<1>1. IsFiniteSet(P)
  BY FS_RemoveElement, PilesAreFinite
<1>2. IsFiniteSet(Q) /\ Cardinality(Q) = Cardinality(F[x])
  <2>1. IsFiniteSet({x}) /\ Cardinality({x}) = 1
    BY FS_Singleton
  <2>2. IsFiniteSet(F[x]) /\ Cardinality(F[x]) \in Nat
    BY FS_CardinalityType
  <2>3. IsFiniteSet(Q) /\ Cardinality(Q) = Cardinality({x}) * Cardinality(F[x])
    BY <2>1, <2>2, FS_Product
  <2>4. QED
    BY <2>1, <2>2, <2>3
<1>3. Piles(F, T) = P \cup Q
  <2>1. T = (T \ {x}) \cup {x}
    OBVIOUS
  <2>2. QED
    BY <2>1 DEF Piles
<1>8. P \cap Q = {}
  BY DEF Piles
<1>4. Cardinality(P \cup Q) = Cardinality(P) + Cardinality(Q) - Cardinality(P \cap Q)
  BY <1>1, <1>2, FS_Union
<1>5. Cardinality(P \cap Q) = 0
  BY <1>8, FS_EmptySet
<1>6. Cardinality(P) \in Nat /\ Cardinality(F[x]) \in Nat
  BY <1>1, FS_CardinalityType
<1>7. QED
  BY <1>2, <1>3, <1>4, <1>5, <1>6

LEMMA NoPiles == \A F : Piles(F, {}) = {} /\ Cardinality(Piles(F, {})) = 0
  BY FS_EmptySet DEF Piles

-----------------------------------------------------------------------------
(* FoldSet over the amounts of cases. *)
Units == [c \in Cases |-> 1 .. cases[c].amount]

AmountsAreNat == \A c \in Cases : cases[c].amount \in Nat

LEMMA UnitsAreFinite ==
  ASSUME AmountsAreNat, NEW c \in Cases
  PROVE  IsFiniteSet(Units[c]) /\ Cardinality(Units[c]) = cases[c].amount
<1>1. cases[c].amount \in Nat
  BY DEF AmountsAreNat
<1>2. ASSUME NEW n \in Nat
      PROVE  IsFiniteSet(1 .. n) /\ Cardinality(1 .. n) = n
  <2>1. 1 \in Int /\ n \in Int
    OBVIOUS
  <2>2. IsFiniteSet(1 .. n) /\ Cardinality(1 .. n) = IF 1 > n THEN 0 ELSE n - 1 + 1
    BY <2>1, FS_Interval
  <2>3. QED
    BY <2>2
<1>3. QED
  BY <1>1, <1>2 DEF Units

LEMMA SumOfAmountsIsCount ==
  ASSUME AmountsAreNat, NEW S \in SUBSET Cases
  PROVE  SumOfAmounts(S) = Cardinality(Piles(Units, S)) /\ SumOfAmounts(S) \in Nat
<1> DEFINE sum(f) == f = [T \in SUBSET S |->
               IF T = {} THEN 0
               ELSE f[T \ {CHOOSE x \in T : TRUE}] + cases[CHOOSE x \in T : TRUE].amount]
           g == [T \in SUBSET S |-> Cardinality(Piles(Units, T))]
           f == CHOOSE f : sum(f)
<1>1. IsFiniteSet(S) /\ \A T \in SUBSET S : IsFiniteSet(T)
  BY AnalyticsAssumption, FS_Subset
<1>2. \A T \in SUBSET S : T # {} =>
         Cardinality(Piles(Units, T))
            = Cardinality(Piles(Units, T \ {First(T)})) + cases[First(T)].amount
  <2> SUFFICES ASSUME NEW T \in SUBSET S, T # {}
               PROVE  Cardinality(Piles(Units, T))
                         = Cardinality(Piles(Units, T \ {First(T)})) + cases[First(T)].amount
    OBVIOUS
  <2>1. First(T) \in T
    BY DEF First
  <2>2. \A c \in T : IsFiniteSet(Units[c])
    BY UnitsAreFinite
  <2>3. Cardinality(Piles(Units, T))
           = Cardinality(Piles(Units, T \ {First(T)})) + Cardinality(Units[First(T)])
    BY <1>1, <2>1, <2>2, PilesGrow
  <2>4. Cardinality(Units[First(T)]) = cases[First(T)].amount
    BY <2>1, UnitsAreFinite
  <2>5. QED
    BY <2>3, <2>4
<1>3. sum(g)
  BY <1>2, NoPiles DEF First
<1>4. sum(f)
  BY <1>3
<1>5. SumOfAmounts(S) = f[S]
  BY DEF SumOfAmounts, FoldSet, MapThenFoldSet
<1>6. f[S] = g[S]
  <2>1. f[{}] = 0 /\ g[{}] = 0
    BY <1>4, NoPiles
  <2>2. \A T \in SUBSET S : T # {} =>
           /\ f[T] = f[T \ {First(T)}] + cases[First(T)].amount
           /\ g[T] = g[T \ {First(T)}] + cases[First(T)].amount
    BY <1>4, <1>3 DEF First
  <2> HIDE DEF f, g
  <2>3. \A T \in SUBSET S :
           T # {} /\ f[T \ {First(T)}] = g[T \ {First(T)}] => f[T] = g[T]
    BY <2>2
  <2>4. QED
    BY <1>1, <2>1, <2>3, RecursionIsUnique
<1>7. Cardinality(Piles(Units, S)) \in Nat
  BY <1>1, UnitsAreFinite, PilesAreFinite, FS_CardinalityType
<1>8. QED
  BY <1>5, <1>6, <1>7

LEMMA SumOfAmountsGrows ==
  ASSUME AmountsAreNat, NEW S \in SUBSET Cases, NEW x \in S
  PROVE  SumOfAmounts(S) = SumOfAmounts(S \ {x}) + cases[x].amount
<1>1. IsFiniteSet(S) /\ \A c \in S : IsFiniteSet(Units[c])
  BY AnalyticsAssumption, UnitsAreFinite, FS_Subset
<1>2. Cardinality(Piles(Units, S))
         = Cardinality(Piles(Units, S \ {x})) + Cardinality(Units[x])
  BY <1>1, PilesGrow
<1>3. S \ {x} \in SUBSET Cases
  OBVIOUS
<1>4. Cardinality(Units[x]) = cases[x].amount
  BY UnitsAreFinite
<1>5. /\ SumOfAmounts(S) = Cardinality(Piles(Units, S))
      /\ SumOfAmounts(S \ {x}) = Cardinality(Piles(Units, S \ {x}))
  BY <1>3, SumOfAmountsIsCount
<1>6. QED
  BY <1>2, <1>4, <1>5

-----------------------------------------------------------------------------
(* What a report says of the cases T of a currency. *)
AttemptStatuses == {"ABSENT", "RUNNING", "SUCCEEDED", "FAILED"}

TablesAreTyped ==
    /\ cases \in [Cases -> CaseRow]
    /\ attempts \in [Cases -> [AttemptNos -> AttemptStatuses]]

InStatus(T, s) == {c \in T : cases[c].status = s}

Rows(T, ss) == {row \in T \X AttemptNos : Status(row) \in ss}

Made == {"RUNNING", "SUCCEEDED", "FAILED"}

Figures(T) ==
    [cases |-> [total      |-> Cardinality(T),
                successful |-> Cardinality(InStatus(T, "RECOVERED")),
                stopped    |-> Cardinality(InStatus(T, "STOPPED")),
                attempted  |-> SumOfAmounts(T),
                recovered  |-> SumOfAmounts(InStatus(T, "RECOVERED"))],
     attempts |-> [total      |-> Cardinality(Rows(T, Made)),
                   successful |-> Cardinality(Rows(T, {"SUCCEEDED"})),
                   failed     |-> Cardinality(Rows(T, {"FAILED"}))]]

LEMMA RowsGrow ==
  ASSUME NEW T \in SUBSET Cases, NEW x \in T, NEW ss
  PROVE  Cardinality(Rows(T, ss)) = Cardinality(Rows(T \ {x}, ss))
            + Cardinality({n \in AttemptNos : attempts[x][n] \in ss})
<1> DEFINE F == [c \in Cases |-> {n \in AttemptNos : attempts[c][n] \in ss}]
<1>1. IsFiniteSet(T)
  BY AnalyticsAssumption, FS_Subset
<1>2. \A c \in T : IsFiniteSet(F[c])
  BY AnalyticsAssumption, FS_Subset
<1>3. \A U \in SUBSET Cases : Rows(U, ss) = Piles(F, U)
  <2> SUFFICES ASSUME NEW U \in SUBSET Cases PROVE Rows(U, ss) = Piles(F, U)
    OBVIOUS
  <2>1. ASSUME NEW row \in Rows(U, ss) PROVE row \in Piles(F, U)
    <3>1. PICK c \in U, n \in AttemptNos : row = <<c, n>> /\ attempts[c][n] \in ss
      BY DEF Rows, Status
    <3>2. row \in {c} \X F[c]
      BY <3>1
    <3>3. QED
      BY <3>2 DEF Piles
  <2>2. ASSUME NEW row \in Piles(F, U) PROVE row \in Rows(U, ss)
    <3>1. PICK c \in U : row \in {c} \X F[c]
      BY DEF Piles
    <3>2. PICK n \in F[c] : row = <<c, n>>
      BY <3>1
    <3>3. QED
      BY <3>2 DEF Rows, Status
  <2>3. QED
    BY <2>1, <2>2
<1> HIDE DEF F
<1>4. Cardinality(Piles(F, T)) = Cardinality(Piles(F, T \ {x})) + Cardinality(F[x])
  BY <1>1, <1>2, PilesGrow
<1>5. QED
  BY <1>3, <1>4 DEF F

LEMMA StatusGrows ==
  ASSUME NEW T \in SUBSET Cases, NEW x \in T, NEW s
  PROVE  Cardinality(InStatus(T, s)) = Cardinality(InStatus(T \ {x}, s))
            + IF cases[x].status = s THEN 1 ELSE 0
<1>1. IsFiniteSet(InStatus(T, s)) /\ Cardinality(InStatus(T, s)) \in Nat
  <2>1. IsFiniteSet(InStatus(T, s))
    BY AnalyticsAssumption, FS_Subset DEF InStatus
  <2>2. QED
    BY <2>1, FS_CardinalityType
<1>2. InStatus(T \ {x}, s) = InStatus(T, s) \ {x}
  BY DEF InStatus
<1>3. x \in InStatus(T, s) <=> cases[x].status = s
  BY DEF InStatus
<1> DEFINE R == InStatus(T, s)
<1> HIDE DEF R
<1>4. Cardinality(R \ {x}) = IF x \in R THEN Cardinality(R) - 1 ELSE Cardinality(R)
  BY <1>1, FS_RemoveElement DEF R
<1>5. Cardinality(R) \in Nat /\ (x \in R <=> cases[x].status = s)
  BY <1>1, <1>3 DEF R
<1>6. Cardinality(R) = Cardinality(R \ {x}) + IF cases[x].status = s THEN 1 ELSE 0
  BY <1>4, <1>5
<1>7. QED
  BY <1>2, <1>6 DEF R

LEMMA RecoveredGrows ==
  ASSUME AmountsAreNat, NEW T \in SUBSET Cases, NEW x \in T
  PROVE  SumOfAmounts(InStatus(T, "RECOVERED"))
            = SumOfAmounts(InStatus(T \ {x}, "RECOVERED"))
              + IF cases[x].status = "RECOVERED" THEN cases[x].amount ELSE 0
<1> DEFINE R == InStatus(T, "RECOVERED")
<1>1. R \in SUBSET Cases /\ InStatus(T \ {x}, "RECOVERED") = R \ {x}
  BY DEF InStatus
<1>2. x \in R <=> cases[x].status = "RECOVERED"
  BY DEF InStatus
<1> HIDE DEF R
<1>3. CASE x \in R
  BY <1>1, <1>2, <1>3, SumOfAmountsGrows DEF R
<1>4. CASE x \notin R
  <2>1. R \ {x} = R
    BY <1>4
  <2>3. SumOfAmounts(R) \in Nat /\ SumOfAmounts(R) = SumOfAmounts(R) + 0
    BY <1>1, SumOfAmountsIsCount
  <2>4. cases[x].status # "RECOVERED"
    BY <1>2, <1>4
  <2>5. SumOfAmounts(R) = SumOfAmounts(InStatus(T \ {x}, "RECOVERED")) + 0
    BY <1>1, <2>1, <2>3
  <2>2. QED
    BY <2>4, <2>5 DEF R
<1>5. QED
  BY <1>3, <1>4

(* The fold of the reference computes the same figures. *)
LEMMA FiguresGrow ==
  ASSUME AmountsAreNat, NEW T \in SUBSET Cases, NEW x \in T
  PROVE  Figures(T) = AddCase(x, Figures(T \ {x}))
<1> DEFINE U == T \ {x}
           a == cases[x].amount
           made(ss) == Cardinality({n \in AttemptNos : attempts[x][n] \in ss})
<1>1. IsFiniteSet(T) /\ Cardinality(T) \in Nat
  BY AnalyticsAssumption, FS_Subset, FS_CardinalityType
<1>2. Cardinality(T) = Cardinality(U) + 1
  <2>1. Cardinality(T \ {x}) = Cardinality(T) - 1
    BY <1>1, FS_RemoveElement
  <2>2. QED
    BY <1>1, <2>1
<1>3. /\ Cardinality(InStatus(T, "RECOVERED")) = Cardinality(InStatus(U, "RECOVERED"))
            + IF cases[x].status = "RECOVERED" THEN 1 ELSE 0
      /\ Cardinality(InStatus(T, "STOPPED")) = Cardinality(InStatus(U, "STOPPED"))
            + IF cases[x].status = "STOPPED" THEN 1 ELSE 0
  BY StatusGrows
<1>4. SumOfAmounts(T) = SumOfAmounts(U) + a
  BY SumOfAmountsGrows
<1>5. SumOfAmounts(InStatus(T, "RECOVERED")) = SumOfAmounts(InStatus(U, "RECOVERED"))
         + IF cases[x].status = "RECOVERED" THEN a ELSE 0
  BY RecoveredGrows
<1>6. /\ Cardinality(Rows(T, Made)) = Cardinality(Rows(U, Made)) + made(Made)
      /\ Cardinality(Rows(T, {"SUCCEEDED"})) = Cardinality(Rows(U, {"SUCCEEDED"}))
            + made({"SUCCEEDED"})
      /\ Cardinality(Rows(T, {"FAILED"})) = Cardinality(Rows(U, {"FAILED"}))
            + made({"FAILED"})
  BY RowsGrow
<1>7. /\ a \in Nat /\ SumOfAmounts(U) \in Nat
      /\ SumOfAmounts(InStatus(U, "RECOVERED")) \in Nat
  <2>1. U \in SUBSET Cases /\ InStatus(U, "RECOVERED") \in SUBSET Cases
    BY DEF InStatus
  <2>2. QED
    BY <2>1, SumOfAmountsIsCount DEF AmountsAreNat
<1> HIDE DEF U, a, made
<1>8. /\ 1 * a = a /\ 0 * a = 0 /\ a + 0 = a
      /\ SumOfAmounts(InStatus(U, "RECOVERED")) + 0 = SumOfAmounts(InStatus(U, "RECOVERED"))
  BY <1>7
<1> DEFINE m == Figures(U)
           it == AddCase(x, m)
<1>9. Figures(T).cases = it.cases
  <2>1. CASE cases[x].status = "RECOVERED"
    BY <1>2, <1>3, <1>4, <1>5, <1>8, <2>1 DEF Figures, AddCase, a
  <2>2. CASE cases[x].status # "RECOVERED"
    BY <1>2, <1>3, <1>4, <1>5, <1>8, <2>2 DEF Figures, AddCase, a
  <2>3. QED
    BY <2>1, <2>2
<1>11. Figures(T).attempts = it.attempts
  BY <1>6 DEF Figures, AddCase, made, Made
<1>12. /\ Figures(T) = [cases |-> Figures(T).cases, attempts |-> Figures(T).attempts]
       /\ it = [cases |-> it.cases, attempts |-> it.attempts]
  BY DEF Figures, AddCase
<1> HIDE DEF it
<1>13. Figures(T) = it
  BY <1>9, <1>11, <1>12
<1>14. QED
  BY <1>13 DEF it, U

LEMMA NoFigures ==
  ASSUME AmountsAreNat
  PROVE  Figures({}) = NoCases
<1>1. InStatus({}, "RECOVERED") = {} /\ InStatus({}, "STOPPED") = {}
  BY DEF InStatus
<1>2. Rows({}, Made) = {} /\ Rows({}, {"SUCCEEDED"}) = {} /\ Rows({}, {"FAILED"}) = {}
  BY DEF Rows
<1>3. SumOfAmounts({}) = 0
  BY SumOfAmountsIsCount, NoPiles
<1>4. Cardinality({}) = 0
  BY FS_EmptySet
<1>5. QED
  BY <1>1, <1>2, <1>3, <1>4 DEF Figures, NoCases

LEMMA AddedIsFigures ==
  ASSUME AmountsAreNat, NEW S \in SUBSET Cases
  PROVE  Added(S) = Figures(S)
<1> DEFINE add(f) == f = [T \in SUBSET S |->
               IF T = {} THEN NoCases
               ELSE AddCase(CHOOSE x \in T : TRUE, f[T \ {CHOOSE x \in T : TRUE}])]
           g == [T \in SUBSET S |-> Figures(T)]
           f == CHOOSE f : add(f)
<1>1. IsFiniteSet(S)
  BY AnalyticsAssumption, FS_Subset
<1>2. \A T \in SUBSET S : T # {} => Figures(T) = AddCase(First(T), Figures(T \ {First(T)}))
  <2> SUFFICES ASSUME NEW T \in SUBSET S, T # {}
               PROVE  Figures(T) = AddCase(First(T), Figures(T \ {First(T)}))
    OBVIOUS
  <2>1. First(T) \in T
    BY DEF First
  <2>2. QED
    BY <2>1, FiguresGrow
<1>3. add(g)
  BY <1>2, NoFigures DEF First
<1>4. add(f)
  BY <1>3
<1>5. Added(S) = f[S]
  BY DEF Added, FoldSet, MapThenFoldSet
<1>6. f[S] = g[S]
  <2>1. f[{}] = NoCases /\ g[{}] = NoCases
    BY <1>4, NoFigures
  <2>2. \A T \in SUBSET S : T # {} =>
           /\ f[T] = AddCase(First(T), f[T \ {First(T)}])
           /\ g[T] = AddCase(First(T), g[T \ {First(T)}])
    BY <1>4, <1>3 DEF First
  <2> HIDE DEF f, g
  <2>3. \A T \in SUBSET S :
           T # {} /\ f[T \ {First(T)}] = g[T \ {First(T)}] => f[T] = g[T]
    BY <2>2
  <2>4. QED
    BY <1>1, <2>1, <2>3, RecursionIsUnique
<1>7. QED
  BY <1>5, <1>6

-----------------------------------------------------------------------------
(* The two queries, merged, say of each currency what the figures of its   *)
(* cases are.                                                              *)
LEMMA AttemptsOfGroup ==
  ASSUME TablesAreTyped, NEW cur
  PROVE  /\ Joined(cur) = Rows(GroupedCases(cur), Made)
         /\ {row \in Joined(cur) : Status(row) = "SUCCEEDED"}
               = Rows(GroupedCases(cur), {"SUCCEEDED"})
         /\ {row \in Joined(cur) : Status(row) = "FAILED"}
               = Rows(GroupedCases(cur), {"FAILED"})
<1>1. \A row \in GroupedCases(cur) \X AttemptNos : Status(row) \in AttemptStatuses
  BY DEF TablesAreTyped, GroupedCases, Status
<1>2. QED
  BY <1>1 DEF Joined, Rows, Made, AttemptStatuses

LEMMA CasesOfGroup ==
  ASSUME TablesAreTyped, NEW cur
  PROVE  /\ GroupedCases(cur) \in SUBSET Cases
         /\ {c \in GroupedCases(cur) : cases[c].status \in {"RECOVERED"}}
               = InStatus(GroupedCases(cur), "RECOVERED")
         /\ {c \in GroupedCases(cur) : cases[c].status \in {"STOPPED", "ESCALATED"}}
               = InStatus(GroupedCases(cur), "STOPPED")
<1>1. GroupedCases(cur) \in SUBSET Cases
  BY DEF GroupedCases
<1>2. \A c \in GroupedCases(cur) : cases[c].status # "ESCALATED"
  BY <1>1 DEF TablesAreTyped, CaseRow
<1>3. QED
  BY <1>1, <1>2 DEF InStatus

(* Both queries and the reference, by currency. *)
LEMMA QueriesAreFigures ==
  ASSUME TablesAreTyped
  PROVE  LET K == {k \in Currencies : GroupedCases(k) # {}}
         IN  /\ CaseQuery = [cur \in K |-> Figures(GroupedCases(cur)).cases]
             /\ Reference = [cur \in K |-> Figures(GroupedCases(cur))]
             /\ \A cur \in K :
                   (IF cur \in DOMAIN AttemptQuery THEN AttemptQuery[cur]
                    ELSE [total |-> 0, successful |-> 0, failed |-> 0])
                   = Figures(GroupedCases(cur)).attempts
<1> DEFINE K == {k \in Currencies : GroupedCases(k) # {}}
<1>1. AmountsAreNat
  BY AnalyticsAssumption DEF TablesAreTyped, CaseRow, AmountsAreNat
<1>2. \A cur : GroupedCases(cur) = {c \in Reported : cases[c].currency = cur}
  BY DEF GroupedCases, InWindow, Reported
<1>3. K = {cases[c].currency : c \in Reported}
  <2>1. \A c \in Reported : cases[c].currency \in Currencies
    BY DEF Reported, TablesAreTyped, CaseRow
  <2>2. QED
    BY <1>2, <2>1
<1>4. CaseQuery = [cur \in K |-> Figures(GroupedCases(cur)).cases]
  BY CasesOfGroup DEF CaseQuery, Figures
<1>5. ASSUME NEW cur \in K
      PROVE  (IF cur \in DOMAIN AttemptQuery THEN AttemptQuery[cur]
              ELSE [total |-> 0, successful |-> 0, failed |-> 0])
             = Figures(GroupedCases(cur)).attempts
  <2>1. CASE Joined(cur) # {}
    BY <2>1, AttemptsOfGroup DEF AttemptQuery, Figures
  <2>2. CASE Joined(cur) = {}
    <3>1. /\ Rows(GroupedCases(cur), Made) = {}
          /\ Rows(GroupedCases(cur), {"SUCCEEDED"}) = {}
          /\ Rows(GroupedCases(cur), {"FAILED"}) = {}
      BY <2>2, AttemptsOfGroup
    <3>2. cur \notin DOMAIN AttemptQuery
      BY <2>2 DEF AttemptQuery
    <3>3. QED
      BY <3>1, <3>2, FS_EmptySet DEF Figures
  <2>3. QED
    BY <2>1, <2>2
<1>6. Reference = [cur \in K |-> Added(GroupedCases(cur))]
  BY <1>2, <1>3 DEF Reference
<1>7. \A cur : Added(GroupedCases(cur)) = Figures(GroupedCases(cur))
  BY <1>1, CasesOfGroup, AddedIsFigures
<1>8. QED
  BY <1>4, <1>5, <1>6, <1>7

LEMMA GroupsAreCounted ==
  ASSUME TablesAreTyped, NEW cur, GroupedCases(cur) # {}
  PROVE  Figures(GroupedCases(cur)).cases.total \in Nat \ {0}
<1>1. IsFiniteSet(GroupedCases(cur))
  BY AnalyticsAssumption, CasesOfGroup, FS_Subset
<1>2. Cardinality(GroupedCases(cur)) \in Nat /\ Cardinality(GroupedCases(cur)) # 0
  BY <1>1, FS_CardinalityType, FS_EmptySet
<1>3. QED
  BY <1>2 DEF Figures

-----------------------------------------------------------------------------
(* The inductive invariant: between the queries the first answer is the    *)
(* reference of its moment, and none of its currencies is lost.            *)
SeenAtFirst ==
    /\ DOMAIN caseRows = DOMAIN atFirst
    /\ \A cur \in DOMAIN atFirst :
          /\ cur \in Currencies /\ GroupedCases(cur) # {}
          /\ caseRows[cur] = atFirst[cur].cases
          /\ caseRows[cur].total \in Nat \ {0}

AnalyticsInv ==
    /\ TablesAreTyped
    /\ pc = "half" => SeenAtFirst
    /\ HalvesAreRight

LEMMA SameAmounts ==
  ASSUME cases' = cases, NEW S
  PROVE  SumOfAmounts(S)' = SumOfAmounts(S)
  BY DEF SumOfAmounts, FoldSet, MapThenFoldSet

LEMMA ReferenceReadsTables ==
  ASSUME UNCHANGED <<cases, attempts, window>>
  PROVE  Reference' = Reference
  BY DEF Reference, Reported, Added, AddCase, NoCases, FoldSet, MapThenFoldSet

LEMMA QueriesReadTables ==
  ASSUME UNCHANGED <<cases, attempts, window>>
  PROVE  /\ CaseQuery' = CaseQuery /\ AttemptQuery' = AttemptQuery
         /\ \A cur : GroupedCases(cur)' = GroupedCases(cur)
<1>1. \A S : SumOfAmounts(S)' = SumOfAmounts(S)
  BY SameAmounts
<1>2. \A cur : GroupedCases(cur)' = GroupedCases(cur)
  BY DEF GroupedCases, InWindow
<1>3. CaseQuery' = CaseQuery
  BY <1>1, <1>2 DEF CaseQuery
<1>4. AttemptQuery' = AttemptQuery
  BY <1>2 DEF AttemptQuery, Joined, Status
<1>5. QED
  BY <1>2, <1>3, <1>4

(* What the rest of the engine does keeps the tables typed, and takes no   *)
(* case out of the window.                                                 *)
LEMMA EngineKeepsInvariant ==
  ASSUME AnalyticsInv, Meanwhile, TablesAreTyped',
         \A cur : GroupedCases(cur) \subseteq GroupedCases(cur)'
  PROVE  AnalyticsInv'
<1>1. pc = "half" => SeenAtFirst'
  BY DEF AnalyticsInv, Meanwhile, SeenAtFirst
<1>2. QED
  BY <1>1 DEF AnalyticsInv, Meanwhile, HalvesAreRight

LEMMA CaseChanges ==
  ASSUME TablesAreTyped, NEW c \in Cases, NEW s \in {"OPEN", "RECOVERED", "STOPPED"},
         cases' = [cases EXCEPT ![c].status = s], window' = window
  PROVE  /\ cases' \in [Cases -> CaseRow]
         /\ \A cur : GroupedCases(cur) \subseteq GroupedCases(cur)'
<1>1. cases' \in [Cases -> CaseRow]
  BY DEF TablesAreTyped, CaseRow
<1>2. ASSUME NEW d \in Cases
      PROVE  /\ cases'[d].currency = cases[d].currency
             /\ cases'[d].created = cases[d].created
             /\ cases[d].status # "ABSENT" => cases'[d].status # "ABSENT"
  BY DEF TablesAreTyped, CaseRow
<1>3. QED
  BY <1>1, <1>2 DEF GroupedCases, InWindow

LEMMA CasesStay ==
  ASSUME UNCHANGED <<cases, window>>
  PROVE  \A cur : GroupedCases(cur) \subseteq GroupedCases(cur)'
  BY DEF GroupedCases, InWindow

LEMMA AttemptChanges ==
  ASSUME TablesAreTyped, NEW c \in Cases, NEW n \in AttemptNos,
         NEW s \in {"RUNNING", "SUCCEEDED", "FAILED"},
         attempts' = [attempts EXCEPT ![c][n] = s]
  PROVE  attempts' \in [Cases -> [AttemptNos -> AttemptStatuses]]
  BY DEF TablesAreTyped, AttemptStatuses

LEMMA FirstQuery ==
  ASSUME AnalyticsInv, AskForCases
  PROVE  AnalyticsInv'
<1> DEFINE K == {k \in Currencies : GroupedCases(k) # {}}
<1>1. TablesAreTyped /\ TablesAreTyped'
  BY DEF AnalyticsInv, AskForCases, TablesAreTyped
<1>2. /\ CaseQuery = [cur \in K |-> Figures(GroupedCases(cur)).cases]
      /\ Reference = [cur \in K |-> Figures(GroupedCases(cur))]
  BY <1>1, QueriesAreFigures
<1>3. \A cur : GroupedCases(cur)' = GroupedCases(cur)
  BY QueriesReadTables DEF AskForCases
<1>4. caseRows' = CaseQuery /\ atFirst' = Reference /\ pc' = "half"
  BY DEF AskForCases
<1>5. \A cur \in K : Figures(GroupedCases(cur)).cases.total \in Nat \ {0}
  BY <1>1, GroupsAreCounted
<1>6. /\ DOMAIN caseRows' = K /\ DOMAIN atFirst' = K
      /\ \A cur \in K : caseRows'[cur] = atFirst'[cur].cases
      /\ \A cur \in K : caseRows'[cur].total \in Nat \ {0}
  BY <1>2, <1>4, <1>5
<1>7. SeenAtFirst'
  BY <1>3, <1>6 DEF SeenAtFirst
<1>8. QED
  BY <1>1, <1>4, <1>7 DEF AnalyticsInv, HalvesAreRight

(* CaseFigures of a row that is not empty says what Tells asks for. *)
LEMMA FiguresTell ==
  ASSUME NEW m, m.total \in Nat \ {0}
  PROVE  Tells(CaseFigures(m), m)
<1>1. m.total > 0
  OBVIOUS
<1>2. QED
  BY <1>1 DEF Tells, CaseFigures

LEMMA SecondQuery ==
  ASSUME AnalyticsInv, AskForAttempts
  PROVE  AnalyticsInv'
<1> DEFINE K == {k \in Currencies : GroupedCases(k) # {}}
           Tries(cur) == IF cur \in DOMAIN AttemptQuery THEN AttemptQuery[cur]
                         ELSE [total |-> 0, successful |-> 0, failed |-> 0]
<1>1. TablesAreTyped /\ TablesAreTyped' /\ SeenAtFirst
  BY DEF AnalyticsInv, AskForAttempts, TablesAreTyped
<1>2. pc' = "answered" /\ atFirst' = atFirst /\ Reference' = Reference
  BY ReferenceReadsTables DEF AskForAttempts
<1>3. /\ Reference = [cur \in K |-> Figures(GroupedCases(cur))]
      /\ \A cur \in K : Tries(cur) = Figures(GroupedCases(cur)).attempts
  BY <1>1, QueriesAreFigures
<1>4. \A cur \in K : Reference[cur].attempts = Tries(cur)
  BY <1>3
<1>5. DOMAIN atFirst \subseteq K /\ DOMAIN caseRows = DOMAIN atFirst
  BY <1>1 DEF SeenAtFirst
<1>6. report' = [cur \in DOMAIN atFirst |->
                    [cases |-> CaseFigures(caseRows[cur]), attempts |-> Tries(cur)]]
  BY <1>5 DEF AskForAttempts, Merge
<1> HIDE DEF K, Tries
<1>7. ASSUME NEW cur \in DOMAIN atFirst
      PROVE  /\ Tells(report'[cur].cases, atFirst[cur].cases)
             /\ report'[cur].attempts = Reference[cur].attempts
  <2>1. /\ report'[cur].cases = CaseFigures(caseRows[cur])
        /\ report'[cur].attempts = Tries(cur)
    BY <1>6
  <2>2. caseRows[cur] = atFirst[cur].cases /\ atFirst[cur].cases.total \in Nat \ {0}
    BY <1>1 DEF SeenAtFirst
  <2>3. Tells(CaseFigures(atFirst[cur].cases), atFirst[cur].cases)
    BY <2>2, FiguresTell
  <2>4. QED
    BY <1>4, <1>5, <2>1, <2>2, <2>3
<1>8. DOMAIN report' = DOMAIN atFirst
  BY <1>6
<1>9. HalvesAreRight'
  BY <1>2, <1>7, <1>8 DEF HalvesAreRight, Tells
<1>10. QED
  BY <1>1, <1>2, <1>9 DEF AnalyticsInv

LEMMA StepKeepsInvariant == AnalyticsInv /\ [Next]_vars => AnalyticsInv'
<1> SUFFICES ASSUME AnalyticsInv, [Next]_vars PROVE AnalyticsInv'
  OBVIOUS
<1>1. TablesAreTyped
  BY DEF AnalyticsInv
<1>2. CASE AskForCases
  BY <1>2, FirstQuery
<1>3. CASE AskForAttempts
  BY <1>3, SecondQuery
<1>4. ASSUME NEW c \in Cases, OpenCase(c)
      PROVE  AnalyticsInv'
  <2>1. TablesAreTyped' /\ \A cur : GroupedCases(cur) \subseteq GroupedCases(cur)'
    BY <1>1, <1>4, CaseChanges DEF OpenCase, Meanwhile, TablesAreTyped
  <2>2. QED
    BY <1>4, <2>1, EngineKeepsInvariant DEF OpenCase
<1>5. ASSUME NEW c \in Cases, CloseCase(c)
      PROVE  AnalyticsInv'
  <2>1. TablesAreTyped' /\ \A cur : GroupedCases(cur) \subseteq GroupedCases(cur)'
    BY <1>1, <1>5, CaseChanges DEF CloseCase, Meanwhile, TablesAreTyped
  <2>2. QED
    BY <1>5, <2>1, EngineKeepsInvariant DEF CloseCase
<1>6. ASSUME NEW c \in Cases, ReopenCase(c)
      PROVE  AnalyticsInv'
  <2>1. TablesAreTyped' /\ \A cur : GroupedCases(cur) \subseteq GroupedCases(cur)'
    BY <1>1, <1>6, CaseChanges DEF ReopenCase, Meanwhile, TablesAreTyped
  <2>2. QED
    BY <1>6, <2>1, EngineKeepsInvariant DEF ReopenCase
<1>7. ASSUME NEW c \in Cases, NEW n \in AttemptNos, StartAttempt(c, n)
      PROVE  AnalyticsInv'
  <2>1. TablesAreTyped'
    BY <1>1, <1>7, AttemptChanges DEF StartAttempt, TablesAreTyped
  <2>2. UNCHANGED <<cases, window>>
    BY <1>7 DEF StartAttempt, Meanwhile
  <2>3. QED
    BY <1>7, <2>1, <2>2, CasesStay, EngineKeepsInvariant DEF StartAttempt
<1>8. ASSUME NEW c \in Cases, NEW n \in AttemptNos, Settle(c, n)
      PROVE  AnalyticsInv'
  <2>1. attempts' \in [Cases -> [AttemptNos -> AttemptStatuses]]
    BY <1>1, <1>8, AttemptChanges DEF Settle
  <2>2. window' = window
    BY <1>8 DEF Settle, Meanwhile
  <2>3. /\ cases' \in [Cases -> CaseRow]
        /\ \A cur : GroupedCases(cur) \subseteq GroupedCases(cur)'
    <3>1. CASE UNCHANGED cases
      BY <1>1, <2>2, <3>1, CasesStay DEF TablesAreTyped
    <3>2. CASE \E s \in {"RECOVERED", "STOPPED"} : cases' = [cases EXCEPT ![c].status = s]
      BY <1>1, <2>2, <3>2, CaseChanges
    <3>3. QED
      BY <1>8, <3>1, <3>2 DEF Settle
  <2>4. QED
    BY <1>8, <2>1, <2>3, EngineKeepsInvariant DEF Settle, TablesAreTyped
<1>9. CASE UNCHANGED vars
  <2>1. Reference' = Reference /\ \A cur : GroupedCases(cur)' = GroupedCases(cur)
    BY <1>9, ReferenceReadsTables, QueriesReadTables DEF vars
  <2>2. SeenAtFirst => SeenAtFirst'
    BY <1>9, <2>1 DEF vars, SeenAtFirst
  <2>3. HalvesAreRight'
    BY <1>9, <2>1 DEF AnalyticsInv, vars, HalvesAreRight, Tells
  <2>4. QED
    BY <1>9, <2>2, <2>3 DEF AnalyticsInv, vars, TablesAreTyped
<1>10. QED
  BY <1>2, <1>3, <1>4, <1>5, <1>6, <1>7, <1>8, <1>9 DEF Next

LEMMA AnalyticsInvariant == Spec => []AnalyticsInv
<1>1. Init => AnalyticsInv
  BY DEF Init, AnalyticsInv, HalvesAreRight, TablesAreTyped, AttemptStatuses
<1>2. QED
  BY <1>1, StepKeepsInvariant, PTL DEF Spec

(* Whatever is committed between the two queries, and however floats round, *)
(* each half of the report says of every currency what its cases and their *)
(* attempts amounted to when its query ran.                                *)
THEOREM HalvesAreAlwaysRight == Spec => []HalvesAreRight
<1>1. AnalyticsInv => HalvesAreRight
  BY DEF AnalyticsInv
<1>2. QED
  BY <1>1, AnalyticsInvariant, PTL
=============================================================================
