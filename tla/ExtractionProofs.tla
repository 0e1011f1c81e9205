-------------------------- MODULE ExtractionProofs --------------------------
(***************************************************************************)
(* What _extract_json finds in an answer of any length.  re.findall is a   *)
(* recursive function of the place where the search goes on; that there is *)
(* one, and what it finds, is shown by induction on that place.            *)
(***************************************************************************)
EXTENDS DecisionExtraction, FiniteSetTheorems, SequenceTheorems,
        WellFoundedInduction, TLAPS

LEMMA SmallestNumber ==
  ASSUME NEW B, B \subseteq Nat, B # {}
  PROVE  \E n \in B : \A k \in B : n <= k
<1>1. PICK n \in B : \A k \in B : <<k, n>> \notin OpToRel(<, Nat)
  BY NatLessThanWellFounded, WFMin
<1>2. \A k, m \in Nat : <<k, m>> \in OpToRel(<, Nat) <=> k < m
  BY DEF OpToRel
<1>3. \A k \in B : ~ (k < n)
  BY <1>1, <1>2
<1>4. n \in Nat /\ \A k \in B : k \in Nat
  OBVIOUS
<1>5. \A k \in B : n <= k
  BY <1>3, <1>4
<1>6. QED
  BY <1>5

(* Induction from the end of an answer to its beginning. *)
LEMMA Backwards ==
  ASSUME NEW n \in Nat, NEW B, n \in B, \A k \in 2 .. n : k \in B => k - 1 \in B
  PROVE  \A k \in 1 .. n : k \in B
<1> DEFINE Rest == {d \in 0 .. n - 1 : n - d \notin B}
<1>1. SUFFICES ASSUME Rest # {} PROVE FALSE
  <2>1. \A k \in 1 .. n : n - k \in 0 .. n - 1 /\ n - (n - k) = k
    OBVIOUS
  <2>2. ASSUME Rest = {}, NEW k \in 1 .. n
        PROVE  k \in B
    BY <2>1, <2>2
  <2> HIDE DEF Rest
  <2>3. QED
    BY <2>2
<1>2. Rest \subseteq Nat
  OBVIOUS
<1>3. PICK d \in Rest : \A e \in Rest : d <= e
  <2> HIDE DEF Rest
  <2> QED
    BY <1>1, <1>2, SmallestNumber
<1>4. d \in 0 .. n - 1 /\ n - d \notin B
  BY <1>3
<1>5. d # 0
  <2>1. n - 0 = n
    OBVIOUS
  <2>2. QED
    BY <1>4, <2>1
<1>6. d - 1 \in 0 .. n - 1 /\ ~ (d <= d - 1)
  BY <1>4, <1>5
<1>7. n - (d - 1) \in B
  BY <1>3, <1>6
<1>8. n - (d - 1) \in 2 .. n /\ n - (d - 1) - 1 = n - d
  BY <1>4, <1>5
<1>9. QED
  BY <1>4, <1>7, <1>8

-----------------------------------------------------------------------------
(* The search from place i on, given what it finds from later places on.   *)
Search(s, match, f, i) ==
    IF i > Len(s) THEN <<>>
    ELSE IF match[i] = NoMatch THEN f[i + 1]
    ELSE <<SubSeq(s, match[i].from, match[i].to)>> \o f[match[i].next]

Searches(s, match, f) == f = [i \in 1 .. Len(s) + 2 |-> Search(s, match, f, i)]

(* Every match is a part of the answer, and leads on. *)
Advances(s, match) ==
    \A i \in 1 .. Len(s) : match[i] # NoMatch =>
        /\ match[i].from \in 1 .. Len(s) /\ match[i].to \in 1 .. Len(s)
        /\ match[i].next \in i + 1 .. Len(s) + 1

LEMMA SearchLooksAhead ==
  ASSUME NEW s \in Seq(Token), NEW match, Advances(s, match), NEW f, NEW g,
         NEW i \in 1 .. Len(s) + 2, \A k \in i + 1 .. Len(s) + 2 : f[k] = g[k]
  PROVE  Search(s, match, f, i) = Search(s, match, g, i)
<1>1. Len(s) \in Nat
  OBVIOUS
<1>2. CASE i > Len(s)
  BY <1>2 DEF Search
<1>3. CASE i <= Len(s) /\ match[i] = NoMatch
  BY <1>1, <1>3 DEF Search
<1>4. CASE i <= Len(s) /\ match[i] # NoMatch
  <2>1. match[i].next \in i + 1 .. Len(s) + 2
    BY <1>1, <1>4 DEF Advances
  <2>2. QED
    BY <2>1, <1>4 DEF Search
<1>5. QED
  BY <1>1, <1>2, <1>3, <1>4

(* There is such a search: it is built from the end of the answer.         *)
SearchesFrom(s, match, k, f) ==
    f = [i \in k .. Len(s) + 2 |-> Search(s, match, f, i)]

CanSearchFrom(s, match, k) == \E f : SearchesFrom(s, match, k, f)

LEMMA SearchAtEnd ==
  ASSUME NEW s \in Seq(Token), NEW match
  PROVE  CanSearchFrom(s, match, Len(s) + 2)
<1> DEFINE N == Len(s) + 2
           f == [i \in N .. N |-> <<>>]
<1>1. \A g : \A i \in N .. N : Search(s, match, g, i) = <<>>
  <2>1. N \in Nat /\ N > Len(s) /\ \A i \in N .. N : i = N
    OBVIOUS
  <2>2. QED
    BY <2>1 DEF Search
<1>2. f = [i \in N .. N |-> Search(s, match, f, i)]
  BY <1>1
<1>3. QED
  BY <1>2 DEF CanSearchFrom, SearchesFrom

LEMMA SearchOneEarlier ==
  ASSUME NEW s \in Seq(Token), NEW match, Advances(s, match),
         NEW k \in 2 .. Len(s) + 2, CanSearchFrom(s, match, k)
  PROVE  CanSearchFrom(s, match, k - 1)
<1> DEFINE N == Len(s) + 2
<1>1. Len(s) \in Nat /\ k \in Nat /\ N \in Nat
  OBVIOUS
<1>2. PICK f : f = [i \in k .. N |-> Search(s, match, f, i)]
  BY DEF CanSearchFrom, SearchesFrom
<1> DEFINE g == [i \in k - 1 .. N |-> IF i = k - 1 THEN Search(s, match, f, i) ELSE f[i]]
<1>3. \A i \in k .. N : i \in k - 1 .. N /\ i # k - 1
  BY <1>1
<1>4. \A i \in k .. N : f[i] = g[i]
  BY <1>3
<1>5. \A i \in k .. N : f[i] = Search(s, match, f, i)
  <2> HIDE DEF g
  <2> QED
    BY <1>2
<1>6. \A i \in k - 1 .. N : Search(s, match, f, i) = Search(s, match, g, i)
  <2> SUFFICES ASSUME NEW i \in k - 1 .. N
               PROVE  Search(s, match, f, i) = Search(s, match, g, i)
    OBVIOUS
  <2>1. \A j \in i + 1 .. N : j \in k .. N
    BY <1>1
  <2>2. \A j \in i + 1 .. Len(s) + 2 : f[j] = g[j]
    BY <1>4, <2>1
  <2>3. i \in 1 .. Len(s) + 2
    BY <1>1
  <2> HIDE DEF g
  <2>4. QED
    BY <2>2, <2>3, SearchLooksAhead
<1>7. \A i \in k - 1 .. N : g[i] = Search(s, match, f, i)
  <2>1. \A i \in k - 1 .. N : i = k - 1 \/ i \in k .. N
    BY <1>1
  <2>2. QED
    BY <1>5, <2>1
<1>8. g = [i \in k - 1 .. N |-> g[i]]
  OBVIOUS
<1> HIDE DEF g
<1>9. g = [i \in k - 1 .. N |-> Search(s, match, g, i)]
  BY <1>6, <1>7, <1>8
<1>10. QED
  BY <1>9 DEF CanSearchFrom, SearchesFrom

LEMMA SearchExists ==
  ASSUME NEW s \in Seq(Token), NEW match, Advances(s, match)
  PROVE  \E f : Searches(s, match, f)
<1> DEFINE B == {k \in 1 .. Len(s) + 2 : CanSearchFrom(s, match, k)}
<1>1. Len(s) + 2 \in Nat /\ 1 \in 1 .. Len(s) + 2
  OBVIOUS
<1>2. Len(s) + 2 \in B
  BY <1>1, SearchAtEnd
<1>3. \A k \in 2 .. Len(s) + 2 : k \in B => k - 1 \in B
  <2> SUFFICES ASSUME NEW k \in 2 .. Len(s) + 2, k \in B
               PROVE  k - 1 \in B
    OBVIOUS
  <2>1. CanSearchFrom(s, match, k - 1)
    BY SearchOneEarlier
  <2>2. QED
    BY <1>1, <2>1
<1> HIDE DEF B
<1>4. 1 \in B
  BY <1>1, <1>2, <1>3, Backwards
<1>5. QED
  BY <1>4 DEF B, CanSearchFrom, SearchesFrom, Searches

LEMMA FindAllSearches ==
  ASSUME NEW s \in Seq(Token), NEW match, Advances(s, match)
  PROVE  \E f : Searches(s, match, f) /\ FindAll(s, match) = f[1]
<1> DEFINE f == CHOOSE f : Searches(s, match, f)
<1>1. Searches(s, match, f)
  BY SearchExists
<1>2. FindAll(s, match) = f[1]
  BY DEF FindAll, Searches, Search
<1>3. QED
  BY <1>1, <1>2

-----------------------------------------------------------------------------
(* What is found: nothing if there is no match, and one thing only if there *)
(* is a match, none before it and none after it.                           *)
NoneFrom(s, match, i) == \A j \in i .. Len(s) : match[j] = NoMatch

OnlyMatch(s, match, i, j) ==
    /\ j \in i .. Len(s) /\ match[j] # NoMatch
    /\ \A k \in i .. j - 1 : match[k] = NoMatch
    /\ NoneFrom(s, match, match[j].next)

Piece(s, m) == SubSeq(s, m.from, m.to)

IsFound(s, match, i, r) ==
    /\ r \in Seq(Seq(Token))
    /\ r = <<>> <=> NoneFrom(s, match, i)
    /\ \A j : OnlyMatch(s, match, i, j) => r = <<Piece(s, match[j])>>
    /\ Len(r) = 1 => \E j : OnlyMatch(s, match, i, j)

LEMMA FoundAtEnd ==
  ASSUME NEW s \in Seq(Token), NEW match, NEW f, Searches(s, match, f),
         NEW i \in 1 .. Len(s) + 2, i > Len(s)
  PROVE  IsFound(s, match, i, f[i])
<1>1. Len(s) \in Nat /\ i .. Len(s) = {}
  OBVIOUS
<1>2. f[i] = <<>>
  <2>1. f[i] = Search(s, match, f, i)
    BY DEF Searches
  <2>2. QED
    BY <2>1 DEF Search
<1>3. NoneFrom(s, match, i) /\ \A j : ~ OnlyMatch(s, match, i, j)
  BY <1>1 DEF NoneFrom, OnlyMatch
<1>4. f[i] \in Seq(Seq(Token)) /\ Len(f[i]) # 1
  BY <1>2
<1>5. QED
  BY <1>2, <1>3, <1>4 DEF IsFound

LEMMA FoundLater ==
  ASSUME NEW s \in Seq(Token), NEW match, NEW i \in 1 .. Len(s), match[i] = NoMatch,
         NEW r, IsFound(s, match, i + 1, r)
  PROVE  IsFound(s, match, i, r)
<1>1. /\ Len(s) \in Nat
      /\ \A k \in i .. Len(s) : k = i \/ k \in i + 1 .. Len(s)
      /\ \A k \in i + 1 .. Len(s) : k \in i .. Len(s) /\ k # i
  OBVIOUS
<1>2. NoneFrom(s, match, i) <=> NoneFrom(s, match, i + 1)
  BY <1>1 DEF NoneFrom
<1>3. \A j : OnlyMatch(s, match, i, j) <=> OnlyMatch(s, match, i + 1, j)
  <2> SUFFICES ASSUME NEW j
               PROVE  OnlyMatch(s, match, i, j) <=> OnlyMatch(s, match, i + 1, j)
    OBVIOUS
  <2>1. CASE j \in i + 1 .. Len(s)
    <3>1. \A k \in i .. j - 1 : k = i \/ k \in i + 1 .. j - 1
      BY <1>1, <2>1
    <3>2. \A k \in i + 1 .. j - 1 : k \in i .. j - 1
      BY <1>1, <2>1
    <3>3. j \in i .. Len(s)
      BY <1>1, <2>1
    <3>4. QED
      BY <2>1, <3>1, <3>2, <3>3 DEF OnlyMatch
  <2>2. CASE j \notin i + 1 .. Len(s)
    BY <1>1, <2>2 DEF OnlyMatch
  <2>3. QED
    BY <2>1, <2>2
<1>4. QED
  BY <1>2, <1>3 DEF IsFound

LEMMA FoundHere ==
  ASSUME NEW s \in Seq(Token), NEW match, Advances(s, match),
         NEW i \in 1 .. Len(s), match[i] # NoMatch,
         NEW r, IsFound(s, match, match[i].next, r)
  PROVE  IsFound(s, match, i, <<Piece(s, match[i])>> \o r)
<1> DEFINE p == Piece(s, match[i])
           one == <<p>>
           all == one \o r
<1>1. Len(s) \in Nat /\ i \in i .. Len(s) /\ i .. i - 1 = {}
  OBVIOUS
<1>2. p \in Seq(Token)
  <2>1. match[i].from \in 1 .. Len(s) /\ match[i].to \in 1 .. Len(s)
    BY DEF Advances
  <2>2. /\ match[i].from \in Int /\ match[i].to \in Int
        /\ \A k \in match[i].from .. match[i].to : s[k] \in Token
    BY <1>1, <2>1
  <2>3. QED
    BY <2>2, SubSeqProperties DEF Piece
<1> HIDE DEF p
<1>3. one \in Seq(Seq(Token)) /\ Len(one) = 1 /\ r \in Seq(Seq(Token)) /\ Len(r) \in Nat
  BY <1>2 DEF IsFound
<1> HIDE DEF one
<1>4. all \in Seq(Seq(Token)) /\ Len(all) = 1 + Len(r)
  <2> DEFINE S == Seq(Token)
  <2> HIDE DEF S
  <2>1. one \in Seq(S) /\ r \in Seq(S)
    BY <1>3 DEF S
  <2>2. one \o r \in Seq(S) /\ Len(one \o r) = Len(one) + Len(r)
    BY <2>1, ConcatProperties
  <2>3. QED
    BY <1>3, <2>2 DEF S
<1>5. all # <<>>
  BY <1>3, <1>4
<1>6. ~ NoneFrom(s, match, i)
  BY <1>1 DEF NoneFrom
<1>7. \A j : OnlyMatch(s, match, i, j) => j = i
  <2> SUFFICES ASSUME NEW j \in i .. Len(s), j # i PROVE i \in i .. j - 1
    BY DEF OnlyMatch
  <2> QED
    BY <1>1
<1>8. OnlyMatch(s, match, i, i) <=> r = <<>>
  BY <1>1 DEF OnlyMatch, IsFound
<1>9. r = <<>> => all = one
  BY <1>3, ConcatEmptySeq
<1>10. Len(all) = 1 => r = <<>>
  BY <1>3, <1>4
<1> HIDE DEF all
<1>11. IsFound(s, match, i, all)
  <2>1. \A j : OnlyMatch(s, match, i, j) => all = <<Piece(s, match[j])>>
    BY <1>7, <1>8, <1>9 DEF one, p
  <2>2. Len(all) = 1 => \E j : OnlyMatch(s, match, i, j)
    BY <1>8, <1>10
  <2>3. QED
    BY <1>4, <1>5, <1>6, <2>1, <2>2 DEF IsFound
<1>12. QED
  BY <1>11 DEF all, one, p

LEMMA EverythingIsFound ==
  ASSUME NEW s \in Seq(Token), NEW match, Advances(s, match),
         NEW f, Searches(s, match, f)
  PROVE  IsFound(s, match, 1, f[1])
<1> DEFINE N == Len(s) + 2
           B == {k \in 1 .. N : \A i \in k .. N : IsFound(s, match, i, f[i])}
<1>1. Len(s) \in Nat /\ N \in Nat /\ 1 \in 1 .. N
  OBVIOUS
<1>2. N \in B
  <2>1. \A i \in N .. N : i \in 1 .. Len(s) + 2 /\ i > Len(s)
    BY <1>1
  <2>2. \A i \in N .. N : IsFound(s, match, i, f[i])
    BY <2>1, FoundAtEnd
  <2>3. QED
    BY <1>1, <2>2
<1>3. ASSUME NEW k \in 2 .. N, k \in B
      PROVE  k - 1 \in B
  <2> DEFINE i == k - 1
  <2>1. i \in 1 .. Len(s) + 1 /\ i \in 1 .. Len(s) + 2 /\ i + 1 = k
    BY <1>1
  <2>2. f[i] = Search(s, match, f, i)
    BY <2>1 DEF Searches
  <2>3. \A j \in i + 1 .. N : IsFound(s, match, j, f[j])
    BY <1>3, <2>1
  <2>7. IsFound(s, match, i, f[i])
    <3>1. CASE i > Len(s)
      BY <2>1, <3>1, FoundAtEnd
    <3>2. CASE i <= Len(s) /\ match[i] = NoMatch
      <4>1. f[i] = f[i + 1] /\ i \in 1 .. Len(s)
        BY <1>1, <2>1, <2>2, <3>2 DEF Search
      <4>2. IsFound(s, match, i + 1, f[i + 1])
        BY <1>1, <2>1, <2>3
      <4> HIDE DEF i
      <4>3. QED
        BY <3>2, <4>1, <4>2, FoundLater
    <3>3. CASE i <= Len(s) /\ match[i] # NoMatch
      <4>1. i \in 1 .. Len(s) /\ match[i].next \in i + 1 .. N
        BY <1>1, <2>1, <3>3 DEF Advances
      <4>2. f[i] = <<Piece(s, match[i])>> \o f[match[i].next]
        BY <1>1, <2>1, <2>2, <3>3 DEF Search, Piece
      <4>3. IsFound(s, match, match[i].next, f[match[i].next])
        BY <2>3, <4>1
      <4> HIDE DEF i
      <4>4. IsFound(s, match, i, <<Piece(s, match[i])>> \o f[match[i].next])
        BY <3>3, <4>1, <4>3, FoundHere
      <4>5. QED
        BY <4>2, <4>4
    <3>4. QED
      BY <1>1, <2>1, <3>1, <3>2, <3>3
  <2>8. \A j \in i .. N : j = i \/ j \in i + 1 .. N
    BY <1>1, <2>1
  <2>9. \A j \in i .. N : IsFound(s, match, j, f[j])
    BY <2>3, <2>7, <2>8
  <2>10. QED
    BY <1>1, <2>1, <2>9
<1> HIDE DEF B
<1>4. 1 \in B
  BY <1>1, <1>2, <1>3, Backwards
<1>5. QED
  BY <1>1, <1>4 DEF B

(* re.findall, without its recursion. *)
LEMMA FindAllFinds ==
  ASSUME NEW s \in Seq(Token), NEW match, Advances(s, match)
  PROVE  IsFound(s, match, 1, FindAll(s, match))
  BY FindAllSearches, EverythingIsFound

-----------------------------------------------------------------------------
(* The two patterns. *)
LEMMA LeastIsLeast ==
  ASSUME NEW S, S \subseteq Nat, S # {}
  PROVE  Least(S) \in S /\ \A k \in S : Least(S) <= k
  BY SmallestNumber DEF Least

FencedMatches(s) == [i \in DOMAIN s |-> FencedAt(s, i)]
BracedMatches(s) == [i \in DOMAIN s |-> BracedAt(s, i)]

Open(s, i) == IF Is(s, i + 1, "json") THEN i + 2 ELSE i + 1

FencedEnds(s, i) ==
    {k \in Open(s, i) + 1 .. Len(s) : Is(s, k, "rbrace") /\ Is(s, k + 1, "tick")}
BracedEnds(s, i) == {k \in i + 1 .. Len(s) : Is(s, k, "rbrace")}

IsFenced(s, i) == Is(s, i, "tick") /\ Is(s, Open(s, i), "lbrace") /\ FencedEnds(s, i) # {}
IsBraced(s, i) == Is(s, i, "lbrace") /\ BracedEnds(s, i) # {}

LEMMA FencedAtPlace ==
  ASSUME NEW s \in Seq(Token), NEW i \in 1 .. Len(s)
  PROVE  /\ FencedMatches(s)[i] # NoMatch <=> IsFenced(s, i)
         /\ IsFenced(s, i) => LET m == FencedMatches(s)[i]
                              IN  /\ m.from = Open(s, i) /\ m.from \in i + 1 .. Len(s)
                                  /\ m.to = Least(FencedEnds(s, i))
                                  /\ m.to \in FencedEnds(s, i)
                                  /\ \A k \in FencedEnds(s, i) : m.to <= k
                                  /\ m.to \in m.from + 1 .. Len(s) - 1
                                  /\ m.next = m.to + 2
<1>1. Len(s) \in Nat /\ i \in DOMAIN s /\ DOMAIN s = 1 .. Len(s)
  OBVIOUS
<1>2. FencedMatches(s)[i] = IF IsFenced(s, i)
         THEN [from |-> Open(s, i), to |-> Least(FencedEnds(s, i)),
               next |-> Least(FencedEnds(s, i)) + 2]
         ELSE NoMatch
  BY <1>1 DEF FencedMatches, FencedAt, IsFenced, Open, FencedEnds
<1>3. ASSUME IsFenced(s, i)
      PROVE  /\ Open(s, i) \in i + 1 .. Len(s)
             /\ Least(FencedEnds(s, i)) \in FencedEnds(s, i)
             /\ \A k \in FencedEnds(s, i) : Least(FencedEnds(s, i)) <= k
             /\ Least(FencedEnds(s, i)) \in Open(s, i) + 1 .. Len(s) - 1
  <2>1. Open(s, i) \in i + 1 .. Len(s)
    <3>1. Open(s, i) \in DOMAIN s
      BY <1>3 DEF IsFenced, Is
    <3>2. Open(s, i) = i + 1 \/ Open(s, i) = i + 2
      BY DEF Open
    <3>3. QED
      BY <1>1, <3>1, <3>2
  <2>2. FencedEnds(s, i) \subseteq Nat
    <3>1. FencedEnds(s, i) \subseteq Open(s, i) + 1 .. Len(s)
      BY DEF FencedEnds
    <3>2. Open(s, i) + 1 .. Len(s) \subseteq Nat
      BY <1>1, <2>1
    <3>3. QED
      BY <3>1, <3>2
  <2>3. /\ Least(FencedEnds(s, i)) \in FencedEnds(s, i)
        /\ \A k \in FencedEnds(s, i) : Least(FencedEnds(s, i)) <= k
    BY <1>3, <2>2, LeastIsLeast DEF IsFenced
  <2>4. \A k \in FencedEnds(s, i) : k \in Open(s, i) + 1 .. Len(s) - 1
    <3>1. \A k \in FencedEnds(s, i) : k \in Open(s, i) + 1 .. Len(s) /\ k + 1 \in DOMAIN s
      BY DEF FencedEnds, Is
    <3>2. QED
      BY <1>1, <2>1, <3>1
  <2>5. QED
    BY <2>1, <2>3, <2>4
<1>4. IsFenced(s, i) => FencedMatches(s)[i] # NoMatch
  <2>1. NoMatch.from = 0
    BY DEF NoMatch
  <2>2. QED
    BY <1>2, <1>3, <2>1
<1>5. QED
  BY <1>2, <1>3, <1>4

LEMMA BracedAtPlace ==
  ASSUME NEW s \in Seq(Token), NEW i \in 1 .. Len(s)
  PROVE  /\ BracedMatches(s)[i] # NoMatch <=> IsBraced(s, i)
         /\ IsBraced(s, i) => LET m == BracedMatches(s)[i]
                              IN  /\ m.from = i
                                  /\ m.to \in BracedEnds(s, i)
                                  /\ \A k \in BracedEnds(s, i) : m.to <= k
                                  /\ m.to \in i + 1 .. Len(s)
                                  /\ m.next = m.to + 1
<1>1. Len(s) \in Nat /\ i \in DOMAIN s /\ DOMAIN s = 1 .. Len(s)
  OBVIOUS
<1>2. BracedMatches(s)[i] = IF IsBraced(s, i)
         THEN [from |-> i, to |-> Least(BracedEnds(s, i)),
               next |-> Least(BracedEnds(s, i)) + 1]
         ELSE NoMatch
  BY <1>1 DEF BracedMatches, BracedAt, IsBraced, BracedEnds
<1>3. ASSUME IsBraced(s, i)
      PROVE  /\ Least(BracedEnds(s, i)) \in BracedEnds(s, i)
             /\ \A k \in BracedEnds(s, i) : Least(BracedEnds(s, i)) <= k
             /\ Least(BracedEnds(s, i)) \in i + 1 .. Len(s)
  <2>1. BracedEnds(s, i) \subseteq Nat /\ BracedEnds(s, i) \subseteq i + 1 .. Len(s)
    <3>1. BracedEnds(s, i) \subseteq i + 1 .. Len(s)
      BY DEF BracedEnds
    <3>2. i + 1 .. Len(s) \subseteq Nat
      BY <1>1
    <3>3. QED
      BY <3>1, <3>2
  <2>2. /\ Least(BracedEnds(s, i)) \in BracedEnds(s, i)
        /\ \A k \in BracedEnds(s, i) : Least(BracedEnds(s, i)) <= k
    BY <1>3, <2>1, LeastIsLeast DEF IsBraced
  <2>3. QED
    BY <2>1, <2>2
<1>4. IsBraced(s, i) => BracedMatches(s)[i] # NoMatch
  <2>1. NoMatch.from = 0
    BY DEF NoMatch
  <2>2. QED
    BY <1>1, <1>2, <2>1
<1>5. QED
  BY <1>2, <1>3, <1>4

LEMMA PatternsAdvance ==
  ASSUME NEW s \in Seq(Token)
  PROVE  Advances(s, FencedMatches(s)) /\ Advances(s, BracedMatches(s))
<1>1. Len(s) \in Nat
  OBVIOUS
<1>2. ASSUME NEW i \in 1 .. Len(s), FencedMatches(s)[i] # NoMatch
      PROVE  /\ FencedMatches(s)[i].from \in 1 .. Len(s)
             /\ FencedMatches(s)[i].to \in 1 .. Len(s)
             /\ FencedMatches(s)[i].next \in i + 1 .. Len(s) + 1
  <2> DEFINE m == FencedMatches(s)[i]
  <2>1. m.from \in i + 1 .. Len(s) /\ m.to \in m.from + 1 .. Len(s) - 1 /\ m.next = m.to + 2
    BY <1>2, FencedAtPlace
  <2> HIDE DEF m
  <2>2. m.from \in 1 .. Len(s) /\ m.to \in 1 .. Len(s) /\ m.next \in i + 1 .. Len(s) + 1
    BY <1>1, <2>1
  <2>3. QED
    BY <2>2 DEF m
<1>3. ASSUME NEW i \in 1 .. Len(s), BracedMatches(s)[i] # NoMatch
      PROVE  /\ BracedMatches(s)[i].from \in 1 .. Len(s)
             /\ BracedMatches(s)[i].to \in 1 .. Len(s)
             /\ BracedMatches(s)[i].next \in i + 1 .. Len(s) + 1
  <2> DEFINE m == BracedMatches(s)[i]
  <2>1. m.from = i /\ m.to \in i + 1 .. Len(s) /\ m.next = m.to + 1
    BY <1>3, BracedAtPlace
  <2> HIDE DEF m
  <2>2. m.from \in 1 .. Len(s) /\ m.to \in 1 .. Len(s) /\ m.next \in i + 1 .. Len(s) + 1
    BY <1>1, <2>1
  <2>3. QED
    BY <2>2 DEF m
<1>4. QED
  BY <1>2, <1>3 DEF Advances

-----------------------------------------------------------------------------
(* Objects.  What counts within a part of an answer, without its offset.   *)
LEMMA PartOfAnswer ==
  ASSUME NEW s \in Seq(Token), NEW i \in 1 .. Len(s), NEW k \in i .. Len(s)
  PROVE  /\ SubSeq(s, i, k) \in Seq(Token)
         /\ Len(SubSeq(s, i, k)) = k - i + 1
         /\ \A j \in 1 .. k - i + 1 : SubSeq(s, i, k)[j] = s[i + j - 1]
<1>1. Len(s) \in Nat /\ i \in Int /\ k \in Int /\ i <= k
  OBVIOUS
<1>2. \A j \in i .. k : s[j] \in Token
  BY <1>1
<1>3. QED
  BY <1>1, <1>2, SubSeqProperties

LEMMA DepthOneMore ==
  ASSUME NEW s \in Seq(Token), NEW n \in Nat, n + 1 \in 1 .. Len(s)
  PROVE  /\ Depth(s, n) \in Int /\ Depth(s, n + 1) \in Int
         /\ s[n + 1] = "lbrace" => Depth(s, n + 1) = Depth(s, n) + 1
         /\ s[n + 1] = "rbrace" => Depth(s, n + 1) = Depth(s, n) - 1
         /\ s[n + 1] \notin {"lbrace", "rbrace"} => Depth(s, n + 1) = Depth(s, n)
<1> DEFINE In(m, t) == {k \in 1 .. m : s[k] = t}
<1>1. ASSUME NEW t
      PROVE  /\ Cardinality(In(n, t)) \in Nat
             /\ Cardinality(In(n + 1, t)) = Cardinality(In(n, t))
                   + IF s[n + 1] = t THEN 1 ELSE 0
  <2>1. IsFiniteSet(1 .. n)
    BY FS_Interval
  <2>2. IsFiniteSet(In(n, t)) /\ Cardinality(In(n, t)) \in Nat
    BY <2>1, FS_Subset, FS_CardinalityType
  <2>3. \A k \in 1 .. n + 1 : k = n + 1 \/ k \in 1 .. n
    OBVIOUS
  <2>4. n + 1 \notin 1 .. n /\ n + 1 \in 1 .. n + 1 /\ 1 .. n \subseteq 1 .. n + 1
    OBVIOUS
  <2>5. In(n + 1, t) = IF s[n + 1] = t THEN In(n, t) \cup {n + 1} ELSE In(n, t)
    BY <2>3, <2>4
  <2>6. n + 1 \notin In(n, t)
    BY <2>4
  <2> HIDE DEF In
  <2>7. Cardinality(In(n, t) \cup {n + 1}) = Cardinality(In(n, t)) + 1
    BY <2>2, <2>6, FS_AddElement
  <2>8. QED
    BY <2>2, <2>5, <2>7
<1>2. /\ Depth(s, n) = Cardinality(In(n, "lbrace")) - Cardinality(In(n, "rbrace"))
      /\ Depth(s, n + 1) = Cardinality(In(n + 1, "lbrace")) - Cardinality(In(n + 1, "rbrace"))
  BY DEF Depth
<1> HIDE DEF In
<1>3. /\ Cardinality(In(n, "lbrace")) \in Nat /\ Cardinality(In(n, "rbrace")) \in Nat
      /\ Cardinality(In(n + 1, "lbrace")) = Cardinality(In(n, "lbrace"))
            + IF s[n + 1] = "lbrace" THEN 1 ELSE 0
      /\ Cardinality(In(n + 1, "rbrace")) = Cardinality(In(n, "rbrace"))
            + IF s[n + 1] = "rbrace" THEN 1 ELSE 0
  BY <1>1
<1> DEFINE o == Cardinality(In(n, "lbrace"))
           c == Cardinality(In(n, "rbrace"))
<1>4. /\ o \in Nat /\ c \in Nat /\ Depth(s, n) = o - c
      /\ Depth(s, n + 1) = (o + IF s[n + 1] = "lbrace" THEN 1 ELSE 0)
                           - (c + IF s[n + 1] = "rbrace" THEN 1 ELSE 0)
  BY <1>2, <1>3
<1> HIDE DEF o, c
<1>5. CASE s[n + 1] = "lbrace"
  <2>1. s[n + 1] # "rbrace" /\ Depth(s, n + 1) = (o + 1) - (c + 0)
    BY <1>4, <1>5
  <2>2. QED
    BY <1>4, <1>5, <2>1
<1>6. CASE s[n + 1] = "rbrace"
  <2>1. s[n + 1] # "lbrace" /\ Depth(s, n + 1) = (o + 0) - (c + 1)
    BY <1>4, <1>6
  <2>2. QED
    BY <1>4, <1>6, <2>1
<1>7. CASE s[n + 1] \notin {"lbrace", "rbrace"}
  <2>1. s[n + 1] # "lbrace" /\ s[n + 1] # "rbrace" /\ Depth(s, n + 1) = (o + 0) - (c + 0)
    BY <1>4, <1>7
  <2>2. QED
    BY <1>4, <2>1
<1>8. QED
  BY <1>5, <1>6, <1>7

LEMMA DepthOfNothing == \A s : Depth(s, 0) = 0
<1>1. \A s, t : {k \in 1 .. 0 : s[k] = t} = {}
  OBVIOUS
<1>2. QED
  BY <1>1, FS_EmptySet DEF Depth

(* An object begins with a brace, ends with another one. *)
LEMMA EndsOfObject ==
  ASSUME NEW s \in Seq(Token), IsObject(s)
  PROVE  /\ Len(s) \in Nat /\ Len(s) >= 2
         /\ s[1] = "lbrace" /\ s[Len(s)] = "rbrace"
<1>1. Len(s) \in Nat /\ Len(s) >= 1 /\ s[1] = "lbrace"
  <2>1. Len(s) \in Nat /\ DOMAIN s = 1 .. Len(s)
    OBVIOUS
  <2>2. 1 \in DOMAIN s /\ s[1] = "lbrace"
    BY DEF IsObject, Is
  <2>3. QED
    BY <2>1, <2>2
<1>2. Depth(s, 1) = 1
  <2>1. 0 \in Nat /\ 0 + 1 \in 1 .. Len(s) /\ s[0 + 1] = "lbrace"
    BY <1>1
  <2>2. Depth(s, 0 + 1) = Depth(s, 0) + 1
    BY <2>1, DepthOneMore
  <2>3. QED
    BY <2>2, DepthOfNothing
<1>3. Depth(s, Len(s)) = 0 /\ \A i \in 1 .. Len(s) - 1 : Depth(s, i) > 0
  BY DEF IsObject
<1>4. PICK n \in Nat : Len(s) = n + 1
  <2>1. Len(s) - 1 \in Nat /\ Len(s) = (Len(s) - 1) + 1
    BY <1>1
  <2>2. QED
    BY <2>1
<1>5. n # 0
  <2>1. n = 0 => Len(s) = 1
    BY <1>4
  <2>2. Len(s) = 1 => Depth(s, Len(s)) = Depth(s, 1)
    BY Zenon
  <2>3. Depth(s, Len(s)) # Depth(s, 1)
    BY <1>2, <1>3
  <2>4. QED
    BY <2>1, <2>2, <2>3
<1>6. n \in 1 .. Len(s) - 1 /\ n + 1 \in 1 .. Len(s) /\ Len(s) >= 2
  BY <1>4, <1>5
<1>7. Depth(s, n) > 0 /\ Depth(s, n + 1) = 0
  BY <1>3, <1>4, <1>6
<1>8. s[n + 1] = "rbrace"
  <2>1. /\ Depth(s, n) \in Int
        /\ s[n + 1] = "lbrace" => Depth(s, n + 1) = Depth(s, n) + 1
        /\ s[n + 1] \notin {"lbrace", "rbrace"} => Depth(s, n + 1) = Depth(s, n)
    BY <1>6, DepthOneMore
  <2>2. s[n + 1] # "lbrace"
    BY <1>7, <2>1
  <2>3. s[n + 1] \in {"lbrace", "rbrace"}
    BY <1>7, <2>1
  <2>4. QED
    BY <2>2, <2>3
<1>9. QED
  BY <1>1, <1>4, <1>6, <1>8

LEMMA ObjectInAnswer ==
  ASSUME NEW s \in Seq(Token), NEW o \in ObjectsOf(s)
  PROVE  /\ o = <<o[1], o[2]>> /\ Len(s) \in Nat
         /\ o[1] \in 1 .. Len(s) /\ o[2] \in o[1] + 1 .. Len(s)
         /\ IsObject(SubSeq(s, o[1], o[2]))
         /\ s[o[1]] = "lbrace" /\ s[o[2]] = "rbrace"
<1> DEFINE i == o[1]
           k == o[2]
           t == SubSeq(s, i, k)
<1>1. /\ o = <<i, k>> /\ i \in 1 .. Len(s) /\ k \in 1 .. Len(s) /\ i < k /\ IsObject(t)
  BY DEF ObjectsOf
<1>2. Len(s) \in Nat
  OBVIOUS
<1> HIDE DEF i, k
<1>3. k \in i .. Len(s) /\ k \in i + 1 .. Len(s)
  BY <1>1, <1>2
<1>4. /\ t \in Seq(Token) /\ Len(t) = k - i + 1
      /\ \A j \in 1 .. k - i + 1 : t[j] = s[i + j - 1]
  BY <1>1, <1>3, PartOfAnswer
<1>5. t[1] = "lbrace" /\ t[Len(t)] = "rbrace"
  BY <1>1, <1>4, EndsOfObject
<1>6. /\ 1 \in 1 .. k - i + 1 /\ i + 1 - 1 = i
      /\ k - i + 1 \in 1 .. k - i + 1 /\ i + (k - i + 1) - 1 = k
  BY <1>1, <1>2
<1>7. s[i] = "lbrace" /\ s[k] = "rbrace"
  <2>1. t[1] = s[i] /\ t[k - i + 1] = s[k]
    BY <1>4, <1>6
  <2>2. QED
    BY <1>4, <1>5, <2>1
<1>8. QED
  BY <1>1, <1>2, <1>3, <1>7 DEF i, k

LEMMA ObjectOfPart ==
  ASSUME NEW s \in Seq(Token), NEW i \in 1 .. Len(s), NEW k \in i + 1 .. Len(s),
         IsObject(SubSeq(s, i, k))
  PROVE  <<i, k>> \in ObjectsOf(s)
<1>1. Len(s) \in Nat /\ k \in 1 .. Len(s) /\ i < k
  OBVIOUS
<1>2. QED
  BY <1>1 DEF ObjectsOf

(* No object is the beginning of another one. *)
LEMMA DepthWithinPart ==
  ASSUME NEW s \in Seq(Token), NEW i \in 1 .. Len(s), NEW k \in i .. Len(s),
         NEW l \in i .. Len(s), NEW n \in Nat, n <= k - i + 1, n <= l - i + 1
  PROVE  Depth(SubSeq(s, i, k), n) = Depth(SubSeq(s, i, l), n)
<1>1. Len(s) \in Nat
  OBVIOUS
<1>2. \A j \in 1 .. n : j \in 1 .. k - i + 1 /\ j \in 1 .. l - i + 1
  BY <1>1
<1>3. \A j \in 1 .. n : /\ SubSeq(s, i, k)[j] = s[i + j - 1]
                       /\ SubSeq(s, i, l)[j] = s[i + j - 1]
  BY <1>2, PartOfAnswer
<1>4. \A t : {j \in 1 .. n : SubSeq(s, i, k)[j] = t}
             = {j \in 1 .. n : SubSeq(s, i, l)[j] = t}
  BY <1>3
<1>5. QED
  BY <1>4 DEF Depth

LEMMA ObjectsEndOnce ==
  ASSUME NEW s \in Seq(Token), NEW i \in 1 .. Len(s), NEW k \in i .. Len(s),
         NEW l \in i .. Len(s), IsObject(SubSeq(s, i, k)), IsObject(SubSeq(s, i, l))
  PROVE  ~ (k < l)
<1> SUFFICES ASSUME k < l PROVE FALSE
  OBVIOUS
<1>1. Len(s) \in Nat
  OBVIOUS
<1> DEFINE n == k - i + 1
<1>2. /\ n \in Nat /\ n <= k - i + 1 /\ n <= l - i + 1
      /\ n \in 1 .. (l - i + 1) - 1
  BY <1>1
<1>3. Len(SubSeq(s, i, k)) = n /\ Len(SubSeq(s, i, l)) = l - i + 1
  BY PartOfAnswer
<1> HIDE DEF n
<1>4. Depth(SubSeq(s, i, k), n) = 0
  BY <1>3, Zenon DEF IsObject
<1>5. Depth(SubSeq(s, i, l), n) > 0
  <2>1. \A j \in 1 .. Len(SubSeq(s, i, l)) - 1 : Depth(SubSeq(s, i, l), j) > 0
    BY DEF IsObject
  <2>2. QED
    BY <1>2, <1>3, <2>1
<1>6. Depth(SubSeq(s, i, k), n) = Depth(SubSeq(s, i, l), n)
  BY <1>2, DepthWithinPart
<1>7. QED
  BY <1>4, <1>5, <1>6

(* An object with one closing brace has one opening brace. *)
LEMMA FlatObject ==
  ASSUME NEW t \in Seq(Token), IsObject(t),
         \A k \in 1 .. Len(t) : t[k] = "rbrace" => k = Len(t),
         NEW j \in 1 .. Len(t), t[j] = "lbrace"
  PROVE  j = 1
<1> DEFINE L == {k \in 1 .. Len(t) : t[k] = "lbrace"}
           R == {k \in 1 .. Len(t) : t[k] = "rbrace"}
<1>1. Len(t) \in Nat /\ Len(t) >= 2 /\ t[1] = "lbrace" /\ t[Len(t)] = "rbrace"
  BY EndsOfObject
<1>2. 1 \in L /\ j \in L /\ R = {Len(t)}
  BY <1>1
<1>3. Cardinality(L) - Cardinality(R) = 0
  BY DEF IsObject, Depth
<1>4. IsFiniteSet(L) /\ Cardinality(L) \in Nat
  <2>1. IsFiniteSet(1 .. Len(t))
    BY <1>1, FS_Interval
  <2>2. IsFiniteSet(L)
    BY <2>1, FS_Subset
  <2>3. QED
    BY <2>2, FS_CardinalityType
<1> HIDE DEF L, R
<1>5. Cardinality(R) = 1
  BY <1>2, FS_Singleton
<1>6. Cardinality(L) = 1
  BY <1>3, <1>4, <1>5
<1>7. PICK x : L = {x}
  BY <1>4, <1>6, FS_Singleton
<1>8. QED
  BY <1>2, <1>7

-----------------------------------------------------------------------------
(* What the code takes: the whole answer, the only fenced object, or the   *)
(* only object.                                                            *)
Braced(s) == FindAll(s, BracedMatches(s))

IsWhole(s) == Is(s, 1, "lbrace") /\ Is(s, Len(s), "rbrace")

LEMMA WhatIsTaken ==
  ASSUME NEW s \in Seq(Token), Decision(s) # Error
  PROVE  /\ IsObject(Decision(s))
         /\ \/ IsWhole(s) /\ Decision(s) = s
            \/ OnlyOne(Fences(s)) /\ Decision(s) = Fences(s)[1]
            \/ Fences(s) = <<>> /\ OnlyOne(Braced(s)) /\ Decision(s) = Braced(s)[1]
<1>1. Braced(s) = FindAll(s, [i \in DOMAIN s |-> BracedAt(s, i)])
  BY DEF Braced, BracedMatches
<1>2. IsObject(ExtractJson(s)) /\ Decision(s) = ExtractJson(s)
  BY DEF Decision
<1>3. ExtractJson(s) # Error
  BY <1>2
<1>4. ExtractJson(s) = IF IsWhole(s) THEN s
                       ELSE IF OnlyOne(Fences(s)) THEN Fences(s)[1]
                       ELSE IF Fences(s) = <<>> /\ OnlyOne(Braced(s)) THEN Braced(s)[1]
                       ELSE Error
  BY <1>1 DEF ExtractJson, IsWhole
<1>5. QED
  BY <1>2, <1>3, <1>4

LEMMA FencesFound ==
  ASSUME NEW s \in Seq(Token)
  PROVE  IsFound(s, FencedMatches(s), 1, Fences(s))
<1>1. Fences(s) = FindAll(s, FencedMatches(s))
  BY DEF Fences, FencedMatches
<1>2. QED
  BY <1>1, PatternsAdvance, FindAllFinds

LEMMA BracedFound ==
  ASSUME NEW s \in Seq(Token)
  PROVE  IsFound(s, BracedMatches(s), 1, Braced(s))
  BY PatternsAdvance, FindAllFinds DEF Braced

(* The only one that is found is the match at some place. *)
LEMMA TheOnlyOne ==
  ASSUME NEW s, NEW match, NEW r, IsFound(s, match, 1, r), OnlyOne(r)
  PROVE  \E j : OnlyMatch(s, match, 1, j) /\ r[1] = Piece(s, match[j])
<1>1. PICK j : OnlyMatch(s, match, 1, j)
  BY DEF IsFound, OnlyOne
<1>2. r = <<Piece(s, match[j])>>
  BY <1>1 DEF IsFound
<1>3. QED
  BY <1>1, <1>2

(* An answer that is an object contains every other one. *)
LEMMA WholeIsOutermost ==
  ASSUME NEW s \in Seq(Token), IsObject(s)
  PROVE  /\ <<1, Len(s)>> \in Outermost(s) /\ SubSeq(s, 1, Len(s)) = s
         /\ Cardinality(Outermost(s)) = 1
<1> DEFINE w == <<1, Len(s)>>
<1>1. Len(s) \in Nat /\ Len(s) >= 2
  BY EndsOfObject
<1>2. SubSeq(s, 1, Len(s)) = s
  BY SubSeqFull
<1>3. w \in ObjectsOf(s)
  <2>1. 1 \in 1 .. Len(s) /\ Len(s) \in 1 + 1 .. Len(s)
    BY <1>1
  <2>2. QED
    BY <1>2, <2>1, ObjectOfPart
<1>4. \A o \in ObjectsOf(s) : 1 <= o[1] /\ o[2] <= Len(s) /\ o = <<o[1], o[2]>>
  <2> SUFFICES ASSUME NEW o \in ObjectsOf(s)
               PROVE  1 <= o[1] /\ o[2] <= Len(s) /\ o = <<o[1], o[2]>>
    OBVIOUS
  <2>1. /\ o = <<o[1], o[2]>> /\ o[1] \in 1 .. Len(s) /\ o[2] \in o[1] + 1 .. Len(s)
    BY ObjectInAnswer
  <2>2. QED
    BY <1>1, <2>1
<1>5. w \in Outermost(s)
  <2> SUFFICES ASSUME NEW p \in ObjectsOf(s), p # w, p[1] <= 1, Len(s) <= p[2]
               PROVE  FALSE
    BY <1>3 DEF Outermost
  <2>1. p = <<p[1], p[2]>> /\ p[1] \in 1 .. Len(s) /\ p[2] \in p[1] + 1 .. Len(s)
    BY ObjectInAnswer
  <2>2. p[1] = 1 /\ p[2] = Len(s)
    BY <1>1, <2>1
  <2>3. QED
    BY <2>1, <2>2
<1>6. \A o \in Outermost(s) : o = w
  BY <1>3, <1>4 DEF Outermost
<1>7. Outermost(s) = {w}
  BY <1>5, <1>6
<1>8. QED
  BY <1>2, <1>5, <1>7, FS_Singleton

(* A fence is outside of every object, so that what it encloses is part of *)
(* no other one.                                                           *)
LEMMA FencedIsOutermost ==
  ASSUME NEW s \in Seq(Token), FencesOutside(s), NEW j \in 1 .. Len(s), IsFenced(s, j),
         IsObject(Piece(s, FencedMatches(s)[j]))
  PROVE  \E o \in Outermost(s) : SubSeq(s, o[1], o[2]) = Piece(s, FencedMatches(s)[j])
<1> DEFINE m == FencedMatches(s)[j]
           a == m.from
           b == m.to
           o == <<a, b>>
<1>1. /\ a = Open(s, j) /\ a \in j + 1 .. Len(s) /\ b \in FencedEnds(s, j)
      /\ b \in a + 1 .. Len(s) - 1
  BY FencedAtPlace
<1>2. Piece(s, m) = SubSeq(s, a, b)
  BY DEF Piece
<1>3. Len(s) \in Nat /\ DOMAIN s = 1 .. Len(s)
  OBVIOUS
<1> HIDE DEF m, a, b
<1>4. a \in 1 .. Len(s) /\ b \in a + 1 .. Len(s) /\ a \in Nat /\ b \in Nat
  BY <1>1, <1>3
<1>5. o \in ObjectsOf(s)
  BY <1>2, <1>4, ObjectOfPart DEF m
<1>6. s[j] = "tick" /\ s[b + 1] = "tick" /\ j \in 1 .. Len(s) /\ b + 1 \in 1 .. Len(s)
  BY <1>1, <1>3 DEF IsFenced, FencedEnds, Is
<1>7. a = j + 1 \/ (a = j + 2 /\ s[j + 1] = "json")
  BY <1>1 DEF Open, Is
<1>8. ASSUME NEW p \in ObjectsOf(s), p # o, p[1] <= a, b <= p[2]
      PROVE  FALSE
  <2>1. /\ p = <<p[1], p[2]>> /\ p[1] \in 1 .. Len(s) /\ p[2] \in p[1] + 1 .. Len(s)
        /\ s[p[1]] = "lbrace" /\ s[p[2]] = "rbrace"
    BY ObjectInAnswer
  <2>2. ~ Inside(s, j) /\ ~ Inside(s, b + 1)
    BY <1>6 DEF FencesOutside
  <2>3. ~ (p[1] < j /\ j < p[2]) /\ ~ (p[1] < b + 1 /\ b + 1 < p[2])
    BY <2>2 DEF Inside
  <2>4. p[1] # j /\ p[2] # b + 1
    BY <1>6, <2>1
  <2>5. p[1] \in Nat /\ p[2] \in Nat
    BY <1>3, <2>1
  <2>6. j < p[2]
    BY <1>1, <1>3, <1>4, <1>8, <2>5
  <2>7. p[1] > j
    BY <2>3, <2>4, <2>5, <2>6
  <2>8. p[1] = a
    BY <1>7, <1>8, <2>1, <2>5, <2>7
  <2>9. p[2] = b
    BY <1>4, <1>8, <2>3, <2>4, <2>5, <2>8
  <2>10. QED
    BY <1>8, <2>1, <2>8, <2>9
<1>9. o \in Outermost(s)
  BY <1>5, <1>8 DEF Outermost
<1>10. QED
  BY <1>2, <1>9 DEF m

(* If only one place begins an object that is closed, and it is closed by  *)
(* its first brace, the answer contains no other object.                   *)
LEMMA BracedIsAlone ==
  ASSUME NEW s \in Seq(Token), NEW j, OnlyMatch(s, BracedMatches(s), 1, j),
         IsObject(Piece(s, BracedMatches(s)[j]))
  PROVE  /\ \E o \in Outermost(s) : SubSeq(s, o[1], o[2]) = Piece(s, BracedMatches(s)[j])
         /\ Cardinality(Outermost(s)) = 1
<1> DEFINE m == BracedMatches(s)[j]
           b == m.to
           o == <<j, b>>
<1>1. Len(s) \in Nat /\ DOMAIN s = 1 .. Len(s)
  OBVIOUS
<1>2. j \in 1 .. Len(s) /\ IsBraced(s, j)
  BY BracedAtPlace DEF OnlyMatch
<1>3. /\ m.from = j /\ b \in BracedEnds(s, j) /\ b \in j + 1 .. Len(s)
      /\ m.next = b + 1 /\ \A k \in BracedEnds(s, j) : b <= k
  BY <1>2, BracedAtPlace
<1>4. Piece(s, m) = SubSeq(s, j, b)
  BY <1>3 DEF Piece
<1>5. /\ \A i \in 1 .. j - 1 : ~ IsBraced(s, i)
      /\ \A i \in b + 1 .. Len(s) : ~ IsBraced(s, i)
  <2>1. \A i \in 1 .. j - 1 : i \in 1 .. Len(s)
    BY <1>1, <1>2
  <2>2. \A i \in b + 1 .. Len(s) : i \in 1 .. Len(s)
    BY <1>1, <1>2, <1>3
  <2>3. \A i \in 1 .. j - 1 : BracedMatches(s)[i] = NoMatch
    BY DEF OnlyMatch
  <2>4. \A i \in b + 1 .. Len(s) : BracedMatches(s)[i] = NoMatch
    BY <1>3 DEF OnlyMatch, NoneFrom
  <2>5. \A i \in 1 .. Len(s) : BracedMatches(s)[i] # NoMatch <=> IsBraced(s, i)
    BY BracedAtPlace
  <2>6. QED
    BY <2>1, <2>2, <2>3, <2>4, <2>5
<1> HIDE DEF m, b
<1>6. /\ j \in Nat /\ b \in Nat /\ j < b /\ b <= Len(s) /\ b \in 1 .. Len(s)
      /\ IsObject(SubSeq(s, j, b))
  BY <1>1, <1>2, <1>3, <1>4 DEF m
<1>7. o \in ObjectsOf(s)
  BY <1>2, <1>3, <1>6, ObjectOfPart
<1>8. \A k \in j + 1 .. Len(s) : s[k] = "rbrace" => b <= k
  BY <1>1, <1>2, <1>3 DEF BracedEnds, Is
<1>9. \A i \in 1 .. Len(s), k \in 1 .. Len(s) :
         i < k /\ s[i] = "lbrace" /\ s[k] = "rbrace" => IsBraced(s, i)
  BY <1>1 DEF IsBraced, BracedEnds, Is
<1>10. ASSUME NEW p \in ObjectsOf(s)
       PROVE  p = o
  <2>1. /\ p = <<p[1], p[2]>> /\ p[1] \in 1 .. Len(s) /\ p[2] \in p[1] + 1 .. Len(s)
        /\ s[p[1]] = "lbrace" /\ s[p[2]] = "rbrace" /\ IsObject(SubSeq(s, p[1], p[2]))
    BY ObjectInAnswer
  <2>2. p[1] \in Nat /\ p[2] \in Nat /\ p[1] < p[2] /\ p[2] \in 1 .. Len(s)
    BY <1>1, <2>1
  <2>3. IsBraced(s, p[1])
    BY <1>9, <2>1, <2>2
  <2>4. p[1] >= j
    <3>1. p[1] \notin 1 .. j - 1
      BY <1>5, <2>3
    <3>2. QED
      BY <1>6, <2>1, <2>2, <3>1
  <2>5. p[1] <= b
    <3>1. p[1] \notin b + 1 .. Len(s)
      BY <1>5, <2>3
    <3>2. QED
      BY <1>1, <1>6, <2>1, <2>2, <3>1
  <2>6. p[1] = j
    <3> DEFINE t == SubSeq(s, j, b)
               n == p[1] - j + 1
    <3>1. j \in 1 .. Len(s) /\ b \in j .. Len(s)
      BY <1>1, <1>2, <1>6
    <3>2. /\ t \in Seq(Token) /\ Len(t) = b - j + 1
          /\ \A i \in 1 .. b - j + 1 : t[i] = s[j + i - 1]
      BY <3>1, PartOfAnswer
    <3>3. ASSUME NEW k \in 1 .. Len(t), t[k] = "rbrace"
          PROVE  k = Len(t)
      <4>1. s[j + k - 1] = "rbrace"
        BY <3>2, <3>3
      <4>2. k # 1
        BY <1>3, <1>6, <2>1, <3>2, <3>3, EndsOfObject
      <4>3. j + k - 1 \in j + 1 .. Len(s)
        BY <1>1, <1>6, <3>2, <4>2
      <4>4. b <= j + k - 1
        BY <1>8, <4>1, <4>3
      <4>5. QED
        BY <1>6, <3>2, <4>4
    <3>4. n \in 1 .. b - j + 1 /\ j + n - 1 = p[1]
      BY <1>6, <2>2, <2>4, <2>5
    <3>5. t[n] = "lbrace" /\ n \in 1 .. Len(t)
      BY <2>1, <3>2, <3>4
    <3>6. n = 1
      <4> HIDE DEF n, t
      <4> QED
        BY <1>6, <3>2, <3>3, <3>5, FlatObject DEF t
    <3>7. QED
      BY <1>6, <2>2, <3>6
  <2>7. p[2] = b
    <3>1. b <= p[2]
      BY <1>8, <2>1, <2>6
    <3>2. b \in j .. Len(s) /\ p[2] \in j .. Len(s) /\ j \in 1 .. Len(s)
      BY <1>1, <1>2, <1>6, <2>2, <2>6
    <3>3. ~ (b < p[2])
      BY <1>6, <2>1, <2>6, <3>2, ObjectsEndOnce
    <3>4. QED
      BY <1>6, <2>2, <3>1, <3>3
  <2>8. QED
    BY <2>1, <2>6, <2>7
<1>11. Outermost(s) = {o}
  BY <1>7, <1>10 DEF Outermost
<1>12. Cardinality(Outermost(s)) = 1
  BY <1>11, FS_Singleton
<1>13. SubSeq(s, o[1], o[2]) = Piece(s, BracedMatches(s)[j])
  BY <1>4 DEF m
<1>14. \E p \in Outermost(s) : SubSeq(s, p[1], p[2]) = Piece(s, BracedMatches(s)[j])
  BY <1>11, <1>13
<1>15. QED
  BY <1>12, <1>14

LEMMA WholeDecision ==
  ASSUME NEW s \in Seq(Token), Decision(s) # Error, FencesOutside(s)
  PROVE  /\ \E o \in Outermost(s) : SubSeq(s, o[1], o[2]) = Decision(s)
         /\ Fences(s) = <<>> => Cardinality(Outermost(s)) = 1
<1>1. IsObject(Decision(s))
  BY WhatIsTaken
<1>2. CASE IsWhole(s) /\ Decision(s) = s
  <2>1. /\ <<1, Len(s)>> \in Outermost(s) /\ SubSeq(s, 1, Len(s)) = s
        /\ Cardinality(Outermost(s)) = 1
    BY <1>1, <1>2, WholeIsOutermost
  <2>2. QED
    BY <1>2, <2>1
<1>3. CASE OnlyOne(Fences(s)) /\ Decision(s) = Fences(s)[1]
  <2>1. PICK j : /\ OnlyMatch(s, FencedMatches(s), 1, j)
                 /\ Fences(s)[1] = Piece(s, FencedMatches(s)[j])
    BY <1>3, FencesFound, TheOnlyOne
  <2>2. j \in 1 .. Len(s) /\ IsFenced(s, j)
    BY <2>1, FencedAtPlace DEF OnlyMatch
  <2>3. \E o \in Outermost(s) : SubSeq(s, o[1], o[2]) = Decision(s)
    BY <1>1, <1>3, <2>1, <2>2, FencedIsOutermost
  <2>4. Fences(s) # <<>>
    <3>1. Len(<<>>) # 1
      OBVIOUS
    <3>2. QED
      BY <1>3, <3>1, Zenon DEF OnlyOne
  <2>5. QED
    BY <2>3, <2>4
<1>4. CASE Fences(s) = <<>> /\ OnlyOne(Braced(s)) /\ Decision(s) = Braced(s)[1]
  <2>1. PICK j : /\ OnlyMatch(s, BracedMatches(s), 1, j)
                 /\ Braced(s)[1] = Piece(s, BracedMatches(s)[j])
    BY <1>4, BracedFound, TheOnlyOne
  <2>2. QED
    BY <1>1, <1>4, <2>1, BracedIsAlone
<1>5. QED
  BY <1>2, <1>3, <1>4, WhatIsTaken

-----------------------------------------------------------------------------
(* What the search takes if there is one match only.                       *)
LEMMA FencedIsTaken ==
  ASSUME NEW s \in Seq(Token), ~ IsWhole(s),
         NEW j, OnlyMatch(s, FencedMatches(s), 1, j),
         IsObject(Piece(s, FencedMatches(s)[j]))
  PROVE  Decision(s) = Piece(s, FencedMatches(s)[j])
<1> DEFINE p == Piece(s, FencedMatches(s)[j])
<1>1. Fences(s) = <<p>>
  BY FencesFound DEF IsFound
<1> HIDE DEF p
<1>2. OnlyOne(Fences(s)) /\ Fences(s)[1] = p
  BY <1>1 DEF OnlyOne
<1>3. ExtractJson(s) = p
  BY <1>2, Zenon DEF ExtractJson, IsWhole
<1>4. QED
  BY <1>3, Zenon DEF Decision, p

LEMMA BracedIsTaken ==
  ASSUME NEW s \in Seq(Token), ~ IsWhole(s), NoneFrom(s, FencedMatches(s), 1),
         NEW j, OnlyMatch(s, BracedMatches(s), 1, j),
         IsObject(Piece(s, BracedMatches(s)[j]))
  PROVE  Decision(s) = Piece(s, BracedMatches(s)[j])
<1> DEFINE p == Piece(s, BracedMatches(s)[j])
<1>1. Fences(s) = <<>>
  BY FencesFound DEF IsFound
<1>2. Braced(s) = <<p>>
  BY BracedFound DEF IsFound
<1> HIDE DEF p
<1>3. OnlyOne(Braced(s)) /\ Braced(s)[1] = p
  BY <1>2 DEF OnlyOne
<1>4. ~ OnlyOne(Fences(s))
  BY <1>1 DEF OnlyOne
<1>5. ExtractJson(s) = p
  BY <1>1, <1>3, <1>4, Zenon DEF ExtractJson, IsWhole, Braced, BracedMatches
<1>6. QED
  BY <1>5, Zenon DEF Decision, p

LEMMA WholeIsTaken ==
  ASSUME NEW s, IsWhole(s), IsObject(s)
  PROVE  Decision(s) = s
  BY Zenon DEF Decision, ExtractJson, IsWhole

LEMMA TwoElements ==
  ASSUME NEW x, NEW y, x # y
  PROVE  IsFiniteSet({x, y}) /\ Cardinality({x, y}) = 2
<1> DEFINE S == {x}
           T == {x, y}
<1>1. IsFiniteSet(S) /\ Cardinality(S) = 1
  BY FS_Singleton
<1>2. y \notin S /\ T = S \cup {y}
  OBVIOUS
<1> HIDE DEF S, T
<1>3. IsFiniteSet(S \cup {y}) /\ Cardinality(S \cup {y}) = Cardinality(S) + 1
  BY <1>1, <1>2, FS_AddElement
<1>4. Cardinality(S \cup {y}) = 2
  BY <1>1, <1>3
<1>5. IsFiniteSet(T) /\ Cardinality(T) = 2
  BY <1>2, <1>3, <1>4
<1>6. QED
  BY <1>5 DEF T

(* The object of an answer without backticks and with two braces.          *)
LEMMA FlatIsFound ==
  ASSUME NEW s \in Seq(Token), NEW o \in ObjectsOf(s), Ticks(s) = {},
         Cardinality(Braces(s)) = 2
  PROVE  Decision(s) = SubSeq(s, o[1], o[2])
<1> DEFINE a == o[1]
           b == o[2]
<1>1. /\ Len(s) \in Nat /\ a \in 1 .. Len(s) /\ b \in a + 1 .. Len(s)
      /\ IsObject(SubSeq(s, a, b)) /\ s[a] = "lbrace" /\ s[b] = "rbrace"
  BY ObjectInAnswer
<1>2. DOMAIN s = 1 .. Len(s)
  OBVIOUS
<1> HIDE DEF a, b
<1>3. a \in Nat /\ b \in Nat /\ a < b /\ b \in 1 .. Len(s)
  BY <1>1
<1>4. Braces(s) = {a, b}
  <2>1. {a, b} \subseteq Braces(s)
    BY <1>1, <1>3 DEF Braces
  <2>2. Cardinality({a, b}) = 2 /\ IsFiniteSet({a, b})
    <3>1. a # b
      BY <1>3
    <3>2. QED
      BY <3>1, TwoElements
  <2>3. IsFiniteSet(Braces(s))
    <3>1. IsFiniteSet(1 .. Len(s))
      BY <1>1, FS_Interval
    <3>2. QED
      BY <3>1, FS_Subset DEF Braces
  <2> DEFINE S == {a, b}
             T == Braces(s)
  <2>4. S \subseteq T /\ IsFiniteSet(T) /\ Cardinality(S) = Cardinality(T)
    BY <2>1, <2>2, <2>3
  <2> HIDE DEF S, T
  <2>5. S = T
    BY <2>4, FS_Subset
  <2>6. QED
    BY <2>5 DEF S, T
<1>5. \A k \in 1 .. Len(s) : /\ s[k] = "lbrace" => k = a
                             /\ s[k] = "rbrace" => k = b
                             /\ s[k] # "tick"
  <2> SUFFICES ASSUME NEW k \in 1 .. Len(s)
               PROVE  /\ s[k] = "lbrace" => k = a
                      /\ s[k] = "rbrace" => k = b
                      /\ s[k] # "tick"
    OBVIOUS
  <2>1. s[k] # "tick"
    BY DEF Ticks
  <2>2. s[k] \in {"lbrace", "rbrace"} => k = a \/ k = b
    BY <1>4 DEF Braces
  <2>3. QED
    BY <1>1, <2>1, <2>2
<1>6. CASE IsWhole(s)
  <2>1. a = 1 /\ b = Len(s)
    BY <1>2, <1>5, <1>6 DEF IsWhole, Is
  <2>2. SubSeq(s, a, b) = s
    BY <2>1, SubSeqFull
  <2>3. QED
    BY <1>1, <1>6, <2>2, WholeIsTaken DEF a, b
<1>7. CASE ~ IsWhole(s)
  <2>1. NoneFrom(s, FencedMatches(s), 1)
    <3>1. \A i \in 1 .. Len(s) : ~ IsFenced(s, i)
      BY <1>5 DEF IsFenced, Is
    <3>2. QED
      BY <3>1, FencedAtPlace DEF NoneFrom
  <2>2. BracedEnds(s, a) = {b}
    <3>1. \A k : k \in BracedEnds(s, a) => k = b
      BY <1>1, <1>3, <1>5 DEF BracedEnds, Is
    <3>2. b \in BracedEnds(s, a)
      BY <1>1, <1>2, <1>3 DEF BracedEnds, Is
    <3>3. QED
      BY <3>1, <3>2
  <2>3. IsBraced(s, a) /\ \A i \in 1 .. Len(s) : IsBraced(s, i) => i = a
    BY <1>1, <1>2, <1>5, <2>2 DEF IsBraced, Is
  <2> DEFINE m == BracedMatches(s)[a]
  <2>4. m # NoMatch /\ m.from = a /\ m.to = b /\ m.next = b + 1
    <3>1. m # NoMatch /\ m.from = a /\ m.to \in BracedEnds(s, a) /\ m.next = m.to + 1
      BY <1>1, <2>3, BracedAtPlace
    <3> HIDE DEF m
    <3>2. QED
      BY <2>2, <3>1
  <2>5. OnlyMatch(s, BracedMatches(s), 1, a)
    <3>1. \A k \in 1 .. a - 1 : k \in 1 .. Len(s) /\ k # a
      BY <1>1, <1>3
    <3>2. \A k \in b + 1 .. Len(s) : k \in 1 .. Len(s) /\ k # a
      BY <1>1, <1>3
    <3>3. \A k \in 1 .. Len(s) : k # a => BracedMatches(s)[k] = NoMatch
      BY <2>3, BracedAtPlace
    <3>4. QED
      BY <1>1, <2>4, <3>1, <3>2, <3>3 DEF OnlyMatch, NoneFrom
  <2>6. Piece(s, m) = SubSeq(s, a, b)
    BY <2>4 DEF Piece
  <2>7. QED
    BY <1>1, <1>7, <2>1, <2>5, <2>6, BracedIsTaken DEF a, b, m
<1>8. QED
  BY <1>6, <1>7

(* The object of an answer between two backticks, no brace being outside.  *)
LEMMA FencedIsFound ==
  ASSUME NEW s \in Seq(Token), NEW o \in ObjectsOf(s), Fenced(s, o),
         Braces(s) \subseteq o[1] .. o[2]
  PROVE  Decision(s) = SubSeq(s, o[1], o[2])
<1> DEFINE a == o[1]
           b == o[2]
           first == IF Is(s, a - 1, "json") THEN a - 2 ELSE a - 1
<1>1. /\ Len(s) \in Nat /\ a \in 1 .. Len(s) /\ b \in a + 1 .. Len(s)
      /\ IsObject(SubSeq(s, a, b)) /\ s[a] = "lbrace" /\ s[b] = "rbrace"
  BY ObjectInAnswer
<1>2. DOMAIN s = 1 .. Len(s)
  OBVIOUS
<1>3. first > 0 /\ Ticks(s) = {first, b + 1}
  BY DEF Fenced
<1>4. \A k \in Braces(s) : k \in a .. b
  OBVIOUS
<1> HIDE DEF a, b
<1>5. a \in Nat /\ b \in Nat /\ a < b /\ b \in 1 .. Len(s)
  BY <1>1
<1>6. /\ first \in Nat /\ first < a
      /\ first = a - 1 \/ (first = a - 2 /\ s[a - 1] = "json")
  <2>1. Is(s, a - 1, "json") => s[a - 1] = "json"
    BY DEF Is
  <2>2. first = a - 1 \/ (first = a - 2 /\ s[a - 1] = "json")
    BY <2>1, Zenon
  <2>3. first > 0
    BY <1>3
  <2> HIDE DEF first
  <2>4. QED
    BY <1>5, <2>2, <2>3
<1>7. /\ first \in 1 .. Len(s) /\ s[first] = "tick"
      /\ b + 1 \in 1 .. Len(s) /\ s[b + 1] = "tick"
  BY <1>3 DEF Ticks
<1>8. Open(s, first) = a
  <2>1. CASE Is(s, a - 1, "json")
    <3>1. first = a - 2 /\ first + 1 = a - 1 /\ first + 2 = a
      BY <1>5, <2>1
    <3>2. QED
      BY <2>1, <3>1 DEF Open
  <2>2. CASE ~ Is(s, a - 1, "json")
    <3>1. first + 1 = a
      BY <1>5, <2>2
    <3>2. ~ Is(s, a, "json")
      BY <1>1 DEF Is
    <3>3. QED
      BY <3>1, <3>2 DEF Open
  <2>3. QED
    BY <2>1, <2>2
<1> HIDE DEF first
<1>9. ~ IsWhole(s)
  <2>1. IsWhole(s) => 1 \in Braces(s)
    BY <1>2 DEF IsWhole, Is, Braces
  <2>2. 1 \notin a .. b
    BY <1>3, <1>5, <1>6
  <2>3. QED
    BY <1>4, <2>1, <2>2
<1>10. FencedEnds(s, first) = {b}
  <2>1. ASSUME NEW k \in FencedEnds(s, first)
        PROVE  k = b
    <3>1. k \in a + 1 .. Len(s) /\ k + 1 \in Ticks(s)
      BY <1>2, <1>8 DEF FencedEnds, Is, Ticks
    <3>2. k + 1 = first \/ k + 1 = b + 1
      BY <1>3, <3>1
    <3>3. QED
      BY <1>1, <1>5, <1>6, <3>1, <3>2
  <2>2. b \in FencedEnds(s, first)
    BY <1>1, <1>2, <1>5, <1>7, <1>8 DEF FencedEnds, Is
  <2>3. QED
    BY <2>1, <2>2
<1>11. IsFenced(s, first)
  BY <1>1, <1>2, <1>7, <1>8, <1>10 DEF IsFenced, Is
<1>12. ASSUME NEW i \in 1 .. Len(s), IsFenced(s, i)
       PROVE  i = first
  <2>1. i \in Ticks(s)
    BY <1>12 DEF IsFenced, Is, Ticks
  <2>2. i # b + 1
    <3>1. Open(s, i) \in Braces(s)
      BY <1>2, <1>12 DEF IsFenced, Is, Braces
    <3>2. Open(s, i) = i + 1 \/ Open(s, i) = i + 2
      BY DEF Open
    <3>3. Open(s, i) \in a .. b
      BY <1>4, <3>1
    <3>4. QED
      BY <1>1, <1>5, <3>2, <3>3
  <2>3. QED
    BY <1>3, <2>1, <2>2
<1> DEFINE m == FencedMatches(s)[first]
<1>13. m # NoMatch /\ m.from = a /\ m.to = b /\ m.next = b + 2
  <2>1. /\ m # NoMatch /\ m.from = Open(s, first) /\ m.to \in FencedEnds(s, first)
        /\ m.next = m.to + 2
    BY <1>7, <1>11, FencedAtPlace
  <2> HIDE DEF m
  <2>2. QED
    BY <1>8, <1>10, <2>1
<1>14. OnlyMatch(s, FencedMatches(s), 1, first)
  <2>1. \A k \in 1 .. first - 1 : k \in 1 .. Len(s) /\ k # first
    BY <1>1, <1>5, <1>6
  <2>2. \A k \in b + 2 .. Len(s) : k \in 1 .. Len(s) /\ k # first
    BY <1>1, <1>5, <1>6
  <2>3. \A k \in 1 .. Len(s) : k # first => FencedMatches(s)[k] = NoMatch
    BY <1>12, FencedAtPlace
  <2>4. QED
    BY <1>7, <1>13, <2>1, <2>2, <2>3 DEF OnlyMatch, NoneFrom
<1>15. Piece(s, m) = SubSeq(s, a, b)
  BY <1>13 DEF Piece
<1>16. QED
  BY <1>1, <1>9, <1>14, <1>15, FencedIsTaken DEF a, b, m

-----------------------------------------------------------------------------
(* The answers of the model, of any length.                                *)
LEMMA AnswerIsTokens == Spec => [](content \in Seq(Token))
<1>1. Init => content \in Seq(Token)
  BY DEF Init
<1>2. content \in Seq(Token) /\ [Next]_content => (content \in Seq(Token))'
  BY DEF Next
<1>3. QED
  BY <1>1, <1>2, PTL DEF Spec

(* What decide returns is an outermost object of the answer and, if it was *)
(* not fenced, the only one (_extract_json, _OBJECT_PATTERN).  Of answers  *)
(* of any length.                                                          *)
THEOREM DecisionIsAlwaysWhole == Spec => []DecisionIsWhole
<1>1. content \in Seq(Token) => DecisionIsWhole
  BY WholeDecision DEF DecisionIsWhole
<1>2. QED
  BY <1>1, AnswerIsTokens, PTL

(* The only object of an answer is what decide returns if it is fenced, or *)
(* if it contains no other object and no backtick (_extract_json).  Of     *)
(* answers of any length.                                                  *)
THEOREM FencedOrFlatIsAlwaysFound == Spec => []FencedOrFlatIsFound
<1>1. ASSUME content \in Seq(Token)
      PROVE  FencedOrFlatIsFound
  <2> SUFFICES ASSUME NEW o \in ObjectsOf(content), Lone(content, o),
                      \/ Fenced(content, o)
                      \/ Ticks(content) = {} /\ Cardinality(Braces(content)) = 2
               PROVE  Decision(content) = SubSeq(content, o[1], o[2])
    BY DEF FencedOrFlatIsFound, Found
  <2>1. Braces(content) \subseteq o[1] .. o[2]
    BY DEF Lone
  <2>2. CASE Fenced(content, o)
    BY <1>1, <2>1, <2>2, FencedIsFound
  <2>3. CASE Ticks(content) = {} /\ Cardinality(Braces(content)) = 2
    BY <1>1, <2>3, FlatIsFound
  <2>4. QED
    BY <2>2, <2>3
<1>2. QED
  BY <1>1, AnswerIsTokens, PTL
=============================================================================
