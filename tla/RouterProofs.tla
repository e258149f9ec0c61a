---------------------------- MODULE RouterProofs ----------------------------
(***************************************************************************)
(* What match_api decides, for every set of APIs and paths.                *)
(*                                                                         *)
(* more_specific compares segment by segment and is only a partial order;  *)
(* it is total on the patterns that match one path and differ in shape,    *)
(* which is what validate_routes guarantees of two candidates.  Hence the  *)
(* loop invariant BestInv: the endpoint kept beats every candidate seen.   *)
(***************************************************************************)
EXTENDS Router, WellFoundedInduction, TLAPS

Pattern == Seq(Segment)

-----------------------------------------------------------------------------

\* The types of an API and of a path.
LEMMA ArgumentTypes ==
    /\ \A a \in Apis : a \in Seq([method : Method, pattern : Seq(Segment)])
    /\ \A p \in Paths : p \in Seq(Text)
BY DEF Apis, Paths

-----------------------------------------------------------------------------
(* The order on patterns.                                                  *)

\* A rank is positive exactly within the pattern.
LEMMA RankType ==
    ASSUME NEW p \in Pattern, NEW i \in Nat
    PROVE  /\ Rank(p, i) \in 0..3
           /\ Rank(p, i) = 0 <=> i \notin DOMAIN p
<1>1. CASE i \notin DOMAIN p
  BY <1>1 DEF Rank
<1>2. CASE i \in DOMAIN p
  <2>1. p[i].kind \in Kind
    <3>1. p[i] \in Segment
      BY <1>2 DEF Pattern
    <3>2. QED
      BY <3>1 DEF Segment
  <2>2. QED
    BY <1>2, <2>1 DEF Rank, Kind
<1>3. QED
  BY <1>1, <1>2

\* Being more specific is transitive: the earlier of the two first differences
\* decides.
LEMMA MoreSpecificTransitive ==
    ASSUME NEW p \in Pattern, NEW q \in Pattern, NEW r \in Pattern,
           MoreSpecific(p, q), MoreSpecific(q, r)
    PROVE  MoreSpecific(p, r)
<1>1. PICK i \in DOMAIN p : /\ \A n \in 1..(i - 1) : Rank(p, n) = Rank(q, n)
                            /\ Rank(p, i) > Rank(q, i)
  BY DEF MoreSpecific
<1>2. PICK j \in DOMAIN q : /\ \A n \in 1..(j - 1) : Rank(q, n) = Rank(r, n)
                            /\ Rank(q, j) > Rank(r, j)
  BY DEF MoreSpecific
<1>3. /\ i \in Nat \ {0} /\ j \in Nat \ {0}
      /\ i \in 1..Len(p) /\ DOMAIN p = 1..Len(p) /\ Len(p) \in Nat
  BY DEF Pattern
<1>4. \A n \in Nat : /\ Rank(p, n) \in 0..3
                     /\ Rank(q, n) \in 0..3
                     /\ Rank(r, n) \in 0..3
  BY RankType
<1>5. \A n \in Nat : Rank(p, n) = 0 <=> n \notin DOMAIN p
  BY RankType
<1>6. CASE i <= j
  <2>1. Rank(p, i) > Rank(r, i)
    <3>1. Rank(q, i) >= Rank(r, i)
      BY <1>2, <1>3, <1>4, <1>6
    <3>2. QED
      BY <1>1, <1>3, <1>4, <3>1
  <2>2. \A n \in 1..(i - 1) : Rank(p, n) = Rank(r, n)
    BY <1>1, <1>2, <1>3, <1>6
  <2>3. QED
    BY <2>1, <2>2 DEF MoreSpecific
<1>7. CASE j < i
  <2>1. Rank(p, j) > Rank(r, j)
    <3>1. Rank(p, j) = Rank(q, j)
      BY <1>1, <1>3, <1>7
    <3>2. QED
      BY <1>2, <1>3, <1>4, <3>1
  <2>2. j \in DOMAIN p
    BY <1>3, <1>7
  <2>3. \A n \in 1..(j - 1) : Rank(p, n) = Rank(r, n)
    BY <1>1, <1>2, <1>3, <1>7
  <2>4. QED
    BY <2>1, <2>2, <2>3 DEF MoreSpecific
<1>8. QED
  BY <1>3, <1>6, <1>7

\* Two patterns of the same ranks that match one path have the same shape: where
\* both have a literal, both literals are the path's own segment.
LEMMA SameRanksSameShape ==
    ASSUME NEW p \in Pattern, NEW q \in Pattern, NEW s,
           Matches(p, s), Matches(q, s),
           \A i \in Nat \ {0} : Rank(p, i) = Rank(q, i)
    PROVE  SameShape(p, q)
<1>1. /\ DOMAIN p = 1..Len(p) /\ Len(p) \in Nat
      /\ DOMAIN q = 1..Len(q) /\ Len(q) \in Nat
  BY DEF Pattern
<1>2. \A i \in Nat \ {0} : i \in DOMAIN p <=> i \in DOMAIN q
  BY RankType
<1>3. Len(p) = Len(q)
  <2>1. ~(Len(p) < Len(q))
    <3>1. SUFFICES ASSUME Len(p) < Len(q) PROVE FALSE
      OBVIOUS
    <3>2. Len(q) \in DOMAIN q /\ Len(q) \notin DOMAIN p /\ Len(q) \in Nat \ {0}
      BY <1>1, <3>1
    <3>3. QED
      BY <1>2, <3>2
  <2>2. ~(Len(q) < Len(p))
    <3>1. SUFFICES ASSUME Len(q) < Len(p) PROVE FALSE
      OBVIOUS
    <3>2. Len(p) \in DOMAIN p /\ Len(p) \notin DOMAIN q /\ Len(p) \in Nat \ {0}
      BY <1>1, <3>1
    <3>3. QED
      BY <1>2, <3>2
  <2>3. Len(p) \in Nat /\ Len(q) \in Nat
    BY <1>1
  <2>4. QED
    BY ONLY <2>1, <2>2, <2>3
<1>4. ASSUME NEW i \in DOMAIN p
      PROVE  /\ p[i].kind = q[i].kind
             /\ p[i].kind = "literal" => p[i].text = q[i].text
  <2>1. i \in DOMAIN q /\ i \in Nat \ {0}
    BY <1>1, <1>3, <1>4
  <2>2. p[i].kind \in Kind /\ q[i].kind \in Kind
    <3>1. p[i] \in Segment /\ q[i] \in Segment
      BY <1>4, <2>1 DEF Pattern
    <3>2. QED
      BY <3>1 DEF Segment
  <2>3. Rank(p, i) = Rank(q, i)
    BY <2>1
  <2>4. p[i].kind = q[i].kind
    BY <1>4, <2>1, <2>2, <2>3 DEF Rank, Kind
  <2>5. SegmentFits(p[i], s[i]) /\ SegmentFits(q[i], s[i])
    BY <1>4, <2>1 DEF Matches
  <2>6. QED
    BY <2>4, <2>5 DEF SegmentFits
<1>5. QED
  BY <1>3, <1>4 DEF SameShape

\* Of two patterns of different shapes that match one path, one is more specific.
LEMMA MoreSpecificTotal ==
    ASSUME NEW p \in Pattern, NEW q \in Pattern, NEW s,
           Matches(p, s), Matches(q, s), ~SameShape(p, q)
    PROVE  MoreSpecific(p, q) \/ MoreSpecific(q, p)
<1> DEFINE D == {i \in Nat : i # 0 /\ Rank(p, i) # Rank(q, i)}
<1>1. D # {}
  <2>1. \E i \in Nat \ {0} : Rank(p, i) # Rank(q, i)
    BY SameRanksSameShape
  <2>2. QED
    BY <2>1
<1>2. D \subseteq Nat
  OBVIOUS
<1>3. PICK i \in D : \A n \in D : ~(<<n, i>> \in OpToRel(<, Nat))
  <2> HIDE DEF D
  <2>1. QED
    BY <1>1, <1>2, NatLessThanWellFounded, WFMin
<1>4. i \in Nat \ {0} /\ Rank(p, i) # Rank(q, i)
  OBVIOUS
<1>5. \A n \in 1..(i - 1) : Rank(p, n) = Rank(q, n)
  <2>1. SUFFICES ASSUME NEW n \in 1..(i - 1), Rank(p, n) # Rank(q, n)
                 PROVE  FALSE
    OBVIOUS
  <2>2. n \in Nat /\ n # 0 /\ n < i
    BY <1>4, <2>1
  <2>3. n \in D
    BY <2>1, <2>2
  <2>4. <<n, i>> \in OpToRel(<, Nat)
    BY <1>4, <2>2 DEF OpToRel
  <2>5. QED
    BY <1>3, <2>3, <2>4
<1>6. /\ Rank(p, i) \in 0..3 /\ Rank(q, i) \in 0..3
      /\ Rank(p, i) = 0 <=> i \notin DOMAIN p
      /\ Rank(q, i) = 0 <=> i \notin DOMAIN q
  BY <1>4, RankType
<1>7. CASE Rank(p, i) > Rank(q, i)
  <2>1. i \in DOMAIN p
    BY <1>6, <1>7
  <2>2. QED
    BY <1>5, <1>7, <2>1 DEF MoreSpecific
<1>8. CASE Rank(q, i) > Rank(p, i)
  <2>1. i \in DOMAIN q
    BY <1>6, <1>8
  <2>2. QED
    BY <1>5, <1>8, <2>1 DEF MoreSpecific
<1>9. QED
  BY <1>4, <1>6, <1>7, <1>8

-----------------------------------------------------------------------------
(* The order on the candidates of one request.                             *)

\* The state the arguments of match_api put it in, for as long as it runs.
ArgumentsOK == api \in Apis /\ method \in Method /\ path \in Paths /\ ValidRoutes(api)

\* An endpoint has a method and a pattern.
LEMMA EndpointType ==
    ASSUME ArgumentsOK, NEW i \in DOMAIN api
    PROVE  /\ api[i].method \in Method
           /\ api[i].pattern \in Pattern
           /\ i \in Nat \ {0}
<1>1. api \in Seq([method : Method, pattern : Seq(Segment)])
  BY ArgumentTypes DEF ArgumentsOK
<1> DEFINE E == [method : Method, pattern : Seq(Segment)]
<1>2. api[i] \in E
  <2> HIDE DEF E
  <2>1. api \in Seq(E)
    BY <1>1 DEF E
  <2>2. QED
    BY <2>1
<1>3. i \in Nat \ {0}
  <2> HIDE DEF E
  <2>1. api \in Seq(E)
    BY <1>1 DEF E
  <2>2. QED
    BY <2>1
<1>4. QED
  BY <1>2, <1>3 DEF Pattern

\* What it takes to be a candidate for the request at hand.
LEMMA CandidateIs ==
    ASSUME NEW i
    PROVE  i \in Candidates(method) <=>
               i \in DOMAIN api /\ PathMatches(i) /\ (Exact(i) \/ Fallback(i))
BY DEF Candidates, Exact, Fallback

\* Two candidates of the same exactness have the same method, so they differ in
\* shape, and one of them beats the other.
LEMMA BeatsTotal ==
    ASSUME ArgumentsOK, NEW i \in Candidates(method), NEW j \in Candidates(method),
           i # j
    PROVE  Beats(i, j) \/ Beats(j, i)
<1>1. /\ i \in DOMAIN api /\ PathMatches(i) /\ (Exact(i) \/ Fallback(i))
      /\ j \in DOMAIN api /\ PathMatches(j) /\ (Exact(j) \/ Fallback(j))
  BY CandidateIs
<1>2. /\ api[i].pattern \in Pattern /\ api[j].pattern \in Pattern
      /\ i \in Nat /\ j \in Nat
  BY <1>1, EndpointType
<1>3. CASE Exact(i) <=> Exact(j)
  <2>1. api[i].method = api[j].method
    BY <1>1, <1>3 DEF Exact, Fallback
  <2>2. ~SameShape(api[i].pattern, api[j].pattern)
    <3>1. i < j \/ j < i
      BY <1>2
    <3>2. CASE i < j
      BY <1>1, <2>1, <3>2 DEF ArgumentsOK, ValidRoutes
    <3>3. CASE j < i
      <4>1. ~SameShape(api[j].pattern, api[i].pattern)
        BY <1>1, <2>1, <3>3 DEF ArgumentsOK, ValidRoutes
      <4>2. DOMAIN api[i].pattern = 1..Len(api[i].pattern)
        BY <1>2 DEF Pattern
      <4>3. DOMAIN api[j].pattern = 1..Len(api[j].pattern)
        BY <1>2 DEF Pattern
      <4>4. QED
        BY <4>1, <4>2, <4>3 DEF SameShape
    <3>4. QED
      BY <3>1, <3>2, <3>3
  <2>3. MoreSpecific(api[i].pattern, api[j].pattern)
          \/ MoreSpecific(api[j].pattern, api[i].pattern)
    BY <1>1, <1>2, <2>2, MoreSpecificTotal DEF PathMatches
  <2>4. QED
    BY <1>3, <2>3 DEF Beats
<1>4. CASE ~(Exact(i) <=> Exact(j))
  BY <1>4 DEF Beats
<1>5. QED
  BY <1>3, <1>4

\* Beating is transitive.
LEMMA BeatsTransitive ==
    ASSUME ArgumentsOK, NEW i \in DOMAIN api, NEW j \in DOMAIN api, NEW k \in DOMAIN api,
           Beats(i, j), Beats(j, k)
    PROVE  Beats(i, k)
<1>1. /\ api[i].pattern \in Pattern
      /\ api[j].pattern \in Pattern
      /\ api[k].pattern \in Pattern
  BY EndpointType
<1>2. MoreSpecific(api[i].pattern, api[j].pattern)
        /\ MoreSpecific(api[j].pattern, api[k].pattern)
          => MoreSpecific(api[i].pattern, api[k].pattern)
  BY <1>1, MoreSpecificTransitive
<1>3. QED
  BY <1>2 DEF Beats

-----------------------------------------------------------------------------
(* The loop invariant.                                                     *)

Seen == 1..(index - 1)

ScanInv ==
    /\ hasPath <=> \E i \in Seen : PathMatches(i)
    /\ explicitOptions <=> \E i \in Seen : PathMatches(i) /\ method = "options" /\ Exact(i)
    /\ allow = {m \in Method : \E i \in Seen : PathMatches(i) /\ m \in OffersOf(api[i])}

BestInv ==
    /\ best = 0 => \A i \in Seen : i \notin Candidates(method)
    /\ best # 0 => /\ best \in Seen
                   /\ best \in Candidates(method)
                   /\ bestExact <=> Exact(best)
                   /\ headFallback <=> Fallback(best)
                   /\ \A i \in Seen : i \in Candidates(method) /\ i # best => Beats(best, i)

DecidedInv ==
    outcome # "none" =>
        /\ index = Len(api) + 1
        /\ outcome = "found" <=> best # 0 /\ (method = "options" /\ hasPath => explicitOptions)

RouterInv == RouterTypeOK /\ ValidRoutes(api) /\ ScanInv /\ BestInv /\ DecidedInv

\* Nothing has been seen, and nothing is claimed, at the start.
LEMMA InitRouterInv == RouterInit => RouterInv
<1> SUFFICES ASSUME RouterInit PROVE RouterInv
  OBVIOUS
<1> USE DEF RouterInit
<1>1. Len(api) \in Nat
  BY ArgumentTypes
<1>2. RouterTypeOK /\ ValidRoutes(api)
  <2>1. index \in 1..(Len(api) + 1) /\ best \in 0..(index - 1)
    BY <1>1
  <2>2. QED
    BY <2>1 DEF RouterTypeOK
<1>3. Seen = {}
  BY DEF Seen
<1>4. ScanInv /\ BestInv /\ DecidedInv
  BY <1>3 DEF ScanInv, BestInv, DecidedInv
<1>5. QED
  BY <1>2, <1>4 DEF RouterInv

\* What a step of the scan does to the endpoints seen; the arguments stay.
LEMMA SeenGrows ==
    ASSUME RouterInv, index <= Len(api), index' = index + 1,
           UNCHANGED <<api, method, path>>
    PROVE  /\ Seen' = Seen \cup {index}
           /\ index \notin Seen
           /\ index \in DOMAIN api
           /\ index \in Nat \ {0}
           /\ Len(api) \in Nat
           /\ index' \in 1..(Len(api) + 1)'
<1>1. Len(api) \in Nat /\ DOMAIN api = 1..Len(api)
  BY ArgumentTypes DEF RouterInv, RouterTypeOK
<1>2. index \in 1..(Len(api) + 1)
  BY DEF RouterInv, RouterTypeOK
<1>3. QED
  BY <1>1, <1>2 DEF Seen

\* The predicates of an endpoint depend on the arguments only.
LEMMA ArgumentsStay ==
    ASSUME UNCHANGED <<api, method, path>>
    PROVE  /\ \A i : PathMatches(i)' <=> PathMatches(i)
           /\ \A i : Exact(i)' <=> Exact(i)
           /\ \A i : Fallback(i)' <=> Fallback(i)
           /\ \A i, j : Beats(i, j)' <=> Beats(i, j)
           /\ Candidates(method)' = Candidates(method)
           /\ ValidRoutes(api)' <=> ValidRoutes(api)
BY DEF PathMatches, Exact, Fallback, Beats, Candidates, ValidRoutes

\* An endpoint whose path does not match changes nothing.
LEMMA SkipInv == RouterInv /\ Skip => RouterInv'
<1> SUFFICES ASSUME RouterInv, Skip PROVE RouterInv'
  OBVIOUS
<1>1. UNCHANGED <<api, method, path>> /\ index <= Len(api) /\ index' = index + 1
  BY DEF Skip
<1>2. /\ Seen' = Seen \cup {index} /\ index \in Nat \ {0} /\ Len(api) \in Nat
      /\ index' \in 1..(Len(api) + 1)'
  BY <1>1, SeenGrows
<1>3. RouterTypeOK' /\ ValidRoutes(api)'
  BY <1>1, <1>2, ArgumentsStay DEF RouterInv, RouterTypeOK, Skip
<1>4. ~PathMatches(index) /\ index \notin Candidates(method)
  BY DEF Skip, PathMatches, Candidates
<1>5. ScanInv'
  BY <1>1, <1>2, <1>4, ArgumentsStay DEF RouterInv, ScanInv, Skip
<1>6. BestInv'
  BY <1>1, <1>2, <1>4, ArgumentsStay DEF RouterInv, BestInv, Skip
<1>7. DecidedInv'
  BY <1>1, <1>2 DEF RouterInv, DecidedInv, Skip
<1>8. QED
  BY <1>3, <1>5, <1>6, <1>7 DEF RouterInv

\* The choice after one more matching endpoint.
LEMMA ConsiderBest ==
    ASSUME RouterInv, Consider
    PROVE  BestInv' /\ best' \in 0..(index' - 1)
<1>1. UNCHANGED <<api, method, path>> /\ index <= Len(api) /\ index' = index + 1
  BY DEF Consider
<1>2. /\ Seen' = Seen \cup {index} /\ index \in Nat \ {0} /\ index \notin Seen
      /\ index \in DOMAIN api
  BY <1>1, SeenGrows
<1>3. ArgumentsOK /\ best \in 0..(index - 1)
  BY DEF RouterInv, RouterTypeOK, ArgumentsOK
<1>4. PathMatches(index) /\ BestInv
  BY DEF Consider, PathMatches, RouterInv
<1>5. CASE (Exact(index) \/ Fallback(index)) /\ Replaces(index)
  <2>1. /\ best' = index /\ (bestExact' <=> Exact(index))
        /\ (headFallback' <=> Fallback(index))
    BY <1>5 DEF Consider, Keep
  <2>2. index \in Candidates(method)
    BY <1>2, <1>4, <1>5, CandidateIs
  <2>3. ASSUME NEW i \in Seen, i \in Candidates(method), i # index
        PROVE  Beats(index, i)
    <3>1. best # 0
      BY <1>4, <2>3 DEF BestInv
    <3>2. Beats(index, best)
      BY <1>4, <1>5, <3>1 DEF Replaces, BestInv, Beats
    <3>3. CASE i = best
      BY <3>2, <3>3
    <3>4. CASE i # best
      <4>1. Beats(best, i)
        BY <1>4, <2>3, <3>1, <3>4 DEF BestInv
      <4>2. best \in DOMAIN api /\ i \in DOMAIN api
        BY <1>4, <2>3, <3>1 DEF BestInv, Candidates
      <4>3. QED
        BY <1>2, <1>3, <3>2, <4>1, <4>2, BeatsTransitive
    <3>5. QED
      BY <3>3, <3>4
  <2>4. QED
    BY <1>1, <1>2, <2>1, <2>2, <2>3, ArgumentsStay DEF BestInv
<1>6. CASE ~((Exact(index) \/ Fallback(index)) /\ Replaces(index))
  <2>1. UNCHANGED <<best, bestExact, headFallback>>
    BY <1>6 DEF Consider
  <2>2. index \in Candidates(method) => best # 0 /\ Beats(best, index)
    <3>1. SUFFICES ASSUME index \in Candidates(method)
                   PROVE  best # 0 /\ Beats(best, index)
      OBVIOUS
    <3>2. best # 0 /\ ~Replaces(index)
      BY <1>6, <3>1, CandidateIs DEF Replaces
    <3>3. best \in Candidates(method) /\ best \in Seen /\ (bestExact <=> Exact(best))
      BY <1>4, <3>2 DEF BestInv
    <3>4. ~Beats(index, best)
      BY <3>2, <3>3 DEF Replaces, Beats
    <3>5. QED
      BY <1>2, <1>3, <3>1, <3>2, <3>3, <3>4, BeatsTotal
  <2>3. best' \in 0..(index' - 1)
    BY <1>1, <1>2, <1>3, <2>1
  <2>4. QED
    BY <1>1, <1>2, <1>4, <2>1, <2>2, <2>3, ArgumentsStay DEF BestInv
<1>7. QED
  BY <1>5, <1>6

\* An endpoint whose path matches keeps the invariant.
LEMMA ConsiderInv == RouterInv /\ Consider => RouterInv'
<1> SUFFICES ASSUME RouterInv, Consider PROVE RouterInv'
  OBVIOUS
<1>1. UNCHANGED <<api, method, path, outcome>> /\ index <= Len(api) /\ index' = index + 1
  BY DEF Consider
<1>2. /\ Seen' = Seen \cup {index} /\ index \in Nat \ {0} /\ Len(api) \in Nat
      /\ index \in DOMAIN api /\ index' \in 1..(Len(api) + 1)'
  BY <1>1, SeenGrows
<1>3. PathMatches(index)
  BY DEF Consider, PathMatches
<1>4. BestInv' /\ best' \in 0..(index' - 1)
  BY ConsiderBest
<1>5. OffersOf(api[index]) \subseteq Method
  <2>1. ArgumentsOK
    BY DEF RouterInv, RouterTypeOK, ArgumentsOK
  <2>2. api[index].method \in Method
    BY <1>2, <2>1, EndpointType
  <2>3. QED
    BY <2>2 DEF OffersOf, Method
<1>6. /\ hasPath' = TRUE
      /\ allow' = allow \cup OffersOf(api[index])
      /\ explicitOptions' = (explicitOptions \/ (method = "options" /\ Exact(index)))
  BY DEF Consider
<1>7. RouterTypeOK'
  <2>1. explicitOptions' \in BOOLEAN /\ allow' \subseteq Method
    BY <1>5, <1>6 DEF RouterInv, RouterTypeOK
  <2>2. bestExact' \in BOOLEAN /\ headFallback' \in BOOLEAN
    BY DEF Consider, Keep, Exact, Fallback, RouterInv, RouterTypeOK
  <2>3. /\ api' \in Apis /\ method' \in Method /\ path' \in Paths
        /\ outcome' \in Outcome \cup {"none"}
    BY <1>1 DEF RouterInv, RouterTypeOK
  <2>4. QED
    BY <1>2, <1>4, <1>6, <2>1, <2>2, <2>3 DEF RouterTypeOK
<1>8. ScanInv'
  <2>1. hasPath' <=> \E i \in Seen' : PathMatches(i)'
    BY <1>1, <1>2, <1>3, <1>6, ArgumentsStay
  <2>2. explicitOptions' <=>
          \E i \in Seen' : PathMatches(i)' /\ method' = "options" /\ Exact(i)'
    BY <1>1, <1>2, <1>3, <1>6, ArgumentsStay DEF RouterInv, ScanInv
  <2>3. allow' = {m \in Method : \E i \in Seen : PathMatches(i) /\ m \in OffersOf(api[i])}
                   \cup {m \in Method : m \in OffersOf(api[index])}
    BY <1>5, <1>6 DEF RouterInv, ScanInv
  <2>4. allow' = {m \in Method :
                    \E i \in Seen' : PathMatches(i)' /\ m \in OffersOf(api'[i])}
    BY <1>1, <1>2, <1>3, <2>3, ArgumentsStay
  <2>5. QED
    BY <2>1, <2>2, <2>4 DEF ScanInv
<1>9. DecidedInv'
  BY <1>1, <1>2 DEF RouterInv, DecidedInv
<1>10. ValidRoutes(api)'
  BY <1>1, ArgumentsStay DEF RouterInv
<1>11. QED
  BY <1>4, <1>7, <1>8, <1>9, <1>10 DEF RouterInv

\* The decision keeps the invariant.
LEMMA DecideInv == RouterInv /\ Decide => RouterInv'
<1> SUFFICES ASSUME RouterInv, Decide PROVE RouterInv'
  OBVIOUS
<1>1. UNCHANGED <<api, method, path, index, hasPath, best, bestExact, headFallback,
                  explicitOptions, allow, route>>
  BY DEF Decide
<1>2. /\ outcome' \in Outcome
      /\ outcome' = "found" <=> best # 0 /\ (method = "options" /\ hasPath => explicitOptions)
  BY DEF Decide, Outcome
<1>3. RouterTypeOK' /\ DecidedInv'
  BY <1>1, <1>2 DEF Decide, RouterInv, RouterTypeOK, DecidedInv
<1>4. ScanInv' /\ BestInv' /\ ValidRoutes(api)'
  BY <1>1, ArgumentsStay DEF RouterInv, ScanInv, BestInv, Seen
<1>5. QED
  BY <1>3, <1>4 DEF RouterInv

\* The loop invariant holds throughout match_api.
LEMMA RouterInvHolds == RouterSpec => []RouterInv
<1>1. RouterInv /\ [RouterNext]_routerVars => RouterInv'
  <2> SUFFICES ASSUME RouterInv, [RouterNext]_routerVars PROVE RouterInv'
    OBVIOUS
  <2>1. CASE Skip
    BY <2>1, SkipInv
  <2>2. CASE Consider
    BY <2>2, ConsiderInv
  <2>3. CASE Decide
    BY <2>3, DecideInv
  <2>4. CASE UNCHANGED routerVars
    <3>1. RouterTypeOK' /\ DecidedInv'
      BY <2>4 DEF routerVars, RouterInv, RouterTypeOK, DecidedInv
    <3>2. ScanInv' /\ BestInv' /\ ValidRoutes(api)'
      BY <2>4, ArgumentsStay DEF routerVars, RouterInv, ScanInv, BestInv, Seen
    <3>3. QED
      BY <3>1, <3>2 DEF RouterInv
  <2>5. QED
    BY <2>1, <2>2, <2>3, <2>4 DEF RouterNext
<1>2. QED
  BY <1>1, InitRouterInv, PTL DEF RouterSpec

-----------------------------------------------------------------------------

\* match_api's variables keep their types: in particular the endpoint index it
\* returns is one of the endpoints it looked at.
THEOREM RouterTypeCorrect == RouterSpec => []RouterTypeOK
<1>1. RouterInv => RouterTypeOK
  BY DEF RouterInv
<1>2. QED
  BY <1>1, RouterInvHolds, PTL

\* The best seen is the best there is, once every endpoint has been seen.
LEMMA DecidedBest == RouterInv => BestChoice
<1> SUFFICES ASSUME RouterInv, outcome = "found"
             PROVE  /\ best \in Candidates(method)
                    /\ \A i \in Candidates(method) \ {best} : Beats(best, i)
                    /\ headFallback <=> Fallback(best)
  BY DEF BestChoice
<1>1. best # 0 /\ index = Len(api) + 1
  BY DEF RouterInv, DecidedInv
<1>2. \A i \in Candidates(method) : i \in Seen
  <2>1. Len(api) \in Nat /\ DOMAIN api = 1..Len(api)
    BY ArgumentTypes DEF RouterInv, RouterTypeOK
  <2>2. Seen = DOMAIN api
    BY <1>1, <2>1 DEF Seen
  <2>3. QED
    BY <2>2 DEF Candidates
<1>3. QED
  BY <1>1, <1>2 DEF RouterInv, BestInv

\* The mask that was gathered is what the server offers, once every endpoint has been seen.
LEMMA DecidedAllow == RouterInv => AllowIsHonest
<1> SUFFICES ASSUME RouterInv, outcome # "none", NEW m \in Method
             PROVE  m \in allow <=>
                      \/ Candidates(m) # {}
                      \/ m = "options" /\ \E i \in DOMAIN api : PathMatches(i)
  BY DEF AllowIsHonest
<1>1. Seen = DOMAIN api
  <2>1. Len(api) \in Nat /\ DOMAIN api = 1..Len(api)
    BY ArgumentTypes DEF RouterInv, RouterTypeOK
  <2>2. index = Len(api) + 1
    BY DEF RouterInv, DecidedInv
  <2>3. QED
    BY <2>1, <2>2 DEF Seen
<1>2. m \in allow <=> \E i \in DOMAIN api : PathMatches(i) /\ m \in OffersOf(api[i])
  BY <1>1 DEF RouterInv, ScanInv
<1>3. \A i \in DOMAIN api :
         m \in OffersOf(api[i]) <=> \/ api[i].method = m
                                    \/ m = "head" /\ api[i].method = "get"
                                    \/ m = "options"
  BY DEF OffersOf
<1>4. Candidates(m) # {} <=>
        \E i \in DOMAIN api : /\ PathMatches(i)
                              /\ api[i].method = m \/ (m = "head" /\ api[i].method = "get")
  BY DEF Candidates
<1>5. QED
  BY <1>2, <1>3, <1>4

\* The endpoint match_api finds is the best candidate, whatever the order in
\* which the endpoints were declared.
THEOREM BestIsChosen == RouterSpec => []BestChoice
BY DecidedBest, RouterInvHolds, PTL

\* The Allow header names exactly the methods the server would serve at the path.
THEOREM AllowIsExact == RouterSpec => []AllowIsHonest
BY DecidedAllow, RouterInvHolds, PTL

=============================================================================
