--------------------------- MODULE Matcher_proofs ---------------------------
(***************************************************************************)
(* Proofs about Matcher, for every set of ids, owners and vectors, every   *)
(* distance on them (NaN included) and every threshold.                    *)
(***************************************************************************)
EXTENDS Matcher, FiniteSetTheorems, TLAPS

-----------------------------------------------------------------------------
(* The two writers of the cache.                                           *)

\* Others(id) is finite, so that Erase counts it.
LEMMA OthersAreCounted ==
    ASSUME MatcherTypeOK, NEW id \in Ids
    PROVE  Cardinality(Others(id)) \in Nat
<1>1. Len(cache) \in Nat /\ DOMAIN cache = 1..Len(cache)
  BY DEF MatcherTypeOK
<1>2. IsFiniteSet(1..Len(cache))
  BY <1>1, FS_Interval
<1>3. Others(id) \subseteq 1..Len(cache)
  BY <1>1 DEF Others
<1>4. IsFiniteSet(Others(id))
  BY <1>2, <1>3, FS_Subset
<1> QED BY <1>4, FS_CardinalityType

LEMMA UpsertType ==
    ASSUME MatcherTypeOK, NEW e \in Embeddings, Upsert(e)
    PROVE  cache' \in Seq(Embeddings)
<1>1. cache \in Seq(Embeddings)
  BY DEF MatcherTypeOK
<1>2. CASE HasId(e.id)
  <2>1. cache' = [i \in 1..Len(cache) |-> IF cache[i].id = e.id THEN e ELSE cache[i]]
    BY <1>1, <1>2 DEF Upsert
  <2>2. \A i \in 1..Len(cache) : cache[i] \in Embeddings
    BY <1>1
  <2>3. cache' \in [1..Len(cache) -> Embeddings]
    BY <2>1, <2>2
  <2> QED BY <1>1, <2>3
<1>3. CASE ~HasId(e.id)
  BY <1>1, <1>3 DEF Upsert
<1> QED BY <1>2, <1>3

LEMMA EraseType ==
    ASSUME MatcherTypeOK, NEW id \in Ids, Erase(id)
    PROVE  cache' \in Seq(Embeddings)
<1>1. cache \in Seq(Embeddings) /\ DOMAIN cache = 1..Len(cache)
  BY DEF MatcherTypeOK
<1>2. PICK kept \in [1..Cardinality(Others(id)) -> Others(id)] :
          cache' = [k \in DOMAIN kept |-> cache[kept[k]]]
  BY DEF Erase
<1>3. Cardinality(Others(id)) \in Nat
  BY OthersAreCounted
<1>4. \A k \in 1..Cardinality(Others(id)) : cache[kept[k]] \in Embeddings
  BY <1>1, <1>2 DEF Others
<1>5. cache' \in [1..Cardinality(Others(id)) -> Embeddings]
  BY <1>2, <1>4
<1> QED BY <1>3, <1>5

-----------------------------------------------------------------------------
(* Type correctness.                                                       *)

LEMMA DistanceType ==
    ASSUME MatcherTypeOK, query \in Vectors, NEW i \in 1..Len(cache)
    PROVE  Distance(i) \in (0..Infinity) \cup {NaN}
<1>1. cache[i] \in Embeddings
  BY DEF MatcherTypeOK
<1>2. cache[i].vector \in Vectors
  BY <1>1 DEF Embeddings
<1> QED BY <1>2, DistanceAssumption DEF Distance

LEMMA SearchInit == MatcherInit => MatcherTypeOK /\ SearchInv
BY DistanceAssumption DEF MatcherInit, MatcherTypeOK, SearchInv

\* A step of the matcher keeps the types, given what a search knows.
LEMMA MatcherTypeNext ==
    MatcherTypeOK /\ SearchInv /\ [MatcherNext]_matcherVars => MatcherTypeOK'
<1> SUFFICES ASSUME MatcherTypeOK, SearchInv, [MatcherNext]_matcherVars
             PROVE  MatcherTypeOK'
  OBVIOUS
<1>1. ASSUME NEW s \in {"find_match", "best_distance"}, NEW q \in Vectors,
             StartSearch(s, q)
      PROVE  MatcherTypeOK'
  BY <1>1 DEF StartSearch, MatcherTypeOK
<1>2. CASE Compare
  <2>1. /\ position + 1 \in 1..Len(cache)
        /\ position' = position + 1
        /\ cache' = cache /\ query' = query
        /\ search' = search /\ answer' = answer
    BY <1>2 DEF Compare, MatcherTypeOK
  <2>2. query \in Vectors
    BY <1>2 DEF Compare, SearchInv
  <2>3. Distance(position + 1) \in (0..Infinity) \cup {NaN}
    BY <2>1, <2>2, DistanceType
  <2>4. Distance(position') = CosineDistance[query, cache[position + 1].vector]
    BY <2>1 DEF Distance
  <2>5. CASE IsLess(Distance(position + 1), best)
    <3>1. best' = Distance(position + 1) /\ bestOwner' = cache[position + 1].owner
      BY <1>2, <2>1, <2>5 DEF Compare
    <3>2. best' \in 0..Infinity
      BY <2>3, <2>5, <3>1 DEF IsLess
    <3>3. cache[position + 1] \in Embeddings
      BY <2>1 DEF MatcherTypeOK
    <3>4. bestOwner' \in Owners
      BY <3>1, <3>3 DEF Embeddings
    <3> QED BY <2>1, <3>2, <3>4 DEF MatcherTypeOK
  <2>6. CASE ~IsLess(Distance(position + 1), best)
    <3>1. best' = best /\ bestOwner' = bestOwner
      BY <1>2, <2>1, <2>6 DEF Compare
    <3> QED BY <2>1, <3>1 DEF MatcherTypeOK
  <2> QED BY <2>5, <2>6
<1>3. CASE ReturnMatch
  BY <1>3, DistanceAssumption
  DEF ReturnMatch, Return, Rejected, MatcherTypeOK, Answers
<1>4. CASE ReturnDistance
  BY <1>4, DistanceAssumption DEF ReturnDistance, Return, MatcherTypeOK, Answers
<1>5. ASSUME NEW e \in Embeddings, Upsert(e)
      PROVE  MatcherTypeOK'
  <2>1. cache' \in Seq(Embeddings)
    BY <1>5, UpsertType
  <2>2. position' = 0 /\ 0 \in 0..Len(cache')
    BY <1>5, <2>1 DEF Upsert, SearchInv
  <2> QED BY <1>5, <2>1, <2>2 DEF Upsert, MatcherTypeOK
<1>6. ASSUME NEW id \in Ids, RemoveId(id)
      PROVE  MatcherTypeOK'
  <2>1. cache' \in Seq(Embeddings)
    BY <1>6, EraseType DEF RemoveId
  <2>2. position' = 0 /\ 0 \in 0..Len(cache')
    BY <1>6, <2>1 DEF RemoveId, SearchInv
  <2> QED BY <1>6, <2>1, <2>2 DEF RemoveId, MatcherTypeOK
<1>7. CASE UNCHANGED matcherVars
  BY <1>7 DEF matcherVars, MatcherTypeOK
<1> QED BY <1>1, <1>2, <1>3, <1>4, <1>5, <1>6, <1>7 DEF MatcherNext

-----------------------------------------------------------------------------
(* What a search knows: it holds the mutex, so that the entries it has     *)
(* compared are the entries still there.                                   *)

\* One more entry compared: the least of the entries done, and its owner.
LEMMA CompareKeepsSearchInv ==
    ASSUME MatcherTypeOK, SearchInv, Compare
    PROVE  SearchInv'
<1>1. /\ search # "none" /\ search' = search
      /\ position + 1 \in 1..Len(cache) /\ position' = position + 1
      /\ cache' = cache /\ query' = query /\ query \in Vectors
  BY DEF Compare, MatcherTypeOK, SearchInv
<1>2. \A i : Distance(i)' = CosineDistance[query, cache[i].vector]
  BY <1>1 DEF Distance
<1>3. \A i : Distance(i)' = Distance(i)
  BY <1>2 DEF Distance
<1>4. \A i \in 1..position' : i \in 1..position \/ i = position + 1
  BY <1>1 DEF MatcherTypeOK
<1>5. \A i \in 1..position' : Distance(i) \in (0..Infinity) \cup {NaN}
  BY <1>1, DistanceType
<1>6. Distance(position') = Distance(position + 1)
  BY <1>1 DEF Distance
<1>7. best \in 0..Infinity /\ best # NaN
  BY DistanceAssumption DEF MatcherTypeOK
<1>8. CASE IsLess(Distance(position + 1), best)
  <2>1. best' = Distance(position + 1) /\ bestOwner' = cache[position + 1].owner
    BY <1>1, <1>6, <1>8 DEF Compare
  <2>2. best' < best /\ best' \in 0..Infinity
    BY <1>1, <1>5, <1>8, <2>1 DEF IsLess
  <2>3. ASSUME NEW i \in 1..position'
        PROVE  ~IsLess(Distance(i), best')
    <3>1. CASE i = position + 1
      BY <2>1, <2>2, <3>1 DEF IsLess
    <3>2. CASE i \in 1..position
      <4>1. ~IsLess(Distance(i), best)
        BY <1>1, <3>2 DEF SearchInv
      <4> QED BY <1>5, <1>7, <2>2, <4>1, DistanceAssumption DEF IsLess
    <3> QED BY <1>4, <3>1, <3>2
  <2>4. bestOwner' \in Owners /\ bestOwner' # NoMatch
    <3>1. cache[position + 1] \in Embeddings
      BY <1>1 DEF MatcherTypeOK
    <3> QED BY <2>1, <3>1, DistanceAssumption DEF Embeddings
  <2>5. position + 1 \in 1..position'
    BY <1>1 DEF MatcherTypeOK
  <2> QED BY <1>1, <1>3, <2>1, <2>3, <2>4, <2>5 DEF SearchInv, IsLess
<1>9. CASE ~IsLess(Distance(position + 1), best)
  <2>1. best' = best /\ bestOwner' = bestOwner
    BY <1>1, <1>6, <1>9 DEF Compare
  <2>2. \A i \in 1..position' : ~IsLess(Distance(i), best)
    BY <1>1, <1>4, <1>9 DEF SearchInv
  <2>3. 1..position \subseteq 1..position'
    BY <1>1 DEF MatcherTypeOK
  <2> QED BY <1>1, <1>3, <2>1, <2>2, <2>3 DEF SearchInv, IsLess
<1> QED BY <1>8, <1>9

LEMMA SearchNext ==
    MatcherTypeOK /\ SearchInv /\ [MatcherNext]_matcherVars => SearchInv'
<1> SUFFICES ASSUME MatcherTypeOK, SearchInv, [MatcherNext]_matcherVars
             PROVE  SearchInv'
  OBVIOUS
<1>1. ASSUME NEW s \in {"find_match", "best_distance"}, NEW q \in Vectors,
             StartSearch(s, q)
      PROVE  SearchInv'
  BY <1>1 DEF StartSearch, SearchInv
<1>2. CASE Compare
  BY <1>2, CompareKeepsSearchInv
<1>3. CASE ReturnMatch \/ ReturnDistance
  BY <1>3 DEF ReturnMatch, ReturnDistance, Return, SearchInv
<1>4. ASSUME NEW e \in Embeddings, Upsert(e)
      PROVE  SearchInv'
  BY <1>4 DEF Upsert, SearchInv
<1>5. ASSUME NEW id \in Ids, RemoveId(id)
      PROVE  SearchInv'
  BY <1>5 DEF RemoveId, SearchInv
<1>6. CASE UNCHANGED matcherVars
  BY <1>6 DEF matcherVars, SearchInv, IsLess, Distance
<1> QED BY <1>1, <1>2, <1>3, <1>4, <1>5, <1>6 DEF MatcherNext

LEMMA SearchInvariant == MatcherSpec => [](MatcherTypeOK /\ SearchInv)
<1>1. (MatcherTypeOK /\ SearchInv) /\ [MatcherNext]_matcherVars
          => (MatcherTypeOK /\ SearchInv)'
  BY MatcherTypeNext, SearchNext
<1> QED BY SearchInit, <1>1, PTL DEF MatcherSpec

\* The cache, the locals of a search and its answer keep their types.
THEOREM MatcherTypeCorrect == MatcherSpec => []MatcherTypeOK
BY SearchInvariant, PTL

-----------------------------------------------------------------------------
(* The answer of find_match.                                               *)

\* A search that returns has compared every entry, so its best is the least
\* distance of all.
LEMMA ReturnIsNearest ==
    ASSUME MatcherTypeOK, SearchInv, ReturnMatch
    PROVE  \/ /\ answer' = NoMatch
              /\ \A d \in Distances : d >= Threshold
           \/ /\ answer' # NoMatch
              /\ answer'.distance < Threshold
              /\ \A d \in Distances : answer'.distance <= d
              /\ \E i \in DOMAIN cache :
                     cache[i].owner = answer'.owner /\ Distance(i) = answer'.distance
<1>1. /\ search = "find_match" /\ position = Len(cache)
      /\ DOMAIN cache = 1..position
      /\ best \in 0..Infinity /\ query \in Vectors
      /\ answer' = IF Rejected THEN NoMatch
                   ELSE [owner |-> bestOwner, distance |-> best]
  BY DEF ReturnMatch, Return, MatcherTypeOK, SearchInv
<1>2. ASSUME NEW d \in Distances
      PROVE  d \in 0..Infinity /\ best <= d
  <2>1. PICK i \in 1..position : d = Distance(i) /\ d # NaN
    BY <1>1 DEF Distances
  <2>2. Distance(i) \in (0..Infinity) \cup {NaN}
    BY <1>1, <2>1, DistanceType
  <2>3. ~IsLess(Distance(i), best)
    BY <1>1, <2>1 DEF SearchInv
  <2> QED BY <1>1, <2>1, <2>2, <2>3, DistanceAssumption DEF IsLess
<1>3. CASE Rejected
  <2>1. best >= Threshold
    BY <1>1, <1>3, ThresholdAssumption, DistanceAssumption DEF Rejected, SearchInv
  <2>2. \A d \in Distances : d >= Threshold
    BY <1>1, <1>2, <2>1, ThresholdAssumption, DistanceAssumption
  <2> QED BY <1>1, <1>3, <2>2
<1>4. CASE ~Rejected
  <2>1. bestOwner # NoMatch /\ best < Threshold
    BY <1>1, <1>4, ThresholdAssumption, DistanceAssumption DEF Rejected
  <2>2. answer' = [owner |-> bestOwner, distance |-> best]
    BY <1>1, <1>4
  <2>3. \E i \in 1..position : cache[i].owner = bestOwner /\ Distance(i) = best
    BY <1>1, <2>1 DEF SearchInv
  <2>4. answer' # NoMatch /\ answer'.owner = bestOwner /\ answer'.distance = best
    <3>1. bestOwner \in Owners /\ answer' \in [owner : Owners, distance : 0..Infinity]
      BY <1>1, <2>1, <2>2 DEF MatcherTypeOK
    <3>2. answer' # NoMatch
      BY <3>1, <2>2, DistanceAssumption
    <3> QED BY <2>2, <3>2
  <2> QED BY <1>1, <1>2, <2>1, <2>3, <2>4
<1> QED BY <1>3, <1>4

\* find_match returns the nearest embedding below the threshold, if there is
\* one, whatever upsert and remove come while it runs.
THEOREM SearchReturnsTheNearest == MatcherSpec => MatchIsNearest
<1>1. ASSUME MatcherTypeOK, SearchInv, [MatcherNext]_matcherVars,
             search = "find_match", search' = "none"
      PROVE  ReturnMatch
  BY <1>1 DEF MatcherNext, matcherVars, StartSearch, Compare, ReturnDistance,
              Upsert, RemoveId
<1>2. MatcherTypeOK /\ SearchInv /\ [MatcherNext]_matcherVars =>
        [search = "find_match" /\ search' = "none" =>
         \/ /\ answer' = NoMatch
            /\ \A d \in Distances : d >= Threshold
         \/ /\ answer' # NoMatch
            /\ answer'.distance < Threshold
            /\ \A d \in Distances : answer'.distance <= d
            /\ \E i \in DOMAIN cache :
                   cache[i].owner = answer'.owner /\ Distance(i) = answer'.distance
        ]_matcherVars
  BY <1>1, ReturnIsNearest
<1> QED BY SearchInvariant, <1>2, PTL DEF MatcherSpec, MatchIsNearest

-----------------------------------------------------------------------------
(* One entry per id.                                                       *)

LEMMA UpsertKeepsOne ==
    ASSUME MatcherTypeOK, OneEntryPerId, NEW e \in Embeddings, Upsert(e)
    PROVE  OneEntryPerId'
<1>1. cache \in Seq(Embeddings) /\ DOMAIN cache = 1..Len(cache)
  BY DEF MatcherTypeOK
<1>2. CASE HasId(e.id)
  <2>1. cache' = [i \in DOMAIN cache |-> IF cache[i].id = e.id THEN e ELSE cache[i]]
    BY <1>2 DEF Upsert
  <2>2. /\ DOMAIN cache' = DOMAIN cache
        /\ \A i \in DOMAIN cache : cache'[i].id = cache[i].id
    BY <2>1
  <2> QED BY <2>2 DEF OneEntryPerId
<1>3. CASE ~HasId(e.id)
  <2>1. cache' = Append(cache, e)
    BY <1>3 DEF Upsert
  <2>2. /\ DOMAIN cache' = 1..(Len(cache) + 1)
        /\ cache'[Len(cache) + 1] = e
        /\ \A i \in 1..Len(cache) : cache'[i] = cache[i]
    BY <1>1, <2>1
  <2>3. \A i \in 1..Len(cache) : cache[i].id # e.id
    BY <1>1, <1>3 DEF HasId
  <2>4. \A i \in DOMAIN cache' : i \in 1..Len(cache) \/ i = Len(cache) + 1
    BY <1>1, <2>2
  <2> QED BY <1>1, <2>2, <2>3, <2>4 DEF OneEntryPerId
<1> QED BY <1>2, <1>3

\* The entries that remain come from different positions.
LEMMA EraseKeepsOne ==
    ASSUME MatcherTypeOK, OneEntryPerId, NEW id \in Ids, Erase(id)
    PROVE  OneEntryPerId'
<1>1. PICK kept \in [1..Cardinality(Others(id)) -> Others(id)] :
          /\ \A k, l \in DOMAIN kept : k < l => kept[k] < kept[l]
          /\ cache' = [k \in DOMAIN kept |-> cache[kept[k]]]
  BY DEF Erase
<1>2. Cardinality(Others(id)) \in Nat
  BY OthersAreCounted
<1>3. DOMAIN cache' = 1..Cardinality(Others(id)) /\ DOMAIN kept = DOMAIN cache'
  BY <1>1
<1>4. \A k \in DOMAIN cache' : kept[k] \in DOMAIN cache /\ kept[k] \in Nat
  BY <1>1, <1>3 DEF Others, MatcherTypeOK
<1>5. ASSUME NEW k \in DOMAIN cache', NEW l \in DOMAIN cache',
             cache'[k].id = cache'[l].id
      PROVE  k = l
  <2>1. kept[k] = kept[l]
    BY <1>1, <1>3, <1>4, <1>5 DEF OneEntryPerId
  <2>2. k \in Nat /\ l \in Nat
    BY <1>2, <1>3
  <2>3. ~(k < l) /\ ~(l < k)
    BY <1>1, <1>3, <1>4, <2>1
  <2> QED BY <2>2, <2>3
<1> QED BY <1>5 DEF OneEntryPerId

\* A remove leaves nothing of its id, because the cache holds an id once.
THEOREM CacheHoldsAnIdOnce == MatcherSpec => []OneEntryPerId
<1>1. MatcherInit => OneEntryPerId
  BY DEF MatcherInit, OneEntryPerId
<1>2. ASSUME MatcherTypeOK, OneEntryPerId, [MatcherNext]_matcherVars
      PROVE  OneEntryPerId'
  <2>1. ASSUME UNCHANGED cache
        PROVE  OneEntryPerId'
    BY <1>2, <2>1 DEF OneEntryPerId
  <2>2. ASSUME NEW e \in Embeddings, Upsert(e)
        PROVE  OneEntryPerId'
    BY <1>2, <2>2, UpsertKeepsOne
  <2>3. ASSUME NEW id \in Ids, RemoveId(id)
        PROVE  OneEntryPerId'
    BY <1>2, <2>3, EraseKeepsOne DEF RemoveId
  <2> QED BY <1>2, <2>1, <2>2, <2>3
          DEF MatcherNext, matcherVars, StartSearch, Compare, ReturnMatch,
              ReturnDistance, Return
<1> QED BY MatcherTypeCorrect, <1>1, <1>2, PTL DEF MatcherSpec

=============================================================================
