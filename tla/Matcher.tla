------------------------------- MODULE Matcher -------------------------------
(***************************************************************************)
(* The matcher: a cache of embeddings and the search of the nearest one,   *)
(* find_match (from Pipeline::main_loop) and best_distance (from the       *)
(* evaluation), while upsert and remove come from the thread of            *)
(* MqttSubscriber.  All take mutex_; a search goes entry by entry.         *)
(*                                                                         *)
(* A float is a natural number, Infinity the largest of them, or NaN,      *)
(* which is not less than anything and nothing is less than it.            *)
(***************************************************************************)
EXTENDS Naturals, Sequences, FiniteSets

CONSTANTS
    Ids,         \* embedding ids
    Owners,      \* employee ids
    Vectors,     \* embedding vectors
    CosineDistance, \* two vectors -> their distance
    Infinity, NaN,
    Threshold,   \* threshold_, not a NaN here: see Configuration
    NoMatch         \* nullopt

ASSUME DistanceAssumption ==
    /\ Infinity \in Nat
    /\ NaN \notin Nat
    /\ NoMatch \notin Owners \cup [owner : Owners, distance : 0..Infinity]
    /\ CosineDistance \in [Vectors \X Vectors -> (0..Infinity) \cup {NaN}]

ASSUME ThresholdAssumption == Threshold \in 0..(Infinity - 1)

Embeddings == [id : Ids, owner : Owners, vector : Vectors]

\* What a search returns; best_distance names no owner.
Answers == [owner : Owners \cup {NoMatch}, distance : 0..Infinity]

VARIABLES
    cache,     \* cache_
    search,    \* which search holds the mutex
    query,     \* its argument
    position,  \* the loop over cache_: entries done
    best,      \* best_distance
    bestOwner, \* best_owner; NoMatch while found_any is false
    answer     \* what the last search returned

matcherVars == <<cache, search, query, position, best, bestOwner, answer>>

MatcherTypeOK ==
    /\ cache \in Seq(Embeddings)
    /\ search \in {"none", "find_match", "best_distance"}
    /\ query \in Vectors \cup {NoMatch}
    /\ position \in 0..Len(cache)
    /\ best \in 0..Infinity
    /\ bestOwner \in Owners \cup {NoMatch}
    /\ answer \in Answers \cup {NoMatch}

\* load_all reads a table with the id as its key.
MatcherInit ==
    /\ cache = <<>>
    /\ search = "none"
    /\ query = NoMatch
    /\ position = 0
    /\ best = Infinity
    /\ bestOwner = NoMatch
    /\ answer = NoMatch

\* dist < best_distance
IsLess(a, b) == a # NaN /\ b # NaN /\ a < b

Distance(i) == CosineDistance[query, cache[i].vector]

\* The locals of the search are as Return leaves them.
StartSearch(s, q) ==
    /\ search = "none"
    /\ search' = s
    /\ query' = q
    /\ UNCHANGED <<cache, position, best, bestOwner, answer>>

\* A plausible bug: the loop keeps the last entry below the threshold.
Compare_Last ==
    /\ search # "none"
    /\ position < Len(cache)
    /\ position' = position + 1
    /\ IF IsLess(Distance(position'), Threshold)
       THEN best' = Distance(position') /\ bestOwner' = cache[position'].owner
       ELSE UNCHANGED <<best, bestOwner>>
    /\ UNCHANGED <<cache, search, query, answer>>

\* for (const auto& entry : cache_)
Compare ==
    /\ search # "none"
    /\ position < Len(cache)
    /\ position' = position + 1
    /\ IF IsLess(Distance(position'), best)
       THEN best' = Distance(position') /\ bestOwner' = cache[position'].owner
       ELSE UNCHANGED <<best, bestOwner>>
    /\ UNCHANGED <<cache, search, query, answer>>

Return(a) ==
    /\ position = Len(cache)
    /\ search' = "none"
    /\ answer' = a
    /\ query' = NoMatch
    /\ position' = 0
    /\ best' = Infinity
    /\ bestOwner' = NoMatch
    /\ UNCHANGED cache

\* A plausible bug: a distance equal to the threshold is let through.
Rejected_Above == bestOwner = NoMatch \/ best > Threshold

Rejected == bestOwner = NoMatch \/ best >= Threshold

ReturnMatch ==
    /\ search = "find_match"
    /\ Return(IF Rejected THEN NoMatch ELSE [owner |-> bestOwner, distance |-> best])

ReturnDistance ==
    /\ search = "best_distance"
    /\ Return(IF cache = <<>> THEN NoMatch ELSE [owner |-> NoMatch, distance |-> best])

HasId(id) == \E i \in DOMAIN cache : cache[i].id = id

\* Plausible bugs: the mutex is not taken; the entry is always appended.
Upsert_NoLock(e) ==
    /\ cache' = IF HasId(e.id)
                THEN [i \in DOMAIN cache |-> IF cache[i].id = e.id THEN e ELSE cache[i]]
                ELSE Append(cache, e)
    /\ UNCHANGED <<search, query, position, best, bestOwner, answer>>

Upsert_Appends(e) ==
    /\ search = "none"
    /\ Len(cache) < 4
    /\ cache' = Append(cache, e)
    /\ UNCHANGED <<search, query, position, best, bestOwner, answer>>

Upsert(e) ==
    /\ search = "none"
    /\ cache' = IF HasId(e.id)
                THEN [i \in DOMAIN cache |-> IF cache[i].id = e.id THEN e ELSE cache[i]]
                ELSE Append(cache, e)
    /\ UNCHANGED <<search, query, position, best, bestOwner, answer>>

\* What remove_if leaves: the positions of the other entries, in order.
Others(id) == {i \in DOMAIN cache : cache[i].id # id}

Erase(id) ==
    \E kept \in [1..Cardinality(Others(id)) -> Others(id)] :
        /\ \A k, l \in DOMAIN kept : k < l => kept[k] < kept[l]
        /\ cache' = [k \in DOMAIN kept |-> cache[kept[k]]]

RemoveId(id) ==
    /\ search = "none"
    /\ Erase(id)
    /\ UNCHANGED <<search, query, position, best, bestOwner, answer>>

MatcherNext ==
    \/ \E s \in {"find_match", "best_distance"}, q \in Vectors : StartSearch(s, q)
    \/ Compare \/ ReturnMatch \/ ReturnDistance
    \/ \E e \in Embeddings : Upsert(e)
    \/ \E id \in Ids : RemoveId(id)

MatcherSpec == MatcherInit /\ [][MatcherNext]_matcherVars

-----------------------------------------------------------------------------
(* Properties.                                                             *)

\* The distances of the query from the entries, as far as they are numbers.
Distances == {Distance(i) : i \in DOMAIN cache} \ {NaN}

\* find_match returns an employee with an embedding at the distance it gives,
\* which is below the threshold and the least of all; and it returns nullopt
\* only if no embedding is below the threshold.  Vectors that are zero or
\* hold a NaN never decide.
MatchIsNearest ==
    [][search = "find_match" /\ search' = "none" =>
         \/ /\ answer' = NoMatch
            /\ \A d \in Distances : d >= Threshold
         \/ /\ answer' # NoMatch
            /\ answer'.distance < Threshold
            /\ \A d \in Distances : answer'.distance <= d
            /\ \E i \in DOMAIN cache :
                   cache[i].owner = answer'.owner /\ Distance(i) = answer'.distance
      ]_matcherVars

\* The cache holds an id once, so that a remove leaves nothing of it.
OneEntryPerId ==
    \A i, j \in DOMAIN cache : cache[i].id = cache[j].id => i = j

-----------------------------------------------------------------------------
(* The invariant behind MatchIsNearest.                                    *)

\* best is the least distance of the entries done, if one is a number below
\* Infinity, and bestOwner belongs to such an entry.
SearchInv ==
    /\ search = "none" => position = 0 /\ best = Infinity /\ bestOwner = NoMatch
    /\ search # "none" =>
           /\ query \in Vectors
           /\ \A i \in 1..position : ~IsLess(Distance(i), best)
           /\ bestOwner = NoMatch => best = Infinity
           /\ bestOwner # NoMatch =>
                  \E i \in 1..position :
                      cache[i].owner = bestOwner /\ Distance(i) = best

=============================================================================
