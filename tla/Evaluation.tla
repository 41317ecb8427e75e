----------------------------- MODULE Evaluation -----------------------------
(***************************************************************************)
(* The evaluation program.  With --enroll-scale it enrolls the first image *)
(* of N identities, then matches other images of theirs (genuine probes)   *)
(* and images of identities it left out (impostors); with --pairs it       *)
(* compares the images of listed pairs.  Both write a CSV file.            *)
(*                                                                         *)
(* An image is <<identity, index>>; whether it can be embedded, and which  *)
(* entry of the gallery is nearest to it, is the environment's choice      *)
(* (FaceVision and Matcher say what they may be).                          *)
(***************************************************************************)
EXTENDS Integers, Sequences, SequencesExt, FiniteSets

CONSTANTS
    Images,       \* identity -> how many images the dataset has of it
    EnrollNs,     \* values of --enroll-scale
    MaxProbes,    \* --max-probes-per-identity
    MaxImpostors, \* --max-impostors
    PairLists,    \* contents of pairs.txt: sequences of pairs of images
    NoOne         \* no match, an empty top1_identity

Identities == DOMAIN Images

ASSUME EvaluationAssumption ==
    /\ IsFiniteSet(Identities)
    /\ \A i \in Identities : Images[i] \in Nat \ {0}
    /\ EnrollNs \subseteq Nat \ {0}
    /\ MaxProbes \in Int /\ MaxImpostors \in Int
    /\ \A list \in PairLists :
           /\ list \in Seq({list[k] : k \in DOMAIN list})
           /\ \A k \in DOMAIN list : list[k] = <<list[k][1], list[k][2]>>
    /\ NoOne \notin Identities

VARIABLES
    work,       \* what the program is doing
    chosen,     \* the first enroll_n of multi_img_idx after the shuffle
    gallery,    \* the identities enrolled, by owner: gallery and id_to_name
    probes,     \* probes still to run: the image and is_genuine
    results,    \* pairs mode: the cache of results, image -> embedded?
    pairs,      \* pairs mode: pairs still to write
    rows,       \* the rows of the CSV file
    skipped     \* images that could not be embedded

evaluationVars == <<work, chosen, gallery, probes, results, pairs, rows, skipped>>

EvaluationTypeOK ==
    /\ work \in {"begin", "enroll", "probe", "embed", "write", "done", "failed"}
    /\ Len(gallery) <= Cardinality(Identities)
    /\ \A i \in DOMAIN gallery : Images[gallery[i]] >= 2
    /\ work = "embed" => rows = <<>>

EvaluationInit ==
    /\ work = "begin"
    /\ chosen = <<>>
    /\ gallery = <<>>
    /\ probes = <<>>
    /\ results = <<>>
    /\ pairs = <<>>
    /\ rows = <<>>
    /\ skipped = {}

\* Arguments that parse_args rejects end the program with 2; what is missing,
\* an output that cannot be opened and an exception on the way, with 1.  The
\* rows written stay.
EvaluationFails ==
    /\ work \in {"begin", "enroll", "probe", "embed"}
    /\ work' = "failed"
    /\ UNCHANGED <<chosen, gallery, probes, results, pairs, rows, skipped>>

-----------------------------------------------------------------------------
(* run_enroll_scale_mode                                                   *)

\* A plausible bug: an identity with one image may be enrolled.
MultiImage_Any == Identities

MultiImage == {i \in Identities : Images[i] >= 2}

BeginScale(n) ==
    /\ work = "begin"
    /\ n <= Cardinality(MultiImage)
    /\ \E s \in kSubset(n, MultiImage) : chosen' \in SetToSeqs(s)
    /\ work' = "enroll"
    /\ UNCHANGED <<gallery, probes, results, pairs, rows, skipped>>

Enrolled == Len(gallery) + Cardinality({<<i, 1>> : i \in Identities} \cap skipped)

\* Plausible bugs: the cap counts the enrolled image; the probes begin with it.
GenuineProbes_CapFirst(i) ==
    [j \in 1..((IF Images[i] < MaxProbes THEN Images[i] ELSE MaxProbes) - 1) |->
        [image |-> <<i, j + 1>>, genuine |-> TRUE]]

GenuineProbes_All(i) ==
    [j \in 1..(IF Images[i] < MaxProbes THEN Images[i] ELSE MaxProbes) |->
        [image |-> <<i, j>>, genuine |-> TRUE]]

\* Every image after the first, capped; a cap below 1 leaves none.
GenuineProbes(i) ==
    [j \in 1..(IF Images[i] - 1 < MaxProbes THEN Images[i] - 1 ELSE MaxProbes) |->
        [image |-> <<i, j + 1>>, genuine |-> TRUE]]

\* A plausible bug: the probes are queued whether or not the identity could
\* be enrolled.
Enroll_QueuesFirst ==
    /\ work = "enroll"
    /\ Enrolled < Len(chosen)
    /\ LET i == chosen[Enrolled + 1]
       IN  /\ probes' = probes \o GenuineProbes(i)
           /\ \/ gallery' = Append(gallery, i) /\ UNCHANGED skipped
              \/ skipped' = skipped \cup {<<i, 1>>} /\ UNCHANGED gallery
    /\ UNCHANGED <<work, chosen, results, pairs, rows>>

Enroll ==
    /\ work = "enroll"
    /\ Enrolled < Len(chosen)
    /\ LET i == chosen[Enrolled + 1]
       IN  \/ /\ gallery' = Append(gallery, i)
              /\ probes' = probes \o GenuineProbes(i)
              /\ UNCHANGED skipped
           \/ /\ skipped' = skipped \cup {<<i, 1>>}
              /\ UNCHANGED <<gallery, probes>>
    /\ UNCHANGED <<work, chosen, results, pairs, rows>>

\* A plausible bug: every identity is an impostor.
Candidates_All == Identities

\* Those that were to be enrolled are left out, enrolled or not.
Candidates == Identities \ {chosen[k] : k \in DOMAIN chosen}

\* A negative --max-impostors becomes a huge std::size_t.
Take ==
    IF MaxImpostors < 0 \/ Cardinality(Candidates) < MaxImpostors
    THEN Cardinality(Candidates) ELSE MaxImpostors

QueueImpostors ==
    /\ work = "enroll"
    /\ Enrolled = Len(chosen)
    /\ \E s \in kSubset(Take, Candidates) : \E order \in SetToSeqs(s) :
           probes' = probes \o [k \in DOMAIN order |->
                                  [image |-> <<order[k], 1>>, genuine |-> FALSE]]
    /\ work' = "probe"
    /\ UNCHANGED <<chosen, gallery, results, pairs, rows, skipped>>

\* run_probes: a row with the name of the nearest identity, if there is one;
\* no row for an image without an embedding.
Probe ==
    /\ work = "probe"
    /\ probes # <<>>
    /\ LET p == Head(probes)
       IN  \/ /\ skipped' = skipped \cup {p.image}
              /\ UNCHANGED rows
           \/ /\ \E top1 \in {gallery[k] : k \in DOMAIN gallery} \cup {NoOne} :
                     rows' = Append(rows, [image |-> p.image, genuine |-> p.genuine,
                                           top1 |-> top1])
              /\ UNCHANGED skipped
    /\ probes' = Tail(probes)
    /\ UNCHANGED <<work, chosen, gallery, results, pairs>>

EndScale ==
    /\ work = "probe"
    /\ probes = <<>>
    /\ work' = "done"
    /\ UNCHANGED <<chosen, gallery, probes, results, pairs, rows, skipped>>

-----------------------------------------------------------------------------
(* run_pairs_mode                                                          *)

BeginPairs(list) ==
    /\ work = "begin"
    /\ work' = "embed"
    /\ pairs' = list
    /\ UNCHANGED <<chosen, gallery, probes, results, rows, skipped>>

Mentioned == UNION {{pairs[k][1], pairs[k][2]} : k \in DOMAIN pairs}

\* Each image once, in the order of the hash table.
EmbedImage(image, ok) ==
    /\ work = "embed"
    /\ image \in Mentioned \ DOMAIN results
    /\ results' = [x \in DOMAIN results \cup {image} |->
                      IF x = image THEN ok ELSE results[x]]
    /\ UNCHANGED <<work, chosen, gallery, probes, pairs, rows, skipped>>

EmbeddedAll ==
    /\ work = "embed"
    /\ Mentioned \subseteq DOMAIN results
    /\ work' = "write"
    /\ UNCHANGED <<chosen, gallery, probes, results, pairs, rows, skipped>>

\* A plausible bug: the distance is written when one of the two is embedded.
Comparable_One(a, b) == results[a] \/ results[b]

Comparable(a, b) == results[a] /\ results[b]

WritePair ==
    /\ work = "write"
    /\ pairs # <<>>
    /\ LET a == Head(pairs)[1]
           b == Head(pairs)[2]
       IN  rows' = Append(rows, [a |-> a, b |-> b,
                                 bad |-> {x \in {a, b} : ~results[x]},
                                 distance |-> Comparable(a, b)])
    /\ pairs' = Tail(pairs)
    /\ UNCHANGED <<work, chosen, gallery, probes, results, skipped>>

EndPairs ==
    /\ work = "write"
    /\ pairs = <<>>
    /\ work' = "done"
    /\ UNCHANGED <<chosen, gallery, probes, results, pairs, rows, skipped>>

EvaluationNext ==
    \/ EvaluationFails
    \/ \E n \in EnrollNs : BeginScale(n)
    \/ Enroll \/ QueueImpostors \/ Probe \/ EndScale
    \/ \E list \in PairLists : BeginPairs(list)
    \/ \E image \in Mentioned, ok \in BOOLEAN : EmbedImage(image, ok)
    \/ EmbeddedAll \/ WritePair \/ EndPairs
    \/ work \in {"done", "failed"} /\ UNCHANGED evaluationVars

EvaluationSpec == EvaluationInit /\ [][EvaluationNext]_evaluationVars

-----------------------------------------------------------------------------
(* Properties.                                                             *)

Gallery == {gallery[k] : k \in DOMAIN gallery}

\* is_genuine says whether the probe's identity is in the gallery, whatever
\* could not be embedded; no probe is an enrolled image; none counts twice.
RowsAreSound ==
    work = "probe" \/ (work = "done" /\ chosen # <<>>) =>
        \A k \in DOMAIN rows :
            /\ rows[k].genuine <=> rows[k].image[1] \in Gallery
            /\ ~(rows[k].image[2] = 1 /\ rows[k].image[1] \in Gallery)
            /\ \A l \in DOMAIN rows : rows[l].image = rows[k].image => l = k

\* At the end every identity of the gallery has had its share of probes: the
\* rows and the images skipped add up.
ProbesAccountedFor ==
    work = "done" /\ chosen # <<>> =>
        \A i \in Gallery :
            Cardinality({j \in 2..Images[i] :
                \/ <<i, j>> \in skipped
                \/ \E k \in DOMAIN rows : rows[k].image = <<i, j>>})
              = IF MaxProbes < 0 THEN 0
                ELSE IF Images[i] - 1 < MaxProbes THEN Images[i] - 1 ELSE MaxProbes

\* A pair has a distance unless one of its images failed, and an image that
\* failed in a row failed in every row.
PairsAgree ==
    work \in {"write", "done"} /\ chosen = <<>> =>
        \A k, l \in DOMAIN rows :
            /\ rows[k].distance <=> rows[k].bad = {}
            /\ rows[k].bad \cap {rows[l].a, rows[l].b} \subseteq rows[l].bad

\* The report of either mode is sound and complete.
ReportIsSound == RowsAreSound /\ ProbesAccountedFor /\ PairsAgree

=============================================================================
