----------------------------- MODULE Enrollment -----------------------------
(***************************************************************************)
(* The enrolment program beside the facegate program: two processes with   *)
(* one SQLite table of embeddings.  The enrolment program inserts rows     *)
(* whose ids SQLite chooses; facegate writes and removes rows under the    *)
(* ids the backend has assigned and keeps a copy of the table in its       *)
(* matcher, read when it starts.                                           *)
(*                                                                         *)
(* How embeddings reach facegate is EmbeddingSync; here they come, again   *)
(* and in any order, and a tombstone may follow.                           *)
(***************************************************************************)
EXTENDS Naturals, FiniteSets, FiniteSetsExt

CONSTANTS
    Staff,      \* employee ids
    Photos,     \* --photos
    MaxId,      \* bound: ids in the table
    MaxSynced,  \* bound: ids the backend assigns
    Nobody      \* no row, no employee

ASSUME EnrollmentAssumption ==
    /\ Nobody \notin Staff
    /\ Photos \in Nat \ {0}
    /\ MaxId \in Nat /\ MaxSynced \in Nat
    /\ MaxSynced <= MaxId

RowIds == 1..MaxId
NoRow == [owner |-> Nobody, by |-> Nobody]
Row == [owner : Staff, by : {"enroll", "sync"}] \cup {NoRow}

\* No message is being applied.
Nothing == [id |-> 0, row |-> NoRow]

VARIABLES
    table,     \* embeddings: id -> who it is of, who wrote it
    cache,     \* facegate's matcher
    daemon,    \* facegate runs
    syncing,   \* its on_message between its two calls: what it has stored
    enroll,    \* what the enrolment program does
    employee,  \* --employee-id
    captured,  \* embeddings it counts as saved
    assigned,  \* the backend's embeddings: id -> employee
    inserted,  \* history: the rows of this enrolment
    replaced,  \* history: how many of them facegate has replaced or removed
    touched    \* history: ids the enrolment program wrote or deleted since
               \* facegate started

enrollmentVars == <<table, cache, daemon, syncing, enroll, employee, captured, assigned,
                    inserted, replaced, touched>>

EnrollmentTypeOK ==
    /\ table \in [RowIds -> Row]
    /\ cache \in [RowIds -> Row]
    /\ daemon \in BOOLEAN
    /\ syncing \in [id : 0..MaxSynced, row : Row]
    /\ enroll \in {"none", "open", "capture", "done"}
    /\ employee \in Staff \cup {Nobody}
    /\ captured \in 0..Photos
    /\ assigned \in [1..MaxSynced -> Staff \cup {Nobody}]
    /\ inserted \subseteq RowIds
    /\ replaced \in 0..Photos
    /\ touched \subseteq RowIds
    /\ ~daemon => cache = [i \in RowIds |-> NoRow] /\ syncing = Nothing

EnrollmentInit ==
    /\ table = [i \in RowIds |-> NoRow]
    /\ cache = [i \in RowIds |-> NoRow]
    /\ daemon = FALSE
    /\ syncing = Nothing
    /\ enroll = "none"
    /\ employee = Nobody
    /\ captured = 0
    /\ assigned = [i \in 1..MaxSynced |-> Nobody]
    /\ inserted = {}
    /\ replaced = 0
    /\ touched = {}

Used == {i \in RowIds : table[i] # NoRow}
Of(e) == {i \in RowIds : table[i].owner = e}

-----------------------------------------------------------------------------
(* The enrolment program.                                                  *)

\* parse_args; without --append the employee's rows are deleted first.
EnrollStarts(e, append) ==
    /\ enroll = "none"
    /\ enroll' = "open"
    /\ employee' = e
    /\ captured' = 0
    /\ inserted' = {}
    /\ replaced' = 0
    /\ table' = IF append THEN table
                ELSE [i \in RowIds |-> IF i \in Of(e) THEN NoRow ELSE table[i]]
    /\ touched' = IF append THEN touched ELSE touched \cup Of(e)
    /\ UNCHANGED <<cache, daemon, syncing, assigned>>

\* The camera and the models.
EnrollOpens ==
    /\ enroll = "open"
    /\ enroll' = "capture"
    /\ UNCHANGED <<table, cache, daemon, syncing, employee, captured, assigned, inserted,
                   replaced, touched>>

\* They are not to be had, or the operator breaks off: what was deleted and
\* inserted stays so.
EnrollEnds ==
    /\ enroll # "none"
    /\ enroll' = "none"
    /\ employee' = Nobody
    /\ captured' = 0
    /\ inserted' = {}
    /\ replaced' = 0
    /\ UNCHANGED <<table, cache, daemon, syncing, assigned, touched>>

\* A plausible bug: the id is the number of rows and one.
NextId_Count == Cardinality(Used) + 1

\* The rowid SQLite gives: one more than the greatest, without AUTOINCREMENT.
NextId == IF Used = {} THEN 1 ELSE Max(Used) + 1

\* while (captured < args.photos)
More == captured < Photos

\* A plausible bug: the counter advances whether or not the insert succeeds
\* (the database may be locked by facegate).
Insert_CountsFirst ==
    /\ enroll = "capture"
    /\ More
    /\ NextId <= MaxId
    /\ captured' = captured + 1
    /\ \/ UNCHANGED <<table, inserted, touched>>
       \/ /\ table' = [table EXCEPT ![NextId] = [owner |-> employee, by |-> "enroll"]]
          /\ inserted' = inserted \cup {NextId}
          /\ touched' = touched \cup {NextId}
    /\ UNCHANGED <<cache, daemon, syncing, enroll, employee, assigned, replaced>>

\* insert_embedding.  A frame, a face or an embedding that is missing, or an
\* insert that throws, only makes the loop try again.
Insert ==
    /\ enroll = "capture"
    /\ More
    /\ NextId <= MaxId
    /\ captured' = captured + 1
    /\ table' = [table EXCEPT ![NextId] = [owner |-> employee, by |-> "enroll"]]
    /\ inserted' = inserted \cup {NextId}
    /\ touched' = touched \cup {NextId}
    /\ UNCHANGED <<cache, daemon, syncing, enroll, employee, assigned, replaced>>

EnrollDone ==
    /\ enroll = "capture"
    /\ ~More
    /\ enroll' = "done"
    /\ UNCHANGED <<table, cache, daemon, syncing, employee, captured, assigned, inserted,
                   replaced, touched>>

-----------------------------------------------------------------------------
(* facegate.                                                               *)

\* load_all_embeddings into a new Matcher.
DaemonStarts ==
    /\ ~daemon
    /\ daemon' = TRUE
    /\ cache' = table
    /\ touched' = {}
    /\ UNCHANGED <<table, syncing, enroll, employee, captured, assigned, inserted,
                   replaced>>

\* It ends, by a signal or a crash, at any time.
DaemonStops ==
    /\ daemon
    /\ daemon' = FALSE
    /\ cache' = [i \in RowIds |-> NoRow]
    /\ syncing' = Nothing
    /\ UNCHANGED <<table, enroll, employee, captured, assigned, inserted,
                   replaced, touched>>

\* The backend stores another embedding.
Assign(e) ==
    /\ \E i \in 1..MaxSynced :
           /\ assigned[i] = Nobody
           /\ \A j \in 1..(i - 1) : assigned[j] # Nobody
           /\ assigned' = [assigned EXCEPT ![i] = e]
    /\ UNCHANGED <<table, cache, daemon, syncing, enroll, employee, captured, inserted,
                   replaced, touched>>

\* The row is no longer this enrolment's.
Take(i) ==
    /\ inserted' = inserted \ {i}
    /\ replaced' = IF i \in inserted THEN replaced + 1 ELSE replaced

\* The first call of on_message, on the table; when it throws, the second is
\* not made and nothing has changed.
Store(i, row) ==
    /\ daemon
    /\ syncing = Nothing
    /\ assigned[i] # Nobody
    /\ table' = [table EXCEPT ![i] = row]
    /\ syncing' = [id |-> i, row |-> row]
    /\ Take(i)
    /\ touched' = touched \ {i}
    /\ UNCHANGED <<cache, daemon, enroll, employee, captured, assigned>>

\* A plausible bug: a row that is there is left alone (INSERT OR IGNORE).
SyncUpsert_Ignores(i) ==
    /\ daemon
    /\ syncing = Nothing
    /\ assigned[i] # Nobody
    /\ LET row == [owner |-> assigned[i], by |-> "sync"]
       IN  /\ table' = IF table[i] = NoRow THEN [table EXCEPT ![i] = row] ELSE table
           /\ syncing' = [id |-> i, row |-> row]
    /\ touched' = touched \ {i}
    /\ UNCHANGED <<inserted, replaced, cache, daemon, enroll, employee, captured,
                   assigned>>

\* upsert_embedding replaces.
SyncUpsert(i) == Store(i, [owner |-> assigned[i], by |-> "sync"])

\* delete_embedding.
SyncRemove(i) == Store(i, NoRow)

\* The second call: Matcher::upsert or remove.
SyncMatcher ==
    /\ syncing # Nothing
    /\ cache' = [cache EXCEPT ![syncing.id] = syncing.row]
    /\ syncing' = Nothing
    /\ UNCHANGED <<table, daemon, enroll, employee, captured, assigned, inserted,
                   replaced, touched>>

EnrollmentNext ==
    \/ \E e \in Staff, append \in BOOLEAN : EnrollStarts(e, append)
    \/ EnrollOpens \/ EnrollEnds \/ Insert \/ EnrollDone
    \/ DaemonStarts \/ DaemonStops
    \/ \E e \in Staff : Assign(e)
    \/ \E i \in 1..MaxSynced : SyncUpsert(i) \/ SyncRemove(i)
    \/ SyncMatcher

EnrollmentSpec == EnrollmentInit /\ [][EnrollmentNext]_enrollmentVars

-----------------------------------------------------------------------------
(* Properties.                                                             *)

\* Between two starts of facegate its matcher differs from the table in rows
\* that the enrolment program has written or deleted, in the one row of the
\* message in hand, and in no other.
CacheFollowsTable ==
    daemon => \A i \in RowIds \ touched : cache[i] = table[i] \/ i = syncing.id

\* What the enrolment program reports as saved is in the table, but for rows
\* that facegate has replaced or removed because the backend has assigned the
\* same ids to others.
SavedUnlessReplaced ==
    /\ \A i \in inserted : table[i] = [owner |-> employee, by |-> "enroll"]
    /\ Cardinality(inserted) + replaced = captured

\* The two programs that write the table diverge no further than this.
TwoWritersApart == CacheFollowsTable /\ SavedUnlessReplaced

=============================================================================
