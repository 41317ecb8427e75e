----------------------------- MODULE Analytics -----------------------------
(***************************************************************************)
(* The readers of access_events: the panel's export of events, which asks  *)
(* the backend page by page while events go on arriving, and the delay of  *)
(* an employee from the start of her shift, which the backend computes of  *)
(* the first entry of each day.                                            *)
(*                                                                         *)
(* The query of a page orders by timestamp_ms and nothing else: events of  *)
(* one millisecond come in an order of their own in every query.           *)
(***************************************************************************)
EXTENDS Integers, Sequences, SequencesExt, FiniteSets, TLC

CONSTANTS
    Events,    \* [id, who, time, granted, inward]: all that may ever arrive
    Limits,    \* exportLimitOptions
    PageSize,  \* EXPORT_PAGE_SIZE, and the backend's largest limit
    MaxPages,  \* EXPORT_MAX_PAGES
    Targets,   \* selections of employees: sequences, <<>> for all of them
    Day,       \* 86400 s
    ShiftStart \* employee -> the start of her shift, within a day

\* The target of an export of all employees: undefined.
All == "all"
Employees == DOMAIN ShiftStart

ASSUME AnalyticsAssumption ==
    /\ \A e \in Events : /\ e.who \in Employees /\ e.time \in Nat
                         /\ e.granted \in BOOLEAN /\ e.inward \in BOOLEAN
    /\ PageSize \in Nat \ {0} /\ MaxPages \in Nat \ {0}
    /\ Limits \subseteq 1..(MaxPages * PageSize)
    /\ \A selected \in Targets : selected \in Seq(Employees) /\ IsInjective(selected)
    /\ All \notin Employees
    /\ Day \in Nat \ {0} /\ Day % 2 = 0
    /\ \A who \in Employees : ShiftStart[who] \in 0..(Day - 1)

VARIABLES
    stored,    \* access_events
    export,    \* what submitExport does
    selection, \* this.exportSelectedEmployees
    targets,   \* employees it has still to fetch
    max,       \* this.exportLimit
    collected, \* the rows of the employees fetched
    fetched,   \* the rows of the present one
    offset, page,
    exported,  \* the rows of the CSV file
    before     \* history: access_events when the export began

exportVars == <<export, selection, targets, max, collected, fetched, offset, page,
                exported, before>>
analyticsVars == <<stored, exportVars>>

AnalyticsTypeOK ==
    /\ stored \subseteq Events
    /\ before \subseteq stored
    /\ export \in {"idle", "fetch", "done", "failed"}
    /\ Len(fetched) <= max
    /\ page <= MaxPages
    /\ Len(exported) <= max

AnalyticsInit ==
    /\ stored = {}
    /\ export = "idle"
    /\ selection = <<>>
    /\ targets = <<>>
    /\ max \in Limits
    /\ collected = <<>>
    /\ fetched = <<>>
    /\ offset = 0
    /\ page = 0
    /\ exported = <<>>
    /\ before = {}

\* The subscriber stores an event: of any time, an edge may have been offline.
Arrive(e) ==
    /\ e \notin stored
    /\ stored' = stored \cup {e}
    /\ UNCHANGED exportVars

\* The panel's query of one page.
Matching(target) == {e \in stored : e.granted /\ target \in {All, e.who}}

NewestFirst(s) == \A i, j \in DOMAIN s : i < j => s[i].time >= s[j].time

\* SQL's LIMIT and OFFSET, slice: what there is of the rows from the i-th on.
Slice(s, i, n) == SubSeq(s, i, IF i + n - 1 < Len(s) THEN i + n - 1 ELSE Len(s))

Answers(target, limit) ==
    {Slice(s, offset + 1, limit) :
        s \in {q \in SetToSeqs(Matching(target)) : NewestFirst(q)}}

SubmitExport(selected) ==
    /\ export = "idle"
    /\ export' = "fetch"
    /\ selection' = selected
    /\ targets' = IF selected = <<>> THEN <<All>> ELSE selected
    /\ before' = stored
    /\ UNCHANGED <<stored, max, collected, fetched, offset, page, exported>>

PageLimit == IF PageSize < max - Len(fetched) THEN PageSize ELSE max - Len(fetched)

LastBatch(batch) ==
    \/ Len(batch) < PageLimit
    \/ Len(fetched) + Len(batch) = max
    \/ page + 1 = MaxPages

\* A plausible bug: the rows of several employees are cut before they are sorted.
Top_Unsorted(rows) == Slice(rows, 1, max)

\* Where collected.sort(...) puts the i-th row: newest first, and rows of one
\* time in the order they had.
Place(rows, i) ==
    Cardinality({j \in DOMAIN rows :
        \/ rows[j].time > rows[i].time
        \/ rows[j].time = rows[i].time /\ j <= i})

Sorted(rows) ==
    [k \in DOMAIN rows |-> rows[CHOOSE i \in DOMAIN rows : Place(rows, i) = k]]

\* collected.sort(...).slice(0, this.exportLimit)
Top(rows) == Slice(Sorted(rows), 1, max)

\* A plausible bug: every page is asked for from the start.
NextOffset_Same(batch) == offset

NextOffset(batch) == offset + Len(batch)

\* A page of fetchGrantedEvents that is not the last one.
Page ==
    /\ export = "fetch"
    /\ \E batch \in Answers(Head(targets), PageLimit) :
           /\ ~LastBatch(batch)
           /\ fetched' = fetched \o batch
           /\ offset' = NextOffset(batch)
    /\ page' = page + 1
    /\ UNCHANGED <<stored, export, selection, targets, max, collected, exported, before>>

\* The last page of an employee: on to the next, or to the file.
LastPage ==
    /\ export = "fetch"
    /\ \E batch \in Answers(Head(targets), PageLimit) :
           /\ LastBatch(batch)
           /\ collected' = collected \o fetched \o batch
    /\ fetched' = <<>> /\ offset' = 0 /\ page' = 0
    /\ targets' = Tail(targets)
    /\ IF targets' = <<>>
       THEN export' = "done" /\ exported' = Top(collected')
       ELSE UNCHANGED <<export, exported>>
    /\ UNCHANGED <<stored, selection, max, before>>

\* A request fails: nothing is downloaded.
ExportFails ==
    /\ export = "fetch"
    /\ export' = "failed"
    /\ UNCHANGED <<stored, selection, targets, max, collected, fetched, offset, page,
                   exported, before>>

AnalyticsNext ==
    \/ \E e \in Events : Arrive(e)
    \/ \E selected \in Targets : SubmitExport(selected)
    \/ Page \/ LastPage \/ ExportFails
    \/ export \in {"done", "failed"} /\ stored = Events /\ UNCHANGED analyticsVars

AnalyticsSpec == AnalyticsInit /\ [][AnalyticsNext]_analyticsVars

-----------------------------------------------------------------------------
(* avg_delay.                                                              *)

\* first_per_day.
Entries(who) == {e \in stored : e.who = who /\ e.granted /\ e.inward}
FirstEntries(who) ==
    {e \in Entries(who) :
        \A f \in Entries(who) : f.time \div Day = e.time \div Day => e.time <= f.time}

\* SQL's MOD has the sign of the dividend.
SqlMod(a, b) == IF a >= 0 THEN a % b ELSE 0 - ((0 - a) % b)

\* A plausible bug: a whole day is not added before MOD.
Delay_NoDay(e) ==
    SqlMod((e.time % Day) - ShiftStart[e.who] + (Day \div 2), Day) - (Day \div 2)

Delay(e) ==
    SqlMod((e.time % Day) - ShiftStart[e.who] + (Day \div 2) + Day, Day) - (Day \div 2)

-----------------------------------------------------------------------------
(* Properties.                                                             *)

Selected(e) == selection = <<>> \/ e.who \in ToSet(selection)

\* The export misses no granted event of the employees selected that was
\* there when it began and is among the newest of them, as many as the limit
\* allows, when it ends, although the pages shift while events arrive: but for
\* events of one millisecond, which the pages may order differently.
ExportKeepsNewest ==
    export = "done" =>
        LET rows == {e \in stored : e.granted /\ Selected(e)}
        IN  \A e \in rows \cap before :
                \/ e \in ToSet(exported)
                \/ Cardinality({f \in rows : f.time >= e.time}) > max
                \/ \E f \in rows \ {e} : f.time = e.time

Distance(a, b) == IF a < b THEN b - a ELSE a - b

\* The delay of a day is the time from the nearest start of the shift, on
\* this day or a neighbour: a night shift's entry after midnight is late, not
\* early.  Half a day from both it may be either.
DelayFromNearestStart ==
    \A who \in Employees : \A e \in FirstEntries(who) :
        LET starts == {ShiftStart[who] + d * Day : d \in -1..(e.time \div Day + 1)}
        IN  /\ e.time - Delay(e) \in starts
            /\ \A s \in starts : Distance(e.time, s) >= Distance(Delay(e), 0)

=============================================================================
