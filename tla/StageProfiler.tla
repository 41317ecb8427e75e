---------------------------- MODULE StageProfiler ----------------------------
(***************************************************************************)
(* StageProfiler: the timings of the cycles of Pipeline::main_loop, kept   *)
(* per stage in windows and summarized every summary_interval_cycles_      *)
(* cycles and once more, for the rest, by the destructor; also appended to *)
(* a CSV file that outlives the process.                                   *)
(***************************************************************************)
EXTENDS Naturals, Sequences, FiniteSets

CONSTANTS
    Samples,    \* cycles the loop may time: a stage or more -> microseconds
    Intervals,  \* the summary_interval_cycles configured; <= 0 written as 0
    MaxCycles,  \* bound: cycles of one process
    MaxRuns     \* bound: processes

Stages == {"capture", "detect", "embed", "match", "publish"}
Windows == Stages \cup {"total"}

ASSUME ProfilerAssumption ==
    /\ \A s \in Samples :
           /\ "capture" \in DOMAIN s /\ DOMAIN s \subseteq Stages
           /\ s \in [DOMAIN s -> Nat]
    /\ Intervals \subseteq Nat
    /\ MaxCycles \in Nat /\ MaxRuns \in Nat

VARIABLES
    running,     \* the profiler exists
    interval,    \* summary_interval_cycles_
    csvOpen,     \* csv_.is_open()
    windows,     \* capture_, detect_, ..., total_
    cycleIndex,  \* cycle_index_
    sinceSummary,\* cycles_since_summary_
    summary,     \* the summary just emitted: window -> statistics, or <<>>
    csvFile,        \* the CSV file: headers and rows, or <<>> before the first
    runs,        \* processes started
    summarized,  \* history: cycles in the summaries of this process
    timed        \* history: what was recorded since the last summary

profilerVars == <<running, interval, csvOpen, windows, cycleIndex, sinceSummary,
                  summary, csvFile, runs, summarized, timed>>

ProfilerTypeOK ==
    /\ running \in BOOLEAN
    /\ interval \in Intervals
    /\ csvOpen \in BOOLEAN
    /\ windows \in [Windows -> Seq(Nat)]
    /\ cycleIndex \in 0..MaxCycles
    /\ sinceSummary \in 0..cycleIndex
    /\ summarized \in 0..MaxCycles
    /\ runs \in 0..MaxRuns
    /\ interval > 0 => sinceSummary < interval

NoSamples == [w \in Windows |-> <<>>]

ProfilerInit ==
    /\ running = FALSE
    /\ interval \in Intervals
    /\ csvOpen = FALSE
    /\ windows = NoSamples
    /\ cycleIndex = 0
    /\ sinceSummary = 0
    /\ summary = <<>>
    /\ csvFile = <<>>
    /\ runs = 0
    /\ summarized = 0
    /\ timed = <<>>

\* The file is appended to; one that cannot be opened is done without.
Construct ==
    /\ ~running
    /\ runs < MaxRuns
    /\ running' = TRUE
    /\ runs' = runs + 1
    /\ \/ csvOpen' = FALSE /\ UNCHANGED csvFile
       \/ /\ csvOpen' = TRUE
          /\ csvFile' = IF csvFile = <<>> THEN [headers |-> 1, rows |-> 0] ELSE csvFile
    /\ windows' = NoSamples
    /\ cycleIndex' = 0
    /\ sinceSummary' = 0
    /\ summary' = <<>>
    /\ summarized' = 0
    /\ timed' = <<>>
    /\ UNCHANGED interval

\* The total that record and append_csv_row compute, of the stages that ran.
Total(sample) ==
    LET Of(stage) == IF stage \in DOMAIN sample THEN sample[stage] ELSE 0
    IN  Of("capture") + Of("detect") + Of("embed") + Of("match") + Of("publish")

WithTotal(sample) ==
    [w \in DOMAIN sample \cup {"total"} |->
        IF w = "total" THEN Total(sample) ELSE sample[w]]

\* push: a stage that did not run leaves its window alone.
Push(ws, sample) ==
    [w \in Windows |-> IF w \in DOMAIN sample THEN Append(ws[w], sample[w]) ELSE ws[w]]

\* A plausible bug: the index is rounded up.
Pick_Above(sorted, percent) ==
    LET n == Len(sorted)
        i == (percent * n) \div 100 + 1
    IN  sorted[IF i < n THEN i + 1 ELSE n]

\* pick(q): samples[min(size - 1, floor(q * size))], counted from 0.
Pick(sorted, percent) ==
    LET n == Len(sorted)
        i == (percent * n) \div 100
    IN  sorted[IF i < n - 1 THEN i + 1 ELSE n]

\* Where std::sort may put the i-th sample; equal ones are interchangeable.
Position(samples, i) ==
    Cardinality({j \in DOMAIN samples :
        samples[j] < samples[i] \/ (samples[j] = samples[i] /\ j <= i)})

Ascending(samples) ==
    [k \in DOMAIN samples |->
        samples[CHOOSE i \in DOMAIN samples : Position(samples, i) = k]]

\* summarize; the mean (of doubles) is left out.
Summarize(samples) ==
    LET sorted == Ascending(samples)
    IN  IF samples = <<>> THEN [n |-> 0]
        ELSE [n |-> Len(samples), p50 |-> Pick(sorted, 50),
              p95 |-> Pick(sorted, 95), max |-> sorted[Len(sorted)]]

\* A plausible bug: only the counter is reset.
EmitSummary_KeepsSamples(ws) ==
    /\ summary' = [w \in Windows |-> Summarize(ws[w])]
    /\ windows' = ws
    /\ sinceSummary' = 0
    /\ summarized' = summarized + summary'["total"].n

EmitSummary(ws) ==
    /\ summary' = [w \in Windows |-> Summarize(ws[w])]
    /\ windows' = NoSamples
    /\ sinceSummary' = 0
    /\ summarized' = summarized + summary'["total"].n

SummaryDue(cycles) == interval > 0 /\ cycles >= interval

Record(sample) ==
    /\ running
    /\ cycleIndex < MaxCycles
    /\ cycleIndex' = cycleIndex + 1
    /\ csvFile' = IF csvOpen THEN [csvFile EXCEPT !.rows = @ + 1] ELSE csvFile
    /\ timed' = Append(IF summary = <<>> THEN timed ELSE <<>>, WithTotal(sample))
    /\ LET pushed == Push(windows, WithTotal(sample))
       IN  \/ SummaryDue(sinceSummary + 1) /\ EmitSummary(pushed)
           \/ /\ ~SummaryDue(sinceSummary + 1)
              /\ windows' = pushed
              /\ sinceSummary' = sinceSummary + 1
              /\ summary' = <<>>
              /\ UNCHANGED summarized
    /\ UNCHANGED <<running, interval, csvOpen, runs>>

\* ~StageProfiler.
DestroyProfiler ==
    /\ running
    /\ running' = FALSE
    /\ csvOpen' = FALSE
    /\ IF sinceSummary > 0 /\ interval > 0
       THEN EmitSummary(windows) /\ UNCHANGED timed
       ELSE UNCHANGED <<summary, windows, sinceSummary, summarized, timed>>
    /\ UNCHANGED <<interval, cycleIndex, csvFile, runs>>

ProfilerNext ==
    \/ Construct
    \/ \E s \in Samples : Record(s)
    \/ DestroyProfiler
    \/ ~running /\ runs = MaxRuns /\ UNCHANGED profilerVars

ProfilerSpec == ProfilerInit /\ [][ProfilerNext]_profilerVars

-----------------------------------------------------------------------------
(* Properties.                                                             *)

\* Every cycle is in one summary and only one: with the cycles not yet
\* summarized they are all there are, and the destructor leaves none.
EachCycleSummarized ==
    interval > 0 =>
        /\ summarized + sinceSummary = cycleIndex
        /\ ~running => summarized = cycleIndex

\* A summary is of the cycles recorded since the one before: n counts those
\* that came to the stage, and the percentiles are values of theirs that at
\* least that share does not exceed and at most that share falls below.
SummaryOfItsCycles ==
    summary # <<>> =>
        \A w \in Windows :
            LET ran == {i \in DOMAIN timed : w \in DOMAIN timed[i]}
                AtMost(v) == Cardinality({i \in ran : timed[i][w] <= v})
                Below(v) == Cardinality({i \in ran : timed[i][w] < v})
                Quantile(v, percent) ==
                    /\ 100 * AtMost(v) >= percent * Cardinality(ran)
                    /\ 100 * Below(v) <= percent * Cardinality(ran)
            IN  /\ summary[w].n = Cardinality(ran)
                /\ ran # {} =>
                       /\ Quantile(summary[w].p50, 50)
                       /\ Quantile(summary[w].p95, 95)
                       /\ AtMost(summary[w].max) = Cardinality(ran)
                       /\ Below(summary[w].max) < Cardinality(ran)

\* The summaries tell of every cycle once, and of no other.
SummariesAddUp == EachCycleSummarized /\ SummaryOfItsCycles

=============================================================================
