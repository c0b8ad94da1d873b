---- MODULE ResearchRun ----
(***************************************************************************)
(* run_train_test_backtest of src/pipeline/real_backtest.py: the span is   *)
(* split, and each window is backtested on its own through a source pinned *)
(* at the window's own end.                                                *)
(*                                                                         *)
(* The data source is external.  An honest one answers a query with        *)
(* records of the window asked for; a leaky one answers with anything.     *)
(* Prices are the days on which the universe has bars, fundamentals are    *)
(* rows with their report date; factor values and statistics are left out: *)
(* a score keeps its day and the rows it was computed from, and whether    *)
(* some day has a computable IC, and the verdict, are open.  The audit log *)
(* and the directory for the results are optional, as they are in the      *)
(* code: without the one no verdict is recorded, without the other nothing *)
(* is written.                                                             *)
(***************************************************************************)
EXTENDS Splits

CONSTANTS Start, LastEnd,   \* the span begins at Start and ends by LastEnd
          Embargo,          \* the embargos tried
          Lookback,         \* lookback_days
          ScoreEvery,       \* score_every
          Horizon,          \* DEFAULT_FORWARD_HORIZON_DAYS, in bars
          MaxRows           \* bound: how many fundamentals a query returns

ASSUME RunAssumption ==
    /\ {Start, LastEnd} \subseteq Int
    /\ Embargo \subseteq Nat
    /\ {Lookback, MaxRows} \subseteq Nat
    /\ {ScoreEvery, Horizon} \subseteq Nat \ {0}

Bars == [date : (Start - Lookback)..LastEnd]
Rows == [report_date : (Start - Lookback)..LastEnd, is_point_in_time : BOOLEAN]

ASSUME ErrorAssumption ==
    /\ SplitError \notin [train : Window, test : Window]
    /\ \A reply \in SUBSET Bars : reply # Leak
    /\ \A reply \in SUBSET Rows : reply # Leak

VARIABLES honest,      \* whether the source is
          logged,      \* whether the caller gave an audit log
          kept,        \* whether the caller gave a directory for the results
          embargo,     \* the embargo asked for
          split,       \* what make_train_test_split returned
          job,         \* the backtest under way
          audit,       \* the verdicts recorded
          artifacts    \* the windows whose result is on disk

asked == <<honest, logged, kept, embargo, split>>
vars  == <<asked, job, audit, artifacts>>

Ends     == Start..LastEnd
Score    == [date : (Start - Lookback)..LastEnd, rows : SUBSET Rows]
Sides    == {"train", "test"}
Running  == {"prices", "fundamentals", "scores", "backtest", "write"}
Failures == {"leak", "not point in time", "no scores", "no ic", "not recorded", "not written"}
Steps    == Running \cup Failures \cup {"done", "no split"}

Begin(side) == [side |-> side, step |-> "prices", prices |-> {}, rows |-> {}, scores |-> {}]

Init == /\ honest \in BOOLEAN
        /\ logged \in BOOLEAN
        /\ kept \in BOOLEAN
        /\ embargo \in Embargo
        /\ \E end \in Ends, fraction \in 0..10 :
             split = MakeTrainTestSplit(Start, end, fraction, embargo)
        /\ job = IF split = SplitError THEN [Begin("train") EXCEPT !.step = "no split"]
                 ELSE Begin("train")
        /\ audit = <<>>
        /\ artifacts = {}

window == split[job.side]

\* What the source may answer when asked for records of start..end.
Replies(universe, start, end) ==
    IF honest THEN SUBSET {r \in universe : KnowledgeDate(r) \in start..end}
    ELSE SUBSET universe

\* A slip of Pinned, for the runs to refute: one source for both windows.
PinnedAtSpanEnd(side) == split.test.end

\* PITDataSource(source, as_of=end).
Pinned(side) == split[side].end

FetchPrices ==
    /\ job.step = "prices"
    /\ \E bars \in Replies(Bars, window.start, Clamp(window.end, Pinned(job.side))) :
         LET answer == Answer(bars, window.start, Pinned(job.side))
         IN  job' = IF answer = Leak THEN [job EXCEPT !.step = "leak"]
                    ELSE [job EXCEPT !.prices = answer, !.step = "fundamentals"]
    /\ UNCHANGED <<asked, audit, artifacts>>

FetchFundamentals ==
    /\ job.step = "fundamentals"
    /\ \E rows \in Replies(Rows, window.start - Lookback, Clamp(window.end, Pinned(job.side))) :
         LET answer == Answer(rows, window.start - Lookback, Pinned(job.side))
         IN  /\ Cardinality(rows) <= MaxRows
             /\ job' = IF answer = Leak THEN [job EXCEPT !.step = "leak"]
                       ELSE [job EXCEPT !.rows = answer, !.step = "scores"]
    /\ UNCHANGED <<asked, audit, artifacts>>

\* trading_days[::score_every].
ScoreDates(bars) ==
    {b.date : b \in {c \in bars : Cardinality({e \in bars : e.date < c.date}) % ScoreEvery = 0}}

\* A slip of Seen, for the runs to refute.
SeenAll(rows, day) == rows

\* as_of(fundamentals, day), and the same filter again in compute_fundamental_factors.
Seen(rows, day) == {r \in AsOf(rows, day) : r.report_date <= day}

\* compute_fundamental_factors: one batch of scores a day on which some row is known.
Scores(bars, rows) ==
    {s \in {[date |-> d, rows |-> Seen(rows, d)] : d \in ScoreDates(bars)} : s.rows # {}}

ComputeScores ==
    /\ job.step = "scores"
    /\ LET scores == Scores(job.prices, job.rows)
       IN  job' = [job EXCEPT
             !.scores = scores,
             !.step = IF \E s \in scores : \E r \in s.rows : ~r.is_point_in_time
                      THEN "not point in time"
                      ELSE IF scores = {} THEN "no scores" ELSE "backtest"]
    /\ UNCHANGED <<asked, audit, artifacts>>

\* compute_forward_returns: the bar Horizon bars after a day ends its label.
LabelEnds(bars, day) ==
    {b.date : b \in {c \in bars : /\ day < c.date
                                  /\ Cardinality({e \in bars : day <= e.date /\ e.date < c.date})
                                     = Horizon}}

Labelled == {s \in job.scores : LabelEnds(job.prices, s.date) # {}}

Verdicts(side) == {[side |-> side, passed |-> passed] : passed \in BOOLEAN}

\* A slip of Backtest, for the runs to refute: only what passes is recorded.
BacktestPassesOnly ==
    /\ job.step = "backtest"
    /\ Labelled # {}
    /\ \E verdict \in Verdicts(job.side) :
         audit' = IF logged /\ verdict.passed THEN Append(audit, verdict) ELSE audit
    /\ job' = [job EXCEPT !.step = "write"]
    /\ UNCHANGED <<asked, artifacts>>

\* run_backtest records its verdict in the audit log, passed or not, if there is one; the
\* write to the log may raise.
Backtest ==
    /\ job.step = "backtest"
    /\ \/ job' = [job EXCEPT !.step = "no ic"] /\ UNCHANGED audit
       \/ /\ Labelled # {} /\ logged
          /\ job' = [job EXCEPT !.step = "not recorded"] /\ UNCHANGED audit
       \/ /\ Labelled # {} /\ logged
          /\ \E verdict \in Verdicts(job.side) : audit' = Append(audit, verdict)
          /\ job' = [job EXCEPT !.step = "write"]
       \/ /\ Labelled # {} /\ ~logged
          /\ job' = [job EXCEPT !.step = "write"] /\ UNCHANGED audit
    /\ UNCHANGED <<asked, artifacts>>

\* The artifact is written with its sidecar, if there is a directory for it; then the next
\* window begins.
Write ==
    /\ job.step = "write"
    /\ \/ kept /\ job' = [job EXCEPT !.step = "not written"] /\ UNCHANGED artifacts
       \/ /\ artifacts' = IF kept THEN artifacts \cup {job.side} ELSE artifacts
          /\ job' = IF job.side = "train" THEN Begin("test") ELSE [job EXCEPT !.step = "done"]
    /\ UNCHANGED <<asked, audit>>

Next == FetchPrices \/ FetchFundamentals \/ ComputeScores \/ Backtest \/ Write

Spec == Init /\ [][Next]_vars
---------------------------------------------------------------------------
\* The state is well formed, and a window starts with nothing of the one before.
TypeOK ==
    /\ {honest, logged, kept} \subseteq BOOLEAN
    /\ embargo \in Embargo
    /\ split = SplitError \/ split \in [train : Window, test : Window]
    /\ job \in [side : Sides, step : Steps, prices : SUBSET Bars, rows : SUBSET Rows,
                scores : SUBSET Score]
    /\ job.step = "prices" => job = Begin(job.side)
    /\ audit \in Seq([side : Sides, passed : BOOLEAN])
    /\ artifacts \subseteq Sides

\* The two windows keep at least the embargo between them and lie in the span, and no
\* set of records split between them can be refused by assert_out_of_sample
\* (splits.py make_train_test_split, split_by_date).
WindowsKeepApart ==
    split # SplitError =>
        /\ EmbargoDays(split) >= embargo
        /\ split.train.start = Start
        /\ split.train.end - split.train.start >= MinWindowDays
        /\ split.test.end - split.test.start >= MinWindowDays
        /\ LET sides == SplitByDate(Bars, split)
           IN  OutOfSample(sides.train, sides.test, embargo)

\* No score uses a row reported after its day, and nothing reported or traded after a
\* window's end enters its scores or labels, however the source answers
\* (pit.py PITDataSource, real_backtest.py run_fundamental_backtest).
NoLookAhead ==
    /\ \A s \in job.scores : \A r \in s.rows : KnowledgeDate(r) <= s.date
    /\ \A s \in job.scores : s.date <= window.end
    /\ \A s \in job.scores : \A e \in LabelEnds(job.prices, s.date) : e <= window.end

\* While training, no price, row or label is as late as the embargo before the test
\* window (real_backtest.py run_train_test_backtest).
TrainNeverSeesTest ==
    split # SplitError /\ job.side = "train" =>
        /\ \A b \in job.prices : b.date + embargo < split.test.start
        /\ \A r \in job.rows : r.report_date + embargo < split.test.start

\* When the caller keeps an audit log, no result is on disk before its verdict is in it,
\* passed or not, and the log has one verdict for a window at most, train before test.  With
\* a log or without, the test window is opened only after all that was asked for of the train
\* window is there (backtest_runner.py run_backtest, real_backtest.py run_train_test_backtest).
ResultsAreAudited ==
    /\ logged => \A side \in artifacts : \E i \in DOMAIN audit : audit[i].side = side
    /\ \A i, j \in DOMAIN audit : i < j => audit[i].side = "train" /\ audit[j].side = "test"
    /\ job.side = "test" =>
         /\ logged => \E i \in DOMAIN audit : audit[i].side = "train"
         /\ kept => "train" \in artifacts

\* A source that answers within the window asked for is never refused.
HonestNeverRefused == honest => job.step # "leak"
====
