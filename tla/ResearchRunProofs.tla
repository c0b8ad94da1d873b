---- MODULE ResearchRunProofs ----
(***************************************************************************)
(* Proofs about ResearchRun, for every span, embargo, lookback, horizon    *)
(* and source.                                                             *)
(***************************************************************************)
EXTENDS ResearchRun, SequenceTheorems, TLAPS

(***************************************************************************)
(* When a bar and a row become knowable.                                   *)
(***************************************************************************)
LEMMA BarDates == \A b \in Bars : KnowledgeDate(b) = b.date
<1>1. TAKE b \in Bars
<1>2. DOMAIN b = {"date"}
  BY DEF Bars
<1>3. {i \in DOMAIN KNOWLEDGE_DATE_ATTRS : KNOWLEDGE_DATE_ATTRS[i] \in DOMAIN b} = {4}
  BY <1>2 DEF KNOWLEDGE_DATE_ATTRS
<1>4. Min({4}) = 4
  BY DEF Min
<1> QED
  BY <1>3, <1>4 DEF KnowledgeDate, KNOWLEDGE_DATE_ATTRS

\* The knowledge date of a fundamentals row is its report date (pit.py knowledge_date).
LEMMA RowDates == \A r \in Rows : KnowledgeDate(r) = r.report_date
<1>1. TAKE r \in Rows
<1>2. DOMAIN r = {"report_date", "is_point_in_time"}
  BY DEF Rows
<1>3. {i \in DOMAIN KNOWLEDGE_DATE_ATTRS : KNOWLEDGE_DATE_ATTRS[i] \in DOMAIN r} = {1}
  BY <1>2 DEF KNOWLEDGE_DATE_ATTRS
<1>4. Min({1}) = 1
  BY DEF Min
<1> QED
  BY <1>3, <1>4 DEF KnowledgeDate, KNOWLEDGE_DATE_ATTRS

(***************************************************************************)
(* A guarded answer is the reply, all of it knowable by the as-of date, or *)
(* an error; or nothing was asked.                                         *)
(***************************************************************************)
LEMMA AnswersAreGuarded ==
  ASSUME NEW reply, NEW start, NEW asOf, Answer(reply, start, asOf) # Leak
  PROVE  /\ Answer(reply, start, asOf) \in {{}, reply}
         /\ \A r \in Answer(reply, start, asOf) : KnowledgeDate(r) <= asOf
  BY DEF Answer, Guarded, AsOf

(***************************************************************************)
(* A split keeps its embargo.                                              *)
(***************************************************************************)
LEMMA RoundedType == \A tenths \in Int : Rounded(tenths) \in Int
  BY DEF Rounded

\* A split that make_train_test_split returns covers the span, gives the training window its
\* minimum length, and leaves exactly the embargo between the windows (splits.py).
LEMMA SplitsKeepGap ==
  ASSUME NEW start \in Int, NEW end \in Int, NEW fraction \in Int, NEW gap \in Nat,
         MakeTrainTestSplit(start, end, fraction, gap) # SplitError
  PROVE  LET s == MakeTrainTestSplit(start, end, fraction, gap)
         IN  /\ s \in [train : Window, test : Window]
             /\ s.train.start = start
             /\ s.test.end = end
             /\ EmbargoDays(s) = gap
             /\ s.train.end - s.train.start >= MinWindowDays
             /\ s.test.end - s.test.start >= MinWindowDays
<1> DEFINE days == Rounded((end - start) * fraction)
           train == [start |-> start, end |-> end - days - (gap + 1)]
           test  == [start |-> end - days, end |-> end]
<1>1. days \in Int
  <2>1. (end - start) * fraction \in Int
    OBVIOUS
  <2> QED BY <2>1, RoundedType
<1> HIDE DEF days
<1>2. MakeTrainTestSplit(start, end, fraction, gap) = [train |-> train, test |-> test]
  BY DEF MakeTrainTestSplit, TrainTestSplit, days
<1>3. train \in Window /\ test \in Window
  BY <1>1 DEF Window
<1>4. end - days - (gap + 1) - start >= MinWindowDays /\ days >= MinWindowDays
  BY <1>1, SplitsAssumption DEF MakeTrainTestSplit, days
<1> QED
  BY <1>1, <1>2, <1>3, <1>4, SplitsAssumption DEF EmbargoDays

(***************************************************************************)
(* The inductive invariant.  What a job holds is bounded by the end of its *)
(* window: each step keeps the bound of the data the step before fetched.  *)
(***************************************************************************)
SplitSound ==
    split # SplitError =>
        /\ EmbargoDays(split) = embargo
        /\ split.train.start = Start
        /\ split.train.end - split.train.start >= MinWindowDays
        /\ split.test.end - split.test.start >= MinWindowDays

JobHasSplit == job.step # "no split" => split # SplitError

DataInWindow ==
    job.step # "no split" =>
        /\ \A b \in job.prices : b.date <= split[job.side].end
        /\ \A r \in job.rows : r.report_date <= split[job.side].end

ScoresInWindow ==
    \A s \in job.scores :
        /\ \E b \in job.prices : s.date = b.date
        /\ \A r \in s.rows : r.report_date <= s.date

NoSplitNoData == job.step = "no split" => job.prices = {} /\ job.rows = {} /\ job.scores = {}

Bounded == /\ TypeOK /\ SplitSound /\ JobHasSplit
           /\ DataInWindow /\ ScoresInWindow /\ NoSplitNoData

\* The windows of the run's split have days for bounds.
LEMMA SplitTypes ==
  ASSUME TypeOK, split # SplitError
  PROVE  /\ \A side \in Sides : split[side] \in Window
         /\ split.train.start \in Int /\ split.train.end \in Int
         /\ split.test.start \in Int /\ split.test.end \in Int
         /\ split.train = split["train"] /\ split.test = split["test"]
  BY DEF TypeOK, Sides, Window

\* A window's job starts with no prices, rows or scores (real_backtest.py
\* run_fundamental_backtest).
LEMMA BeginTypes ==
  \A side \in Sides :
    /\ Begin(side) \in [side : Sides, step : Steps, prices : SUBSET Bars, rows : SUBSET Rows,
                        scores : SUBSET Score]
    /\ Begin(side).side = side /\ Begin(side).step = "prices"
    /\ Begin(side).prices = {} /\ Begin(side).rows = {} /\ Begin(side).scores = {}
  BY DEF Begin, Steps, Running

\* A verdict names its window and whether it passed (backtest_runner.py run_backtest).
LEMMA VerdictTypes ==
  ASSUME NEW side \in Sides, NEW verdict \in Verdicts(side)
  PROVE  verdict \in [side : Sides, passed : BOOLEAN] /\ verdict.side = side
<1>1. PICK passed \in BOOLEAN : verdict = [side |-> side, passed |-> passed]
  BY DEF Verdicts
<1> QED BY <1>1

\* A run starts with a sound split and no data.
LEMMA InitBounded == Init => Bounded
<1> SUFFICES ASSUME Init PROVE Bounded
  OBVIOUS
<1>1. PICK end \in Ends, fraction \in 0..10 :
        split = MakeTrainTestSplit(Start, end, fraction, embargo)
  BY DEF Init
<1>2. Start \in Int /\ end \in Int /\ fraction \in Int /\ embargo \in Nat
  <2>1. embargo \in Nat
    BY RunAssumption DEF Init
  <2>2. Start \in Int /\ LastEnd \in Int
    BY RunAssumption
  <2> QED BY <2>1, <2>2 DEF Ends
<1> USE DEF Init
<1>3. split # SplitError => SplitSound /\ split \in [train : Window, test : Window]
  BY <1>1, <1>2, SplitsKeepGap DEF SplitSound
<1>4. job \in [side : Sides, step : Steps, prices : SUBSET Bars, rows : SUBSET Rows,
               scores : SUBSET Score]
  <2>1. [Begin("train") EXCEPT !.step = "no split"]
          \in [side : Sides, step : Steps, prices : SUBSET Bars, rows : SUBSET Rows,
               scores : SUBSET Score]
    BY BeginTypes DEF Sides, Steps
  <2> QED BY <2>1, BeginTypes DEF Sides
<1>5. /\ job.side = "train" /\ job.prices = {} /\ job.rows = {} /\ job.scores = {}
      /\ job.step = IF split = SplitError THEN "no split" ELSE "prices"
      /\ split # SplitError => job = Begin("train")
  BY DEF Begin
<1>6. TypeOK
  <2>1. audit \in Seq([side : Sides, passed : BOOLEAN])
    BY EmptySeq
  <2>2. job.step = "prices" => job = Begin(job.side)
    <3>1. "no split" # "prices"
      OBVIOUS
    <3>2. job.step = "prices" => split # SplitError
      BY <1>5, <3>1
    <3>3. job.side = "train"
      BY <1>5
    <3> HIDE DEF Init
    <3> QED BY <1>5, <3>2, <3>3
  <2> QED BY <1>3, <1>4, <2>1, <2>2 DEF TypeOK
<1> QED
  BY <1>3, <1>5, <1>6
     DEF Bounded, SplitSound, JobHasSplit, DataInWindow, ScoresInWindow, NoSplitNoData

(***************************************************************************)
(* What the updates of a job leave well typed.                             *)
(***************************************************************************)
Job == [side : Sides, step : Steps, prices : SUBSET Bars, rows : SUBSET Rows,
        scores : SUBSET Score]

Stepped(j, step)            == [j EXCEPT !.step = step]
WithPrices(j, bars)         == [j EXCEPT !.prices = bars, !.step = "fundamentals"]
WithRows(j, rows)           == [j EXCEPT !.rows = rows, !.step = "scores"]
WithScores(j, scores, step) == [j EXCEPT !.scores = scores, !.step = step]

\* Advancing a job changes its step alone.
LEMMA SteppedJob ==
  \A j \in Job : \A step \in Steps :
    /\ Stepped(j, step) \in Job
    /\ Stepped(j, step).step = step     /\ Stepped(j, step).side = j.side
    /\ Stepped(j, step).prices = j.prices /\ Stepped(j, step).rows = j.rows
    /\ Stepped(j, step).scores = j.scores
  BY DEF Job, Stepped

\* Storing the prices of a window changes those and the step alone.
LEMMA PricedJob ==
  \A j \in Job : \A bars \in SUBSET Bars :
    /\ WithPrices(j, bars) \in Job
    /\ WithPrices(j, bars).step = "fundamentals" /\ WithPrices(j, bars).side = j.side
    /\ WithPrices(j, bars).prices = bars         /\ WithPrices(j, bars).rows = j.rows
    /\ WithPrices(j, bars).scores = j.scores
  BY DEF Job, WithPrices, Steps, Running

\* Storing the rows of a window changes those and the step alone.
LEMMA RowedJob ==
  \A j \in Job : \A rows \in SUBSET Rows :
    /\ WithRows(j, rows) \in Job
    /\ WithRows(j, rows).step = "scores"   /\ WithRows(j, rows).side = j.side
    /\ WithRows(j, rows).prices = j.prices /\ WithRows(j, rows).rows = rows
    /\ WithRows(j, rows).scores = j.scores
  BY DEF Job, WithRows, Steps, Running

\* Storing the scores of a window changes those and the step alone.
LEMMA ScoredJob ==
  \A j \in Job : \A scores \in SUBSET Score, step \in Steps :
    /\ WithScores(j, scores, step) \in Job
    /\ WithScores(j, scores, step).step = step     /\ WithScores(j, scores, step).side = j.side
    /\ WithScores(j, scores, step).prices = j.prices
    /\ WithScores(j, scores, step).rows = j.rows
    /\ WithScores(j, scores, step).scores = scores
  BY DEF Job, WithScores

\* Every score is of a day the source has a bar for, and uses rows known on that day
\* (fundamental_factors.py through pit.as_of).
LEMMA ScoreTypes ==
  ASSUME NEW bars \in SUBSET Bars, NEW rows \in SUBSET Rows
  PROVE  /\ Scores(bars, rows) \in SUBSET Score
         /\ \A s \in Scores(bars, rows) :
              /\ \E b \in bars : s.date = b.date
              /\ \A r \in s.rows : r.report_date <= s.date
<1>1. \A d : Seen(rows, d) \in SUBSET Rows /\ \A r \in Seen(rows, d) : r.report_date <= d
  BY DEF Seen, AsOf
<1>2. \A d \in ScoreDates(bars) : \E b \in bars : d = b.date
  BY DEF ScoreDates
<1>3. \A s \in Scores(bars, rows) :
        \E d \in ScoreDates(bars) : s = [date |-> d, rows |-> Seen(rows, d)]
  BY DEF Scores
<1>4. \A b \in bars : b.date \in (Start - Lookback)..LastEnd
  BY DEF Bars
<1> QED
  BY <1>1, <1>2, <1>3, <1>4 DEF Score

\* Every step of the pipeline keeps what a window holds no later than its end; this is the
\* inductive step of the module.
LEMMA StepBounded == Bounded /\ [Next]_vars => Bounded'
<1> SUFFICES ASSUME Bounded, [Next]_vars PROVE Bounded'
  OBVIOUS
<1> USE DEF Bounded
<1>j. job \in Job /\ job.side \in Sides
  BY DEF TypeOK, Job
<1>1. CASE FetchPrices
  <2>1. PICK bars \in Replies(Bars, window.start, Clamp(window.end, Pinned(job.side))) :
          job' = IF Answer(bars, window.start, Pinned(job.side)) = Leak
                 THEN [job EXCEPT !.step = "leak"]
                 ELSE [job EXCEPT !.prices = Answer(bars, window.start, Pinned(job.side)),
                                  !.step = "fundamentals"]
    BY <1>1 DEF FetchPrices
  <2>2. bars \in SUBSET Bars
    BY <2>1 DEF Replies
  <2>3. job.step = "prices" /\ UNCHANGED <<honest, logged, kept, embargo, split, audit, artifacts>>
    BY <1>1 DEF FetchPrices, asked
  <2>4. split # SplitError /\ job.scores = {} /\ job.rows = {}
    <3>1. job = Begin(job.side)
      BY <2>3 DEF TypeOK
    <3> QED BY <2>3, <3>1, <1>j, BeginTypes DEF JobHasSplit
  <2>5. CASE Answer(bars, window.start, Pinned(job.side)) = Leak
    <3>1. job' = Stepped(job, "leak") /\ "leak" \in Steps
      BY <2>1, <2>5 DEF Steps, Failures, Stepped
    <3>2. /\ job' \in Job /\ job'.step = "leak" /\ job'.side = job.side
          /\ job'.prices = job.prices /\ job'.rows = job.rows /\ job'.scores = job.scores
      BY <3>1, <1>j, SteppedJob
    <3> QED
      BY <2>3, <2>4, <3>2 DEF TypeOK, Job, SplitSound, JobHasSplit, DataInWindow,
                              ScoresInWindow, NoSplitNoData
  <2>6. CASE Answer(bars, window.start, Pinned(job.side)) # Leak
    <3> DEFINE answer == Answer(bars, window.start, Pinned(job.side))
    <3>1. answer \in SUBSET Bars /\ \A b \in answer : KnowledgeDate(b) <= Pinned(job.side)
      BY <2>2, <2>6, AnswersAreGuarded
    <3>2. job' = WithPrices(job, answer)
      BY <2>1, <2>6 DEF WithPrices
    <3> HIDE DEF answer
    <3>3. /\ job' \in Job /\ job'.step = "fundamentals" /\ job'.side = job.side
          /\ job'.prices = answer /\ job'.rows = job.rows /\ job'.scores = job.scores
      BY <3>1, <3>2, <1>j, PricedJob
    <3>4. \A b \in answer : b.date <= split[job.side].end
      BY <3>1, BarDates DEF Pinned
    <3> QED
      BY <2>3, <2>4, <3>3, <3>4 DEF TypeOK, Job, SplitSound, JobHasSplit, DataInWindow,
                                    ScoresInWindow, NoSplitNoData
  <2> QED BY <2>5, <2>6
<1>2. CASE FetchFundamentals
  <2>1. PICK rows \in Replies(Rows, window.start - Lookback,
                              Clamp(window.end, Pinned(job.side))) :
          job' = IF Answer(rows, window.start - Lookback, Pinned(job.side)) = Leak
                 THEN [job EXCEPT !.step = "leak"]
                 ELSE [job EXCEPT !.rows = Answer(rows, window.start - Lookback,
                                                  Pinned(job.side)),
                                  !.step = "scores"]
    BY <1>2 DEF FetchFundamentals
  <2>2. rows \in SUBSET Rows
    BY <2>1 DEF Replies
  <2>3. job.step = "fundamentals" /\ UNCHANGED <<honest, logged, kept, embargo, split, audit, artifacts>>
    BY <1>2 DEF FetchFundamentals, asked
  <2>4. split # SplitError
    BY <2>3 DEF JobHasSplit
  <2>5. CASE Answer(rows, window.start - Lookback, Pinned(job.side)) = Leak
    <3>1. job' = Stepped(job, "leak") /\ "leak" \in Steps
      BY <2>1, <2>5 DEF Steps, Failures, Stepped
    <3>2. /\ job' \in Job /\ job'.step = "leak" /\ job'.side = job.side
          /\ job'.prices = job.prices /\ job'.rows = job.rows /\ job'.scores = job.scores
      BY <3>1, <1>j, SteppedJob
    <3> QED
      BY <2>3, <2>4, <3>2 DEF TypeOK, Job, SplitSound, JobHasSplit, DataInWindow,
                              ScoresInWindow, NoSplitNoData
  <2>6. CASE Answer(rows, window.start - Lookback, Pinned(job.side)) # Leak
    <3> DEFINE answer == Answer(rows, window.start - Lookback, Pinned(job.side))
    <3>1. answer \in SUBSET Rows /\ \A r \in answer : KnowledgeDate(r) <= Pinned(job.side)
      BY <2>2, <2>6, AnswersAreGuarded
    <3>2. job' = WithRows(job, answer)
      BY <2>1, <2>6 DEF WithRows
    <3> HIDE DEF answer
    <3>3. /\ job' \in Job /\ job'.step = "scores" /\ job'.side = job.side
          /\ job'.prices = job.prices /\ job'.rows = answer /\ job'.scores = job.scores
      BY <3>1, <3>2, <1>j, RowedJob
    <3>4. \A r \in answer : r.report_date <= split[job.side].end
      BY <3>1, RowDates DEF Pinned
    <3> QED
      BY <2>3, <2>4, <3>3, <3>4 DEF TypeOK, Job, SplitSound, JobHasSplit, DataInWindow,
                                    ScoresInWindow, NoSplitNoData
  <2> QED BY <2>5, <2>6
<1>3. CASE ComputeScores
  <2>1. PICK step \in {"not point in time", "no scores", "backtest"} :
          job' = WithScores(job, Scores(job.prices, job.rows), step)
    BY <1>3 DEF ComputeScores, WithScores
  <2>2. job.step = "scores" /\ UNCHANGED <<honest, logged, kept, embargo, split, audit, artifacts>>
    BY <1>3 DEF ComputeScores, asked
  <2>3. split # SplitError
    BY <2>2 DEF JobHasSplit
  <2>4. step \in Steps /\ step # "prices" /\ step # "no split"
    BY <2>1 DEF Steps, Running, Failures
  <2> DEFINE scores == Scores(job.prices, job.rows)
  <2>5. /\ scores \in SUBSET Score
        /\ \A s \in scores : /\ \E b \in job.prices : s.date = b.date
                             /\ \A r \in s.rows : r.report_date <= s.date
    BY <1>j, ScoreTypes DEF Job
  <2> HIDE DEF scores
  <2>6. /\ job' \in Job /\ job'.step = step /\ job'.side = job.side
        /\ job'.prices = job.prices /\ job'.rows = job.rows /\ job'.scores = scores
    BY <1>j, <2>1, <2>4, <2>5, ScoredJob DEF scores
  <2> QED
    BY <2>2, <2>3, <2>4, <2>5, <2>6 DEF TypeOK, Job, SplitSound, JobHasSplit, DataInWindow,
                                        ScoresInWindow, NoSplitNoData
<1>4. CASE Backtest
  <2>1. PICK step \in {"no ic", "not recorded", "write"} : job' = Stepped(job, step)
    BY <1>4 DEF Backtest, Stepped
  <2>2. job.step = "backtest" /\ UNCHANGED <<honest, logged, kept, embargo, split, artifacts>>
    BY <1>4 DEF Backtest, asked
  <2>3. audit' \in Seq([side : Sides, passed : BOOLEAN])
    <3>1. audit \in Seq([side : Sides, passed : BOOLEAN])
      BY DEF TypeOK
    <3>2. Verdicts(job.side) \subseteq [side : Sides, passed : BOOLEAN]
      BY <1>j, VerdictTypes
    <3>3. audit' = audit \/ \E verdict \in Verdicts(job.side) : audit' = Append(audit, verdict)
      BY <1>4 DEF Backtest
    <3>4. ASSUME NEW verdict \in Verdicts(job.side), audit' = Append(audit, verdict)
          PROVE  audit' \in Seq([side : Sides, passed : BOOLEAN])
      BY <3>1, <3>2, <3>4, AppendProperties
    <3> QED BY <3>1, <3>3, <3>4
  <2>4. step \in Steps /\ step # "prices" /\ step # "no split"
    BY <2>1 DEF Steps, Running, Failures
  <2>5. /\ job' \in Job /\ job'.step = step /\ job'.side = job.side
        /\ job'.prices = job.prices /\ job'.rows = job.rows /\ job'.scores = job.scores
    BY <1>j, <2>1, <2>4, SteppedJob
  <2> QED
    BY <2>2, <2>3, <2>4, <2>5 DEF TypeOK, Job, SplitSound, JobHasSplit, DataInWindow,
                                  ScoresInWindow, NoSplitNoData
<1>5. CASE Write
  <2>1. job.step = "write" /\ UNCHANGED <<honest, logged, kept, embargo, split, audit>>
    BY <1>5 DEF Write, asked
  <2>2. artifacts' \subseteq Sides
    BY <1>5, <1>j DEF Write, TypeOK
  <2>3. split # SplitError
    BY <2>1 DEF JobHasSplit
  <2>4. CASE \E step \in {"not written", "done"} : job' = Stepped(job, step)
    <3>1. PICK step \in {"not written", "done"} : job' = Stepped(job, step)
      BY <2>4
    <3>2. step \in Steps /\ step # "prices" /\ step # "no split"
      BY <3>1 DEF Steps, Failures
    <3>3. /\ job' \in Job /\ job'.step = step /\ job'.side = job.side
          /\ job'.prices = job.prices /\ job'.rows = job.rows /\ job'.scores = job.scores
      BY <1>j, <3>1, <3>2, SteppedJob
    <3> QED
      BY <2>1, <2>2, <2>3, <3>2, <3>3
         DEF TypeOK, Job, SplitSound, JobHasSplit, DataInWindow, ScoresInWindow,
             NoSplitNoData
  <2>5. CASE job' = Begin("test")
    <3>1. /\ job' \in Job /\ job'.side = "test" /\ job'.step = "prices"
          /\ job'.prices = {} /\ job'.rows = {} /\ job'.scores = {}
      BY <2>5, BeginTypes DEF Sides, Job
    <3> QED
      BY <2>1, <2>2, <2>3, <2>5, <3>1
         DEF TypeOK, Job, SplitSound, JobHasSplit, DataInWindow, ScoresInWindow,
             NoSplitNoData
  <2>6. (\E step \in {"not written", "done"} : job' = Stepped(job, step))
        \/ job' = Begin("test")
    BY <1>5 DEF Write, Stepped
  <2> QED BY <2>4, <2>5, <2>6
<1>6. CASE UNCHANGED vars
  BY <1>6 DEF vars, asked, TypeOK, SplitSound, JobHasSplit, DataInWindow, ScoresInWindow,
              NoSplitNoData
<1> QED
  BY <1>1, <1>2, <1>3, <1>4, <1>5, <1>6 DEF Next

\* Whatever the source answers, what a window holds is no later than its end, and its split
\* is sound (real_backtest.py run_train_test_backtest).
THEOREM RunBounded == Spec => []Bounded
BY InitBounded, StepBounded, PTL DEF Spec

\* The state of a run stays well formed, and a window starts with nothing of the one
\* before, for every span and every source (real_backtest.py run_train_test_backtest).
THEOREM RunTypeCorrect == Spec => []TypeOK
<1>1. Bounded => TypeOK
  BY DEF Bounded
<1> QED BY RunBounded, <1>1, PTL

\* Whatever the span, the fraction and the embargo, the windows of a split keep at least
\* the embargo between them, and records split between them pass assert_out_of_sample
\* (splits.py make_train_test_split, split_by_date).
THEOREM SplitsKeepApart == Spec => []WindowsKeepApart
<1>1. Bounded => WindowsKeepApart
  <2> SUFFICES ASSUME Bounded, split # SplitError PROVE WindowsKeepApart
    BY DEF WindowsKeepApart
  <2>1. TypeOK /\ SplitSound /\ embargo \in Nat
    BY RunAssumption DEF Bounded, TypeOK
  <2>2. /\ split.train.end \in Int /\ split.test.start \in Int
        /\ split.test.start - split.train.end - 1 = embargo
    BY <2>1, SplitTypes DEF SplitSound, EmbargoDays
  <2>3. ASSUME NEW r \in SplitByDate(Bars, split).train, NEW q \in SplitByDate(Bars, split).test
        PROVE  /\ KnowledgeDate(q) > KnowledgeDate(r)
               /\ KnowledgeDate(q) - KnowledgeDate(r) - 1 >= embargo
    <3>1. /\ r \in Bars /\ KnowledgeDate(r) <= split.train.end
          /\ q \in Bars /\ split.test.start <= KnowledgeDate(q)
      BY <2>3 DEF SplitByDate, Within
    <3>2. KnowledgeDate(r) \in Int /\ KnowledgeDate(q) \in Int
      <4>1. Start - Lookback \in Int /\ LastEnd \in Int
        BY RunAssumption
      <4>2. r.date \in Int /\ q.date \in Int
        BY <3>1, <4>1 DEF Bars
      <4> QED BY <3>1, <4>2, BarDates
    <3> QED BY <2>1, <2>2, <3>1, <3>2
  <2>4. OutOfSample(SplitByDate(Bars, split).train, SplitByDate(Bars, split).test, embargo)
    BY <2>3 DEF OutOfSample
  <2> QED BY <2>1, <2>2, <2>4 DEF WindowsKeepApart, SplitSound
<1> QED BY RunBounded, <1>1, PTL

\* No source, however it answers, brings a row later than its day into a score, or a day
\* later than its window's end into a score or a label (pit.py PITDataSource).
THEOREM NothingAhead == Spec => []NoLookAhead
<1>1. Bounded => NoLookAhead
  <2> SUFFICES ASSUME Bounded, NEW s \in job.scores
               PROVE  /\ \A r \in s.rows : KnowledgeDate(r) <= s.date
                      /\ s.date <= window.end
                      /\ \A e \in LabelEnds(job.prices, s.date) : e <= window.end
    BY DEF NoLookAhead
  <2>1. /\ \E b \in job.prices : s.date = b.date
        /\ \A r \in s.rows : r.report_date <= s.date
    BY DEF Bounded, ScoresInWindow
  <2>2. s.rows \subseteq Rows
    BY DEF Bounded, TypeOK, Score
  <2>3. job.step # "no split"
    BY DEF Bounded, NoSplitNoData
  <2>4. \A b \in job.prices : b.date <= window.end
    BY <2>3 DEF Bounded, DataInWindow, window
  <2>5. \A e \in LabelEnds(job.prices, s.date) : \E b \in job.prices : e = b.date
    BY DEF LabelEnds
  <2> QED BY <2>1, <2>2, <2>4, <2>5, RowDates
<1> QED BY RunBounded, <1>1, PTL

\* While training, every price and row is earlier than the test window by more than the
\* embargo (real_backtest.py run_train_test_backtest).
THEOREM TrainingIsBlind == Spec => []TrainNeverSeesTest
<1>1. Bounded => TrainNeverSeesTest
  <2> SUFFICES ASSUME Bounded, split # SplitError, job.side = "train"
               PROVE  /\ \A b \in job.prices : b.date + embargo < split.test.start
                      /\ \A r \in job.rows : r.report_date + embargo < split.test.start
    BY DEF TrainNeverSeesTest
  <2>1. TypeOK /\ SplitSound /\ embargo \in Nat
    BY RunAssumption DEF Bounded, TypeOK
  <2>2. /\ split.train.end \in Int /\ split.test.start \in Int
        /\ split.test.start - split.train.end - 1 = embargo
    BY <2>1, SplitTypes DEF SplitSound, EmbargoDays
  <2>3. /\ \A b \in job.prices : b.date \in Int
        /\ \A r \in job.rows : r.report_date \in Int
    <3>1. Start - Lookback \in Int /\ LastEnd \in Int
      BY RunAssumption
    <3>2. job.prices \subseteq Bars /\ job.rows \subseteq Rows
      BY <2>1 DEF TypeOK
    <3> QED BY <3>1, <3>2 DEF Bars, Rows
  <2>4. /\ \A b \in job.prices : b.date <= split.train.end
        /\ \A r \in job.rows : r.report_date <= split.train.end
    <3>1. CASE job.step = "no split"
      BY <3>1 DEF Bounded, NoSplitNoData
    <3>2. CASE job.step # "no split"
      BY <3>2, <2>1, SplitTypes DEF Bounded, DataInWindow
    <3> QED BY <3>1, <3>2
  <2> QED BY <2>1, <2>2, <2>3, <2>4
<1> QED BY RunBounded, <1>1, PTL

\* The guard never refuses a source that answers within the window it is asked for
\* (pit.py _clamp, _guarded).
THEOREM HonestSourcesPass == Spec => []HonestNeverRefused
<1>1. Init => HonestNeverRefused
  <2>1. Init => job = [Begin("train") EXCEPT !.step = "no split"] \/ job = Begin("train")
    BY DEF Init
  <2>2. Begin("train").step = "prices"
    BY DEF Begin
  <2>3. [Begin("train") EXCEPT !.step = "no split"].step = "no split"
    BY DEF Begin
  <2> QED BY <2>1, <2>2, <2>3 DEF HonestNeverRefused
<1>2. TypeOK /\ HonestNeverRefused /\ [Next]_vars => HonestNeverRefused'
  <2> SUFFICES ASSUME TypeOK, HonestNeverRefused, [Next]_vars, honest'
               PROVE  job'.step # "leak"
    BY DEF HonestNeverRefused
  <2> DEFINE end == Clamp(window.end, Pinned(job.side))
  <2>1. honest /\ job \in Job /\ job.step # "leak" /\ end = Pinned(job.side)
    <3>1. honest
      BY DEF Next, FetchPrices, FetchFundamentals, ComputeScores, Backtest, Write, vars, asked
    <3>2. window.end = Pinned(job.side)
      BY DEF window, Pinned
    <3> QED BY <3>1, <3>2 DEF HonestNeverRefused, TypeOK, Job, Clamp
  <2> HIDE DEF end
  <2>2. ASSUME NEW universe, NEW start, NEW reply \in Replies(universe, start, end)
        PROVE  Answer(reply, start, Pinned(job.side)) \in {{}, reply}
    <3>1. \A r \in reply : KnowledgeDate(r) \in start..end
      BY <2>1, <2>2 DEF Replies
    <3>2. \A r \in reply : KnowledgeDate(r) <= Pinned(job.side)
      BY <3>1, <2>1
    <3>3. AsOf(reply, Pinned(job.side)) = reply
      BY <3>2 DEF AsOf
    <3> QED BY <3>3 DEF Answer, Guarded
  <2>3. CASE FetchPrices
    <3>1. PICK bars \in Replies(Bars, window.start, end) :
            job' = IF Answer(bars, window.start, Pinned(job.side)) = Leak
                   THEN [job EXCEPT !.step = "leak"]
                   ELSE WithPrices(job, Answer(bars, window.start, Pinned(job.side)))
      BY <2>3 DEF FetchPrices, end, WithPrices
    <3>2. bars \in SUBSET Bars /\ {} \in SUBSET Bars
      BY <3>1 DEF Replies
    <3>3. Answer(bars, window.start, Pinned(job.side)) \in SUBSET Bars
      BY <2>2, <3>1, <3>2
    <3>4. job' = WithPrices(job, Answer(bars, window.start, Pinned(job.side)))
      BY <3>1, <3>3, ErrorAssumption
    <3> QED BY <2>1, <3>3, <3>4, PricedJob
  <2>4. CASE FetchFundamentals
    <3>1. PICK rows \in Replies(Rows, window.start - Lookback, end) :
            job' = IF Answer(rows, window.start - Lookback, Pinned(job.side)) = Leak
                   THEN [job EXCEPT !.step = "leak"]
                   ELSE WithRows(job, Answer(rows, window.start - Lookback, Pinned(job.side)))
      BY <2>4 DEF FetchFundamentals, end, WithRows
    <3>2. rows \in SUBSET Rows /\ {} \in SUBSET Rows
      BY <3>1 DEF Replies
    <3>3. Answer(rows, window.start - Lookback, Pinned(job.side)) \in SUBSET Rows
      BY <2>2, <3>1, <3>2
    <3>4. Answer(rows, window.start - Lookback, Pinned(job.side)) # Leak
      BY <3>3, ErrorAssumption
    <3>5. job' = WithRows(job, Answer(rows, window.start - Lookback, Pinned(job.side)))
      BY <3>1, <3>4
    <3> QED BY <2>1, <3>3, <3>5, RowedJob
  <2>5. CASE ComputeScores
    <3>1. PICK step \in {"not point in time", "no scores", "backtest"} :
            job' = [job EXCEPT !.scores = Scores(job.prices, job.rows), !.step = step]
      BY <2>5 DEF ComputeScores
    <3>2. job'.step = step
      BY <2>1, <3>1 DEF Job
    <3> QED BY <3>2
  <2>6. CASE Backtest
    <3>1. PICK step \in {"no ic", "not recorded", "write"} : job' = [job EXCEPT !.step = step]
      BY <2>6 DEF Backtest
    <3>2. job'.step = step
      BY <2>1, <3>1 DEF Job
    <3> QED BY <3>1, <3>2
  <2>7. CASE Write
    <3>1. (\E step \in {"not written", "done"} : job' = [job EXCEPT !.step = step])
          \/ job' = Begin("test")
      BY <2>7 DEF Write
    <3>2. \A step : [job EXCEPT !.step = step].step = step
      BY <2>1 DEF Job
    <3> QED BY <3>1, <3>2, BeginTypes DEF Sides
  <2>8. CASE UNCHANGED vars
    BY <2>1, <2>8 DEF vars
  <2> QED BY <2>3, <2>4, <2>5, <2>6, <2>7, <2>8 DEF Next
<1> QED BY <1>1, <1>2, RunTypeCorrect, PTL DEF Spec

(***************************************************************************)
(* Why a kept log has the verdict of every result on disk, once: a window  *)
(* is recorded only by its backtest, which leads to the write, and the     *)
(* test window only begins after the write of the train window.            *)
(***************************************************************************)
Recorded(side) == \E i \in DOMAIN audit : audit[i].side = side

AfterBacktest == {"write", "not written", "done"}

Ordered ==
    /\ ResultsAreAudited
    /\ job.step = "write" /\ logged => Recorded(job.side)
    /\ Recorded(job.side) => job.step \in AfterBacktest
    /\ job.side = "train" => ~Recorded("test")

\* What run_backtest does to the run: only with a log, and only when it gets to the write of
\* its result, does it add a verdict, and that is its own window's (backtest_runner.py).
LEMMA BacktestSteps ==
  ASSUME TypeOK, Backtest
  PROVE  /\ job.step = "backtest" /\ UNCHANGED <<logged, kept, artifacts>>
         /\ job'.side = job.side
         /\ \/ UNCHANGED audit /\ job'.step \in {"no ic", "not recorded"}
            \/ UNCHANGED audit /\ job'.step = "write" /\ ~logged
            \/ /\ job'.step = "write"
               /\ \E verdict \in Verdicts(job.side) : audit' = Append(audit, verdict)
<1>1. job.step = "backtest" /\ UNCHANGED <<logged, kept, artifacts>>
  BY DEF Backtest, asked
<1>2. job \in Job
  BY DEF TypeOK, Job
<1>3. \A step \in {"no ic", "not recorded", "write"} :
        Stepped(job, step).step = step /\ Stepped(job, step).side = job.side
  BY <1>2, SteppedJob DEF Steps, Running, Failures
<1>4. \/ job' = Stepped(job, "no ic") /\ UNCHANGED audit
      \/ job' = Stepped(job, "not recorded") /\ UNCHANGED audit
      \/ /\ job' = Stepped(job, "write")
         /\ \E verdict \in Verdicts(job.side) : audit' = Append(audit, verdict)
      \/ job' = Stepped(job, "write") /\ UNCHANGED audit /\ ~logged
  BY DEF Backtest, Stepped
<1> QED BY <1>1, <1>3, <1>4

\* The steps before the backtest leave the log and the results alone, and stay in their
\* window; none of them gets to the write (real_backtest.py run_fundamental_backtest).
LEMMA EarlySteps ==
  ASSUME TypeOK, FetchPrices \/ FetchFundamentals \/ ComputeScores
  PROVE  /\ UNCHANGED <<logged, kept, audit, artifacts>>
         /\ job.step \notin AfterBacktest /\ job'.side = job.side /\ job'.step # "write"
<1>j. job \in Job
  BY DEF TypeOK, Job
<1>l. Stepped(job, "leak").step = "leak" /\ Stepped(job, "leak").side = job.side
  <2>1. "leak" \in Steps
    BY DEF Steps, Failures
  <2> QED BY <1>j, <2>1, SteppedJob
<1>1. CASE FetchPrices
  <2>1. PICK answer : job' = IF answer = Leak THEN Stepped(job, "leak")
                             ELSE [job EXCEPT !.prices = answer, !.step = "fundamentals"]
    BY <1>1 DEF FetchPrices, Stepped
  <2>2. job'.side = job.side /\ job'.step # "write"
    <3>1. CASE job' = Stepped(job, "leak")
      BY <3>1, <1>l
    <3>2. CASE job' = [job EXCEPT !.prices = answer, !.step = "fundamentals"]
      BY <3>2, <1>j DEF Job
    <3> QED BY <2>1, <3>1, <3>2
  <2> QED BY <1>1, <2>2 DEF FetchPrices, asked, AfterBacktest
<1>2. CASE FetchFundamentals
  <2>1. PICK answer : job' = IF answer = Leak THEN Stepped(job, "leak")
                             ELSE [job EXCEPT !.rows = answer, !.step = "scores"]
    BY <1>2 DEF FetchFundamentals, Stepped
  <2>2. job'.side = job.side /\ job'.step # "write"
    <3>1. CASE job' = Stepped(job, "leak")
      BY <3>1, <1>l
    <3>2. CASE job' = [job EXCEPT !.rows = answer, !.step = "scores"]
      BY <3>2, <1>j DEF Job
    <3> QED BY <2>1, <3>1, <3>2
  <2> QED BY <1>2, <2>2 DEF FetchFundamentals, asked, AfterBacktest
<1>3. CASE ComputeScores
  <2>1. PICK step \in {"not point in time", "no scores", "backtest"} :
          job' = [job EXCEPT !.scores = Scores(job.prices, job.rows), !.step = step]
    BY <1>3 DEF ComputeScores
  <2>2. job'.step = step /\ job'.side = job.side
    BY <2>1, <1>j DEF Job
  <2> QED BY <1>3, <2>2 DEF ComputeScores, asked, AfterBacktest
<1> QED BY <1>1, <1>2, <1>3

\* The audit log of a run only grows, by one verdict of the window being backtested
\* (backtest_runner.py, the record before the raise).
LEMMA OneVerdict ==
  ASSUME TypeOK, NEW verdict \in Verdicts(job.side), audit' = Append(audit, verdict)
  PROVE  /\ DOMAIN audit = 1..Len(audit) /\ Len(audit) \in Nat
         /\ DOMAIN audit' = 1..(Len(audit) + 1)
         /\ \A i \in DOMAIN audit : audit'[i] = audit[i]
         /\ audit'[Len(audit) + 1].side = job.side
<1> DEFINE Verdict == [side : Sides, passed : BOOLEAN]
<1>1. audit \in Seq(Verdict) /\ job.side \in Sides
  BY DEF TypeOK
<1>2. verdict \in Verdict /\ verdict.side = job.side
  BY <1>1, VerdictTypes
<1> HIDE DEF Verdict
<1>3. /\ audit' \in Seq(Verdict)
      /\ Len(audit') = Len(audit) + 1
      /\ \A i \in 1..Len(audit) : audit'[i] = audit[i]
      /\ audit'[Len(audit) + 1] = verdict
  BY <1>1, <1>2, AppendProperties
<1> QED BY <1>1, <1>2, <1>3, LenProperties

\* With a log kept, a result on disk has its verdict in it, one for a window and train before
\* test; with a log or without, the test window opens only after all that was asked for of the
\* train window is there (real_backtest.py, backtest_runner.py run_backtest).
THEOREM VerdictsPrecedeResults == Spec => []ResultsAreAudited
<1>1. Init => Ordered
  <2> SUFFICES ASSUME Init PROVE Ordered
    OBVIOUS
  <2>1. artifacts = {} /\ DOMAIN audit = {}
    <3>1. audit = <<>> /\ artifacts = {}
      BY DEF Init
    <3>2. DOMAIN <<>> = {}
      BY LenProperties, EmptySeq
    <3> QED BY <3>1, <3>2
  <2>2. job.side = "train" /\ job.step # "write"
    <3>1. /\ Begin("train") \in Job /\ Begin("train").side = "train"
          /\ Begin("train").step = "prices" /\ "no split" \in Steps
      BY BeginTypes DEF Sides, Job, Steps
    <3>2. /\ Stepped(Begin("train"), "no split").side = "train"
          /\ Stepped(Begin("train"), "no split").step = "no split"
      BY <3>1, SteppedJob
    <3>3. job = Stepped(Begin("train"), "no split") \/ job = Begin("train")
      BY DEF Init, Stepped
    <3> QED BY <3>1, <3>2, <3>3
  <2> QED BY <2>1, <2>2 DEF Ordered, ResultsAreAudited, Recorded
<1>2. TypeOK /\ Ordered /\ [Next]_vars => Ordered'
  <2> SUFFICES ASSUME TypeOK, Ordered, [Next]_vars PROVE Ordered'
    OBVIOUS
  <2>j. job \in Job /\ job.side \in Sides
    BY DEF TypeOK, Job
  <2>1. CASE FetchPrices \/ FetchFundamentals \/ ComputeScores
    <3>1. /\ UNCHANGED <<logged, kept, audit, artifacts>>
          /\ job.step \notin AfterBacktest /\ job'.side = job.side /\ job'.step # "write"
      BY <2>1, EarlySteps
    <3> QED BY <3>1 DEF Ordered, ResultsAreAudited, Recorded
  <2>2. CASE Backtest
    <3>1. /\ job.step = "backtest" /\ UNCHANGED <<logged, kept, artifacts>>
          /\ job'.side = job.side
          /\ \/ UNCHANGED audit /\ job'.step \in {"no ic", "not recorded"}
             \/ UNCHANGED audit /\ job'.step = "write" /\ ~logged
             \/ /\ job'.step = "write"
                /\ \E verdict \in Verdicts(job.side) : audit' = Append(audit, verdict)
      BY <2>2, BacktestSteps
    <3>2. ~Recorded(job.side)
      BY <3>1 DEF Ordered, AfterBacktest
    <3>3. CASE UNCHANGED audit /\ (job'.step = "write" => ~logged)
      BY <3>1, <3>2, <3>3 DEF Ordered, ResultsAreAudited, Recorded
    <3>4. ASSUME job'.step = "write",
                 NEW verdict \in Verdicts(job.side), audit' = Append(audit, verdict)
          PROVE  Ordered'
      <4> DEFINE n == Len(audit)
      <4>1. /\ DOMAIN audit = 1..n /\ n \in Nat /\ DOMAIN audit' = 1..(n + 1)
            /\ \A i \in DOMAIN audit : audit'[i] = audit[i]
            /\ audit'[n + 1].side = job.side
        BY <3>4, OneVerdict
      <4> HIDE DEF n
      <4>2. \A side : Recorded(side)' <=> Recorded(side) \/ side = job.side
        BY <4>1 DEF Recorded
      <4>3. \A i \in DOMAIN audit : audit[i].side \in Sides /\ audit[i].side # job.side
        <5>1. \A i \in DOMAIN audit : audit[i].side \in Sides
          <6>1. audit \in Seq([side : Sides, passed : BOOLEAN])
            BY DEF TypeOK
          <6>2. \A i \in DOMAIN audit : audit[i] \in [side : Sides, passed : BOOLEAN]
            BY <6>1, <4>1, ElementOfSeq DEF n
          <6> QED BY <6>2
        <5> QED BY <5>1, <3>2 DEF Recorded
      <4>4. \A i \in DOMAIN audit : job.side = "test" /\ audit[i].side = "train"
        <5>1. job.side = "train" => \A i \in DOMAIN audit : audit[i].side # "test"
          BY DEF Ordered, Recorded
        <5> QED BY <2>j, <4>3, <5>1 DEF Sides
      <4>5. \A i, j \in DOMAIN audit' :
              i < j => audit'[i].side = "train" /\ audit'[j].side = "test"
        <5> SUFFICES ASSUME NEW i \in DOMAIN audit', NEW j \in DOMAIN audit', i < j
                     PROVE  audit'[i].side = "train" /\ audit'[j].side = "test"
          OBVIOUS
        <5>1. i \in DOMAIN audit
          BY <4>1
        <5>2. CASE j = n + 1
          BY <4>1, <4>4, <5>1, <5>2
        <5>3. CASE j # n + 1
          <6>1. j \in DOMAIN audit
            BY <4>1, <5>3
          <6> QED BY <4>4, <5>1, <6>1, <4>1 DEF Ordered, ResultsAreAudited
        <5> QED BY <5>2, <5>3
      <4>6. ResultsAreAudited'
        <5>1. logged' => \A side \in artifacts' : Recorded(side)'
          BY <3>1, <4>2 DEF Ordered, ResultsAreAudited, Recorded
        <5>2. job'.side = "test" =>
                /\ logged' => Recorded("train")'
                /\ kept' => "train" \in artifacts'
          BY <3>1, <4>2 DEF Ordered, ResultsAreAudited, Recorded
        <5> QED BY <4>5, <5>1, <5>2 DEF ResultsAreAudited, Recorded
      <4>7. /\ \A side : side = job'.side => Recorded(side)'
            /\ job'.step \in AfterBacktest
            /\ job'.side = "train" => ~Recorded("test")'
        BY <3>1, <3>4, <4>2 DEF Ordered, AfterBacktest
      <4> QED BY <4>6, <4>7 DEF Ordered, Recorded
    <3> QED BY <3>1, <3>3, <3>4
  <2>3. CASE Write
    <3>1. job.step = "write" /\ UNCHANGED <<logged, kept, audit>>
      BY <2>3 DEF Write, asked
    <3>2. \A side : Recorded(side)' <=> Recorded(side)
      BY <3>1 DEF Recorded
    <3>3. \/ job' = Stepped(job, "not written") /\ UNCHANGED artifacts
          \/ /\ artifacts' = IF kept THEN artifacts \cup {job.side} ELSE artifacts
             /\ job.side = "train" /\ job' = Begin("test")
          \/ /\ artifacts' = IF kept THEN artifacts \cup {job.side} ELSE artifacts
             /\ job.side # "train" /\ job' = Stepped(job, "done")
      BY <2>3 DEF Write, Stepped
    <3>4. /\ \A step \in {"not written", "done"} :
               Stepped(job, step).step = step /\ Stepped(job, step).side = job.side
          /\ Begin("test").step = "prices" /\ Begin("test").side = "test"
      BY <2>j, SteppedJob, BeginTypes DEF Steps, Failures, Sides
    <3>5. logged' => \A side \in artifacts' : Recorded(side)'
      <4>1. \A side \in artifacts' : side \in artifacts \/ side = job.side
        BY <3>3
      <4> QED BY <3>1, <3>2, <4>1 DEF Ordered, ResultsAreAudited, Recorded
    <3>6. \A i, j \in DOMAIN audit' :
            i < j => audit'[i].side = "train" /\ audit'[j].side = "test"
      BY <3>1 DEF Ordered, ResultsAreAudited
    <3>7. job'.side = "test" => /\ logged' => Recorded("train")'
                                /\ kept' => "train" \in artifacts'
      <4>1. CASE job.side = "train" /\ job' = Begin("test")
                 /\ artifacts' = IF kept THEN artifacts \cup {job.side} ELSE artifacts
        BY <3>1, <3>2, <4>1 DEF Ordered
      <4>2. CASE job'.side = job.side /\ artifacts \subseteq artifacts'
        BY <3>1, <3>2, <4>2 DEF Ordered, ResultsAreAudited, Recorded
      <4> QED BY <3>3, <3>4, <4>1, <4>2
    <3>8. ResultsAreAudited'
      BY <3>5, <3>6, <3>7 DEF ResultsAreAudited, Recorded
    <3>9. /\ job'.step # "write"
          /\ \A side : side = job'.side /\ Recorded(side)' => job'.step \in AfterBacktest
          /\ job'.side = "train" => ~Recorded("test")'
      <4>1. CASE job.side = "train" /\ job' = Begin("test")
        BY <3>2, <3>4, <4>1 DEF Ordered
      <4>2. CASE job'.side = job.side /\ job'.step \in {"not written", "done"}
        BY <3>2, <4>2 DEF Ordered, AfterBacktest
      <4> QED BY <3>3, <3>4, <4>1, <4>2
    <3> QED BY <3>8, <3>9 DEF Ordered, Recorded
  <2>4. CASE UNCHANGED vars
    BY <2>4 DEF vars, asked, Ordered, ResultsAreAudited, Recorded
  <2> QED BY <2>1, <2>2, <2>3, <2>4 DEF Next
<1>3. Ordered => ResultsAreAudited
  BY DEF Ordered
<1> QED BY <1>1, <1>2, <1>3, RunTypeCorrect, PTL DEF Spec
====
