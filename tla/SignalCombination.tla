---- MODULE SignalCombination ----
(***************************************************************************)
(* src/signals/combination: which validated signals are kept together, and *)
(* with which weights; and test #6 of backtest_runner.py, which asks the   *)
(* same question of a newcomer.                                            *)
(*                                                                         *)
(* A signal gives each date a cross-section (see RankIc).                  *)
(***************************************************************************)
EXTENDS RankIc, Sequences, FiniteSetsExt, SequencesExt

CONSTANTS MaxCorrelation,   \* DEFAULT_MAX_CORRELATION, in units of 1/IcUnit
          Ridge             \* DEFAULT_RIDGE

Size(n) == IF n < 0 THEN -n ELSE n

\* average_correlation against the threshold: the mean is signed.
Conflicting(a, b) ==
    LET rhos == DailyIcs(a, b)
    IN  /\ DOMAIN rhos # {}
        /\ Size(SumFunction(rhos)) >= MaxCorrelation * Cardinality(DOMAIN rhos)

\* _max_abs_correlation against the threshold: the mean of magnitudes.
FailsTest6(signal, existing) ==
    \E other \in existing :
        LET rhos == DailyIcs(signal, other)
        IN  /\ DOMAIN rhos # {}
            /\ SumFunction([d \in DOMAIN rhos |-> Size(rhos[d])])
                  >= MaxCorrelation * Cardinality(DOMAIN rhos)

\* The order select_signals considers names in: the priority, then the rest as given.  What
\* the loop or the list's comprehension passes over stays in its place here.
Ordered(signals, priority) == priority \o [i \in DOMAIN signals |-> i]

PassedOver(signals, priority, k) ==
    \/ Ordered(signals, priority)[k] \notin DOMAIN signals
    \/ k > Len(priority) /\ Ordered(signals, priority)[k] \in ToSet(priority)

\* A slip of Consider, for the runs to refute.
ConsiderAgainstAll(signals, done, name) ==
    LET conflicts == {k \in ToSet(done.kept) \cup DOMAIN done.dropped :
                        Conflicting(signals[name], signals[k])}
    IN  IF conflicts = {} THEN [done EXCEPT !.kept = Append(@, name)]
        ELSE [done EXCEPT !.dropped =
                [n \in DOMAIN @ \cup {name} |->
                   IF n = name THEN CHOOSE k \in conflicts : TRUE ELSE @[n]]]

\* The body of its loop: a signal is kept, or gives way to the first kept one it is like.
Consider(signals, done, name) ==
    LET conflicts == {i \in DOMAIN done.kept :
                        Conflicting(signals[name], signals[done.kept[i]])}
    IN  IF conflicts = {} THEN [done EXCEPT !.kept = Append(@, name)]
        ELSE [done EXCEPT !.dropped =
                [n \in DOMAIN @ \cup {name} |->
                   IF n = name THEN done.kept[Min(conflicts)] ELSE @[n]]]

\* select_signals: what is kept, in order, and whom each dropped signal gave way to.
SelectSignals(signals, priority) ==
    LET done[k \in 0..(Len(priority) + Len(signals))] ==
            IF k = 0 THEN [kept |-> <<>>, dropped |-> <<>>]
            ELSE IF PassedOver(signals, priority, k) THEN done[k - 1]
            ELSE Consider(signals, done[k - 1], Ordered(signals, priority)[k])
    IN  done[Len(priority) + Len(signals)]

\* optimal_weights for two IC series, up to the positive scale the norm divides by; equal
\* weights when there is too little, or nothing, to go by.
OptimalWeights(a, b) ==
    LET common == DOMAIN a \cap DOMAIN b
        m      == Cardinality(common)
        Total(f) == SumFunctionOnSet(f, common)
        Cov(f, g) == m * Total([d \in common |-> f[d] * g[d]]) - Total(f) * Total(g)
        ridge  == Ridge * m * (m - 1)
        raw    == <<(Cov(b, b) + ridge) * Total(a) - Cov(a, b) * Total(b),
                    (Cov(a, a) + ridge) * Total(b) - Cov(a, b) * Total(a)>>
    IN  IF m < 2 \/ raw = <<0, 0>> THEN <<1, 1>> ELSE raw

\* zscore; the deviation it divides by is the same for every cross-section of the runs
\* that varies, and so is left out.
Centred(values) == [t \in DOMAIN values |-> Cardinality(DOMAIN values) * values[t]
                                              - SumFunction(values)]

\* combine_signals: a name that a signal does not score that day gets nothing from it.
CombineSignals(signals, weights) ==
    LET Scoring(day) == {k \in DOMAIN signals : day \in DOMAIN signals[k]}
        Share(k, day, t) == IF t \in DOMAIN signals[k][day]
                            THEN weights[k] * Centred(signals[k][day])[t] ELSE 0
    IN  [day \in UNION {DOMAIN signals[k] : k \in DOMAIN signals} |->
           [t \in UNION {DOMAIN signals[k][day] : k \in Scoring(day)} |->
              SumFunction([k \in Scoring(day) |-> Share(k, day, t)])]]
====
