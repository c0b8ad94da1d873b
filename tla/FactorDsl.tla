---- MODULE FactorDsl ----
(***************************************************************************)
(* The factor expressions of src/signals/discovery/factor_dsl.py and the   *)
(* structural filter of alpha_agent.py.                                    *)
(*                                                                         *)
(* An expression is a tree of operators over the features of the price     *)
(* bars.  Numbers are left out: the value of an expression for a ticker on *)
(* a day is the set of observations it was computed from, and a value that *)
(* is missing (NaN) was computed from nothing.  A division by almost zero  *)
(* counts as computed.                                                     *)
(***************************************************************************)
EXTENDS Integers, SequencesExt, FiniteSetsExt

CONSTANTS FEATURES,                          \* leaves; "ret" is the 1-day return
          UNARY_OPS, BINARY_OPS, TS_OPS,
          WINDOWS,
          MaxSimilarity,                     \* in tenths
          MaxNodes, MaxParams,
          Deepest                            \* bound: the height of the trees recursed into

\* No feature is spelled like the punctuation, and sharing all of a tree is too much.
ASSUME DslAssumption ==
    /\ FEATURES \cap {"(", ")", "digits"} = {}
    /\ WINDOWS \subseteq Nat \ {0}
    /\ MaxSimilarity \in 0..9
    /\ {MaxNodes, MaxParams, Deepest} \subseteq Nat

NoWindow == -1

Feature(name)                 == [op |-> name, args |-> <<>>, window |-> NoWindow]
Unary(op, child)              == [op |-> op, args |-> <<child>>, window |-> NoWindow]
Binary(op, left, right)       == [op |-> op, args |-> <<left, right>>, window |-> NoWindow]
TimeSeries(op, child, window) == [op |-> op, args |-> <<child>>, window |-> window]

---------------------------------------------------------------------------
\* Trees.

\* Everything random_expression can draw.
RandomExpressions[depth \in 0..Deepest] ==
    [op : FEATURES, args : {<<>>}, window : {NoWindow}] \cup
    IF depth <= 1 THEN {}
    ELSE LET below == RandomExpressions[depth - 1]
         IN  [op : UNARY_OPS, args : [1..1 -> below], window : {NoWindow}] \cup
             [op : TS_OPS, args : [1..1 -> below], window : WINDOWS] \cup
             [op : BINARY_OPS, args : [1..2 -> below], window : {NoWindow}]

Trees == RandomExpressions[Deepest]

\* What f says of the k-th argument of e, if e has one.
OfArg(f, e, k, none) == IF k \in DOMAIN e.args THEN f[e.args[k]] ELSE none

NodeCount[e \in Trees] == 1 + OfArg(NodeCount, e, 1, 0) + OfArg(NodeCount, e, 2, 0)

ParamCount[e \in Trees] ==
    (IF e.window # NoWindow THEN 1 ELSE 0)
        + OfArg(ParamCount, e, 1, 0) + OfArg(ParamCount, e, 2, 0)

\* All subtrees of e in preorder, e first.
Collect[e \in Trees] == <<e>> \o OfArg(Collect, e, 1, <<>>) \o OfArg(Collect, e, 2, <<>>)

\* A slip of Skipped, for the runs to refute: the left subtree is not counted.
SkippedRootOnly(node, k) == 1

\* The nodes that come before the k-th subtree of node, in preorder.
Skipped(node, k) == IF k = 1 THEN 1 ELSE 1 + NodeCount[node.args[1]]

\* e with its index-th subtree in preorder, from 0, swapped for new.
Replace(e, index, new) ==
    LET rebuild[node \in Trees] == [toGo \in Int |->
            IF toGo = 0 THEN new
            ELSE [node EXCEPT !.args = [k \in DOMAIN node.args |->
                     rebuild[node.args[k]][toGo - Skipped(node, k)]]]]
    IN  rebuild[e][index]

\* Ten tries at a tree that differs; the expression drawn after them need not.
Mutants(e, depth) ==
    {Replace(e, index, new) : index \in 0..(NodeCount[e] - 1), new \in RandomExpressions[depth]}
        \cup RandomExpressions[depth]

Crossings(a, b) ==
    {Replace(a, site, donor) : site \in 0..(NodeCount[a] - 1), donor \in ToSet(Collect[b])}

---------------------------------------------------------------------------
\* The structural filter.

\* A slip of Similarity, for the runs to refute: only the root is looked up.
SimilarityOfRoots(a, b) == IF a = b THEN NodeCount[a] ELSE 0

\* The size of the largest subtree that a and b share.
Similarity(a, b) ==
    Max({0} \cup {NodeCount[s] : s \in ToSet(Collect[a]) \cap ToSet(Collect[b])})

\* decay_resistance_filter accepts e; originality is measured against the size of e.
Admissible(e, library) ==
    /\ \A known \in library : 10 * Similarity(e, known) <= MaxSimilarity * NodeCount[e]
    /\ NodeCount[e] <= MaxNodes
    /\ ParamCount[e] <= MaxParams

---------------------------------------------------------------------------
\* The interchange format, as a sequence of tokens.

Text(text)     == [text |-> text, number |-> 0]
Number(number) == [text |-> "digits", number |-> number]

Tokens[e \in Trees] ==
    IF e.args = <<>> THEN <<Text(e.op)>>
    ELSE <<Text("("), Text(e.op)>>
         \o OfArg(Tokens, e, 1, <<>>) \o OfArg(Tokens, e, 2, <<>>)
         \o (IF e.window # NoWindow THEN <<Number(e.window)>> ELSE <<>>)
         \o <<Text(")")>>

\* A parse ends behind the expression it read; one that failed ends nowhere.
ParseError == [expr |-> Feature("error"), pos |-> 0]

\* A slip of Form, for the runs to refute: operands popped off a stack.
FormReversed(op, args, window) ==
    IF Len(args) = 2 THEN Binary(op, args[2], args[1]) ELSE [op |-> op, args |-> args, window |-> window]

Form(op, args, window) == [op |-> op, args |-> args, window |-> window]

WellFormed(op, args, window) ==
    \/ op \in UNARY_OPS /\ Len(args) = 1 /\ window = NoWindow
    \/ op \in BINARY_OPS /\ Len(args) = 2 /\ window = NoWindow
    \/ op \in TS_OPS /\ Len(args) = 1 /\ window # NoWindow

\* The expression at pos, given the arguments that every position begins.
ParseTokens(tokens, pos, argsAt) ==
    IF pos > Len(tokens) THEN ParseError
    ELSE IF tokens[pos].text # "("
    THEN IF tokens[pos].text \in FEATURES
         THEN [expr |-> Feature(tokens[pos].text), pos |-> pos + 1] ELSE ParseError
    ELSE LET op   == IF pos < Len(tokens) THEN tokens[pos + 1].text ELSE ""
             body == argsAt[pos + 2]
         IN  IF body.pos <= Len(tokens) /\ WellFormed(op, body.args, body.window)
             THEN [expr |-> Form(op, body.args, body.window), pos |-> body.pos + 1]
             ELSE ParseError

\* The arguments from a position to the closing parenthesis, in any order; the last window
\* counts.
ArgsAt(tokens) ==
    LET argsAt[pos \in Nat] ==
          LET child == ParseTokens(tokens, pos, argsAt)
              rest  == argsAt[IF tokens[pos].text = "digits" THEN pos + 1 ELSE child.pos]
          IN  IF pos > Len(tokens) \/ tokens[pos].text = ")"
              THEN [args |-> <<>>, window |-> NoWindow, pos |-> pos]
              ELSE IF tokens[pos].text = "digits"
              THEN [args |-> rest.args, pos |-> rest.pos,
                    window |-> IF rest.window = NoWindow THEN tokens[pos].number ELSE rest.window]
              ELSE IF child = ParseError
              THEN [args |-> <<>>, window |-> NoWindow, pos |-> Len(tokens) + 1]
              ELSE [args |-> <<child.expr>> \o rest.args, window |-> rest.window, pos |-> rest.pos]
    IN  argsAt

\* parse: nothing may trail the expression.
Parse(tokens) ==
    LET read == ParseTokens(tokens, 1, ArgsAt(tokens))
    IN  IF read.pos = Len(tokens) + 1 THEN read.expr ELSE ParseError.expr

---------------------------------------------------------------------------
\* Evaluation over a panel: bars is a set of observations [ticker, date].

NaN == {}

Dates(bars)     == {b.date : b \in bars}
TickersOf(bars) == {b.ticker : b \in bars}

Both(x, y) == IF x = NaN \/ y = NaN THEN NaN ELSE x \cup y

\* The dates behind from, up to day.
Since(from, day, dates) == {d \in dates : from < d /\ d <= day}

\* A slip of DaysBack, for the runs to refute: delays look forward.
DaysForward(w, day, dates) == {d \in dates : Cardinality(Since(day, d, dates)) = w}

\* The date w places before day, if the panel goes back so far.
DaysBack(w, day, dates) == {d \in dates : Cardinality(Since(d, day, dates)) = w}

\* The last w dates up to day, if there are so many.
Window(w, day, dates) == {d \in dates : d <= day /\ Cardinality(Since(d, day, dates)) < w}

\* TimeSeries._roll on a day; a rolling statistic needs its whole window.
Roll(op, w, series, day, dates) ==
    LET before == UNION {series[d] : d \in DaysBack(w, day, dates)}
        window == Window(w, day, dates)
    IN  IF op = "delay" THEN before
        ELSE IF op \in {"delta", "momentum"} THEN Both(series[day], before)
        ELSE IF Cardinality(window) < w \/ \E d \in window : series[d] = NaN THEN NaN
        ELSE UNION {series[d] : d \in window}

\* A ranking across the tickers that have a value; one alone is not ranked.
CrossSectional(values, t, day) ==
    LET row == {u \in DOMAIN values : values[u][day] # NaN}
    IN  IF t \in row /\ Cardinality(row) >= 2 THEN UNION {values[u][day] : u \in row} ELSE NaN

\* panel_from_prices: the bars of a ticker, aligned to the dates of all.
Panel(bars) ==
    [t \in TickersOf(bars) |-> [d \in Dates(bars) |-> {b \in bars : b.ticker = t /\ b.date = d}]]

\* The value of e for t on a day, from the values of its arguments for every ticker.
Cell(e, bars, x, y, t, day) ==
    IF e.args = <<>>
    THEN IF e.op = "ret" THEN Roll("delta", 1, Panel(bars)[t], day, Dates(bars)) ELSE Panel(bars)[t][day]
    ELSE IF e.window # NoWindow THEN Roll(e.op, e.window, x[t], day, Dates(bars))
    ELSE IF 2 \in DOMAIN e.args THEN Both(x[t][day], y[t][day])
    ELSE IF e.op \in {"cs_rank", "cs_zscore"} THEN CrossSectional(x, t, day)
    ELSE x[t][day]

Evaluate(bars) ==
    LET value[e \in Trees] ==
          LET x == OfArg(value, e, 1, NaN)
              y == OfArg(value, e, 2, NaN)
          IN  [t \in TickersOf(bars) |-> [d \in Dates(bars) |-> Cell(e, bars, x, y, t, d)]]
    IN  value

\* to_scores: the dates on which two tickers or more have a value.
ToScores(e, bars) ==
    LET values == Evaluate(bars)[e]
        row(d) == {t \in TickersOf(bars) : values[t][d] # NaN}
    IN  {s \in {[ticker |-> t, date |-> d, from |-> values[t][d]]
                 : t \in TickersOf(bars), d \in Dates(bars)} :
           s.from # NaN /\ Cardinality(row(s.date)) >= 2}
====
