---- MODULE MCFactorMining ----
(* An instance of FactorMining for TLC.                                    *)
EXTENDS FactorMining

MCLibrary == {Unary("cs_rank", Feature("ret"))}

MCBars == [ticker : {"A", "B"}, date : 1..4]

\* What a language model may propose: a known factor, a sound one, and one with a feature
\* that does not exist.
MCInvalid == {Feature("vwap")}
MCSeeds == {Feature("ret"), Feature("close")} \cup MCInvalid
MCAdmitted == AdmittedExpressions \cup MCInvalid
====
