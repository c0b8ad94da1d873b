---------------------------- MODULE MCSignalRegistry ----------------------------
(* Instances of SignalRegistry for TLC.                                         *)
EXTENDS SignalRegistry

\* Every connection makes calls on every name.
SharedNames == [n \in Names |-> Conns]

\* Every name is left to one connection.
OwnedNames ==
    LET owner == CHOOSE f \in [Names -> Conns] :
                    \A m, n \in Names : m # n => f[m] # f[n]
    IN  [n \in Names |-> {owner[n]}]
================================================================================
