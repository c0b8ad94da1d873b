------------------------------- MODULE Lifecycle -------------------------------
(***************************************************************************)
(* What the signal registry promises about each signal, whatever the       *)
(* storage underneath: a signal is registered once, then only moves        *)
(* forward, one stage at a time, or straight to RETIRED, where it stays.   *)
(* The chain is the one in the diagram of docs/SIGNAL_REGISTRY.md; it is   *)
(* written from the order of the stages and not from the transition table  *)
(* of the code, which SignalRegistry is checked and proved to respect.     *)
(***************************************************************************)
EXTENDS Naturals

CONSTANTS Names,        \* signal names
          RegisterAs    \* the statuses a signal may be registered with

VARIABLE status         \* [Names -> Status \cup {"ABSENT"}]

Stage == [DISCOVERED |-> 1, VALIDATED |-> 2, STAGING |-> 3, PRODUCTION |-> 4]

Register(n, s) ==
    /\ status[n] = "ABSENT"
    /\ status' = [status EXCEPT ![n] = s]

Promote(n, s) ==
    /\ status[n] \in DOMAIN Stage
    /\ s \in DOMAIN Stage
    /\ Stage[s] = Stage[status[n]] + 1
    /\ status' = [status EXCEPT ![n] = s]

Retire(n) ==
    /\ status[n] \in DOMAIN Stage
    /\ status' = [status EXCEPT ![n] = "RETIRED"]

Init == status = [n \in Names |-> "ABSENT"]

Next == \E n \in Names :
           \/ \E s \in RegisterAs : Register(n, s)
           \/ \E s \in DOMAIN Stage : Promote(n, s)
           \/ Retire(n)

Spec == Init /\ [][Next]_status
================================================================================
