-------------------------------- MODULE AuditLog --------------------------------
(***************************************************************************)
(* The hash-chained JSONL trail of src/monitoring/audit.py, appended to by  *)
(* one or more AuditLog objects (Writers) on the same path.                 *)
(*                                                                          *)
(* record() reads the whole file for the digest of the last entry, computes *)
(* the digest of the new entry and then opens the file again to append it:  *)
(* two steps with no lock around them.  The append is one small write, but  *)
(* it is not synced and it may come up short when the disk is full.         *)
(*                                                                          *)
(* SHA-256 is taken to have no collisions: the digests computed so far are  *)
(* numbered 1, 2, ... in the order of their computation, and 0 is the None  *)
(* of the first entry.  The content of an entry is kept only as whether it  *)
(* still has the digest recorded with it.  No key goes into a digest, so    *)
(* whoever can write the file can recompute one.                            *)
(***************************************************************************)
EXTENDS Naturals, Sequences

CONSTANTS Writers,      \* AuditLog objects on one file, in one or several processes
          MaxRecords    \* bound: how many digests are ever computed

ASSUME MaxRecordsAssumption == MaxRecords \in Nat

VARIABLES file,         \* the entries of the file, in order
          tail,         \* how the text of the file ends
          writing,      \* each writer's entry that is computed and not yet appended
          digests,      \* how many digests have been computed
          seen,         \* history: seen[d] is the log that digest d was computed behind
          landed,       \* history: how many entries have been appended
          overlapped,   \* history: an entry has landed after one its writer had not read
          damaged       \* history: the file was edited, or lost entries

vars == <<file, tail, writing, digests, seen, landed, overlapped, damaged>>

Entry == [digest : Nat \ {0}, prev : Nat, intact : BOOLEAN]

\* "whole" ends with a newline, "open" ends with a complete entry and no newline,
\* "torn" holds a line that is not JSON, on which entries() raises.
Tails == {"whole", "open", "torn"}

Idle    == [step |-> "idle"]
Writing == {Idle} \cup [step : {"append"}, entry : Entry, base : Nat]

\* _last_hash()
LastHash(f) == IF f = <<>> THEN 0 ELSE f[Len(f)].digest

DigestsOf(f) == [i \in DOMAIN f |-> f[i].digest]

\* Faulty variant: the chain is not compared.
ChainedUnlinked(f) == \A i \in DOMAIN f : f[i].intact

\* The loop of verify(): every digest matches its content and every prev_hash
\* the digest before it.
Chained(f) ==
    \A i \in DOMAIN f :
        /\ f[i].intact
        /\ f[i].prev = (IF i = 1 THEN 0 ELSE f[i - 1].digest)

VerifyResult == IF tail = "torn" THEN "raises" ELSE IF Chained(file) THEN "true" ELSE "false"

--------------------------------------------------------------------------------

Init ==
    /\ file = <<>>
    /\ tail = "whole"
    /\ writing = [w \in Writers |-> Idle]
    /\ digests = 0
    /\ seen = <<>>
    /\ landed = 0
    /\ overlapped = FALSE
    /\ damaged = FALSE

\* Faulty variant: the new entry repeats the prev_hash of the last one.
ComputeRepeating(w) ==
    /\ writing[w] = Idle
    /\ tail # "torn"
    /\ digests < MaxRecords
    /\ digests' = digests + 1
    /\ writing' = [writing EXCEPT ![w] =
           [step |-> "append", base |-> landed,
            entry |-> [digest |-> digests + 1, intact |-> TRUE,
                       prev |-> IF file = <<>> THEN 0 ELSE file[Len(file)].prev]]]
    /\ seen' = Append(seen, DigestsOf(file))
    /\ UNCHANGED <<file, tail, landed, overlapped, damaged>>

\* record() up to the digest.  On a torn file entries() raises and nothing happens.
Compute(w) ==
    /\ writing[w] = Idle
    /\ tail # "torn"
    /\ digests < MaxRecords
    /\ digests' = digests + 1
    /\ writing' = [writing EXCEPT ![w] =
           [step |-> "append", base |-> landed,
            entry |-> [digest |-> digests + 1, prev |-> LastHash(file), intact |-> TRUE]]]
    /\ seen' = Append(seen, DigestsOf(file))
    /\ UNCHANGED <<file, tail, landed, overlapped, damaged>>

\* Faulty variant: the file is opened with "w", not "a".
LandTruncating(w) ==
    /\ file' = <<writing[w].entry>>
    /\ landed' = landed + 1
    /\ overlapped' = (overlapped \/ writing[w].base # landed)

\* The entry becomes the last one of the file.
Land(w) ==
    /\ file' = Append(file, writing[w].entry)
    /\ landed' = landed + 1
    /\ overlapped' = (overlapped \/ writing[w].base # landed)

\* The append itself.  What follows an unfinished line becomes part of it.
AppendLine(w) ==
    /\ writing[w] # Idle
    /\ \/ /\ tail = "whole"
          /\ Land(w)
          /\ tail' = "whole"
       \/ /\ tail # "whole"
          /\ tail' = "torn"
          /\ UNCHANGED <<file, landed, overlapped>>
    /\ writing' = [writing EXCEPT ![w] = Idle]
    /\ UNCHANGED <<digests, seen, damaged>>

\* The disk is full, or the machine stops, and part of the line is written: up to
\* the newline, or less.
AppendShort(w) ==
    /\ writing[w] # Idle
    /\ \/ /\ tail = "whole"
          /\ Land(w)
          /\ tail' = "open"
       \/ /\ tail' = "torn"
          /\ UNCHANGED <<file, landed, overlapped>>
    /\ writing' = [writing EXCEPT ![w] = Idle]
    /\ UNCHANGED <<digests, seen, damaged>>

\* The process stops between the two steps.
Stop(w) ==
    /\ writing[w] # Idle
    /\ writing' = [writing EXCEPT ![w] = Idle]
    /\ UNCHANGED <<file, tail, digests, seen, landed, overlapped, damaged>>

\* What verify() is there to detect.  An entry is altered, and its digest left alone;
Edit(i) ==
    /\ file' = [file EXCEPT ![i].intact = FALSE]
    /\ damaged' = TRUE
    /\ UNCHANGED <<tail, writing, digests, seen, landed, overlapped>>

\* or altered, and linked and hashed anew, as often as it takes, for the entries that follow;
Rewrite(i) ==
    /\ digests < MaxRecords
    /\ digests' = digests + 1
    /\ file' = [file EXCEPT ![i] =
           [digest |-> digests + 1, intact |-> TRUE,
            prev |-> IF i = 1 THEN 0 ELSE file[i - 1].digest]]
    /\ seen' = Append(seen, SubSeq(DigestsOf(file), 1, i - 1))
    /\ damaged' = TRUE
    /\ UNCHANGED <<tail, writing, landed, overlapped>>

\* or removed.
Drop(i) ==
    /\ file' = SubSeq(file, 1, i - 1) \o SubSeq(file, i + 1, Len(file))
    /\ tail' = IF tail = "open" /\ i = Len(file) THEN "whole" ELSE tail
    /\ damaged' = TRUE
    /\ UNCHANGED <<writing, digests, seen, landed, overlapped>>

Next ==
    \/ \E w \in Writers : Compute(w) \/ AppendLine(w) \/ AppendShort(w) \/ Stop(w)
    \/ \E i \in DOMAIN file : Edit(i) \/ Rewrite(i) \/ Drop(i)

Spec == Init /\ [][Next]_vars

--------------------------------------------------------------------------------
(* Properties                                                                   *)

\* The entries, the text behind them and the appends in progress are well formed (record).
TypeOK ==
    /\ file \in Seq(Entry)
    /\ tail \in Tails
    /\ writing \in [Writers -> Writing]
    /\ digests \in Nat
    /\ seen \in Seq(Seq(Nat))
    /\ landed \in Nat
    /\ overlapped \in BOOLEAN
    /\ damaged \in BOOLEAN

\* As long as no records overlap, a digest in a log that verifies answers for everything
\* before it: there stands exactly the log that the digest was computed behind, so the
\* digest that record() returned pins down all that led up to it, whatever was altered,
\* rehashed or removed, and whenever.  It says nothing of what is no longer in the file:
\* verify() also accepts a log whose chain was computed anew from an entry on, or whose last
\* entries are gone.
VerifiedHistory ==
    VerifyResult = "true" /\ ~overlapped =>
        \A i \in DOMAIN file : seen[file[i].digest] = SubSeq(DigestsOf(file), 1, i - 1)

\* On an undamaged file the chain is broken exactly when two records have overlapped.
ForkedIffOverlapped == ~damaged => (Chained(file) <=> ~overlapped)

\* A fork is for good: no later record makes verify() say yes again, and every entry
\* keeps its place.
ForksStay == [][~damaged' => /\ ~Chained(file) => ~Chained(file')
                             /\ SubSeq(file', 1, Len(file)) = file]_vars

--------------------------------------------------------------------------------
(* What the documentation says, and the code does not keep                      *)

\* verify() says no only if something was tampered with.
FalseOnlyIfTampered == VerifyResult = "false" => damaged
================================================================================
