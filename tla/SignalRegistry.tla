---------------------------- MODULE SignalRegistry ----------------------------
(***************************************************************************)
(* The signal registry of src/signals/registry/signal_registry.py: a SQLite *)
(* table of signals opened by one or more SignalRegistry objects (Conns,    *)
(* one sqlite3 connection each), and the trail of events it sends to the    *)
(* audit log.                                                               *)
(*                                                                          *)
(* Every public call is a SELECT, a check in Python, and then one write.    *)
(* sqlite3 opens its implicit transaction only at the write, so another     *)
(* connection may commit between the two.  The audit record follows the     *)
(* commit as a third step.  The process can stop between any two steps.     *)
(*                                                                          *)
(* SQLite is not part of the repository.  Its rollback-journal locks are    *)
(* modelled from the way the code uses it: sqlite3.connect with the default *)
(* isolation level and the default busy timeout, execute followed by        *)
(* commit, and no rollback anywhere.  A lock another step can see is one    *)
(* that a call left behind, so it outlasts the busy timeout and the waiter  *)
(* gets OperationalError.                                                   *)
(***************************************************************************)
EXTENDS Naturals, Sequences

CONSTANTS Names,        \* signal names
          Conns,        \* open SignalRegistry objects on one database file
          Callers,      \* [Names -> SUBSET Conns]: who makes calls on a name
          RegisterAs,   \* the statuses callers register signals with
          Metrics,      \* the nullable metric columns (mean_ic, icir, sharpe)
          MaxTrail      \* bound: no audited call starts on a trail this long

Status == {"DISCOVERED", "VALIDATED", "STAGING", "PRODUCTION", "RETIRED"}

ASSUME CallersAssumption == Callers \in [Names -> SUBSET Conns]
ASSUME RegisterAsAssumption == RegisterAs \subseteq Status
ASSUME MaxTrailAssumption == MaxTrail \in Nat

VARIABLES table,    \* the committed rows
          draft,    \* the rows as the connection holding the write lock sees them
          lock,     \* each connection's transaction and SQLite lock
          call,     \* each connection's call in progress
          result,   \* how each connection's last call ended
          trail,    \* the events the audit log holds
          raced     \* history: a register has lost the race for its name

vars == <<table, draft, lock, call, result, trail, raced>>

--------------------------------------------------------------------------------
(* The data                                                                     *)

\* Faulty variant: a signal may skip STAGING.
AllowedTransitionsSkipping ==
    [DISCOVERED |-> {"VALIDATED", "RETIRED"},
     VALIDATED  |-> {"STAGING", "PRODUCTION", "RETIRED"},
     STAGING    |-> {"PRODUCTION", "RETIRED"},
     PRODUCTION |-> {"RETIRED"},
     RETIRED    |-> {}]

AllowedTransitions ==
    [DISCOVERED |-> {"VALIDATED", "RETIRED"},
     VALIDATED  |-> {"STAGING", "RETIRED"},
     STAGING    |-> {"PRODUCTION", "RETIRED"},
     PRODUCTION |-> {"RETIRED"},
     RETIRED    |-> {}]

Stamps == {"validated_at", "promoted_at", "retired_at"}

\* The timestamp column a transition to this status fills; STAGING has none.
StampsOn ==
    [DISCOVERED |-> {},
     VALIDATED  |-> {"validated_at"},
     STAGING    |-> {},
     PRODUCTION |-> {"promoted_at"},
     RETIRED    |-> {"retired_at"}]

\* A row keeps its status, the timestamps that are not NULL and the metrics that
\* are not NULL.  A name without a row is Absent.
Row    == [status : Status, stamps : SUBSET Stamps, metrics : SUBSET Metrics]
Absent == [status |-> "ABSENT", stamps |-> {}, metrics |-> {}]

\* The caller's record: it may be measured already, and it is not stamped yet.
NewRow(s, ms) == [status |-> s, stamps |-> {}, metrics |-> ms]

\* Faulty variant: a transition that forgets its timestamp.
MovedUnstamped(r, s) == [r EXCEPT !.status = s]

Moved(r, s) == [r EXCEPT !.status = s, !.stamps = @ \cup StampsOn[s]]

\* Faulty variant: fields that are not provided are set to None.
MeasuredOver(r, ms) == [r EXCEPT !.metrics = ms]

Measured(r, ms) == [r EXCEPT !.metrics = @ \cup ms]

Event == [name : Names, from : Status \cup {"ABSENT"}, to : Status]

\* "insert" and "save" have read and checked, and write next; "audit" has
\* committed and records next.
Idle == [step |-> "idle"]
Call == {Idle} \cup
        [step : {"insert", "save", "audit"}, name : Names, row : Row,
         from : Status \cup {"ABSENT"}, audited : BOOLEAN]

Pending(s, n, r, f, a) ==
    [step |-> s, name |-> n, row |-> r, from |-> f, audited |-> a]

Results == {"none", "ok", "DuplicateSignalError", "SignalNotFoundError",
            "TransitionError", "IntegrityError", "OperationalError", "AuditError"}

\* "open" is a transaction that holds no lock yet.
Locks == {"unlocked", "open", "shared", "reserved", "pending"}

--------------------------------------------------------------------------------
(* SQLite                                                                       *)

Writing(c) == lock[c] \in {"reserved", "pending"}
View(c)    == IF Writing(c) THEN draft ELSE table

\* A connection that failed to commit keeps out readers that are not yet reading.
ReadBlocked(c) ==
    /\ lock[c] \in {"unlocked", "open"}
    /\ \E d \in Conns \ {c} : lock[d] = "pending"

\* Faulty variant: the cursor is kept, and with it the read lock.
SelectKeepingLock(c) ==
    /\ ~ReadBlocked(c)
    /\ lock' = [lock EXCEPT ![c] = IF Writing(c) THEN @ ELSE "shared"]

\* Outside a transaction the read lock goes when the row is fetched; inside one
\* it stays until the transaction ends.
Select(c) ==
    /\ ~ReadBlocked(c)
    /\ lock' = [lock EXCEPT ![c] = IF @ = "open" THEN "shared" ELSE @]

WriteBlocked(c)  == \E d \in Conns \ {c} : Writing(d)
CommitBlocked(c) == \E d \in Conns \ {c} : lock[d] = "shared"

--------------------------------------------------------------------------------
(* The calls                                                                    *)

Return(c, r) ==
    /\ call' = [call EXCEPT ![c] = Idle]
    /\ result' = [result EXCEPT ![c] = r]

Proceed(c, p) ==
    /\ call' = [call EXCEPT ![c] = p]
    /\ result' = [result EXCEPT ![c] = "none"]

Ready(c) == call[c] = Idle

\* Any call whose first SELECT cannot get its read lock.
ReadFails(c) ==
    /\ Ready(c)
    /\ ReadBlocked(c)
    /\ Return(c, "OperationalError")
    /\ UNCHANGED <<table, draft, lock, trail, raced>>

Register(c, n, s, ms) ==
    /\ Ready(c)
    /\ Len(trail) < MaxTrail
    /\ Select(c)
    /\ \/ /\ View(c)[n] # Absent
          /\ Return(c, "DuplicateSignalError")
       \/ /\ View(c)[n] = Absent
          /\ Proceed(c, Pending("insert", n, NewRow(s, ms), "ABSENT", TRUE))
    /\ UNCHANGED <<table, draft, trail, raced>>

UpdateStatus(c, n, s) ==
    /\ Ready(c)
    /\ Len(trail) < MaxTrail
    /\ Select(c)
    /\ LET r == View(c)[n] IN
         \/ /\ r = Absent
            /\ Return(c, "SignalNotFoundError")
         \/ /\ r # Absent
            /\ s \notin AllowedTransitions[r.status]
            /\ Return(c, "TransitionError")
         \/ /\ r # Absent
            /\ s \in AllowedTransitions[r.status]
            /\ Proceed(c, Pending("save", n, Moved(r, s), r.status, TRUE))
    /\ UNCHANGED <<table, draft, trail, raced>>

UpdateMetrics(c, n, ms) ==
    /\ Ready(c)
    /\ Select(c)
    /\ LET r == View(c)[n] IN
         \/ /\ r = Absent
            /\ Return(c, "SignalNotFoundError")
         \/ /\ r # Absent
            /\ Proceed(c, Pending("save", n, Measured(r, ms), r.status, FALSE))
    /\ UNCHANGED <<table, draft, trail, raced>>

--------------------------------------------------------------------------------
(* The write: execute (INSERT or the UPDATE of _save) and commit                *)

AtWrite(c) == call[c].step \in {"insert", "save"}

\* The INSERT finds the name taken by a row committed since the SELECT.
Conflicts(c) == call[c].step = "insert" /\ View(c)[call[c].name] # Absent

\* Faulty variant: no busy timeout, the call waits for the lock as long as it takes.
WriteFailsNever(c) ==
    /\ AtWrite(c)
    /\ WriteBlocked(c)
    /\ UNCHANGED vars

\* execute has begun a transaction and fails on the other connection's lock;
\* nothing rolls the transaction back.
WriteFails(c) ==
    /\ AtWrite(c)
    /\ WriteBlocked(c)
    /\ lock' = [lock EXCEPT ![c] = IF @ = "unlocked" THEN "open" ELSE @]
    /\ Return(c, "OperationalError")
    /\ UNCHANGED <<table, draft, trail, raced>>

\* The primary key rejects the row, and the transaction keeps its write lock.
InsertFails(c) ==
    /\ AtWrite(c)
    /\ ~WriteBlocked(c)
    /\ Conflicts(c)
    /\ lock' = [lock EXCEPT ![c] = IF @ = "pending" THEN @ ELSE "reserved"]
    /\ Return(c, "IntegrityError")
    /\ raced' = TRUE
    /\ UNCHANGED <<table, draft, trail>>

\* Faulty variant: an UPDATE without its WHERE.
WrittenEverywhere(c) == [n \in Names |-> call[c].row]

Written(c) == [View(c) EXCEPT ![call[c].name] = call[c].row]

\* The row is written but a reader's lock keeps commit from publishing it.
CommitFails(c) ==
    /\ AtWrite(c)
    /\ ~WriteBlocked(c)
    /\ ~Conflicts(c)
    /\ CommitBlocked(c)
    /\ draft' = Written(c)
    /\ lock' = [lock EXCEPT ![c] = "pending"]
    /\ Return(c, "OperationalError")
    /\ UNCHANGED <<table, trail, raced>>

Commit(c) ==
    /\ AtWrite(c)
    /\ ~WriteBlocked(c)
    /\ ~Conflicts(c)
    /\ ~CommitBlocked(c)
    /\ table' = Written(c)
    /\ draft' = Written(c)
    /\ lock' = [lock EXCEPT ![c] = "unlocked"]
    /\ \/ /\ call[c].audited
          /\ Proceed(c, [call[c] EXCEPT !.step = "audit"])
       \/ /\ ~call[c].audited
          /\ Return(c, "ok")
    /\ UNCHANGED <<trail, raced>>

--------------------------------------------------------------------------------
(* The audit record                                                             *)

Audit(c) ==
    /\ call[c].step = "audit"
    /\ trail' = Append(trail, [name |-> call[c].name, from |-> call[c].from,
                               to |-> call[c].row.status])
    /\ Return(c, "ok")
    /\ UNCHANGED <<table, draft, lock, raced>>

\* AuditLog.record raises (a full disk, an unreadable log): the caller gets an
\* exception for a change that is already committed.
AuditFails(c) ==
    /\ call[c].step = "audit"
    /\ Return(c, "AuditError")
    /\ UNCHANGED <<table, draft, lock, trail, raced>>

\* close(), or the process stops: SQLite drops what was not committed, and a
\* new SignalRegistry may take this one's place.
Close(c) ==
    /\ lock' = [lock EXCEPT ![c] = "unlocked"]
    /\ draft' = IF Writing(c) THEN table ELSE draft
    /\ Return(c, "none")
    /\ UNCHANGED <<table, trail, raced>>

--------------------------------------------------------------------------------

Init ==
    /\ table = [n \in Names |-> Absent]
    /\ draft = table
    /\ lock = [c \in Conns |-> "unlocked"]
    /\ call = [c \in Conns |-> Idle]
    /\ result = [c \in Conns |-> "none"]
    /\ trail = <<>>
    /\ raced = FALSE

Start(c) ==
    \/ ReadFails(c)
    \/ \E n \in Names :
          /\ c \in Callers[n]
          /\ \/ \E s \in RegisterAs, ms \in SUBSET Metrics : Register(c, n, s, ms)
             \/ \E s \in Status : UpdateStatus(c, n, s)
             \/ \E ms \in SUBSET Metrics : UpdateMetrics(c, n, ms)

Continue(c) ==
    \/ WriteFails(c)
    \/ InsertFails(c)
    \/ CommitFails(c)
    \/ Commit(c)
    \/ Audit(c)
    \/ AuditFails(c)

Next == \E c \in Conns : Start(c) \/ Continue(c) \/ Close(c)

Spec == Init /\ [][Next]_vars

\* A call that has started is Python code that runs on; nobody has to make calls.
FairSpec == Spec /\ \A c \in Conns : WF_vars(Continue(c))

--------------------------------------------------------------------------------
(* Properties                                                                   *)

\* The rows, the locks and the calls in progress are well formed (SignalRecord, _save).
TypeOK ==
    /\ table \in [Names -> Row \cup {Absent}]
    /\ draft \in [Names -> Row \cup {Absent}]
    /\ lock \in [Conns -> Locks]
    /\ call \in [Conns -> Call]
    /\ result \in [Conns -> Results]
    /\ trail \in Seq(Event)
    /\ raced \in BOOLEAN

\* The timestamps of a row agree with its status, also when saves of several
\* connections overwrite each other: _save writes the whole row, so a race may
\* lose an update but cannot mix two of them.
StampsAgree(r) ==
    /\ "retired_at" \in r.stamps <=> r.status = "RETIRED"
    /\ r.status = "PRODUCTION" => "promoted_at" \in r.stamps
    /\ "promoted_at" \in r.stamps => r.status \in {"PRODUCTION", "RETIRED"}
    /\ "validated_at" \in r.stamps => r.status # "DISCOVERED"

StampsMatchStatus == \A n \in Names : StampsAgree(table[n])

\* When each name has one caller, the table implements the lifecycle, although
\* SELECT and UPDATE are separate transactions and other connections are busy
\* with other names.
Abstract == INSTANCE Lifecycle WITH status <- [n \in Names |-> table[n].status]
LifecycleSpec == Abstract!Spec

\* When each name has one caller, the trail tells a signal's story in order, and
\* never ahead of the table; a crash or a failed record leaves gaps only.
Rank == [ABSENT |-> 0, DISCOVERED |-> 1, VALIDATED |-> 2, STAGING |-> 3,
         PRODUCTION |-> 4, RETIRED |-> 5]

TrailInOrder ==
    \A i \in DOMAIN trail :
        /\ Rank[trail[i].to] <= Rank[table[trail[i].name].status]
        /\ \A j \in (i + 1)..Len(trail) :
              trail[i].name = trail[j].name => Rank[trail[i].to] <= Rank[trail[j].from]

\* When each name has one caller, a metric that has a value keeps one: update_metrics
\* saves the whole row it has read, and only provided fields change.
MetricsKept == [][\A n \in Names : table[n].metrics \subseteq table'[n].metrics]_vars

\* No call leaves a lock behind, and no call is locked out, unless a register has
\* lost the race for its name: that is the only way into a locked database.
LocksOnlyAfterRace ==
    raced \/ \A c \in Conns : lock[c] = "unlocked" /\ result[c] # "OperationalError"

\* Every call that starts ends, whatever locks other connections keep.
EveryCallReturns == \A c \in Conns : ~Ready(c) ~> Ready(c)

--------------------------------------------------------------------------------
(* What the documentation and the tests say, and the code does not keep         *)

\* RETIRED is terminal, for every caller.
RetiredIsTerminal ==
    [][\A n \in Names : table[n].status = "RETIRED" => table'[n].status = "RETIRED"]_vars
================================================================================
