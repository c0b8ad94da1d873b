-------------------------- MODULE SignalRegistryProofs --------------------------
(***************************************************************************)
(* Theorems about SignalRegistry, for any sets of names, connections and    *)
(* metrics.                                                                 *)
(***************************************************************************)
EXTENDS SignalRegistry, SequenceTheorems, TLAPS

--------------------------------------------------------------------------------
(* Type correctness                                                             *)

\* What the rows that register, update_status and update_metrics build are, and the status
\* they carry.
LEMMA RowFacts ==
    /\ Absent \notin Row
    /\ \A s \in Status, ms \in SUBSET Metrics : NewRow(s, ms) \in Row
    /\ \A r \in Row, s \in Status : Moved(r, s) \in Row /\ Moved(r, s).status = s
    /\ \A r \in Row, ms \in SUBSET Metrics :
          Measured(r, ms) \in Row /\ Measured(r, ms).status = r.status
<1> USE DEF Row
<1>1. Absent \notin Row
  BY DEF Absent, Status
<1>2. \A s \in Status, ms \in SUBSET Metrics : NewRow(s, ms) \in Row
  BY DEF NewRow
<1>3. ASSUME NEW r \in Row, NEW s \in Status
      PROVE  Moved(r, s) \in Row /\ Moved(r, s).status = s
  <2>1. StampsOn[s] \in SUBSET Stamps
    BY DEF StampsOn, Status, Stamps
  <2>2. r.stamps \cup StampsOn[s] \in SUBSET Stamps
    BY <2>1
  <2> QED BY <2>2 DEF Moved
<1>4. ASSUME NEW r \in Row, NEW ms \in SUBSET Metrics
      PROVE  Measured(r, ms) \in Row /\ Measured(r, ms).status = r.status
  <2>1. r.metrics \cup ms \in SUBSET Metrics
    OBVIOUS
  <2> QED BY <2>1 DEF Measured
<1> QED BY <1>1, <1>2, <1>3, <1>4

\* What the calls in progress are and hold.
LEMMA CallFacts ==
    /\ Idle \in Call
    /\ \A s \in {"insert", "save", "audit"}, n \in Names, r \in Row,
          f \in Status \cup {"ABSENT"}, a \in BOOLEAN : Pending(s, n, r, f, a) \in Call
    /\ \A k \in Call : k.step \in {"insert", "save", "audit"} =>
          /\ k # Idle
          /\ k.name \in Names /\ k.row \in Row /\ k.from \in Status \cup {"ABSENT"}
          /\ k.audited \in BOOLEAN
          /\ [k EXCEPT !.step = "audit"] \in Call
  BY DEF Idle, Call, Pending

\* The state stays well typed: whatever a connection reads, writes or leaves
\* half-done, rows are rows of the schema and calls are calls of the interface.
THEOREM TypeCorrect == Spec => []TypeOK
<1>1. Init => TypeOK
  <2> SUFFICES ASSUME Init PROVE TypeOK
    OBVIOUS
  <2>1. table \in [Names -> Row \cup {Absent}] /\ draft = table
    BY DEF Init
  <2>2. call \in [Conns -> Call]
    BY CallFacts DEF Init
  <2>3. lock \in [Conns -> Locks] /\ result \in [Conns -> Results]
    BY DEF Init, Locks, Results
  <2>4. trail \in Seq(Event) /\ raced \in BOOLEAN
    BY EmptySeq DEF Init
  <2> QED BY <2>1, <2>2, <2>3, <2>4 DEF TypeOK
<1>2. TypeOK /\ [Next]_vars => TypeOK'
  <2> SUFFICES ASSUME TypeOK, [Next]_vars PROVE TypeOK'
    OBVIOUS
  <2> USE DEF TypeOK
  <2>1. \A c \in Conns : View(c) \in [Names -> Row \cup {Absent}]
    BY DEF View
  <2>2. \A c \in Conns, r \in Results : Return(c, r) =>
           call' \in [Conns -> Call] /\ result' \in [Conns -> Results]
    BY CallFacts DEF Return
  <2>3. \A c \in Conns, k \in Call : Proceed(c, k) =>
           call' \in [Conns -> Call] /\ result' \in [Conns -> Results]
    BY DEF Proceed, Results
  <2>4. \A c \in Conns : Select(c) => lock' \in [Conns -> Locks]
    BY DEF Select, Locks
  <2>5. ASSUME NEW c \in Conns, ReadFails(c) PROVE TypeOK'
    BY <2>5, <2>2 DEF ReadFails, Results
  <2>6. ASSUME NEW c \in Conns, NEW n \in Names, NEW s \in RegisterAs, NEW ms \in SUBSET Metrics,
               Register(c, n, s, ms)
        PROVE  TypeOK'
    <3>1. Pending("insert", n, NewRow(s, ms), "ABSENT", TRUE) \in Call
      BY RegisterAsAssumption, RowFacts, CallFacts
    <3> QED BY <2>6, <3>1, <2>2, <2>3, <2>4 DEF Register, Results
  <2>7. ASSUME NEW c \in Conns, NEW n \in Names, NEW s \in Status, UpdateStatus(c, n, s)
        PROVE  TypeOK'
    <3> DEFINE r == View(c)[n]
    <3>1. r # Absent => Pending("save", n, Moved(r, s), r.status, TRUE) \in Call
      <4>1. r # Absent => r \in Row /\ r.status \in Status
        BY <2>1 DEF Row
      <4> QED BY <4>1, RowFacts, CallFacts
    <3> QED BY <2>7, <3>1, <2>2, <2>3, <2>4 DEF UpdateStatus, Results
  <2>8. ASSUME NEW c \in Conns, NEW n \in Names, NEW ms \in SUBSET Metrics,
               UpdateMetrics(c, n, ms)
        PROVE  TypeOK'
    <3> DEFINE r == View(c)[n]
    <3>1. r # Absent => Pending("save", n, Measured(r, ms), r.status, FALSE) \in Call
      <4>1. r # Absent => r \in Row /\ r.status \in Status
        BY <2>1 DEF Row
      <4> QED BY <4>1, RowFacts, CallFacts
    <3> QED BY <2>8, <3>1, <2>2, <2>3, <2>4 DEF UpdateMetrics, Results
  <2>9. ASSUME NEW c \in Conns, WriteFails(c) PROVE TypeOK'
    BY <2>9, <2>2 DEF WriteFails, Results, Locks
  <2>10. ASSUME NEW c \in Conns, InsertFails(c) PROVE TypeOK'
    BY <2>10, <2>2 DEF InsertFails, Results, Locks
  <2>11. \A c \in Conns : AtWrite(c) => Written(c) \in [Names -> Row \cup {Absent}]
    BY <2>1, CallFacts DEF AtWrite, Written
  <2>12. ASSUME NEW c \in Conns, CommitFails(c) PROVE TypeOK'
    BY <2>12, <2>2, <2>11 DEF CommitFails, Results, Locks
  <2>13. ASSUME NEW c \in Conns, Commit(c) PROVE TypeOK'
    <3>1. [call[c] EXCEPT !.step = "audit"] \in Call
      BY <2>13, CallFacts DEF Commit, AtWrite
    <3> QED BY <2>13, <3>1, <2>2, <2>3, <2>11 DEF Commit, Results, Locks
  <2>14. ASSUME NEW c \in Conns, Audit(c) PROVE TypeOK'
    <3>1. [name |-> call[c].name, from |-> call[c].from, to |-> call[c].row.status] \in Event
      BY <2>14, CallFacts DEF Audit, Event, Row
    <3> QED BY <2>14, <3>1, <2>2 DEF Audit, Results
  <2>15. ASSUME NEW c \in Conns, AuditFails(c) PROVE TypeOK'
    BY <2>15, <2>2 DEF AuditFails, Results
  <2>16. ASSUME NEW c \in Conns, Close(c) PROVE TypeOK'
    BY <2>16, <2>2 DEF Close, Results, Locks
  <2>17. CASE UNCHANGED vars
    BY <2>17 DEF vars
  <2> QED
    BY <2>5, <2>6, <2>7, <2>8, <2>9, <2>10, <2>12, <2>13, <2>14, <2>15, <2>16, <2>17
    DEF Next, Start, Continue
<1> QED BY <1>1, <1>2, PTL DEF Spec

\* What the type invariant says of the rows a connection sees and writes.
LEMMA TypedRows ==
  ASSUME TypeOK, NEW c \in Conns
  PROVE  /\ View(c) \in [Names -> Row \cup {Absent}]
         /\ call[c] \in Call
         /\ AtWrite(c) => call[c].name \in Names /\ call[c].row \in Row
  BY CallFacts DEF TypeOK, View, AtWrite

--------------------------------------------------------------------------------
(* Row consistency: the timestamps agree with the status, for any number of     *)
(* connections.  The rows still on their way to the table agree as well: the    *)
(* uncommitted ones and those of the calls in progress.                         *)

RowsAgree ==
    /\ \A n \in Names : StampsAgree(table[n]) /\ StampsAgree(draft[n])
    /\ \A c \in Conns : call[c].step # "idle" => StampsAgree(call[c].row)

\* Each way the registry builds a row gives it the timestamps its status asks for
\* (signal_registry.py register, update_status, update_metrics).
LEMMA StampFacts ==
  /\ StampsAgree(Absent)
  /\ \A s \in {"DISCOVERED", "VALIDATED"}, ms \in SUBSET Metrics : StampsAgree(NewRow(s, ms))
  /\ \A r \in Row : StampsAgree(r) =>
        \A s \in AllowedTransitions[r.status] : StampsAgree(Moved(r, s))
  /\ \A r \in Row, ms \in SUBSET Metrics :
        StampsAgree(r) => StampsAgree(Measured(r, ms))
<1>1. StampsAgree(Absent)
  BY DEF StampsAgree, Absent
<1>2. \A s \in {"DISCOVERED", "VALIDATED"}, ms \in SUBSET Metrics : StampsAgree(NewRow(s, ms))
  BY DEF StampsAgree, NewRow
<1>3. ASSUME NEW r \in Row, StampsAgree(r), NEW s \in AllowedTransitions[r.status]
      PROVE  StampsAgree(Moved(r, s))
  <2>1. r.status \in Status /\ r.stamps \in SUBSET Stamps
    BY DEF Row
  <2>2. s \in Status
    BY <2>1 DEF AllowedTransitions, Status
  <2>3. Moved(r, s).status = s /\ Moved(r, s).stamps = r.stamps \cup StampsOn[s]
    BY DEF Moved, Row
  <2> QED
    BY <1>3, <2>1, <2>2, <2>3 DEF StampsAgree, AllowedTransitions, StampsOn, Status, Stamps
<1>4. ASSUME NEW r \in Row, NEW ms \in SUBSET Metrics, StampsAgree(r)
      PROVE  StampsAgree(Measured(r, ms))
  <2>1. Measured(r, ms).status = r.status /\ Measured(r, ms).stamps = r.stamps
    BY DEF Measured, Row
  <2> QED BY <1>4, <2>1 DEF StampsAgree
<1> QED BY <1>1, <1>2, <1>3, <1>4

\* The timestamps of every row match its status, however many connections save
\* over each other, as long as signals are registered as DISCOVERED or VALIDATED.
THEOREM RowsStayConsistent ==
  ASSUME RegisterAs \subseteq {"DISCOVERED", "VALIDATED"}
  PROVE  Spec => []StampsMatchStatus
<1>1. Init => RowsAgree
  BY StampFacts DEF Init, RowsAgree, Idle
<1>2. TypeOK /\ RowsAgree /\ [Next]_vars => RowsAgree'
  <2> SUFFICES ASSUME TypeOK, RowsAgree, [Next]_vars PROVE RowsAgree'
    OBVIOUS
  <2> USE DEF RowsAgree
  <2>1. ASSUME NEW c \in Conns, NEW n \in Names
        PROVE  StampsAgree(View(c)[n]) /\ View(c)[n] \in Row \cup {Absent}
    BY TypedRows DEF View
  <2>2. ASSUME NEW c \in Conns, NEW r, Return(c, r), UNCHANGED table,
               \A n \in Names : StampsAgree(draft'[n])
        PROVE  RowsAgree'
    BY <2>2 DEF Return, Idle, TypeOK
  <2>3. ASSUME NEW c \in Conns, NEW k, Proceed(c, k), StampsAgree(k.row),
               UNCHANGED <<table, draft>>
        PROVE  RowsAgree'
    BY <2>3 DEF Proceed, TypeOK
  <2>4. ASSUME NEW c \in Conns, ReadFails(c) PROVE RowsAgree'
    BY <2>4, <2>2 DEF ReadFails
  <2>5. ASSUME NEW c \in Conns, NEW n \in Names, NEW s \in RegisterAs, NEW ms \in SUBSET Metrics,
               Register(c, n, s, ms)
        PROVE  RowsAgree'
    BY <2>5, <2>2, <2>3, StampFacts DEF Register, Pending
  <2>6. ASSUME NEW c \in Conns, NEW n \in Names, NEW s \in Status, UpdateStatus(c, n, s)
        PROVE  RowsAgree'
    BY <2>6, <2>1, <2>2, <2>3, StampFacts DEF UpdateStatus, Pending
  <2>7. ASSUME NEW c \in Conns, NEW n \in Names, NEW ms \in SUBSET Metrics,
               UpdateMetrics(c, n, ms)
        PROVE  RowsAgree'
    BY <2>7, <2>1, <2>2, <2>3, StampFacts DEF UpdateMetrics, Pending
  <2>8. ASSUME NEW c \in Conns, WriteFails(c) \/ InsertFails(c) PROVE RowsAgree'
    BY <2>8, <2>2 DEF WriteFails, InsertFails
  <2>9. ASSUME NEW c \in Conns, AtWrite(c), NEW n \in Names
        PROVE  StampsAgree(Written(c)[n])
    <3>1. StampsAgree(call[c].row)
      BY <2>9 DEF AtWrite
    <3> QED BY <3>1, <2>1, <2>9, TypedRows DEF Written
  <2>10. ASSUME NEW c \in Conns, CommitFails(c) PROVE RowsAgree'
    BY <2>10, <2>2, <2>9 DEF CommitFails
  <2>11. ASSUME NEW c \in Conns, Commit(c) PROVE RowsAgree'
    <3>1. \A n \in Names : StampsAgree(table'[n]) /\ StampsAgree(draft'[n])
      BY <2>11, <2>9 DEF Commit
    <3>2. call'[c].step # "idle" => call'[c].row = call[c].row
      BY <2>11, TypedRows, CallFacts DEF Commit, Return, Proceed, Idle, TypeOK, AtWrite, Call
    <3>3. call[c].step # "idle"
      BY <2>11 DEF Commit, AtWrite
    <3>4. \A d \in Conns \ {c} : call'[d] = call[d]
      BY <2>11 DEF Commit, Return, Proceed, TypeOK
    <3> QED BY <3>1, <3>2, <3>3, <3>4
  <2>12. ASSUME NEW c \in Conns, Audit(c) \/ AuditFails(c) PROVE RowsAgree'
    BY <2>12, <2>2 DEF Audit, AuditFails
  <2>13. ASSUME NEW c \in Conns, Close(c) PROVE RowsAgree'
    BY <2>13, <2>2 DEF Close
  <2>14. CASE UNCHANGED vars
    BY <2>14 DEF vars
  <2> QED
    BY <2>4, <2>5, <2>6, <2>7, <2>8, <2>10, <2>11, <2>12, <2>13, <2>14
    DEF Next, Start, Continue
<1>3. RowsAgree => StampsMatchStatus
  BY DEF RowsAgree, StampsMatchStatus
<1> QED BY <1>1, <1>2, <1>3, TypeCorrect, PTL DEF Spec

--------------------------------------------------------------------------------
(* The locks                                                                    *)

\* A registry that has not lost a registration race is never locked: no step
\* leaves a lock behind unless one is there already.
THEOREM LockedOnlyByRace == Spec => []LocksOnlyAfterRace
<1> USE DEF LocksOnlyAfterRace
<1>1. Init => LocksOnlyAfterRace
  BY DEF Init
<1>2. TypeOK /\ LocksOnlyAfterRace /\ [Next]_vars => LocksOnlyAfterRace'
  <2> SUFFICES ASSUME TypeOK, LocksOnlyAfterRace, [Next]_vars PROVE LocksOnlyAfterRace'
    OBVIOUS
  <2>1. CASE raced
    <3>1. raced' = raced \/ raced' = TRUE
      BY DEF Next, Start, Continue, vars, ReadFails, Register, UpdateStatus, UpdateMetrics,
             WriteFails, InsertFails, CommitFails, Commit, Audit, AuditFails, Close
    <3> QED BY <2>1, <3>1
  <2>2. CASE ~raced
    <3>1. \A c \in Conns : /\ lock[c] = "unlocked" /\ result[c] # "OperationalError"
                          /\ ~ReadBlocked(c) /\ ~WriteBlocked(c) /\ ~CommitBlocked(c)
      BY <2>2 DEF ReadBlocked, WriteBlocked, CommitBlocked, Writing
    <3>2. ASSUME NEW c \in Conns, NEW r \in Results \ {"OperationalError"}, Return(c, r),
                 \A d \in Conns : lock'[d] = "unlocked"
          PROVE  LocksOnlyAfterRace'
      BY <3>1, <3>2 DEF Return, TypeOK
    <3>3. ASSUME NEW c \in Conns, NEW k, Proceed(c, k), \A d \in Conns : lock'[d] = "unlocked"
          PROVE  LocksOnlyAfterRace'
      BY <3>1, <3>3 DEF Proceed, TypeOK
    <3>4. ASSUME NEW c \in Conns, Select(c) PROVE \A d \in Conns : lock'[d] = "unlocked"
      BY <3>1, <3>4 DEF Select, TypeOK
    <3>5. ASSUME NEW c \in Conns, Start(c) PROVE LocksOnlyAfterRace'
      BY <3>5, <3>1, <3>2, <3>3, <3>4
      DEF Start, ReadFails, Register, UpdateStatus, UpdateMetrics, Results
    <3>6. ASSUME NEW c \in Conns, WriteFails(c) \/ CommitFails(c) PROVE FALSE
      BY <3>6, <3>1 DEF WriteFails, CommitFails
    <3>7. ASSUME NEW c \in Conns, InsertFails(c) PROVE LocksOnlyAfterRace'
      BY <3>7 DEF InsertFails
    <3>8. ASSUME NEW c \in Conns, Commit(c) PROVE LocksOnlyAfterRace'
      <4>1. \A d \in Conns : lock'[d] = "unlocked"
        BY <3>1, <3>8 DEF Commit, TypeOK
      <4> QED BY <3>8, <4>1, <3>2, <3>3 DEF Commit, Results
    <3>9. ASSUME NEW c \in Conns, Audit(c) \/ AuditFails(c) \/ Close(c)
          PROVE  LocksOnlyAfterRace'
      <4>1. \A d \in Conns : lock'[d] = "unlocked"
        BY <3>1, <3>9 DEF Audit, AuditFails, Close, TypeOK
      <4> QED BY <3>9, <4>1, <3>2 DEF Audit, AuditFails, Close, Results
    <3>10. CASE UNCHANGED vars
      BY <3>10 DEF vars
    <3> QED BY <3>5, <3>6, <3>7, <3>8, <3>9, <3>10 DEF Next, Continue
  <2> QED BY <2>1, <2>2
<1> QED BY <1>1, <1>2, TypeCorrect, PTL DEF Spec

--------------------------------------------------------------------------------
(* Refinement: one caller per name                                              *)

OneCaller == \A n \in Names : \A c, d \in Callers[n] : c = d

\* With one caller per name no lock is ever left, what a call has read is still in
\* the table when it writes, and only that caller could have changed it.
Fresh ==
    /\ ~raced
    /\ \A c \in Conns : lock[c] = "unlocked"
    /\ \A c \in Conns :
          /\ AtWrite(c) => c \in Callers[call[c].name]
          /\ call[c].step = "insert" =>
                table[call[c].name] = Absent /\ call[c].row.status \in RegisterAs
          /\ call[c].step = "save" =>
                LET old == table[call[c].name].status IN
                /\ old \in Status
                /\ call[c].row.status \in AllowedTransitions[old] \cup {old}

\* With one caller per name, a step leaves no lock or conflict behind, and a row read by a call
\* is still the row of the table when the call saves.
LEMMA FreshInvariant ==
  ASSUME OneCaller
  PROVE  TypeOK /\ Fresh /\ [Next]_vars => Fresh'
<1> SUFFICES ASSUME TypeOK, Fresh, [Next]_vars PROVE Fresh'
  OBVIOUS
<1>1. \A c \in Conns : /\ View(c) = table /\ ~Writing(c)
                      /\ ~ReadBlocked(c) /\ ~WriteBlocked(c) /\ ~CommitBlocked(c)
  BY DEF Fresh, ReadBlocked, WriteBlocked, CommitBlocked, Writing, View
<1>2. \A c \in Conns : ~Conflicts(c)
  BY <1>1 DEF Fresh, Conflicts
<1>3. ASSUME NEW c \in Conns, NEW r, Return(c, r), UNCHANGED <<table, raced>>,
             \A d \in Conns : lock'[d] = "unlocked"
      PROVE  Fresh'
  BY <1>3 DEF Return, Fresh, TypeOK, Idle, AtWrite
<1>4. ASSUME NEW c \in Conns, Select(c) PROVE \A d \in Conns : lock'[d] = "unlocked"
  BY <1>4 DEF Select, TypeOK, Fresh
<1>5. ASSUME NEW c \in Conns, NEW n \in Names, c \in Callers[n], NEW s \in RegisterAs,
             NEW ms \in SUBSET Metrics, Register(c, n, s, ms)
      PROVE  Fresh'
  <2>1. CASE View(c)[n] # Absent
    BY <2>1, <1>5, <1>3, <1>4 DEF Register
  <2>2. CASE View(c)[n] = Absent
    <3>1. call' = [call EXCEPT ![c] = Pending("insert", n, NewRow(s, ms), "ABSENT", TRUE)]
      BY <2>2, <1>5 DEF Register, Proceed
    <3> QED
      BY <2>2, <3>1, <1>5, <1>1, <1>4 DEF Register, Fresh, TypeOK, Pending, NewRow, AtWrite
  <2> QED BY <2>1, <2>2
<1>6. ASSUME NEW c \in Conns, NEW n \in Names, c \in Callers[n], NEW r \in Row,
             NEW f, NEW a, table[n] \in Row, r.status \in AllowedTransitions[table[n].status] \cup {table[n].status},
             Proceed(c, Pending("save", n, r, f, a)), Select(c), UNCHANGED <<table, raced>>
      PROVE  Fresh'
  <2>1. call' = [call EXCEPT ![c] = Pending("save", n, r, f, a)]
    BY <1>6 DEF Proceed
  <2>2. table[n].status \in Status
    BY <1>6 DEF Row
  <2> QED BY <2>1, <2>2, <1>6, <1>4 DEF Fresh, TypeOK, Pending, AtWrite
<1>7. ASSUME NEW c \in Conns, NEW n \in Names, c \in Callers[n], NEW s \in Status,
             UpdateStatus(c, n, s)
      PROVE  Fresh'
  <2> DEFINE r == View(c)[n]
  <2>1. CASE r = Absent \/ s \notin AllowedTransitions[r.status]
    BY <2>1, <1>7, <1>3, <1>4 DEF UpdateStatus
  <2>2. CASE r # Absent /\ s \in AllowedTransitions[r.status]
    <3>1. table[n] = r /\ r \in Row
      BY <2>2, <1>1 DEF TypeOK
    <3>2. Moved(r, s) \in Row /\ Moved(r, s).status = s
      BY <3>1, RowFacts
    <3> QED BY <2>2, <3>1, <3>2, <1>6, <1>7 DEF UpdateStatus
  <2> QED BY <2>1, <2>2
<1>8. ASSUME NEW c \in Conns, NEW n \in Names, c \in Callers[n], NEW ms \in SUBSET Metrics,
             UpdateMetrics(c, n, ms)
      PROVE  Fresh'
  <2> DEFINE r == View(c)[n]
  <2>1. CASE r = Absent
    BY <2>1, <1>8, <1>3, <1>4 DEF UpdateMetrics
  <2>2. CASE r # Absent
    <3>1. table[n] = r /\ r \in Row
      BY <2>2, <1>1 DEF TypeOK
    <3>2. Measured(r, ms) \in Row /\ Measured(r, ms).status = r.status
      BY <3>1, RowFacts
    <3> QED BY <2>2, <3>1, <3>2, <1>6, <1>8 DEF UpdateMetrics
  <2> QED BY <2>1, <2>2
<1>9. ASSUME NEW c \in Conns, ReadFails(c) \/ WriteFails(c) \/ InsertFails(c) \/ CommitFails(c)
      PROVE  FALSE
  BY <1>9, <1>1, <1>2 DEF ReadFails, WriteFails, InsertFails, CommitFails
<1>10. ASSUME NEW c \in Conns, Commit(c) PROVE Fresh'
  <2>1. \A d \in Conns : lock'[d] = "unlocked"
    BY <1>10 DEF Commit, TypeOK, Fresh
  <2>2. /\ \A d \in Conns \ {c} : call'[d] = call[d]
        /\ call'[c].step \in {"audit", "idle"}
        /\ raced' = raced
    BY <1>10, TypedRows, CallFacts
    DEF Commit, Return, Proceed, Idle, TypeOK, AtWrite, Call
  <2>3. ASSUME NEW d \in Conns \ {c}, AtWrite(d)
        PROVE  table'[call[d].name] = table[call[d].name]
    <3>1. call[d].name # call[c].name
      <4>1. c \in Callers[call[c].name] /\ call[c].name \in Names
        BY <1>10, TypedRows DEF Commit, Fresh
      <4>2. d \in Callers[call[d].name] /\ call[d].name \in Names
        BY <2>3, TypedRows DEF Fresh
      <4> QED BY <4>1, <4>2, OneCaller DEF OneCaller
    <3>2. call[d].name \in Names /\ call[c].name \in Names
      BY <1>10, <2>3, TypedRows DEF Commit
    <3>3. table' = [table EXCEPT ![call[c].name] = call[c].row]
      BY <1>10, <1>1 DEF Commit, Written
    <3> QED BY <3>1, <3>2, <3>3 DEF TypeOK
  <2> QED BY <2>1, <2>2, <2>3 DEF Fresh, AtWrite
<1>11. ASSUME NEW c \in Conns, Audit(c) \/ AuditFails(c) \/ Close(c) PROVE Fresh'
  <2>1. \A d \in Conns : lock'[d] = "unlocked"
    BY <1>11 DEF Audit, AuditFails, Close, TypeOK, Fresh
  <2> QED BY <1>11, <2>1, <1>3 DEF Audit, AuditFails, Close
<1>12. CASE UNCHANGED vars
  BY <1>12 DEF vars, Fresh, AtWrite
<1> QED
  BY <1>5, <1>7, <1>8, <1>9, <1>10, <1>11, <1>12, RegisterAsAssumption
  DEF Next, Start, Continue

\* When every name has one caller, any number of connections on the same database
\* implement the lifecycle: registered once, forward one stage at a time, or
\* retired for good.
THEOREM ImplementsLifecycle ==
  ASSUME OneCaller
  PROVE  Spec => LifecycleSpec
<1> DEFINE bar == [n \in Names |-> table[n].status]
<1>1. Init => Fresh
  BY DEF Init, Fresh, Idle, AtWrite
<1>2. TypeOK /\ Fresh /\ [Next]_vars => Fresh'
  BY FreshInvariant
<1>3. Init => Abstract!Init
  BY DEF Init, Abstract!Init, Absent
<1>4. TypeOK /\ Fresh /\ [Next]_vars => [Abstract!Next]_bar
  <2> SUFFICES ASSUME TypeOK, Fresh, [Next]_vars PROVE [Abstract!Next]_bar
    OBVIOUS
  <2>1. CASE UNCHANGED table
    BY <2>1
  <2>2. ASSUME NEW c \in Conns, Commit(c) PROVE [Abstract!Next]_bar
    <3> DEFINE n == call[c].name
               new == call[c].row.status
    <3>1. n \in Names /\ call[c].row \in Row /\ new \in Status
      BY <2>2, TypedRows DEF Commit, Row
    <3>2. table' = [table EXCEPT ![n] = call[c].row]
      BY <2>2 DEF Commit, Written, View, Writing, Fresh
    <3>3. bar' = [bar EXCEPT ![n] = new]
      BY <3>1, <3>2 DEF TypeOK
    <3>4. bar[n] = table[n].status
      BY <3>1
    <3>5. CASE call[c].step = "insert"
      <4>1. bar[n] = "ABSENT" /\ new \in RegisterAs
        BY <3>4, <3>5 DEF Fresh, Absent
      <4> QED BY <3>1, <3>3, <4>1 DEF Abstract!Next, Abstract!Register
    <3>6. CASE call[c].step = "save"
      <4>1. bar[n] \in Status /\ new \in AllowedTransitions[bar[n]] \cup {bar[n]}
        BY <3>4, <3>6 DEF Fresh
      <4>2. CASE new = bar[n]
        BY <3>1, <3>3, <4>2
      <4>3. CASE new = "RETIRED" /\ bar[n] # "RETIRED"
        <5>1. bar[n] \in DOMAIN Abstract!Stage
          BY <4>1, <4>3 DEF Abstract!Stage, Status
        <5> QED BY <3>1, <3>3, <4>3, <5>1 DEF Abstract!Next, Abstract!Retire
      <4>4. CASE new \in AllowedTransitions[bar[n]] /\ new # "RETIRED"
        <5>1. /\ bar[n] \in DOMAIN Abstract!Stage
              /\ new \in DOMAIN Abstract!Stage
              /\ Abstract!Stage[new] = Abstract!Stage[bar[n]] + 1
          BY <4>1, <4>4 DEF AllowedTransitions, Abstract!Stage, Status
        <5> QED BY <3>1, <3>3, <5>1 DEF Abstract!Next, Abstract!Promote
      <4> QED BY <4>1, <4>2, <4>3, <4>4
    <3> QED BY <2>2, <3>5, <3>6 DEF Commit, AtWrite
  <2> QED
    BY <2>1, <2>2 DEF Next, Start, Continue, vars, ReadFails, Register, UpdateStatus,
       UpdateMetrics, WriteFails, InsertFails, CommitFails, Audit, AuditFails, Close
<1> QED
  BY <1>1, <1>2, <1>3, <1>4, TypeCorrect, PTL DEF Spec, LifecycleSpec, Abstract!Spec

--------------------------------------------------------------------------------
(* The trail and the metrics: one caller per name                               *)

\* What the table, the trail and the calls in progress know of one another: a write carries
\* the status and the metrics the table still has, and an event on its way to the trail is
\* no older than the events there and no newer than the table.
Told ==
    /\ TrailInOrder
    /\ \A c \in Conns : call[c].step # "idle" =>
          LET k == call[c] IN
          /\ c \in Callers[k.name]
          /\ Rank[k.from] <= Rank[k.row.status]
          /\ AtWrite(c) => /\ k.from = table[k.name].status
                           /\ table[k.name].metrics \subseteq k.row.metrics
          /\ k.step = "audit" =>
                /\ k.row.status = table[k.name].status
                /\ \A i \in DOMAIN trail :
                      trail[i].name = k.name => Rank[trail[i].to] <= Rank[k.from]

\* Every allowed transition leads to a later stage, and a registration precedes them all.
LEMMA RankFacts ==
    /\ \A s \in Status \cup {"ABSENT"} : Rank[s] \in Nat /\ Rank["ABSENT"] <= Rank[s]
    /\ \A s \in Status : \A t \in AllowedTransitions[s] \cup {s} :
          t \in Status /\ Rank[s] <= Rank[t]
  BY DEF Rank, Status, AllowedTransitions

\* With one caller per name, the calls in progress, the table and the trail keep telling the
\* same story.
LEMMA ToldInvariant ==
  ASSUME OneCaller
  PROVE  TypeOK /\ Fresh /\ Told /\ [Next]_vars => Told'
<1> SUFFICES ASSUME TypeOK, Fresh, Told, [Next]_vars PROVE Told'
  OBVIOUS
<1>1. \A c \in Conns : /\ View(c) = table /\ ~Writing(c)
                      /\ ~ReadBlocked(c) /\ ~WriteBlocked(c) /\ ~CommitBlocked(c)
  BY DEF Fresh, ReadBlocked, WriteBlocked, CommitBlocked, Writing, View
<1>2. \A c \in Conns : ~Conflicts(c)
  BY <1>1 DEF Fresh, Conflicts
<1>3. ASSUME NEW c \in Conns, NEW r, Return(c, r), UNCHANGED <<table, trail>>
      PROVE  Told'
  <2>1. \A d \in Conns : call'[d] = call[d] \/ call'[d].step = "idle"
    BY <1>3 DEF Return, Idle, TypeOK
  <2> QED BY <1>3, <2>1 DEF Told, AtWrite, TrailInOrder
<1>4. ASSUME NEW c \in Conns, NEW n \in Names, c \in Callers[n], NEW step \in {"insert", "save"},
             NEW r \in Row, NEW a, Rank[table[n].status] <= Rank[r.status],
             table[n].metrics \subseteq r.metrics,
             Proceed(c, Pending(step, n, r, table[n].status, a)), UNCHANGED <<table, trail>>
      PROVE  Told'
  <2> DEFINE k == Pending(step, n, r, table[n].status, a)
  <2>1. call' = [call EXCEPT ![c] = k]
    BY <1>4 DEF Proceed
  <2>2. /\ k.step = step /\ k.name = n /\ k.row = r /\ k.from = table[n].status
        /\ k.step \in {"insert", "save"}
    BY <1>4 DEF Pending
  <2>3. call'[c] = k /\ \A d \in Conns \ {c} : call'[d] = call[d]
    BY <2>1 DEF TypeOK
  <2> HIDE DEF k
  <2> QED BY <1>4, <2>2, <2>3 DEF Told, AtWrite, TrailInOrder
<1>5. ASSUME NEW c \in Conns, NEW n \in Names, c \in Callers[n], NEW s \in RegisterAs,
             NEW ms \in SUBSET Metrics, Register(c, n, s, ms)
      PROVE  Told'
  <2>1. CASE View(c)[n] # Absent
    BY <2>1, <1>5, <1>3 DEF Register
  <2>2. CASE View(c)[n] = Absent
    <3>1. table[n].status = "ABSENT" /\ table[n].metrics = {}
      BY <2>2, <1>1 DEF Absent
    <3>2. NewRow(s, ms) \in Row /\ NewRow(s, ms).status = s /\ s \in Status
      BY RegisterAsAssumption, RowFacts DEF NewRow
    <3>3. Rank[table[n].status] <= Rank[NewRow(s, ms).status]
      BY <3>1, <3>2, RankFacts
    <3> QED BY <2>2, <3>1, <3>2, <3>3, <1>5, <1>4 DEF Register
  <2> QED BY <2>1, <2>2
<1>6. ASSUME NEW c \in Conns, NEW n \in Names, c \in Callers[n], NEW s \in Status,
             UpdateStatus(c, n, s)
      PROVE  Told'
  <2> DEFINE r == View(c)[n]
  <2>1. CASE r = Absent \/ s \notin AllowedTransitions[r.status]
    BY <2>1, <1>6, <1>3 DEF UpdateStatus
  <2>2. CASE r # Absent /\ s \in AllowedTransitions[r.status]
    <3>1. table[n] = r /\ r \in Row /\ r.status \in Status
      BY <2>2, <1>1 DEF TypeOK, Row
    <3>2. Moved(r, s) \in Row /\ Moved(r, s).status = s /\ Moved(r, s).metrics = r.metrics
      BY <3>1, RowFacts DEF Moved, Row
    <3>3. Rank[r.status] <= Rank[s]
      BY <2>2, <3>1, RankFacts
    <3> QED BY <2>2, <3>1, <3>2, <3>3, <1>6, <1>4 DEF UpdateStatus
  <2> QED BY <2>1, <2>2
<1>7. ASSUME NEW c \in Conns, NEW n \in Names, c \in Callers[n], NEW ms \in SUBSET Metrics,
             UpdateMetrics(c, n, ms)
      PROVE  Told'
  <2> DEFINE r == View(c)[n]
  <2>1. CASE r = Absent
    BY <2>1, <1>7, <1>3 DEF UpdateMetrics
  <2>2. CASE r # Absent
    <3>1. table[n] = r /\ r \in Row /\ r.status \in Status
      BY <2>2, <1>1 DEF TypeOK, Row
    <3>2. /\ Measured(r, ms) \in Row /\ Measured(r, ms).status = r.status
          /\ r.metrics \subseteq Measured(r, ms).metrics
      BY <3>1, RowFacts DEF Measured, Row
    <3>3. Rank[r.status] <= Rank[r.status]
      BY <3>1, RankFacts
    <3> QED BY <2>2, <3>1, <3>2, <3>3, <1>7, <1>4 DEF UpdateMetrics
  <2> QED BY <2>1, <2>2
<1>8. ASSUME NEW c \in Conns, ReadFails(c) \/ WriteFails(c) \/ InsertFails(c) \/ CommitFails(c)
      PROVE  FALSE
  BY <1>8, <1>1, <1>2 DEF ReadFails, WriteFails, InsertFails, CommitFails
<1>9. ASSUME NEW c \in Conns, NEW d \in Conns \ {c}, call[c].step # "idle", call[d].step # "idle"
      PROVE  call[d].name # call[c].name
  <2>1. c \in Callers[call[c].name] /\ d \in Callers[call[d].name]
    BY <1>9 DEF Told
  <2>2. call[c].name \in Names
    BY <1>9 DEF TypeOK, Call, Idle
  <2> QED BY <2>1, <2>2, OneCaller DEF OneCaller
<1>10. ASSUME NEW c \in Conns, Commit(c) PROVE Told'
  <2> DEFINE k == call[c]
             n == k.name
             old == table[n].status
  <2>1. /\ n \in Names /\ k.row \in Row /\ k.row.status \in Status /\ k.step # "idle"
        /\ k.from = old /\ old \in Status \cup {"ABSENT"} /\ Rank[old] <= Rank[k.row.status]
    BY <1>10, TypedRows DEF Commit, AtWrite, Told, TypeOK, Row, Absent
  <2>2. table' = [table EXCEPT ![n] = k.row] /\ trail' = trail
    BY <1>10, <1>1 DEF Commit, Written
  <2>3. table'[n] = k.row /\ \A m \in Names \ {n} : table'[m] = table[m]
    BY <2>1, <2>2 DEF TypeOK
  <2>4. \A i \in DOMAIN trail : /\ trail[i].name \in Names
                               /\ Rank[trail[i].to] \in Nat
                               /\ Rank[trail[i].to] <= Rank[table[trail[i].name].status]
    <3>1. \A i \in DOMAIN trail : trail[i] \in Event
      BY ElementOfSeq DEF TypeOK
    <3>2. \A i \in DOMAIN trail : trail[i].name \in Names /\ trail[i].to \in Status
      BY <3>1 DEF Event
    <3> QED BY <3>2, RankFacts DEF Told, TrailInOrder
  <2>5. TrailInOrder'
    <3>1. \A i \in DOMAIN trail : Rank[trail[i].to] <= Rank[table'[trail[i].name].status]
      BY <2>1, <2>3, <2>4, RankFacts
    <3> QED BY <2>2, <3>1 DEF Told, TrailInOrder
  <2>6. \A d \in Conns \ {c} : call'[d] = call[d]
    BY <1>10 DEF Commit, Return, Proceed, TypeOK
  <2>7. call'[c].step = "idle" \/ call'[c] = [k EXCEPT !.step = "audit"]
    BY <1>10 DEF Commit, Return, Proceed, TypeOK, Idle
  <2>8. ASSUME call'[c].step # "idle"
        PROVE  /\ call'[c].step = "audit" /\ call'[c].name = n
               /\ call'[c].row = k.row /\ call'[c].from = k.from
    BY <2>7, <2>8, <2>1 DEF TypeOK, Call, Idle
  <2>9. ASSUME NEW d \in Conns \ {c}, call[d].step # "idle"
        PROVE  call[d].name \in Names /\ table'[call[d].name] = table[call[d].name]
    <3>1. call[d].name \in Names
      BY <2>9 DEF TypeOK, Call, Idle
    <3> QED BY <1>9, <2>1, <2>3, <2>9, <3>1
  <2>10. \A i \in DOMAIN trail : trail[i].name = n => Rank[trail[i].to] <= Rank[k.from]
    BY <2>1, <2>4
  <2>11. c \in Callers[n]
    BY <2>1 DEF Told
  <2> HIDE DEF k, n, old
  <2>12. ASSUME NEW d \in Conns, call'[d].step # "idle"
         PROVE  LET j == call'[d] IN
                /\ d \in Callers[j.name]
                /\ Rank[j.from] <= Rank[j.row.status]
                /\ AtWrite(d)' => /\ j.from = table'[j.name].status
                                 /\ table'[j.name].metrics \subseteq j.row.metrics
                /\ j.step = "audit" =>
                      /\ j.row.status = table'[j.name].status
                      /\ \A i \in DOMAIN trail' :
                            trail'[i].name = j.name => Rank[trail'[i].to] <= Rank[j.from]
    <3>1. CASE d = c
      BY <3>1, <2>12, <2>1, <2>2, <2>3, <2>8, <2>10, <2>11 DEF AtWrite
    <3>2. CASE d # c
      BY <3>2, <2>12, <2>2, <2>6, <2>9 DEF Told, AtWrite
    <3> QED BY <3>1, <3>2
  <2> QED BY <2>5, <2>12 DEF Told
<1>11. ASSUME NEW c \in Conns, Audit(c) PROVE Told'
  <2> DEFINE k == call[c]
             e == [name |-> k.name, from |-> k.from, to |-> k.row.status]
  <2>1. k.step = "audit" /\ trail' = Append(trail, e) /\ table' = table
    BY <1>11 DEF Audit
  <2>2. e.name = k.name /\ e.from = k.from /\ e.to = k.row.status /\ e \in Event
    BY <2>1 DEF TypeOK, Call, Idle, Event, Row
  <2>3. /\ DOMAIN trail = 1..Len(trail) /\ DOMAIN trail' = 1..(Len(trail) + 1)
        /\ Len(trail') = Len(trail) + 1 /\ Len(trail) \in Nat
        /\ trail'[Len(trail) + 1] = e
        /\ \A i \in DOMAIN trail : trail'[i] = trail[i]
    <3> HIDE DEF e, k
    <3>1. trail \in Seq(Event) /\ e \in Event
      BY <2>2 DEF TypeOK
    <3> QED BY <2>1, <3>1
  <2>4. /\ Rank[e.to] = Rank[table[e.name].status] /\ Rank[e.to] \in Nat
        /\ \A i \in DOMAIN trail : trail[i].name = e.name => Rank[trail[i].to] <= Rank[e.from]
    BY <2>1, <2>2, RankFacts DEF Told, Event
  <2>5. call'[c].step = "idle" /\ \A d \in Conns \ {c} : call'[d] = call[d]
    BY <1>11 DEF Audit, Return, TypeOK, Idle
  <2> HIDE DEF e
  <2>6. TrailInOrder'
    <3>1. ASSUME NEW i \in DOMAIN trail' PROVE Rank[trail'[i].to] <= Rank[table[trail'[i].name].status]
      BY <2>3, <2>4 DEF Told, TrailInOrder
    <3>2. ASSUME NEW i \in DOMAIN trail', NEW j \in (i + 1)..Len(trail'),
                 trail'[i].name = trail'[j].name
          PROVE  Rank[trail'[i].to] <= Rank[trail'[j].from]
      <4>1. i \in DOMAIN trail /\ i \in Nat
        BY <2>3
      <4>2. CASE j \in DOMAIN trail
        <5>1. j \in (i + 1)..Len(trail)
          BY <2>3, <4>1, <4>2
        <5> QED BY <2>3, <3>2, <4>1, <4>2, <5>1 DEF Told, TrailInOrder
      <4>3. CASE j = Len(trail) + 1
        BY <2>3, <2>4, <3>2, <4>1, <4>3
      <4> QED BY <2>3, <4>1, <4>2, <4>3
    <3> QED BY <2>1, <3>1, <3>2 DEF TrailInOrder
  <2>7. ASSUME NEW d \in Conns, call'[d].step # "idle"
        PROVE  /\ call'[d] = call[d] /\ call[d].step # "idle" /\ call[d].name # e.name
               /\ \A i \in DOMAIN trail' : trail'[i].name = call[d].name => i \in DOMAIN trail
    <3>1. d # c /\ call'[d] = call[d] /\ call[d].step # "idle"
      BY <2>5, <2>7
    <3>2. call[d].name # e.name
      BY <1>9, <2>1, <2>2, <3>1
    <3> QED BY <2>3, <3>1, <3>2
  <2> QED BY <2>1, <2>3, <2>6, <2>7 DEF Told, AtWrite
<1>12. ASSUME NEW c \in Conns, AuditFails(c) \/ Close(c) PROVE Told'
  BY <1>12, <1>3 DEF AuditFails, Close
<1>13. CASE UNCHANGED vars
  BY <1>13 DEF vars, Told, TrailInOrder, AtWrite
<1> QED
  BY <1>5, <1>6, <1>7, <1>8, <1>10, <1>11, <1>12, <1>13 DEF Next, Start, Continue

\* With one caller per name nothing has been told, read or locked at the start.
LEMMA ToldInit == Init => Fresh /\ Told
  BY DEF Init, Fresh, Told, TrailInOrder, Idle, AtWrite

\* With one caller per name, the audit trail tells each signal's story in order and never
\* runs ahead of the table, whatever records fail and wherever the process stops.
THEOREM TrailTellsInOrder ==
  ASSUME OneCaller
  PROVE  Spec => []TrailInOrder
<1>1. TypeOK /\ Fresh /\ [Next]_vars => Fresh'
  BY FreshInvariant
<1>2. TypeOK /\ Fresh /\ Told /\ [Next]_vars => Told'
  BY ToldInvariant
<1>3. Told => TrailInOrder
  BY DEF Told
<1> QED BY <1>1, <1>2, <1>3, ToldInit, TypeCorrect, PTL DEF Spec

\* With one caller per name, no save drops a metric that has a value, although it writes
\* the whole row that the call read before.
THEOREM SavesKeepMetrics ==
  ASSUME OneCaller
  PROVE  Spec => MetricsKept
<1> DEFINE Kept == \A n \in Names : table[n].metrics \subseteq table'[n].metrics
<1>1. TypeOK /\ Fresh /\ [Next]_vars => Fresh'
  BY FreshInvariant
<1>2. TypeOK /\ Fresh /\ Told /\ [Next]_vars => Told'
  BY ToldInvariant
<1>3. TypeOK /\ Fresh /\ Told /\ [Next]_vars => [Kept]_vars
  <2> SUFFICES ASSUME TypeOK, Fresh, Told, [Next]_vars PROVE Kept \/ UNCHANGED vars
    OBVIOUS
  <2>1. CASE UNCHANGED table
    BY <2>1
  <2>2. ASSUME NEW c \in Conns, Commit(c) PROVE Kept
    <3>1. table' = [table EXCEPT ![call[c].name] = call[c].row]
      BY <2>2 DEF Commit, Written, View, Writing, Fresh
    <3>2. table[call[c].name].metrics \subseteq call[c].row.metrics
      BY <2>2 DEF Commit, AtWrite, Told
    <3> QED BY <3>1, <3>2 DEF TypeOK
  <2> QED
    BY <2>1, <2>2 DEF Next, Start, Continue, vars, ReadFails, Register, UpdateStatus,
       UpdateMetrics, WriteFails, InsertFails, CommitFails, Audit, AuditFails, Close
<1> QED BY <1>1, <1>2, <1>3, ToldInit, TypeCorrect, PTL DEF Spec, MetricsKept
================================================================================
