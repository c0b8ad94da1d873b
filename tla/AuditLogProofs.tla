----------------------------- MODULE AuditLogProofs -----------------------------
(***************************************************************************)
(* Theorems about AuditLog, for any set of writers and any number of        *)
(* entries.                                                                 *)
(***************************************************************************)
EXTENDS AuditLog, SequenceTheorems, TLAPS

\* A record in progress holds an entry and the place it was computed at (audit.py record).
LEMMA WritingFacts ==
  ASSUME TypeOK, NEW w \in Writers, writing[w] # Idle
  PROVE  writing[w].entry \in Entry /\ writing[w].base \in Nat
  BY DEF TypeOK, Writing, Idle

\* What the lines of a log file are: entries, whose digests are positive.
LEMMA FileEntries ==
  ASSUME NEW f \in Seq(Entry)
  PROVE  /\ Len(f) \in Nat
         /\ DOMAIN f = 1..Len(f)
         /\ \A i \in 1..Len(f) : f[i] \in Entry
         /\ \A i \in 1..Len(f) : f[i].digest \in Nat \ {0}
<1>1. Len(f) \in Nat /\ DOMAIN f = 1..Len(f)
  BY LenProperties
<1>2. \A i \in 1..Len(f) : f[i] \in Entry
  BY ElementOfSeq
<1>3. \A x \in Entry : x.digest \in Nat \ {0}
  BY DEF Entry
<1> QED BY <1>1, <1>2, <1>3

\* The digests of a file form a sequence of numbers.
LEMMA DigestsOfType ==
  ASSUME NEW f \in Seq(Entry)
  PROVE  DigestsOf(f) \in Seq(Nat)
<1>1. DigestsOf(f) \in [1..Len(f) -> Nat]
  BY FileEntries DEF DigestsOf
<1>2. Len(f) \in Nat
  BY FileEntries
<1> QED BY <1>1, <1>2, SeqDef

\* The digests of the lines before line i.
LEMMA DigestsBefore ==
  ASSUME NEW f \in Seq(Entry), NEW i \in 1..Len(f)
  PROVE  /\ SubSeq(DigestsOf(f), 1, i - 1) \in Seq(Nat)
         /\ Len(SubSeq(DigestsOf(f), 1, i - 1)) = i - 1
         /\ \A j \in 1..(i - 1) : SubSeq(DigestsOf(f), 1, i - 1)[j] = f[j].digest
<1> DEFINE t == SubSeq(DigestsOf(f), 1, i - 1)
<1>1. /\ Len(f) \in Nat /\ DOMAIN f = 1..Len(f) /\ i \in Nat /\ i - 1 \in Nat
      /\ \A j \in 1..(i - 1) : j \in 1..Len(f)
  BY LenProperties
<1>2. \A j \in 1..(i - 1) : DigestsOf(f)[j] = f[j].digest /\ DigestsOf(f)[j] \in Nat
  BY <1>1, FileEntries DEF DigestsOf
<1>3. 1 \in Int /\ i - 1 \in Int /\ (i - 1) - 1 + 1 = i - 1
  BY <1>1
<1>4. /\ t \in Seq(Nat)
      /\ Len(t) = IF 1 <= i - 1 THEN (i - 1) - 1 + 1 ELSE 0
      /\ \A j \in 1..((i - 1) - 1 + 1) : t[j] = DigestsOf(f)[1 + j - 1]
  BY <1>2, <1>3, SubSeqProperties
<1> HIDE DEF t
<1>5. \A j \in 1..(i - 1) : 1 + j - 1 = j
  BY <1>1
<1>6. Len(t) = i - 1
  BY <1>1, <1>4
<1> QED BY <1>2, <1>3, <1>4, <1>5, <1>6 DEF t

\* The entry that record computes from the last hash of the file is well typed.
LEMMA ComputedEntry ==
  ASSUME TypeOK
  PROVE  [step |-> "append", base |-> landed,
          entry |-> [digest |-> digests + 1, prev |-> LastHash(file), intact |-> TRUE]]
             \in Writing
<1>1. LastHash(file) \in Nat
  <2>1. CASE file = <<>>
    BY <2>1 DEF LastHash
  <2>2. CASE file # <<>>
    <3>1. Len(file) \in 1..Len(file)
      BY <2>2, EmptySeq DEF TypeOK
    <3>2. file[Len(file)].digest \in Nat
      BY <3>1, FileEntries DEF TypeOK
    <3> QED BY <2>2, <3>2 DEF LastHash
  <2> QED BY <2>1, <2>2
<1>2. [digest |-> digests + 1, prev |-> LastHash(file), intact |-> TRUE] \in Entry
  BY <1>1 DEF TypeOK, Entry
<1> QED BY <1>2 DEF TypeOK, Writing

\* The state stays well typed, whatever happens to the file.
THEOREM AuditTypeCorrect == Spec => []TypeOK
<1>1. Init => TypeOK
  <2> SUFFICES ASSUME Init PROVE TypeOK
    OBVIOUS
  <2>1. file \in Seq(Entry) /\ seen \in Seq(Seq(Nat))
    BY EmptySeq DEF Init
  <2>2. writing \in [Writers -> Writing]
    BY DEF Init, Writing
  <2> QED BY <2>1, <2>2 DEF Init, TypeOK, Tails
<1>2. TypeOK /\ [Next]_vars => TypeOK'
  <2> SUFFICES ASSUME TypeOK, [Next]_vars PROVE TypeOK'
    OBVIOUS
  <2> USE DEF TypeOK
  <2>1. Idle \in Writing
    BY DEF Writing
  <2>2. ASSUME NEW w \in Writers, Compute(w) PROVE TypeOK'
    <3>1. DigestsOf(file) \in Seq(Nat)
      BY DigestsOfType
    <3>2. seen' \in Seq(Seq(Nat))
      BY <2>2, <3>1 DEF Compute
    <3> QED BY <2>2, <3>2, ComputedEntry DEF Compute
  <2>3. ASSUME NEW w \in Writers, writing[w] # Idle, Land(w)
        PROVE  /\ file' \in Seq(Entry)
               /\ landed' \in Nat
               /\ overlapped' \in BOOLEAN
    <3>1. writing[w].entry \in Entry /\ writing[w].base \in Nat
      BY <2>3, WritingFacts
    <3>2. Append(file, writing[w].entry) \in Seq(Entry)
      BY <3>1, AppendProperties
    <3> QED BY <2>3, <3>1, <3>2 DEF Land
  <2>4. ASSUME NEW w \in Writers, AppendLine(w) \/ AppendShort(w) PROVE TypeOK'
    BY <2>1, <2>3, <2>4 DEF AppendLine, AppendShort, Tails
  <2>5. ASSUME NEW w \in Writers, Stop(w) PROVE TypeOK'
    BY <2>1, <2>5 DEF Stop
  <2>6. ASSUME NEW i \in DOMAIN file, Edit(i) PROVE TypeOK'
    <3>1. i \in 1..Len(file) /\ file[i] \in Entry
      BY LenProperties, ElementOfSeq
    <3>2. [file[i] EXCEPT !.intact = FALSE] \in Entry
      BY <3>1 DEF Entry
    <3>3. file' = [file EXCEPT ![i] = [file[i] EXCEPT !.intact = FALSE]]
      BY <2>6 DEF Edit
    <3>4. file' \in Seq(Entry)
      BY <3>1, <3>2, <3>3, ExceptSeq
    <3> QED BY <2>6, <3>4 DEF Edit
  <2>9. ASSUME NEW i \in DOMAIN file, Rewrite(i) PROVE TypeOK'
    <3> DEFINE new == [digest |-> digests + 1, intact |-> TRUE,
                       prev |-> IF i = 1 THEN 0 ELSE file[i - 1].digest]
    <3>1. i \in 1..Len(file) /\ Len(file) \in Nat
      BY LenProperties
    <3>2. new \in Entry
      <4>1. i # 1 => i - 1 \in 1..Len(file)
        BY <3>1
      <4>2. i # 1 => file[i - 1].digest \in Nat
        BY <4>1, FileEntries
      <4>3. new.prev \in Nat
        BY <4>2
      <4> QED BY <4>3 DEF Entry
    <3>3. file' = [file EXCEPT ![i] = new] /\ digests' = digests + 1
      BY <2>9 DEF Rewrite
    <3> HIDE DEF new
    <3>4. file' \in Seq(Entry)
      BY <3>1, <3>2, <3>3, ExceptSeq
    <3>5. seen' \in Seq(Seq(Nat))
      <4>1. SubSeq(DigestsOf(file), 1, i - 1) \in Seq(Nat)
        BY <3>1, DigestsBefore
      <4>2. seen' = Append(seen, SubSeq(DigestsOf(file), 1, i - 1))
        BY <2>9 DEF Rewrite
      <4> QED BY <4>1, <4>2, AppendProperties
    <3> QED BY <2>9, <3>3, <3>4, <3>5 DEF Rewrite
  <2>7. ASSUME NEW i \in DOMAIN file, Drop(i) PROVE TypeOK'
    <3>1. i \in 1..Len(file) /\ Len(file) \in Nat
      BY LenProperties
    <3>2. SubSeq(file, 1, i - 1) \in Seq(Entry)
      BY <3>1, SubSeqProperties, ElementOfSeq
    <3>3. SubSeq(file, i + 1, Len(file)) \in Seq(Entry)
      BY <3>1, SubSeqProperties, ElementOfSeq
    <3>4. file' \in Seq(Entry)
      BY <2>7, <3>2, <3>3, ConcatProperties DEF Drop
    <3> QED BY <2>7, <3>4 DEF Drop, Tails
  <2>8. CASE UNCHANGED vars
    BY <2>8 DEF vars
  <2> QED BY <2>2, <2>4, <2>5, <2>6, <2>7, <2>8, <2>9 DEF Next
<1> QED BY <1>1, <1>2, PTL DEF Spec

--------------------------------------------------------------------------------
(* Forks.  The invariant remembers, for each entry on its way, the entry it is   *)
(* linked to, and that no two entries have one digest: an append keeps the chain *)
(* exactly when that entry is still the last one.                               *)

Linked ==
    /\ landed = Len(file)
    /\ \A i \in DOMAIN file : file[i].intact /\ file[i].digest <= digests
    /\ \A i, j \in DOMAIN file : file[i].digest = file[j].digest => i = j
    /\ \A w \in Writers : writing[w] # Idle =>
          /\ writing[w].entry.intact
          /\ writing[w].entry.digest <= digests
          /\ \A i \in DOMAIN file : file[i].digest # writing[w].entry.digest
          /\ writing[w].base <= landed
          /\ writing[w].entry.prev =
                (IF writing[w].base = 0 THEN 0 ELSE file[writing[w].base].digest)
    /\ \A v, w \in Writers :
          /\ writing[v] # Idle
          /\ writing[w] # Idle
          /\ writing[v].entry.digest = writing[w].entry.digest
          => v = w

\* What appending one entry to a file leaves in place and adds.
LEMMA AppendFacts ==
  ASSUME NEW f \in Seq(Entry), NEW e \in Entry
  PROVE  /\ Len(f) \in Nat
         /\ DOMAIN f = 1..Len(f)
         /\ DOMAIN Append(f, e) = 1..(Len(f) + 1)
         /\ Len(Append(f, e)) = Len(f) + 1
         /\ \A i \in 1..Len(f) : Append(f, e)[i] = f[i] /\ f[i] \in Entry
         /\ Append(f, e)[Len(f) + 1] = e
  BY LenProperties, ElementOfSeq, AppendProperties

\* An append on an undamaged file (audit.py record, the write after the read) keeps the chain
\* linked unless it overlapped, and says so.
LEMMA LandKeepsLinks ==
  ASSUME TypeOK, Linked, ForkedIffOverlapped, ~damaged,
         NEW w \in Writers, writing[w] # Idle, Land(w),
         writing' = [writing EXCEPT ![w] = Idle], digests' = digests
  PROVE  Linked' /\ ForkedIffOverlapped'
<1> DEFINE e == writing[w].entry
           n == Len(file)
<1>1. e \in Entry /\ writing[w].base \in Nat
  BY WritingFacts
<1>2. /\ n \in Nat /\ DOMAIN file = 1..n
      /\ DOMAIN file' = 1..(n + 1) /\ Len(file') = n + 1
      /\ \A i \in 1..n : file'[i] = file[i] /\ file[i] \in Entry
      /\ file'[n + 1] = e
  BY <1>1, AppendFacts DEF Land, TypeOK
<1>3. Linked'
  <2>1. \A i \in DOMAIN file' : file'[i].intact /\ file'[i].digest <= digests'
    BY <1>2 DEF Linked
  <2>0. landed' = Len(file')
    BY <1>2 DEF Linked, Land
  <2>2. \A i, j \in DOMAIN file' : file'[i].digest = file'[j].digest => i = j
    BY <1>2 DEF Linked
  <2>3. ASSUME NEW v \in Writers, writing'[v] # Idle
        PROVE  v # w /\ writing'[v] = writing[v] /\ writing[v] # Idle
    BY <2>3 DEF TypeOK
  <2>4. ASSUME NEW v \in Writers, writing'[v] # Idle
        PROVE  /\ writing'[v].entry.intact
               /\ writing'[v].entry.digest <= digests'
               /\ \A i \in DOMAIN file' : file'[i].digest # writing'[v].entry.digest
               /\ writing'[v].base <= landed'
               /\ writing'[v].entry.prev =
                     (IF writing'[v].base = 0 THEN 0 ELSE file'[writing'[v].base].digest)
    <3>1. writing[v].base \in Nat
      BY <2>3, <2>4, WritingFacts
    <3> QED BY <1>2, <2>0, <2>3, <2>4, <3>1 DEF Linked
  <2>5. \A u, v \in Writers :
          /\ writing'[u] # Idle /\ writing'[v] # Idle
          /\ writing'[u].entry.digest = writing'[v].entry.digest
          => u = v
    BY <2>3 DEF Linked
  <2> QED BY <2>0, <2>1, <2>2, <2>4, <2>5 DEF Linked
<1>4. Chained(file') <=> Chained(file) /\ e.prev = (IF n = 0 THEN 0 ELSE file[n].digest)
  <2>1. Chained(file') <=> \A i \in 1..(n + 1) :
          file'[i].intact /\ file'[i].prev = (IF i = 1 THEN 0 ELSE file'[i - 1].digest)
    BY <1>2 DEF Chained
  <2>2. Chained(file) <=> \A i \in 1..n :
          file[i].intact /\ file[i].prev = (IF i = 1 THEN 0 ELSE file[i - 1].digest)
    BY <1>2 DEF Chained
  <2>3. \A i \in 1..n : i # 1 => i - 1 \in 1..n
    BY <1>2
  <2>4. e.intact
    BY DEF Linked
  <2>5. ASSUME Chained(file') PROVE Chained(file) /\ e.prev = (IF n = 0 THEN 0 ELSE file[n].digest)
    <3>1. \A i \in 1..n : i \in 1..(n + 1)
      BY <1>2
    <3>2. Chained(file)
      BY <1>2, <2>1, <2>2, <2>3, <2>5, <3>1
    <3>3. n + 1 \in 1..(n + 1) /\ (n + 1) - 1 = n /\ (n + 1 = 1 <=> n = 0) /\ (n # 0 => n \in 1..n)
      BY <1>2
    <3>4. file'[n + 1].prev = (IF n + 1 = 1 THEN 0 ELSE file'[(n + 1) - 1].digest)
      BY <2>1, <2>5, <3>3
    <3> QED BY <1>2, <3>2, <3>3, <3>4
  <2>6. ASSUME Chained(file), e.prev = (IF n = 0 THEN 0 ELSE file[n].digest)
        PROVE  Chained(file')
    <3>1. ASSUME NEW i \in 1..n
          PROVE  file'[i].intact /\ file'[i].prev = (IF i = 1 THEN 0 ELSE file'[i - 1].digest)
      BY <1>2, <2>2, <2>3, <2>6
    <3>2. n + 1 \in 1..(n + 1) /\ (n + 1) - 1 = n /\ (n + 1 = 1 <=> n = 0) /\ (n # 0 => n \in 1..n)
      BY <1>2
    <3>3. file'[n + 1].intact /\ file'[n + 1].prev = (IF n + 1 = 1 THEN 0 ELSE file'[(n + 1) - 1].digest)
      BY <1>2, <2>4, <2>6, <3>2
    <3>4. \A i \in 1..(n + 1) : i \in 1..n \/ i = n + 1
      BY <1>2
    <3> QED BY <2>1, <3>1, <3>3, <3>4
  <2> QED BY <2>5, <2>6
<1>5. e.prev = (IF n = 0 THEN 0 ELSE file[n].digest) <=> writing[w].base = n
  <2> DEFINE b == writing[w].base
  <2>1. b \in 0..n /\ e.prev = (IF b = 0 THEN 0 ELSE file[b].digest)
    BY <1>1, <1>2 DEF Linked
  <2>2. \A i \in 1..n : file[i].digest # 0
    BY <1>2 DEF Entry
  <2>3. \A i, j \in 1..n : file[i].digest = file[j].digest => i = j
    BY <1>2 DEF Linked
  <2> QED BY <1>2, <2>1, <2>2, <2>3
<1>6. overlapped' <=> overlapped \/ writing[w].base # n
  BY <1>2 DEF Land, Linked
<1> QED BY <1>3, <1>4, <1>5, <1>6 DEF ForkedIffOverlapped

\* An append of one AuditLog that lands after another one has written is what breaks
\* the chain, and nothing else does: on a file that is not damaged verify() fails
\* exactly if two records have overlapped.
THEOREM ForksComeFromOverlaps ==
  Spec => []ForkedIffOverlapped
<1> DEFINE Inv == ~damaged => Linked /\ ForkedIffOverlapped
<1>1. Init => Inv
  BY DEF Init, Linked, ForkedIffOverlapped, Chained
<1>2. TypeOK /\ Inv /\ [Next]_vars => Inv'
  <2> SUFFICES ASSUME TypeOK, Inv, [Next]_vars, ~damaged'
               PROVE  Linked' /\ ForkedIffOverlapped'
    OBVIOUS
  <2>a. ~damaged
    BY DEF Next, vars, Compute, AppendLine, AppendShort, Stop, Edit, Rewrite, Drop
  <2>b. Linked /\ ForkedIffOverlapped
    BY <2>a
  <2>1. ASSUME NEW w \in Writers, Compute(w) PROVE Linked' /\ ForkedIffOverlapped'
    <3> DEFINE k == [step |-> "append", base |-> landed,
                     entry |-> [digest |-> digests + 1, prev |-> LastHash(file),
                                intact |-> TRUE]]
    <3>1. /\ writing' = [writing EXCEPT ![w] = k]
          /\ file' = file /\ digests' = digests + 1
          /\ overlapped' = overlapped /\ landed' = landed
      BY <2>1 DEF Compute
    <3>2. Len(file) \in Nat /\ DOMAIN file = 1..Len(file) /\ digests \in Nat
          /\ landed = Len(file)
      BY <2>b, LenProperties DEF TypeOK, Linked
    <3>3. LastHash(file) = (IF Len(file) = 0 THEN 0 ELSE file[Len(file)].digest)
      BY EmptySeq DEF LastHash, TypeOK
    <3>4. \A i \in DOMAIN file : file[i].digest \in Nat /\ file[i].digest <= digests
      BY <2>b, <3>2, FileEntries DEF Linked, TypeOK
    <3>5. \A v \in Writers : writing[v] # Idle =>
             writing[v].entry.digest \in Nat /\ writing[v].entry.digest <= digests
      BY <2>b, WritingFacts DEF Linked, Entry
    <3>6. \A v \in Writers : writing'[v] = IF v = w THEN k ELSE writing[v]
      BY <3>1 DEF TypeOK
    <3>7. Linked'
      <4>1. \A i \in DOMAIN file' : file'[i].intact /\ file'[i].digest <= digests'
        BY <2>b, <3>1, <3>2, <3>4 DEF Linked
      <4>2. ASSUME NEW v \in Writers, writing'[v] # Idle
            PROVE  /\ writing'[v].entry.intact
                   /\ writing'[v].entry.digest <= digests'
                   /\ \A i \in DOMAIN file' : file'[i].digest # writing'[v].entry.digest
                   /\ writing'[v].base <= landed'
                   /\ writing'[v].entry.prev =
                        (IF writing'[v].base = 0 THEN 0 ELSE file'[writing'[v].base].digest)
        <5>1. CASE v = w
          BY <5>1, <3>1, <3>2, <3>3, <3>4, <3>6
        <5>2. CASE v # w
          BY <2>b, <5>2, <4>2, <3>1, <3>2, <3>5, <3>6 DEF Linked
        <5> QED BY <5>1, <5>2
      <4>3. \A u, v \in Writers :
              /\ writing'[u] # Idle /\ writing'[v] # Idle
              /\ writing'[u].entry.digest = writing'[v].entry.digest
              => u = v
        BY <2>b, <3>2, <3>5, <3>6 DEF Linked
      <4> QED BY <2>b, <3>1, <3>2, <4>1, <4>2, <4>3 DEF Linked
    <3> QED BY <2>1, <2>b, <3>1, <3>7 DEF ForkedIffOverlapped, Compute
  <2>2. ASSUME NEW w \in Writers, writing[w] # Idle,
               writing' = [writing EXCEPT ![w] = Idle],
               UNCHANGED <<file, digests, landed, overlapped, damaged>>
        PROVE  Linked' /\ ForkedIffOverlapped'
    BY <2>2, <2>b DEF Linked, ForkedIffOverlapped, TypeOK
  <2>3. ASSUME NEW w \in Writers, AppendLine(w) PROVE Linked' /\ ForkedIffOverlapped'
    BY <2>a, <2>b, <2>3, <2>2, LandKeepsLinks DEF AppendLine
  <2>4. ASSUME NEW w \in Writers, AppendShort(w) PROVE Linked' /\ ForkedIffOverlapped'
    BY <2>a, <2>b, <2>4, <2>2, LandKeepsLinks DEF AppendShort
  <2>5. ASSUME NEW w \in Writers, Stop(w) PROVE Linked' /\ ForkedIffOverlapped'
    BY <2>5, <2>2 DEF Stop
  <2>6. ASSUME NEW i \in DOMAIN file, Edit(i) \/ Rewrite(i) \/ Drop(i) PROVE FALSE
    BY <2>6 DEF Edit, Rewrite, Drop
  <2>7. CASE UNCHANGED vars
    BY <2>7, <2>b DEF vars, Linked, ForkedIffOverlapped
  <2> QED BY <2>1, <2>3, <2>4, <2>5, <2>6, <2>7 DEF Next
<1>3. Inv => ForkedIffOverlapped
  BY DEF ForkedIffOverlapped
<1> QED BY <1>1, <1>2, <1>3, AuditTypeCorrect, PTL DEF Spec

\* With one AuditLog object on the file there is nothing to overlap with, so verify()
\* never reports tampering that did not happen.
THEOREM OneWriterVerifies ==
  ASSUME \A v, w \in Writers : v = w
  PROVE  Spec => []FalseOnlyIfTampered
<1> DEFINE Current == /\ ~overlapped
                      /\ \A w \in Writers : writing[w] # Idle => writing[w].base = landed
<1>1. Init => Current
  BY DEF Init
<1>2. TypeOK /\ Current /\ [Next]_vars => Current'
  <2> SUFFICES ASSUME TypeOK, Current, [Next]_vars PROVE Current'
    OBVIOUS
  <2>1. ASSUME NEW w \in Writers, Compute(w) PROVE Current'
    BY <2>1 DEF Compute, TypeOK
  <2>2. ASSUME NEW w \in Writers, writing[w] # Idle, writing' = [writing EXCEPT ![w] = Idle],
               overlapped' = overlapped \/ Land(w)
        PROVE  Current'
    <3>1. ~overlapped'
      BY <2>2 DEF Land
    <3>2. \A v \in Writers : writing'[v] = Idle
      BY <2>2 DEF TypeOK
    <3> QED BY <3>1, <3>2
  <2>3. ASSUME NEW w \in Writers, AppendLine(w) \/ AppendShort(w) \/ Stop(w) PROVE Current'
    BY <2>2, <2>3 DEF AppendLine, AppendShort, Stop
  <2>4. ASSUME NEW i \in DOMAIN file, Edit(i) \/ Rewrite(i) \/ Drop(i) PROVE Current'
    BY <2>4 DEF Edit, Rewrite, Drop
  <2>5. CASE UNCHANGED vars
    BY <2>5 DEF vars
  <2> QED BY <2>1, <2>3, <2>4, <2>5 DEF Next
<1>3. Current /\ ForkedIffOverlapped => FalseOnlyIfTampered
  BY DEF ForkedIffOverlapped, FalseOnlyIfTampered, VerifyResult
<1> QED
  BY <1>1, <1>2, <1>3, AuditTypeCorrect, ForksComeFromOverlaps, PTL DEF Spec

\* A fork is for good: no record rearranges the lines of the file, so no record mends a chain
\* that is broken.
THEOREM ForksAreForGood == Spec => ForksStay
<1> DEFINE Kept == ~damaged' => /\ ~Chained(file) => ~Chained(file')
                                /\ SubSeq(file', 1, Len(file)) = file
<1>1. TypeOK /\ [Next]_vars => [Kept]_vars
  <2> SUFFICES ASSUME TypeOK, [Next]_vars, ~damaged'
               PROVE  /\ ~Chained(file) => ~Chained(file')
                      /\ SubSeq(file', 1, Len(file)) = file
    OBVIOUS
  <2> DEFINE n == Len(file)
  <2>1. file \in Seq(Entry) /\ n \in Nat /\ DOMAIN file = 1..n
    BY LenProperties DEF TypeOK
  <2>2. CASE file' = file
    BY <2>1, <2>2, SubSeqFull
  <2>3. ASSUME NEW w \in Writers, writing[w] # Idle, Land(w)
        PROVE  /\ ~Chained(file) => ~Chained(file')
               /\ SubSeq(file', 1, Len(file)) = file
    <3> DEFINE e == writing[w].entry
    <3>1. e \in Entry /\ file' = Append(file, e)
      BY <2>3, WritingFacts DEF Land
    <3>2. /\ file' \in Seq(Entry) /\ DOMAIN file' = 1..(n + 1) /\ Len(file') = n + 1
          /\ \A i \in 1..n : file'[i] = file[i]
      BY <2>1, <3>1, AppendFacts, AppendProperties
    <3>3. ASSUME Chained(file') PROVE Chained(file)
      <4>1. ASSUME NEW i \in 1..n
            PROVE  file[i].intact /\ file[i].prev = (IF i = 1 THEN 0 ELSE file[i - 1].digest)
        <5>1. i \in 1..(n + 1) /\ (i # 1 => i - 1 \in 1..n)
          BY <2>1
        <5> QED BY <3>2, <3>3, <5>1 DEF Chained
      <4> QED BY <2>1, <4>1 DEF Chained
    <3>4. SubSeq(file', 1, n) = file
      BY <2>1, <3>1, AppendProperties
    <3> QED BY <3>3, <3>4
  <2>4. file' = file \/ \E w \in Writers : writing[w] # Idle /\ Land(w)
    BY DEF Next, vars, Compute, AppendLine, AppendShort, Stop, Edit, Rewrite, Drop
  <2> QED BY <2>2, <2>3, <2>4
<1> QED BY <1>1, AuditTypeCorrect, PTL DEF Spec, ForksStay

--------------------------------------------------------------------------------
(* History.  A chain that links up says what its digests were computed behind.    *)
(* The proof follows each entry from the read to the file: what stands before it *)
(* there is what is left of the log it was computed on, so a line that was       *)
(* dropped or hashed anew leaves a link to nothing, and where every link up to a *)
(* digest holds, nothing before it was dropped or changed.                       *)

\* The links of the first i lines hold.
Reached(f, i) == \A j \in 1..i : f[j].prev = IF j = 1 THEN 0 ELSE f[j - 1].digest

\* What a writer had read is the first n lines of the file.
Tells(s, f, n) == Len(s) = n /\ \A j \in 1..n : s[j] = f[j].digest

Distinct(f) == \A i, j \in DOMAIN f : f[i].digest = f[j].digest => i = j

\* An entry in the file is linked to the line before it or to one that is gone; known is what
\* its digest was computed behind.
EntryLinked(f, i, known) ==
    /\ f[i].prev < f[i].digest
    /\ f[i].prev = 0 => i = 1
    /\ \A j \in DOMAIN f : f[j].digest = f[i].prev => j = i - 1
    /\ Reached(f, i) => Tells(known, f, i - 1)

\* So will be an entry that is on its way to the file it was computed on.
AppendLinked(f, e, known) ==
    /\ e.prev < e.digest
    /\ e.prev = 0 => Len(f) = 0
    /\ \A j \in DOMAIN f : /\ f[j].digest # e.digest /\ f[j].prev # e.digest
                           /\ f[j].digest = e.prev => j = Len(f)
    /\ Reached(f, Len(f)) /\ e.prev = LastHash(f) => Tells(known, f, Len(f))

Traced ==
    /\ Len(seen) = digests
    /\ \A i \in DOMAIN file : file[i].digest <= digests
    /\ \A w \in Writers : writing[w] # Idle =>
          writing[w].base <= landed /\ writing[w].entry.digest <= digests
    /\ ~overlapped =>
          /\ Distinct(file)
          /\ \A i \in DOMAIN file : EntryLinked(file, i, seen[file[i].digest])
          /\ \A w \in Writers : writing[w] # Idle /\ writing[w].base = landed =>
                AppendLinked(file, writing[w].entry, seen[writing[w].entry.digest])

\* The last hash of a log (audit.py _last_hash), by its length.
LEMMA LastHashFacts ==
  ASSUME NEW f \in Seq(Entry)
  PROVE  LastHash(f) = (IF Len(f) = 0 THEN 0 ELSE f[Len(f)].digest)
  BY EmptySeq DEF LastHash

\* A record that has read the log knows all of it, and the others know what they knew.
LEMMA ComputeTraces ==
  ASSUME TypeOK, Traced, NEW w \in Writers, Compute(w)
  PROVE  Traced'
<1> DEFINE n == Len(file)
           k == [step |-> "append", base |-> landed,
                 entry |-> [digest |-> digests + 1, prev |-> LastHash(file), intact |-> TRUE]]
           e == k.entry
<1>1. /\ \A v \in Writers : writing'[v] = IF v = w THEN k ELSE writing[v]
      /\ file' = file /\ digests' = digests + 1 /\ landed' = landed
      /\ overlapped' = overlapped /\ seen' = Append(seen, DigestsOf(file))
  BY DEF Compute, TypeOK
<1>2. /\ n \in Nat /\ DOMAIN file = 1..n /\ digests \in Nat /\ landed \in Nat
      /\ \A i \in 1..n : file[i].digest \in Nat \ {0}
  BY FileEntries DEF TypeOK
<1>3. LastHash(file) = (IF n = 0 THEN 0 ELSE file[n].digest)
  BY LastHashFacts DEF TypeOK
<1>4. DigestsOf(file) \in Seq(Nat) /\ Len(DigestsOf(file)) = n
      /\ \A j \in 1..n : DigestsOf(file)[j] = file[j].digest
  <2>1. DigestsOf(file) \in Seq(Nat)
    BY DigestsOfType DEF TypeOK
  <2>2. DOMAIN DigestsOf(file) = 1..n /\ \A j \in 1..n : DigestsOf(file)[j] = file[j].digest
    BY <1>2 DEF DigestsOf
  <2>3. Len(DigestsOf(file)) \in Nat /\ DOMAIN DigestsOf(file) = 1..Len(DigestsOf(file))
    BY <2>1, LenProperties
  <2> QED BY <1>2, <2>1, <2>2, <2>3
<1>5. /\ Len(seen') = digests'
      /\ \A d \in 1..digests : seen'[d] = seen[d]
      /\ seen'[digests + 1] = DigestsOf(file)
  BY <1>1, <1>2, <1>4, AppendProperties DEF Traced, TypeOK
<1>6. ASSUME NEW v \in Writers, writing[v] # Idle
      PROVE  /\ writing[v].entry.digest \in 1..digests /\ writing[v].entry \in Entry
             /\ writing[v].base \in Nat /\ writing[v].base <= landed
  <2>1. writing[v].entry \in Entry /\ writing[v].base \in Nat
    BY <1>6, WritingFacts
  <2> QED BY <1>2, <1>6, <2>1 DEF Traced, Entry
<1>7. k # Idle /\ k.base = landed /\ e.digest = digests + 1 /\ e.prev = LastHash(file)
  BY DEF Idle
<1> HIDE DEF k
<1>8. /\ \A v \in Writers : writing'[v] # Idle =>
            writing'[v].base <= landed' /\ writing'[v].entry.digest <= digests'
      /\ \A i \in DOMAIN file : file[i].digest \in 1..digests
      /\ \A i \in DOMAIN file' : file'[i].digest <= digests'
  <2>1. \A v \in Writers : writing'[v] # Idle =>
           writing'[v].base <= landed' /\ writing'[v].entry.digest <= digests'
    BY <1>1, <1>2, <1>6, <1>7
  <2>2. \A i \in DOMAIN file : file[i].digest \in 1..digests
    BY <1>2 DEF Traced
  <2> QED BY <1>1, <1>2, <2>1, <2>2
<1>9. ASSUME ~overlapped
      PROVE  /\ Distinct(file)
             /\ \A i \in DOMAIN file : EntryLinked(file, i, seen'[file[i].digest])
             /\ \A v \in Writers : writing'[v] # Idle /\ writing'[v].base = landed =>
                   AppendLinked(file, writing'[v].entry, seen'[writing'[v].entry.digest])
  <2>1. Distinct(file)
    BY <1>9 DEF Traced
  <2>2. ASSUME NEW i \in DOMAIN file PROVE EntryLinked(file, i, seen'[file[i].digest])
    BY <1>5, <1>8, <1>9, <2>2 DEF Traced
  <2>3. ASSUME NEW v \in Writers \ {w}, writing'[v] # Idle, writing'[v].base = landed
        PROVE  AppendLinked(file, writing'[v].entry, seen'[writing'[v].entry.digest])
    BY <1>1, <1>5, <1>6, <1>9, <2>3 DEF Traced
  <2>4. AppendLinked(file, e, seen'[e.digest])
    <3>1. ASSUME NEW j \in 1..n, file[j].digest = e.prev PROVE j = n
      <4>1. file[j].digest = file[n].digest /\ n \in 1..n
        BY <1>2, <1>3, <1>7, <3>1
      <4> QED BY <1>2, <2>1, <4>1 DEF Distinct
    <3>2. \A j \in 1..n : file[j].digest < e.digest /\ file[j].digest # e.digest
      BY <1>2, <1>7, <1>8
    <3>5. \A j \in 1..n : file[j].prev # e.digest
      <4>1. \A j \in 1..n : file[j] \in Entry /\ file[j].prev \in Nat
        BY FileEntries DEF TypeOK, Entry
      <4>2. \A j \in 1..n : file[j].prev < file[j].digest
        BY <1>2, <2>2 DEF EntryLinked
      <4> QED BY <1>2, <3>2, <4>1, <4>2, <1>7
    <3>3. e.prev < e.digest /\ (e.prev = 0 => n = 0)
      <4>1. CASE n = 0
        BY <1>2, <1>3, <1>7, <4>1
      <4>2. CASE n # 0
        <5>1. n \in 1..n /\ e.prev = file[n].digest
          BY <1>2, <1>3, <1>7, <4>2
        <5> QED BY <1>2, <3>2, <5>1
      <4> QED BY <4>1, <4>2
    <3>4. Tells(seen'[e.digest], file, n)
      BY <1>4, <1>5, <1>7 DEF Tells
    <3> QED BY <1>2, <3>1, <3>2, <3>3, <3>4, <3>5 DEF AppendLinked
  <2>5. writing'[w] = k
    BY <1>1
  <2> QED BY <2>1, <2>2, <2>3, <2>4, <2>5
<1> QED BY <1>1, <1>5, <1>8, <1>9 DEF Traced

\* Links and knowledge of the first lines of a file do not depend on what follows them.
LEMMA SamePrefix ==
  ASSUME NEW f, NEW g, NEW m \in Nat, NEW known,
         \A j \in 1..m : f[j].digest = g[j].digest /\ f[j].prev = g[j].prev
  PROVE  /\ Reached(f, m) <=> Reached(g, m)
         /\ Tells(known, f, m) <=> Tells(known, g, m)
<1>1. \A j \in 1..m : j # 1 => j - 1 \in 1..m
  OBVIOUS
<1>2. Reached(f, m) <=> Reached(g, m)
  BY <1>1 DEF Reached
<1>3. Tells(known, f, m) <=> Tells(known, g, m)
  BY DEF Tells
<1> QED BY <1>2, <1>3

\* The rules of an entry that stays where it is, when the lines up to it stay as well and no
\* line is added that it could be linked to.
LEMMA SameEntry ==
  ASSUME NEW f \in Seq(Entry), NEW g \in Seq(Entry), NEW i \in 1..Len(f), NEW known,
         EntryLinked(f, i, known),
         i \in 1..Len(g),
         \A j \in 1..i : f[j].digest = g[j].digest /\ f[j].prev = g[j].prev,
         \A j \in 1..Len(g) : g[j].digest = g[i].prev => j \in 1..i
  PROVE  EntryLinked(g, i, known)
<1>1. /\ Len(f) \in Nat /\ Len(g) \in Nat /\ DOMAIN f = 1..Len(f) /\ DOMAIN g = 1..Len(g)
      /\ i \in Nat /\ i \in 1..i /\ i - 1 \in Nat
      /\ \A j \in 1..i : j \in 1..Len(f)
      /\ \A j \in 1..(i - 1) : j \in 1..i
  BY LenProperties
<1>2. Reached(f, i) <=> Reached(g, i)
  BY <1>1, SamePrefix
<1>3. Tells(known, f, i - 1) <=> Tells(known, g, i - 1)
  BY <1>1, SamePrefix
<1>4. f[i].digest = g[i].digest /\ f[i].prev = g[i].prev
  BY <1>1
<1>5. \A j \in DOMAIN g : g[j].digest = g[i].prev => j = i - 1
  BY <1>1, <1>4 DEF EntryLinked
<1> QED BY <1>2, <1>3, <1>4, <1>5 DEF EntryLinked

\* An entry that lands on the file it was computed on (audit.py record, the append) is linked
\* to what its writer had read.
LEMMA LandTraces ==
  ASSUME TypeOK, Traced, NEW w \in Writers, writing[w] # Idle, Land(w),
         writing' = [writing EXCEPT ![w] = Idle], UNCHANGED <<digests, seen>>
  PROVE  Traced'
<1> DEFINE e == writing[w].entry
           n == Len(file)
<1>1. e \in Entry /\ writing[w].base \in Nat /\ e.digest \in Nat /\ e.prev \in Nat
  BY WritingFacts DEF Entry
<1>2. /\ n \in Nat /\ DOMAIN file = 1..n
      /\ DOMAIN file' = 1..(n + 1) /\ Len(file') = n + 1
      /\ \A i \in 1..n : file'[i] = file[i] /\ file[i] \in Entry
      /\ file'[n + 1] = e
      /\ file \in Seq(Entry) /\ file' \in Seq(Entry)
      /\ n + 1 \in 1..(n + 1) /\ \A i \in 1..n : i \in 1..(n + 1)
  BY <1>1, AppendFacts, AppendProperties DEF Land, TypeOK
<1>3. ASSUME NEW v \in Writers, writing'[v] # Idle
      PROVE  /\ writing'[v] = writing[v] /\ writing[v] # Idle
             /\ writing'[v].base \in Nat /\ writing'[v].base < landed'
             /\ writing'[v].entry.digest <= digests
  <2>1. writing'[v] = writing[v] /\ writing[v] # Idle
    BY <1>3 DEF TypeOK
  <2>2. writing[v].base \in Nat /\ landed \in Nat /\ landed' = landed + 1
    BY <2>1, WritingFacts DEF Land, TypeOK
  <2> QED BY <2>1, <2>2 DEF Traced
<1>4. \A i \in DOMAIN file' : file'[i].digest <= digests'
  BY <1>2 DEF Traced
<1>5. ASSUME ~overlapped'
      PROVE  /\ Distinct(file')
             /\ \A i \in DOMAIN file' : EntryLinked(file', i, seen[file'[i].digest])
  <2>1. /\ Distinct(file)
        /\ \A i \in 1..n : EntryLinked(file, i, seen[file[i].digest])
        /\ AppendLinked(file, e, seen[e.digest])
    BY <1>2, <1>5 DEF Land, Traced
  <2>2. \A j \in 1..n : /\ file[j].digest \in Nat /\ file[j].prev \in Nat
                        /\ file[j].digest # e.digest /\ file[j].prev # e.digest
    BY <1>2, <2>1 DEF AppendLinked, Entry
  <2>3. Distinct(file')
    BY <1>2, <2>1, <2>2 DEF Distinct
  <2>4. ASSUME NEW i \in 1..n PROVE EntryLinked(file', i, seen[file'[i].digest])
    <3>1. file[i].prev # e.digest
      BY <2>2
    <3>2. \A j \in 1..n : file[j].digest = file[i].prev => j = i - 1
      BY <1>2, <2>1 DEF EntryLinked
    <3>3. \A j \in 1..(n + 1) : file'[j].digest = file'[i].prev => j \in 1..i
      <4>1. \A j \in 1..(n + 1) : j \in 1..n \/ j = n + 1
        BY <1>2
      <4>2. file'[i].prev = file[i].prev /\ file'[n + 1].digest # file'[i].prev
        BY <1>2, <3>1
      <4>3. \A j \in 1..n : j = i - 1 => j \in 1..i
        BY <1>2
      <4> QED BY <1>2, <3>2, <4>1, <4>2, <4>3
    <3>4. \A j \in 1..i : j \in 1..n
      BY <1>2
    <3> QED BY <1>2, <2>1, <3>3, <3>4, SameEntry
  <2>5. EntryLinked(file', n + 1, seen[e.digest])
    <3>1. ASSUME Reached(file', n + 1) PROVE Tells(seen[e.digest], file', n)
      <4>1. Reached(file, n)
        <5>1. Reached(file', n)
          BY <1>2, <3>1 DEF Reached
        <5> QED BY <1>2, <5>1, SamePrefix
      <4>2. e.prev = LastHash(file)
        <5>1. e.prev = (IF n + 1 = 1 THEN 0 ELSE file'[(n + 1) - 1].digest)
          BY <1>2, <3>1 DEF Reached
        <5>2. (n + 1) - 1 = n /\ (n # 0 => n \in 1..n) /\ (n + 1 = 1 <=> n = 0)
          BY <1>2
        <5> QED BY <1>2, <5>1, <5>2, LastHashFacts
      <4>3. Tells(seen[e.digest], file, n)
        BY <2>1, <4>1, <4>2 DEF AppendLinked
      <4> QED BY <1>2, <4>3 DEF Tells
    <3>2. \A j \in 1..(n + 1) : file'[j].digest = e.prev => j = n
      <4>1. \A j \in 1..n : file[j].digest = e.prev => j = n
        BY <1>2, <2>1 DEF AppendLinked
      <4>2. e.digest # e.prev
        BY <1>1, <2>1 DEF AppendLinked
      <4>3. \A j \in 1..(n + 1) : j \in 1..n \/ j = n + 1
        BY <1>2
      <4> QED BY <1>2, <4>1, <4>2, <4>3
    <3>3. e.prev < e.digest /\ (e.prev = 0 => n + 1 = 1)
      BY <1>2, <2>1 DEF AppendLinked
    <3>4. (n + 1) - 1 = n
      BY <1>2
    <3> QED BY <1>2, <3>1, <3>2, <3>3, <3>4 DEF EntryLinked
  <2> QED BY <1>2, <2>3, <2>4, <2>5
<1> QED BY <1>2, <1>3, <1>4, <1>5 DEF Traced, Land, TypeOK

\* A file without line k.
Cut(f, k) == SubSeq(f, 1, k - 1) \o SubSeq(f, k + 1, Len(f))

\* Where the lines of a file are once line k is gone.
LEMMA CutFacts ==
  ASSUME NEW f \in Seq(Entry), NEW k \in 1..Len(f)
  PROVE  /\ Cut(f, k) \in Seq(Entry)
         /\ Len(Cut(f, k)) = Len(f) - 1
         /\ DOMAIN Cut(f, k) = 1..(Len(f) - 1)
         /\ \A j \in 1..(Len(f) - 1) : j < k => Cut(f, k)[j] = f[j] /\ j \in 1..Len(f)
         /\ \A j \in 1..(Len(f) - 1) :
               ~(j < k) => Cut(f, k)[j] = f[j + 1] /\ j + 1 \in 1..Len(f)
<1> DEFINE g == Cut(f, k)
           a == SubSeq(f, 1, k - 1)
           b == SubSeq(f, k + 1, Len(f))
<1>1. Len(f) \in Nat /\ k \in Nat /\ k <= Len(f) /\ k >= 1
  BY LenProperties
<1>2. /\ a \in Seq(Entry) /\ Len(a) = k - 1
      /\ \A j \in 1..(k - 1) : a[j] = f[j]
  BY <1>1, SubSeqProperties, ElementOfSeq
<1>3. /\ b \in Seq(Entry) /\ Len(b) = Len(f) - k
      /\ \A j \in 1..(Len(f) - k) : b[j] = f[k + j]
  BY <1>1, SubSeqProperties, ElementOfSeq
<1>4. g = a \o b
  BY DEF Cut
<1> HIDE DEF a, b, g
<1>5. /\ g \in Seq(Entry) /\ Len(g) = Len(a) + Len(b)
      /\ \A j \in 1..(Len(a) + Len(b)) : g[j] = IF j <= Len(a) THEN a[j] ELSE b[j - Len(a)]
  BY <1>2, <1>3, <1>4, ConcatProperties
<1>6. Len(g) = Len(f) - 1
  BY <1>1, <1>2, <1>3, <1>5
<1>7. ASSUME NEW j \in 1..(Len(f) - 1), j < k PROVE g[j] = f[j] /\ j \in 1..Len(f)
  <2>1. j \in 1..(Len(a) + Len(b)) /\ j <= Len(a) /\ j \in 1..(k - 1) /\ j \in 1..Len(f)
    BY <1>1, <1>2, <1>3, <1>7
  <2> QED BY <1>2, <1>5, <2>1
<1>8. ASSUME NEW j \in 1..(Len(f) - 1), ~(j < k) PROVE g[j] = f[j + 1] /\ j + 1 \in 1..Len(f)
  <2>1. j \in 1..(Len(a) + Len(b)) /\ ~(j <= Len(a)) /\ j + 1 \in 1..Len(f)
    BY <1>1, <1>2, <1>3, <1>8
  <2>2. j - Len(a) \in 1..(Len(f) - k) /\ k + (j - Len(a)) = j + 1
    BY <1>1, <1>2, <1>8
  <2>3. g[j] = b[j - Len(a)]
    BY <1>5, <2>1
  <2> QED BY <1>3, <2>1, <2>2, <2>3
<1> QED BY <1>5, <1>6, <1>7, <1>8, LenProperties DEF g

\* What is left of an ordered log whose entries are linked to what their writers read: a line
\* that followed the dropped one is linked to a line that is gone, so no chain reaches it, nor
\* the entry that is still on its way.
LEMMA DropKeepsLinks ==
  ASSUME NEW f \in Seq(Entry), NEW k \in 1..Len(f),
         NEW g, g = Cut(f, k),
         NEW s, Distinct(f), \A i \in DOMAIN f : EntryLinked(f, i, s[f[i].digest])
  PROVE  /\ Distinct(g)
         /\ \A i \in DOMAIN g : EntryLinked(g, i, s[g[i].digest])
         /\ \A e \in Entry : AppendLinked(f, e, s[e.digest]) => AppendLinked(g, e, s[e.digest])
<1> DEFINE n == Len(f)
           o(j) == IF j < k THEN j ELSE j + 1
<1>0. n \in Nat /\ k \in Nat /\ 1 <= k /\ k <= n /\ DOMAIN f = 1..n
  BY LenProperties
<1>1. /\ n \in Nat /\ k \in Nat /\ 1 <= k /\ k <= n /\ DOMAIN f = 1..n
      /\ \A j \in 1..n : f[j].digest \in Nat \ {0} /\ f[j].prev \in Nat
  <2>1. \A x \in Entry : x.prev \in Nat
    BY DEF Entry
  <2> QED BY <2>1, FileEntries
<1>2. /\ g \in Seq(Entry) /\ Len(g) = n - 1 /\ DOMAIN g = 1..(n - 1)
      /\ \A j \in 1..(n - 1) : j < k => g[j] = f[j] /\ j \in 1..n
      /\ \A j \in 1..(n - 1) : ~(j < k) => g[j] = f[j + 1] /\ j + 1 \in 1..n
  BY CutFacts
<1>9. n = Len(f)
  OBVIOUS
<1> HIDE DEF n
<1>8. \A j \in 1..(n - 1) : o(j) \in 1..n /\ g[j] = f[o(j)]
  BY <1>2
<1>3. Distinct(g)
  <2> SUFFICES ASSUME NEW i \in 1..(n - 1), NEW j \in 1..(n - 1), g[i].digest = g[j].digest
               PROVE  i = j
    BY <1>2 DEF Distinct
  <2>1. o(i) = o(j) => i = j
    BY <1>1
  <2> HIDE DEF o
  <2> QED BY <1>8, <1>1, <2>1 DEF Distinct
<1>4. ASSUME NEW i \in 1..n
      PROVE  /\ f[i].prev < f[i].digest
             /\ f[i].prev = 0 => i = 1
             /\ \A j \in 1..n : f[j].digest = f[i].prev => j = i - 1
  BY <1>1 DEF EntryLinked
<1>5. ASSUME NEW i \in 1..(n - 1), ~(i < k) PROVE ~Reached(g, i)
  <2> SUFFICES ASSUME Reached(g, i) PROVE FALSE
    OBVIOUS
  <2>1. k \in 1..i /\ k \in 1..(n - 1) /\ k + 1 \in 1..n
    BY <1>1, <1>5
  <2>2. f[k + 1].prev = IF k = 1 THEN 0 ELSE g[k - 1].digest
    BY <1>2, <2>1 DEF Reached
  <2>3. CASE k = 1
    BY <1>4, <2>1, <2>2, <2>3
  <2>4. CASE k # 1
    <3>1. k - 1 \in 1..(n - 1) /\ k - 1 < k
      BY <1>1, <2>1, <2>4
    <3>2. f[k - 1].digest = f[k + 1].prev /\ k - 1 \in 1..n
      BY <1>2, <2>2, <2>4, <3>1
    <3>3. k - 1 = (k + 1) - 1
      BY <1>4, <2>1, <3>2
    <3> QED BY <1>1, <3>3
  <2> QED BY <2>3, <2>4
<1>6. ASSUME NEW i \in 1..(n - 1) PROVE EntryLinked(g, i, s[g[i].digest])
  <2>1. CASE i < k
    <3>1. g[i] = f[i] /\ i \in 1..n /\ EntryLinked(f, i, s[g[i].digest])
      BY <1>1, <1>2, <2>1
    <3>2. \A j \in 1..i : f[j].digest = g[j].digest /\ f[j].prev = g[j].prev
      BY <1>1, <1>2, <2>1
    <3>3. ASSUME NEW j \in 1..(n - 1), g[j].digest = g[i].prev PROVE j \in 1..i
      <4>1. o(j) = i - 1
        BY <1>4, <1>8, <3>1, <3>3
      <4> QED BY <1>1, <4>1
    <3> HIDE DEF o
    <3> QED BY <1>2, <1>9, <3>1, <3>2, <3>3, SameEntry
  <2>2. CASE ~(i < k)
    <3>1. g[i] = f[i + 1] /\ i + 1 \in 1..n
      BY <1>2, <2>2
    <3>2. g[i].prev < g[i].digest /\ g[i].prev # 0
      BY <1>1, <1>4, <3>1
    <3>3. ASSUME NEW j \in 1..(n - 1), g[j].digest = g[i].prev PROVE j = i - 1
      <4>1. o(j) = (i + 1) - 1
        BY <1>4, <1>8, <3>1, <3>3
      <4>2. CASE j < k
        BY <1>0, <2>2, <4>1, <4>2
      <4>3. CASE ~(j < k)
        BY <1>0, <4>1, <4>3
      <4> QED BY <4>2, <4>3
    <3> QED BY <1>2, <1>5, <2>2, <3>2, <3>3 DEF EntryLinked
  <2> QED BY <1>1, <2>1, <2>2
<1>7. ASSUME NEW e \in Entry, AppendLinked(f, e, s[e.digest])
      PROVE  AppendLinked(g, e, s[e.digest])
  <2>1. e.prev < e.digest /\ e.prev # 0
    BY <1>0, <1>7, <1>9 DEF AppendLinked
  <2>0. \A j \in 1..n : /\ f[j].digest # e.digest /\ f[j].prev # e.digest
                        /\ f[j].digest = e.prev => j = n
    BY <1>0, <1>7, <1>9 DEF AppendLinked
  <2>2. ASSUME NEW j \in 1..(n - 1)
        PROVE  /\ g[j].digest # e.digest /\ g[j].prev # e.digest
               /\ g[j].digest = e.prev => j = n - 1
    <3>1. CASE j < k
      <4>1. g[j] = f[j] /\ j \in 1..n /\ j # n
        BY <1>0, <1>2, <3>1
      <4> QED BY <2>0, <4>1
    <3>2. CASE ~(j < k)
      <4>1. g[j] = f[j + 1] /\ j + 1 \in 1..n
        BY <1>2, <3>2
      <4>2. f[j + 1].digest = e.prev => j + 1 = n
        BY <2>0, <4>1
      <4>3. j + 1 = n => j = n - 1
        BY <1>0
      <4> QED BY <2>0, <4>1, <4>2, <4>3
    <3> QED BY <3>1, <3>2
  <2>3. ASSUME Reached(g, n - 1), e.prev = LastHash(g) PROVE FALSE
    <3>1. CASE k < n
      BY <1>1, <1>5, <2>3, <3>1
    <3>2. CASE n = 1
      BY <1>2, <1>9, <2>1, <2>3, <3>2, LastHashFacts, (1 - 1) = 0
    <3>3. CASE k = n /\ n # 1
      <4>1. n - 1 \in 1..(n - 1) /\ n - 1 < k /\ n - 1 \in 1..n
        BY <1>1, <3>3
      <4>2. e.prev = f[n - 1].digest
        BY <1>2, <2>3, <3>3, <4>1, LastHashFacts
      <4>3. n - 1 = n
        BY <2>0, <4>1, <4>2
      <4> QED BY <1>0, <4>3
    <3> QED BY <1>0, <3>1, <3>2, <3>3
  <2> QED BY <1>2, <2>1, <2>2, <2>3 DEF AppendLinked
<1> QED BY <1>2, <1>3, <1>6, <1>7

\* An edit leaves the digests and the links of the lines as they are.
LEMMA EditKeepsLinks ==
  ASSUME NEW f \in Seq(Entry), NEW g \in Seq(Entry), Len(g) = Len(f),
         \A i \in 1..Len(f) : g[i].digest = f[i].digest /\ g[i].prev = f[i].prev,
         NEW s, Distinct(f), \A i \in DOMAIN f : EntryLinked(f, i, s[f[i].digest])
  PROVE  /\ Distinct(g)
         /\ \A i \in DOMAIN g : EntryLinked(g, i, s[g[i].digest])
         /\ \A e \in Entry : AppendLinked(f, e, s[e.digest]) => AppendLinked(g, e, s[e.digest])
<1> DEFINE n == Len(f)
<1>1. /\ n \in Nat /\ DOMAIN f = 1..n /\ DOMAIN g = 1..n
      /\ \A i \in 1..n : \A j \in 1..i : j \in 1..n
  BY LenProperties
<1>2. Distinct(g)
  BY <1>1 DEF Distinct
<1>3. ASSUME NEW i \in 1..n PROVE EntryLinked(g, i, s[g[i].digest])
  <2>1. EntryLinked(f, i, s[g[i].digest])
    BY <1>1
  <2>2. \A j \in 1..n : g[j].digest = g[i].prev => j \in 1..i
    <3>1. \A j \in 1..n : g[j].digest = g[i].prev => j = i - 1
      BY <1>1, <2>1 DEF EntryLinked
    <3> QED BY <1>1, <3>1
  <2> QED BY <1>1, <2>1, <2>2, SameEntry
<1>4. ASSUME NEW e \in Entry, AppendLinked(f, e, s[e.digest])
      PROVE  AppendLinked(g, e, s[e.digest])
  <2>1. LastHash(g) = LastHash(f)
    BY <1>1, LastHashFacts
  <2>2. Reached(g, n) <=> Reached(f, n)
    BY <1>1, SamePrefix
  <2>3. Tells(s[e.digest], f, n) => Tells(s[e.digest], g, n)
    BY <1>1 DEF Tells
  <2> QED BY <1>1, <1>4, <2>1, <2>2, <2>3 DEF AppendLinked
<1> QED BY <1>1, <1>2, <1>3, <1>4

\* Line k is linked to the line before it, under the digest d.
Rehashed(f, g, k, d) ==
    g = [f EXCEPT ![k] = [digest |-> d, intact |-> TRUE,
                          prev |-> IF k = 1 THEN 0 ELSE f[k - 1].digest]]

\* Two records of what the digests of a file were computed behind agree on its lines.
SameKnowledge(f, s, t) == \A i \in 1..Len(f) : t[f[i].digest] = s[f[i].digest]

AllLinked(f, s) == \A i \in DOMAIN f : EntryLinked(f, i, s[f[i].digest])

\* An entry that is altered and hashed anew is linked to the line before it and knows what
\* stands there; the lines after it, and the entry on its way, are linked to a digest that is
\* gone, and no chain reaches them until they are hashed anew as well.
LEMMA RewriteKeepsLinks ==
  ASSUME NEW f \in Seq(Entry), NEW k \in 1..Len(f), NEW d \in Nat,
         NEW g \in Seq(Entry), Rehashed(f, g, k, d), \A i \in 1..Len(f) : f[i].digest < d,
         NEW s, NEW t, SameKnowledge(f, s, t), t[d] = SubSeq(DigestsOf(f), 1, k - 1),
         Distinct(f), AllLinked(f, s)
  PROVE  /\ Distinct(g)
         /\ AllLinked(g, t)
         /\ \A e \in Entry : e.digest < d /\ AppendLinked(f, e, s[e.digest])
                                => AppendLinked(g, e, s[e.digest])
<1> DEFINE n == Len(f)
<1>0. /\ \A i \in DOMAIN f : EntryLinked(f, i, s[f[i].digest])
      /\ \A i \in 1..Len(f) : t[f[i].digest] = s[f[i].digest]
  BY DEF AllLinked, SameKnowledge
<1>1. n \in Nat /\ k \in Nat /\ 1 <= k /\ k <= n /\ DOMAIN f = 1..n /\ DOMAIN g = 1..n /\ Len(g) = n
  <2>1. n \in Nat /\ DOMAIN f = 1..n
    BY LenProperties
  <2>2. DOMAIN g = 1..n
    BY <2>1 DEF Rehashed
  <2>3. Len(g) \in Nat /\ DOMAIN g = 1..Len(g)
    BY LenProperties
  <2> QED BY <2>1, <2>2, <2>3
<1>2. /\ \A j \in 1..n : j # k => g[j] = f[j]
      /\ g[k].digest = d /\ g[k].prev = IF k = 1 THEN 0 ELSE f[k - 1].digest
  BY <1>1 DEF Rehashed
<1>3. \A j \in 1..n : /\ f[j].digest \in Nat \ {0} /\ f[j].prev \in Nat
                      /\ f[j].digest < d /\ f[j].prev < f[j].digest
  <2>1. \A x \in Entry : x.prev \in Nat
    BY DEF Entry
  <2>2. \A j \in 1..n : f[j].prev < f[j].digest
    BY <1>0, <1>1 DEF EntryLinked
  <2> QED BY <1>1, <2>1, <2>2, FileEntries
<1>4. \A j \in 1..n : f[j].prev < d /\ f[j].prev # d /\ f[j].digest # d
  BY <1>3
<1>5. /\ g[k].prev \in Nat /\ g[k].prev < d /\ (g[k].prev = 0 => k = 1)
      /\ \A j \in 1..n : f[j].digest = g[k].prev => j = k - 1
  <2>1. CASE k = 1
    BY <1>1, <1>2, <1>3, <2>1
  <2>2. CASE k # 1
    <3>1. k - 1 \in 1..n /\ g[k].prev = f[k - 1].digest
      BY <1>1, <1>2, <2>2
    <3> QED BY <1>1, <1>3, <3>1 DEF Distinct
  <2> QED BY <2>1, <2>2
<1>6. n = Len(f)
  OBVIOUS
<1> HIDE DEF n
<1>7. ASSUME NEW i \in 1..n, k < i PROVE ~Reached(g, i)
  <2> SUFFICES ASSUME Reached(g, i) PROVE FALSE
    OBVIOUS
  <2>1. k + 1 \in 1..i /\ k + 1 \in 1..n /\ k + 1 # k /\ k + 1 # 1 /\ (k + 1) - 1 = k
    BY <1>1, <1>7
  <2>2. g[k + 1].prev = g[k].digest
    BY <2>1 DEF Reached
  <2>3. f[k + 1].prev = d
    BY <1>2, <2>1, <2>2
  <2> QED BY <1>4, <2>1, <2>3
<1>8. Distinct(g)
  <2> SUFFICES ASSUME NEW i \in 1..n, NEW j \in 1..n, g[i].digest = g[j].digest PROVE i = j
    BY <1>1 DEF Distinct
  <2> QED BY <1>1, <1>2, <1>4 DEF Distinct
<1>9. ASSUME NEW i \in 1..n PROVE EntryLinked(g, i, t[g[i].digest])
  <2>1. EntryLinked(f, i, s[f[i].digest])
    BY <1>0, <1>1
  <2>2. \A j \in 1..n : f[j].digest = f[i].prev => j = i - 1
    BY <1>1, <2>1 DEF EntryLinked
  <2>3. ASSUME i # k, NEW j \in 1..n, g[j].digest = f[i].prev PROVE j = i - 1
    BY <1>2, <1>4, <2>2, <2>3
  <2>4. CASE i < k
    <3>1. i # k /\ g[i] = f[i] /\ i \in 1..Len(f) /\ i \in 1..Len(g)
      BY <1>1, <1>2, <1>6, <2>4
    <3>2. \A j \in 1..i : f[j].digest = g[j].digest /\ f[j].prev = g[j].prev
      BY <1>1, <1>2, <2>4
    <3>3. \A j \in 1..Len(g) : g[j].digest = g[i].prev => j \in 1..i
      <4>1. \A j \in 1..n : j = i - 1 => j \in 1..i
        BY <1>1
      <4> QED BY <1>1, <2>3, <3>1, <4>1
    <3>4. EntryLinked(f, i, t[g[i].digest])
      BY <1>0, <2>1, <3>1
    <3> QED BY <3>1, <3>2, <3>3, <3>4, SameEntry
  <2>5. CASE i = k
    <3>1. \A j \in 1..n : g[j].digest = g[k].prev => j = k - 1
      BY <1>1, <1>2, <1>5
    <3>2. Tells(t[d], g, k - 1)
      <4>1. \A j \in 1..(k - 1) : j \in 1..n /\ j # k
        BY <1>1
      <4>2. k \in 1..Len(f)
        OBVIOUS
      <4>3. Len(t[d]) = k - 1 /\ \A j \in 1..(k - 1) : t[d][j] = f[j].digest
        BY <4>2, DigestsBefore
      <4> QED BY <1>2, <4>1, <4>3 DEF Tells
    <3> QED BY <1>1, <1>2, <1>5, <2>5, <3>1, <3>2 DEF EntryLinked
  <2>6. CASE k < i
    <3>0. i # k
      BY <1>1, <2>6
    <3>1. i # k /\ g[i] = f[i]
      BY <1>2, <3>0
    <3>2. f[i].prev < f[i].digest /\ (f[i].prev = 0 => i = 1)
      BY <2>1 DEF EntryLinked
    <3> QED BY <1>1, <1>7, <2>3, <2>6, <3>1, <3>2 DEF EntryLinked
  <2> QED BY <1>1, <2>4, <2>5, <2>6
<1>10. ASSUME NEW e \in Entry, e.digest < d, AppendLinked(f, e, s[e.digest])
       PROVE  AppendLinked(g, e, s[e.digest])
  <2>1. /\ e.digest \in Nat \ {0} /\ e.prev \in Nat /\ e.prev < e.digest
        /\ (e.prev = 0 => n = 0)
        /\ \A j \in 1..n : /\ f[j].digest # e.digest /\ f[j].prev # e.digest
                           /\ f[j].digest = e.prev => j = n
    BY <1>1, <1>6, <1>10 DEF AppendLinked, Entry
  <2>2. e.prev # d /\ e.digest # d
    BY <1>10, <2>1
  <2>3. g[k].prev # e.digest
    <3>1. k # 1 => k - 1 \in 1..n
      BY <1>1
    <3> QED BY <1>2, <2>1, <3>1
  <2>4. \A j \in 1..n : /\ g[j].digest # e.digest /\ g[j].prev # e.digest
                        /\ g[j].digest = e.prev => j = n
    BY <1>2, <2>1, <2>2, <2>3
  <2>5. ~(Reached(g, n) /\ e.prev = LastHash(g))
    <3>1. n \in 1..n /\ n # 0
      BY <1>1
    <3>2. LastHash(g) = g[n].digest
      BY <1>1, <3>1, LastHashFacts
    <3>3. CASE k = n
      BY <1>2, <2>2, <3>2, <3>3
    <3>4. CASE k < n
      BY <1>7, <3>1, <3>4
    <3> QED BY <1>1, <3>3, <3>4
  <2> QED BY <1>1, <2>1, <2>4, <2>5 DEF AppendLinked
<1> QED BY <1>1, <1>8, <1>9, <1>10 DEF AllLinked

\* Whatever happens to the file, every entry stays linked to what its digest was computed
\* behind, or to a line that is gone.
LEMMA TracedInvariant == TypeOK /\ TypeOK' /\ Traced /\ [Next]_vars => Traced'
<1> SUFFICES ASSUME TypeOK, TypeOK', Traced, [Next]_vars PROVE Traced'
  OBVIOUS
<1>1. ASSUME NEW w \in Writers, Compute(w) PROVE Traced'
  BY <1>1, ComputeTraces
<1>2. ASSUME NEW w \in Writers, writing[w] # Idle, writing' = [writing EXCEPT ![w] = Idle],
             UNCHANGED <<file, digests, seen, landed, overlapped>>
      PROVE  Traced'
  <2>1. \A v \in Writers : writing'[v] # Idle => writing'[v] = writing[v]
    BY <1>2 DEF TypeOK
  <2> QED BY <1>2, <2>1 DEF Traced
<1>3. ASSUME NEW w \in Writers, AppendLine(w) PROVE Traced'
  BY <1>2, <1>3, LandTraces DEF AppendLine
<1>4. ASSUME NEW w \in Writers, AppendShort(w) PROVE Traced'
  BY <1>2, <1>4, LandTraces DEF AppendShort
<1>5. ASSUME NEW w \in Writers, Stop(w) PROVE Traced'
  BY <1>2, <1>5 DEF Stop
<1>6. ASSUME file' \in Seq(Entry), UNCHANGED <<writing, digests, seen, landed, overlapped>>,
             \A i \in DOMAIN file' : \E j \in DOMAIN file : file'[i].digest = file[j].digest,
             ~overlapped =>
                /\ Distinct(file')
                /\ \A i \in DOMAIN file' : EntryLinked(file', i, seen[file'[i].digest])
                /\ \A e \in Entry : AppendLinked(file, e, seen[e.digest])
                                       => AppendLinked(file', e, seen[e.digest])
      PROVE  Traced'
  <2>1. \A i \in DOMAIN file' : file'[i].digest <= digests
    BY <1>6 DEF Traced
  <2>2. \A w \in Writers : writing[w] # Idle => writing[w].entry \in Entry
    BY WritingFacts
  <2> QED BY <1>6, <2>1, <2>2 DEF Traced
<1>7. ASSUME NEW k \in DOMAIN file, Edit(k) PROVE Traced'
  <2> DEFINE new == [file[k] EXCEPT !.intact = FALSE]
  <2>1. file \in Seq(Entry) /\ k \in 1..Len(file) /\ DOMAIN file = 1..Len(file) /\ file[k] \in Entry
    BY FileEntries DEF TypeOK
  <2>2. new \in Entry /\ new.digest = file[k].digest /\ new.prev = file[k].prev
    BY <2>1 DEF Entry
  <2>3. file' = [file EXCEPT ![k] = new]
    BY <1>7 DEF Edit
  <2> HIDE DEF new
  <2>4. file' \in Seq(Entry) /\ Len(file') = Len(file)
    BY <2>1, <2>2, <2>3, ExceptSeq
  <2>5. \A i \in 1..Len(file) : file'[i].digest = file[i].digest /\ file'[i].prev = file[i].prev
    BY <2>1, <2>2, <2>3
  <2>6. DOMAIN file' = 1..Len(file)
    BY <2>1, <2>3
  <2>7. ~overlapped => /\ Distinct(file)
                       /\ \A i \in DOMAIN file : EntryLinked(file, i, seen[file[i].digest])
    BY DEF Traced
  <2>8. ~overlapped =>
           /\ Distinct(file')
           /\ \A i \in DOMAIN file' : EntryLinked(file', i, seen[file'[i].digest])
           /\ \A e \in Entry : AppendLinked(file, e, seen[e.digest])
                                  => AppendLinked(file', e, seen[e.digest])
    BY <2>1, <2>4, <2>5, <2>7, EditKeepsLinks
  <2> QED BY <1>6, <1>7, <2>1, <2>4, <2>5, <2>6, <2>8 DEF Edit
<1>8. ASSUME NEW k \in DOMAIN file, Drop(k) PROVE Traced'
  <2>1. file \in Seq(Entry) /\ k \in 1..Len(file) /\ DOMAIN file = 1..Len(file)
    BY LenProperties DEF TypeOK
  <2>2. file' = Cut(file, k)
    BY <1>8 DEF Drop, Cut
  <2>3. file' \in Seq(Entry)
    BY <2>1, <2>2, CutFacts
  <2>4. \A i \in DOMAIN file' : \E j \in DOMAIN file : file'[i].digest = file[j].digest
    <3>1. ASSUME NEW i \in DOMAIN file'
          PROVE  \/ file'[i] = file[i] /\ i \in DOMAIN file
                 \/ file'[i] = file[i + 1] /\ i + 1 \in DOMAIN file
      BY <2>1, <2>2, CutFacts
    <3> QED BY <3>1
  <2>5. ~overlapped => /\ Distinct(file)
                       /\ \A i \in DOMAIN file : EntryLinked(file, i, seen[file[i].digest])
    BY DEF Traced
  <2>6. ~overlapped =>
           /\ Distinct(file')
           /\ \A i \in DOMAIN file' : EntryLinked(file', i, seen[file'[i].digest])
           /\ \A e \in Entry : AppendLinked(file, e, seen[e.digest])
                                  => AppendLinked(file', e, seen[e.digest])
    BY <2>1, <2>2, <2>5, DropKeepsLinks
  <2> QED BY <1>6, <1>8, <2>3, <2>4, <2>6 DEF Drop
<1>9. CASE UNCHANGED vars
  BY <1>9 DEF vars, Traced
<1>10. ASSUME NEW k \in DOMAIN file, Rewrite(k) PROVE Traced'
  <2> DEFINE d == digests + 1
  <2>1. /\ file \in Seq(Entry) /\ k \in 1..Len(file) /\ DOMAIN file = 1..Len(file)
        /\ digests \in Nat /\ d \in Nat
    BY LenProperties DEF TypeOK
  <2>2. /\ digests' = d
        /\ Rehashed(file, file', k, d)
        /\ seen' = Append(seen, SubSeq(DigestsOf(file), 1, k - 1))
        /\ UNCHANGED <<writing, landed, overlapped>>
    BY <1>10 DEF Rewrite, Rehashed
  <2>3. file' \in Seq(Entry)
    BY DEF TypeOK
  <2>4. \A i \in 1..Len(file) : file[i].digest \in 1..digests /\ file[i].digest < d
    BY <2>1, FileEntries DEF Traced
  <2>5. /\ Len(seen') = digests'
        /\ \A x \in 1..digests : seen'[x] = seen[x]
        /\ seen'[d] = SubSeq(DigestsOf(file), 1, k - 1)
    <3>1. SubSeq(DigestsOf(file), 1, k - 1) \in Seq(Nat) /\ Len(seen) = digests
      BY <2>1, DigestsBefore DEF Traced
    <3> QED BY <2>1, <2>2, <3>1, AppendProperties DEF TypeOK
  <2>6. \A i \in DOMAIN file' : file'[i].digest <= digests'
    <3>1. \A i \in DOMAIN file' : (file'[i] = file[i] /\ i \in 1..Len(file)) \/ file'[i].digest = d
      BY <2>1, <2>2 DEF Rehashed
    <3>2. \A i \in 1..Len(file) : file[i].digest <= d
      BY <2>1, <2>4
    <3> QED BY <2>1, <2>2, <3>1, <3>2
  <2>7. ASSUME NEW w \in Writers, writing[w] # Idle
        PROVE  /\ writing[w].entry \in Entry /\ writing[w].entry.digest \in 1..digests
               /\ writing[w].entry.digest < d /\ writing[w].base <= landed
    <3>1. writing[w].entry \in Entry
      BY <2>7, WritingFacts
    <3>2. writing[w].entry.digest <= digests /\ writing[w].base <= landed
      BY <2>7 DEF Traced
    <3> QED BY <2>1, <3>1, <3>2 DEF Entry
  <2>8. ~overlapped =>
           /\ Distinct(file)
           /\ \A i \in DOMAIN file : EntryLinked(file, i, seen[file[i].digest])
    BY DEF Traced
  <2>9. \A i \in 1..Len(file) : seen'[file[i].digest] = seen[file[i].digest]
    BY <2>4, <2>5
  <2> HIDE DEF d
  <2>10. ~overlapped =>
           /\ Distinct(file')
           /\ \A i \in DOMAIN file' : EntryLinked(file', i, seen'[file'[i].digest])
           /\ \A e \in Entry : e.digest < d /\ AppendLinked(file, e, seen[e.digest])
                                  => AppendLinked(file', e, seen[e.digest])
    <3> SUFFICES ASSUME ~overlapped
                 PROVE  /\ Distinct(file')
                        /\ \A i \in DOMAIN file' : EntryLinked(file', i, seen'[file'[i].digest])
                        /\ \A e \in Entry : e.digest < d /\ AppendLinked(file, e, seen[e.digest])
                                               => AppendLinked(file', e, seen[e.digest])
      OBVIOUS
    <3>1. Distinct(file) /\ AllLinked(file, seen) /\ SameKnowledge(file, seen, seen')
      BY <2>8, <2>9 DEF AllLinked, SameKnowledge
    <3>2. \A i \in 1..Len(file) : file[i].digest < d
      BY <2>4
    <3>3. Rehashed(file, file', k, d) /\ seen'[d] = SubSeq(DigestsOf(file), 1, k - 1)
      BY <2>2, <2>5
    <3>4. file \in Seq(Entry) /\ file' \in Seq(Entry) /\ k \in 1..Len(file) /\ d \in Nat
      BY <2>1, <2>3
    <3>5. /\ Distinct(file')
          /\ AllLinked(file', seen')
          /\ \A e \in Entry : e.digest < d /\ AppendLinked(file, e, seen[e.digest])
                                 => AppendLinked(file', e, seen[e.digest])
      BY <3>1, <3>2, <3>3, <3>4, RewriteKeepsLinks
    <3> QED BY <3>5 DEF AllLinked
  <2>11. ASSUME ~overlapped, NEW w \in Writers, writing[w] # Idle, writing[w].base = landed
         PROVE  AppendLinked(file', writing[w].entry, seen'[writing[w].entry.digest])
    <3>1. AppendLinked(file, writing[w].entry, seen[writing[w].entry.digest])
      BY <2>11 DEF Traced
    <3> QED BY <2>5, <2>7, <2>10, <2>11, <3>1
  <2>12. \A w \in Writers : writing[w] # Idle => writing[w].entry.digest <= digests'
    <3>1. \A x \in 1..digests : x <= d
      BY <2>1 DEF d
    <3> QED BY <2>2, <2>7, <3>1
  <2> QED BY <2>2, <2>5, <2>6, <2>7, <2>10, <2>11, <2>12 DEF Traced
<1> QED BY <1>1, <1>3, <1>4, <1>5, <1>7, <1>8, <1>9, <1>10 DEF Next

\* As long as no records overlap, a digest in a log that verifies answers for the log before
\* it: there stands exactly what it was computed behind, whatever was altered, rehashed or
\* removed, and whenever.
THEOREM VerifiedLogIsHistory == Spec => []VerifiedHistory
<1>1. Init => Traced
  BY DEF Init, Traced, Distinct
<1>2. TypeOK /\ Traced => VerifiedHistory
  <2> SUFFICES ASSUME TypeOK, Traced, VerifyResult = "true", ~overlapped, NEW i \in DOMAIN file
               PROVE  seen[file[i].digest] = SubSeq(DigestsOf(file), 1, i - 1)
    BY DEF VerifiedHistory
  <2> DEFINE s == seen[file[i].digest]
             t == SubSeq(DigestsOf(file), 1, i - 1)
  <2>1. /\ i \in Nat /\ i - 1 \in Nat /\ i \in 1..Len(file) /\ Len(file) \in Nat
        /\ DOMAIN file = 1..Len(file) /\ file[i].digest \in Nat \ {0}
        /\ \A j \in 1..(i - 1) : j \in 1..Len(file)
        /\ \A j \in 1..i : j \in 1..Len(file)
    BY FileEntries DEF TypeOK
  <2>2. Chained(file)
    BY DEF VerifyResult
  <2>3. Reached(file, i)
    BY <2>1, <2>2 DEF Chained, Reached
  <2>4. Tells(s, file, i - 1)
    BY <2>1, <2>3 DEF Traced, EntryLinked
  <2>5. s \in Seq(Nat)
    <3>1. file[i].digest \in 1..Len(seen)
      BY <2>1 DEF Traced, TypeOK
    <3> QED BY <3>1, ElementOfSeq DEF TypeOK
  <2>7. /\ t \in Seq(Nat) /\ Len(t) = i - 1
        /\ \A j \in 1..(i - 1) : t[j] = file[j].digest
    BY <2>1, DigestsBefore DEF TypeOK
  <2> HIDE DEF s, t
  <2>8. Len(s) = Len(t) /\ \A j \in 1..Len(s) : s[j] = t[j]
    BY <2>4, <2>7 DEF Tells
  <2>9. s = t
    BY <2>5, <2>7, <2>8, SeqEqual
  <2> QED BY <2>9 DEF s, t
<1> QED BY <1>1, <1>2, TracedInvariant, AuditTypeCorrect, PTL DEF Spec
================================================================================
