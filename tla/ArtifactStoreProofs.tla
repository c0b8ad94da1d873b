--------------------------- MODULE ArtifactStoreProofs ---------------------------
(***************************************************************************)
(* Theorems about ArtifactStore, for any writers, contents and names.       *)
(***************************************************************************)
EXTENDS ArtifactStore, TLAPS

\* The two updates of a job in place.
SyncedJob(j)   == [j EXCEPT !.step = "synced"]
Accompanied(j) == [j EXCEPT !.alone = FALSE]

\* What the constructors and updates of a writer's job (integrity.py atomic_write_bytes, the
\* temporary file of one target) yield, and what a job holds.
LEMMA JobFacts ==
  /\ Idle \in Job
  /\ \A t \in Targets, d \in Contents, n \in Names, a \in BOOLEAN :
        Filling(t, d, n, a) \in Job /\ Filling(t, d, n, a) # Idle
  /\ \A j \in Job : j # Idle =>
        /\ j.step \in {"filling", "synced"}
        /\ j.target \in Targets /\ j.data \in Contents
        /\ j.temp \in Names /\ j.alone \in BOOLEAN
        /\ SyncedJob(j) \in Job
        /\ Accompanied(j) \in Job
  /\ \A j \in Job : j.step # "idle" => j # Idle
<1>1. Idle \in Job
  BY DEF Job
<1>2. ASSUME NEW t \in Targets, NEW d \in Contents, NEW n \in Names, NEW a \in BOOLEAN
      PROVE  Filling(t, d, n, a) \in Job /\ Filling(t, d, n, a) # Idle
  BY DEF Job, Working, Filling, Idle
<1>3. ASSUME NEW j \in Job, j # Idle
      PROVE  /\ j.step \in {"filling", "synced"}
             /\ j.target \in Targets /\ j.data \in Contents
             /\ j.temp \in Names /\ j.alone \in BOOLEAN
             /\ SyncedJob(j) \in Job
             /\ Accompanied(j) \in Job
  <2>1. j \in Working
    BY <1>3 DEF Job
  <2> QED BY <2>1 DEF Job, Working, SyncedJob, Accompanied
<1>4. \A j \in Job : j.step # "idle" => j # Idle
  BY DEF Idle
<1> QED BY <1>1, <1>2, <1>3, <1>4

\* What the fields of a job keep when one of them changes.
LEMMA FieldFacts ==
  \A j \in Job : j # Idle =>
         /\ SyncedJob(j).step = "synced"
         /\ SyncedJob(j).temp = j.temp
         /\ SyncedJob(j) # Idle
         /\ SyncedJob(j).target = j.target
         /\ SyncedJob(j).data = j.data
         /\ SyncedJob(j).alone = j.alone
         /\ Accompanied(j).step = j.step
         /\ Accompanied(j).temp = j.temp
         /\ Accompanied(j) # Idle
         /\ Accompanied(j).target = j.target
         /\ Accompanied(j).data = j.data
         /\ Accompanied(j).alone = FALSE
<1> TAKE j \in Job
<1> HAVE j # Idle
<1>1. j \in Working
  BY DEF Job
<1> QED BY <1>1 DEF Idle, Working, SyncedJob, Accompanied

\* The effect of starting a write_with_sidecar, spelled out: the new job, and every other
\* writer marked as accompanied.
LEMMA BeginFacts ==
  ASSUME NEW w \in Writers, NEW d \in Contents, Begin(w, d)
  PROVE  /\ \E n \in Unused :
               /\ job'[w] = Filling("artifact", d, n, \A v \in Writers \ {w} : job[v] = Idle)
               /\ temps' = [temps EXCEPT ![n] = Partial]
         /\ DOMAIN job' = Writers /\ job' = [v \in Writers |-> job'[v]]
         /\ \A v \in Writers \ {w} :
               job'[v] = IF job[v] # Idle THEN Accompanied(job[v]) ELSE job[v]
         /\ unsettled' = (unsettled \/ \E v \in Writers \ {w} : job[v] # Idle)
         /\ disk' = disk /\ left' = left
         /\ job[w] = Idle
<1> DEFINE others == {v \in Writers \ {w} : job[v] # Idle}
<1>1. /\ (others = {}) = (\A v \in Writers \ {w} : job[v] = Idle)
      /\ (others # {}) = (\E v \in Writers \ {w} : job[v] # Idle)
      /\ \A v \in Writers \ {w} : v \in others <=> job[v] # Idle
  OBVIOUS
<1>2. PICK n \in Unused :
         /\ temps' = [temps EXCEPT ![n] = Partial]
         /\ job' = [v \in Writers |->
                       IF v = w THEN Filling("artifact", d, n, others = {})
                       ELSE IF v \in others THEN Accompanied(job[v])
                       ELSE job[v]]
  BY DEF Begin, Accompanied
<1> QED BY <1>1, <1>2 DEF Begin

\* What a rename does to the job and the temporary files of its writer.
LEMMA ReplaceFacts ==
  ASSUME TypeOK, NEW w \in Writers, Replace(w)
  PROVE  /\ job[w] \in Job /\ job[w] # Idle /\ job[w].temp \in Names
         /\ job[w].data \in Contents /\ job[w].alone \in BOOLEAN
         /\ job[w].step = "synced" /\ left' = left
         /\ \A v \in Writers \ {w} : job'[v] = job[v]
         /\ \/ /\ job[w].target = "artifact"
               /\ unsettled' = unsettled
               /\ \E n \in Unused \cup {job[w].temp} :
                     /\ job'[w] = Filling("sidecar", job[w].data, n, job[w].alone)
                     /\ temps' = [temps EXCEPT ![job[w].temp] = NoFile, ![n] = Partial]
            \/ /\ job[w].target = "sidecar"
               /\ job'[w] = Idle
               /\ temps' = [temps EXCEPT ![job[w].temp] = NoFile]
               /\ unsettled' = (unsettled /\ ~job[w].alone)
<1>1. job[w] \in Job /\ job[w] # Idle
  BY JobFacts DEF Replace, TypeOK
<1>2. job[w].temp \in Names /\ job[w].data \in Contents /\ job[w].alone \in BOOLEAN
  BY <1>1, JobFacts
<1>3. CASE NextTarget(w)
  BY <1>1, <1>2, <1>3 DEF NextTarget, Replace, TypeOK
<1>4. CASE Finish(w)
  BY <1>1, <1>2, <1>4 DEF Finish, Replace, TypeOK
<1> QED BY <1>3, <1>4 DEF Replace

\* The state stays well typed.
THEOREM ArtifactTypeCorrect == Spec => []TypeOK
<1>1. Init => TypeOK
  BY JobFacts DEF Init, TypeOK, File, Targets
<1>2. TypeOK /\ [Next]_vars => TypeOK'
  <2> SUFFICES ASSUME TypeOK, [Next]_vars PROVE TypeOK'
    OBVIOUS
  <2> USE DEF TypeOK
  <2>a. /\ \A d \in Contents : d \in File
        /\ NoFile \in File /\ Partial \in File /\ Unused \subseteq Names
    BY DEF File, Unused
  <2>1. ASSUME NEW w \in Writers, NEW d \in Contents, Begin(w, d) PROVE TypeOK'
    <3>1. PICK n \in Unused :
             /\ job'[w] = Filling("artifact", d, n, \A v \in Writers \ {w} : job[v] = Idle)
             /\ temps' = [temps EXCEPT ![n] = Partial]
      BY <2>1, BeginFacts
    <3>2. ASSUME NEW v \in Writers PROVE job'[v] \in Job
      <4>1. CASE v = w
        <5>1. (\A u \in Writers \ {w} : job[u] = Idle) \in BOOLEAN
          OBVIOUS
        <5>2. "artifact" \in Targets /\ n \in Names
          BY <2>a DEF Targets
        <5> QED BY <3>1, <4>1, <5>1, <5>2, JobFacts
      <4>2. CASE v # w
        <5>1. job'[v] = IF job[v] # Idle THEN Accompanied(job[v]) ELSE job[v]
          BY <2>1, <4>2, BeginFacts
        <5> QED BY <5>1, JobFacts
      <4> QED BY <4>1, <4>2
    <3>3. job' = [v \in Writers |-> job'[v]]
      BY <2>1, BeginFacts
    <3>4. job' \in [Writers -> Job]
      BY <3>2, <3>3
    <3> QED BY <2>a, <2>1, <3>1, <3>4 DEF Begin
  <2>2. ASSUME NEW w \in Writers, Sync(w) PROVE TypeOK'
    <3>1. job[w] \in Job /\ job[w] # Idle
      BY <2>2, JobFacts DEF Sync
    <3>2. job' = [job EXCEPT ![w] = SyncedJob(job[w])]
      BY <2>2 DEF Sync, SyncedJob
    <3>3. SyncedJob(job[w]) \in Job /\ job[w].data \in Contents
      BY <3>1, JobFacts
    <3> QED BY <2>a, <2>2, <3>2, <3>3 DEF Sync
  <2>3. ASSUME NEW w \in Writers, Replace(w) PROVE TypeOK'
    <3>1. job[w] \in Job /\ job[w] # Idle
      BY <2>3, JobFacts DEF Replace
    <3>2. disk' \in [Targets -> File] /\ left' \subseteq Names
      BY <2>3, <3>1, JobFacts DEF Replace
    <3>3. CASE NextTarget(w)
      <4>1. PICK n \in Unused \cup {job[w].temp} :
               /\ job' = [job EXCEPT ![w] = Filling("sidecar", job[w].data, n, job[w].alone)]
               /\ temps' = [temps EXCEPT ![job[w].temp] = NoFile, ![n] = Partial]
               /\ UNCHANGED unsettled
        BY <3>3 DEF NextTarget
      <4>2. n \in Names
        BY <2>a, <3>1, JobFacts
      <4>3. Filling("sidecar", job[w].data, n, job[w].alone) \in Job
        BY <3>1, <4>2, JobFacts DEF Targets
      <4> QED BY <2>a, <3>2, <4>1, <4>3
    <3>4. CASE Finish(w)
      BY <2>a, <3>2, <3>4, JobFacts DEF Finish
    <3> QED BY <2>3, <3>3, <3>4 DEF Replace
  <2>4. ASSUME NEW w \in Writers, Raise(w) PROVE TypeOK'
    BY <2>a, <2>4, JobFacts DEF Raise
  <2>5. ASSUME NEW w \in Writers, Kill(w) PROVE TypeOK'
    BY <2>5, JobFacts DEF Kill
  <2>6. CASE UNCHANGED vars
    BY <2>6 DEF vars
  <2> QED BY <2>1, <2>2, <2>3, <2>4, <2>5, <2>6 DEF Next
<1> QED BY <1>1, <1>2, PTL DEF Spec

--------------------------------------------------------------------------------
(* Temporary files.  Each step concerns the temporary files of one writer only,  *)
(* so it is enough to know what the step leaves of those.                        *)

Holds(v, n) == job[v] # Idle /\ job[v].temp = n

\* A name is in use exactly when a writer holds it or was killed with it.
NamesInUse == \A n \in Names : temps[n] # NoFile <=> (\E v \in Writers : Holds(v, n)) \/ n \in left

Owned ==
    /\ \A v, w \in Writers : \A n \in Names : Holds(v, n) /\ Holds(w, n) => v = w
    /\ \A w \in Writers : \A n \in Names : Holds(w, n) =>
          n \notin left /\ temps[n] = IF job[w].step = "synced" THEN job[w].data ELSE Partial
    /\ NamesInUse

\* The property, said of one name at a time.
LEMMA AccountedIsOwned == TypeOK => (TemporariesAccounted <=> Owned)
<1> SUFFICES ASSUME TypeOK PROVE TemporariesAccounted <=> Owned
  OBVIOUS
<1>1. \A v \in Writers : job[v] # Idle => job[v].temp \in Names /\ Holds(v, job[v].temp)
  BY JobFacts DEF TypeOK, Holds
<1>2. \A v \in Writers, n \in Names : Holds(v, n) <=> v \in Active /\ job[v].temp = n
  BY DEF Holds, Active
<1>3. \A v \in Active : v \in Writers /\ job[v].temp \in Names
  BY <1>1 DEF Active
<1>4. NamesInUse <=> {n \in Names : temps[n] # NoFile} = {job[w].temp : w \in Active} \cup left
  <2>1. \A n \in Names : n \in {job[w].temp : w \in Active} <=> \E v \in Writers : Holds(v, n)
    BY <1>2, <1>3
  <2>2. {job[w].temp : w \in Active} \cup left \subseteq Names
    BY <1>3 DEF TypeOK
  <2> QED BY <2>1, <2>2 DEF NamesInUse
<1>5. (\A v, w \in Active : job[v].temp = job[w].temp => v = w)
      <=> \A v, w \in Writers : \A n \in Names : Holds(v, n) /\ Holds(w, n) => v = w
  BY <1>2, <1>3
<1>6. (\A w \in Active :
          /\ job[w].temp \notin left
          /\ temps[job[w].temp] = IF job[w].step = "synced" THEN job[w].data ELSE Partial)
      <=> \A w \in Writers : \A n \in Names : Holds(w, n) =>
             n \notin left /\ temps[n] = IF job[w].step = "synced" THEN job[w].data ELSE Partial
  BY <1>2, <1>3
<1> QED BY <1>4, <1>5, <1>6 DEF TemporariesAccounted, Owned

\* The other writers go on with the temporary files they have.
Undisturbed(v) ==
    /\ job'[v] # Idle <=> job[v] # Idle
    /\ job[v] # Idle => /\ job'[v].temp = job[v].temp /\ job'[v].step = job[v].step
                        /\ job'[v].data = job[v].data

\* What a step of writer w has to say of the names it touches: they were its own or nobody's,
\* and after it they are in use if w holds them, or was killed with them.
LEMMA OneWriterStep ==
  ASSUME Owned, NEW w \in Writers, \A v \in Writers \ {w} : Undisturbed(v),
         NEW mine \in SUBSET Names, \A n \in mine : Holds(w, n) \/ temps[n] = NoFile,
         \A n \in Names : Holds(w, n) \/ Holds(w, n)' => n \in mine,
         \A n \in Names \ mine : temps'[n] = temps[n] /\ (n \in left' <=> n \in left),
         \A n \in mine : Holds(w, n)' =>
            /\ n \notin left'
            /\ temps'[n] = IF job'[w].step = "synced" THEN job'[w].data ELSE Partial,
         \A n \in mine : temps'[n] # NoFile <=> Holds(w, n)' \/ n \in left'
  PROVE  Owned'
<1>1. \A v \in Writers \ {w}, n \in Names : Holds(v, n)' <=> Holds(v, n)
  BY DEF Holds, Undisturbed
<1>2. \A v \in Writers \ {w}, n \in Names : Holds(v, n) => n \notin mine
  <2> SUFFICES ASSUME NEW v \in Writers \ {w}, NEW n \in mine, Holds(v, n) PROVE FALSE
    OBVIOUS
  <2>1. temps[n] # NoFile
    BY DEF Owned, NamesInUse
  <2>2. Holds(w, n)
    BY <2>1
  <2> QED BY <2>2 DEF Owned
<1>3. \A u, v \in Writers : \A n \in Names : Holds(u, n)' /\ Holds(v, n)' => u = v
  <2> SUFFICES ASSUME NEW u \in Writers, NEW v \in Writers, NEW n \in Names,
                      Holds(u, n)', Holds(v, n)'
               PROVE  u = v
    OBVIOUS
  <2>1. CASE n \in mine
    BY <1>1, <1>2, <2>1
  <2>2. CASE n \notin mine
    <3>1. u # w /\ v # w
      BY <2>2
    <3> QED BY <1>1, <3>1 DEF Owned
  <2> QED BY <2>1, <2>2
<1>4. ASSUME NEW v \in Writers, NEW n \in Names, Holds(v, n)'
      PROVE  n \notin left' /\ temps'[n] = IF job'[v].step = "synced" THEN job'[v].data ELSE Partial
  <2>1. CASE v = w
    BY <1>4, <2>1
  <2>2. CASE v # w
    <3>1. Holds(v, n) /\ n \in Names \ mine
      BY <1>1, <1>2, <1>4, <2>2
    <3>2. n \notin left /\ temps[n] = IF job[v].step = "synced" THEN job[v].data ELSE Partial
      BY <3>1 DEF Owned
    <3>3. job'[v].step = job[v].step /\ job'[v].data = job[v].data
      BY <2>2, <3>1 DEF Undisturbed, Holds
    <3> QED BY <3>1, <3>2, <3>3
  <2> QED BY <2>1, <2>2
<1>5. ASSUME NEW n \in Names
      PROVE  temps'[n] # NoFile <=> (\E v \in Writers : Holds(v, n)') \/ n \in left'
  <2>1. CASE n \in mine
    <3>1. \A v \in Writers : Holds(v, n)' => v = w
      BY <1>1, <1>2, <2>1
    <3> QED BY <2>1, <3>1
  <2>2. CASE n \notin mine
    <3>1. ~Holds(w, n) /\ ~Holds(w, n)'
      BY <2>2
    <3>2. (\E v \in Writers : Holds(v, n)') <=> (\E v \in Writers : Holds(v, n))
      BY <1>1, <3>1
    <3>3. temps[n] # NoFile <=> (\E v \in Writers : Holds(v, n)) \/ n \in left
      BY DEF Owned, NamesInUse
    <3> QED BY <2>2, <3>2, <3>3
  <2> QED BY <2>1, <2>2
<1> QED BY <1>3, <1>4, <1>5 DEF Owned, NamesInUse

\* Every step of integrity.py atomic_write_bytes, every exception and every kill.
LEMMA OwnedInvariant == TypeOK /\ Owned /\ [Next]_vars => Owned'
<1> SUFFICES ASSUME TypeOK, Owned, [Next]_vars PROVE Owned'
  OBVIOUS
<1>0. /\ \A n \in Unused : n \in Names /\ temps[n] = NoFile
      /\ Partial # NoFile /\ \A d \in Contents : d # NoFile
  BY ContentsAssumption DEF Unused
<1>a. ASSUME NEW n \in Names, temps[n] = NoFile
      PROVE  n \notin left /\ \A v \in Writers : ~Holds(v, n)
  BY <1>a DEF Owned, NamesInUse
<1>b. ASSUME NEW w \in Writers, job[w] # Idle
      PROVE  /\ job[w] \in Job /\ job[w].temp \in Names /\ job[w].data \in Contents
             /\ Holds(w, job[w].temp) /\ job[w].temp \notin left
             /\ \A n \in Names : Holds(w, n) <=> n = job[w].temp
  <2>1. job[w] \in Job
    BY DEF TypeOK
  <2>2. job[w].temp \in Names /\ job[w].data \in Contents
    BY <1>b, <2>1, JobFacts
  <2>3. \A n \in Names : Holds(w, n) <=> n = job[w].temp
    BY <1>b DEF Holds
  <2> QED BY <2>1, <2>2, <2>3 DEF Owned
<1>1. ASSUME NEW w \in Writers, NEW d \in Contents, Begin(w, d) PROVE Owned'
  <2>1. PICK n \in Unused :
           /\ job'[w] = Filling("artifact", d, n, \A v \in Writers \ {w} : job[v] = Idle)
           /\ temps' = [temps EXCEPT ![n] = Partial]
    BY <1>1, BeginFacts
  <2>2. job[w] = Idle /\ left' = left
    BY <1>1, BeginFacts
  <2>3. ASSUME NEW v \in Writers \ {w} PROVE Undisturbed(v)
    <3>1. job'[v] = IF job[v] # Idle THEN Accompanied(job[v]) ELSE job[v]
      BY <1>1, BeginFacts
    <3>2. job[v] \in Job
      BY DEF TypeOK
    <3> QED BY <3>1, <3>2, FieldFacts DEF Undisturbed
  <2>4. n \in Names /\ temps[n] = NoFile /\ n \notin left
    BY <1>0, <1>a
  <2>5. job'[w] # Idle /\ job'[w].temp = n /\ job'[w].step = "filling"
    BY <2>1 DEF Filling, Idle
  <2>6. \A m \in Names : ~Holds(w, m) /\ (Holds(w, m)' <=> m = n)
    BY <2>2, <2>5 DEF Holds
  <2>7. temps'[n] = Partial /\ \A m \in Names \ {n} : temps'[m] = temps[m]
    BY <2>1, <2>4 DEF TypeOK
  <2>8. {n} \in SUBSET Names
    BY <2>4
  <2>9. /\ \A m \in Names \ {n} : temps'[m] = temps[m] /\ (m \in left' <=> m \in left)
        /\ \A m \in {n} : Holds(w, m) \/ temps[m] = NoFile
        /\ \A m \in Names : Holds(w, m) \/ Holds(w, m)' => m \in {n}
        /\ \A m \in {n} : Holds(w, m)' =>
              /\ m \notin left'
              /\ temps'[m] = IF job'[w].step = "synced" THEN job'[w].data ELSE Partial
        /\ \A m \in {n} : temps'[m] # NoFile <=> Holds(w, m)' \/ m \in left'
    BY <1>0, <2>2, <2>4, <2>5, <2>6, <2>7
  <2> QED BY <2>3, <2>8, <2>9, OneWriterStep
<1>2. ASSUME NEW w \in Writers, Sync(w) PROVE Owned'
  <2> DEFINE n == job[w].temp
  <2>1. job[w] # Idle
    BY <1>2, JobFacts DEF Sync, TypeOK
  <2>2. /\ job[w] \in Job /\ n \in Names /\ job[w].data \in Contents /\ n \notin left
        /\ \A m \in Names : Holds(w, m) <=> m = n
    BY <1>b, <2>1
  <2>3. job'[w] = SyncedJob(job[w]) /\ \A v \in Writers \ {w} : job'[v] = job[v]
    BY <1>2 DEF Sync, SyncedJob, TypeOK
  <2>4. /\ job'[w] # Idle /\ job'[w].temp = n /\ job'[w].step = "synced"
        /\ job'[w].data = job[w].data
    BY <2>1, <2>2, <2>3, FieldFacts
  <2>5. temps'[n] = job[w].data /\ (\A m \in Names \ {n} : temps'[m] = temps[m]) /\ left' = left
    BY <1>2, <2>2 DEF Sync, TypeOK
  <2>6. \A v \in Writers \ {w} : Undisturbed(v)
    BY <2>3 DEF Undisturbed
  <2>7. \A m \in Names : Holds(w, m)' <=> m = n
    BY <2>4 DEF Holds
  <2>8. {n} \in SUBSET Names
    BY <2>2
  <2> HIDE DEF n
  <2>9. /\ \A m \in Names \ {n} : temps'[m] = temps[m] /\ (m \in left' <=> m \in left)
        /\ \A m \in {n} : Holds(w, m)
        /\ \A m \in Names : Holds(w, m) \/ Holds(w, m)' => m \in {n}
        /\ \A m \in {n} : Holds(w, m)' =>
              /\ m \notin left'
              /\ temps'[m] = IF job'[w].step = "synced" THEN job'[w].data ELSE Partial
        /\ \A m \in {n} : temps'[m] # NoFile <=> Holds(w, m)' \/ m \in left'
    BY <1>0, <2>2, <2>4, <2>5, <2>7
  <2> QED BY <2>6, <2>8, <2>9, OneWriterStep
<1>3. ASSUME NEW w \in Writers, Replace(w) PROVE Owned'
  <2> DEFINE k == job[w].temp
  <2>1. /\ job[w] # Idle /\ k \in Names /\ left' = left
        /\ \A v \in Writers \ {w} : job'[v] = job[v]
    BY <1>3, ReplaceFacts
  <2>2. k \notin left /\ \A m \in Names : Holds(w, m) <=> m = k
    BY <1>b, <2>1
  <2>3. \A v \in Writers \ {w} : Undisturbed(v)
    BY <2>1 DEF Undisturbed
  <2>4. CASE job[w].target = "artifact"
    <3>1. PICK n \in Unused \cup {k} :
             /\ job'[w] = Filling("sidecar", job[w].data, n, job[w].alone)
             /\ temps' = [temps EXCEPT ![k] = NoFile, ![n] = Partial]
      BY <1>3, <2>4, ReplaceFacts
    <3> HIDE DEF k
    <3>2. n \in Names /\ n \notin left /\ (n = k \/ temps[n] = NoFile)
      BY <1>0, <1>a, <2>1, <2>2
    <3>3. job'[w] # Idle /\ job'[w].temp = n /\ job'[w].step = "filling"
      BY <3>1 DEF Filling, Idle
    <3>4. \A m \in Names : Holds(w, m)' <=> m = n
      BY <3>3 DEF Holds
    <3>5. /\ temps'[n] = Partial /\ (k # n => temps'[k] = NoFile)
          /\ \A m \in Names \ {k, n} : temps'[m] = temps[m]
      BY <2>1, <3>1, <3>2 DEF TypeOK
    <3>6. {k, n} \in SUBSET Names
      BY <2>1, <3>2
    <3>7. \A m \in {k, n} : temps'[m] # NoFile <=> Holds(w, m)' \/ m \in left'
      BY <1>0, <2>1, <2>2, <3>2, <3>4, <3>5
    <3> QED BY <2>1, <2>2, <2>3, <3>2, <3>3, <3>4, <3>5, <3>6, <3>7, OneWriterStep
  <2>5. CASE job[w].target = "sidecar"
    <3>1. job'[w] = Idle /\ temps' = [temps EXCEPT ![k] = NoFile]
      BY <1>3, <2>5, ReplaceFacts
    <3> HIDE DEF k
    <3>2. \A m \in Names : ~Holds(w, m)'
      BY <3>1 DEF Holds
    <3>3. temps'[k] = NoFile /\ \A m \in Names \ {k} : temps'[m] = temps[m]
      BY <2>1, <3>1 DEF TypeOK
    <3>4. {k} \in SUBSET Names
      BY <2>1
    <3> QED BY <2>1, <2>2, <2>3, <3>2, <3>3, <3>4, OneWriterStep
  <2> QED BY <1>3, <2>4, <2>5, ReplaceFacts
<1>4. ASSUME NEW w \in Writers, Raise(w) PROVE Owned'
  <2> DEFINE k == job[w].temp
  <2>1. job[w] # Idle
    BY <1>4 DEF Raise
  <2>2. k \in Names /\ k \notin left /\ \A m \in Names : Holds(w, m) <=> m = k
    BY <1>b, <2>1
  <2>3. /\ job'[w] = Idle /\ left' = left /\ temps'[k] = NoFile
        /\ \A v \in Writers \ {w} : job'[v] = job[v]
        /\ \A m \in Names \ {k} : temps'[m] = temps[m]
    BY <1>4, <2>2 DEF Raise, TypeOK
  <2>4. \A v \in Writers \ {w} : Undisturbed(v)
    BY <2>3 DEF Undisturbed
  <2>5. \A m \in Names : ~Holds(w, m)'
    BY <2>3 DEF Holds
  <2>6. {k} \in SUBSET Names
    BY <2>2
  <2> HIDE DEF k
  <2> QED BY <2>2, <2>3, <2>4, <2>5, <2>6, OneWriterStep
<1>5. ASSUME NEW w \in Writers, Kill(w) PROVE Owned'
  <2> DEFINE k == job[w].temp
  <2>1. job[w] # Idle
    BY <1>5 DEF Kill
  <2>2. k \in Names /\ Holds(w, k) /\ \A m \in Names : Holds(w, m) <=> m = k
    BY <1>b, <2>1
  <2>3. /\ job'[w] = Idle /\ left' = left \cup {k} /\ temps' = temps
        /\ \A v \in Writers \ {w} : job'[v] = job[v]
    BY <1>5, <2>2 DEF Kill, TypeOK
  <2>4. \A v \in Writers \ {w} : Undisturbed(v)
    BY <2>3 DEF Undisturbed
  <2>5. \A m \in Names : ~Holds(w, m)'
    BY <2>3 DEF Holds
  <2>6. {k} \in SUBSET Names
    BY <2>2
  <2>7. temps[k] # NoFile
    BY <2>2 DEF Owned, NamesInUse
  <2> HIDE DEF k
  <2> QED BY <2>2, <2>3, <2>4, <2>5, <2>6, <2>7, OneWriterStep
<1>6. CASE UNCHANGED vars
  BY <1>6 DEF vars, Owned, NamesInUse, Holds
<1> QED BY <1>1, <1>2, <1>3, <1>4, <1>5, <1>6 DEF Next

\* However many writers share the path, none touches another's temporary file or one that a
\* killed writer left, and the directory holds no others than theirs.
THEOREM TemporariesAreAccounted == Spec => []TemporariesAccounted
<1>1. Init => Owned
  BY DEF Init, Owned, NamesInUse, Holds
<1> QED BY <1>1, OwnedInvariant, AccountedIsOwned, ArtifactTypeCorrect, PTL DEF Spec

\* What is renamed is a writer's own file, whole.
LEMMA RenamesOwnData ==
  ASSUME TypeOK, Owned, NEW w \in Writers, Replace(w)
  PROVE  disk' = [disk EXCEPT ![job[w].target] = job[w].data] /\ job[w].data \in Contents
<1>1. /\ job[w] # Idle /\ job[w].temp \in Names /\ job[w].data \in Contents
      /\ job[w].step = "synced"
  BY ReplaceFacts
<1>2. temps[job[w].temp] = job[w].data
  BY <1>1 DEF Owned, Holds
<1> QED BY <1>1, <1>2 DEF Replace

\* A crash or a failure never leaves a half-written file, however many processes
\* write the path: what they rename is their own.
THEOREM ArtifactsAreWhole == Spec => []NeverHalfWritten
<1>1. Init => Owned /\ NeverHalfWritten
  BY ContentsAssumption DEF Init, Owned, NamesInUse, Holds, NeverHalfWritten
<1>2. TypeOK /\ Owned /\ NeverHalfWritten /\ [Next]_vars => NeverHalfWritten'
  <2> SUFFICES ASSUME TypeOK, Owned, NeverHalfWritten, [Next]_vars PROVE NeverHalfWritten'
    OBVIOUS
  <2>1. ASSUME NEW w \in Writers, Replace(w) PROVE NeverHalfWritten'
    <3>1. disk' = [disk EXCEPT ![job[w].target] = job[w].data] /\ job[w].data # Partial
      BY <2>1, RenamesOwnData, ContentsAssumption
    <3> QED BY <3>1 DEF NeverHalfWritten, TypeOK
  <2>2. CASE disk' = disk
    BY <2>2 DEF NeverHalfWritten
  <2> QED BY <2>1, <2>2 DEF Next, vars, Begin, Sync, Raise, Kill
<1> QED BY <1>1, <1>2, OwnedInvariant, ArtifactTypeCorrect, PTL DEF Spec

\* Between its renames a write that nothing has disturbed finds the artifact it has
\* renamed itself, and what two active writes do to each other stays marked.
Settled ==
    /\ Owned
    /\ FailsOnlyUnsettled
    /\ \A v, w \in Writers : job[v] # Idle /\ job[w] # Idle /\ v # w =>
          unsettled /\ ~job[v].alone
    /\ \A w \in Writers : Between(w) /\ (~unsettled \/ job[w].alone) =>
          disk["artifact"] = job[w].data

\* However many writers there are, an artifact without a matching sidecar is being
\* written right now, or comes from writes that overlapped or stopped between their
\* renames; a write that runs alone to its end always heals it.
THEOREM MismatchesAreExplained == Spec => []FailsOnlyUnsettled
<1>1. Init => Settled
  BY ContentsAssumption
  DEF Init, Settled, Owned, NamesInUse, Holds, FailsOnlyUnsettled, Between, Idle, Targets
<1>2. TypeOK /\ Settled /\ [Next]_vars => Settled'
  <2> SUFFICES ASSUME TypeOK, Settled, [Next]_vars PROVE Settled'
    OBVIOUS
  <2>1. Owned'
    BY OwnedInvariant DEF Settled
  <2> USE DEF TypeOK
  <2>2. ASSUME NEW w \in Writers, NEW d \in Contents, Begin(w, d) PROVE Settled'
    <3>0. /\ \E n \in Unused :
                job'[w] = Filling("artifact", d, n, \A v \in Writers \ {w} : job[v] = Idle)
          /\ \A v \in Writers \ {w} :
                job'[v] = IF job[v] # Idle THEN Accompanied(job[v]) ELSE job[v]
          /\ unsettled' = (unsettled \/ \E v \in Writers \ {w} : job[v] # Idle)
          /\ disk' = disk
          /\ job[w] = Idle
      BY <2>2, BeginFacts
    <3>1. job'[w] # Idle /\ ~Between(w)'
      BY <3>0 DEF Between, Filling, Idle
    <3>2. ASSUME NEW v \in Writers \ {w}
          PROVE  /\ job'[v] # Idle <=> job[v] # Idle
                 /\ Between(v)' <=> Between(v)
                 /\ job[v] # Idle => job'[v].data = job[v].data /\ ~job'[v].alone
      <4>1. CASE job[v] # Idle
        <5>1. job[v] \in Job
          OBVIOUS
        <5>2. /\ job'[v] # Idle /\ job'[v].target = job[v].target
              /\ job'[v].data = job[v].data /\ ~job'[v].alone
          BY <3>0, <4>1, <5>1, FieldFacts
        <5> QED BY <4>1, <5>2 DEF Between
      <4>2. CASE job[v] = Idle
        BY <3>0, <4>2 DEF Between
      <4> QED BY <4>1, <4>2
    <3>3. job'[w].alone = (\A v \in Writers \ {w} : job[v] = Idle)
      BY <3>0 DEF Filling
    <3>4. FailsOnlyUnsettled'
      <4>1. \A v \in Writers : Between(v) => Between(v)'
        BY <3>0, <3>2 DEF Between
      <4>2. Verifies' <=> Verifies
        BY <3>0 DEF Verifies
      <4> QED BY <3>0, <4>1, <4>2 DEF Settled, FailsOnlyUnsettled
    <3>5. \A u, v \in Writers : job'[u] # Idle /\ job'[v] # Idle /\ u # v =>
            unsettled' /\ ~job'[u].alone
      BY <3>0, <3>1, <3>2, <3>3 DEF Settled
    <3>6. \A v \in Writers : Between(v)' /\ (~unsettled' \/ job'[v].alone) =>
            disk'["artifact"] = job'[v].data
      <4> SUFFICES ASSUME NEW v \in Writers, Between(v)', ~unsettled' \/ job'[v].alone
                   PROVE  disk'["artifact"] = job'[v].data
        OBVIOUS
      <4>1. v # w /\ Between(v) /\ job[v] # Idle
        BY <3>1, <3>2 DEF Between
      <4>2. unsettled' /\ ~job'[v].alone
        BY <3>0, <3>2, <4>1
      <4> QED BY <4>2
    <3> QED BY <2>1, <3>4, <3>5, <3>6 DEF Settled
  <2>3. ASSUME NEW w \in Writers, Sync(w) PROVE Settled'
    <3>1. job[w] # Idle /\ job[w] \in Job
      BY <2>3, JobFacts DEF Sync
    <3>2. job'[w] = SyncedJob(job[w])
      BY <2>3 DEF Sync, SyncedJob
    <3>3. /\ job'[w].target = job[w].target /\ job'[w].data = job[w].data
          /\ job'[w].alone = job[w].alone /\ job'[w] # Idle
      BY <3>1, <3>2, FieldFacts
    <3>4. \A v \in Writers : v # w => job'[v] = job[v]
      BY <2>3 DEF Sync
    <3>5. \A v \in Writers : Between(v)' <=> Between(v)
      BY <3>1, <3>3, <3>4 DEF Between
    <3>6. disk' = disk /\ unsettled' = unsettled
      BY <2>3 DEF Sync
    <3>7. FailsOnlyUnsettled'
      BY <3>5, <3>6 DEF Settled, FailsOnlyUnsettled, Verifies
    <3> QED BY <2>1, <3>1, <3>3, <3>4, <3>5, <3>6, <3>7 DEF Settled
  <2>4. ASSUME NEW w \in Writers, Replace(w) PROVE Settled'
    <3>1. job[w] \in Job /\ job[w] # Idle /\ job[w].target \in Targets
          /\ job[w].alone \in BOOLEAN
      BY <2>4, ReplaceFacts, JobFacts
    <3>2. disk' = [disk EXCEPT ![job[w].target] = job[w].data] /\ job[w].data \in Contents
      BY <2>4, RenamesOwnData DEF Settled
    <3>a. \A v \in Writers : v # w => job'[v] = job[v]
      BY <2>4, ReplaceFacts
    <3>3. CASE job[w].target = "artifact"
      <4>1. /\ \E n \in Unused \cup {job[w].temp} :
                  job'[w] = Filling("sidecar", job[w].data, n, job[w].alone)
            /\ disk'["artifact"] = job[w].data
            /\ unsettled' = unsettled
        BY <2>4, <3>2, <3>3, ReplaceFacts DEF Targets
      <4>2. /\ Between(w)' /\ job'[w].data = job[w].data
            /\ job'[w].alone = job[w].alone /\ job'[w] # Idle
        BY <4>1 DEF Between, Filling, Idle
      <4>3. \A v \in Writers : v # w /\ Between(v)' => unsettled /\ ~job[v].alone
        BY <3>1, <3>a DEF Settled, Between
      <4>4. \A v \in Writers : Between(v)' /\ (~unsettled' \/ job'[v].alone) =>
              disk'["artifact"] = job'[v].data
        BY <3>a, <4>1, <4>2, <4>3
      <4>5. \A u, v \in Writers : job'[u] # Idle /\ job'[v] # Idle /\ u # v =>
              unsettled' /\ ~job'[u].alone
        BY <3>1, <3>a, <4>1, <4>2 DEF Settled
      <4>6. FailsOnlyUnsettled'
        BY <4>2 DEF FailsOnlyUnsettled
      <4> QED BY <2>1, <4>4, <4>5, <4>6 DEF Settled
    <3>4. CASE job[w].target = "sidecar"
      <4>1. /\ job'[w] = Idle /\ disk'["sidecar"] = job[w].data
            /\ disk'["artifact"] = disk["artifact"]
            /\ unsettled' = (unsettled /\ ~job[w].alone)
        BY <2>4, <3>2, <3>4, ReplaceFacts DEF Targets
      <4>2. Between(w)
        BY <3>1, <3>4 DEF Between
      <4>3. ~unsettled' => Verifies'
        <5> SUFFICES ASSUME ~unsettled' PROVE Verifies'
          OBVIOUS
        <5>1. disk["artifact"] = job[w].data
          BY <4>1, <4>2 DEF Settled
        <5> QED BY <3>2, <4>1, <5>1, ContentsAssumption DEF Verifies
      <4>4. \A u, v \in Writers : job'[u] # Idle /\ job'[v] # Idle /\ u # v =>
              unsettled' /\ ~job'[u].alone
        BY <3>1, <3>a, <4>1 DEF Settled
      <4>5. \A v \in Writers : Between(v)' => v # w /\ Between(v) /\ job'[v] = job[v]
        BY <3>a, <4>1 DEF Between
      <4>6. \A v \in Writers : Between(v)' => ~job[w].alone /\ unsettled /\ ~job[v].alone
        BY <3>1, <4>5 DEF Settled, Between
      <4>7. \A v \in Writers : Between(v)' /\ (~unsettled' \/ job'[v].alone) =>
              disk'["artifact"] = job'[v].data
        BY <4>1, <4>5, <4>6
      <4>8. FailsOnlyUnsettled'
        BY <4>3 DEF FailsOnlyUnsettled
      <4> QED BY <2>1, <4>4, <4>7, <4>8 DEF Settled
    <3> QED BY <3>1, <3>3, <3>4 DEF Targets
  <2>5. ASSUME NEW w \in Writers, Raise(w) \/ Kill(w) PROVE Settled'
    <3>1. /\ job'[w] = Idle /\ disk' = disk
          /\ \A v \in Writers : v # w => job'[v] = job[v]
          /\ unsettled' = (unsettled \/ job[w].target = "sidecar")
          /\ job[w] # Idle
      BY <2>5 DEF Raise, Kill
    <3>2. FailsOnlyUnsettled'
      <4>1. Verifies' <=> Verifies
        BY <3>1 DEF Verifies
      <4>2. \A v \in Writers : Between(v) => Between(v)' \/ unsettled'
        BY <3>1 DEF Between
      <4> QED BY <3>1, <4>1, <4>2 DEF Settled, FailsOnlyUnsettled
    <3>3. \A u, v \in Writers : job'[u] # Idle /\ job'[v] # Idle /\ u # v =>
            unsettled' /\ ~job'[u].alone
      BY <3>1 DEF Settled
    <3>4. \A v \in Writers : Between(v)' /\ (~unsettled' \/ job'[v].alone) =>
            disk'["artifact"] = job'[v].data
      <4>1. \A v \in Writers : Between(v)' => v # w /\ Between(v) /\ job'[v] = job[v]
        BY <3>1 DEF Between
      <4>2. ~unsettled' => ~unsettled
        BY <3>1
      <4> QED BY <3>1, <4>1, <4>2 DEF Settled
    <3> QED BY <2>1, <3>2, <3>3, <3>4 DEF Settled
  <2>6. CASE UNCHANGED vars
    BY <2>1, <2>6 DEF vars, Settled, FailsOnlyUnsettled, Verifies, Between
  <2> QED BY <2>2, <2>3, <2>4, <2>5, <2>6 DEF Next
<1>3. Settled => FailsOnlyUnsettled
  BY DEF Settled
<1> QED BY <1>1, <1>2, <1>3, ArtifactTypeCorrect, PTL DEF Spec

================================================================================
