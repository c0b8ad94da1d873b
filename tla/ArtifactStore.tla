------------------------------ MODULE ArtifactStore ------------------------------
(***************************************************************************)
(* Writing one artifact and its .sha256 sidecar: write_with_sidecar of      *)
(* src/utils/integrity.py, called by one or more writers on one path.  (The *)
(* pipeline names an artifact after its signal and its dates, so a rerun    *)
(* writes the same path again.)                                             *)
(*                                                                          *)
(* Each of the two files goes through atomic_write_bytes: a temporary file  *)
(* is created beside its target under a name that is not in use, filled,    *)
(* synced and then renamed over the target.  Any of these may raise, which  *)
(* unlinks the temporary file; the process may also be killed, which        *)
(* unlinks nothing.  A digest is identified with the content it is the      *)
(* digest of.                                                               *)
(***************************************************************************)
EXTENDS Naturals, FiniteSets

CONSTANTS Writers,      \* calls of write_with_sidecar that may run at a time
          Contents,     \* what they write
          Names,        \* the names that mkstemp draws from
          MaxKills,     \* bound: how many writers are killed
          NoFile,       \* there is no file
          Partial       \* a file that is not all there

ASSUME ContentsAssumption == NoFile # Partial /\ {NoFile, Partial} \cap Contents = {}

VARIABLES disk,         \* the artifact and the sidecar: [Targets -> File]
          temps,        \* the temporary files beside them: [Names -> File]
          job,          \* each writer's progress
          left,         \* history: the names of the temporary files of killed writers
          unsettled     \* history: writes have overlapped, or one has stopped between
                        \* its renames, and none has run alone to its end since

vars == <<disk, temps, job, left, unsettled>>

Targets == {"artifact", "sidecar"}
File    == Contents \cup {NoFile, Partial}

Idle    == [step |-> "idle"]
Working == [step : {"filling", "synced"}, target : Targets, data : Contents,
            temp : Names, alone : BOOLEAN]
Job     == {Idle} \cup Working

\* Faulty variant: the temporary file has a fixed name.
FixedName == {CHOOSE n \in Names : TRUE}

\* The names that mkstemp may give to a new file.
Unused == {n \in Names : temps[n] = NoFile}

Filling(t, d, n, a) ==
    [step |-> "filling", target |-> t, data |-> d, temp |-> n, alone |-> a]

Init ==
    /\ disk = [t \in Targets |-> NoFile]
    /\ temps = [n \in Names |-> NoFile]
    /\ job = [w \in Writers |-> Idle]
    /\ left = {}
    /\ unsettled = FALSE

\* write_with_sidecar(path, d) up to the mkstemp for the artifact.  The others, if
\* any, are no longer alone either.
Begin(w, d) ==
    LET others == {v \in Writers \ {w} : job[v] # Idle} IN
    /\ job[w] = Idle
    /\ \E n \in Unused :
          /\ temps' = [temps EXCEPT ![n] = Partial]
          /\ job' = [v \in Writers |->
                        IF v = w THEN Filling("artifact", d, n, others = {})
                        ELSE IF v \in others THEN [job[v] EXCEPT !.alone = FALSE]
                        ELSE job[v]]
    /\ unsettled' = (unsettled \/ others # {})
    /\ UNCHANGED <<disk, left>>

\* write, flush, fsync.
Sync(w) ==
    /\ job[w].step = "filling"
    /\ job' = [job EXCEPT ![w].step = "synced"]
    /\ temps' = [temps EXCEPT ![job[w].temp] = job[w].data]
    /\ UNCHANGED <<disk, left, unsettled>>

\* With the artifact in place the sidecar is next, from its mkstemp on.
NextTarget(w) ==
    \E n \in Unused \cup {job[w].temp} :
        /\ job[w].target = "artifact"
        /\ job' = [job EXCEPT ![w] = Filling("sidecar", job[w].data, n, job[w].alone)]
        /\ temps' = [temps EXCEPT ![job[w].temp] = NoFile, ![n] = Partial]
        /\ UNCHANGED unsettled

Finish(w) ==
    /\ job[w].target = "sidecar"
    /\ job' = [job EXCEPT ![w] = Idle]
    /\ temps' = [temps EXCEPT ![job[w].temp] = NoFile]
    /\ unsettled' = (unsettled /\ ~job[w].alone)

\* Faulty variant: the rename does not wait for the data.
ReplaceEarly(w) ==
    /\ job[w].step \in {"filling", "synced"}
    /\ disk' = [disk EXCEPT ![job[w].target] = temps[job[w].temp]]
    /\ NextTarget(w) \/ Finish(w)
    /\ UNCHANGED left

\* Faulty variant: only a missing sidecar is written.
ReplaceOnce(w) ==
    /\ job[w].step = "synced"
    /\ disk' = [disk EXCEPT ![job[w].target] =
                   IF job[w].target = "sidecar" /\ @ # NoFile THEN @ ELSE temps[job[w].temp]]
    /\ NextTarget(w) \/ Finish(w)
    /\ UNCHANGED left

\* The rename, which takes the temporary file away.
Replace(w) ==
    /\ job[w].step = "synced"
    /\ temps[job[w].temp] # NoFile
    /\ disk' = [disk EXCEPT ![job[w].target] = temps[job[w].temp]]
    /\ NextTarget(w) \/ Finish(w)
    /\ UNCHANGED left

\* A write, a sync or a rename raises, and the temporary file is unlinked.
Raise(w) ==
    /\ job[w] # Idle
    /\ job' = [job EXCEPT ![w] = Idle]
    /\ temps' = [temps EXCEPT ![job[w].temp] = NoFile]
    /\ unsettled' = (unsettled \/ job[w].target = "sidecar")
    /\ UNCHANGED <<disk, left>>

\* The process is killed, or the machine stops.
Kill(w) ==
    /\ job[w] # Idle
    /\ Cardinality(left) < MaxKills
    /\ job' = [job EXCEPT ![w] = Idle]
    /\ unsettled' = (unsettled \/ job[w].target = "sidecar")
    /\ left' = left \cup {job[w].temp}
    /\ UNCHANGED <<disk, temps>>

Next == \E w \in Writers :
           \/ \E d \in Contents : Begin(w, d)
           \/ Sync(w) \/ Replace(w) \/ Raise(w) \/ Kill(w)

Spec == Init /\ [][Next]_vars

\* verify_sidecar(): both files are there and the digests agree.
Verifies ==
    /\ disk["artifact"] # NoFile
    /\ disk["sidecar"] # NoFile
    /\ disk["sidecar"] = disk["artifact"]

Active == {w \in Writers : job[w] # Idle}

Between(w) == job[w] # Idle /\ job[w].target = "sidecar"

--------------------------------------------------------------------------------
(* Properties                                                                   *)

\* The files and the writes in progress are well formed (atomic_write_bytes).
TypeOK ==
    /\ disk \in [Targets -> File]
    /\ temps \in [Names -> File]
    /\ job \in [Writers -> Job]
    /\ left \subseteq Names
    /\ unsettled \in BOOLEAN

\* Whatever fails or is killed, neither file is ever half-written.
NeverHalfWritten == \A t \in Targets : disk[t] # Partial

\* An artifact fails its check only while it is being written, or after writes that
\* overlapped or one that stopped between its two renames; the next write that runs
\* alone to its end heals it.
FailsOnlyUnsettled ==
    \/ Verifies
    \/ disk["artifact"] = NoFile
    \/ unsettled
    \/ \E w \in Writers : Between(w)

\* Writers of one path never share a temporary file or write into one that a killed writer
\* has left, and the directory holds no others than theirs: a write that ends, well or with
\* an exception, leaves none behind.
TemporariesAccounted ==
    /\ \A v, w \in Active : job[v].temp = job[w].temp => v = w
    /\ \A w \in Active :
          /\ job[w].temp \notin left
          /\ temps[job[w].temp] = IF job[w].step = "synced" THEN job[w].data ELSE Partial
    /\ {n \in Names : temps[n] # NoFile} = {job[w].temp : w \in Active} \cup left

================================================================================
