-------------------------- MODULE HlsFetcherProofs --------------------------
(***************************************************************************)
(* Proofs about HlsFetcher, for any number of segments, workers, retries   *)
(* and staging folders and whatever the environment may do.                *)
(***************************************************************************)
EXTENDS HlsFetcher, CountingLemmas

USE SegmentsAssumption, WorkersAssumption, RetriesAssumption, SidAssumption

-----------------------------------------------------------------------------
(* Sizes.                                                                  *)

\* The segments are finitely many, and so are those of a part.
LEMMA SegFinite == IsFiniteSet(Seg) /\ Cardinality(Seg) = Segments
  BY FS_Interval DEF Seg

LEMMA PartOfSeg ==
  ASSUME NEW S \in SUBSET Seg
  PROVE  IsFiniteSet(S) /\ Cardinality(S) \in Nat /\ Cardinality(S) <= Segments
  BY SegFinite, FS_Subset, FS_CardinalityType

LEMMA RestOfSeg ==
  ASSUME NEW S \in SUBSET Seg
  PROVE  Cardinality(Seg \ S) = Segments - Cardinality(S)
<1>1. Seg \cap S = S
  OBVIOUS
<1>2. Cardinality(Seg \ S) = Cardinality(Seg) - Cardinality(Seg \cap S)
  BY SegFinite, FS_Difference
<1> QED BY <1>1, <1>2, SegFinite

\* A set of segments is larger than a part of it that lacks one of its segments.
LEMMA Grows ==
  ASSUME NEW S, S \subseteq Seg, NEW P, P \subseteq S
  PROVE  /\ Cardinality(P) <= Cardinality(S)
         /\ \A s \in S \ P : Cardinality(P) + 1 <= Cardinality(S)
<1>1. IsFiniteSet(S) /\ IsFiniteSet(P) /\ Cardinality(S) \in Nat /\ Cardinality(P) \in Nat
  <2>1. P \subseteq Seg
    OBVIOUS
  <2>2. IsFiniteSet(S) /\ Cardinality(S) \in Nat
    BY PartOfSeg
  <2>3. IsFiniteSet(P) /\ Cardinality(P) \in Nat
    BY <2>1, PartOfSeg
  <2> QED BY <2>2, <2>3
<1>2. Cardinality(P) <= Cardinality(S)
  BY <1>1, FS_Subset
<1>3. ASSUME NEW s \in S \ P
      PROVE  Cardinality(P) + 1 <= Cardinality(S)
  <2>1. Cardinality(P \cup {s}) = Cardinality(P) + 1
    BY <1>1, FS_AddElement
  <2>2. Cardinality(P \cup {s}) <= Cardinality(S)
    BY <1>1, FS_Subset
  <2> QED BY <2>1, <2>2
<1> QED BY <1>2, <1>3

\* Counters never exceed the number of segments, and are below it while somebody works.
LEMMA CountsBounded ==
  ASSUME TypeOK, WorkIsDealt, CountsAddUp
  PROVE  /\ run.base + run.count + run.fails <= Segments
         /\ \A w \in Worker : Busy(w) => run.base + run.count + run.fails + 1 <= Segments
<1>1. /\ run.base \in Nat /\ run.count \in Nat /\ run.fails \in Nat
      /\ run.pending \subseteq Seg
  BY DEF TypeOK, Run
<1>2. Due \subseteq Seg
  BY <1>1 DEF Due, WorkIsDealt
<1>3. Cardinality(Seg \ Due) \in Nat /\ Cardinality(Seg \ Due) <= Segments
  <2>1. Seg \ Due \in SUBSET Seg
    OBVIOUS
  <2> QED BY <2>1, PartOfSeg
<1>4. run.base + run.count + run.fails <= Segments
  BY <1>1, <1>3 DEF CountsAddUp
<1>5. ASSUME NEW w \in Worker, Busy(w)
      PROVE  run.base + run.count + run.fails + 1 <= Segments
  <2>1. worker[w].seg \in Due /\ worker[w].seg \in Seg
    BY <1>5 DEF Due, WorkIsDealt
  <2>2. Cardinality(Seg \ Due) + 1 <= Cardinality(Seg)
    BY <2>1, Grows
  <2> QED BY <1>1, <1>3, <2>2, SegFinite DEF CountsAddUp
<1> QED BY <1>4, <1>5

\* A call spends one of what the environment may do.
LEMMA SpendingKeepsBudget ==
  ASSUME budget \in Budget,
         NEW what \in {"starts", "pauses", "patches", "closes", "deaths", "faults", "vanish"},
         Spend(what)
  PROVE  budget' \in Budget /\ budget'.prompt = budget.prompt
<1>1. CASE what = "starts"
  BY <1>1 DEF Spend, Budget
<1>2. CASE what = "pauses"
  BY <1>2 DEF Spend, Budget
<1>3. CASE what = "patches"
  BY <1>3 DEF Spend, Budget
<1>4. CASE what = "closes"
  BY <1>4 DEF Spend, Budget
<1>5. CASE what = "deaths"
  BY <1>5 DEF Spend, Budget
<1>6. CASE what = "faults"
  BY <1>6 DEF Spend, Budget
<1>7. CASE what = "vanish"
  BY <1>7 DEF Spend, Budget
<1> QED BY <1>1, <1>2, <1>3, <1>4, <1>5, <1>6, <1>7

-----------------------------------------------------------------------------
(* What the actions leave alone.                                           *)

LEMMA WorkerFrame ==
  ASSUME NEW w \in Worker, WorkerStep(w)
  PROVE  /\ UNCHANGED <<task, saved, late, doneCh, lastDone, calls, target>>
         /\ run.phase = "work" /\ worker[w].at # "gone"
<1>1. runUnchanged /\ UNCHANGED target
  BY DEF WorkerStep, Take, Quit, Fetched, Retries, FetchFails, FetchCancelled, Put, PutFails,
         SaveJournal, JournalFails, disk
<1>2. run.phase = "work" /\ worker[w].at # "gone"
  BY DEF WorkerStep, Take, Quit, Fetched, Retries, FetchFails, FetchCancelled, Put, PutFails,
         SaveJournal, JournalFails, Working
<1> QED BY <1>1, <1>2 DEF runUnchanged

\* The supervisor, but for its last step, the send, which comes after its run.
Merging ==
  \/ Joins \/ MergeReads \/ MergeFails \/ MergeRemoves \/ MergeRenames \/ RenameFails
  \/ Merged \/ Detaches

LEMMA MergingFrame ==
  ASSUME Merging
  PROVE  /\ UNCHANGED <<task, saved, worker, doneCh, calls, lost>>
         /\ run.phase \in Phase \ {"none"}
<1>1. supUnchanged /\ UNCHANGED lost
  BY DEF Merging, Joins, MergeReads, MergeFails, MergeRemoves, MergeRenames, RenameFails,
         Merged, Detaches, disk
<1>2. run.phase \in Phase \ {"none"}
  BY DEF Merging, Joins, MergeReads, MergeFails, MergeRemoves, MergeRenames, RenameFails,
         Merged, Detaches, Supervising, Phase
<1> QED BY <1>1, <1>2 DEF supUnchanged

LEMMA RestartFrame ==
  ASSUME Die \/ WatcherPanics
  PROVE  /\ status \in {"idle", "running"} /\ UNCHANGED closed
         /\ op' = [kind |-> "none", run |-> 0] /\ status' = "idle" /\ got' = Nil
         /\ late' = {} /\ doneCh' = <<>>
<1>1. ASSUME NEW r, Restarts(r)
      PROVE  /\ op' = [kind |-> "none", run |-> 0] /\ status' = "idle" /\ got' = Nil
             /\ late' = {} /\ doneCh' = <<>> /\ UNCHANGED closed
  BY <1>1 DEF Restarts
<1>2. CASE Die
  BY <1>1, <1>2 DEF Die
<1>3. CASE WatcherPanics
  BY <1>1, <1>3 DEF WatcherPanics
<1> QED BY <1>2, <1>3

-----------------------------------------------------------------------------
(* Types.                                                                  *)

FetcherTypes ==
  /\ url \in Version /\ res \in BOOLEAN /\ closed \in BOOLEAN
  /\ plan \in Plan \cup {Nil} /\ nextSid \in 1 .. MaxSid + 1 /\ saved \in Record

DiskTypes ==
  /\ staged \in [Sid -> [Seg -> Version \cup {Nil}]]
  /\ journals \in [Sid -> Journal]
  /\ lost \subseteq Sid \X Seg
  /\ target \in Output \cup {Nil}

WorkerTypes ==
  worker \in [Worker -> [at : {"idle", "fetch", "put", "journal", "gone"},
                         seg : 0 .. Segments, tries : 0 .. MaxRetries]]

RunTypes == run \in Run /\ lastDone \in 0 .. Segments

CallTypes ==
  /\ late \subseteq Result
  /\ doneCh \in Seq(Result) /\ Len(doneCh) <= 1
  /\ op \in [kind : {"none", "pause", "close"}, run : Nat]
  /\ status \in {"idle", "running", "done", "deleted"}
  /\ got \in Result \cup {Nil}
  /\ budget \in Budget

LEMMA TypeParts ==
  TypeOK <=> FetcherTypes /\ DiskTypes /\ WorkerTypes /\ RunTypes /\ CallTypes
  BY DEF TypeOK, FetcherTypes, DiskTypes, WorkerTypes, RunTypes, CallTypes

LEMMA FetcherTypeStep ==
  ASSUME FetcherTypes, [Next]_vars
  PROVE  FetcherTypes'
<1> USE DEF FetcherTypes
<1>a. FreshPlan \in Plan \/ nextSid > MaxSid
  BY DEF FreshPlan, Plan, Sid
<1>b. Snapshot \in Record
  BY DEF Snapshot, Record
<1>1. ASSUME \/ Resolve \/ Start \/ StartFails \/ Patch \/ CloseBegins
             \/ Save \/ Die \/ WatcherPanics
      PROVE  FetcherTypes'
  <2>1. CASE Resolve
    BY <1>a, <2>1 DEF Resolve
  <2>2. CASE Start \/ StartFails
    BY <1>a, <2>2 DEF Start, StartFails, MayStart
  <2>3. CASE Patch
    BY <2>3 DEF Patch
  <2>4. CASE CloseBegins
    BY <2>4 DEF CloseBegins
  <2>5. CASE Save
    BY <1>b, <2>5 DEF Save, task
  <2>6. CASE Die \/ WatcherPanics
    BY <1>b, <2>6 DEF Die, WatcherPanics, Restarts, Record
  <2> QED BY <1>1, <2>1, <2>2, <2>3, <2>4, <2>5, <2>6
<1>2. ASSUME \/ PauseBegins \/ Returns \/ Sends \/ WatcherTakes \/ Vanishes
      PROVE  FetcherTypes'
  BY <1>2 DEF PauseBegins, Returns, PauseEnds, CloseEnds, Sends, WatcherTakes, Vanishes, task
<1>3. ASSUME NEW w \in Worker, WorkerStep(w)
      PROVE  FetcherTypes'
  BY <1>3, WorkerFrame DEF task
<1>4. ASSUME Merging
      PROVE  FetcherTypes'
  BY <1>4, MergingFrame DEF task
<1>5. ASSUME UNCHANGED vars
      PROVE  FetcherTypes'
  BY <1>5 DEF vars, task
<1> QED
  BY <1>1, <1>2, <1>3, <1>4, <1>5 DEF Next, Calls, Supervise, Merging

LEMMA DiskTypeStep ==
  ASSUME DiskTypes, FetcherTypes, RunTypes, WorkerTypes, WorkIsDealt, RunHasPlan, MergeIsWhole,
         [Next]_vars
  PROVE  DiskTypes'
<1> USE DEF DiskTypes
<1>p. run.phase # "none" => run.plan \in Plan /\ run.plan.sid \in Sid /\ run.plan.hash \in Version
  BY DEF RunHasPlan, Active, FetcherTypes, Plan
<1>f. /\ EmptyFolder \in [Seg -> Version \cup {Nil}]
      /\ EmptyJournal \in Journal
  BY DEF EmptyFolder, EmptyJournal, Journal
<1>1. ASSUME \/ Resolve \/ Start \/ StartFails \/ PauseBegins \/ CloseBegins \/ PauseEnds
             \/ Sends \/ WatcherTakes \/ Save \/ Die \/ WatcherPanics
      PROVE  DiskTypes'
  BY <1>1 DEF Resolve, Start, StartFails, PauseBegins, CloseBegins, PauseEnds, Sends,
              WatcherTakes, Save, Die, WatcherPanics, Restarts, disk
<1>2. ASSUME NEW p \in Plan, RemoveStaging(p.sid), UNCHANGED <<lost, target>>
      PROVE  DiskTypes'
  BY <1>2, <1>f DEF RemoveStaging, Plan
<1>3. CASE Patch
  BY <1>2, <1>3 DEF Patch, FetcherTypes
<1>4. CASE CloseEnds
  BY <1>2, <1>4 DEF CloseEnds, FetcherTypes
<1>5. CASE Vanishes
  BY <1>5 DEF Vanishes, FetcherTypes, Plan
<1>6. ASSUME NEW w \in Worker, WorkerStep(w)
      PROVE  DiskTypes'
  <2>1. ASSUME \/ Take(w) \/ Quit(w) \/ Fetched(w) \/ Retries(w) \/ FetchFails(w)
               \/ FetchCancelled(w) \/ PutFails(w) \/ JournalFails(w)
        PROVE  DiskTypes'
    BY <2>1 DEF Take, Quit, Fetched, Retries, FetchFails, FetchCancelled, PutFails,
                JournalFails, disk
  <2>2. CASE Put(w)
    BY <1>p, <2>2 DEF Put, Working
  <2>3. CASE SaveJournal(w)
    <3>1. run.journal \cup {worker[w].seg} \in SUBSET Seg
      BY <2>3 DEF SaveJournal, Working, WorkIsDealt, Busy, RunTypes, Run
    <3>2. [hash |-> run.plan.hash, done |-> run.journal \cup {worker[w].seg}] \in Journal
      BY <1>p, <2>3, <3>1 DEF SaveJournal, Working, Journal
    <3> QED BY <1>p, <2>3, <3>2 DEF SaveJournal, Working
  <2> QED BY <1>6, <2>1, <2>2, <2>3 DEF WorkerStep
<1>7. ASSUME Merging
      PROVE  DiskTypes'
  <2>1. ASSUME \/ Joins \/ MergeReads \/ MergeFails \/ RenameFails \/ Detaches
        PROVE  DiskTypes'
    BY <2>1 DEF Joins, MergeReads, MergeFails, RenameFails, Detaches, disk
  <2>2. CASE MergeRemoves
    BY <2>2 DEF MergeRemoves
  <2>3. CASE MergeRenames
    BY <2>3 DEF MergeRenames, RunTypes, Run
  <2>4. CASE Merged
    <3>1. UNCHANGED <<lost, target>>
      BY <2>4 DEF Merged
    <3>2. RemoveStaging(run.plan.sid) \/ UNCHANGED <<staged, journals>>
      BY <2>4 DEF Merged
    <3> QED BY <1>2, <1>p, <2>4, <3>1, <3>2 DEF Merged, Supervising
  <2> QED BY <1>7, <2>1, <2>2, <2>3, <2>4 DEF Merging
<1>8. CASE UNCHANGED vars
  BY <1>8 DEF vars, disk
<1> QED
  BY <1>1, <1>3, <1>4, <1>5, <1>6, <1>7, <1>8 DEF Next, Calls, Returns, Supervise, Merging

LEMMA WorkerTypeStep ==
  ASSUME WorkerTypes, RunTypes, [Next]_vars
  PROVE  WorkerTypes'
<1> USE DEF WorkerTypes
<1>1. ASSUME \/ Resolve \/ StartFails \/ PauseBegins \/ Patch \/ CloseBegins \/ Returns
             \/ Merging \/ Sends \/ WatcherTakes \/ Save \/ Vanishes \/ UNCHANGED vars
      PROVE  WorkerTypes'
  BY <1>1, MergingFrame
     DEF Resolve, StartFails, PauseBegins, Patch, CloseBegins, Returns, PauseEnds, CloseEnds,
         Sends, WatcherTakes, Save, Vanishes, vars
<1>2. CASE Start \/ Die \/ WatcherPanics
  BY <1>2 DEF Start, Launched, Die, WatcherPanics, Restarts, Idle
<1>3. ASSUME NEW w \in Worker, WorkerStep(w)
      PROVE  WorkerTypes'
  <2>1. CASE Take(w)
    <3>1. PICK s \in run.pending :
            worker' = [worker EXCEPT ![w] = [at |-> "fetch", seg |-> s, tries |-> 0]]
      BY <2>1 DEF Take
    <3>2. s \in 0 .. Segments
      BY DEF RunTypes, Run, Seg
    <3> QED BY <3>1, <3>2
  <2>2. ASSUME Quit(w) \/ Fetched(w) \/ FetchFails(w) \/ FetchCancelled(w) \/ Put(w)
               \/ PutFails(w) \/ SaveJournal(w) \/ JournalFails(w)
        PROVE  WorkerTypes'
    BY <2>2 DEF Quit, Fetched, FetchFails, FetchCancelled, Put, PutFails, SaveJournal,
                JournalFails, Goes, Rest, Leaves, Idle
  <2>3. CASE Retries(w)
    BY <2>3 DEF Retries
  <2> QED BY <1>3, <2>1, <2>2, <2>3 DEF WorkerStep
<1> QED BY <1>1, <1>2, <1>3 DEF Next, Calls, Supervise, Merging

LEMMA CallTypeStep ==
  ASSUME CallTypes, FetcherTypes, RunTypes, RunHasPlan, [Next]_vars
  PROVE  CallTypes'
<1> USE DEF CallTypes
<1>1. ASSUME Resolve \/ Patch \/ StartFails \/ Vanishes
      PROVE  CallTypes'
  BY <1>1, SpendingKeepsBudget DEF Resolve, Patch, StartFails, Vanishes, calls
<1>2. CASE Start
  BY <1>2, SpendingKeepsBudget DEF Start
<1>3. CASE PauseBegins
  BY <1>3, SpendingKeepsBudget DEF PauseBegins, RunTypes, Run
<1>4. CASE CloseBegins
  BY <1>4, SpendingKeepsBudget DEF CloseBegins, RunTypes, Run
<1>5. CASE Returns
  BY <1>5 DEF Returns, PauseEnds, CloseEnds
<1>6. ASSUME NEW w \in Worker, WorkerStep(w)
      PROVE  CallTypes'
  <2>1. budget' \in Budget
    <3>1. ASSUME Take(w) \/ Quit(w) \/ Fetched(w) \/ FetchCancelled(w) \/ Put(w)
                 \/ SaveJournal(w)
          PROVE  UNCHANGED budget
      BY <3>1 DEF Take, Quit, Fetched, FetchCancelled, Put, SaveJournal
    <3>2. ASSUME Retries(w) \/ FetchFails(w) \/ PutFails(w) \/ JournalFails(w)
          PROVE  Spend("faults")
      BY <3>2 DEF Retries, FetchFails, PutFails, JournalFails
    <3> QED BY <1>6, <3>1, <3>2, SpendingKeepsBudget DEF WorkerStep
  <2> QED BY <1>6, <2>1, WorkerFrame DEF calls
<1>7. ASSUME Merging
      PROVE  CallTypes'
  <2>1. budget' \in Budget
    <3>1. ASSUME Joins \/ MergeReads \/ MergeRemoves \/ MergeRenames \/ Merged \/ Detaches
          PROVE  UNCHANGED budget
      BY <3>1 DEF Joins, MergeReads, MergeRemoves, MergeRenames, Merged, Detaches
    <3>2. ASSUME MergeFails \/ RenameFails
          PROVE  Spend("faults")
      BY <3>2 DEF MergeFails, RenameFails
    <3> QED BY <1>7, <3>1, <3>2, SpendingKeepsBudget DEF Merging
  <2>2. late' \subseteq Result
    <3>1. ASSUME Joins \/ MergeReads \/ MergeFails \/ MergeRemoves \/ MergeRenames
                 \/ RenameFails \/ Merged
          PROVE  UNCHANGED late
      BY <3>1 DEF Joins, MergeReads, MergeFails, MergeRemoves, MergeRenames, RenameFails,
                  Merged
    <3>2. CASE Detaches
      <4>1. run.no \in Nat /\ run.ok \in BOOLEAN /\ run.plan.hash \in Version
        BY <3>2 DEF Detaches, Supervising, RunTypes, Run, RunHasPlan, Active, FetcherTypes, Plan
      <4> QED BY <3>2, <4>1 DEF Detaches, Result
    <3> QED BY <1>7, <3>1, <3>2 DEF Merging
  <2> QED BY <1>7, <2>1, <2>2, MergingFrame DEF calls
<1>8. CASE Sends
  <2>1. PICK r \in late : /\ late' = late \ {r}
                          /\ doneCh' = IF doneCh = <<>> THEN <<r>> ELSE doneCh
    BY <1>8 DEF Sends
  <2>2. <<r>> \in Seq(Result) /\ Len(<<r>>) = 1
    OBVIOUS
  <2> QED BY <1>8, <2>1, <2>2 DEF Sends, calls
<1>9. CASE WatcherTakes
  <2>1. Head(doneCh) \in Result /\ <<>> \in Seq(Result) /\ Len(<<>>) = 0
    BY <1>9 DEF WatcherTakes
  <2> QED BY <1>9, <2>1 DEF WatcherTakes
<1>10. CASE Save \/ UNCHANGED vars
  BY <1>10 DEF Save, vars, calls
<1>11. CASE Die \/ WatcherPanics
  <2>1. <<>> \in Seq(Result) /\ Len(<<>>) = 0
    OBVIOUS
  <2>2. budget' \in Budget
    BY <1>11, SpendingKeepsBudget DEF Die, WatcherPanics
  <2>3. /\ op' = [kind |-> "none", run |-> 0] /\ status' = "idle" /\ got' = Nil
        /\ late' = {} /\ doneCh' = <<>>
    BY <1>11, RestartFrame
  <2>4. op' \in [kind : {"none", "pause", "close"}, run : Nat]
    BY <2>3
  <2> QED BY <2>1, <2>2, <2>3, <2>4
<1> QED
  BY <1>1, <1>2, <1>3, <1>4, <1>5, <1>6, <1>7, <1>8, <1>9, <1>10, <1>11
     DEF Next, Calls, Supervise, Merging

\* What Start makes of the plan it runs.
Known(p) == IF journals[p.sid].hash = p.hash THEN journals[p.sid].done ELSE {}

StartedRun(p) ==
  [InitRun EXCEPT !.no = run.no + 1, !.phase = "work", !.plan = p, !.journal = Known(p),
                  !.base = Segments - Cardinality(PendingOf(p)), !.pending = PendingOf(p)]

LEMMA Starting ==
  ASSUME TypeOK, Start
  PROVE  /\ plan' \in Plan /\ ~Active /\ res /\ ~closed /\ status = "idle"
         /\ PendingOf(plan') = Seg \ Finished(plan')
         /\ Finished(plan') \subseteq Known(plan') /\ Known(plan') \subseteq Seg
         /\ run' = StartedRun(plan') /\ worker' = Launched(PendingOf(plan'))
<1>1. plan' \in Plan
  BY NilAssumption DEF Start, MayStart, TypeOK, FreshPlan, Plan, Sid
<1>2. Finished(plan') \subseteq Known(plan') /\ Known(plan') \subseteq Seg
  BY <1>1 DEF TypeOK, Finished, Known, Plan, Journal
<1> QED BY <1>1, <1>2 DEF Start, MayStart, PendingOf, StartedRun, Known

LEMMA RunTypeStep ==
  ASSUME TypeOK, WorkIsDealt, CountsAddUp, RunHasPlan, [Next]_vars
  PROVE  RunTypes'
<1>a. run \in Run /\ lastDone \in 0 .. Segments
  BY DEF TypeOK
<1>b. /\ run.base \in Nat /\ run.count \in Nat /\ run.fails \in Nat
      /\ run.base + run.count \in 0 .. Segments
  BY <1>a, CountsBounded DEF Run
<1>i. InitRun \in Run
  BY DEF InitRun, Run, Phase
<1>1. ASSUME \/ Resolve \/ StartFails \/ Patch \/ Returns \/ Sends \/ WatcherTakes \/ Save
             \/ Vanishes \/ UNCHANGED vars
      PROVE  RunTypes'
  BY <1>1, <1>a DEF Resolve, StartFails, Patch, Returns, PauseEnds, CloseEnds, Sends,
                    WatcherTakes, Save, Vanishes, vars, RunTypes
<1>2. CASE Start
  <2>1. PendingOf(plan') \in SUBSET Seg
    BY <1>2, Starting
  <2>2. Segments - Cardinality(PendingOf(plan')) \in 0 .. Segments
    BY <2>1, PartOfSeg
  <2>3. run.no \in Nat
    BY <1>a DEF Run
  <2>4. StartedRun(plan') \in Run
    <3>1. /\ plan' \in Plan /\ Known(plan') \in SUBSET Seg /\ run.no + 1 \in Nat
      BY <1>2, <2>3, Starting
    <3> QED BY <1>i, <2>1, <2>2, <3>1 DEF StartedRun, Run, Phase
  <2> QED BY <1>2, <1>a, <2>4, Starting DEF Start, RunTypes
<1>3. CASE PauseBegins \/ CloseBegins
  BY <1>3, <1>a DEF PauseBegins, CloseBegins, RunTypes, Run, Active
<1>4. CASE Die \/ WatcherPanics
  <2>1. [InitRun EXCEPT !.no = run.no] \in Run
    BY <1>a, <1>i DEF Run
  <2> QED BY <1>4, <2>1 DEF Die, WatcherPanics, Restarts, RunTypes
<1>5. ASSUME NEW w \in Worker, WorkerStep(w)
      PROVE  RunTypes'
  <2>1. lastDone' \in 0 .. Segments
    BY <1>5, <1>a, WorkerFrame
  <2>2. Busy(w) => /\ run.count + 1 \in 0 .. Segments /\ run.fails + 1 \in 0 .. Segments
                   /\ run.journal \cup {worker[w].seg} \in SUBSET Seg
    BY <1>a, <1>b, CountsBounded DEF Run, WorkIsDealt
  <2>3. CASE Take(w)
    BY <1>a, <2>1, <2>3 DEF Take, RunTypes, Run
  <2>4. ASSUME Quit(w) \/ Fetched(w) \/ Retries(w) \/ FetchCancelled(w) \/ Put(w)
        PROVE  RunTypes'
    BY <1>a, <2>1, <2>4 DEF Quit, Fetched, Retries, FetchCancelled, Put, RunTypes
  <2>5. CASE FetchFails(w) \/ PutFails(w)
    <3>1. run' = [run EXCEPT !.fails = @ + 1] /\ Busy(w)
      BY <2>5 DEF FetchFails, PutFails, Working, Busy
    <3> QED BY <1>a, <2>1, <2>2, <3>1 DEF RunTypes, Run
  <2>6. CASE SaveJournal(w)
    <3>1. /\ run' = [run EXCEPT !.journal = run.journal \cup {worker[w].seg}, !.count = @ + 1]
          /\ Busy(w)
      BY <2>6 DEF SaveJournal, Working, Busy
    <3> QED BY <1>a, <2>1, <2>2, <3>1 DEF RunTypes, Run
  <2>7. CASE JournalFails(w)
    <3>1. /\ run' = [run EXCEPT !.journal = run.journal \cup {worker[w].seg}, !.fails = @ + 1]
          /\ Busy(w)
      BY <2>7 DEF JournalFails, Working, Busy
    <3> QED BY <1>a, <2>1, <2>2, <3>1 DEF RunTypes, Run
  <2> QED BY <1>5, <2>3, <2>4, <2>5, <2>6, <2>7 DEF WorkerStep
<1>6. ASSUME Merging
      PROVE  RunTypes'
  <2>1. ASSUME ClearActiveRun
        PROVE  RunTypes'
    BY <1>a, <1>b, <2>1 DEF ClearActiveRun, NoRun, RunTypes, Run, Phase
  <2>2. ASSUME UNCHANGED lastDone, NEW ph \in Phase, Turns(ph)
        PROVE  RunTypes'
    BY <1>a, <2>2 DEF Turns, RunTypes, Run
  <2>3. ASSUME UNCHANGED lastDone, NEW ok \in BOOLEAN, Reports(ok)
        PROVE  RunTypes'
    BY <1>a, <2>3 DEF Reports, RunTypes, Run, Phase
  <2>4. CASE Joins
    <3>1. \/ ClearActiveRun
          \/ Reports(FALSE) /\ UNCHANGED lastDone
          \/ Turns("merge") /\ UNCHANGED lastDone
      BY <2>4 DEF Joins
    <3>2. "merge" \in Phase
      BY DEF Phase
    <3> QED BY <2>1, <2>2, <2>3, <3>1, <3>2
  <2>5. CASE MergeReads
    <3>1. UNCHANGED lastDone
      BY <2>5 DEF MergeReads
    <3>2. CASE MissingSegments
      BY <2>3, <2>5, <3>1, <3>2 DEF MergeReads
    <3>3. CASE ~MissingSegments
      <4>1. run' = [run EXCEPT !.phase = "remove", !.out = staged[run.plan.sid]]
        BY <2>5, <3>3 DEF MergeReads
      <4>2. run.plan.sid \in Sid
        BY <2>5 DEF MergeReads, Supervising, RunHasPlan, Active, TypeOK, Plan
      <4>3. staged[run.plan.sid] \in [Seg -> Version \cup {Nil}]
        BY <4>2 DEF TypeOK
      <4>4. staged[run.plan.sid] \in [Seg -> Version]
        BY <3>3, <4>3 DEF MissingSegments
      <4>5. staged[run.plan.sid] \in Output
        BY <4>4 DEF Output
      <4> QED BY <1>a, <3>1, <4>1, <4>5 DEF RunTypes, Run, Phase
    <3> QED BY <3>2, <3>3
  <2>6. CASE MergeFails \/ RenameFails
    BY <2>3, <2>6 DEF MergeFails, RenameFails
  <2>7. CASE MergeRemoves \/ MergeRenames
    <3>1. {"rename", "merged"} \subseteq Phase
      BY DEF Phase
    <3> QED BY <2>2, <2>7, <3>1 DEF MergeRemoves, MergeRenames
  <2>8. CASE Merged \/ Detaches
    BY <2>1, <2>3, <2>8 DEF Merged, Detaches
  <2> QED BY <1>6, <2>4, <2>5, <2>6, <2>7, <2>8 DEF Merging
<1> QED
  BY <1>1, <1>2, <1>3, <1>4, <1>5, <1>6 DEF Next, Calls, Supervise, Merging

LEMMA TypeStep ==
  ASSUME TypeOK, WorkIsDealt, CountsAddUp, RunHasPlan, MergeIsWhole, [Next]_vars
  PROVE  TypeOK'
<1>1. FetcherTypes' /\ DiskTypes' /\ WorkerTypes' /\ CallTypes'
  BY TypeParts, FetcherTypeStep, DiskTypeStep, WorkerTypeStep, CallTypeStep
<1>2. RunTypes'
  BY RunTypeStep
<1>3. TypeOK' <=> FetcherTypes' /\ DiskTypes' /\ WorkerTypes' /\ RunTypes' /\ CallTypes'
  BY TypeParts, PTL
<1> QED BY <1>1, <1>2, <1>3

-----------------------------------------------------------------------------
(* The work of a run.                                                      *)

\* A step of a worker concerns this worker, at most takes the next segment, and keeps the
\* plan.
LEMMA WorkerEffect ==
  ASSUME TypeOK, NEW w \in Worker, WorkerStep(w)
  PROVE  /\ \A v \in Worker \ {w} : worker'[v] = worker[v]
         /\ run'.phase = "work" /\ run'.plan = run.plan /\ run'.no = run.no
         /\ \/ /\ ~Busy(w) /\ worker'[w].at = "fetch"
               /\ \E s \in run.pending : /\ worker'[w].seg = s
                                        /\ run'.pending = run.pending \ {s}
               /\ run' = [run EXCEPT !.pending = run'.pending]
            \/ /\ run'.pending = run.pending
               /\ Busy(w)' => Busy(w) /\ worker'[w].seg = worker[w].seg
<1>a. run \in Run /\ worker \in [Worker -> [at : {"idle", "fetch", "put", "journal", "gone"},
                                        seg : 0 .. Segments, tries : 0 .. MaxRetries]]
  BY DEF TypeOK
<1>1. CASE Take(w)
  BY <1>a, <1>1 DEF Take, Working, Busy, Run
<1>2. CASE Quit(w) \/ FetchCancelled(w)
  BY <1>a, <1>2 DEF Quit, FetchCancelled, Working, Busy, Leaves, Idle
<1>3. CASE Fetched(w) \/ Put(w)
  BY <1>a, <1>3 DEF Fetched, Put, Working, Busy, Goes
<1>4. CASE Retries(w)
  BY <1>a, <1>4 DEF Retries, Working, Busy
<1>5. CASE FetchFails(w) \/ PutFails(w)
  BY <1>a, <1>5 DEF FetchFails, PutFails, Working, Busy, Rest, Run
<1>6. CASE SaveJournal(w)
  BY <1>a, <1>6 DEF SaveJournal, Working, Busy, Rest, Run
<1>7. CASE JournalFails(w)
  BY <1>a, <1>7 DEF JournalFails, Working, Busy, Rest, Run
<1> QED BY <1>1, <1>2, <1>3, <1>4, <1>5, <1>6, <1>7 DEF WorkerStep

\* A step of the supervisor changes the position of the run, and what it has read.
LEMMA MergingEffect ==
  ASSUME TypeOK, Merging
  PROVE  /\ run'.phase # "work"
         /\ run'.plan = run.plan /\ run'.no = run.no /\ run'.pending = run.pending
         /\ run'.base = run.base /\ run'.count = run.count /\ run'.fails = run.fails
<1>a. run \in Run
  BY DEF TypeOK
<1>1. CASE Joins
  BY <1>a, <1>1 DEF Joins, ClearActiveRun, NoRun, Reports, Turns, Run
<1>2. CASE MergeReads
  BY <1>a, <1>2 DEF MergeReads, Reports, Run
<1>3. CASE MergeFails \/ MergeRemoves \/ MergeRenames \/ RenameFails
  BY <1>a, <1>3 DEF MergeFails, MergeRemoves, MergeRenames, RenameFails, Reports, Turns, Run
<1>4. CASE Merged \/ Detaches
  BY <1>a, <1>4 DEF Merged, Detaches, ClearActiveRun, NoRun, Reports, Run
<1> QED BY <1>1, <1>2, <1>3, <1>4 DEF Merging

\* Where no worker works and nothing is due.
LEMMA NobodyWorks ==
  ASSUME \A w \in Worker : worker[w].at \in {"gone", "idle"}
  PROVE  /\ \A w \in Worker : ~Busy(w)
         /\ Due = run.pending
<1>1. \A w \in Worker : ~Busy(w)
  BY DEF Busy
<1> QED BY <1>1 DEF Due

LEMMA DealtStep ==
  ASSUME TypeOK, WorkIsDealt, [Next]_vars
  PROVE  WorkIsDealt'
<1>a. run \in Run
  BY DEF TypeOK
<1>1. ASSUME \/ Resolve \/ StartFails \/ Patch \/ Returns \/ Sends \/ WatcherTakes \/ Save
             \/ Vanishes \/ UNCHANGED vars
      PROVE  WorkIsDealt'
  BY <1>1 DEF Resolve, StartFails, Patch, Returns, PauseEnds, CloseEnds, Sends, WatcherTakes,
              Save, Vanishes, vars, WorkIsDealt, Busy
<1>2. CASE Start
  <2>1. \A w \in Worker : worker'[w].at \in {"gone", "idle"}
    BY <1>2 DEF Start, Launched, Idle
  <2>2. run'.phase = "work"
    BY <1>2, Starting DEF StartedRun, InitRun
  <2> QED BY <2>1, <2>2 DEF WorkIsDealt, Busy
<1>3. CASE PauseBegins \/ CloseBegins
  <2>1. run'.phase = run.phase /\ run'.pending = run.pending /\ worker' = worker
    BY <1>3, <1>a DEF PauseBegins, CloseBegins, Run
  <2> QED BY <2>1 DEF WorkIsDealt, Busy
<1>4. CASE Die \/ WatcherPanics
  BY <1>4 DEF Die, WatcherPanics, Restarts, InitRun, Idle, WorkIsDealt, Busy
<1>5. ASSUME NEW w \in Worker, WorkerStep(w)
      PROVE  WorkIsDealt'
  <2>1. \A v \in Worker \ {w} : worker'[v] = worker[v] /\ (Busy(v)' <=> Busy(v))
    BY <1>5, WorkerEffect DEF Busy
  <2>2. run'.phase = "work"
    BY <1>5, WorkerEffect
  <2>3. CASE /\ run'.pending = run.pending
             /\ Busy(w)' => Busy(w) /\ worker'[w].seg = worker[w].seg
    <3>1. \A v \in Worker : Busy(v)' => Busy(v) /\ worker'[v].seg = worker[v].seg
      BY <2>1, <2>3
    <3> QED BY <2>2, <2>3, <3>1 DEF WorkIsDealt
  <2>4. ASSUME NEW s \in run.pending, ~Busy(w), worker'[w].seg = s,
               run'.pending = run.pending \ {s}
        PROVE  WorkIsDealt'
    <3>1. s \in Seg
      BY <1>a DEF Run
    <3>2. \A v \in Worker \ {w} : Busy(v)' => /\ worker'[v].seg \in Seg \ run'.pending
                                               /\ worker'[v].seg # s
      BY <2>1, <2>4 DEF WorkIsDealt
    <3>3. \A v \in Worker : Busy(v)' => worker'[v].seg \in Seg \ run'.pending
      BY <2>4, <3>1, <3>2
    <3>4. \A u, v \in Worker : u # v /\ Busy(u)' /\ Busy(v)' => worker'[u].seg # worker'[v].seg
      BY <2>1, <2>4, <3>2 DEF WorkIsDealt
    <3> QED BY <2>2, <3>3, <3>4 DEF WorkIsDealt
  <2> QED BY <1>5, <2>3, <2>4, WorkerEffect
<1>6. ASSUME Merging
      PROVE  WorkIsDealt'
  <2>1. \A w \in Worker : worker[w].at = "gone"
    BY <1>6 DEF Merging, Joins, MergeReads, MergeFails, MergeRemoves, MergeRenames, RenameFails,
                Merged, Detaches, Supervising, WorkIsDealt
  <2>2. worker' = worker
    BY <1>6, MergingFrame
  <2> QED BY <2>1, <2>2 DEF WorkIsDealt, Busy
<1> QED
  BY <1>1, <1>2, <1>3, <1>4, <1>5, <1>6 DEF Next, Calls, Supervise, Merging

\* Once Close has begun, it ends when the run has.
LEMMA CloseEndsLast ==
  ASSUME ClosedIsOver, CloseEnds
  PROVE  closed /\ ~Active
  BY DEF ClosedIsOver, CloseEnds, RunGone

LEMMA RunHasPlanStep ==
  ASSUME TypeOK, RunHasPlan, [Next]_vars
  PROVE  RunHasPlan'
<1>a. run \in Run
  BY DEF TypeOK
<1>1. ASSUME \/ Resolve \/ StartFails \/ Patch
      PROVE  RunHasPlan'
  BY <1>1 DEF Resolve, StartFails, MayStart, Patch, RunHasPlan, Active
<1>2. ASSUME \/ Returns \/ Sends \/ WatcherTakes \/ Save \/ Vanishes \/ UNCHANGED vars
      PROVE  RunHasPlan'
  BY <1>2 DEF Returns, PauseEnds, CloseEnds, Sends, WatcherTakes, Save, Vanishes, vars, task,
              RunHasPlan, Active
<1>3. CASE Start
  <2>1. run'.plan = plan' /\ plan' # Nil /\ res
    BY <1>3, Starting, NilAssumption DEF StartedRun, InitRun
  <2>2. res' = res
    BY <1>3 DEF Start
  <2> QED BY <2>1, <2>2 DEF RunHasPlan
<1>4. CASE PauseBegins \/ CloseBegins
  <2>1. run'.phase = run.phase /\ run'.plan = run.plan /\ UNCHANGED <<plan, res>>
    BY <1>4, <1>a DEF PauseBegins, CloseBegins, Run, task
  <2> QED BY <2>1 DEF RunHasPlan, Active
<1>5. CASE Die \/ WatcherPanics
  BY <1>5 DEF Die, WatcherPanics, Restarts, InitRun, RunHasPlan, Active
<1>6. ASSUME NEW w \in Worker, WorkerStep(w)
      PROVE  RunHasPlan'
  BY <1>6, WorkerEffect, WorkerFrame DEF RunHasPlan, Active, task
<1>7. ASSUME Merging
      PROVE  RunHasPlan'
  BY <1>7, MergingEffect, MergingFrame DEF RunHasPlan, Active, task
<1> QED
  BY <1>1, <1>2, <1>3, <1>4, <1>5, <1>6, <1>7 DEF Next, Calls, Supervise, Merging

-----------------------------------------------------------------------------
(* The counters.                                                           *)

Unfinished == run.base + run.count + run.fails <= Cardinality(Seg \ Due)
Downloaded == run.phase = "work" => run.base + run.count <= Cardinality(OnDisk \ Due)
Stored == \A w \in Worker : worker[w].at = "journal" => worker[w].seg \in OnDisk

LEMMA CountParts == CountsAddUp <=> Unfinished /\ Downloaded /\ Stored
  BY DEF CountsAddUp, Unfinished, Downloaded, Stored

\* What is on disk stays there while the run fetches, or counts as lost.
LEMMA DiskGrows ==
  ASSUME TypeOK, RunHasPlan, ClosedIsOver, [Next]_vars, run.phase = "work",
         run'.phase = "work", run'.plan = run.plan, ~Start
  PROVE  OnDisk \subseteq OnDisk'
<1>a. plan = run.plan /\ plan \in Plan /\ Active /\ run.plan.sid \in Sid
  BY DEF RunHasPlan, Active, TypeOK, Plan
<1>1. ASSUME \/ Resolve \/ StartFails \/ Patch \/ CloseEnds
      PROVE  FALSE
  BY <1>1, <1>a, CloseEndsLast DEF Resolve, StartFails, MayStart, Patch, RunHasPlan
<1>2. ASSUME UNCHANGED <<staged, lost>>
      PROVE  OnDisk \subseteq OnDisk'
  BY <1>2 DEF OnDisk
<1>3. ASSUME \/ PauseBegins \/ CloseBegins \/ PauseEnds \/ Sends \/ WatcherTakes \/ Save
             \/ Die \/ WatcherPanics \/ UNCHANGED vars
      PROVE  UNCHANGED <<staged, lost>>
  BY <1>3 DEF PauseBegins, CloseBegins, PauseEnds, Sends, WatcherTakes, Save, Die, WatcherPanics,
         Restarts, vars, disk
<1>4. CASE Vanishes
  <2>1. PICK s \in Seg : /\ staged' = [staged EXCEPT ![plan.sid][s] = Nil]
                         /\ lost' = lost \cup {<<plan.sid, s>>}
    BY <1>4 DEF Vanishes
  <2> QED BY <1>a, <2>1 DEF OnDisk, TypeOK
<1>5. ASSUME NEW w \in Worker, WorkerStep(w)
      PROVE  OnDisk \subseteq OnDisk'
  <2>1. CASE Put(w)
    <3>1. /\ staged' = [staged EXCEPT ![run.plan.sid][worker[w].seg] = run.plan.hash]
          /\ lost' = lost \ {<<run.plan.sid, worker[w].seg>>}
      BY <2>1 DEF Put
    <3>2. run.plan.hash # Nil
      BY <1>a, NilAssumption DEF Plan
    <3> QED BY <1>a, <3>1, <3>2 DEF OnDisk, TypeOK
  <2>2. CASE ~Put(w)
    <3>1. UNCHANGED <<staged, lost>>
      BY <1>5, <2>2 DEF WorkerStep, Take, Quit, Fetched, Retries, FetchFails, FetchCancelled,
                        PutFails, SaveJournal, JournalFails, disk
    <3> QED BY <1>2, <3>1
  <2> QED BY <2>1, <2>2
<1>6. ASSUME Merging
      PROVE  FALSE
  BY <1>6, MergingEffect
<1> QED
  BY <1>1, <1>2, <1>3, <1>4, <1>5, <1>6 DEF Next, Calls, Returns, Supervise, Merging

\* The segment a worker leaves is no longer due; one it takes still is.
LEMMA DueEffect ==
  ASSUME TypeOK, WorkIsDealt, NEW w \in Worker, WorkerStep(w)
  PROVE  /\ Due' \subseteq Due
         /\ Busy(w) /\ ~Busy(w)' => worker[w].seg \in (Seg \cap Due) \ Due'
<1>1. \A v \in Worker \ {w} : worker'[v] = worker[v] /\ (Busy(v)' <=> Busy(v))
  BY WorkerEffect DEF Busy
<1>2. CASE /\ run'.pending = run.pending
           /\ Busy(w)' => Busy(w) /\ worker'[w].seg = worker[w].seg
  <2>1. \A v \in Worker : Busy(v)' => Busy(v) /\ worker'[v].seg = worker[v].seg
    BY <1>1, <1>2
  <2>2. Due' \subseteq Due
    BY <1>2, <2>1 DEF Due
  <2>3. ASSUME Busy(w), ~Busy(w)'
        PROVE  worker[w].seg \in (Seg \cap Due) \ Due'
    <3>1. worker[w].seg \in Seg \ run.pending
      BY <2>3 DEF WorkIsDealt
    <3>2. \A v \in Worker : Busy(v)' => worker'[v].seg # worker[w].seg
      BY <2>1, <2>3 DEF WorkIsDealt
    <3> QED BY <1>2, <2>3, <3>1, <3>2 DEF Due
  <2> QED BY <2>2, <2>3
<1>3. ASSUME NEW s \in run.pending, ~Busy(w), worker'[w].seg = s,
             run'.pending = run.pending \ {s}
      PROVE  Due' \subseteq Due
  BY <1>1, <1>3 DEF Due
<1> QED BY <1>2, <1>3, WorkerEffect

\* A worker step counts a segment only when its worker leaves it, and as done only after
\* it has been stored.
LEMMA CountEffect ==
  ASSUME TypeOK, NEW w \in Worker, WorkerStep(w)
  PROVE  /\ run'.base = run.base
         /\ \/ run'.count = run.count /\ run'.fails = run.fails
            \/ run'.count = run.count /\ run'.fails = run.fails + 1 /\ Busy(w) /\ ~Busy(w)'
            \/ /\ run'.count = run.count + 1 /\ run'.fails = run.fails
               /\ worker[w].at = "journal" /\ Busy(w) /\ ~Busy(w)'
         /\ worker'[w].at = "journal" => Put(w) /\ worker'[w].seg = worker[w].seg
<1>a. run \in Run /\ worker \in [Worker -> [at : {"idle", "fetch", "put", "journal", "gone"},
                                        seg : 0 .. Segments, tries : 0 .. MaxRetries]]
  BY DEF TypeOK
<1>1. CASE Take(w)
  BY <1>a, <1>1 DEF Take, Run
<1>2. CASE Quit(w) \/ FetchCancelled(w) \/ Fetched(w)
  BY <1>a, <1>2 DEF Quit, FetchCancelled, Fetched, Leaves, Goes, Idle
<1>3. CASE Put(w)
  BY <1>a, <1>3 DEF Put, Goes
<1>4. CASE Retries(w)
  BY <1>a, <1>4 DEF Retries, Working
<1>5. CASE FetchFails(w) \/ PutFails(w)
  BY <1>a, <1>5 DEF FetchFails, PutFails, Working, Busy, Rest, Run
<1>6. CASE SaveJournal(w)
  BY <1>a, <1>6 DEF SaveJournal, Working, Busy, Rest, Run
<1>7. CASE JournalFails(w)
  BY <1>a, <1>7 DEF JournalFails, Working, Busy, Rest, Run
<1> QED BY <1>1, <1>2, <1>3, <1>4, <1>5, <1>6, <1>7 DEF WorkerStep

LEMMA CountsStep ==
  ASSUME TypeOK, TypeOK', WorkIsDealt, WorkIsDealt', CountsAddUp, RunHasPlan, ClosedIsOver,
         [Next]_vars
  PROVE  CountsAddUp'
<1>a. /\ run \in Run /\ run.base \in Nat /\ run.count \in Nat /\ run.fails \in Nat
      /\ run'.base \in Nat /\ run'.count \in Nat /\ run'.fails \in Nat
  BY DEF TypeOK, Run
<1>b. Due \subseteq Seg /\ Due' \subseteq Seg
  BY DEF Due, WorkIsDealt, TypeOK, Run
<1>c. OnDisk \subseteq Seg /\ OnDisk' \subseteq Seg
  BY DEF OnDisk
<1>d. /\ Cardinality(Seg \ Due) \in Nat /\ Cardinality(Seg \ Due') \in Nat
      /\ Cardinality(OnDisk \ Due) \in Nat /\ Cardinality(OnDisk' \ Due') \in Nat
  <2>1. /\ Seg \ Due \in SUBSET Seg /\ Seg \ Due' \in SUBSET Seg
        /\ OnDisk \ Due \in SUBSET Seg /\ OnDisk' \ Due' \in SUBSET Seg
    BY <1>c
  <2> QED BY <2>1, PartOfSeg
\* Where neither the work nor the counters change.
<1>e. ASSUME run'.phase = run.phase \/ run'.phase # "work", run'.plan = run.plan,
             run'.pending = run.pending, worker' = worker,
             run'.base = run.base, run'.count = run.count, run'.fails = run.fails, ~Start
      PROVE  CountsAddUp'
  <2>1. Due' = Due
    BY <1>e DEF Due, Busy
  <2>2. run'.phase = "work" => OnDisk \subseteq OnDisk'
    BY <1>e, DiskGrows
  <2>3. run'.phase = "work" => Cardinality(OnDisk \ Due) <= Cardinality(OnDisk' \ Due')
    <3>1. OnDisk' \ Due' \subseteq Seg
      BY <1>c
    <3>2. run'.phase = "work" => OnDisk \ Due \subseteq OnDisk' \ Due'
      BY <2>1, <2>2
    <3> QED BY <3>1, <3>2, Grows
  <2>4. Stored'
    BY <1>e, <2>2 DEF CountsAddUp, Stored, WorkIsDealt
  <2>5. Unfinished'
    BY <1>e, <2>1 DEF CountsAddUp, Unfinished
  <2>6. Downloaded'
    BY <1>a, <1>d, <1>e, <2>3 DEF CountsAddUp, Downloaded
  <2> QED BY <2>4, <2>5, <2>6 DEF CountsAddUp, Stored, Unfinished, Downloaded
<1>1. ASSUME \/ Resolve \/ StartFails \/ Patch \/ Returns \/ Sends \/ WatcherTakes \/ Save
             \/ Vanishes \/ UNCHANGED vars
      PROVE  CountsAddUp'
  <2>1. UNCHANGED <<run, worker>>
    BY <1>1 DEF Resolve, StartFails, Patch, Returns, PauseEnds, CloseEnds, Sends, WatcherTakes,
                Save, Vanishes, vars
  <2>2. CASE ~Start
    BY <1>e, <2>1, <2>2
  <2>3. CASE Start
    <3>1. run'.no = run.no + 1 /\ run.no \in Nat
      BY <1>a, <2>3, Starting DEF StartedRun, InitRun, Run
    <3> QED BY <2>1, <3>1
  <2> QED BY <2>2, <2>3
<1>2. CASE Start
  <2>1. \A w \in Worker : worker'[w].at \in {"gone", "idle"}
    BY <1>2 DEF Start, Launched, Idle
  <2>2. Due' = run'.pending
    BY <2>1 DEF Due, Busy
  <2>3. /\ run'.pending = Seg \ Finished(plan') /\ run'.plan = plan'
        /\ run'.base = Segments - Cardinality(run'.pending)
        /\ run'.count = 0 /\ run'.fails = 0
    BY <1>2, Starting DEF StartedRun, InitRun
  <2>4. Seg \ Due' = Finished(plan')
    BY <1>2, <2>2, <2>3, Starting
  <2>5. Cardinality(Seg \ Due') = run'.base
    BY <1>b, <2>2, <2>3, RestOfSeg
  <2>6. Seg \ Due' \subseteq OnDisk' \ Due'
    BY <1>2, <2>3, <2>4 DEF Finished, OnDisk, Start
  <2>7. Cardinality(Seg \ Due') <= Cardinality(OnDisk' \ Due')
    <3>1. OnDisk' \ Due' \subseteq Seg
      BY <1>c
    <3> QED BY <2>6, <3>1, Grows
  <2>8. Stored'
    BY <2>1 DEF Stored
  <2>9. Unfinished' /\ Downloaded'
    BY <1>a, <1>d, <2>3, <2>5, <2>7 DEF Unfinished, Downloaded
  <2> QED BY <2>8, <2>9 DEF CountsAddUp, Stored, Unfinished, Downloaded
<1>3. CASE PauseBegins \/ CloseBegins
  <2>1. /\ run'.phase = run.phase /\ run'.plan = run.plan /\ run'.pending = run.pending
        /\ worker' = worker
        /\ run'.base = run.base /\ run'.count = run.count /\ run'.fails = run.fails
    BY <1>3, <1>a DEF PauseBegins, CloseBegins, Run
  <2>2. ~Start
    BY <1>3 DEF PauseBegins, CloseBegins, Start, MayStart
  <2> QED BY <1>e, <2>1, <2>2
<1>4. CASE Die \/ WatcherPanics
  <2>1. \A w \in Worker : worker'[w].at \in {"gone", "idle"}
    BY <1>4 DEF Die, WatcherPanics, Restarts, Idle
  <2>2. /\ run'.phase # "work"
        /\ run'.base = 0 /\ run'.count = 0 /\ run'.fails = 0
    BY <1>4 DEF Die, WatcherPanics, Restarts, InitRun
  <2> QED BY <1>d, <2>1, <2>2 DEF CountsAddUp
<1>5. ASSUME NEW w \in Worker, WorkerStep(w)
      PROVE  CountsAddUp'
  <2>0. /\ run.phase = "work" /\ run'.phase = "work" /\ run'.plan = run.plan
        /\ \A v \in Worker \ {w} : worker'[v] = worker[v]
    BY <1>5, WorkerFrame, WorkerEffect
  <2>0a. /\ run'.base = run.base
         /\ \/ run'.count = run.count /\ run'.fails = run.fails
            \/ run'.count = run.count /\ run'.fails = run.fails + 1 /\ Busy(w) /\ ~Busy(w)'
            \/ /\ run'.count = run.count + 1 /\ run'.fails = run.fails
               /\ worker[w].at = "journal" /\ Busy(w) /\ ~Busy(w)'
    BY <1>5, CountEffect
  <2>1. ~Start
    BY <2>0 DEF Start, MayStart, Active
  <2>2. OnDisk \subseteq OnDisk'
    BY <2>0, <2>1, DiskGrows
  <2>3. Due' \subseteq Due
    BY <1>5, DueEffect
  <2>4. /\ Cardinality(Seg \ Due) <= Cardinality(Seg \ Due')
        /\ \A s \in (Seg \ Due') \ (Seg \ Due) :
              Cardinality(Seg \ Due) + 1 <= Cardinality(Seg \ Due')
    <3>1. Seg \ Due' \subseteq Seg /\ Seg \ Due \subseteq Seg \ Due'
      BY <2>3
    <3> QED BY <3>1, Grows
  <2>5. /\ Cardinality(OnDisk \ Due) <= Cardinality(OnDisk' \ Due')
        /\ \A s \in (OnDisk' \ Due') \ (OnDisk \ Due) :
              Cardinality(OnDisk \ Due) + 1 <= Cardinality(OnDisk' \ Due')
    <3>1. OnDisk' \ Due' \subseteq Seg /\ OnDisk \ Due \subseteq OnDisk' \ Due'
      BY <1>c, <2>2, <2>3
    <3> QED BY <3>1, Grows
  <2>6. Busy(w) /\ ~Busy(w)' => /\ worker[w].seg \in (Seg \ Due') \ (Seg \ Due)
                               /\ (worker[w].at = "journal" =>
                                    worker[w].seg \in (OnDisk' \ Due') \ (OnDisk \ Due))
    BY <1>5, <2>2, DueEffect DEF CountsAddUp
  <2>7. /\ run.base + run.count + run.fails <= Cardinality(Seg \ Due)
        /\ run.base + run.count <= Cardinality(OnDisk \ Due)
    BY <2>0 DEF CountsAddUp
  <2>8. Unfinished'
    <3>1. Busy(w) /\ ~Busy(w)' =>
            Cardinality(Seg \ Due) + 1 <= Cardinality(Seg \ Due')
      BY <2>4, <2>6
    <3>2. run'.base + run'.count + run'.fails <= Cardinality(Seg \ Due')
      BY <1>a, <1>d, <2>0a, <2>4, <2>7, <3>1
    <3> QED BY <3>2 DEF Unfinished
  <2>9. Downloaded'
    <3>1. Busy(w) /\ ~Busy(w)' /\ worker[w].at = "journal" =>
            Cardinality(OnDisk \ Due) + 1 <= Cardinality(OnDisk' \ Due')
      BY <2>5, <2>6
    <3>2. run'.base + run'.count <= Cardinality(OnDisk' \ Due')
      BY <1>a, <1>d, <2>0a, <2>5, <2>7, <3>1
    <3> QED BY <3>2 DEF Downloaded
  <2>10. Stored'
    <3>1. ASSUME NEW v \in Worker \ {w}, worker'[v].at = "journal"
          PROVE  worker'[v].seg \in OnDisk'
      BY <2>0, <2>2, <3>1 DEF CountsAddUp
    <3>2. ASSUME worker'[w].at = "journal"
          PROVE  worker'[w].seg \in OnDisk'
      <4>1. Put(w) /\ worker'[w].seg = worker[w].seg
        BY <1>5, <3>2, CountEffect
      <4>2. /\ staged' = [staged EXCEPT ![run.plan.sid][worker[w].seg] = run.plan.hash]
            /\ worker[w].seg \in Seg
        BY <4>1 DEF Put, Working, WorkIsDealt, Busy
      <4>3. run.plan \in Plan /\ run.plan.sid \in Sid /\ run.plan.hash # Nil
        BY <2>0, NilAssumption DEF RunHasPlan, Active, TypeOK, Plan
      <4> QED BY <2>0, <4>1, <4>2, <4>3 DEF OnDisk, TypeOK
    <3> QED BY <3>1, <3>2 DEF Stored
  <2> QED BY <2>8, <2>9, <2>10 DEF CountsAddUp, Unfinished, Downloaded, Stored
<1>6. ASSUME Merging
      PROVE  CountsAddUp'
  <2>1. ~Start
    BY <1>6, MergingFrame DEF Start, MayStart, Active
  <2> QED BY <1>6, <1>e, <2>1, MergingEffect, MergingFrame
<1> QED
  BY <1>1, <1>2, <1>3, <1>4, <1>5, <1>6 DEF Next, Calls, Supervise, Merging

-----------------------------------------------------------------------------
(* The staging folders and their journals.                                 *)

LEMMA FoldersStep ==
  ASSUME TypeOK, RunHasPlan, FoldersAreOwn, WorkIsDealt, [Next]_vars
  PROVE  FoldersAreOwn'
<1> USE DEF FoldersAreOwn
<1>a. Plans \subseteq Plan /\ nextSid \in 1 .. MaxSid + 1
  BY DEF TypeOK, Plans, Record
<1>b. \A p \in Plan : p.sid \in Sid /\ p.hash \in Version
  BY DEF Plan
\* Less is known and less is staged.
<1>1. ASSUME Plans' \subseteq Plans, nextSid' = nextSid,
             \A i \in Sid, s \in Seg : staged'[i][s] \in {staged[i][s], Nil},
             \A i \in Sid : staged[i] = EmptyFolder => staged'[i] = EmptyFolder
      PROVE  FoldersAreOwn'
  BY <1>1, <1>a, <1>b
\* A new plan gets a new folder.
<1>2. ASSUME plan' = FreshPlan, nextSid' = nextSid + 1, nextSid <= MaxSid,
             UNCHANGED <<staged, saved>>
      PROVE  FoldersAreOwn'
  <2>1. /\ nextSid \in Sid /\ FreshPlan.sid = nextSid
        /\ \A s \in Seg : staged[nextSid][s] = Nil
    BY <1>2, <1>a DEF Sid, FreshPlan, EmptyFolder
  <2>2. Plans' \subseteq Plans \cup {FreshPlan}
    BY <1>2 DEF Plans
  <2>3. \A p \in Plans : p.sid < nextSid /\ p.sid \in Nat
    BY <1>a, <1>b DEF Sid
  <2>4. \A p, q \in Plans' : p.sid = q.sid => p.hash = q.hash
    BY <1>a, <2>1, <2>2, <2>3
  <2>5. \A p \in Plans' : p.sid < nextSid'
    BY <1>2, <1>a, <2>1, <2>2, <2>3
  <2>6. \A p \in Plans', s \in Seg : staged'[p.sid][s] \in {p.hash, Nil}
    BY <1>2, <2>1, <2>2
  <2>7. \A i \in Sid : i >= nextSid' => staged'[i] = EmptyFolder
    BY <1>2, <1>a DEF Sid
  <2> QED BY <2>4, <2>5, <2>6, <2>7
<1>3. ASSUME NEW p \in Plan, RemoveStaging(p.sid), Plans' \subseteq Plans, nextSid' = nextSid
      PROVE  FoldersAreOwn'
  <2>1. \A i \in Sid : staged'[i] \in {staged[i], EmptyFolder}
    BY <1>3 DEF RemoveStaging, TypeOK
  <2> QED BY <1>1, <1>3, <2>1 DEF EmptyFolder
<1>4. CASE Resolve
  BY <1>2, <1>4 DEF Resolve, disk
<1>5. CASE Start \/ StartFails
  <2>1. UNCHANGED <<staged, saved>> /\ MayStart
    BY <1>5 DEF Start, StartFails, disk
  <2>2. CASE plan # Nil
    BY <1>1, <2>1, <2>2 DEF MayStart, Plans
  <2>3. CASE plan = Nil
    BY <1>2, <2>1, <2>3 DEF MayStart
  <2> QED BY <2>2, <2>3
<1>6. ASSUME UNCHANGED <<staged, plan, saved, nextSid>>
      PROVE  FoldersAreOwn'
  BY <1>1, <1>6 DEF Plans
<1>7. CASE \/ PauseBegins \/ CloseBegins \/ PauseEnds \/ Sends \/ WatcherTakes \/ UNCHANGED vars
  BY <1>6, <1>7 DEF PauseBegins, CloseBegins, PauseEnds, Sends, WatcherTakes, vars, disk, task
<1>8. CASE Patch \/ CloseEnds
  <2>1. /\ nextSid' = nextSid /\ Plans' \subseteq Plans
        /\ IF plan # Nil THEN RemoveStaging(plan.sid) ELSE UNCHANGED <<staged, journals>>
    BY <1>8 DEF Patch, CloseEnds, Plans, task
  <2>2. CASE plan # Nil
    BY <1>3, <2>1, <2>2 DEF TypeOK
  <2>3. CASE plan = Nil
    BY <1>1, <2>1, <2>3
  <2> QED BY <2>2, <2>3
<1>9. CASE Save
  <2>1. Plans' \subseteq Plans /\ UNCHANGED <<staged, nextSid>>
    BY <1>9 DEF Save, Snapshot, Plans, task, disk
  <2> QED BY <1>1, <2>1
<1>10. CASE Die \/ WatcherPanics
  <2>1. Plans' \subseteq Plans /\ UNCHANGED <<staged, nextSid>>
    BY <1>10 DEF Die, WatcherPanics, Restarts, Snapshot, Plans, disk, TypeOK, Record
  <2> QED BY <1>1, <2>1
<1>11. CASE Vanishes
  <2>1. PICK s \in Seg : /\ staged[plan.sid][s] # Nil
                         /\ staged' = [staged EXCEPT ![plan.sid][s] = Nil]
    BY <1>11 DEF Vanishes
  <2>2. \A i \in Sid, r \in Seg : staged'[i][r] \in {staged[i][r], Nil}
    BY <2>1 DEF TypeOK
  <2>3. \A i \in Sid : staged[i] = EmptyFolder => staged'[i] = EmptyFolder
    BY <2>1 DEF EmptyFolder, TypeOK
  <2> QED BY <1>1, <1>11, <2>2, <2>3 DEF Vanishes, Plans, task
<1>12. ASSUME NEW w \in Worker, WorkerStep(w)
      PROVE  FoldersAreOwn'
  <2>1. UNCHANGED <<plan, saved, nextSid>> /\ Plans' = Plans
    BY <1>12, WorkerFrame DEF task, Plans
  <2>2. CASE ~Put(w)
    <3>1. UNCHANGED staged
      BY <1>12, <2>2 DEF WorkerStep, Take, Quit, Fetched, Retries, FetchFails, FetchCancelled,
                         PutFails, SaveJournal, JournalFails, disk
    <3> QED BY <1>6, <2>1, <3>1
  <2>3. CASE Put(w)
    <3>1. /\ staged' = [staged EXCEPT ![run.plan.sid][worker[w].seg] = run.plan.hash]
          /\ worker[w].seg \in Seg
      BY <2>3 DEF Put, Working, WorkIsDealt, Busy
    <3>2. run.plan = plan /\ plan \in Plans /\ plan \in Plan
      BY <2>3 DEF Put, Working, RunHasPlan, Active, TypeOK, Plans
    <3>3. plan.sid \in Sid /\ plan.sid < nextSid
      BY <1>b, <3>2
    <3>4. \A p \in Plans, s \in Seg : staged'[p.sid][s] \in {p.hash, Nil}
      BY <1>a, <1>b, <3>1, <3>2 DEF TypeOK
    <3>5. \A i \in Sid : i >= nextSid => staged'[i] = EmptyFolder
      <4> TAKE i \in Sid
      <4> HAVE i >= nextSid
      <4>1. i # plan.sid
        BY <1>a, <3>3 DEF Sid
      <4>2. staged'[i] = staged[i]
        BY <3>1, <3>2, <4>1 DEF TypeOK
      <4> QED BY <4>2
    <3> QED BY <2>1, <3>4, <3>5
  <2> QED BY <2>2, <2>3
<1>13. ASSUME Merging
      PROVE  FoldersAreOwn'
  <2>1. UNCHANGED <<plan, saved, nextSid>> /\ Plans' = Plans
    BY <1>13, MergingFrame DEF task, Plans
  <2>2. CASE ~Merged
    <3>1. UNCHANGED staged
      BY <1>13, <2>2 DEF Merging, Joins, MergeReads, MergeFails, MergeRemoves, MergeRenames,
                         RenameFails, Detaches, disk
    <3> QED BY <1>6, <2>1, <3>1
  <2>3. CASE Merged
    <3>1. UNCHANGED staged \/ RemoveStaging(run.plan.sid)
      BY <2>3 DEF Merged
    <3>2. run.plan \in Plan
      BY <2>3 DEF Merged, Supervising, RunHasPlan, Active, TypeOK
    <3> QED BY <1>3, <1>6, <2>1, <3>1, <3>2
  <2> QED BY <2>2, <2>3
<1> QED
  BY <1>4, <1>5, <1>7, <1>8, <1>9, <1>10, <1>11, <1>12, <1>13
     DEF Next, Calls, Returns, Supervise, Merging

\* The segments still to be fetched or put.
Owned == run.pending \cup {worker[w].seg : w \in {v \in Worker : worker[v].at \in {"fetch", "put"}}}

JournalRead ==
  run.phase = "work" => (journals[run.plan.sid].hash = run.plan.hash
                           => journals[run.plan.sid].done \subseteq run.journal)
NoneTwice ==
  run.phase = "work" =>
    \A s \in Owned : staged[run.plan.sid][s] = Nil \/ s \notin run.journal

LEMMA JournalParts == JournalIsKnown <=> JournalRead /\ NoneTwice
  BY DEF JournalIsKnown, JournalRead, NoneTwice, Owned

\* A worker owns what it owned or what it takes; it gives up what it puts, and keeps in the
\* run's journal only what it has put.
LEMMA OwnedEffect ==
  ASSUME TypeOK, WorkIsDealt, NEW w \in Worker, WorkerStep(w)
  PROVE  /\ Owned' \subseteq Owned
         /\ \/ run'.journal = run.journal /\ UNCHANGED journals
               /\ (UNCHANGED staged \/ (Put(w) /\ worker[w].seg \notin Owned'))
            \/ /\ run'.journal = run.journal \cup {worker[w].seg} /\ UNCHANGED staged
               /\ worker[w].seg \notin Owned' /\ SaveJournal(w)
            \/ /\ run'.journal = run.journal \cup {worker[w].seg} /\ UNCHANGED staged
               /\ worker[w].seg \notin Owned' /\ UNCHANGED journals
<1>a. run \in Run /\ worker \in [Worker -> [at : {"idle", "fetch", "put", "journal", "gone"},
                                        seg : 0 .. Segments, tries : 0 .. MaxRetries]]
  BY DEF TypeOK
<1>b. \A v \in Worker \ {w} : worker'[v] = worker[v]
  BY WorkerEffect
<1>1. ASSUME run'.pending \subseteq run.pending,
             worker'[w].at \in {"fetch", "put"} =>
               worker'[w].seg \in run.pending \/
               (worker[w].at \in {"fetch", "put"} /\ worker'[w].seg = worker[w].seg)
      PROVE  Owned' \subseteq Owned
  BY <1>1, <1>b DEF Owned
<1>2. ASSUME run'.pending = run.pending, worker'[w].at \notin {"fetch", "put"}, Busy(w)
      PROVE  worker[w].seg \notin Owned'
  <2>1. worker[w].seg \notin run'.pending
    BY <1>2 DEF WorkIsDealt
  <2>2. ASSUME NEW v \in Worker, worker'[v].at \in {"fetch", "put"}
        PROVE  worker'[v].seg # worker[w].seg
    <3>1. v # w /\ worker'[v] = worker[v] /\ Busy(v)
      BY <1>2, <1>b, <2>2 DEF Busy
    <3> QED BY <1>2, <3>1 DEF WorkIsDealt
  <2> QED BY <2>1, <2>2 DEF Owned
<1>3. CASE Take(w)
  <2>1. PICK s \in run.pending :
          /\ worker' = [worker EXCEPT ![w] = [at |-> "fetch", seg |-> s, tries |-> 0]]
          /\ run' = [run EXCEPT !.pending = @ \ {s}]
    BY <1>3 DEF Take
  <2>2. /\ run'.pending \subseteq run.pending /\ run'.journal = run.journal
        /\ worker'[w].seg \in run.pending
    BY <1>a, <2>1 DEF Run
  <2> QED BY <1>1, <1>3, <2>2 DEF Take, disk
<1>4. CASE Quit(w) \/ FetchCancelled(w) \/ Fetched(w) \/ Retries(w)
  <2>1. UNCHANGED <<run, staged, journals>>
    BY <1>4 DEF Quit, FetchCancelled, Fetched, Retries, disk
  <2>2. worker'[w].at \in {"fetch", "put"} =>
               (worker[w].at \in {"fetch", "put"} /\ worker'[w].seg = worker[w].seg)
    BY <1>a, <1>4 DEF Quit, FetchCancelled, Fetched, Retries, Working, Leaves, Goes, Idle
  <2> QED BY <1>1, <2>1, <2>2
<1>5. CASE Put(w)
  <2>1. UNCHANGED <<run, journals>> /\ worker'[w].at = "journal" /\ Busy(w)
    BY <1>a, <1>5 DEF Put, Goes, Working, Busy
  <2> QED BY <1>1, <1>2, <1>5, <2>1
<1>6. CASE FetchFails(w) \/ PutFails(w)
  <2>1. /\ UNCHANGED <<staged, journals>> /\ worker'[w].at = "idle"
        /\ run'.pending = run.pending /\ run'.journal = run.journal
    BY <1>a, <1>6 DEF FetchFails, PutFails, Rest, disk, Run
  <2> QED BY <1>1, <2>1
<1>7. CASE SaveJournal(w)
  <2>1. /\ run' = [run EXCEPT !.journal = run.journal \cup {worker[w].seg}, !.count = @ + 1]
        /\ UNCHANGED staged /\ worker'[w].at = "idle" /\ Busy(w)
    BY <1>a, <1>7 DEF SaveJournal, Rest, Working, Busy
  <2>2. run'.pending = run.pending /\ run'.journal = run.journal \cup {worker[w].seg}
    BY <1>a, <2>1 DEF Run
  <2> QED BY <1>1, <1>2, <1>7, <2>1, <2>2
<1>8. CASE JournalFails(w)
  <2>1. /\ run' = [run EXCEPT !.journal = run.journal \cup {worker[w].seg}, !.fails = @ + 1]
        /\ UNCHANGED <<staged, journals>> /\ worker'[w].at = "idle" /\ Busy(w)
    BY <1>a, <1>8 DEF JournalFails, Rest, Working, Busy, disk
  <2>2. run'.pending = run.pending /\ run'.journal = run.journal \cup {worker[w].seg}
    BY <1>a, <2>1 DEF Run
  <2> QED BY <1>1, <1>2, <1>8, <2>1, <2>2
<1> QED BY <1>3, <1>4, <1>5, <1>6, <1>7, <1>8 DEF WorkerStep

LEMMA JournalStep ==
  ASSUME TypeOK, WorkIsDealt, RunHasPlan, ClosedIsOver, JournalIsKnown, [Next]_vars
  PROVE  JournalIsKnown'
<1>a. run \in Run
  BY DEF TypeOK
<1>b. run.phase = "work" => /\ Active /\ run.plan = plan /\ plan \in Plan
                            /\ plan.sid \in Sid
  BY DEF RunHasPlan, Active, TypeOK, Plan
\* The run and its workers stay, and files may disappear.
<1>1. ASSUME run'.phase = run.phase, run'.plan = run.plan, run'.pending = run.pending,
             run'.journal = run.journal, UNCHANGED <<worker, journals>>,
             \A i \in Sid, s \in Seg : staged'[i][s] \in {staged[i][s], Nil}
      PROVE  JournalIsKnown'
  <2>1. Owned' = Owned /\ Owned \subseteq Seg
    BY <1>1, <1>a DEF Owned, WorkIsDealt, Busy, Run
  <2> QED BY <1>1, <1>b, <2>1 DEF JournalIsKnown, Owned
<1>2. ASSUME UNCHANGED <<run, worker, staged, journals>>
      PROVE  JournalIsKnown'
  BY <1>1, <1>2
<1>3. ASSUME \/ Resolve \/ StartFails \/ PauseEnds \/ Sends \/ WatcherTakes \/ Save
             \/ UNCHANGED vars
      PROVE  JournalIsKnown'
  BY <1>2, <1>3 DEF Resolve, StartFails, PauseEnds, Sends, WatcherTakes, Save, vars, disk
<1>4. CASE PauseBegins \/ CloseBegins
  <2>1. /\ run'.phase = run.phase /\ run'.plan = run.plan /\ run'.pending = run.pending
        /\ run'.journal = run.journal /\ UNCHANGED <<worker, staged, journals>>
    BY <1>4, <1>a DEF PauseBegins, CloseBegins, Run, disk
  <2> QED BY <1>1, <2>1
<1>5. CASE Vanishes
  <2>1. /\ UNCHANGED <<run, worker, journals>>
        /\ \A i \in Sid, s \in Seg : staged'[i][s] \in {staged[i][s], Nil}
    BY <1>5 DEF Vanishes, TypeOK
  <2> QED BY <1>1, <2>1
<1>6. CASE Patch \/ CloseEnds
  <2>1. ~Active /\ UNCHANGED run
    BY <1>6, CloseEndsLast DEF Patch, CloseEnds
  <2> QED BY <2>1 DEF JournalIsKnown, Active
<1>7. CASE Die \/ WatcherPanics
  BY <1>7 DEF Die, WatcherPanics, Restarts, InitRun, JournalIsKnown
<1>8. CASE Start
  <2>1. \A w \in Worker : worker'[w].at \in {"gone", "idle"}
    BY <1>8 DEF Start, Launched, Idle
  <2>2. /\ run'.plan = plan' /\ run'.journal = Known(plan')
        /\ run'.pending = Seg \ Finished(plan')
    BY <1>8, Starting DEF StartedRun, InitRun
  <2>3. UNCHANGED <<staged, journals>>
    BY <1>8 DEF Start
  <2>4. Owned' = Seg \ Finished(plan')
    BY <2>1, <2>2 DEF Owned
  <2>5. JournalRead'
    BY <2>2, <2>3 DEF JournalRead, Known
  <2>6. NoneTwice'
    BY <2>2, <2>3, <2>4 DEF NoneTwice, Known, Finished
  <2> QED BY <2>5, <2>6 DEF JournalIsKnown, JournalRead, NoneTwice, Owned
<1>9. ASSUME NEW w \in Worker, WorkerStep(w)
      PROVE  JournalIsKnown'
  <2>0. /\ run.phase = "work" /\ run'.phase = "work" /\ run'.plan = run.plan
        /\ run.plan.sid \in Sid
    BY <1>9, <1>b, WorkerFrame, WorkerEffect
  <2>1. /\ \A s \in Owned : staged[run.plan.sid][s] = Nil \/ s \notin run.journal
        /\ journals[run.plan.sid].hash = run.plan.hash
             => journals[run.plan.sid].done \subseteq run.journal
    BY <2>0 DEF JournalIsKnown, Owned
  <2>2. Owned' \subseteq Owned
    BY <1>9, OwnedEffect
  <2>3. CASE run'.journal = run.journal /\ UNCHANGED <<journals, staged>>
    BY <2>0, <2>1, <2>2, <2>3 DEF JournalIsKnown, Owned
  <2>4. ASSUME run'.journal = run.journal, UNCHANGED journals, Put(w), worker[w].seg \notin Owned'
        PROVE  JournalIsKnown'
    <3>1. staged' = [staged EXCEPT ![run.plan.sid][worker[w].seg] = run.plan.hash]
      BY <2>4 DEF Put
    <3>2. \A s \in Owned' : staged'[run.plan.sid][s] = staged[run.plan.sid][s]
      BY <2>0, <2>4, <3>1 DEF TypeOK
    <3> QED BY <2>0, <2>1, <2>2, <2>4, <3>2 DEF JournalIsKnown, Owned
  <2>5. ASSUME run'.journal = run.journal \cup {worker[w].seg}, UNCHANGED staged,
               worker[w].seg \notin Owned', SaveJournal(w) \/ UNCHANGED journals
        PROVE  JournalIsKnown'
    <3>1. JournalRead'
      <4>1. CASE UNCHANGED journals
        BY <2>0, <2>1, <2>5, <4>1 DEF JournalRead
      <4>2. CASE SaveJournal(w)
        <5>1. journals'[run.plan.sid].done = run'.journal
          BY <2>0, <2>5, <4>2 DEF SaveJournal, TypeOK
        <5> QED BY <2>0, <5>1 DEF JournalRead
      <4> QED BY <2>5, <4>1, <4>2
    <3>2. NoneTwice'
      BY <2>0, <2>1, <2>2, <2>5 DEF NoneTwice
    <3> QED BY <3>1, <3>2 DEF JournalIsKnown, JournalRead, NoneTwice, Owned
  <2> QED BY <1>9, <2>3, <2>4, <2>5, OwnedEffect
<1>10. ASSUME Merging
       PROVE  JournalIsKnown'
  BY <1>10, MergingEffect DEF JournalIsKnown
<1> QED
  BY <1>3, <1>4, <1>5, <1>6, <1>7, <1>8, <1>9, <1>10 DEF Next, Calls, Returns, Supervise, Merging

-----------------------------------------------------------------------------
(* The output.                                                             *)

\* Only the supervisor's last steps touch the output file.
LEMMA TargetFrame ==
  ASSUME [Next]_vars, ~MergeRemoves, ~MergeRenames
  PROVE  UNCHANGED target
<1>1. CASE Calls \/ Returns
  BY <1>1 DEF Calls, Returns, Resolve, Start, StartFails, PauseBegins, Patch, CloseBegins,
              PauseEnds, CloseEnds, disk
<1>2. CASE \E w \in Worker : WorkerStep(w)
  BY <1>2, WorkerFrame
<1>3. CASE Supervise
  BY <1>3 DEF Supervise, Joins, MergeReads, MergeFails, RenameFails, Merged, Detaches, Sends, disk
<1>4. CASE WatcherTakes \/ WatcherPanics \/ Save \/ Die \/ Vanishes \/ UNCHANGED vars
  BY <1>4 DEF WatcherTakes, WatcherPanics, Restarts, Save, Die, Vanishes, vars, disk
<1> QED BY <1>1, <1>2, <1>3, <1>4 DEF Next

LEMMA MergeStep ==
  ASSUME TypeOK, RunHasPlan, FoldersAreOwn, MergeIsWhole, [Next]_vars
  PROVE  MergeIsWhole'
<1>a. run \in Run
  BY DEF TypeOK
<1>1. ASSUME \/ Resolve \/ StartFails \/ Patch \/ Returns \/ Sends \/ WatcherTakes \/ Save
             \/ Vanishes \/ UNCHANGED vars
      PROVE  MergeIsWhole'
  BY <1>1 DEF Resolve, StartFails, Patch, Returns, PauseEnds, CloseEnds, Sends, WatcherTakes,
              Save, Vanishes, vars, disk, MergeIsWhole
<1>2. CASE Start
  BY <1>2, Starting DEF StartedRun, InitRun, MergeIsWhole
<1>3. CASE PauseBegins \/ CloseBegins
  <2>1. /\ run'.phase = run.phase /\ run'.plan = run.plan /\ run'.out = run.out
        /\ run'.ok = run.ok /\ UNCHANGED target
    BY <1>3, <1>a DEF PauseBegins, CloseBegins, Run, disk
  <2> QED BY <2>1 DEF MergeIsWhole
<1>4. CASE Die \/ WatcherPanics
  BY <1>4 DEF Die, WatcherPanics, Restarts, InitRun, MergeIsWhole
<1>5. ASSUME NEW w \in Worker, WorkerStep(w)
      PROVE  MergeIsWhole'
  BY <1>5, WorkerEffect DEF MergeIsWhole
<1>6. ASSUME Merging
      PROVE  MergeIsWhole'
  <2>0. run'.plan = run.plan
    BY <1>6, MergingEffect
  <2>1. ASSUME Reports(FALSE) \/ ClearActiveRun
        PROVE  MergeIsWhole'
    BY <1>a, <2>1 DEF Reports, ClearActiveRun, NoRun, Run, MergeIsWhole
  <2>2. CASE Joins
    BY <1>a, <2>1, <2>2 DEF Joins, Turns, Run, MergeIsWhole
  <2>3. CASE MergeReads
    <3>1. CASE MissingSegments
      BY <2>1, <2>3, <3>1 DEF MergeReads
    <3>2. CASE ~MissingSegments
      <4>1. run.plan = plan /\ plan \in Plans /\ run.plan \in Plan /\ run.plan.sid \in Sid
        BY <2>3 DEF MergeReads, Supervising, RunHasPlan, Active, TypeOK, Plan, Plans
      <4>2. \A s \in Seg : staged[run.plan.sid][s] = run.plan.hash
        BY <3>2, <4>1 DEF FoldersAreOwn, MissingSegments
      <4>3. staged[run.plan.sid] = Whole(run.plan.hash)
        BY <4>1, <4>2 DEF Whole, TypeOK
      <4>4. run'.out = Whole(run'.plan.hash) /\ run'.phase = "remove"
        BY <1>a, <2>0, <2>3, <3>2, <4>3 DEF MergeReads, Run
      <4> QED BY <4>4 DEF MergeIsWhole
    <3> QED BY <3>1, <3>2
  <2>4. CASE MergeFails \/ RenameFails
    BY <2>1, <2>4 DEF MergeFails, RenameFails
  <2>5. CASE MergeRemoves
    <3>1. run'.out = run.out /\ run'.phase = "rename"
      BY <1>a, <2>5 DEF MergeRemoves, Turns, Run
    <3> QED BY <2>0, <2>5, <3>1 DEF MergeRemoves, Supervising, MergeIsWhole
  <2>6. CASE MergeRenames
    <3>1. run'.phase = "merged" /\ target' = run.out
      BY <1>a, <2>6 DEF MergeRenames, Turns, Run
    <3> QED BY <2>0, <2>6, <3>1 DEF MergeRenames, Supervising, MergeIsWhole
  <2>7. CASE Merged
    <3>1. UNCHANGED target /\ run.phase = "merged"
      BY <2>7 DEF Merged, Supervising
    <3>2. ASSUME Reports(TRUE)
          PROVE  MergeIsWhole'
      BY <1>a, <2>0, <3>1, <3>2 DEF Reports, Run, MergeIsWhole
    <3> QED BY <2>1, <2>7, <3>2 DEF Merged
  <2>8. CASE Detaches
    BY <2>1, <2>8 DEF Detaches
  <2> QED BY <1>6, <2>2, <2>3, <2>4, <2>5, <2>6, <2>7, <2>8 DEF Merging
<1> QED
  BY <1>1, <1>2, <1>3, <1>4, <1>5, <1>6 DEF Next, Calls, Supervise, Merging

LEMMA TargetStep ==
  ASSUME TypeOK, RunHasPlan, MergeIsWhole, TargetIsWhole, [Next]_vars
  PROVE  TargetIsWhole'
<1>1. CASE MergeRemoves
  BY <1>1 DEF MergeRemoves, TargetIsWhole
<1>2. CASE MergeRenames
  <2>1. target' = Whole(run.plan.hash)
    BY <1>2 DEF MergeRenames, Supervising, MergeIsWhole
  <2>2. run.plan.hash \in Version
    BY <1>2 DEF MergeRenames, Supervising, RunHasPlan, Active, TypeOK, Plan
  <2> QED BY <2>1, <2>2 DEF TargetIsWhole, Whole
<1>3. CASE ~MergeRemoves /\ ~MergeRenames
  BY <1>3, TargetFrame DEF TargetIsWhole
<1> QED BY <1>1, <1>2, <1>3

-----------------------------------------------------------------------------
(* Results and the end.                                                    *)

LEMMA ClosedStep ==
  ASSUME TypeOK, ClosedIsOver, [Next]_vars
  PROVE  ClosedIsOver'
<1> USE DEF ClosedIsOver
<1>a. run \in Run
  BY DEF TypeOK
<1>1. CASE Resolve \/ Start \/ StartFails \/ Patch
  BY <1>1 DEF Resolve, Start, StartFails, MayStart, Patch, calls, Free
<1>2. CASE PauseBegins \/ PauseEnds
  BY <1>2 DEF PauseBegins, PauseEnds, Free, task
<1>3. CASE CloseBegins
  <2>1. /\ run'.no = run.no /\ closed' /\ status' = "deleted"
        /\ run'.phase = run.phase
        /\ op' = [kind |-> "close", run |-> IF Active THEN run.no ELSE 0]
    BY <1>3, <1>a DEF CloseBegins, Run
  <2> QED BY <2>1 DEF Active, Free
<1>4. CASE CloseEnds
  <2>1. closed /\ ~Active /\ UNCHANGED <<closed, status, run>> /\ op'.kind = "none"
    BY <1>4, CloseEndsLast DEF CloseEnds, task
  <2> QED BY <2>1 DEF Active
<1>5. ASSUME NEW w \in Worker, WorkerStep(w)
      PROVE  ClosedIsOver'
  BY <1>5, WorkerFrame, WorkerEffect DEF task, calls, Active, Free
<1>6. ASSUME Merging
      PROVE  ClosedIsOver'
  BY <1>6, MergingFrame, MergingEffect DEF task, calls, Active, Free, Phase
<1>7. CASE Sends \/ Save \/ Vanishes \/ UNCHANGED vars
  BY <1>7 DEF Sends, Save, Vanishes, vars, task, calls, Active, Free
<1>8. CASE WatcherTakes
  BY <1>8 DEF WatcherTakes, Discarded, task, Active, Free
<1>9. CASE Die \/ WatcherPanics
  BY <1>9, RestartFrame
<1> QED
  BY <1>1, <1>2, <1>3, <1>4, <1>5, <1>6, <1>7, <1>8, <1>9
     DEF Next, Calls, Returns, Supervise, Merging

LEMMA LeavesNothingStep ==
  ASSUME TypeOK, WorkIsDealt, ClosedIsOver, ClosedLeavesNothing, [Next]_vars
  PROVE  ClosedLeavesNothing'
<1>1. CASE Resolve \/ Start \/ StartFails \/ Patch \/ PauseBegins
  BY <1>1 DEF Resolve, Start, StartFails, MayStart, Patch, PauseBegins, task, ClosedIsOver,
              ClosedLeavesNothing
<1>2. CASE CloseBegins \/ PauseEnds \/ Die \/ WatcherPanics
  <2>1. ~closed' \/ ~Free'
    BY <1>2 DEF CloseBegins, PauseEnds, Die, WatcherPanics, Restarts, Free, task, ClosedIsOver
  <2> QED BY <2>1 DEF ClosedLeavesNothing
<1>3. CASE CloseEnds
  <2>1. /\ UNCHANGED plan
        /\ plan # Nil => plan.sid \in Sid /\ RemoveStaging(plan.sid)
    BY <1>3 DEF CloseEnds, task, TypeOK, Plan
  <2> QED BY <2>1 DEF RemoveStaging, EmptyFolder, EmptyJournal, TypeOK, ClosedLeavesNothing
<1>4. ASSUME NEW w \in Worker, WorkerStep(w)
      PROVE  ClosedLeavesNothing'
  <2>1. Active /\ UNCHANGED <<closed, op>>
    BY <1>4, WorkerFrame DEF task, calls, Active
  <2> QED BY <2>1 DEF ClosedIsOver, ClosedLeavesNothing, Free
<1>5. ASSUME Merging
      PROVE  ClosedLeavesNothing'
  <2>1. Active /\ UNCHANGED <<closed, op>>
    BY <1>5, MergingFrame DEF task, calls, Active
  <2> QED BY <2>1 DEF ClosedIsOver, ClosedLeavesNothing, Free
<1>6. CASE Sends \/ WatcherTakes \/ Save \/ UNCHANGED vars
  BY <1>6 DEF Sends, WatcherTakes, Save, vars, task, disk, calls, Free, EmptyFolder, EmptyJournal,
              ClosedLeavesNothing
<1>7. CASE Vanishes
  <2>1. UNCHANGED <<plan, closed, op>> /\ plan # Nil
    BY <1>7 DEF Vanishes, task, calls
  <2>2. staged[plan.sid] # EmptyFolder
    BY <1>7 DEF Vanishes, EmptyFolder
  <2> QED BY <2>1, <2>2 DEF ClosedLeavesNothing, Free
<1> QED
  BY <1>1, <1>2, <1>3, <1>4, <1>5, <1>6, <1>7
     DEF Next, Calls, Returns, Supervise, Merging

\* No step changes whether the watcher is prompt.
LEMMA PromptStays ==
  ASSUME TypeOK, [Next]_vars
  PROVE  budget'.prompt = budget.prompt
<1>a. budget \in Budget
  BY DEF TypeOK
<1>1. ASSUME UNCHANGED budget
      PROVE  budget'.prompt = budget.prompt
  BY <1>1
<1>2. CASE Calls \/ Returns
  BY <1>2, <1>a, SpendingKeepsBudget
     DEF Calls, Returns, Resolve, Start, StartFails, PauseBegins, Patch, CloseBegins,
         PauseEnds, CloseEnds
<1>3. ASSUME NEW w \in Worker, WorkerStep(w)
      PROVE  budget'.prompt = budget.prompt
  BY <1>3, <1>a, SpendingKeepsBudget
     DEF WorkerStep, Take, Quit, Fetched, Retries, FetchFails, FetchCancelled, Put, PutFails,
         SaveJournal, JournalFails
<1>4. CASE Supervise
  BY <1>4, <1>a, SpendingKeepsBudget
     DEF Supervise, Joins, MergeReads, MergeFails, MergeRemoves, MergeRenames, RenameFails,
         Merged, Detaches, Sends
<1>5. CASE WatcherTakes \/ WatcherPanics \/ Save \/ Die \/ Vanishes \/ UNCHANGED vars
  BY <1>5, <1>a, SpendingKeepsBudget DEF WatcherTakes, WatcherPanics, Restarts, Save, Die, Vanishes, vars
<1> QED BY <1>2, <1>3, <1>4, <1>5 DEF Next

LEMMA ResultsStep ==
  ASSUME TypeOK, RunHasPlan, MergeIsWhole, ResultsAreFresh, budget.prompt => DoneMeansWhole,
         budget.prompt, [Next]_vars
  PROVE  ResultsAreFresh' /\ DoneMeansWhole'
<1> USE DEF ResultsAreFresh, DoneMeansWhole
<1>a. run \in Run
  BY DEF TypeOK
<1>1. CASE Resolve \/ StartFails
  BY <1>1 DEF Resolve, StartFails, MayStart, calls, Active
\* The plan goes, and the output stays.
<1>0. CASE Patch
  <2>1. plan' = Nil /\ UNCHANGED <<run, late, doneCh, status, got, target>>
    BY <1>0 DEF Patch, calls
  <2>2. ~Active' /\ \A r : OutputOf(r) => OutputOf(r)'
    BY <1>0, <2>1 DEF Patch, Active, OutputOf
  <2> QED BY <1>0, <2>1, <2>2
<1>2. CASE Start
  <2>1. status' = "running" /\ doneCh' = <<>> /\ late' = {}
    BY <1>2 DEF Start, MayStart
  <2> QED BY <2>1
<1>3. CASE PauseBegins \/ CloseBegins
  <2>1. /\ run'.phase = run.phase /\ status' \in {"idle", "deleted"}
        /\ UNCHANGED <<late, doneCh>>
    BY <1>3, <1>a DEF PauseBegins, CloseBegins, Run
  <2> QED BY <2>1 DEF Active
<1>4. CASE Returns \/ Save \/ Vanishes \/ UNCHANGED vars
  <2>1. UNCHANGED <<run, late, doneCh, status, got, plan, target>>
    BY <1>4 DEF Returns, PauseEnds, CloseEnds, Save, Vanishes, vars, task, disk, calls
  <2> QED BY <2>1 DEF Active, OutputOf
<1>5. ASSUME NEW w \in Worker, WorkerStep(w)
      PROVE  ResultsAreFresh' /\ DoneMeansWhole'
  <2>1. Active /\ UNCHANGED <<late, doneCh, status>>
    BY <1>5, WorkerFrame DEF calls, Active
  <2> QED BY <2>1
<1>6. ASSUME Merging
      PROVE  ResultsAreFresh' /\ DoneMeansWhole'
  <2>1. /\ Active /\ late = {} /\ doneCh = <<>> /\ status # "done"
        /\ UNCHANGED <<doneCh, status, plan>>
    BY <1>6, MergingFrame DEF calls, task, Active
  <2>2. CASE Detaches
    <3>1. /\ late' = {[run |-> run.no, ok |-> run.ok, hash |-> run.plan.hash]}
          /\ ~Active' /\ UNCHANGED target /\ run.phase = "report"
      BY <1>a, <2>1, <2>2 DEF Detaches, Supervising, ClearActiveRun, NoRun, Active, Run, disk
    <3>2. run.ok => target' = Whole(run.plan.hash)
      BY <3>1 DEF MergeIsWhole
    <3>3. ASSUME NEW q \in late', q.ok
          PROVE  OutputOf(q)'
      <4>1. q.ok = run.ok /\ q.hash = run.plan.hash
        BY <3>1
      <4>2. plan' = run.plan
        BY <2>1 DEF RunHasPlan
      <4> QED BY <3>2, <3>3, <4>1, <4>2 DEF OutputOf
    <3> QED BY <2>1, <3>1, <3>3
  <2>3. CASE ~Detaches
    <3>1. UNCHANGED late
      BY <1>6, <2>3 DEF Merging, Joins, MergeReads, MergeFails, MergeRemoves, MergeRenames,
                        RenameFails, Merged
    <3> QED BY <2>1, <3>1
  <2> QED BY <2>2, <2>3
<1>7. CASE Sends
  <2>1. PICK r \in late : /\ late' = late \ {r}
                          /\ doneCh' = IF doneCh = <<>> THEN <<r>> ELSE doneCh
    BY <1>7 DEF Sends
  <2>2. UNCHANGED <<run, status, got, plan, target>> /\ Head(<<r>>) = r
    BY <1>7 DEF Sends, task, disk, calls
  <2>3. ~Active' /\ \A q : OutputOf(q)' <=> OutputOf(q)
    BY <2>1, <2>2 DEF Active, OutputOf
  <2> QED BY <2>1, <2>2, <2>3
<1>8. CASE WatcherTakes
  <2>1. ~Active /\ doneCh' = <<>> /\ UNCHANGED <<run, plan, target, late>>
    BY <1>8 DEF WatcherTakes, task, disk
  <2>2. ~Active' /\ \A q : OutputOf(q)' <=> OutputOf(q)
    BY <2>1 DEF Active, OutputOf
  <2>3. CASE Discarded
    BY <1>8, <2>1, <2>2, <2>3 DEF WatcherTakes
  <2>4. CASE ~Discarded
    <3>1. got' = Head(doneCh) /\ (status' = IF Head(doneCh).ok THEN "done" ELSE "idle")
      BY <1>8, <2>4 DEF WatcherTakes
    <3>2. Head(doneCh) # Nil
      BY <1>8, NilAssumption DEF WatcherTakes, TypeOK
    <3> QED BY <1>8, <2>1, <2>2, <2>4, <3>1, <3>2 DEF WatcherTakes, Discarded
  <2> QED BY <2>3, <2>4
<1>9. CASE Die \/ WatcherPanics
  BY <1>9 DEF Die, WatcherPanics, Restarts
<1> QED
  BY <1>0, <1>1, <1>2, <1>3, <1>4, <1>5, <1>6, <1>7, <1>8, <1>9
     DEF Next, Calls, Supervise, Merging

-----------------------------------------------------------------------------
(* The theorems.                                                           *)

LEMMA InitInvariant == Init => IInv
<1> SUFFICES ASSUME Init PROVE IInv
  OBVIOUS
<1>1. TypeOK
  <2>1. EmptyFolder \in [Seg -> Version \cup {Nil}] /\ EmptyJournal \in Journal
    BY DEF EmptyFolder, EmptyJournal, Journal
  <2>2. InitRun \in Run
    BY DEF InitRun, Run, Phase
  <2>3. plan \in Plan \cup {Nil} /\ nextSid \in 1 .. MaxSid + 1 /\ saved \in Record
    BY DEF Init, Plan, Sid, Version, Record
  <2>4. Idle \in [at : {"idle", "fetch", "put", "journal", "gone"},
                 seg : 0 .. Segments, tries : 0 .. MaxRetries]
    BY DEF Idle
  <2>5. budget \in Budget
    BY BudgetsAssumption DEF Init
  <2>6. FetcherTypes
    <3>1. url \in Version
      BY DEF Init, Version
    <3>2. res \in BOOLEAN /\ closed \in BOOLEAN
      BY Zenon DEF Init
    <3> QED BY <2>3, <3>1, <3>2 DEF FetcherTypes
  <2>7. DiskTypes /\ WorkerTypes /\ RunTypes
    BY <2>1, <2>2, <2>4 DEF Init, DiskTypes, WorkerTypes, RunTypes
  <2>8. CallTypes
    BY <2>5 DEF Init, CallTypes
  <2> QED BY <2>6, <2>7, <2>8, TypeParts
<1>2. WorkIsDealt /\ RunHasPlan /\ JournalIsKnown /\ MergeIsWhole
  BY DEF Init, InitRun, Idle, WorkIsDealt, Busy, RunHasPlan, Active, JournalIsKnown, MergeIsWhole
<1>3. CountsAddUp
  <2>1. \A w \in Worker : worker[w].at = "gone"
    BY DEF Init, Idle
  <2>2. /\ run.phase # "work" /\ run.pending = {}
        /\ run.base = 0 /\ run.count = 0 /\ run.fails = 0
    BY DEF Init, InitRun
  <2>3. Due = {} /\ Cardinality(Seg \ Due) \in Nat
    BY <2>1, <2>2, SegFinite DEF Due, Busy
  <2> QED BY <2>1, <2>2, <2>3 DEF CountsAddUp
<1>4. FoldersAreOwn
  <2>1. Plans \subseteq {[sid |-> 1, hash |-> 1]} /\ (Plans # {} => nextSid = 2)
    BY DEF Init, Plans
  <2>2. /\ 1 \in Sid /\ nextSid \in Nat
        /\ \A i \in Sid : staged[i] = EmptyFolder
        /\ \A i \in Sid, s \in Seg : staged[i][s] = Nil
    BY DEF Init, EmptyFolder, Sid
  <2> QED BY <2>1, <2>2 DEF FoldersAreOwn
<1>5. ClosedIsOver /\ ClosedLeavesNothing /\ TargetIsWhole
  BY DEF Init, ClosedIsOver, ClosedLeavesNothing, TargetIsWhole
<1>6. ResultsAreFresh /\ DoneMeansWhole
  BY DEF Init, ResultsAreFresh, DoneMeansWhole
<1> QED BY <1>1, <1>2, <1>3, <1>4, <1>5, <1>6 DEF IInv

LEMMA InvariantStep == IInv /\ [Next]_vars => IInv'
<1> SUFFICES ASSUME IInv, [Next]_vars PROVE IInv'
  OBVIOUS
<1>0. /\ TypeOK /\ WorkIsDealt /\ CountsAddUp /\ RunHasPlan /\ FoldersAreOwn /\ JournalIsKnown
      /\ MergeIsWhole /\ ClosedIsOver /\ ResultsAreFresh /\ TargetIsWhole /\ ClosedLeavesNothing
      /\ (budget.prompt => DoneMeansWhole)
  BY DEF IInv
<1>1. TypeOK'
  BY <1>0, TypeStep
<1>2. WorkIsDealt'
  BY <1>0, DealtStep
<1>3. CountsAddUp'
  BY <1>0, <1>1, <1>2, CountsStep
<1>4. RunHasPlan' /\ ClosedIsOver'
  BY <1>0, RunHasPlanStep, ClosedStep
<1>5. FoldersAreOwn'
  BY <1>0, FoldersStep
<1>6. JournalIsKnown'
  BY <1>0, JournalStep
<1>7. MergeIsWhole' /\ TargetIsWhole'
  BY <1>0, MergeStep, TargetStep
<1>8. ClosedLeavesNothing'
  BY <1>0, LeavesNothingStep
<1>9. ResultsAreFresh' /\ (budget.prompt => DoneMeansWhole)'
  <2>1. budget'.prompt = budget.prompt
    BY <1>0, PromptStays
  <2>2. CASE ~budget.prompt
    BY <2>1, <2>2 DEF ResultsAreFresh
  <2>3. CASE budget.prompt
    <3>1. ResultsAreFresh' /\ DoneMeansWhole'
      BY <1>0, <2>3, ResultsStep
    <3> QED BY <3>1
  <2> QED BY <2>2, <2>3
<1> QED BY <1>1, <1>2, <1>3, <1>4, <1>5, <1>6, <1>7, <1>8, <1>9 DEF IInv

\* The inductive invariant: IInv holds in every reachable state.
THEOREM Invariance == Spec => []IInv
  BY InitInvariant, InvariantStep, PTL DEF Spec

\* Every variable keeps its type: no counter of a run exceeds the number of segments, and
\* no worker is at a segment the playlist does not have.
THEOREM TypeCorrect == Spec => []TypeOK
<1>1. IInv => TypeOK
  BY DEF IInv
<1> QED BY Invariance, <1>1, PTL

\* The output file is absent or one whole playlist, whatever happened, and a task that is
\* done has the one of its last run, if every result is taken before the next Start (Budget).
THEOREM OutputStaysWhole == Spec => [](TargetIsWhole /\ (budget.prompt => OutputIsWhole))
<1>1. IInv => TargetIsWhole /\ (budget.prompt => OutputIsWhole)
  BY DEF IInv, OutputIsWhole
<1> QED BY Invariance, <1>1, PTL

\* What has been fetched stays fetched over pauses, errors and restarts, progress counts
\* only what has been on disk, and Close leaves no staging folder that a late worker fills.
THEOREM StagingStaysKept == Spec => []StagingIsKept
<1>1. ASSUME IInv
      PROVE  StagingIsKept
  <2>1. TypeOK /\ WorkIsDealt /\ CountsAddUp /\ JournalIsKnown /\ ClosedLeavesNothing
    BY <1>1 DEF IInv
  <2>2. NoSegmentIsFetchedAgain
    <3>1. ASSUME NEW w \in Worker, Working(w, "fetch"), worker[w].seg \in Finished(run.plan)
          PROVE  FALSE
      <4>1. run.phase = "work" /\ worker[w].at = "fetch"
        BY <3>1 DEF Working
      <4>2. staged[run.plan.sid][worker[w].seg] = Nil \/ worker[w].seg \notin run.journal
        BY <2>1, <4>1 DEF JournalIsKnown
      <4> QED BY <2>1, <3>1, <4>1, <4>2 DEF Finished, JournalIsKnown
    <3> QED BY <3>1 DEF NoSegmentIsFetchedAgain
  <2>3. ProgressIsOnDisk
    <3>1. ASSUME run.phase = "work"
          PROVE  /\ SegmentsDone + run.fails <= Segments
                 /\ SegmentsDone <= Cardinality(OnDisk)
      <4>1. SegmentsDone = run.base + run.count
        BY <3>1 DEF SegmentsDone, Active
      <4>2. run.base + run.count + run.fails <= Segments
        BY <2>1, CountsBounded
      <4>3. run.base + run.count <= Cardinality(OnDisk \ Due)
        BY <2>1, <3>1 DEF CountsAddUp
      <4>4. OnDisk \in SUBSET Seg /\ OnDisk \ Due \in SUBSET Seg
        BY DEF OnDisk
      <4>5. /\ Cardinality(OnDisk) \in Nat /\ Cardinality(OnDisk \ Due) \in Nat
            /\ Cardinality(OnDisk \ Due) <= Cardinality(OnDisk)
        BY <4>4, PartOfSeg, Grows
      <4>6. run.base \in Nat /\ run.count \in Nat
        BY <2>1 DEF TypeOK, Run
      <4> QED BY <4>1, <4>2, <4>3, <4>5, <4>6
    <3> QED BY <3>1 DEF ProgressIsOnDisk, OnDisk
  <2> QED BY <2>1, <2>2, <2>3 DEF StagingIsKept
<1> QED BY Invariance, <1>1, PTL
=============================================================================
