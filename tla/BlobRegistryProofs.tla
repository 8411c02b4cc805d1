------------------------- MODULE BlobRegistryProofs -------------------------
(***************************************************************************)
(* Proofs about BlobRegistry, for any finite sets of sources, tasks and    *)
(* requests, any failure limit and any bound on the calls.                 *)
(***************************************************************************)
EXTENDS BlobRegistry, CountingLemmas

USE LimitAssumption, MaxCallsAssumption, NoneAssumption

-----------------------------------------------------------------------------
(* What one task owes, and what all of them do.  The leases and the calls  *)
(* of the tasks are arguments, so that the lemmas hold of a state and of   *)
(* the next one.                                                           *)

DueBy(l, y, r, t, s) ==
  (IF l[t] = s THEN 1 ELSE 0)
  + (IF y[t].pc = "release" /\ y[t].url = s THEN 1 ELSE 0)
  + (IF r[t].pc # "idle" /\ r[t].url = s THEN 1 ELSE 0)

OwingBy(l, y, r, s) ==
  Cardinality({t \in Task : l[t] = s})
  + Cardinality({t \in Task : y[t].pc = "release" /\ y[t].url = s})
  + Cardinality({t \in Task : r[t].pc # "idle" /\ r[t].url = s})

\* The sum is at least what one task owes, and zero only if nobody owes anything.
LEMMA OwingCoversDue ==
  ASSUME NEW l, NEW y, NEW r, NEW s
  PROVE  /\ OwingBy(l, y, r, s) \in Nat
         /\ \A t \in Task : DueBy(l, y, r, t, s) \in Nat
                            /\ OwingBy(l, y, r, s) >= DueBy(l, y, r, t, s)
<1> DEFINE A1 == {u \in Task : l[u] = s}
           A2 == {u \in Task : y[u].pc = "release" /\ y[u].url = s}
           A3 == {u \in Task : r[u].pc # "idle" /\ r[u].url = s}
<1>1. IsFiniteSet(A1) /\ IsFiniteSet(A2) /\ IsFiniteSet(A3)
  BY FiniteAssumption, FS_Subset
<1>2. OwingBy(l, y, r, s) = Cardinality(A1) + Cardinality(A2) + Cardinality(A3)
  BY DEF OwingBy
<1>3. ASSUME NEW t \in Task
      PROVE  DueBy(l, y, r, t, s) = (IF t \in A1 THEN 1 ELSE 0)
               + (IF t \in A2 THEN 1 ELSE 0) + (IF t \in A3 THEN 1 ELSE 0)
  BY DEF DueBy
<1> HIDE DEF A1, A2, A3
<1>4. /\ Cardinality(A1) \in Nat /\ Cardinality(A2) \in Nat /\ Cardinality(A3) \in Nat
      /\ \A t : /\ t \in A1 => Cardinality(A1) >= 1
                /\ t \in A2 => Cardinality(A2) >= 1
                /\ t \in A3 => Cardinality(A3) >= 1
  BY <1>1, HasElement
<1> QED
  BY <1>2, <1>3, <1>4

Due(t, s) == DueBy(lease, sync, release, t, s)

LEMMA OwingIsOwingBy == \A s : Owing(s) = OwingBy(lease, sync, release, s)
  BY DEF Owing, OwingBy, Leasing, Returning, GivingBack

LEMMA OwingBounds ==
  \A s : Owing(s) \in Nat /\ \A t \in Task : Due(t, s) \in Nat /\ Owing(s) >= Due(t, s)
  BY OwingCoversDue, OwingIsOwingBy DEF Due

\* If only task t does something, the sum changes by what t owes.
LEMMA OwingChanges ==
  ASSUME NEW t \in Task,
         \A u \in Task \ {t} : lease'[u] = lease[u] /\ sync'[u] = sync[u]
                               /\ release'[u] = release[u]
  PROVE  \A s : /\ Owing(s) \in Nat /\ Owing(s)' \in Nat
                /\ Owing(s)' + Due(t, s) = Owing(s) + Due(t, s)'
                /\ \A u \in Task : Due(u, s)' \in Nat /\ Owing(s)' >= Due(u, s)'
<1> SUFFICES ASSUME NEW s
             PROVE  /\ Owing(s) \in Nat /\ Owing(s)' \in Nat
                    /\ Owing(s)' + Due(t, s) = Owing(s) + Due(t, s)'
                    /\ \A u \in Task : Due(u, s)' \in Nat /\ Owing(s)' >= Due(u, s)'
  OBVIOUS
<1> DEFINE In(A) == IF t \in A THEN 1 ELSE 0
           A1 == Leasing(s)
           A2 == Returning(s)
           A3 == GivingBack(s)
           B1 == Leasing(s)'
           B2 == Returning(s)'
           B3 == GivingBack(s)'
<1>1. IsFiniteSet(A1) /\ IsFiniteSet(A2) /\ IsFiniteSet(A3)
  BY FiniteAssumption, FS_Subset DEF Leasing, Returning, GivingBack
<1>2. A1 \ {t} = B1 \ {t} /\ A2 \ {t} = B2 \ {t} /\ A3 \ {t} = B3 \ {t}
  BY DEF Leasing, Returning, GivingBack
<1>3. /\ Owing(s) = Cardinality(A1) + Cardinality(A2) + Cardinality(A3)
      /\ Owing(s)' = Cardinality(B1) + Cardinality(B2) + Cardinality(B3)
  BY DEF Owing
<1>4. /\ Due(t, s) = In(A1) + In(A2) + In(A3)
      /\ Due(t, s)' = In(B1) + In(B2) + In(B3)
  BY DEF Due, DueBy, Leasing, Returning, GivingBack
<1>5. \A u \in Task : Due(u, s)' \in Nat /\ Owing(s)' >= Due(u, s)'
  <2>1. /\ Owing(s)' = OwingBy(lease', sync', release', s)
        /\ \A u : Due(u, s)' = DueBy(lease', sync', release', u, s)
    BY DEF Owing, OwingBy, Leasing, Returning, GivingBack, Due, DueBy
  <2> QED BY <2>1, OwingCoversDue
<1> HIDE DEF A1, A2, A3, B1, B2, B3
<1>6. /\ Cardinality(A1) \in Nat /\ Cardinality(B1) \in Nat
      /\ Cardinality(B1) + In(A1) = Cardinality(A1) + In(B1)
  BY <1>1, <1>2, OneElementChanges
<1>7. /\ Cardinality(A2) \in Nat /\ Cardinality(B2) \in Nat
      /\ Cardinality(B2) + In(A2) = Cardinality(A2) + In(B2)
  BY <1>1, <1>2, OneElementChanges
<1>8. /\ Cardinality(A3) \in Nat /\ Cardinality(B3) \in Nat
      /\ Cardinality(B3) + In(A3) = Cardinality(A3) + In(B3)
  BY <1>1, <1>2, OneElementChanges
<1> QED
  BY <1>3, <1>4, <1>5, <1>6, <1>7, <1>8

-----------------------------------------------------------------------------
(* The session counts its sources and its readers.                         *)

\* If only source s and request r change, the counts change as they do.
LEMMA HoldersChange ==
  ASSUME TypeOK,
         NEW s, \A z \in Source \ {s} : state'[z] = state[z],
         NEW r, \A z \in Request \ {r} : request'[z] = request[z]
  PROVE  /\ Cardinality(Open) \in Nat /\ Cardinality(Readers) \in Nat
         /\ Cardinality(Open)' \in Nat /\ Cardinality(Readers)' \in Nat
         /\ Cardinality(Open)' + (IF s \in Open THEN 1 ELSE 0)
              = Cardinality(Open) + (IF s \in Open' THEN 1 ELSE 0)
         /\ Cardinality(Readers)' + (IF r \in Readers THEN 1 ELSE 0)
              = Cardinality(Readers) + (IF r \in Readers' THEN 1 ELSE 0)
         /\ Cardinality(Open)' + Cardinality(Readers)' = 0
              => (Open \cup Readers)' = {}
<1>1. IsFiniteSet(Open) /\ IsFiniteSet(Readers)
  BY FiniteAssumption, FS_Subset DEF Open, Readers
<1>2. Open \ {s} = Open' \ {s} /\ Readers \ {r} = Readers' \ {r}
  BY DEF Open, Readers
<1>3. /\ IsFiniteSet(Open') /\ IsFiniteSet(Readers')
      /\ Cardinality(Open) \in Nat /\ Cardinality(Open)' \in Nat
      /\ Cardinality(Readers) \in Nat /\ Cardinality(Readers)' \in Nat
      /\ Cardinality(Open)' + (IF s \in Open THEN 1 ELSE 0)
           = Cardinality(Open) + (IF s \in Open' THEN 1 ELSE 0)
      /\ Cardinality(Readers)' + (IF r \in Readers THEN 1 ELSE 0)
           = Cardinality(Readers) + (IF r \in Readers' THEN 1 ELSE 0)
  BY <1>1, <1>2, OneElementChanges
<1>4. /\ Cardinality(Open)' = 0 => Open' = {}
      /\ Cardinality(Readers)' = 0 => Readers' = {}
  BY <1>3, FS_EmptySet
<1> QED
  BY <1>3, <1>4
-----------------------------------------------------------------------------
(* Types, and who knows what.                                              *)

LEMMA SessionTypes ==
  \A x \in Sessions : Retain(x) \in Sessions /\ Release(x) \in Sessions
                      /\ CloseIfIdle(x) \in Sessions
  BY DEF Sessions, Retain, Release, CloseIfIdle

LEMMA CallTypes ==
  /\ IdleCall \in Syncs
  /\ \A s \in Source \cup {None} : /\ [pc |-> "acquire", url |-> s] \in Syncs
                                   /\ [pc |-> "release", url |-> s] \in Syncs
  BY DEF Syncs, IdleCall

LEMMA TypeStep ==
  ASSUME TypeOK, CallsHaveSource, [Next]_vars
  PROVE  TypeOK'
<1> USE DEF TypeOK
<1>1. ASSUME NEW s \in Source, NEW ranged \in BOOLEAN, Create(s, ranged)
      PROVE  TypeOK'
  <2>1. state' \in [Source -> States] /\ sources' \subseteq Source
    BY <1>1 DEF Create, States
  <2>2. source' \in [Source -> Readings]
    BY <1>1 DEF Create, Readings
  <2>3. session' \in Sessions
    BY <1>1, SessionTypes DEF Create
  <2>4. script' \in Scripts
    BY <1>1 DEF Create, Scripts
  <2> QED BY <1>1, <2>1, <2>2, <2>3, <2>4 DEF Create, srcVars, taskVars
<1>2. ASSUME NEW s \in Source, Revoke(s)
      PROVE  TypeOK'
  <2>1. state' \in [Source -> States] /\ sources' \subseteq Source
    BY <1>2 DEF Revoke, SourceCloses, Ends, States
  <2>2. timer' \in [Source -> Timers] /\ calls' \in 0 .. MaxCalls
    BY <1>2 DEF Revoke, SourceCloses, Stopped, Timers, Called
  <2>3. session' \in Sessions
    BY <1>2, SessionTypes DEF Revoke, SourceCloses, Ends
  <2> QED BY <1>2, <2>1, <2>2, <2>3 DEF Revoke, srcVars, taskVars, SourceCloses
<1>3. ASSUME NEW s \in Source, TimerFires(s)
      PROVE  TypeOK'
  <2>1. timer' \in [Source -> Timers]
    BY <1>3 DEF TimerFires, Timers
  <2> QED BY <1>3, <2>1 DEF TimerFires, srcVars, taskVars
<1>4. ASSUME NEW s \in Source, Expires(s)
      PROVE  TypeOK'
  <2>1. state' \in [Source -> States] /\ sources' \subseteq Source
    BY <1>4 DEF Expires, Ends, States
  <2>2. timer' \in [Source -> Timers]
    BY <1>4 DEF Expires, Timers
  <2>3. session' \in Sessions
    BY <1>4, SessionTypes DEF Expires, Ends
  <2> QED BY <1>4, <2>1, <2>2, <2>3 DEF Expires, srcVars, taskVars
<1>5. ASSUME NEW s \in Source, CloseNext(s)
      PROVE  TypeOK'
  <2>1. state' \in [Source -> States] /\ closing' \subseteq Source
    BY <1>5 DEF CloseNext, SourceCloses, Ends, States
  <2>2. timer' \in [Source -> Timers]
    BY <1>5 DEF CloseNext, SourceCloses, Stopped, Timers
  <2>3. session' \in Sessions
    BY <1>5, SessionTypes DEF CloseNext, SourceCloses, Ends
  <2> QED BY <1>5, <2>1, <2>2, <2>3 DEF CloseNext, srcVars, taskVars, SourceCloses
<1>6. ASSUME NEW s \in Source, NEW t \in Task, SyncLooks(t, s)
      PROVE  TypeOK'
  <2>1. lease' \in [Task -> Source \cup {None}] /\ calls' \in 0 .. MaxCalls
    BY <1>6 DEF SyncLooks, Called
  <2>2. sync' \in [Task -> Syncs]
    <3>1. [pc |-> "acquire", url |-> s] \in Syncs /\ [pc |-> "release", url |-> lease[t]] \in Syncs
      BY CallTypes
    <3>2. CASE Available(s)
      BY <1>6, <3>1, <3>2 DEF SyncLooks
    <3>3. CASE ~Available(s)
      BY <1>6, <3>1, <3>3 DEF SyncLooks
    <3> QED BY <3>2, <3>3
  <2> QED BY <1>6, <2>1, <2>2 DEF SyncLooks, srcVars, taskVars
<1>7. ASSUME NEW s \in Source, NEW r \in Request, RequestBegins(r, s)
      PROVE  TypeOK'
  <2>1. request' \in [Request -> Requests]
    BY <1>7 DEF RequestBegins, Requests
  <2>2. calls' \in 0 .. MaxCalls
    BY <1>7 DEF RequestBegins, Called
  <2> QED BY <1>7, <2>1, <2>2 DEF RequestBegins, srcVars, taskVars
<1>8. ASSUME ArmTimer
      PROVE  TypeOK'
  <2>1. timer' \in [Source -> Timers]
    BY <1>8 DEF ArmTimer, Timers
  <2>2. script' \in Scripts
    BY <1>8 DEF ArmTimer, Scripts
  <2> QED BY <1>8, <2>1, <2>2 DEF ArmTimer, srcVars, taskVars
<1>9. ASSUME ScriptEnds
      PROVE  TypeOK'
  <2>1. session' \in Sessions
    BY <1>9, SessionTypes DEF ScriptEnds
  <2>2. script' \in Scripts
    BY <1>9 DEF ScriptEnds, Scripts
  <2> QED BY <1>9, <2>1, <2>2 DEF ScriptEnds, srcVars, taskVars
<1>10. ASSUME Close
      PROVE  TypeOK'
  <2>1. sources' \subseteq Source /\ closing' \subseteq Source /\ calls' \in 0 .. MaxCalls
    BY <1>10 DEF Close, Called
  <2> QED BY <1>10, <2>1 DEF Close, srcVars, taskVars
<1>11. ASSUME NEW t \in Task, SyncDrops(t)
      PROVE  TypeOK'
  <2>1. lease' \in [Task -> Source \cup {None}] /\ calls' \in 0 .. MaxCalls
    BY <1>11 DEF SyncDrops, Called
  <2>2. sync' \in [Task -> Syncs]
    BY <1>11, CallTypes DEF SyncDrops
  <2> QED BY <1>11, <2>1, <2>2 DEF SyncDrops, srcVars, taskVars
<1>12. ASSUME NEW t \in Task, SyncAcquires(t)
      PROVE  TypeOK'
  <2>1. sync[t].url \in Source
    BY <1>12 DEF SyncAcquires, CallsHaveSource, Syncs
  <2>2. lease' \in [Task -> Source \cup {None}] /\ taskRefs' \in [Source -> Nat]
    BY <1>12, <2>1 DEF SyncAcquires
  <2>3. timer' \in [Source -> Timers]
    BY <1>12, <2>1 DEF SyncAcquires, Stopped, Timers
  <2>4. sync' \in [Task -> Syncs]
    <3>1. sync' = [sync EXCEPT ![t] = IdleCall]
          \/ sync' = [sync EXCEPT ![t] = [pc |-> "release", url |-> lease[t]]]
      BY <1>12 DEF SyncAcquires
    <3>2. lease[t] \in Source \cup {None}
      OBVIOUS
    <3>3. IdleCall \in Syncs /\ [pc |-> "release", url |-> lease[t]] \in Syncs
      BY <3>2, CallTypes
    <3> QED BY <3>1, <3>3
  <2>5. UNCHANGED <<sources, state, source, session, script, closing, calls, release, request>>
    BY <1>12 DEF SyncAcquires
  <2> QED BY <2>2, <2>3, <2>4, <2>5
<1>13. ASSUME NEW t \in Task, SyncReleases(t)
      PROVE  TypeOK'
  <2>1. release' \in [Task -> Releases]
    BY <1>13 DEF SyncReleases, Releases, Syncs, IdleCall
  <2>2. sync' \in [Task -> Syncs]
    BY <1>13, CallTypes DEF SyncReleases
  <2> QED BY <1>13, <2>1, <2>2 DEF SyncReleases, srcVars, taskVars
<1>14. ASSUME NEW t \in Task, TaskReleases(t)
      PROVE  TypeOK'
  <2>1. lease' \in [Task -> Source \cup {None}] /\ calls' \in 0 .. MaxCalls
    BY <1>14 DEF TaskReleases, Called
  <2>2. release' \in [Task -> Releases]
    BY <1>14 DEF TaskReleases, Releases
  <2> QED BY <1>14, <2>1, <2>2 DEF TaskReleases, srcVars, taskVars
<1>15. ASSUME NEW t \in Task, ReleaseLooks(t)
      PROVE  TypeOK'
  <2>1. release' \in [Task -> Releases]
    BY <1>15 DEF ReleaseLooks, Releases, IdleCall
  <2> QED BY <1>15, <2>1 DEF ReleaseLooks, srcVars, taskVars
<1>16. ASSUME NEW t \in Task, ReleaseDrops(t)
      PROVE  TypeOK'
  <2>1. release[t].url \in Source
    BY <1>16 DEF ReleaseDrops, CallsHaveSource, Releases
  <2>2. state' \in [Source -> States] /\ sources' \subseteq Source /\ taskRefs' \in [Source -> Nat]
    BY <1>16, <2>1 DEF ReleaseDrops, Ends, States
  <2>3. session' \in Sessions
    BY <1>16, SessionTypes DEF ReleaseDrops, Ends
  <2>4. release' \in [Task -> Releases]
    BY <1>16 DEF ReleaseDrops, Releases, IdleCall
  <2> QED BY <1>16, <2>1, <2>2, <2>3, <2>4 DEF ReleaseDrops, srcVars, taskVars
<1>17. ASSUME NEW r \in Request, Admit(r)
      PROVE  TypeOK'
  <2>1. request[r].url \in Source
    BY <1>17 DEF Admit, CallsHaveSource, Requests
  <2>2. request' \in [Request -> Requests]
    <3>1. source[request[r].url].ranged \in BOOLEAN
      BY <2>1 DEF Readings
    <3>2. /\ IdleRequest \in Requests
          /\ [pc |-> "admitted", url |-> request[r].url,
              ranged |-> source[request[r].url].ranged] \in Requests
      BY <2>1, <3>1 DEF Requests, IdleRequest
    <3> QED BY <1>17, <3>2 DEF Admit
  <2>3. session' \in Sessions
    BY <1>17, SessionTypes DEF Admit
  <2> QED BY <1>17, <2>1, <2>2, <2>3 DEF Admit, srcVars, taskVars
<1>18. ASSUME NEW r \in Request, Refused(r)
      PROVE  TypeOK'
  <2>1. request' \in [Request -> Requests]
    BY <1>18 DEF Refused, RequestEnds, Requests, IdleRequest
  <2>2. session' \in Sessions
    BY <1>18, SessionTypes DEF Refused, RequestEnds
  <2> QED BY <1>18, <2>1, <2>2 DEF Refused, srcVars, taskVars, RequestEnds
<1>19. ASSUME NEW r \in Request, NEW produces \in BOOLEAN, Opens(r, produces)
      PROVE  TypeOK'
  <2>1. request[r].url \in Source
    BY <1>19 DEF Opens, CallsHaveSource, Requests
  <2>2. request' \in [Request -> Requests]
    BY <1>19, <2>1 DEF Opens, Requests
  <2>3. source' \in [Source -> Readings]
    BY <1>19, <2>1 DEF Opens, Readings, Requests
  <2> QED BY <1>19, <2>1, <2>2, <2>3 DEF Opens, srcVars, taskVars
<1>20. ASSUME NEW r \in Request, Fails(r)
      PROVE  TypeOK'
  <2>1. request[r].url \in Source
    BY <1>20 DEF Fails, CallsHaveSource, Requests
  <2>2. source' \in [Source -> Readings]
    BY <1>20, <2>1 DEF Fails, recordSourceError, Readings
  <2>3. request' \in [Request -> Requests]
    BY <1>20 DEF Fails, RequestEnds, Requests, IdleRequest
  <2>4. session' \in Sessions
    BY <1>20, SessionTypes DEF Fails, RequestEnds
  <2> QED BY <1>20, <2>1, <2>2, <2>3, <2>4 DEF Fails, srcVars, taskVars, RequestEnds
<1>21. ASSUME NEW r \in Request, Completes(r)
      PROVE  TypeOK'
  <2>1. request[r].url \in Source
    BY <1>21 DEF Completes, CallsHaveSource, Requests
  <2>2. source' \in [Source -> Readings]
    BY <1>21, <2>1 DEF Completes, recordSourceSuccess, Readings
  <2>3. request' \in [Request -> Requests]
    BY <1>21 DEF Completes, RequestEnds, Requests, IdleRequest
  <2>4. session' \in Sessions
    BY <1>21, SessionTypes DEF Completes, RequestEnds
  <2> QED BY <1>21, <2>1, <2>2, <2>3, <2>4 DEF Completes, srcVars, taskVars, RequestEnds
<1>22. ASSUME NEW r \in Request, Cancels(r)
      PROVE  TypeOK'
  <2>1. request' \in [Request -> Requests]
    BY <1>22 DEF Cancels, RequestEnds, Requests, IdleRequest
  <2>2. session' \in Sessions
    BY <1>22, SessionTypes DEF Cancels, RequestEnds
  <2> QED BY <1>22, <2>1, <2>2 DEF Cancels, srcVars, taskVars, RequestEnds
<1>23. CASE UNCHANGED vars
  BY <1>23 DEF vars, srcVars, taskVars
<1> QED
  BY <1>1, <1>2, <1>3, <1>4, <1>5, <1>6, <1>7, <1>8, <1>9, <1>10, <1>11, <1>12, <1>13, <1>14, <1>15, <1>16, <1>17, <1>18, <1>19, <1>20, <1>21, <1>22, <1>23
     DEF Next, Expiry, Sync, Releasing, Serve
LEMMA KnowledgeStep ==
  ASSUME TypeOK, CallsHaveSource, OpenIsHeld, UnmadeIsUnknown, [Next]_vars
  PROVE  CallsHaveSource' /\ OpenIsHeld' /\ UnmadeIsUnknown'
<1> USE DEF TypeOK
<1>1. ASSUME NEW s \in Source, NEW ranged \in BOOLEAN, Create(s, ranged)
      PROVE  CallsHaveSource' /\ OpenIsHeld' /\ UnmadeIsUnknown'
  <2>1. CallsHaveSource'
    BY <1>1 DEF Create, CallsHaveSource, srcVars, taskVars
  <2>2. OpenIsHeld'
    BY <1>1 DEF Create, OpenIsHeld, Open, srcVars, taskVars
  <2>3. UnmadeIsUnknown'
    BY <1>1 DEF Create, UnmadeIsUnknown, srcVars, taskVars
  <2> QED BY <2>1, <2>2, <2>3
<1>2. ASSUME NEW s \in Source, Revoke(s)
      PROVE  CallsHaveSource' /\ OpenIsHeld' /\ UnmadeIsUnknown'
  <2>1. CallsHaveSource'
    BY <1>2 DEF Revoke, SourceCloses, Ends, Available, CallsHaveSource, srcVars, taskVars
  <2>2. OpenIsHeld'
    BY <1>2 DEF Revoke, SourceCloses, Ends, Available, OpenIsHeld, Open, srcVars, taskVars
  <2>3. UnmadeIsUnknown'
    BY <1>2 DEF Revoke, SourceCloses, Ends, Available, UnmadeIsUnknown, srcVars, taskVars
  <2> QED BY <2>1, <2>2, <2>3
<1>3. ASSUME NEW s \in Source, TimerFires(s)
      PROVE  CallsHaveSource' /\ OpenIsHeld' /\ UnmadeIsUnknown'
  <2>1. CallsHaveSource'
    BY <1>3 DEF TimerFires, CallsHaveSource, srcVars, taskVars
  <2>2. OpenIsHeld'
    BY <1>3 DEF TimerFires, OpenIsHeld, Open, srcVars, taskVars
  <2>3. UnmadeIsUnknown'
    BY <1>3 DEF TimerFires, UnmadeIsUnknown, srcVars, taskVars
  <2> QED BY <2>1, <2>2, <2>3
<1>4. ASSUME NEW s \in Source, Expires(s)
      PROVE  CallsHaveSource' /\ OpenIsHeld' /\ UnmadeIsUnknown'
  <2>1. CallsHaveSource'
    BY <1>4 DEF Expires, Ends, CallsHaveSource, srcVars, taskVars
  <2>2. OpenIsHeld'
    BY <1>4 DEF Expires, Ends, OpenIsHeld, Open, srcVars, taskVars
  <2>3. UnmadeIsUnknown'
    BY <1>4 DEF Expires, Ends, UnmadeIsUnknown, srcVars, taskVars
  <2> QED BY <2>1, <2>2, <2>3
<1>5. ASSUME NEW s \in Source, CloseNext(s)
      PROVE  CallsHaveSource' /\ OpenIsHeld' /\ UnmadeIsUnknown'
  <2>1. CallsHaveSource'
    BY <1>5 DEF CloseNext, SourceCloses, Ends, CallsHaveSource, srcVars, taskVars
  <2>2. OpenIsHeld'
    BY <1>5 DEF CloseNext, SourceCloses, Ends, OpenIsHeld, Open, srcVars, taskVars
  <2>3. UnmadeIsUnknown'
    BY <1>5 DEF CloseNext, SourceCloses, Ends, UnmadeIsUnknown, srcVars, taskVars
  <2> QED BY <2>1, <2>2, <2>3
<1>6. ASSUME NEW s \in Source, NEW t \in Task, SyncLooks(t, s)
      PROVE  CallsHaveSource' /\ OpenIsHeld' /\ UnmadeIsUnknown'
  <2>1. CallsHaveSource'
    BY <1>6 DEF SyncLooks, Published, Available, CallsHaveSource, srcVars, taskVars
  <2>2. OpenIsHeld'
    BY <1>6 DEF SyncLooks, Published, Available, OpenIsHeld, Open, srcVars, taskVars
  <2>3. UnmadeIsUnknown'
    BY <1>6 DEF SyncLooks, Published, Available, UnmadeIsUnknown, srcVars, taskVars
  <2> QED BY <2>1, <2>2, <2>3
<1>7. ASSUME NEW s \in Source, NEW r \in Request, RequestBegins(r, s)
      PROVE  CallsHaveSource' /\ OpenIsHeld' /\ UnmadeIsUnknown'
  <2>1. CallsHaveSource'
    BY <1>7 DEF RequestBegins, Published, CallsHaveSource, srcVars, taskVars
  <2>2. OpenIsHeld'
    BY <1>7 DEF RequestBegins, Published, OpenIsHeld, Open, srcVars, taskVars
  <2>3. UnmadeIsUnknown'
    BY <1>7 DEF RequestBegins, Published, UnmadeIsUnknown, srcVars, taskVars
  <2> QED BY <2>1, <2>2, <2>3
<1>8. ASSUME ArmTimer
      PROVE  CallsHaveSource' /\ OpenIsHeld' /\ UnmadeIsUnknown'
  <2>1. CallsHaveSource'
    BY <1>8 DEF ArmTimer, CallsHaveSource, srcVars, taskVars
  <2>2. OpenIsHeld'
    BY <1>8 DEF ArmTimer, OpenIsHeld, Open, srcVars, taskVars
  <2>3. UnmadeIsUnknown'
    BY <1>8 DEF ArmTimer, UnmadeIsUnknown, srcVars, taskVars
  <2> QED BY <2>1, <2>2, <2>3
<1>9. ASSUME ScriptEnds
      PROVE  CallsHaveSource' /\ OpenIsHeld' /\ UnmadeIsUnknown'
  <2>1. CallsHaveSource'
    BY <1>9 DEF ScriptEnds, CallsHaveSource, srcVars, taskVars
  <2>2. OpenIsHeld'
    BY <1>9 DEF ScriptEnds, OpenIsHeld, Open, srcVars, taskVars
  <2>3. UnmadeIsUnknown'
    BY <1>9 DEF ScriptEnds, UnmadeIsUnknown, srcVars, taskVars
  <2> QED BY <2>1, <2>2, <2>3
<1>10. ASSUME Close
      PROVE  CallsHaveSource' /\ OpenIsHeld' /\ UnmadeIsUnknown'
  <2>1. CallsHaveSource'
    BY <1>10 DEF Close, CallsHaveSource, srcVars, taskVars
  <2>2. OpenIsHeld'
    BY <1>10 DEF Close, OpenIsHeld, Open, srcVars, taskVars
  <2>3. UnmadeIsUnknown'
    BY <1>10 DEF Close, UnmadeIsUnknown, srcVars, taskVars
  <2> QED BY <2>1, <2>2, <2>3
<1>11. ASSUME NEW t \in Task, SyncDrops(t)
      PROVE  CallsHaveSource' /\ OpenIsHeld' /\ UnmadeIsUnknown'
  <2>1. CallsHaveSource'
    BY <1>11 DEF SyncDrops, CallsHaveSource, srcVars, taskVars
  <2>2. OpenIsHeld'
    BY <1>11 DEF SyncDrops, OpenIsHeld, Open, srcVars, taskVars
  <2>3. UnmadeIsUnknown'
    BY <1>11 DEF SyncDrops, UnmadeIsUnknown, srcVars, taskVars
  <2> QED BY <2>1, <2>2, <2>3
<1>12. ASSUME NEW t \in Task, SyncAcquires(t)
      PROVE  CallsHaveSource' /\ OpenIsHeld' /\ UnmadeIsUnknown'
  <2>1. CallsHaveSource'
    BY <1>12 DEF SyncAcquires, Available, IdleCall, CallsHaveSource, srcVars, taskVars
  <2>2. OpenIsHeld'
    BY <1>12 DEF SyncAcquires, Available, IdleCall, OpenIsHeld, Open, srcVars, taskVars
  <2>3. UnmadeIsUnknown'
    BY <1>12 DEF SyncAcquires, Available, IdleCall, UnmadeIsUnknown, srcVars, taskVars
  <2> QED BY <2>1, <2>2, <2>3
<1>13. ASSUME NEW t \in Task, SyncReleases(t)
      PROVE  CallsHaveSource' /\ OpenIsHeld' /\ UnmadeIsUnknown'
  <2>1. CallsHaveSource'
    BY <1>13 DEF SyncReleases, IdleCall, CallsHaveSource, srcVars, taskVars
  <2>2. OpenIsHeld'
    BY <1>13 DEF SyncReleases, IdleCall, OpenIsHeld, Open, srcVars, taskVars
  <2>3. UnmadeIsUnknown'
    BY <1>13 DEF SyncReleases, IdleCall, UnmadeIsUnknown, srcVars, taskVars
  <2> QED BY <2>1, <2>2, <2>3
<1>14. ASSUME NEW t \in Task, TaskReleases(t)
      PROVE  CallsHaveSource' /\ OpenIsHeld' /\ UnmadeIsUnknown'
  <2>1. CallsHaveSource'
    BY <1>14 DEF TaskReleases, CallsHaveSource, srcVars, taskVars
  <2>2. OpenIsHeld'
    BY <1>14 DEF TaskReleases, OpenIsHeld, Open, srcVars, taskVars
  <2>3. UnmadeIsUnknown'
    BY <1>14 DEF TaskReleases, UnmadeIsUnknown, srcVars, taskVars
  <2> QED BY <2>1, <2>2, <2>3
<1>15. ASSUME NEW t \in Task, ReleaseLooks(t)
      PROVE  CallsHaveSource' /\ OpenIsHeld' /\ UnmadeIsUnknown'
  <2>1. CallsHaveSource'
    BY <1>15 DEF ReleaseLooks, IdleCall, Available, CallsHaveSource, srcVars, taskVars
  <2>2. OpenIsHeld'
    BY <1>15 DEF ReleaseLooks, IdleCall, Available, OpenIsHeld, Open, srcVars, taskVars
  <2>3. UnmadeIsUnknown'
    BY <1>15 DEF ReleaseLooks, IdleCall, Available, UnmadeIsUnknown, srcVars, taskVars
  <2> QED BY <2>1, <2>2, <2>3
<1>16. ASSUME NEW t \in Task, ReleaseDrops(t)
      PROVE  CallsHaveSource' /\ OpenIsHeld' /\ UnmadeIsUnknown'
  <2>1. CallsHaveSource'
    BY <1>16 DEF ReleaseDrops, Ends, IdleCall, CallsHaveSource, srcVars, taskVars
  <2>2. OpenIsHeld'
    BY <1>16 DEF ReleaseDrops, Ends, IdleCall, OpenIsHeld, Open, srcVars, taskVars
  <2>3. UnmadeIsUnknown'
    BY <1>16 DEF ReleaseDrops, Ends, IdleCall, UnmadeIsUnknown, srcVars, taskVars
  <2> QED BY <2>1, <2>2, <2>3
<1>17. ASSUME NEW r \in Request, Admit(r)
      PROVE  CallsHaveSource' /\ OpenIsHeld' /\ UnmadeIsUnknown'
  <2>1. CallsHaveSource'
    BY <1>17 DEF Admit, IdleRequest, CallsHaveSource, srcVars, taskVars
  <2>2. OpenIsHeld'
    BY <1>17 DEF Admit, IdleRequest, OpenIsHeld, Open, srcVars, taskVars
  <2>3. UnmadeIsUnknown'
    BY <1>17 DEF Admit, IdleRequest, UnmadeIsUnknown, srcVars, taskVars
  <2> QED BY <2>1, <2>2, <2>3
<1>18. ASSUME NEW r \in Request, Refused(r)
      PROVE  CallsHaveSource' /\ OpenIsHeld' /\ UnmadeIsUnknown'
  <2>1. CallsHaveSource'
    BY <1>18 DEF Refused, RequestEnds, IdleRequest, CallsHaveSource, srcVars, taskVars
  <2>2. OpenIsHeld'
    BY <1>18 DEF Refused, RequestEnds, IdleRequest, OpenIsHeld, Open, srcVars, taskVars
  <2>3. UnmadeIsUnknown'
    BY <1>18 DEF Refused, RequestEnds, IdleRequest, UnmadeIsUnknown, srcVars, taskVars
  <2> QED BY <2>1, <2>2, <2>3
<1>19. ASSUME NEW r \in Request, NEW produces \in BOOLEAN, Opens(r, produces)
      PROVE  CallsHaveSource' /\ OpenIsHeld' /\ UnmadeIsUnknown'
  <2>1. CallsHaveSource'
    BY <1>19 DEF Opens, CallsHaveSource, srcVars, taskVars
  <2>2. OpenIsHeld'
    BY <1>19 DEF Opens, OpenIsHeld, Open, srcVars, taskVars
  <2>3. UnmadeIsUnknown'
    BY <1>19 DEF Opens, UnmadeIsUnknown, srcVars, taskVars
  <2> QED BY <2>1, <2>2, <2>3
<1>20. ASSUME NEW r \in Request, Fails(r)
      PROVE  CallsHaveSource' /\ OpenIsHeld' /\ UnmadeIsUnknown'
  <2>1. CallsHaveSource'
    BY <1>20 DEF Fails, RequestEnds, IdleRequest, CallsHaveSource, srcVars, taskVars
  <2>2. OpenIsHeld'
    BY <1>20 DEF Fails, RequestEnds, IdleRequest, OpenIsHeld, Open, srcVars, taskVars
  <2>3. UnmadeIsUnknown'
    BY <1>20 DEF Fails, RequestEnds, IdleRequest, UnmadeIsUnknown, srcVars, taskVars
  <2> QED BY <2>1, <2>2, <2>3
<1>21. ASSUME NEW r \in Request, Completes(r)
      PROVE  CallsHaveSource' /\ OpenIsHeld' /\ UnmadeIsUnknown'
  <2>1. CallsHaveSource'
    BY <1>21 DEF Completes, RequestEnds, IdleRequest, CallsHaveSource, srcVars, taskVars
  <2>2. OpenIsHeld'
    BY <1>21 DEF Completes, RequestEnds, IdleRequest, OpenIsHeld, Open, srcVars, taskVars
  <2>3. UnmadeIsUnknown'
    BY <1>21 DEF Completes, RequestEnds, IdleRequest, UnmadeIsUnknown, srcVars, taskVars
  <2> QED BY <2>1, <2>2, <2>3
<1>22. ASSUME NEW r \in Request, Cancels(r)
      PROVE  CallsHaveSource' /\ OpenIsHeld' /\ UnmadeIsUnknown'
  <2>1. CallsHaveSource'
    BY <1>22 DEF Cancels, RequestEnds, IdleRequest, CallsHaveSource, srcVars, taskVars
  <2>2. OpenIsHeld'
    BY <1>22 DEF Cancels, RequestEnds, IdleRequest, OpenIsHeld, Open, srcVars, taskVars
  <2>3. UnmadeIsUnknown'
    BY <1>22 DEF Cancels, RequestEnds, IdleRequest, UnmadeIsUnknown, srcVars, taskVars
  <2> QED BY <2>1, <2>2, <2>3
<1>23. CASE UNCHANGED vars
  BY <1>23 DEF vars, srcVars, taskVars, CallsHaveSource, OpenIsHeld, Open, UnmadeIsUnknown
<1> QED
  BY <1>1, <1>2, <1>3, <1>4, <1>5, <1>6, <1>7, <1>8, <1>9, <1>10, <1>11, <1>12, <1>13, <1>14, <1>15, <1>16, <1>17, <1>18, <1>19, <1>20, <1>21, <1>22, <1>23
     DEF Next, Expiry, Sync, Releasing, Serve
-----------------------------------------------------------------------------
(* The session.                                                            *)

ClosesRightly == ~session.closed /\ session'.closed => (Open \cup Readers)' = {}

\* Whoever takes a source out of service gives up one reference ...
LEMMA SourceEnds ==
  ASSUME TypeOK, RefsMatchHolders, NEW s \in Source, state[s] = "open",
         NEW why \in States \ {"open"}, Ends(s, why), request' = request
  PROVE  RefsMatchHolders' /\ ClosesRightly
<1>1. /\ s \in Open /\ s \notin Open' /\ Readers' = Readers
      /\ \A z \in Source \ {s} : state'[z] = state[z]
  BY DEF TypeOK, Ends, Open, Readers
<1>2. session' = Release(session) /\ session \in Sessions
  BY DEF Ends, TypeOK
<1>3. /\ Cardinality(Open) \in Nat /\ Cardinality(Readers) \in Nat
      /\ Cardinality(Open)' = Cardinality(Open) - 1 /\ Cardinality(Readers)' = Cardinality(Readers)
      /\ Cardinality(Open)' \in Nat
      /\ Cardinality(Open)' + Cardinality(Readers)' = 0 => (Open \cup Readers)' = {}
  BY <1>1, HoldersChange
<1>4. ~session.closed =>
        /\ session'.refs = Cardinality(Open)' + Cardinality(Readers)'
        /\ session'.closed <=> session'.refs = 0
  <2> SUFFICES ASSUME ~session.closed
               PROVE  /\ session'.refs = Cardinality(Open)' + Cardinality(Readers)'
                      /\ session'.closed <=> session'.refs = 0
    OBVIOUS
  <2>1. session.refs = Cardinality(Open) + Cardinality(Readers) /\ session.refs > 0
    BY <1>3 DEF RefsMatchHolders
  <2>2. /\ session'.refs = session.refs - 1
        /\ session'.closed <=> session.refs - 1 = 0
    BY <1>2, <2>1 DEF Release
  <2>3. session'.refs = Cardinality(Open)' + Cardinality(Readers)'
    BY <1>3, <2>1, <2>2
  <2> QED BY <2>2, <2>3
<1>5. session.closed => session'.closed
  BY <1>2 DEF Release, Sessions
<1> QED
  BY <1>3, <1>4, <1>5 DEF RefsMatchHolders, ClosesRightly

\* ... and so does a request that ends.
LEMMA RequestGivesUp ==
  ASSUME TypeOK, RefsMatchHolders, NEW r \in Readers, RequestEnds(r)
  PROVE  RefsMatchHolders' /\ ClosesRightly
<1>1. /\ r \in Request /\ r \notin Readers' /\ state' = state /\ Open' = Open
      /\ \A z \in Request \ {r} : request'[z] = request[z]
  BY DEF TypeOK, RequestEnds, IdleRequest, Open, Readers
<1>2. session' = Release(session) /\ session \in Sessions
  BY DEF RequestEnds, TypeOK
<1>3. /\ Cardinality(Open) \in Nat /\ Cardinality(Readers) \in Nat
      /\ Cardinality(Readers)' = Cardinality(Readers) - 1 /\ Cardinality(Open)' = Cardinality(Open)
      /\ Cardinality(Readers)' \in Nat
      /\ Cardinality(Open)' + Cardinality(Readers)' = 0 => (Open \cup Readers)' = {}
  BY <1>1, HoldersChange
<1>4. ~session.closed =>
        /\ session'.refs = Cardinality(Open)' + Cardinality(Readers)'
        /\ session'.closed <=> session'.refs = 0
  <2> SUFFICES ASSUME ~session.closed
               PROVE  /\ session'.refs = Cardinality(Open)' + Cardinality(Readers)'
                      /\ session'.closed <=> session'.refs = 0
    OBVIOUS
  <2>1. session.refs = Cardinality(Open) + Cardinality(Readers) /\ session.refs > 0
    BY <1>3 DEF RefsMatchHolders
  <2>2. /\ session'.refs = session.refs - 1
        /\ session'.closed <=> session.refs - 1 = 0
    BY <1>2, <2>1 DEF Release
  <2>3. session'.refs = Cardinality(Open)' + Cardinality(Readers)'
    BY <1>3, <2>1, <2>2
  <2> QED BY <2>2, <2>3
<1>5. session.closed => session'.closed
  BY <1>2 DEF Release, Sessions
<1> QED
  BY <1>3, <1>4, <1>5 DEF RefsMatchHolders, ClosesRightly

LEMMA SessionStep ==
  ASSUME TypeOK, CallsHaveSource, RefsMatchHolders, [Next]_vars
  PROVE  RefsMatchHolders' /\ ClosesRightly
<1> USE DEF TypeOK
<1>0. ASSUME state' = state, session' = session, Readers' = Readers
      PROVE  RefsMatchHolders' /\ ClosesRightly
  BY <1>0 DEF RefsMatchHolders, ClosesRightly, Open
<1>1. ASSUME NEW s \in Source, NEW ranged \in BOOLEAN, Create(s, ranged)
      PROVE  RefsMatchHolders' /\ ClosesRightly
  <2>1. /\ s \notin Open /\ s \in Open' /\ Readers' = Readers /\ request' = request
        /\ \A z \in Source \ {s} : state'[z] = state[z]
    BY <1>1 DEF Create, Open, Readers, taskVars
  <2>2. session' = Retain(session) /\ session \in Sessions
    BY <1>1 DEF Create
  <2> QED
    BY <2>1, <2>2, HoldersChange DEF RefsMatchHolders, ClosesRightly, Retain, Sessions
<1>2. ASSUME NEW s \in Source, Revoke(s)
      PROVE  RefsMatchHolders' /\ ClosesRightly
  BY <1>2, SourceEnds DEF Revoke, SourceCloses, Available, States, taskVars
<1>3. ASSUME NEW s \in Source, TimerFires(s)
      PROVE  RefsMatchHolders' /\ ClosesRightly
  BY <1>0, <1>3 DEF TimerFires, Readers, srcVars, taskVars
<1>4. ASSUME NEW s \in Source, Expires(s)
      PROVE  RefsMatchHolders' /\ ClosesRightly
  <2>1. CASE state[s] = "open" /\ taskRefs[s] = 0
    BY <1>4, <2>1, SourceEnds DEF Expires, States, taskVars
  <2>2. CASE ~(state[s] = "open" /\ taskRefs[s] = 0)
    BY <1>0, <1>4, <2>2 DEF Expires, Readers, taskVars
  <2> QED BY <2>1, <2>2
<1>5. ASSUME NEW s \in Source, CloseNext(s)
      PROVE  RefsMatchHolders' /\ ClosesRightly
  <2>1. CASE state[s] = "open"
    BY <1>5, <2>1, SourceEnds DEF CloseNext, SourceCloses, States, taskVars
  <2>2. CASE state[s] # "open"
    BY <1>0, <1>5, <2>2 DEF CloseNext, SourceCloses, Readers, taskVars
  <2> QED BY <2>1, <2>2
<1>6. ASSUME NEW s \in Source, NEW t \in Task, SyncLooks(t, s)
      PROVE  RefsMatchHolders' /\ ClosesRightly
  BY <1>0, <1>6 DEF SyncLooks, Published, Available, Readers, srcVars, taskVars
<1>7. ASSUME NEW s \in Source, NEW r \in Request, RequestBegins(r, s)
      PROVE  RefsMatchHolders' /\ ClosesRightly
  BY <1>0, <1>7 DEF RequestBegins, Published, Readers, srcVars, taskVars
<1>8. ASSUME ArmTimer
      PROVE  RefsMatchHolders' /\ ClosesRightly
  BY <1>0, <1>8 DEF ArmTimer, Readers, srcVars, taskVars
<1>9. ASSUME ScriptEnds
      PROVE  RefsMatchHolders' /\ ClosesRightly
  <2>1. Open' = Open /\ Readers' = Readers /\ session' = CloseIfIdle(session)
    BY <1>9 DEF ScriptEnds, Open, Readers, srcVars, taskVars
  <2>2. /\ Cardinality(Open) \in Nat /\ Cardinality(Readers) \in Nat
        /\ Cardinality(Open) = 0 => Open = {}
        /\ Cardinality(Readers) = 0 => Readers = {}
    <3>1. IsFiniteSet(Open) /\ IsFiniteSet(Readers)
      BY FiniteAssumption, FS_Subset DEF Open, Readers
    <3> QED BY <3>1, HasElement
  <2> QED
    BY <2>1, <2>2 DEF RefsMatchHolders, ClosesRightly, CloseIfIdle, Sessions
<1>10. ASSUME Close
      PROVE  RefsMatchHolders' /\ ClosesRightly
  BY <1>0, <1>10 DEF Close, Readers, srcVars, taskVars
<1>11. ASSUME NEW t \in Task, SyncDrops(t)
      PROVE  RefsMatchHolders' /\ ClosesRightly
  BY <1>0, <1>11 DEF SyncDrops, Readers, srcVars, taskVars
<1>12. ASSUME NEW t \in Task, SyncAcquires(t)
      PROVE  RefsMatchHolders' /\ ClosesRightly
  BY <1>0, <1>12 DEF SyncAcquires, Available, IdleCall, Readers, srcVars, taskVars
<1>13. ASSUME NEW t \in Task, SyncReleases(t)
      PROVE  RefsMatchHolders' /\ ClosesRightly
  BY <1>0, <1>13 DEF SyncReleases, IdleCall, Readers, srcVars, taskVars
<1>14. ASSUME NEW t \in Task, TaskReleases(t)
      PROVE  RefsMatchHolders' /\ ClosesRightly
  BY <1>0, <1>14 DEF TaskReleases, Readers, srcVars, taskVars
<1>15. ASSUME NEW t \in Task, ReleaseLooks(t)
      PROVE  RefsMatchHolders' /\ ClosesRightly
  BY <1>0, <1>15 DEF ReleaseLooks, IdleCall, Available, Readers, srcVars, taskVars
<1>16. ASSUME NEW t \in Task, ReleaseDrops(t)
      PROVE  RefsMatchHolders' /\ ClosesRightly
  <2> DEFINE s == release[t].url
  <2>1. s \in Source
    BY <1>16 DEF ReleaseDrops, CallsHaveSource, Releases
  <2>2. CASE state[s] = "open" /\ taskRefs[s] = 1
    BY <1>16, <2>1, <2>2, SourceEnds DEF ReleaseDrops, States
  <2>3. CASE ~(state[s] = "open" /\ taskRefs[s] = 1)
    <3>1. taskRefs[s] \in Nat
      BY <2>1
    <3>2. state' = state /\ session' = session /\ Readers' = Readers
      BY <1>16, <2>1, <2>3, <3>1 DEF ReleaseDrops, Readers
    <3> QED BY <1>0, <3>2
  <2> QED BY <2>2, <2>3
<1>17. ASSUME NEW r \in Request, Admit(r)
      PROVE  RefsMatchHolders' /\ ClosesRightly
  <2>1. CASE state[request[r].url] = "open"
    <3>1. /\ r \notin Readers /\ r \in Readers' /\ Open' = Open /\ state' = state
          /\ \A z \in Request \ {r} : request'[z] = request[z]
      BY <1>17, <2>1 DEF Admit, Open, Readers, srcVars
    <3>2. session' = Retain(session) /\ session \in Sessions
      BY <1>17, <2>1 DEF Admit
    <3> QED
      BY <3>1, <3>2, HoldersChange DEF RefsMatchHolders, ClosesRightly, Retain, Sessions
  <2>2. CASE state[request[r].url] # "open"
    BY <1>0, <1>17, <2>2 DEF Admit, IdleRequest, Readers, srcVars
  <2> QED BY <2>1, <2>2
<1>18. ASSUME NEW r \in Request, Refused(r)
      PROVE  RefsMatchHolders' /\ ClosesRightly
  BY <1>18, RequestGivesUp DEF Refused, Readers
<1>19. ASSUME NEW r \in Request, NEW produces \in BOOLEAN, Opens(r, produces)
      PROVE  RefsMatchHolders' /\ ClosesRightly
  BY <1>0, <1>19 DEF Opens, Readers, srcVars, taskVars
<1>20. ASSUME NEW r \in Request, Fails(r)
      PROVE  RefsMatchHolders' /\ ClosesRightly
  BY <1>20, RequestGivesUp DEF Fails, Readers
<1>21. ASSUME NEW r \in Request, Completes(r)
      PROVE  RefsMatchHolders' /\ ClosesRightly
  BY <1>21, RequestGivesUp DEF Completes, Readers
<1>22. ASSUME NEW r \in Request, Cancels(r)
      PROVE  RefsMatchHolders' /\ ClosesRightly
  BY <1>22, RequestGivesUp DEF Cancels, Readers
<1>23. CASE UNCHANGED vars
  BY <1>0, <1>23 DEF vars, srcVars, Readers
<1> QED
  BY <1>1, <1>2, <1>3, <1>4, <1>5, <1>6, <1>7, <1>8, <1>9, <1>10, <1>11, <1>12, <1>13, <1>14, <1>15, <1>16, <1>17, <1>18, <1>19, <1>20, <1>21, <1>22, <1>23
     DEF Next, Expiry, Sync, Releasing, Serve
-----------------------------------------------------------------------------
(* The leases.                                                             *)

LeasesRight == LeasesCovered /\ LeasesCounted /\ LeaseKeepsSource /\ UnclaimedIsTimed

LEMMA NobodyOwes ==
  ASSUME NEW s, \A t \in Task : lease[t] # s /\ sync[t].url # s /\ release[t].url # s
  PROVE  Owing(s) = 0
<1>1. Leasing(s) = {} /\ Returning(s) = {} /\ GivingBack(s) = {}
  BY DEF Leasing, Returning, GivingBack
<1> QED BY <1>1, FS_EmptySet DEF Owing

\* Steps that change no lease and call.
LEMMA OthersStep ==
  ASSUME TypeOK, LeasesRight, taskVars' = taskVars,
         taskRefs' = taskRefs,
         \A s \in Source :
           state'[s] = "open" /\ s \notin closing' =>
             /\ state[s] = "open" /\ s \notin closing
             /\ script'.makes # s /\ Owing(s) = 0 => timer'[s] # "none",
         \A s \in Source : state'[s] = "open" => state[s] = "open",
         \A s \in Source : state'[s] \in {"released", "expired"} =>
                             state[s] = state'[s] \/ Owing(s) = 0
  PROVE  LeasesRight'
<1>1. \A s : Owing(s)' = Owing(s)
  BY DEF taskVars, Owing, Leasing, Returning, GivingBack
<1>2. LeasesCovered' /\ LeasesCounted' /\ UnclaimedIsTimed'
  BY <1>1 DEF LeasesRight, LeasesCovered, LeasesCounted, UnclaimedIsTimed, Open
<1>3. ASSUME NEW t \in Task, lease'[t] # None
      PROVE  state'[lease'[t]] \notin {"released", "expired"}
  <2>1. lease[t] \in Source /\ lease'[t] = lease[t] /\ Owing(lease[t]) # 0
    <3>1. lease[t] \in Source /\ lease'[t] = lease[t]
      BY <1>3 DEF taskVars, TypeOK
    <3>2. Due(t, lease[t]) >= 1
      BY <3>1 DEF Due, DueBy
    <3> QED BY <3>1, <3>2, OwingBounds
  <2> QED BY <1>3, <2>1 DEF LeasesRight, LeaseKeepsSource
<1> QED BY <1>2, <1>3 DEF LeasesRight, LeaseKeepsSource

LEMMA LeaseStep ==
  ASSUME TypeOK, CallsHaveSource, OpenIsHeld, UnmadeIsUnknown, LeasesRight, [Next]_vars
  PROVE  LeasesRight'
<1> USE DEF TypeOK
<1>a. \A s \in Source : Owing(s) \in Nat
  BY OwingBounds
<1>b. \A s \in Source : state[s] = "open" => taskRefs[s] >= Owing(s)
  BY DEF LeasesRight, LeasesCovered, Open
<1>c. \A s \in Source : state[s] = "open" /\ s \notin closing =>
        /\ taskRefs[s] = Owing(s)
        /\ script.makes # s /\ Owing(s) = 0 => timer[s] # "none"
  BY DEF LeasesRight, LeasesCounted, UnclaimedIsTimed, Open
\* Tasks whose step changes nothing that is owed.
<1>d. ASSUME NEW t \in Task,
             \A u \in Task \ {t} : lease'[u] = lease[u] /\ sync'[u] = sync[u]
                                   /\ release'[u] = release[u],
             \A s \in Source : Due(t, s)' = Due(t, s),
             lease'[t] = lease[t] \/ lease'[t] = None,
             <<state, taskRefs, timer, script, closing>>'
               = <<state, taskRefs, timer, script, closing>>
      PROVE  LeasesRight'
  <2>1. \A s \in Source : Owing(s)' = Owing(s)
    <3>1. \A x : /\ Owing(x) \in Nat /\ Owing(x)' \in Nat
              /\ Owing(x)' + Due(t, x) = Owing(x) + Due(t, x)'
              /\ \A u \in Task : Due(u, x)' \in Nat /\ Owing(x)' >= Due(u, x)'
      BY <1>d, OwingChanges
    <3>2. \A x : Due(t, x) \in Nat /\ Owing(x) >= Due(t, x)
      BY OwingBounds
    <3> TAKE s \in Source
    <3>3. Due(t, s)' = Due(t, s)
      BY <1>d
    <3> QED BY <3>1, <3>2, <3>3
  <2>2. LeasesCovered' /\ LeasesCounted' /\ UnclaimedIsTimed'
    BY <1>d, <2>1 DEF LeasesRight, LeasesCovered, LeasesCounted, UnclaimedIsTimed, Open
  <2>3. LeaseKeepsSource'
    BY <1>d DEF LeasesRight, LeaseKeepsSource
  <2> QED BY <2>2, <2>3 DEF LeasesRight
<1>1. ASSUME NEW s \in Source, NEW ranged \in BOOLEAN, Create(s, ranged)
      PROVE  LeasesRight'
  <2>1. state[s] = "none" /\ taskRefs[s] = 0 /\ Owing(s) = 0
    BY <1>1, NobodyOwes DEF Create, UnmadeIsUnknown
  <2>2. \A x : Owing(x)' = Owing(x)
    BY <1>1 DEF Create, taskVars, Owing, Leasing, Returning, GivingBack
  <2>3. LeasesCovered' /\ LeasesCounted' /\ UnclaimedIsTimed'
    BY <1>1, <1>b, <1>c, <2>1, <2>2
       DEF Create, LeasesCovered, LeasesCounted, UnclaimedIsTimed, Open
  <2>4. LeaseKeepsSource'
    BY <1>1 DEF Create, LeasesRight, LeaseKeepsSource, taskVars
  <2> QED BY <2>3, <2>4 DEF LeasesRight
<1>2. ASSUME NEW s \in Source, Revoke(s)
      PROVE  LeasesRight'
  BY <1>2, <1>a, <1>b, <1>c, OthersStep DEF Revoke, SourceCloses, Ends, Available, Stopped, srcVars
<1>3. ASSUME NEW s \in Source, TimerFires(s)
      PROVE  LeasesRight'
  BY <1>3, <1>a, <1>b, <1>c, OthersStep DEF TimerFires, srcVars
<1>4. ASSUME NEW s \in Source, Expires(s)
      PROVE  LeasesRight'
  BY <1>4, <1>a, <1>b, <1>c, OthersStep DEF Expires, Ends, srcVars
<1>5. ASSUME NEW s \in Source, CloseNext(s)
      PROVE  LeasesRight'
  BY <1>5, <1>a, <1>b, <1>c, OthersStep DEF CloseNext, SourceCloses, Ends, Stopped, srcVars
<1>6. ASSUME NEW s \in Source, NEW t \in Task, SyncLooks(t, s)
      PROVE  LeasesRight'
  <2>1. /\ \A u \in Task \ {t} : lease'[u] = lease[u] /\ sync'[u] = sync[u]
                                  /\ release'[u] = release[u]
        /\ lease'[t] = lease[t] \/ lease'[t] = None
        /\ <<state, taskRefs, timer, script, closing>>'
             = <<state, taskRefs, timer, script, closing>>
    BY <1>6 DEF SyncLooks, Published, Available, srcVars
  <2>2. \A x \in Source : Due(t, x)' = Due(t, x)
    BY <1>6, NoneAssumption DEF SyncLooks, Published, Available, Due, DueBy, srcVars
  <2> QED BY <1>d, <2>1, <2>2
<1>7. ASSUME NEW s \in Source, NEW r \in Request, RequestBegins(r, s)
      PROVE  LeasesRight'
  BY <1>7, <1>a, <1>b, <1>c, OthersStep DEF RequestBegins, Published, srcVars
<1>8. ASSUME ArmTimer
      PROVE  LeasesRight'
  BY <1>8, <1>a, <1>b, <1>c, OthersStep DEF ArmTimer, srcVars
<1>9. ASSUME ScriptEnds
      PROVE  LeasesRight'
  BY <1>9, <1>a, <1>b, <1>c, OthersStep DEF ScriptEnds, srcVars
<1>10. ASSUME Close
      PROVE  LeasesRight'
  BY <1>10, <1>a, <1>b, <1>c, OthersStep DEF Close, srcVars
<1>11. ASSUME NEW t \in Task, SyncDrops(t)
      PROVE  LeasesRight'
  <2>1. /\ \A u \in Task \ {t} : lease'[u] = lease[u] /\ sync'[u] = sync[u]
                                  /\ release'[u] = release[u]
        /\ lease'[t] = lease[t] \/ lease'[t] = None
        /\ <<state, taskRefs, timer, script, closing>>'
             = <<state, taskRefs, timer, script, closing>>
    BY <1>11 DEF SyncDrops, srcVars
  <2>2. \A x \in Source : Due(t, x)' = Due(t, x)
    BY <1>11, NoneAssumption DEF SyncDrops, Due, DueBy, srcVars
  <2> QED BY <1>d, <2>1, <2>2
<1>12. ASSUME NEW t \in Task, SyncAcquires(t)
      PROVE  LeasesRight'
  <2>0. PICK s \in Source : sync[t].url = s
    BY <1>12 DEF SyncAcquires, CallsHaveSource, Syncs
  <2>1. CASE state[s] = "open" /\ lease' = [lease EXCEPT ![t] = s]
             /\ taskRefs' = [taskRefs EXCEPT ![s] = @ + 1] /\ timer' = Stopped(s)
             /\ sync' = [sync EXCEPT ![t] = [pc |-> "release", url |-> lease[t]]]
    <3>1. /\ \A u \in Task \ {t} : lease'[u] = lease[u] /\ sync'[u] = sync[u]
                                   /\ release'[u] = release[u]
          /\ state' = state /\ script' = script /\ closing' = closing
          /\ \A x \in Source : taskRefs'[x] = IF x = s THEN taskRefs[x] + 1 ELSE taskRefs[x]
      BY <1>12, <2>0, <2>1 DEF SyncAcquires
    <3>2. /\ \A x \in Source \ {s} : Due(t, x)' = Due(t, x) /\ timer'[x] = timer[x]
          /\ Due(t, s)' = Due(t, s) + 1
      <4>1. /\ sync[t].pc = "acquire" /\ sync'[t] = [pc |-> "release", url |-> lease[t]]
            /\ lease'[t] = s /\ release'[t] = release[t]
            /\ \A x \in Source \ {s} : timer'[x] = timer[x]
        BY <1>12, <2>0, <2>1 DEF SyncAcquires, Stopped
      <4> QED BY <4>1 DEF Due, DueBy
    <3>3. \A x \in Source : Owing(x)' = IF x = s THEN Owing(x) + 1 ELSE Owing(x)
      <4>1. \A x : /\ Owing(x) \in Nat /\ Owing(x)' \in Nat
              /\ Owing(x)' + Due(t, x) = Owing(x) + Due(t, x)'
              /\ \A u \in Task : Due(u, x)' \in Nat /\ Owing(x)' >= Due(u, x)'
        BY <3>1, OwingChanges
      <4>2. \A x : Due(t, x) \in Nat /\ Owing(x) >= Due(t, x)
        BY OwingBounds
      <4> QED BY <3>2, <4>1, <4>2
    <3>4. LeasesCovered' /\ LeasesCounted' /\ UnclaimedIsTimed'
      BY <1>a, <1>b, <1>c, <3>1, <3>2, <3>3
         DEF LeasesCovered, LeasesCounted, UnclaimedIsTimed, Open
    <3>5. LeaseKeepsSource'
      BY <2>0, <2>1, <3>1 DEF LeasesRight, LeaseKeepsSource
    <3> QED BY <3>4, <3>5 DEF LeasesRight
  <2>2. CASE sync' = [sync EXCEPT ![t] = IdleCall] /\ UNCHANGED <<taskRefs, timer, lease>>
    <3>1. /\ \A u \in Task \ {t} : lease'[u] = lease[u] /\ sync'[u] = sync[u]
                                   /\ release'[u] = release[u]
          /\ lease'[t] = lease[t]
          /\ <<state, taskRefs, timer, script, closing>>'
               = <<state, taskRefs, timer, script, closing>>
      BY <1>12, <2>2 DEF SyncAcquires
    <3>2. \A x \in Source : Due(t, x)' = Due(t, x)
      BY <1>12, <2>2 DEF SyncAcquires, Due, DueBy, IdleCall
    <3> QED BY <1>d, <3>1, <3>2
  <2> QED BY <1>12, <2>0, <2>1, <2>2 DEF SyncAcquires
<1>13. ASSUME NEW t \in Task, SyncReleases(t)
      PROVE  LeasesRight'
  <2>1. /\ \A u \in Task \ {t} : lease'[u] = lease[u] /\ sync'[u] = sync[u]
                                  /\ release'[u] = release[u]
        /\ lease'[t] = lease[t] \/ lease'[t] = None
        /\ <<state, taskRefs, timer, script, closing>>'
             = <<state, taskRefs, timer, script, closing>>
    BY <1>13 DEF SyncReleases, IdleCall, srcVars
  <2>2. \A x \in Source : Due(t, x)' = Due(t, x)
    BY <1>13, NoneAssumption DEF SyncReleases, IdleCall, Due, DueBy, srcVars
  <2> QED BY <1>d, <2>1, <2>2
<1>14. ASSUME NEW t \in Task, TaskReleases(t)
      PROVE  LeasesRight'
  <2>1. /\ \A u \in Task \ {t} : lease'[u] = lease[u] /\ sync'[u] = sync[u]
                                  /\ release'[u] = release[u]
        /\ lease'[t] = lease[t] \/ lease'[t] = None
        /\ <<state, taskRefs, timer, script, closing>>'
             = <<state, taskRefs, timer, script, closing>>
    BY <1>14 DEF TaskReleases, srcVars
  <2>2. \A x \in Source : Due(t, x)' = Due(t, x)
    BY <1>14, NoneAssumption DEF TaskReleases, Due, DueBy, srcVars
  <2> QED BY <1>d, <2>1, <2>2
<1>15. ASSUME NEW t \in Task, ReleaseLooks(t)
      PROVE  LeasesRight'
  <2>1. /\ \A u \in Task \ {t} : lease'[u] = lease[u] /\ sync'[u] = sync[u]
                                 /\ release'[u] = release[u]
        /\ lease' = lease
        /\ <<state, taskRefs, timer, script, closing>>'
             = <<state, taskRefs, timer, script, closing>>
    BY <1>15 DEF ReleaseLooks, srcVars
  <2>2. CASE Available(release[t].url)
    <3>1. \A x \in Source : Due(t, x)' = Due(t, x)
      BY <1>15, <2>2 DEF ReleaseLooks, Due, DueBy
    <3> QED BY <1>d, <2>1, <3>1
  \* It goes away without a look at the references.
  <2>3. CASE ~Available(release[t].url)
    <3>1. \A x \in Source : /\ Due(t, x)' <= Due(t, x)
                            /\ state[x] = "open" /\ x \notin closing => Due(t, x)' = Due(t, x)
      BY <1>15, <2>3
         DEF ReleaseLooks, Due, DueBy, IdleCall, Available, OpenIsHeld, Open
    <3>2. \A x \in Source : /\ Owing(x)' \in Nat /\ Owing(x)' <= Owing(x)
                            /\ state[x] = "open" /\ x \notin closing => Owing(x)' = Owing(x)
      <4>1. \A x : /\ Owing(x) \in Nat /\ Owing(x)' \in Nat
              /\ Owing(x)' + Due(t, x) = Owing(x) + Due(t, x)'
              /\ \A u \in Task : Due(u, x)' \in Nat /\ Owing(x)' >= Due(u, x)'
        BY <2>1, OwingChanges
      <4>2. \A x : Due(t, x) \in Nat /\ Owing(x) >= Due(t, x)
        BY OwingBounds
      <4> QED BY <3>1, <4>1, <4>2
    <3>3. LeasesCovered' /\ LeasesCounted' /\ UnclaimedIsTimed'
      BY <1>a, <1>b, <1>c, <2>1, <3>2
         DEF LeasesCovered, LeasesCounted, UnclaimedIsTimed, Open
    <3>4. LeaseKeepsSource'
      BY <2>1 DEF LeasesRight, LeaseKeepsSource
    <3> QED BY <3>3, <3>4 DEF LeasesRight
  <2> QED BY <2>2, <2>3
<1>16. ASSUME NEW t \in Task, ReleaseDrops(t)
      PROVE  LeasesRight'
  <2>1. PICK s \in Source : release[t].url = s
    BY <1>16 DEF ReleaseDrops, CallsHaveSource, Releases
  <2>2. /\ \A u \in Task \ {t} : lease'[u] = lease[u] /\ sync'[u] = sync[u]
                                 /\ release'[u] = release[u]
        /\ lease' = lease /\ timer' = timer /\ script' = script /\ closing' = closing
        /\ \A x \in Source \ {s} : state'[x] = state[x] /\ taskRefs'[x] = taskRefs[x]
    BY <1>16, <2>1 DEF ReleaseDrops, Ends
  <2>3. /\ \A x \in Source \ {s} : Due(t, x)' = Due(t, x)
        /\ Due(t, s)' = Due(t, s) - 1 /\ Due(t, s) >= 1
    <3>1. /\ release[t].pc = "drop" /\ release'[t].pc = "idle" /\ release[t].url = s
          /\ lease' = lease /\ sync' = sync
      BY <1>16, <2>1 DEF ReleaseDrops, IdleCall
    <3> QED BY <3>1 DEF Due, DueBy
  <2>4. /\ \A x \in Source : Owing(x)' = IF x = s THEN Owing(x) - 1 ELSE Owing(x)
        /\ Owing(s) >= 1 /\ Owing(s) \in Nat
        /\ \A u \in Task : Due(u, s)' \in Nat /\ Owing(s)' >= Due(u, s)'
    <3>1. \A x : /\ Owing(x) \in Nat /\ Owing(x)' \in Nat
              /\ Owing(x)' + Due(t, x) = Owing(x) + Due(t, x)'
              /\ \A u \in Task : Due(u, x)' \in Nat /\ Owing(x)' >= Due(u, x)'
      BY <2>2, OwingChanges
    <3>2. \A x : Due(t, x) \in Nat /\ Owing(x) >= Due(t, x)
      BY OwingBounds
    <3>3. /\ Owing(s)' + Due(t, s) = Owing(s) + Due(t, s)'
          /\ Owing(s) \in Nat /\ Owing(s)' \in Nat /\ Due(t, s) \in Nat
          /\ Due(t, s)' = Due(t, s) - 1 /\ Due(t, s) >= 1 /\ Owing(s) >= Due(t, s)
      BY <2>1, <2>3, <3>1, <3>2
    <3>4. Owing(s)' = Owing(s) - 1 /\ Owing(s) >= 1
      BY <3>3
    <3>5. ASSUME NEW x \in Source \ {s}
          PROVE  Owing(x)' = Owing(x)
      <4>1. Due(t, x)' = Due(t, x)
        BY <2>3
      <4> QED BY <3>1, <3>2, <4>1
    <3> QED BY <3>1, <3>3, <3>4, <3>5
  <2>5. /\ state[s] = "open" => taskRefs[s] \in Nat /\ taskRefs[s] # 0
        /\ state[s] = "open" /\ taskRefs[s] = 1 => Owing(s) = 1
    BY <1>b, <2>1, <2>4
  <2>6. /\ state'[s] = IF state[s] = "open" /\ taskRefs[s] = 1 THEN "released" ELSE state[s]
        /\ taskRefs'[s] = IF state[s] = "open" THEN taskRefs[s] - 1 ELSE taskRefs[s]
    BY <1>16, <2>1, <2>5 DEF ReleaseDrops, Ends
  <2>7. LeasesCovered' /\ LeasesCounted' /\ UnclaimedIsTimed'
    BY <1>a, <1>b, <1>c, <2>1, <2>2, <2>4, <2>5, <2>6
       DEF LeasesCovered, LeasesCounted, UnclaimedIsTimed, Open
  <2>8. ASSUME NEW u \in Task, lease'[u] # None
        PROVE  state'[lease'[u]] \notin {"released", "expired"}
    <3>1. CASE lease[u] = s /\ state[s] = "open" /\ taskRefs[s] = 1
      <4>1. Owing(s)' = 0 /\ Due(u, s)' >= 1
        BY <2>1, <2>2, <2>4, <2>5, <3>1 DEF Due, DueBy
      <4> QED BY <2>1, <2>4, <4>1
    <3>2. CASE ~(lease[u] = s /\ state[s] = "open" /\ taskRefs[s] = 1)
      <4>1. lease[u] \in Source /\ state'[lease[u]] = state[lease[u]]
        BY <2>2, <2>6, <2>8, <3>2
      <4> QED BY <2>2, <2>8, <4>1 DEF LeasesRight, LeaseKeepsSource
    <3> QED BY <3>1, <3>2
  <2> QED BY <2>7, <2>8 DEF LeasesRight, LeaseKeepsSource
<1>17. ASSUME NEW r \in Request, Admit(r)
      PROVE  LeasesRight'
  BY <1>17, <1>a, <1>b, <1>c, OthersStep DEF Admit, IdleRequest, srcVars
<1>18. ASSUME NEW r \in Request, Refused(r)
      PROVE  LeasesRight'
  BY <1>18, <1>a, <1>b, <1>c, OthersStep DEF Refused, RequestEnds, IdleRequest, srcVars
<1>19. ASSUME NEW r \in Request, NEW produces \in BOOLEAN, Opens(r, produces)
      PROVE  LeasesRight'
  BY <1>19, <1>a, <1>b, <1>c, OthersStep DEF Opens, srcVars
<1>20. ASSUME NEW r \in Request, Fails(r)
      PROVE  LeasesRight'
  BY <1>20, <1>a, <1>b, <1>c, OthersStep DEF Fails, RequestEnds, IdleRequest, srcVars
<1>21. ASSUME NEW r \in Request, Completes(r)
      PROVE  LeasesRight'
  BY <1>21, <1>a, <1>b, <1>c, OthersStep DEF Completes, RequestEnds, IdleRequest, srcVars
<1>22. ASSUME NEW r \in Request, Cancels(r)
      PROVE  LeasesRight'
  BY <1>22, <1>a, <1>b, <1>c, OthersStep DEF Cancels, RequestEnds, IdleRequest, srcVars
<1>23. CASE UNCHANGED vars
  BY <1>23, <1>a, <1>b, <1>c, OthersStep DEF vars, srcVars
<1> QED
  BY <1>1, <1>2, <1>3, <1>4, <1>5, <1>6, <1>7, <1>8, <1>9, <1>10, <1>11, <1>12, <1>13, <1>14, <1>15, <1>16, <1>17, <1>18, <1>19, <1>20, <1>21, <1>22, <1>23
     DEF Next, Expiry, Sync, Releasing, Serve

-----------------------------------------------------------------------------
(* The theorems.                                                           *)

LEMMA InitInvariant == Init => IInv
<1> SUFFICES ASSUME Init PROVE IInv
  OBVIOUS
<1>1. TypeOK
  BY DEF Init, TypeOK, States, Timers, Readings, Sessions, Scripts, Syncs, Releases, Requests,
         IdleCall, IdleRequest
<1>2. CallsHaveSource /\ OpenIsHeld /\ UnmadeIsUnknown
  BY NoneAssumption DEF Init, CallsHaveSource, OpenIsHeld, Open, UnmadeIsUnknown, IdleCall,
                        IdleRequest
<1>3. Open = {} /\ Readers = {}
  BY DEF Init, Open, Readers, IdleRequest
<1>4. RefsMatchHolders
  BY <1>3, FS_EmptySet DEF Init, RefsMatchHolders
<1>5. LeasesCovered /\ LeasesCounted /\ LeaseKeepsSource /\ UnclaimedIsTimed
  BY <1>3 DEF Init, LeasesCovered, LeasesCounted, LeaseKeepsSource, UnclaimedIsTimed
<1> QED BY <1>1, <1>2, <1>4, <1>5 DEF IInv

\* The inductive invariant: IInv holds in every reachable state.
THEOREM Invariance == Spec => []IInv
<1>1. IInv /\ [Next]_vars => IInv'
  BY TypeStep, KnowledgeStep, SessionStep, LeaseStep DEF IInv, LeasesRight
<1> QED BY InitInvariant, <1>1, PTL DEF Spec

\* The variables always have their types: session.refs and taskRefs never go below
\* zero, although Release and releaseTask are called from many places.
THEOREM TypeCorrect == Spec => []TypeOK
<1>1. IInv => TypeOK
  BY DEF IInv
<1> QED BY Invariance, <1>1, PTL

\* engineSession.refs counts the sources served and their readers, neither more nor less.
THEOREM RefsAreExact == Spec => []RefsMatchHolders
<1>1. IInv => RefsMatchHolders
  BY DEF IInv
<1> QED BY Invariance, <1>1, PTL

\* taskRefs of a source counts the leases taken and not given back.
THEOREM LeasesAreExact == Spec => []LeasesCounted
<1>1. IInv => LeasesCounted
  BY DEF IInv
<1> QED BY Invariance, <1>1, PTL

\* Neither the timer nor another task takes a source away from a task that leases it.
THEOREM LeasesAreKept == Spec => []LeaseKeepsSource
<1>1. IInv => LeaseKeepsSource
  BY DEF IInv
<1> QED BY Invariance, <1>1, PTL

\* A source nobody leases has a timer running, or its goroutine about to look.
THEOREM UnclaimedExpires == Spec => []UnclaimedIsTimed
<1>1. IInv => UnclaimedIsTimed
  BY DEF IInv
<1> QED BY Invariance, <1>1, PTL

\* Leases, references and timers agree: a source stays exactly as long as it is needed.
THEOREM SourcesStayKept == Spec => []SourcesAreKept
<1>1. IInv => SourcesAreKept
  BY DEF IInv, SourcesAreKept
<1> QED BY Invariance, <1>1, PTL

\* The step that closes the session leaves no source served and no reader.
THEOREM ClosedWhenUnused == Spec => ClosesWhenUnused
<1>1. IInv /\ [Next]_vars
        => [~session.closed /\ session'.closed => (Open \cup Readers)' = {}]_vars
  BY SessionStep DEF IInv, ClosesRightly
<1> QED BY Invariance, <1>1, PTL DEF Spec, ClosesWhenUnused
=============================================================================
