------------------------- MODULE TaskSchedulerProofs -------------------------
(***************************************************************************)
(* Proofs about TaskScheduler, for any set of tasks and of clients and any *)
(* MaxRunning.                                                             *)
(***************************************************************************)
EXTENDS TaskScheduler, CountingLemmas

USE MaxRunningAssumption, NoneAssumption

-----------------------------------------------------------------------------
(* Lists.                                                                  *)

\* Every rank up to the size of I is that of an element of I.
LEMMA Ranks ==
  ASSUME NEW I, IsFiniteSet(I), I \subseteq Nat
  PROVE  \A i \in 1 .. Cardinality(I) : \E n \in I : Cardinality({m \in I : m <= n}) = i
<1> DEFINE Below(n) == {m \in I : m <= n}
           k == Cardinality(I)
           rank == [n \in I |-> Cardinality(Below(n))]
<1>1. k \in Nat
  BY FS_CardinalityType
<1>2. \A n \in I : IsFiniteSet(Below(n)) /\ Cardinality(Below(n)) \in 1 .. k
  <2> TAKE n \in I
  <2>1. IsFiniteSet(Below(n)) /\ Cardinality(Below(n)) <= k /\ n \in Below(n)
    BY FS_Subset
  <2> QED BY <1>1, <2>1, HasElement
<1>3. \A n, o \in I : n < o => Cardinality(Below(n)) < Cardinality(Below(o))
  <2> SUFFICES ASSUME NEW n \in I, NEW o \in I, n < o
               PROVE  Cardinality(Below(n)) < Cardinality(Below(o))
    OBVIOUS
  <2>1. Below(n) \subseteq Below(o) /\ o \in Below(o) /\ o \notin Below(n)
    <3>1. \A m \in I : m \in Int
      OBVIOUS
    <3>2. n \in Int /\ o \in Int /\ n < o
      OBVIOUS
    <3>3. \A m \in I : m <= n => m <= o
      BY <3>1, <3>2
    <3>4. ~(o <= n) /\ o <= o
      BY <3>2
    <3> QED BY <3>3, <3>4
  <2>2. /\ Cardinality(Below(n)) <= Cardinality(Below(o))
        /\ Cardinality(Below(n)) # Cardinality(Below(o))
    BY <1>2, <2>1, FS_Subset
  <2> QED BY <1>2, <2>2
<1>4. rank \in Injection(I, 1 .. k)
  <2>1. rank \in [I -> 1 .. k]
    BY <1>2
  <2>2. \A n, o \in I : rank[n] = rank[o] => n = o
    BY <1>2, <1>3
  <2> QED BY <2>1, <2>2 DEF Injection, IsInjective
<1>5. IsFiniteSet(1 .. k) /\ Cardinality(1 .. k) = k
  BY <1>1, FS_Interval
<1>6. rank \in Surjection(I, 1 .. k)
  BY <1>4, <1>5, FS_Injection
<1> QED BY <1>6 DEF Surjection

\* The entries of a sequence are of the sequence, and those of one without repetitions
\* do not repeat either.
LEMMA EntriesOf ==
  ASSUME NEW T, NEW q \in Seq(T), NEW I, I \subseteq DOMAIN q
  PROVE  /\ Entries(q, I) \in Seq(T)
         /\ \A i \in DOMAIN Entries(q, I) : \E n \in I : Entries(q, I)[i] = q[n]
         /\ ToSet(Entries(q, I)) \subseteq ToSet(q)
         /\ IsInjective(q) => IsInjective(Entries(q, I))
<1> DEFINE k == Cardinality(I)
           Rank(n) == Cardinality({m \in I : m <= n})
           at(i) == CHOOSE n \in I : Rank(n) = i
<1>0. Len(q) \in Nat /\ DOMAIN q = 1 .. Len(q) /\ \A n \in I : q[n] \in T
  OBVIOUS
<1>1. IsFiniteSet(I) /\ I \subseteq Nat /\ k \in Nat
  <2>1. IsFiniteSet(1 .. Len(q))
    BY <1>0, FS_Interval
  <2>2. IsFiniteSet(I)
    BY <1>0, <2>1, FS_Subset
  <2> QED BY <1>0, <2>2, FS_CardinalityType
<1>2. \A i \in 1 .. k : at(i) \in I /\ Rank(at(i)) = i
  <2> TAKE i \in 1 .. k
  <2>1. \A j \in 1 .. k : \E n \in I : Rank(n) = j
    BY <1>1, Ranks, Zenon
  <2> HIDE DEF Rank
  <2> QED BY <2>1
<1>3. Entries(q, I) = [i \in 1 .. k |-> q[at(i)]]
  BY DEF Entries
<1> HIDE DEF at, k
<1>4. Entries(q, I) \in [1 .. k -> T]
  BY <1>0, <1>2, <1>3
<1>5. Entries(q, I) \in Seq(T) /\ DOMAIN Entries(q, I) = 1 .. k
  BY <1>1, <1>4
<1>6. \A i \in DOMAIN Entries(q, I) : \E n \in I : Entries(q, I)[i] = q[n]
  BY <1>2, <1>3
<1>7. ASSUME IsInjective(q)
      PROVE  IsInjective(Entries(q, I))
  <2> SUFFICES ASSUME NEW i \in 1 .. k, NEW j \in 1 .. k, q[at(i)] = q[at(j)]
               PROVE  i = j
    BY <1>3 DEF IsInjective
  <2> QED BY <1>2, <1>7 DEF IsInjective
<1> QED BY <1>5, <1>6, <1>7 DEF ToSet

\* Lists and what is in them.
LEMMA ListFacts ==
  ASSUME NEW T, NEW q \in Seq(T)
  PROVE  /\ ToSet(q) \subseteq T
         /\ q # <<>> => /\ Head(q) \in ToSet(q) /\ Tail(q) \in Seq(T)
                        /\ ToSet(Tail(q)) \subseteq ToSet(q)
         /\ \A x \in T : /\ Append(q, x) \in Seq(T) /\ <<x>> \in Seq(T) /\ ToSet(<<x>>) = {x}
                         /\ ToSet(Append(q, x)) = ToSet(q) \cup {x}
                         /\ IsInjective(q) /\ x \notin ToSet(q) => IsInjective(Append(q, x))
<1>1. ToSet(q) \subseteq T
  BY DEF ToSet
<1>2. ASSUME q # <<>>
      PROVE  /\ Head(q) \in ToSet(q) /\ Tail(q) \in Seq(T)
             /\ ToSet(Tail(q)) \subseteq ToSet(q)
  <2>1. /\ Len(q) \in Nat \ {0} /\ Head(q) = q[1] /\ Tail(q) \in Seq(T)
        /\ Len(Tail(q)) = Len(q) - 1 /\ \A i \in 1 .. Len(q) - 1 : Tail(q)[i] = q[i + 1]
    BY <1>2
  <2>2. \A i \in 1 .. Len(q) - 1 : i + 1 \in 1 .. Len(q)
    BY <2>1
  <2> QED BY <2>1, <2>2 DEF ToSet
<1>3. ASSUME NEW x \in T
      PROVE  /\ Append(q, x) \in Seq(T) /\ <<x>> \in Seq(T) /\ ToSet(<<x>>) = {x}
             /\ ToSet(Append(q, x)) = ToSet(q) \cup {x}
             /\ IsInjective(q) /\ x \notin ToSet(q) => IsInjective(Append(q, x))
  <2>1. /\ Append(q, x) \in Seq(T) /\ <<x>> \in Seq(T)
        /\ Len(Append(q, x)) = Len(q) + 1 /\ Append(q, x)[Len(q) + 1] = x
        /\ \A i \in 1 .. Len(q) : Append(q, x)[i] = q[i]
        /\ Len(q) \in Nat
    OBVIOUS
  <2>2. ToSet(<<x>>) = {x}
    BY DEF ToSet
  <2>3. DOMAIN Append(q, x) = 1 .. Len(q) + 1 /\ DOMAIN q = 1 .. Len(q)
    BY <2>1
  <2>4. ToSet(Append(q, x)) = ToSet(q) \cup {x}
    BY <2>1, <2>3 DEF ToSet
  <2>5. ASSUME IsInjective(q), x \notin ToSet(q)
        PROVE  IsInjective(Append(q, x))
    BY <2>1, <2>3, <2>5 DEF ToSet, IsInjective
  <2> QED BY <2>1, <2>2, <2>4, <2>5
<1> QED BY <1>1, <1>2, <1>3

LEMMA Appended ==
  ASSUME NEW T, NEW q \in Seq(T), NEW x \in T
  PROVE  Append(q, x) \in Seq(T) /\ ToSet(Append(q, x)) = ToSet(q) \cup {x}
<1>1. \A y \in T : /\ Append(q, y) \in Seq(T) /\ <<y>> \in Seq(T) /\ ToSet(<<y>>) = {y}
                   /\ ToSet(Append(q, y)) = ToSet(q) \cup {y}
                   /\ IsInjective(q) /\ y \notin ToSet(q) => IsInjective(Append(q, y))
  BY ListFacts
<1> QED BY <1>1, Zenon

LEMMA SubListFacts ==
  ASSUME NEW T, NEW q \in Seq(T), NEW r \in Seq(T), NEW m \in Nat, NEW n \in Nat,
         m >= 1, n <= Len(q)
  PROVE  /\ SubSeq(q, m, n) \in Seq(T)
         /\ ToSet(SubSeq(q, m, n)) \subseteq ToSet(q)
         /\ Len(SubSeq(q, m, n)) = IF m <= n THEN n - m + 1 ELSE 0
         /\ q \o r \in Seq(T) /\ ToSet(q \o r) = ToSet(q) \cup ToSet(r)
<1>1. /\ SubSeq(q, m, n) \in Seq(T)
      /\ Len(SubSeq(q, m, n)) = IF m <= n THEN n - m + 1 ELSE 0
      /\ \A i \in DOMAIN SubSeq(q, m, n) : m + i - 1 \in DOMAIN q /\ SubSeq(q, m, n)[i] = q[m + i - 1]
  OBVIOUS
<1>2. /\ q \o r \in Seq(T) /\ Len(q \o r) = Len(q) + Len(r)
      /\ \A i \in DOMAIN q : (q \o r)[i] = q[i] /\ i \in DOMAIN (q \o r)
      /\ \A i \in DOMAIN r : (q \o r)[Len(q) + i] = r[i] /\ Len(q) + i \in DOMAIN (q \o r)
      /\ \A i \in DOMAIN (q \o r) : i \in DOMAIN q \/ i - Len(q) \in DOMAIN r
      /\ \A i \in DOMAIN (q \o r) : (q \o r)[i] = IF i \in DOMAIN q THEN q[i] ELSE r[i - Len(q)]
  OBVIOUS
<1>3. ToSet(SubSeq(q, m, n)) \subseteq ToSet(q)
  BY <1>1 DEF ToSet
<1>4. ToSet(q) \subseteq ToSet(q \o r)
  <2> SUFFICES ASSUME NEW i \in DOMAIN q PROVE q[i] \in ToSet(q \o r)
    BY DEF ToSet
  <2> QED BY <1>2 DEF ToSet
<1>5. ToSet(r) \subseteq ToSet(q \o r)
  <2> SUFFICES ASSUME NEW i \in DOMAIN r PROVE r[i] \in ToSet(q \o r)
    BY DEF ToSet
  <2> QED BY <1>2 DEF ToSet
<1>6. ToSet(q \o r) \subseteq ToSet(q) \cup ToSet(r)
  <2> SUFFICES ASSUME NEW i \in DOMAIN (q \o r) PROVE (q \o r)[i] \in ToSet(q) \cup ToSet(r)
    BY DEF ToSet
  <2> QED BY <1>2 DEF ToSet
<1> QED BY <1>1, <1>2, <1>3, <1>4, <1>5, <1>6
-----------------------------------------------------------------------------
(* Types.                                                                  *)

LEMMA RecordTypes ==
  /\ \A s \in Starters : /\ s.t \in Task /\ s.g \in Nat
                         /\ \A pc \in {"ready", "start", "save", "watch", "failing", "marking",
                                       "failed"} : [s EXCEPT !.pc = pc] \in Starters
  /\ budget \in Setup => /\ \A op : Calls(op) => budget' \in Setup
                         /\ \A kind : Fault(kind) => budget' \in Setup
<1>1. \A s \in Starters : /\ s.t \in Task /\ s.g \in Nat
                         /\ \A pc \in {"ready", "start", "save", "watch", "failing", "marking",
                                       "failed"} : [s EXCEPT !.pc = pc] \in Starters
  BY DEF Starters
<1>2. budget \in Setup => /\ \A op : Calls(op) => budget' \in Setup
                          /\ \A kind : Fault(kind) => budget' \in Setup
  BY DEF Setup, Calls, Fault
<1> QED BY <1>1, <1>2

\* doStart of a task that is known starts it or leaves it alone.
LEMMA DoStartTypes ==
  ASSUME TypeOK, NEW t \in Task, DoStart(t)
  PROVE  /\ status' \in [Task -> Status] /\ gen' \in [Task -> Nat] /\ starters' \subseteq Starters
         /\ status'[t] # "ready" /\ \A u \in Task \ {t} : status'[u] = status[u]
         /\ \A u \in Task : status'[u] # status[u] => status'[u] = "running"
         /\ \A u \in Task : status[u] = "done" => status'[u] = "done"
<1>1. CASE status[t] \in {"running", "done"}
  BY <1>1 DEF DoStart, taskVars, TypeOK
<1>2. CASE status[t] \notin {"running", "done"}
  <2>1. [t |-> t, g |-> gen[t] + 1, create |-> status[t] = "ready", pc |-> "queued"] \in Starters
    BY DEF TypeOK, Starters
  <2>2. starters' \subseteq Starters
    BY <1>2, <2>1 DEF DoStart, TypeOK
  <2>3. status' \in [Task -> Status] /\ gen' \in [Task -> Nat]
    <3>1. status' = [status EXCEPT ![t] = "running"] /\ gen' = [gen EXCEPT ![t] = gen[t] + 1]
      BY <1>2 DEF DoStart
    <3>2. "running" \in Status /\ status \in [Task -> Status]
      BY DEF TypeOK, Status
    <3>3. gen[t] + 1 \in Nat /\ gen \in [Task -> Nat]
      BY DEF TypeOK
    <3> QED BY <3>1, <3>2, <3>3
  <2>4. status' = [status EXCEPT ![t] = "running"] /\ status \in [Task -> Status]
    BY <1>2 DEF DoStart, TypeOK
  <2> QED BY <1>2, <2>2, <2>3, <2>4
<1> QED BY <1>1, <1>2

\* A step that changes no list and no call.
LEMMA Aside ==
  ASSUME TypeInv, tasks' = tasks, waitTasks' = waitTasks, client' = client,
         \A t \in Task : status'[t] = "ready" <=> status[t] = "ready"
  PROVE  CallsHaveWork' /\ CreatedOnce'
<1>1. Known' = Known
  BY DEF Known
<1> QED BY <1>1 DEF TypeInv, CallsHaveWork, CreatedOnce

LEMMA MarkErrorTypes ==
  ASSUME TypeOK, NEW t \in Task, MarkError(t), status[t] = "running"
  PROVE  /\ status' \in [Task -> Status] /\ gen' \in [Task -> Nat] /\ stored' \subseteq Task
         /\ \A u \in Task : status'[u] = "ready" <=> status[u] = "ready"
  BY DEF TypeOK, MarkError, Status

LEMMA StarterStep ==
  ASSUME TypeInv, NEW s \in starters, Starter(s)
  PROVE  TypeInv'
<1> USE DEF TypeInv, TypeOK
<1>a. /\ s \in Starters /\ s.t \in Task
      /\ \A pc \in {"ready", "start", "save", "watch", "failing", "marking", "failed"} :
           StarterBecomes(s, pc) => starters' \subseteq Starters
      /\ StarterEnds(s) => starters' \subseteq Starters
  <2>1. s \in Starters /\ starters \subseteq Starters
    OBVIOUS
  <2>2. /\ s.t \in Task
        /\ \A pc \in {"ready", "start", "save", "watch", "failing", "marking", "failed"} :
             [s EXCEPT !.pc = pc] \in Starters
    BY <2>1, RecordTypes
  <2> QED BY <2>1, <2>2 DEF StarterBecomes, StarterEnds
<1>1. CASE StarterLocks(s)
  BY <1>a, <1>1, Aside DEF StarterLocks, taskVars
<1>2. CASE StarterChecks(s)
  BY <1>a, <1>2, Aside DEF StarterChecks, taskVars
<1>3. CASE StarterCannotResolve(s)
  BY <1>a, <1>3, RecordTypes, Aside DEF StarterCannotResolve, taskVars
<1>4. CASE StarterStarts(s)
  BY <1>a, <1>4, Aside DEF StarterStarts, taskVars
<1>5. CASE StarterSaves(s)
  BY <1>a, <1>5, RecordTypes, Aside DEF StarterSaves, taskVars
<1>6. CASE StarterWatches(s)
  BY <1>a, <1>6, Aside DEF StarterWatches, taskVars
<1>7. CASE StarterFails(s)
  BY <1>a, <1>7, Aside DEF StarterFails, taskVars
<1>8. CASE StarterMarksError(s)
  <2>1. CASE status[s.t] = "running"
    BY <1>a, <1>8, <2>1, MarkErrorTypes, Aside DEF StarterMarksError
  <2>2. CASE status[s.t] # "running"
    BY <1>a, <1>8, <2>2, Aside DEF StarterMarksError
  <2> QED BY <2>1, <2>2
<1>9. CASE StarterNotifies(s)
  BY <1>a, <1>9, Aside DEF StarterNotifies, taskVars
<1> QED BY <1>1, <1>2, <1>3, <1>4, <1>5, <1>6, <1>7, <1>8, <1>9 DEF Starter

LEMMA WatcherStep ==
  ASSUME TypeInv, NEW t \in Task, Watcher(t) \/ FetcherEnds(t)
  PROVE  TypeInv'
<1> USE DEF TypeInv, TypeOK, WatcherBecomes
<1>1. CASE WatcherReceives(t)
  BY <1>1, Aside DEF WatcherReceives, taskVars
<1>2. CASE WatcherFails(t)
  BY <1>2, Aside DEF WatcherFails, taskVars
<1>3. CASE WatcherMarksError(t)
  BY <1>3, MarkErrorTypes, Aside DEF WatcherMarksError, taskVars
<1>4. CASE WatcherNotifies(t)
  BY <1>4, Aside DEF WatcherNotifies, taskVars
<1>5. CASE WatcherRechecks(t)
  BY <1>5, Aside DEF WatcherRechecks, taskVars
<1>6. CASE WatcherMarksDone(t)
  <2>1. /\ status' \in [Task -> Status] /\ gen' \in [Task -> Nat]
        /\ \A u \in Task : status'[u] = "ready" <=> status[u] = "ready"
    <3>1. CASE status' = status /\ gen' = gen
      BY <3>1
    <3>2. CASE ~(status' = status /\ gen' = gen)
      <4>1. /\ status' = [status EXCEPT ![t] = "done"] /\ gen' = [gen EXCEPT ![t] = gen[t] + 1]
            /\ status[t] = "running"
        BY <1>6, <3>2 DEF WatcherMarksDone
      <4>2. "done" \in Status /\ gen[t] + 1 \in Nat
        BY DEF Status
      <4> QED BY <4>1, <4>2
    <3> QED BY <3>1, <3>2
  <2>2. watcher' \in [Task -> {"none", "wait", "ok", "err", "marking", "failed", "recheck",
                               "finish", "leave"}]
    <3>1. \/ watcher' = [watcher EXCEPT ![t] = "leave"]
          \/ watcher' = [watcher EXCEPT ![t] = "finish"]
      BY <1>6 DEF WatcherMarksDone, WatcherBecomes
    <3> QED BY <3>1
  <2>3. /\ tasks' = tasks /\ waitTasks' = waitTasks /\ client' = client
        /\ UNCHANGED <<dlock, starters, tlock, fet, doneCh, stored, notifies, budget>>
    BY <1>6 DEF WatcherMarksDone
  <2>4. CallsHaveWork' /\ CreatedOnce'
    BY <2>1, <2>3, Aside
  <2> QED BY <2>1, <2>2, <2>3, <2>4
<1>7. CASE WatcherFinishes(t)
  BY <1>7, Aside DEF WatcherFinishes, taskVars
<1>8. CASE WatcherLeaves(t)
  BY <1>8, Aside DEF WatcherLeaves, taskVars
<1>9. CASE FetcherEnds(t)
  BY <1>9, RecordTypes, Aside DEF FetcherEnds, taskVars
<1> QED BY <1>1, <1>2, <1>3, <1>4, <1>5, <1>6, <1>7, <1>8, <1>9 DEF Watcher

LEMMA NotifyStep ==
  ASSUME TypeInv, NotifyRuns
  PROVE  TypeInv'
<1> USE DEF TypeInv, TypeOK
<1>1. CASE remainRunningCount = 0 \/ waitTasks = <<>>
  BY <1>1, Aside DEF NotifyRuns, taskVars
<1>2. CASE ~(remainRunningCount = 0 \/ waitTasks = <<>>)
  <2> DEFINE t == Head(waitTasks)
  <2>0. waitTasks \in Seq(Task) /\ waitTasks # <<>> /\ waitTasks' = Tail(waitTasks) /\ DoStart(t)
    BY <1>2 DEF NotifyRuns
  <2>1. t \in Task /\ t \in Known /\ waitTasks' \in Seq(Task) /\ ToSet(waitTasks') \subseteq Known
    BY <2>0, ListFacts DEF CreatedOnce
  <2>2. /\ status' \in [Task -> Status] /\ gen' \in [Task -> Nat] /\ starters' \subseteq Starters
        /\ Known' = Known
    <3>1. /\ status' \in [Task -> Status] /\ gen' \in [Task -> Nat] /\ starters' \subseteq Starters
          /\ status'[t] # "ready" /\ \A u \in Task \ {t} : status'[u] = status[u]
      BY <2>0, <2>1, DoStartTypes
    <3>2. status[t] # "ready"
      BY <2>1 DEF Known
    <3> QED BY <3>1, <3>2 DEF Known
  <2>3. CreatedOnce' /\ CallsHaveWork'
    BY <1>2, <2>1, <2>2 DEF NotifyRuns, CreatedOnce, CallsHaveWork
  <2>4. /\ UNCHANGED <<tasks, dlock, tlock, watcher, fet, doneCh, stored, client, budget>>
        /\ notifies' \in Nat
    BY DEF NotifyRuns
  <2> QED BY <2>1, <2>2, <2>3, <2>4
<1> QED BY <1>1, <1>2

-----------------------------------------------------------------------------
(* Calls.                                                                  *)

\* A call with some of its fields replaced.
LEMMA Replaced ==
  ASSUME NEW k \in Call, NEW q \in Seq(Task), NEW n \in Int,
         NEW pc \in {"scan", "queue", "prepare"}
  PROVE  /\ [k EXCEPT !.scan = q, !.left = n, !.pc = pc] \in Call
         /\ [k EXCEPT !.todo = q, !.pc = pc] \in Call
  BY Zenon DEF Call

\* What runs is in the list, which is finite.
LEMMA RunningIsFinite ==
  ASSUME tasks \in Seq(Task)
  PROVE  /\ IsFiniteSet(ToSet(tasks)) /\ IsFiniteSet(Running)
         /\ Cardinality(Running) \in Nat /\ remainRunningCount \in Int
<1>1. IsFiniteSet(ToSet(tasks))
  <2>1. Len(tasks) \in Nat /\ DOMAIN tasks = 1 .. Len(tasks)
    OBVIOUS
  <2>2. IsFiniteSet(DOMAIN tasks)
    BY <2>1, FS_Interval
  <2>3. tasks \in Surjection(DOMAIN tasks, ToSet(tasks))
    BY <2>1 DEF ToSet, Surjection
  <2> QED BY <2>2, <2>3, FS_Surjection
<1>2. IsFiniteSet(Running)
  BY <1>1, FS_Subset DEF Running
<1>3. Cardinality(Running) \in Nat
  BY <1>2, FS_CardinalityType
<1> QED BY <1>1, <1>2, <1>3 DEF remainRunningCount

\* A call that has not begun.
LEMMA IdleCall == Idle \in Call /\ HasWork(Idle) /\ Items(Idle) = {} /\ Idle.pc = "idle"
<1>1. <<>> \in Seq(Task) /\ ToSet(<<>>) = {}
  BY DEF ToSet
<1>2. Idle \in Call
  BY <1>1 DEF Idle, Call
<1> QED BY <1>1, <1>2 DEF Idle, HasWork, Items

\* Client c goes on with work it has; nothing else changes for the others.
LEMMA Goes ==
  ASSUME TypeInv, NEW c \in Client, NEW k \in Call, Moves(c, k), HasWork(k),
         client[c].pc # "create", k.pc # "create", Items(k) \subseteq Known,
         ToSet(tasks') \subseteq Known, ToSet(waitTasks') \subseteq Known,
         Known' = Known
  PROVE  client' \in [Client -> Call] /\ CallsHaveWork' /\ CreatedOnce'
<1>1. /\ client' \in [Client -> Call] /\ client'[c] = k
      /\ \A d \in Client \ {c} : client'[d] = client[d]
  BY DEF TypeInv, TypeOK, Moves
<1>2. CallsHaveWork'
  BY <1>1 DEF TypeInv, CallsHaveWork
<1>3. CreatedOnce'
  BY <1>1 DEF TypeInv, CreatedOnce
<1> QED BY <1>1, <1>2, <1>3

LEMMA GoesIdle ==
  ASSUME TypeInv, NEW c \in Client, Moves(c, Idle),
         client[c].pc # "create",
         ToSet(tasks') \subseteq Known, ToSet(waitTasks') \subseteq Known,
         Known' = Known
  PROVE  client' \in [Client -> Call] /\ CallsHaveWork' /\ CreatedOnce'
  BY IdleCall, Goes

\* What the call of a client is made of.
LEMMA CallFacts ==
  ASSUME TypeInv, NEW c \in Client
  PROVE  /\ client[c] \in Call /\ HasWork(client[c])
         /\ client[c].todo \in Seq(Task) /\ client[c].scan \in Seq(Task)
         /\ client[c].start \in Seq(Task) /\ client[c].left \in Int /\ client[c].g \in Nat
         /\ client[c].pc # "create" => Items(client[c]) \subseteq Known
<1>1. client[c] \in Call /\ HasWork(client[c])
  BY DEF TypeInv, TypeOK, CallsHaveWork
<1> QED BY <1>1 DEF TypeInv, CreatedOnce, Call

\* A list that is cut short.
LEMMA Shorter ==
  ASSUME TypeInv, NEW q \in Seq(Task), q # <<>>, ToSet(q) \subseteq Known
  PROVE  /\ Head(q) \in Known /\ Head(q) \in Task /\ Tail(q) \in Seq(Task)
         /\ ToSet(Tail(q)) \subseteq Known /\ Len(q) \in Nat \ {0}
         /\ Len(q) # 1 => Tail(q) # <<>>
<1>1. /\ Head(q) \in ToSet(q) /\ Tail(q) \in Seq(Task)
      /\ ToSet(Tail(q)) \subseteq ToSet(q)
  BY ListFacts
<1>2. Len(q) \in Nat \ {0} /\ Len(Tail(q)) = Len(q) - 1 /\ Len(<<>>) = 0
  OBVIOUS
<1>3. ASSUME Tail(q) = <<>>
      PROVE  Len(q) = 1
  <2>1. Len(<<>>) = 0
    OBVIOUS
  <2>2. Len(Tail(q)) = 0
    BY <1>3, <2>1, Zenon
  <2> QED BY <1>2, <2>2
<1> QED BY <1>1, <1>2, <1>3 DEF Known

\* A client that pauses tasks has a victim and somewhere to go on.
LEMMA OnwardTypes ==
  ASSUME TypeInv, NEW c \in Client, NEW queued \in BOOLEAN,
         client[c].pc \in {"scan", "prepare", "pausing", "stopping", "saving"}
  PROVE  /\ Victim(c) \in Task /\ Victim(c) \in Known
         /\ Onward(c, queued) \in Call /\ HasWork(Onward(c, queued))
         /\ Onward(c, queued).pc # "create" /\ Items(Onward(c, queued)) \subseteq Known
<1> DEFINE k == client[c]
           n == IF queued THEN k.left - 1 ELSE k.left
<1>0. k \in Call /\ HasWork(k) /\ Items(k) \subseteq Known /\ n \in Int
  BY CallFacts
<1>1. /\ k.todo \in Seq(Task) /\ k.scan \in Seq(Task) /\ k.start \in Seq(Task) /\ k.todo # <<>>
      /\ ToSet(k.todo) \subseteq Known /\ ToSet(k.scan) \subseteq Known
      /\ ToSet(k.start) \subseteq Known
  BY <1>0, CallFacts DEF HasWork, Items
<1>2. CASE k.op = "continue"
  <2>1. k.scan # <<>>
    BY <1>0, <1>2 DEF HasWork
  <2>2. /\ Head(k.scan) \in Known /\ Head(k.scan) \in Task /\ Tail(k.scan) \in Seq(Task)
        /\ ToSet(Tail(k.scan)) \subseteq Known
        /\ Len(k.scan) # 1 => Tail(k.scan) # <<>>
    BY <1>1, <2>1, Shorter
  <2> DEFINE pc == IF n = 0 \/ Len(k.scan) = 1 THEN "queue" ELSE "scan"
             o == [k EXCEPT !.scan = Tail(@), !.left = n, !.pc = pc]
  <2>3. Onward(c, queued) = o
    BY <1>2 DEF Onward
  <2>4. /\ o.pc = pc /\ o.op = k.op /\ o.todo = k.todo /\ o.scan = Tail(k.scan)
        /\ o.start = k.start /\ o.left = n /\ o.g = k.g
    BY <1>0 DEF Call
  <2>5. pc \in {"scan", "queue"}
    OBVIOUS
  <2>6. o \in Call
    <3> HIDE DEF pc, n, k
    <3>1. /\ k \in Call /\ Tail(k.scan) \in Seq(Task) /\ n \in Int
          /\ pc \in {"scan", "queue", "prepare"}
      BY <1>0, <2>2, <2>5
    <3>2. [k EXCEPT !.scan = Tail(k.scan), !.left = n, !.pc = pc] \in Call
      BY <3>1, Replaced
    <3> QED BY <3>2
  <2> HIDE DEF o
  <2>7. HasWork(o)
    BY <1>1, <1>2, <2>2, <2>4 DEF HasWork
  <2>8. Items(o) \subseteq Known
    BY <1>1, <2>2, <2>4 DEF Items
  <2> QED BY <1>2, <2>2, <2>3, <2>4, <2>6, <2>7, <2>8 DEF Victim
<1>3. CASE k.op # "continue"
  <2>1. /\ Head(k.todo) \in Known /\ Head(k.todo) \in Task /\ Tail(k.todo) \in Seq(Task)
        /\ ToSet(Tail(k.todo)) \subseteq Known /\ Len(k.todo) \in Nat \ {0}
        /\ Len(k.todo) # 1 => Tail(k.todo) # <<>>
    BY <1>1, Shorter
  <2>2. CASE Len(k.todo) > 1
    <3> DEFINE o == [k EXCEPT !.todo = Tail(@), !.pc = "prepare"]
    <3>1. Onward(c, queued) = o
      BY <1>3, <2>2 DEF Onward
    <3>3. o \in Call
      BY <1>0, <2>1, Replaced
    <3>4. /\ o.pc = "prepare" /\ o.op = k.op /\ o.todo = Tail(k.todo) /\ o.scan = k.scan
          /\ o.start = k.start
      BY <1>0 DEF Call
    <3> HIDE DEF o
    <3>5. HasWork(o)
      <4>1. ASSUME Len(k.todo) = 1 PROVE FALSE
        BY <2>1, <2>2, <4>1
      <4>2. Tail(k.todo) # <<>>
        BY <2>1, <4>1
      <4> QED BY <1>3, <3>4, <4>2 DEF HasWork
    <3>6. Items(o) \subseteq Known
      BY <1>1, <2>1, <3>4 DEF Items
    <3> QED BY <1>3, <2>1, <3>1, <3>3, <3>4, <3>5, <3>6 DEF Victim
  <2>3. CASE ~(Len(k.todo) > 1)
    BY <1>3, <2>1, <2>3, IdleCall DEF Victim, Onward
  <2> QED BY <2>2, <2>3
<1> QED BY <1>2, <1>3

\* The call with another place to be at.
LEMMA PlaceTypes ==
  ASSUME TypeInv, NEW c \in Client,
         client[c].pc \in {"prepare", "pausing", "stopping", "saving", "scan"},
         NEW pc \in {"prepare", "pausing", "stopping", "saving"}, NEW g \in Nat
  PROVE  /\ [client[c] EXCEPT !.pc = pc] \in Call /\ HasWork([client[c] EXCEPT !.pc = pc])
         /\ Items([client[c] EXCEPT !.pc = pc]) \subseteq Known
         /\ [client[c] EXCEPT !.pc = pc].pc # "create"
         /\ [client[c] EXCEPT !.pc = pc, !.g = g] \in Call
         /\ HasWork([client[c] EXCEPT !.pc = pc, !.g = g])
         /\ Items([client[c] EXCEPT !.pc = pc, !.g = g]) \subseteq Known
         /\ [client[c] EXCEPT !.pc = pc, !.g = g].pc # "create"
<1> DEFINE k == client[c]
           o == [k EXCEPT !.pc = pc]
           p == [k EXCEPT !.pc = pc, !.g = g]
<1>0. k \in Call /\ HasWork(k) /\ Items(k) \subseteq Known
  BY CallFacts
<1>1. o \in Call /\ p \in Call
  BY <1>0 DEF Call
<1>2. /\ o.pc = pc /\ o.op = k.op /\ o.todo = k.todo /\ o.scan = k.scan /\ o.start = k.start
      /\ p.pc = pc /\ p.op = k.op /\ p.todo = k.todo /\ p.scan = k.scan /\ p.start = k.start
  BY <1>0 DEF Call
<1> HIDE DEF o, p
<1>3. HasWork(o) /\ HasWork(p)
  BY <1>0, <1>2 DEF HasWork
<1>4. Items(o) \subseteq Known /\ Items(p) \subseteq Known
  BY <1>0, <1>2 DEF Items
<1> QED BY <1>1, <1>2, <1>3, <1>4 DEF o, p

-----------------------------------------------------------------------------
(* Steps of clients.                                                       *)

LEMMA SelectedTypes ==
  ASSUME TypeInv, NEW S, NEW E
  PROVE  Selected(S, E) \in Seq(Task) /\ ToSet(Selected(S, E)) \subseteq Known
<1> DEFINE I == {i \in DOMAIN tasks : tasks[i] \in S /\ status[tasks[i]] \notin E}
<1>1. tasks \in Seq(Task) /\ ToSet(tasks) \subseteq Known /\ I \subseteq DOMAIN tasks
  BY DEF TypeInv, TypeOK, CreatedOnce
<1>2. Selected(S, E) = Entries(tasks, I)
  BY DEF Selected
<1> HIDE DEF I
<1>3. Entries(tasks, I) \in Seq(Task) /\ ToSet(Entries(tasks, I)) \subseteq ToSet(tasks)
  BY <1>1, EntriesOf
<1> QED BY <1>1, <1>2, <1>3

\* The calls that begin with a list of tasks.
Beginnings(q, n) ==
  {[Idle EXCEPT !.op = "pause", !.pc = "prepare", !.todo = q],
   [Idle EXCEPT !.op = "continue", !.pc = "lock", !.todo = q],
   [Idle EXCEPT !.op = "continue", !.pc = "start", !.start = q],
   [Idle EXCEPT !.op = "continueBatch", !.pc = "start", !.start = q],
   [Idle EXCEPT !.op = "continueAll", !.pc = "each", !.todo = q, !.left = n],
   [Idle EXCEPT !.op = "delete", !.pc = "remove", !.todo = q],
   [Idle EXCEPT !.op = "deleteAll", !.pc = "erase", !.todo = q]}

LEMMA Begun ==
  ASSUME NEW q \in Seq(Task), q # <<>>, ToSet(q) \subseteq Known, NEW n \in Int,
         NEW k \in Beginnings(q, n)
  PROVE  k \in Call /\ HasWork(k) /\ Items(k) \subseteq Known /\ k.pc # "create"
<1>1. <<>> \in Seq(Task) /\ ToSet(<<>>) = {}
  BY DEF ToSet
<1>2. k \in Call
  <2>1. Idle \in Call
    BY IdleCall
  <2>2. /\ [Idle EXCEPT !.op = "pause", !.pc = "prepare", !.todo = q] \in Call
        /\ [Idle EXCEPT !.op = "continue", !.pc = "lock", !.todo = q] \in Call
        /\ [Idle EXCEPT !.op = "continue", !.pc = "start", !.start = q] \in Call
    BY <2>1 DEF Call, Methods
  <2>3. /\ [Idle EXCEPT !.op = "continueBatch", !.pc = "start", !.start = q] \in Call
        /\ [Idle EXCEPT !.op = "continueAll", !.pc = "each", !.todo = q, !.left = n] \in Call
        /\ [Idle EXCEPT !.op = "delete", !.pc = "remove", !.todo = q] \in Call
        /\ [Idle EXCEPT !.op = "deleteAll", !.pc = "erase", !.todo = q] \in Call
    BY <2>1 DEF Call, Methods
  <2> QED BY <2>2, <2>3 DEF Beginnings
<1>3. /\ k.scan = <<>> /\ k.op \in {"pause", "continue", "continueBatch", "continueAll",
                                    "delete", "deleteAll"}
      /\ k.pc \in {"prepare", "lock", "start", "each", "remove", "erase"}
      /\ k.pc # "start" => k.todo = q /\ k.start = <<>>
      /\ k.pc = "start" => k.start = q /\ k.todo = <<>>
      /\ k.pc = "lock" => k.op = "continue"
      /\ k.pc = "prepare" => k.op = "pause"
      /\ k.pc = "each" => k.op = "continueAll"
      /\ k.pc = "start" => k.op \in {"continue", "continueBatch"}
      /\ k.pc \in {"remove", "erase"} => k.op \in {"delete", "deleteAll"}
  <2>1. CASE k = [Idle EXCEPT !.op = "pause", !.pc = "prepare", !.todo = q]
    BY <2>1 DEF Idle
  <2>2. CASE k = [Idle EXCEPT !.op = "continue", !.pc = "lock", !.todo = q]
    BY <2>2 DEF Idle
  <2>3. CASE k = [Idle EXCEPT !.op = "continue", !.pc = "start", !.start = q]
    BY <2>3 DEF Idle
  <2>4. CASE k = [Idle EXCEPT !.op = "continueBatch", !.pc = "start", !.start = q]
    BY <2>4 DEF Idle
  <2>5. CASE k = [Idle EXCEPT !.op = "continueAll", !.pc = "each", !.todo = q, !.left = n]
    BY <2>5 DEF Idle
  <2>6. CASE k = [Idle EXCEPT !.op = "delete", !.pc = "remove", !.todo = q]
    BY <2>6 DEF Idle
  <2>7. CASE k = [Idle EXCEPT !.op = "deleteAll", !.pc = "erase", !.todo = q]
    BY <2>7 DEF Idle
  <2> QED BY <2>1, <2>2, <2>3, <2>4, <2>5, <2>6, <2>7 DEF Beginnings
<1>4. HasWork(k)
  BY <1>3 DEF HasWork
<1>5. Items(k) \subseteq Known
  BY <1>1, <1>3 DEF Items
<1>6. k.pc # "create"
  BY <1>3
<1> QED BY <1>2, <1>4, <1>5, <1>6

LEMMA CreateStoresStep ==
  ASSUME TypeInv, NEW c \in Client, NEW t \in Task, CreateStores(c, t)
  PROVE  TypeInv'
<1> DEFINE k == [Idle EXCEPT !.pc = "create", !.op = "create", !.todo = <<t>>]
<1> USE DEF TypeInv, TypeOK
<1>1. <<t>> \in Seq(Task) /\ <<>> \in Seq(Task) /\ <<t>> # <<>>
  OBVIOUS
<1>2. k \in Call /\ k.pc = "create" /\ k.todo = <<t>>
  <2>1. Idle \in Call
    BY IdleCall
  <2> QED BY <1>1, <2>1 DEF Call, Methods
<1>3. HasWork(k)
  BY <1>1, <1>2 DEF HasWork
<1> HIDE DEF k
<1>4. client' = [client EXCEPT ![c] = k]
  BY DEF CreateStores, Moves, k
<1>5. /\ client' \in [Client -> Call] /\ client'[c] = k
      /\ \A d \in Client \ {c} : client'[d] = client[d]
  BY <1>2, <1>4
<1>6. CallsHaveWork'
  BY <1>3, <1>5 DEF CallsHaveWork
<1>7. /\ status' = status /\ tasks' = tasks /\ waitTasks' = waitTasks /\ t \notin Known
      /\ \A d \in Client : client[d].todo # <<t>> \/ client[d].pc # "create"
  BY DEF CreateStores, New, taskVars, Known
<1>8. Known' = Known
  BY <1>7 DEF Known
<1>9. CreatedOnce'
  <2>1. \A d \in Client : IF client'[d].pc = "create"
                           THEN \E u \in Task \ Known : client'[d].todo = <<u>>
                           ELSE Items(client'[d]) \subseteq Known
    BY <1>2, <1>5, <1>7 DEF CreatedOnce
  <2>2. \A d, e \in Client : /\ client'[d].pc = "create" /\ client'[e].pc = "create"
                             /\ client'[d].todo = client'[e].todo
                             => d = e
    BY <1>2, <1>5, <1>7 DEF CreatedOnce
  <2> QED BY <1>7, <1>8, <2>1, <2>2 DEF CreatedOnce
<1>10. budget' \in Setup
  BY RecordTypes DEF CreateStores
<1> QED BY <1>5, <1>6, <1>9, <1>10 DEF CreateStores, taskVars

LEMMA NewCallStep ==
  ASSUME TypeInv, NEW c \in Client, NewCall(c)
  PROVE  TypeInv'
<1> USE DEF TypeInv, TypeOK
<1>0. /\ \A op : Calls(op) => budget' \in Setup
      /\ tasks \in Seq(Task) /\ ToSet(tasks) \subseteq Known
      /\ ToSet(waitTasks) \subseteq Known /\ ToSet(<<>>) = {} /\ <<>> \in Seq(Task)
  <2>1. /\ \A op : Calls(op) => budget' \in Setup
    BY RecordTypes
  <2>2. ToSet(<<>>) = {} /\ <<>> \in Seq(Task)
    BY DEF ToSet
  <2> QED BY <2>1, <2>2 DEF CreatedOnce
<1>1. ASSUME CallPauseAll(c)
      PROVE  TypeInv'
  <2> DEFINE k == [Idle EXCEPT !.op = "pauseAll", !.pc = "range"]
  <2>0. Idle \in Call
    BY IdleCall
  <2>1. k \in Call
    BY <2>0 DEF Call, Methods
  <2>2. HasWork(k) /\ k.pc # "create" /\ Items(k) = {}
    BY <1>0 DEF HasWork, Items, Idle
  <2> HIDE DEF k
  <2>3. Moves(c, k) /\ Known' = Known /\ client[c].pc # "create" /\ waitTasks' = <<>>
        /\ tasks' = tasks
    BY <1>1 DEF CallPauseAll, Known, taskVars, k
  <2>4. client' \in [Client -> Call] /\ CallsHaveWork' /\ CreatedOnce'
    BY <1>0, <2>1, <2>2, <2>3, Goes
  <2> QED BY <1>0, <1>1, <2>3, <2>4 DEF CallPauseAll, taskVars
<1>2. ASSUME NEW q \in Seq(Task), q # <<>>, ToSet(q) \subseteq Known, NEW k,
             k \in {[Idle EXCEPT !.op = "pause", !.pc = "prepare", !.todo = q],
                    [Idle EXCEPT !.op = "continue", !.pc = "lock", !.todo = q],
                    [Idle EXCEPT !.op = "continueBatch", !.pc = "start", !.start = q],
                    [Idle EXCEPT !.op = "continueAll", !.pc = "each", !.todo = q,
                                 !.left = remainRunningCount],
                    [Idle EXCEPT !.op = "delete", !.pc = "remove", !.todo = q],
                    [Idle EXCEPT !.op = "deleteAll", !.pc = "erase", !.todo = q]},
             Moves(c, k), client[c].pc = "idle", status' = status,
             tasks' \in {<<>>, tasks}, waitTasks' \in {<<>>, waitTasks}
      PROVE  client' \in [Client -> Call] /\ CallsHaveWork' /\ CreatedOnce'
  <2>1. remainRunningCount \in Int
    BY <1>0, RunningIsFinite
  <2>2. k \in Call /\ HasWork(k) /\ Items(k) \subseteq Known /\ k.pc # "create"
    <3>1. ToSet(q) \subseteq Known /\ q # <<>> /\ q \in Seq(Task)
      BY <1>2
    <3> HIDE DEF TypeInv, TypeOK
    <3>2. k \in Beginnings(q, remainRunningCount)
      BY <1>2, Zenon DEF Beginnings
    <3> QED BY <2>1, <3>1, <3>2, Begun
  <2>3. Known' = Known
    BY <1>2 DEF Known
  <2> QED BY <1>0, <1>2, <2>2, <2>3, Goes
<1>3. ASSUME CallContinueAll(c)
      PROVE  TypeInv'
  BY <1>0, <1>2, <1>3 DEF CallContinueAll, taskVars
<1>4. ASSUME CallDeleteAll(c)
      PROVE  TypeInv'
  <2>1. client' \in [Client -> Call] /\ CallsHaveWork' /\ CreatedOnce'
    BY <1>0, <1>2, <1>4 DEF CallDeleteAll, taskVars
  <2>2. tasks' \in Seq(Task) /\ IsInjective(tasks') /\ waitTasks' \in Seq(Task)
    BY <1>4 DEF CallDeleteAll, IsInjective
  <2> QED BY <1>0, <1>4, <2>1, <2>2 DEF CallDeleteAll, taskVars
<1>5. ASSUME NEW S \in SUBSET Task, CallPause(c, S)
      PROVE  TypeInv'
  <2>1. Selected(S, {"pause", "error", "done"}) \in Seq(Task)
        /\ ToSet(Selected(S, {"pause", "error", "done"})) \subseteq Known
    BY SelectedTypes
  <2> QED BY <1>0, <1>2, <1>5, <2>1 DEF CallPause, taskVars
<1>6. ASSUME NEW S \in SUBSET Task, CallContinue(c, S)
      PROVE  TypeInv'
  <2>1. Selected(S, {"running", "done"}) \in Seq(Task)
        /\ ToSet(Selected(S, {"running", "done"})) \subseteq Known
    BY SelectedTypes
  <2> QED BY <1>0, <1>2, <1>6, <2>1 DEF CallContinue, taskVars
<1>7. ASSUME NEW S \in SUBSET Task, CallContinueBatch(c, S) \/ CallDelete(c, S)
      PROVE  TypeInv'
  <2>1. Selected(S, {}) \in Seq(Task) /\ ToSet(Selected(S, {})) \subseteq Known
    BY SelectedTypes
  <2> QED BY <1>0, <1>2, <1>7, <2>1 DEF CallContinueBatch, CallDelete, taskVars
<1> QED BY <1>1, <1>3, <1>4, <1>5, <1>6, <1>7, CreateStoresStep DEF NewCall

LEMMA CreateQueuesStep ==
  ASSUME TypeInv, NEW c \in Client, CreateQueues(c)
  PROVE  TypeInv'
<1> USE DEF TypeInv, TypeOK
<1>1. PICK t \in Task : t \notin Known /\ client[c].todo = <<t>>
  BY DEF CreateQueues, CreatedOnce
<1>2. /\ tasks \in Seq(Task) /\ waitTasks \in Seq(Task) /\ t \notin ToSet(tasks)
      /\ ToSet(tasks) \subseteq Known /\ ToSet(waitTasks) \subseteq Known
  BY <1>1 DEF CreatedOnce
<1>3. /\ Head(client[c].todo) = t
      /\ Append(tasks, t) \in Seq(Task) /\ ToSet(Append(tasks, t)) = ToSet(tasks) \cup {t}
      /\ IsInjective(Append(tasks, t))
      /\ Append(waitTasks, t) \in Seq(Task)
      /\ ToSet(Append(waitTasks, t)) = ToSet(waitTasks) \cup {t}
  <2>1. /\ Append(tasks, t) \in Seq(Task) /\ ToSet(Append(tasks, t)) = ToSet(tasks) \cup {t}
        /\ IsInjective(tasks) /\ t \notin ToSet(tasks) => IsInjective(Append(tasks, t))
    BY <1>2, ListFacts
  <2>2. /\ Append(waitTasks, t) \in Seq(Task)
        /\ ToSet(Append(waitTasks, t)) = ToSet(waitTasks) \cup {t}
    BY <1>2, Appended
  <2>3. Head(client[c].todo) = t
    BY <1>1
  <2>4. IsInjective(Append(tasks, t))
    BY <1>2, <2>1
  <2> QED BY <2>1, <2>2, <2>3, <2>4
<1>4. /\ status' \in [Task -> Status] /\ gen' \in [Task -> Nat] /\ starters' \subseteq Starters
      /\ status'[t] # "ready" /\ \A u \in Task \ {t} : status'[u] = status[u]
      /\ waitTasks' \in {waitTasks, Append(waitTasks, t)}
  <2>1. CASE remainRunningCount = 0
    <3>1. status' = [status EXCEPT ![t] = "wait"] /\ gen' = gen /\ starters' = starters
          /\ waitTasks' = Append(waitTasks, t)
      BY <1>3, <2>1 DEF CreateQueues
    <3> QED BY <3>1 DEF Status
  <2>2. CASE remainRunningCount # 0
    <3>1. DoStart(t) /\ waitTasks' = waitTasks
      BY <1>3, <2>2 DEF CreateQueues
    <3> QED BY <3>1, DoStartTypes
  <2> QED BY <2>1, <2>2
<1>5. Known' = Known \cup {t}
  BY <1>4 DEF Known
<1>6. tasks' = Append(tasks, t) /\ client' = [client EXCEPT ![c] = Idle]
  BY <1>3 DEF CreateQueues, Moves
<1>7. /\ client' \in [Client -> Call] /\ client'[c] = Idle
      /\ \A d \in Client \ {c} : client'[d] = client[d]
  BY <1>6, IdleCall
<1>8. CallsHaveWork'
  BY <1>7, IdleCall DEF CallsHaveWork
<1>9. CreatedOnce'
  <2>1. \A d \in Client : IF client'[d].pc = "create"
                           THEN \E u \in Task \ Known' : client'[d].todo = <<u>>
                           ELSE Items(client'[d]) \subseteq Known'
    <3> SUFFICES ASSUME NEW d \in Client, d # c
                 PROVE  IF client[d].pc = "create"
                        THEN \E u \in Task \ Known' : client[d].todo = <<u>>
                        ELSE Items(client[d]) \subseteq Known'
      BY <1>7, IdleCall
    <3>1. CASE client[d].pc = "create"
      <4>1. PICK u \in Task \ Known : client[d].todo = <<u>>
        BY <3>1 DEF CreatedOnce
      <4>2. client[d].todo # client[c].todo
        BY <3>1 DEF CreatedOnce, CreateQueues
      <4> QED BY <1>1, <1>5, <3>1, <4>1, <4>2
    <3>2. CASE client[d].pc # "create"
      BY <1>5, <3>2 DEF CreatedOnce
    <3> QED BY <3>1, <3>2
  <2>2. \A d, e \in Client : /\ client'[d].pc = "create" /\ client'[e].pc = "create"
                             /\ client'[d].todo = client'[e].todo
                             => d = e
    BY <1>7, IdleCall DEF CreatedOnce
  <2>3. ToSet(tasks') \subseteq Known' /\ ToSet(waitTasks') \subseteq Known'
    BY <1>2, <1>3, <1>4, <1>5, <1>6
  <2> QED BY <2>1, <2>2, <2>3 DEF CreatedOnce
<1> QED BY <1>2, <1>3, <1>4, <1>6, <1>7, <1>8, <1>9 DEF CreateQueues

LEMMA PauseStep ==
  ASSUME TypeInv, NEW c \in Client,
         PreparePause(c) \/ HandlePause(c) \/ StopFetcher(c) \/ PauseSaves(c) \/ ContinueScans(c)
  PROVE  TypeInv'
<1> DEFINE t == Victim(c)
<1>0. /\ tasks \in Seq(Task) /\ ToSet(tasks) \subseteq Known /\ waitTasks \in Seq(Task)
      /\ ToSet(waitTasks) \subseteq Known /\ notifies \in Nat /\ stored \subseteq Task
      /\ status \in [Task -> Status] /\ gen \in [Task -> Nat] /\ tlock \in [Task -> BOOLEAN]
  BY DEF TypeInv, TypeOK, CreatedOnce
<1>1. /\ client[c].pc \in {"scan", "prepare", "pausing", "stopping", "saving"}
      /\ client[c].pc # "create"
  BY DEF PreparePause, HandlePause, StopFetcher, PauseSaves, ContinueScans
<1>2. /\ t \in Task /\ t \in Known
      /\ \A queued \in BOOLEAN :
           /\ Onward(c, queued) \in Call /\ HasWork(Onward(c, queued))
           /\ Onward(c, queued).pc # "create" /\ Items(Onward(c, queued)) \subseteq Known
  BY <1>1, OnwardTypes
<1>3. \A pc \in {"prepare", "pausing", "stopping", "saving"}, g \in Nat :
        /\ [client[c] EXCEPT !.pc = pc] \in Call /\ HasWork([client[c] EXCEPT !.pc = pc])
        /\ Items([client[c] EXCEPT !.pc = pc]) \subseteq Known
        /\ [client[c] EXCEPT !.pc = pc].pc # "create"
        /\ [client[c] EXCEPT !.pc = pc, !.g = g] \in Call
        /\ HasWork([client[c] EXCEPT !.pc = pc, !.g = g])
        /\ Items([client[c] EXCEPT !.pc = pc, !.g = g]) \subseteq Known
        /\ [client[c] EXCEPT !.pc = pc, !.g = g].pc # "create"
  BY <1>1, PlaceTypes
<1>4. ASSUME NEW k \in Call, HasWork(k), k.pc # "create", Items(k) \subseteq Known, Moves(c, k),
             ToSet(tasks') \subseteq Known, ToSet(waitTasks') \subseteq Known, Known' = Known
      PROVE  client' \in [Client -> Call] /\ CallsHaveWork' /\ CreatedOnce'
  BY <1>1, <1>4, Goes
<1>5. \A k : NotifyOnReturn(c, k) => notifies' \in Nat
  BY <1>0 DEF NotifyOnReturn
<1> HIDE DEF t
<1>6. CASE PreparePause(c)
  <2>1. CASE NothingToPause(t)
    <3>1. /\ Moves(c, Onward(c, FALSE)) /\ status' = status /\ gen' = gen /\ notifies' \in Nat
          /\ tasks' = tasks /\ waitTasks' = waitTasks
      BY <1>5, <1>6, <2>1 DEF PreparePause, t
    <3>2. Known' = Known
      BY <3>1 DEF Known
    <3>3. client' \in [Client -> Call] /\ CallsHaveWork' /\ CreatedOnce'
      BY <1>0, <1>2, <1>4, <3>1, <3>2
    <3> QED BY <1>6, <3>1, <3>3 DEF PreparePause, TypeInv, TypeOK
  <2>2. CASE ~NothingToPause(t)
    <3>1. /\ Moves(c, [client[c] EXCEPT !.pc = "pausing", !.g = gen[t] + 1])
          /\ status' = [status EXCEPT ![t] = "pause"] /\ gen' = [gen EXCEPT ![t] = gen[t] + 1]
          /\ notifies' = notifies /\ tasks' = tasks /\ waitTasks' = waitTasks
      BY <1>6, <2>2 DEF PreparePause, t
    <3>2. status' \in [Task -> Status] /\ gen' \in [Task -> Nat] /\ gen[t] + 1 \in Nat
      BY <1>0, <1>2, <3>1 DEF Status
    <3>3. Known' = Known
      BY <1>0, <1>2, <3>1 DEF Known
    <3>4. client' \in [Client -> Call] /\ CallsHaveWork' /\ CreatedOnce'
      BY <1>0, <1>3, <1>4, <3>1, <3>2, <3>3
    <3> QED BY <1>6, <3>1, <3>2, <3>4 DEF PreparePause, TypeInv, TypeOK
  <2> QED BY <2>1, <2>2
<1>7. CASE HandlePause(c)
  <2>1. /\ tlock' \in [Task -> BOOLEAN] /\ notifies' \in Nat
        /\ \/ Moves(c, Onward(c, FALSE))
           \/ Moves(c, [client[c] EXCEPT !.pc = "stopping"])
    BY <1>0, <1>2, <1>5, <1>7 DEF HandlePause, t
  <2>2. Known' = Known /\ tasks' = tasks /\ waitTasks' = waitTasks
    BY <1>7 DEF HandlePause, Known, taskVars
  <2>3. client' \in [Client -> Call] /\ CallsHaveWork' /\ CreatedOnce'
    BY <1>0, <1>2, <1>3, <1>4, <2>1, <2>2
  <2> QED BY <1>7, <2>1, <2>2, <2>3 DEF HandlePause, TypeInv, TypeOK, taskVars
<1>8. CASE StopFetcher(c)
  <2>1. /\ Moves(c, [client[c] EXCEPT !.pc = "saving"])
        /\ Known' = Known /\ tasks' = tasks /\ waitTasks' = waitTasks
        /\ fet' = [fet EXCEPT ![t] = "paused"]
    BY <1>8 DEF StopFetcher, Known, taskVars, t
  <2>2. client' \in [Client -> Call] /\ CallsHaveWork' /\ CreatedOnce'
    BY <1>0, <1>3, <1>4, <2>1
  <2> QED BY <1>2, <1>8, <2>1, <2>2 DEF StopFetcher, TypeInv, TypeOK, taskVars
<1>9. CASE PauseSaves(c)
  <2> DEFINE queued == /\ client[c].op = "continue"
                       /\ status[t] = "pause" /\ gen[t] = client[c].g
  <2>1. /\ stored' = stored \cup {t} /\ tlock' = [tlock EXCEPT ![t] = FALSE]
        /\ IF queued THEN status' = [status EXCEPT ![t] = "wait"] /\ waitTasks' = Append(waitTasks, t)
                     ELSE status' = status /\ waitTasks' = waitTasks
        /\ Moves(c, Onward(c, queued)) /\ notifies' \in Nat /\ tasks' = tasks
    BY <1>5, <1>9 DEF PauseSaves, t
  <2>2. queued \in BOOLEAN
    OBVIOUS
  <2> HIDE DEF queued
  <2>3. /\ status' \in [Task -> Status] /\ Known' = Known /\ waitTasks' \in Seq(Task)
        /\ ToSet(waitTasks') \subseteq Known
    <3>1. CASE queued
      <4>1. status' = [status EXCEPT ![t] = "wait"] /\ waitTasks' = Append(waitTasks, t)
        BY <2>1, <3>1
      <4>2. status' \in [Task -> Status] /\ Known' = Known
        BY <1>0, <1>2, <4>1 DEF Known, Status
      <4>3. /\ Append(waitTasks, t) \in Seq(Task)
            /\ ToSet(Append(waitTasks, t)) = ToSet(waitTasks) \cup {t}
        <5>1. waitTasks \in Seq(Task) /\ t \in Task
          BY <1>0, <1>2
        <5> QED BY <5>1, Appended
      <4> QED BY <1>0, <1>2, <4>1, <4>2, <4>3
    <3>2. CASE ~queued
      BY <1>0, <2>1, <3>2 DEF Known
    <3> QED BY <3>1, <3>2
  <2>4. client' \in [Client -> Call] /\ CallsHaveWork' /\ CreatedOnce'
    BY <1>0, <1>2, <1>4, <2>1, <2>2, <2>3
  <2>5. tlock' \in [Task -> BOOLEAN] /\ stored' \subseteq Task
    BY <1>0, <1>2, <2>1
  <2> QED BY <1>9, <2>1, <2>3, <2>4, <2>5 DEF PauseSaves, TypeInv, TypeOK, taskVars
<1>10. CASE ContinueScans(c)
  <2>1. /\ \/ Moves(c, Onward(c, FALSE))
           \/ Moves(c, [client[c] EXCEPT !.pc = "prepare"])
        /\ Known' = Known /\ tasks' = tasks /\ waitTasks' = waitTasks
    BY <1>10 DEF ContinueScans, Known, taskVars
  <2>2. client' \in [Client -> Call] /\ CallsHaveWork' /\ CreatedOnce'
    <3>1. CASE Moves(c, Onward(c, FALSE))
      BY <1>0, <1>2, <1>4, <2>1, <3>1
    <3>2. CASE Moves(c, [client[c] EXCEPT !.pc = "prepare"])
      BY <1>0, <1>3, <1>4, <2>1, <3>2
    <3> QED BY <2>1, <3>1, <3>2
  <2> QED BY <1>10, <2>2 DEF ContinueScans, TypeInv, TypeOK, taskVars
<1> QED BY <1>6, <1>7, <1>8, <1>9, <1>10

\* What a call becomes in the other steps.
LEMMA WorkTypes ==
  ASSUME NEW k \in Call, k.pc # "create", Items(k) \subseteq Known,
         NEW q \in Seq(Task), ToSet(q) \subseteq Known, NEW r \in Seq(Task),
         ToSet(r) \subseteq Known
  PROVE  /\ \A pc \in {"demote", "start", "erase", "close", "queue"} :
              /\ [k EXCEPT !.pc = pc] \in Call /\ [k EXCEPT !.pc = pc].pc # "create"
              /\ Items([k EXCEPT !.pc = pc]) \subseteq Known
         /\ \A pc \in {"each", "erase"} :
              /\ [k EXCEPT !.todo = q, !.pc = pc] \in Call
              /\ [k EXCEPT !.todo = q, !.pc = pc].pc # "create"
              /\ Items([k EXCEPT !.todo = q, !.pc = pc]) \subseteq Known
         /\ [k EXCEPT !.pc = "prepare", !.todo = q] \in Call
         /\ [k EXCEPT !.pc = "prepare", !.todo = q].pc # "create"
         /\ Items([k EXCEPT !.pc = "prepare", !.todo = q]) \subseteq Known
         /\ [k EXCEPT !.todo = q] \in Call
         /\ [k EXCEPT !.todo = q].pc # "create"
         /\ Items([k EXCEPT !.todo = q]) \subseteq Known
         /\ [k EXCEPT !.start = r] \in Call
         /\ [k EXCEPT !.start = r].pc # "create"
         /\ Items([k EXCEPT !.start = r]) \subseteq Known
         /\ [k EXCEPT !.todo = q, !.start = r] \in Call
         /\ [k EXCEPT !.todo = q, !.start = r].pc # "create"
         /\ Items([k EXCEPT !.todo = q, !.start = r]) \subseteq Known
<1> DEFINE Fine(o) == /\ o.pc # "create" /\ o.todo \in {k.todo, q} /\ o.start \in {k.start, r}
                      /\ o.scan = k.scan
<1>1. ASSUME NEW o, Fine(o)
      PROVE  Items(o) \subseteq Known /\ o.pc # "create"
  BY <1>1 DEF Items
<1>2. \A pc \in {"demote", "start", "erase", "close", "queue"} :
        [k EXCEPT !.pc = pc] \in Call /\ Fine([k EXCEPT !.pc = pc])
  BY DEF Call
<1>3. \A pc \in {"each", "erase"} :
        [k EXCEPT !.todo = q, !.pc = pc] \in Call /\ Fine([k EXCEPT !.todo = q, !.pc = pc])
  BY DEF Call
<1>4. /\ [k EXCEPT !.pc = "prepare", !.todo = q] \in Call
      /\ Fine([k EXCEPT !.pc = "prepare", !.todo = q])
  BY DEF Call
<1>5. [k EXCEPT !.todo = q] \in Call /\ Fine([k EXCEPT !.todo = q])
  BY DEF Call
<1>6. [k EXCEPT !.start = r] \in Call /\ Fine([k EXCEPT !.start = r])
  BY DEF Call
<1>7. [k EXCEPT !.todo = q, !.start = r] \in Call /\ Fine([k EXCEPT !.todo = q, !.start = r])
  BY DEF Call
<1> HIDE DEF Fine
<1> QED BY <1>1, <1>2, <1>3, <1>4, <1>5, <1>6, <1>7, Zenon

\* The steps that leave the lists and the statuses alone.
LEMMA QuietStep ==
  ASSUME TypeInv, NEW c \in Client,
         \/ PauseAllRanges(c) \/ ContinueLocks(c) \/ ContinueAllReads(c)
         \/ ContinueAllUnlocks(c) \/ DeleteErases(c) \/ DeleteCloses(c)
  PROVE  TypeInv'
<1> DEFINE k == client[c]
<1>0. /\ tasks \in Seq(Task) /\ ToSet(tasks) \subseteq Known
      /\ ToSet(waitTasks) \subseteq Known /\ tasks' = tasks /\ waitTasks' = waitTasks
      /\ Known' = Known /\ k.pc # "create"
  BY DEF TypeInv, TypeOK, CreatedOnce, PauseAllRanges, ContinueLocks, ContinueAllReads,
         ContinueAllUnlocks, DeleteErases, DeleteCloses, Known, taskVars
<1>1. /\ k \in Call /\ HasWork(k) /\ Items(k) \subseteq Known
      /\ k.todo \in Seq(Task) /\ k.start \in Seq(Task)
      /\ ToSet(k.todo) \subseteq Known /\ ToSet(k.start) \subseteq Known
  BY <1>0, CallFacts DEF Items
<1>2. ASSUME NEW o \in Call, HasWork(o), o.pc # "create", Items(o) \subseteq Known, Moves(c, o)
      PROVE  client' \in [Client -> Call] /\ CallsHaveWork' /\ CreatedOnce'
  BY <1>0, <1>2, Goes
<1>3. k.todo # <<>> => /\ Head(k.todo) \in Known /\ Head(k.todo) \in Task
                       /\ Tail(k.todo) \in Seq(Task) /\ ToSet(Tail(k.todo)) \subseteq Known
                       /\ Len(k.todo) # 1 => Tail(k.todo) # <<>>
  BY <1>1, Shorter
<1> HIDE DEF k
<1>4. CASE PauseAllRanges(c)
  <2> DEFINE o == [k EXCEPT !.pc = "prepare", !.todo = tasks]
  <2>1. CASE tasks = <<>>
    <3>1. Moves(c, Idle)
      BY <1>4, <2>1 DEF PauseAllRanges
    <3>2. client' \in [Client -> Call] /\ CallsHaveWork' /\ CreatedOnce'
      BY <1>2, <3>1, IdleCall
    <3> QED BY <1>4, <3>2 DEF PauseAllRanges, TypeInv, TypeOK, taskVars
  <2>2. CASE tasks # <<>>
    <3>1. Moves(c, o)
      BY <1>4, <2>2 DEF PauseAllRanges, k
    <3>2. o.pc = "prepare" /\ o.todo = tasks /\ o.op = k.op /\ k.op # "continue"
      <4>1. k.op = "pauseAll"
        BY <1>1, <1>4 DEF HasWork, PauseAllRanges, k
      <4> QED BY <1>1, <4>1 DEF Call
    <3>3. HasWork(o)
      BY <2>2, <3>2 DEF HasWork
    <3>4. o \in Call /\ o.pc # "create" /\ Items(o) \subseteq Known
      BY <1>0, <1>1, WorkTypes
    <3>5. client' \in [Client -> Call] /\ CallsHaveWork' /\ CreatedOnce'
      BY <1>2, <3>1, <3>3, <3>4
    <3> QED BY <1>4, <3>5 DEF PauseAllRanges, TypeInv, TypeOK, taskVars
  <2> QED BY <2>1, <2>2
<1>5. CASE ContinueLocks(c)
  <2> DEFINE n == NeedRunning(c) - remainRunningCount
             o == [k EXCEPT !.pc = "scan", !.scan = tasks, !.left = n]
             p == [k EXCEPT !.pc = "queue"]
  <2>0. n \in Int
    <3>1. remainRunningCount \in Int /\ Len(k.todo) \in Int
      BY <1>0, <1>1, RunningIsFinite
    <3> QED BY <3>1 DEF NeedRunning, k
  <2> HIDE DEF n
  <2>1. k.todo # <<>> /\ k.op = "continue"
    BY <1>1, <1>5 DEF ContinueLocks, HasWork, k
  <2>2. Moves(c, p) \/ (Moves(c, o) /\ tasks # <<>>)
    BY <1>5 DEF ContinueLocks, k, n
  <2>3. /\ o.pc = "scan" /\ o.scan = tasks /\ o.op = "continue" /\ o.todo = k.todo
        /\ p.pc = "queue" /\ p.op = "continue" /\ p.todo = k.todo
    BY <1>1, <2>1 DEF Call
  <2>4. CASE Moves(c, p)
    <3>1. HasWork(p)
      BY <2>1, <2>3 DEF HasWork
    <3>2. p \in Call /\ p.pc # "create" /\ Items(p) \subseteq Known
      BY <1>0, <1>1, WorkTypes
    <3> QED BY <1>2, <2>4, <3>1, <3>2, <1>5 DEF ContinueLocks, TypeInv, TypeOK, taskVars
  <2>5. CASE Moves(c, o) /\ tasks # <<>>
    <3>1. HasWork(o)
      BY <2>1, <2>3, <2>5 DEF HasWork
    <3>2. o \in Call /\ o.pc # "create" /\ Items(o) \subseteq Known
      <4>1. o \in Call /\ o.start = k.start
        BY <1>0, <1>1, <2>0 DEF Call
      <4>2. o.pc # "create" /\ o.todo = k.todo /\ o.scan = tasks
        BY <2>3
      <4> HIDE DEF o
      <4> QED BY <1>0, <1>1, <4>1, <4>2 DEF Items
    <3> QED BY <1>2, <2>5, <3>1, <3>2, <1>5 DEF ContinueLocks, TypeInv, TypeOK, taskVars
  <2> QED BY <2>2, <2>4, <2>5
<1>6. CASE ContinueAllReads(c)
  <2> DEFINE t == Head(k.todo)
             o == [k EXCEPT !.todo = Tail(k.todo)]
             p == [k EXCEPT !.todo = Tail(k.todo), !.start = Append(k.start, t)]
             d == [k EXCEPT !.pc = "demote"]
  <2>1. k.todo # <<>> /\ k.pc = "each"
    BY <1>6 DEF ContinueAllReads, k
  <2>2. /\ t \in Known /\ Append(k.start, t) \in Seq(Task)
        /\ ToSet(Append(k.start, t)) \subseteq Known
    BY <1>1, <1>3, <2>1, Appended
  <2>3. Moves(c, o) \/ Moves(c, p) \/ Moves(c, d)
    BY <1>6 DEF ContinueAllReads, k
  <2>4. /\ o.pc = "each" /\ p.pc = "each" /\ d.pc = "demote" /\ d.todo = k.todo
        /\ o.op = k.op /\ p.op = k.op /\ d.op = k.op
    BY <1>1, <2>1 DEF Call
  <2>5. HasWork(o) /\ HasWork(p) /\ HasWork(d)
    <3>1. k.op = "continueAll"
      BY <1>1, <2>1 DEF HasWork
    <3> QED BY <2>1, <2>4, <3>1 DEF HasWork
  <2>6. o \in Call /\ o.pc # "create" /\ Items(o) \subseteq Known
    BY <1>0, <1>1, <1>3, <2>1, WorkTypes
  <2>7. p \in Call /\ p.pc # "create" /\ Items(p) \subseteq Known
    <3>1. Append(k.start, t) \in Seq(Task)
      BY <2>2
    <3>2. Tail(k.todo) \in Seq(Task)
      BY <1>3, <2>1
    <3> QED BY <1>0, <1>1, <1>3, <2>1, <2>2, <3>1, <3>2, WorkTypes
  <2>8. d \in Call /\ d.pc # "create" /\ Items(d) \subseteq Known
    BY <1>0, <1>1, WorkTypes
  <2>9. client' \in [Client -> Call] /\ CallsHaveWork' /\ CreatedOnce'
    <3> HIDE DEF o, p, d
    <3> QED BY <1>2, <2>3, <2>5, <2>6, <2>7, <2>8
  <2> QED BY <1>6, <2>9 DEF ContinueAllReads, TypeInv, TypeOK, taskVars
<1>7. CASE ContinueAllUnlocks(c)
  <2> DEFINE o == [k EXCEPT !.pc = "start"]
  <2>1. CASE k.start = <<>>
    <3>1. Moves(c, Idle)
      BY <1>7, <2>1 DEF ContinueAllUnlocks, k
    <3>2. client' \in [Client -> Call] /\ CallsHaveWork' /\ CreatedOnce'
      BY <1>2, <3>1, IdleCall
    <3> QED BY <1>7, <3>2 DEF ContinueAllUnlocks, TypeInv, TypeOK, taskVars
  <2>2. CASE k.start # <<>>
    <3>1. Moves(c, o)
      BY <1>7, <2>2 DEF ContinueAllUnlocks, k
    <3>2. o.pc = "start" /\ o.start = k.start /\ o.op = k.op
      BY <1>1 DEF Call
    <3>3. HasWork(o)
      <4>1. k.op = "continueAll"
        BY <1>1, <1>7 DEF ContinueAllUnlocks, HasWork, k
      <4> QED BY <2>2, <3>2, <4>1 DEF HasWork
    <3>4. o \in Call /\ o.pc # "create" /\ Items(o) \subseteq Known
      BY <1>0, <1>1, WorkTypes
    <3>5. client' \in [Client -> Call] /\ CallsHaveWork' /\ CreatedOnce'
      BY <1>2, <3>1, <3>3, <3>4
    <3> QED BY <1>7, <3>5 DEF ContinueAllUnlocks, TypeInv, TypeOK, taskVars
  <2> QED BY <2>1, <2>2
<1>8. CASE DeleteErases(c)
  <2> DEFINE o == [k EXCEPT !.pc = "close"]
  <2>1. Moves(c, o) /\ k.todo # <<>>
    BY <1>1, <1>8 DEF DeleteErases, HasWork, k
  <2>2. o.pc = "close" /\ o.todo = k.todo /\ o.op = k.op
    BY <1>1 DEF Call
  <2>3. HasWork(o)
    <3>1. k.op \in {"delete", "deleteAll"}
      BY <1>1, <1>8 DEF DeleteErases, HasWork, k
    <3> QED BY <2>1, <2>2, <3>1 DEF HasWork
  <2>4. o \in Call /\ o.pc # "create" /\ Items(o) \subseteq Known
    BY <1>0, <1>1, WorkTypes
  <2>5. client' \in [Client -> Call] /\ CallsHaveWork' /\ CreatedOnce'
    BY <1>2, <2>1, <2>3, <2>4
  <2> QED BY <1>8, <2>5 DEF DeleteErases, TypeInv, TypeOK, taskVars
<1>9. CASE DeleteCloses(c)
  <2> DEFINE o == [k EXCEPT !.todo = Tail(k.todo), !.pc = "erase"]
             last == Len(k.todo) = 1
  <2>1. k.todo # <<>>
    BY <1>1, <1>9 DEF DeleteCloses, HasWork, k
  <2>2. /\ fet' \in [Task -> {"idle", "running", "paused", "done", "error"}]
        /\ notifies' \in Nat
    BY <1>3, <1>9, <2>1 DEF DeleteCloses, TypeInv, TypeOK, k
  <2>3. client' \in [Client -> Call] /\ CallsHaveWork' /\ CreatedOnce'
    <3>1. CASE last
      <4>1. Moves(c, Idle)
        BY <1>9, <3>1 DEF DeleteCloses, k
      <4> QED BY <1>2, <4>1, IdleCall
    <3>2. CASE ~last
      <4>1. Moves(c, o)
        BY <1>9, <3>2 DEF DeleteCloses, k
      <4>2. /\ o.pc = "erase" /\ o.todo = Tail(k.todo) /\ Tail(k.todo) # <<>>
            /\ o.op = k.op
        BY <1>1, <1>3, <2>1, <3>2 DEF Call
      <4>3. HasWork(o)
        <5>1. k.op \in {"delete", "deleteAll"}
          BY <1>1, <1>9 DEF DeleteCloses, HasWork, k
        <5> QED BY <4>2, <5>1 DEF HasWork
      <4>4. o \in Call /\ o.pc # "create" /\ Items(o) \subseteq Known
        BY <1>0, <1>1, <1>3, <2>1, WorkTypes
      <4> QED BY <1>2, <4>1, <4>3, <4>4
    <3> QED BY <3>1, <3>2
  <2> QED BY <1>9, <2>2, <2>3 DEF DeleteCloses, TypeInv, TypeOK, taskVars
<1> QED BY <1>4, <1>5, <1>6, <1>7, <1>8, <1>9

LEMMA ContinueQueuesStep ==
  ASSUME TypeInv, NEW c \in Client, ContinueQueues(c)
  PROVE  TypeInv'
<1> DEFINE n == NeedRunning(c)
           todo == client[c].todo
           front == SubSeq(todo, 1, n)
           rest == SubSeq(todo, n + 1, Len(todo))
           k == [Idle EXCEPT !.op = "continue", !.pc = "start", !.start = front]
<1>0. /\ todo \in Seq(Task) /\ todo # <<>> /\ ToSet(todo) \subseteq Known
      /\ client[c].pc # "create" /\ waitTasks \in Seq(Task) /\ ToSet(waitTasks) \subseteq Known
      /\ ToSet(tasks) \subseteq Known /\ status \in [Task -> Status]
  BY CallFacts DEF ContinueQueues, HasWork, Items, TypeInv, TypeOK, CreatedOnce
<1>1. Len(todo) \in Nat \ {0} /\ n \in 1 .. Len(todo)
  <2>1. Len(todo) \in Nat \ {0}
    BY <1>0, Shorter
  <2> QED BY <2>1 DEF NeedRunning
<1> HIDE DEF n
<1>2. /\ front \in Seq(Task) /\ ToSet(front) \subseteq Known /\ front # <<>>
      /\ rest \in Seq(Task) /\ ToSet(rest) \subseteq Known
      /\ waitTasks \o rest \in Seq(Task) /\ ToSet(waitTasks \o rest) \subseteq Known
  <2>1. /\ front \in Seq(Task) /\ ToSet(front) \subseteq ToSet(todo)
        /\ Len(front) = IF 1 <= n THEN n - 1 + 1 ELSE 0
    BY <1>0, <1>1, SubListFacts
  <2>2. ASSUME front = <<>> PROVE FALSE
    <3>1. Len(front) \in Nat \ {0} /\ Len(<<>>) = 0
      BY <1>1, <2>1
    <3> QED BY <2>2, <3>1
  <2>3. n + 1 \in Nat /\ n + 1 >= 1 /\ Len(todo) \in Nat /\ Len(todo) <= Len(todo)
    BY <1>1
  <2>4. rest \in Seq(Task) /\ ToSet(rest) \subseteq ToSet(todo)
    BY <1>0, <2>3, SubListFacts
  <2> HIDE DEF rest
  <2>5. /\ waitTasks \o rest \in Seq(Task)
        /\ ToSet(waitTasks \o rest) = ToSet(waitTasks) \cup ToSet(rest)
    <3>1. 1 \in Nat /\ 0 \in Nat /\ 1 >= 1 /\ Len(waitTasks) \in Nat /\ 0 <= Len(waitTasks)
      BY <1>0
    <3> QED BY <1>0, <2>4, <3>1, SubListFacts
  <2> QED BY <1>0, <2>1, <2>2, <2>4, <2>5
<1>3. /\ k \in Call /\ HasWork(k) /\ Items(k) \subseteq Known /\ k.pc # "create"
  <2> HIDE DEF front
  <2>1. 0 \in Int
    OBVIOUS
  <2>2. k \in Beginnings(front, 0)
    BY DEF Beginnings
  <2> QED BY <1>2, <2>1, <2>2, Begun
<1>4. /\ status' = [t \in Task |-> IF t \in ToSet(rest) THEN "wait" ELSE status[t]]
      /\ waitTasks' = waitTasks \o rest /\ Moves(c, k) /\ dlock' = None /\ tasks' = tasks
  BY DEF ContinueQueues, n
<1> HIDE DEF rest, k
<1>5. status' \in [Task -> Status] /\ Known' = Known
  BY <1>0, <1>2, <1>4 DEF Status, Known
<1>6. client' \in [Client -> Call] /\ CallsHaveWork' /\ CreatedOnce'
  BY <1>0, <1>2, <1>3, <1>4, <1>5, Goes
<1> QED BY <1>2, <1>4, <1>5, <1>6 DEF ContinueQueues, TypeInv, TypeOK

LEMMA ContinueStartsStep ==
  ASSUME TypeInv, NEW c \in Client, ContinueStarts(c)
  PROVE  TypeInv'
<1> DEFINE k == client[c]
           t == Head(k.start)
           o == [k EXCEPT !.start = Tail(k.start)]
<1>0. /\ tasks \in Seq(Task) /\ ToSet(tasks) \subseteq Known
      /\ ToSet(waitTasks) \subseteq Known /\ tasks' = tasks /\ waitTasks' = waitTasks
      /\ k.pc = "start" /\ k.pc # "create"
  BY DEF TypeInv, TypeOK, CreatedOnce, ContinueStarts
<1>1. /\ k \in Call /\ HasWork(k) /\ Items(k) \subseteq Known /\ k.start \in Seq(Task)
      /\ ToSet(k.start) \subseteq Known /\ k.start # <<>> /\ k.todo \in Seq(Task)
      /\ ToSet(k.todo) \subseteq Known
  BY <1>0, CallFacts DEF Items, HasWork
<1>2. /\ t \in Known /\ t \in Task /\ Tail(k.start) \in Seq(Task)
      /\ ToSet(Tail(k.start)) \subseteq Known /\ (Len(k.start) # 1 => Tail(k.start) # <<>>)
  BY <1>1, Shorter
<1>3. /\ status' \in [Task -> Status] /\ gen' \in [Task -> Nat] /\ starters' \subseteq Starters
      /\ status'[t] # "ready" /\ \A u \in Task \ {t} : status'[u] = status[u]
  <2>1. DoStart(t)
    BY DEF ContinueStarts
  <2>2. TypeOK
    BY DEF TypeInv
  <2> HIDE DEF t
  <2> QED BY <1>2, <2>1, <2>2, DoStartTypes
<1>4. Known' = Known
  BY <1>2, <1>3 DEF Known
<1> HIDE DEF k, t
<1>5. client' \in [Client -> Call] /\ CallsHaveWork' /\ CreatedOnce'
  <2>1. CASE Len(k.start) = 1
    <3>1. Moves(c, Idle)
      BY <2>1 DEF ContinueStarts, k
    <3> QED BY <1>0, <1>4, <3>1, GoesIdle DEF k
  <2>2. CASE Len(k.start) # 1
    <3>1. Moves(c, o)
      BY <2>2 DEF ContinueStarts, k
    <3>2. o.pc = "start" /\ o.start = Tail(k.start) /\ o.op = k.op
      BY <1>0, <1>1 DEF Call
    <3>3. HasWork(o)
      <4>1. k.op \in {"continue", "continueAll", "continueBatch"}
        BY <1>0, <1>1 DEF HasWork
      <4> QED BY <1>2, <2>2, <3>2, <4>1 DEF HasWork
    <3>4. o \in Call /\ o.pc # "create" /\ Items(o) \subseteq Known
      BY <1>0, <1>1, <1>2, WorkTypes
    <3> HIDE DEF o
    <3> QED BY <1>0, <1>4, <3>1, <3>3, <3>4, Goes DEF k
  <2> QED BY <2>1, <2>2
<1> QED BY <1>3, <1>5 DEF ContinueStarts, TypeInv, TypeOK

LEMMA ContinueAllDemotesStep ==
  ASSUME TypeInv, NEW c \in Client, ContinueAllDemotes(c)
  PROVE  TypeInv'
<1> DEFINE k == client[c]
           t == Head(k.todo)
           o == [k EXCEPT !.todo = Tail(k.todo), !.pc = "each"]
<1>0. /\ ToSet(tasks) \subseteq Known /\ waitTasks \in Seq(Task)
      /\ ToSet(waitTasks) \subseteq Known /\ tasks' = tasks
      /\ k.pc = "demote" /\ k.pc # "create" /\ status \in [Task -> Status]
  BY DEF TypeInv, TypeOK, CreatedOnce, ContinueAllDemotes
<1>1. /\ k \in Call /\ HasWork(k) /\ Items(k) \subseteq Known /\ k.start \in Seq(Task)
      /\ ToSet(k.start) \subseteq Known /\ k.todo # <<>> /\ k.todo \in Seq(Task)
      /\ ToSet(k.todo) \subseteq Known
  BY <1>0, CallFacts DEF Items, HasWork
<1>2. /\ t \in Known /\ t \in Task /\ Tail(k.todo) \in Seq(Task)
      /\ ToSet(Tail(k.todo)) \subseteq Known
  BY <1>1, Shorter
<1>3. /\ status' = [status EXCEPT ![t] = "wait"] /\ waitTasks' = Append(waitTasks, t)
      /\ Moves(c, o)
  BY DEF ContinueAllDemotes
<1> HIDE DEF k, t
<1>4. status' \in [Task -> Status] /\ Known' = Known
  BY <1>0, <1>2, <1>3 DEF Known, Status
<1>5. waitTasks' \in Seq(Task) /\ ToSet(waitTasks') \subseteq Known
  <2>1. Append(waitTasks, t) \in Seq(Task) /\ ToSet(Append(waitTasks, t)) = ToSet(waitTasks) \cup {t}
    BY <1>0, <1>2, Appended
  <2> QED BY <1>0, <1>2, <1>3, <2>1
<1>6. /\ o.pc = "each" /\ o.op = "continueAll" /\ o \in Call /\ o.pc # "create"
      /\ Items(o) \subseteq Known
  <2>1. o.pc = "each" /\ o.op = "continueAll"
    BY <1>0, <1>1 DEF Call, HasWork
  <2>2. o \in Call /\ o.pc # "create" /\ Items(o) \subseteq Known
    BY <1>0, <1>1, <1>2, WorkTypes
  <2> QED BY <2>1, <2>2
<1> HIDE DEF o
<1>7. client' \in [Client -> Call] /\ CallsHaveWork' /\ CreatedOnce'
  <2>1. HasWork(o)
    BY <1>6 DEF HasWork
  <2> QED BY <1>0, <1>3, <1>4, <1>5, <1>6, <2>1, Goes DEF k
<1> QED BY <1>4, <1>5, <1>7 DEF ContinueAllDemotes, TypeInv, TypeOK

LEMMA DeleteRemovesStep ==
  ASSUME TypeInv, NEW c \in Client, DeleteRemoves(c)
  PROVE  TypeInv'
<1> DEFINE k == client[c]
           o == [k EXCEPT !.pc = "erase"]
           Gone(seq) == {i \in DOMAIN seq : /\ seq[i] \in ToSet(client[c].todo)
                                            /\ \A j \in 1 .. i - 1 : seq[j] # seq[i]}
           Left(seq) == Entries(seq, DOMAIN seq \ Gone(seq))
<1>0. /\ tasks \in Seq(Task) /\ IsInjective(tasks) /\ ToSet(tasks) \subseteq Known
      /\ waitTasks \in Seq(Task) /\ ToSet(waitTasks) \subseteq Known
      /\ k.pc = "remove" /\ k.pc # "create" /\ Known' = Known
  BY DEF TypeInv, TypeOK, CreatedOnce, DeleteRemoves, Known, taskVars
<1>1. /\ k \in Call /\ HasWork(k) /\ Items(k) \subseteq Known /\ k.start \in Seq(Task)
      /\ ToSet(k.start) \subseteq Known /\ k.todo # <<>> /\ k.todo \in Seq(Task)
      /\ ToSet(k.todo) \subseteq Known
  BY <1>0, CallFacts DEF Items, HasWork
<1>2. tasks' = Left(tasks) /\ waitTasks' = Left(waitTasks) /\ Moves(c, o)
  BY DEF DeleteRemoves
<1>3. /\ tasks' \in Seq(Task) /\ ToSet(tasks') \subseteq Known /\ IsInjective(tasks')
      /\ waitTasks' \in Seq(Task) /\ ToSet(waitTasks') \subseteq Known
  <2> DEFINE I == DOMAIN tasks \ Gone(tasks)
             J == DOMAIN waitTasks \ Gone(waitTasks)
  <2>1. I \subseteq DOMAIN tasks /\ J \subseteq DOMAIN waitTasks
    OBVIOUS
  <2>2. tasks' = Entries(tasks, I) /\ waitTasks' = Entries(waitTasks, J)
    BY <1>2
  <2> HIDE DEF I, J
  <2>3. /\ Entries(tasks, I) \in Seq(Task) /\ ToSet(Entries(tasks, I)) \subseteq ToSet(tasks)
        /\ IsInjective(tasks) => IsInjective(Entries(tasks, I))
    BY <1>0, <2>1, EntriesOf
  <2>4. /\ Entries(waitTasks, J) \in Seq(Task)
        /\ ToSet(Entries(waitTasks, J)) \subseteq ToSet(waitTasks)
    BY <1>0, <2>1, EntriesOf
  <2> QED BY <1>0, <2>2, <2>3, <2>4
<1> HIDE DEF k
<1>4. o \in Call /\ o.pc = "erase" /\ o.todo = k.todo /\ o.op \in {"delete", "deleteAll"}
  BY <1>0, <1>1 DEF Call, HasWork
<1>5. Items(o) \subseteq Known
  BY <1>0, <1>1, WorkTypes
<1> HIDE DEF o
<1>6. HasWork(o)
  BY <1>1, <1>4 DEF HasWork
<1>7. client' \in [Client -> Call] /\ CallsHaveWork' /\ CreatedOnce'
  BY <1>0, <1>2, <1>3, <1>4, <1>5, <1>6, Goes DEF k
<1> QED BY <1>3, <1>7 DEF DeleteRemoves, TypeInv, TypeOK, taskVars

\* One step of one client.
LEMMA ProceedStep ==
  ASSUME TypeInv, NEW c \in Client, Proceed(c)
  PROVE  TypeInv'
BY CreateQueuesStep, PauseStep, QuietStep, ContinueQueuesStep, ContinueStartsStep,
   ContinueAllDemotesStep, DeleteRemovesStep DEF Proceed

-----------------------------------------------------------------------------

LEMMA InitTypes ==
  ASSUME Init
  PROVE  TypeInv
<1>1. /\ <<>> \in Seq(Task) /\ ToSet(<<>>) = {} /\ IsInjective(<<>>)
  BY DEF ToSet, IsInjective
<1>2. /\ client \in [Client -> Call]
      /\ \A c \in Client : client[c].pc = "idle" /\ HasWork(client[c]) /\ Items(client[c]) = {}
  BY IdleCall DEF Init
<1>3. TypeOK
  BY <1>1, <1>2, SetupsAssumption DEF Init, TypeOK, Status
<1>4. CallsHaveWork /\ CreatedOnce
  BY <1>1, <1>2 DEF Init, CallsHaveWork, CreatedOnce
<1> QED BY <1>3, <1>4 DEF TypeInv

LEMMA TypeStep ==
  ASSUME TypeInv, [Next]_vars
  PROVE  TypeInv'
<1>1. CASE UNCHANGED vars
  <2>1. /\ tasks' = tasks /\ waitTasks' = waitTasks /\ client' = client /\ status' = status
    BY <1>1 DEF vars, taskVars
  <2>2. CallsHaveWork' /\ CreatedOnce'
    BY <2>1, Aside
  <2> QED BY <1>1, <2>2 DEF vars, taskVars, TypeInv, TypeOK
<1>2. ASSUME NEW c \in budget.callers, NewCall(c)
      PROVE  TypeInv'
  <2>1. c \in Client
    BY DEF TypeInv, TypeOK, Setup
  <2> QED BY <1>2, <2>1, NewCallStep
<1>3. ASSUME NEW c \in Client, Proceed(c)
      PROVE  TypeInv'
  BY <1>3, ProceedStep
<1> QED BY <1>1, <1>2, <1>3, NotifyStep, StarterStep, WatcherStep DEF Next

\* The types of doc comments and declarations hold: every list is of tasks that were
\* created, no task is in d.tasks twice, whatever methods are called by whom and when.
THEOREM TypeCorrect == Spec => []TypeOK
<1>1. Spec => []TypeInv
  BY InitTypes, TypeStep, PTL DEF Spec
<1>2. TypeInv => TypeOK
  BY DEF TypeInv
<1> QED BY <1>1, <1>2, PTL

-----------------------------------------------------------------------------
(* The bound on running tasks, and finished tasks.                         *)

\* Start handlers, watchers and fetchers only take tasks out of the running state.
LEMMA OthersStop ==
  ASSUME TypeInv,
         \/ \E s \in starters : Starter(s)
         \/ \E t \in Task : Watcher(t) \/ FetcherEnds(t)
  PROVE  /\ tasks' = tasks /\ dlock' = dlock /\ client' = client
         /\ budget'.ops = budget.ops /\ budget'.callers = budget.callers
         /\ \A u \in Task : \/ status'[u] = status[u]
                            \/ status[u] = "running" /\ status'[u] \in {"error", "done"}
<1>0. status \in [Task -> Status] /\ budget \in Setup
  BY DEF TypeInv, TypeOK
<1>1. ASSUME NEW kind, Fault(kind)
      PROVE  budget'.ops = budget.ops /\ budget'.callers = budget.callers
  BY <1>0, <1>1 DEF Fault, Setup
<1>2. ASSUME NEW t \in Task, MarkError(t), status[t] = "running"
      PROVE  \A u \in Task : \/ status'[u] = status[u]
                             \/ status[u] = "running" /\ status'[u] \in {"error", "done"}
  BY <1>0, <1>2 DEF MarkError
<1>3. ASSUME NEW s \in starters, Starter(s)
      PROVE  /\ tasks' = tasks /\ dlock' = dlock /\ client' = client
             /\ budget'.ops = budget.ops /\ budget'.callers = budget.callers
             /\ \A u \in Task : \/ status'[u] = status[u]
                                \/ status[u] = "running" /\ status'[u] \in {"error", "done"}
  <2>1. CASE StarterMarksError(s)
    <3>1. s.t \in Task
      BY DEF TypeInv, TypeOK, Starters
    <3> QED BY <1>2, <2>1, <3>1 DEF StarterMarksError
  <2>2. CASE StarterLocks(s) \/ StarterChecks(s) \/ StarterStarts(s) \/ StarterWatches(s)
             \/ StarterFails(s) \/ StarterNotifies(s)
    BY <2>2 DEF StarterLocks, StarterChecks, StarterStarts, StarterWatches, StarterFails,
                StarterNotifies, taskVars
  <2>3. CASE StarterCannotResolve(s) \/ StarterSaves(s)
    BY <1>1, <2>3 DEF StarterCannotResolve, StarterSaves
  <2> QED BY <1>3, <2>1, <2>2, <2>3 DEF Starter
<1>4. ASSUME NEW t \in Task, Watcher(t) \/ FetcherEnds(t)
      PROVE  /\ tasks' = tasks /\ dlock' = dlock /\ client' = client
             /\ budget'.ops = budget.ops /\ budget'.callers = budget.callers
             /\ \A u \in Task : \/ status'[u] = status[u]
                                \/ status[u] = "running" /\ status'[u] \in {"error", "done"}
  <2>1. CASE WatcherMarksError(t)
    BY <1>2, <2>1 DEF WatcherMarksError
  <2>2. CASE WatcherMarksDone(t)
    BY <1>0, <2>2 DEF WatcherMarksDone
  <2>3. CASE WatcherReceives(t) \/ WatcherFails(t) \/ WatcherNotifies(t) \/ WatcherRechecks(t)
             \/ WatcherFinishes(t) \/ WatcherLeaves(t)
    BY <2>3 DEF WatcherReceives, WatcherFails, WatcherNotifies, WatcherRechecks,
                WatcherFinishes, WatcherLeaves, taskVars
  <2>4. CASE FetcherEnds(t)
    BY <1>1, <2>4 DEF FetcherEnds, taskVars
  <2> QED BY <1>4, <2>1, <2>2, <2>3, <2>4 DEF Watcher
<1> QED BY <1>3, <1>4

\* What a client's step does to the calls.
LEMMA OneCall ==
  ASSUME TypeInv, NEW c \in Client, NEW k, Moves(c, k)
  PROVE  client'[c] = k /\ \A d \in Client \ {c} : client'[d] = client[d]
BY DEF Moves, TypeInv, TypeOK

LEMMA CallBegins ==
  ASSUME TypeInv, NEW c \in Client, NewCall(c)
  PROVE  /\ client[c].pc = "idle" /\ client'[c].op \in budget.ops
         /\ \A d \in Client \ {c} : client'[d] = client[d]
         /\ budget'.ops = budget.ops /\ budget'.callers = budget.callers /\ status' = status
         /\ tasks' \in {tasks, <<>>}
<1> DEFINE Turns(op) == client'[c].op = op /\ \A d \in Client \ {c} : client'[d] = client[d]
<1>0. ASSUME NEW op, Calls(op)
      PROVE  op \in budget.ops /\ budget'.ops = budget.ops /\ budget'.callers = budget.callers
  BY <1>0 DEF Calls, Setup, TypeInv, TypeOK
<1>1. ASSUME NEW t \in Task, CreateStores(c, t)
      PROVE  /\ client[c].pc = "idle" /\ Calls("create") /\ status' = status /\ tasks' = tasks
             /\ Turns("create")
  <2>1. client \in [Client -> Call]
    BY DEF TypeInv, TypeOK
  <2> QED BY <1>1, <2>1 DEF CreateStores, Moves, Idle, taskVars
<1>2. ASSUME CallPauseAll(c)
      PROVE  /\ client[c].pc = "idle" /\ Calls("pauseAll") /\ status' = status /\ tasks' = tasks
             /\ Turns("pauseAll")
  <2>1. client \in [Client -> Call]
    BY DEF TypeInv, TypeOK
  <2> QED BY <1>2, <2>1 DEF CallPauseAll, Moves, Idle, taskVars
<1>3. ASSUME CallContinueAll(c)
      PROVE  /\ client[c].pc = "idle" /\ Calls("continueAll") /\ status' = status /\ tasks' = tasks
             /\ Turns("continueAll")
  <2>1. client \in [Client -> Call]
    BY DEF TypeInv, TypeOK
  <2> QED BY <1>3, <2>1 DEF CallContinueAll, Moves, Idle, taskVars
<1>4. ASSUME CallDeleteAll(c)
      PROVE  /\ client[c].pc = "idle" /\ Calls("deleteAll") /\ status' = status /\ tasks' = <<>>
             /\ Turns("deleteAll")
  <2>1. client \in [Client -> Call]
    BY DEF TypeInv, TypeOK
  <2> QED BY <1>4, <2>1 DEF CallDeleteAll, Moves, Idle, taskVars
<1>5. ASSUME NEW S \in SUBSET Task, CallPause(c, S)
      PROVE  /\ client[c].pc = "idle" /\ Calls("pause") /\ status' = status /\ tasks' = tasks
             /\ Turns("pause")
  <2>1. client \in [Client -> Call]
    BY DEF TypeInv, TypeOK
  <2> QED BY <1>5, <2>1 DEF CallPause, Moves, Idle, taskVars
<1>6. ASSUME NEW S \in SUBSET Task, CallContinue(c, S)
      PROVE  /\ client[c].pc = "idle" /\ Calls("continue") /\ status' = status /\ tasks' = tasks
             /\ Turns("continue")
  <2>1. client \in [Client -> Call]
    BY DEF TypeInv, TypeOK
  <2> QED BY <1>6, <2>1 DEF CallContinue, Moves, Idle, taskVars
<1>7. ASSUME NEW S \in SUBSET Task, CallContinueBatch(c, S)
      PROVE  /\ client[c].pc = "idle" /\ Calls("continueBatch") /\ status' = status
             /\ tasks' = tasks /\ Turns("continueBatch")
  <2>1. client \in [Client -> Call]
    BY DEF TypeInv, TypeOK
  <2> QED BY <1>7, <2>1 DEF CallContinueBatch, Moves, Idle, taskVars
<1>8. ASSUME NEW S \in SUBSET Task, CallDelete(c, S)
      PROVE  /\ client[c].pc = "idle" /\ Calls("delete") /\ status' = status /\ tasks' = tasks
             /\ Turns("delete")
  <2>1. client \in [Client -> Call]
    BY DEF TypeInv, TypeOK
  <2> QED BY <1>8, <2>1 DEF CallDelete, Moves, Idle, taskVars
<1>9. /\ client[c].pc = "idle" /\ status' = status /\ tasks' \in {tasks, <<>>}
      /\ \E op : Calls(op) /\ Turns(op)
  BY <1>1, <1>2, <1>3, <1>4, <1>5, <1>6, <1>7, <1>8 DEF NewCall
<1> QED BY <1>0, <1>9

LEMMA CallGoesOn ==
  ASSUME TypeInv, NEW c \in Client, Proceed(c)
  PROVE  /\ client[c].pc # "idle" /\ client'[c].op \in {client[c].op, "none"}
         /\ \A d \in Client \ {c} : client'[d] = client[d]
         /\ budget' = budget
<1>0. /\ client[c] \in Call /\ HasWork(client[c]) /\ Idle.op = "none"
      /\ client \in [Client -> Call]
  BY CallFacts DEF Idle, TypeInv, TypeOK
<1>1. \A queued : Onward(c, queued).op \in {client[c].op, "none"}
  BY <1>0 DEF Onward, Call
<1>2. CASE CreateQueues(c)
  BY <1>0, <1>2, OneCall DEF CreateQueues
<1>3. CASE PreparePause(c) \/ HandlePause(c) \/ StopFetcher(c) \/ PauseSaves(c)
  <2>1. \E k : Moves(c, k) /\ k.op \in {client[c].op, "none"}
    <3>1. CASE PreparePause(c)
      <4>1. \/ Moves(c, Onward(c, FALSE))
            \/ Moves(c, [client[c] EXCEPT !.pc = "pausing", !.g = gen[Victim(c)] + 1])
        BY <3>1 DEF PreparePause
      <4>2. [client[c] EXCEPT !.pc = "pausing", !.g = gen[Victim(c)] + 1].op = client[c].op
        BY <1>0 DEF Call
      <4> QED BY <1>1, <4>1, <4>2
    <3>2. CASE HandlePause(c)
      <4>1. \/ Moves(c, Onward(c, FALSE))
            \/ Moves(c, [client[c] EXCEPT !.pc = "stopping"])
        BY <3>2 DEF HandlePause
      <4>2. [client[c] EXCEPT !.pc = "stopping"].op = client[c].op
        BY <1>0 DEF Call
      <4> QED BY <1>1, <4>1, <4>2
    <3>3. CASE StopFetcher(c)
      BY <1>0, <3>3 DEF StopFetcher, Call
    <3>4. CASE PauseSaves(c)
      BY <1>1, <3>4 DEF PauseSaves
    <3> QED BY <1>3, <3>1, <3>2, <3>3, <3>4
  <2> QED BY <1>3, <2>1, OneCall DEF PreparePause, HandlePause, StopFetcher, PauseSaves
<1>4. CASE PauseAllRanges(c)
  BY <1>0, <1>4 DEF PauseAllRanges, Moves, Call
<1>5. CASE ContinueLocks(c)
  <2>1. \E k : Moves(c, k) /\ k.op \in {client[c].op, "none"}
    <3>1. CASE Moves(c, [client[c] EXCEPT !.pc = "queue"])
      BY <1>0, <3>1 DEF Call
    <3>2. CASE \E q, n : Moves(c, [client[c] EXCEPT !.pc = "scan", !.scan = q, !.left = n])
      <4>1. PICK q, n : Moves(c, [client[c] EXCEPT !.pc = "scan", !.scan = q, !.left = n])
        BY <3>2
      <4>2. [client[c] EXCEPT !.pc = "scan", !.scan = q, !.left = n].op = client[c].op
        BY <1>0 DEF Call
      <4> QED BY <4>1, <4>2
    <3> QED BY <1>5, <3>1, <3>2 DEF ContinueLocks
  <2> QED BY <1>5, <2>1, OneCall DEF ContinueLocks
<1>6. CASE ContinueScans(c)
  <2>1. \E k : Moves(c, k) /\ k.op \in {client[c].op, "none"}
    <3>1. \/ Moves(c, [client[c] EXCEPT !.pc = "prepare"]) \/ Moves(c, Onward(c, FALSE))
      BY <1>6 DEF ContinueScans
    <3>2. [client[c] EXCEPT !.pc = "prepare"].op = client[c].op
      BY <1>0 DEF Call
    <3> QED BY <1>1, <3>1, <3>2
  <2> QED BY <1>6, <2>1, OneCall DEF ContinueScans
<1>7. CASE ContinueQueues(c)
  <2>1. client[c].op = "continue"
    BY <1>0, <1>7 DEF HasWork, ContinueQueues
  <2> QED BY <1>0, <1>7, <2>1 DEF ContinueQueues, Moves, Idle
<1>8. CASE ContinueStarts(c)
  BY <1>0, <1>8 DEF ContinueStarts, Moves, Call
<1>9. CASE ContinueAllReads(c)
  BY <1>0, <1>9 DEF ContinueAllReads, Moves, Call
<1>10. CASE ContinueAllDemotes(c)
  BY <1>0, <1>10 DEF ContinueAllDemotes, Moves, Call
<1>11. CASE ContinueAllUnlocks(c)
  BY <1>0, <1>11 DEF ContinueAllUnlocks, Moves, Call
<1>12. CASE DeleteRemoves(c)
  BY <1>0, <1>12 DEF DeleteRemoves, Moves, Call
<1>13. CASE DeleteErases(c)
  BY <1>0, <1>13 DEF DeleteErases, Moves, Call
<1>14. CASE DeleteCloses(c)
  BY <1>0, <1>14 DEF DeleteCloses, Moves, Call
<1> QED BY <1>2, <1>3, <1>4, <1>5, <1>6, <1>7, <1>8, <1>9, <1>10, <1>11, <1>12, <1>13, <1>14
        DEF Proceed

LEMMA DeleteShrinks ==
  ASSUME TypeInv, NEW c \in Client, DeleteRemoves(c)
  PROVE  ToSet(tasks') \subseteq ToSet(tasks)
<1>1. tasks \in Seq(Task)
  BY DEF TypeInv, TypeOK
<1>2. PICK I \in SUBSET DOMAIN tasks : tasks' = Entries(tasks, I)
  BY DEF DeleteRemoves
<1>3. ToSet(Entries(tasks, I)) \subseteq ToSet(tasks)
  BY <1>1, EntriesOf
<1> QED BY <1>2, <1>3

\* Only doCreate and Continue start tasks, only Continue and continueAll touch what is done.
LEMMA ProceedStatus ==
  ASSUME TypeInv, NEW c \in Client, Proceed(c)
  PROVE  /\ client[c].pc \notin {"create", "start"} => Running' \subseteq Running
         /\ client[c].pc \notin {"queue", "demote"} =>
              \A u \in Task : status[u] = "done" => status'[u] = "done"
<1> DEFINE pc == client[c].pc
           Goal == /\ pc \notin {"create", "start"} => Running' \subseteq Running
                   /\ pc \notin {"queue", "demote"} =>
                        \A u \in Task : status[u] = "done" => status'[u] = "done"
<1>0. /\ status \in [Task -> Status] /\ tasks \in Seq(Task) /\ ToSet(tasks) \subseteq Task
      /\ HasWork(client[c])
  BY CallFacts DEF TypeInv, TypeOK, CreatedOnce, Known
<1>1. CASE CreateQueues(c)
  <2>0. pc = "create"
    BY <1>1 DEF CreateQueues
  <2>1. PICK t \in Task : t \notin Known /\ client[c].todo = <<t>>
    BY <2>0 DEF TypeInv, CreatedOnce
  <2>2. status[t] = "ready" /\ Head(client[c].todo) = t
    BY <2>1 DEF Known
  <2>3. CASE remainRunningCount = 0
    <3>1. status' = [status EXCEPT ![t] = "wait"]
      BY <1>1, <2>2, <2>3 DEF CreateQueues
    <3> QED BY <1>0, <2>0, <2>2, <3>1
  <2>4. CASE remainRunningCount # 0
    <3>1. DoStart(t) /\ TypeOK
      BY <1>1, <2>2, <2>4 DEF CreateQueues, TypeInv
    <3>2. \A u \in Task : status[u] = "done" => status'[u] = "done"
      BY <3>1, DoStartTypes
    <3> QED BY <2>0, <3>2
  <2> QED BY <2>3, <2>4
<1>2. CASE PreparePause(c)
  <2>1. /\ tasks' = tasks
        /\ \/ status' = status
           \/ /\ status' = [status EXCEPT ![Victim(c)] = "pause"]
              /\ ~NothingToPause(Victim(c))
    BY <1>2 DEF PreparePause
  <2> QED BY <1>0, <2>1 DEF Running, NothingToPause
<1>3. CASE HandlePause(c) \/ StopFetcher(c) \/ PauseAllRanges(c) \/ ContinueScans(c)
           \/ ContinueLocks(c) \/ ContinueAllReads(c) \/ ContinueAllUnlocks(c)
           \/ DeleteErases(c) \/ DeleteCloses(c)
  <2>1. status' = status /\ tasks' = tasks
    BY <1>3 DEF HandlePause, StopFetcher, PauseAllRanges, ContinueScans, ContinueLocks,
                ContinueAllReads, ContinueAllUnlocks, DeleteErases, DeleteCloses, taskVars
  <2> QED BY <2>1 DEF Running
<1>4. CASE PauseSaves(c)
  <2>1. /\ tasks' = tasks
        /\ \/ status' = status
           \/ /\ status' = [status EXCEPT ![Victim(c)] = "wait"]
              /\ status[Victim(c)] = "pause"
    BY <1>4 DEF PauseSaves
  <2> QED BY <1>0, <2>1 DEF Running
<1>5. CASE ContinueQueues(c)
  <2>1. \E W : status' = [t \in Task |-> IF t \in W THEN "wait" ELSE status[t]]
    BY <1>5 DEF ContinueQueues
  <2>2. tasks' = tasks /\ pc = "queue"
    BY <1>5 DEF ContinueQueues
  <2> QED BY <1>0, <2>1, <2>2 DEF Running
<1>6. CASE ContinueAllDemotes(c)
  <2>1. PICK t : status' = [status EXCEPT ![t] = "wait"]
    BY <1>6 DEF ContinueAllDemotes
  <2>2. tasks' = tasks /\ pc = "demote"
    BY <1>6 DEF ContinueAllDemotes
  <2> QED BY <1>0, <2>1, <2>2 DEF Running
<1>7. CASE ContinueStarts(c)
  <2>1. pc = "start" /\ DoStart(Head(client[c].start)) /\ TypeOK
    BY <1>7 DEF ContinueStarts, TypeInv
  <2>2. Head(client[c].start) \in Task
    <3>1. client[c].start # <<>> /\ client[c].start \in Seq(Task) /\ ToSet(client[c].start) \subseteq Known
      BY <1>0, <2>1, CallFacts DEF HasWork, Items
    <3> QED BY <3>1, Shorter
  <2>3. \A u \in Task : status[u] = "done" => status'[u] = "done"
    <3> DEFINE t == Head(client[c].start)
    <3>1. t \in Task /\ DoStart(t) /\ TypeOK
      BY <2>1, <2>2
    <3> HIDE DEF t
    <3> QED BY <3>1, DoStartTypes
  <2> QED BY <2>1, <2>3
<1>8. CASE DeleteRemoves(c)
  <2>1. status' = status /\ ToSet(tasks') \subseteq ToSet(tasks)
    BY <1>8, DeleteShrinks DEF DeleteRemoves, taskVars
  <2> QED BY <2>1 DEF Running
<1> QED BY <1>1, <1>2, <1>3, <1>4, <1>5, <1>6, <1>7, <1>8 DEF Proceed

LEMMA OpsStep ==
  ASSUME TypeInv, OpsAreAllowed, [Next]_vars
  PROVE  OpsAreAllowed' /\ budget'.ops = budget.ops /\ budget'.callers = budget.callers
<1>1. CASE UNCHANGED vars
  BY <1>1 DEF vars, OpsAreAllowed
<1>2. ASSUME NEW c \in budget.callers, NewCall(c)
      PROVE  OpsAreAllowed' /\ budget'.ops = budget.ops /\ budget'.callers = budget.callers
  <2>1. c \in Client
    BY DEF TypeInv, TypeOK, Setup
  <2>2. /\ client'[c].op \in budget.ops /\ \A d \in Client \ {c} : client'[d] = client[d]
        /\ budget'.ops = budget.ops /\ budget'.callers = budget.callers
    BY <1>2, <2>1, CallBegins
  <2> QED BY <2>2 DEF OpsAreAllowed
<1>3. ASSUME NEW c \in Client, Proceed(c)
      PROVE  OpsAreAllowed' /\ budget'.ops = budget.ops /\ budget'.callers = budget.callers
  <2>1. /\ client'[c].op \in {client[c].op, "none"}
        /\ \A d \in Client \ {c} : client'[d] = client[d] /\ budget' = budget
    BY <1>3, CallGoesOn
  <2>2. budget' = budget
    BY <1>3, CallGoesOn
  <2> QED BY <2>1, <2>2 DEF OpsAreAllowed
<1>4. CASE NotifyRuns
  BY <1>4 DEF NotifyRuns, OpsAreAllowed
<1>5. CASE \/ \E s \in starters : Starter(s)
           \/ \E t \in Task : Watcher(t) \/ FetcherEnds(t)
  BY <1>5, OthersStop DEF OpsAreAllowed
<1> QED BY <1>1, <1>2, <1>3, <1>4, <1>5 DEF Next

\* Fewer tasks run, or one more while there is room.
LEMMA BoundKept ==
  ASSUME TypeInv, tasks' \in Seq(Task), RunningBound,
         NEW t, Running' \subseteq Running \/ (Running' \subseteq Running \cup {t} /\ remainRunningCount # 0)
  PROVE  RunningBound'
<1>1. IsFiniteSet(Running) /\ Cardinality(Running) \in Nat
  BY RunningIsFinite DEF TypeInv, TypeOK
<1>2. CASE Running' \subseteq Running
  <2>1. Cardinality(Running') <= Cardinality(Running) /\ Cardinality(Running') \in Nat
    BY <1>1, <1>2, FS_Subset, FS_CardinalityType
  <2> QED BY <1>1, <2>1 DEF RunningBound
<1>3. CASE Running' \subseteq Running \cup {t} /\ remainRunningCount # 0
  <2>1. /\ IsFiniteSet(Running \cup {t})
        /\ Cardinality(Running \cup {t}) =
             IF t \in Running THEN Cardinality(Running) ELSE Cardinality(Running) + 1
    BY <1>1, FS_AddElement
  <2>2. Cardinality(Running') <= Cardinality(Running \cup {t}) /\ Cardinality(Running') \in Nat
    BY <1>3, <2>1, FS_Subset, FS_CardinalityType
  <2>3. Cardinality(Running) + 1 <= MaxRunning
    BY <1>1, <1>3 DEF RunningBound, remainRunningCount
  <2>4. Cardinality(Running') <= MaxRunning
    <3>1. Cardinality(Running \cup {t}) <= Cardinality(Running) + 1
      BY <1>1, <2>1
    <3>2. Cardinality(Running \cup {t}) \in Nat
      BY <2>1, FS_CardinalityType
    <3> QED BY <1>1, <2>2, <2>3, <3>1, <3>2
  <2> QED BY <2>4 DEF RunningBound
<1> QED BY <1>2, <1>3

LEMMA BoundStep ==
  ASSUME TypeInv, BoundInv, [Next]_vars
  PROVE  BoundInv'
<1>0. OpsAreAllowed' /\ WithoutContinue' = WithoutContinue
  BY OpsStep DEF BoundInv, WithoutContinue
<1> SUFFICES ASSUME WithoutContinue, RunningBound PROVE RunningBound'
  BY <1>0 DEF BoundInv
<1>1. TypeInv' /\ tasks' \in Seq(Task) /\ status \in [Task -> Status]
  BY TypeStep DEF TypeInv, TypeOK
<1>2. CASE UNCHANGED vars
  BY <1>2 DEF vars, taskVars, RunningBound, Running
<1>3. ASSUME NEW c \in budget.callers, NewCall(c)
      PROVE  RunningBound'
  <2>1. c \in Client /\ ToSet(<<>>) = {}
    BY DEF TypeInv, TypeOK, Setup, ToSet
  <2>2. status' = status /\ tasks' \in {tasks, <<>>}
    BY <1>3, <2>1, CallBegins
  <2>3. Running' \subseteq Running
    BY <2>1, <2>2 DEF Running
  <2> QED BY <1>1, <2>3, BoundKept
<1>4. ASSUME NEW c \in Client, CreateQueues(c)
      PROVE  RunningBound'
  <2>1. PICK t \in Task : t \notin Known /\ client[c].todo = <<t>>
    BY <1>4 DEF TypeInv, CreatedOnce, CreateQueues
  <2>2. tasks' = Append(tasks, t) /\ Head(client[c].todo) = t /\ tasks \in Seq(Task)
    BY <1>4, <2>1 DEF CreateQueues, TypeInv, TypeOK
  <2>3. ToSet(tasks') = ToSet(tasks) \cup {t}
    BY <2>2, Appended
  <2>4. CASE remainRunningCount = 0
    <3>1. status' = [status EXCEPT ![t] = "wait"]
      BY <1>4, <2>2, <2>4 DEF CreateQueues
    <3>2. Running' \subseteq Running
      BY <1>1, <2>3, <3>1 DEF Running
    <3> QED BY <1>1, <3>2, BoundKept
  <2>5. CASE remainRunningCount # 0
    <3>1. DoStart(t) /\ TypeOK
      BY <1>4, <2>2, <2>5 DEF CreateQueues, TypeInv
    <3>2. \A u \in Task \ {t} : status'[u] = status[u]
      BY <3>1, DoStartTypes
    <3>3. Running' \subseteq Running \cup {t}
      BY <2>3, <3>2 DEF Running, TypeInv, CreatedOnce, Known
    <3> QED BY <1>1, <2>5, <3>3, BoundKept
  <2> QED BY <2>4, <2>5
<1>5. ASSUME NEW c \in Client, Proceed(c)
      PROVE  RunningBound'
  <2>1. CASE client[c].pc = "create"
    BY <1>4, <1>5, <2>1 DEF Proceed, PreparePause, HandlePause, StopFetcher, PauseSaves,
       PauseAllRanges, ContinueLocks, ContinueScans, ContinueQueues, ContinueStarts,
       ContinueAllReads, ContinueAllDemotes, ContinueAllUnlocks, DeleteRemoves,
       DeleteErases, DeleteCloses
  <2>2. client[c].pc # "start"
    BY CallFacts DEF HasWork, BoundInv, OpsAreAllowed, WithoutContinue
  <2>3. CASE client[c].pc # "create"
    BY <1>1, <1>5, <2>2, <2>3, ProceedStatus, BoundKept
  <2> QED BY <2>1, <2>3
<1>6. CASE NotifyRuns
  <2>1. CASE remainRunningCount = 0 \/ waitTasks = <<>>
    <3>1. Running' \subseteq Running
      BY <1>6, <2>1 DEF NotifyRuns, taskVars, Running
    <3> QED BY <1>1, <3>1, BoundKept
  <2>2. CASE ~(remainRunningCount = 0 \/ waitTasks = <<>>)
    <3> DEFINE t == Head(waitTasks)
    <3>1. DoStart(t) /\ TypeOK /\ tasks' = tasks /\ remainRunningCount # 0
      BY <1>6, <2>2 DEF NotifyRuns, TypeInv
    <3>2. t \in Task
      BY <2>2, ListFacts DEF TypeInv, TypeOK
    <3> HIDE DEF t
    <3>3. \A u \in Task \ {t} : status'[u] = status[u]
      BY <3>1, <3>2, DoStartTypes
    <3>4. Running' \subseteq Running \cup {t}
      BY <3>1, <3>3 DEF Running, TypeInv, CreatedOnce, Known
    <3> QED BY <1>1, <3>1, <3>4, BoundKept
  <2> QED BY <2>1, <2>2
<1>7. CASE \/ \E s \in starters : Starter(s)
           \/ \E t \in Task : Watcher(t) \/ FetcherEnds(t)
  <2>1. Running' \subseteq Running
    BY <1>7, OthersStop DEF Running, TypeInv, CreatedOnce, Known
  <2> QED BY <1>1, <2>1, BoundKept
<1> QED BY <1>2, <1>3, <1>5, <1>6, <1>7 DEF Next

\* doCreate and notifyRunning never start a task beyond MaxRunning, whoever pauses, deletes
\* and creates at the same time and however often downloads fail: the number of running
\* tasks is read and used under d.lock.  (Continue, continueAll and ContinueBatch start
\* tasks without d.lock; with them the bound is not kept.)
THEOREM BoundIsKept == Spec => [](WithoutContinue => RunningBound)
<1>1. Init => TypeInv
  BY InitTypes
<1>2. Init => BoundInv
  <2> SUFFICES ASSUME Init PROVE BoundInv
    OBVIOUS
  <2>1. Running = {}
    BY DEF Init, Running, ToSet
  <2>2. RunningBound
    BY <2>1, FS_EmptySet DEF RunningBound
  <2>3. OpsAreAllowed
    BY DEF Init, OpsAreAllowed, Idle
  <2> QED BY <2>2, <2>3 DEF BoundInv
<1>3. TypeInv /\ BoundInv /\ [Next]_vars => TypeInv' /\ BoundInv'
  BY TypeStep, BoundStep
<1>4. TypeInv /\ BoundInv => (WithoutContinue => RunningBound)
  BY DEF BoundInv
<1> QED BY <1>1, <1>2, <1>3, <1>4, PTL DEF Spec

LEMMA DoneStep ==
  ASSUME TypeInv, OpsAreAllowed, [Next]_vars,
         budget.ops \cap {"continue", "continueAll"} = {}, NEW u \in Task, status[u] = "done"
  PROVE  status'[u] = "done"
<1>1. CASE UNCHANGED vars
  BY <1>1 DEF vars, taskVars
<1>2. ASSUME NEW c \in budget.callers, NewCall(c)
      PROVE  status'[u] = "done"
  BY <1>2, CallBegins DEF TypeInv, TypeOK, Setup
<1>3. ASSUME NEW c \in Client, Proceed(c)
      PROVE  status'[u] = "done"
  <2>1. client[c].pc \notin {"queue", "demote"}
    BY CallFacts DEF HasWork, OpsAreAllowed
  <2> QED BY <1>3, <2>1, ProceedStatus
<1>4. CASE NotifyRuns
  <2>1. CASE remainRunningCount = 0 \/ waitTasks = <<>>
    BY <1>4, <2>1 DEF NotifyRuns, taskVars
  <2>2. CASE ~(remainRunningCount = 0 \/ waitTasks = <<>>)
    <3> DEFINE t == Head(waitTasks)
    <3>1. DoStart(t) /\ TypeOK
      BY <1>4, <2>2 DEF NotifyRuns, TypeInv
    <3>2. t \in Task
      BY <2>2, ListFacts DEF TypeInv, TypeOK
    <3> HIDE DEF t
    <3> QED BY <3>1, <3>2, DoStartTypes
  <2> QED BY <2>1, <2>2
<1>5. CASE \/ \E s \in starters : Starter(s)
           \/ \E t \in Task : Watcher(t) \/ FetcherEnds(t)
  BY <1>5, OthersStop
<1> QED BY <1>1, <1>2, <1>3, <1>4, <1>5 DEF Next

\* A task that has finished is never started, paused, failed or queued again, by a late start
\* handler or watcher, a pause selected before it finished or an entry left in waitTasks,
\* unless somebody calls Continue or continueAll.
THEOREM DoneStaysDone == Spec => DoneIsFinal
<1> DEFINE Step == budget.ops \cap {"continue", "continueAll"} = {} =>
                     \A t \in Task : status[t] = "done" => status'[t] = "done"
<1>1. Init => TypeInv /\ OpsAreAllowed
  BY InitTypes DEF Init, OpsAreAllowed, Idle
<1>2. TypeInv /\ OpsAreAllowed /\ [Next]_vars => TypeInv' /\ OpsAreAllowed'
  BY TypeStep, OpsStep
<1>3. TypeInv /\ OpsAreAllowed /\ [Next]_vars => [Step]_vars
  BY DoneStep
<1> QED BY <1>1, <1>2, <1>3, PTL DEF Spec, DoneIsFinal

-----------------------------------------------------------------------------
(* One caller.                                                             *)

\* A set R of tasks still to be met in the list q, when its head is not one of them.
LEMMA StillToMeet ==
  ASSUME NEW R, IsFiniteSet(R), NEW q \in Seq(Task), q # <<>>, R \subseteq ToSet(q),
         Head(q) \notin R, NEW n \in Int, n >= Cardinality(R)
  PROVE  R \subseteq ToSet(Tail(q)) /\ (n = 0 \/ Len(q) = 1 => R = {})
<1>1. /\ Len(q) \in Nat \ {0} /\ Head(q) = q[1] /\ Tail(q) \in Seq(Task)
      /\ Len(Tail(q)) = Len(q) - 1 /\ \A i \in 1 .. Len(q) - 1 : Tail(q)[i] = q[i + 1]
  OBVIOUS
<1>2. R \subseteq ToSet(Tail(q))
  <2> SUFFICES ASSUME NEW x \in R PROVE x \in ToSet(Tail(q))
    OBVIOUS
  <2>1. PICK i \in 1 .. Len(q) : x = q[i]
    BY DEF ToSet
  <2>2. i # 1
    BY <1>1, <2>1
  <2>3. i - 1 \in 1 .. Len(q) - 1 /\ (i - 1) + 1 = i
    BY <1>1, <2>1, <2>2
  <2>4. Tail(q)[i - 1] = x /\ i - 1 \in DOMAIN Tail(q)
    BY <1>1, <2>1, <2>3
  <2> QED BY <2>4 DEF ToSet
<1>3. ASSUME n = 0 PROVE R = {}
  <2>1. Cardinality(R) \in Nat
    BY FS_CardinalityType
  <2>2. Cardinality(R) = 0
    BY <1>3, <2>1
  <2> QED BY <2>2, FS_EmptySet
<1>4. ASSUME Len(q) = 1 PROVE R = {}
  <2>1. Len(Tail(q)) = 0 /\ DOMAIN Tail(q) = 1 .. Len(Tail(q))
    BY <1>1, <1>4
  <2> QED BY <1>2, <2>1 DEF ToSet
<1> QED BY <1>2, <1>3, <1>4

\* Continue goes on to its next victim or to the queue.
LEMMA SoleOnward ==
  ASSUME TypeInv, NEW c \in Client, client[c].op = "continue",
         client[c].pc \in Pausing \cup {"scan"}, NEW queued \in BOOLEAN,
         Moves(c, Onward(c, queued)), dlock = c, dlock' = dlock, tasks' = tasks,
         ToSet(client[c].todo) \subseteq ToSet(tasks),
         ToSet(client[c].scan) \subseteq ToSet(tasks),
         Len(client[c].todo) > MaxRunning =>
           /\ Running' \subseteq ToSet(client[c].scan) /\ Head(client[c].scan) \notin Running'
           /\ (IF queued THEN client[c].left - 1 ELSE client[c].left) >= Cardinality(Running')
  PROVE  SoleCall(c)'
<1> DEFINE k == client[c]
           n == IF queued THEN k.left - 1 ELSE k.left
           pc == IF n = 0 \/ Len(k.scan) = 1 THEN "queue" ELSE "scan"
           next == [k EXCEPT !.scan = Tail(@), !.left = n, !.pc = pc]
<1>0. k \in Call /\ HasWork(k) /\ n \in Int /\ k.scan \in Seq(Task) /\ k.scan # <<>>
  BY CallFacts DEF HasWork, Pausing
<1>1. PICK o : o = next /\ client'[c] = o
  <2>1. Onward(c, queued) = next
    BY DEF Onward
  <2> QED BY <2>1, OneCall
<1>2. o.pc = pc /\ o.op = "continue" /\ o.todo = k.todo /\ o.scan = Tail(k.scan) /\ o.left = n
  BY <1>0, <1>1 DEF Call
<1>3. ToSet(Tail(k.scan)) \subseteq ToSet(tasks)
  <2>1. ToSet(Tail(k.scan)) \subseteq ToSet(k.scan)
    BY <1>0, ListFacts
  <2> QED BY <2>1
<1>4. ASSUME Len(k.todo) > MaxRunning
      PROVE  /\ Running' \subseteq ToSet(Tail(k.scan)) /\ n >= Cardinality(Running')
             /\ pc = "queue" => Running' = {}
  <2>1. IsFiniteSet(Running')
    <3>1. tasks \in Seq(Task)
      BY DEF TypeInv, TypeOK
    <3>2. IsFiniteSet(ToSet(tasks)) /\ ToSet(tasks') = ToSet(tasks)
      BY <3>1, RunningIsFinite
    <3>3. Running' \subseteq ToSet(tasks)
      BY DEF Running
    <3> QED BY <3>2, <3>3, FS_Subset
  <2> DEFINE R == Running'
  <2>2. IsFiniteSet(R) /\ R \subseteq ToSet(k.scan) /\ Head(k.scan) \notin R /\ n >= Cardinality(R)
    BY <1>4, <2>1
  <2> HIDE DEF R, n, k
  <2>3. R \subseteq ToSet(Tail(k.scan)) /\ (n = 0 \/ Len(k.scan) = 1 => R = {})
    BY <1>0, <2>2, StillToMeet
  <2> QED BY <2>2, <2>3 DEF R
<1> HIDE DEF next, n
<1>5. o.pc \in {"queue", "scan"}
  BY <1>2
<1>6. Len(o.todo) > MaxRunning =>
        /\ o.pc \in Pausing \cup {"scan"} => /\ Running' \subseteq ToSet(o.scan)
                                             /\ o.left >= Cardinality(Running')
        /\ o.pc = "queue" => Running' = {}
  BY <1>2, <1>4
<1>7. ToSet(o.todo) \subseteq ToSet(tasks') /\ ToSet(o.scan) \subseteq ToSet(tasks')
  BY <1>2, <1>3
<1> QED
  <2>1. ASSUME o.pc \in Pausing \cup {"scan"}, Len(o.todo) > MaxRunning
        PROVE  MakesRoom(o)'
    <3>1. o.left + 0 >= Cardinality(Running') /\ Running' \subseteq ToSet(o.scan)
          /\ o.left >= Cardinality(Running')
      BY <1>0, <1>2, <1>6, <2>1
    <3>2. IsFiniteSet(Running') /\ Cardinality(Running') \in Int
      <4>1. tasks' \in Seq(Task)
        BY DEF TypeInv, TypeOK
      <4>2. IsFiniteSet(ToSet(tasks'))
        BY RunningIsFinite DEF TypeInv, TypeOK
      <4>3. Running' \subseteq ToSet(tasks')
        BY DEF Running
      <4>4. IsFiniteSet(Running')
        BY <4>2, <4>3, FS_Subset
      <4> QED BY <4>4, FS_CardinalityType
    <3>3. ~(o.pc \in Pausing \ {"prepare"})
      BY <1>5 DEF Pausing
    <3> QED BY <3>1, <3>2, <3>3, <1>1 DEF MakesRoom
  <2> QED BY <1>1, <1>2, <1>5, <1>6, <1>7, <2>1 DEF SoleCall, Holds, Pausing

\* What runs after a step that leaves the list alone.
LEMMA RunningAfter ==
  ASSUME TypeInv, tasks' = tasks
  PROVE  /\ IsFiniteSet(Running) /\ Cardinality(Running) \in Nat
         /\ IsFiniteSet(Running') /\ Cardinality(Running') \in Nat
         /\ Running' \subseteq Running => Cardinality(Running') <= Cardinality(Running)
         /\ \A t \in Running : Running' = Running \ {t} => Cardinality(Running') = Cardinality(Running) - 1
<1>1. IsFiniteSet(ToSet(tasks)) /\ IsFiniteSet(Running) /\ Cardinality(Running) \in Nat
  BY RunningIsFinite DEF TypeInv, TypeOK
<1>2. Running' \subseteq ToSet(tasks)
  BY DEF Running
<1>3. IsFiniteSet(Running') /\ Cardinality(Running') \in Nat
  BY <1>1, <1>2, FS_Subset, FS_CardinalityType
<1>4. Running' \subseteq Running => Cardinality(Running') <= Cardinality(Running)
  BY <1>1, FS_Subset
<1>5. ASSUME NEW t \in Running, Running' = Running \ {t}
      PROVE  Cardinality(Running') = Cardinality(Running) - 1
  BY <1>1, <1>5, FS_RemoveElement
<1> QED BY <1>1, <1>3, <1>4, <1>5

\* The calls that do not continue anything.
LEMMA SoleElse ==
  ASSUME NEW c \in Client, client'[c].op # "continue",
         client'[c].pc \notin {"scan", "queue", "each", "demote"}
  PROVE  SoleCall(c)'
BY DEF SoleCall, Holds

LEMMA SolePreparePause ==
  ASSUME TypeInv, NEW c \in Client, SoleCall(c), client[c].op = "continue", PreparePause(c)
  PROVE  SoleCall(c)'
<1> DEFINE k == client[c]
           h == Head(k.scan)
           next == [k EXCEPT !.pc = "pausing", !.g = gen[h] + 1]
<1>0. /\ k \in Call /\ k.pc = "prepare" /\ Victim(c) = h /\ tasks' = tasks /\ dlock' = dlock
      /\ status \in [Task -> Status] /\ k.scan # <<>> /\ k.scan \in Seq(Task)
      /\ k.left \in Int /\ HasWork(k)
  BY CallFacts DEF PreparePause, Victim, TypeInv, TypeOK, HasWork
<1>1. /\ dlock = c /\ ToSet(k.todo) \subseteq ToSet(tasks) /\ ToSet(k.scan) \subseteq ToSet(tasks)
      /\ status[h] \in {"running", "done", "error"}
      /\ Len(k.todo) > MaxRunning => /\ Running \subseteq ToSet(k.scan)
                                     /\ k.left + 0 >= Cardinality(Running) + 0
  BY <1>0 DEF SoleCall, Holds, Pausing, MakesRoom
<1>2. h \in ToSet(tasks) /\ h \in Task
  <2>1. h \in ToSet(k.scan) /\ ToSet(k.scan) \subseteq Task
    BY <1>0, ListFacts
  <2> QED BY <1>1, <2>1
<1>3. Cardinality(Running) \in Nat
  BY RunningIsFinite DEF TypeInv, TypeOK
<1>4. CASE NothingToPause(h)
  <2>1. Moves(c, Onward(c, FALSE)) /\ status' = status
    BY <1>0, <1>4 DEF PreparePause
  <2>2. Running' = Running
    BY <1>0, <2>1 DEF Running
  <2>3. h \notin Running
    BY <1>4 DEF NothingToPause, Running
  <2>4. FALSE \in BOOLEAN /\ (IF FALSE THEN k.left - 1 ELSE k.left) = k.left
    OBVIOUS
  <2>5. Len(k.todo) > MaxRunning =>
          /\ Running' \subseteq ToSet(k.scan) /\ h \notin Running'
          /\ (IF FALSE THEN k.left - 1 ELSE k.left) >= Cardinality(Running')
    BY <1>0, <1>1, <1>3, <2>2, <2>3
  <2> QED BY <1>0, <1>1, <2>1, <2>4, <2>5, SoleOnward DEF Pausing
<1>5. CASE ~NothingToPause(h)
  <2>1. status' = [status EXCEPT ![h] = "pause"] /\ Moves(c, next)
    BY <1>0, <1>5 DEF PreparePause
  <2>2. PICK o : o = next /\ client'[c] = o
    BY <2>1, OneCall
  <2>3. /\ o.pc = "pausing" /\ o.op = "continue" /\ o.todo = k.todo /\ o.scan = k.scan
        /\ o.left = k.left
    BY <1>0, <2>2 DEF Call
  <2>4. h \in Running /\ Running' = Running \ {h}
    BY <1>0, <1>1, <1>2, <1>5, <2>1 DEF Running, NothingToPause
  <2>5. Cardinality(Running') = Cardinality(Running) - 1
    BY <1>0, <2>4, RunningAfter
  <2>6. Len(o.todo) > MaxRunning => /\ Running' \subseteq ToSet(o.scan)
                                    /\ o.left >= Cardinality(Running') + 1
    <3>1. Len(k.todo) > MaxRunning => k.left >= Cardinality(Running)
      BY <1>0, <1>1, <1>3
    <3> QED BY <1>0, <1>1, <1>3, <2>3, <2>4, <2>5, <3>1
  <2>7. /\ ToSet(o.todo) \subseteq ToSet(tasks') /\ ToSet(o.scan) \subseteq ToSet(tasks')
        /\ status'[Head(o.scan)] # "running" /\ dlock' = c
    BY <1>0, <1>1, <1>2, <2>1, <2>3
  <2>8. Len(o.todo) > MaxRunning => MakesRoom(o)'
    BY <2>3, <2>6 DEF MakesRoom, Pausing
  <2> HIDE DEF next
  <2> QED BY <2>2, <2>3, <2>7, <2>8 DEF SoleCall, Holds, Pausing
<1> QED BY <1>4, <1>5

LEMMA SolePause ==
  ASSUME TypeInv, NEW c \in Client, SoleCall(c), client[c].op = "continue",
         HandlePause(c) \/ StopFetcher(c) \/ PauseSaves(c)
  PROVE  SoleCall(c)'
<1> DEFINE k == client[c]
           h == Head(k.scan)
<1>0. /\ k \in Call /\ k.pc \in {"pausing", "stopping", "saving"} /\ Victim(c) = h
      /\ tasks' = tasks /\ dlock' = dlock
      /\ status \in [Task -> Status] /\ k.scan # <<>> /\ k.scan \in Seq(Task)
      /\ k.left \in Int /\ HasWork(k)
  BY CallFacts DEF HandlePause, StopFetcher, PauseSaves, Victim, TypeInv, TypeOK, HasWork
<1>1. /\ dlock = c /\ ToSet(k.todo) \subseteq ToSet(tasks) /\ ToSet(k.scan) \subseteq ToSet(tasks)
      /\ status[h] # "running"
      /\ Len(k.todo) > MaxRunning => /\ Running \subseteq ToSet(k.scan)
                                     /\ k.left >= Cardinality(Running) + 1
  BY <1>0 DEF SoleCall, Holds, Pausing, MakesRoom
<1>2. h \in Task
  <2>1. h \in ToSet(k.scan) /\ ToSet(k.scan) \subseteq Task
    BY <1>0, ListFacts
  <2> QED BY <2>1
<1>3. Cardinality(Running) \in Nat
  BY RunningIsFinite DEF TypeInv, TypeOK
<1>4. Running' \subseteq Running /\ status'[h] # "running"
  <2>1. \/ status' = status
        \/ status' = [status EXCEPT ![h] = "wait"]
    BY <1>0 DEF HandlePause, StopFetcher, PauseSaves, taskVars
  <2> HIDE DEF h
  <2>2. CASE status' = status
    BY <1>0, <1>1, <2>2 DEF Running
  <2>3. CASE status' = [status EXCEPT ![h] = "wait"]
    <3>1. status'[h] # "running" /\ \A u \in Task \ {h} : status'[u] = status[u]
      BY <1>0, <1>2, <2>3
    <3>2. ToSet(tasks) \subseteq Task
      BY DEF TypeInv, CreatedOnce, Known
    <3> QED BY <1>0, <3>1, <3>2 DEF Running
  <2> QED BY <2>1, <2>2, <2>3
<1>5. Cardinality(Running') <= Cardinality(Running) /\ Cardinality(Running') \in Nat
  BY <1>0, <1>4, RunningAfter
<1>6. ASSUME NEW queued \in BOOLEAN, Moves(c, Onward(c, queued))
      PROVE  SoleCall(c)'
  <2>1. h \notin Running'
    BY <1>4 DEF Running
  <2>2. Len(k.todo) > MaxRunning =>
          /\ Running' \subseteq ToSet(k.scan) /\ h \notin Running'
          /\ (IF queued THEN k.left - 1 ELSE k.left) >= Cardinality(Running')
    BY <1>0, <1>1, <1>3, <1>4, <1>5, <2>1
  <2> QED BY <1>0, <1>1, <1>6, <2>2, SoleOnward DEF Pausing
<1>7. ASSUME NEW pc \in {"stopping", "saving"}, Moves(c, [k EXCEPT !.pc = pc])
      PROVE  SoleCall(c)'
  <2> DEFINE next == [k EXCEPT !.pc = pc]
  <2>1. PICK o : o = next /\ client'[c] = o
    BY <1>7, OneCall
  <2>2. /\ o.pc \in {"stopping", "saving"} /\ o.op = "continue" /\ o.todo = k.todo
        /\ o.scan = k.scan /\ o.left = k.left
    BY <1>0, <2>1 DEF Call
  <2>3. Len(o.todo) > MaxRunning => /\ Running' \subseteq ToSet(o.scan)
                                    /\ o.left >= Cardinality(Running') + 1
    BY <1>0, <1>1, <1>3, <1>4, <1>5, <2>2
  <2>4. Len(o.todo) > MaxRunning => MakesRoom(o)'
    BY <2>2, <2>3 DEF MakesRoom, Pausing
  <2>5. /\ ToSet(o.todo) \subseteq ToSet(tasks') /\ ToSet(o.scan) \subseteq ToSet(tasks')
        /\ status'[Head(o.scan)] # "running" /\ dlock' = c
    BY <1>0, <1>1, <1>4, <2>2
  <2> HIDE DEF next
  <2> QED BY <2>1, <2>2, <2>4, <2>5 DEF SoleCall, Holds, Pausing
<1>8. \/ \E queued \in BOOLEAN : Moves(c, Onward(c, queued))
      \/ \E pc \in {"stopping", "saving"} : Moves(c, [k EXCEPT !.pc = pc])
  <2>1. ASSUME PauseSaves(c)
        PROVE  \E queued \in BOOLEAN : Moves(c, Onward(c, queued))
    <3> DEFINE queued == /\ client[c].op = "continue"
                         /\ status[Victim(c)] = "pause" /\ gen[Victim(c)] = client[c].g
    <3>1. queued \in BOOLEAN /\ Moves(c, Onward(c, queued))
      BY <2>1 DEF PauseSaves
    <3> HIDE DEF queued
    <3> QED BY <3>1
  <2> QED BY <2>1 DEF HandlePause, StopFetcher
<1> QED BY <1>6, <1>7, <1>8

LEMMA SoleContinue ==
  ASSUME TypeInv, NEW c \in Client, SoleCall(c), ContinueLocks(c) \/ ContinueScans(c)
  PROVE  SoleCall(c)'
<1> DEFINE k == client[c]
           h == Head(k.scan)
<1>0. /\ k \in Call /\ HasWork(k) /\ k.op = "continue" /\ tasks' = tasks /\ status' = status
      /\ tasks \in Seq(Task) /\ k.left \in Int /\ k.pc \in {"lock", "scan"}
  BY CallFacts DEF ContinueLocks, ContinueScans, TypeInv, TypeOK, HasWork, taskVars
<1>1. ToSet(k.todo) \subseteq ToSet(tasks) /\ Running' = Running
  BY <1>0 DEF SoleCall, Running
<1>2. IsFiniteSet(Running) /\ Cardinality(Running) \in Nat
  BY <1>0, RunningIsFinite
<1>3. CASE ContinueScans(c)
  <2>0. /\ k.pc = "scan" /\ dlock' = dlock /\ Victim(c) = h
    BY <1>0, <1>3 DEF ContinueScans, Victim
  <2>1. /\ dlock = c /\ ToSet(k.scan) \subseteq ToSet(tasks)
        /\ Len(k.todo) > MaxRunning => /\ Running \subseteq ToSet(k.scan)
                                       /\ k.left >= Cardinality(Running)
    <3>1. Len(k.todo) > MaxRunning => /\ Running \subseteq ToSet(k.scan)
                                      /\ k.left >= Cardinality(Running) + 0
      BY <1>0, <2>0 DEF SoleCall, MakesRoom, Pausing
    <3> QED BY <1>0, <1>2, <2>0, <3>1 DEF SoleCall, Holds, Pausing
  <2>2. CASE status[h] = "running"
    <3> DEFINE next == [k EXCEPT !.pc = "prepare"]
    <3>1. Moves(c, next)
      BY <1>3, <2>0, <2>2 DEF ContinueScans
    <3>2. PICK o : o = next /\ client'[c] = o
      BY <3>1, OneCall
    <3>3. /\ o.pc = "prepare" /\ o.op = "continue" /\ o.todo = k.todo
          /\ o.scan = k.scan /\ o.left = k.left
      BY <1>0, <3>2 DEF Call
    <3>4. Len(o.todo) > MaxRunning => /\ Running' \subseteq ToSet(o.scan)
                                      /\ o.left >= Cardinality(Running') + 0
      BY <1>0, <1>1, <1>2, <2>1, <3>3
    <3>5. Len(o.todo) > MaxRunning => MakesRoom(o)'
      BY <3>3, <3>4 DEF MakesRoom, Pausing
    <3>6. /\ ToSet(o.todo) \subseteq ToSet(tasks') /\ ToSet(o.scan) \subseteq ToSet(tasks')
          /\ status'[Head(o.scan)] = "running" /\ dlock' = c
      BY <1>0, <1>1, <2>0, <2>1, <2>2, <3>3
    <3> HIDE DEF next
    <3> QED BY <3>2, <3>3, <3>5, <3>6 DEF SoleCall, Holds, Pausing
  <2>3. CASE status[h] # "running"
    <3>1. Moves(c, Onward(c, FALSE))
      BY <1>3, <2>0, <2>3 DEF ContinueScans
    <3>2. h \notin Running'
      BY <1>1, <2>3 DEF Running
    <3>3. Len(k.todo) > MaxRunning =>
            /\ Running' \subseteq ToSet(k.scan) /\ h \notin Running'
            /\ (IF FALSE THEN k.left - 1 ELSE k.left) >= Cardinality(Running')
      BY <1>1, <2>1, <3>2
    <3> QED BY <1>0, <1>1, <2>0, <2>1, <3>1, <3>3, SoleOnward
  <2> QED BY <2>2, <2>3
<1>4. CASE ContinueLocks(c)
  <2> DEFINE n == NeedRunning(c) - remainRunningCount
             next == [k EXCEPT !.pc = "scan", !.scan = tasks, !.left = n]
             last == [k EXCEPT !.pc = "queue"]
  <2>1. /\ n \in Int
        /\ Len(k.todo) > MaxRunning => n = Cardinality(Running)
    <3>1. k.todo \in Seq(Task)
      BY CallFacts
    <3>2. Len(k.todo) \in Nat /\ MaxRunning \in Nat
      BY <3>1
    <3> HIDE DEF k
    <3> QED BY <1>2, <3>2 DEF NeedRunning, remainRunningCount, k
  <2>2. /\ dlock' = c
        /\ \/ n > 0 /\ tasks # <<>> /\ Moves(c, next)
           \/ (~(n > 0) \/ tasks = <<>>) /\ Moves(c, last)
    BY <1>4 DEF ContinueLocks
  <2> HIDE DEF n
  <2>3. CASE n > 0 /\ tasks # <<>> /\ Moves(c, next)
    <3>1. PICK o : o = next /\ client'[c] = o
      BY <2>3, OneCall
    <3>2. /\ o.pc = "scan" /\ o.op = "continue" /\ o.todo = k.todo
          /\ o.scan = tasks /\ o.left = n
      BY <1>0, <3>1 DEF Call
    <3>3. Len(o.todo) > MaxRunning => /\ Running' \subseteq ToSet(o.scan)
                                      /\ o.left >= Cardinality(Running') + 0
      <4>1. Running \subseteq ToSet(tasks)
        BY DEF Running
      <4>2. ASSUME Len(k.todo) > MaxRunning
            PROVE  n >= Cardinality(Running) + 0
        <5>1. n = Cardinality(Running)
          BY <2>1, <4>2
        <5> QED BY <1>2, <5>1
      <4> QED BY <1>1, <3>2, <4>1, <4>2
    <3>4. Len(o.todo) > MaxRunning => MakesRoom(o)'
      BY <3>2, <3>3 DEF MakesRoom, Pausing
    <3>5. /\ ToSet(o.todo) \subseteq ToSet(tasks') /\ ToSet(o.scan) \subseteq ToSet(tasks')
      BY <1>0, <1>1, <3>2
    <3> HIDE DEF next
    <3> QED BY <2>2, <3>1, <3>2, <3>4, <3>5 DEF SoleCall, Holds, Pausing
  <2>4. CASE (~(n > 0) \/ tasks = <<>>) /\ Moves(c, last)
    <3>1. PICK o : o = last /\ client'[c] = o
      BY <2>4, OneCall
    <3>2. o.pc = "queue" /\ o.op = "continue" /\ o.todo = k.todo
      BY <1>0, <3>1 DEF Call
    <3>3. ASSUME Len(k.todo) > MaxRunning PROVE Running = {}
      <4>1. CASE tasks = <<>>
        BY <4>1 DEF Running, ToSet
      <4>2. CASE ~(n > 0)
        <5>1. n = Cardinality(Running)
          BY <2>1, <3>3
        <5>2. ASSUME Cardinality(Running) # 0 PROVE FALSE
          BY <1>2, <4>2, <5>1, <5>2
        <5> QED BY <1>2, <5>2, FS_EmptySet
      <4> QED BY <2>4, <4>1, <4>2
    <3>4. ToSet(o.todo) \subseteq ToSet(tasks') /\ (Len(o.todo) > MaxRunning => Running' = {})
      BY <1>0, <1>1, <3>2, <3>3
    <3> HIDE DEF last
    <3> QED BY <2>2, <3>1, <3>2, <3>4 DEF SoleCall, Holds, Pausing
  <2> QED BY <2>2, <2>3, <2>4
<1> QED BY <1>3, <1>4

\* The other steps of a call.
LEMMA SoleOther ==
  ASSUME TypeInv, NEW c \in Client, SoleCall(c), Proceed(c)
  PROVE  SoleCall(c)'
<1> DEFINE k == client[c]
<1>0. /\ k \in Call /\ HasWork(k) /\ client \in [Client -> Call]
      /\ Idle.op = "none" /\ Idle.pc = "idle" /\ Idle.op # "continue"
  BY CallFacts DEF Idle, TypeInv, TypeOK
<1>1. ASSUME Moves(c, Idle) PROVE SoleCall(c)'
  BY <1>0, <1>1, OneCall, SoleElse
<1>2. CASE CreateQueues(c)
  BY <1>1, <1>2 DEF CreateQueues
<1>3. CASE PreparePause(c) \/ HandlePause(c) \/ StopFetcher(c) \/ PauseSaves(c)
  <2>1. CASE k.op = "continue"
    BY <1>3, <2>1, SolePreparePause, SolePause
  <2>2. CASE k.op # "continue"
    <3>1. ASSUME NEW queued, Moves(c, Onward(c, queued)) PROVE SoleCall(c)'
      <4>1. \/ Onward(c, queued) = Idle
            \/ Onward(c, queued) = [k EXCEPT !.todo = Tail(k.todo), !.pc = "prepare"]
        BY <2>2 DEF Onward
      <4>2. CASE Onward(c, queued) = Idle
        BY <1>1, <3>1, <4>2
      <4>3. CASE Onward(c, queued) = [k EXCEPT !.todo = Tail(k.todo), !.pc = "prepare"]
        <5> DEFINE next == [k EXCEPT !.todo = Tail(k.todo), !.pc = "prepare"]
        <5>1. next.op # "continue" /\ next.pc = "prepare"
          BY <1>0, <2>2 DEF Call
        <5>2. client'[c] = next
          BY <3>1, <4>3, OneCall
        <5> QED BY <5>1, <5>2, SoleElse
      <4> QED BY <4>1, <4>2, <4>3
    <3>2. ASSUME NEW next, Moves(c, next), next.op # "continue", next.pc \in Pausing
          PROVE  SoleCall(c)'
      BY <3>2, OneCall, SoleElse DEF Pausing
    <3>3. CASE PreparePause(c)
      <4> DEFINE next == [k EXCEPT !.pc = "pausing", !.g = gen[Victim(c)] + 1]
      <4>1. Moves(c, Onward(c, FALSE)) \/ Moves(c, next)
        BY <3>3 DEF PreparePause
      <4>2. next.op # "continue" /\ next.pc \in Pausing
        BY <1>0, <2>2 DEF Call, Pausing
      <4> HIDE DEF next
      <4> QED BY <3>1, <3>2, <4>1, <4>2
    <3>4. CASE HandlePause(c)
      <4> DEFINE next == [k EXCEPT !.pc = "stopping"]
      <4>1. Moves(c, Onward(c, FALSE)) \/ Moves(c, next)
        BY <3>4 DEF HandlePause
      <4>2. next.op # "continue" /\ next.pc \in Pausing
        BY <1>0, <2>2 DEF Call, Pausing
      <4> HIDE DEF next
      <4> QED BY <3>1, <3>2, <4>1, <4>2
    <3>5. CASE StopFetcher(c)
      <4> DEFINE next == [k EXCEPT !.pc = "saving"]
      <4>1. Moves(c, next)
        BY <3>5 DEF StopFetcher
      <4>2. next.op # "continue" /\ next.pc \in Pausing
        BY <1>0, <2>2 DEF Call, Pausing
      <4> HIDE DEF next
      <4> QED BY <3>2, <4>1, <4>2
    <3>6. CASE PauseSaves(c)
      BY <3>1, <3>6 DEF PauseSaves
    <3> QED BY <1>3, <3>3, <3>4, <3>5, <3>6
  <2> QED BY <2>1, <2>2
<1>4. CASE PauseAllRanges(c)
  <2>1. k.op = "pauseAll"
    BY <1>0, <1>4 DEF PauseAllRanges, HasWork
  <2>2. client'[c].op # "continue" /\ client'[c].pc \in {"idle", "prepare"}
    BY <1>0, <1>4, <2>1 DEF PauseAllRanges, Moves, Call
  <2> QED BY <2>2, SoleElse
<1>5. CASE ContinueLocks(c) \/ ContinueScans(c)
  BY <1>5, SoleContinue
<1>6. CASE ContinueQueues(c) \/ ContinueStarts(c) \/ ContinueAllUnlocks(c)
  <2>1. client'[c].pc \in {"start", "idle"} /\ (client'[c].pc = "idle" => client'[c].op = "none")
    <3>1. CASE ContinueQueues(c)
      BY <1>0, <3>1 DEF ContinueQueues, Moves, Idle
    <3>2. CASE ContinueStarts(c)
      BY <1>0, <3>2 DEF ContinueStarts, Moves, Call
    <3>3. CASE ContinueAllUnlocks(c)
      BY <1>0, <3>3 DEF ContinueAllUnlocks, Moves, Call
    <3> QED BY <1>6, <3>1, <3>2, <3>3
  <2> QED BY <2>1 DEF SoleCall, Holds, Pausing
<1>7. CASE ContinueAllReads(c)
  <2>1. k.op = "continueAll" /\ k.pc = "each" /\ dlock' = dlock /\ status' = status
    BY <1>0, <1>7 DEF ContinueAllReads, HasWork, taskVars
  <2>2. dlock' = c
    BY <2>1 DEF SoleCall, Holds
  <2>3. /\ client'[c].op = "continueAll" /\ client'[c].pc \in {"each", "demote"}
        /\ client'[c].pc = "demote" => /\ client'[c].todo = k.todo
                                       /\ ~LeftAlone(Head(k.todo))
    BY <1>0, <1>7, <2>1 DEF ContinueAllReads, Moves, Call
  <2>4. client'[c].pc = "demote" => status'[Head(client'[c].todo)] # "running"
    BY <2>1, <2>3 DEF LeftAlone
  <2> QED BY <2>2, <2>3, <2>4 DEF SoleCall, Holds
<1>8. CASE ContinueAllDemotes(c)
  <2>1. k.op = "continueAll" /\ k.pc = "demote" /\ dlock' = dlock
    BY <1>0, <1>8 DEF ContinueAllDemotes, HasWork
  <2>2. dlock' = c
    BY <2>1 DEF SoleCall, Holds
  <2>3. client'[c].op = "continueAll" /\ client'[c].pc = "each"
    BY <1>0, <1>8, <2>1 DEF ContinueAllDemotes, Moves, Call
  <2> QED BY <2>2, <2>3 DEF SoleCall, Holds
<1>9. CASE DeleteRemoves(c) \/ DeleteErases(c) \/ DeleteCloses(c)
  <2>1. k.op \in {"delete", "deleteAll"}
    BY <1>0, <1>9 DEF DeleteRemoves, DeleteErases, DeleteCloses, HasWork
  <2>2. client'[c].op # "continue" /\ client'[c].pc \in {"idle", "erase", "close"}
    <3>1. CASE DeleteRemoves(c)
      BY <1>0, <2>1, <3>1 DEF DeleteRemoves, Moves, Call
    <3>2. CASE DeleteErases(c)
      BY <1>0, <2>1, <3>2 DEF DeleteErases, Moves, Call
    <3>3. CASE DeleteCloses(c)
      BY <1>0, <2>1, <3>3 DEF DeleteCloses, Moves, Call
    <3> QED BY <1>9, <3>1, <3>2, <3>3
  <2> QED BY <2>2, SoleElse
<1> QED BY <1>2, <1>3, <1>4, <1>5, <1>6, <1>7, <1>8, <1>9 DEF Proceed

LEMMA SoleBegins ==
  ASSUME TypeInv, NEW c \in Client, NewCall(c)
  PROVE  SoleCall(c)'
<1>0. client \in [Client -> Call] /\ tasks \in Seq(Task)
  BY DEF TypeInv, TypeOK
<1>1. ASSUME NEW t \in Task, CreateStores(c, t)
      PROVE  SoleCall(c)'
  <2>1. client'[c].op = "create" /\ client'[c].pc = "create"
    BY <1>0, <1>1 DEF CreateStores, Moves, Idle
  <2> QED BY <2>1, SoleElse
<1>2. ASSUME CallPauseAll(c)
      PROVE  SoleCall(c)'
  <2>1. client'[c].op = "pauseAll" /\ client'[c].pc = "range"
    BY <1>0, <1>2 DEF CallPauseAll, Moves, Idle
  <2> QED BY <2>1, SoleElse
<1>3. ASSUME CallContinueAll(c)
      PROVE  SoleCall(c)'
  <2>1. client'[c].op = "continueAll" /\ client'[c].pc = "each" /\ dlock' = c
    BY <1>0, <1>3 DEF CallContinueAll, Moves, Idle
  <2> QED BY <2>1 DEF SoleCall, Holds
<1>4. ASSUME CallDeleteAll(c)
      PROVE  SoleCall(c)'
  <2>1. client'[c].op = "deleteAll" /\ client'[c].pc = "erase"
    BY <1>0, <1>4 DEF CallDeleteAll, Moves, Idle
  <2> QED BY <2>1, SoleElse
<1>5. ASSUME NEW S \in SUBSET Task, CallPause(c, S)
      PROVE  SoleCall(c)'
  <2>1. client'[c].op = "pause" /\ client'[c].pc = "prepare"
    BY <1>0, <1>5 DEF CallPause, Moves, Idle
  <2> QED BY <2>1, SoleElse
<1>6. ASSUME NEW S \in SUBSET Task, CallContinue(c, S)
      PROVE  SoleCall(c)'
  <2> DEFINE I == {i \in DOMAIN tasks : tasks[i] \in S /\ status[tasks[i]] \notin {"running", "done"}}
  <2>1. PICK sel : sel = Selected(S, {"running", "done"})
    OBVIOUS
  <2>2. ToSet(sel) \subseteq ToSet(tasks)
    <3>1. I \subseteq DOMAIN tasks /\ sel = Entries(tasks, I)
      BY <2>1 DEF Selected
    <3> HIDE DEF I
    <3>2. ToSet(Entries(tasks, I)) \subseteq ToSet(tasks)
      BY <1>0, <3>1, EntriesOf
    <3> QED BY <3>1, <3>2
  <2>3. /\ client'[c].op = "continue" /\ client'[c].pc = "lock" /\ client'[c].todo = sel
        /\ tasks' = tasks
    BY <1>0, <1>6, <2>1 DEF CallContinue, Moves, Idle
  <2> QED BY <2>2, <2>3 DEF SoleCall, Holds, Pausing
<1>7. ASSUME NEW S \in SUBSET Task, CallContinueBatch(c, S)
      PROVE  SoleCall(c)'
  <2>1. client'[c].op = "continueBatch" /\ client'[c].pc = "start"
    BY <1>0, <1>7 DEF CallContinueBatch, Moves, Idle
  <2> QED BY <2>1, SoleElse
<1>8. ASSUME NEW S \in SUBSET Task, CallDelete(c, S)
      PROVE  SoleCall(c)'
  <2>1. client'[c].op = "delete" /\ client'[c].pc = "remove"
    BY <1>0, <1>8 DEF CallDelete, Moves, Idle
  <2> QED BY <2>1, SoleElse
<1> QED BY <1>1, <1>2, <1>3, <1>4, <1>5, <1>6, <1>7, <1>8 DEF NewCall

\* Everybody else leaves the one call alone: d.lock keeps notifyRunning away, and the tasks
\* that end meanwhile only make more room.
LEMMA SoleAside ==
  ASSUME TypeInv, NEW c \in Client, SoleCall(c),
         \/ NotifyRuns \/ UNCHANGED vars
         \/ \E s \in starters : Starter(s)
         \/ \E t \in Task : Watcher(t) \/ FetcherEnds(t)
  PROVE  SoleCall(c)'
<1> DEFINE k == client[c]
<1>0. /\ client' = client /\ dlock' = dlock /\ tasks' = tasks /\ HasWork(k) /\ k \in Call
      /\ status \in [Task -> Status]
  BY OthersStop, CallFacts DEF NotifyRuns, vars, TypeInv, TypeOK
<1>1. CASE NotifyRuns
  <2>1. dlock' # c
    BY <1>0, <1>1 DEF NotifyRuns
  <2>2. ~Holds(k)
    BY <1>0, <2>1 DEF SoleCall
  <2> QED BY <1>0, <2>2 DEF SoleCall, Holds, Pausing
<1>2. CASE \A u \in Task : \/ status'[u] = status[u]
                           \/ status[u] = "running" /\ status'[u] \in {"error", "done"}
  <2>1. Running' \subseteq Running
    BY <1>0, <1>2 DEF Running, TypeInv, CreatedOnce, Known
  <2>2. /\ Cardinality(Running) \in Nat /\ Cardinality(Running') \in Nat
        /\ Cardinality(Running') <= Cardinality(Running)
    BY <1>0, <2>1, RunningAfter
  <2>3. k.pc = "demote" => status'[Head(k.todo)] # "running"
    <3> SUFFICES ASSUME k.pc = "demote" PROVE status'[Head(k.todo)] # "running"
      OBVIOUS
    <3>1. k.todo \in Seq(Task) /\ k.todo # <<>>
      BY <1>0 DEF HasWork, Call
    <3>2. Head(k.todo) \in Task
      BY <3>1
    <3>3. status[Head(k.todo)] # "running"
      BY DEF SoleCall
    <3> QED BY <1>2, <3>2, <3>3
  <2>4. ASSUME k.op = "continue", k.pc \in Pausing
        PROVE  Head(k.scan) \in Task
    <3>1. k.scan \in Seq(Task) /\ k.scan # <<>>
      BY <1>0, <2>4 DEF HasWork, Pausing, Call
    <3> QED BY <3>1
  <2>5. PICK o : o = k
    OBVIOUS
  <2>6. o = client[c] /\ o = client'[c] /\ o \in Call
    BY <1>0, <2>5
  <2>7. Holds(o) => dlock' = c
    BY <1>0, <2>6 DEF SoleCall
  <2>8. ASSUME o.op = "continue"
        PROVE  /\ o.pc # "start" => ToSet(o.todo) \subseteq ToSet(tasks')
               /\ o.pc \in Pausing \cup {"scan"} => ToSet(o.scan) \subseteq ToSet(tasks')
               /\ o.pc = "prepare" => status'[Head(o.scan)] \in {"running", "done", "error"}
               /\ o.pc \in Pausing \ {"prepare"} => status'[Head(o.scan)] # "running"
               /\ Len(o.todo) > MaxRunning /\ o.pc = "queue" => Running' = {}
    <3>1. /\ o.pc # "start" => ToSet(o.todo) \subseteq ToSet(tasks)
          /\ o.pc \in Pausing \cup {"scan"} => ToSet(o.scan) \subseteq ToSet(tasks)
          /\ o.pc = "prepare" => status[Head(o.scan)] \in {"running", "done", "error"}
          /\ o.pc \in Pausing \ {"prepare"} => status[Head(o.scan)] # "running"
          /\ Len(o.todo) > MaxRunning /\ o.pc = "queue" => Running = {}
      BY <2>6, <2>8 DEF SoleCall
    <3>2. ToSet(tasks') = ToSet(tasks)
      BY <1>0
    <3>3. o.pc \in Pausing => Head(o.scan) \in Task
      BY <2>4, <2>6, <2>8
    <3>4. "prepare" \in Pausing
      BY DEF Pausing
    <3> QED BY <1>2, <2>1, <3>1, <3>2, <3>3, <3>4
  <2>9. ASSUME o.op = "continue", Len(o.todo) > MaxRunning, o.pc \in Pausing \cup {"scan"}
        PROVE  MakesRoom(o)'
    <3>1. /\ Running \subseteq ToSet(o.scan) /\ o.left \in Int
          /\ o.left >= Cardinality(Running) + IF o.pc \in Pausing \ {"prepare"} THEN 1 ELSE 0
      BY <2>6, <2>9 DEF SoleCall, MakesRoom, Call
    <3>2. /\ Running' \subseteq ToSet(o.scan)
          /\ o.left >= Cardinality(Running') + IF o.pc \in Pausing \ {"prepare"} THEN 1 ELSE 0
      BY <2>1, <2>2, <3>1
    <3> QED BY <3>2 DEF MakesRoom
  <2> HIDE DEF k
  <2>10. o.pc = "demote" => status'[Head(o.todo)] # "running"
    BY <2>3, <2>5
  <2> QED BY <2>6, <2>7, <2>8, <2>9, <2>10 DEF SoleCall
<1> QED
  <2>1. CASE UNCHANGED vars
    BY <1>2, <2>1 DEF vars, taskVars
  <2> QED BY <1>1, <1>2, <2>1, OthersStop

LEMMA SoleStep ==
  ASSUME TypeInv, OpsAreAllowed, SoleInv, [Next]_vars
  PROVE  SoleInv'
<1>0. budget'.callers = budget.callers /\ OneCaller' = OneCaller
  BY OpsStep DEF OneCaller
<1> SUFFICES ASSUME OneCaller
             PROVE  \A d \in Client : IF d \in budget.callers THEN SoleCall(d)'
                                                              ELSE client'[d].pc = "idle"
  BY <1>0 DEF SoleInv
<1>1. PICK c \in Client : budget.callers = {c}
  BY DEF OneCaller
<1>2. SoleCall(c) /\ \A d \in Client \ {c} : client[d].pc = "idle"
  BY <1>1 DEF SoleInv
<1> SUFFICES SoleCall(c)' /\ \A d \in Client \ {c} : client'[d].pc = "idle"
  BY <1>1
<1>3. CASE NewCall(c)
  BY <1>2, <1>3, SoleBegins, CallBegins
<1>4. ASSUME NEW d \in Client, Proceed(d)
      PROVE  SoleCall(c)' /\ \A e \in Client \ {c} : client'[e].pc = "idle"
  <2>1. d = c
    BY <1>2, <1>4, CallGoesOn
  <2> QED BY <1>2, <1>4, <2>1, CallGoesOn, SoleOther
<1>5. CASE \/ NotifyRuns \/ UNCHANGED vars
           \/ \E s \in starters : Starter(s)
           \/ \E t \in Task : Watcher(t) \/ FetcherEnds(t)
  <2>1. SoleCall(c)'
    BY <1>2, <1>5, SoleAside
  <2>2. client' = client
    BY <1>5, OthersStop DEF NotifyRuns, vars
  <2> QED BY <1>2, <2>1, <2>2
<1>6. \/ NewCall(c) \/ \E d \in Client : Proceed(d)
      \/ NotifyRuns \/ UNCHANGED vars
      \/ \E s \in starters : Starter(s)
      \/ \E t \in Task : Watcher(t) \/ FetcherEnds(t)
  BY <1>1 DEF Next
<1> QED BY <1>3, <1>4, <1>5, <1>6

LEMMA NotDemoted ==
  ASSUME TypeInv, SoleInv, [Next]_vars, OneCaller, NEW u \in Task, status[u] = "running"
  PROVE  status'[u] # "wait"
<1>0. status \in [Task -> Status] /\ tasks \in Seq(Task)
  BY DEF TypeInv, TypeOK
<1>1. PICK c \in Client : budget.callers = {c}
  BY DEF OneCaller
<1>2. SoleCall(c) /\ \A d \in Client \ {c} : client[d].pc = "idle"
  BY <1>1 DEF SoleInv
<1>3. CASE UNCHANGED vars
  BY <1>3 DEF vars, taskVars
<1>4. CASE NewCall(c)
  BY <1>4, CallBegins
<1>5. ASSUME NEW d \in Client, Proceed(d)
      PROVE  status'[u] # "wait"
  <2>1. d = c
    BY <1>2, <1>5, CallGoesOn
  <2>2. CASE CreateQueues(c)
    <3>1. PICK t \in Task : t \notin Known /\ client[c].todo = <<t>>
      BY <2>2 DEF TypeInv, CreatedOnce, CreateQueues
    <3>2. Head(client[c].todo) = t /\ t # u
      BY <3>1 DEF Known
    <3>3. CASE remainRunningCount = 0
      <4>1. status' = [status EXCEPT ![t] = "wait"]
        BY <2>2, <3>2, <3>3 DEF CreateQueues
      <4> QED BY <1>0, <3>2, <4>1
    <3>4. CASE remainRunningCount # 0
      <4>1. DoStart(t) /\ TypeOK
        BY <2>2, <3>2, <3>4 DEF CreateQueues, TypeInv
      <4> QED BY <3>2, <4>1, DoStartTypes
    <3> QED BY <3>3, <3>4
  <2>3. CASE PauseSaves(c)
    <3>1. \/ status' = status
          \/ /\ status' = [status EXCEPT ![Victim(c)] = "wait"] /\ status[Victim(c)] = "pause"
      BY <2>3 DEF PauseSaves
    <3> QED BY <1>0, <3>1
  <2>4. CASE PreparePause(c)
    <3>1. status' = status \/ status' = [status EXCEPT ![Victim(c)] = "pause"]
      BY <2>4 DEF PreparePause
    <3> QED BY <1>0, <3>1
  <2>5. CASE ContinueQueues(c)
    <3> DEFINE todo == client[c].todo
               n == NeedRunning(c)
               rest == SubSeq(todo, n + 1, Len(todo))
    <3>1. /\ client[c].pc = "queue" /\ client[c].op = "continue" /\ todo \in Seq(Task)
          /\ status' = [t \in Task |-> IF t \in ToSet(rest) THEN "wait" ELSE status[t]]
      BY <2>5, CallFacts DEF ContinueQueues, HasWork
    <3>2. CASE Len(todo) > MaxRunning
      <4>1. ToSet(todo) \subseteq ToSet(tasks) /\ Running = {}
        BY <1>2, <3>1, <3>2 DEF SoleCall
      <4>2. Len(todo) \in Nat /\ n \in Nat
        BY <3>1 DEF NeedRunning
      <4>3. n + 1 \in Nat /\ n + 1 >= 1 /\ Len(todo) <= Len(todo)
        BY <4>2
      <4> HIDE DEF todo, n
      <4>4. ToSet(SubSeq(todo, n + 1, Len(todo))) \subseteq ToSet(todo)
        BY <3>1, <4>2, <4>3, SubListFacts
      <4>5. u \notin ToSet(rest)
        BY <4>1, <4>4 DEF Running
      <4> HIDE DEF rest
      <4> QED BY <1>0, <3>1, <4>5
    <3>3. CASE ~(Len(todo) > MaxRunning)
      <4>1. Len(todo) \in Nat
        BY <3>1
      <4>2. n = Len(todo)
        <5>1. \/ Len(todo) < MaxRunning /\ n = Len(todo)
              \/ ~(Len(todo) < MaxRunning) /\ n = MaxRunning
          BY DEF NeedRunning
        <5> HIDE DEF n, todo
        <5> QED BY <3>3, <4>1, <5>1
      <4>3. Len(rest) = 0 /\ rest \in Seq(Task)
        <5>1. n + 1 \in Nat /\ n + 1 >= 1 /\ Len(todo) <= Len(todo) /\ ~(n + 1 <= Len(todo))
          BY <4>1, <4>2
        <5> HIDE DEF n, todo
        <5>2. /\ SubSeq(todo, n + 1, Len(todo)) \in Seq(Task)
              /\ Len(SubSeq(todo, n + 1, Len(todo))) =
                   IF n + 1 <= Len(todo) THEN Len(todo) - (n + 1) + 1 ELSE 0
          BY <3>1, <4>1, <5>1, SubListFacts
        <5> QED BY <5>1, <5>2
      <4> HIDE DEF rest
      <4>4. DOMAIN rest = {}
        BY <4>3
      <4>5. u \notin ToSet(rest)
        BY <4>4 DEF ToSet
      <4> QED BY <1>0, <3>1, <4>5
    <3> QED BY <3>2, <3>3
  <2>6. CASE ContinueAllDemotes(c)
    <3>1. /\ client[c].pc = "demote"
          /\ status' = [status EXCEPT ![Head(client[c].todo)] = "wait"]
      BY <2>6 DEF ContinueAllDemotes
    <3>2. status[Head(client[c].todo)] # "running"
      BY <1>2, <3>1 DEF SoleCall
    <3> QED BY <1>0, <3>1, <3>2
  <2>7. CASE ContinueStarts(c)
    <3> DEFINE t == Head(client[c].start)
    <3>1. client[c].start \in Seq(Task) /\ client[c].start # <<>>
      BY <2>7, CallFacts DEF ContinueStarts, HasWork
    <3>2. t \in Task /\ DoStart(t) /\ TypeOK
      BY <2>7, <3>1 DEF ContinueStarts, TypeInv
    <3> HIDE DEF t
    <3> QED BY <3>2, DoStartTypes
  <2>8. CASE HandlePause(c) \/ StopFetcher(c) \/ PauseAllRanges(c) \/ ContinueScans(c)
             \/ ContinueLocks(c) \/ ContinueAllReads(c) \/ ContinueAllUnlocks(c)
             \/ DeleteRemoves(c) \/ DeleteErases(c) \/ DeleteCloses(c)
    <3>1. status' = status
      BY <2>8 DEF HandlePause, StopFetcher, PauseAllRanges, ContinueScans, ContinueLocks,
         ContinueAllReads, ContinueAllUnlocks, DeleteRemoves, DeleteErases, DeleteCloses,
         taskVars
    <3> QED BY <3>1
  <2> QED BY <1>5, <2>1, <2>2, <2>3, <2>4, <2>5, <2>6, <2>7, <2>8 DEF Proceed
<1>6. CASE NotifyRuns
  <2>1. CASE remainRunningCount = 0 \/ waitTasks = <<>>
    BY <1>6, <2>1 DEF NotifyRuns, taskVars
  <2>2. CASE ~(remainRunningCount = 0 \/ waitTasks = <<>>)
    <3> DEFINE t == Head(waitTasks)
    <3>1. DoStart(t) /\ TypeOK
      BY <1>6, <2>2 DEF NotifyRuns, TypeInv
    <3>2. t \in Task
      BY <2>2, ListFacts DEF TypeInv, TypeOK
    <3> HIDE DEF t
    <3> QED BY <3>1, <3>2, DoStartTypes
  <2> QED BY <2>1, <2>2
<1>7. CASE \/ \E s \in starters : Starter(s)
           \/ \E t \in Task : Watcher(t) \/ FetcherEnds(t)
  BY <1>7, OthersStop
<1> QED BY <1>1, <1>3, <1>4, <1>5, <1>6, <1>7 DEF Next

\* With one caller at a time, Continue of any number of tasks pauses every running task
\* before it queues what does not fit, whatever ends or fails while it does, and continueAll
\* queues no running task: no status goes from running to wait behind a download's back.
THEOREM RunningIsNotDemoted == Spec => NeverDemotedWhileRunning
<1> DEFINE Step == OneCaller => \A t \in Task : status[t] = "running" => status'[t] # "wait"
<1>1. Init => TypeInv /\ OpsAreAllowed
  BY InitTypes DEF Init, OpsAreAllowed, Idle
<1>2. Init => SoleInv
  BY DEF Init, SoleInv, SoleCall, Holds, Pausing, Idle
<1>3. TypeInv /\ OpsAreAllowed /\ SoleInv /\ [Next]_vars
        => TypeInv' /\ OpsAreAllowed' /\ SoleInv'
  BY TypeStep, OpsStep, SoleStep
<1>4. TypeInv /\ SoleInv /\ [Next]_vars => [Step]_vars
  BY NotDemoted
<1> QED BY <1>1, <1>2, <1>3, <1>4, PTL DEF Spec, NeverDemotedWhileRunning

-----------------------------------------------------------------------------
(* The quiet states: status and fetcher agree, and no task waits beside a  *)
(* free slot.  Both are about setups without Continue, in which a task is  *)
(* started once: its start handler, its fetcher and its watcher pass it on.*)


\* What every step can count on.
Calm == TypeInv /\ OpsAreAllowed /\ WithoutContinue

Pcs == {"ready", "start", "save", "watch", "failing", "marking", "failed"}

\* Client c has paused task t and is not through with it.
Pauses(c, t) == client[c].pc \in {"pausing", "stopping", "saving"} /\ Victim(c) = t

-----------------------------------------------------------------------------
(* Lists.                                                                  *)

\* Different elements of I have different ranks.
LEMMA RanksDiffer ==
  ASSUME NEW I, IsFiniteSet(I), I \subseteq Nat, NEW n \in I, NEW o \in I, n < o
  PROVE  Cardinality({m \in I : m <= n}) < Cardinality({m \in I : m <= o})
<1> DEFINE A == {m \in I : m <= n}
           B == {m \in I : m <= o}
<1>1. \A m \in I : m \in Int
  OBVIOUS
<1>2. n \in Int /\ o \in Int /\ n < o
  OBVIOUS
<1>3. A \subseteq B /\ o \in B /\ o \notin A
  <2>1. \A m \in I : m <= n => m <= o
    BY <1>1, <1>2
  <2>2. ~(o <= n) /\ o <= o
    BY <1>2
  <2> QED BY <2>1, <2>2
<1>4. IsFiniteSet(A) /\ IsFiniteSet(B)
  BY FS_Subset
<1> HIDE DEF A, B
<1>5. Cardinality(A) <= Cardinality(B) /\ Cardinality(A) # Cardinality(B)
  BY <1>3, <1>4, FS_Subset
<1>6. Cardinality(A) \in Nat /\ Cardinality(B) \in Nat
  BY <1>4, FS_CardinalityType
<1>7. Cardinality(A) < Cardinality(B)
  BY <1>5, <1>6
<1> QED BY <1>7 DEF A, B

\* No entry at a place of I is left out.
LEMMA EntriesAll ==
  ASSUME NEW T, NEW q \in Seq(T), NEW I, I \subseteq DOMAIN q, NEW n \in I
  PROVE  q[n] \in ToSet(Entries(q, I))
<1> DEFINE k == Cardinality(I)
           Rank(o) == Cardinality({m \in I : m <= o})
           at(i) == CHOOSE o \in I : Rank(o) = i
<1>0. Len(q) \in Nat /\ DOMAIN q = 1 .. Len(q)
  OBVIOUS
<1>1. IsFiniteSet(I) /\ I \subseteq Nat /\ k \in Nat
  <2>1. IsFiniteSet(1 .. Len(q))
    BY <1>0, FS_Interval
  <2>2. IsFiniteSet(I)
    BY <1>0, <2>1, FS_Subset
  <2> QED BY <1>0, <2>2, FS_CardinalityType
<1>2. Rank(n) \in 1 .. k
  <2>1. IsFiniteSet({m \in I : m <= n}) /\ Rank(n) <= k /\ n \in {m \in I : m <= n}
    BY <1>1, FS_Subset
  <2>2. Rank(n) \in Nat /\ Rank(n) >= 1
    BY <2>1, HasElement
  <2> HIDE DEF k, Rank
  <2> QED BY <1>1, <2>1, <2>2
<1>3. at(Rank(n)) = n
  <2>1. \A o \in I : Rank(o) = Rank(n) => o = n
    <3> SUFFICES ASSUME NEW o \in I, o # n PROVE Rank(o) # Rank(n)
      OBVIOUS
    <3>1. n \in Int /\ o \in Int
      BY <1>1
    <3>2. CASE n < o
      <4>1. Rank(n) < Rank(o)
        BY <1>1, <3>2, RanksDiffer
      <4>2. Rank(n) \in Nat /\ Rank(o) \in Nat
        BY <1>1, FS_Subset, FS_CardinalityType
      <4> HIDE DEF Rank
      <4> QED BY <4>1, <4>2
    <3>3. CASE o < n
      <4>1. Rank(o) < Rank(n)
        BY <1>1, <3>3, RanksDiffer
      <4>2. Rank(n) \in Nat /\ Rank(o) \in Nat
        BY <1>1, FS_Subset, FS_CardinalityType
      <4> HIDE DEF Rank
      <4> QED BY <4>1, <4>2
    <3> QED BY <3>1, <3>2, <3>3
  <2> HIDE DEF Rank
  <2> QED BY <2>1
<1>4. Entries(q, I) = [i \in 1 .. k |-> q[at(i)]]
  BY DEF Entries
<1> HIDE DEF at, k, Rank
<1>5. Rank(n) \in DOMAIN Entries(q, I) /\ Entries(q, I)[Rank(n)] = q[n]
  BY <1>2, <1>3, <1>4
<1> QED BY <1>5 DEF ToSet

\* What is taken from the head of a list without repetitions does not come again.
LEMMA TailInjective ==
  ASSUME NEW T, NEW q \in Seq(T), q # <<>>, IsInjective(q)
  PROVE  IsInjective(Tail(q)) /\ Head(q) \notin ToSet(Tail(q))
<1>1. /\ Len(q) \in Nat \ {0} /\ Head(q) = q[1] /\ DOMAIN q = 1 .. Len(q)
      /\ DOMAIN Tail(q) = 1 .. Len(q) - 1 /\ \A i \in 1 .. Len(q) - 1 : Tail(q)[i] = q[i + 1]
  OBVIOUS
<1>2. \A i \in 1 .. Len(q) - 1 : i + 1 \in 1 .. Len(q) /\ i + 1 # 1
  BY <1>1
<1>3. 1 \in 1 .. Len(q)
  BY <1>1
<1>4. IsInjective(Tail(q))
  <2> SUFFICES ASSUME NEW i \in 1 .. Len(q) - 1, NEW j \in 1 .. Len(q) - 1,
                      q[i + 1] = q[j + 1]
               PROVE  i = j
    BY <1>1 DEF IsInjective
  <2>1. i + 1 = j + 1
    BY <1>1, <1>2 DEF IsInjective
  <2> QED BY <1>1, <2>1
<1>5. Head(q) \notin ToSet(Tail(q))
  BY <1>1, <1>2, <1>3 DEF IsInjective, ToSet
<1> QED BY <1>4, <1>5

\* Taking the entries of D from a list without repetitions.
LEMMA Removed ==
  ASSUME NEW T, NEW q \in Seq(T), IsInjective(q), NEW D,
         NEW I, I \subseteq DOMAIN q, \A i \in DOMAIN q : i \in I <=> q[i] \notin D
  PROVE  /\ Entries(q, I) \in Seq(T) /\ IsInjective(Entries(q, I))
         /\ ToSet(Entries(q, I)) = ToSet(q) \ D
<1>1. /\ Entries(q, I) \in Seq(T)
      /\ \A i \in DOMAIN Entries(q, I) : \E n \in I : Entries(q, I)[i] = q[n]
      /\ ToSet(Entries(q, I)) \subseteq ToSet(q)
      /\ IsInjective(q) => IsInjective(Entries(q, I))
  BY EntriesOf
<1>2. \A n \in I : q[n] \in ToSet(Entries(q, I))
  BY EntriesAll
<1>3. ToSet(Entries(q, I)) \subseteq ToSet(q) \ D
  BY <1>1 DEF ToSet
<1>4. ToSet(q) \ D \subseteq ToSet(Entries(q, I))
  BY <1>2 DEF ToSet
<1> QED BY <1>1, <1>3, <1>4

\* The first entry of every element of D is the only one.
LEMMA FirstIsOnly ==
  ASSUME NEW T, NEW q \in Seq(T), IsInjective(q), NEW D
  PROVE  {i \in DOMAIN q : q[i] \in D /\ \A j \in 1 .. i - 1 : q[j] # q[i]}
           = {i \in DOMAIN q : q[i] \in D}
<1>1. Len(q) \in Nat /\ DOMAIN q = 1 .. Len(q)
  OBVIOUS
<1>2. \A i \in DOMAIN q : \A j \in 1 .. i - 1 : q[j] # q[i]
  <2> SUFFICES ASSUME NEW i \in DOMAIN q, NEW j \in 1 .. i - 1 PROVE q[j] # q[i]
    OBVIOUS
  <2>1. j \in DOMAIN q /\ j # i
    BY <1>1
  <2> QED BY <2>1 DEF IsInjective
<1> QED BY <1>2

-----------------------------------------------------------------------------
(* What the steps change.                                                  *)

\* Without Continue the call of a client is one of five.
LEMMA CalmCalls ==
  ASSUME Calm, NEW c \in Client
  PROVE  /\ client[c].op \in {"none", "create", "pause", "pauseAll", "delete", "deleteAll"}
         /\ client[c].pc \notin {"lock", "scan", "queue", "each", "demote", "start"}
         /\ Victim(c) = Head(client[c].todo)
         /\ client[c].pc # "idle" /\ client[c].pc # "create" => Items(client[c]) \subseteq Known
         /\ client[c] \in Call /\ HasWork(client[c])
<1>1. client[c] \in Call /\ HasWork(client[c])
  BY CallFacts DEF Calm
<1>2. client[c].op \in {"none", "create", "pause", "pauseAll", "delete", "deleteAll"}
  BY <1>1 DEF Calm, OpsAreAllowed, WithoutContinue, Call, Methods
<1>3. client[c].pc \notin {"lock", "scan", "queue", "each", "demote", "start"}
  BY <1>1, <1>2 DEF HasWork
<1> QED BY <1>1, <1>2, <1>3, CallFacts DEF Victim, Calm

LEMMA KindsStep ==
  ASSUME TypeInv, [Next]_vars
  PROVE  budget'.kinds = budget.kinds
<1>0. budget \in Setup
  BY DEF TypeInv, TypeOK
<1>1. ASSUME NEW op, Calls(op) PROVE budget'.kinds = budget.kinds
  BY <1>0, <1>1 DEF Calls, Setup
<1>2. ASSUME NEW kind, Fault(kind) PROVE budget'.kinds = budget.kinds
  BY <1>0, <1>2 DEF Fault, Setup
<1>3. ASSUME NEW c, NewCall(c) PROVE budget'.kinds = budget.kinds
  BY <1>1, <1>3 DEF NewCall, CreateStores, CallPauseAll, CallContinueAll, CallDeleteAll,
     CallPause, CallContinue, CallContinueBatch, CallDelete
<1>4. ASSUME NEW c \in Client, Proceed(c) PROVE budget'.kinds = budget.kinds
  BY <1>4, CallGoesOn
<1>5. ASSUME NEW s \in starters, Starter(s) PROVE budget'.kinds = budget.kinds
  BY <1>2, <1>5 DEF Starter, StarterLocks, StarterChecks, StarterCannotResolve, StarterStarts,
     StarterSaves, StarterWatches, StarterFails, StarterMarksError, StarterNotifies
<1>6. ASSUME NEW t \in Task, Watcher(t) \/ FetcherEnds(t) PROVE budget'.kinds = budget.kinds
  BY <1>2, <1>6 DEF Watcher, WatcherReceives, WatcherFails, WatcherMarksError, WatcherNotifies,
     WatcherRechecks, WatcherMarksDone, WatcherFinishes, WatcherLeaves, FetcherEnds
<1> QED BY <1>3, <1>4, <1>5, <1>6 DEF Next, NotifyRuns, vars

\* What a start handler touches is its task's.
LEMMA StarterEffect ==
  ASSUME TypeInv, NEW s \in starters, Starter(s)
  PROVE  /\ tasks' = tasks /\ waitTasks' = waitTasks /\ client' = client
         /\ s \in Starters /\ s.t \in Task
         /\ \A u \in Task \ {s.t} :
              /\ status'[u] = status[u] /\ gen'[u] = gen[u] /\ tlock'[u] = tlock[u]
              /\ watcher'[u] = watcher[u] /\ fet'[u] = fet[u] /\ doneCh'[u] = doneCh[u]
         /\ \/ status'[s.t] = status[s.t]
            \/ status[s.t] = "running" /\ status'[s.t] = "error"
         /\ StarterEnds(s) \/ \E pc \in Pcs : StarterBecomes(s, pc)
<1> USE DEF Pcs
<1>0. /\ s \in Starters /\ s.t \in Task /\ status \in [Task -> Status] /\ gen \in [Task -> Nat]
      /\ tlock \in [Task -> BOOLEAN] /\ DOMAIN watcher = Task /\ DOMAIN fet = Task
      /\ DOMAIN doneCh = Task
  BY DEF TypeInv, TypeOK, Starters
<1>1. CASE StarterMarksError(s)
  <2>1. CASE status[s.t] = "running"
    BY <1>0, <1>1, <2>1 DEF StarterMarksError, MarkError
  <2>2. CASE status[s.t] # "running"
    BY <1>0, <1>1, <2>2 DEF StarterMarksError
  <2> QED BY <2>1, <2>2
<1>2. CASE StarterLocks(s)
  BY <1>0, <1>2 DEF StarterLocks
<1>3. CASE StarterChecks(s)
  BY <1>0, <1>3 DEF StarterChecks
<1>4. CASE StarterCannotResolve(s)
  BY <1>0, <1>4 DEF StarterCannotResolve
<1>5. CASE StarterStarts(s)
  BY <1>0, <1>5 DEF StarterStarts
<1>6. CASE StarterSaves(s)
  BY <1>0, <1>6 DEF StarterSaves
<1>7. CASE StarterWatches(s)
  BY <1>0, <1>7 DEF StarterWatches
<1>8. CASE StarterFails(s)
  BY <1>0, <1>8 DEF StarterFails
<1>9. CASE StarterNotifies(s)
  BY <1>0, <1>9 DEF StarterNotifies
<1> QED BY <1>1, <1>2, <1>3, <1>4, <1>5, <1>6, <1>7, <1>8, <1>9 DEF Starter

\* A handler that moves or ends is the only one of its task before and after.
LEMMA HandlersAfter ==
  ASSUME TypeInv, NEW s \in starters, \A q, r \in starters : q.t = r.t => q = r
  PROVE  /\ Handlers(s.t) = {s}
         /\ StarterEnds(s) =>
              /\ Handlers(s.t)' = {}
              /\ \A u \in Task \ {s.t} : Handlers(u)' = Handlers(u)
              /\ \A r \in starters' : r \in starters /\ r.t # s.t
              /\ \A q, r \in starters' : q.t = r.t => q = r
         /\ \A pc \in Pcs : StarterBecomes(s, pc) =>
              /\ \E n \in starters' : /\ n.t = s.t /\ n.g = s.g /\ n.pc = pc
                                      /\ Handlers(s.t)' = {n}
              /\ \A u \in Task \ {s.t} : Handlers(u)' = Handlers(u)
              /\ \A q, r \in starters' : q.t = r.t => q = r
              /\ \A r \in starters' : (r.t = s.t /\ r.pc = pc) \/ (r \in starters /\ r.t # s.t)
<1>0. s \in Starters
  BY DEF TypeInv, TypeOK
<1>1. \A pc \in Pcs : /\ [s EXCEPT !.pc = pc].t = s.t /\ [s EXCEPT !.pc = pc].g = s.g
                      /\ [s EXCEPT !.pc = pc].pc = pc
  BY <1>0 DEF Starters
<1>2. Handlers(s.t) = {s}
  BY DEF Handlers
<1>3. ASSUME StarterEnds(s)
      PROVE  /\ Handlers(s.t)' = {}
             /\ \A u \in Task \ {s.t} : Handlers(u)' = Handlers(u)
             /\ \A r \in starters' : r \in starters /\ r.t # s.t
             /\ \A q, r \in starters' : q.t = r.t => q = r
  <2>1. starters' = starters \ {s}
    BY <1>3 DEF StarterEnds
  <2> QED BY <2>1 DEF Handlers
<1>4. ASSUME NEW pc \in Pcs, StarterBecomes(s, pc)
      PROVE  /\ \E n \in starters' : /\ n.t = s.t /\ n.g = s.g /\ n.pc = pc
                                     /\ Handlers(s.t)' = {n}
             /\ \A u \in Task \ {s.t} : Handlers(u)' = Handlers(u)
             /\ \A q, r \in starters' : q.t = r.t => q = r
             /\ \A r \in starters' : (r.t = s.t /\ r.pc = pc) \/ (r \in starters /\ r.t # s.t)
  <2> DEFINE n == [s EXCEPT !.pc = pc]
  <2>1. starters' = (starters \ {s}) \cup {n} /\ n.t = s.t /\ n.g = s.g /\ n.pc = pc
    BY <1>1, <1>4 DEF StarterBecomes
  <2> HIDE DEF n
  <2>2. Handlers(s.t)' = {n} /\ \A u \in Task \ {s.t} : Handlers(u)' = Handlers(u)
    BY <2>1 DEF Handlers
  <2>3. \A r \in starters' : r = n \/ (r \in starters /\ r.t # s.t)
    BY <2>1
  <2> QED BY <2>1, <2>2, <2>3
<1> QED BY <1>2, <1>3, <1>4

\* Whether it has task.lock depends on where it is.
LEMMA LockEffect ==
  ASSUME TypeInv, NEW s \in starters, Starter(s)
  PROVE  \/ /\ s.pc \notin Locked /\ ~tlock[s.t] /\ tlock'[s.t]
            /\ \E pc \in Pcs \cap Locked : StarterBecomes(s, pc)
         \/ /\ s.pc \in Locked /\ tlock'[s.t] = tlock[s.t]
            /\ \E pc \in Pcs \cap Locked : StarterBecomes(s, pc)
         \/ /\ s.pc \in Locked
            /\ StarterEnds(s) \/ \E pc \in Pcs \ Locked : StarterBecomes(s, pc)
         \/ /\ s.pc \notin Locked /\ tlock'[s.t] = tlock[s.t]
            /\ StarterEnds(s) \/ \E pc \in Pcs \ Locked : StarterBecomes(s, pc)
<1> USE DEF Pcs, Locked
<1>0. s.t \in Task /\ tlock \in [Task -> BOOLEAN]
  BY DEF TypeInv, TypeOK, Starters
<1>1. CASE StarterLocks(s)
  BY <1>0, <1>1 DEF StarterLocks
<1>2. CASE StarterChecks(s)
  BY <1>0, <1>2 DEF StarterChecks
<1>3. CASE StarterCannotResolve(s)
  BY <1>0, <1>3 DEF StarterCannotResolve
<1>4. CASE StarterStarts(s)
  BY <1>0, <1>4 DEF StarterStarts
<1>5. CASE StarterSaves(s)
  BY <1>0, <1>5 DEF StarterSaves
<1>6. CASE StarterWatches(s) \/ StarterFails(s) \/ StarterMarksError(s) \/ StarterNotifies(s)
  BY <1>6 DEF StarterWatches, StarterFails, StarterMarksError, StarterNotifies
<1> QED BY <1>1, <1>2, <1>3, <1>4, <1>5, <1>6 DEF Starter

\* What a watcher and a download touch is their task's, which has been started.
LEMMA WatcherEffect ==
  ASSUME TypeInv, NEW t \in Task, Watcher(t) \/ FetcherEnds(t)
  PROVE  /\ tasks' = tasks /\ waitTasks' = waitTasks /\ client' = client
         /\ starters' = starters /\ tlock' = tlock
         /\ \A u \in Task \ {t} :
              /\ status'[u] = status[u] /\ gen'[u] = gen[u] /\ watcher'[u] = watcher[u]
              /\ fet'[u] = fet[u] /\ doneCh'[u] = doneCh[u]
         /\ watcher[t] # "none" \/ fet[t] = "running"
<1> USE DEF WatcherBecomes, taskVars
<1>0. /\ DOMAIN status = Task /\ DOMAIN gen = Task /\ DOMAIN watcher = Task /\ DOMAIN fet = Task
      /\ DOMAIN doneCh = Task
  BY DEF TypeInv, TypeOK
<1>1. CASE WatcherReceives(t)
  BY <1>0, <1>1 DEF WatcherReceives
<1>2. CASE WatcherFails(t)
  BY <1>0, <1>2 DEF WatcherFails
<1>3. CASE WatcherMarksError(t)
  <2>1. CASE status[t] = "running"
    BY <1>0, <1>3, <2>1 DEF WatcherMarksError, MarkError
  <2>2. CASE status[t] # "running"
    BY <1>0, <1>3, <2>2 DEF WatcherMarksError
  <2> QED BY <2>1, <2>2
<1>4. CASE WatcherNotifies(t)
  BY <1>0, <1>4 DEF WatcherNotifies
<1>5. CASE WatcherRechecks(t)
  BY <1>0, <1>5 DEF WatcherRechecks
<1>6. CASE WatcherMarksDone(t)
  BY <1>0, <1>6 DEF WatcherMarksDone
<1>7. CASE WatcherFinishes(t)
  BY <1>0, <1>7 DEF WatcherFinishes
<1>8. CASE WatcherLeaves(t)
  BY <1>0, <1>8 DEF WatcherLeaves
<1>9. CASE FetcherEnds(t)
  BY <1>0, <1>9 DEF FetcherEnds
<1> QED BY <1>1, <1>2, <1>3, <1>4, <1>5, <1>6, <1>7, <1>8, <1>9 DEF Watcher

\* doStart of a task that has not been started gives it its start handler.
LEMMA StartEffect ==
  ASSUME TypeInv, NEW t \in Task, Unstarted(t), DoStart(t)
  PROVE  /\ status'[t] = "running"
         /\ \A u \in Task \ {t} : /\ status'[u] = status[u] /\ gen'[u] = gen[u]
                                  /\ Handlers(u)' = Handlers(u)
         /\ \A s \in starters' : s \in starters \/ (s.t = t /\ s.pc = "queued")
         /\ \E n \in starters' : /\ n.t = t /\ n.g = gen'[t] /\ n.pc = "queued"
                                 /\ Handlers(t)' = {n}
<1> DEFINE n == [t |-> t, g |-> gen[t] + 1, create |-> status[t] = "ready", pc |-> "queued"]
<1>0. DOMAIN status = Task /\ DOMAIN gen = Task
  BY DEF TypeInv, TypeOK
<1>1. /\ status' = [status EXCEPT ![t] = "running"] /\ gen' = [gen EXCEPT ![t] = @ + 1]
      /\ starters' = starters \cup {n}
  BY DEF DoStart, Unstarted
<1>2. n.t = t /\ n.g = gen[t] + 1 /\ n.pc = "queued"
  OBVIOUS
<1> HIDE DEF n
<1>3. gen'[t] = gen[t] + 1 /\ status'[t] = "running"
  BY <1>0, <1>1
<1>4. Handlers(t)' = {n} /\ \A u \in Task \ {t} : Handlers(u)' = Handlers(u)
  BY <1>1, <1>2 DEF Handlers, Unstarted
<1>5. \A u \in Task \ {t} : status'[u] = status[u] /\ gen'[u] = gen[u]
  BY <1>0, <1>1
<1>6. n \in starters' /\ \A s \in starters' : s \in starters \/ s = n
  BY <1>1
<1> QED BY <1>2, <1>3, <1>4, <1>5, <1>6

\* A client that is through with its victim goes on to the next or returns.
LEMMA OnwardCalm ==
  ASSUME Calm, NEW c \in Client, NEW queued \in BOOLEAN,
         client[c].pc \in {"prepare", "pausing", "stopping", "saving"}
  PROVE  /\ Victim(c) \in Task /\ Victim(c) \in Known
         /\ \/ Onward(c, queued) = Idle
            \/ Onward(c, queued).pc = "prepare" /\ Onward(c, queued).op = client[c].op
<1>1. client[c] \in Call /\ client[c].op # "continue"
  BY CalmCalls
<1>2. Victim(c) \in Task /\ Victim(c) \in Known
  BY OnwardTypes DEF Calm
<1>3. [client[c] EXCEPT !.todo = Tail(@), !.pc = "prepare"].pc = "prepare"
  BY <1>1 DEF Call
<1>4. [client[c] EXCEPT !.todo = Tail(@), !.pc = "prepare"].op = client[c].op
  BY <1>1 DEF Call
<1>5. \/ Onward(c, queued) = [client[c] EXCEPT !.todo = Tail(@), !.pc = "prepare"]
      \/ Onward(c, queued) = Idle
  BY <1>1 DEF Onward
<1> QED BY <1>2, <1>3, <1>4, <1>5

-----------------------------------------------------------------------------
(* A task is started once, and task.lock is held by one.                   *)

\* A list of tasks all of which are in the list of tasks before and after.
LEMMA UnstartedKept ==
  ASSUME NEW t \in Task, Unstarted(t), status'[t] = status[t], watcher'[t] = watcher[t],
         doneCh'[t] = doneCh[t], fet'[t] = fet[t] \/ fet'[t] = "paused",
         Handlers(t)' = Handlers(t)
  PROVE  Unstarted(t)'
BY DEF Unstarted

LEMMA OnceStarter ==
  ASSUME Calm, StartedOnce, LocksAreHeld, NEW s \in starters, Starter(s)
  PROVE  StartedOnce' /\ LocksAreHeld'
<1>0. TypeInv /\ \A q, r \in starters : q.t = r.t => q = r
  BY DEF Calm, StartedOnce
<1>1. /\ tasks' = tasks /\ waitTasks' = waitTasks /\ client' = client
      /\ s \in Starters /\ s.t \in Task
      /\ \A u \in Task \ {s.t} :
           /\ status'[u] = status[u] /\ gen'[u] = gen[u] /\ tlock'[u] = tlock[u]
           /\ watcher'[u] = watcher[u] /\ fet'[u] = fet[u] /\ doneCh'[u] = doneCh[u]
      /\ \/ status'[s.t] = status[s.t]
         \/ status[s.t] = "running" /\ status'[s.t] = "error"
      /\ StarterEnds(s) \/ \E pc \in Pcs : StarterBecomes(s, pc)
  BY <1>0, StarterEffect
<1>2. /\ Handlers(s.t) = {s}
      /\ \A u \in Task \ {s.t} : Handlers(u)' = Handlers(u)
      /\ \A q, r \in starters' : q.t = r.t => q = r
  BY <1>0, <1>1, HandlersAfter
<1>3. StartedOnce'
  <2>1. status[s.t] \notin {"ready", "wait"} /\ s.t \notin ToSet(waitTasks)
    BY <1>1, <1>2 DEF StartedOnce, Unstarted
  <2>2. ASSUME NEW t \in Task, status'[t] \in {"ready", "wait"} \/ t \in ToSet(waitTasks)
        PROVE  Unstarted(t)'
    <3>1. t # s.t
      BY <1>1, <2>1, <2>2
    <3> QED BY <1>1, <1>2, <2>2, <3>1, UnstartedKept DEF StartedOnce
  <2> QED BY <1>1, <1>2, <2>2 DEF StartedOnce
<1>4. LocksAreHeld'
  <2>1. ASSUME NEW c \in Client
        PROVE  /\ Stopping(c)' <=> Stopping(c)
               /\ Victim(c)' = Victim(c)
               /\ Stopping(c) => Victim(c) \in Task
    <3>1. Stopping(c) => client[c].pc \in {"scan", "prepare", "pausing", "stopping", "saving"}
      BY DEF Stopping
    <3> QED BY <1>0, <1>1, <3>1, OnwardTypes DEF Victim, Stopping
  <2>2. ASSUME NEW r \in starters', r.pc \in Locked
        PROVE  tlock'[r.t]
    <3>1. CASE r \in starters /\ r.t # s.t
      <4>1. r.t \in Task
        BY <1>0, <3>1 DEF TypeInv, TypeOK, Starters
      <4> QED BY <1>1, <2>2, <3>1, <4>1 DEF LocksAreHeld
    <3>2. CASE ~(r \in starters /\ r.t # s.t)
      <4>1. r.t = s.t
        BY <1>0, <1>1, <3>2, HandlersAfter
      <4>2. ASSUME StarterEnds(s) \/ \E pc \in Pcs \ Locked : StarterBecomes(s, pc)
            PROVE  FALSE
        BY <1>0, <2>2, <3>2, <4>2, HandlersAfter
      <4>3. tlock'[s.t] \/ (s.pc \in Locked /\ tlock'[s.t] = tlock[s.t])
        BY <1>0, <4>2, LockEffect
      <4> QED BY <4>1, <4>3 DEF LocksAreHeld
    <3> QED BY <3>1, <3>2
  <2>3. ASSUME NEW c \in Client, Stopping(c), NEW t, t = Victim(c)
        PROVE  /\ tlock'[t]
               /\ \A r \in Handlers(t)' : r.pc \notin Locked
    <3>1. /\ tlock[t] /\ \A r \in Handlers(t) : r.pc \notin Locked
          /\ t \in Task
      BY <2>1, <2>3 DEF LocksAreHeld
    <3>2. CASE t # s.t
      BY <1>1, <1>2, <3>1, <3>2
    <3>3. CASE t = s.t
      <4>1. s.pc \notin Locked /\ tlock[s.t]
        BY <1>2, <3>1, <3>3
      <4>2. /\ tlock'[s.t] = tlock[s.t]
            /\ StarterEnds(s) \/ \E pc \in Pcs \ Locked : StarterBecomes(s, pc)
        BY <1>0, <4>1, LockEffect
      <4>3. ASSUME NEW r \in Handlers(s.t)'
            PROVE  r.pc \notin Locked
        BY <1>0, <4>2, HandlersAfter
      <4> QED BY <3>3, <4>1, <4>2, <4>3
    <3> QED BY <3>2, <3>3
  <2>4. ASSUME NEW c \in Client, Stopping(c)'
        PROVE  /\ tlock'[Victim(c)']
               /\ \A r \in Handlers(Victim(c))' : r.pc \notin Locked
               /\ \A d \in Client \ {c} : Stopping(d)' => Victim(d)' # Victim(c)'
    BY <2>1, <2>3, <2>4 DEF LocksAreHeld, Handlers
  <2> QED BY <2>2, <2>4 DEF LocksAreHeld
<1> QED BY <1>3, <1>4

\* Lists are cut short, tasks and fetchers at most paused.
LEMMA OnceKept ==
  ASSUME StartedOnce, starters' = starters, watcher' = watcher, doneCh' = doneCh,
         IsInjective(waitTasks'), ToSet(waitTasks') \subseteq ToSet(waitTasks),
         ToSet(waitTasks') \subseteq ToSet(tasks'),
         \A t \in Task : /\ status'[t] \in {status[t], "pause"}
                         /\ fet'[t] \in {fet[t], "paused"}
  PROVE  StartedOnce'
<1>1. \A t \in Task : Unstarted(t) => Unstarted(t)'
  BY DEF Unstarted, Handlers
<1>2. \A t \in Task : status'[t] \in {"ready", "wait"} => status'[t] = status[t]
  OBVIOUS
<1> QED BY <1>1, <1>2 DEF StartedOnce

\* Nobody takes a task.lock, and who pauses goes on with the same task or is through.
LEMMA LocksKept ==
  ASSUME LocksAreHeld, tlock' = tlock,
         \A s \in starters' : s.pc \in Locked => s \in starters,
         \A c \in Client : Stopping(c)' => Stopping(c) /\ Victim(c)' = Victim(c)
  PROVE  LocksAreHeld'
<1>1. \A s \in starters' : s.pc \in Locked => tlock'[s.t]
  BY DEF LocksAreHeld
<1>2. ASSUME NEW c \in Client, Stopping(c)', NEW t, t = Victim(c)
      PROVE  /\ tlock'[t] /\ \A s \in Handlers(t)' : s.pc \notin Locked
             /\ \A d \in Client \ {c} : Stopping(d)' => Victim(d)' # t
  <2>1. /\ tlock[t] /\ \A s \in Handlers(t) : s.pc \notin Locked
        /\ \A d \in Client \ {c} : Stopping(d) => Victim(d) # t
    BY <1>2 DEF LocksAreHeld
  <2>2. tlock'[t] /\ \A d \in Client \ {c} : Stopping(d)' => Victim(d)' # t
    BY <2>1
  <2>3. \A s \in Handlers(t)' : s.pc \notin Locked
    BY <2>1 DEF Handlers
  <2> QED BY <2>2, <2>3
<1>3. ASSUME NEW c \in Client, Stopping(c)'
      PROVE  /\ tlock'[Victim(c)'] /\ \A s \in Handlers(Victim(c))' : s.pc \notin Locked
             /\ \A d \in Client \ {c} : Stopping(d)' => Victim(d)' # Victim(c)'
  BY <1>2, <1>3 DEF Handlers
<1> QED BY <1>1, <1>3 DEF LocksAreHeld

\* A task that is in no queue any more is started.
LEMMA OnceStarts ==
  ASSUME TypeInv, StartedOnce, NEW t \in Task, Unstarted(t), DoStart(t),
         watcher' = watcher, doneCh' = doneCh, fet' = fet,
         IsInjective(waitTasks'), ToSet(waitTasks') \subseteq ToSet(waitTasks) \ {t},
         ToSet(waitTasks') \subseteq ToSet(tasks')
  PROVE  StartedOnce'
<1>1. /\ status'[t] = "running"
      /\ \A u \in Task \ {t} : status'[u] = status[u] /\ Handlers(u)' = Handlers(u)
      /\ \A s \in starters' : s \in starters \/ s.t = t
      /\ \E n : Handlers(t)' = {n}
  <2>1. /\ status'[t] = "running"
        /\ \A u \in Task \ {t} : /\ status'[u] = status[u] /\ gen'[u] = gen[u]
                                 /\ Handlers(u)' = Handlers(u)
        /\ \A s \in starters' : s \in starters \/ (s.t = t /\ s.pc = "queued")
        /\ \E n \in starters' : /\ n.t = t /\ n.g = gen'[t] /\ n.pc = "queued"
                                /\ Handlers(t)' = {n}
    BY StartEffect
  <2> QED BY <2>1
<1>2. \A u \in Task \ {t} : Unstarted(u) => Unstarted(u)'
  BY <1>1 DEF Unstarted
<1>3. ASSUME NEW u \in Task, status'[u] \in {"ready", "wait"} \/ u \in ToSet(waitTasks')
      PROVE  Unstarted(u)'
  <2>1. u # t
    BY <1>1, <1>3
  <2> QED BY <1>1, <1>2, <1>3, <2>1 DEF StartedOnce
<1>4. ASSUME NEW r \in starters', NEW s \in starters', r.t = s.t
      PROVE  r = s
  <2>1. CASE r.t = t
    <3>1. PICK n : Handlers(t)' = {n}
      BY <1>1
    <3>2. r \in Handlers(t)' /\ s \in Handlers(t)'
      BY <1>4, <2>1 DEF Handlers
    <3> QED BY <3>1, <3>2
  <2>2. CASE r.t # t
    BY <1>1, <1>4, <2>2 DEF StartedOnce
  <2> QED BY <2>1, <2>2
<1> QED BY <1>3, <1>4 DEF StartedOnce

LEMMA OnceWatcher ==
  ASSUME Calm, StartedOnce, LocksAreHeld, NEW t \in Task, Watcher(t) \/ FetcherEnds(t)
  PROVE  StartedOnce' /\ LocksAreHeld'
<1>0. TypeInv
  BY DEF Calm
<1>1. /\ tasks' = tasks /\ waitTasks' = waitTasks /\ client' = client
      /\ starters' = starters /\ tlock' = tlock
      /\ \A u \in Task \ {t} :
           /\ status'[u] = status[u] /\ gen'[u] = gen[u] /\ watcher'[u] = watcher[u]
           /\ fet'[u] = fet[u] /\ doneCh'[u] = doneCh[u]
      /\ watcher[t] # "none" \/ fet[t] = "running"
  BY <1>0, WatcherEffect
<1>2. \/ status'[t] = status[t]
      \/ status[t] = "running" /\ status'[t] \in {"error", "done"}
  BY <1>0, OthersStop
<1>3. LocksAreHeld'
  BY <1>1, LocksKept DEF Stopping, Victim
<1>4. ~Unstarted(t)
  BY <1>1 DEF Unstarted
<1>5. \A u \in Task \ {t} : Unstarted(u) => Unstarted(u)'
  BY <1>1 DEF Unstarted, Handlers
<1>6. ASSUME NEW u \in Task, status'[u] \in {"ready", "wait"} \/ u \in ToSet(waitTasks)
      PROVE  Unstarted(u)'
  <2>1. u # t
    BY <1>2, <1>4, <1>6 DEF StartedOnce
  <2> QED BY <1>1, <1>5, <1>6, <2>1 DEF StartedOnce
<1> QED BY <1>1, <1>3, <1>6 DEF StartedOnce

LEMMA OnceNotify ==
  ASSUME Calm, StartedOnce, LocksAreHeld, NotifyRuns
  PROVE  StartedOnce' /\ LocksAreHeld'
<1>0. /\ TypeInv /\ waitTasks \in Seq(Task) /\ client' = client /\ tlock' = tlock
      /\ tasks' = tasks /\ watcher' = watcher /\ doneCh' = doneCh /\ fet' = fet
  BY DEF Calm, TypeInv, TypeOK, NotifyRuns
<1>a. \A c \in Client : Stopping(c)' => Stopping(c) /\ Victim(c)' = Victim(c)
  BY <1>0 DEF Stopping, Victim
<1>1. CASE remainRunningCount = 0 \/ waitTasks = <<>>
  <2>1. status' = status /\ starters' = starters /\ waitTasks' = waitTasks
    BY <1>1 DEF NotifyRuns, taskVars
  <2> QED BY <1>0, <1>a, <2>1, OnceKept, LocksKept DEF StartedOnce
<1>2. CASE ~(remainRunningCount = 0 \/ waitTasks = <<>>)
  <2>0. PICK t : t = Head(waitTasks)
    OBVIOUS
  <2>1. waitTasks' = Tail(waitTasks) /\ DoStart(t)
    BY <1>2, <2>0 DEF NotifyRuns
  <2>2. /\ t \in ToSet(waitTasks) /\ t \in Task
        /\ ToSet(waitTasks') \subseteq ToSet(waitTasks)
    BY <1>0, <1>2, <2>0, <2>1, ListFacts
  <2>3. IsInjective(waitTasks') /\ t \notin ToSet(waitTasks')
    BY <1>0, <1>2, <2>0, <2>1, TailInjective DEF StartedOnce
  <2>4. Unstarted(t)
    BY <2>2 DEF StartedOnce
  <2>5. StartedOnce'
    <3>1. ToSet(waitTasks') \subseteq ToSet(waitTasks) \ {t} /\ ToSet(waitTasks') \subseteq ToSet(tasks')
      BY <1>0, <2>2, <2>3 DEF StartedOnce
    <3> QED BY <1>0, <2>1, <2>2, <2>3, <2>4, <3>1, OnceStarts
  <2>6. \A s \in starters' : s.pc \in Locked => s \in starters
    BY <1>0, <2>1, <2>2, <2>4, StartEffect DEF Locked
  <2> QED BY <1>0, <1>a, <2>5, <2>6, LocksKept
<1> QED BY <1>1, <1>2

-----------------------------------------------------------------------------
(* The same for the steps of clients.                                      *)

\* A call that begins changes no task, and empties both lists if it deletes all.
LEMMA BeginEffect ==
  ASSUME TypeInv, NEW c \in Client, NewCall(c)
  PROVE  /\ UNCHANGED <<status, gen, starters, tlock, watcher, fet, doneCh, notifies>>
         /\ \/ tasks' = tasks /\ waitTasks' \in {waitTasks, <<>>}
            \/ tasks' = <<>> /\ waitTasks' = <<>>
         /\ client'[c].pc \notin {"pausing", "stopping", "saving", "idle"}
         /\ client'[c].pc \in {"erase", "close"} => tasks' = <<>>
         /\ client'[c].pc = "prepare" => client'[c].op = "pause"
         /\ client[c].pc = "idle" /\ \A d \in Client \ {c} : client'[d] = client[d]
<1> DEFINE Goal ==
      /\ UNCHANGED <<status, gen, starters, tlock, watcher, fet, doneCh, notifies>>
      /\ client'[c].pc \notin {"pausing", "stopping", "saving", "idle"}
<1> USE DEF taskVars, Idle
<1>0. /\ client \in [Client -> Call]
      /\ client[c].pc = "idle" /\ \A d \in Client \ {c} : client'[d] = client[d]
  BY CallBegins DEF TypeInv, TypeOK
<1>1. ASSUME NEW t \in Task, CreateStores(c, t)
      PROVE  Goal /\ client'[c].pc = "create" /\ tasks' = tasks /\ waitTasks' = waitTasks
  BY <1>0, <1>1 DEF CreateStores, Moves
<1>2. ASSUME CallPauseAll(c)
      PROVE  Goal /\ client'[c].pc = "range" /\ tasks' = tasks /\ waitTasks' = <<>>
  BY <1>0, <1>2 DEF CallPauseAll, Moves
<1>3. ASSUME CallContinueAll(c)
      PROVE  Goal /\ client'[c].pc = "each" /\ tasks' = tasks /\ waitTasks' = waitTasks
  BY <1>0, <1>3 DEF CallContinueAll, Moves
<1>4. ASSUME CallDeleteAll(c)
      PROVE  Goal /\ client'[c].pc = "erase" /\ tasks' = <<>> /\ waitTasks' = <<>>
  BY <1>0, <1>4 DEF CallDeleteAll, Moves
<1>5. ASSUME NEW S \in SUBSET Task, CallPause(c, S)
      PROVE  /\ Goal /\ tasks' = tasks /\ waitTasks' = waitTasks
             /\ client'[c].pc = "prepare" /\ client'[c].op = "pause"
  BY <1>0, <1>5 DEF CallPause, Moves
<1>6. ASSUME NEW S \in SUBSET Task, CallContinue(c, S)
      PROVE  Goal /\ client'[c].pc = "lock" /\ tasks' = tasks /\ waitTasks' = waitTasks
  BY <1>0, <1>6 DEF CallContinue, Moves
<1>7. ASSUME NEW S \in SUBSET Task, CallContinueBatch(c, S)
      PROVE  Goal /\ client'[c].pc = "start" /\ tasks' = tasks /\ waitTasks' = waitTasks
  BY <1>0, <1>7 DEF CallContinueBatch, Moves
<1>8. ASSUME NEW S \in SUBSET Task, CallDelete(c, S)
      PROVE  Goal /\ client'[c].pc = "remove" /\ tasks' = tasks /\ waitTasks' = waitTasks
  BY <1>0, <1>8 DEF CallDelete, Moves
<1> QED BY <1>0, <1>1, <1>2, <1>3, <1>4, <1>5, <1>6, <1>7, <1>8 DEF NewCall

LEMMA OnceBegins ==
  ASSUME TypeInv, StartedOnce, DeletedIsGone, LocksAreHeld, NEW c \in Client, NewCall(c)
  PROVE  StartedOnce' /\ DeletedIsGone' /\ LocksAreHeld'
<1>1. /\ UNCHANGED <<status, starters, tlock, watcher, fet, doneCh>>
      /\ \/ tasks' = tasks /\ waitTasks' \in {waitTasks, <<>>}
         \/ tasks' = <<>> /\ waitTasks' = <<>>
      /\ client'[c].pc \notin {"pausing", "stopping", "saving", "idle"}
      /\ client'[c].pc \in {"erase", "close"} => tasks' = <<>>
      /\ \A d \in Client \ {c} : client'[d] = client[d]
  BY BeginEffect
<1>2. ToSet(<<>>) = {} /\ IsInjective(<<>>)
  BY DEF ToSet, IsInjective
<1>3. /\ ToSet(waitTasks') \subseteq ToSet(waitTasks) /\ IsInjective(waitTasks')
      /\ ToSet(waitTasks') \subseteq ToSet(tasks') /\ ToSet(tasks') \subseteq ToSet(tasks)
  <2>1. CASE tasks' = tasks /\ waitTasks' = waitTasks
    BY <2>1 DEF StartedOnce
  <2>2. CASE tasks' \in {tasks, <<>>} /\ waitTasks' = <<>>
    BY <1>2, <2>2
  <2> QED BY <1>1, <2>1, <2>2
<1>4. StartedOnce'
  BY <1>1, <1>3, OnceKept
<1>5. LocksAreHeld'
  <2>1. \A d \in Client : Stopping(d)' => Stopping(d) /\ Victim(d)' = Victim(d)
    BY <1>1 DEF Stopping, Victim
  <2> QED BY <1>1, <2>1, LocksKept
<1>6. DeletedIsGone'
  BY <1>1, <1>2, <1>3 DEF DeletedIsGone
<1> QED BY <1>4, <1>5, <1>6

\* Without Continue a call that goes on takes one of nine steps.
LEMMA CalmProceed ==
  ASSUME Calm, NEW c \in Client, Proceed(c)
  PROVE  \/ CreateQueues(c) \/ PreparePause(c) \/ HandlePause(c) \/ StopFetcher(c)
         \/ PauseSaves(c) \/ PauseAllRanges(c)
         \/ DeleteRemoves(c) \/ DeleteErases(c) \/ DeleteCloses(c)
<1>1. client[c].pc \notin {"lock", "scan", "queue", "each", "demote", "start"}
  BY CalmCalls
<1> QED BY <1>1 DEF Proceed, ContinueLocks, ContinueScans, ContinueQueues, ContinueStarts,
        ContinueAllReads, ContinueAllDemotes, ContinueAllUnlocks

\* Where a client is after its step.
LEMMA ProceedPlace ==
  ASSUME Calm, NEW c \in Client
  PROVE  /\ CreateQueues(c) => client'[c] = Idle
         /\ PreparePause(c) => \/ client'[c].pc \in {"idle", "prepare"}
                               \/ /\ client'[c].pc = "pausing" /\ Victim(c)' = Victim(c)
                                  /\ client'[c].op = client[c].op
         /\ HandlePause(c) => \/ client'[c].pc \in {"idle", "prepare"}
                              \/ /\ client'[c].pc = "stopping" /\ Victim(c)' = Victim(c)
                                 /\ client'[c].op = client[c].op
         /\ StopFetcher(c) => /\ client'[c].pc = "saving" /\ Victim(c)' = Victim(c)
                              /\ client'[c].op = client[c].op
         /\ PauseSaves(c) => client'[c].pc \in {"idle", "prepare"}
         /\ PauseAllRanges(c) => client'[c].pc \in {"idle", "prepare"}
         /\ DeleteRemoves(c) => /\ client'[c].pc = "erase" /\ client'[c].todo = client[c].todo
                                /\ client'[c].op = client[c].op
         /\ DeleteErases(c) => /\ client'[c].pc = "close" /\ client'[c].todo = client[c].todo
                               /\ client'[c].op = client[c].op
         /\ DeleteCloses(c) => \/ client'[c].pc = "idle"
                               \/ /\ client'[c].pc = "erase" /\ client'[c].op = client[c].op
                                  /\ client'[c].todo = Tail(client[c].todo)
<1>0. /\ client \in [Client -> Call] /\ client[c] \in Call /\ Idle.pc = "idle"
      /\ client[c].op # "continue" /\ Idle.op # "continue"
  BY CalmCalls DEF Calm, TypeInv, TypeOK, Idle
<1>1. CreateQueues(c) => client'[c] = Idle
  BY <1>0 DEF CreateQueues, Moves
<1>2. ASSUME PreparePause(c)
      PROVE  \/ client'[c].pc \in {"idle", "prepare"}
             \/ /\ client'[c].pc = "pausing" /\ Victim(c)' = Victim(c)
                /\ client'[c].op = client[c].op
  <2>1. Onward(c, FALSE).pc \in {"idle", "prepare"}
    BY <1>0, <1>2, OnwardCalm DEF PreparePause
  <2>2. CASE Moves(c, Onward(c, FALSE))
    BY <1>0, <2>1, <2>2 DEF Moves
  <2>3. CASE Moves(c, [client[c] EXCEPT !.pc = "pausing", !.g = gen[Victim(c)] + 1])
    <3>1. PICK n : n = gen[Victim(c)] + 1
      OBVIOUS
    <3>2. client'[c] = [client[c] EXCEPT !.pc = "pausing", !.g = n]
      BY <1>0, <2>3, <3>1 DEF Moves
    <3>3. client'[c].pc = "pausing" /\ client'[c].op = client[c].op /\ client'[c].todo = client[c].todo
      BY <1>0, <3>2 DEF Call
    <3> QED BY <1>0, <3>3 DEF Victim
  <2> QED BY <1>2, <2>2, <2>3 DEF PreparePause
<1>3. ASSUME HandlePause(c)
      PROVE  \/ client'[c].pc \in {"idle", "prepare"}
             \/ /\ client'[c].pc = "stopping" /\ Victim(c)' = Victim(c)
                /\ client'[c].op = client[c].op
  <2>1. Onward(c, FALSE).pc \in {"idle", "prepare"}
    BY <1>0, <1>3, OnwardCalm DEF HandlePause
  <2>2. CASE Moves(c, Onward(c, FALSE))
    BY <1>0, <2>1, <2>2 DEF Moves
  <2>3. CASE Moves(c, [client[c] EXCEPT !.pc = "stopping"])
    <3>1. client'[c] = [client[c] EXCEPT !.pc = "stopping"]
      BY <1>0, <2>3 DEF Moves
    <3>2. client'[c].pc = "stopping" /\ client'[c].op = client[c].op /\ client'[c].todo = client[c].todo
      BY <1>0, <3>1 DEF Call
    <3> QED BY <1>0, <3>2 DEF Victim
  <2> QED BY <1>3, <2>2, <2>3 DEF HandlePause
<1>4. ASSUME StopFetcher(c)
      PROVE  /\ client'[c].pc = "saving" /\ Victim(c)' = Victim(c)
             /\ client'[c].op = client[c].op
  <2>1. client'[c] = [client[c] EXCEPT !.pc = "saving"]
    BY <1>0, <1>4 DEF StopFetcher, Moves
  <2>2. client'[c].pc = "saving" /\ client'[c].op = client[c].op /\ client'[c].todo = client[c].todo
    BY <1>0, <2>1 DEF Call
  <2> QED BY <1>0, <2>2 DEF Victim
<1>5. ASSUME PauseSaves(c)
      PROVE  client'[c].pc \in {"idle", "prepare"}
  <2>1. client'[c] = Onward(c, FALSE)
    BY <1>0, <1>5 DEF PauseSaves, Moves
  <2>2. Onward(c, FALSE).pc \in {"idle", "prepare"}
    BY <1>0, <1>5, OnwardCalm DEF PauseSaves
  <2> QED BY <2>1, <2>2
<1>6. ASSUME PauseAllRanges(c)
      PROVE  client'[c].pc \in {"idle", "prepare"}
  BY <1>0, <1>6 DEF PauseAllRanges, Moves, Call
<1>7. ASSUME DeleteRemoves(c)
      PROVE  /\ client'[c].pc = "erase" /\ client'[c].todo = client[c].todo
             /\ client'[c].op = client[c].op
  BY <1>0, <1>7 DEF DeleteRemoves, Moves, Call
<1>8. ASSUME DeleteErases(c)
      PROVE  /\ client'[c].pc = "close" /\ client'[c].todo = client[c].todo
             /\ client'[c].op = client[c].op
  BY <1>0, <1>8 DEF DeleteErases, Moves, Call
<1>9. ASSUME DeleteCloses(c)
      PROVE  \/ client'[c].pc = "idle"
             \/ /\ client'[c].pc = "erase" /\ client'[c].op = client[c].op
                /\ client'[c].todo = Tail(client[c].todo)
  <2>1. CASE Len(client[c].todo) = 1
    BY <1>0, <1>9, <2>1 DEF DeleteCloses, Moves
  <2>2. CASE Len(client[c].todo) # 1
    BY <1>0, <1>9, <2>2 DEF DeleteCloses, Moves, Call
  <2> QED BY <2>1, <2>2
<1> QED BY <1>1, <1>2, <1>3, <1>4, <1>5, <1>6, <1>7, <1>8, <1>9

\* doCreate starts the new task, or it waits.
LEMMA OnceCreates ==
  ASSUME Calm, StartedOnce, DeletedIsGone, LocksAreHeld, NEW c \in Client, CreateQueues(c)
  PROVE  StartedOnce' /\ DeletedIsGone' /\ LocksAreHeld'
<1>0. /\ TypeInv /\ tasks \in Seq(Task) /\ waitTasks \in Seq(Task) /\ status \in [Task -> Status]
      /\ ToSet(tasks) \subseteq Known /\ ToSet(waitTasks) \subseteq Known
      /\ client'[c] = Idle /\ \A d \in Client \ {c} : client'[d] = client[d]
  <2>1. Proceed(c) /\ TypeInv
    BY DEF Proceed, Calm
  <2> QED BY <2>1, ProceedPlace, CallGoesOn DEF TypeInv, TypeOK, CreatedOnce
<1>1. PICK t \in Task : t \notin Known /\ client[c].todo = <<t>>
  BY <1>0 DEF TypeInv, CreatedOnce, CreateQueues
<1>2. status[t] = "ready" /\ Head(client[c].todo) = t /\ Unstarted(t)
  BY <1>1 DEF Known, StartedOnce
<1>3. tasks' = Append(tasks, t) /\ UNCHANGED <<tlock, watcher, fet, doneCh>>
  BY <1>2 DEF CreateQueues
<1>4. ToSet(tasks') = ToSet(tasks) \cup {t}
  BY <1>0, <1>3, Appended
<1>5. DeletedIsGone'
  <2> SUFFICES ASSUME NEW d \in Client, client'[d].pc \in {"erase", "close"},
                      NEW u \in ToSet(tasks')
               PROVE  u \notin ToSet(client'[d].todo)
    BY DEF DeletedIsGone
  <2>1. d # c /\ client'[d] = client[d]
    BY <1>0 DEF Idle
  <2>2. ToSet(client[d].todo) \subseteq Known
    BY <1>0, <2>1, CallFacts DEF Items
  <2> QED BY <1>1, <1>4, <2>1, <2>2 DEF DeletedIsGone
<1>6. \A d \in Client : Stopping(d)' => Stopping(d) /\ Victim(d)' = Victim(d)
  BY <1>0 DEF Stopping, Victim, Idle
<1>7. CASE remainRunningCount = 0
  <2>1. /\ status' = [status EXCEPT ![t] = "wait"] /\ waitTasks' = Append(waitTasks, t)
        /\ starters' = starters
    BY <1>2, <1>7 DEF CreateQueues
  <2>2. ToSet(waitTasks') = ToSet(waitTasks) \cup {t}
    BY <1>0, <2>1, Appended
  <2>3. t \notin ToSet(waitTasks)
    BY <1>0, <1>1
  <2>4. IsInjective(waitTasks')
    BY <1>0, <2>1, <2>3, ListFacts DEF StartedOnce
  <2>5. status'[t] = "wait" /\ \A u \in Task \ {t} : status'[u] = status[u]
    BY <1>0, <2>1
  <2>6. \A u \in Task : Unstarted(u) => Unstarted(u)'
    BY <1>3, <2>1, <2>5 DEF Unstarted, Handlers
  <2>7. StartedOnce'
    BY <1>2, <1>4, <2>1, <2>2, <2>4, <2>5, <2>6 DEF StartedOnce
  <2> QED BY <1>3, <1>5, <1>6, <2>1, <2>7, LocksKept
<1>8. CASE remainRunningCount # 0
  <2>1. DoStart(t) /\ waitTasks' = waitTasks
    BY <1>2, <1>8 DEF CreateQueues
  <2>2. t \notin ToSet(waitTasks)
    BY <1>0, <1>1
  <2>3. StartedOnce'
    BY <1>0, <1>2, <1>3, <1>4, <2>1, <2>2, OnceStarts DEF StartedOnce
  <2>4. \A s \in starters' : s.pc \in Locked => s \in starters
    BY <1>0, <1>2, <2>1, StartEffect DEF Locked
  <2> QED BY <1>3, <1>5, <1>6, <2>3, <2>4, LocksKept
<1> QED BY <1>7, <1>8

\* A pause takes task.lock when it is free and gives it back.
LEMMA LocksPassed ==
  ASSUME Calm, LocksAreHeld, NEW c \in Client, HandlePause(c) \/ PauseSaves(c)
  PROVE  LocksAreHeld'
<1>0. /\ TypeInv /\ tlock \in [Task -> BOOLEAN] /\ starters' = starters
      /\ \A s \in starters : s.t \in Task
  BY DEF Calm, TypeInv, TypeOK, HandlePause, PauseSaves, taskVars, Starters
<1>1. /\ \A d \in Client \ {c} : client'[d] = client[d]
      /\ \A d \in Client \ {c} : Victim(d)' = Victim(d) /\ (Stopping(d)' <=> Stopping(d))
  <2>1. Proceed(c) /\ TypeInv
    BY DEF Proceed, Calm
  <2>2. \A d \in Client \ {c} : client'[d] = client[d]
    BY <2>1, CallGoesOn
  <2> QED BY <2>2 DEF Victim, Stopping
<1>2. PICK t : t = Victim(c)
  OBVIOUS
<1>3. t \in Task
  BY <1>2, OnwardCalm DEF HandlePause, PauseSaves
<1>4. \A d \in Client : Stopping(d) => Victim(d) \in Task
  BY OnwardCalm DEF Stopping
<1>5. CASE HandlePause(c) /\ IsPausedGeneration(t, client[c].g)
  <2>1. ~tlock[t] /\ tlock' = [tlock EXCEPT ![t] = TRUE]
    BY <1>2, <1>5 DEF HandlePause
  <2>2. client'[c].pc \in {"idle", "prepare"} \/ Victim(c)' = t
    BY <1>2, <1>5, ProceedPlace
  <2>3. \A s \in starters : s.pc \in Locked => s.t # t /\ tlock'[s.t]
    BY <1>0, <1>3, <2>1 DEF LocksAreHeld
  <2>4. \A d \in Client : Stopping(d) => Victim(d) # t /\ tlock'[Victim(d)]
    BY <1>0, <1>3, <1>4, <2>1 DEF LocksAreHeld
  <2>5. ASSUME NEW d \in Client, Stopping(d)', NEW u, u = Victim(d)'
        PROVE  /\ tlock'[u] /\ \A s \in Handlers(u)' : s.pc \notin Locked
               /\ \A e \in Client \ {d} : Stopping(e)' => Victim(e)' # u
    <3>1. CASE d = c
      <4>1. u = t
        BY <2>2, <2>5, <3>1 DEF Stopping
      <4>2. tlock'[t]
        BY <1>0, <1>3, <2>1
      <4>3. \A s \in Handlers(u)' : s.pc \notin Locked
        BY <1>0, <2>3, <4>1 DEF Handlers
      <4> QED BY <1>1, <2>4, <3>1, <4>1, <4>2, <4>3
    <3>2. CASE d # c
      <4>1. Stopping(d) /\ Victim(d) = u
        BY <1>1, <2>5, <3>2
      <4>2. u # t /\ tlock'[u]
        BY <2>4, <4>1
      <4>3. /\ \A s \in Handlers(u) : s.pc \notin Locked
            /\ \A e \in Client \ {d} : Stopping(e) => Victim(e) # u
        BY <4>1 DEF LocksAreHeld
      <4>4. Stopping(c)' => Victim(c)' # u
        BY <2>2, <4>2 DEF Stopping
      <4> QED BY <1>0, <1>1, <4>2, <4>3, <4>4 DEF Handlers
    <3> QED BY <3>1, <3>2
  <2>6. ASSUME NEW d \in Client, Stopping(d)'
        PROVE  /\ tlock'[Victim(d)'] /\ \A s \in Handlers(Victim(d))' : s.pc \notin Locked
               /\ \A e \in Client \ {d} : Stopping(e)' => Victim(e)' # Victim(d)'
    BY <2>5, <2>6 DEF Handlers
  <2> QED BY <1>0, <2>3, <2>6 DEF LocksAreHeld
<1>6. CASE HandlePause(c) /\ ~IsPausedGeneration(t, client[c].g)
  <2>1. tlock' = tlock /\ client'[c] = Onward(c, FALSE)
    BY <1>0, <1>2, <1>6, OneCall DEF HandlePause
  <2>2. client'[c].pc \in {"idle", "prepare"}
    <3>1. Onward(c, FALSE) = Idle \/ Onward(c, FALSE).pc = "prepare"
      BY <1>6, OnwardCalm DEF HandlePause
    <3>2. PICK k : k = Onward(c, FALSE)
      OBVIOUS
    <3>3. Idle.pc = "idle"
      BY DEF Idle
    <3>4. k = Idle \/ k.pc = "prepare"
      BY <3>1, <3>2
    <3> QED BY <2>1, <3>2, <3>3, <3>4
  <2>3. \A d \in Client : Stopping(d)' => Stopping(d) /\ Victim(d)' = Victim(d)
    BY <1>1, <2>2 DEF Stopping
  <2> QED BY <1>0, <2>1, <2>3, LocksKept
<1>7. CASE PauseSaves(c)
  <2>1. tlock' = [tlock EXCEPT ![t] = FALSE] /\ Stopping(c)
    BY <1>2, <1>7 DEF PauseSaves, Stopping
  <2>2. client'[c].pc \in {"idle", "prepare"}
    BY <1>7, ProceedPlace
  <2>3. \A s \in starters : s.pc \in Locked => s.t # t /\ tlock'[s.t]
    BY <1>0, <1>2, <1>3, <2>1 DEF LocksAreHeld, Handlers
  <2>4. \A d \in Client \ {c} : Stopping(d) => Victim(d) # t /\ tlock'[Victim(d)]
    BY <1>0, <1>2, <1>3, <1>4, <2>1 DEF LocksAreHeld
  <2>5. ASSUME NEW d \in Client, Stopping(d)', NEW u, u = Victim(d)'
        PROVE  /\ tlock'[u] /\ \A s \in Handlers(u)' : s.pc \notin Locked
               /\ \A e \in Client \ {d} : Stopping(e)' => Victim(e)' # u
    <3>1. d # c
      BY <2>2, <2>5 DEF Stopping
    <3>2. Stopping(d) /\ Victim(d) = u
      BY <1>1, <2>5, <3>1
    <3>3. /\ \A s \in Handlers(u) : s.pc \notin Locked
          /\ \A e \in Client \ {d} : Stopping(e) => Victim(e) # u
      BY <3>2 DEF LocksAreHeld
    <3>4. ~(Stopping(c)')
      BY <2>2 DEF Stopping
    <3> QED BY <1>0, <1>1, <2>4, <3>1, <3>2, <3>3, <3>4 DEF Handlers
  <2>6. ASSUME NEW d \in Client, Stopping(d)'
        PROVE  /\ tlock'[Victim(d)'] /\ \A s \in Handlers(Victim(d))' : s.pc \notin Locked
               /\ \A e \in Client \ {d} : Stopping(e)' => Victim(e)' # Victim(d)'
    BY <2>5, <2>6 DEF Handlers
  <2> QED BY <1>0, <2>3, <2>6 DEF LocksAreHeld
<1> QED BY <1>5, <1>6, <1>7

\* Delete takes its tasks out of both lists.
LEMMA DeleteEffect ==
  ASSUME Calm, StartedOnce, NEW c \in Client, DeleteRemoves(c)
  PROVE  /\ ToSet(tasks') = ToSet(tasks) \ ToSet(client[c].todo)
         /\ ToSet(waitTasks') = ToSet(waitTasks) \ ToSet(client[c].todo)
         /\ IsInjective(waitTasks')
<1> DEFINE D == ToSet(client[c].todo)
           First(seq) == {i \in DOMAIN seq : /\ seq[i] \in D
                                             /\ \A j \in 1 .. i - 1 : seq[j] # seq[i]}
<1>1. /\ tasks \in Seq(Task) /\ IsInjective(tasks) /\ waitTasks \in Seq(Task)
      /\ IsInjective(waitTasks)
  BY DEF Calm, TypeInv, TypeOK, StartedOnce
<1>2. /\ tasks' = Entries(tasks, DOMAIN tasks \ First(tasks))
      /\ waitTasks' = Entries(waitTasks, DOMAIN waitTasks \ First(waitTasks))
  BY DEF DeleteRemoves
<1>3. ASSUME NEW q \in Seq(Task), IsInjective(q)
      PROVE  /\ ToSet(Entries(q, DOMAIN q \ First(q))) = ToSet(q) \ D
             /\ IsInjective(Entries(q, DOMAIN q \ First(q)))
  <2>1. First(q) = {i \in DOMAIN q : q[i] \in D}
    BY <1>3, FirstIsOnly, Zenon
  <2>2. PICK I : I = DOMAIN q \ First(q)
    OBVIOUS
  <2>3. I \subseteq DOMAIN q /\ \A i \in DOMAIN q : i \in I <=> q[i] \notin D
    BY <2>1, <2>2
  <2>4. PICK E : E = D
    OBVIOUS
  <2>5. \A i \in DOMAIN q : i \in I <=> q[i] \notin E
    BY <2>3, <2>4
  <2> HIDE DEF First, D
  <2>6. I \subseteq DOMAIN q
    BY <2>3
  <2>7. ToSet(Entries(q, I)) = ToSet(q) \ E /\ IsInjective(Entries(q, I))
    <3>1. q \in Seq(Task) /\ IsInjective(q)
      BY <1>3
    <3> QED BY <2>5, <2>6, <3>1, Removed, ZenonT(60)
  <2>8. DOMAIN q \ First(q) = I /\ D = E
    BY <2>2, <2>4
  <2> QED BY <2>7, <2>8
<1> HIDE DEF First
<1> QED BY <1>1, <1>2, <1>3

\* The other steps of a call take tasks out of the lists, pause them and their fetchers.
LEMMA OnceProceeds ==
  ASSUME Calm, StartedOnce, DeletedIsGone, LocksAreHeld, NEW c \in Client, Proceed(c)
  PROVE  StartedOnce' /\ DeletedIsGone' /\ LocksAreHeld'
<1>0. /\ TypeInv /\ \A d \in Client \ {c} : client'[d] = client[d]
      /\ status \in [Task -> Status] /\ DOMAIN fet = Task /\ tlock \in [Task -> BOOLEAN]
      /\ client[c].op # "continue"
  BY CallGoesOn, CalmCalls DEF Calm, TypeInv, TypeOK
<1>1. CASE CreateQueues(c)
  BY <1>1, OnceCreates
<1>2. CASE \/ PreparePause(c) \/ HandlePause(c) \/ StopFetcher(c) \/ PauseSaves(c)
           \/ PauseAllRanges(c) \/ DeleteErases(c) \/ DeleteCloses(c)
  <2>1. /\ UNCHANGED <<tasks, starters, watcher, doneCh>>
    BY <1>2 DEF PreparePause, HandlePause, StopFetcher, PauseSaves, PauseAllRanges,
                DeleteErases, DeleteCloses, taskVars
  <2>2. waitTasks' = waitTasks
    BY <1>0, <1>2 DEF PreparePause, HandlePause, StopFetcher, PauseSaves, PauseAllRanges,
                DeleteErases, DeleteCloses
  <2>3. \A t \in Task : status'[t] \in {status[t], "pause"}
    <3>1. CASE PreparePause(c)
      <4>1. status' = status \/ \E v : status' = [status EXCEPT ![v] = "pause"]
        BY <3>1 DEF PreparePause
      <4> QED BY <1>0, <4>1
    <3>2. CASE ~PreparePause(c)
      <4>1. status' = status
        BY <1>0, <1>2, <3>2 DEF HandlePause, StopFetcher, PauseSaves, PauseAllRanges,
                DeleteErases, DeleteCloses, taskVars
      <4> QED BY <4>1
    <3> QED BY <3>1, <3>2
  <2>4. \A t \in Task : fet'[t] \in {fet[t], "paused"}
    <3>1. fet' = fet \/ \E v : fet' = [fet EXCEPT ![v] = "paused"]
      BY <1>2 DEF PreparePause, HandlePause, StopFetcher, PauseSaves, PauseAllRanges,
                DeleteErases, DeleteCloses
    <3> QED BY <1>0, <3>1
  <2>5. StartedOnce'
    BY <2>1, <2>2, <2>3, <2>4, OnceKept DEF StartedOnce
  <2>6. DeletedIsGone'
    <3> SUFFICES ASSUME client'[c].pc \in {"erase", "close"}
                 PROVE  /\ ToSet(client'[c].todo) \subseteq ToSet(client[c].todo)
                        /\ client[c].pc \in {"erase", "close"}
      BY <1>0, <2>1 DEF DeletedIsGone
    <3>1. CASE DeleteErases(c) \/ DeleteCloses(c)
      <4>1. client[c].pc \in {"erase", "close"}
        BY <3>1 DEF DeleteErases, DeleteCloses
      <4>2. client[c].todo \in Seq(Task) /\ client[c].todo # <<>>
        BY <1>0, <4>1, CallFacts DEF HasWork
      <4>3. ToSet(Tail(client[c].todo)) \subseteq ToSet(client[c].todo)
        BY <4>2, ListFacts
      <4> QED BY <3>1, <4>1, <4>3, ProceedPlace
    <3>2. CASE ~(DeleteErases(c) \/ DeleteCloses(c))
      BY <1>2, <3>2, ProceedPlace
    <3> QED BY <3>1, <3>2
  <2>7. LocksAreHeld'
    <3>1. CASE HandlePause(c) \/ PauseSaves(c)
      BY <3>1, LocksPassed
    <3>2. CASE ~(HandlePause(c) \/ PauseSaves(c))
      <4>1. tlock' = tlock
        BY <1>2, <3>2 DEF PreparePause, StopFetcher, PauseAllRanges, DeleteErases, DeleteCloses
      <4>2. Stopping(c)' => Stopping(c) /\ Victim(c)' = Victim(c)
        BY <1>2, <3>2, ProceedPlace DEF Stopping, StopFetcher
      <4>3. \A d \in Client : Stopping(d)' => Stopping(d) /\ Victim(d)' = Victim(d)
        BY <1>0, <4>2 DEF Stopping, Victim
      <4> QED BY <2>1, <4>1, <4>3, LocksKept
    <3> QED BY <3>1, <3>2
  <2> QED BY <2>5, <2>6, <2>7
<1>3. CASE DeleteRemoves(c)
  <2>1. /\ ToSet(tasks') = ToSet(tasks) \ ToSet(client[c].todo)
        /\ ToSet(waitTasks') = ToSet(waitTasks) \ ToSet(client[c].todo)
        /\ IsInjective(waitTasks')
    BY <1>3, DeleteEffect
  <2>2. UNCHANGED <<status, starters, tlock, watcher, fet, doneCh>>
    BY <1>3 DEF DeleteRemoves, taskVars
  <2>3. StartedOnce'
    <3>1. ToSet(waitTasks') \subseteq ToSet(waitTasks) /\ ToSet(waitTasks') \subseteq ToSet(tasks')
      BY <2>1 DEF StartedOnce
    <3> QED BY <2>1, <2>2, <3>1, OnceKept
  <2>4. client'[c].pc = "erase" /\ client'[c].todo = client[c].todo
    BY <1>3, ProceedPlace
  <2>5. DeletedIsGone'
    BY <1>0, <2>1, <2>4 DEF DeletedIsGone
  <2>6. \A d \in Client : Stopping(d)' => Stopping(d) /\ Victim(d)' = Victim(d)
    BY <1>0, <2>4 DEF Stopping, Victim
  <2> QED BY <2>2, <2>3, <2>5, <2>6, LocksKept
<1> QED BY <1>1, <1>2, <1>3, CalmProceed

LEMMA OnceStep ==
  ASSUME TypeInv, OpsAreAllowed, OnceInv, [Next]_vars
  PROVE  OnceInv'
<1>0. WithoutContinue' = WithoutContinue
  BY OpsStep DEF WithoutContinue
<1> SUFFICES ASSUME WithoutContinue
             PROVE  StartedOnce' /\ DeletedIsGone' /\ LocksAreHeld'
  BY <1>0 DEF OnceInv
<1>1. Calm /\ StartedOnce /\ DeletedIsGone /\ LocksAreHeld
  BY DEF Calm, OnceInv
<1>2. CASE UNCHANGED vars
  <2>1. /\ UNCHANGED <<tasks, waitTasks, status, starters, tlock, watcher, fet, doneCh>>
        /\ client' = client
    BY <1>2 DEF vars, taskVars
  <2>2. StartedOnce'
    BY <1>1, <2>1, OnceKept DEF StartedOnce
  <2>3. LocksAreHeld'
    BY <1>1, <2>1, LocksKept DEF Stopping, Victim
  <2> QED BY <1>1, <2>1, <2>2, <2>3 DEF DeletedIsGone
<1>3. ASSUME NEW c \in budget.callers, NewCall(c)
      PROVE  StartedOnce' /\ DeletedIsGone' /\ LocksAreHeld'
  <2>1. c \in Client
    BY DEF TypeInv, TypeOK, Setup
  <2> QED BY <1>1, <1>3, <2>1, OnceBegins
<1>4. ASSUME NEW c \in Client, Proceed(c)
      PROVE  StartedOnce' /\ DeletedIsGone' /\ LocksAreHeld'
  BY <1>1, <1>4, OnceProceeds
<1>5. CASE NotifyRuns
  <2>1. DeletedIsGone'
    BY <1>1, <1>5 DEF NotifyRuns, DeletedIsGone
  <2> QED BY <1>1, <1>5, <2>1, OnceNotify
<1>6. CASE \/ \E s \in starters : Starter(s)
           \/ \E t \in Task : Watcher(t) \/ FetcherEnds(t)
  <2>1. DeletedIsGone'
    BY <1>1, <1>6, OthersStop DEF DeletedIsGone
  <2> QED BY <1>1, <1>6, <2>1, OnceStarter, OnceWatcher
<1> QED BY <1>2, <1>3, <1>4, <1>5, <1>6 DEF Next

LEMMA OnceInit == ASSUME Init PROVE OnceInv
<1>1. ToSet(<<>>) = {} /\ IsInjective(<<>>)
  BY DEF ToSet, IsInjective
<1>2. StartedOnce
  BY <1>1 DEF Init, StartedOnce, Unstarted, Handlers
<1>3. DeletedIsGone /\ LocksAreHeld
  BY DEF Init, DeletedIsGone, LocksAreHeld, Stopping, Idle
<1> QED BY <1>2, <1>3 DEF OnceInv

-----------------------------------------------------------------------------
(* A running task is where its status says.                                *)

\* Nothing of task t changes, and no client that pauses it moves.
LEMMA PlaceKept ==
  ASSUME NEW t \in Task, PlaceIsSound(t),
         status'[t] = status[t], gen'[t] = gen[t], watcher'[t] = watcher[t], fet'[t] = fet[t],
         doneCh'[t] = doneCh[t], Handlers(t)' = Handlers(t),
         \A c \in Client : \/ client'[c] = client[c]
                           \/ ~Pauses(c, t) /\ ~(Pauses(c, t)')
  PROVE  PlaceIsSound(t)'
<1>1. \A c \in Client : client'[c] = client[c] => Victim(c)' = Victim(c)
  BY DEF Victim
<1>2. RunningIsSound(t) => RunningIsSound(t)'
  BY DEF RunningIsSound, ResultIsThere
<1>3. PauseIsComing(t) => PauseIsComing(t)'
  BY <1>1 DEF PauseIsComing, Pauses
<1>4. \A c \in Client : Stopping(c)' /\ Victim(c)' = t => Stopping(c) /\ Victim(c) = t
  BY <1>1 DEF Stopping, Pauses
<1> QED BY <1>2, <1>3, <1>4 DEF PlaceIsSound

LEMMA PlaceStarter ==
  ASSUME Calm, StartedOnce, LocksAreHeld, SavesSucceed, NEW s \in starters, Starter(s),
         NEW t \in Task, t = s.t, PlaceIsSound(t)
  PROVE  PlaceIsSound(t)'
<1>0. TypeInv /\ \A q, r \in starters : q.t = r.t => q = r
  BY DEF Calm, StartedOnce
<1>1. /\ client' = client /\ DOMAIN watcher = Task /\ DOMAIN fet = Task /\ DOMAIN doneCh = Task
      /\ DOMAIN status = Task /\ DOMAIN gen = Task
  BY <1>0, StarterEffect DEF TypeInv, TypeOK
<1>2. Handlers(t) = {s} /\ (StarterEnds(s) => Handlers(t)' = {})
  BY <1>0, HandlersAfter
<1>3. ASSUME NEW pc \in Pcs, StarterBecomes(s, pc)
      PROVE  \E n : n.g = s.g /\ n.pc = pc /\ Handlers(t)' = {n}
  BY <1>0, <1>3, HandlersAfter
<1>4. \A c \in Client : Victim(c)' = Victim(c) /\ (Stopping(c)' <=> Stopping(c))
  BY <1>1 DEF Victim, Stopping
<1>5. /\ status[t] = "running" =>
           /\ s.g = gen[t] /\ watcher[t] = "none"
           /\ \/ /\ s.pc \in {"queued", "ready", "start", "failing", "marking"}
                 /\ fet[t] \in {"idle", "paused"} /\ doneCh[t] = "empty"
              \/ s.pc \in {"save", "watch"} /\ ResultIsThere(t)
      /\ status[t] = "pause" /\ (fet[t] = "running" \/ s.pc = "start") =>
           \E c \in Client : /\ \/ client[c].pc = "stopping"
                                \/ (client[c].pc = "pausing" /\ client[c].g = gen[t])
                             /\ Victim(c) = t
      /\ status[t] \in {"error", "done"} => fet[t] # "running" /\ s.pc = "failed"
      /\ \A c \in Client : Stopping(c) /\ Victim(c) = t /\ status[t] = "running" =>
           s.pc = "queued"
  BY <1>2 DEF PlaceIsSound, RunningIsSound, PauseIsComing
<1>6. \A c \in Client : Stopping(c) /\ Victim(c) = t => tlock[t] /\ s.pc \notin Locked
  BY <1>2 DEF LocksAreHeld
<1>7. IsRunningGeneration(t, s.g) <=> status[t] = "running"
  BY <1>5 DEF IsRunningGeneration
\* The handler is through: the task runs only if it has left it to its watcher.
<1>8. ASSUME StarterEnds(s), status'[t] = status[t], gen'[t] = gen[t], fet'[t] = fet[t],
             doneCh'[t] = doneCh[t],
             status[t] = "running" => watcher'[t] = "wait" /\ ResultIsThere(t)
                                      /\ s.pc # "queued"
      PROVE  PlaceIsSound(t)'
  <2>1. Handlers(t)' = {}
    BY <1>2, <1>8
  <2>2. status'[t] = "running" => RunningIsSound(t)'
    BY <1>8, <2>1 DEF RunningIsSound, ResultIsThere
  <2>3. status'[t] = "pause" => PauseIsComing(t)'
    BY <1>1, <1>4, <1>5, <1>8, <2>1 DEF PauseIsComing
  <2> QED BY <1>4, <1>5, <1>8, <2>1, <2>2, <2>3 DEF PlaceIsSound
\* It goes on, under task.lock or for a task that has not been started again.
<1>9. ASSUME NEW pc \in Pcs \ {"failed"}, StarterBecomes(s, pc),
             status'[t] = status[t], gen'[t] = gen[t], watcher'[t] = watcher[t],
             s.pc # "failed", s.pc = "queued" => ~tlock[t],
             status[t] = "running" =>
               \/ /\ pc \in {"ready", "start", "failing", "marking"}
                  /\ fet'[t] \in {"idle", "paused"} /\ doneCh'[t] = "empty"
               \/ pc \in {"save", "watch"} /\ ResultIsThere(t)',
             status[t] = "pause" /\ (fet'[t] = "running" \/ pc = "start") =>
               fet[t] = "running" \/ s.pc = "start"
      PROVE  PlaceIsSound(t)'
  <2>1. PICK n : n.g = s.g /\ n.pc = pc /\ Handlers(t)' = {n}
    BY <1>3, <1>9
  <2>2. status'[t] = "running" => RunningIsSound(t)'
    BY <1>5, <1>9, <2>1 DEF RunningIsSound
  <2>3. status'[t] = "pause" => PauseIsComing(t)'
    BY <1>1, <1>4, <1>5, <1>9, <2>1 DEF PauseIsComing
  <2>4. \A c \in Client : ~(Stopping(c)' /\ Victim(c)' = t /\ status'[t] = "running")
    BY <1>4, <1>5, <1>6, <1>9
  <2> QED BY <1>5, <1>9, <2>1, <2>2, <2>3, <2>4 DEF PlaceIsSound
<1> USE DEF Pcs
<1>10. CASE StarterLocks(s)
  BY <1>1, <1>5, <1>7, <1>8, <1>9, <1>10 DEF StarterLocks
<1>11. CASE StarterChecks(s)
  BY <1>1, <1>5, <1>7, <1>8, <1>9, <1>11 DEF StarterChecks
<1>12. CASE StarterCannotResolve(s)
  BY <1>1, <1>5, <1>9, <1>12 DEF StarterCannotResolve
<1>13. CASE StarterStarts(s)
  <2>1. CASE fet[t] = "done"
    BY <1>1, <1>5, <1>9, <1>13, <2>1 DEF StarterStarts
  <2>2. CASE fet[t] # "done"
    <3>1. /\ StarterBecomes(s, "save") /\ fet'[t] = "running"
          /\ doneCh'[t] = IF fet[t] \in {"paused", "error"} THEN "empty" ELSE doneCh[t]
          /\ status' = status /\ gen' = gen /\ watcher' = watcher /\ s.pc = "start"
      BY <1>1, <1>13, <2>2 DEF StarterStarts
    <3>2. status[t] = "running" => ResultIsThere(t)'
      BY <1>5, <3>1 DEF ResultIsThere
    <3> QED BY <1>9, <3>1, <3>2
  <2> QED BY <2>1, <2>2
<1>14. CASE StarterSaves(s)
  <2>1. /\ StarterBecomes(s, "watch") /\ s.pc = "save"
        /\ UNCHANGED <<status, gen, watcher, fet, doneCh>>
    BY <1>14 DEF StarterSaves, Fault, SavesSucceed
  <2>2. status[t] = "running" => ResultIsThere(t)'
    BY <1>5, <2>1 DEF ResultIsThere
  <2> QED BY <1>9, <2>1, <2>2
<1>15. CASE StarterWatches(s)
  <2>1. /\ StarterEnds(s) /\ s.pc = "watch" /\ UNCHANGED <<status, gen, fet, doneCh>>
        /\ watcher[t] = "none" /\ status[t] = "running" => watcher'[t] = "wait"
    BY <1>1, <1>15 DEF StarterWatches
  <2> QED BY <1>5, <1>8, <2>1
<1>16. CASE StarterFails(s)
  BY <1>1, <1>5, <1>7, <1>8, <1>9, <1>16 DEF StarterFails
<1>17. CASE StarterMarksError(s)
  <2>1. CASE status[t] = "running"
    <3>1. /\ StarterBecomes(s, "failed") /\ status'[t] = "error" /\ fet' = fet /\ s.pc = "marking"
      BY <1>1, <1>17, <2>1 DEF StarterMarksError, MarkError
    <3>2. PICK n : n.pc = "failed" /\ Handlers(t)' = {n}
      BY <1>3, <3>1
    <3> QED BY <1>5, <2>1, <3>1, <3>2 DEF PlaceIsSound
  <2>2. CASE status[t] # "running"
    BY <1>1, <1>8, <1>17, <2>2 DEF StarterMarksError
  <2> QED BY <2>1, <2>2
<1>18. CASE StarterNotifies(s)
  BY <1>1, <1>5, <1>8, <1>18 DEF StarterNotifies
<1> QED BY <1>10, <1>11, <1>12, <1>13, <1>14, <1>15, <1>16, <1>17, <1>18 DEF Starter

LEMMA PlaceWatcher ==
  ASSUME TypeInv, NEW t \in Task, t \in ToSet(tasks), Watcher(t) \/ FetcherEnds(t),
         PlaceIsSound(t)
  PROVE  PlaceIsSound(t)'
<1>1. /\ client' = client /\ starters' = starters /\ DOMAIN watcher = Task /\ DOMAIN fet = Task
      /\ DOMAIN doneCh = Task /\ DOMAIN status = Task /\ DOMAIN gen = Task
  BY WatcherEffect DEF TypeInv, TypeOK
<1>2. /\ Handlers(t)' = Handlers(t)
      /\ \A c \in Client : Victim(c)' = Victim(c) /\ (Stopping(c)' <=> Stopping(c))
  BY <1>1 DEF Handlers, Victim, Stopping
\* The watcher is somewhere else, and does not find the task stopped if it runs.
<1>3. ASSUME UNCHANGED <<status, gen, fet>>, watcher[t] # "none",
             status[t] = "running" =>
               /\ watcher'[t] \in {"wait", "ok", "err", "marking"}
               /\ watcher'[t] = "wait" => ResultIsThere(t)'
               /\ watcher'[t] = "ok" => fet[t] = "done"
               /\ watcher'[t] \in {"err", "marking"} => fet[t] = "error"
      PROVE  PlaceIsSound(t)'
  <2>1. status[t] = "running" => Handlers(t) = {}
    BY <1>3 DEF PlaceIsSound, RunningIsSound
  <2>2. status'[t] = "running" => RunningIsSound(t)'
    BY <1>2, <1>3, <2>1 DEF RunningIsSound
  <2>3. status'[t] = "pause" => PauseIsComing(t)'
    BY <1>1, <1>2, <1>3 DEF PlaceIsSound, PauseIsComing
  <2>4. \A c \in Client : Stopping(c)' /\ Victim(c)' = t /\ status'[t] = "running" =>
                           \E s \in Handlers(t)' : s.pc = "queued"
    BY <1>2, <1>3 DEF PlaceIsSound
  <2> QED BY <1>2, <1>3, <2>2, <2>3, <2>4 DEF PlaceIsSound
<1>4. ASSUME watcher[t] # "none", status[t] = "running"
      PROVE  /\ Handlers(t) = {}
             /\ \/ watcher[t] = "wait" /\ ResultIsThere(t)
                \/ watcher[t] = "ok" /\ fet[t] = "done"
                \/ watcher[t] \in {"err", "marking"} /\ fet[t] = "error"
  BY <1>4 DEF PlaceIsSound, RunningIsSound
\* A task that ran and has been marked is not downloading any more.
<1>5. ASSUME watcher[t] \in {"ok", "marking"}, status[t] = "running",
             status'[t] \in {"error", "done"}, fet' = fet
      PROVE  PlaceIsSound(t)'
  BY <1>2, <1>4, <1>5 DEF PlaceIsSound
<1> USE DEF WatcherBecomes, taskVars
<1>6. CASE WatcherReceives(t)
  BY <1>1, <1>3, <1>4, <1>6 DEF WatcherReceives, ResultIsThere
<1>7. CASE WatcherFails(t)
  BY <1>1, <1>3, <1>4, <1>7 DEF WatcherFails
<1>8. CASE WatcherMarksError(t)
  <2>1. CASE status[t] = "running"
    BY <1>1, <1>5, <1>8, <2>1 DEF WatcherMarksError, MarkError
  <2>2. CASE status[t] # "running"
    BY <1>1, <1>3, <1>8, <2>2 DEF WatcherMarksError
  <2> QED BY <2>1, <2>2
<1>9. CASE WatcherNotifies(t) \/ WatcherFinishes(t) \/ WatcherLeaves(t)
  <2>1. watcher[t] \in {"failed", "finish", "leave"} /\ UNCHANGED <<status, gen, fet>>
    BY <1>9 DEF WatcherNotifies, WatcherFinishes, WatcherLeaves
  <2> QED BY <1>3, <1>4, <2>1
<1>10. CASE WatcherRechecks(t)
  BY <1>1, <1>3, <1>4, <1>10 DEF WatcherRechecks
<1>11. CASE WatcherMarksDone(t)
  <2>1. CASE status[t] = "running"
    BY <1>1, <1>5, <1>11, <2>1 DEF WatcherMarksDone
  <2>2. CASE status[t] # "running"
    BY <1>1, <1>3, <1>11, <2>2 DEF WatcherMarksDone
  <2> QED BY <2>1, <2>2
<1>12. CASE FetcherEnds(t)
  <2>1. /\ fet[t] = "running" /\ fet'[t] \in {"done", "error"}
        /\ doneCh[t] = "empty" => ResultIsThere(t)'
        /\ UNCHANGED <<status, gen, watcher>>
    BY <1>1, <1>12 DEF FetcherEnds, ResultIsThere
  <2>2. status[t] = "running" => RunningIsSound(t)'
    <3> SUFFICES ASSUME status[t] = "running" PROVE RunningIsSound(t)'
      OBVIOUS
    <3>1. RunningIsSound(t) /\ (ResultIsThere(t) => doneCh[t] = "empty")
      BY <2>1 DEF PlaceIsSound, ResultIsThere
    <3> QED BY <1>2, <2>1, <3>1 DEF RunningIsSound
  <2>3. status[t] = "pause" => PauseIsComing(t)'
    BY <1>1, <1>2, <2>1 DEF PlaceIsSound, PauseIsComing
  <2>4. status[t] \notin {"error", "done"}
    BY <2>1 DEF PlaceIsSound
  <2>5. \A c \in Client : Stopping(c)' /\ Victim(c)' = t /\ status'[t] = "running" =>
                           \E s \in Handlers(t)' : s.pc = "queued"
    BY <1>2, <2>1 DEF PlaceIsSound
  <2> QED BY <2>1, <2>2, <2>3, <2>4, <2>5 DEF PlaceIsSound
<1> QED BY <1>6, <1>7, <1>8, <1>9, <1>10, <1>11, <1>12 DEF Watcher

LEMMA PlaceStarts ==
  ASSUME TypeInv, NEW t \in Task, Unstarted(t), DoStart(t),
         watcher' = watcher, fet' = fet, doneCh' = doneCh
  PROVE  PlaceIsSound(t)'
<1>1. PICK n : n.g = gen'[t] /\ n.pc = "queued" /\ Handlers(t)' = {n}
  BY StartEffect
<1>2. status'[t] = "running"
  BY StartEffect
<1>3. RunningIsSound(t)'
  BY <1>1 DEF RunningIsSound, Unstarted
<1> QED BY <1>1, <1>2, <1>3 DEF PlaceIsSound

\* The victim of a pause.
LEMMA PlacePauses ==
  ASSUME Calm, StartedOnce, LocksAreHeld, NEW c \in Client,
         PreparePause(c) \/ HandlePause(c) \/ StopFetcher(c) \/ PauseSaves(c),
         NEW t \in Task, t = Victim(c), PlaceIsSound(t)
  PROVE  PlaceIsSound(t)'
<1>0. /\ TypeInv /\ client[c].op # "continue" /\ DOMAIN status = Task /\ DOMAIN gen = Task
      /\ DOMAIN fet = Task /\ client \in [Client -> Call] /\ Idle.pc = "idle"
  BY CalmCalls DEF Calm, TypeInv, TypeOK, Idle
<1>1. /\ starters' = starters /\ watcher' = watcher /\ doneCh' = doneCh
  BY DEF PreparePause, HandlePause, StopFetcher, PauseSaves, taskVars
<1>2. /\ Handlers(t)' = Handlers(t) /\ \A d \in Client \ {c} : client'[d] = client[d]
      /\ \A d \in Client \ {c} : Victim(d)' = Victim(d) /\ (Stopping(d)' <=> Stopping(d))
  <2>1. Proceed(c)
    BY DEF Proceed
  <2>2. \A d \in Client \ {c} : client'[d] = client[d]
    BY <1>0, <2>1, CallGoesOn
  <2> QED BY <1>1, <2>2 DEF Handlers, Victim, Stopping
<1>3. \A queued \in BOOLEAN : Onward(c, queued).pc \in {"idle", "prepare"}
  <2> TAKE queued \in BOOLEAN
  <2>1. PICK k : k = Onward(c, queued)
    OBVIOUS
  <2>2. k = Idle \/ k.pc = "prepare"
    BY <2>1, OnwardCalm DEF PreparePause, HandlePause, StopFetcher, PauseSaves
  <2>3. k.pc \in {"idle", "prepare"}
    BY <1>0, <2>2
  <2> QED BY <2>1, <2>3
\* The client moves on, and did not count on the pause.
<1>4. ASSUME UNCHANGED <<status, gen, fet>>, client'[c].pc \in {"idle", "prepare"},
             client[c].pc # "stopping", client[c].pc = "pausing" /\ status[t] = "pause"
                                        => client[c].g # gen[t]
      PROVE  PlaceIsSound(t)'
  <2>1. RunningIsSound(t) => RunningIsSound(t)'
    BY <1>1, <1>2, <1>4 DEF RunningIsSound, ResultIsThere
  <2>2. status[t] = "pause" /\ PauseIsComing(t) => PauseIsComing(t)'
    BY <1>2, <1>4 DEF PauseIsComing
  <2>3. ~(Stopping(c)')
    BY <1>4 DEF Stopping
  <2> QED BY <1>2, <1>4, <2>1, <2>2, <2>3 DEF PlaceIsSound
<1>5. CASE PreparePause(c)
  <2>1. CASE NothingToPause(t)
    <3>1. client'[c] = Onward(c, FALSE) /\ UNCHANGED <<status, gen, fet>> /\ client[c].pc = "prepare"
      BY <1>0, <1>5, <2>1, OneCall DEF PreparePause
    <3> QED BY <1>3, <1>4, <3>1
  <2>2. CASE ~NothingToPause(t)
    <3>1. PICK g : g = gen[t] + 1
      OBVIOUS
    <3>2. /\ status' = [status EXCEPT ![t] = "pause"] /\ gen' = [gen EXCEPT ![t] = g]
          /\ Moves(c, [client[c] EXCEPT !.pc = "pausing", !.g = g])
      BY <1>5, <2>2, <3>1 DEF PreparePause
    <3>3. client'[c] = [client[c] EXCEPT !.pc = "pausing", !.g = g]
      BY <1>0, <3>2 DEF Moves
    <3>4. /\ client'[c].pc = "pausing" /\ client'[c].g = g /\ client'[c].op = client[c].op
          /\ client'[c].todo = client[c].todo
      BY <1>0, <3>3 DEF Call
    <3>5. Victim(c)' = t
      BY <1>0, <3>4 DEF Victim
    <3>6. status'[t] = "pause" /\ gen'[t] = g
      BY <1>0, <3>2
    <3>7. PauseIsComing(t)'
      BY <3>4, <3>5, <3>6 DEF PauseIsComing
    <3> QED BY <3>6, <3>7 DEF PlaceIsSound
  <2> QED BY <2>1, <2>2
<1>6. CASE HandlePause(c)
  <2>0. UNCHANGED <<status, gen, fet>> /\ client[c].pc = "pausing"
    BY <1>6 DEF HandlePause, taskVars
  <2>1. CASE IsPausedGeneration(t, client[c].g)
    <3>1. client'[c] = [client[c] EXCEPT !.pc = "stopping"]
      BY <1>0, <1>6, <2>1, OneCall DEF HandlePause
    <3>2. /\ client'[c].pc = "stopping" /\ client'[c].op = client[c].op
          /\ client'[c].todo = client[c].todo
      BY <1>0, <3>1 DEF Call
    <3>3. Victim(c)' = t
      BY <1>0, <3>2 DEF Victim
    <3>4. PauseIsComing(t)'
      BY <3>2, <3>3 DEF PauseIsComing
    <3> QED BY <2>0, <2>1, <3>4 DEF PlaceIsSound, IsPausedGeneration
  <2>2. CASE ~IsPausedGeneration(t, client[c].g)
    <3>1. client'[c] = Onward(c, FALSE)
      BY <1>0, <1>6, <2>2, OneCall DEF HandlePause
    <3> QED BY <1>3, <1>4, <2>0, <2>2, <3>1 DEF IsPausedGeneration
  <2> QED BY <2>1, <2>2
<1>7. CASE StopFetcher(c)
  <2>1. /\ status' = status /\ gen' = gen /\ fet' = [fet EXCEPT ![t] = "paused"]
        /\ Stopping(c)
    BY <1>7 DEF StopFetcher, Stopping, taskVars
  <2>2. fet'[t] = "paused"
    BY <1>0, <2>1
  <2>3. \A s \in Handlers(t) : s.pc \notin Locked
    BY <2>1 DEF LocksAreHeld
  <2>4. ASSUME status[t] = "running"
        PROVE  RunningIsSound(t)' /\ \E s \in Handlers(t) : s.pc = "queued"
    <3>1. PICK s \in Handlers(t) : s.pc = "queued"
      BY <2>1, <2>4 DEF PlaceIsSound
    <3>2. \A r \in Handlers(t) : r = s
      BY <3>1 DEF StartedOnce, Handlers
    <3>3. s.g = gen[t] /\ watcher[t] = "none" /\ doneCh[t] = "empty"
      BY <2>4, <3>1, <3>2 DEF PlaceIsSound, RunningIsSound
    <3> QED BY <1>1, <1>2, <2>1, <2>2, <3>1, <3>3 DEF RunningIsSound
  <2>5. PauseIsComing(t)'
    BY <1>2, <2>2, <2>3 DEF PauseIsComing, Locked
  <2> QED BY <1>2, <2>1, <2>2, <2>4, <2>5 DEF PlaceIsSound
<1>8. CASE PauseSaves(c)
  <2>1. UNCHANGED <<status, gen, fet>> /\ client[c].pc = "saving"
    BY <1>0, <1>8 DEF PauseSaves
  <2>2. client'[c].pc \in {"idle", "prepare"}
    BY <1>8, ProceedPlace
  <2> QED BY <1>4, <2>1, <2>2
<1> QED BY <1>5, <1>6, <1>7, <1>8

LEMMA PlaceProceeds ==
  ASSUME Calm, StartedOnce, DeletedIsGone, LocksAreHeld, NEW c \in Client, Proceed(c),
         \A t \in ToSet(tasks) : PlaceIsSound(t), NEW t \in Task, t \in ToSet(tasks')
  PROVE  PlaceIsSound(t)'
<1>0. /\ TypeInv /\ \A d \in Client \ {c} : client'[d] = client[d]
      /\ status \in [Task -> Status] /\ DOMAIN gen = Task /\ DOMAIN fet = Task
      /\ client[c].op # "continue"
  BY CallGoesOn, CalmCalls DEF Calm, TypeInv, TypeOK
<1>1. CASE CreateQueues(c)
  <2>1. PICK u \in Task : u \notin Known /\ client[c].todo = <<u>>
    BY <1>0, <1>1 DEF TypeInv, CreatedOnce, CreateQueues
  <2>2. /\ tasks' = Append(tasks, u) /\ Head(client[c].todo) = u
        /\ UNCHANGED <<watcher, fet, doneCh>> /\ status[u] = "ready"
    BY <1>1, <2>1 DEF CreateQueues, Known
  <2>3. ToSet(tasks') = ToSet(tasks) \cup {u}
    BY <1>0, <2>2, Appended DEF TypeInv, TypeOK
  <2>4. Unstarted(u)
    BY <2>2 DEF StartedOnce
  <2>5. ~Pauses(c, t) /\ ~(Pauses(c, t)')
    BY <1>1, ProceedPlace DEF Pauses, CreateQueues, Idle
  <2>6. CASE remainRunningCount = 0
    <3>1. status' = [status EXCEPT ![u] = "wait"] /\ gen' = gen /\ starters' = starters
      BY <1>1, <2>2, <2>6 DEF CreateQueues
    <3>2. CASE t = u
      <4>1. status'[u] = "wait"
        BY <1>0, <3>1
      <4> QED BY <3>2, <4>1 DEF PlaceIsSound
    <3>3. CASE t # u
      <4>1. status'[t] = status[t] /\ Handlers(t)' = Handlers(t) /\ PlaceIsSound(t)
        BY <1>0, <2>3, <3>1, <3>3 DEF Handlers
      <4> QED BY <1>0, <2>2, <2>5, <3>1, <4>1, PlaceKept
    <3> QED BY <3>2, <3>3
  <2>7. CASE remainRunningCount # 0
    <3>1. DoStart(u)
      BY <1>1, <2>2, <2>7 DEF CreateQueues
    <3>2. CASE t = u
      BY <1>0, <2>2, <2>4, <3>1, <3>2, PlaceStarts
    <3>3. CASE t # u
      <4>1. /\ status'[t] = status[t] /\ gen'[t] = gen[t] /\ Handlers(t)' = Handlers(t)
            /\ PlaceIsSound(t)
        BY <1>0, <2>3, <2>4, <3>1, <3>3, StartEffect
      <4> QED BY <1>0, <2>2, <2>5, <4>1, PlaceKept
    <3> QED BY <3>2, <3>3
  <2> QED BY <2>6, <2>7
<1>2. CASE PreparePause(c) \/ HandlePause(c) \/ StopFetcher(c) \/ PauseSaves(c)
  <2>1. PICK v : v = Victim(c)
    OBVIOUS
  <2>2. /\ UNCHANGED <<tasks, starters, watcher, doneCh>> /\ PlaceIsSound(t)
    BY <1>2 DEF PreparePause, HandlePause, StopFetcher, PauseSaves, taskVars
  <2>3. CASE t = v
    BY <1>2, <2>1, <2>2, <2>3, PlacePauses
  <2>4. CASE t # v
    <3>1. status'[t] = status[t] /\ gen'[t] = gen[t]
      <4>1. CASE PreparePause(c)
        <5>1. \/ UNCHANGED <<status, gen>>
              \/ \E g : status' = [status EXCEPT ![v] = "pause"] /\ gen' = [gen EXCEPT ![v] = g]
          BY <2>1, <4>1 DEF PreparePause
        <5> QED BY <1>0, <2>4, <5>1
      <4>2. CASE HandlePause(c) \/ StopFetcher(c) \/ PauseSaves(c)
        BY <1>0, <4>2 DEF HandlePause, StopFetcher, PauseSaves, taskVars
      <4> QED BY <1>2, <4>1, <4>2
    <3>2. fet'[t] = fet[t]
      <4>1. fet' = fet \/ fet' = [fet EXCEPT ![v] = "paused"]
        BY <1>2, <2>1 DEF PreparePause, HandlePause, StopFetcher, PauseSaves
      <4> QED BY <1>0, <2>4, <4>1
    <3>3. ~Pauses(c, t) /\ ~(Pauses(c, t)')
      BY <1>2, <2>1, <2>4, ProceedPlace DEF Pauses
    <3>4. Handlers(t)' = Handlers(t)
      BY <2>2 DEF Handlers
    <3> QED BY <1>0, <2>2, <3>1, <3>2, <3>3, <3>4, PlaceKept
  <2> QED BY <2>3, <2>4
<1>3. CASE PauseAllRanges(c) \/ DeleteRemoves(c) \/ DeleteErases(c) \/ DeleteCloses(c)
  <2>1. /\ UNCHANGED <<status, gen, starters, watcher, doneCh>> /\ Handlers(t)' = Handlers(t)
    BY <1>3 DEF PauseAllRanges, DeleteRemoves, DeleteErases, DeleteCloses, taskVars, Handlers
  <2>2. t \in ToSet(tasks)
    <3>1. CASE DeleteRemoves(c)
      BY <1>0, <3>1, DeleteShrinks
    <3>2. CASE ~DeleteRemoves(c)
      BY <1>3, <3>2 DEF PauseAllRanges, DeleteErases, DeleteCloses
    <3> QED BY <3>1, <3>2
  <2>3. fet'[t] = fet[t]
    <3>1. CASE DeleteCloses(c)
      <4>1. client[c].pc = "close" /\ fet' = [fet EXCEPT ![Head(client[c].todo)] = "paused"]
        BY <3>1 DEF DeleteCloses
      <4>2. client[c].todo \in Seq(Task) /\ client[c].todo # <<>>
        BY <1>0, <4>1, CallFacts DEF HasWork
      <4>3. Head(client[c].todo) \in ToSet(client[c].todo)
        BY <4>2, ListFacts
      <4>4. t # Head(client[c].todo)
        BY <2>2, <4>1, <4>3 DEF DeletedIsGone
      <4> QED BY <1>0, <4>1, <4>4
    <3>2. CASE ~DeleteCloses(c)
      BY <1>3, <3>2 DEF PauseAllRanges, DeleteRemoves, DeleteErases
    <3> QED BY <3>1, <3>2
  <2>4. ~Pauses(c, t) /\ ~(Pauses(c, t)')
    <3>1. client[c].pc \in {"range", "remove", "erase", "close"}
      BY <1>3 DEF PauseAllRanges, DeleteRemoves, DeleteErases, DeleteCloses
    <3>2. client'[c].pc \in {"idle", "prepare", "erase", "close"}
      BY <1>3, ProceedPlace
    <3> QED BY <3>1, <3>2 DEF Pauses
  <2> QED BY <1>0, <2>1, <2>2, <2>3, <2>4, PlaceKept
<1> QED BY <1>1, <1>2, <1>3, CalmProceed

LEMMA TruthStep ==
  ASSUME TypeInv, OpsAreAllowed, OnceInv, TruthInv, [Next]_vars
  PROVE  TruthInv'
<1>0. /\ WithoutContinue' = WithoutContinue /\ SavesSucceed' = SavesSucceed
      /\ TypeInv'
  BY OpsStep, KindsStep, TypeStep DEF WithoutContinue, SavesSucceed
<1> SUFFICES ASSUME WithoutContinue, SavesSucceed, NEW t \in ToSet(tasks')
             PROVE  PlaceIsSound(t)'
  BY <1>0 DEF TruthInv
<1>1. /\ Calm /\ StartedOnce /\ DeletedIsGone /\ LocksAreHeld
      /\ \A u \in ToSet(tasks) : PlaceIsSound(u)
  BY DEF Calm, OnceInv, TruthInv
<1>2. t \in Task
  BY <1>0 DEF TypeInv, CreatedOnce, Known
<1>3. CASE UNCHANGED vars
  <2>1. /\ t \in ToSet(tasks) /\ client' = client /\ Handlers(t)' = Handlers(t)
        /\ UNCHANGED <<status, gen, watcher, fet, doneCh>>
    BY <1>3 DEF vars, taskVars, Handlers
  <2> QED BY <1>1, <1>2, <2>1, PlaceKept
<1>4. ASSUME NEW c \in budget.callers, NewCall(c)
      PROVE  PlaceIsSound(t)'
  <2>1. c \in Client /\ ToSet(<<>>) = {}
    BY DEF TypeInv, TypeOK, Setup, ToSet
  <2>2. /\ UNCHANGED <<status, gen, starters, watcher, fet, doneCh>> /\ tasks' \in {tasks, <<>>}
        /\ client[c].pc = "idle" /\ client'[c].pc \notin {"pausing", "stopping", "saving"}
        /\ \A d \in Client \ {c} : client'[d] = client[d]
    BY <1>4, <2>1, BeginEffect
  <2>3. t \in ToSet(tasks) /\ Handlers(t)' = Handlers(t)
    BY <2>1, <2>2 DEF Handlers
  <2>4. ~Pauses(c, t) /\ ~(Pauses(c, t)')
    BY <2>2 DEF Pauses
  <2> QED BY <1>1, <1>2, <2>2, <2>3, <2>4, PlaceKept
<1>5. ASSUME NEW c \in Client, Proceed(c)
      PROVE  PlaceIsSound(t)'
  BY <1>1, <1>2, <1>5, PlaceProceeds
<1>6. CASE NotifyRuns
  <2>0. /\ t \in ToSet(tasks) /\ PlaceIsSound(t) /\ client' = client
        /\ UNCHANGED <<watcher, fet, doneCh>>
    BY <1>1, <1>6 DEF NotifyRuns
  <2>1. CASE remainRunningCount = 0 \/ waitTasks = <<>>
    <3>1. UNCHANGED <<status, gen, starters>> /\ Handlers(t)' = Handlers(t)
      BY <1>6, <2>1 DEF NotifyRuns, taskVars, Handlers
    <3> QED BY <1>2, <2>0, <3>1, PlaceKept
  <2>2. CASE ~(remainRunningCount = 0 \/ waitTasks = <<>>)
    <3>0. PICK u : u = Head(waitTasks)
      OBVIOUS
    <3>1. DoStart(u)
      BY <1>6, <2>2, <3>0 DEF NotifyRuns
    <3>2. u \in ToSet(waitTasks) /\ u \in Task
      BY <2>2, <3>0, ListFacts DEF TypeInv, TypeOK
    <3>3. Unstarted(u)
      BY <1>1, <3>2 DEF StartedOnce
    <3>4. CASE t = u
      BY <2>0, <3>1, <3>2, <3>3, <3>4, PlaceStarts
    <3>5. CASE t # u
      <4>1. status'[t] = status[t] /\ gen'[t] = gen[t] /\ Handlers(t)' = Handlers(t)
        BY <1>2, <3>1, <3>2, <3>3, <3>5, StartEffect
      <4> QED BY <1>2, <2>0, <4>1, PlaceKept
    <3> QED BY <3>4, <3>5
  <2> QED BY <2>1, <2>2
<1>7. ASSUME NEW s \in starters, Starter(s)
      PROVE  PlaceIsSound(t)'
  <2>1. /\ tasks' = tasks /\ client' = client
        /\ s.t # t => /\ status'[t] = status[t] /\ gen'[t] = gen[t] /\ watcher'[t] = watcher[t]
                      /\ fet'[t] = fet[t] /\ doneCh'[t] = doneCh[t]
        /\ StarterEnds(s) \/ \E pc \in Pcs : StarterBecomes(s, pc)
    BY <1>2, <1>7, StarterEffect
  <2>2. CASE t = s.t
    BY <1>1, <1>2, <1>7, <2>1, <2>2, PlaceStarter
  <2>3. CASE t # s.t
    <3>1. Handlers(t)' = Handlers(t)
      BY <1>1, <1>2, <2>1, <2>3, HandlersAfter DEF StartedOnce
    <3> QED BY <1>1, <1>2, <2>1, <2>3, <3>1, PlaceKept
  <2> QED BY <2>2, <2>3
<1>8. ASSUME NEW u \in Task, Watcher(u) \/ FetcherEnds(u)
      PROVE  PlaceIsSound(t)'
  <2>1. /\ tasks' = tasks /\ client' = client /\ starters' = starters
        /\ u # t => /\ status'[t] = status[t] /\ gen'[t] = gen[t] /\ watcher'[t] = watcher[t]
                    /\ fet'[t] = fet[t] /\ doneCh'[t] = doneCh[t]
    BY <1>2, <1>8, WatcherEffect
  <2>2. CASE u = t
    BY <1>1, <1>8, <2>1, <2>2, PlaceWatcher
  <2>3. CASE u # t
    BY <1>1, <1>2, <2>1, <2>3, PlaceKept DEF Handlers
  <2> QED BY <2>2, <2>3
<1> QED BY <1>3, <1>4, <1>5, <1>6, <1>7, <1>8 DEF Next

\* Without Continue, continueAll and ContinueBatch, and as long as no save fails, the
\* status users see and the fetcher agree whenever nothing is under way: however pauses,
\* deletions, failed downloads and late start handlers cross, what is paused or waits or
\* has failed is not downloading, and what is running downloads and is watched.
THEOREM StatusBecomesTrue ==
  Spec => [](WithoutContinue /\ SavesSucceed => StatusIsTrue)
<1> DEFINE Inv == TypeInv /\ OpsAreAllowed /\ OnceInv /\ TruthInv
<1>1. Init => Inv
  <2> SUFFICES ASSUME Init PROVE Inv
    OBVIOUS
  <2>1. TypeInv /\ OpsAreAllowed /\ OnceInv
    BY InitTypes, OnceInit DEF Init, OpsAreAllowed, Idle
  <2>2. TruthInv
    BY DEF Init, TruthInv, ToSet
  <2> QED BY <2>1, <2>2
<1>2. Inv /\ [Next]_vars => Inv'
  BY TypeStep, OpsStep, OnceStep, TruthStep
<1>3. Inv => (WithoutContinue /\ SavesSucceed => StatusIsTrue)
  <2> SUFFICES ASSUME Inv, WithoutContinue, SavesSucceed, Quiet, NEW t \in ToSet(tasks)
               PROVE  /\ (status[t] = "running") <=> (fet[t] = "running")
                      /\ status[t] = "running" => watcher[t] = "wait"
    BY DEF StatusIsTrue
  <2>1. PlaceIsSound(t) /\ t \in Task /\ status[t] \in Status /\ Handlers(t) = {}
    BY DEF TruthInv, TypeInv, TypeOK, CreatedOnce, Known, Quiet, Handlers
  <2>2. watcher[t] = "none" \/ (watcher[t] = "wait" /\ doneCh[t] = "empty")
    BY <2>1 DEF Quiet
  <2>3. ASSUME status[t] = "running"
        PROVE  fet[t] = "running" /\ watcher[t] = "wait"
    BY <2>1, <2>2, <2>3 DEF PlaceIsSound, RunningIsSound, ResultIsThere
  <2>4. ASSUME status[t] # "running"
        PROVE  fet[t] # "running"
    <3>1. CASE status[t] \in {"ready", "wait"}
      BY <2>1, <3>1 DEF OnceInv, StartedOnce, Unstarted
    <3>2. CASE status[t] = "pause"
      BY <2>1, <3>2 DEF PlaceIsSound, PauseIsComing, Quiet
    <3>3. CASE status[t] \in {"error", "done"}
      BY <2>1, <3>3 DEF PlaceIsSound
    <3> QED BY <2>1, <2>4, <3>1, <3>2, <3>3 DEF Status
  <2> QED BY <2>3, <2>4
<1> QED BY <1>1, <1>2, <1>3, PTL DEF Spec

-----------------------------------------------------------------------------
(* No task waits beside a free slot.                                       *)

LEMMA HeadAndTail ==
  ASSUME NEW T, NEW q \in Seq(T), q # <<>>
  PROVE  ToSet(q) = {Head(q)} \cup ToSet(Tail(q))
<1>1. /\ Len(q) \in Nat \ {0} /\ Head(q) = q[1] /\ DOMAIN q = 1 .. Len(q)
      /\ DOMAIN Tail(q) = 1 .. Len(q) - 1 /\ \A i \in 1 .. Len(q) - 1 : Tail(q)[i] = q[i + 1]
  OBVIOUS
<1>2. \A i \in 2 .. Len(q) : i - 1 \in 1 .. Len(q) - 1 /\ (i - 1) + 1 = i
  BY <1>1
<1>3. \A i \in 2 .. Len(q) : q[i] \in ToSet(Tail(q))
  BY <1>1, <1>2 DEF ToSet
<1>4. \A i \in 1 .. Len(q) : i = 1 \/ i \in 2 .. Len(q)
  BY <1>1
<1>5. ToSet(q) \subseteq {Head(q)} \cup ToSet(Tail(q))
  BY <1>1, <1>3, <1>4 DEF ToSet
<1>6. Head(q) \in ToSet(q) /\ ToSet(Tail(q)) \subseteq ToSet(q)
  BY ListFacts
<1> QED BY <1>5, <1>6

\* A start handler that marks its task as failed, or has, is going to notify.
LEMMA WakeUpStarter ==
  ASSUME Calm, StartedOnce, NEW s \in starters, Starter(s)
  PROVE  /\ WakeUpIsDue => WakeUpIsDue'
         /\ \A t \in Task : status'[t] # status[t] => WakeUpIsDue'
<1>0. TypeInv /\ \A q, r \in starters : q.t = r.t => q = r
  BY DEF Calm, StartedOnce
<1>1. /\ client' = client /\ s.t \in Task /\ DOMAIN watcher = Task /\ DOMAIN status = Task
      /\ notifies \in Nat
      /\ \A u \in Task \ {s.t} : status'[u] = status[u]
      /\ status'[s.t] = status[s.t] \/ (status[s.t] = "running" /\ status'[s.t] = "error")
      /\ StarterEnds(s) \/ \E pc \in Pcs : StarterBecomes(s, pc)
      /\ \A r \in starters : r.t \in Task
  BY <1>0, StarterEffect DEF TypeInv, TypeOK, Starters
<1>2. \A r \in starters \ {s} : r \in starters' /\ status'[r.t] = status[r.t]
  BY <1>0, <1>1 DEF StarterEnds, StarterBecomes
<1>3. \A t \in Task : watcher[t] # "none" => watcher'[t] = watcher[t]
  <2>1. CASE StarterWatches(s)
    BY <1>1, <2>1 DEF StarterWatches
  <2>2. CASE ~StarterWatches(s)
    <3>1. watcher' = watcher
      BY <2>2 DEF Starter, StarterLocks, StarterChecks, StarterCannotResolve, StarterStarts,
         StarterSaves, StarterFails, StarterMarksError, StarterNotifies
    <3> QED BY <3>1
  <2> QED BY <2>1, <2>2
<1>4. notifies' \in {notifies, notifies + 1}
  BY DEF Starter, StarterLocks, StarterChecks, StarterCannotResolve, StarterStarts,
     StarterSaves, StarterWatches, StarterFails, StarterMarksError, StarterNotifies
<1>5. s.pc = "failed" /\ status[s.t] = "error" => notifies' > 0
  BY <1>1 DEF Starter, StarterLocks, StarterChecks, StarterCannotResolve, StarterStarts,
     StarterSaves, StarterWatches, StarterFails, StarterMarksError, StarterNotifies
<1>6. ASSUME WakeUpIsDue
      PROVE  WakeUpIsDue'
  <2>1. CASE notifies > 0
    BY <1>1, <1>4, <2>1 DEF WakeUpIsDue
  <2>2. CASE \E c \in Client : client[c].op \in {"pause", "delete"} /\ client[c].pc # "idle"
    BY <1>1, <2>2 DEF WakeUpIsDue
  <2>3. CASE \E r \in starters : r.pc = "failed" /\ status[r.t] = "error"
    BY <1>2, <1>5, <2>3 DEF WakeUpIsDue
  <2>4. CASE \E t \in Task : watcher[t] = "finish" \/ (watcher[t] = "failed" /\ status[t] = "error")
    <3>1. PICK t \in Task : watcher[t] = "finish" \/ (watcher[t] = "failed" /\ status[t] = "error")
      BY <2>4
    <3>2. watcher'[t] = watcher[t] /\ (status[t] = "error" => status'[t] = "error")
      BY <1>1, <1>3, <3>1
    <3> QED BY <3>1, <3>2 DEF WakeUpIsDue
  <2>5. \/ notifies > 0
        \/ \E c \in Client : client[c].op \in {"pause", "delete"} /\ client[c].pc # "idle"
        \/ \E r \in starters : r.pc = "failed" /\ status[r.t] = "error"
        \/ \E v \in Task : watcher[v] = "finish" \/ (watcher[v] = "failed" /\ status[v] = "error")
    BY <1>6 DEF WakeUpIsDue
  <2> QED BY <2>1, <2>2, <2>3, <2>4, <2>5
<1>7. ASSUME NEW t \in Task, status'[t] # status[t]
      PROVE  WakeUpIsDue'
  <2>1. t = s.t /\ status[t] = "running" /\ status'[t] = "error"
    BY <1>1, <1>7
  <2>2. StarterMarksError(s)
    BY <1>7 DEF Starter, StarterLocks, StarterChecks, StarterCannotResolve, StarterStarts,
       StarterSaves, StarterWatches, StarterFails, StarterNotifies, taskVars
  <2>3. StarterBecomes(s, "failed")
    BY <2>1, <2>2 DEF StarterMarksError
  <2>4. \E n \in starters' : n.t = s.t /\ n.pc = "failed"
    BY <1>0, <2>3, HandlersAfter DEF Pcs
  <2> QED BY <2>1, <2>4 DEF WakeUpIsDue
<1> QED BY <1>6, <1>7

\* So is a watcher.
LEMMA WakeUpWatcher ==
  ASSUME TypeInv, NEW t \in Task, Watcher(t) \/ FetcherEnds(t)
  PROVE  /\ WakeUpIsDue => WakeUpIsDue'
         /\ \A u \in Task : status'[u] # status[u] => WakeUpIsDue'
<1>1. /\ client' = client /\ starters' = starters /\ DOMAIN watcher = Task /\ DOMAIN status = Task
      /\ notifies \in Nat /\ \A r \in starters : r.t \in Task
      /\ \A u \in Task \ {t} : status'[u] = status[u] /\ watcher'[u] = watcher[u]
  BY WatcherEffect DEF TypeInv, TypeOK, Starters
<1>2. \A u \in Task : status[u] = "error" => status'[u] = "error"
  BY OthersStop
<1> USE DEF WatcherBecomes
<1>3. /\ notifies' \in {notifies, notifies + 1}
      /\ \/ watcher[t] = "finish"
         \/ watcher[t] = "failed" /\ status[t] = "error"
         => notifies' > 0 \/ watcher'[t] = watcher[t]
  BY <1>1 DEF Watcher, WatcherReceives, WatcherFails, WatcherMarksError, WatcherNotifies,
     WatcherRechecks, WatcherMarksDone, WatcherFinishes, WatcherLeaves, FetcherEnds
<1>4. ASSUME WakeUpIsDue
      PROVE  WakeUpIsDue'
  <2>1. CASE notifies > 0
    BY <1>1, <1>3, <2>1 DEF WakeUpIsDue
  <2>2. CASE \E c \in Client : client[c].op \in {"pause", "delete"} /\ client[c].pc # "idle"
    BY <1>1, <2>2 DEF WakeUpIsDue
  <2>3. CASE \E r \in starters : r.pc = "failed" /\ status[r.t] = "error"
    BY <1>1, <1>2, <2>3 DEF WakeUpIsDue
  <2>4. CASE \E u \in Task : watcher[u] = "finish" \/ (watcher[u] = "failed" /\ status[u] = "error")
    <3>1. PICK u \in Task : watcher[u] = "finish" \/ (watcher[u] = "failed" /\ status[u] = "error")
      BY <2>4
    <3>2. notifies' > 0 \/ watcher'[u] = watcher[u]
      BY <1>1, <1>3, <3>1
    <3> QED BY <1>2, <3>1, <3>2 DEF WakeUpIsDue
  <2>5. \/ notifies > 0
        \/ \E c \in Client : client[c].op \in {"pause", "delete"} /\ client[c].pc # "idle"
        \/ \E r \in starters : r.pc = "failed" /\ status[r.t] = "error"
        \/ \E v \in Task : watcher[v] = "finish" \/ (watcher[v] = "failed" /\ status[v] = "error")
    BY <1>4 DEF WakeUpIsDue
  <2> QED BY <2>1, <2>2, <2>3, <2>4, <2>5
<1>5. ASSUME NEW u \in Task, status'[u] # status[u]
      PROVE  WakeUpIsDue'
  <2>1. u = t
    BY <1>1, <1>5
  <2>2. CASE WatcherMarksError(t)
    <3>1. status[t] = "running"
      BY <1>5, <2>1, <2>2 DEF WatcherMarksError
    <3>2. status'[t] = "error" /\ watcher'[t] = "failed"
      BY <1>1, <2>2, <3>1 DEF WatcherMarksError, MarkError
    <3> QED BY <3>2 DEF WakeUpIsDue
  <2>3. CASE WatcherMarksDone(t)
    <3>1. watcher'[t] = "finish"
      BY <1>1, <1>5, <2>1, <2>3 DEF WatcherMarksDone
    <3> QED BY <3>1 DEF WakeUpIsDue
  <2>4. CASE ~WatcherMarksError(t) /\ ~WatcherMarksDone(t)
    <3>1. status' = status
      BY <2>4 DEF Watcher, WatcherReceives, WatcherFails, WatcherNotifies, WatcherRechecks,
         WatcherFinishes, WatcherLeaves, FetcherEnds, taskVars
    <3> QED BY <1>5, <3>1
  <2> QED BY <2>2, <2>3, <2>4
<1> QED BY <1>4, <1>5

\* A call of Pause or Delete that goes on is going to notify, or has when it returns.
LEMMA WakeUpCalls ==
  ASSUME Calm, NEW c \in Client, Proceed(c), client[c].op \in {"pause", "delete"},
         ~CreateQueues(c), ~PauseAllRanges(c),
         client[c].pc \in Pausing => client[c].op = "pause"
  PROVE  WakeUpIsDue' /\ (client'[c].pc \in Pausing => client'[c].op = client[c].op)
<1>0. TypeInv /\ notifies \in Nat /\ Idle.pc = "idle" /\ HasWork(client[c])
  BY CalmCalls DEF Calm, TypeInv, TypeOK, Idle
<1>1. ASSUME client'[c].pc # "idle", client'[c].op = client[c].op
      PROVE  WakeUpIsDue'
  BY <1>1 DEF WakeUpIsDue
<1>2. ASSUME PreparePause(c) \/ HandlePause(c) \/ PauseSaves(c),
             NEW queued \in BOOLEAN, NEW k, k = Onward(c, queued), Moves(c, k), NotifyOnReturn(c, k)
      PROVE  WakeUpIsDue' /\ client'[c].op \in {client[c].op, Idle.op}
             /\ (client'[c].pc # "idle" => client'[c].op = client[c].op)
  <2>1. k = Idle \/ (k.pc = "prepare" /\ k.op = client[c].op)
    BY <1>2, OnwardCalm DEF PreparePause, HandlePause, PauseSaves
  <2>2. client'[c] = k
    BY <1>0, <1>2, OneCall
  <2>3. client[c].op = "pause"
    BY <1>2 DEF PreparePause, HandlePause, PauseSaves, Pausing
  <2>4. CASE k = Idle
    <3>1. notifies' = notifies + 1
      BY <1>2, <2>3, <2>4 DEF NotifyOnReturn
    <3> QED BY <1>0, <2>2, <2>4, <3>1 DEF WakeUpIsDue
  <2>5. CASE k.pc = "prepare" /\ k.op = client[c].op
    BY <1>1, <2>2, <2>5
  <2> QED BY <2>1, <2>4, <2>5
<1>3. CASE PreparePause(c)
  <2>1. CASE NothingToPause(Victim(c))
    <3>1. Moves(c, Onward(c, FALSE)) /\ NotifyOnReturn(c, Onward(c, FALSE))
      BY <1>3, <2>1 DEF PreparePause
    <3> QED BY <1>2, <1>3, <3>1 DEF Pausing
  <2>2. CASE ~NothingToPause(Victim(c))
    <3>1. PICK g : Moves(c, [client[c] EXCEPT !.pc = "pausing", !.g = g])
      BY <1>3, <2>2 DEF PreparePause
    <3>2. client'[c] = [client[c] EXCEPT !.pc = "pausing", !.g = g]
      BY <1>0, <3>1, OneCall
    <3>3. client'[c].pc = "pausing" /\ client'[c].op = client[c].op
      BY <3>2, CalmCalls DEF Call
    <3> QED BY <1>1, <3>3
  <2> QED BY <2>1, <2>2
<1>4. CASE HandlePause(c)
  <2>1. CASE ~IsPausedGeneration(Victim(c), client[c].g)
    <3>1. Moves(c, Onward(c, FALSE)) /\ NotifyOnReturn(c, Onward(c, FALSE))
      BY <1>4, <2>1 DEF HandlePause
    <3> QED BY <1>2, <1>4, <3>1 DEF Pausing
  <2>2. CASE IsPausedGeneration(Victim(c), client[c].g)
    <3>1. client'[c] = [client[c] EXCEPT !.pc = "stopping"]
      BY <1>0, <1>4, <2>2, OneCall DEF HandlePause
    <3>2. client'[c].pc = "stopping" /\ client'[c].op = client[c].op
      BY <3>1, CalmCalls DEF Call
    <3> QED BY <1>1, <3>2
  <2> QED BY <2>1, <2>2
<1>5. CASE StopFetcher(c)
  BY <1>1, <1>5, ProceedPlace
<1>6. CASE PauseSaves(c)
  <2>1. PICK queued \in BOOLEAN : Moves(c, Onward(c, queued)) /\ NotifyOnReturn(c, Onward(c, queued))
    BY <1>6 DEF PauseSaves
  <2> QED BY <1>2, <1>6, <2>1 DEF Pausing
<1>7. CASE DeleteRemoves(c) \/ DeleteErases(c)
  BY <1>1, <1>7, ProceedPlace DEF Pausing
<1>8. CASE DeleteCloses(c)
  <2>1. client[c].op = "delete"
    BY <1>0, <1>8 DEF DeleteCloses, HasWork
  <2>2. CASE client'[c].pc = "idle"
    <3>1. Len(client[c].todo) = 1
      <4> SUFFICES ASSUME Len(client[c].todo) # 1 PROVE FALSE
        OBVIOUS
      <4>1. client'[c] = [client[c] EXCEPT !.todo = Tail(@), !.pc = "erase"]
        BY <1>0, <1>8, OneCall DEF DeleteCloses
      <4>2. client'[c].pc = "erase"
        BY <4>1, CalmCalls DEF Call
      <4> QED BY <2>2, <4>2
    <3>2. notifies' = notifies + 1
      BY <1>8, <2>1, <3>1 DEF DeleteCloses
    <3> QED BY <1>0, <2>2, <3>2 DEF WakeUpIsDue, Pausing
  <2>3. CASE client'[c].pc # "idle"
    BY <1>1, <1>8, <2>3, ProceedPlace DEF Pausing
  <2> QED BY <2>2, <2>3
<1> QED BY <1>3, <1>4, <1>5, <1>6, <1>7, <1>8, CalmProceed

\* Of the calls that begin only pauseAll and deleteAll empty the queue.
LEMMA WaitTasksKept ==
  ASSUME TypeInv, NEW c \in Client, NewCall(c),
         client'[c].op \in {"create", "pause", "delete"}
  PROVE  waitTasks' = waitTasks
<1>0. client \in [Client -> Call]
  BY DEF TypeInv, TypeOK
<1>1. ~CallPauseAll(c)
  BY <1>0 DEF CallPauseAll, Moves, Idle
<1>2. ~CallDeleteAll(c)
  BY <1>0 DEF CallDeleteAll, Moves, Idle
<1> QED BY <1>1, <1>2 DEF NewCall, CreateStores, CallContinueAll, CallPause, CallContinue,
        CallContinueBatch, CallDelete

\* When no slot is left somebody runs.
LEMMA EmptyRuns == ASSUME MaxRunning = 1, remainRunningCount = 0 PROVE Running # {}
<1> SUFFICES ASSUME Running = {} PROVE FALSE
  OBVIOUS
<1>1. Cardinality(Running) = 0
  BY FS_EmptySet
<1> QED BY <1>1 DEF remainRunningCount

LEMMA QueueStep ==
  ASSUME TypeInv, OpsAreAllowed, BoundInv, OnceInv, QueueInv, [Next]_vars
  PROVE  QueueInv'
<1>0. EachSlotNotifies' = EachSlotNotifies /\ TypeInv'
  BY OpsStep, TypeStep DEF EachSlotNotifies
<1> SUFFICES ASSUME EachSlotNotifies
             PROVE  /\ \A c \in Client : client'[c].pc \in Pausing => client'[c].op = "pause"
                    /\ \A t \in ToSet(tasks') : status'[t] = "wait" => t \in ToSet(waitTasks')
                    /\ waitTasks' # <<>> /\ Running' = {} => WakeUpIsDue'
  BY <1>0 DEF QueueInv
<1>1. /\ Calm /\ StartedOnce /\ ToSet(<<>>) = {}
      /\ MaxRunning = 1 /\ budget.ops \subseteq {"create", "pause", "delete"}
      /\ tasks \in Seq(Task) /\ waitTasks \in Seq(Task) /\ status \in [Task -> Status]
      /\ ToSet(tasks) \subseteq Task
  <2>1. /\ tasks \in Seq(Task) /\ waitTasks \in Seq(Task) /\ status \in [Task -> Status]
        /\ ToSet(<<>>) = {}
    BY DEF TypeInv, TypeOK, ToSet
  <2>2. ToSet(tasks) \subseteq Task
    BY <2>1, ListFacts
  <2>3. WithoutContinue
    BY DEF EachSlotNotifies, WithoutContinue
  <2> QED BY <2>1, <2>2, <2>3 DEF Calm, OnceInv, EachSlotNotifies
<1>2. /\ \A c \in Client : client[c].pc \in Pausing => client[c].op = "pause"
      /\ \A t \in ToSet(tasks) : status[t] = "wait" => t \in ToSet(waitTasks)
      /\ waitTasks # <<>> /\ Running = {} => WakeUpIsDue
  BY DEF QueueInv
\* A step that leaves the clients and the lists alone.
<1>3. ASSUME tasks' = tasks, waitTasks' = waitTasks, client' = client,
             \A u \in Task : \/ status'[u] = status[u]
                             \/ status[u] = "running" /\ status'[u] \in {"error", "done"},
             WakeUpIsDue => WakeUpIsDue',
             \A u \in Task : status'[u] # status[u] => WakeUpIsDue'
      PROVE  /\ \A c \in Client : client'[c].pc \in Pausing => client'[c].op = "pause"
             /\ \A t \in ToSet(tasks') : status'[t] = "wait" => t \in ToSet(waitTasks')
             /\ waitTasks' # <<>> /\ Running' = {} => WakeUpIsDue'
  <2>1. \A t \in ToSet(tasks) : status'[t] = "wait" => status[t] = "wait"
    BY <1>1, <1>3
  <2>2. Running' = {} => Running = {} \/ WakeUpIsDue'
    BY <1>1, <1>3 DEF Running
  <2> QED BY <1>2, <1>3, <2>1, <2>2
<1>4. CASE UNCHANGED vars
  <2>1. WakeUpIsDue => WakeUpIsDue'
    BY <1>4 DEF vars, taskVars, WakeUpIsDue
  <2>2. UNCHANGED <<tasks, waitTasks, client, status>>
    BY <1>4 DEF vars, taskVars
  <2>3. /\ tasks' = tasks /\ waitTasks' = waitTasks /\ client' = client
        /\ \A u \in Task : status'[u] = status[u]
    BY <2>2
  <2> QED BY <1>3, <2>1, <2>3
<1>5. ASSUME NEW c \in budget.callers, NewCall(c)
      PROVE  /\ \A d \in Client : client'[d].pc \in Pausing => client'[d].op = "pause"
             /\ \A t \in ToSet(tasks') : status'[t] = "wait" => t \in ToSet(waitTasks')
             /\ waitTasks' # <<>> /\ Running' = {} => WakeUpIsDue'
  <2>1. c \in Client
    BY DEF TypeInv, TypeOK, Setup
  <2>2. /\ UNCHANGED <<status, gen, starters, tlock, watcher, fet, doneCh, notifies>>
        /\ \/ tasks' = tasks /\ waitTasks' \in {waitTasks, <<>>}
           \/ tasks' = <<>> /\ waitTasks' = <<>>
        /\ client'[c].pc \notin {"pausing", "stopping", "saving", "idle"}
        /\ client'[c].pc = "prepare" => client'[c].op = "pause"
        /\ client[c].pc = "idle" /\ \A d \in Client \ {c} : client'[d] = client[d]
    BY <1>5, <2>1, BeginEffect
  <2>3. WakeUpIsDue => WakeUpIsDue'
    BY <2>2 DEF WakeUpIsDue
  <2>4. CASE tasks' = tasks /\ waitTasks' = waitTasks
    BY <1>2, <2>2, <2>3, <2>4 DEF Running, Pausing
  <2>5. CASE tasks' = <<>> /\ waitTasks' = <<>>
    BY <1>1, <1>2, <2>2, <2>5 DEF Pausing
  <2>6. waitTasks' = waitTasks \/ tasks' = <<>>
    <3>1. client'[c].op \in budget.ops
      BY <1>5, <2>1, CallBegins
    <3> QED BY <1>1, <1>5, <2>1, <2>2, <3>1, WaitTasksKept
  <2> QED BY <2>2, <2>4, <2>5, <2>6
<1>6. ASSUME NEW c \in Client, CreateQueues(c)
      PROVE  /\ \A d \in Client : client'[d].pc \in Pausing => client'[d].op = "pause"
             /\ \A t \in ToSet(tasks') : status'[t] = "wait" => t \in ToSet(waitTasks')
             /\ waitTasks' # <<>> /\ Running' = {} => WakeUpIsDue'
  <2>0. Proceed(c)
    BY <1>6 DEF Proceed
  <2>1. client'[c] = Idle /\ \A d \in Client \ {c} : client'[d] = client[d]
    BY <1>1, <1>6, <2>0, ProceedPlace, CallGoesOn
  <2>2. \A d \in Client : client'[d].pc \in Pausing => client'[d].op = "pause"
    BY <1>2, <2>1 DEF Pausing, Idle
  <2>3. PICK u \in Task : u \notin Known /\ client[c].todo = <<u>>
    BY <1>6 DEF TypeInv, CreatedOnce, CreateQueues
  <2>4. tasks' = Append(tasks, u) /\ Head(client[c].todo) = u /\ status[u] = "ready"
    BY <1>6, <2>3 DEF CreateQueues, Known
  <2>5. ToSet(tasks') = ToSet(tasks) \cup {u}
    BY <1>1, <2>4, Appended
  <2>6. CASE remainRunningCount = 0
    <3>1. status' = [status EXCEPT ![u] = "wait"] /\ waitTasks' = Append(waitTasks, u)
      BY <1>6, <2>4, <2>6 DEF CreateQueues
    <3>2. ToSet(waitTasks') = ToSet(waitTasks) \cup {u}
      BY <1>1, <3>1, Appended
    <3>3. Running # {}
      BY <1>1, <2>6, EmptyRuns
    <3>4. Running \subseteq Running'
      BY <1>1, <2>4, <2>5, <3>1 DEF Running
    <3>5. \A t \in ToSet(tasks) \ {u} : status'[t] = status[t]
      BY <1>1, <3>1
    <3> QED BY <1>2, <2>2, <2>5, <3>2, <3>3, <3>4, <3>5
  <2>7. CASE remainRunningCount # 0
    <3>1. DoStart(u) /\ waitTasks' = waitTasks
      BY <1>6, <2>4, <2>7 DEF CreateQueues
    <3>2. Unstarted(u)
      BY <1>1, <2>4 DEF StartedOnce
    <3>3. status'[u] = "running" /\ \A t \in Task \ {u} : status'[t] = status[t]
      BY <3>1, <3>2, StartEffect
    <3>4. u \in Running'
      BY <2>5, <3>3 DEF Running
    <3> QED BY <1>1, <1>2, <2>2, <2>5, <3>1, <3>3, <3>4
  <2> QED BY <2>6, <2>7
<1>7. ASSUME NEW c \in Client, Proceed(c), ~CreateQueues(c)
      PROVE  /\ \A d \in Client : client'[d].pc \in Pausing => client'[d].op = "pause"
             /\ \A t \in ToSet(tasks') : status'[t] = "wait" => t \in ToSet(waitTasks')
             /\ waitTasks' # <<>> /\ Running' = {} => WakeUpIsDue'
  <2>0. client[c].op \in {"none", "create", "pause", "delete"} /\ HasWork(client[c])
    BY <1>1, CalmCalls DEF OpsAreAllowed
  <2>1. ~PauseAllRanges(c)
    BY <2>0 DEF PauseAllRanges, HasWork
  <2>2. client[c].op \in {"pause", "delete"}
    <3>1. client[c].pc \in Pausing \cup {"remove", "erase", "close"}
      BY <1>1, <1>7, <2>1, CalmProceed DEF Pausing, PreparePause, HandlePause, StopFetcher,
         PauseSaves, DeleteRemoves, DeleteErases, DeleteCloses
    <3> QED BY <1>2, <2>0, <3>1 DEF HasWork
  <2>3. WakeUpIsDue' /\ (client'[c].pc \in Pausing => client'[c].op = client[c].op)
    BY <1>1, <1>2, <1>7, <2>1, <2>2, WakeUpCalls
  <2>4. \A d \in Client \ {c} : client'[d] = client[d]
    BY <1>7, CallGoesOn
  <2>5. client'[c].pc \in Pausing => client'[c].op = "pause"
    <3>1. client[c].op = "delete" => client'[c].pc \notin Pausing
      <4> SUFFICES ASSUME client[c].op = "delete" PROVE client'[c].pc \notin Pausing
        OBVIOUS
      <4>1. client[c].pc \notin Pausing
        BY <1>2
      <4>2. DeleteRemoves(c) \/ DeleteErases(c) \/ DeleteCloses(c)
        BY <1>1, <1>7, <2>1, <4>1, CalmProceed DEF Pausing, PreparePause, HandlePause,
           StopFetcher, PauseSaves
      <4> QED BY <1>1, <4>2, ProceedPlace DEF Pausing
    <3> QED BY <2>2, <2>3, <3>1
  <2>6. \A t \in ToSet(tasks') : status'[t] = "wait" => t \in ToSet(waitTasks')
    <3>1. CASE DeleteRemoves(c)
      <4>1. /\ ToSet(tasks') = ToSet(tasks) \ ToSet(client[c].todo)
            /\ ToSet(waitTasks') = ToSet(waitTasks) \ ToSet(client[c].todo)
            /\ status' = status
        BY <1>1, <3>1, DeleteEffect DEF DeleteRemoves, taskVars
      <4> QED BY <1>2, <4>1
    <3>2. CASE PreparePause(c)
      <4>1. /\ tasks' = tasks /\ waitTasks' = waitTasks
            /\ status' = status \/ \E v : status' = [status EXCEPT ![v] = "pause"]
        BY <3>2 DEF PreparePause
      <4>2. \A t \in ToSet(tasks) : status'[t] = "wait" => status[t] = "wait"
        BY <1>1, <4>1
      <4> QED BY <1>2, <4>1, <4>2
    <3>3. CASE HandlePause(c) \/ StopFetcher(c) \/ PauseSaves(c) \/ DeleteErases(c) \/ DeleteCloses(c)
      <4>1. tasks' = tasks /\ waitTasks' = waitTasks /\ status' = status
        BY <2>2, <3>3 DEF HandlePause, StopFetcher, PauseSaves, DeleteErases, DeleteCloses, taskVars
      <4> QED BY <1>2, <4>1
    <3> QED BY <1>1, <1>7, <2>1, <3>1, <3>2, <3>3, CalmProceed
  <2> QED BY <1>2, <2>3, <2>4, <2>5, <2>6
<1>8. CASE NotifyRuns
  <2>0. client' = client /\ tasks' = tasks
    BY <1>8 DEF NotifyRuns
  <2>1. CASE remainRunningCount = 0
    <3>1. status' = status /\ waitTasks' = waitTasks
      BY <1>8, <2>1 DEF NotifyRuns, taskVars
    <3>2. Running' # {}
      <4>1. Running # {}
        BY <1>1, <2>1, EmptyRuns
      <4> QED BY <2>0, <3>1, <4>1 DEF Running
    <3> QED BY <1>2, <2>0, <3>1, <3>2
  <2>2. CASE waitTasks = <<>>
    <3>1. status' = status /\ waitTasks' = <<>>
      BY <1>8, <2>2 DEF NotifyRuns, taskVars
    <3> QED BY <1>2, <2>0, <2>2, <3>1
  <2>3. CASE remainRunningCount # 0 /\ waitTasks # <<>>
    <3>0. PICK u : u = Head(waitTasks)
      OBVIOUS
    <3>1. DoStart(u) /\ waitTasks' = Tail(waitTasks)
      BY <1>8, <2>3, <3>0 DEF NotifyRuns
    <3>2. ToSet(waitTasks) = {u} \cup ToSet(waitTasks')
      BY <1>1, <2>3, <3>0, <3>1, HeadAndTail
    <3>3. u \in ToSet(tasks) /\ u \in Task /\ Unstarted(u)
      BY <1>1, <3>2 DEF StartedOnce
    <3>4. status'[u] = "running" /\ \A t \in Task \ {u} : status'[t] = status[t]
      BY <3>1, <3>3, StartEffect
    <3>5. u \in Running'
      BY <2>0, <3>3, <3>4 DEF Running
    <3> QED BY <1>1, <1>2, <2>0, <3>2, <3>4, <3>5
  <2> QED BY <2>1, <2>2, <2>3
<1>9. ASSUME NEW s \in starters, Starter(s)
      PROVE  /\ \A c \in Client : client'[c].pc \in Pausing => client'[c].op = "pause"
             /\ \A t \in ToSet(tasks') : status'[t] = "wait" => t \in ToSet(waitTasks')
             /\ waitTasks' # <<>> /\ Running' = {} => WakeUpIsDue'
  <2>1. tasks' = tasks /\ waitTasks' = waitTasks /\ client' = client
    BY <1>9, StarterEffect
  <2>2. /\ WakeUpIsDue => WakeUpIsDue'
        /\ \A u \in Task : status'[u] # status[u] => WakeUpIsDue'
    BY <1>1, <1>9, WakeUpStarter
  <2>3. \A u \in Task : \/ status'[u] = status[u]
                        \/ status[u] = "running" /\ status'[u] \in {"error", "done"}
    <3>1. \/ \E r \in starters : Starter(r)
          \/ \E r \in Task : Watcher(r) \/ FetcherEnds(r)
      BY <1>9
    <3> QED BY <3>1, OthersStop
  <2> QED BY <1>3, <2>1, <2>2, <2>3
<1>10. ASSUME NEW v \in Task, Watcher(v) \/ FetcherEnds(v)
      PROVE  /\ \A c \in Client : client'[c].pc \in Pausing => client'[c].op = "pause"
             /\ \A t \in ToSet(tasks') : status'[t] = "wait" => t \in ToSet(waitTasks')
             /\ waitTasks' # <<>> /\ Running' = {} => WakeUpIsDue'
  <2>1. tasks' = tasks /\ waitTasks' = waitTasks /\ client' = client
    BY <1>10, WatcherEffect
  <2>2. /\ WakeUpIsDue => WakeUpIsDue'
        /\ \A u \in Task : status'[u] # status[u] => WakeUpIsDue'
    BY <1>10, WakeUpWatcher
  <2>3. \A u \in Task : \/ status'[u] = status[u]
                        \/ status[u] = "running" /\ status'[u] \in {"error", "done"}
    <3>1. \/ \E r \in starters : Starter(r)
          \/ \E r \in Task : Watcher(r) \/ FetcherEnds(r)
      BY <1>10
    <3> QED BY <3>1, OthersStop
  <2> QED BY <1>3, <2>1, <2>2, <2>3
<1> QED BY <1>4, <1>5, <1>6, <1>7, <1>8, <1>9, <1>10 DEF Next

\* With one slot and calls of create, Pause and Delete only, a task that waits while no task
\* runs has been seen to: whoever freed the slot, a client, a start handler or a watcher,
\* has called notifyRunning or is about to, and nobody's call is used up by a task that was
\* queued too late for it.  (Pause and Delete call it once however many slots they free,
\* pauseAll and deleteAll never do.)
THEOREM WaitingIsServed == Spec => [](EachSlotNotifies => QueueIsServed)
<1> DEFINE Inv == TypeInv /\ BoundInv /\ OnceInv /\ QueueInv
<1>1. Init => Inv
  <2> SUFFICES ASSUME Init PROVE Inv
    OBVIOUS
  <2>1. Running = {} /\ ToSet(tasks) = {} /\ waitTasks = <<>>
    BY DEF Init, Running, ToSet
  <2>2. BoundInv
    <3>0. Cardinality(Running) = 0
      BY <2>1, FS_EmptySet
    <3>1. RunningBound
      BY <3>0, MaxRunningAssumption DEF RunningBound
    <3> QED BY <3>1 DEF Init, BoundInv, OpsAreAllowed, Idle
  <2>3. QueueInv
    BY <2>1 DEF Init, QueueInv, Idle, Pausing
  <2> QED BY <2>2, <2>3, InitTypes, OnceInit
<1>2. Inv /\ [Next]_vars => Inv'
  BY TypeStep, BoundStep, OnceStep, QueueStep DEF BoundInv
<1>3. Inv => (EachSlotNotifies => QueueIsServed)
  <2> SUFFICES ASSUME Inv, EachSlotNotifies, Quiet,
                      NEW t \in ToSet(tasks), status[t] = "wait"
               PROVE  remainRunningCount <= 0
    BY DEF QueueIsServed
  <2>1. waitTasks # <<>>
    BY DEF QueueInv, ToSet
  <2>2. ~WakeUpIsDue
    BY DEF Quiet, WakeUpIsDue
  <2>3. Running # {}
    BY <2>1, <2>2 DEF QueueInv
  <2>4. IsFiniteSet(Running)
    BY RunningIsFinite DEF TypeInv, TypeOK
  <2>5. Cardinality(Running) \in Nat /\ Cardinality(Running) # 0
    BY <2>3, <2>4, HasElement
  <2> QED BY <2>5 DEF remainRunningCount, EachSlotNotifies
<1> QED BY <1>1, <1>2, <1>3, PTL DEF Spec
=============================================================================
