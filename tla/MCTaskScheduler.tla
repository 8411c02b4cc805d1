--------------------------- MODULE MCTaskScheduler ---------------------------
(* Model-checking instances of TaskScheduler. *)
EXTENDS TaskScheduler, TLC

SafeSetups ==
  {[ops |-> {"create", "pause", "delete"}, calls |-> 4, kinds |-> {"resolve", "download"},
    faults |-> 1, callers |-> Client]}

\* Two callers; and one that uses every method, while the records may fail.
LiveSetups ==
  {[ops |-> {"create", "continue", "pauseAll"}, calls |-> 4, kinds |-> {}, faults |-> 0,
    callers |-> Client],
   [ops |-> {"create", "pause", "pauseAll", "continue", "continueAll", "continueBatch",
             "delete", "deleteAll"},
    calls |-> 3, kinds |-> {"resolve", "save", "download"}, faults |-> 1,
    callers |-> {CHOOSE c \in Client : TRUE}]}

\* One caller, who pauses several tasks with one call.
PauseSetups ==
  {[ops |-> {"create", "pause"}, calls |-> 5, kinds |-> {}, faults |-> 0,
    callers |-> Client]}

\* One caller, who continues everything while a download fails.
ContinueSetups ==
  {[ops |-> {"create", "continueAll"}, calls |-> 3, kinds |-> {"resolve"}, faults |-> 1,
    callers |-> Client]}

Symmetric == Permutations(Task) \cup Permutations(Client)
=============================================================================
