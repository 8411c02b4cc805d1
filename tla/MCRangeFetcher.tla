--------------------------- MODULE MCRangeFetcher ---------------------------
(* Model-checking instance of RangeFetcher: the budgets of its runs.       *)
EXTENDS RangeFetcher

Calm == [kinds |-> {}, faults |-> 0, pauses |-> 0, restarts |-> 0, prefix |-> 0,
         early |-> FALSE, help |-> "always"]

\* Refusals with 403, a fallback that breaks or is interrupted while it holds a
\* prefix, a death before the takeover and an early Start are left out: each of
\* them loses bytes.
SafeBudgets ==
  { \* Every other failure, over a prefix.
    [Calm EXCEPT !.kinds = FaultKind \ {"forbidden", "prefetch"}, !.faults = 2,
                 !.prefix = 2],
    \* The same and a broken prefetch and a pause, without a prefix.
    [Calm EXCEPT !.kinds = FaultKind \ {"forbidden"}, !.faults = 2, !.pauses = 1],
    \* A long prefix and a pause, with failures that cause no fallback.
    [Calm EXCEPT !.kinds = {"exempt", "disk"}, !.faults = 2, !.pauses = 1, !.prefix = 4],
    \* The Resolve response may deliver everything before Start.
    [Calm EXCEPT !.pauses = 1, !.prefix = Size],
    \* The death of the process at any moment.
    [Calm EXCEPT !.kinds = {"net", "disk"}, !.faults = 1, !.restarts = 1] }

\* Three connections are a batch of one and a batch of two.
LiveBudgets ==
  { \* Every member of a batch may be refused or give up.
    [Calm EXCEPT !.help = "no", !.kinds = {"counted", "forbidden", "terminal"}, !.faults = 2],
    \* A retry.
    [Calm EXCEPT !.help = "no", !.kinds = {"net"}, !.faults = 1],
    \* Pause at every moment, also during the fallback.
    [Calm EXCEPT !.help = "no", !.kinds = {"forbidden"}, !.faults = 1, !.pauses = 1],
    \* One connection helps another one.
    [Calm EXCEPT !.help = "once"] }

ForbiddenBudgets == { [Calm EXCEPT !.kinds = {"forbidden"}, !.faults = 1] }
=============================================================================
