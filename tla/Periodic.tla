------------------------------ MODULE Periodic ------------------------------
(***************************************************************************)
(* Periodic callbacks (common/common.c).                                   *)
(*                                                                         *)
(* napaSchedulePeriodic allocates a struct and arms a one-shot event with  *)
(* it.  The event arms its successor before it calls the user; a stop only *)
(* clears the frequency, and the next event frees the struct.  A callback  *)
(* may stop or schedule anything, itself included, and may run the event   *)
(* loop again with napaYield, so callbacks nest.                           *)
(*                                                                         *)
(* Frequencies are positive or 0.  The user stops a struct at most once,   *)
(* and only one that was scheduled with a positive frequency.              *)
(***************************************************************************)
EXTENDS Naturals, Sequences, SequencesExt

CONSTANTS
  Handles,      \* the addresses malloc returns
  MaxNesting    \* bound on the callbacks in progress

PeriodicAssumption == MaxNesting \in Nat \ {0}

VARIABLES
  periodic,     \* periodic[h]: the struct at address h
  events,       \* events[h]: how many one-shot events hold address h
  callbacks     \* the user's callbacks in progress, the innermost last

vars == <<periodic, events, callbacks>>

\* "live" has a positive frequency, "stopped" frequency 0.
Structs == {"free", "live", "stopped"}

TypeOK ==
  /\ periodic \in [Handles -> Structs]
  /\ events \in [Handles -> Nat]
  /\ callbacks \in Seq(Handles)

Init ==
  /\ periodic = [h \in Handles |-> "free"]
  /\ events = [h \in Handles |-> 0]
  /\ callbacks = <<>>

napaSchedulePeriodic(h, frequency) ==
  /\ periodic[h] = "free"
  /\ periodic' = [periodic EXCEPT ![h] = frequency]
  /\ events' = [events EXCEPT ![h] = @ + 1]
  /\ UNCHANGED callbacks

\* Mutation of napaStopPeriodic: the struct is freed at once.
napaStopPeriodicFrees(h) ==
  /\ periodic[h] = "live"
  /\ periodic' = [periodic EXCEPT ![h] = "free"]
  /\ UNCHANGED <<events, callbacks>>

napaStopPeriodic(h) ==
  /\ periodic[h] = "live"
  /\ periodic' = [periodic EXCEPT ![h] = "stopped"]
  /\ UNCHANGED <<events, callbacks>>

Stopped(h) ==
  /\ periodic[h] # "live"
  /\ periodic' = [periodic EXCEPT ![h] = "free"]
  /\ events' = [events EXCEPT ![h] = @ - 1]
  /\ UNCHANGED callbacks

\* The event that fired is replaced by the one it arms.
Call(h) ==
  /\ periodic[h] = "live"
  /\ callbacks' = Append(callbacks, h)
  /\ UNCHANGED <<periodic, events>>

\* With a callback in progress the event is run by its napaYield.
schedule_periodic_callback(h) ==
  /\ events[h] > 0
  /\ Len(callbacks) < MaxNesting
  /\ Stopped(h) \/ Call(h)

\* The innermost callback returns.
Return ==
  /\ callbacks # <<>>
  /\ callbacks' = Front(callbacks)
  /\ UNCHANGED <<periodic, events>>

Next ==
  \/ \E h \in Handles :
       \/ \E frequency \in {"live", "stopped"} : napaSchedulePeriodic(h, frequency)
       \/ napaStopPeriodic(h)
       \/ schedule_periodic_callback(h)
  \/ Return

Spec == Init /\ [][Next]_vars

-----------------------------------------------------------------------------
\* An allocated struct has exactly one event, a freed one none: no event uses
\* freed memory, frees it twice, or doubles the frequency, and no struct is
\* leaked, whatever nested callbacks schedule and stop.
OneEvent == \A h \in Handles : events[h] = IF periodic[h] = "free" THEN 0 ELSE 1
=============================================================================
