------------------------------ MODULE DrainRun ------------------------------
(***************************************************************************)
(* Which entries one Drain hands to the projection                         *)
(* (internal/ports/in/relay.go).  The relay is written against the ports   *)
(* Outbox and Projection, so WritePath (Postgres) and MemoryAdapter (the   *)
(* in-memory adapters) share this.                                         *)
(***************************************************************************)
EXTENDS Naturals, Sequences

\* Mutant of IsRun: the loop takes every pending entry, gaps included.
IsRunAcrossGaps(pending, next, last) ==
  IF pending = {} \/ \E s \in pending : s < next
  THEN last = next - 1
  ELSE last \in pending /\ \A s \in pending : s <= last

\* Mutant of IsRun: the loop expects one entry too many before it stops.
IsRunOfTwoOrMore(pending, next, last) ==
  IF next + 1 \in pending /\ ~ \E s \in pending : s < next
  THEN next..last \subseteq pending /\ last + 1 \notin pending
  ELSE last = next - 1

\* Mutant of IsRun: one entry per drain.
IsRunOfOne(pending, next, last) ==
  IF (\E s \in pending : s < next) \/ next \notin pending
  THEN last = next - 1
  ELSE last = next

\* The loop of Drain over the pending entries, which are in ascending order:
\* next..last is the run it collects.  An entry other than the expected one
\* ends the loop, so one entry below next leaves the run empty.
IsRun(pending, next, last) ==
  IF \E s \in pending : s < next
  THEN last = next - 1
  ELSE next..last \subseteq pending /\ last + 1 \notin pending

\* The entries of a run, in the order Apply goes through them.
Interval(from, to) == [i \in 1..(to + 1 - from) |-> from + i - 1]
=============================================================================
