--------------------------- MODULE OrderedDelivery ---------------------------
(***************************************************************************)
(* What the write path promises the read side, with no transactions, no    *)
(* outbox and no relay in it: events are published under positive sequence *)
(* numbers, and a projection is handed them exactly once each, in sequence *)
(* order, without a hole.  See docs/write-path.md and the doc comments of  *)
(* out.EventStore, out.Outbox and out.Projection.                          *)
(***************************************************************************)
EXTENDS Naturals, Sequences

VARIABLES
  published,  \* the sequence numbers of the events in the log
  delivered   \* the sequence numbers handed to the projection, in order

feedVars == <<published, delivered>>

FeedInit ==
  /\ published = {}
  /\ delivered = <<>>

\* The events numbered from..to, in order.
Interval(from, to) == [i \in 1..(to + 1 - from) |-> from + i - 1]

\* A write adds its events to the log in one step, and never behind what the
\* projection has already been handed.
Publish ==
  /\ published \subseteq published'
  /\ \A s \in published' \ published : s \in Nat /\ s > Len(delivered)
  /\ UNCHANGED delivered

\* The projection is handed the next events of the log, up to number last.
Deliver(last) ==
  /\ last > Len(delivered)
  /\ (Len(delivered) + 1)..last \subseteq published
  /\ delivered' = delivered \o Interval(Len(delivered) + 1, last)
  /\ UNCHANGED published

FeedNext ==
  \/ Publish
  \/ \E last \in published : Deliver(last)

FeedSpec == FeedInit /\ [][FeedNext]_feedVars

==============================================================================
