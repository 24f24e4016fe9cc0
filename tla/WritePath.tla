------------------------------ MODULE WritePath ------------------------------
(***************************************************************************)
(* The write path of the conversation engine on Postgres: API requests     *)
(* append batches of events (internal/adapters/postgres/event_store.go),   *)
(* and the relay drains the transactional outbox into the projection       *)
(* (internal/ports/in/relay.go, cmd/relay/main.go).                        *)
(*                                                                         *)
(* An event is its sequence number here; what the events say is the        *)
(* business of module ConversationEngine, which extends this one.  The     *)
(* order in which numbers are handed out, rows become visible, the         *)
(* checkpoint moves and rows are marked done is all of this module.        *)
(*                                                                         *)
(* Simplifications: a Postgres transaction takes effect at its commit; a   *)
(* statement that reads sees the rows committed so far (READ COMMITTED).   *)
(***************************************************************************)
EXTENDS DrainRun

CONSTANTS
  Request,    \* the Append calls made by the API, each executed once
  BatchSize,  \* how many events one Append call may carry
  Relay,      \* the running relay processes (one, in docker-compose.yml)
  Fault,      \* the classes of failure the environment may produce
  MaxFaults   \* bound: how many failures one behaviour may contain

ASSUME BatchSizeAssumption == BatchSize \subseteq Nat \ {0}
ASSUME MaxFaultsAssumption == MaxFaults \in Nat

VARIABLES
  nextSeq,    \* the identity generator of conversation_events.sequence
  req,        \* per request: how far its Append call is
  events,     \* the rows of conversation_events visible to everybody
  outbox,     \* the rows of conversation_outbox visible to everybody
  done,       \* the outbox rows whose done_at is set
  checkpoint, \* the one row of projection_checkpoint
  applied,    \* history: the events applied to the projection, in order
  relay,      \* per relay: the local variables of Drain
  faults      \* how many failures have happened

apiVars   == <<nextSeq, req, events, outbox>>
relayVars == <<done, checkpoint, applied, relay>>
vars      == <<nextSeq, req, events, outbox, done, checkpoint, applied, relay,
               faults>>

RequestState == {"new", "open", "accepted", "failed", "unknown"}

RowsOf(seqs) == {seqs[i] : i \in DOMAIN seqs}

-----------------------------------------------------------------------------
(***************************************************************************)
(* Small pure steps of the code.                                           *)
(***************************************************************************)

\* GENERATED ALWAYS AS IDENTITY: a number is used up when it is drawn,
\* whatever becomes of the transaction that drew it.
DrawSequence(n) == n + 1

\* Mutant of ReturnedSequence: the number of the first event of the batch.
ReturnFirstSequence(seqs) == seqs[1]

\* Append returns the sequence of the last event of the batch.
ReturnedSequence(seqs) == seqs[Len(seqs)]

\* Mutants of SetProjectionCheckpoint: no WHERE clause; the number expected
\* next is stored instead of the number applied last.
SetCheckpointAlways(current, seq) == seq
SetCheckpointPastRun(current, seq) == IF current < seq THEN seq + 1 ELSE current

\* UPDATE projection_checkpoint SET sequence = $1 WHERE sequence < $1
SetProjectionCheckpoint(current, seq) ==
  IF current < seq THEN seq ELSE current

-----------------------------------------------------------------------------
Idle == [pc |-> "idle", pending |-> {}, next |-> 0, last |-> 0]

Init ==
  /\ nextSeq = 1
  /\ req = [r \in Request |-> [state |-> "new", size |-> 0, seqs |-> <<>>]]
  /\ events = {}
  /\ outbox = {}
  /\ done = {}
  /\ checkpoint = 0
  /\ applied = <<>>
  /\ relay = [rl \in Relay |-> Idle]
  /\ faults = 0

\* A failure of the given class happens in this step.
Fails(class) ==
  /\ class \in Fault
  /\ faults < MaxFaults
  /\ faults' = faults + 1

(***************************************************************************)
(* Store.Append, called by a request.                                      *)
(***************************************************************************)

\* pool.Begin
Begin(r, n) ==
  /\ req[r].state = "new"
  /\ req' = [req EXCEPT ![r] = [state |-> "open", size |-> n, seqs |-> <<>>]]
  /\ UNCHANGED <<nextSeq, events, outbox, faults>>
  /\ UNCHANGED relayVars

\* pool.Begin returns an error: nothing was written.
BeginFails(r) ==
  /\ req[r].state = "new"
  /\ Fails("begin")
  /\ req' = [req EXCEPT ![r].state = "failed"]
  /\ UNCHANGED <<nextSeq, events, outbox>>
  /\ UNCHANGED relayVars

\* Mutant of InsertEvent: the insert runs outside the transaction.
InsertEventAutocommit(r) ==
  /\ req[r].state = "open"
  /\ Len(req[r].seqs) < req[r].size
  /\ req' = [req EXCEPT ![r].seqs = Append(@, nextSeq)]
  /\ nextSeq' = DrawSequence(nextSeq)
  /\ events' = events \cup {nextSeq}
  /\ outbox' = outbox \cup {nextSeq}
  /\ UNCHANGED faults
  /\ UNCHANGED relayVars

\* appendEvent: one event row and its outbox row, inside the transaction.
InsertEvent(r) ==
  /\ req[r].state = "open"
  /\ Len(req[r].seqs) < req[r].size
  /\ req' = [req EXCEPT ![r].seqs = Append(@, nextSeq)]
  /\ nextSeq' = DrawSequence(nextSeq)
  /\ UNCHANGED <<events, outbox, faults>>
  /\ UNCHANGED relayVars

\* tx.Commit: event rows and outbox rows become visible together.
CommitRows(r) ==
  /\ req[r].state = "open"
  /\ Len(req[r].seqs) = req[r].size
  /\ events' = events \cup RowsOf(req[r].seqs)
  /\ outbox' = outbox \cup RowsOf(req[r].seqs)
  /\ UNCHANGED nextSeq
  /\ UNCHANGED relayVars

\* The commit succeeds and the handler answers 202 with after=<sequence>.
Commit(r) ==
  /\ CommitRows(r)
  /\ req' = [req EXCEPT ![r].state = "accepted"]
  /\ UNCHANGED faults

\* The commit takes effect but its result never reaches the caller (the
\* connection, the API process or the client is gone).
CommitUnacknowledged(r) ==
  /\ CommitRows(r)
  /\ Fails("lostAck")
  /\ req' = [req EXCEPT ![r].state = "unknown"]

\* Every other way out of Append: a statement fails, the request's context
\* is cancelled, the API process dies.  The rows are gone; the numbers that
\* were drawn stay used.
Rollback(r) ==
  /\ req[r].state = "open"
  /\ Fails("rollback")
  /\ req' = [req EXCEPT ![r].state = "failed"]
  /\ UNCHANGED <<nextSeq, events, outbox>>
  /\ UNCHANGED relayVars

(***************************************************************************)
(* Drain, called by a relay once per tick.                                 *)
(***************************************************************************)

\* Mutant of ReadPending: the rows are claimed as done when they are read.
ReadPendingClaiming(rl) ==
  /\ relay[rl].pc = "idle"
  /\ relay' = [relay EXCEPT ![rl] = [pc |-> "pending",
                                     pending |-> outbox \ done,
                                     next |-> 0, last |-> 0]]
  /\ done' = outbox
  /\ UNCHANGED <<checkpoint, applied, faults>>
  /\ UNCHANGED apiVars

\* r.outbox.Pending
ReadPending(rl) ==
  /\ relay[rl].pc = "idle"
  /\ relay' = [relay EXCEPT ![rl] = [pc |-> "pending",
                                     pending |-> outbox \ done,
                                     next |-> 0, last |-> 0]]
  /\ UNCHANGED <<done, checkpoint, applied, faults>>
  /\ UNCHANGED apiVars

\* r.projection.Checkpoint, then the loop that collects the run; an empty
\* run ends the drain.
ReadCheckpoint(rl) ==
  /\ relay[rl].pc = "pending"
  /\ \E last \in {checkpoint} \cup relay[rl].pending :
       /\ IsRun(relay[rl].pending, checkpoint + 1, last)
       /\ relay' = [relay EXCEPT ![rl] =
                      IF last = checkpoint
                      THEN Idle
                      ELSE [pc |-> "apply", pending |-> {},
                            next |-> checkpoint + 1, last |-> last]]
  /\ UNCHANGED <<done, checkpoint, applied, faults>>
  /\ UNCHANGED apiVars

\* The projection transaction commits: the run is applied, the checkpoint
\* moves once.
ApplyRun(rl) ==
  /\ relay[rl].pc = "apply"
  /\ applied' = applied \o Interval(relay[rl].next, relay[rl].last)
  /\ checkpoint' = SetProjectionCheckpoint(checkpoint, relay[rl].last)
  /\ UNCHANGED done
  /\ UNCHANGED apiVars

Apply(rl) ==
  /\ ApplyRun(rl)
  /\ relay' = [relay EXCEPT ![rl].pc = "mark"]
  /\ UNCHANGED faults

\* Mutant of ApplyUnacknowledged: the checkpoint is saved after the
\* transaction that applies the entries, not in it.
ApplyWithoutCheckpoint(rl) ==
  /\ relay[rl].pc = "apply"
  /\ applied' = applied \o Interval(relay[rl].next, relay[rl].last)
  /\ Fails("afterApply")
  /\ relay' = [relay EXCEPT ![rl] = Idle]
  /\ UNCHANGED <<done, checkpoint>>
  /\ UNCHANGED apiVars

\* The projection transaction commits but Apply reports an error.
ApplyUnacknowledged(rl) ==
  /\ ApplyRun(rl)
  /\ Fails("afterApply")
  /\ relay' = [relay EXCEPT ![rl] = Idle]

\* The projection transaction fails on the data itself (a constraint
\* violation) and Apply returns the error.  Whether it does depends on what
\* the events say, so a run that admits it admits it at any time; module
\* ConversationEngine says when it happens.
ApplyRejected(rl) ==
  /\ relay[rl].pc = "apply"
  /\ "reject" \in Fault
  /\ relay' = [relay EXCEPT ![rl] = Idle]
  /\ UNCHANGED <<done, checkpoint, applied, faults>>
  /\ UNCHANGED apiVars

\* r.outbox.MarkDone, one statement per entry of the run.
MarkDone(rl) ==
  /\ relay[rl].pc = "mark"
  /\ done' = done \cup {relay[rl].next}
  /\ relay' = IF relay[rl].next = relay[rl].last
              THEN [relay EXCEPT ![rl] = Idle]
              ELSE [relay EXCEPT ![rl].next = @ + 1]
  /\ UNCHANGED <<checkpoint, applied, faults>>
  /\ UNCHANGED apiVars

\* Drain is cut short: a call returns an error (the loop of main logs it and
\* waits for the next tick), SIGTERM cancels its context, or the process
\* dies and is restarted.  Its local variables are lost either way.
DrainFails(rl) ==
  /\ relay[rl].pc # "idle"
  /\ Fails(IF relay[rl].pc = "mark" THEN "afterApply" ELSE "beforeApply")
  /\ relay' = [relay EXCEPT ![rl] = Idle]
  /\ UNCHANGED <<done, checkpoint, applied>>
  /\ UNCHANGED apiVars

-----------------------------------------------------------------------------
RequestStep(r) ==
  \/ \E n \in BatchSize : Begin(r, n)
  \/ BeginFails(r)
  \/ InsertEvent(r)
  \/ Commit(r)
  \/ CommitUnacknowledged(r)
  \/ Rollback(r)

RelayStep(rl) ==
  \/ ReadPending(rl)
  \/ ReadCheckpoint(rl)
  \/ Apply(rl)
  \/ ApplyUnacknowledged(rl)
  \/ ApplyRejected(rl)
  \/ MarkDone(rl)
  \/ DrainFails(rl)

Next ==
  \/ \E r \in Request : RequestStep(r)
  \/ \E rl \in Relay : RelayStep(rl)

Spec == Init /\ [][Next]_vars

\* A handler that has begun runs on, and the relay's ticker keeps ticking.
\* Nothing obliges a request to arrive or a failure to happen.
Fairness ==
  /\ \A r \in Request : WF_vars(InsertEvent(r)) /\ WF_vars(Commit(r))
  /\ \A rl \in Relay : WF_vars(ReadPending(rl) \/ ReadCheckpoint(rl)
                                 \/ Apply(rl) \/ MarkDone(rl))

FairSpec == Spec /\ Fairness

-----------------------------------------------------------------------------
(***************************************************************************)
(* Properties.                                                             *)
(***************************************************************************)

\* The numbers handed out so far.
Drawn == 1..(nextSeq - 1)

\* Types: every row, the checkpoint and every entry a relay holds carries a
\* number that the identity column has handed out; a batch never holds more
\* rows than Append was given; only outbox rows are marked done.
TypeOK ==
  /\ nextSeq \in Nat \ {0}
  /\ req \in [Request -> [state : RequestState, size : Nat, seqs : Seq(Nat)]]
  /\ \A r \in Request : RowsOf(req[r].seqs) \subseteq Drawn
  /\ \A r \in Request : Len(req[r].seqs) <= req[r].size
  /\ events \subseteq Drawn
  /\ outbox \subseteq Drawn
  /\ done \subseteq outbox
  /\ checkpoint \in Nat /\ checkpoint < nextSeq
  /\ applied \in Seq(Nat) /\ RowsOf(applied) \subseteq Drawn
  /\ relay \in [Relay -> [pc : {"idle", "pending", "apply", "mark"},
                          pending : SUBSET Drawn, next : Nat, last : Nat]]
  /\ faults \in 0..MaxFaults

Committed(r) == req[r].state \in {"accepted", "unknown"}

\* Append is all or nothing: the rows of a batch are in the log and in the
\* outbox if its transaction committed, all of them and both copies, and none
\* of them is in either if it did not, however requests interleave and fail.
BatchAllOrNothing ==
  \A r \in Request :
    LET rows == RowsOf(req[r].seqs) IN
    IF Committed(r)
    THEN Len(req[r].seqs) = req[r].size /\ rows \subseteq events \cap outbox
    ELSE rows \cap (events \cup outbox) = {}

\* No committed event can be missed: one whose number the checkpoint has not
\* reached is still pending in the outbox, whatever the relays were doing
\* when they failed.
NothingLost ==
  \A s \in events : s <= checkpoint \/ s \in outbox \ done

\* An append never becomes visible behind the checkpoint.  Numbers are drawn
\* before the commit, so a slow transaction commits a lower number after a
\* fast one committed a higher one; a consumer that had moved past it would
\* miss it for good.
NoCommitBehindCheckpoint ==
  [][\A s \in events' \ events : s > checkpoint]_vars

\* The checkpoint never moves back, even if a drain that is left over from a
\* killed relay commits after its successor has got further.
CheckpointMonotone == [][checkpoint' >= checkpoint]_vars

\* The checkpoint has reached the number that an accepted request was given.
Projected(r) ==
  /\ req[r].state = "accepted"
  /\ checkpoint >= ReturnedSequence(req[r].seqs)

\* The promise behind 202 and ?after=N: once the checkpoint has reached the
\* number an append returned, every event of that append is in the
\* projection.
AcceptedIsReadable ==
  \A r \in Request :
    Projected(r) => RowsOf(req[r].seqs) \subseteq RowsOf(applied)

\* With one relay every event up to the checkpoint has been applied exactly
\* once and in order, and nothing beyond the checkpoint has, whichever step
\* of a drain failed before.
ExactlyOnceInOrder == applied = Interval(1, checkpoint)

\* With one relay the write path implements the abstract feed.
Feed == INSTANCE OrderedDelivery WITH published <- events, delivered <- applied
ImplementsOrderedDelivery == Feed!FeedSpec

(***************************************************************************)
(* What can bring the relay to a halt.                                     *)
(***************************************************************************)

\* A number that was drawn and that no row will ever carry.
DeadNumber(s) ==
  /\ s \in Drawn \ events
  /\ \A r \in Request : req[r].state = "open" => s \notin RowsOf(req[r].seqs)

\* A row already applied but not marked done, with no drain under way that
\* is going to mark it or that could still collect a run without it.
Leftover(s) ==
  /\ s \in outbox \ done
  /\ s <= checkpoint
  /\ \A rl \in Relay :
       \/ relay[rl].pc = "idle"
       \/ relay[rl].pc = "pending" /\ s \in relay[rl].pending

\* No later drain goes past a number that will never be used, and a row left
\* unmarked keeps every later drain from applying anything: Drain wants the
\* first pending entry to be checkpoint + 1, and has no other way on.
HaltsAreFinal ==
  [][\A s \in Drawn :
       /\ DeadNumber(s) => DeadNumber(s)' /\ checkpoint' < s
       /\ Leftover(s) => Leftover(s)' /\ checkpoint' = checkpoint]_vars

\* An accepted write is in the projection eventually, so that a client that
\* follows the Location of its 202 is answered with the conversation.
AcceptedIsProjected ==
  \A r \in Request : req[r].state = "accepted" ~> Projected(r)

\* Under every kind of failure, a committed write, also one whose caller never
\* learned that it committed, is in the projection eventually unless a dead
\* number below it or a leftover row stops the relay: those two are the only
\* ways the write path gets stuck.
ProjectedUnlessHalted ==
  \A r \in Request :
    Committed(r) ~>
      /\ Committed(r)
      /\ \/ checkpoint >= ReturnedSequence(req[r].seqs)
         \/ \E s \in 1..ReturnedSequence(req[r].seqs) : DeadNumber(s)
         \/ \E s \in Drawn : Leftover(s)

\* What the doc comment of out.Projection says of a reader that compares the
\* checkpoint with the number it waits for: once the number is reached, it
\* finds no batch, its own or another's, partly in the projection.
NoPartialBatch ==
  (\E q \in Request : Projected(q)) =>
    \A r \in Request :
      LET rows == RowsOf(req[r].seqs) IN
      rows \cap RowsOf(applied) # {} => rows \subseteq RowsOf(applied)
==============================================================================
