------------------------------- MODULE Startup -------------------------------
(***************************************************************************)
(* How the processes come up: every replica of cmd/api migrates the        *)
(* database (internal/adapters/postgres/migrate.go) before it serves;      *)
(* cmd/relay does not migrate and simply starts to drain.  Nothing makes   *)
(* them wait for each other: docker-compose.yml waits for Postgres only,   *)
(* and starts a process again that exits with an error.                    *)
(*                                                                         *)
(* The goose provider and its session lock are external and modelled from  *)
(* how Migrate uses them.  A migration is one transaction, together with   *)
(* the row that records it.  What is accepted and drained is counted only. *)
(***************************************************************************)
EXTENDS Naturals, Sequences

CONSTANTS
  Replica,     \* the API replicas
  Migrations,  \* how many migrations are embedded in the binary
  MaxAccepted, \* bound: how many events the API accepts
  MaxExits,    \* bound: how many times a process exits
  None         \* no replica

ASSUME MigrationsAssumption == Migrations \in Nat \ {0}
ASSUME BoundsAssumption == MaxAccepted \in Nat /\ MaxExits \in Nat
ASSUME NoneAssumption == None \notin Replica

VARIABLES
  api,      \* per replica: how far main is, and the migrations still to run
  lock,     \* the holder of the advisory lock
  ran,      \* the migrations that committed, in order (goose_db_version)
  relay,    \* "down", "up", or "apply" while a drain has a run to apply
  accepted, \* how many events have been appended
  drained,  \* how many of them have been applied to the projection
  exits     \* how many times a process has exited

vars == <<api, lock, ran, relay, accepted, drained, exits>>

Down == [pc |-> "down", todo |-> <<>>]

Init ==
  /\ api = [a \in Replica |-> Down]
  /\ lock = None
  /\ ran = <<>>
  /\ relay = "down"
  /\ accepted = 0
  /\ drained = 0
  /\ exits = 0

\* The tables are as the queries of this commit expect them.
SchemaComplete == Len(ran) >= Migrations

\* The event log, the outbox and the checkpoint come with the first migration.
OutboxExists == Len(ran) >= 1

Pending == [i \in 1..(Migrations - Len(ran)) |-> Len(ran) + i]

Goto(a, pc, todo) == api' = [api EXCEPT ![a] = [pc |-> pc, todo |-> todo]]

-----------------------------------------------------------------------------
(***************************************************************************)
(* cmd/api                                                                 *)
(***************************************************************************)
Boot(a) ==
  /\ api[a].pc = "down"
  /\ Goto(a, "check", <<>>)
  /\ UNCHANGED <<lock, ran, relay, accepted, drained, exits>>

\* Mutant of HasPending: satisfied once the first migration is in.
HasNoTables(a) ==
  /\ api[a].pc = "check"
  /\ Goto(a, IF OutboxExists THEN "connect" ELSE "lock", Pending)
  /\ UNCHANGED <<lock, ran, relay, accepted, drained, exits>>

\* provider.Up looks whether there is anything to do before it locks.
HasPending(a) ==
  /\ api[a].pc = "check"
  /\ Goto(a, IF SchemaComplete THEN "connect" ELSE "lock", Pending)
  /\ UNCHANGED <<lock, ran, relay, accepted, drained, exits>>

\* Mutant of Lock: what was found before the lock is run.
LockWithoutLooking(a) ==
  /\ api[a].pc = "lock"
  /\ lock = None
  /\ lock' = a
  /\ Goto(a, "migrate", api[a].todo)
  /\ UNCHANGED <<ran, relay, accepted, drained, exits>>

\* pg_try_advisory_lock, retried until it succeeds; the migrations to run are
\* listed under the lock.
Lock(a) ==
  /\ api[a].pc = "lock"
  /\ lock = None
  /\ lock' = a
  /\ Goto(a, "migrate", Pending)
  /\ UNCHANGED <<ran, relay, accepted, drained, exits>>

\* One pending migration commits.
RunMigration(a) ==
  /\ api[a].pc = "migrate"
  /\ api[a].todo # <<>>
  /\ ran' = Append(ran, Head(api[a].todo))
  /\ Goto(a, "migrate", Tail(api[a].todo))
  /\ UNCHANGED <<lock, relay, accepted, drained, exits>>

Unlock(a) ==
  /\ api[a].pc = "migrate"
  /\ api[a].todo = <<>>
  /\ lock' = None
  /\ Goto(a, "connect", <<>>)
  /\ UNCHANGED <<ran, relay, accepted, drained, exits>>

\* NewOutPorts, NewApplication and ListenAndServe.
Serve(a) ==
  /\ api[a].pc = "connect"
  /\ Goto(a, "serve", <<>>)
  /\ UNCHANGED <<lock, ran, relay, accepted, drained, exits>>

\* A conversation is started; that needs no table of a later migration.
AcceptWrite(a) ==
  /\ api[a].pc = "serve"
  /\ OutboxExists
  /\ accepted < MaxAccepted
  /\ accepted' = accepted + 1
  /\ UNCHANGED <<api, lock, ran, relay, drained, exits>>

\* Mutant of ApiExits: the lock is not tied to the session.
ApiExitsKeepingLock(a) ==
  /\ api[a].pc # "down"
  /\ exits < MaxExits
  /\ exits' = exits + 1
  /\ Goto(a, "down", <<>>)
  /\ UNCHANGED <<lock, ran, relay, accepted, drained>>

\* os.Exit(1) after any error, no lock within the provider's patience
\* included, or the process dies: its session ends and with it the lock, and
\* a migration under way is rolled back.
ApiExits(a) ==
  /\ api[a].pc # "down"
  /\ exits < MaxExits
  /\ exits' = exits + 1
  /\ Goto(a, "down", <<>>)
  /\ lock' = IF lock = a THEN None ELSE lock
  /\ UNCHANGED <<ran, relay, accepted, drained>>

-----------------------------------------------------------------------------
(***************************************************************************)
(* cmd/relay                                                               *)
(***************************************************************************)
RelayBoots ==
  /\ relay = "down"
  /\ relay' = "up"
  /\ UNCHANGED <<api, lock, ran, accepted, drained, exits>>

\* Mutant of Tick: one pending entry is not enough to go on.
TickOnTwo ==
  /\ relay = "up"
  /\ relay' = IF OutboxExists /\ accepted > drained + 1 THEN "apply" ELSE "up"
  /\ UNCHANGED <<api, lock, ran, accepted, drained, exits>>

\* A tick.  Without its tables Drain fails and the loop logs it; without
\* pending entries it does nothing; otherwise the run goes to Apply.
Tick ==
  /\ relay = "up"
  /\ relay' = IF OutboxExists /\ accepted > drained THEN "apply" ELSE "up"
  /\ UNCHANGED <<api, lock, ran, accepted, drained, exits>>

\* Apply and MarkDone of the run found, or of a part of what is there by now;
\* Apply needs the tables of the last migration.
ApplyPending ==
  /\ relay = "apply"
  /\ relay' = "up"
  /\ drained' \in IF SchemaComplete THEN (drained + 1)..accepted ELSE {drained}
  /\ UNCHANGED <<api, lock, ran, accepted, exits>>

\* os.Exit(1), or the process dies: a drain under way is cut short.  SIGTERM,
\* a stop on purpose after which nothing starts the relay again, is left out.
RelayExits ==
  /\ relay # "down"
  /\ exits < MaxExits
  /\ exits' = exits + 1
  /\ relay' = "down"
  /\ UNCHANGED <<api, lock, ran, accepted, drained>>

-----------------------------------------------------------------------------
ApiStep(a) ==
  \/ Boot(a) \/ HasPending(a) \/ Lock(a) \/ RunMigration(a) \/ Unlock(a) \/ Serve(a)

RelayStep == RelayBoots \/ Tick \/ ApplyPending

Next ==
  \/ \E a \in Replica : ApiStep(a) \/ AcceptWrite(a) \/ ApiExits(a)
  \/ RelayStep \/ RelayExits

\* restart: on-failure starts a process again, main runs on, a lock that is
\* free now and then is obtained by the retries, the ticker keeps ticking.
Spec ==
  /\ Init
  /\ [][Next]_vars
  /\ \A a \in Replica : WF_vars(Boot(a) \/ HasPending(a) \/ RunMigration(a) \/ Unlock(a) \/ Serve(a))
                        /\ SF_vars(Lock(a))
  /\ WF_vars(RelayStep)
-----------------------------------------------------------------------------
(***************************************************************************)
(* Properties.                                                             *)
(***************************************************************************)

\* However many replicas start at once and exit half way, every migration
\* runs once, after the ones before it.
MigratedOnceInOrder ==
  Len(ran) <= Migrations /\ \A i \in DOMAIN ran : ran[i] = i

\* The processes do not wait for each other, and yet nothing meets a database
\* that is only half migrated: neither a replica that serves nor a relay that
\* has found something to apply.
NothingMeetsHalfASchema ==
  (relay = "apply" \/ \E a \in Replica : api[a].pc = "serve") => SchemaComplete

\* All replicas end up serving: one that dies with the lock does not keep the
\* others, or itself when it is started again, waiting for it.
AllServe == \A a \in Replica : <>[](api[a].pc = "serve")

\* What the API accepts is drained, although the relay may have been started
\* before there was a table to read and may have exited meanwhile.
AcceptedIsDrained == \A n \in 1..MaxAccepted : accepted >= n ~> drained >= n
==============================================================================
