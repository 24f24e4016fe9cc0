---------------------------- MODULE StartupProofs ----------------------------
(***************************************************************************)
(* Safety of Startup, for any number of replicas, migrations and exits.    *)
(* What carries the proof is that the migrations a replica is to run are   *)
(* listed under the lock: as long as it holds the lock, its list is        *)
(* exactly what the database is missing.                                   *)
(***************************************************************************)
EXTENDS Startup, SequenceTheorems, TLAPS

\* The types of the variables that the argument is about.
StartupTypes ==
  /\ api \in [Replica -> [pc : {"down", "check", "lock", "migrate", "connect", "serve"},
                          todo : Seq(Nat)]]
  /\ lock \in Replica \cup {None}
  /\ ran \in Seq(Nat)
  /\ accepted \in Nat
  /\ drained \in Nat

\* The holder of the lock is the one replica that migrates.
LockHolderMigrates == \A a \in Replica : api[a].pc = "migrate" <=> lock = a

\* What it is still going to run is what the database is missing.
ListIsCurrent == \A a \in Replica : api[a].pc = "migrate" => api[a].todo = Pending

\* Nobody gets past Migrate, and nothing is accepted, before the schema is
\* complete.
ServedIsComplete ==
  /\ \A a \in Replica : api[a].pc \in {"connect", "serve"} => SchemaComplete
  /\ accepted > drained => SchemaComplete
  /\ relay = "apply" => SchemaComplete

StartupInv ==
  /\ StartupTypes
  /\ MigratedOnceInOrder
  /\ LockHolderMigrates
  /\ ListIsCurrent
  /\ ServedIsComplete

-----------------------------------------------------------------------------
\* Pending lists the numbers from Len(ran) + 1 to Migrations.
LEMMA PendingFacts ==
  ASSUME ran \in Seq(Nat), Len(ran) <= Migrations
  PROVE  /\ Pending \in Seq(Nat)
         /\ Len(Pending) = Migrations - Len(ran)
         /\ \A i \in 1..Len(Pending) : Pending[i] = Len(ran) + i
<1>1. /\ Len(ran) \in Nat
      /\ Migrations \in Nat
  BY MigrationsAssumption
<1>2. Migrations - Len(ran) \in Nat
  BY <1>1
<1>3. \A i \in 1..(Migrations - Len(ran)) : Len(ran) + i \in Nat
  BY <1>1
<1> QED
  BY <1>1, <1>2, <1>3 DEF Pending

\* The initial state satisfies the invariant.
LEMMA StartupInit == Init => StartupInv
<1> SUFFICES ASSUME Init PROVE StartupInv
  OBVIOUS
<1>1. ran = <<>> /\ Len(ran) = 0 /\ ran \in Seq(Nat)
  BY DEF Init
<1> QED
  BY <1>1, MigrationsAssumption, NoneAssumption
     DEF Init, Down, StartupInv, StartupTypes, MigratedOnceInOrder, LockHolderMigrates,
         ListIsCurrent, ServedIsComplete, SchemaComplete

\* A migration that commits is the next one, and the list that remains is again
\* what is missing.
LEMMA RunMigrationKeeps ==
  ASSUME NEW a \in Replica, StartupInv, RunMigration(a)
  PROVE  StartupInv'
<1> USE DEF StartupInv, StartupTypes
<1>1. api[a].todo = Pending /\ lock = a
  BY DEF RunMigration, ListIsCurrent, LockHolderMigrates
<1>2. /\ Len(ran) \in Nat
      /\ Len(ran) <= Migrations
      /\ Migrations \in Nat
  BY MigrationsAssumption DEF MigratedOnceInOrder
<1>3. /\ Pending \in Seq(Nat)
      /\ Len(Pending) = Migrations - Len(ran)
      /\ \A i \in 1..Len(Pending) : Pending[i] = Len(ran) + i
  BY <1>2, PendingFacts
<1>4. Len(Pending) >= 1
  BY <1>1, <1>2, <1>3 DEF RunMigration
<1>5. Head(Pending) = Len(ran) + 1
  BY <1>2, <1>3, <1>4
<1>6. ran' = Append(ran, Len(ran) + 1)
  BY <1>1, <1>5 DEF RunMigration
<1>7. /\ ran' \in Seq(Nat)
      /\ Len(ran') = Len(ran) + 1
      /\ \A i \in 1..Len(ran) : ran'[i] = ran[i]
      /\ ran'[Len(ran) + 1] = Len(ran) + 1
  BY <1>2, <1>6
<1>8. MigratedOnceInOrder'
  <2>1. Len(ran)' <= Migrations
    BY <1>2, <1>3, <1>4, <1>7
  <2>2. ASSUME NEW i \in DOMAIN ran'
        PROVE  ran'[i] = i
    <3>1. i \in 1..(Len(ran) + 1)
      BY <1>7
    <3>2. CASE i = Len(ran) + 1
      BY <3>2, <1>7
    <3>3. CASE i # Len(ran) + 1
      <4>1. i \in 1..Len(ran)
        BY <3>1, <3>3, <1>2
      <4>2. i \in DOMAIN ran
        BY <4>1
      <4> QED
        BY <4>1, <4>2, <1>7 DEF MigratedOnceInOrder
    <3> QED
      BY <3>2, <3>3
  <2> QED
    BY <2>1, <2>2 DEF MigratedOnceInOrder
<1>9. Tail(Pending) = Pending' /\ Pending' \in Seq(Nat)
  <2>1. /\ Tail(Pending) \in Seq(Nat)
        /\ Len(Tail(Pending)) = Len(Pending) - 1
        /\ \A i \in 1..Len(Tail(Pending)) : Tail(Pending)[i] = Pending[i + 1]
    BY <1>3, <1>4, HeadTailProperties
  <2>2. /\ Pending' \in Seq(Nat)
        /\ Len(Pending') = Migrations - Len(ran')
        /\ \A i \in 1..Len(Pending') : Pending'[i] = Len(ran') + i
    <3>1. /\ ran' \in Seq(Nat)
          /\ Len(ran') <= Migrations
      BY <1>7, <1>8 DEF MigratedOnceInOrder
    <3>2. Migrations - Len(ran') \in Nat /\ Len(ran') \in Nat
      BY <3>1, <1>2
    <3>3. \A i \in 1..(Migrations - Len(ran')) : Len(ran') + i \in Nat
      BY <3>2
    <3> QED
      BY <3>1, <3>2, <3>3 DEF Pending
  <2>3. Len(Pending') = Len(Tail(Pending))
    BY <1>2, <1>3, <1>7, <2>1, <2>2
  <2>4. ASSUME NEW i \in 1..Len(Tail(Pending))
        PROVE  Tail(Pending)[i] = Pending'[i]
    <3>1. i \in Nat /\ i + 1 \in 1..Len(Pending)
      BY <1>3, <1>2, <2>1
    <3>2. Pending[i + 1] = Len(ran) + (i + 1)
      BY <3>1, <1>3
    <3> QED
      BY <3>1, <3>2, <1>2, <1>7, <2>1, <2>2, <2>3
  <2> QED
    BY <2>1, <2>2, <2>3, <2>4, SeqEqual
<1>10. api' = [api EXCEPT ![a] = [pc |-> "migrate", todo |-> Pending']]
  BY <1>1, <1>9 DEF RunMigration, Goto
<1>11. StartupTypes'
  BY <1>7, <1>9, <1>10 DEF RunMigration
<1>12. LockHolderMigrates'
  BY <1>1, <1>10 DEF LockHolderMigrates, RunMigration
<1>13. ListIsCurrent'
  BY <1>1, <1>10 DEF ListIsCurrent, LockHolderMigrates
<1>14. SchemaComplete => SchemaComplete'
  BY <1>2, <1>7 DEF SchemaComplete
<1>15. ServedIsComplete'
  BY <1>10, <1>14 DEF ServedIsComplete, RunMigration
<1> QED
  BY <1>8, <1>11, <1>12, <1>13, <1>15

\* Every other step of a replica up to serving keeps the invariant; none of
\* them changes ran.
LEMMA ApiKeeps ==
  ASSUME NEW a \in Replica, StartupInv,
         Boot(a) \/ HasPending(a) \/ Lock(a) \/ Unlock(a) \/ Serve(a) \/ ApiExits(a)
  PROVE  StartupInv'
<1> USE DEF StartupInv, StartupTypes, Goto
<1>0. ran' = ran /\ relay' = relay /\ accepted' = accepted /\ drained' = drained
  BY DEF Boot, HasPending, Lock, Unlock, Serve, ApiExits
<1>1. /\ MigratedOnceInOrder' /\ Pending' = Pending /\ SchemaComplete' = SchemaComplete
  BY <1>0 DEF MigratedOnceInOrder, Pending, SchemaComplete
<1>2. /\ Pending \in Seq(Nat)
      /\ Len(Pending) = Migrations - Len(ran)
      /\ Len(ran) \in Nat /\ Migrations \in Nat
  BY PendingFacts, MigrationsAssumption DEF MigratedOnceInOrder
<1>3. <<>> \in Seq(Nat)
  OBVIOUS
<1>4. CASE Boot(a)
  BY <1>0, <1>1, <1>3, <1>4
     DEF Boot, LockHolderMigrates, ListIsCurrent, ServedIsComplete
<1>5. CASE HasPending(a)
  BY <1>0, <1>1, <1>2, <1>5
     DEF HasPending, LockHolderMigrates, ListIsCurrent, ServedIsComplete
<1>6. CASE Lock(a)
  <2>1. /\ api' = [api EXCEPT ![a] = [pc |-> "migrate", todo |-> Pending]]
        /\ lock' = a /\ lock = None
    BY <1>6 DEF Lock
  <2>2. \A b \in Replica : api[b].pc # "migrate"
    BY <2>1, NoneAssumption DEF LockHolderMigrates
  <2> QED
    BY <1>0, <1>1, <1>2, <2>1, <2>2
       DEF LockHolderMigrates, ListIsCurrent, ServedIsComplete
<1>7. CASE Unlock(a)
  <2>1. /\ api' = [api EXCEPT ![a] = [pc |-> "connect", todo |-> <<>>]]
        /\ lock' = None /\ lock = a
        /\ Pending = <<>>
    BY <1>7 DEF Unlock, LockHolderMigrates, ListIsCurrent
  <2>2. SchemaComplete
    BY <1>2, <2>1 DEF SchemaComplete
  <2> QED
    BY <1>0, <1>1, <1>3, <2>1, <2>2, NoneAssumption
       DEF LockHolderMigrates, ListIsCurrent, ServedIsComplete
<1>8. CASE Serve(a)
  BY <1>0, <1>1, <1>3, <1>8
     DEF Serve, LockHolderMigrates, ListIsCurrent, ServedIsComplete
<1>9. CASE ApiExits(a)
  BY <1>0, <1>1, <1>3, <1>9, NoneAssumption
     DEF ApiExits, LockHolderMigrates, ListIsCurrent, ServedIsComplete
<1> QED
  BY <1>4, <1>5, <1>6, <1>7, <1>8, <1>9

\* Writes and the relay touch neither the lock nor the schema.  A relay finds
\* something to apply only after a replica that serves has accepted it.
LEMMA OthersKeep ==
  ASSUME StartupInv,
         (\E a \in Replica : AcceptWrite(a)) \/ RelayStep \/ RelayExits
  PROVE  StartupInv'
<1> USE DEF StartupInv, StartupTypes
<1>0. ran' = ran /\ api' = api /\ lock' = lock
  BY DEF AcceptWrite, RelayStep, RelayBoots, Tick, ApplyPending, RelayExits
<1>1. /\ MigratedOnceInOrder' /\ LockHolderMigrates' /\ ListIsCurrent'
      /\ SchemaComplete' = SchemaComplete
  BY <1>0 DEF MigratedOnceInOrder, LockHolderMigrates, ListIsCurrent, Pending, SchemaComplete
<1>2. ASSUME NEW a \in Replica, AcceptWrite(a)
      PROVE  StartupInv'
  BY <1>0, <1>1, <1>2 DEF AcceptWrite, ServedIsComplete
<1>3. CASE RelayBoots
  BY <1>0, <1>1, <1>3 DEF RelayBoots, ServedIsComplete
<1>4. CASE Tick
  BY <1>0, <1>1, <1>4 DEF Tick, ServedIsComplete
<1>5. CASE ApplyPending
  BY <1>0, <1>1, <1>5 DEF ApplyPending, ServedIsComplete
<1>6. CASE RelayExits
  BY <1>0, <1>1, <1>6 DEF RelayExits, ServedIsComplete
<1> QED
  BY <1>2, <1>3, <1>4, <1>5, <1>6 DEF RelayStep

\* Every step keeps the invariant.
LEMMA StartupStep == StartupInv /\ [Next]_vars => StartupInv'
<1> SUFFICES ASSUME StartupInv, [Next]_vars PROVE StartupInv'
  OBVIOUS
<1>1. CASE UNCHANGED vars
  BY <1>1 DEF vars, StartupInv, StartupTypes, MigratedOnceInOrder, LockHolderMigrates,
              ListIsCurrent, ServedIsComplete, SchemaComplete, Pending
<1>2. CASE Next
  BY <1>2, RunMigrationKeeps, ApiKeeps, OthersKeep DEF Next, ApiStep
<1> QED
  BY <1>1, <1>2

\* The invariant holds throughout.
THEOREM StartupIsSafe == Spec => []StartupInv
  BY StartupInit, StartupStep, PTL DEF Spec

\* Migrate, called by any number of replicas that exit at any point, runs every
\* migration once and in order.
THEOREM MigrationsRunOnce == Spec => []MigratedOnceInOrder
<1>1. StartupInv => MigratedOnceInOrder
  BY DEF StartupInv
<1> QED
  BY <1>1, StartupIsSafe, PTL

\* No replica serves and no relay applies before the last migration.
THEOREM SchemaBeforeUse == Spec => []NothingMeetsHalfASchema
<1>1. StartupInv => NothingMeetsHalfASchema
  BY DEF StartupInv, ServedIsComplete, NothingMeetsHalfASchema
<1> QED
  BY <1>1, StartupIsSafe, PTL
==============================================================================
