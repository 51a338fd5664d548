------------------------ MODULE GatewayStartupProofs ------------------------
(***************************************************************************)
(* Proofs about GatewayStartup for any set of services and any number of   *)
(* sections.  StartupInv is inductive; the protection that the database    *)
(* mutex gives, and the list of its leaks being complete, follow from it.  *)
(***************************************************************************)
EXTENDS GatewayStartup, FiniteSetTheorems, TLAPS

USE StartupAssumption

-----------------------------------------------------------------------------
\* The inductive invariant

\* A thread with a transaction holds the mutex, but for discovery at work.
TxnUnderMutex == \A t \in txn : lock = t \/ (t = Discovery /\ pc[Discovery] = "run")

\* Discovery is off until main has slept.
DiscoveryLast == pc[Main] \notin {"idle", "exit"} => pc[Discovery] = "off"

\* Discovery at work has not kept the mutex from its initialisation.
WorkWithoutMutex == (pc[Discovery] = "run" /\ ~leaked) => lock # Discovery

\* The invariant behind MutexProtects and HeldOrLeaked.
StartupInv == /\ TypeOK
              /\ TxnUnderMutex
              /\ DiscoveryLast
              /\ WorkWithoutMutex
              /\ HeldOrLeaked

-----------------------------------------------------------------------------
\* Facts about the stages

\* A stage has at least one section and no more than the two bounds allow.
LEMMA SectionsInRange ==
  ASSUME NEW stage \in Stages
  PROVE  SectionsOf(stage) \subseteq 1..(IF Records > MaxScan THEN Records ELSE MaxScan)
  BY DEF SectionsOf

\* A stage with sections has a successor, and only the last stage of a thread that is not
\* main leads to its work.
LEMMA NextStageKnown ==
  ASSUME NEW t \in Threads, pc[t] \in Sections
  PROVE  NextStage(t) \in Stages \ {"exit", "idle"}
  BY DEF NextStage, Following, Sections, Stages

\* Moving to a stage changes nothing but the stage of that thread and its sections.
LEMMA MoveToTypes ==
  ASSUME TypeOK, NEW t \in Threads, NEW stage \in Stages, MoveTo(t, stage)
  PROVE  /\ pc' = [pc EXCEPT ![t] = stage]
         /\ pc' \in [Threads -> Stages]
         /\ left' \in [Threads -> 1..(IF Records > MaxScan THEN Records ELSE MaxScan)]
  BY SectionsInRange DEF MoveTo, TypeOK

\* A thread at the end of a section stays in its stage or goes to the next one.
LEMMA AdvanceTypes ==
  ASSUME TypeOK, NEW t \in Threads, pc[t] \in Sections, Advance(t)
  PROVE  /\ \E stage \in Stages \ {"exit", "idle"} : pc' = [pc EXCEPT ![t] = stage]
         /\ left' \in [Threads -> 1..(IF Records > MaxScan THEN Records ELSE MaxScan)]
<1>1. CASE left[t] > 1
  <2>1. pc' = [pc EXCEPT ![t] = pc[t]] /\ pc[t] \in Stages \ {"exit", "idle"}
    BY <1>1 DEF Advance, TypeOK, Sections, Stages
  <2>2. left' \in [Threads -> 1..(IF Records > MaxScan THEN Records ELSE MaxScan)]
    BY <1>1 DEF Advance, TypeOK
  <2> QED BY <2>1, <2>2
<1>2. CASE ~(left[t] > 1)
  <2>1. MoveTo(t, NextStage(t))
    BY <1>2 DEF Advance
  <2> QED BY <2>1, NextStageKnown, MoveToTypes
<1> QED BY <1>1, <1>2

-----------------------------------------------------------------------------
\* One lemma for each group of actions

\* Taking the mutex: nobody else has a transaction under it.
LEMMA EnterKeepsInv ==
  ASSUME StartupInv, NEW t \in Threads, Enter(t)
  PROVE  StartupInv'
<1> USE DEF StartupInv
<1>1. TypeOK'
  BY DEF Enter, TypeOK
<1>2. TxnUnderMutex'
  BY DEF Enter, TypeOK, TxnUnderMutex
<1>3. DiscoveryLast' /\ WorkWithoutMutex' /\ HeldOrLeaked'
  BY DEF Enter, TypeOK, DiscoveryLast, WorkWithoutMutex, HeldOrLeaked, Sections
<1> QED BY <1>1, <1>2, <1>3

\* Leaving a section properly: its thread held the mutex, so no other transaction is left
\* under it.
LEMMA LeaveKeepsInv ==
  ASSUME StartupInv, NEW t \in Threads, pc[t] \in Sections, CloseTxn(t),
         lock' = Free, leaked' = leaked,
         NEW stage \in Stages \ {"exit", "idle"}, pc' = [pc EXCEPT ![t] = stage],
         left' \in [Threads -> 1..(IF Records > MaxScan THEN Records ELSE MaxScan)]
  PROVE  StartupInv'
<1> USE DEF StartupInv
<1>1. TypeOK'
  BY DEF CloseTxn, TypeOK
<1>2. lock = t
  BY DEF CloseTxn, TxnUnderMutex, Sections
<1>3. TxnUnderMutex'
  BY <1>2 DEF CloseTxn, TypeOK, TxnUnderMutex
<1>4. DiscoveryLast'
  BY DEF TypeOK, DiscoveryLast, Sections, Stages, Threads
<1>5. WorkWithoutMutex' /\ HeldOrLeaked'
  BY DEF WorkWithoutMutex, HeldOrLeaked, Threads
<1> QED BY <1>1, <1>3, <1>4, <1>5

\* Leaving a section without releasing the mutex: the leak is noted.
LEMMA LeakKeepsInv ==
  ASSUME StartupInv, NEW t \in Threads, pc[t] \in Sections,
         NEW stage \in Stages \ {"exit", "idle"}, LeakTo(t, stage)
  PROVE  StartupInv'
<1> USE DEF StartupInv
<1>1. MoveTo(t, stage) /\ CloseTxn(t) /\ leaked' /\ lock' = lock
  BY DEF LeakTo
<1>2. TypeOK' /\ pc' = [pc EXCEPT ![t] = stage]
  BY <1>1, MoveToTypes DEF CloseTxn, TypeOK
<1>3. TxnUnderMutex'
  BY <1>1, <1>2 DEF CloseTxn, TypeOK, TxnUnderMutex, Sections
<1>4. DiscoveryLast'
  BY <1>2 DEF TypeOK, DiscoveryLast, Sections, Threads
<1>5. WorkWithoutMutex' /\ HeldOrLeaked'
  BY <1>1 DEF WorkWithoutMutex, HeldOrLeaked
<1> QED BY <1>2, <1>3, <1>4, <1>5

\* The steps of main that touch neither the mutex nor the connection.
LEMMA MainKeepsInv ==
  ASSUME StartupInv, ProbeSucceeds \/ StartPlugins \/ StartDiscovery \/ \E t \in Threads : Exit(t)
  PROVE  StartupInv'
<1> USE DEF StartupInv
<1>1. Main \in Threads /\ Discovery \in Threads
  BY DEF Threads
<1>2. CASE ProbeSucceeds
  <2>1. TypeOK' /\ pc' = [pc EXCEPT ![Main] = "session"]
    BY <1>1, <1>2, MoveToTypes DEF ProbeSucceeds, TypeOK, Stages, Sections
  <2> QED BY <1>1, <1>2, <2>1
          DEF ProbeSucceeds, TypeOK, TxnUnderMutex, DiscoveryLast, WorkWithoutMutex, HeldOrLeaked
<1>3. CASE StartPlugins
  <2>1. pc' \in [Threads -> Stages]
    BY <1>3 DEF StartPlugins, TypeOK, Stages, Sections
  <2>2. left' \in [Threads -> 1..(IF Records > MaxScan THEN Records ELSE MaxScan)]
    BY <1>3 DEF StartPlugins, TypeOK
  <2>3. pc'[Discovery] = pc[Discovery] /\ pc[Main] = "start"
    BY <1>1, <1>3 DEF StartPlugins
  <2> QED BY <1>3, <2>1, <2>2, <2>3
          DEF StartPlugins, TypeOK, TxnUnderMutex, DiscoveryLast, WorkWithoutMutex, HeldOrLeaked
<1>4. CASE StartDiscovery
  <2>1. pc'[Discovery] = "prepare" /\ pc'[Main] = "idle" /\ pc[Discovery] = "off"
    BY <1>1, <1>4 DEF StartDiscovery, TypeOK, DiscoveryLast
  <2>2. TypeOK'
    BY <1>1, <1>4 DEF StartDiscovery, TypeOK, Stages, Sections
  <2> QED BY <1>4, <2>1, <2>2
          DEF StartDiscovery, TxnUnderMutex, DiscoveryLast, WorkWithoutMutex, HeldOrLeaked
<1>5. CASE \E t \in Threads : Exit(t)
  <2>1. pc' = [pc EXCEPT ![Main] = "exit"] /\ UNCHANGED <<left, lock, txn, leaked>>
    BY <1>5 DEF Exit
  <2>2. TypeOK'
    BY <1>1, <2>1 DEF TypeOK, Stages
  <2>3. pc'[Discovery] = pc[Discovery] /\ pc'[Main] = "exit"
    BY <1>1, <2>1 DEF TypeOK
  <2> QED BY <2>1, <2>2, <2>3
          DEF TxnUnderMutex, DiscoveryLast, WorkWithoutMutex, HeldOrLeaked
<1> QED BY <1>2, <1>3, <1>4, <1>5

\* Discovery at work opens and closes transactions without the mutex; it does not hold it.
LEMMA WorkKeepsInv ==
  ASSUME StartupInv, BeginWork \/ EndWork
  PROVE  StartupInv'
<1> USE DEF StartupInv
<1>1. Discovery \in Threads
  BY DEF Threads
<1>2. TypeOK' /\ TxnUnderMutex' /\ DiscoveryLast' /\ WorkWithoutMutex'
  BY <1>1 DEF BeginWork, EndWork, CloseTxn, TypeOK, TxnUnderMutex, DiscoveryLast, WorkWithoutMutex
<1>3. HeldOrLeaked'
  BY DEF BeginWork, EndWork, CloseTxn, HeldOrLeaked, WorkWithoutMutex
<1> QED BY <1>2, <1>3

\* The initial states.
LEMMA InitHasInv == Init => StartupInv
<1> SUFFICES ASSUME Init PROVE StartupInv
  OBVIOUS
<1>1. TypeOK
  <2>1. pc \in [Threads -> Stages]
    BY DEF Init, Stages, Sections
  <2>2. left \in [Threads -> 1..(IF Records > MaxScan THEN Records ELSE MaxScan)]
    BY DEF Init
  <2> QED BY <2>1, <2>2 DEF Init, TypeOK
<1>2. DiscoveryLast /\ WorkWithoutMutex
  BY DEF Init, DiscoveryLast, WorkWithoutMutex, Threads
<1>3. TxnUnderMutex /\ HeldOrLeaked
  BY DEF Init, TxnUnderMutex, HeldOrLeaked
<1> QED BY <1>1, <1>2, <1>3 DEF StartupInv

\* Every step keeps the invariant.
LEMMA NextKeepsInv == StartupInv /\ [Next]_vars => StartupInv'
<1> SUFFICES ASSUME StartupInv, [Next]_vars PROVE StartupInv'
  OBVIOUS
<1>1. Main \in Threads /\ Discovery \in Threads /\ Rabbit \in Threads /\ Rabbit # Discovery
  BY DEF Threads
<1>2. CASE UNCHANGED vars
  BY <1>2 DEF StartupInv, TypeOK, TxnUnderMutex, DiscoveryLast, WorkWithoutMutex,
              HeldOrLeaked, vars
<1>3. ASSUME NEW t \in Threads, Enter(t) PROVE StartupInv'
  BY <1>3, EnterKeepsInv
<1>4. ASSUME NEW t \in Threads, Leave(t) PROVE StartupInv'
  <2>1. PICK stage \in Stages \ {"exit", "idle"} : pc' = [pc EXCEPT ![t] = stage]
    BY <1>4, AdvanceTypes DEF Leave, StartupInv
  <2>2. left' \in [Threads -> 1..(IF Records > MaxScan THEN Records ELSE MaxScan)]
    BY <1>4, AdvanceTypes DEF Leave, StartupInv
  <2> QED BY <1>4, <2>1, <2>2, LeaveKeepsInv DEF Leave
<1>5. CASE CassandraInitLeaks
  BY <1>1, <1>5, LeakKeepsInv DEF CassandraInitLeaks, Sections, Stages
<1>6. CASE RabbitConfigMissing
  BY <1>1, <1>6, LeakKeepsInv DEF RabbitConfigMissing, Sections, Stages
<1>7. CASE RabbitConfigThrows
  BY <1>1, <1>7, LeakKeepsInv DEF RabbitConfigThrows, Sections, Stages
<1>8. CASE ScanThrows
  BY <1>1, <1>8, LeakKeepsInv DEF ScanThrows, Sections, Stages
<1>9. CASE InitFails
  <2>1. /\ pc' = [pc EXCEPT ![Discovery] = "ended"]
        /\ left' \in [Threads -> 1..(IF Records > MaxScan THEN Records ELSE MaxScan)]
    BY <1>1, <1>9, MoveToTypes DEF InitFails, StartupInv, Stages
  <2>2. pc[Discovery] \in Sections /\ "ended" \in Stages \ {"exit", "idle"}
    BY <1>9 DEF InitFails, Sections, Stages
  <2> QED BY <1>1, <1>9, <2>1, <2>2, LeaveKeepsInv DEF InitFails
<1>10. CASE ProbeSucceeds \/ StartPlugins \/ StartDiscovery \/ \E t \in Threads : Exit(t)
  BY <1>10, MainKeepsInv
<1>11. CASE BeginWork \/ EndWork
  BY <1>11, WorkKeepsInv
<1> QED BY <1>2, <1>3, <1>4, <1>5, <1>6, <1>7, <1>8, <1>9, <1>10, <1>11 DEF Next, ProbeFails

-----------------------------------------------------------------------------
\* The theorems

\* The start of the gateway keeps StartupInv, for any services.
THEOREM StartupInvariant == Spec => []StartupInv
  BY InitHasInv, NextKeepsInv, PTL DEF Spec

\* Every variable keeps its type; a stage never runs out of sections.
THEOREM StartupTypeCorrect == Spec => []TypeOK
<1>1. StartupInv => TypeOK
  BY DEF StartupInv
<1> QED BY <1>1, StartupInvariant, PTL

\* The mutex of dbConnection keeps the transactions of main and all services apart until
\* discovery works.
THEOREM MutexKeepsApart == Spec => []MutexProtects
<1>1. StartupInv => MutexProtects
  <2> SUFFICES ASSUME StartupInv, pc[Discovery] # "run" PROVE Cardinality(txn) <= 1
    BY DEF MutexProtects
  <2>1. txn \subseteq {lock}
    BY DEF StartupInv, TxnUnderMutex
  <2>2. IsFiniteSet({lock}) /\ Cardinality({lock}) = 1
    BY FS_Singleton
  <2>3. Cardinality(txn) <= Cardinality({lock})
    BY <2>1, <2>2, FS_Subset
  <2> QED BY <2>2, <2>3
<1> QED BY <1>1, StartupInvariant, PTL

\* Apart from the four known exits no path of main or of a service goes on without
\* releasing the mutex.
THEOREM LeaksAreKnown == Spec => []HeldOrLeaked
<1>1. StartupInv => HeldOrLeaked
  BY DEF StartupInv
<1> QED BY <1>1, StartupInvariant, PTL
=============================================================================
