------------------------ MODULE CheckpointCleanupProofs ------------------------
(***************************************************************************)
(* Proofs about the deletion of checkpoints: CleanupInv is an invariant,   *)
(* no write of the service lands under the exclusive lock, and what is     *)
(* deleted is backed up and belongs to a finished e-mail.                  *)
(*                                                                         *)
(* CleanupInv is inductive.  Its parts follow one run from the receipt to  *)
(* the deletion: LockExcludes and StoppedInTime silence the service,       *)
(* Authorized keeps the validated candidate as it was planned, and         *)
(* BackupsInOrder compares what was planned with what was backed up.       *)
(***************************************************************************)
EXTENDS CheckpointCleanup, TLAPS

LEMMA ConstantFacts ==
    ASSUME CleanupAssumption
    PROVE  /\ Retention \in Nat /\ TTL \in Nat /\ Detect \in Nat /\ Settle \in Nat
           /\ MaxClock \in Nat /\ MaxVersion \in Nat /\ Settle > Detect /\ MaxClock > Retention
           /\ NoOne \notin Operators /\ NoOne \notin Threads /\ NoOne \notin Plans
PROOF
  BY DEF CleanupAssumption

LEMMA SavedPlan ==
    ASSUME CleanupAssumption, TypeOK, NEW p \in Plans, Saved(p)
    PROVE  /\ plans[p] \in Plan /\ plans[p].scanned \in 0..MaxClock
           /\ plans[p].created \in 0..MaxClock /\ plans[p].cutoff \in 0..MaxClock
           /\ DOMAIN plans[p].candidates \subseteq Threads
           /\ \A t \in DOMAIN plans[p].candidates : plans[p].candidates[t] \in Candidate
PROOF
  <1>1. plans[p] \in Plan /\ plans[p].scanned # -1
    BY DEF Saved, TypeOK
  <1>2. plans[p].scanned \in -1..MaxClock
    BY <1>1 DEF Plan
  <1>3. plans[p].scanned \in 0..MaxClock
    BY <1>1, <1>2, ConstantFacts
  <1>4. PICK S \in SUBSET Threads : plans[p].candidates \in [S -> Candidate]
    BY <1>1 DEF Plan
  <1> QED BY <1>1, <1>3, <1>4 DEF Plan

LEMMA BackupFacts ==
    ASSUME CleanupAssumption
    PROVE  /\ NoBackup \notin Backup
           /\ NoPlan \notin Plan
PROOF
  <1>1. \A b \in Backup : b.at \in 0..MaxClock
    BY DEF Backup
  <1>2. NoBackup.at = -1 /\ -1 \notin 0..MaxClock
    BY ConstantFacts DEF NoBackup
  <1>3. \A p \in Plan : p.created \in 0..MaxClock
    BY DEF Plan
  <1>4. NoPlan.created = -1
    BY DEF NoPlan
  <1> QED BY <1>1, <1>2, <1>3, <1>4

LEMMA InvInit ==
    ASSUME CleanupAssumption, Init
    PROVE  CleanupInv
PROOF
  <1>1. /\ Idle \in Run /\ Idle.pc = "idle" /\ Idle.validated = NoOne /\ Idle.deleted = {}
    BY ConstantFacts DEF Idle, Run, Phases
  <1>2. \A o \in Operators : op[o] = Idle
    BY DEF Init
  <1>3. \A p \in Plans : plans[p] = NoPlan /\ receipts[p] = NoBackup
    BY DEF Init
  <1>4. TypeOK
    <2>1. now \in 0..MaxClock
      BY ConstantFacts DEF Init
    <2>2. email \in [Threads -> [terminal : BOOLEAN, updated : 0..MaxClock]]
      BY ConstantFacts DEF Init
    <2>3. store \in [Threads -> [kind : Kinds, version : 0..MaxVersion]]
      BY ConstantFacts DEF Init, Kinds
    <2>4. runtime \in [alive : BOOLEAN, fence : BOOLEAN, pool : BOOLEAN,
                       deadline : 0..MaxClock, writing : Threads \union {NoOne}]
      BY ConstantFacts DEF Init
    <2>5. op \in [Operators -> Run]
      BY <1>1 DEF Init
    <2>6. plans \in [Plans -> Plan \union {NoPlan}] /\ receipts \in [Plans -> Backup \union {NoBackup}]
      BY DEF Init
    <2>7. schema \in {0, 1} /\ exclusive \in Operators \union {NoOne} /\ claimed \subseteq Plans
          /\ backups \subseteq Backup
      BY DEF Init
    <2> QED BY <2>1, <2>2, <2>3, <2>4, <2>5, <2>6, <2>7 DEF TypeOK
  <1>5. ExecutedOnce /\ ClaimedOnce /\ Authorized
    BY <1>1, <1>2 DEF ExecutedOnce, ClaimedOnce, Claims, Authorized
  <1>6. LockExcludes
    BY <1>1, <1>2, ConstantFacts DEF Init, LockExcludes
  <1>7. StoppedInTime
    BY <1>1, <1>2, ConstantFacts DEF Init, StoppedInTime
  <1>8. BackupsInOrder
    BY <1>3 DEF Init, BackupsInOrder, Saved
  <1> QED BY <1>4, <1>5, <1>6, <1>7, <1>8 DEF CleanupInv

\* Who claims a plan alone executes it alone.
LEMMA OnceFromClaims ==
    ASSUME ClaimedOnce
    PROVE  ExecutedOnce
PROOF
  BY DEF ClaimedOnce, ExecutedOnce, Claims

-----------------------------------------------------------------------------
(* The service.                                                            *)

\* A step that changes connections only.
LEMMA ConnectionsKeep ==
    ASSUME CleanupInv,
           UNCHANGED <<now, email, store, schema, exclusive, artifacts, outside, op>>,
           runtime' \in [alive : BOOLEAN, fence : BOOLEAN, pool : BOOLEAN,
                         deadline : 0..MaxClock, writing : Threads \union {NoOne}],
           exclusive # NoOne => ~SharedHeld',
           runtime'.deadline <= now + Detect,
           runtime'.alive /\ ~runtime'.fence => now <= runtime'.deadline,
           \A o \in Operators : op[o].pc = "settling" /\ runtime'.alive =>
                                    runtime'.deadline <= op[o].since + Detect,
           \A o \in Operators : op[o].pc = "deleting" => ~runtime'.alive
    PROVE  CleanupInv'
PROOF
  <1>1. UNCHANGED <<now, email, store, schema, exclusive, plans, claimed, backups, receipts, op>>
    BY DEF artifacts, outside
  <1>2. TypeOK'
    BY <1>1 DEF CleanupInv, TypeOK
  <1>3. LockExcludes' /\ StoppedInTime'
    BY <1>1 DEF CleanupInv, LockExcludes, StoppedInTime, SharedHeld
  <1>4. BackupsInOrder'
    BY <1>1 DEF CleanupInv, BackupsInOrder, Saved
  <1>5. Authorized'
    BY <1>1 DEF CleanupInv, Authorized, Saved, TerminalBefore, _inventory_digest
  <1>6. ClaimedOnce' /\ ExecutedOnce'
    BY <1>1 DEF CleanupInv, ClaimedOnce, ExecutedOnce, Claims
  <1> QED BY <1>2, <1>3, <1>4, <1>5, <1>6 DEF CleanupInv

\* What a step of the service may assume: nobody holds the lock while one of
\* its connections does, and nobody settles or deletes without the lock.
LEMMA ServiceFacts ==
    ASSUME CleanupAssumption, CleanupInv
    PROVE  /\ runtime \in [alive : BOOLEAN, fence : BOOLEAN, pool : BOOLEAN,
                           deadline : 0..MaxClock, writing : Threads \union {NoOne}]
           /\ now \in 0..MaxClock /\ MaxClock \in Nat /\ Detect \in Nat
           /\ runtime.deadline <= now + Detect
           /\ exclusive = NoOne =>
                \A o \in Operators : op[o].pc # "settling" /\ op[o].pc # "deleting"
           /\ SharedHeld => exclusive = NoOne
           /\ \A o \in Operators : op[o].since \in 0..MaxClock
PROOF
  <1>1. \A o \in Operators : o # NoOne /\ op[o] \in Run
    BY ConstantFacts DEF CleanupInv, TypeOK
  <1> QED BY <1>1, ConstantFacts DEF CleanupInv, TypeOK, LockExcludes, StoppedInTime, Run

LEMMA ConnectionSteps ==
    ASSUME CleanupAssumption, CleanupInv,
           \/ StartService \/ StopService \/ LoseFence \/ LosePool
           \/ configure_checkpoint_pool_connection \/ \E t \in Threads : BeginWrite(t)
    PROVE  CleanupInv'
PROOF
  <1>1. /\ runtime \in [alive : BOOLEAN, fence : BOOLEAN, pool : BOOLEAN,
                        deadline : 0..MaxClock, writing : Threads \union {NoOne}]
        /\ now \in 0..MaxClock /\ MaxClock \in Nat /\ Detect \in Nat
        /\ runtime.deadline <= now + Detect
        /\ exclusive = NoOne =>
             \A o \in Operators : op[o].pc # "settling" /\ op[o].pc # "deleting"
        /\ SharedHeld => exclusive = NoOne
        /\ \A o \in Operators : op[o].since \in 0..MaxClock
    BY ServiceFacts
  <1>2. /\ runtime.alive /\ ~runtime.fence => now <= runtime.deadline
        /\ \A o \in Operators :
             /\ op[o].pc = "settling" /\ runtime.alive => runtime.deadline <= op[o].since + Detect
             /\ op[o].pc = "deleting" => ~runtime.alive
    BY DEF CleanupInv, StoppedInTime
  <1>3. CASE StartService
    <2>1. /\ runtime' = [runtime EXCEPT !.alive = TRUE, !.fence = TRUE, !.pool = TRUE]
          /\ exclusive = NoOne
          /\ UNCHANGED <<now, email, store, schema, exclusive, artifacts, outside, op>>
      BY <1>3 DEF StartService
    <2>2. /\ runtime'.fence = TRUE /\ runtime'.deadline = runtime.deadline
          /\ runtime' \in [alive : BOOLEAN, fence : BOOLEAN, pool : BOOLEAN,
                           deadline : 0..MaxClock, writing : Threads \union {NoOne}]
      BY <1>1, <2>1
    <2> QED BY <1>1, <2>1, <2>2, ConnectionsKeep
  <1>4. CASE StopService
    <2>1. /\ runtime' = [runtime EXCEPT !.alive = FALSE, !.fence = FALSE, !.pool = FALSE,
                                        !.writing = NoOne, !.deadline = 0]
          /\ UNCHANGED <<now, email, store, schema, exclusive, artifacts, outside, op>>
      BY <1>4 DEF StopService
    <2>2. runtime'.alive = FALSE /\ runtime'.deadline = 0
      BY <1>1, <2>1
    <2>3. runtime' \in [alive : BOOLEAN, fence : BOOLEAN, pool : BOOLEAN,
                        deadline : 0..MaxClock, writing : Threads \union {NoOne}]
      <3> DEFINE gone == [runtime EXCEPT !.alive = FALSE, !.fence = FALSE, !.pool = FALSE]
      <3>1. gone \in [alive : BOOLEAN, fence : BOOLEAN, pool : BOOLEAN,
                      deadline : 0..MaxClock, writing : Threads \union {NoOne}]
        BY <1>1
      <3>2. runtime' = [gone EXCEPT !.writing = NoOne, !.deadline = 0]
        BY <2>1
      <3> HIDE DEF gone
      <3>3. 0 \in 0..MaxClock
        BY <1>1
      <3> QED BY <3>1, <3>2, <3>3
    <2>4. ~SharedHeld'
      BY <2>2 DEF SharedHeld
    <2> QED BY <1>1, <2>1, <2>2, <2>3, <2>4, ConnectionsKeep
  <1>5. CASE LoseFence
    <2>1. /\ runtime' = [runtime EXCEPT !.fence = FALSE, !.deadline = now + Detect]
          /\ runtime.alive /\ runtime.fence /\ now + Detect <= MaxClock
          /\ UNCHANGED <<now, email, store, schema, exclusive, artifacts, outside, op>>
      BY <1>5 DEF LoseFence
    <2>2. exclusive = NoOne
      BY <1>1, <2>1 DEF SharedHeld
    <2>3. now + Detect \in 0..MaxClock
      BY <1>1, <2>1
    <2>4. /\ runtime'.deadline = now + Detect
          /\ runtime' \in [alive : BOOLEAN, fence : BOOLEAN, pool : BOOLEAN,
                           deadline : 0..MaxClock, writing : Threads \union {NoOne}]
      BY <1>1, <2>1, <2>3
    <2> QED BY <1>1, <2>1, <2>2, <2>4, ConnectionsKeep
  <1>6. CASE LosePool
    <2>1. /\ runtime' = [runtime EXCEPT !.pool = FALSE, !.writing = NoOne]
          /\ runtime.alive /\ runtime.pool
          /\ UNCHANGED <<now, email, store, schema, exclusive, artifacts, outside, op>>
      BY <1>6 DEF LosePool
    <2>2. exclusive = NoOne
      BY <1>1, <2>1 DEF SharedHeld
    <2>3. /\ runtime'.deadline = runtime.deadline /\ runtime'.alive = runtime.alive
          /\ runtime'.fence = runtime.fence
      BY <1>1, <2>1
    <2>4. runtime' \in [alive : BOOLEAN, fence : BOOLEAN, pool : BOOLEAN,
                        deadline : 0..MaxClock, writing : Threads \union {NoOne}]
      BY <1>1, <2>1
    <2> QED BY <1>1, <1>2, <2>1, <2>2, <2>3, <2>4, ConnectionsKeep
  <1>7. CASE configure_checkpoint_pool_connection
    <2>1. /\ runtime' = [runtime EXCEPT !.pool = TRUE] /\ exclusive = NoOne
          /\ UNCHANGED <<now, email, store, schema, exclusive, artifacts, outside, op>>
      BY <1>7 DEF configure_checkpoint_pool_connection
    <2>2. /\ runtime'.deadline = runtime.deadline /\ runtime'.alive = runtime.alive
          /\ runtime'.fence = runtime.fence
          /\ runtime' \in [alive : BOOLEAN, fence : BOOLEAN, pool : BOOLEAN,
                           deadline : 0..MaxClock, writing : Threads \union {NoOne}]
      BY <1>1, <2>1
    <2> QED BY <1>1, <1>2, <2>1, <2>2, ConnectionsKeep
  <1>8. CASE \E t \in Threads : BeginWrite(t)
    <2>1. PICK t \in Threads :
            /\ runtime' = [runtime EXCEPT !.writing = t]
            /\ runtime.alive /\ runtime.pool
            /\ UNCHANGED <<now, email, store, schema, exclusive, artifacts, outside, op>>
      BY <1>8 DEF BeginWrite
    <2>2. exclusive = NoOne
      BY <1>1, <2>1 DEF SharedHeld
    <2>3. /\ runtime'.deadline = runtime.deadline /\ runtime'.alive = runtime.alive
          /\ runtime'.fence = runtime.fence
          /\ runtime' \in [alive : BOOLEAN, fence : BOOLEAN, pool : BOOLEAN,
                           deadline : 0..MaxClock, writing : Threads \union {NoOne}]
      BY <1>1, <2>1
    <2> QED BY <1>1, <1>2, <2>1, <2>2, <2>3, ConnectionsKeep
  <1> QED BY <1>3, <1>4, <1>5, <1>6, <1>7, <1>8

\* A write of the service lands on a connection that holds the lock, so nobody
\* settles or deletes; versions only grow.
LEMMA EndWriteKeeps ==
    ASSUME CleanupAssumption, CleanupInv, NEW kind \in Kinds, EndWrite(kind)
    PROVE  CleanupInv'
PROOF
  <1> DEFINE t == runtime.writing
  <1>1. /\ UNCHANGED <<now, email, schema, exclusive, plans, claimed, backups, receipts, op>>
        /\ runtime.alive /\ runtime.pool /\ t # NoOne
        /\ store' = [store EXCEPT ![t] = [kind |-> kind, version |-> @.version + 1]]
        /\ runtime' = [runtime EXCEPT !.writing = NoOne]
        /\ store[t].version < MaxVersion
    BY DEF EndWrite, artifacts, outside
  <1>2. /\ runtime \in [alive : BOOLEAN, fence : BOOLEAN, pool : BOOLEAN,
                        deadline : 0..MaxClock, writing : Threads \union {NoOne}]
        /\ exclusive = NoOne
        /\ \A o \in Operators : op[o].pc # "settling" /\ op[o].pc # "deleting"
    BY <1>1, ServiceFacts DEF SharedHeld
  <1>3. t \in Threads /\ MaxVersion \in Nat
    BY <1>1, <1>2, ConstantFacts
  <1>4. /\ runtime'.deadline = runtime.deadline /\ runtime'.alive = runtime.alive
        /\ runtime'.fence = runtime.fence /\ runtime'.pool = runtime.pool
        /\ runtime' \in [alive : BOOLEAN, fence : BOOLEAN, pool : BOOLEAN,
                         deadline : 0..MaxClock, writing : Threads \union {NoOne}]
    BY <1>1, <1>2
  <1> DEFINE new == [kind |-> kind, version |-> store[t].version + 1]
  <1>5. new \in [kind : Kinds, version : 0..MaxVersion] /\ new.version = store[t].version + 1
        /\ \A x \in Threads : store[x].version \in 0..MaxVersion
    BY <1>1, <1>3 DEF CleanupInv, TypeOK
  <1>6. store' = [store EXCEPT ![t] = new]
    BY <1>1
  <1> HIDE DEF new, t
  <1>7. /\ store' \in [Threads -> [kind : Kinds, version : 0..MaxVersion]]
        /\ \A x \in Threads : store[x].version <= store'[x].version
    BY <1>3, <1>5, <1>6 DEF CleanupInv, TypeOK
  <1>8. TypeOK'
    BY <1>1, <1>4, <1>7 DEF CleanupInv, TypeOK
  <1>9. LockExcludes' /\ StoppedInTime'
    BY <1>1, <1>2, <1>4 DEF CleanupInv, LockExcludes, StoppedInTime
  <1>10. BackupsInOrder'
    <2>1. ASSUME NEW b \in backups, NEW x \in Threads
          PROVE  b.content[x] <= store'[x].version
      <3>1. b.content[x] \in 0..MaxVersion /\ b.content[x] <= store[x].version
        BY DEF CleanupInv, TypeOK, Backup, BackupsInOrder
      <3> QED BY <1>3, <1>5, <1>7, <3>1 DEF CleanupInv, TypeOK
    <2>2. ASSUME NEW p \in Plans, Saved(p), NEW x \in DOMAIN plans[p].candidates
          PROVE  plans[p].candidates[x].version <= store'[x].version
      <3>1. x \in Threads /\ plans[p].candidates[x].version \in 0..MaxVersion
        BY <2>2, SavedPlan DEF CleanupInv, Candidate
      <3>2. plans[p].candidates[x].version <= store[x].version
        BY <2>2 DEF CleanupInv, BackupsInOrder
      <3>3. store'[x].version \in 0..MaxVersion
        BY <1>7, <3>1
      <3> QED BY <1>3, <1>5, <1>7, <3>1, <3>2, <3>3
    <2> QED BY <1>1, <2>1, <2>2 DEF CleanupInv, BackupsInOrder, Saved
  <1>11. Authorized'
    <2>1. \A o \in Operators : op[o].validated = NoOne
      BY <1>2 DEF CleanupInv, Authorized
    <2> QED BY <1>1, <2>1 DEF CleanupInv, Authorized, Saved
  <1>12. ClaimedOnce' /\ ExecutedOnce'
    BY <1>1 DEF CleanupInv, ClaimedOnce, ExecutedOnce, Claims
  <1> QED BY <1>8, <1>9, <1>10, <1>11, <1>12 DEF CleanupInv

\* The service that still changes an e-mail is alive, so nobody deletes.
LEMMA UpdateEmailKeeps ==
    ASSUME CleanupAssumption, CleanupInv, NEW t \in Threads, NEW terminal \in BOOLEAN,
           UpdateEmail(t, terminal)
    PROVE  CleanupInv'
PROOF
  <1>1. /\ UNCHANGED <<now, store, schema, runtime, exclusive, plans, claimed, backups, receipts, op>>
        /\ runtime.alive
        /\ email' = [email EXCEPT ![t] = [terminal |-> terminal, updated |-> now]]
    BY DEF UpdateEmail, artifacts, outside
  <1>2. email' \in [Threads -> [terminal : BOOLEAN, updated : 0..MaxClock]]
    BY <1>1 DEF CleanupInv, TypeOK
  <1>3. TypeOK'
    BY <1>1, <1>2 DEF CleanupInv, TypeOK
  <1>4. LockExcludes' /\ StoppedInTime'
    BY <1>1 DEF CleanupInv, LockExcludes, StoppedInTime, SharedHeld
  <1>5. BackupsInOrder'
    BY <1>1 DEF CleanupInv, BackupsInOrder, Saved
  <1>6. Authorized'
    <2>1. \A o \in Operators : op[o].validated = NoOne
      BY <1>1 DEF CleanupInv, Authorized, StoppedInTime
    <2> QED BY <1>1, <2>1 DEF CleanupInv, Authorized, Saved
  <1>7. ClaimedOnce' /\ ExecutedOnce'
    BY <1>1 DEF CleanupInv, ClaimedOnce, ExecutedOnce, Claims
  <1> QED BY <1>3, <1>4, <1>5, <1>6, <1>7 DEF CleanupInv

LEMMA ServiceKeeps ==
    ASSUME CleanupAssumption, CleanupInv, Service
    PROVE  CleanupInv'
PROOF
  BY ConnectionSteps, EndWriteKeeps, UpdateEmailKeeps DEF Service

\* A deployment changes nothing that a run compares with its own data.
LEMMA MigrateKeeps ==
    ASSUME CleanupInv, Migrate
    PROVE  CleanupInv'
PROOF
  <1>1. /\ UNCHANGED <<now, email, store, runtime, exclusive, plans, claimed, backups, receipts, op>>
        /\ schema' = 1
    BY DEF Migrate, artifacts, outside
  <1>2. TypeOK'
    BY <1>1 DEF CleanupInv, TypeOK
  <1>3. LockExcludes' /\ StoppedInTime' /\ BackupsInOrder'
    BY <1>1 DEF CleanupInv, LockExcludes, StoppedInTime, SharedHeld, BackupsInOrder, Saved
  <1>4. Authorized'
    BY <1>1 DEF CleanupInv, Authorized, Saved, TerminalBefore, _inventory_digest
  <1>5. ClaimedOnce' /\ ExecutedOnce'
    BY <1>1 DEF CleanupInv, ClaimedOnce, ExecutedOnce, Claims
  <1> QED BY <1>2, <1>3, <1>4, <1>5 DEF CleanupInv

-----------------------------------------------------------------------------
(* Time, plans, backups and receipts.                                      *)

\* Time passes, and perhaps a backup of the rows as they stand was taken.  It
\* holds at least what every plan that is already saved has seen.
LEMMA AgeKeeps ==
    ASSUME CleanupAssumption, CleanupInv, now < MaxClock, MonitorHasTime, now' = now + 1,
           UNCHANGED <<email, store, schema, runtime, exclusive, plans, claimed, receipts, op>>,
           NEW taken \in Backup,
           taken.at = now, \A t \in Threads : taken.content[t] = store[t].version,
           backups \subseteq backups', backups' \subseteq backups \union {taken}
    PROVE  CleanupInv'
PROOF
  <1>1. now \in 0..MaxClock /\ now' \in 0..MaxClock /\ MaxClock \in Nat /\ Detect \in Nat
    BY ConstantFacts DEF CleanupInv, TypeOK
  <1>2. TypeOK'
    BY <1>1 DEF CleanupInv, TypeOK
  <1>3. LockExcludes'
    BY DEF CleanupInv, LockExcludes, SharedHeld
  <1>4. StoppedInTime'
    <2>1. runtime.deadline \in 0..MaxClock
      BY DEF CleanupInv, TypeOK
    <2> QED BY <1>1, <2>1 DEF CleanupInv, StoppedInTime, MonitorHasTime
  <1>5. BackupsInOrder'
    <2>1. ASSUME NEW b \in backups'
          PROVE  b.at < now' /\ \A t \in Threads : b.content[t] <= store[t].version
      <3>1. \A t \in Threads : store[t].version \in 0..MaxVersion
        BY DEF CleanupInv, TypeOK
      <3>2. CASE b = taken
        BY <1>1, <3>1, <3>2, ConstantFacts
      <3>3. CASE b \in backups
        <4>1. b.at \in 0..MaxClock /\ b.at < now
          BY <3>3 DEF CleanupInv, TypeOK, Backup, BackupsInOrder
        <4> QED BY <1>1, <3>3, <4>1 DEF CleanupInv, BackupsInOrder
      <3> QED BY <3>2, <3>3
    <2>2. ASSUME NEW p \in Plans, Saved(p), NEW t \in DOMAIN plans[p].candidates
          PROVE  /\ plans[p].candidates[t].version <= store[t].version
                 /\ \A b \in backups' : b.at >= plans[p].scanned =>
                        plans[p].candidates[t].version <= b.content[t]
      <3>1. plans[p].candidates[t].version <= store[t].version
        BY <2>2 DEF CleanupInv, BackupsInOrder
      <3>2. t \in Threads
        BY <2>2, SavedPlan DEF CleanupInv
      <3>3. \A b \in backups : b.at >= plans[p].scanned =>
                plans[p].candidates[t].version <= b.content[t]
        BY <2>2 DEF CleanupInv, BackupsInOrder
      <3>4. plans[p].candidates[t].version <= taken.content[t]
        BY <3>1, <3>2
      <3> QED BY <3>1, <3>3, <3>4
    <2> QED BY <2>1, <2>2 DEF CleanupInv, BackupsInOrder, Saved
  <1>6. Authorized'
    BY DEF CleanupInv, Authorized, Saved, TerminalBefore, _inventory_digest
  <1>7. ClaimedOnce' /\ ExecutedOnce'
    BY DEF CleanupInv, ClaimedOnce, ExecutedOnce, Claims
  <1> QED BY <1>2, <1>3, <1>4, <1>5, <1>6, <1>7 DEF CleanupInv

LEMMA TimeSteps ==
    ASSUME CleanupAssumption, CleanupInv, Tick \/ TakeBackup
    PROVE  CleanupInv'
PROOF
  <1> DEFINE taken == [at |-> now, content |-> [t \in Threads |-> store[t].version]]
  <1>1. /\ now < MaxClock /\ MonitorHasTime /\ now' = now + 1
        /\ UNCHANGED <<email, store, schema, runtime, exclusive, plans, claimed, receipts, op>>
        /\ backups' = backups \/ backups' = backups \union {taken}
    BY DEF Tick, TakeBackup, artifacts, outside
  <1>2. taken \in Backup /\ taken.at = now
        /\ \A t \in Threads : taken.content[t] = store[t].version
    BY DEF CleanupInv, TypeOK, Backup
  <1> HIDE DEF taken
  <1>3. backups \subseteq backups' /\ backups' \subseteq backups \union {taken}
    BY <1>1
  <1> QED BY <1>1, <1>2, <1>3, AgeKeeps

\* A plan that is not saved yet is no run's plan: rewriting it, or saving it,
\* leaves every run's own plan alone.  The plan being saved was scanned after
\* every backup there is.
LEMMA PlanKeeps ==
    ASSUME CleanupAssumption, CleanupInv, NEW p \in Plans, ~Saved(p), NEW plan \in Plan,
           plans' = [plans EXCEPT ![p] = plan],
           UNCHANGED <<now, email, store, schema, runtime, exclusive, claimed, backups, receipts, op>>,
           \/ plan.scanned = -1
           \/ /\ plan.scanned = now
              /\ \A t \in DOMAIN plan.candidates :
                    plan.candidates[t].version = store[t].version
    PROVE  CleanupInv'
PROOF
  <1>1. /\ plans'[p] = plan
        /\ \A q \in Plans : q # p => plans'[q] = plans[q]
        /\ plans' \in [Plans -> Plan \union {NoPlan}]
    BY DEF CleanupInv, TypeOK
  <1>2. \A q \in Plans : Saved(q) => plans'[q] = plans[q] /\ Saved(q)'
    BY <1>1 DEF Saved
  <1>3. TypeOK'
    BY <1>1 DEF CleanupInv, TypeOK
  <1>4. LockExcludes' /\ StoppedInTime'
    BY DEF CleanupInv, LockExcludes, StoppedInTime, SharedHeld
  <1>5. BackupsInOrder'
    <2>1. ASSUME NEW q \in Plans, Saved(q)', NEW t \in DOMAIN plans'[q].candidates
          PROVE  /\ plans'[q].candidates[t].version <= store[t].version
                 /\ \A b \in backups : b.at >= plans'[q].scanned =>
                        plans'[q].candidates[t].version <= b.content[t]
      <3>1. CASE q # p
        <4>1. Saved(q) /\ plans'[q] = plans[q]
          BY <1>1, <2>1, <3>1 DEF Saved
        <4> QED BY <2>1, <4>1 DEF CleanupInv, BackupsInOrder
      <3>2. CASE q = p
        <4>1. plan.scanned = now /\ t \in DOMAIN plan.candidates
              /\ plan.candidates[t].version = store[t].version
          BY <1>1, <2>1, <3>2 DEF Saved
        <4>2. t \in Threads /\ store[t].version \in 0..MaxVersion
          BY <4>1 DEF Plan, CleanupInv, TypeOK
        <4>3. \A b \in backups : b.at \in 0..MaxClock /\ b.at < now
          BY DEF CleanupInv, TypeOK, Backup, BackupsInOrder
        <4>4. now \in 0..MaxClock /\ MaxClock \in Nat /\ MaxVersion \in Nat
          BY ConstantFacts DEF CleanupInv, TypeOK
        <4> QED BY <1>1, <3>2, <4>1, <4>2, <4>3, <4>4
      <3> QED BY <3>1, <3>2
    <2> QED BY <2>1 DEF CleanupInv, BackupsInOrder
  <1>6. Authorized'
    <2>1. \A o \in Operators :
            op[o].pc # "idle" => Saved(op[o].plan)' /\ plans'[op[o].plan] = plans[op[o].plan]
      BY <1>2 DEF CleanupInv, Authorized
    <2> QED BY <2>1 DEF CleanupInv, Authorized, TerminalBefore, _inventory_digest
  <1>7. ClaimedOnce' /\ ExecutedOnce'
    BY DEF CleanupInv, ClaimedOnce, ExecutedOnce, Claims
  <1> QED BY <1>3, <1>4, <1>5, <1>6, <1>7 DEF CleanupInv

LEMMA PlanSteps ==
    ASSUME CleanupAssumption, CleanupInv,
           \/ \E p \in Plans, cutoff \in 0..MaxClock : BeginPlan(p, cutoff)
           \/ \E p \in Plans, S \in SUBSET Threads : save_plan(p, S)
    PROVE  CleanupInv'
PROOF
  <1>1. now \in 0..MaxClock /\ MaxClock \in Nat /\ schema \in {0, 1}
    BY ConstantFacts DEF CleanupInv, TypeOK
  <1>2. ASSUME NEW p \in Plans, NEW cutoff \in 0..MaxClock, BeginPlan(p, cutoff)
        PROVE  CleanupInv'
    <2> DEFINE plan == [created |-> now, cutoff |-> cutoff, scanned |-> -1,
                        schema |-> 0, candidates |-> NoCandidates]
    <2>1. /\ ~Saved(p) /\ plans' = [plans EXCEPT ![p] = plan]
          /\ UNCHANGED <<now, email, store, schema, runtime, exclusive, claimed, backups, receipts, op>>
      BY <1>2 DEF BeginPlan, Saved, outside
    <2>2. plan \in Plan /\ plan.scanned = -1
      <3>1. {} \in SUBSET Threads /\ NoCandidates \in [{} -> Candidate]
        BY DEF NoCandidates
      <3>2. NoCandidates \in UNION {[S -> Candidate] : S \in SUBSET Threads}
        BY <3>1
      <3>3. -1 \in -1..MaxClock
        BY <1>1
      <3> QED BY <1>1, <3>2, <3>3 DEF Plan
    <2> HIDE DEF plan
    <2> QED BY <2>1, <2>2, PlanKeeps
  <1>3. ASSUME NEW p \in Plans, NEW S \in SUBSET Threads, save_plan(p, S)
        PROVE  CleanupInv'
    <2> DEFINE found == [t \in S |-> _inventory_digest(t)]
               plan == [plans[p] EXCEPT !.scanned = now, !.schema = schema, !.candidates = found]
    <2>1. /\ ~Saved(p) /\ plans[p] \in Plan
          /\ UNCHANGED <<now, email, store, schema, runtime, exclusive, claimed, backups, receipts, op>>
      BY <1>3 DEF save_plan, CleanupInv, TypeOK, outside
    <2>2. plans' = [plans EXCEPT ![p] = plan]
      BY <1>3 DEF save_plan, scan_candidates, _read_database_metadata, CleanupInv, TypeOK
    <2>3. found \in [S -> Candidate]
      BY DEF _inventory_digest, Candidate, CleanupInv, TypeOK
    <2>4. \A t \in S : found[t].version = store[t].version
      BY DEF _inventory_digest
    <2> HIDE DEF found
    <2>5. found \in UNION {[R -> Candidate] : R \in SUBSET Threads}
      BY <2>3
    <2>6. plan \in Plan /\ plan.scanned = now /\ plan.candidates = found
      <3>1. now \in -1..MaxClock
        BY <1>1
      <3> QED BY <1>1, <2>1, <2>5, <3>1 DEF Plan
    <2> HIDE DEF plan
    <2>7. \A t \in DOMAIN plan.candidates : plan.candidates[t].version = store[t].version
      BY <2>3, <2>4, <2>6
    <2> QED BY <2>1, <2>2, <2>6, <2>7, PlanKeeps
  <1> QED BY <1>2, <1>3

LEMMA SignReceiptKeeps ==
    ASSUME CleanupInv, NEW p \in Plans, NEW b \in backups, SignReceipt(p, b)
    PROVE  CleanupInv'
PROOF
  <1>1. /\ UNCHANGED <<now, email, store, schema, runtime, exclusive, plans, claimed, backups, op>>
        /\ receipts' = [receipts EXCEPT ![p] = b]
    BY DEF SignReceipt, artifacts
  <1>2. receipts' \in [Plans -> Backup \union {NoBackup}]
        /\ \A q \in Plans : receipts'[q] = IF q = p THEN b ELSE receipts[q]
    BY <1>1 DEF CleanupInv, TypeOK
  <1>3. TypeOK'
    BY <1>1, <1>2 DEF CleanupInv, TypeOK
  <1>4. LockExcludes' /\ StoppedInTime'
    BY <1>1 DEF CleanupInv, LockExcludes, StoppedInTime, SharedHeld
  <1>5. BackupsInOrder'
    BY <1>1, <1>2 DEF CleanupInv, BackupsInOrder, Saved
  <1>6. Authorized'
    BY <1>1 DEF CleanupInv, Authorized, Saved, TerminalBefore, _inventory_digest
  <1>7. ClaimedOnce' /\ ExecutedOnce'
    BY <1>1 DEF CleanupInv, ClaimedOnce, ExecutedOnce, Claims
  <1> QED BY <1>3, <1>4, <1>5, <1>6, <1>7 DEF CleanupInv

LEMMA PrepareKeeps ==
    ASSUME CleanupAssumption, CleanupInv, Prepare
    PROVE  CleanupInv'
PROOF
  BY PlanSteps, SignReceiptKeeps, TimeSteps DEF Prepare

-----------------------------------------------------------------------------
(* The runs.                                                               *)

\* Authorized and Claims, said of a run wherever it is kept.
InOrder(run) ==
    /\ run.pc # "idle" =>
        /\ run.plan \in Plans /\ Saved(run.plan)
        /\ run.queue \subseteq DOMAIN plans[run.plan].candidates
        /\ run.backup \in backups
        /\ run.backup.at >= plans[run.plan].created
    /\ run.validated # NoOne =>
        /\ run.pc = "deleting"
        /\ run.validated \in DOMAIN plans[run.plan].candidates
        /\ TerminalBefore(run.validated, plans[run.plan].cutoff)
        /\ _inventory_digest(run.validated) = plans[run.plan].candidates[run.validated]

Claiming(run) ==
    run.pc \in {"claimed", "settling", "deleting", "reporting"} \/ run.deleted # {}

\* One run's step.  It concerns the others only through the lock, the claims
\* and the rows, whose versions no deletion changes.
LEMMA RunKeeps ==
    ASSUME CleanupInv, NEW o \in Operators, NEW run \in Run,
           op' = [op EXCEPT ![o] = run],
           UNCHANGED <<now, email, schema, runtime, plans, backups, receipts>>,
           store' \in [Threads -> [kind : Kinds, version : 0..MaxVersion]],
           \A t \in Threads : store'[t].version = store[t].version,
           claimed \subseteq claimed', claimed' \subseteq Plans,
           exclusive' \in Operators \union {NoOne},
           exclusive' = o <=> run.pc \in {"settling", "deleting"},
           \A q \in Operators : q # o => (exclusive' = q <=> exclusive = q),
           exclusive' # NoOne => ~SharedHeld,
           run.pc = "settling" /\ runtime.alive => runtime.deadline <= run.since + Detect,
           run.pc = "deleting" => ~runtime.alive,
           InOrder(run),
           Claiming(run) => run.plan \in claimed',
           Claiming(run) => \A q \in Operators \ {o} : Claims(q) => op[q].plan # run.plan,
           run.pc \in {"idle", "authorized"} => run.deleted = {},
           CleanupAssumption
    PROVE  CleanupInv'
PROOF
  <1>1. /\ op'[o] = run /\ op' \in [Operators -> Run]
        /\ \A q \in Operators : q # o => op'[q] = op[q]
    BY DEF CleanupInv, TypeOK
  <1>2. TypeOK'
    BY <1>1 DEF CleanupInv, TypeOK
  <1>3. LockExcludes'
    <2>1. \A q \in Operators : exclusive' = q <=> op'[q].pc \in {"settling", "deleting"}
      BY <1>1 DEF CleanupInv, LockExcludes
    <2>2. SharedHeld' = SharedHeld
      BY DEF SharedHeld
    <2> QED BY <2>1, <2>2 DEF LockExcludes
  <1>4. StoppedInTime'
    <2>1. \A q \in Operators :
            /\ op'[q].pc = "settling" /\ runtime.alive => runtime.deadline <= op'[q].since + Detect
            /\ op'[q].pc = "deleting" => ~runtime.alive
      BY <1>1 DEF CleanupInv, StoppedInTime
    <2> QED BY <2>1 DEF CleanupInv, StoppedInTime
  <1>5. BackupsInOrder'
    <2>1. ASSUME NEW q \in Plans, Saved(q)
          PROVE  DOMAIN plans[q].candidates \subseteq Threads
      BY <2>1, SavedPlan DEF CleanupInv
    <2> QED BY <2>1 DEF CleanupInv, BackupsInOrder, Saved
  <1>6. Authorized'
    <2>1. ASSUME NEW q \in Operators
          PROVE  InOrder(op'[q])
      BY <1>1 DEF CleanupInv, Authorized, InOrder
    <2>2. \A q \in Operators : op'[q].validated \in Threads \union {NoOne}
      BY <1>1 DEF Run
    <2>3. ASSUME NEW q \in Operators, op'[q].validated # NoOne
          PROVE  /\ op'[q].pc = "deleting"
                 /\ op'[q].validated \in DOMAIN plans[op'[q].plan].candidates
                 /\ email[op'[q].validated].terminal
                 /\ email[op'[q].validated].updated < plans[op'[q].plan].cutoff
                 /\ [version |-> store'[op'[q].validated].version,
                     updated |-> email[op'[q].validated].updated]
                       = plans[op'[q].plan].candidates[op'[q].validated]
      <3>1. op'[q].validated \in Threads
        BY <2>2, <2>3
      <3>2. store'[op'[q].validated].version = store[op'[q].validated].version
        BY <3>1
      <3> QED BY <2>1, <2>3, <3>2 DEF InOrder, TerminalBefore, _inventory_digest
    <2>4. \A q \in Operators : op'[q].pc # "idle" =>
            /\ op'[q].plan \in Plans /\ Saved(op'[q].plan)
            /\ op'[q].queue \subseteq DOMAIN plans[op'[q].plan].candidates
            /\ op'[q].backup \in backups
            /\ op'[q].backup.at >= plans[op'[q].plan].created
      BY <2>1 DEF InOrder
    <2> QED BY <2>3, <2>4 DEF Authorized, Saved, TerminalBefore, _inventory_digest
  <1>7. ClaimedOnce'
    <2>1. ASSUME NEW q \in Operators
          PROVE  /\ Claiming(op'[q]) => op'[q].plan \in claimed'
                 /\ op'[q].pc \in {"idle", "authorized"} => op'[q].deleted = {}
      BY <1>1 DEF CleanupInv, ClaimedOnce, Claims, Claiming
    <2>2. ASSUME NEW q \in Operators, NEW r \in Operators,
                 Claiming(op'[q]), Claiming(op'[r]), op'[q].plan = op'[r].plan
          PROVE  q = r
      <3>1. \A x \in Operators : x # o => (Claiming(op'[x]) <=> Claims(x))
        BY <1>1 DEF Claims, Claiming
      <3>2. CASE q # o /\ r # o
        BY <1>1, <2>2, <3>1, <3>2 DEF CleanupInv, ClaimedOnce
      <3>3. CASE q = o \/ r = o
        BY <1>1, <2>2, <3>1, <3>3
      <3> QED BY <3>2, <3>3
    <2> QED BY <2>1, <2>2 DEF ClaimedOnce, Claims, Claiming
  <1>8. ExecutedOnce'
    BY <1>7 DEF ClaimedOnce, ExecutedOnce, Claims
  <1> QED BY <1>2, <1>3, <1>4, <1>5, <1>6, <1>7, <1>8 DEF CleanupInv

\* What is known of a run that takes a step.
LEMMA RunFacts ==
    ASSUME CleanupAssumption, CleanupInv, NEW o \in Operators
    PROVE  /\ op[o] \in Run /\ o # NoOne
           /\ claimed \subseteq Plans /\ exclusive \in Operators \union {NoOne}
           /\ store \in [Threads -> [kind : Kinds, version : 0..MaxVersion]]
           /\ now \in 0..MaxClock /\ MaxClock \in Nat
           /\ InOrder(op[o]) /\ InOrder(Idle)
           /\ exclusive = o <=> op[o].pc \in {"settling", "deleting"}
           /\ exclusive # NoOne => ~SharedHeld
           /\ op[o].pc = "deleting" => ~runtime.alive
           /\ Claiming(op[o]) => op[o].plan \in claimed
           /\ Claiming(op[o]) => \A q \in Operators \ {o} : Claims(q) => op[q].plan # op[o].plan
           /\ op[o].pc \in {"idle", "authorized"} => op[o].deleted = {}
           /\ \A q \in Operators : Claims(q) => op[q].plan \in claimed
PROOF
  <1>1. op[o] \in Run /\ o # NoOne
    BY ConstantFacts DEF CleanupInv, TypeOK
  <1>2. InOrder(op[o])
    BY DEF CleanupInv, Authorized, InOrder
  <1>3. InOrder(Idle)
    BY DEF Idle, InOrder
  <1>4. /\ Claiming(op[o]) => op[o].plan \in claimed
        /\ Claiming(op[o]) => \A q \in Operators \ {o} : Claims(q) => op[q].plan # op[o].plan
        /\ op[o].pc \in {"idle", "authorized"} => op[o].deleted = {}
        /\ \A q \in Operators : Claims(q) => op[q].plan \in claimed
    BY DEF CleanupInv, ClaimedOnce, Claims, Claiming
  <1> QED BY <1>1, <1>2, <1>3, <1>4, ConstantFacts
          DEF CleanupInv, TypeOK, LockExcludes, StoppedInTime

\* A run that stops working on its plan: it gives up the lock if it has it.
LEMMA EndKeeps ==
    ASSUME CleanupAssumption, CleanupInv, NEW o \in Operators, NEW run \in Run,
           op' = [op EXCEPT ![o] = run],
           UNCHANGED <<now, email, schema, runtime, plans, claimed, backups, receipts>>,
           store' \in [Threads -> [kind : Kinds, version : 0..MaxVersion]],
           \A t \in Threads : store'[t].version = store[t].version,
           Release(o),
           op[o].pc \notin {"idle", "done"}, run.pc \in {"reporting", "done"},
           op[o].pc = "authorized" => run.pc = "done" /\ run.deleted = op[o].deleted,
           run.plan = op[o].plan, run.backup = op[o].backup,
           run.queue \subseteq op[o].queue, run.validated = NoOne
    PROVE  CleanupInv'
PROOF
  <1>1. /\ op[o] \in Run /\ o # NoOne
        /\ claimed \subseteq Plans /\ exclusive \in Operators \union {NoOne}
        /\ exclusive # NoOne => ~SharedHeld
        /\ Claiming(op[o]) => op[o].plan \in claimed
        /\ Claiming(op[o]) => \A q \in Operators \ {o} : Claims(q) => op[q].plan # op[o].plan
        /\ op[o].pc \in {"idle", "authorized"} => op[o].deleted = {}
    BY RunFacts
  <1>2. InOrder(op[o])
    BY RunFacts
  <1>3. InOrder(run)
    BY <1>2 DEF InOrder
  <1>4. Claiming(run) => Claiming(op[o])
    BY <1>1 DEF Claiming, Run, Phases
  <1>5. /\ exclusive' \in Operators \union {NoOne} /\ exclusive' # o
        /\ \A q \in Operators : q # o => (exclusive' = q <=> exclusive = q)
        /\ exclusive' # NoOne => ~SharedHeld
    <2>1. \A q \in Operators : q # NoOne
      BY ConstantFacts
    <2> QED BY <1>1, <2>1 DEF Release
  <1>6. exclusive' = o <=> run.pc \in {"settling", "deleting"}
    BY <1>5
  <1>7. /\ run.pc = "settling" /\ runtime.alive => runtime.deadline <= run.since + Detect
        /\ run.pc = "deleting" => ~runtime.alive
        /\ run.pc \in {"idle", "authorized"} => run.deleted = {}
    OBVIOUS
  <1>8. /\ Claiming(run) => run.plan \in claimed'
        /\ Claiming(run) => \A q \in Operators \ {o} : Claims(q) => op[q].plan # run.plan
        /\ claimed \subseteq claimed' /\ claimed' \subseteq Plans
    BY <1>1, <1>4
  <1> QED BY <1>3, <1>5, <1>6, <1>7, <1>8, RunKeeps

\* A run that goes on deleting: the service is gone.
LEMMA DeletingKeeps ==
    ASSUME CleanupAssumption, CleanupInv, NEW o \in Operators, NEW run \in Run,
           op' = [op EXCEPT ![o] = run],
           UNCHANGED <<now, email, schema, runtime, exclusive, plans, claimed, backups, receipts>>,
           store' \in [Threads -> [kind : Kinds, version : 0..MaxVersion]],
           \A t \in Threads : store'[t].version = store[t].version,
           op[o].pc \in {"settling", "deleting"}, run.pc = "deleting", ~runtime.alive,
           run.plan = op[o].plan, run.backup = op[o].backup,
           run.queue \subseteq op[o].queue,
           run.validated # NoOne =>
             /\ run.validated \in DOMAIN plans[run.plan].candidates
             /\ TerminalBefore(run.validated, plans[run.plan].cutoff)
             /\ _inventory_digest(run.validated) = plans[run.plan].candidates[run.validated]
    PROVE  CleanupInv'
PROOF
  <1>1. /\ claimed \subseteq Plans /\ exclusive \in Operators \union {NoOne}
        /\ exclusive # NoOne => ~SharedHeld
        /\ exclusive = o <=> op[o].pc \in {"settling", "deleting"}
        /\ Claiming(op[o]) => op[o].plan \in claimed
        /\ Claiming(op[o]) => \A q \in Operators \ {o} : Claims(q) => op[q].plan # op[o].plan
    BY RunFacts
  <1>2. InOrder(op[o])
    BY RunFacts
  <1>3. InOrder(run)
    BY <1>2 DEF InOrder
  <1>4. Claiming(op[o])
    BY DEF Claiming
  <1>5. /\ exclusive' = o <=> run.pc \in {"settling", "deleting"}
        /\ run.pc = "settling" /\ runtime.alive => runtime.deadline <= run.since + Detect
        /\ run.pc \in {"idle", "authorized"} => run.deleted = {}
        /\ \A q \in Operators : q # o => (exclusive' = q <=> exclusive = q)
        /\ exclusive' \in Operators \union {NoOne}
        /\ exclusive' # NoOne => ~SharedHeld
    BY <1>1
  <1>6. /\ Claiming(run) => run.plan \in claimed'
        /\ Claiming(run) => \A q \in Operators \ {o} : Claims(q) => op[q].plan # run.plan
        /\ claimed \subseteq claimed' /\ claimed' \subseteq Plans
    BY <1>1, <1>4
  <1> QED BY <1>3, <1>5, <1>6, RunKeeps

\* Receipt, claim and refusal: one plan, one claim.
LEMMA BeginningSteps ==
    ASSUME CleanupAssumption, CleanupInv, NEW o \in Operators,
           (\E p \in Plans : Authorize(o, p)) \/ claim_plan(o) \/ Refused(o)
    PROVE  CleanupInv'
PROOF
  <1>1. /\ op[o] \in Run /\ o # NoOne
        /\ claimed \subseteq Plans /\ exclusive \in Operators \union {NoOne}
        /\ store \in [Threads -> [kind : Kinds, version : 0..MaxVersion]]
        /\ now \in 0..MaxClock /\ MaxClock \in Nat
        /\ exclusive = o <=> op[o].pc \in {"settling", "deleting"}
        /\ exclusive # NoOne => ~SharedHeld
        /\ op[o].pc \in {"idle", "authorized"} => op[o].deleted = {}
        /\ \A q \in Operators : Claims(q) => op[q].plan \in claimed
    BY RunFacts
  <1>2. InOrder(op[o]) /\ InOrder(Idle)
    BY RunFacts
  <1>3. 0 \in 0..MaxClock
    BY <1>1
  <1>4. ASSUME NEW p \in Plans, Authorize(o, p)
        PROVE  CleanupInv'
    <2> DEFINE run == [Idle EXCEPT !.pc = "authorized", !.plan = p, !.backup = receipts[p]]
    <2>1. /\ op[o].pc = "idle" /\ Saved(p) /\ receipts[p] # NoBackup
          /\ receipts[p].at >= plans[p].created
          /\ op' = [op EXCEPT ![o] = run]
          /\ UNCHANGED <<now, email, store, schema, runtime, exclusive, plans, claimed, backups, receipts>>
      BY <1>4 DEF Authorize, verify, artifacts, outside
    <2>2. receipts[p] \in backups /\ receipts[p] \in Backup
      BY <2>1 DEF CleanupInv, TypeOK, BackupsInOrder
    <2>3. /\ run \in Run /\ run.pc = "authorized" /\ run.plan = p /\ run.backup = receipts[p]
          /\ run.queue = {} /\ run.deleted = {} /\ run.validated = NoOne
      BY <1>3, <2>2 DEF Idle, Run, Phases
    <2> HIDE DEF run
    <2>4. InOrder(run)
      BY <2>1, <2>2, <2>3 DEF InOrder
    <2>5. ~Claiming(run)
      BY <2>3 DEF Claiming
    <2>6. /\ exclusive' = o <=> run.pc \in {"settling", "deleting"}
          /\ run.pc # "settling" /\ run.pc # "deleting"
      BY <1>1, <2>1, <2>3
    <2>7. /\ \A q \in Operators : q # o => (exclusive' = q <=> exclusive = q)
          /\ claimed \subseteq claimed' /\ claimed' \subseteq Plans
          /\ exclusive' \in Operators \union {NoOne}
          /\ exclusive' # NoOne => ~SharedHeld
          /\ store' \in [Threads -> [kind : Kinds, version : 0..MaxVersion]]
          /\ \A t \in Threads : store'[t].version = store[t].version
      BY <1>1, <2>1
    <2>8. /\ UNCHANGED <<now, email, schema, runtime, plans, backups, receipts>>
          /\ run.pc = "settling" /\ runtime.alive => runtime.deadline <= run.since + Detect
          /\ run.pc = "deleting" => ~runtime.alive
          /\ Claiming(run) => run.plan \in claimed'
          /\ Claiming(run) => \A q \in Operators \ {o} : Claims(q) => op[q].plan # run.plan
          /\ run.pc \in {"idle", "authorized"} => run.deleted = {}
      BY <2>1, <2>3, <2>5, <2>6
    <2> QED BY <2>1, <2>3, <2>4, <2>6, <2>7, <2>8, RunKeeps
  <1>5. CASE claim_plan(o)
    <2> DEFINE run == [op[o] EXCEPT !.pc = "claimed",
                                    !.queue = DOMAIN plans[op[o].plan].candidates]
    <2>1. /\ op[o].pc = "authorized" /\ op[o].plan \notin claimed
          /\ claimed' = claimed \union {op[o].plan}
          /\ op' = [op EXCEPT ![o] = run]
          /\ UNCHANGED <<now, email, store, schema, runtime, exclusive, plans, backups, receipts>>
      BY <1>5 DEF claim_plan, outside
    <2>2. op[o].plan \in Plans /\ Saved(op[o].plan)
      BY <1>2, <2>1 DEF InOrder
    <2>3. DOMAIN plans[op[o].plan].candidates \in SUBSET Threads
      BY <2>2, SavedPlan DEF CleanupInv
    <2>4. /\ run \in Run /\ run.pc = "claimed" /\ run.plan = op[o].plan
          /\ run.backup = op[o].backup /\ run.validated = op[o].validated
          /\ run.queue = DOMAIN plans[op[o].plan].candidates
      BY <1>1, <2>3 DEF Run, Phases
    <2> HIDE DEF run
    <2>5. InOrder(run)
      BY <1>2, <2>1, <2>4 DEF InOrder
    <2>6. /\ exclusive' = o <=> run.pc \in {"settling", "deleting"}
          /\ run.pc \notin {"settling", "deleting", "idle", "authorized"}
      BY <1>1, <2>1, <2>4
    <2>7. /\ \A q \in Operators : q # o => (exclusive' = q <=> exclusive = q)
          /\ claimed \subseteq claimed' /\ claimed' \subseteq Plans
          /\ exclusive' \in Operators \union {NoOne}
          /\ exclusive' # NoOne => ~SharedHeld
          /\ store' \in [Threads -> [kind : Kinds, version : 0..MaxVersion]]
          /\ \A t \in Threads : store'[t].version = store[t].version
      BY <1>1, <2>1, <2>2
    <2>8. /\ run.plan \in claimed'
          /\ \A q \in Operators \ {o} : Claims(q) => op[q].plan # run.plan
      BY <1>1, <2>1, <2>4
    <2>9. /\ UNCHANGED <<now, email, schema, runtime, plans, backups, receipts>>
          /\ run.pc = "settling" /\ runtime.alive => runtime.deadline <= run.since + Detect
          /\ run.pc = "deleting" => ~runtime.alive
          /\ Claiming(run) => run.plan \in claimed'
          /\ Claiming(run) => \A q \in Operators \ {o} : Claims(q) => op[q].plan # run.plan
          /\ run.pc \in {"idle", "authorized"} => run.deleted = {}
      BY <2>1, <2>6, <2>8
    <2> QED BY <2>1, <2>4, <2>5, <2>6, <2>7, <2>9, RunKeeps
  <1>6. CASE Refused(o)
    <2>1. /\ op[o].pc = "authorized" /\ op' = [op EXCEPT ![o] = Idle]
          /\ UNCHANGED <<now, email, store, schema, runtime, exclusive, plans, claimed, backups, receipts>>
      BY <1>6 DEF Refused, artifacts, outside
    <2>2. Idle \in Run /\ Idle.pc = "idle" /\ Idle.deleted = {} /\ ~Claiming(Idle)
      BY <1>3 DEF Idle, Run, Phases, Claiming
    <2>3. /\ exclusive' = o <=> Idle.pc \in {"settling", "deleting"}
          /\ \A q \in Operators : q # o => (exclusive' = q <=> exclusive = q)
          /\ claimed \subseteq claimed' /\ claimed' \subseteq Plans
          /\ exclusive' \in Operators \union {NoOne}
          /\ exclusive' # NoOne => ~SharedHeld
          /\ store' \in [Threads -> [kind : Kinds, version : 0..MaxVersion]]
          /\ \A t \in Threads : store'[t].version = store[t].version
      BY <1>1, <2>1, <2>2
    <2>4. /\ UNCHANGED <<now, email, schema, runtime, plans, backups, receipts>>
          /\ Idle.pc = "settling" /\ runtime.alive => runtime.deadline <= Idle.since + Detect
          /\ Idle.pc = "deleting" => ~runtime.alive
          /\ Claiming(Idle) => Idle.plan \in claimed'
          /\ Claiming(Idle) => \A q \in Operators \ {o} : Claims(q) => op[q].plan # Idle.plan
          /\ Idle.pc \in {"idle", "authorized"} => Idle.deleted = {}
      BY <2>1, <2>2
    <2> QED BY <1>2, <2>1, <2>2, <2>3, <2>4, RunKeeps
  <1> QED BY <1>4, <1>5, <1>6

\* The lock: tried, settled in, given back.  A service that still ran when the
\* settling time is over would have lost its fence longer than Detect ago.
LEMMA LockSteps ==
    ASSUME CleanupAssumption, CleanupInv, NEW o \in Operators,
           execution_session(o) \/ Settled(o)
    PROVE  CleanupInv'
PROOF
  <1>1. /\ op[o] \in Run /\ o # NoOne
        /\ claimed \subseteq Plans /\ exclusive \in Operators \union {NoOne}
        /\ store \in [Threads -> [kind : Kinds, version : 0..MaxVersion]]
        /\ now \in 0..MaxClock /\ MaxClock \in Nat
        /\ exclusive = o <=> op[o].pc \in {"settling", "deleting"}
        /\ exclusive # NoOne => ~SharedHeld
        /\ Claiming(op[o]) => op[o].plan \in claimed
        /\ Claiming(op[o]) => \A q \in Operators \ {o} : Claims(q) => op[q].plan # op[o].plan
    BY RunFacts
  <1>2. InOrder(op[o])
    BY RunFacts
  <1>3. /\ runtime.deadline \in 0..MaxClock /\ runtime.deadline <= now + Detect
        /\ runtime.alive /\ ~runtime.fence => now <= runtime.deadline
        /\ op[o].pc = "settling" /\ runtime.alive => runtime.deadline <= op[o].since + Detect
        /\ op[o].since \in 0..MaxClock
    BY <1>1 DEF CleanupInv, TypeOK, StoppedInTime, Run
  <1> DEFINE report == [op[o] EXCEPT !.pc = "reporting"]
  <1>4. /\ report \in Run /\ report.pc = "reporting" /\ report.plan = op[o].plan
        /\ report.backup = op[o].backup /\ report.queue = op[o].queue
        /\ report.validated = op[o].validated
    BY <1>1 DEF Run, Phases
  <1> HIDE DEF report
  <1>5. op[o].pc # "deleting" => op[o].validated = NoOne
    BY <1>2 DEF InOrder
  <1>6. ASSUME op[o].pc \in {"claimed", "settling"}, op' = [op EXCEPT ![o] = report], Release(o),
               UNCHANGED <<now, email, store, schema, runtime, plans, claimed, backups, receipts>>
        PROVE  CleanupInv'
    <2>1. /\ op[o].pc \notin {"idle", "done"} /\ op[o].pc # "authorized"
          /\ report.pc \in {"reporting", "done"} /\ report.validated = NoOne
          /\ report.queue \subseteq op[o].queue
      BY <1>4, <1>5, <1>6
    <2>2. /\ store' \in [Threads -> [kind : Kinds, version : 0..MaxVersion]]
          /\ \A t \in Threads : store'[t].version = store[t].version
      BY <1>1, <1>6
    <2> QED BY <1>4, <1>6, <2>1, <2>2, EndKeeps
  <1>7. CASE execution_session(o)
    <2> DEFINE run == [op[o] EXCEPT !.pc = "settling", !.since = now]
    <2>1. /\ op[o].pc = "claimed"
          /\ UNCHANGED <<now, email, store, schema, runtime, plans, claimed, backups, receipts>>
      BY <1>7 DEF execution_session, artifacts, outside
    <2>2. CASE /\ ~SharedHeld /\ exclusive = NoOne /\ exclusive' = o
               /\ op' = [op EXCEPT ![o] = run]
      <3>1. /\ run \in Run /\ run.pc = "settling" /\ run.since = now
            /\ run.plan = op[o].plan /\ run.backup = op[o].backup
            /\ run.queue = op[o].queue /\ run.validated = op[o].validated
        BY <1>1 DEF Run, Phases
      <3> HIDE DEF run
      <3>2. InOrder(run)
        BY <1>2, <1>5, <2>1, <3>1 DEF InOrder
      <3>3. /\ exclusive' = o <=> run.pc \in {"settling", "deleting"}
            /\ \A q \in Operators : q # o => (exclusive' = q <=> exclusive = q)
            /\ exclusive' \in Operators \union {NoOne}
            /\ exclusive' # NoOne => ~SharedHeld
        <4>1. \A q \in Operators : q # NoOne
          BY ConstantFacts
        <4> QED BY <2>2, <3>1, <4>1
      <3>4. Claiming(op[o])
        BY <2>1 DEF Claiming
      <3>5. /\ run.pc = "settling" /\ runtime.alive => runtime.deadline <= run.since + Detect
            /\ run.pc = "deleting" => ~runtime.alive
            /\ Claiming(run) => run.plan \in claimed'
            /\ Claiming(run) => \A q \in Operators \ {o} : Claims(q) => op[q].plan # run.plan
            /\ run.pc \in {"idle", "authorized"} => run.deleted = {}
            /\ claimed \subseteq claimed' /\ claimed' \subseteq Plans
            /\ store' \in [Threads -> [kind : Kinds, version : 0..MaxVersion]]
            /\ \A t \in Threads : store'[t].version = store[t].version
        BY <1>1, <1>3, <2>1, <3>1, <3>4
      <3>6. /\ op' = [op EXCEPT ![o] = run]
            /\ UNCHANGED <<now, email, schema, runtime, plans, backups, receipts>>
        BY <2>1, <2>2
      <3> QED BY <3>1, <3>2, <3>3, <3>5, <3>6, RunKeeps
    <2>3. CASE op' = [op EXCEPT ![o] = report] /\ UNCHANGED exclusive
      <3>1. Release(o)
        BY <1>1, <2>1, <2>3 DEF Release
      <3> QED BY <1>6, <2>1, <2>3, <3>1
    <2> QED BY <1>7, <2>2, <2>3 DEF execution_session, report
  <1>8. CASE Settled(o)
    <2> DEFINE run == [op[o] EXCEPT !.pc = "deleting"]
    <2>1. /\ op[o].pc = "settling" /\ now >= op[o].since + Settle
          /\ UNCHANGED <<now, email, store, schema, runtime, plans, claimed, backups, receipts>>
      BY <1>8 DEF Settled, artifacts, outside
    <2>2. CASE op' = [op EXCEPT ![o] = run] /\ UNCHANGED exclusive
      <3>1. /\ run \in Run /\ run.pc = "deleting"
            /\ run.plan = op[o].plan /\ run.backup = op[o].backup
            /\ run.queue = op[o].queue /\ run.validated = op[o].validated
        BY <1>1 DEF Run, Phases
      <3> HIDE DEF run
      <3>2. ~runtime.alive
        <4>1. ~SharedHeld
          BY <1>1, <2>1
        <4>2. runtime.alive => ~runtime.fence
          BY <4>1 DEF SharedHeld
        <4> QED BY <1>1, <1>3, <2>1, <4>2, ConstantFacts
      <3>3. /\ store' \in [Threads -> [kind : Kinds, version : 0..MaxVersion]]
            /\ \A t \in Threads : store'[t].version = store[t].version
            /\ run.validated = NoOne /\ run.queue \subseteq op[o].queue
        BY <1>1, <1>5, <2>1, <3>1
      <3> QED BY <2>1, <2>2, <3>1, <3>2, <3>3, DeletingKeeps
    <2>3. CASE op' = [op EXCEPT ![o] = report] /\ Release(o)
      BY <1>6, <2>1, <2>3
    <2> QED BY <1>8, <2>2, <2>3 DEF Settled, report
  <1> QED BY <1>7, <1>8

LEMMA DeletingSteps ==
    ASSUME CleanupAssumption, CleanupInv, NEW o \in Operators,
           \/ \E t \in Threads : Revalidate(o, t)
           \/ DeleteThread(o) \/ CloseSession(o) \/ LoseConnection(o)
           \/ save_report(o) \/ Crash(o)
    PROVE  CleanupInv'
PROOF
  <1>1. /\ op[o] \in Run /\ o # NoOne
        /\ store \in [Threads -> [kind : Kinds, version : 0..MaxVersion]]
        /\ exclusive = o <=> op[o].pc \in {"settling", "deleting"}
        /\ op[o].pc = "deleting" => ~runtime.alive
        /\ op[o].pc \in {"idle", "authorized"} => op[o].deleted = {}
    BY RunFacts
  <1>2. InOrder(op[o])
    BY RunFacts
  <1>3. store \in [Threads -> [kind : Kinds, version : 0..MaxVersion]]
        /\ \A t \in Threads : store[t].version = store[t].version
    BY <1>1
  <1>4. op[o].pc # "deleting" => op[o].validated = NoOne
    BY <1>2 DEF InOrder
  <1>5. ASSUME NEW t \in Threads, Revalidate(o, t)
        PROVE  CleanupInv'
    <2>1. /\ op[o].pc = "deleting" /\ op[o].validated = NoOne /\ t \in op[o].queue
          /\ UNCHANGED <<now, email, store, schema, runtime, plans, claimed, backups, receipts>>
      BY <1>5 DEF Revalidate, artifacts, outside
    <2> DEFINE report == [op[o] EXCEPT !.pc = "reporting"]
               kept == IF _revalidate_on_connection(op[o].plan, t) THEN t ELSE NoOne
               run == [op[o] EXCEPT !.queue = @ \ {t}, !.validated = kept]
    <2>2. CASE op' = [op EXCEPT ![o] = report] /\ Release(o)
      <3>1. /\ report \in Run /\ report.pc \in {"reporting", "done"}
            /\ report.plan = op[o].plan /\ report.backup = op[o].backup
            /\ report.queue \subseteq op[o].queue /\ report.validated = NoOne
        BY <1>1, <2>1 DEF Run, Phases
      <3> HIDE DEF report
      <3> QED BY <1>3, <2>1, <2>2, <3>1, EndKeeps
    <2>3. CASE op' = [op EXCEPT ![o] = run] /\ UNCHANGED exclusive
      <3>1. kept \in Threads \union {NoOne}
        OBVIOUS
      <3>2. kept # NoOne =>
              /\ kept \in DOMAIN plans[op[o].plan].candidates
              /\ TerminalBefore(kept, plans[op[o].plan].cutoff)
              /\ _inventory_digest(kept) = plans[op[o].plan].candidates[kept]
        BY <1>2, <2>1 DEF InOrder, _revalidate_on_connection, Eligible
      <3> HIDE DEF kept
      <3>3. /\ run \in Run /\ run.pc = "deleting"
            /\ run.plan = op[o].plan /\ run.backup = op[o].backup
            /\ run.queue \subseteq op[o].queue /\ run.validated = kept
        BY <1>1, <2>1, <3>1 DEF Run, Phases
      <3> HIDE DEF run
      <3> QED BY <1>1, <1>3, <2>1, <2>3, <3>2, <3>3, DeletingKeeps
    <2> QED BY <1>5, <2>2, <2>3 DEF Revalidate
  <1>6. CASE DeleteThread(o)
    <2> DEFINE v == op[o].validated
               report == [op[o] EXCEPT !.pc = "reporting", !.validated = NoOne]
               run == [op[o] EXCEPT !.validated = NoOne, !.deleted = @ \union {v}]
    <2>1. /\ op[o].pc = "deleting" /\ v # NoOne
          /\ UNCHANGED <<now, email, schema, runtime, plans, claimed, backups, receipts>>
          /\ store' = store \/ store' = [store EXCEPT ![v].kind = "none"]
      BY <1>6 DEF DeleteThread, artifacts, outside
    <2>2. v \in Threads
      BY <1>1, <2>1 DEF Run
    <2>3. /\ store' \in [Threads -> [kind : Kinds, version : 0..MaxVersion]]
          /\ \A t \in Threads : store'[t].version = store[t].version
      BY <1>1, <2>1, <2>2 DEF Kinds
    <2>4. CASE op' = [op EXCEPT ![o] = report] /\ Release(o)
      <3>1. /\ report \in Run /\ report.pc \in {"reporting", "done"}
            /\ report.plan = op[o].plan /\ report.backup = op[o].backup
            /\ report.queue \subseteq op[o].queue /\ report.validated = NoOne
        BY <1>1, <2>1 DEF Run, Phases
      <3> HIDE DEF report
      <3> QED BY <2>1, <2>3, <2>4, <3>1, EndKeeps
    <2>5. CASE op' = [op EXCEPT ![o] = run] /\ UNCHANGED exclusive
      <3>1. /\ run \in Run /\ run.pc = "deleting"
            /\ run.plan = op[o].plan /\ run.backup = op[o].backup
            /\ run.queue \subseteq op[o].queue /\ run.validated = NoOne
        BY <1>1, <2>1, <2>2 DEF Run, Phases
      <3> HIDE DEF run
      <3> QED BY <1>1, <2>1, <2>3, <2>5, <3>1, DeletingKeeps
    <2> QED BY <1>6, <2>4, <2>5 DEF DeleteThread
  <1>7. CASE CloseSession(o) \/ LoseConnection(o) \/ save_report(o) \/ Crash(o)
    <2>1. PICK run \in Run :
            /\ op' = [op EXCEPT ![o] = run] /\ Release(o)
            /\ UNCHANGED <<now, email, store, schema, runtime, plans, claimed, backups, receipts>>
            /\ op[o].pc \notin {"idle", "done"} /\ run.pc \in {"reporting", "done"}
            /\ op[o].pc = "authorized" => run.pc = "done"
            /\ run.plan = op[o].plan /\ run.backup = op[o].backup /\ run.deleted = op[o].deleted
            /\ run.queue \subseteq op[o].queue /\ run.validated = NoOne
      <3>1. CASE CloseSession(o)
        <4> DEFINE run == [op[o] EXCEPT !.pc = "reporting"]
        <4>1. /\ run \in Run /\ run.pc = "reporting" /\ run.plan = op[o].plan
              /\ run.backup = op[o].backup /\ run.deleted = op[o].deleted
              /\ run.queue = op[o].queue /\ run.validated = op[o].validated
          BY <1>1 DEF Run, Phases
        <4>2. /\ op' = [op EXCEPT ![o] = run] /\ op[o].pc = "deleting" /\ Release(o)
              /\ op[o].validated = NoOne
              /\ UNCHANGED <<now, email, store, schema, runtime, plans, claimed, backups, receipts>>
          BY <3>1 DEF CloseSession, artifacts, outside
        <4> HIDE DEF run
        <4> QED BY <4>1, <4>2
      <3>2. CASE LoseConnection(o)
        <4> DEFINE run == [op[o] EXCEPT !.pc = "reporting", !.validated = NoOne]
        <4>1. /\ run \in Run /\ run.pc = "reporting" /\ run.plan = op[o].plan
              /\ run.backup = op[o].backup /\ run.deleted = op[o].deleted
              /\ run.queue = op[o].queue /\ run.validated = NoOne
          BY <1>1 DEF Run, Phases
        <4>2. /\ op' = [op EXCEPT ![o] = run] /\ op[o].pc \in {"settling", "deleting"} /\ Release(o)
              /\ UNCHANGED <<now, email, store, schema, runtime, plans, claimed, backups, receipts>>
          BY <3>2 DEF LoseConnection, artifacts, outside
        <4> HIDE DEF run
        <4> QED BY <4>1, <4>2
      <3>3. CASE save_report(o)
        <4> DEFINE run == [op[o] EXCEPT !.pc = "done", !.queue = {}]
        <4>1. /\ run \in Run /\ run.pc = "done" /\ run.plan = op[o].plan
              /\ run.backup = op[o].backup /\ run.deleted = op[o].deleted
              /\ run.queue = {} /\ run.validated = op[o].validated
          BY <1>1 DEF Run, Phases
        <4>2. /\ op' = [op EXCEPT ![o] = run] /\ op[o].pc = "reporting" /\ exclusive' = exclusive
              /\ UNCHANGED <<now, email, store, schema, runtime, plans, claimed, backups, receipts>>
          BY <3>3 DEF save_report, artifacts, outside
        <4> HIDE DEF run
        <4>3. Release(o)
          BY <1>1, <4>2 DEF Release
        <4> QED BY <1>4, <4>1, <4>2, <4>3
      <3>4. CASE Crash(o)
        <4> DEFINE run == [op[o] EXCEPT !.pc = "done", !.validated = NoOne, !.queue = {}]
        <4>1. /\ run \in Run /\ run.pc = "done" /\ run.plan = op[o].plan
              /\ run.backup = op[o].backup /\ run.deleted = op[o].deleted
              /\ run.queue = {} /\ run.validated = NoOne
          BY <1>1 DEF Run, Phases
        <4>2. /\ op' = [op EXCEPT ![o] = run] /\ op[o].pc \notin {"idle", "done"} /\ Release(o)
              /\ UNCHANGED <<now, email, store, schema, runtime, plans, claimed, backups, receipts>>
          BY <3>4 DEF Crash, artifacts, outside
        <4> HIDE DEF run
        <4> QED BY <4>1, <4>2
      <3> QED BY <1>7, <3>1, <3>2, <3>3, <3>4
    <2>2. /\ store' \in [Threads -> [kind : Kinds, version : 0..MaxVersion]]
          /\ \A t \in Threads : store'[t].version = store[t].version
      BY <1>1, <2>1
    <2>3. op[o].pc = "authorized" => run.pc = "done" /\ run.deleted = op[o].deleted
      BY <2>1
    <2> QED BY <2>1, <2>2, <2>3, EndKeeps
  <1> QED BY <1>5, <1>6, <1>7

-----------------------------------------------------------------------------
(* The theorems.                                                           *)

LEMMA InvStep ==
    ASSUME CleanupAssumption, CleanupInv, [Next]_vars
    PROVE  CleanupInv'
PROOF
  <1>1. CASE Execute
    BY <1>1, BeginningSteps, LockSteps, DeletingSteps DEF Execute
  <1>2. CASE UNCHANGED vars
    <2>1. UNCHANGED <<now, email, store, schema, runtime, exclusive, plans, claimed,
                      backups, receipts, op>>
      BY <1>2 DEF vars
    <2>2. TypeOK' /\ LockExcludes' /\ StoppedInTime' /\ BackupsInOrder'
      BY <2>1 DEF CleanupInv, TypeOK, LockExcludes, StoppedInTime, SharedHeld,
                  BackupsInOrder, Saved
    <2>3. Authorized' /\ ClaimedOnce' /\ ExecutedOnce'
      BY <2>1 DEF CleanupInv, Authorized, Saved, TerminalBefore, _inventory_digest,
                  ClaimedOnce, ExecutedOnce, Claims
    <2> QED BY <2>2, <2>3 DEF CleanupInv
  <1> QED BY <1>1, <1>2, TimeSteps, MigrateKeeps, ServiceKeeps, PrepareKeeps DEF Next

\* A plan is executed by one run, a run works under the lock that the service
\* does not hold, with a service that is gone when the first row is deleted,
\* on candidates that are as planned, authorised by a backup not older than the
\* plan's clock (claim_plan, execution_session, _revalidate_on_connection).
THEOREM PlansRunOnce == Spec => []CleanupInv
PROOF
  <1>1. Init => CleanupInv
    BY CleanupAssumption, InvInit
  <1>2. CleanupInv /\ [Next]_vars => CleanupInv'
    BY CleanupAssumption, InvStep
  <1> QED BY <1>1, <1>2, PTL DEF Spec

\* Rows change under a write of the service, on a connection that holds the
\* shared lock, or under the deletion of a run that has the exclusive one.
LEMMA RowsChange ==
    ASSUME CleanupAssumption, CleanupInv, [Next]_vars, NEW t \in Threads, store'[t] # store[t]
    PROVE  \/ exclusive = NoOne /\ store'[t].kind # "none"
           \/ /\ Erased(t)
              /\ \E o \in Operators : op[o].pc = "deleting" /\ op[o].validated = t
PROOF
  <1>1. store # store' /\ store \in [Threads -> [kind : Kinds, version : 0..MaxVersion]]
    BY DEF CleanupInv, TypeOK
  <1>2. \/ \E kind \in Kinds \ {"none"} : EndWrite(kind)
        \/ \E o \in Operators : DeleteThread(o)
    BY <1>1 DEF Next, Tick, Migrate, Service, StartService, StopService, LoseFence, LosePool,
                configure_checkpoint_pool_connection, BeginWrite, UpdateEmail, Prepare,
                BeginPlan, save_plan, SignReceipt, TakeBackup, Execute, Authorize, claim_plan,
                Refused, execution_session, Settled, Revalidate, CloseSession, LoseConnection,
                save_report, Crash, vars
  <1>3. ASSUME NEW kind \in Kinds \ {"none"}, EndWrite(kind)
        PROVE  exclusive = NoOne /\ store'[t].kind # "none"
    <2>1. /\ runtime.alive /\ runtime.pool /\ runtime.writing # NoOne
          /\ store' = [store EXCEPT ![runtime.writing] =
                          [kind |-> kind, version |-> @.version + 1]]
      BY <1>3 DEF EndWrite
    <2>2. exclusive = NoOne
      BY <2>1 DEF SharedHeld, CleanupInv, LockExcludes
    <2>3. store'[t] = [kind |-> kind, version |-> store[t].version + 1]
      BY <1>1, <2>1
    <2> QED BY <1>3, <2>2, <2>3
  <1>4. ASSUME NEW o \in Operators, DeleteThread(o)
        PROVE  Erased(t) /\ op[o].pc = "deleting" /\ op[o].validated = t
    <2> DEFINE v == op[o].validated
    <2>1. op[o].pc = "deleting" /\ store' = [store EXCEPT ![v].kind = "none"]
      BY <1>1, <1>4 DEF DeleteThread
    <2>2. v = t
      BY <1>1, <2>1
    <2>3. store'[t] = [store[t] EXCEPT !.kind = "none"]
      BY <1>1, <2>1, <2>2
    <2>4. store[t].kind # "none"
      <3>1. SUFFICES ASSUME store[t].kind = "none"
                     PROVE  store'[t] = store[t]
        OBVIOUS
      <3> QED BY <1>1, <2>3, <3>1
    <2>5. store'[t].kind = "none"
      BY <1>1, <2>3
    <2> QED BY <2>1, <2>2, <2>4, <2>5 DEF Erased
  <1> QED BY <1>2, <1>3, <1>4

\* No checkpoint write of the service lands while an operator holds the
\* exclusive lock, also not one whose fence proof came before
\* (FencedAsyncPostgresSaver._cursor).
THEOREM LockKeepsRows == Spec => NoWriteUnderExclusive
PROOF
  <1>1. CleanupInv /\ [Next]_vars =>
          [exclusive # NoOne => \A t \in Threads : store'[t] # store[t] => Erased(t)]_vars
    BY CleanupAssumption, RowsChange
  <1> QED BY <1>1, PlansRunOnce, PTL DEF Spec, NoWriteUnderExclusive

\* What the deleting run knows of the thread it deletes.
LEMMA ErasedIsEligible ==
    ASSUME CleanupAssumption, CleanupInv, NEW o \in Operators, NEW t \in Threads,
           op[o].pc = "deleting", op[o].validated = t
    PROVE  /\ email[t].terminal /\ email[t].updated < plans[op[o].plan].cutoff
           /\ \/ op[o].backup.content[t] = store[t].version
              \/ /\ plans[op[o].plan].created <= op[o].backup.at
                 /\ op[o].backup.at < plans[op[o].plan].scanned
PROOF
  <1> DEFINE p == op[o].plan
             b == op[o].backup
  <1>1. /\ p \in Plans /\ Saved(p) /\ b \in backups /\ b.at >= plans[p].created
        /\ t \in DOMAIN plans[p].candidates
        /\ TerminalBefore(t, plans[p].cutoff)
        /\ _inventory_digest(t) = plans[p].candidates[t]
    BY ConstantFacts DEF CleanupInv, Authorized
  <1>2. email[t].terminal /\ email[t].updated < plans[p].cutoff
    BY <1>1 DEF TerminalBefore
  <1>3. plans[p].candidates[t].version = store[t].version
    BY <1>1 DEF _inventory_digest
  <1>4. /\ b.at \in 0..MaxClock /\ b.content[t] \in 0..MaxVersion
        /\ store[t].version \in 0..MaxVersion
        /\ plans[p].scanned \in 0..MaxClock /\ plans[p].created \in 0..MaxClock
    BY <1>1, SavedPlan DEF CleanupInv, TypeOK, Backup
  <1>5. /\ b.content[t] <= store[t].version
        /\ b.at >= plans[p].scanned => plans[p].candidates[t].version <= b.content[t]
    BY <1>1 DEF CleanupInv, BackupsInOrder
  <1> HIDE DEF p, b
  <1>6. \/ b.content[t] = store[t].version
        \/ plans[p].created <= b.at /\ b.at < plans[p].scanned
    BY <1>1, <1>3, <1>4, <1>5, ConstantFacts
  <1> QED BY <1>2, <1>6 DEF p, b

\* Whatever is deleted is in the backup as it stood, or the backup was taken
\* while the plan was being made, and it belongs to an e-mail that is finished
\* and past the plan's cutoff at that moment (delete_candidate).
THEOREM DeletionsAreSafe == Spec => ErasesOnlyEligible
PROOF
  <1>1. ASSUME CleanupInv, [Next]_vars, NEW t \in Threads, Erased(t)
        PROVE  \E o \in Operators : op[o].pc = "deleting" /\ op[o].validated = t
    <2>1. store'[t] # store[t] /\ store'[t].kind = "none"
      BY <1>1 DEF Erased
    <2> QED BY <1>1, <2>1, CleanupAssumption, RowsChange
  <1>2. CleanupInv /\ [Next]_vars =>
          [\A t \in Threads : Erased(t) =>
             \E o \in Operators :
                /\ op[o].validated = t
                /\ \/ op[o].backup.content[t] = store[t].version
                   \/ /\ plans[op[o].plan].created <= op[o].backup.at
                      /\ op[o].backup.at < plans[op[o].plan].scanned]_vars
    BY <1>1, CleanupAssumption, ErasedIsEligible
  <1>3. CleanupInv /\ [Next]_vars =>
          [\A t \in Threads : Erased(t) =>
             \E o \in Operators : /\ op[o].validated = t
                                  /\ email[t].terminal
                                  /\ email[t].updated < plans[op[o].plan].cutoff]_vars
    BY <1>1, CleanupAssumption, ErasedIsEligible
  <1> QED BY <1>2, <1>3, PlansRunOnce, PTL
          DEF Spec, ErasesOnlyEligible, ErasesOnlyBackedUp, ErasesOnlyFinished
=============================================================================
