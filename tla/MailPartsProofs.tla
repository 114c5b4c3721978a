--------------------------- MODULE MailPartsProofs ----------------------------
(***************************************************************************)
(* Proofs about the parts that MCMailParts puts side by side: the content  *)
(* store, the files of a mail in Feishu Drive, the daily digest, and the   *)
(* routing of a mail, each for every value of its constants.  The parts    *)
(* share no variable, so each is proved as a specification of its own, and *)
(* the theorems at the end carry the results over to MCSpec.               *)
(***************************************************************************)
EXTENDS MCMailParts, Sequences, TLAPS, FiniteSetTheorems, WellFoundedInduction

-----------------------------------------------------------------------------
(* The content store.                                                       *)

\* RefResolves follows from what an attempt has secured.
LEMMA SecuredResolves ==
    ASSUME Secured
    PROVE  RefResolves
PROOF
  BY DEF Secured, RefResolves, Resolves

\* Steps of an attempt that leave the files alone.
LEMMA StepKeeps ==
    ASSUME StoreInv, NEW m \in Mails,
           \/ LogInitialEmail(m) \/ AuthorizePut(m) \/ Claim(m) \/ ClaimRaises(m)
           \/ LoadEmail(m) \/ Cancel(m)
    PROVE  StoreInv' /\ account' = account
PROOF
  <1>1. account' = account
    BY DEF LogInitialEmail, AuthorizePut, Claim, ClaimRaises, LoadEmail, Cancel, files
  <1>2. TypeOK'
    BY DEF StoreInv, TypeOK, LogInitialEmail, AuthorizePut, Claim,
           ClaimRaises, LoadEmail, Cancel, Goto, files, Steps, Writing
  <1>3. Secured'
    BY DEF StoreInv, TypeOK, Secured, LogInitialEmail, AuthorizePut, Claim,
           ClaimRaises, LoadEmail, Cancel, Goto, files, Writing
  <1>4. RefResolves'
    BY <1>3 DEF Secured, RefResolves, Resolves
  <1> QED BY <1>1, <1>2, <1>3, <1>4 DEF StoreInv

\* Steps of the thread of put_email.
LEMMA PutKeeps ==
    ASSUME StoreInv, NEW m \in Mails,
           \/ OpenAccountDirectory(m) \/ SyncRoot(m) \/ WriteTemp(m) \/ SyncTemp(m)
           \/ Replace(m) \/ SyncAccount(m) \/ PutRaises(m)
    PROVE  StoreInv' /\ (account = "durable" => account' = "durable")
PROOF
  <1>1. account = "durable" => account' = "durable"
    BY DEF OpenAccountDirectory, SyncRoot, WriteTemp, SyncTemp, Replace, SyncAccount, PutRaises
  <1>2. TypeOK'
    BY DEF StoreInv, TypeOK, Secured, OpenAccountDirectory, SyncRoot,
           WriteTemp, SyncTemp, Replace, SyncAccount, PutRaises, Goto, Steps, Writing
  <1>3. Secured'
    BY DEF StoreInv, TypeOK, Secured, OpenAccountDirectory, SyncRoot,
           WriteTemp, SyncTemp, Replace, SyncAccount, PutRaises, Goto, Writing
  <1>4. RefResolves'
    BY <1>3 DEF Secured, RefResolves, Resolves
  <1> QED BY <1>1, <1>2, <1>3, <1>4 DEF StoreInv

\* The service ends, for some attempts in the middle of a write.
LEMMA CrashKeeps ==
    ASSUME StoreInv, NEW killed \in SUBSET Mails, Crash(killed)
    PROVE  StoreInv' /\ account' = account
PROOF
  <1>1. account' = account
    BY DEF Crash, files
  <1>2. TypeOK'
    BY DEF StoreInv, TypeOK, Crash, Ended, files, Steps, Writing
  <1>3. Secured'
    BY DEF StoreInv, TypeOK, Secured, Crash, Ended, files, Writing
  <1>4. RefResolves'
    BY <1>3 DEF Secured, RefResolves, Resolves
  <1> QED BY <1>1, <1>2, <1>3, <1>4 DEF StoreInv

\* The operating system writes back what it likes.
LEMMA WriteBackKeeps ==
    ASSUME StoreInv, WriteBack
    PROVE  StoreInv' /\ (account = "durable" => account' = "durable")
PROOF
  <1>1. account = "durable" => account' = "durable"
    BY DEF WriteBack
  <1>2. TypeOK'
    BY DEF StoreInv, TypeOK, WriteBack
  <1>3. Secured'
    BY DEF StoreInv, TypeOK, Secured, WriteBack
  <1>4. RefResolves'
    BY <1>3 DEF Secured, RefResolves, Resolves
  <1> QED BY <1>1, <1>2, <1>3, <1>4 DEF StoreInv

\* Every attempt that is at work ends with the machine, and what was secured
\* is on the disk, once the account's directory is.
LEMMA PowerLossKeeps ==
    ASSUME StoreAssumption, StoreInv, account = "durable",
           NEW kept, NEW whole, NEW directory, PowerLoss(kept, whole, directory)
    PROVE  StoreInv' /\ account' = "durable"
PROOF
  <1>1. account' = "durable"
    BY DEF PowerLoss
  <1>2. /\ name' = [m \in Mails |->
              IF name[m] = "cached" THEN (IF m \in kept THEN "durable" ELSE "temp") ELSE name[m]]
        /\ data' = [m \in Mails |->
              IF data[m] = "cached" THEN (IF m \in whole THEN "durable" ELSE "torn") ELSE data[m]]
        /\ pc' = Ended(Mails) /\ losses' = losses + 1 /\ losses < MaxPowerLoss
        /\ UNCHANGED <<wanted, ref>>
    BY <1>1 DEF PowerLoss
  <1>3. TypeOK'
    BY <1>1, <1>2 DEF StoreAssumption, StoreInv, TypeOK, Ended, Steps, Writing
  <1>4. Secured'
    BY <1>1, <1>2 DEF StoreInv, TypeOK, Secured, Ended, Writing
  <1>5. RefResolves'
    BY <1>4 DEF Secured, RefResolves, Resolves
  <1> QED BY <1>1, <1>3, <1>4, <1>5 DEF StoreInv

\* The start, and a step of the store: only a power loss needs the directory.
LEMMA StoreStarts ==
    ASSUME StoreAssumption, Init
    PROVE  StoreInv
PROOF
  <1>1. TypeOK
    BY DEF Init, TypeOK, Steps, Writing, StoreAssumption
  <1>2. Secured
    BY DEF Init, Secured, Writing
  <1> QED BY <1>1, <1>2, SecuredResolves DEF StoreInv

LEMMA StoreSteps ==
    ASSUME StoreAssumption, StoreInv, Next, account = "durable" \/ losses' = losses
    PROVE  StoreInv' /\ (account = "durable" => account' = "durable")
PROOF
  <1>1. ASSUME NEW m \in Mails, Attempt(m)
        PROVE  StoreInv' /\ (account = "durable" => account' = "durable")
    BY <1>1, StepKeeps, PutKeeps DEF Attempt
  <1>2. ASSUME NEW killed \in SUBSET Mails, Crash(killed)
        PROVE  StoreInv' /\ (account = "durable" => account' = "durable")
    BY <1>2, CrashKeeps
  <1>3. CASE WriteBack
    BY <1>3, WriteBackKeeps
  <1>4. ASSUME NEW kept \in SUBSET Mails, NEW whole \in SUBSET Mails,
               NEW directory \in BOOLEAN, PowerLoss(kept, whole, directory)
        PROVE  StoreInv' /\ (account = "durable" => account' = "durable")
    <2>1. losses \in Nat /\ losses' = losses + 1
      BY <1>4 DEF PowerLoss, StoreInv, TypeOK, StoreAssumption
    <2>2. account = "durable"
      BY <2>1
    <2> QED BY <1>4, <2>2, PowerLossKeeps
  <1> QED BY <1>1, <1>2, <1>3, <1>4 DEF Next

LEMMA StoreStutters ==
    ASSUME StoreInv, UNCHANGED vars
    PROVE  StoreInv' /\ account' = account
PROOF
  BY DEF vars, files, StoreInv, TypeOK, Secured, RefResolves, Resolves

\* The known limit of the code: the machine must not lose its power while the
\* account's directory itself is not on the disk.
DirectorySafe == account = "durable" \/ MaxPowerLoss = 0

\* _ensure_durable_content_ref, "Persist content and its typed DB ref before
\* any downstream operation": for any number of mails, overlapping attempts,
\* crashes and power losses a reference in the database is to an object that
\* load_email can read, provided the account's directory was on the disk before
\* or the power stays on.
THEOREM ReferencesResolve ==
    ASSUME StoreAssumption
    PROVE  Init /\ DirectorySafe /\ [][Next]_vars => []StoreInv
PROOF
  <1>1. Init => StoreInv
    BY StoreStarts
  <1>2. StoreInv /\ DirectorySafe /\ [Next]_vars => StoreInv' /\ DirectorySafe'
    <2> SUFFICES ASSUME StoreInv, DirectorySafe, [Next]_vars
                 PROVE  StoreInv' /\ DirectorySafe'
      OBVIOUS
    <2>1. CASE UNCHANGED vars
      BY <2>1, StoreStutters DEF DirectorySafe
    <2>2. CASE Next
      <3>1. account = "durable" \/ losses' = losses
        <4>1. CASE MaxPowerLoss = 0
          <5>1. losses \in 0..MaxPowerLoss
            BY DEF StoreInv, TypeOK
          <5>2. ~\E kept, whole, directory : PowerLoss(kept, whole, directory)
            BY <4>1, <5>1 DEF PowerLoss
          <5> QED
            BY <2>2, <5>2
            DEF Next, Attempt, LogInitialEmail, AuthorizePut, OpenAccountDirectory, SyncRoot,
                WriteTemp, SyncTemp, Replace, SyncAccount, Claim, ClaimRaises, LoadEmail,
                PutRaises, Cancel, Crash, WriteBack
        <4> QED BY <4>1 DEF DirectorySafe
      <3> QED BY <2>2, <3>1, StoreSteps DEF DirectorySafe
    <2> QED BY <2>1, <2>2
  <1> QED BY <1>1, <1>2, PTL

-----------------------------------------------------------------------------
(* The files of a mail in Feishu Drive: names, and how a task moves.        *)

\* The worker, the clicks and the free lock are told apart, and no file has the
\* token of "no file".
LEMMA DriveNames ==
    ASSUME Drive!DriveAssumption
    PROVE  /\ Drive!Worker \in Drive!Tasks /\ Drive!Worker \notin Replies \cup Cleanups
           /\ \A r \in Replies : r \in Drive!Tasks /\ r # Drive!Free /\ r \notin Cleanups
           /\ \A c \in Cleanups : c \in Drive!Tasks /\ c # Drive!Free /\ c \notin Replies
           /\ Drive!Worker # Drive!Free
           /\ Drive!NoFile \notin Drive!Files
PROOF
  BY DEF Drive!DriveAssumption, Drive!Worker, Drive!Tasks, Drive!Free, Drive!NoFile, Drive!Files

\* The uploads are counted within the bound of the model.
LEMMA UploadsCount ==
    ASSUME Drive!DriveAssumption, Drive!DriveInductive
    PROVE  Drive!TypeOK /\ uploads \in 0..MaxFiles /\ MaxFiles \in Nat
PROOF
  <1>1. Drive!TypeOK
    BY DEF Drive!DriveInductive, Drive!DriveInv
  <1> QED BY <1>1 DEF Drive!TypeOK, Drive!DriveAssumption

\* The mail's card keeps its kind and its read flag when it gets an outcome.
LEMMA CardOutcomes ==
    ASSUME Drive!DriveInductive
    PROVE  /\ card \in [kind : Drive!Kinds, outcome : Drive!Outcomes, read : BOOLEAN]
           /\ \A o \in Drive!Outcomes :
                 /\ [card EXCEPT !.outcome = o] \in [kind : Drive!Kinds,
                                                    outcome : Drive!Outcomes, read : BOOLEAN]
                 /\ [card EXCEPT !.outcome = o].kind = card.kind
                 /\ [card EXCEPT !.outcome = o].read = card.read
PROOF
  <1>1. Drive!TypeOK
    BY DEF Drive!DriveInductive, Drive!DriveInv
  <1> QED BY <1>1 DEF Drive!TypeOK

\* The instance counts as the library does.
LEMMA SameCount == \A S : Drive!Cardinality(S) = Cardinality(S)
PROOF
  BY DEF Drive!Cardinality, Cardinality

\* Part of a book that fits still fits.
LEMMA FewerFiles ==
    ASSUME Drive!DriveAssumption, NEW S \in SUBSET Drive!Files,
           Drive!Cardinality(S) <= MaxTokens,
           NEW T \in SUBSET S
    PROVE  T \subseteq Drive!Files /\ Drive!Cardinality(T) <= MaxTokens
PROOF
  <1>1. IsFiniteSet(Drive!Files)
    BY FS_Interval DEF Drive!Files, Drive!DriveAssumption
  <1>2. IsFiniteSet(S) /\ IsFiniteSet(T)
    BY <1>1, FS_Subset
  <1>3. Drive!Cardinality(S) \in Nat /\ Drive!Cardinality(T) \in Nat
        /\ Drive!Cardinality(T) <= Drive!Cardinality(S)
    BY <1>2, FS_Subset, FS_CardinalityType, SameCount
  <1> QED BY <1>3 DEF Drive!DriveAssumption

\* Goes changes the one task, Ends leaves it with nothing in its hands.
LEMMA Moves ==
    ASSUME Drive!TypeOK, NEW t \in Drive!Tasks, NEW to \in Drive!TaskStates, Drive!Goes(t, to)
    PROVE  /\ task' \in [Drive!Tasks -> Drive!TaskStates]
           /\ task'[t] = to
           /\ \A u \in Drive!Tasks \ {t} : task'[u] = task[u]
PROOF
  BY DEF Drive!TypeOK, Drive!Goes

LEMMA EndsMoves ==
    ASSUME Drive!TypeOK, NEW t \in Drive!Tasks, Drive!Ends(t)
    PROVE  /\ task' \in [Drive!Tasks -> Drive!TaskStates]
           /\ \A u \in Drive!Tasks \ {t} : task'[u] = task[u]
           /\ task'[t].pc = "done" /\ task'[t].new = Drive!NoFile /\ task'[t].kept = {}
           /\ task'[t].todo = {} /\ task'[t].gone = {}
PROOF
  <1> DEFINE over == [Drive!IdleTask EXCEPT !.pc = "done"]
  <1>1. over \in Drive!TaskStates
    BY DEF Drive!IdleTask, Drive!TaskStates, Drive!Pcs
  <1>2. Drive!Goes(t, over)
    BY DEF Drive!Ends, Drive!Goes
  <1>3. /\ task' \in [Drive!Tasks -> Drive!TaskStates] /\ task'[t] = over
        /\ \A u \in Drive!Tasks \ {t} : task'[u] = task[u]
    BY <1>1, <1>2, Moves
  <1>4. /\ over.pc = "done" /\ over.new = Drive!NoFile /\ over.kept = {}
        /\ over.todo = {} /\ over.gone = {}
    BY DEF Drive!IdleTask
  <1> QED BY <1>3, <1>4

\* Until its card is sent the worker is alone: nobody has anything to click on.
LEMMA WorkerLeavesOthers ==
    ASSUME Drive!DriveAssumption, Drive!DriveInductive,
           Drive!worker.pc \notin {"finish", "done"},
           \A u \in Drive!Tasks \ {Drive!Worker} : task'[u] = task[u],
           drive' \subseteq drive \cup {Drive!NextFile}
    PROVE  /\ \A r \in Replies : Drive!ReplyFiles(r)'
           /\ \A c \in Cleanups : Drive!CleanupFiles(c)'
           /\ \A t \in Replies \cup Cleanups : Drive!At(t, "idle")'
           /\ Drive!ClicksTakeTurns'
           /\ \A r \in Replies : Drive!HeldBy(r) = {} /\ Drive!HeldBy(r)' = {}
           /\ \A c \in Cleanups : Drive!HeldBy(c) = {} /\ Drive!HeldBy(c)' = {}
           /\ shown = Drive!NoFile
           /\ drive \subseteq {pdf} \cup handles \cup abandoned \cup Drive!HeldBy(Drive!Worker)
           /\ drive' \subseteq {pdf'} \cup handles' \cup abandoned' \cup Drive!HeldBy(Drive!Worker)'
                => Drive!NothingForgotten'
PROOF
  <1>0. uploads \in Nat
    BY DEF Drive!DriveInductive, Drive!DriveInv, Drive!TypeOK, Drive!Files,
         Drive!DriveAssumption
  <1>1. \A t \in Replies \cup Cleanups : Drive!At(t, "idle") /\ task'[t] = task[t]
    BY DriveNames DEF Drive!DriveInductive, Drive!DeliveryFirst
  <1>2. \A r \in Replies : Drive!ReplyFiles(r)'
    BY <1>1 DEF Drive!DriveInductive, Drive!ReplyFiles, Drive!At
  <1>3. \A c \in Cleanups : Drive!CleanupFiles(c)'
    BY <1>0, <1>1, DriveNames DEF Drive!DriveInductive, Drive!CleanupFiles, Drive!OldNews,
         Drive!NextFile
  <1>4. Drive!ClicksTakeTurns'
    BY <1>1 DEF Drive!ClicksTakeTurns, Drive!At
  <1>5. /\ \A r \in Replies : Drive!HeldBy(r) = {} /\ Drive!HeldBy(r)' = {}
        /\ \A c \in Cleanups : Drive!HeldBy(c) = {} /\ Drive!HeldBy(c)' = {}
    BY <1>1 DEF Drive!HeldBy, Drive!At
  <1>6. shown = Drive!NoFile
    BY DEF Drive!DriveInductive, Drive!DeliveryFirst
  <1>7. drive \subseteq {pdf} \cup handles \cup abandoned \cup Drive!HeldBy(Drive!Worker)
    BY <1>5 DEF Drive!DriveInductive, Drive!DriveInv, Drive!NothingForgotten, Drive!Tasks
  <1>8. Drive!HeldBy(Drive!Worker)' \subseteq UNION {Drive!HeldBy(t) : t \in Drive!Tasks}'
    BY DriveNames
  <1>9. drive' \subseteq {pdf'} \cup handles' \cup abandoned' \cup Drive!HeldBy(Drive!Worker)'
           => Drive!NothingForgotten'
    BY <1>8 DEF Drive!NothingForgotten
  <1> QED BY <1>1, <1>2, <1>3, <1>4, <1>5, <1>6, <1>7, <1>9 DEF Drive!At

\* An attempt that raises ends, and frees the lock if it held it.
LEMMA RaisesMoves ==
    ASSUME Drive!DriveAssumption, Drive!TypeOK, Drive!Raises
    PROVE  /\ task' \in [Drive!Tasks -> Drive!TaskStates]
           /\ \A u \in Drive!Tasks \ {Drive!Worker} : task'[u] = task[u]
           /\ Drive!worker.pc' = "done" /\ Drive!worker.new' = Drive!NoFile
           /\ Drive!worker.kept' = {}
           /\ Drive!worker.todo' = {} /\ Drive!worker.gone' = {}
           /\ card' \in [kind : Drive!Kinds, outcome : Drive!Outcomes, read : BOOLEAN]
           /\ card'.kind = card.kind /\ card'.read = card.read
           /\ lock' \in {lock, Drive!Free}
PROOF
  <1>1. Drive!Ends(Drive!Worker)
    BY DEF Drive!Raises
  <1>2. /\ task' \in [Drive!Tasks -> Drive!TaskStates]
        /\ \A u \in Drive!Tasks \ {Drive!Worker} : task'[u] = task[u]
        /\ Drive!worker.pc' = "done" /\ Drive!worker.new' = Drive!NoFile
        /\ Drive!worker.kept' = {}
        /\ Drive!worker.todo' = {} /\ Drive!worker.gone' = {}
    BY <1>1, EndsMoves, DriveNames DEF Drive!worker
  <1>5. /\ card' \in [kind : Drive!Kinds, outcome : Drive!Outcomes, read : BOOLEAN]
        /\ card'.kind = card.kind /\ card'.read = card.read
    BY DEF Drive!Raises, Drive!TypeOK, Drive!Outcomes
  <1>6. lock' \in {lock, Drive!Free}
    BY DEF Drive!Raises
  <1> QED BY <1>2, <1>5, <1>6

\* Where _delete_or_retain_token returns to, for each of its callers.
LEMMA AfterDropMoves ==
    ASSUME Drive!DriveAssumption, Drive!TypeOK, NEW f, Drive!AfterDrop(f),
           Drive!worker.ctx \in {"attach", "stage", "failure"}
    PROVE  /\ task' \in [Drive!Tasks -> Drive!TaskStates]
           /\ \A u \in Drive!Tasks \ {Drive!Worker} : task'[u] = task[u]
           /\ \/ /\ Drive!worker.ctx = "attach" /\ Drive!worker.pc' = "generate"
                 /\ Drive!worker.todo' = {}
                 /\ UNCHANGED <<Drive!worker.kept, Drive!worker.gone, Drive!worker.new,
                                Drive!worker.ctx>>
              \/ /\ Drive!worker.ctx = "stage" /\ Drive!worker.pc' = "record"
                 /\ Drive!worker.todo' = {}
                 /\ UNCHANGED <<Drive!worker.kept, Drive!worker.gone, Drive!worker.new,
                                Drive!worker.ctx>>
              \/ /\ Drive!worker.ctx = "failure" /\ Drive!worker.pc' = "drop"
                 /\ Drive!worker.todo' = Drive!worker.todo \ {f}
                 /\ UNCHANGED <<Drive!worker.kept, Drive!worker.gone, Drive!worker.new,
                                Drive!worker.ctx>>
              \/ /\ Drive!worker.pc' = "done" /\ Drive!worker.new' = Drive!NoFile
                 /\ Drive!worker.kept' = {}
                 /\ Drive!worker.todo' = {} /\ Drive!worker.gone' = {}
                 /\ Drive!worker.ctx = "failure" /\ Drive!worker.todo \ {f} = {}
           /\ lock' \in {lock, Drive!Free}
PROOF
  <1>0. Drive!worker \in Drive!TaskStates
    BY DriveNames DEF Drive!TypeOK, Drive!worker
  <1>1. lock' \in {lock, Drive!Free}
    BY DEF Drive!AfterDrop
  <1>2. CASE Drive!worker.ctx = "attach"
    <2> DEFINE to == [Drive!worker EXCEPT !.pc = "generate", !.todo = {}]
    <2>1. to \in Drive!TaskStates
      BY <1>0 DEF Drive!TaskStates, Drive!Pcs
    <2>2. Drive!Goes(Drive!Worker, to)
      BY <1>2 DEF Drive!AfterDrop
    <2>3. /\ task' \in [Drive!Tasks -> Drive!TaskStates] /\ task'[Drive!Worker] = to
          /\ \A u \in Drive!Tasks \ {Drive!Worker} : task'[u] = task[u]
      BY <2>1, <2>2, Moves, DriveNames
    <2>4. /\ to.pc = "generate" /\ to.todo = {} /\ to.kept = Drive!worker.kept
          /\ to.gone = Drive!worker.gone /\ to.new = Drive!worker.new
          /\ to.ctx = Drive!worker.ctx
      BY <1>0 DEF Drive!TaskStates
    <2> QED BY <1>1, <1>2, <2>3, <2>4 DEF Drive!worker
  <1>3. CASE Drive!worker.ctx = "stage"
    <2> DEFINE to == [Drive!worker EXCEPT !.pc = "record", !.todo = {}]
    <2>1. to \in Drive!TaskStates
      BY <1>0 DEF Drive!TaskStates, Drive!Pcs
    <2>2. Drive!Goes(Drive!Worker, to)
      BY <1>3 DEF Drive!AfterDrop
    <2>3. /\ task' \in [Drive!Tasks -> Drive!TaskStates] /\ task'[Drive!Worker] = to
          /\ \A u \in Drive!Tasks \ {Drive!Worker} : task'[u] = task[u]
      BY <2>1, <2>2, Moves, DriveNames
    <2>4. /\ to.pc = "record" /\ to.todo = {} /\ to.kept = Drive!worker.kept
          /\ to.gone = Drive!worker.gone /\ to.new = Drive!worker.new
          /\ to.ctx = Drive!worker.ctx
      BY <1>0 DEF Drive!TaskStates
    <2> QED BY <1>1, <1>3, <2>3, <2>4 DEF Drive!worker
  <1>4. CASE Drive!worker.ctx = "failure" /\ Drive!worker.todo \ {f} # {}
    <2> DEFINE to == [Drive!worker EXCEPT !.pc = "drop", !.todo = Drive!worker.todo \ {f}]
    <2>1. to \in Drive!TaskStates
      BY <1>0 DEF Drive!TaskStates, Drive!Pcs
    <2>2. Drive!Goes(Drive!Worker, to)
      BY <1>4 DEF Drive!AfterDrop
    <2>3. /\ task' \in [Drive!Tasks -> Drive!TaskStates] /\ task'[Drive!Worker] = to
          /\ \A u \in Drive!Tasks \ {Drive!Worker} : task'[u] = task[u]
      BY <2>1, <2>2, Moves, DriveNames
    <2>4. /\ to.pc = "drop" /\ to.todo = Drive!worker.todo \ {f} /\ to.kept = Drive!worker.kept
          /\ to.gone = Drive!worker.gone /\ to.new = Drive!worker.new
          /\ to.ctx = Drive!worker.ctx
      BY <1>0 DEF Drive!TaskStates
    <2> QED BY <1>1, <1>4, <2>3, <2>4 DEF Drive!worker
  <1>5. CASE Drive!worker.ctx = "failure" /\ Drive!worker.todo \ {f} = {}
    <2>1. Drive!Ends(Drive!Worker)
      BY <1>5 DEF Drive!AfterDrop
    <2> QED BY <1>1, <1>5, <2>1, EndsMoves, DriveNames DEF Drive!worker
  <1> QED BY <1>2, <1>3, <1>4, <1>5

\* A click that holds the resource lock is the only task at work on the book:
\* what the other tasks rely on is not touched by its steps.
LEMMA HolderLeavesOthers ==
    ASSUME Drive!DriveAssumption, Drive!DriveInductive, NEW t \in Replies \cup Cleanups,
           task[t].pc \notin {"idle", "done"}, lock \in {t, Drive!Free},
           \/ lock' = t
           \/ lock' = Drive!Free /\ task'[t].pc = "done",
           \A u \in Drive!Tasks \ {t} : task'[u] = task[u],
           drive' \subseteq drive \cup {Drive!NextFile}, card' = card,
           shown' \in {shown} \cup Drive!Files
    PROVE  /\ \A r \in Replies \ {t} : Drive!ReplyFiles(r)'
           /\ \A c \in Cleanups \ {t} : Drive!CleanupFiles(c)'
           /\ Drive!ClicksTakeTurns' /\ Drive!DeliveryFirst' /\ Drive!WorkerFiles'
           /\ Drive!ReadAfterDelivery'
           /\ drive \subseteq {pdf} \cup handles \cup abandoned \cup Drive!HeldBy(t)
           /\ drive' \subseteq {pdf'} \cup handles' \cup abandoned' \cup Drive!HeldBy(t)'
                => Drive!NothingForgotten'
PROOF
  <1>0. uploads \in Nat
    BY DEF Drive!DriveInductive, Drive!DriveInv, Drive!TypeOK, Drive!Files,
         Drive!DriveAssumption
  <1>1. t \in Drive!Tasks /\ t # Drive!Worker /\ t # Drive!Free
        /\ task'[Drive!Worker] = task[Drive!Worker]
    BY DriveNames
  <1>2. Drive!worker.pc \in {"finish", "done"} /\ Drive!worker.pc' = Drive!worker.pc
    BY <1>1 DEF Drive!DriveInductive, Drive!DeliveryFirst, Drive!At, Drive!worker
  <1>3. /\ \A r \in Replies \ {t} : task[r].pc \in {"idle", "queued", "done"}
               /\ task'[r] = task[r]
        /\ \A c \in Cleanups \ {t} : task[c].pc # "sweep" /\ task'[c] = task[c]
    BY DriveNames DEF Drive!DriveInductive, Drive!ClicksTakeTurns, Drive!At
  <1>4. ASSUME NEW r \in Replies \ {t}
        PROVE  Drive!ReplyFiles(r)'
    BY <1>3 DEF Drive!DriveInductive, Drive!ReplyFiles
  <1>5. ASSUME NEW c \in Cleanups \ {t}
        PROVE  Drive!CleanupFiles(c)'
    BY <1>0, <1>3, DriveNames DEF Drive!DriveInductive, Drive!CleanupFiles, Drive!OldNews,
         Drive!NextFile
  <1>6. Drive!ClicksTakeTurns'
    BY <1>3 DEF Drive!ClicksTakeTurns, Drive!At
  <1>7. shown # Drive!NoFile => shown' # Drive!NoFile
    BY DriveNames
  <1>8. Drive!DeliveryFirst'
    BY <1>1, <1>2, <1>7 DEF Drive!DriveInductive, Drive!DeliveryFirst, Drive!worker
  <1>9. Drive!WorkerFiles'
    BY <1>2 DEF Drive!WorkerFiles
  <1>10. Drive!ReadAfterDelivery'
    BY <1>7 DEF Drive!DriveInductive, Drive!DriveInv, Drive!ReadAfterDelivery
  <1>11. \A u \in Drive!Tasks \ {t} : Drive!HeldBy(u) = {}
    <2>1. Drive!HeldBy(Drive!Worker) = {}
      BY <1>2, DriveNames DEF Drive!HeldBy, Drive!At, Drive!worker
    <2>2. \A r \in Replies \ {t} : Drive!HeldBy(r) = {}
      BY <1>3 DEF Drive!HeldBy, Drive!At
    <2>3. \A c \in Cleanups \ {t} : Drive!HeldBy(c) = {}
      BY DriveNames DEF Drive!DriveInductive, Drive!OnCourse, Drive!HeldBy, Drive!At
    <2> QED BY <2>1, <2>2, <2>3 DEF Drive!Tasks
  <1>12. drive \subseteq {pdf} \cup handles \cup abandoned \cup Drive!HeldBy(t)
    BY <1>11 DEF Drive!DriveInductive, Drive!DriveInv, Drive!NothingForgotten
  <1>13. drive' \subseteq {pdf'} \cup handles' \cup abandoned' \cup Drive!HeldBy(t)'
           => Drive!NothingForgotten'
    BY <1>1 DEF Drive!NothingForgotten
  <1> QED BY <1>4, <1>5, <1>6, <1>8, <1>9, <1>10, <1>12, <1>13

-----------------------------------------------------------------------------
(* The worker: each step of _run_ai_path and of the delivery.               *)

\* _mark_email_read, after the card was accepted or deliberately absent.
LEMMA FinishMailKeeps ==
    ASSUME Drive!DriveAssumption, Drive!DriveInductive, Drive!FinishMail
    PROVE  Drive!DriveInductive'
PROOF
  <1>0. Drive!TypeOK /\ Drive!worker.pc = "finish" /\ Drive!Worker \in Drive!Tasks
    BY DriveNames DEF Drive!DriveInductive, Drive!DriveInv, Drive!FinishMail, Drive!At,
         Drive!worker
  <1>1. /\ task' \in [Drive!Tasks -> Drive!TaskStates]
        /\ \A u \in Drive!Tasks \ {Drive!Worker} : task'[u] = task[u]
        /\ Drive!worker.pc' = "done" /\ Drive!worker.new' = Drive!NoFile
        /\ Drive!worker.kept' = {}
        /\ Drive!worker.todo' = {} /\ Drive!worker.gone' = {}
        /\ card' \in [kind : Drive!Kinds, outcome : Drive!Outcomes, read : BOOLEAN]
        /\ card'.kind = card.kind
        /\ lock' \in {lock, Drive!Free} /\ (lock # Drive!Worker => lock' = lock)
        /\ UNCHANGED <<drive, uploads, pdf, handles, shown, cleaned, abandoned>>
    <2>1. /\ [card EXCEPT !.outcome = "processed"] \in [kind : Drive!Kinds,
                                                        outcome : Drive!Outcomes,
                                                        read : BOOLEAN]
          /\ [card EXCEPT !.outcome = "processed"].kind = card.kind
          /\ [card EXCEPT !.read = TRUE, !.outcome = "processed"]
                \in [kind : Drive!Kinds, outcome : Drive!Outcomes, read : BOOLEAN]
          /\ [card EXCEPT !.read = TRUE, !.outcome = "processed"].kind = card.kind
      BY <1>0 DEF Drive!TypeOK, Drive!Outcomes
    <2>2. UNCHANGED <<drive, uploads, pdf, handles, shown, cleaned, abandoned>>
      BY DEF Drive!FinishMail, Drive!store, Drive!book, Drive!history
    <2>3. CASE Drive!Raises
      <3>1. lock # Drive!Worker => lock' = lock
        BY <2>3 DEF Drive!Raises
      <3> QED BY <1>0, <2>2, <2>3, <3>1, RaisesMoves
    <2>4. CASE ~Drive!Raises
      <3>1. Drive!Ends(Drive!Worker) /\ lock' = lock
            /\ card' \in {[card EXCEPT !.outcome = "processed"],
                          [card EXCEPT !.read = TRUE, !.outcome = "processed"]}
        BY <2>4 DEF Drive!FinishMail
      <3>2. /\ task' \in [Drive!Tasks -> Drive!TaskStates]
            /\ \A u \in Drive!Tasks \ {Drive!Worker} : task'[u] = task[u]
            /\ Drive!worker.pc' = "done" /\ Drive!worker.new' = Drive!NoFile
            /\ Drive!worker.kept' = {}
            /\ Drive!worker.todo' = {} /\ Drive!worker.gone' = {}
        BY <1>0, <3>1, EndsMoves DEF Drive!worker
      <3> QED BY <2>1, <2>2, <3>1, <3>2
    <2> QED BY <2>3, <2>4
  <1>2. Drive!TypeOK'
    BY <1>0, <1>1 DEF Drive!TypeOK
  <1>3. Drive!NothingForgotten'
    <2>1. Drive!HeldBy(Drive!Worker) = {}
      BY <1>0, DriveNames DEF Drive!HeldBy, Drive!At, Drive!worker
    <2>2. \A u \in Drive!Tasks \ {Drive!Worker} : Drive!HeldBy(u)' = Drive!HeldBy(u)
      BY <1>1 DEF Drive!HeldBy, Drive!At
    <2> QED BY <1>1, <2>1, <2>2 DEF Drive!DriveInductive, Drive!DriveInv, Drive!NothingForgotten
  <1>4. Drive!ShownPdfKept'
    BY <1>1 DEF Drive!DriveInductive, Drive!DriveInv, Drive!ShownPdfKept
  <1>5. Drive!ReadAfterDelivery'
    BY <1>0, <1>1 DEF Drive!DriveInductive, Drive!ReadAfterDelivery, Drive!DeliveryFirst
  <1>6. Drive!OnCourse'
    BY <1>1, DriveNames DEF Drive!DriveInductive, Drive!OnCourse, Drive!worker
  <1>7. Drive!OldNews'
    BY <1>1, DriveNames DEF Drive!DriveInductive, Drive!OldNews, Drive!worker
  <1>8. Drive!DeliveryFirst' /\ Drive!WorkerFiles'
    BY <1>1 DEF Drive!DeliveryFirst, Drive!WorkerFiles
  <1>9. Drive!ClicksTakeTurns'
    BY <1>1, DriveNames DEF Drive!DriveInductive, Drive!ClicksTakeTurns, Drive!At
  <1>10. \A r \in Replies : Drive!ReplyFiles(r)'
    BY <1>1, DriveNames DEF Drive!DriveInductive, Drive!ReplyFiles
  <1>11. \A c \in Cleanups : Drive!CleanupFiles(c)'
    BY <1>1, DriveNames DEF Drive!DriveInductive, Drive!CleanupFiles
  <1> QED
    BY <1>2, <1>3, <1>4, <1>5, <1>6, <1>7, <1>8, <1>9, <1>10, <1>11
       DEF Drive!DriveInductive, Drive!DriveInv

\* A mail is taken up.
LEMMA StartMailKeeps ==
    ASSUME Drive!DriveAssumption, Drive!DriveInductive, Drive!StartMail
    PROVE  Drive!DriveInductive'
PROOF
  <1> USE DEF Drive!worker
  <1>0. Drive!TypeOK /\ uploads \in 0..MaxFiles /\ MaxFiles \in Nat /\ uploads' \in 0..MaxFiles
    <2>1. uploads' = uploads \/ (uploads' = uploads + 1 /\ uploads < MaxFiles)
      BY DEF Drive!StartMail, Drive!history, Drive!store, Drive!book, Drive!NextFile
    <2> QED BY <2>1, UploadsCount
  <1>1. Drive!worker.pc = "idle" /\ Drive!worker \in Drive!TaskStates
    BY DriveNames DEF Drive!DriveInductive, Drive!DriveInv, Drive!TypeOK, Drive!StartMail,
         Drive!At
  <1>3. /\ task' \in [Drive!Tasks -> Drive!TaskStates]
        /\ \A u \in Drive!Tasks \ {Drive!Worker} : task'[u] = task[u]
        /\ card' \in [kind : Drive!Kinds, outcome : Drive!Outcomes, read : BOOLEAN]
        /\ card'.kind = card.kind /\ card'.read = card.read
        /\ Drive!worker.pc' = "snapshot"
        /\ UNCHANGED <<Drive!worker.kept, Drive!worker.todo, Drive!worker.gone,
                       Drive!worker.ctx, Drive!worker.new, Drive!worker.pdf,
                       Drive!worker.handles>>
        /\ UNCHANGED <<drive, uploads, pdf, handles, lock, shown, cleaned, abandoned>>
    <2>1. ASSUME Drive!Goes(Drive!Worker, [Drive!worker EXCEPT !.pc = "snapshot"])
          PROVE  /\ task' \in [Drive!Tasks -> Drive!TaskStates]
                 /\ \A u \in Drive!Tasks \ {Drive!Worker} : task'[u] = task[u]
                 /\ Drive!worker'.pc = "snapshot" /\ Drive!worker'.new = Drive!worker.new
                 /\ Drive!worker'.todo = Drive!worker.todo
                 /\ Drive!worker'.kept = Drive!worker.kept
                 /\ Drive!worker'.gone = Drive!worker.gone
                 /\ Drive!worker'.ctx = Drive!worker.ctx
                 /\ Drive!worker'.pdf = Drive!worker.pdf
                 /\ Drive!worker'.handles = Drive!worker.handles
      <3> DEFINE to == [Drive!worker EXCEPT !.pc = "snapshot"]
      <3>1. to \in Drive!TaskStates
        BY <1>0, <1>1, <2>1 DEF Drive!TypeOK, Drive!TaskStates, Drive!Pcs
      <3>2. /\ task' \in [Drive!Tasks -> Drive!TaskStates] /\ task'[Drive!Worker] = to
            /\ \A u \in Drive!Tasks \ {Drive!Worker} : task'[u] = task[u]
        BY <1>0, <2>1, <3>1, Moves, DriveNames
      <3>3. /\ to.pc = "snapshot" /\ to.new = Drive!worker.new /\ to.todo = Drive!worker.todo
            /\ to.kept = Drive!worker.kept /\ to.gone = Drive!worker.gone
            /\ to.ctx = Drive!worker.ctx
            /\ to.pdf = Drive!worker.pdf /\ to.handles = Drive!worker.handles
        BY <1>1 DEF Drive!TaskStates
      <3> QED BY <3>2, <3>3
    <2> QED BY <1>0, <1>1, CardOutcomes, <2>1 DEF Drive!StartMail, Drive!history, Drive!store,
         Drive!book, Drive!Outcomes
  <1>4. /\ \A r \in Replies : Drive!ReplyFiles(r)'
        /\ \A c \in Cleanups : Drive!CleanupFiles(c)'
        /\ \A t \in Replies \cup Cleanups : Drive!At(t, "idle")'
        /\ Drive!ClicksTakeTurns'
        /\ shown = Drive!NoFile
        /\ drive \subseteq {pdf} \cup handles \cup abandoned \cup Drive!HeldBy(Drive!Worker)
        /\ drive' \subseteq {pdf'} \cup handles' \cup abandoned' \cup Drive!HeldBy(Drive!Worker)'
             => Drive!NothingForgotten'
    <2>1. drive' \subseteq drive \cup {Drive!NextFile}
      BY <1>3
    <2> QED BY <1>1, <1>3, <2>1, WorkerLeavesOthers
  <1>5. Drive!TypeOK'
    <2>0. uploads' = Drive!NextFile => Drive!NextFile \in Drive!Files
      BY <1>0 DEF Drive!NextFile, Drive!Files
    <2>1. /\ drive' \subseteq Drive!Files /\ cleaned' \subseteq Drive!Files
          /\ abandoned' \subseteq Drive!Files
          /\ pdf' \in Drive!Files \cup {Drive!NoFile}
          /\ shown' \in Drive!Files \cup {Drive!NoFile}
      BY <1>0, <1>1, <1>3, <2>0 DEF Drive!TypeOK
    <2>2. handles' \subseteq Drive!Files /\ Drive!Cardinality(handles') <= MaxTokens
      BY <1>0, <1>3 DEF Drive!TypeOK
    <2>3. lock' \in Drive!Tasks \cup {Drive!Free}
      BY <1>0, <1>3, DriveNames DEF Drive!TypeOK
    <2> QED BY <1>0, <1>3, <2>1, <2>2, <2>3 DEF Drive!TypeOK
  <1>6. Drive!NothingForgotten'
    BY <1>1, <1>3, <1>4 DEF Drive!HeldBy, Drive!At, Drive!AtMostOne
  <1>7. Drive!ShownPdfKept'
    BY <1>1, <1>3, <1>4 DEF Drive!DriveInductive, Drive!DriveInv, Drive!ShownPdfKept
  <1>8. Drive!ReadAfterDelivery'
    BY <1>1, <1>3, <1>4 DEF Drive!DriveInductive, Drive!DriveInv, Drive!ReadAfterDelivery,
         Drive!DeliveryFirst
  <1>9. Drive!OnCourse'
    BY <1>3, DriveNames DEF Drive!DriveInductive, Drive!OnCourse
  <1>10. Drive!OldNews'
    BY <1>0, <1>3, DriveNames DEF Drive!DriveInductive, Drive!OldNews, Drive!NextFile
  <1>11. Drive!DeliveryFirst'
    BY <1>0, <1>1, <1>3, <1>4 DEF Drive!DriveInductive, Drive!DeliveryFirst
  <1>12. Drive!WorkerFiles'
    BY <1>0, <1>1, <1>3, DriveNames
    DEF Drive!DriveInductive, Drive!WorkerFiles, Drive!AtMostOne, Drive!OldNews, Drive!NextFile
  <1> QED
    BY <1>4, <1>5, <1>6, <1>7, <1>8, <1>9, <1>10, <1>11, <1>12
       DEF Drive!DriveInductive, Drive!DriveInv

\* _snapshot_cleanup_handles.
LEMMA SnapshotHandlesKeeps ==
    ASSUME Drive!DriveAssumption, Drive!DriveInductive, Drive!SnapshotHandles
    PROVE  Drive!DriveInductive'
PROOF
  <1> USE DEF Drive!worker
  <1>0. Drive!TypeOK /\ uploads \in 0..MaxFiles /\ MaxFiles \in Nat /\ uploads' \in 0..MaxFiles
    <2>1. uploads' = uploads \/ (uploads' = uploads + 1 /\ uploads < MaxFiles)
      BY DEF Drive!SnapshotHandles, Drive!history, Drive!store, Drive!book, Drive!NextFile
    <2> QED BY <2>1, UploadsCount
  <1>1. Drive!worker.pc = "snapshot" /\ Drive!worker \in Drive!TaskStates
    BY DriveNames DEF Drive!DriveInductive, Drive!DriveInv, Drive!TypeOK,
         Drive!SnapshotHandles, Drive!At
  <1>3. /\ task' \in [Drive!Tasks -> Drive!TaskStates]
        /\ \A u \in Drive!Tasks \ {Drive!Worker} : task'[u] = task[u]
        /\ card' \in [kind : Drive!Kinds, outcome : Drive!Outcomes, read : BOOLEAN]
        /\ card'.kind = card.kind /\ card'.read = card.read
        /\ \/ /\ Drive!worker.pc' = "checkpoint" /\ Drive!worker.pdf' = pdf
              /\ Drive!worker.handles' = handles
              /\ UNCHANGED <<Drive!worker.kept, Drive!worker.todo, Drive!worker.gone,
                             Drive!worker.new>>
           \/ Drive!worker.pc' = "done" /\ Drive!worker.new' = Drive!NoFile
              /\ Drive!worker.kept' = {} /\ Drive!worker.todo' = {} /\ Drive!worker.gone' = {}
        /\ lock' \in {lock, Drive!Free}
        /\ UNCHANGED <<drive, uploads, pdf, handles, shown, cleaned, abandoned>>
    <2>1. ASSUME Drive!Goes(Drive!Worker, [Drive!worker EXCEPT !.pc = "checkpoint", !.pdf = pdf,
                                           !.handles = handles])
          PROVE  /\ task' \in [Drive!Tasks -> Drive!TaskStates]
                 /\ \A u \in Drive!Tasks \ {Drive!Worker} : task'[u] = task[u]
                 /\ Drive!worker'.pc = "checkpoint" /\ Drive!worker'.pdf = pdf
                 /\ Drive!worker'.handles = handles
                 /\ Drive!worker'.new = Drive!worker.new
                 /\ Drive!worker'.todo = Drive!worker.todo
                 /\ Drive!worker'.kept = Drive!worker.kept
                 /\ Drive!worker'.gone = Drive!worker.gone
                 /\ Drive!worker'.ctx = Drive!worker.ctx
      <3> DEFINE to == [Drive!worker EXCEPT !.pc = "checkpoint", !.pdf = pdf,
                        !.handles = handles]
      <3>1. to \in Drive!TaskStates
        BY <1>0, <1>1, <2>1 DEF Drive!TypeOK, Drive!TaskStates, Drive!Pcs
      <3>2. /\ task' \in [Drive!Tasks -> Drive!TaskStates] /\ task'[Drive!Worker] = to
            /\ \A u \in Drive!Tasks \ {Drive!Worker} : task'[u] = task[u]
        BY <1>0, <2>1, <3>1, Moves, DriveNames
      <3>3. /\ to.pc = "checkpoint" /\ to.pdf = pdf /\ to.handles = handles
            /\ to.new = Drive!worker.new /\ to.todo = Drive!worker.todo
            /\ to.kept = Drive!worker.kept
            /\ to.gone = Drive!worker.gone /\ to.ctx = Drive!worker.ctx
        BY <1>1 DEF Drive!TaskStates
      <3> QED BY <3>2, <3>3
    <2>r. Drive!Raises => /\ task' \in [Drive!Tasks -> Drive!TaskStates]
                          /\ \A u \in Drive!Tasks \ {Drive!Worker} : task'[u] = task[u]
                          /\ Drive!worker.pc' = "done" /\ Drive!worker.new' = Drive!NoFile
                          /\ Drive!worker.kept' = {}
                          /\ Drive!worker.todo' = {} /\ Drive!worker.gone' = {}
                          /\ card' \in [kind : Drive!Kinds, outcome : Drive!Outcomes,
                                        read : BOOLEAN]
                          /\ card'.kind = card.kind /\ card'.read = card.read
                          /\ lock' \in {lock, Drive!Free}
      BY <1>0, RaisesMoves
    <2> QED BY <1>0, <1>1, CardOutcomes, <2>1, <2>r
       DEF Drive!SnapshotHandles, Drive!history, Drive!store, Drive!book, Drive!Outcomes
  <1>4. /\ \A r \in Replies : Drive!ReplyFiles(r)'
        /\ \A c \in Cleanups : Drive!CleanupFiles(c)'
        /\ \A t \in Replies \cup Cleanups : Drive!At(t, "idle")'
        /\ Drive!ClicksTakeTurns'
        /\ shown = Drive!NoFile
        /\ drive \subseteq {pdf} \cup handles \cup abandoned \cup Drive!HeldBy(Drive!Worker)
        /\ drive' \subseteq {pdf'} \cup handles' \cup abandoned' \cup Drive!HeldBy(Drive!Worker)'
             => Drive!NothingForgotten'
    <2>1. drive' \subseteq drive \cup {Drive!NextFile}
      BY <1>3
    <2> QED BY <1>1, <1>3, <2>1, WorkerLeavesOthers
  <1>5. Drive!TypeOK'
    <2>0. uploads' = Drive!NextFile => Drive!NextFile \in Drive!Files
      BY <1>0 DEF Drive!NextFile, Drive!Files
    <2>1. /\ drive' \subseteq Drive!Files /\ cleaned' \subseteq Drive!Files
          /\ abandoned' \subseteq Drive!Files
          /\ pdf' \in Drive!Files \cup {Drive!NoFile}
          /\ shown' \in Drive!Files \cup {Drive!NoFile}
      BY <1>0, <1>1, <1>3, <2>0 DEF Drive!TypeOK
    <2>2. handles' \subseteq Drive!Files /\ Drive!Cardinality(handles') <= MaxTokens
      BY <1>0, <1>3 DEF Drive!TypeOK
    <2>3. lock' \in Drive!Tasks \cup {Drive!Free}
      BY <1>0, <1>3, DriveNames DEF Drive!TypeOK
    <2> QED BY <1>0, <1>3, <2>1, <2>2, <2>3 DEF Drive!TypeOK
  <1>6. Drive!NothingForgotten'
    BY <1>1, <1>3, <1>4 DEF Drive!HeldBy, Drive!At, Drive!AtMostOne
  <1>7. Drive!ShownPdfKept'
    BY <1>1, <1>3, <1>4 DEF Drive!DriveInductive, Drive!DriveInv, Drive!ShownPdfKept
  <1>8. Drive!ReadAfterDelivery'
    BY <1>1, <1>3, <1>4 DEF Drive!DriveInductive, Drive!DriveInv, Drive!ReadAfterDelivery,
         Drive!DeliveryFirst
  <1>9. Drive!OnCourse'
    BY <1>3, DriveNames DEF Drive!DriveInductive, Drive!OnCourse
  <1>10. Drive!OldNews'
    BY <1>0, <1>3, DriveNames DEF Drive!DriveInductive, Drive!OldNews, Drive!NextFile
  <1>11. Drive!DeliveryFirst'
    BY <1>0, <1>1, <1>3, <1>4 DEF Drive!DriveInductive, Drive!DeliveryFirst
  <1>12. Drive!WorkerFiles'
    BY <1>0, <1>1, <1>3, DriveNames
    DEF Drive!DriveInductive, Drive!WorkerFiles, Drive!AtMostOne, Drive!OldNews, Drive!NextFile
  <1> QED
    BY <1>4, <1>5, <1>6, <1>7, <1>8, <1>9, <1>10, <1>11, <1>12
       DEF Drive!DriveInductive, Drive!DriveInv

\* _checkpoint_ai_path_resources, the write confirmed, lost or raised.
LEMMA CheckpointResourcesKeeps ==
    ASSUME Drive!DriveAssumption, Drive!DriveInductive, Drive!CheckpointResources
    PROVE  Drive!DriveInductive'
PROOF
  <1> USE DEF Drive!worker
  <1>0. Drive!TypeOK /\ uploads \in 0..MaxFiles /\ MaxFiles \in Nat /\ uploads' \in 0..MaxFiles
    <2>1. uploads' = uploads \/ (uploads' = uploads + 1 /\ uploads < MaxFiles)
      BY DEF Drive!CheckpointResources, Drive!history, Drive!store, Drive!book, Drive!Writes,
           Drive!NextFile
    <2> QED BY <2>1, UploadsCount
  <1>1. Drive!worker.pc = "checkpoint" /\ Drive!worker \in Drive!TaskStates
    BY DriveNames DEF Drive!DriveInductive, Drive!DriveInv, Drive!TypeOK,
         Drive!CheckpointResources, Drive!At
  <1>q. handles = {} /\ pdf = Drive!NoFile /\ Drive!worker.handles = {}
        /\ Drive!worker.pdf = Drive!NoFile /\ drive = {}
        /\ (IF pdf # Drive!NoFile THEN pdf ELSE Drive!worker.pdf) \in Drive!Files \cup {Drive!NoFile}
        /\ handles \cup Drive!worker.handles \in SUBSET Drive!Files
    BY <1>0, <1>1, DriveNames DEF Drive!DriveInductive, Drive!DeliveryFirst
  <1>3. /\ task' \in [Drive!Tasks -> Drive!TaskStates]
        /\ \A u \in Drive!Tasks \ {Drive!Worker} : task'[u] = task[u]
        /\ card' \in [kind : Drive!Kinds, outcome : Drive!Outcomes, read : BOOLEAN]
        /\ card'.kind = card.kind /\ card'.read = card.read
        /\ \/ /\ Drive!worker.pc' = "pipeline" /\ Drive!worker.pdf' = Drive!NoFile
              /\ Drive!worker.handles' = {}
              /\ UNCHANGED <<Drive!worker.kept, Drive!worker.todo, Drive!worker.gone,
                             Drive!worker.new>>
           \/ Drive!worker.pc' = "done" /\ Drive!worker.new' = Drive!NoFile
              /\ Drive!worker.kept' = {} /\ Drive!worker.todo' = {} /\ Drive!worker.gone' = {}
        /\ handles' = {} /\ pdf' = Drive!NoFile /\ drive = {}
        /\ lock' \in {lock, Drive!Free}
        /\ UNCHANGED <<drive, uploads, shown, cleaned, abandoned>>
    <2>1. ASSUME Drive!Goes(Drive!Worker,
                   [Drive!worker EXCEPT !.pc = "pipeline",
                                        !.pdf = IF pdf # Drive!NoFile THEN pdf
                                                ELSE Drive!worker.pdf,
                                        !.handles = handles \cup Drive!worker.handles])
          PROVE  /\ task' \in [Drive!Tasks -> Drive!TaskStates]
                 /\ \A u \in Drive!Tasks \ {Drive!Worker} : task'[u] = task[u]
                 /\ Drive!worker'.pc = "pipeline"
                 /\ Drive!worker'.pdf = (IF pdf # Drive!NoFile THEN pdf ELSE Drive!worker.pdf)
                        /\ Drive!worker'.handles = handles \cup Drive!worker.handles
                 /\ Drive!worker'.new = Drive!worker.new
                 /\ Drive!worker'.todo = Drive!worker.todo
                 /\ Drive!worker'.kept = Drive!worker.kept
                 /\ Drive!worker'.gone = Drive!worker.gone
                 /\ Drive!worker'.ctx = Drive!worker.ctx
      <3> DEFINE to == [Drive!worker EXCEPT !.pc = "pipeline",
                        !.pdf = IF pdf # Drive!NoFile THEN pdf ELSE Drive!worker.pdf,
                        !.handles = handles \cup Drive!worker.handles]
      <3>1. to \in Drive!TaskStates
        <4>1. ASSUME NEW p \in Drive!Files \cup {Drive!NoFile}, NEW h \in SUBSET Drive!Files
              PROVE  [Drive!worker EXCEPT !.pc = "pipeline", !.pdf = p,
                      !.handles = h] \in Drive!TaskStates
          BY <1>1 DEF Drive!TaskStates, Drive!Pcs
        <4> QED BY <1>q, <4>1
      <3>2. /\ task' \in [Drive!Tasks -> Drive!TaskStates] /\ task'[Drive!Worker] = to
            /\ \A u \in Drive!Tasks \ {Drive!Worker} : task'[u] = task[u]
        BY <1>0, <2>1, <3>1, Moves, DriveNames
      <3>3. /\ to.pc = "pipeline"
            /\ to.pdf = (IF pdf # Drive!NoFile THEN pdf ELSE Drive!worker.pdf)
            /\ to.handles = handles \cup Drive!worker.handles
            /\ to.new = Drive!worker.new /\ to.todo = Drive!worker.todo
            /\ to.kept = Drive!worker.kept
            /\ to.gone = Drive!worker.gone /\ to.ctx = Drive!worker.ctx
        BY <1>1 DEF Drive!TaskStates
      <3> QED BY <3>2, <3>3
    <2>r. Drive!Raises => /\ task' \in [Drive!Tasks -> Drive!TaskStates]
                          /\ \A u \in Drive!Tasks \ {Drive!Worker} : task'[u] = task[u]
                          /\ Drive!worker.pc' = "done" /\ Drive!worker.new' = Drive!NoFile
                          /\ Drive!worker.kept' = {}
                          /\ Drive!worker.todo' = {} /\ Drive!worker.gone' = {}
                          /\ card' \in [kind : Drive!Kinds, outcome : Drive!Outcomes,
                                        read : BOOLEAN]
                          /\ card'.kind = card.kind /\ card'.read = card.read
                          /\ lock' \in {lock, Drive!Free}
      BY <1>0, RaisesMoves
    <2> QED BY <1>0, <1>1, <1>q, CardOutcomes, <2>1, <2>r
       DEF Drive!CheckpointResources, Drive!history, Drive!store, Drive!book, Drive!Writes,
            Drive!Outcomes
  <1>4. /\ \A r \in Replies : Drive!ReplyFiles(r)'
        /\ \A c \in Cleanups : Drive!CleanupFiles(c)'
        /\ \A t \in Replies \cup Cleanups : Drive!At(t, "idle")'
        /\ Drive!ClicksTakeTurns'
        /\ shown = Drive!NoFile
        /\ drive \subseteq {pdf} \cup handles \cup abandoned \cup Drive!HeldBy(Drive!Worker)
        /\ drive' \subseteq {pdf'} \cup handles' \cup abandoned' \cup Drive!HeldBy(Drive!Worker)'
             => Drive!NothingForgotten'
    <2>1. drive' \subseteq drive \cup {Drive!NextFile}
      BY <1>3
    <2> QED BY <1>1, <1>3, <2>1, WorkerLeavesOthers
  <1>5. Drive!TypeOK'
    <2>0. uploads' = Drive!NextFile => Drive!NextFile \in Drive!Files
      BY <1>0 DEF Drive!NextFile, Drive!Files
    <2>1. /\ drive' \subseteq Drive!Files /\ cleaned' \subseteq Drive!Files
          /\ abandoned' \subseteq Drive!Files
          /\ pdf' \in Drive!Files \cup {Drive!NoFile}
          /\ shown' \in Drive!Files \cup {Drive!NoFile}
      BY <1>0, <1>1, <1>q, <1>3, <2>0 DEF Drive!TypeOK
    <2>2. handles' \subseteq Drive!Files /\ Drive!Cardinality(handles') <= MaxTokens
      BY <1>0, <1>q, <1>3 DEF Drive!TypeOK
    <2>3. lock' \in Drive!Tasks \cup {Drive!Free}
      BY <1>0, <1>3, DriveNames DEF Drive!TypeOK
    <2> QED BY <1>0, <1>3, <2>1, <2>2, <2>3 DEF Drive!TypeOK
  <1>6. Drive!NothingForgotten'
    BY <1>1, <1>q, <1>3, <1>4 DEF Drive!HeldBy, Drive!At, Drive!AtMostOne
  <1>7. Drive!ShownPdfKept'
    BY <1>1, <1>q, <1>3, <1>4 DEF Drive!DriveInductive, Drive!DriveInv, Drive!ShownPdfKept
  <1>8. Drive!ReadAfterDelivery'
    BY <1>1, <1>q, <1>3, <1>4 DEF Drive!DriveInductive, Drive!DriveInv,
         Drive!ReadAfterDelivery, Drive!DeliveryFirst
  <1>9. Drive!OnCourse'
    BY <1>3, DriveNames DEF Drive!DriveInductive, Drive!OnCourse
  <1>10. Drive!OldNews'
    BY <1>0, <1>q, <1>3, DriveNames DEF Drive!DriveInductive, Drive!OldNews, Drive!NextFile
  <1>11. Drive!DeliveryFirst'
    BY <1>0, <1>1, <1>q, <1>3, <1>4 DEF Drive!DriveInductive, Drive!DeliveryFirst
  <1>12. Drive!WorkerFiles'
    BY <1>0, <1>1, <1>q, <1>3, DriveNames
    DEF Drive!DriveInductive, Drive!WorkerFiles, Drive!AtMostOne, Drive!OldNews, Drive!NextFile
  <1> QED
    BY <1>4, <1>5, <1>6, <1>7, <1>8, <1>9, <1>10, <1>11, <1>12
       DEF Drive!DriveInductive, Drive!DriveInv

\* The graph starts again on the handles that were preserved.
LEMMA RunPipelineKeeps ==
    ASSUME Drive!DriveAssumption, Drive!DriveInductive, Drive!RunPipeline
    PROVE  Drive!DriveInductive'
PROOF
  <1> USE DEF Drive!worker
  <1>0. Drive!TypeOK /\ uploads \in 0..MaxFiles /\ MaxFiles \in Nat /\ uploads' \in 0..MaxFiles
    <2>1. uploads' = uploads \/ (uploads' = uploads + 1 /\ uploads < MaxFiles)
      BY DEF Drive!RunPipeline, Drive!history, Drive!store, Drive!book, Drive!Writes,
           Drive!NextFile
    <2> QED BY <2>1, UploadsCount
  <1>1. Drive!worker.pc = "pipeline" /\ Drive!worker \in Drive!TaskStates
    BY DriveNames DEF Drive!DriveInductive, Drive!DriveInv, Drive!TypeOK, Drive!RunPipeline,
         Drive!At
  <1>q. handles = {} /\ pdf = Drive!NoFile /\ Drive!worker.handles = {}
        /\ Drive!worker.pdf = Drive!NoFile /\ drive = {}
        /\ (IF pdf # Drive!NoFile THEN pdf ELSE Drive!worker.pdf) \in Drive!Files \cup {Drive!NoFile}
        /\ handles \cup Drive!worker.handles \in SUBSET Drive!Files
    BY <1>0, <1>1, DriveNames DEF Drive!DriveInductive, Drive!DeliveryFirst
  <1>3. /\ task' \in [Drive!Tasks -> Drive!TaskStates]
        /\ \A u \in Drive!Tasks \ {Drive!Worker} : task'[u] = task[u]
        /\ card' \in [kind : Drive!Kinds, outcome : Drive!Outcomes, read : BOOLEAN]
        /\ card'.read = card.read
        /\ \/ /\ Drive!worker.pc' \in {"finish", "generate", "attach"}
              /\ Drive!worker.pc' = "finish" => card'.kind = "no_action"
              /\ UNCHANGED <<Drive!worker.kept, Drive!worker.todo, Drive!worker.gone,
                             Drive!worker.new>>
           \/ Drive!worker.pc' = "done" /\ Drive!worker.new' = Drive!NoFile
              /\ Drive!worker.kept' = {} /\ Drive!worker.todo' = {} /\ Drive!worker.gone' = {}
        /\ handles' = {} /\ pdf' = Drive!NoFile /\ drive = {}
        /\ lock' \in {lock, Drive!Free}
        /\ UNCHANGED <<drive, uploads, shown, cleaned, abandoned>>
    <2>1. ASSUME NEW p \in {"finish", "generate", "attach"},
                 Drive!Goes(Drive!Worker, [Drive!worker EXCEPT !.pc = p, !.handles = {},
                                           !.pdf = Drive!NoFile])
          PROVE  /\ task' \in [Drive!Tasks -> Drive!TaskStates]
                 /\ \A u \in Drive!Tasks \ {Drive!Worker} : task'[u] = task[u]
                 /\ Drive!worker'.pc = p /\ Drive!worker'.handles = {}
                 /\ Drive!worker'.pdf = Drive!NoFile
                 /\ Drive!worker'.new = Drive!worker.new
                 /\ Drive!worker'.todo = Drive!worker.todo
                 /\ Drive!worker'.kept = Drive!worker.kept
                 /\ Drive!worker'.gone = Drive!worker.gone
                 /\ Drive!worker'.ctx = Drive!worker.ctx
      <3> DEFINE to == [Drive!worker EXCEPT !.pc = p, !.handles = {}, !.pdf = Drive!NoFile]
      <3>1. to \in Drive!TaskStates
        BY <1>1, <2>1 DEF Drive!TaskStates, Drive!Pcs
      <3>2. /\ task' \in [Drive!Tasks -> Drive!TaskStates] /\ task'[Drive!Worker] = to
            /\ \A u \in Drive!Tasks \ {Drive!Worker} : task'[u] = task[u]
        BY <1>0, <2>1, <3>1, Moves, DriveNames
      <3>3. /\ to.pc = p /\ to.handles = {} /\ to.pdf = Drive!NoFile
            /\ to.new = Drive!worker.new /\ to.todo = Drive!worker.todo
            /\ to.kept = Drive!worker.kept
            /\ to.gone = Drive!worker.gone /\ to.ctx = Drive!worker.ctx
        BY <1>1 DEF Drive!TaskStates
      <3> QED BY <3>2, <3>3
    <2>r. Drive!Raises => /\ task' \in [Drive!Tasks -> Drive!TaskStates]
                          /\ \A u \in Drive!Tasks \ {Drive!Worker} : task'[u] = task[u]
                          /\ Drive!worker.pc' = "done" /\ Drive!worker.new' = Drive!NoFile
                          /\ Drive!worker.kept' = {}
                          /\ Drive!worker.todo' = {} /\ Drive!worker.gone' = {}
                          /\ card' \in [kind : Drive!Kinds, outcome : Drive!Outcomes,
                                        read : BOOLEAN]
                          /\ card'.kind = card.kind /\ card'.read = card.read
                          /\ lock' \in {lock, Drive!Free}
      BY <1>0, RaisesMoves
    <2>a. ASSUME NEW k \in Drive!Kinds \ {"none"}, card' = [card EXCEPT !.kind = k],
                 lock' = lock,
                 Drive!Goes(Drive!Worker,
                            [Drive!worker EXCEPT !.pc = CASE k = "no_action" -> "finish"
                                              [] k = "manual_review" -> "generate"
                                              [] OTHER -> "attach",
                                 !.handles = {}, !.pdf = Drive!NoFile])
          PROVE  /\ task' \in [Drive!Tasks -> Drive!TaskStates]
                 /\ \A u \in Drive!Tasks \ {Drive!Worker} : task'[u] = task[u]
                 /\ card' \in [kind : Drive!Kinds, outcome : Drive!Outcomes, read : BOOLEAN]
                 /\ card'.read = card.read
                 /\ Drive!worker.pc' \in {"finish", "generate", "attach"}
                 /\ Drive!worker.pc' = "finish" => card'.kind = "no_action"
                 /\ UNCHANGED <<Drive!worker.kept, Drive!worker.todo, Drive!worker.gone,
                                Drive!worker.new>>
      <3> DEFINE p == CASE k = "no_action" -> "finish"
                        [] k = "manual_review" -> "generate"
                        [] OTHER -> "attach"
      <3>1. p \in {"finish", "generate", "attach"} /\ (p = "finish" => k = "no_action")
        OBVIOUS
      <3>2. Drive!Goes(Drive!Worker, [Drive!worker EXCEPT !.pc = p, !.handles = {},
                                      !.pdf = Drive!NoFile])
        BY <2>a
      <3>3. card' \in [kind : Drive!Kinds, outcome : Drive!Outcomes, read : BOOLEAN]
            /\ card'.read = card.read /\ card'.kind = k
        BY <1>0, <2>a DEF Drive!TypeOK
      <3> HIDE DEF p
      <3> QED BY <2>1, <3>1, <3>2, <3>3
    <2>b. /\ handles' = {} /\ pdf' = Drive!NoFile /\ drive = {}
          /\ UNCHANGED <<drive, uploads, shown, cleaned, abandoned>>
      BY <1>1, <1>q DEF Drive!RunPipeline, Drive!history, Drive!store, Drive!book, Drive!Writes
    <2>c. CASE Drive!Raises
      BY <2>b, <2>c, <2>r
    <2>d. CASE ~Drive!Raises
      BY <2>a, <2>b, <2>d DEF Drive!RunPipeline
    <2> QED BY <2>c, <2>d
  <1>4. /\ \A r \in Replies : Drive!ReplyFiles(r)'
        /\ \A c \in Cleanups : Drive!CleanupFiles(c)'
        /\ \A t \in Replies \cup Cleanups : Drive!At(t, "idle")'
        /\ Drive!ClicksTakeTurns'
        /\ shown = Drive!NoFile
        /\ drive \subseteq {pdf} \cup handles \cup abandoned \cup Drive!HeldBy(Drive!Worker)
        /\ drive' \subseteq {pdf'} \cup handles' \cup abandoned' \cup Drive!HeldBy(Drive!Worker)'
             => Drive!NothingForgotten'
    <2>1. drive' \subseteq drive \cup {Drive!NextFile}
      BY <1>3
    <2> QED BY <1>1, <1>3, <2>1, WorkerLeavesOthers
  <1>5. Drive!TypeOK'
    <2>0. uploads' = Drive!NextFile => Drive!NextFile \in Drive!Files
      BY <1>0 DEF Drive!NextFile, Drive!Files
    <2>1. /\ drive' \subseteq Drive!Files /\ cleaned' \subseteq Drive!Files
          /\ abandoned' \subseteq Drive!Files
          /\ pdf' \in Drive!Files \cup {Drive!NoFile}
          /\ shown' \in Drive!Files \cup {Drive!NoFile}
      BY <1>0, <1>1, <1>q, <1>3, <2>0 DEF Drive!TypeOK
    <2>2. handles' \subseteq Drive!Files /\ Drive!Cardinality(handles') <= MaxTokens
      BY <1>0, <1>q, <1>3 DEF Drive!TypeOK
    <2>3. lock' \in Drive!Tasks \cup {Drive!Free}
      BY <1>0, <1>3, DriveNames DEF Drive!TypeOK
    <2> QED BY <1>0, <1>3, <2>1, <2>2, <2>3 DEF Drive!TypeOK
  <1>6. Drive!NothingForgotten'
    BY <1>1, <1>q, <1>3, <1>4 DEF Drive!HeldBy, Drive!At, Drive!AtMostOne
  <1>7. Drive!ShownPdfKept'
    BY <1>1, <1>q, <1>3, <1>4 DEF Drive!DriveInductive, Drive!DriveInv, Drive!ShownPdfKept
  <1>8. Drive!ReadAfterDelivery'
    BY <1>1, <1>q, <1>3, <1>4 DEF Drive!DriveInductive, Drive!DriveInv,
         Drive!ReadAfterDelivery, Drive!DeliveryFirst
  <1>9. Drive!OnCourse'
    BY <1>3, DriveNames DEF Drive!DriveInductive, Drive!OnCourse
  <1>10. Drive!OldNews'
    BY <1>0, <1>q, <1>3, DriveNames DEF Drive!DriveInductive, Drive!OldNews, Drive!NextFile
  <1>11. Drive!DeliveryFirst'
    BY <1>0, <1>1, <1>q, <1>3, <1>4 DEF Drive!DriveInductive, Drive!DeliveryFirst
  <1>12. Drive!WorkerFiles'
    BY <1>0, <1>1, <1>q, <1>3, DriveNames
    DEF Drive!DriveInductive, Drive!WorkerFiles, Drive!AtMostOne, Drive!OldNews, Drive!NextFile
  <1> QED
    BY <1>4, <1>5, <1>6, <1>7, <1>8, <1>9, <1>10, <1>11, <1>12
       DEF Drive!DriveInductive, Drive!DriveInv

\* _upload_business_attachments, the answer lost or not.
LEMMA UploadAttachmentKeeps ==
    ASSUME Drive!DriveAssumption, Drive!DriveInductive, Drive!UploadAttachment
    PROVE  Drive!DriveInductive'
PROOF
  <1> USE DEF Drive!worker
  <1>0. Drive!TypeOK /\ uploads \in 0..MaxFiles /\ MaxFiles \in Nat /\ uploads' \in 0..MaxFiles
    <2>1. uploads' = uploads \/ (uploads' = uploads + 1 /\ uploads < MaxFiles)
      BY DEF Drive!UploadAttachment, Drive!UploadsFile, Drive!UploadFails, Drive!history,
           Drive!store, Drive!book, Drive!NextFile
    <2> QED BY <2>1, UploadsCount
  <1>1. Drive!worker.pc = "attach" /\ Drive!worker \in Drive!TaskStates
    BY DriveNames DEF Drive!DriveInductive, Drive!DriveInv, Drive!TypeOK,
         Drive!UploadAttachment, Drive!At
  <1>3. /\ task' \in [Drive!Tasks -> Drive!TaskStates]
        /\ \A u \in Drive!Tasks \ {Drive!Worker} : task'[u] = task[u]
        /\ card' \in [kind : Drive!Kinds, outcome : Drive!Outcomes, read : BOOLEAN]
        /\ card'.kind = card.kind /\ card'.read = card.read
        /\ \/ /\ Drive!worker.pc' = "retain" /\ Drive!worker.new' = Drive!NextFile
              /\ drive' = drive \cup {Drive!NextFile} /\ uploads' = Drive!NextFile
              /\ UNCHANGED abandoned
           \/ /\ Drive!worker.pc' = "generate" /\ UNCHANGED Drive!worker.new
              /\ \/ UNCHANGED <<drive, uploads, abandoned>>
                 \/ /\ drive' = drive \cup {Drive!NextFile} /\ uploads' = Drive!NextFile
                    /\ abandoned' = abandoned \cup {Drive!NextFile}
        /\ UNCHANGED <<Drive!worker.kept, Drive!worker.todo, Drive!worker.gone,
                       Drive!worker.ctx>>
        /\ UNCHANGED <<pdf, handles, lock, shown, card, cleaned>>
    <2>1. ASSUME NEW f \in Drive!Files,
                 Drive!Goes(Drive!Worker, [Drive!worker EXCEPT !.pc = "retain", !.new = f])
          PROVE  /\ task' \in [Drive!Tasks -> Drive!TaskStates]
                 /\ \A u \in Drive!Tasks \ {Drive!Worker} : task'[u] = task[u]
                 /\ Drive!worker'.pc = "retain" /\ Drive!worker'.new = f
                 /\ Drive!worker'.todo = Drive!worker.todo
                 /\ Drive!worker'.kept = Drive!worker.kept
                 /\ Drive!worker'.gone = Drive!worker.gone
                 /\ Drive!worker'.ctx = Drive!worker.ctx
                 /\ Drive!worker'.pdf = Drive!worker.pdf
                 /\ Drive!worker'.handles = Drive!worker.handles
      <3> DEFINE to == [Drive!worker EXCEPT !.pc = "retain", !.new = f]
      <3>1. to \in Drive!TaskStates
        BY <1>0, <1>1, <2>1 DEF Drive!TypeOK, Drive!TaskStates, Drive!Pcs
      <3>2. /\ task' \in [Drive!Tasks -> Drive!TaskStates] /\ task'[Drive!Worker] = to
            /\ \A u \in Drive!Tasks \ {Drive!Worker} : task'[u] = task[u]
        BY <1>0, <2>1, <3>1, Moves, DriveNames
      <3>3. /\ to.pc = "retain" /\ to.new = f /\ to.todo = Drive!worker.todo
            /\ to.kept = Drive!worker.kept /\ to.gone = Drive!worker.gone
            /\ to.ctx = Drive!worker.ctx
            /\ to.pdf = Drive!worker.pdf /\ to.handles = Drive!worker.handles
        BY <1>1 DEF Drive!TaskStates
      <3> QED BY <3>2, <3>3
    <2>2. ASSUME Drive!Goes(Drive!Worker, [Drive!worker EXCEPT !.pc = "generate"])
          PROVE  /\ task' \in [Drive!Tasks -> Drive!TaskStates]
                 /\ \A u \in Drive!Tasks \ {Drive!Worker} : task'[u] = task[u]
                 /\ Drive!worker'.pc = "generate" /\ Drive!worker'.new = Drive!worker.new
                 /\ Drive!worker'.todo = Drive!worker.todo
                 /\ Drive!worker'.kept = Drive!worker.kept
                 /\ Drive!worker'.gone = Drive!worker.gone
                 /\ Drive!worker'.ctx = Drive!worker.ctx
                 /\ Drive!worker'.pdf = Drive!worker.pdf
                 /\ Drive!worker'.handles = Drive!worker.handles
      <3> DEFINE to == [Drive!worker EXCEPT !.pc = "generate"]
      <3>1. to \in Drive!TaskStates
        BY <1>0, <1>1, <2>2 DEF Drive!TypeOK, Drive!TaskStates, Drive!Pcs
      <3>2. /\ task' \in [Drive!Tasks -> Drive!TaskStates] /\ task'[Drive!Worker] = to
            /\ \A u \in Drive!Tasks \ {Drive!Worker} : task'[u] = task[u]
        BY <1>0, <2>2, <3>1, Moves, DriveNames
      <3>3. /\ to.pc = "generate" /\ to.new = Drive!worker.new /\ to.todo = Drive!worker.todo
            /\ to.kept = Drive!worker.kept /\ to.gone = Drive!worker.gone
            /\ to.ctx = Drive!worker.ctx
            /\ to.pdf = Drive!worker.pdf /\ to.handles = Drive!worker.handles
        BY <1>1 DEF Drive!TaskStates
      <3> QED BY <3>2, <3>3
    <2> QED BY <1>0, <1>1, CardOutcomes, <2>1, <2>2
       DEF Drive!UploadAttachment, Drive!UploadsFile, Drive!UploadFails, Drive!history,
            Drive!store, Drive!book, Drive!Outcomes
  <1>4. /\ \A r \in Replies : Drive!ReplyFiles(r)'
        /\ \A c \in Cleanups : Drive!CleanupFiles(c)'
        /\ \A t \in Replies \cup Cleanups : Drive!At(t, "idle")'
        /\ Drive!ClicksTakeTurns'
        /\ shown = Drive!NoFile
        /\ drive \subseteq {pdf} \cup handles \cup abandoned \cup Drive!HeldBy(Drive!Worker)
        /\ drive' \subseteq {pdf'} \cup handles' \cup abandoned' \cup Drive!HeldBy(Drive!Worker)'
             => Drive!NothingForgotten'
    <2>1. drive' \subseteq drive \cup {Drive!NextFile}
      BY <1>3
    <2> QED BY <1>1, <1>3, <2>1, WorkerLeavesOthers
  <1>5. Drive!TypeOK'
    <2>0. uploads' = Drive!NextFile => Drive!NextFile \in Drive!Files
      BY <1>0 DEF Drive!NextFile, Drive!Files
    <2>1. /\ drive' \subseteq Drive!Files /\ cleaned' \subseteq Drive!Files
          /\ abandoned' \subseteq Drive!Files
          /\ pdf' \in Drive!Files \cup {Drive!NoFile}
          /\ shown' \in Drive!Files \cup {Drive!NoFile}
      BY <1>0, <1>1, <1>3, <2>0 DEF Drive!TypeOK
    <2>2. handles' \subseteq Drive!Files /\ Drive!Cardinality(handles') <= MaxTokens
      BY <1>0, <1>3 DEF Drive!TypeOK
    <2>3. lock' \in Drive!Tasks \cup {Drive!Free}
      BY <1>0, <1>3, DriveNames DEF Drive!TypeOK
    <2> QED BY <1>0, <1>3, <2>1, <2>2, <2>3 DEF Drive!TypeOK
  <1>6. Drive!NothingForgotten'
    BY <1>1, <1>3, <1>4 DEF Drive!HeldBy, Drive!At, Drive!AtMostOne
  <1>7. Drive!ShownPdfKept'
    BY <1>1, <1>3, <1>4 DEF Drive!DriveInductive, Drive!DriveInv, Drive!ShownPdfKept
  <1>8. Drive!ReadAfterDelivery'
    BY <1>1, <1>3, <1>4 DEF Drive!DriveInductive, Drive!DriveInv, Drive!ReadAfterDelivery,
         Drive!DeliveryFirst
  <1>9. Drive!OnCourse'
    BY <1>3, DriveNames DEF Drive!DriveInductive, Drive!OnCourse
  <1>10. Drive!OldNews'
    BY <1>0, <1>3, DriveNames DEF Drive!DriveInductive, Drive!OldNews, Drive!NextFile
  <1>11. Drive!DeliveryFirst'
    BY <1>0, <1>1, <1>3, <1>4 DEF Drive!DriveInductive, Drive!DeliveryFirst
  <1>12. Drive!WorkerFiles'
    BY <1>0, <1>1, <1>3, DriveNames
    DEF Drive!DriveInductive, Drive!WorkerFiles, Drive!AtMostOne, Drive!OldNews, Drive!NextFile
  <1> QED
    BY <1>4, <1>5, <1>6, <1>7, <1>8, <1>9, <1>10, <1>11, <1>12
       DEF Drive!DriveInductive, Drive!DriveInv

\* An upload is in the book before the next effect, or is dropped.
LEMMA RetainAttachmentKeeps ==
    ASSUME Drive!DriveAssumption, Drive!DriveInductive, Drive!RetainAttachment
    PROVE  Drive!DriveInductive'
PROOF
  <1> USE DEF Drive!worker
  <1>0. Drive!TypeOK /\ uploads \in 0..MaxFiles /\ MaxFiles \in Nat /\ uploads' \in 0..MaxFiles
    <2>1. uploads' = uploads \/ (uploads' = uploads + 1 /\ uploads < MaxFiles)
      BY DEF Drive!RetainAttachment, Drive!history, Drive!store, Drive!book, Drive!Retains,
           Drive!Lists, Drive!Writes, Drive!NextFile
    <2> QED BY <2>1, UploadsCount
  <1>1. Drive!worker.pc = "retain" /\ Drive!worker \in Drive!TaskStates
    BY DriveNames DEF Drive!DriveInductive, Drive!DriveInv, Drive!TypeOK,
         Drive!RetainAttachment, Drive!At
  <1>q. Drive!worker.new \in Drive!Files /\ Drive!worker.new \in drive
        /\ Drive!worker.new \notin Drive!worker.kept
    BY <1>0, <1>1, DriveNames DEF Drive!DriveInductive, Drive!WorkerFiles, Drive!TypeOK
  <1>3. /\ task' \in [Drive!Tasks -> Drive!TaskStates]
        /\ \A u \in Drive!Tasks \ {Drive!Worker} : task'[u] = task[u]
        /\ card' \in [kind : Drive!Kinds, outcome : Drive!Outcomes, read : BOOLEAN]
        /\ card'.kind = card.kind /\ card'.read = card.read
        /\ \/ /\ Drive!worker.pc' = "generate" /\ Drive!worker.new' = Drive!NoFile
              /\ Drive!worker.kept' = {Drive!worker.new}
              /\ handles' = handles \cup {Drive!worker.new} /\ UNCHANGED Drive!worker.todo
           \/ /\ Drive!worker.pc' = "drop" /\ Drive!worker.new' = Drive!NoFile
              /\ Drive!worker.todo' = {Drive!worker.new}
              /\ Drive!worker.ctx' = "attach" /\ UNCHANGED Drive!worker.kept
              /\ handles' \in {handles, handles \cup {Drive!worker.new}}
        /\ handles' # handles => Drive!Cardinality(handles') <= MaxTokens
        /\ UNCHANGED <<Drive!worker.gone, drive, uploads, pdf, lock, shown, card, cleaned,
                       abandoned>>
    <2>1. ASSUME Drive!Goes(Drive!Worker, [Drive!worker EXCEPT !.pc = "generate",
                                           !.new = Drive!NoFile, !.kept = {Drive!worker.new}])
          PROVE  /\ task' \in [Drive!Tasks -> Drive!TaskStates]
                 /\ \A u \in Drive!Tasks \ {Drive!Worker} : task'[u] = task[u]
                 /\ Drive!worker'.pc = "generate" /\ Drive!worker'.new = Drive!NoFile
                 /\ Drive!worker'.kept = {Drive!worker.new}
                 /\ Drive!worker'.todo = Drive!worker.todo
                 /\ Drive!worker'.gone = Drive!worker.gone
                 /\ Drive!worker'.ctx = Drive!worker.ctx
                 /\ Drive!worker'.pdf = Drive!worker.pdf
                 /\ Drive!worker'.handles = Drive!worker.handles
      <3> DEFINE to == [Drive!worker EXCEPT !.pc = "generate", !.new = Drive!NoFile,
                        !.kept = {Drive!worker.new}]
      <3>1. to \in Drive!TaskStates
        BY <1>0, <1>1, <1>q, <2>1 DEF Drive!TypeOK, Drive!TaskStates, Drive!Pcs
      <3>2. /\ task' \in [Drive!Tasks -> Drive!TaskStates] /\ task'[Drive!Worker] = to
            /\ \A u \in Drive!Tasks \ {Drive!Worker} : task'[u] = task[u]
        BY <1>0, <2>1, <3>1, Moves, DriveNames
      <3>3. /\ to.pc = "generate" /\ to.new = Drive!NoFile /\ to.kept = {Drive!worker.new}
            /\ to.todo = Drive!worker.todo /\ to.gone = Drive!worker.gone
            /\ to.ctx = Drive!worker.ctx
            /\ to.pdf = Drive!worker.pdf /\ to.handles = Drive!worker.handles
        BY <1>1 DEF Drive!TaskStates
      <3> QED BY <3>2, <3>3
    <2>2. ASSUME Drive!Goes(Drive!Worker, [Drive!worker EXCEPT !.pc = "drop",
                                           !.new = Drive!NoFile, !.todo = {Drive!worker.new},
                                           !.ctx = "attach"])
          PROVE  /\ task' \in [Drive!Tasks -> Drive!TaskStates]
                 /\ \A u \in Drive!Tasks \ {Drive!Worker} : task'[u] = task[u]
                 /\ Drive!worker'.pc = "drop" /\ Drive!worker'.new = Drive!NoFile
                 /\ Drive!worker'.todo = {Drive!worker.new}
                 /\ Drive!worker'.ctx = "attach" /\ Drive!worker'.kept = Drive!worker.kept
                 /\ Drive!worker'.gone = Drive!worker.gone
                 /\ Drive!worker'.pdf = Drive!worker.pdf
                 /\ Drive!worker'.handles = Drive!worker.handles
      <3> DEFINE to == [Drive!worker EXCEPT !.pc = "drop", !.new = Drive!NoFile,
                        !.todo = {Drive!worker.new}, !.ctx = "attach"]
      <3>1. to \in Drive!TaskStates
        BY <1>0, <1>1, <1>q, <2>2 DEF Drive!TypeOK, Drive!TaskStates, Drive!Pcs
      <3>2. /\ task' \in [Drive!Tasks -> Drive!TaskStates] /\ task'[Drive!Worker] = to
            /\ \A u \in Drive!Tasks \ {Drive!Worker} : task'[u] = task[u]
        BY <1>0, <2>2, <3>1, Moves, DriveNames
      <3>3. /\ to.pc = "drop" /\ to.new = Drive!NoFile /\ to.todo = {Drive!worker.new}
            /\ to.ctx = "attach" /\ to.kept = Drive!worker.kept /\ to.gone = Drive!worker.gone
            /\ to.pdf = Drive!worker.pdf /\ to.handles = Drive!worker.handles
        BY <1>1 DEF Drive!TaskStates
      <3> QED BY <3>2, <3>3
    <2> QED BY <1>0, <1>1, <1>q, CardOutcomes, <2>1, <2>2
       DEF Drive!RetainAttachment, Drive!history, Drive!store, Drive!book, Drive!Retains,
            Drive!Lists, Drive!Writes, Drive!Outcomes
  <1>4. /\ \A r \in Replies : Drive!ReplyFiles(r)'
        /\ \A c \in Cleanups : Drive!CleanupFiles(c)'
        /\ \A t \in Replies \cup Cleanups : Drive!At(t, "idle")'
        /\ Drive!ClicksTakeTurns'
        /\ shown = Drive!NoFile
        /\ drive \subseteq {pdf} \cup handles \cup abandoned \cup Drive!HeldBy(Drive!Worker)
        /\ drive' \subseteq {pdf'} \cup handles' \cup abandoned' \cup Drive!HeldBy(Drive!Worker)'
             => Drive!NothingForgotten'
    <2>1. drive' \subseteq drive \cup {Drive!NextFile}
      BY <1>3
    <2> QED BY <1>1, <1>3, <2>1, WorkerLeavesOthers
  <1>5. Drive!TypeOK'
    <2>0. uploads' = Drive!NextFile => Drive!NextFile \in Drive!Files
      BY <1>0 DEF Drive!NextFile, Drive!Files
    <2>1. /\ drive' \subseteq Drive!Files /\ cleaned' \subseteq Drive!Files
          /\ abandoned' \subseteq Drive!Files
          /\ pdf' \in Drive!Files \cup {Drive!NoFile}
          /\ shown' \in Drive!Files \cup {Drive!NoFile}
      BY <1>0, <1>1, <1>q, <1>3, <2>0 DEF Drive!TypeOK
    <2>2. handles' \subseteq Drive!Files /\ Drive!Cardinality(handles') <= MaxTokens
      BY <1>0, <1>q, <1>3 DEF Drive!TypeOK
    <2>3. lock' \in Drive!Tasks \cup {Drive!Free}
      BY <1>0, <1>3, DriveNames DEF Drive!TypeOK
    <2> QED BY <1>0, <1>3, <2>1, <2>2, <2>3 DEF Drive!TypeOK
  <1>6. Drive!NothingForgotten'
    BY <1>1, <1>q, <1>3, <1>4 DEF Drive!HeldBy, Drive!At, Drive!AtMostOne
  <1>7. Drive!ShownPdfKept'
    BY <1>1, <1>q, <1>3, <1>4 DEF Drive!DriveInductive, Drive!DriveInv, Drive!ShownPdfKept
  <1>8. Drive!ReadAfterDelivery'
    BY <1>1, <1>q, <1>3, <1>4 DEF Drive!DriveInductive, Drive!DriveInv,
         Drive!ReadAfterDelivery, Drive!DeliveryFirst
  <1>9. Drive!OnCourse'
    BY <1>3, DriveNames DEF Drive!DriveInductive, Drive!OnCourse
  <1>10. Drive!OldNews'
    BY <1>0, <1>q, <1>3, DriveNames DEF Drive!DriveInductive, Drive!OldNews, Drive!NextFile
  <1>11. Drive!DeliveryFirst'
    BY <1>0, <1>1, <1>q, <1>3, <1>4 DEF Drive!DriveInductive, Drive!DeliveryFirst
  <1>12. Drive!WorkerFiles'
    BY <1>0, <1>1, <1>q, <1>3, DriveNames
    DEF Drive!DriveInductive, Drive!WorkerFiles, Drive!AtMostOne, Drive!OldNews, Drive!NextFile
  <1> QED
    BY <1>4, <1>5, <1>6, <1>7, <1>8, <1>9, <1>10, <1>11, <1>12
       DEF Drive!DriveInductive, Drive!DriveInv

\* _delete_or_retain_token: record the handle ...
LEMMA DropRetainsKeeps ==
    ASSUME Drive!DriveAssumption, Drive!DriveInductive, Drive!DropRetains
    PROVE  Drive!DriveInductive'
PROOF
  <1> USE DEF Drive!worker
  <1>0. Drive!TypeOK /\ uploads \in 0..MaxFiles /\ MaxFiles \in Nat /\ uploads' \in 0..MaxFiles
    <2>1. uploads' = uploads \/ (uploads' = uploads + 1 /\ uploads < MaxFiles)
      BY DEF Drive!DropRetains, Drive!history, Drive!store, Drive!book, Drive!Abandons,
           Drive!Retains, Drive!Lists, Drive!Writes, Drive!NextFile
    <2> QED BY <2>1, UploadsCount
  <1>1. Drive!worker.pc = "drop" /\ Drive!worker \in Drive!TaskStates
    BY DriveNames DEF Drive!DriveInductive, Drive!DriveInv, Drive!TypeOK, Drive!DropRetains,
         Drive!At
  <1>q. /\ Drive!worker.todo \subseteq Drive!Files
        /\ Drive!worker.todo \cap Drive!worker.kept = {}
        /\ Drive!worker.ctx \in {"attach", "stage", "failure"}
        /\ Drive!worker.ctx = "failure" => Drive!worker.todo \subseteq handles
        /\ Drive!worker.ctx # "failure" => Drive!AtMostOne(Drive!worker.todo)
    BY <1>0, <1>1, DriveNames DEF Drive!DriveInductive, Drive!WorkerFiles, Drive!TaskStates
  <1>3. /\ task' \in [Drive!Tasks -> Drive!TaskStates]
        /\ \A u \in Drive!Tasks \ {Drive!Worker} : task'[u] = task[u]
        /\ card' \in [kind : Drive!Kinds, outcome : Drive!Outcomes, read : BOOLEAN]
        /\ card'.kind = card.kind /\ card'.read = card.read
        /\ \E f \in Drive!worker.todo :
              \/ /\ Drive!worker.pc' = "delete" /\ Drive!worker.new' = f
                 /\ UNCHANGED Drive!worker.todo
                 /\ handles' = handles \cup {f}
                 /\ UNCHANGED <<Drive!worker.kept, Drive!worker.gone, Drive!worker.ctx,
                                abandoned>>
              \/ /\ Drive!worker.pc' = "record" /\ Drive!worker.ctx = "stage"
                 /\ Drive!worker.todo' = {}
                 /\ UNCHANGED <<Drive!worker.kept, Drive!worker.gone, Drive!worker.new>>
                 /\ handles' \in {handles, handles \cup {f}}
                 /\ abandoned' = abandoned \cup ({f} \ ({pdf'} \cup handles'))
              \/ /\ Drive!worker.pc' = "done" /\ Drive!worker.new' = Drive!NoFile
                 /\ Drive!worker.kept' = {} /\ Drive!worker.todo' = {}
                 /\ Drive!worker.gone' = {}
                 /\ Drive!worker.ctx # "stage"
                 /\ handles' \in {handles, handles \cup {f}}
                 /\ abandoned' = abandoned \cup ({f} \ ({pdf'} \cup handles'))
        /\ handles' # handles => Drive!Cardinality(handles') <= MaxTokens
        /\ lock' \in {lock, Drive!Free}
        /\ UNCHANGED <<drive, uploads, pdf, shown, cleaned>>
    <2>1. ASSUME NEW f \in Drive!Files,
                 Drive!Goes(Drive!Worker, [Drive!worker EXCEPT !.pc = "delete", !.new = f])
          PROVE  /\ task' \in [Drive!Tasks -> Drive!TaskStates]
                 /\ \A u \in Drive!Tasks \ {Drive!Worker} : task'[u] = task[u]
                 /\ Drive!worker'.pc = "delete" /\ Drive!worker'.new = f
                 /\ Drive!worker'.todo = Drive!worker.todo
                 /\ Drive!worker'.kept = Drive!worker.kept
                 /\ Drive!worker'.gone = Drive!worker.gone
                 /\ Drive!worker'.ctx = Drive!worker.ctx
                 /\ Drive!worker'.pdf = Drive!worker.pdf
                 /\ Drive!worker'.handles = Drive!worker.handles
      <3> DEFINE to == [Drive!worker EXCEPT !.pc = "delete", !.new = f]
      <3>1. to \in Drive!TaskStates
        BY <1>0, <1>1, <1>q, <2>1 DEF Drive!TypeOK, Drive!TaskStates, Drive!Pcs
      <3>2. /\ task' \in [Drive!Tasks -> Drive!TaskStates] /\ task'[Drive!Worker] = to
            /\ \A u \in Drive!Tasks \ {Drive!Worker} : task'[u] = task[u]
        BY <1>0, <2>1, <3>1, Moves, DriveNames
      <3>3. /\ to.pc = "delete" /\ to.new = f /\ to.todo = Drive!worker.todo
            /\ to.kept = Drive!worker.kept /\ to.gone = Drive!worker.gone
            /\ to.ctx = Drive!worker.ctx
            /\ to.pdf = Drive!worker.pdf /\ to.handles = Drive!worker.handles
        BY <1>1 DEF Drive!TaskStates
      <3> QED BY <3>2, <3>3
    <2>r. Drive!Raises => /\ task' \in [Drive!Tasks -> Drive!TaskStates]
                          /\ \A u \in Drive!Tasks \ {Drive!Worker} : task'[u] = task[u]
                          /\ Drive!worker.pc' = "done" /\ Drive!worker.new' = Drive!NoFile
                          /\ Drive!worker.kept' = {}
                          /\ Drive!worker.todo' = {} /\ Drive!worker.gone' = {}
                          /\ card' \in [kind : Drive!Kinds, outcome : Drive!Outcomes,
                                        read : BOOLEAN]
                          /\ card'.kind = card.kind /\ card'.read = card.read
                          /\ lock' \in {lock, Drive!Free}
      BY <1>0, RaisesMoves
    <2>d. ASSUME NEW f, Drive!AfterDrop(f)
          PROVE  /\ task' \in [Drive!Tasks -> Drive!TaskStates]
                 /\ \A u \in Drive!Tasks \ {Drive!Worker} : task'[u] = task[u]
                 /\ \/ /\ Drive!worker.ctx = "attach" /\ Drive!worker.pc' = "generate"
                       /\ Drive!worker.todo' = {}
                       /\ UNCHANGED <<Drive!worker.kept, Drive!worker.gone, Drive!worker.new,
                                      Drive!worker.ctx>>
                    \/ /\ Drive!worker.ctx = "stage" /\ Drive!worker.pc' = "record"
                       /\ Drive!worker.todo' = {}
                       /\ UNCHANGED <<Drive!worker.kept, Drive!worker.gone, Drive!worker.new,
                                      Drive!worker.ctx>>
                    \/ /\ Drive!worker.ctx = "failure" /\ Drive!worker.pc' = "drop"
                       /\ Drive!worker.todo' = Drive!worker.todo \ {f}
                       /\ UNCHANGED <<Drive!worker.kept, Drive!worker.gone, Drive!worker.new,
                                      Drive!worker.ctx>>
                    \/ /\ Drive!worker.pc' = "done" /\ Drive!worker.new' = Drive!NoFile
                       /\ Drive!worker.kept' = {}
                       /\ Drive!worker.todo' = {} /\ Drive!worker.gone' = {}
                       /\ Drive!worker.ctx = "failure" /\ Drive!worker.todo \ {f} = {}
                 /\ lock' \in {lock, Drive!Free}
      BY <1>0, <1>q, <2>d, AfterDropMoves
    <2> QED BY <1>0, <1>1, <1>q, CardOutcomes, <2>1, <2>r, <2>d
       DEF Drive!DropRetains, Drive!history, Drive!store, Drive!book, Drive!Abandons,
            Drive!Retains, Drive!Lists, Drive!Writes, Drive!Outcomes
  <1>4. /\ \A r \in Replies : Drive!ReplyFiles(r)'
        /\ \A c \in Cleanups : Drive!CleanupFiles(c)'
        /\ \A t \in Replies \cup Cleanups : Drive!At(t, "idle")'
        /\ Drive!ClicksTakeTurns'
        /\ shown = Drive!NoFile
        /\ drive \subseteq {pdf} \cup handles \cup abandoned \cup Drive!HeldBy(Drive!Worker)
        /\ drive' \subseteq {pdf'} \cup handles' \cup abandoned' \cup Drive!HeldBy(Drive!Worker)'
             => Drive!NothingForgotten'
    <2>1. drive' \subseteq drive \cup {Drive!NextFile}
      BY <1>3
    <2> QED BY <1>1, <1>3, <2>1, WorkerLeavesOthers
  <1>5. Drive!TypeOK'
    <2>0. uploads' = Drive!NextFile => Drive!NextFile \in Drive!Files
      BY <1>0 DEF Drive!NextFile, Drive!Files
    <2>1. /\ drive' \subseteq Drive!Files /\ cleaned' \subseteq Drive!Files
          /\ abandoned' \subseteq Drive!Files
          /\ pdf' \in Drive!Files \cup {Drive!NoFile}
          /\ shown' \in Drive!Files \cup {Drive!NoFile}
      BY <1>0, <1>1, <1>q, <1>3, <2>0 DEF Drive!TypeOK
    <2>2. handles' \subseteq Drive!Files /\ Drive!Cardinality(handles') <= MaxTokens
      BY <1>0, <1>q, <1>3 DEF Drive!TypeOK
    <2>3. lock' \in Drive!Tasks \cup {Drive!Free}
      BY <1>0, <1>3, DriveNames DEF Drive!TypeOK
    <2> QED BY <1>0, <1>3, <2>1, <2>2, <2>3 DEF Drive!TypeOK
  <1>6. Drive!NothingForgotten'
    BY <1>1, <1>q, <1>3, <1>4 DEF Drive!HeldBy, Drive!At, Drive!AtMostOne
  <1>7. Drive!ShownPdfKept'
    BY <1>1, <1>q, <1>3, <1>4 DEF Drive!DriveInductive, Drive!DriveInv, Drive!ShownPdfKept
  <1>8. Drive!ReadAfterDelivery'
    BY <1>1, <1>q, <1>3, <1>4 DEF Drive!DriveInductive, Drive!DriveInv,
         Drive!ReadAfterDelivery, Drive!DeliveryFirst
  <1>9. Drive!OnCourse'
    BY <1>3, DriveNames DEF Drive!DriveInductive, Drive!OnCourse
  <1>10. Drive!OldNews'
    BY <1>0, <1>q, <1>3, DriveNames DEF Drive!DriveInductive, Drive!OldNews, Drive!NextFile
  <1>11. Drive!DeliveryFirst'
    BY <1>0, <1>1, <1>q, <1>3, <1>4 DEF Drive!DriveInductive, Drive!DeliveryFirst
  <1>12. Drive!WorkerFiles'
    BY <1>0, <1>1, <1>q, <1>3, DriveNames
    DEF Drive!DriveInductive, Drive!WorkerFiles, Drive!AtMostOne, Drive!OldNews, Drive!NextFile
  <1> QED
    BY <1>4, <1>5, <1>6, <1>7, <1>8, <1>9, <1>10, <1>11, <1>12
       DEF Drive!DriveInductive, Drive!DriveInv

\* ... delete the file, or leave it to its handle ...
LEMMA DropDeletesKeeps ==
    ASSUME Drive!DriveAssumption, Drive!DriveInductive, Drive!DropDeletes
    PROVE  Drive!DriveInductive'
PROOF
  <1> USE DEF Drive!worker
  <1>0. Drive!TypeOK /\ uploads \in 0..MaxFiles /\ MaxFiles \in Nat /\ uploads' \in 0..MaxFiles
    <2>1. uploads' = uploads \/ (uploads' = uploads + 1 /\ uploads < MaxFiles)
      BY DEF Drive!DropDeletes, Drive!history, Drive!store, Drive!book, Drive!Deletes,
           Drive!NextFile
    <2> QED BY <2>1, UploadsCount
  <1>1. Drive!worker.pc = "delete" /\ Drive!worker \in Drive!TaskStates
    BY DriveNames DEF Drive!DriveInductive, Drive!DriveInv, Drive!TypeOK, Drive!DropDeletes,
         Drive!At
  <1>q. /\ Drive!worker.todo \subseteq Drive!Files
        /\ Drive!worker.new \in Drive!worker.todo /\ Drive!worker.new \in handles
        /\ Drive!worker.todo \cap Drive!worker.kept = {}
        /\ Drive!worker.todo \ {Drive!worker.new} \subseteq handles
        /\ Drive!worker.ctx \in {"attach", "stage", "failure"}
    BY <1>0, <1>1, DriveNames DEF Drive!DriveInductive, Drive!WorkerFiles, Drive!TaskStates
  <1>3. /\ task' \in [Drive!Tasks -> Drive!TaskStates]
        /\ \A u \in Drive!Tasks \ {Drive!Worker} : task'[u] = task[u]
        /\ card' \in [kind : Drive!Kinds, outcome : Drive!Outcomes, read : BOOLEAN]
        /\ card'.kind = card.kind /\ card'.read = card.read
        /\ \/ /\ Drive!worker.pc' = "remove" /\ drive' = drive \ {Drive!worker.new}
              /\ UNCHANGED <<Drive!worker.todo, Drive!worker.new, Drive!worker.kept,
                             Drive!worker.gone, Drive!worker.ctx>>
           \/ /\ Drive!worker.ctx = "attach" /\ Drive!worker.pc' = "generate"
              /\ Drive!worker.todo' = {}
              /\ UNCHANGED <<Drive!worker.kept, Drive!worker.gone, Drive!worker.new,
                             Drive!worker.ctx>>
           \/ /\ Drive!worker.ctx = "stage" /\ Drive!worker.pc' = "record"
              /\ Drive!worker.todo' = {}
              /\ UNCHANGED <<Drive!worker.kept, Drive!worker.gone, Drive!worker.new,
                             Drive!worker.ctx>>
           \/ /\ Drive!worker.ctx = "failure" /\ Drive!worker.pc' = "drop"
              /\ Drive!worker.todo' = Drive!worker.todo \ {Drive!worker.new}
              /\ UNCHANGED <<Drive!worker.kept, Drive!worker.gone, Drive!worker.new,
                             Drive!worker.ctx>>
           \/ /\ Drive!worker.pc' = "done" /\ Drive!worker.new' = Drive!NoFile
              /\ Drive!worker.kept' = {}
              /\ Drive!worker.todo' = {} /\ Drive!worker.gone' = {}
              /\ Drive!worker.ctx = "failure" /\ Drive!worker.todo \ {Drive!worker.new} = {}
           \/ Drive!worker.pc' = "done" /\ Drive!worker.new' = Drive!NoFile
              /\ Drive!worker.kept' = {} /\ Drive!worker.todo' = {} /\ Drive!worker.gone' = {}
        /\ drive' \in {drive, drive \ {Drive!worker.new}}
        /\ lock' \in {lock, Drive!Free}
        /\ UNCHANGED <<uploads, pdf, handles, shown, cleaned, abandoned>>
    <2>1. ASSUME Drive!Goes(Drive!Worker, [Drive!worker EXCEPT !.pc = "remove"])
          PROVE  /\ task' \in [Drive!Tasks -> Drive!TaskStates]
                 /\ \A u \in Drive!Tasks \ {Drive!Worker} : task'[u] = task[u]
                 /\ Drive!worker'.pc = "remove" /\ Drive!worker'.new = Drive!worker.new
                 /\ Drive!worker'.todo = Drive!worker.todo
                 /\ Drive!worker'.kept = Drive!worker.kept
                 /\ Drive!worker'.gone = Drive!worker.gone
                 /\ Drive!worker'.ctx = Drive!worker.ctx
                 /\ Drive!worker'.pdf = Drive!worker.pdf
                 /\ Drive!worker'.handles = Drive!worker.handles
      <3> DEFINE to == [Drive!worker EXCEPT !.pc = "remove"]
      <3>1. to \in Drive!TaskStates
        BY <1>0, <1>1, <1>q, <2>1 DEF Drive!TypeOK, Drive!TaskStates, Drive!Pcs
      <3>2. /\ task' \in [Drive!Tasks -> Drive!TaskStates] /\ task'[Drive!Worker] = to
            /\ \A u \in Drive!Tasks \ {Drive!Worker} : task'[u] = task[u]
        BY <1>0, <2>1, <3>1, Moves, DriveNames
      <3>3. /\ to.pc = "remove" /\ to.new = Drive!worker.new /\ to.todo = Drive!worker.todo
            /\ to.kept = Drive!worker.kept /\ to.gone = Drive!worker.gone
            /\ to.ctx = Drive!worker.ctx
            /\ to.pdf = Drive!worker.pdf /\ to.handles = Drive!worker.handles
        BY <1>1 DEF Drive!TaskStates
      <3> QED BY <3>2, <3>3
    <2>r. Drive!Raises => /\ task' \in [Drive!Tasks -> Drive!TaskStates]
                          /\ \A u \in Drive!Tasks \ {Drive!Worker} : task'[u] = task[u]
                          /\ Drive!worker.pc' = "done" /\ Drive!worker.new' = Drive!NoFile
                          /\ Drive!worker.kept' = {}
                          /\ Drive!worker.todo' = {} /\ Drive!worker.gone' = {}
                          /\ card' \in [kind : Drive!Kinds, outcome : Drive!Outcomes,
                                        read : BOOLEAN]
                          /\ card'.kind = card.kind /\ card'.read = card.read
                          /\ lock' \in {lock, Drive!Free}
      BY <1>0, RaisesMoves
    <2>d. ASSUME NEW f, Drive!AfterDrop(f)
          PROVE  /\ task' \in [Drive!Tasks -> Drive!TaskStates]
                 /\ \A u \in Drive!Tasks \ {Drive!Worker} : task'[u] = task[u]
                 /\ \/ /\ Drive!worker.ctx = "attach" /\ Drive!worker.pc' = "generate"
                       /\ Drive!worker.todo' = {}
                       /\ UNCHANGED <<Drive!worker.kept, Drive!worker.gone, Drive!worker.new,
                                      Drive!worker.ctx>>
                    \/ /\ Drive!worker.ctx = "stage" /\ Drive!worker.pc' = "record"
                       /\ Drive!worker.todo' = {}
                       /\ UNCHANGED <<Drive!worker.kept, Drive!worker.gone, Drive!worker.new,
                                      Drive!worker.ctx>>
                    \/ /\ Drive!worker.ctx = "failure" /\ Drive!worker.pc' = "drop"
                       /\ Drive!worker.todo' = Drive!worker.todo \ {f}
                       /\ UNCHANGED <<Drive!worker.kept, Drive!worker.gone, Drive!worker.new,
                                      Drive!worker.ctx>>
                    \/ /\ Drive!worker.pc' = "done" /\ Drive!worker.new' = Drive!NoFile
                       /\ Drive!worker.kept' = {}
                       /\ Drive!worker.todo' = {} /\ Drive!worker.gone' = {}
                       /\ Drive!worker.ctx = "failure" /\ Drive!worker.todo \ {f} = {}
                 /\ lock' \in {lock, Drive!Free}
      BY <1>0, <1>q, <2>d, AfterDropMoves
    <2> QED BY <1>0, <1>1, <1>q, CardOutcomes, <2>1, <2>r, <2>d
       DEF Drive!DropDeletes, Drive!history, Drive!store, Drive!book, Drive!Deletes,
            Drive!Outcomes
  <1>4. /\ \A r \in Replies : Drive!ReplyFiles(r)'
        /\ \A c \in Cleanups : Drive!CleanupFiles(c)'
        /\ \A t \in Replies \cup Cleanups : Drive!At(t, "idle")'
        /\ Drive!ClicksTakeTurns'
        /\ shown = Drive!NoFile
        /\ drive \subseteq {pdf} \cup handles \cup abandoned \cup Drive!HeldBy(Drive!Worker)
        /\ drive' \subseteq {pdf'} \cup handles' \cup abandoned' \cup Drive!HeldBy(Drive!Worker)'
             => Drive!NothingForgotten'
    <2>1. drive' \subseteq drive \cup {Drive!NextFile}
      BY <1>3
    <2> QED BY <1>1, <1>3, <2>1, WorkerLeavesOthers
  <1>5. Drive!TypeOK'
    <2>0. uploads' = Drive!NextFile => Drive!NextFile \in Drive!Files
      BY <1>0 DEF Drive!NextFile, Drive!Files
    <2>1. /\ drive' \subseteq Drive!Files /\ cleaned' \subseteq Drive!Files
          /\ abandoned' \subseteq Drive!Files
          /\ pdf' \in Drive!Files \cup {Drive!NoFile}
          /\ shown' \in Drive!Files \cup {Drive!NoFile}
      BY <1>0, <1>1, <1>q, <1>3, <2>0 DEF Drive!TypeOK
    <2>2. handles' \subseteq Drive!Files /\ Drive!Cardinality(handles') <= MaxTokens
      BY <1>0, <1>3 DEF Drive!TypeOK
    <2>3. lock' \in Drive!Tasks \cup {Drive!Free}
      BY <1>0, <1>3, DriveNames DEF Drive!TypeOK
    <2> QED BY <1>0, <1>3, <2>1, <2>2, <2>3 DEF Drive!TypeOK
  <1>6. Drive!NothingForgotten'
    BY <1>1, <1>q, <1>3, <1>4 DEF Drive!HeldBy, Drive!At, Drive!AtMostOne
  <1>7. Drive!ShownPdfKept'
    BY <1>1, <1>q, <1>3, <1>4 DEF Drive!DriveInductive, Drive!DriveInv, Drive!ShownPdfKept
  <1>8. Drive!ReadAfterDelivery'
    BY <1>1, <1>q, <1>3, <1>4 DEF Drive!DriveInductive, Drive!DriveInv,
         Drive!ReadAfterDelivery, Drive!DeliveryFirst
  <1>9. Drive!OnCourse'
    BY <1>3, DriveNames DEF Drive!DriveInductive, Drive!OnCourse
  <1>10. Drive!OldNews'
    BY <1>0, <1>q, <1>3, DriveNames DEF Drive!DriveInductive, Drive!OldNews, Drive!NextFile
  <1>11. Drive!DeliveryFirst'
    BY <1>0, <1>1, <1>q, <1>3, <1>4 DEF Drive!DriveInductive, Drive!DeliveryFirst
  <1>12. Drive!WorkerFiles'
    BY <1>0, <1>1, <1>q, <1>3, DriveNames
    DEF Drive!DriveInductive, Drive!WorkerFiles, Drive!AtMostOne, Drive!OldNews, Drive!NextFile
  <1> QED
    BY <1>4, <1>5, <1>6, <1>7, <1>8, <1>9, <1>10, <1>11, <1>12
       DEF Drive!DriveInductive, Drive!DriveInv

\* ... and _remove_cleanup_token forgets a file that is gone.
LEMMA DropRemovesKeeps ==
    ASSUME Drive!DriveAssumption, Drive!DriveInductive, Drive!DropRemoves
    PROVE  Drive!DriveInductive'
PROOF
  <1> USE DEF Drive!worker
  <1>0. Drive!TypeOK /\ uploads \in 0..MaxFiles /\ MaxFiles \in Nat /\ uploads' \in 0..MaxFiles
    <2>1. uploads' = uploads \/ (uploads' = uploads + 1 /\ uploads < MaxFiles)
      BY DEF Drive!DropRemoves, Drive!history, Drive!store, Drive!book, Drive!Writes,
           Drive!NextFile
    <2> QED BY <2>1, UploadsCount
  <1>1. Drive!worker.pc = "remove" /\ Drive!worker \in Drive!TaskStates
    BY DriveNames DEF Drive!DriveInductive, Drive!DriveInv, Drive!TypeOK, Drive!DropRemoves,
         Drive!At
  <1>q. /\ Drive!worker.todo \subseteq Drive!Files
        /\ Drive!worker.new \in Drive!worker.todo /\ Drive!worker.new \notin drive
        /\ Drive!worker.todo \cap Drive!worker.kept = {}
        /\ Drive!worker.todo \ {Drive!worker.new} \subseteq handles
        /\ Drive!worker.ctx \in {"attach", "stage", "failure"}
    BY <1>0, <1>1, DriveNames DEF Drive!DriveInductive, Drive!WorkerFiles, Drive!TaskStates
  <1>3. /\ task' \in [Drive!Tasks -> Drive!TaskStates]
        /\ \A u \in Drive!Tasks \ {Drive!Worker} : task'[u] = task[u]
        /\ card' \in [kind : Drive!Kinds, outcome : Drive!Outcomes, read : BOOLEAN]
        /\ card'.kind = card.kind /\ card'.read = card.read
        /\ \/ /\ Drive!worker.ctx = "attach" /\ Drive!worker.pc' = "generate"
              /\ Drive!worker.todo' = {}
              /\ UNCHANGED <<Drive!worker.kept, Drive!worker.gone, Drive!worker.new,
                             Drive!worker.ctx>>
           \/ /\ Drive!worker.ctx = "stage" /\ Drive!worker.pc' = "record"
              /\ Drive!worker.todo' = {}
              /\ UNCHANGED <<Drive!worker.kept, Drive!worker.gone, Drive!worker.new,
                             Drive!worker.ctx>>
           \/ /\ Drive!worker.ctx = "failure" /\ Drive!worker.pc' = "drop"
              /\ Drive!worker.todo' = Drive!worker.todo \ {Drive!worker.new}
              /\ UNCHANGED <<Drive!worker.kept, Drive!worker.gone, Drive!worker.new,
                             Drive!worker.ctx>>
           \/ /\ Drive!worker.pc' = "done" /\ Drive!worker.new' = Drive!NoFile
              /\ Drive!worker.kept' = {}
              /\ Drive!worker.todo' = {} /\ Drive!worker.gone' = {}
              /\ Drive!worker.ctx = "failure" /\ Drive!worker.todo \ {Drive!worker.new} = {}
           \/ Drive!worker.pc' = "done" /\ Drive!worker.new' = Drive!NoFile
              /\ Drive!worker.kept' = {} /\ Drive!worker.todo' = {} /\ Drive!worker.gone' = {}
        /\ handles' \in {handles, handles \ {Drive!worker.new}}
        /\ lock' \in {lock, Drive!Free}
        /\ UNCHANGED <<drive, uploads, pdf, shown, cleaned, abandoned>>
    <2>r. Drive!Raises => /\ task' \in [Drive!Tasks -> Drive!TaskStates]
                          /\ \A u \in Drive!Tasks \ {Drive!Worker} : task'[u] = task[u]
                          /\ Drive!worker.pc' = "done" /\ Drive!worker.new' = Drive!NoFile
                          /\ Drive!worker.kept' = {}
                          /\ Drive!worker.todo' = {} /\ Drive!worker.gone' = {}
                          /\ card' \in [kind : Drive!Kinds, outcome : Drive!Outcomes,
                                        read : BOOLEAN]
                          /\ card'.kind = card.kind /\ card'.read = card.read
                          /\ lock' \in {lock, Drive!Free}
      BY <1>0, RaisesMoves
    <2>d. ASSUME NEW f, Drive!AfterDrop(f)
          PROVE  /\ task' \in [Drive!Tasks -> Drive!TaskStates]
                 /\ \A u \in Drive!Tasks \ {Drive!Worker} : task'[u] = task[u]
                 /\ \/ /\ Drive!worker.ctx = "attach" /\ Drive!worker.pc' = "generate"
                       /\ Drive!worker.todo' = {}
                       /\ UNCHANGED <<Drive!worker.kept, Drive!worker.gone, Drive!worker.new,
                                      Drive!worker.ctx>>
                    \/ /\ Drive!worker.ctx = "stage" /\ Drive!worker.pc' = "record"
                       /\ Drive!worker.todo' = {}
                       /\ UNCHANGED <<Drive!worker.kept, Drive!worker.gone, Drive!worker.new,
                                      Drive!worker.ctx>>
                    \/ /\ Drive!worker.ctx = "failure" /\ Drive!worker.pc' = "drop"
                       /\ Drive!worker.todo' = Drive!worker.todo \ {f}
                       /\ UNCHANGED <<Drive!worker.kept, Drive!worker.gone, Drive!worker.new,
                                      Drive!worker.ctx>>
                    \/ /\ Drive!worker.pc' = "done" /\ Drive!worker.new' = Drive!NoFile
                       /\ Drive!worker.kept' = {}
                       /\ Drive!worker.todo' = {} /\ Drive!worker.gone' = {}
                       /\ Drive!worker.ctx = "failure" /\ Drive!worker.todo \ {f} = {}
                 /\ lock' \in {lock, Drive!Free}
      BY <1>0, <1>q, <2>d, AfterDropMoves
    <2> QED BY <1>0, <1>1, <1>q, CardOutcomes, <2>r, <2>d
       DEF Drive!DropRemoves, Drive!history, Drive!store, Drive!book, Drive!Writes,
            Drive!Outcomes
  <1>4. /\ \A r \in Replies : Drive!ReplyFiles(r)'
        /\ \A c \in Cleanups : Drive!CleanupFiles(c)'
        /\ \A t \in Replies \cup Cleanups : Drive!At(t, "idle")'
        /\ Drive!ClicksTakeTurns'
        /\ shown = Drive!NoFile
        /\ drive \subseteq {pdf} \cup handles \cup abandoned \cup Drive!HeldBy(Drive!Worker)
        /\ drive' \subseteq {pdf'} \cup handles' \cup abandoned' \cup Drive!HeldBy(Drive!Worker)'
             => Drive!NothingForgotten'
    <2>1. drive' \subseteq drive \cup {Drive!NextFile}
      BY <1>3
    <2> QED BY <1>1, <1>3, <2>1, WorkerLeavesOthers
  <1>5. Drive!TypeOK'
    <2>0. uploads' = Drive!NextFile => Drive!NextFile \in Drive!Files
      BY <1>0 DEF Drive!NextFile, Drive!Files
    <2>1. /\ drive' \subseteq Drive!Files /\ cleaned' \subseteq Drive!Files
          /\ abandoned' \subseteq Drive!Files
          /\ pdf' \in Drive!Files \cup {Drive!NoFile}
          /\ shown' \in Drive!Files \cup {Drive!NoFile}
      BY <1>0, <1>1, <1>q, <1>3, <2>0 DEF Drive!TypeOK
    <2>2. handles' \subseteq Drive!Files /\ Drive!Cardinality(handles') <= MaxTokens
      BY <1>0, <1>3, FewerFiles, handles' \in SUBSET handles DEF Drive!TypeOK
    <2>3. lock' \in Drive!Tasks \cup {Drive!Free}
      BY <1>0, <1>3, DriveNames DEF Drive!TypeOK
    <2> QED BY <1>0, <1>3, <2>1, <2>2, <2>3 DEF Drive!TypeOK
  <1>6. Drive!NothingForgotten'
    BY <1>1, <1>q, <1>3, <1>4 DEF Drive!HeldBy, Drive!At, Drive!AtMostOne
  <1>7. Drive!ShownPdfKept'
    BY <1>1, <1>q, <1>3, <1>4 DEF Drive!DriveInductive, Drive!DriveInv, Drive!ShownPdfKept
  <1>8. Drive!ReadAfterDelivery'
    BY <1>1, <1>q, <1>3, <1>4 DEF Drive!DriveInductive, Drive!DriveInv,
         Drive!ReadAfterDelivery, Drive!DeliveryFirst
  <1>9. Drive!OnCourse'
    BY <1>3, DriveNames DEF Drive!DriveInductive, Drive!OnCourse
  <1>10. Drive!OldNews'
    BY <1>0, <1>q, <1>3, DriveNames DEF Drive!DriveInductive, Drive!OldNews, Drive!NextFile
  <1>11. Drive!DeliveryFirst'
    BY <1>0, <1>1, <1>q, <1>3, <1>4 DEF Drive!DriveInductive, Drive!DeliveryFirst
  <1>12. Drive!WorkerFiles'
    BY <1>0, <1>1, <1>q, <1>3, DriveNames
    DEF Drive!DriveInductive, Drive!WorkerFiles, Drive!AtMostOne, Drive!OldNews, Drive!NextFile
  <1> QED
    BY <1>4, <1>5, <1>6, <1>7, <1>8, <1>9, <1>10, <1>11, <1>12
       DEF Drive!DriveInductive, Drive!DriveInv

\* generate_and_upload_pdf for the review card.
LEMMA GenerateReviewPdfKeeps ==
    ASSUME Drive!DriveAssumption, Drive!DriveInductive, Drive!GenerateReviewPdf
    PROVE  Drive!DriveInductive'
PROOF
  <1> USE DEF Drive!worker
  <1>0. Drive!TypeOK /\ uploads \in 0..MaxFiles /\ MaxFiles \in Nat /\ uploads' \in 0..MaxFiles
    <2>1. uploads' = uploads \/ (uploads' = uploads + 1 /\ uploads < MaxFiles)
      BY DEF Drive!GenerateReviewPdf, Drive!UploadsFile, Drive!UploadFails, Drive!history,
           Drive!store, Drive!book, Drive!NextFile
    <2> QED BY <2>1, UploadsCount
  <1>1. Drive!worker.pc = "generate" /\ Drive!worker \in Drive!TaskStates
    BY DriveNames DEF Drive!DriveInductive, Drive!DriveInv, Drive!TypeOK,
         Drive!GenerateReviewPdf, Drive!At
  <1>3. /\ task' \in [Drive!Tasks -> Drive!TaskStates]
        /\ \A u \in Drive!Tasks \ {Drive!Worker} : task'[u] = task[u]
        /\ card' \in [kind : Drive!Kinds, outcome : Drive!Outcomes, read : BOOLEAN]
        /\ card'.kind = card.kind /\ card'.read = card.read
        /\ \/ /\ Drive!worker.pc' \in {"stage", "forget"} /\ Drive!worker.new' = Drive!NextFile
              /\ drive' = drive \cup {Drive!NextFile} /\ uploads' = Drive!NextFile
              /\ UNCHANGED abandoned
           \/ /\ Drive!worker.pc' = "record" /\ UNCHANGED Drive!worker.new
              /\ \/ UNCHANGED <<drive, uploads, abandoned>>
                 \/ /\ drive' = drive \cup {Drive!NextFile} /\ uploads' = Drive!NextFile
                    /\ abandoned' = abandoned \cup {Drive!NextFile}
        /\ UNCHANGED <<Drive!worker.kept, Drive!worker.todo, Drive!worker.gone,
                       Drive!worker.ctx>>
        /\ UNCHANGED <<pdf, handles, lock, shown, card, cleaned>>
    <2>1. ASSUME NEW f \in Drive!Files,
                 Drive!Goes(Drive!Worker, [Drive!worker EXCEPT !.pc = "stage", !.new = f])
          PROVE  /\ task' \in [Drive!Tasks -> Drive!TaskStates]
                 /\ \A u \in Drive!Tasks \ {Drive!Worker} : task'[u] = task[u]
                 /\ Drive!worker'.pc = "stage" /\ Drive!worker'.new = f
                 /\ Drive!worker'.todo = Drive!worker.todo
                 /\ Drive!worker'.kept = Drive!worker.kept
                 /\ Drive!worker'.gone = Drive!worker.gone
                 /\ Drive!worker'.ctx = Drive!worker.ctx
                 /\ Drive!worker'.pdf = Drive!worker.pdf
                 /\ Drive!worker'.handles = Drive!worker.handles
      <3> DEFINE to == [Drive!worker EXCEPT !.pc = "stage", !.new = f]
      <3>1. to \in Drive!TaskStates
        BY <1>0, <1>1, <2>1 DEF Drive!TypeOK, Drive!TaskStates, Drive!Pcs
      <3>2. /\ task' \in [Drive!Tasks -> Drive!TaskStates] /\ task'[Drive!Worker] = to
            /\ \A u \in Drive!Tasks \ {Drive!Worker} : task'[u] = task[u]
        BY <1>0, <2>1, <3>1, Moves, DriveNames
      <3>3. /\ to.pc = "stage" /\ to.new = f /\ to.todo = Drive!worker.todo
            /\ to.kept = Drive!worker.kept /\ to.gone = Drive!worker.gone
            /\ to.ctx = Drive!worker.ctx
            /\ to.pdf = Drive!worker.pdf /\ to.handles = Drive!worker.handles
        BY <1>1 DEF Drive!TaskStates
      <3> QED BY <3>2, <3>3
    <2>2. ASSUME NEW f \in Drive!Files,
                 Drive!Goes(Drive!Worker, [Drive!worker EXCEPT !.pc = "forget", !.new = f])
          PROVE  /\ task' \in [Drive!Tasks -> Drive!TaskStates]
                 /\ \A u \in Drive!Tasks \ {Drive!Worker} : task'[u] = task[u]
                 /\ Drive!worker'.pc = "forget" /\ Drive!worker'.new = f
                 /\ Drive!worker'.todo = Drive!worker.todo
                 /\ Drive!worker'.kept = Drive!worker.kept
                 /\ Drive!worker'.gone = Drive!worker.gone
                 /\ Drive!worker'.ctx = Drive!worker.ctx
                 /\ Drive!worker'.pdf = Drive!worker.pdf
                 /\ Drive!worker'.handles = Drive!worker.handles
      <3> DEFINE to == [Drive!worker EXCEPT !.pc = "forget", !.new = f]
      <3>1. to \in Drive!TaskStates
        BY <1>0, <1>1, <2>2 DEF Drive!TypeOK, Drive!TaskStates, Drive!Pcs
      <3>2. /\ task' \in [Drive!Tasks -> Drive!TaskStates] /\ task'[Drive!Worker] = to
            /\ \A u \in Drive!Tasks \ {Drive!Worker} : task'[u] = task[u]
        BY <1>0, <2>2, <3>1, Moves, DriveNames
      <3>3. /\ to.pc = "forget" /\ to.new = f /\ to.todo = Drive!worker.todo
            /\ to.kept = Drive!worker.kept /\ to.gone = Drive!worker.gone
            /\ to.ctx = Drive!worker.ctx
            /\ to.pdf = Drive!worker.pdf /\ to.handles = Drive!worker.handles
        BY <1>1 DEF Drive!TaskStates
      <3> QED BY <3>2, <3>3
    <2>3. ASSUME Drive!Goes(Drive!Worker, [Drive!worker EXCEPT !.pc = "record"])
          PROVE  /\ task' \in [Drive!Tasks -> Drive!TaskStates]
                 /\ \A u \in Drive!Tasks \ {Drive!Worker} : task'[u] = task[u]
                 /\ Drive!worker'.pc = "record" /\ Drive!worker'.new = Drive!worker.new
                 /\ Drive!worker'.todo = Drive!worker.todo
                 /\ Drive!worker'.kept = Drive!worker.kept
                 /\ Drive!worker'.gone = Drive!worker.gone
                 /\ Drive!worker'.ctx = Drive!worker.ctx
                 /\ Drive!worker'.pdf = Drive!worker.pdf
                 /\ Drive!worker'.handles = Drive!worker.handles
      <3> DEFINE to == [Drive!worker EXCEPT !.pc = "record"]
      <3>1. to \in Drive!TaskStates
        BY <1>0, <1>1, <2>3 DEF Drive!TypeOK, Drive!TaskStates, Drive!Pcs
      <3>2. /\ task' \in [Drive!Tasks -> Drive!TaskStates] /\ task'[Drive!Worker] = to
            /\ \A u \in Drive!Tasks \ {Drive!Worker} : task'[u] = task[u]
        BY <1>0, <2>3, <3>1, Moves, DriveNames
      <3>3. /\ to.pc = "record" /\ to.new = Drive!worker.new /\ to.todo = Drive!worker.todo
            /\ to.kept = Drive!worker.kept /\ to.gone = Drive!worker.gone
            /\ to.ctx = Drive!worker.ctx
            /\ to.pdf = Drive!worker.pdf /\ to.handles = Drive!worker.handles
        BY <1>1 DEF Drive!TaskStates
      <3> QED BY <3>2, <3>3
    <2>a. ASSUME NEW f \in Drive!Files, Drive!UploadsFile(f), UNCHANGED abandoned,
                 \/ Drive!Goes(Drive!Worker, [Drive!worker EXCEPT !.pc = "stage", !.new = f])
                 \/ Drive!Goes(Drive!Worker, [Drive!worker EXCEPT !.pc = "forget", !.new = f])
          PROVE  /\ task' \in [Drive!Tasks -> Drive!TaskStates]
                 /\ \A u \in Drive!Tasks \ {Drive!Worker} : task'[u] = task[u]
                 /\ Drive!worker.pc' \in {"stage", "forget"}
                 /\ Drive!worker.new' = Drive!NextFile
                 /\ drive' = drive \cup {Drive!NextFile} /\ uploads' = Drive!NextFile
                 /\ UNCHANGED <<Drive!worker.kept, Drive!worker.todo, Drive!worker.gone,
                                Drive!worker.ctx>>
      <3>1. f = Drive!NextFile /\ drive' = drive \cup {f} /\ uploads' = f
        BY <2>a DEF Drive!UploadsFile
      <3> QED BY <2>1, <2>2, <2>a, <3>1
    <2>b. ASSUME Drive!UploadFails, Drive!Goes(Drive!Worker,
                                               [Drive!worker EXCEPT !.pc = "record"])
          PROVE  /\ task' \in [Drive!Tasks -> Drive!TaskStates]
                 /\ \A u \in Drive!Tasks \ {Drive!Worker} : task'[u] = task[u]
                 /\ Drive!worker.pc' = "record" /\ UNCHANGED Drive!worker.new
                 /\ \/ UNCHANGED <<drive, uploads, abandoned>>
                    \/ /\ drive' = drive \cup {Drive!NextFile} /\ uploads' = Drive!NextFile
                       /\ abandoned' = abandoned \cup {Drive!NextFile}
                 /\ UNCHANGED <<Drive!worker.kept, Drive!worker.todo, Drive!worker.gone,
                                Drive!worker.ctx>>
      BY <2>3, <2>b DEF Drive!UploadFails, Drive!store
    <2>c. UNCHANGED <<pdf, handles, lock, shown, card, cleaned>>
      BY DEF Drive!GenerateReviewPdf, Drive!book
    <2>d. CASE Drive!UploadFails /\ Drive!Goes(Drive!Worker,
                                               [Drive!worker EXCEPT !.pc = "record"])
      BY <2>b, <2>c, <2>d, CardOutcomes
    <2>e. CASE ~(Drive!UploadFails /\ Drive!Goes(Drive!Worker,
                                                 [Drive!worker EXCEPT !.pc = "record"]))
      <3>1. \E f \in Drive!Files : /\ Drive!UploadsFile(f) /\ UNCHANGED abandoned
                                   /\ \/ Drive!Goes(Drive!Worker,
                                                    [Drive!worker EXCEPT !.pc = "stage",
                                                     !.new = f])
                                      \/ Drive!Goes(Drive!Worker,
                                                    [Drive!worker EXCEPT !.pc = "forget",
                                                     !.new = f])
        BY <2>e DEF Drive!GenerateReviewPdf
      <3> QED BY <2>a, <2>c, CardOutcomes, <3>1
    <2> QED BY <2>d, <2>e

  <1>4. /\ \A r \in Replies : Drive!ReplyFiles(r)'
        /\ \A c \in Cleanups : Drive!CleanupFiles(c)'
        /\ \A t \in Replies \cup Cleanups : Drive!At(t, "idle")'
        /\ Drive!ClicksTakeTurns'
        /\ shown = Drive!NoFile
        /\ drive \subseteq {pdf} \cup handles \cup abandoned \cup Drive!HeldBy(Drive!Worker)
        /\ drive' \subseteq {pdf'} \cup handles' \cup abandoned' \cup Drive!HeldBy(Drive!Worker)'
             => Drive!NothingForgotten'
    <2>1. drive' \subseteq drive \cup {Drive!NextFile}
      BY <1>3
    <2> QED BY <1>1, <1>3, <2>1, WorkerLeavesOthers
  <1>5. Drive!TypeOK'
    <2>0. uploads' = Drive!NextFile => Drive!NextFile \in Drive!Files
      BY <1>0 DEF Drive!NextFile, Drive!Files
    <2>1. /\ drive' \subseteq Drive!Files /\ cleaned' \subseteq Drive!Files
          /\ abandoned' \subseteq Drive!Files
          /\ pdf' \in Drive!Files \cup {Drive!NoFile}
          /\ shown' \in Drive!Files \cup {Drive!NoFile}
      BY <1>0, <1>1, <1>3, <2>0 DEF Drive!TypeOK
    <2>2. handles' \subseteq Drive!Files /\ Drive!Cardinality(handles') <= MaxTokens
      BY <1>0, <1>3 DEF Drive!TypeOK
    <2>3. lock' \in Drive!Tasks \cup {Drive!Free}
      BY <1>0, <1>3, DriveNames DEF Drive!TypeOK
    <2> QED BY <1>0, <1>3, <2>1, <2>2, <2>3 DEF Drive!TypeOK
  <1>6. Drive!NothingForgotten'
    BY <1>1, <1>3, <1>4 DEF Drive!HeldBy, Drive!At, Drive!AtMostOne
  <1>7. Drive!ShownPdfKept'
    BY <1>1, <1>3, <1>4 DEF Drive!DriveInductive, Drive!DriveInv, Drive!ShownPdfKept
  <1>8. Drive!ReadAfterDelivery'
    BY <1>1, <1>3, <1>4 DEF Drive!DriveInductive, Drive!DriveInv, Drive!ReadAfterDelivery,
         Drive!DeliveryFirst
  <1>9. Drive!OnCourse'
    BY <1>3, DriveNames DEF Drive!DriveInductive, Drive!OnCourse
  <1>10. Drive!OldNews'
    BY <1>0, <1>3, DriveNames DEF Drive!DriveInductive, Drive!OldNews, Drive!NextFile
  <1>11. Drive!DeliveryFirst'
    BY <1>0, <1>1, <1>3, <1>4 DEF Drive!DriveInductive, Drive!DeliveryFirst
  <1>12. Drive!WorkerFiles'
    BY <1>0, <1>1, <1>3, DriveNames
    DEF Drive!DriveInductive, Drive!WorkerFiles, Drive!AtMostOne, Drive!OldNews, Drive!NextFile
  <1> QED
    BY <1>4, <1>5, <1>6, <1>7, <1>8, <1>9, <1>10, <1>11, <1>12
       DEF Drive!DriveInductive, Drive!DriveInv

\* A rendering with unusable identifiers.
LEMMA InvalidReviewPdfKeeps ==
    ASSUME Drive!DriveAssumption, Drive!DriveInductive, Drive!InvalidReviewPdf
    PROVE  Drive!DriveInductive'
PROOF
  <1> USE DEF Drive!worker
  <1>0. Drive!TypeOK /\ uploads \in 0..MaxFiles /\ MaxFiles \in Nat /\ uploads' \in 0..MaxFiles
    <2>1. uploads' = uploads \/ (uploads' = uploads + 1 /\ uploads < MaxFiles)
      BY DEF Drive!InvalidReviewPdf, Drive!history, Drive!store, Drive!book, Drive!Abandons,
           Drive!Deletes, Drive!Retains, Drive!Lists, Drive!Writes, Drive!NextFile
    <2> QED BY <2>1, UploadsCount
  <1>1. Drive!worker.pc = "forget" /\ Drive!worker \in Drive!TaskStates
    BY DriveNames DEF Drive!DriveInductive, Drive!DriveInv, Drive!TypeOK,
         Drive!InvalidReviewPdf, Drive!At
  <1>q. Drive!worker.new \in Drive!Files /\ Drive!worker.new \in drive
        /\ Drive!worker.new \notin Drive!worker.kept
    BY <1>0, <1>1, DriveNames DEF Drive!DriveInductive, Drive!WorkerFiles, Drive!TypeOK
  <1>3. /\ task' \in [Drive!Tasks -> Drive!TaskStates]
        /\ \A u \in Drive!Tasks \ {Drive!Worker} : task'[u] = task[u]
        /\ card' \in [kind : Drive!Kinds, outcome : Drive!Outcomes, read : BOOLEAN]
        /\ card'.kind = card.kind /\ card'.read = card.read
        /\ Drive!worker.pc' = "record" /\ Drive!worker.new' = Drive!NoFile
        /\ handles' \in {handles, handles \cup {Drive!worker.new}}
        /\ handles' # handles => Drive!Cardinality(handles') <= MaxTokens
        /\ drive' \in {drive, drive \ {Drive!worker.new}}
        /\ \/ drive' = drive \ {Drive!worker.new} /\ UNCHANGED abandoned
           \/ Drive!worker.new \in handles' /\ UNCHANGED abandoned
           \/ abandoned' = abandoned \cup ({Drive!worker.new} \ ({pdf'} \cup handles'))
        /\ UNCHANGED <<Drive!worker.kept, Drive!worker.todo, Drive!worker.gone,
                       Drive!worker.ctx>>
        /\ UNCHANGED <<uploads, pdf, lock, shown, card, cleaned>>
    <2>1. ASSUME Drive!Goes(Drive!Worker, [Drive!worker EXCEPT !.pc = "record",
                                           !.new = Drive!NoFile])
          PROVE  /\ task' \in [Drive!Tasks -> Drive!TaskStates]
                 /\ \A u \in Drive!Tasks \ {Drive!Worker} : task'[u] = task[u]
                 /\ Drive!worker'.pc = "record" /\ Drive!worker'.new = Drive!NoFile
                 /\ Drive!worker'.todo = Drive!worker.todo
                 /\ Drive!worker'.kept = Drive!worker.kept
                 /\ Drive!worker'.gone = Drive!worker.gone
                 /\ Drive!worker'.ctx = Drive!worker.ctx
                 /\ Drive!worker'.pdf = Drive!worker.pdf
                 /\ Drive!worker'.handles = Drive!worker.handles
      <3> DEFINE to == [Drive!worker EXCEPT !.pc = "record", !.new = Drive!NoFile]
      <3>1. to \in Drive!TaskStates
        BY <1>0, <1>1, <1>q, <2>1 DEF Drive!TypeOK, Drive!TaskStates, Drive!Pcs
      <3>2. /\ task' \in [Drive!Tasks -> Drive!TaskStates] /\ task'[Drive!Worker] = to
            /\ \A u \in Drive!Tasks \ {Drive!Worker} : task'[u] = task[u]
        BY <1>0, <2>1, <3>1, Moves, DriveNames
      <3>3. /\ to.pc = "record" /\ to.new = Drive!NoFile /\ to.todo = Drive!worker.todo
            /\ to.kept = Drive!worker.kept /\ to.gone = Drive!worker.gone
            /\ to.ctx = Drive!worker.ctx
            /\ to.pdf = Drive!worker.pdf /\ to.handles = Drive!worker.handles
        BY <1>1 DEF Drive!TaskStates
      <3> QED BY <3>2, <3>3
    <2> QED BY <1>0, <1>1, <1>q, CardOutcomes, <2>1
       DEF Drive!InvalidReviewPdf, Drive!history, Drive!store, Drive!book, Drive!Abandons,
            Drive!Deletes, Drive!Retains, Drive!Lists, Drive!Writes, Drive!Outcomes
  <1>4. /\ \A r \in Replies : Drive!ReplyFiles(r)'
        /\ \A c \in Cleanups : Drive!CleanupFiles(c)'
        /\ \A t \in Replies \cup Cleanups : Drive!At(t, "idle")'
        /\ Drive!ClicksTakeTurns'
        /\ shown = Drive!NoFile
        /\ drive \subseteq {pdf} \cup handles \cup abandoned \cup Drive!HeldBy(Drive!Worker)
        /\ drive' \subseteq {pdf'} \cup handles' \cup abandoned' \cup Drive!HeldBy(Drive!Worker)'
             => Drive!NothingForgotten'
    <2>1. drive' \subseteq drive \cup {Drive!NextFile}
      BY <1>3
    <2> QED BY <1>1, <1>3, <2>1, WorkerLeavesOthers
  <1>5. Drive!TypeOK'
    <2>0. uploads' = Drive!NextFile => Drive!NextFile \in Drive!Files
      BY <1>0 DEF Drive!NextFile, Drive!Files
    <2>1. /\ drive' \subseteq Drive!Files /\ cleaned' \subseteq Drive!Files
          /\ abandoned' \subseteq Drive!Files
          /\ pdf' \in Drive!Files \cup {Drive!NoFile}
          /\ shown' \in Drive!Files \cup {Drive!NoFile}
      BY <1>0, <1>1, <1>q, <1>3, <2>0 DEF Drive!TypeOK
    <2>2. handles' \subseteq Drive!Files /\ Drive!Cardinality(handles') <= MaxTokens
      BY <1>0, <1>q, <1>3 DEF Drive!TypeOK
    <2>3. lock' \in Drive!Tasks \cup {Drive!Free}
      BY <1>0, <1>3, DriveNames DEF Drive!TypeOK
    <2> QED BY <1>0, <1>3, <2>1, <2>2, <2>3 DEF Drive!TypeOK
  <1>6. Drive!NothingForgotten'
    BY <1>1, <1>q, <1>3, <1>4 DEF Drive!HeldBy, Drive!At, Drive!AtMostOne
  <1>7. Drive!ShownPdfKept'
    BY <1>1, <1>q, <1>3, <1>4 DEF Drive!DriveInductive, Drive!DriveInv, Drive!ShownPdfKept
  <1>8. Drive!ReadAfterDelivery'
    BY <1>1, <1>q, <1>3, <1>4 DEF Drive!DriveInductive, Drive!DriveInv,
         Drive!ReadAfterDelivery, Drive!DeliveryFirst
  <1>9. Drive!OnCourse'
    BY <1>3, DriveNames DEF Drive!DriveInductive, Drive!OnCourse
  <1>10. Drive!OldNews'
    BY <1>0, <1>q, <1>3, DriveNames DEF Drive!DriveInductive, Drive!OldNews, Drive!NextFile
  <1>11. Drive!DeliveryFirst'
    BY <1>0, <1>1, <1>q, <1>3, <1>4 DEF Drive!DriveInductive, Drive!DeliveryFirst
  <1>12. Drive!WorkerFiles'
    BY <1>0, <1>1, <1>q, <1>3, DriveNames
    DEF Drive!DriveInductive, Drive!WorkerFiles, Drive!AtMostOne, Drive!OldNews, Drive!NextFile
  <1> QED
    BY <1>4, <1>5, <1>6, <1>7, <1>8, <1>9, <1>10, <1>11, <1>12
       DEF Drive!DriveInductive, Drive!DriveInv

\* _stage_review_pdf: the old PDF becomes a handle in the same write.
LEMMA StageReviewPdfKeeps ==
    ASSUME Drive!DriveAssumption, Drive!DriveInductive, Drive!StageReviewPdf
    PROVE  Drive!DriveInductive'
PROOF
  <1> USE DEF Drive!worker
  <1>0. Drive!TypeOK /\ uploads \in 0..MaxFiles /\ MaxFiles \in Nat /\ uploads' \in 0..MaxFiles
    <2>1. uploads' = uploads \/ (uploads' = uploads + 1 /\ uploads < MaxFiles)
      BY DEF Drive!StageReviewPdf, Drive!history, Drive!store, Drive!book, Drive!Replaced,
           Drive!TransitionFits, Drive!TransitionTo, Drive!Writes, Drive!NextFile
    <2> QED BY <2>1, UploadsCount
  <1>1. Drive!worker.pc = "stage" /\ Drive!worker \in Drive!TaskStates
    BY DriveNames DEF Drive!DriveInductive, Drive!DriveInv, Drive!TypeOK,
         Drive!StageReviewPdf, Drive!At
  <1>q. Drive!worker.new \in Drive!Files /\ Drive!worker.new \in drive
        /\ Drive!worker.new \notin Drive!worker.kept
        /\ drive \subseteq Drive!Files /\ Drive!NoFile \notin Drive!Files
    BY <1>0, <1>1, DriveNames DEF Drive!DriveInductive, Drive!WorkerFiles, Drive!TypeOK
  <1>3. /\ task' \in [Drive!Tasks -> Drive!TaskStates]
        /\ \A u \in Drive!Tasks \ {Drive!Worker} : task'[u] = task[u]
        /\ card' \in [kind : Drive!Kinds, outcome : Drive!Outcomes, read : BOOLEAN]
        /\ card'.kind = card.kind /\ card'.read = card.read
        /\ \/ /\ Drive!worker.pc' = "send" /\ UNCHANGED <<Drive!worker.new, Drive!worker.todo>>
              /\ pdf' = Drive!worker.new
           \/ /\ Drive!worker.pc' = "drop" /\ Drive!worker.new' = Drive!NoFile
              /\ Drive!worker.todo' = {Drive!worker.new}
              /\ Drive!worker.ctx' = "stage"
        /\ \/ UNCHANGED <<pdf, handles>>
           \/ /\ pdf' = Drive!worker.new
              /\ handles' = (handles \ {Drive!worker.new}) \cup ({pdf} \ {Drive!NoFile,
                         Drive!worker.new})
              /\ Drive!Cardinality(handles') <= MaxTokens
        /\ lock' \in {lock, Drive!Worker}
        /\ UNCHANGED <<Drive!worker.kept, Drive!worker.gone, drive, uploads, shown, card,
                       cleaned, abandoned>>
    <2>1. ASSUME Drive!Goes(Drive!Worker, [Drive!worker EXCEPT !.pc = "send", !.old = pdf])
          PROVE  /\ task' \in [Drive!Tasks -> Drive!TaskStates]
                 /\ \A u \in Drive!Tasks \ {Drive!Worker} : task'[u] = task[u]
                 /\ Drive!worker'.pc = "send" /\ Drive!worker'.old = pdf
                 /\ Drive!worker'.new = Drive!worker.new
                 /\ Drive!worker'.todo = Drive!worker.todo
                 /\ Drive!worker'.kept = Drive!worker.kept
                 /\ Drive!worker'.gone = Drive!worker.gone
                 /\ Drive!worker'.ctx = Drive!worker.ctx
                 /\ Drive!worker'.pdf = Drive!worker.pdf
                 /\ Drive!worker'.handles = Drive!worker.handles
      <3> DEFINE to == [Drive!worker EXCEPT !.pc = "send", !.old = pdf]
      <3>1. to \in Drive!TaskStates
        BY <1>0, <1>1, <1>q, <2>1 DEF Drive!TypeOK, Drive!TaskStates, Drive!Pcs
      <3>2. /\ task' \in [Drive!Tasks -> Drive!TaskStates] /\ task'[Drive!Worker] = to
            /\ \A u \in Drive!Tasks \ {Drive!Worker} : task'[u] = task[u]
        BY <1>0, <2>1, <3>1, Moves, DriveNames
      <3>3. /\ to.pc = "send" /\ to.old = pdf /\ to.new = Drive!worker.new
            /\ to.todo = Drive!worker.todo /\ to.kept = Drive!worker.kept
            /\ to.gone = Drive!worker.gone
            /\ to.ctx = Drive!worker.ctx /\ to.pdf = Drive!worker.pdf
            /\ to.handles = Drive!worker.handles
        BY <1>1 DEF Drive!TaskStates
      <3> QED BY <3>2, <3>3
    <2>2. ASSUME Drive!Goes(Drive!Worker, [Drive!worker EXCEPT !.pc = "drop",
                                           !.new = Drive!NoFile, !.todo = {Drive!worker.new},
                                           !.ctx = "stage"])
          PROVE  /\ task' \in [Drive!Tasks -> Drive!TaskStates]
                 /\ \A u \in Drive!Tasks \ {Drive!Worker} : task'[u] = task[u]
                 /\ Drive!worker'.pc = "drop" /\ Drive!worker'.new = Drive!NoFile
                 /\ Drive!worker'.todo = {Drive!worker.new}
                 /\ Drive!worker'.ctx = "stage" /\ Drive!worker'.kept = Drive!worker.kept
                 /\ Drive!worker'.gone = Drive!worker.gone
                 /\ Drive!worker'.pdf = Drive!worker.pdf
                 /\ Drive!worker'.handles = Drive!worker.handles
      <3> DEFINE to == [Drive!worker EXCEPT !.pc = "drop", !.new = Drive!NoFile,
                        !.todo = {Drive!worker.new}, !.ctx = "stage"]
      <3>1. to \in Drive!TaskStates
        BY <1>0, <1>1, <1>q, <2>2 DEF Drive!TypeOK, Drive!TaskStates, Drive!Pcs
      <3>2. /\ task' \in [Drive!Tasks -> Drive!TaskStates] /\ task'[Drive!Worker] = to
            /\ \A u \in Drive!Tasks \ {Drive!Worker} : task'[u] = task[u]
        BY <1>0, <2>2, <3>1, Moves, DriveNames
      <3>3. /\ to.pc = "drop" /\ to.new = Drive!NoFile /\ to.todo = {Drive!worker.new}
            /\ to.ctx = "stage" /\ to.kept = Drive!worker.kept /\ to.gone = Drive!worker.gone
            /\ to.pdf = Drive!worker.pdf /\ to.handles = Drive!worker.handles
        BY <1>1 DEF Drive!TaskStates
      <3> QED BY <3>2, <3>3
    <2> QED BY <1>0, <1>1, <1>q, CardOutcomes, <2>1, <2>2
       DEF Drive!StageReviewPdf, Drive!history, Drive!store, Drive!book, Drive!Replaced,
            Drive!TransitionFits, Drive!TransitionTo, Drive!Writes, Drive!Outcomes
  <1>4. /\ \A r \in Replies : Drive!ReplyFiles(r)'
        /\ \A c \in Cleanups : Drive!CleanupFiles(c)'
        /\ \A t \in Replies \cup Cleanups : Drive!At(t, "idle")'
        /\ Drive!ClicksTakeTurns'
        /\ shown = Drive!NoFile
        /\ drive \subseteq {pdf} \cup handles \cup abandoned \cup Drive!HeldBy(Drive!Worker)
        /\ drive' \subseteq {pdf'} \cup handles' \cup abandoned' \cup Drive!HeldBy(Drive!Worker)'
             => Drive!NothingForgotten'
    <2>1. drive' \subseteq drive \cup {Drive!NextFile}
      BY <1>3
    <2> QED BY <1>1, <1>3, <2>1, WorkerLeavesOthers
  <1>5. Drive!TypeOK'
    <2>0. uploads' = Drive!NextFile => Drive!NextFile \in Drive!Files
      BY <1>0 DEF Drive!NextFile, Drive!Files
    <2>1. /\ drive' \subseteq Drive!Files /\ cleaned' \subseteq Drive!Files
          /\ abandoned' \subseteq Drive!Files
          /\ pdf' \in Drive!Files \cup {Drive!NoFile}
          /\ shown' \in Drive!Files \cup {Drive!NoFile}
      BY <1>0, <1>1, <1>q, <1>3, <2>0 DEF Drive!TypeOK
    <2>2. handles' \subseteq Drive!Files /\ Drive!Cardinality(handles') <= MaxTokens
      BY <1>0, <1>q, <1>3 DEF Drive!TypeOK
    <2>3. lock' \in Drive!Tasks \cup {Drive!Free}
      BY <1>0, <1>3, DriveNames DEF Drive!TypeOK
    <2> QED BY <1>0, <1>3, <2>1, <2>2, <2>3 DEF Drive!TypeOK
  <1>6. Drive!NothingForgotten'
    BY <1>1, <1>q, <1>3, <1>4 DEF Drive!HeldBy, Drive!At, Drive!AtMostOne
  <1>7. Drive!ShownPdfKept'
    BY <1>1, <1>q, <1>3, <1>4 DEF Drive!DriveInductive, Drive!DriveInv, Drive!ShownPdfKept
  <1>8. Drive!ReadAfterDelivery'
    BY <1>1, <1>q, <1>3, <1>4 DEF Drive!DriveInductive, Drive!DriveInv,
         Drive!ReadAfterDelivery, Drive!DeliveryFirst
  <1>9. Drive!OnCourse'
    BY <1>3, DriveNames DEF Drive!DriveInductive, Drive!OnCourse
  <1>10. Drive!OldNews'
    BY <1>0, <1>q, <1>3, DriveNames DEF Drive!DriveInductive, Drive!OldNews, Drive!NextFile
  <1>11. Drive!DeliveryFirst'
    BY <1>0, <1>1, <1>q, <1>3, <1>4 DEF Drive!DriveInductive, Drive!DeliveryFirst
  <1>12. Drive!WorkerFiles'
    BY <1>0, <1>1, <1>q, <1>3, DriveNames
    DEF Drive!DriveInductive, Drive!WorkerFiles, Drive!AtMostOne, Drive!OldNews, Drive!NextFile
  <1> QED
    BY <1>4, <1>5, <1>6, <1>7, <1>8, <1>9, <1>10, <1>11, <1>12
       DEF Drive!DriveInductive, Drive!DriveInv

\* _send_interactive_card, accepted, refused or unanswered.
LEMMA SendCardKeeps ==
    ASSUME Drive!DriveAssumption, Drive!DriveInductive, Drive!SendCard
    PROVE  Drive!DriveInductive'
PROOF
  <1> USE DEF Drive!worker
  <1>0. Drive!TypeOK /\ uploads \in 0..MaxFiles /\ MaxFiles \in Nat /\ uploads' \in 0..MaxFiles
    <2>1. uploads' = uploads \/ (uploads' = uploads + 1 /\ uploads < MaxFiles)
      BY DEF Drive!SendCard, Drive!history, Drive!store, Drive!book, Drive!CardAnswered,
           Drive!NextFile
    <2> QED BY <2>1, UploadsCount
  <1>1. Drive!worker.pc = "send" /\ Drive!worker \in Drive!TaskStates
    BY DriveNames DEF Drive!DriveInductive, Drive!DriveInv, Drive!TypeOK, Drive!SendCard,
         Drive!At
  <1>q. Drive!worker.new \in Drive!Files /\ Drive!worker.new \in drive
        /\ Drive!NoFile \notin Drive!Files /\ shown = Drive!NoFile
    BY <1>0, <1>1, DriveNames DEF Drive!DriveInductive, Drive!WorkerFiles, Drive!TypeOK,
         Drive!DeliveryFirst
  <1>3. /\ task' \in [Drive!Tasks -> Drive!TaskStates]
        /\ \A u \in Drive!Tasks \ {Drive!Worker} : task'[u] = task[u]
        /\ card' \in [kind : Drive!Kinds, outcome : Drive!Outcomes, read : BOOLEAN]
        /\ card'.kind = card.kind /\ card'.read = card.read
        /\ \/ Drive!worker.pc' = "finish" /\ shown' = Drive!worker.new
           \/ /\ Drive!worker.pc' = "retire" /\ UNCHANGED <<shown, Drive!worker.new>>
           \/ Drive!worker.pc' = "done" /\ shown' \in {Drive!NoFile, Drive!worker.new}
        /\ \/ UNCHANGED <<Drive!worker.kept, Drive!worker.todo, Drive!worker.gone,
                          Drive!worker.new>>
           \/ Drive!worker.pc' = "done" /\ Drive!worker.new' = Drive!NoFile
              /\ Drive!worker.kept' = {} /\ Drive!worker.todo' = {} /\ Drive!worker.gone' = {}
        /\ lock' \in {lock, Drive!Free}
        /\ UNCHANGED <<drive, uploads, pdf, handles, cleaned, abandoned>>
    <2>1. ASSUME Drive!Goes(Drive!Worker, [Drive!worker EXCEPT !.pc = "finish"])
          PROVE  /\ task' \in [Drive!Tasks -> Drive!TaskStates]
                 /\ \A u \in Drive!Tasks \ {Drive!Worker} : task'[u] = task[u]
                 /\ Drive!worker'.pc = "finish" /\ Drive!worker'.new = Drive!worker.new
                 /\ Drive!worker'.todo = Drive!worker.todo
                 /\ Drive!worker'.kept = Drive!worker.kept
                 /\ Drive!worker'.gone = Drive!worker.gone
                 /\ Drive!worker'.ctx = Drive!worker.ctx
                 /\ Drive!worker'.pdf = Drive!worker.pdf
                 /\ Drive!worker'.handles = Drive!worker.handles
      <3> DEFINE to == [Drive!worker EXCEPT !.pc = "finish"]
      <3>1. to \in Drive!TaskStates
        BY <1>0, <1>1, <1>q, <2>1 DEF Drive!TypeOK, Drive!TaskStates, Drive!Pcs
      <3>2. /\ task' \in [Drive!Tasks -> Drive!TaskStates] /\ task'[Drive!Worker] = to
            /\ \A u \in Drive!Tasks \ {Drive!Worker} : task'[u] = task[u]
        BY <1>0, <2>1, <3>1, Moves, DriveNames
      <3>3. /\ to.pc = "finish" /\ to.new = Drive!worker.new /\ to.todo = Drive!worker.todo
            /\ to.kept = Drive!worker.kept /\ to.gone = Drive!worker.gone
            /\ to.ctx = Drive!worker.ctx
            /\ to.pdf = Drive!worker.pdf /\ to.handles = Drive!worker.handles
        BY <1>1 DEF Drive!TaskStates
      <3> QED BY <3>2, <3>3
    <2>2. ASSUME Drive!Goes(Drive!Worker, [Drive!worker EXCEPT !.pc = "retire"])
          PROVE  /\ task' \in [Drive!Tasks -> Drive!TaskStates]
                 /\ \A u \in Drive!Tasks \ {Drive!Worker} : task'[u] = task[u]
                 /\ Drive!worker'.pc = "retire" /\ Drive!worker'.new = Drive!worker.new
                 /\ Drive!worker'.todo = Drive!worker.todo
                 /\ Drive!worker'.kept = Drive!worker.kept
                 /\ Drive!worker'.gone = Drive!worker.gone
                 /\ Drive!worker'.ctx = Drive!worker.ctx
                 /\ Drive!worker'.pdf = Drive!worker.pdf
                 /\ Drive!worker'.handles = Drive!worker.handles
      <3> DEFINE to == [Drive!worker EXCEPT !.pc = "retire"]
      <3>1. to \in Drive!TaskStates
        BY <1>0, <1>1, <1>q, <2>2 DEF Drive!TypeOK, Drive!TaskStates, Drive!Pcs
      <3>2. /\ task' \in [Drive!Tasks -> Drive!TaskStates] /\ task'[Drive!Worker] = to
            /\ \A u \in Drive!Tasks \ {Drive!Worker} : task'[u] = task[u]
        BY <1>0, <2>2, <3>1, Moves, DriveNames
      <3>3. /\ to.pc = "retire" /\ to.new = Drive!worker.new /\ to.todo = Drive!worker.todo
            /\ to.kept = Drive!worker.kept /\ to.gone = Drive!worker.gone
            /\ to.ctx = Drive!worker.ctx
            /\ to.pdf = Drive!worker.pdf /\ to.handles = Drive!worker.handles
        BY <1>1 DEF Drive!TaskStates
      <3> QED BY <3>2, <3>3
    <2>r. Drive!Raises => /\ task' \in [Drive!Tasks -> Drive!TaskStates]
                          /\ \A u \in Drive!Tasks \ {Drive!Worker} : task'[u] = task[u]
                          /\ Drive!worker.pc' = "done" /\ Drive!worker.new' = Drive!NoFile
                          /\ Drive!worker.kept' = {}
                          /\ Drive!worker.todo' = {} /\ Drive!worker.gone' = {}
                          /\ card' \in [kind : Drive!Kinds, outcome : Drive!Outcomes,
                                        read : BOOLEAN]
                          /\ card'.kind = card.kind /\ card'.read = card.read
                          /\ lock' \in {lock, Drive!Free}
      BY <1>0, RaisesMoves
    <2>e. Drive!Ends(Drive!Worker) => /\ task' \in [Drive!Tasks -> Drive!TaskStates]
                                      /\ \A u \in Drive!Tasks \ {Drive!Worker} : task'[u] = task[u]
                                      /\ Drive!worker.pc' = "done"
                                      /\ Drive!worker.new' = Drive!NoFile
                                      /\ Drive!worker.kept' = {}
                                      /\ Drive!worker.todo' = {} /\ Drive!worker.gone' = {}
      BY <1>0, EndsMoves, DriveNames
    <2>a. UNCHANGED <<drive, uploads, pdf, handles, cleaned, abandoned>>
      BY DEF Drive!SendCard, Drive!history, Drive!store, Drive!book
    <2>b. CASE Drive!CardAnswered(Drive!worker.new, "accepted") /\ Drive!Goes(Drive!Worker,
                       [Drive!worker EXCEPT !.pc = "finish"])
               /\ UNCHANGED lock /\ card' = [card EXCEPT !.outcome = "confirmed"]
      BY <2>a, <2>b, <2>1, CardOutcomes DEF Drive!CardAnswered, Drive!Outcomes
    <2>c. CASE Drive!CardAnswered(Drive!worker.new, "refused") /\ Drive!Goes(Drive!Worker,
                       [Drive!worker EXCEPT !.pc = "retire"])
               /\ UNCHANGED <<lock, card>>
      BY <2>a, <2>c, <2>2, CardOutcomes DEF Drive!CardAnswered
    <2>d. CASE Drive!CardAnswered(Drive!worker.new, "none") /\ Drive!Ends(Drive!Worker)
          /\ UNCHANGED lock
               /\ card' = [card EXCEPT !.outcome = "unknown"]
      BY <2>a, <2>d, <2>e, CardOutcomes DEF Drive!CardAnswered, Drive!Outcomes
    <2>f. CASE Drive!Raises /\ UNCHANGED shown
      BY <1>q, <2>a, <2>f, <2>r
    <2> QED BY <2>b, <2>c, <2>d, <2>f DEF Drive!SendCard

  <1>4. /\ \A r \in Replies : Drive!ReplyFiles(r)'
        /\ \A c \in Cleanups : Drive!CleanupFiles(c)'
        /\ \A t \in Replies \cup Cleanups : Drive!At(t, "idle")'
        /\ Drive!ClicksTakeTurns'
        /\ shown = Drive!NoFile
        /\ drive \subseteq {pdf} \cup handles \cup abandoned \cup Drive!HeldBy(Drive!Worker)
        /\ drive' \subseteq {pdf'} \cup handles' \cup abandoned' \cup Drive!HeldBy(Drive!Worker)'
             => Drive!NothingForgotten'
    <2>1. drive' \subseteq drive \cup {Drive!NextFile}
      BY <1>3
    <2> QED BY <1>1, <1>3, <2>1, WorkerLeavesOthers
  <1>5. Drive!TypeOK'
    <2>0. uploads' = Drive!NextFile => Drive!NextFile \in Drive!Files
      BY <1>0 DEF Drive!NextFile, Drive!Files
    <2>1. /\ drive' \subseteq Drive!Files /\ cleaned' \subseteq Drive!Files
          /\ abandoned' \subseteq Drive!Files
          /\ pdf' \in Drive!Files \cup {Drive!NoFile}
          /\ shown' \in Drive!Files \cup {Drive!NoFile}
      BY <1>0, <1>1, <1>q, <1>3, <2>0 DEF Drive!TypeOK
    <2>2. handles' \subseteq Drive!Files /\ Drive!Cardinality(handles') <= MaxTokens
      BY <1>0, <1>3 DEF Drive!TypeOK
    <2>3. lock' \in Drive!Tasks \cup {Drive!Free}
      BY <1>0, <1>3, DriveNames DEF Drive!TypeOK
    <2> QED BY <1>0, <1>3, <2>1, <2>2, <2>3 DEF Drive!TypeOK
  <1>6. Drive!NothingForgotten'
    BY <1>1, <1>q, <1>3, <1>4 DEF Drive!HeldBy, Drive!At, Drive!AtMostOne
  <1>7. Drive!ShownPdfKept'
    BY <1>1, <1>q, <1>3, <1>4 DEF Drive!DriveInductive, Drive!DriveInv, Drive!ShownPdfKept
  <1>8. Drive!ReadAfterDelivery'
    BY <1>1, <1>q, <1>3, <1>4 DEF Drive!DriveInductive, Drive!DriveInv,
         Drive!ReadAfterDelivery, Drive!DeliveryFirst
  <1>9. Drive!OnCourse'
    BY <1>3, DriveNames DEF Drive!DriveInductive, Drive!OnCourse
  <1>10. Drive!OldNews'
    BY <1>0, <1>q, <1>3, DriveNames DEF Drive!DriveInductive, Drive!OldNews, Drive!NextFile
  <1>11. Drive!DeliveryFirst'
    BY <1>0, <1>1, <1>q, <1>3, <1>4 DEF Drive!DriveInductive, Drive!DeliveryFirst
  <1>12. Drive!WorkerFiles'
    BY <1>0, <1>1, <1>q, <1>3, DriveNames
    DEF Drive!DriveInductive, Drive!WorkerFiles, Drive!AtMostOne, Drive!OldNews, Drive!NextFile
  <1> QED
    BY <1>4, <1>5, <1>6, <1>7, <1>8, <1>9, <1>10, <1>11, <1>12
       DEF Drive!DriveInductive, Drive!DriveInv

\* _record_known_failure without a staged PDF.
LEMMA RecordFailureKeeps ==
    ASSUME Drive!DriveAssumption, Drive!DriveInductive, Drive!RecordFailure
    PROVE  Drive!DriveInductive'
PROOF
  <1> USE DEF Drive!worker
  <1>0. Drive!TypeOK /\ uploads \in 0..MaxFiles /\ MaxFiles \in Nat /\ uploads' \in 0..MaxFiles
    <2>1. uploads' = uploads \/ (uploads' = uploads + 1 /\ uploads < MaxFiles)
      BY DEF Drive!RecordFailure, Drive!history, Drive!store, Drive!book, Drive!NextFile
    <2> QED BY <2>1, UploadsCount
  <1>1. Drive!worker.pc = "record" /\ Drive!worker \in Drive!TaskStates
    BY DriveNames DEF Drive!DriveInductive, Drive!DriveInv, Drive!TypeOK, Drive!RecordFailure,
         Drive!At
  <1>3. /\ task' \in [Drive!Tasks -> Drive!TaskStates]
        /\ \A u \in Drive!Tasks \ {Drive!Worker} : task'[u] = task[u]
        /\ card' \in [kind : Drive!Kinds, outcome : Drive!Outcomes, read : BOOLEAN]
        /\ card'.kind = card.kind /\ card'.read = card.read
        /\ \/ /\ Drive!worker.pc' = "drop" /\ Drive!worker.todo' = Drive!worker.kept
              /\ Drive!worker.kept' = {}
              /\ Drive!worker.ctx' = "failure"
              /\ UNCHANGED <<Drive!worker.new, Drive!worker.gone>>
           \/ Drive!worker.pc' = "done" /\ Drive!worker.new' = Drive!NoFile
              /\ Drive!worker.kept' = {} /\ Drive!worker.todo' = {} /\ Drive!worker.gone' = {}
        /\ lock' \in {lock, Drive!Free}
        /\ UNCHANGED <<drive, uploads, pdf, handles, shown, cleaned, abandoned>>
    <2>1. ASSUME Drive!Goes(Drive!Worker, [Drive!worker EXCEPT !.pc = "drop",
                                           !.todo = Drive!worker.kept, !.kept = {},
                                           !.ctx = "failure"])
          PROVE  /\ task' \in [Drive!Tasks -> Drive!TaskStates]
                 /\ \A u \in Drive!Tasks \ {Drive!Worker} : task'[u] = task[u]
                 /\ Drive!worker'.pc = "drop" /\ Drive!worker'.todo = Drive!worker.kept
                 /\ Drive!worker'.kept = {}
                 /\ Drive!worker'.ctx = "failure" /\ Drive!worker'.new = Drive!worker.new
                 /\ Drive!worker'.gone = Drive!worker.gone
                 /\ Drive!worker'.pdf = Drive!worker.pdf
                 /\ Drive!worker'.handles = Drive!worker.handles
      <3> DEFINE to == [Drive!worker EXCEPT !.pc = "drop", !.todo = Drive!worker.kept,
                        !.kept = {}, !.ctx = "failure"]
      <3>1. to \in Drive!TaskStates
        BY <1>0, <1>1, <2>1 DEF Drive!TypeOK, Drive!TaskStates, Drive!Pcs
      <3>2. /\ task' \in [Drive!Tasks -> Drive!TaskStates] /\ task'[Drive!Worker] = to
            /\ \A u \in Drive!Tasks \ {Drive!Worker} : task'[u] = task[u]
        BY <1>0, <2>1, <3>1, Moves, DriveNames
      <3>3. /\ to.pc = "drop" /\ to.todo = Drive!worker.kept /\ to.kept = {}
            /\ to.ctx = "failure" /\ to.new = Drive!worker.new /\ to.gone = Drive!worker.gone
            /\ to.pdf = Drive!worker.pdf /\ to.handles = Drive!worker.handles
        BY <1>1 DEF Drive!TaskStates
      <3> QED BY <3>2, <3>3
    <2>r. Drive!Raises => /\ task' \in [Drive!Tasks -> Drive!TaskStates]
                          /\ \A u \in Drive!Tasks \ {Drive!Worker} : task'[u] = task[u]
                          /\ Drive!worker.pc' = "done" /\ Drive!worker.new' = Drive!NoFile
                          /\ Drive!worker.kept' = {}
                          /\ Drive!worker.todo' = {} /\ Drive!worker.gone' = {}
                          /\ card' \in [kind : Drive!Kinds, outcome : Drive!Outcomes,
                                        read : BOOLEAN]
                          /\ card'.kind = card.kind /\ card'.read = card.read
                          /\ lock' \in {lock, Drive!Free}
      BY <1>0, RaisesMoves
    <2>e. Drive!Ends(Drive!Worker) => /\ task' \in [Drive!Tasks -> Drive!TaskStates]
                                      /\ \A u \in Drive!Tasks \ {Drive!Worker} : task'[u] = task[u]
                                      /\ Drive!worker.pc' = "done"
                                      /\ Drive!worker.new' = Drive!NoFile
                                      /\ Drive!worker.kept' = {}
                                      /\ Drive!worker.todo' = {} /\ Drive!worker.gone' = {}
      BY <1>0, EndsMoves, DriveNames
    <2> QED BY <1>0, <1>1, CardOutcomes, <2>1, <2>r, <2>e
       DEF Drive!RecordFailure, Drive!history, Drive!store, Drive!book, Drive!Outcomes
  <1>4. /\ \A r \in Replies : Drive!ReplyFiles(r)'
        /\ \A c \in Cleanups : Drive!CleanupFiles(c)'
        /\ \A t \in Replies \cup Cleanups : Drive!At(t, "idle")'
        /\ Drive!ClicksTakeTurns'
        /\ shown = Drive!NoFile
        /\ drive \subseteq {pdf} \cup handles \cup abandoned \cup Drive!HeldBy(Drive!Worker)
        /\ drive' \subseteq {pdf'} \cup handles' \cup abandoned' \cup Drive!HeldBy(Drive!Worker)'
             => Drive!NothingForgotten'
    <2>1. drive' \subseteq drive \cup {Drive!NextFile}
      BY <1>3
    <2> QED BY <1>1, <1>3, <2>1, WorkerLeavesOthers
  <1>5. Drive!TypeOK'
    <2>0. uploads' = Drive!NextFile => Drive!NextFile \in Drive!Files
      BY <1>0 DEF Drive!NextFile, Drive!Files
    <2>1. /\ drive' \subseteq Drive!Files /\ cleaned' \subseteq Drive!Files
          /\ abandoned' \subseteq Drive!Files
          /\ pdf' \in Drive!Files \cup {Drive!NoFile}
          /\ shown' \in Drive!Files \cup {Drive!NoFile}
      BY <1>0, <1>1, <1>3, <2>0 DEF Drive!TypeOK
    <2>2. handles' \subseteq Drive!Files /\ Drive!Cardinality(handles') <= MaxTokens
      BY <1>0, <1>3 DEF Drive!TypeOK
    <2>3. lock' \in Drive!Tasks \cup {Drive!Free}
      BY <1>0, <1>3, DriveNames DEF Drive!TypeOK
    <2> QED BY <1>0, <1>3, <2>1, <2>2, <2>3 DEF Drive!TypeOK
  <1>6. Drive!NothingForgotten'
    BY <1>1, <1>3, <1>4 DEF Drive!HeldBy, Drive!At, Drive!AtMostOne
  <1>7. Drive!ShownPdfKept'
    BY <1>1, <1>3, <1>4 DEF Drive!DriveInductive, Drive!DriveInv, Drive!ShownPdfKept
  <1>8. Drive!ReadAfterDelivery'
    BY <1>1, <1>3, <1>4 DEF Drive!DriveInductive, Drive!DriveInv, Drive!ReadAfterDelivery,
         Drive!DeliveryFirst
  <1>9. Drive!OnCourse'
    BY <1>3, DriveNames DEF Drive!DriveInductive, Drive!OnCourse
  <1>10. Drive!OldNews'
    BY <1>0, <1>3, DriveNames DEF Drive!DriveInductive, Drive!OldNews, Drive!NextFile
  <1>11. Drive!DeliveryFirst'
    BY <1>0, <1>1, <1>3, <1>4 DEF Drive!DriveInductive, Drive!DeliveryFirst
  <1>12. Drive!WorkerFiles'
    BY <1>0, <1>1, <1>3, DriveNames
    DEF Drive!DriveInductive, Drive!WorkerFiles, Drive!AtMostOne, Drive!OldNews, Drive!NextFile
  <1> QED
    BY <1>4, <1>5, <1>6, <1>7, <1>8, <1>9, <1>10, <1>11, <1>12
       DEF Drive!DriveInductive, Drive!DriveInv

\* _retire_unpublished_pdf.
LEMMA RetireUnpublishedPdfKeeps ==
    ASSUME Drive!DriveAssumption, Drive!DriveInductive, Drive!RetireUnpublishedPdf
    PROVE  Drive!DriveInductive'
PROOF
  <1> USE DEF Drive!worker
  <1>0. Drive!TypeOK /\ uploads \in 0..MaxFiles /\ MaxFiles \in Nat /\ uploads' \in 0..MaxFiles
    <2>1. uploads' = uploads \/ (uploads' = uploads + 1 /\ uploads < MaxFiles)
      BY DEF Drive!RetireUnpublishedPdf, Drive!history, Drive!store, Drive!book, Drive!Lists,
           Drive!Writes, Drive!NextFile
    <2> QED BY <2>1, UploadsCount
  <1>1. Drive!worker.pc = "retire" /\ Drive!worker \in Drive!TaskStates
    BY DriveNames DEF Drive!DriveInductive, Drive!DriveInv, Drive!TypeOK,
         Drive!RetireUnpublishedPdf, Drive!At
  <1>q. Drive!worker.new \in Drive!Files /\ Drive!worker.new \in drive
    BY <1>0, <1>1, DriveNames DEF Drive!DriveInductive, Drive!WorkerFiles, Drive!TypeOK
  <1>3. /\ task' \in [Drive!Tasks -> Drive!TaskStates]
        /\ \A u \in Drive!Tasks \ {Drive!Worker} : task'[u] = task[u]
        /\ card' \in [kind : Drive!Kinds, outcome : Drive!Outcomes, read : BOOLEAN]
        /\ card'.kind = card.kind /\ card'.read = card.read
        /\ \/ /\ Drive!worker.pc' = "drop"
              /\ Drive!worker.todo' = Drive!worker.kept \cup {Drive!worker.new}
              /\ Drive!worker.kept' = {}
              /\ Drive!worker.ctx' = "failure" /\ Drive!worker.new' = Drive!NoFile
              /\ UNCHANGED Drive!worker.gone
              /\ handles' = handles \cup {Drive!worker.new}
           \/ Drive!worker.pc' = "done" /\ Drive!worker.new' = Drive!NoFile
              /\ Drive!worker.kept' = {} /\ Drive!worker.todo' = {} /\ Drive!worker.gone' = {}
        /\ \/ UNCHANGED <<pdf, handles>>
           \/ /\ handles' = handles \cup {Drive!worker.new}
              /\ Drive!Cardinality(handles') <= MaxTokens
              /\ pdf' = IF pdf = Drive!worker.new THEN Drive!NoFile ELSE pdf
        /\ lock' \in {lock, Drive!Free}
        /\ UNCHANGED <<drive, uploads, shown, cleaned, abandoned>>
    <2>1. ASSUME Drive!Goes(Drive!Worker, [Drive!worker EXCEPT !.pc = "drop",
                                           !.new = Drive!NoFile, !.kept = {},
                                           !.todo = Drive!worker.kept \cup {Drive!worker.new},
                                           !.ctx = "failure"])
          PROVE  /\ task' \in [Drive!Tasks -> Drive!TaskStates]
                 /\ \A u \in Drive!Tasks \ {Drive!Worker} : task'[u] = task[u]
                 /\ Drive!worker'.pc = "drop" /\ Drive!worker'.new = Drive!NoFile
                 /\ Drive!worker'.kept = {}
                 /\ Drive!worker'.todo = Drive!worker.kept \cup {Drive!worker.new}
                 /\ Drive!worker'.ctx = "failure" /\ Drive!worker'.gone = Drive!worker.gone
                 /\ Drive!worker'.pdf = Drive!worker.pdf
                 /\ Drive!worker'.handles = Drive!worker.handles
      <3> DEFINE to == [Drive!worker EXCEPT !.pc = "drop", !.new = Drive!NoFile, !.kept = {},
                        !.todo = Drive!worker.kept \cup {Drive!worker.new}, !.ctx = "failure"]
      <3>1. to \in Drive!TaskStates
        BY <1>0, <1>1, <1>q, <2>1 DEF Drive!TypeOK, Drive!TaskStates, Drive!Pcs
      <3>2. /\ task' \in [Drive!Tasks -> Drive!TaskStates] /\ task'[Drive!Worker] = to
            /\ \A u \in Drive!Tasks \ {Drive!Worker} : task'[u] = task[u]
        BY <1>0, <2>1, <3>1, Moves, DriveNames
      <3>3. /\ to.pc = "drop" /\ to.new = Drive!NoFile /\ to.kept = {}
            /\ to.todo = Drive!worker.kept \cup {Drive!worker.new} /\ to.ctx = "failure"
            /\ to.gone = Drive!worker.gone
            /\ to.pdf = Drive!worker.pdf /\ to.handles = Drive!worker.handles
        BY <1>1 DEF Drive!TaskStates
      <3> QED BY <3>2, <3>3
    <2>r. Drive!Raises => /\ task' \in [Drive!Tasks -> Drive!TaskStates]
                          /\ \A u \in Drive!Tasks \ {Drive!Worker} : task'[u] = task[u]
                          /\ Drive!worker.pc' = "done" /\ Drive!worker.new' = Drive!NoFile
                          /\ Drive!worker.kept' = {}
                          /\ Drive!worker.todo' = {} /\ Drive!worker.gone' = {}
                          /\ card' \in [kind : Drive!Kinds, outcome : Drive!Outcomes,
                                        read : BOOLEAN]
                          /\ card'.kind = card.kind /\ card'.read = card.read
                          /\ lock' \in {lock, Drive!Free}
      BY <1>0, RaisesMoves
    <2> QED BY <1>0, <1>1, <1>q, CardOutcomes, <2>1, <2>r
       DEF Drive!RetireUnpublishedPdf, Drive!history, Drive!store, Drive!book, Drive!Lists,
            Drive!Writes, Drive!Outcomes
  <1>4. /\ \A r \in Replies : Drive!ReplyFiles(r)'
        /\ \A c \in Cleanups : Drive!CleanupFiles(c)'
        /\ \A t \in Replies \cup Cleanups : Drive!At(t, "idle")'
        /\ Drive!ClicksTakeTurns'
        /\ shown = Drive!NoFile
        /\ drive \subseteq {pdf} \cup handles \cup abandoned \cup Drive!HeldBy(Drive!Worker)
        /\ drive' \subseteq {pdf'} \cup handles' \cup abandoned' \cup Drive!HeldBy(Drive!Worker)'
             => Drive!NothingForgotten'
    <2>1. drive' \subseteq drive \cup {Drive!NextFile}
      BY <1>3
    <2> QED BY <1>1, <1>3, <2>1, WorkerLeavesOthers
  <1>5. Drive!TypeOK'
    <2>0. uploads' = Drive!NextFile => Drive!NextFile \in Drive!Files
      BY <1>0 DEF Drive!NextFile, Drive!Files
    <2>1. /\ drive' \subseteq Drive!Files /\ cleaned' \subseteq Drive!Files
          /\ abandoned' \subseteq Drive!Files
          /\ pdf' \in Drive!Files \cup {Drive!NoFile}
          /\ shown' \in Drive!Files \cup {Drive!NoFile}
      BY <1>0, <1>1, <1>q, <1>3, <2>0 DEF Drive!TypeOK
    <2>2. handles' \subseteq Drive!Files /\ Drive!Cardinality(handles') <= MaxTokens
      BY <1>0, <1>q, <1>3 DEF Drive!TypeOK
    <2>3. lock' \in Drive!Tasks \cup {Drive!Free}
      BY <1>0, <1>3, DriveNames DEF Drive!TypeOK
    <2> QED BY <1>0, <1>3, <2>1, <2>2, <2>3 DEF Drive!TypeOK
  <1>6. Drive!NothingForgotten'
    BY <1>1, <1>q, <1>3, <1>4 DEF Drive!HeldBy, Drive!At, Drive!AtMostOne
  <1>7. Drive!ShownPdfKept'
    BY <1>1, <1>q, <1>3, <1>4 DEF Drive!DriveInductive, Drive!DriveInv, Drive!ShownPdfKept
  <1>8. Drive!ReadAfterDelivery'
    BY <1>1, <1>q, <1>3, <1>4 DEF Drive!DriveInductive, Drive!DriveInv,
         Drive!ReadAfterDelivery, Drive!DeliveryFirst
  <1>9. Drive!OnCourse'
    BY <1>3, DriveNames DEF Drive!DriveInductive, Drive!OnCourse
  <1>10. Drive!OldNews'
    BY <1>0, <1>q, <1>3, DriveNames DEF Drive!DriveInductive, Drive!OldNews, Drive!NextFile
  <1>11. Drive!DeliveryFirst'
    BY <1>0, <1>1, <1>q, <1>3, <1>4 DEF Drive!DriveInductive, Drive!DeliveryFirst
  <1>12. Drive!WorkerFiles'
    BY <1>0, <1>1, <1>q, <1>3, DriveNames
    DEF Drive!DriveInductive, Drive!WorkerFiles, Drive!AtMostOne, Drive!OldNews, Drive!NextFile
  <1> QED
    BY <1>4, <1>5, <1>6, <1>7, <1>8, <1>9, <1>10, <1>11, <1>12
       DEF Drive!DriveInductive, Drive!DriveInv

-----------------------------------------------------------------------------
(* The clicks on the card.                                                  *)

\* A click reads the book at once and queues for the lock.
LEMMA ClickKeeps ==
    ASSUME Drive!DriveAssumption, Drive!DriveInductive, NEW t \in Replies \cup Cleanups,
           Drive!At(t, "idle"), shown # Drive!NoFile,
           Drive!Goes(t, [task[t] EXCEPT !.pc = "queued", !.pdf = pdf, !.handles = handles]),
           UNCHANGED <<Drive!store, Drive!book, lock, shown, card, Drive!history>>
    PROVE  Drive!DriveInductive'
PROOF
  <1>0. Drive!TypeOK /\ t \in Drive!Tasks /\ t # Drive!Worker
        /\ task[t] \in Drive!TaskStates /\ task[t].pc = "idle"
    BY DriveNames DEF Drive!DriveInductive, Drive!DriveInv, Drive!TypeOK, Drive!At
  <1>1. /\ task' \in [Drive!Tasks -> Drive!TaskStates]
        /\ \A u \in Drive!Tasks \ {t} : task'[u] = task[u]
        /\ task'[t].pc = "queued" /\ task'[t].new = task[t].new /\ task'[t].todo = task[t].todo
        /\ task'[t].kept = task[t].kept /\ task'[t].gone = task[t].gone
    <2> DEFINE to == [task[t] EXCEPT !.pc = "queued", !.pdf = pdf, !.handles = handles]
    <2>1. pdf \in Drive!Files \cup {Drive!NoFile} /\ handles \in SUBSET Drive!Files
      BY <1>0 DEF Drive!TypeOK
    <2>2. to \in Drive!TaskStates
      BY <1>0, <2>1 DEF Drive!TaskStates, Drive!Pcs
    <2>3. /\ to.pc = "queued" /\ to.new = task[t].new /\ to.todo = task[t].todo
          /\ to.kept = task[t].kept /\ to.gone = task[t].gone
      BY <1>0 DEF Drive!TaskStates
    <2> QED BY <1>0, <2>2, <2>3, Moves
  <1>2. UNCHANGED <<drive, uploads, pdf, handles, lock, shown, card, cleaned, abandoned>>
    BY DEF Drive!store, Drive!book, Drive!history
  <1>3. task'[Drive!Worker] = task[Drive!Worker]
    BY <1>0, <1>1, DriveNames
  <1>4. Drive!TypeOK'
    BY <1>0, <1>1, <1>2 DEF Drive!TypeOK
  <1>5. Drive!NothingForgotten'
    <2>1. \A u \in Drive!Tasks : Drive!HeldBy(u)' = Drive!HeldBy(u)
      BY <1>0, <1>1 DEF Drive!HeldBy, Drive!At
    <2> QED BY <1>2, <2>1 DEF Drive!DriveInductive, Drive!DriveInv, Drive!NothingForgotten
  <1>6. Drive!ShownPdfKept' /\ Drive!ReadAfterDelivery'
    BY <1>2 DEF Drive!DriveInductive, Drive!DriveInv, Drive!ShownPdfKept,
         Drive!ReadAfterDelivery
  <1>7. Drive!OnCourse'
    BY <1>1, <1>3, DriveNames DEF Drive!DriveInductive, Drive!OnCourse, Drive!worker
  <1>8. Drive!OldNews'
    BY <1>0, <1>1, <1>2 DEF Drive!DriveInductive, Drive!OldNews
  <1>9. Drive!DeliveryFirst'
    BY <1>2, <1>3 DEF Drive!DriveInductive, Drive!DeliveryFirst, Drive!worker
  <1>10. Drive!WorkerFiles'
    BY <1>2, <1>3 DEF Drive!DriveInductive, Drive!WorkerFiles, Drive!worker
  <1>11. Drive!ClicksTakeTurns'
    BY <1>0, <1>1, <1>2, DriveNames DEF Drive!DriveInductive, Drive!ClicksTakeTurns, Drive!At
  <1>12. \A r \in Replies : Drive!ReplyFiles(r)'
    BY <1>0, <1>1, <1>2, DriveNames DEF Drive!DriveInductive, Drive!ReplyFiles
  <1>13. \A c \in Cleanups : Drive!CleanupFiles(c)'
    BY <1>0, <1>1, <1>2, DriveNames DEF Drive!DriveInductive, Drive!CleanupFiles
  <1> QED
    BY <1>4, <1>5, <1>6, <1>7, <1>8, <1>9, <1>10, <1>11, <1>12, <1>13
    DEF Drive!DriveInductive, Drive!DriveInv

\* process_pdf_generation_and_reply takes the resource lock.
LEMMA BeginReplyKeeps ==
    ASSUME Drive!DriveAssumption, Drive!DriveInductive, NEW r \in Replies, Drive!BeginReply(r)
    PROVE  Drive!DriveInductive'
PROOF
  <1>0. Drive!TypeOK /\ uploads \in 0..MaxFiles /\ MaxFiles \in Nat /\ uploads' \in 0..MaxFiles
    <2>1. uploads' = uploads \/ (uploads' = uploads + 1 /\ uploads < MaxFiles)
      BY DEF Drive!BeginReply, Drive!history, Drive!store, Drive!book, Drive!NextFile
    <2> QED BY <2>1, UploadsCount
  <1>1. /\ task[r].pc = "queued" /\ task[r] \in Drive!TaskStates /\ r \in Drive!Tasks
        /\ lock = Drive!Free /\ r # Drive!Worker
    BY DriveNames DEF Drive!DriveInductive, Drive!DriveInv, Drive!TypeOK, Drive!BeginReply,
         Drive!At, Drive!ClicksTakeTurns
  <1>3. /\ task' \in [Drive!Tasks -> Drive!TaskStates]
        /\ \A u \in Drive!Tasks \ {r} : task'[u] = task[u]
        /\ task'[r].pc = "generate" /\ lock' = r
        /\ UNCHANGED <<task[r].new, task[r].todo, task[r].kept, task[r].gone>>
        /\ UNCHANGED <<drive, uploads, pdf, handles, shown, cleaned, abandoned>>
        /\ UNCHANGED card
    <2>1. ASSUME Drive!Goes(r, [task[r] EXCEPT !.pc = "generate"])
          PROVE  /\ task' \in [Drive!Tasks -> Drive!TaskStates]
                 /\ \A u \in Drive!Tasks \ {r} : task'[u] = task[u]
                 /\ task'[r].pc = "generate" /\ task'[r].new = task[r].new
                 /\ task'[r].old = task[r].old
                 /\ task'[r].todo = task[r].todo /\ task'[r].kept = task[r].kept
                 /\ task'[r].gone = task[r].gone
                 /\ task'[r].pdf = task[r].pdf /\ task'[r].handles = task[r].handles
                 /\ task'[r].ctx = task[r].ctx
      <3> DEFINE to == [task[r] EXCEPT !.pc = "generate"]
      <3>1. to \in Drive!TaskStates
        BY <1>0, <1>1, <2>1 DEF Drive!TypeOK, Drive!TaskStates, Drive!Pcs
      <3>2. /\ task' \in [Drive!Tasks -> Drive!TaskStates] /\ task'[r] = to
            /\ \A u \in Drive!Tasks \ {r} : task'[u] = task[u]
        BY <1>0, <1>1, <2>1, <3>1, Moves
      <3>3. /\ to.pc = "generate" /\ to.new = task[r].new /\ to.old = task[r].old
            /\ to.todo = task[r].todo /\ to.kept = task[r].kept /\ to.gone = task[r].gone
            /\ to.pdf = task[r].pdf /\ to.handles = task[r].handles /\ to.ctx = task[r].ctx
        BY <1>1 DEF Drive!TaskStates
      <3> QED BY <3>2, <3>3
    <2> QED BY <1>0, <1>1, <2>1 DEF Drive!BeginReply, Drive!history, Drive!store, Drive!book
  <1>4. /\ \A q \in Replies \ {r} : Drive!ReplyFiles(q)'
        /\ \A c \in Cleanups \ {r} : Drive!CleanupFiles(c)'
        /\ Drive!ClicksTakeTurns' /\ Drive!DeliveryFirst' /\ Drive!WorkerFiles'
        /\ Drive!ReadAfterDelivery'
        /\ drive \subseteq {pdf} \cup handles \cup abandoned \cup Drive!HeldBy(r)
        /\ drive' \subseteq {pdf'} \cup handles' \cup abandoned' \cup Drive!HeldBy(r)'
             => Drive!NothingForgotten'
    <2>1. drive' \subseteq drive \cup {Drive!NextFile} /\ shown' \in {shown} \cup Drive!Files
      BY <1>3
    <2>2. /\ task[r].pc \notin {"idle", "done"} /\ lock \in {r, Drive!Free}
          /\ \/ lock' = r
             \/ lock' = Drive!Free /\ task'[r].pc = "done"
      BY <1>1, <1>3
    <2> QED BY <1>3, <2>1, <2>2, HolderLeavesOthers
  <1>5. Drive!TypeOK'
    <2>0. uploads' = Drive!NextFile => Drive!NextFile \in Drive!Files
      BY <1>0 DEF Drive!NextFile, Drive!Files
    <2>1. /\ drive' \subseteq Drive!Files /\ cleaned' \subseteq Drive!Files
          /\ abandoned' \subseteq Drive!Files
          /\ pdf' \in Drive!Files \cup {Drive!NoFile}
          /\ shown' \in Drive!Files \cup {Drive!NoFile}
      BY <1>0, <1>1, <1>3, <2>0 DEF Drive!TypeOK
    <2>2. handles' \subseteq Drive!Files /\ Drive!Cardinality(handles') <= MaxTokens
      BY <1>0, <1>3 DEF Drive!TypeOK
    <2>3. lock' \in Drive!Tasks \cup {Drive!Free}
      BY <1>1, <1>3
    <2>4. card' \in [kind : Drive!Kinds, outcome : Drive!Outcomes, read : BOOLEAN]
      BY <1>0, <1>3 DEF Drive!TypeOK
    <2> QED BY <1>0, <1>3, <2>1, <2>2, <2>3, <2>4 DEF Drive!TypeOK
  <1>6. Drive!NothingForgotten'
    BY <1>1, <1>3, <1>4 DEF Drive!HeldBy, Drive!At
  <1>7. Drive!ShownPdfKept'
    BY <1>1, <1>3 DEF Drive!DriveInductive, Drive!DriveInv, Drive!ShownPdfKept
  <1>8. Drive!OnCourse'
    BY <1>1, <1>3, DriveNames DEF Drive!DriveInductive, Drive!OnCourse, Drive!worker
  <1>9. Drive!OldNews'
    BY <1>0, <1>1, <1>3 DEF Drive!DriveInductive, Drive!OldNews, Drive!NextFile
  <1>10. Drive!ReplyFiles(r)'
    BY <1>0, <1>1, <1>3 DEF Drive!DriveInductive, Drive!ReplyFiles, Drive!OldNews,
         Drive!NextFile, Drive!AtMostOne
  <1> QED
    BY <1>4, <1>5, <1>6, <1>7, <1>8, <1>9, <1>10, DriveNames
       DEF Drive!DriveInductive, Drive!DriveInv

\* Its rendering: nobody has seen the new file.
LEMMA GenerateReplyPdfKeeps ==
    ASSUME Drive!DriveAssumption, Drive!DriveInductive, NEW r \in Replies,
           Drive!GenerateReplyPdf(r)
    PROVE  Drive!DriveInductive'
PROOF
  <1>0. Drive!TypeOK /\ uploads \in 0..MaxFiles /\ MaxFiles \in Nat /\ uploads' \in 0..MaxFiles
    <2>1. uploads' = uploads \/ (uploads' = uploads + 1 /\ uploads < MaxFiles)
      BY DEF Drive!GenerateReplyPdf, Drive!UploadsFile, Drive!UploadFails, Drive!Finishes,
           Drive!Releases, Drive!history, Drive!store, Drive!book, Drive!NextFile
    <2> QED BY <2>1, UploadsCount
  <1>1. /\ task[r].pc = "generate" /\ task[r] \in Drive!TaskStates /\ r \in Drive!Tasks
        /\ lock = r /\ r # Drive!Worker
    BY DriveNames DEF Drive!DriveInductive, Drive!DriveInv, Drive!TypeOK,
         Drive!GenerateReplyPdf, Drive!At, Drive!ClicksTakeTurns
  <1>3. /\ task' \in [Drive!Tasks -> Drive!TaskStates]
        /\ \A u \in Drive!Tasks \ {r} : task'[u] = task[u]
        /\ \/ /\ task'[r].pc \in {"stage", "forget"} /\ task'[r].new = Drive!NextFile
              /\ lock' = lock
              /\ UNCHANGED <<task[r].kept, task[r].gone, task[r].todo>>
              /\ drive' = drive \cup {Drive!NextFile} /\ uploads' = Drive!NextFile
              /\ UNCHANGED abandoned
           \/ /\ task'[r].pc = "done" /\ task'[r].new = Drive!NoFile /\ task'[r].kept = {}
              /\ task'[r].todo = {} /\ task'[r].gone = {}
              /\ lock' = Drive!Free
              /\ \/ UNCHANGED <<drive, uploads, abandoned>>
                 \/ /\ drive' = drive \cup {Drive!NextFile} /\ uploads' = Drive!NextFile
                    /\ abandoned' = abandoned \cup {Drive!NextFile}
        /\ UNCHANGED <<pdf, handles, shown, cleaned>>
        /\ UNCHANGED card
    <2>1. ASSUME NEW f \in Drive!Files,
                 Drive!Goes(r, [task[r] EXCEPT !.pc = "stage", !.new = f])
          PROVE  /\ task' \in [Drive!Tasks -> Drive!TaskStates]
                 /\ \A u \in Drive!Tasks \ {r} : task'[u] = task[u]
                 /\ task'[r].pc = "stage" /\ task'[r].new = f /\ task'[r].old = task[r].old
                 /\ task'[r].todo = task[r].todo /\ task'[r].kept = task[r].kept
                 /\ task'[r].gone = task[r].gone
                 /\ task'[r].pdf = task[r].pdf /\ task'[r].handles = task[r].handles
                 /\ task'[r].ctx = task[r].ctx
      <3> DEFINE to == [task[r] EXCEPT !.pc = "stage", !.new = f]
      <3>1. to \in Drive!TaskStates
        BY <1>0, <1>1, <2>1 DEF Drive!TypeOK, Drive!TaskStates, Drive!Pcs
      <3>2. /\ task' \in [Drive!Tasks -> Drive!TaskStates] /\ task'[r] = to
            /\ \A u \in Drive!Tasks \ {r} : task'[u] = task[u]
        BY <1>0, <1>1, <2>1, <3>1, Moves
      <3>3. /\ to.pc = "stage" /\ to.new = f /\ to.old = task[r].old
            /\ to.todo = task[r].todo /\ to.kept = task[r].kept /\ to.gone = task[r].gone
            /\ to.pdf = task[r].pdf /\ to.handles = task[r].handles /\ to.ctx = task[r].ctx
        BY <1>1 DEF Drive!TaskStates
      <3> QED BY <3>2, <3>3
    <2>2. ASSUME NEW f \in Drive!Files,
                 Drive!Goes(r, [task[r] EXCEPT !.pc = "forget", !.new = f])
          PROVE  /\ task' \in [Drive!Tasks -> Drive!TaskStates]
                 /\ \A u \in Drive!Tasks \ {r} : task'[u] = task[u]
                 /\ task'[r].pc = "forget" /\ task'[r].new = f /\ task'[r].old = task[r].old
                 /\ task'[r].todo = task[r].todo /\ task'[r].kept = task[r].kept
                 /\ task'[r].gone = task[r].gone
                 /\ task'[r].pdf = task[r].pdf /\ task'[r].handles = task[r].handles
                 /\ task'[r].ctx = task[r].ctx
      <3> DEFINE to == [task[r] EXCEPT !.pc = "forget", !.new = f]
      <3>1. to \in Drive!TaskStates
        BY <1>0, <1>1, <2>2 DEF Drive!TypeOK, Drive!TaskStates, Drive!Pcs
      <3>2. /\ task' \in [Drive!Tasks -> Drive!TaskStates] /\ task'[r] = to
            /\ \A u \in Drive!Tasks \ {r} : task'[u] = task[u]
        BY <1>0, <1>1, <2>2, <3>1, Moves
      <3>3. /\ to.pc = "forget" /\ to.new = f /\ to.old = task[r].old
            /\ to.todo = task[r].todo /\ to.kept = task[r].kept /\ to.gone = task[r].gone
            /\ to.pdf = task[r].pdf /\ to.handles = task[r].handles /\ to.ctx = task[r].ctx
        BY <1>1 DEF Drive!TaskStates
      <3> QED BY <3>2, <3>3
    <2>e. Drive!Ends(r) => /\ task' \in [Drive!Tasks -> Drive!TaskStates]
                           /\ \A u \in Drive!Tasks \ {r} : task'[u] = task[u]
                           /\ task'[r].pc = "done" /\ task'[r].new = Drive!NoFile
                           /\ task'[r].kept = {} /\ task'[r].todo = {} /\ task'[r].gone = {}
      BY <1>0, <1>1, EndsMoves
    <2>a. ASSUME NEW f \in Drive!Files, Drive!UploadsFile(f), UNCHANGED <<lock, abandoned>>,
                 \/ Drive!Goes(r, [task[r] EXCEPT !.pc = "stage", !.new = f])
                 \/ Drive!Goes(r, [task[r] EXCEPT !.pc = "forget", !.new = f])
          PROVE  /\ task' \in [Drive!Tasks -> Drive!TaskStates]
                 /\ \A u \in Drive!Tasks \ {r} : task'[u] = task[u]
                 /\ task'[r].pc \in {"stage", "forget"} /\ task'[r].new = Drive!NextFile
                 /\ UNCHANGED <<task[r].kept, task[r].gone, task[r].todo>>
                 /\ drive' = drive \cup {Drive!NextFile} /\ uploads' = Drive!NextFile
      <3>1. f = Drive!NextFile /\ drive' = drive \cup {f} /\ uploads' = f
        BY <2>a DEF Drive!UploadsFile
      <3> QED BY <2>1, <2>2, <2>a, <3>1
    <2>b. CASE Drive!UploadFails /\ Drive!Finishes(r)
      BY <2>e, <2>b DEF Drive!UploadFails, Drive!Finishes, Drive!Releases, Drive!store,
           Drive!GenerateReplyPdf, Drive!book
    <2>c. CASE ~(Drive!UploadFails /\ Drive!Finishes(r))
      <3>1. \E f \in Drive!Files : /\ Drive!UploadsFile(f) /\ UNCHANGED <<lock, abandoned>>
                                   /\ \/ Drive!Goes(r, [task[r] EXCEPT !.pc = "stage",
                                                        !.new = f])
                                      \/ Drive!Goes(r, [task[r] EXCEPT !.pc = "forget",
                                                        !.new = f])
        BY <2>c DEF Drive!GenerateReplyPdf
      <3> QED BY <2>a, <3>1 DEF Drive!GenerateReplyPdf, Drive!book
    <2> QED BY <2>b, <2>c
  <1>4. /\ \A q \in Replies \ {r} : Drive!ReplyFiles(q)'
        /\ \A c \in Cleanups \ {r} : Drive!CleanupFiles(c)'
        /\ Drive!ClicksTakeTurns' /\ Drive!DeliveryFirst' /\ Drive!WorkerFiles'
        /\ Drive!ReadAfterDelivery'
        /\ drive \subseteq {pdf} \cup handles \cup abandoned \cup Drive!HeldBy(r)
        /\ drive' \subseteq {pdf'} \cup handles' \cup abandoned' \cup Drive!HeldBy(r)'
             => Drive!NothingForgotten'
    <2>1. drive' \subseteq drive \cup {Drive!NextFile} /\ shown' \in {shown} \cup Drive!Files
      BY <1>3
    <2>2. /\ task[r].pc \notin {"idle", "done"} /\ lock \in {r, Drive!Free}
          /\ \/ lock' = r
             \/ lock' = Drive!Free /\ task'[r].pc = "done"
      BY <1>1, <1>3
    <2> QED BY <1>3, <2>1, <2>2, HolderLeavesOthers
  <1>5. Drive!TypeOK'
    <2>0. uploads' = Drive!NextFile => Drive!NextFile \in Drive!Files
      BY <1>0 DEF Drive!NextFile, Drive!Files
    <2>1. /\ drive' \subseteq Drive!Files /\ cleaned' \subseteq Drive!Files
          /\ abandoned' \subseteq Drive!Files
          /\ pdf' \in Drive!Files \cup {Drive!NoFile}
          /\ shown' \in Drive!Files \cup {Drive!NoFile}
      BY <1>0, <1>1, <1>3, <2>0 DEF Drive!TypeOK
    <2>2. handles' \subseteq Drive!Files /\ Drive!Cardinality(handles') <= MaxTokens
      BY <1>0, <1>3 DEF Drive!TypeOK
    <2>3. lock' \in Drive!Tasks \cup {Drive!Free}
      BY <1>1, <1>3
    <2>4. card' \in [kind : Drive!Kinds, outcome : Drive!Outcomes, read : BOOLEAN]
      BY <1>0, <1>3 DEF Drive!TypeOK
    <2> QED BY <1>0, <1>3, <2>1, <2>2, <2>3, <2>4 DEF Drive!TypeOK
  <1>6. Drive!NothingForgotten'
    BY <1>1, <1>3, <1>4 DEF Drive!HeldBy, Drive!At
  <1>7. Drive!ShownPdfKept'
    BY <1>1, <1>3 DEF Drive!DriveInductive, Drive!DriveInv, Drive!ShownPdfKept
  <1>8. Drive!OnCourse'
    BY <1>1, <1>3, DriveNames DEF Drive!DriveInductive, Drive!OnCourse, Drive!worker
  <1>9. Drive!OldNews'
    BY <1>0, <1>1, <1>3 DEF Drive!DriveInductive, Drive!OldNews, Drive!NextFile
  <1>10. Drive!ReplyFiles(r)'
    <2>1. Drive!NextFile # shown
      BY <1>0, DriveNames DEF Drive!DriveInductive, Drive!OldNews, Drive!NextFile, Drive!NoFile
    <2>2. task[r].todo = {}
      BY <1>1 DEF Drive!DriveInductive, Drive!ReplyFiles
    <2> QED BY <1>3, <2>1, <2>2 DEF Drive!ReplyFiles
  <1> QED
    BY <1>4, <1>5, <1>6, <1>7, <1>8, <1>9, <1>10, DriveNames
       DEF Drive!DriveInductive, Drive!DriveInv

\* A rendering with unusable identifiers is deleted or reported.
LEMMA InvalidReplyPdfKeeps ==
    ASSUME Drive!DriveAssumption, Drive!DriveInductive, NEW r \in Replies,
           Drive!InvalidReplyPdf(r)
    PROVE  Drive!DriveInductive'
PROOF
  <1>0. Drive!TypeOK /\ uploads \in 0..MaxFiles /\ MaxFiles \in Nat /\ uploads' \in 0..MaxFiles
    <2>1. uploads' = uploads \/ (uploads' = uploads + 1 /\ uploads < MaxFiles)
      BY DEF Drive!InvalidReplyPdf, Drive!Finishes, Drive!Releases, Drive!history,
           Drive!store, Drive!book, Drive!Deletes, Drive!Abandons, Drive!NextFile
    <2> QED BY <2>1, UploadsCount
  <1>1. /\ task[r].pc = "forget" /\ task[r] \in Drive!TaskStates /\ r \in Drive!Tasks
        /\ lock = r /\ r # Drive!Worker
    BY DriveNames DEF Drive!DriveInductive, Drive!DriveInv, Drive!TypeOK,
         Drive!InvalidReplyPdf, Drive!At, Drive!ClicksTakeTurns
  <1>q. /\ task[r].new \in Drive!Files /\ task[r].new \in drive /\ task[r].new # shown
        /\ task[r].todo = {} /\ drive \subseteq Drive!Files /\ Drive!NoFile \notin Drive!Files
    BY <1>0, <1>1, DriveNames DEF Drive!DriveInductive, Drive!ReplyFiles, Drive!TypeOK
  <1>3. /\ task' \in [Drive!Tasks -> Drive!TaskStates]
        /\ \A u \in Drive!Tasks \ {r} : task'[u] = task[u]
        /\ task'[r].pc = "done" /\ task'[r].new = Drive!NoFile /\ task'[r].kept = {}
        /\ task'[r].todo = {} /\ task'[r].gone = {}
        /\ lock' = Drive!Free
        /\ drive' \in {drive, drive \ {task[r].new}}
        /\ \/ drive' = drive \ {task[r].new} /\ UNCHANGED abandoned
           \/ abandoned' = abandoned \cup ({task[r].new} \ ({pdf'} \cup handles'))
        /\ UNCHANGED <<uploads, pdf, handles, shown, cleaned>>
        /\ UNCHANGED card
    <2>e. Drive!Ends(r) => /\ task' \in [Drive!Tasks -> Drive!TaskStates]
                           /\ \A u \in Drive!Tasks \ {r} : task'[u] = task[u]
                           /\ task'[r].pc = "done" /\ task'[r].new = Drive!NoFile
                           /\ task'[r].kept = {} /\ task'[r].todo = {} /\ task'[r].gone = {}
      BY <1>0, <1>1, EndsMoves
    <2> QED BY <1>0, <1>1, <1>q, <2>e DEF Drive!InvalidReplyPdf, Drive!Finishes,
         Drive!Releases, Drive!history, Drive!store, Drive!book, Drive!Deletes, Drive!Abandons
  <1>4. /\ \A q \in Replies \ {r} : Drive!ReplyFiles(q)'
        /\ \A c \in Cleanups \ {r} : Drive!CleanupFiles(c)'
        /\ Drive!ClicksTakeTurns' /\ Drive!DeliveryFirst' /\ Drive!WorkerFiles'
        /\ Drive!ReadAfterDelivery'
        /\ drive \subseteq {pdf} \cup handles \cup abandoned \cup Drive!HeldBy(r)
        /\ drive' \subseteq {pdf'} \cup handles' \cup abandoned' \cup Drive!HeldBy(r)'
             => Drive!NothingForgotten'
    <2>1. drive' \subseteq drive \cup {Drive!NextFile} /\ shown' \in {shown} \cup Drive!Files
      BY <1>3, <1>q
    <2>2. /\ task[r].pc \notin {"idle", "done"} /\ lock \in {r, Drive!Free}
          /\ \/ lock' = r
             \/ lock' = Drive!Free /\ task'[r].pc = "done"
      BY <1>1, <1>3
    <2> QED BY <1>3, <2>1, <2>2, HolderLeavesOthers
  <1>5. Drive!TypeOK'
    <2>0. uploads' = Drive!NextFile => Drive!NextFile \in Drive!Files
      BY <1>0 DEF Drive!NextFile, Drive!Files
    <2>1. /\ drive' \subseteq Drive!Files /\ cleaned' \subseteq Drive!Files
          /\ abandoned' \subseteq Drive!Files
          /\ pdf' \in Drive!Files \cup {Drive!NoFile}
          /\ shown' \in Drive!Files \cup {Drive!NoFile}
      BY <1>0, <1>1, <1>q, <1>3, <2>0 DEF Drive!TypeOK
    <2>2. handles' \subseteq Drive!Files /\ Drive!Cardinality(handles') <= MaxTokens
      BY <1>0, <1>3 DEF Drive!TypeOK
    <2>3. lock' \in Drive!Tasks \cup {Drive!Free}
      BY <1>1, <1>3
    <2>4. card' \in [kind : Drive!Kinds, outcome : Drive!Outcomes, read : BOOLEAN]
      BY <1>0, <1>3 DEF Drive!TypeOK
    <2> QED BY <1>0, <1>3, <2>1, <2>2, <2>3, <2>4 DEF Drive!TypeOK
  <1>6. Drive!NothingForgotten'
    BY <1>1, <1>q, <1>3, <1>4 DEF Drive!HeldBy, Drive!At
  <1>7. Drive!ShownPdfKept'
    BY <1>1, <1>q, <1>3 DEF Drive!DriveInductive, Drive!DriveInv, Drive!ShownPdfKept
  <1>8. Drive!OnCourse'
    BY <1>1, <1>3, DriveNames DEF Drive!DriveInductive, Drive!OnCourse, Drive!worker
  <1>9. Drive!OldNews'
    BY <1>0, <1>1, <1>q, <1>3 DEF Drive!DriveInductive, Drive!OldNews, Drive!NextFile
  <1>10. Drive!ReplyFiles(r)'
    BY <1>0, <1>1, <1>q, <1>3 DEF Drive!DriveInductive, Drive!ReplyFiles, Drive!OldNews,
         Drive!NextFile, Drive!AtMostOne
  <1> QED
    BY <1>4, <1>5, <1>6, <1>7, <1>8, <1>9, <1>10, DriveNames
       DEF Drive!DriveInductive, Drive!DriveInv

\* The active PDF is switched, seen to be, or of unknown outcome.
LEMMA StageReplyPdfKeeps ==
    ASSUME Drive!DriveAssumption, Drive!DriveInductive, NEW r \in Replies,
           Drive!StageReplyPdf(r)
    PROVE  Drive!DriveInductive'
PROOF
  <1>0. Drive!TypeOK /\ uploads \in 0..MaxFiles /\ MaxFiles \in Nat /\ uploads' \in 0..MaxFiles
    <2>1. uploads' = uploads \/ (uploads' = uploads + 1 /\ uploads < MaxFiles)
      BY DEF Drive!StageReplyPdf, Drive!Finishes, Drive!Releases, Drive!history, Drive!store,
           Drive!book, Drive!Replaced, Drive!TransitionFits, Drive!TransitionTo, Drive!Writes,
           Drive!Abandons, Drive!NextFile
    <2> QED BY <2>1, UploadsCount
  <1>1. /\ task[r].pc = "stage" /\ task[r] \in Drive!TaskStates /\ r \in Drive!Tasks
        /\ lock = r /\ r # Drive!Worker
    BY DriveNames DEF Drive!DriveInductive, Drive!DriveInv, Drive!TypeOK, Drive!StageReplyPdf,
         Drive!At, Drive!ClicksTakeTurns
  <1>q. /\ task[r].new \in Drive!Files /\ task[r].new \in drive /\ task[r].new # shown
        /\ task[r].todo = {} /\ drive \subseteq Drive!Files /\ Drive!NoFile \notin Drive!Files
    BY <1>0, <1>1, DriveNames DEF Drive!DriveInductive, Drive!ReplyFiles, Drive!TypeOK
  <1>3. /\ task' \in [Drive!Tasks -> Drive!TaskStates]
        /\ \A u \in Drive!Tasks \ {r} : task'[u] = task[u]
        /\ \/ /\ task'[r].pc = "reply" /\ task'[r].old = pdf
              /\ task'[r].todo = {pdf} \ {Drive!NoFile, task[r].new}
              /\ UNCHANGED <<task[r].new, task[r].kept, task[r].gone, lock, abandoned>>
              /\ pdf' = task[r].new
              /\ handles' = (handles \ {task[r].new}) \cup ({pdf} \ {Drive!NoFile, task[r].new})
              /\ Drive!Cardinality(handles') <= MaxTokens
           \/ /\ task'[r].pc = "drop"
              /\ UNCHANGED <<task[r].new, task[r].kept, task[r].gone, task[r].todo>>
              /\ UNCHANGED <<pdf, handles, lock, abandoned>>
           \/ /\ task'[r].pc = "done" /\ task'[r].new = Drive!NoFile /\ task'[r].kept = {}
              /\ task'[r].todo = {} /\ task'[r].gone = {}
              /\ lock' = Drive!Free
              /\ abandoned' = abandoned \cup ({task[r].new} \ ({pdf'} \cup handles'))
        /\ \/ UNCHANGED <<pdf, handles>>
           \/ /\ pdf' = task[r].new
              /\ handles' = (handles \ {task[r].new}) \cup ({pdf} \ {Drive!NoFile, task[r].new})
              /\ Drive!Cardinality(handles') <= MaxTokens
        /\ UNCHANGED <<drive, uploads, shown, cleaned>>
        /\ UNCHANGED card
    <2>1. ASSUME Drive!Goes(r, [task[r] EXCEPT !.pc = "reply", !.old = pdf,
                                !.todo = Drive!Replaced(task[r].new)])
          PROVE  /\ task' \in [Drive!Tasks -> Drive!TaskStates]
                 /\ \A u \in Drive!Tasks \ {r} : task'[u] = task[u]
                 /\ task'[r].pc = "reply" /\ task'[r].old = pdf
                 /\ task'[r].todo = Drive!Replaced(task[r].new)
                 /\ task'[r].new = task[r].new /\ task'[r].kept = task[r].kept
                 /\ task'[r].gone = task[r].gone
                 /\ task'[r].pdf = task[r].pdf /\ task'[r].handles = task[r].handles
                 /\ task'[r].ctx = task[r].ctx
      <3> DEFINE to == [task[r] EXCEPT !.pc = "reply", !.old = pdf,
                        !.todo = Drive!Replaced(task[r].new)]
      <3>1. to \in Drive!TaskStates
        BY <1>0, <1>1, <1>q DEF Drive!TypeOK, Drive!TaskStates, Drive!Pcs, Drive!Replaced
      <3>2. /\ task' \in [Drive!Tasks -> Drive!TaskStates] /\ task'[r] = to
            /\ \A u \in Drive!Tasks \ {r} : task'[u] = task[u]
        BY <1>0, <1>1, <2>1, <3>1, Moves
      <3>3. /\ to.pc = "reply" /\ to.old = pdf /\ to.todo = Drive!Replaced(task[r].new)
            /\ to.new = task[r].new /\ to.kept = task[r].kept /\ to.gone = task[r].gone
            /\ to.pdf = task[r].pdf /\ to.handles = task[r].handles /\ to.ctx = task[r].ctx
        BY <1>1 DEF Drive!TaskStates
      <3> QED BY <3>2, <3>3
    <2>2. ASSUME Drive!Goes(r, [task[r] EXCEPT !.pc = "drop"])
          PROVE  /\ task' \in [Drive!Tasks -> Drive!TaskStates]
                 /\ \A u \in Drive!Tasks \ {r} : task'[u] = task[u]
                 /\ task'[r].pc = "drop" /\ task'[r].new = task[r].new
                 /\ task'[r].old = task[r].old
                 /\ task'[r].todo = task[r].todo /\ task'[r].kept = task[r].kept
                 /\ task'[r].gone = task[r].gone
                 /\ task'[r].pdf = task[r].pdf /\ task'[r].handles = task[r].handles
                 /\ task'[r].ctx = task[r].ctx
      <3> DEFINE to == [task[r] EXCEPT !.pc = "drop"]
      <3>1. to \in Drive!TaskStates
        BY <1>0, <1>1, <1>q, <2>2 DEF Drive!TypeOK, Drive!TaskStates, Drive!Pcs
      <3>2. /\ task' \in [Drive!Tasks -> Drive!TaskStates] /\ task'[r] = to
            /\ \A u \in Drive!Tasks \ {r} : task'[u] = task[u]
        BY <1>0, <1>1, <2>2, <3>1, Moves
      <3>3. /\ to.pc = "drop" /\ to.new = task[r].new /\ to.old = task[r].old
            /\ to.todo = task[r].todo /\ to.kept = task[r].kept /\ to.gone = task[r].gone
            /\ to.pdf = task[r].pdf /\ to.handles = task[r].handles /\ to.ctx = task[r].ctx
        BY <1>1 DEF Drive!TaskStates
      <3> QED BY <3>2, <3>3
    <2>e. Drive!Ends(r) => /\ task' \in [Drive!Tasks -> Drive!TaskStates]
                           /\ \A u \in Drive!Tasks \ {r} : task'[u] = task[u]
                           /\ task'[r].pc = "done" /\ task'[r].new = Drive!NoFile
                           /\ task'[r].kept = {} /\ task'[r].todo = {} /\ task'[r].gone = {}
      BY <1>0, <1>1, EndsMoves
    <2> QED BY <1>0, <1>1, <1>q, <2>1, <2>2, <2>e
       DEF Drive!StageReplyPdf, Drive!Finishes, Drive!Releases, Drive!history, Drive!store,
            Drive!book, Drive!Replaced, Drive!TransitionFits, Drive!TransitionTo,
            Drive!Writes, Drive!Abandons
  <1>4. /\ \A q \in Replies \ {r} : Drive!ReplyFiles(q)'
        /\ \A c \in Cleanups \ {r} : Drive!CleanupFiles(c)'
        /\ Drive!ClicksTakeTurns' /\ Drive!DeliveryFirst' /\ Drive!WorkerFiles'
        /\ Drive!ReadAfterDelivery'
        /\ drive \subseteq {pdf} \cup handles \cup abandoned \cup Drive!HeldBy(r)
        /\ drive' \subseteq {pdf'} \cup handles' \cup abandoned' \cup Drive!HeldBy(r)'
             => Drive!NothingForgotten'
    <2>1. drive' \subseteq drive \cup {Drive!NextFile} /\ shown' \in {shown} \cup Drive!Files
      BY <1>3, <1>q
    <2>2. /\ task[r].pc \notin {"idle", "done"} /\ lock \in {r, Drive!Free}
          /\ \/ lock' = r
             \/ lock' = Drive!Free /\ task'[r].pc = "done"
      BY <1>1, <1>3
    <2> QED BY <1>3, <2>1, <2>2, HolderLeavesOthers
  <1>5. Drive!TypeOK'
    <2>0. uploads' = Drive!NextFile => Drive!NextFile \in Drive!Files
      BY <1>0 DEF Drive!NextFile, Drive!Files
    <2>1. /\ drive' \subseteq Drive!Files /\ cleaned' \subseteq Drive!Files
          /\ abandoned' \subseteq Drive!Files
          /\ pdf' \in Drive!Files \cup {Drive!NoFile}
          /\ shown' \in Drive!Files \cup {Drive!NoFile}
      BY <1>0, <1>1, <1>q, <1>3, <2>0 DEF Drive!TypeOK
    <2>2. handles' \subseteq Drive!Files /\ Drive!Cardinality(handles') <= MaxTokens
      BY <1>0, <1>q, <1>3 DEF Drive!TypeOK
    <2>3. lock' \in Drive!Tasks \cup {Drive!Free}
      BY <1>1, <1>3
    <2>4. card' \in [kind : Drive!Kinds, outcome : Drive!Outcomes, read : BOOLEAN]
      BY <1>0, <1>3 DEF Drive!TypeOK
    <2> QED BY <1>0, <1>3, <2>1, <2>2, <2>3, <2>4 DEF Drive!TypeOK
  <1>6. Drive!NothingForgotten'
    BY <1>1, <1>q, <1>3, <1>4 DEF Drive!HeldBy, Drive!At
  <1>7. Drive!ShownPdfKept'
    BY <1>1, <1>q, <1>3 DEF Drive!DriveInductive, Drive!DriveInv, Drive!ShownPdfKept
  <1>8. Drive!OnCourse'
    BY <1>1, <1>3, DriveNames DEF Drive!DriveInductive, Drive!OnCourse, Drive!worker
  <1>9. Drive!OldNews'
    BY <1>0, <1>1, <1>q, <1>3 DEF Drive!DriveInductive, Drive!OldNews, Drive!NextFile
  <1>10. Drive!ReplyFiles(r)'
    <2>1. CASE task'[r].pc = "reply"
      <3>1. task'[r].todo = {pdf} \ {Drive!NoFile, task[r].new} /\ task'[r].new = task[r].new
            /\ task'[r].old \in {Drive!NoFile} \cup 1 .. uploads'
        BY <1>0, <1>3, <2>1 DEF Drive!DriveInductive, Drive!OldNews
      <3>2. Drive!AtMostOne(task'[r].todo) /\ task'[r].new \notin task'[r].todo
        BY <3>1 DEF Drive!AtMostOne
      <3> QED BY <1>q, <1>3, <2>1, <3>1, <3>2 DEF Drive!ReplyFiles
    <2>2. CASE task'[r].pc = "drop"
      BY <1>q, <1>3, <2>2 DEF Drive!ReplyFiles
    <2>3. CASE task'[r].pc = "done"
      BY <2>3 DEF Drive!ReplyFiles
    <2> QED BY <1>3, <2>1, <2>2, <2>3
  <1> QED
    BY <1>4, <1>5, <1>6, <1>7, <1>8, <1>9, <1>10, DriveNames
       DEF Drive!DriveInductive, Drive!DriveInv

\* _delete_or_retain of a file that was not staged.
LEMMA DropReplyPdfKeeps ==
    ASSUME Drive!DriveAssumption, Drive!DriveInductive, NEW r \in Replies, Drive!DropReplyPdf(r)
    PROVE  Drive!DriveInductive'
PROOF
  <1>0. Drive!TypeOK /\ uploads \in 0..MaxFiles /\ MaxFiles \in Nat /\ uploads' \in 0..MaxFiles
    <2>1. uploads' = uploads \/ (uploads' = uploads + 1 /\ uploads < MaxFiles)
      BY DEF Drive!DropReplyPdf, Drive!Finishes, Drive!Releases, Drive!history, Drive!store,
           Drive!book, Drive!Deletes, Drive!Retains, Drive!Lists, Drive!Writes,
           Drive!Abandons, Drive!NextFile
    <2> QED BY <2>1, UploadsCount
  <1>1. /\ task[r].pc = "drop" /\ task[r] \in Drive!TaskStates /\ r \in Drive!Tasks
        /\ lock = r /\ r # Drive!Worker
    BY DriveNames DEF Drive!DriveInductive, Drive!DriveInv, Drive!TypeOK, Drive!DropReplyPdf,
         Drive!At, Drive!ClicksTakeTurns
  <1>q. /\ task[r].new \in Drive!Files /\ task[r].new \in drive /\ task[r].new # shown
        /\ task[r].todo = {} /\ drive \subseteq Drive!Files /\ Drive!NoFile \notin Drive!Files
    BY <1>0, <1>1, DriveNames DEF Drive!DriveInductive, Drive!ReplyFiles, Drive!TypeOK
  <1>3. /\ task' \in [Drive!Tasks -> Drive!TaskStates]
        /\ \A u \in Drive!Tasks \ {r} : task'[u] = task[u]
        /\ task'[r].pc = "done" /\ task'[r].new = Drive!NoFile /\ task'[r].kept = {}
        /\ task'[r].todo = {} /\ task'[r].gone = {}
        /\ lock' = Drive!Free
        /\ handles' \in {handles, handles \cup {task[r].new}}
        /\ handles' # handles => Drive!Cardinality(handles') <= MaxTokens
        /\ drive' \in {drive, drive \ {task[r].new}}
        /\ \/ drive' = drive \ {task[r].new} /\ UNCHANGED abandoned
           \/ task[r].new \in handles' /\ UNCHANGED abandoned
           \/ abandoned' = abandoned \cup ({task[r].new} \ ({pdf'} \cup handles'))
        /\ UNCHANGED <<uploads, pdf, shown, cleaned>>
        /\ UNCHANGED card
    <2>e. Drive!Ends(r) => /\ task' \in [Drive!Tasks -> Drive!TaskStates]
                           /\ \A u \in Drive!Tasks \ {r} : task'[u] = task[u]
                           /\ task'[r].pc = "done" /\ task'[r].new = Drive!NoFile
                           /\ task'[r].kept = {} /\ task'[r].todo = {} /\ task'[r].gone = {}
      BY <1>0, <1>1, EndsMoves
    <2> QED BY <1>0, <1>1, <1>q, <2>e DEF Drive!DropReplyPdf, Drive!Finishes, Drive!Releases,
         Drive!history, Drive!store, Drive!book, Drive!Deletes, Drive!Retains, Drive!Lists,
         Drive!Writes, Drive!Abandons
  <1>4. /\ \A q \in Replies \ {r} : Drive!ReplyFiles(q)'
        /\ \A c \in Cleanups \ {r} : Drive!CleanupFiles(c)'
        /\ Drive!ClicksTakeTurns' /\ Drive!DeliveryFirst' /\ Drive!WorkerFiles'
        /\ Drive!ReadAfterDelivery'
        /\ drive \subseteq {pdf} \cup handles \cup abandoned \cup Drive!HeldBy(r)
        /\ drive' \subseteq {pdf'} \cup handles' \cup abandoned' \cup Drive!HeldBy(r)'
             => Drive!NothingForgotten'
    <2>1. drive' \subseteq drive \cup {Drive!NextFile} /\ shown' \in {shown} \cup Drive!Files
      BY <1>3, <1>q
    <2>2. /\ task[r].pc \notin {"idle", "done"} /\ lock \in {r, Drive!Free}
          /\ \/ lock' = r
             \/ lock' = Drive!Free /\ task'[r].pc = "done"
      BY <1>1, <1>3
    <2> QED BY <1>3, <2>1, <2>2, HolderLeavesOthers
  <1>5. Drive!TypeOK'
    <2>0. uploads' = Drive!NextFile => Drive!NextFile \in Drive!Files
      BY <1>0 DEF Drive!NextFile, Drive!Files
    <2>1. /\ drive' \subseteq Drive!Files /\ cleaned' \subseteq Drive!Files
          /\ abandoned' \subseteq Drive!Files
          /\ pdf' \in Drive!Files \cup {Drive!NoFile}
          /\ shown' \in Drive!Files \cup {Drive!NoFile}
      BY <1>0, <1>1, <1>q, <1>3, <2>0 DEF Drive!TypeOK
    <2>2. handles' \subseteq Drive!Files /\ Drive!Cardinality(handles') <= MaxTokens
      BY <1>0, <1>q, <1>3 DEF Drive!TypeOK
    <2>3. lock' \in Drive!Tasks \cup {Drive!Free}
      BY <1>1, <1>3
    <2>4. card' \in [kind : Drive!Kinds, outcome : Drive!Outcomes, read : BOOLEAN]
      BY <1>0, <1>3 DEF Drive!TypeOK
    <2> QED BY <1>0, <1>3, <2>1, <2>2, <2>3, <2>4 DEF Drive!TypeOK
  <1>6. Drive!NothingForgotten'
    BY <1>1, <1>q, <1>3, <1>4 DEF Drive!HeldBy, Drive!At
  <1>7. Drive!ShownPdfKept'
    BY <1>1, <1>q, <1>3 DEF Drive!DriveInductive, Drive!DriveInv, Drive!ShownPdfKept
  <1>8. Drive!OnCourse'
    BY <1>1, <1>3, DriveNames DEF Drive!DriveInductive, Drive!OnCourse, Drive!worker
  <1>9. Drive!OldNews'
    BY <1>0, <1>1, <1>q, <1>3 DEF Drive!DriveInductive, Drive!OldNews, Drive!NextFile
  <1>10. Drive!ReplyFiles(r)'
    BY <1>0, <1>1, <1>q, <1>3 DEF Drive!DriveInductive, Drive!ReplyFiles, Drive!OldNews,
         Drive!NextFile, Drive!AtMostOne
  <1> QED
    BY <1>4, <1>5, <1>6, <1>7, <1>8, <1>9, <1>10, DriveNames
       DEF Drive!DriveInductive, Drive!DriveInv

\* The reply links to the new file, or the old one is to be restored.
LEMMA SendReplyKeeps ==
    ASSUME Drive!DriveAssumption, Drive!DriveInductive, NEW r \in Replies, Drive!SendReply(r)
    PROVE  Drive!DriveInductive'
PROOF
  <1>0. Drive!TypeOK /\ uploads \in 0..MaxFiles /\ MaxFiles \in Nat /\ uploads' \in 0..MaxFiles
    <2>1. uploads' = uploads \/ (uploads' = uploads + 1 /\ uploads < MaxFiles)
      BY DEF Drive!SendReply, Drive!Finishes, Drive!Releases, Drive!history, Drive!store,
           Drive!book, Drive!NextFile
    <2> QED BY <2>1, UploadsCount
  <1>1. /\ task[r].pc = "reply" /\ task[r] \in Drive!TaskStates /\ r \in Drive!Tasks
        /\ lock = r /\ r # Drive!Worker
    BY DriveNames DEF Drive!DriveInductive, Drive!DriveInv, Drive!TypeOK, Drive!SendReply,
         Drive!At, Drive!ClicksTakeTurns
  <1>q. /\ task[r].new \in Drive!Files /\ task[r].new \in drive /\ task[r].new # shown
        /\ task[r].new \notin task[r].todo /\ Drive!AtMostOne(task[r].todo)
        /\ task[r].old \in {Drive!NoFile} \cup 1 .. uploads
    BY <1>0, <1>1, DriveNames DEF Drive!DriveInductive, Drive!ReplyFiles, Drive!TypeOK
  <1>3. /\ task' \in [Drive!Tasks -> Drive!TaskStates]
        /\ \A u \in Drive!Tasks \ {r} : task'[u] = task[u]
        /\ \/ /\ task'[r].pc = "tidy" /\ shown' = task[r].new
              /\ UNCHANGED <<task[r].new, task[r].todo, task[r].kept, task[r].gone, lock>>
           \/ /\ task'[r].pc = "restore"
              /\ UNCHANGED <<task[r].new, task[r].old, task[r].todo, task[r].kept, task[r].gone,
                             lock, shown>>
           \/ /\ task'[r].pc = "done" /\ task'[r].new = Drive!NoFile /\ task'[r].kept = {}
              /\ task'[r].todo = {} /\ task'[r].gone = {}
              /\ lock' = Drive!Free /\ shown' = task[r].new
        /\ UNCHANGED <<drive, uploads, pdf, handles, cleaned, abandoned>>
        /\ UNCHANGED card
    <2>1. ASSUME Drive!Goes(r, [task[r] EXCEPT !.pc = "tidy", !.pdf = task[r].new])
          PROVE  /\ task' \in [Drive!Tasks -> Drive!TaskStates]
                 /\ \A u \in Drive!Tasks \ {r} : task'[u] = task[u]
                 /\ task'[r].pc = "tidy" /\ task'[r].pdf = task[r].new
                 /\ task'[r].new = task[r].new
                 /\ task'[r].old = task[r].old /\ task'[r].todo = task[r].todo
                 /\ task'[r].kept = task[r].kept
                 /\ task'[r].gone = task[r].gone /\ task'[r].handles = task[r].handles
                 /\ task'[r].ctx = task[r].ctx
      <3> DEFINE to == [task[r] EXCEPT !.pc = "tidy", !.pdf = task[r].new]
      <3>1. to \in Drive!TaskStates
        BY <1>0, <1>1, <1>q, <2>1 DEF Drive!TypeOK, Drive!TaskStates, Drive!Pcs
      <3>2. /\ task' \in [Drive!Tasks -> Drive!TaskStates] /\ task'[r] = to
            /\ \A u \in Drive!Tasks \ {r} : task'[u] = task[u]
        BY <1>0, <1>1, <2>1, <3>1, Moves
      <3>3. /\ to.pc = "tidy" /\ to.pdf = task[r].new /\ to.new = task[r].new
            /\ to.old = task[r].old /\ to.todo = task[r].todo /\ to.kept = task[r].kept
            /\ to.gone = task[r].gone /\ to.handles = task[r].handles /\ to.ctx = task[r].ctx
        BY <1>1 DEF Drive!TaskStates
      <3> QED BY <3>2, <3>3
    <2>2. ASSUME Drive!Goes(r, [task[r] EXCEPT !.pc = "restore"])
          PROVE  /\ task' \in [Drive!Tasks -> Drive!TaskStates]
                 /\ \A u \in Drive!Tasks \ {r} : task'[u] = task[u]
                 /\ task'[r].pc = "restore" /\ task'[r].new = task[r].new
                 /\ task'[r].old = task[r].old
                 /\ task'[r].todo = task[r].todo /\ task'[r].kept = task[r].kept
                 /\ task'[r].gone = task[r].gone
                 /\ task'[r].pdf = task[r].pdf /\ task'[r].handles = task[r].handles
                 /\ task'[r].ctx = task[r].ctx
      <3> DEFINE to == [task[r] EXCEPT !.pc = "restore"]
      <3>1. to \in Drive!TaskStates
        BY <1>0, <1>1, <1>q, <2>2 DEF Drive!TypeOK, Drive!TaskStates, Drive!Pcs
      <3>2. /\ task' \in [Drive!Tasks -> Drive!TaskStates] /\ task'[r] = to
            /\ \A u \in Drive!Tasks \ {r} : task'[u] = task[u]
        BY <1>0, <1>1, <2>2, <3>1, Moves
      <3>3. /\ to.pc = "restore" /\ to.new = task[r].new /\ to.old = task[r].old
            /\ to.todo = task[r].todo /\ to.kept = task[r].kept /\ to.gone = task[r].gone
            /\ to.pdf = task[r].pdf /\ to.handles = task[r].handles /\ to.ctx = task[r].ctx
        BY <1>1 DEF Drive!TaskStates
      <3> QED BY <3>2, <3>3
    <2>e. Drive!Ends(r) => /\ task' \in [Drive!Tasks -> Drive!TaskStates]
                           /\ \A u \in Drive!Tasks \ {r} : task'[u] = task[u]
                           /\ task'[r].pc = "done" /\ task'[r].new = Drive!NoFile
                           /\ task'[r].kept = {} /\ task'[r].todo = {} /\ task'[r].gone = {}
      BY <1>0, <1>1, EndsMoves
    <2> QED BY <1>0, <1>1, <1>q, <2>1, <2>2, <2>e
       DEF Drive!SendReply, Drive!Finishes, Drive!Releases, Drive!history, Drive!store,
            Drive!book
  <1>4. /\ \A q \in Replies \ {r} : Drive!ReplyFiles(q)'
        /\ \A c \in Cleanups \ {r} : Drive!CleanupFiles(c)'
        /\ Drive!ClicksTakeTurns' /\ Drive!DeliveryFirst' /\ Drive!WorkerFiles'
        /\ Drive!ReadAfterDelivery'
        /\ drive \subseteq {pdf} \cup handles \cup abandoned \cup Drive!HeldBy(r)
        /\ drive' \subseteq {pdf'} \cup handles' \cup abandoned' \cup Drive!HeldBy(r)'
             => Drive!NothingForgotten'
    <2>1. drive' \subseteq drive \cup {Drive!NextFile} /\ shown' \in {shown} \cup Drive!Files
      BY <1>3, <1>q
    <2>2. /\ task[r].pc \notin {"idle", "done"} /\ lock \in {r, Drive!Free}
          /\ \/ lock' = r
             \/ lock' = Drive!Free /\ task'[r].pc = "done"
      BY <1>1, <1>3
    <2> QED BY <1>3, <2>1, <2>2, HolderLeavesOthers
  <1>5. Drive!TypeOK'
    <2>0. uploads' = Drive!NextFile => Drive!NextFile \in Drive!Files
      BY <1>0 DEF Drive!NextFile, Drive!Files
    <2>1. /\ drive' \subseteq Drive!Files /\ cleaned' \subseteq Drive!Files
          /\ abandoned' \subseteq Drive!Files
          /\ pdf' \in Drive!Files \cup {Drive!NoFile}
          /\ shown' \in Drive!Files \cup {Drive!NoFile}
      BY <1>0, <1>1, <1>q, <1>3, <2>0 DEF Drive!TypeOK
    <2>2. handles' \subseteq Drive!Files /\ Drive!Cardinality(handles') <= MaxTokens
      BY <1>0, <1>3 DEF Drive!TypeOK
    <2>3. lock' \in Drive!Tasks \cup {Drive!Free}
      BY <1>1, <1>3
    <2>4. card' \in [kind : Drive!Kinds, outcome : Drive!Outcomes, read : BOOLEAN]
      BY <1>0, <1>3 DEF Drive!TypeOK
    <2> QED BY <1>0, <1>3, <2>1, <2>2, <2>3, <2>4 DEF Drive!TypeOK
  <1>6. Drive!NothingForgotten'
    BY <1>1, <1>q, <1>3, <1>4 DEF Drive!HeldBy, Drive!At
  <1>7. Drive!ShownPdfKept'
    BY <1>1, <1>q, <1>3 DEF Drive!DriveInductive, Drive!DriveInv, Drive!ShownPdfKept
  <1>8. Drive!OnCourse'
    BY <1>1, <1>3, DriveNames DEF Drive!DriveInductive, Drive!OnCourse, Drive!worker
  <1>9. Drive!OldNews'
    BY <1>0, <1>1, <1>q, <1>3 DEF Drive!DriveInductive, Drive!OldNews, Drive!NextFile
  <1>10. Drive!ReplyFiles(r)'
    BY <1>0, <1>1, <1>q, <1>3 DEF Drive!DriveInductive, Drive!ReplyFiles, Drive!OldNews,
         Drive!NextFile, Drive!AtMostOne
  <1> QED
    BY <1>4, <1>5, <1>6, <1>7, <1>8, <1>9, <1>10, DriveNames
       DEF Drive!DriveInductive, Drive!DriveInv

\* After a failed reply the old PDF is active again.
LEMMA RestorePdfKeeps ==
    ASSUME Drive!DriveAssumption, Drive!DriveInductive, NEW r \in Replies, Drive!RestorePdf(r)
    PROVE  Drive!DriveInductive'
PROOF
  <1>0. Drive!TypeOK /\ uploads \in 0..MaxFiles /\ MaxFiles \in Nat /\ uploads' \in 0..MaxFiles
    <2>1. uploads' = uploads \/ (uploads' = uploads + 1 /\ uploads < MaxFiles)
      BY DEF Drive!RestorePdf, Drive!Finishes, Drive!Releases, Drive!history, Drive!store,
           Drive!book, Drive!Replaced, Drive!TransitionFits, Drive!TransitionTo, Drive!Writes,
           Drive!NextFile
    <2> QED BY <2>1, UploadsCount
  <1>1. /\ task[r].pc = "restore" /\ task[r] \in Drive!TaskStates /\ r \in Drive!Tasks
        /\ lock = r /\ r # Drive!Worker
    BY DriveNames DEF Drive!DriveInductive, Drive!DriveInv, Drive!TypeOK, Drive!RestorePdf,
         Drive!At, Drive!ClicksTakeTurns
  <1>q. /\ task[r].new \in Drive!Files /\ task[r].new \in drive /\ task[r].new # shown
        /\ drive \subseteq Drive!Files /\ Drive!NoFile \notin Drive!Files
        /\ task[r].old \in {Drive!NoFile} \cup 1 .. uploads
        /\ task[r].old \in Drive!Files \cup {Drive!NoFile}
    BY <1>0, <1>1, DriveNames DEF Drive!DriveInductive, Drive!ReplyFiles, Drive!TypeOK,
         Drive!TaskStates
  <1>3. /\ task' \in [Drive!Tasks -> Drive!TaskStates]
        /\ \A u \in Drive!Tasks \ {r} : task'[u] = task[u]
        /\ \/ /\ task'[r].pc = "tidy" /\ task'[r].todo = {task[r].new}
              /\ UNCHANGED <<task[r].new, task[r].kept, task[r].gone, lock>>
           \/ /\ task'[r].pc = "done" /\ task'[r].new = Drive!NoFile /\ task'[r].kept = {}
              /\ task'[r].todo = {} /\ task'[r].gone = {}
              /\ lock' = Drive!Free
        /\ \/ UNCHANGED <<pdf, handles>>
           \/ /\ pdf' = task[r].old
              /\ handles' = (handles \ {task[r].old}) \cup ({pdf} \ {Drive!NoFile, task[r].old})
              /\ Drive!Cardinality(handles') <= MaxTokens
        /\ UNCHANGED <<drive, uploads, shown, cleaned, abandoned>>
        /\ UNCHANGED card
    <2>1. ASSUME Drive!Goes(r, [task[r] EXCEPT !.pc = "tidy", !.pdf = task[r].old,
                                !.todo = {task[r].new}])
          PROVE  /\ task' \in [Drive!Tasks -> Drive!TaskStates]
                 /\ \A u \in Drive!Tasks \ {r} : task'[u] = task[u]
                 /\ task'[r].pc = "tidy" /\ task'[r].pdf = task[r].old
                 /\ task'[r].todo = {task[r].new}
                 /\ task'[r].new = task[r].new /\ task'[r].old = task[r].old
                 /\ task'[r].kept = task[r].kept
                 /\ task'[r].gone = task[r].gone /\ task'[r].handles = task[r].handles
                 /\ task'[r].ctx = task[r].ctx
      <3> DEFINE to == [task[r] EXCEPT !.pc = "tidy", !.pdf = task[r].old,
                        !.todo = {task[r].new}]
      <3>1. to \in Drive!TaskStates
        BY <1>0, <1>1, <1>q, <2>1 DEF Drive!TypeOK, Drive!TaskStates, Drive!Pcs
      <3>2. /\ task' \in [Drive!Tasks -> Drive!TaskStates] /\ task'[r] = to
            /\ \A u \in Drive!Tasks \ {r} : task'[u] = task[u]
        BY <1>0, <1>1, <2>1, <3>1, Moves
      <3>3. /\ to.pc = "tidy" /\ to.pdf = task[r].old /\ to.todo = {task[r].new}
            /\ to.new = task[r].new /\ to.old = task[r].old /\ to.kept = task[r].kept
            /\ to.gone = task[r].gone /\ to.handles = task[r].handles /\ to.ctx = task[r].ctx
        BY <1>1 DEF Drive!TaskStates
      <3> QED BY <3>2, <3>3
    <2>e. Drive!Ends(r) => /\ task' \in [Drive!Tasks -> Drive!TaskStates]
                           /\ \A u \in Drive!Tasks \ {r} : task'[u] = task[u]
                           /\ task'[r].pc = "done" /\ task'[r].new = Drive!NoFile
                           /\ task'[r].kept = {} /\ task'[r].todo = {} /\ task'[r].gone = {}
      BY <1>0, <1>1, EndsMoves
    <2> QED BY <1>0, <1>1, <1>q, <2>1, <2>e
       DEF Drive!RestorePdf, Drive!Finishes, Drive!Releases, Drive!history, Drive!store,
            Drive!book, Drive!Replaced, Drive!TransitionFits, Drive!TransitionTo, Drive!Writes
  <1>4. /\ \A q \in Replies \ {r} : Drive!ReplyFiles(q)'
        /\ \A c \in Cleanups \ {r} : Drive!CleanupFiles(c)'
        /\ Drive!ClicksTakeTurns' /\ Drive!DeliveryFirst' /\ Drive!WorkerFiles'
        /\ Drive!ReadAfterDelivery'
        /\ drive \subseteq {pdf} \cup handles \cup abandoned \cup Drive!HeldBy(r)
        /\ drive' \subseteq {pdf'} \cup handles' \cup abandoned' \cup Drive!HeldBy(r)'
             => Drive!NothingForgotten'
    <2>1. drive' \subseteq drive \cup {Drive!NextFile} /\ shown' \in {shown} \cup Drive!Files
      BY <1>3, <1>q
    <2>2. /\ task[r].pc \notin {"idle", "done"} /\ lock \in {r, Drive!Free}
          /\ \/ lock' = r
             \/ lock' = Drive!Free /\ task'[r].pc = "done"
      BY <1>1, <1>3
    <2> QED BY <1>3, <2>1, <2>2, HolderLeavesOthers
  <1>5. Drive!TypeOK'
    <2>0. uploads' = Drive!NextFile => Drive!NextFile \in Drive!Files
      BY <1>0 DEF Drive!NextFile, Drive!Files
    <2>1. /\ drive' \subseteq Drive!Files /\ cleaned' \subseteq Drive!Files
          /\ abandoned' \subseteq Drive!Files
          /\ pdf' \in Drive!Files \cup {Drive!NoFile}
          /\ shown' \in Drive!Files \cup {Drive!NoFile}
      BY <1>0, <1>1, <1>q, <1>3, <2>0 DEF Drive!TypeOK
    <2>2. handles' \subseteq Drive!Files /\ Drive!Cardinality(handles') <= MaxTokens
      BY <1>0, <1>1, <1>3 DEF Drive!TypeOK, Drive!TaskStates
    <2>3. lock' \in Drive!Tasks \cup {Drive!Free}
      BY <1>1, <1>3
    <2>4. card' \in [kind : Drive!Kinds, outcome : Drive!Outcomes, read : BOOLEAN]
      BY <1>0, <1>3 DEF Drive!TypeOK
    <2> QED BY <1>0, <1>3, <2>1, <2>2, <2>3, <2>4 DEF Drive!TypeOK
  <1>6. Drive!NothingForgotten'
    BY <1>1, <1>q, <1>3, <1>4 DEF Drive!HeldBy, Drive!At
  <1>7. Drive!ShownPdfKept'
    BY <1>1, <1>q, <1>3 DEF Drive!DriveInductive, Drive!DriveInv, Drive!ShownPdfKept
  <1>8. Drive!OnCourse'
    BY <1>1, <1>3, DriveNames DEF Drive!DriveInductive, Drive!OnCourse, Drive!worker
  <1>9. Drive!OldNews'
    BY <1>0, <1>1, <1>q, <1>3 DEF Drive!DriveInductive, Drive!OldNews, Drive!NextFile
  <1>10. Drive!ReplyFiles(r)'
    BY <1>0, <1>1, <1>q, <1>3 DEF Drive!DriveInductive, Drive!ReplyFiles, Drive!OldNews,
         Drive!NextFile, Drive!AtMostOne
  <1> QED
    BY <1>4, <1>5, <1>6, <1>7, <1>8, <1>9, <1>10, DriveNames
       DEF Drive!DriveInductive, Drive!DriveInv

\* _delete_registered_cleanup_handle deletes what the reader cannot open ...
LEMMA TidyDeletesKeeps ==
    ASSUME Drive!DriveAssumption, Drive!DriveInductive, NEW r \in Replies, Drive!TidyDeletes(r)
    PROVE  Drive!DriveInductive'
PROOF
  <1>0. Drive!TypeOK /\ uploads \in 0..MaxFiles /\ MaxFiles \in Nat /\ uploads' \in 0..MaxFiles
    <2>1. uploads' = uploads \/ (uploads' = uploads + 1 /\ uploads < MaxFiles)
      BY DEF Drive!TidyDeletes, Drive!Finishes, Drive!Releases, Drive!history, Drive!store,
           Drive!book, Drive!Deletes, Drive!NextFile
    <2> QED BY <2>1, UploadsCount
  <1>1. /\ task[r].pc = "tidy" /\ task[r] \in Drive!TaskStates /\ r \in Drive!Tasks
        /\ lock = r /\ r # Drive!Worker
    BY DriveNames DEF Drive!DriveInductive, Drive!DriveInv, Drive!TypeOK, Drive!TidyDeletes,
         Drive!At, Drive!ClicksTakeTurns
  <1>q. /\ task[r].todo \subseteq Drive!Files /\ shown \notin task[r].todo
        /\ \A f, g \in task[r].todo : f = g
    BY <1>0, <1>1, DriveNames DEF Drive!DriveInductive, Drive!ReplyFiles, Drive!AtMostOne,
         Drive!TaskStates
  <1>3. /\ task' \in [Drive!Tasks -> Drive!TaskStates]
        /\ \A u \in Drive!Tasks \ {r} : task'[u] = task[u]
        /\ \/ /\ task'[r].pc = "remove" /\ drive' = drive \ task[r].todo
              /\ UNCHANGED <<task[r].new, task[r].todo, task[r].kept, task[r].gone, lock>>
           \/ /\ task'[r].pc = "done" /\ task'[r].new = Drive!NoFile /\ task'[r].kept = {}
              /\ task'[r].todo = {} /\ task'[r].gone = {}
              /\ lock' = Drive!Free /\ drive' \in {drive, drive \ task[r].todo}
        /\ UNCHANGED <<uploads, pdf, handles, shown, cleaned, abandoned>>
        /\ UNCHANGED card
    <2>1. ASSUME Drive!Goes(r, [task[r] EXCEPT !.pc = "remove"])
          PROVE  /\ task' \in [Drive!Tasks -> Drive!TaskStates]
                 /\ \A u \in Drive!Tasks \ {r} : task'[u] = task[u]
                 /\ task'[r].pc = "remove" /\ task'[r].new = task[r].new
                 /\ task'[r].old = task[r].old
                 /\ task'[r].todo = task[r].todo /\ task'[r].kept = task[r].kept
                 /\ task'[r].gone = task[r].gone
                 /\ task'[r].pdf = task[r].pdf /\ task'[r].handles = task[r].handles
                 /\ task'[r].ctx = task[r].ctx
      <3> DEFINE to == [task[r] EXCEPT !.pc = "remove"]
      <3>1. to \in Drive!TaskStates
        BY <1>0, <1>1, <1>q, <2>1 DEF Drive!TypeOK, Drive!TaskStates, Drive!Pcs
      <3>2. /\ task' \in [Drive!Tasks -> Drive!TaskStates] /\ task'[r] = to
            /\ \A u \in Drive!Tasks \ {r} : task'[u] = task[u]
        BY <1>0, <1>1, <2>1, <3>1, Moves
      <3>3. /\ to.pc = "remove" /\ to.new = task[r].new /\ to.old = task[r].old
            /\ to.todo = task[r].todo /\ to.kept = task[r].kept /\ to.gone = task[r].gone
            /\ to.pdf = task[r].pdf /\ to.handles = task[r].handles /\ to.ctx = task[r].ctx
        BY <1>1 DEF Drive!TaskStates
      <3> QED BY <3>2, <3>3
    <2>e. Drive!Ends(r) => /\ task' \in [Drive!Tasks -> Drive!TaskStates]
                           /\ \A u \in Drive!Tasks \ {r} : task'[u] = task[u]
                           /\ task'[r].pc = "done" /\ task'[r].new = Drive!NoFile
                           /\ task'[r].kept = {} /\ task'[r].todo = {} /\ task'[r].gone = {}
      BY <1>0, <1>1, EndsMoves
    <2> QED BY <1>0, <1>1, <1>q, <2>1, <2>e
       DEF Drive!TidyDeletes, Drive!Finishes, Drive!Releases, Drive!history, Drive!store,
            Drive!book, Drive!Deletes
  <1>4. /\ \A q \in Replies \ {r} : Drive!ReplyFiles(q)'
        /\ \A c \in Cleanups \ {r} : Drive!CleanupFiles(c)'
        /\ Drive!ClicksTakeTurns' /\ Drive!DeliveryFirst' /\ Drive!WorkerFiles'
        /\ Drive!ReadAfterDelivery'
        /\ drive \subseteq {pdf} \cup handles \cup abandoned \cup Drive!HeldBy(r)
        /\ drive' \subseteq {pdf'} \cup handles' \cup abandoned' \cup Drive!HeldBy(r)'
             => Drive!NothingForgotten'
    <2>1. drive' \subseteq drive \cup {Drive!NextFile} /\ shown' \in {shown} \cup Drive!Files
      BY <1>3, <1>q
    <2>2. /\ task[r].pc \notin {"idle", "done"} /\ lock \in {r, Drive!Free}
          /\ \/ lock' = r
             \/ lock' = Drive!Free /\ task'[r].pc = "done"
      BY <1>1, <1>3
    <2> QED BY <1>3, <2>1, <2>2, HolderLeavesOthers
  <1>5. Drive!TypeOK'
    <2>0. uploads' = Drive!NextFile => Drive!NextFile \in Drive!Files
      BY <1>0 DEF Drive!NextFile, Drive!Files
    <2>1. /\ drive' \subseteq Drive!Files /\ cleaned' \subseteq Drive!Files
          /\ abandoned' \subseteq Drive!Files
          /\ pdf' \in Drive!Files \cup {Drive!NoFile}
          /\ shown' \in Drive!Files \cup {Drive!NoFile}
      BY <1>0, <1>1, <1>q, <1>3, <2>0 DEF Drive!TypeOK
    <2>2. handles' \subseteq Drive!Files /\ Drive!Cardinality(handles') <= MaxTokens
      BY <1>0, <1>3 DEF Drive!TypeOK
    <2>3. lock' \in Drive!Tasks \cup {Drive!Free}
      BY <1>1, <1>3
    <2>4. card' \in [kind : Drive!Kinds, outcome : Drive!Outcomes, read : BOOLEAN]
      BY <1>0, <1>3 DEF Drive!TypeOK
    <2> QED BY <1>0, <1>3, <2>1, <2>2, <2>3, <2>4 DEF Drive!TypeOK
  <1>6. Drive!NothingForgotten'
    BY <1>1, <1>q, <1>3, <1>4 DEF Drive!HeldBy, Drive!At
  <1>7. Drive!ShownPdfKept'
    BY <1>1, <1>q, <1>3 DEF Drive!DriveInductive, Drive!DriveInv, Drive!ShownPdfKept
  <1>8. Drive!OnCourse'
    BY <1>1, <1>3, DriveNames DEF Drive!DriveInductive, Drive!OnCourse, Drive!worker
  <1>9. Drive!OldNews'
    BY <1>0, <1>1, <1>q, <1>3 DEF Drive!DriveInductive, Drive!OldNews, Drive!NextFile
  <1>10. Drive!ReplyFiles(r)'
    BY <1>0, <1>1, <1>q, <1>3 DEF Drive!DriveInductive, Drive!ReplyFiles, Drive!OldNews,
         Drive!NextFile, Drive!AtMostOne
  <1> QED
    BY <1>4, <1>5, <1>6, <1>7, <1>8, <1>9, <1>10, DriveNames
       DEF Drive!DriveInductive, Drive!DriveInv

\* ... and forgets it.
LEMMA TidyRemovesKeeps ==
    ASSUME Drive!DriveAssumption, Drive!DriveInductive, NEW r \in Replies, Drive!TidyRemoves(r)
    PROVE  Drive!DriveInductive'
PROOF
  <1>0. Drive!TypeOK /\ uploads \in 0..MaxFiles /\ MaxFiles \in Nat /\ uploads' \in 0..MaxFiles
    <2>1. uploads' = uploads \/ (uploads' = uploads + 1 /\ uploads < MaxFiles)
      BY DEF Drive!TidyRemoves, Drive!Finishes, Drive!Releases, Drive!history, Drive!store,
           Drive!book, Drive!Writes, Drive!NextFile
    <2> QED BY <2>1, UploadsCount
  <1>1. /\ task[r].pc = "remove" /\ task[r] \in Drive!TaskStates /\ r \in Drive!Tasks
        /\ lock = r /\ r # Drive!Worker
    BY DriveNames DEF Drive!DriveInductive, Drive!DriveInv, Drive!TypeOK, Drive!TidyRemoves,
         Drive!At, Drive!ClicksTakeTurns
  <1>q. task[r].todo \cap drive = {} /\ task[r].todo \subseteq Drive!Files
    BY <1>0, <1>1, DriveNames DEF Drive!DriveInductive, Drive!ReplyFiles, Drive!TaskStates
  <1>3. /\ task' \in [Drive!Tasks -> Drive!TaskStates]
        /\ \A u \in Drive!Tasks \ {r} : task'[u] = task[u]
        /\ task'[r].pc = "done" /\ task'[r].new = Drive!NoFile /\ task'[r].kept = {}
        /\ task'[r].todo = {} /\ task'[r].gone = {}
        /\ lock' = Drive!Free
        /\ handles' \in {handles, handles \ task[r].todo}
        /\ UNCHANGED <<drive, uploads, pdf, shown, cleaned, abandoned>>
        /\ UNCHANGED card
    <2>e. Drive!Ends(r) => /\ task' \in [Drive!Tasks -> Drive!TaskStates]
                           /\ \A u \in Drive!Tasks \ {r} : task'[u] = task[u]
                           /\ task'[r].pc = "done" /\ task'[r].new = Drive!NoFile
                           /\ task'[r].kept = {} /\ task'[r].todo = {} /\ task'[r].gone = {}
      BY <1>0, <1>1, EndsMoves
    <2> QED BY <1>0, <1>1, <1>q, <2>e DEF Drive!TidyRemoves, Drive!Finishes, Drive!Releases,
         Drive!history, Drive!store, Drive!book, Drive!Writes
  <1>4. /\ \A q \in Replies \ {r} : Drive!ReplyFiles(q)'
        /\ \A c \in Cleanups \ {r} : Drive!CleanupFiles(c)'
        /\ Drive!ClicksTakeTurns' /\ Drive!DeliveryFirst' /\ Drive!WorkerFiles'
        /\ Drive!ReadAfterDelivery'
        /\ drive \subseteq {pdf} \cup handles \cup abandoned \cup Drive!HeldBy(r)
        /\ drive' \subseteq {pdf'} \cup handles' \cup abandoned' \cup Drive!HeldBy(r)'
             => Drive!NothingForgotten'
    <2>1. drive' \subseteq drive \cup {Drive!NextFile} /\ shown' \in {shown} \cup Drive!Files
      BY <1>3, <1>q
    <2>2. /\ task[r].pc \notin {"idle", "done"} /\ lock \in {r, Drive!Free}
          /\ \/ lock' = r
             \/ lock' = Drive!Free /\ task'[r].pc = "done"
      BY <1>1, <1>3
    <2> QED BY <1>3, <2>1, <2>2, HolderLeavesOthers
  <1>5. Drive!TypeOK'
    <2>0. uploads' = Drive!NextFile => Drive!NextFile \in Drive!Files
      BY <1>0 DEF Drive!NextFile, Drive!Files
    <2>1. /\ drive' \subseteq Drive!Files /\ cleaned' \subseteq Drive!Files
          /\ abandoned' \subseteq Drive!Files
          /\ pdf' \in Drive!Files \cup {Drive!NoFile}
          /\ shown' \in Drive!Files \cup {Drive!NoFile}
      BY <1>0, <1>1, <1>q, <1>3, <2>0 DEF Drive!TypeOK
    <2>2. handles' \subseteq Drive!Files /\ Drive!Cardinality(handles') <= MaxTokens
      BY <1>0, <1>3, FewerFiles, handles' \in SUBSET handles DEF Drive!TypeOK
    <2>3. lock' \in Drive!Tasks \cup {Drive!Free}
      BY <1>1, <1>3
    <2>4. card' \in [kind : Drive!Kinds, outcome : Drive!Outcomes, read : BOOLEAN]
      BY <1>0, <1>3 DEF Drive!TypeOK
    <2> QED BY <1>0, <1>3, <2>1, <2>2, <2>3, <2>4 DEF Drive!TypeOK
  <1>6. Drive!NothingForgotten'
    BY <1>1, <1>q, <1>3, <1>4 DEF Drive!HeldBy, Drive!At
  <1>7. Drive!ShownPdfKept'
    BY <1>1, <1>q, <1>3 DEF Drive!DriveInductive, Drive!DriveInv, Drive!ShownPdfKept
  <1>8. Drive!OnCourse'
    BY <1>1, <1>3, DriveNames DEF Drive!DriveInductive, Drive!OnCourse, Drive!worker
  <1>9. Drive!OldNews'
    BY <1>0, <1>1, <1>q, <1>3 DEF Drive!DriveInductive, Drive!OldNews, Drive!NextFile
  <1>10. Drive!ReplyFiles(r)'
    BY <1>0, <1>1, <1>q, <1>3 DEF Drive!DriveInductive, Drive!ReplyFiles, Drive!OldNews,
         Drive!NextFile, Drive!AtMostOne
  <1> QED
    BY <1>4, <1>5, <1>6, <1>7, <1>8, <1>9, <1>10, DriveNames
       DEF Drive!DriveInductive, Drive!DriveInv

\* _cleanup_action_drive_tokens picks its targets under the lock.
LEMMA BeginCleanupKeeps ==
    ASSUME Drive!DriveAssumption, Drive!DriveInductive, NEW c \in Cleanups,
           Drive!BeginCleanup(c)
    PROVE  Drive!DriveInductive'
PROOF
  <1>0. Drive!TypeOK /\ uploads \in 0..MaxFiles /\ MaxFiles \in Nat /\ uploads' \in 0..MaxFiles
    <2>1. uploads' = uploads \/ (uploads' = uploads + 1 /\ uploads < MaxFiles)
      BY DEF Drive!BeginCleanup, Drive!history, Drive!store, Drive!book, Drive!NextFile
    <2> QED BY <2>1, UploadsCount
  <1>1. /\ task[c].pc = "queued" /\ task[c] \in Drive!TaskStates /\ c \in Drive!Tasks
        /\ lock = Drive!Free /\ c # Drive!Worker
    BY DriveNames DEF Drive!DriveInductive, Drive!DriveInv, Drive!TypeOK, Drive!BeginCleanup,
         Drive!At, Drive!ClicksTakeTurns
  <1>q. Drive!Targets(c) \subseteq 1 .. uploads /\ Drive!Targets(c) \in SUBSET Drive!Files
    BY <1>0, <1>1, DriveNames DEF Drive!DriveInductive, Drive!Targets, Drive!Collected,
         Drive!OldNews, Drive!TypeOK, Drive!TaskStates
  <1>3. /\ task' \in [Drive!Tasks -> Drive!TaskStates]
        /\ \A u \in Drive!Tasks \ {c} : task'[u] = task[u]
        /\ \/ /\ task'[c].pc = "sweep" /\ task'[c].todo = Drive!Targets(c) /\ lock' = c
              /\ UNCHANGED <<task[c].new, task[c].kept, task[c].gone>>
           \/ /\ task'[c].pc = "done" /\ task'[c].new = Drive!NoFile /\ task'[c].kept = {}
              /\ task'[c].todo = {} /\ task'[c].gone = {}
              /\ lock' = lock
        /\ UNCHANGED <<drive, uploads, pdf, handles, shown, cleaned, abandoned>>
        /\ UNCHANGED card
    <2>1. ASSUME Drive!Goes(c, [task[c] EXCEPT !.pc = "sweep", !.todo = Drive!Targets(c)])
          PROVE  /\ task' \in [Drive!Tasks -> Drive!TaskStates]
                 /\ \A u \in Drive!Tasks \ {c} : task'[u] = task[u]
                 /\ task'[c].pc = "sweep" /\ task'[c].todo = Drive!Targets(c)
                 /\ task'[c].new = task[c].new
                 /\ task'[c].old = task[c].old /\ task'[c].kept = task[c].kept
                 /\ task'[c].gone = task[c].gone
                 /\ task'[c].pdf = task[c].pdf /\ task'[c].handles = task[c].handles
                 /\ task'[c].ctx = task[c].ctx
      <3> DEFINE to == [task[c] EXCEPT !.pc = "sweep", !.todo = Drive!Targets(c)]
      <3>1. to \in Drive!TaskStates
        BY <1>0, <1>1, <1>q DEF Drive!TaskStates, Drive!Pcs
      <3>2. /\ task' \in [Drive!Tasks -> Drive!TaskStates] /\ task'[c] = to
            /\ \A u \in Drive!Tasks \ {c} : task'[u] = task[u]
        BY <1>0, <1>1, <2>1, <3>1, Moves
      <3>3. /\ to.pc = "sweep" /\ to.todo = Drive!Targets(c) /\ to.new = task[c].new
            /\ to.old = task[c].old /\ to.kept = task[c].kept /\ to.gone = task[c].gone
            /\ to.pdf = task[c].pdf /\ to.handles = task[c].handles /\ to.ctx = task[c].ctx
        BY <1>1 DEF Drive!TaskStates
      <3> QED BY <3>2, <3>3
    <2>e. Drive!Ends(c) => /\ task' \in [Drive!Tasks -> Drive!TaskStates]
                           /\ \A u \in Drive!Tasks \ {c} : task'[u] = task[u]
                           /\ task'[c].pc = "done" /\ task'[c].new = Drive!NoFile
                           /\ task'[c].kept = {} /\ task'[c].todo = {} /\ task'[c].gone = {}
      BY <1>0, <1>1, EndsMoves
    <2> QED BY <1>0, <1>1, <1>q, <2>1, <2>e
       DEF Drive!BeginCleanup, Drive!history, Drive!store, Drive!book
  <1>4. /\ \A r \in Replies \ {c} : Drive!ReplyFiles(r)'
        /\ \A d \in Cleanups \ {c} : Drive!CleanupFiles(d)'
        /\ Drive!ClicksTakeTurns' /\ Drive!DeliveryFirst' /\ Drive!WorkerFiles'
        /\ Drive!ReadAfterDelivery'
        /\ drive \subseteq {pdf} \cup handles \cup abandoned \cup Drive!HeldBy(c)
        /\ drive' \subseteq {pdf'} \cup handles' \cup abandoned' \cup Drive!HeldBy(c)'
             => Drive!NothingForgotten'
    <2>1. drive' \subseteq drive \cup {Drive!NextFile} /\ shown' \in {shown} \cup Drive!Files
      BY <1>3, <1>q
    <2>2. /\ task[c].pc \notin {"idle", "done"} /\ lock \in {c, Drive!Free}
          /\ \/ lock' = c
             \/ lock' = Drive!Free /\ task'[c].pc = "done"
      BY <1>1, <1>3
    <2> QED BY <1>3, <2>1, <2>2, HolderLeavesOthers
  <1>5. Drive!TypeOK'
    <2>0. uploads' = Drive!NextFile => Drive!NextFile \in Drive!Files
      BY <1>0 DEF Drive!NextFile, Drive!Files
    <2>1. /\ drive' \subseteq Drive!Files /\ cleaned' \subseteq Drive!Files
          /\ abandoned' \subseteq Drive!Files
          /\ pdf' \in Drive!Files \cup {Drive!NoFile}
          /\ shown' \in Drive!Files \cup {Drive!NoFile}
      BY <1>0, <1>1, <1>q, <1>3, <2>0 DEF Drive!TypeOK
    <2>2. handles' \subseteq Drive!Files /\ Drive!Cardinality(handles') <= MaxTokens
      BY <1>0, <1>3 DEF Drive!TypeOK
    <2>3. lock' \in Drive!Tasks \cup {Drive!Free}
      BY <1>1, <1>3
    <2>4. card' \in [kind : Drive!Kinds, outcome : Drive!Outcomes, read : BOOLEAN]
      BY <1>0, <1>3 DEF Drive!TypeOK
    <2> QED BY <1>0, <1>3, <2>1, <2>2, <2>3, <2>4 DEF Drive!TypeOK
  <1>6. Drive!NothingForgotten'
    BY <1>1, <1>q, <1>3, <1>4 DEF Drive!HeldBy, Drive!At
  <1>7. Drive!ShownPdfKept'
    BY <1>1, <1>q, <1>3 DEF Drive!DriveInductive, Drive!DriveInv, Drive!ShownPdfKept
  <1>8. Drive!OnCourse'
    BY <1>1, <1>3, DriveNames DEF Drive!DriveInductive, Drive!OnCourse, Drive!worker
  <1>9. Drive!OldNews'
    BY <1>0, <1>1, <1>q, <1>3 DEF Drive!DriveInductive, Drive!OldNews, Drive!NextFile
  <1>10. Drive!CleanupFiles(c)'
    BY <1>0, <1>1, <1>q, <1>3 DEF Drive!DriveInductive, Drive!CleanupFiles, Drive!OldNews,
         Drive!NextFile, Drive!AtMostOne
  <1> QED
    BY <1>4, <1>5, <1>6, <1>7, <1>8, <1>9, <1>10, DriveNames
       DEF Drive!DriveInductive, Drive!DriveInv

\* _resume_graph_then_cleanup, after a terminal status.
LEMMA ResumeAndCleanKeeps ==
    ASSUME Drive!DriveAssumption, Drive!DriveInductive, NEW c \in Cleanups,
           Drive!ResumeAndClean(c)
    PROVE  Drive!DriveInductive'
PROOF
  <1>0. Drive!TypeOK /\ uploads \in 0..MaxFiles /\ MaxFiles \in Nat /\ uploads' \in 0..MaxFiles
    <2>1. uploads' = uploads \/ (uploads' = uploads + 1 /\ uploads < MaxFiles)
      BY DEF Drive!ResumeAndClean, Drive!history, Drive!store, Drive!book, Drive!NextFile
    <2> QED BY <2>1, UploadsCount
  <1>1. /\ task[c].pc = "queued" /\ task[c] \in Drive!TaskStates /\ c \in Drive!Tasks
        /\ lock = Drive!Free /\ c # Drive!Worker
    BY DriveNames DEF Drive!DriveInductive, Drive!DriveInv, Drive!TypeOK,
         Drive!ResumeAndClean, Drive!At, Drive!ClicksTakeTurns
  <1>q. Drive!Collected(pdf, handles) \subseteq 1 .. uploads
        /\ Drive!Collected(pdf, handles) \in SUBSET Drive!Files
    BY <1>0, <1>1, DriveNames DEF Drive!DriveInductive, Drive!Collected, Drive!OldNews,
         Drive!TypeOK, Drive!TaskStates
  <1>3. /\ task' \in [Drive!Tasks -> Drive!TaskStates]
        /\ \A u \in Drive!Tasks \ {c} : task'[u] = task[u]
        /\ \/ /\ task'[c].pc = "sweep" /\ task'[c].todo = Drive!Collected(pdf, handles)
              /\ lock' = c
              /\ UNCHANGED <<task[c].new, task[c].kept, task[c].gone>>
           \/ /\ task'[c].pc = "done" /\ task'[c].new = Drive!NoFile /\ task'[c].kept = {}
              /\ task'[c].todo = {} /\ task'[c].gone = {}
              /\ lock' = lock
        /\ UNCHANGED <<drive, uploads, pdf, handles, shown, cleaned, abandoned>>
        /\ UNCHANGED card
    <2>1. ASSUME Drive!Goes(c, [task[c] EXCEPT !.pc = "sweep", !.todo = Drive!Collected(pdf,
                         handles), !.ctx = "resume"])
          PROVE  /\ task' \in [Drive!Tasks -> Drive!TaskStates]
                 /\ \A u \in Drive!Tasks \ {c} : task'[u] = task[u]
                 /\ task'[c].pc = "sweep" /\ task'[c].todo = Drive!Collected(pdf, handles)
                 /\ task'[c].ctx = "resume"
                 /\ task'[c].new = task[c].new /\ task'[c].old = task[c].old
                 /\ task'[c].kept = task[c].kept
                 /\ task'[c].gone = task[c].gone /\ task'[c].pdf = task[c].pdf
                 /\ task'[c].handles = task[c].handles
      <3> DEFINE to == [task[c] EXCEPT !.pc = "sweep", !.todo = Drive!Collected(pdf, handles),
                        !.ctx = "resume"]
      <3>1. to \in Drive!TaskStates
        BY <1>0, <1>1, <1>q DEF Drive!TaskStates, Drive!Pcs
      <3>2. /\ task' \in [Drive!Tasks -> Drive!TaskStates] /\ task'[c] = to
            /\ \A u \in Drive!Tasks \ {c} : task'[u] = task[u]
        BY <1>0, <1>1, <2>1, <3>1, Moves
      <3>3. /\ to.pc = "sweep" /\ to.todo = Drive!Collected(pdf, handles) /\ to.ctx = "resume"
            /\ to.new = task[c].new /\ to.old = task[c].old /\ to.kept = task[c].kept
            /\ to.gone = task[c].gone /\ to.pdf = task[c].pdf /\ to.handles = task[c].handles
        BY <1>1 DEF Drive!TaskStates
      <3> QED BY <3>2, <3>3
    <2>e. Drive!Ends(c) => /\ task' \in [Drive!Tasks -> Drive!TaskStates]
                           /\ \A u \in Drive!Tasks \ {c} : task'[u] = task[u]
                           /\ task'[c].pc = "done" /\ task'[c].new = Drive!NoFile
                           /\ task'[c].kept = {} /\ task'[c].todo = {} /\ task'[c].gone = {}
      BY <1>0, <1>1, EndsMoves
    <2> QED BY <1>0, <1>1, <1>q, <2>1, <2>e
       DEF Drive!ResumeAndClean, Drive!history, Drive!store, Drive!book
  <1>4. /\ \A r \in Replies \ {c} : Drive!ReplyFiles(r)'
        /\ \A d \in Cleanups \ {c} : Drive!CleanupFiles(d)'
        /\ Drive!ClicksTakeTurns' /\ Drive!DeliveryFirst' /\ Drive!WorkerFiles'
        /\ Drive!ReadAfterDelivery'
        /\ drive \subseteq {pdf} \cup handles \cup abandoned \cup Drive!HeldBy(c)
        /\ drive' \subseteq {pdf'} \cup handles' \cup abandoned' \cup Drive!HeldBy(c)'
             => Drive!NothingForgotten'
    <2>1. drive' \subseteq drive \cup {Drive!NextFile} /\ shown' \in {shown} \cup Drive!Files
      BY <1>3, <1>q
    <2>2. /\ task[c].pc \notin {"idle", "done"} /\ lock \in {c, Drive!Free}
          /\ \/ lock' = c
             \/ lock' = Drive!Free /\ task'[c].pc = "done"
      BY <1>1, <1>3
    <2> QED BY <1>3, <2>1, <2>2, HolderLeavesOthers
  <1>5. Drive!TypeOK'
    <2>0. uploads' = Drive!NextFile => Drive!NextFile \in Drive!Files
      BY <1>0 DEF Drive!NextFile, Drive!Files
    <2>1. /\ drive' \subseteq Drive!Files /\ cleaned' \subseteq Drive!Files
          /\ abandoned' \subseteq Drive!Files
          /\ pdf' \in Drive!Files \cup {Drive!NoFile}
          /\ shown' \in Drive!Files \cup {Drive!NoFile}
      BY <1>0, <1>1, <1>q, <1>3, <2>0 DEF Drive!TypeOK
    <2>2. handles' \subseteq Drive!Files /\ Drive!Cardinality(handles') <= MaxTokens
      BY <1>0, <1>3 DEF Drive!TypeOK
    <2>3. lock' \in Drive!Tasks \cup {Drive!Free}
      BY <1>1, <1>3
    <2>4. card' \in [kind : Drive!Kinds, outcome : Drive!Outcomes, read : BOOLEAN]
      BY <1>0, <1>3 DEF Drive!TypeOK
    <2> QED BY <1>0, <1>3, <2>1, <2>2, <2>3, <2>4 DEF Drive!TypeOK
  <1>6. Drive!NothingForgotten'
    BY <1>1, <1>q, <1>3, <1>4 DEF Drive!HeldBy, Drive!At
  <1>7. Drive!ShownPdfKept'
    BY <1>1, <1>q, <1>3 DEF Drive!DriveInductive, Drive!DriveInv, Drive!ShownPdfKept
  <1>8. Drive!OnCourse'
    BY <1>1, <1>3, DriveNames DEF Drive!DriveInductive, Drive!OnCourse, Drive!worker
  <1>9. Drive!OldNews'
    BY <1>0, <1>1, <1>q, <1>3 DEF Drive!DriveInductive, Drive!OldNews, Drive!NextFile
  <1>10. Drive!CleanupFiles(c)'
    BY <1>0, <1>1, <1>q, <1>3 DEF Drive!DriveInductive, Drive!CleanupFiles, Drive!OldNews,
         Drive!NextFile, Drive!AtMostOne
  <1> QED
    BY <1>4, <1>5, <1>6, <1>7, <1>8, <1>9, <1>10, DriveNames
       DEF Drive!DriveInductive, Drive!DriveInv

\* One target deleted, or not.
LEMMA SweepFileKeeps ==
    ASSUME Drive!DriveAssumption, Drive!DriveInductive, NEW c \in Cleanups, Drive!SweepFile(c)
    PROVE  Drive!DriveInductive'
PROOF
  <1>0. Drive!TypeOK /\ uploads \in 0..MaxFiles /\ MaxFiles \in Nat /\ uploads' \in 0..MaxFiles
    <2>1. uploads' = uploads \/ (uploads' = uploads + 1 /\ uploads < MaxFiles)
      BY DEF Drive!SweepFile, Drive!history, Drive!store, Drive!book, Drive!Deletes,
           Drive!NextFile
    <2> QED BY <2>1, UploadsCount
  <1>1. /\ task[c].pc = "sweep" /\ task[c] \in Drive!TaskStates /\ c \in Drive!Tasks
        /\ lock = c /\ c # Drive!Worker
    BY DriveNames DEF Drive!DriveInductive, Drive!DriveInv, Drive!TypeOK, Drive!SweepFile,
         Drive!At, Drive!ClicksTakeTurns
  <1>q. task[c].todo \subseteq Drive!Files /\ task[c].gone \cap drive = {}
    BY <1>0, <1>1, DriveNames DEF Drive!DriveInductive, Drive!TaskStates, Drive!CleanupFiles
  <1>3. /\ task' \in [Drive!Tasks -> Drive!TaskStates]
        /\ \A u \in Drive!Tasks \ {c} : task'[u] = task[u]
        /\ \E f \in task[c].todo :
              /\ task'[c].todo = task[c].todo \ {f} /\ cleaned' = cleaned \cup {f}
              /\ \/ task'[c].gone = task[c].gone \cup {f} /\ drive' = drive \ {f}
                 \/ task'[c].gone = task[c].gone /\ drive' \in {drive, drive \ {f}}
        /\ UNCHANGED <<task[c].pc, task[c].new, task[c].kept>>
        /\ UNCHANGED <<lock, uploads, pdf, handles, shown, abandoned>>
        /\ UNCHANGED card
    <2>1. ASSUME NEW f \in Drive!Files,
                 Drive!Goes(c, [task[c] EXCEPT !.todo = @ \ {f}, !.gone = @ \cup {f}])
          PROVE  /\ task' \in [Drive!Tasks -> Drive!TaskStates]
                 /\ \A u \in Drive!Tasks \ {c} : task'[u] = task[u]
                 /\ task'[c].todo = task[c].todo \ {f}
                 /\ task'[c].gone = task[c].gone \cup {f} /\ task'[c].pc = task[c].pc
                 /\ task'[c].new = task[c].new /\ task'[c].old = task[c].old
                 /\ task'[c].kept = task[c].kept
                 /\ task'[c].pdf = task[c].pdf /\ task'[c].handles = task[c].handles
                 /\ task'[c].ctx = task[c].ctx
      <3> DEFINE to == [task[c] EXCEPT !.todo = @ \ {f}, !.gone = @ \cup {f}]
      <3>1. to \in Drive!TaskStates
        BY <1>1, <2>1 DEF Drive!TaskStates
      <3>2. /\ task' \in [Drive!Tasks -> Drive!TaskStates] /\ task'[c] = to
            /\ \A u \in Drive!Tasks \ {c} : task'[u] = task[u]
        BY <1>0, <1>1, <2>1, <3>1, Moves
      <3>3. /\ to.todo = task[c].todo \ {f} /\ to.gone = task[c].gone \cup {f}
            /\ to.pc = task[c].pc
            /\ to.new = task[c].new /\ to.old = task[c].old /\ to.kept = task[c].kept
            /\ to.pdf = task[c].pdf /\ to.handles = task[c].handles /\ to.ctx = task[c].ctx
        BY <1>1 DEF Drive!TaskStates
      <3> QED BY <3>2, <3>3
    <2>2. ASSUME NEW f \in Drive!Files,
                 Drive!Goes(c, [task[c] EXCEPT !.todo = @ \ {f}])
          PROVE  /\ task' \in [Drive!Tasks -> Drive!TaskStates]
                 /\ \A u \in Drive!Tasks \ {c} : task'[u] = task[u]
                 /\ task'[c].todo = task[c].todo \ {f} /\ task'[c].pc = task[c].pc
                 /\ task'[c].new = task[c].new
                 /\ task'[c].old = task[c].old /\ task'[c].kept = task[c].kept
                 /\ task'[c].gone = task[c].gone
                 /\ task'[c].pdf = task[c].pdf /\ task'[c].handles = task[c].handles
                 /\ task'[c].ctx = task[c].ctx
      <3> DEFINE to == [task[c] EXCEPT !.todo = @ \ {f}]
      <3>1. to \in Drive!TaskStates
        BY <1>1, <2>2 DEF Drive!TaskStates
      <3>2. /\ task' \in [Drive!Tasks -> Drive!TaskStates] /\ task'[c] = to
            /\ \A u \in Drive!Tasks \ {c} : task'[u] = task[u]
        BY <1>0, <1>1, <2>2, <3>1, Moves
      <3>3. /\ to.todo = task[c].todo \ {f} /\ to.pc = task[c].pc /\ to.new = task[c].new
            /\ to.old = task[c].old /\ to.kept = task[c].kept /\ to.gone = task[c].gone
            /\ to.pdf = task[c].pdf /\ to.handles = task[c].handles /\ to.ctx = task[c].ctx
        BY <1>1 DEF Drive!TaskStates
      <3> QED BY <3>2, <3>3
    <2>a. PICK f \in task[c].todo :
             /\ cleaned' = cleaned \cup {f}
             /\ \/ /\ Drive!Goes(c, [task[c] EXCEPT !.todo = @ \ {f}, !.gone = @ \cup {f}])
                   /\ drive' = drive \ {f}
                \/ /\ Drive!Goes(c, [task[c] EXCEPT !.todo = @ \ {f}])
                   /\ drive' \in {drive, drive \ {f}}
      BY DEF Drive!SweepFile, Drive!Deletes
    <2>b. UNCHANGED <<lock, uploads, pdf, handles, shown, abandoned, card>>
      BY DEF Drive!SweepFile, Drive!Deletes, Drive!book
    <2> QED BY <1>q, <2>1, <2>2, <2>a, <2>b
  <1>4. /\ \A r \in Replies \ {c} : Drive!ReplyFiles(r)'
        /\ \A d \in Cleanups \ {c} : Drive!CleanupFiles(d)'
        /\ Drive!ClicksTakeTurns' /\ Drive!DeliveryFirst' /\ Drive!WorkerFiles'
        /\ Drive!ReadAfterDelivery'
        /\ drive \subseteq {pdf} \cup handles \cup abandoned \cup Drive!HeldBy(c)
        /\ drive' \subseteq {pdf'} \cup handles' \cup abandoned' \cup Drive!HeldBy(c)'
             => Drive!NothingForgotten'
    <2>1. drive' \subseteq drive \cup {Drive!NextFile} /\ shown' \in {shown} \cup Drive!Files
      BY <1>3, <1>q
    <2>2. /\ task[c].pc \notin {"idle", "done"} /\ lock \in {c, Drive!Free}
          /\ \/ lock' = c
             \/ lock' = Drive!Free /\ task'[c].pc = "done"
      BY <1>1, <1>3
    <2> QED BY <1>3, <2>1, <2>2, HolderLeavesOthers
  <1>5. Drive!TypeOK'
    <2>0. uploads' = Drive!NextFile => Drive!NextFile \in Drive!Files
      BY <1>0 DEF Drive!NextFile, Drive!Files
    <2>1. /\ drive' \subseteq Drive!Files /\ cleaned' \subseteq Drive!Files
          /\ abandoned' \subseteq Drive!Files
          /\ pdf' \in Drive!Files \cup {Drive!NoFile}
          /\ shown' \in Drive!Files \cup {Drive!NoFile}
      BY <1>0, <1>1, <1>q, <1>3, <2>0 DEF Drive!TypeOK
    <2>2. handles' \subseteq Drive!Files /\ Drive!Cardinality(handles') <= MaxTokens
      BY <1>0, <1>3 DEF Drive!TypeOK
    <2>3. lock' \in Drive!Tasks \cup {Drive!Free}
      BY <1>1, <1>3
    <2>4. card' \in [kind : Drive!Kinds, outcome : Drive!Outcomes, read : BOOLEAN]
      BY <1>0, <1>3 DEF Drive!TypeOK
    <2> QED BY <1>0, <1>3, <2>1, <2>2, <2>3, <2>4 DEF Drive!TypeOK
  <1>6. Drive!NothingForgotten'
    BY <1>1, <1>q, <1>3, <1>4 DEF Drive!HeldBy, Drive!At
  <1>7. Drive!ShownPdfKept'
    BY <1>1, <1>q, <1>3 DEF Drive!DriveInductive, Drive!DriveInv, Drive!ShownPdfKept
  <1>8. Drive!OnCourse'
    BY <1>1, <1>3, DriveNames DEF Drive!DriveInductive, Drive!OnCourse, Drive!worker
  <1>9. Drive!OldNews'
    BY <1>0, <1>1, <1>q, <1>3 DEF Drive!DriveInductive, Drive!OldNews, Drive!NextFile
  <1>10. Drive!CleanupFiles(c)'
    BY <1>0, <1>1, <1>q, <1>3 DEF Drive!DriveInductive, Drive!CleanupFiles, Drive!OldNews,
         Drive!NextFile, Drive!AtMostOne
  <1> QED
    BY <1>4, <1>5, <1>6, <1>7, <1>8, <1>9, <1>10, DriveNames
       DEF Drive!DriveInductive, Drive!DriveInv

\* Only confirmed deletions leave the book.
LEMMA SweepEndsKeeps ==
    ASSUME Drive!DriveAssumption, Drive!DriveInductive, NEW c \in Cleanups, Drive!SweepEnds(c)
    PROVE  Drive!DriveInductive'
PROOF
  <1>0. Drive!TypeOK /\ uploads \in 0..MaxFiles /\ MaxFiles \in Nat /\ uploads' \in 0..MaxFiles
    <2>1. uploads' = uploads \/ (uploads' = uploads + 1 /\ uploads < MaxFiles)
      BY DEF Drive!SweepEnds, Drive!Finishes, Drive!Releases, Drive!history, Drive!store,
           Drive!book, Drive!Writes, Drive!NextFile
    <2> QED BY <2>1, UploadsCount
  <1>1. /\ task[c].pc = "sweep" /\ task[c] \in Drive!TaskStates /\ c \in Drive!Tasks
        /\ lock = c /\ c # Drive!Worker
    BY DriveNames DEF Drive!DriveInductive, Drive!DriveInv, Drive!TypeOK, Drive!SweepEnds,
         Drive!At, Drive!ClicksTakeTurns
  <1>q. task[c].gone \cap drive = {}
    BY <1>0, <1>1, DriveNames DEF Drive!DriveInductive, Drive!CleanupFiles
  <1>3. /\ task' \in [Drive!Tasks -> Drive!TaskStates]
        /\ \A u \in Drive!Tasks \ {c} : task'[u] = task[u]
        /\ task'[c].pc = "done" /\ task'[c].new = Drive!NoFile /\ task'[c].kept = {}
        /\ task'[c].todo = {} /\ task'[c].gone = {}
        /\ lock' = Drive!Free
        /\ \/ UNCHANGED <<pdf, handles>>
           \/ /\ pdf' = IF pdf \in task[c].gone THEN Drive!NoFile ELSE pdf
              /\ handles' = handles \ task[c].gone
        /\ UNCHANGED <<drive, uploads, shown, cleaned, abandoned>>
        /\ UNCHANGED card
    <2>e. Drive!Ends(c) => /\ task' \in [Drive!Tasks -> Drive!TaskStates]
                           /\ \A u \in Drive!Tasks \ {c} : task'[u] = task[u]
                           /\ task'[c].pc = "done" /\ task'[c].new = Drive!NoFile
                           /\ task'[c].kept = {} /\ task'[c].todo = {} /\ task'[c].gone = {}
      BY <1>0, <1>1, EndsMoves
    <2> QED BY <1>0, <1>1, <1>q, <2>e DEF Drive!SweepEnds, Drive!Finishes, Drive!Releases,
         Drive!history, Drive!store, Drive!book, Drive!Writes
  <1>4. /\ \A r \in Replies \ {c} : Drive!ReplyFiles(r)'
        /\ \A d \in Cleanups \ {c} : Drive!CleanupFiles(d)'
        /\ Drive!ClicksTakeTurns' /\ Drive!DeliveryFirst' /\ Drive!WorkerFiles'
        /\ Drive!ReadAfterDelivery'
        /\ drive \subseteq {pdf} \cup handles \cup abandoned \cup Drive!HeldBy(c)
        /\ drive' \subseteq {pdf'} \cup handles' \cup abandoned' \cup Drive!HeldBy(c)'
             => Drive!NothingForgotten'
    <2>1. drive' \subseteq drive \cup {Drive!NextFile} /\ shown' \in {shown} \cup Drive!Files
      BY <1>3, <1>q
    <2>2. /\ task[c].pc \notin {"idle", "done"} /\ lock \in {c, Drive!Free}
          /\ \/ lock' = c
             \/ lock' = Drive!Free /\ task'[c].pc = "done"
      BY <1>1, <1>3
    <2> QED BY <1>3, <2>1, <2>2, HolderLeavesOthers
  <1>5. Drive!TypeOK'
    <2>0. uploads' = Drive!NextFile => Drive!NextFile \in Drive!Files
      BY <1>0 DEF Drive!NextFile, Drive!Files
    <2>1. /\ drive' \subseteq Drive!Files /\ cleaned' \subseteq Drive!Files
          /\ abandoned' \subseteq Drive!Files
          /\ pdf' \in Drive!Files \cup {Drive!NoFile}
          /\ shown' \in Drive!Files \cup {Drive!NoFile}
      BY <1>0, <1>1, <1>q, <1>3, <2>0 DEF Drive!TypeOK
    <2>2. handles' \subseteq Drive!Files /\ Drive!Cardinality(handles') <= MaxTokens
      BY <1>0, <1>3, FewerFiles, handles' \in SUBSET handles DEF Drive!TypeOK
    <2>3. lock' \in Drive!Tasks \cup {Drive!Free}
      BY <1>1, <1>3
    <2>4. card' \in [kind : Drive!Kinds, outcome : Drive!Outcomes, read : BOOLEAN]
      BY <1>0, <1>3 DEF Drive!TypeOK
    <2> QED BY <1>0, <1>3, <2>1, <2>2, <2>3, <2>4 DEF Drive!TypeOK
  <1>6. Drive!NothingForgotten'
    BY <1>1, <1>q, <1>3, <1>4 DEF Drive!HeldBy, Drive!At
  <1>7. Drive!ShownPdfKept'
    BY <1>1, <1>q, <1>3 DEF Drive!DriveInductive, Drive!DriveInv, Drive!ShownPdfKept
  <1>8. Drive!OnCourse'
    BY <1>1, <1>3, DriveNames DEF Drive!DriveInductive, Drive!OnCourse, Drive!worker
  <1>9. Drive!OldNews'
    BY <1>0, <1>1, <1>q, <1>3 DEF Drive!DriveInductive, Drive!OldNews, Drive!NextFile
  <1>10. Drive!CleanupFiles(c)'
    BY <1>0, <1>1, <1>q, <1>3 DEF Drive!DriveInductive, Drive!CleanupFiles, Drive!OldNews,
         Drive!NextFile, Drive!AtMostOne
  <1> QED
    BY <1>4, <1>5, <1>6, <1>7, <1>8, <1>9, <1>10, DriveNames
       DEF Drive!DriveInductive, Drive!DriveInv

\* The process ends with the files its tasks had in their hands.
LEMMA ProcessEnds ==
    ASSUME Drive!DriveAssumption, Drive!DriveInductive, Drive!Crash
    PROVE  Drive!DriveInductive'
PROOF
  <1>0. Drive!TypeOK
    BY DEF Drive!DriveInductive, Drive!DriveInv
  <1>1. /\ task' \in [Drive!Tasks -> Drive!TaskStates]
        /\ \A t \in Drive!Tasks : \/ task[t].pc = "idle" /\ task'[t] = task[t]
                                  \/ /\ task[t].pc # "idle" /\ task'[t].pc = "done"
                                     /\ task'[t].new = Drive!NoFile /\ task'[t].kept = {}
                                     /\ task'[t].todo = {} /\ task'[t].gone = {}
    <2> DEFINE over == [Drive!IdleTask EXCEPT !.pc = "done"]
    <2>1. over \in Drive!TaskStates
      BY DEF Drive!IdleTask, Drive!TaskStates, Drive!Pcs
    <2>2. /\ over.pc = "done" /\ over.new = Drive!NoFile /\ over.kept = {}
          /\ over.todo = {} /\ over.gone = {}
      BY DEF Drive!IdleTask
    <2>3. task' = [t \in Drive!Tasks |-> IF task[t].pc = "idle" THEN task[t] ELSE over]
      BY DEF Drive!Crash
    <2> HIDE DEF over
    <2> QED BY <1>0, <2>1, <2>2, <2>3 DEF Drive!TypeOK
  <1>2. /\ UNCHANGED <<drive, uploads, pdf, handles, shown, cleaned>> /\ lock' = Drive!Free
        /\ abandoned' = abandoned \cup ((UNION {Drive!HeldBy(t) : t \in Drive!Tasks})
                                           \ ({pdf'} \cup handles'))
    BY DEF Drive!Crash, Drive!store, Drive!book, Drive!Abandons
  <1>3. /\ card' \in [kind : Drive!Kinds, outcome : Drive!Outcomes, read : BOOLEAN]
        /\ card'.kind = card.kind /\ card'.read = card.read
    BY <1>0 DEF Drive!Crash, Drive!TypeOK, Drive!Outcomes
  <1>4. \A t \in Drive!Tasks : Drive!HeldBy(t) \subseteq Drive!Files
    <2>1. Drive!HeldBy(Drive!Worker) \subseteq Drive!Files
      BY <1>0, DriveNames
      DEF Drive!TypeOK, Drive!TaskStates, Drive!HeldBy, Drive!At, Drive!DriveInductive,
           Drive!WorkerFiles, Drive!worker
    <2>2. \A r \in Replies : Drive!HeldBy(r) \subseteq Drive!Files
      <3>1. drive \subseteq Drive!Files
        BY <1>0 DEF Drive!TypeOK
      <3>2. \A r \in Replies : /\ task[r].pc # "retain"
                               /\ task[r].pc \in {"stage", "forget", "drop"} =>
                                     task[r].new \in drive /\ task[r].todo = {}
        BY DEF Drive!DriveInductive, Drive!OnCourse, Drive!ReplyFiles
      <3> QED BY <3>1, <3>2 DEF Drive!HeldBy, Drive!At
    <2>3. \A c \in Cleanups : Drive!HeldBy(c) \subseteq Drive!Files
      BY DriveNames DEF Drive!HeldBy, Drive!At, Drive!DriveInductive, Drive!OnCourse
    <2> QED BY <2>1, <2>2, <2>3 DEF Drive!Tasks
  <1>5. Drive!TypeOK'
    <2>1. abandoned' \subseteq Drive!Files
      BY <1>0, <1>2, <1>4 DEF Drive!TypeOK
    <2> QED BY <1>0, <1>1, <1>2, <1>3, <2>1 DEF Drive!TypeOK
  <1>6. Drive!NothingForgotten'
    <2>1. drive' \subseteq {pdf'} \cup handles' \cup abandoned'
      BY <1>2 DEF Drive!DriveInductive, Drive!DriveInv, Drive!NothingForgotten
    <2> QED BY <2>1 DEF Drive!NothingForgotten
  <1>7. Drive!ShownPdfKept'
    BY <1>2 DEF Drive!DriveInductive, Drive!DriveInv, Drive!ShownPdfKept
  <1>8. Drive!ReadAfterDelivery'
    BY <1>2, <1>3 DEF Drive!DriveInductive, Drive!DriveInv, Drive!ReadAfterDelivery
  <1>9. Drive!OnCourse'
    BY <1>1, DriveNames DEF Drive!OnCourse, Drive!worker
  <1>10. Drive!OldNews'
    BY <1>1, <1>2 DEF Drive!DriveInductive, Drive!OldNews
  <1>11. Drive!DeliveryFirst'
    BY <1>1, <1>2, <1>3, DriveNames DEF Drive!DriveInductive, Drive!DeliveryFirst,
         Drive!worker, Drive!At
  <1>12. Drive!WorkerFiles'
    BY <1>1, <1>2, DriveNames DEF Drive!DriveInductive, Drive!WorkerFiles, Drive!worker
  <1>13. Drive!ClicksTakeTurns'
    BY <1>1, DriveNames DEF Drive!ClicksTakeTurns, Drive!At
  <1>14. \A r \in Replies : Drive!ReplyFiles(r)'
    BY <1>1, <1>2, DriveNames DEF Drive!DriveInductive, Drive!ReplyFiles
  <1>15. \A c \in Cleanups : Drive!CleanupFiles(c)'
    BY <1>1, <1>2, DriveNames DEF Drive!DriveInductive, Drive!CleanupFiles
  <1> QED
    BY <1>5, <1>6, <1>7, <1>8, <1>9, <1>10, <1>11, <1>12, <1>13, <1>14, <1>15
    DEF Drive!DriveInductive, Drive!DriveInv

-----------------------------------------------------------------------------
(* The Drive as a whole.                                                    *)

\* The invariant holds at the start, and every step keeps it.
LEMMA DriveStarts ==
    ASSUME Drive!DriveAssumption, Drive!Init
    PROVE  Drive!DriveInductive
PROOF
  <1>1. Drive!IdleTask \in Drive!TaskStates /\ Drive!IdleTask.pc = "idle"
        /\ Drive!IdleTask.new = Drive!NoFile
        /\ Drive!IdleTask.todo = {} /\ Drive!IdleTask.kept = {} /\ Drive!IdleTask.gone = {}
        /\ Drive!IdleTask.pdf = Drive!NoFile /\ Drive!IdleTask.handles = {}
    BY DEF Drive!IdleTask, Drive!TaskStates, Drive!Pcs
  <1>2. /\ task \in [Drive!Tasks -> Drive!TaskStates]
               /\ \A t \in Drive!Tasks : task[t] = Drive!IdleTask
        /\ card \in [kind : Drive!Kinds, outcome : Drive!Outcomes, read : BOOLEAN]
        /\ card.read = FALSE
    BY <1>1 DEF Drive!Init, Drive!Kinds, Drive!Outcomes
  <1>3. Drive!TypeOK
    <2>1. Drive!Cardinality({}) = 0
      BY FS_EmptySet, SameCount
    <2> QED BY <1>2, <2>1 DEF Drive!Init, Drive!TypeOK, Drive!DriveAssumption, Drive!Files,
         Drive!NoFile
  <1>4. Drive!NothingForgotten /\ Drive!ShownPdfKept /\ Drive!ReadAfterDelivery
    BY <1>2 DEF Drive!Init, Drive!NothingForgotten, Drive!ShownPdfKept, Drive!ReadAfterDelivery
  <1>5. Drive!OnCourse /\ Drive!DeliveryFirst /\ Drive!ClicksTakeTurns /\ Drive!WorkerFiles
    BY <1>1, <1>2, DriveNames DEF Drive!Init, Drive!OnCourse, Drive!DeliveryFirst,
         Drive!ClicksTakeTurns, Drive!WorkerFiles,
       Drive!worker, Drive!At
  <1>6. Drive!OldNews
    BY <1>1, <1>2 DEF Drive!Init, Drive!OldNews
  <1>7. \A r \in Replies : Drive!ReplyFiles(r)
    BY <1>1, <1>2, DriveNames DEF Drive!ReplyFiles
  <1>8. \A c \in Cleanups : Drive!CleanupFiles(c)
    BY <1>1, <1>2, DriveNames DEF Drive!CleanupFiles
  <1> QED BY <1>3, <1>4, <1>5, <1>6, <1>7, <1>8 DEF Drive!DriveInductive, Drive!DriveInv

LEMMA DriveSteps ==
    ASSUME Drive!DriveAssumption, Drive!DriveInductive, Drive!Next
    PROVE  Drive!DriveInductive'
PROOF
  <1>1. CASE Drive!WorkerStep
    BY <1>1, StartMailKeeps, SnapshotHandlesKeeps, CheckpointResourcesKeeps, RunPipelineKeeps,
       UploadAttachmentKeeps, RetainAttachmentKeeps, DropRetainsKeeps, DropDeletesKeeps,
       DropRemovesKeeps, GenerateReviewPdfKeeps, InvalidReviewPdfKeeps, StageReviewPdfKeeps,
       SendCardKeeps, RecordFailureKeeps, RetireUnpublishedPdfKeeps, FinishMailKeeps
    DEF Drive!WorkerStep
  <1>2. ASSUME NEW r \in Replies, Drive!ReplyStep(r)
        PROVE  Drive!DriveInductive'
    <2>1. CASE Drive!ClickReply(r)
      BY <2>1, ClickKeeps DEF Drive!ClickReply
    <2> QED
      BY <1>2, <2>1, BeginReplyKeeps, GenerateReplyPdfKeeps, InvalidReplyPdfKeeps,
         StageReplyPdfKeeps, DropReplyPdfKeeps, SendReplyKeeps, RestorePdfKeeps,
         TidyDeletesKeeps, TidyRemovesKeeps
      DEF Drive!ReplyStep
  <1>3. ASSUME NEW c \in Cleanups, Drive!CleanupStep(c)
        PROVE  Drive!DriveInductive'
    <2>1. CASE Drive!ClickCleanup(c)
      BY <2>1, ClickKeeps DEF Drive!ClickCleanup
    <2> QED
      BY <1>3, <2>1, BeginCleanupKeeps, ResumeAndCleanKeeps, SweepFileKeeps, SweepEndsKeeps
      DEF Drive!CleanupStep
  <1> QED BY <1>1, <1>2, <1>3, ProcessEnds DEF Drive!Next

LEMMA DriveStutters ==
    ASSUME Drive!DriveInductive, UNCHANGED Drive!vars
    PROVE  Drive!DriveInductive'
PROOF
  <1>1. UNCHANGED <<drive, uploads, pdf, handles, lock, shown, card, task, cleaned, abandoned>>
    BY DEF Drive!vars
  <1>2. Drive!DriveInv'
    BY <1>1 DEF Drive!DriveInductive, Drive!DriveInv, Drive!TypeOK, Drive!NothingForgotten,
         Drive!HeldBy, Drive!At, Drive!ShownPdfKept,
       Drive!ReadAfterDelivery
  <1>3. (Drive!OnCourse /\ Drive!OldNews /\ Drive!DeliveryFirst /\ Drive!ClicksTakeTurns
        /\ Drive!WorkerFiles)'
    BY <1>1 DEF Drive!DriveInductive, Drive!OnCourse, Drive!OldNews, Drive!DeliveryFirst,
         Drive!ClicksTakeTurns, Drive!WorkerFiles,
       Drive!worker, Drive!At
  <1>4. (\A r \in Replies : Drive!ReplyFiles(r))'
            /\ (\A c \in Cleanups : Drive!CleanupFiles(c))'
    BY <1>1 DEF Drive!DriveInductive, Drive!ReplyFiles, Drive!CleanupFiles
  <1> QED BY <1>2, <1>3, <1>4 DEF Drive!DriveInductive

\* Only BeginCleanup of the same click makes it sweep, and with its targets.
LEMMA CleanupsSpare ==
    ASSUME Drive!DriveAssumption, Drive!DriveInductive, [Drive!Next]_(Drive!vars),
           NEW c \in Cleanups,
           Drive!At(c, "queued"), task'[c].pc = "sweep", task'[c].ctx # "resume"
    PROVE  task'[c].todo \subseteq Drive!Collected(task[c].pdf, task[c].handles)
PROOF
  <1>0. /\ task \in [Drive!Tasks -> Drive!TaskStates] /\ c \in Drive!Tasks
        /\ c # Drive!Worker /\ c \notin Replies
        /\ task[c] \in Drive!TaskStates /\ task[c].pc = "queued"
    BY DriveNames DEF Drive!DriveInductive, Drive!DriveInv, Drive!TypeOK, Drive!At
  <1>1. task'[c] # task[c]
    BY <1>0
  <1>2. ASSUME NEW t \in Drive!Tasks, NEW to, Drive!Goes(t, to)
        PROVE  t = c
    BY <1>0, <1>1, <1>2 DEF Drive!Goes
  <1>3. ASSUME NEW t \in Drive!Tasks, Drive!Ends(t)
        PROVE  FALSE
    <2>1. Drive!Goes(t, [Drive!IdleTask EXCEPT !.pc = "done"])
      BY <1>3 DEF Drive!Ends, Drive!Goes
    <2>2. t = c
      BY <1>2, <2>1
    <2>3. task'[c].pc = "done"
      BY <1>0, <1>3, <2>2 DEF Drive!Ends, Drive!IdleTask
    <2> QED BY <2>3
  <1>4. ~Drive!WorkerStep
    <2>1. Drive!Worker \in Drive!Tasks /\ \A to : ~Drive!Goes(Drive!Worker, to)
      BY <1>0, <1>2, DriveNames
    <2>2. ~Drive!Ends(Drive!Worker) /\ ~Drive!Raises
      BY <1>3, <2>1 DEF Drive!Raises
    <2>3. Drive!worker.pc \in {"drop", "delete", "remove"} => \A f : ~Drive!AfterDrop(f)
      <3>1. Drive!worker.pc \in {"drop", "delete", "remove"} =>
               Drive!worker.ctx \in {"attach", "stage", "failure"}
        BY DEF Drive!DriveInductive, Drive!WorkerFiles
      <3>2. Drive!TypeOK
        BY DEF Drive!DriveInductive, Drive!DriveInv
      <3> QED BY <1>0, <1>1, <3>1, <3>2, AfterDropMoves
    <2> QED
      BY <2>1, <2>2, <2>3
      DEF Drive!WorkerStep, Drive!StartMail, Drive!SnapshotHandles, Drive!CheckpointResources,
           Drive!RunPipeline,
          Drive!UploadAttachment, Drive!RetainAttachment, Drive!DropRetains, Drive!DropDeletes,
          Drive!DropRemoves,
          Drive!GenerateReviewPdf, Drive!InvalidReviewPdf, Drive!StageReviewPdf, Drive!SendCard,
          Drive!RecordFailure,
          Drive!RetireUnpublishedPdf, Drive!FinishMail, Drive!At, Drive!worker
  <1>5. ASSUME NEW r \in Replies
        PROVE  ~Drive!ReplyStep(r)
    <2>1. r \in Drive!Tasks /\ \A to : ~Drive!Goes(r, to)
      BY <1>0, <1>2, DriveNames
    <2>2. ~Drive!Ends(r)
      BY <1>3, <2>1
    <2> QED
      BY <2>1, <2>2
      DEF Drive!ReplyStep, Drive!ClickReply, Drive!BeginReply, Drive!GenerateReplyPdf,
           Drive!InvalidReplyPdf, Drive!StageReplyPdf,
          Drive!DropReplyPdf, Drive!SendReply, Drive!RestorePdf, Drive!TidyDeletes,
          Drive!TidyRemoves, Drive!Finishes
  <1>6. ~Drive!Crash
    <2>1. ASSUME Drive!Crash
          PROVE  FALSE
      <3>1. task'[c] = [Drive!IdleTask EXCEPT !.pc = "done"]
        BY <1>0, <2>1 DEF Drive!Crash
      <3> QED BY <3>1 DEF Drive!IdleTask
    <2> QED BY <2>1
  <1>7. task' # task
    BY <1>1
  <1>8. PICK d \in Cleanups : Drive!CleanupStep(d)
    BY <1>4, <1>5, <1>6, <1>7 DEF Drive!Next, Drive!vars
  <1>9. d = c
    <2>1. d \in Drive!Tasks
      BY DriveNames
    <2>2. ~Drive!Ends(d)
      BY <1>3, <2>1
    <2> QED
      BY <1>2, <1>8, <2>1, <2>2
      DEF Drive!CleanupStep, Drive!ClickCleanup, Drive!BeginCleanup, Drive!ResumeAndClean,
           Drive!SweepFile, Drive!SweepEnds, Drive!Finishes
  <1>10. Drive!Goes(c, [task[c] EXCEPT !.pc = "sweep", !.todo = Drive!Targets(c)])
    <2>1. ~Drive!Ends(c)
      BY <1>0, <1>3
    <2>2. ~Drive!ClickCleanup(c) /\ ~Drive!SweepFile(c) /\ ~Drive!SweepEnds(c)
      BY <1>0 DEF Drive!ClickCleanup, Drive!SweepFile, Drive!SweepEnds, Drive!At
    <2>3. ~Drive!ResumeAndClean(c)
      <3>1. ASSUME Drive!Goes(c, [task[c] EXCEPT !.pc = "sweep", !.todo = Drive!Collected(pdf,
                           handles),
                            !.ctx = "resume"])
            PROVE  FALSE
        BY <1>0, <3>1 DEF Drive!Goes, Drive!TaskStates
      <3> QED BY <2>1, <3>1 DEF Drive!ResumeAndClean
    <2> QED BY <1>8, <1>9, <2>1, <2>2, <2>3 DEF Drive!CleanupStep, Drive!BeginCleanup
  <1>11. task'[c].todo = Drive!Targets(c)
    BY <1>0, <1>10 DEF Drive!Goes, Drive!TaskStates
  <1> QED BY <1>11 DEF Drive!Targets, Drive!Collected

\* lark_pdf_flow.py, email_feishu_delivery.py and the card actions: for any
\* number of clicks, uploads and handles no file is forgotten silently, the PDF
\* a card links to is only deleted by a cleanup, a mail is read only after its
\* card was accepted, and a cleanup deletes only what its click had seen.
THEOREM DriveHolds ==
    ASSUME Drive!DriveAssumption
    PROVE  Drive!Spec => []Drive!DriveInv /\ Drive!CleanupSparesNewer
PROOF
  <1>1. Drive!Init => Drive!DriveInductive
    BY DriveStarts
  <1>2. Drive!DriveInductive /\ [Drive!Next]_(Drive!vars) => Drive!DriveInductive'
    BY DriveSteps, DriveStutters
  <1>3. Drive!DriveInductive => Drive!DriveInv
    BY DEF Drive!DriveInductive
  <1>4. Drive!DriveInductive /\ [Drive!Next]_(Drive!vars) =>
           [\A c \in Cleanups :
               Drive!At(c, "queued") /\ task'[c].pc = "sweep" /\ task'[c].ctx # "resume" =>
                   task'[c].todo \subseteq Drive!Collected(task[c].pdf,
                                                           task[c].handles)]_(Drive!vars)
    BY CleanupsSpare
  <1> QED BY <1>1, <1>2, <1>3, <1>4, PTL DEF Drive!Spec, Drive!CleanupSparesNewer

-----------------------------------------------------------------------------
(* The daily digest: clock, windows and lists of parts.                     *)

\* A completed day is a window, and windows grow with the clock.
LEMMA DigestNumbers ==
    ASSUME Digest!DigestAssumption
    PROVE  /\ MaxParts \in Nat /\ MaxParts >= 1 /\ Day \in Nat /\ Day >= 1 /\ MaxClock \in Nat
           /\ Flight \in Nat /\ Delay \in Nat /\ Flight < Delay
           /\ MaxClock \div Day \in Nat
           /\ \A t \in Digest!Times : Day <= t => t \div Day \in Digest!Windows
           /\ \A t \in Digest!Times : t \in Nat /\ t <= MaxClock /\ t \div Day \in Nat
                               /\ (t + 1) \div Day \in Nat /\ t \div Day <= (t + 1) \div Day
           /\ Digest!Windows \subseteq Nat /\ Digest!Parts \subseteq Nat
PROOF
  <1>1. /\ MaxParts \in Nat /\ MaxParts >= 1 /\ Day \in Nat /\ Day >= 1 /\ MaxClock \in Nat
        /\ Flight \in Nat /\ Delay \in Nat /\ Flight < Delay
    BY DEF Digest!DigestAssumption
  <1>2. \A a, b \in Nat : a <= b => a \div Day <= b \div Day
    BY <1>1
  <1>3. \A a \in Nat : a \div Day \in Nat
    BY <1>1
  <1>4. Day \div Day = 1
    BY <1>1
  <1>5. ASSUME NEW t \in Digest!Times, Day <= t
        PROVE  t \div Day \in Digest!Windows
    <2>1. t \in Nat /\ t <= MaxClock
      BY <1>1 DEF Digest!Times
    <2>2. Day \div Day <= t \div Day /\ t \div Day <= MaxClock \div Day
      BY <1>1, <1>2, <1>5, <2>1
    <2>3. t \div Day \in Nat /\ MaxClock \div Day \in Nat
      BY <1>1, <1>3, <2>1
    <2> QED BY <1>4, <2>2, <2>3 DEF Digest!Windows
  <1>6. ASSUME NEW t \in Digest!Times
        PROVE  t \in Nat /\ t <= MaxClock /\ t \div Day \in Nat
               /\ (t + 1) \div Day \in Nat /\ t \div Day <= (t + 1) \div Day
    <2>1. t \in Nat /\ t <= MaxClock /\ t + 1 \in Nat /\ t <= t + 1
      BY <1>1 DEF Digest!Times
    <2> QED BY <1>2, <1>3, <2>1
  <1>7. Digest!Windows \subseteq Nat /\ Digest!Parts \subseteq Nat
    BY DEF Digest!Windows, Digest!Parts
  <1> QED BY <1>1, <1>3, <1>5, <1>6, <1>7

\* The parts of an execution are numbered from 1; a list changed in place is
\* still one.
LEMMA PartLists1 ==
    ASSUME Digest!DigestAssumption, NEW p \in Digest!PartLists
    PROVE  /\ \E n \in 0..MaxParts : DOMAIN p = 1..n
           /\ \A i \in DOMAIN p : p[i] \in Digest!PartState
           /\ DOMAIN p \subseteq Digest!Parts
           /\ \A i \in DOMAIN p : \A j \in 1..(i - 1) : j \in DOMAIN p
PROOF
  <1>1. CASE p = <<>>
    BY <1>1, DigestNumbers
  <1>2. CASE p # <<>>
    <2>1. PICK n \in Digest!Parts : p \in [1..n -> Digest!PartState]
      BY <1>2 DEF Digest!PartLists
    <2>2. n \in Nat /\ n <= MaxParts
      BY DigestNumbers DEF Digest!Parts
    <2> QED BY <2>1, <2>2, DigestNumbers DEF Digest!Parts
  <1> QED BY <1>1, <1>2

LEMMA PartLists2 ==
    ASSUME Digest!DigestAssumption, NEW p \in Digest!PartLists, p # <<>>,
           NEW q \in [DOMAIN p -> Digest!PartState]
    PROVE  q \in Digest!PartLists /\ q # <<>>
PROOF
  <1>1. PICK n \in Digest!Parts : p \in [1..n -> Digest!PartState]
    BY DEF Digest!PartLists
  <1>2. DOMAIN q = 1..n /\ q \in [1..n -> Digest!PartState] /\ n \in Nat /\ n >= 1
    BY <1>1, DigestNumbers DEF Digest!Parts
  <1>3. 1 \in DOMAIN q
    BY <1>2
  <1>4. q # <<>>
    BY <1>3
  <1> QED BY <1>2, <1>4 DEF Digest!PartLists

\* Types and ConfirmedIsPosted follow from the other parts of the invariant.
LEMMA TypesFollow ==
    ASSUME Digest!DigestAssumption, Digest!Shapes', now' \in Digest!Times,
           received' \in [DigestMails -> [state : {"none", "writing", "stored"},
                                          received : Digest!Times]],
           reported' \subseteq Digest!Windows,
           requests' \subseteq [window : Digest!Windows, part : Digest!Parts, at : Digest!Times,
                                by : Schedulers],
           chat' \in [Digest!Windows \X Digest!Parts -> Nat],
           \A w \in Digest!Windows : (execution'[w].state = "missing") = (execution'[w].parts = <<>>)
    PROVE  Digest!TypeOK'
PROOF
  <1>1. ASSUME NEW w \in Digest!Windows
        PROVE  /\ execution'[w].state \in {"missing", "pending", "confirmed", "missed"}
               /\ \E n \in 0..MaxParts : DOMAIN execution'[w].parts = 1..n
               /\ \A i \in DOMAIN execution'[w].parts : execution'[w].parts[i] \in Digest!PartState
               /\ execution'[w].emails \subseteq DigestMails
               /\ execution'[w].missed \subseteq Digest!Windows
    <2>1. execution'[w] \in Digest!Rows
      BY DEF Digest!Shapes
    <2>2. execution'[w].parts \in Digest!PartLists
      BY <2>1 DEF Digest!Rows
    <2> QED BY <2>1, <2>2, PartLists1 DEF Digest!Rows
  <1>2. \A s \in Schedulers :
          /\ sched'[s].pc \in {"idle", "due", "get", "ensure", "deliver", "reconcile",
                               "apply", "sending", "accepted", "rejected"}
          /\ sched'[s].window \in Digest!Windows \union {0}
          /\ sched'[s].part \in Digest!Parts \union {0}
          /\ sched'[s].emails \subseteq DigestMails /\ sched'[s].missed \subseteq Digest!Windows
          /\ sched'[s].found \subseteq Digest!Parts
    BY DEF Digest!Shapes, Digest!Runs
  <1> QED BY <1>1, <1>2 DEF Digest!TypeOK

LEMMA ConfirmedFollows ==
    ASSUME Digest!DigestAssumption, Digest!Shapes', Digest!PartsInOrder', Digest!ChatAgrees'
    PROVE  Digest!ConfirmedIsPosted'
PROOF
  <1>1. ASSUME NEW w \in Digest!Windows, NEW i \in DOMAIN execution'[w].parts
        PROVE  /\ execution'[w].parts[i].state = "confirmed" => chat'[<<w, i>>] > 0
               /\ chat'[<<w, i>>] > 0 => \A j \in 1..(i - 1) : chat'[<<w, j>>] > 0
    <2>1. execution'[w].parts \in Digest!PartLists
      BY DEF Digest!Shapes, Digest!Rows
    <2>2. /\ DOMAIN execution'[w].parts \subseteq Digest!Parts
          /\ \A j \in 1..(i - 1) : j \in DOMAIN execution'[w].parts
      BY <2>1, PartLists1
    <2>3. execution'[w].parts[i].state = "confirmed" => chat'[<<w, i>>] > 0
      BY <2>2 DEF Digest!ChatAgrees, Digest!Part
    <2>4. ASSUME chat'[<<w, i>>] > 0, NEW j \in 1..(i - 1)
          PROVE  chat'[<<w, j>>] > 0
      <3>1. execution'[w].parts[i].state # "pending"
        BY <2>2, <2>4 DEF Digest!ChatAgrees, Digest!Part
      <3>2. execution'[w].parts[j].state = "confirmed"
        BY <3>1 DEF Digest!PartsInOrder, Digest!Part
      <3> QED BY <2>2, <3>2 DEF Digest!ChatAgrees, Digest!Part
    <2> QED BY <2>3, <2>4
  <1> QED BY <1>1 DEF Digest!ConfirmedIsPosted

\* What a step must leave alone for the windows to be taken up in their order.
LEMMA WindowsKeep ==
    ASSUME Digest!DigestInductive, now' = now, reported \subseteq reported',
           \A v \in Digest!Windows :
               /\ execution'[v].missed = execution[v].missed
               /\ execution'[v].state = "missing" <=> execution[v].state = "missing"
               /\ execution'[v].state = "pending" => execution[v].state = "pending"
               /\ execution'[v].state = "missed" => execution[v].state = "missed",
           \A s \in Schedulers :
               \/ sched'[s].pc = "idle"
               \/ /\ sched[s].pc \notin {"idle", "due"}
                  /\ sched'[s].pc \notin {"idle", "due", "ensure"}
                  /\ sched'[s].window = sched[s].window
    PROVE  Digest!WindowsInOrder'
PROOF
  <1>1. \A v : Digest!SnapshotMissed(v)' \subseteq Digest!SnapshotMissed(v)
    BY DEF Digest!SnapshotMissed
  <1>2. Digest!latest_completed' = Digest!latest_completed
    BY DEF Digest!latest_completed
  <1> QED BY <1>1, <1>2 DEF Digest!DigestInductive, Digest!WindowsInOrder

\* _write_parts_and_refresh_state: one window's parts, and with the last of
\* them confirmed the execution and the misses it names.
LEMMA WriteKeeps ==
    ASSUME Digest!DigestAssumption, Digest!DigestInductive, NEW w \in Digest!Windows,
           NEW parts \in [DOMAIN execution[w].parts -> Digest!PartState],
           execution[w].state = "pending", Digest!_write_parts_and_refresh_state(w, parts)
    PROVE  /\ execution' \in [Digest!Windows -> Digest!Rows]
           /\ execution'[w].parts = parts
                  /\ \A v \in Digest!Windows \ {w} : execution'[v] = execution[v]
           /\ \A v \in Digest!Windows :
                 /\ execution'[v].missed = execution[v].missed
                 /\ execution'[v].state = "missing" <=> execution[v].state = "missing"
                 /\ execution'[v].state = "pending" => execution[v].state = "pending"
                 /\ execution'[v].state = "missed" => execution[v].state = "missed"
                 /\ (execution'[v].state = "missing") = (execution'[v].parts = <<>>)
           /\ reported \subseteq reported' /\ reported' \subseteq Digest!Windows
           /\ Digest!MissedIsReported'
PROOF
  <1> DEFINE all == \A i \in DOMAIN parts : parts[i].state = "confirmed"
  <1>1. /\ execution \in [Digest!Windows -> Digest!Rows] /\ execution[w] \in Digest!Rows
        /\ execution[w].parts \in Digest!PartLists /\ execution[w].parts # <<>>
        /\ \A v \in Digest!Windows : (execution[v].state = "missing") = (execution[v].parts = <<>>)
    BY DEF Digest!DigestInductive, Digest!DigestInv, Digest!Shapes, Digest!Rows, Digest!TypeOK
  <1>2. parts \in Digest!PartLists /\ parts # <<>>
    BY <1>1, PartLists2
  <1>3. /\ execution' = [execution EXCEPT ![w].parts = parts,
                                          ![w].state = IF all THEN "confirmed" ELSE @]
        /\ reported' = reported \union
              {v \in Digest!Windows : all /\ execution[v].state = "missed" /\ v < w}
    BY DEF Digest!_write_parts_and_refresh_state
  <1> HIDE DEF all
  <1> DEFINE row == [execution[w] EXCEPT !.parts = parts,
                                         !.state = IF all THEN "confirmed" ELSE "pending"]
  <1>4. execution' = [execution EXCEPT ![w] = row]
    BY <1>1, <1>3 DEF Digest!Rows
  <1>5. /\ row \in Digest!Rows /\ row.parts = parts /\ row.missed = execution[w].missed
        /\ row.state = IF all THEN "confirmed" ELSE "pending"
    BY <1>1, <1>2 DEF Digest!Rows
  <1> HIDE DEF row
  <1>6. /\ execution' \in [Digest!Windows -> Digest!Rows] /\ execution'[w] = row
        /\ \A v \in Digest!Windows \ {w} : execution'[v] = execution[v]
    BY <1>1, <1>4, <1>5
  <1>7. \A v \in Digest!Windows :
           /\ execution'[v].missed = execution[v].missed
           /\ execution'[v].state = "missing" <=> execution[v].state = "missing"
           /\ execution'[v].state = "pending" => execution[v].state = "pending"
           /\ execution'[v].state = "missed" => execution[v].state = "missed"
           /\ (execution'[v].state = "missing") = (execution'[v].parts = <<>>)
    BY <1>1, <1>2, <1>5, <1>6
  <1>8. reported \subseteq reported' /\ reported' \subseteq Digest!Windows
    BY <1>3 DEF Digest!DigestInductive, Digest!DigestInv, Digest!TypeOK
  <1>9. ASSUME NEW u \in reported'
        PROVE  \E v \in Digest!Windows : Digest!Confirmed(v)' /\ u \in execution'[v].missed
    <2>1. CASE u \in reported
      <3>1. PICK v \in Digest!Windows : Digest!Confirmed(v) /\ u \in execution[v].missed
        BY <2>1 DEF Digest!DigestInductive, Digest!DigestInv, Digest!MissedIsReported
      <3>2. v # w
        BY <3>1 DEF Digest!Confirmed
      <3> QED BY <1>6, <3>1, <3>2 DEF Digest!Confirmed
    <2>2. CASE u \notin reported
      <3>1. all /\ u \in Digest!Windows /\ execution[u].state = "missed" /\ u < w
        BY <1>3, <2>2
      <3>2. u \in Digest!SnapshotMissed(w)
        BY <2>2, <3>1 DEF Digest!SnapshotMissed
      <3>3. u \in execution[w].missed
        BY <3>2 DEF Digest!DigestInductive, Digest!WindowsInOrder
      <3> QED BY <1>5, <1>6, <3>1, <3>3 DEF Digest!Confirmed
    <2> QED BY <2>1, <2>2
  <1>10. Digest!MissedIsReported'
    BY <1>9 DEF Digest!MissedIsReported
  <1> QED BY <1>5, <1>6, <1>7, <1>8, <1>10

\* How a run of the scheduler moves.
LEMMA IdleRuns ==
    /\ Digest!Idle \in Digest!Runs /\ Digest!Idle.pc = "idle" /\ Digest!Idle.window = 0
    /\ Digest!Idle.part = 0
    /\ Digest!Idle.found = {}
PROOF
  BY DEF Digest!Idle, Digest!Runs

LEMMA RunMoves ==
    ASSUME Digest!Shapes, NEW s \in Schedulers, NEW to \in Digest!Runs,
           sched' = [sched EXCEPT ![s] = to]
    PROVE  /\ sched' \in [Schedulers -> Digest!Runs] /\ sched'[s] = to
           /\ \A t \in Schedulers \ {s} : sched'[t] = sched[t]
PROOF
  BY DEF Digest!Shapes

\* Steps that move only the run.
LEMMA OnlyRuns ==
    ASSUME Digest!DigestInductive, UNCHANGED <<now, received, execution, reported, requests,
                                               chat>>,
           sched' \in [Schedulers -> Digest!Runs],
           \A s \in Schedulers : sched'[s].pc # "idle" => sched'[s].window \in Digest!Windows,
           Digest!WindowsInOrder', \A s \in Schedulers : Digest!RunAgrees(s)'
    PROVE  Digest!DigestInductive'
PROOF
  <1>1. Digest!Shapes'
    BY DEF Digest!DigestInductive, Digest!Shapes
  <1>2. Digest!TypeOK'
    BY DEF Digest!DigestInductive, Digest!DigestInv, Digest!TypeOK, Digest!Runs
  <1>3. Digest!PostedOnce' /\ Digest!ConfirmedIsPosted' /\ Digest!MissedIsReported'
    BY DEF Digest!DigestInductive, Digest!DigestInv, Digest!PostedOnce,
         Digest!ConfirmedIsPosted, Digest!MissedIsReported, Digest!Confirmed
  <1>4. Digest!PartsInOrder' /\ Digest!RequestsAreOpen' /\ Digest!ChatAgrees'
    BY DEF Digest!DigestInductive, Digest!PartsInOrder, Digest!RequestsAreOpen,
         Digest!ChatAgrees, Digest!Part, Digest!Open
  <1> QED BY <1>1, <1>2, <1>3, <1>4 DEF Digest!DigestInductive, Digest!DigestInv

\* run_due takes up the latest completed window.
LEMMA RunDueKeeps ==
    ASSUME Digest!DigestAssumption, Digest!DigestInductive, NEW s, Schedulers = {s},
           Digest!run_due(s)
    PROVE  Digest!DigestInductive'
PROOF
  <1> DEFINE to == [Digest!Idle EXCEPT !.pc = "due", !.window = Digest!latest_completed]
  <1>1. Digest!latest_completed \in Digest!Windows
    BY DigestNumbers
    DEF Digest!DigestInductive, Digest!DigestInv, Digest!TypeOK, Digest!WindowsInOrder,
         Digest!latest_completed
  <1>2. to \in Digest!Runs /\ to.pc = "due" /\ to.window = Digest!latest_completed
    BY <1>1, IdleRuns DEF Digest!Runs
  <1>3. sched' \in [Schedulers -> Digest!Runs] /\ sched'[s] = to
    <2>1. sched' = [sched EXCEPT ![s] = to]
      BY DEF Digest!run_due
    <2> QED BY <1>2, <2>1, RunMoves DEF Digest!DigestInductive
  <1>4. UNCHANGED <<now, received, execution, reported, requests, chat>>
    BY DEF Digest!run_due
  <1>5. Digest!WindowsInOrder'
    <2>1. Digest!latest_completed' = Digest!latest_completed
      BY <1>4 DEF Digest!latest_completed
    <2>2. \A v : Digest!SnapshotMissed(v)' = Digest!SnapshotMissed(v)
      BY <1>4 DEF Digest!SnapshotMissed
    <2>3. Digest!latest_completed \in Nat /\ Digest!latest_completed <= Digest!latest_completed
      BY <1>1, DigestNumbers
    <2>4. \A t \in Schedulers : sched'[t].pc = "due"
              /\ sched'[t].window = Digest!latest_completed
      BY <1>2, <1>3
    <2> QED
      BY <1>4, <2>1, <2>2, <2>3, <2>4 DEF Digest!DigestInductive, Digest!WindowsInOrder
  <1>6. \A t \in Schedulers : Digest!RunAgrees(t)'
    BY <1>2, <1>3 DEF Digest!RunAgrees
  <1> QED BY <1>1, <1>2, <1>3, <1>4, <1>5, <1>6, OnlyRuns

\* A run that returns gives its knowledge up.
LEMMA ReturnKeeps ==
    ASSUME Digest!DigestAssumption, Digest!DigestInductive, NEW s, Schedulers = {s},
           Digest!Return(s),
           UNCHANGED <<now, received, execution, reported, requests, chat>>
    PROVE  Digest!DigestInductive'
PROOF
  <1>1. sched' \in [Schedulers -> Digest!Runs] /\ sched'[s] = Digest!Idle
    BY IdleRuns, RunMoves DEF Digest!DigestInductive, Digest!Return
  <1>2. Digest!WindowsInOrder'
    <2>1. \A t \in Schedulers : sched'[t].pc = "idle"
      BY <1>1, IdleRuns
    <2>2. /\ now' = now /\ reported \subseteq reported'
          /\ \A v \in Digest!Windows :
                /\ execution'[v].missed = execution[v].missed
                /\ execution'[v].state = "missing" <=> execution[v].state = "missing"
                /\ execution'[v].state = "pending" => execution[v].state = "pending"
                /\ execution'[v].state = "missed" => execution[v].state = "missed"
      OBVIOUS
    <2> QED BY <2>1, <2>2, WindowsKeep
  <1>3. \A t \in Schedulers : Digest!RunAgrees(t)'
    BY <1>1, IdleRuns DEF Digest!RunAgrees
  <1> QED BY <1>1, <1>2, <1>3, IdleRuns, OnlyRuns

\* get_execution, and the snapshot of mails and misses.
LEMMA GetExecutionKeeps ==
    ASSUME Digest!DigestAssumption, Digest!DigestInductive, NEW s, Schedulers = {s},
           Digest!GetExecution(s)
    PROVE  Digest!DigestInductive'
PROOF
  <1> DEFINE w == sched[s].window
  <1>1. /\ sched[s].pc = "get" /\ w \in Digest!Windows /\ sched[s] \in Digest!Runs
        /\ Digest!Shapes
        /\ UNCHANGED <<now, received, execution, reported, requests, chat>>
    BY DEF Digest!GetExecution, Digest!DigestInductive, Digest!Shapes
  <1>2. CASE execution[w].state = "missing"
    <2> DEFINE to == [sched[s] EXCEPT !.pc = "ensure", !.emails = Digest!SnapshotEmails(w),
                                      !.missed = Digest!SnapshotMissed(w)]
    <2>1. Digest!SnapshotEmails(w) \subseteq DigestMails
          /\ Digest!SnapshotMissed(w) \subseteq Digest!Windows
      BY DEF Digest!SnapshotEmails, Digest!SnapshotMissed
    <2>2. to \in Digest!Runs /\ to.pc = "ensure" /\ to.window = w
          /\ to.missed = Digest!SnapshotMissed(w)
      BY <1>1, <2>1 DEF Digest!Runs
    <2>3. sched' = [sched EXCEPT ![s] = to]
      BY <1>1, <1>2 DEF Digest!GetExecution, Digest!Shapes, Digest!Runs
    <2> HIDE DEF to
    <2>4. sched' \in [Schedulers -> Digest!Runs] /\ sched'[s] = to
      BY <1>1, <2>2, <2>3, RunMoves
    <2>5. Digest!WindowsInOrder'
      <3>1. Digest!latest_completed' = Digest!latest_completed
        BY <1>1 DEF Digest!latest_completed
      <3>2. \A v : Digest!SnapshotMissed(v)' = Digest!SnapshotMissed(v)
        BY <1>1 DEF Digest!SnapshotMissed
      <3> QED
        BY <1>1, <2>2, <2>4, <3>1, <3>2 DEF Digest!DigestInductive, Digest!WindowsInOrder
    <2>6. \A t \in Schedulers : Digest!RunAgrees(t)'
      BY <2>2, <2>4 DEF Digest!RunAgrees
    <2> QED BY <1>1, <2>2, <2>4, <2>5, <2>6, OnlyRuns
  <1>3. CASE execution[w].state = "pending"
    <2> DEFINE to == [sched[s] EXCEPT !.pc = "deliver"]
    <2>1. to \in Digest!Runs /\ to.pc = "deliver" /\ to.window = w
      BY <1>1 DEF Digest!Runs
    <2>2. sched' = [sched EXCEPT ![s] = to]
      BY <1>1, <1>3 DEF Digest!GetExecution, Digest!Goto, Digest!Shapes, Digest!Runs
    <2> HIDE DEF to
    <2>3. sched' \in [Schedulers -> Digest!Runs] /\ sched'[s] = to
      BY <1>1, <2>1, <2>2, RunMoves
    <2>4. Digest!WindowsInOrder'
      BY <1>1, <2>1, <2>3, WindowsKeep
    <2>5. \A t \in Schedulers : Digest!RunAgrees(t)'
      BY <2>1, <2>3 DEF Digest!RunAgrees
    <2> QED BY <1>1, <2>1, <2>3, <2>4, <2>5, OnlyRuns
  <1>4. CASE execution[w].state \notin {"missing", "pending"}
    <2>1. Digest!Return(s)
      BY <1>4 DEF Digest!GetExecution
    <2> QED BY <1>1, <2>1, ReturnKeeps
  <1> QED BY <1>2, <1>3, <1>4

\* find_daily_digest_headers reads the chat once no request of the parts in
\* question can still be on its way.
LEMMA ReconcileKeeps ==
    ASSUME Digest!DigestAssumption, Digest!DigestInductive, NEW s, Schedulers = {s},
           Digest!Reconcile(s)
    PROVE  Digest!DigestInductive'
PROOF
  <1> DEFINE w == sched[s].window
  <1>1. /\ sched[s].pc = "deliver" /\ w \in Digest!Windows /\ sched[s] \in Digest!Runs
        /\ Digest!Shapes
        /\ execution[w].state = "pending" /\ execution[w].parts \in Digest!PartLists
        /\ UNCHANGED <<now, received, execution, reported, requests, chat>>
    BY DEF Digest!Reconcile, Digest!Reconcilable, Digest!DigestInductive, Digest!Shapes,
         Digest!Rows
  <1>2. CASE Digest!Return(s)
    BY <1>1, <1>2, ReturnKeeps
  <1>3. CASE ~Digest!Return(s)
    <2> DEFINE seen == {i \in Digest!reconciliation_candidates(w) : chat[<<w, i>>] > 0}
               to == [sched[s] EXCEPT !.pc = "apply", !.found = seen]
    <2>1. seen \subseteq Digest!Parts
      BY <1>1, PartLists1 DEF Digest!reconciliation_candidates
    <2>2. to \in Digest!Runs /\ to.pc = "apply" /\ to.window = w /\ to.found = seen
      BY <1>1, <2>1 DEF Digest!Runs
    <2>3. sched' = [sched EXCEPT ![s] = to]
      BY <1>1, <1>3 DEF Digest!Reconcile, Digest!Shapes, Digest!Runs
    <2> HIDE DEF to
    <2>4. sched' \in [Schedulers -> Digest!Runs] /\ sched'[s] = to
      BY <1>1, <2>2, <2>3, RunMoves
    <2>5. Digest!WindowsInOrder'
      BY <1>1, <2>2, <2>4, WindowsKeep
    <2>6. PICK c \in Digest!reconciliation_candidates(w) : TRUE
      BY DEF Digest!Reconcile, Digest!Reconcilable
    <2>7. ASSUME NEW j \in DOMAIN execution[w].parts, Digest!Open(Digest!Part(w, j))
          PROVE  ~Digest!InFlight(w, j) /\ (j \in seen <=> chat[<<w, j>>] > 0)
      <3>1. c \in DOMAIN execution[w].parts /\ Digest!Open(Digest!Part(w, c))
            /\ Digest!Part(w, c).last + Delay <= now
        BY <2>6 DEF Digest!reconciliation_candidates, Digest!Open, Digest!Part
      <3>2. c \in Nat /\ j \in Nat /\ c >= 1 /\ j >= 1
        BY <1>1, <2>7, <3>1, PartLists1, DigestNumbers DEF Digest!Parts
      <3>3. c = j
        <4>1. ~(c < j)
          BY <1>1, <2>7, <3>1, <3>2 DEF Digest!DigestInductive, Digest!PartsInOrder, Digest!Open
        <4>2. ~(j < c)
          BY <1>1, <2>7, <3>1, <3>2 DEF Digest!DigestInductive, Digest!PartsInOrder, Digest!Open
        <4> QED BY <3>2, <4>1, <4>2
      <3>4. ASSUME NEW r \in requests, r.window = w, r.part = j
            PROVE  FALSE
        <4>1. r.at = Digest!Part(w, c).last /\ now <= r.at + Flight
          BY <3>3, <3>4 DEF Digest!DigestInductive, Digest!RequestsAreOpen
        <4>2. now \in Nat /\ r.at \in Nat
          BY <3>4, DigestNumbers DEF Digest!DigestInductive, Digest!DigestInv, Digest!TypeOK
        <4> QED BY <3>1, <4>1, <4>2, DigestNumbers
      <3> QED BY <2>6, <3>3, <3>4 DEF Digest!InFlight
    <2> HIDE DEF seen
    <2>8. \A t \in Schedulers : Digest!RunAgrees(t)'
      BY <1>1, <2>2, <2>4, <2>7 DEF Digest!RunAgrees, Digest!InFlight, Digest!Part, Digest!Open
    <2> QED BY <1>1, <2>2, <2>4, <2>5, <2>8, OnlyRuns
  <1> QED BY <1>2, <1>3

\* The whole invariant from its parts.
LEMMA DigestParts ==
    ASSUME Digest!DigestAssumption, Digest!DigestInductive, UNCHANGED <<now, received>>,
           Digest!Shapes',
           reported' \subseteq Digest!Windows,
           requests' \subseteq [window : Digest!Windows, part : Digest!Parts, at : Digest!Times,
                                by : Schedulers],
           chat' \in [Digest!Windows \X Digest!Parts -> Nat],
           \A w \in Digest!Windows : (execution'[w].state = "missing") = (execution'[w].parts = <<>>),
           Digest!PostedOnce', Digest!MissedIsReported', Digest!PartsInOrder',
           Digest!RequestsAreOpen', Digest!ChatAgrees',
           Digest!WindowsInOrder', \A s \in Schedulers : Digest!RunAgrees(s)'
    PROVE  Digest!DigestInductive'
PROOF
  <1>1. /\ now' \in Digest!Times
        /\ received' \in [DigestMails -> [state : {"none", "writing", "stored"},
                                          received : Digest!Times]]
    BY DEF Digest!DigestInductive, Digest!DigestInv, Digest!TypeOK
  <1>2. Digest!TypeOK'
    BY <1>1, TypesFollow
  <1>3. Digest!ConfirmedIsPosted'
    BY ConfirmedFollows
  <1> QED BY <1>2, <1>3 DEF Digest!DigestInductive, Digest!DigestInv

\* Time passes; a request does not outlive Flight.
LEMMA TickKeeps ==
    ASSUME Digest!DigestAssumption, Digest!DigestInductive, Digest!Tick
    PROVE  Digest!DigestInductive'
PROOF
  <1>1. /\ now \in Digest!Times /\ now < MaxClock /\ now' = now + 1
        /\ UNCHANGED <<received, execution, reported, requests, chat, sched>>
    BY DEF Digest!Tick, Digest!DigestInductive, Digest!DigestInv, Digest!TypeOK
  <1>2. now' \in Digest!Times /\ now <= now'
    BY <1>1, DigestNumbers DEF Digest!Times
  <1>3. Digest!latest_completed \in Nat /\ Digest!latest_completed' \in Nat
        /\ Digest!latest_completed <= Digest!latest_completed'
    BY <1>1, DigestNumbers DEF Digest!latest_completed
  <1>4. Digest!DigestInv' /\ Digest!Shapes'
    <2>1. Digest!TypeOK'
      BY <1>1, <1>2 DEF Digest!DigestInductive, Digest!DigestInv, Digest!TypeOK
    <2> QED
      BY <1>1, <2>1
      DEF Digest!DigestInductive, Digest!DigestInv, Digest!Shapes, Digest!PostedOnce,
           Digest!ConfirmedIsPosted, Digest!MissedIsReported,
          Digest!Confirmed
  <1>5. Digest!PartsInOrder' /\ Digest!ChatAgrees'
    BY <1>1 DEF Digest!DigestInductive, Digest!PartsInOrder, Digest!ChatAgrees, Digest!Part
  <1>6. Digest!RequestsAreOpen'
    <2>1. \A r \in requests : now' <= r.at + Flight
      <3>1. \A r \in requests : now < r.at + Flight /\ r.at \in Digest!Times
        BY DEF Digest!Tick, Digest!DigestInductive, Digest!DigestInv, Digest!TypeOK
      <3>2. \A r \in requests : r.at \in Nat
        BY <3>1, DigestNumbers
      <3>3. now \in Nat
        BY <1>1, DigestNumbers
      <3> QED BY <1>1, <3>1, <3>2, <3>3, DigestNumbers
    <2> QED BY <1>1, <2>1 DEF Digest!DigestInductive, Digest!RequestsAreOpen, Digest!Part,
         Digest!Open
  <1>7. Digest!WindowsInOrder'
    <2>1. \A v : Digest!SnapshotMissed(v)' = Digest!SnapshotMissed(v)
      BY <1>1 DEF Digest!SnapshotMissed
    <2>2. \A w \in Digest!Windows : w \in Nat
      BY DigestNumbers
    <2>3. \A t \in Schedulers : sched[t].pc # "idle" => sched[t].window \in Nat
      BY <2>2 DEF Digest!DigestInductive, Digest!Shapes
    <2>4. Day <= now'
      BY <1>1, <1>2, DigestNumbers DEF Digest!DigestInductive, Digest!WindowsInOrder,
           Digest!Times
    <2>5. \A w \in Digest!Windows : execution[w].state # "missing" =>
              w <= Digest!latest_completed'
      BY <1>3, <2>2 DEF Digest!DigestInductive, Digest!WindowsInOrder
    <2>6. \A t \in Schedulers : sched[t].pc # "idle" =>
              sched[t].window <= Digest!latest_completed'
      BY <1>3, <2>3 DEF Digest!DigestInductive, Digest!WindowsInOrder
    <2> QED
      BY <1>1, <2>1, <2>4, <2>5, <2>6 DEF Digest!DigestInductive, Digest!WindowsInOrder
  <1>8. \A t \in Schedulers : Digest!RunAgrees(t)'
    BY <1>1 DEF Digest!DigestInductive, Digest!RunAgrees, Digest!InFlight, Digest!Part,
         Digest!Open
  <1> QED BY <1>4, <1>5, <1>6, <1>7, <1>8 DEF Digest!DigestInductive

\* Mails arrive in the inbox.
LEMMA MailKeeps ==
    ASSUME Digest!DigestAssumption, Digest!DigestInductive, NEW m \in DigestMails,
           Digest!ReceiveMail(m) \/ Digest!CommitMail(m)
    PROVE  Digest!DigestInductive'
PROOF
  <1>1. UNCHANGED <<now, execution, reported, requests, chat, sched>>
    BY DEF Digest!ReceiveMail, Digest!CommitMail
  <1>2. received' \in [DigestMails -> [state : {"none", "writing", "stored"},
                                       received : Digest!Times]]
    BY DEF Digest!ReceiveMail, Digest!CommitMail, Digest!DigestInductive, Digest!DigestInv,
         Digest!TypeOK
  <1>3. Digest!DigestInv' /\ Digest!Shapes'
    <2>1. Digest!TypeOK'
      BY <1>1, <1>2 DEF Digest!DigestInductive, Digest!DigestInv, Digest!TypeOK
    <2> QED
      BY <1>1, <2>1
      DEF Digest!DigestInductive, Digest!DigestInv, Digest!Shapes, Digest!PostedOnce,
           Digest!ConfirmedIsPosted, Digest!MissedIsReported,
          Digest!Confirmed
  <1>4. Digest!PartsInOrder' /\ Digest!ChatAgrees' /\ Digest!RequestsAreOpen'
    BY <1>1 DEF Digest!DigestInductive, Digest!PartsInOrder, Digest!ChatAgrees,
         Digest!RequestsAreOpen, Digest!Part, Digest!Open
  <1>5. Digest!WindowsInOrder'
    <2>1. \A v : Digest!SnapshotMissed(v)' = Digest!SnapshotMissed(v)
      BY <1>1 DEF Digest!SnapshotMissed
    <2>2. Digest!latest_completed' = Digest!latest_completed
      BY <1>1 DEF Digest!latest_completed
    <2> QED BY <1>1, <2>1, <2>2 DEF Digest!DigestInductive, Digest!WindowsInOrder
  <1>6. \A t \in Schedulers : Digest!RunAgrees(t)'
    BY <1>1 DEF Digest!DigestInductive, Digest!RunAgrees, Digest!InFlight, Digest!Part,
         Digest!Open
  <1> QED BY <1>3, <1>4, <1>5, <1>6 DEF Digest!DigestInductive

\* A request that arrives or is refused, and what its run hears of it.
LEMMA AnswerMoves ==
    ASSUME Digest!DigestInductive, NEW s, Schedulers = {s}, NEW r \in requests,
           NEW answer \in {"accepted", "rejected"}, Digest!Answer(r, answer)
    PROVE  /\ sched' \in [Schedulers -> Digest!Runs]
           /\ \/ sched'[s] = sched[s]
                 /\ ~(sched[s].pc = "sending" /\ sched[s].window = r.window
                 /\ sched[s].part = r.part)
              \/ /\ sched[s].pc = "sending" /\ sched[s].window = r.window
                 /\ sched[s].part = r.part
                 /\ sched'[s].pc = answer /\ sched'[s].window = sched[s].window
                 /\ sched'[s].part = sched[s].part
PROOF
  <1>1. r.by = s /\ sched \in [Schedulers -> Digest!Runs] /\ sched[s] \in Digest!Runs
    BY DEF Digest!DigestInductive, Digest!DigestInv, Digest!TypeOK, Digest!Shapes
  <1> DEFINE to == [sched[s] EXCEPT !.pc = answer]
  <1>2. to \in Digest!Runs /\ to.pc = answer /\ to.window = sched[s].window
        /\ to.part = sched[s].part
    BY <1>1 DEF Digest!Runs
  <1>3. CASE sched[s].pc = "sending" /\ sched[s].window = r.window /\ sched[s].part = r.part
    <2>1. sched' = [sched EXCEPT ![s] = to]
      BY <1>1, <1>3 DEF Digest!Answer
    <2> HIDE DEF to
    <2> QED BY <1>1, <1>2, <1>3, <2>1
  <1>4. CASE ~(sched[s].pc = "sending" /\ sched[s].window = r.window /\ sched[s].part = r.part)
    BY <1>1, <1>4 DEF Digest!Answer
  <1> QED BY <1>3, <1>4

\* Feishu accepts or refuses the one request that is out for a part.
LEMMA AcceptKeeps ==
    ASSUME Digest!DigestAssumption, Digest!DigestInductive, NEW s, Schedulers = {s},
           NEW r \in requests,
           Digest!Accept(r) \/ Digest!Reject(r)
    PROVE  Digest!DigestInductive'
PROOF
  <1>1. /\ r \in [window : Digest!Windows, part : Digest!Parts, at : Digest!Times,
                  by : Schedulers]
        /\ UNCHANGED <<now, received, execution, reported>> /\ requests' = requests \ {r}
        /\ r.part \in DOMAIN execution[r.window].parts
        /\ Digest!Open(Digest!Part(r.window, r.part))
        /\ chat[<<r.window, r.part>>] = 0
        /\ chat \in [Digest!Windows \X Digest!Parts -> Nat]
    BY DEF Digest!Accept, Digest!Reject, Digest!DigestInductive, Digest!DigestInv,
         Digest!TypeOK, Digest!RequestsAreOpen
  <1>2. PICK answer \in {"accepted", "rejected"} :
           /\ Digest!Answer(r, answer)
           /\ answer = "accepted" => chat' = [chat EXCEPT ![<<r.window, r.part>>] = @ + 1]
           /\ answer = "rejected" => chat' = chat
    BY DEF Digest!Accept, Digest!Reject
  <1>3. /\ chat' \in [Digest!Windows \X Digest!Parts -> Nat]
        /\ \A w \in Digest!Windows, i \in Digest!Parts :
              ~(w = r.window /\ i = r.part) => chat'[<<w, i>>] = chat[<<w, i>>]
        /\ chat'[<<r.window, r.part>>] = IF answer = "accepted" THEN 1 ELSE 0
    BY <1>1, <1>2
  <1>4. /\ sched' \in [Schedulers -> Digest!Runs]
        /\ \/ sched'[s] = sched[s]
              /\ ~(sched[s].pc = "sending" /\ sched[s].window = r.window
              /\ sched[s].part = r.part)
           \/ /\ sched[s].pc = "sending" /\ sched[s].window = r.window
              /\ sched[s].part = r.part
              /\ sched'[s].pc = answer /\ sched'[s].window = sched[s].window
              /\ sched'[s].part = sched[s].part
    BY <1>2, AnswerMoves
  \* One request for a slot.
  <1>5. ASSUME NEW q \in requests, q.window = r.window, q.part = r.part
        PROVE  q = r
    <2>1. q.at = r.at
      BY <1>5 DEF Digest!DigestInductive, Digest!RequestsAreOpen
    <2>2. q.by = s /\ r.by = s /\ q \in [window : Digest!Windows, part : Digest!Parts,
                                         at : Digest!Times, by : Schedulers]
      BY <1>1 DEF Digest!DigestInductive, Digest!DigestInv, Digest!TypeOK
    <2> QED BY <1>1, <1>5, <2>1, <2>2
  <1>6. Digest!Shapes'
    BY <1>1, <1>4 DEF Digest!DigestInductive, Digest!Shapes
  <1>7. Digest!PostedOnce'
    <2>1. ASSUME NEW wp \in Digest!Windows \X Digest!Parts
          PROVE  chat'[wp] <= 1
      <3>1. PICK w \in Digest!Windows, i \in Digest!Parts : wp = <<w, i>>
        OBVIOUS
      <3>2. chat[<<w, i>>] <= 1
        BY <1>1, <3>1 DEF Digest!DigestInductive, Digest!DigestInv, Digest!PostedOnce
      <3> QED BY <1>3, <3>1, <3>2
    <2> QED BY <1>3, <2>1 DEF Digest!PostedOnce
  <1>8. Digest!MissedIsReported' /\ Digest!PartsInOrder'
    BY <1>1
    DEF Digest!DigestInductive, Digest!DigestInv, Digest!MissedIsReported, Digest!Confirmed,
         Digest!PartsInOrder, Digest!Part
  <1>9. Digest!RequestsAreOpen'
    <2>1. ASSUME NEW q \in requests'
          PROVE  /\ q.part \in DOMAIN execution[q.window].parts
                 /\ Digest!Open(Digest!Part(q.window, q.part))
                 /\ q.at = Digest!Part(q.window, q.part).last
                 /\ chat'[<<q.window, q.part>>] = 0
                 /\ now <= q.at + Flight
      <3>1. q \in requests /\ q # r /\ q.window \in Digest!Windows /\ q.part \in Digest!Parts
        BY <1>1 DEF Digest!DigestInductive, Digest!DigestInv, Digest!TypeOK
      <3>2. chat'[<<q.window, q.part>>] = chat[<<q.window, q.part>>]
        BY <1>3, <1>5, <3>1
      <3> QED BY <3>1, <3>2 DEF Digest!DigestInductive, Digest!RequestsAreOpen
    <2> QED BY <1>1, <2>1 DEF Digest!RequestsAreOpen, Digest!Part, Digest!Open
  <1>10. Digest!ChatAgrees'
    <2>1. ASSUME NEW w \in Digest!Windows, NEW i \in Digest!Parts
          PROVE  /\ chat'[<<w, i>>] > 0 => /\ i \in DOMAIN execution[w].parts
                                           /\ Digest!Part(w, i).state # "pending"
                 /\ i \in DOMAIN execution[w].parts /\ Digest!Part(w, i).state = "confirmed" =>
                       chat'[<<w, i>>] > 0
      <3>1. CASE w = r.window /\ i = r.part
        BY <1>1, <3>1 DEF Digest!Open
      <3>2. CASE ~(w = r.window /\ i = r.part)
        BY <1>3, <3>2 DEF Digest!DigestInductive, Digest!ChatAgrees
      <3> QED BY <3>1, <3>2
    <2> QED BY <1>1, <2>1 DEF Digest!ChatAgrees, Digest!Part
  <1>11. Digest!WindowsInOrder'
    <2>1. \A t \in Schedulers : \/ sched'[t] = sched[t]
                                \/ /\ sched[t].pc = "sending"
                                   /\ sched'[t].pc \in {"accepted", "rejected"}
                                   /\ sched'[t].window = sched[t].window
      BY <1>4
    <2>2. Digest!latest_completed' = Digest!latest_completed
      BY <1>1 DEF Digest!latest_completed
    <2>3. \A v : Digest!SnapshotMissed(v)' = Digest!SnapshotMissed(v)
      BY <1>1 DEF Digest!SnapshotMissed
    <2> QED BY <1>1, <2>1, <2>2, <2>3 DEF Digest!DigestInductive, Digest!WindowsInOrder
  <1>12. Digest!RunAgrees(s)'
    <2> DEFINE w == sched[s].window
               i == sched[s].part
    <2>1. CASE /\ sched[s].pc = "sending" /\ w = r.window /\ i = r.part
               /\ sched'[s].pc = answer /\ sched'[s].window = w /\ sched'[s].part = i
      <3>1. Digest!Part(w, i).state = "sending" /\ i \in DOMAIN execution[w].parts
        BY <2>1 DEF Digest!DigestInductive, Digest!RunAgrees
      <3>2. ~Digest!InFlight(w, i)'
        BY <1>1, <1>5, <2>1 DEF Digest!InFlight
      <3> QED
        BY <1>1, <1>3, <2>1, <3>1, <3>2 DEF Digest!RunAgrees, Digest!Part
    <2>2. CASE /\ sched'[s] = sched[s]
               /\ ~(sched[s].pc = "sending" /\ w = r.window /\ i = r.part)
      <3>1. \A v, j : Digest!InFlight(v, j)' => Digest!InFlight(v, j)
        BY <1>1 DEF Digest!InFlight
      <3>2. sched[s].pc = "accepted" => chat'[<<w, i>>] > 0
        <4>1. sched[s].pc = "accepted" => chat[<<w, i>>] > 0 /\ i \in DOMAIN execution[w].parts
          BY DEF Digest!DigestInductive, Digest!RunAgrees
        <4>2. sched[s].pc = "accepted" => w \in Digest!Windows /\ i \in Digest!Parts
          <5>1. sched[s].pc = "accepted" =>
                    w \in Digest!Windows /\ execution[w].parts \in Digest!PartLists
            BY DEF Digest!DigestInductive, Digest!Shapes, Digest!Rows
          <5> QED BY <4>1, <5>1, PartLists1
        <4> QED BY <1>1, <1>3, <4>1, <4>2
      <3>3. sched[s].pc = "rejected" => chat'[<<w, i>>] = 0
        <4>1. sched[s].pc = "rejected" => chat[<<w, i>>] = 0 /\ ~Digest!InFlight(w, i)
                                          /\ i \in DOMAIN execution[w].parts
          BY DEF Digest!DigestInductive, Digest!RunAgrees
        <4>2. sched[s].pc = "rejected" => w \in Digest!Windows /\ i \in Digest!Parts
          <5>1. sched[s].pc = "rejected" =>
                    w \in Digest!Windows /\ execution[w].parts \in Digest!PartLists
            BY DEF Digest!DigestInductive, Digest!Shapes, Digest!Rows
          <5> QED BY <4>1, <5>1, PartLists1
        <4> QED BY <1>3, <4>1, <4>2 DEF Digest!InFlight
      <3>4. ASSUME sched[s].pc = "apply", NEW j \in DOMAIN execution[w].parts,
                   Digest!Open(Digest!Part(w, j))
            PROVE  ~Digest!InFlight(w, j) /\ chat'[<<w, j>>] = chat[<<w, j>>]
        <4>1. ~Digest!InFlight(w, j)
          BY <3>4 DEF Digest!DigestInductive, Digest!RunAgrees
        <4>2. w \in Digest!Windows /\ j \in Digest!Parts
          <5>1. w \in Digest!Windows /\ execution[w].parts \in Digest!PartLists
            BY <3>4 DEF Digest!DigestInductive, Digest!Shapes, Digest!Rows
          <5> QED BY <3>4, <5>1, PartLists1
        <4> QED BY <1>3, <4>1, <4>2 DEF Digest!InFlight
      <3> QED
        BY <1>1, <2>2, <3>1, <3>2, <3>3, <3>4
           DEF Digest!DigestInductive, Digest!RunAgrees, Digest!Part, Digest!Open
    <2> QED BY <1>4, <2>1, <2>2
  <1>13. /\ reported' \subseteq Digest!Windows
         /\ requests' \subseteq [window : Digest!Windows, part : Digest!Parts,
                                 at : Digest!Times, by : Schedulers]
         /\ \A w \in Digest!Windows : (execution'[w].state = "missing") = (execution'[w].parts = <<>>)
    BY <1>1 DEF Digest!DigestInductive, Digest!DigestInv, Digest!TypeOK
  <1> QED
    BY <1>1, <1>3, <1>6, <1>7, <1>8, <1>9, <1>10, <1>11, <1>12, <1>13, DigestParts

\* mark_expired_executions_missed: earlier windows end.
LEMMA MarkExpiredKeeps ==
    ASSUME Digest!DigestAssumption, Digest!DigestInductive, NEW s, Schedulers = {s},
           Digest!MarkExpired(s)
    PROVE  Digest!DigestInductive'
PROOF
  <1> DEFINE window == sched[s].window
             Expired(w) == execution[w].state = "pending" /\ w < window
             to == [sched[s] EXCEPT !.pc = "get"]
  <1>1. /\ sched[s].pc = "due" /\ window \in Digest!Windows /\ sched[s] \in Digest!Runs
        /\ Digest!Shapes
        /\ UNCHANGED <<now, received, reported, requests, chat>>
    BY DEF Digest!MarkExpired, Digest!DigestInductive, Digest!Shapes
  <1>2. to \in Digest!Runs /\ to.pc = "get" /\ to.window = window
    BY <1>1 DEF Digest!Runs
  <1>3. sched' \in [Schedulers -> Digest!Runs] /\ sched'[s] = to
    <2>1. sched' = [sched EXCEPT ![s] = to]
      BY <1>1 DEF Digest!MarkExpired, Digest!Goto, Digest!Shapes, Digest!Runs
    <2> HIDE DEF to
    <2> QED BY <1>1, <1>2, <2>1, RunMoves
  <1>4. /\ execution' \in [Digest!Windows -> Digest!Rows]
        /\ \A w \in Digest!Windows : /\ execution'[w].parts = execution[w].parts
                                     /\ execution'[w].missed = execution[w].missed
                                     /\ execution'[w].state = IF Expired(w) THEN "missed"
                                                              ELSE execution[w].state
    <2>1. execution' = [w \in Digest!Windows |-> IF Expired(w)
                           THEN [execution[w] EXCEPT !.state = "missed"] ELSE execution[w]]
      BY DEF Digest!MarkExpired, Digest!mark_expired_executions_missed
    <2>2. \A w \in Digest!Windows : LET row == [execution[w] EXCEPT !.state = "missed"]
                             IN /\ row \in Digest!Rows /\ row.parts = execution[w].parts
                                /\ row.missed = execution[w].missed /\ row.state = "missed"
      BY <1>1 DEF Digest!Shapes, Digest!Rows
    <2> HIDE DEF Expired
    <2> QED BY <1>1, <2>1, <2>2 DEF Digest!Shapes
  <1>5. Digest!Shapes'
    BY <1>1, <1>2, <1>3, <1>4 DEF Digest!Shapes
  <1>6. Digest!PostedOnce' /\ Digest!MissedIsReported'
    BY <1>1, <1>4 DEF Digest!DigestInductive, Digest!DigestInv, Digest!PostedOnce,
         Digest!MissedIsReported, Digest!Confirmed
  <1>7. Digest!PartsInOrder' /\ Digest!RequestsAreOpen' /\ Digest!ChatAgrees'
    <2>1. \A r \in requests : r.window \in Digest!Windows
      BY DEF Digest!DigestInductive, Digest!DigestInv, Digest!TypeOK
    <2> QED
      BY <1>1, <1>4, <2>1
      DEF Digest!DigestInductive, Digest!PartsInOrder, Digest!RequestsAreOpen,
           Digest!ChatAgrees, Digest!Part, Digest!Open
  <1>8. Digest!WindowsInOrder'
    <2>1. window \in Nat /\ \A w \in Digest!Windows : w \in Nat
      BY <1>1, DigestNumbers
    <2>2. Digest!latest_completed' = Digest!latest_completed
      BY <1>1 DEF Digest!latest_completed
    <2>3. /\ Day <= now /\ window <= Digest!latest_completed
          /\ \A w \in Digest!Windows : execution[w].state # "missing" =>
                w <= Digest!latest_completed /\ w <= window
          /\ \A v \in Digest!Windows : execution[v].state = "pending" =>
                /\ \A w \in Digest!Windows : w < v => execution[w].state # "pending"
                /\ Digest!SnapshotMissed(v) \subseteq execution[v].missed
      BY <1>1 DEF Digest!DigestInductive, Digest!WindowsInOrder
    <2>4. ASSUME NEW w \in Digest!Windows, w < window
          PROVE  execution'[w].state # "pending"
      BY <1>4, <2>4
    <2>5. ASSUME NEW v \in Digest!Windows, execution'[v].state = "pending"
          PROVE  /\ \A w \in Digest!Windows : w < v => execution'[w].state # "pending"
                 /\ Digest!SnapshotMissed(v)' \subseteq execution'[v].missed
      <3>1. v = window /\ execution[v].state = "pending"
        BY <1>4, <2>1, <2>3, <2>5
      <3>2. \A w \in Digest!Windows : ~Expired(w)
        BY <2>3, <3>1
      <3>3. Digest!SnapshotMissed(v)' = Digest!SnapshotMissed(v)
        BY <1>1, <1>4, <3>2 DEF Digest!SnapshotMissed
      <3> QED BY <1>4, <2>3, <2>4, <3>1, <3>3
    <2>6. \A w \in Digest!Windows : execution'[w].state # "missing" =>
              execution[w].state # "missing"
      BY <1>4
    <2>7. \A t \in Schedulers : sched'[t].pc = "get" /\ sched'[t].window = window
      BY <1>2, <1>3
    <2> HIDE DEF Expired, to, window
    <2> QED
      BY <1>1, <2>2, <2>3, <2>4, <2>5, <2>6, <2>7 DEF Digest!WindowsInOrder
  <1>9. Digest!RunAgrees(s)'
    BY <1>2, <1>3 DEF Digest!RunAgrees
  <1>10. /\ reported' \subseteq Digest!Windows
         /\ requests' \subseteq [window : Digest!Windows, part : Digest!Parts,
                                 at : Digest!Times, by : Schedulers]
         /\ chat' \in [Digest!Windows \X Digest!Parts -> Nat]
    BY <1>1 DEF Digest!DigestInductive, Digest!DigestInv, Digest!TypeOK
  <1>11. \A w \in Digest!Windows : (execution'[w].state = "missing") = (execution'[w].parts = <<>>)
    <2>1. \A w \in Digest!Windows : (execution[w].state = "missing") = (execution[w].parts = <<>>)
      BY DEF Digest!DigestInductive, Digest!DigestInv, Digest!TypeOK
    <2> QED BY <1>4, <2>1
  <1> QED
    BY <1>1, <1>5, <1>6, <1>7, <1>8, <1>9, <1>10, <1>11, DigestParts

\* ensure_execution stores a new execution, or meets one.
LEMMA EnsureExecutionKeeps ==
    ASSUME Digest!DigestAssumption, Digest!DigestInductive, NEW s, Schedulers = {s},
           NEW n \in Digest!Parts,
           Digest!ensure_execution(s, n)
    PROVE  Digest!DigestInductive'
PROOF
  <1> DEFINE window == sched[s].window
             over == [Digest!Idle EXCEPT !.pc = "deliver", !.window = window]
             fresh == [state |-> "pending", parts |-> [i \in 1..n |-> Digest!PendingPart],
                       emails |-> sched[s].emails, missed |-> sched[s].missed]
  <1>1. /\ sched[s].pc = "ensure" /\ window \in Digest!Windows /\ sched[s] \in Digest!Runs
        /\ Digest!Shapes
        /\ UNCHANGED <<now, received, reported, requests, chat>>
    BY DEF Digest!ensure_execution, Digest!DigestInductive, Digest!Shapes
  <1>2. over \in Digest!Runs /\ over.pc = "deliver" /\ over.window = window
    BY <1>1, IdleRuns DEF Digest!Runs
  <1>3. /\ sched' \in [Schedulers -> Digest!Runs]
        /\ sched'[s].pc \in {"idle", "deliver"}
        /\ sched'[s].pc = "deliver" => sched'[s].window = window
        /\ \A t \in Schedulers : Digest!RunAgrees(t)'
    <2>1. sched' = [sched EXCEPT ![s] = over] \/ sched' = [sched EXCEPT ![s] = Digest!Idle]
      BY DEF Digest!ensure_execution
    <2> HIDE DEF over
    <2>2. sched' \in [Schedulers -> Digest!Runs] /\ sched'[s] \in {over, Digest!Idle}
      BY <1>1, <1>2, <2>1, IdleRuns, RunMoves
    <2> QED BY <1>2, <2>2, IdleRuns DEF Digest!RunAgrees
  <1>4. CASE execution[window].state # "missing"
    <2>1. execution' = execution
      BY <1>4 DEF Digest!ensure_execution
    <2>2. \A t \in Schedulers : \/ sched'[t].pc = "idle"
                                \/ /\ sched[t].pc \notin {"idle", "due"}
                                   /\ sched'[t].pc \notin {"idle", "due", "ensure"}
                                   /\ sched'[t].window = sched[t].window
      BY <1>1, <1>3
    <2>3. Digest!WindowsInOrder'
      BY <1>1, <2>1, <2>2, WindowsKeep
    <2>4. \A t \in Schedulers : sched'[t].pc # "idle" => sched'[t].window \in Digest!Windows
      BY <1>1, <1>3
    <2> QED BY <1>1, <1>3, <2>1, <2>3, <2>4, OnlyRuns
  <1>5. CASE execution[window].state = "missing"
    <2>1. execution' = [execution EXCEPT ![window] = fresh]
      BY <1>5 DEF Digest!ensure_execution
    <2>2. /\ fresh \in Digest!Rows /\ fresh.state = "pending" /\ fresh.missed = sched[s].missed
          /\ fresh.parts # <<>> /\ DOMAIN fresh.parts = 1..n
          /\ \A i \in 1..n : fresh.parts[i].state = "pending"
      <3>1. Digest!PendingPart \in Digest!PartState /\ Digest!PendingPart.state = "pending"
        BY DigestNumbers DEF Digest!PendingPart, Digest!PartState, Digest!Times
      <3>2. n \in Nat /\ n >= 1
        BY DigestNumbers DEF Digest!Parts
      <3>3. [i \in 1..n |-> Digest!PendingPart] \in Digest!PartLists
        BY <3>1 DEF Digest!PartLists
      <3>4. 1 \in DOMAIN fresh.parts
        BY <3>2
      <3>5. fresh.parts # <<>>
        BY <3>4
      <3>6. fresh \in Digest!Rows
        BY <1>1, <3>3 DEF Digest!Rows, Digest!Runs
      <3> QED BY <3>1, <3>5, <3>6
    <2> HIDE DEF fresh
    <2>3. /\ execution' \in [Digest!Windows -> Digest!Rows] /\ execution'[window] = fresh
          /\ \A w \in Digest!Windows \ {window} : execution'[w] = execution[w]
      BY <1>1, <2>1, <2>2 DEF Digest!Shapes
    <2>4. DOMAIN execution[window].parts = {}
      <3>1. execution[window].parts = <<>>
        BY <1>1, <1>5 DEF Digest!DigestInductive, Digest!DigestInv, Digest!TypeOK
      <3> QED BY <3>1
    <2>5. Digest!Shapes'
      BY <1>1, <1>3, <2>3 DEF Digest!Shapes
    <2>6. Digest!PostedOnce'
      BY <1>1 DEF Digest!DigestInductive, Digest!DigestInv, Digest!PostedOnce
    <2>7. Digest!MissedIsReported'
      BY <1>1, <1>5, <2>3 DEF Digest!DigestInductive, Digest!DigestInv,
           Digest!MissedIsReported, Digest!Confirmed
    <2>8. Digest!PartsInOrder'
      <3>1. ASSUME NEW w \in Digest!Windows, NEW i \in DOMAIN execution'[w].parts,
                   execution'[w].parts[i].state # "pending"
            PROVE  \A j \in 1..(i - 1) : execution'[w].parts[j].state = "confirmed"
        <4>1. w # window
          BY <2>2, <2>3, <3>1
        <4> QED BY <2>3, <3>1, <4>1 DEF Digest!DigestInductive, Digest!PartsInOrder, Digest!Part
      <3> QED BY <3>1 DEF Digest!PartsInOrder, Digest!Part
    <2>9. Digest!RequestsAreOpen'
      <3>1. \A r \in requests : r.window \in Digest!Windows /\ r.window # window
        BY <1>1, <2>4 DEF Digest!DigestInductive, Digest!DigestInv, Digest!TypeOK,
             Digest!RequestsAreOpen
      <3> QED BY <1>1, <2>3, <3>1 DEF Digest!DigestInductive, Digest!RequestsAreOpen,
           Digest!Part, Digest!Open
    <2>10. Digest!ChatAgrees'
      <3>1. \A i \in Digest!Parts : ~(chat[<<window, i>>] > 0)
        BY <1>1, <2>4 DEF Digest!DigestInductive, Digest!ChatAgrees
      <3>2. \A i \in Digest!Parts : i \in DOMAIN fresh.parts =>
                fresh.parts[i].state # "confirmed"
        BY <2>2
      <3>3. ASSUME NEW w \in Digest!Windows, NEW i \in Digest!Parts
            PROVE  /\ chat[<<w, i>>] > 0 => /\ i \in DOMAIN execution'[w].parts
                                            /\ execution'[w].parts[i].state # "pending"
                   /\ i \in DOMAIN execution'[w].parts
                      /\ execution'[w].parts[i].state = "confirmed"
                        => chat[<<w, i>>] > 0
        <4>1. CASE w = window
          BY <2>3, <3>1, <3>2, <4>1
        <4>2. CASE w # window
          BY <2>3, <4>2 DEF Digest!DigestInductive, Digest!ChatAgrees, Digest!Part
        <4> QED BY <4>1, <4>2
      <3> QED BY <1>1, <3>3 DEF Digest!ChatAgrees, Digest!Part
    <2>11. Digest!WindowsInOrder'
      <3>1. window \in Nat /\ \A w \in Digest!Windows : w \in Nat
        BY <1>1, DigestNumbers
      <3>2. Digest!latest_completed' = Digest!latest_completed
        BY <1>1 DEF Digest!latest_completed
      <3>3. /\ Day <= now /\ window <= Digest!latest_completed
            /\ \A w \in Digest!Windows : execution[w].state # "missing" =>
                  w <= Digest!latest_completed /\ w <= window
            /\ \A w \in Digest!Windows : w < window => execution[w].state # "pending"
            /\ Digest!SnapshotMissed(window) \subseteq sched[s].missed
        BY <1>1 DEF Digest!DigestInductive, Digest!WindowsInOrder
      <3>4. ASSUME NEW v \in Digest!Windows, v = window
            PROVE  Digest!SnapshotMissed(v)' \subseteq sched[s].missed
        <4>1. \A w \in Digest!Windows : w < v => execution'[w] = execution[w]
          BY <2>3, <3>1, <3>4
        <4>2. Digest!SnapshotMissed(v)' = Digest!SnapshotMissed(v)
          BY <1>1, <4>1 DEF Digest!SnapshotMissed
        <4> QED BY <3>3, <3>4, <4>2
      <3>5. \A w \in Digest!Windows : execution'[w].state = "pending" => w = window
        BY <2>2, <2>3, <3>1, <3>3
      <3>6. \A w \in Digest!Windows : execution'[w].state # "missing" => w <= window
        BY <2>2, <2>3, <3>1, <3>3
      <3>7. \A t \in Schedulers : sched'[t].pc \in {"idle", "deliver"} /\
                                  (sched'[t].pc = "deliver" => sched'[t].window = window)
        BY <1>3
      <3>8. \A w \in Digest!Windows : execution'[w].state # "missing" =>
                w <= Digest!latest_completed
        <4>1. Digest!latest_completed \in Nat
          BY DigestNumbers DEF Digest!latest_completed, Digest!DigestInductive,
               Digest!DigestInv, Digest!TypeOK
        <4> QED BY <2>3, <3>3
      <3> HIDE DEF window
      <3>9. /\ \A w \in Digest!Windows : w < window => execution'[w].state # "pending"
            /\ execution'[window].missed = sched[s].missed
        BY <2>2, <2>3, <3>1, <3>5
      <3>10. \A v \in Digest!Windows : execution'[v].state = "pending" =>
                /\ \A w \in Digest!Windows : w < v => execution'[w].state # "pending"
                /\ Digest!SnapshotMissed(v)' \subseteq execution'[v].missed
        BY <3>3, <3>4, <3>5, <3>9
      <3>11. \A t \in Schedulers : sched'[t].pc # "ensure" /\
                (sched'[t].pc # "idle" => sched'[t].window = window)
        BY <3>7
      <3> QED
        BY <1>1, <3>2, <3>3, <3>6, <3>8, <3>9, <3>10, <3>11 DEF Digest!WindowsInOrder
    <2>12. \A w \in Digest!Windows : (execution'[w].state = "missing") = (execution'[w].parts = <<>>)
      <3>1. \A w \in Digest!Windows : (execution[w].state = "missing") = (execution[w].parts = <<>>)
        BY DEF Digest!DigestInductive, Digest!DigestInv, Digest!TypeOK
      <3> QED BY <2>2, <2>3, <3>1
    <2>13. /\ reported' \subseteq Digest!Windows
           /\ requests' \subseteq [window : Digest!Windows, part : Digest!Parts,
                                   at : Digest!Times, by : Schedulers]
           /\ chat' \in [Digest!Windows \X Digest!Parts -> Nat]
      BY <1>1 DEF Digest!DigestInductive, Digest!DigestInv, Digest!TypeOK
    <2> QED
      BY <1>1, <1>3, <2>5, <2>6, <2>7, <2>8, <2>9, <2>10, <2>11, <2>12, <2>13, DigestParts
  <1> QED BY <1>4, <1>5

\* A write of a window's parts that opens none, forgets no confirmation, leaves
\* what is on its way open, and agrees with the chat.
LEMMA PartsKeep ==
    ASSUME Digest!DigestAssumption, Digest!DigestInductive, NEW w \in Digest!Windows,
           NEW parts \in [DOMAIN execution[w].parts -> Digest!PartState],
           execution[w].state = "pending", Digest!_write_parts_and_refresh_state(w, parts),
           UNCHANGED <<now, received, requests, chat>>,
           \A i \in DOMAIN execution[w].parts :
               /\ parts[i].state # "pending" => Digest!Part(w, i).state # "pending"
               /\ Digest!Part(w, i).state = "confirmed" => parts[i].state = "confirmed"
               /\ Digest!InFlight(w, i) =>
                      Digest!Open(parts[i]) /\ parts[i].last = Digest!Part(w, i).last
               /\ chat[<<w, i>>] > 0 => parts[i].state # "pending"
               /\ parts[i].state = "confirmed" => chat[<<w, i>>] > 0,
           sched' \in [Schedulers -> Digest!Runs],
           \A s \in Schedulers :
               \/ sched'[s].pc = "idle"
               \/ /\ sched[s].pc \notin {"idle", "due"} /\ sched'[s].pc = "deliver"
                  /\ sched'[s].window = sched[s].window
    PROVE  Digest!DigestInductive'
PROOF
  <1>1. /\ execution' \in [Digest!Windows -> Digest!Rows]
        /\ execution'[w].parts = parts
               /\ \A v \in Digest!Windows \ {w} : execution'[v] = execution[v]
        /\ \A v \in Digest!Windows :
              /\ execution'[v].missed = execution[v].missed
              /\ execution'[v].state = "missing" <=> execution[v].state = "missing"
              /\ execution'[v].state = "pending" => execution[v].state = "pending"
              /\ execution'[v].state = "missed" => execution[v].state = "missed"
              /\ (execution'[v].state = "missing") = (execution'[v].parts = <<>>)
        /\ reported \subseteq reported' /\ reported' \subseteq Digest!Windows
        /\ Digest!MissedIsReported'
    BY WriteKeeps
  <1>2. Digest!Shapes'
    BY <1>1 DEF Digest!DigestInductive, Digest!Shapes
  <1>3. Digest!PostedOnce'
    BY DEF Digest!DigestInductive, Digest!DigestInv, Digest!PostedOnce
  <1>4. Digest!PartsInOrder'
    <2>1. ASSUME NEW v \in Digest!Windows, NEW i \in DOMAIN execution'[v].parts,
                 execution'[v].parts[i].state # "pending", NEW j \in 1..(i - 1)
          PROVE  execution'[v].parts[j].state = "confirmed"
      <3>1. CASE v = w
        <4>1. /\ i \in DOMAIN execution[w].parts
              /\ execution[w].parts \in Digest!PartLists
          BY <1>1, <2>1, <3>1 DEF Digest!DigestInductive, Digest!Shapes, Digest!Rows
        <4>2. j \in DOMAIN execution[w].parts
          BY <2>1, <4>1, PartLists1
        <4>3. Digest!Part(w, j).state = "confirmed"
          BY <1>1, <2>1, <3>1, <4>1 DEF Digest!DigestInductive, Digest!PartsInOrder
        <4> QED BY <1>1, <3>1, <4>2, <4>3
      <3>2. CASE v # w
        BY <1>1, <2>1, <3>2 DEF Digest!DigestInductive, Digest!PartsInOrder, Digest!Part
      <3> QED BY <3>1, <3>2
    <2> QED BY <2>1 DEF Digest!PartsInOrder, Digest!Part
  <1>5. Digest!RequestsAreOpen'
    <2>1. ASSUME NEW r \in requests
          PROVE  /\ r.part \in DOMAIN execution'[r.window].parts
                 /\ Digest!Open(execution'[r.window].parts[r.part])
                 /\ r.at = execution'[r.window].parts[r.part].last
                 /\ chat[<<r.window, r.part>>] = 0
                 /\ now <= r.at + Flight
      <3>1. /\ r.window \in Digest!Windows /\ r.part \in DOMAIN execution[r.window].parts
            /\ Digest!Open(Digest!Part(r.window, r.part))
            /\ r.at = Digest!Part(r.window, r.part).last
            /\ chat[<<r.window, r.part>>] = 0 /\ now <= r.at + Flight
        BY DEF Digest!DigestInductive, Digest!DigestInv, Digest!TypeOK, Digest!RequestsAreOpen
      <3>2. CASE r.window = w
        <4>1. Digest!InFlight(w, r.part)
          BY <3>2 DEF Digest!InFlight
        <4> QED BY <1>1, <3>1, <3>2, <4>1
      <3>3. CASE r.window # w
        BY <1>1, <3>1, <3>3 DEF Digest!Part
      <3> QED BY <3>2, <3>3
    <2> QED BY <2>1 DEF Digest!RequestsAreOpen, Digest!Part, Digest!Open
  <1>6. Digest!ChatAgrees'
    <2>1. ASSUME NEW v \in Digest!Windows, NEW i \in Digest!Parts
          PROVE  /\ chat[<<v, i>>] > 0 => /\ i \in DOMAIN execution'[v].parts
                                          /\ execution'[v].parts[i].state # "pending"
                 /\ i \in DOMAIN execution'[v].parts
                    /\ execution'[v].parts[i].state = "confirmed"
                      => chat[<<v, i>>] > 0
      <3>1. CASE v = w
        BY <1>1, <3>1 DEF Digest!DigestInductive, Digest!ChatAgrees
      <3>2. CASE v # w
        BY <1>1, <3>2 DEF Digest!DigestInductive, Digest!ChatAgrees, Digest!Part
      <3> QED BY <3>1, <3>2
    <2> QED BY <2>1 DEF Digest!ChatAgrees, Digest!Part
  <1>7. Digest!WindowsInOrder'
    <2>1. \A s \in Schedulers :
             \/ sched'[s].pc = "idle"
             \/ /\ sched[s].pc \notin {"idle", "due"}
                /\ sched'[s].pc \notin {"idle", "due", "ensure"}
                /\ sched'[s].window = sched[s].window
      OBVIOUS
    <2> QED BY <1>1, <2>1, WindowsKeep
  <1>8. \A s \in Schedulers : Digest!RunAgrees(s)'
    <2>1. \A s \in Schedulers : sched'[s].pc \in {"idle", "deliver"}
      OBVIOUS
    <2> QED BY <2>1 DEF Digest!RunAgrees
  <1>9. /\ requests' \subseteq [window : Digest!Windows, part : Digest!Parts, at : Digest!Times,
                                by : Schedulers]
        /\ chat' \in [Digest!Windows \X Digest!Parts -> Nat]
    BY DEF Digest!DigestInductive, Digest!DigestInv, Digest!TypeOK
  <1> QED BY <1>1, <1>2, <1>3, <1>4, <1>5, <1>6, <1>7, <1>8, <1>9, DigestParts

\* A run that delivers on, or gives up, over a table it left alone.
LEMMA TableKeeps ==
    ASSUME Digest!DigestAssumption, Digest!DigestInductive, UNCHANGED <<now, received,
                   execution, reported, requests, chat>>,
           sched' \in [Schedulers -> Digest!Runs],
           \A s \in Schedulers :
               \/ sched'[s].pc = "idle"
               \/ /\ sched[s].pc \notin {"idle", "due"} /\ sched'[s].pc = "deliver"
                  /\ sched'[s].window = sched[s].window
    PROVE  Digest!DigestInductive'
PROOF
  <1>1. \A s \in Schedulers :
           \/ sched'[s].pc = "idle"
           \/ /\ sched[s].pc \notin {"idle", "due"}
              /\ sched'[s].pc \notin {"idle", "due", "ensure"}
              /\ sched'[s].window = sched[s].window
    OBVIOUS
  <1>2. Digest!WindowsInOrder'
    BY <1>1, WindowsKeep
  <1>3. \A s \in Schedulers : sched'[s].pc # "idle" => sched'[s].window \in Digest!Windows
    BY <1>1 DEF Digest!DigestInductive, Digest!Shapes
  <1>4. \A s \in Schedulers : Digest!RunAgrees(s)'
    <2>1. \A s \in Schedulers : sched'[s].pc \in {"idle", "deliver"}
      OBVIOUS
    <2> QED BY <2>1 DEF Digest!RunAgrees
  <1> QED BY <1>2, <1>3, <1>4, OnlyRuns

\* reconcile_parts, over a chat that still looks as it was read.
LEMMA ApplyReconciliationKeeps ==
    ASSUME Digest!DigestAssumption, Digest!DigestInductive, NEW s, Schedulers = {s},
           Digest!ApplyReconciliation(s)
    PROVE  Digest!DigestInductive'
PROOF
  <1> DEFINE to == [sched[s] EXCEPT !.pc = "deliver", !.found = {}]
  <1>0. PICK w \in Digest!Windows : w = sched[s].window
    BY DEF Digest!ApplyReconciliation, Digest!DigestInductive, Digest!Shapes
  <1>1. /\ sched[s].pc = "apply" /\ sched[s] \in Digest!Runs /\ Digest!Shapes
        /\ UNCHANGED <<now, received, requests, chat>>
        /\ Digest!reconcile_parts(w, sched[s].found)
    BY <1>0 DEF Digest!ApplyReconciliation, Digest!DigestInductive, Digest!Shapes
  <1>2. to \in Digest!Runs /\ to.pc = "deliver" /\ to.window = sched[s].window
    BY <1>1 DEF Digest!Runs
  <1>3. sched' \in [Schedulers -> Digest!Runs] /\ sched'[s] = to
    <2>1. sched' = [sched EXCEPT ![s] = to]
      BY <1>1 DEF Digest!ApplyReconciliation, Digest!Shapes, Digest!Runs
    <2> HIDE DEF to
    <2> QED BY <1>1, <1>2, <2>1, RunMoves
  <1>4. \A t \in Schedulers :
           /\ sched[t].pc \notin {"idle", "due"} /\ sched'[t].pc = "deliver"
           /\ sched'[t].window = sched[t].window
    BY <1>1, <1>2, <1>3
  <1>5. CASE execution[w].state # "pending"
    BY <1>1, <1>3, <1>4, <1>5, TableKeeps DEF Digest!reconcile_parts
  <1>6. CASE execution[w].state = "pending"
    <2> DEFINE old == execution[w].parts
               settled(i) == IF old[i].state \notin {"sending", "unknown"} THEN old[i]
                             ELSE IF i \in sched[s].found
                                  THEN [old[i] EXCEPT !.state = "confirmed"]
                                  ELSE [old[i] EXCEPT !.state = "pending", !.next = now]
               parts == [i \in DOMAIN old |-> settled(i)]
    <2>1. Digest!_write_parts_and_refresh_state(w, parts)
      BY <1>1, <1>6 DEF Digest!reconcile_parts
    <2>2. old \in Digest!PartLists
      BY <1>1 DEF Digest!Shapes, Digest!Rows
    <2>3. now \in 0..(MaxClock + 1)
      BY DigestNumbers DEF Digest!DigestInductive, Digest!DigestInv, Digest!TypeOK, Digest!Times
    <2>4. ASSUME NEW i \in DOMAIN old
          PROVE  /\ settled(i) \in Digest!PartState
                 /\ settled(i).state # "pending" => Digest!Part(w, i).state # "pending"
                 /\ Digest!Part(w, i).state = "confirmed" => settled(i).state = "confirmed"
                 /\ Digest!InFlight(w, i) =>
                        Digest!Open(settled(i)) /\ settled(i).last = Digest!Part(w, i).last
                 /\ chat[<<w, i>>] > 0 => settled(i).state # "pending"
                 /\ settled(i).state = "confirmed" => chat[<<w, i>>] > 0
      <3>1. old[i] \in Digest!PartState /\ old[i] = Digest!Part(w, i) /\ i \in Digest!Parts
        BY <2>2, PartLists1 DEF Digest!Part
      <3>2. /\ chat[<<w, i>>] > 0 => old[i].state # "pending"
            /\ old[i].state = "confirmed" => chat[<<w, i>>] > 0
        BY <3>1 DEF Digest!DigestInductive, Digest!ChatAgrees
      <3>3. Digest!InFlight(w, i) => Digest!Open(old[i])
        BY <3>1 DEF Digest!DigestInductive, Digest!RequestsAreOpen, Digest!InFlight
      <3>4. Digest!Open(old[i]) => ~Digest!InFlight(w, i) /\ (i \in sched[s].found <=> chat[<<w,
                    i>>] > 0)
        BY <1>0, <1>1, <3>1 DEF Digest!DigestInductive, Digest!RunAgrees
      <3>5. CASE ~Digest!Open(old[i])
        <4>1. settled(i) = old[i]
          BY <3>5 DEF Digest!Open
        <4> HIDE DEF settled, old
        <4> QED BY <3>1, <3>2, <3>3, <3>5, <4>1
      <3>6. CASE Digest!Open(old[i]) /\ i \in sched[s].found
        <4>1. settled(i) = [old[i] EXCEPT !.state = "confirmed"]
          BY <3>6 DEF Digest!Open
        <4> HIDE DEF settled, old
        <4>2. settled(i) \in Digest!PartState /\ settled(i).state = "confirmed"
          BY <3>1, <4>1 DEF Digest!PartState
        <4> QED BY <3>1, <3>4, <3>6, <4>2 DEF Digest!Open
      <3>7. CASE Digest!Open(old[i]) /\ i \notin sched[s].found
        <4>1. settled(i) = [old[i] EXCEPT !.state = "pending", !.next = now]
          BY <3>7 DEF Digest!Open
        <4> HIDE DEF settled, old
        <4>2. settled(i) \in Digest!PartState /\ settled(i).state = "pending"
          BY <2>3, <3>1, <4>1 DEF Digest!PartState
        <4> QED BY <3>1, <3>4, <3>7, <4>2 DEF Digest!Open
      <3> QED BY <3>5, <3>6, <3>7
    <2> HIDE DEF settled
    <2>5. parts \in [DOMAIN execution[w].parts -> Digest!PartState]
      BY <2>4
    <2>6. \A i \in DOMAIN execution[w].parts :
             /\ parts[i].state # "pending" => Digest!Part(w, i).state # "pending"
             /\ Digest!Part(w, i).state = "confirmed" => parts[i].state = "confirmed"
             /\ Digest!InFlight(w, i) => Digest!Open(parts[i]) /\ parts[i].last = Digest!Part(w,
                        i).last
             /\ chat[<<w, i>>] > 0 => parts[i].state # "pending"
             /\ parts[i].state = "confirmed" => chat[<<w, i>>] > 0
      BY <2>4
    <2> HIDE DEF parts
    <2> QED BY <1>1, <1>3, <1>4, <1>6, <2>1, <2>5, <2>6, PartsKeep
  <1> QED BY <1>5, <1>6

\* What became of a claimed slot is written down, when the execution is still open.
LEMMA FinishKeeps ==
    ASSUME Digest!DigestAssumption, Digest!DigestInductive, NEW s, Schedulers = {s},
           sched[s].pc \in {"sending", "accepted", "rejected"},
           NEW state, NEW next \in 0..(MaxClock + 1),
           \/ state = "confirmed" /\ sched[s].pc = "accepted"
           \/ state = "pending" /\ sched[s].pc = "rejected"
           \/ state = "unknown" /\ sched[s].pc \in {"sending", "accepted"},
           Digest!_finish_claimed_part(sched[s].window, sched[s].part, state, next),
           UNCHANGED <<now, received, requests, chat>>,
           \/ Digest!Return(s)
           \/ sched' = [sched EXCEPT ![s].pc = "deliver", ![s].part = 0]
    PROVE  Digest!DigestInductive'
PROOF
  <1> DEFINE to == [sched[s] EXCEPT !.pc = "deliver", !.part = 0]
  <1>0. PICK w \in Digest!Windows, i \in Digest!Parts \union {0} : w = sched[s].window
            /\ i = sched[s].part
    BY DEF Digest!DigestInductive, Digest!Shapes, Digest!Runs
  <1>1. sched[s] \in Digest!Runs /\ Digest!Shapes
    BY DEF Digest!DigestInductive, Digest!Shapes
  <1>2. to \in Digest!Runs /\ to.pc = "deliver" /\ to.window = sched[s].window
    BY <1>1 DEF Digest!Runs
  <1>3. sched' \in [Schedulers -> Digest!Runs] /\ sched'[s] \in {to, Digest!Idle}
    <2>1. sched' = [sched EXCEPT ![s] = to] \/ sched' = [sched EXCEPT ![s] = Digest!Idle]
      BY <1>1 DEF Digest!Return, Digest!Shapes, Digest!Runs
    <2> HIDE DEF to
    <2> QED BY <1>1, <1>2, <2>1, RunMoves, IdleRuns
  <1>4. \A t \in Schedulers :
           \/ sched'[t].pc = "idle"
           \/ /\ sched[t].pc \notin {"idle", "due"} /\ sched'[t].pc = "deliver"
              /\ sched'[t].window = sched[t].window
    BY <1>1, <1>2, <1>3, IdleRuns
  <1>5. i \in DOMAIN execution[w].parts /\ Digest!Part(w, i).state = "sending"
    BY <1>0 DEF Digest!DigestInductive, Digest!RunAgrees
  <1>6. CASE execution[w].state # "pending"
    BY <1>0, <1>3, <1>4, <1>6, TableKeeps DEF Digest!_finish_claimed_part
  <1>7. CASE execution[w].state = "pending"
    <2> DEFINE old == execution[w].parts
               parts == [old EXCEPT ![i].state = state, ![i].next = next]
               slot == [old[i] EXCEPT !.state = state, !.next = next]
    <2>1. Digest!_write_parts_and_refresh_state(w, parts)
      BY <1>0, <1>5, <1>7 DEF Digest!_finish_claimed_part, Digest!Part
    <2>2. old \in Digest!PartLists
      BY <1>1 DEF Digest!Shapes, Digest!Rows
    <2>3. /\ old \in [DOMAIN old -> Digest!PartState] /\ i \in DOMAIN old
          /\ old[i] \in Digest!PartState
          /\ i \in Digest!Parts
      <3>1. \A j \in DOMAIN old : old[j] \in Digest!PartState
        BY <2>2, PartLists1
      <3>2. \E n \in 0..MaxParts : old \in [1..n -> Digest!PartState]
        <4>1. CASE old = <<>>
          BY <4>1, DigestNumbers
        <4>2. CASE old # <<>>
          BY <2>2, <4>2, DigestNumbers DEF Digest!PartLists, Digest!Parts
        <4> QED BY <4>1, <4>2
      <3> QED BY <1>5, <2>2, <3>1, <3>2, PartLists1
    <2>4. slot \in Digest!PartState /\ slot.state = state /\ slot.last = old[i].last
      BY <2>3 DEF Digest!PartState
    <2> HIDE DEF old
    <2>5. /\ parts \in [DOMAIN old -> Digest!PartState] /\ parts[i] = slot
          /\ \A j \in DOMAIN old \ {i} : parts[j] = old[j]
      <3>1. parts = [old EXCEPT ![i] = slot]
        BY <2>3 DEF Digest!PartState
      <3> HIDE DEF slot, parts
      <3> QED BY <2>3, <2>4, <3>1
    <2>6. ASSUME NEW j \in DOMAIN old
          PROVE  /\ parts[j].state # "pending" => Digest!Part(w, j).state # "pending"
                 /\ Digest!Part(w, j).state = "confirmed" => parts[j].state = "confirmed"
                 /\ Digest!InFlight(w, j) =>
                        Digest!Open(parts[j]) /\ parts[j].last = Digest!Part(w, j).last
                 /\ chat[<<w, j>>] > 0 => parts[j].state # "pending"
                 /\ parts[j].state = "confirmed" => chat[<<w, j>>] > 0
      <3>1. old[j] = Digest!Part(w, j) /\ j \in Digest!Parts
        BY <2>2, PartLists1 DEF Digest!Part, old
      <3>2. CASE j # i
        <4>1. /\ chat[<<w, j>>] > 0 => Digest!Part(w, j).state # "pending"
              /\ Digest!Part(w, j).state = "confirmed" => chat[<<w, j>>] > 0
              /\ Digest!InFlight(w, j) => Digest!Open(Digest!Part(w, j))
          BY <3>1 DEF Digest!DigestInductive, Digest!ChatAgrees, Digest!RequestsAreOpen,
               Digest!InFlight, old
        <4> QED BY <2>5, <3>1, <3>2, <4>1
      <3>3. CASE j = i
        <4>1. /\ sched[s].pc = "accepted" => chat[<<w, i>>] > 0
              /\ sched[s].pc = "rejected" => chat[<<w, i>>] = 0 /\ ~Digest!InFlight(w, i)
          BY <1>0 DEF Digest!DigestInductive, Digest!RunAgrees
        <4>2. Digest!InFlight(w, i) => chat[<<w, i>>] = 0
          BY DEF Digest!DigestInductive, Digest!RequestsAreOpen, Digest!InFlight
        <4> HIDE DEF parts, slot
        <4> QED BY <1>5, <2>4, <2>5, <3>1, <3>3, <4>1, <4>2 DEF Digest!Open
      <3> QED BY <3>2, <3>3
    <2> HIDE DEF parts, slot
    <2> QED
      BY <1>3, <1>4, <1>7, <2>1, <2>5, <2>6, PartsKeep DEF old
  <1> QED BY <1>6, <1>7

\* claim_next_part stores the claim before the request leaves: no request of
\* the part is out and the chat does not show it.
LEMMA ClaimNextPartKeeps ==
    ASSUME Digest!DigestAssumption, Digest!DigestInductive, NEW s, Schedulers = {s},
           NEW i \in Digest!Parts,
           Digest!claim_next_part(s, i)
    PROVE  Digest!DigestInductive'
PROOF
  <1> DEFINE to == [sched[s] EXCEPT !.pc = "sending", !.part = i]
             claimed == [state |-> "sending", last |-> now, next |-> 0]
  <1>0. PICK w \in Digest!Windows : w = sched[s].window
    BY DEF Digest!claim_next_part, Digest!Reconcilable, Digest!ClaimablePart,
         Digest!DigestInductive, Digest!Shapes
  <1> DEFINE sent == [window |-> w, part |-> i, at |-> now, by |-> s]
             row == [execution[w] EXCEPT !.parts[i] = claimed]
  <1>1. /\ sched[s].pc = "deliver" /\ sched[s] \in Digest!Runs /\ Digest!Shapes
        /\ UNCHANGED <<now, received, reported, chat>> /\ now \in Digest!Times
        /\ execution[w] \in Digest!Rows /\ execution[w].parts \in Digest!PartLists
        /\ execution[w].state = "pending" /\ i \in DOMAIN execution[w].parts
        /\ Digest!Part(w, i).state = "pending"
        /\ \A j \in 1..(i - 1) : Digest!Part(w, j).state = "confirmed"
    BY <1>0
    DEF Digest!claim_next_part, Digest!ClaimablePart, Digest!DigestInductive, Digest!Shapes,
         Digest!Rows, Digest!Part, Digest!DigestInv, Digest!TypeOK
  <1>2. to \in Digest!Runs /\ to.pc = "sending" /\ to.window = w /\ to.part = i
    BY <1>0, <1>1 DEF Digest!Runs
  <1>3. sched' \in [Schedulers -> Digest!Runs] /\ sched'[s] = to
    <2>1. sched' = [sched EXCEPT ![s] = to]
      BY <1>1 DEF Digest!claim_next_part, Digest!Shapes, Digest!Runs
    <2> HIDE DEF to
    <2> QED BY <1>1, <1>2, <2>1, RunMoves
  <1>4. claimed \in Digest!PartState /\ claimed.state = "sending" /\ claimed.last = now
    BY <1>1, DigestNumbers DEF Digest!PartState, Digest!Times
  <1>5. /\ row \in Digest!Rows /\ row.state = "pending" /\ row.missed = execution[w].missed
        /\ DOMAIN row.parts = DOMAIN execution[w].parts /\ row.parts # <<>>
        /\ row.parts[i] = claimed
        /\ \A j \in DOMAIN execution[w].parts \ {i} : row.parts[j] = Digest!Part(w, j)
    <2> DEFINE old == execution[w].parts
               new == [old EXCEPT ![i] = claimed]
    <2>1. old # <<>>
      BY <1>1 DEF Digest!DigestInductive, Digest!DigestInv, Digest!TypeOK
    <2>2. old \in [DOMAIN old -> Digest!PartState]
      BY <1>1, <2>1 DEF Digest!PartLists
    <2>3. new \in [DOMAIN old -> Digest!PartState]
      BY <1>1, <1>4, <2>2
    <2>4. new \in Digest!PartLists /\ new # <<>>
      BY <1>1, <2>1, <2>3, PartLists2
    <2>5. /\ new[i] = claimed /\ DOMAIN new = DOMAIN old
          /\ \A j \in DOMAIN old \ {i} : new[j] = old[j]
      BY <1>1, <2>2
    <2>6. row = [execution[w] EXCEPT !.parts = new]
      BY <1>1 DEF Digest!Rows
    <2> HIDE DEF new, row
    <2>7. row \in Digest!Rows /\ row.state = "pending" /\ row.missed = execution[w].missed
          /\ row.parts = new
      BY <1>1, <2>4, <2>6 DEF Digest!Rows
    <2> QED BY <2>4, <2>5, <2>7 DEF Digest!Part
  <1>6. /\ execution' \in [Digest!Windows -> Digest!Rows] /\ execution'[w] = row
        /\ \A v \in Digest!Windows \ {w} : execution'[v] = execution[v]
    <2>1. execution' = [execution EXCEPT ![w] = row]
      BY <1>0, <1>1 DEF Digest!claim_next_part, Digest!Shapes, Digest!Rows
    <2> HIDE DEF row
    <2> QED BY <1>1, <1>5, <2>1 DEF Digest!Shapes
  <1> HIDE DEF to, row, claimed
  <1>7. requests' = requests \union {sent}
    BY <1>0 DEF Digest!claim_next_part
  <1>8. Digest!Shapes'
    BY <1>0, <1>2, <1>3, <1>6 DEF Digest!Shapes
  <1>9. Digest!PostedOnce' /\ Digest!MissedIsReported'
    <2>1. Digest!MissedIsReported'
      BY <1>1, <1>5, <1>6 DEF Digest!DigestInductive, Digest!DigestInv,
           Digest!MissedIsReported, Digest!Confirmed
    <2> QED BY <1>1, <2>1 DEF Digest!DigestInductive, Digest!DigestInv, Digest!PostedOnce
  <1>10. Digest!PartsInOrder'
    <2>1. ASSUME NEW v \in Digest!Windows, NEW k \in DOMAIN execution'[v].parts,
                 execution'[v].parts[k].state # "pending", NEW j \in 1..(k - 1)
          PROVE  execution'[v].parts[j].state = "confirmed"
      <3>1. CASE v = w
        <4>1. k \in DOMAIN execution[w].parts /\ k \in Nat /\ k >= 1
              /\ j \in DOMAIN execution[w].parts
              /\ i \in Nat /\ i >= 1
          <5>1. DOMAIN execution'[w].parts = DOMAIN execution[w].parts
            BY <1>5, <1>6
          <5>2. k \in DOMAIN execution[w].parts
            BY <2>1, <3>1, <5>1
          <5>3. /\ DOMAIN execution[w].parts \subseteq Digest!Parts
                /\ \A m \in DOMAIN execution[w].parts : \A l \in 1..(m - 1) : l \in DOMAIN execution[w].parts
            BY <1>1, PartLists1
          <5>4. j \in DOMAIN execution[w].parts
            BY <2>1, <5>2, <5>3
          <5>5. k \in Digest!Parts /\ i \in Digest!Parts
            BY <1>1, <5>2, <5>3
          <5>6. /\ k \in Nat /\ k >= 1 /\ i \in Nat /\ i >= 1
            BY <5>5, DigestNumbers DEF Digest!Parts
          <5> QED BY <5>2, <5>4, <5>6
        <4>2. CASE k = i
          <5>1. j # i /\ Digest!Part(w, j).state = "confirmed"
            BY <1>1, <2>1, <4>1, <4>2
          <5> QED BY <1>5, <1>6, <3>1, <4>1, <5>1
        <4>3. CASE k # i
          <5>1. Digest!Part(w, k).state # "pending"
            BY <1>5, <1>6, <2>1, <3>1, <4>1, <4>3
          <5>2. \A l \in 1..(k - 1) : Digest!Part(w, l).state = "confirmed"
            BY <1>0, <4>1, <5>1 DEF Digest!DigestInductive, Digest!PartsInOrder
          <5>3. j # i
            BY <1>1, <2>1, <5>2
          <5> QED BY <1>5, <1>6, <2>1, <3>1, <4>1, <5>2, <5>3
        <4> QED BY <4>2, <4>3
      <3>2. CASE v # w
        BY <1>6, <2>1, <3>2 DEF Digest!DigestInductive, Digest!PartsInOrder, Digest!Part
      <3> QED BY <3>1, <3>2
    <2> QED BY <2>1 DEF Digest!PartsInOrder, Digest!Part
  <1>11. chat[<<w, i>>] = 0
    <2>1. ~(chat[<<w, i>>] > 0) /\ chat[<<w, i>>] \in Nat
      BY <1>1 DEF Digest!DigestInductive, Digest!ChatAgrees, Digest!DigestInv, Digest!TypeOK
    <2> QED BY <2>1
  <1>12. Digest!RequestsAreOpen'
    <2>1. ASSUME NEW r \in requests
          PROVE  /\ r.part \in DOMAIN execution'[r.window].parts
                 /\ Digest!Open(execution'[r.window].parts[r.part])
                 /\ r.at = execution'[r.window].parts[r.part].last
                 /\ chat[<<r.window, r.part>>] = 0
                 /\ now <= r.at + Flight
      <3>1. /\ r.window \in Digest!Windows /\ r.part \in DOMAIN execution[r.window].parts
            /\ Digest!Open(Digest!Part(r.window, r.part))
            /\ r.at = Digest!Part(r.window, r.part).last
            /\ chat[<<r.window, r.part>>] = 0 /\ now <= r.at + Flight
        BY DEF Digest!DigestInductive, Digest!DigestInv, Digest!TypeOK, Digest!RequestsAreOpen
      <3>2. CASE r.window = w
        <4>1. r.part # i
          BY <1>1, <3>1, <3>2 DEF Digest!Open
        <4> QED BY <1>5, <1>6, <3>1, <3>2, <4>1
      <3>3. CASE r.window # w
        BY <1>6, <3>1, <3>3 DEF Digest!Part
      <3> QED BY <3>2, <3>3
    <2>2. /\ i \in DOMAIN execution'[w].parts /\ Digest!Open(execution'[w].parts[i])
          /\ now = execution'[w].parts[i].last /\ now <= now + Flight
      <3>1. now \in Nat
        BY <1>1, DigestNumbers
      <3> QED BY <1>1, <1>4, <1>5, <1>6, <3>1, DigestNumbers DEF Digest!Open
    <2>3. sent.window = w /\ sent.part = i /\ sent.at = now
      OBVIOUS
    <2> HIDE DEF sent
    <2>4. ASSUME NEW r \in requests'
          PROVE  /\ r.part \in DOMAIN execution'[r.window].parts
                 /\ Digest!Open(execution'[r.window].parts[r.part])
                 /\ r.at = execution'[r.window].parts[r.part].last
                 /\ chat'[<<r.window, r.part>>] = 0
                 /\ now' <= r.at + Flight
      <3>1. chat' = chat /\ now' = now
        BY <1>1
      <3>2. CASE r \in requests
        BY <2>1, <3>1, <3>2
      <3>3. CASE r = sent
        BY <1>11, <2>2, <2>3, <3>1, <3>3
      <3> QED BY <1>7, <2>4, <3>2, <3>3
    <2> QED BY <2>4 DEF Digest!RequestsAreOpen, Digest!Part, Digest!Open
  <1>13. Digest!ChatAgrees'
    <2>1. ASSUME NEW v \in Digest!Windows, NEW k \in Digest!Parts
          PROVE  /\ chat[<<v, k>>] > 0 => /\ k \in DOMAIN execution'[v].parts
                                          /\ execution'[v].parts[k].state # "pending"
                 /\ k \in DOMAIN execution'[v].parts
                    /\ execution'[v].parts[k].state = "confirmed"
                      => chat[<<v, k>>] > 0
      <3>1. CASE v = w /\ k = i
        BY <1>4, <1>5, <1>6, <1>11, <3>1
      <3>2. CASE v = w /\ k # i
        BY <1>5, <1>6, <3>2 DEF Digest!DigestInductive, Digest!ChatAgrees
      <3>3. CASE v # w
        BY <1>6, <3>3 DEF Digest!DigestInductive, Digest!ChatAgrees, Digest!Part
      <3> QED BY <3>1, <3>2, <3>3
    <2> QED BY <1>1, <2>1 DEF Digest!ChatAgrees, Digest!Part
  <1>14. Digest!WindowsInOrder'
    <2>1. \A v \in Digest!Windows :
             /\ execution'[v].missed = execution[v].missed
             /\ execution'[v].state = "missing" <=> execution[v].state = "missing"
             /\ execution'[v].state = "pending" => execution[v].state = "pending"
             /\ execution'[v].state = "missed" => execution[v].state = "missed"
      BY <1>1, <1>5, <1>6
    <2>2. \A t \in Schedulers :
             \/ sched'[t].pc = "idle"
             \/ /\ sched[t].pc \notin {"idle", "due"}
                /\ sched'[t].pc \notin {"idle", "due", "ensure"}
                /\ sched'[t].window = sched[t].window
      BY <1>0, <1>1, <1>2, <1>3
    <2> QED BY <1>1, <2>1, <2>2, WindowsKeep
  <1>15. Digest!RunAgrees(s)'
    BY <1>1, <1>2, <1>3, <1>4, <1>5, <1>6 DEF Digest!RunAgrees, Digest!Part
  <1>16. /\ reported' \subseteq Digest!Windows
         /\ chat' \in [Digest!Windows \X Digest!Parts -> Nat]
         /\ requests' \subseteq [window : Digest!Windows, part : Digest!Parts,
                                 at : Digest!Times, by : Schedulers]
    <2>1. sent \in [window : Digest!Windows, part : Digest!Parts, at : Digest!Times,
                    by : Schedulers]
      BY <1>1
    <2> QED BY <1>1, <1>7, <2>1 DEF Digest!DigestInductive, Digest!DigestInv, Digest!TypeOK
  <1>17. \A v \in Digest!Windows : (execution'[v].state = "missing") = (execution'[v].parts = <<>>)
    <2>1. \A v \in Digest!Windows : (execution[v].state = "missing") = (execution[v].parts = <<>>)
      BY DEF Digest!DigestInductive, Digest!DigestInv, Digest!TypeOK
    <2> QED BY <1>5, <1>6, <2>1
  <1> QED
    BY <1>1, <1>8, <1>9, <1>10, <1>12, <1>13, <1>14, <1>15, <1>16, <1>17, DigestParts

-----------------------------------------------------------------------------
(* The digest as a whole.                                                   *)

\* The invariant holds at the start, and every step keeps it.
LEMMA DigestStarts ==
    ASSUME Digest!DigestAssumption, Digest!Init
    PROVE  Digest!DigestInductive
PROOF
  <1>1. /\ Digest!Missing \in Digest!Rows /\ Digest!Missing.state = "missing"
        /\ Digest!Missing.parts = <<>>
        /\ DOMAIN Digest!Missing.parts = {} /\ Digest!Missing.emails = {}
        /\ Digest!Missing.missed = {}
    BY DEF Digest!Missing, Digest!Rows, Digest!PartLists
  <1>2. execution \in [Digest!Windows -> Digest!Rows]
            /\ \A w \in Digest!Windows : execution[w] = Digest!Missing
    BY <1>1 DEF Digest!Init
  <1>3. /\ sched \in [Schedulers -> Digest!Runs]
        /\ \A s \in Schedulers : sched[s] \in Digest!Runs /\ sched[s].pc = "idle"
    BY IdleRuns DEF Digest!Init
  <1>4. chat \in [Digest!Windows \X Digest!Parts -> Nat]
            /\ \A wp \in Digest!Windows \X Digest!Parts : chat[wp] = 0
    BY DEF Digest!Init
  <1>5. requests = {} /\ reported = {} /\ now = Day
    BY DEF Digest!Init
  <1>6. received \in [DigestMails -> [state : {"none", "writing", "stored"},
                                      received : Digest!Times]] /\ now \in Digest!Times
    BY DigestNumbers DEF Digest!Init, Digest!Times, Digest!DigestAssumption
  <1>7. Digest!Shapes
    BY <1>2, <1>3 DEF Digest!Shapes
  <1>8. Digest!TypeOK
    <2>1. \A w \in Digest!Windows :
             /\ execution[w].state \in {"missing", "pending", "confirmed", "missed"}
             /\ \E n \in 0..MaxParts : DOMAIN execution[w].parts = 1..n
             /\ \A i \in DOMAIN execution[w].parts : execution[w].parts[i] \in Digest!PartState
             /\ (execution[w].state = "missing") = (execution[w].parts = <<>>)
             /\ execution[w].emails \subseteq DigestMails
             /\ execution[w].missed \subseteq Digest!Windows
      <3>1. \E n \in 0..MaxParts : {} = 1..n
        BY DigestNumbers
      <3> QED BY <1>1, <1>2, <3>1
    <2>2. \A s \in Schedulers :
             /\ sched[s].pc \in {"idle", "due", "get", "ensure", "deliver", "reconcile",
                                 "apply", "sending", "accepted", "rejected"}
             /\ sched[s].window \in Digest!Windows \union {0}
             /\ sched[s].part \in Digest!Parts \union {0}
             /\ sched[s].emails \subseteq DigestMails
             /\ sched[s].missed \subseteq Digest!Windows
             /\ sched[s].found \subseteq Digest!Parts
      BY <1>3 DEF Digest!Runs
    <2> QED BY <1>4, <1>5, <1>6, <2>1, <2>2 DEF Digest!TypeOK
  <1>9. Digest!PostedOnce /\ Digest!ConfirmedIsPosted /\ Digest!MissedIsReported
    BY <1>1, <1>2, <1>4, <1>5 DEF Digest!PostedOnce, Digest!ConfirmedIsPosted,
         Digest!MissedIsReported
  <1>10. Digest!PartsInOrder /\ Digest!RequestsAreOpen /\ Digest!ChatAgrees
    BY <1>1, <1>2, <1>4, <1>5 DEF Digest!PartsInOrder, Digest!RequestsAreOpen, Digest!ChatAgrees
  <1>11. Digest!WindowsInOrder
    BY <1>1, <1>2, <1>3, <1>5, DigestNumbers DEF Digest!WindowsInOrder
  <1>12. \A s \in Schedulers : Digest!RunAgrees(s)
    BY <1>3 DEF Digest!RunAgrees
  <1> QED BY <1>7, <1>8, <1>9, <1>10, <1>11, <1>12 DEF Digest!DigestInductive, Digest!DigestInv

LEMMA DigestSteps ==
    ASSUME Digest!DigestAssumption, Digest!OneScheduler, Digest!DigestInductive, Digest!Next
    PROVE  Digest!DigestInductive'
PROOF
  <1>0. PICK s : Schedulers = {s}
    BY DEF Digest!OneScheduler
  <1>1. CASE Digest!Tick
    BY <1>1, TickKeeps
  <1>2. CASE \E m \in DigestMails : Digest!ReceiveMail(m) \/ Digest!CommitMail(m)
    BY <1>2, MailKeeps
  <1>3. CASE \E r \in requests : Digest!Accept(r) \/ Digest!Reject(r)
    BY <1>0, <1>3, AcceptKeeps
  <1>4. CASE Digest!SchedulerStep(s)
    <2>1. CASE Digest!mark_delivery_confirmed(s)
      <3>1. 0 \in 0..(MaxClock + 1)
        BY DigestNumbers
      <3> QED BY <1>0, <2>1, <3>1, FinishKeeps DEF Digest!mark_delivery_confirmed
    <2>2. CASE Digest!mark_delivery_rejected(s)
      <3>1. now + 1 \in 0..(MaxClock + 1)
        BY DigestNumbers DEF Digest!DigestInductive, Digest!DigestInv, Digest!TypeOK,
             Digest!Times
      <3> QED BY <1>0, <2>2, <3>1, FinishKeeps DEF Digest!mark_delivery_rejected
    <2>3. CASE Digest!mark_delivery_unknown(s)
      <3>1. 0 \in 0..(MaxClock + 1)
        BY DigestNumbers
      <3> QED BY <1>0, <2>3, <3>1, FinishKeeps DEF Digest!mark_delivery_unknown
    <2>4. CASE Digest!NothingToClaim(s)
      BY <1>0, <2>4, ReturnKeeps DEF Digest!NothingToClaim
    <2> QED
      BY <1>0, <1>4, <2>1, <2>2, <2>3, <2>4, RunDueKeeps, MarkExpiredKeeps, GetExecutionKeeps,
         EnsureExecutionKeeps, ReconcileKeeps, ApplyReconciliationKeeps, ClaimNextPartKeeps
      DEF Digest!SchedulerStep
  <1>5. CASE Digest!Stop(s)
    BY <1>0, <1>5, ReturnKeeps DEF Digest!Stop
  <1> QED BY <1>0, <1>1, <1>2, <1>3, <1>4, <1>5 DEF Digest!Next

LEMMA DigestStutters ==
    ASSUME Digest!DigestInductive, UNCHANGED Digest!vars
    PROVE  Digest!DigestInductive'
PROOF
  <1>1. UNCHANGED <<now, received, execution, reported, requests, chat, sched>>
    BY DEF Digest!vars
  <1>2. Digest!WindowsInOrder' /\ \A s \in Schedulers : Digest!RunAgrees(s)'
    BY <1>1
    DEF Digest!DigestInductive, Digest!WindowsInOrder, Digest!SnapshotMissed,
         Digest!latest_completed, Digest!RunAgrees, Digest!InFlight,
        Digest!Part, Digest!Open
  <1>3. sched' \in [Schedulers -> Digest!Runs]
        /\ \A s \in Schedulers : sched'[s].pc # "idle" => sched'[s].window \in Digest!Windows
    BY <1>1 DEF Digest!DigestInductive, Digest!Shapes
  <1> QED BY <1>1, <1>2, <1>3, OnlyRuns

\* claim_next_part, reconcile_parts, _write_parts_and_refresh_state: with one
\* scheduler at a time, for any number of days, mails and parts and however
\* requests are lost, refused or late and the scheduler stopped, no part is
\* posted twice, what is confirmed was posted in its order, and a miss is ticked
\* off only after a digest that names it.
THEOREM DigestHolds ==
    ASSUME Digest!DigestAssumption, Digest!OneScheduler
    PROVE  Digest!Spec => []Digest!DigestInv
PROOF
  <1>1. Digest!Init => Digest!DigestInductive
    BY DigestStarts
  <1>2. Digest!DigestInductive /\ [Digest!Next]_(Digest!vars) => Digest!DigestInductive'
    BY DigestSteps, DigestStutters
  <1>3. Digest!DigestInductive => Digest!DigestInv
    BY DEF Digest!DigestInductive
  <1> QED BY <1>1, <1>2, <1>3, PTL DEF Digest!Spec

-----------------------------------------------------------------------------
(* Routing: finite sets of numbers, and recursion on conditions.            *)

\* The instance counts as the library does.
LEMMA SameLibrary ==
    \A S : Routing!Cardinality(S) = Cardinality(S)
           /\ (Routing!IsFiniteSet(S) <=> IsFiniteSet(S))
PROOF
  BY DEF Routing!Cardinality, Cardinality, Routing!IsFiniteSet, IsFiniteSet

\* The identifiers of some rules have a least one.
LEMMA LeastOfSome ==
    ASSUME NEW T, T \in SUBSET Nat, T # {}
    PROVE  \E x \in T : \A y \in T : x <= y
PROOF
  <1>1. IsWellFoundedOn(OpToRel(<, Nat), Nat)
    BY NatLessThanWellFounded
  <1>2. PICK x \in T : \A y \in T : <<y, x>> \notin OpToRel(<, Nat)
    <2> DEFINE R == OpToRel(<, Nat)
    <2>1. IsWellFoundedOn(R, Nat)
      BY <1>1
    <2> HIDE DEF R
    <2>2. \E x \in T : \A y \in T : ~(<<y, x>> \in R)
      BY <2>1, WFMin
    <2> QED BY <2>2 DEF R
  <1>3. \A y \in T : ~(y < x)
    <2> SUFFICES ASSUME NEW y \in T, y < x PROVE FALSE
      OBVIOUS
    <2>1. <<y, x>> \in Nat \X Nat
      OBVIOUS
    <2>2. <<y, x>>[1] < <<y, x>>[2] => <<y, x>> \in OpToRel(<, Nat)
      BY <2>1 DEF OpToRel
    <2> QED BY <1>2, <2>2
  <1> QED BY <1>3

\* The positions of some hits have a last one.
LEMMA GreatestOfSome ==
    ASSUME NEW n \in Nat, NEW T, T \in SUBSET (1..n), T # {}
    PROVE  \E x \in T : \A y \in T : x >= y
PROOF
  <1> DEFINE U == {n - y : y \in T}
  <1>1. U \in SUBSET Nat /\ U # {}
    <2>1. \A y \in T : n - y \in Nat
      OBVIOUS
    <2> QED BY <2>1
  <1>2. PICK u \in U : \A w \in U : u <= w
    <2> HIDE DEF U
    <2> QED BY <1>1, LeastOfSome
  <1>3. PICK x \in T : u = n - x
    BY <1>2
  <1>4. \A y \in T : n - x <= n - y
    BY <1>2, <1>3
  <1> QED BY <1>3, <1>4

\* Conditions are finite trees: some node has none of its parts in the set.
LEMMA LowestNode ==
    ASSUME Routing!RoutingAssumption, NEW S, S \in SUBSET Conditions, S # {}
    PROVE  \E n \in S : Routing!Kids(n) \cap S = {}
PROOF
  BY DEF Routing!RoutingAssumption, Routing!ConditionsAssumption

\* What a node comes to depends on its parts only.
LEMMA JudgedByParts ==
    ASSUME Routing!RoutingAssumption, NEW n \in Conditions, NEW g, NEW h, NEW view, NEW me,
           \A k \in Routing!Kids(n) : g[k] = h[k]
    PROVE  Routing!Judge(g, n, view, me) = Routing!Judge(h, n, view, me)
PROOF
  <1>1. n.kind \in {"none", "leaf", "all", "any", "not"}
    BY DEF Routing!RoutingAssumption, Routing!ConditionsAssumption
  <1>2. CASE n.kind = "not"
    <2>1. g[n.kid] = h[n.kid]
      BY <1>2 DEF Routing!Kids
    <2> QED BY <1>2, <2>1 DEF Routing!Judge
  <1>3. CASE n.kind \in {"all", "any"}
    <2>1. \A k \in n.kids : g[k] = h[k]
      BY <1>3 DEF Routing!Kids
    <2>2. {g[k] : k \in n.kids} = {h[k] : k \in n.kids}
      BY <2>1
    <2> QED BY <1>3, <2>2 DEF Routing!Judge
  <1>4. CASE n.kind \in {"none", "leaf"}
    BY <1>4 DEF Routing!Judge
  <1> QED BY <1>1, <1>2, <1>3, <1>4

\* EvaluateConditionNode is what its recursive equation says.  Partial solutions
\* on sets that contain the parts of their nodes agree, so they can be put
\* together, and a lowest node that none of them covers could be added.
LEMMA ConditionsAreJudged ==
    ASSUME Routing!RoutingAssumption, NEW view, NEW me
    PROVE  \E v : /\ v = [n \in Conditions |-> Routing!Judge(v, n, view, me)]
                  /\ \A root : Routing!EvaluateConditionNode(root, view, me) = v[root]
PROOF
  <1> DEFINE J(g, n) == Routing!Judge(g, n, view, me)
             Closed(T) == T \in SUBSET Conditions /\ \A n \in T : Routing!Kids(n) \subseteq T
             Solved(T, g) == Closed(T) /\ \A n \in T : g[n] = J(g, n)
             G == {n \in Conditions : \E T, g : n \in T /\ Solved(T, g)}
             Val(n) == CHOOSE x : \E T, g : n \in T /\ Solved(T, g) /\ x = g[n]
             w == [n \in G |-> Val(n)]
  <1>1. ASSUME NEW n \in Conditions, NEW g, NEW h, \A k \in Routing!Kids(n) : g[k] = h[k]
        PROVE  J(g, n) = J(h, n)
    BY <1>1, JudgedByParts
  <1> HIDE DEF J
  <1>2. ASSUME NEW T, NEW g, NEW U, NEW h, Solved(T, g), Solved(U, h), NEW m \in T \cap U
        PROVE  g[m] = h[m]
    <2> DEFINE Bad == {n \in T \cap U : g[n] # h[n]}
    <2> SUFFICES ASSUME Bad # {} PROVE FALSE
      OBVIOUS
    <2>1. Bad \in SUBSET Conditions
      BY <1>2
    <2>2. PICK n \in Bad : Routing!Kids(n) \cap Bad = {}
      <3> HIDE DEF Bad
      <3> QED BY <2>1, LowestNode
    <2>3. \A k \in Routing!Kids(n) : k \in T \cap U
      BY <1>2, <2>2
    <2>4. \A k \in Routing!Kids(n) : g[k] = h[k]
      BY <2>2, <2>3
    <2>5. J(g, n) = J(h, n)
      BY <1>1, <2>1, <2>2, <2>4
    <2> QED BY <1>2, <2>2, <2>5
  <1>3. ASSUME NEW T, NEW g, Solved(T, g), NEW n \in T
        PROVE  n \in G /\ w[n] = g[n]
    <2>1. n \in G
      BY <1>3
    <2>2. \A x : (\E U, h : n \in U /\ Solved(U, h) /\ x = h[n]) <=> x = g[n]
      <3> HIDE DEF Solved
      <3> QED BY <1>2, <1>3
    <2>3. Val(n) = g[n]
      <3> HIDE DEF Solved
      <3> QED BY <2>2
    <2> HIDE DEF G, Val
    <2> QED BY <2>1, <2>3
  <1>4. Solved(G, w)
    <2>1. ASSUME NEW n \in G PROVE Routing!Kids(n) \subseteq G /\ w[n] = J(w, n)
      <3>1. PICK T, g : n \in T /\ Solved(T, g)
        BY <2>1
      <3>2. n \in Conditions /\ Routing!Kids(n) \subseteq T
        BY <3>1
      <3>3. \A k \in T : k \in G /\ w[k] = g[k]
        <4> HIDE DEF Solved, G, w
        <4> QED BY <1>3, <3>1
      <3>4. J(w, n) = J(g, n)
        <4> HIDE DEF G, w
        <4> QED BY <1>1, <3>2, <3>3
      <3> HIDE DEF G, w
      <3> QED BY <3>1, <3>2, <3>3, <3>4
    <2>2. G \in SUBSET Conditions
      OBVIOUS
    <2> HIDE DEF G, w
    <2> QED BY <2>1, <2>2
  <1>5. G = Conditions
    <2> SUFFICES ASSUME Conditions \ G # {} PROVE FALSE
      OBVIOUS
    <2>1. PICK n \in Conditions \ G : Routing!Kids(n) \cap (Conditions \ G) = {}
      <3> DEFINE S == Conditions \ G
      <3>1. S \in SUBSET Conditions /\ S # {}
        OBVIOUS
      <3> HIDE DEF S
      <3>2. \E x \in S : Routing!Kids(x) \cap S = {}
        BY <3>1, LowestNode
      <3> QED BY <3>2 DEF S
    <2>2. Routing!Kids(n) \subseteq G
      <3>1. Routing!Kids(n) \subseteq Conditions
        BY DEF Routing!RoutingAssumption, Routing!ConditionsAssumption
      <3> QED BY <2>1, <3>1
    <2> DEFINE u == [m \in G \cup {n} |-> IF m = n THEN J(w, n) ELSE w[m]]
    <2>3. n \in Conditions /\ n \notin G
      BY <2>1
    <2>4. \A m \in G : u[m] = w[m] /\ Routing!Kids(m) \subseteq G /\ m \in Conditions
              /\ w[m] = J(w, m)
      <3> HIDE DEF G, w
      <3> QED BY <1>4, <2>3
    <2>5. u[n] = J(w, n)
      <3> HIDE DEF G, w
      <3> QED OBVIOUS
    <2>6. \A m \in G \cup {n} : Routing!Kids(m) \subseteq G
      BY <2>2, <2>4
    <2> HIDE DEF G, w, u
    <2>7. \A m \in G \cup {n} : J(u, m) = J(w, m)
      <3> SUFFICES ASSUME NEW m \in G \cup {n} PROVE J(u, m) = J(w, m)
        OBVIOUS
      <3>1. m \in Conditions
        BY <2>3, <2>4
      <3>2. \A k \in Routing!Kids(m) : u[k] = w[k]
        BY <2>4, <2>6
      <3> QED BY <1>1, <3>1, <3>2
    <2>8. Solved(G \cup {n}, u)
      BY <2>3, <2>4, <2>5, <2>6, <2>7
    <2>9. n \in G
      BY <2>8, <1>3
    <2> QED BY <2>3, <2>9
  <1>6. w = [n \in Conditions |-> J(w, n)]
    <2>1. \A n \in Conditions : w[n] = J(w, n)
      <3> HIDE DEF G, w
      <3> QED BY <1>4, <1>5
    <2>2. w = [n \in Conditions |-> w[n]]
      <3> HIDE DEF G, Val
      <3>1. w = [n \in G |-> w[n]]
        OBVIOUS
      <3> HIDE DEF w
      <3> QED BY <3>1, <1>5
    <2> HIDE DEF w, G
    <2> QED BY <2>1, <2>2
  <1> DEFINE v == CHOOSE f : f = [n \in Conditions |-> J(f, n)]
  <1>7. v = [n \in Conditions |-> J(v, n)]
    <2> HIDE DEF w
    <2> QED BY <1>6
  <1>8. \A root : Routing!EvaluateConditionNode(root, view, me) = v[root]
    BY DEF Routing!EvaluateConditionNode, J
  <1> HIDE DEF v
  <1> QED BY <1>7, <1>8 DEF J

-----------------------------------------------------------------------------
(* The matcher: what is known stays so when more is known (dsl.py).         *)

\* A leaf that could be evaluated comes to the same when all is known.
LEMMA LeafKnows ==
    ASSUME Routing!RoutingAssumption, NEW view \in Views, NEW me,
           NEW r \in Routing!Resolutions(view, me),
           NEW leaf, leaf.field \in Routing!Fields, Routing!EvaluateLeaf(leaf, view,
                   me) # "UNKNOWN"
    PROVE  Routing!EvaluateLeaf(leaf, r.view, r.me) = Routing!EvaluateLeaf(leaf, view, me)
PROOF
  <1>1. r.view = [view EXCEPT !.long = {}] /\ (r.me = me \/ me = NoMe)
    BY DEF Routing!Resolutions
  <1>2. DOMAIN view = Routing!Fields \cup {"long"} /\ "long" \notin Routing!Fields
    BY DEF Routing!RoutingAssumption, Routing!FoldingAssumption, Routing!Fields,
         Routing!SetFields
  <1>3. r.view[leaf.field] = view[leaf.field] /\ r.view.long = {}
    BY <1>1, <1>2
  <1>4. ~(Routing!MePlaceholder \in leaf.values /\ me = NoMe)
        /\ ~(leaf.op = "regex" /\ leaf.field \in view.long)
    BY DEF Routing!EvaluateLeaf
  <1>5. ~(Routing!MePlaceholder \in leaf.values /\ r.me = NoMe)
        /\ ~(leaf.op = "regex" /\ leaf.field \in r.view.long)
    BY <1>1, <1>3, <1>4
  <1>6. (IF Routing!MePlaceholder \in leaf.values
         THEN (leaf.values \ {Routing!MePlaceholder}) \cup {r.me} ELSE leaf.values)
        = (IF Routing!MePlaceholder \in leaf.values
           THEN (leaf.values \ {Routing!MePlaceholder}) \cup {me} ELSE leaf.values)
    BY <1>1, <1>4
  <1> QED BY <1>3, <1>4, <1>5, <1>6 DEF Routing!EvaluateLeaf

\* A conjunction or disjunction that is known does not depend on its unknowns.
LEMMA TriKnows ==
    ASSUME NEW X, NEW Y,
           \A x \in X : x # "UNKNOWN" => x \in Y,
           \A y \in Y : y \in X \/ "UNKNOWN" \in X
    PROVE  /\ Routing!TriAll(X) # "UNKNOWN" => Routing!TriAll(Y) = Routing!TriAll(X)
           /\ Routing!TriAny(X) # "UNKNOWN" => Routing!TriAny(Y) = Routing!TriAny(X)
PROOF
  <1>1. CASE "UNKNOWN" \in X
    <2>1. ~(X \subseteq {"TRUE"}) /\ ~(X \subseteq {"FALSE"})
      BY <1>1
    <2> QED BY <2>1 DEF Routing!TriAll, Routing!TriAny
  <1>2. CASE "UNKNOWN" \notin X
    <2>1. X = Y
      BY <1>2
    <2> QED BY <2>1
  <1> QED BY <1>1, <1>2

\* The same of a condition, from its leaves upwards.
LEMMA ConditionKnows ==
    ASSUME Routing!RoutingAssumption, NEW view \in Views, NEW me,
           NEW r \in Routing!Resolutions(view, me),
           NEW root \in Conditions, Routing!EvaluateConditionNode(root, view, me) # "UNKNOWN"
    PROVE  Routing!EvaluateConditionNode(root, r.view,
                                         r.me) = Routing!EvaluateConditionNode(root, view, me)
PROOF
  <1>1. PICK f : /\ f = [n \in Conditions |-> Routing!Judge(f, n, view, me)]
                 /\ \A n : Routing!EvaluateConditionNode(n, view, me) = f[n]
    BY ConditionsAreJudged
  <1>2. PICK g : /\ g = [n \in Conditions |-> Routing!Judge(g, n, r.view, r.me)]
                 /\ \A n : Routing!EvaluateConditionNode(n, r.view, r.me) = g[n]
    BY ConditionsAreJudged
  <1>3. \A n \in Conditions : f[n] = Routing!Judge(f, n, view, me) /\ g[n] = Routing!Judge(g, n,
                r.view, r.me)
    BY <1>1, <1>2
  <1> DEFINE Bad == {n \in Conditions : f[n] # "UNKNOWN" /\ g[n] # f[n]}
  <1>4. Bad = {}
    <2> SUFFICES ASSUME Bad # {} PROVE FALSE
      OBVIOUS
    <2>1. PICK n \in Bad : Routing!Kids(n) \cap Bad = {}
      <3>1. Bad \in SUBSET Conditions
        OBVIOUS
      <3> HIDE DEF Bad
      <3> QED BY <3>1, LowestNode
    <2>2. n \in Conditions /\ f[n] # "UNKNOWN" /\ g[n] # f[n]
      BY <2>1
    <2>3. \A k \in Routing!Kids(n) : f[k] # "UNKNOWN" => g[k] = f[k]
      BY <2>1, <2>2 DEF Routing!RoutingAssumption, Routing!ConditionsAssumption,
           Routing!RegistriesAssumption
    <2>4. n.kind \in {"none", "leaf", "all", "any", "not"}
      BY <2>2 DEF Routing!RoutingAssumption, Routing!ConditionsAssumption,
           Routing!RegistriesAssumption
    <2>5. f[n] = Routing!Judge(f, n, view, me) /\ g[n] = Routing!Judge(g, n, r.view, r.me)
      BY <1>3, <2>2
    <2> HIDE DEF Bad
    <2>6. CASE n.kind = "none"
      BY <2>2, <2>5, <2>6 DEF Routing!Judge
    <2>7. CASE n.kind = "leaf"
      <3>1. n.leaf.field \in Routing!Fields
        BY <2>2, <2>7 DEF Routing!RoutingAssumption, Routing!ConditionsAssumption,
             Routing!RegistriesAssumption
      <3>2. f[n] = Routing!EvaluateLeaf(n.leaf, view, me)
            /\ g[n] = Routing!EvaluateLeaf(n.leaf, r.view, r.me)
        BY <2>5, <2>7 DEF Routing!Judge
      <3> QED BY <2>2, <3>1, <3>2, LeafKnows
    <2>8. CASE n.kind = "all"
      <3>1. f[n] = Routing!TriAll({f[k] : k \in n.kids})
                /\ g[n] = Routing!TriAll({g[k] : k \in n.kids})
        BY <2>5, <2>8 DEF Routing!Judge
      <3>2. \A k \in n.kids : f[k] # "UNKNOWN" => g[k] = f[k]
        BY <2>3, <2>8 DEF Routing!Kids
      <3> DEFINE X == {f[k] : k \in n.kids}
                 Y == {g[k] : k \in n.kids}
      <3>3. /\ \A x \in X : x # "UNKNOWN" => x \in Y
            /\ \A y \in Y : y \in X \/ "UNKNOWN" \in X
        BY <3>2
      <3>4. f[n] = Routing!TriAll(X) /\ g[n] = Routing!TriAll(Y)
        BY <3>1
      <3> HIDE DEF X, Y
      <3> QED BY <2>2, <3>3, <3>4, TriKnows
    <2>9. CASE n.kind = "any"
      <3>1. f[n] = Routing!TriAny({f[k] : k \in n.kids})
                /\ g[n] = Routing!TriAny({g[k] : k \in n.kids})
        BY <2>5, <2>9 DEF Routing!Judge
      <3>2. \A k \in n.kids : f[k] # "UNKNOWN" => g[k] = f[k]
        BY <2>3, <2>9 DEF Routing!Kids
      <3> DEFINE X == {f[k] : k \in n.kids}
                 Y == {g[k] : k \in n.kids}
      <3>3. /\ \A x \in X : x # "UNKNOWN" => x \in Y
            /\ \A y \in Y : y \in X \/ "UNKNOWN" \in X
        BY <3>2
      <3>4. f[n] = Routing!TriAny(X) /\ g[n] = Routing!TriAny(Y)
        BY <3>1
      <3> HIDE DEF X, Y
      <3> QED BY <2>2, <3>3, <3>4, TriKnows
    <2>10. CASE n.kind = "not"
      <3>1. f[n] = Routing!TriNot(f[n.kid]) /\ g[n] = Routing!TriNot(g[n.kid])
        BY <2>5, <2>10 DEF Routing!Judge
      <3>2. f[n.kid] # "UNKNOWN" => g[n.kid] = f[n.kid]
        BY <2>3, <2>10 DEF Routing!Kids
      <3> QED BY <2>2, <3>1, <3>2 DEF Routing!TriNot
    <2> QED BY <2>4, <2>6, <2>7, <2>8, <2>9, <2>10
  <1> QED BY <1>1, <1>2, <1>4

\* The same of an anchor.
LEMMA AnchorKnows ==
    ASSUME Routing!RoutingAssumption, NEW view \in Views, NEW me,
           NEW r \in Routing!Resolutions(view, me),
           NEW rule, Routing!AnchorValid(rule), Routing!EvaluateAnchor(rule, view,
                   me) # "UNKNOWN"
    PROVE  Routing!EvaluateAnchor(rule, r.view, r.me) = Routing!EvaluateAnchor(rule, view, me)
PROOF
  <1> DEFINE X == {Routing!EvaluateLeaf(l, view, me) : l \in rule.anchor}
             Y == {Routing!EvaluateLeaf(l, r.view, r.me) : l \in rule.anchor}
  <1>1. \A l \in rule.anchor : Routing!EvaluateLeaf(l, view, me) # "UNKNOWN" =>
           Routing!EvaluateLeaf(l, r.view, r.me) = Routing!EvaluateLeaf(l, view, me)
    <2> SUFFICES ASSUME NEW l \in rule.anchor, Routing!EvaluateLeaf(l, view, me) # "UNKNOWN"
                 PROVE  Routing!EvaluateLeaf(l, r.view, r.me) = Routing!EvaluateLeaf(l, view,
                                me)
      OBVIOUS
    <2>1. l.field \in Routing!Fields
      BY DEF Routing!AnchorValid, Routing!Fields, Routing!SetFields
    <2> QED BY <2>1, LeafKnows
  <1>2. /\ \A x \in X : x # "UNKNOWN" => x \in Y
        /\ \A y \in Y : y \in X \/ "UNKNOWN" \in X
    BY <1>1
  <1>3. /\ Routing!EvaluateAnchor(rule, view,
                                  me) = IF rule.any THEN Routing!TriAny(X) ELSE Routing!TriAll(X)
        /\ Routing!EvaluateAnchor(rule, r.view,
                                  r.me) = IF rule.any THEN Routing!TriAny(Y) ELSE Routing!TriAll(Y)
    BY DEF Routing!EvaluateAnchor
  <1> HIDE DEF X, Y
  <1> QED BY <1>2, <1>3, TriKnows

\* A rule that is not indeterminate matches, or not, whatever is unknown.
LEMMA MatchKnows ==
    ASSUME Routing!RoutingAssumption, NEW view \in Views, NEW me,
           NEW r \in Routing!Resolutions(view, me),
           NEW rule, Routing!AnchorValid(rule), rule.conditions \in Conditions,
           Routing!EvaluateMatch(rule, view, me) # "INDETERMINATE"
    PROVE  Routing!EvaluateMatch(rule, r.view, r.me) = Routing!EvaluateMatch(rule, view, me)
PROOF
  <1>1. Routing!EvaluateAnchor(rule, view, me) \in {"TRUE", "FALSE"}
    BY DEF Routing!EvaluateMatch
  <1>2. Routing!EvaluateAnchor(rule, r.view, r.me) = Routing!EvaluateAnchor(rule, view, me)
    BY <1>1, AnchorKnows
  <1>3. CASE Routing!EvaluateAnchor(rule, view, me) = "TRUE"
    <2>1. Routing!EvaluateConditionNode(rule.conditions, view, me) # "UNKNOWN"
      BY <1>3 DEF Routing!EvaluateMatch
    <2>2. Routing!EvaluateConditionNode(rule.conditions, r.view, r.me)
             = Routing!EvaluateConditionNode(rule.conditions, view, me)
      BY <2>1, ConditionKnows
    <2> QED BY <1>2, <1>3, <2>2 DEF Routing!EvaluateMatch
  <1>4. CASE Routing!EvaluateAnchor(rule, view, me) = "FALSE"
    BY <1>2, <1>4 DEF Routing!EvaluateMatch
  <1> QED BY <1>1, <1>3, <1>4

-----------------------------------------------------------------------------
(* Tier 1 (engine.py).                                                      *)

\* What the compiler has seen to of the rules in an artifact.
LEMMA AdmittedRules ==
    ASSUME Routing!RoutingAssumption, NEW rules, Routing!Admitted(rules)
    PROVE  /\ Routing!IsFiniteSet(rules)
           /\ \A r \in rules : /\ Routing!AnchorValid(r) /\ r.conditions \in Conditions
                               /\ r.id \in Nat /\ r.route \in Routing!Routes
                               /\ Routing!RuleDecision(r) # None
                               /\ ~Routing!FixtureErrors(r, Me)
PROOF
  <1>1. PICK manifests \in Registries : /\ rules = Routing!EnabledRules(manifests)
                                    /\ \A rule \in rules : ~Routing!FixtureErrors(rule, Me)
    BY DEF Routing!Admitted
  <1>2. rules \in SUBSET manifests /\ \A r \in rules : Routing!AnchorValid(r)
    BY <1>1 DEF Routing!EnabledRules, Routing!SchemaValid
  <1>3. Routing!IsFiniteSet(manifests)
    BY DEF Routing!RoutingAssumption, Routing!ConditionsAssumption, Routing!RegistriesAssumption
  <1>4. Routing!IsFiniteSet(rules)
    BY SameLibrary, <1>2, <1>3, FS_Subset
  <1> QED BY <1>1, <1>2, <1>4 DEF Routing!RoutingAssumption, Routing!ConditionsAssumption,
       Routing!RegistriesAssumption

\* What Tier 1 decides, or leaves open, it decides whatever is unknown.
LEMMA RouterKnows ==
    ASSUME Routing!RoutingAssumption, NEW rules, Routing!Admitted(rules), NEW view \in Views,
           NEW me,
           NEW r \in Routing!Resolutions(view, me), NEW time, None # Routing!Indeterminate,
           \/ Routing!ExecuteRouter(rules, view, me, time) = None
           \/ Routing!ExecuteRouter(rules, view, me, time).outcome # "error"
    PROVE  Routing!ExecuteRouter(rules, r.view, r.me, time) = Routing!ExecuteRouter(rules, view,
                   me, time)
PROOF
  <1>1. Routing!Having(rules, "INDETERMINATE", view, me, time) = {}
    BY DEF Routing!ExecuteRouter, Routing!ManualReview, Routing!Decided, Routing!Indeterminate
  <1>2. \A rule \in rules : Routing!IsRuleActive(rule, time) =>
           Routing!EvaluateMatch(rule, view, me) # "INDETERMINATE"
    BY <1>1 DEF Routing!Having
  <1>3. \A rule \in rules : Routing!IsRuleActive(rule, time) =>
           Routing!EvaluateMatch(rule, r.view, r.me) = Routing!EvaluateMatch(rule, view, me)
    BY <1>2, AdmittedRules, MatchKnows
  <1>4. \A status : Routing!Having(rules, status, r.view, r.me, time) = Routing!Having(rules,
                status, view, me, time)
    BY <1>3 DEF Routing!Having
  <1> DEFINE Route(unsure, matched) ==
                LET fingerprints == {Routing!RuleFingerprint(s) : s \in matched}
                IN IF unsure # {} THEN Routing!Indeterminate
                   ELSE IF matched = {} THEN None
                   ELSE IF Routing!Cardinality(fingerprints) > 1 THEN Routing!Conflict
                   ELSE Routing!RuleDecision(Routing!Selected(rules,
                                                              CHOOSE f \in fingerprints : TRUE))
  <1>5. /\ Routing!ExecuteRouter(rules, view, me, time)
              = Route(Routing!Having(rules, "INDETERMINATE", view, me, time),
                      Routing!Having(rules, "MATCHED", view, me, time))
        /\ Routing!ExecuteRouter(rules, r.view, r.me, time)
              = Route(Routing!Having(rules, "INDETERMINATE", r.view, r.me, time),
                      Routing!Having(rules, "MATCHED", r.view, r.me, time))
    BY DEF Routing!ExecuteRouter
  <1> HIDE DEF Route
  <1> QED BY <1>4, <1>5

\* The rule read for a fingerprint exists, and carries it.
LEMMA SelectedIsOne ==
    ASSUME Routing!RoutingAssumption, NEW rules, Routing!Admitted(rules), NEW r \in rules
    PROVE  /\ Routing!Selected(rules, Routing!RuleFingerprint(r)) \in rules
           /\ Routing!RuleFingerprint(Routing!Selected(rules, Routing!RuleFingerprint(r)))
                 = Routing!RuleFingerprint(r)
PROOF
  <1> DEFINE same == {s \in rules : Routing!RuleFingerprint(s) = Routing!RuleFingerprint(r)}
             ids == {s.id : s \in same}
  <1>1. \A s \in rules : s.id \in Nat
    BY AdmittedRules
  <1>2. ids \in SUBSET Nat /\ ids # {}
    BY <1>1
  <1>3. PICK i \in ids : \A j \in ids : i <= j
    <2> HIDE DEF ids
    <2> QED BY <1>2, LeastOfSome
  <1>4. \E s \in same : \A t \in same : s.id <= t.id
    BY <1>3
  <1>5. Routing!Selected(rules, Routing!RuleFingerprint(r)) \in same
    <2>1. Routing!Selected(rules, Routing!RuleFingerprint(r))
             = CHOOSE s \in same : \A t \in same : s.id <= t.id
      BY DEF Routing!Selected
    <2> HIDE DEF same
    <2> QED BY <1>4, <2>1
  <1> QED BY <1>5

\* Finitely many rules whose actions do not differ have one action.
LEMMA OneAction ==
    ASSUME NEW S, Routing!IsFiniteSet(S), NEW f, Routing!Cardinality({f[s] : s \in S}) <= 1,
           NEW r \in S, NEW s \in S
    PROVE  f[r] = f[s]
PROOF
  <1> DEFINE T == {f[x] : x \in S}
             g == [x \in S |-> f[x]]
  <1>1. g \in Surjection(S, T)
    BY DEF Surjection
  <1> HIDE DEF g
  <1>2. Routing!IsFiniteSet(T)
    BY SameLibrary, <1>1, FS_Surjection
  <1>3. f[r] \in T /\ f[s] \in T
    OBVIOUS
  <1> HIDE DEF T
  <1>4. Routing!Cardinality(T) = 0 \/ Routing!Cardinality(T) = 1
    BY SameLibrary, <1>2, FS_CardinalityType DEF T
  <1>5. T = {} \/ \E x : T = {x}
    BY SameLibrary, <1>2, <1>4, FS_EmptySet, FS_Singleton
  <1> QED BY <1>3, <1>5

\* When a rule matches and none is indeterminate, there is a conflict, or the
\* decision of one rule with whose action every matching rule agrees.
LEMMA ActiveMatches ==
    ASSUME Routing!RoutingAssumption, NEW rules, Routing!Admitted(rules), NEW view, NEW me,
           NEW time,
           Routing!Having(rules, "INDETERMINATE", view, me, time) = {},
           NEW r \in Routing!Having(rules, "MATCHED", view, me, time)
    PROVE  \/ Routing!ExecuteRouter(rules, view, me, time) = Routing!Conflict
           \/ \E s \in rules : /\ Routing!ExecuteRouter(rules, view, me,
                                                        time) = Routing!RuleDecision(s)
                               /\ \A t \in Routing!Having(rules, "MATCHED", view, me, time) :
                                     Routing!RuleFingerprint(t) = Routing!RuleFingerprint(s)
PROOF
  <1> DEFINE matched == Routing!Having(rules, "MATCHED", view, me, time)
             fingerprints == {Routing!RuleFingerprint(t) : t \in matched}
             f == [t \in matched |-> Routing!RuleFingerprint(t)]
  <1>1. matched \in SUBSET rules
    BY DEF Routing!Having
  <1>2. Routing!IsFiniteSet(matched)
    <2> HIDE DEF matched
    <2> QED BY SameLibrary, <1>1, AdmittedRules, FS_Subset
  <1>3. fingerprints = {f[t] : t \in matched}
    OBVIOUS
  <1>4. Routing!IsFiniteSet(fingerprints)
    <2>1. f \in Surjection(matched, fingerprints)
      BY DEF Surjection
    <2> HIDE DEF f, matched, fingerprints
    <2> QED BY SameLibrary, <1>2, <2>1, FS_Surjection
  <1>5. CASE Routing!Cardinality(fingerprints) > 1
    BY <1>5 DEF Routing!ExecuteRouter
  <1>6. CASE ~(Routing!Cardinality(fingerprints) > 1)
    <2>1. Routing!Cardinality(fingerprints) <= 1
      <3> HIDE DEF fingerprints
      <3> QED BY SameLibrary, <1>4, <1>6, FS_CardinalityType
    <2>2. \A t \in matched : Routing!RuleFingerprint(t) = Routing!RuleFingerprint(r)
      <3>1. \A t \in matched : f[t] = f[r]
        <4> HIDE DEF f, matched, fingerprints
        <4> QED BY <1>2, <1>3, <2>1, OneAction DEF matched
      <3> QED BY <3>1
    <2>3. (CHOOSE g \in fingerprints : TRUE) = Routing!RuleFingerprint(r)
      BY <2>2
    <2>4. PICK s \in rules : s = Routing!Selected(rules, Routing!RuleFingerprint(r))
                             /\ Routing!RuleFingerprint(s) = Routing!RuleFingerprint(r)
      BY <1>1, SelectedIsOne
    <2>5. Routing!ExecuteRouter(rules, view, me, time) = Routing!RuleDecision(s)
      <3>1. matched # {}
        OBVIOUS
      <3>2. Routing!ExecuteRouter(rules, view, me, time)
               = Routing!RuleDecision(Routing!Selected(rules, CHOOSE g \in fingerprints : TRUE))
        BY <1>6, <3>1 DEF Routing!ExecuteRouter
      <3> HIDE DEF fingerprints
      <3> QED BY <2>3, <2>4, <3>2
    <2> QED BY <2>2, <2>4, <2>5
  <1> QED BY <1>5, <1>6

\* Equal fingerprints are equal actions (fingerprint.py).
LEMMA SameAction ==
    ASSUME NEW ro, NEW pa, NEW pr, NEW ro2, NEW pa2, NEW pr2,
           Routing!ActionFingerprint(ro, pa, pr) = Routing!ActionFingerprint(ro2, pa2, pr2)
    PROVE  Routing!Executes(ro, pa, pr) = Routing!Executes(ro2, pa2, pr2)
PROOF
  <1>1. ro = ro2 /\ pr = pr2
        /\ Routing!CanonicalizeParams(ro, pa) = Routing!CanonicalizeParams(ro, pa2)
    BY DEF Routing!ActionFingerprint
  <1>2. CASE ro = "reply"
    <2>1. [mode |-> IF pa.mode = None THEN "sender_and_original_cc" ELSE pa.mode]
             = [mode |-> IF pa2.mode = None THEN "sender_and_original_cc" ELSE pa2.mode]
      BY <1>1, <1>2 DEF Routing!CanonicalizeParams
    <2>2. (IF pa.mode = None THEN "sender_and_original_cc" ELSE pa.mode)
             = (IF pa2.mode = None THEN "sender_and_original_cc" ELSE pa2.mode)
      BY <2>1
    <2> QED BY <1>1, <1>2, <2>2 DEF Routing!Executes
  <1>3. CASE ro = "forward"
    <2>1. [to |-> Routing!Fold(pa.to), cc |-> Routing!Fold(pa.cc), edit |-> pa.edit,
           attach |-> pa.attach]
             = [to |-> Routing!Fold(pa2.to), cc |-> Routing!Fold(pa2.cc), edit |-> pa2.edit,
                attach |-> pa2.attach]
      BY <1>1, <1>3 DEF Routing!CanonicalizeParams
    <2>2. /\ Routing!Fold(pa.to) = Routing!Fold(pa2.to) /\ Routing!Fold(pa.cc) = Routing!Fold(pa2.cc)
          /\ pa.edit = pa2.edit /\ pa.attach = pa2.attach
      BY <2>1
    <2>3. /\ {Folded[t] : t \in pa.to} = {Folded[t] : t \in pa2.to}
          /\ {Folded[t] : t \in pa.cc} = {Folded[t] : t \in pa2.cc}
      BY <2>2 DEF Routing!Fold
    <2> QED BY <1>1, <1>3, <2>2, <2>3 DEF Routing!Executes
  <1>4. CASE ro # "reply" /\ ro # "forward"
    BY <1>1, <1>4 DEF Routing!Executes
  <1> QED BY <1>2, <1>3, <1>4

\* Completing the hand-off profile a second time changes nothing.
LEMMA ProfileOnce ==
    ASSUME NEW ro, NEW pa, NEW pr
    PROVE  Routing!Executes(ro, pa, Routing!Profile(ro, pr)) = Routing!Executes(ro, pa, pr)
PROOF
  BY DEF Routing!Executes, Routing!Profile

\* EveryMatchAgrees, of an engine the compiler let through.
LEMMA MatchesAgree ==
    ASSUME Routing!RoutingAssumption, engine # None => Routing!Admitted(engine)
    PROVE  Routing!EveryMatchAgrees
PROOF
  <1> DEFINE d == Routing!ExecuteRouter(engine, mail, Me, clock)
             matched == Routing!Having(engine, "MATCHED", mail, Me, clock)
  <1> SUFFICES ASSUME engine # None, d # None, d.outcome = "matched", NEW r \in matched
               PROVE  Routing!Executes(r.route, r.params, r.profile) = Routing!Executes(d.route,
                              d.params, d.profile)
    BY DEF Routing!EveryMatchAgrees
  <1>1. Routing!Having(engine, "INDETERMINATE", mail, Me, clock) = {}
    BY DEF Routing!ExecuteRouter, Routing!Indeterminate, Routing!ManualReview, Routing!Decided
  <1>2. d # Routing!Conflict
    BY DEF Routing!Conflict, Routing!ManualReview, Routing!Decided
  <1>3. PICK s \in engine : d = Routing!RuleDecision(s)
            /\ Routing!RuleFingerprint(r) = Routing!RuleFingerprint(s)
    BY <1>1, <1>2, ActiveMatches
  <1>4. d.route = s.route /\ d.params = s.params
        /\ d.profile = Routing!Profile(s.route, s.profile)
    BY <1>3 DEF Routing!RuleDecision, Routing!Decided
  <1>5. Routing!Executes(r.route, r.params, Routing!Profile(r.route, r.profile))
           = Routing!Executes(s.route, s.params, Routing!Profile(s.route, s.profile))
    BY <1>3, SameAction DEF Routing!RuleFingerprint
  <1> QED BY <1>4, <1>5, ProfileOnce

\* UnknownNeverDecides, of an engine the compiler let through.
LEMMA KnownDecides ==
    ASSUME Routing!RoutingAssumption, engine # None => Routing!Admitted(engine), mail \in Views
    PROVE  Routing!UnknownNeverDecides
PROOF
  <1>1. None # Routing!Indeterminate
    BY DEF Routing!RoutingAssumption, Routing!EvidenceAssumption
  <1> QED BY <1>1, RouterKnows DEF Routing!UnknownNeverDecides

\* FixturesDecide, of an engine the compiler let through.
LEMMA FixturesMatch ==
    ASSUME Routing!RoutingAssumption, engine # None => Routing!Admitted(engine)
    PROVE  Routing!FixturesDecide
PROOF
  <1> SUFFICES ASSUME engine # None, NEW r \in engine, Routing!IsRuleActive(r, clock),
                      NEW view \in r.positive
               PROVE  Routing!ExecuteRouter(engine, view, Me, clock) # None
    BY DEF Routing!FixturesDecide
  <1>1. Routing!EvaluateMatch(r, view, Me) = "MATCHED"
    BY AdmittedRules DEF Routing!FixtureErrors
  <1>2. r \in Routing!Having(engine, "MATCHED", view, Me, clock)
    BY <1>1 DEF Routing!Having
  <1>3. CASE Routing!Having(engine, "INDETERMINATE", view, Me, clock) # {}
    BY <1>3 DEF Routing!ExecuteRouter, Routing!RoutingAssumption, Routing!EvidenceAssumption
  <1>4. CASE Routing!Having(engine, "INDETERMINATE", view, Me, clock) = {}
    <2>1. Routing!Admitted(engine)
      OBVIOUS
    <2>2. None # Routing!Conflict
      BY DEF Routing!RoutingAssumption, Routing!EvidenceAssumption
    <2>3. \A s \in engine : Routing!RuleDecision(s) # None
      BY <2>1, AdmittedRules
    <2>4. \/ Routing!ExecuteRouter(engine, view, Me, clock) = Routing!Conflict
          \/ \E s \in engine : Routing!ExecuteRouter(engine, view, Me,
                                                     clock) = Routing!RuleDecision(s)
      BY <1>2, <1>4, <2>1, ActiveMatches
    <2> QED BY <2>2, <2>3, <2>4
  <1> QED BY <1>3, <1>4

-----------------------------------------------------------------------------
(* Tiers 2 and 3 and the steps of an attempt (exchange_service.py).         *)

\* Tier 1 answers with one of the routes.
LEMMA RouterRoutes ==
    ASSUME Routing!RoutingAssumption, NEW rules, Routing!Admitted(rules), NEW view, NEW me,
           NEW time,
           Routing!ExecuteRouter(rules, view, me, time) # None
    PROVE  Routing!ExecuteRouter(rules, view, me, time).route \in Routing!Routes
PROOF
  <1>1. CASE Routing!Having(rules, "INDETERMINATE", view, me, time) # {}
    BY <1>1 DEF Routing!ExecuteRouter, Routing!Indeterminate, Routing!ManualReview,
         Routing!Decided, Routing!Routes
  <1>2. CASE Routing!Having(rules, "INDETERMINATE", view, me, time) = {}
    <2>1. PICK r : r \in Routing!Having(rules, "MATCHED", view, me, time)
      BY <1>2 DEF Routing!ExecuteRouter
    <2>2. CASE Routing!ExecuteRouter(rules, view, me, time) = Routing!Conflict
      BY <2>2 DEF Routing!Conflict, Routing!ManualReview, Routing!Decided, Routing!Routes
    <2>3. CASE \E s \in rules : Routing!ExecuteRouter(rules, view, me,
                                                      time) = Routing!RuleDecision(s)
      BY <2>3, AdmittedRules DEF Routing!RuleDecision, Routing!Decided
    <2> QED BY <1>2, <2>1, <2>2, <2>3, ActiveMatches
  <1> QED BY <1>1, <1>2

\* The label that is read for a vote is there, and cast that vote (history.py).
LEMMA LabelVotes ==
    ASSUME NEW hits, hits \in Seq({hits[i] : i \in DOMAIN hits}),
           NEW vote \in Routing!Eligible(hits)
    PROVE  /\ \E i \in DOMAIN hits : Routing!LabelOf(hits, vote) = hits[i].label
           /\ Routing!LabelOf(hits, vote) # None
           /\ Routing!Vote(Routing!LabelOf(hits, vote)) = vote
PROOF
  <1> DEFINE n == Len(hits)
             seen == {i \in DOMAIN hits : hits[i].id \in Routing!Supporters(hits, vote)}
  <1>1. n \in Nat /\ DOMAIN hits = 1..n
    OBVIOUS
  <1>2. PICK id \in Routing!Supporters(hits, vote) : TRUE
    <2>1. Routing!Supporters(hits, vote) # {}
      <3>1. Routing!Cardinality(Routing!Supporters(hits, vote)) >= 2
        BY DEF Routing!Eligible, Routing!MinHits
      <3>2. Routing!Cardinality({}) = 0
        BY SameLibrary, FS_EmptySet
      <3>3. ~(0 >= 2)
        OBVIOUS
      <3> QED BY <3>1, <3>2, <3>3
    <2> QED BY <2>1
  <1>3. \A s \in Routing!Supporters(hits, vote) :
           \E j \in DOMAIN hits : hits[j].id = s /\ hits[j].label # None
    BY DEF Routing!Supporters, Routing!VotesOf
  <1>4. seen \in SUBSET Nat /\ seen # {} /\ seen \in SUBSET (1..n)
    BY <1>1, <1>2, <1>3
  <1>5. Routing!Min(seen) \in seen
    <2> HIDE DEF seen
    <2>1. \E x \in seen : \A y \in seen : x <= y
      BY <1>4, LeastOfSome
    <2> QED BY <2>1 DEF Routing!Min
  <1>6. hits[Routing!Min(seen)].id \in Routing!Supporters(hits, vote)
    BY <1>5
  <1> DEFINE its == {i \in seen : hits[i].id = hits[Routing!Min(seen)].id /\ hits[i].label # None}
  <1>7. its # {} /\ its \in SUBSET (1..n)
    BY <1>3, <1>4, <1>6
  <1>8. Routing!Max(its) \in its
    <2> HIDE DEF its
    <2>1. \E x \in its : \A y \in its : x >= y
      BY <1>1, <1>7, GreatestOfSome
    <2> QED BY <2>1 DEF Routing!Max
  <1>9. PICK m \in DOMAIN hits : /\ m = Routing!Max(its) /\ hits[m].label # None
                                 /\ hits[m].id \in Routing!Supporters(hits, vote)
    BY <1>6, <1>8
  <1>10. Routing!LabelOf(hits, vote) = hits[m].label
    BY <1>9 DEF Routing!LabelOf
  <1>11. Routing!Vote(hits[m].label) \in Routing!VotesOf(hits, hits[m].id)
    BY <1>9 DEF Routing!VotesOf
  <1>12. Routing!VotesOf(hits, hits[m].id) = {vote}
    BY <1>9 DEF Routing!Supporters
  <1> QED BY <1>9, <1>10, <1>11, <1>12

\* What a search returns.
LEMMA HitsAreLists ==
    ASSUME Routing!RoutingAssumption, NEW hits \in HitLists \cup {<<>>}
    PROVE  /\ hits \in Seq({hits[i] : i \in DOMAIN hits})
           /\ \A i \in DOMAIN hits : hits[i].label # None =>
                 hits[i].label.route \in Routing!Routes
                 /\ Routing!LabelDecision(hits[i].label) # None
PROOF
  <1>1. CASE hits \in HitLists
    BY <1>1 DEF Routing!RoutingAssumption, Routing!EvidenceAssumption
  <1>2. CASE hits = <<>>
    <2>1. DOMAIN hits = {} /\ \A S : <<>> \in Seq(S)
      BY <1>2
    <2> QED BY <1>2, <2>1
  <1> QED BY <1>1, <1>2

\* Tier 2 answers with one of the routes.
LEMMA ConsensusRoutes ==
    ASSUME Routing!RoutingAssumption, NEW hits \in HitLists \cup {<<>>},
           Routing!HistoricalConsensus(hits) # None
    PROVE  Routing!HistoricalConsensus(hits).route \in Routing!Routes
PROOF
  <1> DEFINE vote == CHOOSE v \in Routing!Eligible(hits) : TRUE
  <1>1. \/ Routing!HistoricalConsensus(hits) = Routing!ManualReview("tier2", "conflict",
                                                                    "tier2_conflict")
        \/ /\ Routing!Eligible(hits) # {}
           /\ Routing!HistoricalConsensus(hits) = Routing!LabelDecision(Routing!LabelOf(hits,
                      vote))
    BY DEF Routing!HistoricalConsensus
  <1>2. CASE Routing!HistoricalConsensus(hits) = Routing!ManualReview("tier2", "conflict",
                                                                      "tier2_conflict")
    BY <1>2 DEF Routing!ManualReview, Routing!Decided, Routing!Routes
  <1>3. CASE /\ Routing!Eligible(hits) # {}
             /\ Routing!HistoricalConsensus(hits) = Routing!LabelDecision(Routing!LabelOf(hits,
                        vote))
    <2>1. vote \in Routing!Eligible(hits)
      BY <1>3
    <2> HIDE DEF vote
    <2>2. Routing!LabelOf(hits, vote).route \in Routing!Routes
      <3>1. /\ hits \in Seq({hits[i] : i \in DOMAIN hits})
            /\ \A i \in DOMAIN hits : hits[i].label # None =>
                   hits[i].label.route \in Routing!Routes
        BY HitsAreLists
      <3>2. /\ \E i \in DOMAIN hits : Routing!LabelOf(hits, vote) = hits[i].label
            /\ Routing!LabelOf(hits, vote) # None
        BY <2>1, <3>1, LabelVotes
      <3> QED BY <3>1, <3>2
    <2> QED BY <1>3, <2>2 DEF Routing!LabelDecision, Routing!Decided
  <1> QED BY <1>1, <1>2, <1>3

\* Before the first deployment there is nothing to be wrong.
LEMMA RoutingStarts == Routing!RoutingAssumption /\ Routing!Init => Routing!RoutingInductive
PROOF
  <1> SUFFICES ASSUME Routing!RoutingAssumption, Routing!Init PROVE Routing!RoutingInductive
    OBVIOUS
  <1>1. \A a \in 1..MaxAttempts : job[a] = [pc |-> "idle", hits |-> <<>>, decision |-> None]
    BY DEF Routing!Init, Routing!NoJobs, Routing!Idle
  <1>2. job = [a \in 1..MaxAttempts |->
                [pc |-> job[a].pc, hits |-> job[a].hits, decision |-> job[a].decision]]
    <2>1. job = [a \in 1..MaxAttempts |-> [pc |-> "idle", hits |-> <<>>, decision |-> None]]
      BY DEF Routing!Init, Routing!NoJobs, Routing!Idle
    <2>2. \A a \in 1..MaxAttempts :
             [pc |-> job[a].pc, hits |-> job[a].hits, decision |-> job[a].decision]
                = [pc |-> "idle", hits |-> <<>>, decision |-> None]
      BY <1>1
    <2> QED BY <2>1, <2>2
  <1>3. Routing!JobShapes
    BY <1>1, <1>2 DEF Routing!Init, Routing!JobShapes
  <1>4. Routing!TypeOK
    <2>1. clock \in 0..MaxTime /\ lease \in 0..MaxAttempts
      BY DEF Routing!Init, Routing!RoutingAssumption
    <2>2. \A a \in 1..MaxAttempts : job[a].pc = "idle"
      BY <1>1
    <2> QED BY <2>1, <2>2 DEF Routing!Init, Routing!TypeOK
  <1> QED BY <1>3, <1>4 DEF Routing!Init, Routing!RoutingInductive, Routing!RouteFrozen

\* Only the attempt's own record changes, and to what it found.
LEMMA AttemptGoes ==
    ASSUME Routing!JobShapes, NEW a \in 1..MaxAttempts, NEW p, NEW h \in HitLists \cup {<<>>},
           NEW d,
           job' = [job EXCEPT ![a] = [pc |-> p, hits |-> h, decision |-> d]],
           p = "persist" => d # None, acted' = acted, engine' = engine, engine # None
    PROVE  /\ Routing!JobShapes'
           /\ \A b \in 1..MaxAttempts : b # a => job'[b] = job[b]
           /\ job'[a].pc = p /\ job'[a].decision = d
PROOF
  <1>1. DOMAIN job = 1..MaxAttempts
    BY DEF Routing!JobShapes
  <1>2. /\ \A b \in 1..MaxAttempts : b # a => job'[b] = job[b]
        /\ job'[a] = [pc |-> p, hits |-> h, decision |-> d]
        /\ job' = [b \in 1..MaxAttempts |-> job'[b]]
    BY <1>1
  <1>3. \A b \in 1..MaxAttempts :
           job'[b] = [pc |-> job'[b].pc, hits |-> job'[b].hits, decision |-> job'[b].decision]
    BY <1>2 DEF Routing!JobShapes
  <1>4. job' = [b \in 1..MaxAttempts |->
                  [pc |-> job'[b].pc, hits |-> job'[b].hits, decision |-> job'[b].decision]]
    BY <1>2, <1>3
  <1>5. \A b \in 1..MaxAttempts : /\ job'[b].hits \in HitLists \cup {<<>>}
                                  /\ job'[b].pc = "persist" => job'[b].decision # None
    BY <1>2 DEF Routing!JobShapes
  <1>6. None \notin acted' /\ engine' # None
    BY DEF Routing!JobShapes
  <1> QED BY <1>2, <1>4, <1>5, <1>6 DEF Routing!JobShapes

\* Found, spelled out.
LEMMA FoundIsGoing ==
    ASSUME Routing!JobShapes, NEW a \in 1..MaxAttempts, NEW d, NEW next, Routing!Found(a, d,
                   next)
    PROVE  job' = [job EXCEPT ![a] = [pc |-> IF d = None THEN next ELSE "persist",
                                      hits |-> job[a].hits, decision |-> d]]
PROOF
  <1>1. job[a] = [pc |-> job[a].pc, hits |-> job[a].hits, decision |-> job[a].decision]
    BY DEF Routing!JobShapes
  <1>2. DOMAIN job = 1..MaxAttempts
    BY DEF Routing!JobShapes
  <1> DEFINE x == IF d = None THEN next ELSE "persist"
             m == [job EXCEPT ![a] = [pc |-> x, hits |-> job[a].hits, decision |-> d]]
  <1>3. job' = [job EXCEPT ![a].pc = x, ![a].decision = d]
    BY DEF Routing!Found
  <1> HIDE DEF x
  <1>4. [[job[a] EXCEPT !.pc = x] EXCEPT !.decision = d]
           = [pc |-> x, hits |-> job[a].hits, decision |-> d]
    <2> DEFINE p == job[a].pc
               h == job[a].hits
               e == job[a].decision
    <2>1. job[a] = [pc |-> p, hits |-> h, decision |-> e]
      BY <1>1
    <2> HIDE DEF p, h, e
    <2>2. [[pc |-> p, hits |-> h, decision |-> e] EXCEPT !.pc = x]
             = [pc |-> x, hits |-> h, decision |-> e]
      OBVIOUS
    <2>3. [[pc |-> x, hits |-> h, decision |-> e] EXCEPT !.decision = d]
             = [pc |-> x, hits |-> h, decision |-> d]
      OBVIOUS
    <2> QED BY <2>1, <2>2, <2>3 DEF h
  <1>5. job' = [job EXCEPT ![a] = [[job[a] EXCEPT !.pc = x] EXCEPT !.decision = d]]
    BY <1>2, <1>3
  <1> QED BY <1>4, <1>5 DEF x

\* An attempt that goes on keeps the types.
LEMMA AttemptKeepsType ==
    ASSUME Routing!TypeOK, Routing!JobShapes, NEW a \in 1..MaxAttempts, NEW p, NEW d,
           p \in {"tier1", "search", "model", "persist", "done"},
           p = "persist" => d.route \in Routing!Routes,
           \A b \in 1..MaxAttempts : b # a => job'[b] = job[b],
           job'[a].pc = p, job'[a].decision = d,
           UNCHANGED <<clock, Routing!process, mail, decision>>, lease' \in 0..MaxAttempts
    PROVE  Routing!TypeOK'
PROOF
  BY DEF Routing!TypeOK, Routing!process

\* An attempt that raises keeps the invariant.
LEMMA AttemptEnds ==
    ASSUME Routing!RoutingInductive, NEW a \in 1..MaxAttempts, engine # None,
           Routing!Fail(a), UNCHANGED <<clock, Routing!process, mail, lease, decision, acted>>
    PROVE  Routing!RoutingInductive'
PROOF
  <1> DEFINE p == "done"
             h == <<>>
  <1>1. job' = [job EXCEPT ![a] = [pc |-> p, hits |-> h, decision |-> None]]
    <2>1. [Routing!Idle EXCEPT !.pc = "done"] = [pc |-> p, hits |-> h, decision |-> None]
      BY DEF Routing!Idle
    <2>2. job' = [job EXCEPT ![a] = [Routing!Idle EXCEPT !.pc = "done"]]
      BY DEF Routing!Fail
    <2> HIDE DEF p, h
    <2> QED BY <2>1, <2>2
  <1>2. h \in HitLists \cup {<<>>} /\ p # "persist"
    OBVIOUS
  <1>3. Routing!JobShapes /\ Routing!TypeOK /\ lease' \in 0..MaxAttempts
    BY DEF Routing!RoutingInductive, Routing!TypeOK
  <1>4. engine' = engine /\ acted' = acted
    BY DEF Routing!process
  <1>5. p \in {"tier1", "search", "model", "persist", "done"}
    OBVIOUS
  <1> HIDE DEF p, h
  <1>6. /\ Routing!JobShapes'
        /\ \A b \in 1..MaxAttempts : b # a => job'[b] = job[b]
        /\ job'[a].pc = p /\ job'[a].decision = None
    BY <1>1, <1>2, <1>3, <1>4, AttemptGoes
  <1>7. Routing!TypeOK'
    <2>1. UNCHANGED <<clock, Routing!process, mail, decision>>
      OBVIOUS
    <2>2. p = "persist" => None.route \in Routing!Routes
      BY <1>2
    <2> QED BY <1>3, <1>5, <1>6, <2>1, <2>2, AttemptKeepsType
  <1> QED BY <1>6, <1>7 DEF Routing!RoutingInductive, Routing!process, Routing!RouteFrozen

\* Every step of routing keeps the invariant.
LEMMA RoutingStep ==
    ASSUME Routing!RoutingAssumption, Routing!RoutingInductive, Routing!Next
    PROVE  Routing!RoutingInductive'
PROOF
  <1> USE DEF Routing!RoutingInductive
  <1>1. CASE Routing!Tick
    BY <1>1 DEF Routing!Tick, Routing!process, Routing!TypeOK, Routing!JobShapes,
         Routing!RouteFrozen, Routing!RoutingAssumption
  <1>2. CASE Routing!Start
    BY <1>2 DEF Routing!Start, Routing!TypeOK, Routing!JobShapes, Routing!RouteFrozen
  <1>3. CASE Routing!Crash
    BY <1>3 DEF Routing!Crash, Routing!TypeOK, Routing!JobShapes, Routing!RouteFrozen,
         Routing!NoJobs, Routing!Idle
  <1>4. ASSUME NEW manifests \in Registries, Routing!Deploy(manifests)
        PROVE  Routing!RoutingInductive'
    <2>1. Routing!Admitted(Routing!EnabledRules(manifests))
      BY <1>4 DEF Routing!Deploy, Routing!Compiles, Routing!Admitted
    <2> QED BY <1>4, <2>1 DEF Routing!Deploy, Routing!TypeOK, Routing!JobShapes,
         Routing!RouteFrozen, Routing!NoJobs, Routing!Idle
  <1>5. CASE Routing!BeginAttempt
    <2> DEFINE a == lease + 1
               p == IF decision = None THEN "tier1" ELSE "persist"
    <2>1. a \in 1..MaxAttempts /\ lease' \in 0..MaxAttempts
      BY <1>5 DEF Routing!BeginAttempt, Routing!TypeOK, Routing!RoutingAssumption
    <2>2. job' = [job EXCEPT ![a] = [pc |-> p, hits |-> <<>>, decision |-> decision]]
      <3>1. (IF decision = None THEN [Routing!Idle EXCEPT !.pc = "tier1"]
             ELSE [Routing!Idle EXCEPT !.pc = "persist", !.decision = decision])
               = [pc |-> p, hits |-> <<>>, decision |-> decision]
        BY DEF Routing!Idle
      <3> HIDE DEF p
      <3> QED BY <1>5, <3>1 DEF Routing!BeginAttempt
    <2>3. p = "persist" => decision # None
      OBVIOUS
    <2> HIDE DEF a, p
    <2>4. /\ Routing!JobShapes'
          /\ \A b \in 1..MaxAttempts : b # a => job'[b] = job[b]
          /\ job'[a].pc = p /\ job'[a].decision = decision
      <3>1. engine # None /\ engine' = engine /\ acted' = acted
        BY <1>5 DEF Routing!BeginAttempt, Routing!process
      <3> DEFINE h == <<>>
      <3>2. h \in HitLists \cup {<<>>}
        OBVIOUS
      <3>3. job' = [job EXCEPT ![a] = [pc |-> p, hits |-> h, decision |-> decision]]
        BY <2>2
      <3>4. Routing!JobShapes
        OBVIOUS
      <3> HIDE DEF h, Routing!RoutingInductive
      <3> QED BY <2>1, <2>3, <3>1, <3>2, <3>3, <3>4, AttemptGoes
    <2>5. Routing!TypeOK'
      <3>1. p \in {"tier1", "search", "model", "persist", "done"}
        BY DEF p
      <3>2. p = "persist" => decision.route \in Routing!Routes
        BY <2>3 DEF Routing!TypeOK
      <3>3. UNCHANGED <<clock, Routing!process, mail, decision>>
        BY <1>5 DEF Routing!BeginAttempt
      <3> QED BY <2>1, <2>4, <3>1, <3>2, <3>3, AttemptKeepsType
    <2> QED BY <1>5, <2>4, <2>5 DEF Routing!BeginAttempt, Routing!process, Routing!RouteFrozen
  <1>6. ASSUME NEW a \in 1..MaxAttempts, Routing!Tier1Step(a)
        PROVE  Routing!RoutingInductive'
    <2> DEFINE d == Routing!ExecuteRouter(engine, mail, Me, clock)
               p == IF d = None THEN "search" ELSE "persist"
    <2>1. engine # None /\ Routing!Admitted(engine)
      BY <1>6 DEF Routing!Tier1Step, Routing!TypeOK, Routing!JobShapes, Routing!NoJobs,
           Routing!Idle
    <2>2. CASE Routing!RouterRaises(engine, mail, Me, clock)
      <3>1. Routing!Fail(a) /\ UNCHANGED <<clock, Routing!process, mail, lease, decision, acted>>
        BY <1>6, <2>2 DEF Routing!Tier1Step
      <3>2. Routing!RoutingInductive
        OBVIOUS
      <3> HIDE DEF Routing!RoutingInductive
      <3> QED BY <2>1, <3>1, <3>2, AttemptEnds
    <2>3. CASE ~Routing!RouterRaises(engine, mail, Me, clock)
      <3>1. d # None => d.route \in Routing!Routes
        BY <2>1, RouterRoutes
      <3> HIDE DEF d
      <3>2. job' = [job EXCEPT ![a] = [pc |-> p, hits |-> job[a].hits, decision |-> d]]
        BY <1>6, <2>3, FoundIsGoing DEF Routing!Tier1Step, d
      <3>3. /\ Routing!JobShapes'
            /\ \A b \in 1..MaxAttempts : b # a => job'[b] = job[b]
            /\ job'[a].pc = p /\ job'[a].decision = d
        <4> DEFINE h == job[a].hits
        <4>1. h \in HitLists \cup {<<>>} /\ Routing!JobShapes
          BY DEF Routing!JobShapes
        <4>2. engine' = engine /\ acted' = acted
          BY <1>6 DEF Routing!Tier1Step, Routing!process
        <4>3. p = "persist" => d # None
          OBVIOUS
        <4>4. job' = [job EXCEPT ![a] = [pc |-> p, hits |-> h, decision |-> d]]
          BY <3>2
        <4> HIDE DEF h, p, Routing!RoutingInductive
        <4> QED BY <2>1, <4>1, <4>2, <4>3, <4>4, AttemptGoes
      <3>4. Routing!TypeOK'
        BY <1>6, <3>1, <3>3, AttemptKeepsType DEF Routing!Tier1Step, Routing!TypeOK
      <3> QED BY <1>6, <3>3, <3>4 DEF Routing!Tier1Step, Routing!process, Routing!RouteFrozen
    <2> QED BY <2>2, <2>3
  <1>7. ASSUME NEW a \in 1..MaxAttempts, NEW hits \in HitLists \cup {<<>>}, Routing!Tier2Step(a,
                       hits)
        PROVE  Routing!RoutingInductive'
    <2> DEFINE d == Routing!HistoricalConsensus(hits)
               p == IF d = None THEN "model" ELSE "persist"
    <2>1. engine # None
      BY <1>7 DEF Routing!Tier2Step, Routing!JobShapes, Routing!NoJobs, Routing!Idle
    <2>2. CASE Routing!ConsensusRaises(hits)
      <3>1. Routing!Fail(a) /\ UNCHANGED <<clock, Routing!process, mail, lease, decision, acted>>
        BY <1>7, <2>2 DEF Routing!Tier2Step
      <3>2. Routing!RoutingInductive
        OBVIOUS
      <3> HIDE DEF Routing!RoutingInductive
      <3> QED BY <2>1, <3>1, <3>2, AttemptEnds
    <2>3. CASE ~Routing!ConsensusRaises(hits)
      <3>1. d # None => d.route \in Routing!Routes
        BY ConsensusRoutes
      <3> HIDE DEF d
      <3>2. job' = [job EXCEPT ![a] = [pc |-> p, hits |-> hits, decision |-> d]]
        BY <1>7, <2>3 DEF Routing!Tier2Step, d
      <3>3. /\ Routing!JobShapes'
            /\ \A b \in 1..MaxAttempts : b # a => job'[b] = job[b]
            /\ job'[a].pc = p /\ job'[a].decision = d
        <4>1. engine' = engine /\ acted' = acted
          BY <1>7 DEF Routing!Tier2Step, Routing!process
        <4>2. p = "persist" => d # None
          OBVIOUS
        <4> HIDE DEF p
        <4> QED BY <2>1, <3>2, <4>1, <4>2, AttemptGoes
      <3>4. Routing!TypeOK'
        BY <1>7, <3>1, <3>3, AttemptKeepsType DEF Routing!Tier2Step, Routing!TypeOK
      <3> QED BY <1>7, <3>3, <3>4 DEF Routing!Tier2Step, Routing!process, Routing!RouteFrozen
    <2> QED BY <2>2, <2>3
  <1>8. ASSUME NEW a \in 1..MaxAttempts, NEW answer \in Answers \cup {None},
               Routing!Tier3Step(a, answer)
        PROVE  Routing!RoutingInductive'
    <2> DEFINE d == Routing!Tier3Fallback(answer)
    <2>1. engine # None
      BY <1>8 DEF Routing!Tier3Step, Routing!JobShapes, Routing!NoJobs, Routing!Idle
    <2>2. d # None /\ d.route \in Routing!Routes
      BY DEF Routing!RoutingAssumption, Routing!EvidenceAssumption
    <2> HIDE DEF d
    <2>3. job' = [job EXCEPT ![a] = [pc |-> "persist", hits |-> job[a].hits, decision |-> d]]
      BY <1>8, <2>2, FoundIsGoing DEF Routing!Tier3Step, d
    <2>4. /\ Routing!JobShapes'
          /\ \A b \in 1..MaxAttempts : b # a => job'[b] = job[b]
          /\ job'[a].pc = "persist" /\ job'[a].decision = d
      <3> DEFINE h == job[a].hits
                 p == "persist"
      <3>1. h \in HitLists \cup {<<>>} /\ Routing!JobShapes
        BY DEF Routing!JobShapes
      <3>2. engine' = engine /\ acted' = acted
        BY <1>8 DEF Routing!Tier3Step, Routing!process
      <3>3. d # None
        BY <2>2
      <3>4. job' = [job EXCEPT ![a] = [pc |-> p, hits |-> h, decision |-> d]]
        BY <2>3
      <3>5. p = "persist"
        OBVIOUS
      <3> HIDE DEF h, p, Routing!RoutingInductive
      <3>6. /\ Routing!JobShapes'
            /\ \A b \in 1..MaxAttempts : b # a => job'[b] = job[b]
            /\ job'[a].pc = p /\ job'[a].decision = d
        BY <2>1, <3>1, <3>2, <3>3, <3>4, AttemptGoes
      <3> QED BY <3>5, <3>6
    <2>5. Routing!TypeOK'
      BY <1>8, <2>2, <2>4, AttemptKeepsType DEF Routing!Tier3Step, Routing!TypeOK
    <2> QED BY <1>8, <2>4, <2>5 DEF Routing!Tier3Step, Routing!process, Routing!RouteFrozen
  <1>9. ASSUME NEW a \in 1..MaxAttempts, Routing!Persist(a)
         PROVE  Routing!RoutingInductive'
    <2>1. job[a].decision # None /\ job[a].decision.route \in Routing!Routes /\ engine # None
      BY <1>9 DEF Routing!Persist, Routing!JobShapes, Routing!TypeOK, Routing!NoJobs,
           Routing!Idle
    <2>2. decision' = decision \/ (decision = None /\ decision' = job[a].decision)
      BY <1>9 DEF Routing!Persist
    <2>3. acted' = acted \/ (decision' = job[a].decision /\ acted' = acted \cup {job[a].decision})
      BY <1>9 DEF Routing!Persist
    <2>4. Routing!RouteFrozen' /\ None \notin acted'
      BY <2>1, <2>2, <2>3 DEF Routing!RouteFrozen, Routing!JobShapes
    <2>5. DOMAIN job = 1..MaxAttempts
      BY DEF Routing!JobShapes
    <2>6. /\ \A b \in 1..MaxAttempts : b # a => job'[b] = job[b]
          /\ job'[a] = [pc |-> "done", hits |-> <<>>, decision |-> None]
          /\ job' = [b \in 1..MaxAttempts |-> job'[b]]
      BY <1>9, <2>5 DEF Routing!Persist, Routing!Idle
    <2>7. \A b \in 1..MaxAttempts :
             job'[b] = [pc |-> job'[b].pc, hits |-> job'[b].hits, decision |-> job'[b].decision]
      BY <2>6 DEF Routing!JobShapes
    <2>8. job' = [b \in 1..MaxAttempts |->
                    [pc |-> job'[b].pc, hits |-> job'[b].hits, decision |-> job'[b].decision]]
      BY <2>6, <2>7
    <2>9. \A b \in 1..MaxAttempts : /\ job'[b].hits \in HitLists \cup {<<>>}
                                    /\ job'[b].pc = "persist" => job'[b].decision # None
      BY <2>6 DEF Routing!JobShapes
    <2>10. engine' # None /\ UNCHANGED <<clock, Routing!process, mail, lease>>
      BY <1>9, <2>1 DEF Routing!Persist, Routing!process
    <2>11. Routing!JobShapes'
      BY <2>4, <2>8, <2>9, <2>10 DEF Routing!JobShapes
    <2>12. Routing!TypeOK'
      BY <2>1, <2>2, <2>6, <2>10 DEF Routing!TypeOK, Routing!process
    <2> QED BY <2>4, <2>10, <2>11, <2>12 DEF Routing!process
  <1> QED BY <1>1, <1>2, <1>3, <1>4, <1>5, <1>6, <1>7, <1>8, <1>9
     DEF Routing!Next, Routing!Attempt

\* A step of another part keeps it too.
LEMMA RoutingStutters ==
    ASSUME Routing!RoutingInductive, UNCHANGED Routing!vars
    PROVE  Routing!RoutingInductive'
PROOF
  BY DEF Routing!RoutingInductive, Routing!vars, Routing!process, Routing!TypeOK,
       Routing!JobShapes, Routing!RouteFrozen

\* What the invariant is for.
LEMMA RoutingFollows ==
    ASSUME Routing!RoutingAssumption, Routing!RoutingInductive
    PROVE  Routing!RoutingInv /\ Routing!RouteFrozen
PROOF
  <1>1. mail \in Views /\ Routing!TypeOK /\ (engine # None => Routing!Admitted(engine))
    BY DEF Routing!RoutingInductive, Routing!TypeOK
  <1> QED BY <1>1, MatchesAgree, KnownDecides, FixturesMatch
     DEF Routing!RoutingInv, Routing!RoutingInductive

-----------------------------------------------------------------------------
(* The historical consensus: one mail is one vote (history.py).             *)

\* The same votes and the same number of hits without an identity.
SameEvidence(hits, found) ==
    /\ Routing!Identified(found) = Routing!Identified(hits)
    /\ \A id : id # None => Routing!VotesOf(found, id) = Routing!VotesOf(hits, id)
    /\ Routing!Cardinality({i \in DOMAIN found : found[i].id = None})
          = Routing!Cardinality({i \in DOMAIN hits : hits[i].id = None})

\* The consensus depends on the evidence only.
LEMMA EvidenceDecides ==
    ASSUME NEW hits, hits \in Seq({hits[i] : i \in DOMAIN hits}),
           NEW found, found \in Seq({found[i] : i \in DOMAIN found}),
           SameEvidence(hits, found),
           \A i \in DOMAIN hits : hits[i].label # None =>
               Routing!LabelDecision(hits[i].label) # None,
           \A i \in DOMAIN found : found[i].label # None =>
               Routing!LabelDecision(found[i].label) # None
    PROVE  Routing!Outcome(Routing!HistoricalConsensus(found))
              = Routing!Outcome(Routing!HistoricalConsensus(hits))
PROOF
  <1>1. \A id \in Routing!Identified(hits) :
           Routing!VotesOf(found, id) = Routing!VotesOf(hits, id)
    BY DEF SameEvidence, Routing!Identified
  <1>2. \A v : Routing!Supporters(found, v) = Routing!Supporters(hits, v)
    BY <1>1 DEF SameEvidence, Routing!Supporters
  <1>3. UNION {Routing!VotesOf(found, id) : id \in Routing!Identified(found)}
           = UNION {Routing!VotesOf(hits, id) : id \in Routing!Identified(hits)}
    BY <1>1 DEF SameEvidence
  <1>4. Routing!Eligible(found) = Routing!Eligible(hits)
    <2> DEFINE cast == UNION {Routing!VotesOf(hits, id) : id \in Routing!Identified(hits)}
               none == Routing!Cardinality({i \in DOMAIN hits : hits[i].id = None})
    <2>1. Routing!Eligible(hits) =
             {v \in cast :
                /\ Routing!Cardinality(Routing!Supporters(hits, v)) >= Routing!MinHits
                /\ 2 * Routing!Cardinality(Routing!Supporters(hits, v))
                      >= Routing!Cardinality(Routing!Identified(hits)) + none}
      BY DEF Routing!Eligible
    <2>2. Routing!Eligible(found) =
             {v \in cast :
                /\ Routing!Cardinality(Routing!Supporters(found, v)) >= Routing!MinHits
                /\ 2 * Routing!Cardinality(Routing!Supporters(found, v))
                      >= Routing!Cardinality(Routing!Identified(hits)) + none}
      <3>1. /\ UNION {Routing!VotesOf(found, id) : id \in Routing!Identified(found)} = cast
            /\ Routing!Cardinality({i \in DOMAIN found : found[i].id = None}) = none
            /\ Routing!Identified(found) = Routing!Identified(hits)
        BY <1>3 DEF SameEvidence
      <3> HIDE DEF cast, none
      <3> QED BY <3>1 DEF Routing!Eligible
    <2> HIDE DEF cast, none
    <2> QED BY <1>2, <2>1, <2>2
  <1>5. (\E id \in Routing!Identified(found) : Routing!Cardinality(Routing!VotesOf(found,
                id)) > 1)
           <=> (\E id \in Routing!Identified(hits) : Routing!Cardinality(Routing!VotesOf(hits,
                   id)) > 1)
    BY <1>1 DEF SameEvidence
  <1>6. CASE \/ \E id \in Routing!Identified(hits) : Routing!Cardinality(Routing!VotesOf(hits,
                     id)) > 1
             \/ Routing!Eligible(hits) = {}
             \/ Routing!Cardinality(Routing!Eligible(hits)) > 1
    <2>1. Routing!HistoricalConsensus(found) = Routing!HistoricalConsensus(hits)
      BY <1>4, <1>5, <1>6 DEF Routing!HistoricalConsensus
    <2> QED BY <2>1
  <1>7. CASE ~ \/ \E id \in Routing!Identified(hits) : Routing!Cardinality(Routing!VotesOf(hits,
                     id)) > 1
               \/ Routing!Eligible(hits) = {}
               \/ Routing!Cardinality(Routing!Eligible(hits)) > 1
    <2> DEFINE vote == CHOOSE v \in Routing!Eligible(hits) : TRUE
    <2>1. vote \in Routing!Eligible(hits) /\ vote \in Routing!Eligible(found)
      BY <1>4, <1>7
    <2>2. /\ Routing!HistoricalConsensus(hits) = Routing!LabelDecision(Routing!LabelOf(hits,
                     vote))
          /\ Routing!HistoricalConsensus(found) = Routing!LabelDecision(Routing!LabelOf(found,
                     vote))
      BY <1>4, <1>5, <1>7 DEF Routing!HistoricalConsensus
    <2> HIDE DEF vote
    <2> DEFINE l == Routing!LabelOf(hits, vote)
               k == Routing!LabelOf(found, vote)
    <2>3. Routing!Vote(l) = vote /\ Routing!LabelDecision(l) # None
      BY <2>1, LabelVotes
    <2>4. Routing!Vote(k) = vote /\ Routing!LabelDecision(k) # None
      BY <2>1, LabelVotes
    <2> HIDE DEF l, k
    <2>5. Routing!Executes(l.route, l.params, l.profile) = Routing!Executes(k.route, k.params,
                  k.profile)
      BY <2>3, <2>4, SameAction DEF Routing!Vote
    <2>6. Routing!Outcome(Routing!LabelDecision(l)) = Routing!Executes(l.route, l.params,
                  Routing!Profile(l.route, l.profile))
      BY <2>3 DEF Routing!Outcome, Routing!LabelDecision, Routing!Decided
    <2>7. Routing!Outcome(Routing!LabelDecision(k)) = Routing!Executes(k.route, k.params,
                  Routing!Profile(k.route, k.profile))
      BY <2>4 DEF Routing!Outcome, Routing!LabelDecision, Routing!Decided
    <2> QED BY <2>2, <2>5, <2>6, <2>7, ProfileOnce DEF l, k
  <1> QED BY <1>6, <1>7

\* Another order of the same hits is the same evidence.
LEMMA OrderIsIdle ==
    ASSUME NEW hits, hits \in Seq({hits[i] : i \in DOMAIN hits}),
           NEW p \in Routing!Orders(Len(hits))
    PROVE  LET found == [i \in 1..Len(hits) |-> hits[p[i]]]
           IN  /\ found \in Seq({found[i] : i \in DOMAIN found})
               /\ \A i \in DOMAIN found : \E j \in DOMAIN hits : found[i] = hits[j]
               /\ SameEvidence(hits, found)
PROOF
  <1> DEFINE n == Len(hits)
             found == [i \in 1..n |-> hits[p[i]]]
             U == {i \in DOMAIN found : found[i].id = None}
             W == {i \in DOMAIN hits : hits[i].id = None}
             q == [i \in U |-> p[i]]
  <1>1. n \in Nat /\ DOMAIN hits = 1..n
    OBVIOUS
  <1> HIDE DEF n
  <1>2. /\ p \in [1..n -> 1..n]
        /\ \A i, j \in 1..n : p[i] = p[j] => i = j
        /\ \A j \in 1..n : \E i \in 1..n : p[i] = j
    <2>1. p \in [1..n -> 1..n] /\ \A j \in 1..n : \E i \in 1..n : p[i] = j
      BY DEF Routing!Orders, n
    <2>2. p \in Surjection(1..n, 1..n)
      BY <2>1 DEF Surjection
    <2>3. p \in Injection(1..n, 1..n)
      <3> DEFINE N == 1..n
      <3>1. Routing!IsFiniteSet(N)
        BY SameLibrary, <1>1, FS_Interval
      <3>2. p \in Surjection(N, N)
        BY <2>2
      <3> HIDE DEF N
      <3>3. p \in Injection(N, N)
        BY SameLibrary, <3>1, <3>2, FS_SurjSameCardinalityImpliesInj
      <3> QED BY <3>3 DEF N
    <2> QED BY <2>1, <2>3 DEF Injection, IsInjective
  <1>3. DOMAIN found = 1..n /\ \A i \in 1..n : found[i] = hits[p[i]] /\ p[i] \in DOMAIN hits
    BY <1>1, <1>2
  <1>4. found \in Seq({found[i] : i \in DOMAIN found})
    <2> DEFINE R == {found[i] : i \in DOMAIN found}
    <2>1. found \in [1..n -> R]
      BY <1>3
    <2> HIDE DEF found, R
    <2>2. found \in Seq(R)
      BY <1>1, <2>1
    <2> QED BY <2>2 DEF R
  <1> HIDE DEF found
  <1>5. Routing!Identified(found) = Routing!Identified(hits)
    <2>1. {found[i].id : i \in DOMAIN found} = {hits[i].id : i \in DOMAIN hits}
      <3>1. \A i \in DOMAIN found : p[i] \in DOMAIN hits /\ found[i].id = hits[p[i]].id
        BY <1>3
      <3>2. \A j \in DOMAIN hits : \E i \in DOMAIN found : found[i].id = hits[j].id
        <4> SUFFICES ASSUME NEW j \in DOMAIN hits
                     PROVE  \E i \in DOMAIN found : found[i].id = hits[j].id
          OBVIOUS
        <4>1. PICK i \in 1..n : p[i] = j
          BY <1>1, <1>2
        <4> QED BY <1>3, <4>1
      <3> DEFINE A == DOMAIN found
                 B == DOMAIN hits
      <3> HIDE DEF A, B
      <3>3. {found[i].id : i \in A} \subseteq {hits[i].id : i \in B}
        BY <3>1 DEF A, B
      <3>4. {hits[i].id : i \in B} \subseteq {found[i].id : i \in A}
        BY <3>2 DEF A, B
      <3> QED BY <3>3, <3>4 DEF A, B
    <2> QED BY <2>1 DEF Routing!Identified
  <1>6. ASSUME NEW id
        PROVE  Routing!VotesOf(found, id) = Routing!VotesOf(hits, id)
    <2> DEFINE F == {j \in DOMAIN found : found[j].id = id /\ found[j].label # None}
               H == {j \in DOMAIN hits : hits[j].id = id /\ hits[j].label # None}
    <2>1. \A i \in F : p[i] \in H
              /\ Routing!Vote(found[i].label) = Routing!Vote(hits[p[i]].label)
      BY <1>3
    <2>2. \A j \in H : \E i \in F : Routing!Vote(found[i].label) = Routing!Vote(hits[j].label)
      <3> SUFFICES ASSUME NEW j \in H
                   PROVE  \E i \in F : Routing!Vote(found[i].label) = Routing!Vote(hits[j].label)
        OBVIOUS
      <3>1. PICK i \in 1..n : p[i] = j
        BY <1>1, <1>2
      <3>2. i \in F /\ found[i] = hits[j]
        BY <1>3, <3>1
      <3> QED BY <3>2
    <2>3. {Routing!Vote(found[i].label) : i \in F} = {Routing!Vote(hits[i].label) : i \in H}
      <3> HIDE DEF F, H
      <3> QED BY <2>1, <2>2
    <2> QED BY <2>3 DEF Routing!VotesOf
  <1>7. Routing!Cardinality(U) = Routing!Cardinality(W)
    <2>1. q \in Bijection(U, W)
      <3>1. \A i \in U : i \in 1..n /\ p[i] \in W
        BY <1>3
      <3>2. \A j \in W : \E i \in U : p[i] = j
        <4> SUFFICES ASSUME NEW j \in W PROVE \E i \in U : p[i] = j
          OBVIOUS
        <4>1. PICK i \in 1..n : p[i] = j
          BY <1>1, <1>2
        <4> QED BY <1>3, <4>1
      <3> HIDE DEF U, W
      <3>3. q \in [U -> W]
        BY <3>1
      <3>4. \A i, j \in U : q[i] = q[j] => i = j
        BY <1>2, <3>1
      <3>5. \A j \in W : \E i \in U : q[i] = j
        BY <3>2
      <3> HIDE DEF q
      <3> QED BY <3>3, <3>4, <3>5 DEF Bijection, Injection, Surjection, IsInjective
    <2>2. Routing!IsFiniteSet(U)
      <3>1. U \in SUBSET (1..n) /\ Routing!IsFiniteSet(1..n)
        BY SameLibrary, <1>1, <1>3, FS_Interval
      <3> HIDE DEF U
      <3> QED BY SameLibrary, <3>1, FS_Subset
    <2>3. ExistsBijection(U, W)
      <3> HIDE DEF q, U, W
      <3> QED BY <2>1 DEF ExistsBijection
    <2> HIDE DEF U, W
    <2> QED BY SameLibrary, <2>2, <2>3, FS_Bijection
  <1>8. SameEvidence(hits, found)
    BY <1>5, <1>6, <1>7 DEF SameEvidence
  <1> QED BY <1>1, <1>3, <1>4, <1>8 DEF found, n

\* A mail that the search returns once more adds no evidence.
LEMMA RepeatIsIdle ==
    ASSUME NEW hits, hits \in Seq({hits[i] : i \in DOMAIN hits}),
           NEW k \in 1..Len(hits), hits[k].id # None
    PROVE  LET found == Append(hits, hits[k])
           IN  /\ found \in Seq({found[i] : i \in DOMAIN found})
               /\ \A i \in DOMAIN found : \E j \in DOMAIN hits : found[i] = hits[j]
               /\ SameEvidence(hits, found)
PROOF
  <1> DEFINE n == Len(hits)
             found == Append(hits, hits[k])
  <1>1. n \in Nat /\ DOMAIN hits = 1..n
    OBVIOUS
  <1>2. /\ DOMAIN found = 1..(n + 1)
        /\ \A i \in 1..n : found[i] = hits[i]
        /\ found[n + 1] = hits[k]
        /\ found = [i \in 1..(n + 1) |-> found[i]]
    OBVIOUS
  <1> HIDE DEF found
  <1>3. \A i \in 1..(n + 1) : i \in 1..n \/ i = n + 1
    BY <1>1
  <1>4. 1..n \subseteq 1..(n + 1) /\ n + 1 \in 1..(n + 1) /\ k \in 1..n
    BY <1>1
  <1> HIDE DEF n
  <1>5. \A i \in DOMAIN found : \E j \in DOMAIN hits : found[i] = hits[j]
    BY <1>1, <1>2, <1>3, <1>4
  <1>6. found \in Seq({found[i] : i \in DOMAIN found})
    <2> DEFINE R == {found[i] : i \in DOMAIN found}
    <2>1. found \in [1..(n + 1) -> R]
      BY <1>2
    <2> HIDE DEF R
    <2>2. found \in Seq(R)
      BY <1>1, <2>1
    <2> QED BY <2>2 DEF R
  <1>7. Routing!Identified(found) = Routing!Identified(hits)
    <2>1. {found[i].id : i \in DOMAIN found} = {hits[i].id : i \in DOMAIN hits}
      BY <1>1, <1>2, <1>3, <1>4
    <2> QED BY <2>1 DEF Routing!Identified
  <1>8. ASSUME NEW id
        PROVE  Routing!VotesOf(found, id) = Routing!VotesOf(hits, id)
    <2> DEFINE F == {j \in DOMAIN found : found[j].id = id /\ found[j].label # None}
               H == {j \in DOMAIN hits : hits[j].id = id /\ hits[j].label # None}
    <2>1. \A i \in F : \E j \in H : Routing!Vote(found[i].label) = Routing!Vote(hits[j].label)
      BY <1>1, <1>2, <1>3, <1>4
    <2>2. \A j \in H : j \in F /\ Routing!Vote(found[j].label) = Routing!Vote(hits[j].label)
      BY <1>1, <1>2, <1>4
    <2>3. {Routing!Vote(found[i].label) : i \in F} = {Routing!Vote(hits[i].label) : i \in H}
      <3> HIDE DEF F, H
      <3> QED BY <2>1, <2>2
    <2> QED BY <2>3 DEF Routing!VotesOf
  <1>9. {i \in DOMAIN found : found[i].id = None} = {i \in DOMAIN hits : hits[i].id = None}
    BY <1>1, <1>2, <1>3, <1>4
  <1>10. SameEvidence(hits, found)
    BY <1>7, <1>8, <1>9 DEF SameEvidence
  <1> QED BY <1>5, <1>6, <1>10 DEF found

\* OneMailOneVote, of every list of hits an attempt may hold.
LEMMA VotesCountOnce ==
    ASSUME Routing!RoutingAssumption, Routing!RoutingInductive
    PROVE  Routing!OneMailOneVote
PROOF
  <1> SUFFICES ASSUME NEW a \in 1..MaxAttempts
               PROVE  LET hits == job[a].hits
                          n    == Len(hits)
                          here == Routing!Outcome(Routing!HistoricalConsensus(hits))
                      IN /\ \A p \in Routing!Orders(n) :
                              Routing!Outcome(Routing!HistoricalConsensus(
                                                [i \in 1..n |-> hits[p[i]]])) = here
                         /\ \A i \in 1..n : hits[i].id # None =>
                              Routing!Outcome(Routing!HistoricalConsensus(Append(hits,
                                      hits[i]))) = here
    BY DEF Routing!OneMailOneVote
  <1> DEFINE hits == job[a].hits
             n == Len(hits)
  <1>1. hits \in HitLists \cup {<<>>}
    BY DEF Routing!RoutingInductive, Routing!JobShapes
  <1> HIDE DEF hits
  <1>2. /\ hits \in Seq({hits[i] : i \in DOMAIN hits})
        /\ \A i \in DOMAIN hits : hits[i].label # None =>
               Routing!LabelDecision(hits[i].label) # None
    BY <1>1, HitsAreLists
  <1>4. ASSUME NEW p \in Routing!Orders(n)
        PROVE  Routing!Outcome(Routing!HistoricalConsensus([i \in 1..n |-> hits[p[i]]]))
                  = Routing!Outcome(Routing!HistoricalConsensus(hits))
    <2> DEFINE found == [i \in 1..n |-> hits[p[i]]]
    <2>1. /\ found \in Seq({found[i] : i \in DOMAIN found})
          /\ \A i \in DOMAIN found : \E j \in DOMAIN hits : found[i] = hits[j]
          /\ SameEvidence(hits, found)
      BY <1>2, <1>4, OrderIsIdle
    <2> HIDE DEF found
    <2>2. Routing!Outcome(Routing!HistoricalConsensus(found))
             = Routing!Outcome(Routing!HistoricalConsensus(hits))
      BY <1>2, <2>1, EvidenceDecides
    <2> QED BY <2>2 DEF found
  <1>5. ASSUME NEW k \in 1..n, hits[k].id # None
        PROVE  Routing!Outcome(Routing!HistoricalConsensus(Append(hits, hits[k])))
                  = Routing!Outcome(Routing!HistoricalConsensus(hits))
    <2> DEFINE found == Append(hits, hits[k])
    <2>1. /\ found \in Seq({found[i] : i \in DOMAIN found})
          /\ \A i \in DOMAIN found : \E j \in DOMAIN hits : found[i] = hits[j]
          /\ SameEvidence(hits, found)
      BY <1>2, <1>5, RepeatIsIdle
    <2> HIDE DEF found
    <2>2. Routing!Outcome(Routing!HistoricalConsensus(found))
             = Routing!Outcome(Routing!HistoricalConsensus(hits))
      BY <1>2, <2>1, EvidenceDecides
    <2> QED BY <2>2 DEF found
  <1> QED BY <1>4, <1>5 DEF hits

-----------------------------------------------------------------------------
(* The parts side by side.                                                  *)

\* What the configuration assumes of each part.
LEMMA PartsAssumed ==
    StoreAssumption /\ Routing!RoutingAssumption /\ Drive!DriveAssumption /\ Digest!DigestAssumption
PROOF
  BY PartsAssumption

\* A step is one of a part, and then of no other.
LEMMA OnePartMoves ==
    ASSUME MCNext
    PROVE  /\ part' = part
           /\ Next \/ UNCHANGED vars
           /\ part = "first store" => losses' = losses
           /\ Routing!Next \/ UNCHANGED Routing!vars
           /\ Drive!Next \/ UNCHANGED Drive!vars
           /\ Digest!Next \/ UNCHANGED Digest!vars
PROOF
  BY DEF MCNext, routingVars, driveVars, digestVars, vars, Routing!vars, Routing!process,
     Drive!vars, Digest!vars

LEMMA NoPartMoves ==
    ASSUME UNCHANGED allVars
    PROVE  /\ part' = part
           /\ UNCHANGED vars /\ UNCHANGED Routing!vars
           /\ UNCHANGED Drive!vars /\ UNCHANGED Digest!vars
PROOF
  BY DEF allVars, routingVars, driveVars, digestVars, Routing!vars, Routing!process,
     Drive!vars, Digest!vars

\* content_store.py: every reference in the database is to an object that can be
\* read, whether or not the account's directory is still to be made.
THEOREM StoreHolds == MCSpec => []StoreInv
PROOF
  <1> DEFINE Laid == account = "durable" \/ part = "first store"
  <1>1. MCInit => StoreInv /\ Laid
    BY PartsAssumed, StoreStarts DEF MCInit
  <1>2. StoreInv /\ Laid /\ [MCNext]_allVars => StoreInv' /\ Laid'
    <2> SUFFICES ASSUME StoreInv, Laid, [MCNext]_allVars
                 PROVE  StoreInv' /\ Laid'
      OBVIOUS
    <2>1. CASE MCNext
      <3>1. CASE Next
        <4>1. account = "durable" \/ losses' = losses
          BY <2>1, OnePartMoves
        <4> QED BY <2>1, <3>1, <4>1, PartsAssumed, OnePartMoves, StoreSteps
      <3>2. CASE UNCHANGED vars
        BY <2>1, <3>2, OnePartMoves, StoreStutters
      <3> QED BY <2>1, <3>1, <3>2, OnePartMoves
    <2>2. CASE UNCHANGED allVars
      BY <2>2, NoPartMoves, StoreStutters
    <2> QED BY <2>1, <2>2
  <1> QED BY <1>1, <1>2, PTL DEF MCSpec

\* The Drive moves as its own specification says, from a good state to a good one.
LEMMA DriveComposes ==
    /\ MCInit => Drive!DriveInductive
    /\ Drive!DriveInductive /\ [MCNext]_allVars =>
          Drive!DriveInductive' /\ [Drive!Next]_(Drive!vars)
PROOF
  <1>1. MCInit => Drive!DriveInductive
    BY PartsAssumed, DriveStarts DEF MCInit
  <1>2. Drive!DriveInductive /\ [MCNext]_allVars =>
           Drive!DriveInductive' /\ [Drive!Next]_(Drive!vars)
    BY PartsAssumed, OnePartMoves, NoPartMoves, DriveSteps, DriveStutters
  <1> QED BY <1>1, <1>2

\* lark_pdf_flow.py, email_feishu_delivery.py, in the composition: no file is
\* forgotten silently, the linked PDF opens, and mails are read after delivery.
THEOREM FilesAreKept == MCSpec => []DriveInv
PROOF
  <1>1. Drive!DriveInductive => DriveInv
    BY DEF Drive!DriveInductive, DriveInv
  <1> QED BY <1>1, DriveComposes, PTL DEF MCSpec

\* The card actions, in the composition: a cleanup deletes only files that its
\* click had seen.
THEOREM CleanupsSpareNewer == MCSpec => CleanupSparesNewer
PROOF
  <1>1. Drive!DriveInductive /\ [Drive!Next]_(Drive!vars) =>
           [\A c \in Cleanups :
               Drive!At(c, "queued") /\ task'[c].pc = "sweep" /\ task'[c].ctx # "resume" =>
                   task'[c].todo \subseteq Drive!Collected(task[c].pdf, task[c].handles)]_(Drive!vars)
    BY PartsAssumed, CleanupsSpare
  <1> QED BY <1>1, DriveComposes, PTL DEF MCSpec, CleanupSparesNewer, Drive!CleanupSparesNewer

\* daily_digest: DigestInv in the composition, for one scheduler at a time.
THEOREM DigestsAreHonest ==
    ASSUME Digest!OneScheduler
    PROVE  MCSpec => []DigestInv
PROOF
  <1>1. MCInit => Digest!DigestInductive
    BY PartsAssumed, DigestStarts DEF MCInit
  <1>2. Digest!DigestInductive /\ [MCNext]_allVars => Digest!DigestInductive'
    BY PartsAssumed, OnePartMoves, NoPartMoves, DigestSteps, DigestStutters
  <1>3. Digest!DigestInductive => DigestInv
    BY DEF Digest!DigestInductive, DigestInv
  <1> QED BY <1>1, <1>2, <1>3, PTL DEF MCSpec

\* Routing too moves as its own specification says.
LEMMA RoutingComposes ==
    /\ MCInit => Routing!RoutingInductive
    /\ Routing!RoutingInductive /\ [MCNext]_allVars => Routing!RoutingInductive'
PROOF
  <1>1. MCInit => Routing!RoutingInductive
    BY PartsAssumed, RoutingStarts DEF MCInit
  <1>2. Routing!RoutingInductive /\ [MCNext]_allVars => Routing!RoutingInductive'
    BY PartsAssumed, OnePartMoves, NoPartMoves, RoutingStep, RoutingStutters
  <1> QED BY <1>1, <1>2

\* engine.py, dsl.py: RoutingInv in the composition.  Agreeing rules decide, the
\* unknown does not, and a fixture replayed at deployment still decides, for any
\* rules, conditions, mails and deployments.
THEOREM RoutesAreSound == MCSpec => []RoutingInv
PROOF
  <1>1. Routing!RoutingInductive => RoutingInv
    BY PartsAssumed, RoutingFollows DEF RoutingInv
  <1> QED BY <1>1, RoutingComposes, PTL DEF MCSpec

\* persist_route_decision: RouteFrozen in the composition, for any number of
\* overlapping attempts.
THEOREM RouteIsFrozen == MCSpec => []RouteFrozen
PROOF
  <1>1. Routing!RoutingInductive => RouteFrozen
    BY PartsAssumed, RoutingFollows DEF RouteFrozen
  <1> QED BY <1>1, RoutingComposes, PTL DEF MCSpec

\* history.py: OneMailOneVote in the composition, for every result of a search.
THEOREM MailsVoteOnce == MCSpec => []OneMailOneVote
PROOF
  <1>1. Routing!RoutingInductive => OneMailOneVote
    BY PartsAssumed, VotesCountOnce DEF OneMailOneVote
  <1> QED BY <1>1, RoutingComposes, PTL DEF MCSpec

=============================================================================
