-------------------------- MODULE DurableInboxProofs --------------------------
(***************************************************************************)
(* Proofs about DurableInbox, for every set of rows, emails, consumers and *)
(* sessions, every retry budget and every bound.                           *)
(***************************************************************************)
EXTENDS DurableInbox, TLAPS

-----------------------------------------------------------------------------
\* Layer 1: types, and what a consumer holds.

Typed == TypeOK /\ Holding

\* Blanking a consumer (idle, dead or off) keeps the consumers well typed.
LEMMA BecomesTyped ==
    ASSUME Typed, NEW w \in Workers, NEW pc \in {"off", "idle", "dead"},
           Becomes(w, pc)
    PROVE  /\ worker' \in [Workers -> Consumer]
           /\ Holding'
PROOF
  <1>1. Blank(pc) \in Consumer
    BY DEF Blank, Consumer, WorkerStates
  <1>2. worker' = [worker EXCEPT ![w] = Blank(pc)]
    BY DEF Becomes
  <1>3. worker' \in [Workers -> Consumer]
    BY <1>1, <1>2 DEF Typed, TypeOK
  <1>4. Blank(pc).pc = pc
    BY DEF Blank
  <1> QED
    BY <1>2, <1>3, <1>4 DEF Typed, TypeOK, Holding, Active, WorkerStates

\* Moving a consumer to another state of the same row keeps the consumers
\* well typed when the new result fits the new state.
LEMMA MovesTyped ==
    ASSUME Typed, NEW w \in Workers, NEW pc \in WorkerStates, NEW result,
           result \in Completions \union FailureDecisions \union {"none"},
           worker[w].pc \in Active,
           pc = "done" => result \in Completions,
           pc = "failed" => result \in FailureDecisions,
           Moves(w, pc, result)
    PROVE  /\ worker' \in [Workers -> Consumer]
           /\ Holding'
PROOF
  <1>1. worker[w] \in Consumer /\ worker[w].row \in Rows
    BY DEF Typed, TypeOK, Holding
  <1>2. worker' = [worker EXCEPT ![w].pc = pc, ![w].result = result]
    BY DEF Moves
  <1>3. worker' \in [Workers -> Consumer]
    BY <1>1, <1>2 DEF Typed, TypeOK, Consumer
  <1>4. /\ worker'[w].pc = pc /\ worker'[w].result = result
        /\ worker'[w].row = worker[w].row
        /\ \A v \in Workers \ {w} : worker'[v] = worker[v]
    BY <1>1, <1>2 DEF Typed, TypeOK, Consumer
  <1> QED
    BY <1>1, <1>3, <1>4 DEF Typed, Holding

\* What releasing a row writes and what it leaves alone.
LEMMA ReleasedFacts ==
    ASSUME inbox \in [Rows -> InboxRow], NEW r \in Rows,
           NEW status \in InboxStatuses, NEW attempts \in Nat
    PROVE  LET new == Released(r, status, attempts) IN
           /\ new \in [Rows -> InboxRow]
           /\ new[r].status = status /\ new[r].attempts = attempts
           /\ new[r].epoch = inbox[r].epoch
           /\ new[r].effect = inbox[r].effect
           /\ new[r].auth = inbox[r].auth
           /\ \A q \in Rows \ {r} : new[q] = inbox[q]
PROOF
  <1> DEFINE row == [inbox[r] EXCEPT !.status = status, !.attempts = attempts,
                                     !.session = NoSession, !.until = 0,
                                     !.live = FALSE]
  <1>1. inbox[r] \in InboxRow
    OBVIOUS
  <1>2. /\ row \in InboxRow
        /\ row.status = status /\ row.attempts = attempts
        /\ row.epoch = inbox[r].epoch /\ row.effect = inbox[r].effect
        /\ row.auth = inbox[r].auth
    BY <1>1 DEF InboxRow
  <1>3. Released(r, status, attempts) = [inbox EXCEPT ![r] = row]
    BY DEF Released
  <1> HIDE DEF row
  <1> QED BY <1>2, <1>3

\* A failure decision resolves to a status of both tables.
LEMMA ResolveFailureTyped ==
    ASSUME NEW decision \in FailureDecisions, NEW attempts, NEW version
    PROVE  ResolveFailure(decision, attempts, version) \in FailureDecisions
PROOF
  BY DEF ResolveFailure, FailureDecisions

\* The aggregate an event works on is a well typed email.
LEMMA ShellTyped ==
    ASSUME Typed, NEW w \in Workers, worker[w].row \in Rows
    PROVE  /\ EmailFor(w) \in Emails
           /\ Shell(w) \in EmailRow
           /\ Shell(w).status \in EmailStatuses
PROOF
  <1>1. EmailFor(w) \in Emails
    BY ConstantsAssumption DEF EmailFor
  <1>2. email[EmailFor(w)] \in EmailRow
    BY <1>1 DEF Typed, TypeOK
  <1>3. inbox[worker[w].row].auth \in Nat
    BY DEF Typed, TypeOK, InboxRow
  <1>4. AbsentEmail \in EmailRow
    BY DEF AbsentEmail, EmailRow
  <1>5. CASE email[EmailFor(w)].status = "absent"
    <2>1. Shell(w) = [AbsentEmail EXCEPT !.status = "ingested",
                          !.auth = inbox[worker[w].row].auth]
      BY <1>5 DEF Shell
    <2> QED BY <1>1, <1>3, <1>4, <2>1 DEF EmailRow, EmailStatuses
  <1>6. CASE email[EmailFor(w)].status # "absent"
    BY <1>1, <1>2, <1>6 DEF Shell, EmailRow
  <1> QED BY <1>5, <1>6

\* A decision names a status of the email vocabulary.
LEMMA DecisionTyped ==
    ASSUME Typed, NEW w \in Workers, worker[w].row \in Rows
    PROVE  /\ DecisionFor(w).new_status \in EmailStatuses
           /\ DecisionFor(w).should_process \in BOOLEAN
PROOF
  <1>1. /\ EmailFor(w) \in Emails
        /\ KindOf[worker[w].row] \in {"create", "update", "delete"}
    BY ConstantsAssumption DEF EmailFor
  <1>2. email[EmailFor(w)].status \in EmailStatuses \union {"absent"}
    BY <1>1 DEF Typed, TypeOK, EmailRow
  <1>3. email[EmailFor(w)].deleted \in BOOLEAN
    BY <1>1 DEF Typed, TypeOK, EmailRow
  <1> QED
    BY <1>1, <1>2, <1>3
    DEF DecisionFor, decide_email_event, DecideFirst, DecideCreate,
        DecideDelete, Decision, Process, Preserve, EmailStatuses

\* What an election writes to the email.
LEMMA ApplyProcessEmail ==
    ASSUME Typed, NEW w \in Workers, ApplyProcess(w)
    PROVE  LET m == Shell(w) IN
           \E new \in EmailRow :
              /\ email' = [email EXCEPT ![EmailFor(w)] = new]
              /\ new.status = "processing"
              /\ new.link = IF m.link = NoRow THEN worker[w].row ELSE m.link
              /\ new.linkEpoch = IF m.link = NoRow THEN worker[w].epoch
                                                   ELSE m.linkEpoch
              /\ new.createSeen /\ new.deleted = m.deleted
              /\ new.effects = m.effects /\ new.auth = m.auth
PROOF
  <1> DEFINE m == Shell(w)
             version == m.version + 1
             link == IF m.link = NoRow THEN worker[w].row ELSE m.link
             linkEpoch == IF m.link = NoRow THEN worker[w].epoch
                                            ELSE m.linkEpoch
             new == [m EXCEPT !.status = "processing", !.version = version,
                              !.link = link, !.linkEpoch = linkEpoch,
                              !.createSeen = TRUE, !.started = TRUE]
  <1>1. worker[w].row \in Rows /\ worker[w].epoch \in Nat
    BY DEF Typed, TypeOK, Holding, ApplyProcess, Active, WorkerStates,
           Consumer
  <1>2. m \in EmailRow
    BY <1>1, ShellTyped
  <1>3. /\ version \in Nat /\ linkEpoch \in Nat
        /\ link \in Rows \union {NoRow}
    BY <1>1, <1>2 DEF EmailRow
  <1>4. email' = [email EXCEPT ![EmailFor(w)] = new]
    BY DEF ApplyProcess, EmailFor
  <1>5. /\ new \in EmailRow /\ new.status = "processing"
        /\ new.link = link /\ new.linkEpoch = linkEpoch
        /\ new.createSeen /\ new.deleted = m.deleted
        /\ new.effects = m.effects /\ new.auth = m.auth
    <2>1. "processing" \in EmailStatuses
      BY DEF EmailStatuses
    <2> HIDE DEF m, version, link, linkEpoch
    <2> QED BY <1>2, <1>3, <2>1 DEF EmailRow
  <1> HIDE DEF new
  <1> QED BY <1>4, <1>5

\* What an event that needs no processing writes to the email.
LEMMA ApplySettleEmail ==
    ASSUME Typed, NEW w \in Workers, ApplySettle(w)
    PROVE  LET m == Shell(w)
               status == DecisionFor(w).new_status
               deleting == KindOf[worker[w].row] = "delete" /\ ~m.deleted
               cancels == deleting /\ status = "cancelled"
           IN
           \E new \in EmailRow :
              /\ email' = [email EXCEPT ![EmailFor(w)] = new]
              /\ new.status = IF deleting THEN status ELSE m.status
              /\ new.link = IF cancels THEN NoRow ELSE m.link
              /\ new.linkEpoch = IF cancels THEN 0 ELSE m.linkEpoch
              /\ new.deleted = (deleting \/ m.deleted)
              /\ new.createSeen = m.createSeen
              /\ new.effects = m.effects /\ new.auth = m.auth
PROOF
  <1> DEFINE m == Shell(w)
             status == DecisionFor(w).new_status
             deleting == KindOf[worker[w].row] = "delete" /\ ~m.deleted
             cancels == deleting /\ status = "cancelled"
             version == m.version + 1
             link == IF cancels THEN NoRow ELSE m.link
             linkEpoch == IF cancels THEN 0 ELSE m.linkEpoch
             new == [m EXCEPT !.status = status, !.version = version,
                              !.deleted = TRUE, !.link = link,
                              !.linkEpoch = linkEpoch]
  <1>1. worker[w].row \in Rows
    BY DEF Typed, Holding, ApplySettle, Active, WorkerStates
  <1>2. m \in EmailRow /\ status \in EmailStatuses
    BY <1>1, ShellTyped, DecisionTyped
  <1>3. /\ version \in Nat /\ linkEpoch \in Nat
        /\ link \in Rows \union {NoRow}
    BY <1>2 DEF EmailRow
  <1>4. email' = [email EXCEPT ![EmailFor(w)] = IF deleting THEN new ELSE m]
    BY DEF ApplySettle, EmailFor
  <1>5. /\ new \in EmailRow /\ new.status = status
        /\ new.link = link /\ new.linkEpoch = linkEpoch
        /\ new.deleted = TRUE /\ new.createSeen = m.createSeen
        /\ new.effects = m.effects /\ new.auth = m.auth
    <2> HIDE DEF m, status, version, link, linkEpoch
    <2> QED BY <1>2, <1>3 DEF EmailRow
  <1>6. CASE deleting
    <2>1. email' = [email EXCEPT ![EmailFor(w)] = new]
      BY <1>4, <1>6
    <2>2. new.deleted = (deleting \/ m.deleted)
      BY <1>5, <1>6
    <2> HIDE DEF new
    <2> QED BY <1>5, <1>6, <2>1, <2>2
  <1>7. CASE ~deleting
    <2>1. email' = [email EXCEPT ![EmailFor(w)] = m]
      BY <1>4, <1>7
    <2>2. /\ m.deleted = (deleting \/ m.deleted)
          /\ link = m.link /\ linkEpoch = m.linkEpoch
      BY <1>2, <1>7 DEF EmailRow
    <2> QED BY <1>2, <1>7, <2>1, <2>2
  <1> QED BY <1>6, <1>7

\* The steps of a consumer that elect or settle its event are well typed.
LEMMA ApplyTyped ==
    ASSUME Typed, NEW w \in Workers, ApplyProcess(w) \/ ApplySettle(w)
    PROVE  Typed'
PROOF
  <1>0. /\ worker[w].row \in Rows /\ worker[w].pc \in Active
        /\ worker[w] \in Consumer /\ EmailFor(w) \in Emails
    BY ConstantsAssumption
    DEF Typed, TypeOK, Holding, ApplyProcess, ApplySettle, Active,
        WorkerStates, EmailFor
  <1>1. email' \in [Emails -> EmailRow]
    BY <1>0, ApplyProcessEmail, ApplySettleEmail DEF Typed, TypeOK
  <1>2. CASE ApplyProcess(w)
    <2> DEFINE version == Shell(w).version + 1
    <2>1. version \in Nat
      BY <1>0, ShellTyped DEF EmailRow
    <2>2. worker' = [worker EXCEPT ![w].pc = "elected",
                                   ![w].version = version]
      BY <1>2 DEF ApplyProcess
    <2>3. worker' \in [Workers -> Consumer]
      <3> HIDE DEF version
      <3> QED BY <1>0, <2>1, <2>2 DEF Typed, TypeOK, Consumer, WorkerStates
    <2>4. /\ worker'[w].pc = "elected"
          /\ worker'[w].row = worker[w].row
          /\ \A v \in Workers \ {w} : worker'[v] = worker[v]
      BY <1>0, <2>2 DEF Typed, TypeOK, Consumer
    <2>5. Holding'
      BY <1>0, <2>4 DEF Typed, Holding
    <2>6. elected' \in SUBSET (Rows \X Nat \X Nat)
      BY <1>0, <1>2 DEF Typed, TypeOK, ApplyProcess, Attempt, Consumer
    <2> QED
      BY <1>1, <1>2, <2>3, <2>5, <2>6 DEF Typed, TypeOK, ApplyProcess
  <1>3. CASE ApplySettle(w)
    <2>1. worker' \in [Workers -> Consumer] /\ Holding'
      BY <1>0, <1>3, MovesTyped DEF ApplySettle, WorkerStates
    <2> QED
      BY <1>1, <1>3, <2>1 DEF Typed, TypeOK, ApplySettle
  <1> QED BY <1>2, <1>3

\* A finish resolves to a status of the email vocabulary and of the inbox.
LEMMA FinishStatusTyped ==
    ASSUME NEW w \in Workers, worker[w].result \in Completions
    PROVE  /\ FinishStatus(w) \in EmailStatuses
           /\ FinishStatus(w) \in {"waiting_approval", "notified_readonly",
                                   "no_action", "archived", "manual_review",
                                   "dead_letter"}
           /\ FinishInboxStatus(FinishStatus(w)) \in InboxStatuses
PROOF
  BY DEF FinishStatus, FinishInboxStatus, Completions, EmailStatuses,
         InboxStatuses

\* What a successful finish writes to the email.
LEMMA FinishEmail ==
    ASSUME Typed, NEW w \in Workers, Finish(w), AuthorizedAttempt(w),
           worker[w].version < VMax
    PROVE  LET m == email[EmailFor(w)]
               settled == FinishStatus(w) \notin {"manual_review",
                                                 "dead_letter"}
           IN  \E new \in EmailRow :
                 /\ email' = [email EXCEPT ![EmailFor(w)] = new]
                 /\ new.status = FinishStatus(w)
                 /\ new.link = IF settled THEN NoRow ELSE m.link
                 /\ new.linkEpoch = IF settled THEN 0 ELSE m.linkEpoch
                 /\ new.createSeen = m.createSeen /\ new.deleted = m.deleted
                 /\ new.effects = m.effects /\ new.auth = m.auth
PROOF
  <1> DEFINE m == email[EmailFor(w)]
             status == FinishStatus(w)
             settled == status \notin {"manual_review", "dead_letter"}
             version == m.version + 1
             link == IF settled THEN NoRow ELSE m.link
             linkEpoch == IF settled THEN 0 ELSE m.linkEpoch
             new == [m EXCEPT !.status = status, !.version = version,
                              !.link = link, !.linkEpoch = linkEpoch]
  <1>1. worker[w].row \in Rows /\ worker[w].result \in Completions
    BY DEF Typed, Holding, Finish, Active, WorkerStates
  <1>2. m \in EmailRow
    BY <1>1, ConstantsAssumption DEF EmailFor, Typed, TypeOK
  <1>3. status \in EmailStatuses
    BY <1>1, FinishStatusTyped
  <1>4. /\ version \in Nat /\ link \in Rows \union {NoRow}
        /\ linkEpoch \in Nat
    BY <1>2 DEF EmailRow
  <1>5. email' = [email EXCEPT ![EmailFor(w)] = new]
    BY DEF Finish
  <1>6. /\ new \in EmailRow
        /\ new.status = status
        /\ new.link = link /\ new.linkEpoch = linkEpoch
        /\ new.createSeen = m.createSeen /\ new.deleted = m.deleted
        /\ new.effects = m.effects /\ new.auth = m.auth
    <2> HIDE DEF m, status, version, link, linkEpoch
    <2> QED BY <1>2, <1>3, <1>4 DEF EmailRow
  <1> HIDE DEF new
  <1> QED BY <1>5, <1>6

\* What a failed attempt writes: the same failure status to both tables.
LEMMA FinishFailureFacts ==
    ASSUME Typed, NEW w \in Workers, FinishFailure(w), AuthorizedAttempt(w),
           worker[w].version < VMax
    PROVE  LET m == email[EmailFor(w)] IN
           \E new \in EmailRow :
              /\ email' = [email EXCEPT ![EmailFor(w)] = new]
              /\ new.status \in FailureDecisions
              /\ EffectStarted(worker[w].row) => new.status = "manual_review"
              /\ new.link = m.link /\ new.linkEpoch = m.linkEpoch
              /\ new.createSeen = m.createSeen /\ new.deleted = m.deleted
              /\ new.effects = m.effects /\ new.auth = m.auth
              /\ inbox' = Released(worker[w].row, new.status,
                                   worker[w].attempts + 1)
PROOF
  <1> DEFINE m == email[EmailFor(w)]
             decision == IF EffectStarted(worker[w].row)
                         THEN "manual_review" ELSE worker[w].result
             status == ResolveFailure(decision, worker[w].attempts,
                                      worker[w].version)
             version == m.version + 1
             new == [m EXCEPT !.status = status, !.version = version]
  <1>1. worker[w].row \in Rows /\ worker[w].result \in FailureDecisions
    BY DEF Typed, Holding, FinishFailure, Active, WorkerStates
  <1>2. m \in EmailRow
    BY <1>1, ConstantsAssumption DEF EmailFor, Typed, TypeOK
  <1>3. decision \in FailureDecisions
    BY <1>1 DEF FailureDecisions
  <1>4. /\ status \in FailureDecisions
        /\ EffectStarted(worker[w].row) => status = "manual_review"
    BY <1>3, ResolveFailureTyped DEF ResolveFailure
  <1>5. /\ email' = [email EXCEPT ![EmailFor(w)] = new]
        /\ inbox' = Released(worker[w].row, status, worker[w].attempts + 1)
    BY <1>2 DEF FinishFailure, Typed, TypeOK
  <1>6. /\ new \in EmailRow /\ new.status = status
        /\ new.link = m.link /\ new.linkEpoch = m.linkEpoch
        /\ new.createSeen = m.createSeen /\ new.deleted = m.deleted
        /\ new.effects = m.effects /\ new.auth = m.auth
    <2>1. status \in EmailStatuses /\ version \in Nat
      BY <1>2, <1>4 DEF FailureDecisions, EmailStatuses, EmailRow
    <2> HIDE DEF m, status, version
    <2> QED BY <1>2, <2>1 DEF EmailRow
  <1> HIDE DEF new, status
  <1> QED BY <1>4, <1>5, <1>6

\* The steps that end an attempt are well typed.
LEMMA EndTyped ==
    ASSUME Typed, NEW w \in Workers,
           Complete(w) \/ Fail(w) \/ Finish(w) \/ FinishFailure(w)
    PROVE  Typed'
PROOF
  <1>0. /\ worker[w].row \in Rows /\ worker[w] \in Consumer
        /\ worker[w].attempts \in Nat
        /\ worker[w].pc \in Active
    BY DEF Typed, TypeOK, Holding, Complete, Fail, Finish, FinishFailure,
           Active, WorkerStates, Consumer
  <1>1. EmailFor(w) \in Emails
    BY <1>0, ConstantsAssumption DEF EmailFor
  <1>2. CASE Complete(w) \/ Fail(w)
    <2>1. worker' \in [Workers -> Consumer] /\ Holding'
      BY <1>2, BecomesTyped DEF Complete, Fail
    <2>2. inbox' \in [Rows -> InboxRow]
      <3>1. inbox \in [Rows -> InboxRow]
        BY DEF Typed, TypeOK
      <3> QED
        BY <1>0, <1>2, <3>1, ReleasedFacts DEF Complete, Fail, InboxStatuses
    <2> QED BY <1>2, <2>1, <2>2 DEF Complete, Fail, Typed, TypeOK
  <1>3. CASE Finish(w)
    <2>1. worker' \in [Workers -> Consumer] /\ Holding'
      BY <1>3, BecomesTyped DEF Finish
    <2>2. worker[w].result \in Completions
      BY <1>3 DEF Finish, Typed, Holding
    <2>3. inbox' \in [Rows -> InboxRow]
      <3>1. inbox \in [Rows -> InboxRow]
        BY DEF Typed, TypeOK
      <3> QED
        BY <1>0, <1>3, <2>2, <3>1, ReleasedFacts, FinishStatusTyped DEF Finish
    <2>4. email' \in [Emails -> EmailRow]
      <3>1. CASE AuthorizedAttempt(w) /\ worker[w].version < VMax
        BY <1>1, <1>3, <3>1, FinishEmail DEF Typed, TypeOK
      <3>2. CASE ~(AuthorizedAttempt(w) /\ worker[w].version < VMax)
        BY <1>3, <3>2 DEF Finish, Typed, TypeOK
      <3> QED BY <3>1, <3>2
    <2>5. quarantined' \in SUBSET (Rows \X Nat)
      BY <1>0, <1>3 DEF Finish, Typed, TypeOK, Consumer
    <2> QED BY <1>3, <2>1, <2>3, <2>4, <2>5 DEF Finish, Typed, TypeOK
  <1>4. CASE FinishFailure(w)
    <2>1. worker' \in [Workers -> Consumer] /\ Holding'
      BY <1>4, BecomesTyped DEF FinishFailure
    <2>2. CASE AuthorizedAttempt(w) /\ worker[w].version < VMax
      <3>1. email' \in [Emails -> EmailRow]
        BY <1>1, <1>4, <2>2, FinishFailureFacts DEF Typed, TypeOK
      <3>2. inbox' \in [Rows -> InboxRow]
        <4>1. inbox \in [Rows -> InboxRow]
          BY DEF Typed, TypeOK
        <4>2. FailureDecisions \subseteq InboxStatuses
          BY DEF FailureDecisions, InboxStatuses
        <4>3. worker[w].attempts + 1 \in Nat
          BY <1>0
        <4> QED BY <1>0, <1>4, <2>2, <4>1, <4>2, <4>3, FinishFailureFacts,
                   ReleasedFacts
      <3> QED BY <1>4, <2>1, <3>1, <3>2 DEF FinishFailure, Typed, TypeOK
    <2>3. CASE ~(AuthorizedAttempt(w) /\ worker[w].version < VMax)
      BY <1>4, <2>1, <2>3 DEF FinishFailure, Typed, TypeOK
    <2> QED BY <2>2, <2>3
  <1> QED BY <1>2, <1>3, <1>4

\* What recovery of a linked row writes: one failure status to both tables.
LEMMA RecoverLinkedFacts ==
    ASSUME Typed, NEW r \in Rows, RecoverLinked(r)
    PROVE  LET m == email[EmailOf[r]] IN
           \E new \in EmailRow :
              /\ email' = [email EXCEPT ![EmailOf[r]] = new]
              /\ new.status \in FailureDecisions
              /\ EffectStarted(r) \/ m.deleted => new.status = "manual_review"
              /\ new.link = m.link /\ new.linkEpoch = m.linkEpoch
              /\ new.createSeen = m.createSeen /\ new.deleted = m.deleted
              /\ new.effects = m.effects /\ new.auth = m.auth
              /\ inbox' = Released(r, new.status, inbox[r].attempts + 1)
PROOF
  <1> DEFINE m == email[EmailOf[r]]
             decision == IF EffectStarted(r) \/ ~AttemptStateValid(r)
                              \/ m.deleted
                         THEN "manual_review" ELSE "retry_wait"
             status == ResolveFailure(decision, inbox[r].attempts, m.version)
             version == m.version + 1
             new == [m EXCEPT !.status = status, !.version = version]
  <1>1. m \in EmailRow
    BY ConstantsAssumption DEF Typed, TypeOK
  <1>2. decision \in FailureDecisions
    BY DEF FailureDecisions
  <1>3. /\ status \in FailureDecisions
        /\ EffectStarted(r) \/ m.deleted => status = "manual_review"
    BY <1>2, ResolveFailureTyped DEF ResolveFailure
  <1>4. /\ email' = [email EXCEPT ![EmailOf[r]] = new]
        /\ inbox' = Released(r, status, inbox[r].attempts + 1)
    BY <1>1, ConstantsAssumption DEF RecoverLinked, Typed, TypeOK
  <1>5. /\ new \in EmailRow /\ new.status = status
        /\ new.link = m.link /\ new.linkEpoch = m.linkEpoch
        /\ new.createSeen = m.createSeen /\ new.deleted = m.deleted
        /\ new.effects = m.effects /\ new.auth = m.auth
    <2>1. status \in EmailStatuses /\ version \in Nat
      BY <1>1, <1>3 DEF FailureDecisions, EmailStatuses, EmailRow
    <2> HIDE DEF m, status, version
    <2> QED BY <1>1, <2>1 DEF EmailRow
  <1> HIDE DEF new, status
  <1> QED BY <1>3, <1>4, <1>5

\* What recovery of an unlinked row writes.
LEMMA RecoverUnlinkedFacts ==
    ASSUME NEW r \in Rows, RecoverUnlinked(r)
    PROVE  \E status \in FailureDecisions :
              inbox' = Released(r, status, inbox[r].attempts + 1)
PROOF
  BY DEF RecoverUnlinked, FailureDecisions

\* What opening a new execution epoch writes.
LEMMA NextEpochFacts ==
    ASSUME Typed, NEW r \in Rows, NextEpoch(r)
    PROVE  /\ email' \in [Emails -> EmailRow]
           /\ inbox' \in [Rows -> InboxRow]
           /\ inbox'[r].status = "pending" /\ inbox'[r].attempts = 0
           /\ inbox'[r].epoch = inbox[r].epoch + 1
           /\ inbox'[r].effect = inbox[r].effect
           /\ inbox'[r].auth = inbox[r].auth
           /\ \A q \in Rows \ {r} : inbox'[q] = inbox[q]
           /\ LET m == email[EmailOf[r]]
                  new == email'[EmailOf[r]] IN
              /\ new.status = "retry_wait" /\ new.link = m.link
              /\ new.linkEpoch = m.linkEpoch + 1
              /\ new.createSeen = m.createSeen /\ new.deleted = m.deleted
              /\ new.effects = m.effects /\ new.auth = m.auth
           /\ \A e \in Emails \ {EmailOf[r]} : email'[e] = email[e]
PROOF
  <1>0. inbox[r] \in InboxRow /\ email[EmailOf[r]] \in EmailRow
        /\ EmailOf[r] \in Emails
    BY ConstantsAssumption DEF Typed, TypeOK
  <1> DEFINE epoch == inbox[r].epoch + 1
             row == [inbox[r] EXCEPT !.status = "pending", !.attempts = 0,
                                     !.epoch = epoch, !.started = FALSE]
             m == email[EmailOf[r]]
             version == m.version + 1
             linkEpoch == m.linkEpoch + 1
             new == [m EXCEPT !.status = "retry_wait", !.version = version,
                              !.linkEpoch = linkEpoch, !.started = FALSE]
  <1>1. inbox' = [inbox EXCEPT ![r] = row]
    BY <1>0 DEF NextEpoch, Typed, TypeOK
  <1>2. email' = [email EXCEPT ![EmailOf[r]] = new]
    BY <1>0 DEF NextEpoch, Typed, TypeOK
  <1>3. /\ row \in InboxRow
        /\ row.status = "pending" /\ row.attempts = 0 /\ row.epoch = epoch
        /\ row.effect = inbox[r].effect /\ row.auth = inbox[r].auth
    <2>1. epoch \in Nat
      BY <1>0 DEF InboxRow
    <2> HIDE DEF epoch
    <2> QED BY <1>0, <2>1 DEF InboxRow, InboxStatuses
  <1>4. /\ new \in EmailRow
        /\ new.status = "retry_wait" /\ new.link = m.link
        /\ new.linkEpoch = linkEpoch
        /\ new.createSeen = m.createSeen /\ new.deleted = m.deleted
        /\ new.effects = m.effects /\ new.auth = m.auth
    <2>1. version \in Nat /\ linkEpoch \in Nat /\ m \in EmailRow
      BY <1>0 DEF EmailRow
    <2>2. "retry_wait" \in EmailStatuses
      BY DEF EmailStatuses
    <2> HIDE DEF m, version, linkEpoch
    <2> QED BY <2>1, <2>2 DEF EmailRow
  <1> HIDE DEF row, new
  <1>5. /\ inbox' \in [Rows -> InboxRow] /\ inbox'[r] = row
        /\ \A q \in Rows \ {r} : inbox'[q] = inbox[q]
    BY <1>1, <1>3 DEF Typed, TypeOK
  <1>6. /\ email' \in [Emails -> EmailRow] /\ email'[EmailOf[r]] = new
        /\ \A e \in Emails \ {EmailOf[r]} : email'[e] = email[e]
    BY <1>0, <1>2, <1>4 DEF Typed, TypeOK
  <1> QED BY <1>3, <1>4, <1>5, <1>6

\* A row keeps everything but its lease: what the clock, renewals and the
\* marker of an effect may touch.
SameRow(new, old) ==
    /\ new.status = old.status /\ new.epoch = old.epoch
    /\ new.attempts = old.attempts /\ new.auth = old.auth

\* The clock and the heartbeats only touch the lease of one row.
LEMMA LeaseFacts ==
    ASSUME Typed, NEW r \in Rows,
           \/ inbox' = [inbox EXCEPT ![r].live = FALSE]
           \/ inbox' = [inbox EXCEPT ![r].until = @ + 1]
    PROVE  /\ inbox' \in [Rows -> InboxRow]
           /\ \A q \in Rows : SameRow(inbox'[q], inbox[q])
                               /\ inbox'[q].effect = inbox[q].effect
           /\ \A q \in Rows \ {r} : inbox'[q] = inbox[q]
PROOF
  <1>1. inbox[r] \in InboxRow /\ inbox[r].until + 1 \in Nat
    BY DEF Typed, TypeOK, InboxRow
  <1>2. PICK row \in InboxRow :
           /\ inbox' = [inbox EXCEPT ![r] = row]
           /\ SameRow(row, inbox[r]) /\ row.effect = inbox[r].effect
    <2>1. CASE inbox' = [inbox EXCEPT ![r].live = FALSE]
      <3>1. [inbox[r] EXCEPT !.live = FALSE] \in InboxRow
        BY <1>1 DEF InboxRow
      <3> QED BY <1>1, <2>1, <3>1 DEF Typed, TypeOK, InboxRow, SameRow
    <2>2. CASE inbox' = [inbox EXCEPT ![r].until = @ + 1]
      <3>1. [inbox[r] EXCEPT !.until = inbox[r].until + 1] \in InboxRow
        BY <1>1 DEF InboxRow
      <3> QED BY <1>1, <2>2, <3>1 DEF Typed, TypeOK, InboxRow, SameRow
    <2> QED BY <2>1, <2>2
  <1>3. /\ inbox' \in [Rows -> InboxRow] /\ inbox'[r] = row
        /\ \A q \in Rows \ {r} : inbox'[q] = inbox[q]
    BY <1>2 DEF Typed, TypeOK
  <1> QED BY <1>2, <1>3 DEF SameRow

\* What a claim writes to the row and to the consumer.
LEMMA ClaimFacts ==
    ASSUME Typed, NEW w \in Workers, NEW r \in Rows, Claim(w, r)
    PROVE  /\ inbox' \in [Rows -> InboxRow]
           /\ worker' \in [Workers -> Consumer]
           /\ inbox'[r].status = "leased"
           /\ inbox'[r].epoch = inbox[r].epoch
           /\ inbox'[r].attempts = inbox[r].attempts
           /\ inbox'[r].effect = inbox[r].effect
           /\ inbox'[r].auth = inbox[r].auth
           /\ \A q \in Rows \ {r} : inbox'[q] = inbox[q]
           /\ worker'[w].pc = "claimed" /\ worker'[w].row = r
           /\ worker'[w].epoch = inbox[r].epoch
           /\ worker'[w].attempts = inbox[r].attempts
           /\ \A v \in Workers \ {w} : worker'[v] = worker[v]
PROOF
  <1> DEFINE row == [inbox[r] EXCEPT !.status = "leased",
                        !.session = SessionOf[w], !.until = 0,
                        !.live = TRUE, !.started = TRUE]
             new == [pc |-> "claimed", row |-> r, epoch |-> inbox[r].epoch,
                     attempts |-> inbox[r].attempts, until |-> 0,
                     version |-> 0, result |-> "none"]
  <1>1. /\ inbox[r] \in InboxRow /\ SessionOf[w] \in Sessions
        /\ inbox[r].epoch \in Nat /\ inbox[r].attempts \in Nat
    BY ConstantsAssumption DEF Typed, TypeOK, InboxRow
  <1>2. /\ row \in InboxRow /\ row.status = "leased"
        /\ row.epoch = inbox[r].epoch /\ row.attempts = inbox[r].attempts
        /\ row.effect = inbox[r].effect /\ row.auth = inbox[r].auth
    BY <1>1 DEF InboxRow, InboxStatuses
  <1>3. new \in Consumer
    BY <1>1 DEF Consumer, WorkerStates
  <1>4. /\ inbox' = [inbox EXCEPT ![r] = row]
        /\ worker' = [worker EXCEPT ![w] = new]
    BY DEF Claim
  <1>5. /\ new.pc = "claimed" /\ new.row = r
        /\ new.epoch = inbox[r].epoch /\ new.attempts = inbox[r].attempts
    OBVIOUS
  <1> HIDE DEF row, new
  <1> QED BY <1>2, <1>3, <1>4, <1>5 DEF Typed, TypeOK

\* What beginning a marked effect writes.
LEMMA BeginEffectFacts ==
    ASSUME Typed, NEW w \in Workers, BeginEffect(w), EffectGranted(w)
    PROVE  LET r == worker[w].row
               e == EmailFor(w) IN
           /\ r \in Rows /\ e \in Emails
           /\ email' \in [Emails -> EmailRow]
           /\ inbox' \in [Rows -> InboxRow]
           /\ SameRow(inbox'[r], inbox[r]) /\ inbox'[r].effect
           /\ \A q \in Rows \ {r} : inbox'[q] = inbox[q]
           /\ email'[e] = [email[e] EXCEPT !.effects = TRUE]
           /\ \A f \in Emails \ {e} : email'[f] = email[f]
           /\ Attempt(w) \in Rows \X Nat \X Nat
           /\ authorized' = [authorized EXCEPT ![e] = @ \union {Attempt(w)}]
PROOF
  <1> DEFINE r == worker[w].row
             e == EmailFor(w)
  <1>1. r \in Rows /\ worker[w] \in Consumer
    BY DEF Typed, TypeOK, Holding, BeginEffect, Active, WorkerStates
  <1>2. e \in Emails
    BY <1>1, ConstantsAssumption DEF EmailFor
  <1>3. inbox[r] \in InboxRow /\ email[e] \in EmailRow
    BY <1>1, <1>2 DEF Typed, TypeOK
  <1>4. /\ email' = [email EXCEPT ![e].effects = TRUE]
        /\ inbox' = [inbox EXCEPT ![r].effect = TRUE]
        /\ authorized' = [authorized EXCEPT ![e] = @ \union {Attempt(w)}]
    BY DEF BeginEffect
  <1>5. Attempt(w) \in Rows \X Nat \X Nat
    BY <1>1 DEF Attempt, Consumer
  <1> HIDE DEF r, e
  <1>6. /\ inbox' \in [Rows -> InboxRow]
        /\ SameRow(inbox'[r], inbox[r]) /\ inbox'[r].effect
        /\ \A q \in Rows \ {r} : inbox'[q] = inbox[q]
    BY <1>1, <1>3, <1>4 DEF Typed, TypeOK, InboxRow, SameRow
  <1>7. /\ email' \in [Emails -> EmailRow]
        /\ email'[e] = [email[e] EXCEPT !.effects = TRUE]
        /\ \A f \in Emails \ {e} : email'[f] = email[f]
    BY <1>2, <1>3, <1>4 DEF Typed, TypeOK, EmailRow
  <1> QED BY <1>1, <1>2, <1>4, <1>5, <1>6, <1>7 DEF r, e

\* The steps that only move consumers: refused or local decisions,
\* adapter results, death, process start and exit.
WorkerOnly(w) ==
    \/ ApplyRejected(w) \/ ApplyReview(w) \/ CompleteLocally(w)
    \/ AuthorizeDetail(w) \/ ReadDetail(w) \/ AdapterReturns(w)
    \/ AdapterFails(w) \/ ConsumerDies(w)

\* Such a step blanks the consumer or moves it on with a fitting result.
LEMMA WorkerOnlyFacts ==
    ASSUME Typed, NEW w \in Workers, WorkerOnly(w)
    PROVE  \/ \E pc \in {"idle", "dead"} : Becomes(w, pc)
           \/ /\ ApplyReview(w)
              /\ worker[w].pc \in Active /\ Moves(w, "review", "none")
           \/ /\ worker[w].pc \in Active
              /\ \E pc \in {"reading", "running"} : Moves(w, pc, "none")
           \/ /\ worker[w].pc \in Active
              /\ \E result \in Completions : Moves(w, "done", result)
           \/ /\ worker[w].pc \in Active
              /\ \E result \in FailureDecisions : Moves(w, "failed", result)
PROOF
  <1>1. AllowedCompletions(PolicyOf[worker[w].row]) \subseteq Completions
        /\ LocalResult(w) \in Completions
    BY DEF AllowedCompletions, LocalResult, Completions
  <1>2. CASE ApplyRejected(w)
    BY <1>2 DEF ApplyRejected
  <1>3. CASE ApplyReview(w)
    BY <1>3 DEF ApplyReview, Active, WorkerStates
  <1>4. CASE CompleteLocally(w)
    BY <1>1, <1>4 DEF CompleteLocally, Active, WorkerStates
  <1>5. CASE AuthorizeDetail(w)
    BY <1>5 DEF AuthorizeDetail, Active, WorkerStates
  <1>6. CASE ReadDetail(w)
    BY <1>6 DEF ReadDetail, Active, WorkerStates, Completions,
                FailureDecisions
  <1>7. CASE AdapterReturns(w)
    BY <1>1, <1>7 DEF AdapterReturns, Active, WorkerStates
  <1>8. CASE AdapterFails(w)
    BY <1>8 DEF AdapterFails, Active, WorkerStates
  <1>9. CASE ConsumerDies(w)
    BY <1>9 DEF ConsumerDies
  <1> QED
    BY <1>2, <1>3, <1>4, <1>5, <1>6, <1>7, <1>8, <1>9 DEF WorkerOnly

\* Every step keeps the types and what consumers hold.
LEMMA TypedStep ==
    ASSUME Typed, [Next]_vars
    PROVE  Typed'
PROOF
  <1>0. /\ TypeOK
        /\ inbox \in [Rows -> InboxRow] /\ email \in [Emails -> EmailRow]
        /\ worker \in [Workers -> Consumer]
        /\ FailureDecisions \subseteq InboxStatuses
        /\ \A r \in Rows : EmailOf[r] \in Emails
    BY ConstantsAssumption
    DEF Typed, TypeOK, FailureDecisions, InboxStatuses
  <1>1. CASE UNCHANGED vars
    BY <1>1 DEF vars, Typed, TypeOK, Holding
  <1>2. ASSUME NEW w \in Workers, NEW r \in Rows, Claim(w, r)
        PROVE  Typed'
    <2>1. Holding'
      BY <1>2, ClaimFacts DEF Typed, Holding
    <2> QED BY <1>2, <2>1, ClaimFacts DEF Claim, Typed, TypeOK
  <1>3. ASSUME NEW w \in Workers, WorkerOnly(w)
        PROVE  Typed'
    <2>1. worker' \in [Workers -> Consumer] /\ Holding'
      BY <1>3, WorkerOnlyFacts, BecomesTyped, MovesTyped DEF WorkerStates
    <2> QED
      BY <1>3, <2>1
      DEF WorkerOnly, ApplyRejected, ApplyReview, CompleteLocally,
          AuthorizeDetail, ReadDetail, AdapterReturns, AdapterFails,
          ConsumerDies, Typed, TypeOK
  <1>4. ASSUME NEW w \in Workers, BeginEffect(w)
        PROVE  Typed'
    <2>1. CASE EffectGranted(w)
      <3>1. worker' \in [Workers -> Consumer] /\ Holding'
        BY <1>4, <2>1, MovesTyped DEF BeginEffect, Active, WorkerStates
      <3>2. authorized' \in [Emails -> SUBSET (Rows \X Nat \X Nat)]
        <4>1. /\ EmailFor(w) \in Emails
              /\ Attempt(w) \in Rows \X Nat \X Nat
              /\ authorized' = [authorized EXCEPT
                    ![EmailFor(w)] = @ \union {Attempt(w)}]
          BY <1>4, <2>1, BeginEffectFacts
        <4> QED BY <1>0, <4>1 DEF TypeOK
      <3> QED BY <1>4, <2>1, <3>1, <3>2, BeginEffectFacts
              DEF BeginEffect, Typed, TypeOK
    <2>2. CASE ~EffectGranted(w)
      <3>1. worker' \in [Workers -> Consumer] /\ Holding'
        BY <1>4, <2>2, BecomesTyped DEF BeginEffect
      <3> QED BY <1>4, <2>2, <3>1 DEF BeginEffect, Typed, TypeOK
    <2> QED BY <2>1, <2>2
  <1>5. ASSUME NEW w \in Workers, PerformEffect(w)
        PROVE  Typed'
    <2>1. worker' \in [Workers -> Consumer] /\ Holding'
      BY <1>5, MovesTyped DEF PerformEffect, Active, WorkerStates
    <2>2. Attempt(w) \in Rows \X Nat \X Nat
      BY <1>0, <1>5 DEF PerformEffect, Typed, Holding, Attempt, Consumer,
                        Active, WorkerStates
    <2>3. performed' \in [Emails -> SUBSET (Rows \X Nat \X Nat)]
      BY <1>5, <2>2 DEF PerformEffect, Typed, TypeOK
    <2> QED BY <1>5, <2>1, <2>3 DEF PerformEffect, Typed, TypeOK
  <1>6. ASSUME NEW w \in Workers, Renew(w)
        PROVE  Typed'
    <2>1. worker[w].row \in Rows /\ worker[w].until + 1 \in Nat
          /\ worker[w] \in Consumer
      BY <1>0, <1>6 DEF Renew, Renewable, LeaseActive, LeaseHeld, Consumer
    <2>2. inbox' \in [Rows -> InboxRow]
      BY <1>6, <2>1, LeaseFacts DEF Renew
    <2>3. worker' \in [Workers -> Consumer]
      BY <1>0, <1>6, <2>1 DEF Renew, Consumer
    <2>4. \A v \in Workers :
             worker'[v].pc = worker[v].pc /\ worker'[v].row = worker[v].row
             /\ worker'[v].result = worker[v].result
      BY <1>0, <1>6, <2>1 DEF Renew, Consumer
    <2>5. Holding'
      BY <2>4 DEF Typed, Holding
    <2> QED BY <1>6, <2>2, <2>3, <2>5 DEF Renew, Typed, TypeOK
  <1>7. ASSUME NEW w \in Workers, HeartbeatLost(w)
        PROVE  Typed'
    <2>1. worker' \in [Workers -> Consumer] /\ Holding'
      BY <1>7, BecomesTyped DEF HeartbeatLost
    <2>2. inbox' \in [Rows -> InboxRow]
      BY <1>0, <1>7, LeaseFacts
      DEF HeartbeatLost, Renewable, LeaseActive, LeaseHeld
    <2> QED BY <1>7, <2>1, <2>2 DEF HeartbeatLost, Typed, TypeOK
  <1>8. ASSUME NEW r \in Rows, Insert(r)
        PROVE  Typed'
    <2>1. authority.epoch \in Nat
      BY <1>0 DEF TypeOK
    <2>2. inbox' \in [Rows -> InboxRow]
      <3> DEFINE status == IF PolicyOf[r] = "ignored" THEN "completed"
                                                      ELSE "pending"
      <3>1. status \in InboxStatuses
        BY DEF InboxStatuses
      <3>2. inbox' = [inbox EXCEPT ![r].status = status,
                                   ![r].auth = authority.epoch]
        BY <1>8 DEF Insert
      <3> HIDE DEF status
      <3> QED BY <1>0, <2>1, <3>1, <3>2 DEF InboxRow
    <2> QED BY <1>8, <2>2 DEF Insert, Typed, TypeOK, Holding
  <1>9. ASSUME NEW r \in Rows, LeaseExpires(r)
        PROVE  Typed'
    <2>1. inbox' \in [Rows -> InboxRow]
      BY <1>9, LeaseFacts DEF LeaseExpires
    <2> QED BY <1>9, <2>1 DEF LeaseExpires, Typed, TypeOK, Holding
  <1>10. ASSUME NEW r \in Rows, RecoverLinked(r) \/ RecoverUnlinked(r)
         PROVE  Typed'
    <2>1. inbox[r].attempts + 1 \in Nat
      BY <1>0 DEF InboxRow
    <2>2. inbox' \in [Rows -> InboxRow]
      BY <1>0, <1>10, <2>1, RecoverLinkedFacts, RecoverUnlinkedFacts,
         ReleasedFacts
    <2>3. email' \in [Emails -> EmailRow]
      BY <1>0, <1>10, RecoverLinkedFacts DEF RecoverUnlinked
    <2> QED BY <1>10, <2>2, <2>3
            DEF RecoverLinked, RecoverUnlinked, Typed, TypeOK, Holding
  <1>11. ASSUME NEW r \in Rows, Requeue(r) \/ ReleaseQuarantine(r)
         PROVE  Typed'
    <2>1. NextEpoch(r)
      BY <1>11 DEF Requeue, ReleaseQuarantine
    <2> QED BY <2>1, NextEpochFacts DEF NextEpoch, Typed, TypeOK, Holding
  <1>12. ASSUME NEW s \in Sessions, Register(s) \/ ProcessExit(s)
         PROVE  Typed'
    <2>1. Blank("off") \in Consumer /\ Blank("idle") \in Consumer
          /\ Blank("off").pc = "off" /\ Blank("idle").pc = "idle"
      BY DEF Blank, Consumer, WorkerStates
    <2>2. \A v \in Workers : worker'[v] \in {Blank("off"), Blank("idle"),
                                              worker[v]}
      BY <1>12 DEF Register, ProcessExit
    <2>3. worker' \in [Workers -> Consumer]
      BY <1>0, <1>12, <2>1 DEF Register, ProcessExit
    <2>4. Holding'
      BY <2>1, <2>2 DEF Typed, Holding, Active
    <2>5. runtime' \in [session : Sessions \union {NoSession}, epoch : Nat]
      BY <1>0, <1>12 DEF Register, ProcessExit, TypeOK
    <2> QED BY <1>12, <2>3, <2>4, <2>5
            DEF Register, ProcessExit, Typed, TypeOK
  <1>13. CASE RuntimeEnds \/ Pause \/ Resume
    BY <1>0, <1>13 DEF RuntimeEnds, Pause, Resume, Typed, TypeOK, Holding
  <1> QED
    BY <1>1, <1>2, <1>3, <1>4, <1>5, <1>6, <1>7, <1>8, <1>9, <1>10, <1>11,
       <1>12, <1>13, ApplyTyped, EndTyped DEF Next, ConsumerStep, WorkerOnly

\* Initially nothing is held.
LEMMA TypedInit == Init => Typed
PROOF
  <1> SUFFICES ASSUME Init PROVE Typed
    OBVIOUS
  <1>1. AbsentRow \in InboxRow /\ AbsentEmail \in EmailRow
        /\ Blank("off") \in Consumer /\ Blank("off").pc = "off"
    BY DEF AbsentRow, InboxRow, InboxStatuses, AbsentEmail, EmailRow,
           Blank, Consumer, WorkerStates
  <1>2. TypeOK
    BY <1>1 DEF Init, TypeOK
  <1>3. Holding
    BY <1>1 DEF Init, Holding, Active
  <1> QED BY <1>2, <1>3 DEF Typed

\* Every variable keeps its type, and a consumer that works on a row knows
\* the row and a result that fits its state, in every reachable state.
THEOREM TypeCorrect == Spec => [](TypeOK /\ Holding)
PROOF
  BY TypedInit, TypedStep, PTL DEF Spec, Typed

-----------------------------------------------------------------------------
\* Layer 2: claim tokens.

\* A row moves forward: tokens that are past it stay past it, and none
\* becomes the row's current token.
Forward(r) ==
    \A epoch, attempts \in Nat :
       Past(r, epoch, attempts) =>
          /\ Past(r, epoch, attempts)'
          /\ epoch = inbox'[r].epoch /\ attempts = inbox'[r].attempts =>
                epoch = inbox[r].epoch /\ attempts = inbox[r].attempts

\* Releasing a row moves it forward.
LEMMA ReleasedForward ==
    ASSUME Typed, NEW r \in Rows, NEW status \in InboxStatuses,
           NEW attempts \in Nat,
           inbox' = Released(r, status, attempts),
           \/ attempts = inbox[r].attempts + 1
           \/ /\ attempts = inbox[r].attempts
              /\ status \notin {"absent", "pending", "retry_wait"}
    PROVE  \A q \in Rows : Forward(q)
PROOF
  <1>1. /\ inbox'[r].status = status /\ inbox'[r].attempts = attempts
        /\ inbox'[r].epoch = inbox[r].epoch
        /\ \A q \in Rows \ {r} : inbox'[q] = inbox[q]
    <2>1. inbox \in [Rows -> InboxRow]
      BY DEF Typed, TypeOK
    <2> QED BY <2>1, ReleasedFacts
  <1>2. inbox[r].epoch \in Nat /\ inbox[r].attempts \in Nat
    BY DEF Typed, TypeOK, InboxRow
  <1>3. Forward(r)
    BY <1>1, <1>2 DEF Forward, Past
  <1>4. \A q \in Rows \ {r} : Forward(q)
    BY <1>1 DEF Forward, Past
  <1> QED BY <1>3, <1>4

\* A consumer that may end a row works on the row's current token.
LEMMA HeldToken ==
    ASSUME NEW w \in Workers, LeaseHeld(w)
    PROVE  /\ worker[w].row \in Rows
           /\ inbox[worker[w].row].status = "leased"
           /\ worker[w].epoch = inbox[worker[w].row].epoch
           /\ worker[w].attempts = inbox[worker[w].row].attempts
           /\ Attempt(w) = RowAttempt(worker[w].row)
PROOF
  BY DEF LeaseHeld, Attempt, RowAttempt

\* Every step moves every row forward.
LEMMA ForwardStep ==
    ASSUME Typed, [Next]_vars
    PROVE  \A q \in Rows : Forward(q)
PROOF
  <1>0. /\ inbox \in [Rows -> InboxRow]
        /\ FailureDecisions \subseteq InboxStatuses
        /\ \A r \in Rows : inbox[r].epoch \in Nat /\ inbox[r].attempts \in Nat
    BY DEF Typed, TypeOK, InboxRow, FailureDecisions, InboxStatuses
  <1>1. CASE UNCHANGED inbox
    BY <1>1 DEF Forward, Past
  <1>2. CASE \A q \in Rows : SameRow(inbox'[q], inbox[q])
    BY <1>2 DEF Forward, Past, SameRow
  <1>3. ASSUME NEW w \in Workers, NEW r \in Rows, Claim(w, r)
        PROVE  \A q \in Rows : Forward(q)
    <2>1. /\ inbox'[r].status = "leased"
          /\ inbox'[r].epoch = inbox[r].epoch
          /\ inbox'[r].attempts = inbox[r].attempts
          /\ \A q \in Rows \ {r} : inbox'[q] = inbox[q]
      BY <1>3, ClaimFacts
    <2> QED BY <2>1 DEF Forward, Past
  <1>4. ASSUME NEW w \in Workers, BeginEffect(w)
        PROVE  \A q \in Rows : Forward(q)
    <2>1. CASE EffectGranted(w)
      <3>1. \A q \in Rows : SameRow(inbox'[q], inbox[q])
        BY <1>4, <2>1, BeginEffectFacts DEF SameRow
      <3> QED BY <1>2, <3>1
    <2>2. CASE ~EffectGranted(w)
      BY <1>1, <1>4, <2>2 DEF BeginEffect
    <2> QED BY <2>1, <2>2
  <1>5. ASSUME NEW w \in Workers, Renew(w) \/ HeartbeatLost(w)
        PROVE  \A q \in Rows : Forward(q)
    <2>1. CASE UNCHANGED inbox
      BY <1>1, <2>1
    <2>2. CASE ~UNCHANGED inbox
      <3>1. /\ worker[w].row \in Rows
            /\ inbox' = [inbox EXCEPT ![worker[w].row].until = @ + 1]
        BY <1>5, <2>2 DEF Renew, HeartbeatLost, Renewable, LeaseActive,
                          LeaseHeld
      <3> QED BY <1>2, <3>1, LeaseFacts
    <2> QED BY <2>1, <2>2
  <1>6. ASSUME NEW r \in Rows, LeaseExpires(r)
        PROVE  \A q \in Rows : Forward(q)
    BY <1>2, <1>6, LeaseFacts DEF LeaseExpires
  <1>7. ASSUME NEW r \in Rows, Insert(r)
        PROVE  \A q \in Rows : Forward(q)
    <2>1. /\ inbox[r].status = "absent"
          /\ inbox'[r].epoch = inbox[r].epoch
          /\ inbox'[r].attempts = inbox[r].attempts
          /\ \A q \in Rows \ {r} : inbox'[q] = inbox[q]
      BY <1>0, <1>7 DEF Insert, InboxRow
    <2> QED BY <2>1 DEF Forward, Past
  <1>8. ASSUME NEW w \in Workers, Complete(w) \/ Fail(w) \/ Finish(w)
                                    \/ FinishFailure(w)
        PROVE  \A q \in Rows : Forward(q)
    <2>1. CASE UNCHANGED inbox
      BY <1>1, <2>1
    <2>2. CASE ~UNCHANGED inbox
      <3>1. LeaseHeld(w)
        BY <1>8, <2>2 DEF Complete, Fail, Finish, FinishFailure,
                          AuthorizedAttempt, LeaseActive
      <3>2. /\ worker[w].row \in Rows
            /\ worker[w].attempts = inbox[worker[w].row].attempts
            /\ worker[w].attempts \in Nat /\ worker[w].attempts + 1 \in Nat
        BY <1>0, <3>1, HeldToken
      <3>3. CASE Complete(w)
        BY <2>2, <3>2, <3>3, ReleasedForward DEF Complete, InboxStatuses
      <3>4. CASE Fail(w)
        BY <2>2, <3>2, <3>4, ReleasedForward DEF Fail, InboxStatuses
      <3>5. CASE Finish(w)
        <4>1. worker[w].result \in Completions
          BY <3>5 DEF Finish, Typed, Holding
        <4>2. /\ FinishInboxStatus(FinishStatus(w)) \in InboxStatuses
              /\ FinishInboxStatus(FinishStatus(w)) \notin
                    {"absent", "pending", "retry_wait"}
          BY <4>1, FinishStatusTyped DEF FinishInboxStatus
        <4>3. inbox' = Released(worker[w].row,
                                FinishInboxStatus(FinishStatus(w)),
                                worker[w].attempts)
          BY <2>2, <3>5 DEF Finish
        <4> QED BY <3>2, <4>2, <4>3, ReleasedForward
      <3>6. CASE FinishFailure(w)
        <4>1. AuthorizedAttempt(w) /\ worker[w].version < VMax
          BY <2>2, <3>6 DEF FinishFailure
        <4>2. PICK status \in FailureDecisions :
                 inbox' = Released(worker[w].row, status,
                                   worker[w].attempts + 1)
          BY <3>6, <4>1, FinishFailureFacts
        <4> QED BY <1>0, <3>2, <4>2, ReleasedForward
      <3> QED BY <1>8, <3>3, <3>4, <3>5, <3>6
    <2> QED BY <2>1, <2>2
  <1>9. ASSUME NEW r \in Rows, RecoverLinked(r) \/ RecoverUnlinked(r)
        PROVE  \A q \in Rows : Forward(q)
    <2>1. PICK status \in FailureDecisions :
             inbox' = Released(r, status, inbox[r].attempts + 1)
      BY <1>9, RecoverLinkedFacts, RecoverUnlinkedFacts
    <2> QED BY <1>0, <2>1, ReleasedForward
  <1>10. ASSUME NEW r \in Rows, Requeue(r) \/ ReleaseQuarantine(r)
         PROVE  \A q \in Rows : Forward(q)
    <2>1. /\ inbox'[r].epoch = inbox[r].epoch + 1
          /\ \A q \in Rows \ {r} : inbox'[q] = inbox[q]
      BY <1>10, NextEpochFacts DEF Requeue, ReleaseQuarantine
    <2>2. Forward(r)
      BY <1>0, <2>1 DEF Forward, Past
    <2> QED BY <2>1, <2>2 DEF Forward, Past
  <1>11. ASSUME NEW w \in Workers, ApplyProcess(w) \/ ApplySettle(w)
                   \/ PerformEffect(w) \/ WorkerOnly(w)
         PROVE  UNCHANGED inbox
    BY <1>11
    DEF ApplyProcess, ApplySettle, PerformEffect, WorkerOnly, ApplyRejected,
        ApplyReview, CompleteLocally, AuthorizeDetail, ReadDetail,
        AdapterReturns, AdapterFails, ConsumerDies
  <1>12. ASSUME NEW s \in Sessions, Register(s) \/ ProcessExit(s)
         PROVE  UNCHANGED inbox
    BY <1>12 DEF Register, ProcessExit
  <1>13. CASE RuntimeEnds \/ Pause \/ Resume \/ UNCHANGED vars
    BY <1>1, <1>13 DEF RuntimeEnds, Pause, Resume, vars
  <1> QED
    BY <1>1, <1>3, <1>4, <1>5, <1>6, <1>7, <1>8, <1>9, <1>10, <1>11, <1>12,
       <1>13 DEF Next, ConsumerStep, WorkerOnly

\* A consumer that works on a row after the step worked on it before, and
\* did not go back to its beginning.
Keeps(w) ==
    worker'[w].pc \in Active =>
       /\ worker[w].pc \in Active
       /\ Attempt(w)' = Attempt(w)
       /\ worker'[w].pc = "claimed" => worker[w].pc = "claimed"
       /\ worker'[w].pc = "applied" => worker[w].pc = "applied" \/ ApplySettle(w)
       /\ worker'[w].pc = "review" => worker[w].pc = "review" \/ ApplyReview(w)
       /\ worker'[w].pc = "effect" => worker[w].pc = "effect" \/ BeginEffect(w)

\* Blanking a consumer loses its token and no other.
LEMMA BecomesKeeps ==
    ASSUME Typed, NEW w \in Workers, NEW pc \in {"off", "idle", "dead"},
           Becomes(w, pc)
    PROVE  \A v \in Workers : Keeps(v)
PROOF
  <1>1. /\ worker'[w].pc = pc
        /\ \A v \in Workers \ {w} : worker'[v] = worker[v]
    BY DEF Becomes, Blank, Typed, TypeOK
  <1> QED BY <1>1 DEF Keeps, Active, Attempt

\* Moving a consumer keeps its token.
LEMMA MovesKeeps ==
    ASSUME Typed, NEW w \in Workers, NEW pc, pc # "claimed", NEW result,
           pc = "applied" => ApplySettle(w),
           pc = "review" => ApplyReview(w),
           pc = "effect" => BeginEffect(w),
           worker[w].pc \in Active, Moves(w, pc, result)
    PROVE  \A v \in Workers : Keeps(v)
PROOF
  <1>1. worker[w] \in Consumer
    BY DEF Typed, TypeOK
  <1>2. /\ worker'[w].pc = pc /\ Attempt(w)' = Attempt(w)
        /\ \A v \in Workers \ {w} : worker'[v] = worker[v]
    BY <1>1 DEF Moves, Typed, TypeOK, Consumer, Attempt
  <1> QED BY <1>2 DEF Keeps, Attempt

\* Only a claim gives a consumer a new token.
LEMMA KeepsStep ==
    ASSUME Typed, [Next]_vars,
           \A w \in Workers, r \in Rows : ~Claim(w, r)
    PROVE  \A v \in Workers : Keeps(v)
PROOF
  <1>1. CASE UNCHANGED worker
    BY <1>1 DEF Keeps, Attempt
  <1>2. ASSUME NEW w \in Workers, WorkerOnly(w)
        PROVE  \A v \in Workers : Keeps(v)
    BY <1>2, WorkerOnlyFacts, BecomesKeeps, MovesKeeps
  <1>3. ASSUME NEW w \in Workers, ApplyProcess(w)
        PROVE  \A v \in Workers : Keeps(v)
    <2>1. worker[w] \in Consumer /\ worker[w].pc \in Active
      BY <1>3 DEF Typed, TypeOK, ApplyProcess, Active, WorkerStates
    <2>2. /\ worker'[w].pc = "elected" /\ Attempt(w)' = Attempt(w)
          /\ \A v \in Workers \ {w} : worker'[v] = worker[v]
      BY <1>3, <2>1 DEF ApplyProcess, Typed, TypeOK, Consumer, Attempt
    <2> QED BY <2>1, <2>2 DEF Keeps, Attempt
  <1>4. ASSUME NEW w \in Workers,
               ApplySettle(w) \/ BeginEffect(w) \/ PerformEffect(w)
        PROVE  \A v \in Workers : Keeps(v)
    <2>1. worker[w].pc \in Active
      BY <1>4 DEF ApplySettle, BeginEffect, PerformEffect, Active,
                  WorkerStates
    <2>2. \/ ApplySettle(w) /\ Moves(w, "applied", "none")
          \/ BeginEffect(w) /\ Moves(w, "effect", "none")
          \/ Moves(w, "running", "none")
          \/ Becomes(w, "idle")
      BY <1>4 DEF ApplySettle, BeginEffect, PerformEffect
    <2> QED BY <2>1, <2>2, BecomesKeeps, MovesKeeps
  <1>5. ASSUME NEW w \in Workers,
               Complete(w) \/ Fail(w) \/ Finish(w) \/ FinishFailure(w)
                 \/ HeartbeatLost(w)
        PROVE  \A v \in Workers : Keeps(v)
    <2>1. \E pc \in {"idle", "dead"} : Becomes(w, pc)
      BY <1>5 DEF Complete, Fail, Finish, FinishFailure, HeartbeatLost
    <2> QED BY <2>1, BecomesKeeps
  <1>6. ASSUME NEW w \in Workers, Renew(w)
        PROVE  \A v \in Workers : Keeps(v)
    <2>1. worker[w] \in Consumer
      BY DEF Typed, TypeOK
    <2>2. \A v \in Workers : worker'[v].pc = worker[v].pc
                              /\ Attempt(v)' = Attempt(v)
      BY <1>6, <2>1 DEF Renew, Typed, TypeOK, Consumer, Attempt
    <2> QED BY <2>2 DEF Keeps
  <1>7. ASSUME NEW s \in Sessions, Register(s) \/ ProcessExit(s)
        PROVE  \A v \in Workers : Keeps(v)
    <2>1. \A v \in Workers : \/ worker'[v] = worker[v]
                              \/ worker'[v] = Blank("off")
                              \/ worker'[v] = Blank("idle")
      BY <1>7 DEF Register, ProcessExit
    <2>2. Blank("off").pc = "off" /\ Blank("idle").pc = "idle"
      BY DEF Blank
    <2> QED BY <2>1, <2>2 DEF Keeps, Active, Attempt
  <1>8. ASSUME NEW r \in Rows,
               \/ Insert(r) \/ LeaseExpires(r) \/ RecoverLinked(r)
               \/ RecoverUnlinked(r) \/ Requeue(r) \/ ReleaseQuarantine(r)
        PROVE  UNCHANGED worker
    BY <1>8 DEF Insert, LeaseExpires, RecoverLinked, RecoverUnlinked,
                Requeue, ReleaseQuarantine, NextEpoch
  <1>9. CASE RuntimeEnds \/ Pause \/ Resume \/ UNCHANGED vars
    BY <1>1, <1>9 DEF RuntimeEnds, Pause, Resume, vars
  <1> QED
    BY <1>1, <1>2, <1>3, <1>4, <1>5, <1>6, <1>7, <1>8, <1>9
    DEF Next, ConsumerStep, WorkerOnly

\* Only an election writes a receipt.
LEMMA ElectedStep ==
    ASSUME [Next]_vars, \A w \in Workers : ~ApplyProcess(w)
    PROVE  elected' = elected
PROOF
  <1>1. ASSUME NEW w \in Workers, NEW r \in Rows, Claim(w, r)
        PROVE  elected' = elected
    BY <1>1 DEF Claim
  <1>2. ASSUME NEW w \in Workers,
               \/ ApplyRejected(w) \/ ApplyReview(w) \/ ApplySettle(w)
               \/ Complete(w) \/ Fail(w) \/ CompleteLocally(w)
               \/ AuthorizeDetail(w) \/ ReadDetail(w)
        PROVE  elected' = elected
    BY <1>2 DEF ApplyRejected, ApplyReview, ApplySettle, Complete, Fail,
                CompleteLocally, AuthorizeDetail, ReadDetail
  <1>3. ASSUME NEW w \in Workers,
               \/ BeginEffect(w) \/ PerformEffect(w)
               \/ AdapterReturns(w) \/ AdapterFails(w)
               \/ Finish(w) \/ FinishFailure(w)
        PROVE  elected' = elected
    BY <1>3 DEF BeginEffect, PerformEffect, AdapterReturns, AdapterFails,
                Finish, FinishFailure
  <1>4. ASSUME NEW w \in Workers,
               Renew(w) \/ HeartbeatLost(w) \/ ConsumerDies(w)
        PROVE  elected' = elected
    BY <1>4 DEF Renew, HeartbeatLost, ConsumerDies
  <1>5. ASSUME NEW r \in Rows,
               \/ Insert(r) \/ LeaseExpires(r) \/ RecoverLinked(r)
               \/ RecoverUnlinked(r) \/ Requeue(r) \/ ReleaseQuarantine(r)
        PROVE  elected' = elected
    BY <1>5 DEF Insert, LeaseExpires, RecoverLinked, RecoverUnlinked,
                Requeue, ReleaseQuarantine, NextEpoch
  <1>6. ASSUME NEW s \in Sessions, Register(s) \/ ProcessExit(s)
        PROVE  elected' = elected
    BY <1>6 DEF Register, ProcessExit
  <1>7. CASE RuntimeEnds \/ Pause \/ Resume \/ UNCHANGED vars
    BY <1>7 DEF RuntimeEnds, Pause, Resume, vars
  <1> QED
    BY <1>1, <1>2, <1>3, <1>4, <1>5, <1>6, <1>7 DEF Next, ConsumerStep

\* Every step keeps claims unique and elections fresh.
LEMMA TokensStep ==
    ASSUME Typed, Tokens, [Next]_vars
    PROVE  Tokens'
PROOF
  <1>0. /\ \A q \in Rows : Forward(q)
        /\ elected \in SUBSET (Rows \X Nat \X Nat)
        /\ \A r \in Rows : inbox[r].epoch \in Nat /\ inbox[r].attempts \in Nat
    BY ForwardStep DEF Typed, TypeOK, InboxRow
  <1>1. ASSUME NEW r \in Rows, NEW ep \in Nat, NEW at \in Nat, Past(r, ep, at)
        PROVE  Past(r, ep, at)'
    BY <1>0, <1>1 DEF Forward
  <1>2. ASSUME NEW v \in Workers, worker[v].pc \in Active
        PROVE  /\ worker[v].row \in Rows
               /\ worker[v].epoch \in Nat /\ worker[v].attempts \in Nat
               /\ Past(worker[v].row, worker[v].epoch, worker[v].attempts)
    BY <1>2 DEF Tokens, Typed, TypeOK, Holding, Consumer
  <1>3. ASSUME NEW r \in Rows, inbox[r].status \in {"pending", "retry_wait"}
        PROVE  ~Past(r, inbox[r].epoch, inbox[r].attempts)
    BY <1>0, <1>3 DEF Past
  <1>4. ASSUME NEW v \in Workers
        PROVE  Keeps(v) \/ \E r \in Rows : Claim(v, r)
    <2>1. CASE \A w \in Workers, r \in Rows : ~Claim(w, r)
      BY <2>1, KeepsStep
    <2>2. ASSUME NEW w \in Workers, NEW r \in Rows, Claim(w, r), v # w
          PROVE  Keeps(v)
      <3>1. worker'[v] = worker[v]
        BY <2>2, ClaimFacts
      <3> QED BY <3>1 DEF Keeps, Attempt
    <2> QED BY <2>1, <2>2
  <1>5. ASSUME NEW w \in Workers, NEW r \in Rows, Claim(w, r)
        PROVE  /\ Attempt(w)' = <<r, inbox[r].epoch, inbox[r].attempts>>
               /\ inbox[r].status \in {"pending", "retry_wait"}
               /\ elected' = elected
               /\ inbox'[r].status = "leased"
               /\ inbox'[r].epoch = inbox[r].epoch
               /\ inbox'[r].attempts = inbox[r].attempts
               /\ worker'[w].row = r /\ worker'[w].epoch = inbox[r].epoch
               /\ worker'[w].attempts = inbox[r].attempts
    <2>1. /\ inbox'[r].status = "leased"
          /\ inbox'[r].epoch = inbox[r].epoch
          /\ inbox'[r].attempts = inbox[r].attempts
          /\ worker'[w].row = r /\ worker'[w].epoch = inbox[r].epoch
          /\ worker'[w].attempts = inbox[r].attempts
      BY <1>5, ClaimFacts
    <2>2. inbox[r].status \in {"pending", "retry_wait"} /\ elected' = elected
      BY <1>5 DEF Claim
    <2> QED BY <2>1, <2>2 DEF Attempt
  <1>6. ASSUME NEW w \in Workers, worker'[w].pc \in Active
        PROVE  Past(worker[w].row, worker[w].epoch, worker[w].attempts)'
    <2>1. CASE Keeps(w)
      <3>1. PICK r \in Rows, ep \in Nat, at \in Nat :
               /\ r = worker[w].row /\ ep = worker[w].epoch
               /\ at = worker[w].attempts
        BY <1>2, <1>6, <2>1 DEF Keeps
      <3>2. Past(r, ep, at)'
        BY <1>1, <1>2, <1>6, <2>1, <3>1 DEF Keeps
      <3>3. /\ worker'[w].row = r /\ worker'[w].epoch = ep
            /\ worker'[w].attempts = at
        BY <1>6, <2>1, <3>1 DEF Keeps, Attempt
      <3> QED BY <3>2, <3>3 DEF Past
    <2>2. ASSUME NEW r \in Rows, Claim(w, r)
          PROVE  Past(worker[w].row, worker[w].epoch, worker[w].attempts)'
      BY <1>5, <2>2 DEF Past
    <2> QED BY <1>4, <2>1, <2>2
  <1>7. ASSUME NEW v \in Workers, NEW w \in Workers,
               worker'[v].pc \in Active, worker'[w].pc \in Active,
               Attempt(v)' = Attempt(w)', v # w
        PROVE  FALSE
    <2>1. CASE Keeps(v) /\ Keeps(w)
      BY <1>7, <2>1 DEF Keeps, Tokens
    <2>2. ASSUME NEW x \in Workers, NEW y \in Workers, NEW r \in Rows,
                 Claim(x, r), x # y, worker'[y].pc \in Active,
                 Attempt(x)' = Attempt(y)'
          PROVE  FALSE
      <3>1. worker'[y] = worker[y]
        BY <2>2, ClaimFacts
      <3>2. /\ worker[y].row = r /\ worker[y].epoch = inbox[r].epoch
            /\ worker[y].attempts = inbox[r].attempts
        BY <1>5, <2>2, <3>1 DEF Attempt
      <3> QED BY <1>2, <1>3, <1>5, <2>2, <3>1, <3>2
    <2> QED BY <1>4, <1>7, <2>1, <2>2
  <1>8. ASSUME NEW a \in elected'
        PROVE  Past(a[1], a[2], a[3])'
    <2>1. CASE a \in elected
      <3>1. a[1] \in Rows /\ a[2] \in Nat /\ a[3] \in Nat
        BY <1>0, <2>1
      <3>2. Past(a[1], a[2], a[3])
        BY <2>1 DEF Tokens
      <3> QED BY <1>1, <3>1, <3>2
    <2>2. CASE a \notin elected
      <3>1. PICK w \in Workers : ApplyProcess(w)
        BY <2>2, ElectedStep
      <3>2. /\ worker[w].pc \in Active /\ a = Attempt(w)
        BY <2>2, <3>1 DEF ApplyProcess, Active, WorkerStates
      <3>3. /\ a[1] = worker[w].row /\ a[2] = worker[w].epoch
            /\ a[3] = worker[w].attempts
        BY <3>2 DEF Attempt
      <3>4. /\ a[1] \in Rows /\ a[2] \in Nat /\ a[3] \in Nat
            /\ Past(a[1], a[2], a[3])
        BY <1>2, <3>2, <3>3
      <3> QED BY <1>1, <3>4
    <2> QED BY <2>1, <2>2
  <1>9. ASSUME NEW w \in Workers, worker'[w].pc = "claimed",
               Attempt(w)' \in elected'
        PROVE  FALSE
    <2>0. worker'[w].pc \in Active
      BY <1>9 DEF Active, WorkerStates
    <2>1. CASE Keeps(w)
      <3>1. worker[w].pc = "claimed" /\ worker[w].pc \in Active
            /\ Attempt(w)' = Attempt(w)
        BY <1>9, <2>0, <2>1 DEF Keeps
      <3>2. Attempt(w) \notin elected
        BY <3>1 DEF Tokens
      <3>3. PICK u \in Workers : ApplyProcess(u)
        BY <1>9, <3>1, <3>2, ElectedStep
      <3>4. worker[u].pc \in Active /\ Attempt(w) = Attempt(u)
            /\ worker'[u].pc = "elected"
        BY <1>9, <3>1, <3>2, <3>3
        DEF ApplyProcess, Active, WorkerStates, Typed, TypeOK, Consumer
      <3>5. u = w
        BY <3>1, <3>4 DEF Tokens
      <3> QED BY <1>9, <3>4, <3>5
    <2>2. ASSUME NEW r \in Rows, Claim(w, r)
          PROVE  FALSE
      <3> DEFINE a == Attempt(w)'
      <3>1. a \in elected /\ a = <<r, inbox[r].epoch, inbox[r].attempts>>
        BY <1>5, <1>9, <2>2
      <3>2. Past(a[1], a[2], a[3])
        BY <3>1 DEF Tokens
      <3>3. Past(r, inbox[r].epoch, inbox[r].attempts)
        BY <3>1, <3>2
      <3> QED BY <1>3, <1>5, <2>2, <3>3
    <2> QED BY <1>4, <2>1, <2>2
  <1> QED BY <1>6, <1>7, <1>8, <1>9 DEF Tokens

\* Initially there is no token and no receipt.
LEMMA TokensInit == Init => Tokens
PROOF
  BY DEF Init, Tokens, Blank, Active

\* Every claim of a row is unique and is elected at most once: whatever
\* consumers, processes, recovery and operators do, no two consumers ever
\* hold the same row, execution epoch and attempt number.
THEOREM ClaimsUnique == Spec => []Tokens
PROOF
  <1>1. Typed /\ Tokens /\ [Next]_vars => Tokens'
    BY TokensStep
  <1>2. Spec => []Typed
    BY TypeCorrect, PTL DEF Typed
  <1> QED BY TokensInit, <1>1, <1>2, PTL DEF Spec

-----------------------------------------------------------------------------
\* Layer 3: an email and the row it is linked to.

Linkable == {"processing", "retry_wait", "manual_review", "dead_letter"}

\* An email that no row works on.
NoLink(m) ==
    /\ m.link = NoRow
    /\ m.status \notin Linkable
    /\ m.status \in {"absent", "ingested"} => ~m.effects

\* An email m with id e, its row, and whether the row's attempt is elected.
Story(e, m, row, chosen) ==
    /\ m.status \in Linkable
    /\ EmailOf[m.link] = e /\ KindOf[m.link] = "create"
    /\ m.linkEpoch = row.epoch /\ m.auth = row.auth
    /\ m.status = "processing" => row.status = "leased" /\ chosen
    /\ m.status = "retry_wait" =>
          row.status \in {"pending", "retry_wait", "leased"} /\ ~chosen
    /\ m.status \in {"manual_review", "dead_letter"} => row.status = m.status
    /\ m.createSeen
    /\ m.effects => m.status \in {"processing", "manual_review"}
    /\ m.deleted => m.effects \/ m.status = "dead_letter"
    /\ m.effects = row.effect

LinkOK(e) ==
    \/ NoLink(email[e])
    \/ /\ email[e].link \in Rows
       /\ Story(e, email[e], inbox[email[e].link],
                RowAttempt(email[e].link) \in elected)

MarkOK(r) ==
    inbox[r].effect /\ email[EmailOf[r]].link # r =>
       inbox[r].status = "completed"

Links ==
    /\ \A e \in Emails : LinkOK(e)
    /\ \A r \in Rows : MarkOK(r)
    /\ Unlinked

\* Links is the same as the properties it bundles.
LEMMA LinksSplit ==
    ASSUME TypeOK
    PROVE  Links <=> LinkConsistent /\ LinkState /\ MarkersAgree /\ Unlinked
PROOF
  <1>0. /\ \A e \in Emails : email[e].link \in Rows \union {NoRow}
        /\ NoRow \notin Rows
    BY ConstantsAssumption DEF TypeOK, EmailRow
  <1>1. ASSUME NEW e \in Emails
        PROVE  LinkOK(e) <=>
          LET m == email[e] IN
          /\ IF m.status \in Linkable
             THEN /\ m.link \in Rows
                  /\ EmailOf[m.link] = e
                  /\ KindOf[m.link] = "create"
                  /\ m.linkEpoch = inbox[m.link].epoch
                  /\ m.auth = inbox[m.link].auth
                  /\ LinkStatusOK(m)
             ELSE m.link = NoRow
          /\ m.status \in {"absent", "ingested"} => ~m.effects
          /\ m.link \in Rows =>
                /\ m.createSeen
                /\ m.effects => m.status \in {"processing", "manual_review"}
                /\ m.deleted => m.effects \/ m.status = "dead_letter"
                /\ m.status = "processing" => RowAttempt(m.link) \in elected
                /\ m.status = "retry_wait" =>
                      RowAttempt(m.link) \notin elected
          /\ m.link \in Rows => m.effects = inbox[m.link].effect
    BY <1>0 DEF LinkOK, NoLink, Story, Linkable, LinkStatusOK
  <1> QED
    BY <1>1 DEF Links, LinkConsistent, LinkState, MarkersAgree, MarkOK,
                Linkable

\* An email that does not change keeps its story while its row keeps its
\* status, token, epoch and marker, and its election.
LEMMA EmailFrame ==
    ASSUME NEW e \in Emails, LinkOK(e), email'[e] = email[e],
           \A r \in Rows :
              email[e].link = r =>
                 /\ SameRow(inbox'[r], inbox[r])
                 /\ inbox'[r].effect = inbox[r].effect
                 /\ RowAttempt(r) \in elected' <=> RowAttempt(r) \in elected
    PROVE  LinkOK(e)'
PROOF
  <1>1. CASE NoLink(email[e])
    BY <1>1 DEF LinkOK, NoLink
  <1>2. CASE ~NoLink(email[e])
    <2>1. PICK r \in Rows : r = email[e].link
      BY <1>2 DEF LinkOK
    <2>2. Story(e, email[e], inbox[r], RowAttempt(r) \in elected)
      BY <1>2, <2>1 DEF LinkOK
    <2>3. RowAttempt(r)' = RowAttempt(r)
      BY <2>1 DEF RowAttempt, SameRow
    <2>4. Story(e, email'[e], inbox'[r], RowAttempt(r)' \in elected')
      BY <2>1, <2>2, <2>3 DEF Story, SameRow
    <2> QED BY <2>1, <2>4 DEF LinkOK, RowAttempt
  <1> QED BY <1>1, <1>2

\* Two emails are never linked to one row.
LEMMA LinkUnique ==
    ASSUME NEW e \in Emails, LinkOK(e), NEW r \in Rows, email[e].link = r
    PROVE  /\ e = EmailOf[r]
           /\ Story(e, email[e], inbox[r], RowAttempt(r) \in elected)
PROOF
  BY ConstantsAssumption DEF LinkOK, Story, NoLink

\* When no email, no receipt and no row changes except in its lease, the
\* links stay in order.
LEMMA LinksFrame ==
    ASSUME Links, UNCHANGED <<email, elected>>,
           \A r \in Rows : SameRow(inbox'[r], inbox[r])
                           /\ inbox'[r].effect = inbox[r].effect
    PROVE  /\ \A e \in Emails : LinkOK(e)'
           /\ \A r \in Rows : MarkOK(r)'
PROOF
  <1>1. \A e \in Emails : LinkOK(e)'
    BY EmailFrame DEF Links
  <1>2. \A r \in Rows : MarkOK(r)'
    BY DEF Links, MarkOK, SameRow
  <1> QED BY <1>1, <1>2

\* A row that no email is linked to may change its status freely, as long
\* as it was not completed.
LEMMA LinksFree ==
    ASSUME Links, UNCHANGED <<email, elected>>, NEW r \in Rows,
           email[EmailOf[r]].link # r, inbox[r].status # "completed",
           inbox'[r].effect = inbox[r].effect,
           \A q \in Rows \ {r} : inbox'[q] = inbox[q]
    PROVE  /\ \A e \in Emails : LinkOK(e)'
           /\ \A q \in Rows : MarkOK(q)'
PROOF
  <1>1. ASSUME NEW e \in Emails PROVE LinkOK(e)'
    <2>1. LinkOK(e)
      BY DEF Links
    <2>2. email[e].link # r
      BY <2>1, LinkUnique
    <2>3. \A q \in Rows : email[e].link = q =>
             /\ SameRow(inbox'[q], inbox[q])
             /\ inbox'[q].effect = inbox[q].effect
             /\ RowAttempt(q) \in elected' <=> RowAttempt(q) \in elected
      BY <2>2 DEF SameRow
    <2> QED BY <2>1, <2>3, EmailFrame
  <1>2. \A q \in Rows : MarkOK(q)'
    BY DEF Links, MarkOK
  <1> QED BY <1>1, <1>2

\* When a linked email and its row change together, the other emails and
\* rows keep their stories.
LEMMA LinksOthers ==
    ASSUME Typed, Links, UNCHANGED elected, NEW r \in Rows,
           email[EmailOf[r]].link = r,
           \A f \in Emails \ {EmailOf[r]} : email'[f] = email[f],
           \A q \in Rows \ {r} : inbox'[q] = inbox[q],
           email'[EmailOf[r]].link \in {r, NoRow}
    PROVE  /\ \A f \in Emails \ {EmailOf[r]} : LinkOK(f)'
           /\ \A q \in Rows \ {r} : MarkOK(q)'
PROOF
  <1>1. ASSUME NEW f \in Emails, f # EmailOf[r] PROVE LinkOK(f)'
    <2>1. LinkOK(f) /\ email'[f] = email[f]
      BY <1>1 DEF Links
    <2>2. email[f].link # r
      BY <1>1, <2>1, LinkUnique
    <2>3. \A q \in Rows : email[f].link = q =>
             /\ SameRow(inbox'[q], inbox[q])
             /\ inbox'[q].effect = inbox[q].effect
             /\ RowAttempt(q) \in elected' <=> RowAttempt(q) \in elected
      BY <2>2 DEF SameRow
    <2> QED BY <2>1, <2>3, EmailFrame
  <1>2. ASSUME NEW q \in Rows, q # r PROVE MarkOK(q)'
    <2>1. MarkOK(q) /\ inbox'[q] = inbox[q]
      BY <1>2 DEF Links
    <2>2. CASE EmailOf[q] = EmailOf[r]
      BY <1>2, <2>1, <2>2 DEF MarkOK
    <2>3. CASE EmailOf[q] # EmailOf[r]
      BY <2>1, <2>3, ConstantsAssumption DEF MarkOK
    <2> QED BY <2>2, <2>3
  <1> QED BY <1>1, <1>2

\* No election is ahead of its row, so a bumped token is never elected.
LEMMA BumpedFresh ==
    ASSUME Typed, Tokens, NEW r \in Rows
    PROVE  /\ <<r, inbox[r].epoch, inbox[r].attempts + 1>> \notin elected
           /\ <<r, inbox[r].epoch + 1, 0>> \notin elected
PROOF
  <1>0. inbox[r].epoch \in Nat /\ inbox[r].attempts \in Nat
    BY DEF Typed, TypeOK, InboxRow
  <1>1. ASSUME NEW a \in elected, NEW ep \in Nat, NEW at \in Nat,
               a = <<r, ep, at>>
        PROVE  Past(r, ep, at)
    <2>1. a[1] = r /\ a[2] = ep /\ a[3] = at
      BY <1>1
    <2> QED BY <1>1, <2>1 DEF Tokens
  <1>2. ~Past(r, inbox[r].epoch, inbox[r].attempts + 1)
        /\ ~Past(r, inbox[r].epoch + 1, 0)
    BY <1>0 DEF Past
  <1> QED BY <1>0, <1>1, <1>2

\* A claim keeps the links in order: the email of a claimed linked row waits.
LEMMA LinksClaim ==
    ASSUME Typed, Links, NEW w \in Workers, NEW r \in Rows, Claim(w, r)
    PROVE  /\ \A e \in Emails : LinkOK(e)'
           /\ \A q \in Rows : MarkOK(q)'
PROOF
  <1>1. /\ inbox'[r].status = "leased"
        /\ inbox'[r].epoch = inbox[r].epoch
        /\ inbox'[r].attempts = inbox[r].attempts
        /\ inbox'[r].effect = inbox[r].effect
        /\ inbox'[r].auth = inbox[r].auth
        /\ \A q \in Rows \ {r} : inbox'[q] = inbox[q]
    BY ClaimFacts
  <1>2. /\ UNCHANGED <<email, elected>>
        /\ inbox[r].status \in {"pending", "retry_wait"}
    BY DEF Claim
  <1>3. CASE email[EmailOf[r]].link # r
    BY <1>1, <1>2, <1>3, LinksFree
  <1>4. CASE email[EmailOf[r]].link = r
    <2> DEFINE e == EmailOf[r]
    <2>1. e \in Emails /\ LinkOK(e)
      BY ConstantsAssumption DEF Links
    <2>2. /\ \A f \in Emails \ {e} : LinkOK(f)'
          /\ \A q \in Rows \ {r} : MarkOK(q)'
      BY <1>1, <1>2, <1>4, LinksOthers
    <2>3. Story(e, email[e], inbox[r], RowAttempt(r) \in elected)
      BY <1>4, <2>1, LinkUnique
    <2>4. RowAttempt(r)' = RowAttempt(r)
      BY <1>1 DEF RowAttempt
    <2>5. Story(e, email'[e], inbox'[r], RowAttempt(r)' \in elected')
      BY <1>1, <1>2, <2>3, <2>4 DEF Story, Linkable
    <2>6. LinkOK(e)'
      BY <1>2, <1>4, <2>5 DEF LinkOK, RowAttempt
    <2>7. MarkOK(r)'
      BY <1>2, <1>4 DEF MarkOK
    <2> QED BY <2>2, <2>6, <2>7
  <1> QED BY <1>3, <1>4

\* Inserting a row touches nothing an email is linked to.
LEMMA LinksInsert ==
    ASSUME Typed, Links, NEW r \in Rows, Insert(r)
    PROVE  /\ \A e \in Emails : LinkOK(e)'
           /\ \A q \in Rows : MarkOK(q)'
PROOF
  <1>1. /\ inbox[r].status = "absent" /\ UNCHANGED <<email, elected>>
        /\ inbox'[r].effect = inbox[r].effect
        /\ \A q \in Rows \ {r} : inbox'[q] = inbox[q]
    BY DEF Insert, Typed, TypeOK, InboxRow
  <1>2. email[EmailOf[r]].link # r
    <2>1. SUFFICES ASSUME email[EmailOf[r]].link = r PROVE FALSE
      OBVIOUS
    <2>2. EmailOf[r] \in Emails /\ LinkOK(EmailOf[r])
      BY ConstantsAssumption DEF Links
    <2> QED BY <1>1, <2>1, <2>2, LinkUnique DEF Story, Linkable
  <1> QED BY <1>1, <1>2, LinksFree

\* A failure writes one status to the linked email and to its row, and
\* the row moves to the next attempt.
LEMMA LinksFailed ==
    ASSUME Typed, Tokens, Links, UNCHANGED elected, NEW r \in Rows,
           email[EmailOf[r]].link = r, NEW new \in EmailRow,
           email' = [email EXCEPT ![EmailOf[r]] = new],
           new.status \in FailureDecisions,
           email[EmailOf[r]].effects => new.status = "manual_review",
           email[EmailOf[r]].deleted =>
              email[EmailOf[r]].effects \/ new.status = "dead_letter",
           new.link = r, new.linkEpoch = email[EmailOf[r]].linkEpoch,
           new.createSeen = email[EmailOf[r]].createSeen,
           new.deleted = email[EmailOf[r]].deleted,
           new.effects = email[EmailOf[r]].effects,
           new.auth = email[EmailOf[r]].auth,
           inbox' = Released(r, new.status, inbox[r].attempts + 1)
    PROVE  /\ \A e \in Emails : LinkOK(e)'
           /\ \A q \in Rows : MarkOK(q)'
PROOF
  <1> DEFINE e == EmailOf[r]
  <1>0. /\ e \in Emails /\ LinkOK(e)
        /\ email \in [Emails -> EmailRow] /\ inbox \in [Rows -> InboxRow]
        /\ inbox[r].attempts + 1 \in Nat
        /\ new.status \in InboxStatuses
    BY ConstantsAssumption
    DEF Links, Typed, TypeOK, InboxRow, FailureDecisions, InboxStatuses
  <1>1. /\ inbox'[r].status = new.status
        /\ inbox'[r].attempts = inbox[r].attempts + 1
        /\ inbox'[r].epoch = inbox[r].epoch
        /\ inbox'[r].effect = inbox[r].effect
        /\ inbox'[r].auth = inbox[r].auth
        /\ \A q \in Rows \ {r} : inbox'[q] = inbox[q]
    BY <1>0, ReleasedFacts
  <1>2. email'[e] = new /\ \A f \in Emails \ {e} : email'[f] = email[f]
    BY <1>0
  <1>3. Story(e, email[e], inbox[r], RowAttempt(r) \in elected)
    BY <1>0, LinkUnique
  <1>4. RowAttempt(r)' = <<r, inbox[r].epoch, inbox[r].attempts + 1>>
    BY <1>1 DEF RowAttempt
  <1>5. RowAttempt(r)' \notin elected'
    BY <1>4, BumpedFresh
  <1>6. Story(e, new, inbox'[r], RowAttempt(r)' \in elected')
    <2> HIDE DEF e
    <2> QED BY <1>1, <1>3, <1>5 DEF Story, Linkable, FailureDecisions, e
  <1>7. LinkOK(e)'
    BY <1>2, <1>6 DEF LinkOK, RowAttempt
  <1>8. MarkOK(r)'
    BY <1>2 DEF MarkOK
  <1>9. /\ \A f \in Emails \ {e} : LinkOK(f)'
        /\ \A q \in Rows \ {r} : MarkOK(q)'
    BY <1>1, <1>2, LinksOthers
  <1> QED BY <1>7, <1>8, <1>9

\* A granted finish works on the linked, processing, undeleted email.
LEMMA AuthorizedFacts ==
    ASSUME Links, NEW w \in Workers, AuthorizedAttempt(w)
    PROVE  LET r == worker[w].row
               m == email[EmailOf[r]] IN
           /\ r \in Rows /\ EmailFor(w) = EmailOf[r] /\ EmailOf[r] \in Emails
           /\ m.link = r /\ m.status = "processing" /\ ~m.deleted
           /\ worker[w].attempts = inbox[r].attempts
           /\ Attempt(w) = RowAttempt(r)
           /\ inbox[r].status = "leased"
           /\ Story(EmailOf[r], m, inbox[r], RowAttempt(r) \in elected)
PROOF
  <1>1. LeaseHeld(w)
    BY DEF AuthorizedAttempt, LeaseActive
  <1>2. /\ worker[w].row \in Rows
        /\ worker[w].attempts = inbox[worker[w].row].attempts
        /\ Attempt(w) = RowAttempt(worker[w].row)
        /\ inbox[worker[w].row].status = "leased"
    BY <1>1, HeldToken
  <1>3. /\ EmailFor(w) = EmailOf[worker[w].row]
        /\ EmailOf[worker[w].row] \in Emails
    BY <1>2, ConstantsAssumption DEF EmailFor
  <1>4. /\ email[EmailFor(w)].link = worker[w].row
        /\ email[EmailFor(w)].status = "processing"
        /\ ~email[EmailFor(w)].deleted
    BY DEF AuthorizedAttempt
  <1>5. LinkOK(EmailOf[worker[w].row])
    BY <1>3 DEF Links
  <1> QED BY <1>2, <1>3, <1>4, <1>5, LinkUnique

\* A granted finish unlinks a settled email from a completed row, or
\* leaves both in manual review or as a dead letter.
LEMMA LinksFinish ==
    ASSUME Typed, Links, NEW w \in Workers, Finish(w), AuthorizedAttempt(w),
           worker[w].version < VMax, NEW r, r = worker[w].row
    PROVE  /\ \A e \in Emails : LinkOK(e)'
           /\ \A q \in Rows : MarkOK(q)'
PROOF
  <1> DEFINE e == EmailOf[r]
             m == email[e]
             status == FinishStatus(w)
             settled == status \notin {"manual_review", "dead_letter"}
  <1>0. /\ r \in Rows /\ EmailFor(w) = e /\ e \in Emails
        /\ m.link = r /\ m.status = "processing" /\ ~m.deleted
        /\ worker[w].attempts = inbox[r].attempts
        /\ Story(e, m, inbox[r], RowAttempt(r) \in elected)
    BY AuthorizedFacts
  <1>1. worker[w].result \in Completions
    BY DEF Finish, Typed, Holding
  <1>2. /\ status \in {"waiting_approval", "notified_readonly", "no_action",
                       "archived", "manual_review", "dead_letter"}
        /\ FinishInboxStatus(status) \in InboxStatuses
    BY <1>1, FinishStatusTyped
  <1>3. m.effects => status # "dead_letter"
    BY <1>1 DEF FinishStatus, EffectStarted, Completions
  <1>4. PICK new \in EmailRow :
           /\ email' = [email EXCEPT ![e] = new]
           /\ new.status = status
           /\ new.link = IF settled THEN NoRow ELSE m.link
           /\ new.linkEpoch = IF settled THEN 0 ELSE m.linkEpoch
           /\ new.createSeen = m.createSeen /\ new.deleted = m.deleted
           /\ new.effects = m.effects /\ new.auth = m.auth
    BY <1>0, FinishEmail
  <1>5. /\ inbox' = Released(r, FinishInboxStatus(status), inbox[r].attempts)
        /\ UNCHANGED elected
    BY <1>0 DEF Finish
  <1>6. /\ inbox'[r].status = FinishInboxStatus(status)
        /\ inbox'[r].attempts = inbox[r].attempts
        /\ inbox'[r].epoch = inbox[r].epoch
        /\ inbox'[r].effect = inbox[r].effect
        /\ inbox'[r].auth = inbox[r].auth
        /\ \A q \in Rows \ {r} : inbox'[q] = inbox[q]
    <2>1. inbox \in [Rows -> InboxRow] /\ inbox[r].attempts \in Nat
      BY <1>0 DEF Typed, TypeOK, InboxRow
    <2> QED BY <1>0, <1>2, <1>5, <2>1, ReleasedFacts
  <1>7. email'[e] = new /\ \A f \in Emails \ {e} : email'[f] = email[f]
    BY <1>0, <1>4 DEF Typed, TypeOK
  <1>8. /\ \A f \in Emails \ {e} : LinkOK(f)'
        /\ \A q \in Rows \ {r} : MarkOK(q)'
    BY <1>0, <1>4, <1>5, <1>6, <1>7, LinksOthers
  <1>9. LinkOK(e)' /\ MarkOK(r)'
    <2> HIDE DEF m, status
    <2>1. CASE settled
      <3>1. NoLink(new)
        BY <1>2, <1>4, <2>1 DEF NoLink, Linkable
      <3>2. inbox'[r].status = "completed"
        BY <1>6, <2>1 DEF FinishInboxStatus
      <3> QED BY <1>7, <3>1, <3>2 DEF LinkOK, MarkOK
    <2>2. CASE ~settled
      <3>1. inbox'[r].status = status
        BY <1>6, <2>2 DEF FinishInboxStatus
      <3>2. RowAttempt(r)' = RowAttempt(r)
        BY <1>6 DEF RowAttempt
      <3>3. Story(e, new, inbox'[r], RowAttempt(r)' \in elected')
        BY <1>0, <1>3, <1>4, <1>6, <2>2, <3>1 DEF Story, Linkable
      <3>4. new.link = r
        BY <1>0, <1>4, <2>2
      <3>5. LinkOK(e)'
        BY <1>0, <1>7, <3>3, <3>4 DEF LinkOK, RowAttempt
      <3>6. MarkOK(r)'
        BY <1>7, <3>4 DEF MarkOK
      <3> QED BY <3>5, <3>6
    <2> QED BY <2>1, <2>2
  <1> QED BY <1>8, <1>9

\* A new execution epoch is opened only on an unmarked, undeleted email in
\* step with its row, and leaves both waiting.
LEMMA LinksNextEpoch ==
    ASSUME Typed, Tokens, Links, NEW r \in Rows,
           Requeue(r) \/ ReleaseQuarantine(r)
    PROVE  /\ \A e \in Emails : LinkOK(e)'
           /\ \A q \in Rows : MarkOK(q)'
PROOF
  <1> DEFINE e == EmailOf[r]
             m == email[e]
             new == email'[e]
  <1>0. /\ NextEpoch(r) /\ m.link = r
        /\ ~inbox[r].effect /\ UNCHANGED elected
        /\ m.deleted => m.status = "manual_review"
    BY DEF Requeue, ReleaseQuarantine, NextEpoch
  <1>1. e \in Emails /\ LinkOK(e)
    BY ConstantsAssumption DEF Links
  <1>2. Story(e, m, inbox[r], RowAttempt(r) \in elected)
    BY <1>0, <1>1, LinkUnique
  <1>3. ~m.effects /\ ~m.deleted
    BY <1>0, <1>2 DEF Story
  <1>4. /\ inbox'[r].status = "pending" /\ inbox'[r].attempts = 0
        /\ inbox'[r].epoch = inbox[r].epoch + 1
        /\ inbox'[r].effect = inbox[r].effect
        /\ inbox'[r].auth = inbox[r].auth
        /\ \A q \in Rows \ {r} : inbox'[q] = inbox[q]
        /\ new.status = "retry_wait" /\ new.link = m.link
        /\ new.linkEpoch = m.linkEpoch + 1
        /\ new.createSeen = m.createSeen /\ new.deleted = m.deleted
        /\ new.effects = m.effects /\ new.auth = m.auth
        /\ \A f \in Emails \ {e} : email'[f] = email[f]
    BY <1>0, NextEpochFacts
  <1>5. RowAttempt(r)' \notin elected'
    BY <1>0, <1>4, BumpedFresh DEF RowAttempt
  <1>6. /\ \A f \in Emails \ {e} : LinkOK(f)'
        /\ \A q \in Rows \ {r} : MarkOK(q)'
    BY <1>0, <1>4, LinksOthers
  <1>7. Story(e, new, inbox'[r], RowAttempt(r)' \in elected')
    <2> HIDE DEF e, m, new
    <2> QED BY <1>0, <1>2, <1>3, <1>4, <1>5 DEF Story, Linkable
  <1>8. LinkOK(e)'
    BY <1>0, <1>4, <1>7 DEF LinkOK, RowAttempt
  <1>9. MarkOK(r)'
    BY <1>0, <1>4 DEF MarkOK
  <1> QED BY <1>6, <1>8, <1>9

\* A granted effect marks the processing email and its row together.
LEMMA LinksBegin ==
    ASSUME Typed, Links, NEW w \in Workers, BeginEffect(w), EffectGranted(w),
           NEW r, r = worker[w].row
    PROVE  /\ \A e \in Emails : LinkOK(e)'
           /\ \A q \in Rows : MarkOK(q)'
PROOF
  <1> DEFINE e == EmailOf[r]
             m == email[e]
             new == email'[e]
  <1>0. /\ r \in Rows /\ EmailFor(w) = e /\ e \in Emails
        /\ m.link = r /\ m.status = "processing" /\ ~m.deleted
        /\ Story(e, m, inbox[r], RowAttempt(r) \in elected)
    BY AuthorizedFacts DEF EffectGranted
  <1>1. /\ SameRow(inbox'[r], inbox[r]) /\ inbox'[r].effect
        /\ inbox' \in [Rows -> InboxRow]
        /\ \A q \in Rows \ {r} : inbox'[q] = inbox[q]
        /\ new = [m EXCEPT !.effects = TRUE]
        /\ \A f \in Emails \ {e} : email'[f] = email[f]
    BY <1>0, BeginEffectFacts
  <1>2. UNCHANGED elected
    BY DEF BeginEffect
  <1>3. /\ new.status = m.status /\ new.link = m.link
        /\ new.linkEpoch = m.linkEpoch /\ new.createSeen = m.createSeen
        /\ new.deleted = m.deleted /\ new.auth = m.auth /\ new.effects = TRUE
        /\ inbox'[r].effect = TRUE
    <2>1. m \in EmailRow
      BY <1>0 DEF Typed, TypeOK
    <2>2. inbox'[r].effect \in BOOLEAN
      BY <1>0, <1>1 DEF InboxRow
    <2> HIDE DEF m
    <2> QED BY <1>1, <2>1, <2>2 DEF EmailRow
  <1>4. /\ \A f \in Emails \ {e} : LinkOK(f)'
        /\ \A q \in Rows \ {r} : MarkOK(q)'
    BY <1>0, <1>1, <1>2, <1>3, LinksOthers
  <1>5. RowAttempt(r)' = RowAttempt(r)
    BY <1>1 DEF RowAttempt, SameRow
  <1>6. Story(e, new, inbox'[r], RowAttempt(r)' \in elected')
    <2> HIDE DEF e, m, new
    <2> QED BY <1>0, <1>1, <1>2, <1>3, <1>5 DEF Story, Linkable, SameRow
  <1>7. LinkOK(e)' /\ MarkOK(r)'
    <2>1. new.link = r
      BY <1>0, <1>3
    <2> QED BY <1>0, <1>6, <2>1 DEF LinkOK, MarkOK, RowAttempt
  <1> QED BY <1>4, <1>7

\* What a decision to process, and a decision not to, say about the email.
LEMMA DecisionFacts ==
    ASSUME Typed, NEW w \in Workers, worker[w].row \in Rows
    PROVE  LET m == email[EmailFor(w)]
               d == DecisionFor(w)
               k == KindOf[worker[w].row] IN
           /\ d.should_process =>
                 /\ k = "create"
                 /\ \/ m.status = "absent"
                    \/ m.status = "ingested" /\ ~m.createSeen /\ ~m.deleted
                    \/ /\ m.status \in {"processing", "retry_wait"}
                       /\ Owns(m, w) /\ ~m.effects /\ ~m.deleted
           /\ ~d.should_process /\ k = "create" =>
                 /\ m.status # "absent"
                 /\ ~(m.status = "retry_wait" /\ m.createSeen /\ Owns(m, w)
                       /\ ~m.effects /\ ~m.deleted)
           /\ ~d.should_process /\ k = "delete" /\ ~Shell(w).deleted =>
                 \/ d.new_status = "cancelled" /\ m.status = "absent"
                 \/ d.new_status = "cancelled" /\ ~m.effects
                    /\ m.status # "absent"
                 \/ /\ d.new_status = m.status /\ m.status # "absent"
                    /\ m.effects \/ m.status \notin CancelOnDelete
PROOF
  <1>1. /\ EmailFor(w) \in Emails
        /\ KindOf[worker[w].row] \in {"create", "update", "delete"}
    BY ConstantsAssumption DEF EmailFor
  <1>2. /\ email[EmailFor(w)].deleted \in BOOLEAN
        /\ email[EmailFor(w)].effects \in BOOLEAN
        /\ email[EmailFor(w)].createSeen \in BOOLEAN
    BY <1>1 DEF Typed, TypeOK, EmailRow
  <1> QED
    BY <1>1, <1>2
    DEF DecisionFor, decide_email_event, DecideFirst, DecideCreate,
        DecideDelete, Decision, Process, Preserve, Shell,
        MayResumeProcessing

\* The aggregate an event works on is the email, or an empty shell.
LEMMA ShellFacts ==
    ASSUME Typed, NEW w \in Workers, worker[w].row \in Rows
    PROVE  LET m == email[EmailFor(w)] IN
           /\ m.status # "absent" => Shell(w) = m
           /\ m.status = "absent" =>
                 /\ Shell(w).status = "ingested" /\ Shell(w).link = NoRow
                 /\ Shell(w).effects = FALSE /\ Shell(w).deleted = FALSE
                 /\ Shell(w).createSeen = FALSE
                 /\ Shell(w).auth = inbox[worker[w].row].auth
PROOF
  BY DEF Shell, AbsentEmail

\* An election links the email to the elected row.
LEMMA LinksApplyProcess ==
    ASSUME Typed, Links, NEW w \in Workers, ApplyProcess(w),
           NEW r, r = worker[w].row
    PROVE  /\ \A e \in Emails : LinkOK(e)'
           /\ \A q \in Rows : MarkOK(q)'
PROOF
  <1> DEFINE e == EmailOf[r]
             m == email[e]
             shell == Shell(w)
  <1>0. LeaseHeld(w) /\ inbox' = inbox
    BY DEF ApplyProcess, LeaseActive
  <1>1. /\ r \in Rows /\ e \in Emails /\ EmailFor(w) = e
        /\ inbox[r].status = "leased" /\ worker[w].epoch = inbox[r].epoch
        /\ Attempt(w) = RowAttempt(r)
        /\ LinkOK(e) /\ MarkOK(r)
    BY <1>0, HeldToken, ConstantsAssumption DEF EmailFor, Links
  <1>2. /\ KindOf[r] = "create"
        /\ \/ m.status = "absent"
           \/ m.status = "ingested" /\ ~m.createSeen /\ ~m.deleted
           \/ /\ m.status \in {"processing", "retry_wait"}
              /\ m.link = r /\ ~m.effects /\ ~m.deleted
    BY <1>1, DecisionFacts DEF ApplyProcess, Owns
  <1>3. PICK new \in EmailRow :
           /\ email' = [email EXCEPT ![e] = new]
           /\ new.status = "processing"
           /\ new.link = IF shell.link = NoRow THEN r ELSE shell.link
           /\ new.linkEpoch = IF shell.link = NoRow THEN worker[w].epoch
                                                    ELSE shell.linkEpoch
           /\ new.createSeen /\ new.deleted = shell.deleted
           /\ new.effects = shell.effects /\ new.auth = shell.auth
    BY <1>1, ApplyProcessEmail
  <1>4. elected' = elected \union {RowAttempt(r)}
    BY <1>1 DEF ApplyProcess
  <1>5. RowAttempt(r)' = RowAttempt(r)
    BY <1>0 DEF RowAttempt
  <1>6. email'[e] = new /\ \A f \in Emails \ {e} : email'[f] = email[f]
    BY <1>1, <1>3 DEF Typed, TypeOK
  <1>7. inbox[r].effect \in BOOLEAN /\ NoRow \notin Rows
        /\ m.effects \in BOOLEAN
    BY <1>1, ConstantsAssumption DEF Typed, TypeOK, InboxRow, EmailRow
  <1>8. /\ new.link = r
        /\ Story(e, new, inbox[r], TRUE)
        /\ m.link \in {r, NoRow}
    <2>1. CASE m.status \in {"absent", "ingested"}
      <3>1. m.link = NoRow /\ ~m.effects
        BY <1>1, <2>1 DEF LinkOK, NoLink, Story, Linkable
      <3>2. ~inbox[r].effect
        BY <1>1, <1>7, <3>1 DEF MarkOK
      <3>3. /\ shell.link = NoRow /\ shell.effects = FALSE
            /\ ~shell.deleted /\ shell.auth = inbox[r].auth
        <4>1. CASE m.status = "absent"
          BY <1>1, <4>1, ShellFacts
        <4>2. CASE m.status = "ingested"
          <5>1. shell = m
            BY <1>1, <4>2, ShellFacts
          <5>2. m.auth = inbox[r].auth /\ ~m.deleted
            BY <1>1, <1>2, <4>2
            DEF ApplyProcess, StickyOwnerMismatch, BlockingEmailStatuses
          <5> QED BY <1>7, <3>1, <5>1, <5>2
        <4> QED BY <2>1, <4>1, <4>2
      <3>4. /\ new.link = r /\ new.linkEpoch = inbox[r].epoch
            /\ new.effects = FALSE /\ ~new.deleted
            /\ new.auth = inbox[r].auth
        BY <1>1, <1>3, <3>3
      <3> HIDE DEF m, e
      <3> QED BY <1>1, <1>2, <1>3, <1>7, <3>1, <3>2, <3>4
              DEF Story, Linkable, e
    <2>2. CASE m.status \in {"processing", "retry_wait"}
      <3>1. m.link = r /\ ~m.effects /\ ~m.deleted
        BY <1>2, <2>2
      <3>2. Story(e, m, inbox[r], RowAttempt(r) \in elected)
        BY <1>1, <3>1, LinkUnique
      <3>3. shell = m
        BY <1>1, <2>2, ShellFacts
      <3>4. /\ new.link = r /\ new.linkEpoch = m.linkEpoch
            /\ new.effects = m.effects /\ ~new.deleted
            /\ new.auth = m.auth
        BY <1>1, <1>3, <1>7, <3>1, <3>3
      <3> HIDE DEF m, e
      <3> QED BY <1>1, <1>2, <1>3, <3>1, <3>2, <3>4 DEF Story, Linkable
    <2> QED BY <1>2, <2>1, <2>2
  <1>9. LinkOK(e)' /\ MarkOK(r)'
    <2>1. RowAttempt(r)' \in elected'
      BY <1>4, <1>5
    <2>2. email'[e].link = r
      BY <1>6, <1>8
    <2>3. Story(e, email'[e], inbox'[r], RowAttempt(r)' \in elected')
      BY <1>0, <1>6, <1>8, <2>1
    <2> QED BY <1>1, <2>2, <2>3 DEF LinkOK, MarkOK, RowAttempt
  <1>10. ASSUME NEW f \in Emails, f # e PROVE LinkOK(f)'
    <2>1. LinkOK(f) /\ email'[f] = email[f]
      BY <1>6, <1>10 DEF Links
    <2>2. email[f].link # r
      BY <1>1, <1>10, <2>1, LinkUnique
    <2>3. \A q \in Rows : email[f].link = q =>
             /\ SameRow(inbox'[q], inbox[q])
             /\ inbox'[q].effect = inbox[q].effect
             /\ RowAttempt(q) \in elected' <=> RowAttempt(q) \in elected
      BY <1>0, <1>4, <2>2 DEF SameRow, RowAttempt
    <2> QED BY <2>1, <2>3, EmailFrame
  <1>11. ASSUME NEW q \in Rows, q # r PROVE MarkOK(q)'
    <2>1. MarkOK(q) /\ EmailOf[q] \in Emails
      BY ConstantsAssumption DEF Links
    <2>2. CASE EmailOf[q] = e
      BY <1>0, <1>7, <1>8, <1>11, <2>1, <2>2 DEF MarkOK
    <2>3. CASE EmailOf[q] # e
      BY <1>0, <1>6, <2>1, <2>3 DEF MarkOK
    <2> QED BY <2>2, <2>3
  <1> QED BY <1>9, <1>10, <1>11

\* An event that needs no processing unlinks an unmarked email or leaves
\* its link alone.
LEMMA LinksApplySettle ==
    ASSUME Typed, Links, NEW w \in Workers, ApplySettle(w),
           NEW r, r = worker[w].row
    PROVE  /\ \A e \in Emails : LinkOK(e)'
           /\ \A q \in Rows : MarkOK(q)'
PROOF
  <1> DEFINE e == EmailOf[r]
             m == email[e]
             shell == Shell(w)
             status == DecisionFor(w).new_status
             deleting == KindOf[r] = "delete" /\ ~shell.deleted
             cancels == deleting /\ status = "cancelled"
  <1>0. LeaseHeld(w) /\ inbox' = inbox /\ elected' = elected
        /\ ~DecisionFor(w).should_process
    BY DEF ApplySettle, LeaseActive
  <1>1. /\ r \in Rows /\ e \in Emails /\ EmailFor(w) = e
        /\ LinkOK(e) /\ NoRow \notin Rows
        /\ KindOf[r] \in {"create", "update", "delete"}
    BY <1>0, HeldToken, ConstantsAssumption DEF EmailFor, Links
  <1>2. /\ KindOf[r] = "create" => m.status # "absent"
        /\ deleting =>
              \/ status = "cancelled" /\ m.status = "absent"
              \/ status = "cancelled" /\ ~m.effects /\ m.status # "absent"
              \/ /\ status = m.status /\ m.status # "absent"
                 /\ m.effects \/ m.status \notin CancelOnDelete
    BY <1>0, <1>1, DecisionFacts
  <1>3. PICK new \in EmailRow :
           /\ email' = [email EXCEPT ![e] = new]
           /\ new.status = IF deleting THEN status ELSE shell.status
           /\ new.link = IF cancels THEN NoRow ELSE shell.link
           /\ new.linkEpoch = IF cancels THEN 0 ELSE shell.linkEpoch
           /\ new.deleted = (deleting \/ shell.deleted)
           /\ new.createSeen = shell.createSeen
           /\ new.effects = shell.effects /\ new.auth = shell.auth
    BY <1>1, ApplySettleEmail
  <1>4. email'[e] = new /\ \A f \in Emails \ {e} : email'[f] = email[f]
    BY <1>1, <1>3 DEF Typed, TypeOK
  <1>5. \/ NoLink(new)
        \/ /\ new.link = m.link /\ m.link \in Rows
           /\ Story(e, new, inbox[m.link], RowAttempt(m.link) \in elected)
    <2>1. CASE m.status = "absent"
      <3>1. /\ shell.status = "ingested" /\ shell.link = NoRow
            /\ shell.effects = FALSE
        BY <1>1, <2>1, ShellFacts
      <3>2. /\ new.status \in {"ingested", "cancelled"} /\ new.link = NoRow
            /\ ~new.effects
        BY <1>2, <1>3, <2>1, <3>1
      <3> QED BY <3>2 DEF NoLink, Linkable
    <2>2. CASE m.status # "absent" /\ cancels
      BY <1>3, <2>2 DEF NoLink, Linkable
    <2>3. CASE m.status # "absent" /\ ~cancels
      <3>1. shell = m
        BY <1>1, <2>3, ShellFacts
      <3>2. /\ new.status = m.status /\ new.link = m.link
            /\ new.linkEpoch = m.linkEpoch /\ new.createSeen = m.createSeen
            /\ new.effects = m.effects /\ new.auth = m.auth
            /\ new.deleted => m.deleted \/ m.effects
                                \/ m.status \notin CancelOnDelete
        BY <1>2, <1>3, <2>3, <3>1
      <3>3. CASE NoLink(m)
        BY <3>2, <3>3 DEF NoLink
      <3>4. CASE ~NoLink(m)
        <4>1. /\ m.link \in Rows
              /\ Story(e, m, inbox[m.link], RowAttempt(m.link) \in elected)
          BY <1>1, <3>4 DEF LinkOK
        <4> HIDE DEF m, e
        <4> QED BY <3>2, <4>1 DEF Story, Linkable, CancelOnDelete
      <3> QED BY <3>3, <3>4
    <2> QED BY <2>1, <2>2, <2>3
  <1>6. LinkOK(e)'
    <2>1. CASE NoLink(new)
      BY <1>4, <2>1 DEF LinkOK
    <2>2. CASE ~NoLink(new)
      <3>1. PICK q \in Rows : q = m.link
        BY <1>5, <2>2
      <3>2. /\ new.link = q
            /\ Story(e, new, inbox[q], RowAttempt(q) \in elected)
        BY <1>5, <2>2, <3>1
      <3>3. RowAttempt(q)' = RowAttempt(q)
        BY <1>0 DEF RowAttempt
      <3> QED BY <1>0, <1>4, <3>2, <3>3 DEF LinkOK, RowAttempt
    <2> QED BY <2>1, <2>2
  <1>7. ASSUME NEW f \in Emails, f # e PROVE LinkOK(f)'
    <2>1. LinkOK(f) /\ email'[f] = email[f]
      BY <1>4, <1>7 DEF Links
    <2> QED BY <1>0, <2>1, EmailFrame DEF SameRow
  <1>8. ASSUME NEW q \in Rows PROVE MarkOK(q)'
    <2>1. MarkOK(q) /\ EmailOf[q] \in Emails
          /\ inbox[q].effect \in BOOLEAN
      BY ConstantsAssumption DEF Links, Typed, TypeOK, InboxRow
    <2>2. CASE EmailOf[q] # e \/ m.link # q
      <3>1. email[EmailOf[q]].link # q \/ EmailOf[q] # e
        BY <2>2
      <3>2. EmailOf[q] = e => email'[e].link # q
        BY <1>1, <1>4, <1>5, <2>2 DEF NoLink
      <3> QED BY <1>0, <1>4, <2>1, <2>2, <3>2 DEF MarkOK
    <2>3. CASE EmailOf[q] = e /\ m.link = q
      <3>1. Story(e, m, inbox[q], RowAttempt(q) \in elected)
        BY <1>1, <2>3, LinkUnique
      <3>2. CASE cancels
        <4>1. ~m.effects
          BY <1>2, <3>1, <3>2 DEF Story, Linkable
        <4>2. ~inbox[q].effect
          BY <3>1, <4>1 DEF Story
        <4> QED BY <1>0, <4>2 DEF MarkOK
      <3>3. CASE ~cancels
        <4>1. shell = m
          BY <1>1, <3>1, ShellFacts DEF Story, Linkable
        <4>2. email'[e].link = q
          BY <1>3, <1>4, <2>3, <3>3, <4>1
        <4> QED BY <2>3, <4>2 DEF MarkOK
      <3> QED BY <3>2, <3>3
    <2> QED BY <2>2, <2>3
  <1> QED BY <1>6, <1>7, <1>8

\* Every step keeps emails and rows in step.
LEMMA LinkOKStep ==
    ASSUME Typed, Tokens, Links, [Next]_vars
    PROVE  /\ \A e \in Emails : LinkOK(e)'
           /\ \A q \in Rows : MarkOK(q)'
PROOF
  <1> DEFINE Goal == /\ \A e \in Emails : LinkOK(e)'
                     /\ \A q \in Rows : MarkOK(q)'
  <1>1. CASE UNCHANGED <<inbox, email, elected>>
    BY <1>1, LinksFrame DEF SameRow
  <1>2. ASSUME NEW w \in Workers, NEW r \in Rows, Claim(w, r) PROVE Goal
    BY <1>2, LinksClaim
  <1>3. ASSUME NEW w \in Workers, ApplyProcess(w) PROVE Goal
    BY <1>3, LinksApplyProcess
  <1>4. ASSUME NEW w \in Workers, ApplySettle(w) PROVE Goal
    BY <1>4, LinksApplySettle
  <1>5. ASSUME NEW w \in Workers, BeginEffect(w) PROVE Goal
    <2>1. CASE EffectGranted(w)
      BY <1>5, <2>1, LinksBegin
    <2>2. CASE ~EffectGranted(w)
      BY <1>1, <1>5, <2>2 DEF BeginEffect
    <2> QED BY <2>1, <2>2
  <1>6. ASSUME NEW w \in Workers, Complete(w) \/ Fail(w) PROVE Goal
    <2>1. CASE ~LeaseActive(w)
      BY <1>1, <1>6, <2>1 DEF Complete, Fail
    <2>2. CASE LeaseActive(w)
      <3>0. LeaseHeld(w)
        BY <2>2 DEF LeaseActive
      <3>1. PICK r \in Rows : r = worker[w].row
        BY <3>0, HeldToken
      <3>2. /\ inbox[r].status = "leased" /\ Attempt(w) = RowAttempt(r)
            /\ worker[w].attempts = inbox[r].attempts
        BY <3>0, <3>1, HeldToken
      <3>3. email[EmailOf[r]].link # r
        BY <1>6, <3>1, <3>2 DEF Links, Unlinked, EmailFor, Complete, Fail
      <3>4. /\ UNCHANGED <<email, elected>>
            /\ \E status \in InboxStatuses, attempts \in Nat :
                  inbox' = Released(r, status, attempts)
        <4>1. worker[w].attempts \in Nat /\ worker[w].attempts + 1 \in Nat
          BY DEF Typed, TypeOK, Consumer
        <4> QED BY <1>6, <2>2, <3>1, <4>1 DEF Complete, Fail, InboxStatuses
      <3>5. /\ inbox'[r].effect = inbox[r].effect
            /\ \A q \in Rows \ {r} : inbox'[q] = inbox[q]
        <4>1. inbox \in [Rows -> InboxRow]
          BY DEF Typed, TypeOK
        <4> QED BY <3>4, <4>1, ReleasedFacts
      <3> QED BY <3>2, <3>3, <3>4, <3>5, LinksFree
    <2> QED BY <2>1, <2>2
  <1>7. ASSUME NEW w \in Workers, Finish(w) PROVE Goal
    <2>1. CASE AuthorizedAttempt(w) /\ worker[w].version < VMax
      BY <1>7, <2>1, LinksFinish
    <2>2. CASE ~(AuthorizedAttempt(w) /\ worker[w].version < VMax)
      BY <1>1, <1>7, <2>2 DEF Finish
    <2> QED BY <2>1, <2>2
  <1>8. ASSUME NEW w \in Workers, FinishFailure(w) PROVE Goal
    <2>1. CASE AuthorizedAttempt(w) /\ worker[w].version < VMax
      <3>1. PICK r \in Rows : r = worker[w].row
        BY <2>1, AuthorizedFacts
      <3>2. /\ EmailFor(w) = EmailOf[r] /\ email[EmailOf[r]].link = r
            /\ ~email[EmailOf[r]].deleted
            /\ worker[w].attempts = inbox[r].attempts
        BY <2>1, <3>1, AuthorizedFacts
      <3>3. PICK new \in EmailRow :
              /\ email' = [email EXCEPT ![EmailOf[r]] = new]
              /\ new.status \in FailureDecisions
              /\ EffectStarted(r) => new.status = "manual_review"
              /\ new.link = email[EmailOf[r]].link
              /\ new.linkEpoch = email[EmailOf[r]].linkEpoch
              /\ new.createSeen = email[EmailOf[r]].createSeen
              /\ new.deleted = email[EmailOf[r]].deleted
              /\ new.effects = email[EmailOf[r]].effects
              /\ new.auth = email[EmailOf[r]].auth
              /\ inbox' = Released(r, new.status, inbox[r].attempts + 1)
        BY <1>8, <2>1, <3>1, <3>2, FinishFailureFacts
      <3>4. email[EmailOf[r]].effects => new.status = "manual_review"
        BY <3>3 DEF EffectStarted
      <3>5. UNCHANGED elected
        BY <1>8 DEF FinishFailure
      <3> QED BY <3>2, <3>3, <3>4, <3>5, LinksFailed
    <2>2. CASE ~(AuthorizedAttempt(w) /\ worker[w].version < VMax)
      BY <1>1, <1>8, <2>2 DEF FinishFailure
    <2> QED BY <2>1, <2>2
  <1>9. ASSUME NEW r \in Rows, RecoverLinked(r) PROVE Goal
    <2>1. email[EmailOf[r]].link = r /\ UNCHANGED elected
          /\ inbox[r].status = "leased"
      BY <1>9 DEF RecoverLinked, Recoverable
    <2>2. PICK new \in EmailRow :
              /\ email' = [email EXCEPT ![EmailOf[r]] = new]
              /\ new.status \in FailureDecisions
              /\ EffectStarted(r) \/ email[EmailOf[r]].deleted =>
                    new.status = "manual_review"
              /\ new.link = email[EmailOf[r]].link
              /\ new.linkEpoch = email[EmailOf[r]].linkEpoch
              /\ new.createSeen = email[EmailOf[r]].createSeen
              /\ new.deleted = email[EmailOf[r]].deleted
              /\ new.effects = email[EmailOf[r]].effects
              /\ new.auth = email[EmailOf[r]].auth
              /\ inbox' = Released(r, new.status, inbox[r].attempts + 1)
      BY <1>9, RecoverLinkedFacts
    <2>3. /\ email[EmailOf[r]].effects => new.status = "manual_review"
      BY <2>2 DEF EffectStarted
    <2>4. email[EmailOf[r]].deleted => email[EmailOf[r]].effects
      <3>1. EmailOf[r] \in Emails /\ LinkOK(EmailOf[r])
        BY ConstantsAssumption DEF Links
      <3> QED BY <2>1, <3>1, LinkUnique DEF Story
    <2> QED BY <2>1, <2>2, <2>3, <2>4, LinksFailed
  <1>10. ASSUME NEW r \in Rows, RecoverUnlinked(r) PROVE Goal
    <2>1. /\ email[EmailOf[r]].link # r /\ inbox[r].status = "leased"
          /\ UNCHANGED <<email, elected>>
      BY <1>10 DEF RecoverUnlinked, Recoverable
    <2>2. /\ inbox'[r].effect = inbox[r].effect
          /\ \A q \in Rows \ {r} : inbox'[q] = inbox[q]
      <3>1. inbox \in [Rows -> InboxRow] /\ inbox[r].attempts + 1 \in Nat
        BY DEF Typed, TypeOK, InboxRow
      <3>2. FailureDecisions \subseteq InboxStatuses
        BY DEF FailureDecisions, InboxStatuses
      <3> QED BY <1>10, <3>1, <3>2, RecoverUnlinkedFacts, ReleasedFacts
    <2> QED BY <2>1, <2>2, LinksFree
  <1>11. ASSUME NEW r \in Rows, Requeue(r) \/ ReleaseQuarantine(r) PROVE Goal
    BY <1>11, LinksNextEpoch
  <1>12. ASSUME NEW r \in Rows, Insert(r) PROVE Goal
    BY <1>12, LinksInsert
  <1>13. ASSUME NEW r \in Rows, LeaseExpires(r) PROVE Goal
    BY <1>13, LeaseFacts, LinksFrame DEF LeaseExpires
  <1>14. ASSUME NEW w \in Workers, Renew(w) \/ HeartbeatLost(w) PROVE Goal
    <2>1. CASE UNCHANGED inbox
      BY <1>1, <1>14, <2>1 DEF Renew, HeartbeatLost
    <2>2. CASE ~UNCHANGED inbox
      <3>1. /\ worker[w].row \in Rows
            /\ inbox' = [inbox EXCEPT ![worker[w].row].until = @ + 1]
            /\ UNCHANGED <<email, elected>>
        BY <1>14, <2>2 DEF Renew, HeartbeatLost, Renewable, LeaseActive,
                           LeaseHeld
      <3> QED BY <3>1, LeaseFacts, LinksFrame
    <2> QED BY <2>1, <2>2
  <1>15. ASSUME NEW w \in Workers, PerformEffect(w) \/ WorkerOnly(w)
         PROVE  UNCHANGED <<inbox, email, elected>>
    BY <1>15
    DEF PerformEffect, WorkerOnly, ApplyRejected, ApplyReview,
        CompleteLocally, AuthorizeDetail, ReadDetail, AdapterReturns,
        AdapterFails, ConsumerDies
  <1>16. ASSUME NEW s \in Sessions, Register(s) \/ ProcessExit(s)
         PROVE  UNCHANGED <<inbox, email, elected>>
    BY <1>16 DEF Register, ProcessExit
  <1>17. CASE RuntimeEnds \/ Pause \/ Resume \/ UNCHANGED vars
    BY <1>1, <1>17 DEF RuntimeEnds, Pause, Resume, vars
  <1> QED
    BY <1>1, <1>2, <1>3, <1>4, <1>5, <1>6, <1>7, <1>8, <1>9, <1>10, <1>11,
       <1>12, <1>13, <1>14, <1>15, <1>16, <1>17
    DEF Next, ConsumerStep, WorkerOnly

\* Only an election gives an email a new link.
LEMMA LinkChange ==
    ASSUME Typed, [Next]_vars, NEW e \in Emails
    PROVE  \/ email'[e].link \in {email[e].link, NoRow}
           \/ \E u \in Workers : ApplyProcess(u)
                                 /\ email'[e].link = worker[u].row
PROOF
  <1> DEFINE Goal == \/ email'[e].link \in {email[e].link, NoRow}
                     \/ \E u \in Workers : ApplyProcess(u)
                                 /\ email'[e].link = worker[u].row
  <1>0. email \in [Emails -> EmailRow] /\ \A r \in Rows : EmailOf[r] \in Emails
    BY ConstantsAssumption DEF Typed, TypeOK
  <1>1. CASE UNCHANGED email
    BY <1>1
  <1>2. ASSUME NEW w \in Workers, ApplyProcess(w) \/ ApplySettle(w)
        PROVE  Goal
    <2>1. worker[w].row \in Rows
      BY <1>2 DEF ApplyProcess, ApplySettle, LeaseActive, LeaseHeld
    <2>2. /\ EmailFor(w) \in Emails
          /\ Shell(w).link \in {email[EmailFor(w)].link, NoRow}
      BY <1>0, <2>1, ShellFacts DEF EmailFor
    <2>3. PICK new \in EmailRow :
             /\ email' = [email EXCEPT ![EmailFor(w)] = new]
             /\ \/ new.link \in {Shell(w).link, NoRow}
                \/ ApplyProcess(w) /\ new.link = worker[w].row
      BY <1>2, ApplyProcessEmail, ApplySettleEmail
    <2> QED BY <1>0, <2>2, <2>3
  <1>3. ASSUME NEW w \in Workers,
               BeginEffect(w) \/ Finish(w) \/ FinishFailure(w)
        PROVE  Goal
    <2>1. CASE BeginEffect(w) /\ EffectGranted(w)
      <3>1. /\ EmailFor(w) \in Emails
            /\ email'[EmailFor(w)] = [email[EmailFor(w)] EXCEPT !.effects = TRUE]
            /\ \A f \in Emails \ {EmailFor(w)} : email'[f] = email[f]
        BY <2>1, BeginEffectFacts
      <3>2. email'[EmailFor(w)].link = email[EmailFor(w)].link
        BY <1>0, <3>1 DEF EmailRow
      <3> QED BY <3>1, <3>2
    <2>2. CASE /\ Finish(w) \/ FinishFailure(w)
               /\ AuthorizedAttempt(w) /\ worker[w].version < VMax
      <3>1. EmailFor(w) \in Emails
        BY <1>0, <2>2 DEF EmailFor, AuthorizedAttempt, LeaseActive, LeaseHeld
      <3>2. PICK new \in EmailRow :
               /\ email' = [email EXCEPT ![EmailFor(w)] = new]
               /\ new.link \in {email[EmailFor(w)].link, NoRow}
        BY <2>2, FinishEmail, FinishFailureFacts
      <3> QED BY <1>0, <3>1, <3>2
    <2>3. CASE UNCHANGED email
      BY <2>3
    <2> QED BY <1>3, <2>1, <2>2, <2>3 DEF BeginEffect, Finish, FinishFailure
  <1>4. ASSUME NEW r \in Rows, RecoverLinked(r)
        PROVE  Goal
    <2>1. PICK new \in EmailRow :
             /\ email' = [email EXCEPT ![EmailOf[r]] = new]
             /\ new.link = email[EmailOf[r]].link
      BY <1>4, RecoverLinkedFacts
    <2> QED BY <1>0, <2>1
  <1>5. ASSUME NEW r \in Rows, Requeue(r) \/ ReleaseQuarantine(r)
        PROVE  Goal
    <2>1. /\ email'[EmailOf[r]].link = email[EmailOf[r]].link
          /\ \A f \in Emails \ {EmailOf[r]} : email'[f] = email[f]
      BY <1>5, NextEpochFacts DEF Requeue, ReleaseQuarantine
    <2> QED BY <2>1
  <1>6. ASSUME NEW w \in Workers,
               \/ \E r \in Rows : Claim(w, r)
               \/ Complete(w) \/ Fail(w) \/ PerformEffect(w)
               \/ Renew(w) \/ HeartbeatLost(w) \/ WorkerOnly(w)
        PROVE  UNCHANGED email
    BY <1>6
    DEF Claim, Complete, Fail, PerformEffect, Renew, HeartbeatLost,
        WorkerOnly, ApplyRejected, ApplyReview, CompleteLocally,
        AuthorizeDetail, ReadDetail, AdapterReturns, AdapterFails,
        ConsumerDies
  <1>7. ASSUME NEW r \in Rows,
               Insert(r) \/ LeaseExpires(r) \/ RecoverUnlinked(r)
        PROVE  UNCHANGED email
    BY <1>7 DEF Insert, LeaseExpires, RecoverUnlinked
  <1>8. ASSUME NEW s \in Sessions, Register(s) \/ ProcessExit(s)
        PROVE  UNCHANGED email
    BY <1>8 DEF Register, ProcessExit
  <1>9. CASE RuntimeEnds \/ Pause \/ Resume \/ UNCHANGED vars
    BY <1>1, <1>9 DEF RuntimeEnds, Pause, Resume, vars
  <1> QED
    BY <1>1, <1>2, <1>3, <1>4, <1>5, <1>6, <1>7, <1>8, <1>9
    DEF Next, ConsumerStep, WorkerOnly

\* A consumer that settles or reviews its event leaves the email unlinked
\* from its row.
LEMMA SettlesUnlinked ==
    ASSUME Typed, Tokens, Links, NEW w \in Workers,
           ApplySettle(w) \/ ApplyReview(w), NEW r, r = worker[w].row
    PROVE  r \in Rows /\ email[EmailOf[r]].link # r
PROOF
  <1> DEFINE e == EmailOf[r]
             m == email[e]
  <1>0. LeaseHeld(w) /\ worker[w].pc = "claimed"
    BY DEF ApplySettle, ApplyReview, LeaseActive
  <1>1. /\ r \in Rows /\ e \in Emails /\ EmailFor(w) = e
        /\ LinkOK(e) /\ inbox[r].status = "leased"
        /\ Attempt(w) = RowAttempt(r) /\ worker[w].epoch = inbox[r].epoch
        /\ Attempt(w) \notin elected
    BY <1>0, HeldToken, ConstantsAssumption DEF EmailFor, Links, Tokens
  <1>2. SUFFICES ASSUME m.link = r PROVE FALSE
    BY <1>1
  <1>3. Story(e, m, inbox[r], FALSE)
    <2>1. Story(e, m, inbox[r], RowAttempt(r) \in elected)
      BY <1>1, <1>2, LinkUnique
    <2>2. (RowAttempt(r) \in elected) = FALSE
      BY <1>1
    <2> QED BY <2>1, <2>2
  <1>4. /\ m.status = "retry_wait" /\ m.createSeen /\ ~m.effects /\ ~m.deleted
        /\ KindOf[r] = "create" /\ m.linkEpoch = inbox[r].epoch
    BY <1>1, <1>2, <1>3 DEF Story, Linkable
  <1>5. CASE ApplyReview(w)
    BY <1>1, <1>4, <1>5 DEF ApplyReview, StickyOwnerMismatch
  <1>6. CASE ApplySettle(w)
    <2>1. ~DecisionFor(w).should_process
      BY <1>6 DEF ApplySettle
    <2>2. Owns(m, w)
      BY <1>1, <1>2, <1>4 DEF Owns
    <2> QED BY <1>1, <1>4, <2>1, <2>2, DecisionFacts
  <1> QED BY <1>5, <1>6

\* Every step keeps the consumers that settle a row away from its link.
LEMMA UnlinkedStep ==
    ASSUME Typed, Tokens, Links, [Next]_vars
    PROVE  Unlinked'
PROOF
  <1> SUFFICES ASSUME NEW w \in Workers,
                      worker'[w].pc \in {"applied", "review"},
                      Attempt(w)' = RowAttempt(worker[w].row)',
                      email'[EmailFor(w)'].link = worker'[w].row
               PROVE  FALSE
    BY DEF Unlinked
  <1>1. Keeps(w)
    <2>1. CASE \A v \in Workers, r \in Rows : ~Claim(v, r)
      BY <2>1, KeepsStep
    <2>2. ASSUME NEW v \in Workers, NEW r \in Rows, Claim(v, r)
          PROVE  Keeps(w)
      <3>1. v # w
        BY <2>2, ClaimFacts
      <3>2. worker'[w] = worker[w]
        BY <2>2, <3>1, ClaimFacts
      <3> QED BY <3>2 DEF Keeps, Attempt
    <2> QED BY <2>1, <2>2
  <1>2. /\ worker[w].pc \in Active /\ Attempt(w)' = Attempt(w)
        /\ \/ worker[w].pc \in {"applied", "review"}
           \/ ApplySettle(w) \/ ApplyReview(w)
    BY <1>1 DEF Keeps, Active, WorkerStates
  <1>3. PICK r \in Rows : r = worker[w].row
    BY <1>2 DEF Typed, Holding
  <1>4. worker'[w].row = r /\ EmailFor(w)' = EmailOf[r]
    BY <1>2, <1>3 DEF Attempt, EmailFor
  <1>5. EmailOf[r] \in Emails /\ NoRow \notin Rows
    BY ConstantsAssumption
  <1>6. Attempt(w) = RowAttempt(r)
    <2>1. /\ worker[w].epoch \in Nat /\ worker[w].attempts \in Nat
          /\ Past(r, worker[w].epoch, worker[w].attempts)
      BY <1>2, <1>3 DEF Tokens, Typed, TypeOK, Consumer
    <2>2. Forward(r)
      BY ForwardStep
    <2>3. /\ worker[w].epoch = inbox'[r].epoch
          /\ worker[w].attempts = inbox'[r].attempts
      BY <1>2, <1>4 DEF Attempt, RowAttempt
    <2>4. /\ worker[w].epoch = inbox[r].epoch
          /\ worker[w].attempts = inbox[r].attempts
      BY <2>1, <2>2, <2>3 DEF Forward
    <2> QED BY <1>3, <2>4 DEF Attempt, RowAttempt
  <1>7. email[EmailOf[r]].link # r
    <2>1. CASE worker[w].pc \in {"applied", "review"}
      BY <1>3, <1>6, <2>1 DEF Links, Unlinked, EmailFor
    <2>2. CASE ApplySettle(w) \/ ApplyReview(w)
      BY <1>3, <2>2, SettlesUnlinked
    <2> QED BY <1>2, <2>1, <2>2
  <1>8. email'[EmailOf[r]].link = r
    BY <1>4
  <1>9. PICK u \in Workers : ApplyProcess(u) /\ worker[u].row = r
    BY <1>5, <1>7, <1>8, LinkChange
  <1>10. LeaseHeld(u) /\ worker[u].pc = "claimed"
    BY <1>9 DEF ApplyProcess, LeaseActive
  <1>11. Attempt(u) = Attempt(w)
    BY <1>6, <1>9, <1>10, HeldToken
  <1>12. u = w
    BY <1>2, <1>10, <1>11 DEF Tokens, Active, WorkerStates
  <1>13. worker'[u].pc = "elected"
    BY <1>9 DEF ApplyProcess, Typed, TypeOK, Consumer
  <1> QED BY <1>12, <1>13

\* Initially no email is linked and no row is marked.
LEMMA LinksInit == Init => Links
PROOF
  BY DEF Init, Links, LinkOK, NoLink, MarkOK, Unlinked, AbsentEmail,
         AbsentRow, Blank, Linkable

\* Emails and their rows stay in step through claims, elections, source
\* deletes, finishes, failures, recovery, requeues and releases, and the
\* two effect markers of a linked email never disagree.
THEOREM LinksAgree ==
    Spec => [](LinkConsistent /\ LinkState /\ MarkersAgree /\ Unlinked)
PROOF
  <1>1. Typed /\ Tokens /\ Links /\ [Next]_vars => Links'
    BY LinkOKStep, UnlinkedStep DEF Links
  <1>2. Spec => []Typed
    BY TypeCorrect, PTL DEF Typed
  <1>3. Spec => []Links
    BY LinksInit, ClaimsUnique, <1>1, <1>2, PTL DEF Spec
  <1>4. Typed /\ Links =>
          LinkConsistent /\ LinkState /\ MarkersAgree /\ Unlinked
    BY LinksSplit DEF Typed
  <1> QED BY <1>2, <1>3, <1>4, PTL

-----------------------------------------------------------------------------
\* Layer 4: effects.

\* A step that grants no effect keeps the marker of an email, and lets a
\* marked one neither be cancelled nor enter processing.
Quiet(e) ==
    /\ email'[e].effects = email[e].effects
    /\ email'[e].status = "cancelled" =>
          email[e].status = "cancelled" \/ ~email[e].effects
    /\ email'[e].status = "processing" =>
          \/ email[e].status = "processing" /\ email'[e].link = email[e].link
          \/ ~email[e].effects

\* Every step but a granted effect is quiet.
LEMMA QuietStep ==
    ASSUME Typed, Links, [Next]_vars,
           \A w \in Workers : ~(BeginEffect(w) /\ EffectGranted(w)),
           NEW e \in Emails
    PROVE  Quiet(e)
PROOF
  <1>0. /\ email \in [Emails -> EmailRow] /\ LinkOK(e)
        /\ \A r \in Rows : EmailOf[r] \in Emails
    BY ConstantsAssumption DEF Typed, TypeOK, Links
  <1>1. CASE email'[e] = email[e]
    BY <1>1 DEF Quiet
  <1>2. ASSUME NEW w \in Workers, ApplyProcess(w) \/ ApplySettle(w)
        PROVE  Quiet(e)
    <2>1. worker[w].row \in Rows
      BY <1>2 DEF ApplyProcess, ApplySettle, LeaseActive, LeaseHeld
    <2>2. EmailFor(w) \in Emails
      BY <1>0, <2>1 DEF EmailFor
    <2>3. CASE e # EmailFor(w)
      <3>1. email'[e] = email[e]
        BY <1>0, <1>2, <2>2, <2>3, ApplyProcessEmail, ApplySettleEmail
      <3> QED BY <1>1, <3>1
    <2>4. CASE e = EmailFor(w)
      <3> DEFINE m == email[e]
                 shell == Shell(w)
      <3>1. /\ m.status # "absent" => shell = m
            /\ m.status = "absent" => shell.effects = FALSE
                                       /\ shell.status = "ingested"
        BY <2>1, <2>4, ShellFacts
      <3>2. m.status \in {"absent", "ingested"} => m.effects = FALSE
        BY <1>0 DEF LinkOK, NoLink, Story, Linkable, EmailRow
      <3>3. shell.effects = m.effects
        BY <3>1, <3>2
      <3>4. CASE ApplyProcess(w)
        <4>1. PICK new \in EmailRow :
                 email' = [email EXCEPT ![e] = new] /\ new.effects = shell.effects
                 /\ new.status = "processing"
          BY <2>4, <3>4, ApplyProcessEmail
        <4>2. email'[e] = new
          BY <1>0, <4>1
        <4>3. ~m.effects
          BY <2>1, <2>4, <3>2, <3>4, DecisionFacts DEF ApplyProcess
        <4> QED BY <3>3, <4>1, <4>2, <4>3 DEF Quiet
      <3>5. CASE ApplySettle(w)
        <4> DEFINE status == DecisionFor(w).new_status
                   deleting == KindOf[worker[w].row] = "delete"
                                 /\ ~shell.deleted
                   cancels == deleting /\ status = "cancelled"
        <4>1. PICK new \in EmailRow :
                 /\ email' = [email EXCEPT ![e] = new]
                 /\ new.status = IF deleting THEN status ELSE shell.status
                 /\ new.link = IF cancels THEN NoRow ELSE shell.link
                 /\ new.effects = shell.effects
          BY <2>4, <3>5, ApplySettleEmail
        <4>2. email'[e] = new
          BY <1>0, <4>1
        <4>3. deleting =>
                \/ status = "cancelled" /\ m.status = "absent"
                \/ status = "cancelled" /\ ~m.effects
                \/ status = m.status /\ m.status # "absent"
          BY <2>1, <2>4, <3>5, DecisionFacts DEF ApplySettle
        <4> HIDE DEF m, shell, status, deleting
        <4>4. new.status = "cancelled" => m.status = "cancelled" \/ ~m.effects
          BY <3>1, <3>2, <4>1, <4>3
        <4>5. new.status = "processing" =>
                 m.status = "processing" /\ new.link = m.link
          BY <3>1, <4>1, <4>3
        <4> QED BY <3>3, <4>1, <4>2, <4>4, <4>5 DEF Quiet, m
      <3> QED BY <1>2, <3>4, <3>5
    <2> QED BY <2>3, <2>4
  <1>3. ASSUME NEW f \in Emails, NEW new \in EmailRow,
               email' = [email EXCEPT ![f] = new],
               new.effects = email[f].effects,
               new.status \notin {"cancelled", "processing"}
        PROVE  Quiet(e)
    BY <1>0, <1>3 DEF Quiet
  <1>4. ASSUME NEW w \in Workers, Finish(w) \/ FinishFailure(w)
        PROVE  Quiet(e)
    <2>1. CASE AuthorizedAttempt(w) /\ worker[w].version < VMax
      <3>1. EmailFor(w) \in Emails
        BY <2>1, AuthorizedFacts
      <3>2. CASE Finish(w)
        <4>1. worker[w].result \in Completions
          BY <3>2 DEF Finish, Typed, Holding
        <4>2. FinishStatus(w) \notin {"cancelled", "processing"}
          BY <4>1, FinishStatusTyped
        <4> QED BY <1>3, <2>1, <3>1, <3>2, <4>2, FinishEmail
      <3>3. CASE FinishFailure(w)
        BY <1>3, <2>1, <3>1, <3>3, FinishFailureFacts DEF FailureDecisions
      <3> QED BY <1>4, <3>2, <3>3
    <2>2. CASE ~(AuthorizedAttempt(w) /\ worker[w].version < VMax)
      BY <1>1, <1>4, <2>2 DEF Finish, FinishFailure
    <2> QED BY <2>1, <2>2
  <1>5. ASSUME NEW r \in Rows, RecoverLinked(r)
        PROVE  Quiet(e)
    BY <1>0, <1>3, <1>5, RecoverLinkedFacts DEF FailureDecisions
  <1>6. ASSUME NEW r \in Rows, Requeue(r) \/ ReleaseQuarantine(r)
        PROVE  Quiet(e)
    <2>1. /\ email'[EmailOf[r]].effects = email[EmailOf[r]].effects
          /\ email'[EmailOf[r]].status = "retry_wait"
          /\ \A f \in Emails \ {EmailOf[r]} : email'[f] = email[f]
      BY <1>6, NextEpochFacts DEF Requeue, ReleaseQuarantine
    <2> QED BY <2>1 DEF Quiet
  <1>7. ASSUME NEW w \in Workers,
               \/ \E r \in Rows : Claim(w, r)
               \/ Complete(w) \/ Fail(w) \/ PerformEffect(w)
               \/ Renew(w) \/ HeartbeatLost(w) \/ WorkerOnly(w)
               \/ BeginEffect(w)
        PROVE  UNCHANGED email
    BY <1>7
    DEF Claim, Complete, Fail, PerformEffect, Renew, HeartbeatLost,
        WorkerOnly, ApplyRejected, ApplyReview, CompleteLocally,
        AuthorizeDetail, ReadDetail, AdapterReturns, AdapterFails,
        ConsumerDies, BeginEffect
  <1>8. ASSUME NEW r \in Rows,
               Insert(r) \/ LeaseExpires(r) \/ RecoverUnlinked(r)
        PROVE  UNCHANGED email
    BY <1>8 DEF Insert, LeaseExpires, RecoverUnlinked
  <1>9. ASSUME NEW s \in Sessions, Register(s) \/ ProcessExit(s)
        PROVE  UNCHANGED email
    BY <1>9 DEF Register, ProcessExit
  <1>10. CASE RuntimeEnds \/ Pause \/ Resume \/ UNCHANGED vars
    BY <1>1, <1>10 DEF RuntimeEnds, Pause, Resume, vars
  <1> QED
    BY <1>1, <1>2, <1>4, <1>5, <1>6, <1>7, <1>8, <1>9, <1>10
    DEF Next, ConsumerStep, WorkerOnly

\* Only a granted effect adds an authorization, and only a consumer in the
\* middle of an effect performs one.
LEMMA HistoryStep ==
    ASSUME [Next]_vars
    PROVE  /\ \/ authorized' = authorized
              \/ \E w \in Workers : BeginEffect(w) /\ EffectGranted(w)
           /\ \/ performed' = performed
              \/ \E w \in Workers : PerformEffect(w)
PROOF
  <1>1. ASSUME NEW w \in Workers, BeginEffect(w)
        PROVE  /\ performed' = performed
               /\ authorized' = authorized \/ EffectGranted(w)
    BY <1>1 DEF BeginEffect
  <1>2. ASSUME NEW w \in Workers, PerformEffect(w)
        PROVE  authorized' = authorized
    BY <1>2 DEF PerformEffect
  <1>3. ASSUME NEW w \in Workers,
               ConsumerStep(w), ~BeginEffect(w), ~PerformEffect(w)
        PROVE  authorized' = authorized /\ performed' = performed
    BY <1>3
    DEF ConsumerStep, ApplyRejected, ApplyReview, ApplyProcess, ApplySettle,
        Complete, Fail, CompleteLocally, AuthorizeDetail, ReadDetail,
        AdapterReturns, AdapterFails, Finish, FinishFailure
  <1>4. ASSUME NEW w \in Workers,
               Renew(w) \/ HeartbeatLost(w) \/ ConsumerDies(w)
        PROVE  authorized' = authorized /\ performed' = performed
    BY <1>4 DEF Renew, HeartbeatLost, ConsumerDies
  <1>5. ASSUME NEW r \in Rows,
               \/ Insert(r) \/ LeaseExpires(r)
               \/ RecoverLinked(r) \/ RecoverUnlinked(r)
               \/ Requeue(r) \/ ReleaseQuarantine(r)
        PROVE  authorized' = authorized /\ performed' = performed
    BY <1>5 DEF Insert, LeaseExpires, RecoverLinked, RecoverUnlinked,
                Requeue, ReleaseQuarantine, NextEpoch
  <1>6. ASSUME NEW s \in Sessions, Register(s) \/ ProcessExit(s)
        PROVE  authorized' = authorized /\ performed' = performed
    BY <1>6 DEF Register, ProcessExit
  <1>7. CASE RuntimeEnds \/ Pause \/ Resume \/ UNCHANGED vars
    BY <1>7 DEF RuntimeEnds, Pause, Resume, vars
  <1>8. ASSUME NEW w \in Workers, NEW r \in Rows, Claim(w, r)
        PROVE  authorized' = authorized /\ performed' = performed
    BY <1>8 DEF Claim
  <1> QED BY <1>1, <1>2, <1>3, <1>4, <1>5, <1>6, <1>7, <1>8 DEF Next

\* While an email stays in processing on one row, the row keeps its token:
\* a new attempt would need a receipt that only an election writes.
LEMMA ProcessingToken ==
    ASSUME Typed, Tokens, Links, Links', [Next]_vars,
           NEW e \in Emails, NEW r, r = email[e].link,
           email[e].status = "processing",
           email'[e].status = "processing", email'[e].link = r
    PROVE  RowAttempt(r)' = RowAttempt(r)
PROOF
  <1>1. CASE \E w \in Workers : ApplyProcess(w)
    BY <1>1 DEF ApplyProcess, RowAttempt
  <1>2. CASE \A w \in Workers : ~ApplyProcess(w)
    <2>1. elected' = elected
      BY <1>2, ElectedStep
    <2>2. r \in Rows
      BY DEF Links, LinkOK, NoLink, Linkable
    <2>3. RowAttempt(r)' \in elected
      BY <2>1 DEF Links, LinkOK, NoLink, Linkable, Story
    <2> DEFINE epoch == inbox'[r].epoch
               attempts == inbox'[r].attempts
    <2>4. epoch \in Nat /\ attempts \in Nat
      BY <2>2, TypedStep DEF Typed, TypeOK, InboxRow
    <2>5. RowAttempt(r)' = <<r, epoch, attempts>>
      BY DEF RowAttempt
    <2>6. Past(r, epoch, attempts)
      BY <2>3, <2>5 DEF Tokens
    <2>7. Forward(r)
      BY <2>2, ForwardStep
    <2>8. epoch = inbox[r].epoch /\ attempts = inbox[r].attempts
      BY <2>4, <2>6, <2>7 DEF Forward
    <2> QED BY <2>5, <2>8 DEF RowAttempt
  <1> QED BY <1>1, <1>2

\* The authorizations of one email.
Granted(e) ==
    /\ ~email[e].effects => authorized[e] = {}
    /\ email[e].status = "cancelled" => ~email[e].effects
    /\ email[e].status = "processing" =>
          authorized[e] \subseteq {RowAttempt(email[e].link)}
    /\ \A a, b \in authorized[e] : a = b

\* A step that grants nothing keeps them.
LEMMA GrantedQuiet ==
    ASSUME Typed, Tokens, Links, Links', [Next]_vars,
           \A w \in Workers : ~(BeginEffect(w) /\ EffectGranted(w)),
           NEW e \in Emails, Granted(e)
    PROVE  Granted(e)'
PROOF
  <1>1. Quiet(e)
    BY QuietStep
  <1>2. authorized' = authorized
    BY HistoryStep
  <1>3. ASSUME email'[e].status = "processing"
        PROVE  authorized[e] \subseteq {RowAttempt(email[e].link)'}
    <2>1. CASE ~email[e].effects
      BY <2>1 DEF Granted
    <2>2. CASE email[e].status = "processing" /\ email'[e].link = email[e].link
      <3> DEFINE r == email[e].link
      <3>1. PICK q : q = r
        OBVIOUS
      <3>2. RowAttempt(q)' = RowAttempt(q)
        BY <1>3, <2>2, <3>1, ProcessingToken
      <3>3. authorized[e] \subseteq {RowAttempt(q)}
        BY <2>2, <3>1 DEF Granted
      <3>4. email'[e].link = q
        BY <2>2, <3>1
      <3>5. RowAttempt(email[e].link)' = RowAttempt(q)'
        BY <3>4 DEF RowAttempt
      <3> QED BY <3>2, <3>3, <3>5
    <2> QED BY <1>1, <1>3, <2>1, <2>2 DEF Quiet
  <1>4. /\ ~email'[e].effects => authorized[e] = {}
        /\ email'[e].status = "cancelled" => ~email'[e].effects
    BY <1>1 DEF Quiet, Granted
  <1> QED BY <1>2, <1>3, <1>4 DEF Granted

\* A granted effect is authorized for the attempt that processes the email.
LEMMA GrantedBegin ==
    ASSUME Typed, Links, NEW w \in Workers, BeginEffect(w), EffectGranted(w),
           NEW e \in Emails, Granted(e)
    PROVE  Granted(e)'
PROOF
  <1> DEFINE r == worker[w].row
  <1>1. /\ r \in Rows /\ EmailFor(w) = EmailOf[r] /\ EmailOf[r] \in Emails
        /\ email[EmailOf[r]].link = r
        /\ email[EmailOf[r]].status = "processing"
        /\ Attempt(w) = RowAttempt(r)
    BY AuthorizedFacts DEF EffectGranted
  <1>2. /\ \A q \in Rows : SameRow(inbox'[q], inbox[q])
        /\ email'[EmailOf[r]] = [email[EmailOf[r]] EXCEPT !.effects = TRUE]
        /\ \A f \in Emails \ {EmailOf[r]} : email'[f] = email[f]
        /\ authorized' = [authorized EXCEPT
                             ![EmailOf[r]] = @ \union {Attempt(w)}]
    BY <1>1, BeginEffectFacts DEF SameRow
  <1>3. \A q \in Rows : RowAttempt(q)' = RowAttempt(q)
    BY <1>2 DEF SameRow, RowAttempt
  <1>4. CASE e # EmailOf[r]
    <2>1. email'[e] = email[e] /\ authorized'[e] = authorized[e]
      BY <1>2, <1>4 DEF Typed, TypeOK
    <2>2. email[e].status = "processing" => email[e].link \in Rows
      BY DEF Links, LinkOK, NoLink, Linkable
    <2> QED BY <1>3, <2>1, <2>2 DEF Granted
  <1>5. CASE e = EmailOf[r]
    <2>1. email[e] \in EmailRow
      BY DEF Typed, TypeOK
    <2>2. /\ email'[e].effects /\ email'[e].status = "processing"
          /\ email'[e].link = r
      BY <1>1, <1>2, <1>5, <2>1 DEF EmailRow
    <2>3. authorized[e] \subseteq {RowAttempt(r)}
      BY <1>1, <1>5 DEF Granted
    <2>4. authorized'[e] = authorized[e] \union {RowAttempt(r)}
      BY <1>1, <1>2, <1>5 DEF Typed, TypeOK
    <2>5. authorized'[e] = {RowAttempt(r)}
      BY <2>3, <2>4
    <2>6. RowAttempt(email[e].link)' = RowAttempt(r)
      BY <1>1, <1>3, <2>2 DEF RowAttempt
    <2> QED BY <2>2, <2>5, <2>6 DEF Granted
  <1> QED BY <1>4, <1>5

\* An authorization is never taken back.
LEMMA AuthorizedGrows ==
    ASSUME Typed, [Next]_vars
    PROVE  \A e \in Emails : authorized[e] \subseteq authorized'[e]
PROOF
  <1>1. CASE authorized' = authorized
    BY <1>1
  <1>2. ASSUME NEW w \in Workers, BeginEffect(w), EffectGranted(w),
               NEW e \in Emails
        PROVE  authorized[e] \subseteq authorized'[e]
    <2>1. PICK f \in Emails : authorized' = [authorized EXCEPT
                                   ![f] = authorized[f] \union {Attempt(w)}]
      BY <1>2, BeginEffectFacts
    <2>2. authorized'[e] = IF e = f THEN authorized[e] \union {Attempt(w)}
                                    ELSE authorized[e]
      BY <2>1 DEF Typed, TypeOK
    <2> QED BY <2>2
  <1> QED BY <1>1, <1>2, HistoryStep

\* A consumer in the middle of an effect keeps its authorization, and a
\* consumer that enters one has just been given it.
LEMMA EffectingStep ==
    ASSUME Typed, Effecting, [Next]_vars
    PROVE  Effecting'
PROOF
  <1>1. \A e \in Emails : authorized[e] \subseteq authorized'[e]
    BY AuthorizedGrows
  <1> SUFFICES ASSUME NEW v \in Workers, worker'[v].pc = "effect"
               PROVE  Attempt(v)' \in authorized'[EmailFor(v)']
    BY DEF Effecting
  <1>2. CASE \E w \in Workers, r \in Rows : Claim(w, r)
    <2>1. PICK w \in Workers, r \in Rows : Claim(w, r)
      BY <1>2
    <2>2. worker'[w].pc = "claimed" /\ \A u \in Workers \ {w} : worker'[u] = worker[u]
      BY <2>1, ClaimFacts
    <2>3. worker'[v] = worker[v]
      BY <2>2
    <2>4. Attempt(v) \in authorized[EmailFor(v)]
      BY <2>3 DEF Effecting
    <2>5. authorized' = authorized
      BY <2>1 DEF Claim
    <2> QED BY <2>3, <2>4, <2>5 DEF Attempt, EmailFor
  <1>3. CASE \A w \in Workers, r \in Rows : ~Claim(w, r)
    <2>1. Keeps(v)
      BY <1>3, KeepsStep
    <2>2. /\ worker[v].pc \in Active /\ Attempt(v)' = Attempt(v)
          /\ worker[v].pc = "effect" \/ BeginEffect(v)
      BY <2>1 DEF Keeps, Active, WorkerStates
    <2>3. EmailFor(v)' = EmailFor(v) /\ EmailFor(v) \in Emails
      BY <2>2, ConstantsAssumption DEF Attempt, EmailFor, Typed, Holding
    <2>4. CASE BeginEffect(v)
      <3>1. EffectGranted(v)
        BY <2>4 DEF BeginEffect, Becomes, Blank, Typed, TypeOK
      <3>2. authorized' = [authorized EXCEPT
                              ![EmailFor(v)] = @ \union {Attempt(v)}]
        BY <2>4, <3>1, BeginEffectFacts
      <3>3. Attempt(v) \in authorized'[EmailFor(v)]
        BY <2>3, <3>2 DEF Typed, TypeOK
      <3> QED BY <2>2, <2>3, <3>3
    <2>5. CASE worker[v].pc = "effect"
      BY <1>1, <2>2, <2>3, <2>5 DEF Effecting
    <2> QED BY <2>2, <2>4, <2>5
  <1> QED BY <1>2, <1>3

\* Every step keeps what the authorizations and the effects say.
LEMMA EffectsStep ==
    ASSUME Typed, Tokens, Links, Links', EffectState, Effecting, [Next]_vars
    PROVE  EffectState' /\ Effecting'
PROOF
  <1>1. ASSUME NEW e \in Emails
        PROVE  Granted(e)'
    <2>1. Granted(e)
      BY DEF EffectState, Granted
    <2> QED BY <2>1, GrantedQuiet, GrantedBegin
  <1>2. ASSUME NEW e \in Emails
        PROVE  performed'[e] \subseteq authorized'[e]
    <2>1. performed[e] \subseteq authorized[e]
      BY DEF EffectState
    <2>2. CASE performed' = performed
      BY <2>1, <2>2, AuthorizedGrows
    <2>3. ASSUME NEW w \in Workers, PerformEffect(w)
          PROVE  performed'[e] \subseteq authorized'[e]
      <3>1. /\ authorized' = authorized
            /\ performed' = [performed EXCEPT
                                ![EmailFor(w)] = @ \union {Attempt(w)}]
            /\ worker[w].pc = "effect"
        BY <2>3 DEF PerformEffect
      <3>2. Attempt(w) \in authorized[EmailFor(w)]
        BY <3>1 DEF Effecting
      <3> QED BY <2>1, <3>1, <3>2 DEF Typed, TypeOK
    <2> QED BY <2>2, <2>3, HistoryStep
  <1>3. EffectState'
    BY <1>1, <1>2 DEF EffectState, Granted
  <1> QED BY <1>3, EffectingStep

\* Initially nothing is authorized.
LEMMA EffectsInit == Init => EffectState /\ Effecting
PROOF
  BY DEF Init, EffectState, Effecting, AbsentEmail, Blank

-----------------------------------------------------------------------------
\* Layer 5: what an email remembers.

\* What a step may make of an email m: it keeps what was taken up, and a
\* new status is a shell, a cancellation or one of a CREATE's processing.
Evolves(m, n) ==
    /\ m.createSeen => n.createSeen
    /\ m.deleted => n.deleted
    /\ \/ n.status = m.status /\ n.status # "absent"
       \/ n = m
       \/ m.status = "absent" /\ n.status = "ingested"
       \/ n.status = "cancelled" /\ n.deleted
       \/ /\ m.status \notin SettledStatuses
          /\ n.status \notin {"absent", "ingested"} /\ n.createSeen

\* An email that is linked to a row has seen a CREATE and is not settled.
LEMMA LinkedSeen ==
    ASSUME Links, NEW e \in Emails, email[e].link \in Rows
    PROVE  email[e].createSeen /\ email[e].status \notin SettledStatuses
PROOF
  <1>1. LinkOK(e) /\ NoRow \notin Rows
    BY ConstantsAssumption DEF Links
  <1>2. Story(e, email[e], inbox[email[e].link],
              RowAttempt(email[e].link) \in elected)
    BY <1>1 DEF LinkOK, NoLink
  <1> QED BY <1>2 DEF Story, Linkable, SettledStatuses

\* An event evolves the email it is applied to.
LEMMA ApplyEvolves ==
    ASSUME Typed, \A e \in Emails : Memory(email[e]), NEW w \in Workers,
           ApplyProcess(w) \/ ApplySettle(w)
    PROVE  \A e \in Emails : Evolves(email[e], email'[e])
PROOF
  <1> DEFINE e == EmailFor(w)
             m == email[e]
             d == DecisionFor(w)
             deleting == KindOf[worker[w].row] = "delete" /\ ~Shell(w).deleted
  <1>1. worker[w].row \in Rows
    BY DEF ApplyProcess, ApplySettle, LeaseActive, LeaseHeld
  <1>2. e \in Emails /\ email \in [Emails -> EmailRow]
    BY <1>1, ShellTyped DEF Typed, TypeOK
  <1>3. /\ m.createSeen => Shell(w).createSeen
        /\ m.deleted => Shell(w).deleted
    <2>1. CASE m.status = "absent"
      BY <1>2, <2>1 DEF Memory, TakenUp
    <2>2. CASE m.status # "absent"
      BY <1>1, <2>2, ShellFacts
    <2> QED BY <2>1, <2>2
  <1>4. CASE ApplyProcess(w)
    <2>1. PICK new \in EmailRow :
             /\ email' = [email EXCEPT ![e] = new]
             /\ new.status = "processing" /\ new.createSeen
             /\ new.deleted = Shell(w).deleted
      BY <1>4, ApplyProcessEmail
    <2>2. m.status \notin SettledStatuses
      <3>1. d.should_process
        BY <1>4 DEF ApplyProcess
      <3> QED BY <1>1, <3>1, DecisionFacts DEF SettledStatuses
    <2>3. Evolves(m, new)
      BY <1>3, <2>1, <2>2 DEF Evolves
    <2> QED BY <1>2, <2>1, <2>3 DEF Evolves
  <1>5. CASE ApplySettle(w)
    <2>1. PICK new \in EmailRow :
             /\ email' = [email EXCEPT ![e] = new]
             /\ new.status = IF deleting THEN d.new_status ELSE Shell(w).status
             /\ new.deleted = (deleting \/ Shell(w).deleted)
             /\ new.createSeen = Shell(w).createSeen
      BY <1>5, ApplySettleEmail
    <2>2. Evolves(m, new)
      <3>1. CASE deleting
        <4>1. /\ \/ d.new_status = "cancelled"
                 \/ d.new_status = m.status /\ m.status # "absent"
          <5>1. ~d.should_process
            BY <1>5 DEF ApplySettle
          <5> QED BY <1>1, <3>1, <5>1, DecisionFacts
        <4>2. new.deleted /\ new.status = d.new_status
          BY <2>1, <3>1
        <4> QED BY <1>3, <2>1, <4>1, <4>2 DEF Evolves
      <3>2. CASE ~deleting
        <4>1. /\ new.status = Shell(w).status
              /\ new.deleted = Shell(w).deleted
          <5>1. Shell(w).deleted \in BOOLEAN
            BY <1>1, ShellTyped DEF EmailRow
          <5> QED BY <2>1, <3>2, <5>1
        <4>2. \/ m.status = "absent" /\ new.status = "ingested"
              \/ m.status # "absent" /\ new.status = m.status
          BY <1>1, <4>1, ShellFacts
        <4> QED BY <1>3, <2>1, <4>1, <4>2 DEF Evolves
      <3> QED BY <3>1, <3>2
    <2> QED BY <1>2, <2>1, <2>2 DEF Evolves
  <1> QED BY <1>4, <1>5

\* Every step evolves every email: only its own attempt, recovery and the
\* operators touch a linked email, only events touch the others.
LEMMA EvolvesStep ==
    ASSUME Typed, Links, \A e \in Emails : Memory(email[e]), [Next]_vars
    PROVE  \A e \in Emails : Evolves(email[e], email'[e])
PROOF
  <1> DEFINE Goal == \A e \in Emails : Evolves(email[e], email'[e])
  <1>0. /\ email \in [Emails -> EmailRow] /\ NoRow \notin Rows
        /\ \A r \in Rows : EmailOf[r] \in Emails
    BY ConstantsAssumption DEF Typed, TypeOK
  <1>1. CASE UNCHANGED email
    BY <1>1 DEF Evolves
  <1>2. ASSUME NEW w \in Workers, ApplyProcess(w) \/ ApplySettle(w)
        PROVE  Goal
    BY <1>2, ApplyEvolves
  <1>3. ASSUME NEW e \in Emails, email[e].link \in Rows, NEW n \in EmailRow,
               email' = [email EXCEPT ![e] = n],
               n.createSeen = email[e].createSeen,
               n.deleted = email[e].deleted,
               n.status \notin {"absent", "ingested"}
        PROVE  Goal
    <2>1. email[e].createSeen /\ email[e].status \notin SettledStatuses
      BY <1>3, LinkedSeen
    <2>2. Evolves(email[e], n)
      BY <1>3, <2>1 DEF Evolves
    <2> QED BY <1>0, <1>3, <2>2 DEF Evolves
  <1>4. ASSUME NEW w \in Workers, BeginEffect(w)
        PROVE  Goal
    <2>1. CASE EffectGranted(w)
      <3>1. /\ EmailFor(w) \in Emails
            /\ email'[EmailFor(w)] =
                  [email[EmailFor(w)] EXCEPT !.effects = TRUE]
            /\ \A f \in Emails \ {EmailFor(w)} : email'[f] = email[f]
        BY <1>4, <2>1, BeginEffectFacts
      <3>2. email[EmailFor(w)].status = "processing"
        BY <2>1 DEF EffectGranted, AuthorizedAttempt
      <3>3. /\ email'[EmailFor(w)].status = "processing"
            /\ email'[EmailFor(w)].createSeen = email[EmailFor(w)].createSeen
            /\ email'[EmailFor(w)].deleted = email[EmailFor(w)].deleted
        BY <1>0, <3>1, <3>2 DEF EmailRow
      <3>4. Evolves(email[EmailFor(w)], email'[EmailFor(w)])
        BY <3>2, <3>3 DEF Evolves
      <3> QED BY <3>1, <3>4 DEF Evolves
    <2>2. CASE ~EffectGranted(w)
      BY <1>1, <1>4, <2>2 DEF BeginEffect
    <2> QED BY <2>1, <2>2
  <1>5. ASSUME NEW w \in Workers, Finish(w) \/ FinishFailure(w)
        PROVE  Goal
    <2>1. CASE AuthorizedAttempt(w) /\ worker[w].version < VMax
      <3>1. /\ EmailFor(w) \in Emails
            /\ email[EmailFor(w)].link \in Rows
        BY <2>1, AuthorizedFacts
      <3>2. PICK n \in EmailRow :
               /\ email' = [email EXCEPT ![EmailFor(w)] = n]
               /\ n.createSeen = email[EmailFor(w)].createSeen
               /\ n.deleted = email[EmailFor(w)].deleted
               /\ \/ n.status \in FailureDecisions
                  \/ Finish(w) /\ n.status = FinishStatus(w)
        BY <1>5, <2>1, FinishEmail, FinishFailureFacts
      <3>3. n.status \notin {"absent", "ingested"}
        <4>1. Finish(w) => worker[w].result \in Completions
          BY DEF Typed, Holding, Finish
        <4> QED BY <3>2, <4>1, FinishStatusTyped DEF FailureDecisions
      <3> QED BY <1>3, <3>1, <3>2, <3>3
    <2>2. CASE ~(AuthorizedAttempt(w) /\ worker[w].version < VMax)
      BY <1>1, <1>5, <2>2 DEF Finish, FinishFailure
    <2> QED BY <2>1, <2>2
  <1>6. ASSUME NEW r \in Rows, RecoverLinked(r)
        PROVE  Goal
    <2>1. /\ EmailOf[r] \in Emails /\ email[EmailOf[r]].link \in Rows
      BY <1>0, <1>6 DEF RecoverLinked
    <2>2. PICK n \in EmailRow :
             /\ email' = [email EXCEPT ![EmailOf[r]] = n]
             /\ n.createSeen = email[EmailOf[r]].createSeen
             /\ n.deleted = email[EmailOf[r]].deleted
             /\ n.status \in FailureDecisions
      BY <1>6, RecoverLinkedFacts
    <2>3. n.status \notin {"absent", "ingested"}
      BY <2>2 DEF FailureDecisions
    <2> QED BY <1>3, <2>1, <2>2, <2>3
  <1>7. ASSUME NEW r \in Rows, Requeue(r) \/ ReleaseQuarantine(r)
        PROVE  Goal
    <2>1. /\ NextEpoch(r) /\ email[EmailOf[r]].link = r
          /\ EmailOf[r] \in Emails
      BY <1>0, <1>7 DEF Requeue, ReleaseQuarantine
    <2>2. /\ email'[EmailOf[r]].status = "retry_wait"
          /\ email'[EmailOf[r]].createSeen = email[EmailOf[r]].createSeen
          /\ email'[EmailOf[r]].deleted = email[EmailOf[r]].deleted
          /\ \A f \in Emails \ {EmailOf[r]} : email'[f] = email[f]
      BY <2>1, NextEpochFacts
    <2>3. /\ email[EmailOf[r]].createSeen
          /\ email[EmailOf[r]].status \notin SettledStatuses
      BY <2>1, LinkedSeen
    <2>4. Evolves(email[EmailOf[r]], email'[EmailOf[r]])
      BY <2>2, <2>3 DEF Evolves
    <2> QED BY <2>2, <2>4 DEF Evolves
  <1>8. ASSUME NEW w \in Workers,
               \/ \E r \in Rows : Claim(w, r)
               \/ Complete(w) \/ Fail(w) \/ PerformEffect(w)
               \/ Renew(w) \/ HeartbeatLost(w) \/ WorkerOnly(w)
        PROVE  UNCHANGED email
    BY <1>8
    DEF Claim, Complete, Fail, PerformEffect, Renew, HeartbeatLost,
        WorkerOnly, ApplyRejected, ApplyReview, CompleteLocally,
        AuthorizeDetail, ReadDetail, AdapterReturns, AdapterFails,
        ConsumerDies
  <1>9. ASSUME NEW r \in Rows,
               Insert(r) \/ LeaseExpires(r) \/ RecoverUnlinked(r)
        PROVE  UNCHANGED email
    BY <1>9 DEF Insert, LeaseExpires, RecoverUnlinked
  <1>10. ASSUME NEW s \in Sessions, Register(s) \/ ProcessExit(s)
         PROVE  UNCHANGED email
    BY <1>10 DEF Register, ProcessExit
  <1>11. CASE RuntimeEnds \/ Pause \/ Resume \/ UNCHANGED vars
    BY <1>1, <1>11 DEF RuntimeEnds, Pause, Resume, vars
  <1> QED
    BY <1>1, <1>2, <1>4, <1>5, <1>6, <1>7, <1>8, <1>9, <1>10, <1>11
    DEF Next, ConsumerStep, WorkerOnly

\* A row that is completed by this step was dropped at its insertion by
\* policy, completed by a consumer that applied its event, or finished.
LEMMA CompletedBy ==
    ASSUME Typed, [Next]_vars, NEW r \in Rows,
           inbox[r].status # "completed", inbox'[r].status = "completed"
    PROVE  \/ PolicyOf[r] \notin ClaimablePolicies
           \/ \E w \in Workers : Complete(w) /\ worker[w].row = r
           \/ \E w \in Workers : /\ Finish(w) /\ AuthorizedAttempt(w)
                                 /\ worker[w].row = r
PROOF
  <1> DEFINE Goal == \/ PolicyOf[r] \notin ClaimablePolicies
                     \/ \E w \in Workers : Complete(w) /\ worker[w].row = r
                     \/ \E w \in Workers : /\ Finish(w) /\ AuthorizedAttempt(w)
                                           /\ worker[w].row = r
  <1>0. /\ inbox \in [Rows -> InboxRow]
        /\ FailureDecisions \subseteq InboxStatuses
        /\ "completed" \notin FailureDecisions
        /\ \A q \in Rows : inbox[q].attempts + 1 \in Nat
    BY DEF Typed, TypeOK, InboxRow, FailureDecisions, InboxStatuses
  <1>1. CASE inbox'[r].status = inbox[r].status
    BY <1>1
  <1>2. ASSUME NEW q \in Rows, NEW status \in InboxStatuses,
               status # "completed", NEW attempts \in Nat,
               inbox' = Released(q, status, attempts)
        PROVE  inbox'[r].status \in {inbox[r].status, status}
    BY <1>0, <1>2, ReleasedFacts
  <1>3. ASSUME NEW w \in Workers, NEW q \in Rows, Claim(w, q)
        PROVE  Goal
    <2>1. inbox'[q].status = "leased"
          /\ \A p \in Rows \ {q} : inbox'[p] = inbox[p]
      BY <1>3, ClaimFacts
    <2> QED BY <1>1, <2>1
  <1>4. ASSUME NEW w \in Workers, BeginEffect(w)
        PROVE  inbox'[r].status = inbox[r].status
    <2>1. CASE EffectGranted(w)
      BY <1>4, <2>1, BeginEffectFacts DEF SameRow
    <2>2. CASE ~EffectGranted(w)
      BY <1>4, <2>2 DEF BeginEffect
    <2> QED BY <2>1, <2>2
  <1>5. ASSUME NEW w \in Workers, Renew(w) \/ HeartbeatLost(w)
        PROVE  inbox'[r].status = inbox[r].status
    <2>1. CASE UNCHANGED inbox
      BY <2>1
    <2>2. CASE ~UNCHANGED inbox
      <3>1. /\ worker[w].row \in Rows
            /\ inbox' = [inbox EXCEPT ![worker[w].row].until = @ + 1]
        BY <1>5, <2>2 DEF Renew, HeartbeatLost, Renewable, LeaseActive,
                          LeaseHeld
      <3> QED BY <3>1, LeaseFacts DEF SameRow
    <2> QED BY <2>1, <2>2
  <1>6. ASSUME NEW q \in Rows, LeaseExpires(q)
        PROVE  inbox'[r].status = inbox[r].status
    BY <1>6, LeaseFacts DEF LeaseExpires, SameRow
  <1>7. ASSUME NEW q \in Rows, Insert(q)
        PROVE  Goal
    <2>1. CASE q # r
      <3>1. inbox'[r] = inbox[r]
        BY <1>0, <1>7, <2>1 DEF Insert
      <3> QED BY <1>1, <3>1
    <2>2. CASE q = r
      <3>1. PolicyOf[r] = "ignored"
        BY <1>0, <1>7, <2>2 DEF Insert, InboxRow
      <3> QED BY <3>1 DEF ClaimablePolicies
    <2> QED BY <2>1, <2>2
  <1>8. ASSUME NEW w \in Workers, Complete(w) \/ Finish(w)
        PROVE  Goal
    <2>1. CASE UNCHANGED inbox
      BY <1>1, <2>1
    <2>2. CASE ~UNCHANGED inbox
      <3>1. Finish(w) => AuthorizedAttempt(w)
        BY <2>2 DEF Finish
      <3>2. LeaseHeld(w)
        BY <1>8, <2>2, <3>1 DEF Complete, AuthorizedAttempt, LeaseActive
      <3>3. worker[w].row \in Rows
        BY <3>2, HeldToken
      <3>4. CASE worker[w].row = r
        BY <1>8, <3>1, <3>4
      <3>5. CASE worker[w].row # r
        <4>1. \E status, attempts :
                 inbox' = Released(worker[w].row, status, attempts)
          BY <1>8, <2>2 DEF Complete, Finish
        <4>2. inbox'[r] = inbox[r]
          BY <1>0, <3>3, <3>5, <4>1 DEF Released
        <4> QED BY <1>1, <4>2
      <3> QED BY <3>4, <3>5
    <2> QED BY <2>1, <2>2
  <1>9. ASSUME NEW w \in Workers, Fail(w) \/ FinishFailure(w)
        PROVE  inbox'[r].status \in {inbox[r].status} \union
                  (InboxStatuses \ {"completed"})
    <2>1. CASE UNCHANGED inbox
      BY <2>1
    <2>2. CASE ~UNCHANGED inbox
      <3>1. LeaseHeld(w)
        BY <1>9, <2>2 DEF Fail, FinishFailure, AuthorizedAttempt, LeaseActive
      <3>2. worker[w].row \in Rows /\ worker[w].attempts + 1 \in Nat
        BY <1>0, <3>1, HeldToken
      <3>3. CASE Fail(w)
        BY <1>2, <2>2, <3>2, <3>3 DEF Fail, InboxStatuses
      <3>4. CASE FinishFailure(w)
        <4>1. AuthorizedAttempt(w) /\ worker[w].version < VMax
          BY <2>2, <3>4 DEF FinishFailure
        <4>2. PICK status \in FailureDecisions :
                 inbox' = Released(worker[w].row, status,
                                   worker[w].attempts + 1)
          BY <3>4, <4>1, FinishFailureFacts
        <4> QED BY <1>0, <1>2, <3>2, <4>2
      <3> QED BY <1>9, <3>3, <3>4
    <2> QED BY <2>1, <2>2
  <1>10. ASSUME NEW q \in Rows, RecoverLinked(q) \/ RecoverUnlinked(q)
         PROVE  inbox'[r].status \in {inbox[r].status} \union
                   (InboxStatuses \ {"completed"})
    <2>1. PICK status \in FailureDecisions :
             inbox' = Released(q, status, inbox[q].attempts + 1)
      BY <1>10, RecoverLinkedFacts, RecoverUnlinkedFacts
    <2> QED BY <1>0, <1>2, <2>1
  <1>11. ASSUME NEW q \in Rows, Requeue(q) \/ ReleaseQuarantine(q)
         PROVE  inbox'[r].status \in {inbox[r].status, "pending"}
    <2>1. /\ inbox'[q].status = "pending"
          /\ \A p \in Rows \ {q} : inbox'[p] = inbox[p]
      BY <1>11, NextEpochFacts DEF Requeue, ReleaseQuarantine
    <2> QED BY <2>1
  <1>12. ASSUME NEW w \in Workers, ApplyProcess(w) \/ ApplySettle(w)
                   \/ PerformEffect(w) \/ WorkerOnly(w)
         PROVE  UNCHANGED inbox
    BY <1>12
    DEF ApplyProcess, ApplySettle, PerformEffect, WorkerOnly, ApplyRejected,
        ApplyReview, CompleteLocally, AuthorizeDetail, ReadDetail,
        AdapterReturns, AdapterFails, ConsumerDies
  <1>13. ASSUME NEW s \in Sessions, Register(s) \/ ProcessExit(s)
         PROVE  UNCHANGED inbox
    BY <1>13 DEF Register, ProcessExit
  <1>14. CASE RuntimeEnds \/ Pause \/ Resume \/ UNCHANGED vars
    BY <1>1, <1>14 DEF RuntimeEnds, Pause, Resume, vars
  <1> QED
    BY <1>1, <1>3, <1>4, <1>5, <1>6, <1>7, <1>8, <1>9, <1>10, <1>11, <1>12,
       <1>13, <1>14 DEF Next, ConsumerStep, WorkerOnly

\* An event that is settled rather than processed was, if it is a CREATE,
\* taken up before.
LEMMA SettleTakesUp ==
    ASSUME Typed, \A e \in Emails : Memory(email[e]), NEW w \in Workers,
           ApplySettle(w), KindOf[worker[w].row] = "create"
    PROVE  TakenUp(email[EmailFor(w)])
PROOF
  <1> DEFINE m == email[EmailFor(w)]
  <1>1. worker[w].row \in Rows
    BY DEF ApplySettle, LeaseActive, LeaseHeld
  <1>2. EmailFor(w) \in Emails /\ m \in EmailRow
    BY <1>1, ConstantsAssumption DEF EmailFor, Typed, TypeOK
  <1>3. ~DecisionFor(w).should_process
    BY DEF ApplySettle
  <1>4. m.status # "absent"
    BY <1>1, <1>3, DecisionFacts
  <1>5. m.status = "ingested" => TakenUp(m)
    BY <1>2, <1>3 DEF DecisionFor, decide_email_event, DecideCreate, Process,
                      Decision, TakenUp, EmailRow
  <1> QED BY <1>2, <1>4, <1>5 DEF Memory

\* Every step keeps what emails remember.
LEMMA RememberedStep ==
    ASSUME Typed, Links, Remembered, NoSilentDrop, [Next]_vars
    PROVE  Remembered' /\ NoSilentDrop'
PROOF
  <1>1. /\ \A e \in Emails : Memory(email[e])
        /\ \A e \in Emails : Evolves(email[e], email'[e])
    BY EvolvesStep DEF Remembered
  <1>2. \A e \in Emails : TakenUp(email[e]) => TakenUp(email'[e])
    BY <1>1 DEF Evolves, TakenUp
  <1>3. ASSUME NEW e \in Emails
        PROVE  Memory(email'[e])
    BY <1>1, <1>2 DEF Memory, Evolves, TakenUp
  <1>4. ASSUME NEW w \in Workers, worker'[w].pc = "applied",
               KindOf[worker'[w].row] = "create"
        PROVE  TakenUp(email'[EmailOf[worker'[w].row]])
    <2>1. Keeps(w)
      <3>1. CASE \A v \in Workers, r \in Rows : ~Claim(v, r)
        BY <3>1, KeepsStep
      <3>2. ASSUME NEW v \in Workers, NEW r \in Rows, Claim(v, r)
            PROVE  Keeps(w)
        <4>1. v # w
          BY <1>4, <3>2, ClaimFacts
        <4>2. worker'[w] = worker[w]
          BY <3>2, <4>1, ClaimFacts
        <4> QED BY <4>2 DEF Keeps, Attempt
      <3> QED BY <3>1, <3>2
    <2>2. /\ worker[w].pc \in Active /\ worker'[w].row = worker[w].row
          /\ worker[w].pc = "applied" \/ ApplySettle(w)
      BY <1>4, <2>1 DEF Keeps, Active, WorkerStates, Attempt
    <2>3. worker[w].row \in Rows
      BY <2>2 DEF Typed, Holding
    <2>4. EmailFor(w) \in Emails /\ EmailFor(w) = EmailOf[worker'[w].row]
      BY <2>2, <2>3, ConstantsAssumption DEF EmailFor
    <2>5. TakenUp(email[EmailFor(w)])
      <3>1. CASE worker[w].pc = "applied"
        BY <1>4, <2>2, <3>1 DEF Remembered
      <3>2. CASE ApplySettle(w)
        BY <1>1, <1>4, <2>2, <3>2, SettleTakesUp
      <3> QED BY <2>2, <3>1, <3>2
    <2> QED BY <1>2, <2>4, <2>5
  <1>5. ASSUME NEW r \in Rows, KindOf[r] = "create",
               PolicyOf[r] \in ClaimablePolicies,
               inbox'[r].status = "completed"
        PROVE  TakenUp(email'[EmailOf[r]])
    <2>1. EmailOf[r] \in Emails
      BY ConstantsAssumption
    <2>2. TakenUp(email[EmailOf[r]])
      <3>1. CASE inbox[r].status = "completed"
        BY <1>5, <3>1 DEF NoSilentDrop, TakenUp
      <3>2. ASSUME NEW w \in Workers, Complete(w), worker[w].row = r
            PROVE  TakenUp(email[EmailOf[r]])
        BY <1>5, <3>2 DEF Complete, Remembered, EmailFor
      <3>3. ASSUME NEW w \in Workers, AuthorizedAttempt(w), worker[w].row = r
            PROVE  TakenUp(email[EmailOf[r]])
        BY <2>1, <3>3, AuthorizedFacts, LinkedSeen DEF TakenUp
      <3> QED BY <1>5, <3>1, <3>2, <3>3, CompletedBy
    <2> QED BY <1>2, <2>1, <2>2
  <1> QED BY <1>3, <1>4, <1>5 DEF Remembered, NoSilentDrop, TakenUp, EmailFor

\* Initially there is no email to remember anything.
LEMMA RememberedInit == Init => Remembered /\ NoSilentDrop
PROOF
  BY DEF Init, Remembered, NoSilentDrop, Memory, TakenUp, AbsentEmail,
         AbsentRow, Blank

\* The inductive invariant holds in every reachable state, for any number
\* of emails, events, consumers and processes.
THEOREM InductiveHolds == Spec => []Inductive
PROOF
  <1>1. Spec => []Typed
    BY TypeCorrect, PTL DEF Typed
  <1>2. Spec => []Links
    <2>1. Typed /\ LinkConsistent /\ LinkState /\ MarkersAgree /\ Unlinked
            => Links
      BY LinksSplit DEF Typed
    <2> QED BY <1>1, <2>1, LinksAgree, PTL
  <1>3. /\ Typed /\ Tokens /\ Links /\ Links' /\ EffectState /\ Effecting
        /\ [Next]_vars
        => EffectState' /\ Effecting'
    BY EffectsStep
  <1>4. Spec => [](EffectState /\ Effecting)
    BY <1>1, <1>2, <1>3, EffectsInit, ClaimsUnique, PTL DEF Spec
  <1>5. Typed /\ Links /\ Remembered /\ NoSilentDrop /\ [Next]_vars
        => Remembered' /\ NoSilentDrop'
    BY RememberedStep
  <1>6. Spec => [](Remembered /\ NoSilentDrop)
    BY <1>1, <1>2, <1>5, RememberedInit, PTL DEF Spec
  <1> QED BY <1>4, <1>6, TypeCorrect, ClaimsUnique, LinksAgree, PTL
          DEF Inductive

\* At most one processing attempt of an email ever makes an external
\* effect, through lease expiry, recovery, zombie processes and requeues.
THEOREM EffectsOnce == Spec => []EffectOnce
PROOF
  <1>1. Inductive => EffectOnce
    BY DEF Inductive, EffectState, EffectOnce
  <1> QED BY <1>1, InductiveHolds, PTL

\* A cancelled email was never acted on and no consumer is about to.
THEOREM CancelledSafe == Spec => []CancelledUntouched
PROOF
  <1>1. ASSUME Inductive
        PROVE  CancelledUntouched
    <2>1. \A e \in Emails : email[e].status = "cancelled" => authorized[e] = {}
      BY <1>1 DEF Inductive, EffectState
    <2>2. \A w \in Workers :
             worker[w].pc = "effect" => authorized[EmailFor(w)] # {}
      BY <1>1 DEF Inductive, Effecting
    <2> QED BY <2>1, <2>2 DEF CancelledUntouched
  <1> QED BY <1>1, InductiveHolds, PTL

\* A leased, linked row is elected exactly when its email is processing,
\* and a claimed attempt was never elected before.
THEOREM AttemptsAreFresh == Spec => []AttemptsFresh
PROOF
  <1>1. ASSUME Inductive
        PROVE  AttemptsFresh
    <2>1. ASSUME NEW r \in Rows, inbox[r].status = "leased",
                 email[EmailOf[r]].link = r
          PROVE  AttemptStateValid(r)
      <3>1. EmailOf[r] \in Emails /\ NoRow \notin Rows
        BY ConstantsAssumption
      <3>2. email[EmailOf[r]].status \in {"processing", "retry_wait"}
        BY <1>1, <2>1, <3>1 DEF Inductive, LinkConsistent, LinkStatusOK
      <3> QED
        BY <1>1, <2>1, <3>1, <3>2 DEF Inductive, LinkState, AttemptStateValid
    <2> QED BY <1>1, <2>1 DEF AttemptsFresh, Inductive, Tokens
  <1> QED BY <1>1, InductiveHolds, PTL

\* No CREATE row is completed without its email having been taken up or its
\* source being gone: through completion by another consumer, lost leases,
\* recovery, requeues and source deletes.  Rows of other kinds, and rows that
\* are not completed, are not spoken of.
THEOREM NothingDropped == Spec => []NoSilentDrop
PROOF
  <1>1. Inductive => NoSilentDrop
    BY DEF Inductive
  <1> QED BY <1>1, InductiveHolds, PTL

\* The status of a settled email (not the rows of the inbox, which operators
\* may requeue) is never reopened: it can only become cancelled, and then the
\* source of the email has been deleted.
THEOREM SettledIsFinal == Spec => SettledStays
PROOF
  <1>1. ASSUME Inductive, [Next]_vars
        PROVE  \A e \in Emails :
                  email[e].status \in SettledStatuses =>
                     \/ email'[e].status = email[e].status
                     \/ email'[e].status = "cancelled" /\ email'[e].deleted
    <2>1. Typed /\ Links /\ \A e \in Emails : Memory(email[e])
      BY <1>1, LinksSplit DEF Inductive, Typed, Remembered
    <2>2. \A e \in Emails : Evolves(email[e], email'[e])
      BY <1>1, <2>1, EvolvesStep
    <2> QED BY <2>2 DEF Evolves, SettledStatuses
  <1> QED BY <1>1, InductiveHolds, PTL DEF Spec, SettledStays
-----------------------------------------------------------------------------
\* What may be applied.

\* The decision of a manifest row fixes everything but the status.
LEMMA FlagsOf ==
    ASSUME NEW process, NEW cancel, NEW status, NEW pending, NEW seen,
           NEW reason
    PROVE  [Decision(process, cancel, status, pending, seen, reason)
              EXCEPT !.new_status = "any"] =
           Flags(process, cancel, pending, seen, reason)
PROOF
  BY DEF Decision, Flags

LEMMA ProcessFlags ==
    ASSUME NEW reason
    PROVE  [Process(reason) EXCEPT !.new_status = "any"] =
           Flags(TRUE, FALSE, FALSE, TRUE, reason)
PROOF
  <1> DEFINE yes == TRUE
             no == FALSE
  <1> HIDE DEF yes, no
  <1>1. [Decision(yes, no, "processing", no, yes, reason)
           EXCEPT !.new_status = "any"] = Flags(yes, no, no, yes, reason)
    BY FlagsOf
  <1> QED BY <1>1 DEF yes, no, Process

\* A decision is legal when a row of the manifest fits it.
LEMMA RowLegal ==
    ASSUME NEW disposition, NEW statuses, NEW flags, NEW complete, NEW d,
           ManifestRow(disposition, statuses, flags, complete)
              \in EmailEventManifest,
           d.new_status \in statuses,
           [d EXCEPT !.new_status = "any"] = flags
    PROVE  LegalApplication(disposition, d, d.new_status, complete)
PROOF
  <1> DEFINE row == ManifestRow(disposition, statuses, flags, complete)
  <1>1. /\ row.disposition = disposition /\ row.statuses = statuses
        /\ row.decision = flags /\ row.may_complete = complete
    BY DEF ManifestRow
  <1> HIDE DEF row
  <1>2. row \in EmailEventManifest
    BY DEF row
  <1> QED BY <1>1, <1>2 DEF LegalApplication

\* The rows of the manifest that keep the status.
LEMMA PreservingLegal ==
    ASSUME NEW disposition, NEW reason, NEW statuses, NEW seens, NEW seen,
           seen \in seens, NEW status, status \in statuses,
           PreservingRows(disposition, reason, statuses, seens)
              \subseteq EmailEventManifest
    PROVE  LET d == Preserve(status, seen, reason) IN
           LegalApplication(disposition, d, d.new_status, TRUE)
PROOF
  <1>1. ManifestRow(disposition, statuses,
                    Flags(FALSE, FALSE, FALSE, seen, reason), TRUE)
           \in EmailEventManifest
    BY DEF PreservingRows
  <1>2. Preserve(status, seen, reason).new_status = status
    BY DEF Preserve, Decision
  <1>3. [Preserve(status, seen, reason) EXCEPT !.new_status = "any"] =
           Flags(FALSE, FALSE, FALSE, seen, reason)
    <2> DEFINE no == FALSE
    <2> HIDE DEF no
    <2>1. [Decision(no, no, status, no, seen, reason)
             EXCEPT !.new_status = "any"] = Flags(no, no, no, seen, reason)
      BY FlagsOf
    <2> QED BY <2>1 DEF no, Preserve
  <1> QED BY <1>1, <1>2, <1>3, RowLegal

\* Whatever an email remembers and whatever event a claim carries, applying
\* the decision is a row of the manifest.
LEMMA DecisionLegal ==
    ASSUME Typed, \A e \in Emails : Memory(email[e]), NEW w \in Workers,
           worker[w].row \in Rows
    PROVE  LET d == DecisionFor(w) IN
           \A x \in DispositionFor(w) :
              LegalApplication(x, d, d.new_status, ~d.should_process)
PROOF
  <1> DEFINE m == email[EmailFor(w)]
             k == KindOf[worker[w].row]
             d == DecisionFor(w)
             Goal == \A x \in DispositionFor(w) :
                        LegalApplication(x, d, d.new_status,
                                         ~d.should_process)
  <1>1. /\ EmailFor(w) \in Emails /\ k \in {"create", "update", "delete"}
    BY ConstantsAssumption DEF EmailFor
  <1>2. /\ m.status \in EmailStatuses \union {"absent"}
        /\ m.createSeen \in BOOLEAN /\ m.deleted \in BOOLEAN
        /\ m.effects \in BOOLEAN
        /\ Memory(m) /\ "absent" \notin EmailStatuses
    BY <1>1 DEF Typed, TypeOK, EmailRow, EmailStatuses
  <1>3. ASSUME d = Process("first_create")
        PROVE  Goal
    <2>1. DispositionFor(w) = {"creator_elected"}
      BY <1>3 DEF DispositionFor, Process, Decision
    <2>2. ManifestRow("creator_elected", {"processing"},
                      Flags(TRUE, FALSE, FALSE, TRUE, "first_create"), FALSE)
             \in EmailEventManifest
      BY DEF EmailEventManifest
    <2>3. /\ d.new_status = "processing" /\ d.should_process = TRUE
          /\ [d EXCEPT !.new_status = "any"] =
                Flags(TRUE, FALSE, FALSE, TRUE, "first_create")
      <3>1. /\ d.new_status = "processing" /\ d.should_process = TRUE
        BY <1>3 DEF Process, Decision
      <3> HIDE DEF d
      <3> QED BY <1>3, <3>1, ProcessFlags
    <2>4. LegalApplication("creator_elected", d, d.new_status, FALSE)
      <3> HIDE DEF d
      <3> QED BY <2>2, <2>3, RowLegal
    <2> QED BY <2>1, <2>3, <2>4
  <1>4. ASSUME d = Process("processing_resumed")
        PROVE  Goal
    <2>1. DispositionFor(w) = {"processing_resumed"}
      BY <1>4 DEF DispositionFor, Process, Decision
    <2>2. ManifestRow("processing_resumed", {"processing"},
                      Flags(TRUE, FALSE, FALSE, TRUE, "processing_resumed"),
                      FALSE) \in EmailEventManifest
      BY DEF EmailEventManifest
    <2>3. /\ d.new_status = "processing" /\ d.should_process = TRUE
          /\ [d EXCEPT !.new_status = "any"] =
                Flags(TRUE, FALSE, FALSE, TRUE, "processing_resumed")
      <3>1. /\ d.new_status = "processing" /\ d.should_process = TRUE
        BY <1>4 DEF Process, Decision
      <3> HIDE DEF d
      <3> QED BY <1>4, <3>1, ProcessFlags
    <2>4. LegalApplication("processing_resumed", d, d.new_status, FALSE)
      <3> HIDE DEF d
      <3> QED BY <2>2, <2>3, RowLegal
    <2> QED BY <2>1, <2>3, <2>4
  <1>5. ASSUME NEW status \in EmailStatuses, NEW seen \in BOOLEAN, NEW reason,
               d = Preserve(status, seen, reason),
               \A x \in DispositionFor(w) :
                  \E statuses \in SUBSET EmailStatuses,
                     seens \in SUBSET BOOLEAN :
                     /\ status \in statuses /\ seen \in seens
                     /\ PreservingRows(x, reason, statuses, seens)
                           \subseteq EmailEventManifest
        PROVE  Goal
    <2>1. d.should_process = FALSE
      BY <1>5 DEF Preserve, Decision
    <2>2. \A x \in DispositionFor(w) :
             LegalApplication(x, d, d.new_status, TRUE)
      <3> HIDE DEF d
      <3> TAKE x \in DispositionFor(w)
      <3>1. PICK statuses \in SUBSET EmailStatuses, seens \in SUBSET BOOLEAN :
               /\ status \in statuses /\ seen \in seens
               /\ PreservingRows(x, reason, statuses, seens)
                     \subseteq EmailEventManifest
        BY <1>5
      <3> QED BY <1>5, <3>1, PreservingLegal
    <2> QED BY <2>1, <2>2
  <1>6. /\ PreservingRows("metadata_shell_created", "metadata_event",
                          {"ingested"}, {FALSE}) \subseteq EmailEventManifest
        /\ PreservingRows("aggregate_noop", "duplicate_create",
                          EmailStatuses \ {"ingested"}, {FALSE})
              \subseteq EmailEventManifest
        /\ PreservingRows("aggregate_noop", "duplicate_create",
                          EmailStatuses, {TRUE}) \subseteq EmailEventManifest
    BY DEF EmailEventManifest
  <1>7. /\ \A reason \in {"metadata_event", "source_delete_recorded"} :
              PreservingRows("aggregate_updated", reason, EmailStatuses,
                             BOOLEAN) \subseteq EmailEventManifest
        /\ \A reason \in {"metadata_event", "source_deleted_preserved"} :
              PreservingRows("aggregate_noop", reason, EmailStatuses,
                             BOOLEAN) \subseteq EmailEventManifest
    <2> DEFINE Updating == {"metadata_event", "source_delete_recorded",
                            "status_preserved"}
               Keeping == {"metadata_event", "status_preserved",
                           "source_deleted_preserved"}
    <2>1. /\ ReasonRows("aggregate_updated", Updating)
                \subseteq EmailEventManifest
          /\ ReasonRows("aggregate_noop", Keeping)
                \subseteq EmailEventManifest
      BY DEF EmailEventManifest
    <2>2. ASSUME NEW x, NEW reasons, NEW reason \in reasons
          PROVE  PreservingRows(x, reason, EmailStatuses, BOOLEAN)
                    \subseteq ReasonRows(x, reasons)
      BY DEF ReasonRows
    <2> QED BY <2>1, <2>2
  <1>8. ASSUME m.status = "absent" /\ k = "update"
        PROVE  Goal
    <2>1. d = Preserve("ingested", FALSE, "metadata_event")
      BY <1>8 DEF DecisionFor, decide_email_event, DecideFirst
    <2>2. d.should_process = FALSE
      BY <2>1 DEF Preserve, Decision
    <2>3. DispositionFor(w) = {"metadata_shell_created"}
      BY <1>8, <2>2 DEF DispositionFor
    <2>4. "ingested" \in EmailStatuses /\ {"ingested"} \subseteq EmailStatuses
          /\ {FALSE} \subseteq BOOLEAN /\ FALSE \in {FALSE}
      BY DEF EmailStatuses
    <2> HIDE DEF d, Goal
    <2> QED BY <1>5, <1>6, <2>1, <2>3, <2>4
  <1>9. ASSUME m.status = "absent" /\ k = "delete"
        PROVE  Goal
    <2>1. d = Decision(FALSE, TRUE, "cancelled", FALSE, FALSE,
                       "source_tombstone")
      BY <1>9 DEF DecisionFor, decide_email_event, DecideFirst
    <2>2. /\ d.should_process = FALSE /\ d.new_status = "cancelled"
          /\ [d EXCEPT !.new_status = "any"] =
                Flags(FALSE, TRUE, FALSE, FALSE, "source_tombstone")
      <3> DEFINE yes == TRUE
                 no == FALSE
      <3>1. d.should_process = FALSE /\ d.new_status = "cancelled"
        BY <2>1 DEF Decision
      <3> HIDE DEF d, yes, no
      <3>2. [Decision(no, yes, "cancelled", no, no, "source_tombstone")
               EXCEPT !.new_status = "any"] =
            Flags(no, yes, no, no, "source_tombstone")
        BY FlagsOf
      <3>3. [Decision(FALSE, TRUE, "cancelled", FALSE, FALSE,
                      "source_tombstone") EXCEPT !.new_status = "any"] =
            Flags(FALSE, TRUE, FALSE, FALSE, "source_tombstone")
        BY <3>2 DEF yes, no
      <3> QED BY <2>1, <3>1, <3>3
    <2>3. DispositionFor(w) = {"tombstone_created"}
      BY <1>2, <1>9, <2>2 DEF DispositionFor, Memory, TakenUp
    <2>4. ManifestRow("tombstone_created", {"cancelled"},
                      Flags(FALSE, TRUE, FALSE, FALSE, "source_tombstone"),
                      TRUE) \in EmailEventManifest
      BY DEF EmailEventManifest
    <2>5. LegalApplication("tombstone_created", d, d.new_status, TRUE)
      <3> HIDE DEF d
      <3> QED BY <2>2, <2>4, RowLegal
    <2> QED BY <2>2, <2>3, <2>5
  <1>10. ASSUME m.status # "absent" /\ m.deleted
        PROVE  Goal
    <2>1. d = Preserve(m.status, m.createSeen, "source_deleted_preserved")
      BY <1>10 DEF DecisionFor, decide_email_event
    <2>2. d.should_process = FALSE
      BY <2>1 DEF Preserve, Decision
    <2>3. DispositionFor(w) = {"aggregate_noop"}
      BY <1>1, <1>10, <2>2 DEF DispositionFor
    <2>4. m.status \in EmailStatuses
      BY <1>2, <1>10
    <2> HIDE DEF d, Goal
    <2> QED BY <1>2, <1>5, <1>7, <2>1, <2>3, <2>4
  <1>11. ASSUME m.status # "absent" /\ ~m.deleted /\ k = "update"
        PROVE  Goal
    <2>1. d = Preserve(m.status, m.createSeen, "metadata_event")
      BY <1>11 DEF DecisionFor, decide_email_event
    <2>2. d.should_process = FALSE
      BY <2>1 DEF Preserve, Decision
    <2>3. DispositionFor(w) = {"aggregate_updated", "aggregate_noop"}
      BY <1>11, <2>2 DEF DispositionFor
    <2>4. m.status \in EmailStatuses
      BY <1>2, <1>11
    <2> HIDE DEF d, Goal
    <2> QED BY <1>2, <1>5, <1>7, <2>1, <2>3, <2>4
  <1>12. ASSUME m.status # "absent" /\ ~m.deleted /\ k = "delete"
        PROVE  Goal
    <2>0. d = DecideDelete(m.status, m.createSeen, m.effects)
      BY <1>12 DEF DecisionFor, decide_email_event
    <2>1. m.status \in EmailStatuses
      BY <1>2, <1>12
    <2>2. CASE ~m.effects /\ m.status \in CancelOnDelete
      <3> DEFINE pending == ~(m.status = "ingested" /\ ~m.createSeen)
      <3>1. d = Decision(FALSE, TRUE, "cancelled", pending, m.createSeen,
                         "source_delete_cancelled")
        BY <2>0, <2>2 DEF DecideDelete
      <3>2. /\ d.should_process = FALSE /\ d.new_status = "cancelled"
            /\ [d EXCEPT !.new_status = "any"] =
                  Flags(FALSE, TRUE, pending, m.createSeen,
                        "source_delete_cancelled")
        <4> DEFINE yes == TRUE
                   no == FALSE
                   seen == m.createSeen
        <4>1. d.should_process = FALSE /\ d.new_status = "cancelled"
          BY <3>1 DEF Decision
        <4> HIDE DEF d, m, pending, seen, yes, no
        <4>2. [Decision(no, yes, "cancelled", pending, seen,
                        "source_delete_cancelled")
                 EXCEPT !.new_status = "any"] =
              Flags(no, yes, pending, seen, "source_delete_cancelled")
          BY FlagsOf
        <4>3. [Decision(FALSE, TRUE, "cancelled", pending, m.createSeen,
                        "source_delete_cancelled")
                 EXCEPT !.new_status = "any"] =
              Flags(FALSE, TRUE, pending, m.createSeen,
                    "source_delete_cancelled")
          BY <4>2 DEF yes, no, seen
        <4> QED BY <3>1, <4>1, <4>3
      <3>3. DispositionFor(w) = {"aggregate_updated"}
        BY <1>12, <3>2 DEF DispositionFor
      <3>4. <<pending, m.createSeen>> \in
               (BOOLEAN \X BOOLEAN) \ {<<FALSE, TRUE>>}
        BY <1>2
      <3>5. ManifestRow("aggregate_updated", {"cancelled"},
                        Flags(FALSE, TRUE, pending, m.createSeen,
                              "source_delete_cancelled"), TRUE)
               \in EmailEventManifest
        <4> DEFINE f == <<pending, m.createSeen>>
        <4>1. f[1] = pending /\ f[2] = m.createSeen
          OBVIOUS
        <4>2. f \in (BOOLEAN \X BOOLEAN) \ {<<FALSE, TRUE>>}
          BY <3>4
        <4>3. ManifestRow("aggregate_updated", {"cancelled"},
                          Flags(FALSE, TRUE, f[1], f[2],
                                "source_delete_cancelled"), TRUE)
                 \in EmailEventManifest
          <5> HIDE DEF f
          <5> QED BY <4>2 DEF EmailEventManifest
        <4> QED BY <4>1, <4>3
      <3>6. LegalApplication("aggregate_updated", d, d.new_status, TRUE)
        <4> HIDE DEF d, pending
        <4> QED BY <3>2, <3>5, RowLegal
      <3> QED BY <3>2, <3>3, <3>6
    <2>3. CASE ~(~m.effects /\ m.status \in CancelOnDelete)
      <3>1. d = Preserve(m.status, m.createSeen, "source_delete_recorded")
        BY <2>0, <2>3 DEF DecideDelete
      <3>2. d.should_process = FALSE
        BY <3>1 DEF Preserve, Decision
      <3>3. DispositionFor(w) = {"aggregate_updated"}
        BY <1>12, <3>2 DEF DispositionFor
      <3> HIDE DEF d, Goal
      <3> QED BY <1>2, <1>5, <1>7, <2>1, <3>1, <3>3
    <2> QED BY <2>2, <2>3
  <1>13. ASSUME k = "create" /\ ~(m.status # "absent" /\ m.deleted)
        PROVE  Goal
    <2>1. CASE m.status = "absent"
      <3>1. d = Process("first_create")
        BY <1>13, <2>1 DEF DecisionFor, decide_email_event, DecideFirst
      <3> QED BY <1>3, <3>1
    <2>2. CASE m.status # "absent"
      <3>0. d = DecideCreate(m.status, m.createSeen, Owns(m, w), m.effects)
        BY <1>13, <2>2 DEF DecisionFor, decide_email_event
      <3>1. \/ d = Process("first_create")
            \/ d = Process("processing_resumed")
            \/ /\ d = Preserve(m.status, m.createSeen, "duplicate_create")
               /\ ~(m.status = "ingested" /\ ~m.createSeen)
        BY <3>0 DEF DecideCreate
      <3>2. CASE /\ d = Preserve(m.status, m.createSeen, "duplicate_create")
                 /\ ~(m.status = "ingested" /\ ~m.createSeen)
        <4>1. d.should_process = FALSE
          BY <3>2 DEF Preserve, Decision
        <4>2. DispositionFor(w) = {"aggregate_noop"}
          BY <1>13, <2>2, <4>1 DEF DispositionFor
        <4>3. m.status \in EmailStatuses
          BY <1>2, <2>2
        <4> HIDE DEF d, Goal
        <4>4. CASE m.createSeen = TRUE
          <5>1. {TRUE} \in SUBSET BOOLEAN /\ m.createSeen \in {TRUE}
                /\ EmailStatuses \in SUBSET EmailStatuses
            BY <4>4
          <5> QED BY <1>2, <1>5, <1>6, <3>2, <4>2, <4>3, <5>1
        <4>5. CASE m.createSeen = FALSE
          <5>1. {FALSE} \in SUBSET BOOLEAN /\ m.createSeen \in {FALSE}
                /\ m.status \in EmailStatuses \ {"ingested"}
                /\ EmailStatuses \ {"ingested"} \in SUBSET EmailStatuses
            BY <3>2, <4>3, <4>5
          <5>2. \E statuses \in SUBSET EmailStatuses,
                   seens \in SUBSET BOOLEAN :
                   /\ m.status \in statuses /\ m.createSeen \in seens
                   /\ PreservingRows("aggregate_noop", "duplicate_create",
                                     statuses, seens)
                         \subseteq EmailEventManifest
            BY <1>6, <5>1
          <5> QED BY <1>2, <1>5, <3>2, <4>2, <4>3, <5>2
        <4> QED BY <1>2, <4>4, <4>5
      <3> QED BY <1>3, <1>4, <3>1, <3>2
    <2> QED BY <2>1, <2>2
  <1> QED BY <1>1, <1>8, <1>9, <1>10, <1>11, <1>12, <1>13

\* Whatever event a claimed row carries, and whatever happened to its email
\* before, applying it is legal: no application kills the consumer.
THEOREM EventsApplyLegally == Spec => []ApplicationsLegal
PROOF
  <1>1. ASSUME Inductive
        PROVE  ApplicationsLegal
    <2>1. Typed /\ \A e \in Emails : Memory(email[e])
      BY <1>1 DEF Inductive, Typed, Remembered
    <2>2. ASSUME NEW w \in Workers, LeaseActive(w)
          PROVE  worker[w].row \in Rows
      BY <2>2 DEF LeaseActive, LeaseHeld
    <2> QED BY <2>1, <2>2, DecisionLegal DEF ApplicationsLegal
  <1> QED BY <1>1, InductiveHolds, PTL
=============================================================================
