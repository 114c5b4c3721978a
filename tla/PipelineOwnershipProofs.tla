------------------------ MODULE PipelineOwnershipProofs ------------------------
(***************************************************************************)
(* Proofs about PipelineOwnership, for every number of generations,        *)
(* events, e-mails and consumers: OwnershipInv is inductive.               *)
(***************************************************************************)
EXTENDS PipelineOwnership, TLAPS

-----------------------------------------------------------------------------
\* Layer 1: the work under a generation.

\* One event and one e-mail change, at most, while the generations stand: the
\* row keeps its generation or is new under the current one, and an e-mail
\* becomes unresolved only under a generation that has an unresolved row.
LEMMA WorkKeeps ==
    ASSUME OwnershipAssumption, OwnershipInv,
           UNCHANGED <<ownership, op>>,
           worker' \in [Workers -> {Off} \cup Consumers],
           NEW e \in Events, NEW row \in InboxRows,
           NEW m \in Mails, NEW mail \in MailRows,
           inbox' = [inbox EXCEPT ![e] = row],
           emails' = [emails EXCEPT ![m] = mail],
           row.status # "absent",
           \/ inbox[e].status \in BlockingInbox /\ row.generation = inbox[e].generation
           \/ inbox[e].status = "absent" /\ row.generation \in Current(ownership),
           mail.status # "absent" => mail.owner # None,
           mail.link # None =>
              \/ mail.link = e /\ mail.owner = row.generation
              \/ mail.link = emails[m].link /\ mail.owner = emails[m].owner,
           mail.status \in BlockingEmail =>
              \/ emails[m].status \in BlockingEmail /\ mail.owner = emails[m].owner
              \/ UnresolvedRow(mail.owner)
    PROVE  OwnershipInv'
PROOF
  <1>1. /\ inbox \in [Events -> InboxRows] /\ emails \in [Mails -> MailRows]
        /\ inbox' \in [Events -> InboxRows] /\ emails' \in [Mails -> MailRows]
        /\ inbox'[e] = row /\ \A f \in Events \ {e} : inbox'[f] = inbox[f]
        /\ emails'[m] = mail /\ \A n \in Mails \ {m} : emails'[n] = emails[n]
    BY DEF OwnershipInv, TypeOK
  <1>2. Generations' = Generations /\ InboxRows' = InboxRows /\ MailRows' = MailRows
    BY DEF Generations, InboxRows, MailRows
  <1>3. TypeOK'
    BY <1>1, <1>2 DEF OwnershipInv, TypeOK
  <1>4. OneIngress'
    BY DEF OwnershipInv, OneIngress
  <1>5. /\ inbox[e].status \in BlockingInbox => inbox[e].status # "absent"
        /\ row.generation # None
    <2>1. \A g \in Current(ownership) : g # None
      BY DEF Current, None
    <2>2. "absent" \notin BlockingInbox
      BY DEF BlockingInbox
    <2> QED BY <2>1, <2>2 DEF OwnershipInv, LinkInOwner
  <1>6. LinkInOwner'
    <2>1. ASSUME NEW n \in Mails, emails'[n].link # None
          PROVE  /\ inbox'[emails'[n].link].status # "absent"
                 /\ inbox'[emails'[n].link].generation = emails'[n].owner
      <3>1. CASE emails'[n].link = emails[n].link /\ emails'[n].owner = emails[n].owner
        <4>1. /\ emails[n].link \in Events
              /\ inbox[emails[n].link].status # "absent"
              /\ inbox[emails[n].link].generation = emails[n].owner
          BY <1>1, <2>1, <3>1 DEF OwnershipInv, LinkInOwner, MailRows
        <4> QED BY <1>1, <1>5, <3>1, <4>1
      <3>2. CASE n = m /\ mail.link = e /\ mail.owner = row.generation
        BY <1>1, <3>2
      <3> QED BY <1>1, <2>1, <3>1, <3>2
    <2>2. \A f \in Events : inbox'[f].status # "absent" => inbox'[f].generation # None
      BY <1>1, <1>5 DEF OwnershipInv, LinkInOwner
    <2>3. \A n \in Mails : emails'[n].status # "absent" => emails'[n].owner # None
      BY <1>1 DEF OwnershipInv, LinkInOwner
    <2> QED BY <2>1, <2>2, <2>3 DEF LinkInOwner
  <1>7. \A g \in Generations :
           UnresolvedRow(g)' => UnresolvedRow(g) \/ g \in Current(ownership)
    BY <1>1 DEF UnresolvedRow
  <1>8. \A g \in Generations :
           UnresolvedMail(g)' => UnresolvedMail(g) \/ UnresolvedRow(g)
    BY <1>1 DEF UnresolvedMail
  <1>9. RetiredIsDone'
    <2> SUFFICES ASSUME NEW g \in Generations, ownership[g].state = "retired"
                 PROVE  ~UnresolvedRow(g)' /\ ~UnresolvedMail(g)'
      BY <1>2 DEF RetiredIsDone
    <2>1. ~UnresolvedRow(g) /\ ~UnresolvedMail(g)
      BY DEF OwnershipInv, RetiredIsDone
    <2>2. g \notin Current(ownership)
      BY DEF Current
    <2> QED BY <1>7, <1>8, <2>1, <2>2
  <1>10. Underway'
    <2>1. op.pc = "retiring" => op.generation \notin Current(ownership)
      BY DEF OwnershipInv, Underway, Current
    <2>2. op.pc = "retiring" => ~UnresolvedRow(op.generation)'
      BY <1>7, <2>1 DEF OwnershipInv, Underway
    <2> QED BY <1>2, <2>2 DEF OwnershipInv, Underway
  <1> QED BY <1>3, <1>4, <1>6, <1>9, <1>10 DEF OwnershipInv

\* What a consumer that still holds its lease knows.
LEMMA HeldFacts ==
    ASSUME OwnershipAssumption, OwnershipInv, NEW w \in Workers,
           worker[w].pc # "idle"
    PROVE  /\ worker[w] \in Consumers /\ worker[w].row \in Events
           /\ MailOf[worker[w].row] \in Mails
           /\ inbox[worker[w].row] \in InboxRows
           /\ emails[MailOf[worker[w].row]] \in MailRows
           /\ inbox[worker[w].row].status = "leased" =>
                 /\ inbox[worker[w].row].status \in BlockingInbox
                 /\ inbox[worker[w].row].generation \in Generations
                 /\ inbox[worker[w].row].generation # None
                 /\ UnresolvedRow(inbox[worker[w].row].generation)
PROOF
  <1>1. worker[w] \in Consumers
    BY DEF OwnershipInv, TypeOK, Off
  <1>2. worker[w].row \in Events
    BY <1>1 DEF Consumers
  <1>3. /\ MailOf[worker[w].row] \in Mails
        /\ inbox[worker[w].row] \in InboxRows
        /\ emails[MailOf[worker[w].row]] \in MailRows
    BY <1>2 DEF OwnershipAssumption, OwnershipInv, TypeOK
  <1>4. ASSUME inbox[worker[w].row].status = "leased"
        PROVE  /\ inbox[worker[w].row].status \in BlockingInbox
               /\ inbox[worker[w].row].generation \in Generations
               /\ inbox[worker[w].row].generation # None
    BY <1>2, <1>3, <1>4 DEF OwnershipInv, LinkInOwner, InboxRows, BlockingInbox
  <1> QED BY <1>1, <1>2, <1>3, <1>4 DEF UnresolvedRow

\* A consumer that goes on or off keeps the consumers well typed.
LEMMA WorkersTyped ==
    ASSUME OwnershipInv, NEW w \in Workers
    PROVE  /\ [worker EXCEPT ![w] = Off] \in [Workers -> {Off} \cup Consumers]
           /\ worker[w] \in Consumers =>
                 \A pc \in {"claimed", "applied", "review", "elected"} :
                    [worker EXCEPT ![w].pc = pc] \in [Workers -> {Off} \cup Consumers]
PROOF
  <1>1. worker \in [Workers -> {Off} \cup Consumers]
    BY DEF OwnershipInv, TypeOK
  <1>2. ASSUME worker[w] \in Consumers,
               NEW pc \in {"claimed", "applied", "review", "elected"}
        PROVE  [worker EXCEPT ![w].pc = pc] \in [Workers -> {Off} \cup Consumers]
    <2>1. [worker[w] EXCEPT !.pc = pc] \in Consumers
      BY <1>2 DEF Consumers
    <2> QED BY <1>1, <2>1
  <1> QED BY <1>1, <1>2

\* The status of an event may change, its generation stays.
LEMMA RowTyped ==
    ASSUME NEW row \in InboxRows, NEW status \in BlockingInbox \cup {"completed"}
    PROVE  /\ [row EXCEPT !.status = status] \in InboxRows
           /\ [row EXCEPT !.status = status].status = status
           /\ [row EXCEPT !.status = status].generation = row.generation
           /\ status # "absent"
PROOF
  BY DEF InboxRows, BlockingInbox

LEMMA InsertKeeps ==
    ASSUME OwnershipAssumption, OwnershipInv, NEW e \in Events, insert(e)
    PROVE  OwnershipInv'
PROOF
  <1>1. PICK g \in Current(ownership) :
           inbox' = [inbox EXCEPT ![e] = [AbsentRow EXCEPT !.status = "pending", !.generation = g]]
    BY DEF insert
  <1> DEFINE row == [AbsentRow EXCEPT !.status = "pending", !.generation = g]
             m == MailOf[e]
  <1>2. row \in InboxRows /\ row.status # "absent" /\ row.generation = g
    BY DEF InboxRows, AbsentRow, BlockingInbox, Generations, Current
  <1>3. m \in Mails /\ emails[m] \in MailRows
    BY DEF OwnershipAssumption, OwnershipInv, TypeOK
  <1>4. emails' = [emails EXCEPT ![m] = emails[m]]
    BY DEF insert, OwnershipInv, TypeOK
  <1>5. /\ worker' \in [Workers -> {Off} \cup Consumers]
        /\ UNCHANGED <<ownership, op>> /\ inbox[e].status = "absent"
    BY DEF insert, OwnershipInv, TypeOK
  <1>6. emails[m].status # "absent" => emails[m].owner # None
    BY <1>3 DEF OwnershipInv, LinkInOwner
  <1>7. inbox' = [inbox EXCEPT ![e] = row]
    BY <1>1
  <1> HIDE DEF row, m
  <1> QED BY <1>2, <1>3, <1>4, <1>5, <1>6, <1>7, WorkKeeps

LEMMA ClaimKeeps ==
    ASSUME OwnershipAssumption, OwnershipInv, NEW w \in Workers, NEW e \in Events,
           claim_batch(w, e)
    PROVE  OwnershipInv'
PROOF
  <1> DEFINE row == [inbox[e] EXCEPT !.status = "leased", !.attempt = @ + 1]
             m == MailOf[e]
             consumer == [pc |-> "claimed", row |-> e, attempt |-> inbox[e].attempt + 1]
  <1>1. inbox[e] \in InboxRows /\ m \in Mails /\ emails[m] \in MailRows
    BY DEF OwnershipAssumption, OwnershipInv, TypeOK
  <1>2. /\ row \in InboxRows /\ row.status # "absent"
        /\ row.generation = inbox[e].generation
    <2>1. inbox[e].attempt + 1 \in Nat
      BY <1>1 DEF InboxRows
    <2>2. \A n \in Nat : LET new == [inbox[e] EXCEPT !.status = "leased", !.attempt = n]
                          IN /\ new \in InboxRows /\ new.status # "absent"
                             /\ new.generation = inbox[e].generation
      BY <1>1 DEF InboxRows, BlockingInbox
    <2> QED BY <2>1, <2>2
  <1>3. emails' = [emails EXCEPT ![m] = emails[m]]
    BY DEF claim_batch, OwnershipInv, TypeOK
  <1>4. inbox' = [inbox EXCEPT ![e] = row]
    BY DEF claim_batch, OwnershipInv, TypeOK
  <1>5. consumer \in Consumers
    BY <1>1 DEF Consumers, InboxRows
  <1>6. /\ worker' \in [Workers -> {Off} \cup Consumers]
        /\ UNCHANGED <<ownership, op>> /\ inbox[e].status \in BlockingInbox
    BY <1>5 DEF claim_batch, OwnershipInv, TypeOK, BlockingInbox
  <1>7. emails[m].status # "absent" => emails[m].owner # None
    BY <1>1 DEF OwnershipInv, LinkInOwner
  <1> HIDE DEF row, m, consumer
  <1> QED BY <1>1, <1>2, <1>3, <1>4, <1>6, <1>7, WorkKeeps

\* complete and fail write the event's row alone.
LEMMA SettleKeeps ==
    ASSUME OwnershipAssumption, OwnershipInv, NEW w \in Workers,
           complete(w) \/ fail(w)
    PROVE  OwnershipInv'
PROOF
  <1>1. PICK status \in {"completed", "manual_review"} :
           Settles(w, status) /\ worker[w].pc # "idle" /\ Held(w)
    BY DEF complete, fail, At
  <1> DEFINE e == worker[w].row
             m == MailOf[e]
             row == [inbox[e] EXCEPT !.status = status]
  <1>2. /\ e \in Events /\ m \in Mails /\ inbox[e] \in InboxRows /\ emails[m] \in MailRows
        /\ inbox[e].status \in BlockingInbox
    BY <1>1, HeldFacts DEF Held
  <1>3. /\ row \in InboxRows /\ row.status # "absent"
        /\ row.generation = inbox[e].generation
    BY <1>2, RowTyped DEF BlockingInbox
  <1>4. /\ inbox' = [inbox EXCEPT ![e] = row]
        /\ emails' = [emails EXCEPT ![m] = emails[m]]
        /\ worker' = [worker EXCEPT ![w] = Off] /\ UNCHANGED <<ownership, op>>
    BY <1>1 DEF Settles, complete, fail, OwnershipInv, TypeOK
  <1>5. worker' \in [Workers -> {Off} \cup Consumers]
    BY <1>4, WorkersTyped
  <1>6. emails[m].status # "absent" => emails[m].owner # None
    BY <1>2 DEF OwnershipInv, LinkInOwner
  <1> HIDE DEF row, m, e
  <1> QED BY <1>2, <1>3, <1>4, <1>5, <1>6, WorkKeeps

LEMMA EffectKeeps ==
    ASSUME OwnershipAssumption, OwnershipInv, NEW w \in Workers,
           begin_processing_effect(w)
    PROVE  OwnershipInv'
PROOF
  <1> DEFINE e == worker[w].row
             m == MailOf[e]
             row == [inbox[e] EXCEPT !.effect = TRUE]
             mail == [emails[m] EXCEPT !.effects = TRUE]
  <1>1. worker[w].pc # "idle" /\ Held(w)
    BY DEF begin_processing_effect, At, Authorized
  <1>2. /\ e \in Events /\ m \in Mails /\ inbox[e] \in InboxRows /\ emails[m] \in MailRows
        /\ inbox[e].status \in BlockingInbox
    BY <1>1, HeldFacts DEF Held
  <1>3. /\ row \in InboxRows /\ row.status # "absent"
        /\ row.generation = inbox[e].generation
    BY <1>2 DEF InboxRows, BlockingInbox
  <1>4. /\ mail \in MailRows /\ mail.status = emails[m].status
        /\ mail.owner = emails[m].owner /\ mail.link = emails[m].link
    BY <1>2 DEF MailRows
  <1>5. /\ inbox' = [inbox EXCEPT ![e] = row]
        /\ emails' = [emails EXCEPT ![m] = mail]
        /\ worker' \in [Workers -> {Off} \cup Consumers] /\ UNCHANGED <<ownership, op>>
    BY DEF begin_processing_effect, OwnershipInv, TypeOK
  <1>6. emails[m].status # "absent" => emails[m].owner # None
    BY <1>2 DEF OwnershipInv, LinkInOwner
  <1> HIDE DEF row, m, e, mail
  <1> QED BY <1>2, <1>3, <1>4, <1>5, <1>6, WorkKeeps

LEMMA FinishKeeps ==
    ASSUME OwnershipAssumption, OwnershipInv, NEW w \in Workers,
           finish_email_processing(w) \/ finish_email_processing_failure(w)
    PROVE  OwnershipInv'
PROOF
  <1> DEFINE e == worker[w].row
             m == MailOf[e]
  <1>1. /\ worker[w].pc # "idle" /\ Held(w) /\ emails[m].owner = inbox[e].generation
        /\ UNCHANGED <<ownership, op>>
    BY DEF finish_email_processing, finish_email_processing_failure, At, Authorized
  <1>2. /\ e \in Events /\ m \in Mails /\ inbox[e] \in InboxRows /\ emails[m] \in MailRows
        /\ inbox[e].status \in BlockingInbox /\ inbox[e].generation # None
        /\ UnresolvedRow(inbox[e].generation)
    BY <1>1, HeldFacts DEF Held
  <1>3. PICK mail \in MailRows, status \in BlockingInbox \cup {"completed"} :
           /\ Settles(w, status)
           /\ emails' = [emails EXCEPT ![m] = mail]
           /\ mail.owner = emails[m].owner /\ mail.link \in {emails[m].link, None}
    <2>1. emails \in [Mails -> MailRows] /\ emails[m].link \in {None} \cup Events
      BY <1>2 DEF OwnershipInv, TypeOK, MailRows
    <2>2. CASE finish_email_processing(w)
      <3>1. PICK s \in {"waiting_approval", "no_action", "manual_review"} :
              /\ emails' = [emails EXCEPT ![m].status = s,
                               ![m].link = IF s = "manual_review" THEN @ ELSE None]
              /\ Settles(w, IF s = "manual_review" THEN s ELSE "completed")
        BY <2>2 DEF finish_email_processing
      <3> DEFINE link == IF s = "manual_review" THEN emails[m].link ELSE None
                 mail == [emails[m] EXCEPT !.status = s, !.link = link]
                 status == IF s = "manual_review" THEN s ELSE "completed"
      <3>2. s \in EmailStatuses /\ status \in BlockingInbox \cup {"completed"}
        BY DEF EmailStatuses, BlockingInbox
      <3>3. link \in {None} \cup Events
        BY <2>1
      <3>4. mail \in MailRows /\ mail.owner = emails[m].owner /\ mail.link = link
        <4> HIDE DEF link
        <4> QED BY <1>2, <3>2, <3>3 DEF MailRows
      <3>5. emails' = [emails EXCEPT ![m] = mail]
        BY <1>2, <2>1, <3>1
      <3> QED BY <3>1, <3>2, <3>4, <3>5
    <2>3. CASE finish_email_processing_failure(w)
      <3>1. PICK s \in {"retry_wait", "dead_letter", "manual_review"} :
              emails' = [emails EXCEPT ![m].status = s] /\ Settles(w, s)
        BY <2>3 DEF finish_email_processing_failure, Resolutions
      <3> DEFINE mail == [emails[m] EXCEPT !.status = s]
      <3>2. s \in EmailStatuses /\ s \in BlockingInbox \cup {"completed"}
        BY DEF EmailStatuses, BlockingInbox
      <3>3. mail \in MailRows /\ mail.owner = emails[m].owner /\ mail.link = emails[m].link
        BY <1>2, <3>2 DEF MailRows
      <3>4. emails' = [emails EXCEPT ![m] = mail]
        BY <1>2, <2>1, <3>1
      <3> QED BY <3>1, <3>2, <3>3, <3>4
    <2> QED BY <2>2, <2>3
  <1> DEFINE row == [inbox[e] EXCEPT !.status = status]
  <1>4. /\ row \in InboxRows /\ row.status # "absent"
        /\ row.generation = inbox[e].generation
    BY <1>2, RowTyped
  <1>5. /\ inbox' = [inbox EXCEPT ![e] = row] /\ worker' = [worker EXCEPT ![w] = Off]
    BY <1>3 DEF Settles, OwnershipInv, TypeOK
  <1>6. worker' \in [Workers -> {Off} \cup Consumers]
    BY <1>5, WorkersTyped
  <1> HIDE DEF row, e, m
  <1> QED BY <1>1, <1>2, <1>3, <1>4, <1>5, <1>6, WorkKeeps

LEMMA RecoverKeeps ==
    ASSUME OwnershipAssumption, OwnershipInv, NEW e \in Events,
           recover_expired_leases(e)
    PROVE  OwnershipInv'
PROOF
  <1> DEFINE m == MailOf[e]
             linked == emails[m].link = e
  <1>1. PICK status \in {"manual_review", "retry_wait", "dead_letter"} :
           /\ inbox' = [inbox EXCEPT ![e].status = status]
           /\ emails' = IF linked THEN [emails EXCEPT ![m].status = status] ELSE emails
    BY DEF recover_expired_leases
  <1>2. /\ m \in Mails /\ inbox[e] \in InboxRows /\ emails[m] \in MailRows
        /\ inbox[e].status \in BlockingInbox /\ UNCHANGED <<ownership, op, worker>>
    BY DEF recover_expired_leases, OwnershipAssumption, OwnershipInv, TypeOK, BlockingInbox
  <1> DEFINE row == [inbox[e] EXCEPT !.status = status]
             mail == IF linked THEN [emails[m] EXCEPT !.status = status] ELSE emails[m]
  <1>3. /\ row \in InboxRows /\ row.status # "absent"
        /\ row.generation = inbox[e].generation
    BY <1>2, RowTyped DEF BlockingInbox
  <1>4. status \in EmailStatuses
    BY DEF EmailStatuses
  <1>5. /\ mail \in MailRows /\ mail.link = emails[m].link /\ mail.owner = emails[m].owner
        /\ ~linked => mail = emails[m]
    BY <1>2, <1>4 DEF MailRows
  <1>6. linked => UnresolvedRow(emails[m].owner) /\ emails[m].owner # None
    <2> SUFFICES ASSUME linked
                 PROVE  UnresolvedRow(emails[m].owner) /\ emails[m].owner # None
      OBVIOUS
    <2>1. e # None
      BY DEF OwnershipAssumption
    <2>2. inbox[e].generation = emails[m].owner /\ inbox[e].generation # None
      BY <1>2, <2>1 DEF OwnershipInv, LinkInOwner
    <2> QED BY <1>2, <2>2 DEF UnresolvedRow
  <1>7. /\ inbox' = [inbox EXCEPT ![e] = row]
        /\ emails' = [emails EXCEPT ![m] = mail]
        /\ worker' \in [Workers -> {Off} \cup Consumers]
    BY <1>1, <1>2 DEF OwnershipInv, TypeOK
  <1>8. mail.status # "absent" => mail.owner # None
    BY <1>2, <1>5, <1>6 DEF OwnershipInv, LinkInOwner
  <1>9. mail.status \in BlockingEmail =>
           \/ emails[m].status \in BlockingEmail
           \/ UnresolvedRow(mail.owner)
    BY <1>5, <1>6
  <1> HIDE DEF row, mail, m, linked
  <1> QED BY <1>2, <1>3, <1>5, <1>7, <1>8, <1>9, WorkKeeps

\* An operator's requeue takes no lock: it can run between the two checks of a
\* retirement, and the row it resolves is under a generation that is not done.
LEMMA RequeueKeeps ==
    ASSUME OwnershipAssumption, OwnershipInv, NEW e \in Events, Requeue(e)
    PROVE  OwnershipInv'
PROOF
  <1> DEFINE m == MailOf[e]
             row == [inbox[e] EXCEPT !.status = "pending"]
             mail == [emails[m] EXCEPT !.status = "retry_wait"]
  <1>1. /\ m \in Mails /\ inbox[e] \in InboxRows /\ emails[m] \in MailRows
        /\ inbox[e].status \in BlockingInbox /\ UNCHANGED <<ownership, op, worker>>
    BY DEF Requeue, OwnershipAssumption, OwnershipInv, TypeOK, BlockingInbox
  <1>2. /\ row \in InboxRows /\ row.status # "absent"
        /\ row.generation = inbox[e].generation
    BY <1>1, RowTyped DEF BlockingInbox
  <1>3. /\ mail \in MailRows /\ mail.link = emails[m].link /\ mail.owner = emails[m].owner
    BY <1>1 DEF MailRows, EmailStatuses
  <1>4. UnresolvedRow(mail.owner) /\ mail.owner # None
    <2>1. emails[m].owner = inbox[e].generation /\ inbox[e].status \in {"manual_review", "dead_letter"}
      BY DEF Requeue
    <2>2. inbox[e].generation # None
      BY <2>1 DEF OwnershipInv, LinkInOwner
    <2> QED BY <1>1, <1>3, <2>1, <2>2 DEF UnresolvedRow
  <1>5. /\ inbox' = [inbox EXCEPT ![e] = row]
        /\ emails' = [emails EXCEPT ![m] = mail]
        /\ worker' \in [Workers -> {Off} \cup Consumers]
    BY DEF Requeue, OwnershipInv, TypeOK
  <1> HIDE DEF row, mail, m
  <1> QED BY <1>1, <1>2, <1>3, <1>4, <1>5, WorkKeeps

\* On an e-mail that exists, an election is a creation's: it meets a shell that
\* no creation met yet, or it is the event the e-mail is linked to.
LEMMA Elects ==
    ASSUME NEW mail \in MailRows, mail.status # "absent",
           NEW kind \in ChangeKinds, NEW owns \in BOOLEAN,
           decide_email_event(mail.status, mail.seen, kind, owns,
                              mail.effects, mail.deleted).should_process
    PROVE  /\ kind = "create" /\ ~mail.deleted
           /\ (mail.status = "ingested" /\ ~mail.seen) \/ owns
PROOF
  <1> DEFINE d == decide_email_event(mail.status, mail.seen, kind, owns,
                                     mail.effects, mail.deleted)
  <1>1. mail.seen \in BOOLEAN /\ mail.deleted \in BOOLEAN /\ mail.effects \in BOOLEAN
    BY DEF MailRows
  <1>2. ASSUME NEW status, NEW seen, NEW reason
        PROVE  ~Preserve(status, seen, reason).should_process
    BY DEF Preserve, Decision
  <1>3. ~mail.deleted
    <2>1. mail.deleted => d = Preserve(mail.status, mail.seen, "source_deleted_preserved")
      BY <1>1 DEF decide_email_event
    <2> QED BY <1>2, <2>1
  <1>4. kind = "create"
    <2>1. kind \in {"update", "read"} => d = Preserve(mail.status, mail.seen, "metadata_event")
      BY <1>3 DEF decide_email_event
    <2>2. kind = "delete" => d = DecideDelete(mail.status, mail.seen, mail.effects)
      BY <1>3 DEF decide_email_event
    <2>3. ~DecideDelete(mail.status, mail.seen, mail.effects).should_process
      BY <1>1 DEF DecideDelete, Preserve, Decision
    <2> QED BY <1>2, <2>1, <2>2, <2>3 DEF ChangeKinds
  <1>5. d = DecideCreate(mail.status, mail.seen, owns, mail.effects)
    BY <1>3, <1>4 DEF decide_email_event
  <1>6. d = Preserve(mail.status, mail.seen, "duplicate_create")
        \/ (mail.status = "ingested" /\ ~mail.seen) \/ owns
    BY <1>5 DEF DecideCreate
  <1> QED BY <1>2, <1>3, <1>4, <1>6

LEMMA ApplyKeeps ==
    ASSUME OwnershipAssumption, OwnershipInv, NEW w \in Workers,
           apply_email_event(w)
    PROVE  OwnershipInv'
PROOF
  <1> DEFINE e == worker[w].row
             m == MailOf[e]
             old == emails[m]
             d == DecisionFor(w)
             shell == Shell(w)
             cancelled == d.new_status = "cancelled"
             elected == [shell EXCEPT !.status = "processing", !.seen = TRUE,
                                      !.link = IF @ = None THEN e ELSE @]
             deleting == KindOf[e] = "delete" /\ ~shell.deleted
             removed == [shell EXCEPT !.status = d.new_status, !.deleted = TRUE,
                                      !.link = IF cancelled THEN None ELSE @]
  <1>1. /\ worker[w].pc # "idle" /\ Held(w) /\ UNCHANGED <<ownership, inbox, op>>
    BY DEF apply_email_event, At
  <1>2. /\ worker[w] \in Consumers /\ e \in Events /\ m \in Mails
        /\ inbox[e] \in InboxRows /\ old \in MailRows
        /\ inbox[e].status \in BlockingInbox /\ inbox[e].generation # None
        /\ inbox[e].generation \in Generations
        /\ UnresolvedRow(inbox[e].generation)
        /\ KindOf[e] \in ChangeKinds /\ e # None
    BY <1>1, HeldFacts DEF Held, OwnershipAssumption
  <1>3. /\ inbox' = [inbox EXCEPT ![e] = inbox[e]] /\ inbox[e].status # "absent"
    BY <1>1, <1>2 DEF OwnershipInv, TypeOK, BlockingInbox
  <1>4. PICK pc \in {"applied", "review", "elected"} : Goes(w, pc)
    BY DEF apply_email_event
  <1>5. worker' \in [Workers -> {Off} \cup Consumers]
    BY <1>2, <1>4, WorkersTyped DEF Goes
  <1>6. /\ shell \in MailRows /\ shell.status # "absent" /\ shell.owner # None
        /\ old.status = "absent" =>
              /\ shell.owner = inbox[e].generation /\ shell.link = None
        /\ old.status # "absent" => shell = old
    <2>1. CASE old.status = "absent"
      <3>1. shell = [AbsentMail EXCEPT !.status = "ingested", !.owner = inbox[e].generation]
        BY <2>1 DEF Shell
      <3> QED BY <1>2, <2>1, <3>1 DEF MailRows, AbsentMail, EmailStatuses
    <2>2. CASE old.status # "absent"
      <3>1. shell = old
        BY <2>2 DEF Shell
      <3> QED BY <1>2, <2>2, <3>1 DEF OwnershipInv, LinkInOwner
    <2> QED BY <2>1, <2>2
  <1>7. d.should_process /\ ~NeedsReview(w) => shell.owner = inbox[e].generation
    <2> SUFFICES ASSUME d.should_process, ~NeedsReview(w), old.status # "absent"
                 PROVE  old.owner = inbox[e].generation
      BY <1>6
    <2>1. /\ KindOf[e] = "create" /\ ~old.deleted
          /\ (old.status = "ingested" /\ ~old.seen) \/ old.link = e
      <3> DEFINE owns == old.link = e
      <3>1. decide_email_event(old.status, old.seen, KindOf[e], owns,
                               old.effects, old.deleted).should_process
        BY DEF DecisionFor
      <3>2. owns \in BOOLEAN /\ (owns => old.link = e)
        OBVIOUS
      <3> HIDE DEF d, old, e, m, owns
      <3> QED BY <1>2, <3>1, <3>2, Elects
    <2>2. CASE old.status = "ingested" /\ ~old.seen
      <3>1. old.status \in BlockingEmail
        BY <2>2 DEF BlockingEmail
      <3> QED BY <2>1, <2>2, <3>1 DEF NeedsReview
    <2>3. CASE old.link = e
      BY <1>2, <2>3 DEF OwnershipInv, LinkInOwner
    <2> QED BY <2>1, <2>2, <2>3
  <1>8. CASE NeedsReview(w)
    <2>1. emails' = [emails EXCEPT ![m] = old]
      BY <1>2, <1>8 DEF apply_email_event, OwnershipInv, TypeOK
    <2>2. old.status # "absent" => old.owner # None
      BY <1>2 DEF OwnershipInv, LinkInOwner
    <2> HIDE DEF e, m, old
    <2> QED BY <1>1, <1>2, <1>3, <1>5, <2>1, <2>2, WorkKeeps DEF old
  <1>9. CASE ~NeedsReview(w) /\ d.should_process
    <2>1. emails' = [emails EXCEPT ![m] = elected]
      BY <1>9 DEF apply_email_event
    <2>2. /\ elected \in MailRows /\ elected.owner = shell.owner
          /\ elected.status = "processing"
          /\ elected.link = shell.link \/ elected.link = e
      <3> DEFINE link == IF shell.link = None THEN e ELSE shell.link
      <3>1. link \in {None} \cup Events
        BY <1>2, <1>6 DEF MailRows
      <3>2. elected = [shell EXCEPT !.status = "processing", !.seen = TRUE, !.link = link]
        OBVIOUS
      <3>3. link = shell.link \/ link = e
        OBVIOUS
      <3> HIDE DEF link, shell, elected
      <3> QED BY <1>6, <3>1, <3>2, <3>3 DEF MailRows, EmailStatuses
    <2>3. elected.owner = inbox[e].generation
      BY <1>7, <1>9, <2>2
    <2>4. elected.link # None =>
             \/ elected.link = e
             \/ elected.link = old.link /\ elected.owner = old.owner
      <3> HIDE DEF elected, shell
      <3> QED BY <1>6, <2>2
    <2> HIDE DEF e, m, elected
    <2> QED BY <1>1, <1>2, <1>3, <1>5, <2>1, <2>2, <2>3, <2>4, WorkKeeps
  <1>10. CASE ~NeedsReview(w) /\ ~d.should_process
    <2> DEFINE mail == IF ~deleting THEN shell ELSE removed
    <2>1. emails' = [emails EXCEPT ![m] = mail]
      <3>1. emails' = [emails EXCEPT ![m] =
               IF ~deleting THEN shell
               ELSE [shell EXCEPT !.status = d.new_status, !.deleted = TRUE,
                                  !.link = IF cancelled THEN None ELSE @]]
        BY <1>10 DEF apply_email_event
      <3> QED BY <3>1
    <2>2. deleting => d.new_status = "cancelled" \/ (old.status # "absent" /\ d.new_status = old.status)
      <3>1. /\ old.status \in EmailStatuses \cup {"absent"}
            /\ old.seen \in BOOLEAN /\ old.deleted \in BOOLEAN /\ old.effects \in BOOLEAN
        BY <1>2 DEF MailRows
      <3>2. d = decide_email_event(old.status, old.seen, KindOf[e], old.link = e,
                                   old.effects, old.deleted)
        BY DEF DecisionFor
      <3> QED
        BY <1>2, <3>1, <3>2
        DEF decide_email_event, DecideFirst, DecideCreate, DecideDelete, Process,
            Preserve, Decision, ChangeKinds, EmailStatuses
    <2>3. /\ mail \in MailRows /\ mail.owner = shell.owner /\ mail.status # "absent"
          /\ mail.link = shell.link \/ mail.link = None
          /\ mail.status = shell.status \/ mail.status = "cancelled"
      <3>1. CASE ~deleting
        BY <1>6, <3>1
      <3>2. CASE deleting
        <4> DEFINE status == d.new_status
                   link == IF cancelled THEN None ELSE shell.link
        <4>1. /\ status \in EmailStatuses /\ status # "absent"
              /\ status = shell.status \/ status = "cancelled"
          <5> HIDE DEF shell
          <5> QED BY <1>2, <1>6, <2>2, <3>2 DEF MailRows, EmailStatuses
        <4>2. link \in {None} \cup Events /\ (link = shell.link \/ link = None)
          BY <1>6 DEF MailRows
        <4>3. mail = [shell EXCEPT !.status = status, !.deleted = TRUE, !.link = link]
          BY <3>2
        <4> HIDE DEF status, link, mail, shell
        <4> QED BY <1>6, <4>1, <4>2, <4>3 DEF MailRows
      <3> QED BY <3>1, <3>2
    <2>4. mail.link # None => mail.link = old.link /\ mail.owner = old.owner
      <3> HIDE DEF mail, shell
      <3> QED BY <1>6, <2>3
    <2>5. mail.status \in BlockingEmail =>
             \/ old.status \in BlockingEmail /\ mail.owner = old.owner
             \/ UnresolvedRow(mail.owner)
      <3>1. "cancelled" \notin BlockingEmail
        BY DEF BlockingEmail
      <3> HIDE DEF mail, shell
      <3> QED BY <1>2, <1>6, <2>3, <3>1
    <2>6. mail.owner # None
      <3> HIDE DEF mail, shell
      <3> QED BY <1>6, <2>3
    <2> HIDE DEF e, m, mail, old
    <2> QED BY <1>1, <1>2, <1>3, <1>5, <2>1, <2>3, <2>4, <2>5, <2>6, WorkKeeps DEF old
  <1> QED BY <1>8, <1>9, <1>10

LEMMA LoseKeeps ==
    ASSUME OwnershipInv, NEW w \in Workers, LoseAuthority(w)
    PROVE  OwnershipInv'
PROOF
  <1>1. /\ worker' \in [Workers -> {Off} \cup Consumers]
        /\ UNCHANGED <<ownership, inbox, emails, op>>
    BY WorkersTyped DEF LoseAuthority
  <1> QED
    BY <1>1
    DEF OwnershipInv, TypeOK, OneIngress, Underway, LinkInOwner, RetiredIsDone,
        Generations, InboxRows, MailRows, UnresolvedRow, UnresolvedMail

-----------------------------------------------------------------------------
\* Layer 2: transitions between generations.

Transitions == {"idle", "locked", "draining", "inserted", "retiring"}

\* A transition leaves the work alone.  It may retire a generation with nothing
\* unresolved under it, and what it still has to do is in order.
LEMMA LedgerKeeps ==
    ASSUME OwnershipInv, UNCHANGED <<inbox, emails, worker>>,
           ownership' \in Seq(OwnershipRows), Len(ownership') >= Len(ownership),
           InOrder(ownership'),
           op'.pc \in Transitions, op'.generation \in {None} \cup Generations',
           op'.rows \in Seq(OwnershipRows),
           op' = [pc |-> op'.pc, generation |-> op'.generation, rows |-> op'.rows],
           \A g \in 1..Len(ownership') : ownership'[g].state = "retired" =>
              \/ g \in Generations /\ ownership[g].state = "retired"
              \/ ~UnresolvedRow(g) /\ ~UnresolvedMail(g),
           Underway'
    PROVE  OwnershipInv'
PROOF
  <1>1. Generations \subseteq Generations'
    BY DEF OwnershipInv, TypeOK, Generations
  <1>2. op' \in [pc : Transitions, generation : {None} \cup Generations', rows : Seq(OwnershipRows)]
    <2> DEFINE pc == op'.pc  generation == op'.generation  rows == op'.rows
    <2>1. op' = [pc |-> pc, generation |-> generation, rows |-> rows]
      OBVIOUS
    <2>2. pc \in Transitions /\ generation \in {None} \cup Generations' /\ rows \in Seq(OwnershipRows)
      OBVIOUS
    <2> HIDE DEF pc, generation, rows
    <2> QED BY <2>1, <2>2
  <1>3. \A e \in Events : inbox'[e] \in InboxRows'
    BY <1>1 DEF OwnershipInv, TypeOK, InboxRows
  <1>4. \A m \in Mails : emails'[m] \in MailRows'
    BY <1>1 DEF OwnershipInv, TypeOK, MailRows
  <1>5. TypeOK'
    <2>1. inbox' \in [Events -> InboxRows'] /\ emails' \in [Mails -> MailRows']
      BY <1>3, <1>4 DEF OwnershipInv, TypeOK
    <2> QED BY <1>2, <2>1 DEF OwnershipInv, TypeOK, Transitions
  <1>6. OneIngress'
    BY DEF OneIngress
  <1>7. LinkInOwner'
    BY DEF OwnershipInv, LinkInOwner
  <1>8. RetiredIsDone'
    <2> SUFFICES ASSUME NEW g \in 1..Len(ownership'), ownership'[g].state = "retired"
                 PROVE  ~UnresolvedRow(g)' /\ ~UnresolvedMail(g)'
      BY DEF RetiredIsDone, Generations
    <2>1. ~UnresolvedRow(g) /\ ~UnresolvedMail(g)
      BY DEF OwnershipInv, RetiredIsDone
    <2> QED BY <2>1 DEF UnresolvedRow, UnresolvedMail
  <1> QED BY <1>5, <1>6, <1>7, <1>8 DEF OwnershipInv

LEMMA BootstrapKeeps ==
    ASSUME OwnershipAssumption, OwnershipInv, NEW name \in Pipelines, bootstrap(name)
    PROVE  OwnershipInv'
PROOF
  <1>1. Row(name, 1) \in OwnershipRows /\ Row(name, 1).state = "current_ingress"
    BY DEF OwnershipAssumption, Row, OwnershipRows, States, LeaseStates
  <1>2. ownership' = <<Row(name, 1)>> /\ ownership = <<>> /\ op.pc = "idle"
        /\ UNCHANGED <<inbox, emails, op, worker>>
    BY DEF bootstrap, Unlocked
  <1>3. /\ ownership' \in Seq(OwnershipRows) /\ Len(ownership') >= Len(ownership)
        /\ Len(ownership') = 1 /\ ownership'[1].state = "current_ingress"
    BY <1>1, <1>2
  <1>4. InOrder(ownership')
    BY <1>3 DEF InOrder
  <1>5. op' \in [pc : Transitions, generation : {None} \cup Generations, rows : Seq(OwnershipRows)]
    BY <1>2 DEF OwnershipInv, TypeOK, Transitions
  <1>6. op'.generation \in {None} \cup Generations'
    BY <1>2, <1>3, <1>5 DEF Generations
  <1>7. Underway'
    BY <1>2 DEF Underway
  <1> QED BY <1>2, <1>3, <1>4, <1>5, <1>6, <1>7, LedgerKeeps

\* A generation that stops taking in mail or comes to its end leaves the table
\* in order.
LEMMA StateKeepsOrder ==
    ASSUME NEW rows, InOrder(rows), NEW g \in 1..Len(rows),
           NEW new, Len(new) = Len(rows),
           new[g].token = rows[g].token,
           new[g].state \in Open => rows[g].state \in Open,
           \A h \in 1..Len(rows) : h # g => new[h] = rows[h]
    PROVE  InOrder(new)
PROOF
  <1>1. \A h \in 1..Len(rows) :
           (new[h].state \in Open => rows[h].state \in Open) /\ new[h].token = rows[h].token
    OBVIOUS
  <1> QED BY <1>1 DEF InOrder

LEMMA QuiesceKeeps ==
    ASSUME OwnershipInv, NEW g \in Generations, quiesce(g)
    PROVE  OwnershipInv'
PROOF
  <1>1. /\ ownership' = [ownership EXCEPT ![g].state = "quiescing"]
        /\ ownership[g].state = "current_ingress"
        /\ op.pc = "idle" /\ UNCHANGED <<inbox, emails, op, worker>>
    BY DEF quiesce, Unlocked, Current
  <1>2. "quiescing" \in States /\ ownership[g].state \in Open
    BY <1>1 DEF States, LeaseStates, Open
  <1>3. ownership \in Seq(OwnershipRows) /\ InOrder(ownership) /\ g \in 1..Len(ownership)
    BY DEF OwnershipInv, TypeOK, OneIngress, Generations
  <1>4. /\ ownership' \in Seq(OwnershipRows) /\ Len(ownership') = Len(ownership)
        /\ InOrder(ownership') /\ ownership'[g].state = "quiescing"
        /\ \A h \in 1..Len(ownership) : h # g => ownership'[h] = ownership[h]
    <2>1. /\ ownership' \in Seq(OwnershipRows) /\ Len(ownership') = Len(ownership)
          /\ ownership'[g].state = "quiescing" /\ ownership'[g].token = ownership[g].token
          /\ \A h \in 1..Len(ownership) : h # g => ownership'[h] = ownership[h]
      <3>1. ownership[g] \in OwnershipRows
        BY <1>3
      <3>2. /\ [ownership[g] EXCEPT !.state = "quiescing"] \in OwnershipRows
            /\ [ownership[g] EXCEPT !.state = "quiescing"].state = "quiescing"
            /\ [ownership[g] EXCEPT !.state = "quiescing"].token = ownership[g].token
        BY <1>2, <3>1 DEF OwnershipRows
      <3> QED BY <1>1, <1>3, <3>2
    <2> QED BY <1>2, <1>3, <2>1, StateKeepsOrder
  <1>5. op' \in [pc : Transitions, generation : {None} \cup Generations, rows : Seq(OwnershipRows)]
    BY <1>1 DEF OwnershipInv, TypeOK, Transitions
  <1>6. op'.generation \in {None} \cup Generations'
    BY <1>4, <1>5 DEF Generations
  <1>7. Underway'
    BY <1>1 DEF Underway
  <1>8. \A h \in 1..Len(ownership') : ownership'[h].state = "retired" =>
           h \in Generations /\ ownership[h].state = "retired"
    BY <1>3, <1>4 DEF Generations
  <1>9. Len(ownership') >= Len(ownership)
    BY <1>3, <1>4
  <1> QED BY <1>1, <1>4, <1>5, <1>6, <1>7, <1>8, <1>9, LedgerKeeps

\* A step of the transaction that holds the lock writes nothing yet.
LEMMA OpKeeps ==
    ASSUME OwnershipInv, UNCHANGED <<ownership, inbox, emails, worker>>,
           NEW pc \in Transitions, NEW g \in {None} \cup Generations,
           NEW rows \in Seq(OwnershipRows),
           op' = [pc |-> pc, generation |-> g, rows |-> rows],
           pc \in {"locked", "draining", "inserted"} =>
              /\ InOrder(rows) /\ Len(rows) >= Len(ownership) /\ g \in Generations
              /\ \A h \in 1..Len(rows) : rows[h].state = "retired" <=>
                    h \in Generations /\ ownership[h].state = "retired",
           pc = "locked" => rows[g].state = "quiescing",
           pc = "draining" => \A h \in 1..Len(rows) : rows[h].state \notin Open,
           pc = "retiring" => /\ g \in Generations /\ ownership[g].state = "draining"
                              /\ ~UnresolvedRow(g)
    PROVE  OwnershipInv'
PROOF
  <1>1. op'.pc = pc /\ op'.generation = g /\ op'.rows = rows
    OBVIOUS
  <1>2. Generations' = Generations
    BY DEF Generations
  <1>3. UnresolvedRow(g)' = UnresolvedRow(g)
    BY DEF UnresolvedRow
  <1>4. Underway'
    <2>1. op'.pc = "retiring" => ~UnresolvedRow(op.generation)'
      BY <1>1 DEF UnresolvedRow
    <2> QED BY <1>1, <1>2, <2>1 DEF Underway
  <1>5. /\ ownership' \in Seq(OwnershipRows) /\ Len(ownership') >= Len(ownership)
        /\ InOrder(ownership')
        /\ \A h \in 1..Len(ownership') : ownership'[h].state = "retired" =>
              h \in Generations /\ ownership[h].state = "retired"
    BY DEF OwnershipInv, TypeOK, OneIngress, Generations
  <1> QED BY <1>1, <1>2, <1>4, <1>5, LedgerKeeps

LEMMA RollbackKeeps ==
    ASSUME OwnershipInv, UNCHANGED <<ownership, inbox, emails, worker>>, op' = Rest
    PROVE  OwnershipInv'
PROOF
  <1>1. <<>> \in Seq(OwnershipRows) /\ "idle" \in Transitions
    BY DEF Transitions
  <1> QED BY <1>1, OpKeeps DEF Rest

LEMMA LockKeeps ==
    ASSUME OwnershipInv, NEW g \in Generations, _lock_quiesced(g)
    PROVE  OwnershipInv'
PROOF
  <1>1. /\ op' = [pc |-> "locked", generation |-> g, rows |-> ownership]
        /\ ownership[g].state = "quiescing"
        /\ UNCHANGED <<ownership, inbox, emails, worker>>
    BY DEF _lock_quiesced
  <1>2. ownership \in Seq(OwnershipRows) /\ InOrder(ownership) /\ "locked" \in Transitions
    BY DEF OwnershipInv, TypeOK, OneIngress, Transitions
  <1>3. Len(ownership) >= Len(ownership)
    BY <1>2
  <1>4. \A h \in 1..Len(ownership) : ownership[h].state = "retired" <=>
           h \in Generations /\ ownership[h].state = "retired"
    BY DEF Generations
  <1> QED BY <1>1, <1>2, <1>3, <1>4, OpKeeps

LEMMA DrainKeeps ==
    ASSUME OwnershipInv, _mark_draining
    PROVE  OwnershipInv'
PROOF
  <1> DEFINE g == op.generation
             rows == [op.rows EXCEPT ![g].state = "draining"]
  <1>1. /\ op.pc = "locked" /\ UNCHANGED <<ownership, inbox, emails, worker>>
        /\ op' = [op EXCEPT !.pc = "draining", !.rows[op.generation].state = "draining"]
    BY DEF _mark_draining
  <1>2. /\ op \in [pc : Transitions, generation : {None} \cup Generations,
                   rows : Seq(OwnershipRows)]
        /\ InOrder(op.rows) /\ Len(op.rows) >= Len(ownership) /\ g \in Generations
        /\ op.rows[g].state = "quiescing"
        /\ \A h \in 1..Len(op.rows) : op.rows[h].state = "retired" <=>
                h \in Generations /\ ownership[h].state = "retired"
    BY <1>1 DEF OwnershipInv, TypeOK, Underway, Transitions
  <1>3. op' = [pc |-> "draining", generation |-> g, rows |-> rows]
    BY <1>1, <1>2
  <1>4. op.rows \in Seq(OwnershipRows) /\ ownership \in Seq(OwnershipRows)
    BY <1>2 DEF OwnershipInv, TypeOK
  <1>5. g \in 1..Len(op.rows)
    BY <1>2, <1>4 DEF Generations
  <1>6. "draining" \in States /\ "draining" \notin Open /\ "draining" \in Transitions
    BY DEF States, LeaseStates, Open, Transitions
  <1>7. /\ rows \in Seq(OwnershipRows) /\ Len(rows) = Len(op.rows)
        /\ InOrder(rows) /\ rows[g].state = "draining"
        /\ \A h \in 1..Len(op.rows) : h # g => rows[h] = op.rows[h]
    <2>1. /\ rows \in Seq(OwnershipRows) /\ Len(rows) = Len(op.rows)
          /\ rows[g].state = "draining" /\ rows[g].token = op.rows[g].token
          /\ \A h \in 1..Len(op.rows) : h # g => rows[h] = op.rows[h]
      <3> HIDE DEF g
      <3>1. op.rows[g] \in OwnershipRows
        BY <1>4, <1>5
      <3>2. /\ [op.rows[g] EXCEPT !.state = "draining"] \in OwnershipRows
            /\ [op.rows[g] EXCEPT !.state = "draining"].state = "draining"
            /\ [op.rows[g] EXCEPT !.state = "draining"].token = op.rows[g].token
        BY <1>6, <3>1 DEF OwnershipRows
      <3> QED BY <1>4, <1>5, <3>2
    <2> HIDE DEF g, rows
    <2>2. rows[g].state \in Open => op.rows[g].state \in Open
      BY <1>6, <2>1
    <2>3. InOrder(op.rows)
      BY <1>2
    <2>4. InOrder(rows)
      BY <1>5, <2>1, <2>2, <2>3, StateKeepsOrder
    <2> QED BY <2>1, <2>4
  <1>8. \A h \in 1..Len(rows) : rows[h].state \notin Open
    <2>1. op.rows[g].state \in Open
      BY <1>2 DEF Open
    <2>2. \A h \in 1..Len(op.rows) : h # g => op.rows[h].state \notin Open
      BY <1>2, <1>5, <2>1 DEF InOrder
    <2> HIDE DEF g, rows
    <2> QED BY <1>6, <1>7, <2>2
  <1>9. \A h \in 1..Len(rows) : rows[h].state = "retired" <=>
                h \in Generations /\ ownership[h].state = "retired"
    <2> HIDE DEF g, rows
    <2> QED BY <1>2, <1>5, <1>7
  <1>10. /\ Len(rows) >= Len(ownership) /\ g \in Generations
         /\ UNCHANGED <<ownership, inbox, emails, worker>>
    BY <1>1, <1>2, <1>7
  <1> HIDE DEF g, rows
  <1> QED BY <1>3, <1>6, <1>7, <1>8, <1>9, <1>10, OpKeeps

\* The successor's row is the only open one and has the highest token.
LEMMA InsertCurrentKeeps ==
    ASSUME OwnershipAssumption, OwnershipInv, NEW name \in Pipelines,
           NEW generation \in 1..BigintMax, NEW token \in 1..BigintMax,
           _insert_current(name, generation, token)
    PROVE  OwnershipInv'
PROOF
  <1>1. CASE op' = Rest
    BY <1>1, RollbackKeeps DEF _insert_current
  <1>2. CASE op' # Rest
    <2> DEFINE new == Row(name, token)
               rows == Append(op.rows, new)
               g == op.generation
    <2>1. /\ op.pc = "draining" /\ token = MaxToken(op.rows) + 1
          /\ op' = [op EXCEPT !.pc = "inserted", !.rows = rows]
          /\ UNCHANGED <<ownership, inbox, emails, worker>>
      BY <1>2 DEF _insert_current
    <2>2. /\ op \in [pc : Transitions, generation : {None} \cup Generations,
                     rows : Seq(OwnershipRows)]
          /\ InOrder(op.rows) /\ Len(op.rows) >= Len(ownership) /\ g \in Generations
          /\ \A h \in 1..Len(op.rows) : op.rows[h].state \notin Open
          /\ \A h \in 1..Len(op.rows) : op.rows[h].state = "retired" <=>
                  h \in Generations /\ ownership[h].state = "retired"
      BY <2>1 DEF OwnershipInv, TypeOK, Underway, Transitions
    <2>3. op' = [pc |-> "inserted", generation |-> g, rows |-> rows]
      BY <2>1, <2>2
    <2>4. /\ new \in OwnershipRows /\ new.state = "current_ingress" /\ new.token = token
      BY DEF Row, OwnershipRows, States, LeaseStates
    <2>5. op.rows \in Seq(OwnershipRows) /\ ownership \in Seq(OwnershipRows)
      BY <2>2 DEF OwnershipInv, TypeOK
    <2> HIDE DEF new
    <2>6. /\ rows \in Seq(OwnershipRows) /\ Len(rows) = Len(op.rows) + 1
          /\ rows[Len(op.rows) + 1] = new
          /\ \A h \in 1..Len(op.rows) : rows[h] = op.rows[h]
      BY <2>4, <2>5
    <2>7. Len(op.rows) \in Nat /\ Len(ownership) \in Nat /\ Len(op.rows) >= 1
      BY <2>2, <2>5 DEF Generations
    <2>8. \A h \in 1..Len(op.rows) : op.rows[h].token < token
      <3>1. \A h \in 1..Len(op.rows) : op.rows[h].token \in 1..BigintMax
        <4>1. \A h \in 1..Len(op.rows) : op.rows[h] \in OwnershipRows
          BY <2>5
        <4> QED BY <4>1 DEF OwnershipRows
      <3>2. \A h \in 1..Len(op.rows) : op.rows[h].token <= MaxToken(op.rows)
        <4> SUFFICES ASSUME NEW h \in 1..Len(op.rows)
                     PROVE  op.rows[h].token <= op.rows[Len(op.rows)].token
          BY DEF MaxToken
        <4>1. Len(op.rows) \in 1..Len(op.rows)
          BY <2>7
        <4>2. CASE h = Len(op.rows)
          BY <3>1, <4>1, <4>2 DEF OwnershipAssumption
        <4>3. CASE h < Len(op.rows)
          BY <2>2, <3>1, <4>1, <4>3 DEF InOrder, OwnershipAssumption
        <4> QED BY <2>7, <4>2, <4>3
      <3>3. MaxToken(op.rows) \in 1..BigintMax
        BY <2>7, <3>1 DEF MaxToken
      <3> QED BY <2>1, <3>1, <3>2, <3>3 DEF OwnershipAssumption
    <2>9. InOrder(rows)
      <3>1. ASSUME NEW h \in 1..Len(rows), NEW k \in 1..Len(rows),
                   rows[h].state \in Open, rows[k].state \in Open
            PROVE  h = k
        BY <2>2, <2>6, <2>7, <3>1
      <3>2. ASSUME NEW h \in 1..Len(rows), NEW k \in 1..Len(rows), h < k
            PROVE  rows[h].token < rows[k].token
        <4>1. h \in 1..Len(op.rows) /\ rows[h] = op.rows[h]
          BY <2>6, <2>7, <3>2
        <4>2. CASE k \in 1..Len(op.rows)
          BY <2>2, <2>6, <3>2, <4>1, <4>2 DEF InOrder
        <4>3. CASE k = Len(op.rows) + 1
          BY <2>4, <2>6, <2>8, <4>1, <4>3
        <4> QED BY <2>6, <2>7, <4>2, <4>3
      <3> QED BY <3>1, <3>2 DEF InOrder
    <2>10. Len(rows) >= Len(ownership)
      BY <2>2, <2>6, <2>7
    <2>11. \A h \in 1..Len(rows) : rows[h].state = "retired" <=>
                  h \in Generations /\ ownership[h].state = "retired"
      <3> SUFFICES ASSUME NEW h \in 1..Len(rows)
                   PROVE  rows[h].state = "retired" <=>
                             h \in Generations /\ ownership[h].state = "retired"
        OBVIOUS
      <3>1. CASE h \in 1..Len(op.rows)
        BY <2>2, <2>6, <3>1
      <3>2. CASE h = Len(op.rows) + 1
        BY <2>2, <2>4, <2>6, <2>7, <3>2 DEF Generations
      <3> QED BY <2>6, <2>7, <3>1, <3>2
    <2>12. "inserted" \in Transitions
      BY DEF Transitions
    <2> HIDE DEF rows, g
    <2> QED BY <2>1, <2>2, <2>3, <2>6, <2>9, <2>10, <2>11, <2>12, OpKeeps
  <1> QED BY <1>1, <1>2

LEMMA CommitKeeps ==
    ASSUME OwnershipInv, Commit
    PROVE  OwnershipInv'
PROOF
  <1>1. /\ op.pc \in {"locked", "draining", "inserted"} /\ ownership' = op.rows
        /\ op' = Rest /\ UNCHANGED <<inbox, emails, worker>>
    BY DEF Commit
  <1>2. /\ op.rows \in Seq(OwnershipRows)
        /\ InOrder(op.rows) /\ Len(op.rows) >= Len(ownership)
        /\ \A h \in 1..Len(op.rows) : op.rows[h].state = "retired" <=>
                h \in Generations /\ ownership[h].state = "retired"
    BY <1>1 DEF OwnershipInv, TypeOK, Underway
  <1>3. /\ op'.pc = "idle" /\ op'.generation = None /\ op'.rows = <<>>
        /\ op' = [pc |-> op'.pc, generation |-> op'.generation, rows |-> op'.rows]
    BY <1>1 DEF Rest
  <1>4. op'.pc \in Transitions /\ op'.rows \in Seq(OwnershipRows)
    BY <1>3 DEF Transitions
  <1>5. Underway'
    BY <1>3 DEF Underway
  <1> QED BY <1>1, <1>2, <1>3, <1>4, <1>5, LedgerKeeps

LEMMA RetireChecksKeeps ==
    ASSUME OwnershipInv, NEW g \in Generations, RetireChecksInbox(g)
    PROVE  OwnershipInv'
PROOF
  <1>1. <<>> \in Seq(OwnershipRows) /\ "retiring" \in Transitions
    BY DEF Transitions
  <1> QED BY <1>1, OpKeeps DEF RetireChecksInbox

\* Nothing has come back since the rows were asked, and the e-mails are asked in
\* the step that retires.
LEMMA RetireKeeps ==
    ASSUME OwnershipInv, retire
    PROVE  OwnershipInv'
PROOF
  <1>1. op.pc = "retiring" /\ op' = Rest /\ UNCHANGED <<inbox, emails, worker>>
    BY DEF retire
  <1>2. CASE ownership' = ownership
    BY <1>1, <1>2, RollbackKeeps
  <1>3. CASE ownership' # ownership
    <2> DEFINE g == op.generation
    <2>1. ownership' = [ownership EXCEPT ![g].state = "retired"] /\ ~UnresolvedMail(g)
      BY <1>3 DEF retire, RetireBlocked
    <2>2. g \in Generations /\ ownership[g].state = "draining" /\ ~UnresolvedRow(g)
      BY <1>1 DEF OwnershipInv, Underway
    <2>3. ownership \in Seq(OwnershipRows) /\ InOrder(ownership) /\ g \in 1..Len(ownership)
      BY <2>2 DEF OwnershipInv, TypeOK, OneIngress, Generations
    <2>4. "retired" \in States /\ "retired" \notin Open
      BY DEF States, Open
    <2>5. /\ ownership' \in Seq(OwnershipRows) /\ Len(ownership') = Len(ownership)
          /\ InOrder(ownership')
          /\ \A h \in 1..Len(ownership) : h # g => ownership'[h] = ownership[h]
      <3> HIDE DEF g
      <3>1. /\ ownership' \in Seq(OwnershipRows) /\ Len(ownership') = Len(ownership)
            /\ ownership'[g].state = "retired" /\ ownership'[g].token = ownership[g].token
            /\ \A h \in 1..Len(ownership) : h # g => ownership'[h] = ownership[h]
        <4>1. ownership[g] \in OwnershipRows
          BY <2>3
        <4>2. /\ [ownership[g] EXCEPT !.state = "retired"] \in OwnershipRows
              /\ [ownership[g] EXCEPT !.state = "retired"].state = "retired"
              /\ [ownership[g] EXCEPT !.state = "retired"].token = ownership[g].token
          BY <2>4, <4>1 DEF OwnershipRows
        <4> QED BY <2>1, <2>3, <4>2
      <3> QED BY <2>3, <2>4, <3>1, StateKeepsOrder
    <2>6. /\ op'.pc = "idle" /\ op'.generation = None /\ op'.rows = <<>>
          /\ op' = [pc |-> op'.pc, generation |-> op'.generation, rows |-> op'.rows]
      BY <1>1 DEF Rest
    <2>7. op'.pc \in Transitions /\ op'.rows \in Seq(OwnershipRows)
      BY <2>6 DEF Transitions
    <2>8. Underway'
      BY <2>6 DEF Underway
    <2>9. \A h \in 1..Len(ownership') : ownership'[h].state = "retired" =>
             \/ h \in Generations /\ ownership[h].state = "retired"
             \/ ~UnresolvedRow(h) /\ ~UnresolvedMail(h)
      <3> HIDE DEF g
      <3> QED BY <2>1, <2>2, <2>5 DEF Generations
    <2>10. Len(ownership') >= Len(ownership)
      BY <2>3, <2>5
    <2> QED BY <1>1, <2>5, <2>6, <2>7, <2>8, <2>9, <2>10, LedgerKeeps
  <1> QED BY <1>2, <1>3

-----------------------------------------------------------------------------
\* Layer 3: the generations and the work under them.

LEMMA OwnershipInit ==
    ASSUME OwnershipAssumption, Init
    PROVE  OwnershipInv
PROOF
  <1>1. /\ ownership = <<>> /\ \A e \in Events : inbox[e] = AbsentRow
        /\ \A m \in Mails : emails[m] = AbsentMail
        /\ op = Rest /\ \A w \in Workers : worker[w] = Off
    BY DEF Init
  <1>2. AbsentRow \in InboxRows /\ AbsentMail \in MailRows
    BY DEF AbsentRow, InboxRows, AbsentMail, MailRows
  <1>3. /\ ownership \in Seq(OwnershipRows) /\ Len(ownership) = 0
    BY <1>1
  <1>4. TypeOK
    <2>1. /\ inbox \in [Events -> InboxRows] /\ emails \in [Mails -> MailRows]
          /\ worker \in [Workers -> {Off} \cup Consumers]
      BY <1>2 DEF Init
    <2>2. op \in [pc : {"idle", "locked", "draining", "inserted", "retiring"},
                  generation : {None} \cup Generations, rows : Seq(OwnershipRows)]
      <3>1. <<>> \in Seq(OwnershipRows)
        OBVIOUS
      <3> QED BY <1>1, <3>1 DEF Rest
    <2> QED BY <1>3, <2>1, <2>2 DEF TypeOK
  <1>5. OneIngress
    BY <1>3 DEF OneIngress, InOrder
  <1>6. Underway
    BY <1>1 DEF Underway, Rest
  <1>7. LinkInOwner
    BY <1>1 DEF LinkInOwner, AbsentRow, AbsentMail
  <1>8. RetiredIsDone
    BY <1>3 DEF RetiredIsDone, Generations
  <1> QED BY <1>4, <1>5, <1>6, <1>7, <1>8 DEF OwnershipInv

LEMMA OwnershipStep ==
    ASSUME OwnershipAssumption, OwnershipInv, [Next]_vars
    PROVE  OwnershipInv'
PROOF
  <1>1. ASSUME NEW name \in Pipelines, bootstrap(name)
        PROVE  OwnershipInv'
    BY <1>1, BootstrapKeeps
  <1>2. ASSUME NEW g \in Generations, quiesce(g)
        PROVE  OwnershipInv'
    BY <1>2, QuiesceKeeps
  <1>3. ASSUME NEW g \in Generations, _lock_quiesced(g)
        PROVE  OwnershipInv'
    BY <1>3, LockKeeps
  <1>4. ASSUME NEW g \in Generations, RetireChecksInbox(g)
        PROVE  OwnershipInv'
    BY <1>4, RetireChecksKeeps
  <1>5. CASE _mark_draining
    BY <1>5, DrainKeeps
  <1>6. ASSUME NEW name \in Pipelines, NEW g \in 1..BigintMax, NEW token \in 1..BigintMax,
               _insert_current(name, g, token)
        PROVE  OwnershipInv'
    BY <1>6, InsertCurrentKeeps
  <1>7. CASE Commit
    BY <1>7, CommitKeeps
  <1>8. CASE Rollback
    BY <1>8, RollbackKeeps DEF Rollback
  <1>9. CASE retire
    BY <1>9, RetireKeeps
  <1>10. ASSUME NEW e \in Events, insert(e) \/ recover_expired_leases(e) \/ Requeue(e)
         PROVE  OwnershipInv'
    BY <1>10, InsertKeeps, RecoverKeeps, RequeueKeeps
  <1>11. ASSUME NEW w \in Workers, NEW e \in Events, claim_batch(w, e)
         PROVE  OwnershipInv'
    BY <1>11, ClaimKeeps
  <1>12. ASSUME NEW w \in Workers, apply_email_event(w)
         PROVE  OwnershipInv'
    BY <1>12, ApplyKeeps
  <1>13. ASSUME NEW w \in Workers, complete(w) \/ fail(w)
         PROVE  OwnershipInv'
    BY <1>13, SettleKeeps
  <1>14. ASSUME NEW w \in Workers, begin_processing_effect(w)
         PROVE  OwnershipInv'
    BY <1>14, EffectKeeps
  <1>15. ASSUME NEW w \in Workers,
                finish_email_processing(w) \/ finish_email_processing_failure(w)
         PROVE  OwnershipInv'
    BY <1>15, FinishKeeps
  <1>16. ASSUME NEW w \in Workers, LoseAuthority(w)
         PROVE  OwnershipInv'
    BY <1>16, LoseKeeps
  <1>17. CASE UNCHANGED vars
    BY <1>17
    DEF vars, OwnershipInv, TypeOK, OneIngress, Underway, LinkInOwner, RetiredIsDone,
        Generations, InboxRows, MailRows, UnresolvedRow, UnresolvedMail
  <1> QED
    BY <1>1, <1>2, <1>3, <1>4, <1>5, <1>6, <1>7, <1>8, <1>9, <1>10, <1>11, <1>12,
       <1>13, <1>14, <1>15, <1>16, <1>17 DEF Next

\* For any number of generations, events, e-mails and consumers one generation
\* takes in mail at a time, an e-mail is worked on by an event of the generation
\* that owns it, and once ownership.py has retired a generation nothing
\* unresolved is under it again, whatever requeue ran beside the two checks.
THEOREM GenerationsHold ==
    ASSUME OwnershipAssumption
    PROVE  Spec => []OwnershipInv
PROOF
  <1>1. Init => OwnershipInv
    BY OwnershipInit
  <1>2. OwnershipInv /\ [Next]_vars => OwnershipInv'
    BY OwnershipStep
  <1> QED BY <1>1, <1>2, PTL DEF Spec

=============================================================================
