-------------------------- MODULE PipelineOwnership ---------------------------
(***************************************************************************)
(* Pipeline generations of one account (src/ingestion/ownership.py) and    *)
(* what the Inbox does under them (src/ingestion/repository.py).  A        *)
(* generation is bootstrapped, quiesced, handed over to its successor in a *)
(* transaction the caller owns, drained and retired.  Transitions hold the *)
(* account's advisory lock exclusively, Inbox transactions hold it shared, *)
(* and an operator's requeue takes neither.                                *)
(*                                                                         *)
(* Leases, retry budgets and versions are DurableInbox's: a lease is named *)
(* here by its attempt, and the budget is a choice.  Which session may     *)
(* claim for which generation is left open.                                *)
(***************************************************************************)
EXTENDS EmailEvents, Naturals, Sequences, FiniteSets

CONSTANTS
    Events, Mails,      \* inbox events and the e-mails they are about
    KindOf, MailOf,
    Workers,
    Pipelines,          \* pipeline names
    BigintMax,          \* POSTGRES_BIGINT_MAX
    MaxAttempts,        \* bound on the leases of each row
    Evidence            \* a retirement guard was supplied and is satisfied

\* NULL in a generation or a link: identities start at 1.
None == 0

\* The types of the constants.
OwnershipAssumption ==
    /\ KindOf \in [Events -> ChangeKinds] /\ MailOf \in [Events -> Mails]
    /\ BigintMax \in Nat \ {0} /\ MaxAttempts \in [Events -> Nat]
    /\ Evidence \in BOOLEAN /\ None \notin Events

VARIABLES
    ownership,  \* pipeline_ownership: generation -> name, state, token
    inbox,      \* event_inbox: event -> status, generation, attempt, effect
    emails,     \* emails: mail -> status, owner, link and markers
    op,         \* the transaction that holds the account's lock
    worker      \* a consumer's lease and where it is

vars == <<ownership, inbox, emails, op, worker>>

-----------------------------------------------------------------------------
LeaseStates == {"current_ingress", "quiescing", "draining"}
ClaimStates == {"current_ingress", "draining"}

\* _BLOCKING_INBOX_STATES and _BLOCKING_EMAIL_STATES, the latter equal to the
\* repository's _RETIRED_BLOCKING_EMAIL_STATUSES.
BlockingInbox == {"pending", "retry_wait", "leased", "manual_review", "dead_letter"}
BlockingEmail ==
    {"ingested", "processing", "retry_wait", "manual_review", "waiting_approval",
     "send_queued", "sending", "accepted", "send_unknown", "dead_letter"}

AbsentRow == [status |-> "absent", generation |-> None, attempt |-> 0, effect |-> FALSE]
AbsentMail ==
    [status |-> "absent", owner |-> None, link |-> None, seen |-> FALSE,
     deleted |-> FALSE, effects |-> FALSE]
Rest == [pc |-> "idle", generation |-> None, rows |-> <<>>]
Off == [pc |-> "idle"]

Init ==
    /\ ownership = <<>>
    /\ inbox = [e \in Events |-> AbsentRow]
    /\ emails = [m \in Mails |-> AbsentMail]
    /\ op = Rest
    /\ worker = [w \in Workers |-> Off]

Generations == 1..Len(ownership)
Row(name, token) == [name |-> name, state |-> "current_ingress", token |-> token]
Current(rows) == {g \in 1..Len(rows) : rows[g].state = "current_ingress"}

\* Nobody is inside a transition: what pg_advisory_xact_lock and
\* pg_advisory_xact_lock_shared wait for on ownership_advisory_lock_key.
Unlocked == op.pc = "idle"

-----------------------------------------------------------------------------
(* Operators.  A command names the generation that its operator read some  *)
(* time ago and without a lock: it may name any, and what it finds under   *)
(* the lock decides.                                                       *)

bootstrap(name) ==
    /\ Unlocked
    /\ ownership = <<>>
    /\ ownership' = <<Row(name, 1)>>
    /\ UNCHANGED <<inbox, emails, op, worker>>

\* A repetition finds the generation quiescing and changes nothing.
quiesce(g) ==
    /\ Unlocked
    /\ Current(ownership) = {g}
    /\ ownership' = [ownership EXCEPT ![g].state = "quiescing"]
    /\ UNCHANGED <<inbox, emails, op, worker>>

_lock_quiesced(g) ==
    /\ Unlocked
    /\ ownership[g].state = "quiescing"
    /\ op' = [pc |-> "locked", generation |-> g, rows |-> ownership]
    /\ UNCHANGED <<ownership, inbox, emails, worker>>

_mark_draining ==
    /\ op.pc = "locked"
    /\ op' = [op EXCEPT !.pc = "draining", !.rows[op.generation].state = "draining"]
    /\ UNCHANGED <<ownership, inbox, emails, worker>>

\* The caller names the new generation and its token; anything but the
\* successors of the highest ones is a StaleFence and undoes the transaction.
MaxToken(rows) == rows[Len(rows)].token

_insert_current(name, generation, token) ==
    /\ op.pc = "draining"
    /\ op.rows[op.generation].state = "draining"
    /\ IF generation = Len(op.rows) + 1 /\ token = MaxToken(op.rows) + 1
       THEN op' = [op EXCEPT !.pc = "inserted", !.rows = Append(@, Row(name, token))]
       ELSE op' = Rest
    /\ UNCHANGED <<ownership, inbox, emails, worker>>

\* The caller's transaction: nothing here keeps it from committing early, its
\* connection may be lost at any step, and a step in another transaction than
\* the first (_assert_transaction_identity) is refused.
Commit ==
    /\ op.pc \in {"locked", "draining", "inserted"}
    /\ ownership' = op.rows
    /\ op' = Rest
    /\ UNCHANGED <<inbox, emails, worker>>

Rollback ==
    /\ op.pc # "idle"
    /\ op' = Rest
    /\ UNCHANGED <<ownership, inbox, emails, worker>>

\* retire reads the two tables one after the other; PipelineRetirementBlocked
\* and a refusing guard end it without a trace.
UnresolvedRow(g) ==
    \E e \in Events : inbox[e].generation = g /\ inbox[e].status \in BlockingInbox
UnresolvedMail(g) ==
    \E m \in Mails : emails[m].owner = g /\ emails[m].status \in BlockingEmail

RetireChecksInbox(g) ==
    /\ Unlocked
    /\ ownership[g].state = "draining"
    /\ ~UnresolvedRow(g)
    /\ op' = [pc |-> "retiring", generation |-> g, rows |-> <<>>]
    /\ UNCHANGED <<ownership, inbox, emails, worker>>

\* Mutant of RetireBlocked: the e-mails are not asked.
NeverBlocked(g) == FALSE

RetireBlocked(g) == UnresolvedMail(g)

retire ==
    /\ op.pc = "retiring"
    /\ IF RetireBlocked(op.generation) \/ ~Evidence
       THEN UNCHANGED ownership
       ELSE ownership' = [ownership EXCEPT ![op.generation].state = "retired"]
    /\ op' = Rest
    /\ UNCHANGED <<inbox, emails, worker>>

-----------------------------------------------------------------------------
(* The Inbox under a generation.                                           *)

\* EmailEventTransaction.insert: stamped by the current generation the writer
\* names; a duplicate changes nothing.
insert(e) ==
    /\ Unlocked
    /\ inbox[e].status = "absent"
    /\ \E g \in Current(ownership) :
          inbox' = [inbox EXCEPT ![e] = [AbsentRow EXCEPT !.status = "pending", !.generation = g]]
    /\ UNCHANGED <<ownership, emails, op, worker>>

claim_batch(w, e) ==
    /\ Unlocked
    /\ worker[w].pc = "idle"
    /\ inbox[e].status \in {"pending", "retry_wait"}
    /\ inbox[e].attempt < MaxAttempts[e]
    /\ ownership[inbox[e].generation].state \in ClaimStates
    /\ inbox' = [inbox EXCEPT ![e].status = "leased", ![e].attempt = @ + 1]
    /\ worker' = [worker EXCEPT ![w] =
          [pc |-> "claimed", row |-> e, attempt |-> inbox[e].attempt + 1]]
    /\ UNCHANGED <<ownership, emails, op>>

\* The lease is the row's, and its generation may still execute
\* (_lock_exact_lease, _lock_ownership, _lock_processing_ownership).
Held(w) ==
    /\ inbox[worker[w].row].status = "leased"
    /\ inbox[worker[w].row].attempt = worker[w].attempt
    /\ ownership[inbox[worker[w].row].generation].state \in LeaseStates

At(w, pc) == worker[w].pc = pc /\ Unlocked

Shell(w) ==
    LET m == emails[MailOf[worker[w].row]]
    IN IF m.status = "absent"
       THEN [AbsentMail EXCEPT !.status = "ingested", !.owner = inbox[worker[w].row].generation]
       ELSE m

DecisionFor(w) ==
    LET m == emails[MailOf[worker[w].row]]
    IN decide_email_event(m.status, m.seen, KindOf[worker[w].row],
                          m.link = worker[w].row, m.effects, m.deleted)

\* email.sticky_owner_mismatch and email.retired_owner_unresolved.
NeedsReview(w) ==
    LET m == emails[MailOf[worker[w].row]]
        kind == KindOf[worker[w].row]
    IN /\ m.status \in BlockingEmail
       /\ m.owner # inbox[worker[w].row].generation
       /\ \/ kind = "create" /\ ~m.seen /\ ~m.deleted
          \/ kind = "delete" /\ ownership[m.owner].state = "retired"

Goes(w, pc) == worker' = [worker EXCEPT ![w].pc = pc]

apply_email_event(w) ==
    LET e == worker[w].row
        d == DecisionFor(w)
        m == Shell(w)
        deleting == KindOf[e] = "delete" /\ ~m.deleted
    IN /\ At(w, "claimed") /\ Held(w)
       /\ IF NeedsReview(w) THEN Goes(w, "review") /\ UNCHANGED emails
          ELSE IF d.should_process
          THEN /\ emails' = [emails EXCEPT ![MailOf[e]] =
                     [m EXCEPT !.status = "processing", !.seen = TRUE,
                               !.link = IF @ = None THEN e ELSE @]]
               /\ Goes(w, "elected")
          ELSE /\ emails' = [emails EXCEPT ![MailOf[e]] =
                     IF ~deleting THEN m
                     ELSE [m EXCEPT !.status = d.new_status, !.deleted = TRUE,
                                    !.link = IF d.new_status = "cancelled" THEN None ELSE @]]
               /\ Goes(w, "applied")
       /\ UNCHANGED <<ownership, inbox, op>>

Settles(w, status) ==
    /\ inbox' = [inbox EXCEPT ![worker[w].row].status = status]
    /\ worker' = [worker EXCEPT ![w] = Off]

complete(w) ==
    /\ At(w, "applied") /\ Held(w)
    /\ Settles(w, "completed")
    /\ UNCHANGED <<ownership, emails, op>>

fail(w) ==
    /\ At(w, "review") /\ Held(w)
    /\ Settles(w, "manual_review")
    /\ UNCHANGED <<ownership, emails, op>>

\* _require_authorized_processing_attempt.
Authorized(w) ==
    LET m == emails[MailOf[worker[w].row]]
    IN /\ Held(w)
       /\ m.status = "processing" /\ m.link = worker[w].row /\ ~m.deleted
       /\ m.owner = inbox[worker[w].row].generation

begin_processing_effect(w) ==
    /\ At(w, "elected") /\ Authorized(w)
    /\ emails' = [emails EXCEPT ![MailOf[worker[w].row]].effects = TRUE]
    /\ inbox' = [inbox EXCEPT ![worker[w].row].effect = TRUE]
    /\ UNCHANGED <<ownership, op, worker>>

\* finish_email_processing, with the completions that tell the tables apart.
finish_email_processing(w) ==
    /\ At(w, "elected") /\ Authorized(w)
    /\ \E status \in {"waiting_approval", "no_action", "manual_review"} :
          /\ emails' = [emails EXCEPT ![MailOf[worker[w].row]].status = status,
                  ![MailOf[worker[w].row]].link = IF status = "manual_review" THEN @ ELSE None]
          /\ Settles(w, IF status = "manual_review" THEN status ELSE "completed")
    /\ UNCHANGED <<ownership, op>>

Resolutions(effect) ==
    IF effect THEN {"manual_review"} ELSE {"retry_wait", "dead_letter", "manual_review"}

finish_email_processing_failure(w) ==
    /\ At(w, "elected") /\ Authorized(w)
    /\ \E status \in Resolutions(inbox[worker[w].row].effect) :
          /\ emails' = [emails EXCEPT ![MailOf[worker[w].row]].status = status]
          /\ Settles(w, status)
    /\ UNCHANGED <<ownership, op>>

\* A refused step, a lost lease or a dead process: the consumer leaves the row
\* as it is.
LoseAuthority(w) ==
    /\ worker[w].pc # "idle"
    /\ worker' = [worker EXCEPT ![w] = Off]
    /\ UNCHANGED <<ownership, inbox, emails, op>>

\* recover_expired_leases: the lease may have run out under a consumer that is
\* still at work.
recover_expired_leases(e) ==
    LET m == emails[MailOf[e]]
        linked == m.link = e
        stale == \/ ownership[inbox[e].generation].state \notin LeaseStates
                 \/ /\ linked
                    /\ \/ m.deleted \/ m.owner # inbox[e].generation
                       \/ m.status \notin {"processing", "retry_wait"}
    IN /\ Unlocked
       /\ inbox[e].status = "leased"
       /\ \E status \in IF stale \/ inbox[e].effect \/ (linked /\ m.effects)
                        THEN {"manual_review"} ELSE {"retry_wait", "dead_letter"} :
             /\ inbox' = [inbox EXCEPT ![e].status = status]
             /\ emails' = IF linked THEN [emails EXCEPT ![MailOf[e]].status = status] ELSE emails
       /\ UNCHANGED <<ownership, op, worker>>

\* greenfield_requeue_inbox, which locks another key; release_intake_quarantine
\* does the same for a row it finds in quarantine, and locks none.
Requeue(e) ==
    LET m == emails[MailOf[e]]
    IN /\ inbox[e].status \in {"manual_review", "dead_letter"} /\ ~inbox[e].effect
       /\ m.link = e /\ m.status = inbox[e].status
       /\ m.seen /\ ~m.deleted /\ ~m.effects
       /\ m.owner = inbox[e].generation
       /\ inbox' = [inbox EXCEPT ![e].status = "pending"]
       /\ emails' = [emails EXCEPT ![MailOf[e]].status = "retry_wait"]
       /\ UNCHANGED <<ownership, op, worker>>

Next ==
    \/ \E name \in Pipelines : bootstrap(name)
    \/ \E g \in Generations : quiesce(g) \/ _lock_quiesced(g) \/ RetireChecksInbox(g)
    \/ _mark_draining
    \/ \E name \in Pipelines, g, token \in 1..BigintMax : _insert_current(name, g, token)
    \/ Commit \/ Rollback \/ retire
    \/ \E e \in Events : insert(e) \/ recover_expired_leases(e) \/ Requeue(e)
    \/ \E w \in Workers :
          \/ \E e \in Events : claim_batch(w, e)
          \/ apply_email_event(w) \/ complete(w) \/ fail(w)
          \/ begin_processing_effect(w) \/ finish_email_processing(w)
          \/ finish_email_processing_failure(w) \/ LoseAuthority(w)

Spec == Init /\ [][Next]_vars

-----------------------------------------------------------------------------
(* Properties. *)

States == LeaseStates \cup {"retired"}
OwnershipRows == [name : Pipelines, state : States, token : 1..BigintMax]
InboxRows ==
    [status : BlockingInbox \cup {"absent", "completed"},
     generation : {None} \cup Generations, attempt : Nat, effect : BOOLEAN]
MailRows ==
    [status : EmailStatuses \cup {"absent"}, owner : {None} \cup Generations,
     link : {None} \cup Events, seen : BOOLEAN, deleted : BOOLEAN, effects : BOOLEAN]
Consumers ==
    [pc : {"claimed", "applied", "review", "elected"}, row : Events, attempt : Nat]

TypeOK ==
    /\ ownership \in Seq(OwnershipRows)
    /\ inbox \in [Events -> InboxRows] /\ emails \in [Mails -> MailRows]
    /\ op \in [pc : {"idle", "locked", "draining", "inserted", "retiring"},
               generation : {None} \cup Generations, rows : Seq(OwnershipRows)]
    /\ worker \in [Workers -> {Off} \cup Consumers]

\* Of a table: one generation at most is taking in mail or being emptied of
\* its intake, and tokens grow with the generations.
Open == {"current_ingress", "quiescing"}
InOrder(rows) ==
    /\ \A g, h \in 1..Len(rows) :
          rows[g].state \in Open /\ rows[h].state \in Open => g = h
    /\ \A g, h \in 1..Len(rows) : g < h => rows[g].token < rows[h].token

\* Operators with old reads never leave two generations taking in mail, and
\* tokens grow with the generations.
OneIngress == InOrder(ownership)

\* What a transition that holds the account's lock has read stays true to its
\* end, and what it will commit is in order too.
Underway ==
    /\ op.pc \in {"locked", "draining", "inserted"} =>
          /\ InOrder(op.rows) /\ Len(op.rows) >= Len(ownership)
          /\ op.generation \in Generations
          /\ \A g \in 1..Len(op.rows) : op.rows[g].state = "retired" <=>
                g \in Generations /\ ownership[g].state = "retired"
    /\ op.pc = "locked" => op.rows[op.generation].state = "quiescing"
    /\ op.pc = "draining" => \A g \in 1..Len(op.rows) : op.rows[g].state \notin Open
    /\ op.pc = "retiring" =>
          /\ op.generation \in Generations /\ ownership[op.generation].state = "draining"
          /\ ~UnresolvedRow(op.generation)

\* An e-mail is worked on by an event of the generation that owns it, also when
\* its events came in on both sides of a hand-over.
LinkInOwner ==
    /\ \A m \in Mails : emails[m].link # None =>
          /\ inbox[emails[m].link].status # "absent"
          /\ inbox[emails[m].link].generation = emails[m].owner
    /\ \A e \in Events : inbox[e].status # "absent" => inbox[e].generation # None
    /\ \A m \in Mails : emails[m].status # "absent" => emails[m].owner # None

\* retire: once a generation is retired nothing unresolved is left under it and
\* nothing comes back, whatever ran beside the two checks or was requeued.
RetiredIsDone ==
    \A g \in Generations : ownership[g].state = "retired" =>
        ~UnresolvedRow(g) /\ ~UnresolvedMail(g)

\* What holds of the generations and the work under them in every state.
OwnershipInv == TypeOK /\ OneIngress /\ Underway /\ LinkInOwner /\ RetiredIsDone
=============================================================================
