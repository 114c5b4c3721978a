----------------------------- MODULE DurableInbox -----------------------------
(***************************************************************************)
(* The Durable Inbox: event_inbox rows, email aggregates and the worker    *)
(* consumers that lease rows, apply their events, run the processing       *)
(* adapter behind effect markers, and finish or recover them.              *)
(*                                                                         *)
(* Every repository method is one transaction under the account advisory   *)
(* lock, hence one action.  Everything a consumer does between two         *)
(* transactions (external calls, heartbeats, cancellation, death) is an    *)
(* action of its own, so all the interleavings of consumers, of processes  *)
(* and of the recovery loop are explored.                                  *)
(*                                                                         *)
(* One account and one pipeline generation, which is always                *)
(* current_ingress: no production code path retires it.                    *)
(***************************************************************************)
EXTENDS EmailEvents, Naturals, FiniteSets

CONSTANTS
    Rows,        \* event_inbox ids: the change events Exchange will deliver
    Emails,      \* external email ids
    Workers,     \* consumer tasks
    Sessions,    \* runtime sessions, one per process incarnation
    NoRow, NoSession,
    EmailOf,     \* [Rows -> Emails]
    KindOf,      \* [Rows -> change kinds the change_kind CHECK admits]
    PolicyOf,    \* [Rows -> processing policies]
    SessionOf,   \* [Workers -> Sessions]
    MaxRetries,  \* _MAX_RETRIES
    VMax,        \* POSTGRES_BIGINT_MAX, the largest email version
    MaxEpoch,    \* bound: operator requeues of one row
    MaxAuthority,\* bound: pauses and resumes
    MaxRenewals  \* bound: heartbeats of one lease

Policies == {"full", "archive", "metadata_only", "ignored"}

ASSUME ConstantsAssumption ==
    /\ EmailOf \in [Rows -> Emails]
    /\ KindOf \in [Rows -> {"create", "update", "delete"}]
    /\ PolicyOf \in [Rows -> Policies]
    /\ SessionOf \in [Workers -> Sessions]
    /\ NoRow \notin Rows /\ NoSession \notin Sessions
    /\ MaxRetries \in Nat /\ VMax \in Nat /\ MaxEpoch \in Nat
    /\ MaxAuthority \in Nat /\ MaxRenewals \in Nat
    /\ VMax >= 4

VARIABLES
    inbox,       \* event_inbox
    email,       \* emails
    worker,      \* what each consumer task holds in memory
    runtime,     \* the live pipeline_runtime_instances row, if any
    authority,   \* pipeline_runtime_authority
    elected,     \* processing-attempt receipts <<row, epoch, attempts>>
    quarantined, \* intake_decisions with disposition quarantine
    authorized,  \* history: attempts granted a marked effect, per email
    performed    \* history: attempts that made an external effect

vars == <<inbox, email, worker, runtime, authority, elected, quarantined,
          authorized, performed>>

-----------------------------------------------------------------------------
InboxStatuses == {"absent", "pending", "retry_wait", "leased", "completed",
                  "dead_letter", "manual_review"}

ClaimablePolicies == {"full", "archive", "metadata_only"}

\* _RETIRED_BLOCKING_EMAIL_STATUSES
BlockingEmailStatuses ==
    {"ingested", "processing", "retry_wait", "manual_review",
     "waiting_approval", "send_queued", "sending", "accepted",
     "send_unknown", "dead_letter"}

\* What an adapter invocation may end with.
Completions == {"waiting_approval", "notified_readonly", "no_action",
                "archived", "manual_review", "quarantine"}
FailureDecisions == {"retry_wait", "dead_letter", "manual_review"}

WorkerStates == {"off", "idle", "claimed", "applied", "review", "elected",
                 "reading", "running", "effect", "done", "failed", "dead"}

\* Consumer states in which the elected attempt's heartbeat task runs.
Heartbeating == {"elected", "reading", "running", "effect", "done", "failed"}

AbsentRow ==
    [status |-> "absent", epoch |-> 0, attempts |-> 0, session |-> NoSession,
     until |-> 0, live |-> FALSE, started |-> FALSE, effect |-> FALSE,
     auth |-> 0]

AbsentEmail ==
    [status |-> "absent", version |-> 0, link |-> NoRow, linkEpoch |-> 0,
     createSeen |-> FALSE, started |-> FALSE, deleted |-> FALSE,
     effects |-> FALSE, auth |-> 0]

Blank(pc) ==
    [pc |-> pc, row |-> NoRow, epoch |-> 0, attempts |-> 0, until |-> 0,
     version |-> 0, result |-> "none"]

InboxRow ==
    [status : InboxStatuses, epoch : Nat, attempts : Nat,
     session : Sessions \union {NoSession}, until : Nat,
     live : BOOLEAN, started : BOOLEAN, effect : BOOLEAN, auth : Nat]

EmailRow ==
    [status : EmailStatuses \union {"absent"}, version : Nat,
     link : Rows \union {NoRow}, linkEpoch : Nat,
     createSeen : BOOLEAN, started : BOOLEAN, deleted : BOOLEAN,
     effects : BOOLEAN, auth : Nat]

Consumer ==
    [pc : WorkerStates, row : Rows \union {NoRow}, epoch : Nat,
     attempts : Nat, until : Nat, version : Nat,
     result : Completions \union FailureDecisions \union {"none"}]

\* The type of every variable.
TypeOK ==
    /\ inbox \in [Rows -> InboxRow]
    /\ email \in [Emails -> EmailRow]
    /\ worker \in [Workers -> Consumer]
    /\ runtime \in [session : Sessions \union {NoSession}, epoch : Nat]
    /\ authority \in [state : {"ingest_only", "paused"}, epoch : Nat]
    /\ elected \in SUBSET (Rows \X Nat \X Nat)
    /\ quarantined \in SUBSET (Rows \X Nat)
    /\ authorized \in [Emails -> SUBSET (Rows \X Nat \X Nat)]
    /\ performed \in [Emails -> SUBSET (Rows \X Nat \X Nat)]

Init ==
    /\ inbox = [r \in Rows |-> AbsentRow]
    /\ email = [e \in Emails |-> AbsentEmail]
    /\ worker = [w \in Workers |-> Blank("off")]
    /\ runtime = [session |-> NoSession, epoch |-> 0]
    /\ authority = [state |-> "ingest_only", epoch |-> 1]
    /\ elected = {}
    /\ quarantined = {}
    /\ authorized = [e \in Emails |-> {}]
    /\ performed = [e \in Emails |-> {}]

-----------------------------------------------------------------------------
\* Shared predicates and updates.

Attempt(w) == <<worker[w].row, worker[w].epoch, worker[w].attempts>>
EmailFor(w) == EmailOf[worker[w].row]

\* _leases_equal: lease_until (here: the renewal count of this claim) is
\* part of the token, so a lease renewed by somebody else does not match.
LeaseHeld(w) ==
    LET r == worker[w].row IN
    /\ r \in Rows
    /\ inbox[r].status = "leased"
    /\ inbox[r].epoch = worker[w].epoch
    /\ inbox[r].attempts = worker[w].attempts
    /\ inbox[r].session = SessionOf[w]
    /\ inbox[r].until = worker[w].until

LeaseActive(w) == LeaseHeld(w) /\ inbox[worker[w].row].live

\* The runtime-instance join of claim, renew and begin_processing_effect.
RuntimeLive(s, r) ==
    /\ runtime.session = s
    /\ runtime.epoch = inbox[r].auth

\* Mutant of Released: the attempt counter is not persisted.
ReleasedSameAttempt(r, status, attempts) ==
    [inbox EXCEPT ![r] = [@ EXCEPT !.status = status, !.session = NoSession,
                                   !.until = 0, !.live = FALSE]]

\* The row leaves "leased".
Released(r, status, attempts) ==
    [inbox EXCEPT ![r] = [@ EXCEPT !.status = status, !.attempts = attempts,
                                   !.session = NoSession, !.until = 0,
                                   !.live = FALSE]]

Becomes(w, pc) == worker' = [worker EXCEPT ![w] = Blank(pc)]
Moves(w, pc, result) ==
    worker' = [worker EXCEPT ![w].pc = pc, ![w].result = result]

\* _resolution_for_failure_decision: retry only with budget for the attempt
\* and for the two version bumps of the next one.
ResolveFailure(decision, attempts, version) ==
    IF /\ decision = "retry_wait"
       /\ ~(attempts + 1 <= MaxRetries /\ version + 1 <= VMax - 2)
    THEN "dead_letter"
    ELSE decision

\* _require_authorized_processing_attempt with require_unexpired.
AuthorizedAttempt(w) ==
    LET m == email[EmailFor(w)] IN
    /\ LeaseActive(w)
    /\ m.status = "processing"
    /\ m.version = worker[w].version
    /\ m.link = worker[w].row
    /\ m.linkEpoch = worker[w].epoch
    /\ ~m.deleted
    /\ m.auth = inbox[worker[w].row].auth
    /\ Attempt(w) \in elected

\* begin_processing_effect grants the effect.
EffectGranted(w) ==
    /\ AuthorizedAttempt(w)
    /\ RuntimeLive(SessionOf[w], worker[w].row)
    /\ email[EmailFor(w)].effects = inbox[worker[w].row].effect

EffectStarted(r) == inbox[r].effect \/ email[EmailOf[r]].effects

-----------------------------------------------------------------------------
\* Ingress and the runtime.

\* One item of greenfield_commit_sync_page becomes an inbox row.
Insert(r) ==
    /\ inbox[r].status = "absent"
    /\ authority.state = "ingest_only"
    /\ runtime.session # NoSession
    /\ runtime.epoch = authority.epoch
    /\ inbox' = [inbox EXCEPT
          ![r].status = IF PolicyOf[r] = "ignored" THEN "completed"
                                                   ELSE "pending",
          ![r].auth = authority.epoch]
    /\ UNCHANGED <<email, worker, runtime, authority, elected, quarantined,
                   authorized, performed>>

Off(s) == \A w \in Workers : SessionOf[w] = s => worker[w].pc = "off"

\* A process starts: greenfield_register_web_instance, then the consumers.
\* Registration conflicts while an unexpired instance row exists.
Register(s) ==
    /\ authority.state = "ingest_only"
    /\ runtime.session = NoSession
    /\ Off(s)
    /\ runtime' = [session |-> s, epoch |-> authority.epoch]
    /\ worker' = [w \in Workers |->
          IF SessionOf[w] = s THEN Blank("idle") ELSE worker[w]]
    /\ UNCHANGED <<inbox, email, authority, elected, quarantined,
                   authorized, performed>>

\* The instance lease lapses, or greenfield_drain_web_instance ends it.
RuntimeEnds ==
    /\ runtime.session # NoSession
    /\ runtime' = [session |-> NoSession, epoch |-> 0]
    /\ UNCHANGED <<inbox, email, worker, authority, elected, quarantined,
                   authorized, performed>>

\* The process of session s stops, crashes or is fail-stopped by its
\* heartbeat: everything its consumers held is gone.
ProcessExit(s) ==
    /\ ~Off(s)
    /\ worker' = [w \in Workers |->
          IF SessionOf[w] = s THEN Blank("off") ELSE worker[w]]
    /\ UNCHANGED <<inbox, email, runtime, authority, elected, quarantined,
                   authorized, performed>>

Pause ==
    /\ authority.state = "ingest_only"
    /\ authority.epoch < MaxAuthority
    /\ authority' = [state |-> "paused", epoch |-> authority.epoch + 1]
    /\ UNCHANGED <<inbox, email, worker, runtime, elected, quarantined,
                   authorized, performed>>

Resume ==
    /\ authority.state = "paused"
    /\ authority' = [state |-> "ingest_only", epoch |-> authority.epoch + 1]
    /\ UNCHANGED <<inbox, email, worker, runtime, elected, quarantined,
                   authorized, performed>>

\* The database clock passes lease_until.
LeaseExpires(r) ==
    /\ inbox[r].status = "leased" /\ inbox[r].live
    /\ inbox' = [inbox EXCEPT ![r].live = FALSE]
    /\ UNCHANGED <<email, worker, runtime, authority, elected, quarantined,
                   authorized, performed>>

-----------------------------------------------------------------------------
\* A consumer claims a row and applies its event.

Claim(w, r) ==
    /\ worker[w].pc = "idle"
    /\ inbox[r].status \in {"pending", "retry_wait"}
    /\ PolicyOf[r] \in ClaimablePolicies
    /\ RuntimeLive(SessionOf[w], r)
    /\ inbox' = [inbox EXCEPT ![r] =
          [@ EXCEPT !.status = "leased", !.session = SessionOf[w],
                    !.until = 0, !.live = TRUE, !.started = TRUE]]
    /\ worker' = [worker EXCEPT ![w] =
          [pc |-> "claimed", row |-> r, epoch |-> inbox[r].epoch,
           attempts |-> inbox[r].attempts, until |-> 0, version |-> 0,
           result |-> "none"]]
    /\ UNCHANGED <<email, runtime, authority, elected, quarantined,
                   authorized, performed>>

\* apply_email_event, from the row's point of view.
Owns(m, w) == m.link = worker[w].row /\ m.linkEpoch = worker[w].epoch

DecisionFor(w) ==
    LET m == email[EmailFor(w)] IN
    decide_email_event(m.status, m.createSeen, KindOf[worker[w].row],
                       Owns(m, w), m.effects, m.deleted)

\* A CREATE that finds a metadata shell of another authority epoch.
StickyOwnerMismatch(w) ==
    LET m == email[EmailFor(w)] IN
    /\ m.status \in BlockingEmailStatuses
    /\ m.auth # inbox[worker[w].row].auth
    /\ KindOf[worker[w].row] = "create"
    /\ ~m.createSeen
    /\ ~m.deleted

\* _load_processing_attempt found this attempt's receipt on a CREATE.
AlreadyElected(w) ==
    /\ email[EmailFor(w)].status # "absent"
    /\ KindOf[worker[w].row] = "create"
    /\ Attempt(w) \in elected

\* The aggregate apply_email_event works on: the neutral shell if new.
Shell(w) ==
    LET m == email[EmailFor(w)] IN
    IF m.status = "absent"
    THEN [AbsentEmail EXCEPT !.status = "ingested",
                             !.auth = inbox[worker[w].row].auth]
    ELSE m

\* The version guards of _elect/_enter_processing and _record_source_delete.
VersionExhausted(w) ==
    /\ ~StickyOwnerMismatch(w)
    /\ \/ DecisionFor(w).should_process /\ Shell(w).version > VMax - 2
       \/ /\ KindOf[worker[w].row] = "delete" /\ ~Shell(w).deleted
          /\ Shell(w).version >= VMax

\* apply_email_event ends without a change: StaleFence and an exhausted
\* version end the consumer task; an attempt elected before is left to its
\* first holder, if the aggregate still agrees.
ApplyRejected(w) ==
    /\ worker[w].pc = "claimed"
    /\ ~LeaseActive(w) \/ AlreadyElected(w) \/ VersionExhausted(w)
    /\ Becomes(w, IF /\ LeaseActive(w) /\ AlreadyElected(w)
                     /\ email[EmailFor(w)].status = "processing"
                     /\ Owns(email[EmailFor(w)], w)
                  THEN "idle" ELSE "dead")
    /\ UNCHANGED <<inbox, email, runtime, authority, elected, quarantined,
                   authorized, performed>>

\* ManualReviewRequired: process_lease goes on to fail().
ApplyReview(w) ==
    /\ worker[w].pc = "claimed"
    /\ LeaseActive(w)
    /\ StickyOwnerMismatch(w)
    /\ Moves(w, "review", "none")
    /\ UNCHANGED <<inbox, email, runtime, authority, elected, quarantined,
                   authorized, performed>>

\* _elect_processing_attempt and _enter_processing.
ApplyProcess(w) ==
    LET r == worker[w].row
        m == Shell(w)
    IN
    /\ worker[w].pc = "claimed"
    /\ LeaseActive(w)
    /\ ~StickyOwnerMismatch(w) /\ ~AlreadyElected(w)
    /\ DecisionFor(w).should_process
    /\ m.version <= VMax - 2
    /\ elected' = elected \union {Attempt(w)}
    /\ email' = [email EXCEPT ![EmailOf[r]] =
          [m EXCEPT !.status = "processing", !.version = m.version + 1,
                    !.link = IF m.link = NoRow THEN r ELSE m.link,
                    !.linkEpoch = IF m.link = NoRow THEN worker[w].epoch
                                                    ELSE m.linkEpoch,
                    !.createSeen = TRUE, !.started = TRUE]]
    /\ worker' = [worker EXCEPT ![w].pc = "elected",
                                ![w].version = m.version + 1]
    /\ UNCHANGED <<inbox, runtime, authority, quarantined, authorized,
                   performed>>

\* Everything that may complete without processing: a shell, a metadata
\* projection, a tombstone, a source delete, a no-op.
ApplySettle(w) ==
    LET r == worker[w].row
        m == Shell(w)
        d == DecisionFor(w)
        deleting == KindOf[r] = "delete" /\ ~m.deleted
        cancels == deleting /\ d.new_status = "cancelled"
    IN
    /\ worker[w].pc = "claimed"
    /\ LeaseActive(w)
    /\ ~StickyOwnerMismatch(w) /\ ~AlreadyElected(w)
    /\ ~d.should_process
    /\ deleting => m.version < VMax
    /\ email' = [email EXCEPT ![EmailOf[r]] =
          IF deleting
          THEN [m EXCEPT !.status = d.new_status,
                         !.version = m.version + 1, !.deleted = TRUE,
                         !.link = IF cancels THEN NoRow ELSE m.link,
                         !.linkEpoch = IF cancels THEN 0 ELSE m.linkEpoch]
          ELSE m]
    /\ Moves(w, "applied", "none")
    /\ UNCHANGED <<inbox, runtime, authority, elected, quarantined,
                   authorized, performed>>

\* complete(): exact unexpired lease, else LeaseAuthorityLost.
Complete(w) ==
    /\ worker[w].pc = "applied"
    /\ IF LeaseActive(w)
       THEN /\ inbox' = Released(worker[w].row, "completed",
                                 worker[w].attempts)
            /\ Becomes(w, "idle")
       ELSE /\ Becomes(w, "dead")
            /\ UNCHANGED inbox
    /\ UNCHANGED <<email, runtime, authority, elected, quarantined,
                   authorized, performed>>

\* fail() with ManualReviewRequired: exact unexpired lease, else StaleFence.
Fail(w) ==
    /\ worker[w].pc = "review"
    /\ IF LeaseActive(w)
       THEN /\ inbox' = Released(worker[w].row, "manual_review",
                                 worker[w].attempts + 1)
            /\ Becomes(w, "idle")
       ELSE /\ Becomes(w, "dead")
            /\ UNCHANGED inbox
    /\ UNCHANGED <<email, runtime, authority, elected, quarantined,
                   authorized, performed>>

-----------------------------------------------------------------------------
\* The elected attempt: _select_and_process and the email adapter.

\* Policies without an adapter, and the exhausted-version sentinel.
LocalResult(w) ==
    IF PolicyOf[worker[w].row] = "metadata_only"
    THEN "no_action" ELSE "waiting_approval"

SelectsLocally(w) ==
    \/ PolicyOf[worker[w].row] = "metadata_only"
    \/ /\ PolicyOf[worker[w].row] = "full"
       /\ worker[w].version >= VMax - 1

CompleteLocally(w) ==
    /\ worker[w].pc = "elected"
    /\ SelectsLocally(w)
    /\ Moves(w, "done", LocalResult(w))
    /\ UNCHANGED <<inbox, email, runtime, authority, elected, quarantined,
                   authorized, performed>>

\* before_external_effect(DETAIL): fenced but unmarked.  A refusal loses
\* the lease authority and the invocation ends without touching the row.
AuthorizeDetail(w) ==
    /\ worker[w].pc = "elected"
    /\ ~SelectsLocally(w)
    /\ IF EffectGranted(w) THEN Moves(w, "reading", "none")
                           ELSE Becomes(w, "idle")
    /\ UNCHANGED <<inbox, email, runtime, authority, elected, quarantined,
                   authorized, performed>>

\* get_email and IntakeGuard.evaluate: pass, suppress, quarantine, or a
\* replay-safe read failure.  The worker's policy check turns an archive
\* event that is not archived into a policy rejection.
ReadDetail(w) ==
    /\ worker[w].pc = "reading"
    /\ \/ Moves(w, "running", "none")
       \/ /\ PolicyOf[worker[w].row] = "full"
          /\ \E c \in {"no_action", "quarantine"} : Moves(w, "done", c)
       \/ /\ PolicyOf[worker[w].row] = "archive"
          /\ Moves(w, "failed", "dead_letter")
       \/ Moves(w, "failed", "retry_wait")
    /\ UNCHANGED <<inbox, email, runtime, authority, elected, quarantined,
                   authorized, performed>>

\* Mutant of BeginEffect: the markers are not written before the call.
BeginEffectUnmarked(w) ==
    /\ worker[w].pc = "running"
    /\ IF EffectGranted(w)
       THEN /\ authorized' = [authorized EXCEPT
                  ![EmailFor(w)] = @ \union {Attempt(w)}]
            /\ Moves(w, "effect", "none")
       ELSE Becomes(w, "idle") /\ UNCHANGED authorized
    /\ UNCHANGED <<inbox, email, runtime, authority, elected, quarantined,
                   performed>>

\* begin_processing_effect for a marked effect.
BeginEffect(w) ==
    LET e == EmailFor(w) IN
    /\ worker[w].pc = "running"
    /\ IF EffectGranted(w)
       THEN /\ email' = [email EXCEPT ![e].effects = TRUE]
            /\ inbox' = [inbox EXCEPT ![worker[w].row].effect = TRUE]
            /\ authorized' = [authorized EXCEPT ![e] = @ \union {Attempt(w)}]
            /\ Moves(w, "effect", "none")
       ELSE /\ Becomes(w, "idle")
            /\ UNCHANGED <<email, inbox, authorized>>
    /\ UNCHANGED <<runtime, authority, elected, quarantined, performed>>

\* The external call itself, after the marker is durable.  Nothing fences
\* it any more: the lease may already be expired or recovered.
PerformEffect(w) ==
    /\ worker[w].pc = "effect"
    /\ performed' = [performed EXCEPT ![EmailFor(w)] = @ \union {Attempt(w)}]
    /\ Moves(w, "running", "none")
    /\ UNCHANGED <<inbox, email, runtime, authority, elected, quarantined,
                   authorized>>

AllowedCompletions(policy) ==
    IF policy = "archive"
    THEN {"archived"}
    ELSE {"waiting_approval", "notified_readonly", "no_action",
          "manual_review"}

AdapterReturns(w) ==
    /\ worker[w].pc = "running"
    /\ \E c \in AllowedCompletions(PolicyOf[worker[w].row]) :
          Moves(w, "done", c)
    /\ UNCHANGED <<inbox, email, runtime, authority, elected, quarantined,
                   authorized, performed>>

\* Any exception of the adapter, classified by _failure_decision.
AdapterFails(w) ==
    /\ worker[w].pc = "running"
    /\ \E d \in FailureDecisions : Moves(w, "failed", d)
    /\ UNCHANGED <<inbox, email, runtime, authority, elected, quarantined,
                   authorized, performed>>

-----------------------------------------------------------------------------
\* Heartbeats.

Renewable(w) == LeaseActive(w) /\ RuntimeLive(SessionOf[w], worker[w].row)

Renew(w) ==
    /\ worker[w].pc \in Heartbeating
    /\ worker[w].until < MaxRenewals
    /\ Renewable(w)
    /\ inbox' = [inbox EXCEPT ![worker[w].row].until = @ + 1]
    /\ worker' = [worker EXCEPT ![w].until = @ + 1]
    /\ UNCHANGED <<email, runtime, authority, elected, quarantined,
                   authorized, performed>>

\* A renewal that is refused, fails, or commits without the answer getting
\* back: the authority is lost and the invocation is cancelled.
HeartbeatLost(w) ==
    /\ worker[w].pc \in Heartbeating
    /\ Becomes(w, "idle")
    /\ \/ UNCHANGED inbox
       \/ /\ Renewable(w)
          /\ worker[w].until < MaxRenewals
          /\ inbox' = [inbox EXCEPT ![worker[w].row].until = @ + 1]
    /\ UNCHANGED <<email, runtime, authority, elected, quarantined,
                   authorized, performed>>

\* A database failure outside the heartbeat ends the consumer task.
ConsumerDies(w) ==
    /\ worker[w].pc \notin {"off", "dead"}
    /\ Becomes(w, "dead")
    /\ UNCHANGED <<inbox, email, runtime, authority, elected, quarantined,
                   authorized, performed>>

-----------------------------------------------------------------------------
\* Finishing an attempt.

\* The email status finish_email_processing writes.
FinishStatus(w) ==
    LET c == worker[w].result
        exhausted == c = "waiting_approval" /\ worker[w].version >= VMax - 1
    IN CASE exhausted /\ EffectStarted(worker[w].row) -> "manual_review"
         [] exhausted /\ ~EffectStarted(worker[w].row) -> "dead_letter"
         [] ~exhausted /\ c = "quarantine" -> "manual_review"
         [] OTHER -> c

\* The inbox status that goes with it.
FinishInboxStatus(status) ==
    IF status \in {"manual_review", "dead_letter"} THEN status
                                                  ELSE "completed"

Finish(w) ==
    LET r == worker[w].row
        e == EmailFor(w)
        m == email[e]
        status == FinishStatus(w)
        settled == status \notin {"manual_review", "dead_letter"}
    IN
    /\ worker[w].pc = "done"
    /\ IF AuthorizedAttempt(w) /\ worker[w].version < VMax
       THEN /\ email' = [email EXCEPT ![e] =
                  [m EXCEPT !.status = status, !.version = m.version + 1,
                            !.link = IF settled THEN NoRow ELSE m.link,
                            !.linkEpoch = IF settled THEN 0
                                                     ELSE m.linkEpoch]]
            /\ inbox' = Released(r, FinishInboxStatus(status),
                                 worker[w].attempts)
            /\ quarantined' = IF worker[w].result = "quarantine"
                              THEN quarantined \union {<<r, worker[w].epoch>>}
                              ELSE quarantined
            /\ Becomes(w, "idle")
       ELSE /\ Becomes(w, "dead")
            /\ UNCHANGED <<email, inbox, quarantined>>
    /\ UNCHANGED <<runtime, authority, elected, authorized, performed>>

FinishFailure(w) ==
    LET r == worker[w].row
        e == EmailFor(w)
        decision == IF EffectStarted(r) THEN "manual_review"
                                        ELSE worker[w].result
        status == ResolveFailure(decision, worker[w].attempts,
                                 worker[w].version)
    IN
    /\ worker[w].pc = "failed"
    /\ IF AuthorizedAttempt(w) /\ worker[w].version < VMax
       THEN /\ email' = [email EXCEPT ![e].status = status,
                                      ![e].version = @ + 1]
            /\ inbox' = Released(r, status, worker[w].attempts + 1)
            /\ Becomes(w, "idle")
       ELSE /\ Becomes(w, "dead")
            /\ UNCHANGED <<email, inbox>>
    /\ UNCHANGED <<runtime, authority, elected, quarantined, authorized,
                   performed>>

-----------------------------------------------------------------------------
\* Recovery of expired leases, run by any process's recovery loop.

\* Mutant of Recoverable: a row without retry budget is skipped.
RecoverableInBudget(r) ==
    /\ inbox[r].status = "leased" /\ ~inbox[r].live
    /\ inbox[r].attempts < MaxRetries
    /\ \E s \in Sessions : ~Off(s)

Recoverable(r) ==
    /\ inbox[r].status = "leased" /\ ~inbox[r].live
    /\ \E s \in Sessions : ~Off(s)

RowAttempt(r) == <<r, inbox[r].epoch, inbox[r].attempts>>

\* _recover_linked_expired_lease's view of the aggregate.
AttemptStateValid(r) ==
    LET m == email[EmailOf[r]] IN
    \/ m.status = "processing" /\ RowAttempt(r) \in elected
    \/ m.status = "retry_wait" /\ RowAttempt(r) \notin elected

RecoverLinked(r) ==
    LET e == EmailOf[r]
        m == email[e]
        decision == IF EffectStarted(r) \/ ~AttemptStateValid(r) \/ m.deleted
                    THEN "manual_review" ELSE "retry_wait"
        status == ResolveFailure(decision, inbox[r].attempts, m.version)
    IN
    /\ Recoverable(r)
    /\ m.link = r
    /\ m.version < VMax
    /\ email' = [email EXCEPT ![e].status = status, ![e].version = @ + 1]
    /\ inbox' = Released(r, status, inbox[r].attempts + 1)
    /\ UNCHANGED <<worker, runtime, authority, elected, quarantined,
                   authorized, performed>>

RecoverUnlinked(r) ==
    /\ Recoverable(r)
    /\ email[EmailOf[r]].link # r
    /\ inbox' = Released(r,
          CASE inbox[r].effect -> "manual_review"
            [] ~inbox[r].effect /\ inbox[r].attempts + 1 <= MaxRetries ->
                  "retry_wait"
            [] OTHER -> "dead_letter",
          inbox[r].attempts + 1)
    /\ UNCHANGED <<email, worker, runtime, authority, elected, quarantined,
                   authorized, performed>>

-----------------------------------------------------------------------------
\* Operator commands.

\* Mutant of NextEpoch: the email's link keeps the old epoch.
NextEpochRowOnly(r) ==
    /\ inbox[r].status \in {"manual_review", "dead_letter"}
    /\ ~inbox[r].effect
    /\ inbox[r].epoch < MaxEpoch
    /\ email[EmailOf[r]].version < VMax
    /\ inbox' = [inbox EXCEPT ![r].status = "pending", ![r].attempts = 0,
                              ![r].epoch = @ + 1, ![r].started = FALSE]
    /\ email' = [email EXCEPT ![EmailOf[r]].status = "retry_wait",
                              ![EmailOf[r]].version = @ + 1,
                              ![EmailOf[r]].started = FALSE]
    /\ UNCHANGED <<worker, runtime, authority, elected, quarantined,
                   authorized, performed>>

\* Both commands open a new execution epoch on the row and its email; the
\* inbox trigger refuses that once an effect was marked.
NextEpoch(r) ==
    /\ inbox[r].status \in {"manual_review", "dead_letter"}
    /\ ~inbox[r].effect
    /\ inbox[r].epoch < MaxEpoch
    /\ email[EmailOf[r]].version < VMax
    /\ inbox' = [inbox EXCEPT ![r].status = "pending", ![r].attempts = 0,
                              ![r].epoch = @ + 1, ![r].started = FALSE]
    /\ email' = [email EXCEPT ![EmailOf[r]].status = "retry_wait",
                              ![EmailOf[r]].version = @ + 1,
                              ![EmailOf[r]].linkEpoch = @ + 1,
                              ![EmailOf[r]].started = FALSE]
    /\ UNCHANGED <<worker, runtime, authority, elected, quarantined,
                   authorized, performed>>

\* greenfield_requeue_inbox
Requeue(r) ==
    LET m == email[EmailOf[r]] IN
    /\ inbox[r].auth = authority.epoch
    /\ inbox[r].started
    /\ m.link = r /\ m.linkEpoch = inbox[r].epoch
    /\ m.status = inbox[r].status
    /\ m.auth = inbox[r].auth
    /\ m.createSeen /\ m.started /\ ~m.deleted /\ ~m.effects
    /\ NextEpoch(r)

\* release_intake_quarantine
ReleaseQuarantine(r) ==
    LET m == email[EmailOf[r]] IN
    /\ <<r, inbox[r].epoch>> \in quarantined
    /\ inbox[r].status = "manual_review"
    /\ m.status = "manual_review"
    /\ m.link = r /\ m.linkEpoch = inbox[r].epoch
    /\ NextEpoch(r)

-----------------------------------------------------------------------------
ConsumerStep(w) ==
    \/ ApplyRejected(w) \/ ApplyReview(w) \/ ApplyProcess(w)
    \/ ApplySettle(w) \/ Complete(w) \/ Fail(w)
    \/ CompleteLocally(w) \/ AuthorizeDetail(w) \/ ReadDetail(w)
    \/ BeginEffect(w) \/ PerformEffect(w)
    \/ AdapterReturns(w) \/ AdapterFails(w)
    \/ Finish(w) \/ FinishFailure(w)

Next ==
    \/ \E w \in Workers :
          \/ \E r \in Rows : Claim(w, r)
          \/ ConsumerStep(w)
          \/ Renew(w) \/ HeartbeatLost(w) \/ ConsumerDies(w)
    \/ \E r \in Rows :
          \/ Insert(r) \/ LeaseExpires(r)
          \/ RecoverLinked(r) \/ RecoverUnlinked(r)
          \/ Requeue(r) \/ ReleaseQuarantine(r)
    \/ \E s \in Sessions : Register(s) \/ ProcessExit(s)
    \/ RuntimeEnds \/ Pause \/ Resume

Spec == Init /\ [][Next]_vars
-----------------------------------------------------------------------------
(***************************************************************************)
(* Safety.                                                                 *)
(***************************************************************************)

\* Exactly one processing attempt of an email ever makes an external
\* effect: neither lease expiry and recovery, nor a zombie process, nor a
\* requeue, nor a second CREATE event lets another attempt act
\* (begin_processing_effect marks both rows before the call; every later
\* path sends a marked email to manual_review).
EffectOnce ==
    \A e \in Emails : \A a, b \in performed[e] : a = b

\* The email's processing link always names a CREATE row of that email, in
\* the same execution epoch and with a status the email's status allows:
\* finish, failure, recovery, requeue, release and source delete keep the
\* two tables in step although they are written row by row.
LinkStatusOK(m) ==
    LET r == inbox[m.link].status IN
    CASE m.status = "processing"    -> r = "leased"
      [] m.status = "retry_wait"    -> r \in {"pending", "retry_wait", "leased"}
      [] m.status = "manual_review" -> r = "manual_review"
      [] m.status = "dead_letter"   -> r = "dead_letter"

LinkConsistent ==
    \A e \in Emails :
       LET m == email[e] IN
       IF m.status \in {"processing", "retry_wait", "manual_review",
                        "dead_letter"}
       THEN /\ m.link \in Rows
            /\ EmailOf[m.link] = e
            /\ KindOf[m.link] = "create"
            /\ m.linkEpoch = inbox[m.link].epoch
            /\ m.auth = inbox[m.link].auth
            /\ LinkStatusOK(m)
       ELSE m.link = NoRow

\* The two effect markers of an owned email never disagree, so the
\* "email_marked is not inbox_marked" refusal of begin_processing_effect
\* and the effect branch of _recover_unlinked_expired_lease are dead code.
MarkersAgree ==
    /\ \A e \in Emails :
          email[e].link \in Rows =>
             (email[e].effects = inbox[email[e].link].effect)
    /\ \A r \in Rows :
          inbox[r].effect /\ email[EmailOf[r]].link # r =>
             inbox[r].status = "completed"

\* A leased row whose email it owns is either elected and processing or
\* not yet elected and waiting: _recover_linked_expired_lease never takes
\* its stale-ownership branch, and apply_email_event never finds a receipt
\* of the attempt it is about to elect.
AttemptsFresh ==
    /\ \A r \in Rows :
          inbox[r].status = "leased" /\ email[EmailOf[r]].link = r =>
             AttemptStateValid(r)
    /\ \A w \in Workers :
          worker[w].pc = "claimed" /\ LeaseHeld(w) =>
             Attempt(w) \notin elected

\* No CREATE event is consumed without its email having been taken up: a
\* completed CREATE row means the email saw a CREATE or its source is gone.
NoSilentDrop ==
    \A r \in Rows :
       /\ KindOf[r] = "create"
       /\ PolicyOf[r] \in ClaimablePolicies
       /\ inbox[r].status = "completed"
       => email[EmailOf[r]].createSeen \/ email[EmailOf[r]].deleted

\* A cancelled email was never acted on, and never will be: a source
\* delete cancels only before any effect is authorized, and afterwards no
\* consumer still holds an effect authorization for it.
CancelledUntouched ==
    \A e \in Emails :
       email[e].status = "cancelled" =>
          /\ authorized[e] = {}
          /\ \A w \in Workers :
                worker[w].pc = "effect" => EmailFor(w) # e

\* Whatever event a claimed row carries, applying it is a row of the
\* manifest, so EmailEventApplication never raises and kills the consumer.
DispositionFor(w) ==
    LET m == email[EmailFor(w)]
        k == KindOf[worker[w].row]
    IN CASE DecisionFor(w).should_process /\ DecisionFor(w).reason = "first_create" ->
              {"creator_elected"}
         [] DecisionFor(w).should_process /\ DecisionFor(w).reason # "first_create" ->
              {"processing_resumed"}
         [] ~DecisionFor(w).should_process /\ k = "delete" ->
              IF m.deleted THEN {"aggregate_noop"}
              ELSE IF m.status = "absent" THEN {"tombstone_created"}
                   ELSE {"aggregate_updated"}
         [] ~DecisionFor(w).should_process /\ k # "delete" ->
              IF m.status = "absent" THEN {"metadata_shell_created"}
              ELSE IF k = "update" /\ ~m.deleted
                   THEN {"aggregate_updated", "aggregate_noop"}
                   ELSE {"aggregate_noop"}

ApplicationsLegal ==
    \A w \in Workers :
       worker[w].pc = "claimed" /\ LeaseActive(w) /\ ~StickyOwnerMismatch(w) =>
          LET decision == DecisionFor(w)
          IN \A d \in DispositionFor(w) :
                LegalApplication(d, decision, decision.new_status,
                                 ~decision.should_process)

(***************************************************************************)
(* The inductive invariant behind the properties above, in five layers:    *)
(* what a consumer holds, claim tokens, links, effects, and what an email  *)
(* remembers of its events.                                                *)
(***************************************************************************)
Active == WorkerStates \ {"off", "idle", "dead"}

\* A consumer in the middle of a row knows the row and a result of the
\* right kind.
Holding ==
    \A w \in Workers :
       /\ worker[w].pc \in Active => worker[w].row \in Rows
       /\ worker[w].pc = "done" => worker[w].result \in Completions
       /\ worker[w].pc = "failed" => worker[w].result \in FailureDecisions

\* <<epoch, attempts>> is not after the row's, and is before it while the
\* row waits to be claimed.
Past(r, epoch, attempts) ==
    \/ epoch < inbox[r].epoch
    \/ /\ epoch = inbox[r].epoch
       /\ \/ attempts < inbox[r].attempts
          \/ /\ attempts = inbox[r].attempts
             /\ inbox[r].status \notin {"absent", "pending", "retry_wait"}

\* Every claim is the only one with its row, epoch and attempt number, and
\* is elected by its own consumer.
Tokens ==
    /\ \A w \in Workers :
          worker[w].pc \in Active =>
             Past(worker[w].row, worker[w].epoch, worker[w].attempts)
    /\ \A v, w \in Workers :
          /\ worker[v].pc \in Active /\ worker[w].pc \in Active
          /\ Attempt(v) = Attempt(w)
          => v = w
    /\ \A a \in elected : Past(a[1], a[2], a[3])
    /\ \A w \in Workers :
          worker[w].pc = "claimed" => Attempt(w) \notin elected

\* A linked email and its row tell the same story.
LinkState ==
    \A e \in Emails :
       LET m == email[e] IN
       /\ m.status \in {"absent", "ingested"} => ~m.effects
       /\ m.link \in Rows =>
             /\ m.createSeen
             /\ m.effects => m.status \in {"processing", "manual_review"}
             /\ m.deleted => m.effects \/ m.status = "dead_letter"
             /\ m.status = "processing" => RowAttempt(m.link) \in elected
             /\ m.status = "retry_wait" => RowAttempt(m.link) \notin elected

\* While a consumer is about to complete or to fail a row without
\* processing it, and its token is current, the email is not linked to it.
Unlinked ==
    \A w \in Workers :
       /\ worker[w].pc \in {"applied", "review"}
       /\ Attempt(w) = RowAttempt(worker[w].row)
       => email[EmailFor(w)].link # worker[w].row

\* An email is marked before anything is authorized for it, and only its
\* current attempt holds an authorization while it is processing.
EffectState ==
    \A e \in Emails :
       /\ ~email[e].effects => authorized[e] = {}
       /\ email[e].status = "cancelled" => ~email[e].effects
       /\ email[e].status = "processing" =>
             authorized[e] \subseteq {RowAttempt(email[e].link)}
       /\ \A a, b \in authorized[e] : a = b
       /\ performed[e] \subseteq authorized[e]

Effecting ==
    \A w \in Workers :
       worker[w].pc = "effect" => Attempt(w) \in authorized[EmailFor(w)]

\* The email has seen a CREATE, or its source is gone.
TakenUp(m) == m.createSeen \/ m.deleted

\* An email beyond the metadata shell was taken up, and so was that of a
\* CREATE which a consumer is about to complete.
Memory(m) ==
    /\ m.status = "absent" => ~TakenUp(m)
    /\ m.status \notin {"absent", "ingested"} => TakenUp(m)

Remembered ==
    /\ \A e \in Emails : Memory(email[e])
    /\ \A w \in Workers :
          worker[w].pc = "applied" /\ KindOf[worker[w].row] = "create" =>
             TakenUp(email[EmailFor(w)])

\* The conjunction TLAPS proves inductive: claims are unique tokens, links
\* follow their rows, effect authority is granted to one attempt, and a
\* CREATE is completed only when its email remembers it.
Inductive ==
    /\ TypeOK /\ Holding
    /\ Tokens
    /\ LinkConsistent /\ LinkState /\ MarkersAgree /\ Unlinked
    /\ EffectState /\ Effecting
    /\ Remembered /\ NoSilentDrop

(***************************************************************************)
(* Action properties.                                                      *)
(***************************************************************************)
SettledStatuses == {"waiting_approval", "notified_readonly", "no_action",
                    "archived", "cancelled"}

\* A settled email is never reopened by the inbox: late workers, retries,
\* requeues and duplicate CREATE events leave its status alone; it may only
\* still become cancelled, and then its source has been deleted.
SettledStays ==
    [][\A e \in Emails :
          email[e].status \in SettledStatuses =>
             \/ email'[e].status = email[e].status
             \/ email'[e].status = "cancelled" /\ email'[e].deleted]_vars

(***************************************************************************)
(* Liveness.  Consumers, the database clock, the recovery loop and the     *)
(* supervisor that restarts the process keep going; recovery and claiming  *)
(* are strongly fair because a process may come and go between two looks.  *)
(* Operators owe nothing.                                                  *)
(***************************************************************************)
\* The process heartbeat gives up: its registration is gone or refused by
\* the authority, or a consumer task ended.
FailStop(s) ==
    /\ \/ runtime.session # s
       \/ runtime.epoch # authority.epoch
       \/ \E w \in Workers : SessionOf[w] = s /\ worker[w].pc = "dead"
    /\ ProcessExit(s)

\* Nobody renews the registration of a process that is gone.
RuntimeLapses ==
    /\ Off(runtime.session)
    /\ RuntimeEnds

Fairness ==
    /\ \A w \in Workers : WF_vars(ConsumerStep(w))
    /\ \A r \in Rows : /\ WF_vars(LeaseExpires(r))
                        /\ SF_vars(RecoverLinked(r))
                        /\ SF_vars(RecoverUnlinked(r))
                        /\ SF_vars(\E w \in Workers : Claim(w, r))
    /\ \A s \in Sessions : WF_vars(FailStop(s))
    /\ WF_vars(RuntimeLapses)
    /\ SF_vars(\E s \in Sessions : Register(s))

FairSpec == Spec /\ Fairness

\* No lease is held for ever: a dead consumer, a lost heartbeat or a
\* crashed process always ends in recovery, unless the runtime is paused.
LeaseResolves ==
    \A r \in Rows :
       (inbox[r].status = "leased") ~>
          (inbox[r].status # "leased" \/ authority.state = "paused")

\* Every claimable row of the current authority epoch is settled within its
\* retry budget, whatever crashes: it never cycles for ever.
RowSettles ==
    \A r \in Rows :
       (/\ inbox[r].status \in {"pending", "retry_wait", "leased"}
        /\ inbox[r].auth = authority.epoch)
       ~> (\/ inbox[r].status \in {"completed", "manual_review",
                                    "dead_letter"}
           \/ inbox[r].auth # authority.epoch)
=============================================================================
