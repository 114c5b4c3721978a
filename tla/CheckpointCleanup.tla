-------------------------- MODULE CheckpointCleanup ---------------------------
(***************************************************************************)
(* Deleting the LangGraph checkpoints of finished e-mails.  An operator    *)
(* plans (scan and dry run), has a backup taken and its receipt signed,    *)
(* and executes the plan under the exclusive maintenance lock.  The        *)
(* service holds the same lock shared, once in its fence connection and    *)
(* once in every connection of its checkpoint pool; a service that loses   *)
(* its fence connection stops itself within a bounded time.                *)
(***************************************************************************)
EXTENDS Integers, FiniteSets

CONSTANTS
    Threads,     \* e-mails, each with its checkpoint thread
    Operators,   \* runs of the cleanup command
    Plans,       \* plan identifiers
    NoOne,
    Limit,       \* threads in a plan
    Retention,   \* MIN_RETENTION_AGE
    TTL,         \* DEFAULT_PLAN_TTL
    Detect,      \* fence monitor interval and probe timeout
    Settle,      \* DEFAULT_MAINTENANCE_EXCLUSIVE_SETTLE_SECONDS
    MaxClock,    \* bound: the clock
    MaxVersion,  \* bound: checkpoint writes of a thread
    MaxBackups   \* bound: backups taken

\* The settle time is fixed and outlasts the monitor (5 s and 10 s against 20 s).
ASSUME CleanupAssumption ==
    /\ Limit \in Nat /\ Retention \in Nat /\ TTL \in Nat /\ Detect \in Nat
    /\ MaxClock \in Nat /\ MaxVersion \in Nat /\ MaxBackups \in Nat
    /\ Settle \in Nat /\ Settle > Detect /\ MaxClock > Retention
    /\ NoOne \notin Operators \union Threads \union Plans

VARIABLES
    now,
    email,      \* emails_log: status and updated_at
    store,      \* the checkpoint rows of a thread: what they look like
    schema,     \* Alembic and checkpoint revision
    runtime,    \* the service and its two kinds of connection
    exclusive,  \* holder of the exclusive lock
    plans,      \* saved plan artifacts
    claimed,    \* plans with a claim artifact
    backups,    \* the backups taken
    receipts,   \* signed receipts by plan
    op          \* the command runs

vars == <<now, email, store, schema, runtime, exclusive, plans, claimed,
          backups, receipts, op>>
artifacts == <<plans, claimed>>
outside == <<backups, receipts>>

-----------------------------------------------------------------------------
\* Rows of a thread: none, of the slim shape with no cleanup handle left, with
\* handles, or of a shape that proves nothing (other namespace, over budget).
Kinds == {"none", "slim", "handles", "unproven"}

NoPlan == [created |-> -1]
NoBackup == [at |-> -1]
NoCandidates == [t \in {} |-> 0]
Idle == [pc |-> "idle", plan |-> NoOne, backup |-> NoBackup, since |-> 0,
         queue |-> {}, validated |-> NoOne, deleted |-> {}]

Phases == {"idle", "authorized", "claimed", "settling", "deleting", "reporting", "done"}

Candidate == [version : 0..MaxVersion, updated : 0..MaxClock]
Plan == [created : 0..MaxClock, cutoff : 0..MaxClock, scanned : -1..MaxClock, schema : {0, 1},
         candidates : UNION {[S -> Candidate] : S \in SUBSET Threads}]
Backup == [at : 0..MaxClock, content : [Threads -> 0..MaxVersion]]
Run == [pc : Phases, plan : Plans \union {NoOne}, backup : Backup \union {NoBackup},
        since : 0..MaxClock, queue : SUBSET Threads, validated : Threads \union {NoOne},
        deleted : SUBSET Threads]

TypeOK ==
    /\ now \in 0..MaxClock
    /\ email \in [Threads -> [terminal : BOOLEAN, updated : 0..MaxClock]]
    /\ store \in [Threads -> [kind : Kinds, version : 0..MaxVersion]]
    /\ schema \in {0, 1}
    /\ runtime \in [alive : BOOLEAN, fence : BOOLEAN, pool : BOOLEAN,
                    deadline : 0..MaxClock, writing : Threads \union {NoOne}]
    /\ exclusive \in Operators \union {NoOne}
    /\ plans \in [Plans -> Plan \union {NoPlan}]
    /\ claimed \subseteq Plans
    /\ backups \subseteq Backup
    /\ receipts \in [Plans -> Backup \union {NoBackup}]
    /\ op \in [Operators -> Run]

Init ==
    /\ now = Retention + 1
    /\ email = [t \in Threads |-> [terminal |-> TRUE, updated |-> 0]]
    /\ store = [t \in Threads |-> [kind |-> "slim", version |-> 0]]
    /\ schema = 0
    /\ runtime = [alive |-> TRUE, fence |-> TRUE, pool |-> TRUE,
                  deadline |-> 0, writing |-> NoOne]
    /\ exclusive = NoOne
    /\ plans = [p \in Plans |-> NoPlan]
    /\ claimed = {}
    /\ backups = {}
    /\ receipts = [p \in Plans |-> NoBackup]
    /\ op = [o \in Operators |-> Idle]

\* A service without its fence connection is stopped by its monitor in time.
MonitorHasTime == runtime.alive /\ ~runtime.fence => now < runtime.deadline

Tick ==
    /\ now < MaxClock /\ MonitorHasTime
    /\ now' = now + 1
    /\ UNCHANGED <<email, store, schema, runtime, exclusive, artifacts, outside, op>>

-----------------------------------------------------------------------------
(* The service. *)

\* Mutant of SharedHeld: pool connections do not hold the lock.
FenceHeldOnly == runtime.alive /\ runtime.fence

SharedHeld == runtime.alive /\ (runtime.fence \/ runtime.pool)

\* RuntimeCheckpointMaintenanceFence.start does not wait for the lock.
StartService ==
    /\ ~runtime.alive /\ exclusive = NoOne
    /\ runtime' = [runtime EXCEPT !.alive = TRUE, !.fence = TRUE, !.pool = TRUE]
    /\ UNCHANGED <<now, email, store, schema, exclusive, artifacts, outside, op>>

StopService ==
    /\ runtime.alive
    /\ runtime' = [runtime EXCEPT !.alive = FALSE, !.fence = FALSE, !.pool = FALSE,
                                  !.writing = NoOne, !.deadline = 0]
    /\ UNCHANGED <<now, email, store, schema, exclusive, artifacts, outside, op>>

LoseFence ==
    /\ runtime.alive /\ runtime.fence
    /\ now + Detect <= MaxClock
    /\ runtime' = [runtime EXCEPT !.fence = FALSE, !.deadline = now + Detect]
    /\ UNCHANGED <<now, email, store, schema, exclusive, artifacts, outside, op>>

LosePool ==
    /\ runtime.alive /\ runtime.pool
    /\ runtime' = [runtime EXCEPT !.pool = FALSE, !.writing = NoOne]
    /\ UNCHANGED <<now, email, store, schema, exclusive, artifacts, outside, op>>

\* A new pool connection waits for the shared lock.
configure_checkpoint_pool_connection ==
    /\ runtime.alive /\ ~runtime.pool /\ exclusive = NoOne
    /\ runtime' = [runtime EXCEPT !.pool = TRUE]
    /\ UNCHANGED <<now, email, store, schema, exclusive, artifacts, outside, op>>

\* FencedAsyncPostgresSaver._cursor: the fence is proved on a connection that
\* holds the lock, the statement follows on that connection.
BeginWrite(t) ==
    /\ runtime.alive /\ runtime.fence /\ runtime.pool /\ runtime.writing = NoOne
    /\ runtime' = [runtime EXCEPT !.writing = t]
    /\ UNCHANGED <<now, email, store, schema, exclusive, artifacts, outside, op>>

EndWrite(kind) ==
    /\ runtime.alive /\ runtime.pool /\ runtime.writing # NoOne
    /\ store[runtime.writing].version < MaxVersion
    /\ store' = [store EXCEPT ![runtime.writing] =
                    [kind |-> kind, version |-> @.version + 1]]
    /\ runtime' = [runtime EXCEPT !.writing = NoOne]
    /\ UNCHANGED <<now, email, schema, exclusive, artifacts, outside, op>>

\* emails_log is written through a pool that knows nothing of the lock.
UpdateEmail(t, terminal) ==
    /\ runtime.alive
    /\ email[t] # [terminal |-> terminal, updated |-> now]
    /\ email' = [email EXCEPT ![t] = [terminal |-> terminal, updated |-> now]]
    /\ UNCHANGED <<now, store, schema, runtime, exclusive, artifacts, outside, op>>

\* A deployment moves the schema on.
Migrate ==
    /\ schema = 0 /\ schema' = 1
    /\ UNCHANGED <<now, email, store, runtime, exclusive, artifacts, outside, op>>

-----------------------------------------------------------------------------
(* Plan, backup and receipt. *)

\* Fingerprint of the database, Alembic and checkpoint revision.
_read_database_metadata == schema

TerminalBefore(t, cutoff) == email[t].terminal /\ email[t].updated < cutoff

\* The current checkpoint is of the slim shape; none of its tokens is left.
_shape_and_handles(t) ==
    [slim |-> store[t].kind \in {"slim", "handles"},
     empty |-> store[t].kind = "slim"]

\* Over the e-mail's status and time and the content of every row.
_inventory_digest(t) ==
    [version |-> store[t].version, updated |-> email[t].updated]

\* A thread in one namespace, with rows, within the budgets, of a proven shape
\* and with nothing left to clean up behind it.
_inspect_thread(t) ==
    /\ store[t].kind # "none"
    /\ _shape_and_handles(t).slim /\ _shape_and_handles(t).empty

Eligible(t, cutoff) == TerminalBefore(t, cutoff) /\ _inspect_thread(t)

\* plan: the clock is read, then the database is scanned.
BeginPlan(p, cutoff) ==
    /\ plans[p] = NoPlan
    /\ now - cutoff >= Retention
    /\ plans' = [plans EXCEPT ![p] = [created |-> now, cutoff |-> cutoff, scanned |-> -1,
                                      schema |-> 0, candidates |-> NoCandidates]]
    /\ UNCHANGED <<now, email, store, schema, runtime, exclusive, claimed, outside, op>>

\* One snapshot.  The scan takes eligible threads within the limits; which ones
\* its budgets leave out does not matter here.
scan_candidates(p, S) ==
    /\ Cardinality(S) <= Limit
    /\ \A t \in S : Eligible(t, plans[p].cutoff)
    /\ plans' = [plans EXCEPT ![p].scanned = now, ![p].schema = _read_database_metadata,
                              ![p].candidates = [t \in S |-> _inventory_digest(t)]]

Saved(p) == plans[p] # NoPlan /\ plans[p].scanned # -1

\* The plan is content-addressed and saved once, complete.
save_plan(p, S) ==
    /\ plans[p] # NoPlan /\ ~Saved(p)
    /\ scan_candidates(p, S)
    /\ UNCHANGED <<now, email, store, schema, runtime, exclusive, claimed, outside, op>>

_assert_plan_unexpired(p) == plans[p].created <= now /\ now < plans[p].created + TTL

\* What comes later has a later time.
TakeBackup ==
    /\ now < MaxClock /\ MonitorHasTime /\ Cardinality(backups) < MaxBackups
    /\ backups' = backups \union
                  {[at |-> now, content |-> [t \in Threads |-> store[t].version]]}
    /\ now' = now + 1
    /\ UNCHANGED <<email, store, schema, runtime, exclusive, artifacts, receipts, op>>

\* The signer binds a backup to a plan.
SignReceipt(p, b) ==
    /\ Saved(p) /\ receipts[p] # b
    /\ receipts' = [receipts EXCEPT ![p] = b]
    /\ UNCHANGED <<now, email, store, schema, runtime, exclusive, artifacts, backups, op>>

-----------------------------------------------------------------------------
(* Execution. *)

\* Mutant of verify: a backup from before the plan will do.
verify_any_age(p) == receipts[p] # NoBackup /\ receipts[p].at <= now

\* Ed25519BackupReceiptVerifier.verify and _authorize_execution.
verify(p) ==
    /\ receipts[p] # NoBackup
    /\ receipts[p].at >= plans[p].created
    /\ receipts[p].at <= now

Authorize(o, p) ==
    /\ op[o].pc = "idle"
    /\ Saved(p) /\ _assert_plan_unexpired(p) /\ verify(p)
    /\ op' = [op EXCEPT ![o] = [Idle EXCEPT !.pc = "authorized", !.plan = p,
                                            !.backup = receipts[p]]]
    /\ UNCHANGED <<now, email, store, schema, runtime, exclusive, artifacts, outside>>

\* Mutant of claim_plan: an existing claim is overwritten.
claim_over(o) ==
    /\ op[o].pc = "authorized"
    /\ _assert_plan_unexpired(op[o].plan)
    /\ claimed' = claimed \union {op[o].plan}
    /\ op' = [op EXCEPT ![o].pc = "claimed",
                        ![o].queue = DOMAIN plans[op[o].plan].candidates]
    /\ UNCHANGED <<now, email, store, schema, runtime, exclusive, plans, outside>>

\* The claim artifact is created exclusively; whatever comes later, the plan is
\* used up.
claim_plan(o) ==
    /\ op[o].pc = "authorized"
    /\ _assert_plan_unexpired(op[o].plan) /\ op[o].plan \notin claimed
    /\ claimed' = claimed \union {op[o].plan}
    /\ op' = [op EXCEPT ![o].pc = "claimed",
                        ![o].queue = DOMAIN plans[op[o].plan].candidates]
    /\ UNCHANGED <<now, email, store, schema, runtime, exclusive, plans, outside>>

Refused(o) ==
    /\ op[o].pc = "authorized"
    /\ ~_assert_plan_unexpired(op[o].plan) \/ op[o].plan \in claimed
    /\ op' = [op EXCEPT ![o] = Idle]
    /\ UNCHANGED <<now, email, store, schema, runtime, exclusive, artifacts, outside>>

\* The plan's database, schema and validity, checked again and again.
_assert_plan_metadata(p) == _read_database_metadata = plans[p].schema

PlanHolds(o) ==
    /\ _assert_plan_metadata(op[o].plan)
    /\ _assert_plan_unexpired(op[o].plan)

Release(o) == exclusive' = IF exclusive = o THEN NoOne ELSE exclusive

\* The lock is tried, never waited for.
execution_session(o) ==
    /\ op[o].pc = "claimed"
    /\ IF PlanHolds(o) /\ ~SharedHeld /\ exclusive = NoOne
       THEN /\ exclusive' = o
            /\ op' = [op EXCEPT ![o].pc = "settling", ![o].since = now]
       ELSE op' = [op EXCEPT ![o].pc = "reporting"] /\ UNCHANGED exclusive
    /\ UNCHANGED <<now, email, store, schema, runtime, artifacts, outside>>

\* The lock is held through the service's detection window, then the plan is
\* checked again.
Settled(o) ==
    /\ op[o].pc = "settling" /\ now >= op[o].since + Settle
    /\ IF PlanHolds(o)
       THEN op' = [op EXCEPT ![o].pc = "deleting"] /\ UNCHANGED exclusive
       ELSE op' = [op EXCEPT ![o].pc = "reporting"] /\ Release(o)
    /\ UNCHANGED <<now, email, store, schema, runtime, artifacts, outside>>

\* The same candidate as in the plan, digest included.
_revalidate_on_connection(p, t) ==
    /\ Eligible(t, plans[p].cutoff)
    /\ _inventory_digest(t) = plans[p].candidates[t]

\* delete_candidate up to the deletion, in its transaction.
Revalidate(o, t) ==
    /\ op[o].pc = "deleting" /\ op[o].validated = NoOne /\ t \in op[o].queue
    /\ IF ~PlanHolds(o)
       THEN op' = [op EXCEPT ![o].pc = "reporting"] /\ Release(o)
       ELSE /\ op' = [op EXCEPT ![o].queue = @ \ {t},
                                ![o].validated = IF _revalidate_on_connection(op[o].plan, t)
                                                 THEN t ELSE NoOne]
            /\ UNCHANGED exclusive
    /\ UNCHANGED <<now, email, store, schema, runtime, artifacts, outside>>

\* adelete_thread and the commit.  The commit may go unheard.
DeleteThread(o) ==
    /\ op[o].pc = "deleting" /\ op[o].validated # NoOne
    /\ \/ /\ _assert_plan_unexpired(op[o].plan)
          /\ store' = [store EXCEPT ![op[o].validated].kind = "none"]
          /\ \/ /\ op' = [op EXCEPT ![o].validated = NoOne,
                                    ![o].deleted = @ \union {op[o].validated}]
                /\ UNCHANGED exclusive
             \/ /\ op' = [op EXCEPT ![o].pc = "reporting", ![o].validated = NoOne]
                /\ Release(o)
       \/ /\ ~_assert_plan_unexpired(op[o].plan)
          /\ op' = [op EXCEPT ![o].pc = "reporting", ![o].validated = NoOne]
          /\ Release(o) /\ UNCHANGED store
    /\ UNCHANGED <<now, email, schema, runtime, artifacts, outside>>

CloseSession(o) ==
    /\ op[o].pc = "deleting" /\ op[o].validated = NoOne /\ op[o].queue = {}
    /\ op' = [op EXCEPT ![o].pc = "reporting"] /\ Release(o)
    /\ UNCHANGED <<now, email, store, schema, runtime, artifacts, outside>>

\* The lock and the deletions share one connection: losing it ends both.
LoseConnection(o) ==
    /\ op[o].pc \in {"settling", "deleting"}
    /\ op' = [op EXCEPT ![o].pc = "reporting", ![o].validated = NoOne] /\ Release(o)
    /\ UNCHANGED <<now, email, store, schema, runtime, artifacts, outside>>

save_report(o) ==
    /\ op[o].pc = "reporting"
    /\ op' = [op EXCEPT ![o].pc = "done", ![o].queue = {}]
    /\ UNCHANGED <<now, email, store, schema, runtime, exclusive, artifacts, outside>>

Crash(o) ==
    /\ op[o].pc \notin {"idle", "done"}
    /\ op' = [op EXCEPT ![o].pc = "done", ![o].validated = NoOne, ![o].queue = {}]
    /\ Release(o)
    /\ UNCHANGED <<now, email, store, schema, runtime, artifacts, outside>>

-----------------------------------------------------------------------------
Service ==
    \/ StartService \/ StopService \/ LoseFence \/ LosePool
    \/ configure_checkpoint_pool_connection
    \/ \E t \in Threads : BeginWrite(t)
    \/ \E kind \in Kinds \ {"none"} : EndWrite(kind)
    \/ \E t \in Threads, terminal \in BOOLEAN : UpdateEmail(t, terminal)

Prepare ==
    \/ \E p \in Plans, cutoff \in 0..MaxClock : BeginPlan(p, cutoff)
    \/ \E p \in Plans, S \in SUBSET Threads : save_plan(p, S)
    \/ \E p \in Plans, b \in backups : SignReceipt(p, b)
    \/ TakeBackup

Execute ==
    \E o \in Operators :
        \/ \E p \in Plans : Authorize(o, p)
        \/ claim_plan(o) \/ Refused(o) \/ execution_session(o) \/ Settled(o)
        \/ \E t \in Threads : Revalidate(o, t)
        \/ DeleteThread(o) \/ CloseSession(o) \/ LoseConnection(o)
        \/ save_report(o) \/ Crash(o)

Next == Tick \/ Migrate \/ Service \/ Prepare \/ Execute

Spec == Init /\ [][Next]_vars

-----------------------------------------------------------------------------
(* Properties. *)

Erased(t) == store[t].kind # "none" /\ store'[t].kind = "none"

\* What a run deletes is, byte for byte, what the backup it was authorised with
\* holds: nothing written to the thread after the backup is lost, however plan,
\* backup, receipt, writes and execution interleave (verify,
\* _revalidate_on_connection).  The exception is a backup completed while the
\* plan was being made, after its clock was read and before the scan: verify
\* takes it although rows it does not hold may have entered the plan.
ErasesOnlyBackedUp ==
    [][\A t \in Threads : Erased(t) =>
          \E o \in Operators :
             /\ op[o].validated = t
             /\ \/ op[o].backup.content[t] = store[t].version
                \/ /\ plans[op[o].plan].created <= op[o].backup.at
                   /\ op[o].backup.at < plans[op[o].plan].scanned]_vars

\* Rows are deleted only for an e-mail that is finished and past the plan's
\* cutoff at that very moment, although its row is read without a lock: the
\* service that could still change it has stopped by then (execution_session).
ErasesOnlyFinished ==
    [][\A t \in Threads : Erased(t) =>
          \E o \in Operators : /\ op[o].validated = t
                               /\ email[t].terminal
                               /\ email[t].updated < plans[op[o].plan].cutoff]_vars

\* While an operator holds the exclusive lock no checkpoint write of the
\* service lands, not even one whose fence proof came before: the pool's
\* connections hold the lock themselves (FencedAsyncPostgresSaver._cursor).
NoWriteUnderExclusive ==
    [][exclusive # NoOne =>
          \A t \in Threads : store'[t] # store[t] => Erased(t)]_vars

\* A plan is executed by one run only, also when that run crashes or fails
\* half-way: the second needs a new plan (claim_plan).
ExecutedOnce ==
    \A o, q \in Operators :
        /\ op[o].pc \in {"claimed", "settling", "deleting", "reporting"}
        /\ op[q].plan = op[o].plan /\ op[q].deleted # {}
        => q = o

\* A run works on the rows exactly while it has the lock, and while it has it
\* the service has no connection that holds it.
LockExcludes ==
    /\ \A o \in Operators : exclusive = o <=> op[o].pc \in {"settling", "deleting"}
    /\ exclusive # NoOne => ~SharedHeld

\* A service that lost its fence is gone before the settling time is over, so
\* nothing changes an e-mail while its rows are deleted.
StoppedInTime ==
    /\ runtime.deadline <= now + Detect
    /\ runtime.alive /\ ~runtime.fence => now <= runtime.deadline
    /\ \A o \in Operators :
        /\ op[o].pc = "settling" /\ runtime.alive => runtime.deadline <= op[o].since + Detect
        /\ op[o].pc = "deleting" => ~runtime.alive

\* A backup is older than now and than the rows, but not than a plan scanned
\* before it.
BackupsInOrder ==
    /\ \A p \in Plans : receipts[p] # NoBackup => receipts[p] \in backups
    /\ \A b \in backups : b.at < now /\ \A t \in Threads : b.content[t] <= store[t].version
    /\ \A p \in Plans : Saved(p) =>
        \A t \in DOMAIN plans[p].candidates :
            /\ plans[p].candidates[t].version <= store[t].version
            /\ \A b \in backups : b.at >= plans[p].scanned =>
                    plans[p].candidates[t].version <= b.content[t]

\* What a run was authorised with, and what it is about to delete: the candidate
\* of its plan, still as planned.
Authorized ==
    \A o \in Operators :
        /\ op[o].pc # "idle" =>
            /\ op[o].plan \in Plans /\ Saved(op[o].plan)
            /\ op[o].queue \subseteq DOMAIN plans[op[o].plan].candidates
            /\ op[o].backup \in backups
            /\ op[o].backup.at >= plans[op[o].plan].created
        /\ op[o].validated # NoOne =>
            /\ op[o].pc = "deleting"
            /\ op[o].validated \in DOMAIN plans[op[o].plan].candidates
            /\ TerminalBefore(op[o].validated, plans[op[o].plan].cutoff)
            /\ _inventory_digest(op[o].validated)
                  = plans[op[o].plan].candidates[op[o].validated]

\* The run that has used its plan.
Claims(o) == op[o].pc \in {"claimed", "settling", "deleting", "reporting"} \/ op[o].deleted # {}

ClaimedOnce ==
    /\ \A o \in Operators : Claims(o) => op[o].plan \in claimed
    /\ \A o, q \in Operators : Claims(o) /\ Claims(q) /\ op[o].plan = op[q].plan => o = q
    /\ \A o \in Operators : op[o].pc \in {"idle", "authorized"} => op[o].deleted = {}

\* What holds of plans, backups and runs in every state (claim_plan): two runs
\* with one plan never both delete.  It is inductive.
CleanupInv ==
    /\ TypeOK /\ ExecutedOnce
    /\ LockExcludes /\ StoppedInTime /\ BackupsInOrder /\ Authorized /\ ClaimedOnce

\* What is deleted was backed up as it stands, belongs to a finished e-mail,
\* and both are true at the deletion (delete_candidate).
ErasesOnlyEligible == ErasesOnlyBackedUp /\ ErasesOnlyFinished
=============================================================================
