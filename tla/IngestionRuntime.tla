-------------------------- MODULE IngestionRuntime ---------------------------
(***************************************************************************)
(* The life of one process: application_lifespan brings up the maintenance *)
(* fence, the context, the Feishu connection and the ingestion runtime,    *)
(* and takes them down again in the reverse order; IngestionRuntime owns   *)
(* the pool, the web-instance lease, the heartbeat, the Inbox consumers,   *)
(* the recovery loop and polling.  Each await of the start and of the      *)
(* shutdown is a step of the main task, and the other tasks run in         *)
(* between.  A database call of a task may be applied without its answer,  *)
(* when the connection fails or when the task is cancelled meanwhile.      *)
(***************************************************************************)

VARIABLES
    pc,      \* where the main task is
    alive,   \* the process
    fence,   \* the shared checkpoint-maintenance lock
    context, \* database, graph, Exchange client
    lark,    \* Feishu: intake open, WebSocket, monitor, a callback running
    digest,  \* the daily-digest scheduler
    rt,      \* the runtime's own fields
    lock,    \* who holds the session lock
    lease,   \* the lease the runtime holds, and whether the row still has
             \* the version it names
    row,     \* the pipeline_runtime_instances row
    open     \* whether the authority is ingest_only

vars == <<pc, alive, fence, context, lark, digest, rt, lock, lease, row, open>>
database == <<row, open>>
outer == <<fence, context, lark, digest>>

-----------------------------------------------------------------------------
StartSteps == {"fence", "context", "lark", "ws", "pool", "authority",
               "register", "processing", "digest"}
RollbackSteps == {"rb_polling", "rb_heartbeat", "rb_worker", "rb_drain", "rb_pool"}
StopSteps == {"sd_polling", "sd_idle", "sd_heartbeat", "sd_worker",
              "sd_final", "sd_drain", "sd_pool"}
ShutdownSteps == {"sd_begin", "sd_digest", "sd_stop", "sd_intake", "sd_ws",
                  "sd_context", "sd_fence"}
Steps == StartSteps \union {"serving"} \union RollbackSteps
            \union StopSteps \union ShutdownSteps \union {"exit"}

NoLease == [lifecycle |-> "none", current |-> FALSE]

TypeOK ==
    /\ pc \in Steps
    /\ alive \in BOOLEAN
    /\ fence \in {"off", "held", "lost"}
    /\ context \in {"off", "open", "closed"}
    /\ lark \in [intake : BOOLEAN, ws : {"off", "up", "down", "stopping"},
                 monitor : BOOLEAN, callback : BOOLEAN]
    /\ digest \in BOOLEAN
    /\ rt \in [pool : BOOLEAN, heartbeat : {"off", "sleeping", "renewing"},
               worker : {"off", "running", "dead"},
               recovery : {"off", "running", "dead"},
               polling : {"off", "idle", "renewing", "writing", "dead"},
               accepting : BOOLEAN, ready : BOOLEAN, started : BOOLEAN,
               stopping : BOOLEAN, stopped : BOOLEAN, clean : BOOLEAN]
    /\ lock \in {"free", "heartbeat", "page"}
    /\ lease \in [lifecycle : {"none", "active", "draining"}, current : BOOLEAN]
    /\ row \in [lifecycle : {"absent", "active", "draining"}, live : BOOLEAN]
    /\ open \in BOOLEAN

Init ==
    /\ pc = "fence" /\ alive = TRUE
    /\ fence = "off" /\ context = "off"
    /\ lark = [intake |-> FALSE, ws |-> "off", monitor |-> FALSE,
               callback |-> FALSE]
    /\ rt = [pool |-> FALSE, heartbeat |-> "off", worker |-> "off",
             recovery |-> "off", polling |-> "off", accepting |-> FALSE,
             ready |-> FALSE, started |-> FALSE, stopping |-> FALSE,
             stopped |-> FALSE, clean |-> TRUE]
    /\ digest = FALSE
    /\ lock = "free" /\ lease = NoLease
    /\ row = [lifecycle |-> "absent", live |-> FALSE]
    /\ open = TRUE

-----------------------------------------------------------------------------
(* Readiness and the lease. *)

processing_ready == rt.worker = "running" /\ rt.recovery = "running"
polling_live == rt.polling \notin {"off", "dead"}

\* The row takes a renewal or a drain only from the version it last gave out.
RowTakes == row.lifecycle = "active" /\ lease.current
RowRenews == RowTakes /\ open /\ row.live

\* A renewal that nobody hears of: it failed, or it was applied and its answer
\* is lost, and the lease names a version the row no longer has.
RenewalUnheard ==
    \/ UNCHANGED lease
    \/ RowRenews /\ lease' = [lease EXCEPT !.current = FALSE]

-----------------------------------------------------------------------------
(* Start. *)

Goto(step) == pc' = step

RuntimeSteps == {"pool", "authority", "register", "processing"}

\* A stage of the start fails or runs out of time: the runtime rolls its own
\* part back, the lifespan then shuts down whatever was attempted.
StartFails ==
    /\ alive
    /\ pc \in StartSteps
    /\ IF pc \in RuntimeSteps
       THEN /\ Goto("rb_polling")
            /\ rt' = [rt EXCEPT !.accepting = FALSE, !.ready = FALSE, !.pool = TRUE]
       ELSE Goto("sd_begin") /\ UNCHANGED rt
    /\ context' = IF pc = "context" THEN "open" ELSE context
    /\ UNCHANGED <<alive, fence, lark, digest, lock, lease, database>>

StartFence ==
    /\ alive /\ pc = "fence" /\ Goto("context")
    /\ fence' = "held"
    /\ UNCHANGED <<alive, context, lark, digest, rt, lock, lease, database>>

\* initialize_app_context, bind_checkpoint_write_guard and setup_async.
StartContext ==
    /\ alive /\ pc = "context" /\ Goto("lark")
    /\ context' = "open"
    /\ UNCHANGED <<alive, fence, lark, digest, rt, lock, lease, database>>

\* init_lark_app opens the intake, which is closed again before the WebSocket
\* is started.
StartLark ==
    /\ alive /\ pc = "lark" /\ Goto("ws")
    /\ lark' = [lark EXCEPT !.intake = FALSE, !.ws = "down"]
    /\ UNCHANGED <<alive, fence, context, digest, rt, lock, lease, database>>

ConnectLark ==
    /\ alive /\ pc = "ws" /\ lark.ws = "up" /\ Goto("pool")
    /\ UNCHANGED <<alive, outer, rt, lock, lease, database>>

OpenPool ==
    /\ alive /\ pc = "pool" /\ Goto("authority")
    /\ rt' = [rt EXCEPT !.pool = TRUE]
    /\ UNCHANGED <<alive, outer, lock, lease, database>>

ReadAuthority ==
    /\ alive /\ pc = "authority" /\ open /\ Goto("register")
    /\ UNCHANGED <<alive, outer, rt, lock, lease, database>>

\* The heartbeat task is created with the lease.  The row may be written
\* without an answer; then the runtime holds no lease to drain.
Register ==
    /\ alive /\ pc = "register" /\ open
    /\ row' = [lifecycle |-> "active", live |-> TRUE]
    /\ \/ /\ Goto("processing")
          /\ lease' = [lifecycle |-> "active", current |-> TRUE]
          /\ rt' = [rt EXCEPT !.heartbeat = "sleeping"]
       \/ Goto("rb_polling") /\ UNCHANGED <<lease, rt>>
    /\ UNCHANGED <<alive, outer, lock, open>>

\* _start_processing: the consumers and the recovery loop; from here the
\* session accepts pages.
Processing == [rt EXCEPT !.worker = "running", !.recovery = "running",
                         !.accepting = TRUE]

\* _start_polling, and the announcement of a start that still has its heartbeat.
Announced == [Processing EXCEPT !.polling = "idle", !.started = TRUE, !.ready = TRUE]

\* Once expired leases are recovered nothing is awaited until the end of the
\* start: no other task runs in between.  Callbacks are let in last, with the
\* connection still up.
StartProcessing ==
    /\ alive /\ pc = "processing" /\ rt.heartbeat # "off"
    /\ \/ /\ Goto("rb_polling") /\ UNCHANGED lark
          /\ rt' = [Processing EXCEPT !.accepting = FALSE]
       \/ /\ lark.ws # "up" /\ Goto("sd_begin")
          /\ rt' = Announced /\ UNCHANGED lark
       \/ /\ lark.ws = "up" /\ Goto("digest")
          /\ rt' = Announced
          /\ lark' = [lark EXCEPT !.intake = TRUE, !.monitor = TRUE]
    /\ UNCHANGED <<alive, fence, context, digest, lock, lease, database>>

StartDigest ==
    /\ alive /\ pc = "digest" /\ Goto("serving")
    /\ digest' \in BOOLEAN
    /\ UNCHANGED <<alive, fence, context, lark, rt, lock, lease, database>>

-----------------------------------------------------------------------------
(* The heartbeat. *)

\* Mutant of FailStop: the loss is only logged.
LogOnly == UNCHANGED <<alive, pc>>

\* os._exit: no cleanup runs.
FailStop == alive' = FALSE /\ pc' = "exit"

ProcessingLost == rt.started /\ rt.ready /\ rt.accepting /\ ~processing_ready
PollingLost == rt.started /\ rt.ready /\ ~polling_live

\* heartbeat_once finds a part of the process gone.
HeartbeatEscalates ==
    /\ alive /\ rt.heartbeat = "sleeping"
    /\ ProcessingLost \/ PollingLost
    /\ FailStop
    /\ UNCHANGED <<outer, rt, lock, lease, database>>

HeartbeatBegins ==
    /\ alive /\ rt.heartbeat = "sleeping" /\ lock = "free"
    /\ ~ProcessingLost /\ ~PollingLost
    /\ rt' = [rt EXCEPT !.heartbeat = "renewing"]
    /\ lock' = "heartbeat"
    /\ UNCHANGED <<pc, alive, outer, lease, database>>

HeartbeatSucceeds ==
    /\ alive /\ rt.heartbeat = "renewing" /\ RowRenews
    /\ rt' = [rt EXCEPT !.heartbeat = "sleeping"]
    /\ lock' = "free"
    /\ UNCHANGED <<pc, alive, outer, lease, database>>

\* Whatever else comes of it, the session is lost and the process ends.
HeartbeatFails ==
    /\ alive /\ rt.heartbeat = "renewing"
    /\ RenewalUnheard
    /\ FailStop
    /\ UNCHANGED <<outer, rt, lock, database>>

-----------------------------------------------------------------------------
(* A polling page: _SessionBoundPollingCommitter.commit_page. *)

PageBegins ==
    /\ alive /\ rt.polling = "idle" /\ lock = "free"
    /\ rt.accepting /\ lease.lifecycle = "active"
    /\ rt' = [rt EXCEPT !.polling = "renewing"]
    /\ lock' = "page"
    /\ UNCHANGED <<pc, alive, outer, lease, database>>

PageRenewed ==
    /\ alive /\ rt.polling = "renewing" /\ RowRenews
    /\ rt' = [rt EXCEPT !.polling = "writing"]
    /\ UNCHANGED <<pc, alive, outer, lock, lease, database>>

\* renew_polling_lease closes the session to further pages, for good.
PageNotRenewed ==
    /\ alive /\ rt.polling = "renewing"
    /\ RenewalUnheard
    /\ rt' = [rt EXCEPT !.polling = "idle", !.accepting = FALSE]
    /\ lock' = "free"
    /\ UNCHANGED <<pc, alive, outer, database>>

\* The transaction ends one way or the other.
PageEnds ==
    /\ alive /\ rt.polling = "writing"
    /\ rt' = [rt EXCEPT !.polling = "idle"]
    /\ lock' = "free"
    /\ UNCHANGED <<pc, alive, outer, lease, database>>

-----------------------------------------------------------------------------
(* Parts that fail, and the world outside. *)

WorkerDies ==
    /\ alive /\ rt.worker = "running"
    /\ rt' = [rt EXCEPT !.worker = "dead"]
    /\ UNCHANGED <<pc, alive, outer, lock, lease, database>>

\* A recovery call that raises ends the recovery loop.
RecoveryDies ==
    /\ alive /\ rt.recovery = "running"
    /\ rt' = [rt EXCEPT !.recovery = "dead"]
    /\ UNCHANGED <<pc, alive, outer, lock, lease, database>>

PollingDies ==
    /\ alive /\ rt.polling = "idle"
    /\ rt' = [rt EXCEPT !.polling = "dead"]
    /\ UNCHANGED <<pc, alive, outer, lock, lease, database>>

WebSocketUp ==
    /\ alive /\ lark.ws = "down" /\ lark' = [lark EXCEPT !.ws = "up"]
    /\ UNCHANGED <<pc, alive, fence, context, digest, rt, lock, lease, database>>

WebSocketDown ==
    /\ alive /\ lark.ws = "up" /\ lark' = [lark EXCEPT !.ws = "down"]
    /\ UNCHANGED <<pc, alive, fence, context, digest, rt, lock, lease, database>>

\* _monitor_lark_ws_connection, after the grace period.
MonitorFailStops ==
    /\ alive /\ lark.monitor /\ lark.ws = "down"
    /\ FailStop
    /\ UNCHANGED <<outer, rt, lock, lease, database>>

CallbackArrives ==
    /\ alive /\ lark.intake /\ ~lark.callback
    /\ lark' = [lark EXCEPT !.callback = TRUE]
    /\ UNCHANGED <<pc, alive, fence, context, digest, rt, lock, lease, database>>

CallbackEnds ==
    /\ alive /\ lark.callback
    /\ lark' = [lark EXCEPT !.callback = FALSE]
    /\ UNCHANGED <<pc, alive, fence, context, digest, rt, lock, lease, database>>

\* The connection that holds the lock breaks; the fence's monitor, or the next
\* checkpoint write, ends the process.
FenceLost ==
    /\ alive /\ fence = "held" /\ fence' = "lost"
    /\ UNCHANGED <<pc, alive, context, lark, digest, rt, lock, lease, database>>

FenceFailStops ==
    /\ alive /\ fence = "lost"
    /\ FailStop
    /\ UNCHANGED <<outer, rt, lock, lease, database>>

\* An operator pauses the authority.
Pause ==
    /\ open /\ open' = FALSE
    /\ UNCHANGED <<pc, alive, outer, rt, lock, lease, row>>

\* lease_until passes.
Lapse ==
    /\ row.live /\ row' = [row EXCEPT !.live = FALSE]
    /\ UNCHANGED <<pc, alive, outer, rt, lock, lease, open>>

-----------------------------------------------------------------------------
(* Stopping the parts, in a rollback and in a stop. *)

\* A cancelled call leaves the row changed or not; the lock is let go.
CancelPolling(next) ==
    /\ rt' = [rt EXCEPT !.polling = "off"]
    /\ lock' = IF lock = "page" THEN "free" ELSE lock
    /\ IF rt.polling = "renewing" THEN RenewalUnheard ELSE UNCHANGED lease
    /\ Goto(next)
    /\ UNCHANGED <<alive, outer, database>>

\* _cancel_heartbeat and _cancel_recovery.
CancelHeartbeat(next) ==
    /\ rt' = [rt EXCEPT !.heartbeat = "off", !.recovery = "off"]
    /\ lock' = IF lock = "heartbeat" THEN "free" ELSE lock
    /\ IF rt.heartbeat = "renewing" THEN RenewalUnheard ELSE UNCHANGED lease
    /\ Goto(next)
    /\ UNCHANGED <<alive, outer, database>>

\* Mutant of StopWorker: a consumer that outlives its cancellation is ignored.
StopWorkerOrNot(next, failed) ==
    /\ rt' \in {rt, [rt EXCEPT !.worker = "off"]} /\ Goto(next)
    /\ UNCHANGED <<alive, outer, lock, lease, database>>

\* A consumer that outlives its cancellation makes the stop fail.
StopWorker(next, failed) ==
    /\ \/ rt' = [rt EXCEPT !.worker = "off"] /\ Goto(next)
       \/ /\ rt.worker = "running"
          /\ rt' = [rt EXCEPT !.clean = FALSE] /\ Goto(failed)
    /\ UNCHANGED <<alive, outer, lock, lease, database>>

\* A lease is drained through the row it names, or the stop fails (the row may
\* be drained all the same); without a lease there is nothing to drain.
DrainLease(next, failed) ==
    /\ \/ /\ lease.lifecycle # "active"
          /\ Goto(next) /\ UNCHANGED <<lease, row, rt>>
       \/ /\ lease.lifecycle = "active" /\ RowTakes
          /\ row' = [lifecycle |-> "draining", live |-> FALSE]
          /\ lease' = [lease EXCEPT !.lifecycle = "draining"]
          /\ Goto(next) /\ UNCHANGED rt
       \/ /\ lease.lifecycle = "active"
          /\ \/ UNCHANGED <<lease, row>>
             \/ /\ RowTakes
                /\ row' = [lifecycle |-> "draining", live |-> FALSE]
                /\ lease' = [lease EXCEPT !.current = FALSE]
          /\ rt' = [rt EXCEPT !.clean = FALSE]
          /\ Goto(failed)
    /\ UNCHANGED <<alive, outer, lock, open>>

ClosePool(next) ==
    /\ \/ rt' = [rt EXCEPT !.pool = FALSE, !.stopped = TRUE]
       \/ rt' = [rt EXCEPT !.clean = FALSE]
    /\ Goto(next)
    /\ UNCHANGED <<alive, outer, lock, lease, database>>

\* Where a rollback goes from here: the lifespan's shutdown after a failed
\* start, its next stage when the shutdown itself asked for it.
AfterRollback == IF rt.stopping THEN "sd_intake" ELSE "sd_begin"

Rollback ==
    /\ alive
    /\ \/ pc = "rb_polling" /\ CancelPolling("rb_heartbeat")
       \/ pc = "rb_heartbeat" /\ CancelHeartbeat("rb_worker")
       \/ pc = "rb_worker" /\ StopWorker("rb_drain", AfterRollback)
       \/ pc = "rb_drain" /\ DrainLease("rb_pool", AfterRollback)
       \/ pc = "rb_pool" /\ ClosePool(AfterRollback)

\* _wait_for_session_idle: bounded, so it may also give up.
WaitIdle ==
    /\ \/ lock = "free" /\ UNCHANGED rt
       \/ lock # "free" /\ rt' = [rt EXCEPT !.clean = FALSE]
    /\ Goto("sd_heartbeat")
    /\ UNCHANGED <<alive, outer, lock, lease, database>>

\* The last heartbeat brings the row's counters up to date, if they are not.
FinalHeartbeat ==
    /\ \/ UNCHANGED <<lease, rt>>
       \/ RenewalUnheard /\ rt' = [rt EXCEPT !.clean = FALSE]
    /\ Goto("sd_drain")
    /\ UNCHANGED <<alive, outer, lock, database>>

\* _finish_stop goes through the parts and drains only if every one stopped.
FinishStop ==
    /\ alive
    /\ \/ pc = "sd_polling" /\ CancelPolling("sd_idle")
       \/ pc = "sd_idle" /\ WaitIdle
       \/ pc = "sd_heartbeat" /\ CancelHeartbeat("sd_worker")
       \/ pc = "sd_worker" /\ StopWorker(IF rt.clean THEN "sd_final" ELSE "sd_intake",
                                         "sd_intake")
       \/ pc = "sd_final" /\ FinalHeartbeat
       \/ pc = "sd_drain" /\ DrainLease("sd_pool", "sd_intake")
       \/ pc = "sd_pool" /\ ClosePool("sd_intake")

\* The lifespan gives the stop so long and cancels it then, wherever it is.
StopTimesOut ==
    /\ alive /\ rt.stopping /\ pc \in StopSteps \union RollbackSteps
    /\ rt' = [rt EXCEPT !.clean = FALSE] /\ Goto("sd_intake")
    /\ UNCHANGED <<alive, outer, lock, lease, database>>

-----------------------------------------------------------------------------
(* _shutdown_application_components. *)

Terminate ==
    /\ alive /\ pc = "serving" /\ Goto("sd_begin")
    /\ UNCHANGED <<alive, outer, rt, lock, lease, database>>

\* The intake is closed and the monitor stopped before anything else.
BeginShutdown ==
    /\ alive /\ pc = "sd_begin" /\ Goto("sd_digest")
    /\ lark' = [lark EXCEPT !.intake = FALSE, !.monitor = FALSE,
                            !.ws = IF @ = "off" THEN "off" ELSE "stopping"]
    /\ rt' = [rt EXCEPT !.clean = TRUE]
    /\ UNCHANGED <<alive, fence, context, digest, lock, lease, database>>

StopDigest ==
    /\ alive /\ pc = "sd_digest" /\ Goto("sd_stop")
    /\ \/ digest' = FALSE /\ UNCHANGED rt
       \/ digest /\ UNCHANGED digest /\ rt' = [rt EXCEPT !.clean = FALSE]
    /\ UNCHANGED <<alive, fence, context, lark, lock, lease, database>>

\* IngestionRuntime.stop: the runtime has stopped, never started, or is up.  A
\* start that could not be rolled back is rolled back again.
StopRuntime ==
    /\ alive /\ pc = "sd_stop"
    /\ Goto(CASE rt.stopped -> "sd_intake"
              [] ~rt.stopped /\ ~rt.started /\ ~rt.pool -> "sd_intake"
              [] ~rt.stopped /\ ~rt.started /\ rt.pool -> "rb_polling"
              [] ~rt.stopped /\ rt.started -> "sd_polling")
    /\ rt' = [rt EXCEPT !.accepting = FALSE, !.ready = FALSE, !.stopping = TRUE]
    /\ UNCHANGED <<alive, outer, lock, lease, database>>

\* stop_lark_intake waits for callbacks, within its budget.
StopIntake ==
    /\ alive /\ pc = "sd_intake" /\ Goto("sd_ws")
    /\ \/ ~lark.callback /\ UNCHANGED rt
       \/ lark.callback /\ rt' = [rt EXCEPT !.clean = FALSE]
    /\ UNCHANGED <<alive, outer, lock, lease, database>>

StopWebSocket ==
    /\ alive /\ pc = "sd_ws" /\ Goto("sd_context")
    /\ \/ lark' = [lark EXCEPT !.ws = "off"] /\ UNCHANGED rt
       \/ /\ lark.ws = "stopping" /\ UNCHANGED lark
          /\ rt' = [rt EXCEPT !.clean = FALSE]
    /\ UNCHANGED <<alive, fence, context, digest, lock, lease, database>>

\* Mutant of CloseContext: the context is closed whatever still runs.
CloseContextAnyway ==
    /\ alive /\ pc = "sd_context" /\ Goto("sd_fence")
    /\ context' = IF context = "open" THEN "closed" ELSE context
    /\ UNCHANGED <<alive, fence, lark, digest, rt, lock, lease, database>>

\* The context is closed only when everything that uses it has stopped; the
\* close may fail.
CloseContext ==
    /\ alive /\ pc = "sd_context" /\ Goto("sd_fence")
    /\ \/ UNCHANGED context
       \/ context = "open" /\ rt.clean /\ context' = "closed"
    /\ UNCHANGED <<alive, fence, lark, digest, rt, lock, lease, database>>

\* The fence is released last, and only by a process that owns nothing more.
ReleaseFence ==
    /\ alive /\ pc = "sd_fence" /\ Goto("exit")
    /\ fence' = IF rt.clean /\ context # "open" THEN "off" ELSE fence
    /\ UNCHANGED <<alive, context, lark, digest, rt, lock, lease, database>>

Exit ==
    /\ alive /\ pc = "exit" /\ alive' = FALSE
    /\ UNCHANGED <<pc, outer, rt, lock, lease, database>>

-----------------------------------------------------------------------------
Start ==
    \/ StartFence \/ StartContext \/ StartLark \/ ConnectLark \/ OpenPool
    \/ ReadAuthority \/ Register \/ StartProcessing \/ StartDigest \/ StartFails

Shutdown ==
    \/ Rollback \/ FinishStop \/ StopTimesOut
    \/ BeginShutdown \/ StopDigest \/ StopRuntime \/ StopIntake
    \/ StopWebSocket \/ CloseContext \/ ReleaseFence \/ Exit

MainStep == Start \/ Shutdown

HeartbeatEnds == HeartbeatSucceeds \/ HeartbeatFails

PageStep == PageBegins \/ PageRenewed \/ PageNotRenewed \/ PageEnds

TaskStep ==
    \/ HeartbeatEscalates \/ HeartbeatBegins \/ HeartbeatEnds
    \/ PageStep \/ CallbackArrives \/ CallbackEnds

Mishap ==
    \/ WorkerDies \/ RecoveryDies \/ PollingDies \/ WebSocketUp \/ WebSocketDown
    \/ MonitorFailStops \/ FenceLost \/ FenceFailStops \/ Pause \/ Lapse

Next == MainStep \/ TaskStep \/ Mishap \/ Terminate

Spec == Init /\ [][Next]_vars

\* The event loop runs what can run.  The session lock is an asyncio.Lock,
\* which serves its waiters in order: a heartbeat that waits for it gets it.
Fairness ==
    /\ WF_vars(MainStep)
    /\ WF_vars(HeartbeatEscalates) /\ SF_vars(HeartbeatBegins) /\ WF_vars(HeartbeatEnds)
    /\ WF_vars(PageStep)
    /\ WF_vars(FenceFailStops)

FairSpec == Spec /\ Fairness

-----------------------------------------------------------------------------
(* Properties. *)

Quiet == /\ rt.worker # "running" /\ rt.recovery # "running"
         /\ rt.polling \in {"off", "dead"} /\ rt.heartbeat = "off"

\* While the process lives, its context is closed and its maintenance fence
\* let go only after everything that uses them has stopped, whichever stage of
\* the start or the shutdown failed or ran out of time
\* (_shutdown_application_components).
ReleasedWhenQuiet ==
    alive /\ (context = "closed" \/ (pc = "exit" /\ fence = "off" /\ context # "off"))
        => Quiet /\ ~lark.callback /\ ~lark.intake /\ ~digest

\* A session row that says draining tells an operator that the process has no
\* part left that could touch the Inbox, and it is true (_rollback_start,
\* _finish_stop).
DrainedMeansQuiet == alive /\ row.lifecycle = "draining" => Quiet

\* The heartbeat and the polling pages renew one lease and neither invalidates
\* the version the other will name: a session that accepts pages holds the
\* row's version (_SessionBoundPollingCommitter, heartbeat_once).
SessionKeepsVersion == alive /\ rt.accepting => lease.current

\* A Feishu callback runs only on a started runtime, before its context is
\* closed (enable_lark_intake comes last).
CallbacksAfterStart == lark.callback => rt.started /\ context = "open"

\* What holds of the process in every state, whichever stage failed or timed
\* out: draining is only reported by a quiet process, heartbeat and pages agree
\* on the lease, and callbacks run on a started runtime only.
RuntimeInv == TypeOK /\ DrainedMeansQuiet /\ SessionKeepsVersion /\ CallbacksAfterStart

\* The inductive invariant of the proofs: what each stage of a living process
\* has started or stopped.

\* From here the context is up and nothing of the runtime runs yet; from here it
\* has stopped its polling, its heartbeat and recovery, and its consumers.
ContextUp == {"lark", "ws", "pool", "authority", "register", "processing"}
NotYet == {"fence", "context", "lark", "ws", "pool", "authority", "register"}
PollingStopped == {"rb_heartbeat", "rb_worker", "rb_drain", "rb_pool", "sd_idle",
                   "sd_heartbeat", "sd_worker", "sd_final", "sd_drain", "sd_pool"}
HeartbeatStopped == {"rb_worker", "rb_drain", "rb_pool", "sd_worker", "sd_final",
                     "sd_drain", "sd_pool"}
WorkerStopped == {"rb_drain", "rb_pool", "sd_final", "sd_drain", "sd_pool"}

\* The runtime has had its turn; and the intake has been closed as well.
RuntimeGone == {"sd_intake", "sd_ws", "sd_context", "sd_fence", "exit"}
IntakeGone == RuntimeGone \ {"sd_intake"}

\* What starts, in order.
StartsInOrder ==
    /\ pc \in NotYet => Quiet /\ ~rt.accepting
    /\ pc \in NotYet \union {"processing"} => ~rt.stopped /\ row.lifecycle # "draining"
    /\ pc \in {"authority", "register", "processing"} => rt.pool
    /\ pc = "processing" => lease.current /\ rt.polling \in {"off", "dead"}
    /\ pc \in ContextUp => context = "open"
    /\ pc = "context" => fence # "off"
    /\ pc \in StartSteps => ~digest

\* What stops, in order.  rt.clean says that nothing was left behind.
StopsInOrder ==
    /\ pc \in PollingStopped => rt.polling = "off"
    /\ pc \in HeartbeatStopped => rt.heartbeat = "off" /\ rt.recovery = "off"
    /\ pc \in WorkerStopped => rt.worker # "running"
    /\ pc \in RollbackSteps \union StopSteps \union RuntimeGone => ~rt.accepting
    /\ pc \in {"sd_stop"} \union RollbackSteps \union StopSteps \union RuntimeGone =>
          (rt.clean => ~digest)
    /\ pc \in RuntimeGone /\ rt.clean => Quiet
    /\ pc \in IntakeGone /\ rt.clean => ~lark.callback
    /\ row.lifecycle = "draining" \/ ~rt.pool \/ rt.stopped => Quiet
    /\ lark.intake => /\ pc \in {"digest", "serving", "sd_begin"}
                      /\ rt.started /\ context = "open"
    /\ context = "open" => fence # "off"
    /\ context = "closed" => pc \in {"sd_fence", "exit"} /\ rt.clean

RuntimeInductive == RuntimeInv /\ (alive => StartsInOrder /\ StopsInOrder)

\* A start ends in service or in the end of the process, and so does every
\* shutdown, also when a stage fails.
NeverStuck == pc # "serving" ~> (pc = "serving" \/ ~alive)

\* A process that lost its session (paused or lapsed), its polling task or its
\* fence does not stay in service.
ControlLossEnds ==
    (pc = "serving" /\ (~open \/ ~row.live \/ ~polling_live \/ fence = "lost"))
        ~> pc # "serving"

\* The process never hangs between its states: starts and shutdowns end, and
\* what may no longer serve stops serving (lifespan, _heartbeat_loop).
ProcessMovesOn == NeverStuck /\ ControlLossEnds
=============================================================================
