------------------------------- MODULE Handoff -------------------------------
(***************************************************************************)
(* The hand-off of one e-mail: its payload is frozen and shown on a card,  *)
(* edited, and then approved, rejected or saved as an Exchange draft; an   *)
(* approved payload is claimed and sent.  Hand-off runs share no state, so *)
(* one is enough.                                                          *)
(*                                                                         *)
(* The durable truth is handoff_runs, execution_payload_revisions and      *)
(* approved_execution_envelopes; emails_log, the graph checkpoint and the  *)
(* stored draft are written next to it and may lag.  Card callbacks and    *)
(* resumed graphs are tasks of a process; every database call, checkpoint  *)
(* write and Exchange call of a task is a step of its own, which may fail, *)
(* or take effect without the answer coming back.                          *)
(***************************************************************************)
EXTENDS Naturals, Sequences, FiniteSets

CONSTANTS
    Procs,       \* processes; an old one may linger beside its successor
    Tasks,       \* callback slots
    ProcOf,      \* [Tasks -> Procs]
    Users, Drafts, Addrs,
    Frozen,      \* the payload of the first revision
    MaxRevision  \* bound: revisions of the payload

Payloads == [draft : Drafts, to : Addrs]

ASSUME HandoffAssumption ==
    /\ ProcOf \in [Tasks -> Procs]
    /\ Frozen \in Payloads
    /\ MaxRevision \in Nat \ {0}

VARIABLES
    run,       \* the handoff_runs row
    log,       \* emails_log.status
    payload,   \* execution_payload_revisions, in order
    envelopes, \* approved_execution_envelopes
    graph,     \* checkpoint: projected revision, recipients, approval, and
               \* whether the sender node has completed
    draft,     \* emails_log.draft_content, the projected draft
    cards,     \* revisions whose card still offers its buttons
    delivery,  \* the processing attempt that prepares and shows the payload
    task,      \* callbacks and resumed graphs
    proc,      \* processes
    found,     \* the state of the run a process's recovery found inconsistent
    sends,     \* history: payloads handed to Exchange to send
    drafts     \* history: payloads saved as Exchange drafts

vars == <<run, log, payload, envelopes, graph, draft, cards, delivery, task,
          proc, found, sends, drafts>>
records == <<run, log, payload, envelopes>>
projections == <<graph, draft, cards>>
processes == <<proc, found>>
effects == <<sends, drafts>>

-----------------------------------------------------------------------------
RunStates == {"absent", "planned", "evidence_ready", "approval_pending",
              "approved", "rejected", "draft_saving", "draft_saved",
              "executing", "completed", "failed", "manual_review"}

\* "processing" stands for every status before the card is shown.
LogStatuses == {"processing", "waiting_approval", "approved", "rejected",
                "saving_draft", "draft_saved", "sending", "sent",
                "send_unknown", "manual_review", "delivery_failed"}

NoChange == [field |-> "none"]
Changes == {NoChange} \union [field : {"draft"}, draft : Drafts]
                      \union [field : {"to"}, to : Addrs]

\* Tasks that hold the per-e-mail action lock of their process.
Locked == {"approve_commit", "approve_project", "reject_commit",
           "reject_project", "save_commit", "edit_version", "edit_commit",
           "project_draft", "project_graph"}

\* The send_final_email node.
Sending == {"sender", "envelope", "claim", "send", "record", "unsent",
            "unknown", "quarantine_run", "quarantine_log"}

TaskStates == Locked \union Sending \union
    {"idle", "approve", "reject", "save", "edit", "hydrate",
     "reconcile_draft", "reconcile_graph", "render", "resume",
     "save_call", "save_record", "save_fail"}

DeliveryStates == {"none", "plan", "evidence", "graph", "freeze", "bind",
                   "card", "commit", "unknown", "refused", "review",
                   "done", "dead"}

Idle == [pc |-> "idle", rev |-> 0, version |-> 0, user |-> "none",
         change |-> NoChange, base |-> Frozen, seen |-> 0]

Runs == [state : RunStates, version : Nat, rev : Nat, claimed : BOOLEAN]
Envelopes == [rev : Nat, payload : Payloads, user : Users]
Checkpoints == [rev : Nat, to : Addrs, ran : BOOLEAN,
                approval : {"pending", "approved", "rejected"}]

\* What a callback or a resumed graph remembers.
Callbacks ==
    [pc : TaskStates, rev : Nat, version : Nat, user : Users \union {"none"},
     change : Changes, base : Payloads, seen : Nat]

\* The type of every variable.
TypeOK ==
    /\ run \in Runs
    /\ log \in LogStatuses
    /\ payload \in Seq(Payloads) /\ run.rev = Len(payload)
    /\ envelopes \subseteq Envelopes
    /\ graph \in Checkpoints
    /\ draft \in Drafts
    /\ cards \in SUBSET Nat
    /\ delivery \in [pc : DeliveryStates, proc : Procs]
    /\ task \in [Tasks -> Callbacks]
    /\ proc \in [Procs -> {"down", "recover_log", "recover_runs", "recover_fix",
                          "up"}]
    /\ found \in [Procs -> RunStates]
    /\ sends \in Seq(Payloads)
    /\ drafts \in Seq(Payloads)

Init ==
    /\ run = [state |-> "absent", version |-> 0, rev |-> 0, claimed |-> FALSE]
    /\ log = "processing"
    /\ payload = <<>>
    /\ envelopes = {}
    /\ graph = [rev |-> 0, to |-> Frozen.to, ran |-> FALSE,
                approval |-> "pending"]
    /\ draft = Frozen.draft
    /\ cards = {}
    /\ delivery \in [pc : {"none"}, proc : Procs]
    /\ task = [t \in Tasks |-> Idle]
    /\ proc = [p \in Procs |-> "down"]
    /\ found = [p \in Procs |-> "absent"]
    /\ sends = <<>>
    /\ drafts = <<>>

-----------------------------------------------------------------------------
\* Shared updates.

\* A compare-and-set on the run's version.
Advance(state) == run' = [run EXCEPT !.state = state, !.version = @ + 1]

Becomes(t, callback) == task' = [task EXCEPT ![t] = callback]
Goes(t, pc) == Becomes(t, [task[t] EXCEPT !.pc = pc])
Ends(t) == Becomes(t, Idle)

\* The sender node returns and its checkpoint is written.
Returns(t) ==
    /\ Ends(t)
    /\ graph' = [graph EXCEPT !.ran = TRUE]

HasEnvelope == \E e \in envelopes : e.rev = run.rev

\* The run may be decided on for revision r, read at version v.
Pending(r, v) ==
    /\ run.state = "approval_pending"
    /\ run.rev = r /\ run.version = v
    /\ log = "waiting_approval"

LockFree(t) ==
    \A u \in Tasks : ProcOf[u] = ProcOf[t] => task[u].pc \notin Locked

\* get_approval_action_lock, then get_handoff_run.
LockAndRead(t, pc) ==
    /\ LockFree(t)
    /\ Becomes(t, [task[t] EXCEPT !.pc = pc, !.version = run.version])
    /\ UNCHANGED <<records, projections, delivery, processes, effects>>

-----------------------------------------------------------------------------
\* Preparing the payload and showing the card.

Delivers(pc) == delivery' = [delivery EXCEPT !.pc = pc]

StartDelivery(p) ==
    /\ delivery.pc = "none" /\ proc[p] = "up"
    /\ delivery' = [pc |-> "plan", proc |-> p]
    /\ UNCHANGED <<records, projections, task, processes, effects>>

\* persist_handoff_plan: a replay finds the same plan.
PersistPlan ==
    /\ delivery.pc = "plan"
    /\ Delivers("evidence")
    /\ IF run.state = "absent"
       THEN run' = [run EXCEPT !.state = "planned"]
       ELSE UNCHANGED run
    /\ UNCHANGED <<log, payload, envelopes, projections, task, processes, effects>>

\* persist_handoff_evidence; any failure quarantines the run.
PersistEvidence ==
    /\ delivery.pc = "evidence"
    /\ \/ /\ run.state = "planned"
          /\ Advance("evidence_ready")
          /\ Delivers("graph")
       \/ /\ run.state = "evidence_ready"
          /\ UNCHANGED run
          /\ Delivers("graph")
       \/ /\ IF run.state \in {"planned", "evidence_ready"}
             THEN Advance("manual_review") ELSE UNCHANGED run
          /\ Delivers("review")
    /\ UNCHANGED <<log, payload, envelopes, projections, task, processes, effects>>

\* The graph drafts; a draft that fails the quality gate quarantines the run.
DraftInGraph ==
    /\ delivery.pc = "graph"
    /\ \/ Delivers("freeze") /\ UNCHANGED run
       \/ Delivers("review") /\ Advance("manual_review")
    /\ UNCHANGED <<log, payload, envelopes, projections, task, processes, effects>>

\* _freeze_approval_payload.
FreezePayload ==
    /\ delivery.pc = "freeze"
    /\ run.state = "evidence_ready" /\ run.rev = 0
    /\ payload' = Append(payload, Frozen)
    /\ run' = [run EXCEPT !.state = "approval_pending", !.rev = 1,
                          !.version = @ + 1]
    /\ Delivers("bind")
    /\ UNCHANGED <<log, envelopes, projections, task, processes, effects>>

BindCheckpoint ==
    /\ delivery.pc = "bind"
    /\ graph' = [graph EXCEPT !.rev = 1]
    /\ Delivers("card")
    /\ UNCHANGED <<records, draft, cards, task, processes, effects>>

\* Resources and the card: accepted, refused, or nobody knows.
SendCard ==
    /\ delivery.pc = "card"
    /\ \/ Delivers("commit") /\ cards' = {1}
       \/ Delivers("refused") /\ UNCHANGED cards
       \/ Delivers("unknown") /\ cards' \in {{}, {1}}
    /\ UNCHANGED <<records, graph, draft, task, processes, effects>>

\* update_status skips CAS_ONLY_EMAIL_STATUSES.
UpdateStatus(status) ==
    /\ log \notin {"approved", "sending", "send_unknown", "sent"}
    /\ log' = status

\* compare_and_set_manual_review from a status before the hand-off.
ReviewStatus ==
    IF log \in {"processing", "delivery_failed"}
    THEN log' = "manual_review" ELSE UNCHANGED log

RecordDelivery ==
    /\ delivery.pc \in {"commit", "unknown", "refused", "review"}
    /\ CASE delivery.pc = "commit" -> UpdateStatus("waiting_approval")
         [] delivery.pc = "refused" -> UpdateStatus("delivery_failed")
         [] delivery.pc \in {"unknown", "review"} -> ReviewStatus
    /\ Delivers("done")
    /\ UNCHANGED <<run, payload, envelopes, projections, task, processes, effects>>

\* The attempt fails.  Before its first marked effect the inbox retries it.
DeliveryFails ==
    /\ delivery.pc \notin {"none", "done", "dead"}
    /\ \/ Delivers("dead")
       \/ delivery.pc \in {"plan", "evidence"} /\ Delivers("none")
    /\ UNCHANGED <<records, projections, task, processes, effects>>

-----------------------------------------------------------------------------
\* Approval.

\* A callback of a card that shows revision r arrives at task t.
Callback(t, r, pc, user) ==
    /\ task[t].pc = "idle" /\ proc[ProcOf[t]] = "up"
    /\ r \in cards
    /\ Becomes(t, [Idle EXCEPT !.pc = pc, !.rev = r, !.user = user])
    /\ UNCHANGED <<records, projections, delivery, processes, effects>>

ClickApprove(t, r, u) == Callback(t, r, "approve", u)

ApproveRead(t) == task[t].pc = "approve" /\ LockAndRead(t, "approve_commit")

\* The envelope of the current revision is already there and in use.
Replayed ==
    /\ HasEnvelope
    /\ run.state \in {"approved", "executing", "completed"}
    /\ log \in {"approved", "sending", "sent"}

\* Mutant of CommitApproval: the revision shown is not compared.
CommitApprovalAnyRevision(t) ==
    /\ ~Replayed
    /\ Pending(run.rev, task[t].version)
    /\ envelopes' = envelopes \union
          {[rev |-> run.rev, payload |-> payload[run.rev],
            user |-> task[t].user]}
    /\ Advance("approved")
    /\ log' = "approved"
    /\ UNCHANGED payload

\* approve_payload_revision commits a fresh envelope.
CommitApproval(t) ==
    /\ ~Replayed
    /\ Pending(task[t].rev, task[t].version)
    /\ envelopes' = envelopes \union
          {[rev |-> run.rev, payload |-> payload[run.rev],
            user |-> task[t].user]}
    /\ Advance("approved")
    /\ log' = "approved"
    /\ UNCHANGED payload

\* ... or recognises the same approver's callback of the same revision.
ExactReplay(t) ==
    /\ Replayed
    /\ \E e \in envelopes : /\ e.rev = run.rev /\ e.rev = task[t].rev
                            /\ e.user = task[t].user

\* Stale, conflicting and failed approvals all end without resuming; so does
\* one whose answer is lost, although it is committed.
ApproveCommit(t) ==
    /\ task[t].pc = "approve_commit"
    /\ \/ CommitApproval(t) /\ (Goes(t, "approve_project") \/ Ends(t))
       \/ ExactReplay(t) /\ Goes(t, "approve_project") /\ UNCHANGED records
       \/ Ends(t) /\ UNCHANGED records
    /\ UNCHANGED <<projections, delivery, processes, effects>>

\* The processed card replaces the one with the buttons, if it arrives.
CardReplaced == cards' \in {cards, {}}

\* Checkpoint approval_status; on success the graph is resumed.
ProjectApproval(t) ==
    /\ task[t].pc = "approve_project"
    /\ \/ /\ graph' = [graph EXCEPT !.approval = "approved"]
          /\ CardReplaced
          /\ Goes(t, "resume")
       \/ Ends(t) /\ UNCHANGED <<graph, cards>>
    /\ UNCHANGED <<records, draft, delivery, processes, effects>>

-----------------------------------------------------------------------------
\* Rejection.

\* is_current_payload_revision, asked before every action but approval.
Current(r) == run.state = "approval_pending" /\ run.rev = r

ClickReject(t, r) == Current(r) /\ Callback(t, r, "reject", "none")

RejectRead(t) == task[t].pc = "reject" /\ LockAndRead(t, "reject_commit")

RejectCommit(t) ==
    /\ task[t].pc = "reject_commit"
    /\ \/ /\ Pending(task[t].rev, task[t].version)
          /\ Advance("rejected")
          /\ log' = "rejected"
          /\ (Goes(t, "reject_project") \/ Ends(t))
       \/ Ends(t) /\ UNCHANGED <<run, log>>
    /\ UNCHANGED <<payload, envelopes, projections, delivery, processes, effects>>

\* The projection may fail: the durable rejection stands either way.
ProjectRejection(t) ==
    /\ task[t].pc = "reject_project"
    /\ \/ graph' = [graph EXCEPT !.approval = "rejected"]
       \/ UNCHANGED graph
    /\ CardReplaced
    /\ Goes(t, "resume")
    /\ UNCHANGED <<records, draft, delivery, processes, effects>>

-----------------------------------------------------------------------------
\* Saving an Exchange draft.

ClickSave(t, r) == Current(r) /\ Callback(t, r, "save", "none")

SaveRead(t) == task[t].pc = "save" /\ LockAndRead(t, "save_commit")

\* claim_payload_draft_save; scheduling the save may fail after the claim.
SaveCommit(t) ==
    /\ task[t].pc = "save_commit"
    /\ \/ /\ Pending(task[t].rev, task[t].version)
          /\ Advance("draft_saving")
          /\ log' = "saving_draft"
          /\ \/ \E pc \in {"save_call", "save_fail"} :
                   Becomes(t, [task[t] EXCEPT !.pc = pc,
                                              !.version = run.version + 1,
                                              !.base = payload[run.rev]])
             \/ Ends(t)
       \/ Ends(t) /\ UNCHANGED <<run, log>>
    /\ UNCHANGED <<payload, envelopes, projections, delivery, processes, effects>>

\* create_draft, or a resolution failure before it.
SaveCall(t) ==
    /\ task[t].pc = "save_call"
    /\ \/ /\ drafts' = Append(drafts, task[t].base)
          /\ (Goes(t, "save_record") \/ Goes(t, "save_fail"))
       \/ Goes(t, "save_fail") /\ UNCHANGED drafts
    /\ UNCHANGED <<records, projections, delivery, processes, sends>>

\* Mutant of EndSave: a save that failed is offered again.
EndSaveReopens(t, state) ==
    /\ run.state = "draft_saving" /\ run.version = task[t].version
    /\ log = "saving_draft"
    /\ Advance(IF state = "manual_review" THEN "approval_pending" ELSE state)
    /\ log' = IF state = "manual_review" THEN "waiting_approval" ELSE state

\* Both draft-save endings are one transaction over run and log.
EndSave(t, state) ==
    /\ run.state = "draft_saving" /\ run.version = task[t].version
    /\ log = "saving_draft"
    /\ Advance(state)
    /\ log' = state

\* complete_payload_draft_save, with a readback if the answer is lost.
SaveRecord(t) ==
    /\ task[t].pc = "save_record"
    /\ \/ EndSave(t, "draft_saved") /\ (Ends(t) \/ Goes(t, "save_fail"))
       \/ /\ (Goes(t, "save_fail") \/ (log = "draft_saved" /\ Ends(t)))
          /\ UNCHANGED <<run, log>>
    /\ UNCHANGED <<payload, envelopes, projections, delivery, processes, effects>>

\* fail_payload_draft_save, best effort.
SaveFail(t) ==
    /\ task[t].pc = "save_fail"
    /\ Ends(t)
    /\ \/ EndSave(t, "manual_review")
       \/ UNCHANGED <<run, log>>
    /\ UNCHANGED <<payload, envelopes, projections, delivery, processes, effects>>

-----------------------------------------------------------------------------
\* Viewing and editing.  The card is rendered from the durable revision; an
\* edit is assembled from the projections.

\* The handler reads the checkpoint and checks the binding.
ClickEdit(t, r, c) ==
    /\ task[t].pc = "idle" /\ proc[ProcOf[t]] = "up"
    /\ r \in cards /\ Current(r)
    /\ log = "waiting_approval"
    /\ Becomes(t, [Idle EXCEPT !.pc = "hydrate", !.rev = r, !.change = c,
                               !.seen = graph.rev])
    /\ UNCHANGED <<records, projections, delivery, processes, effects>>

\* A view renders the card, an edit goes on.
AfterHydrate(t) == IF task[t].change = NoChange THEN "render" ELSE "edit"

\* _hydrate_current_durable_payload_projection reads the current revision
\* and repairs a projection that lags behind it, outside the lock.
Hydrate(t) ==
    /\ task[t].pc = "hydrate"
    /\ \/ /\ run.state = "approval_pending"
          /\ Becomes(t, [task[t] EXCEPT
                !.pc = IF task[t].seen = run.rev THEN AfterHydrate(t)
                                                 ELSE "reconcile_draft",
                !.seen = run.rev,
                !.base = payload[run.rev]])
       \/ Ends(t)
    /\ UNCHANGED <<records, projections, delivery, processes, effects>>

\* save_draft_if_status: only while the e-mail waits for approval.
SaveDraft(d) ==
    IF log = "waiting_approval" THEN draft' = d ELSE UNCHANGED draft

ReconcileDraft(t) ==
    /\ task[t].pc = "reconcile_draft"
    /\ \/ SaveDraft(task[t].base.draft) /\ Goes(t, "reconcile_graph")
       \/ UNCHANGED draft /\ Goes(t, AfterHydrate(t))
    /\ UNCHANGED <<records, graph, cards, delivery, processes, effects>>

ReconcileGraph(t) ==
    /\ task[t].pc = "reconcile_graph"
    /\ \/ graph' = [graph EXCEPT !.rev = task[t].seen,
                                 !.to = task[t].base.to]
       \/ UNCHANGED graph
    /\ Goes(t, AfterHydrate(t))
    /\ UNCHANGED <<records, draft, cards, delivery, processes, effects>>

\* The card of the revision that was read.
Render(t) ==
    /\ task[t].pc = "render"
    /\ cards' = cards \union {task[t].seen}
    /\ Ends(t)
    /\ UNCHANGED <<records, graph, draft, delivery, processes, effects>>

\* Under the lock: the status, the checkpoint and the stored draft.
EditRead(t) ==
    /\ task[t].pc = "edit"
    /\ LockFree(t)
    /\ \/ /\ log = "waiting_approval"
          /\ Becomes(t, [task[t] EXCEPT
                !.pc = "edit_version",
                !.base = [draft |-> draft, to |-> graph.to]])
       \/ Ends(t)
    /\ UNCHANGED <<records, projections, delivery, processes, effects>>

EditVersion(t) ==
    /\ task[t].pc = "edit_version"
    /\ Becomes(t, [task[t] EXCEPT !.pc = "edit_commit",
                                  !.version = run.version])
    /\ UNCHANGED <<records, projections, delivery, processes, effects>>

Edited(base, c) ==
    CASE c.field = "draft" -> [base EXCEPT !.draft = c.draft]
      [] c.field = "to" -> [base EXCEPT !.to = c.to]
      [] OTHER -> base

\* Mutant of CommitRevision: an edit is also taken after the approval.
CommitRevisionApproved(t, new) ==
    /\ run.state \in {"approval_pending", "approved"}
    /\ run.version = task[t].version
    /\ run.rev = task[t].rev
    /\ run.rev < MaxRevision
    /\ payload' = Append(payload, new)
    /\ run' = [run EXCEPT !.rev = @ + 1, !.version = @ + 1]

\* create_payload_revision appends the successor of the revision shown.
CommitRevision(t, new) ==
    /\ run.state = "approval_pending"
    /\ run.version = task[t].version
    /\ run.rev = task[t].rev
    /\ run.rev < MaxRevision
    /\ payload' = Append(payload, new)
    /\ run' = [run EXCEPT !.rev = @ + 1, !.version = @ + 1]

\* ... or recognises a replay of exactly the edit that made the successor.
ReplayedRevision(t, new) ==
    /\ run.state = "approval_pending"
    /\ run.version = task[t].version
    /\ run.rev = task[t].rev + 1
    /\ payload[run.rev] = new

EditCommit(t) ==
    LET new == Edited(task[t].base, task[t].change)
        follow == IF task[t].change.field = "draft" THEN "project_draft"
                                                    ELSE "project_graph"
    IN
    /\ task[t].pc = "edit_commit"
    /\ \/ /\ \/ CommitRevision(t, new)
             \/ ReplayedRevision(t, new) /\ UNCHANGED <<run, payload>>
          /\ \/ Becomes(t, [task[t] EXCEPT !.pc = follow,
                                           !.rev = run'.rev, !.base = new])
             \/ Ends(t)
       \/ Ends(t) /\ UNCHANGED <<run, payload>>
    /\ UNCHANGED <<log, envelopes, projections, delivery, processes, effects>>

\* After an edit the checkpoint is read again and a new card is rendered.
Refreshed(t, g) ==
    Becomes(t, [Idle EXCEPT !.pc = "hydrate", !.seen = g.rev])

\* The stored draft.  Its failure ends the callback; a refusal only lags.
ProjectDraft(t) ==
    /\ task[t].pc = "project_draft"
    /\ \/ /\ log = "waiting_approval"
          /\ draft' = task[t].base.draft
          /\ Goes(t, "project_graph")
       \/ /\ log # "waiting_approval"
          /\ Refreshed(t, graph) /\ UNCHANGED draft
       \/ Ends(t) /\ UNCHANGED draft
    /\ UNCHANGED <<records, graph, cards, delivery, processes, effects>>

ProjectGraph(t) ==
    /\ task[t].pc = "project_graph"
    /\ \/ graph' = [graph EXCEPT
             !.rev = task[t].rev,
             !.to = IF task[t].change.field = "to"
                    THEN task[t].change.to ELSE @]
       \/ UNCHANGED graph
    /\ Refreshed(t, graph')
    /\ UNCHANGED <<records, draft, cards, delivery, processes, effects>>

-----------------------------------------------------------------------------
\* The resumed graph and the sender node.

\* get_graph_resource_lock, then graph.ainvoke: once the sender node has
\* completed there is nothing left to resume.
Resume(t) ==
    /\ task[t].pc = "resume"
    /\ \A u \in Tasks : ProcOf[u] = ProcOf[t] => task[u].pc \notin Sending
    /\ IF graph.approval = "approved" /\ ~graph.ran
       THEN Goes(t, "sender") ELSE Ends(t)
    /\ UNCHANGED <<records, projections, delivery, processes, effects>>

\* States in which another invocation owns or has ended the run.
OwnedElsewhere ==
    run.state \in {"executing", "completed", "failed", "manual_review",
                   "rejected", "draft_saved"}

SenderRead(t) ==
    /\ task[t].pc = "sender"
    /\ \/ OwnedElsewhere /\ Returns(t)
       \/ /\ ~OwnedElsewhere
          /\ Becomes(t, [task[t] EXCEPT
                !.pc = IF run.state = "approved" THEN "envelope"
                                                 ELSE "quarantine_run",
                !.rev = run.rev,
                !.version = run.version])
          /\ UNCHANGED graph
       \/ Goes(t, "quarantine_log") /\ UNCHANGED graph
    /\ UNCHANGED <<records, draft, cards, delivery, processes, effects>>

\* get_approved_execution_envelope and ExecutionGate.validate.
SenderEnvelope(t) ==
    /\ task[t].pc = "envelope"
    /\ \/ \E e \in envelopes :
             /\ e.rev = task[t].rev
             /\ Becomes(t, [task[t] EXCEPT !.pc = "claim", !.base = e.payload])
       \/ Goes(t, "quarantine_run")
    /\ UNCHANGED <<records, projections, delivery, processes, effects>>

\* Mutant of ClaimExecution: neither the run nor its version is compared.
ClaimExecutionByLog(t) ==
    /\ log \in {"approved", "sending"}
    /\ log' = "sending"
    /\ run' = [run EXCEPT !.state = "executing", !.claimed = TRUE,
                          !.version = @ + 1]

\* claim_execution: emails_log and the run in one transaction.
ClaimExecution(t) ==
    /\ log = "approved"
    /\ run.state = "approved" /\ ~run.claimed
    /\ run.rev = task[t].rev /\ run.version = task[t].version
    /\ HasEnvelope
    /\ log' = "sending"
    /\ run' = [run EXCEPT !.state = "executing", !.claimed = TRUE,
                          !.version = @ + 1]

\* A refusal, a failure and a lost answer all end without a send.
SenderClaim(t) ==
    /\ task[t].pc = "claim"
    /\ \/ /\ ClaimExecution(t)
          /\ \/ Goes(t, "send") /\ UNCHANGED graph
             \/ Returns(t)
       \/ Returns(t) /\ UNCHANGED <<run, log>>
    /\ UNCHANGED <<payload, envelopes, draft, cards, delivery, processes, effects>>

\* The Exchange call: confirmed, or unknown whether or not it happened.
SenderSend(t) ==
    /\ task[t].pc = "send"
    /\ \/ /\ sends' = Append(sends, task[t].base)
          /\ (Goes(t, "record") \/ Goes(t, "unsent"))
       \/ Goes(t, "unsent") /\ UNCHANGED sends
    /\ UNCHANGED <<records, projections, delivery, processes, drafts>>

Executing(t) ==
    run.state = "executing" /\ run.version = task[t].version + 1

\* complete_execution(sent=True), with a readback if the answer is lost.
SenderRecord(t) ==
    /\ task[t].pc = "record"
    /\ \/ /\ Executing(t) /\ log = "sending"
          /\ Advance("completed") /\ log' = "sent"
          /\ \/ Returns(t)
             \/ Goes(t, "unsent") /\ UNCHANGED graph
       \/ /\ \/ Goes(t, "unsent") /\ UNCHANGED graph
             \/ log = "sent" /\ Returns(t)
          /\ UNCHANGED <<run, log>>
    /\ UNCHANGED <<payload, envelopes, draft, cards, delivery, processes, effects>>

\* fail_after_send: complete_execution(sent=False), best effort,
FailRun(t) ==
    /\ task[t].pc = "unsent"
    /\ \/ Executing(t) /\ Advance("failed")
       \/ UNCHANGED run
    /\ Goes(t, "unknown")
    /\ UNCHANGED <<log, payload, envelopes, projections, delivery, processes, effects>>

\* then mark_send_unknown, best effort; a cancelled node does not return.
MarkUnknown(t) ==
    /\ task[t].pc = "unknown"
    /\ \/ log = "sending" /\ log' = "send_unknown"
       \/ UNCHANGED log
    /\ Returns(t) \/ (Ends(t) /\ UNCHANGED graph)
    /\ UNCHANGED <<run, payload, envelopes, draft, cards, delivery, processes, effects>>

\* fail_before_send: the run by its version, best effort,
QuarantineRun(t) ==
    /\ task[t].pc = "quarantine_run"
    /\ \/ /\ run.version = task[t].version
          /\ run.state \in {"planned", "evidence_ready", "approval_pending",
                            "approved", "draft_saving"}
          /\ Advance("manual_review")
       \/ UNCHANGED run
    /\ Goes(t, "quarantine_log")
    /\ UNCHANGED <<log, payload, envelopes, projections, delivery, processes, effects>>

\* then emails_log, whose failure fails the node.
QuarantineLog(t) ==
    /\ task[t].pc = "quarantine_log"
    /\ \/ /\ IF log = "approved" THEN log' = "manual_review"
                                 ELSE UNCHANGED log
          /\ Returns(t)
       \/ Ends(t) /\ UNCHANGED <<log, graph>>
    /\ UNCHANGED <<run, payload, envelopes, draft, cards, delivery, processes, effects>>

-----------------------------------------------------------------------------
\* Processes.

\* A wait times out or the process shuts down: a cancelled send or draft
\* save is quarantined first, anything else just ends.
Cancel(t) ==
    /\ task[t].pc # "idle"
    /\ CASE task[t].pc \in {"save_call", "save_record"} ->
              Goes(t, "save_fail")
         [] task[t].pc = "send" -> Goes(t, "unsent")
         [] OTHER -> Ends(t)
    /\ UNCHANGED <<records, projections, delivery, processes, effects>>

Crash(p) ==
    /\ proc[p] # "down"
    /\ proc' = [proc EXCEPT ![p] = "down"]
    /\ found' = [found EXCEPT ![p] = "absent"]
    /\ task' = [t \in Tasks |-> IF ProcOf[t] = p THEN Idle ELSE task[t]]
    /\ IF /\ delivery.proc = p
          /\ delivery.pc \notin {"none", "done", "dead"}
       THEN \/ Delivers("dead")
            \/ delivery.pc \in {"plan", "evidence"} /\ Delivers("none")
       ELSE UNCHANGED delivery
    /\ UNCHANGED <<records, projections, effects>>

Start(p) ==
    /\ proc[p] = "down"
    /\ proc' = [proc EXCEPT ![p] = "recover_log"]
    /\ UNCHANGED <<found, records, projections, delivery, task, effects>>

\* Mutant of RecoverLog: an interrupted send goes to manual review.
RecoverLogReviews(p) ==
    /\ proc[p] = "recover_log"
    /\ proc' = [proc EXCEPT ![p] = "recover_runs"]
    /\ log' = CASE log \in {"sending", "saving_draft"} -> "manual_review"
                [] log = "approved" /\ ~(run.state = "approved" /\ HasEnvelope)
                      -> "manual_review"
                [] OTHER -> log
    /\ UNCHANGED <<run, payload, envelopes, projections, delivery, task, found,
                   effects>>

\* Mutant of RecoverLog: an approved e-mail is kept whatever its run says.
RecoverLogKeepsApproved(p) ==
    /\ proc[p] = "recover_log"
    /\ proc' = [proc EXCEPT ![p] = "recover_runs"]
    /\ log' = CASE log = "sending" -> "send_unknown"
                [] log = "saving_draft" -> "manual_review"
                [] OTHER -> log
    /\ UNCHANGED <<run, payload, envelopes, projections, delivery, task, found,
                   effects>>

\* recover_incomplete_approval_states, one statement over emails_log.
RecoverLog(p) ==
    /\ proc[p] = "recover_log"
    /\ proc' = [proc EXCEPT ![p] = "recover_runs"]
    /\ log' = CASE log = "sending" -> "send_unknown"
                [] log = "saving_draft" -> "manual_review"
                [] log = "approved" /\ ~(run.state = "approved" /\ HasEnvelope)
                      -> "manual_review"
                [] OTHER -> log
    /\ UNCHANGED <<run, payload, envelopes, projections, delivery, task, found,
                   effects>>

Inconsistent ==
    \/ run.state = "approved" /\ (~HasEnvelope \/ log # "approved")
    \/ run.state \in {"executing", "draft_saving"}
    \/ log \in {"sending", "saving_draft"}

\* recover_durable_handoff_states is one statement too, but it joins: the
\* inconsistent runs are those of its snapshot,
RecoverScan(p) ==
    /\ proc[p] = "recover_runs"
    /\ IF run.state # "absent" /\ Inconsistent
       THEN /\ proc' = [proc EXCEPT ![p] = "recover_fix"]
            /\ found' = [found EXCEPT ![p] = run.state]
       ELSE /\ proc' = [proc EXCEPT ![p] = "up"]
            /\ UNCHANGED found
    /\ UNCHANGED <<records, projections, delivery, task, effects>>

\* Mutant of RecoverRuns: an interrupted execution becomes approved again.
RecoverRunsRetries(p) ==
    /\ proc[p] = "recover_fix"
    /\ proc' = [proc EXCEPT ![p] = "up"]
    /\ found' = [found EXCEPT ![p] = "absent"]
    /\ run' = [run EXCEPT !.state = IF found[p] = "executing" THEN "approved"
                                    ELSE "manual_review",
                          !.claimed = FALSE, !.version = @ + 1]
    /\ log' = IF found[p] = "executing" THEN "approved" ELSE "manual_review"
    /\ UNCHANGED <<payload, envelopes, projections, delivery, task, effects>>

\* while the rows it updates are the ones it then locks: the run's new state
\* follows the snapshot, the e-mail's new status its present one.
RecoverRuns(p) ==
    /\ proc[p] = "recover_fix"
    /\ proc' = [proc EXCEPT ![p] = "up"]
    /\ found' = [found EXCEPT ![p] = "absent"]
    /\ Advance(IF found[p] = "executing" THEN "failed" ELSE "manual_review")
    /\ log' = IF found[p] = "executing" \/ log = "sending"
              THEN "send_unknown" ELSE "manual_review"
    /\ UNCHANGED <<payload, envelopes, projections, delivery, task, effects>>

-----------------------------------------------------------------------------
TaskStep(t) ==
    \/ ApproveRead(t) \/ ApproveCommit(t) \/ ProjectApproval(t)
    \/ RejectRead(t) \/ RejectCommit(t) \/ ProjectRejection(t)
    \/ SaveRead(t) \/ SaveCommit(t) \/ SaveCall(t)
    \/ SaveRecord(t) \/ SaveFail(t)
    \/ Hydrate(t) \/ ReconcileDraft(t) \/ ReconcileGraph(t) \/ Render(t)
    \/ EditRead(t) \/ EditVersion(t) \/ EditCommit(t)
    \/ ProjectDraft(t) \/ ProjectGraph(t)
    \/ Resume(t) \/ SenderRead(t) \/ SenderEnvelope(t) \/ SenderClaim(t)
    \/ SenderSend(t) \/ SenderRecord(t) \/ FailRun(t) \/ MarkUnknown(t)
    \/ QuarantineRun(t) \/ QuarantineLog(t)

DeliveryStep ==
    \/ PersistPlan \/ PersistEvidence \/ DraftInGraph
    \/ FreezePayload \/ BindCheckpoint \/ SendCard \/ RecordDelivery

Click(t) ==
    \E r \in cards :
       \/ \E u \in Users : ClickApprove(t, r, u)
       \/ ClickReject(t, r) \/ ClickSave(t, r)
       \/ \E c \in Changes : ClickEdit(t, r, c)

Next ==
    \/ \E t \in Tasks : Click(t) \/ TaskStep(t) \/ Cancel(t)
    \/ DeliveryStep \/ DeliveryFails
    \/ \E p \in Procs :
          \/ StartDelivery(p)
          \/ Start(p) \/ RecoverLog(p) \/ RecoverScan(p) \/ RecoverRuns(p)
          \/ Crash(p)

Spec == Init /\ [][Next]_vars

-----------------------------------------------------------------------------
\* Properties.

\* The e-mail leaves the system once at most, as one message or as one Exchange
\* draft: whoever clicks, resumes, times out, dies or restarts in between
\* (claim_execution, claim_payload_draft_save).
OneExternalOutcome == Len(sends) + Len(drafts) <= 1

\* There is one approved revision, it stays the current one, and nothing else
\* is ever sent; a saved draft is the current revision as well
\* (approve_payload_revision, create_payload_revision, send_final_email).
SentAsApproved ==
    /\ \A e \in envelopes : e.rev = run.rev /\ e.payload = payload[run.rev]
    /\ \A i \in DOMAIN sends : \E e \in envelopes : sends[i] = e.payload
    /\ \A i \in DOMAIN drafts : drafts[i] = payload[run.rev]

\* emails_log, which people and the daily digest read, never claims what did
\* not happen, and never shows a message or a draft that went out as still
\* undecided or rejected.
LogTruthful ==
    /\ log = "sent" => sends # <<>>
    /\ log = "draft_saved" => drafts # <<>>
    /\ sends # <<>> => log \in {"sending", "sent", "send_unknown",
                                "manual_review"}
    /\ drafts # <<>> => log \in {"saving_draft", "draft_saved",
                                 "manual_review"}

\* A send that was started stays visible as one: emails_log never falls back
\* to manual_review (compare_and_set_send_unknown is one-way).
SendRemembered ==
    sends # <<>> => log \in {"sending", "sent", "send_unknown"}

\* Whoever approves, approves the text of the card that was clicked, however
\* the payload was edited since (_process_approval_action).
ApprovedAsShown ==
    [][\A e \in envelopes' \ envelopes :
          \E t \in Tasks : /\ task[t].pc = "approve_commit"
                           /\ task[t].user = e.user
                           /\ task[t].rev \in DOMAIN payload
                           /\ e.payload = payload[task[t].rev]]_vars

\* Recovery of a process without a predecessor still running leaves run and
\* e-mail in step and nothing in the middle of an external call
\* (recover_incomplete_approval_states, recover_durable_handoff_states).
RecoversConsistent ==
    \A p \in Procs : proc[p] # "up" /\ proc'[p] = "up" =>
       /\ run'.state \notin {"executing", "draft_saving"}
       /\ log' \notin {"sending", "saving_draft"}
       /\ \A s \in {"approved", "rejected", "draft_saved"} :
             run'.state = s <=> log' = s
       /\ run'.state = "completed" <=> log' = "sent"

\* An approved run can still be resumed: a callback carries it, or a card
\* offers the button whose click replays the approval (the promise of
\* _resume_graph_then_cleanup when a resume fails).
ApprovalResumable ==
    run.state = "approved" /\ (\A t \in Tasks : task[t].pc = "idle") =>
       cards # {}

-----------------------------------------------------------------------------
\* The inductive invariant of the proofs.

\* States in which nobody has decided yet.
Undecided == {"absent", "planned", "evidence_ready", "approval_pending"}

\* Somebody is saving, or has saved, the payload as an Exchange draft.
DraftStarted ==
    drafts # <<>> \/ \E t \in Tasks : task[t].pc = "save_call"

\* What a task and the run know of their payload.
Holding ==
    /\ run.state = "approval_pending" => run.rev >= 1
    /\ \A t \in Tasks :
          task[t].pc \in {"approve", "approve_commit"} => task[t].user \in Users

\* emails_log stays "processing" until the attempt has recorded its delivery.
DeliveredFirst ==
    /\ delivery.pc # "done" => log = "processing"
    /\ log = "processing" =>
          /\ run.state \in Undecided \union {"manual_review"}
          /\ \A p \in Procs : proc[p] # "recover_fix"

\* The execution is claimed once; whoever holds the claim has not sent yet.
ClaimedOnce ==
    /\ run.claimed => /\ run.state \in {"executing", "completed", "failed",
                                        "manual_review"}
                      /\ log \in {"sending", "sent", "send_unknown",
                                  "manual_review"}
    /\ \/ run.state = "executing"
       \/ log \in {"sending", "sent", "send_unknown"}
       \/ \E p \in Procs : found[p] = "executing"
       \/ sends # <<>>
       => run.claimed
    /\ Len(sends) <= 1
    /\ log = "sent" => sends # <<>>
    /\ \A t \in Tasks :
          /\ task[t].pc = "send" => run.claimed /\ sends = <<>>
          /\ task[t].pc = "record" => sends # <<>>
          /\ \A u \in Tasks :
                task[t].pc = "send" /\ task[u].pc = "send" => t = u

\* The same of the Exchange draft, which excludes a claimed execution.
DraftedOnce ==
    /\ DraftStarted =>
          /\ ~run.claimed
          /\ run.state \in {"draft_saving", "draft_saved", "manual_review"}
          /\ log \in {"saving_draft", "draft_saved", "manual_review"}
    /\ Len(drafts) <= 1
    /\ log = "draft_saved" => drafts # <<>>
    /\ \A t \in Tasks :
          /\ task[t].pc = "save_call" => drafts = <<>>
          /\ task[t].pc = "save_record" => drafts # <<>>
          /\ \A u \in Tasks :
                task[t].pc = "save_call" /\ task[u].pc = "save_call" => t = u

\* What is approved, carried, sent and saved is the current revision.
ApprovedCurrent ==
    /\ envelopes # {} => run.state \notin Undecided
    /\ SentAsApproved
    /\ \A t \in Tasks :
          /\ task[t].pc \in {"claim", "send"} =>
                \E e \in envelopes : task[t].base = e.payload
          /\ task[t].pc = "save_call" => task[t].base = payload[run.rev]

\* All of it: the invariant that every step preserves.
HandoffInductive ==
    /\ TypeOK
    /\ Holding
    /\ DeliveredFirst
    /\ ClaimedOnce
    /\ DraftedOnce
    /\ ApprovedCurrent
=============================================================================
