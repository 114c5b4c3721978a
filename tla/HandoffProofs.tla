---------------------------- MODULE HandoffProofs ----------------------------
(* Proofs about Handoff.  Each lemma shows that one part of the inductive   *)
(* invariant holds after every step.  The last part adds what holds while   *)
(* no second process is running (MCHandoff): what recovery sees and does.   *)
EXTENDS MCHandoff, TLAPS

-----------------------------------------------------------------------------
\* Types.

\* An idle slot is a callback.
LEMMA IdleType == Idle \in Callbacks
  BY HandoffAssumption DEF Idle, Callbacks, TaskStates, Changes, NoChange

\* A slot may become any callback.
LEMMA BecomesType ==
    ASSUME task \in [Tasks -> Callbacks], NEW t \in Tasks,
           NEW c \in Callbacks, Becomes(t, c)
    PROVE task' \in [Tasks -> Callbacks]
  BY DEF Becomes

\* A task moves on,
LEMMA GoesType ==
    ASSUME task \in [Tasks -> Callbacks], NEW t \in Tasks,
           NEW pc \in TaskStates, Goes(t, pc)
    PROVE task' \in [Tasks -> Callbacks]
  BY DEF Becomes, Goes, Callbacks

\* or ends.
LEMMA EndsType ==
    ASSUME task \in [Tasks -> Callbacks], NEW t \in Tasks, Ends(t)
    PROVE task' \in [Tasks -> Callbacks]
  BY IdleType DEF Becomes, Ends

\* The ways in which an action rewrites a callback.
LEMMA VersionType ==
    ASSUME NEW c \in Callbacks, NEW pc \in TaskStates, NEW n \in Nat
    PROVE /\ [c EXCEPT !.pc = pc, !.version = n] \in Callbacks
          /\ [c EXCEPT !.pc = pc, !.seen = n] \in Callbacks
  BY DEF Callbacks

LEMMA RevisionType ==
    ASSUME NEW c \in Callbacks, NEW pc \in TaskStates, NEW r \in Nat,
           NEW n \in Nat
    PROVE [c EXCEPT !.pc = pc, !.rev = r, !.version = n] \in Callbacks
  BY DEF Callbacks

LEMMA PayloadType ==
    ASSUME NEW c \in Callbacks, NEW pc \in TaskStates, NEW b \in Payloads
    PROVE [c EXCEPT !.pc = pc, !.base = b] \in Callbacks
  BY DEF Callbacks

LEMMA RewriteType ==
    ASSUME NEW c \in Callbacks, NEW pc \in TaskStates, NEW n \in Nat,
           NEW b \in Payloads
    PROVE /\ [c EXCEPT !.pc = pc, !.rev = n, !.base = b] \in Callbacks
          /\ [c EXCEPT !.pc = pc, !.version = n, !.base = b] \in Callbacks
          /\ [c EXCEPT !.pc = pc, !.seen = n, !.base = b] \in Callbacks
  BY DEF Callbacks

\* New callbacks.
LEMMA ClickType ==
    ASSUME NEW pc \in TaskStates, NEW r \in Nat,
           NEW u \in Users \union {"none"}
    PROVE [Idle EXCEPT !.pc = pc, !.rev = r, !.user = u] \in Callbacks
  BY IdleType DEF Callbacks

LEMMA EditType ==
    ASSUME NEW pc \in TaskStates, NEW r \in Nat, NEW n \in Nat,
           NEW c \in Changes
    PROVE [Idle EXCEPT !.pc = pc, !.rev = r, !.change = c, !.seen = n]
             \in Callbacks
  BY IdleType DEF Callbacks

\* An edit is a payload.
LEMMA EditedType ==
    ASSUME NEW base \in Payloads, NEW c \in Changes
    PROVE Edited(base, c) \in Payloads
<1>1. CASE c = NoChange
  BY <1>1 DEF Edited, NoChange
<1>2. CASE c \in [field : {"draft"}, draft : Drafts]
  BY <1>2 DEF Edited, Payloads
<1>3. CASE c \in [field : {"to"}, to : Addrs]
  BY <1>3 DEF Edited, Payloads
<1> QED
  BY <1>1, <1>2, <1>3 DEF Changes

\* Tasks remain callbacks.
LEMMA TaskTyped == TypeOK /\ Holding /\ [Next]_vars => task' \in [Tasks -> Callbacks]
<1> SUFFICES ASSUME TypeOK /\ Holding, [Next]_vars PROVE task' \in [Tasks -> Callbacks]
  OBVIOUS
<1> USE DEF records, projections, processes, effects
<1>a. task \in [Tasks -> Callbacks]
  BY DEF TypeOK
<1>b. run.rev \in Nat /\ run.version \in Nat /\ graph.rev \in Nat
      /\ cards \subseteq Nat
  BY DEF TypeOK, Runs, Checkpoints
<1>c. run.state = "approval_pending" => payload[run.rev] \in Payloads
  BY DEF TypeOK, Holding, Runs
<1>d. run \in Runs /\ graph \in Checkpoints
  BY DEF TypeOK
<1>1. CASE UNCHANGED vars
  BY <1>1, <1>a DEF TaskStates, Locked, Sending, vars
<1>2. ASSUME NEW t \in Tasks, TaskStep(t) PROVE task' \in [Tasks -> Callbacks]
  <2>1. CASE ApproveRead(t)
    <3>1. "approve_commit" \in TaskStates
      BY DEF TaskStates, Locked, Sending
    <3>2. Becomes(t, [task[t] EXCEPT !.pc = "approve_commit",
                                     !.version = run.version])
      BY <2>1 DEF ApproveRead, LockAndRead
    <3> QED
      BY <1>a, <1>b, <3>1, <3>2, VersionType, BecomesType
  <2>2. CASE ApproveCommit(t)
    BY <2>2, <1>a, GoesType, EndsType DEF TaskStates, Locked, Sending,
      ApproveCommit, CommitApproval, ExactReplay, Pending
  <2>3. CASE ProjectApproval(t)
    BY <2>3, <1>a, GoesType, EndsType DEF TaskStates, Locked, Sending,
      ProjectApproval, CardReplaced
  <2>4. CASE RejectRead(t)
    <3>1. "reject_commit" \in TaskStates
      BY DEF TaskStates, Locked, Sending
    <3>2. Becomes(t, [task[t] EXCEPT !.pc = "reject_commit",
                                     !.version = run.version])
      BY <2>4 DEF RejectRead, LockAndRead
    <3> QED
      BY <1>a, <1>b, <3>1, <3>2, VersionType, BecomesType
  <2>5. CASE RejectCommit(t)
    BY <2>5, <1>a, GoesType, EndsType DEF TaskStates, Locked, Sending,
      RejectCommit, Pending
  <2>6. CASE ProjectRejection(t)
    BY <2>6, <1>a, GoesType, EndsType DEF TaskStates, Locked, Sending,
      ProjectRejection, CardReplaced
  <2>7. CASE SaveRead(t)
    <3>1. "save_commit" \in TaskStates
      BY DEF TaskStates, Locked, Sending
    <3>2. Becomes(t, [task[t] EXCEPT !.pc = "save_commit",
                                     !.version = run.version])
      BY <2>7 DEF SaveRead, LockAndRead
    <3> QED
      BY <1>a, <1>b, <3>1, <3>2, VersionType, BecomesType
  <2>8. CASE SaveCommit(t)
    <3>1. ASSUME NEW pc \in {"save_call", "save_fail"},
                 run.state = "approval_pending",
                 Becomes(t, [task[t] EXCEPT !.pc = pc,
                                            !.version = run.version + 1,
                                            !.base = payload[run.rev]])
          PROVE task' \in [Tasks -> Callbacks]
      <4>1. pc \in TaskStates /\ run.version + 1 \in Nat
        BY <1>b DEF TaskStates, Locked, Sending
      <4> QED
        BY <1>a, <1>c, <3>1, <4>1, RewriteType, BecomesType
    <3> QED
      BY <1>a, <2>8, <3>1, EndsType DEF SaveCommit, Pending
  <2>9. CASE SaveCall(t)
    BY <2>9, <1>a, GoesType, EndsType DEF TaskStates, Locked, Sending, SaveCall
  <2>10. CASE SaveRecord(t)
    BY <2>10, <1>a, GoesType, EndsType DEF TaskStates, Locked, Sending,
      SaveRecord, EndSave
  <2>11. CASE SaveFail(t)
    BY <2>11, <1>a, GoesType, EndsType DEF TaskStates, Locked, Sending, SaveFail,
      EndSave
  <2>12. CASE Hydrate(t)
    <3>1. ASSUME NEW pc \in {"render", "edit", "reconcile_draft"},
                 run.state = "approval_pending",
                 Becomes(t, [task[t] EXCEPT !.pc = pc, !.seen = run.rev,
                                            !.base = payload[run.rev]])
          PROVE task' \in [Tasks -> Callbacks]
      <4>1. pc \in TaskStates
        BY DEF TaskStates, Locked, Sending
      <4> QED
        BY <1>a, <1>b, <1>c, <3>1, <4>1, RewriteType, BecomesType
    <3> QED
      BY <1>a, <2>12, <3>1, EndsType DEF Hydrate, AfterHydrate
  <2>13. CASE ReconcileDraft(t)
    BY <2>13, <1>a, GoesType, EndsType DEF TaskStates, Locked, Sending,
      ReconcileDraft, SaveDraft, AfterHydrate
  <2>14. CASE ReconcileGraph(t)
    BY <2>14, <1>a, GoesType, EndsType DEF TaskStates, Locked, Sending,
      ReconcileGraph, AfterHydrate
  <2>15. CASE Render(t)
    BY <2>15, <1>a, GoesType, EndsType DEF TaskStates, Locked, Sending, Render
  <2>16. CASE EditRead(t)
    <3>1. "edit_version" \in TaskStates
      BY DEF TaskStates, Locked, Sending
    <3>2. [draft |-> draft, to |-> graph.to] \in Payloads
      BY DEF TypeOK, Payloads, Checkpoints
    <3>3. ASSUME Becomes(t, [task[t] EXCEPT
                    !.pc = "edit_version",
                    !.base = [draft |-> draft, to |-> graph.to]])
          PROVE task' \in [Tasks -> Callbacks]
      BY <1>a, <3>1, <3>2, <3>3, PayloadType, BecomesType
    <3> QED
      BY <1>a, <2>16, <3>3, EndsType DEF EditRead
  <2>17. CASE EditVersion(t)
    <3>1. "edit_commit" \in TaskStates
      BY DEF TaskStates, Locked, Sending
    <3>2. Becomes(t, [task[t] EXCEPT !.pc = "edit_commit",
                                     !.version = run.version])
      BY <2>17 DEF EditVersion
    <3> QED
      BY <1>a, <1>b, <3>1, <3>2, VersionType, BecomesType
  <2>18. CASE EditCommit(t)
    <3> DEFINE new == Edited(task[t].base, task[t].change)
    <3>1. new \in Payloads
      BY <1>a, EditedType DEF Callbacks
    <3>2. run'.rev \in Nat
      <4>1. run' = run \/ run' = [run EXCEPT !.rev = @ + 1, !.version = @ + 1]
        BY <2>18 DEF EditCommit, CommitRevision
      <4>2. run.rev + 1 \in Nat /\ run.version + 1 \in Nat
        BY <1>b
      <4> QED
        BY <1>d, <4>1, <4>2 DEF Runs
    <3>3. ASSUME NEW pc \in {"project_draft", "project_graph"},
                 Becomes(t, [task[t] EXCEPT !.pc = pc, !.rev = run'.rev,
                                            !.base = new])
          PROVE task' \in [Tasks -> Callbacks]
      <4>1. pc \in TaskStates
        BY DEF TaskStates, Locked, Sending
      <4> HIDE DEF new
      <4> QED
        BY <1>a, <3>1, <3>2, <3>3, <4>1, RewriteType, BecomesType
    <3> QED
      BY <1>a, <2>18, <3>3, EndsType DEF EditCommit
  <2>19. CASE ProjectDraft(t)
    <3>1. "hydrate" \in TaskStates /\ "project_graph" \in TaskStates
      BY DEF TaskStates, Locked, Sending
    <3>2. graph.rev \in Nat /\ graph'.rev \in Nat
      BY <1>a, <1>b, <1>d, <2>19 DEF ProjectDraft, Callbacks, Checkpoints
    <3>3. \A n \in Nat : [Idle EXCEPT !.pc = "hydrate", !.seen = n] \in Callbacks
      BY <3>1, IdleType, VersionType
    <3> QED
      BY <1>a, <2>19, <3>1, <3>2, <3>3, GoesType, EndsType, BecomesType
      DEF ProjectDraft, Refreshed
  <2>20. CASE ProjectGraph(t)
    <3>1. "hydrate" \in TaskStates /\ "project_graph" \in TaskStates
      BY DEF TaskStates, Locked, Sending
    <3>2. graph.rev \in Nat /\ graph'.rev \in Nat
      BY <1>a, <1>b, <1>d, <2>20 DEF ProjectGraph, Callbacks, Checkpoints
    <3>3. \A n \in Nat : [Idle EXCEPT !.pc = "hydrate", !.seen = n] \in Callbacks
      BY <3>1, IdleType, VersionType
    <3> QED
      BY <1>a, <2>20, <3>1, <3>2, <3>3, GoesType, EndsType, BecomesType
      DEF ProjectGraph, Refreshed
  <2>21. CASE Resume(t)
    BY <2>21, <1>a, GoesType, EndsType DEF TaskStates, Locked, Sending, Resume
  <2>22. CASE SenderRead(t)
    <3>1. ASSUME NEW pc \in {"envelope", "quarantine_run"},
                 Becomes(t, [task[t] EXCEPT !.pc = pc, !.rev = run.rev,
                                            !.version = run.version])
          PROVE task' \in [Tasks -> Callbacks]
      <4>1. pc \in TaskStates
        BY DEF TaskStates, Locked, Sending
      <4> QED
        BY <1>a, <1>b, <3>1, <4>1, RevisionType, BecomesType
    <3>2. "quarantine_log" \in TaskStates
      BY DEF TaskStates, Locked, Sending
    <3> QED
      BY <1>a, <2>22, <3>1, <3>2, GoesType, EndsType DEF SenderRead, Returns
  <2>23. CASE SenderEnvelope(t)
    <3>1. ASSUME NEW e \in envelopes,
                 Becomes(t, [task[t] EXCEPT !.pc = "claim", !.base = e.payload])
          PROVE task' \in [Tasks -> Callbacks]
      <4>1. "claim" \in TaskStates /\ e.payload \in Payloads
        BY DEF TaskStates, Locked, Sending, TypeOK, Envelopes
      <4> QED
        BY <1>a, <3>1, <4>1, PayloadType, BecomesType
    <3>2. "quarantine_run" \in TaskStates
      BY DEF TaskStates, Locked, Sending
    <3> QED
      BY <1>a, <2>23, <3>1, <3>2, GoesType DEF SenderEnvelope
  <2>24. CASE SenderClaim(t)
    BY <2>24, <1>a, GoesType, EndsType DEF TaskStates, Locked, Sending,
      SenderClaim, ClaimExecution, Returns
  <2>25. CASE SenderSend(t)
    BY <2>25, <1>a, GoesType, EndsType DEF TaskStates, Locked, Sending, SenderSend
  <2>26. CASE SenderRecord(t)
    BY <2>26, <1>a, GoesType, EndsType DEF TaskStates, Locked, Sending,
      SenderRecord, Executing, Returns
  <2>27. CASE FailRun(t)
    BY <2>27, <1>a, GoesType, EndsType DEF TaskStates, Locked, Sending, FailRun,
      Executing
  <2>28. CASE MarkUnknown(t)
    BY <2>28, <1>a, GoesType, EndsType DEF TaskStates, Locked, Sending,
      MarkUnknown, Returns
  <2>29. CASE QuarantineRun(t)
    BY <2>29, <1>a, GoesType, EndsType DEF TaskStates, Locked, Sending,
      QuarantineRun
  <2>30. CASE QuarantineLog(t)
    BY <2>30, <1>a, GoesType, EndsType DEF TaskStates, Locked, Sending,
      QuarantineLog, Returns
  <2> QED
    BY <1>2, <2>1, <2>2, <2>3, <2>4, <2>5, <2>6, <2>7, <2>8, <2>9, <2>10, <2>11,
      <2>12, <2>13, <2>14, <2>15, <2>16, <2>17, <2>18, <2>19, <2>20, <2>21,
      <2>22, <2>23, <2>24, <2>25, <2>26, <2>27, <2>28, <2>29, <2>30 DEF
      TaskStep
<1>3. ASSUME NEW t \in Tasks, Click(t) PROVE task' \in [Tasks -> Callbacks]
  <2>1. ASSUME NEW r \in cards, NEW u \in Users, ClickApprove(t, r, u)
        PROVE task' \in [Tasks -> Callbacks]
    BY <2>1, <1>a, <1>b, ClickType, EditType, BecomesType DEF TaskStates, Locked,
      Sending, ClickApprove, Callback
  <2>2. ASSUME NEW r \in cards, ClickReject(t, r) \/ ClickSave(t, r)
        PROVE task' \in [Tasks -> Callbacks]
    BY <2>2, <1>a, <1>b, ClickType, EditType, BecomesType DEF TaskStates, Locked,
      Sending, ClickReject, ClickSave, Callback
  <2>3. ASSUME NEW r \in cards, NEW c \in Changes, ClickEdit(t, r, c)
        PROVE task' \in [Tasks -> Callbacks]
    BY <2>3, <1>a, <1>b, ClickType, EditType, BecomesType DEF TaskStates, Locked,
      Sending, ClickEdit
  <2> QED
    BY <1>3, <2>1, <2>2, <2>3 DEF Click
<1>4. ASSUME NEW t \in Tasks, Cancel(t) PROVE task' \in [Tasks -> Callbacks]
  BY <1>4, <1>a, GoesType, EndsType DEF TaskStates, Locked, Sending, Cancel
<1>5. CASE PersistPlan
    BY <1>5, <1>a DEF TaskStates, Locked, Sending, PersistPlan
<1>6. CASE PersistEvidence
    BY <1>6, <1>a DEF TaskStates, Locked, Sending, PersistEvidence
<1>7. CASE DraftInGraph
    BY <1>7, <1>a DEF TaskStates, Locked, Sending, DraftInGraph
<1>8. CASE FreezePayload
    BY <1>8, <1>a DEF TaskStates, Locked, Sending, FreezePayload
<1>9. CASE BindCheckpoint
    BY <1>9, <1>a DEF TaskStates, Locked, Sending, BindCheckpoint
<1>10. CASE SendCard
    BY <1>10, <1>a DEF TaskStates, Locked, Sending, SendCard
<1>11. CASE RecordDelivery
    BY <1>11, <1>a DEF TaskStates, Locked, Sending, RecordDelivery, UpdateStatus,
      ReviewStatus
<1>12. CASE DeliveryFails
    BY <1>12, <1>a DEF TaskStates, Locked, Sending, DeliveryFails
<1>13. ASSUME NEW p \in Procs,
             StartDelivery(p) \/ Start(p) \/ RecoverLog(p)
             \/ RecoverScan(p) \/ RecoverRuns(p) \/ Crash(p)
      PROVE task' \in [Tasks -> Callbacks]
  <2>1. CASE StartDelivery(p)
    BY <2>1, <1>a DEF TaskStates, Locked, Sending, StartDelivery
  <2>2. CASE Start(p)
    BY <2>2, <1>a DEF TaskStates, Locked, Sending, Start
  <2>3. CASE RecoverLog(p)
    BY <2>3, <1>a DEF TaskStates, Locked, Sending, RecoverLog
  <2>4. CASE RecoverScan(p)
    BY <2>4, <1>a DEF TaskStates, Locked, Sending, RecoverScan
  <2>5. CASE RecoverRuns(p)
    BY <2>5, <1>a DEF TaskStates, Locked, Sending, RecoverRuns
  <2>6. CASE Crash(p)
    BY <2>6, <1>a, IdleType DEF TaskStates, Locked, Sending, Crash
  <2> QED
    BY <1>13, <2>1, <2>2, <2>3, <2>4, <2>5, <2>6
<1> QED
  BY <1>1, <1>2, <1>3, <1>4, <1>5, <1>6, <1>7, <1>8, <1>9, <1>10, <1>11, <1>12,
    <1>13 DEF Next, DeliveryStep

\* A recipient edit names an address.
LEMMA ChangeType ==
    ASSUME NEW c \in Changes, c.field = "to"
    PROVE c.to \in Addrs
  BY DEF Changes, NoChange

\* A compare-and-set changes the state and the version only.
LEMMA AdvanceType ==
    ASSUME run \in Runs, NEW s \in RunStates, Advance(s)
    PROVE /\ run' \in Runs
          /\ run'.state = s
          /\ run'.rev = run.rev
          /\ run'.claimed = run.claimed
<1>1. run.version + 1 \in Nat
  BY DEF Runs
<1> QED
  BY <1>1 DEF Advance, Runs

\* Claiming sets the claim as well,
LEMMA ClaimType ==
    ASSUME run \in Runs,
           run' = [run EXCEPT !.state = "executing", !.claimed = TRUE,
                              !.version = @ + 1]
    PROVE /\ run' \in Runs
          /\ run'.state = "executing"
          /\ run'.rev = run.rev
          /\ run'.claimed
<1>1. run.version + 1 \in Nat
  BY DEF Runs
<1> QED
  BY <1>1 DEF Runs, RunStates

\* and a revision the revision.
LEMMA AppendType ==
    ASSUME run \in Runs, payload \in Seq(Payloads), run.rev = Len(payload),
           NEW new \in Payloads, NEW s \in RunStates, NEW r, r = run.rev + 1,
           payload' = Append(payload, new),
           \/ run' = [run EXCEPT !.rev = r, !.version = @ + 1]
           \/ run' = [run EXCEPT !.state = s, !.rev = r, !.version = @ + 1]
    PROVE /\ run' \in Runs
          /\ payload' \in Seq(Payloads) /\ run'.rev = Len(payload')
          /\ run'.claimed = run.claimed
<1>1. run.version + 1 \in Nat /\ r \in Nat
  BY DEF Runs
<1>2. payload' \in Seq(Payloads) /\ Len(payload') = r
  OBVIOUS
<1> QED
  BY <1>1, <1>2 DEF Runs

\* The fields of a callback.
LEMMA Fields ==
    ASSUME task \in [Tasks -> Callbacks], NEW t \in Tasks
    PROVE /\ task[t].pc \in TaskStates
          /\ task[t].rev \in Nat /\ task[t].version \in Nat
          /\ task[t].seen \in Nat
          /\ task[t].base \in Payloads
          /\ task[t].base.draft \in Drafts /\ task[t].base.to \in Addrs
          /\ task[t].change \in Changes
  BY DEF Callbacks, Payloads


\* Every step is well typed.
LEMMA TypeStep == TypeOK /\ Holding /\ [Next]_vars => TypeOK'
<1> SUFFICES ASSUME TypeOK /\ Holding, [Next]_vars PROVE TypeOK'
  OBVIOUS
<1> USE DEF records, projections, processes, effects, Returns
<1>a. task' \in [Tasks -> Callbacks]
  BY TaskTyped
<1>b. task \in [Tasks -> Callbacks] /\ run \in Runs /\ run.state \in RunStates
  BY DEF TypeOK, Runs
<1>c. run.state = "approval_pending" => payload[run.rev] \in Payloads
  BY DEF TypeOK, Holding, Runs
<1>1. CASE UNCHANGED vars
  BY <1>1, <1>a, HandoffAssumption DEF TypeOK, vars
<1>2. ASSUME NEW t \in Tasks, TaskStep(t) PROVE TypeOK'
  <2>1. CASE ApproveRead(t)
    BY <2>1, <1>a DEF TypeOK, ApproveRead, LockAndRead
  <2>2. CASE ApproveCommit(t)
    <3>1. CASE CommitApproval(t)
      <4>1. run' \in Runs /\ run'.rev = run.rev
        BY <1>b, <3>1, AdvanceType DEF CommitApproval, RunStates
      <4>2. task[t].user \in Users
        BY <2>2 DEF ApproveCommit, Holding
      <4>3. envelopes' \subseteq Envelopes
        BY <1>b, <1>c, <3>1, <4>2 DEF CommitApproval, Pending, Envelopes, TypeOK, Runs
      <4> QED
        BY <1>a, <2>2, <3>1, <4>1, <4>3
        DEF TypeOK, ApproveCommit, CommitApproval, LogStatuses
    <3>2. CASE UNCHANGED records
      BY <1>a, <2>2, <3>2 DEF TypeOK, ApproveCommit
    <3> QED
      BY <2>2, <3>1, <3>2 DEF ApproveCommit
  <2>3. CASE ProjectApproval(t)
    BY <2>3, <1>a DEF TypeOK, ProjectApproval, CardReplaced, Checkpoints
  <2>4. CASE RejectRead(t)
    BY <2>4, <1>a DEF TypeOK, RejectRead, LockAndRead
  <2>5. CASE RejectCommit(t)
    BY <2>5, <1>a, <1>b, AdvanceType DEF TypeOK, RejectCommit, Pending, RunStates,
      LogStatuses
  <2>6. CASE ProjectRejection(t)
    BY <2>6, <1>a DEF TypeOK, ProjectRejection, CardReplaced, Checkpoints
  <2>7. CASE SaveRead(t)
    BY <2>7, <1>a DEF TypeOK, SaveRead, LockAndRead
  <2>8. CASE SaveCommit(t)
    BY <2>8, <1>a, <1>b, AdvanceType DEF TypeOK, SaveCommit, Pending, RunStates,
      LogStatuses
  <2>9. CASE SaveCall(t)
    <3>1. task[t].base \in Payloads
      BY <1>b, Fields
    <3>2. drafts' \in Seq(Payloads)
      <4>1. drafts \in Seq(Payloads)
        BY DEF TypeOK
      <4>2. drafts' = drafts \/ drafts' = Append(drafts, task[t].base)
        BY <2>9 DEF SaveCall
      <4> QED
        BY <3>1, <4>1, <4>2
    <3> QED
      BY <1>a, <2>9, <3>2 DEF TypeOK, SaveCall
  <2>10. CASE SaveRecord(t)
    BY <2>10, <1>a, <1>b, AdvanceType DEF TypeOK, SaveRecord, EndSave, RunStates,
      LogStatuses
  <2>11. CASE SaveFail(t)
    BY <2>11, <1>a, <1>b, AdvanceType DEF TypeOK, SaveFail, EndSave, RunStates,
      LogStatuses
  <2>12. CASE Hydrate(t)
    BY <2>12, <1>a DEF TypeOK, Hydrate, AfterHydrate
  <2>13. CASE ReconcileDraft(t)
    BY <2>13, <1>a, <1>b, Fields DEF TypeOK, ReconcileDraft, SaveDraft,
      AfterHydrate
  <2>14. CASE ReconcileGraph(t)
    BY <2>14, <1>a, <1>b, Fields DEF TypeOK, ReconcileGraph, AfterHydrate,
      Checkpoints
  <2>15. CASE Render(t)
    BY <2>15, <1>a, <1>b, Fields DEF TypeOK, Render
  <2>16. CASE EditRead(t)
    BY <2>16, <1>a DEF TypeOK, EditRead
  <2>17. CASE EditVersion(t)
    BY <2>17, <1>a DEF TypeOK, EditVersion
  <2>18. CASE EditCommit(t)
    <3> DEFINE new == Edited(task[t].base, task[t].change)
    <3>1. new \in Payloads
      BY <1>b, Fields, EditedType
    <3>2. CASE CommitRevision(t, new)
      <4> HIDE DEF new
      <4>1. /\ run' \in Runs /\ payload' \in Seq(Payloads)
            /\ run'.rev = Len(payload')
        BY <1>b, <3>1, <3>2, AppendType DEF CommitRevision, TypeOK
      <4> QED
        BY <1>a, <2>18, <4>1 DEF TypeOK, EditCommit
    <3>3. CASE UNCHANGED <<run, payload>>
      BY <1>a, <2>18, <3>3 DEF TypeOK, EditCommit
    <3> QED
      BY <2>18, <3>2, <3>3 DEF EditCommit
  <2>19. CASE ProjectDraft(t)
    BY <2>19, <1>a, <1>b, Fields DEF TypeOK, ProjectDraft, Refreshed
  <2>20. CASE ProjectGraph(t)
    <3>1. graph' \in Checkpoints
      <4>1. graph \in Checkpoints
        BY DEF TypeOK
      <4>2. task[t].rev \in Nat
            /\ (task[t].change.field = "to" => task[t].change.to \in Addrs)
        BY <1>b, Fields, ChangeType
      <4> QED
        BY <2>20, <4>1, <4>2 DEF ProjectGraph, Checkpoints
    <3> QED
      BY <1>a, <2>20, <3>1 DEF TypeOK, ProjectGraph
  <2>21. CASE Resume(t)
    BY <2>21, <1>a DEF TypeOK, Resume
  <2>22. CASE SenderRead(t)
    BY <2>22, <1>a DEF TypeOK, SenderRead, Checkpoints
  <2>23. CASE SenderEnvelope(t)
    BY <2>23, <1>a DEF TypeOK, SenderEnvelope
  <2>24. CASE SenderClaim(t)
    BY <2>24, <1>a, <1>b, ClaimType DEF TypeOK, SenderClaim, ClaimExecution,
      Returns, Checkpoints, LogStatuses
  <2>25. CASE SenderSend(t)
    <3>1. task[t].base \in Payloads
      BY <1>b, Fields
    <3>2. sends' \in Seq(Payloads)
      <4>1. sends \in Seq(Payloads)
        BY DEF TypeOK
      <4>2. sends' = sends \/ sends' = Append(sends, task[t].base)
        BY <2>25 DEF SenderSend
      <4> QED
        BY <3>1, <4>1, <4>2
    <3> QED
      BY <1>a, <2>25, <3>2 DEF TypeOK, SenderSend
  <2>26. CASE SenderRecord(t)
    BY <2>26, <1>a, <1>b, AdvanceType DEF TypeOK, SenderRecord, Executing,
      Returns, RunStates, LogStatuses, Checkpoints
  <2>27. CASE FailRun(t)
    BY <2>27, <1>a, <1>b, AdvanceType DEF TypeOK, FailRun, Executing, RunStates,
      LogStatuses
  <2>28. CASE MarkUnknown(t)
    BY <2>28, <1>a DEF TypeOK, MarkUnknown, Returns, LogStatuses, Checkpoints
  <2>29. CASE QuarantineRun(t)
    BY <2>29, <1>a, <1>b, AdvanceType DEF TypeOK, QuarantineRun, RunStates,
      LogStatuses
  <2>30. CASE QuarantineLog(t)
    BY <2>30, <1>a DEF TypeOK, QuarantineLog, Returns, LogStatuses, Checkpoints
  <2> QED
    BY <1>2, <2>1, <2>2, <2>3, <2>4, <2>5, <2>6, <2>7, <2>8, <2>9, <2>10, <2>11,
      <2>12, <2>13, <2>14, <2>15, <2>16, <2>17, <2>18, <2>19, <2>20, <2>21,
      <2>22, <2>23, <2>24, <2>25, <2>26, <2>27, <2>28, <2>29, <2>30 DEF
      TaskStep
<1>3. ASSUME NEW t \in Tasks, Click(t) PROVE TypeOK'
  <2>1. ASSUME NEW r \in cards, NEW u \in Users, ClickApprove(t, r, u)
        PROVE TypeOK'
    BY <2>1, <1>a DEF TypeOK, ClickApprove, Callback
  <2>2. ASSUME NEW r \in cards, ClickReject(t, r) \/ ClickSave(t, r)
        PROVE TypeOK'
    BY <2>2, <1>a DEF TypeOK, ClickReject, ClickSave, Callback
  <2>3. ASSUME NEW r \in cards, NEW c \in Changes, ClickEdit(t, r, c)
        PROVE TypeOK'
    BY <2>3, <1>a DEF TypeOK, ClickEdit
  <2> QED
    BY <1>3, <2>1, <2>2, <2>3 DEF Click
<1>4. ASSUME NEW t \in Tasks, Cancel(t) PROVE TypeOK'
  BY <1>4, <1>a DEF TypeOK, Cancel
<1>5. CASE PersistPlan
    BY <1>5, <1>a DEF TypeOK, PersistPlan, Delivers, DeliveryStates, Runs,
      RunStates
<1>6. CASE PersistEvidence
    BY <1>6, <1>a, <1>b, AdvanceType DEF TypeOK, PersistEvidence, Delivers,
      DeliveryStates, RunStates, LogStatuses
<1>7. CASE DraftInGraph
    BY <1>7, <1>a, <1>b, AdvanceType DEF TypeOK, DraftInGraph, Delivers,
      DeliveryStates, RunStates, LogStatuses
<1>8. CASE FreezePayload
    <2>0. 1 = run.rev + 1 /\ "approval_pending" \in RunStates
      BY <1>8 DEF FreezePayload, RunStates
    <2>1. /\ run' \in Runs /\ payload' \in Seq(Payloads)
          /\ run'.rev = Len(payload')
      BY <1>b, <1>8, <2>0, HandoffAssumption, AppendType
      DEF FreezePayload, TypeOK
    <2> QED
      BY <1>a, <1>8, <2>1 DEF TypeOK, FreezePayload, Delivers, DeliveryStates
<1>9. CASE BindCheckpoint
    BY <1>9, <1>a DEF TypeOK, BindCheckpoint, Delivers, DeliveryStates,
      Checkpoints
<1>10. CASE SendCard
    BY <1>10, <1>a DEF TypeOK, SendCard, Delivers, DeliveryStates
<1>11. CASE RecordDelivery
    BY <1>11, <1>a DEF TypeOK, RecordDelivery, UpdateStatus, ReviewStatus,
      Delivers, DeliveryStates, LogStatuses
<1>12. CASE DeliveryFails
    BY <1>12, <1>a DEF TypeOK, DeliveryFails, Delivers, DeliveryStates
<1>13. ASSUME NEW p \in Procs,
             StartDelivery(p) \/ Start(p) \/ RecoverLog(p)
             \/ RecoverScan(p) \/ RecoverRuns(p) \/ Crash(p)
      PROVE TypeOK'
  <2>1. CASE StartDelivery(p)
    BY <2>1, <1>a, HandoffAssumption DEF TypeOK, StartDelivery, Delivers,
      DeliveryStates
  <2>2. CASE Start(p)
    BY <2>2, <1>a DEF TypeOK, Start
  <2>3. CASE RecoverLog(p)
    BY <2>3, <1>a DEF TypeOK, RecoverLog, LogStatuses
  <2>4. CASE RecoverScan(p)
    BY <2>4, <1>a, <1>b DEF TypeOK, RecoverScan
  <2>5. CASE RecoverRuns(p)
    BY <2>5, <1>a, <1>b, AdvanceType DEF TypeOK, RecoverRuns, RunStates,
      LogStatuses
  <2>6. CASE Crash(p)
    BY <2>6, <1>a DEF TypeOK, Crash, Delivers, DeliveryStates, RunStates
  <2> QED
    BY <1>13, <2>1, <2>2, <2>3, <2>4, <2>5, <2>6
<1> QED
  BY <1>1, <1>2, <1>3, <1>4, <1>5, <1>6, <1>7, <1>8, <1>9, <1>10, <1>11, <1>12,
    <1>13 DEF Next, DeliveryStep

-----------------------------------------------------------------------------
\* The other parts.

\* What a move leaves alone.
LEMMA GoesKeeps ==
    ASSUME task \in [Tasks -> Callbacks], NEW t \in Tasks, NEW pc, Goes(t, pc)
    PROVE /\ task'[t].pc = pc /\ task'[t].user = task[t].user
          /\ task'[t].base = task[t].base
          /\ \A u \in Tasks : u # t => task'[u] = task[u]
  BY DEF Goes, Becomes, Callbacks

\* An ended task is idle.
LEMMA EndsKeeps ==
    ASSUME task \in [Tasks -> Callbacks], NEW t \in Tasks, Ends(t)
    PROVE /\ task'[t].pc = "idle"
          /\ \A u \in Tasks : u # t => task'[u] = task[u]
  BY DEF Ends, Becomes, Idle

\* A task that read the run,
LEMMA ReadMoves ==
    ASSUME task \in [Tasks -> Callbacks], NEW t \in Tasks,
           ApproveRead(t) \/ RejectRead(t) \/ SaveRead(t) \/ EditVersion(t)
    PROVE /\ task'[t].pc \in {"approve_commit", "reject_commit",
                              "save_commit", "edit_commit"}
          /\ task'[t].pc = "approve_commit" =>
                task[t].pc = "approve" /\ task'[t].user = task[t].user
          /\ \A u \in Tasks : u # t => task'[u] = task[u]
          /\ UNCHANGED <<records, projections, delivery, processes, effects>>
<1>1. ASSUME NEW pc,
             Becomes(t, [task[t] EXCEPT !.pc = pc, !.version = run.version])
      PROVE /\ task'[t].pc = pc /\ task'[t].user = task[t].user
            /\ \A u \in Tasks : u # t => task'[u] = task[u]
  BY <1>1 DEF Becomes, Callbacks
<1>2. CASE ApproveRead(t)
  BY <1>1, <1>2 DEF ApproveRead, LockAndRead
<1>3. CASE RejectRead(t)
  BY <1>1, <1>3 DEF RejectRead, LockAndRead
<1>4. CASE SaveRead(t)
  BY <1>1, <1>4 DEF SaveRead, LockAndRead
<1>5. CASE EditVersion(t)
  BY <1>1, <1>5 DEF EditVersion
<1> QED
  BY <1>2, <1>3, <1>4, <1>5

\* claimed the payload for a draft,
LEMMA SaveCommitMoves ==
    ASSUME task \in [Tasks -> Callbacks], NEW t \in Tasks, SaveCommit(t)
    PROVE /\ task'[t].pc \in {"save_call", "save_fail", "idle"}
          /\ task'[t].pc = "save_call" =>
                /\ run.state = "approval_pending"
                /\ Advance("draft_saving") /\ log' = "saving_draft"
                /\ task'[t].base = payload[run.rev]
          /\ \A u \in Tasks : u # t => task'[u] = task[u]
          /\ \/ UNCHANGED <<run, log>>
             \/ /\ run.state = "approval_pending"
                /\ log = "waiting_approval"
                /\ Advance("draft_saving") /\ log' = "saving_draft"
          /\ UNCHANGED <<payload, envelopes, delivery, proc, found, sends, drafts>>
<1>1. ASSUME NEW pc \in {"save_call", "save_fail"},
             Becomes(t, [task[t] EXCEPT !.pc = pc,
                                        !.version = run.version + 1,
                                        !.base = payload[run.rev]])
      PROVE /\ task'[t].pc = pc
            /\ task'[t].base = payload[run.rev]
            /\ \A u \in Tasks : u # t => task'[u] = task[u]
  BY <1>1 DEF Becomes, Callbacks
<1> QED
  BY <1>1, EndsKeeps DEF SaveCommit, Pending, projections, processes, effects

\* or hydrated its card.
LEMMA HydrateMoves ==
    ASSUME task \in [Tasks -> Callbacks], NEW t \in Tasks, Hydrate(t)
    PROVE /\ task'[t].pc \in {"render", "edit", "reconcile_draft", "idle"}
          /\ \A u \in Tasks : u # t => task'[u] = task[u]
<1>1. ASSUME NEW pc \in {"render", "edit", "reconcile_draft"},
             Becomes(t, [task[t] EXCEPT !.pc = pc, !.seen = run.rev,
                                        !.base = payload[run.rev]])
      PROVE /\ task'[t].pc = pc
            /\ \A u \in Tasks : u # t => task'[u] = task[u]
  BY <1>1 DEF Becomes, Callbacks
<1> QED
  BY <1>1, EndsKeeps DEF Hydrate, AfterHydrate

\* An edit: its base,
LEMMA EditReadMoves ==
    ASSUME task \in [Tasks -> Callbacks], NEW t \in Tasks, EditRead(t)
    PROVE /\ task'[t].pc \in {"edit_version", "idle"}
          /\ \A u \in Tasks : u # t => task'[u] = task[u]
<1>1. ASSUME Becomes(t, [task[t] EXCEPT
                !.pc = "edit_version",
                !.base = [draft |-> draft, to |-> graph.to]])
      PROVE /\ task'[t].pc = "edit_version"
            /\ \A u \in Tasks : u # t => task'[u] = task[u]
  BY <1>1 DEF Becomes, Callbacks
<1> QED
  BY <1>1, EndsKeeps DEF EditRead

\* its commit
LEMMA EditCommitMoves ==
    ASSUME task \in [Tasks -> Callbacks], NEW t \in Tasks, EditCommit(t)
    PROVE /\ task'[t].pc \in {"project_draft", "project_graph", "idle"}
          /\ \A u \in Tasks : u # t => task'[u] = task[u]
          /\ UNCHANGED <<log, envelopes, delivery, proc, found, sends, drafts>>
<1>1. ASSUME NEW pc \in {"project_draft", "project_graph"}, NEW new,
             Becomes(t, [task[t] EXCEPT !.pc = pc, !.rev = run'.rev,
                                        !.base = new])
      PROVE /\ task'[t].pc = pc
            /\ \A u \in Tasks : u # t => task'[u] = task[u]
  BY <1>1 DEF Becomes, Callbacks
<1> QED
  BY <1>1, EndsKeeps DEF EditCommit, projections, processes, effects

LEMMA EditCommitRun ==
    ASSUME run \in Runs, NEW t \in Tasks, EditCommit(t)
    PROVE /\ run'.state = run.state /\ run'.claimed = run.claimed
          /\ \/ run' = run /\ UNCHANGED payload
             \/ /\ run'.rev = run.rev + 1
                /\ run.state = "approval_pending"
<1>1. \/ run' = run /\ UNCHANGED payload
      \/ /\ run' = [run EXCEPT !.rev = @ + 1, !.version = @ + 1]
         /\ run.state = "approval_pending"
  BY DEF EditCommit, CommitRevision
<1>2. run.rev + 1 \in Nat /\ run.version + 1 \in Nat
  BY DEF Runs
<1> QED
  BY <1>1, <1>2 DEF Runs

\* and what follows it.
LEMMA RefreshedMoves ==
    ASSUME task \in [Tasks -> Callbacks], NEW t \in Tasks, NEW g, Refreshed(t, g)
    PROVE /\ task'[t].pc = "hydrate"
          /\ \A u \in Tasks : u # t => task'[u] = task[u]
  BY DEF Refreshed, Becomes, Idle

LEMMA ProjectMoves ==
    ASSUME task \in [Tasks -> Callbacks], NEW t \in Tasks,
           ProjectDraft(t) \/ ProjectGraph(t)
    PROVE /\ task'[t].pc \in {"hydrate", "project_graph", "idle"}
          /\ \A u \in Tasks : u # t => task'[u] = task[u]
  BY RefreshedMoves, EndsKeeps, GoesKeeps DEF ProjectDraft, ProjectGraph

\* The sender: the run,
LEMMA SenderReadMoves ==
    ASSUME task \in [Tasks -> Callbacks], NEW t \in Tasks, SenderRead(t)
    PROVE /\ task'[t].pc \in {"envelope", "quarantine_run", "quarantine_log",
                              "idle"}
          /\ \A u \in Tasks : u # t => task'[u] = task[u]
<1>1. ASSUME NEW pc \in {"envelope", "quarantine_run"},
             Becomes(t, [task[t] EXCEPT !.pc = pc, !.rev = run.rev,
                                        !.version = run.version])
      PROVE /\ task'[t].pc = pc
            /\ \A u \in Tasks : u # t => task'[u] = task[u]
  BY <1>1 DEF Becomes, Callbacks
<1> QED
  BY <1>1, EndsKeeps, GoesKeeps DEF SenderRead, Returns

\* and the envelope.
LEMMA SenderEnvelopeMoves ==
    ASSUME task \in [Tasks -> Callbacks], NEW t \in Tasks, SenderEnvelope(t)
    PROVE /\ task'[t].pc \in {"claim", "quarantine_run"}
          /\ task'[t].pc = "claim" =>
                \E e \in envelopes : task'[t].base = e.payload
          /\ \A u \in Tasks : u # t => task'[u] = task[u]
          /\ UNCHANGED <<records, delivery, processes, effects>>
<1>1. ASSUME NEW e \in envelopes,
             Becomes(t, [task[t] EXCEPT !.pc = "claim", !.base = e.payload])
      PROVE /\ task'[t].pc = "claim" /\ task'[t].base = e.payload
            /\ \A u \in Tasks : u # t => task'[u] = task[u]
  BY <1>1 DEF Becomes, Callbacks
<1>2. UNCHANGED <<records, delivery, processes, effects>>
  BY DEF SenderEnvelope, projections
<1>3. \/ Goes(t, "quarantine_run")
      \/ \E e \in envelopes :
            Becomes(t, [task[t] EXCEPT !.pc = "claim", !.base = e.payload])
  BY DEF SenderEnvelope
<1>4. CASE Goes(t, "quarantine_run")
  BY <1>2, <1>4, GoesKeeps
<1> QED
  BY <1>1, <1>2, <1>3, <1>4

\* A click starts a callback and changes nothing else.
LEMMA ClickMoves ==
    ASSUME task \in [Tasks -> Callbacks], NEW t \in Tasks, Click(t)
    PROVE /\ task'[t].pc \in {"approve", "reject", "save", "hydrate"}
          /\ task'[t].pc = "approve" => task'[t].user \in Users
          /\ \A u \in Tasks : u # t => task'[u] = task[u]
          /\ UNCHANGED <<records, projections, delivery, processes, effects>>
<1>1. ASSUME NEW r, NEW pc, NEW u, Callback(t, r, pc, u)
      PROVE /\ task'[t].pc = pc /\ task'[t].user = u
            /\ \A v \in Tasks : v # t => task'[v] = task[v]
            /\ UNCHANGED <<records, projections, delivery, processes, effects>>
  BY <1>1 DEF Callback, Becomes, Idle
<1>2. ASSUME NEW r, NEW c, ClickEdit(t, r, c)
      PROVE /\ task'[t].pc = "hydrate"
            /\ \A v \in Tasks : v # t => task'[v] = task[v]
            /\ UNCHANGED <<records, projections, delivery, processes, effects>>
  BY <1>2 DEF ClickEdit, Becomes, Idle
<1>3. ASSUME NEW r \in cards, NEW u \in Users, ClickApprove(t, r, u)
      PROVE /\ task'[t].pc = "approve" /\ task'[t].user \in Users
            /\ \A v \in Tasks : v # t => task'[v] = task[v]
            /\ UNCHANGED <<records, projections, delivery, processes, effects>>
  BY <1>1, <1>3 DEF ClickApprove
<1>4. ASSUME NEW r \in cards, ClickReject(t, r) \/ ClickSave(t, r)
      PROVE /\ task'[t].pc \in {"reject", "save"}
            /\ \A v \in Tasks : v # t => task'[v] = task[v]
            /\ UNCHANGED <<records, projections, delivery, processes, effects>>
  BY <1>1, <1>4 DEF ClickReject, ClickSave
<1> QED
  BY <1>2, <1>3, <1>4 DEF Click

\* Steps that touch no record and make no call.
Quiet(t) ==
    \/ Click(t) \/ Cancel(t)
    \/ ApproveRead(t) \/ ProjectApproval(t)
    \/ RejectRead(t) \/ ProjectRejection(t) \/ SaveRead(t)
    \/ Hydrate(t) \/ ReconcileDraft(t) \/ ReconcileGraph(t) \/ Render(t)
    \/ EditRead(t) \/ EditVersion(t) \/ ProjectDraft(t) \/ ProjectGraph(t)
    \/ Resume(t) \/ SenderRead(t)

\* They leave everything to their task, which reaches no call by them.
LEMMA QuietMoves ==
    ASSUME task \in [Tasks -> Callbacks], Holding, NEW t \in Tasks, Quiet(t)
    PROVE /\ UNCHANGED <<records, delivery, processes, effects>>
          /\ \A u \in Tasks : u # t => task'[u] = task[u]
          /\ task'[t].pc \notin {"claim", "send", "record", "save_call",
                                 "save_record"}
          /\ task'[t].pc \in {"approve", "approve_commit"} =>
                task'[t].user \in Users
<1> USE DEF records, projections, processes, effects
<1>1. CASE Click(t)
  BY <1>1, ClickMoves
<1>2. CASE Cancel(t)
  BY <1>2, GoesKeeps, EndsKeeps DEF Cancel
<1>3. CASE ApproveRead(t)
  BY <1>3, ReadMoves DEF Holding
<1>4. CASE ProjectApproval(t)
  BY <1>4, GoesKeeps, EndsKeeps DEF ProjectApproval
<1>5. CASE RejectRead(t)
  BY <1>5, ReadMoves DEF Holding
<1>6. CASE ProjectRejection(t)
  BY <1>6, GoesKeeps DEF ProjectRejection
<1>7. CASE SaveRead(t)
  BY <1>7, ReadMoves DEF Holding
<1>8. CASE Hydrate(t)
  BY <1>8, HydrateMoves DEF Hydrate
<1>9. CASE ReconcileDraft(t)
  BY <1>9, GoesKeeps DEF ReconcileDraft, AfterHydrate
<1>10. CASE ReconcileGraph(t)
  BY <1>10, GoesKeeps DEF ReconcileGraph, AfterHydrate
<1>11. CASE Render(t)
  BY <1>11, EndsKeeps DEF Render
<1>12. CASE EditRead(t)
  BY <1>12, EditReadMoves DEF EditRead
<1>13. CASE EditVersion(t)
  BY <1>13, ReadMoves DEF Holding
<1>14. CASE ProjectDraft(t)
  BY <1>14, ProjectMoves DEF ProjectDraft
<1>15. CASE ProjectGraph(t)
  BY <1>15, ProjectMoves DEF ProjectGraph
<1>16. CASE Resume(t)
  BY <1>16, GoesKeeps, EndsKeeps DEF Resume
<1>17. CASE SenderRead(t)
  BY <1>17, SenderReadMoves DEF SenderRead
<1> QED
  BY <1>1, <1>2, <1>3, <1>4, <1>5, <1>6, <1>7, <1>8, <1>9, <1>10, <1>11, <1>12,
    <1>13, <1>14, <1>15, <1>16, <1>17 DEF Quiet


\* Pending runs have a payload, and approvals an approver.
LEMMA HoldingStep == TypeOK /\ Holding /\ [Next]_vars => Holding'
<1> SUFFICES ASSUME TypeOK /\ Holding, [Next]_vars PROVE Holding'
  OBVIOUS
<1> USE DEF records, projections, processes, effects, Returns
<1>b. /\ task \in [Tasks -> Callbacks] /\ run \in Runs
      /\ run.state \in RunStates
      /\ delivery \in [pc : DeliveryStates, proc : Procs]
      /\ proc \in [Procs -> {"down", "recover_log", "recover_runs",
                             "recover_fix", "up"}]
      /\ found \in [Procs -> RunStates]
  BY DEF TypeOK, Runs
<1>1. CASE UNCHANGED vars
  BY <1>1, <1>b DEF Holding, RunStates, vars
<1>2. ASSUME NEW t \in Tasks, TaskStep(t), ~Quiet(t) PROVE Holding'
  <2>1. CASE ApproveCommit(t)
    BY <2>1, <1>b, GoesKeeps, EndsKeeps, AdvanceType DEF Holding, RunStates,
      ApproveCommit, CommitApproval, ExactReplay, Pending
  <2>2. CASE RejectCommit(t)
    BY <2>2, <1>b, GoesKeeps, EndsKeeps, AdvanceType DEF Holding, RunStates,
      RejectCommit, Pending
  <2>3. CASE SaveCommit(t)
    BY <2>3, <1>b, SaveCommitMoves, AdvanceType DEF Holding, RunStates
  <2>4. CASE SaveCall(t)
    BY <2>4, <1>b, GoesKeeps, EndsKeeps DEF Holding, RunStates, SaveCall
  <2>5. CASE SaveRecord(t)
    BY <2>5, <1>b, GoesKeeps, EndsKeeps, AdvanceType DEF Holding, RunStates,
      SaveRecord, EndSave
  <2>6. CASE SaveFail(t)
    BY <2>6, <1>b, GoesKeeps, EndsKeeps, AdvanceType DEF Holding, RunStates,
      SaveFail, EndSave
  <2>7. CASE EditCommit(t)
    <3>1. /\ run'.state = run.state
          /\ run'.rev = run.rev \/ run'.rev = run.rev + 1
      BY <1>b, <2>7, EditCommitRun
    <3>2. run.rev >= 1 => run'.rev >= 1
      BY <1>b, <3>1 DEF Runs
    <3> QED
      BY <1>b, <2>7, <3>1, <3>2, EditCommitMoves DEF Holding
  <2>8. CASE SenderEnvelope(t)
    BY <2>8, <1>b, SenderEnvelopeMoves DEF Holding, RunStates
  <2>9. CASE SenderClaim(t)
    BY <2>9, <1>b, GoesKeeps, EndsKeeps, ClaimType DEF Holding, RunStates,
      SenderClaim, ClaimExecution, Returns
  <2>10. CASE SenderSend(t)
    BY <2>10, <1>b, GoesKeeps, EndsKeeps DEF Holding, RunStates, SenderSend
  <2>11. CASE SenderRecord(t)
    BY <2>11, <1>b, GoesKeeps, EndsKeeps, AdvanceType DEF Holding, RunStates,
      SenderRecord, Executing, Returns
  <2>12. CASE FailRun(t)
    BY <2>12, <1>b, GoesKeeps, EndsKeeps, AdvanceType DEF Holding, RunStates,
      FailRun, Executing
  <2>13. CASE MarkUnknown(t)
    BY <2>13, <1>b, GoesKeeps, EndsKeeps DEF Holding, RunStates, MarkUnknown,
      Returns
  <2>14. CASE QuarantineRun(t)
    BY <2>14, <1>b, GoesKeeps, EndsKeeps, AdvanceType DEF Holding, RunStates,
      QuarantineRun
  <2>15. CASE QuarantineLog(t)
    BY <2>15, <1>b, GoesKeeps, EndsKeeps DEF Holding, RunStates, QuarantineLog,
      Returns
  <2> QED
    BY <1>2, <2>1, <2>2, <2>3, <2>4, <2>5, <2>6, <2>7, <2>8, <2>9, <2>10, <2>11,
      <2>12, <2>13, <2>14, <2>15 DEF TaskStep, Quiet
<1>3. ASSUME NEW t \in Tasks, Quiet(t) PROVE Holding'
  BY <1>3, <1>b, QuietMoves DEF Holding, RunStates
<1>4. CASE PersistPlan
    BY <1>4, <1>b DEF Holding, RunStates, PersistPlan, Delivers, Runs
<1>5. CASE PersistEvidence
    BY <1>5, <1>b, AdvanceType DEF Holding, RunStates, PersistEvidence, Delivers
<1>6. CASE DraftInGraph
    BY <1>6, <1>b, AdvanceType DEF Holding, RunStates, DraftInGraph, Delivers
<1>7. CASE FreezePayload
    BY <1>7, <1>b DEF Holding, RunStates, FreezePayload, Delivers
<1>8. CASE BindCheckpoint
    BY <1>8, <1>b DEF Holding, RunStates, BindCheckpoint, Delivers
<1>9. CASE SendCard
    BY <1>9, <1>b DEF Holding, RunStates, SendCard, Delivers
<1>10. CASE RecordDelivery
    BY <1>10, <1>b DEF Holding, RunStates, RecordDelivery, UpdateStatus,
      ReviewStatus, Delivers
<1>11. CASE DeliveryFails
    BY <1>11, <1>b DEF Holding, RunStates, DeliveryFails, Delivers
<1>12. ASSUME NEW p \in Procs,
             StartDelivery(p) \/ Start(p) \/ RecoverLog(p)
             \/ RecoverScan(p) \/ RecoverRuns(p) \/ Crash(p)
      PROVE Holding'
  <2>1. CASE StartDelivery(p)
    BY <2>1, <1>b DEF Holding, RunStates, StartDelivery, Delivers
  <2>2. CASE Start(p)
    BY <2>2, <1>b DEF Holding, RunStates, Start
  <2>3. CASE RecoverLog(p)
    BY <2>3, <1>b DEF Holding, RunStates, RecoverLog
  <2>4. CASE RecoverScan(p)
    BY <2>4, <1>b DEF Holding, RunStates, RecoverScan, Inconsistent
  <2>5. CASE RecoverRuns(p)
    BY <2>5, <1>b, AdvanceType DEF Holding, RunStates, RecoverRuns
  <2>6. CASE Crash(p)
    BY <2>6, <1>b DEF Holding, RunStates, Crash, Delivers, Idle
  <2> QED
    BY <1>12, <2>1, <2>2, <2>3, <2>4, <2>5, <2>6
<1> QED
  BY <1>1, <1>2, <1>3, <1>4, <1>5, <1>6, <1>7, <1>8, <1>9, <1>10, <1>11, <1>12
    DEF Next, DeliveryStep, Quiet

\* Nothing but its delivery takes emails_log out of processing.
LEMMA DeliveredStep == TypeOK /\ Holding /\ DeliveredFirst /\ [Next]_vars => DeliveredFirst'
<1> SUFFICES ASSUME TypeOK /\ Holding /\ DeliveredFirst, [Next]_vars PROVE DeliveredFirst'
  OBVIOUS
<1> USE DEF records, projections, processes, effects, Returns
<1>b. /\ task \in [Tasks -> Callbacks] /\ run \in Runs
      /\ run.state \in RunStates
      /\ delivery \in [pc : DeliveryStates, proc : Procs]
      /\ proc \in [Procs -> {"down", "recover_log", "recover_runs",
                             "recover_fix", "up"}]
      /\ found \in [Procs -> RunStates]
  BY DEF TypeOK, Runs
<1>1. CASE UNCHANGED vars
  BY <1>1, <1>b DEF DeliveredFirst, Undecided, vars
<1>2. ASSUME NEW t \in Tasks, TaskStep(t), ~Quiet(t) PROVE DeliveredFirst'
  <2>1. CASE ApproveCommit(t)
    BY <2>1, <1>b, GoesKeeps, EndsKeeps, AdvanceType DEF DeliveredFirst,
      Undecided, ApproveCommit, CommitApproval, ExactReplay, Pending,
      RunStates
  <2>2. CASE RejectCommit(t)
    BY <2>2, <1>b, GoesKeeps, EndsKeeps, AdvanceType DEF DeliveredFirst,
      Undecided, RejectCommit, Pending, RunStates
  <2>3. CASE SaveCommit(t)
    BY <2>3, <1>b, SaveCommitMoves, AdvanceType DEF DeliveredFirst, Undecided,
      RunStates
  <2>4. CASE SaveCall(t)
    BY <2>4, <1>b, GoesKeeps, EndsKeeps DEF DeliveredFirst, Undecided, SaveCall
  <2>5. CASE SaveRecord(t)
    BY <2>5, <1>b, GoesKeeps, EndsKeeps, AdvanceType DEF DeliveredFirst,
      Undecided, SaveRecord, EndSave, RunStates
  <2>6. CASE SaveFail(t)
    BY <2>6, <1>b, GoesKeeps, EndsKeeps, AdvanceType DEF DeliveredFirst,
      Undecided, SaveFail, EndSave, RunStates
  <2>7. CASE EditCommit(t)
    BY <2>7, <1>b, EditCommitMoves, EditCommitRun DEF DeliveredFirst, Undecided
  <2>8. CASE SenderEnvelope(t)
    BY <2>8, <1>b, SenderEnvelopeMoves DEF DeliveredFirst, Undecided
  <2>9. CASE SenderClaim(t)
    BY <2>9, <1>b, GoesKeeps, EndsKeeps, ClaimType DEF DeliveredFirst, Undecided,
      SenderClaim, ClaimExecution, Returns
  <2>10. CASE SenderSend(t)
    BY <2>10, <1>b, GoesKeeps, EndsKeeps DEF DeliveredFirst, Undecided, SenderSend
  <2>11. CASE SenderRecord(t)
    BY <2>11, <1>b, GoesKeeps, EndsKeeps, AdvanceType DEF DeliveredFirst,
      Undecided, SenderRecord, Executing, Returns, RunStates
  <2>12. CASE FailRun(t)
    BY <2>12, <1>b, GoesKeeps, EndsKeeps, AdvanceType DEF DeliveredFirst,
      Undecided, FailRun, Executing, RunStates
  <2>13. CASE MarkUnknown(t)
    BY <2>13, <1>b, GoesKeeps, EndsKeeps DEF DeliveredFirst, Undecided,
      MarkUnknown, Returns
  <2>14. CASE QuarantineRun(t)
    BY <2>14, <1>b, GoesKeeps, EndsKeeps, AdvanceType DEF DeliveredFirst,
      Undecided, QuarantineRun, RunStates
  <2>15. CASE QuarantineLog(t)
    BY <2>15, <1>b, GoesKeeps, EndsKeeps DEF DeliveredFirst, Undecided,
      QuarantineLog, Returns
  <2> QED
    BY <1>2, <2>1, <2>2, <2>3, <2>4, <2>5, <2>6, <2>7, <2>8, <2>9, <2>10, <2>11,
      <2>12, <2>13, <2>14, <2>15 DEF TaskStep, Quiet
<1>3. ASSUME NEW t \in Tasks, Quiet(t) PROVE DeliveredFirst'
  BY <1>3, <1>b, QuietMoves DEF DeliveredFirst, Undecided
<1>4. CASE PersistPlan
    BY <1>4, <1>b DEF DeliveredFirst, Undecided, PersistPlan, Delivers, Runs
<1>5. CASE PersistEvidence
    BY <1>5, <1>b, AdvanceType DEF DeliveredFirst, Undecided, PersistEvidence,
      Delivers, RunStates
<1>6. CASE DraftInGraph
    BY <1>6, <1>b, AdvanceType DEF DeliveredFirst, Undecided, DraftInGraph,
      Delivers, RunStates
<1>7. CASE FreezePayload
    BY <1>7, <1>b DEF DeliveredFirst, Undecided, FreezePayload, Delivers
<1>8. CASE BindCheckpoint
    BY <1>8, <1>b DEF DeliveredFirst, Undecided, BindCheckpoint, Delivers
<1>9. CASE SendCard
    BY <1>9, <1>b DEF DeliveredFirst, Undecided, SendCard, Delivers
<1>10. CASE RecordDelivery
    BY <1>10, <1>b DEF DeliveredFirst, Undecided, RecordDelivery, UpdateStatus,
      ReviewStatus, Delivers
<1>11. CASE DeliveryFails
    BY <1>11, <1>b DEF DeliveredFirst, Undecided, DeliveryFails, Delivers
<1>12. ASSUME NEW p \in Procs,
             StartDelivery(p) \/ Start(p) \/ RecoverLog(p)
             \/ RecoverScan(p) \/ RecoverRuns(p) \/ Crash(p)
      PROVE DeliveredFirst'
  <2>1. CASE StartDelivery(p)
    BY <2>1, <1>b DEF DeliveredFirst, Undecided, StartDelivery, Delivers
  <2>2. CASE Start(p)
    BY <2>2, <1>b DEF DeliveredFirst, Undecided, Start
  <2>3. CASE RecoverLog(p)
    BY <2>3, <1>b DEF DeliveredFirst, Undecided, RecoverLog
  <2>4. CASE RecoverScan(p)
    BY <2>4, <1>b DEF DeliveredFirst, Undecided, RecoverScan, Inconsistent
  <2>5. CASE RecoverRuns(p)
    BY <2>5, <1>b, AdvanceType DEF DeliveredFirst, Undecided, RecoverRuns,
      RunStates
  <2>6. CASE Crash(p)
    BY <2>6, <1>b DEF DeliveredFirst, Undecided, Crash, Delivers, Idle
  <2> QED
    BY <1>12, <2>1, <2>2, <2>3, <2>4, <2>5, <2>6
<1> QED
  BY <1>1, <1>2, <1>3, <1>4, <1>5, <1>6, <1>7, <1>8, <1>9, <1>10, <1>11, <1>12
    DEF Next, DeliveryStep, Quiet

\* The execution is claimed once.
LEMMA ClaimedStep ==
    TypeOK /\ Holding /\ DeliveredFirst /\ ClaimedOnce /\ [Next]_vars => ClaimedOnce'
<1> SUFFICES ASSUME TypeOK /\ Holding /\ DeliveredFirst /\ ClaimedOnce, [Next]_vars
             PROVE  ClaimedOnce'
  OBVIOUS
<1> USE DEF records, projections, processes, effects, Returns
<1>b. /\ task \in [Tasks -> Callbacks] /\ run \in Runs
      /\ run.state \in RunStates
      /\ delivery \in [pc : DeliveryStates, proc : Procs]
      /\ proc \in [Procs -> {"down", "recover_log", "recover_runs",
                             "recover_fix", "up"}]
      /\ found \in [Procs -> RunStates]
  BY DEF TypeOK, Runs
<1>1. CASE UNCHANGED vars
  BY <1>1, <1>b DEF ClaimedOnce, DeliveredFirst, vars
<1>2. ASSUME NEW t \in Tasks, TaskStep(t), ~Quiet(t) PROVE ClaimedOnce'
  <2>1. CASE ApproveCommit(t)
    BY <2>1, <1>b, GoesKeeps, EndsKeeps, AdvanceType DEF ClaimedOnce,
      DeliveredFirst, ApproveCommit, CommitApproval, ExactReplay, Pending,
      RunStates
  <2>2. CASE RejectCommit(t)
    BY <2>2, <1>b, GoesKeeps, EndsKeeps, AdvanceType DEF ClaimedOnce,
      DeliveredFirst, RejectCommit, Pending, RunStates
  <2>3. CASE SaveCommit(t)
    BY <2>3, <1>b, SaveCommitMoves, AdvanceType DEF ClaimedOnce, DeliveredFirst,
      RunStates
  <2>4. CASE SaveCall(t)
    BY <2>4, <1>b, GoesKeeps, EndsKeeps DEF ClaimedOnce, DeliveredFirst, SaveCall
  <2>5. CASE SaveRecord(t)
    BY <2>5, <1>b, GoesKeeps, EndsKeeps, AdvanceType DEF ClaimedOnce,
      DeliveredFirst, SaveRecord, EndSave, RunStates
  <2>6. CASE SaveFail(t)
    BY <2>6, <1>b, GoesKeeps, EndsKeeps, AdvanceType DEF ClaimedOnce,
      DeliveredFirst, SaveFail, EndSave, RunStates
  <2>7. CASE EditCommit(t)
    BY <2>7, <1>b, EditCommitMoves, EditCommitRun DEF ClaimedOnce, DeliveredFirst
  <2>8. CASE SenderEnvelope(t)
    BY <2>8, <1>b, SenderEnvelopeMoves DEF ClaimedOnce, DeliveredFirst
  <2>9. CASE SenderClaim(t)
    BY <2>9, <1>b, GoesKeeps, EndsKeeps, ClaimType DEF ClaimedOnce,
      DeliveredFirst, SenderClaim, ClaimExecution, Returns
  <2>10. CASE SenderSend(t)
    <3>1. task[t].pc = "send" /\ sends = <<>> /\ run.claimed
      BY <2>10 DEF SenderSend, ClaimedOnce
    <3>2. CASE UNCHANGED sends /\ Goes(t, "unsent")
      BY <1>b, <2>10, <3>1, <3>2, GoesKeeps DEF ClaimedOnce, SenderSend
    <3>3. CASE /\ sends' = Append(sends, task[t].base)
               /\ Goes(t, "record") \/ Goes(t, "unsent")
      <4>1. sends' # <<>> /\ Len(sends') = 1
        <5>1. sends' = <<task[t].base>>
          BY <3>1, <3>3
        <5> QED
          BY <5>1
      <4>2. \A u \in Tasks : task'[u].pc # "send"
        BY <1>b, <3>1, <3>3, GoesKeeps DEF ClaimedOnce
      <4> QED
        BY <1>b, <2>10, <3>1, <4>1, <4>2 DEF ClaimedOnce, SenderSend
    <3> QED
      BY <2>10, <3>2, <3>3 DEF SenderSend
  <2>11. CASE SenderRecord(t)
    BY <2>11, <1>b, GoesKeeps, EndsKeeps, AdvanceType DEF ClaimedOnce,
      DeliveredFirst, SenderRecord, Executing, Returns, RunStates
  <2>12. CASE FailRun(t)
    BY <2>12, <1>b, GoesKeeps, EndsKeeps, AdvanceType DEF ClaimedOnce,
      DeliveredFirst, FailRun, Executing, RunStates
  <2>13. CASE MarkUnknown(t)
    BY <2>13, <1>b, GoesKeeps, EndsKeeps DEF ClaimedOnce, DeliveredFirst,
      MarkUnknown, Returns
  <2>14. CASE QuarantineRun(t)
    BY <2>14, <1>b, GoesKeeps, EndsKeeps, AdvanceType DEF ClaimedOnce,
      DeliveredFirst, QuarantineRun, RunStates
  <2>15. CASE QuarantineLog(t)
    BY <2>15, <1>b, GoesKeeps, EndsKeeps DEF ClaimedOnce, DeliveredFirst,
      QuarantineLog, Returns
  <2> QED
    BY <1>2, <2>1, <2>2, <2>3, <2>4, <2>5, <2>6, <2>7, <2>8, <2>9, <2>10, <2>11,
      <2>12, <2>13, <2>14, <2>15 DEF TaskStep, Quiet
<1>3. ASSUME NEW t \in Tasks, Quiet(t) PROVE ClaimedOnce'
  BY <1>3, <1>b, QuietMoves DEF ClaimedOnce, DeliveredFirst
<1>4. CASE PersistPlan
    BY <1>4, <1>b DEF ClaimedOnce, DeliveredFirst, PersistPlan, Delivers, Runs
<1>5. CASE PersistEvidence
    BY <1>5, <1>b, AdvanceType DEF ClaimedOnce, DeliveredFirst, PersistEvidence,
      Delivers, RunStates
<1>6. CASE DraftInGraph
    BY <1>6, <1>b, AdvanceType DEF ClaimedOnce, DeliveredFirst, DraftInGraph,
      Delivers, RunStates
<1>7. CASE FreezePayload
    BY <1>7, <1>b DEF ClaimedOnce, DeliveredFirst, FreezePayload, Delivers
<1>8. CASE BindCheckpoint
    BY <1>8, <1>b DEF ClaimedOnce, DeliveredFirst, BindCheckpoint, Delivers
<1>9. CASE SendCard
    BY <1>9, <1>b DEF ClaimedOnce, DeliveredFirst, SendCard, Delivers
<1>10. CASE RecordDelivery
    BY <1>10, <1>b DEF ClaimedOnce, DeliveredFirst, RecordDelivery, UpdateStatus,
      ReviewStatus, Delivers
<1>11. CASE DeliveryFails
    BY <1>11, <1>b DEF ClaimedOnce, DeliveredFirst, DeliveryFails, Delivers
<1>12. ASSUME NEW p \in Procs,
             StartDelivery(p) \/ Start(p) \/ RecoverLog(p)
             \/ RecoverScan(p) \/ RecoverRuns(p) \/ Crash(p)
      PROVE ClaimedOnce'
  <2>1. CASE StartDelivery(p)
    BY <2>1, <1>b DEF ClaimedOnce, DeliveredFirst, StartDelivery, Delivers
  <2>2. CASE Start(p)
    BY <2>2, <1>b DEF ClaimedOnce, DeliveredFirst, Start
  <2>3. CASE RecoverLog(p)
    BY <2>3, <1>b DEF ClaimedOnce, DeliveredFirst, RecoverLog
  <2>4. CASE RecoverScan(p)
    BY <2>4, <1>b DEF ClaimedOnce, DeliveredFirst, RecoverScan, Inconsistent
  <2>5. CASE RecoverRuns(p)
    BY <2>5, <1>b, AdvanceType DEF ClaimedOnce, DeliveredFirst, RecoverRuns,
      RunStates
  <2>6. CASE Crash(p)
    BY <2>6, <1>b DEF ClaimedOnce, DeliveredFirst, Crash, Delivers, Idle
  <2> QED
    BY <1>12, <2>1, <2>2, <2>3, <2>4, <2>5, <2>6
<1> QED
  BY <1>1, <1>2, <1>3, <1>4, <1>5, <1>6, <1>7, <1>8, <1>9, <1>10, <1>11, <1>12
    DEF Next, DeliveryStep, Quiet

\* The payload is saved once, or claimed, never both.
LEMMA DraftedStep ==
    TypeOK /\ Holding /\ DeliveredFirst /\ ClaimedOnce /\ DraftedOnce /\ [Next]_vars
       => DraftedOnce'
<1> SUFFICES ASSUME TypeOK /\ Holding /\ DeliveredFirst /\ ClaimedOnce /\ DraftedOnce, [Next]_vars
             PROVE  DraftedOnce'
  OBVIOUS
<1> USE DEF records, projections, processes, effects, Returns
<1>b. /\ task \in [Tasks -> Callbacks] /\ run \in Runs
      /\ run.state \in RunStates
      /\ delivery \in [pc : DeliveryStates, proc : Procs]
      /\ proc \in [Procs -> {"down", "recover_log", "recover_runs",
                             "recover_fix", "up"}]
      /\ found \in [Procs -> RunStates]
  BY DEF TypeOK, Runs
<1>1. CASE UNCHANGED vars
  BY <1>1, <1>b DEF DraftedOnce, DraftStarted, DeliveredFirst, ClaimedOnce, vars
<1>2. ASSUME NEW t \in Tasks, TaskStep(t), ~Quiet(t) PROVE DraftedOnce'
  <2>1. CASE ApproveCommit(t)
    BY <2>1, <1>b, GoesKeeps, EndsKeeps, AdvanceType DEF DraftedOnce,
      DraftStarted, DeliveredFirst, ClaimedOnce, ApproveCommit,
      CommitApproval, ExactReplay, Pending, RunStates
  <2>2. CASE RejectCommit(t)
    BY <2>2, <1>b, GoesKeeps, EndsKeeps, AdvanceType DEF DraftedOnce,
      DraftStarted, DeliveredFirst, ClaimedOnce, RejectCommit, Pending,
      RunStates
  <2>3. CASE SaveCommit(t)
    BY <2>3, <1>b, SaveCommitMoves, AdvanceType DEF DraftedOnce, DraftStarted,
      DeliveredFirst, ClaimedOnce, RunStates
  <2>4. CASE SaveCall(t)
    <3>1. task[t].pc = "save_call" /\ drafts = <<>> /\ DraftStarted
      BY <2>4 DEF SaveCall, DraftedOnce, DraftStarted
    <3>2. CASE UNCHANGED drafts /\ Goes(t, "save_fail")
      BY <1>b, <2>4, <3>1, <3>2, GoesKeeps
      DEF DraftedOnce, DraftStarted, SaveCall
    <3>3. CASE /\ drafts' = Append(drafts, task[t].base)
               /\ Goes(t, "save_record") \/ Goes(t, "save_fail")
      <4>1. drafts' # <<>> /\ Len(drafts') = 1
        <5>1. drafts' = <<task[t].base>>
          BY <3>1, <3>3
        <5> QED
          BY <5>1
      <4>2. \A u \in Tasks : task'[u].pc # "save_call"
        BY <1>b, <3>1, <3>3, GoesKeeps DEF DraftedOnce
      <4> QED
        BY <1>b, <2>4, <3>1, <4>1, <4>2 DEF DraftedOnce, DraftStarted, SaveCall
    <3> QED
      BY <2>4, <3>2, <3>3 DEF SaveCall
  <2>5. CASE SaveRecord(t)
    BY <2>5, <1>b, GoesKeeps, EndsKeeps, AdvanceType DEF DraftedOnce,
      DraftStarted, DeliveredFirst, ClaimedOnce, SaveRecord, EndSave,
      RunStates
  <2>6. CASE SaveFail(t)
    BY <2>6, <1>b, GoesKeeps, EndsKeeps, AdvanceType DEF DraftedOnce,
      DraftStarted, DeliveredFirst, ClaimedOnce, SaveFail, EndSave, RunStates
  <2>7. CASE EditCommit(t)
    BY <2>7, <1>b, EditCommitMoves, EditCommitRun DEF DraftedOnce, DraftStarted,
      DeliveredFirst, ClaimedOnce
  <2>8. CASE SenderEnvelope(t)
    BY <2>8, <1>b, SenderEnvelopeMoves DEF DraftedOnce, DraftStarted,
      DeliveredFirst, ClaimedOnce
  <2>9. CASE SenderClaim(t)
    BY <2>9, <1>b, GoesKeeps, EndsKeeps, ClaimType DEF DraftedOnce, DraftStarted,
      DeliveredFirst, ClaimedOnce, SenderClaim, ClaimExecution, Returns
  <2>10. CASE SenderSend(t)
    BY <2>10, <1>b, GoesKeeps, EndsKeeps DEF DraftedOnce, DraftStarted,
      DeliveredFirst, ClaimedOnce, SenderSend
  <2>11. CASE SenderRecord(t)
    BY <2>11, <1>b, GoesKeeps, EndsKeeps, AdvanceType DEF DraftedOnce,
      DraftStarted, DeliveredFirst, ClaimedOnce, SenderRecord, Executing,
      Returns, RunStates
  <2>12. CASE FailRun(t)
    BY <2>12, <1>b, GoesKeeps, EndsKeeps, AdvanceType DEF DraftedOnce,
      DraftStarted, DeliveredFirst, ClaimedOnce, FailRun, Executing, RunStates
  <2>13. CASE MarkUnknown(t)
    BY <2>13, <1>b, GoesKeeps, EndsKeeps DEF DraftedOnce, DraftStarted,
      DeliveredFirst, ClaimedOnce, MarkUnknown, Returns
  <2>14. CASE QuarantineRun(t)
    BY <2>14, <1>b, GoesKeeps, EndsKeeps, AdvanceType DEF DraftedOnce,
      DraftStarted, DeliveredFirst, ClaimedOnce, QuarantineRun, RunStates
  <2>15. CASE QuarantineLog(t)
    BY <2>15, <1>b, GoesKeeps, EndsKeeps DEF DraftedOnce, DraftStarted,
      DeliveredFirst, ClaimedOnce, QuarantineLog, Returns
  <2> QED
    BY <1>2, <2>1, <2>2, <2>3, <2>4, <2>5, <2>6, <2>7, <2>8, <2>9, <2>10, <2>11,
      <2>12, <2>13, <2>14, <2>15 DEF TaskStep, Quiet
<1>3. ASSUME NEW t \in Tasks, Quiet(t) PROVE DraftedOnce'
  BY <1>3, <1>b, QuietMoves DEF DraftedOnce, DraftStarted, DeliveredFirst,
    ClaimedOnce
<1>4. CASE PersistPlan
    BY <1>4, <1>b DEF DraftedOnce, DraftStarted, DeliveredFirst, ClaimedOnce,
      PersistPlan, Delivers, Runs
<1>5. CASE PersistEvidence
    BY <1>5, <1>b, AdvanceType DEF DraftedOnce, DraftStarted, DeliveredFirst,
      ClaimedOnce, PersistEvidence, Delivers, RunStates
<1>6. CASE DraftInGraph
    BY <1>6, <1>b, AdvanceType DEF DraftedOnce, DraftStarted, DeliveredFirst,
      ClaimedOnce, DraftInGraph, Delivers, RunStates
<1>7. CASE FreezePayload
    BY <1>7, <1>b DEF DraftedOnce, DraftStarted, DeliveredFirst, ClaimedOnce,
      FreezePayload, Delivers
<1>8. CASE BindCheckpoint
    BY <1>8, <1>b DEF DraftedOnce, DraftStarted, DeliveredFirst, ClaimedOnce,
      BindCheckpoint, Delivers
<1>9. CASE SendCard
    BY <1>9, <1>b DEF DraftedOnce, DraftStarted, DeliveredFirst, ClaimedOnce,
      SendCard, Delivers
<1>10. CASE RecordDelivery
    BY <1>10, <1>b DEF DraftedOnce, DraftStarted, DeliveredFirst, ClaimedOnce,
      RecordDelivery, UpdateStatus, ReviewStatus, Delivers
<1>11. CASE DeliveryFails
    BY <1>11, <1>b DEF DraftedOnce, DraftStarted, DeliveredFirst, ClaimedOnce,
      DeliveryFails, Delivers
<1>12. ASSUME NEW p \in Procs,
             StartDelivery(p) \/ Start(p) \/ RecoverLog(p)
             \/ RecoverScan(p) \/ RecoverRuns(p) \/ Crash(p)
      PROVE DraftedOnce'
  <2>1. CASE StartDelivery(p)
    BY <2>1, <1>b DEF DraftedOnce, DraftStarted, DeliveredFirst, ClaimedOnce,
      StartDelivery, Delivers
  <2>2. CASE Start(p)
    BY <2>2, <1>b DEF DraftedOnce, DraftStarted, DeliveredFirst, ClaimedOnce,
      Start
  <2>3. CASE RecoverLog(p)
    BY <2>3, <1>b DEF DraftedOnce, DraftStarted, DeliveredFirst, ClaimedOnce,
      RecoverLog
  <2>4. CASE RecoverScan(p)
    BY <2>4, <1>b DEF DraftedOnce, DraftStarted, DeliveredFirst, ClaimedOnce,
      RecoverScan, Inconsistent
  <2>5. CASE RecoverRuns(p)
    BY <2>5, <1>b, AdvanceType DEF DraftedOnce, DraftStarted, DeliveredFirst,
      ClaimedOnce, RecoverRuns, RunStates
  <2>6. CASE Crash(p)
    BY <2>6, <1>b DEF DraftedOnce, DraftStarted, DeliveredFirst, ClaimedOnce,
      Crash, Delivers, Idle
  <2> QED
    BY <1>12, <2>1, <2>2, <2>3, <2>4, <2>5, <2>6
<1> QED
  BY <1>1, <1>2, <1>3, <1>4, <1>5, <1>6, <1>7, <1>8, <1>9, <1>10, <1>11, <1>12
    DEF Next, DeliveryStep, Quiet

\* Whatever is approved, carried, sent or saved is the current revision.
LEMMA ApprovedStep == HandoffInductive /\ [Next]_vars => ApprovedCurrent'
<1> SUFFICES ASSUME HandoffInductive, [Next]_vars PROVE ApprovedCurrent'
  OBVIOUS
<1> USE DEF records, projections, processes, effects, Returns,
        HandoffInductive
<1>b. /\ task \in [Tasks -> Callbacks] /\ run \in Runs
      /\ run.state \in RunStates
      /\ delivery \in [pc : DeliveryStates, proc : Procs]
      /\ proc \in [Procs -> {"down", "recover_log", "recover_runs",
                             "recover_fix", "up"}]
      /\ found \in [Procs -> RunStates]
  BY DEF TypeOK, Runs
<1>1. CASE UNCHANGED vars
  BY <1>1, <1>b DEF ApprovedCurrent, SentAsApproved, Undecided, vars
<1>2. ASSUME NEW t \in Tasks, TaskStep(t), ~Quiet(t) PROVE ApprovedCurrent'
  <2>1. CASE ApproveCommit(t)
    <3>0. run.state = "approval_pending" =>
             /\ envelopes = {} /\ sends = <<>> /\ drafts = <<>>
             /\ \A u \in Tasks : task[u].pc \notin {"claim", "send", "save_call"}
      BY DEF ApprovedCurrent, Undecided, ClaimedOnce, DraftedOnce, DraftStarted
    
    <3>1. CASE CommitApproval(t)
      <4>1. /\ run.state = "approval_pending" /\ run'.state = "approved"
            /\ run'.rev = run.rev /\ UNCHANGED <<payload, sends, drafts>>
        BY <1>b, <2>1, <3>1, AdvanceType
        DEF ApproveCommit, CommitApproval, Pending, RunStates
      <4>2. envelopes' = {[rev |-> run.rev, payload |-> payload[run.rev],
                           user |-> task[t].user]}
        BY <3>0, <3>1, <4>1 DEF CommitApproval
      <4>3. \A u \in Tasks : task'[u].pc \notin {"claim", "send", "save_call"}
        BY <1>b, <2>1, <3>0, <3>1, <4>1, GoesKeeps, EndsKeeps DEF ApproveCommit
      <4> QED
        BY <3>0, <4>1, <4>2, <4>3 DEF ApprovedCurrent, SentAsApproved, Undecided
    <3>2. CASE UNCHANGED records /\ (Goes(t, "approve_project") \/ Ends(t))
      BY <1>b, <2>1, <3>2, GoesKeeps, EndsKeeps
      DEF ApprovedCurrent, SentAsApproved, ApproveCommit
    <3> QED
      BY <2>1, <3>1, <3>2 DEF ApproveCommit
  <2>2. CASE RejectCommit(t)
    BY <2>2, <1>b, GoesKeeps, EndsKeeps, AdvanceType DEF ApprovedCurrent,
      SentAsApproved, Undecided, RejectCommit, Pending, RunStates
  <2>3. CASE SaveCommit(t)
    BY <2>3, <1>b, SaveCommitMoves, AdvanceType DEF ApprovedCurrent,
      SentAsApproved, Undecided, RunStates
  <2>4. CASE SaveCall(t)
    <3>1. drafts = <<>> /\ task[t].base = payload[run.rev]
      BY <2>4 DEF SaveCall, DraftedOnce, ApprovedCurrent
    <3>2. \A i \in DOMAIN drafts' : drafts'[i] = payload[run.rev]
      <4>1. drafts' = <<>> \/ drafts' = <<task[t].base>>
        BY <2>4, <3>1 DEF SaveCall
      <4> QED
        BY <3>1, <4>1
    <3>3. /\ \A u \in Tasks : u # t => task'[u] = task[u]
          /\ task'[t].pc \in {"save_record", "save_fail"}
      BY <1>b, <2>4, GoesKeeps DEF SaveCall
    <3> QED
      BY <2>4, <3>2, <3>3
      DEF ApprovedCurrent, SentAsApproved, SaveCall
  <2>5. CASE SaveRecord(t)
    BY <2>5, <1>b, GoesKeeps, EndsKeeps, AdvanceType DEF ApprovedCurrent,
      SentAsApproved, Undecided, SaveRecord, EndSave, RunStates
  <2>6. CASE SaveFail(t)
    BY <2>6, <1>b, GoesKeeps, EndsKeeps, AdvanceType DEF ApprovedCurrent,
      SentAsApproved, Undecided, SaveFail, EndSave, RunStates
  <2>7. CASE EditCommit(t)
    <3>0. run.state = "approval_pending" =>
             /\ envelopes = {} /\ sends = <<>> /\ drafts = <<>>
             /\ \A u \in Tasks : task[u].pc \notin {"claim", "send", "save_call"}
      BY DEF ApprovedCurrent, Undecided, ClaimedOnce, DraftedOnce, DraftStarted
    
    <3>1. CASE run' = run /\ UNCHANGED payload
      BY <1>b, <2>7, <3>1, EditCommitMoves
      DEF ApprovedCurrent, SentAsApproved
    <3>2. CASE run.state = "approval_pending"
      BY <1>b, <2>7, <3>0, <3>2, EditCommitMoves, EditCommitRun
      DEF ApprovedCurrent, SentAsApproved
    <3> QED
      BY <1>b, <2>7, <3>1, <3>2, EditCommitRun
  <2>8. CASE SenderEnvelope(t)
    BY <2>8, <1>b, SenderEnvelopeMoves DEF ApprovedCurrent, SentAsApproved,
      Undecided
  <2>9. CASE SenderClaim(t)
    BY <2>9, <1>b, GoesKeeps, EndsKeeps, ClaimType DEF ApprovedCurrent,
      SentAsApproved, Undecided, SenderClaim, ClaimExecution, Returns
  <2>10. CASE SenderSend(t)
    <3>1. /\ sends = <<>> /\ drafts = <<>>
          /\ \E e \in envelopes : task[t].base = e.payload
      BY <2>10 DEF SenderSend, ClaimedOnce, DraftedOnce, DraftStarted, ApprovedCurrent
    <3>2. \A i \in DOMAIN sends' : \E e \in envelopes : sends'[i] = e.payload
      <4>1. sends' = <<>> \/ sends' = <<task[t].base>>
        BY <2>10, <3>1 DEF SenderSend
      <4> QED
        BY <3>1, <4>1
    <3>3. /\ \A u \in Tasks : u # t => task'[u] = task[u]
          /\ task'[t].pc \in {"record", "unsent"}
      BY <1>b, <2>10, GoesKeeps DEF SenderSend
    <3> QED
      BY <2>10, <3>2, <3>3
      DEF ApprovedCurrent, SentAsApproved, SenderSend
  <2>11. CASE SenderRecord(t)
    BY <2>11, <1>b, GoesKeeps, EndsKeeps, AdvanceType DEF ApprovedCurrent,
      SentAsApproved, Undecided, SenderRecord, Executing, Returns, RunStates
  <2>12. CASE FailRun(t)
    BY <2>12, <1>b, GoesKeeps, EndsKeeps, AdvanceType DEF ApprovedCurrent,
      SentAsApproved, Undecided, FailRun, Executing, RunStates
  <2>13. CASE MarkUnknown(t)
    BY <2>13, <1>b, GoesKeeps, EndsKeeps DEF ApprovedCurrent, SentAsApproved,
      Undecided, MarkUnknown, Returns
  <2>14. CASE QuarantineRun(t)
    BY <2>14, <1>b, GoesKeeps, EndsKeeps, AdvanceType DEF ApprovedCurrent,
      SentAsApproved, Undecided, QuarantineRun, RunStates
  <2>15. CASE QuarantineLog(t)
    BY <2>15, <1>b, GoesKeeps, EndsKeeps DEF ApprovedCurrent, SentAsApproved,
      Undecided, QuarantineLog, Returns
  <2> QED
    BY <1>2, <2>1, <2>2, <2>3, <2>4, <2>5, <2>6, <2>7, <2>8, <2>9, <2>10, <2>11,
      <2>12, <2>13, <2>14, <2>15 DEF TaskStep, Quiet
<1>3. ASSUME NEW t \in Tasks, Quiet(t) PROVE ApprovedCurrent'
  BY <1>3, <1>b, QuietMoves DEF ApprovedCurrent, SentAsApproved, Undecided
<1>4. CASE PersistPlan
    BY <1>4, <1>b DEF ApprovedCurrent, SentAsApproved, Undecided, PersistPlan,
      Delivers, Runs
<1>5. CASE PersistEvidence
    BY <1>5, <1>b, AdvanceType DEF ApprovedCurrent, SentAsApproved, Undecided,
      PersistEvidence, Delivers, RunStates
<1>6. CASE DraftInGraph
    BY <1>6, <1>b, AdvanceType DEF ApprovedCurrent, SentAsApproved, Undecided,
      DraftInGraph, Delivers, RunStates
<1>7. CASE FreezePayload
  <2>0. run.state = "evidence_ready" =>
           /\ envelopes = {} /\ sends = <<>> /\ drafts = <<>>
           /\ \A u \in Tasks : task[u].pc \notin {"claim", "send", "save_call"}
    BY DEF ApprovedCurrent, Undecided, ClaimedOnce, DraftedOnce, DraftStarted
  
  <2>1. UNCHANGED <<envelopes, sends, drafts, task>>
        /\ run.state = "evidence_ready"
    BY <1>7 DEF FreezePayload
  <2> QED
    BY <2>0, <2>1 DEF ApprovedCurrent, SentAsApproved
<1>8. CASE BindCheckpoint
    BY <1>8, <1>b DEF ApprovedCurrent, SentAsApproved, Undecided, BindCheckpoint,
      Delivers
<1>9. CASE SendCard
    BY <1>9, <1>b DEF ApprovedCurrent, SentAsApproved, Undecided, SendCard,
      Delivers
<1>10. CASE RecordDelivery
    BY <1>10, <1>b DEF ApprovedCurrent, SentAsApproved, Undecided, RecordDelivery,
      UpdateStatus, ReviewStatus, Delivers
<1>11. CASE DeliveryFails
    BY <1>11, <1>b DEF ApprovedCurrent, SentAsApproved, Undecided, DeliveryFails,
      Delivers
<1>12. ASSUME NEW p \in Procs,
             StartDelivery(p) \/ Start(p) \/ RecoverLog(p)
             \/ RecoverScan(p) \/ RecoverRuns(p) \/ Crash(p)
      PROVE ApprovedCurrent'
  <2>1. CASE StartDelivery(p)
    BY <2>1, <1>b DEF ApprovedCurrent, SentAsApproved, Undecided, StartDelivery,
      Delivers
  <2>2. CASE Start(p)
    BY <2>2, <1>b DEF ApprovedCurrent, SentAsApproved, Undecided, Start
  <2>3. CASE RecoverLog(p)
    BY <2>3, <1>b DEF ApprovedCurrent, SentAsApproved, Undecided, RecoverLog
  <2>4. CASE RecoverScan(p)
    BY <2>4, <1>b DEF ApprovedCurrent, SentAsApproved, Undecided, RecoverScan,
      Inconsistent
  <2>5. CASE RecoverRuns(p)
    BY <2>5, <1>b, AdvanceType DEF ApprovedCurrent, SentAsApproved, Undecided,
      RecoverRuns, RunStates
  <2>6. CASE Crash(p)
    BY <2>6, <1>b DEF ApprovedCurrent, SentAsApproved, Undecided, Crash, Delivers,
      Idle
  <2> QED
    BY <1>12, <2>1, <2>2, <2>3, <2>4, <2>5, <2>6
<1> QED
  BY <1>1, <1>2, <1>3, <1>4, <1>5, <1>6, <1>7, <1>8, <1>9, <1>10, <1>11, <1>12
    DEF Next, DeliveryStep, Quiet

-----------------------------------------------------------------------------
\* Theorems.

\* The invariant holds before anything has happened.
LEMMA InitInductive == Init => HandoffInductive
<1> SUFFICES ASSUME Init PROVE HandoffInductive
  OBVIOUS
<1> USE DEF Init
<1>1. TypeOK
  BY IdleType, HandoffAssumption
  DEF TypeOK, Runs, RunStates, LogStatuses, Checkpoints, DeliveryStates, Payloads
<1>2. \A t \in Tasks : task[t].pc = "idle"
  BY DEF Idle
<1>3. Holding /\ DeliveredFirst
  BY <1>2 DEF Holding, DeliveredFirst, Undecided
<1>4. ClaimedOnce
  BY <1>2 DEF ClaimedOnce
<1>5. DraftedOnce
  BY <1>2 DEF DraftedOnce, DraftStarted
<1>6. ApprovedCurrent
  BY <1>2 DEF ApprovedCurrent, SentAsApproved
<1> QED
  BY <1>1, <1>3, <1>4, <1>5, <1>6 DEF HandoffInductive

\* Every step keeps the whole invariant.
LEMMA InductiveStep == HandoffInductive /\ [Next]_vars => HandoffInductive'
  BY TypeStep, HoldingStep, DeliveredStep, ClaimedStep, DraftedStep,
     ApprovedStep DEF HandoffInductive

\* The inductive invariant of the hand-off holds in every reachable state.
THEOREM HandoffInductiveHolds == Spec => []HandoffInductive
  BY InitInductive, InductiveStep, PTL DEF Spec

\* Every reachable state of a hand-off is well typed.
THEOREM HandoffTypeCorrect == Spec => []TypeOK
<1>1. HandoffInductive => TypeOK
  BY DEF HandoffInductive
<1> QED
  BY <1>1, HandoffInductiveHolds, PTL

\* The e-mail is sent or saved as a draft once at most, for any number of
\* processes, callbacks, revisions and approvers (claim_execution,
\* claim_payload_draft_save).
THEOREM OneOutcome == Spec => []OneExternalOutcome
<1>1. HandoffInductive => OneExternalOutcome
  <2> SUFFICES ASSUME HandoffInductive PROVE OneExternalOutcome
    OBVIOUS
  <2>1. Len(sends) \in Nat /\ Len(drafts) \in Nat
    BY DEF HandoffInductive, TypeOK
  <2>2. Len(sends) <= 1 /\ Len(drafts) <= 1
    BY DEF HandoffInductive, ClaimedOnce, DraftedOnce
  <2>3. sends = <<>> \/ drafts = <<>>
    BY DEF HandoffInductive, ClaimedOnce, DraftedOnce, DraftStarted
  <2>4. Len(<<>>) = 0
    OBVIOUS
  <2> QED
    BY <2>1, <2>2, <2>3, <2>4 DEF OneExternalOutcome
<1> QED
  BY <1>1, HandoffInductiveHolds, PTL

\* Only the approved revision is ever sent, and it stays the current one
\* (approve_payload_revision, create_payload_revision, send_final_email).
THEOREM ApprovedOnly == Spec => []SentAsApproved
<1>1. HandoffInductive => SentAsApproved
  BY DEF HandoffInductive, ApprovedCurrent
<1> QED
  BY <1>1, HandoffInductiveHolds, PTL

\* emails_log never claims what did not happen, nor forgets what did
\* (complete_execution, complete_payload_draft_save, start-up recovery).
THEOREM LogsTruthful == Spec => []LogTruthful
<1>1. HandoffInductive => LogTruthful
  BY DEF LogTruthful, HandoffInductive, ClaimedOnce, DraftedOnce, DraftStarted
<1> QED
  BY <1>1, HandoffInductiveHolds, PTL

\* Only an approval adds an envelope.
LEMMA ApproveOnly ==
    ASSUME Next, envelopes' # envelopes
    PROVE \E t \in Tasks : ApproveCommit(t)
<1> USE DEF records, projections, processes, effects
<1>1. ASSUME NEW t \in Tasks, TaskStep(t) PROVE ApproveCommit(t)
  BY <1>1 DEF TaskStep, LockAndRead, ApproveRead, ProjectApproval, RejectRead,
     RejectCommit, ProjectRejection, SaveRead, SaveCommit, SaveCall,
     SaveRecord, SaveFail, Hydrate, ReconcileDraft, ReconcileGraph, Render,
     EditRead, EditVersion, EditCommit, ProjectDraft, ProjectGraph, Resume,
     SenderRead, SenderEnvelope, SenderClaim, SenderSend, SenderRecord,
     FailRun, MarkUnknown, QuarantineRun, QuarantineLog
<1>2. ~DeliveryStep /\ ~DeliveryFails
  BY DEF DeliveryStep, PersistPlan, PersistEvidence, DraftInGraph,
     FreezePayload, BindCheckpoint, SendCard, RecordDelivery, DeliveryFails
<1>3. \A t \in Tasks : ~Click(t) /\ ~Cancel(t)
  BY DEF Click, ClickApprove, ClickReject, ClickSave, ClickEdit, Callback,
     Cancel
<1>4. \A p \in Procs :
         ~(\/ StartDelivery(p) \/ Start(p) \/ RecoverLog(p) \/ RecoverScan(p)
           \/ RecoverRuns(p) \/ Crash(p))
  BY DEF StartDelivery, Start, RecoverLog, RecoverScan, RecoverRuns, Crash
<1> QED
  BY <1>1, <1>2, <1>3, <1>4 DEF Next

\* Whoever approves, approves the text of the card that was clicked
\* (_process_approval_action, approve_payload_revision).
THEOREM ApprovalsAsShown == Spec => ApprovedAsShown
<1> DEFINE Shown ==
       \A e \in envelopes' \ envelopes :
          \E t \in Tasks : /\ task[t].pc = "approve_commit"
                           /\ task[t].user = e.user
                           /\ task[t].rev \in DOMAIN payload
                           /\ e.payload = payload[task[t].rev]
<1>1. HandoffInductive /\ [Next]_vars => [Shown]_vars
  <2> SUFFICES ASSUME HandoffInductive, Next, envelopes' # envelopes
               PROVE Shown
    BY DEF vars
  <2> USE DEF records, projections, processes, effects
  <2>1. PICK t \in Tasks : ApproveCommit(t)
    BY ApproveOnly
  <2>2. CommitApproval(t) /\ task[t].pc = "approve_commit"
    BY <2>1 DEF ApproveCommit
  <2>3. /\ envelopes' = envelopes \union
              {[rev |-> run.rev, payload |-> payload[run.rev],
                user |-> task[t].user]}
        /\ run.state = "approval_pending" /\ run.rev = task[t].rev
    BY <2>2 DEF CommitApproval, Pending
  <2>4. run.rev \in DOMAIN payload
    <3>1. /\ payload \in Seq(Payloads) /\ run.rev = Len(payload)
          /\ run.rev >= 1
      BY <2>3 DEF HandoffInductive, TypeOK, Holding
    <3> QED
      BY <3>1
  <2> QED
    BY <2>2, <2>3, <2>4
<1> QED
  BY <1>1, HandoffInductiveHolds, PTL DEF Spec, ApprovedAsShown
-----------------------------------------------------------------------------
\* Recovery.

\* A callback that goes on was not idle, and leaves the others and the
\* processes alone.
LEMMA TaskMoves ==
    ASSUME task \in [Tasks -> Callbacks], NEW t \in Tasks,
           TaskStep(t) \/ Cancel(t)
    PROVE /\ task[t].pc # "idle"
          /\ \A u \in Tasks : u # t => task'[u] = task[u]
          /\ UNCHANGED <<delivery, proc, found>>
<1> USE DEF records, projections, processes, effects, Returns
<1>1. CASE ApproveRead(t)
  <2>1. \A u \in Tasks : u # t => task'[u] = task[u]
    BY <1>1, ReadMoves
  <2> QED
    BY <1>1, <2>1 DEF ApproveRead, LockAndRead
<1>2. CASE ApproveCommit(t)
  BY <1>2, GoesKeeps, EndsKeeps DEF ApproveCommit
<1>3. CASE ProjectApproval(t)
  BY <1>3, GoesKeeps, EndsKeeps DEF ProjectApproval
<1>4. CASE RejectRead(t)
  <2>1. \A u \in Tasks : u # t => task'[u] = task[u]
    BY <1>4, ReadMoves
  <2> QED
    BY <1>4, <2>1 DEF RejectRead, LockAndRead
<1>5. CASE RejectCommit(t)
  BY <1>5, GoesKeeps, EndsKeeps DEF RejectCommit
<1>6. CASE ProjectRejection(t)
  BY <1>6, GoesKeeps DEF ProjectRejection
<1>7. CASE SaveRead(t)
  <2>1. \A u \in Tasks : u # t => task'[u] = task[u]
    BY <1>7, ReadMoves
  <2> QED
    BY <1>7, <2>1 DEF SaveRead, LockAndRead
<1>8. CASE SaveCommit(t)
  <2>1. \A u \in Tasks : u # t => task'[u] = task[u]
    BY <1>8, SaveCommitMoves
  <2> QED
    BY <1>8, <2>1 DEF SaveCommit
<1>9. CASE SaveCall(t)
  BY <1>9, GoesKeeps DEF SaveCall
<1>10. CASE SaveRecord(t)
  BY <1>10, GoesKeeps, EndsKeeps DEF SaveRecord
<1>11. CASE SaveFail(t)
  BY <1>11, EndsKeeps DEF SaveFail
<1>12. CASE Hydrate(t)
  <2>1. \A u \in Tasks : u # t => task'[u] = task[u]
    BY <1>12, HydrateMoves
  <2> QED
    BY <1>12, <2>1 DEF Hydrate
<1>13. CASE ReconcileDraft(t)
  BY <1>13, GoesKeeps DEF ReconcileDraft
<1>14. CASE ReconcileGraph(t)
  BY <1>14, GoesKeeps DEF ReconcileGraph
<1>15. CASE Render(t)
  BY <1>15, EndsKeeps DEF Render
<1>16. CASE EditRead(t)
  <2>1. \A u \in Tasks : u # t => task'[u] = task[u]
    BY <1>16, EditReadMoves
  <2> QED
    BY <1>16, <2>1 DEF EditRead
<1>17. CASE EditVersion(t)
  <2>1. \A u \in Tasks : u # t => task'[u] = task[u]
    BY <1>17, ReadMoves
  <2> QED
    BY <1>17, <2>1 DEF EditVersion
<1>18. CASE EditCommit(t)
  <2>1. \A u \in Tasks : u # t => task'[u] = task[u]
    BY <1>18, EditCommitMoves
  <2> QED
    BY <1>18, <2>1 DEF EditCommit
<1>19. CASE ProjectDraft(t)
  <2>1. \A u \in Tasks : u # t => task'[u] = task[u]
    BY <1>19, ProjectMoves
  <2> QED
    BY <1>19, <2>1 DEF ProjectDraft
<1>20. CASE ProjectGraph(t)
  <2>1. \A u \in Tasks : u # t => task'[u] = task[u]
    BY <1>20, ProjectMoves
  <2> QED
    BY <1>20, <2>1 DEF ProjectGraph
<1>21. CASE Resume(t)
  BY <1>21, GoesKeeps, EndsKeeps DEF Resume
<1>22. CASE SenderRead(t)
  <2>1. \A u \in Tasks : u # t => task'[u] = task[u]
    BY <1>22, SenderReadMoves
  <2> QED
    BY <1>22, <2>1 DEF SenderRead
<1>23. CASE SenderEnvelope(t)
  <2>1. /\ \A u \in Tasks : u # t => task'[u] = task[u]
        /\ UNCHANGED <<delivery, proc, found>>
    BY <1>23, SenderEnvelopeMoves
  <2>2. task[t].pc = "envelope"
    BY <1>23, Zenon DEF SenderEnvelope
  <2> QED
    BY <2>1, <2>2
<1>24. CASE SenderClaim(t)
  BY <1>24, GoesKeeps, EndsKeeps DEF SenderClaim
<1>25. CASE SenderSend(t)
  BY <1>25, GoesKeeps DEF SenderSend
<1>26. CASE SenderRecord(t)
  BY <1>26, GoesKeeps, EndsKeeps DEF SenderRecord
<1>27. CASE FailRun(t)
  BY <1>27, GoesKeeps DEF FailRun
<1>28. CASE MarkUnknown(t)
  BY <1>28, EndsKeeps DEF MarkUnknown
<1>29. CASE QuarantineRun(t)
  BY <1>29, GoesKeeps DEF QuarantineRun
<1>30. CASE QuarantineLog(t)
  BY <1>30, EndsKeeps DEF QuarantineLog
<1>31. CASE Cancel(t)
  BY <1>31, GoesKeeps, EndsKeeps DEF Cancel
<1> QED
  BY <1>1, <1>2, <1>3, <1>4, <1>5, <1>6, <1>7, <1>8, <1>9, <1>10, <1>11, <1>12,
     <1>13, <1>14, <1>15, <1>16, <1>17, <1>18, <1>19, <1>20, <1>21, <1>22,
     <1>23, <1>24, <1>25, <1>26, <1>27, <1>28, <1>29, <1>30, <1>31 DEF TaskStep

\* A click needs a process that is up.
LEMMA ClickNeeds ==
    ASSUME NEW t \in Tasks, Click(t)
    PROVE  proc[ProcOf[t]] = "up"
<1>1. ASSUME NEW r, NEW pc, NEW u, Callback(t, r, pc, u)
      PROVE  proc[ProcOf[t]] = "up"
  BY <1>1 DEF Callback
<1>2. ASSUME NEW r, NEW c, ClickEdit(t, r, c)
      PROVE  proc[ProcOf[t]] = "up"
  BY <1>2 DEF ClickEdit
<1>3. ASSUME NEW r \in cards, NEW u \in Users, ClickApprove(t, r, u)
      PROVE  proc[ProcOf[t]] = "up"
  BY <1>1, <1>3 DEF ClickApprove
<1>4. ASSUME NEW r \in cards, ClickReject(t, r) \/ ClickSave(t, r)
      PROVE  proc[ProcOf[t]] = "up"
  BY <1>1, <1>4 DEF ClickReject, ClickSave
<1> QED
  BY <1>2, <1>3, <1>4 DEF Click

\* The steps of an attempt leave callbacks and processes alone.
LEMMA AttemptMoves ==
    ASSUME DeliveryStep \/ DeliveryFails
    PROVE  UNCHANGED <<task, proc, found, envelopes, sends, drafts>>
  BY DEF DeliveryStep, DeliveryFails, PersistPlan, PersistEvidence,
     DraftInGraph, FreezePayload, BindCheckpoint, SendCard, RecordDelivery,
     records, projections, processes, effects

\* Callbacks live in processes that are up: a crash takes its callbacks along.
LEMMA HostedStep == TypeOK /\ Hosted /\ [Next]_vars => Hosted'
<1> SUFFICES ASSUME TypeOK, Hosted, [Next]_vars PROVE Hosted'
  OBVIOUS
<1> USE DEF Hosted
<1>a. /\ task \in [Tasks -> Callbacks] /\ ProcOf \in [Tasks -> Procs]
      /\ proc \in [Procs -> {"down", "recover_log", "recover_runs",
                             "recover_fix", "up"}]
  BY HandoffAssumption DEF TypeOK
<1>1. CASE UNCHANGED vars
  BY <1>1 DEF vars
<1>2. ASSUME NEW t \in Tasks, TaskStep(t) \/ Cancel(t) PROVE Hosted'
  BY <1>2, <1>a, TaskMoves
<1>3. ASSUME NEW t \in Tasks, Click(t) PROVE Hosted'
  BY <1>3, <1>a, ClickMoves, ClickNeeds DEF processes
<1>4. CASE DeliveryStep \/ DeliveryFails
  BY <1>4, AttemptMoves
<1>5. ASSUME NEW p \in Procs,
             StartDelivery(p) \/ Start(p) \/ RecoverLog(p)
             \/ RecoverScan(p) \/ RecoverRuns(p)
      PROVE Hosted'
  BY <1>5, <1>a DEF StartDelivery, Start, RecoverLog, RecoverScan, RecoverRuns,
     processes
<1>6. ASSUME NEW p \in Procs, Crash(p) PROVE Hosted'
  BY <1>6, <1>a DEF Crash, Idle
<1> QED
  BY <1>1, <1>2, <1>3, <1>4, <1>5, <1>6 DEF Next
\* Rejected, saved and sent stand in run and e-mail alike after every step: no
\* callback, attempt or recovery writes one of them alone.
LEMMA EndTogetherStep ==
    HandoffInductive /\ EndTogether /\ [Next]_vars => EndTogether'
<1> SUFFICES ASSUME HandoffInductive, EndTogether, [Next]_vars
             PROVE  EndTogether'
  OBVIOUS
<1> USE DEF records, projections, processes, effects, Returns, EndTogether
<1>b. /\ task \in [Tasks -> Callbacks] /\ run \in Runs
      /\ run.state \in RunStates
      /\ delivery \in [pc : DeliveryStates, proc : Procs]
      /\ Holding
      /\ found \in [Procs -> RunStates]
  BY DEF HandoffInductive, TypeOK, Runs
<1>d. /\ delivery.pc # "done" => log = "processing"
      /\ log = "processing" =>
            /\ run.state \in Undecided \union {"manual_review"}
            /\ \A p \in Procs : proc[p] # "recover_fix"
  BY DEF HandoffInductive, DeliveredFirst
<1>1. CASE UNCHANGED vars
  BY <1>1 DEF vars
<1>2. ASSUME NEW t \in Tasks, TaskStep(t), ~Quiet(t) PROVE EndTogether'
  <2>1. CASE ApproveCommit(t)
    BY <2>1, <1>b, AdvanceType
    DEF ApproveCommit, CommitApproval, Pending, RunStates
  <2>2. CASE RejectCommit(t)
    BY <2>2, <1>b, AdvanceType DEF RejectCommit, Pending, RunStates
  <2>3. CASE SaveCommit(t)
    BY <2>3, <1>b, SaveCommitMoves, AdvanceType DEF RunStates
  <2>4. CASE SaveCall(t)
    BY <2>4 DEF SaveCall
  <2>5. CASE SaveRecord(t)
    BY <2>5, <1>b, AdvanceType DEF SaveRecord, EndSave, RunStates
  <2>6. CASE SaveFail(t)
    BY <2>6, <1>b, AdvanceType DEF SaveFail, EndSave, RunStates
  <2>7. CASE EditCommit(t)
    BY <2>7, <1>b, EditCommitMoves, EditCommitRun
  <2>8. CASE SenderEnvelope(t)
    BY <2>8, <1>b, SenderEnvelopeMoves
  <2>9. CASE SenderClaim(t)
    BY <2>9, <1>b, ClaimType DEF SenderClaim, ClaimExecution
  <2>10. CASE SenderSend(t)
    BY <2>10 DEF SenderSend
  <2>11. CASE SenderRecord(t)
    BY <2>11, <1>b, AdvanceType DEF SenderRecord, Executing, RunStates
  <2>12. CASE FailRun(t)
    BY <2>12, <1>b, AdvanceType DEF FailRun, Executing, RunStates
  <2>13. CASE MarkUnknown(t)
    BY <2>13 DEF MarkUnknown
  <2>14. CASE QuarantineRun(t)
    BY <2>14, <1>b, AdvanceType DEF QuarantineRun, RunStates
  <2>15. CASE QuarantineLog(t)
    BY <2>15 DEF QuarantineLog
  <2> QED
    BY <1>2, <2>1, <2>2, <2>3, <2>4, <2>5, <2>6, <2>7, <2>8, <2>9, <2>10,
       <2>11, <2>12, <2>13, <2>14, <2>15 DEF TaskStep, Quiet
<1>3. ASSUME NEW t \in Tasks, Quiet(t) PROVE EndTogether'
  BY <1>3, <1>b, QuietMoves
<1>4. CASE PersistPlan
  BY <1>4, <1>b, <1>d DEF PersistPlan, Delivers, Runs
<1>5. CASE PersistEvidence
  BY <1>5, <1>b, <1>d, AdvanceType DEF PersistEvidence, Delivers, RunStates
<1>6. CASE DraftInGraph
  BY <1>6, <1>b, <1>d, AdvanceType DEF DraftInGraph, Delivers, RunStates,
     Undecided
<1>7. CASE FreezePayload
  BY <1>7, <1>b, <1>d DEF FreezePayload, Delivers, Runs
<1>8. CASE BindCheckpoint
  BY <1>8, <1>b DEF BindCheckpoint, Delivers
<1>9. CASE SendCard
  BY <1>9, <1>b DEF SendCard, Delivers
<1>10. CASE RecordDelivery
  BY <1>10, <1>b, <1>d DEF RecordDelivery, UpdateStatus, ReviewStatus, Delivers,
     Undecided
<1>11. CASE DeliveryFails
  BY <1>11, <1>b DEF DeliveryFails, Delivers
<1>12. ASSUME NEW p \in Procs,
             StartDelivery(p) \/ Start(p) \/ RecoverLog(p)
             \/ RecoverScan(p) \/ RecoverRuns(p) \/ Crash(p)
      PROVE EndTogether'
  <2>1. CASE StartDelivery(p)
    BY <2>1, <1>b DEF StartDelivery
  <2>2. CASE Start(p) \/ RecoverScan(p)
    BY <2>2 DEF Start, RecoverScan
  <2>3. CASE RecoverLog(p)
    BY <2>3 DEF RecoverLog
  <2>4. CASE RecoverRuns(p)
    BY <2>4, <1>b, AdvanceType DEF RecoverRuns, RunStates
  <2>5. CASE Crash(p)
    BY <2>5, <1>b DEF Crash, Delivers
  <2> QED
    BY <1>12, <2>1, <2>2, <2>3, <2>4, <2>5
<1> QED
  BY <1>1, <1>2, <1>3, <1>4, <1>5, <1>6, <1>7, <1>8, <1>9, <1>10, <1>11, <1>12
  DEF Next, DeliveryStep, Quiet
\* A callback that runs while one process is alone runs in that process: no
\* recovery is under way.
LEMMA AloneRuns ==
    ASSUME TypeOK, Hosted, Undisturbed, ~overlap,
           NEW t \in Tasks, proc[ProcOf[t]] = "up"
    PROVE  \A p \in Procs : proc[p] \in {"down", "up"}
<1>1. ProcOf[t] \in Procs
  BY HandoffAssumption
<1> QED
  BY <1>1 DEF Undisturbed

\* A step of a callback keeps a claimed send visible.
LEMMA ClaimStaysSeen ==
    ASSUME HandoffInductive, NEW t \in Tasks, Click(t) \/ TaskStep(t) \/ Cancel(t),
           run.claimed => log \in {"sending", "sent", "send_unknown"}
    PROVE  run'.claimed => log' \in {"sending", "sent", "send_unknown"}
<1> USE DEF records, projections, processes, effects, Returns
<1>b. /\ task \in [Tasks -> Callbacks] /\ run \in Runs
      /\ run.state \in RunStates
      /\ Holding
  BY DEF HandoffInductive, TypeOK, Runs
<1>1. CASE ApproveCommit(t)
  BY <1>1, <1>b, AdvanceType
  DEF ApproveCommit, CommitApproval, Pending, RunStates
<1>2. CASE RejectCommit(t)
  BY <1>2, <1>b, AdvanceType DEF RejectCommit, Pending, RunStates
<1>3. CASE SaveCommit(t)
  BY <1>3, <1>b, SaveCommitMoves, AdvanceType DEF RunStates
<1>4. CASE SaveCall(t) \/ SenderSend(t)
  BY <1>4 DEF SaveCall, SenderSend
<1>5. CASE SaveRecord(t)
  BY <1>5, <1>b, AdvanceType DEF SaveRecord, EndSave, RunStates
<1>6. CASE SaveFail(t)
  BY <1>6, <1>b, AdvanceType DEF SaveFail, EndSave, RunStates
<1>7. CASE EditCommit(t)
  BY <1>7, <1>b, EditCommitMoves, EditCommitRun
<1>8. CASE SenderEnvelope(t)
  BY <1>8, <1>b, SenderEnvelopeMoves
<1>9. CASE SenderClaim(t)
  BY <1>9, <1>b, ClaimType DEF SenderClaim, ClaimExecution
<1>10. CASE SenderRecord(t)
  BY <1>10, <1>b, AdvanceType DEF SenderRecord, Executing, RunStates
<1>11. CASE FailRun(t)
  BY <1>11, <1>b, AdvanceType DEF FailRun, Executing, RunStates
<1>12. CASE MarkUnknown(t)
  BY <1>12 DEF MarkUnknown
<1>13. CASE QuarantineRun(t)
  BY <1>13, <1>b, AdvanceType DEF QuarantineRun, RunStates
<1>14. CASE QuarantineLog(t)
  BY <1>14 DEF QuarantineLog
<1>15. CASE Quiet(t)
  BY <1>15, <1>b, QuietMoves
<1> QED
  BY <1>1, <1>2, <1>3, <1>4, <1>5, <1>6, <1>7, <1>8, <1>9, <1>10, <1>11, <1>12,
     <1>13, <1>14, <1>15 DEF TaskStep, Quiet

\* An attempt writes the e-mail only before anything is claimed or decided.
LEMMA AttemptIsEarly ==
    ASSUME HandoffInductive, DeliveryStep \/ DeliveryFails
    PROVE  /\ run'.claimed => run.claimed
           /\ run.claimed => UNCHANGED log
           /\ log' \in {log, "waiting_approval", "delivery_failed", "manual_review"}
           /\ log = "approved" => run' = run
<1> USE DEF records, projections, processes, effects
<1>b. run \in Runs /\ run.state \in RunStates
  BY DEF HandoffInductive, TypeOK, Runs
<1>d. /\ delivery.pc # "done" => log = "processing"
      /\ log = "processing" => run.state \in Undecided \union {"manual_review"}
      /\ run.claimed => log \in {"sending", "sent", "send_unknown", "manual_review"}
  BY DEF HandoffInductive, DeliveredFirst, ClaimedOnce
<1>1. CASE PersistPlan
  BY <1>1, <1>b, <1>d DEF PersistPlan, Runs
<1>2. CASE PersistEvidence
  BY <1>2, <1>b, <1>d, AdvanceType DEF PersistEvidence, RunStates
<1>3. CASE DraftInGraph
  BY <1>3, <1>b, <1>d, AdvanceType DEF DraftInGraph, RunStates
<1>4. CASE FreezePayload
  BY <1>4, <1>b, <1>d DEF FreezePayload, Runs
<1>5. CASE BindCheckpoint \/ SendCard \/ DeliveryFails
  BY <1>5 DEF BindCheckpoint, SendCard, DeliveryFails
<1>6. CASE RecordDelivery
  BY <1>6, <1>d DEF RecordDelivery, UpdateStatus, ReviewStatus
<1> QED
  BY <1>1, <1>2, <1>3, <1>4, <1>5, <1>6 DEF DeliveryStep

\* While one process runs at a time, nothing disturbs its recovery.
LEMMA UndisturbedStep ==
    RecoveryInductive /\ [MCNext]_mcVars => Undisturbed'
<1> SUFFICES ASSUME RecoveryInductive, [MCNext]_mcVars PROVE Undisturbed'
  OBVIOUS
<1>1. CASE UNCHANGED mcVars
  BY <1>1 DEF RecoveryInductive, Undisturbed, mcVars, vars
<1> SUFFICES ASSUME Next, overlap' = overlap, Within', ~overlap
             PROVE  Undisturbed'
  BY <1>1 DEF MCNext, Undisturbed
<1> USE DEF records, projections, processes, effects
<1>a. HandoffInductive /\ Hosted /\ Undisturbed
  BY DEF RecoveryInductive
<1>b. /\ run \in Runs /\ run.state \in RunStates
      /\ proc \in [Procs -> {"down", "recover_log", "recover_runs",
                             "recover_fix", "up"}]
      /\ found \in [Procs -> RunStates]
      /\ task \in [Tasks -> Callbacks] /\ TypeOK
  BY <1>a DEF HandoffInductive, TypeOK, Runs
<1>c. \A p \in Procs \ {p1} : proc'[p] = "down"
  BY DEF Within
<1>d. /\ run.claimed => log \in {"sending", "sent", "send_unknown"}
      /\ run.claimed => run.state \in {"executing", "completed", "failed",
                                       "manual_review"}
      /\ log \in {"sending", "sent", "send_unknown"} => run.claimed
  BY <1>a DEF Undisturbed, HandoffInductive, ClaimedOnce
<1>2. ASSUME NEW t \in Tasks, Click(t) \/ TaskStep(t) \/ Cancel(t)
      PROVE  Undisturbed'
  <2>1. proc[ProcOf[t]] = "up" /\ UNCHANGED <<proc, found>>
    BY <1>2, <1>a, <1>b, ClickNeeds, ClickMoves, TaskMoves DEF Hosted
  <2>2. \A p \in Procs : proc'[p] \in {"down", "up"}
    BY <1>a, <1>b, <2>1, AloneRuns
  <2>3. run'.claimed => log' \in {"sending", "sent", "send_unknown"}
    BY <1>2, <1>a, <1>d, ClaimStaysSeen
  <2> QED
    BY <1>c, <2>2, <2>3 DEF Undisturbed
<1>3. CASE DeliveryStep \/ DeliveryFails
  BY <1>3, <1>a, <1>c, AttemptMoves, AttemptIsEarly DEF Undisturbed
<1>4. ASSUME NEW p \in Procs, StartDelivery(p) \/ Start(p) PROVE Undisturbed'
  BY <1>4, <1>a, <1>b, <1>c DEF StartDelivery, Start, Undisturbed
<1>5. ASSUME NEW p \in Procs, RecoverLog(p) PROVE Undisturbed'
  BY <1>5, <1>a, <1>b, <1>c, <1>d DEF RecoverLog, Undisturbed
<1>6. ASSUME NEW p \in Procs, RecoverScan(p) PROVE Undisturbed'
  BY <1>6, <1>a, <1>b, <1>c, <1>d DEF RecoverScan, Inconsistent, Undisturbed
<1>7. ASSUME NEW p \in Procs, RecoverRuns(p) PROVE Undisturbed'
  BY <1>7, <1>a, <1>b, <1>c, <1>d, AdvanceType
  DEF RecoverRuns, RunStates, Undisturbed
<1>8. ASSUME NEW p \in Procs, Crash(p) PROVE Undisturbed'
  BY <1>8, <1>a, <1>b, <1>c DEF Crash, Undisturbed
<1> QED
  BY <1>2, <1>3, <1>4, <1>5, <1>6, <1>7, <1>8 DEF Next
\* The invariant of recovery holds at first,
LEMMA RecoveryInit == MCInit => RecoveryInductive
<1> SUFFICES ASSUME MCInit PROVE RecoveryInductive
  OBVIOUS
<1>1. Init /\ HandoffInductive
  BY InitInductive DEF MCInit
<1>2. EndTogether /\ Undisturbed
  BY <1>1 DEF Init, EndTogether, Undisturbed
<1>3. Hosted
  BY <1>1 DEF Init, Hosted, Idle
<1> QED
  BY <1>1, <1>2, <1>3 DEF RecoveryInductive

\* and after every step.
LEMMA RecoveryStep == RecoveryInductive /\ [MCNext]_mcVars => RecoveryInductive'
<1> SUFFICES ASSUME RecoveryInductive, [MCNext]_mcVars PROVE RecoveryInductive'
  OBVIOUS
<1>1. [Next]_vars
  BY DEF MCNext, mcVars
<1>2. HandoffInductive /\ TypeOK /\ EndTogether /\ Hosted
  BY DEF RecoveryInductive, HandoffInductive
<1> QED
  BY <1>1, <1>2, InductiveStep, EndTogetherStep, HostedStep, UndisturbedStep
  DEF RecoveryInductive

\* What one process at a time keeps in step holds in every reachable state.
THEOREM RecoveryInductiveHolds == MCSpec => []RecoveryInductive
  BY RecoveryInit, RecoveryStep, PTL DEF MCSpec

\* However often the process dies and recovers, a send that was started stays
\* visible as one: emails_log never falls back to manual_review
\* (compare_and_set_send_unknown, recover_incomplete_approval_states,
\* recover_durable_handoff_states).
THEOREM SendsStayVisible == MCSpec => []RememberedAlone
<1>1. RecoveryInductive => RememberedAlone
  BY DEF RecoveryInductive, HandoffInductive, ClaimedOnce, Undisturbed,
     RememberedAlone, SendRemembered
<1> QED
  BY <1>1, RecoveryInductiveHolds, PTL

\* A process that was alone while it recovered serves with run and e-mail in
\* step and nothing in the middle of an external call
\* (recover_incomplete_approval_states, recover_durable_handoff_states).
THEOREM RecoveryIsConsistent == MCSpec => RecoveredConsistent
<1>1. RecoveryInductive /\ [MCNext]_mcVars
         => [~overlap => RecoversConsistent]_mcVars
  <2> SUFFICES ASSUME RecoveryInductive, MCNext, ~overlap,
                      NEW p \in Procs, proc[p] # "up", proc'[p] = "up"
               PROVE  /\ run'.state \notin {"executing", "draft_saving"}
                      /\ log' \notin {"sending", "saving_draft"}
                      /\ \A s \in {"approved", "rejected", "draft_saved"} :
                            run'.state = s <=> log' = s
                      /\ run'.state = "completed" <=> log' = "sent"
    BY DEF RecoversConsistent
  <2> USE DEF records, projections, processes, effects
  <2>b. /\ run \in Runs /\ run.state \in RunStates
        /\ proc \in [Procs -> {"down", "recover_log", "recover_runs",
                               "recover_fix", "up"}]
        /\ task \in [Tasks -> Callbacks]
    BY DEF RecoveryInductive, HandoffInductive, TypeOK, Runs
  <2>1. RecoverScan(p) \/ RecoverRuns(p)
    <3>1. Next
      BY DEF MCNext
    <3>2. ASSUME NEW t \in Tasks, Click(t) \/ TaskStep(t) \/ Cancel(t)
          PROVE  UNCHANGED proc
      BY <2>b, <3>2, ClickMoves, TaskMoves
    <3>3. DeliveryStep \/ DeliveryFails => UNCHANGED proc
      BY AttemptMoves
    <3>4. ASSUME NEW q \in Procs,
                 StartDelivery(q) \/ Start(q) \/ RecoverLog(q) \/ Crash(q)
          PROVE  proc'[p] = "up" => proc[p] = "up"
      BY <2>b, <3>4 DEF StartDelivery, Start, RecoverLog, Crash
    <3>5. ASSUME NEW q \in Procs, RecoverScan(q) \/ RecoverRuns(q)
          PROVE  q = p
      BY <2>b, <3>5 DEF RecoverScan, RecoverRuns
    <3> QED
      BY <3>1, <3>2, <3>3, <3>4, <3>5 DEF Next
  <2>2. CASE RecoverScan(p)
    <3>1. /\ proc[p] = "recover_runs" /\ UNCHANGED <<run, log>>
          /\ run.state = "absent" \/ ~Inconsistent
      BY <2>2, <2>b DEF RecoverScan
    <3>2. /\ log \notin {"sending", "saving_draft"}
          /\ log = "approved" => run.state = "approved"
      BY <3>1 DEF RecoveryInductive, Undisturbed
    <3>3. /\ \A s \in {"rejected", "draft_saved"} : run.state = s <=> log = s
          /\ run.state = "completed" <=> log = "sent"
      BY DEF RecoveryInductive, EndTogether
    <3>4. run.state = "absent" => log = "processing"
      BY DEF RecoveryInductive, EndTogether, HandoffInductive, DeliveredFirst
    <3> QED
      BY <3>1, <3>2, <3>3, <3>4 DEF Inconsistent
  <2>3. CASE RecoverRuns(p)
    BY <2>3, <2>b, AdvanceType DEF RecoverRuns, RunStates
  <2> QED
    BY <2>1, <2>2, <2>3
<1> QED
  BY <1>1, RecoveryInductiveHolds, PTL DEF MCSpec, RecoveredConsistent
=============================================================================
