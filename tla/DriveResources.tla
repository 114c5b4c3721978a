--------------------------- MODULE DriveResources ---------------------------
(***************************************************************************)
(* The Feishu Drive files of one e-mail.  The worker's AI path renders the *)
(* review PDF, uploads it with the business attachments and shows them on a *)
(* card; card actions replace the PDF (view original) or delete the files  *)
(* (mark read, save draft, resume).  The e-mail's graph checkpoint is the  *)
(* only book of what was uploaded: pdf_token is the active PDF,            *)
(* attachment_tokens the files that a cleanup may delete.  Every use of the *)
(* book holds the e-mail's resource lock; reads and writes of it may fail, *)
(* a failed write may have been applied, and a failed deletion may have    *)
(* happened.  The inbox lets one attempt per e-mail have effects           *)
(* (DurableInbox!EffectOnce), so there is one delivery.                    *)
(***************************************************************************)
EXTENDS Naturals, FiniteSets

CONSTANTS
    Replies,    \* clicks on "view original as PDF"
    Cleanups,   \* clicks whose task deletes the e-mail's files
    MaxTokens,  \* MAX_TOKENS: the capacity of attachment_tokens
    MaxFiles    \* bound on the uploads of a behaviour

\* What the model assumes of its constants.
DriveAssumption ==
    /\ MaxTokens \in Nat \ {0} /\ MaxFiles \in Nat
    /\ {"worker", "free"} \cap (Replies \cup Cleanups) = {}
    /\ Replies \cap Cleanups = {}

VARIABLES
    drive,      \* the files stored in Feishu Drive
    uploads,    \* number of files uploaded so far; the next token
    pdf,        \* graph state: pdf_token
    handles,    \* graph state: attachment_tokens
    lock,       \* holder of the e-mail's resource lock
    shown,      \* the PDF of the last card or reply, as far as it is known
    mail,       \* the kind of the e-mail's card, its outcome, and read on Exchange
    task,       \* the worker, the replies and the cleanups
    cleaned,    \* history: files a cleanup asked the Drive to delete
    abandoned   \* history: files whose last handle ended in an error or a crash

vars == <<drive, uploads, pdf, handles, lock, shown, mail, task, cleaned,
          abandoned>>
book == <<pdf, handles>>
store == <<drive, uploads>>
history == <<cleaned, abandoned>>

Worker == "worker"
Tasks == {Worker} \cup Replies \cup Cleanups
Free == "free"
NoFile == 0
Files == 1 .. MaxFiles
Kinds == {"none", "approval", "read_only", "manual_review", "no_action"}
Outcomes == {"none", "confirmed", "known_failure", "unknown", "raised",
             "processed"}
Pcs == {"idle", "snapshot", "checkpoint", "pipeline", "attach", "retain",
        "drop", "delete", "remove", "generate", "stage", "send", "record",
        "retire", "finish", "queued", "reply", "restore", "tidy", "forget",
        "sweep", "update", "done"}

IdleTask == [pc |-> "idle", new |-> NoFile, old |-> NoFile, pdf |-> NoFile,
             handles |-> {}, todo |-> {}, kept |-> {}, gone |-> {}, ctx |-> "none"]

TaskStates ==
    [pc : Pcs, new : Files \cup {NoFile}, old : Files \cup {NoFile},
     pdf : Files \cup {NoFile}, handles : SUBSET Files,
     todo : SUBSET Files, kept : SUBSET Files, gone : SUBSET Files,
     ctx : {"none", "attach", "stage", "failure", "resume"}]

TypeOK ==
    /\ drive \subseteq Files /\ uploads \in 0 .. MaxFiles
    /\ pdf \in Files \cup {NoFile}
    /\ handles \subseteq Files /\ Cardinality(handles) <= MaxTokens
    /\ lock \in Tasks \cup {Free}
    /\ shown \in Files \cup {NoFile}
    /\ mail \in [kind : Kinds, outcome : Outcomes, read : BOOLEAN]
    /\ task \in [Tasks -> TaskStates]
    /\ cleaned \subseteq Files /\ abandoned \subseteq Files

Init ==
    /\ drive = {} /\ uploads = 0 /\ pdf = NoFile /\ handles = {}
    /\ lock = Free /\ shown = NoFile
    /\ mail = [kind |-> "none", outcome |-> "none", read |-> FALSE]
    /\ task = [t \in Tasks |-> IdleTask]
    /\ cleaned = {} /\ abandoned = {}

-----------------------------------------------------------------------------
(* What every flow does: moves, the book, the Drive. *)

At(t, pc) == task[t].pc = pc

worker == task[Worker]

Goes(t, to) == task' = [task EXCEPT ![t] = to]

Ends(t) == task' = [task EXCEPT ![t] = [IdleTask EXCEPT !.pc = "done"]]

\* get_graph_resource_lock: one in-process lock per e-mail.
MayUseBook(t) == lock \in {Free, t}

Writes(p, h) == pdf' = p /\ handles' = h

\* The capacity check before a handle is added.
Lists(f) == Cardinality(handles \cup {f}) <= MaxTokens

\* _retain_cleanup_token and _retain_cleanup_handle: TRUE only when the file
\* is seen in the book.  A refusal may still have written it.
Retains(f, retained) ==
    \/ retained /\ Lists(f) /\ Writes(pdf, handles \cup {f})
    \/ ~retained /\ UNCHANGED book
    \/ ~retained /\ f \notin handles /\ Lists(f) /\ Writes(pdf, handles \cup {f})

\* delete_file_from_drive: FALSE when refused and when the answer is lost.
Deletes(f, deleted) ==
    /\ drive' \in IF deleted THEN {drive \ {f}} ELSE {drive, drive \ {f}}
    /\ UNCHANGED uploads

NextFile == uploads + 1

\* The last handle of these files ends here: what the book does not have is lost.
Abandons(files) ==
    abandoned' = abandoned \cup (files \ ({pdf'} \cup handles'))

\* _prepare_pdf_token_transition and the state written by _stage_review_pdf:
\* switch the active PDF and register the one it replaces.
Replaced(file) == {pdf} \ {NoFile, file}
TransitionFits(file) ==
    Cardinality((handles \ {file}) \cup Replaced(file)) <= MaxTokens
TransitionTo(file) == Writes(file, (handles \ {file}) \cup Replaced(file))

\* upload_file_to_drive and generate_and_upload_pdf: a new file, nothing, a
\* file whose answer was lost, or (PDFs) unusable identifiers, in which case
\* the renderer deletes the file itself or reports it for cleanup.
UploadsFile(f) ==
    /\ f = NextFile /\ uploads < MaxFiles
    /\ drive' = drive \cup {f} /\ uploads' = f
UploadFails ==
    \/ UNCHANGED <<store, abandoned>>
    \/ /\ uploads < MaxFiles
       /\ drive' = drive \cup {NextFile} /\ uploads' = NextFile
       /\ abandoned' = abandoned \cup {NextFile}

-----------------------------------------------------------------------------
(* The worker: _run_ai_path and EmailFeishuDelivery.deliver. *)

Raises ==
    /\ Ends(Worker)
    /\ mail' = [mail EXCEPT !.outcome = "raised"]
    /\ lock' = IF lock = Worker THEN Free ELSE lock

StartMail ==
    /\ At(Worker, "idle")
    /\ Goes(Worker, [worker EXCEPT !.pc = "snapshot"])
    /\ UNCHANGED <<store, book, lock, shown, mail, history>>

\* _snapshot_cleanup_handles: the baseline of the attempt.
SnapshotHandles ==
    /\ At(Worker, "snapshot")
    /\ \/ /\ Goes(Worker, [worker EXCEPT !.pc = "checkpoint", !.pdf = pdf,
                                           !.handles = handles])
          /\ UNCHANGED <<lock, mail>>
       \/ Raises
    /\ UNCHANGED <<store, book, shown, history>>

\* _checkpoint_ai_path_resources: seed the checkpoint with the handles known,
\* and read it back; an unconfirmed seed ends the attempt.
CheckpointResources ==
    LET merged == handles \cup worker.handles
        active == IF pdf # NoFile THEN pdf ELSE worker.pdf
    IN /\ At(Worker, "checkpoint") /\ MayUseBook(Worker)
       /\ \/ /\ Writes(active, merged)
             /\ Goes(Worker, [worker EXCEPT !.pc = "pipeline", !.pdf = active,
                                            !.handles = merged])
             /\ UNCHANGED <<lock, mail>>
          \/ /\ Writes(active, merged) \/ UNCHANGED book
             /\ Raises
       /\ UNCHANGED <<store, shown, history>>

\* _run_ai_pipeline restarts the graph on the preserved handles; then
\* _deliver_pipeline_result picks the card.  A route without a card is
\* recorded and only marked read.
RunPipeline ==
    /\ At(Worker, "pipeline") /\ MayUseBook(Worker)
    /\ \/ /\ Writes(worker.pdf, worker.handles)
          /\ \E k \in Kinds \ {"none"} :
                /\ mail' = [mail EXCEPT !.kind = k]
                /\ Goes(Worker, [worker EXCEPT !.pc = CASE k = "no_action" -> "finish"
                                              [] k = "manual_review" -> "generate"
                                              [] OTHER -> "attach",
                                 !.handles = {}, !.pdf = NoFile])
          /\ UNCHANGED lock
       \/ Raises /\ UNCHANGED book
    /\ UNCHANGED <<store, shown, history>>

\* _upload_business_attachments: one upload (attachments are independent),
\* or none that succeeds.
UploadAttachment ==
    /\ At(Worker, "attach")
    /\ \/ \E f \in Files : /\ UploadsFile(f)
                           /\ Goes(Worker, [worker EXCEPT !.pc = "retain", !.new = f])
                           /\ UNCHANGED abandoned
       \/ UploadFails /\ Goes(Worker, [worker EXCEPT !.pc = "generate"])
    /\ UNCHANGED <<book, lock, shown, mail, cleaned>>

\* The upload is recorded before another effect; if it cannot be, it is dropped.
RetainAttachment ==
    LET f == worker.new
    IN /\ At(Worker, "retain") /\ MayUseBook(Worker)
       /\ \/ /\ Retains(f, TRUE)
             /\ Goes(Worker, [worker EXCEPT !.pc = "generate", !.new = NoFile, !.kept = {f}])
          \/ /\ Retains(f, FALSE)
             /\ Goes(Worker, [worker EXCEPT !.pc = "drop", !.new = NoFile, !.todo = {f},
                              !.ctx = "attach"])
       /\ UNCHANGED <<store, lock, shown, mail, history>>

\* Where _delete_or_retain_token returns to.
AfterDrop(f) ==
    LET left == worker.todo \ {f}
    IN /\ CASE worker.ctx = "attach" ->
                   Goes(Worker, [worker EXCEPT !.pc = "generate", !.todo = {}])
            [] worker.ctx = "stage" ->
                   Goes(Worker, [worker EXCEPT !.pc = "record", !.todo = {}])
            [] worker.ctx = "failure" /\ left # {} ->
                   Goes(Worker, [worker EXCEPT !.pc = "drop", !.todo = left])
            [] worker.ctx = "failure" /\ left = {} -> Ends(Worker)
       /\ lock' = IF lock = Worker THEN Free ELSE lock

\* _delete_or_retain_token, first half: record the handle; a file that cannot
\* be recorded is not deleted but reported.
DropRetains ==
    \E f \in worker.todo :
       /\ At(Worker, "drop") /\ MayUseBook(Worker)
       /\ \/ /\ Retains(f, TRUE)
             /\ Goes(Worker, [worker EXCEPT !.pc = "delete", !.new = f])
             /\ UNCHANGED <<lock, mail, abandoned>>
          \/ /\ Retains(f, FALSE)
             /\ Abandons({f})
             /\ \/ worker.ctx = "stage" /\ AfterDrop(f) /\ UNCHANGED mail
                \/ worker.ctx # "stage" /\ Raises
       /\ UNCHANGED <<store, shown, cleaned>>

\* ... then delete it in the Drive, when the effect is authorized ...
DropDeletes ==
    LET f == worker.new
    IN /\ At(Worker, "delete")
       /\ \/ /\ Deletes(f, TRUE)
             /\ Goes(Worker, [worker EXCEPT !.pc = "remove"])
             /\ UNCHANGED <<lock, mail>>
          \/ Deletes(f, FALSE) /\ AfterDrop(f) /\ UNCHANGED mail
          \/ UNCHANGED store /\ Raises
       /\ UNCHANGED <<book, shown, history>>

\* ... and _remove_cleanup_token: forget it.
DropRemoves ==
    LET f == worker.new
    IN /\ At(Worker, "remove") /\ MayUseBook(Worker)
       /\ \/ Writes(pdf, handles \ {f}) /\ AfterDrop(f) /\ UNCHANGED mail
          \/ /\ Writes(pdf, handles \ {f}) \/ UNCHANGED book
             /\ Raises
       /\ UNCHANGED <<store, shown, history>>

\* The review PDF; a file with unusable identifiers that the renderer could
\* not delete is retained by _stage_review_pdf if the book allows.
GenerateReviewPdf ==
    /\ At(Worker, "generate")
    /\ \/ /\ \E f \in Files : /\ UploadsFile(f)
                              /\ \/ Goes(Worker, [worker EXCEPT !.pc = "stage", !.new = f])
                                 \/ Goes(Worker, [worker EXCEPT !.pc = "forget", !.new = f])
          /\ UNCHANGED abandoned
       \/ UploadFails /\ Goes(Worker, [worker EXCEPT !.pc = "record"])
    /\ UNCHANGED <<book, lock, shown, mail, cleaned>>

InvalidReviewPdf ==
    LET f == worker.new
    IN /\ At(Worker, "forget") /\ MayUseBook(Worker)
       /\ \/ Deletes(f, TRUE) /\ UNCHANGED <<book, abandoned>>
          \/ Deletes(f, FALSE) /\ Retains(f, TRUE) /\ UNCHANGED abandoned
          \/ /\ Deletes(f, FALSE) /\ Retains(f, FALSE)
             /\ Abandons({f})
       /\ Goes(Worker, [worker EXCEPT !.pc = "record", !.new = NoFile])
       /\ UNCHANGED <<lock, shown, mail, cleaned>>

\* _stage_review_pdf.  Once anything fails, the book is read again: the PDF
\* counts as staged only if that read shows it; a read that fails too counts
\* as "not staged", and the file is dropped.
StageReviewPdf ==
    LET f == worker.new
        unstaged == Goes(Worker, [worker EXCEPT !.pc = "drop", !.new = NoFile, !.todo = {f},
                                  !.ctx = "stage"])
    IN /\ At(Worker, "stage") /\ MayUseBook(Worker)
       /\ \/ /\ TransitionFits(f) /\ TransitionTo(f)
             /\ Goes(Worker, [worker EXCEPT !.pc = "send", !.old = pdf]) /\ UNCHANGED lock
          \/ /\ TransitionFits(f) /\ TransitionTo(f)
             /\ unstaged /\ lock' = Worker
          \/ UNCHANGED book /\ unstaged /\ lock' = Worker
       /\ UNCHANGED <<store, shown, mail, history>>

\* _send_interactive_card: refused here or by Feishu, accepted, or no answer,
\* in which case the card may be on screen.
CardAnswered(f, answer) ==
    \/ answer = "accepted" /\ shown' = f
    \/ answer = "refused" /\ UNCHANGED shown
    \/ answer = "none" /\ shown' \in {NoFile, f}

\* The files of an unanswered card are kept.  The effect may not be authorized.
SendCard ==
    LET f == worker.new
    IN /\ At(Worker, "send")
       /\ \/ /\ CardAnswered(f, "accepted")
             /\ mail' = [mail EXCEPT !.outcome = "confirmed"]
             /\ Goes(Worker, [worker EXCEPT !.pc = "finish"]) /\ UNCHANGED lock
          \/ /\ CardAnswered(f, "refused")
             /\ Goes(Worker, [worker EXCEPT !.pc = "retire"]) /\ UNCHANGED <<lock, mail>>
          \/ /\ CardAnswered(f, "none")
             /\ mail' = [mail EXCEPT !.outcome = "unknown"]
             /\ Ends(Worker) /\ UNCHANGED lock
          \/ Raises /\ UNCHANGED shown
       /\ UNCHANGED <<store, book, history>>

\* _record_known_failure without a staged PDF: its attachments are dropped.
RecordFailure ==
    /\ At(Worker, "record")
    /\ \/ /\ mail' = [mail EXCEPT !.outcome = "known_failure"]
          /\ IF worker.kept = {} THEN Ends(Worker)
             ELSE Goes(Worker, [worker EXCEPT !.pc = "drop", !.todo = worker.kept,
                                !.kept = {}, !.ctx = "failure"])
          /\ UNCHANGED lock
       \/ Raises
    /\ UNCHANGED <<store, book, shown, history>>

\* _retire_unpublished_pdf: make the unsent PDF a cleanup handle, then drop it
\* and the attachments.
RetireUnpublishedPdf ==
    LET f == worker.new
        retired == Writes(IF pdf = f THEN NoFile ELSE pdf, handles \cup {f})
    IN /\ At(Worker, "retire") /\ MayUseBook(Worker)
       /\ \/ /\ Lists(f) /\ retired
             /\ mail' = [mail EXCEPT !.outcome = "known_failure"]
             /\ Goes(Worker, [worker EXCEPT !.pc = "drop", !.new = NoFile, !.kept = {},
                              !.todo = {f} \cup worker.kept,
                              !.ctx = "failure"])
             /\ UNCHANGED lock
          \/ Lists(f) /\ retired /\ Raises
          \/ UNCHANGED book /\ Raises
       /\ UNCHANGED <<store, shown, history>>

\* The tail of _run_ai_path and _mark_email_read: Exchange is told after the
\* card is confirmed or deliberately absent; a manual-review card leaves the
\* mail unread.
FinishMail ==
    /\ At(Worker, "finish")
    /\ \/ /\ mail.kind # "manual_review"
          /\ mail' = [mail EXCEPT !.read = TRUE, !.outcome = "processed"]
          /\ Ends(Worker) /\ UNCHANGED lock
       \/ /\ mail.kind = "manual_review"
          /\ mail' = [mail EXCEPT !.outcome = "processed"]
          /\ Ends(Worker) /\ UNCHANGED lock
       \/ Raises
    /\ UNCHANGED <<store, book, shown, history>>
-----------------------------------------------------------------------------
(* "View original as PDF": process_pdf_generation_and_reply, which holds the *)
(* lock from the rendering to the last cleanup.                              *)

Releases(t) == lock' = Free
Finishes(t) == Ends(t) /\ Releases(t)

\* A click needs a card on screen; its handler reads the state at once.
ClickReply(r) ==
    /\ At(r, "idle") /\ shown # NoFile
    /\ Goes(r, [task[r] EXCEPT !.pc = "queued", !.pdf = pdf, !.handles = handles])
    /\ UNCHANGED <<store, book, lock, shown, mail, history>>

BeginReply(r) ==
    /\ At(r, "queued") /\ lock = Free
    /\ lock' = r
    /\ Goes(r, [task[r] EXCEPT !.pc = "generate"])
    /\ UNCHANGED <<store, book, shown, mail, history>>

\* generate_and_upload_pdf.  A file with unusable identifiers is deleted or
\* reported to the caller, which drops the report.
GenerateReplyPdf(r) ==
    /\ At(r, "generate")
    /\ \/ \E f \in Files : /\ UploadsFile(f)
                           /\ \/ Goes(r, [task[r] EXCEPT !.pc = "stage", !.new = f])
                              \/ Goes(r, [task[r] EXCEPT !.pc = "forget", !.new = f])
                           /\ UNCHANGED <<lock, abandoned>>
       \/ UploadFails /\ Finishes(r)
    /\ UNCHANGED <<book, shown, mail, cleaned>>

InvalidReplyPdf(r) ==
    /\ At(r, "forget") /\ UNCHANGED book
    /\ \/ Deletes(task[r].new, TRUE) /\ UNCHANGED abandoned
       \/ Deletes(task[r].new, FALSE) /\ Abandons({task[r].new})
    /\ Finishes(r)
    /\ UNCHANGED <<shown, mail, cleaned>>

\* Read the latest state, then switch the active PDF.  A state that cannot be
\* read or has no room, or a write that is seen not to have happened, drops
\* the new file; a write of unknown outcome leaves everything as it is.
StageReplyPdf(r) ==
    LET f == task[r].new
    IN /\ At(r, "stage")
       /\ \/ /\ TransitionFits(f) /\ TransitionTo(f)
             /\ Goes(r, [task[r] EXCEPT !.pc = "reply", !.old = pdf,
                         !.todo = Replaced(f)])
             /\ UNCHANGED <<lock, abandoned>>
          \/ /\ Goes(r, [task[r] EXCEPT !.pc = "drop"])
             /\ UNCHANGED <<book, lock, abandoned>>
          \/ /\ TransitionFits(f)
             /\ TransitionTo(f) \/ UNCHANGED book
             /\ Abandons({f}) /\ Finishes(r)
       /\ UNCHANGED <<store, shown, mail, cleaned>>

\* _delete_or_retain: delete the file; if that is not confirmed, record it.
DropReplyPdf(r) ==
    LET f == task[r].new
    IN /\ At(r, "drop")
       /\ \/ Deletes(f, TRUE) /\ UNCHANGED <<book, abandoned>>
          \/ Deletes(f, FALSE) /\ Retains(f, TRUE) /\ UNCHANGED abandoned
          \/ Deletes(f, FALSE) /\ Retains(f, FALSE) /\ Abandons({f})
       /\ Finishes(r)
       /\ UNCHANGED <<shown, mail, cleaned>>

\* The reply that links to the new file.  No answer counts as a failure.
SendReply(r) ==
    /\ At(r, "reply")
    /\ \/ /\ shown' = task[r].new
          /\ \/ /\ task[r].todo # {}
                /\ Goes(r, [task[r] EXCEPT !.pc = "tidy", !.pdf = task[r].new])
                /\ UNCHANGED lock
             \/ task[r].todo = {} /\ Finishes(r)
       \/ Goes(r, [task[r] EXCEPT !.pc = "restore"]) /\ UNCHANGED <<shown, lock>>
    /\ UNCHANGED <<store, book, mail, history>>

\* A failed reply: put the old PDF back and register the new one, or leave
\* the book as it is when its state cannot be confirmed.
RestorePdf(r) ==
    LET old == task[r].old
    IN /\ At(r, "restore")
       /\ \/ /\ TransitionFits(old) /\ TransitionTo(old)
             /\ Goes(r, [task[r] EXCEPT !.pc = "tidy", !.pdf = old, !.todo = {task[r].new}])
             /\ UNCHANGED lock
          \/ /\ TransitionFits(old) /\ TransitionTo(old)
             /\ Finishes(r)
          \/ UNCHANGED book /\ Finishes(r)
       /\ UNCHANGED <<store, shown, mail, history>>

\* _delete_registered_cleanup_handle, to the deletion: only a file that is
\* registered against the expected active PDF is deleted.
TidyDeletes(r) ==
    \E f \in task[r].todo :
       /\ At(r, "tidy")
       /\ \/ /\ pdf = task[r].pdf /\ f \in handles
             /\ Deletes(f, TRUE)
             /\ Goes(r, [task[r] EXCEPT !.pc = "remove"]) /\ UNCHANGED lock
          \/ /\ pdf = task[r].pdf /\ f \in handles
             /\ Deletes(f, FALSE) /\ Finishes(r)
          \/ UNCHANGED store /\ Finishes(r)
       /\ UNCHANGED <<book, shown, mail, history>>

\* ... and the removal of its handle, if the book still agrees.
TidyRemoves(r) ==
    /\ At(r, "remove")
    /\ \/ pdf = task[r].pdf /\ Writes(pdf, handles \ task[r].todo)
       \/ UNCHANGED book
    /\ Finishes(r)
    /\ UNCHANGED <<store, shown, mail, history>>

-----------------------------------------------------------------------------
(* Cleanups: mark read, save draft, and the resume of the workflow. *)

Collected(p, h) == h \cup ({p} \ {NoFile})

ClickCleanup(c) ==
    /\ At(c, "idle") /\ shown # NoFile
    /\ Goes(c, [task[c] EXCEPT !.pc = "queued", !.pdf = pdf, !.handles = handles])
    /\ UNCHANGED <<store, book, lock, shown, mail, history>>

\* Mutant of Targets: the click's own state is ignored.
TargetsLatest(c) == Collected(pdf, handles)

\* _cleanup_action_drive_tokens: everything, if the book has not changed since
\* the click; otherwise the cleanup handles that the click already saw.
Targets(c) ==
    IF task[c].pdf = pdf /\ task[c].handles = handles
    THEN Collected(pdf, handles)
    ELSE (handles \cap Collected(task[c].pdf, task[c].handles)) \ {pdf}

BeginCleanup(c) ==
    /\ At(c, "queued") /\ lock = Free
    /\ \/ Goes(c, [task[c] EXCEPT !.pc = "sweep", !.todo = Targets(c)]) /\ lock' = c
       \/ Ends(c) /\ UNCHANGED lock
    /\ UNCHANGED <<store, book, shown, mail, history>>

\* _resume_graph_then_cleanup: the resumed workflow has reached a terminal
\* status; the latest state is cleaned up.  Otherwise nothing is.
ResumeAndClean(c) ==
    /\ At(c, "queued") /\ lock = Free
    /\ \/ /\ lock' = c
          /\ Goes(c, [task[c] EXCEPT !.pc = "sweep", !.todo = Collected(pdf, handles),
                      !.ctx = "resume"])
       \/ Ends(c) /\ UNCHANGED lock
    /\ UNCHANGED <<store, book, shown, mail, history>>

SweepFile(c) ==
    /\ At(c, "sweep")
    /\ \E f \in task[c].todo :
       \/ /\ Deletes(f, TRUE)
          /\ Goes(c, [task[c] EXCEPT !.todo = @ \ {f}, !.gone = @ \cup {f}])
          /\ cleaned' = cleaned \cup {f}
       \/ /\ Deletes(f, FALSE)
          /\ Goes(c, [task[c] EXCEPT !.todo = @ \ {f}])
          /\ cleaned' = cleaned \cup {f}
    /\ UNCHANGED <<book, lock, shown, mail, abandoned>>

\* Mutant of SweepEnds: every target is forgotten, deleted or not.
SweepForgets(c) ==
    /\ At(c, "sweep") /\ task[c].todo = {}
    /\ Writes(NoFile, {})
    /\ Finishes(c)
    /\ UNCHANGED <<store, shown, mail, history>>

\* Only confirmed deletions leave the book, when it can be written.
SweepEnds(c) ==
    LET gone == task[c].gone
    IN /\ At(c, "sweep") /\ task[c].todo = {}
       /\ \/ Writes(IF pdf \in gone THEN NoFile ELSE pdf, handles \ gone)
          \/ UNCHANGED book
       /\ Finishes(c)
       /\ UNCHANGED <<store, shown, mail, history>>

-----------------------------------------------------------------------------
\* A file that only a running task knows of.
HeldBy(t) ==
    {f \in {task[t].new} :
        \/ At(t, "retain") \/ At(t, "stage") \/ At(t, "forget")
        \/ At(t, "drop") /\ t \in Replies}
    \cup {f \in task[t].todo : At(t, "drop")}

\* The process ends: its tasks are gone, its lock with them, and with every
\* task the file only it knew of.
Crash ==
    /\ \E t \in Tasks : task[t].pc \notin {"idle", "done"}
    /\ task' = [t \in Tasks |-> IF task[t].pc = "idle" THEN task[t]
                                ELSE [IdleTask EXCEPT !.pc = "done"]]
    /\ lock' = Free
    /\ UNCHANGED book /\ Abandons(UNION {HeldBy(t) : t \in Tasks})
    /\ mail' = IF worker.pc \in {"idle", "done"} THEN mail
               ELSE [mail EXCEPT !.outcome = "raised"]
    /\ UNCHANGED <<store, shown, cleaned>>

WorkerStep ==
    \/ StartMail \/ SnapshotHandles \/ CheckpointResources \/ RunPipeline
    \/ UploadAttachment \/ RetainAttachment
    \/ DropRetains \/ DropDeletes \/ DropRemoves
    \/ GenerateReviewPdf \/ InvalidReviewPdf \/ StageReviewPdf \/ SendCard
    \/ RecordFailure \/ RetireUnpublishedPdf \/ FinishMail

ReplyStep(r) ==
    \/ ClickReply(r) \/ BeginReply(r) \/ GenerateReplyPdf(r)
    \/ InvalidReplyPdf(r) \/ StageReplyPdf(r) \/ DropReplyPdf(r)
    \/ SendReply(r) \/ RestorePdf(r) \/ TidyDeletes(r) \/ TidyRemoves(r)

CleanupStep(c) ==
    \/ ClickCleanup(c) \/ BeginCleanup(c) \/ ResumeAndClean(c)
    \/ SweepFile(c) \/ SweepEnds(c)

Next ==
    \/ WorkerStep
    \/ \E r \in Replies : ReplyStep(r)
    \/ \E c \in Cleanups : CleanupStep(c)
    \/ Crash

Spec == Init /\ [][Next]_vars

-----------------------------------------------------------------------------
\* Every file in the Drive is the active PDF, a cleanup handle, or in the
\* hands of a running task, except the files a flow reported as untracked and
\* those lost with a crashed task: no sequence of failed and half-applied
\* reads, writes and deletions makes the service forget a file silently.
NothingForgotten ==
    drive \subseteq {pdf} \cup handles \cup abandoned
                    \cup UNION {HeldBy(t) : t \in Tasks}

\* The PDF that the latest card or reply links to is only ever deleted by a
\* cleanup: neither a later rendering that fails half-way nor the tidying up
\* after it removes what the reader can open.
ShownPdfKept == shown \in drive \cup cleaned \cup {NoFile}

\* A mark-read or save-draft cleanup deletes only files its click had seen: a
\* PDF published while the cleanup waited for the lock survives it.
CleanupSparesNewer ==
    [][\A c \in Cleanups :
          At(c, "queued") /\ task'[c].pc = "sweep" /\ task'[c].ctx # "resume" =>
              task'[c].todo \subseteq Collected(task[c].pdf, task[c].handles)]_vars

\* Exchange marks the mail read only after the card was accepted, or when the
\* route has none: a refused, unanswered or failed delivery stays unread.
ReadAfterDelivery ==
    mail.read => mail.kind = "no_action" \/ shown # NoFile

\* What holds of the Drive, the card and the mail in every state, whichever
\* rendering, upload, card, database write or deletion failed half-way: no
\* file is forgotten silently, the linked PDF opens, and a mail whose card was
\* not accepted stays unread (lark_pdf_flow.py, email_feishu_delivery.py).
DriveInv == TypeOK /\ NothingForgotten /\ ShownPdfKept /\ ReadAfterDelivery

-----------------------------------------------------------------------------
(* The inductive invariant: what the flows rely on between two steps.       *)

\* Every flow stays on its own course.
OnCourse ==
    /\ worker.pc \in {"idle", "snapshot", "checkpoint", "pipeline", "attach", "retain",
                      "drop", "delete", "remove", "generate", "forget", "stage", "send",
                      "record", "retire", "finish", "done"}
    /\ \A r \in Replies : task[r].pc \in {"idle", "queued", "generate", "forget", "stage",
                                          "drop", "reply", "restore", "tidy", "remove",
                                          "done"}
    /\ \A c \in Cleanups : task[c].pc \in {"idle", "queued", "sweep", "done"}

\* No file is named before it is uploaded, so an upload is new to everybody.
OldNews ==
    /\ drive \cup handles \cup ({pdf, shown} \ {NoFile}) \subseteq 1 .. uploads
    /\ \A t \in Tasks :
          task[t].kept \cup task[t].gone \cup task[t].todo
             \cup ({task[t].new} \ {NoFile}) \subseteq 1 .. uploads

\* There is nothing to click on, and before the pipeline nothing to delete,
\* until the worker has sent its card.
DeliveryFirst ==
    /\ worker.pc \notin {"finish", "done"} =>
          shown = NoFile /\ \A t \in Replies \cup Cleanups : At(t, "idle")
    /\ worker.pc \in {"idle", "snapshot", "checkpoint", "pipeline"} =>
          /\ drive = {} /\ handles = {} /\ pdf = NoFile
          /\ worker.handles = {} /\ worker.pdf = NoFile
    /\ worker.pc = "finish" => mail.kind = "no_action" \/ shown # NoFile
    /\ mail.read => worker.pc = "done"

\* A click that changes the book holds the lock.
ClicksTakeTurns ==
    /\ \A r \in Replies : task[r].pc \notin {"idle", "queued", "done"} => lock = r
    /\ \A c \in Cleanups : At(c, "sweep") => lock = c

AtMostOne(files) == \A f, g \in files : f = g

\* The attachment the worker keeps is in the book; what it drops is the one
\* file it holds, or files the book has.
WorkerFiles ==
    /\ worker.pc \notin {"finish", "done"} => worker.kept \subseteq handles
    /\ worker.pc \in {"retain", "stage", "forget"} => worker.new \notin worker.kept
    /\ worker.pc \in {"retain", "stage", "forget", "send", "retire"} => worker.new \in drive
    /\ worker.pc \in {"drop", "delete", "remove"} =>
          /\ worker.ctx \in {"attach", "stage", "failure"}
          /\ worker.todo \cap worker.kept = {}
          /\ worker.ctx # "failure" => AtMostOne(worker.todo)
    /\ worker.pc = "drop" /\ worker.ctx = "failure" => worker.todo \subseteq handles
    /\ worker.pc \in {"delete", "remove"} =>
          worker.new \in worker.todo /\ worker.todo \ {worker.new} \subseteq handles
    /\ worker.pc = "delete" => worker.new \in handles
    /\ worker.pc = "remove" => worker.new \notin drive

\* A reply renders a file nobody has seen, and deletes only one that the
\* reader cannot open.
ReplyFiles(r) ==
    /\ task[r].pc \in {"idle", "queued", "generate", "stage", "forget", "drop"} =>
          task[r].todo = {}
    /\ task[r].pc \in {"stage", "forget", "drop", "reply", "restore"} =>
          task[r].new \in drive \ {shown}
    /\ task[r].pc = "reply" => task[r].new \notin task[r].todo
    /\ task[r].pc \in {"reply", "restore"} => task[r].old \in {NoFile} \cup 1 .. uploads
    /\ task[r].pc \in {"tidy", "remove"} => shown \notin task[r].todo
    /\ task[r].pc \in {"reply", "tidy", "remove"} => AtMostOne(task[r].todo)
    /\ task[r].pc = "remove" => task[r].todo \cap drive = {}

\* What a cleanup has seen deleted stays deleted.
CleanupFiles(c) == task[c].gone \cap drive = {}

DriveInductive ==
    /\ DriveInv
    /\ OnCourse /\ OldNews /\ DeliveryFirst /\ ClicksTakeTurns /\ WorkerFiles
    /\ \A r \in Replies : ReplyFiles(r)
    /\ \A c \in Cleanups : CleanupFiles(c)
=============================================================================
