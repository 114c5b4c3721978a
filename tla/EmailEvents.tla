----------------------------- MODULE EmailEvents -----------------------------
(***************************************************************************)
(* The pure email-event algebra of src/ingestion/email_events.py: the      *)
(* status vocabulary, the decision a change event makes on an email        *)
(* aggregate, and the manifest of legal applications.  No I/O and no       *)
(* state: DurableInbox applies these operators to its email rows.          *)
(***************************************************************************)

\* "absent" stands for "no row"; the code passes current_status = None.
EmailStatuses ==
    {"ingested", "processing", "retry_wait", "manual_review",
     "waiting_approval", "notified_readonly", "send_queued", "sending",
     "accepted", "sent", "send_failed", "delivery_failed", "send_unknown",
     "no_action", "archived", "rejected", "draft_saved", "expired",
     "cancelled", "dead_letter"}

ChangeKinds == {"create", "update", "read", "delete"}

Reasons ==
    {"first_create", "processing_resumed",
     "processing_attempt_already_elected", "metadata_event",
     "duplicate_create", "source_tombstone", "source_delete_cancelled",
     "source_delete_recorded", "source_deleted_preserved",
     "status_preserved"}

Dispositions ==
    {"creator_elected", "processing_resumed", "processing_already_elected",
     "metadata_shell_created", "tombstone_created", "aggregate_updated",
     "aggregate_noop"}

\* EMAIL_STATUS_TRANSITIONS, one set per flag.
CancelOnDelete ==
    {"ingested", "processing", "retry_wait", "manual_review",
     "waiting_approval", "send_queued"}

MayResumeProcessing == {"processing", "retry_wait"}

Decision(process, cancel, status, pending, seen, reason) ==
    [should_process |-> process, should_cancel |-> cancel,
     new_status |-> status, cancel_pending_side_effects |-> pending,
     create_seen |-> seen, reason |-> reason]

Process(reason) == Decision(TRUE, FALSE, "processing", FALSE, TRUE, reason)

Preserve(status, seen, reason) ==
    Decision(FALSE, FALSE, status, FALSE, seen, reason)

\* What the first event of an email that has no row yet decides.
DecideFirst(kind) ==
    CASE kind = "create" -> Process("first_create")
      [] kind \in {"update", "read"} ->
            Preserve("ingested", FALSE, "metadata_event")
      [] kind = "delete" ->
            Decision(FALSE, TRUE, "cancelled", FALSE, FALSE,
                     "source_tombstone")

\* Mutant of DecideCreate: a metadata shell does not elect its creator.
DecideCreateNoShell(status, seen, owns, effects) ==
    IF status \in MayResumeProcessing /\ seen /\ owns /\ ~effects
    THEN Process("processing_resumed")
    ELSE Preserve(status, seen, "duplicate_create")

\* Mutant of DecideCreate: any CREATE may start before effects begin.
DecideCreateAlways(status, seen, owns, effects) ==
    IF ~effects THEN Process("first_create")
                ELSE Preserve(status, seen, "duplicate_create")

\* What a CREATE decides on an existing, not deleted, email.
DecideCreate(status, seen, owns, effects) ==
    IF status = "ingested" /\ ~seen
    THEN Process("first_create")
    ELSE IF /\ status \in MayResumeProcessing
            /\ seen /\ owns /\ ~effects
         THEN Process("processing_resumed")
         ELSE Preserve(status, seen, "duplicate_create")

\* Mutant of DecideDelete: started side effects do not stop a cancellation.
DecideDeleteAlways(status, seen, effects) ==
    IF status \in CancelOnDelete
    THEN Decision(FALSE, TRUE, "cancelled",
                  ~(status = "ingested" /\ ~seen), seen,
                  "source_delete_cancelled")
    ELSE Preserve(status, seen, "source_delete_recorded")

\* Mutant of DecideDelete: pending side effects are never cancelled.
DecideDeleteNoPending(status, seen, effects) ==
    IF ~effects /\ status \in CancelOnDelete
    THEN Decision(FALSE, TRUE, "cancelled", FALSE, seen,
                  "source_delete_cancelled")
    ELSE Preserve(status, seen, "source_delete_recorded")

\* What a DELETE decides on an existing email not deleted before.
DecideDelete(status, seen, effects) ==
    IF ~effects /\ status \in CancelOnDelete
    THEN Decision(FALSE, TRUE, "cancelled",
                  ~(status = "ingested" /\ ~seen), seen,
                  "source_delete_cancelled")
    ELSE Preserve(status, seen, "source_delete_recorded")

decide_email_event(status, seen, kind, owns, effects, deleted) ==
    CASE status = "absent" -> DecideFirst(kind)
      [] status # "absent" /\ deleted ->
            Preserve(status, seen, "source_deleted_preserved")
      [] status # "absent" /\ ~deleted /\ kind = "create" ->
            DecideCreate(status, seen, owns, effects)
      [] status # "absent" /\ ~deleted /\ kind \in {"update", "read"} ->
            Preserve(status, seen, "metadata_event")
      [] status # "absent" /\ ~deleted /\ kind = "delete" ->
            DecideDelete(status, seen, effects)

-----------------------------------------------------------------------------
\* The application manifest: every legal (disposition, decision, status).

ManifestRow(disposition, statuses, d, complete) ==
    [disposition |-> disposition, statuses |-> statuses, decision |-> d,
     may_complete |-> complete]

\* A row of the manifest fixes everything but the persisted status, so the
\* decision of a row carries the placeholder status "any".
Flags(process, cancel, pending, seen, reason) ==
    Decision(process, cancel, "any", pending, seen, reason)

PreservingRows(disposition, reason, statuses, seens) ==
    {ManifestRow(disposition, statuses,
                 Flags(FALSE, FALSE, FALSE, s, reason), TRUE) : s \in seens}

ReasonRows(disposition, reasons) ==
    UNION {PreservingRows(disposition, reason, EmailStatuses, BOOLEAN) :
              reason \in reasons}

EmailEventManifest ==
    {ManifestRow("creator_elected", {"processing"},
                 Flags(TRUE, FALSE, FALSE, TRUE, "first_create"), FALSE),
     ManifestRow("processing_resumed", {"processing"},
                 Flags(TRUE, FALSE, FALSE, TRUE, "processing_resumed"), FALSE),
     ManifestRow("processing_already_elected", {"processing"},
                 Flags(FALSE, FALSE, FALSE, TRUE,
                       "processing_attempt_already_elected"), FALSE),
     ManifestRow("tombstone_created", {"cancelled"},
                 Flags(FALSE, TRUE, FALSE, FALSE, "source_tombstone"), TRUE)}
    \union PreservingRows("metadata_shell_created", "metadata_event",
                          {"ingested"}, {FALSE})
    \union {ManifestRow("aggregate_updated", {"cancelled"},
                        Flags(FALSE, TRUE, f[1], f[2],
                              "source_delete_cancelled"), TRUE) :
              f \in (BOOLEAN \X BOOLEAN) \ {<<FALSE, TRUE>>}}
    \union PreservingRows("aggregate_noop", "duplicate_create",
                          EmailStatuses \ {"ingested"}, {FALSE})
    \union PreservingRows("aggregate_noop", "duplicate_create",
                          EmailStatuses, {TRUE})
    \union ReasonRows("aggregate_updated",
                       {"metadata_event", "source_delete_recorded",
                        "status_preserved"})
    \union ReasonRows("aggregate_noop",
                       {"metadata_event", "status_preserved",
                        "source_deleted_preserved"})

\* EmailEventApplication.__post_init__: the persisted status is the decided
\* one and the whole application is a manifest row; otherwise it raises.
LegalApplication(disposition, d, persisted, complete) ==
    /\ persisted = d.new_status
    /\ \E row \in EmailEventManifest :
          /\ row.disposition = disposition
          /\ persisted \in row.statuses
          /\ row.decision = [d EXCEPT !.new_status = "any"]
          /\ row.may_complete = complete
=============================================================================
