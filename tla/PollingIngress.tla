--------------------------- MODULE PollingIngress ----------------------------
(***************************************************************************)
(* Polling of the INBOX: a process loads the cursor, asks the Gateway for  *)
(* everything that changed since, and commits the events together with the *)
(* next cursor in one fenced transaction (greenfield_commit_sync_page).    *)
(* An old process may linger beside its successor, an operator may pause   *)
(* and resume in between, and a commit may succeed without its answer.     *)
(*                                                                         *)
(* The mailbox is the sequence of its changes and a sync_state is a        *)
(* position in it.  A page is a set of changes: the envelopes are sorted   *)
(* by their key before they are stored, so their order carries nothing.    *)
(***************************************************************************)
EXTENDS Naturals, Sequences, FiniteSets

CONSTANTS
    Pollers,      \* processes
    InstanceOf,   \* the instance id each process is configured with
    Changes,      \* the changes that may happen to the mailbox
    CreatePolicy, \* the configured policy of sync:create:create
    Limit,        \* MAX_SYNC_CHANGES_PER_BATCH
    MaxFeed,      \* bound: changes to the mailbox
    MaxEpoch,     \* bound: authority epochs
    MaxVersion    \* bound: cursor versions spent on pages that move nothing

ChangeKind == {"create", "update", "delete"}

\* Exchange reports a message marked read; it moves the cursor only.
NonIngress == {"read_flag_change"}

ProcessingPolicy == {"full", "archive", "metadata_only", "ignored"}

ASSUME PollingAssumption ==
    /\ \A c \in Changes : c.kind \in ChangeKind \union NonIngress
    /\ CreatePolicy \in {"full", "archive", "ignored"}
    /\ Limit \in Nat \ {0}
    /\ MaxFeed \in Nat \ {0} /\ MaxVersion \in Nat /\ MaxEpoch \in Nat \ {0}

VARIABLES
    feed,      \* the mailbox: every change that happened, in order
    cursor,    \* the sync_cursors row
    inbox,     \* event_inbox, as far as polling writes it
    authority, \* whether ingress is open, and the epoch
    lease,     \* the web-instance row of each process
    poll,      \* what each process is doing
    activated, \* PollingRuntime._activated
    boundary   \* history: the position at which polling was activated

vars == <<feed, cursor, inbox, authority, lease, poll, activated, boundary>>
polling == <<cursor, inbox, poll, activated, boundary>>
world == <<feed, authority, lease>>

-----------------------------------------------------------------------------
NoCursor == [status |-> "absent", position |-> 0, version |-> 0]
NoLease == [live |-> FALSE, epoch |-> 0]
Idle == [phase |-> "idle"]

\* FolderScope: updates and deletes never do more than record metadata.
PolicyMatrix ==
    [k \in ChangeKind |-> IF k = "create" THEN CreatePolicy ELSE "metadata_only"]

resolve(kind) == PolicyMatrix[kind]

\* The identity of an event holds the cursor its page ended at, so the same
\* change in another page is another event.
_dedupe_key(position, change) == [cursor |-> position, change |-> change]

normalize_sync_change(position, change) ==
    [key |-> _dedupe_key(position, change), policy |-> resolve(change.kind)]

\* The envelope of an event must repeat the cursor of the page it came in.
_envelopes(position, events) ==
    {e \in events : e.key.cursor = position}

\* The Gateway: the net changes after a position.
Delta(position) == {feed[n] : n \in position + 1 .. Len(feed)}

\* The kinds that have a place in the Inbox.
validate_sync_change_contract(change) == change.kind \in ChangeKind

\* The items of a page that are mail events; the others are dropped.
_polling_sync_change_from_payload(items) ==
    {c \in items : c.kind \notin NonIngress /\ validate_sync_change_contract(c)}

SyncBatch(position, changes) == [cursor |-> position, changes |-> changes]

\* Mutant of _polling_sync_batch_from_payload: a full page is refused too.
BatchBelowLimit(position, items, discard) ==
    IF Cardinality(items) >= Limit THEN {}
    ELSE {SyncBatch(position, IF discard THEN {}
                              ELSE _polling_sync_change_from_payload(items))}

\* A response with more items than were asked for is a contract error,
\* whether or not the items are going to be discarded.
_polling_sync_batch_from_payload(position, items, discard) ==
    IF Cardinality(items) > Limit THEN {}
    ELSE {SyncBatch(position, IF discard THEN {}
                              ELSE _polling_sync_change_from_payload(items))}

\* What the Gateway may answer: the delta up to now, or, the state being
\* opaque, the same state again with the items that came with it.
Responses(checkpoint) ==
    _polling_sync_batch_from_payload(
        Len(feed), Delta(checkpoint.position), ~checkpoint.active)
    \union
    IF checkpoint.active
    THEN _polling_sync_batch_from_payload(
            checkpoint.position,
            {r.key.change : r \in {x \in inbox :
                                    x.key.cursor = checkpoint.position}}, FALSE)
    ELSE {}

NormalizedEvents(page) ==
    {normalize_sync_change(page.cursor, c) : c \in page.changes}

-----------------------------------------------------------------------------
Checkpoints == [active : BOOLEAN, position : 0..MaxFeed, version : Nat]
Pages == [cursor : 0..MaxFeed, changes : SUBSET Changes]

\* What a process may be doing.
Polls ==
    [phase : {"idle"}]
    \union [phase : {"loaded"}, checkpoint : Checkpoints]
    \union [phase : {"fetched"}, checkpoint : Checkpoints, page : Pages]

InboxRow ==
    [key : [cursor : 0..MaxFeed, change : Changes], policy : ProcessingPolicy,
     epoch : 1..MaxEpoch, status : {"pending", "completed"}]

TypeOK ==
    /\ feed \in Seq(Changes) /\ Len(feed) <= MaxFeed
    /\ cursor \in [status : {"absent", "active"}, position : 0..MaxFeed,
                   version : Nat]
    /\ \A r \in inbox :
        r \in InboxRow /\ (r.status = "completed" <=> r.policy = "ignored")
    /\ authority \in [open : BOOLEAN, epoch : 1..MaxEpoch]
    /\ lease \in [Pollers -> [live : BOOLEAN, epoch : 0..MaxEpoch]]
    /\ poll \in [Pollers -> Polls]
    /\ activated \in [Pollers -> BOOLEAN]
    /\ boundary \in 0..MaxFeed

Init ==
    /\ feed \in {<<>>} \union {<<c>> : c \in Changes}
    /\ cursor = NoCursor
    /\ inbox = {}
    /\ authority = [open |-> TRUE, epoch |-> 1]
    /\ lease = [p \in Pollers |-> NoLease]
    /\ poll = [p \in Pollers |-> Idle]
    /\ activated = [p \in Pollers |-> FALSE]
    /\ boundary = 0

-----------------------------------------------------------------------------
(* One poll. *)

\* PostgresPollingCursorStore.load.
Load(p) ==
    /\ lease[p].epoch > 0
    /\ poll[p].phase = "idle"
    /\ poll' = [poll EXCEPT ![p] =
         [phase |-> "loaded",
          checkpoint |-> [active |-> cursor.status = "active",
                          position |-> cursor.position,
                          version |-> cursor.version]]]
    /\ UNCHANGED <<cursor, inbox, activated, boundary, world>>

\* ExchangeClient.sync_polling answers with a page.
FetchPage(p) ==
    /\ poll[p].phase = "loaded"
    /\ \E page \in Responses(poll[p].checkpoint) :
         poll' = [poll EXCEPT ![p] =
            [phase |-> "fetched", checkpoint |-> poll[p].checkpoint,
             page |-> page]]
    /\ UNCHANGED <<cursor, inbox, activated, boundary, world>>

\* A transient failure, or a conflict: PollingRuntime tries again later.
Retry(p) ==
    /\ poll[p].phase # "idle"
    /\ poll' = [poll EXCEPT ![p] = Idle]
    /\ UNCHANGED <<cursor, inbox, activated, boundary, world>>

\* Any other failure also takes readiness down.
Reject(p) ==
    /\ poll[p].phase # "idle"
    /\ poll' = [poll EXCEPT ![p] = Idle]
    /\ activated' = [activated EXCEPT ![p] = FALSE]
    /\ UNCHANGED <<cursor, inbox, boundary, world>>

\* Mutant of Fenced: the authority is open, under whichever epoch.
FencedAnyEpoch(p) == authority.open /\ lease[p].live

\* The fence of the transaction: the session's own row, under the authority
\* as it stands.
Fenced(p) ==
    /\ authority.open
    /\ lease[p].live
    /\ lease[p].epoch = authority.epoch

\* Mutant of CursorUnmoved: only the status is compared.
CursorStatusUnmoved(checkpoint) ==
    checkpoint.active = (cursor.status = "active")

\* The cursor must be where the checkpoint saw it.
CursorUnmoved(checkpoint) ==
    /\ checkpoint.version = cursor.version
    /\ checkpoint.active = (cursor.status = "active")
    /\ checkpoint.position = cursor.position

Row(e) ==
    [key |-> e.key, policy |-> e.policy, epoch |-> authority.epoch,
     status |-> IF e.policy = "ignored" THEN "completed" ELSE "pending"]

\* An event whose key is stored must be the stored event, epoch included.
Acceptable(events) ==
    \A e \in events : \A r \in inbox : r.key = e.key => r.epoch = authority.epoch

Inserted(events) ==
    {Row(e) : e \in {x \in events : \A r \in inbox : r.key # x.key}}

\* Mutant of CommitPage: the cursor is moved without the events.
CommitCursorOnly(p) ==
    LET page == poll[p].page
    IN /\ poll[p].phase = "fetched"
       /\ Fenced(p)
       /\ CursorUnmoved(poll[p].checkpoint)
       /\ inbox' = inbox
       /\ cursor' = [status |-> "active", position |-> page.cursor,
                     version |-> cursor.version + 1]
       /\ boundary' = IF cursor.status = "active" THEN boundary ELSE page.cursor
       /\ poll' = [poll EXCEPT ![p] = Idle]
       /\ activated' = [activated EXCEPT ![p] = TRUE]
       /\ UNCHANGED world

\* greenfield_commit_sync_page: rows and cursor in one transaction.  Without
\* a cursor the page only sets the boundary.  The answer may be lost.
CommitPage(p) ==
    LET page == poll[p].page
        checkpoint == poll[p].checkpoint
        events == _envelopes(page.cursor, NormalizedEvents(page))
    IN /\ poll[p].phase = "fetched"
       /\ Fenced(p)
       /\ CursorUnmoved(checkpoint)
       /\ Acceptable(events)
       /\ page.cursor > cursor.position \/ cursor.version < MaxVersion
       /\ inbox' = inbox \union Inserted(events)
       /\ cursor' = [status |-> "active", position |-> page.cursor,
                     version |-> cursor.version + 1]
       /\ boundary' = IF checkpoint.active THEN boundary ELSE page.cursor
       /\ poll' = [poll EXCEPT ![p] = Idle]
       /\ \/ activated' = [activated EXCEPT ![p] = TRUE]
          \/ UNCHANGED activated
       /\ UNCHANGED world

-----------------------------------------------------------------------------
(* The surroundings. *)

\* Something happens in the mailbox.
Deliver(c) ==
    /\ Len(feed) < MaxFeed
    /\ feed' = Append(feed, c)
    /\ UNCHANGED <<authority, lease, polling>>

\* An operator pauses or resumes.
Transition ==
    /\ authority.epoch < MaxEpoch
    /\ authority' = [open |-> ~authority.open, epoch |-> authority.epoch + 1]
    /\ UNCHANGED <<feed, lease, polling>>

\* A process starts and registers; a predecessor of the same instance id must
\* have lapsed, one of another id is none of its business.
Register(p) ==
    /\ authority.open
    /\ \A q \in Pollers : InstanceOf[q] = InstanceOf[p] => ~lease[q].live
    /\ lease[p].epoch < authority.epoch \/ lease[p].epoch = 0
    /\ lease' = [lease EXCEPT ![p] = [live |-> TRUE, epoch |-> authority.epoch]]
    /\ poll' = [poll EXCEPT ![p] = Idle]
    /\ activated' = [activated EXCEPT ![p] = FALSE]
    /\ UNCHANGED <<feed, authority, cursor, inbox, boundary>>

\* A lease ends; the process may go on polling until it notices.
Lapse(p) ==
    /\ lease[p].live
    /\ lease' = [lease EXCEPT ![p].live = FALSE]
    /\ UNCHANGED <<feed, authority, polling>>

PollStep(p) == Load(p) \/ FetchPage(p) \/ Retry(p) \/ Reject(p) \/ CommitPage(p)

Next ==
    \/ \E p \in Pollers : PollStep(p) \/ Register(p) \/ Lapse(p)
    \/ \E c \in Changes : Deliver(c)
    \/ Transition

Spec == Init /\ [][Next]_vars

-----------------------------------------------------------------------------
(* Properties. *)

\* Positions whose change polling must have stored.
Owed == {n \in boundary + 1 .. cursor.position : feed[n].kind \in ChangeKind}

\* Whatever the committed cursor has passed since activation is in the Inbox:
\* no lost answer, second poller or pause lets the cursor run ahead of a row.
NothingSkipped ==
    cursor.status = "active" =>
        \A n \in Owed : \E r \in inbox :
            r.key.change = feed[n] /\ r.key.cursor \in n..cursor.position

\* A change is stored at most once, and nothing from before the activation
\* boundary is: every row has an occurrence of its change since, and two rows
\* of equal changes have one that happened between them.  So two pollers,
\* retries and repeated pages add no second row.
StoredOnce ==
    /\ \A r \in inbox :
        r.key.cursor <= cursor.position
        /\ \E n \in boundary + 1 .. r.key.cursor : feed[n] = r.key.change
    /\ \A q, r \in inbox :
        q.key.change = r.key.change /\ q.key.cursor <= r.key.cursor /\ q # r =>
            \E n \in q.key.cursor + 1 .. r.key.cursor : feed[n] = r.key.change

\* The cursor never goes back, and every row is written by a session that
\* registered under the epoch the row carries, while that epoch was open.
FencedAndForward ==
    [][/\ cursor.position <= cursor'.position
       /\ \A r \in inbox' \ inbox :
            /\ authority.open /\ r.epoch = authority.epoch
            /\ \E p \in Pollers : lease[p].live /\ lease[p].epoch = r.epoch]_vars

\* Readiness is only reported once there is a cursor to poll from.
ReadyHasCursor == \A p \in Pollers : activated[p] => cursor.status = "active"

\* The cursor has been through the mailbox from the boundary up to where it is;
\* before the activation there is nothing.
CursorInFeed ==
    /\ boundary <= cursor.position /\ cursor.position <= Len(feed)
    /\ cursor.status = "absent" => cursor = NoCursor /\ inbox = {} /\ boundary = 0

\* A page in the hands of a process is what lies between its two cursors, or
\* repeats what is already stored at the cursor it started from.
PageOfFeed(checkpoint, page) ==
    /\ checkpoint.position <= page.cursor /\ page.cursor <= Len(feed)
    /\ \A c \in page.changes : c.kind \in ChangeKind
    /\ checkpoint.active =>
        \A n \in checkpoint.position + 1 .. page.cursor :
            feed[n].kind \in ChangeKind => feed[n] \in page.changes
    /\ \A c \in page.changes :
        \/ \E n \in checkpoint.position + 1 .. page.cursor : feed[n] = c
        \/ \E r \in inbox : r.key = _dedupe_key(page.cursor, c)
    /\ ~checkpoint.active => page.changes = {}

PagesFromFeed ==
    \A p \in Pollers :
        /\ poll[p].phase # "idle" => poll[p].checkpoint.position <= Len(feed)
        /\ poll[p].phase = "fetched" => PageOfFeed(poll[p].checkpoint, poll[p].page)

\* What holds of the Inbox, the cursor and the pollers in every state: two
\* pollers, retries and lost commits store no change twice, skip none and report
\* no readiness without a cursor (commit_page).  It is inductive.
PollingInv ==
    TypeOK /\ CursorInFeed /\ PagesFromFeed /\ StoredOnce /\ NothingSkipped /\ ReadyHasCursor

-----------------------------------------------------------------------------
(* Liveness: a registered poller keeps polling, the Gateway keeps answering *)
(* with the current delta, and a commit that keeps being possible happens.  *)

CurrentPage(p) ==
    /\ FetchPage(p)
    /\ poll'[p].page.cursor = Len(feed)

\* The process is up for good under an authority that stays open.
Settled == \E p \in Pollers : Fenced(p)

FairSpec ==
    /\ Spec
    /\ \A p \in Pollers : /\ WF_vars(PollStep(p))
                          /\ SF_vars(CurrentPage(p))
                          /\ SF_vars(CommitPage(p))

\* If one process keeps its session from some point on, every change the
\* mailbox has seen is eventually behind the cursor.
CatchesUp == <>[]Settled => <>[](cursor.position = Len(feed))
=============================================================================
