------------------------- MODULE PollingIngressProofs -------------------------
(***************************************************************************)
(* Proofs about polling: PollingInv is an invariant, whatever the numbers  *)
(* of pollers, changes and epochs, and a commit is fenced and forward.     *)
(*                                                                         *)
(* PollingInv is inductive.  The argument is about CommitPage alone: the   *)
(* page a process holds is what the mailbox has between two positions      *)
(* (PagesFromFeed), the commit compares the first of them with the cursor, *)
(* so the rows it adds are those of the positions the cursor passes.       *)
(***************************************************************************)
EXTENDS PollingIngress, SequenceTheorems, TLAPS

LEMMA ConstantFacts ==
    ASSUME PollingAssumption
    PROVE  /\ MaxFeed \in Nat \ {0} /\ MaxEpoch \in Nat \ {0} /\ 0 \in 0..MaxFeed
           /\ \A c \in Changes : c.kind \in ChangeKind \/ c.kind \in NonIngress
PROOF
  BY DEF PollingAssumption

\* The mailbox only grows at its end.
LEMMA FeedFacts ==
    ASSUME TypeOK
    PROVE  /\ Len(feed) \in Nat /\ DOMAIN feed = 1..Len(feed)
           /\ \A n \in 1..Len(feed) : feed[n] \in Changes
PROOF
  BY LenProperties, ElementOfSeq DEF TypeOK

-----------------------------------------------------------------------------
(* What only the inbox, the cursor and the mailbox are about.              *)

\* The rows, the cursor and the mailbox as PollingInv has them.
Stored ==
    /\ CursorInFeed /\ StoredOnce /\ NothingSkipped

LEMMA StoredStands ==
    ASSUME Stored, UNCHANGED <<feed, cursor, inbox, boundary>>
    PROVE  Stored'
PROOF
  BY DEF Stored, CursorInFeed, StoredOnce, NothingSkipped, Owed

LEMMA PagesStand ==
    ASSUME PagesFromFeed, UNCHANGED <<feed, inbox>>,
           \A p \in Pollers : poll'[p] = poll[p] \/ poll'[p].phase = "idle"
    PROVE  PagesFromFeed'
PROOF
  <1>1. \A p \in Pollers : poll'[p].phase # "idle" => poll'[p] = poll[p]
    OBVIOUS
  <1> QED BY <1>1 DEF PagesFromFeed, PageOfFeed

-----------------------------------------------------------------------------
LEMMA InvInit ==
    ASSUME PollingAssumption, Init
    PROVE  PollingInv
PROOF
  <1>1. /\ cursor = NoCursor /\ inbox = {} /\ boundary = 0
        /\ authority = [open |-> TRUE, epoch |-> 1]
        /\ lease = [p \in Pollers |-> NoLease] /\ poll = [p \in Pollers |-> Idle]
        /\ activated = [p \in Pollers |-> FALSE]
        /\ feed \in {<<>>} \union {<<c>> : c \in Changes}
    BY DEF Init
  <1>2. feed \in Seq(Changes) /\ Len(feed) \in 0..1
    <2>1. CASE feed = <<>>
      BY <2>1, EmptySeq
    <2>2. CASE \E c \in Changes : feed = <<c>>
      BY <2>2
    <2> QED BY <1>1, <2>1, <2>2
  <1>3. TypeOK
    <2>1. Idle \in Polls /\ NoLease \in [live : BOOLEAN, epoch : 0..MaxEpoch]
      BY ConstantFacts DEF Idle, Polls, NoLease
    <2>2. NoCursor \in [status : {"absent", "active"}, position : 0..MaxFeed, version : Nat]
      BY ConstantFacts DEF NoCursor
    <2>3. [open |-> TRUE, epoch |-> 1] \in [open : BOOLEAN, epoch : 1..MaxEpoch]
      BY ConstantFacts
    <2>4. /\ lease \in [Pollers -> [live : BOOLEAN, epoch : 0..MaxEpoch]]
          /\ poll \in [Pollers -> Polls] /\ activated \in [Pollers -> BOOLEAN]
      BY <1>1, <2>1
    <2>5. Len(feed) <= MaxFeed /\ boundary \in 0..MaxFeed
      <3>1. MaxFeed \in Nat \ {0} /\ 0 \in 0..MaxFeed
        BY ConstantFacts
      <3>2. Len(feed) <= MaxFeed
        <4>1. \A n \in 0..1 : n <= MaxFeed
          BY <3>1
        <4> QED BY <1>2, <4>1
      <3> QED BY <1>1, <3>1, <3>2
    <2> QED BY <1>1, <1>2, <2>2, <2>3, <2>4, <2>5 DEF TypeOK
  <1>4. CursorInFeed /\ StoredOnce /\ NothingSkipped
    BY <1>1, <1>2 DEF CursorInFeed, StoredOnce, NothingSkipped, NoCursor
  <1>5. PagesFromFeed /\ ReadyHasCursor
    BY <1>1 DEF PagesFromFeed, ReadyHasCursor, Idle
  <1> QED BY <1>3, <1>4, <1>5 DEF PollingInv

LEMMA LoadKeeps ==
    ASSUME PollingAssumption, PollingInv, NEW p \in Pollers, Load(p)
    PROVE  PollingInv'
PROOF
  <1> DEFINE ck == [active |-> cursor.status = "active", position |-> cursor.position,
                    version |-> cursor.version]
  <1>1. UNCHANGED <<feed, cursor, inbox, boundary, authority, lease, activated>>
    BY DEF Load, world
  <1>2. poll' = [poll EXCEPT ![p] = [phase |-> "loaded", checkpoint |-> ck]]
    BY DEF Load
  <1>3. ck \in Checkpoints
    <2>1. (cursor.status = "active") \in BOOLEAN
      OBVIOUS
    <2> QED BY <2>1 DEF PollingInv, TypeOK, Checkpoints
  <1> HIDE DEF ck
  <1>4. [phase |-> "loaded", checkpoint |-> ck] \in Polls
    BY <1>3 DEF Polls
  <1>5. TypeOK'
    BY <1>1, <1>2, <1>4 DEF PollingInv, TypeOK
  <1>6. \A q \in Pollers : q # p => poll'[q] = poll[q]
    BY <1>2 DEF PollingInv, TypeOK
  <1>7. poll'[p].phase = "loaded" /\ poll'[p].checkpoint.position <= Len(feed')
    BY <1>1, <1>2 DEF PollingInv, TypeOK, CursorInFeed, ck
  <1>8. PagesFromFeed'
    BY <1>1, <1>6, <1>7 DEF PollingInv, PagesFromFeed, PageOfFeed
  <1>9. Stored' /\ ReadyHasCursor'
    BY <1>1, StoredStands DEF PollingInv, Stored, ReadyHasCursor
  <1> QED BY <1>5, <1>8, <1>9 DEF PollingInv, Stored

\* Giving up a page, by itself or because of a failure, or registering anew.
LEMMA IdleKeeps ==
    ASSUME PollingInv, NEW p \in Pollers, poll' = [poll EXCEPT ![p] = Idle],
           activated' \in {activated, [activated EXCEPT ![p] = FALSE]},
           UNCHANGED <<feed, cursor, inbox, boundary, authority>>,
           lease' \in [Pollers -> [live : BOOLEAN, epoch : 0..MaxEpoch]]
    PROVE  PollingInv'
PROOF
  <1>1. Idle \in Polls /\ Idle.phase = "idle"
    BY DEF Idle, Polls
  <1>2. poll' \in [Pollers -> Polls]
    BY <1>1 DEF PollingInv, TypeOK
  <1>3. activated' \in [Pollers -> BOOLEAN] /\ \A q \in Pollers : activated'[q] => activated[q]
    BY DEF PollingInv, TypeOK
  <1>4. TypeOK'
    BY <1>2, <1>3 DEF PollingInv, TypeOK
  <1>5. \A q \in Pollers : poll'[q] = poll[q] \/ poll'[q].phase = "idle"
    BY <1>1 DEF PollingInv, TypeOK
  <1>6. Stored' /\ PagesFromFeed'
    BY <1>5, StoredStands, PagesStand DEF PollingInv, Stored
  <1>7. ReadyHasCursor'
    BY <1>3 DEF PollingInv, ReadyHasCursor
  <1> QED BY <1>4, <1>6, <1>7 DEF PollingInv, Stored

\* The surroundings that leave mailbox, rows, cursor and pollers alone.
LEMMA WorldKeeps ==
    ASSUME PollingInv, UNCHANGED <<feed, polling>>,
           authority' \in [open : BOOLEAN, epoch : 1..MaxEpoch],
           lease' \in [Pollers -> [live : BOOLEAN, epoch : 0..MaxEpoch]]
    PROVE  PollingInv'
PROOF
  <1>1. UNCHANGED <<feed, cursor, inbox, poll, activated, boundary>>
    BY DEF polling
  <1>2. TypeOK'
    BY <1>1 DEF PollingInv, TypeOK
  <1>3. Stored' /\ PagesFromFeed' /\ ReadyHasCursor'
    BY <1>1, StoredStands, PagesStand DEF PollingInv, Stored, ReadyHasCursor
  <1> QED BY <1>2, <1>3 DEF PollingInv, Stored

-----------------------------------------------------------------------------
(* A page.                                                                 *)

\* Every answer the client accepts is a page of the mailbox: what changed
\* since the checkpoint, or a repetition of what the cursor already stored.
LEMMA AnswersAreOfFeed ==
    ASSUME PollingAssumption, PollingInv, NEW ck \in Checkpoints, NEW pg \in Responses(ck),
           ck.position <= Len(feed)
    PROVE  pg \in Pages /\ PageOfFeed(ck, pg)
PROOF
  <1> DEFINE repeated == {r.key.change : r \in {x \in inbox : x.key.cursor = ck.position}}
             Accepted(items, discard) ==
                IF discard THEN {} ELSE _polling_sync_change_from_payload(items)
  <1>1. /\ ck.position \in 0..MaxFeed /\ ck.active \in BOOLEAN
        /\ Len(feed) \in 0..MaxFeed /\ Len(feed) \in Nat /\ MaxFeed \in Nat
        /\ \A n \in 1..Len(feed) : feed[n] \in Changes
    BY ConstantFacts, FeedFacts DEF Checkpoints, PollingInv, TypeOK
  <1>2. Delta(ck.position) = {feed[n] : n \in ck.position + 1 .. Len(feed)}
    BY DEF Delta
  <1>3. Delta(ck.position) \subseteq Changes
    BY <1>1, <1>2
  <1>4. repeated \subseteq Changes
    BY DEF PollingInv, TypeOK, InboxRow
  <1>5. \A items \in SUBSET Changes :
          /\ _polling_sync_change_from_payload(items) \subseteq items
          /\ \A c \in items : c.kind \in ChangeKind <=> c \in _polling_sync_change_from_payload(items)
    BY ConstantFacts DEF _polling_sync_change_from_payload, validate_sync_change_contract,
       ChangeKind, NonIngress
  <1>6. \/ pg = SyncBatch(Len(feed), Accepted(Delta(ck.position), ~ck.active))
        \/ ck.active /\ pg = SyncBatch(ck.position, Accepted(repeated, FALSE))
    BY DEF Responses, _polling_sync_batch_from_payload
  <1>7. CASE pg = SyncBatch(Len(feed), Accepted(Delta(ck.position), ~ck.active))
    <2>1. pg.cursor = Len(feed) /\ pg.changes = Accepted(Delta(ck.position), ~ck.active)
      BY <1>7 DEF SyncBatch
    <2>2. CASE ck.active
      <3>1. pg.changes = _polling_sync_change_from_payload(Delta(ck.position))
        BY <2>1, <2>2
      <3>2. /\ pg.changes \subseteq Delta(ck.position)
            /\ \A c \in Delta(ck.position) : c.kind \in ChangeKind <=> c \in pg.changes
        BY <1>3, <1>5, <3>1
      <3>3. pg \in Pages
        BY <1>1, <1>3, <1>7, <2>1, <3>2 DEF SyncBatch, Pages
      <3>4. PageOfFeed(ck, pg)
        BY <1>2, <2>1, <2>2, <3>2 DEF PageOfFeed
      <3> QED BY <3>3, <3>4
    <2>3. CASE ~ck.active
      <3>1. pg.changes = {}
        BY <2>1, <2>3
      <3>2. pg \in Pages
        BY <1>1, <1>7, <2>1, <3>1 DEF SyncBatch, Pages
      <3> QED BY <2>1, <2>3, <3>1, <3>2 DEF PageOfFeed
    <2> QED BY <2>2, <2>3
  <1>8. CASE ck.active /\ pg = SyncBatch(ck.position, Accepted(repeated, FALSE))
    <2>1. /\ pg.cursor = ck.position
          /\ pg.changes = _polling_sync_change_from_payload(repeated)
      BY <1>8 DEF SyncBatch
    <2>2. /\ pg.changes \subseteq repeated
          /\ \A c \in pg.changes : c.kind \in ChangeKind
      BY <1>4, <1>5, <2>1
    <2>3. pg \in Pages
      BY <1>1, <1>4, <1>8, <2>1, <2>2 DEF SyncBatch, Pages
    <2>4. \A c \in pg.changes : \E r \in inbox : r.key = _dedupe_key(pg.cursor, c)
      <3> SUFFICES ASSUME NEW c \in pg.changes
                   PROVE  \E r \in inbox : r.key = _dedupe_key(pg.cursor, c)
        OBVIOUS
      <3>1. PICK r \in inbox : r.key.cursor = ck.position /\ r.key.change = c
        BY <2>2
      <3>2. r.key \in [cursor : 0..MaxFeed, change : Changes]
        BY DEF PollingInv, TypeOK, InboxRow
      <3>3. r.key = _dedupe_key(pg.cursor, c)
        BY <2>1, <3>1, <3>2 DEF _dedupe_key
      <3> QED BY <3>3
    <2>5. \A n \in ck.position + 1 .. pg.cursor : FALSE
      BY <1>1, <2>1
    <2>6. ck.position <= pg.cursor /\ pg.cursor <= Len(feed)
      BY <1>1, <2>1
    <2>7. PageOfFeed(ck, pg)
      <3> HIDE DEF repeated
      <3> QED BY <1>8, <2>2, <2>4, <2>5, <2>6 DEF PageOfFeed
    <2> QED BY <2>3, <2>7
  <1> QED BY <1>6, <1>7, <1>8

LEMMA FetchKeeps ==
    ASSUME PollingAssumption, PollingInv, NEW p \in Pollers, FetchPage(p)
    PROVE  PollingInv'
PROOF
  <1>1. UNCHANGED <<feed, cursor, inbox, boundary, authority, lease, activated>>
    BY DEF FetchPage, world
  <1> DEFINE ck == poll[p].checkpoint
  <1>2. poll[p].phase = "loaded" /\ ck \in Checkpoints /\ ck.position <= Len(feed)
    BY DEF FetchPage, PollingInv, TypeOK, Polls, PagesFromFeed
  <1>3. PICK pg \in Responses(ck) :
          poll' = [poll EXCEPT ![p] = [phase |-> "fetched", checkpoint |-> ck, page |-> pg]]
    BY DEF FetchPage
  <1> DEFINE held == [phase |-> "fetched", checkpoint |-> ck, page |-> pg]
  <1>4. pg \in Pages /\ PageOfFeed(ck, pg)
    <2> HIDE DEF ck
    <2> QED BY <1>2, AnswersAreOfFeed
  <1>5. held \in Polls
    BY <1>2, <1>4 DEF Polls
  <1>6. /\ poll'[p] = held /\ poll' \in [Pollers -> Polls]
        /\ \A q \in Pollers : q # p => poll'[q] = poll[q]
    <2> HIDE DEF held
    <2>1. poll' = [poll EXCEPT ![p] = held]
      BY <1>3 DEF held
    <2> QED BY <1>5, <2>1 DEF PollingInv, TypeOK
  <1>7. TypeOK'
    BY <1>1, <1>6 DEF PollingInv, TypeOK
  <1>8. PagesFromFeed'
    <2>1. held.checkpoint = ck /\ held.page = pg
      OBVIOUS
    <2> HIDE DEF held, ck
    <2> QED BY <1>1, <1>2, <1>4, <1>6, <2>1 DEF PollingInv, PagesFromFeed, PageOfFeed
  <1>9. Stored' /\ ReadyHasCursor'
    BY <1>1, StoredStands DEF PollingInv, Stored, ReadyHasCursor
  <1> QED BY <1>7, <1>8, <1>9 DEF PollingInv, Stored

\* What was said about positions of the mailbox stays true when it grows.
LEMMA DeliverKeeps ==
    ASSUME PollingAssumption, PollingInv, NEW c \in Changes, Deliver(c)
    PROVE  PollingInv'
PROOF
  <1>1. /\ UNCHANGED <<cursor, inbox, poll, activated, boundary, authority, lease>>
        /\ Len(feed) < MaxFeed /\ feed' = Append(feed, c)
    BY DEF Deliver, polling
  <1>2. Len(feed) \in Nat /\ MaxFeed \in Nat
    BY FeedFacts, ConstantFacts DEF PollingInv
  <1>3. /\ feed' \in Seq(Changes) /\ Len(feed') = Len(feed) + 1
        /\ \A n \in 1..Len(feed) : feed'[n] = feed[n]
    BY <1>1, AppendProperties DEF PollingInv, TypeOK
  <1>4. TypeOK'
    BY <1>1, <1>2, <1>3 DEF PollingInv, TypeOK
  <1>5. /\ boundary \in Nat /\ cursor.position \in Nat
        /\ boundary <= cursor.position /\ cursor.position <= Len(feed)
    BY <1>2 DEF PollingInv, TypeOK, CursorInFeed
  <1>6. CursorInFeed'
    BY <1>1, <1>2, <1>3, <1>5 DEF PollingInv, CursorInFeed
  <1>7. \A n \in boundary + 1 .. cursor.position : feed'[n] = feed[n]
    BY <1>2, <1>3, <1>5
  <1>8. NothingSkipped'
    BY <1>1, <1>7 DEF PollingInv, NothingSkipped, Owed
  <1>9. ASSUME NEW r \in inbox
        PROVE  r.key.cursor \in 0..MaxFeed /\ r.key.cursor <= cursor.position
    BY DEF PollingInv, TypeOK, InboxRow, StoredOnce
  <1>10. StoredOnce'
    <2>1. ASSUME NEW r \in inbox, NEW low \in Nat
          PROVE  \A n \in low + 1 .. r.key.cursor : feed'[n] = feed[n]
      BY <1>2, <1>3, <1>5, <1>9
    <2>2. ASSUME NEW r \in inbox
          PROVE  /\ r.key.cursor <= cursor.position
                 /\ \E n \in boundary + 1 .. r.key.cursor : feed'[n] = r.key.change
      BY <1>5, <2>1 DEF PollingInv, StoredOnce
    <2>3. ASSUME NEW q \in inbox, NEW r \in inbox, q.key.change = r.key.change,
                 q.key.cursor <= r.key.cursor, q # r
          PROVE  \E n \in q.key.cursor + 1 .. r.key.cursor : feed'[n] = r.key.change
      <3>1. q.key.cursor \in Nat
        BY <1>2, <1>9
      <3> QED BY <2>1, <2>3, <3>1 DEF PollingInv, StoredOnce
    <2> QED BY <1>1, <2>2, <2>3 DEF StoredOnce
  <1>11. PagesFromFeed'
    <2> SUFFICES ASSUME NEW p \in Pollers
                 PROVE  /\ poll[p].phase # "idle" => poll[p].checkpoint.position <= Len(feed')
                        /\ poll[p].phase = "fetched" => PageOfFeed(poll[p].checkpoint, poll[p].page)'
      BY <1>1 DEF PagesFromFeed, PageOfFeed
    <2> DEFINE ck == poll[p].checkpoint
               pg == poll[p].page
    <2>1. CASE poll[p].phase = "loaded"
      <3>1. ck \in Checkpoints /\ ck.position <= Len(feed)
        BY <2>1 DEF PollingInv, TypeOK, Polls, PagesFromFeed
      <3>2. ck.position <= Len(feed')
        BY <1>2, <1>3, <3>1 DEF Checkpoints
      <3> QED BY <2>1, <3>2
    <2>2. CASE poll[p].phase = "fetched"
      <3>1. /\ ck.position \in Nat /\ pg.cursor \in Nat /\ ck.position <= Len(feed)
            /\ PageOfFeed(ck, pg)
        BY <1>2, <2>2 DEF PollingInv, TypeOK, Polls, Checkpoints, Pages, PagesFromFeed
      <3>2. ck.position <= Len(feed')
        BY <1>2, <1>3, <3>1
      <3>3. \A n \in ck.position + 1 .. pg.cursor : feed'[n] = feed[n]
        BY <1>2, <1>3, <3>1 DEF PageOfFeed
      <3>4. pg.cursor <= Len(feed')
        BY <1>2, <1>3, <3>1 DEF PageOfFeed
      <3>5. PageOfFeed(ck, pg)'
        <4>1. ck' = ck /\ pg' = pg
          BY <1>1
        <4> HIDE DEF ck, pg
        <4> QED BY <1>1, <3>1, <3>3, <3>4, <4>1 DEF PageOfFeed
      <3> QED BY <3>2, <3>5
    <2>3. poll[p].phase \in {"idle", "loaded", "fetched"}
      BY DEF PollingInv, TypeOK, Polls
    <2> QED BY <2>1, <2>2, <2>3
  <1>12. ReadyHasCursor'
    BY <1>1 DEF PollingInv, ReadyHasCursor
  <1> QED BY <1>4, <1>6, <1>8, <1>10, <1>11, <1>12 DEF PollingInv

-----------------------------------------------------------------------------
(* The commit.                                                             *)

\* The events of a page: one row per change, under the page's own cursor.
LEMMA EventsOfPage ==
    ASSUME PollingAssumption, TypeOK, NEW pg \in Pages, \A c \in pg.changes : c.kind \in ChangeKind,
           NEW events, events = _envelopes(pg.cursor, NormalizedEvents(pg))
    PROVE  /\ \A e \in events : e.key = _dedupe_key(pg.cursor, e.key.change)
                                /\ e.key.change \in pg.changes
           /\ \A c \in pg.changes : \E e \in events : e.key = _dedupe_key(pg.cursor, c)
           /\ \A e \in events : Row(e) \in InboxRow /\ Row(e).key = e.key
                                /\ (Row(e).status = "completed" <=> Row(e).policy = "ignored")
                                /\ Row(e).epoch = authority.epoch
           /\ \A d, e \in events : d.key = e.key => d = e
PROOF
  <1>1. /\ \A c \in pg.changes : normalize_sync_change(pg.cursor, c) \in events
        /\ \A e \in events : \E c \in pg.changes : e = normalize_sync_change(pg.cursor, c)
    BY DEF _envelopes, NormalizedEvents, normalize_sync_change, _dedupe_key
  <1>2. \A c \in pg.changes :
          /\ normalize_sync_change(pg.cursor, c).key = _dedupe_key(pg.cursor, c)
          /\ normalize_sync_change(pg.cursor, c).policy = resolve(c.kind)
          /\ _dedupe_key(pg.cursor, c).change = c
          /\ _dedupe_key(pg.cursor, c) \in [cursor : 0..MaxFeed, change : Changes]
    BY DEF normalize_sync_change, _dedupe_key, Pages
  <1>3. \A c \in pg.changes : resolve(c.kind) \in ProcessingPolicy
    BY DEF resolve, PolicyMatrix, ChangeKind, ProcessingPolicy, PollingAssumption
  <1>4. authority.epoch \in 1..MaxEpoch
    BY DEF TypeOK
  <1>5. ASSUME NEW e \in events
        PROVE  /\ e.key = _dedupe_key(pg.cursor, e.key.change) /\ e.key.change \in pg.changes
               /\ Row(e) \in InboxRow /\ Row(e).key = e.key
               /\ (Row(e).status = "completed" <=> Row(e).policy = "ignored")
               /\ Row(e).epoch = authority.epoch
    <2>1. PICK c \in pg.changes : e = normalize_sync_change(pg.cursor, c)
      BY <1>1
    <2>2. /\ e.key = _dedupe_key(pg.cursor, c) /\ e.key.change = c
          /\ e.key \in [cursor : 0..MaxFeed, change : Changes]
          /\ e.policy \in ProcessingPolicy
      BY <1>2, <1>3, <2>1
    <2>3. /\ Row(e).key = e.key /\ Row(e).policy = e.policy /\ Row(e).epoch = authority.epoch
          /\ Row(e).status = IF e.policy = "ignored" THEN "completed" ELSE "pending"
      BY DEF Row
    <2>4. Row(e) \in InboxRow
      BY <1>4, <2>2, <2>3 DEF Row, InboxRow
    <2> QED BY <2>2, <2>3, <2>4
  <1>6. \A c \in pg.changes : \E e \in events : e.key = _dedupe_key(pg.cursor, c)
    BY <1>1, <1>2
  <1>7. ASSUME NEW d \in events, NEW e \in events, d.key = e.key
        PROVE  d = e
    <2>1. PICK c1 \in pg.changes : d = normalize_sync_change(pg.cursor, c1)
      BY <1>1
    <2>2. PICK c2 \in pg.changes : e = normalize_sync_change(pg.cursor, c2)
      BY <1>1
    <2> QED BY <1>2, <1>7, <2>1, <2>2
  <1> QED BY <1>5, <1>6, <1>7

\* The rows after a commit: the old ones, and for each change of the page that
\* was not stored under its cursor yet a new one.
LEMMA RowsAfterCommit ==
    ASSUME PollingAssumption, TypeOK, NEW pg \in Pages, \A c \in pg.changes : c.kind \in ChangeKind,
           inbox' = inbox \union Inserted(_envelopes(pg.cursor, NormalizedEvents(pg)))
    PROVE  /\ inbox \subseteq inbox'
           /\ \A r \in inbox' :
                r \in InboxRow /\ (r.status = "completed" <=> r.policy = "ignored")
           /\ \A r \in inbox' \ inbox :
                /\ r.epoch = authority.epoch
                /\ r.key = _dedupe_key(pg.cursor, r.key.change) /\ r.key.change \in pg.changes
                /\ r.key.cursor = pg.cursor
                /\ \A x \in inbox : x.key # r.key
           /\ \A c \in pg.changes : \E r \in inbox' : r.key = _dedupe_key(pg.cursor, c)
           /\ \A q, r \in inbox' \ inbox : q.key = r.key => q = r
           /\ pg.changes = {} => inbox' = inbox
PROOF
  <1> DEFINE events == _envelopes(pg.cursor, NormalizedEvents(pg))
  <1>1. /\ \A e \in events : e.key = _dedupe_key(pg.cursor, e.key.change)
                             /\ e.key.change \in pg.changes
        /\ \A c \in pg.changes : \E e \in events : e.key = _dedupe_key(pg.cursor, c)
        /\ \A e \in events : Row(e) \in InboxRow /\ Row(e).key = e.key
                             /\ (Row(e).status = "completed" <=> Row(e).policy = "ignored")
                             /\ Row(e).epoch = authority.epoch
        /\ \A d, e \in events : d.key = e.key => d = e
    BY EventsOfPage
  <1>2. inbox' = inbox \union {Row(e) : e \in {x \in events : \A r \in inbox : r.key # x.key}}
    BY DEF Inserted
  <1> HIDE DEF events
  <1>3. \A r \in inbox' \ inbox :
          \E e \in events : r = Row(e) /\ \A x \in inbox : x.key # e.key
    BY <1>2
  <1>4. \A e \in events : (\A x \in inbox : x.key # e.key) => Row(e) \in inbox'
    BY <1>2
  <1>5. inbox \subseteq inbox'
    BY <1>2
  <1>6. ASSUME NEW r \in inbox' \ inbox
        PROVE  /\ r \in InboxRow /\ (r.status = "completed" <=> r.policy = "ignored")
               /\ r.epoch = authority.epoch
               /\ r.key = _dedupe_key(pg.cursor, r.key.change) /\ r.key.change \in pg.changes
               /\ r.key.cursor = pg.cursor
               /\ \A x \in inbox : x.key # r.key
    <2>1. PICK e \in events : r = Row(e) /\ \A x \in inbox : x.key # e.key
      BY <1>3
    <2>2. r.key = e.key
      BY <1>1, <2>1
    <2>3. _dedupe_key(pg.cursor, e.key.change).cursor = pg.cursor
      BY DEF _dedupe_key
    <2> QED BY <1>1, <2>1, <2>2, <2>3
  <1>7. \A r \in inbox' : r \in InboxRow /\ (r.status = "completed" <=> r.policy = "ignored")
    BY <1>6 DEF TypeOK
  <1>8. ASSUME NEW c \in pg.changes
        PROVE  \E r \in inbox' : r.key = _dedupe_key(pg.cursor, c)
    <2>1. PICK e \in events : e.key = _dedupe_key(pg.cursor, c)
      BY <1>1
    <2>2. CASE \A x \in inbox : x.key # e.key
      BY <1>1, <1>4, <2>1, <2>2
    <2>3. CASE \E x \in inbox : x.key = e.key
      BY <1>5, <2>1, <2>3
    <2> QED BY <2>2, <2>3
  <1>9. ASSUME NEW q \in inbox' \ inbox, NEW r \in inbox' \ inbox, q.key = r.key
        PROVE  q = r
    <2>1. PICK d \in events : q = Row(d)
      BY <1>3
    <2>2. PICK e \in events : r = Row(e)
      BY <1>3
    <2> QED BY <1>1, <1>9, <2>1, <2>2
  <1>10. ASSUME pg.changes = {} PROVE inbox' = inbox
    BY <1>5, <1>6, <1>10
  <1> QED BY <1>5, <1>6, <1>7, <1>8, <1>9, <1>10

\* What a commit does to the rows, given what its page is: the new ones belong
\* to the positions between the old cursor and the new.
LEMMA CommitKeepsStored ==
    ASSUME PollingAssumption, PollingInv, NEW p \in Pollers, CommitPage(p)
    PROVE  /\ Stored'
           /\ cursor' \in [status : {"absent", "active"}, position : 0..MaxFeed, version : Nat]
           /\ cursor'.status = "active"
           /\ cursor.position <= cursor'.position
           /\ boundary' \in 0..MaxFeed
           /\ inbox \subseteq inbox'
           /\ \A r \in inbox' :
                r \in InboxRow /\ (r.status = "completed" <=> r.policy = "ignored")
           /\ \A r \in inbox' \ inbox : r.epoch = authority.epoch
PROOF
  <1> DEFINE pg == poll[p].page
             ck == poll[p].checkpoint
  <1>1. /\ poll[p].phase = "fetched" /\ ck \in Checkpoints /\ pg \in Pages
        /\ PageOfFeed(ck, pg)
    BY DEF CommitPage, PollingInv, TypeOK, Polls, PagesFromFeed
  <1>2. /\ ck.active = (cursor.status = "active") /\ ck.position = cursor.position
        /\ inbox' = inbox \union Inserted(_envelopes(pg.cursor, NormalizedEvents(pg)))
        /\ cursor' = [status |-> "active", position |-> pg.cursor, version |-> cursor.version + 1]
        /\ boundary' = (IF ck.active THEN boundary ELSE pg.cursor)
        /\ feed' = feed
    BY DEF CommitPage, CursorUnmoved, world
  <1> HIDE DEF pg, ck
  <1>3. /\ cursor.position \in 0..MaxFeed /\ pg.cursor \in 0..MaxFeed /\ cursor.version \in Nat
        /\ boundary \in 0..MaxFeed /\ Len(feed) \in Nat /\ MaxFeed \in Nat
        /\ boundary <= cursor.position /\ cursor.position <= Len(feed)
        /\ cursor.position <= pg.cursor /\ pg.cursor <= Len(feed)
    BY <1>1, <1>2, ConstantFacts, FeedFacts DEF PollingInv, TypeOK, CursorInFeed, Pages, PageOfFeed
  <1>4. \A c \in pg.changes : c.kind \in ChangeKind
    BY <1>1 DEF PageOfFeed
  <1>5. /\ inbox \subseteq inbox'
        /\ \A r \in inbox' :
             r \in InboxRow /\ (r.status = "completed" <=> r.policy = "ignored")
        /\ \A r \in inbox' \ inbox :
             /\ r.epoch = authority.epoch
             /\ r.key = _dedupe_key(pg.cursor, r.key.change) /\ r.key.change \in pg.changes
             /\ r.key.cursor = pg.cursor
             /\ \A x \in inbox : x.key # r.key
        /\ \A c \in pg.changes : \E r \in inbox' : r.key = _dedupe_key(pg.cursor, c)
        /\ \A q, r \in inbox' \ inbox : q.key = r.key => q = r
        /\ pg.changes = {} => inbox' = inbox
    BY <1>1, <1>2, <1>4, RowsAfterCommit DEF PollingInv
  <1>6. cursor'.status = "active" /\ cursor'.position = pg.cursor
    BY <1>2
  <1>7. CASE ~ck.active
    <2>1. cursor.status = "absent" /\ inbox = {} /\ inbox' = {} /\ boundary' = pg.cursor
      BY <1>1, <1>2, <1>5, <1>7 DEF PollingInv, TypeOK, CursorInFeed, PageOfFeed
    <2>2. CursorInFeed' /\ StoredOnce' /\ NothingSkipped'
      BY <1>2, <1>3, <1>6, <2>1 DEF CursorInFeed, StoredOnce, NothingSkipped, Owed
    <2> QED BY <1>2, <1>3, <1>5, <1>6, <2>1, <2>2 DEF Stored
  <1>8. CASE ck.active
    <2>1. cursor.status = "active" /\ boundary' = boundary
      BY <1>2, <1>8
    <2>2. CursorInFeed'
      BY <1>2, <1>3, <1>6, <2>1 DEF CursorInFeed
    <2>3. \A r \in inbox : r.key.cursor \in 0..MaxFeed /\ r.key.cursor <= cursor.position
      BY DEF PollingInv, TypeOK, InboxRow, StoredOnce
    <2>4. ASSUME NEW r \in inbox' \ inbox
          PROVE  /\ r.key.cursor = pg.cursor
                 /\ \E n \in cursor.position + 1 .. pg.cursor : feed[n] = r.key.change
      BY <1>1, <1>2, <1>5 DEF PageOfFeed
    <2>5. StoredOnce'
      <3>1. ASSUME NEW r \in inbox'
            PROVE  /\ r.key.cursor <= pg.cursor
                   /\ \E n \in boundary + 1 .. r.key.cursor : feed[n] = r.key.change
        <4>1. CASE r \in inbox
          BY <1>3, <2>3, <4>1 DEF PollingInv, StoredOnce
        <4>2. CASE r \notin inbox
          BY <1>3, <2>4, <4>2
        <4> QED BY <4>1, <4>2
      <3>2. ASSUME NEW q \in inbox', NEW r \in inbox', q.key.change = r.key.change,
                   q.key.cursor <= r.key.cursor, q # r
            PROVE  \E n \in q.key.cursor + 1 .. r.key.cursor : feed[n] = r.key.change
        <4>1. CASE q \in inbox /\ r \in inbox
          BY <3>2, <4>1 DEF PollingInv, StoredOnce
        <4>2. CASE q \in inbox /\ r \notin inbox
          BY <1>3, <2>3, <2>4, <4>2
        <4>3. CASE q \notin inbox /\ r \in inbox
          <5>1. PICK n \in cursor.position + 1 .. pg.cursor : TRUE
            BY <2>4, <4>3
          <5>2. pg.cursor <= cursor.position
            BY <1>3, <2>3, <2>4, <3>2, <4>3
          <5> QED BY <1>3, <5>1, <5>2
        <4>4. CASE q \notin inbox /\ r \notin inbox
          <5>1. q.key = r.key
            BY <1>5, <3>2, <4>4
          <5> QED BY <1>5, <3>2, <4>4, <5>1
        <4> QED BY <4>1, <4>2, <4>3, <4>4
      <3> QED BY <1>2, <1>6, <2>1, <3>1, <3>2 DEF StoredOnce
    <2>6. NothingSkipped'
      <3> SUFFICES ASSUME NEW n \in boundary + 1 .. pg.cursor, feed[n].kind \in ChangeKind
                   PROVE  \E r \in inbox' : r.key.change = feed[n] /\ r.key.cursor \in n..pg.cursor
        BY <1>2, <1>6, <2>1 DEF NothingSkipped, Owed
      <3>1. CASE n <= cursor.position
        <4>1. n \in Owed
          BY <1>3, <3>1 DEF Owed
        <4>2. PICK r \in inbox : r.key.change = feed[n] /\ r.key.cursor \in n..cursor.position
          BY <2>1, <4>1 DEF PollingInv, NothingSkipped
        <4>3. r.key.cursor \in n..pg.cursor
          BY <1>3, <4>2
        <4> QED BY <1>5, <4>2, <4>3
      <3>2. CASE n > cursor.position
        <4>1. feed[n] \in pg.changes
          BY <1>1, <1>2, <1>3, <1>8, <3>2 DEF PageOfFeed
        <4>2. PICK r \in inbox' : r.key = _dedupe_key(pg.cursor, feed[n])
          BY <1>5, <4>1
        <4>3. r.key.change = feed[n] /\ r.key.cursor = pg.cursor
          BY <4>2 DEF _dedupe_key
        <4> QED BY <1>3, <4>3
      <3> QED BY <1>3, <3>1, <3>2
    <2> QED BY <1>2, <1>3, <1>5, <1>6, <2>1, <2>2, <2>5, <2>6 DEF Stored
  <1> QED BY <1>1, <1>7, <1>8 DEF Checkpoints

LEMMA CommitKeeps ==
    ASSUME PollingAssumption, PollingInv, NEW p \in Pollers, CommitPage(p)
    PROVE  PollingInv'
PROOF
  <1>1. /\ Stored' /\ cursor'.status = "active" /\ inbox \subseteq inbox'
        /\ cursor' \in [status : {"absent", "active"}, position : 0..MaxFeed, version : Nat]
        /\ boundary' \in 0..MaxFeed
        /\ \A r \in inbox' :
             r \in InboxRow /\ (r.status = "completed" <=> r.policy = "ignored")
    BY CommitKeepsStored
  <1>2. /\ poll' = [poll EXCEPT ![p] = Idle] /\ UNCHANGED <<feed, authority, lease>>
        /\ activated' \in {activated, [activated EXCEPT ![p] = TRUE]}
    BY DEF CommitPage, world
  <1>3. Idle \in Polls /\ Idle.phase = "idle"
    BY DEF Idle, Polls
  <1>4. poll' \in [Pollers -> Polls] /\ activated' \in [Pollers -> BOOLEAN]
    BY <1>2, <1>3 DEF PollingInv, TypeOK
  <1>5. TypeOK'
    BY <1>1, <1>2, <1>4 DEF PollingInv, TypeOK
  <1>6. \A q \in Pollers : poll'[q] = poll[q] \/ poll'[q].phase = "idle"
    BY <1>2, <1>3 DEF PollingInv, TypeOK
  <1>7. PagesFromFeed'
    BY <1>1, <1>2, <1>6 DEF PollingInv, PagesFromFeed, PageOfFeed
  <1>8. ReadyHasCursor'
    BY <1>1 DEF ReadyHasCursor
  <1> QED BY <1>1, <1>5, <1>7, <1>8 DEF PollingInv, Stored

LEMMA InvStep ==
    ASSUME PollingAssumption, PollingInv, [Next]_vars
    PROVE  PollingInv'
PROOF
  <1>1. /\ authority \in [open : BOOLEAN, epoch : 1..MaxEpoch]
        /\ lease \in [Pollers -> [live : BOOLEAN, epoch : 0..MaxEpoch]]
        /\ MaxEpoch \in Nat
    BY ConstantFacts DEF PollingInv, TypeOK
  <1>2. ASSUME NEW p \in Pollers, Load(p) PROVE PollingInv'
    BY <1>2, LoadKeeps
  <1>3. ASSUME NEW p \in Pollers, FetchPage(p) PROVE PollingInv'
    BY <1>3, FetchKeeps
  <1>4. ASSUME NEW p \in Pollers, Retry(p) \/ Reject(p) PROVE PollingInv'
    <2>1. /\ poll' = [poll EXCEPT ![p] = Idle]
          /\ activated' \in {activated, [activated EXCEPT ![p] = FALSE]}
          /\ UNCHANGED <<feed, cursor, inbox, boundary, authority, lease>>
      BY <1>4 DEF Retry, Reject, world
    <2> QED BY <1>1, <2>1, IdleKeeps
  <1>5. ASSUME NEW p \in Pollers, CommitPage(p) PROVE PollingInv'
    BY <1>5, CommitKeeps
  <1>6. ASSUME NEW p \in Pollers, Register(p) PROVE PollingInv'
    <2>1. lease' = [lease EXCEPT ![p] = [live |-> TRUE, epoch |-> authority.epoch]]
      BY <1>6 DEF Register
    <2>2. [live |-> TRUE, epoch |-> authority.epoch] \in [live : BOOLEAN, epoch : 0..MaxEpoch]
      BY <1>1
    <2>3. lease' \in [Pollers -> [live : BOOLEAN, epoch : 0..MaxEpoch]]
      BY <1>1, <2>1, <2>2
    <2> QED BY <1>6, <2>3, IdleKeeps DEF Register
  <1>7. ASSUME NEW p \in Pollers, Lapse(p) PROVE PollingInv'
    <2>1. lease' \in [Pollers -> [live : BOOLEAN, epoch : 0..MaxEpoch]]
      BY <1>1, <1>7 DEF Lapse
    <2> QED BY <1>1, <1>7, <2>1, WorldKeeps DEF Lapse
  <1>8. ASSUME NEW c \in Changes, Deliver(c) PROVE PollingInv'
    BY <1>8, DeliverKeeps
  <1>9. ASSUME Transition PROVE PollingInv'
    <2>1. authority' \in [open : BOOLEAN, epoch : 1..MaxEpoch]
      BY <1>1, <1>9 DEF Transition
    <2> QED BY <1>1, <1>9, <2>1, WorldKeeps DEF Transition
  <1>10. ASSUME UNCHANGED vars PROVE PollingInv'
    BY <1>1, <1>10, WorldKeeps DEF vars, polling
  <1> QED BY <1>2, <1>3, <1>4, <1>5, <1>6, <1>7, <1>8, <1>9, <1>10 DEF Next, PollStep

\* greenfield_commit_sync_page: for any pollers, changes and epochs, the cursor
\* and every page under way are places and stretches of the mailbox's feed, no
\* change is stored twice, and no process reports readiness without a cursor.
THEOREM PollingHolds ==
    ASSUME PollingAssumption
    PROVE  Spec => []PollingInv
PROOF
  <1>1. Init => PollingInv
    BY InvInit
  <1>2. PollingInv /\ [Next]_vars => PollingInv'
    BY InvStep
  <1> QED BY <1>1, <1>2, PTL DEF Spec

\* greenfield_commit_sync_page: every change that the saved cursor has passed
\* since the activation boundary is stored, whatever was lost or repeated.
THEOREM NothingIsSkipped ==
    ASSUME PollingAssumption
    PROVE  Spec => []NothingSkipped
PROOF
  <1>1. PollingInv => NothingSkipped
    BY DEF PollingInv
  <1> QED BY <1>1, PollingHolds, PTL

LEMMA FencedStep ==
    ASSUME PollingAssumption, PollingInv, Next
    PROVE  /\ cursor.position <= cursor'.position
           /\ \A r \in inbox' \ inbox :
                /\ authority.open /\ r.epoch = authority.epoch
                /\ \E p \in Pollers : lease[p].live /\ lease[p].epoch = r.epoch
PROOF
  <1>1. CASE UNCHANGED <<cursor, inbox>>
    BY <1>1 DEF PollingInv, TypeOK
  <1>2. ASSUME NEW p \in Pollers, CommitPage(p)
        PROVE  /\ cursor.position <= cursor'.position
               /\ \A r \in inbox' \ inbox :
                    /\ authority.open /\ r.epoch = authority.epoch
                    /\ \E q \in Pollers : lease[q].live /\ lease[q].epoch = r.epoch
    <2>1. Fenced(p)
      BY <1>2 DEF CommitPage
    <2>2. /\ cursor.position <= cursor'.position
          /\ \A r \in inbox' \ inbox : r.epoch = authority.epoch
      BY <1>2, CommitKeepsStored
    <2> QED BY <2>1, <2>2 DEF Fenced
  <1>3. UNCHANGED <<cursor, inbox>> \/ \E p \in Pollers : CommitPage(p)
    BY DEF Next, PollStep, Load, FetchPage, Retry, Reject, Register, Lapse, Deliver, Transition,
           polling
  <1> QED BY <1>1, <1>2, <1>3

\* greenfield_commit_sync_page: whatever the others do, the cursor never goes
\* back and a row is written under the open epoch of a live session.
THEOREM CommitsAreFenced ==
    ASSUME PollingAssumption
    PROVE  Spec => FencedAndForward
PROOF
  <1>1. Spec => []PollingInv
    BY PollingHolds
  <1>2. PollingInv /\ [Next]_vars =>
          [/\ cursor.position <= cursor'.position
           /\ \A r \in inbox' \ inbox :
                /\ authority.open /\ r.epoch = authority.epoch
                /\ \E p \in Pollers : lease[p].live /\ lease[p].epoch = r.epoch]_vars
    BY FencedStep
  <1> QED BY <1>1, <1>2, PTL DEF Spec, FencedAndForward
=============================================================================
