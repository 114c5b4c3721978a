----------------------------- MODULE DailyDigest ------------------------------
(***************************************************************************)
(* The daily digest: for every completed reporting window one execution    *)
(* row with the ordered message parts, sent to the chat one after the      *)
(* other.  A send whose outcome is lost is settled by reading the chat     *)
(* back; an execution that is not confirmed when the next window closes is *)
(* missed and named in the next digest.                                    *)
(***************************************************************************)
EXTENDS Integers, FiniteSets

CONSTANTS
    Schedulers,  \* DailyDigestScheduler loops, one per process
    Mails,       \* inbound messages (CREATE rows of the inbox)
    MaxParts,    \* parts a digest can need
    Day,         \* ticks of a reporting window
    Flight,      \* ticks within which Feishu settles a request
    Delay,       \* reconciliation_delay_seconds
    MaxClock     \* bound: the clock

\* What the model assumes of its constants: Feishu settles a request before
\* its outcome is reconciled, and the clock lives to see a first window end.
DigestAssumption ==
    /\ MaxParts \in Nat \ {0} /\ Day \in Nat \ {0} /\ MaxClock \in Nat /\ Day <= MaxClock
    /\ Flight \in Nat /\ Delay \in Nat /\ Flight < Delay

Windows == 1..(MaxClock \div Day)
Parts == 1..MaxParts
Times == 0..MaxClock

VARIABLES
    now,
    mail,       \* inbox rows: being written, stored, when received, settled?
    execution,  \* daily_digest_executions
    reported,   \* windows with missed_reported_at
    requests,   \* messages on their way to Feishu
    chat,       \* what the chat shows: copies of each part
    sched       \* run_due of each scheduler

vars == <<now, mail, execution, reported, requests, chat, sched>>

-----------------------------------------------------------------------------
\* The window that ended last.
latest_completed == now \div Day

WindowOf(time) == (time \div Day) + 1

Missing == [state |-> "missing", parts |-> <<>>, emails |-> {}, missed |-> {}]
PendingPart == [state |-> "pending", last |-> 0, next |-> 0]

Idle == [pc |-> "idle", window |-> 0, part |-> 0, emails |-> {}, missed |-> {},
         found |-> {}]

PartState == [state : {"pending", "sending", "unknown", "confirmed"},
              last : Times, next : 0..(MaxClock + 1)]

TypeOK ==
    /\ now \in Times
    /\ mail \in [Mails -> [state : {"none", "writing", "stored"}, received : Times]]
    /\ \A w \in Windows :
          /\ execution[w].state \in {"missing", "pending", "confirmed", "missed"}
          /\ \E n \in 0..MaxParts : DOMAIN execution[w].parts = 1..n
          /\ \A i \in DOMAIN execution[w].parts : execution[w].parts[i] \in PartState
          /\ (execution[w].state = "missing") = (execution[w].parts = <<>>)
          /\ execution[w].emails \subseteq Mails /\ execution[w].missed \subseteq Windows
    /\ reported \subseteq Windows
    /\ requests \subseteq [window : Windows, part : Parts, at : Times, by : Schedulers]
    /\ chat \in [Windows \X Parts -> Nat]
    /\ \A s \in Schedulers :
          /\ sched[s].pc \in {"idle", "due", "get", "ensure", "deliver", "reconcile",
                              "apply", "sending", "accepted", "rejected"}
          /\ sched[s].window \in Windows \union {0}
          /\ sched[s].part \in Parts \union {0}
          /\ sched[s].emails \subseteq Mails /\ sched[s].missed \subseteq Windows
          /\ sched[s].found \subseteq Parts

Init ==
    /\ now = Day
    /\ mail = [m \in Mails |-> [state |-> "none", received |-> 0]]
    /\ execution = [w \in Windows |-> Missing]
    /\ reported = {}
    /\ requests = {}
    /\ chat = [wp \in Windows \X Parts |-> 0]
    /\ sched = [s \in Schedulers |-> Idle]

Tick ==
    /\ now < MaxClock
    /\ \A r \in requests : now < r.at + Flight
    /\ now' = now + 1
    /\ UNCHANGED <<mail, execution, reported, requests, chat, sched>>

-----------------------------------------------------------------------------
(* The inbox and the chat. *)

\* greenfield_commit_sync_page reads the clock before it inserts and commits.
ReceiveMail(m) ==
    /\ mail[m].state = "none"
    /\ mail' = [mail EXCEPT ![m] = [state |-> "writing", received |-> now]]
    /\ UNCHANGED <<now, execution, reported, requests, chat, sched>>

CommitMail(m) ==
    /\ mail[m].state = "writing"
    /\ mail' = [mail EXCEPT ![m].state = "stored"]
    /\ UNCHANGED <<now, execution, reported, requests, chat, sched>>

\* The request's own process hears of the answer unless it has given up.
Answer(r, pc) ==
    sched' = [sched EXCEPT ![r.by] =
                 IF @.pc = "sending" /\ @.window = r.window /\ @.part = r.part
                 THEN [@ EXCEPT !.pc = pc] ELSE @]

\* Feishu's own deduplication of the request UUID is not relied on.
Accept(r) ==
    /\ r \in requests
    /\ chat' = [chat EXCEPT ![<<r.window, r.part>>] = @ + 1]
    /\ requests' = requests \ {r}
    /\ Answer(r, "accepted")
    /\ UNCHANGED <<now, mail, execution, reported>>

\* Refused by Feishu, or never arrived.
Reject(r) ==
    /\ r \in requests
    /\ requests' = requests \ {r}
    /\ Answer(r, "rejected")
    /\ UNCHANGED <<now, mail, execution, reported, chat>>

-----------------------------------------------------------------------------
(* DailyDigestRepository, one transaction each. *)

Confirmed(w) == execution[w].state = "confirmed"

\* window_end <= the start of the window in hand.
mark_expired_executions_missed(window) ==
    execution' = [w \in Windows |->
        IF execution[w].state = "pending" /\ w < window
        THEN [execution[w] EXCEPT !.state = "missed"] ELSE execution[w]]

SnapshotEmails(window) ==
    {m \in Mails : mail[m].state = "stored" /\ WindowOf(mail[m].received) = window}

SnapshotMissed(window) ==
    {w \in Windows : execution[w].state = "missed" /\ w \notin reported /\ w < window}

\* Parts waiting for reconciliation for long enough.
reconciliation_candidates(window) ==
    {i \in DOMAIN execution[window].parts :
        /\ execution[window].parts[i].state \in {"sending", "unknown"}
        /\ execution[window].parts[i].last + Delay <= now}

\* claim_next_part: the first unconfirmed part, if it is pending and due.
ClaimablePart(window, i) ==
    /\ execution[window].state = "pending"
    /\ i \in DOMAIN execution[window].parts
    /\ \A j \in 1..(i - 1) : execution[window].parts[j].state = "confirmed"
    /\ execution[window].parts[i].state = "pending"
    /\ execution[window].parts[i].next <= now

\* With the last part confirmed the execution is, and the misses it names have
\* been reported.
_write_parts_and_refresh_state(window, parts) ==
    LET all == \A i \in DOMAIN parts : parts[i].state = "confirmed"
    IN /\ execution' = [execution EXCEPT
              ![window].parts = parts,
              ![window].state = IF all THEN "confirmed" ELSE @]
       /\ reported' = reported \union
              {w \in Windows : all /\ execution[w].state = "missed" /\ w < window}

\* Mutant of reconcile_parts: open parts are sent again, found or not.
reconcile_blind(window, found) ==
    IF execution[window].state # "pending"
    THEN UNCHANGED <<execution, reported>>
    ELSE _write_parts_and_refresh_state(window,
            [i \in DOMAIN execution[window].parts |->
                LET part == execution[window].parts[i]
                IN IF part.state \notin {"sending", "unknown"} THEN part
                   ELSE [part EXCEPT !.state = "pending", !.next = now]])

\* Every open part is settled by the one reading of the chat.
reconcile_parts(window, found) ==
    IF execution[window].state # "pending"
    THEN UNCHANGED <<execution, reported>>
    ELSE _write_parts_and_refresh_state(window,
            [i \in DOMAIN execution[window].parts |->
                LET part == execution[window].parts[i]
                IN CASE part.state \notin {"sending", "unknown"} -> part
                     [] OTHER -> IF i \in found
                                 THEN [part EXCEPT !.state = "confirmed"]
                                 ELSE [part EXCEPT !.state = "pending", !.next = now]])

\* Only a part still being sent; its request UUID never changes.
_finish_claimed_part(window, i, state, next) ==
    IF execution[window].state # "pending" \/ execution[window].parts[i].state # "sending"
    THEN UNCHANGED <<execution, reported>>
    ELSE _write_parts_and_refresh_state(window,
            [execution[window].parts EXCEPT ![i].state = state, ![i].next = next])

-----------------------------------------------------------------------------
(* DailyDigestScheduler. *)

Goto(s, pc) == sched' = [sched EXCEPT ![s].pc = pc]
Return(s) == sched' = [sched EXCEPT ![s] = Idle]

run_due(s) ==
    /\ sched[s].pc = "idle"
    /\ sched' = [sched EXCEPT ![s] = [Idle EXCEPT !.pc = "due", !.window = latest_completed]]
    /\ UNCHANGED <<now, mail, execution, reported, requests, chat>>

MarkExpired(s) ==
    /\ sched[s].pc = "due"
    /\ mark_expired_executions_missed(sched[s].window)
    /\ Goto(s, "get")
    /\ UNCHANGED <<now, mail, reported, requests, chat>>

GetExecution(s) ==
    /\ sched[s].pc = "get"
    /\ CASE execution[sched[s].window].state = "missing" ->
                sched' = [sched EXCEPT ![s].pc = "ensure",
                              ![s].emails = SnapshotEmails(sched[s].window),
                              ![s].missed = SnapshotMissed(sched[s].window)]
         [] execution[sched[s].window].state = "pending" -> Goto(s, "deliver")
         [] OTHER -> Return(s)
    /\ UNCHANGED <<now, mail, execution, reported, requests, chat>>

\* render_daily_digest needs n parts.  An execution stored meanwhile wins.
ensure_execution(s, n) ==
    /\ sched[s].pc = "ensure"
    /\ IF execution[sched[s].window].state = "missing"
       THEN execution' = [execution EXCEPT ![sched[s].window] =
                             [state |-> "pending", parts |-> [i \in 1..n |-> PendingPart],
                              emails |-> sched[s].emails, missed |-> sched[s].missed]]
       ELSE UNCHANGED execution
    /\ sched' = [sched EXCEPT ![s] =
                    IF execution[sched[s].window].state \in {"missing", "pending"}
                    THEN [Idle EXCEPT !.pc = "deliver", !.window = sched[s].window] ELSE Idle]
    /\ UNCHANGED <<now, mail, reported, requests, chat>>

Reconcilable(s) ==
    /\ execution[sched[s].window].state = "pending"
    /\ reconciliation_candidates(sched[s].window) # {}

\* find_daily_digest_headers reads the chat, or cannot.
Reconcile(s) ==
    /\ sched[s].pc = "deliver" /\ Reconcilable(s)
    /\ \/ sched' = [sched EXCEPT ![s].pc = "apply",
                        ![s].found = {i \in reconciliation_candidates(sched[s].window) :
                                         chat[<<sched[s].window, i>>] > 0}]
       \/ Return(s)
    /\ UNCHANGED <<now, mail, execution, reported, requests, chat>>

ApplyReconciliation(s) ==
    /\ sched[s].pc = "apply"
    /\ reconcile_parts(sched[s].window, sched[s].found)
    /\ sched' = [sched EXCEPT ![s].pc = "deliver", ![s].found = {}]
    /\ UNCHANGED <<now, mail, requests, chat>>

\* The claim is stored before the request leaves.
claim_next_part(s, i) ==
    /\ sched[s].pc = "deliver" /\ ~Reconcilable(s)
    /\ ClaimablePart(sched[s].window, i)
    /\ execution' = [execution EXCEPT ![sched[s].window].parts[i] =
                        [state |-> "sending", last |-> now, next |-> 0]]
    /\ requests' = requests \union
          {[window |-> sched[s].window, part |-> i, at |-> now, by |-> s]}
    /\ sched' = [sched EXCEPT ![s].pc = "sending", ![s].part = i]
    /\ UNCHANGED <<now, mail, reported, chat>>

NothingToClaim(s) ==
    /\ sched[s].pc = "deliver" /\ ~Reconcilable(s)
    /\ ~\E i \in Parts : ClaimablePart(sched[s].window, i)
    /\ Return(s)
    /\ UNCHANGED <<now, mail, execution, reported, requests, chat>>

mark_delivery_confirmed(s) ==
    /\ sched[s].pc = "accepted"
    /\ _finish_claimed_part(sched[s].window, sched[s].part, "confirmed", 0)
    /\ sched' = [sched EXCEPT ![s].pc = "deliver", ![s].part = 0]
    /\ UNCHANGED <<now, mail, requests, chat>>

\* A known rejection is retried after _KNOWN_REJECTION_RETRY.
mark_delivery_rejected(s) ==
    /\ sched[s].pc = "rejected"
    /\ _finish_claimed_part(sched[s].window, sched[s].part, "pending", now + 1)
    /\ Return(s)
    /\ UNCHANGED <<now, mail, requests, chat>>

\* The transport fails; the request may still be on its way, or be accepted.
mark_delivery_unknown(s) ==
    /\ sched[s].pc \in {"sending", "accepted"}
    /\ _finish_claimed_part(sched[s].window, sched[s].part, "unknown", 0)
    /\ Return(s)
    /\ UNCHANGED <<now, mail, requests, chat>>

\* stop cancels the loop at any await; a crash ends it as well.
Stop(s) ==
    /\ sched[s].pc # "idle"
    /\ Return(s)
    /\ UNCHANGED <<now, mail, execution, reported, requests, chat>>

-----------------------------------------------------------------------------
SchedulerStep(s) ==
    \/ run_due(s) \/ MarkExpired(s) \/ GetExecution(s)
    \/ \E n \in Parts : ensure_execution(s, n)
    \/ Reconcile(s) \/ ApplyReconciliation(s)
    \/ \E i \in Parts : claim_next_part(s, i)
    \/ NothingToClaim(s)
    \/ mark_delivery_confirmed(s) \/ mark_delivery_rejected(s) \/ mark_delivery_unknown(s)

Next ==
    \/ Tick
    \/ \E m \in Mails : ReceiveMail(m) \/ CommitMail(m)
    \/ \E r \in requests : Accept(r) \/ Reject(r)
    \/ \E s \in Schedulers : SchedulerStep(s) \/ Stop(s)

Spec == Init /\ [][Next]_vars

-----------------------------------------------------------------------------
(* Properties. *)

\* However sends are lost, rejected or interrupted by a restart, no part of a
\* digest is posted twice (claim_next_part, reconcile_parts).
PostedOnce == \A wp \in DOMAIN chat : chat[wp] <= 1

\* What the table calls confirmed is in the chat: a confirmed part was posted,
\* and the parts appear in their order (_finish_claimed_part, claim_next_part).
ConfirmedIsPosted ==
    \A w \in Windows : \A i \in DOMAIN execution[w].parts :
        /\ execution[w].parts[i].state = "confirmed" => chat[<<w, i>>] > 0
        /\ chat[<<w, i>>] > 0 => \A j \in 1..(i - 1) : chat[<<w, j>>] > 0

\* A missed digest is ticked off only after a digest that names it was posted
\* in full (_write_parts_and_refresh_state).
MissedIsReported ==
    \A w \in reported : \E v \in Windows : Confirmed(v) /\ w \in execution[v].missed

\* What holds of chat and table in every state, through lost sends and a
\* scheduler that stops and starts again: the table never claims more than the
\* chat shows, and the chat never shows a part twice (claim_next_part,
\* reconcile_parts).
DigestInv == TypeOK /\ PostedOnce /\ ConfirmedIsPosted /\ MissedIsReported

-----------------------------------------------------------------------------
(* The inductive invariant, for one scheduler at a time.                   *)

\* One process runs the scheduler (RuntimeAuthority); a restarted one takes
\* up what the table says.
OneScheduler == \E s : Schedulers = {s}

PartLists == {<<>>} \union UNION {[1..n -> PartState] : n \in Parts}

Rows == [state : {"missing", "pending", "confirmed", "missed"}, parts : PartLists,
         emails : SUBSET Mails, missed : SUBSET Windows]

Runs == [pc : {"idle", "due", "get", "ensure", "deliver", "reconcile", "apply",
               "sending", "accepted", "rejected"},
         window : Windows \union {0}, part : Parts \union {0},
         emails : SUBSET Mails, missed : SUBSET Windows, found : SUBSET Parts]

Shapes ==
    /\ execution \in [Windows -> Rows] /\ sched \in [Schedulers -> Runs]
    /\ \A s \in Schedulers : sched[s].pc # "idle" => sched[s].window \in Windows

Part(w, i) == execution[w].parts[i]
Open(part) == part.state \in {"sending", "unknown"}

\* Parts are taken up in their order.
PartsInOrder ==
    \A w \in Windows : \A i \in DOMAIN execution[w].parts :
        Part(w, i).state # "pending" => \A j \in 1..(i - 1) : Part(w, j).state = "confirmed"

\* A request on its way is that of an open part's last attempt, and young.
RequestsAreOpen ==
    \A r \in requests :
        /\ r.part \in DOMAIN execution[r.window].parts
        /\ Open(Part(r.window, r.part)) /\ r.at = Part(r.window, r.part).last
        /\ chat[<<r.window, r.part>>] = 0
        /\ now <= r.at + Flight

\* The chat shows what the table has taken up, and all it calls confirmed.
ChatAgrees ==
    \A w \in Windows : \A i \in Parts :
        /\ chat[<<w, i>>] > 0 => /\ i \in DOMAIN execution[w].parts
                                 /\ Part(w, i).state # "pending"
        /\ i \in DOMAIN execution[w].parts /\ Part(w, i).state = "confirmed" =>
              chat[<<w, i>>] > 0

InFlight(w, i) == \E r \in requests : r.window = w /\ r.part = i

\* What a run relies on between its steps: the part it sends is open, an
\* answer tells what became of it, and the chat it read still looks the same.
RunAgrees(s) ==
    LET w == sched[s].window
        i == sched[s].part
    IN /\ sched[s].pc \in {"sending", "accepted", "rejected"} =>
             i \in DOMAIN execution[w].parts /\ Part(w, i).state = "sending"
       /\ sched[s].pc = "accepted" => chat[<<w, i>>] > 0
       /\ sched[s].pc = "rejected" => chat[<<w, i>>] = 0 /\ ~InFlight(w, i)
       /\ sched[s].pc = "apply" =>
             \A j \in DOMAIN execution[w].parts : Open(Part(w, j)) =>
                /\ ~InFlight(w, j)
                /\ j \in sched[s].found <=> chat[<<w, j>>] > 0

\* Windows are taken up in their order: while one is delivered every earlier
\* one has ended, and it names those that were missed and not yet reported.
WindowsInOrder ==
    /\ Day <= now
    /\ \A w \in Windows : execution[w].state # "missing" => w <= latest_completed
    /\ \A s \in Schedulers : sched[s].pc # "idle" =>
          /\ sched[s].window <= latest_completed
          /\ \A w \in Windows : execution[w].state # "missing" => w <= sched[s].window
    /\ \A s \in Schedulers : sched[s].pc \notin {"idle", "due"} =>
          \A w \in Windows : w < sched[s].window => execution[w].state # "pending"
    /\ \A s \in Schedulers : sched[s].pc = "ensure" =>
          SnapshotMissed(sched[s].window) \subseteq sched[s].missed
    /\ \A v \in Windows : execution[v].state = "pending" =>
          /\ \A w \in Windows : w < v => execution[w].state # "pending"
          /\ SnapshotMissed(v) \subseteq execution[v].missed

DigestInductive ==
    /\ DigestInv /\ Shapes
    /\ PartsInOrder /\ RequestsAreOpen /\ ChatAgrees /\ WindowsInOrder
    /\ \A s \in Schedulers : RunAgrees(s)
=============================================================================
