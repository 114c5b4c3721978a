------------------------------ MODULE MCHandoff ------------------------------
(* Instances of Handoff for TLC. *)
EXTENDS Handoff, TLC

CONSTANTS p1, p2, t1, t2, t3, u1, u2, d1, d2, a1, a2

VARIABLE overlap  \* whether a successor starts before the old process is gone

mcVars == <<vars, overlap>>

\* Two callbacks in the old process, one in its successor.
TaskHomes == [t \in {t1, t2, t3} |-> IF t = t3 THEN p2 ELSE p1]

\* One callback at a time.
OneTask == [t \in {t1} |-> p1]

FirstPayload == [draft |-> d1, to |-> a1]

\* Either two processes overlap, with one callback each, or one process, which
\* may be restarted at any time, runs two callbacks at once.
Within ==
    IF overlap THEN \A t \in Tasks \ {t1, t3} : task[t].pc = "idle"
    ELSE \A p \in Procs \ {p1} : proc[p] = "down"

MCInit == Init /\ overlap \in BOOLEAN
MCNext == Next /\ UNCHANGED overlap /\ Within'
MCSpec == MCInit /\ [][MCNext]_mcVars

\* Without an overlap, a send that was started stays visible as one through
\* crashes and restarts (compare_and_set_send_unknown is one-way).
RememberedAlone == ~overlap => SendRemembered

\* Recovery without a predecessor still running leaves run and e-mail in step
\* and nothing in the middle of an external call
\* (recover_incomplete_approval_states, recover_durable_handoff_states).
RecoveredConsistent == [][~overlap => RecoversConsistent]_mcVars

-----------------------------------------------------------------------------
\* What the proofs about recovery add to HandoffInductive.

\* Run and e-mail reach these ends together, in one transaction each, and an
\* attempt goes on only with a planned run.
EndTogether ==
    /\ \A s \in {"rejected", "draft_saved"} : run.state = s <=> log = s
    /\ run.state = "completed" <=> log = "sent"
    /\ run.state = "absent" => delivery.pc \in {"none", "plan", "dead"}

\* Callbacks and resumed graphs live in processes that are up.
Hosted == \A t \in Tasks : task[t].pc # "idle" => proc[ProcOf[t]] = "up"

\* While one process runs at a time, what a claim has written stays visible,
\* and what recovery has put right or found stays so until it is done.
Undisturbed ==
    ~overlap =>
       /\ \A p \in Procs \ {p1} : proc[p] = "down"
       /\ run.claimed => log \in {"sending", "sent", "send_unknown"}
       /\ \A p \in Procs :
             /\ proc[p] = "recover_runs" =>
                   /\ log \notin {"sending", "saving_draft"}
                   /\ log = "approved" => run.state = "approved"
             /\ proc[p] = "recover_fix" /\ run.claimed => found[p] = "executing"

RecoveryInductive == HandoffInductive /\ EndTogether /\ Hosted /\ Undisturbed
=============================================================================
