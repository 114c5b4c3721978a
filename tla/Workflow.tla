------------------------------ MODULE Workflow ------------------------------
(***************************************************************************)
(* The writing graph (graph/builder.py and src/nodes) and its driver,      *)
(* exchange_service._run_ai_pipeline, for one mail after another.  Every   *)
(* model call of a node goes through LlmGate.                              *)
(*                                                                         *)
(* A text is known by the number of the save that stored it; row is the    *)
(* mail's emails_log.draft_content, which every save overwrites.  What the *)
(* reviewer and the content guard make of a text is a choice: their        *)
(* prompts, patterns and wording are left out, and so are the fields of    *)
(* the graph state that no edge of the graph reads.                        *)
(***************************************************************************)
EXTENDS LlmGate

CONSTANTS
    Mails,        \* the kinds of mail: [route, plan]
    WriterTries,  \* max_attempts of categorizer, drafter and image analysis
    ReviewTries   \* max_attempts of the reviewer

\* What the model assumes of its constants.
WorkflowAssumption ==
    /\ GateAssumption
    /\ Mails \subseteq [route : {"reply", "forward"}, plan : {"model", "fixed", "empty"}]
    /\ WriterTries \in Nat \ {0} /\ ReviewTries \in Nat \ {0}

VARIABLES
    pc,           \* the node that runs, or the driver's step
    mail,         \* the mail in work
    graph,        \* the checkpointed graph state
    row,          \* emails_log.draft_content: the number of the text, or 0
    rewrites,     \* the driver's _rewrite
    outcome,      \* what the last pipeline run gave: [kind, draft]
    passed        \* history: the text the last successful review was about

runVars == <<pc, mail, graph, row, rewrites, outcome, passed>>
vars == <<gateVars, runVars>>

Nodes == {"categorizer", "retriever", "drafter", "reviewer", "manual_review"}
None == [kind |-> "none", draft |-> 0]

\* build_initial_graph_state: every field the edges read starts again (next_step
\* is empty there).
InitialGraphState == [draft |-> FALSE, next |-> "unset", approval |-> "pending", count |-> 0]

Init ==
    /\ GateInit
    /\ up = TRUE
    /\ pc = "idle"
    /\ mail \in Mails
    /\ graph = InitialGraphState
    /\ row = 0
    /\ rewrites = 0
    /\ outcome = None
    /\ passed = 0

-----------------------------------------------------------------------------
\* build_manual_review_delta: the one way a node gives up.
ManualReviewDelta(g) == [g EXCEPT !.next = "manual_review", !.approval = "manual_review"]

\* The delta of a drafter that has saved a text.
DraftedDelta(g) == [g EXCEPT !.draft = TRUE, !.next = "approval", !.approval = "pending"]

RouteAfterDrafter(g) == IF g.next = "manual_review" THEN "manual_review" ELSE "reviewer"

\* A node that needs no model, or has had its answer, writes its delta.
Node(n) == pc = n /\ phase' = "none" /\ UNCHANGED <<up, breaker, limiter, left>>

\* astream with a new mail: authorised, its content loaded, its state rebuilt.
StartRun(m) ==
    /\ pc = "idle"
    /\ pc' = "categorizer"
    /\ mail' = m
    /\ graph' = InitialGraphState
    /\ row' = 0
    /\ rewrites' = 0
    /\ outcome' = None
    /\ passed' = 0
    /\ UNCHANGED gateVars

\* The categorizer asks the model about a reply only.
CategorizerCalls ==
    /\ pc = "categorizer"
    /\ mail.route # "forward"
    /\ Call(WriterTries, TRUE)
    /\ UNCHANGED runVars

\* Whatever the model said, the route stays: failure and oversize only leave
\* the default classification.
Categorized ==
    /\ Node("categorizer")
    /\ phase \in {"none", "answered", "failed"}
    /\ pc' = "retriever"
    /\ UNCHANGED <<mail, graph, row, rewrites, outcome, passed>>

\* Image analysis has a retry series of its own, outside the breaker.
RetrieverCalls ==
    /\ pc = "retriever"
    /\ Call(WriterTries, FALSE)
    /\ UNCHANGED runVars

\* Context, hints and summaries are optional; a mail without images makes
\* no call, and a failed analysis is a text like any other.
Retrieved ==
    /\ Node("retriever")
    /\ phase \in {"none", "answered", "failed"}
    /\ pc' = "drafter"
    /\ UNCHANGED <<mail, graph, row, rewrites, outcome, passed>>

\* A forward carries a fixed line, saved once.
DraftForward ==
    /\ Node("drafter")
    /\ mail.route = "forward"
    /\ row' = IF graph.draft THEN row ELSE row + 1
    /\ graph' = DraftedDelta(graph)
    /\ pc' = RouteAfterDrafter(graph')
    /\ UNCHANGED <<mail, rewrites, outcome, passed>>

\* writer_mode "fixed": the plan's own text, unless it is blank.
DraftFixed ==
    /\ Node("drafter")
    /\ mail.route # "forward"
    /\ mail.plan # "model"
    /\ IF mail.plan = "empty"
       THEN graph' = ManualReviewDelta(graph) /\ UNCHANGED row
       ELSE graph' = DraftedDelta(graph) /\ row' = row + 1
    /\ pc' = RouteAfterDrafter(graph')
    /\ UNCHANGED <<mail, rewrites, outcome, passed>>

DrafterCalls ==
    /\ pc = "drafter"
    /\ mail.route # "forward"
    /\ mail.plan = "model"
    /\ Call(WriterTries, TRUE)
    /\ UNCHANGED runVars

\* generate_draft's answer: usable, or blank once its tags are stripped; an
\* input over the budget never gets as far as a call.
Drafted(usable) ==
    /\ Node("drafter")
    /\ mail.route # "forward"
    /\ mail.plan = "model"
    /\ phase \in {"answered", "failed"} \/ (phase = "none" /\ ~usable)
    /\ IF phase = "answered" /\ usable
       THEN graph' = DraftedDelta(graph) /\ row' = row + 1
       ELSE graph' = ManualReviewDelta(graph) /\ UNCHANGED row
    /\ pc' = RouteAfterDrafter(graph')
    /\ UNCHANGED <<mail, rewrites, outcome, passed>>

\* The reviewer loads the draft from its row and asks.
ReviewerCalls ==
    /\ pc = "reviewer"
    /\ Call(ReviewTries, TRUE)
    /\ UNCHANGED runVars

\* The delta of a review that sends the draft back.
Rewrite(g) == [g EXCEPT !.next = "drafter", !.count = @ + 1]

\* As ReviewDelta, letting a draft through that has had its second chance.
LenientDelta(g, verdict) ==
    CASE verdict = "clean" -> [g EXCEPT !.next = "approval"]
      [] verdict = "issues" /\ g.count < 1 -> Rewrite(g)
      [] verdict = "issues" /\ g.count >= 1 -> [g EXCEPT !.next = "approval"]
      [] OTHER -> ManualReviewDelta(g)

\* review_draft and _run_content_guard: "clean" is a draft that passed both,
\* "issues" one the reviewer wants changed, anything else is for a person.
ReviewDelta(g, verdict) ==
    CASE verdict = "clean" -> [g EXCEPT !.next = "approval"]
      [] verdict = "issues" /\ g.count < 1 -> Rewrite(g)
      [] OTHER -> ManualReviewDelta(g)

Verdicts == {"clean", "issues", "invalid", "guard_rejected", "guard_failed"}

\* interrupt_after=["reviewer"]: the stream ends here on every branch.
Reviewed(verdict) ==
    /\ Node("reviewer")
    /\ \/ phase = "answered"
       \/ phase \in {"failed", "none"} /\ verdict = "invalid"
    /\ graph' = ReviewDelta(graph, verdict)
    /\ passed' = IF verdict = "clean" THEN row ELSE passed
    /\ pc' = "driver"
    /\ UNCHANGED <<mail, row, rewrites, outcome>>

\* enter_manual_review: reached from the drafter only, since the interrupt
\* stops the stream after the reviewer.
EnterManualReview ==
    /\ Node("manual_review")
    /\ graph' = ManualReviewDelta(graph)
    /\ pc' = "driver"
    /\ UNCHANGED <<mail, row, rewrites, outcome, passed>>

MaxRewrites == 2

\* As Resume, with a graph that asks for a rewrite resumed as often as it asks.
ResumeForever ==
    /\ pc = "driver"
    /\ graph.next = "drafter"
    /\ pc' = "drafter"
    /\ graph' = [graph EXCEPT !.count = 0]
    /\ row' = 0
    /\ UNCHANGED <<gateVars, mail, rewrites, outcome, passed>>

\* The driver resumes a stream that asks for a rewrite, at most MaxRewrites
\* times; a graph that still asks then is given to a person.
Resume ==
    /\ pc = "driver"
    /\ graph.next = "drafter"
    /\ IF rewrites < MaxRewrites
       THEN pc' = "drafter" /\ rewrites' = rewrites + 1 /\ UNCHANGED graph
       ELSE graph' = ManualReviewDelta(graph) /\ UNCHANGED <<pc, rewrites>>
    /\ UNCHANGED <<gateVars, mail, row, outcome, passed>>

\* The projection reads the draft back from the row.
Project ==
    /\ pc = "driver"
    /\ graph.next # "drafter"
    /\ outcome' = IF graph.next = "manual_review" \/ graph.approval = "manual_review"
                  THEN [kind |-> "manual_review", draft |-> 0]
                  ELSE [kind |-> "approval", draft |-> IF graph.draft THEN row ELSE 0]
    /\ pc' = "idle"
    /\ UNCHANGED <<gateVars, mail, graph, row, rewrites, passed>>

\* A read or a write of the database or the content store raises, in a node
\* (_guard_graph_node) or in the driver; the attempt ends without a result
\* and the durable inbox hands the mail to a person.
Raises ==
    /\ pc # "idle"
    /\ phase = "none" \/ phase = "answered"
    /\ pc' = "idle"
    /\ outcome' = [kind |-> "raised", draft |-> 0]
    /\ phase' = "none"
    /\ UNCHANGED <<up, breaker, limiter, left, mail, graph, row, rewrites, passed>>

\* The process ends; breaker and limiter are its memory.
Crash ==
    /\ GateRestart
    /\ pc' = "idle"
    /\ outcome' = IF pc = "idle" THEN outcome ELSE [kind |-> "raised", draft |-> 0]
    /\ UNCHANGED <<up, mail, graph, row, rewrites, passed>>

-----------------------------------------------------------------------------
NodeStep ==
    \/ CategorizerCalls \/ Categorized \/ RetrieverCalls \/ Retrieved
    \/ DraftForward \/ DraftFixed \/ DrafterCalls
    \/ \E usable \in BOOLEAN : Drafted(usable)
    \/ ReviewerCalls \/ \E verdict \in Verdicts : Reviewed(verdict)
    \/ EnterManualReview \/ Resume \/ Project

GateStep ==
    /\ \/ EnterLimiter \/ LeaveLimiter \/ Reply \/ Retry
       \/ Exhaust(pc # "retriever")
    /\ UNCHANGED runVars

Passes == Tick /\ UNCHANGED runVars

Next ==
    \/ NodeStep \/ GateStep \/ Passes \/ Raises \/ Crash
    \/ \E m \in Mails : StartRun(m)
    \/ Outage /\ UNCHANGED runVars

Spec == Init /\ [][Next]_vars

\* asyncio runs what is ready, time passes, and every provider client has a
\* timeout, so a call that was sent is answered or fails.
Fairness == /\ WF_vars(NodeStep) /\ WF_vars(GateStep) /\ WF_vars(Passes)
            /\ WF_vars(\E m \in Mails : StartRun(m))
FairSpec == Spec /\ Fairness

-----------------------------------------------------------------------------
(* Properties.                                                             *)

\* Every variable has the shape the code gives it.
TypeOK ==
    /\ GateTypeOK
    /\ pc \in Nodes \cup {"idle", "driver"}
    /\ mail \in Mails
    /\ graph \in [draft : BOOLEAN, next : {"unset", "approval", "drafter", "manual_review"},
                  approval : {"pending", "manual_review"}, count : Nat]
    /\ row \in Nat /\ rewrites \in 0..MaxRewrites /\ passed \in Nat
    /\ outcome \in [kind : {"none", "approval", "manual_review", "raised"}, draft : Nat]

\* exchange_service._run_ai_pipeline reads the draft back from the database:
\* what is put up for approval is the text that reviewer and content guard
\* passed in this very run, after rewrites and failures, and never nothing.
ApprovedWasReviewed == outcome.kind = "approval" => outcome.draft # 0 /\ outcome.draft = passed

\* nodes/reviewer.py: "Auto-rewrite once if poor", although the driver is
\* ready to resume the graph twice.
RewrittenOnce == row <= 2

\* utils/rate_limiter.py: calls that go through the limiter are Interval
\* apart, the retries of a series and the first call of the next one too.
CallsSpaced == [][(phase # "sent" /\ phase' = "sent") => gap = Interval]_vars

\* utils/retry_decorator.py: an open breaker keeps the provider free of
\* classification, writing and review calls, those of a running series too.
QuietWhileOpen == open => pc \in {"idle", "retriever"} \/ phase \in {"none", "failed"}

\* A series belongs to the node that started it: between nodes none is open.
SeriesInNode == pc \in {"idle", "manual_review", "driver"} => phase = "none"

\* Where the run is in its one possible rewrite: the drafter finds no text, or
\* the one text that the reviewer sent back.
Rewriting ==
    /\ pc \in {"categorizer", "retriever"} =>
          row = 0 /\ graph.count = 0 /\ graph.draft = FALSE
    /\ pc = "drafter" =>
          \/ row = 0 /\ graph.count = 0 /\ graph.draft = FALSE
          \/ row = 1 /\ graph.count = 1 /\ graph.draft = TRUE
    /\ pc = "reviewer" => 
          /\ row \in 1..(graph.count + 1)
          /\ graph.draft = TRUE /\ graph.next = "approval" /\ graph.approval = "pending"
    /\ pc = "driver" /\ graph.next = "drafter" =>
          row = 1 /\ graph.draft = TRUE /\ graph.count = 1
    /\ graph.count <= 1

\* What the driver finds at the interrupt: a decision, and an approval only of
\* the text that was reviewed.
Judged ==
    /\ pc = "driver" => graph.next # "unset"
    /\ pc = "driver" /\ graph.next = "approval" =>
          graph.draft = TRUE /\ row # 0 /\ passed = row
    /\ pc # "idle" => outcome.kind # "approval"

\* What holds of a run in every state, through rewrites, outages and restarts:
\* only reviewed text is put up, rewriting is bounded, and an open breaker is
\* respected (_run_ai_pipeline, nodes/reviewer.py, utils/retry_decorator.py).
\* It is inductive.
WorkflowInv ==
    /\ TypeOK /\ FailuresInOrder /\ Stamped
    /\ ApprovedWasReviewed /\ RewrittenOnce /\ QuietWhileOpen
    /\ SeriesInNode /\ Rewriting /\ Judged

\* Every run of the pipeline ends, however the provider and the reviewer
\* answer: the rewrite loop, the retries and the limiter all come to an end.
RunEnds == pc # "idle" ~> pc = "idle"

\* utils/retry_decorator.py: an open breaker refuses "until recovery": once
\* the provider answers for good the breaker closes again.
BreakerRecovers == <>[]up => []<>~open
=============================================================================
