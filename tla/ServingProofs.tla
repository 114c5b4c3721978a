----------------------------- MODULE ServingProofs ----------------------------
(***************************************************************************)
(* Proofs about the two parts of MCServing.                                *)
(*                                                                         *)
(* The workflow: WorkflowInv is an invariant, the calls through the        *)
(* limiter are spaced, and pruning the breaker's list drops exactly what   *)
(* has left the window.  WorkflowInv is inductive.  The gate's part of it  *)
(* (GateInv) is proved first, one lemma per operation of LlmGate; the      *)
(* actions of the run then disturb either the gate or the run's own        *)
(* variables.                                                              *)
(*                                                                         *)
(* The process: RuntimeInductive says what each stage of a living process  *)
(* has started or stopped, and every action of the life cycle keeps it.    *)
(***************************************************************************)
EXTENDS MCServing, SequenceTheorems, WellFoundedInduction, TLAPS

GateInv == GateTypeOK /\ FailuresInOrder /\ Stamped

\* Oldest first.
OldestFirst(s) == \A i, j \in DOMAIN s : i <= j => s[i] >= s[j]

LEMMA LeastNatural ==
    ASSUME NEW T \in SUBSET Nat, T # {}
    PROVE  \E x \in T : \A y \in T : x <= y
PROOF
  <1>1. IsWellFoundedOn(OpToRel(<, Nat), Nat)
    BY NatLessThanWellFounded
  <1>2. PICK x \in T : \A y \in T : <<y, x>> \notin OpToRel(<, Nat)
    <2> DEFINE R == OpToRel(<, Nat)
    <2>1. IsWellFoundedOn(R, Nat)
      BY <1>1
    <2> HIDE DEF R
    <2>2. \E x \in T : \A y \in T : ~(<<y, x>> \in R)
      BY <2>1, WFMin
    <2> QED BY <2>2 DEF R
  <1>3. \A y \in T : x <= y
    <2> SUFFICES ASSUME NEW y \in T PROVE ~(y < x)
      OBVIOUS
    <2>1. <<y, x>> \in Nat \X Nat
      OBVIOUS
    <2>2. <<y, x>>[1] < <<y, x>>[2] => <<y, x>> \in OpToRel(<, Nat)
      BY <2>1 DEF OpToRel
    <2> QED BY <1>2, <2>2
  <1> QED BY <1>3

\* _prune_expired keeps the failures inside the window and nothing else, in
\* their order.
LEMMA PrunedIsRecent ==
    ASSUME WorkflowAssumption,
           NEW s \in Seq(0..Window), s # <<>>, s[Len(s)] < Window, OldestFirst(s)
    PROVE  \E first \in 1..Len(s) :
             /\ Pruned(s) = SubSeq(s, first, Len(s))
             /\ \A i \in DOMAIN s : s[i] < Window <=> i >= first
PROOF
  <1> DEFINE T == {i \in DOMAIN s : s[i] < Window}
             IsFirst(i) == s[i] < Window /\ \A j \in DOMAIN s : s[j] < Window => i <= j
             first == CHOOSE i \in DOMAIN s : IsFirst(i)
  <1>1. Len(s) \in Nat \ {0} /\ DOMAIN s = 1..Len(s)
    BY LenProperties, EmptySeq
  <1>2. Len(s) \in T /\ T \subseteq Nat
    BY <1>1
  <1>3. PICK x \in T : \A y \in T : x <= y
    <2> HIDE DEF T
    <2> QED BY <1>2, LeastNatural
  <1>4. x \in DOMAIN s /\ IsFirst(x)
    BY <1>3
  <1>5. first \in DOMAIN s /\ IsFirst(first)
    <2> HIDE DEF IsFirst
    <2> QED BY <1>4
  <1>6. Pruned(s) = SubSeq(s, first, Len(s))
    BY DEF Pruned
  <1> HIDE DEF first
  <1>7. ASSUME NEW i \in DOMAIN s
        PROVE  s[i] < Window <=> i >= first
    <2>1. s[i] < Window => i >= first
      BY <1>1, <1>5
    <2>2. ASSUME i >= first PROVE s[i] < Window
      <3>1. s[first] >= s[i]
        BY <1>5, <2>2 DEF OldestFirst
      <3>2. s[first] \in 0..Window /\ s[i] \in 0..Window /\ Window \in Nat
        BY <1>1, <1>5, ElementOfSeq DEF WorkflowAssumption, GateAssumption
      <3> QED BY <1>5, <3>1, <3>2
    <2> QED BY <2>1, <2>2
  <1> QED BY <1>1, <1>5, <1>6, <1>7

-----------------------------------------------------------------------------
(* The gate.                                                               *)

LEMMA GateStarts ==
    ASSUME WorkflowAssumption, GateInit, up = TRUE
    PROVE  GateInv
PROOF
  <1>1. ages \in Seq(0..Window) /\ Len(ages) = 0 /\ DOMAIN ages = {}
    BY EmptySeq DEF GateInit
  <1>2. Interval \in 0..Interval /\ 0 \in 0..Interval
    BY DEF WorkflowAssumption, GateAssumption
  <1>3. GateTypeOK
    BY <1>1, <1>2 DEF GateInit, GateTypeOK, Phases
  <1>4. FailuresInOrder
    BY <1>1 DEF FailuresInOrder, WorkflowAssumption, GateAssumption
  <1>5. Stamped
    BY DEF GateInit, Stamped
  <1> QED BY <1>3, <1>4, <1>5 DEF GateInv

LEMMA GateRestarts ==
    ASSUME WorkflowAssumption, GateInv, GateRestart, UNCHANGED up
    PROVE  GateInv'
PROOF
  <1>1. ages' \in Seq(0..Window) /\ Len(ages') = 0 /\ DOMAIN ages' = {}
    BY EmptySeq DEF GateRestart
  <1>2. Interval \in 0..Interval /\ 0 \in 0..Interval
    BY DEF WorkflowAssumption, GateAssumption
  <1>3. GateTypeOK'
    BY <1>1, <1>2 DEF GateInv, GateRestart, GateTypeOK, Phases
  <1>4. FailuresInOrder'
    BY <1>1 DEF FailuresInOrder, WorkflowAssumption, GateAssumption
  <1>5. Stamped'
    BY DEF GateRestart, Stamped
  <1> QED BY <1>3, <1>4, <1>5 DEF GateInv

LEMMA GateStands ==
    ASSUME GateInv, UNCHANGED gateVars
    PROVE  GateInv'
PROOF
  BY DEF GateInv, gateVars, breaker, limiter, GateTypeOK, FailuresInOrder, Stamped

\* A change of the phase, away from the limiter's sleep.
LEMMA PhaseMoves ==
    ASSUME GateInv, phase' \in Phases \ {"sleep"}, left' \in Nat, up' \in BOOLEAN,
           UNCHANGED <<breaker, limiter>>
    PROVE  GateInv'
PROOF
  BY DEF GateInv, breaker, limiter, GateTypeOK, FailuresInOrder, Stamped

LEMMA Calls ==
    ASSUME GateInv, NEW attempts \in Nat, NEW asks \in BOOLEAN, Call(attempts, asks)
    PROVE  GateInv'
PROOF
  <1>1. /\ phase' \in Phases \ {"sleep"} /\ left' \in Nat /\ up' \in BOOLEAN
        /\ UNCHANGED <<breaker, limiter>>
    BY DEF Call, GateInv, GateTypeOK, Phases
  <1> QED BY <1>1, PhaseMoves

LEMMA NodeMoves ==
    ASSUME GateInv, phase' = "none", UNCHANGED <<up, breaker, limiter, left>>
    PROVE  GateInv'
PROOF
  <1>1. /\ phase' \in Phases \ {"sleep"} /\ left' \in Nat /\ up' \in BOOLEAN
        /\ UNCHANGED <<breaker, limiter>>
    BY DEF GateInv, GateTypeOK, Phases
  <1> QED BY <1>1, PhaseMoves

LEMMA LimiterEntered ==
    ASSUME WorkflowAssumption, GateInv, EnterLimiter
    PROVE  GateInv'
PROOF
  <1>1. Interval \in Nat /\ since \in 0..Interval
    BY DEF WorkflowAssumption, GateAssumption, GateInv, GateTypeOK
  <1>2. GateTypeOK'
    BY <1>1 DEF EnterLimiter, GateInv, GateTypeOK, Phases, breaker
  <1>3. FailuresInOrder'
    BY DEF EnterLimiter, GateInv, FailuresInOrder, breaker
  <1>4. Stamped'
    BY <1>1 DEF EnterLimiter, GateInv, Stamped
  <1> QED BY <1>2, <1>3, <1>4 DEF GateInv

LEMMA LimiterLeft ==
    ASSUME WorkflowAssumption, GateInv, LeaveLimiter
    PROVE  GateInv'
PROOF
  <1>1. Interval \in Nat /\ since \in 0..Interval
    BY DEF WorkflowAssumption, GateAssumption, GateInv, GateTypeOK
  <1>2. GateTypeOK'
    BY <1>1 DEF LeaveLimiter, GateInv, GateTypeOK, Phases, breaker
  <1>3. FailuresInOrder'
    BY DEF LeaveLimiter, GateInv, FailuresInOrder, breaker
  <1>4. Stamped'
    BY <1>1 DEF LeaveLimiter, GateInv, Stamped
  <1> QED BY <1>2, <1>3, <1>4 DEF GateInv

\* report_failure on a closed breaker: the list stays in order and below the
\* threshold, or the breaker opens.
LEMMA FailureReported ==
    ASSUME WorkflowAssumption, GateInv, ~open, ReportFailure
    PROVE  /\ ages' \in Seq(0..Window) /\ open' \in BOOLEAN
           /\ FailuresInOrder'
PROOF
  <1> DEFINE all == Append(ages, 0)
  <1>1. ages \in Seq(0..Window) /\ OldestFirst(ages) /\ Len(ages) < Threshold
    BY DEF GateInv, GateTypeOK, FailuresInOrder, OldestFirst
  <1>2. Window \in Nat \ {0} /\ Threshold \in Nat \ {0}
    BY DEF WorkflowAssumption, GateAssumption
  <1>3. /\ all \in Seq(0..Window) /\ Len(all) = Len(ages) + 1
        /\ \A i \in 1..Len(ages) : all[i] = ages[i]
        /\ all[Len(all)] = 0
    BY <1>1, <1>2, AppendProperties
  <1>4. Len(ages) \in Nat /\ DOMAIN ages = 1..Len(ages) /\ DOMAIN all = 1..Len(all)
    BY <1>1, <1>3, LenProperties
  <1>5. all # <<>>
    BY <1>3, <1>4, EmptySeq
  <1> HIDE DEF all
  <1>6. \A i \in DOMAIN all : all[i] \in 0..Window
    BY <1>3, <1>4, ElementOfSeq
  <1>7. OldestFirst(all)
    <2> SUFFICES ASSUME NEW i \in DOMAIN all, NEW j \in DOMAIN all, i <= j
                 PROVE  all[i] >= all[j]
      BY DEF OldestFirst
    <2>1. CASE j = Len(all)
      BY <1>2, <1>3, <1>6, <2>1
    <2>2. CASE j # Len(all)
      <3>1. i \in 1..Len(ages) /\ j \in 1..Len(ages)
        BY <1>3, <1>4, <2>2
      <3> QED BY <1>1, <1>3, <1>4, <3>1 DEF OldestFirst
    <2> QED BY <2>1, <2>2
  <1>8. PICK first \in 1..Len(all) : Pruned(all) = SubSeq(all, first, Len(all))
    BY <1>2, <1>3, <1>5, <1>7, PrunedIsRecent
  <1>9. /\ ages' = SubSeq(all, first, Len(all))
        /\ open' = (open \/ Len(ages') >= Threshold)
    BY <1>8 DEF ReportFailure, all
  <1>10. /\ ages' \in Seq(0..Window)
         /\ Len(ages') = Len(all) - first + 1
         /\ \A i \in 1..(Len(all) - first + 1) : ages'[i] = all[first + i - 1]
    <2> DEFINE kept == SubSeq(all, first, Len(all))
    <2>1. /\ first \in Int /\ Len(all) \in Int /\ first <= Len(all)
          /\ \A i \in first..Len(all) : all[i] \in 0..Window
      BY <1>3, <1>4, <1>6
    <2>2. /\ kept \in Seq(0..Window)
          /\ Len(kept) = Len(all) - first + 1
          /\ \A i \in 1..(Len(all) - first + 1) : kept[i] = all[first + i - 1]
      BY <2>1, SubSeqProperties
    <2> HIDE DEF kept
    <2>3. ages' = kept
      BY <1>9 DEF kept
    <2> QED BY <2>2, <2>3
  <1>11. DOMAIN ages' = 1..Len(ages')
    BY <1>10, LenProperties
  <1>12. \A i, j \in DOMAIN ages' : i <= j => ages'[i] >= ages'[j]
    <2> SUFFICES ASSUME NEW i \in DOMAIN ages', NEW j \in DOMAIN ages', i <= j
                 PROVE  ages'[i] >= ages'[j]
      OBVIOUS
    <2>1. /\ first + i - 1 \in DOMAIN all /\ first + j - 1 \in DOMAIN all
          /\ first + i - 1 <= first + j - 1
      BY <1>3, <1>4, <1>10, <1>11
    <2>2. ages'[i] = all[first + i - 1] /\ ages'[j] = all[first + j - 1]
      BY <1>10, <1>11
    <2> QED BY <1>7, <2>1, <2>2 DEF OldestFirst
  <1>13. Len(ages') <= Threshold
    BY <1>1, <1>2, <1>3, <1>4, <1>10
  <1>14. ~open' => Len(ages') < Threshold
    <2>1. ~open' => ~(Len(ages') >= Threshold)
      BY <1>9, Zenon
    <2>2. Len(ages') \in Nat
      BY <1>3, <1>4, <1>10
    <2> QED BY <1>2, <2>1, <2>2
  <1>15. open' \in BOOLEAN
    BY <1>9
  <1> QED BY <1>10, <1>12, <1>13, <1>14, <1>15 DEF FailuresInOrder

\* A second ages every stamp alike.
LEMMA SecondPasses ==
    ASSUME WorkflowAssumption, GateInv, Tick
    PROVE  GateInv'
PROOF
  <1>1. /\ Interval \in Nat /\ Window \in Nat
        /\ since \in 0..Interval /\ nap \in 0..Interval /\ gap \in 0..Interval
    BY DEF WorkflowAssumption, GateAssumption, GateInv, GateTypeOK
  <1>2. /\ ages \in Seq(0..Window) /\ Len(ages) \in Nat /\ DOMAIN ages = 1..Len(ages)
        /\ \A i \in DOMAIN ages : ages[i] \in 0..Window
    BY LenProperties, ElementOfSeq DEF GateInv, GateTypeOK
  <1>3. /\ \A i \in 1..Len(ages) : Older(ages[i], Window) \in 0..Window
        /\ ages' = [i \in 1..Len(ages) |-> Older(ages[i], Window)]
    BY <1>1, <1>2 DEF Tick, Older
  <1>4. ages' \in Seq(0..Window) /\ Len(ages') = Len(ages) /\ DOMAIN ages' = 1..Len(ages)
    <2>1. ages' \in Seq(0..Window)
      BY <1>2, <1>3, IsASeq
    <2> QED BY <1>2, <1>3, <2>1, LenProperties
  <1>5. since' \in 0..Interval /\ nap' \in 0..Interval /\ gap' \in 0..Interval
    BY <1>1 DEF Tick, Older
  <1>6. GateTypeOK'
    BY <1>4, <1>5 DEF Tick, GateInv, GateTypeOK
  <1>7. FailuresInOrder'
    <2>1. ASSUME NEW i \in 1..Len(ages), NEW j \in 1..Len(ages), i <= j
          PROVE  ages'[i] >= ages'[j]
      <3>1. ages[i] >= ages[j]
        BY <1>2, <2>1 DEF GateInv, FailuresInOrder
      <3>2. ages'[i] = Older(ages[i], Window) /\ ages'[j] = Older(ages[j], Window)
        BY <1>3
      <3> QED BY <1>1, <1>2, <3>1, <3>2 DEF Older
    <2>2. Len(ages) <= Threshold /\ (~open => Len(ages) < Threshold)
      BY DEF GateInv, FailuresInOrder
    <2> QED BY <1>4, <2>1, <2>2 DEF FailuresInOrder, Tick
  <1>8. Stamped'
    BY <1>1 DEF Tick, Older, GateInv, Stamped
  <1> QED BY <1>6, <1>7, <1>8 DEF GateInv

-----------------------------------------------------------------------------
(* The run.  RunInv is what WorkflowInv says beyond the gate.              *)

RunTypeOK ==
    /\ pc \in Nodes \cup {"idle", "driver"}
    /\ mail \in Mails
    /\ graph \in [draft : BOOLEAN, next : {"unset", "approval", "drafter", "manual_review"},
                  approval : {"pending", "manual_review"}, count : Nat]
    /\ row \in Nat /\ rewrites \in 0..MaxRewrites /\ passed \in Nat
    /\ outcome \in [kind : {"none", "approval", "manual_review", "raised"}, draft : Nat]

\* Everything about the run that does not mention the gate.
RunInv == RunTypeOK /\ ApprovedWasReviewed /\ RewrittenOnce /\ Rewriting /\ Judged

LEMMA InvParts ==
    WorkflowInv <=> GateInv /\ RunInv /\ QuietWhileOpen /\ SeriesInNode
PROOF
  BY DEF WorkflowInv, TypeOK, GateInv, RunInv, RunTypeOK

LEMMA InvPartsNext ==
    WorkflowInv' <=> GateInv' /\ RunInv' /\ QuietWhileOpen' /\ SeriesInNode'
PROOF
  BY DEF WorkflowInv, TypeOK, GateInv, RunInv, RunTypeOK

LEMMA RunStands ==
    ASSUME RunInv, UNCHANGED runVars
    PROVE  RunInv'
PROOF
  BY DEF RunInv, runVars, RunTypeOK, ApprovedWasReviewed, RewrittenOnce, Rewriting, Judged

\* A node's delta ends its series, so the phase and the breaker are no obstacle.
LEMMA NodeEnds ==
    ASSUME WorkflowInv, NEW n \in Nodes, Node(n)
    PROVE  GateInv' /\ QuietWhileOpen' /\ SeriesInNode'
PROOF
  <1>1. GateInv'
    BY InvParts, NodeMoves DEF Node
  <1>2. QuietWhileOpen' /\ SeriesInNode'
    BY DEF Node, QuietWhileOpen, SeriesInNode
  <1> QED BY <1>1, <1>2

LEMMA RunStarts ==
    ASSUME WorkflowAssumption, WorkflowInv, NEW m \in Mails, StartRun(m)
    PROVE  WorkflowInv'
PROOF
  <1>1. GateInv'
    BY InvParts, GateStands DEF StartRun
  <1>2. RunInv'
    BY DEF StartRun, RunInv, RunTypeOK, Nodes, InitialGraphState, None, MaxRewrites,
           ApprovedWasReviewed, RewrittenOnce, Rewriting, Judged
  <1>3. QuietWhileOpen' /\ SeriesInNode'
    BY DEF StartRun, WorkflowInv, QuietWhileOpen, SeriesInNode, gateVars, breaker
  <1> QED BY <1>1, <1>2, <1>3, InvPartsNext

\* The three nodes and the image analysis that call: an open breaker refuses
\* every series but the analysis, which is the retriever's.
LEMMA CallsKeep ==
    ASSUME WorkflowInv, UNCHANGED runVars, NEW attempts \in Nat, NEW asks \in BOOLEAN,
           Call(attempts, asks), pc \in {"categorizer", "retriever", "drafter", "reviewer"},
           asks \/ pc = "retriever"
    PROVE  WorkflowInv'
PROOF
  <1>1. GateInv'
    BY InvParts, Calls
  <1>2. RunInv'
    BY InvParts, RunStands
  <1>3. pc' = pc /\ open' = open
    BY DEF runVars, Call, breaker
  <1>4. QuietWhileOpen'
    <2>1. CASE pc = "retriever"
      BY <1>3, <2>1 DEF QuietWhileOpen
    <2>2. CASE asks /\ open
      <3>1. phase' = "failed"
        BY <2>2 DEF Call, CanProceed
      <3> QED BY <3>1 DEF QuietWhileOpen
    <2>3. CASE ~open
      BY <1>3, <2>3 DEF QuietWhileOpen
    <2> QED BY <2>1, <2>2, <2>3
  <1>5. SeriesInNode'
    BY <1>3 DEF SeriesInNode
  <1> QED BY <1>1, <1>2, <1>4, <1>5, InvPartsNext

LEMMA CategorizedKeeps ==
    ASSUME WorkflowInv, Categorized
    PROVE  WorkflowInv'
PROOF
  <1>1. GateInv' /\ QuietWhileOpen' /\ SeriesInNode'
    BY NodeEnds DEF Categorized, Nodes
  <1>2. RunInv'
    BY InvParts DEF Categorized, Node, RunInv, RunTypeOK, Nodes, ApprovedWasReviewed,
           RewrittenOnce, Rewriting, Judged
  <1> QED BY <1>1, <1>2, InvPartsNext

LEMMA RetrievedKeeps ==
    ASSUME WorkflowInv, Retrieved
    PROVE  WorkflowInv'
PROOF
  <1>1. GateInv' /\ QuietWhileOpen' /\ SeriesInNode'
    BY NodeEnds DEF Retrieved, Nodes
  <1>2. RunInv'
    BY InvParts DEF Retrieved, Node, RunInv, RunTypeOK, Nodes, ApprovedWasReviewed,
           RewrittenOnce, Rewriting, Judged, InitialGraphState
  <1> QED BY <1>1, <1>2, InvPartsNext

\* The drafter ends with a saved text and goes to the reviewer, or gives up.
LEMMA DrafterKeeps ==
    ASSUME WorkflowInv, Node("drafter"),
           \/ /\ graph' = DraftedDelta(graph)
              /\ row' = row + 1 \/ (graph.draft = TRUE /\ row' = row)
           \/ graph' = ManualReviewDelta(graph) /\ UNCHANGED row,
           pc' = RouteAfterDrafter(graph'), UNCHANGED <<mail, rewrites, outcome, passed>>
    PROVE  WorkflowInv'
PROOF
  <1>1. GateInv' /\ QuietWhileOpen' /\ SeriesInNode'
    BY NodeEnds DEF Nodes
  <1>2. pc = "drafter"
    BY DEF Node
  <1>3. RunInv
    BY InvParts
  <1>4. \/ row = 0 /\ graph.count = 0 /\ graph.draft = FALSE
        \/ row = 1 /\ graph.count = 1 /\ graph.draft = TRUE
    BY <1>2, <1>3 DEF RunInv, RunTypeOK, Rewriting
  <1>5. CASE graph' = DraftedDelta(graph) /\ (row' = row + 1 \/ (graph.draft = TRUE /\ row' = row))
    <2>1. /\ graph'.draft = TRUE /\ graph'.next = "approval" /\ graph'.approval = "pending"
          /\ graph'.count = graph.count
          /\ graph' \in [draft : BOOLEAN, next : {"unset", "approval", "drafter", "manual_review"},
                         approval : {"pending", "manual_review"}, count : Nat]
      BY <1>3, <1>5 DEF RunInv, RunTypeOK, DraftedDelta
    <2>2. pc' = "reviewer"
      BY <2>1 DEF RouteAfterDrafter
    <2>3. row' \in 1..(graph'.count + 1)
      BY <1>4, <1>5, <2>1
    <2>4. RunTypeOK'
      BY <1>3, <2>1, <2>2, <2>3 DEF RunInv, RunTypeOK, Nodes
    <2>5. Rewriting'
      BY <1>4, <2>1, <2>2, <2>3 DEF Rewriting
    <2>6. RewrittenOnce' /\ ApprovedWasReviewed' /\ Judged'
      BY <1>2, <1>3, <1>4, <2>1, <2>2, <2>3
         DEF RunInv, RewrittenOnce, ApprovedWasReviewed, Judged
    <2> QED BY <1>1, <2>4, <2>5, <2>6, InvPartsNext DEF RunInv
  <1>6. CASE graph' = ManualReviewDelta(graph) /\ row' = row
    <2>1. /\ graph'.next = "manual_review" /\ graph'.count = graph.count
          /\ graph' \in [draft : BOOLEAN, next : {"unset", "approval", "drafter", "manual_review"},
                         approval : {"pending", "manual_review"}, count : Nat]
      BY <1>3, <1>6 DEF RunInv, RunTypeOK, ManualReviewDelta
    <2>2. pc' = "manual_review"
      BY <2>1 DEF RouteAfterDrafter
    <2> QED BY <1>1, <1>2, <1>3, <1>4, <1>6, <2>1, <2>2, InvPartsNext
            DEF RunInv, RunTypeOK, Nodes, Rewriting, RewrittenOnce, ApprovedWasReviewed, Judged
  <1> QED BY <1>5, <1>6

\* What the reviewer's delta says: only a clean verdict approves, and only a
\* graph that was not rewritten yet goes back to the drafter.
LEMMA ReviewDecides ==
    ASSUME RunTypeOK, NEW verdict \in Verdicts, NEW g, g = ReviewDelta(graph, verdict)
    PROVE  /\ g \in [draft : BOOLEAN, next : {"unset", "approval", "drafter", "manual_review"},
                     approval : {"pending", "manual_review"}, count : Nat]
           /\ g.draft = graph.draft
           /\ \/ verdict = "clean" /\ g.next = "approval" /\ g.count = graph.count
              \/ g.next = "drafter" /\ graph.count = 0 /\ g.count = 1
              \/ g.next = "manual_review" /\ g.count = graph.count
PROOF
  <1>1. CASE verdict = "clean"
    BY <1>1 DEF RunTypeOK, ReviewDelta
  <1>2. CASE verdict = "issues" /\ graph.count < 1
    <2>1. g = Rewrite(graph)
      BY <1>2 DEF ReviewDelta
    <2>2. graph.count = 0
      BY <1>2 DEF RunTypeOK
    <2>3. g = [graph EXCEPT !.next = "drafter", !.count = 1]
      BY <2>1, <2>2 DEF Rewrite
    <2>4. graph \in [draft : BOOLEAN, next : {"unset", "approval", "drafter", "manual_review"},
                     approval : {"pending", "manual_review"}, count : Nat]
      BY DEF RunTypeOK
    <2>5. g \in [draft : BOOLEAN, next : {"unset", "approval", "drafter", "manual_review"},
                 approval : {"pending", "manual_review"}, count : Nat]
      <3> DEFINE h == [graph EXCEPT !.next = "drafter"]
      <3>1. h \in [draft : BOOLEAN, next : {"unset", "approval", "drafter", "manual_review"},
                   approval : {"pending", "manual_review"}, count : Nat]
        BY <2>4
      <3>2. g = [h EXCEPT !.count = 1]
        BY <2>3
      <3> HIDE DEF h
      <3> QED BY <3>1, <3>2
    <2>6. g.draft = graph.draft
      BY <2>3, <2>4
    <2>7. g.next = "drafter" /\ g.count = 1
      BY <2>3, <2>4
    <2> QED BY <2>2, <2>5, <2>6, <2>7
  <1>3. CASE verdict # "clean" /\ ~(verdict = "issues" /\ graph.count < 1)
    <2>1. g = ManualReviewDelta(graph)
      BY <1>3 DEF ReviewDelta
    <2> QED BY <2>1 DEF RunTypeOK, ManualReviewDelta
  <1> QED BY <1>1, <1>2, <1>3

LEMMA ReviewedKeeps ==
    ASSUME WorkflowInv, NEW verdict \in Verdicts, Reviewed(verdict)
    PROVE  WorkflowInv'
PROOF
  <1>1. GateInv' /\ QuietWhileOpen' /\ SeriesInNode'
    BY NodeEnds DEF Reviewed, Nodes
  <1>2. RunInv
    BY InvParts
  <1>3. /\ pc = "reviewer" /\ pc' = "driver" /\ graph' = ReviewDelta(graph, verdict)
        /\ passed' = (IF verdict = "clean" THEN row ELSE passed)
        /\ UNCHANGED <<mail, row, rewrites, outcome>>
    BY DEF Reviewed, Node
  <1>4. /\ row \in 1..(graph.count + 1) /\ graph.count \in Nat /\ graph.count <= 1
        /\ graph.draft = TRUE /\ row \in Nat
    BY <1>2, <1>3 DEF RunInv, RunTypeOK, Rewriting
  <1>5. /\ graph' \in [draft : BOOLEAN, next : {"unset", "approval", "drafter", "manual_review"},
                       approval : {"pending", "manual_review"}, count : Nat]
        /\ graph'.draft = TRUE
        /\ \/ verdict = "clean" /\ graph'.next = "approval" /\ graph'.count = graph.count
           \/ graph'.next = "drafter" /\ graph.count = 0 /\ graph'.count = 1
           \/ graph'.next = "manual_review" /\ graph'.count = graph.count
    BY <1>2, <1>3, <1>4, ReviewDecides DEF RunInv
  <1>6. RunTypeOK'
    BY <1>2, <1>3, <1>4, <1>5 DEF RunInv, RunTypeOK
  <1>7. Rewriting' /\ RewrittenOnce'
    BY <1>2, <1>3, <1>4, <1>5 DEF RunInv, Rewriting, RewrittenOnce
  <1>8. Judged' /\ ApprovedWasReviewed'
    BY <1>2, <1>3, <1>4, <1>5 DEF RunInv, Judged, ApprovedWasReviewed
  <1> QED BY <1>1, <1>6, <1>7, <1>8, InvPartsNext DEF RunInv

LEMMA ManualReviewKeeps ==
    ASSUME WorkflowInv, EnterManualReview
    PROVE  WorkflowInv'
PROOF
  <1>1. GateInv' /\ QuietWhileOpen' /\ SeriesInNode'
    BY NodeEnds DEF EnterManualReview, Nodes
  <1>2. RunInv'
    BY InvParts DEF EnterManualReview, Node, RunInv, RunTypeOK, ManualReviewDelta,
           ApprovedWasReviewed, RewrittenOnce, Rewriting, Judged
  <1> QED BY <1>1, <1>2, InvPartsNext

\* A graph that asks for a rewrite was reviewed once: its one text is the only
\* one, so the drafter that runs again saves the second and last.
LEMMA ResumeKeeps ==
    ASSUME WorkflowInv, Resume
    PROVE  WorkflowInv'
PROOF
  <1>1. RunInv
    BY InvParts
  <1>2. pc = "driver" /\ graph.next = "drafter" /\ UNCHANGED <<gateVars, mail, row, outcome, passed>>
    BY DEF Resume
  <1>3. GateInv'
    BY <1>2, InvParts, GateStands
  <1>4. phase = "none" /\ phase' = "none"
    BY <1>2 DEF WorkflowInv, SeriesInNode, gateVars
  <1>5. QuietWhileOpen' /\ SeriesInNode'
    BY <1>4 DEF QuietWhileOpen, SeriesInNode
  <1>6. RunInv'
    <2>1. CASE rewrites < MaxRewrites
      <3>1. pc' = "drafter" /\ rewrites' = rewrites + 1 /\ graph' = graph
        BY <2>1 DEF Resume
      <3> QED BY <1>1, <1>2, <2>1, <3>1
              DEF RunInv, RunTypeOK, Nodes, MaxRewrites, ApprovedWasReviewed, RewrittenOnce,
                  Rewriting, Judged
    <2>2. CASE ~(rewrites < MaxRewrites)
      <3>1. pc' = pc /\ rewrites' = rewrites /\ graph' = ManualReviewDelta(graph)
        BY <2>2 DEF Resume
      <3> QED BY <1>1, <1>2, <3>1
              DEF RunInv, RunTypeOK, ManualReviewDelta, ApprovedWasReviewed, RewrittenOnce,
                  Rewriting, Judged
    <2> QED BY <2>1, <2>2
  <1> QED BY <1>3, <1>5, <1>6, InvPartsNext

\* The projection's approval rests on the decision the interrupt left.
LEMMA ProjectKeeps ==
    ASSUME WorkflowInv, Project
    PROVE  WorkflowInv'
PROOF
  <1>1. RunInv
    BY InvParts
  <1>2. /\ pc = "driver" /\ graph.next # "drafter" /\ pc' = "idle"
        /\ UNCHANGED <<gateVars, mail, graph, row, rewrites, passed>>
    BY DEF Project
  <1>3. GateInv'
    BY <1>2, InvParts, GateStands
  <1>4. QuietWhileOpen' /\ SeriesInNode'
    BY <1>2 DEF WorkflowInv, QuietWhileOpen, SeriesInNode, gateVars
  <1>5. \/ outcome' = [kind |-> "manual_review", draft |-> 0]
        \/ /\ graph.next = "approval"
           /\ outcome' = [kind |-> "approval", draft |-> row]
    <2>1. graph.next \in {"approval", "manual_review"}
      BY <1>1, <1>2 DEF RunInv, RunTypeOK, Judged
    <2>2. CASE graph.next = "manual_review" \/ graph.approval = "manual_review"
      BY <2>2 DEF Project
    <2>3. CASE ~(graph.next = "manual_review" \/ graph.approval = "manual_review")
      <3>1. graph.next = "approval" /\ graph.draft = TRUE
        BY <1>1, <1>2, <2>1, <2>3 DEF RunInv, Judged
      <3> QED BY <2>3, <3>1 DEF Project
    <2> QED BY <2>2, <2>3
  <1>6. ApprovedWasReviewed'
    BY <1>1, <1>2, <1>5 DEF RunInv, Judged, ApprovedWasReviewed
  <1>7. RunTypeOK'
    BY <1>1, <1>2, <1>5 DEF RunInv, RunTypeOK
  <1>8. RewrittenOnce' /\ Rewriting' /\ Judged'
    BY <1>1, <1>2 DEF RunInv, RewrittenOnce, Rewriting, Judged
  <1> QED BY <1>3, <1>4, <1>6, <1>7, <1>8, InvPartsNext DEF RunInv

LEMMA RaisesKeeps ==
    ASSUME WorkflowInv, Raises
    PROVE  WorkflowInv'
PROOF
  <1>1. GateInv'
    BY InvParts, NodeMoves DEF Raises
  <1>2. RunInv'
    BY InvParts DEF Raises, RunInv, RunTypeOK, ApprovedWasReviewed, RewrittenOnce, Rewriting, Judged
  <1>3. QuietWhileOpen' /\ SeriesInNode'
    BY DEF Raises, QuietWhileOpen, SeriesInNode
  <1> QED BY <1>1, <1>2, <1>3, InvPartsNext

LEMMA CrashKeeps ==
    ASSUME WorkflowAssumption, WorkflowInv, Crash
    PROVE  WorkflowInv'
PROOF
  <1>1. GateInv'
    BY InvParts, GateRestarts DEF Crash
  <1>2. RunInv
    BY InvParts
  <1>3. /\ pc' = "idle" /\ UNCHANGED <<mail, graph, row, rewrites, passed>>
        /\ outcome' \in {outcome, [kind |-> "raised", draft |-> 0]}
    BY DEF Crash
  <1>4. RunInv'
    BY <1>2, <1>3 DEF RunInv, RunTypeOK, ApprovedWasReviewed, RewrittenOnce, Rewriting, Judged
  <1>5. QuietWhileOpen' /\ SeriesInNode'
    BY DEF Crash, GateRestart, QuietWhileOpen, SeriesInNode
  <1> QED BY <1>1, <1>4, <1>5, InvPartsNext

-----------------------------------------------------------------------------
(* The gate's own steps, seen from the run.                                *)

\* A step of a series that leaves the breaker alone: it was already allowed.
LEMMA SeriesGoesOn ==
    ASSUME WorkflowInv, GateInv', UNCHANGED runVars, UNCHANGED open,
           phase \notin {"none", "failed"}
    PROVE  WorkflowInv'
PROOF
  <1>1. RunInv'
    BY InvParts, RunStands
  <1>2. QuietWhileOpen' /\ SeriesInNode'
    BY DEF WorkflowInv, QuietWhileOpen, SeriesInNode, runVars
  <1> QED BY <1>1, <1>2, InvPartsNext

LEMMA ExhaustKeeps ==
    ASSUME WorkflowAssumption, WorkflowInv, Exhaust(pc # "retriever"), UNCHANGED runVars
    PROVE  WorkflowInv'
PROOF
  <1>1. GateInv
    BY InvParts
  <1>2. phase = "sent" /\ phase' = "failed" /\ UNCHANGED <<up, limiter, left>>
    BY DEF Exhaust
  <1>3. pc' = pc
    BY DEF runVars
  <1>4. QuietWhileOpen' /\ SeriesInNode'
    BY <1>2, <1>3 DEF WorkflowInv, QuietWhileOpen, SeriesInNode
  <1>5. RunInv'
    BY InvParts, RunStands
  <1>6. CASE pc = "retriever"
    <2>1. UNCHANGED breaker
      BY <1>6 DEF Exhaust
    <2>2. phase' \in Phases \ {"sleep"} /\ left' \in Nat /\ up' \in BOOLEAN
      BY <1>1, <1>2 DEF GateInv, GateTypeOK, Phases
    <2>3. GateInv'
      BY <1>1, <1>2, <2>1, <2>2, PhaseMoves
    <2> QED BY <1>4, <1>5, <2>3, InvPartsNext
  <1>7. CASE pc # "retriever"
    <2>1. ~open
      BY <1>2, <1>7 DEF WorkflowInv, QuietWhileOpen, SeriesInNode
    <2>2. ReportFailure
      BY <1>7 DEF Exhaust
    <2>3. ages' \in Seq(0..Window) /\ open' \in BOOLEAN /\ FailuresInOrder'
      BY <1>1, <2>1, <2>2, FailureReported
    <2>4. GateTypeOK'
      BY <1>1, <1>2, <2>3 DEF GateInv, GateTypeOK, Phases, limiter
    <2>5. Stamped'
      BY <1>1, <1>2 DEF GateInv, Stamped, limiter
    <2> QED BY <1>4, <1>5, <2>3, <2>4, <2>5, InvPartsNext DEF GateInv
  <1> QED BY <1>6, <1>7

LEMMA GateStepKeeps ==
    ASSUME WorkflowAssumption, WorkflowInv, GateStep
    PROVE  WorkflowInv'
PROOF
  <1>1. UNCHANGED runVars /\ GateInv
    BY InvParts DEF GateStep
  <1>2. CASE EnterLimiter
    <2>1. UNCHANGED open /\ phase \notin {"none", "failed"}
      BY <1>2 DEF EnterLimiter, breaker
    <2>2. GateInv'
      BY <1>1, <1>2, LimiterEntered
    <2> QED BY <1>1, <2>1, <2>2, SeriesGoesOn
  <1>3. CASE LeaveLimiter
    <2>1. UNCHANGED open /\ phase \notin {"none", "failed"}
      BY <1>3 DEF LeaveLimiter, breaker
    <2>2. GateInv'
      BY <1>1, <1>3, LimiterLeft
    <2> QED BY <1>1, <2>1, <2>2, SeriesGoesOn
  <1>4. CASE Reply \/ Retry
    <2>1. /\ phase' \in Phases \ {"sleep"} /\ left' \in Nat /\ up' \in BOOLEAN
          /\ UNCHANGED <<breaker, limiter>> /\ phase \notin {"none", "failed"}
      BY <1>1, <1>4 DEF Reply, Retry, GateInv, GateTypeOK, Phases
    <2>2. GateInv'
      BY <1>1, <2>1, PhaseMoves
    <2>3. UNCHANGED open
      BY <2>1 DEF breaker
    <2> QED BY <1>1, <2>1, <2>2, <2>3, SeriesGoesOn
  <1>5. CASE Exhaust(pc # "retriever")
    BY <1>1, <1>5, ExhaustKeeps
  <1> QED BY <1>2, <1>3, <1>4, <1>5 DEF GateStep

LEMMA PassesKeeps ==
    ASSUME WorkflowAssumption, WorkflowInv, Passes
    PROVE  WorkflowInv'
PROOF
  <1>1. GateInv' /\ RunInv'
    BY InvParts, SecondPasses, RunStands DEF Passes
  <1>2. QuietWhileOpen' /\ SeriesInNode'
    BY DEF Passes, Tick, runVars, WorkflowInv, QuietWhileOpen, SeriesInNode
  <1> QED BY <1>1, <1>2, InvPartsNext

LEMMA OutageKeeps ==
    ASSUME WorkflowInv, Outage, UNCHANGED runVars
    PROVE  WorkflowInv'
PROOF
  <1>1. GateInv' /\ RunInv'
    <2>1. up' \in BOOLEAN
      BY InvParts DEF Outage, GateInv, GateTypeOK
    <2>2. GateInv'
      BY <2>1, InvParts DEF Outage, GateInv, breaker, limiter, GateTypeOK, FailuresInOrder, Stamped
    <2> QED BY <2>2, InvParts, RunStands
  <1>2. QuietWhileOpen' /\ SeriesInNode'
    BY DEF Outage, runVars, breaker, WorkflowInv, QuietWhileOpen, SeriesInNode
  <1> QED BY <1>1, <1>2, InvPartsNext

-----------------------------------------------------------------------------
LEMMA NodeStepKeeps ==
    ASSUME WorkflowAssumption, WorkflowInv, NodeStep
    PROVE  WorkflowInv'
PROOF
  <1>1. WriterTries \in Nat /\ ReviewTries \in Nat /\ TRUE \in BOOLEAN /\ FALSE \in BOOLEAN
    BY DEF WorkflowAssumption
  <1>2. CASE CategorizerCalls
    BY <1>1, <1>2, CallsKeep DEF CategorizerCalls
  <1>3. CASE Categorized
    BY <1>3, CategorizedKeeps
  <1>4. CASE RetrieverCalls
    BY <1>1, <1>4, CallsKeep DEF RetrieverCalls
  <1>5. CASE Retrieved
    BY <1>5, RetrievedKeeps
  <1>6. CASE DraftForward
    BY <1>6, DrafterKeeps DEF DraftForward
  <1>7. CASE DraftFixed
    BY <1>7, DrafterKeeps DEF DraftFixed
  <1>8. CASE DrafterCalls
    BY <1>1, <1>8, CallsKeep DEF DrafterCalls
  <1>9. CASE \E usable \in BOOLEAN : Drafted(usable)
    BY <1>9, DrafterKeeps DEF Drafted
  <1>10. CASE ReviewerCalls
    BY <1>1, <1>10, CallsKeep DEF ReviewerCalls
  <1>11. CASE \E verdict \in Verdicts : Reviewed(verdict)
    BY <1>11, ReviewedKeeps
  <1>12. CASE EnterManualReview
    BY <1>12, ManualReviewKeeps
  <1>13. CASE Resume
    BY <1>13, ResumeKeeps
  <1>14. CASE Project
    BY <1>14, ProjectKeeps
  <1> QED BY <1>2, <1>3, <1>4, <1>5, <1>6, <1>7, <1>8, <1>9, <1>10, <1>11, <1>12, <1>13, <1>14
          DEF NodeStep

LEMMA InvInit ==
    ASSUME WorkflowAssumption, Init
    PROVE  WorkflowInv
PROOF
  <1>1. GateInv
    BY GateStarts DEF Init
  <1>2. RunInv
    BY DEF Init, RunInv, RunTypeOK, InitialGraphState, None, MaxRewrites,
           ApprovedWasReviewed, RewrittenOnce, Rewriting, Judged
  <1>3. QuietWhileOpen /\ SeriesInNode
    BY DEF Init, GateInit, QuietWhileOpen, SeriesInNode
  <1> QED BY <1>1, <1>2, <1>3, InvParts

LEMMA InvStep ==
    ASSUME WorkflowAssumption, WorkflowInv, [Next]_vars
    PROVE  WorkflowInv'
PROOF
  <1>1. CASE NodeStep
    BY <1>1, NodeStepKeeps
  <1>2. CASE GateStep
    BY <1>2, GateStepKeeps
  <1>3. CASE Passes
    BY <1>3, PassesKeeps
  <1>4. CASE Raises
    BY <1>4, RaisesKeeps
  <1>5. CASE Crash
    BY <1>5, CrashKeeps
  <1>6. CASE \E m \in Mails : StartRun(m)
    BY <1>6, RunStarts
  <1>7. CASE Outage /\ UNCHANGED runVars
    BY <1>7, OutageKeeps
  <1>8. CASE UNCHANGED vars
    <2>1. UNCHANGED gateVars /\ UNCHANGED runVars
      BY <1>8 DEF vars
    <2>2. GateInv' /\ RunInv'
      BY <2>1, InvParts, GateStands, RunStands
    <2>3. QuietWhileOpen' /\ SeriesInNode'
      BY <2>1 DEF gateVars, breaker, runVars, WorkflowInv, QuietWhileOpen, SeriesInNode
    <2> QED BY <2>2, <2>3, InvPartsNext
  <1> QED BY <1>1, <1>2, <1>3, <1>4, <1>5, <1>6, <1>7, <1>8 DEF Next

\* _run_ai_pipeline, nodes/reviewer.py, utils/retry_decorator.py: for any mails,
\* attempts, window and threshold, only text that the reviewer and the content
\* guard passed in this run is put up for approval, a poor draft is rewritten
\* once at most, and an open breaker keeps classification, writing and review
\* away from the provider.
THEOREM ReviewedBeforeApproval ==
    ASSUME WorkflowAssumption
    PROVE  Spec => []WorkflowInv
PROOF
  <1>1. Init => WorkflowInv
    BY InvInit
  <1>2. WorkflowInv /\ [Next]_vars => WorkflowInv'
    BY InvStep
  <1> QED BY <1>1, <1>2, PTL DEF Spec

\* A call gets through the limiter at its entrance, when Interval has passed,
\* or after the sleep that was as long as what was missing.
LEMMA SpacedStep ==
    ASSUME WorkflowAssumption, WorkflowInv, Next, phase # "sent", phase' = "sent"
    PROVE  gap = Interval
PROOF
  <1>1. /\ Interval \in Nat /\ since \in 0..Interval /\ gap = since
        /\ phase = "sleep" => since + nap >= Interval
    BY DEF WorkflowAssumption, GateAssumption, WorkflowInv, TypeOK, GateTypeOK, Stamped
  <1>2. CASE NodeStep
    BY <1>2 DEF NodeStep, CategorizerCalls, Categorized, RetrieverCalls, Retrieved, DraftForward,
           DraftFixed, DrafterCalls, Drafted, ReviewerCalls, Reviewed, EnterManualReview, Resume,
           Project, Call, Node, gateVars
  <1>3. CASE GateStep
    <2>1. CASE EnterLimiter
      BY <1>1, <2>1 DEF EnterLimiter
    <2>2. CASE LeaveLimiter
      BY <1>1, <2>2 DEF LeaveLimiter
    <2>3. CASE Reply \/ Retry \/ Exhaust(pc # "retriever")
      BY <2>3 DEF Reply, Retry, Exhaust
    <2> QED BY <1>3, <2>1, <2>2, <2>3 DEF GateStep
  <1>4. CASE Passes \/ Raises \/ Crash \/ (\E m \in Mails : StartRun(m)) \/ Outage
    BY <1>4 DEF Passes, Tick, Raises, Crash, GateRestart, StartRun, Outage, gateVars
  <1> QED BY <1>2, <1>3, <1>4 DEF Next

\* utils/rate_limiter.py: whatever the interval, two calls that go through the
\* limiter are Interval apart, over retries, series and outages.
THEOREM CallsAreSpaced ==
    ASSUME WorkflowAssumption
    PROVE  Spec => CallsSpaced
PROOF
  <1>1. Spec => []WorkflowInv
    BY ReviewedBeforeApproval
  <1>2. WorkflowInv /\ [Next]_vars
          => [(phase # "sent" /\ phase' = "sent") => gap = Interval]_vars
    BY SpacedStep
  <1> QED BY <1>1, <1>2, PTL DEF Spec, CallsSpaced
-----------------------------------------------------------------------------
\* The life of the process.

\* The runtime's own fields, and those of the Feishu connection.
RuntimeFields ==
    [pool : BOOLEAN, heartbeat : {"off", "sleeping", "renewing"},
     worker : {"off", "running", "dead"}, recovery : {"off", "running", "dead"},
     polling : {"off", "idle", "renewing", "writing", "dead"},
     accepting : BOOLEAN, ready : BOOLEAN, started : BOOLEAN,
     stopping : BOOLEAN, stopped : BOOLEAN, clean : BOOLEAN]

LarkFields == [intake : BOOLEAN, ws : {"off", "up", "down", "stopping"},
               monitor : BOOLEAN, callback : BOOLEAN]

\* The process starts with nothing running.
LEMMA LifeInit == Life!Init => Life!RuntimeInductive
PROOF
  <1> SUFFICES ASSUME Life!Init PROVE Life!RuntimeInductive
    OBVIOUS
  <1> USE DEF Life!Init, Life!NoLease
  <1>1. rt \in RuntimeFields /\ lark \in LarkFields
    BY DEF RuntimeFields, LarkFields
  <1>2. /\ alive \in BOOLEAN /\ digest \in BOOLEAN /\ ingest \in BOOLEAN
        /\ lease \in [lifecycle : {"none", "active", "draining"}, current : BOOLEAN]
        /\ lessee \in [lifecycle : {"absent", "active", "draining"}, live : BOOLEAN]
    OBVIOUS
  <1>3. Life!TypeOK
    BY <1>1, <1>2 DEF Life!TypeOK, RuntimeFields, LarkFields, Life!Steps, Life!StartSteps
  <1>4. Life!Quiet
    BY DEF Life!Quiet
  <1>5. /\ rt.accepting = FALSE /\ rt.stopped = FALSE
        /\ lark.callback = FALSE /\ lark.intake = FALSE
    OBVIOUS
  <1> QED
    BY <1>3, <1>4, <1>5
    DEF Life!RuntimeInductive, Life!RuntimeInv, Life!DrainedMeansQuiet,
        Life!SessionKeepsVersion, Life!CallbacksAfterStart,
        Life!StartsInOrder, Life!StopsInOrder, Life!ContextUp,
        Life!PollingStopped, Life!HeartbeatStopped, Life!WorkerStopped,
        Life!RuntimeGone, Life!IntakeGone, Life!RollbackSteps, Life!StopSteps

\* The process ends, whatever state it leaves.
LEMMA EndKeeps ==
    ASSUME Life!RuntimeInductive, alive' = FALSE, main' = "exit",
           lease' \in [lifecycle : {"none", "active", "draining"}, current : BOOLEAN],
           UNCHANGED <<fence, context, lark, digest, rt, lock, lessee, ingest>>
    PROVE  Life!RuntimeInductive'
PROOF
  <1>1. alive' \in BOOLEAN /\ ~alive'
    OBVIOUS
  <1>2. Life!TypeOK'
    BY <1>1 DEF Life!RuntimeInductive, Life!RuntimeInv, Life!TypeOK, Life!Steps
  <1>3. Life!CallbacksAfterStart'
    BY DEF Life!RuntimeInductive, Life!RuntimeInv, Life!CallbacksAfterStart
  <1> QED
    BY <1>1, <1>2, <1>3 DEF Life!RuntimeInductive, Life!RuntimeInv,
       Life!DrainedMeansQuiet, Life!SessionKeepsVersion

\* Steps of the start, the shutdown and the world outside that leave the
\* runtime's own fields alone.
LEMMA OutsideKeeps ==
    ASSUME Life!RuntimeInductive,
           \/ Life!StartFence \/ Life!StartContext \/ Life!ConnectLark
           \/ Life!ReadAuthority \/ Life!StartDigest \/ Life!FenceLost
           \/ Life!Pause \/ Life!Terminate \/ Life!CloseContext
           \/ Life!ReleaseFence
    PROVE  Life!RuntimeInductive'
PROOF
  <1> USE DEF Life!RuntimeInductive, Life!RuntimeInv, Life!TypeOK,
         Life!DrainedMeansQuiet, Life!SessionKeepsVersion,
         Life!CallbacksAfterStart, Life!StartsInOrder, Life!StopsInOrder,
         Life!NotYet, Life!ContextUp, Life!PollingStopped,
         Life!HeartbeatStopped, Life!WorkerStopped, Life!RuntimeGone,
         Life!IntakeGone, Life!Steps, Life!StartSteps, Life!RollbackSteps,
         Life!StopSteps, Life!ShutdownSteps, Life!Quiet, Life!Goto,
         Life!outer, Life!database
  <1>1. CASE Life!StartFence
    BY <1>1 DEF Life!StartFence
  <1>2. CASE Life!StartContext
    BY <1>2 DEF Life!StartContext
  <1>3. CASE Life!ConnectLark
    BY <1>3 DEF Life!ConnectLark
  <1>4. CASE Life!ReadAuthority
    BY <1>4 DEF Life!ReadAuthority
  <1>5. CASE Life!StartDigest
    BY <1>5 DEF Life!StartDigest
  <1>6. CASE Life!FenceLost
    BY <1>6 DEF Life!FenceLost
  <1>7. CASE Life!Pause
    <2>1. ingest' \in BOOLEAN
      BY <1>7, Zenon DEF Life!Pause
    <2> QED
      BY <1>7, <2>1 DEF Life!Pause
  <1>8. CASE Life!Terminate
    BY <1>8 DEF Life!Terminate
  <1>9. CASE Life!CloseContext
    BY <1>9 DEF Life!CloseContext
  <1>10. CASE Life!ReleaseFence
    BY <1>10 DEF Life!ReleaseFence
  <1> QED
    BY <1>1, <1>2, <1>3, <1>4, <1>5, <1>6, <1>7, <1>8, <1>9, <1>10

\* The steps that end the process, in order or at once.
LEMMA FailStopKeeps ==
    ASSUME Life!RuntimeInductive,
           \/ Life!HeartbeatEscalates \/ Life!HeartbeatFails
           \/ Life!MonitorFailStops \/ Life!FenceFailStops \/ Life!Exit
    PROVE  Life!RuntimeInductive'
PROOF
  <1> DEFINE LeaseType == [lifecycle : {"none", "active", "draining"},
                           current : BOOLEAN]
  <1>1. lease \in LeaseType
    BY DEF Life!RuntimeInductive, Life!RuntimeInv, Life!TypeOK
  <1>2. lease' \in LeaseType
    BY <1>1 DEF Life!HeartbeatEscalates, Life!HeartbeatFails,
       Life!MonitorFailStops, Life!FenceFailStops, Life!Exit,
       Life!RenewalUnheard
  <1>3. /\ alive' = FALSE /\ main' = "exit"
        /\ UNCHANGED <<fence, context, lark, digest, rt, lock, lessee, ingest>>
    BY Zenon DEF Life!HeartbeatEscalates, Life!HeartbeatFails, Life!MonitorFailStops,
       Life!FenceFailStops, Life!Exit, Life!FailStop, Life!outer, Life!database
  <1> QED
    BY <1>2, <1>3, EndKeeps

\* Steps of the Feishu connection, and a lease that runs out.
LEMMA ConnectionKeeps ==
    ASSUME Life!RuntimeInductive,
           \/ Life!StartLark \/ Life!WebSocketUp \/ Life!WebSocketDown
           \/ Life!CallbackArrives \/ Life!CallbackEnds \/ Life!Lapse
    PROVE  Life!RuntimeInductive'
PROOF
  <1> USE DEF Life!RuntimeInductive, Life!RuntimeInv, Life!TypeOK,
         Life!DrainedMeansQuiet, Life!SessionKeepsVersion,
         Life!CallbacksAfterStart, Life!StartsInOrder, Life!StopsInOrder,
         Life!NotYet, Life!ContextUp, Life!PollingStopped,
         Life!HeartbeatStopped, Life!WorkerStopped, Life!RuntimeGone,
         Life!IntakeGone, Life!Steps, Life!StartSteps, Life!RollbackSteps,
         Life!StopSteps, Life!ShutdownSteps, Life!Quiet, Life!Goto,
         Life!outer, Life!database, LarkFields
  <1>1. CASE Life!StartLark
    <2>1. /\ lark' \in LarkFields
          /\ lark'.intake = FALSE /\ lark'.callback = lark.callback
      BY <1>1 DEF Life!StartLark
    <2>2. /\ main = "lark" /\ main' = "ws"
          /\ UNCHANGED <<alive, fence, context, digest, rt, lock, lease, lessee, ingest>>
      BY <1>1 DEF Life!StartLark
    <2> QED
      BY <2>1, <2>2
  <1>2. CASE Life!WebSocketUp \/ Life!WebSocketDown
    <2>1. /\ lark' \in LarkFields
          /\ lark'.intake = lark.intake /\ lark'.callback = lark.callback
      BY <1>2 DEF Life!WebSocketUp, Life!WebSocketDown
    <2>2. UNCHANGED <<main, alive, fence, context, digest, rt, lock, lease, lessee,
                      ingest>>
      BY <1>2 DEF Life!WebSocketUp, Life!WebSocketDown
    <2> QED
      BY <2>1, <2>2
  <1>3. CASE Life!CallbackArrives
    <2>1. /\ lark' \in LarkFields
          /\ lark'.intake = lark.intake /\ lark'.callback = TRUE
          /\ lark.intake = TRUE /\ alive
      BY <1>3 DEF Life!CallbackArrives
    <2>2. UNCHANGED <<main, alive, fence, context, digest, rt, lock, lease, lessee,
                      ingest>>
      BY <1>3 DEF Life!CallbackArrives
    <2> QED
      BY <2>1, <2>2
  <1>4. CASE Life!CallbackEnds
    <2>1. /\ lark' \in LarkFields
          /\ lark'.intake = lark.intake /\ lark'.callback = FALSE
      BY <1>4 DEF Life!CallbackEnds
    <2>2. UNCHANGED <<main, alive, fence, context, digest, rt, lock, lease, lessee,
                      ingest>>
      BY <1>4 DEF Life!CallbackEnds
    <2> QED
      BY <2>1, <2>2
  <1>5. CASE Life!Lapse
    <2>1. /\ lessee' \in [lifecycle : {"absent", "active", "draining"}, live : BOOLEAN]
          /\ lessee'.lifecycle = lessee.lifecycle
      BY <1>5 DEF Life!Lapse
    <2> QED
      BY <1>5, <2>1 DEF Life!Lapse
  <1> QED
    BY <1>1, <1>2, <1>3, <1>4, <1>5

\* Heartbeats and pages take turns with the session lock; a page that is not
\* renewed closes the session to further ones.
LEMMA HeartbeatKeeps ==
    ASSUME Life!RuntimeInductive,
           \/ Life!HeartbeatBegins \/ Life!HeartbeatSucceeds
           \/ Life!PageBegins \/ Life!PageRenewed \/ Life!PageNotRenewed
           \/ Life!PageEnds
    PROVE  Life!RuntimeInductive'
PROOF
  <1> USE DEF Life!RuntimeInductive, Life!RuntimeInv, Life!TypeOK,
         Life!DrainedMeansQuiet, Life!SessionKeepsVersion,
         Life!CallbacksAfterStart, Life!StartsInOrder, Life!StopsInOrder,
         Life!NotYet, Life!ContextUp, Life!PollingStopped,
         Life!HeartbeatStopped, Life!WorkerStopped, Life!RuntimeGone,
         Life!IntakeGone, Life!Steps, Life!StartSteps, Life!RollbackSteps,
         Life!StopSteps, Life!ShutdownSteps, Life!Quiet, Life!Goto,
         Life!outer, Life!database, RuntimeFields, LarkFields
  <1>1. CASE Life!HeartbeatBegins
    <2>1. /\ rt' \in RuntimeFields
          /\ rt'.heartbeat = "renewing"
          /\ rt.heartbeat = "sleeping"
          /\ UNCHANGED <<rt.pool, rt.worker, rt.recovery, rt.polling,
                         rt.accepting, rt.ready, rt.started, rt.stopping,
                         rt.stopped, rt.clean>>
      BY <1>1 DEF Life!HeartbeatBegins
    <2>2. /\ lock' = "heartbeat"
          /\ UNCHANGED <<main, alive, fence, context, lark, digest, lease, lessee,
                         ingest>>
      BY <1>1 DEF Life!HeartbeatBegins
    <2> QED
      BY <2>1, <2>2
  <1>2. CASE Life!HeartbeatSucceeds
    <2>1. /\ rt' \in RuntimeFields
          /\ rt'.heartbeat = "sleeping"
          /\ rt.heartbeat = "renewing"
          /\ UNCHANGED <<rt.pool, rt.worker, rt.recovery, rt.polling,
                         rt.accepting, rt.ready, rt.started, rt.stopping,
                         rt.stopped, rt.clean>>
      BY <1>2 DEF Life!HeartbeatSucceeds
    <2>2. /\ lock' = "free"
          /\ UNCHANGED <<main, alive, fence, context, lark, digest, lease, lessee,
                         ingest>>
      BY <1>2 DEF Life!HeartbeatSucceeds
    <2> QED
      BY <2>1, <2>2
  <1>3. CASE Life!PageBegins
    <2>1. /\ rt' \in RuntimeFields
          /\ rt'.polling = "renewing"
          /\ rt.polling = "idle"
          /\ UNCHANGED <<rt.pool, rt.heartbeat, rt.worker, rt.recovery,
                         rt.accepting, rt.ready, rt.started, rt.stopping,
                         rt.stopped, rt.clean>>
      BY <1>3 DEF Life!PageBegins
    <2>2. /\ lock' = "page"
          /\ UNCHANGED <<main, alive, fence, context, lark, digest, lease, lessee,
                         ingest>>
      BY <1>3 DEF Life!PageBegins
    <2> QED
      BY <2>1, <2>2
  <1>4. CASE Life!PageRenewed
    <2>1. /\ rt' \in RuntimeFields
          /\ rt'.polling = "writing"
          /\ rt.polling = "renewing"
          /\ UNCHANGED <<rt.pool, rt.heartbeat, rt.worker, rt.recovery,
                         rt.accepting, rt.ready, rt.started, rt.stopping,
                         rt.stopped, rt.clean>>
      BY <1>4 DEF Life!PageRenewed
    <2>2. /\ UNCHANGED <<main, alive, fence, context, lark, digest, lock, lease,
                         lessee, ingest>>
      BY <1>4 DEF Life!PageRenewed
    <2> QED
      BY <2>1, <2>2
  <1>5. CASE Life!PageNotRenewed
    <2>1. /\ rt' \in RuntimeFields
          /\ rt'.polling = "idle"
          /\ rt'.accepting = FALSE
          /\ rt.polling = "renewing"
          /\ UNCHANGED <<rt.pool, rt.heartbeat, rt.worker, rt.recovery, rt.ready,
                         rt.started, rt.stopping, rt.stopped, rt.clean>>
      BY <1>5 DEF Life!PageNotRenewed, Life!RenewalUnheard
    <2>2. /\ lock' = "free"
          /\ lease' \in [lifecycle : {"none", "active", "draining"}, current : BOOLEAN]
          /\ UNCHANGED <<main, alive, fence, context, lark, digest, lessee,
                         ingest>>
      BY <1>5 DEF Life!PageNotRenewed, Life!RenewalUnheard
    <2> QED
      BY <2>1, <2>2
  <1>6. CASE Life!PageEnds
    <2>1. /\ rt' \in RuntimeFields
          /\ rt'.polling = "idle"
          /\ rt.polling = "writing"
          /\ UNCHANGED <<rt.pool, rt.heartbeat, rt.worker, rt.recovery,
                         rt.accepting, rt.ready, rt.started, rt.stopping,
                         rt.stopped, rt.clean>>
      BY <1>6 DEF Life!PageEnds
    <2>2. /\ lock' = "free"
          /\ UNCHANGED <<main, alive, fence, context, lark, digest, lease, lessee,
                         ingest>>
      BY <1>6 DEF Life!PageEnds
    <2> QED
      BY <2>1, <2>2
  <1> QED
    BY <1>1, <1>2, <1>3, <1>4, <1>5, <1>6

\* A part of the runtime that dies starts nothing.
LEMMA DeathKeeps ==
    ASSUME Life!RuntimeInductive,
           \/ Life!WorkerDies \/ Life!RecoveryDies \/ Life!PollingDies
    PROVE  Life!RuntimeInductive'
PROOF
  <1> USE DEF Life!RuntimeInductive, Life!RuntimeInv, Life!TypeOK,
         Life!DrainedMeansQuiet, Life!SessionKeepsVersion,
         Life!CallbacksAfterStart, Life!StartsInOrder, Life!StopsInOrder,
         Life!NotYet, Life!ContextUp, Life!PollingStopped,
         Life!HeartbeatStopped, Life!WorkerStopped, Life!RuntimeGone,
         Life!IntakeGone, Life!Steps, Life!StartSteps, Life!RollbackSteps,
         Life!StopSteps, Life!ShutdownSteps, Life!Quiet, Life!Goto,
         Life!outer, Life!database, RuntimeFields, LarkFields
  <1>1. CASE Life!WorkerDies
    <2>1. /\ rt' \in RuntimeFields
          /\ rt'.worker = "dead"
          /\ UNCHANGED <<rt.pool, rt.heartbeat, rt.recovery, rt.polling,
                         rt.accepting, rt.ready, rt.started, rt.stopping,
                         rt.stopped, rt.clean>>
      BY <1>1 DEF Life!WorkerDies
    <2>2. /\ UNCHANGED <<main, alive, fence, context, lark, digest, lock, lease,
                         lessee, ingest>>
      BY <1>1 DEF Life!WorkerDies
    <2> QED
      BY <2>1, <2>2
  <1>2. CASE Life!RecoveryDies
    <2>1. /\ rt' \in RuntimeFields
          /\ rt'.recovery = "dead"
          /\ rt.recovery = "running"
          /\ UNCHANGED <<rt.pool, rt.heartbeat, rt.worker, rt.polling,
                         rt.accepting, rt.ready, rt.started, rt.stopping,
                         rt.stopped, rt.clean>>
      BY <1>2 DEF Life!RecoveryDies
    <2>2. /\ UNCHANGED <<main, alive, fence, context, lark, digest, lock, lease,
                         lessee, ingest>>
      BY <1>2 DEF Life!RecoveryDies
    <2> QED
      BY <2>1, <2>2
  <1>3. CASE Life!PollingDies
    <2>1. /\ rt' \in RuntimeFields
          /\ rt'.polling = "dead"
          /\ rt.polling = "idle"
          /\ UNCHANGED <<rt.pool, rt.heartbeat, rt.worker, rt.recovery,
                         rt.accepting, rt.ready, rt.started, rt.stopping,
                         rt.stopped, rt.clean>>
      BY <1>3 DEF Life!PollingDies
    <2>2. /\ UNCHANGED <<main, alive, fence, context, lark, digest, lock, lease,
                         lessee, ingest>>
      BY <1>3 DEF Life!PollingDies
    <2> QED
      BY <2>1, <2>2
  <1> QED
    BY <1>1, <1>2, <1>3

\* Starting the runtime's parts, or failing to.
LEMMA StartKeeps ==
    ASSUME Life!RuntimeInductive,
           Life!StartFails \/ Life!OpenPool \/ Life!Register
    PROVE  Life!RuntimeInductive'
PROOF
  <1> USE DEF Life!RuntimeInductive, Life!RuntimeInv, Life!TypeOK,
         Life!DrainedMeansQuiet, Life!SessionKeepsVersion,
         Life!CallbacksAfterStart, Life!StartsInOrder, Life!StopsInOrder,
         Life!NotYet, Life!ContextUp, Life!PollingStopped,
         Life!HeartbeatStopped, Life!WorkerStopped, Life!RuntimeGone,
         Life!IntakeGone, Life!Steps, Life!StartSteps, Life!RollbackSteps,
         Life!StopSteps, Life!ShutdownSteps, Life!Quiet, Life!Goto,
         Life!outer, Life!database, RuntimeFields, LarkFields
  <1>1. CASE Life!StartFails
    <2>a. CASE main \in Life!RuntimeSteps
      <3>1. rt' = [rt EXCEPT !.accepting = FALSE, !.ready = FALSE, !.pool = TRUE]
        BY <1>1, <2>a DEF Life!StartFails
      <3>2. rt' \in RuntimeFields
        BY <3>1
      <3>3. /\ rt'.accepting = FALSE /\ rt'.pool = TRUE
            /\ UNCHANGED <<rt.heartbeat, rt.worker, rt.recovery, rt.polling,
                           rt.started, rt.stopping, rt.stopped, rt.clean>>
        BY <3>1
      <3>4. /\ main' = "rb_polling" /\ alive
            /\ main \in {"pool", "authority", "register", "processing"}
            /\ UNCHANGED <<alive, fence, context, lark, digest, lock, lease, lessee,
                           ingest>>
        BY <1>1, <2>a DEF Life!StartFails, Life!RuntimeSteps
      <3> QED
        BY <3>2, <3>3, <3>4
    <2>2. CASE main \notin Life!RuntimeSteps
      <3>1. /\ main \in {"fence", "context", "lark", "ws", "digest"}
            /\ main' = "sd_begin"
            /\ context' = IF main = "context" THEN "open" ELSE context
            /\ UNCHANGED <<alive, fence, lark, digest, rt, lock, lease, lessee, ingest>>
        BY <1>1, <2>2 DEF Life!StartFails, Life!RuntimeSteps
      <3> QED
        BY <3>1
    <2> QED
      BY <2>a, <2>2
  <1>2. CASE Life!OpenPool
    <2>1. /\ rt' \in RuntimeFields
          /\ rt'.pool = TRUE
          /\ UNCHANGED <<rt.heartbeat, rt.worker, rt.recovery, rt.polling,
                         rt.accepting, rt.ready, rt.started, rt.stopping,
                         rt.stopped, rt.clean>>
      BY <1>2 DEF Life!OpenPool
    <2>2. /\ main = "pool" /\ main' = "authority"
          /\ UNCHANGED <<alive, fence, context, lark, digest, lock, lease, lessee,
                         ingest>>
      BY <1>2 DEF Life!OpenPool
    <2> QED
      BY <2>1, <2>2
  <1>3. CASE Life!Register
    <2>1. /\ lessee' \in [lifecycle : {"absent", "active", "draining"}, live : BOOLEAN]
          /\ lessee'.lifecycle = "active" /\ main = "register" /\ alive
      BY <1>3 DEF Life!Register
    <2>2. CASE main' = "rb_polling" /\ UNCHANGED <<lease, rt>>
      <3>1. UNCHANGED <<alive, fence, context, lark, digest, lock, ingest>>
        BY <1>3 DEF Life!Register
      <3> QED
        BY <2>1, <2>2, <3>1
    <2>3. CASE /\ main' = "processing"
               /\ lease' = [lifecycle |-> "active", current |-> TRUE]
               /\ rt' = [rt EXCEPT !.heartbeat = "sleeping"]
      <3>1. /\ rt' \in RuntimeFields
            /\ rt'.heartbeat = "sleeping"
            /\ UNCHANGED <<rt.pool, rt.worker, rt.recovery, rt.polling,
                           rt.accepting, rt.ready, rt.started, rt.stopping,
                           rt.stopped, rt.clean>>
        BY <2>3
      <3>2. /\ lease' \in [lifecycle : {"none", "active", "draining"}, current : BOOLEAN]
            /\ lease'.current = TRUE
        BY <2>3
      <3>3. UNCHANGED <<alive, fence, context, lark, digest, lock, ingest>>
        BY <1>3 DEF Life!Register
      <3>4. main' = "processing"
        BY <2>3
      <3> QED
        BY <2>1, <3>1, <3>2, <3>3, <3>4
    <2> QED
      BY <1>3, <2>2, <2>3 DEF Life!Register
  <1> QED
    BY <1>1, <1>2, <1>3

\* The consumers, the recovery loop and polling start with a lease that is good;
\* callbacks are let in last.
LEMMA ProcessingKeeps ==
    ASSUME Life!RuntimeInductive, Life!StartProcessing
    PROVE  Life!RuntimeInductive'
PROOF
  <1> USE DEF Life!RuntimeInductive, Life!RuntimeInv, Life!TypeOK,
         Life!DrainedMeansQuiet, Life!SessionKeepsVersion,
         Life!CallbacksAfterStart, Life!StartsInOrder, Life!StopsInOrder,
         Life!NotYet, Life!ContextUp, Life!PollingStopped,
         Life!HeartbeatStopped, Life!WorkerStopped, Life!RuntimeGone,
         Life!IntakeGone, Life!Steps, Life!StartSteps, Life!RollbackSteps,
         Life!StopSteps, Life!ShutdownSteps, Life!Quiet, Life!Goto,
         Life!outer, Life!database, RuntimeFields, LarkFields
  <1>1. /\ alive /\ main = "processing" /\ context = "open"
        /\ UNCHANGED <<alive, fence, context, digest, lock, lease, lessee, ingest>>
    BY DEF Life!StartProcessing
  <1>2. Life!Announced \in RuntimeFields
    BY DEF Life!Announced, Life!Processing
  <1>3. rt' = Life!Announced =>
          /\ rt'.worker = "running" /\ rt'.recovery = "running"
          /\ rt'.polling = "idle" /\ rt'.accepting = TRUE
          /\ rt'.started = TRUE /\ rt'.ready = TRUE
          /\ UNCHANGED <<rt.pool, rt.heartbeat, rt.stopping, rt.stopped,
                         rt.clean>>
    BY DEF Life!Announced, Life!Processing
  <1>4. CASE main' = "rb_polling" /\ UNCHANGED lark
             /\ rt' = [Life!Processing EXCEPT !.accepting = FALSE]
    <2>1. rt' \in RuntimeFields
      BY <1>4 DEF Life!Processing
    <2>2. /\ rt'.worker = "running" /\ rt'.recovery = "running"
          /\ rt'.accepting = FALSE
          /\ UNCHANGED <<rt.pool, rt.heartbeat, rt.polling, rt.ready, rt.started,
                         rt.stopping, rt.stopped, rt.clean>>
      BY <1>4 DEF Life!Processing
    <2> QED
      BY <1>1, <1>4, <2>1, <2>2
  <1>5. CASE main' = "sd_begin" /\ rt' = Life!Announced /\ UNCHANGED lark
    <2>1. rt' \in RuntimeFields
      BY <1>2, <1>5
    <2>2. main' = "sd_begin" /\ UNCHANGED lark
      BY <1>5
    <2> QED
      BY <1>1, <1>3, <1>5, <2>1, <2>2
  <1>6. CASE /\ main' = "digest" /\ rt' = Life!Announced
             /\ lark' = [lark EXCEPT !.intake = TRUE, !.monitor = TRUE]
    <2>1. rt' \in RuntimeFields
      BY <1>2, <1>6
    <2>3. lark' \in LarkFields
      BY <1>6
    <2>2. main' = "digest" /\ lark'.intake = TRUE /\ lark'.callback = lark.callback
      BY <1>6
    <2> QED
      BY <1>1, <1>3, <1>6, <2>1, <2>2, <2>3
  <1> QED
    BY <1>4, <1>5, <1>6 DEF Life!StartProcessing

\* Polling is cancelled, whatever becomes of a renewal under way.
LEMMA CancelPollingKeeps ==
    ASSUME Life!RuntimeInductive, alive, NEW next,
           \/ main = "rb_polling" /\ next = "rb_heartbeat"
           \/ main = "sd_polling" /\ next = "sd_idle",
           Life!CancelPolling(next)
    PROVE  Life!RuntimeInductive'
PROOF
  <1> USE DEF Life!RuntimeInductive, Life!RuntimeInv, Life!TypeOK,
         Life!DrainedMeansQuiet, Life!SessionKeepsVersion,
         Life!CallbacksAfterStart, Life!StartsInOrder, Life!StopsInOrder,
         Life!NotYet, Life!ContextUp, Life!PollingStopped,
         Life!HeartbeatStopped, Life!WorkerStopped, Life!RuntimeGone,
         Life!IntakeGone, Life!Steps, Life!StartSteps, Life!RollbackSteps,
         Life!StopSteps, Life!ShutdownSteps, Life!Quiet, Life!Goto,
         Life!outer, Life!database, RuntimeFields, LarkFields
  <1>1. rt' \in RuntimeFields
    BY DEF Life!CancelPolling
  <1>2. /\ rt'.polling = "off"
        /\ UNCHANGED <<rt.pool, rt.heartbeat, rt.worker, rt.recovery,
                       rt.accepting, rt.ready, rt.started, rt.stopping,
                       rt.stopped, rt.clean>>
    BY DEF Life!CancelPolling
  <1>3. /\ lock' \in {"free", "heartbeat", "page"}
        /\ lease' \in [lifecycle : {"none", "active", "draining"}, current : BOOLEAN]
    BY DEF Life!CancelPolling, Life!RenewalUnheard
  <1>4. /\ main' = next
        /\ UNCHANGED <<alive, fence, context, lark, digest, lessee, ingest>>
    BY DEF Life!CancelPolling
  <1> QED
    BY <1>1, <1>2, <1>3, <1>4

\* So are the heartbeat and the recovery loop.
LEMMA CancelHeartbeatKeeps ==
    ASSUME Life!RuntimeInductive, alive, NEW next,
           \/ main = "rb_heartbeat" /\ next = "rb_worker"
           \/ main = "sd_heartbeat" /\ next = "sd_worker",
           Life!CancelHeartbeat(next)
    PROVE  Life!RuntimeInductive'
PROOF
  <1> USE DEF Life!RuntimeInductive, Life!RuntimeInv, Life!TypeOK,
         Life!DrainedMeansQuiet, Life!SessionKeepsVersion,
         Life!CallbacksAfterStart, Life!StartsInOrder, Life!StopsInOrder,
         Life!NotYet, Life!ContextUp, Life!PollingStopped,
         Life!HeartbeatStopped, Life!WorkerStopped, Life!RuntimeGone,
         Life!IntakeGone, Life!Steps, Life!StartSteps, Life!RollbackSteps,
         Life!StopSteps, Life!ShutdownSteps, Life!Quiet, Life!Goto,
         Life!outer, Life!database, RuntimeFields, LarkFields
  <1>1. rt' \in RuntimeFields
    BY DEF Life!CancelHeartbeat
  <1>2. /\ rt'.heartbeat = "off" /\ rt'.recovery = "off"
        /\ UNCHANGED <<rt.pool, rt.worker, rt.polling, rt.accepting, rt.ready,
                       rt.started, rt.stopping, rt.stopped, rt.clean>>
    BY DEF Life!CancelHeartbeat
  <1>3. /\ lock' \in {"free", "heartbeat", "page"}
        /\ lease' \in [lifecycle : {"none", "active", "draining"}, current : BOOLEAN]
    BY DEF Life!CancelHeartbeat, Life!RenewalUnheard
  <1>4. /\ main' = next
        /\ UNCHANGED <<alive, fence, context, lark, digest, lessee, ingest>>
    BY DEF Life!CancelHeartbeat
  <1> QED
    BY <1>1, <1>2, <1>3, <1>4

\* The consumers are stopped, or the stop is not clean.
LEMMA StopWorkerKeeps ==
    ASSUME Life!RuntimeInductive, alive, NEW next, NEW failed,
           failed \in {"sd_intake", "sd_begin"},
           \/ main = "rb_worker" /\ next = "rb_drain"
           \/ /\ main = "sd_worker"
              /\ next = IF rt.clean THEN "sd_final" ELSE "sd_intake",
           Life!StopWorker(next, failed)
    PROVE  Life!RuntimeInductive'
PROOF
  <1> USE DEF Life!RuntimeInductive, Life!RuntimeInv, Life!TypeOK,
         Life!DrainedMeansQuiet, Life!SessionKeepsVersion,
         Life!CallbacksAfterStart, Life!StartsInOrder, Life!StopsInOrder,
         Life!NotYet, Life!ContextUp, Life!PollingStopped,
         Life!HeartbeatStopped, Life!WorkerStopped, Life!RuntimeGone,
         Life!IntakeGone, Life!Steps, Life!StartSteps, Life!RollbackSteps,
         Life!StopSteps, Life!ShutdownSteps, Life!Quiet, Life!Goto,
         Life!outer, Life!database, RuntimeFields, LarkFields
  <1>1. UNCHANGED <<alive, fence, context, lark, digest, lock, lease, lessee, ingest>>
    BY DEF Life!StopWorker
  <1>2. CASE rt' = [rt EXCEPT !.worker = "off"] /\ main' = next
    <2>1. rt' \in RuntimeFields
      BY <1>2
    <2>2. /\ rt'.worker = "off"
          /\ UNCHANGED <<rt.pool, rt.heartbeat, rt.recovery, rt.polling,
                         rt.accepting, rt.ready, rt.started, rt.stopping,
                         rt.stopped, rt.clean>>
      BY <1>2
    <2> QED
      BY <1>1, <1>2, <2>1, <2>2
  <1>3. CASE rt' = [rt EXCEPT !.clean = FALSE] /\ main' = failed
    <2>1. rt' \in RuntimeFields
      BY <1>3
    <2>2. /\ rt'.clean = FALSE
          /\ UNCHANGED <<rt.pool, rt.heartbeat, rt.worker, rt.recovery,
                         rt.polling, rt.accepting, rt.ready, rt.started,
                         rt.stopping, rt.stopped>>
      BY <1>3
    <2> QED
      BY <1>1, <1>3, <2>1, <2>2
  <1> QED
    BY <1>2, <1>3 DEF Life!StopWorker

\* The lease is drained by a process that has nothing left to run.
LEMMA DrainLeaseKeeps ==
    ASSUME Life!RuntimeInductive, alive, NEW next, NEW failed,
           failed \in {"sd_intake", "sd_begin"},
           \/ main = "rb_drain" /\ next = "rb_pool"
           \/ main = "sd_drain" /\ next = "sd_pool",
           Life!DrainLease(next, failed)
    PROVE  Life!RuntimeInductive'
PROOF
  <1> USE DEF Life!RuntimeInductive, Life!RuntimeInv, Life!TypeOK,
         Life!DrainedMeansQuiet, Life!SessionKeepsVersion,
         Life!CallbacksAfterStart, Life!StartsInOrder, Life!StopsInOrder,
         Life!NotYet, Life!ContextUp, Life!PollingStopped,
         Life!HeartbeatStopped, Life!WorkerStopped, Life!RuntimeGone,
         Life!IntakeGone, Life!Steps, Life!StartSteps, Life!RollbackSteps,
         Life!StopSteps, Life!ShutdownSteps, Life!Quiet, Life!Goto,
         Life!outer, Life!database, RuntimeFields, LarkFields
  <1>1. UNCHANGED <<alive, fence, context, lark, digest, lock, ingest>>
    BY DEF Life!DrainLease
  <1>a. /\ [lifecycle |-> "draining", live |-> FALSE] \in [lifecycle : {"absent", "active", "draining"}, live : BOOLEAN]
        /\ [lease EXCEPT !.lifecycle = "draining"] \in [lifecycle : {"none", "active", "draining"}, current : BOOLEAN]
        /\ [lease EXCEPT !.current = FALSE] \in [lifecycle : {"none", "active", "draining"}, current : BOOLEAN]
    OBVIOUS
  <1>2. /\ lease' \in [lifecycle : {"none", "active", "draining"}, current : BOOLEAN]
        /\ lessee' \in [lifecycle : {"absent", "active", "draining"}, live : BOOLEAN]
    BY <1>a, Zenon DEF Life!DrainLease
  <1>3. CASE main' = next /\ UNCHANGED rt
    BY <1>1, <1>2, <1>3
  <1>4. CASE main' = failed /\ rt' = [rt EXCEPT !.clean = FALSE]
    <2>1. rt' \in RuntimeFields
      BY <1>4
    <2>2. /\ rt'.clean = FALSE
          /\ UNCHANGED <<rt.pool, rt.heartbeat, rt.worker, rt.recovery,
                         rt.polling, rt.accepting, rt.ready, rt.started,
                         rt.stopping, rt.stopped>>
      BY <1>4
    <2> QED
      BY <1>1, <1>2, <1>4, <2>1, <2>2
  <1> QED
    BY <1>3, <1>4 DEF Life!DrainLease

\* The pool is closed last.
LEMMA ClosePoolKeeps ==
    ASSUME Life!RuntimeInductive, alive, NEW next,
           next \in {"sd_intake", "sd_begin"},
           main \in {"rb_pool", "sd_pool"},
           Life!ClosePool(next)
    PROVE  Life!RuntimeInductive'
PROOF
  <1> USE DEF Life!RuntimeInductive, Life!RuntimeInv, Life!TypeOK,
         Life!DrainedMeansQuiet, Life!SessionKeepsVersion,
         Life!CallbacksAfterStart, Life!StartsInOrder, Life!StopsInOrder,
         Life!NotYet, Life!ContextUp, Life!PollingStopped,
         Life!HeartbeatStopped, Life!WorkerStopped, Life!RuntimeGone,
         Life!IntakeGone, Life!Steps, Life!StartSteps, Life!RollbackSteps,
         Life!StopSteps, Life!ShutdownSteps, Life!Quiet, Life!Goto,
         Life!outer, Life!database, RuntimeFields, LarkFields
  <1>1. /\ main' = next
        /\ UNCHANGED <<alive, fence, context, lark, digest, lock, lease, lessee,
                       ingest>>
    BY DEF Life!ClosePool
  <1>2. CASE rt' = [rt EXCEPT !.pool = FALSE, !.stopped = TRUE]
    <2>1. rt' \in RuntimeFields
      BY <1>2
    <2>2. /\ rt'.pool = FALSE /\ rt'.stopped = TRUE
          /\ UNCHANGED <<rt.heartbeat, rt.worker, rt.recovery, rt.polling,
                         rt.accepting, rt.ready, rt.started, rt.stopping,
                         rt.clean>>
      BY <1>2
    <2> QED
      BY <1>1, <2>1, <2>2
  <1>3. CASE rt' = [rt EXCEPT !.clean = FALSE]
    <2>1. rt' \in RuntimeFields
      BY <1>3
    <2>2. /\ rt'.clean = FALSE
          /\ UNCHANGED <<rt.pool, rt.heartbeat, rt.worker, rt.recovery,
                         rt.polling, rt.accepting, rt.ready, rt.started,
                         rt.stopping, rt.stopped>>
      BY <1>3
    <2> QED
      BY <1>1, <2>1, <2>2
  <1> QED
    BY <1>2, <1>3 DEF Life!ClosePool

\* A stage of the shutdown that leaves something behind says so.
LEMMA UncleanKeeps ==
    ASSUME Life!RuntimeInductive, alive,
           rt' = [rt EXCEPT !.clean = FALSE],
           lease' \in [lifecycle : {"none", "active", "draining"}, current : BOOLEAN],
           \/ main \in Life!StopSteps \union Life!RollbackSteps /\ main' = "sd_intake"
           \/ main = "sd_idle" /\ main' = "sd_heartbeat"
           \/ main = "sd_final" /\ main' = "sd_drain"
           \/ main = "sd_digest" /\ main' = "sd_stop"
           \/ main = "sd_intake" /\ main' = "sd_ws"
           \/ main = "sd_ws" /\ main' = "sd_context",
           lease.current => lease'.current \/ main = "sd_final",
           UNCHANGED <<alive, fence, context, lark, digest, lock, lessee, ingest>>
    PROVE  Life!RuntimeInductive'
PROOF
  <1> USE DEF Life!RuntimeInductive, Life!RuntimeInv, Life!TypeOK,
         Life!DrainedMeansQuiet, Life!SessionKeepsVersion,
         Life!CallbacksAfterStart, Life!StartsInOrder, Life!StopsInOrder,
         Life!NotYet, Life!ContextUp, Life!PollingStopped,
         Life!HeartbeatStopped, Life!WorkerStopped, Life!RuntimeGone,
         Life!IntakeGone, Life!Steps, Life!StartSteps, Life!RollbackSteps,
         Life!StopSteps, Life!ShutdownSteps, Life!Quiet, Life!Goto,
         Life!outer, Life!database, RuntimeFields, LarkFields
  <1>1. /\ rt'.clean = FALSE
        /\ UNCHANGED <<rt.pool, rt.heartbeat, rt.worker, rt.recovery, rt.polling,
                       rt.accepting, rt.ready, rt.started, rt.stopping,
                       rt.stopped>>
    OBVIOUS
  <1>2. rt' \in RuntimeFields
    OBVIOUS
  <1> QED
    BY <1>1, <1>2

\* Stopping in the order of _finish_stop and _rollback_start, or running out of
\* time anywhere in between.
LEMMA StopKeeps ==
    ASSUME Life!RuntimeInductive,
           Life!Rollback \/ Life!FinishStop \/ Life!StopTimesOut
    PROVE  Life!RuntimeInductive'
PROOF
  <1>a. lease \in [lifecycle : {"none", "active", "draining"}, current : BOOLEAN]
    BY DEF Life!RuntimeInductive, Life!RuntimeInv, Life!TypeOK
  <1>b. Life!AfterRollback \in {"sd_intake", "sd_begin"}
    BY DEF Life!AfterRollback
  <1>1. CASE Life!Rollback
    BY <1>1, <1>b, CancelPollingKeeps, CancelHeartbeatKeeps, StopWorkerKeeps,
       DrainLeaseKeeps, ClosePoolKeeps DEF Life!Rollback
  <1>2. CASE Life!StopTimesOut
    BY <1>2, <1>a, UncleanKeeps DEF Life!StopTimesOut, Life!Goto, Life!outer,
       Life!database
  <1>3. ASSUME alive, main = "sd_idle", Life!WaitIdle
        PROVE  Life!RuntimeInductive'
    <2>1. CASE rt' = [rt EXCEPT !.clean = FALSE]
      BY <1>3, <1>a, <2>1, UncleanKeeps DEF Life!WaitIdle, Life!Goto, Life!outer,
         Life!database
    <2>2. CASE UNCHANGED rt
      BY <1>3, <2>2
      DEF Life!WaitIdle, Life!RuntimeInductive, Life!RuntimeInv, Life!TypeOK,
          Life!DrainedMeansQuiet, Life!SessionKeepsVersion,
          Life!CallbacksAfterStart, Life!StartsInOrder, Life!StopsInOrder,
          Life!NotYet, Life!ContextUp, Life!PollingStopped,
          Life!HeartbeatStopped, Life!WorkerStopped, Life!RuntimeGone,
          Life!IntakeGone, Life!Steps, Life!StartSteps, Life!RollbackSteps,
          Life!StopSteps, Life!ShutdownSteps, Life!Quiet, Life!Goto,
          Life!outer, Life!database, RuntimeFields, LarkFields
    <2> QED
      BY <1>3, <2>1, <2>2 DEF Life!WaitIdle
  <1>4. ASSUME alive, main = "sd_final", Life!FinalHeartbeat
        PROVE  Life!RuntimeInductive'
    <2>1. CASE Life!RenewalUnheard /\ rt' = [rt EXCEPT !.clean = FALSE]
      <3>1. lease' \in [lifecycle : {"none", "active", "draining"},
                        current : BOOLEAN]
        BY <1>a, <2>1 DEF Life!RenewalUnheard
      <3> QED
        BY <1>4, <2>1, <3>1, UncleanKeeps DEF Life!FinalHeartbeat, Life!Goto,
           Life!outer, Life!database
    <2>2. CASE UNCHANGED <<lease, rt>>
      BY <1>4, <2>2
      DEF Life!FinalHeartbeat, Life!RuntimeInductive, Life!RuntimeInv, Life!TypeOK,
          Life!DrainedMeansQuiet, Life!SessionKeepsVersion,
          Life!CallbacksAfterStart, Life!StartsInOrder, Life!StopsInOrder,
          Life!NotYet, Life!ContextUp, Life!PollingStopped,
          Life!HeartbeatStopped, Life!WorkerStopped, Life!RuntimeGone,
          Life!IntakeGone, Life!Steps, Life!StartSteps, Life!RollbackSteps,
          Life!StopSteps, Life!ShutdownSteps, Life!Quiet, Life!Goto,
          Life!outer, Life!database, RuntimeFields, LarkFields
    <2> QED
      BY <1>4, <2>1, <2>2 DEF Life!FinalHeartbeat
  <1>5. CASE Life!FinishStop
    BY <1>5, <1>3, <1>4, CancelPollingKeeps, CancelHeartbeatKeeps,
       StopWorkerKeeps, DrainLeaseKeeps, ClosePoolKeeps DEF Life!FinishStop
  <1> QED
    BY <1>1, <1>2, <1>5

\* The stages of the shutdown around the runtime's own.
LEMMA ShutdownKeeps ==
    ASSUME Life!RuntimeInductive,
           \/ Life!BeginShutdown \/ Life!StopDigest \/ Life!StopRuntime
           \/ Life!StopIntake \/ Life!StopWebSocket
    PROVE  Life!RuntimeInductive'
PROOF
  <1>a. lease \in [lifecycle : {"none", "active", "draining"}, current : BOOLEAN]
    BY DEF Life!RuntimeInductive, Life!RuntimeInv, Life!TypeOK
  <1>1. CASE Life!BeginShutdown
    <2>1. rt' = [rt EXCEPT !.clean = TRUE] /\ rt \in RuntimeFields
      BY <1>1 DEF Life!BeginShutdown, Life!RuntimeInductive, Life!RuntimeInv,
         Life!TypeOK, RuntimeFields
    <2>2. /\ rt' \in RuntimeFields
          /\ UNCHANGED <<rt.pool, rt.heartbeat, rt.worker, rt.recovery, rt.polling,
                         rt.accepting, rt.ready, rt.started, rt.stopping,
                         rt.stopped>>
      BY <2>1 DEF RuntimeFields
    <2>3. lark \in LarkFields
      BY DEF Life!RuntimeInductive, Life!RuntimeInv, Life!TypeOK, LarkFields
    <2>4. /\ lark' \in LarkFields
          /\ lark'.intake = FALSE /\ lark'.callback = lark.callback
      BY <1>1, <2>3 DEF Life!BeginShutdown, LarkFields
    <2>5. /\ alive /\ main = "sd_begin" /\ main' = "sd_digest"
          /\ UNCHANGED <<alive, fence, context, digest, lock, lease, lessee, ingest>>
      BY <1>1 DEF Life!BeginShutdown, Life!Goto, Life!database
    <2> QED
      BY <2>2, <2>4, <2>5
      DEF Life!RuntimeInductive, Life!RuntimeInv, Life!TypeOK,
          Life!DrainedMeansQuiet, Life!SessionKeepsVersion,
          Life!CallbacksAfterStart, Life!StartsInOrder, Life!StopsInOrder,
          Life!NotYet, Life!ContextUp, Life!PollingStopped,
          Life!HeartbeatStopped, Life!WorkerStopped, Life!RuntimeGone,
          Life!IntakeGone, Life!Steps, Life!StartSteps, Life!RollbackSteps,
          Life!StopSteps, Life!ShutdownSteps, Life!Quiet, Life!Goto,
          Life!outer, Life!database, RuntimeFields, LarkFields
  <1>2. CASE Life!StopDigest
    <2>1. CASE rt' = [rt EXCEPT !.clean = FALSE] /\ UNCHANGED digest
      BY <1>2, <1>a, <2>1, UncleanKeeps DEF Life!StopDigest, Life!Goto, Life!database
    <2>2. CASE digest' = FALSE /\ UNCHANGED rt
      <3>1. /\ alive /\ main = "sd_digest" /\ main' = "sd_stop"
            /\ UNCHANGED <<alive, fence, context, lark, lock, lease, lessee, ingest>>
        BY <1>2 DEF Life!StopDigest, Life!Goto, Life!database
      <3>2. digest' \in BOOLEAN /\ ~digest'
        BY <2>2
      <3> QED
        BY <2>2, <3>1, <3>2
        DEF Life!RuntimeInductive, Life!RuntimeInv, Life!TypeOK,
            Life!DrainedMeansQuiet, Life!SessionKeepsVersion,
            Life!CallbacksAfterStart, Life!StartsInOrder, Life!StopsInOrder,
            Life!NotYet, Life!ContextUp, Life!PollingStopped,
            Life!HeartbeatStopped, Life!WorkerStopped, Life!RuntimeGone,
            Life!IntakeGone, Life!Steps, Life!StartSteps, Life!RollbackSteps,
            Life!StopSteps, Life!ShutdownSteps, Life!Quiet, Life!Goto,
            Life!outer, Life!database, RuntimeFields, LarkFields
    <2> QED
      BY <1>2, <2>1, <2>2 DEF Life!StopDigest
  <1>3. CASE Life!StopRuntime
    <2>1. /\ rt' = [rt EXCEPT !.accepting = FALSE, !.ready = FALSE, !.stopping = TRUE]
          /\ rt \in RuntimeFields
      BY <1>3 DEF Life!StopRuntime, Life!RuntimeInductive, Life!RuntimeInv,
         Life!TypeOK, RuntimeFields
    <2>2. rt' \in RuntimeFields
      BY <2>1 DEF RuntimeFields
    <2>3. /\ rt'.accepting = FALSE
          /\ UNCHANGED <<rt.pool, rt.heartbeat, rt.worker, rt.recovery, rt.polling,
                         rt.started, rt.stopped, rt.clean>>
      BY <2>1 DEF RuntimeFields
    <2>4. /\ alive /\ main = "sd_stop"
          /\ main' \in {"sd_intake", "rb_polling", "sd_polling"}
          /\ main' = "sd_intake" => rt.stopped \/ ~rt.pool
      BY <1>3, <2>1 DEF Life!StopRuntime, Life!Goto, RuntimeFields
    <2>5. UNCHANGED <<alive, fence, context, lark, digest, lock, lease, lessee, ingest>>
      BY <1>3 DEF Life!StopRuntime, Life!outer, Life!database
    <2> QED
      BY <2>2, <2>3, <2>4, <2>5
      DEF Life!RuntimeInductive, Life!RuntimeInv, Life!TypeOK,
          Life!DrainedMeansQuiet, Life!SessionKeepsVersion,
          Life!CallbacksAfterStart, Life!StartsInOrder, Life!StopsInOrder,
          Life!NotYet, Life!ContextUp, Life!PollingStopped,
          Life!HeartbeatStopped, Life!WorkerStopped, Life!RuntimeGone,
          Life!IntakeGone, Life!Steps, Life!StartSteps, Life!RollbackSteps,
          Life!StopSteps, Life!ShutdownSteps, Life!Quiet, Life!Goto,
          Life!outer, Life!database, RuntimeFields, LarkFields
  <1>4. CASE Life!StopIntake
    <2>1. CASE rt' = [rt EXCEPT !.clean = FALSE]
      BY <1>4, <1>a, <2>1, UncleanKeeps DEF Life!StopIntake, Life!Goto, Life!outer,
         Life!database
    <2>2. CASE ~lark.callback /\ UNCHANGED rt
      BY <1>4, <2>2
      DEF Life!StopIntake, Life!RuntimeInductive, Life!RuntimeInv, Life!TypeOK,
          Life!DrainedMeansQuiet, Life!SessionKeepsVersion,
          Life!CallbacksAfterStart, Life!StartsInOrder, Life!StopsInOrder,
          Life!NotYet, Life!ContextUp, Life!PollingStopped,
          Life!HeartbeatStopped, Life!WorkerStopped, Life!RuntimeGone,
          Life!IntakeGone, Life!Steps, Life!StartSteps, Life!RollbackSteps,
          Life!StopSteps, Life!ShutdownSteps, Life!Quiet, Life!Goto,
          Life!outer, Life!database, RuntimeFields, LarkFields
    <2> QED
      BY <1>4, <2>1, <2>2 DEF Life!StopIntake
  <1>5. CASE Life!StopWebSocket
    <2>1. CASE rt' = [rt EXCEPT !.clean = FALSE] /\ UNCHANGED lark
      BY <1>5, <1>a, <2>1, UncleanKeeps DEF Life!StopWebSocket, Life!Goto,
         Life!database
    <2>2. CASE lark' = [lark EXCEPT !.ws = "off"] /\ UNCHANGED rt
      <3>1. lark \in LarkFields
        BY DEF Life!RuntimeInductive, Life!RuntimeInv, Life!TypeOK, LarkFields
      <3>2. /\ lark' \in LarkFields
            /\ lark'.intake = lark.intake /\ lark'.callback = lark.callback
        BY <2>2, <3>1 DEF LarkFields
      <3>3. /\ alive /\ main = "sd_ws" /\ main' = "sd_context"
            /\ UNCHANGED <<alive, fence, context, digest, lock, lease, lessee, ingest>>
        BY <1>5 DEF Life!StopWebSocket, Life!Goto, Life!database
      <3> QED
        BY <2>2, <3>2, <3>3
        DEF Life!RuntimeInductive, Life!RuntimeInv, Life!TypeOK,
            Life!DrainedMeansQuiet, Life!SessionKeepsVersion,
            Life!CallbacksAfterStart, Life!StartsInOrder, Life!StopsInOrder,
            Life!NotYet, Life!ContextUp, Life!PollingStopped,
            Life!HeartbeatStopped, Life!WorkerStopped, Life!RuntimeGone,
            Life!IntakeGone, Life!Steps, Life!StartSteps, Life!RollbackSteps,
            Life!StopSteps, Life!ShutdownSteps, Life!Quiet, Life!Goto,
            Life!outer, Life!database, RuntimeFields, LarkFields
    <2> QED
      BY <1>5, <2>1, <2>2 DEF Life!StopWebSocket
  <1> QED
    BY <1>1, <1>2, <1>3, <1>4, <1>5

\* Every step of the process keeps what its stages promise.
LEMMA LifeStep ==
    ASSUME Life!RuntimeInductive, [Life!Next]_(Life!vars)
    PROVE  Life!RuntimeInductive'
PROOF
  <1>1. CASE UNCHANGED Life!vars
    BY <1>1 DEF Life!vars, Life!RuntimeInductive, Life!RuntimeInv, Life!TypeOK,
       Life!DrainedMeansQuiet, Life!SessionKeepsVersion,
       Life!CallbacksAfterStart, Life!StartsInOrder, Life!StopsInOrder,
       Life!Quiet
  <1>2. CASE Life!MainStep
    BY <1>2, OutsideKeeps, ConnectionKeeps, StartKeeps, ProcessingKeeps,
       StopKeeps, ShutdownKeeps, FailStopKeeps
    DEF Life!MainStep, Life!Start, Life!Shutdown
  <1>3. CASE Life!TaskStep
    BY <1>3, HeartbeatKeeps, FailStopKeeps, ConnectionKeeps
    DEF Life!TaskStep, Life!HeartbeatEnds, Life!PageStep
  <1>4. CASE Life!Mishap
    BY <1>4, DeathKeeps, ConnectionKeeps, FailStopKeeps, OutsideKeeps
    DEF Life!Mishap
  <1>5. CASE Life!Terminate
    BY <1>5, OutsideKeeps
  <1> QED
    BY <1>1, <1>2, <1>3, <1>4, <1>5 DEF Life!Next

\* application_lifespan, IngestionRuntime: whichever stage fails or runs out of
\* time, parts start and stop in their order.
THEOREM StagesKeepOrder == Life!Spec => []Life!RuntimeInductive
PROOF
  <1>1. Life!Init => Life!RuntimeInductive
    BY LifeInit
  <1>2. Life!RuntimeInductive /\ [Life!Next]_(Life!vars) => Life!RuntimeInductive'
    BY LifeStep
  <1> QED BY <1>1, <1>2, PTL DEF Life!Spec

\* The checked system moves the process or leaves it alone.
LEMMA ServingInductive == MCSpec => []Life!RuntimeInductive
PROOF
  <1>1. MCInit => Life!RuntimeInductive
    BY LifeInit DEF MCInit
  <1>2. Life!RuntimeInductive /\ [MCNext]_allVars => Life!RuntimeInductive'
    <2> SUFFICES ASSUME Life!RuntimeInductive, [MCNext]_allVars
                 PROVE  Life!RuntimeInductive'
      OBVIOUS
    <2>1. [Life!Next]_(Life!vars)
      BY DEF MCNext, allVars, lifeVars, Life!vars
    <2> QED BY <2>1, LifeStep
  <1> QED BY <1>1, <1>2, PTL DEF MCSpec

\* _rollback_start, _finish_stop, _SessionBoundPollingCommitter, heartbeat_once,
\* enable_lark_intake: a row says draining only of a process with nothing left
\* to run, heartbeat and pages keep the version of one lease, and callbacks run
\* on a started runtime with an open context only, whichever stage failed.
THEOREM ProcessHolds == MCSpec => []RuntimeInv
PROOF
  <1>1. Life!RuntimeInductive => RuntimeInv
    BY DEF Life!RuntimeInductive, RuntimeInv
  <1> QED BY <1>1, ServingInductive, PTL

\* _shutdown_application_components: the context is closed and the maintenance
\* fence let go only after everything that uses them has stopped, in whatever
\* order starts, failures, timeouts and cancellations came.
THEOREM ReleasesAreLate == MCSpec => []ReleasedWhenQuiet
PROOF
  <1>1. Life!RuntimeInductive => ReleasedWhenQuiet
    BY DEF Life!RuntimeInductive, Life!StopsInOrder, ReleasedWhenQuiet,
       Life!ReleasedWhenQuiet, Life!RuntimeGone, Life!IntakeGone,
       Life!RuntimeInv, Life!TypeOK
  <1> QED BY <1>1, ServingInductive, PTL
=============================================================================
