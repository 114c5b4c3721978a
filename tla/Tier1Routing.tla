---------------------------- MODULE Tier1Routing ----------------------------
(***************************************************************************)
(* Canonical routing: the rule registry and its compiler, the artifact the *)
(* process starts from, the three tiers that give a mail its route, and    *)
(* the decision row that freezes it (src/router, src/handoff/history.py,   *)
(* exchange_service._resolve_and_persist_canonical_route).                 *)
(*                                                                         *)
(* Texts are abstract: an address or a word is a string, Folded maps each  *)
(* written form to its stripped, case-folded form, a field of a mail is    *)
(* the set of addresses or words in it, and a regex is the set of words it *)
(* would find.  "eq" and "contains" are "in" and "contains_any" with one   *)
(* value.  Tags say what only matters to somebody else: a rule's owner, its *)
(* acknowledgements and the safety of its regexes are Booleans.            *)
(***************************************************************************)
EXTENDS Integers, FiniteSets, Sequences, SequencesExt, FiniteSetsExt

CONSTANTS
    Folded,       \* [written text -> folded text]
    Internal,     \* the addresses of INTERNAL_EMAIL_DOMAINS
    Me, NoMe,     \* EXCHANGE_ACCOUNT_EMAIL, or NoMe when it is empty
    Conditions,   \* the condition nodes a rule may hold, with their parts
    Registries,   \* the rule directories a deployment may find
    Views,        \* the mails that may arrive
    HitLists,     \* what the historical search may return
    Answers,      \* what the routing model may answer (Tier 3)
    MaxTime,      \* bound: the last instant of the run
    MaxAttempts   \* bound: leases of the mail

CONSTANTS None    \* no value: no bound, no profile, no label, no decision

\* The parts of a condition node.
Kids(node) == CASE node.kind = "not" -> {node.kid}
                [] node.kind \in {"all", "any"} -> node.kids
                [] OTHER -> {}

VARIABLES
    clock,        \* the wall clock
    image,        \* the rules baked into the deployed image, or None
    engine,       \* the rules the running process routes with, or None
    served,       \* a process has already started from the image
    stopped,      \* why the last start failed, or None
    mail,         \* the mail, as Tier 1 sees it
    lease,        \* the attempt that holds the mail's inbox lease
    job,          \* per attempt: [pc, hits, decision]
    decision,     \* the mail's tier1_decisions row, or None
    acted         \* the decisions that attempts went on with

process == <<image, engine, served, stopped>>
vars == <<clock, process, mail, lease, job, decision, acted>>

MePlaceholder == "$ME"
Routes == {"reply", "forward", "read_only", "no_action", "manual_review"}
Writing == {"reply", "forward"}
Profiles == {"generic_reply_v1", "generic_forward_v1", "vip_direct_reply_v1"}
SetFields == {"to", "cc"}
Fields == {"sender", "subject", "body", "full"} \cup SetFields
Fold(S) == {Folded[t] : t \in S}

-----------------------------------------------------------------------------
(* The three-valued matcher (dsl.py).                                      *)

Tri(b) == IF b THEN "TRUE" ELSE "FALSE"

\* A leaf over a field: unknown when it names $ME and nobody is configured,
\* or when a regex meets a text over MAX_REGEX_INPUT_LENGTH.
EvaluateLeaf(leaf, view, me) ==
    LET values == IF MePlaceholder \in leaf.values
                  THEN (leaf.values \ {MePlaceholder}) \cup {me} ELSE leaf.values
        items  == Fold(view[leaf.field])
    IN IF \/ MePlaceholder \in leaf.values /\ me = NoMe
          \/ leaf.op = "regex" /\ leaf.field \in view.long
       THEN "UNKNOWN"
       ELSE Tri(IF leaf.op = "has_all" THEN Fold(values) \subseteq items
                                       ELSE Fold(values) \cap items # {})

TriNot(x) == CASE x = "TRUE" -> "FALSE" [] x = "FALSE" -> "TRUE" [] OTHER -> x

TriAllLoose(xs) == IF "FALSE" \in xs THEN "FALSE" ELSE "TRUE"

TriAll(xs) == IF "FALSE" \in xs THEN "FALSE"
              ELSE IF xs \subseteq {"TRUE"} THEN "TRUE" ELSE "UNKNOWN"

TriAny(xs) == IF "TRUE" \in xs THEN "TRUE"
              ELSE IF xs \subseteq {"FALSE"} THEN "FALSE" ELSE "UNKNOWN"

\* What a node comes to, given what its parts come to.
Judge(value, node, view, me) ==
    CASE node.kind = "none" -> "TRUE"
      [] node.kind = "leaf" -> EvaluateLeaf(node.leaf, view, me)
      [] node.kind = "all"  -> TriAll({value[k] : k \in node.kids})
      [] node.kind = "any"  -> TriAny({value[k] : k \in node.kids})
      [] node.kind = "not"  -> TriNot(value[node.kid])

EvaluateConditionNode(root, view, me) ==
    LET value[node \in Conditions] == Judge(value, node, view, me) IN value[root]

EvaluateAnchor(rule, view, me) ==
    LET results == {EvaluateLeaf(leaf, view, me) : leaf \in rule.anchor}
    IN IF rule.any THEN TriAny(results) ELSE TriAll(results)

\* The anchor is judged first; conditions count only under a true anchor.
EvaluateMatch(rule, view, me) ==
    LET anchor == EvaluateAnchor(rule, view, me)
        result == IF anchor = "TRUE" THEN EvaluateConditionNode(rule.conditions, view, me)
                                     ELSE anchor
    IN CASE result = "TRUE" -> "MATCHED"
         [] result = "FALSE" -> "NOT_MATCHED"
         [] OTHER -> "INDETERMINATE"

-----------------------------------------------------------------------------
(* Rule manifests (schema.py) and what a rule does (fingerprint.py).       *)

Leaves(root) ==
    LET leaves[node \in Conditions] ==
          IF node.kind = "leaf" THEN {node.leaf} ELSE UNION {leaves[k] : k \in Kids(node)}
    IN leaves[root]

LeafShape(leaf) ==
    /\ leaf.values # {}
    /\ (leaf.field \in SetFields) <=> (leaf.op \in {"has_any", "has_all"})

\* An anchor only compares whole addresses.
AnchorValid(rule) ==
    /\ rule.anchor # {}
    /\ \A leaf \in rule.anchor : /\ LeafShape(leaf)
                                 /\ leaf.op \in {"in", "has_any", "has_all"}
                                 /\ leaf.field \in {"sender"} \cup SetFields

ConditionsValid(node) ==
    /\ node.kind # "not"
    /\ \A leaf \in Leaves(node) : LeafShape(leaf)

ParamsValid(rule) == rule.route = "forward" => rule.params.to # {}

GovernanceValid(rule) ==
    /\ rule.positive # {}
    /\ rule.conditions.kind # "none" => rule.negative # {}
    /\ rule.route = "no_action" => /\ rule.owned /\ rule.until # None
                                   /\ Cardinality(rule.negative) >= 2
    /\ (\E leaf \in Leaves(rule.conditions) : leaf.field = "full") => rule.fullTextAck

DefaultProfile(route) == CASE route = "reply"   -> "generic_reply_v1"
                           [] route = "forward" -> "generic_forward_v1"
                           [] OTHER -> None

\* Decision._validate_params_for_route and with_default_handoff_profile
Profile(route, profile) == IF profile = None THEN DefaultProfile(route) ELSE profile

\* get_handoff_profile raises a KeyError for any other, which pydantic lets through.
KnownProfile(rule) == Profile(rule.route, rule.profile) \in Profiles \cup {None}

\* What RuleManifest.model_validate asks of one rule file.
SchemaValid(rule) == /\ AnchorValid(rule) /\ ConditionsValid(rule.conditions)
                     /\ ParamsValid(rule) /\ GovernanceValid(rule)
                     /\ KnownProfile(rule)

CanonicalizeParams(route, params) ==
    CASE route = "reply"     -> [mode |-> IF params.mode = None THEN "sender_and_original_cc"
                                                                ELSE params.mode]
      [] route = "forward"   -> [to |-> Fold(params.to), cc |-> Fold(params.cc),
                                edit |-> params.edit, attach |-> params.attach]
      [] route = "read_only" -> [plain |-> TRUE]
      [] OTHER               -> [reason |-> params.reason]

\* compute_action_fingerprint; the version is 1 exactly when no profile enters it.
ActionFingerprint(route, params, profile) ==
    [route |-> route, params |-> CanonicalizeParams(route, params), profile |-> profile]

RuleFingerprint(rule) ==
    ActionFingerprint(rule.route, rule.params, Profile(rule.route, rule.profile))

NormalizeLeaf(leaf) == [leaf EXCEPT !.values = Fold(@)]

NormalizeNode(root) ==
    LET normal[node \in Conditions] ==
          CASE node.kind = "none" -> node
            [] node.kind = "leaf" -> [node EXCEPT !.leaf = NormalizeLeaf(@)]
            [] node.kind = "not"  -> [node EXCEPT !.kid = normal[@]]
            [] OTHER -> [node EXCEPT !.kids = {normal[k] : k \in @}]
    IN normal[root]

CanonicalMatchSignature(rule) ==
    [any |-> rule.any, anchor |-> {NormalizeLeaf(l) : l \in rule.anchor},
     conditions |-> NormalizeNode(rule.conditions)]

-----------------------------------------------------------------------------
(* The registry compiler (compiler.py): every enabled rule passes every    *)
(* check, or there is no artifact.                                         *)

\* A rule that fails validation is let through only if it says it is not
\* enabled; an unknown profile, which is no ValidationError, in no rule.
ParseErrors(files) ==
    {f \in files : \/ ~KnownProfile(f)
                   \/ ~SchemaValid(f) /\ f.status \notin {"proposed", "retired"}}

ValidityErrors(rule, now) ==
    \/ rule.from # None /\ rule.until # None /\ rule.from >= rule.until
    \/ rule.until # None /\ rule.until <= now

ExternalRecipients(rule) ==
    /\ rule.route = "forward" /\ ~rule.externalAck
    /\ ~(Fold(rule.params.to \cup rule.params.cc) \subseteq Internal)

FixtureErrors(rule, me) ==
    \/ \E view \in rule.positive : EvaluateMatch(rule, view, me) # "MATCHED"
    \/ \E view \in rule.negative : EvaluateMatch(rule, view, me) # "NOT_MATCHED"

StaticOverlap(rules) ==
    \E r, s \in rules : /\ CanonicalMatchSignature(r) = CanonicalMatchSignature(s)
                        /\ RuleFingerprint(r) # RuleFingerprint(s)

EnabledRules(files) == {f \in files : SchemaValid(f) /\ f.status = "enabled"}

Compiles(files, now, me) ==
    LET rules == EnabledRules(files)
    IN /\ ParseErrors(files) = {}
       /\ \A r, s \in rules : r.id = s.id => r = s
       /\ \A r \in rules : /\ ~ValidityErrors(r, now)
                           /\ r.safeRegex
                           /\ ~ExternalRecipients(r)
                           /\ ~FixtureErrors(r, me)
       /\ ~StaticOverlap(rules)

-----------------------------------------------------------------------------
(* Tier 1: every rule in force is evaluated and the results aggregated.    *)

Decided(tier, outcome, route, params, profile, reason) ==
    [tier |-> tier, outcome |-> outcome, route |-> route, params |-> params,
     profile |-> profile, reason |-> reason]

ManualReview(tier, outcome, code) ==
    Decided(tier, outcome, "manual_review", [reason |-> code], None, code)

Indeterminate == ManualReview("tier1", "error", "tier1_indeterminate")
Conflict == ManualReview("tier1", "conflict", "tier1_conflict")

RuleDecision(rule) == Decided("tier1", "matched", rule.route, rule.params,
                              Profile(rule.route, rule.profile), rule.id)

IsRuleActive(rule, now) == /\ rule.from # None => rule.from <= now
                           /\ rule.until # None => now < rule.until

Having(rules, status, view, me, now) ==
    {r \in rules : IsRuleActive(r, now) /\ EvaluateMatch(r, view, me) = status}

\* execute_router reads the action from the first compiled rule that carries
\* the selected fingerprint; a rule's reason is its code, flow or identifier.
Selected(rules, fingerprint) ==
    LET same == {r \in rules : RuleFingerprint(r) = fingerprint}
    IN CHOOSE r \in same : \A s \in same : r.id <= s.id

ExecuteRouter(rules, view, me, now) ==
    LET matched      == Having(rules, "MATCHED", view, me, now)
        fingerprints == {RuleFingerprint(r) : r \in matched}
    IN IF Having(rules, "INDETERMINATE", view, me, now) # {}
       THEN Indeterminate
       ELSE IF matched = {} THEN None
       ELSE IF Cardinality(fingerprints) > 1
       THEN Conflict
       ELSE RuleDecision(Selected(rules, CHOOSE f \in fingerprints : TRUE))

MaxRuleIds == 32
MaxCandidates == 16

\* RouteDecision refuses what execute_router has decided: a profile where
\* nothing is written, too many rules to name, too many candidates.
RouterRaises(rules, view, me, now) ==
    LET d     == ExecuteRouter(rules, view, me, now)
        named == Having(rules, IF d = Indeterminate THEN "INDETERMINATE" ELSE "MATCHED",
                        view, me, now)
    IN \/ d # None /\ d.profile # None /\ d.route \notin Writing
       \/ Cardinality(named) > MaxRuleIds
       \/ d = Conflict /\ Cardinality({RuleFingerprint(r) : r \in named}) > MaxCandidates

-----------------------------------------------------------------------------
(* Tier 2: consensus of the labels of historical mails (history.py).  A    *)
(* hit is [id, label]; an id of None is a hit that cannot be identified,   *)
(* a label of None one that does not parse or was not a match.             *)

MinHits == 2

Vote(label) == ActionFingerprint(label.route, label.params, label.profile)

VotesOf(hits, id) == {Vote(hits[i].label) : i \in {j \in DOMAIN hits :
                        hits[j].id = id /\ hits[j].label # None}}

Identified(hits) == {hits[i].id : i \in DOMAIN hits} \ {None}

\* A label whose profile is not in the registry raises out of decide().
ConsensusRaises(hits) ==
    \E i \in DOMAIN hits : hits[i].id # None /\ hits[i].label # None /\ ~KnownProfile(hits[i].label)

Supporters(hits, vote) == {id \in Identified(hits) : VotesOf(hits, id) = {vote}}

\* As Eligible, counting hits where the code counts mails.
EligibleByHit(hits) ==
    {v \in UNION {VotesOf(hits, id) : id \in Identified(hits)} :
       LET n == Cardinality({i \in DOMAIN hits : hits[i].id \in Supporters(hits, v)})
       IN n >= MinHits /\ 2 * n >= Len(hits)}

\* One mail is one vote; the share counts every distinct mail and every
\* unidentified hit.
Eligible(hits) ==
    LET unidentified == Cardinality({i \in DOMAIN hits : hits[i].id = None})
        total        == Cardinality(Identified(hits)) + unidentified
    IN {v \in UNION {VotesOf(hits, id) : id \in Identified(hits)} :
          LET n == Cardinality(Supporters(hits, v)) IN n >= MinHits /\ 2 * n >= total}

\* The last label read for the first mail that supports the vote.
LabelOf(hits, vote) ==
    LET seen == {i \in DOMAIN hits : hits[i].id \in Supporters(hits, vote)}
    IN hits[Max({i \in seen : hits[i].id = hits[Min(seen)].id /\ hits[i].label # None})].label

LabelDecision(label) == Decided("tier2", "matched", label.route, label.params,
                                Profile(label.route, label.profile), "historical_consensus")

HistoricalConsensus(hits) ==
    IF \E id \in Identified(hits) : Cardinality(VotesOf(hits, id)) > 1
    THEN ManualReview("tier2", "conflict", "tier2_conflict")
    ELSE LET eligible == Eligible(hits)
         IN IF eligible = {} THEN None
            ELSE IF Cardinality(eligible) > 1
            THEN ManualReview("tier2", "conflict", "tier2_conflict")
            ELSE LabelDecision(LabelOf(hits, CHOOSE v \in eligible : TRUE))

\* Tier 3: the model's answer, or manual review when there is none to use.
Tier3Fallback(answer) ==
    IF answer = None THEN ManualReview("tier3", "error", "router_model_failed")
    ELSE Decided("tier3", "matched", answer.route, answer.params,
                 DefaultProfile(answer.route), "model")

-----------------------------------------------------------------------------
(* What the model assumes of its constants.  The schema gives a rule one   *)
(* of the routes and its conditions one of the fields; conditions are      *)
(* finite trees; a decision is never mistaken for its absence.             *)
FoldingAssumption ==
    /\ \A t \in DOMAIN Folded : Folded[t] \in DOMAIN Folded
    /\ \A t \in DOMAIN Folded : Folded[Folded[t]] = Folded[t]
    /\ \A view \in Views : DOMAIN view = Fields \cup {"long"}

ConditionsAssumption ==
    /\ \A node \in Conditions : /\ Kids(node) \subseteq Conditions
                                /\ node.kind \in {"none", "leaf", "all", "any", "not"}
                                /\ node.kind = "leaf" => node.leaf.field \in Fields
    /\ \A S \in SUBSET Conditions \ {{}} : \E node \in S : Kids(node) \cap S = {}

RegistriesAssumption ==
    \A files \in Registries :
       /\ IsFiniteSet(files)
       /\ \A rule \in files : /\ rule.conditions \in Conditions
                              /\ rule.id \in Nat
                              /\ rule.route \in Routes
                              /\ RuleDecision(rule) # None

EvidenceAssumption ==
    /\ \A hits \in HitLists :
          /\ hits \in Seq({hits[i] : i \in DOMAIN hits})
          /\ \A i \in DOMAIN hits : hits[i].label # None =>
                /\ hits[i].label.route \in Routes
                /\ hits[i].label.profile # None => hits[i].label.route \in Writing
                /\ LabelDecision(hits[i].label) # None
    /\ \A answer \in Answers \cup {None} : /\ Tier3Fallback(answer) # None
                                           /\ Tier3Fallback(answer).route \in Routes
    /\ None \notin {Indeterminate, Conflict}

RoutingAssumption ==
    /\ FoldingAssumption /\ ConditionsAssumption
    /\ RegistriesAssumption /\ EvidenceAssumption
    /\ MaxTime \in Nat /\ MaxAttempts \in Nat

-----------------------------------------------------------------------------
Idle == [pc |-> "idle", hits |-> <<>>, decision |-> None]
NoJobs == [a \in 1..MaxAttempts |-> Idle]

Init ==
    /\ clock = 0
    /\ image = None
    /\ engine = None
    /\ served = FALSE
    /\ stopped = None
    /\ mail \in Views
    /\ lease = 0
    /\ job = NoJobs
    /\ decision = None
    /\ acted = {}

Tick == /\ clock < MaxTime
        /\ clock' = clock + 1
        /\ UNCHANGED <<process, mail, lease, job, decision, acted>>

\* deploy_system: compile the rule directory, publish the artifact, build the
\* image and recreate the container.  A directory that does not compile
\* leaves the deployed image and its process alone.
Deploy(files) ==
    /\ Compiles(files, clock, Me)
    /\ image' = EnabledRules(files)
    /\ engine' = None
    /\ stopped' = None
    /\ served' = FALSE
    /\ job' = NoJobs
    /\ UNCHANGED <<clock, mail, lease, decision, acted>>

\* AppContext.initialize: load_artifact validates every manifest again and
\* refuses the whole artifact when one of its rules has expired since.
Start ==
    /\ image # None
    /\ engine = None
    /\ stopped = None
    /\ IF \E r \in image : ValidityErrors(r, clock)
       THEN stopped' = "rule_expired" /\ UNCHANGED <<engine, served>>
       ELSE /\ engine' = image
            /\ served' = TRUE
            /\ UNCHANGED stopped
    /\ UNCHANGED <<clock, image, mail, lease, job, decision, acted>>

\* The process ends, its attempts with it; the decision row stays.  The
\* container's restart policy then tries Start again.
Crash ==
    /\ engine # None \/ stopped # None
    /\ engine' = None
    /\ stopped' = None
    /\ job' = NoJobs
    /\ UNCHANGED <<clock, image, served, mail, lease, decision, acted>>

-----------------------------------------------------------------------------
(* _resolve_and_persist_canonical_route, one step per await.  The durable  *)
(* inbox leases the mail again when a lease runs out, so an older attempt  *)
(* may still be waiting for its search or its model.                       *)

\* The new attempt's get_route_decision_for_attempt: a decision that exists
\* is not made again, only offered to Persist once more.
BeginAttempt ==
    /\ engine # None
    /\ lease < MaxAttempts
    /\ lease' = lease + 1
    /\ job' = [job EXCEPT ![lease + 1] =
                 IF decision = None THEN [Idle EXCEPT !.pc = "tier1"]
                 ELSE [Idle EXCEPT !.pc = "persist", !.decision = decision]]
    /\ UNCHANGED <<clock, process, mail, decision, acted>>

\* What a tier found: its decision, or the next tier's turn.
Found(a, d, next) ==
    job' = [job EXCEPT ![a].pc = IF d = None THEN next ELSE "persist", ![a].decision = d]

\* What is raised in an attempt ends it; the worker leases the mail again.
Fail(a) == job' = [job EXCEPT ![a] = [Idle EXCEPT !.pc = "done"]]

Tier1Step(a) ==
    /\ job[a].pc = "tier1"
    /\ IF RouterRaises(engine, mail, Me, clock) THEN Fail(a)
       ELSE Found(a, ExecuteRouter(engine, mail, Me, clock), "search")
    /\ UNCHANGED <<clock, process, mail, lease, decision, acted>>

\* _routing_evidence_hits: a search that fails has found nothing.
Tier2Step(a, hits) ==
    /\ job[a].pc = "search"
    /\ IF ConsensusRaises(hits) THEN Fail(a)
       ELSE LET d == HistoricalConsensus(hits)
       IN job' = [job EXCEPT ![a] = [pc |-> IF d = None THEN "model" ELSE "persist",
                                     hits |-> hits, decision |-> d]]
    /\ UNCHANGED <<clock, process, mail, lease, decision, acted>>

Tier3Step(a, answer) ==
    /\ job[a].pc = "model"
    /\ Found(a, Tier3Fallback(answer), "none")
    /\ UNCHANGED <<clock, process, mail, lease, decision, acted>>

\* As Persist, without asking whose lease it is or what the row says.
PersistBlindly(a) ==
    /\ job[a].pc = "persist"
    /\ decision' = IF decision = None THEN job[a].decision ELSE decision
    /\ acted' = acted \cup {job[a].decision}
    /\ job' = [job EXCEPT ![a] = [Idle EXCEPT !.pc = "done"]]
    /\ UNCHANGED <<clock, process, mail, lease>>

\* persist_route_decision: only under the live lease, INSERT ... ON CONFLICT
\* DO NOTHING, and the row then read back must be the one offered.
Persist(a) ==
    /\ job[a].pc = "persist"
    /\ decision' = IF a = lease /\ decision = None THEN job[a].decision ELSE decision
    /\ acted' = IF a = lease /\ decision' = job[a].decision
                THEN acted \cup {job[a].decision} ELSE acted
    /\ job' = [job EXCEPT ![a] = [Idle EXCEPT !.pc = "done"]]
    /\ UNCHANGED <<clock, process, mail, lease>>

Attempt(a) ==
    \/ Tier1Step(a) \/ Persist(a)
    \/ \E hits \in HitLists \cup {<<>>} : Tier2Step(a, hits)
    \/ \E answer \in Answers \cup {None} : Tier3Step(a, answer)

Next ==
    \/ Tick \/ Start \/ Crash \/ BeginAttempt
    \/ \E files \in Registries : Deploy(files)
    \/ \E a \in 1..MaxAttempts : Attempt(a)

Spec == Init /\ [][Next]_vars

-----------------------------------------------------------------------------
(* Properties.                                                             *)

\* Every variable has the shape the code gives it.
TypeOK ==
    /\ clock \in 0..MaxTime
    /\ lease \in 0..MaxAttempts
    /\ mail \in Views
    /\ stopped \in {None, "rule_expired"} /\ served \in BOOLEAN
    /\ \A a \in 1..MaxAttempts :
         /\ job[a].pc \in {"idle", "tier1", "search", "model", "persist", "done"}
         /\ job[a].pc = "persist" => job[a].decision.route \in Routes
    /\ decision # None => decision.route \in Routes
    /\ engine # None => engine = image

\* persist_route_decision: whatever attempts overlap, die or answer late, and
\* whatever rules were deployed in between, every attempt that went on did so
\* with the one decision the row holds.
RouteFrozen == acted \subseteq {decision}

\* What carrying a decision out amounts to: whom it is sent to and how.  A
\* reply mode that is left out counts as its documented default.
Executes(route, params, profile) ==
    [route  |-> route, how |-> Profile(route, profile),
     sent   |-> IF route = "forward" THEN {Folded[t] : t \in params.to} ELSE {},
     copied |-> IF route = "forward" THEN {Folded[t] : t \in params.cc} ELSE {},
     edits  |-> route = "forward" /\ params.edit,
     files  |-> route = "forward" /\ params.attach,
     mode    |-> IF route # "reply" THEN "-"
                 ELSE IF params.mode = None THEN "sender_and_original_cc" ELSE params.mode]

\* execute_router: a matched Tier 1 decision does what every rule in force
\* that matches the mail declares, also when it is read from another rule
\* with the same fingerprint; two rules that differ never have a winner.
EveryMatchAgrees ==
    engine # None =>
      LET d == ExecuteRouter(engine, mail, Me, clock)
      IN d # None /\ d.outcome = "matched" =>
           \A r \in Having(engine, "MATCHED", mail, Me, clock) :
             Executes(r.route, r.params, r.profile) = Executes(d.route, d.params, d.profile)

\* The mail with its long texts searched, for any owner the mailbox may have.
Resolutions(view, me) ==
    {[view |-> [view EXCEPT !.long = {}], me |-> m] :
        m \in IF me = NoMe THEN DOMAIN Folded \ {MePlaceholder} ELSE {me}}

\* dsl.py: what could not be evaluated ($ME without an owner, a text too long
\* for a regex) never decides.  When Tier 1 matches, conflicts or abstains it
\* would have done the same had everything been known.
UnknownNeverDecides ==
    engine # None =>
      \A me \in {Me, NoMe} :
        LET d == ExecuteRouter(engine, mail, me, clock)
        IN (d = None \/ d.outcome # "error") =>
             \A r \in Resolutions(mail, me) : ExecuteRouter(engine, r.view, r.me, clock) = d

\* compile_registry replays a rule's fixtures when it is deployed; while the
\* rule is in force the running engine never lets such a mail fall through
\* to the historical and model tiers.
FixturesDecide ==
    engine # None =>
      \A r \in engine : IsRuleActive(r, clock) =>
        \A view \in r.positive : ExecuteRouter(engine, view, Me, clock) # None

\* What holds of the running engine in every state, across deployments and
\* expiries of rules: agreeing rules decide, what is unknown does not, and a
\* fixture replayed at deployment still decides (engine.py, dsl.py).
RoutingInv == TypeOK /\ EveryMatchAgrees /\ UnknownNeverDecides /\ FixturesDecide

Outcome(d) == IF d = None THEN None ELSE Executes(d.route, d.params, d.profile)

\* The orders in which n hits may come.
Orders(n) == {p \in [1..n -> 1..n] : \A j \in 1..n : \E i \in 1..n : p[i] = j}

\* history.py: the consensus depends on the mails found, not on the order or
\* the number of times the search returned them.
OneMailOneVote ==
    \A a \in 1..MaxAttempts :
      LET hits == job[a].hits
          n    == Len(hits)
          here == Outcome(HistoricalConsensus(hits))
      IN /\ \A p \in Orders(n) :
              Outcome(HistoricalConsensus([i \in 1..n |-> hits[p[i]]])) = here
         /\ \A i \in 1..n : hits[i].id # None =>
              Outcome(HistoricalConsensus(Append(hits, hits[i]))) = here

-----------------------------------------------------------------------------
(* The inductive invariant.                                                *)

\* What compile_registry lets through.
Admitted(rules) ==
    \E files \in Registries : /\ rules = EnabledRules(files)
                              /\ \A rule \in rules : ~FixtureErrors(rule, Me)

\* No attempt without a process, nothing to persist without a decision.
JobShapes ==
    /\ job = [a \in 1..MaxAttempts |->
                [pc |-> job[a].pc, hits |-> job[a].hits, decision |-> job[a].decision]]
    /\ \A a \in 1..MaxAttempts : /\ job[a].hits \in HitLists \cup {<<>>}
                                 /\ job[a].pc = "persist" => job[a].decision # None
    /\ engine = None => job = NoJobs
    /\ None \notin acted

RoutingInductive == /\ TypeOK /\ JobShapes /\ RouteFrozen
                    /\ image # None => Admitted(image)
=============================================================================
