--------------------------- MODULE MCTier1Routing ---------------------------
(* Rules shaped like tier1_rules/*.yaml: a pair split on $ME, an expiring  *)
(* archive rule, forwards that agree up to spelling, a reply that differs  *)
(* from another in its profile only, and files the compiler must refuse.   *)
EXTENDS TLC

CONSTANT None    \* no value, as in Tier1Routing

MCFolded == ("Boss" :> "boss") @@ ("boss" :> "boss") @@ ("news" :> "news")
            @@ ("Desk" :> "desk") @@ ("desk" :> "desk") @@ ("me" :> "me")
            @@ ("refund" :> "refund") @@ ("$ME" :> "$ME")

View(sender, to, subject, body, long) ==
    [sender |-> {sender}, to |-> to, cc |-> {}, subject |-> subject,
     body |-> body, full |-> body, long |-> long]

BossToMe == View("boss", {"me"}, {}, {}, {})
BossToDesk == View("Boss", {"desk"}, {"refund"}, {}, {})
NewsMail == View("news", {"desk"}, {}, {}, {})
LongMail == View("Boss", {"me"}, {}, {"refund"}, {"body", "full"})
Stranger == View("me", {"boss"}, {}, {"refund"}, {})

MCViews == {BossToMe, BossToDesk, NewsMail, LongMail, Stranger}

Leaf(field, op, values) == [field |-> field, op |-> op, values |-> values]
Node(leaf) == [kind |-> "leaf", leaf |-> leaf]
Every(kids) == [kind |-> "all", kids |-> kids]
Some(kids) == [kind |-> "any", kids |-> kids]
Not(kid) == [kind |-> "not", kid |-> kid]
Always == [kind |-> "none"]

Rule(id, anchor, conditions, route, params, profile, positive, negative) ==
    [id |-> id, status |-> "enabled", owned |-> TRUE, from |-> None, until |-> None,
     any |-> TRUE, anchor |-> anchor, conditions |-> conditions, route |-> route,
     params |-> params, profile |-> profile, positive |-> positive, negative |-> negative,
     externalAck |-> FALSE, fullTextAck |-> FALSE, safeRegex |-> TRUE]

FromBoss == {Leaf("sender", "in", {"boss"})}
ToMe == Node(Leaf("to", "has_any", {"$ME"}))
Mode(m) == [mode |-> m]
To(S) == [to |-> S, cc |-> {}, edit |-> TRUE, attach |-> FALSE]
Copied(S, C) == [To(S) EXCEPT !.cc = C]
Plain == [plain |-> TRUE]

VipReply == Rule(1, FromBoss, Every({ToMe}), "reply", Mode(None), "vip_direct_reply_v1",
                 {BossToMe}, {BossToDesk})
VipCc == Rule(2, FromBoss, Every({Not(ToMe)}), "read_only", Plain, None,
              {BossToDesk}, {BossToMe})
Archive == [Rule(3, {Leaf("sender", "in", {"news"})}, Always, "no_action",
                 [reason |-> "MARKETING"], None, {NewsMail}, {BossToMe, Stranger})
            EXCEPT !.from = 0, !.until = 1]
RefundForward == Rule(4, FromBoss,
                      Some({Node(Leaf("subject", "contains_any", {"refund"})),
                            Node(Leaf("body", "regex", {"refund"}))}),
                      "forward", Copied({"desk"}, {"me", "Desk"}), None, {BossToDesk}, {BossToMe})
DeskForward == [Rule(5, {Leaf("to", "has_any", {"Desk"})}, Always, "forward",
                     Copied({"Desk"}, {"me", "desk"}), "generic_forward_v1", {NewsMail}, {BossToMe})
                EXCEPT !.any = FALSE]
PlainReply == Rule(6, FromBoss, Always, "reply", Mode("sender_and_original_cc"), None,
                   {BossToMe}, {})
LaterRule == [PlainReply EXCEPT !.from = 1]
BadFixture == Rule(7, {Leaf("sender", "in", {"desk"})}, Always, "read_only", Plain, None,
                   {NewsMail}, {})
BareNot == [Rule(8, FromBoss, Not(ToMe), "reply", Mode(None), None, {BossToDesk}, {BossToMe})
            EXCEPT !.safeRegex = FALSE]
Outside == Rule(9, FromBoss, Always, "forward", Copied({"desk"}, {"boss"}), None, {BossToMe}, {})
Gone == [PlainReply EXCEPT !.status = "proposed", !.profile = "vip_direct_reply_v0"]

MCRegistries ==
    { {VipReply, VipCc, Archive},
      {RefundForward, DeskForward, Archive},
      {VipReply, LaterRule},
      {[VipCc EXCEPT !.profile = "vip_direct_reply_v1"], [BareNot EXCEPT !.status = "proposed"]},
      {VipReply, BareNot},
      {VipReply, Gone},
      {VipCc, BadFixture},
      {Outside},
      {VipReply, [VipCc EXCEPT !.id = 1]},
      {PlainReply, [PlainReply EXCEPT !.id = 10, !.profile = "vip_direct_reply_v1"]} }

Parts(nodes) == UNION {IF n.kind \in {"all", "any"} THEN n.kids
                       ELSE IF n.kind = "not" THEN {n.kid} ELSE {} : n \in nodes}

\* The conditions of these rules, which nest three deep.
MCConditions ==
    LET tops == {rule.conditions : rule \in UNION MCRegistries}
    IN tops \cup Parts(tops) \cup Parts(Parts(tops))

MCInternal == {"desk", "me", "news"}

Hit(id, label) == [id |-> id, label |-> label]
Label(route, params, profile) == [route |-> route, params |-> params, profile |-> profile]
OldReply == Label("reply", Mode(None), None)
NewReply == Label("reply", Mode(None), "generic_reply_v1")
SameReply == Label("reply", Mode("sender_and_original_cc"), "generic_reply_v1")
GoneReply == Label("reply", Mode(None), "vip_direct_reply_v0")
ToDesk == Label("forward", To({"Desk"}), "generic_forward_v1")

\* A clear majority, a mail found twice with two labels, a tie, and a label
\* whose profile has been removed since.
MCHitLists ==
    { <<Hit("h1", OldReply), Hit("h2", NewReply), Hit(None, ToDesk), Hit("h3", NewReply)>>,
      <<Hit("h1", NewReply), Hit("h1", ToDesk), Hit("h2", SameReply)>>,
      <<Hit("h1", NewReply), Hit("h2", SameReply), Hit("h3", ToDesk), Hit("h4", ToDesk)>>,
      <<Hit("h1", GoneReply), Hit("h2", NewReply)>> }

MCAnswers == {[route |-> "reply", params |-> Mode(None)], [route |-> "read_only", params |-> Plain]}
=============================================================================
