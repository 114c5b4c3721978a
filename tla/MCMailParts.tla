----------------------------- MODULE MCMailParts ------------------------------
(***************************************************************************)
(* Four parts of the system that share no modelled state, checked in one   *)
(* run: the routing of a mail, the content store, the files of a mail in   *)
(* Feishu Drive, and the daily digest.  A behaviour picks its part and     *)
(* only that one moves, so their states add up and do not multiply.        *)
(***************************************************************************)
EXTENDS ContentStore, MCTier1Routing

CONSTANTS
    Folded, Internal, Me, NoMe, Conditions, Registries, Views, HitLists, Answers, MaxTime,
    MaxAttempts,
    Replies, Cleanups, MaxTokens, MaxFiles,
    Schedulers, DigestMails, MaxParts, Day, Flight, Delay, MaxClock

VARIABLES
    part,
    clock, image, engine, served, stopped, mail, lease, job, decision, acted,
    drive, uploads, pdf, handles, lock, shown, card, task, cleaned, abandoned,
    now, received, execution, reported, requests, chat, sched

Routing == INSTANCE Tier1Routing

Drive == INSTANCE DriveResources WITH mail <- card

Digest == INSTANCE DailyDigest WITH Mails <- DigestMails, mail <- received

ASSUME PartsAssumption ==
    /\ StoreAssumption /\ Routing!RoutingAssumption
    /\ Drive!DriveAssumption /\ Digest!DigestAssumption

\* The clicks on one mail's card are interchangeable.
ClickSymmetry == Permutations(Replies) \cup Permutations(Cleanups)

routingVars ==
    <<clock, image, engine, served, stopped, mail, lease, job, decision, acted>>
driveVars == <<drive, uploads, pdf, handles, lock, shown, card, task, cleaned, abandoned>>
digestVars == <<now, received, execution, reported, requests, chat, sched>>
allVars == <<part, vars, routingVars, driveVars, digestVars>>

\* "first store": the account's directory is still to be made.
MCInit ==
    /\ part \in {"routing", "first store", "store", "drive", "digest"}
    /\ Routing!Init /\ (part # "routing" => mail = CHOOSE v \in Views : TRUE)
    /\ Init /\ account = IF part = "first store" THEN "absent" ELSE "durable"
    /\ Drive!Init
    /\ Digest!Init

\* The power stays on while the directory is being made: what a power loss
\* may then do is a known limit of the code, told in the README.
MCNext ==
    \/ /\ part = "routing" /\ Routing!Next
       /\ UNCHANGED <<part, vars, driveVars, digestVars>>
    \/ /\ part \in {"first store", "store"} /\ Next
       /\ part = "first store" => UNCHANGED losses
       /\ UNCHANGED <<part, routingVars, driveVars, digestVars>>
    \/ /\ part = "drive" /\ Drive!Next
       /\ UNCHANGED <<part, vars, routingVars, digestVars>>
    \/ /\ part = "digest" /\ Digest!Next
       /\ UNCHANGED <<part, vars, routingVars, driveVars>>

MCSpec == MCInit /\ [][MCNext]_allVars

-----------------------------------------------------------------------------
(* Properties: those of the parts, under the names they have there, asked  *)
(* while the part moves.  The content store's StoreInv is that of          *)
(* ContentStore itself.                                                    *)

\* engine.py, dsl.py: agreeing rules decide, what is unknown does not, and a
\* fixture replayed at deployment still decides.
RoutingInv == part = "routing" => Routing!RoutingInv

\* persist_route_decision: every attempt that went on did so with the one
\* decision the row holds.
RouteFrozen == part = "routing" => Routing!RouteFrozen

\* history.py: the consensus depends on the mails found, not on the order or
\* the number of times the search returned them.
OneMailOneVote == part = "routing" => Routing!OneMailOneVote

\* lark_pdf_flow.py, email_feishu_delivery.py: no file in the Drive is silently
\* forgotten, the PDF a card links to is only deleted by a cleanup, and a mail
\* is marked read only after its card was accepted.
DriveInv == part = "drive" => Drive!DriveInv

\* lark_app.py: a cleanup deletes only files its click had seen.
CleanupSparesNewer == Drive!CleanupSparesNewer

\* claim_next_part, reconcile_parts, _write_parts_and_refresh_state: no part of
\* a digest is posted twice, what is confirmed was posted, and a missed digest
\* is ticked off only after one that names it.
DigestInv == part = "digest" => Digest!DigestInv
=============================================================================
