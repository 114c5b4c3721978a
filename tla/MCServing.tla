------------------------------ MODULE MCServing -------------------------------
(***************************************************************************)
(* Two parts of the web process that owe progress and share no modelled    *)
(* state, checked in one run: the life cycle of the process, and the LLM   *)
(* workflow behind its breaker and limiter.  A behaviour picks its part    *)
(* and only that one moves, so their states add up and do not multiply.    *)
(***************************************************************************)
EXTENDS Workflow

CONSTANT Parts   \* the parts to check

VARIABLES
    part,
    main, alive, fence, context, lark, digest, rt, lock, lease, lessee, ingest

Life == INSTANCE IngestionRuntime WITH pc <- main, row <- lessee, open <- ingest

ASSUME ServingAssumption ==
    /\ Parts \subseteq {"runtime", "workflow"}
    /\ WorkflowAssumption

\* A reply the model writes, one with a fixed text, one whose fixed text is
\* blank, and a forward.
MCMails == {[route |-> "reply", plan |-> "model"], [route |-> "reply", plan |-> "fixed"],
            [route |-> "reply", plan |-> "empty"], [route |-> "forward", plan |-> "model"]}
MCReplies == {[route |-> "reply", plan |-> "model"]}

lifeVars ==
    <<main, alive, fence, context, lark, digest, rt, lock, lease, lessee, ingest>>
allVars == <<part, vars, lifeVars>>

MCInit ==
    /\ part \in Parts
    /\ Init /\ Life!Init
    /\ part # "workflow" => mail = CHOOSE m \in Mails : TRUE

MCNext ==
    \/ part = "runtime" /\ Life!Next /\ UNCHANGED <<part, vars>>
    \/ part = "workflow" /\ Next /\ UNCHANGED <<part, lifeVars>>

\* A part at rest owes nothing.
MCSpec ==
    /\ MCInit /\ [][MCNext]_allVars
    /\ part = "runtime" => Life!Fairness
    /\ part = "workflow" => Fairness

-----------------------------------------------------------------------------
(* Properties: those of Workflow under their own names, and those of the   *)
(* process.                                                                *)

\* IngestionRuntime: draining is only reported by a quiet process, heartbeat and
\* pages agree on the lease, and callbacks run on a started runtime only.
RuntimeInv == Life!RuntimeInv

\* _shutdown_application_components: the context is closed and the fence let go
\* only after everything that uses them has stopped.
ReleasedWhenQuiet == Life!ReleasedWhenQuiet

\* lifespan and _heartbeat_loop: starts and shutdowns end, also when a stage
\* fails, and a process that lost its session, its polling task or its fence
\* does not stay in service.
ServingMovesOn == part = "runtime" => Life!ProcessMovesOn
=============================================================================
