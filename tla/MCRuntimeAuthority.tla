------------------------- MODULE MCRuntimeAuthority --------------------------
(***************************************************************************)
(* RuntimeAuthority and PipelineOwnership for TLC, in one run.  They share *)
(* no modelled state and a behaviour moves one of them.                    *)
(***************************************************************************)
EXTENDS RuntimeAuthority, TLC

CONSTANTS
    i1, s1, s2, c1, c2, k1, k2, a1, a2,
    e1, e2, e3, m1, Workers, Pipelines, MaxGeneration

VARIABLES
    focus,  \* what a behaviour explores
    ownership, inbox, emails, op, worker

\* A CREATE, an UPDATE and a DELETE of one e-mail, each leased twice at most.
Events == {e1, e2, e3}
KindOf == e1 :> "create" @@ e2 :> "update" @@ e3 :> "delete"

\* The component with its proofs: what they show of it is cited for this system.
Pipeline == INSTANCE PipelineOwnershipProofs WITH
    Mails <- {m1}, MailOf <- [e \in Events |-> m1], BigintMax <- MaxGeneration,
    MaxAttempts <- [e \in Events |-> 2], Evidence <- TRUE

ASSUME PipelineAssumption == Pipeline!OwnershipAssumption

pipelineVars == <<ownership, inbox, emails, op, worker>>
mcVars == <<vars, focus, pipelineVars>>

\* Every process start uses the configured instance id.
OneInstance == [s \in Sessions |-> i1]

\* Either operators race with shared and with different keys and no process
\* starts, or one operator pauses and resumes under the processes.
Focused ==
    IF focus = "operators" THEN \A s \in Sessions : session[s].phase = "new"
    ELSE \A c \in Clis : cli[c].phase # "idle" =>
             c = c1 /\ cli[c].key = k1 /\ cli[c].payload.actor = a1

\* The CREATE meets the shell that the UPDATE makes, or the DELETE.
Meets == "shell" :> e2 @@ "delete" :> e3

MCInit ==
    /\ focus \in {"operators", "sessions"} \cup DOMAIN Meets
    /\ Init /\ Pipeline!Init

MCNext ==
    \/ /\ focus \in {"operators", "sessions"} /\ Next
       /\ UNCHANGED <<focus, pipelineVars>>
       /\ Focused'
    \/ /\ focus \in DOMAIN Meets /\ Pipeline!Next
       /\ \A e \in Events \ {e1, Meets[focus]} : inbox'[e] = inbox[e]
       /\ UNCHANGED <<focus, vars>>

MCSpec == MCInit /\ [][MCNext]_mcVars

\* Only one of the two parts moves, so sessions and workers swap together.
Swaps ==
    {f \in Permutations(Sessions \cup Workers) :
        /\ \A s \in Sessions : f[s] \in Sessions
        /\ (\A s \in Sessions : f[s] = s) <=> (\A w \in Workers : f[w] = w)}

-----------------------------------------------------------------------------
\* ownership.py, repository.py: one generation takes in mail, an e-mail is
\* worked on by its owner's events, and a retired generation is done.
OwnershipInv == focus \in DOMAIN Meets => Pipeline!OwnershipInv
=============================================================================
