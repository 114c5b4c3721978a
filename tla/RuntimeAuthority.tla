-------------------------- MODULE RuntimeAuthority ---------------------------
(***************************************************************************)
(* The runtime authority of one account and the web instances that work    *)
(* under it: operators initialize it, pause it and resume it through       *)
(* manage_ingestion.py; processes register a session, renew its lease,     *)
(* write under it and drain it.  Every greenfield_* function runs under    *)
(* the account's advisory lock, so each is one step; between its steps a   *)
(* client works with the authority or the lease it read earlier.  A        *)
(* function may also commit without its answer reaching the client.        *)
(***************************************************************************)
EXTENDS Naturals, Sequences

CONSTANTS
    Clis,        \* command-line invocations that may run at the same time
    Keys,        \* idempotency keys
    Actors,
    Scopes,      \* folder scopes a policy file may configure
    Builds,
    Sessions,    \* process starts, each with its own session_id
    Instances,   \* configured instance ids
    InstanceOf,  \* [Sessions -> Instances]
    BigintMax    \* POSTGRES_BIGINT_MAX, the end of every version counter

ASSUME AuthorityAssumption ==
    /\ InstanceOf \in [Sessions -> Instances]
    /\ BigintMax \in Nat \ {0, 1}

VARIABLES
    authority, \* the pipeline_runtime_authority row
    manifest,  \* the capability and folder-scope rows of the initialization
    receipts,  \* pipeline_command_receipts
    instances, \* pipeline_runtime_instances, by session
    cli,       \* what each invocation holds
    session,   \* what each process holds
    told,      \* history: receipts that reached an operator
    writes     \* history: fenced writes, with the epoch they were made under

vars == <<authority, manifest, receipts, instances, cli, session, told, writes>>
operatorVars == <<authority, manifest, receipts, cli, told>>
sessionVars == <<instances, session, writes>>

-----------------------------------------------------------------------------
RuntimeAuthorityState == {"ingest_only", "paused"}
RuntimeInstanceLifecycle == {"absent", "active", "draining"}
None == [state |-> "none"]

\* A policy file and a contract file, as the operator hands them in.
Files == [scopes : SUBSET Scopes, build : Builds]

\* A policy without scopes is refused; canonical JSON orders the scopes, so
\* the identity of a manifest is the set of them.
PolicyReady(file) == file.scopes # {}
canonical_policy_manifest(file) == file.scopes

\* The capability binds the build to the policy; its hash is its content.
RuntimeContract(file) ==
    [build |-> file.build, policy |-> canonical_policy_manifest(file)]

Contracts == [build : Builds, policy : SUBSET Scopes]

AuthorityRow ==
    [state : RuntimeAuthorityState, epoch : 1..BigintMax,
     version : 1..BigintMax, contract : Contracts]

InstanceRow ==
    [lifecycle : RuntimeInstanceLifecycle, version : 0..BigintMax,
     epoch : 0..BigintMax, live : BOOLEAN]

AbsentInstance ==
    [lifecycle |-> "absent", version |-> 0, epoch |-> 0, live |-> FALSE]

Commands == {"initialize", "pause", "resume"}

\* A payload hash stands for the payload it digests.
Payloads == [command : Commands, actor : Actors, contract : Contracts,
             epoch : 0..BigintMax, version : 0..BigintMax]

Receipts == [command : Commands, key : Keys, payload : Payloads,
             epoch : 1..BigintMax, version : 1..BigintMax]

IdleCli == [phase |-> "idle"]

SessionPhases == {"new", "starting", "registering", "up", "failed", "stopped"}
NoLease == [version |-> 0, epoch |-> 0]

-----------------------------------------------------------------------------
(* Payloads and the checks of both sides. *)

canonical_initialization_payload(actor, contract) ==
    [command |-> "initialize", actor |-> actor, contract |-> contract,
     epoch |-> 0, version |-> 0]

Source(command) == IF command = "pause" THEN "ingest_only" ELSE "paused"
Target(command) == IF command = "pause" THEN "paused" ELSE "ingest_only"

\* Only pause of an open and resume of a paused authority have a payload, and
\* only while the counters can still move.
TransitionAllowed(a, command) ==
    /\ a.state = Source(command)
    /\ a.epoch < BigintMax - 1
    /\ a.version < BigintMax - 1

canonical_authority_transition_payload(a, command, actor) ==
    [command |-> command, actor |-> actor, contract |-> a.contract,
     epoch |-> a.epoch, version |-> a.version]

ReceiptOf(command, key) ==
    {r \in receipts : r.command = command /\ r.key = key}

\* What reaches the operator: the command, its key and its place.
Told(r) == [entry |-> [command |-> r.command, key |-> r.key,
                       actor |-> r.payload.actor],
            epoch |-> r.epoch]

\* RuntimeManifestRepository.load: the stored capability and scopes must still
\* hash to what the authority names.
ManifestLoads(a) ==
    /\ manifest # None
    /\ manifest.capability = a.contract
    /\ manifest.scopes = a.contract.policy
    /\ manifest.scopes # {}

-----------------------------------------------------------------------------
TypeOK ==
    /\ authority \in {None} \union AuthorityRow
    /\ manifest \in {None} \union [capability : Contracts, scopes : SUBSET Scopes]
    /\ receipts \subseteq Receipts
    /\ instances \in [Sessions -> InstanceRow]
    /\ cli \in [Clis -> {IdleCli}
                \union [phase : {"initialize"}, key : Keys, payload : Payloads]
                \union [phase : {"submit"}, key : Keys, payload : Payloads]]
    /\ session \in [Sessions -> [phase : SessionPhases,
                                 seen : {None} \union AuthorityRow,
                                 lease : [version : 0..BigintMax,
                                          epoch : 0..BigintMax]]]
    /\ writes \subseteq Sessions \X (1..BigintMax)

Init ==
    /\ authority = None
    /\ manifest = None
    /\ receipts = {}
    /\ instances = [s \in Sessions |-> AbsentInstance]
    /\ cli = [c \in Clis |-> IdleCli]
    /\ session = [s \in Sessions |->
                    [phase |-> "new", seen |-> None, lease |-> NoLease]]
    /\ told = {}
    /\ writes = {}

-----------------------------------------------------------------------------
(* Operators. *)

\* manage_ingestion initialize: both files are read and checked first.
PrepareInitialize(c, key, actor, file) ==
    /\ cli[c].phase = "idle"
    /\ PolicyReady(file)
    /\ cli' = [cli EXCEPT ![c] =
                [phase |-> "initialize", key |-> key,
                 payload |-> canonical_initialization_payload(
                                actor, RuntimeContract(file))]]
    /\ UNCHANGED <<authority, manifest, receipts, told, sessionVars>>

\* The receipt a function answers with, unless the answer is lost.
Answered(c, r) ==
    /\ told' \in {told, told \union {Told(r)}}
    /\ cli' = [cli EXCEPT ![c] = IdleCli]

\* A function that raises changes nothing; so does a broken connection.
Refused(c) ==
    /\ cli[c].phase # "idle"
    /\ cli' = [cli EXCEPT ![c] = IdleCli]
    /\ UNCHANGED <<authority, manifest, receipts, told, sessionVars>>

\* greenfield_initialize_runtime on empty tables.
Initialize(c) ==
    LET key == cli[c].key
        payload == cli[c].payload
        receipt == [command |-> "initialize", key |-> key, payload |-> payload,
                    epoch |-> 1, version |-> 1]
    IN /\ cli[c].phase = "initialize"
       /\ ReceiptOf("initialize", key) = {}
       /\ authority = None /\ receipts = {}
       /\ \A s \in Sessions : instances[s] = AbsentInstance
       /\ receipts' = {receipt}
       /\ manifest' = [capability |-> payload.contract,
                       scopes |-> payload.contract.policy]
       /\ authority' = [state |-> "ingest_only", epoch |-> 1, version |-> 1,
                        contract |-> payload.contract]
       /\ Answered(c, receipt)
       /\ UNCHANGED sessionVars

\* greenfield_initialize_runtime with a key that was used: the stored
\* initialization is answered if the payload is the same one.
ReplayInitialize(c) ==
    /\ cli[c].phase = "initialize"
    /\ \E r \in ReceiptOf("initialize", cli[c].key) :
        /\ r.payload = cli[c].payload
        /\ Answered(c, r)
    /\ UNCHANGED <<authority, manifest, receipts, sessionVars>>

\* manage_ingestion pause and resume-ingress: the authority is read first.
ReadAuthority(c, command, key, actor) ==
    /\ cli[c].phase = "idle"
    /\ authority # None
    /\ TransitionAllowed(authority, command)
    /\ cli' = [cli EXCEPT ![c] =
                [phase |-> "submit", key |-> key,
                 payload |-> canonical_authority_transition_payload(
                                authority, command, actor)]]
    /\ UNCHANGED <<authority, manifest, receipts, told, sessionVars>>

\* greenfield_pause_runtime and greenfield_resume_ingress: compare and swap.
Transition(c) ==
    LET key == cli[c].key
        payload == cli[c].payload
        receipt == [command |-> payload.command, key |-> key,
                    payload |-> payload,
                    epoch |-> payload.epoch + 1, version |-> payload.version + 1]
    IN /\ cli[c].phase = "submit"
       /\ ReceiptOf(payload.command, key) = {}
       /\ authority # None
       /\ authority.state = Source(payload.command)
       /\ authority.epoch = payload.epoch
       /\ authority.version = payload.version
       /\ authority.contract = payload.contract
       /\ receipts' = receipts \union {receipt}
       /\ authority' = [authority EXCEPT !.state = Target(payload.command),
                                         !.epoch = @ + 1, !.version = @ + 1]
       /\ Answered(c, receipt)
       /\ UNCHANGED <<manifest, sessionVars>>

\* Mutant of ReplayTransition: the answer is read from the authority row.
ReplayTellsCurrent(c) ==
    LET payload == cli[c].payload
    IN /\ cli[c].phase = "submit"
       /\ \E r \in ReceiptOf(payload.command, cli[c].key) :
            /\ r.payload = payload
            /\ Answered(c, [r EXCEPT !.epoch = authority.epoch])
       /\ UNCHANGED <<authority, manifest, receipts, sessionVars>>

\* The same functions with a key that was used.
ReplayTransition(c) ==
    LET payload == cli[c].payload
    IN /\ cli[c].phase = "submit"
       /\ \E r \in ReceiptOf(payload.command, cli[c].key) :
            /\ r.payload = payload
            /\ r.epoch - 1 = payload.epoch
            /\ r.version - 1 = payload.version
            /\ Answered(c, r)
       /\ UNCHANGED <<authority, manifest, receipts, sessionVars>>

-----------------------------------------------------------------------------
(* Sessions. *)

Fail(s) == session' = [session EXCEPT ![s].phase = "failed"]

\* IngestionRuntime.start reads the authority and loads its manifest.
LoadAuthority(s) ==
    /\ session[s].phase = "new"
    /\ IF authority # None /\ authority.state = "ingest_only"
            /\ ManifestLoads(authority)
       THEN session' = [session EXCEPT ![s].phase = "registering",
                                       ![s].seen = authority]
       ELSE Fail(s)
    /\ UNCHANGED <<instances, writes, operatorVars>>

\* The rows of the same instance id that are not draining.
Holders(s) ==
    {t \in Sessions : /\ InstanceOf[t] = InstanceOf[s]
                      /\ instances[t].lifecycle = "active"}

\* greenfield_register_web_instance: a lapsed holder is drained, a live one
\* refuses the newcomer.
Registrable(s) ==
    /\ authority = session[s].seen
    /\ instances[s] = AbsentInstance
    /\ \A t \in Holders(s) : /\ ~instances[t].live
                             /\ instances[t].version < BigintMax - 1

\* Mutant of Register: the lapsed holder is left as it is.
RegisterKeepsHolder(s) ==
    /\ session[s].phase = "registering"
    /\ Registrable(s)
    /\ instances' = [instances EXCEPT ![s] =
                        [lifecycle |-> "active", version |-> 1,
                         epoch |-> authority.epoch, live |-> TRUE]]
    /\ session' = [session EXCEPT ![s].phase = "up",
                        ![s].lease = [version |-> 1, epoch |-> authority.epoch]]
    /\ UNCHANGED <<writes, operatorVars>>

Register(s) ==
    /\ session[s].phase = "registering"
    /\ Registrable(s)
    /\ instances' = [t \in Sessions |->
         IF t = s THEN [lifecycle |-> "active", version |-> 1,
                        epoch |-> authority.epoch, live |-> TRUE]
         ELSE IF t \in Holders(s)
         THEN [instances[t] EXCEPT !.lifecycle = "draining", !.version = @ + 1]
         ELSE instances[t]]
    /\ \/ session' = [session EXCEPT ![s].phase = "up",
                        ![s].lease = [version |-> 1, epoch |-> authority.epoch]]
       \/ Fail(s)                                    \* the answer is lost
    /\ UNCHANGED <<writes, operatorVars>>

RegisterRefused(s) ==
    /\ session[s].phase = "registering"
    /\ Fail(s)
    /\ UNCHANGED <<instances, writes, operatorVars>>

\* The row a client's lease names, while the authority still stands.
LeaseCurrent(s) ==
    /\ instances[s].lifecycle = "active"
    /\ instances[s].version = session[s].lease.version
    /\ instances[s].epoch = session[s].lease.epoch

\* Mutant of AuthorityStands: the write asks whether ingress is open, not
\* under which epoch.
AuthorityStandsAnyEpoch(s) ==
    authority # None /\ authority.state = "ingest_only"

AuthorityStands(s) ==
    /\ authority # None
    /\ authority.state = "ingest_only"
    /\ authority.epoch = session[s].lease.epoch

\* greenfield_heartbeat_web_instance.
Heartbeat(s) ==
    /\ session[s].phase = "up"
    /\ session[s].lease.version < BigintMax - 1
    /\ AuthorityStands(s) /\ LeaseCurrent(s) /\ instances[s].live
    /\ instances' = [instances EXCEPT ![s].version = @ + 1]
    /\ \/ session' = [session EXCEPT ![s].lease.version = @ + 1]
       \/ UNCHANGED session                          \* the answer is lost
    /\ UNCHANGED <<writes, operatorVars>>

\* Whatever heartbeat raises is a lost session: the process stops accepting.
HeartbeatFails(s) ==
    /\ session[s].phase = "up"
    /\ Fail(s)
    /\ UNCHANGED <<instances, writes, operatorVars>>

\* The check every fenced write of a session repeats (greenfield_commit_sync_page).
FencedWrite(s) ==
    /\ session[s].phase = "up"
    /\ AuthorityStands(s) /\ LeaseCurrent(s) /\ instances[s].live
    /\ writes' = writes \union {<<s, session[s].lease.epoch>>}
    /\ UNCHANGED <<instances, session, operatorVars>>

\* greenfield_drain_web_instance asks for the lease, not for the authority and
\* not for the time.
Drain(s) ==
    /\ session[s].phase \in {"up", "failed"}
    /\ session[s].lease.version < BigintMax - 1
    /\ LeaseCurrent(s)
    /\ instances' = [instances EXCEPT ![s].lifecycle = "draining",
                                      ![s].version = @ + 1, ![s].live = FALSE]
    /\ session' = [session EXCEPT ![s].phase = "stopped"]
    /\ UNCHANGED <<writes, operatorVars>>

\* The process goes away and its row stays.
Crash(s) ==
    /\ session[s].phase \notin {"new", "stopped"}
    /\ session' = [session EXCEPT ![s].phase = "stopped"]
    /\ UNCHANGED <<instances, writes, operatorVars>>

\* lease_until passes.
Lapse(s) ==
    /\ instances[s].live
    /\ instances' = [instances EXCEPT ![s].live = FALSE]
    /\ UNCHANGED <<session, writes, operatorVars>>

-----------------------------------------------------------------------------
OperatorStep(c) ==
    \/ \E k \in Keys, a \in Actors, f \in Files : PrepareInitialize(c, k, a, f)
    \/ Initialize(c)
    \/ ReplayInitialize(c)
    \/ \E m \in {"pause", "resume"}, k \in Keys, a \in Actors :
            ReadAuthority(c, m, k, a)
    \/ Transition(c)
    \/ ReplayTransition(c)
    \/ Refused(c)

SessionStep(s) ==
    \/ LoadAuthority(s) \/ Register(s) \/ RegisterRefused(s)
    \/ Heartbeat(s) \/ HeartbeatFails(s) \/ FencedWrite(s)
    \/ Drain(s) \/ Crash(s) \/ Lapse(s)

Next == \/ \E c \in Clis : OperatorStep(c)
        \/ \E s \in Sessions : SessionStep(s)

Spec == Init /\ [][Next]_vars
-----------------------------------------------------------------------------
(* Properties. *)

\* The ledger the receipts amount to.
LedgerView ==
    [n \in 1..(IF authority = None THEN 0 ELSE authority.epoch) |->
        Told(CHOOSE r \in receipts : r.epoch = n).entry]

Ledger == INSTANCE AuthorityLedger WITH ledger <- LedgerView, told <- told

\* Receipts, compare-and-swap and replay together implement the ledger: no
\* interleaving of invocations, lost answers and reused keys applies a command
\* twice, answers with a position it does not have, or opens a second account.
LedgerImplemented == Ledger!Spec

\* Once an operator has been told of a transition, no session of an earlier
\* epoch writes any more, even one that is still up with an unexpired lease.
PauseIsBarrier ==
    \A w \in writes' \ writes : \A a \in told : a.epoch <= w[2]

\* At most one session of an instance id holds a row that is not draining,
\* whatever was lost or lapsed, and a lease that is over does not come back.
OneHolder ==
    /\ \A s \in Sessions : \A t, u \in Holders(s) : t = u
    /\ \A s \in Sessions : instances[s].lifecycle = "draining" => ~instances[s].live

\* A session whose place was taken, or that drained, never writes or renews
\* again, although its process may not know yet.
ReplacedStaysSilent ==
    \A s \in Sessions : instances[s].lifecycle = "draining" =>
        /\ instances'[s] = instances[s]
        /\ \A w \in writes' \ writes : w[1] # s

\* A process that starts under a standing authority finds a manifest that
\* still hashes to what the authority names.
ManifestAlwaysLoads == authority # None => ManifestLoads(authority)

\* FencedWrite, Heartbeat and Drain: a pause is a barrier and a replaced
\* process stays silent, in every step.
SessionsObey == [][PauseIsBarrier /\ ReplacedStaysSilent]_vars

\* One receipt for every epoch, pauses and resumes by turns, no two with one
\* command and key, and what an operator was told is one of them.
Recorded ==
    /\ authority = None => receipts = {} /\ told = {}
    /\ authority # None =>
          /\ authority.state = IF authority.epoch % 2 = 1 THEN "ingest_only" ELSE "paused"
          /\ \A n \in 1..authority.epoch : \E r \in receipts : r.epoch = n
    /\ \A r \in receipts :
          /\ r.epoch <= authority.epoch
          /\ r.command = IF r.epoch = 1 THEN "initialize"
                         ELSE IF r.epoch % 2 = 0 THEN "pause" ELSE "resume"
    /\ \A q, r \in receipts :
          q.epoch = r.epoch \/ (q.command = r.command /\ q.key = r.key) => q = r
    /\ \A a \in told : \E r \in receipts : a = Told(r)

\* What a client has checked before it submits.
Prepared ==
    /\ \A c \in Clis :
          /\ cli[c].phase = "initialize" =>
                /\ cli[c].payload.command = "initialize"
                /\ cli[c].payload.contract.policy # {}
          /\ cli[c].phase = "submit" =>
                /\ cli[c].payload.command \in {"pause", "resume"}
                /\ cli[c].payload.epoch < BigintMax - 1
                /\ cli[c].payload.version < BigintMax - 1
    /\ \A s \in Sessions : session[s].phase = "registering" => session[s].seen # None

\* What holds of the authority, its manifests and its sessions in every state:
\* registration, replacement, lapse and drain leave one holder per instance id,
\* and no transition leaves a manifest a start cannot load.
AuthorityInv == TypeOK /\ OneHolder /\ ManifestAlwaysLoads /\ Recorded /\ Prepared
=============================================================================
