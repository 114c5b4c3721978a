------------------------ MODULE RuntimeAuthorityProofs -------------------------
(***************************************************************************)
(* Proofs about RuntimeAuthority, for every set of operators, keys,        *)
(* sessions and instance ids and every end of the counters: AuthorityInv   *)
(* is inductive, a pause is a barrier, and the receipts implement the      *)
(* ledger of AuthorityLedger.  The last part carries the invariant of      *)
(* PipelineOwnership, which PipelineOwnershipProofs proves, over to the    *)
(* system that MCRuntimeAuthority composes.                                *)
(***************************************************************************)
EXTENDS MCRuntimeAuthority, SequenceTheorems, TLAPS

Leases == [version : 0..BigintMax, epoch : 0..BigintMax]
SessionRow == [phase : SessionPhases, seen : {None} \union AuthorityRow, lease : Leases]
CliRow == {IdleCli}
          \union [phase : {"initialize"}, key : Keys, payload : Payloads]
          \union [phase : {"submit"}, key : Keys, payload : Payloads]

-----------------------------------------------------------------------------
\* Layer 1: sessions.

\* What a step of a session has to keep.
LEMMA SessionKeeps ==
    ASSUME AuthorityInv, UNCHANGED operatorVars,
           instances' \in [Sessions -> InstanceRow],
           session' \in [Sessions -> SessionRow],
           writes' \subseteq Sessions \X (1..BigintMax),
           OneHolder',
           \A s \in Sessions : session'[s].phase = "registering" => session'[s].seen # None
    PROVE  AuthorityInv'
PROOF
  <1>1. TypeOK'
    BY DEF AuthorityInv, TypeOK, operatorVars, SessionRow, Leases
  <1>2. ManifestAlwaysLoads'
    BY DEF AuthorityInv, ManifestAlwaysLoads, ManifestLoads, operatorVars
  <1>3. Recorded'
    BY DEF AuthorityInv, Recorded, operatorVars
  <1>4. Prepared'
    BY DEF AuthorityInv, Prepared, operatorVars
  <1> QED BY <1>1, <1>2, <1>3, <1>4 DEF AuthorityInv

\* The rows of the sessions and of the processes, as SessionKeeps asks them.
LEMMA SessionTypes ==
    ASSUME AuthorityInv, NEW s \in Sessions
    PROVE  /\ instances \in [Sessions -> InstanceRow] /\ instances[s] \in InstanceRow
           /\ session \in [Sessions -> SessionRow] /\ session[s] \in SessionRow
           /\ session[s].lease \in Leases
           /\ writes \subseteq Sessions \X (1..BigintMax)
PROOF
  <1>1. instances \in [Sessions -> InstanceRow] /\ session \in [Sessions -> SessionRow]
        /\ writes \subseteq Sessions \X (1..BigintMax)
    BY DEF AuthorityInv, TypeOK, SessionRow, Leases
  <1>2. instances[s] \in InstanceRow /\ session[s] \in SessionRow
    BY <1>1
  <1> QED BY <1>1, <1>2 DEF SessionRow

\* Holders are told from the rows alone.
LEMMA HoldersSame ==
    ASSUME AuthorityInv,
           \A t \in Sessions : instances'[t].lifecycle = "active" => instances[t].lifecycle = "active",
           \A t \in Sessions : instances'[t].lifecycle = "draining" => ~instances'[t].live
    PROVE  OneHolder'
PROOF
  BY DEF AuthorityInv, OneHolder, Holders

\* A process that moves on keeps its lease or gets another one.
LEMMA PhaseTyped ==
    ASSUME AuthorityInv, NEW s \in Sessions, NEW phase \in SessionPhases,
           phase # "registering", session' = [session EXCEPT ![s].phase = phase]
    PROVE  /\ session' \in [Sessions -> SessionRow]
           /\ \A t \in Sessions : session'[t].phase = "registering" => session'[t].seen # None
PROOF
  <1>1. session \in [Sessions -> SessionRow] /\ session[s] \in SessionRow
    BY SessionTypes
  <1>2. /\ [session[s] EXCEPT !.phase = phase] \in SessionRow
        /\ [session[s] EXCEPT !.phase = phase].phase = phase
    BY <1>1 DEF SessionRow
  <1>3. /\ session' \in [Sessions -> SessionRow] /\ session'[s].phase = phase
        /\ \A t \in Sessions : t # s => session'[t] = session[t]
    BY <1>1, <1>2
  <1> QED BY <1>3 DEF AuthorityInv, Prepared

\* Steps that change what the process knows and not its row.
LEMMA PhaseKeeps ==
    ASSUME AuthorityInv, NEW s \in Sessions,
           RegisterRefused(s) \/ HeartbeatFails(s) \/ Crash(s)
    PROVE  AuthorityInv'
PROOF
  <1>1. PICK phase \in {"failed", "stopped"} : session' = [session EXCEPT ![s].phase = phase]
    BY DEF RegisterRefused, HeartbeatFails, Crash, Fail
  <1>2. UNCHANGED <<instances, writes>> /\ UNCHANGED operatorVars
    BY DEF RegisterRefused, HeartbeatFails, Crash
  <1>3. phase \in SessionPhases /\ phase # "registering"
    BY DEF SessionPhases
  <1>4. /\ session' \in [Sessions -> SessionRow]
        /\ \A t \in Sessions : session'[t].phase = "registering" => session'[t].seen # None
    BY <1>1, <1>3, PhaseTyped
  <1>5. OneHolder'
    BY <1>2 DEF AuthorityInv, OneHolder, Holders
  <1> QED BY <1>2, <1>4, <1>5, SessionTypes, SessionKeeps

LEMMA LoadKeeps ==
    ASSUME AuthorityInv, NEW s \in Sessions, LoadAuthority(s)
    PROVE  AuthorityInv'
PROOF
  <1>1. UNCHANGED <<instances, writes>> /\ UNCHANGED operatorVars
    BY DEF LoadAuthority
  <1>2. OneHolder'
    BY <1>1 DEF AuthorityInv, OneHolder, Holders
  <1>3. /\ session' \in [Sessions -> SessionRow]
        /\ \A t \in Sessions : session'[t].phase = "registering" => session'[t].seen # None
    <2>1. CASE Fail(s)
      <3>1. "failed" \in SessionPhases /\ "failed" # "registering"
        BY DEF SessionPhases
      <3> QED BY <2>1, <3>1, PhaseTyped DEF Fail
    <2>2. CASE ~Fail(s)
      <3> DEFINE new == [session[s] EXCEPT !.phase = "registering", !.seen = authority]
      <3>1. authority # None /\ session' = [session EXCEPT ![s] = new]
        BY <2>2, SessionTypes DEF LoadAuthority
      <3>2. authority \in {None} \union AuthorityRow
        BY DEF AuthorityInv, TypeOK
      <3>3. new \in SessionRow /\ new.seen = authority
        BY <3>2, SessionTypes DEF SessionRow, SessionPhases
      <3> HIDE DEF new
      <3>4. /\ session' \in [Sessions -> SessionRow] /\ session'[s] = new
            /\ \A t \in Sessions : t # s => session'[t] = session[t]
        BY <3>1, <3>3, SessionTypes
      <3> QED BY <3>1, <3>3, <3>4 DEF AuthorityInv, Prepared
    <2> QED BY <2>1, <2>2
  <1> QED BY <1>1, <1>2, <1>3, SessionTypes, SessionKeeps

\* A lease that the process was told of and a row that it was not.
LEMMA LeaseTyped ==
    ASSUME AuthorityInv, NEW s \in Sessions, NEW lease \in Leases, NEW phase \in SessionPhases,
           phase # "registering",
           session' = [session EXCEPT ![s].phase = phase, ![s].lease = lease]
    PROVE  /\ session' \in [Sessions -> SessionRow]
           /\ \A t \in Sessions : session'[t].phase = "registering" => session'[t].seen # None
PROOF
  <1> DEFINE new == [session[s] EXCEPT !.phase = phase, !.lease = lease]
  <1>1. session \in [Sessions -> SessionRow] /\ session[s] \in SessionRow
    BY SessionTypes
  <1>2. new \in SessionRow /\ new.phase = phase
    BY <1>1 DEF SessionRow
  <1>3. session' = [session EXCEPT ![s] = new]
    BY <1>1
  <1> HIDE DEF new
  <1>4. /\ session' \in [Sessions -> SessionRow] /\ session'[s] = new
        /\ \A t \in Sessions : t # s => session'[t] = session[t]
    BY <1>1, <1>2, <1>3
  <1> QED BY <1>2, <1>4 DEF AuthorityInv, Prepared

\* Every holder of the instance id steps back before the newcomer steps in.
LEMMA RegisterKeeps ==
    ASSUME AuthorityInv, NEW s \in Sessions, Register(s)
    PROVE  AuthorityInv'
PROOF
  <1> DEFINE fresh == [lifecycle |-> "active", version |-> 1,
                       epoch |-> authority.epoch, live |-> TRUE]
             lease == [version |-> 1, epoch |-> authority.epoch]
             Back(t) == [instances[t] EXCEPT !.lifecycle = "draining", !.version = @ + 1]
  <1>1. /\ session[s].phase = "registering" /\ Registrable(s)
        /\ UNCHANGED writes /\ UNCHANGED operatorVars
        /\ instances' = [t \in Sessions |-> IF t = s THEN fresh
                           ELSE IF t \in Holders(s) THEN Back(t) ELSE instances[t]]
    BY DEF Register
  <1>2. authority \in AuthorityRow /\ authority.epoch \in 1..BigintMax
    <2>1. authority # None
      BY <1>1 DEF Registrable, AuthorityInv, Prepared
    <2>2. authority \in AuthorityRow
      BY <2>1 DEF AuthorityInv, TypeOK
    <2> QED BY <2>2 DEF AuthorityRow
  <1>3. fresh \in InstanceRow /\ lease \in Leases
    BY <1>2, AuthorityAssumption DEF InstanceRow, Leases, RuntimeInstanceLifecycle
  <1>4. ASSUME NEW t \in Holders(s)
        PROVE  /\ Back(t) \in InstanceRow /\ Back(t).lifecycle = "draining" /\ ~Back(t).live
    <2>1. ~instances[t].live /\ instances[t].version < BigintMax - 1 /\ t \in Sessions
      BY <1>1 DEF Registrable, Holders
    <2>2. instances[t] \in InstanceRow
      BY <2>1, SessionTypes
    <2>3. instances[t].version + 1 \in 0..BigintMax
      BY <2>1, <2>2, AuthorityAssumption DEF InstanceRow
    <2> DEFINE version == instances[t].version + 1
    <2>4. Back(t) = [instances[t] EXCEPT !.lifecycle = "draining", !.version = version]
      OBVIOUS
    <2> HIDE DEF version, Back
    <2> QED BY <2>1, <2>2, <2>3, <2>4 DEF InstanceRow, RuntimeInstanceLifecycle, version
  <1>5. instances' \in [Sessions -> InstanceRow]
    <2> HIDE DEF fresh, Back
    <2> QED BY <1>1, <1>3, <1>4, SessionTypes
  <1>6. OneHolder'
    <2>1. \A t \in Sessions :
             /\ t = s => instances'[t].lifecycle = "active"
             /\ t # s /\ instances'[t].lifecycle = "active" =>
                   t \notin Holders(s) /\ instances[t].lifecycle = "active"
             /\ instances'[t].lifecycle = "draining" => ~instances'[t].live
      <3>1. \A t \in Sessions : t # s /\ t \in Holders(s) =>
               instances'[t].lifecycle = "draining" /\ ~instances'[t].live
        <4> HIDE DEF fresh, Back
        <4> QED BY <1>1, <1>4
      <3>2. \A t \in Sessions : t # s /\ t \notin Holders(s) => instances'[t] = instances[t]
        BY <1>1
      <3>3. instances'[s] = fresh
        BY <1>1
      <3> QED BY <3>1, <3>2, <3>3 DEF AuthorityInv, OneHolder
    <2>2. ASSUME NEW r \in Sessions, NEW t \in Holders(r)', NEW u \in Holders(r)'
          PROVE  t = u
      <3>1. /\ t \in Sessions /\ u \in Sessions /\ InstanceOf[t] = InstanceOf[u]
            /\ instances'[t].lifecycle = "active" /\ instances'[u].lifecycle = "active"
        BY <2>2 DEF Holders
      <3>2. CASE t # s /\ u # s
        <4>1. t \in Holders(t) /\ u \in Holders(t)
          BY <2>1, <3>1, <3>2 DEF Holders
        <4> QED BY <3>1, <4>1 DEF AuthorityInv, OneHolder
      <3>3. CASE t = s /\ u # s
        <4>1. u \in Holders(s)
          BY <2>1, <3>1, <3>3 DEF Holders
        <4> QED BY <2>1, <3>1, <3>3, <4>1
      <3>4. CASE t # s /\ u = s
        <4>1. t \in Holders(s)
          BY <2>1, <3>1, <3>4 DEF Holders
        <4> QED BY <2>1, <3>1, <3>4, <4>1
      <3> QED BY <3>2, <3>3, <3>4
    <2> QED BY <2>1, <2>2 DEF OneHolder
  <1>7. /\ session' \in [Sessions -> SessionRow]
        /\ \A t \in Sessions : session'[t].phase = "registering" => session'[t].seen # None
    <2>1. "up" \in SessionPhases /\ "failed" \in SessionPhases
      BY DEF SessionPhases
    <2>2. CASE Fail(s)
      BY <2>1, <2>2, PhaseTyped DEF Fail
    <2>3. CASE ~Fail(s)
      <3>1. session' = [session EXCEPT ![s].phase = "up", ![s].lease = lease]
        BY <2>3 DEF Register
      <3> HIDE DEF lease
      <3> QED BY <1>3, <2>1, <3>1, LeaseTyped
    <2> QED BY <2>2, <2>3
  <1> QED BY <1>1, <1>5, <1>6, <1>7, SessionTypes, SessionKeeps

LEMMA HeartbeatKeeps ==
    ASSUME AuthorityInv, NEW s \in Sessions, Heartbeat(s)
    PROVE  AuthorityInv'
PROOF
  <1> DEFINE version == session[s].lease.version + 1
             row == [instances[s] EXCEPT !.version = @ + 1]
             lease == [session[s].lease EXCEPT !.version = version]
  <1>1. /\ session[s].phase = "up" /\ session[s].lease.version < BigintMax - 1
        /\ LeaseCurrent(s) /\ instances' = [instances EXCEPT ![s].version = @ + 1]
        /\ UNCHANGED writes /\ UNCHANGED operatorVars
    BY DEF Heartbeat
  <1>2. version \in 0..BigintMax
    BY <1>1, SessionTypes, AuthorityAssumption DEF Leases
  <1>3. row \in InstanceRow /\ row.lifecycle = instances[s].lifecycle /\ row.live = instances[s].live
    <2>1. row = [instances[s] EXCEPT !.version = version]
      BY <1>1 DEF LeaseCurrent
    <2> HIDE DEF version, row
    <2> QED BY <1>2, <2>1, SessionTypes DEF InstanceRow
  <1>4. instances' = [instances EXCEPT ![s] = row]
    BY <1>1, SessionTypes
  <1>5. instances' \in [Sessions -> InstanceRow]
    <2> HIDE DEF row
    <2> QED BY <1>3, <1>4, SessionTypes
  <1>6. OneHolder'
    <2>1. \A t \in Sessions : /\ instances'[t].lifecycle = instances[t].lifecycle
                              /\ instances'[t].live = instances[t].live
      <3> HIDE DEF row
      <3> QED BY <1>3, <1>4, SessionTypes
    <2> QED BY <2>1, HoldersSame DEF AuthorityInv, OneHolder
  <1>7. /\ session' \in [Sessions -> SessionRow]
        /\ \A t \in Sessions : session'[t].phase = "registering" => session'[t].seen # None
    <2>1. CASE session' = session
      BY <2>1, SessionTypes DEF AuthorityInv, Prepared
    <2>2. CASE session' # session
      <3> DEFINE new == [session[s] EXCEPT !.lease = lease]
      <3>1. session' = [session EXCEPT ![s].lease.version = @ + 1]
        BY <2>2 DEF Heartbeat
      <3>2. session' = [session EXCEPT ![s] = new]
        BY <3>1, SessionTypes
      <3>3. lease \in Leases
        <4> HIDE DEF version
        <4> QED BY <1>2, SessionTypes DEF Leases
      <3>4. new \in SessionRow /\ new.phase = session[s].phase
        <4> HIDE DEF lease
        <4> QED BY <3>3, SessionTypes DEF SessionRow
      <3> HIDE DEF new
      <3>5. /\ session' \in [Sessions -> SessionRow] /\ session'[s] = new
            /\ \A t \in Sessions : t # s => session'[t] = session[t]
        BY <3>2, <3>4, SessionTypes
      <3> QED BY <1>1, <3>4, <3>5 DEF AuthorityInv, Prepared
    <2> QED BY <2>1, <2>2
  <1> QED BY <1>1, <1>5, <1>6, <1>7, SessionTypes, SessionKeeps

LEMMA WriteKeeps ==
    ASSUME AuthorityInv, NEW s \in Sessions, FencedWrite(s)
    PROVE  AuthorityInv'
PROOF
  <1>1. /\ AuthorityStands(s) /\ UNCHANGED <<instances, session>> /\ UNCHANGED operatorVars
        /\ writes' = writes \union {<<s, session[s].lease.epoch>>}
    BY DEF FencedWrite
  <1>2. session[s].lease.epoch \in 1..BigintMax
    BY <1>1 DEF AuthorityStands, AuthorityInv, TypeOK, AuthorityRow
  <1>3. writes' \subseteq Sessions \X (1..BigintMax)
    BY <1>1, <1>2, SessionTypes
  <1>4. OneHolder'
    BY <1>1 DEF AuthorityInv, OneHolder, Holders
  <1>5. /\ session' \in [Sessions -> SessionRow] /\ instances' \in [Sessions -> InstanceRow]
        /\ \A t \in Sessions : session'[t].phase = "registering" => session'[t].seen # None
    BY <1>1, SessionTypes DEF AuthorityInv, Prepared
  <1> QED BY <1>1, <1>3, <1>4, <1>5, SessionKeeps

LEMMA DrainKeeps ==
    ASSUME AuthorityInv, NEW s \in Sessions, Drain(s)
    PROVE  AuthorityInv'
PROOF
  <1> DEFINE version == instances[s].version + 1
             row == [instances[s] EXCEPT !.lifecycle = "draining", !.version = version,
                                         !.live = FALSE]
  <1>1. /\ session[s].lease.version < BigintMax - 1 /\ LeaseCurrent(s)
        /\ instances' = [instances EXCEPT ![s].lifecycle = "draining",
                                          ![s].version = @ + 1, ![s].live = FALSE]
        /\ session' = [session EXCEPT ![s].phase = "stopped"]
        /\ UNCHANGED writes /\ UNCHANGED operatorVars
    BY DEF Drain
  <1>2. version \in 0..BigintMax
    BY <1>1, SessionTypes, AuthorityAssumption DEF Leases, LeaseCurrent
  <1>3. instances' = [instances EXCEPT ![s] = row]
    BY <1>1, SessionTypes
  <1>4. row \in InstanceRow /\ row.lifecycle = "draining" /\ ~row.live
    <2> HIDE DEF version
    <2> QED BY <1>2, SessionTypes DEF InstanceRow, RuntimeInstanceLifecycle
  <1> HIDE DEF row
  <1>5. /\ instances' \in [Sessions -> InstanceRow] /\ instances'[s] = row
        /\ \A t \in Sessions : t # s => instances'[t] = instances[t]
    BY <1>3, <1>4, SessionTypes
  <1>6. OneHolder'
    BY <1>4, <1>5, HoldersSame DEF AuthorityInv, OneHolder
  <1>7. "stopped" \in SessionPhases /\ "stopped" # "registering"
    BY DEF SessionPhases
  <1> QED BY <1>1, <1>5, <1>6, <1>7, PhaseTyped, SessionTypes, SessionKeeps

LEMMA LapseKeeps ==
    ASSUME AuthorityInv, NEW s \in Sessions, Lapse(s)
    PROVE  AuthorityInv'
PROOF
  <1> DEFINE row == [instances[s] EXCEPT !.live = FALSE]
  <1>1. /\ instances' = [instances EXCEPT ![s] = row]
        /\ UNCHANGED <<session, writes>> /\ UNCHANGED operatorVars
    BY SessionTypes DEF Lapse
  <1>2. row \in InstanceRow /\ row.lifecycle = instances[s].lifecycle /\ ~row.live
    BY SessionTypes DEF InstanceRow
  <1> HIDE DEF row
  <1>3. /\ instances' \in [Sessions -> InstanceRow] /\ instances'[s] = row
        /\ \A t \in Sessions : t # s => instances'[t] = instances[t]
    BY <1>1, <1>2, SessionTypes
  <1>4. OneHolder'
    BY <1>2, <1>3, HoldersSame DEF AuthorityInv, OneHolder
  <1>5. /\ session' \in [Sessions -> SessionRow]
        /\ \A t \in Sessions : session'[t].phase = "registering" => session'[t].seen # None
    BY <1>1, SessionTypes DEF AuthorityInv, Prepared
  <1> QED BY <1>1, <1>3, <1>4, <1>5, SessionTypes, SessionKeeps

LEMMA SessionStepKeeps ==
    ASSUME AuthorityInv, NEW s \in Sessions, SessionStep(s)
    PROVE  AuthorityInv' /\ UNCHANGED operatorVars
PROOF
  <1>1. AuthorityInv'
    BY LoadKeeps, RegisterKeeps, PhaseKeeps, HeartbeatKeeps, WriteKeeps, DrainKeeps, LapseKeeps
    DEF SessionStep
  <1>2. UNCHANGED operatorVars
    BY DEF SessionStep, LoadAuthority, Register, RegisterRefused, Heartbeat, HeartbeatFails,
           FencedWrite, Drain, Crash, Lapse
  <1> QED BY <1>1, <1>2

-----------------------------------------------------------------------------
\* Layer 2: operators.

\* What a step of an operator has to keep.
LEMMA OperatorKeeps ==
    ASSUME AuthorityInv, UNCHANGED sessionVars,
           authority' \in {None} \union AuthorityRow,
           manifest' \in {None} \union [capability : Contracts, scopes : SUBSET Scopes],
           receipts' \subseteq Receipts,
           cli' \in [Clis -> CliRow],
           ManifestAlwaysLoads', Recorded',
           \A c \in Clis :
              /\ cli'[c].phase = "initialize" =>
                    /\ cli'[c].payload.command = "initialize"
                    /\ cli'[c].payload.contract.policy # {}
              /\ cli'[c].phase = "submit" =>
                    /\ cli'[c].payload.command \in {"pause", "resume"}
                    /\ cli'[c].payload.epoch < BigintMax - 1
                    /\ cli'[c].payload.version < BigintMax - 1
    PROVE  AuthorityInv'
PROOF
  <1>1. TypeOK'
    BY DEF AuthorityInv, TypeOK, sessionVars, CliRow
  <1>2. OneHolder'
    BY DEF AuthorityInv, OneHolder, Holders, sessionVars
  <1>3. Prepared'
    BY DEF AuthorityInv, Prepared, sessionVars
  <1> QED BY <1>1, <1>2, <1>3 DEF AuthorityInv

\* An invocation that ends, with a receipt or without.
LEMMA IdleTyped ==
    ASSUME AuthorityInv, NEW c \in Clis, cli' = [cli EXCEPT ![c] = IdleCli]
    PROVE  /\ cli' \in [Clis -> CliRow]
           /\ \A d \in Clis :
                 /\ cli'[d].phase = "initialize" =>
                       /\ cli'[d].payload.command = "initialize"
                       /\ cli'[d].payload.contract.policy # {}
                 /\ cli'[d].phase = "submit" =>
                       /\ cli'[d].payload.command \in {"pause", "resume"}
                       /\ cli'[d].payload.epoch < BigintMax - 1
                       /\ cli'[d].payload.version < BigintMax - 1
PROOF
  <1>1. cli \in [Clis -> CliRow]
    BY DEF AuthorityInv, TypeOK, CliRow
  <1>2. IdleCli \in CliRow /\ IdleCli.phase = "idle"
    BY DEF CliRow, IdleCli
  <1>3. /\ cli' \in [Clis -> CliRow] /\ cli'[c] = IdleCli
        /\ \A d \in Clis : d # c => cli'[d] = cli[d]
    BY <1>1, <1>2
  <1> QED BY <1>2, <1>3 DEF AuthorityInv, Prepared

\* The tables stand, and what an operator is told is in them.
LEMMA AnswerKeeps ==
    ASSUME AuthorityInv, NEW c \in Clis, cli' = [cli EXCEPT ![c] = IdleCli],
           UNCHANGED <<authority, manifest, receipts>>, UNCHANGED sessionVars,
           NEW r \in receipts, told' \in {told, told \union {Told(r)}}
    PROVE  AuthorityInv'
PROOF
  <1>1. \A q \in receipts : Told(q)' = Told(q)
    BY DEF Told
  <1>2. Recorded'
    BY <1>1 DEF AuthorityInv, Recorded
  <1>3. ManifestAlwaysLoads'
    BY DEF AuthorityInv, ManifestAlwaysLoads, ManifestLoads
  <1> QED BY <1>2, <1>3, IdleTyped, OperatorKeeps DEF AuthorityInv, TypeOK

LEMMA RefusedKeeps ==
    ASSUME AuthorityInv, NEW c \in Clis, Refused(c)
    PROVE  AuthorityInv'
PROOF
  <1>1. Recorded'
    BY DEF AuthorityInv, Recorded, Refused
  <1>2. ManifestAlwaysLoads'
    BY DEF AuthorityInv, ManifestAlwaysLoads, ManifestLoads, Refused
  <1> QED BY <1>1, <1>2, IdleTyped, OperatorKeeps DEF AuthorityInv, TypeOK, Refused

\* An invocation that has read and checked what it is going to submit.
LEMMA PreparedKeeps ==
    ASSUME AuthorityInv, NEW c \in Clis, NEW row \in CliRow,
           cli' = [cli EXCEPT ![c] = row],
           UNCHANGED <<authority, manifest, receipts, told>>, UNCHANGED sessionVars,
           row.phase = "initialize" =>
              row.payload.command = "initialize" /\ row.payload.contract.policy # {},
           row.phase = "submit" =>
              /\ row.payload.command \in {"pause", "resume"}
              /\ row.payload.epoch < BigintMax - 1
              /\ row.payload.version < BigintMax - 1
    PROVE  AuthorityInv'
PROOF
  <1>1. Recorded'
    BY DEF AuthorityInv, Recorded
  <1>2. ManifestAlwaysLoads'
    BY DEF AuthorityInv, ManifestAlwaysLoads, ManifestLoads
  <1>3. cli \in [Clis -> CliRow]
    BY DEF AuthorityInv, TypeOK, CliRow
  <1>4. /\ cli' \in [Clis -> CliRow] /\ cli'[c] = row
        /\ \A d \in Clis : d # c => cli'[d] = cli[d]
    BY <1>3
  <1>5. \A d \in Clis :
           /\ cli'[d].phase = "initialize" =>
                 /\ cli'[d].payload.command = "initialize"
                 /\ cli'[d].payload.contract.policy # {}
           /\ cli'[d].phase = "submit" =>
                 /\ cli'[d].payload.command \in {"pause", "resume"}
                 /\ cli'[d].payload.epoch < BigintMax - 1
                 /\ cli'[d].payload.version < BigintMax - 1
    BY <1>4 DEF AuthorityInv, Prepared
  <1> QED BY <1>1, <1>2, <1>4, <1>5, OperatorKeeps DEF AuthorityInv, TypeOK

LEMMA PrepareInitializeKeeps ==
    ASSUME AuthorityInv, NEW c \in Clis, NEW k \in Keys, NEW a \in Actors, NEW f \in Files,
           PrepareInitialize(c, k, a, f)
    PROVE  AuthorityInv'
PROOF
  <1> DEFINE contract == RuntimeContract(f)
             payload == canonical_initialization_payload(a, contract)
             row == [phase |-> "initialize", key |-> k, payload |-> payload]
  <1>1. contract \in Contracts /\ contract.policy # {}
    BY DEF PrepareInitialize, PolicyReady, RuntimeContract, canonical_policy_manifest,
           Contracts, Files
  <1>2. /\ payload \in Payloads /\ payload.command = "initialize"
        /\ payload.contract = contract
    BY <1>1, AuthorityAssumption DEF canonical_initialization_payload, Payloads, Commands
  <1>3. row \in CliRow /\ row.phase = "initialize" /\ row.payload = payload
    BY <1>2 DEF CliRow
  <1>4. cli' = [cli EXCEPT ![c] = row]
        /\ UNCHANGED <<authority, manifest, receipts, told>> /\ UNCHANGED sessionVars
    BY DEF PrepareInitialize
  <1> HIDE DEF row, payload, contract
  <1> QED BY <1>1, <1>2, <1>3, <1>4, PreparedKeeps

LEMMA ReadAuthorityKeeps ==
    ASSUME AuthorityInv, NEW c \in Clis, NEW m \in {"pause", "resume"}, NEW k \in Keys,
           NEW a \in Actors, ReadAuthority(c, m, k, a)
    PROVE  AuthorityInv'
PROOF
  <1> DEFINE payload == canonical_authority_transition_payload(authority, m, a)
             row == [phase |-> "submit", key |-> k, payload |-> payload]
  <1>1. authority \in AuthorityRow /\ TransitionAllowed(authority, m)
    BY DEF ReadAuthority, AuthorityInv, TypeOK
  <1>2. /\ payload \in Payloads /\ payload.command = m
        /\ payload.epoch < BigintMax - 1 /\ payload.version < BigintMax - 1
    BY <1>1, AuthorityAssumption
    DEF canonical_authority_transition_payload, TransitionAllowed, AuthorityRow, Payloads, Commands
  <1>3. row \in CliRow /\ row.phase = "submit" /\ row.payload = payload
    BY <1>2 DEF CliRow
  <1>4. cli' = [cli EXCEPT ![c] = row]
        /\ UNCHANGED <<authority, manifest, receipts, told>> /\ UNCHANGED sessionVars
    BY DEF ReadAuthority
  <1> HIDE DEF row, payload
  <1> QED BY <1>2, <1>3, <1>4, PreparedKeeps

\* What an invocation that is about to submit holds.
LEMMA CliFacts ==
    ASSUME AuthorityInv, NEW c \in Clis, cli[c].phase \in {"initialize", "submit"}
    PROVE  /\ cli[c].key \in Keys /\ cli[c].payload \in Payloads
           /\ cli[c].payload.contract \in Contracts
PROOF
  <1>1. cli[c] \in CliRow
    BY DEF AuthorityInv, TypeOK, CliRow
  <1>2. cli[c].key \in Keys /\ cli[c].payload \in Payloads
    BY <1>1 DEF CliRow, IdleCli
  <1> QED BY <1>2 DEF Payloads

LEMMA InitializeKeeps ==
    ASSUME AuthorityInv, NEW c \in Clis, Initialize(c)
    PROVE  AuthorityInv'
PROOF
  <1> DEFINE key == cli[c].key
             payload == cli[c].payload
             receipt == [command |-> "initialize", key |-> key, payload |-> payload,
                         epoch |-> 1, version |-> 1]
             row == [state |-> "ingest_only", epoch |-> 1, version |-> 1,
                     contract |-> payload.contract]
             files == [capability |-> payload.contract, scopes |-> payload.contract.policy]
  <1>1. /\ cli[c].phase = "initialize" /\ authority = None /\ receipts = {}
        /\ receipts' = {receipt} /\ manifest' = files /\ authority' = row
        /\ Answered(c, receipt) /\ UNCHANGED sessionVars
    BY DEF Initialize
  <1>2. /\ key \in Keys /\ payload \in Payloads /\ payload.contract \in Contracts
        /\ payload.contract.policy # {} /\ payload.contract.policy \in SUBSET Scopes
    BY <1>1, CliFacts DEF AuthorityInv, Prepared, Contracts
  <1>3. 1 \in 1..BigintMax
    BY AuthorityAssumption
  <1>4. row \in AuthorityRow /\ receipt \in Receipts
    BY <1>2, <1>3 DEF AuthorityRow, RuntimeAuthorityState, Receipts, Commands
  <1>5. files \in [capability : Contracts, scopes : SUBSET Scopes]
    BY <1>2
  <1>6. files # None
    <2>1. DOMAIN files = {"capability", "scopes"} /\ DOMAIN None = {"state"}
      BY DEF None
    <2> QED BY <2>1
  <1>7. row # None
    BY DEF None
  <1>8. ManifestAlwaysLoads'
    <2>1. /\ row.contract = payload.contract /\ files.capability = payload.contract
          /\ files.scopes = payload.contract.policy
      OBVIOUS
    <2> HIDE DEF row, files, payload, receipt
    <2> QED BY <1>1, <1>2, <1>6, <2>1 DEF ManifestAlwaysLoads, ManifestLoads
  <1>9. Recorded'
    <2>1. receipt.epoch = 1 /\ receipt.command = "initialize" /\ row.epoch = 1
          /\ row.state = "ingest_only"
      OBVIOUS
    <2>2. told = {}
      BY <1>1 DEF AuthorityInv, Recorded
    <2>3. \A a \in told' : a = Told(receipt)
      BY <1>1, <2>2 DEF Answered
    <2>4. \A a \in told' : \E r \in receipts' : a = Told(r)
      BY <1>1, <2>3
    <2> HIDE DEF row, files, payload, receipt
    <2> QED BY <1>1, <1>7, <2>1, <2>4 DEF Recorded
  <1> HIDE DEF row, files, payload, receipt, key
  <1>10. cli' = [cli EXCEPT ![c] = IdleCli]
    BY <1>1 DEF Answered
  <1>11. receipts' \subseteq Receipts
    BY <1>1, <1>4
  <1> QED BY <1>1, <1>4, <1>5, <1>8, <1>9, <1>10, <1>11, IdleTyped, OperatorKeeps

\* The command whose turn it is, at the epoch after the current one.
LEMMA TransitionKeeps ==
    ASSUME AuthorityInv, NEW c \in Clis, Transition(c)
    PROVE  AuthorityInv'
PROOF
  <1> DEFINE key == cli[c].key
             payload == cli[c].payload
             epoch == payload.epoch + 1
             version == payload.version + 1
             receipt == [command |-> payload.command, key |-> key, payload |-> payload,
                         epoch |-> epoch, version |-> version]
             row == [authority EXCEPT !.state = Target(payload.command),
                                      !.epoch = epoch, !.version = version]
  <1>1. /\ cli[c].phase = "submit" /\ ReceiptOf(payload.command, key) = {}
        /\ authority # None /\ authority.state = Source(payload.command)
        /\ authority.epoch = payload.epoch /\ authority.version = payload.version
        /\ receipts' = receipts \union {receipt}
        /\ authority' = [authority EXCEPT !.state = Target(payload.command),
                                          !.epoch = @ + 1, !.version = @ + 1]
        /\ Answered(c, receipt) /\ UNCHANGED manifest /\ UNCHANGED sessionVars
    BY DEF Transition
  <1>2. /\ key \in Keys /\ payload \in Payloads /\ payload.command \in {"pause", "resume"}
        /\ payload.epoch < BigintMax - 1 /\ payload.version < BigintMax - 1
        /\ authority \in AuthorityRow
    BY <1>1, CliFacts DEF AuthorityInv, Prepared, TypeOK
  <1>3. /\ authority.epoch \in 1..BigintMax /\ authority.version \in 1..BigintMax
        /\ epoch \in 1..BigintMax /\ version \in 1..BigintMax
        /\ epoch = authority.epoch + 1 /\ version = authority.version + 1
    BY <1>1, <1>2, AuthorityAssumption DEF AuthorityRow
  <1>4. authority' = row
    BY <1>1
  <1>5. /\ row \in AuthorityRow /\ row.epoch = epoch /\ row.contract = authority.contract
        /\ row.state = Target(payload.command)
    <2> HIDE DEF epoch, version, payload
    <2> QED BY <1>2, <1>3 DEF AuthorityRow, RuntimeAuthorityState, Target
  <1>6. /\ receipt \in Receipts /\ receipt.epoch = epoch
        /\ receipt.command = payload.command /\ receipt.key = key
    <2> HIDE DEF epoch, version, payload, key
    <2> QED BY <1>2, <1>3 DEF Receipts, Commands
  <1>7. row # None
    BY <1>5 DEF None, AuthorityRow, RuntimeAuthorityState
  <1>8. /\ authority.state = (IF authority.epoch % 2 = 1 THEN "ingest_only" ELSE "paused")
        /\ \A n \in 1..authority.epoch : \E r \in receipts : r.epoch = n
        /\ \A r \in receipts :
              /\ r.epoch <= authority.epoch
              /\ r.command = IF r.epoch = 1 THEN "initialize"
                             ELSE IF r.epoch % 2 = 0 THEN "pause" ELSE "resume"
        /\ \A q, r \in receipts :
              q.epoch = r.epoch \/ (q.command = r.command /\ q.key = r.key) => q = r
        /\ \A a \in told : \E r \in receipts : a = Told(r)
        /\ \A r \in receipts : r.epoch \in 1..BigintMax
        /\ \A r \in receipts : ~(r.command = payload.command /\ r.key = key)
    <2>1. \A r \in receipts : r.epoch \in 1..BigintMax
      BY DEF AuthorityInv, TypeOK, Receipts
    <2> QED BY <1>1, <2>1 DEF AuthorityInv, Recorded, ReceiptOf
  <1>9. /\ payload.command = "pause" => authority.epoch % 2 = 1 /\ row.state = "paused"
        /\ payload.command = "resume" => authority.epoch % 2 = 0 /\ row.state = "ingest_only"
    <2>1. authority.epoch % 2 \in {0, 1}
      BY <1>3
    <2> QED BY <1>1, <1>5, <1>8, <2>1 DEF Source, Target
  <1>10. /\ authority.epoch % 2 = 1 => epoch % 2 = 0
         /\ authority.epoch % 2 = 0 => epoch % 2 = 1
         /\ epoch # 1
    BY <1>3
  <1> HIDE DEF row, receipt, payload, key
  <1>11. told' \in {told, told \union {Told(receipt)}} /\ cli' = [cli EXCEPT ![c] = IdleCli]
    BY <1>1 DEF Answered
  <1>12. Recorded'
    <2> HIDE DEF epoch
    <2>1. /\ authority'.epoch = epoch /\ authority'.state = row.state
          /\ authority' # None
      BY <1>4, <1>5, <1>7
    <2>2. /\ row.state = IF epoch % 2 = 1 THEN "ingest_only" ELSE "paused"
          /\ receipt.command = IF epoch = 1 THEN "initialize"
                               ELSE IF epoch % 2 = 0 THEN "pause" ELSE "resume"
      <3>1. payload.command = "pause" \/ payload.command = "resume"
        BY <1>2
      <3>2. CASE payload.command = "pause"
        <4>1. epoch % 2 = 0
          BY <1>9, <1>10, <3>2
        <4> QED BY <1>6, <1>9, <1>10, <3>2, <4>1
      <3>3. CASE payload.command = "resume"
        <4>1. epoch % 2 = 1
          BY <1>9, <1>10, <3>3
        <4> QED BY <1>6, <1>9, <1>10, <3>3, <4>1
      <3> QED BY <3>1, <3>2, <3>3
    <2>3. \A n \in 1..epoch : \E r \in receipts' : r.epoch = n
      BY <1>1, <1>3, <1>6, <1>8
    <2>4. \A r \in receipts' :
             /\ r.epoch <= epoch
             /\ r.command = IF r.epoch = 1 THEN "initialize"
                            ELSE IF r.epoch % 2 = 0 THEN "pause" ELSE "resume"
      <3>1. \A r \in receipts : r.epoch <= epoch
        BY <1>3, <1>8
      <3>2. /\ receipt.epoch <= epoch
            /\ receipt.command = IF receipt.epoch = 1 THEN "initialize"
                                 ELSE IF receipt.epoch % 2 = 0 THEN "pause" ELSE "resume"
        BY <1>3, <1>6, <2>2
      <3> QED BY <1>1, <1>8, <3>1, <3>2
    <2>5. \A q, r \in receipts' :
             q.epoch = r.epoch \/ (q.command = r.command /\ q.key = r.key) => q = r
      <3>1. \A r \in receipts : r.epoch # epoch
        BY <1>3, <1>8
      <3> QED BY <1>1, <1>6, <1>8, <3>1
    <2>6. \A a \in told' : \E r \in receipts' : a = Told(r)
      BY <1>1, <1>8, <1>11
    <2> QED BY <2>1, <2>2, <2>3, <2>4, <2>5, <2>6 DEF Recorded
  <1>13. ManifestAlwaysLoads'
    BY <1>1, <1>4, <1>5 DEF AuthorityInv, ManifestAlwaysLoads, ManifestLoads
  <1>14. receipts' \subseteq Receipts
    BY <1>1, <1>6 DEF AuthorityInv, TypeOK
  <1> QED
    BY <1>1, <1>4, <1>5, <1>11, <1>12, <1>13, <1>14, IdleTyped, OperatorKeeps
    DEF AuthorityInv, TypeOK

\* Both functions answer a key that was used from the receipt they stored.
LEMMA ReplayFacts ==
    ASSUME NEW c \in Clis, ReplayInitialize(c) \/ ReplayTransition(c)
    PROVE  /\ UNCHANGED <<authority, manifest, receipts>> /\ UNCHANGED sessionVars
           /\ \E r \in receipts : Answered(c, r)
PROOF
  BY DEF ReplayInitialize, ReplayTransition, ReceiptOf

LEMMA OperatorStepKeeps ==
    ASSUME AuthorityInv, NEW c \in Clis, OperatorStep(c)
    PROVE  AuthorityInv'
PROOF
  <1>1. CASE \E k \in Keys, a \in Actors, f \in Files : PrepareInitialize(c, k, a, f)
    BY <1>1, PrepareInitializeKeeps
  <1>2. CASE Initialize(c)
    BY <1>2, InitializeKeeps
  <1>3. CASE ReplayInitialize(c) \/ ReplayTransition(c)
    <2>1. PICK r \in receipts : Answered(c, r)
      BY <1>3, ReplayFacts
    <2> QED BY <1>3, <2>1, ReplayFacts, AnswerKeeps DEF Answered
  <1>4. CASE \E m \in {"pause", "resume"}, k \in Keys, a \in Actors :
                ReadAuthority(c, m, k, a)
    BY <1>4, ReadAuthorityKeeps
  <1>5. CASE Transition(c)
    BY <1>5, TransitionKeeps
  <1>6. CASE Refused(c)
    BY <1>6, RefusedKeeps
  <1> QED BY <1>1, <1>2, <1>3, <1>4, <1>5, <1>6 DEF OperatorStep

-----------------------------------------------------------------------------
\* Layer 3: what holds in every state, and what every step obeys.

LEMMA AuthorityInit ==
    ASSUME Init
    PROVE  AuthorityInv
PROOF
  <1>1. /\ authority = None /\ manifest = None /\ receipts = {} /\ told = {} /\ writes = {}
        /\ instances = [s \in Sessions |-> AbsentInstance]
        /\ cli = [c \in Clis |-> IdleCli]
        /\ session = [s \in Sessions |-> [phase |-> "new", seen |-> None, lease |-> NoLease]]
    BY DEF Init
  <1>2. /\ AbsentInstance \in InstanceRow /\ AbsentInstance.lifecycle = "absent"
        /\ NoLease \in Leases
    BY AuthorityAssumption
    DEF AbsentInstance, InstanceRow, RuntimeInstanceLifecycle, NoLease, Leases
  <1>3. TypeOK
    <2>1. session \in [Sessions -> SessionRow]
      BY <1>1, <1>2 DEF SessionRow, SessionPhases
    <2> QED BY <1>1, <1>2, <2>1 DEF TypeOK, SessionRow, Leases
  <1>4. OneHolder
    BY <1>1, <1>2 DEF OneHolder, Holders
  <1>5. ManifestAlwaysLoads
    BY <1>1 DEF ManifestAlwaysLoads
  <1>6. Recorded
    BY <1>1 DEF Recorded
  <1>7. Prepared
    BY <1>1 DEF Prepared, IdleCli
  <1> QED BY <1>3, <1>4, <1>5, <1>6, <1>7 DEF AuthorityInv

LEMMA AuthorityStep ==
    ASSUME AuthorityInv, [Next]_vars
    PROVE  AuthorityInv'
PROOF
  <1>1. ASSUME NEW c \in Clis, OperatorStep(c)
        PROVE  AuthorityInv'
    BY <1>1, OperatorStepKeeps
  <1>2. ASSUME NEW s \in Sessions, SessionStep(s)
        PROVE  AuthorityInv'
    BY <1>2, SessionStepKeeps
  <1>3. CASE UNCHANGED vars
    BY <1>3
    DEF vars, AuthorityInv, TypeOK, OneHolder, Holders, ManifestAlwaysLoads, ManifestLoads,
        Recorded, Prepared
  <1> QED BY <1>1, <1>2, <1>3 DEF Next

\* For any number of operators, processes and instance ids: at most one session
\* of an instance id holds a lease that is not draining, a start under a
\* standing authority finds a manifest it can load, and the receipts record
\* every epoch once (greenfield_register_web_instance,
\* RuntimeManifestRepository.load, greenfield_pause_runtime).
THEOREM AuthorityHolds == Spec => []AuthorityInv
PROOF
  <1>1. Init => AuthorityInv
    BY AuthorityInit
  <1>2. AuthorityInv /\ [Next]_vars => AuthorityInv'
    BY AuthorityStep
  <1> QED BY <1>1, <1>2, PTL DEF Spec

\* An operator's step leaves the sessions and their writes alone.
LEMMA OperatorStepFrame ==
    ASSUME NEW c \in Clis, OperatorStep(c)
    PROVE  UNCHANGED sessionVars
PROOF
  BY DEF OperatorStep, PrepareInitialize, Initialize, ReplayInitialize, ReadAuthority,
         Transition, ReplayTransition, Refused

LEMMA StepBarrier ==
    ASSUME AuthorityInv, Next
    PROVE  PauseIsBarrier
PROOF
  <1> SUFFICES ASSUME NEW w \in writes', w \notin writes, NEW a \in told
               PROVE  a.epoch <= w[2]
    BY DEF PauseIsBarrier
  <1>1. PICK s \in Sessions : FencedWrite(s)
    <2>1. ASSUME NEW c \in Clis, OperatorStep(c)
          PROVE  FALSE
      BY <2>1, OperatorStepFrame DEF sessionVars
    <2>2. ASSUME NEW s \in Sessions, SessionStep(s), ~FencedWrite(s)
          PROVE  FALSE
      BY <2>2 DEF SessionStep, LoadAuthority, Register, RegisterRefused, Heartbeat,
                  HeartbeatFails, Drain, Crash, Lapse
    <2> QED BY <2>1, <2>2 DEF Next
  <1>2. w = <<s, session[s].lease.epoch>> /\ AuthorityStands(s)
    BY <1>1 DEF FencedWrite
  <1>3. w[2] = authority.epoch
    BY <1>2 DEF AuthorityStands
  <1>4. PICK r \in receipts : a = Told(r)
    BY DEF AuthorityInv, Recorded
  <1>5. a.epoch = r.epoch /\ r.epoch <= authority.epoch
    BY <1>4 DEF Told, AuthorityInv, Recorded
  <1> QED BY <1>3, <1>5

LEMMA StepSilent ==
    ASSUME AuthorityInv, Next
    PROVE  ReplacedStaysSilent
PROOF
  <1> SUFFICES ASSUME NEW s \in Sessions, instances[s].lifecycle = "draining"
               PROVE  /\ instances'[s] = instances[s]
                      /\ \A w \in writes' \ writes : w[1] # s
    BY DEF ReplacedStaysSilent
  <1>1. ~instances[s].live
    BY DEF AuthorityInv, OneHolder
  <1>2. instances[s].lifecycle # "active" /\ instances[s] # AbsentInstance
    BY DEF AbsentInstance
  <1>3. ASSUME NEW c \in Clis, OperatorStep(c)
        PROVE  UNCHANGED <<instances, writes>>
    BY <1>3, OperatorStepFrame DEF sessionVars
  <1>4. ASSUME NEW t \in Sessions, SessionStep(t)
        PROVE  /\ instances'[s] = instances[s]
               /\ \A w \in writes' \ writes : w[1] # s
    <2>1. CASE LoadAuthority(t) \/ RegisterRefused(t) \/ HeartbeatFails(t) \/ Crash(t)
      BY <2>1 DEF LoadAuthority, RegisterRefused, HeartbeatFails, Crash
    <2>2. CASE Register(t)
      <3>1. t # s
        BY <1>2, <2>2 DEF Register, Registrable
      <3>2. s \notin Holders(t)
        BY <1>2 DEF Holders
      <3> QED BY <2>2, <3>1, <3>2 DEF Register
    <2>3. CASE Heartbeat(t)
      <3>1. t # s
        BY <1>2, <2>3 DEF Heartbeat, LeaseCurrent
      <3> QED BY <2>3, <3>1, SessionTypes DEF Heartbeat
    <2>4. CASE FencedWrite(t)
      <3>1. t # s
        BY <1>2, <2>4 DEF FencedWrite, LeaseCurrent
      <3> QED BY <2>4, <3>1 DEF FencedWrite
    <2>5. CASE Drain(t)
      <3>1. t # s
        BY <1>2, <2>5 DEF Drain, LeaseCurrent
      <3> QED BY <2>5, <3>1, SessionTypes DEF Drain
    <2>6. CASE Lapse(t)
      <3>1. t # s
        BY <1>1, <2>6 DEF Lapse
      <3> QED BY <2>6, <3>1, SessionTypes DEF Lapse
    <2> QED BY <1>4, <2>1, <2>2, <2>3, <2>4, <2>5, <2>6 DEF SessionStep
  <1> QED BY <1>3, <1>4 DEF Next

\* Once an operator has been told of a transition no session of an earlier epoch
\* writes, and a session whose place was taken neither writes nor renews: the
\* checks that greenfield_commit_sync_page, greenfield_heartbeat_web_instance and
\* greenfield_drain_web_instance repeat are enough, for any number of processes.
THEOREM SessionsAreObedient == Spec => SessionsObey
PROOF
  <1>1. AuthorityInv /\ [Next]_vars => [PauseIsBarrier /\ ReplacedStaysSilent]_vars
    BY StepBarrier, StepSilent
  <1> QED BY <1>1, AuthorityHolds, PTL DEF Spec, SessionsObey

-----------------------------------------------------------------------------
\* Layer 4: the receipts implement the ledger.

\* The ledger that a set of receipts amounts to up to an epoch.
ViewOf(N, R) == [n \in 1..N |-> Told(CHOOSE r \in R : r.epoch = n).entry]

\* One receipt for every epoch.
Complete(N, R) ==
    /\ N \in Nat /\ R \subseteq Receipts
    /\ \A n \in 1..N : \E r \in R : r.epoch = n
    /\ \A r \in R : r.epoch \in 1..N
    /\ \A q, r \in R : q.epoch = r.epoch => q = r

LEMMA ToldEntry ==
    ASSUME NEW r \in Receipts
    PROVE  /\ Told(r).entry \in Ledger!Entries /\ Told(r).epoch = r.epoch
           /\ Told(r).entry.command = r.command /\ Told(r).entry.key = r.key
           /\ Told(r) = Ledger!Answer(Told(r).entry, r.epoch)
PROOF
  <1>1. r.command \in Commands /\ r.key \in Keys /\ r.payload.actor \in Actors
    BY DEF Receipts, Payloads
  <1> QED BY <1>1 DEF Told, Ledger!Entries, Ledger!Commands, Commands, Ledger!Answer

LEMMA ViewAt ==
    ASSUME NEW N, NEW R, Complete(N, R)
    PROVE  /\ ViewOf(N, R) \in Seq(Ledger!Entries)
           /\ Len(ViewOf(N, R)) = N /\ DOMAIN ViewOf(N, R) = 1..N
           /\ \A r \in R : ViewOf(N, R)[r.epoch] = Told(r).entry
PROOF
  <1>1. \A r \in R : (CHOOSE q \in R : q.epoch = r.epoch) = r
    BY DEF Complete
  <1>2. ASSUME NEW n \in 1..N
        PROVE  Told(CHOOSE r \in R : r.epoch = n).entry \in Ledger!Entries
    <2>1. PICK r \in R : r.epoch = n
      BY DEF Complete
    <2>2. (CHOOSE q \in R : q.epoch = n) = r
      BY <1>1, <2>1
    <2>3. r \in Receipts
      BY DEF Complete
    <2> QED BY <2>2, <2>3, ToldEntry
  <1>3. ViewOf(N, R) \in [1..N -> Ledger!Entries]
    BY <1>2 DEF ViewOf
  <1>4. N \in Nat
    BY DEF Complete
  <1>5. ViewOf(N, R) \in Seq(Ledger!Entries)
    BY <1>3, <1>4, SeqDef
  <1>6. DOMAIN ViewOf(N, R) = 1..N
    BY DEF ViewOf
  <1>7. Len(ViewOf(N, R)) = N
    BY <1>4, <1>5, <1>6, LenProperties
  <1>8. ASSUME NEW r \in R
        PROVE  ViewOf(N, R)[r.epoch] = Told(r).entry
    <2>1. r.epoch \in 1..N
      BY DEF Complete
    <2>2. ViewOf(N, R)[r.epoch] = Told(CHOOSE q \in R : q.epoch = r.epoch).entry
      BY <2>1 DEF ViewOf
    <2> QED BY <1>1, <2>2
  <1> QED BY <1>5, <1>6, <1>7, <1>8

\* The next receipt is the next entry.
LEMMA ViewAppend ==
    \A N, R : Complete(N, R) =>
      \A r \in Receipts : r.epoch = N + 1 =>
        /\ Complete(N + 1, R \union {r})
        /\ ViewOf(N + 1, R \union {r}) = Append(ViewOf(N, R), Told(r).entry)
PROOF
  <1> SUFFICES ASSUME NEW N, NEW R, Complete(N, R), NEW r \in Receipts, r.epoch = N + 1
               PROVE  /\ Complete(N + 1, R \union {r})
                      /\ ViewOf(N + 1, R \union {r}) = Append(ViewOf(N, R), Told(r).entry)
    OBVIOUS
  <1> DEFINE S == R \union {r}
             e == Told(r).entry
  <1>1. N \in Nat /\ \A q \in R : q.epoch \in 1..N
    BY DEF Complete
  <1>2. Complete(N + 1, S)
    <2>1. N + 1 \in Nat /\ S \subseteq Receipts
      BY <1>1 DEF Complete
    <2>2. \A n \in 1..(N + 1) : \E q \in S : q.epoch = n
      BY <1>1 DEF Complete
    <2>3. \A q \in S : q.epoch \in 1..(N + 1)
      BY <1>1
    <2>4. \A p, q \in S : p.epoch = q.epoch => p = q
      BY <1>1 DEF Complete
    <2> QED BY <2>1, <2>2, <2>3, <2>4 DEF Complete
  <1>3. e \in Ledger!Entries
    BY ToldEntry
  <1> DEFINE old == ViewOf(N, R)
             new == ViewOf(N + 1, S)
  <1>4. /\ old \in Seq(Ledger!Entries) /\ Len(old) = N
        /\ \A q \in R : old[q.epoch] = Told(q).entry
    BY ViewAt
  <1>5. /\ new \in Seq(Ledger!Entries) /\ Len(new) = N + 1
        /\ \A q \in S : new[q.epoch] = Told(q).entry
    <2> HIDE DEF S
    <2> QED BY <1>2, ViewAt
  <1> HIDE DEF old, new, e
  <1>6. /\ Append(old, e) \in Seq(Ledger!Entries) /\ Len(Append(old, e)) = N + 1
        /\ \A n \in 1..N : Append(old, e)[n] = old[n]
        /\ Append(old, e)[N + 1] = e
    BY <1>3, <1>4, AppendProperties
  <1>7. ASSUME NEW n \in 1..(N + 1)
        PROVE  new[n] = Append(old, e)[n]
    <2>1. CASE n = N + 1
      BY <1>5, <1>6, <2>1 DEF e
    <2>2. CASE n \in 1..N
      <3>1. PICK q \in R : q.epoch = n
        BY <2>2 DEF Complete
      <3> QED BY <1>4, <1>5, <1>6, <2>2, <3>1
    <2>3. n = N + 1 \/ n \in 1..N
      BY <1>1
    <2> QED BY <2>1, <2>2, <2>3
  <1>8. new = Append(old, e)
    BY <1>5, <1>6, <1>7, SeqEqual
  <1> QED BY <1>2, <1>8 DEF old, new, e

\* The height of the ledger.
Height == IF authority = None THEN 0 ELSE authority.epoch

LEMMA ViewComplete ==
    ASSUME AuthorityInv
    PROVE  Complete(Height, receipts) /\ LedgerView = ViewOf(Height, receipts)
PROOF
  <1>1. LedgerView = ViewOf(Height, receipts)
    BY DEF LedgerView, ViewOf, Height
  <1>2. \A r \in receipts : r.epoch \in 1..BigintMax
    BY DEF AuthorityInv, TypeOK, Receipts
  <1>3. CASE authority = None
    <2>1. receipts = {}
      BY <1>3 DEF AuthorityInv, Recorded
    <2>2. Height = 0
      BY <1>3 DEF Height
    <2> QED BY <1>1, <2>1, <2>2 DEF Complete
  <1>4. CASE authority # None
    <2>1. authority.epoch \in 1..BigintMax
      BY <1>4 DEF AuthorityInv, TypeOK, AuthorityRow
    <2>2. Height = authority.epoch /\ receipts \subseteq Receipts
      BY <1>4 DEF Height, AuthorityInv, TypeOK
    <2>3. /\ \A n \in 1..authority.epoch : \E r \in receipts : r.epoch = n
          /\ \A r \in receipts : r.epoch <= authority.epoch
          /\ \A q, r \in receipts : q.epoch = r.epoch => q = r
      BY <1>4 DEF AuthorityInv, Recorded
    <2>4. \A r \in receipts : r.epoch \in 1..authority.epoch
      BY <1>2, <2>1, <2>3, AuthorityAssumption
    <2> QED BY <1>1, <2>1, <2>2, <2>3, <2>4, AuthorityAssumption DEF Complete
  <1> QED BY <1>1, <1>3, <1>4

\* A step that applies a command is the ledger's Apply.
LEMMA AppliesEntry ==
    ASSUME AuthorityInv, NEW r \in Receipts, r.epoch = Height + 1,
           receipts' = receipts \union {r},
           authority' # None, authority'.epoch = Height + 1,
           told' \in {told, told \union {Told(r)}},
           \A q \in receipts : ~(q.command = r.command /\ q.key = r.key),
           r.command = IF Height = 0 THEN "initialize"
                       ELSE IF Height % 2 = 1 THEN "pause" ELSE "resume"
    PROVE  Ledger!Next
PROOF
  <1> DEFINE e == Told(r).entry
  <1>1. /\ Complete(Height, receipts) /\ LedgerView = ViewOf(Height, receipts)
        /\ LedgerView \in Seq(Ledger!Entries)
        /\ Len(LedgerView) = Height /\ DOMAIN LedgerView = 1..Height
        /\ \A q \in receipts : LedgerView[q.epoch] = Told(q).entry
    BY ViewComplete, ViewAt
  <1>2. Height' = Height + 1
    BY DEF Height
  <1>3. LedgerView' = ViewOf(Height', receipts')
    BY DEF LedgerView, ViewOf, Height
  <1>4. LedgerView' = Append(LedgerView, e)
    <2>1. Complete(Height, receipts)
      BY <1>1
    <2>2. ViewOf(Height + 1, receipts \union {r})
            = Append(ViewOf(Height, receipts), Told(r).entry)
      <3>1. \A q \in Receipts : q.epoch = Height + 1 =>
              /\ Complete(Height + 1, receipts \union {q})
              /\ ViewOf(Height + 1, receipts \union {q})
                   = Append(ViewOf(Height, receipts), Told(q).entry)
        BY <2>1, ViewAppend, Zenon
      <3> QED BY <3>1
    <2>3. ViewOf(Height', receipts') = ViewOf(Height + 1, receipts \union {r})
      BY <1>2, Zenon
    <2> QED BY <1>1, <1>3, <2>2, <2>3
  <1>5. /\ e \in Ledger!Entries /\ e.command = r.command /\ e.key = r.key
        /\ Told(r) = Ledger!Answer(e, r.epoch)
    BY ToldEntry
  <1>6. Height \in Nat
    BY <1>1 DEF Complete
  <1>7. e.command = Ledger!NextCommand(LedgerView)
    <2>1. LedgerView = <<>> <=> Height = 0
      BY <1>1, <1>6, EmptySeq
    <2> QED BY <1>1, <1>5, <2>1 DEF Ledger!NextCommand
  <1>8. ~Ledger!InLedger(e)
    <2> SUFFICES ASSUME NEW n \in DOMAIN LedgerView,
                        LedgerView[n].command = e.command, LedgerView[n].key = e.key
                 PROVE  FALSE
      BY DEF Ledger!InLedger
    <2>1. PICK q \in receipts : q.epoch = n
      BY <1>1 DEF Complete
    <2>2. q \in Receipts
      BY <1>1 DEF Complete
    <2>3. LedgerView[n].command = q.command /\ LedgerView[n].key = q.key
      BY <1>1, <2>1, <2>2, ToldEntry
    <2> QED BY <1>5, <2>3
  <1>9. told' \in {told, told \union {Ledger!Answer(e, Len(LedgerView) + 1)}}
    BY <1>1, <1>5
  <1>10. Ledger!Apply(e)
    BY <1>4, <1>7, <1>8, <1>9 DEF Ledger!Apply
  <1> QED BY <1>5, <1>10 DEF Ledger!Next

LEMMA InitializeApplies ==
    ASSUME AuthorityInv, NEW c \in Clis, Initialize(c)
    PROVE  Ledger!Next
PROOF
  <1> DEFINE r == [command |-> "initialize", key |-> cli[c].key, payload |-> cli[c].payload,
                   epoch |-> 1, version |-> 1]
  <1>1. /\ cli[c].phase = "initialize" /\ authority = None /\ receipts = {}
        /\ receipts' = {r} /\ Answered(c, r)
        /\ authority' = [state |-> "ingest_only", epoch |-> 1, version |-> 1,
                         contract |-> cli[c].payload.contract]
    BY DEF Initialize
  <1>2. r \in Receipts /\ r.epoch = 1 /\ r.command = "initialize"
    BY <1>1, CliFacts, AuthorityAssumption DEF Receipts, Commands
  <1>3. Height = 0 /\ authority' # None /\ authority'.epoch = 1
    BY <1>1 DEF Height, None
  <1>4. receipts' = receipts \union {r} /\ told' \in {told, told \union {Told(r)}}
    BY <1>1 DEF Answered
  <1> HIDE DEF r
  <1> QED BY <1>1, <1>2, <1>3, <1>4, AppliesEntry

LEMMA TransitionApplies ==
    ASSUME AuthorityInv, NEW c \in Clis, Transition(c)
    PROVE  Ledger!Next
PROOF
  <1> DEFINE key == cli[c].key
             payload == cli[c].payload
             epoch == payload.epoch + 1
             version == payload.version + 1
             r == [command |-> payload.command, key |-> key, payload |-> payload,
                   epoch |-> epoch, version |-> version]
  <1>1. /\ cli[c].phase = "submit" /\ ReceiptOf(payload.command, key) = {}
        /\ authority # None /\ authority.state = Source(payload.command)
        /\ authority.epoch = payload.epoch /\ authority.version = payload.version
        /\ receipts' = receipts \union {r} /\ Answered(c, r)
        /\ authority' = [authority EXCEPT !.state = Target(payload.command),
                                          !.epoch = @ + 1, !.version = @ + 1]
    BY DEF Transition
  <1>2. /\ key \in Keys /\ payload \in Payloads /\ payload.command \in {"pause", "resume"}
        /\ payload.epoch < BigintMax - 1 /\ payload.version < BigintMax - 1
        /\ authority \in AuthorityRow
    BY <1>1, CliFacts DEF AuthorityInv, Prepared, TypeOK
  <1>3. /\ authority.epoch \in 1..BigintMax
        /\ epoch \in 1..BigintMax /\ version \in 1..BigintMax
        /\ epoch = authority.epoch + 1 /\ Height = authority.epoch
    BY <1>1, <1>2, AuthorityAssumption DEF AuthorityRow, Height
  <1>4. r \in Receipts /\ r.epoch = epoch /\ r.command = payload.command /\ r.key = key
    <2> HIDE DEF epoch, version, payload, key
    <2> QED BY <1>2, <1>3 DEF Receipts, Commands
  <1>5. \A q \in receipts : ~(q.command = r.command /\ q.key = r.key)
    <2> HIDE DEF r
    <2> QED BY <1>1, <1>4 DEF ReceiptOf
  <1>6. authority'.epoch = epoch
    BY <1>1, <1>2 DEF AuthorityRow
  <1>7. authority' # None
    <2>1. authority'.state = Target(payload.command)
      BY <1>1, <1>2 DEF AuthorityRow
    <2> QED BY <2>1 DEF Target, None
  <1>8. payload.command = IF Height = 0 THEN "initialize"
                          ELSE IF Height % 2 = 1 THEN "pause" ELSE "resume"
    <2>1. authority.state = IF authority.epoch % 2 = 1 THEN "ingest_only" ELSE "paused"
      BY <1>1 DEF AuthorityInv, Recorded
    <2> HIDE DEF payload
    <2> QED BY <1>1, <1>2, <1>3, <2>1, AuthorityAssumption DEF Source
  <1>9. told' \in {told, told \union {Told(r)}}
    BY <1>1 DEF Answered
  <1>10. r.command = IF Height = 0 THEN "initialize"
                     ELSE IF Height % 2 = 1 THEN "pause" ELSE "resume"
    <2> HIDE DEF r, payload
    <2> QED BY <1>4, <1>8
  <1>11. r.epoch = Height + 1 /\ authority'.epoch = Height + 1
    <2> HIDE DEF r, epoch
    <2> QED BY <1>3, <1>4, <1>6
  <1> HIDE DEF r, payload, epoch, version, key
  <1> QED BY <1>1, <1>4, <1>5, <1>7, <1>9, <1>10, <1>11, AppliesEntry

\* A step that leaves the tables is a replay or none at all.
LEMMA AnswerReplays ==
    ASSUME AuthorityInv, UNCHANGED <<authority, receipts>>,
           \/ told' = told
           \/ \E r \in receipts : told' = told \union {Told(r)}
    PROVE  [Ledger!Next]_(Ledger!ledgerVars)
PROOF
  <1>1. LedgerView' = LedgerView
    BY DEF LedgerView
  <1>2. CASE told' = told
    BY <1>1, <1>2 DEF Ledger!ledgerVars
  <1>3. ASSUME NEW r \in receipts, told' = told \union {Told(r)}
        PROVE  Ledger!Next
    <2>1. /\ Complete(Height, receipts) /\ DOMAIN LedgerView = 1..Height
          /\ LedgerView[r.epoch] = Told(r).entry
      BY ViewComplete, ViewAt
    <2>2. r \in Receipts /\ r.epoch \in DOMAIN LedgerView
      BY <2>1 DEF Complete
    <2>3. Told(r) = Ledger!Answer(LedgerView[r.epoch], r.epoch)
      BY <2>1, <2>2, ToldEntry
    <2>4. Ledger!Replay(r.epoch)
      BY <1>1, <1>3, <2>3 DEF Ledger!Replay
    <2> QED BY <2>2, <2>4 DEF Ledger!Next
  <1> QED BY <1>2, <1>3

LEMMA StepRefines ==
    ASSUME AuthorityInv, [Next]_vars
    PROVE  [Ledger!Next]_(Ledger!ledgerVars)
PROOF
  <1>1. ASSUME NEW c \in Clis, OperatorStep(c)
        PROVE  [Ledger!Next]_(Ledger!ledgerVars)
    <2>1. CASE \/ \E k \in Keys, a \in Actors, f \in Files : PrepareInitialize(c, k, a, f)
               \/ \E m \in {"pause", "resume"}, k \in Keys, a \in Actors :
                     ReadAuthority(c, m, k, a)
               \/ Refused(c)
      BY <2>1, AnswerReplays DEF PrepareInitialize, ReadAuthority, Refused
    <2>2. CASE Initialize(c)
      BY <2>2, InitializeApplies
    <2>3. CASE Transition(c)
      BY <2>3, TransitionApplies
    <2>4. CASE ReplayInitialize(c) \/ ReplayTransition(c)
      BY <2>4, ReplayFacts, AnswerReplays DEF Answered
    <2> QED BY <1>1, <2>1, <2>2, <2>3, <2>4 DEF OperatorStep
  <1>2. ASSUME NEW s \in Sessions, SessionStep(s)
        PROVE  [Ledger!Next]_(Ledger!ledgerVars)
    BY <1>2, SessionStepKeeps, AnswerReplays DEF operatorVars
  <1>3. CASE UNCHANGED vars
    BY <1>3, AnswerReplays DEF vars
  <1> QED BY <1>1, <1>2, <1>3 DEF Next

\* The receipts, the compare and swap and the replays of
\* greenfield_initialize_runtime, greenfield_pause_runtime and
\* greenfield_resume_ingress implement the ledger, for every number of operators
\* and keys: whatever answers are lost, no command is applied twice and no
\* operator is told a place that its command does not have.
THEOREM ReceiptsImplementLedger == Spec => LedgerImplemented
PROOF
  <1>1. Init => Ledger!Init
    <2> SUFFICES ASSUME Init
                 PROVE  LedgerView = <<>> /\ told = {}
      BY DEF Ledger!Init
    <2>1. AuthorityInv /\ authority = None /\ told = {}
      BY AuthorityInit DEF Init
    <2>2. Height = 0
      BY <2>1 DEF Height
    <2>3. LedgerView \in Seq(Ledger!Entries) /\ Len(LedgerView) = 0
      BY <2>1, <2>2, ViewComplete, ViewAt
    <2> QED BY <2>1, <2>3, EmptySeq
  <1>2. AuthorityInv /\ [Next]_vars => [Ledger!Next]_(Ledger!ledgerVars)
    BY StepRefines
  <1> QED BY <1>1, <1>2, AuthorityHolds, PTL DEF Spec, LedgerImplemented, Ledger!Spec

-----------------------------------------------------------------------------
\* The generations of a pipeline, beside the authority.

\* ownership.py, repository.py: in the composed system too, one generation takes
\* in mail, what is under way is in its own generation's hands, and a retired
\* generation is done.
THEOREM OwnershipHolds == MCSpec => []OwnershipInv
PROOF
  <1> DEFINE Owned == Pipeline!OwnershipInv
  <1> USE PipelineAssumption
  <1>1. MCInit => Owned
    BY Pipeline!OwnershipInit DEF MCInit
  <1>2. Owned /\ [MCNext]_mcVars => Owned'
    <2> SUFFICES ASSUME Owned, [MCNext]_mcVars PROVE Owned'
      OBVIOUS
    <2>1. [Pipeline!Next]_(Pipeline!vars)
      BY DEF MCNext, mcVars, pipelineVars, Pipeline!vars
    <2> QED BY <2>1, Pipeline!OwnershipStep
  <1>3. Owned => OwnershipInv
    BY DEF OwnershipInv
  <1> QED BY <1>1, <1>2, <1>3, PTL DEF MCSpec
=============================================================================
