---------------------------- MODULE ContentStore ----------------------------
(***************************************************************************)
(* The encrypted content store (storage/encrypted_files.py) and the claim  *)
(* of a stored object in its mail's row (_ensure_durable_content_ref).     *)
(*                                                                         *)
(* Each mail is stored by one attempt at most: the inbox gives a mail with *)
(* an authorised effect to a person.  Attempts of different mails overlap, *)
(* because put_email runs in a thread that outlives a cancelled attempt    *)
(* and because an old process may still be at work beside the new one.     *)
(*                                                                         *)
(* The file system is what POSIX promises: a name is safe from a power     *)
(* loss once its directory has been fsynced, bytes once their file has     *)
(* been, and the kernel may write anything back earlier.  The root comes   *)
(* with the image; the account's directory is made by the first write.     *)
(***************************************************************************)
EXTENDS Naturals

CONSTANTS
    Mails,
    MaxPowerLoss   \* bound: how often the machine loses its power

\* What the model assumes of its constants.
StoreAssumption == MaxPowerLoss \in Nat

VARIABLES
    pc,            \* the attempt of each mail
    wanted,        \* the attempt still waits for its put_email thread
    account,       \* the account directory: "absent", "cached" or "durable"
    name,          \* the object's name in it: "none", "temp", "cached" or "durable"
    data,          \* the object's bytes: "none", "cached", "durable" or "torn"
    ref,           \* emails_log.content_ref is set
    losses         \* power losses so far

vars == <<pc, wanted, account, name, data, ref, losses>>
files == <<account, name, data>>

Writing == {"authorized", "made", "opened", "written", "synced", "replaced"}
Steps == Writing \cup {"new", "logged", "stored", "claimed", "done", "failed"}

Init ==
    /\ pc = [m \in Mails |-> "new"]
    /\ wanted = [m \in Mails |-> TRUE]
    /\ account \in {"absent", "durable"}
    /\ name = [m \in Mails |-> "none"]
    /\ data = [m \in Mails |-> "none"]
    /\ ref = [m \in Mails |-> FALSE]
    /\ losses = 0

Goto(m, from, to) == pc[m] = from /\ pc' = [pc EXCEPT ![m] = to]

\* load_email: the file opens, decrypts under its own reference, hashes to
\* the recorded digest and parses as an envelope without a byte left over.
Resolves(m) ==
    /\ account # "absent"
    /\ name[m] \in {"cached", "durable"}
    /\ data[m] \in {"cached", "durable"}

-----------------------------------------------------------------------------
(* An attempt.                                                             *)

LogInitialEmail(m) ==
    /\ Goto(m, "new", "logged")
    /\ UNCHANGED <<wanted, files, ref, losses>>

\* No reference is in the row yet; from here on the mail is tried only once.
AuthorizePut(m) ==
    /\ Goto(m, "logged", "authorized")
    /\ UNCHANGED <<wanted, files, ref, losses>>

\* The writer that made the directory owes its parent an fsync.
OpenAccountDirectory(m) ==
    /\ IF account = "absent"
       THEN Goto(m, "authorized", "made") /\ account' = "cached"
       ELSE Goto(m, "authorized", "opened") /\ UNCHANGED account
    /\ UNCHANGED <<wanted, name, data, ref, losses>>

SyncRoot(m) ==
    /\ Goto(m, "made", "opened")
    /\ account' = "durable"
    /\ UNCHANGED <<wanted, name, data, ref, losses>>

WriteTemp(m) ==
    /\ Goto(m, "opened", "written")
    /\ name' = [name EXCEPT ![m] = "temp"]
    /\ data' = [data EXCEPT ![m] = "cached"]
    /\ UNCHANGED <<wanted, account, ref, losses>>

SyncTemp(m) ==
    /\ Goto(m, "written", "synced")
    /\ data' = [data EXCEPT ![m] = "durable"]
    /\ UNCHANGED <<wanted, account, name, ref, losses>>

Replace(m) ==
    /\ Goto(m, "synced", "replaced")
    /\ name' = [name EXCEPT ![m] = "cached"]
    /\ UNCHANGED <<wanted, account, data, ref, losses>>

SyncAccount(m) ==
    /\ Goto(m, "replaced", "stored")
    /\ name' = [name EXCEPT ![m] = "durable"]
    /\ UNCHANGED <<wanted, account, data, ref, losses>>

\* set_content_ref_if_absent, committed and answered.
Claim(m) ==
    /\ wanted[m]
    /\ Goto(m, "stored", "claimed")
    /\ ref' = [ref EXCEPT ![m] = TRUE]
    /\ UNCHANGED <<wanted, files, losses>>

\* As ClaimRaises, removing the object as if it had not been claimed.
ClaimRaisesAndDeletes(m) ==
    /\ wanted[m]
    /\ Goto(m, "stored", "failed")
    /\ \E committed \in BOOLEAN : ref' = [ref EXCEPT ![m] = committed]
    /\ name' = [name EXCEPT ![m] = "none"]
    /\ data' = [data EXCEPT ![m] = "none"]
    /\ UNCHANGED <<wanted, account, losses>>

\* An error in place of the answer: whether it was committed is not known,
\* so the guarded attempt raises and leaves the object where it is.
ClaimRaises(m) ==
    /\ wanted[m]
    /\ Goto(m, "stored", "failed")
    /\ \E committed \in BOOLEAN : ref' = [ref EXCEPT ![m] = committed]
    /\ UNCHANGED <<wanted, files, losses>>

\* The row's reference is read back and the mail hydrated from it.
LoadEmail(m) ==
    /\ Goto(m, "claimed", IF Resolves(m) THEN "done" ELSE "failed")
    /\ UNCHANGED <<wanted, files, ref, losses>>

\* A call of the thread raises.  A temporary file is unlinked if that still
\* works; what os.replace has renamed stays.
PutRaises(m) ==
    /\ pc[m] \in Writing
    /\ pc' = [pc EXCEPT ![m] = "failed"]
    /\ \/ UNCHANGED <<name, data>>
       \/ /\ name[m] = "temp"
          /\ name' = [name EXCEPT ![m] = "none"]
          /\ data' = [data EXCEPT ![m] = "none"]
    /\ UNCHANGED <<wanted, account, ref, losses>>

\* The attempt is cancelled; its thread writes on, and nobody claims the result.
Cancel(m) ==
    /\ pc[m] \in Writing \cup {"stored"}
    /\ wanted[m]
    /\ wanted' = [wanted EXCEPT ![m] = FALSE]
    /\ UNCHANGED <<pc, files, ref, losses>>

-----------------------------------------------------------------------------
(* The machine.                                                            *)

\* What ends with its process: a mail that had no effect yet is tried again.
Ended(killed) ==
    [m \in Mails |-> IF m \in killed /\ pc[m] \in Writing \cup {"stored", "claimed"}
                     THEN "failed" ELSE pc[m]]

\* A process ends; what it wrote is in the kernel's hands.
Crash(killed) ==
    /\ pc' = Ended(killed)
    /\ UNCHANGED <<wanted, files, ref, losses>>

\* The kernel writes back a name or a file on its own account.
WriteBack ==
    /\ \/ account = "cached" /\ account' = "durable" /\ UNCHANGED <<name, data>>
       \/ \E m \in Mails :
            /\ name[m] = "cached"
            /\ name' = [name EXCEPT ![m] = "durable"]
            /\ UNCHANGED <<account, data>>
       \/ \E m \in Mails :
            /\ data[m] = "cached"
            /\ data' = [data EXCEPT ![m] = "durable"]
            /\ UNCHANGED <<account, name>>
    /\ UNCHANGED <<pc, wanted, ref, losses>>

\* kept, whole: the mails whose cached name, whose cached bytes made it to the
\* disk in time.  A name that did not is its old one, bytes that did not are
\* torn, and a lost directory takes all with it.
PowerLoss(kept, whole, directory) ==
    /\ losses < MaxPowerLoss
    /\ losses' = losses + 1
    /\ account' = IF account = "cached" THEN (IF directory THEN "durable" ELSE "absent")
                                        ELSE account
    /\ LET lost == account' = "absent"
       IN /\ name' = [m \in Mails |->
                        IF lost THEN "none"
                        ELSE IF name[m] = "cached" THEN (IF m \in kept THEN "durable" ELSE "temp")
                        ELSE name[m]]
          /\ data' = [m \in Mails |->
                        IF lost THEN "none"
                        ELSE IF data[m] = "cached" THEN (IF m \in whole THEN "durable" ELSE "torn")
                        ELSE data[m]]
    /\ pc' = Ended(Mails)
    /\ UNCHANGED <<wanted, ref>>

-----------------------------------------------------------------------------
Attempt(m) ==
    \/ LogInitialEmail(m) \/ AuthorizePut(m) \/ OpenAccountDirectory(m) \/ SyncRoot(m)
    \/ WriteTemp(m) \/ SyncTemp(m) \/ Replace(m) \/ SyncAccount(m)
    \/ Claim(m) \/ ClaimRaises(m) \/ LoadEmail(m) \/ PutRaises(m) \/ Cancel(m)

Next ==
    \/ \E m \in Mails : Attempt(m)
    \/ \E killed \in SUBSET Mails : Crash(killed)
    \/ WriteBack
    \/ \E kept, whole \in SUBSET Mails, directory \in BOOLEAN : PowerLoss(kept, whole, directory)

Spec == Init /\ [][Next]_vars

-----------------------------------------------------------------------------
(* Properties.                                                             *)

\* Every variable has its shape, and a name lies in a directory that exists.
TypeOK ==
    /\ pc \in [Mails -> Steps]
    /\ wanted \in [Mails -> BOOLEAN]
    /\ account \in {"absent", "cached", "durable"}
    /\ name \in [Mails -> {"none", "temp", "cached", "durable"}]
    /\ data \in [Mails -> {"none", "cached", "durable", "torn"}]
    /\ ref \in [Mails -> BOOLEAN]
    /\ losses \in 0..MaxPowerLoss
    /\ account = "absent" => \A m \in Mails : name[m] = "none"

\* _ensure_durable_content_ref, "Persist content and its typed DB ref before
\* any downstream operation": a reference in the database is to an object
\* that load_email can read, whatever was cancelled, failed or crashed.
RefResolves == \A m \in Mails : ref[m] => Resolves(m)

\* What an attempt has secured before it goes on: the bytes before the rename,
\* the name before the claim.  A reference is to an object secured for good.
Secured ==
    \A m \in Mails :
        /\ pc[m] \in (Writing \ {"authorized"}) \cup {"stored", "claimed"} => account # "absent"
        /\ pc[m] \in {"synced", "replaced", "stored", "claimed"} => data[m] = "durable"
        /\ pc[m] \in {"stored", "claimed"} => name[m] = "durable"
        /\ ref[m] => /\ pc[m] \in {"claimed", "done", "failed"}
                     /\ account # "absent" /\ name[m] = "durable" /\ data[m] = "durable"

\* What holds of the store in every state: its shape, and that the database
\* refers to no object load_email cannot read.
StoreInv == TypeOK /\ Secured /\ RefResolves
=============================================================================
