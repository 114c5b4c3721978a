-------------------------- MODULE MCPollingIngress ---------------------------
(* Instances of PollingIngress for TLC. *)
EXTENDS PollingIngress, TLC

CONSTANTS p1, p2, e1, e2

\* A process and its successor; two deployments of the same account.
OneInstance == [p \in Pollers |-> "web"]
OwnInstance == [p \in Pollers |-> p]

Change(k, e) == [kind |-> k, id |-> e]

\* One message through its life, and one that is only marked read.
Mailbox == {Change("create", e1), Change("delete", e1),
            Change("read_flag_change", e2)}

SmallMailbox == {Change("create", e1), Change("read_flag_change", e2)}

=============================================================================
