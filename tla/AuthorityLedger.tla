--------------------------- MODULE AuthorityLedger ---------------------------
(***************************************************************************)
(* What the runtime authority of an account promises its operators: one    *)
(* ledger of commands, opened by an initialization and then alternating    *)
(* between pause and resume.  A command with one idempotency key enters    *)
(* the ledger at most once, and an operator is only ever told the position *)
(* at which the command really stands, however often it was submitted and  *)
(* whichever answers were lost.                                            *)
(***************************************************************************)
EXTENDS Naturals, Sequences

CONSTANTS Keys, Actors

Commands == {"initialize", "pause", "resume"}

VARIABLES
    ledger, \* the commands that took effect, in order
    told    \* the answers operators received

ledgerVars == <<ledger, told>>

Entries == [command : Commands, key : Keys, actor : Actors]

\* The command that may come next: ingress is open at odd positions.
NextCommand(l) ==
    IF l = <<>> THEN "initialize"
    ELSE IF Len(l) % 2 = 1 THEN "pause" ELSE "resume"

InLedger(e) ==
    \E n \in DOMAIN ledger : ledger[n].command = e.command /\ ledger[n].key = e.key

Answer(e, n) == [entry |-> e, epoch |-> n]

Init == ledger = <<>> /\ told = {}

\* A command takes effect, and its answer arrives or is lost.
Apply(e) ==
    /\ e.command = NextCommand(ledger)
    /\ ~InLedger(e)
    /\ ledger' = Append(ledger, e)
    /\ told' \in {told, told \union {Answer(e, Len(ledger) + 1)}}

\* A command submitted again is answered from the ledger.
Replay(n) ==
    /\ told' = told \union {Answer(ledger[n], n)}
    /\ UNCHANGED ledger

Next == \/ \E e \in Entries : Apply(e)
        \/ \E n \in DOMAIN ledger : Replay(n)

Spec == Init /\ [][Next]_ledgerVars
=============================================================================
