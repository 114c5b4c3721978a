--------------------------- MODULE MCDurableInbox ---------------------------
(* Instances of DurableInbox for TLC. *)
EXTENDS DurableInbox, TLC

CONSTANTS e1, c1, c2, d1, u1, w1, w2, s1, s2

\* One email, one CREATE and the DELETE that races it, two processes.
RaceEmail == [r \in {c1, d1} |-> e1]
RaceKind == [r \in {c1, d1} |-> IF r = c1 THEN "create" ELSE "delete"]
RacePolicy == [r \in {c1, d1} |-> IF r = c1 THEN "full" ELSE "metadata_only"]

\* Two CREATE events of one email under different policies and a metadata
\* update, in any order and across authority epochs.
OrderEmail == [r \in {c1, c2, u1} |-> e1]
OrderKind == [r \in {c1, c2, u1} |-> IF r = u1 THEN "update" ELSE "create"]
OrderPolicy == [r \in {c1, c2, u1} |-> IF r = c1 THEN "archive"
                                      ELSE IF r = c2 THEN "metadata_only"
                                      ELSE "full"]

\* One process with a single consumer.
OneSession == [w \in {w1} |-> s1]

OwnSession == [w \in {w1, w2} |-> IF w = w1 THEN s1 ELSE s2]

\* The two processes, each with its consumer, are interchangeable.
SwapProcesses ==
    {f \in Permutations(Workers \union Sessions) :
        \A w \in Workers : /\ f[w] \in Workers
                            /\ f[SessionOf[w]] = SessionOf[f[w]]}
=============================================================================
