-------------------------- MODULE ValidTransactions --------------------------
(***************************************************************************)
(* What the transaction processor promises, without its tables: the        *)
(* transactions that count are closed under "spends" and never spend an    *)
(* output twice.  One transaction joins at a time; a reorg or a void takes *)
(* several away at once, together with everything that depended on them.   *)
(***************************************************************************)
CONSTANTS AllTx, Output, TxOf, Inputs

VARIABLE accepted       \* the transactions whose history counts

SpendsWithin(S) == \A t \in S : \A o \in Inputs[t] : TxOf[o] \in S

Accept(t) ==
    /\ t \notin accepted
    /\ \A o \in Inputs[t] :
          TxOf[o] \in accepted /\ \A u \in accepted : o \notin Inputs[u]
    /\ accepted' = accepted \cup {t}

Remove(S) ==
    /\ accepted' = accepted \ S
    /\ SpendsWithin(accepted')

Init == accepted = {}

Next == (\E t \in AllTx : Accept(t)) \/ (\E S \in SUBSET AllTx : Remove(S))

Spec == Init /\ [][Next]_accepted

\* No output is spent by two transactions that count.
NoDoubleSpend ==
    \A t, u \in accepted : t # u => Inputs[t] \cap Inputs[u] = {}
=============================================================================
