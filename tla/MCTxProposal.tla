---------------------------- MODULE MCTxProposal ----------------------------
(***************************************************************************)
(* Instances of TxProposal for TLC, and what the repository says of        *)
(* proposals that their code does not keep.                                *)
(***************************************************************************)
EXTENDS TxProposal, TLC

CONSTANTS u1, u2

OwnTx == [u \in Utxo |-> u]
SameTx == [u \in Utxo |-> u1]
Symmetry == Permutations(Proposal) \cup Permutations(Request)

\* txProposalCreate.ts: "check if inputs sent by user are not part of another
\* tx proposal" - two open proposals never have an input in common.
OpenProposalsAreDisjoint ==
    \A p, q \in Proposal : p # q /\ status[p] = "open" /\ status[q] = "open" =>
        chosen[p] \cap chosen[q] = {}

\* txProposalSend.ts: "Validate that the inputs on the txHex are the same as those
\* sent on txProposalCreate" - what is pushed is what was proposed.
PushedAsProposed ==
    \A r \in Request : step[r] = "pushing" => inputs[r] = chosen[proposal[r]]

\* txProposalSend.ts: "we can only send if it's still open or there was an error
\* sending before" - a proposal that was sent does not become sendable again.
SentIsFinal ==
    [][\A p \in Proposal : status[p] = "sent" => status'[p] \notin Sendable]_vars

\* db/index.ts: "When a tx proposal is cancelled we must release the utxos" - the
\* cron cancels a stale proposal along with the release.
StaleIsCancelled ==
    \A p \in Proposal : (p \in stale /\ status[p] = "open") ~> status[p] # "open"
=============================================================================
