----------------------------- MODULE TxProposal -----------------------------
(***************************************************************************)
(* The proposals of one wallet: the lambdas that create, send and destroy  *)
(* them (src/api/txProposal*.ts) and the cron that releases the stale ones *)
(* (src/db/cronRoutines.ts).  They share tx_output.tx_proposal and         *)
(* tx_proposal.status, run concurrently and use no database transaction:   *)
(* one action is what a lambda does between two queries, and the answer of *)
(* a query is used after it may have become stale.                         *)
(***************************************************************************)
EXTENDS Naturals, FiniteSets, FiniteSetsExt

CONSTANTS
    Utxo,           \* outputs of the wallet
    TxIdOf,         \* tx_id of an output
    Proposal,       \* the uuids of the proposals
    Request,        \* invocations of the send and destroy lambdas
    Free,           \* tx_output.tx_proposal IS NULL
    NoProposal,     \* an invocation that has not begun
    MaxInputs,      \* bound on the inputs of a proposal
    Faults          \* may a query fail or a lambda time out?

ASSUME ProposalAssumption ==
    /\ IsFiniteSet(Utxo)
    /\ IsFiniteSet(Proposal)
    /\ Free \notin Proposal
    /\ NoProposal \notin Proposal
    /\ MaxInputs \in Nat
    /\ Faults \in BOOLEAN

VARIABLES
    spent,          \* outputs with a spent_by, as the service knows it
    nodeSpent,      \* outputs spent on the full node
    mark,           \* tx_output.tx_proposal
    status,         \* tx_proposal.status, "none" without a row
    stale,          \* proposals older than STALE_TX_PROPOSAL_INTERVAL
    create,         \* progress of the lambda that creates a proposal
    chosen,         \* the inputs it was asked for
    step,           \* progress of an invocation
    proposal,       \* the proposal it is about
    inputs,         \* the inputs of the transaction it pushes
    cron,           \* progress of cleanUnsentTxProposalsUtxos
    unsent,         \* the proposals it has read
    overlap         \* may the wallet's create lambdas overlap? (never changes)

createVars == <<create, chosen>>
requestVars == <<step, proposal, inputs>>
cronVars == <<cron, unsent>>
vars == <<spent, nodeSpent, mark, status, stale, createVars, requestVars, cronVars, overlap>>

Sendable == {"open", "send_error"}

TypeOK ==
    /\ spent \subseteq nodeSpent
    /\ nodeSpent \subseteq Utxo
    /\ mark \in [Utxo -> Proposal \cup {Free}]
    /\ status \in [Proposal -> {"none", "open", "send_error", "sent", "cancelled"}]
    /\ stale \subseteq Proposal
    /\ create \in [Proposal -> {"idle", "marking", "inserting", "done"}]
    /\ chosen \in [Proposal -> SUBSET Utxo]
    /\ step \in [Request -> {"idle", "matching", "pushing", "pushed", "failed",
                             "cancelling", "releasing", "sent", "destroyed", "over"}]
    /\ proposal \in [Request -> Proposal \cup {NoProposal}]
    /\ inputs \in [Request -> SUBSET Utxo]
    /\ cron \in {"idle", "releasing", "cancelling"}
    /\ unsent \subseteq Proposal
    /\ overlap \in BOOLEAN

MarkedBy(P) == {u \in Utxo : mark[u] \in P}
Release(P) == mark' = [u \in Utxo |-> IF mark[u] \in P THEN Free ELSE mark[u]]

-----------------------------------------------------------------------------
(* create: getUtxos and checkUsedUtxos, markUtxosWithProposalId, which is not *)
(* awaited but goes first on the one connection, createTxProposal             *)

\* Mutant: outputs another proposal has marked are taken as well.
CheckSpentOnly(p, I) ==
    /\ create[p] = "idle"
    /\ \A q \in Proposal : create[q] \in {"idle", "done"}
    /\ I # {}
    /\ I \cap spent = {}
    /\ create' = [create EXCEPT ![p] = "marking"]
    /\ chosen' = [chosen EXCEPT ![p] = I]
    /\ UNCHANGED <<spent, nodeSpent, mark, status, stale, requestVars, cronVars, overlap>>

MissingUtxos(I) == I \cap spent
UsedUtxos(I) == {u \in I : mark[u] # Free}

CheckInputs(p, I) ==
    /\ create[p] = "idle"
    /\ overlap \/ \A q \in Proposal : create[q] \in {"idle", "done"}
    /\ I # {}
    /\ MissingUtxos(I) = {}
    /\ UsedUtxos(I) = {}
    /\ create' = [create EXCEPT ![p] = "marking"]
    /\ chosen' = [chosen EXCEPT ![p] = I]
    /\ UNCHANGED <<spent, nodeSpent, mark, status, stale, requestVars, cronVars, overlap>>

\* The marks the outputs carry by now are overwritten. Nobody looks at the
\* promise, so when the query fails the lambda goes on all the same.
MarkUtxos(p) ==
    /\ create[p] = "marking"
    /\ \/ mark' = [u \in Utxo |-> IF u \in chosen[p] THEN p ELSE mark[u]]
       \/ Faults /\ mark' = mark
    /\ create' = [create EXCEPT ![p] = "inserting"]
    /\ UNCHANGED <<spent, nodeSpent, status, stale, chosen, requestVars, cronVars, overlap>>

\* Mutant: on a connection of its own the INSERT overtakes the marks.
CreateBeforeMarks(p) ==
    /\ create[p] = "marking"
    /\ status[p] = "none"
    /\ status' = [status EXCEPT ![p] = "open"]
    /\ UNCHANGED <<spent, nodeSpent, mark, stale, createVars, requestVars, cronVars, overlap>>

CreateTxProposal(p) ==
    /\ create[p] = "inserting"
    /\ create' = [create EXCEPT ![p] = "done"]
    /\ status' = [status EXCEPT ![p] = "open"]
    /\ UNCHANGED <<spent, nodeSpent, mark, stale, chosen, requestVars, cronVars, overlap>>

CreateStops(p) ==
    /\ Faults
    /\ create[p] \in {"marking", "inserting"}
    /\ create' = [create EXCEPT ![p] = "done"]
    /\ UNCHANGED <<spent, nodeSpent, mark, status, stale, chosen, requestVars, cronVars, overlap>>

-----------------------------------------------------------------------------
(* send *)

BeginSend(r, p) ==
    /\ step[r] = "idle"
    /\ status[p] \in Sendable
    /\ step' = [step EXCEPT ![r] = "matching"]
    /\ proposal' = [proposal EXCEPT ![r] = p]
    /\ UNCHANGED <<spent, nodeSpent, mark, status, stale, createVars, inputs, cronVars, overlap>>

\* The transaction has as many inputs as the proposal has marked outputs, and
\* the tx_id of each of those occurs among its inputs.
MatchInputs(r, I) ==
    LET marked == MarkedBy({proposal[r]})
    IN  /\ step[r] = "matching"
        /\ IF /\ Cardinality(I) = Cardinality(marked)
              /\ \A u \in marked : \E v \in I : TxIdOf[v] = TxIdOf[u]
           THEN /\ step' = [step EXCEPT ![r] = "pushing"]
                /\ inputs' = [inputs EXCEPT ![r] = I]
           ELSE /\ step' = [step EXCEPT ![r] = "over"]
                /\ UNCHANGED inputs
        /\ UNCHANGED <<spent, nodeSpent, mark, status, stale, proposal, createVars, cronVars, overlap>>

\* The full node takes a transaction with unspent inputs, or the push fails.
PushTx(r) ==
    /\ step[r] = "pushing"
    /\ \/ /\ inputs[r] # {} /\ inputs[r] \cap nodeSpent = {}
          /\ nodeSpent' = nodeSpent \cup inputs[r]
          /\ step' = [step EXCEPT ![r] = "pushed"]
       \/ /\ step' = [step EXCEPT ![r] = "failed"]
          /\ UNCHANGED nodeSpent
    /\ UNCHANGED <<spent, mark, status, stale, createVars, proposal, inputs, cronVars, overlap>>

\* Mutant: a push that failed is reported as sent.
AlwaysSent(r) ==
    /\ step[r] \in {"pushed", "failed"}
    /\ status' = [status EXCEPT ![proposal[r]] = "sent"]
    /\ step' = [step EXCEPT ![r] = "sent"]
    /\ UNCHANGED <<spent, nodeSpent, mark, stale, createVars, proposal, inputs, cronVars, overlap>>

\* The catch covers the UPDATE to "sent" as well as the push.
FinishSend(r) ==
    /\ \/ /\ step[r] = "pushed"
          /\ status' = [status EXCEPT ![proposal[r]] = "sent"]
          /\ step' = [step EXCEPT ![r] = "sent"]
       \/ /\ step[r] = "failed" \/ (Faults /\ step[r] = "pushed")
          /\ status' = [status EXCEPT ![proposal[r]] = "send_error"]
          /\ step' = [step EXCEPT ![r] = "over"]
    /\ UNCHANGED <<spent, nodeSpent, mark, stale, createVars, proposal, inputs, cronVars, overlap>>

-----------------------------------------------------------------------------
(* destroy *)

BeginDestroy(r, p) ==
    /\ step[r] = "idle"
    /\ status[p] \in Sendable
    /\ step' = [step EXCEPT ![r] = "cancelling"]
    /\ proposal' = [proposal EXCEPT ![r] = p]
    /\ UNCHANGED <<spent, nodeSpent, mark, status, stale, createVars, inputs, cronVars, overlap>>

Cancel(r) ==
    /\ step[r] = "cancelling"
    /\ status' = [status EXCEPT ![proposal[r]] = "cancelled"]
    /\ step' = [step EXCEPT ![r] = "releasing"]
    /\ UNCHANGED <<spent, nodeSpent, mark, stale, createVars, proposal, inputs, cronVars, overlap>>

\* The assertion on the number of rows comes after the update: it can turn the
\* answer into an error, never take the release back.
ReleaseUtxos(r) ==
    /\ step[r] = "releasing"
    /\ Release({proposal[r]})
    /\ step' = [step EXCEPT ![r] = "destroyed"]
    /\ UNCHANGED <<spent, nodeSpent, status, stale, createVars, proposal, inputs, cronVars, overlap>>

RequestStops(r) ==
    /\ Faults
    /\ step[r] \in {"matching", "pushing", "pushed", "failed", "cancelling", "releasing"}
    /\ step' = [step EXCEPT ![r] = "over"]
    /\ UNCHANGED <<spent, nodeSpent, mark, status, stale, createVars, proposal, inputs, cronVars, overlap>>

-----------------------------------------------------------------------------
(* cleanUnsentTxProposalsUtxos *)

\* Mutant: the cron leaves out the cancelled proposals.
CronReadSendable ==
    /\ cron = "idle"
    /\ unsent' = {p \in stale : status[p] \in Sendable}
    /\ unsent' # {}
    /\ cron' = "releasing"
    /\ UNCHANGED <<spent, nodeSpent, mark, status, stale, createVars, requestVars, overlap>>

CronRead ==
    /\ cron = "idle"
    /\ unsent' = {p \in stale : status[p] \in Sendable \cup {"cancelled"}}
    /\ unsent' # {}
    /\ cron' = "releasing"
    /\ UNCHANGED <<spent, nodeSpent, mark, status, stale, createVars, requestVars, overlap>>

\* assert.strictEqual(result.affectedRows, txProposalIds.length)
CronRelease ==
    /\ cron = "releasing"
    /\ Release(unsent)
    /\ cron' = IF Cardinality(MarkedBy(unsent)) = Cardinality(unsent)
               THEN "cancelling" ELSE "idle"
    /\ UNCHANGED <<spent, nodeSpent, status, stale, createVars, requestVars, unsent, overlap>>

CronCancel ==
    /\ cron = "cancelling"
    /\ status' = [p \in Proposal |-> IF p \in unsent THEN "cancelled" ELSE status[p]]
    /\ cron' = "idle"
    /\ UNCHANGED <<spent, nodeSpent, mark, stale, createVars, requestVars, unsent, overlap>>

CronStops ==
    /\ Faults
    /\ cron # "idle"
    /\ cron' = "idle"
    /\ UNCHANGED <<spent, nodeSpent, mark, status, stale, createVars, requestVars, unsent, overlap>>

-----------------------------------------------------------------------------
(* The clock and the transactions the daemon brings *)

GetsStale(p) ==
    /\ status[p] # "none"
    /\ p \notin stale
    /\ stale' = stale \cup {p}
    /\ UNCHANGED <<spent, nodeSpent, mark, status, createVars, requestVars, cronVars, overlap>>

TxArrives ==
    /\ spent # nodeSpent
    /\ spent' = nodeSpent
    /\ UNCHANGED <<nodeSpent, mark, status, stale, createVars, requestVars, cronVars, overlap>>

\* The transaction of the output was voided and the full node takes it back:
\* cleanupVoidedTx and addUtxos give it a new row, without the mark.
OutputReturns(u) ==
    /\ u \notin nodeSpent
    /\ mark[u] # Free
    /\ mark' = [mark EXCEPT ![u] = Free]
    /\ UNCHANGED <<spent, nodeSpent, status, stale, createVars, requestVars, cronVars, overlap>>

Init ==
    /\ spent = {} /\ nodeSpent = {}
    /\ mark = [u \in Utxo |-> Free]
    /\ status = [p \in Proposal |-> "none"]
    /\ stale = {}
    /\ create = [p \in Proposal |-> "idle"]
    /\ chosen = [p \in Proposal |-> {}]
    /\ step = [r \in Request |-> "idle"]
    /\ proposal = [r \in Request |-> NoProposal]
    /\ inputs = [r \in Request |-> {}]
    /\ cron = "idle" /\ unsent = {}
    /\ overlap \in BOOLEAN

Requested == {I \in SUBSET Utxo : Cardinality(I) <= MaxInputs}

Create(p) ==
    (\E I \in Requested : CheckInputs(p, I)) \/ MarkUtxos(p) \/ CreateTxProposal(p)
Serve(r) ==
    \/ \E I \in SUBSET Utxo : MatchInputs(r, I)
    \/ PushTx(r) \/ FinishSend(r) \/ Cancel(r) \/ ReleaseUtxos(r)
Clean == CronRead \/ CronRelease \/ CronCancel

Next ==
    \/ \E p \in Proposal : Create(p) \/ CreateStops(p) \/ GetsStale(p)
    \/ \E r \in Request, p \in Proposal : BeginSend(r, p) \/ BeginDestroy(r, p)
    \/ \E r \in Request : Serve(r) \/ RequestStops(r)
    \/ Clean \/ CronStops
    \/ TxArrives
    \/ \E u \in Utxo : OutputReturns(u)

Spec == Init /\ [][Next]_vars

\* A begun invocation ends (Lambda stops it after its timeout), time passes, and
\* the cron is scheduled every five minutes; it is not always stopped half way.
Fairness ==
    /\ \A r \in Request : WF_vars(Serve(r))
    /\ \A p \in Proposal : WF_vars(GetsStale(p)) /\ WF_vars(MarkUtxos(p) \/ CreateTxProposal(p))
    /\ WF_vars(CronRead) /\ SF_vars(CronRelease) /\ SF_vars(CronCancel)
    /\ WF_vars(TxArrives)
FairSpec == Spec /\ Fairness

-----------------------------------------------------------------------------
(* Properties *)

\* When destroy has answered, no output carries the mark of its proposal any
\* more: no interleaving lets a mark arrive after the release.
DestroyReleasesAll ==
    \A r \in Request : step[r] = "destroyed" => MarkedBy({proposal[r]}) = {}

\* Every mark was put there by a proposal that had checked the output; a lambda
\* that has not got that far holds nothing.
MarksWereChosen ==
    \A u \in Utxo, p \in Proposal : mark[u] = p =>
        u \in chosen[p] /\ create[p] \in {"inserting", "done"}

\* While the wallet's creates come one after another, no proposal takes over an
\* output that another one holds.
NoMarkIsStolen ==
    [][~overlap => \A u \in Utxo : mark[u] # Free => mark'[u] \in {mark[u], Free}]_vars

\* A push is accepted once: what two invocations have sent successfully does
\* not overlap, and the full node holds all of it.
SentOnce ==
    \A r \in Request : step[r] \in {"pushed", "sent"} =>
        /\ inputs[r] \subseteq nodeSpent
        /\ \A q \in Request \ {r} :
              step[q] \in {"pushed", "sent"} => inputs[q] \cap inputs[r] = {}

\* The reason why the cron reads cancelled proposals too: whatever a destroy
\* that stopped half way still holds is released in the end.
CancelledIsReleased ==
    \A p \in Proposal :
        (status[p] = "cancelled" /\ MarkedBy({p}) # {})
            ~> (MarkedBy({p}) = {} \/ status[p] # "cancelled")
=============================================================================
