-------------------------- MODULE TxProposalProofs --------------------------
(***************************************************************************)
(* Theorems about TxProposal, for any number of outputs, proposals and     *)
(* concurrent invocations.                                                 *)
(***************************************************************************)
EXTENDS TxProposal, TLAPS

\* A proposal with a row, and so everything that can be asked of it, comes
\* after its marks.
RowsFollowMarks ==
    /\ \A p \in Proposal : status[p] # "none" => create[p] = "done"
    /\ \A r \in Request : step[r] # "idle" =>
          proposal[r] \in Proposal /\ create[proposal[r]] = "done"
    /\ \A p \in unsent : create[p] = "done"

ProposalInv == TypeOK /\ RowsFollowMarks /\ MarksWereChosen /\ DestroyReleasesAll

LEMMA ProposalInvInit == Init => ProposalInv
BY ProposalAssumption DEF Init, ProposalInv, TypeOK, RowsFollowMarks, MarksWereChosen,
   DestroyReleasesAll, MarkedBy

\* What the steps of the create lambdas preserve.
LEMMA CreateKeepsInv ==
    ASSUME ProposalInv, NEW p \in Proposal, Create(p) \/ CreateStops(p)
    PROVE  ProposalInv'
<1> USE DEF ProposalInv, TypeOK, RowsFollowMarks, MarksWereChosen, requestVars, cronVars
<1>1. ASSUME NEW I \in Requested, CheckInputs(p, I)
      PROVE  ProposalInv'
  BY <1>1 DEF CheckInputs, MissingUtxos, UsedUtxos, Requested, DestroyReleasesAll, MarkedBy
<1>2. ASSUME MarkUtxos(p)
      PROVE  ProposalInv'
  <2>1. \A u \in Utxo : mark'[u] = mark[u] \/ (mark'[u] = p /\ u \in chosen[p])
    BY <1>2 DEF MarkUtxos
  <2>2. mark' \in [Utxo -> Proposal \cup {Free}]
    BY <1>2 DEF MarkUtxos
  <2>3. /\ create[p] = "marking" /\ create' = [create EXCEPT ![p] = "inserting"]
        /\ UNCHANGED <<spent, nodeSpent, status, stale, chosen, requestVars, cronVars, overlap>>
    BY <1>2 DEF MarkUtxos
  <2>4. DestroyReleasesAll'
    BY <2>1, <2>3 DEF DestroyReleasesAll, MarkedBy
  <2> QED
    BY <2>1, <2>2, <2>3, <2>4, ProposalAssumption
<1>3. ASSUME CreateTxProposal(p) \/ CreateStops(p)
      PROVE  ProposalInv'
  BY <1>3 DEF CreateTxProposal, CreateStops, DestroyReleasesAll, MarkedBy
<1> QED
  BY <1>1, <1>2, <1>3 DEF Create

\* What the steps of send and destroy preserve.
LEMMA RequestKeepsInv ==
    ASSUME ProposalInv, NEW r \in Request,
           \/ \E p \in Proposal : BeginSend(r, p) \/ BeginDestroy(r, p)
           \/ Serve(r)
           \/ RequestStops(r)
    PROVE  ProposalInv'
<1> USE DEF ProposalInv, TypeOK, RowsFollowMarks, MarksWereChosen, createVars, cronVars, Sendable
<1>1. ASSUME NEW p \in Proposal, BeginSend(r, p) \/ BeginDestroy(r, p)
      PROVE  ProposalInv'
  BY <1>1 DEF BeginSend, BeginDestroy, DestroyReleasesAll, MarkedBy
<1>2. ASSUME NEW I \in SUBSET Utxo, MatchInputs(r, I)
      PROVE  ProposalInv'
  BY <1>2 DEF MatchInputs, DestroyReleasesAll, MarkedBy
<1>3. ASSUME PushTx(r)
      PROVE  ProposalInv'
  BY <1>3 DEF PushTx, DestroyReleasesAll, MarkedBy
<1>4. ASSUME FinishSend(r) \/ Cancel(r) \/ RequestStops(r)
      PROVE  ProposalInv'
  BY <1>4 DEF FinishSend, Cancel, RequestStops, DestroyReleasesAll, MarkedBy
<1>5. ASSUME ReleaseUtxos(r)
      PROVE  ProposalInv'
  <2>1. \A u \in Utxo : mark'[u] = IF mark[u] = proposal[r] THEN Free ELSE mark[u]
    BY <1>5 DEF ReleaseUtxos, Release
  <2>2. proposal[r] \in Proposal /\ Free \notin Proposal
    BY <1>5, ProposalAssumption DEF ReleaseUtxos
  <2>3. DestroyReleasesAll'
    BY <1>5, <2>1, <2>2 DEF DestroyReleasesAll, MarkedBy, ReleaseUtxos
  <2> QED
    BY <1>5, <2>1, <2>2, <2>3 DEF ReleaseUtxos, Release
<1> QED
  BY <1>1, <1>2, <1>3, <1>4, <1>5 DEF Serve

\* What the cron, the clock and the daemon preserve.
LEMMA CronKeepsInv ==
    ASSUME ProposalInv,
           \/ Clean \/ CronStops \/ TxArrives
           \/ \E u \in Utxo : OutputReturns(u)
           \/ \E p \in Proposal : GetsStale(p)
           \/ UNCHANGED vars
    PROVE  ProposalInv'
<1> USE DEF ProposalInv, TypeOK, RowsFollowMarks, MarksWereChosen, createVars, requestVars
<1>1. ASSUME CronRead
      PROVE  ProposalInv'
  BY <1>1 DEF CronRead, Sendable, DestroyReleasesAll, MarkedBy
<1>2. ASSUME CronRelease
      PROVE  ProposalInv'
  <2>1. \A u \in Utxo : mark'[u] \in {mark[u], Free}
    BY <1>2 DEF CronRelease, Release
  <2>2. DestroyReleasesAll'
    BY <1>2, <2>1, ProposalAssumption DEF DestroyReleasesAll, MarkedBy, CronRelease
  <2> QED
    BY <1>2, <2>1, <2>2, ProposalAssumption DEF CronRelease, Release
<1>3. ASSUME CronCancel
      PROVE  ProposalInv'
  BY <1>3 DEF CronCancel, DestroyReleasesAll, MarkedBy
<1>4. ASSUME CronStops \/ TxArrives \/ UNCHANGED vars
      PROVE  ProposalInv'
  BY <1>4 DEF CronStops, TxArrives, vars, cronVars, DestroyReleasesAll, MarkedBy
<1>5. ASSUME NEW p \in Proposal, GetsStale(p)
      PROVE  ProposalInv'
  BY <1>5 DEF GetsStale, cronVars, DestroyReleasesAll, MarkedBy
<1>6. ASSUME NEW u \in Utxo, OutputReturns(u)
      PROVE  ProposalInv'
  <2>1. \A v \in Utxo : mark'[v] \in {mark[v], Free}
    BY <1>6 DEF OutputReturns
  <2>2. DestroyReleasesAll'
    BY <1>6, <2>1, ProposalAssumption DEF DestroyReleasesAll, MarkedBy, OutputReturns
  <2> QED
    BY <1>6, <2>1, <2>2, ProposalAssumption DEF OutputReturns, cronVars
<1> QED
  BY <1>1, <1>2, <1>3, <1>4, <1>5, <1>6 DEF Clean

LEMMA ProposalInvStep == ProposalInv /\ [Next]_vars => ProposalInv'
BY CreateKeepsInv, RequestKeepsInv, CronKeepsInv DEF Next

THEOREM ProposalInvariant == Spec => []ProposalInv
BY ProposalInvInit, ProposalInvStep, PTL DEF Spec

\* A destroy that has answered left no mark behind, although create does not
\* wait for its marks: they go before the row that destroy must find.
THEOREM DestroyIsComplete == Spec => []DestroyReleasesAll
<1>1. ProposalInv => DestroyReleasesAll
  BY DEF ProposalInv
<1> QED
  BY <1>1, ProposalInvariant, PTL

\* An output is marked only by a proposal that checked it.
THEOREM MarksAreChecked == Spec => []MarksWereChosen
<1>1. ProposalInv => MarksWereChosen
  BY DEF ProposalInv
<1> QED
  BY <1>1, ProposalInvariant, PTL

-----------------------------------------------------------------------------
(* When the create lambdas of the wallet do not overlap *)

\* What the lambda has checked stays true until it marks: others only release.
CheckedStaysFree ==
    ~overlap => \A p \in Proposal : create[p] = "marking" =>
        /\ \A u \in chosen[p] : mark[u] = Free
        /\ \A q \in Proposal : create[q] \in {"marking", "inserting"} => q = p

LEMMA CheckedStaysFreeStep ==
    ASSUME ProposalInv, CheckedStaysFree, [Next]_vars
    PROVE  CheckedStaysFree'
<1> SUFFICES ASSUME ~overlap' PROVE CheckedStaysFree'
  BY DEF CheckedStaysFree
<1> USE DEF ProposalInv, TypeOK, CheckedStaysFree
<1>1. ASSUME NEW p \in Proposal, NEW I \in Requested, CheckInputs(p, I)
      PROVE  CheckedStaysFree'
  BY <1>1 DEF CheckInputs, MissingUtxos, UsedUtxos
<1>2. ASSUME NEW p \in Proposal, MarkUtxos(p)
      PROVE  CheckedStaysFree'
  BY <1>2 DEF MarkUtxos
<1>3. ASSUME NEW p \in Proposal, CreateTxProposal(p) \/ CreateStops(p)
      PROVE  CheckedStaysFree'
  BY <1>3 DEF CreateTxProposal, CreateStops
<1>4. ASSUME UNCHANGED <<create, chosen, overlap>>, \A u \in Utxo : mark'[u] \in {mark[u], Free}
      PROVE  CheckedStaysFree'
  BY <1>4
<1>5. ASSUME NEW r \in Request, Serve(r) \/ RequestStops(r)
             \/ \E p \in Proposal : BeginSend(r, p) \/ BeginDestroy(r, p)
      PROVE  UNCHANGED <<create, chosen, overlap>> /\ \A u \in Utxo : mark'[u] \in {mark[u], Free}
  BY <1>5 DEF Serve, MatchInputs, PushTx, FinishSend, Cancel, ReleaseUtxos, Release,
              RequestStops, BeginSend, BeginDestroy, createVars
<1>6. ASSUME Clean \/ CronStops \/ TxArrives \/ (\E p \in Proposal : GetsStale(p))
             \/ (\E u \in Utxo : OutputReturns(u)) \/ UNCHANGED vars
      PROVE  UNCHANGED <<create, chosen, overlap>> /\ \A u \in Utxo : mark'[u] \in {mark[u], Free}
  BY <1>6 DEF Clean, CronRead, CronRelease, CronCancel, CronStops, TxArrives, GetsStale,
              OutputReturns, Release, createVars, vars
<1> QED
  BY <1>1, <1>2, <1>3, <1>4, <1>5, <1>6 DEF Next, Create

\* Then the check before the marks is enough: no proposal takes over an output
\* that another one holds.
THEOREM SerialCreatesDoNotSteal == Spec => NoMarkIsStolen
<1>1. Init => CheckedStaysFree
  BY DEF Init, CheckedStaysFree
<1>2. ProposalInv /\ CheckedStaysFree /\ [Next]_vars => CheckedStaysFree'
  BY CheckedStaysFreeStep
<1>3. ProposalInv /\ CheckedStaysFree /\ [Next]_vars
        => [~overlap => \A u \in Utxo : mark[u] # Free => mark'[u] \in {mark[u], Free}]_vars
  <2> SUFFICES ASSUME ProposalInv, CheckedStaysFree, Next, ~overlap
               PROVE  \A u \in Utxo : mark[u] # Free => mark'[u] \in {mark[u], Free}
    OBVIOUS
  <2>1. ASSUME NEW p \in Proposal, Create(p) \/ CreateStops(p) \/ GetsStale(p)
        PROVE  \A u \in Utxo : mark[u] # Free => mark'[u] \in {mark[u], Free}
    BY <2>1 DEF Create, CheckInputs, MissingUtxos, UsedUtxos, MarkUtxos, CreateTxProposal, CreateStops, GetsStale,
                CheckedStaysFree
  <2>2. ASSUME NEW r \in Request, Serve(r) \/ RequestStops(r)
               \/ \E p \in Proposal : BeginSend(r, p) \/ BeginDestroy(r, p)
        PROVE  \A u \in Utxo : mark'[u] \in {mark[u], Free}
    BY <2>2 DEF Serve, MatchInputs, PushTx, FinishSend, Cancel, ReleaseUtxos, Release,
                RequestStops, BeginSend, BeginDestroy
  <2>3. ASSUME Clean \/ CronStops \/ TxArrives
        PROVE  \A u \in Utxo : mark'[u] \in {mark[u], Free}
    BY <2>3 DEF Clean, CronRead, CronRelease, CronCancel, CronStops, TxArrives, Release
  <2>4. ASSUME NEW v \in Utxo, OutputReturns(v)
        PROVE  \A u \in Utxo : mark'[u] \in {mark[u], Free}
    BY <2>4 DEF OutputReturns, ProposalInv, TypeOK
  <2> QED
    BY <2>1, <2>2, <2>3, <2>4 DEF Next
<1> QED
  BY <1>1, <1>2, <1>3, ProposalInvariant, PTL DEF Spec, NoMarkIsStolen

-----------------------------------------------------------------------------
(* Concurrent sends *)

\* Two invocations that send the same proposal, or proposals with a common
\* output, are never both told by the full node that it has their transaction.
THEOREM PushedOnce == Spec => []SentOnce
<1>1. Init => SentOnce
  BY DEF Init, SentOnce
<1>2. TypeOK /\ SentOnce /\ [Next]_vars => SentOnce'
  <2> SUFFICES ASSUME TypeOK, SentOnce, [Next]_vars PROVE SentOnce'
    OBVIOUS
  <2> USE DEF TypeOK, SentOnce
  <2>1. ASSUME UNCHANGED <<nodeSpent, inputs>>,
               \A r \in Request : step'[r] \in {"pushed", "sent"} => step[r] \in {"pushed", "sent"}
        PROVE  SentOnce'
    BY <2>1
  <2>2. ASSUME NEW p \in Proposal, Create(p) \/ CreateStops(p) \/ GetsStale(p)
        PROVE  SentOnce'
    BY <2>1, <2>2 DEF Create, CheckInputs, MissingUtxos, UsedUtxos, MarkUtxos, CreateTxProposal, CreateStops,
                      GetsStale, requestVars
  <2>3. ASSUME NEW r \in Request, NEW p \in Proposal, BeginSend(r, p) \/ BeginDestroy(r, p)
        PROVE  SentOnce'
    BY <2>1, <2>3 DEF BeginSend, BeginDestroy
  <2>4. ASSUME NEW r \in Request,
               FinishSend(r) \/ Cancel(r) \/ ReleaseUtxos(r) \/ RequestStops(r)
        PROVE  SentOnce'
    BY <2>1, <2>4 DEF FinishSend, Cancel, ReleaseUtxos, RequestStops
  <2>5. ASSUME NEW r \in Request, NEW I \in SUBSET Utxo, MatchInputs(r, I)
        PROVE  SentOnce'
    BY <2>5 DEF MatchInputs
  <2>6. ASSUME NEW r \in Request, PushTx(r)
        PROVE  SentOnce'
    <3>1. CASE step' = [step EXCEPT ![r] = "failed"] /\ UNCHANGED nodeSpent
      BY <2>1, <2>6, <3>1 DEF PushTx
    <3>2. CASE /\ inputs[r] \cap nodeSpent = {}
               /\ nodeSpent' = nodeSpent \cup inputs[r]
               /\ step' = [step EXCEPT ![r] = "pushed"]
      BY <2>6, <3>2 DEF PushTx
    <3> QED
      BY <2>6, <3>1, <3>2 DEF PushTx
  <2>7. ASSUME Clean \/ CronStops \/ TxArrives \/ UNCHANGED vars
               \/ \E u \in Utxo : OutputReturns(u)
        PROVE  SentOnce'
    BY <2>1, <2>7 DEF Clean, CronRead, CronRelease, CronCancel, CronStops, TxArrives,
                      OutputReturns, requestVars, vars
  <2> QED
    BY <2>2, <2>3, <2>4, <2>5, <2>6, <2>7 DEF Next, Serve
<1>3. ProposalInv => TypeOK
  BY DEF ProposalInv
<1> QED
  BY <1>1, <1>2, <1>3, ProposalInvariant, PTL DEF Spec
=============================================================================
