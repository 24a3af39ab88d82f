---------------------------- MODULE MCWalletLoad ----------------------------
(***************************************************************************)
(* Instance for TLC: a wallet with max_gap 2 is paid, spends, and is paid  *)
(* at an address further than its gap.                                     *)
(***************************************************************************)
EXTENDS WalletLoad, TLC

CONSTANTS l1, l2, paid, spent, further, beyond

MCAmount == paid    :> (0 :> 3)
         @@ spent   :> (0 :> -2 @@ 1 :> 1)
         @@ further :> (1 :> 1 @@ 2 :> 1)
         @@ beyond  :> (3 :> 2)
SpendsOnly == paid :> (0 :> 3) @@ spent :> (0 :> -2) @@ further :> (0 :> -1)

-----------------------------------------------------------------------------
(* What the repository says of the program and its code does not do *)

\* tests/api.test.ts: after a failed load, "retrying should succeed" (there, one
\* that was not even invoked) - when no execution is under way, no INSERT of the
\* next one meets a row that the wallet already has.
RetryCanSucceed ==
    status = "error" /\ retryCount < MaxRetries /\ (\A l \in Load : load[l].pc = "idle") =>
        LET found == Touching(accepted, Addresses(Used)) IN
        /\ found \cap wHistory = {}
        /\ found # {} => wBalance = NoRow

\* txProcessor.ts: addNewTx generates addresses "to keep maxGap" and updates the
\* "existing addresses' walletId" - the wallet has all addresses up to its gap.
GapIsKept == status = "ready" => Addresses(Used) \subseteq owned

\* wallet.ready_at, all that the APIs of a wallet look at: updateWalletStatus sets
\* it with the status "error" too.
HasReadyAt == status \in {"ready", "error"}

\* tests/txProposal.test.ts: "a wallet that is not ready should fail with
\* ApiError.WALLET_NOT_READY" - a wallet the APIs answer for has its whole history
\* and its whole balance.
AnswersAreComplete == HasReadyAt /\ unseen = {} => IsComplete

\* txProcessor.ts: "for each already started wallet, update databases" - also
\* when the transaction began before the wallet did.
AllSeeTheWallet == status = "ready" => IsComplete
=============================================================================
