---------------------------- MODULE MCLazyUnlock ----------------------------
(***************************************************************************)
(* Three outputs of a wallet with two addresses: the first two share an    *)
(* address; the first timelock ends before the other two.                  *)
(***************************************************************************)
EXTENDS LazyUnlock, TLC

CONSTANTS first, second, third, alice1, alice2

MCAddressOf == first :> alice1 @@ second :> alice1 @@ third :> alice2
MCTimelock == first :> 1 @@ second :> 2 @@ third :> 2
MCValue == first :> 1 @@ second :> 2 @@ third :> 1
MCValueOf == [S \in SUBSET Output |-> MapThenSumSet(LAMBDA o : MCValue[o], S)]

-----------------------------------------------------------------------------
(* The same of executions that overlap, which the code does not keep *)

\* commons.ts: "If any timelock has expired, database tables will be refreshed
\* before returning the balances" - also by a call another one races.
AnswerIsAlwaysRefreshed == [][\A c \in Call : Answers(c) => CountsSpendable(c)]_vars

\* commons.ts: a balance is answered "taking into account any existing timelocks" -
\* also when two calls unlock the same output.
TimelocksAlwaysCount == [][\A c \in Call : Answers(c) => CountsNoTimelocked(c)]_vars
=============================================================================
