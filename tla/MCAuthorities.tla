--------------------------- MODULE MCAuthorities ----------------------------
(***************************************************************************)
(* Instance for TLC: a token is created with its authorities at one        *)
(* address; they are split, merged, traded, minted again and destroyed (for *)
(* an amount, rest).                                                       *)
(***************************************************************************)
EXTENDS Authorities, TLC

CONSTANTS create, split, merge, destroy, trade, remint,
          both, mint1, melt1, mint2, mint3, melt2, mint4, mint5, mint6, rest,
          alice, bob, carol

MCTxOf == both :> create @@ mint1 :> split @@ melt1 :> split @@ mint2 :> split
          @@ mint3 :> merge @@ melt2 :> trade @@ mint4 :> trade
          @@ mint5 :> remint @@ mint6 :> remint @@ rest :> destroy
MCInputs == [t \in Tx |-> CASE t = create -> {}
                            [] t = split -> {both}
                            [] t = merge -> {mint1, mint2}
                            [] t = destroy -> {melt1}
                            [] t = trade -> {mint3, melt1}
                            [] t = remint -> {mint4}]
MCAddressOf == [o \in Output |-> CASE o \in {both, mint1} -> alice
                                   [] o \in {melt1, mint2, mint4, mint5, mint6} -> bob
                                   [] OTHER -> carol]
MCAuthorityOf == [o \in Output |-> CASE o = both -> Bit
                                     [] o \in {melt1, melt2} -> {"melt"}
                                     [] o = rest -> {}
                                     [] OTHER -> {"mint"}]

\* db/index.ts: initWalletBalance initialises the balance of a wallet "using data
\* from address_balance" - the authorities its addresses have included.
WalletHasItsAuthorities == started => wUnlockedAuth = BitOrAll(unlockedAuth)
=============================================================================
