CONSTANTS
    create = create  split = split  merge = merge  destroy = destroy  trade = trade  remint = remint
    both = both  mint1 = mint1  melt1 = melt1  mint2 = mint2
    mint3 = mint3  melt2 = melt2  mint4 = mint4  mint5 = mint5  mint6 = mint6  rest = rest
    alice = alice  bob = bob  carol = carol
    Tx = {create, split, merge, destroy, trade, remint}
    Output = {both, mint1, melt1, mint2, mint3, melt2, mint4, mint5, mint6, rest}
    Address = {alice, bob, carol}
    Mine = {alice, bob, carol}
    TxOf <- MCTxOf
    Inputs <- MCInputs
    AddressOf <- MCAddressOf
    AuthorityOf <- MCAuthorityOf
    Timelocked = {mint3}
    Voidable = {merge}
SPECIFICATION Spec
INVARIANTS
    AuthoritiesAreUnspent
CHECK_DEADLOCK FALSE
