SPECIFICATION Spec
CONSTANTS
    alice = alice
    bob = bob
    carol = carol
    pay = pay
    Device = {phone}
    Allowed = {phone}
    Wallet = {alice, bob, carol}
    Started = {alice, bob}
    Tx = {pay}
    Affects <- MCAffects
    Receives <- MCReceives
    MaxCalls = 1
    NoRow = NoRow
PROPERTY PushedToItsWallet
