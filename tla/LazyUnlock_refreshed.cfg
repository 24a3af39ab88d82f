SPECIFICATION Spec
CONSTANTS
    first = first
    second = second
    third = third
    alice1 = alice1
    alice2 = alice2
    Output = {first, second, third}
    AddressOf <- MCAddressOf
    Timelock <- MCTimelock
    ValueOf <- MCValueOf
    Wallet = alice
    Call = {c1, c2}
    MaxTime = 3
PROPERTY AnswerIsAlwaysRefreshed
CHECK_DEADLOCK FALSE
