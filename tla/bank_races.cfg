SPECIFICATION Spec
CONSTANTS
    a1 = a1
    a2 = a2
    Com = Com
    Prt = Prt
    ATM = {a1, a2}
    AccountId = {1, 2}
    Amount = {1, 20, 25, 26}
    Scripts <- AllScripts
    Rates = {2, 4}
    ULLMod = 64
    UIntMod = 32
INVARIANTS
    TypeOK
    LockBooks
    StableIndex
    UniqueIds
    MoneyConserved
    LogAccounted
CONSTRAINT Bound
PROPERTY WholeTransactions
CHECK_DEADLOCK FALSE
