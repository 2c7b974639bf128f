SPECIFICATION Spec
CONSTANTS
    a1 = a1
    a2 = a2
    Com = Com
    Prt = Prt
    ATM = {a1, a2}
    AccountId = {1, 2}
    Amount = {1, 20, 25, 26}
    Scripts <- RaceScripts
    Rates = {4}
    ULLMod = 256
    UIntMod = 64
INVARIANT ListExclusive
CHECK_DEADLOCK FALSE
