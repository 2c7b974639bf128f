SPECIFICATION FairSpec
CONSTANT Thread = {t1, t2, t3, t4}
INVARIANT IInv
INVARIANT MutualExclusion
PROPERTY EveryCallReturns
PROPERTY WritersGetIn
PROPERTY CallsSpec
