\* tests/test.py, test_jobs: background jobs only, which end by themselves.
SPECIFICATION SleepersSpec
CONSTANTS
    MaxProcess = 3
    Commands = {"background"}
    Signals = {}
    Stubborn = {}
    Reader = {}
INVARIANT NoFinishedJobs
CHECK_DEADLOCK FALSE
