SPECIFICATION SnapshotSpec
CONSTANT Thread = {t1, t2}
PROPERTY PrinterReturns
CHECK_DEADLOCK FALSE
