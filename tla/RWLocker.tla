------------------------------ MODULE RWLocker ------------------------------
(***************************************************************************)
(* The readers-writer lock's threads and numbers: enum RWLocker of         *)
(* Account.h:28-31, shared by the two descriptions of the lock.            *)
(***************************************************************************)
EXTENDS Naturals, FiniteSets

CONSTANT Thread      \* the threads of the process that use the lock

(* A process has finitely many threads. *)
ASSUME ThreadAssumption == IsFiniteSet(Thread)

MinToReader == 1     \* a free semaphore; the count that makes a first reader
MaxToWrite  == 0     \* the count at which the last reader lets a writer in
=============================================================================
