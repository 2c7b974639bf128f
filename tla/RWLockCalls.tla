---------------------------- MODULE RWLockCalls -----------------------------
(***************************************************************************)
(* The readers-writer lock of AccountController.cpp:153-183 with one step  *)
(* per call: the counting semaphore wrt_lock and the reader count rcount,  *)
(* without the inner semaphore rd_lock.  RWLock.tla has the steps inside a *)
(* call and implements this module, so the threads of Bank.tla may use the *)
(* calls as atomic actions.                                                *)
(*                                                                         *)
(* The four operators are what the code does, whoever calls them: neither  *)
(* UpReadAction nor UpWriteAction looks at who holds the lock.  Next adds  *)
(* the discipline of a well-behaved caller.                                *)
(***************************************************************************)
EXTENDS RWLocker

VARIABLES
    wrt_lock,        \* value of the semaphore _db_wrt_lock
    rcount,          \* _db_rcount
    mode             \* history: what each thread believes it holds

vars == <<wrt_lock, rcount, mode>>

Init ==
    /\ wrt_lock = MinToReader
    /\ rcount = 0
    /\ mode = [t \in Thread |-> "out"]

(* The first reader also takes wrt_lock, and waits for it. *)
DownReadAction(t) ==
    /\ rcount + 1 = MinToReader => wrt_lock > 0
    /\ rcount' = rcount + 1
    /\ wrt_lock' = IF rcount' = MinToReader THEN wrt_lock - 1 ELSE wrt_lock
    /\ mode' = [mode EXCEPT ![t] = "reading"]

(* The last reader gives wrt_lock back. *)
UpReadAction(t) ==
    /\ rcount' = rcount - 1
    /\ wrt_lock' = IF rcount' = MaxToWrite THEN wrt_lock + 1 ELSE wrt_lock
    /\ mode' = [mode EXCEPT ![t] = "out"]

DownWriteAction(t) ==
    /\ wrt_lock > 0
    /\ wrt_lock' = wrt_lock - 1
    /\ mode' = [mode EXCEPT ![t] = "writing"]
    /\ UNCHANGED rcount

UpWriteAction(t) ==
    /\ wrt_lock' = wrt_lock + 1
    /\ mode' = [mode EXCEPT ![t] = "out"]
    /\ UNCHANGED rcount

-----------------------------------------------------------------------------

Next == \E t \in Thread :
    \/ mode[t] = "out"     /\ (DownReadAction(t) \/ DownWriteAction(t))
    \/ mode[t] = "reading" /\ UpReadAction(t)
    \/ mode[t] = "writing" /\ UpWriteAction(t)

Spec == Init /\ [][Next]_vars

-----------------------------------------------------------------------------

Readers == {t \in Thread : mode[t] = "reading"}
Writers == {t \in Thread : mode[t] = "writing"}

TypeOK ==
    /\ wrt_lock \in Nat
    /\ rcount \in Nat
    /\ mode \in [Thread -> {"out", "reading", "writing"}]

(* The accounting that makes the lock work: rcount is the number of        *)
(* readers inside, and wrt_lock is down exactly once, for the only writer  *)
(* or for the readers together.                                            *)
Accounting ==
    /\ rcount = Cardinality(Readers)
    /\ Readers = {} \/ Writers = {}
    /\ \A t, u \in Writers : t = u
    /\ wrt_lock = IF Readers \cup Writers = {} THEN 1 ELSE 0

Inv == TypeOK /\ Accounting

Abstract == INSTANCE RWLockSpec
AbstractSpec == Abstract!Spec
=============================================================================
