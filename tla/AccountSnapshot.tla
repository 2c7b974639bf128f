-------------------------- MODULE AccountSnapshot ---------------------------
(***************************************************************************)
(* The printing thread at one account.  GetAccountsBalance                 *)
(* (AccountController.cpp:107-119) first copies the whole vector of        *)
(* accounts, the semaphores inside them included, and then calls           *)
(* GetBalance on each copy (operator<<, Account.cpp:94-99).  The compiler's *)
(* copy takes the members one by one in the order of Account.h:58-65, and  *)
(* it takes them without any lock: other readers of the list are inside    *)
(* GetBalance and SetBalance of the same account meanwhile.                *)
(*                                                                         *)
(* RWLock.tla supplies those other threads: reading is GetBalance, writing *)
(* is SetBalance (Account.cpp:52-83).                                      *)
(***************************************************************************)
EXTENDS RWLock

VARIABLES
    printer,      \* where the printing thread stands
    copy          \* the semaphores and the counter of its copy

allVars == <<vars, printer, copy>>

PrinterPlaces == {"rd_lock", "wrt_lock", "rcount", "enter", "first", "printed"}

SnapshotInit ==
    /\ Init
    /\ printer = "rd_lock"
    /\ copy = [rd_lock |-> 0, wrt_lock |-> 0, rcount |-> 0]

CopyRdLock ==
    /\ printer = "rd_lock"
    /\ copy' = [copy EXCEPT !.rd_lock = rd_lock]
    /\ printer' = "wrt_lock"

CopyWrtLock ==
    /\ printer = "wrt_lock"
    /\ copy' = [copy EXCEPT !.wrt_lock = wrt_lock]
    /\ printer' = "rcount"

CopyRcount ==
    /\ printer = "rcount"
    /\ copy' = [copy EXCEPT !.rcount = rcount]
    /\ printer' = "enter"

(* GetBalance on the copy.  Nobody else knows the copy, so a semaphore     *)
(* that came down stays down; once the two waits are over it returns.      *)
EnterCopy ==
    /\ printer = "enter"
    /\ copy.rd_lock > 0
    /\ copy' = [copy EXCEPT !.rd_lock = @ - 1, !.rcount = @ + 1]
    /\ printer' = "first"

ReadCopy ==
    /\ printer = "first"
    /\ copy.rcount = MinToReader => copy.wrt_lock > 0
    /\ printer' = "printed"
    /\ UNCHANGED copy

(* The next print starts from a new copy. *)
PrintAgain ==
    /\ printer = "printed"
    /\ printer' = "rd_lock"
    /\ UNCHANGED copy

PrinterStep ==
    CopyRdLock \/ CopyWrtLock \/ CopyRcount \/ EnterCopy \/ ReadCopy \/ PrintAgain

SnapshotNext ==
    \/ PrinterStep /\ UNCHANGED vars
    \/ Next /\ UNCHANGED <<printer, copy>>

(* The lock's fairness, for steps that leave the printer alone.            *)
SnapshotSpec ==
    /\ SnapshotInit /\ [][SnapshotNext]_allVars
    /\ Fairness
    /\ WF_allVars(PrinterStep /\ UNCHANGED vars)

(* Printing the balances comes to an end, whatever the other threads do:   *)
(* every entity of the program runs independently (README.md:11).          *)
PrinterReturns == printer = "rd_lock" ~> printer = "printed"
=============================================================================
