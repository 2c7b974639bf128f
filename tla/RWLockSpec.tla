----------------------------- MODULE RWLockSpec -----------------------------
(***************************************************************************)
(* What myBank's readers-writer lock promises: AccountController guards    *)
(* the list of accounts with it (DownReadAction ... UpWriteAction), and    *)
(* Account guards a balance with it (GetBalance, SetBalance).  Any number  *)
(* of readers, or a single writer and nobody else.                         *)
(***************************************************************************)
CONSTANT Thread

VARIABLE mode     \* what each thread holds: nothing, a read or a write lock

Modes == {"out", "reading", "writing"}

TypeOK == mode \in [Thread -> Modes]

Init == mode = [t \in Thread |-> "out"]

EnterRead(t) ==
    /\ mode[t] = "out"
    /\ \A u \in Thread : mode[u] # "writing"
    /\ mode' = [mode EXCEPT ![t] = "reading"]

EnterWrite(t) ==
    /\ \A u \in Thread : mode[u] = "out"
    /\ mode' = [mode EXCEPT ![t] = "writing"]

Exit(t) ==
    /\ mode[t] # "out"
    /\ mode' = [mode EXCEPT ![t] = "out"]

Next == \E t \in Thread : EnterRead(t) \/ EnterWrite(t) \/ Exit(t)

Spec == Init /\ [][Next]_mode

(* A writer is alone: the account list is never changed while a thread     *)
(* reads it, and never by two threads (myBank/README.md:14).                *)
Exclusive ==
    \A t, u \in Thread : mode[t] = "writing" /\ t # u => mode[u] = "out"
=============================================================================
