------------------------------- MODULE RWLock -------------------------------
(***************************************************************************)
(* The readers-writer lock of myBank, semaphore operation by semaphore     *)
(* operation.  The same algorithm guards the account list                  *)
(* (AccountController.cpp:153-183, between the Down... and Up... calls a   *)
(* thread works on the list) and one balance (Account.cpp:52-83: a writer  *)
(* is SetBalance, a reader is GetBalance).                                 *)
(*                                                                         *)
(* rcount is only touched by the holder of rd_lock, so an increment or a   *)
(* decrement is one step with the sem_wait before it.                      *)
(***************************************************************************)
EXTENDS RWLocker

VARIABLES
    rd_lock,      \* value of the semaphore that guards rcount
    wrt_lock,     \* value of the semaphore held by the writer or the readers
    rcount,       \* readers between their increment and their decrement
    at            \* where each thread stands in the four operations

vars == <<rd_lock, wrt_lock, rcount, at>>

Places ==
    {"out",
     "ask_read",      \* in DownReadAction, before or in its first sem_wait
     "ask_write",     \* in DownWriteAction, before or in its sem_wait
     "down_count",    \* counted in, about to look whether it is the first
     "down_post",     \* about to leave DownReadAction
     "reading",
     "up_count",      \* counted out, about to look whether it was the last
     "up_post",       \* about to leave UpReadAction
     "writing"}

Goto(t, place) == at' = [at EXCEPT ![t] = place]

(* Mutant of Init: the fresh page does not hold 0. *)
InitGarbage ==
    /\ rd_lock = MinToReader
    /\ wrt_lock = MinToReader
    /\ rcount = 1
    /\ at = [t \in Thread |-> "out"]

(* _db_rcount has no initialiser in the constructor: 0 is what the fresh   *)
(* heap page of the static object holds.                                   *)
Init ==
    /\ rd_lock = MinToReader
    /\ wrt_lock = MinToReader
    /\ rcount = 0
    /\ at = [t \in Thread |-> "out"]

-----------------------------------------------------------------------------
(* DownReadAction *)

AskRead(t) ==
    /\ at[t] = "out"
    /\ Goto(t, "ask_read")
    /\ UNCHANGED <<rd_lock, wrt_lock, rcount>>

DownReadCount(t) ==
    /\ at[t] = "ask_read"
    /\ rd_lock > 0
    /\ rd_lock' = rd_lock - 1
    /\ rcount' = rcount + 1
    /\ Goto(t, "down_count")
    /\ UNCHANGED wrt_lock

(* Mutant of DownReadFirst: the count is compared before it is raised. *)
DownReadNobodyFirst(t) ==
    /\ at[t] = "down_count"
    /\ IF rcount = MaxToWrite
         THEN wrt_lock > 0 /\ wrt_lock' = wrt_lock - 1
         ELSE UNCHANGED wrt_lock
    /\ Goto(t, "down_post")
    /\ UNCHANGED <<rd_lock, rcount>>

(* The first reader waits for wrt_lock with rd_lock in its hand, which     *)
(* keeps every later reader waiting behind it.                             *)
DownReadFirst(t) ==
    /\ at[t] = "down_count"
    /\ IF rcount = MinToReader
         THEN wrt_lock > 0 /\ wrt_lock' = wrt_lock - 1
         ELSE UNCHANGED wrt_lock
    /\ Goto(t, "down_post")
    /\ UNCHANGED <<rd_lock, rcount>>

DownReadPost(t) ==
    /\ at[t] = "down_post"
    /\ rd_lock' = rd_lock + 1
    /\ Goto(t, "reading")
    /\ UNCHANGED <<wrt_lock, rcount>>

(* UpReadAction *)

UpReadCount(t) ==
    /\ at[t] = "reading"
    /\ rd_lock > 0
    /\ rd_lock' = rd_lock - 1
    /\ rcount' = rcount - 1
    /\ Goto(t, "up_count")
    /\ UNCHANGED wrt_lock

(* Mutants of UpReadLast: the last reader keeps the semaphore, or every    *)
(* reader gives it back.                                                   *)
UpReadKeep(t) ==
    /\ at[t] = "up_count"
    /\ Goto(t, "up_post")
    /\ UNCHANGED <<rd_lock, wrt_lock, rcount>>

UpReadEach(t) ==
    /\ at[t] = "up_count"
    /\ wrt_lock' = wrt_lock + 1
    /\ Goto(t, "up_post")
    /\ UNCHANGED <<rd_lock, rcount>>

UpReadLast(t) ==
    /\ at[t] = "up_count"
    /\ wrt_lock' = IF rcount = MaxToWrite THEN wrt_lock + 1 ELSE wrt_lock
    /\ Goto(t, "up_post")
    /\ UNCHANGED <<rd_lock, rcount>>

UpReadPost(t) ==
    /\ at[t] = "up_post"
    /\ rd_lock' = rd_lock + 1
    /\ Goto(t, "out")
    /\ UNCHANGED <<wrt_lock, rcount>>

(* DownWriteAction, UpWriteAction *)

AskWrite(t) ==
    /\ at[t] = "out"
    /\ Goto(t, "ask_write")
    /\ UNCHANGED <<rd_lock, wrt_lock, rcount>>

DownWrite(t) ==
    /\ at[t] = "ask_write"
    /\ wrt_lock > 0
    /\ wrt_lock' = wrt_lock - 1
    /\ Goto(t, "writing")
    /\ UNCHANGED <<rd_lock, rcount>>

(* Mutant of UpWrite: the writer keeps the semaphore. *)
UpWriteKeep(t) ==
    /\ at[t] = "writing"
    /\ Goto(t, "out")
    /\ UNCHANGED <<rd_lock, wrt_lock, rcount>>

UpWrite(t) ==
    /\ at[t] = "writing"
    /\ wrt_lock' = wrt_lock + 1
    /\ Goto(t, "out")
    /\ UNCHANGED <<rd_lock, rcount>>

Step(t) ==
    \/ AskRead(t) \/ DownReadCount(t) \/ DownReadFirst(t) \/ DownReadPost(t)
    \/ UpReadCount(t) \/ UpReadLast(t) \/ UpReadPost(t)
    \/ AskWrite(t) \/ DownWrite(t) \/ UpWrite(t)

Next == \E t \in Thread : Step(t)

Spec == Init /\ [][Next]_vars

-----------------------------------------------------------------------------
(* Fairness: a thread that can go on goes on, and a thread in sem_wait is  *)
(* not overtaken for ever while the semaphore keeps coming up (a post      *)
(* wakes a waiter, and the threads that could overtake it sleep between    *)
(* their calls).  Nothing forces a thread to call, and nothing forces the  *)
(* readers to leave wrt_lock up.                                           *)

(* The steps that a sem_wait may hold up, and the others of a call. *)
Waits(t)  == DownReadCount(t) \/ DownReadFirst(t) \/ UpReadCount(t) \/ DownWrite(t)
GoesOn(t) == DownReadPost(t) \/ UpReadLast(t) \/ UpReadPost(t) \/ UpWrite(t)

Fairness == \A t \in Thread : SF_vars(Waits(t)) /\ WF_vars(GoesOn(t))

FairSpec == Spec /\ Fairness

-----------------------------------------------------------------------------
(* Properties *)

TypeOK ==
    /\ rd_lock \in {0, 1}
    /\ wrt_lock \in {0, 1}
    /\ rcount \in 0 .. Cardinality(Thread)
    /\ at \in [Thread -> Places]

(* The threads at one of these places. *)
In(places) == {t \in Thread : at[t] \in places}

InRead  == In({"down_post", "reading", "up_count"})
InWrite == In({"writing"})

(* Nobody reads the list or a balance while a thread writes it, and no two *)
(* threads write it (myBank/README.md:14, 16).                   *)
MutualExclusion ==
    /\ InRead = {} \/ InWrite = {}
    /\ \A t, u \in InWrite : t = u

(* The threads that hold rd_lock, and those rcount counts. *)
Inner   == In({"down_count", "down_post", "up_count", "up_post"})
Counted == In({"down_count", "down_post", "reading"})

(* The bookkeeping behind mutual exclusion: rd_lock admits one thread at a *)
(* time, rcount is the number of threads counted in, and wrt_lock is down  *)
(* exactly while the readers or the writer are inside.                     *)
OneInner    == /\ \A t, u \in Inner : t = u
               /\ rd_lock = IF Inner = {} THEN 1 ELSE 0
CountExact  == rcount = Cardinality(Counted)
GateExact   == wrt_lock = IF InRead \cup InWrite = {} THEN 1 ELSE 0
Bookkeeping == OneInner /\ CountExact /\ GateExact

IInv == TypeOK /\ Bookkeeping /\ MutualExclusion

(* A reader's two calls and a writer's UpWriteAction return, whoever else  *)
(* calls and however often: the second reader that waits for rd_lock       *)
(* behind the first, a first reader that waits for wrt_lock with rd_lock   *)
(* in its hand, and a thread inside that wants rd_lock to leave.  What a   *)
(* writer's DownWriteAction may wait for, WritersGetIn says.               *)
EveryCallReturns ==
    \A t \in Thread : at[t] \notin {"out", "ask_write"} ~> at[t] = "out"

(* The lock prefers readers: wrt_lock stays down as long as each reader    *)
(* arrives before the last one has left, and a writer then waits for ever. *)
(* That is the only way to be shut out of DownWriteAction: where the       *)
(* readers are all gone time and again, every writer gets in and out,      *)
(* whatever the other writers do.                                          *)
WritersGetIn ==
    []<>(InRead = {}) =>
        \A t \in Thread : at[t] = "ask_write" ~> at[t] = "out"

(* The calls are atomic: a thread is inside from the step in which it can  *)
(* no longer be refused until the step that can let the next one in.       *)
Mode == [t \in Thread |-> IF t \in InRead  THEN "reading"
                          ELSE IF t \in InWrite THEN "writing"
                          ELSE "out"]

Calls == INSTANCE RWLockCalls WITH rcount <- Cardinality(InRead), mode <- Mode
CallsSpec == Calls!Spec
=============================================================================
