------------------------- MODULE BankLedger_proofs -------------------------
(***************************************************************************)
(* The bank (Bank.tla) keeps the books of Ledger.tla: each step is one     *)
(* whole transaction of the ledger, or none, until an update is lost, a    *)
(* round of commissions is dropped, or a failing OpenAccount has unlocked  *)
(* the list twice.  For any ATMs and input files, and any width of the     *)
(* balances.                                                               *)
(***************************************************************************)
EXTENDS Bank_proofs

(* An ATM at work moves the sum that its line names.                       *)
Ready(t) == at[t] \in AtWork => loc[t].amount = Current(t).amount

Prepared == \A t \in ATM : Ready(t)

(* A step is right about this if it is right about the thread that moves.  *)
LEMMA StepPrepared ==
    ASSUME Prepared, NEW t \in Thread, Alone(t), t \in ATM => Ready(t)'
    PROVE  Prepared'
<1> SUFFICES ASSUME NEW u \in ATM, u # t PROVE Ready(u)'
  BY DEF Prepared
<1>1. at'[u] = at[u] /\ loc'[u] = loc[u] /\ Current(u)' = Current(u)
  BY Threads DEF Alone, Current
<1> QED
  BY <1>1 DEF Prepared, Ready

(* Going on with the same line and the same sum.                           *)
LEMMA StillReady ==
    ASSUME NEW t \in ATM, Ready(t), at[t] \in AtWork, UNCHANGED <<pos, file>>,
           loc'[t].amount = loc[t].amount
    PROVE  Ready(t)'
<1>1. Current(t)' = Current(t)
  BY DEF Current
<1> QED
  BY <1>1 DEF Ready

LEMMA AwayReady ==
    ASSUME Base, NEW t \in ATM, NEW p, p \notin AtWork, Goto(t, p)
    PROVE  Ready(t)'
  BY Threads, ShapeIs DEF Ready, Goto, Shape

(* The locals that an operation changes on its way.                        *)
LEMMA SumKept ==
    ASSUME Base, NEW t \in ATM,
           \/ UNCHANGED loc
           \/ \E says : Fail(t, says)
           \/ \E i, j : loc' = [loc EXCEPT ![t].idx = i, ![t].dst = j]
           \/ \E b : loc' = [loc EXCEPT ![t].bal = b]
    PROVE  loc'[t].amount = loc[t].amount
<1>1. loc \in [Thread -> Locals] /\ t \in Thread
  BY Threads, ShapeIs DEF Shape
<1>2. ASSUME NEW l, loc' = [loc EXCEPT ![t] = l], l.amount = loc[t].amount
      PROVE  loc'[t].amount = loc[t].amount
  BY <1>1, <1>2
<1>3. ASSUME NEW says, Fail(t, says) PROVE loc'[t].amount = loc[t].amount
  <2>1. loc' = [loc EXCEPT ![t] = [loc[t] EXCEPT !.ok = FALSE, !.says = says]]
    BY <1>1, <1>3 DEF Fail, Locals
  <2>2. [loc[t] EXCEPT !.ok = FALSE, !.says = says].amount = loc[t].amount
    BY <1>1 DEF Locals
  <2> QED
    BY <1>2, <2>1, <2>2
<1>4. ASSUME NEW i, NEW j, loc' = [loc EXCEPT ![t].idx = i, ![t].dst = j]
      PROVE  loc'[t].amount = loc[t].amount
  <2>1. loc' = [loc EXCEPT ![t] = [loc[t] EXCEPT !.idx = i, !.dst = j]]
    BY <1>1, <1>4 DEF Locals
  <2>2. [loc[t] EXCEPT !.idx = i, !.dst = j].amount = loc[t].amount
    BY <1>1 DEF Locals
  <2> QED
    BY <1>2, <2>1, <2>2
<1>5. ASSUME NEW b, loc' = [loc EXCEPT ![t].bal = b]
      PROVE  loc'[t].amount = loc[t].amount
  <2>1. [loc[t] EXCEPT !.bal = b].amount = loc[t].amount
    BY <1>1 DEF Locals
  <2> QED
    BY <1>2, <1>5, <2>1
<1> QED
  BY <1>3, <1>4, <1>5

LEMMA ATMReady ==
    ASSUME Base, NEW t \in ATM, Ready(t), ThreadStep(t), file' = file
    PROVE  Ready(t)'
<1>1. t \in Thread /\ t # Com /\ t # Prt
  BY Threads
<1>2. CASE Start(t) \/ ShortLine(t) \/ RefuseLine(t) \/ EndOfFile(t) \/ UnlockAgain(t)
  <2>1. at'[t] \in {"idle", "done"}
    BY <1>1, <1>2, ShapeIs
    DEF Start, ShortLine, RefuseLine, EndOfFile, UnlockAgain, Goto, Shape
  <2> QED
    BY <2>1 DEF Ready, AtWork, Locked
<1>3. CASE AcceptLine(t)
  <2>1. loc'[t] = [Fresh EXCEPT !.amount = Current(t).amount] /\ UNCHANGED pos
    BY <1>1, <1>3, ShapeIs DEF AcceptLine, io, Shape
  <2>2. loc'[t].amount = Current(t).amount
    BY <2>1 DEF Fresh
  <2>3. Current(t)' = Current(t)
    BY <2>1 DEF Current
  <2> QED
    BY <2>2, <2>3 DEF Ready
<1>4. CASE Lock(t)
  <2>1. at[t] \in AtWork /\ UNCHANGED <<pos, loc>>
    BY <1>4 DEF Lock, io, AtWork
  <2> QED
    BY <2>1, StillReady
<1>5. CASE Leave(t)
  <2>1. CASE UNCHANGED <<pos, loc>>
    BY <1>5, <2>1, StillReady DEF Leave, AtWork, Locked
  <2>2. CASE Goto(t, "idle")
    BY <2>2, AwayReady DEF AtWork, Locked
  <2> QED
    BY <1>1, <1>5, <2>1, <2>2 DEF Leave
<1>6. CASE \/ TakeTest(t) \/ TakeRead(t) \/ TakeWrite(t) \/ CheckOpen(t) \/ Insert(t)
           \/ CheckAccount(t) \/ CheckTransfer(t) \/ AddRead(t) \/ AddWrite(t)
           \/ Report(t) \/ Erase(t)
  <2>1. at[t] \in AtWork /\ UNCHANGED pos
    BY <1>6
    DEF TakeTest, TakeRead, TakeWrite, CheckOpen, Insert, CheckAccount, CheckTransfer,
        AddRead, AddWrite, Report, Erase, inside, io, AtWork, Locked
  <2>2. \/ UNCHANGED loc
        \/ \E says : Fail(t, says)
        \/ \E i, j : loc' = [loc EXCEPT ![t].idx = i, ![t].dst = j]
        \/ \E b : loc' = [loc EXCEPT ![t].bal = b]
    <3>1. CASE TakeTest(t) \/ TakeRead(t) \/ TakeWrite(t)
      BY <1>1, <3>1 DEF TakeTest, TakeRead, TakeWrite
    <3>2. CASE CheckOpen(t) \/ CheckAccount(t) \/ CheckTransfer(t)
      BY <3>2 DEF CheckOpen, CheckAccount, CheckTransfer
    <3>3. CASE Insert(t) \/ AddRead(t) \/ AddWrite(t) \/ Report(t) \/ Erase(t)
      BY <3>3 DEF Insert, AddRead, AddWrite, Report, Erase
    <3> QED
      BY <1>6, <3>1, <3>2, <3>3
  <2>3. loc'[t].amount = loc[t].amount
    BY <2>2, SumKept
  <2> QED
    BY <2>1, <2>3, StillReady
<1> QED
  BY <1>1, <1>2, <1>3, <1>4, <1>5, <1>6 DEF ThreadStep, ATMStep

(* Prepared is inductive relative to Base.                                 *)
LEMMA NextPrepared == Base /\ Prepared /\ [Next]_vars => Prepared'
<1> SUFFICES ASSUME Base, Prepared, [Next]_vars PROVE Prepared'
  OBVIOUS
<1>1. ASSUME UNCHANGED <<pos, at, loc, file>> PROVE Prepared'
  BY <1>1 DEF Prepared, Ready, Current
<1>2. ASSUME NEW t \in Thread, ThreadStep(t), file' = file
      PROVE  Prepared'
  <2>1. Alone(t)
    BY <1>2, StepAlone
  <2>2. t \in ATM => Ready(t)'
    BY <1>2, ATMReady DEF Prepared
  <2> QED
    BY <2>1, <2>2, StepPrepared
<1>3. CASE CreateThread /\ file' = file
  <2>1. PICK t \in Thread, p \in {"start", "idle"} : Goto(t, p)
    BY <1>3 DEF CreateThread
  <2>2. Alone(t)
    BY <1>3, <2>1, ShapeIs DEF CreateThread, Goto, Alone, history, io, Shape
  <2>3. t \in ATM => Ready(t)'
    BY <2>1, AwayReady DEF AtWork, Locked
  <2> QED
    BY <2>2, <2>3, StepPrepared
<1>4. CASE PrintHangs /\ file' = file
  <2>1. Alone(Prt) /\ Prt \in Thread /\ Prt \notin ATM
    BY <1>4, Threads, ShapeIs DEF PrintHangs, Goto, Alone, shared, history, io, Shape
  <2> QED
    BY <2>1, StepPrepared
<1>5. CASE UNCHANGED vars \/ ((JoinATMs \/ JoinBank \/ CreateFails) /\ file' = file)
  BY <1>1, <1>5 DEF vars, JoinATMs, JoinBank, CreateFails, io
<1> QED
  BY <1>2, <1>3, <1>4, <1>5 DEF Next, Running, MainStep

LEMMA InitPrepared == Init => Prepared
  BY Threads DEF Init, Prepared, Ready, AtWork, Locked

-----------------------------------------------------------------------------
(* The balances that the ledger sees *)

(* While numbers are unique, an account is found by its number.            *)
LEMMA Found ==
    ASSUME TypeOK, OneEach, NEW i \in DOMAIN accounts
    PROVE  IndexFromID(accounts[i].id) = i
<1>1. accounts \in Seq(Account)
  BY TypesAre DEF Rest
<1> QED
  BY <1>1, LookUp DEF OneEach, OnList

(* A book of the balances, account by account.                             *)
IsBook(f) ==
    /\ f = [id \in Numbers |-> f[id]]
    /\ \A i \in DOMAIN accounts :
         f[accounts[i].id] = accounts[i].bal + Pending(accounts[i].id)

(* There is one such book.                                                 *)
OneBook == IsBook(Balance) /\ \A f : IsBook(f) => Balance = f

LEMMA BookIs == TypeOK /\ OneEach => OneBook
<1> SUFFICES ASSUME TypeOK, OneEach
             PROVE  IsBook(Balance) /\ \A f : IsBook(f) => Balance = f
  BY DEF OneBook
<1>1. Balance = [id \in Numbers |-> accounts[IndexFromID(id)].bal + Pending(id)]
  BY DEF Balance
<1>2. \A i \in DOMAIN accounts : IndexFromID(accounts[i].id) = i /\ accounts[i].id \in Numbers
  BY Found DEF Numbers
<1>3. IsBook(Balance)
  BY <1>1, <1>2 DEF IsBook
<1>4. ASSUME NEW f, IsBook(f) PROVE Balance = f
  <2>1. \A id \in Numbers : f[id] = accounts[IndexFromID(id)].bal + Pending(id)
    BY <1>2, <1>4 DEF IsBook, Numbers
  <2> QED
    BY <1>1, <1>4, <2>1 DEF IsBook
<1> QED
  BY <1>3, <1>4

(* What is pending if at most one transfer is halfway.                     *)
OnePending ==
    \A t \in Thread : Halfway \subseteq {t} =>
      \A id : Pending(id) =
                IF t \in Halfway /\ Current(t).id = id THEN loc[t].amount ELSE 0

LEMMA PendingIs == TypeOK => OnePending
<1> SUFFICES ASSUME TypeOK, NEW t \in Thread, Halfway \subseteq {t}, NEW id
             PROVE  Pending(id) =
                      IF t \in Halfway /\ Current(t).id = id THEN loc[t].amount ELSE 0
  BY DEF OnePending
<1> DEFINE S == {u \in Halfway : Current(u).id = id}
           f == [u \in S |-> loc[u].amount]
<1>1. Pending(id) = SumFunction(f)
  BY DEF Pending
<1>2. \A h : DOMAIN h = {} => SumFunction(h) = 0
  BY SumOfNone DEF SumFunction
<1>3. CASE ~(t \in Halfway /\ Current(t).id = id)
  <2>1. S = {}
    BY <1>3
  <2>2. DOMAIN f = {}
    BY <2>1
  <2> QED
    BY <1>1, <1>2, <1>3, <2>2
<1>4. CASE t \in Halfway /\ Current(t).id = id
  <2>1. S = {t}
    BY <1>4
  <2>2. loc[t].amount \in Int
    BY ShapeIs DEF Locals, Shape
  <2>3. DOMAIN f = {t} /\ f[t] = loc[t].amount /\ IsFiniteSet({t})
    BY <2>1, FS_Singleton
  <2> HIDE DEF f
  <2>4. SumFunctionOnSet(f, {t}) = f[t] + SumFunctionOnSet(f, {t} \ {t})
    BY <2>2, <2>3, SumWithout
  <2>5. SumFunctionOnSet(f, {t} \ {t}) = 0
    <3>1. {t} \ {t} = {}
      OBVIOUS
    <3> QED
      BY <3>1, SumOfNone
  <2>6. SumFunction(f) = loc[t].amount
    BY <2>2, <2>3, <2>4, <2>5 DEF SumFunction
  <2> QED
    BY <1>1, <1>4, <2>6
<1> QED
  BY <1>3, <1>4

(* A thread that holds the list's lock, while that lock holds, sees no     *)
(* transfer halfway but its own; nor does its step start another's.        *)
LEMMA OnlyOwn ==
    ASSUME Base, surplus = 0, NEW t \in Thread, at[t] \in Locked, Alone(t)
    PROVE  Halfway \subseteq {t} /\ Halfway' \subseteq {t}
<1>1. ASSUME NEW u \in Halfway PROVE u = t
  <2>1. u \in Thread /\ mode[u] = "writing"
    BY Threads DEF Halfway, Base, Holding, ModeAt, Writes, Locked
  <2>2. u \in Inside /\ t \in Inside
    BY <2>1 DEF Base, Holding, ModeAt, Inside
  <2>3. Inside = {u}
    BY <2>1, <2>2 DEF Base, LockBooks, ListExclusive
  <2> QED
    BY <2>2, <2>3
<1>2. Halfway' \subseteq Thread
  BY Threads DEF Halfway
<1> QED
  BY <1>1, <1>2, OthersHalfway

(* What is pending before and after a step inside the lock.                *)
LEMMA PendingStep ==
    ASSUME Base, TypeOK', surplus = 0, NEW t \in Thread, at[t] \in Locked, Alone(t)
    PROVE  /\ \A id : Pending(id) =
                IF t \in Halfway /\ Current(t).id = id THEN loc[t].amount ELSE 0
           /\ \A id : Pending(id)' =
                IF t \in Halfway' /\ Current(t)'.id = id THEN loc'[t].amount ELSE 0
<1>1. Halfway \subseteq {t} /\ Halfway' \subseteq {t}
  BY OnlyOwn
<1>2. (TypeOK => OnePending)'
  BY PendingIs, PTL
<1> QED
  BY <1>1, <1>2, PendingIs DEF Base, OnePending

(* The book after a step.                                                  *)
LEMMA BookNext ==
    ASSUME TypeOK', OneEach', NEW f, f = [id \in Numbers' |-> f[id]],
           \A i \in DOMAIN accounts' :
             f[accounts'[i].id] = accounts'[i].bal + Pending(accounts[i].id)'
    PROVE  Balance' = f
<1>1. (TypeOK /\ OneEach => OneBook)'
  BY BookIs, PTL
<1>2. IsBook(f)'
  BY DEF IsBook
<1> QED
  BY <1>1, <1>2 DEF OneBook

(* The book after a step of a thread that keeps every account in place.    *)
LEMMA BookInPlace ==
    ASSUME TypeOK', OneEach', SameIds, NEW f, f = [id \in Numbers |-> f[id]],
           \A i \in DOMAIN accounts :
             f[accounts[i].id] = accounts'[i].bal + Pending(accounts[i].id)'
    PROVE  Balance' = f
<1>1. Numbers' = Numbers
  BY DEF Numbers, SameIds
<1>2. \A i \in DOMAIN accounts' :
        f[accounts'[i].id] = accounts'[i].bal + Pending(accounts[i].id)'
  BY DEF SameIds
<1> QED
  BY <1>1, <1>2, BookNext

(* A step that touches no account and no transfer halfway.                 *)
LEMMA SameBook ==
    ASSUME NEW t \in Thread, Alone(t), UNCHANGED accounts, t \in Halfway' <=> t \in Halfway,
           t \in Halfway => loc'[t].amount = loc[t].amount /\ Current(t)' = Current(t)
    PROVE  Balance' = Balance
<1>1. Halfway \subseteq Thread /\ Halfway' \subseteq Thread
  BY Threads DEF Halfway
<1>2. Halfway' = Halfway
  BY <1>1, OthersHalfway
<1>3. \A u \in Halfway : loc'[u].amount = loc[u].amount /\ Current(u)' = Current(u)
  BY <1>1 DEF Alone, Current, Halfway
<1>4. ASSUME NEW id PROVE Pending(id)' = Pending(id)
  BY <1>2, <1>3 DEF Pending
<1>5. \A id : IndexFromID(id)' = IndexFromID(id)
  BY DEF IndexFromID, SelectInSeq
<1> QED
  BY <1>4, <1>5 DEF Balance, Numbers

-----------------------------------------------------------------------------
(* The steps that move money, as transactions of the ledger *)

(* What a step starts from and where it ends, as long as nothing is lost   *)
(* and the list's lock holds.                                              *)
Sound == Base /\ Safe /\ Prepared /\ surplus = 0

SoundStep == Sound /\ Base' /\ Safe' /\ surplus' = 0 /\ ~lost'

LEMMA SoundIs ==
    ASSUME SoundStep
    PROVE  /\ TypeOK /\ TypeOK' /\ Base /\ OneEach /\ OneEach' /\ surplus = 0 /\ ~lost'
           /\ \A t \in Thread : Knows(t)
           /\ accounts \in Seq(Account)
           /\ IsBook(Balance) /\ Balance = [id \in Numbers |-> Balance[id]]
           /\ DOMAIN Balance = Numbers
<1>1. TypeOK /\ TypeOK' /\ Base /\ OneEach /\ OneEach' /\ surplus = 0 /\ ~lost'
  BY DEF SoundStep, Sound, Base, Safe
<1>2. \A t \in Thread : Knows(t)
  BY DEF SoundStep, Sound, Safe
<1>3. IsBook(Balance)
  BY <1>1, BookIs DEF OneBook
<1>4. Balance = [id \in Numbers |-> Balance[id]] /\ DOMAIN Balance = Numbers
  BY DEF Balance
<1> QED
  BY <1>1, <1>2, <1>3, <1>4, SameAccounts

(* The sum that an ATM moves is one that the input files name.             *)
LEMMA SumNamed ==
    ASSUME Base, Prepared, NEW t \in ATM, at[t] \in Locked, Current(t).op \notin {"B", "Q"}
    PROVE  Current(t).amount \in Amount /\ loc[t].amount = Current(t).amount
<1>1. pos[t] <= Len(file[t]) /\ Accepted(Current(t))
  BY WorksOn
<1>2. Current(t).amount \in Amount
  BY <1>1, LineAt DEF Base
<1> QED
  BY <1>2 DEF Prepared, Ready, AtWork

(* OpenAccount opens an account.                                           *)
LEMMA InsertOpens ==
    ASSUME SoundStep, NEW t \in ATM, Insert(t), Alone(t)
    PROVE  /\ Current(t).id \in AccountId /\ Current(t).amount \in Amount
           /\ Books!Open(Current(t).id, Current(t).amount)
<1> DEFINE id == Current(t).id
           a == Current(t).amount
           n == Len(accounts)
           f == [other \in DOMAIN Balance \cup {id} |->
                   IF other = id THEN a ELSE Balance[other]]
<1>1. /\ t \in Thread /\ at[t] = "insert" /\ at'[t] = "leave" /\ at[t] \in Locked
      /\ Base /\ Prepared /\ Current(t).op = "O"
  <2>1. t \in Thread /\ at[t] = "insert" /\ Goto(t, "leave") /\ Base /\ Prepared
    BY Threads DEF Insert, SoundStep, Sound
  <2>2. Current(t).op = "O"
    BY <2>1 DEF Base, Standing, Follows
  <2> QED
    BY <2>1, <2>2, ShapeIs DEF Goto, Shape, Locked
<1>2. id \in AccountId /\ a \in Amount /\ a \in Nat /\ a % ULLMod = a
  <2>1. pos[t] <= Len(file[t]) /\ Accepted(Current(t))
    BY <1>1, WorksOn
  <2>2. id \in AccountId /\ a \in Amount /\ a \in Nat /\ a < ULLMod
    BY <1>1, <2>1, LineAt, SumNamed DEF Base
  <2> QED
    BY <2>2, BankAssumption
<1>3. \A x : Pending(x) = 0 /\ Pending(x)' = 0
  <2>1. t \notin Halfway /\ t \notin Halfway'
    BY <1>1 DEF Halfway
  <2> QED
    BY <1>1, <2>1, SoundIs, PendingStep
<1>4. \A i \in DOMAIN accounts : accounts[i].id # id
  BY <1>1, SoundIs DEF Knows
<1> DEFINE e == [id |-> Current(t).id, pw |-> Current(t).pw, bal |-> a]
<1>5. /\ n \in Nat /\ DOMAIN accounts = 1 .. n /\ DOMAIN accounts' = 1 .. n + 1
      /\ accounts'[n + 1] = e /\ \A i \in 1 .. n : accounts'[i] = accounts[i]
  <2>1. accounts \in Seq(Account) /\ n \in Nat /\ DOMAIN accounts = 1 .. n
    BY SoundIs, LenProperties
  <2>2. accounts' = Append(accounts, e)
    BY <1>2 DEF Insert
  <2> HIDE DEF e
  <2> QED
    BY <2>1, <2>2
<1>6. e.id = id /\ e.bal = a
  OBVIOUS
<1> HIDE DEF e, n
<1>7. \A i \in 1 .. n + 1 : i \in 1 .. n \/ i = n + 1
  BY <1>5
<1>8. n + 1 \in 1 .. n + 1 /\ \A i \in 1 .. n : i \in 1 .. n + 1
  BY <1>5
<1>9. Numbers' = Numbers \cup {id}
  BY <1>5, <1>6, <1>7, <1>8 DEF Numbers
<1> HIDE DEF id, a
<1>10. Balance' = f
  <2>1. f = [x \in Numbers \cup {id} |-> f[x]]
    BY SoundIs
  <2>2. f[id] = a
    OBVIOUS
  <2>3. ASSUME NEW i \in 1 .. n
        PROVE  f[accounts[i].id] = accounts[i].bal
    <3>1. accounts[i].id \in Numbers /\ accounts[i].id # id
      BY <1>4, <1>5 DEF Numbers
    <3>2. Balance[accounts[i].id] = accounts[i].bal + 0
      BY <1>3, <1>5, SoundIs DEF IsBook
    <3>3. accounts[i].bal \in Nat
      BY <1>5, SoundIs, BalanceRead, BankAssumption DEF OnList, Account
    <3> QED
      BY <3>1, <3>2, <3>3, SoundIs
  <2> HIDE DEF f
  <2>4. ASSUME NEW i \in DOMAIN accounts'
        PROVE  f[accounts'[i].id] = accounts'[i].bal + Pending(accounts[i].id)'
    <3>1. accounts'[i].bal + 0 = accounts'[i].bal
      <4>1. accounts'[i].bal \in Nat
        <5>1. CASE i \in 1 .. n
          BY <1>5, <5>1, SoundIs, BalanceRead, BankAssumption DEF OnList, Account
        <5>2. CASE i = n + 1
          BY <1>2, <1>5, <1>6, <5>2 DEF a
        <5> QED
          BY <1>5, <1>7, <5>1, <5>2
      <4> QED
        BY <4>1
    <3>2. f[accounts'[i].id] = accounts'[i].bal
      BY <1>5, <1>6, <1>7, <2>2, <2>3
    <3> QED
      BY <1>3, <3>1, <3>2
  <2> QED
    BY <1>9, <2>1, <2>4, SoundIs, BookNext
<1>11. id \notin DOMAIN Balance
  BY <1>4, SoundIs DEF Numbers
<1>12. UNCHANGED <<loc[Com].tot, vault>>
  BY DEF Insert, inside
<1> QED
  BY <1>2, <1>10, <1>11, <1>12 DEF Books!Open, id, a

(* CloseAccount closes one.                                                *)
LEMMA EraseCloses ==
    ASSUME SoundStep, NEW t \in ATM, Erase(t), Alone(t)
    PROVE  \E id \in DOMAIN Balance : Books!Close(id)
<1> DEFINE k == loc[t].idx
           n == Len(accounts)
           id == accounts[k].id
           f == [other \in DOMAIN Balance \ {id} |-> Balance[other]]
<1>1. t \in Thread /\ at[t] = "erase" /\ at'[t] = "leave" /\ at[t] \in Locked
  <2>1. t \in Thread /\ at[t] = "erase" /\ Goto(t, "leave")
    BY Threads DEF Erase
  <2> QED
    BY <2>1, SoundIs, ShapeIs DEF Goto, Shape, Locked
<1>2. \A x : Pending(x) = 0 /\ Pending(x)' = 0
  <2>1. t \notin Halfway /\ t \notin Halfway'
    BY <1>1 DEF Halfway
  <2> QED
    BY <1>1, <2>1, SoundIs, PendingStep
<1>3. accounts \in Seq(Account) /\ n \in Nat /\ DOMAIN accounts = 1 .. n /\ k \in 1 .. n
  BY SoundIs, LenProperties DEF Erase, OnList
<1>4. /\ DOMAIN accounts' = 1 .. n - 1
      /\ \A i \in 1 .. n - 1 : accounts'[i] = IF i < k THEN accounts[i] ELSE accounts[i + 1]
  <2>1. accounts' = RemoveAt(accounts, k)
    BY DEF Erase
  <2>2. /\ accounts' \in Seq(Account) /\ Len(accounts') = n - 1
        /\ \A i \in 1 .. n - 1 : accounts'[i] = IF i < k THEN accounts[i] ELSE accounts[i + 1]
    BY <1>3, <2>1, Removed
  <2> QED
    BY <2>2, LenProperties
<1> HIDE DEF k, n
<1>5. ASSUME NEW i \in 1 .. n - 1
      PROVE  \E j \in 1 .. n : j # k /\ accounts'[i] = accounts[j]
  <2>1. CASE i < k
    <3>1. i \in 1 .. n /\ i # k
      BY <1>3, <2>1
    <3> QED
      BY <1>4, <2>1, <3>1
  <2>2. CASE ~(i < k)
    <3>1. i + 1 \in 1 .. n /\ i + 1 # k
      BY <1>3, <2>2
    <3> QED
      BY <1>4, <2>2, <3>1
  <2> QED
    BY <2>1, <2>2
<1>6. ASSUME NEW j \in 1 .. n, j # k
      PROVE  \E i \in 1 .. n - 1 : accounts'[i] = accounts[j]
  <2>1. CASE j < k
    <3>1. j \in 1 .. n - 1
      BY <1>3, <2>1
    <3> QED
      BY <1>4, <2>1, <3>1
  <2>2. CASE j > k
    <3>1. j - 1 \in 1 .. n - 1 /\ ~(j - 1 < k) /\ (j - 1) + 1 = j
      BY <1>3, <2>2
    <3> QED
      BY <1>4, <3>1
  <2> QED
    BY <1>3, <1>6, <2>1, <2>2
<1>7. \A j \in 1 .. n : j # k => accounts[j].id # id
  BY <1>3, SoundIs DEF OneEach
<1>8. Numbers' = Numbers \ {id}
  <2>1. Numbers' = {accounts'[i].id : i \in 1 .. n - 1}
    BY <1>4 DEF Numbers
  <2>2. Numbers = {accounts[j].id : j \in 1 .. n}
    BY <1>3 DEF Numbers
  <2>3. ASSUME NEW x \in Numbers' PROVE x \in Numbers \ {id}
    BY <1>5, <1>7, <2>1, <2>2
  <2>4. ASSUME NEW x \in Numbers \ {id} PROVE x \in Numbers'
    <3>1. PICK j \in 1 .. n : x = accounts[j].id /\ j # k
      BY <2>2
    <3> QED
      BY <1>6, <2>1, <3>1
  <2> QED
    BY <2>3, <2>4
<1>9. id \in DOMAIN Balance
  BY <1>3, SoundIs DEF Numbers
<1> HIDE DEF id
<1>10. Balance' = f
  <2>1. f = [x \in Numbers \ {id} |-> f[x]]
    BY SoundIs
  <2>2. ASSUME NEW i \in DOMAIN accounts'
        PROVE  f[accounts'[i].id] = accounts'[i].bal + Pending(accounts[i].id)'
    <3>1. PICK j \in 1 .. n : j # k /\ accounts'[i] = accounts[j]
      BY <1>4, <1>5
    <3>2. accounts[j].id \in Numbers \ {id}
      BY <1>3, <1>7, <3>1 DEF Numbers
    <3>3. Balance[accounts[j].id] = accounts[j].bal + 0
      BY <1>2, <1>3, SoundIs DEF IsBook
    <3>4. f[accounts[j].id] = accounts[j].bal + 0
      BY <3>2, <3>3, SoundIs
    <3> QED
      BY <1>2, <3>1, <3>4
  <2> HIDE DEF f
  <2> QED
    BY <1>8, <2>1, <2>2, SoundIs, BookNext
<1>11. UNCHANGED <<loc[Com].tot, vault>>
  BY DEF Erase, inside
<1> QED
  BY <1>9, <1>10, <1>11 DEF Books!Close

(* SetBalance writes what it should, unless the reading was stale or cut   *)
(* off.                                                                    *)
LEMMA TakeWrites ==
    ASSUME SoundStep, NEW t \in Thread, TakeWrite(t), Alone(t)
    PROVE  /\ t \in ATM \/ t = Com
           /\ t \in ATM => Current(t).op \in {"W", "T"}
           /\ loc[t] \in Locals /\ loc[t].amount \in Nat /\ loc[t].bal \in Nat
           /\ at[t] = "take_write" /\ at[t] \in Locked
           /\ OnList(loc[t].idx) /\ SameIds
           /\ loc[t].amount <= accounts[loc[t].idx].bal
           /\ accounts'[loc[t].idx].bal = accounts[loc[t].idx].bal - loc[t].amount
           /\ \A j \in DOMAIN accounts :
                j # loc[t].idx => accounts'[j].bal = accounts[j].bal
<1> DEFINE i == loc[t].idx
           a == loc[t].amount
           b == loc[t].bal - a
<1>1. /\ loc[t] \in Locals /\ at[t] = "take_write" /\ at[t] \in Locked
      /\ t \in ATM \/ t = Com
      /\ t \in ATM => Current(t).op \in {"W", "T"}
  BY SoundIs, Takers DEF TakeWrite
<1>2. a \in Nat /\ loc[t].bal \in Nat
  BY <1>1 DEF Locals
<1>3. OnList(i) /\ SetBalance(i, b) /\ accounts[i].bal = loc[t].bal /\ ~(loc[t].bal < a)
  BY SoundIs DEF TakeWrite
<1>4. accounts[i].bal \in Nat /\ accounts[i].bal < ULLMod
  <2>1. accounts[i] \in Account
    BY <1>3, SoundIs, BalanceRead
  <2> QED
    BY <2>1, BankAssumption DEF Account
<1>5. b \in Nat /\ b < ULLMod /\ b \in Int
  <2> HIDE DEF i, a
  <2>1. \A x, y \in Nat : ~(x < y) /\ x < ULLMod => x - y \in Nat /\ x - y < ULLMod
    BY BankAssumption
  <2> QED
    BY <1>2, <1>3, <1>4, <2>1
<1> HIDE DEF b
<1>6. b % ULLMod = b
  BY <1>5, BankAssumption
<1>7. /\ DOMAIN accounts' = DOMAIN accounts /\ accounts'[i].bal = b
      /\ \A j \in DOMAIN accounts :
           /\ accounts'[j].id = accounts[j].id
           /\ j # i => accounts'[j].bal = accounts[j].bal
  BY <1>3, <1>5, <1>6, SoundIs, BalanceSet
<1>8. a <= accounts[i].bal /\ accounts'[i].bal = accounts[i].bal - a
  BY <1>2, <1>3, <1>4, <1>7 DEF b
<1> QED
  BY <1>1, <1>2, <1>3, <1>7, <1>8 DEF SameIds

(* One balance changes, and no transfer is halfway.                        *)
LEMMA OneBalance ==
    ASSUME SoundStep, NEW t \in Thread, at[t] \in Locked, Alone(t),
           t \notin Halfway, t \notin Halfway', SameIds,
           NEW i, OnList(i), NEW b \in Nat, accounts'[i].bal = b,
           \A j \in DOMAIN accounts : j # i => accounts'[j].bal = accounts[j].bal
    PROVE  /\ accounts[i].id \in DOMAIN Balance
           /\ Balance[accounts[i].id] = accounts[i].bal /\ accounts[i].bal \in Nat
           /\ Balance' = [Balance EXCEPT ![accounts[i].id] = b]
<1> DEFINE id == accounts[i].id
           f == [Balance EXCEPT ![id] = b]
<1>1. \A x : Pending(x) = 0 /\ Pending(x)' = 0
  BY SoundIs, PendingStep
<1>2. \A j \in DOMAIN accounts : accounts[j].bal \in Nat
  BY SoundIs, BalanceRead, BankAssumption DEF OnList, Account
<1>3. \A j \in DOMAIN accounts :
        accounts[j].id \in Numbers /\ Balance[accounts[j].id] = accounts[j].bal
  BY <1>1, <1>2, SoundIs DEF IsBook, Numbers
<1>4. i \in DOMAIN accounts /\ \A j \in DOMAIN accounts : j # i => accounts[j].id # id
  BY SoundIs DEF OneEach, OnList
<1>5. f = [x \in Numbers |-> f[x]]
  BY SoundIs
<1>6. ASSUME NEW j \in DOMAIN accounts
      PROVE  f[accounts[j].id] = accounts'[j].bal + Pending(accounts[j].id)'
  <2>1. CASE j = i
    BY <1>1, <1>3, <2>1, SoundIs
  <2>2. CASE j # i
    BY <1>1, <1>2, <1>3, <1>4, <2>2, SoundIs
  <2> QED
    BY <2>1, <2>2
<1> HIDE DEF f
<1>7. Balance' = f
  BY <1>5, <1>6, SoundIs, BookInPlace
<1> QED
  BY <1>2, <1>3, <1>4, <1>7, SoundIs DEF f

(* A withdrawal and a commission are one step; the first half of a         *)
(* transfer is none.                                                       *)
LEMMA TakeWithdraws ==
    ASSUME SoundStep, NEW t \in Thread, TakeWrite(t), Alone(t)
    PROVE  Books!Next \/ UNCHANGED Books!vars
<1> DEFINE i == loc[t].idx
           a == loc[t].amount
           id == accounts[i].id
           b == accounts[i].bal - a
<1>1. /\ t \in ATM \/ t = Com
      /\ t \in ATM => Current(t).op \in {"W", "T"}
      /\ loc[t] \in Locals /\ a \in Nat /\ at[t] = "take_write" /\ at[t] \in Locked
      /\ OnList(i) /\ SameIds /\ a <= accounts[i].bal /\ accounts'[i].bal = b
      /\ \A j \in DOMAIN accounts : j # i => accounts'[j].bal = accounts[j].bal
  BY TakeWrites
<1>2. accounts[i].bal \in Nat /\ b \in Nat
  BY <1>1, SoundIs, BalanceRead, BankAssumption DEF Account
<1>3. vault' = vault
  BY DEF TakeWrite, inside
<1>4. t \notin Halfway
  BY <1>1 DEF Halfway
<1> HIDE DEF i, a, b
<1>5. ASSUME t \notin Halfway'
      PROVE  /\ id \in DOMAIN Balance /\ a <= Balance[id] /\ Balance[id] \in Nat
             /\ Balance' = [Balance EXCEPT ![id] = @ - a]
  <2>1. /\ id \in DOMAIN Balance /\ Balance[id] = accounts[i].bal
        /\ Balance' = [Balance EXCEPT ![id] = b]
    BY <1>1, <1>2, <1>4, <1>5, OneBalance
  <2> QED
    BY <1>1, <1>2, <2>1 DEF b
<1>6. CASE t \in ATM /\ Current(t).op = "W"
  <2>1. at'[t] = "report" /\ loc' = loc /\ t # Com
    BY <1>1, <1>6, SoundIs, Threads, ShapeIs DEF TakeWrite, Goto, Shape
  <2>2. t \notin Halfway'
    BY <2>1 DEF Halfway
  <2>3. a \in Amount
    BY <1>1, <1>6, SumNamed DEF SoundStep, Sound, a
  <2>4. Books!Withdraw(id, a)
    BY <1>3, <1>5, <2>1, <2>2 DEF Books!Withdraw
  <2> QED
    BY <1>5, <2>2, <2>3, <2>4 DEF Books!Next
<1>7. CASE t = Com
  <2>1. loc'[Com].tot = loc[Com].tot + a
    <3> DEFINE l == [loc[t] EXCEPT !.tot = @ + a, !.idx = @ + 1]
    <3>1. loc' = [loc EXCEPT ![t] = l]
      BY <1>1, <1>7 DEF Locals, TakeWrite, a
    <3>2. l.tot = loc[t].tot + a
      BY <1>1 DEF Locals
    <3>3. loc'[t] = l
      BY <1>1, <3>1, SoundIs, ShapeIs DEF Shape
    <3> HIDE DEF l
    <3> QED
      BY <1>7, <3>2, <3>3
  <2>2. t \notin Halfway'
    BY <1>7, Threads DEF Halfway
  <2>3. a \in 0 .. Balance[id]
    BY <1>1, <1>5, <2>2
  <2>4. Books!Commission(id, a)
    BY <1>3, <1>5, <2>1, <2>2 DEF Books!Commission
  <2> QED
    BY <1>5, <2>2, <2>3, <2>4 DEF Books!Next
<1>8. CASE t \in ATM /\ Current(t).op = "T"
  <2>1. at'[t] = "add_read" /\ loc' = loc /\ t # Com /\ Current(t)' = Current(t)
    BY <1>1, <1>8, SoundIs, Threads, ShapeIs
    DEF TakeWrite, Goto, Shape, inside, io, Current, Alone
  <2>2. t \in Halfway'
    BY <1>8, <2>1 DEF Halfway
  <2>3. id = Current(t).id
    BY <1>1, <1>8, SoundIs DEF Knows, LookedUp, BalanceCalls, i
  <2>4. /\ \A x : Pending(x) = 0
        /\ \A x : Pending(x)' = IF id = x THEN a ELSE 0
    BY <1>1, <1>4, <2>1, <2>2, <2>3, SoundIs, PendingStep DEF a
  <2>5. \A j \in DOMAIN accounts :
          accounts[j].bal \in Nat /\ Balance[accounts[j].id] = accounts[j].bal + 0
    BY <2>4, SoundIs, BalanceRead, BankAssumption DEF OnList, Account, IsBook
  <2>6. ASSUME NEW j \in DOMAIN accounts
        PROVE  Balance[accounts[j].id] = accounts'[j].bal + Pending(accounts[j].id)'
    <3>1. Pending(accounts[j].id)' = IF id = accounts[j].id THEN a ELSE 0
      BY <1>1, <2>4 DEF SameIds
    <3>2. CASE j = i
      BY <1>1, <1>2, <2>5, <3>1, <3>2 DEF b, OnList
    <3>3. CASE j # i
      <4>1. accounts[j].id # id
        BY <1>1, <3>3, SoundIs DEF OneEach, OnList
      <4> QED
        BY <1>1, <2>5, <3>1, <3>3, <4>1
    <3> QED
      BY <3>2, <3>3
  <2>7. Balance' = Balance
    BY <1>1, <2>6, SoundIs, BookInPlace
  <2> QED
    BY <1>3, <2>1, <2>7 DEF Books!vars
<1> QED
  BY <1>1, <1>6, <1>7, <1>8

(* A deposit is one step, and so is the second half of a transfer: there   *)
(* the whole transfer takes effect.                                        *)
LEMMA AddWrites ==
    ASSUME SoundStep, NEW t \in ATM, AddWrite(t), Alone(t)
    PROVE  /\ t \in Thread /\ Current(t).op \in {"D", "T"}
           /\ loc[t] \in Locals /\ loc[t].amount \in Nat
           /\ at[t] = "add_write" /\ at[t] \in Locked /\ at'[t] = "report"
           /\ UNCHANGED <<loc, vault>>
           /\ OnList(loc[t].dst) /\ SameIds
           /\ accounts'[loc[t].dst].bal = accounts[loc[t].dst].bal + loc[t].amount
           /\ \A j \in DOMAIN accounts :
                j # loc[t].dst => accounts'[j].bal = accounts[j].bal
<1> DEFINE i == loc[t].dst
           a == loc[t].amount
           b == loc[t].bal + a
<1>1. /\ t \in Thread /\ Current(t).op \in {"D", "T"} /\ loc[t] \in Locals
      /\ at[t] = "add_write" /\ at[t] \in Locked /\ at'[t] = "report"
      /\ UNCHANGED <<loc, vault>>
  <2>1. /\ t \in Thread /\ at[t] = "add_write" /\ at[t] \in Locked /\ Goto(t, "report")
        /\ UNCHANGED <<loc, vault>>
    BY Threads DEF AddWrite, inside, Locked
  <2>2. Current(t).op \in {"D", "T"}
    BY <2>1, SoundIs DEF Base, Standing, Follows
  <2> QED
    BY <2>1, <2>2, SoundIs, ShapeIs DEF Goto, Shape
<1>2. a \in Nat /\ loc[t].bal \in Nat
  BY <1>1 DEF Locals
<1>3. OnList(i) /\ SetBalance(i, b) /\ accounts[i].bal = loc[t].bal /\ ~(b >= ULLMod)
  BY SoundIs DEF AddWrite
<1>4. b \in Nat /\ b < ULLMod /\ b \in Int
  BY <1>2, <1>3, BankAssumption
<1> HIDE DEF b
<1>5. b % ULLMod = b
  BY <1>4, BankAssumption
<1>6. /\ DOMAIN accounts' = DOMAIN accounts /\ accounts'[i].bal = b
      /\ \A j \in DOMAIN accounts :
           /\ accounts'[j].id = accounts[j].id
           /\ j # i => accounts'[j].bal = accounts[j].bal
  BY <1>3, <1>4, <1>5, SoundIs, BalanceSet
<1>7. accounts'[i].bal = accounts[i].bal + a
  BY <1>3, <1>6 DEF b
<1> QED
  BY <1>1, <1>2, <1>3, <1>6, <1>7 DEF SameIds

LEMMA AddDeposits ==
    ASSUME SoundStep, NEW t \in ATM, AddWrite(t), Alone(t)
    PROVE  Books!Next \/ UNCHANGED Books!vars
<1> DEFINE i == loc[t].dst
           h == loc[t].idx
           a == loc[t].amount
           to == accounts[i].id
           from == accounts[h].id
           b == accounts[i].bal + a
<1>1. /\ t \in Thread /\ Current(t).op \in {"D", "T"}
      /\ loc[t] \in Locals /\ a \in Nat /\ at[t] = "add_write" /\ at[t] \in Locked
      /\ at'[t] = "report" /\ UNCHANGED <<loc, vault>>
      /\ OnList(i) /\ SameIds /\ accounts'[i].bal = b
      /\ \A j \in DOMAIN accounts : j # i => accounts'[j].bal = accounts[j].bal
  BY AddWrites
<1>2. accounts[i].bal \in Nat /\ b \in Nat
  BY <1>1, SoundIs, BalanceRead, BankAssumption DEF Account
<1>3. t \notin Halfway'
  BY <1>1 DEF Halfway
<1>4. a \in Amount
  BY <1>1, SumNamed DEF SoundStep, Sound, a
<1>5. OnList(h) /\ from = Current(t).id
  BY <1>1, SoundIs DEF Knows, LookedUp, BalanceCalls, h
<1> HIDE DEF i, h, a, b
<1>6. CASE Current(t).op = "D"
  <2>1. t \notin Halfway
    BY <1>6 DEF Halfway
  <2>2. /\ to \in DOMAIN Balance /\ Balance[to] = accounts[i].bal
        /\ Balance' = [Balance EXCEPT ![to] = b]
    BY <1>1, <1>2, <1>3, <2>1, OneBalance
  <2>3. Balance' = [Balance EXCEPT ![to] = @ + a]
    BY <2>2 DEF b
  <2>4. Books!Deposit(to, a)
    BY <1>1, <2>3 DEF Books!Deposit
  <2> QED
    BY <1>4, <2>2, <2>4 DEF Books!Next
<1>7. CASE Current(t).op = "T"
  <2>1. t \in Halfway
    BY <1>1, <1>7 DEF Halfway
  <2>2. /\ \A x : Pending(x) = IF from = x THEN a ELSE 0
        /\ \A x : Pending(x)' = 0
    BY <1>1, <1>3, <1>5, <2>1, SoundIs, PendingStep DEF a
  <2>3. \A j \in DOMAIN accounts :
          /\ accounts[j].bal \in Nat /\ accounts[j].id \in Numbers
          /\ Balance[accounts[j].id]
               = accounts[j].bal + (IF from = accounts[j].id THEN a ELSE 0)
    BY <2>2, SoundIs, BalanceRead, BankAssumption DEF OnList, Account, IsBook, Numbers
  <2>4. from \in Numbers /\ Balance[from] = accounts[h].bal + a /\ accounts[h].bal \in Nat
    BY <1>5, <2>3 DEF OnList
  <2>5. \A j, k \in DOMAIN accounts : accounts[j].id = accounts[k].id => j = k
    BY SoundIs DEF OneEach
  <2>6. i \in DOMAIN accounts /\ h \in DOMAIN accounts
    BY <1>1, <1>5 DEF OnList
  <2>7. CASE from = to
    <3>1. h = i
      BY <2>5, <2>6, <2>7
    <3>2. ASSUME NEW j \in DOMAIN accounts
          PROVE  Balance[accounts[j].id] = accounts'[j].bal + Pending(accounts[j].id)'
      <4>1. Pending(accounts[j].id)' = 0
        BY <2>2
      <4>2. CASE j = i
        BY <1>1, <1>2, <2>3, <2>6, <2>7, <4>1, <4>2 DEF b
      <4>3. CASE j # i
        <5>1. from # accounts[j].id
          BY <2>5, <2>6, <2>7, <4>3
        <5> QED
          BY <1>1, <2>3, <4>1, <4>3, <5>1
      <4> QED
        BY <4>2, <4>3
    <3>3. Balance' = Balance
      BY <1>1, <3>2, SoundIs, BookInPlace
    <3> QED
      BY <1>1, <3>3 DEF Books!vars
  <2>8. CASE from # to
    <3> DEFINE f == [Balance EXCEPT ![from] = @ - a, ![to] = @ + a]
    <3>1. h # i /\ to \in Numbers /\ Balance[to] = accounts[i].bal + 0
      BY <2>3, <2>6, <2>8
    <3>2. f = [x \in Numbers |-> f[x]]
      BY SoundIs
    <3>3. f[from] = Balance[from] - a /\ f[to] = Balance[to] + a
      BY <2>4, <2>8, <3>1, SoundIs
    <3>4. \A x \in Numbers : x # from /\ x # to => f[x] = Balance[x]
      BY SoundIs
    <3>5. ASSUME NEW j \in DOMAIN accounts
          PROVE  f[accounts[j].id] = accounts'[j].bal + Pending(accounts[j].id)'
      <4> HIDE DEF f
      <4>1. Pending(accounts[j].id)' = 0
        BY <2>2
      <4>2. CASE j = i
        BY <1>1, <1>2, <3>1, <3>3, <4>1, <4>2 DEF b
      <4>3. CASE j = h
        BY <1>1, <2>4, <2>6, <3>1, <3>3, <4>1, <4>3
      <4>4. CASE j # i /\ j # h
        <5>1. accounts[j].id # from /\ accounts[j].id # to
          BY <2>5, <2>6, <4>4
        <5> QED
          BY <1>1, <2>3, <3>4, <4>1, <4>4, <5>1
      <4> QED
        BY <4>2, <4>3, <4>4
    <3>6. Balance' = f
      <4> HIDE DEF f
      <4> QED
        BY <1>1, <3>2, <3>5, SoundIs, BookInPlace
    <3>7. a <= Balance[from]
      BY <1>1, <2>4
    <3>8. Books!Transfer(from, to, a)
      BY <1>1, <2>8, <3>6, <3>7 DEF Books!Transfer
    <3> QED
      BY <1>4, <2>4, <3>1, <3>8, SoundIs DEF Books!Next
  <2> QED
    BY <2>7, <2>8
<1> QED
  BY <1>1, <1>6, <1>7

(* The bank credits what the round has taken.                              *)
LEMMA CreditCredits ==
    ASSUME SoundStep, Credit, Alone(Com)
    PROVE  Books!Credit
<1>1. Com \in Thread /\ Com \notin Halfway /\ Com \notin Halfway' /\ UNCHANGED accounts
  BY Threads DEF Halfway, Credit
<1>2. Balance' = Balance
  BY <1>1, SameBook
<1>3. vault' = vault + loc[Com].tot /\ loc'[Com].tot = 0
  BY <1>1, SoundIs, FreshIs, ShapeIs DEF Credit, Shape
<1> QED
  BY <1>2, <1>3 DEF Books!Credit

(* All other steps leave the books alone.                                  *)
LEMMA QuietBook ==
    ASSUME NEW t \in Thread, Alone(t), Quiet(t), ~lost'
    PROVE  UNCHANGED Books!vars
<1>1. Balance' = Balance
  BY SameBook DEF Quiet
<1> QED
  BY <1>1 DEF Quiet, Books!vars

-----------------------------------------------------------------------------
(* The bank implements the ledger *)

WholeStep == lost' \/ surplus' > 0 \/ Books!Next

LEMMA NextBook ==
    Base /\ Safe /\ Settled /\ Prepared /\ [Next]_vars => [WholeStep]_(Books!vars)
<1> SUFFICES ASSUME Base, Safe, Settled, Prepared, [Next]_vars, ~lost', ~(surplus' > 0)
             PROVE  Books!Next \/ UNCHANGED Books!vars
  BY DEF WholeStep
<1>1. PICK t \in Thread : Alone(t) /\ (Quiet(t) \/ Moving(t))
  BY QuietOrMoving
<1>2. SoundStep
  <2>1. Base' /\ Safe'
    BY NextBase, NextSafe
  <2>2. surplus' \in Nat
    <3>1. (Base => Shape)'
      BY ShapeIs, PTL
    <3> QED
      BY <2>1, <3>1 DEF Shape
  <2>3. surplus' = 0 /\ surplus = 0
    BY <1>1, <2>2 DEF Alone
  <2> QED
    BY <2>1, <2>3 DEF SoundStep, Sound
<1>3. CASE Quiet(t)
  BY <1>1, <1>3, QuietBook
<1>4. CASE t \in ATM /\ Insert(t)
  BY <1>1, <1>2, <1>4, InsertOpens DEF Books!Next
<1>5. CASE t \in ATM /\ Erase(t)
  BY <1>1, <1>2, <1>5, EraseCloses DEF Books!Next
<1>6. CASE t \in ATM /\ AddWrite(t)
  BY <1>1, <1>2, <1>6, AddDeposits
<1>7. CASE TakeWrite(t)
  BY <1>1, <1>2, <1>7, TakeWithdraws
<1>8. CASE t = Com /\ Credit
  BY <1>1, <1>2, <1>8, CreditCredits DEF Books!Next
<1> QED
  BY <1>1, <1>3, <1>4, <1>5, <1>6, <1>7, <1>8 DEF Moving

LEMMA InitBook == Init => Books!Init
<1> SUFFICES ASSUME Init PROVE Books!Init
  OBVIOUS
<1>1. accounts = <<>> /\ loc[Com].tot = 0 /\ vault = 0
  BY Threads, FreshIs DEF Init
<1>2. Numbers = {}
  BY <1>1 DEF Numbers
<1>3. Balance = [id \in {} |-> 0]
  BY <1>2 DEF Balance
<1> QED
  BY <1>1, <1>3 DEF Books!Init

(* Whatever the ATMs do to each other, and whatever the commission and the *)
(* printer do meanwhile: each step is one whole transaction of the ledger  *)
(* or changes nothing there, until the first lost update, dropped          *)
(* commission or UpWriteAction too many.                                   *)
THEOREM TransactionsAreWhole == Spec => WholeTransactions
<1>1. Init => Base /\ Safe /\ Settled /\ Prepared
  BY InitBase, InitSafe, InitMoney, InitPrepared
<1>2. Base /\ Safe /\ Settled /\ Prepared /\ [Next]_vars
        => Base' /\ Safe' /\ Settled' /\ Prepared'
  BY NextBase, NextSafe, NextSettled, NextPrepared
<1>3. Base /\ Safe /\ Settled /\ Prepared /\ [Next]_vars => [WholeStep]_(Books!vars)
  BY NextBook
<1> QED
  BY <1>1, <1>2, <1>3, PTL DEF Spec, WholeTransactions, WholeStep

(* No update lost, no round of commissions dropped, no lock broken.  Each   *)
(* of these does happen: see the runs bank_lost_update, bank_open_twice.   *)
Unharmed == ~lost /\ surplus = 0

(* Hence a bank to which none of it happens is a ledger: every transaction *)
(* of an ATM, and the commission, takes effect at once and as a whole, on  *)
(* the accounts it names (ATM.cpp:143-322).                                *)
THEOREM ImplementsLedger == Spec /\ []Unharmed => LedgerSpec
<1>1. Init => Books!Init
  BY InitBook
<1>2. Unharmed' /\ [WholeStep]_(Books!vars) => [Books!Next]_(Books!vars)
  BY DEF Unharmed, WholeStep
<1>3. Spec => [][WholeStep]_(Books!vars)
  BY TransactionsAreWhole DEF WholeTransactions, WholeStep
<1> QED
  BY <1>1, <1>2, <1>3, PTL DEF Spec, LedgerSpec, Books!Spec
=============================================================================
