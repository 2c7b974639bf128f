-------------------------------- MODULE Bank --------------------------------
(***************************************************************************)
(* The running program of myBank: the ATM threads (ATM.cpp), the           *)
(* commission thread and the printing thread of the bank (Bank.cpp), the   *)
(* shared list of accounts (AccountController.cpp, Account.cpp) and main   *)
(* (main.cpp), which starts them, waits for them and frees what they use.  *)
(*                                                                         *)
(* A step is one call on the account list's lock, or one GetBalance or     *)
(* SetBalance (each atomic under the account's own lock, RWLock.tla), or a *)
(* run of statements that touch nothing shared.  Names and wording of the  *)
(* log are left out: log[t] counts the lines that ATM t has written.       *)
(***************************************************************************)
EXTENDS Integers, Sequences, FiniteSets, SequencesExt, FiniteSetsExt

CONSTANTS
    ATM,            \* the ATM threads
    Com, Prt,       \* the bank's two threads: TakeCommission, PrintBalance
    AccountId,      \* account numbers of the input files
    Amount,         \* sums of money the input files name
    Scripts,        \* the input files to explore: a set of [ATM -> Seq(Line)]
    Rates,          \* outcomes of rand() % Start + End, in percent
    ULLMod, UIntMod \* balances are stored mod ULLMod and read mod UIntMod

Thread == ATM \cup {Com, Prt}

Ops == {"O", "D", "W", "B", "T", "Q"}

(* One line of an input file: how many words it has, and what they say.    *)
(* op "?" is any other letter, and "to" is 0 when there is no fifth word.   *)
Line == [words : 0 .. 6, op : Ops \cup {"?"}, id : Int, pw : Int,
         amount : Int, to : Int]

ASSUME BankAssumption ==
    /\ IsFiniteSet(ATM) /\ Com \notin ATM /\ Prt \notin ATM /\ Com # Prt
    /\ AccountId \subseteq Nat /\ Amount \subseteq 0 .. ULLMod - 1
    /\ Rates \subseteq 2 .. 4
    /\ Scripts \subseteq [ATM -> Seq(Line)]
    /\ UIntMod \in Nat \ {0} /\ ULLMod \in Nat /\ UIntMod < ULLMod

VARIABLES
    wrt_lock, rcount, mode,   \* the lock of the account list (RWLockCalls)
    accounts,                 \* _accountList: a sequence of [id, pw, bal]
    vault,                    \* _back_account
    stop,                     \* _stopCommission
    at,                       \* where each thread stands
    file, pos,                \* each ATM's input file, and its current line
    loc,                      \* local variables of each thread
    log,                      \* lines each ATM has written to log.txt
    main,                     \* where main stands
    booked,                   \* history: net money ATMs brought in
    surplus,                  \* history: UpWriteAction calls too many
    lost,                     \* history: a balance was written from a stale
                              \* or cut-off reading, or a commission dropped
    unsaid                    \* history: each ATM's lines of transfers that
                              \* found no account to go to

lock == <<wrt_lock, rcount, mode>>
vars == <<lock, accounts, vault, stop, file, pos, at, loc, log, main,
          booked, surplus, lost, unsaid>>

DB == INSTANCE RWLockCalls

Places ==
    {"new", "start", "idle", "lock", "check", "insert", "take_test",
     "take_read", "take_write", "add_read", "add_write", "report", "erase",
     "leave", "again", "fee", "credit", "print", "hung", "done"}

(* idx and dst are positions in the list (0: not looked up), bal the last  *)
(* balance read, amount what is to be moved, tot the commission so far, ok *)
(* whether the operation succeeded, says whether its end is logged.        *)
Locals == [idx : Nat, dst : Nat, bal : Nat, amount : Nat, tot : Nat,
           rate : Rates \cup {0}, ok : BOOLEAN, says : BOOLEAN]

Fresh == [idx |-> 0, dst |-> 0, bal |-> 0, amount |-> 0, tot |-> 0,
          rate |-> 0, ok |-> TRUE, says |-> TRUE]

Init ==
    /\ DB!Init
    /\ accounts = <<>>
    /\ vault = 0
    /\ stop = FALSE
    /\ at = [t \in Thread |-> "new"]
    /\ file \in Scripts
    /\ pos = [t \in ATM |-> 1]
    /\ loc = [t \in Thread |-> Fresh]
    /\ log = [t \in ATM |-> 0]
    /\ main = "starting"
    /\ booked = 0
    /\ surplus = 0
    /\ lost = FALSE
    /\ unsaid = [t \in ATM |-> {}]

-----------------------------------------------------------------------------
(* Account and AccountController, on the list of accounts *)

Goto(t, place) == at' = [at EXCEPT ![t] = place]

MoreLines(t) == pos[t] <= Len(file[t])
Current(t)  == file[t][pos[t]]            \* the line ATM t is working on
NextLine(t) == pos' = [pos EXCEPT ![t] = @ + 1]
Write(t) == log' = [log EXCEPT ![t] = @ + 1]

(* GetIndexFromID: the first account of that number, 0 for INVALID_VALUE.  *)
IndexFromID(id) == SelectInSeq(accounts, LAMBDA a : a.id = id)

(* GetBalance returns its 64-bit balance through a uint.                   *)
GetBalance(i) == accounts[i].bal % UIntMod

SetBalance(i, balance) ==
    accounts' = [accounts EXCEPT ![i].bal = balance % ULLMod]

CheckPassword(i, pw) == accounts[i].pw = pw

(* A position past the end is read only after the lock was broken by an    *)
(* Again step; what C++ then does is undefined and not modelled.           *)
OnList(i) == i \in DOMAIN accounts

-----------------------------------------------------------------------------
(* The ATM thread: Run and HandleLine *)

io      == <<pos, log>>
history == <<booked, surplus, lost, unsaid>>
shared  == <<lock, accounts, vault, stop, main, history>>

(* The input file opens, or the thread ends at once. *)
Start(t) ==
    /\ at[t] = "start"
    /\ Goto(t, "idle") \/ Goto(t, "done")
    /\ UNCHANGED <<shared, io, loc>>

Words == [op \in Ops |-> CASE op \in {"O", "D", "W"} -> 4
                           [] op \in {"B", "Q"} -> 3
                           [] op = "T" -> 5]

(* PasswordParameters: four digits. *)
Passwords == 0 .. 9999

Accepted(line) ==
    /\ line.pw \in Passwords /\ line.id >= 0
    /\ line.op \in Ops /\ line.words = Words[line.op]
    /\ line.op \in {"O", "D", "W", "T"} => line.amount >= 0

(* What the input files name: no line that is accepted has another number  *)
(* or sum; only one that needs no sum has 0 instead.                       *)
ASSUME ScriptAssumption ==
    \A script \in Scripts : \A t \in ATM : \A i \in DOMAIN script[t] :
      LET line == script[t][i] IN
      Accepted(line) =>
        /\ line.id \in AccountId
        /\ line.amount \in IF line.op \in {"B", "Q"} THEN Amount \cup {0} ELSE Amount

(* A line of fewer than three words is dropped without a word. *)
ShortLine(t) ==
    /\ at[t] = "idle" /\ MoreLines(t)
    /\ Current(t).words < 3
    /\ NextLine(t)
    /\ UNCHANGED <<shared, at, loc, log>>

RefuseLine(t) ==
    /\ at[t] = "idle" /\ MoreLines(t)
    /\ Current(t).words >= 3 /\ ~Accepted(Current(t))
    /\ NextLine(t) /\ Write(t)
    /\ UNCHANGED <<shared, at, loc>>

AcceptLine(t) ==
    /\ at[t] = "idle" /\ MoreLines(t)
    /\ Current(t).words >= 3 /\ Accepted(Current(t))
    /\ loc' = [loc EXCEPT ![t] = [Fresh EXCEPT !.amount = Current(t).amount]]
    /\ Goto(t, "lock")
    /\ UNCHANGED <<shared, io>>

EndOfFile(t) ==
    /\ at[t] = "idle" /\ ~MoreLines(t)
    /\ Goto(t, "done")
    /\ UNCHANGED <<shared, io, loc>>

-----------------------------------------------------------------------------
(* The lock of the list: OpenAccount, CloseAccount and Transfer write it.  *)

(* Mutants of Writes: an operation that changes the list as a reader. *)
WritesNotQ(t) == t \in ATM /\ Current(t).op \in {"O", "T"}
WritesNotO(t) == t \in ATM /\ Current(t).op \in {"Q", "T"}
WritesNotT(t) == t \in ATM /\ Current(t).op \in {"O", "Q"}

Writes(t) == t \in ATM /\ Current(t).op \in {"O", "Q", "T"}

Lock(t) ==
    /\ at[t] = "lock"
    /\ IF Writes(t) THEN DB!DownWriteAction(t) ELSE DB!DownReadAction(t)
    /\ Goto(t, CASE t \in ATM -> "check" [] t = Com -> "fee" [] t = Prt -> "print")
    /\ UNCHANGED <<accounts, vault, stop, main, history, io, loc>>

(* The thread leaves the lock, and an ATM writes the outcome to the log.   *)
(* A failing OpenAccount comes back to unlock again.                       *)
Leave(t) ==
    /\ at[t] = "leave"
    /\ IF Writes(t) THEN DB!UpWriteAction(t) ELSE DB!UpReadAction(t)
    /\ CASE t \in ATM ->
              /\ IF loc[t].says THEN Write(t) ELSE UNCHANGED log
              /\ IF Current(t).op = "O" /\ ~loc[t].ok
                   THEN Goto(t, "again") /\ UNCHANGED <<pos, loc>>
                   ELSE /\ Goto(t, "idle") /\ NextLine(t)
                        /\ loc' = [loc EXCEPT ![t] = Fresh]
         [] t = Com -> Goto(t, "credit") /\ UNCHANGED <<io, loc>>
         [] t = Prt -> Goto(t, "idle") /\ UNCHANGED <<io, loc>>
    /\ UNCHANGED <<accounts, vault, stop, main, history>>

(* Mutant of UnlockAgain: the failing OpenAccount goes through             *)
(* UpReadAction.                                                           *)
UnlockAsReader(t) ==
    /\ at[t] = "again"
    /\ DB!UpReadAction(t)
    /\ surplus' = surplus + 1
    /\ NextLine(t)
    /\ Goto(t, "idle")
    /\ loc' = [loc EXCEPT ![t] = Fresh]
    /\ UNCHANGED <<accounts, vault, stop, main, booked, lost, unsaid, log>>

(* Mutant of UnlockAgain: the line of the log is written after it, again.  *)
UnlockAndLog(t) ==
    /\ at[t] = "again"
    /\ DB!UpWriteAction(t)
    /\ surplus' = surplus + 1
    /\ NextLine(t) /\ Write(t)
    /\ Goto(t, "idle")
    /\ loc' = [loc EXCEPT ![t] = Fresh]
    /\ UNCHANGED <<accounts, vault, stop, main, booked, lost, unsaid>>

(* The second UpWriteAction of a failing OpenAccount (ATM.cpp:158).        *)
UnlockAgain(t) ==
    /\ at[t] = "again"
    /\ DB!UpWriteAction(t)
    /\ surplus' = surplus + 1
    /\ NextLine(t)
    /\ Goto(t, "idle")
    /\ loc' = [loc EXCEPT ![t] = Fresh]
    /\ UNCHANGED <<accounts, vault, stop, main, booked, lost, unsaid, log>>

-----------------------------------------------------------------------------
(* The operations of an ATM, inside the lock: what each looks up first *)

Fail(t, says) ==
    /\ Goto(t, "leave")
    /\ loc' = [loc EXCEPT ![t].ok = FALSE, ![t].says = says]

inside == <<lock, vault, stop, main, io, surplus>>

CheckOpen(t) ==
    /\ at[t] = "check" /\ Current(t).op = "O"
    /\ LET line == Current(t) IN
       IF IndexFromID(line.id) # 0
         THEN Fail(t, TRUE)
         ELSE Goto(t, "insert") /\ UNCHANGED loc
    /\ UNCHANGED <<inside, accounts, booked, lost, unsaid>>

(* Mutant of Insert: the arguments of Account's constructor are swapped.   *)
InsertSwapped(t) ==
    /\ at[t] = "insert"
    /\ LET line == Current(t) IN
       /\ accounts' = Append(accounts,
            [id |-> line.pw, pw |-> line.id, bal |-> line.amount % ULLMod])
       /\ booked' = booked + line.amount
    /\ Goto(t, "leave")
    /\ UNCHANGED <<inside, loc, lost, unsaid>>

Insert(t) ==
    /\ at[t] = "insert"
    /\ LET line == Current(t) IN
       /\ accounts' = Append(accounts,
            [id |-> line.id, pw |-> line.pw, bal |-> line.amount % ULLMod])
       /\ booked' = booked + line.amount
    /\ Goto(t, "leave")
    /\ UNCHANGED <<inside, loc, lost, unsaid>>

(* Deposit, withdrawal, inquiry and closing validate account and password. *)
CheckAccount(t) ==
    /\ at[t] = "check" /\ Current(t).op \in {"D", "W", "B", "Q"}
    /\ LET line == Current(t)
           i    == IndexFromID(line.id) IN
       IF i # 0 /\ CheckPassword(i, line.pw)
         THEN /\ Goto(t, CASE line.op = "D" -> "add_read"
                           [] line.op = "W" -> "take_test"
                           [] line.op \in {"B", "Q"} -> "report")
              /\ loc' = [loc EXCEPT ![t].idx = i, ![t].dst = i]
         ELSE Fail(t, TRUE)
    /\ UNCHANGED <<inside, accounts, booked, lost, unsaid>>

(* A transfer to an account that does not exist is not logged.             *)
CheckTransfer(t) ==
    /\ at[t] = "check" /\ Current(t).op = "T"
    /\ LET line == Current(t)
           i    == IndexFromID(line.id)
           j    == IndexFromID(line.to) IN
       CASE i = 0 -> Fail(t, TRUE)
         [] i # 0 /\ j = 0 -> Fail(t, FALSE)
         [] i # 0 /\ j # 0 /\ ~CheckPassword(i, line.pw) -> Fail(t, TRUE)
         [] OTHER -> /\ Goto(t, "take_test")
                     /\ loc' = [loc EXCEPT ![t].idx = i, ![t].dst = j]
    /\ unsaid' = IF IndexFromID(Current(t).id) # 0 /\ IndexFromID(Current(t).to) = 0
                   THEN [unsaid EXCEPT ![t] = @ \cup {pos[t]}] ELSE unsaid
    /\ UNCHANGED <<inside, accounts, booked, lost>>

-----------------------------------------------------------------------------
(* TakeFromBalance and AddToBalance: GetBalance and SetBalance are apart *)

(* Too little money: the operation fails, and a commission round returns   *)
(* false, that is 0, whatever it has already taken.                        *)
TakeTest(t) ==
    /\ at[t] = "take_test" /\ OnList(loc[t].idx)
    /\ IF GetBalance(loc[t].idx) >= loc[t].amount
         THEN Goto(t, "take_read") /\ UNCHANGED <<loc, lost>>
         ELSE IF t \in ATM THEN Fail(t, TRUE) /\ UNCHANGED lost
         ELSE /\ Goto(t, "leave")
              /\ loc' = [loc EXCEPT ![t].tot = 0]
              /\ lost' = (lost \/ loc[t].tot > 0)
    /\ UNCHANGED <<inside, accounts, booked, unsaid>>

TakeRead(t) ==
    /\ at[t] = "take_read" /\ OnList(loc[t].idx)
    /\ loc' = [loc EXCEPT ![t].bal = GetBalance(loc[t].idx)]
    /\ Goto(t, "take_write")
    /\ UNCHANGED <<inside, accounts, booked, lost, unsaid>>

TakeWrite(t) ==
    /\ at[t] = "take_write" /\ OnList(loc[t].idx)
    /\ SetBalance(loc[t].idx, loc[t].bal - loc[t].amount)
    /\ lost' = (lost \/ accounts[loc[t].idx].bal # loc[t].bal
                     \/ loc[t].bal < loc[t].amount)
    /\ IF t = Com
         THEN /\ loc' = [loc EXCEPT ![t].tot = @ + loc[t].amount, ![t].idx = @ + 1]
              /\ Goto(t, "fee")
              /\ UNCHANGED booked
         ELSE IF Current(t).op = "W"
                THEN /\ booked' = booked - loc[t].amount
                     /\ Goto(t, "report")
                     /\ UNCHANGED loc
                ELSE Goto(t, "add_read") /\ UNCHANGED <<booked, loc>>
    /\ UNCHANGED <<inside, unsaid>>

AddRead(t) ==
    /\ at[t] = "add_read" /\ OnList(loc[t].dst)
    /\ loc' = [loc EXCEPT ![t].bal = GetBalance(loc[t].dst)]
    /\ Goto(t, "add_write")
    /\ UNCHANGED <<inside, accounts, booked, lost, unsaid>>

AddWrite(t) ==
    /\ at[t] = "add_write" /\ OnList(loc[t].dst)
    /\ SetBalance(loc[t].dst, loc[t].bal + loc[t].amount)
    /\ lost' = (lost \/ accounts[loc[t].dst].bal # loc[t].bal
                     \/ loc[t].bal + loc[t].amount >= ULLMod)
    /\ booked' = IF Current(t).op = "D" THEN booked + loc[t].amount ELSE booked
    /\ Goto(t, "report")
    /\ UNCHANGED <<inside, loc, unsaid>>

(* GetAccountBalance for the log; closing goes on to DeleteAccount.        *)
Report(t) ==
    /\ at[t] = "report" /\ OnList(loc[t].idx) /\ OnList(loc[t].dst)
    /\ Goto(t, IF Current(t).op = "Q" THEN "erase" ELSE "leave")
    /\ UNCHANGED <<inside, loc, accounts, booked, lost, unsaid>>

Erase(t) ==
    /\ at[t] = "erase" /\ OnList(loc[t].idx)
    /\ accounts' = RemoveAt(accounts, loc[t].idx)
    /\ booked' = booked - accounts[loc[t].idx].bal
    /\ Goto(t, "leave")
    /\ UNCHANGED <<inside, loc, lost, unsaid>>

ATMStep(t) ==
    \/ Start(t) \/ ShortLine(t) \/ RefuseLine(t) \/ AcceptLine(t) \/ EndOfFile(t)
    \/ UnlockAgain(t) \/ CheckOpen(t) \/ Insert(t)
    \/ CheckAccount(t) \/ CheckTransfer(t)
    \/ AddRead(t) \/ AddWrite(t) \/ Report(t) \/ Erase(t)

-----------------------------------------------------------------------------
(* The commission thread *)

ComStop ==
    /\ at[Com] = "idle" /\ stop
    /\ Goto(Com, "done")
    /\ UNCHANGED <<shared, io, loc>>

ComBegin ==
    /\ at[Com] = "idle" /\ ~stop
    /\ \E rate \in Rates :
         loc' = [loc EXCEPT ![Com] = [Fresh EXCEPT !.rate = rate, !.idx = 1]]
    /\ Goto(Com, "lock")
    /\ UNCHANGED <<shared, io>>

(* TransferCommissions goes from account to account. *)
Fee ==
    /\ at[Com] = "fee"
    /\ IF OnList(loc[Com].idx)
         THEN /\ loc' = [loc EXCEPT ![Com].amount =
                           (loc[Com].rate * GetBalance(loc[Com].idx)) \div 100]
              /\ Goto(Com, "take_test")
         ELSE Goto(Com, "leave") /\ UNCHANGED loc
    /\ UNCHANGED <<shared, io>>

(* Mutant of Credit: only the last account's commission is credited. *)
CreditLast ==
    /\ at[Com] = "credit"
    /\ vault' = vault + loc[Com].amount
    /\ loc' = [loc EXCEPT ![Com] = Fresh]
    /\ Goto(Com, "idle")
    /\ UNCHANGED <<lock, accounts, stop, main, history, io>>

(* _back_account is written outside the lock. *)
Credit ==
    /\ at[Com] = "credit"
    /\ vault' = vault + loc[Com].tot
    /\ loc' = [loc EXCEPT ![Com] = Fresh]
    /\ Goto(Com, "idle")
    /\ UNCHANGED <<lock, accounts, stop, main, history, io>>

ComStep == ComStop \/ ComBegin \/ Fee \/ Credit

-----------------------------------------------------------------------------
(* The printing thread *)

PrtStop ==
    /\ at[Prt] = "idle" /\ stop
    /\ Goto(Prt, "done")
    /\ UNCHANGED <<shared, io, loc>>

PrtBegin ==
    /\ at[Prt] = "idle" /\ ~stop
    /\ Goto(Prt, "lock")
    /\ UNCHANGED <<shared, io, loc>>

PrintBalances ==
    /\ at[Prt] = "print"
    /\ Goto(Prt, "leave")
    /\ UNCHANGED <<shared, io, loc>>

(* The printer copies the accounts with their semaphores.  A copy taken    *)
(* while another thread is inside GetBalance or SetBalance of that account *)
(* may have a semaphore down that nobody will post (AccountSnapshot.tla).  *)
BalanceCalls == {"fee", "take_test", "take_read", "take_write",
                 "add_read", "add_write", "report"}

PrintHangs ==
    /\ at[Prt] = "print"
    /\ \E t \in Thread : at[t] \in BalanceCalls
    /\ accounts # <<>>
    /\ Goto(Prt, "hung")
    /\ UNCHANGED <<shared, io, loc>>

PrtStep == PrtStop \/ PrtBegin \/ PrintBalances

-----------------------------------------------------------------------------
(* main *)

CreateThread ==
    /\ main = "starting"
    /\ \E t \in Thread :
         /\ at[t] = "new"
         /\ t = Com => \A u \in ATM : at[u] # "new"
         /\ t = Prt => \A u \in ATM \cup {Com} : at[u] # "new"
         /\ Goto(t, IF t \in ATM THEN "start" ELSE "idle")
         /\ main' = IF t = Prt THEN "joining" ELSE main
    /\ UNCHANGED <<lock, accounts, vault, stop, history, io, loc>>

(* pthread_create fails: exit(1) ends the process. *)
CreateFails ==
    /\ main = "starting"
    /\ main' = "exited"
    /\ UNCHANGED <<lock, accounts, vault, stop, history, io, loc, at>>

(* Mutant of JoinATMs: StopCommission is forgotten. *)
JoinATMsOnly ==
    /\ main = "joining"
    /\ \A t \in ATM : at[t] = "done"
    /\ main' = "stopping"
    /\ UNCHANGED <<lock, accounts, vault, stop, history, io, loc, at>>

JoinATMs ==
    /\ main = "joining"
    /\ \A t \in ATM : at[t] = "done"
    /\ stop' = TRUE
    /\ main' = "stopping"
    /\ UNCHANGED <<lock, accounts, vault, history, io, loc, at>>

(* Both bank threads are joined, then everything they use is deleted. *)
JoinBank ==
    /\ main = "stopping"
    /\ at[Com] = "done" /\ at[Prt] = "done"
    /\ main' = "exited"
    /\ UNCHANGED <<lock, accounts, vault, stop, history, io, loc, at>>

MainStep == CreateThread \/ JoinATMs \/ JoinBank

-----------------------------------------------------------------------------

ThreadStep(t) ==
    \/ Lock(t) \/ Leave(t) \/ TakeTest(t) \/ TakeRead(t) \/ TakeWrite(t)
    \/ t \in ATM /\ ATMStep(t)
    \/ t = Com /\ ComStep
    \/ t = Prt /\ PrtStep

(* The process runs, and the input files do not change meanwhile. *)
Running == main # "exited" /\ UNCHANGED file

Next ==
    /\ Running
    /\ \/ \E t \in Thread : ThreadStep(t)
       \/ MainStep \/ CreateFails \/ PrintHangs

Spec == Init /\ [][Next]_vars

(* Every thread is scheduled again and again, and a thread that waits for  *)
(* the list's lock is not passed over for ever while it can have it.       *)
Fairness ==
    /\ WF_vars(Running /\ MainStep)
    /\ \A t \in Thread : WF_vars(Running /\ ThreadStep(t))
    /\ \A t \in Thread : SF_vars(Running /\ Lock(t))

FairSpec == Spec /\ Fairness

-----------------------------------------------------------------------------
(* Properties *)

TypeOK ==
    /\ wrt_lock \in Nat /\ rcount \in Nat /\ surplus \in Nat
    /\ mode \in [Thread -> {"out", "reading", "writing"}]
    /\ accounts \in Seq([id : AccountId, pw : Passwords, bal : 0 .. ULLMod - 1])
    /\ vault \in Nat /\ booked \in Int
    /\ stop \in BOOLEAN /\ lost \in BOOLEAN
    /\ at \in [Thread -> Places]
    /\ file \in Scripts
    /\ pos \in [ATM -> Nat] /\ \A t \in ATM : pos[t] \in 1 .. Len(file[t]) + 1
    /\ loc \in [Thread -> Locals]
    /\ log \in [ATM -> Nat] /\ unsaid \in [ATM -> SUBSET Nat]
    /\ main \in {"starting", "joining", "stopping", "exited"}

(* The threads between their Down... and their Up... call. *)
Inside == {t \in Thread : mode[t] # "out"}

(* Whoever changes the list of accounts is alone with it.                  *)
ListExclusive ==
    \A t \in Inside : mode[t] = "writing" => Inside = {t}

(* The lock's own books, with the calls too many that a failing            *)
(* OpenAccount makes: each such call, and nothing else, lets one more      *)
(* writer in for ever.                                                     *)
LockBooks ==
    /\ rcount = Cardinality({t \in Thread : mode[t] = "reading"})
    /\ wrt_lock = 1 + surplus
                    - Cardinality({t \in Thread : mode[t] = "writing"})
                    - (IF rcount > 0 THEN 1 ELSE 0)
    /\ surplus = 0 => ListExclusive

(* The position a thread looked up still is the account it meant, however  *)
(* many calls ago that was: _accountList is a vector, and closing an       *)
(* account moves all those behind it.                                      *)
LookedUp == BalanceCalls \cup {"erase"}

StableIndex ==
    surplus = 0 =>
      /\ \A t \in ATM : at[t] \in LookedUp =>
           /\ OnList(loc[t].idx) /\ accounts[loc[t].idx].id = Current(t).id
           /\ OnList(loc[t].dst)
           /\ Current(t).op = "T" => accounts[loc[t].dst].id = Current(t).to
      /\ at[Com] \in LookedUp \ {"fee"} => OnList(loc[Com].idx)

(* No account number is opened twice.                                      *)
UniqueIds ==
    surplus = 0 => \A i, j \in DOMAIN accounts :
                     accounts[i].id = accounts[j].id => i = j

(* The money of a transfer between its two halves.                         *)
Halfway == {t \in ATM : at[t] \in {"add_read", "add_write"} /\ Current(t).op = "T"}

MoneyInBank ==
    SumFunction([i \in DOMAIN accounts |-> accounts[i].bal])
      + SumFunction([t \in Halfway |-> loc[t].amount])
      + loc[Com].tot + vault

(* The accounts, the commission under way and the bank's own account       *)
(* together hold what the ATMs brought in: money appears or vanishes only  *)
(* by a write that overran another one or by a dropped commission round.   *)
MoneyConserved == lost \/ surplus > 0 \/ MoneyInBank = booked

(* The log has one line for each line of three words or more that an ATM   *)
(* is done with, whatever way it took through the locks and whatever other *)
(* ATMs did meanwhile, and none for the transfers in `unsaid': those that  *)
(* found their own account in the list, but not the one to pay to          *)
(* (ATM.cpp:285-292, against README.md:12).  A failing OpenAccount has     *)
(* written its line already when it unlocks again.                         *)
LogAccounted ==
    \A t \in ATM :
      LET read   == {i \in 1 .. pos[t] - 1 : file[t][i].words >= 3}
          logged == log[t] - (IF at[t] = "again" THEN 1 ELSE 0)
      IN  /\ logged = Cardinality(read \ unsaid[t])
          /\ \A i \in unsaid[t] : file[t][i].op = "T" /\ Accepted(file[t][i])

-----------------------------------------------------------------------------
(* The bank as a ledger: a transfer takes effect when the second balance   *)
(* is written.                                                             *)

Pending(id) ==
    SumFunction([t \in {u \in Halfway : Current(u).id = id} |-> loc[t].amount])

Numbers == {accounts[i].id : i \in DOMAIN accounts}

Balance == [id \in Numbers |-> accounts[IndexFromID(id)].bal + Pending(id)]

Books == INSTANCE Ledger WITH balance <- Balance, transit <- loc[Com].tot

(* Every transaction takes effect at once, on the accounts it names.       *)
LedgerSpec == Books!Spec

(* Whatever the ATMs do to each other: each step up to the first lost      *)
(* update or dropped commission, and up to the first UpWriteAction too     *)
(* many, is one whole transaction of the ledger or changes nothing there.  *)
WholeTransactions ==
    [][lost' \/ surplus' > 0 \/ Books!Next]_(Books!vars)

(* If the list's readers now and then leave all together, and the printer  *)
(* is not caught by a copied semaphore, every input file is read to its    *)
(* end and the program exits.                                              *)
BankCloses ==
    ([]<>(rcount = 0) /\ [](at[Prt] # "hung")) => <>(main = "exited")
=============================================================================
