---------------------------- MODULE Bank_proofs ----------------------------
(***************************************************************************)
(* Proofs about the bank (Bank.tla), for any number of ATMs, any input     *)
(* files and any width of the balances: the types, the books of the list's *)
(* lock, and what the threads may rely on while that lock holds.           *)
(***************************************************************************)
EXTENDS Bank, DataLemmas

Modes == {"out", "reading", "writing"}

Account == [id : AccountId, pw : Passwords, bal : 0 .. ULLMod - 1]

(* The places between the calls that take the list's lock and give it back.*)
Locked == {"check", "insert", "take_test", "take_read", "take_write",
           "add_read", "add_write", "report", "erase", "leave", "fee",
           "print", "hung"}

AtWork == Locked \cup {"lock", "again"}

(* A thread holds the lock at these places only, and as its line asks.     *)
ModeAt(t) ==
    IF at[t] \notin Locked THEN "out" ELSE IF Writes(t) THEN "writing" ELSE "reading"

Holding == \A t \in Thread : mode[t] = ModeAt(t)

(* The line an ATM works on says where the ATM may stand.                  *)
Follows(t) ==
    /\ at[t] \notin {"fee", "credit", "print", "hung"}
    /\ at[t] \in AtWork => pos[t] <= Len(file[t]) /\ Accepted(Current(t))
    /\ at[t] \in {"insert", "again"} => Current(t).op = "O"
    /\ at[t] = "erase" => Current(t).op = "Q"
    /\ at[t] \in {"take_test", "take_read", "take_write"} => Current(t).op \in {"W", "T"}
    /\ at[t] \in {"add_read", "add_write"} => Current(t).op \in {"D", "T"}
    /\ at[t] = "report" => Current(t).op # "O"
    /\ ~loc[t].says => at[t] = "leave" /\ Current(t).op = "T"

Standing ==
    /\ \A t \in ATM : Follows(t)
    /\ at[Com] \in {"new", "idle", "lock", "fee", "take_test", "take_read",
                    "take_write", "leave", "credit", "done"}
    /\ at[Prt] \in {"new", "idle", "lock", "print", "leave", "hung", "done"}

(* OpenAccount has looked, and nobody has the number it is about to enter. *)
Absent ==
    surplus = 0 =>
      \A t \in ATM : at[t] = "insert" =>
        \A i \in DOMAIN accounts : accounts[i].id # Current(t).id

-----------------------------------------------------------------------------
(* The threads and the lock *)

(* The part of the types that almost every step needs.                     *)
Shape ==
    /\ at \in [Thread -> Places] /\ loc \in [Thread -> Locals]
    /\ pos \in [ATM -> Nat] /\ log \in [ATM -> Nat]
    /\ mode \in [Thread -> Modes]
    /\ wrt_lock \in Nat /\ rcount \in Nat /\ surplus \in Nat


(* What holds whatever happens to the list.                                *)
Base == TypeOK /\ LockBooks /\ Holding /\ Standing

(* Base holds that part, too.                                              *)
LEMMA ShapeIs == (TypeOK => Shape) /\ (Base => Shape)
<1>1. TypeOK => Shape
  BY DEF TypeOK, Shape, Modes
<1> QED
  BY <1>1 DEF Base

(* There are finitely many threads, and the bank's two are none of the     *)
(* ATMs.                                                                   *)
LEMMA Threads ==
    /\ IsFiniteSet(Thread)
    /\ ATM \subseteq Thread /\ Com \in Thread /\ Prt \in Thread
    /\ Com \notin ATM /\ Prt \notin ATM /\ Com # Prt
<1>1. IsFiniteSet({Com, Prt})
  <2>1. IsFiniteSet({Com} \cup {Prt})
    BY FS_Singleton, FS_AddElement
  <2>2. {Com, Prt} = {Com} \cup {Prt}
    OBVIOUS
  <2> QED
    BY <2>1, <2>2
<1> QED
  BY <1>1, FS_Union, BankAssumption DEF Thread

In(m) == {t \in Thread : mode[t] = m}

(* One thread more or less in a mode changes the count of that mode by     *)
(* one.                                                                    *)
LEMMA CountOne ==
    ASSUME NEW m, NEW t \in Thread
    PROVE  /\ IsFiniteSet(In(m)) /\ Cardinality(In(m)) \in Nat
           /\ mode[t] # m => Cardinality(In(m) \cup {t}) = Cardinality(In(m)) + 1
           /\ mode[t] = m => Cardinality(In(m) \ {t}) = Cardinality(In(m)) - 1
           /\ mode[t] = m => Cardinality(In(m)) > 0
           /\ mode[t] = m /\ Cardinality(In(m)) <= 1 => In(m) = {t}
<1>1. IsFiniteSet(In(m)) /\ IsFiniteSet(In(m) \ {t})
  <2>1. In(m) \subseteq Thread /\ In(m) \ {t} \subseteq Thread
    BY DEF In
  <2> QED
    BY <2>1, Threads, FS_Subset
<1>2. Cardinality(In(m)) \in Nat /\ Cardinality(In(m) \ {t}) \in Nat
  BY <1>1, FS_CardinalityType
<1>3. mode[t] # m => Cardinality(In(m) \cup {t}) = Cardinality(In(m)) + 1
  BY <1>1, FS_AddElement DEF In
<1>4. mode[t] = m => Cardinality(In(m) \ {t}) = Cardinality(In(m)) - 1
  BY <1>1, FS_RemoveElement DEF In
<1>5. Cardinality(In(m) \ {t}) = 0 => In(m) \ {t} = {}
  BY <1>1, FS_EmptySet
<1>6. mode[t] = m /\ Cardinality(In(m)) <= 1 => In(m) = {t}
  BY <1>2, <1>4, <1>5 DEF In
<1> QED
  BY <1>1, <1>2, <1>3, <1>4, <1>6

(* What the two semaphores show for r readers and w writers inside, after  *)
(* extra calls of UpWriteAction too many.                                  *)
Tally(wrt, count, extra, r, w) ==
    /\ count = r
    /\ wrt = 1 + extra - w - (IF count > 0 THEN 1 ELSE 0)

Books0 ==
    Tally(wrt_lock, rcount, surplus, Cardinality(In("reading")), Cardinality(In("writing")))

(* Each call keeps the tally.                                              *)
LEMMA TallyKept ==
    ASSUME NEW wrt \in Nat, NEW count \in Nat, NEW extra \in Nat,
           NEW r \in Nat, NEW w \in Nat, Tally(wrt, count, extra, r, w)
    PROVE  /\ count + 1 = 1 /\ wrt > 0 => Tally(wrt - 1, count + 1, extra, r + 1, w)
           /\ count + 1 # 1 => Tally(wrt, count + 1, extra, r + 1, w)
           /\ r > 0 /\ count - 1 = 0 => Tally(wrt + 1, count - 1, extra, r - 1, w)
           /\ r > 0 /\ count - 1 # 0 => Tally(wrt, count - 1, extra, r - 1, w)
           /\ Tally(wrt - 1, count, extra, r, w + 1)
           /\ Tally(wrt + 1, count, extra, r, w - 1)
           /\ Tally(wrt + 1, count, extra + 1, r, w)
  BY DEF Tally

(* While no call too many was made, a writer is alone with the list.       *)
LEMMA BooksExclude ==
    ASSUME TypeOK, Books0
    PROVE  surplus = 0 => ListExclusive
<1> SUFFICES ASSUME surplus = 0, NEW t \in Inside, mode[t] = "writing"
             PROVE  Inside = {t}
  BY DEF ListExclusive
<1>1. t \in Thread
  BY DEF Inside
<1>2. Cardinality(In("writing")) > 0 /\ Cardinality(In("writing")) \in Nat
  BY <1>1, CountOne
<1>3. Cardinality(In("writing")) <= 1 /\ ~(rcount > 0)
  BY <1>2, ShapeIs DEF Books0, Tally, Shape
<1>4. In("writing") = {t}
  BY <1>1, <1>3, CountOne
<1>5. \A u \in Thread : mode[u] # "reading"
  <2> SUFFICES ASSUME NEW u \in Thread, mode[u] = "reading" PROVE FALSE
    OBVIOUS
  <2> QED
    BY <1>3, CountOne DEF Books0, Tally
<1>6. \A u \in Thread : mode[u] \in Modes
  BY ShapeIs DEF Modes, Shape
<1> QED
  BY <1>1, <1>4, <1>5, <1>6 DEF In, Inside, Modes

(* LockBooks, written as a tally.                                          *)
LEMMA BooksAre == TypeOK => (LockBooks <=> Books0)
  BY BooksExclude DEF LockBooks, Books0, Tally, In

(* A thread that changes mode joins or leaves the readers and the writers. *)
LEMMA ModeMove ==
    ASSUME TypeOK, NEW t \in Thread, NEW m \in Modes, mode' = [mode EXCEPT ![t] = m]
    PROVE  /\ mode' \in [Thread -> Modes]
           /\ mode'[t] = m
           /\ \A u \in Thread \ {t} : mode'[u] = mode[u]
           /\ \A k \in Modes : In(k)' = IF m = k THEN In(k) \cup {t} ELSE In(k) \ {t}
  BY ShapeIs DEF In, Modes, Shape

(* What a call leaves: the books in order, and only t in another mode.     *)
Called(t, m) ==
    /\ Books0'
    /\ wrt_lock' \in Nat /\ rcount' \in Nat /\ surplus' \in Nat
    /\ mode' \in [Thread -> Modes] /\ mode'[t] = m
    /\ \A u \in Thread \ {t} : mode'[u] = mode[u]

(* Each call on the lock keeps its books, whoever makes it.                *)
LEMMA EnterAsReader ==
    ASSUME TypeOK, Books0, NEW t \in Thread, mode[t] = "out",
           DB!DownReadAction(t), surplus' = surplus
    PROVE  Called(t, "reading")
<1> DEFINE r == Cardinality(In("reading"))
           w == Cardinality(In("writing"))
<1>1. mode' = [mode EXCEPT ![t] = "reading"]
  BY DEF DB!DownReadAction
<1>2. In("reading")' = In("reading") \cup {t} /\ In("writing")' = In("writing")
  BY <1>1, ModeMove DEF Modes, In
<1>3. /\ Cardinality(In("reading")') = r + 1
      /\ Cardinality(In("writing")') = w
  BY <1>2, CountOne
<1>4. r \in Nat /\ w \in Nat /\ wrt_lock \in Nat /\ rcount \in Nat /\ surplus \in Nat
  <2>1. r \in Nat /\ w \in Nat
    BY CountOne
  <2> QED
    BY <2>1, ShapeIs DEF Shape
<1>5. Tally(wrt_lock, rcount, surplus, r, w)
  BY DEF Books0
<1>6. /\ rcount' = rcount + 1
      /\ IF rcount + 1 = 1 THEN wrt_lock > 0 /\ wrt_lock' = wrt_lock - 1
                           ELSE wrt_lock' = wrt_lock
  BY DEF DB!DownReadAction, DB!MinToReader
<1>7. Tally(wrt_lock', rcount', surplus', r + 1, w)
  <2>1. CASE rcount + 1 = 1
    <3>1. Tally(wrt_lock - 1, rcount + 1, surplus, r + 1, w)
      BY <2>1, <1>4, <1>5, <1>6, TallyKept
    <3> QED
      BY <2>1, <3>1, <1>6
  <2>2. CASE rcount + 1 # 1
    <3>1. Tally(wrt_lock, rcount + 1, surplus, r + 1, w)
      BY <2>2, <1>4, <1>5, <1>6, TallyKept
    <3> QED
      BY <2>2, <3>1, <1>6
  <2> QED
    BY <2>1, <2>2
<1>8. wrt_lock' \in Nat /\ rcount' \in Nat /\ surplus' \in Nat
  BY <1>4, <1>6
<1> QED
  BY <1>1, <1>3, <1>7, <1>8, ModeMove DEF Called, Modes, Books0

LEMMA LeaveAsReader ==
    ASSUME TypeOK, Books0, NEW t \in Thread, mode[t] = "reading",
           DB!UpReadAction(t), surplus' = surplus
    PROVE  Called(t, "out")
<1> DEFINE r == Cardinality(In("reading"))
           w == Cardinality(In("writing"))
<1>1. mode' = [mode EXCEPT ![t] = "out"]
  BY DEF DB!UpReadAction
<1>2. In("reading")' = In("reading") \ {t} /\ In("writing")' = In("writing")
  BY <1>1, ModeMove DEF Modes, In
<1>3. /\ Cardinality(In("reading")') = r - 1
      /\ Cardinality(In("writing")') = w
  BY <1>2, CountOne
<1>4. r \in Nat /\ w \in Nat /\ wrt_lock \in Nat /\ rcount \in Nat /\ surplus \in Nat
  <2>1. r \in Nat /\ w \in Nat
    BY CountOne
  <2> QED
    BY <2>1, ShapeIs DEF Shape
<1>5. Tally(wrt_lock, rcount, surplus, r, w)
  BY DEF Books0
<1>6. /\ rcount' = rcount - 1
      /\ IF rcount - 1 = 0 THEN wrt_lock' = wrt_lock + 1 ELSE wrt_lock' = wrt_lock
  BY DEF DB!UpReadAction, DB!MaxToWrite
<1>7. r > 0 /\ rcount = r
  BY <1>5, CountOne DEF Tally
<1>8. Tally(wrt_lock', rcount', surplus', r - 1, w)
  <2>1. CASE rcount - 1 = 0
    <3>1. Tally(wrt_lock + 1, rcount - 1, surplus, r - 1, w)
      BY <2>1, <1>4, <1>5, <1>7, TallyKept
    <3> QED
      BY <2>1, <3>1, <1>6
  <2>2. CASE rcount - 1 # 0
    <3>1. Tally(wrt_lock, rcount - 1, surplus, r - 1, w)
      BY <2>2, <1>4, <1>5, <1>7, TallyKept
    <3> QED
      BY <2>2, <3>1, <1>6
  <2> QED
    BY <2>1, <2>2
<1>9. wrt_lock' \in Nat /\ rcount' \in Nat /\ surplus' \in Nat
  BY <1>4, <1>6, <1>7
<1> QED
  BY <1>1, <1>3, <1>8, <1>9, ModeMove DEF Called, Modes, Books0

LEMMA EnterAsWriter ==
    ASSUME TypeOK, Books0, NEW t \in Thread, mode[t] = "out",
           DB!DownWriteAction(t), surplus' = surplus
    PROVE  Called(t, "writing")
<1> DEFINE r == Cardinality(In("reading"))
           w == Cardinality(In("writing"))
<1>1. mode' = [mode EXCEPT ![t] = "writing"]
  BY DEF DB!DownWriteAction
<1>2. In("reading")' = In("reading") /\ In("writing")' = In("writing") \cup {t}
  BY <1>1, ModeMove DEF Modes, In
<1>3. /\ Cardinality(In("reading")') = r
      /\ Cardinality(In("writing")') = w + 1
  BY <1>2, CountOne
<1>4. r \in Nat /\ w \in Nat /\ wrt_lock \in Nat /\ rcount \in Nat /\ surplus \in Nat
  <2>1. r \in Nat /\ w \in Nat
    BY CountOne
  <2> QED
    BY <2>1, ShapeIs DEF Shape
<1>5. Tally(wrt_lock, rcount, surplus, r, w)
  BY DEF Books0
<1>6. rcount' = rcount /\ wrt_lock > 0 /\ wrt_lock' = wrt_lock - 1
  BY DEF DB!DownWriteAction, DB!UpWriteAction
<1>7. Tally(wrt_lock', rcount', surplus', r, w + 1)
  BY <1>4, <1>5, <1>6, TallyKept
<1>8. wrt_lock' \in Nat /\ rcount' \in Nat /\ surplus' \in Nat
  BY <1>4, <1>6
<1> QED
  BY <1>1, <1>3, <1>7, <1>8, ModeMove DEF Called, Modes, Books0

LEMMA LeaveAsWriter ==
    ASSUME TypeOK, Books0, NEW t \in Thread, mode[t] = "writing",
           DB!UpWriteAction(t), surplus' = surplus
    PROVE  Called(t, "out")
<1> DEFINE r == Cardinality(In("reading"))
           w == Cardinality(In("writing"))
<1>1. mode' = [mode EXCEPT ![t] = "out"]
  BY DEF DB!UpWriteAction
<1>2. In("reading")' = In("reading") /\ In("writing")' = In("writing") \ {t}
  BY <1>1, ModeMove DEF Modes, In
<1>3. /\ Cardinality(In("reading")') = r
      /\ Cardinality(In("writing")') = w - 1
  BY <1>2, CountOne
<1>4. r \in Nat /\ w \in Nat /\ wrt_lock \in Nat /\ rcount \in Nat /\ surplus \in Nat
  <2>1. r \in Nat /\ w \in Nat
    BY CountOne
  <2> QED
    BY <2>1, ShapeIs DEF Shape
<1>5. Tally(wrt_lock, rcount, surplus, r, w)
  BY DEF Books0
<1>6. rcount' = rcount /\ wrt_lock' = wrt_lock + 1
  BY DEF DB!DownWriteAction, DB!UpWriteAction
<1>7. Tally(wrt_lock', rcount', surplus', r, w - 1)
  BY <1>4, <1>5, <1>6, TallyKept
<1>8. wrt_lock' \in Nat /\ rcount' \in Nat /\ surplus' \in Nat
  BY <1>4, <1>6
<1> QED
  BY <1>1, <1>3, <1>7, <1>8, ModeMove DEF Called, Modes, Books0

(* The call too many: nobody leaves, but the semaphore goes up.            *)
LEMMA LeaveTwice ==
    ASSUME TypeOK, Books0, NEW t \in Thread, mode[t] = "out",
           DB!UpWriteAction(t), surplus' = surplus + 1
    PROVE  Called(t, "out")
<1> DEFINE r == Cardinality(In("reading"))
           w == Cardinality(In("writing"))
<1>1. mode' = [mode EXCEPT ![t] = "out"]
  BY DEF DB!UpWriteAction
<1>2. In("reading")' = In("reading") /\ In("writing")' = In("writing")
  BY <1>1, ModeMove DEF Modes, In
<1>3. /\ Cardinality(In("reading")') = r
      /\ Cardinality(In("writing")') = w
  BY <1>2, CountOne
<1>4. r \in Nat /\ w \in Nat /\ wrt_lock \in Nat /\ rcount \in Nat /\ surplus \in Nat
  <2>1. r \in Nat /\ w \in Nat
    BY CountOne
  <2> QED
    BY <2>1, ShapeIs DEF Shape
<1>5. Tally(wrt_lock, rcount, surplus, r, w)
  BY DEF Books0
<1>6. rcount' = rcount /\ wrt_lock' = wrt_lock + 1
  BY DEF DB!DownWriteAction, DB!UpWriteAction
<1>7. Tally(wrt_lock', rcount', surplus', r, w)
  BY <1>4, <1>5, <1>6, TallyKept
<1>8. wrt_lock' \in Nat /\ rcount' \in Nat /\ surplus' \in Nat
  BY <1>4, <1>6
<1> QED
  BY <1>1, <1>3, <1>7, <1>8, ModeMove DEF Called, Modes, Books0

-----------------------------------------------------------------------------
(* What every step has in common *)


Rest ==
    /\ accounts \in Seq(Account)
    /\ vault \in Nat /\ booked \in Int /\ stop \in BOOLEAN /\ lost \in BOOLEAN
    /\ unsaid \in [ATM -> SUBSET Nat]
    /\ main \in {"starting", "joining", "stopping", "exited"}

(* Only t moves, within the types.                                         *)
Moves(t) ==
    /\ at' \in [Thread -> Places] /\ loc' \in [Thread -> Locals]
    /\ pos' \in [ATM -> Nat] /\ log' \in [ATM -> Nat]
    /\ \A u \in Thread \ {t} : at'[u] = at[u] /\ loc'[u] = loc[u]
    /\ \A u \in ATM \ {t} : pos'[u] = pos[u] /\ log'[u] = log[u]
    /\ t \in ATM => pos'[t] \in 1 .. Len(file[t]) + 1
    /\ file' = file

(* Where t may stand.                                                      *)
Stands(t) ==
    /\ t \in ATM => Follows(t)
    /\ t = Com => at[Com] \in {"new", "idle", "lock", "fee", "take_test", "take_read",
                               "take_write", "leave", "credit", "done"}
    /\ t = Prt => at[Prt] \in {"new", "idle", "lock", "print", "leave", "hung", "done"}

(* Standing, thread by thread.                                             *)
LEMMA StandingIs == Standing <=> \A t \in Thread : Stands(t)
  BY Threads DEF Standing, Stands, Thread

(* TypeOK, with what one step rarely touches under a name of its own.      *)
LEMMA TypesAre ==
    TypeOK <=> /\ wrt_lock \in Nat /\ rcount \in Nat /\ surplus \in Nat
               /\ mode \in [Thread -> Modes]
               /\ Rest
               /\ at \in [Thread -> Places] /\ loc \in [Thread -> Locals]
               /\ pos \in [ATM -> Nat] /\ log \in [ATM -> Nat]
               /\ file \in Scripts
               /\ \A t \in ATM : pos[t] \in 1 .. Len(file[t]) + 1
  BY DEF TypeOK, Modes, Rest, Account

(* A step without a call on the lock leaves the books as they are.         *)
LEMMA Uncalled ==
    ASSUME TypeOK, Books0, NEW t \in Thread, UNCHANGED <<lock, surplus>>
    PROVE  Called(t, mode[t])
<1>1. In("reading")' = In("reading") /\ In("writing")' = In("writing")
  BY DEF In, lock
<1> QED
  BY <1>1, ShapeIs DEF Called, Books0, lock, Modes, Shape

(* The step of one thread leaves the other threads where they may stand.   *)
LEMMA OthersStay ==
    ASSUME Standing, NEW t \in Thread, Moves(t), NEW u \in Thread \ {t}
    PROVE  Stands(u)' /\ ModeAt(u)' = ModeAt(u)
<1>1. at'[u] = at[u] /\ loc'[u] = loc[u] /\ file' = file
  BY DEF Moves
<1>2. u \in ATM => pos'[u] = pos[u] /\ Current(u)' = Current(u)
  BY <1>1 DEF Moves, Current
<1>3. Stands(u)'
  BY <1>1, <1>2, StandingIs DEF Stands, Follows
<1>4. ModeAt(u)' = ModeAt(u)
  BY <1>1, <1>2 DEF ModeAt, Writes
<1> QED
  BY <1>3, <1>4

(* Hence a step is right if it is right about the thread that makes it.    *)
LEMMA StepBase ==
    ASSUME Base, NEW t \in Thread, Moves(t), Stands(t)', Rest',
           Called(t, ModeAt(t)')
    PROVE  Base'
<1>1. Standing'
  <2>1. \A u \in Thread : Stands(u)'
    BY OthersStay DEF Base
  <2> QED
    BY <2>1, Threads DEF Standing, Stands, Thread
<1>2. Holding'
  <2> SUFFICES ASSUME NEW u \in Thread PROVE (mode[u] = ModeAt(u))'
    BY DEF Holding
  <2>1. CASE u = t
    BY <2>1 DEF Called
  <2>2. CASE u # t
    BY <2>2, OthersStay DEF Base, Called, Holding
  <2> QED
    BY <2>1, <2>2
<1>3. TypeOK'
  <2>1. file' \in Scripts /\ \A u \in ATM : pos'[u] \in 1 .. Len(file'[u]) + 1
    <3> SUFFICES ASSUME NEW u \in ATM PROVE pos'[u] \in 1 .. Len(file[u]) + 1
      BY TypesAre DEF Moves, Base
    <3>1. CASE u = t
      BY <3>1 DEF Moves
    <3>2. CASE u # t
      BY <3>2, TypesAre DEF Moves, Base
    <3> QED
      BY <3>1, <3>2
  <2> QED
    BY <2>1 DEF TypeOK, Modes, Rest, Account, Called, Moves
<1>4. LockBooks'
  <2>1. Books0'
    BY DEF Called
  <2>2. (TypeOK => (LockBooks <=> Books0))'
    BY BooksAre, PTL
  <2> QED
    BY <1>3, <2>1, <2>2
<1> QED
  BY <1>1, <1>2, <1>3, <1>4 DEF Base

-----------------------------------------------------------------------------
(* Lines and accounts *)

(* GetIndexFromID finds an account of that number if there is one.         *)
LEMMA LookUp ==
    ASSUME accounts \in Seq(Account), NEW id
    PROVE  /\ IndexFromID(id) \in Nat
           /\ IndexFromID(id) # 0 => /\ OnList(IndexFromID(id))
                                     /\ accounts[IndexFromID(id)].id = id
           /\ IndexFromID(id) = 0 => \A i \in DOMAIN accounts : accounts[i].id # id
<1> DEFINE I == {i \in 1 .. Len(accounts) : accounts[i].id = id}
<1>1. IndexFromID(id) = IF I # {} THEN Min(I) ELSE 0
  BY DEF IndexFromID, SelectInSeq
<1>2. DOMAIN accounts = 1 .. Len(accounts) /\ Len(accounts) \in Nat
  BY LenProperties
<1>3. CASE I # {}
  <2>1. I \in SUBSET Nat
    BY <1>2
  <2>2. Min(I) \in I
    BY <1>3, <2>1, SmallestIn
  <2> QED
    BY <1>1, <1>2, <1>3, <2>2 DEF OnList
<1>4. CASE I = {}
  BY <1>1, <1>2, <1>4
<1> QED
  BY <1>3, <1>4

(* The line an ATM works on.                                               *)
LEMMA LineAt ==
    ASSUME TypeOK, NEW t \in ATM, pos[t] <= Len(file[t])
    PROVE  /\ Current(t) \in Line
           /\ pos[t] \in DOMAIN file[t]
           /\ Accepted(Current(t)) =>
                /\ Current(t).id \in AccountId /\ Current(t).pw \in Passwords
                /\ Current(t).amount \in Nat /\ Current(t).amount < ULLMod
                /\ Current(t).words >= 3 /\ Current(t).op \in Ops
                /\ Current(t).op \notin {"B", "Q"} => Current(t).amount \in Amount
<1>1. file \in Scripts /\ file \in [ATM -> Seq(Line)]
  BY TypesAre, BankAssumption
<1>2. file[t] \in Seq(Line)
  BY <1>1
<1>3. pos[t] \in 1 .. Len(file[t]) /\ DOMAIN file[t] = 1 .. Len(file[t])
  BY <1>2, TypesAre, LenProperties
<1>4. Current(t) \in Line /\ pos[t] \in DOMAIN file[t]
  BY <1>2, <1>3, ElementOfSeq DEF Current
<1>5. ASSUME Accepted(Current(t))
      PROVE  /\ Current(t).id \in AccountId /\ Current(t).pw \in Passwords
             /\ Current(t).amount \in Amount \cup {0}
             /\ Current(t).op \notin {"B", "Q"} => Current(t).amount \in Amount
  <2>1. /\ Current(t).id \in AccountId
        /\ Current(t).amount \in IF Current(t).op \in {"B", "Q"} THEN Amount \cup {0}
                                ELSE Amount
    BY <1>1, <1>4, <1>5, ScriptAssumption DEF Current
  <2>2. \A line : Accepted(line) => line.pw \in Passwords
    BY DEF Accepted
  <2> QED
    BY <2>1, <2>2, <1>5
<1>6. Accepted(Current(t)) => Current(t).words >= 3 /\ Current(t).op \in Ops
  <2>1. \A op \in Ops : Words[op] >= 3
    BY DEF Words, Ops
  <2> QED
    BY <2>1 DEF Accepted
<1>7. \A a \in Amount \cup {0} : a \in Nat /\ a < ULLMod
  BY BankAssumption
<1>8. Accepted(Current(t)) => Current(t).amount \in Nat /\ Current(t).amount < ULLMod
  BY <1>5, <1>7
<1>9. Accepted(Current(t)) =>
        /\ Current(t).id \in AccountId /\ Current(t).pw \in Passwords
        /\ Current(t).op \notin {"B", "Q"} => Current(t).amount \in Amount
  BY <1>5
<1> QED
  BY <1>4, <1>6, <1>8, <1>9

-----------------------------------------------------------------------------
(* The steps keep Base *)

(* A step that makes no call needs to look after the types and its own     *)
(* place only.                                                             *)
LEMMA StayBase ==
    ASSUME Base, NEW t \in Thread, Moves(t), Stands(t)', Rest',
           UNCHANGED <<lock, surplus>>, ModeAt(t)' = ModeAt(t)
    PROVE  Base'
<1>1. Books0
  BY BooksAre DEF Base
<1>2. Called(t, ModeAt(t)')
  BY <1>1, Uncalled DEF Base, Holding
<1> QED
  BY <1>2, StepBase

(* Thread t goes to p, and its variables become l.                         *)
Goes(t, p, l) ==
    /\ at' = [at EXCEPT ![t] = p] /\ p \in Places
    /\ loc' = [loc EXCEPT ![t] = l] /\ l \in Locals
    /\ file' = file

(* A thread that stays on its line leaves it and its lock as they are.     *)
LEMMA GoesOn ==
    ASSUME TypeOK, NEW t \in Thread, NEW p, NEW l, Goes(t, p, l), UNCHANGED io
    PROVE  /\ Moves(t) /\ at'[t] = p /\ loc'[t] = l
           /\ t \in ATM => Current(t)' = Current(t) /\ pos'[t] = pos[t]
           /\ Writes(t)' = Writes(t)
<1>1. at \in [Thread -> Places] /\ loc \in [Thread -> Locals]
  BY ShapeIs DEF Shape
<1>2. Moves(t) /\ at'[t] = p /\ loc'[t] = l
  BY <1>1, TypesAre DEF Goes, Moves, io
<1>3. Current(t)' = Current(t) /\ pos' = pos
  BY DEF Goes, io, Current
<1> QED
  BY <1>2, <1>3 DEF Writes

(* An ATM goes on to the next line.                                        *)
LEMMA GoesToNext ==
    ASSUME TypeOK, NEW t \in ATM, NEW p, NEW l, Goes(t, p, l), pos[t] <= Len(file[t]),
           NextLine(t), log' = log \/ Write(t)
    PROVE  /\ Moves(t) /\ at'[t] = p /\ loc'[t] = l
           /\ pos'[t] = pos[t] + 1
           /\ log'[t] = IF log' = log THEN log[t] ELSE log[t] + 1
<1>1. file \in [ATM -> Seq(Line)]
  BY TypesAre, BankAssumption
<1>2. Len(file[t]) \in Nat /\ t \in Thread
  BY <1>1, LenProperties, Threads
<1>3. pos' \in [ATM -> Nat] /\ pos'[t] = pos[t] + 1 /\ \A u \in ATM \ {t} : pos'[u] = pos[u]
  BY ShapeIs DEF NextLine, Shape
<1>4. pos'[t] \in 1 .. Len(file[t]) + 1
  BY <1>2, <1>3, TypesAre
<1>5. /\ log' \in [ATM -> Nat] /\ \A u \in ATM \ {t} : log'[u] = log[u]
      /\ log'[t] = IF log' = log THEN log[t] ELSE log[t] + 1
  <2>1. log \in [ATM -> Nat]
    BY ShapeIs DEF Shape
  <2> QED
    BY <2>1 DEF Write
<1> QED
  BY <1>2, <1>3, <1>4, <1>5, ShapeIs DEF Goes, Moves, Shape

(* The local variables a thread starts an operation with.                  *)
LEMMA FreshIs ==
    /\ Fresh \in Locals /\ Fresh.says /\ Fresh.tot = 0
    /\ \A a \in Nat : /\ [Fresh EXCEPT !.amount = a] \in Locals
                      /\ [Fresh EXCEPT !.amount = a].says
                      /\ [Fresh EXCEPT !.amount = a].amount = a
  BY DEF Fresh, Locals

LEMMA StartBase ==
    ASSUME Base, NEW t \in ATM, Start(t), file' = file
    PROVE  Base'
<1>1. PICK p \in {"idle", "done"} : at' = [at EXCEPT ![t] = p]
  BY DEF Start, Goto
<1>2. t \in Thread /\ t # Com /\ t # Prt
  BY Threads
<1>3. Goes(t, p, loc[t]) /\ UNCHANGED io
  BY <1>1, <1>2, ShapeIs DEF Start, Goes, Places, Shape
<1>4. Moves(t) /\ at'[t] = p /\ loc'[t] = loc[t]
  BY <1>2, <1>3, GoesOn DEF Base
<1>5. loc[t].says
  BY DEF Start, Base, Standing, Follows
<1>6. Stands(t)'
  BY <1>1, <1>2, <1>4, <1>5 DEF Stands, Follows, AtWork, Locked
<1>7. ModeAt(t)' = ModeAt(t)
  BY <1>1, <1>4 DEF Start, ModeAt, Locked
<1>8. Rest' /\ UNCHANGED <<lock, surplus>>
  BY TypesAre DEF Base, Rest, Start, shared, history
<1> QED
  BY <1>2, <1>4, <1>6, <1>7, <1>8, StayBase

LEMMA SkipBase ==
    ASSUME Base, NEW t \in ATM, ShortLine(t) \/ RefuseLine(t), file' = file
    PROVE  Base'
<1>1. t \in Thread /\ t # Com /\ t # Prt
  BY Threads
<1>2. at[t] = "idle" /\ pos[t] <= Len(file[t]) /\ NextLine(t)
  BY DEF ShortLine, RefuseLine, MoreLines
<1>3. log' = log \/ Write(t)
  BY DEF ShortLine, RefuseLine
<1>4. Goes(t, at[t], loc[t])
  BY <1>1, ShapeIs DEF ShortLine, RefuseLine, Goes, Shape
<1>5. Moves(t) /\ at'[t] = "idle" /\ loc'[t] = loc[t]
  BY <1>1, <1>2, <1>3, <1>4, GoesToNext DEF Base
<1>6. loc[t].says
  BY <1>2 DEF Base, Standing, Follows
<1>7. Stands(t)'
  BY <1>1, <1>5, <1>6 DEF Stands, Follows, AtWork, Locked
<1>8. ModeAt(t)' = ModeAt(t)
  BY <1>2, <1>5 DEF ModeAt, Locked
<1>9. Rest' /\ UNCHANGED <<lock, surplus>>
  BY TypesAre DEF Base, Rest, ShortLine, RefuseLine, shared, history
<1> QED
  BY <1>1, <1>5, <1>7, <1>8, <1>9, StayBase

LEMMA AcceptBase ==
    ASSUME Base, NEW t \in ATM, AcceptLine(t), file' = file
    PROVE  Base'
<1> DEFINE l == [Fresh EXCEPT !.amount = Current(t).amount]
<1>1. t \in Thread /\ t # Com /\ t # Prt
  BY Threads
<1>2. at[t] = "idle" /\ pos[t] <= Len(file[t]) /\ Accepted(Current(t))
  BY DEF AcceptLine, MoreLines
<1>3. Current(t).amount \in Nat
  BY <1>2, LineAt DEF Base
<1>4. l \in Locals /\ l.says
  BY <1>3, FreshIs
<1>5. Goes(t, "lock", l) /\ UNCHANGED io
  BY <1>1, <1>4 DEF AcceptLine, Goes, Goto, Places
<1> HIDE DEF l
<1>6. /\ Moves(t) /\ at'[t] = "lock" /\ loc'[t] = l
      /\ Current(t)' = Current(t) /\ pos'[t] = pos[t] /\ file' = file
  BY <1>1, <1>5, GoesOn DEF Base
<1>7. Stands(t)'
  <2>1. Accepted(Current(t))'
    BY <1>2, <1>6
  <2>2. pos'[t] <= Len(file'[t])
    BY <1>2, <1>6
  <2>3. Follows(t)'
    BY <1>4, <1>6, <2>1, <2>2 DEF Follows
  <2> QED
    BY <1>1, <2>3 DEF Stands
<1>8. ModeAt(t)' = ModeAt(t)
  BY <1>2, <1>6 DEF ModeAt, Locked
<1>9. Rest' /\ UNCHANGED <<lock, surplus>>
  BY TypesAre DEF Base, Rest, AcceptLine, shared, history
<1> QED
  BY <1>1, <1>6, <1>7, <1>8, <1>9, StayBase

LEMMA EndBase ==
    ASSUME Base, NEW t \in ATM, EndOfFile(t), file' = file
    PROVE  Base'
<1>1. t \in Thread /\ t # Com /\ t # Prt
  BY Threads
<1>2. Goes(t, "done", loc[t]) /\ UNCHANGED io /\ at[t] = "idle"
  BY <1>1, ShapeIs DEF EndOfFile, Goes, Goto, Places, Shape
<1>3. Moves(t) /\ at'[t] = "done" /\ loc'[t] = loc[t]
  BY <1>1, <1>2, GoesOn DEF Base
<1>4. loc[t].says
  BY <1>2 DEF Base, Standing, Follows
<1>5. Stands(t)'
  BY <1>1, <1>3, <1>4 DEF Stands, Follows, AtWork, Locked
<1>6. ModeAt(t)' = ModeAt(t)
  BY <1>2, <1>3 DEF ModeAt, Locked
<1>7. Rest' /\ UNCHANGED <<lock, surplus>>
  BY TypesAre DEF Base, Rest, EndOfFile, shared, history
<1> QED
  BY <1>1, <1>3, <1>5, <1>6, <1>7, StayBase

(* A place inside the lock fits the line's operation.                      *)
Fits(p, op, says) ==
    /\ p \in Locked \ {"fee", "print", "hung"}
    /\ p = "insert" => op = "O"
    /\ p = "erase" => op = "Q"
    /\ p \in {"take_test", "take_read", "take_write"} => op \in {"W", "T"}
    /\ p \in {"add_read", "add_write"} => op \in {"D", "T"}
    /\ p = "report" => op # "O"
    /\ ~says => p = "leave" /\ op = "T"

LEMMA WorksOn ==
    ASSUME Base, NEW t \in ATM, at[t] \in Locked
    PROVE  /\ t \in Thread /\ t # Com /\ t # Prt
           /\ pos[t] <= Len(file[t]) /\ Accepted(Current(t))
           /\ Current(t) \in Line /\ Current(t).op \in Ops
           /\ Fits(at[t], Current(t).op, loc[t].says)
<1>1. t \in Thread /\ t # Com /\ t # Prt
  BY Threads
<1>2. Follows(t) /\ pos[t] <= Len(file[t]) /\ Accepted(Current(t))
  BY DEF Base, Standing, Follows, AtWork
<1>3. Current(t) \in Line /\ Current(t).op \in Ops
  BY <1>2, LineAt DEF Base
<1>4. Fits(at[t], Current(t).op, loc[t].says)
  BY <1>2 DEF Follows, Fits
<1> QED
  BY <1>1, <1>2, <1>3, <1>4

(* An ATM that goes on inside the lock.                                    *)
LEMMA InsideBase ==
    ASSUME Base, NEW t \in ATM, at[t] \in Locked, NEW p, NEW l,
           Goes(t, p, l), Fits(p, Current(t).op, l.says),
           UNCHANGED <<lock, surplus, io>>, Rest'
    PROVE  Base'
<1>1. t \in Thread /\ t # Com /\ t # Prt /\ pos[t] <= Len(file[t]) /\ Accepted(Current(t))
  BY WorksOn
<1>2. /\ Moves(t) /\ at'[t] = p /\ loc'[t] = l
      /\ Current(t)' = Current(t) /\ pos'[t] = pos[t] /\ file' = file
      /\ Writes(t)' = Writes(t)
  BY <1>1, GoesOn DEF Base, Goes
<1>3. Follows(t)'
  <2>1. Accepted(Current(t))'
    BY <1>1, <1>2
  <2>2. pos'[t] <= Len(file'[t])
    BY <1>1, <1>2
  <2> QED
    BY <1>2, <2>1, <2>2 DEF Follows, Fits, Locked
<1>4. Stands(t)'
  BY <1>1, <1>3 DEF Stands
<1>5. ModeAt(t)' = ModeAt(t)
  BY <1>2 DEF ModeAt, Fits
<1> QED
  BY <1>1, <1>2, <1>4, <1>5, StayBase

(* What no step inside the lock touches.                                   *)
LEMMA InsideRest ==
    ASSUME Base, UNCHANGED inside, accounts' \in Seq(Account), booked' \in Int,
           lost' \in BOOLEAN, unsaid' = unsaid \/ unsaid' \in [ATM -> SUBSET Nat]
    PROVE  Rest' /\ UNCHANGED <<lock, surplus, io>>
  BY TypesAre DEF Base, Rest, inside

(* The list is a list of accounts, so its entries can be read.             *)
LEMMA SameAccounts ==
    ASSUME Base
    PROVE  accounts \in Seq(Account) /\ booked \in Int /\ lost \in BOOLEAN
  BY TypesAre DEF Base, Rest

(* A refused operation goes to leave the lock.                             *)
LEMMA FailGoes ==
    ASSUME Base, NEW t \in Thread, NEW says \in BOOLEAN, Fail(t, says), file' = file
    PROVE  \E l \in Locals : Goes(t, "leave", l) /\ l.says = says /\ l.ok = FALSE
<1> DEFINE l == [loc[t] EXCEPT !.ok = FALSE, !.says = says]
<1>1. loc[t] \in Locals
  BY ShapeIs DEF Shape
<1>2. l \in Locals /\ l.says = says /\ l.ok = FALSE
  BY <1>1 DEF Locals
<1>3. loc' = [loc EXCEPT ![t] = l]
  BY <1>1 DEF Fail, Locals
<1>4. Goes(t, "leave", l)
  BY <1>2, <1>3 DEF Fail, Goes, Goto, Places
<1> QED
  BY <1>2, <1>4

LEMMA CheckOpenBase ==
    ASSUME Base, NEW t \in ATM, CheckOpen(t), file' = file
    PROVE  Base'
<1>1. at[t] \in Locked /\ Current(t).op = "O"
  BY DEF CheckOpen, Locked
<1>2. Rest' /\ UNCHANGED <<lock, surplus, io>>
  BY InsideRest, SameAccounts DEF CheckOpen
<1>3. loc[t].says /\ loc[t] \in Locals /\ t \in Thread
  BY <1>1, WorksOn, ShapeIs DEF CheckOpen, Fits, Shape
<1>4. CASE Fail(t, TRUE)
  <2>1. PICK l \in Locals : Goes(t, "leave", l) /\ l.says = TRUE
    BY <1>3, <1>4, FailGoes
  <2> QED
    BY <1>1, <1>2, <2>1, InsideBase DEF Fits, Locked
<1>5. CASE Goto(t, "insert") /\ UNCHANGED loc
  <2>1. Goes(t, "insert", loc[t])
    BY <1>3, <1>5, ShapeIs DEF Goes, Goto, Places, Shape
  <2> QED
    BY <1>1, <1>2, <1>3, <2>1, InsideBase DEF Fits, Locked
<1> QED
  BY <1>4, <1>5 DEF CheckOpen

LEMMA InsertBase ==
    ASSUME Base, NEW t \in ATM, Insert(t), file' = file
    PROVE  Base'
<1>1. at[t] \in Locked
  BY DEF Insert, Locked
<1>2. loc[t].says /\ loc[t] \in Locals /\ t \in Thread
  BY <1>1, WorksOn, ShapeIs DEF Insert, Fits, Shape
<1>3. Goes(t, "leave", loc[t])
  BY <1>2, ShapeIs DEF Insert, Goes, Goto, Places, Shape
<1> DEFINE a == [id |-> Current(t).id, pw |-> Current(t).pw,
                 bal |-> Current(t).amount % ULLMod]
<1>4. a \in Account
  <2>1. /\ Current(t).id \in AccountId /\ Current(t).pw \in Passwords
        /\ Current(t).amount \in Nat
    BY <1>1, WorksOn, LineAt DEF Base
  <2>2. Current(t).amount % ULLMod \in 0 .. ULLMod - 1
    BY <2>1, BankAssumption
  <2> QED
    BY <2>1, <2>2 DEF Account
<1>5. accounts' = Append(accounts, a) /\ booked' = booked + Current(t).amount
  BY DEF Insert
<1>6. accounts' \in Seq(Account)
  BY <1>4, <1>5, SameAccounts, AppendProperties
<1>7. booked' \in Int
  BY <1>1, <1>5, WorksOn, LineAt, SameAccounts DEF Base
<1>8. Rest' /\ UNCHANGED <<lock, surplus, io>>
  BY <1>6, <1>7, InsideRest, SameAccounts DEF Insert
<1> QED
  BY <1>1, <1>2, <1>3, <1>8, InsideBase DEF Fits, Locked

LEMMA CheckAccountBase ==
    ASSUME Base, NEW t \in ATM, CheckAccount(t), file' = file
    PROVE  Base'
<1> DEFINE i == IndexFromID(Current(t).id)
<1>1. at[t] \in Locked /\ Current(t).op \in {"D", "W", "B", "Q"}
  BY DEF CheckAccount, Locked
<1>2. Rest' /\ UNCHANGED <<lock, surplus, io>>
  BY InsideRest, SameAccounts DEF CheckAccount
<1>3. loc[t].says /\ loc[t] \in Locals /\ t \in Thread
  BY <1>1, WorksOn, ShapeIs DEF CheckAccount, Fits, Shape
<1>4. CASE Fail(t, TRUE)
  <2>1. PICK l \in Locals : Goes(t, "leave", l) /\ l.says = TRUE
    BY <1>3, <1>4, FailGoes
  <2> QED
    BY <1>1, <1>2, <2>1, InsideBase DEF Fits, Locked
<1>5. CASE /\ Goto(t, CASE Current(t).op = "D" -> "add_read"
                        [] Current(t).op = "W" -> "take_test"
                        [] Current(t).op \in {"B", "Q"} -> "report")
           /\ loc' = [loc EXCEPT ![t].idx = i, ![t].dst = i]
  <2> DEFINE l == [loc[t] EXCEPT !.idx = i, !.dst = i]
             p == CASE Current(t).op = "D" -> "add_read"
                    [] Current(t).op = "W" -> "take_test"
                    [] Current(t).op \in {"B", "Q"} -> "report"
  <2>1. i \in Nat
    BY LookUp, SameAccounts
  <2>2. l \in Locals /\ l.says
    BY <1>3, <2>1 DEF Locals
  <2>3. loc' = [loc EXCEPT ![t] = l] /\ at' = [at EXCEPT ![t] = p]
    BY <1>3, <1>5 DEF Locals, Goto
  <2>4. p \in {"add_read", "take_test", "report"} /\ Fits(p, Current(t).op, l.says)
    BY <1>1, <2>2 DEF Fits, Locked
  <2>5. Goes(t, p, l)
    BY <2>2, <2>3, <2>4 DEF Goes, Places
  <2> QED
    BY <1>1, <1>2, <2>4, <2>5, InsideBase
<1> QED
  BY <1>4, <1>5 DEF CheckAccount

LEMMA CheckTransferBase ==
    ASSUME Base, NEW t \in ATM, CheckTransfer(t), file' = file
    PROVE  Base'
<1> DEFINE i == IndexFromID(Current(t).id)
           j == IndexFromID(Current(t).to)
<1>1. at[t] \in Locked /\ Current(t).op = "T"
  BY DEF CheckTransfer, Locked
<1>2. Rest' /\ UNCHANGED <<lock, surplus, io>>
  <2>1. pos[t] \in Nat /\ unsaid \in [ATM -> SUBSET Nat]
    BY TypesAre DEF Base, Rest
  <2>2. unsaid' = unsaid \/ unsaid' = [unsaid EXCEPT ![t] = @ \cup {pos[t]}]
    BY DEF CheckTransfer
  <2>3. unsaid' = unsaid \/ unsaid' \in [ATM -> SUBSET Nat]
    BY <2>1, <2>2
  <2> QED
    BY <2>3, InsideRest, SameAccounts DEF CheckTransfer
<1>3. loc[t].says /\ loc[t] \in Locals /\ t \in Thread
  BY <1>1, WorksOn, ShapeIs DEF CheckTransfer, Fits, Shape
<1>4. ASSUME NEW says \in BOOLEAN, Fail(t, says) PROVE Base'
  <2>1. PICK l \in Locals : Goes(t, "leave", l) /\ l.says = says
    BY <1>3, <1>4, FailGoes
  <2> QED
    BY <1>1, <1>2, <2>1, InsideBase DEF Fits, Locked
<1>5. CASE Goto(t, "take_test") /\ loc' = [loc EXCEPT ![t].idx = i, ![t].dst = j]
  <2> DEFINE l == [loc[t] EXCEPT !.idx = i, !.dst = j]
  <2>1. i \in Nat /\ j \in Nat
    BY LookUp, SameAccounts
  <2>2. l \in Locals /\ l.says
    BY <1>3, <2>1 DEF Locals
  <2>3. loc' = [loc EXCEPT ![t] = l]
    BY <1>3, <1>5 DEF Locals
  <2>4. Fits("take_test", Current(t).op, l.says)
    BY <1>1, <2>2 DEF Fits, Locked
  <2>5. Goes(t, "take_test", l)
    BY <1>5, <2>2, <2>3 DEF Goes, Places, Goto
  <2> QED
    BY <1>1, <1>2, <2>4, <2>5, InsideBase
<1>6. \/ Fail(t, TRUE) \/ Fail(t, FALSE)
      \/ Goto(t, "take_test") /\ loc' = [loc EXCEPT ![t].idx = i, ![t].dst = j]
  BY DEF CheckTransfer
<1> QED
  BY <1>4, <1>5, <1>6

(* What GetBalance returns, and what SetBalance leaves of the list.        *)
LEMMA BalanceRead ==
    ASSUME accounts \in Seq(Account), NEW i, OnList(i)
    PROVE  GetBalance(i) \in Nat /\ accounts[i] \in Account
<1>1. accounts[i] \in Account
  BY LenProperties, ElementOfSeq DEF OnList
<1>2. accounts[i].bal \in Nat
  BY <1>1, BankAssumption DEF Account
<1> QED
  BY <1>1, <1>2, BankAssumption DEF GetBalance

(* SetBalance changes one balance and keeps it in range.                   *)
LEMMA BalanceSet ==
    ASSUME accounts \in Seq(Account), NEW i, OnList(i), NEW b \in Int, SetBalance(i, b)
    PROVE  /\ accounts' \in Seq(Account) /\ DOMAIN accounts' = DOMAIN accounts
           /\ accounts'[i].bal = b % ULLMod
           /\ \A j \in DOMAIN accounts :
                /\ accounts'[j].id = accounts[j].id
                /\ j # i => accounts'[j].bal = accounts[j].bal
<1> DEFINE a == [accounts[i] EXCEPT !.bal = b % ULLMod]
<1>1. accounts[i] \in Account
  BY BalanceRead
<1>2. b % ULLMod \in 0 .. ULLMod - 1
  BY BankAssumption
<1>3. a \in Account /\ a.id = accounts[i].id /\ a.bal = b % ULLMod
  BY <1>1, <1>2 DEF Account
<1>4. accounts' = [accounts EXCEPT ![i] = a]
  BY DEF SetBalance
<1>5. i \in 1 .. Len(accounts) /\ DOMAIN accounts = 1 .. Len(accounts)
  BY LenProperties DEF OnList
<1> HIDE DEF a
<1>6. accounts' \in Seq(Account)
  BY <1>3, <1>4, <1>5, ExceptSeq
<1> QED
  BY <1>3, <1>4, <1>5, <1>6

LEMMA AddReadBase ==
    ASSUME Base, NEW t \in ATM, AddRead(t), file' = file
    PROVE  Base'
<1> DEFINE b == GetBalance(loc[t].dst)
           l == [loc[t] EXCEPT !.bal = b]
<1>1. at[t] \in Locked
  BY DEF AddRead, Locked
<1>2. Rest' /\ UNCHANGED <<lock, surplus, io>>
  BY InsideRest, SameAccounts DEF AddRead
<1>3. loc[t].says /\ loc[t] \in Locals /\ t \in Thread /\ Current(t).op \in {"D", "T"}
  BY <1>1, WorksOn, ShapeIs DEF AddRead, Fits, Shape
<1>4. b \in Nat
  BY BalanceRead, SameAccounts DEF AddRead
<1>5. l \in Locals /\ l.says
  BY <1>3, <1>4 DEF Locals
<1>6. loc' = [loc EXCEPT ![t] = l]
  BY <1>3 DEF Locals, AddRead
<1>7. Goes(t, "add_write", l) /\ Fits("add_write", Current(t).op, l.says)
  BY <1>3, <1>5, <1>6 DEF AddRead, Goes, Goto, Places, Fits, Locked
<1> QED
  BY <1>1, <1>2, <1>7, InsideBase

LEMMA AddWriteBase ==
    ASSUME Base, NEW t \in ATM, AddWrite(t), file' = file
    PROVE  Base'
<1>1. at[t] \in Locked
  BY DEF AddWrite, Locked
<1>2. loc[t].says /\ loc[t] \in Locals /\ t \in Thread /\ Current(t).op \in {"D", "T"}
  BY <1>1, WorksOn, ShapeIs DEF AddWrite, Fits, Shape
<1>3. loc[t].bal + loc[t].amount \in Int /\ loc[t].amount \in Int
  BY <1>2 DEF Locals
<1>4. accounts' \in Seq(Account)
  BY <1>3, BalanceSet, SameAccounts DEF AddWrite
<1>5. lost' \in BOOLEAN
  BY DEF AddWrite
<1>6. booked' \in Int
  BY <1>3, SameAccounts DEF AddWrite
<1>7. Rest' /\ UNCHANGED <<lock, surplus, io>>
  BY <1>4, <1>5, <1>6, InsideRest DEF AddWrite
<1>8. Goes(t, "report", loc[t]) /\ Fits("report", Current(t).op, loc[t].says)
  BY <1>2, ShapeIs DEF AddWrite, inside, Goes, Goto, Places, Fits, Locked, Shape
<1> QED
  BY <1>1, <1>7, <1>8, InsideBase

LEMMA ReportBase ==
    ASSUME Base, NEW t \in ATM, Report(t), file' = file
    PROVE  Base'
<1> DEFINE p == IF Current(t).op = "Q" THEN "erase" ELSE "leave"
<1>1. at[t] \in Locked
  BY DEF Report, Locked
<1>2. loc[t].says /\ loc[t] \in Locals /\ t \in Thread
  BY <1>1, WorksOn, ShapeIs DEF Report, Fits, Shape
<1>3. Rest' /\ UNCHANGED <<lock, surplus, io>>
  BY InsideRest, SameAccounts DEF Report
<1>4. Goes(t, p, loc[t]) /\ Fits(p, Current(t).op, loc[t].says)
  BY <1>2, ShapeIs DEF Report, Goes, Goto, Places, Fits, Locked, Shape
<1> QED
  BY <1>1, <1>3, <1>4, InsideBase

LEMMA EraseBase ==
    ASSUME Base, NEW t \in ATM, Erase(t), file' = file
    PROVE  Base'
<1>1. at[t] \in Locked
  BY DEF Erase, Locked
<1>2. loc[t].says /\ loc[t] \in Locals /\ t \in Thread
  BY <1>1, WorksOn, ShapeIs DEF Erase, Fits, Shape
<1>3. accounts' \in Seq(Account)
  BY Removed, LenProperties, SameAccounts DEF Erase, OnList
<1>4. booked' \in Int
  <2>1. accounts[loc[t].idx].bal \in Int
    BY BalanceRead, SameAccounts, BankAssumption DEF Erase, Account
  <2> QED
    BY <2>1, SameAccounts DEF Erase
<1>5. Rest' /\ UNCHANGED <<lock, surplus, io>>
  BY <1>3, <1>4, InsideRest, SameAccounts DEF Erase
<1>6. Goes(t, "leave", loc[t]) /\ Fits("leave", Current(t).op, loc[t].says)
  BY <1>2, ShapeIs DEF Erase, Goes, Goto, Places, Fits, Locked, Shape
<1> QED
  BY <1>1, <1>5, <1>6, InsideBase

ComPlaces == {"new", "idle", "lock", "fee", "take_test", "take_read",
              "take_write", "leave", "credit", "done"}

PrtPlaces == {"new", "idle", "lock", "print", "leave", "hung", "done"}

(* The bank's own threads never write the list.                            *)
LEMMA BankThreadBase ==
    ASSUME Base, NEW t \in {Com, Prt}, NEW p, NEW l, Goes(t, p, l),
           t = Com => p \in ComPlaces, t = Prt => p \in PrtPlaces,
           p \in Locked <=> at[t] \in Locked,
           UNCHANGED <<lock, surplus, io>>, Rest'
    PROVE  Base'
<1>1. t \in Thread /\ t \notin ATM /\ Com # Prt
  BY Threads
<1>2. Moves(t) /\ at'[t] = p /\ loc'[t] = l
  BY <1>1, GoesOn DEF Base
<1>3. Stands(t)'
  BY <1>1, <1>2 DEF Stands, ComPlaces, PrtPlaces
<1>4. ModeAt(t)' = ModeAt(t)
  BY <1>1, <1>2 DEF ModeAt, Writes
<1> QED
  BY <1>1, <1>2, <1>3, <1>4, StayBase

(* Who takes money: an ATM, or the commission.                             *)
LEMMA Takers ==
    ASSUME Base, NEW t \in Thread, at[t] \in {"take_test", "take_read", "take_write"}
    PROVE  /\ t \in ATM \/ t = Com
           /\ t \in ATM => loc[t].says /\ Current(t).op \in {"W", "T"}
           /\ loc[t] \in Locals /\ at[t] \in Locked
<1>1. t \in ATM \/ t = Com
  BY Threads DEF Thread, Base, Standing
<1>2. at[t] \in Locked
  BY DEF Locked
<1>3. t \in ATM => loc[t].says /\ Current(t).op \in {"W", "T"}
  BY <1>2, WorksOn DEF Fits
<1> QED
  BY <1>1, <1>2, <1>3, ShapeIs DEF Base, Shape

LEMMA TakeTestBase ==
    ASSUME Base, NEW t \in Thread, TakeTest(t), file' = file
    PROVE  Base'
<1>1. /\ t \in ATM \/ t = Com
      /\ t \in ATM => loc[t].says /\ Current(t).op \in {"W", "T"}
      /\ loc[t] \in Locals /\ at[t] \in Locked
  BY Takers DEF TakeTest
<1>2. Rest' /\ UNCHANGED <<lock, surplus, io>>
  <2>1. lost' \in BOOLEAN
    BY SameAccounts DEF TakeTest
  <2> QED
    BY <2>1, InsideRest, SameAccounts DEF TakeTest
<1>3. CASE Goto(t, "take_read") /\ UNCHANGED loc
  <2>1. Goes(t, "take_read", loc[t])
    BY <1>1, <1>3, ShapeIs DEF Goes, Goto, Places, Shape
  <2>2. CASE t \in ATM
    <3>1. Fits("take_read", Current(t).op, loc[t].says)
      BY <1>1, <2>2 DEF Fits, Locked
    <3> QED
      BY <1>1, <1>2, <2>1, <2>2, <3>1, InsideBase
  <2>3. CASE t = Com
    BY <1>1, <1>2, <2>1, <2>3, Threads, BankThreadBase DEF ComPlaces, Locked
  <2> QED
    BY <1>1, <2>2, <2>3
<1>4. CASE t \in ATM /\ Fail(t, TRUE)
  <2>1. PICK l \in Locals : Goes(t, "leave", l) /\ l.says = TRUE
    BY <1>4, FailGoes
  <2>2. Fits("leave", Current(t).op, l.says)
    BY <2>1 DEF Fits, Locked
  <2> QED
    BY <1>1, <1>2, <1>4, <2>1, <2>2, InsideBase
<1>5. CASE t = Com /\ Goto(t, "leave") /\ loc' = [loc EXCEPT ![t].tot = 0]
  <2> DEFINE l == [loc[t] EXCEPT !.tot = 0]
  <2>1. l \in Locals
    BY <1>1 DEF Locals
  <2>2. loc' = [loc EXCEPT ![t] = l]
    BY <1>1, <1>5 DEF Locals
  <2>3. Goes(t, "leave", l)
    BY <1>5, <2>1, <2>2 DEF Goes, Goto, Places
  <2> HIDE DEF l
  <2> QED
    BY <1>1, <1>2, <1>5, <2>3, Threads, BankThreadBase DEF ComPlaces, Locked
<1> QED
  BY <1>1, <1>3, <1>4, <1>5 DEF TakeTest

LEMMA TakeReadBase ==
    ASSUME Base, NEW t \in Thread, TakeRead(t), file' = file
    PROVE  Base'
<1> DEFINE b == GetBalance(loc[t].idx)
           l == [loc[t] EXCEPT !.bal = b]
<1>1. /\ t \in ATM \/ t = Com
      /\ t \in ATM => loc[t].says /\ Current(t).op \in {"W", "T"}
      /\ loc[t] \in Locals /\ at[t] \in Locked
  BY Takers DEF TakeRead
<1>2. Rest' /\ UNCHANGED <<lock, surplus, io>>
  BY InsideRest, SameAccounts DEF TakeRead
<1>3. b \in Nat
  BY BalanceRead, SameAccounts DEF TakeRead
<1>4. l \in Locals /\ l.says = loc[t].says
  BY <1>1, <1>3 DEF Locals
<1>5. loc' = [loc EXCEPT ![t] = l]
  BY <1>1 DEF Locals, TakeRead
<1>6. Goes(t, "take_write", l)
  BY <1>4, <1>5 DEF TakeRead, Goes, Goto, Places
<1> HIDE DEF l
<1>7. CASE t \in ATM
  <2>1. Fits("take_write", Current(t).op, l.says)
    BY <1>1, <1>4, <1>7 DEF Fits, Locked
  <2> QED
    BY <1>1, <1>2, <1>6, <1>7, <2>1, InsideBase
<1>8. CASE t = Com
  BY <1>1, <1>2, <1>6, <1>8, Threads, BankThreadBase DEF ComPlaces, Locked
<1> QED
  BY <1>1, <1>7, <1>8

LEMMA TakeWriteBase ==
    ASSUME Base, NEW t \in Thread, TakeWrite(t), file' = file
    PROVE  Base'
<1>1. /\ t \in ATM \/ t = Com
      /\ t \in ATM => loc[t].says /\ Current(t).op \in {"W", "T"}
      /\ loc[t] \in Locals /\ at[t] \in Locked
  BY Takers DEF TakeWrite
<1>2. loc[t].bal - loc[t].amount \in Int /\ loc[t].amount \in Nat
  BY <1>1 DEF Locals
<1>3. accounts' \in Seq(Account)
  BY <1>2, BalanceSet, SameAccounts DEF TakeWrite
<1>4. lost' \in BOOLEAN /\ booked' \in Int
  BY <1>2, SameAccounts DEF TakeWrite
<1>5. Rest' /\ UNCHANGED <<lock, surplus, io>>
  BY <1>3, <1>4, InsideRest DEF TakeWrite
<1>6. CASE t \in ATM
  <2> DEFINE p == IF Current(t).op = "W" THEN "report" ELSE "add_read"
  <2>1. Goes(t, p, loc[t])
    BY <1>1, <1>6, Threads, ShapeIs DEF TakeWrite, Goes, Goto, Places, Shape
  <2>2. Fits(p, Current(t).op, loc[t].says)
    BY <1>1, <1>6 DEF Fits, Locked
  <2> QED
    BY <1>1, <1>5, <1>6, <2>1, <2>2, InsideBase
<1>7. CASE t = Com
  <2> DEFINE l == [loc[t] EXCEPT !.tot = @ + loc[t].amount, !.idx = @ + 1]
  <2>0. loc[t].tot + loc[t].amount \in Nat /\ loc[t].idx + 1 \in Nat
    BY <1>1, <1>2 DEF Locals
  <2>1. l \in Locals
    BY <1>1, <2>0 DEF Locals
  <2>2. loc' = [loc EXCEPT ![t] = l]
    BY <1>1, <1>7 DEF Locals, TakeWrite
  <2>3. Goes(t, "fee", l)
    BY <1>7, <2>1, <2>2 DEF TakeWrite, Goes, Goto, Places
  <2> HIDE DEF l
  <2> QED
    BY <1>1, <1>5, <1>7, <2>3, Threads, BankThreadBase DEF ComPlaces, Locked
<1> QED
  BY <1>1, <1>6, <1>7

-----------------------------------------------------------------------------
(* The calls on the lock *)

(* What is left alone outside the lock's own steps.                        *)
LEMMA RestStays ==
    ASSUME Base, UNCHANGED <<accounts, vault, booked, stop, lost, unsaid, main>>
    PROVE  Rest'
  BY TypesAre DEF Base, Rest

LEMMA LockBase ==
    ASSUME Base, NEW t \in Thread, Lock(t), file' = file
    PROVE  Base'
<1> DEFINE p == CASE t \in ATM -> "check" [] t = Com -> "fee" [] t = Prt -> "print"
           m == IF Writes(t) THEN "writing" ELSE "reading"
<1>1. at[t] = "lock" /\ mode[t] = "out" /\ Books0 /\ loc[t] \in Locals
  <2>1. at[t] = "lock"
    BY DEF Lock
  <2>2. mode[t] = "out"
    BY <2>1 DEF Base, Holding, ModeAt, Locked
  <2>3. Books0
    BY BooksAre DEF Base
  <2> QED
    BY <2>1, <2>2, <2>3, ShapeIs DEF Base, Shape
<1>2. p \in {"check", "fee", "print"} /\ (t \in ATM => p = "check")
      /\ (t = Com => p = "fee") /\ (t = Prt => p = "print")
  BY Threads DEF Thread
<1>3. Goes(t, p, loc[t]) /\ UNCHANGED io
  <2>1. at' = [at EXCEPT ![t] = p] /\ UNCHANGED <<io, loc>>
    BY DEF Lock, Goto
  <2>2. loc' = [loc EXCEPT ![t] = loc[t]]
    BY <2>1, ShapeIs DEF Shape
  <2>3. p \in Places
    BY <1>2 DEF Places
  <2> QED
    BY <1>1, <2>1, <2>2, <2>3 DEF Goes
<1> HIDE DEF p
<1>4. /\ Moves(t) /\ at'[t] = p /\ loc'[t] = loc[t]
      /\ t \in ATM => Current(t)' = Current(t) /\ pos'[t] = pos[t]
      /\ Writes(t)' = Writes(t)
  BY <1>3, GoesOn DEF Base
<1>5. Called(t, m)
  BY <1>1, EnterAsReader, EnterAsWriter DEF Lock, Base, history
<1>6. ModeAt(t)' = m
  BY <1>2, <1>4 DEF ModeAt, Locked
<1>7. Stands(t)'
  <2>1. ASSUME t \in ATM PROVE Follows(t)'
    <3>1. pos[t] <= Len(file[t]) /\ Accepted(Current(t)) /\ loc[t].says
      BY <1>1, <2>1 DEF Base, Standing, Follows, AtWork
    <3>2. Accepted(Current(t))' /\ pos'[t] <= Len(file'[t])
      BY <1>3, <1>4, <2>1, <3>1 DEF Goes
    <3> QED
      BY <1>2, <1>4, <2>1, <3>1, <3>2 DEF Follows, Locked
  <2> QED
    BY <1>2, <1>4, <2>1, Threads DEF Stands
<1>8. Rest'
  BY RestStays DEF Lock, history
<1> QED
  BY <1>4, <1>5, <1>6, <1>7, <1>8, StepBase

(* An ATM that has left the lock reads on, whether its end is logged or not.*)
LEMMA NextLineStands ==
    ASSUME Base, NEW t \in ATM, at[t] \in AtWork, Goes(t, "idle", Fresh),
           NextLine(t), log' = log \/ Write(t)
    PROVE  Moves(t) /\ Stands(t)' /\ ModeAt(t)' = "out"
<1>1. t \in Thread /\ t # Com /\ t # Prt
  BY Threads
<1>2. pos[t] <= Len(file[t])
  BY DEF Base, Standing, Follows
<1>3. Moves(t) /\ at'[t] = "idle" /\ loc'[t] = Fresh
  BY <1>1, <1>2, GoesToNext DEF Base
<1>4. Follows(t)'
  BY <1>3, FreshIs DEF Follows, AtWork, Locked
<1> QED
  BY <1>1, <1>3, <1>4 DEF Stands, ModeAt, Locked

LEMMA LeaveBase ==
    ASSUME Base, NEW t \in Thread, Leave(t), file' = file
    PROVE  Base'
<1>1. at[t] = "leave" /\ Books0 /\ loc[t] \in Locals
      /\ mode[t] = IF Writes(t) THEN "writing" ELSE "reading"
  BY BooksAre DEF Leave, Base, Holding, ModeAt, Locked, TypeOK
<1>2. Called(t, "out")
  BY <1>1, LeaveAsReader, LeaveAsWriter DEF Leave, Base, history
<1>3. Rest'
  BY RestStays DEF Leave, history
<1>4. ASSUME t \in ATM, Goto(t, "again"), UNCHANGED <<pos, loc>>,
             IF loc[t].says THEN Write(t) ELSE UNCHANGED log,
             Current(t).op = "O"
      PROVE  Moves(t) /\ Stands(t)' /\ ModeAt(t)' = "out"
  <2>1. t # Com /\ t # Prt
    BY <1>4, Threads
  <2>2. /\ loc[t].says /\ pos[t] <= Len(file[t]) /\ Accepted(Current(t))
        /\ pos[t] \in 1 .. Len(file[t]) + 1
    BY <1>1, <1>4, TypesAre DEF Base, Standing, Follows, AtWork, Locked
  <2>3. /\ at'[t] = "again" /\ loc' = loc /\ pos' = pos
        /\ Current(t)' = Current(t)
    BY <1>4, ShapeIs DEF Goto, Current, Shape
  <2>4. log' \in [ATM -> Nat] /\ \A u \in ATM \ {t} : log'[u] = log[u]
    <3>1. CASE Write(t)
      BY <1>4, <3>1, ShapeIs DEF Write, Shape
    <3>2. CASE UNCHANGED log
      BY <3>2, ShapeIs DEF Shape
    <3> QED
      BY <1>4, <3>1, <3>2
  <2>5. at' \in [Thread -> Places] /\ \A u \in Thread \ {t} : at'[u] = at[u]
    BY <1>4, ShapeIs DEF Goto, Places, Shape
  <2>6. Moves(t)
    BY <2>2, <2>3, <2>4, <2>5, ShapeIs DEF Moves, Shape
  <2>7. Accepted(Current(t))' /\ pos'[t] <= Len(file'[t])
    BY <2>2, <2>3
  <2>8. Follows(t)'
    BY <1>4, <2>2, <2>3, <2>7 DEF Follows
  <2> QED
    BY <2>1, <2>3, <2>6, <2>8 DEF Stands, ModeAt, Locked
<1>5. ASSUME t \in ATM, Goto(t, "idle"), NextLine(t), loc' = [loc EXCEPT ![t] = Fresh],
             IF loc[t].says THEN Write(t) ELSE UNCHANGED log
      PROVE  Moves(t) /\ Stands(t)' /\ ModeAt(t)' = "out"
  <2>1. Goes(t, "idle", Fresh)
    BY <1>5, FreshIs DEF Goes, Goto, Places
  <2> QED
    BY <1>1, <1>5, <2>1, NextLineStands DEF AtWork, Locked
<1>6. ASSUME t \in {Com, Prt}, UNCHANGED <<io, loc>>,
             NEW p \in {"credit", "idle"}, Goto(t, p), t = Prt => p = "idle"
      PROVE  Moves(t) /\ Stands(t)' /\ ModeAt(t)' = "out"
  <2>1. Goes(t, p, loc[t])
    BY <1>1, <1>6, ShapeIs DEF Goes, Goto, Places, Shape
  <2>2. Moves(t) /\ at'[t] = p
    BY <1>6, <2>1, GoesOn DEF Base
  <2> QED
    BY <1>6, <2>2, Threads DEF Stands, ModeAt, Locked
<1>7. Moves(t) /\ Stands(t)' /\ ModeAt(t)' = "out"
  <2>1. CASE t \in ATM
    <3>1. \/ Goto(t, "again") /\ UNCHANGED <<pos, loc>> /\ Current(t).op = "O"
          \/ Goto(t, "idle") /\ NextLine(t) /\ loc' = [loc EXCEPT ![t] = Fresh]
      BY <2>1, Threads DEF Leave
    <3>2. IF loc[t].says THEN Write(t) ELSE UNCHANGED log
      BY <2>1, Threads DEF Leave
    <3> QED
      BY <1>4, <1>5, <2>1, <3>1, <3>2
  <2>2. CASE t = Com
    BY <1>6, <2>2, Threads DEF Leave
  <2>3. CASE t = Prt
    BY <1>6, <2>3, Threads DEF Leave
  <2> QED
    BY <2>1, <2>2, <2>3 DEF Thread
<1> QED
  BY <1>2, <1>3, <1>7, StepBase

LEMMA UnlockAgainBase ==
    ASSUME Base, NEW t \in ATM, UnlockAgain(t), file' = file
    PROVE  Base'
<1>1. t \in Thread /\ at[t] = "again" /\ mode[t] = "out" /\ Books0
  BY BooksAre, Threads DEF UnlockAgain, Base, Holding, ModeAt, Locked
<1>2. Called(t, "out")
  BY <1>1, LeaveTwice DEF UnlockAgain, Base
<1>3. Rest'
  BY RestStays DEF UnlockAgain
<1>4. Goes(t, "idle", Fresh)
  BY FreshIs DEF UnlockAgain, Goes, Goto, Places
<1>5. Moves(t) /\ Stands(t)' /\ ModeAt(t)' = "out"
  BY <1>1, <1>4, NextLineStands DEF UnlockAgain, AtWork
<1> QED
  BY <1>1, <1>2, <1>3, <1>5, StepBase

-----------------------------------------------------------------------------
(* The bank's threads and main *)

(* A step of a bank thread that touches its place and variables only.      *)
LEMMA BankThreadGoes ==
    ASSUME Base, NEW t \in {Com, Prt}, NEW p, NEW l \in Locals,
           at' = [at EXCEPT ![t] = p], loc' = [loc EXCEPT ![t] = l], file' = file,
           t = Com => p \in ComPlaces, t = Prt => p \in PrtPlaces,
           p \in Locked <=> at[t] \in Locked,
           UNCHANGED <<lock, surplus, io, accounts, vault, booked, stop, lost, unsaid, main>>
    PROVE  Base'
<1>1. Goes(t, p, l)
  BY Threads DEF Goes, ComPlaces, PrtPlaces, Places
<1>2. Rest'
  BY RestStays
<1> QED
  BY <1>1, <1>2, BankThreadBase

(* Unchanged variables are a case of changed ones.                         *)
LEMMA SameLocals ==
    ASSUME Base, NEW t \in Thread, UNCHANGED loc
    PROVE  loc' = [loc EXCEPT ![t] = loc[t]] /\ loc[t] \in Locals
  BY ShapeIs DEF Shape

LEMMA ComBeginBase ==
    ASSUME Base, ComBegin, file' = file
    PROVE  Base'
<1>1. PICK rate \in Rates :
         loc' = [loc EXCEPT ![Com] = [Fresh EXCEPT !.rate = rate, !.idx = 1]]
  BY DEF ComBegin
<1> DEFINE l == [Fresh EXCEPT !.rate = rate, !.idx = 1]
<1>2. l \in Locals
  BY DEF Fresh, Locals
<1>3. loc' = [loc EXCEPT ![Com] = l]
  BY <1>1
<1> HIDE DEF l
<1> QED
  BY <1>2, <1>3, BankThreadGoes, Threads DEF ComBegin, Goto, ComPlaces, Locked, shared, history

(* The commission of one account.                                          *)
LEMMA FeeIsNat ==
    ASSUME NEW rate \in Rates \cup {0}, NEW b \in Nat
    PROVE  (rate * b) \div 100 \in Nat
<1>1. rate \in {0, 2, 3, 4}
  BY BankAssumption
<1>2. rate * b \in Nat
  <2>1. 0 * b \in Nat /\ 2 * b \in Nat /\ 3 * b \in Nat /\ 4 * b \in Nat
    OBVIOUS
  <2> QED
    BY <1>1, <2>1
<1>3. \A n \in Nat : n \div 100 \in Nat
  OBVIOUS
<1> QED
  BY <1>2, <1>3

LEMMA FeeBase ==
    ASSUME Base, Fee, file' = file
    PROVE  Base'
<1>1. CASE OnList(loc[Com].idx)
  <2> DEFINE a == (loc[Com].rate * GetBalance(loc[Com].idx)) \div 100
             l == [loc[Com] EXCEPT !.amount = a]
  <2>1. loc[Com] \in Locals
    BY Threads, ShapeIs DEF Shape
  <2>2. a \in Nat
    <3>1. loc[Com].rate \in Rates \cup {0}
      BY <2>1 DEF Locals
    <3>2. GetBalance(loc[Com].idx) \in Nat
      BY <1>1, BalanceRead, SameAccounts
    <3> QED
      BY <3>1, <3>2, FeeIsNat
  <2>3. loc' = [loc EXCEPT ![Com] = l]
    BY <1>1, <2>1 DEF Fee, Locals
  <2> HIDE DEF a
  <2>4. l \in Locals
    BY <2>1, <2>2 DEF Locals
  <2> HIDE DEF l
  <2> QED
    BY <1>1, <2>3, <2>4, BankThreadGoes, Threads
    DEF Fee, Goto, ComPlaces, Locked, shared, history
<1>2. CASE ~OnList(loc[Com].idx)
  <2>1. loc' = [loc EXCEPT ![Com] = loc[Com]] /\ loc[Com] \in Locals
    BY <1>2, SameLocals, Threads DEF Fee
  <2> QED
    BY <1>2, <2>1, BankThreadGoes, Threads DEF Fee, Goto, ComPlaces, Locked, shared, history
<1> QED
  BY <1>1, <1>2

LEMMA CreditBase ==
    ASSUME Base, Credit, file' = file
    PROVE  Base'
<1>1. Com \in Thread /\ Com # Prt /\ loc[Com] \in Locals
  BY Threads, ShapeIs DEF Shape
<1>2. loc[Com].tot \in Nat
  BY <1>1 DEF Locals
<1>3. Rest'
  BY <1>2, TypesAre DEF Base, Rest, Credit, history
<1>4. Goes(Com, "idle", Fresh)
  BY FreshIs DEF Credit, Goes, Goto, Places
<1> QED
  BY <1>1, <1>3, <1>4, BankThreadBase DEF Credit, history, ComPlaces, Locked

LEMMA ComBase ==
    ASSUME Base, ComStep, file' = file
    PROVE  Base'
<1>1. CASE ComStop
  <2>1. loc' = [loc EXCEPT ![Com] = loc[Com]] /\ loc[Com] \in Locals
    BY <1>1, SameLocals, Threads DEF ComStop
  <2> QED
    BY <1>1, <2>1, BankThreadGoes, Threads DEF ComStop, Goto, ComPlaces, Locked, shared, history
<1>2. CASE ComBegin
  BY <1>2, ComBeginBase
<1>3. CASE Fee
  BY <1>3, FeeBase
<1>4. CASE Credit
  BY <1>4, CreditBase
<1> QED
  BY <1>1, <1>2, <1>3, <1>4 DEF ComStep

LEMMA PrtBase ==
    ASSUME Base, PrtStep \/ PrintHangs, file' = file
    PROVE  Base'
<1>1. /\ loc' = [loc EXCEPT ![Prt] = loc[Prt]] /\ loc[Prt] \in Locals
      /\ UNCHANGED <<lock, surplus, io, accounts, vault, booked, stop, lost, unsaid, main>>
  BY SameLocals, Threads
  DEF PrtStep, PrtStop, PrtBegin, PrintBalances, PrintHangs, shared, history
<1>2. PICK p \in PrtPlaces : at' = [at EXCEPT ![Prt] = p] /\ (p \in Locked <=> at[Prt] \in Locked)
  BY DEF PrtStep, PrtStop, PrtBegin, PrintBalances, PrintHangs, Goto, PrtPlaces, Locked
<1> QED
  BY <1>1, <1>2, BankThreadGoes, Threads

LEMMA CreateBase ==
    ASSUME Base, CreateThread, file' = file
    PROVE  Base'
<1>1. PICK t \in Thread : /\ at[t] = "new"
                          /\ Goto(t, IF t \in ATM THEN "start" ELSE "idle")
                          /\ main' = IF t = Prt THEN "joining" ELSE main
  BY DEF CreateThread
<1>2. Rest'
  BY <1>1, TypesAre DEF Base, Rest, CreateThread, history
<1>3. loc' = [loc EXCEPT ![t] = loc[t]] /\ loc[t] \in Locals
  BY SameLocals DEF CreateThread
<1>4. CASE t \in ATM
  <2>1. Goes(t, "start", loc[t])
    BY <1>1, <1>3, <1>4 DEF Goes, Goto, Places
  <2>2. Moves(t) /\ at'[t] = "start" /\ loc'[t] = loc[t]
    BY <2>1, GoesOn DEF Base, CreateThread
  <2>3. loc[t].says
    BY <1>1, <1>4 DEF Base, Standing, Follows
  <2>4. Stands(t)' /\ ModeAt(t)' = ModeAt(t)
    BY <1>1, <1>4, <2>2, <2>3, Threads DEF Stands, Follows, AtWork, Locked, ModeAt
  <2> QED
    BY <1>2, <2>2, <2>4, StayBase DEF CreateThread, history
<1>5. CASE t \notin ATM
  <2>1. t \in {Com, Prt}
    BY <1>5 DEF Thread
  <2>2. Goes(t, "idle", loc[t])
    BY <1>1, <1>3, <1>5 DEF Goes, Goto, Places
  <2> QED
    BY <1>1, <1>2, <2>1, <2>2, BankThreadBase
    DEF CreateThread, history, ComPlaces, PrtPlaces, Locked
<1> QED
  BY <1>4, <1>5

(* A step that moves no thread.                                            *)
LEMMA NobodyBase ==
    ASSUME Base, Rest', UNCHANGED <<lock, surplus, io, at, loc, file>>
    PROVE  Base'
<1>1. Moves(Prt)
  BY Threads, ShapeIs DEF Moves, io, Shape
<1>2. Current(Prt)' = Current(Prt) /\ Prt \in Thread /\ Prt \notin ATM
  BY Threads DEF Current, io
<1>3. Stands(Prt)'
  BY <1>2, StandingIs, Threads DEF Base, Stands
<1>4. ModeAt(Prt)' = ModeAt(Prt)
  BY <1>2 DEF ModeAt, Writes
<1> QED
  BY <1>1, <1>2, <1>3, <1>4, StayBase

LEMMA MainBase ==
    ASSUME Base, MainStep \/ CreateFails, file' = file
    PROVE  Base'
<1>1. CASE CreateThread
  BY <1>1, CreateBase
<1>2. CASE JoinATMs \/ JoinBank \/ CreateFails
  <2>1. Rest'
    BY <1>2, TypesAre DEF Base, Rest, JoinATMs, JoinBank, CreateFails, history
  <2> QED
    BY <1>2, <2>1, NobodyBase DEF JoinATMs, JoinBank, CreateFails, history
<1> QED
  BY <1>1, <1>2 DEF MainStep

LEMMA InitBase == Init => Base
<1> SUFFICES ASSUME Init PROVE Base
  OBVIOUS
<1>1. TypeOK
  <2>1. Rest
    <3>1. accounts = <<>>
      BY DEF Init
    <3>2. accounts \in Seq(Account)
      BY <3>1, EmptySeq
    <3>3. vault = 0 /\ booked = 0 /\ stop = FALSE /\ lost = FALSE /\ main = "starting"
      BY DEF Init
    <3>4. vault \in Nat /\ booked \in Int
      BY <3>3
    <3>5. stop \in BOOLEAN /\ lost \in BOOLEAN
      BY <3>3
    <3>6. unsaid \in [ATM -> SUBSET Nat]
      BY DEF Init
    <3> QED
      BY <3>2, <3>3, <3>4, <3>5, <3>6 DEF Rest
  <2>2. mode \in [Thread -> Modes] /\ wrt_lock \in Nat /\ rcount \in Nat /\ surplus \in Nat
    BY DEF Init, DB!Init, DB!MinToReader, Modes
  <2>3. at \in [Thread -> Places] /\ loc \in [Thread -> Locals]
    BY FreshIs DEF Init, Places
  <2>4. /\ pos \in [ATM -> Nat] /\ log \in [ATM -> Nat] /\ file \in Scripts
        /\ \A t \in ATM : pos[t] \in 1 .. Len(file[t]) + 1
    <3>1. file \in [ATM -> Seq(Line)] /\ file \in Scripts
      BY BankAssumption DEF Init
    <3>2. \A t \in ATM : Len(file[t]) \in Nat
      BY <3>1, LenProperties
    <3> QED
      BY <3>1, <3>2 DEF Init
  <2> QED
    BY <2>1, <2>2, <2>3, <2>4, TypesAre
<1>2. Books0
  <2>1. In("reading") = {} /\ In("writing") = {}
    BY DEF In, Init, DB!Init
  <2>2. Cardinality(In("reading")) = 0 /\ Cardinality(In("writing")) = 0
    BY <2>1, FS_EmptySet
  <2> QED
    BY <2>2 DEF Books0, Tally, Init, DB!Init, DB!MinToReader
<1>3. Holding
  BY DEF Init, DB!Init, Holding, ModeAt, Locked
<1>4. Standing
  BY Threads, FreshIs DEF Init, Standing, Follows, AtWork, Locked
<1> QED
  BY <1>1, <1>2, <1>3, <1>4, BooksAre DEF Base

(* All steps of an ATM but its calls on the lock keep Base.                *)
LEMMA ATMBase ==
    ASSUME Base, NEW t \in ATM, ATMStep(t), file' = file
    PROVE  Base'
  BY StartBase, SkipBase, AcceptBase, EndBase, UnlockAgainBase, CheckOpenBase,
     InsertBase, CheckAccountBase, CheckTransferBase, AddReadBase, AddWriteBase,
     ReportBase, EraseBase
  DEF ATMStep

(* Base is inductive: each disjunct of Next keeps it.                      *)
LEMMA NextBase == Base /\ [Next]_vars => Base'
<1> SUFFICES ASSUME Base, [Next]_vars PROVE Base'
  OBVIOUS
<1>1. CASE UNCHANGED vars
  <2>1. Rest'
    BY <1>1, RestStays DEF vars
  <2> QED
    BY <1>1, <2>1, NobodyBase DEF vars, lock, io
<1>2. ASSUME NEW t \in Thread, ThreadStep(t), file' = file
      PROVE  Base'
  BY <1>2, LockBase, LeaveBase, TakeTestBase, TakeReadBase, TakeWriteBase, ATMBase,
     ComBase, PrtBase
  DEF ThreadStep
<1>3. ASSUME MainStep \/ CreateFails, file' = file
      PROVE  Base'
  BY <1>3, MainBase
<1> QED
  BY <1>1, <1>2, <1>3, PrtBase DEF Next, Running

(* The types, the books of the lock and the places go together.            *)
THEOREM Always == Spec => []Base
  BY InitBase, NextBase, PTL DEF Spec

(* Every variable of the program keeps its type: balances fit 64 bits,     *)
(* passwords four digits, and no thread reads past the end of its file.    *)
THEOREM Types == Spec => []TypeOK
<1>1. Base => TypeOK
  BY DEF Base
<1> QED
  BY <1>1, Always, PTL

(* The two semaphores of the list's lock count the readers and writers     *)
(* inside, give or take the calls too many of failing OpenAccounts, and    *)
(* without such a call whoever writes is alone.                            *)
THEOREM LockIsExact == Spec => []LockBooks
<1>1. Base => LockBooks
  BY DEF Base
<1> QED
  BY <1>1, Always, PTL

-----------------------------------------------------------------------------
(* The log *)

ReadLines(t) == {i \in 1 .. pos[t] - 1 : file[t][i].words >= 3}

MustLog(t) == ReadLines(t) \ unsaid[t]

Logged(t) == log[t] - (IF at[t] = "again" THEN 1 ELSE 0)

LogFor(t) ==
    /\ Logged(t) = Cardinality(MustLog(t))
    /\ \A i \in unsaid[t] : file[t][i].op = "T" /\ Accepted(file[t][i])

(* LogAccounted, ATM by ATM.                                               *)
LEMMA LogIs == LogAccounted <=> \A t \in ATM : LogFor(t)
  BY DEF LogAccounted, LogFor, Logged, MustLog, ReadLines

(* The line an ATM works on is in `unsaid' from the moment the ATM gives   *)
(* it up in silence, and no line to come is.                               *)
GivesUp(t) == at[t] = "leave" /\ ~loc[t].says

Told(t) ==
    /\ unsaid[t] \subseteq 1 .. pos[t]
    /\ pos[t] \in unsaid[t] <=> GivesUp(t)

LogInv == \A t \in ATM : LogFor(t) /\ Told(t)

(* The lines that must be in the log can be counted.                       *)
LEMMA LinesCount ==
    ASSUME TypeOK, NEW t \in ATM
    PROVE  IsFiniteSet(MustLog(t)) /\ Cardinality(MustLog(t)) \in Nat
<1>1. IsFiniteSet(1 .. pos[t] - 1)
  BY FS_Interval, ShapeIs DEF Shape
<1>2. MustLog(t) \subseteq 1 .. pos[t] - 1
  BY DEF MustLog, ReadLines
<1> QED
  BY <1>1, <1>2, FS_Subset, FS_CardinalityType

(* How those lines grow when an ATM goes on to the next line.              *)
LEMMA OneLineMore ==
    ASSUME TypeOK, NEW t \in ATM, pos'[t] = pos[t] + 1, file' = file, unsaid' = unsaid
    PROVE  LET said == Current(t).words >= 3 /\ pos[t] \notin unsaid[t] IN
           Cardinality(MustLog(t))' = Cardinality(MustLog(t)) + (IF said THEN 1 ELSE 0)
<1>1. pos[t] \in Nat /\ pos[t] >= 1
  BY TypesAre
<1>2. 1 .. pos'[t] - 1 = (1 .. pos[t] - 1) \cup {pos[t]} /\ pos[t] \notin 1 .. pos[t] - 1
  BY <1>1
<1>3. ReadLines(t)' = ReadLines(t) \cup (IF Current(t).words >= 3 THEN {pos[t]} ELSE {})
  BY <1>2 DEF ReadLines, Current
<1>4. CASE Current(t).words >= 3 /\ pos[t] \notin unsaid[t]
  <2>1. MustLog(t)' = MustLog(t) \cup {pos[t]} /\ pos[t] \notin MustLog(t)
    BY <1>2, <1>3, <1>4 DEF MustLog, ReadLines
  <2>2. Cardinality(MustLog(t) \cup {pos[t]}) = Cardinality(MustLog(t)) + 1
    BY <2>1, LinesCount, FS_AddElement
  <2> QED
    BY <1>4, <2>1, <2>2
<1>5. CASE ~(Current(t).words >= 3 /\ pos[t] \notin unsaid[t])
  <2>1. MustLog(t)' = MustLog(t)
    BY <1>3, <1>5 DEF MustLog
  <2>2. Cardinality(MustLog(t)) \in Nat
    BY LinesCount
  <2> QED
    BY <1>5, <2>1, <2>2
<1> QED
  BY <1>4, <1>5

(* The step of one ATM leaves what the others have logged.                 *)
LEMMA OthersLog ==
    ASSUME LogInv, NEW t \in ATM, Moves(t), \A u \in ATM \ {t} : unsaid'[u] = unsaid[u],
           LogFor(t)', Told(t)'
    PROVE  LogInv'
<1>1. ASSUME NEW u \in ATM, u # t PROVE LogFor(u)' /\ Told(u)'
  <2>1. /\ at'[u] = at[u] /\ loc'[u] = loc[u] /\ pos'[u] = pos[u]
        /\ log'[u] = log[u] /\ file' = file /\ unsaid'[u] = unsaid[u]
    BY <1>1, Threads DEF Moves
  <2>2. LogFor(u)'
    BY <2>1 DEF LogInv, LogFor, Logged, MustLog, ReadLines
  <2>3. Told(u)'
    BY <2>1 DEF LogInv, Told, GivesUp
  <2> QED
    BY <2>2, <2>3
<1> QED
  BY <1>1 DEF LogInv

(* The steps that leave both files alone, and give up no line.             *)
LEMMA LogStays ==
    ASSUME LogInv, UNCHANGED <<io, file, unsaid>>,
           \A u \in ATM : /\ at'[u] = "again" <=> at[u] = "again"
                          /\ GivesUp(u)' <=> GivesUp(u)
    PROVE  LogInv'
<1>1. ASSUME NEW u \in ATM PROVE LogFor(u)' /\ Told(u)'
  <2>1. LogFor(u)'
    BY DEF LogInv, LogFor, Logged, MustLog, ReadLines, io
  <2>2. Told(u)'
    BY DEF LogInv, Told, io
  <2> QED
    BY <2>1, <2>2
<1> QED
  BY <1>1 DEF LogInv

(* An ATM goes on to the next line: a short line leaves no trace, and one  *)
(* given up in silence none either; any other line is logged now, or was   *)
(* logged before the second unlocking.                                     *)
LEMMA LogMoves ==
    ASSUME TypeOK, LogInv, NEW t \in ATM, Moves(t), pos'[t] = pos[t] + 1,
           at'[t] = "idle", unsaid' = unsaid,
           LET said == Current(t).words >= 3 /\ pos[t] \notin unsaid[t] IN
             \/ ~said /\ at[t] # "again" /\ log'[t] = log[t]
             \/ said /\ at[t] # "again" /\ log'[t] = log[t] + 1
             \/ said /\ at[t] = "again" /\ log'[t] = log[t]
    PROVE  LogInv'
<1> DEFINE said == Current(t).words >= 3 /\ pos[t] \notin unsaid[t]
<1>1. log[t] \in Nat /\ pos[t] \in Nat /\ file' = file
  BY ShapeIs DEF Shape, Moves
<1>2. Cardinality(MustLog(t))' = Cardinality(MustLog(t)) + (IF said THEN 1 ELSE 0)
  BY <1>1, OneLineMore
<1>3. Logged(t)' = log'[t] /\ Logged(t) = log[t] - (IF at[t] = "again" THEN 1 ELSE 0)
  BY <1>1 DEF Logged, Moves
<1>4. Logged(t)' = Logged(t) + (IF said THEN 1 ELSE 0)
  BY <1>1, <1>3
<1>5. LogFor(t)'
  BY <1>1, <1>2, <1>4 DEF LogInv, LogFor
<1>6. Told(t)'
  <2>1. unsaid[t] \subseteq 1 .. pos[t]
    BY DEF LogInv, Told
  <2>2. pos'[t] \notin unsaid'[t] /\ unsaid'[t] \subseteq 1 .. pos'[t]
    BY <1>1, <2>1
  <2> QED
    BY <2>2 DEF Told, GivesUp
<1> QED
  BY <1>5, <1>6, OthersLog

(* Leaving the lock writes the one line, unless the transfer went nowhere. *)
LEMMA LeaveLog ==
    ASSUME Base, LogInv, NEW t \in ATM, Leave(t), file' = file
    PROVE  LogInv'
<1>1. /\ at[t] = "leave" /\ Follows(t) /\ pos[t] <= Len(file[t]) /\ Accepted(Current(t))
      /\ Current(t).words >= 3 /\ Current(t).op \in Ops
      /\ t \in Thread /\ t # Com /\ t # Prt
  BY Threads, LineAt DEF Leave, Base, Standing, Follows, AtWork, Locked
<1>2. log[t] \in Nat /\ (Write(t) => log'[t] = log[t] + 1) /\ unsaid' = unsaid
  BY ShapeIs DEF Leave, history, Write, Shape
<1>3. CASE Goto(t, "again") /\ UNCHANGED <<pos, loc>> /\ Current(t).op = "O"
  <2>1. loc[t].says
    BY <1>1, <1>3 DEF Follows
  <2>2. Write(t)
    BY <1>1, <2>1 DEF Leave
  <2>3. /\ at'[t] = "again" /\ \A u \in Thread \ {t} : at'[u] = at[u] /\ loc'[u] = loc[u]
        /\ pos' = pos /\ log'[t] = log[t] + 1 /\ \A u \in ATM \ {t} : log'[u] = log[u]
    BY <1>1, <1>2, <1>3, <2>2, ShapeIs DEF Goto, Write, Shape
  <2>4. Logged(t)' = Logged(t)
    BY <1>1, <1>2, <2>3 DEF Logged
  <2>5. LogFor(t)'
    BY <1>2, <2>3, <2>4 DEF LogInv, LogFor, MustLog, ReadLines
  <2>6. Told(t)'
    BY <1>2, <2>1, <2>3 DEF LogInv, Told, GivesUp
  <2>7. ASSUME NEW u \in ATM, u # t PROVE LogFor(u)' /\ Told(u)'
    <3>1. /\ at'[u] = at[u] /\ loc'[u] = loc[u] /\ pos'[u] = pos[u]
          /\ log'[u] = log[u] /\ unsaid'[u] = unsaid[u]
      BY <1>2, <2>3, <2>7, Threads
    <3>2. LogFor(u)'
      BY <3>1 DEF LogInv, LogFor, Logged, MustLog, ReadLines
    <3> QED
      BY <3>1, <3>2 DEF LogInv, Told, GivesUp
  <2> QED
    BY <2>5, <2>6, <2>7 DEF LogInv
<1>4. CASE Goto(t, "idle") /\ NextLine(t) /\ loc' = [loc EXCEPT ![t] = Fresh]
  <2>1. Goes(t, "idle", Fresh)
    BY <1>4, FreshIs DEF Goes, Goto, Places
  <2>2. IF loc[t].says THEN Write(t) ELSE log' = log
    BY <1>1 DEF Leave
  <2>3. Moves(t) /\ at'[t] = "idle" /\ pos'[t] = pos[t] + 1
    BY <1>1, <1>4, <2>1, <2>2, GoesToNext DEF Base
  <2>4. pos[t] \in unsaid[t] <=> ~loc[t].says
    BY <1>1 DEF LogInv, Told, GivesUp
  <2>5. IF loc[t].says THEN log'[t] = log[t] + 1 ELSE log'[t] = log[t]
    BY <1>2, <2>2
  <2> QED
    BY <1>1, <1>2, <2>3, <2>4, <2>5, LogMoves DEF Base
<1> QED
  BY <1>1, <1>3, <1>4 DEF Leave

(* A line that is dropped or refused.                                      *)
LEMMA ReadingLog ==
    ASSUME Base, LogInv, NEW t \in ATM, ShortLine(t) \/ RefuseLine(t), file' = file
    PROVE  LogInv'
<1>1. /\ at[t] = "idle" /\ pos[t] <= Len(file[t]) /\ NextLine(t) /\ t \in Thread
      /\ unsaid' = unsaid
  BY Threads DEF ShortLine, RefuseLine, MoreLines, shared, history
<1>2. \/ log' = log /\ ~(Current(t).words >= 3)
      \/ Write(t) /\ Current(t).words >= 3
  <2>1. Current(t).words \in 0 .. 6
    BY <1>1, LineAt DEF Line, Base
  <2> QED
    BY <2>1 DEF ShortLine, RefuseLine
<1>3. Goes(t, at[t], loc[t])
  BY <1>1, ShapeIs DEF ShortLine, RefuseLine, Goes, Shape
<1>4. Moves(t) /\ at'[t] = "idle" /\ pos'[t] = pos[t] + 1
  BY <1>1, <1>2, <1>3, GoesToNext DEF Base
<1>5. log[t] \in Nat /\ (Write(t) => log'[t] = log[t] + 1)
  BY ShapeIs DEF Write, Shape
<1>6. pos[t] \notin unsaid[t]
  BY <1>1 DEF LogInv, Told, GivesUp
<1> QED
  BY <1>1, <1>2, <1>4, <1>5, <1>6, LogMoves DEF Base

(* The second unlocking does not write a second line.                      *)
LEMMA UnlockAgainLog ==
    ASSUME Base, LogInv, NEW t \in ATM, UnlockAgain(t), file' = file
    PROVE  LogInv'
<1>1. /\ at[t] = "again" /\ pos[t] <= Len(file[t]) /\ NextLine(t) /\ log' = log
      /\ Current(t).words >= 3 /\ t \in Thread /\ unsaid' = unsaid
  BY Threads, LineAt DEF UnlockAgain, Base, Standing, Follows, AtWork
<1>2. Goes(t, "idle", Fresh)
  BY FreshIs DEF UnlockAgain, Goes, Goto, Places
<1>3. Moves(t) /\ at'[t] = "idle" /\ pos'[t] = pos[t] + 1
  BY <1>1, <1>2, GoesToNext DEF Base
<1>4. pos[t] \notin unsaid[t]
  BY <1>1 DEF LogInv, Told, GivesUp
<1> QED
  BY <1>1, <1>3, <1>4, LogMoves DEF Base

(* Every other step of an ATM leaves the files alone, and but for a        *)
(* transfer that finds nobody to pay to it gives up no line.               *)
SameLine(t) ==
    /\ UNCHANGED <<io, unsaid>>
    /\ \E p \in Places \ {"again"} : Goto(t, p) /\ at[t] # "again"
    /\ \A u \in ATM \ {t} : loc'[u] = loc[u]
    /\ t \in ATM => at[t] # "leave" /\ loc'[t].says

(* It ends the transfer in silence.                                        *)
NobodyToPay(t) ==
    /\ at[t] = "check" /\ Current(t).op = "T"
    /\ Fail(t, FALSE)
    /\ unsaid' = [unsaid EXCEPT ![t] = @ \cup {pos[t]}]
    /\ UNCHANGED io

(* The steps of an ATM that neither finish a line nor write one.           *)
LEMMA SameLineATM ==
    ASSUME Base, NEW t \in ATM,
           ATMStep(t) \/ TakeTest(t) \/ TakeRead(t) \/ TakeWrite(t)
    PROVE  \/ SameLine(t) \/ NobodyToPay(t)
           \/ ShortLine(t) \/ RefuseLine(t) \/ UnlockAgain(t)
<1>1. t \in Thread /\ t # Com /\ loc \in [Thread -> Locals] /\ Follows(t)
  BY Threads, ShapeIs DEF Shape, Base, Standing
<1>2. at[t] # "leave" => loc[t].says
  BY <1>1 DEF Follows
<1>4. ASSUME NEW p \in Places \ {"again"}, Goto(t, p), at[t] \notin {"leave", "again"},
             UNCHANGED <<io, unsaid>>, loc' = loc
      PROVE  SameLine(t)
  BY <1>1, <1>2, <1>4 DEF SameLine
<1>5. ASSUME Fail(t, TRUE), at[t] \notin {"leave", "again"}, UNCHANGED <<io, unsaid>>
      PROVE  SameLine(t)
  <2>1. Goto(t, "leave") /\ "leave" \in Places \ {"again"}
    BY <1>5 DEF Fail, Places
  <2>2. loc'[t].says /\ \A u \in ATM \ {t} : loc'[u] = loc[u]
    BY <1>1, <1>5, Threads DEF Fail, Locals
  <2> QED
    BY <1>5, <2>1, <2>2 DEF SameLine
<1>6. CASE Start(t) \/ EndOfFile(t)
  <2>1. \E p \in {"idle", "done"} : Goto(t, p)
    BY <1>6 DEF Start, EndOfFile
  <2> QED
    BY <1>4, <1>6, <2>1 DEF Start, EndOfFile, Places, shared, history
<1>7. CASE AcceptLine(t)
  <2>1. loc'[t].says /\ \A u \in ATM \ {t} : loc'[u] = loc[u]
    BY <1>1, <1>7, Threads DEF AcceptLine, Fresh
  <2> QED
    BY <1>7, <2>1 DEF AcceptLine, SameLine, Places, shared, history
<1>8. CASE CheckOpen(t)
  <2>1. Fail(t, TRUE) \/ (Goto(t, "insert") /\ UNCHANGED loc)
    BY <1>8 DEF CheckOpen
  <2> QED
    BY <1>4, <1>5, <1>8, <2>1 DEF CheckOpen, inside, Places
<1>9. CASE CheckAccount(t)
  <2>1. \/ Fail(t, TRUE)
        \/ /\ \E p \in {"add_read", "take_test", "report"} : Goto(t, p)
           /\ \E i : loc' = [loc EXCEPT ![t].idx = i, ![t].dst = i]
    BY <1>9 DEF CheckAccount
  <2>2. CASE /\ \E p \in {"add_read", "take_test", "report"} : Goto(t, p)
             /\ \E i : loc' = [loc EXCEPT ![t].idx = i, ![t].dst = i]
    <3>1. loc'[t].says /\ \A u \in ATM \ {t} : loc'[u] = loc[u]
      BY <1>1, <1>2, <1>9, <2>2, Threads DEF CheckAccount, Locals
    <3> QED
      BY <1>9, <2>2, <3>1 DEF CheckAccount, inside, SameLine, Places
  <2> QED
    BY <1>5, <1>9, <2>1, <2>2 DEF CheckAccount, inside
<1>10. CASE CheckTransfer(t)
  <2>1. \/ Fail(t, TRUE) /\ unsaid' = unsaid
        \/ Fail(t, FALSE) /\ unsaid' = [unsaid EXCEPT ![t] = @ \cup {pos[t]}]
        \/ /\ Goto(t, "take_test") /\ unsaid' = unsaid
           /\ \E i, j : loc' = [loc EXCEPT ![t].idx = i, ![t].dst = j]
    BY <1>10 DEF CheckTransfer
  <2>2. CASE /\ Goto(t, "take_test") /\ unsaid' = unsaid
             /\ \E i, j : loc' = [loc EXCEPT ![t].idx = i, ![t].dst = j]
    <3>1. loc'[t].says /\ \A u \in ATM \ {t} : loc'[u] = loc[u]
      BY <1>1, <1>2, <1>10, <2>2, Threads DEF CheckTransfer, Locals
    <3> QED
      BY <1>10, <2>2, <3>1 DEF CheckTransfer, inside, SameLine, Places
  <2>3. UNCHANGED io /\ at[t] = "check" /\ Current(t).op = "T"
    BY <1>10 DEF CheckTransfer, inside
  <2> QED
    BY <1>5, <2>1, <2>2, <2>3 DEF NobodyToPay
<1>11. CASE AddRead(t) \/ TakeRead(t)
  <2>1. loc'[t].says /\ \A u \in ATM \ {t} : loc'[u] = loc[u]
    <3>1. \E b : loc' = [loc EXCEPT ![t].bal = b] /\ at[t] # "leave"
      BY <1>11 DEF AddRead, TakeRead
    <3> QED
      BY <1>1, <1>2, <3>1, Threads DEF Locals
  <2> QED
    BY <1>11, <2>1 DEF AddRead, TakeRead, inside, SameLine, Places
<1>12. CASE Insert(t) \/ AddWrite(t) \/ Report(t) \/ Erase(t)
  <2>1. \E p \in {"leave", "report", "erase"} : Goto(t, p)
    BY <1>12 DEF Insert, AddWrite, Report, Erase
  <2>2. UNCHANGED <<io, unsaid, loc>> /\ at[t] \notin {"leave", "again"}
    BY <1>12 DEF Insert, AddWrite, Report, Erase, inside
  <2> QED
    BY <1>4, <2>1, <2>2 DEF Places
<1>13. CASE TakeTest(t)
  <2>1. Fail(t, TRUE) \/ (Goto(t, "take_read") /\ loc' = loc)
    BY <1>13 DEF TakeTest
  <2> QED
    BY <1>4, <1>5, <1>13, <2>1 DEF TakeTest, inside, Places
<1>14. CASE TakeWrite(t)
  <2>1. \E p \in {"report", "add_read"} : Goto(t, p) /\ loc' = loc
    BY <1>1, <1>14 DEF TakeWrite
  <2> QED
    BY <1>4, <1>14, <2>1 DEF TakeWrite, inside, Places
<1> QED
  BY <1>6, <1>7, <1>8, <1>9, <1>10, <1>11, <1>12, <1>13, <1>14 DEF ATMStep

LEMMA SameLineLog ==
    ASSUME Base, LogInv, NEW t \in Thread, SameLine(t), file' = file
    PROVE  LogInv'
<1>1. \A u \in ATM \ {t} : at'[u] = at[u] /\ loc'[u] = loc[u]
  BY Threads, ShapeIs DEF SameLine, Goto, Shape
<1>2. t \in ATM => at[t] # "again" /\ at'[t] # "again" /\ ~GivesUp(t) /\ ~GivesUp(t)'
  BY ShapeIs DEF SameLine, Goto, Shape, GivesUp
<1>3. \A u \in ATM : /\ at'[u] = "again" <=> at[u] = "again"
                     /\ GivesUp(u)' <=> GivesUp(u)
  BY <1>1, <1>2 DEF GivesUp
<1> QED
  BY <1>3, LogStays DEF SameLine

(* A transfer that finds nobody to pay to is given up in silence: its line *)
(* is not to be logged.                                                    *)
LEMMA NobodyLog ==
    ASSUME Base, LogInv, NEW t \in ATM, NobodyToPay(t), file' = file
    PROVE  LogInv'
<1>1. /\ t \in Thread /\ loc \in [Thread -> Locals] /\ at \in [Thread -> Places]
      /\ pos \in [ATM -> Nat] /\ log \in [ATM -> Nat] /\ pos[t] >= 1
      /\ unsaid \in [ATM -> SUBSET Nat]
  BY Threads, TypesAre DEF Base, Rest
<1>2. at'[t] = "leave" /\ ~loc'[t].says /\ at[t] = "check"
  BY <1>1 DEF NobodyToPay, Fail, Goto, Locals
<1>3. /\ \A u \in ATM \ {t} : /\ at'[u] = at[u] /\ loc'[u] = loc[u]
                              /\ unsaid'[u] = unsaid[u]
      /\ unsaid'[t] = unsaid[t] \cup {pos[t]} /\ pos' = pos /\ log' = log
  BY <1>1, Threads DEF NobodyToPay, Fail, Goto, io
<1>4. Accepted(Current(t)) /\ Current(t).op = "T"
  BY <1>2 DEF Base, Standing, Follows, AtWork, Locked, NobodyToPay
<1>5. MustLog(t)' = MustLog(t)
  <2>1. ReadLines(t)' = ReadLines(t) /\ pos[t] \notin ReadLines(t)
    BY <1>1, <1>3 DEF ReadLines
  <2> QED
    BY <1>3, <2>1 DEF MustLog
<1>6. LogFor(t)'
  <2>1. Logged(t)' = Logged(t)
    BY <1>2, <1>3 DEF Logged
  <2>2. \A i \in unsaid'[t] : file[t][i].op = "T" /\ Accepted(file[t][i])
    BY <1>3, <1>4 DEF LogInv, LogFor, Current
  <2> QED
    BY <1>5, <2>1, <2>2 DEF LogInv, LogFor
<1>7. Told(t)'
  BY <1>1, <1>2, <1>3 DEF LogInv, Told, GivesUp
<1>8. ASSUME NEW u \in ATM, u # t PROVE LogFor(u)' /\ Told(u)'
  <2>1. LogFor(u)'
    BY <1>3, <1>8 DEF LogInv, LogFor, Logged, MustLog, ReadLines
  <2> QED
    BY <1>3, <1>8, <2>1 DEF LogInv, Told, GivesUp
<1> QED
  BY <1>6, <1>7, <1>8 DEF LogInv

(* The steps of the bank's two threads.                                    *)
LEMMA BankThreadLog ==
    ASSUME Base, LogInv, NEW t \in Thread, t \notin ATM, UNCHANGED <<io, unsaid, file>>,
           \E p \in Places : Goto(t, p), \A u \in ATM : loc'[u] = loc[u]
    PROVE  LogInv'
<1>1. \A u \in ATM : at'[u] = at[u]
  BY Threads, ShapeIs DEF Goto, Shape
<1> QED
  BY <1>1, LogStays DEF GivesUp

LEMMA ComPrtLog ==
    ASSUME Base, LogInv, NEW t \in Thread, t \notin ATM, ThreadStep(t), file' = file
    PROVE  LogInv'
<1>1. /\ t = Com \/ t = Prt
      /\ loc \in [Thread -> Locals] /\ \A u \in ATM : u \in Thread /\ u # t
  BY Threads, ShapeIs DEF Thread, Shape
<1>2. CASE Lock(t) \/ Leave(t)
  BY <1>1, <1>2, BankThreadLog DEF Lock, Leave, history, io, Places
<1>3. CASE TakeTest(t) \/ TakeRead(t) \/ TakeWrite(t)
  <2>1. UNCHANGED <<io, unsaid>> /\ \A u \in ATM : loc'[u] = loc[u]
    BY <1>1, <1>3 DEF TakeTest, TakeRead, TakeWrite, Fail, inside
  <2>2. \E p \in Places : Goto(t, p)
    BY <1>3 DEF TakeTest, TakeRead, TakeWrite, Fail, Places
  <2> QED
    BY <2>1, <2>2, BankThreadLog
<1>4. CASE t = Com /\ ComStep
  <2>1. UNCHANGED <<io, unsaid>> /\ \A u \in ATM : loc'[u] = loc[u]
    BY <1>1, <1>4 DEF ComStep, ComStop, ComBegin, Fee, Credit, shared, history
  <2>2. \E p \in Places : Goto(t, p)
    BY <1>4 DEF ComStep, ComStop, ComBegin, Fee, Credit, Places
  <2> QED
    BY <2>1, <2>2, BankThreadLog
<1>5. CASE t = Prt /\ PrtStep
  BY <1>5, BankThreadLog DEF PrtStep, PrtStop, PrtBegin, PrintBalances, Places, shared, history
<1> QED
  BY <1>1, <1>2, <1>3, <1>4, <1>5 DEF ThreadStep

(* LogInv is inductive relative to Base.                                   *)
LEMMA NextLog == Base /\ LogInv /\ [Next]_vars => LogInv'
<1> SUFFICES ASSUME Base, LogInv, [Next]_vars PROVE LogInv'
  OBVIOUS
<1>1. CASE UNCHANGED vars
  BY <1>1, LogStays DEF vars, io, GivesUp
<1>2. ASSUME NEW t \in Thread, ThreadStep(t), file' = file
      PROVE  LogInv'
  <2>1. CASE t \notin ATM
    BY <1>2, <2>1, ComPrtLog
  <2>2. CASE Lock(t) /\ t \in ATM
    <3>1. /\ Goto(t, "check") /\ UNCHANGED <<io, loc, unsaid>> /\ at[t] = "lock"
          /\ Follows(t)
      <4>1. t # Com /\ t # Prt /\ Follows(t)
        BY <2>2, Threads DEF Base, Standing
      <4> QED
        BY <2>2, <4>1 DEF Lock, history
    <3> QED
      BY <1>2, <2>2, <3>1, SameLineLog DEF SameLine, Places, Follows
  <2>3. CASE Leave(t) /\ t \in ATM
    BY <1>2, <2>3, LeaveLog
  <2>4. CASE t \in ATM /\ (ATMStep(t) \/ TakeTest(t) \/ TakeRead(t) \/ TakeWrite(t))
    BY <1>2, <2>4, SameLineATM, SameLineLog, NobodyLog, ReadingLog, UnlockAgainLog
  <2> QED
    BY <1>2, <2>1, <2>2, <2>3, <2>4, Threads DEF ThreadStep
<1>3. CASE CreateThread /\ file' = file
  <2>1. /\ UNCHANGED <<io, loc, unsaid>>
        /\ \A u \in ATM : \/ at'[u] = at[u]
                          \/ at[u] = "new" /\ at'[u] = "start"
    BY <1>3, Threads, ShapeIs DEF CreateThread, Goto, Shape, history
  <2> QED
    BY <1>3, <2>1, LogStays DEF GivesUp
<1>4. CASE (JoinATMs \/ JoinBank \/ CreateFails) /\ file' = file
  BY <1>4, LogStays DEF JoinATMs, JoinBank, CreateFails, history, GivesUp
<1>5. CASE PrintHangs /\ file' = file
  BY <1>5, BankThreadLog, Threads DEF PrintHangs, Places, shared, history
<1> QED
  BY <1>1, <1>2, <1>3, <1>4, <1>5 DEF Next, Running, MainStep

LEMMA InitLog == Init => LogInv
<1> SUFFICES ASSUME Init, NEW t \in ATM PROVE LogFor(t) /\ Told(t)
  BY DEF LogInv
<1>1. pos[t] = 1 /\ log[t] = 0 /\ at[t] = "new" /\ unsaid[t] = {}
  BY Threads DEF Init
<1>2. MustLog(t) = {}
  BY <1>1 DEF MustLog, ReadLines
<1>3. Cardinality(MustLog(t)) = 0
  BY <1>2, FS_EmptySet
<1> QED
  BY <1>1, <1>3 DEF LogFor, Logged, Told, GivesUp

(* The log has exactly one line for each line of three words or more that  *)
(* an ATM is done with, although a failing OpenAccount unlocks twice, but  *)
(* none for the transfers that found their own account in the list and not *)
(* the one to pay to.                                                      *)
THEOREM LogIsComplete == Spec => []LogAccounted
<1>1. Init => Base /\ LogInv
  BY InitBase, InitLog
<1>2. Base /\ LogInv /\ [Next]_vars => Base' /\ LogInv'
  BY NextBase, NextLog
<1>3. LogInv => LogAccounted
  BY LogIs DEF LogInv
<1> QED
  BY <1>1, <1>2, <1>3, PTL DEF Spec

-----------------------------------------------------------------------------
(* The list while a thread relies on it *)

(* A step of t leaves all others where they are.                           *)
Alone(t) ==
    /\ \A u \in Thread \ {t} : at'[u] = at[u] /\ loc'[u] = loc[u]
    /\ \A u \in ATM \ {t} : pos'[u] = pos[u]
    /\ file' = file
    /\ surplus' = 0 => surplus = 0

(* Every step of a thread is its own affair.                               *)
LEMMA StepAlone ==
    ASSUME Base, NEW t \in Thread, ThreadStep(t), file' = file
    PROVE  Alone(t)
<1>1. surplus' = 0 => surplus = 0
  <2>1. CASE UNCHANGED surplus
    BY <2>1
  <2>2. CASE t \in ATM /\ UnlockAgain(t)
    BY <2>2, ShapeIs DEF UnlockAgain, Shape
  <2> QED
    BY <2>1, <2>2
    DEF ThreadStep, Lock, Leave, TakeTest, TakeRead, TakeWrite, ATMStep, Start, ShortLine,
        RefuseLine, AcceptLine, EndOfFile, CheckOpen, Insert, CheckAccount, CheckTransfer,
        AddRead, AddWrite, Report, Erase, ComStep, ComStop, ComBegin, Fee, Credit,
        PrtStep, PrtStop, PrtBegin, PrintBalances, shared, history, inside
<1>5. \/ Lock(t) \/ Leave(t)
      \/ TakeTest(t) \/ TakeRead(t) \/ TakeWrite(t)
      \/ t \in ATM /\ ATMStep(t)
      \/ t = Com /\ ComStep
      \/ t = Prt /\ PrtStep
  BY Zenon DEF ThreadStep
<1>2. \A u \in Thread \ {t} : at'[u] = at[u]
  <2>1. UNCHANGED at \/ \E p : Goto(t, p)
    <3>1. CASE Lock(t) \/ Leave(t)
      BY <3>1, Threads DEF Lock, Leave, Thread
    <3>2. CASE TakeTest(t) \/ TakeRead(t) \/ TakeWrite(t)
      BY <3>2 DEF TakeTest, TakeRead, TakeWrite, Fail
    <3>3. CASE t \in ATM /\ ATMStep(t)
      BY <3>3
      DEF ATMStep, Start, ShortLine, RefuseLine, AcceptLine, EndOfFile, UnlockAgain,
          CheckOpen, Insert, CheckAccount, CheckTransfer, AddRead, AddWrite, Report,
          Erase, Fail
    <3>4. CASE (t = Com /\ ComStep) \/ (t = Prt /\ PrtStep)
      BY <3>4 DEF ComStep, ComStop, ComBegin, Fee, Credit, PrtStep, PrtStop, PrtBegin,
                  PrintBalances
    <3> QED
      BY <1>5, <3>1, <3>2, <3>3, <3>4
  <2> QED
    BY <2>1, ShapeIs DEF Goto, Shape
<1>3. \A u \in Thread \ {t} : loc'[u] = loc[u]
  <2>1. CASE Lock(t) \/ Leave(t)
    <3>1. UNCHANGED loc \/ loc' = [loc EXCEPT ![t] = Fresh]
      BY <2>1, Threads DEF Lock, Leave, Thread
    <3> QED
      BY <3>1, ShapeIs DEF Shape
  <2>2. CASE TakeTest(t) \/ TakeRead(t) \/ TakeWrite(t)
    BY <2>2, ShapeIs DEF TakeTest, TakeRead, TakeWrite, Fail, Shape
  <2>3. CASE t \in ATM /\ ATMStep(t)
    BY <2>3, ShapeIs
    DEF ATMStep, Start, ShortLine, RefuseLine, AcceptLine, EndOfFile, UnlockAgain,
        CheckOpen, Insert, CheckAccount, CheckTransfer, AddRead, AddWrite, Report, Erase,
        Fail, Shape
  <2>4. CASE t = Com /\ ComBegin
    BY <2>4, ShapeIs DEF ComBegin, Shape
  <2>5. CASE (t = Com /\ (ComStop \/ Fee \/ Credit)) \/ (t = Prt /\ PrtStep)
    BY <2>5, ShapeIs
    DEF ComStop, Fee, Credit, PrtStep, PrtStop, PrtBegin, PrintBalances, Shape
  <2> QED
    BY <1>5, <2>1, <2>2, <2>3, <2>4, <2>5 DEF ComStep
<1>4. \A u \in ATM \ {t} : pos'[u] = pos[u]
  <2>1. UNCHANGED pos \/ (t \in ATM /\ NextLine(t))
    BY Threads
    DEF ThreadStep, Lock, Leave, TakeTest, TakeRead, TakeWrite, ATMStep, Start, ShortLine,
        RefuseLine, AcceptLine, EndOfFile, CheckOpen, Insert, CheckAccount, CheckTransfer,
        AddRead, AddWrite, Report, Erase, UnlockAgain, ComStep, ComStop, ComBegin, Fee,
        Credit, PrtStep, PrtStop, PrtBegin, PrintBalances, inside, io, Thread
  <2> QED
    BY <2>1, ShapeIs DEF NextLine, Shape
<1> QED
  BY <1>1, <1>2, <1>3, <1>4 DEF Alone

(* What thread t knows of the list: nobody has the number it is about to   *)
(* enter, and the positions it looked up are the accounts it meant.        *)
Knows(t) ==
    /\ t \in ATM /\ at[t] = "insert" =>
         \A i \in DOMAIN accounts : accounts[i].id # Current(t).id
    /\ t \in ATM /\ at[t] \in LookedUp =>
         /\ OnList(loc[t].idx) /\ accounts[loc[t].idx].id = Current(t).id
         /\ OnList(loc[t].dst)
         /\ Current(t).op = "T" => accounts[loc[t].dst].id = Current(t).to
    /\ t = Com /\ at[Com] \in LookedUp \ {"fee"} => OnList(loc[Com].idx)

OneEach == \A i, j \in DOMAIN accounts : accounts[i].id = accounts[j].id => i = j

Safe == surplus = 0 => OneEach /\ \A t \in Thread : Knows(t)

(* What the runs check follows.                                            *)
LEMMA SafeIs == Safe => UniqueIds /\ StableIndex /\ Absent
  BY Threads DEF Safe, UniqueIds, StableIndex, Absent, OneEach, Knows

SameIds ==
    /\ DOMAIN accounts' = DOMAIN accounts
    /\ \A i \in DOMAIN accounts : accounts'[i].id = accounts[i].id

(* What a thread knows survives a step of another that keeps the list's    *)
(* numbers in place.                                                       *)
LEMMA OthersKnow ==
    ASSUME NEW t \in Thread, Alone(t), SameIds, NEW u \in Thread \ {t}, Knows(u)
    PROVE  Knows(u)'
<1>1. at'[u] = at[u] /\ loc'[u] = loc[u] /\ (u \in ATM => Current(u)' = Current(u))
  BY DEF Alone, Current
<1>2. \A i : OnList(i)' <=> OnList(i)
  BY DEF SameIds, OnList
<1> QED
  BY <1>1, <1>2 DEF Knows, SameIds, OnList

(* A step that leaves the account numbers alone.                           *)
LEMMA SafeStep ==
    ASSUME Safe, NEW t \in Thread, Alone(t), SameIds, surplus' = 0 => Knows(t)'
    PROVE  Safe'
<1> SUFFICES ASSUME surplus' = 0 PROVE OneEach' /\ \A u \in Thread : Knows(u)'
  BY DEF Safe
<1>1. OneEach /\ \A u \in Thread : Knows(u)
  BY DEF Safe, Alone
<1>2. OneEach'
  BY <1>1 DEF OneEach, SameIds
<1> QED
  BY <1>1, <1>2, OthersKnow

(* A thread that changes the list is alone with it: nobody else knows      *)
(* anything that could go wrong.                                           *)
LEMMA WriterSafe ==
    ASSUME Base, Safe, NEW t \in ATM, at[t] \in Locked, Writes(t), Alone(t),
           at'[t] = "leave", surplus' = 0 => OneEach'
    PROVE  Safe'
<1> SUFFICES ASSUME surplus' = 0 PROVE OneEach' /\ \A u \in Thread : Knows(u)'
  BY DEF Safe
<1>1. t \in Thread /\ t # Com
  BY Threads
<1>2. mode[t] = "writing" /\ t \in Inside
  BY <1>1 DEF Base, Holding, ModeAt, Inside
<1>3. Inside = {t}
  BY <1>2 DEF Base, LockBooks, ListExclusive, Alone
<1>4. Knows(t)'
  BY <1>1 DEF Knows, LookedUp, BalanceCalls
<1>5. ASSUME NEW u \in Thread, u # t PROVE Knows(u)'
  <2>1. u \notin Inside /\ mode[u] = ModeAt(u)
    BY <1>3, <1>5 DEF Base, Holding
  <2>2. at[u] \notin Locked
    BY <2>1 DEF Inside, ModeAt
  <2>3. at'[u] = at[u]
    BY <1>5 DEF Alone
  <2> QED
    BY <2>2, <2>3 DEF Knows, Locked, LookedUp, BalanceCalls
<1> QED
  BY <1>4, <1>5

(* OpenAccount enters a number nobody has, and appending moves nobody.     *)
LEMMA InsertSafe ==
    ASSUME Base, Safe, NEW t \in ATM, Insert(t), file' = file
    PROVE  Safe'
<1>1. t \in Thread
  BY Threads
<1>2. Alone(t) /\ at'[t] = "leave"
  <2>1. ThreadStep(t)
    BY DEF ThreadStep, ATMStep
  <2> QED
    BY <1>1, <2>1, StepAlone, ShapeIs DEF Insert, Goto, Shape
<1>3. at[t] \in Locked /\ Writes(t)
  BY DEF Insert, Locked, Writes, Base, Standing, Follows
<1> DEFINE a == [id |-> Current(t).id, pw |-> Current(t).pw,
                 bal |-> Current(t).amount % ULLMod]
           n == Len(accounts)
<1>4. ASSUME surplus' = 0 PROVE OneEach'
  <2>1. OneEach /\ \A i \in DOMAIN accounts : accounts[i].id # a.id
    BY <1>1, <1>2, <1>4 DEF Safe, Alone, Knows, Insert
  <2>2. accounts' = Append(accounts, a)
    BY DEF Insert
  <2>3. accounts \in Seq(Account) /\ n \in Nat /\ DOMAIN accounts = 1 .. n
    BY SameAccounts, LenProperties
  <2>4. /\ DOMAIN accounts' = 1 .. n + 1 /\ accounts'[n + 1] = a
        /\ \A i \in 1 .. n : accounts'[i] = accounts[i]
    BY <2>2, <2>3
  <2>5. \A i \in 1 .. n + 1 : i = n + 1 \/ i \in 1 .. n
    BY <2>3
  <2> HIDE DEF a, n
  <2> QED
    BY <2>1, <2>3, <2>4, <2>5 DEF OneEach
<1> QED
  BY <1>2, <1>3, <1>4, WriterSafe

(* CloseAccount moves the accounts behind, which a writer does when nobody *)
(* else is inside.                                                         *)
LEMMA EraseSafe ==
    ASSUME Base, Safe, NEW t \in ATM, Erase(t), file' = file
    PROVE  Safe'
<1>1. t \in Thread
  BY Threads
<1>2. Alone(t) /\ at'[t] = "leave"
  <2>1. ThreadStep(t)
    BY DEF ThreadStep, ATMStep
  <2> QED
    BY <1>1, <2>1, StepAlone, ShapeIs DEF Erase, Goto, Shape
<1>3. at[t] \in Locked /\ Writes(t)
  BY DEF Erase, Locked, Writes, Base, Standing, Follows
<1> DEFINE k == loc[t].idx
           n == Len(accounts)
<1>4. ASSUME surplus' = 0 PROVE OneEach'
  <2>1. OneEach
    BY <1>2, <1>4 DEF Safe, Alone
  <2>2. accounts' = RemoveAt(accounts, k)
    BY DEF Erase
  <2>3. accounts \in Seq(Account) /\ n \in Nat /\ DOMAIN accounts = 1 .. n /\ k \in 1 .. n
    BY SameAccounts, LenProperties DEF Erase, OnList
  <2>4. /\ accounts' \in Seq(Account) /\ Len(accounts') = n - 1
        /\ \A i \in 1 .. n - 1 : accounts'[i] = IF i < k THEN accounts[i] ELSE accounts[i + 1]
    BY <2>2, <2>3, Removed
  <2>5. DOMAIN accounts' = 1 .. n - 1
    BY <2>4, LenProperties
  <2> HIDE DEF k, n
  <2>6. ASSUME NEW i \in 1 .. n - 1, NEW j \in 1 .. n - 1, i < j,
               accounts'[i].id = accounts'[j].id
        PROVE  FALSE
    <3> DEFINE x == IF i < k THEN i ELSE i + 1
               y == IF j < k THEN j ELSE j + 1
    <3>1. x \in 1 .. n /\ y \in 1 .. n /\ x < y
      BY <2>3, <2>6, ShiftPast
    <3>2. accounts'[i] = accounts[x] /\ accounts'[j] = accounts[y]
      BY <2>4
    <3> HIDE DEF x, y
    <3>3. x = y
      BY <2>1, <2>3, <2>6, <3>1, <3>2 DEF OneEach
    <3> QED
      BY <3>1, <3>3
  <2>7. \A i, j \in 1 .. n - 1 : i < j \/ j < i \/ i = j
    BY <2>3
  <2> QED
    BY <2>5, <2>6, <2>7 DEF OneEach
<1> QED
  BY <1>2, <1>3, <1>4, WriterSafe

(* Who looks nothing up keeps nothing in mind.                             *)
LEMMA NothingToKnow ==
    ASSUME NEW t \in Thread, NEW p \in Places \ (LookedUp \cup {"insert"}),
           Base, Goto(t, p)
    PROVE  Knows(t)'
<1>1. at'[t] = p
  BY ShapeIs DEF Goto, Shape
<1> QED
  BY <1>1 DEF Knows

(* Going on with the same positions, a thread knows what it knew.          *)
LEMMA StillKnows ==
    ASSUME NEW t \in Thread, Knows(t), SameIds, at[t] \in LookedUp \ {"fee"},
           at'[t] # "insert", loc'[t].idx = loc[t].idx, loc'[t].dst = loc[t].dst,
           UNCHANGED <<pos, file>>
    PROVE  Knows(t)'
<1>1. t \in ATM => Current(t)' = Current(t)
  BY DEF Current
<1>2. \A i : OnList(i)' <=> OnList(i)
  BY DEF SameIds, OnList
<1> QED
  BY <1>1, <1>2 DEF Knows, SameIds, OnList

LEMMA SameList ==
    ASSUME UNCHANGED accounts
    PROVE  SameIds
  BY DEF SameIds

(* Entering and leaving the lock change no account.                        *)
LEMMA CallsSafe ==
    ASSUME Base, Safe, NEW t \in Thread, file' = file,
           Lock(t) \/ Leave(t) \/ (t \in ATM /\ UnlockAgain(t))
    PROVE  Safe'
<1>1. SameIds
  BY SameList DEF Lock, Leave, UnlockAgain
<1>2. Alone(t)
  BY StepAlone DEF ThreadStep, ATMStep
<1>3. CASE Lock(t)
  <2>2. at'[t] \in {"check", "fee", "print"} /\ (t = Com => at'[t] = "fee")
    BY <1>3, Threads, ShapeIs DEF Lock, Goto, Thread, Shape
  <2>3. Knows(t)'
    <3>1. t \in ATM => at'[t] = "check"
      BY <1>3, Threads, ShapeIs DEF Lock, Goto, Shape
    <3> QED
      BY <2>2, <3>1 DEF Knows, LookedUp, BalanceCalls
  <2> QED
    BY <1>1, <1>2, <2>3, SafeStep
<1>4. CASE Leave(t)
  <2>2. \E p \in {"again", "idle", "credit"} : Goto(t, p)
    BY <1>4, Threads DEF Leave, Thread
  <2>3. Knows(t)'
    BY <2>2, NothingToKnow DEF Places, LookedUp, BalanceCalls
  <2> QED
    BY <1>1, <1>2, <2>3, SafeStep
<1>5. CASE t \in ATM /\ UnlockAgain(t)
  <2>2. Knows(t)'
    BY <1>5, NothingToKnow DEF UnlockAgain, Places, LookedUp, BalanceCalls
  <2> QED
    BY <1>1, <1>2, <2>2, SafeStep
<1> QED
  BY <1>3, <1>4, <1>5

(* Balances change, numbers and positions do not.                          *)
LEMMA TakeSafe ==
    ASSUME Base, Safe, NEW t \in Thread, file' = file,
           TakeTest(t) \/ TakeRead(t) \/ TakeWrite(t)
    PROVE  Safe'
<1>1. /\ at[t] \in LookedUp \ {"fee"} /\ loc[t] \in Locals /\ (t \in ATM \/ t = Com)
      /\ at[t] \in {"take_test", "take_read", "take_write"}
  <2>1. at[t] \in {"take_test", "take_read", "take_write"}
    BY DEF TakeTest, TakeRead, TakeWrite
  <2> QED
    BY <2>1, Takers DEF LookedUp, BalanceCalls
<1>2. UNCHANGED <<pos, surplus>>
  BY DEF TakeTest, TakeRead, TakeWrite, inside, io
<1>3. Alone(t)
  BY StepAlone DEF ThreadStep
<1>4. SameIds
  <2>1. CASE UNCHANGED accounts
    BY <2>1, SameList
  <2>2. CASE TakeWrite(t)
    <3>1. loc[t].bal - loc[t].amount \in Int
      BY <1>1 DEF Locals
    <3> QED
      BY <2>2, <3>1, BalanceSet, SameAccounts DEF TakeWrite, SameIds
  <2> QED
    BY <2>1, <2>2 DEF TakeTest, TakeRead
<1>5. ASSUME surplus = 0 PROVE Knows(t)'
  <2>1. Knows(t)
    BY <1>5 DEF Safe
  <2>4. at'[t] = "fee" => t = Com
    BY <1>1, ShapeIs DEF TakeTest, TakeRead, TakeWrite, Fail, Goto, Shape
  <2>2. CASE at'[t] \in {"leave", "fee"}
    BY <1>1, <2>2, <2>4, Threads DEF Knows, LookedUp, BalanceCalls
  <2>3. CASE at'[t] \notin {"leave", "fee"}
    <3>1. loc'[t].idx = loc[t].idx /\ loc'[t].dst = loc[t].dst /\ at'[t] # "insert"
      BY <1>1, <2>3, ShapeIs DEF TakeTest, TakeRead, TakeWrite, Fail, Goto, Locals, Shape
    <3> QED
      BY <1>1, <1>2, <1>4, <2>1, <3>1, StillKnows
  <2> QED
    BY <2>2, <2>3
<1> QED
  BY <1>2, <1>3, <1>4, <1>5, SafeStep

(* An ATM that has looked up its accounts.                                 *)
LEMMA LookedUpRight ==
    ASSUME Base, NEW t \in ATM, at[t] = "check",
           CheckOpen(t) \/ CheckAccount(t) \/ CheckTransfer(t), file' = file
    PROVE  Knows(t)' /\ Alone(t) /\ SameIds
<1>1. t \in Thread /\ t # Com /\ loc[t] \in Locals
  BY Threads, ShapeIs DEF Shape
<1>2. /\ UNCHANGED <<pos, surplus, accounts>> /\ Current(t)' = Current(t)
      /\ \A i : OnList(i)' <=> OnList(i)
  BY DEF CheckOpen, CheckAccount, CheckTransfer, inside, io, Current, OnList
<1>3. \A id : /\ IndexFromID(id) # 0 => /\ OnList(IndexFromID(id))
                                        /\ accounts[IndexFromID(id)].id = id
              /\ IndexFromID(id) = 0 => \A i \in DOMAIN accounts : accounts[i].id # id
  BY LookUp, SameAccounts
<1>4. CASE \E says \in BOOLEAN : Fail(t, says)
  <2>1. Alone(t) /\ at'[t] = "leave"
    BY <1>1, <1>2, <1>4, ShapeIs DEF Alone, Fail, Goto, Shape
  <2>2. Knows(t)'
    BY <1>1, <2>1 DEF Knows, LookedUp, BalanceCalls
  <2> QED
    BY <1>2, <2>1, <2>2, SameList
<1>5. CASE /\ Current(t).op = "O" /\ IndexFromID(Current(t).id) = 0
           /\ Goto(t, "insert") /\ UNCHANGED loc
  <2>1. Alone(t) /\ at'[t] = "insert"
    BY <1>1, <1>2, <1>5, ShapeIs DEF Alone, Goto, Shape
  <2>2. Knows(t)'
    BY <1>1, <1>2, <1>3, <1>5, <2>1 DEF Knows, LookedUp, BalanceCalls
  <2> QED
    BY <1>2, <2>1, <2>2, SameList
<1>6. ASSUME NEW p \in {"add_read", "take_test", "report"}, Goto(t, p),
             NEW i, NEW j, loc' = [loc EXCEPT ![t].idx = i, ![t].dst = j],
             i # 0, j # 0, i = IndexFromID(Current(t).id),
             Current(t).op = "T" => j = IndexFromID(Current(t).to),
             Current(t).op # "T" => j = i
      PROVE  Knows(t)' /\ Alone(t)
  <2>1. Alone(t) /\ at'[t] = p
    BY <1>1, <1>2, <1>6, ShapeIs DEF Alone, Goto, Shape
  <2>2. loc'[t].idx = i /\ loc'[t].dst = j
    BY <1>1, <1>6, ShapeIs DEF Locals, Shape
  <2>3. OnList(i) /\ accounts[i].id = Current(t).id /\ OnList(j)
        /\ (Current(t).op = "T" => accounts[j].id = Current(t).to)
    BY <1>3, <1>6
  <2>4. Knows(t)'
    BY <1>1, <1>2, <2>1, <2>2, <2>3 DEF Knows
  <2> QED
    BY <2>1, <2>4
<1>7. CASE CheckAccount(t)
  <2> DEFINE i == IndexFromID(Current(t).id)
  <2>1. CASE Fail(t, TRUE)
    BY <1>4, <2>1
  <2>2. CASE ~Fail(t, TRUE)
    <3>1. /\ i # 0 /\ loc' = [loc EXCEPT ![t].idx = i, ![t].dst = i]
          /\ Current(t).op # "T"
      BY <1>7, <2>2 DEF CheckAccount
    <3>2. \E p \in {"add_read", "take_test", "report"} : Goto(t, p)
      BY <1>7, <2>2 DEF CheckAccount
    <3> HIDE DEF i
    <3>3. Knows(t)' /\ Alone(t)
      BY <1>6, <3>1, <3>2 DEF i
    <3> QED
      BY <1>2, <3>3, SameList
  <2> QED
    BY <2>1, <2>2
<1>8. CASE CheckTransfer(t)
  <2> DEFINE i == IndexFromID(Current(t).id)
             j == IndexFromID(Current(t).to)
  <2>1. CASE Fail(t, TRUE) \/ Fail(t, FALSE)
    BY <1>4, <2>1
  <2>2. CASE ~(Fail(t, TRUE) \/ Fail(t, FALSE))
    <3>1. /\ i # 0 /\ j # 0 /\ loc' = [loc EXCEPT ![t].idx = i, ![t].dst = j]
          /\ Current(t).op = "T" /\ Goto(t, "take_test")
      BY <1>8, <2>2 DEF CheckTransfer
    <3> HIDE DEF i, j
    <3>3. Knows(t)' /\ Alone(t)
      BY <1>6, <3>1 DEF i, j
    <3> QED
      BY <1>2, <3>3, SameList
  <2> QED
    BY <2>1, <2>2
<1>9. CASE CheckOpen(t)
  BY <1>4, <1>5, <1>9 DEF CheckOpen
<1> QED
  BY <1>7, <1>8, <1>9

LEMMA AddSafe ==
    ASSUME Base, Safe, NEW t \in ATM, file' = file,
           AddRead(t) \/ AddWrite(t) \/ Report(t)
    PROVE  Safe'
<1>1. /\ at[t] \in LookedUp \ {"fee"} /\ loc[t] \in Locals /\ t \in Thread
      /\ UNCHANGED <<pos, surplus>>
  BY Threads, ShapeIs
  DEF AddRead, AddWrite, Report, inside, io, LookedUp, BalanceCalls, Shape
<1>2. Alone(t)
  BY <1>1, StepAlone DEF ThreadStep, ATMStep
<1>3. at'[t] # "insert"
  <2>1. \E p \in {"add_write", "report", "erase", "leave"} : Goto(t, p)
    BY DEF AddRead, AddWrite, Report
  <2> QED
    BY <1>1, <2>1, ShapeIs DEF Goto, Shape
<1>4. SameIds
  <2>1. CASE UNCHANGED accounts
    BY <2>1, SameList
  <2>2. CASE AddWrite(t)
    <3>1. loc[t].bal + loc[t].amount \in Int
      BY <1>1 DEF Locals
    <3> QED
      BY <2>2, <3>1, BalanceSet, SameAccounts DEF AddWrite, SameIds
  <2> QED
    BY <2>1, <2>2 DEF AddRead, Report
<1>5. loc'[t].idx = loc[t].idx /\ loc'[t].dst = loc[t].dst
  BY <1>1, ShapeIs DEF AddRead, AddWrite, Report, Locals, Shape
<1>6. ASSUME surplus = 0 PROVE Knows(t)'
  <2>1. Knows(t)
    BY <1>1, <1>6 DEF Safe
  <2> QED
    BY <1>1, <1>3, <1>4, <1>5, <2>1, StillKnows
<1> QED
  BY <1>1, <1>2, <1>4, <1>6, SafeStep

(* A thread that moves outside the list.                                   *)
LEMMA AwaySafe ==
    ASSUME Base, Safe, NEW t \in Thread,
           NEW p \in Places \ (LookedUp \cup {"insert"}), Goto(t, p),
           UNCHANGED <<accounts, surplus, file>>,
           \A u \in Thread \ {t} : loc'[u] = loc[u],
           \A u \in ATM \ {t} : pos'[u] = pos[u]
    PROVE  Safe'
<1>1. Alone(t) /\ SameIds
  BY SameList, ShapeIs DEF Alone, Goto, Shape
<1>2. Knows(t)'
  BY NothingToKnow
<1> QED
  BY <1>1, <1>2, SafeStep

LEMMA ReadingSafe ==
    ASSUME Base, Safe, NEW t \in ATM, file' = file,
           Start(t) \/ ShortLine(t) \/ RefuseLine(t) \/ AcceptLine(t) \/ EndOfFile(t)
    PROVE  Safe'
<1>1. t \in Thread /\ UNCHANGED <<accounts, surplus>>
  BY Threads DEF Start, ShortLine, RefuseLine, AcceptLine, EndOfFile, shared, history
<1>2. /\ \A u \in Thread \ {t} : loc'[u] = loc[u]
      /\ \A u \in ATM \ {t} : pos'[u] = pos[u]
  BY ShapeIs DEF Start, ShortLine, RefuseLine, AcceptLine, EndOfFile, NextLine, io, Shape
<1>3. \E p \in {"idle", "done", "lock"} : Goto(t, p)
  BY <1>1, ShapeIs DEF Start, ShortLine, RefuseLine, AcceptLine, EndOfFile, Goto, Shape
<1> QED
  BY <1>1, <1>2, <1>3, AwaySafe DEF Places, LookedUp, BalanceCalls

LEMMA ATMSafe ==
    ASSUME Base, Safe, NEW t \in ATM, ATMStep(t), file' = file
    PROVE  Safe'
<1>1. t \in Thread
  BY Threads
<1>2. CASE CheckOpen(t) \/ CheckAccount(t) \/ CheckTransfer(t)
  <2>1. at[t] = "check"
    BY <1>2 DEF CheckOpen, CheckAccount, CheckTransfer
  <2> QED
    BY <1>1, <1>2, <2>1, LookedUpRight, SafeStep
<1> QED
  BY <1>1, <1>2, ReadingSafe, CallsSafe, InsertSafe, EraseSafe, AddSafe DEF ATMStep

LEMMA ComSafe ==
    ASSUME Base, Safe, ComStep, file' = file
    PROVE  Safe'
<1>1. Com \in Thread /\ UNCHANGED <<accounts, surplus, pos>>
  BY Threads DEF ComStep, ComStop, ComBegin, Fee, Credit, shared, history, io
<1>2. \A u \in Thread \ {Com} : loc'[u] = loc[u]
  <2>1. CASE ComBegin
    BY <2>1, ShapeIs DEF ComBegin, Shape
  <2>2. CASE Fee
    BY <2>2, ShapeIs DEF Fee, Shape
  <2>3. CASE ComStop \/ Credit
    BY <2>3, ShapeIs DEF ComStop, Credit, Shape
  <2> QED
    BY <2>1, <2>2, <2>3 DEF ComStep
<1>3. CASE Fee /\ OnList(loc[Com].idx)
  <2>1. Goto(Com, "take_test") /\ loc'[Com].idx = loc[Com].idx
    BY <1>1, <1>3, ShapeIs DEF Fee, Locals, Shape
  <2>2. Alone(Com) /\ SameIds
    BY <1>1, <1>2, <2>1, SameList, ShapeIs DEF Alone, Goto, Shape
  <2>3. Knows(Com)'
    BY <1>1, <1>3, <2>1, Threads DEF Knows, OnList
  <2> QED
    BY <1>1, <2>2, <2>3, SafeStep
<1>4. CASE ~(Fee /\ OnList(loc[Com].idx))
  <2>1. \E p \in {"done", "lock", "leave", "idle"} : Goto(Com, p)
    BY <1>4 DEF ComStep, ComStop, ComBegin, Fee, Credit
  <2> QED
    BY <1>1, <1>2, <2>1, AwaySafe DEF Places, LookedUp, BalanceCalls
<1> QED
  BY <1>3, <1>4

LEMMA PrtSafe ==
    ASSUME Base, Safe, PrtStep \/ PrintHangs, file' = file
    PROVE  Safe'
<1>1. Prt \in Thread /\ UNCHANGED <<accounts, surplus, pos, loc>>
  BY Threads DEF PrtStep, PrtStop, PrtBegin, PrintBalances, PrintHangs, shared, history, io
<1>2. \E p \in {"done", "lock", "leave", "hung"} : Goto(Prt, p)
  BY DEF PrtStep, PrtStop, PrtBegin, PrintBalances, PrintHangs
<1> QED
  BY <1>1, <1>2, AwaySafe DEF Places, LookedUp, BalanceCalls

(* A step in which nobody moves on the list.                               *)
LEMMA NobodySafe ==
    ASSUME Base, Safe, UNCHANGED <<accounts, surplus, io, at, loc, file>>
    PROVE  Safe'
<1>1. \A t \in Thread : Knows(t)' <=> Knows(t)
  BY DEF Knows, OnList, Current, io
<1> QED
  BY <1>1 DEF Safe, OneEach

(* Safe is inductive relative to Base, which keeps all others out while a  *)
(* writer moves the list.                                                  *)
LEMMA NextSafe == Base /\ Safe /\ [Next]_vars => Safe'
<1> SUFFICES ASSUME Base, Safe, [Next]_vars PROVE Safe'
  OBVIOUS
<1>1. CASE UNCHANGED vars
  BY <1>1, NobodySafe DEF vars, io
<1>2. ASSUME NEW t \in Thread, ThreadStep(t), file' = file
      PROVE  Safe'
  BY <1>2, CallsSafe, TakeSafe, ATMSafe, ComSafe, PrtSafe DEF ThreadStep
<1>3. CASE CreateThread /\ file' = file
  <2>1. PICK t \in Thread, p \in {"start", "idle"} : Goto(t, p)
    BY <1>3 DEF CreateThread
  <2> QED
    BY <1>3, <2>1, AwaySafe DEF CreateThread, history, io, Places, LookedUp, BalanceCalls
<1>4. CASE (JoinATMs \/ JoinBank \/ CreateFails) /\ file' = file
  BY <1>4, NobodySafe DEF JoinATMs, JoinBank, CreateFails, history
<1> QED
  BY <1>1, <1>2, <1>3, <1>4, PrtSafe DEF Next, Running, MainStep

LEMMA InitSafe == Init => Safe
  BY Threads DEF Init, Safe, OneEach, Knows, LookedUp, BalanceCalls

(* As long as no failing OpenAccount has unlocked twice, each thread may   *)
(* rely on what it looked up, and no number is on the list twice.          *)
THEOREM SafeAlways == Spec => [](Base /\ Safe)
<1>1. Init => Base /\ Safe
  BY InitBase, InitSafe
<1>2. Base /\ Safe /\ [Next]_vars => Base' /\ Safe'
  BY NextBase, NextSafe
<1> QED
  BY <1>1, <1>2, PTL DEF Spec

(* No account number is opened twice, as long as no failing OpenAccount    *)
(* has unlocked twice: looking for the number and entering it are apart.   *)
THEOREM NumbersAreUnique == Spec => []UniqueIds
<1>1. Safe => UniqueIds
  BY SafeIs
<1> QED
  BY <1>1, SafeAlways, PTL

(* As long as no failing OpenAccount has unlocked twice, the position that *)
(* a thread looked up is the account it meant in every later step of its   *)
(* operation, although other accounts are closed and the list moves.       *)
THEOREM PositionsHold == Spec => []StableIndex
<1>1. Safe => StableIndex
  BY SafeIs
<1> QED
  BY <1>1, SafeAlways, PTL

-----------------------------------------------------------------------------
(* Money *)

Balances == [i \in DOMAIN accounts |-> accounts[i].bal]

Held == [t \in Halfway |-> loc[t].amount]

Adding == {"add_read", "add_write"}

(* The commission of a round is credited before the next one begins.       *)
Settled == at[Com] \in {"new", "idle"} => loc[Com].tot = 0

(* The bank's money as a sum of two functions and two numbers.             *)
LEMMA MoneyIs ==
    MoneyInBank = SumFunction(Balances) + SumFunction(Held) + loc[Com].tot + vault
  BY DEF MoneyInBank, Balances, Held

(* Those sums are of finitely many integers.                               *)
LEMMA SumsAreInt ==
    ASSUME TypeOK
    PROVE  /\ IsFiniteSet(DOMAIN accounts) /\ Balances \in [DOMAIN accounts -> Int]
           /\ IsFiniteSet(Halfway) /\ Held \in [Halfway -> Int]
           /\ SumFunction(Balances) \in Int /\ SumFunction(Held) \in Int
           /\ loc[Com].tot \in Nat /\ vault \in Nat /\ booked \in Int
<1>1. accounts \in Seq(Account)
  BY TypesAre DEF Rest
<1>2. IsFiniteSet(DOMAIN accounts)
  BY <1>1, LenProperties, FS_Interval
<1>3. Balances \in [DOMAIN accounts -> Int]
  <2>1. \A i \in DOMAIN accounts : accounts[i].bal \in Int
    BY <1>1, BalanceRead, BankAssumption DEF OnList, Account
  <2> QED
    BY <2>1 DEF Balances
<1>4. IsFiniteSet(Halfway)
  <2>1. Halfway \subseteq Thread
    BY Threads DEF Halfway
  <2> QED
    BY <2>1, Threads, FS_Subset
<1>5. loc \in [Thread -> Locals]
  BY ShapeIs DEF Shape
<1>6. Held \in [Halfway -> Int]
  <2>1. \A t \in Halfway : loc[t].amount \in Int
    BY <1>5, Threads DEF Halfway, Locals
  <2> QED
    BY <2>1 DEF Held
<1>7. SumFunction(Balances) \in Int
  <2>1. SumFunctionOnSet(Balances, DOMAIN accounts) \in Int
    BY <1>2, <1>3, SumIsInt
  <2> QED
    BY <2>1 DEF SumFunction, Balances
<1>8. SumFunction(Held) \in Int
  <2>1. SumFunctionOnSet(Held, Halfway) \in Int
    BY <1>4, <1>6, SumIsInt
  <2> QED
    BY <2>1 DEF SumFunction, Held
<1>9. loc[Com].tot \in Nat /\ vault \in Nat /\ booked \in Int
  <2>1. loc[Com].tot \in Nat
    BY <1>5, Threads DEF Locals
  <2> QED
    BY <2>1, TypesAre DEF Rest
<1> QED
  BY <1>2, <1>3, <1>4, <1>6, <1>7, <1>8, <1>9

(* What is halfway changes with the thread that moves only.                *)
LEMMA OthersHalfway ==
    ASSUME NEW t \in Thread, Alone(t)
    PROVE  \A u \in Thread \ {t} : (u \in Halfway' <=> u \in Halfway) /\ loc'[u] = loc[u]
<1> SUFFICES ASSUME NEW u \in Thread \ {t}
             PROVE  (u \in Halfway' <=> u \in Halfway) /\ loc'[u] = loc[u]
  OBVIOUS
<1>1. at'[u] = at[u] /\ loc'[u] = loc[u] /\ (u \in ATM => Current(u)' = Current(u))
  BY DEF Alone, Current
<1> QED
  BY <1>1 DEF Halfway

(* What the step of t does to the money of the transfers halfway: nothing, *)
(* or its own amount goes in or comes out.                                 *)
LEMMA HeldStays ==
    ASSUME NEW t \in Thread, Alone(t), t \in Halfway' <=> t \in Halfway,
           t \in Halfway => loc'[t].amount = loc[t].amount
    PROVE  Held' = Held
<1>1. Halfway \subseteq Thread /\ Halfway' \subseteq Thread
  BY Threads DEF Halfway
<1>2. Halfway' = Halfway /\ \A u \in Halfway : loc'[u].amount = loc[u].amount
  BY <1>1, OthersHalfway
<1> QED
  BY <1>2 DEF Held

LEMMA HeldGrows ==
    ASSUME TypeOK, TypeOK', NEW t \in Thread, Alone(t), t \in Halfway', t \notin Halfway
    PROVE  SumFunction(Held') = SumFunction(Held) + loc'[t].amount
<1>1. Halfway \subseteq Thread /\ Halfway' \subseteq Thread
  BY Threads DEF Halfway
<1>2. Halfway' = Halfway \cup {t} /\ \A u \in Halfway : Held'[u] = Held[u]
  BY <1>1, OthersHalfway DEF Held
<1>3. IsFiniteSet(Halfway) /\ Held \in [Halfway -> Int]
  BY SumsAreInt
<1>4. (TypeOK => Held \in [Halfway -> Int])'
  BY SumsAreInt, PTL
<1>5. Held' \in [Halfway \cup {t} -> Int]
  BY <1>2, <1>4
<1>6. Held'[t] = loc'[t].amount
  BY DEF Held
<1> QED
  BY <1>2, <1>3, <1>5, <1>6, SumGrown

LEMMA HeldShrinks ==
    ASSUME TypeOK, TypeOK', NEW t \in Thread, Alone(t), t \notin Halfway', t \in Halfway
    PROVE  SumFunction(Held) = SumFunction(Held') + loc[t].amount
<1>1. Halfway \subseteq Thread /\ Halfway' \subseteq Thread
  BY Threads DEF Halfway
<1>2. Halfway = Halfway' \cup {t} /\ \A u \in Halfway' : Held[u] = Held'[u]
  BY <1>1, OthersHalfway DEF Held
<1>3. IsFiniteSet(Halfway) /\ Held \in [Halfway -> Int]
  BY SumsAreInt
<1>4. (TypeOK => IsFiniteSet(Halfway) /\ Held \in [Halfway -> Int])'
  BY SumsAreInt, PTL
<1>5. Held \in [Halfway' \cup {t} -> Int]
  BY <1>2, <1>3
<1>6. Held[t] = loc[t].amount
  BY DEF Held
<1> QED
  BY <1>2, <1>4, <1>5, <1>6, SumGrown

(* A balance that fits is written.                                         *)
LEMMA BalanceMoves ==
    ASSUME TypeOK, NEW i, OnList(i), NEW b \in Nat, b < ULLMod, SetBalance(i, b)
    PROVE  SumFunction(Balances') = SumFunction(Balances) - accounts[i].bal + b
<1>1. accounts \in Seq(Account) /\ b \in Int
  BY TypesAre DEF Rest
<1>2. b % ULLMod = b
  BY BankAssumption
<1>3. /\ DOMAIN accounts' = DOMAIN accounts /\ accounts'[i].bal = b
      /\ \A j \in DOMAIN accounts : j # i => accounts'[j].bal = accounts[j].bal
  BY <1>1, <1>2, BalanceSet
<1>4. IsFiniteSet(DOMAIN accounts) /\ Balances \in [DOMAIN accounts -> Int]
  BY SumsAreInt
<1>5. /\ Balances' \in [DOMAIN accounts -> Int] /\ i \in DOMAIN accounts
      /\ Balances'[i] = b /\ Balances[i] = accounts[i].bal
      /\ \A j \in DOMAIN accounts \ {i} : Balances'[j] = Balances[j]
  <2>1. Balances' = [j \in DOMAIN accounts |-> accounts'[j].bal] /\ i \in DOMAIN accounts
    BY <1>3 DEF Balances, OnList
  <2>2. \A j \in DOMAIN accounts : accounts'[j].bal = IF j = i THEN b ELSE Balances[j]
    BY <1>3 DEF Balances
  <2>3. Balances' = [j \in DOMAIN accounts |-> IF j = i THEN b ELSE Balances[j]]
    BY <2>1, <2>2
  <2>4. Balances' \in [DOMAIN accounts -> Int]
    BY <1>4, <2>3
  <2> QED
    BY <2>1, <2>3, <2>4 DEF Balances
<1> QED
  BY <1>4, <1>5, SumChanged

LEMMA MoneyIsNext ==
    MoneyInBank' = SumFunction(Balances') + SumFunction(Held') + loc'[Com].tot + vault'
  BY DEF MoneyInBank, Balances, Held

LEMMA MoneyTypes ==
    ASSUME TypeOK, TypeOK'
    PROVE  /\ SumFunction(Balances) \in Int /\ SumFunction(Held) \in Int
           /\ loc[Com].tot \in Nat /\ vault \in Nat /\ booked \in Int
           /\ SumFunction(Balances') \in Int /\ SumFunction(Held') \in Int
           /\ loc'[Com].tot \in Nat /\ vault' \in Nat /\ booked' \in Int
<1>1. (TypeOK => /\ SumFunction(Balances) \in Int /\ SumFunction(Held) \in Int
                 /\ loc[Com].tot \in Nat /\ vault \in Nat /\ booked \in Int)'
  BY SumsAreInt, PTL
<1> QED
  BY <1>1, SumsAreInt

(* It is enough that a step moves the bank's money and the money brought   *)
(* in alike, or that it is one of the steps that lose count.               *)
LEMMA MoneyStep ==
    ASSUME TypeOK, TypeOK', MoneyConserved, lost => lost', surplus' = 0 => surplus = 0,
           \/ lost' \/ surplus' # 0
           \/ MoneyInBank' - booked' = MoneyInBank - booked
    PROVE  MoneyConserved'
<1>1. MoneyInBank \in Int /\ booked \in Int
  BY SumsAreInt, MoneyIs
<1>2. MoneyInBank' \in Int /\ booked' \in Int
  BY MoneyTypes, MoneyIsNext
<1>3. surplus \in Nat /\ surplus' \in Nat
  <2>1. (TypeOK => Shape)'
    BY ShapeIs, PTL
  <2> QED
    BY <2>1, ShapeIs DEF Shape
<1>4. CASE lost' \/ surplus' # 0
  <2>1. surplus' # 0 => surplus' > 0
    BY <1>3
  <2> QED
    BY <1>4, <2>1 DEF MoneyConserved
<1>5. CASE ~lost' /\ surplus' = 0
  <2>1. ~(surplus > 0)
    BY <1>5
  <2>2. MoneyInBank = booked
    BY <1>5, <2>1, Zenon DEF MoneyConserved
  <2>3. MoneyInBank' - booked' = MoneyInBank - booked
    BY <1>5, Zenon
  <2>4. MoneyInBank' = booked'
    <3>1. \A m, n, x, y \in Int : m = n /\ x - y = m - n => x = y
      OBVIOUS
    <3> QED
      BY <1>1, <1>2, <2>2, <2>3, <3>1
  <2> QED
    BY <2>4 DEF MoneyConserved
<1> QED
  BY <1>4, <1>5

(* A step of t that moves no money: not on an account, not in a transfer   *)
(* halfway, not into or out of the commission under way.                   *)
Quiet(t) ==
    /\ UNCHANGED <<accounts, vault, booked>>
    /\ lost => lost'
    /\ t \in Halfway' <=> t \in Halfway
    /\ t \in Halfway => loc'[t].amount = loc[t].amount /\ Current(t)' = Current(t)
    /\ lost' \/ loc'[Com].tot = loc[Com].tot

LEMMA QuietMoney ==
    ASSUME TypeOK, TypeOK', MoneyConserved, NEW t \in Thread, Alone(t), Quiet(t)
    PROVE  MoneyConserved'
<1>1. Held' = Held /\ Balances' = Balances
  BY HeldStays DEF Balances, Quiet
<1>2. lost' \/ MoneyInBank' - booked' = MoneyInBank - booked
  BY <1>1, MoneyIs, MoneyIsNext, MoneyTypes DEF Quiet
<1> QED
  BY <1>2, MoneyStep DEF Alone, Quiet

(* OpenAccount brings its balance in, CloseAccount takes it out.           *)
LEMMA InsertMoney ==
    ASSUME Base, Base', MoneyConserved, NEW t \in ATM, Insert(t), Alone(t)
    PROVE  MoneyConserved'
<1> DEFINE a == Current(t).amount
           n == Len(accounts)
<1>1. TypeOK /\ TypeOK' /\ t \in Thread /\ t # Com /\ at[t] = "insert" /\ at'[t] = "leave"
  <2>1. TypeOK /\ TypeOK' /\ t \in Thread /\ t # Com
    BY Threads DEF Base
  <2>2. at[t] = "insert" /\ Goto(t, "leave")
    BY DEF Insert
  <2> QED
    BY <2>1, <2>2, ShapeIs DEF Goto, Shape
<1>2. a \in Nat /\ a % ULLMod = a
  <2>1. a \in Nat /\ a < ULLMod
    BY <1>1, LineAt DEF Base, Standing, Follows, AtWork, Locked
  <2> QED
    BY <2>1, BankAssumption
<1>3. Held' = Held
  BY <1>1, HeldStays DEF Halfway
<1>4. SumFunction(Balances') = SumFunction(Balances) + a
  <2>1. accounts \in Seq(Account) /\ n \in Nat /\ DOMAIN accounts = 1 .. n
    BY SameAccounts, LenProperties
  <2>2. accounts' = Append(accounts, [id |-> Current(t).id, pw |-> Current(t).pw, bal |-> a])
    BY <1>2 DEF Insert
  <2>3. /\ DOMAIN accounts' = (1 .. n) \cup {n + 1} /\ accounts'[n + 1].bal = a
        /\ \A i \in 1 .. n : accounts'[i] = accounts[i]
    BY <2>1, <2>2
  <2>4. /\ IsFiniteSet(1 .. n) /\ Balances \in [1 .. n -> Int] /\ n + 1 \notin 1 .. n
        /\ Balances' \in [(1 .. n) \cup {n + 1} -> Int]
        /\ \A i \in 1 .. n : Balances'[i] = Balances[i]
        /\ Balances'[n + 1] = a
    <3>1. IsFiniteSet(1 .. n) /\ Balances \in [1 .. n -> Int]
      BY <1>1, <2>1, SumsAreInt
    <3>2. (TypeOK => Balances \in [DOMAIN accounts -> Int])'
      BY SumsAreInt, PTL
    <3>3. n + 1 \notin 1 .. n
      BY <2>1
    <3>4. Balances' = [i \in DOMAIN accounts' |-> accounts'[i].bal]
      BY DEF Balances
    <3>5. \A i \in 1 .. n : Balances[i] = accounts[i].bal
      BY <2>1 DEF Balances
    <3> HIDE DEF n
    <3>6. \A i \in 1 .. n : Balances'[i] = Balances[i]
      BY <2>3, <3>4, <3>5
    <3>7. Balances'[n + 1] = a
      BY <2>3, <3>4
    <3>8. Balances' \in [(1 .. n) \cup {n + 1} -> Int]
      BY <1>1, <2>3, <3>2
    <3> QED
      BY <3>1, <3>3, <3>6, <3>7, <3>8
  <2> DEFINE D == 1 .. n
             m == n + 1
  <2> HIDE DEF D, m
  <2>5. SumFunction(Balances') = SumFunction(Balances) + Balances'[m]
    <3>1. /\ IsFiniteSet(D) /\ Balances \in [D -> Int] /\ m \notin D
          /\ Balances' \in [D \cup {m} -> Int]
          /\ \A i \in D : Balances'[i] = Balances[i]
      BY <2>4 DEF D, m
    <3> QED
      BY <3>1, SumGrown
  <2> QED
    BY <2>4, <2>5 DEF m
<1>5. booked' = booked + a /\ vault' = vault /\ loc' = loc
  BY DEF Insert, inside
<1>6. MoneyInBank' - booked' = MoneyInBank - booked
  BY <1>1, <1>2, <1>3, <1>4, <1>5, MoneyIs, MoneyIsNext, MoneyTypes
<1> QED
  BY <1>1, <1>6, MoneyStep DEF Alone, Insert

LEMMA EraseMoney ==
    ASSUME Base, Base', MoneyConserved, NEW t \in ATM, Erase(t), Alone(t)
    PROVE  MoneyConserved'
<1> DEFINE k == loc[t].idx
           n == Len(accounts)
<1>1. TypeOK /\ TypeOK' /\ t \in Thread /\ t # Com /\ at[t] = "erase" /\ at'[t] = "leave"
  <2>1. TypeOK /\ TypeOK' /\ t \in Thread /\ t # Com
    BY Threads DEF Base
  <2>2. at[t] = "erase" /\ Goto(t, "leave")
    BY DEF Erase
  <2> QED
    BY <2>1, <2>2, ShapeIs DEF Goto, Shape
<1>2. Held' = Held
  BY <1>1, HeldStays DEF Halfway
<1>3. /\ accounts \in Seq(Account) /\ n \in Nat /\ DOMAIN accounts = 1 .. n /\ k \in 1 .. n
  BY SameAccounts, LenProperties DEF Erase, OnList
<1>4. SumFunction(Balances) = SumFunction(Balances') + accounts[k].bal
  <2>1. accounts' = RemoveAt(accounts, k)
    BY DEF Erase
  <2>2. /\ accounts' \in Seq(Account) /\ Len(accounts') = n - 1
        /\ \A i \in 1 .. n - 1 : accounts'[i] = IF i < k THEN accounts[i] ELSE accounts[i + 1]
    BY <1>3, <2>1, Removed
  <2>3. DOMAIN accounts' = 1 .. n - 1
    BY <2>2, LenProperties
  <2>4. Balances \in [1 .. n -> Int]
    BY <1>1, <1>3, SumsAreInt
  <2>5. (TypeOK => Balances \in [DOMAIN accounts -> Int])'
    BY SumsAreInt, PTL
  <2>6. Balances' \in [1 .. n - 1 -> Int]
    BY <1>1, <2>3, <2>5
  <2>7. \A i \in 1 .. n : Balances[i] = accounts[i].bal
    BY <1>3 DEF Balances
  <2>8. \A i \in 1 .. n - 1 : Balances'[i] = accounts'[i].bal
    BY <2>3 DEF Balances
  <2> HIDE DEF n, k
  <2>9. \A i \in 1 .. n - 1 : Balances'[i] = IF i < k THEN Balances[i] ELSE Balances[i + 1]
    <3> SUFFICES ASSUME NEW i \in 1 .. n - 1
                 PROVE  Balances'[i] = IF i < k THEN Balances[i] ELSE Balances[i + 1]
      OBVIOUS
    <3>1. i \in 1 .. n /\ i + 1 \in 1 .. n
      BY <1>3
    <3> QED
      BY <2>2, <2>7, <2>8, <3>1
  <2> QED
    BY <1>3, <2>4, <2>6, <2>7, <2>9, SumRemoved
<1>5. accounts[k].bal \in Int
  BY <1>3, BalanceRead, BankAssumption DEF OnList, Account
<1>6. booked' = booked - accounts[k].bal /\ vault' = vault /\ loc' = loc
  BY DEF Erase, inside
<1> HIDE DEF k
<1>7. MoneyInBank' - booked' = MoneyInBank - booked
  BY <1>1, <1>2, <1>4, <1>5, <1>6, MoneyIs, MoneyIsNext, MoneyTypes
<1> QED
  BY <1>1, <1>7, MoneyStep DEF Alone, Erase

(* SetBalance after SetBalance's own reading: what TakeFromBalance takes   *)
(* is what the thread moves, and so with AddToBalance, unless the reading  *)
(* is stale or does not fit.                                               *)
LEMMA TakeMoney ==
    ASSUME Base, Base', MoneyConserved, NEW t \in Thread, TakeWrite(t), Alone(t)
    PROVE  MoneyConserved'
<1> DEFINE i == loc[t].idx
           a == loc[t].amount
           b == loc[t].bal - a
<1>1. /\ TypeOK /\ TypeOK' /\ loc[t] \in Locals /\ at[t] = "take_write"
      /\ t \in ATM \/ t = Com
      /\ t \in ATM => Current(t).op \in {"W", "T"}
  BY Takers DEF Base, TakeWrite
<1>2. a \in Nat /\ loc[t].bal \in Nat
  BY <1>1 DEF Locals
<1>3. ASSUME ~lost'
      PROVE  SumFunction(Balances') = SumFunction(Balances) - a
  <2>1. OnList(i) /\ SetBalance(i, b)
    BY DEF TakeWrite
  <2>2. accounts[i].bal = loc[t].bal /\ ~(loc[t].bal < a)
    BY <1>3 DEF TakeWrite
  <2>3. accounts[i].bal \in Nat /\ accounts[i].bal < ULLMod
    <3>1. accounts[i] \in Account
      BY <2>1, BalanceRead, SameAccounts
    <3> QED
      BY <3>1, BankAssumption DEF Account
  <2>4. b \in Nat /\ b < ULLMod
    BY <1>2, <2>2, <2>3, BankAssumption
  <2> HIDE DEF i, a, b
  <2>5. SumFunction(Balances') = SumFunction(Balances) - accounts[i].bal + b
    BY <1>1, <2>1, <2>4, BalanceMoves
  <2> QED
    BY <1>1, <1>2, <2>2, <2>3, <2>5, MoneyTypes DEF b
<1>4. CASE lost'
  BY <1>1, <1>4, MoneyStep DEF Alone, TakeWrite
<1>5. CASE t \in ATM /\ Current(t).op = "W" /\ ~lost'
  <2>1. at'[t] = "report" /\ booked' = booked - a /\ vault' = vault /\ loc' = loc /\ t # Com
    BY <1>1, <1>5, Threads, ShapeIs DEF TakeWrite, Goto, inside, Shape
  <2>2. Held' = Held
    BY <1>1, <2>1, HeldStays DEF Halfway
  <2> HIDE DEF a
  <2>3. MoneyInBank' - booked' = MoneyInBank - booked
    BY <1>1, <1>2, <1>3, <1>5, <2>1, <2>2, MoneyIs, MoneyIsNext, MoneyTypes
  <2> QED
    BY <1>1, <2>3, MoneyStep DEF Alone, TakeWrite
<1>6. CASE t \in ATM /\ Current(t).op = "T" /\ ~lost'
  <2>1. /\ at'[t] = "add_read" /\ booked' = booked /\ vault' = vault /\ loc' = loc /\ t # Com
        /\ Current(t)' = Current(t)
    BY <1>1, <1>6, Threads, ShapeIs DEF TakeWrite, Goto, inside, io, Current, Alone, Shape
  <2>2. t \in Halfway' /\ t \notin Halfway
    BY <1>1, <1>6, <2>1 DEF Halfway
  <2>3. SumFunction(Held') = SumFunction(Held) + a
    BY <1>1, <2>1, <2>2, HeldGrows
  <2> HIDE DEF a
  <2>4. MoneyInBank' - booked' = MoneyInBank - booked
    BY <1>1, <1>2, <1>3, <1>6, <2>1, <2>3, MoneyIs, MoneyIsNext, MoneyTypes
  <2> QED
    BY <1>1, <2>4, MoneyStep DEF Alone, TakeWrite
<1>7. CASE t = Com /\ ~lost'
  <2>1. booked' = booked /\ vault' = vault /\ loc'[Com].tot = loc[Com].tot + a
    <3> DEFINE l == [loc[t] EXCEPT !.tot = @ + a, !.idx = @ + 1]
    <3>1. loc' = [loc EXCEPT ![t] = l]
      BY <1>1, <1>7 DEF Locals, TakeWrite
    <3>2. l.tot = loc[t].tot + a
      BY <1>1 DEF Locals
    <3>3. loc'[t] = l
      BY <1>1, <3>1, ShapeIs DEF Shape
    <3> HIDE DEF l
    <3>4. loc'[Com].tot = loc[Com].tot + a
      BY <1>7, <3>2, <3>3
    <3> QED
      BY <1>7, <3>4 DEF TakeWrite, inside
  <2>2. Held' = Held
    BY <1>7, Threads, HeldStays DEF Halfway
  <2> HIDE DEF a
  <2>3. MoneyInBank' - booked' = MoneyInBank - booked
    BY <1>1, <1>2, <1>3, <1>7, <2>1, <2>2, MoneyIs, MoneyIsNext, MoneyTypes
  <2> QED
    BY <1>1, <2>3, MoneyStep DEF Alone, TakeWrite
<1> QED
  BY <1>1, <1>4, <1>5, <1>6, <1>7

(* The other half.                                                         *)
LEMMA AddMoney ==
    ASSUME Base, Base', MoneyConserved, NEW t \in ATM, AddWrite(t), Alone(t)
    PROVE  MoneyConserved'
<1> DEFINE i == loc[t].dst
           a == loc[t].amount
           b == loc[t].bal + a
<1>1. /\ TypeOK /\ TypeOK' /\ t \in Thread /\ t # Com /\ loc[t] \in Locals
      /\ at[t] = "add_write" /\ Current(t).op \in {"D", "T"}
  <2>1. at[t] = "add_write" /\ TypeOK /\ TypeOK' /\ t \in Thread /\ t # Com
    BY Threads DEF Base, AddWrite
  <2>2. Current(t).op \in {"D", "T"}
    BY <2>1 DEF Base, Standing, Follows
  <2> QED
    BY <2>1, <2>2, ShapeIs DEF Shape
<1>2. a \in Nat /\ loc[t].bal \in Nat
  BY <1>1 DEF Locals
<1>3. ASSUME ~lost'
      PROVE  SumFunction(Balances') = SumFunction(Balances) + a
  <2>1. OnList(i) /\ SetBalance(i, b)
    BY DEF AddWrite
  <2>2. accounts[i].bal = loc[t].bal /\ ~(b >= ULLMod)
    BY <1>3 DEF AddWrite
  <2>3. b \in Nat /\ b < ULLMod
    BY <1>2, <2>2, BankAssumption
  <2> HIDE DEF i, a, b
  <2>4. SumFunction(Balances') = SumFunction(Balances) - accounts[i].bal + b
    BY <1>1, <2>1, <2>3, BalanceMoves
  <2> QED
    BY <1>1, <1>2, <2>2, <2>4, MoneyTypes DEF b
<1>4. CASE lost'
  BY <1>1, <1>4, MoneyStep DEF Alone, AddWrite
<1>5. at'[t] = "report" /\ loc' = loc /\ vault' = vault /\ t \notin Halfway'
  BY <1>1, ShapeIs DEF AddWrite, inside, Goto, Halfway, Shape
<1>6. CASE Current(t).op = "D" /\ ~lost'
  <2>1. booked' = booked + a
    BY <1>6 DEF AddWrite
  <2>2. Held' = Held
    BY <1>1, <1>5, <1>6, HeldStays DEF Halfway
  <2> HIDE DEF a
  <2>3. MoneyInBank' - booked' = MoneyInBank - booked
    BY <1>1, <1>2, <1>3, <1>5, <1>6, <2>1, <2>2, MoneyIs, MoneyIsNext, MoneyTypes
  <2> QED
    BY <1>1, <2>3, MoneyStep DEF Alone, AddWrite
<1>7. CASE Current(t).op = "T" /\ ~lost'
  <2>1. booked' = booked
    BY <1>7 DEF AddWrite
  <2>2. t \in Halfway
    BY <1>1, <1>7 DEF Halfway
  <2>3. SumFunction(Held) = SumFunction(Held') + a
    BY <1>1, <1>5, <2>2, HeldShrinks
  <2> HIDE DEF a
  <2>4. MoneyInBank' - booked' = MoneyInBank - booked
    BY <1>1, <1>2, <1>3, <1>5, <1>7, <2>1, <2>3, MoneyIs, MoneyIsNext, MoneyTypes
  <2> QED
    BY <1>1, <2>4, MoneyStep DEF Alone, AddWrite
<1> QED
  BY <1>1, <1>4, <1>6, <1>7

(* The steps of a thread that write no balance and no commission.          *)
LEMMA IsQuiet ==
    ASSUME NEW t \in Thread, Alone(t),
           UNCHANGED <<accounts, vault, booked, lost>>,
           at[t] \notin Adding, at'[t] \notin Adding \/ Current(t)'.op # "T",
           t = Com => loc'[Com].tot = loc[Com].tot
    PROVE  Quiet(t)
<1>1. t \notin Halfway /\ t \notin Halfway'
  BY DEF Halfway, Adding
<1>2. loc'[Com].tot = loc[Com].tot
  BY Threads DEF Alone
<1> QED
  BY <1>1, <1>2 DEF Quiet

(* The calls on the lock and the steps that only look move no money.       *)
LEMMA CallsQuiet ==
    ASSUME Base, NEW t \in Thread, Alone(t),
           Lock(t) \/ Leave(t) \/ (t \in ATM /\ UnlockAgain(t))
    PROVE  Quiet(t)
<1>1. UNCHANGED <<accounts, vault, booked, lost>> /\ at[t] \notin Adding
  BY DEF Lock, Leave, UnlockAgain, history, Adding
<1>2. \E p \in {"check", "fee", "print", "again", "idle", "credit"} : Goto(t, p)
  BY Threads DEF Lock, Leave, UnlockAgain, Thread
<1>3. at'[t] \notin Adding
  BY <1>2, ShapeIs DEF Goto, Adding, Shape
<1>4. t = Com => loc'[Com].tot = loc[Com].tot
  BY Threads DEF Lock, Leave
<1> QED
  BY <1>1, <1>3, <1>4, IsQuiet

LEMMA TakeTestQuiet ==
    ASSUME Base, NEW t \in Thread, Alone(t), TakeTest(t)
    PROVE  Quiet(t)
<1>1. UNCHANGED <<accounts, vault, booked>> /\ (lost => lost') /\ TypeOK
  BY DEF TakeTest, inside, Base
<1>2. \E p \in {"take_read", "leave"} : Goto(t, p)
  BY DEF TakeTest, Fail
<1>3. t \notin Halfway /\ t \notin Halfway'
  BY <1>1, <1>2, ShapeIs DEF TakeTest, Halfway, Goto, Shape
<1>4. lost' \/ loc'[Com].tot = loc[Com].tot
  <2>1. CASE t # Com
    BY <2>1, Threads DEF Alone
  <2>2. CASE t = Com /\ UNCHANGED loc
    BY <2>2
  <2>3. CASE t = Com /\ loc' = [loc EXCEPT ![t].tot = 0] /\ lost' = (lost \/ loc[t].tot > 0)
    <3>1. loc[t] \in Locals /\ loc[t].tot \in Nat
      BY <1>1, ShapeIs DEF Locals, Shape
    <3>2. loc'[Com].tot = 0
      BY <1>1, <2>3, <3>1, Threads, ShapeIs DEF Locals, Shape
    <3>3. CASE loc[t].tot > 0
      BY <2>3, <3>3
    <3>4. CASE ~(loc[t].tot > 0)
      BY <2>3, <3>1, <3>2, <3>4
    <3> QED
      BY <3>3, <3>4
  <2> QED
    BY <2>1, <2>2, <2>3, Threads DEF TakeTest
<1> QED
  BY <1>1, <1>3, <1>4 DEF Quiet

LEMMA ReadQuiet ==
    ASSUME Base, NEW t \in Thread, Alone(t),
           TakeRead(t) \/ (t \in ATM /\ AddRead(t))
    PROVE  Quiet(t)
<1>1. UNCHANGED <<accounts, vault, booked, lost, pos>> /\ TypeOK /\ loc[t] \in Locals
  <2>1. TypeOK
    BY DEF Base
  <2> QED
    BY <2>1, ShapeIs DEF TakeRead, AddRead, inside, io, Shape
<1>2. loc'[t].tot = loc[t].tot /\ loc'[t].amount = loc[t].amount
  <2>1. \E b : loc' = [loc EXCEPT ![t].bal = b]
    BY DEF TakeRead, AddRead
  <2>2. PICK b : loc' = [loc EXCEPT ![t].bal = b]
    BY <2>1
  <2> DEFINE l == [loc[t] EXCEPT !.bal = b]
  <2>3. loc' = [loc EXCEPT ![t] = l] /\ loc \in [Thread -> Locals]
    BY <1>1, <2>2, ShapeIs DEF Shape
  <2>4. l.tot = loc[t].tot /\ l.amount = loc[t].amount
    BY <1>1 DEF Locals
  <2>5. loc'[t] = l
    BY <2>3
  <2> QED
    BY <2>4, <2>5
<1>3. t \in Halfway' <=> t \in Halfway
  <2>1. Current(t)' = Current(t)
    BY <1>1 DEF Current, Alone
  <2>2. CASE TakeRead(t)
    BY <1>1, <2>2, ShapeIs DEF TakeRead, Goto, Halfway, Shape
  <2>3. CASE AddRead(t)
    BY <1>1, <2>1, <2>3, ShapeIs DEF AddRead, Goto, Halfway, Shape
  <2> QED
    BY <2>2, <2>3
<1>4. loc'[Com].tot = loc[Com].tot
  BY <1>2, Threads DEF Alone
<1> QED
  BY <1>1, <1>2, <1>3, <1>4 DEF Quiet, Alone, Current

LEMMA ATMQuiet ==
    ASSUME Base, NEW t \in ATM, Alone(t),
           \/ Start(t) \/ ShortLine(t) \/ RefuseLine(t) \/ AcceptLine(t) \/ EndOfFile(t)
           \/ CheckOpen(t) \/ CheckAccount(t) \/ CheckTransfer(t) \/ Report(t)
    PROVE  Quiet(t)
<1>1. t \in Thread /\ t # Com
  BY Threads
<1>2. CASE Start(t) \/ ShortLine(t) \/ RefuseLine(t) \/ AcceptLine(t) \/ EndOfFile(t)
  <2>1. at'[t] \in {"idle", "done", "lock"} /\ at[t] \notin Adding
    BY <1>1, <1>2, ShapeIs
    DEF Start, ShortLine, RefuseLine, AcceptLine, EndOfFile, Goto, Adding, Shape
  <2>2. UNCHANGED <<accounts, vault, booked, lost>>
    BY <1>2 DEF Start, ShortLine, RefuseLine, AcceptLine, EndOfFile, shared, history
  <2> QED
    BY <1>1, <2>1, <2>2, IsQuiet DEF Adding
<1>3. CASE CheckOpen(t) \/ CheckAccount(t) \/ CheckTransfer(t) \/ Report(t)
  <2>1. UNCHANGED <<accounts, vault, booked, lost, pos>> /\ at[t] \notin Adding
    BY <1>3 DEF CheckOpen, CheckAccount, CheckTransfer, Report, inside, io, Adding
  <2>2. Current(t)' = Current(t)
    BY <2>1 DEF Current, Alone
  <2>3. /\ \E p \in {"leave", "insert", "add_read", "take_test", "report", "erase"} : Goto(t, p)
        /\ Goto(t, "add_read") => Current(t).op # "T"
    <3>1. CASE CheckOpen(t) \/ Report(t)
      BY <1>1, <3>1, ShapeIs DEF CheckOpen, Report, Fail, Goto, Shape
    <3>2. CASE CheckTransfer(t)
      BY <1>1, <3>2, ShapeIs DEF CheckTransfer, Fail, Goto, Shape
    <3>3. CASE CheckAccount(t)
      BY <1>1, <3>3, ShapeIs DEF CheckAccount, Fail, Goto, Shape
    <3> QED
      BY <1>3, <3>1, <3>2, <3>3
  <2>4. at'[t] \notin Adding \/ Current(t).op # "T"
    <3>1. \A p : Goto(t, p) => at'[t] = p
      BY <1>1, ShapeIs DEF Goto, Shape
    <3> QED
      BY <2>3, <3>1 DEF Adding
  <2> QED
    BY <1>1, <2>1, <2>2, <2>4, IsQuiet
<1> QED
  BY <1>2, <1>3

(* The commission thread moves money when a round is over only.            *)
LEMMA ComQuiet ==
    ASSUME Base, Settled, ComStop \/ ComBegin \/ Fee, Alone(Com)
    PROVE  Quiet(Com)
<1>1. TypeOK /\ Com \in Thread /\ Com \notin Halfway /\ Com \notin Halfway'
  BY Threads DEF Base, Halfway
<1>2. UNCHANGED <<accounts, vault, booked, lost, surplus>>
  BY DEF ComStop, ComBegin, Fee, shared, history
<1>3. loc'[Com].tot = loc[Com].tot
  <2>1. CASE ComStop \/ Fee
    BY <1>1, <2>1, ShapeIs DEF ComStop, Fee, Locals, Shape
  <2>2. CASE ComBegin
    BY <1>1, <2>2, ShapeIs DEF ComBegin, Fresh, Settled, Shape
  <2> QED
    BY <2>1, <2>2
<1> QED
  BY <1>1, <1>2, <1>3 DEF Quiet

LEMMA CreditMoney ==
    ASSUME Base, Base', MoneyConserved, Credit, Alone(Com)
    PROVE  MoneyConserved'
<1>1. TypeOK /\ TypeOK' /\ Com \in Thread /\ Com \notin Halfway /\ Com \notin Halfway'
  BY Threads DEF Base, Halfway
<1>2. UNCHANGED <<accounts, booked, lost, surplus>>
  BY DEF Credit, history
<1>3. vault' = vault + loc[Com].tot /\ loc'[Com].tot = 0
  BY <1>1, FreshIs, ShapeIs DEF Credit, Shape
<1>4. Held' = Held /\ Balances' = Balances
  BY <1>1, <1>2, HeldStays DEF Balances
<1>5. MoneyInBank' - booked' = MoneyInBank - booked
  BY <1>1, <1>2, <1>3, <1>4, MoneyIs, MoneyIsNext, MoneyTypes
<1> QED
  BY <1>1, <1>2, <1>5, MoneyStep

LEMMA PrtQuiet ==
    ASSUME Base, PrtStep \/ PrintHangs, Alone(Prt)
    PROVE  Quiet(Prt)
<1>1. UNCHANGED <<accounts, vault, booked, lost>> /\ at[Prt] \notin Adding
  BY DEF PrtStep, PrtStop, PrtBegin, PrintBalances, PrintHangs, shared, history, Adding
<1>2. \E p \in {"done", "lock", "leave", "hung"} : Goto(Prt, p)
  BY DEF PrtStep, PrtStop, PrtBegin, PrintBalances, PrintHangs
<1>3. at'[Prt] \notin Adding
  BY <1>2, Threads, ShapeIs DEF Goto, Adding, Shape
<1> QED
  BY <1>1, <1>3, Threads, IsQuiet

(* Where nobody's place or variables change, nobody moves money.           *)
LEMMA NobodyQuiet ==
    ASSUME UNCHANGED <<accounts, vault, booked, lost, surplus, pos, at, loc, file>>
    PROVE  Alone(Com) /\ Quiet(Com)
<1>1. Com \notin Halfway /\ Com \notin Halfway'
  BY Threads DEF Halfway
<1> QED
  BY <1>1 DEF Alone, Quiet

(* The steps that move money.                                              *)
Moving(t) ==
    \/ t \in ATM /\ (Insert(t) \/ Erase(t) \/ AddWrite(t))
    \/ TakeWrite(t)
    \/ t = Com /\ Credit

(* Every step is one thread's own affair, and most move no money.          *)
LEMMA QuietOrMoving ==
    ASSUME Base, Settled, [Next]_vars
    PROVE  \E t \in Thread : Alone(t) /\ (Quiet(t) \/ Moving(t))
<1>1. Com \in Thread /\ Prt \in Thread
  BY Threads
<1>2. CASE UNCHANGED vars
  BY <1>1, <1>2, NobodyQuiet DEF vars
<1>3. ASSUME NEW t \in Thread, ThreadStep(t), file' = file
      PROVE  Alone(t) /\ (Quiet(t) \/ Moving(t))
  <2>1. Alone(t)
    BY <1>3, StepAlone
  <2>2. CASE Lock(t) \/ Leave(t) \/ TakeTest(t) \/ TakeRead(t)
    BY <2>1, <2>2, CallsQuiet, TakeTestQuiet, ReadQuiet
  <2>3. CASE TakeWrite(t)
    BY <2>1, <2>3 DEF Moving
  <2>4. CASE t \in ATM /\ ATMStep(t)
    BY <2>1, <2>4, CallsQuiet, ReadQuiet, ATMQuiet DEF ATMStep, Moving
  <2>5. CASE t = Com /\ ComStep
    BY <2>1, <2>5, ComQuiet DEF ComStep, Moving
  <2>6. CASE t = Prt /\ PrtStep
    BY <2>1, <2>6, PrtQuiet
  <2> QED
    BY <1>3, <2>2, <2>3, <2>4, <2>5, <2>6 DEF ThreadStep
<1>4. CASE CreateThread /\ file' = file
  <2>1. PICK t \in Thread, p \in {"start", "idle"} : at[t] = "new" /\ Goto(t, p)
    BY <1>4 DEF CreateThread
  <2>2. at'[t] = p /\ \A u \in Thread \ {t} : at'[u] = at[u]
    BY <2>1, ShapeIs DEF Goto, Shape
  <2>3. UNCHANGED <<accounts, vault, booked, lost, surplus, pos, loc>>
    BY <1>4 DEF CreateThread, history, io
  <2>4. Alone(t)
    BY <1>4, <2>2, <2>3 DEF Alone
  <2>5. Quiet(t)
    BY <2>1, <2>2, <2>3, <2>4, IsQuiet DEF Adding
  <2> QED
    BY <2>4, <2>5
<1>5. CASE (JoinATMs \/ JoinBank \/ CreateFails) /\ file' = file
  BY <1>1, <1>5, NobodyQuiet DEF JoinATMs, JoinBank, CreateFails, history, io
<1>6. CASE PrintHangs /\ file' = file
  <2>1. Alone(Prt)
    BY <1>6, Threads, ShapeIs DEF PrintHangs, Goto, Alone, shared, history, io, Shape
  <2> QED
    BY <1>1, <1>6, <2>1, PrtQuiet
<1> QED
  BY <1>2, <1>3, <1>4, <1>5, <1>6 DEF Next, Running, MainStep

(* MoneyConserved is inductive relative to Base and Settled.               *)
LEMMA NextMoney == Base /\ Settled /\ MoneyConserved /\ [Next]_vars => MoneyConserved'
<1> SUFFICES ASSUME Base, Settled, MoneyConserved, [Next]_vars PROVE MoneyConserved'
  OBVIOUS
<1>1. Base' /\ TypeOK /\ TypeOK'
  BY NextBase DEF Base
<1>2. PICK t \in Thread : Alone(t) /\ (Quiet(t) \/ Moving(t))
  BY QuietOrMoving
<1> QED
  BY <1>1, <1>2, QuietMoney, InsertMoney, EraseMoney, TakeMoney, AddMoney, CreditMoney
  DEF Moving

(* Settled is inductive relative to Base.                                  *)
LEMMA NextSettled == Base /\ Settled /\ [Next]_vars => Settled'
<1> SUFFICES ASSUME Base, Settled, [Next]_vars PROVE Settled'
  OBVIOUS
<1>1. Com \in Thread /\ TypeOK
  BY Threads DEF Base
<1>2. CASE at'[Com] = at[Com] /\ loc'[Com] = loc[Com]
  BY <1>2 DEF Settled
<1>3. ASSUME ThreadStep(Com), file' = file PROVE Settled'
  <2>1. CASE Lock(Com) \/ TakeTest(Com) \/ TakeRead(Com) \/ TakeWrite(Com)
    <3>1. \E p \in {"fee", "take_read", "leave", "take_write"} : Goto(Com, p)
      BY <2>1, Threads DEF Lock, TakeTest, TakeRead, TakeWrite
    <3> QED
      BY <1>1, <3>1, ShapeIs DEF Goto, Settled, Shape
  <2>2. CASE Leave(Com)
    <3>1. Goto(Com, "credit")
      BY <2>2, Threads DEF Leave
    <3> QED
      BY <1>1, <3>1, ShapeIs DEF Goto, Settled, Shape
  <2>3. CASE ComStop \/ ComBegin \/ Fee
    <3>1. \E p \in {"done", "lock", "take_test", "leave"} : Goto(Com, p)
      BY <2>3 DEF ComStop, ComBegin, Fee
    <3> QED
      BY <1>1, <3>1, ShapeIs DEF Goto, Settled, Shape
  <2>4. CASE Credit
    BY <1>1, <2>4, FreshIs, ShapeIs DEF Credit, Settled, Shape
  <2> QED
    BY <1>3, <2>1, <2>2, <2>3, <2>4, Threads DEF ThreadStep, ComStep
<1>4. ASSUME NEW t \in Thread, ThreadStep(t), file' = file
      PROVE  Settled'
  <2>1. CASE t # Com
    BY <1>1, <1>2, <1>4, <2>1, StepAlone DEF Alone
  <2> QED
    BY <1>3, <1>4, <2>1
<1>5. CASE CreateThread
  <2>1. PICK t \in Thread, p \in {"start", "idle"} : at[t] = "new" /\ Goto(t, p)
    BY <1>5 DEF CreateThread
  <2>2. loc' = loc
    BY <1>5 DEF CreateThread
  <2> QED
    BY <1>1, <2>1, <2>2, ShapeIs DEF Goto, Settled, Shape
<1>6. CASE UNCHANGED vars \/ JoinATMs \/ JoinBank \/ CreateFails
  BY <1>2, <1>6 DEF vars, JoinATMs, JoinBank, CreateFails
<1>7. CASE PrintHangs
  BY <1>1, <1>2, <1>7, Threads, ShapeIs DEF PrintHangs, Goto, Shape
<1> QED
  BY <1>4, <1>5, <1>6, <1>7 DEF Next, Running, MainStep

LEMMA InitMoney == Init => Settled /\ MoneyConserved
<1> SUFFICES ASSUME Init PROVE Settled /\ MoneyConserved
  OBVIOUS
<1>1. loc[Com].tot = 0 /\ vault = 0 /\ booked = 0
  BY Threads, FreshIs DEF Init
<1>2. DOMAIN accounts = {} /\ Halfway = {}
  <2>1. accounts = <<>>
    BY DEF Init
  <2> QED
    BY <2>1, Threads DEF Init, Halfway
<1>3. SumFunction(Balances) = 0
  BY <1>2, SumOfNone DEF SumFunction, Balances
<1>4. SumFunction(Held) = 0
  BY <1>2, SumOfNone DEF SumFunction, Held
<1> QED
  BY <1>1, <1>3, <1>4, MoneyIs DEF Settled, MoneyConserved

(* Unless a balance is written from a stale or cut-off reading, a round of *)
(* commissions is dropped or a failing OpenAccount has broken the lock,    *)
(* the accounts, the transfers halfway, the commission under way and the   *)
(* bank's own account hold what the ATMs brought in, to the last unit.     *)
THEOREM MoneyIsKept == Spec => []MoneyConserved
<1>1. Init => Base /\ Settled /\ MoneyConserved
  BY InitBase, InitMoney
<1>2. Base /\ Settled /\ MoneyConserved /\ [Next]_vars
        => Base' /\ Settled' /\ MoneyConserved'
  BY NextBase, NextSettled, NextMoney
<1> QED
  BY <1>1, <1>2, PTL DEF Spec
=============================================================================
