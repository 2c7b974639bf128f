--------------------------- MODULE RWLock_proofs ----------------------------
(***************************************************************************)
(* Proofs about the readers-writer lock, for every finite set of threads:  *)
(* the inductive invariant of RWLock.tla, its mutual exclusion, and that   *)
(* its semaphore steps implement the atomic calls of RWLockCalls.tla.      *)
(***************************************************************************)
EXTENDS RWLock, FiniteSetTheorems, TLAPS

(* Any set of threads standing somewhere is finite, and has no more        *)
(* members than there are threads.                                         *)
LEMMA InFinite ==
    ASSUME NEW S
    PROVE  /\ IsFiniteSet(In(S))
           /\ Cardinality(In(S)) \in 0 .. Cardinality(Thread)
<1>1. In(S) \subseteq Thread
  BY DEF In
<1> QED
  BY <1>1, ThreadAssumption, FS_Subset, FS_CardinalityType

(* A thread that moves is at its new place, and the others where they were. *)
LEMMA Move ==
    ASSUME TypeOK, NEW t \in Thread, NEW p \in Places, Goto(t, p)
    PROVE  /\ at' \in [Thread -> Places]
           /\ \A u \in Thread : at'[u] = IF u = t THEN p ELSE at[u]
  BY DEF TypeOK, Goto

(* Counting one more or one fewer thread. *)
LEMMA CountOne ==
    ASSUME NEW S, NEW t
    PROVE  /\ t \notin In(S) =>
                Cardinality(In(S) \cup {t}) = Cardinality(In(S)) + 1
           /\ t \in In(S) =>
                Cardinality(In(S) \ {t}) = Cardinality(In(S)) - 1
  BY InFinite, FS_AddElement, FS_RemoveElement

LEMMA InitIInv == Init => IInv
<1> SUFFICES ASSUME Init PROVE IInv
  OBVIOUS
<1>1. \A S : "out" \notin S => In(S) = {}
  BY DEF Init, In
<1>2. InRead = {} /\ InWrite = {} /\ Inner = {} /\ Counted = {}
  BY <1>1 DEF InRead, InWrite, Inner, Counted
<1>3. Cardinality(Counted) = 0 /\ Cardinality(Thread) \in Nat
  BY <1>2, FS_EmptySet, FS_CardinalityType, ThreadAssumption
<1>4. TypeOK
  BY <1>3 DEF TypeOK, Init, Places, MinToReader
<1> QED
  BY <1>2, <1>3, <1>4 DEF IInv, Init, Bookkeeping, OneInner, CountExact,
                            GateExact, MutualExclusion, MinToReader

-----------------------------------------------------------------------------
(* What the step of one thread does to the four sets of the bookkeeping.   *)

LEMMA SetsMove ==
    ASSUME TypeOK, NEW t \in Thread, NEW p \in Places, Goto(t, p)
    PROVE  /\ InRead'  = IF p \in {"down_post", "reading", "up_count"}
                           THEN InRead \cup {t} ELSE InRead \ {t}
           /\ InWrite' = IF p = "writing"
                           THEN InWrite \cup {t} ELSE InWrite \ {t}
           /\ Inner'   = IF p \in {"down_count", "down_post",
                                    "up_count", "up_post"}
                           THEN Inner \cup {t} ELSE Inner \ {t}
           /\ Counted' = IF p \in {"down_count", "down_post", "reading"}
                           THEN Counted \cup {t} ELSE Counted \ {t}
<1> USE Move
<1>1. InRead' = IF p \in {"down_post", "reading", "up_count"}
                 THEN InRead \cup {t} ELSE InRead \ {t}
  BY DEF InRead, In
<1>2. InWrite' = IF p = "writing" THEN InWrite \cup {t} ELSE InWrite \ {t}
  BY DEF InWrite, In
<1>3. Inner' = IF p \in {"down_count", "down_post", "up_count", "up_post"}
                THEN Inner \cup {t} ELSE Inner \ {t}
  BY DEF Inner, In
<1>4. Counted' = IF p \in {"down_count", "down_post", "reading"}
                  THEN Counted \cup {t} ELSE Counted \ {t}
  BY DEF Counted, In
<1> QED
  BY <1>1, <1>2, <1>3, <1>4

LEMMA CountedOne ==
    ASSUME NEW t
    PROVE  /\ Cardinality(Counted) \in 0 .. Cardinality(Thread)
           /\ Cardinality(Thread) \in Nat
           /\ t \notin Counted =>
                Cardinality(Counted \cup {t}) = Cardinality(Counted) + 1
           /\ t \in Counted =>
                Cardinality(Counted \ {t}) = Cardinality(Counted) - 1
           /\ Cardinality(Counted) = 0 => Counted = {}
<1>1. IsFiniteSet(Counted) /\ IsFiniteSet(Thread)
  BY InFinite, ThreadAssumption DEF Counted
<1> QED
  BY <1>1, InFinite, CountOne, FS_EmptySet, FS_CardinalityType DEF Counted

(* The type invariant follows from the bookkeeping and the places.         *)
LEMMA TypeNext ==
    ASSUME TypeOK, NEW t \in Thread, NEW p \in Places, Goto(t, p),
           OneInner', CountExact', GateExact'
    PROVE  TypeOK'
<1>1. Cardinality(Counted') \in 0 .. Cardinality(Thread)
  <2>1. Counted' \subseteq Thread
    BY DEF Counted, In
  <2> QED
    BY <2>1, ThreadAssumption, FS_Subset, FS_CardinalityType
<1> QED
  BY <1>1, Move DEF TypeOK, OneInner, CountExact, GateExact

(* Nobody is inside when the thread that counted itself in is the only one *)
(* counted, and when the thread that counted itself out leaves nobody.     *)
LEMMA FirstAndLast ==
    ASSUME IInv, NEW t \in Thread
    PROVE  /\ at[t] = "down_count" =>
                (rcount = MinToReader <=> InRead = {})
           /\ at[t] = "up_count" =>
                (rcount = MaxToWrite <=> InRead = {t})
<1>1. CASE at[t] = "down_count"
  <2>1. InRead = Counted \ {t} /\ t \in Counted
    BY <1>1 DEF IInv, Bookkeeping, OneInner, Inner, InRead, Counted, In
  <2>2. Cardinality(Counted) = 1 <=> Counted \ {t} = {}
    <3>1. IsFiniteSet(Counted \ {t})
      BY InFinite, FS_Subset DEF Counted
    <3>2. Cardinality(Counted \ {t}) = Cardinality(Counted) - 1
      BY <2>1, CountedOne
    <3>3. Cardinality(Counted \ {t}) = 0 <=> Counted \ {t} = {}
      BY <3>1, FS_EmptySet
    <3> QED
      BY <3>2, <3>3, CountedOne
  <2> QED
    BY <1>1, <2>1, <2>2 DEF IInv, Bookkeeping, CountExact, MinToReader
<1>2. CASE at[t] = "up_count"
  <2>1. InRead = Counted \cup {t} /\ t \notin Counted
    BY <1>2 DEF IInv, Bookkeeping, OneInner, Inner, InRead, Counted, In
  <2>2. Cardinality(Counted) = 0 <=> Counted = {}
    BY CountedOne, FS_EmptySet
  <2> QED
    BY <1>2, <2>1, <2>2 DEF IInv, Bookkeeping, CountExact, MaxToWrite
<1> QED
  BY <1>1, <1>2

(* Where a thread stands tells which of the four sets it belongs to.       *)
LEMMA Membership ==
    ASSUME NEW t \in Thread
    PROVE  /\ t \in InRead  <=> at[t] \in {"down_post", "reading", "up_count"}
           /\ t \in InWrite <=> at[t] = "writing"
           /\ t \in Inner   <=> at[t] \in {"down_count", "down_post",
                                            "up_count", "up_post"}
           /\ t \in Counted <=> at[t] \in {"down_count", "down_post", "reading"}
  BY DEF InRead, InWrite, Inner, Counted, In

(* The inductive step.  One step per semaphore operation; under each, the  *)
(* bookkeeping, mutual exclusion and the types.                            *)
LEMMA NextIInv == IInv /\ [Next]_vars => IInv'
<1> SUFFICES ASSUME IInv, [Next]_vars PROVE IInv'
  OBVIOUS
<1> USE DEF Places
<1>0. TypeOK
  BY DEF IInv
<1>1. ASSUME NEW t \in Thread, DownReadCount(t) PROVE IInv'
  <2>1. Goto(t, "down_count")
    BY <1>1 DEF DownReadCount
  <2>2. OneInner'
    BY <1>0, <1>1, <2>1, SetsMove, Membership
    DEF IInv, Bookkeeping, OneInner, DownReadCount
  <2>3. CountExact'
    BY <1>0, <1>1, <2>1, SetsMove, Membership, CountedOne
    DEF IInv, Bookkeeping, OneInner, CountExact, DownReadCount
  <2>4. GateExact' /\ MutualExclusion'
    BY <1>0, <1>1, <2>1, SetsMove, Membership
    DEF IInv, Bookkeeping, OneInner, GateExact, MutualExclusion, TypeOK, DownReadCount
  <2>5. TypeOK'
    BY <1>0, <2>1, <2>2, <2>3, <2>4, TypeNext
  <2> QED
    BY <2>2, <2>3, <2>4, <2>5 DEF IInv, Bookkeeping
<1>2. ASSUME NEW t \in Thread, DownReadFirst(t) PROVE IInv'
  <2>1. Goto(t, "down_post")
    BY <1>2 DEF DownReadFirst
  <2>2. OneInner'
    BY <1>0, <1>2, <2>1, SetsMove, Membership
    DEF IInv, Bookkeeping, OneInner, DownReadFirst
  <2>3. CountExact'
    <3>1. Counted' = Counted
      BY <1>0, <1>2, <2>1, SetsMove, Membership DEF DownReadFirst
    <3> QED
      BY <1>2, <3>1 DEF IInv, Bookkeeping, CountExact, DownReadFirst
  <2>4. GateExact' /\ MutualExclusion'
    BY <1>0, <1>2, <2>1, SetsMove, Membership, FirstAndLast
    DEF IInv, Bookkeeping, OneInner, GateExact, MutualExclusion, TypeOK, DownReadFirst
  <2>5. TypeOK'
    BY <1>0, <2>1, <2>2, <2>3, <2>4, TypeNext
  <2> QED
    BY <2>2, <2>3, <2>4, <2>5 DEF IInv, Bookkeeping
<1>3. ASSUME NEW t \in Thread, DownReadPost(t) PROVE IInv'
  <2>1. Goto(t, "reading")
    BY <1>3 DEF DownReadPost
  <2>2. OneInner'
    BY <1>0, <1>3, <2>1, SetsMove, Membership
    DEF IInv, Bookkeeping, OneInner, DownReadPost
  <2>3. CountExact'
    <3>1. Counted' = Counted
      BY <1>0, <1>3, <2>1, SetsMove, Membership DEF DownReadPost
    <3> QED
      BY <1>3, <3>1 DEF IInv, Bookkeeping, CountExact, DownReadPost
  <2>4. GateExact' /\ MutualExclusion'
    BY <1>0, <1>3, <2>1, SetsMove, Membership
    DEF IInv, Bookkeeping, OneInner, GateExact, MutualExclusion, TypeOK, DownReadPost
  <2>5. TypeOK'
    BY <1>0, <2>1, <2>2, <2>3, <2>4, TypeNext
  <2> QED
    BY <2>2, <2>3, <2>4, <2>5 DEF IInv, Bookkeeping
<1>4. ASSUME NEW t \in Thread, UpReadCount(t) PROVE IInv'
  <2>1. Goto(t, "up_count")
    BY <1>4 DEF UpReadCount
  <2>2. OneInner'
    BY <1>0, <1>4, <2>1, SetsMove, Membership
    DEF IInv, Bookkeeping, OneInner, UpReadCount
  <2>3. CountExact'
    BY <1>0, <1>4, <2>1, SetsMove, Membership, CountedOne
    DEF IInv, Bookkeeping, OneInner, CountExact, UpReadCount
  <2>4. GateExact' /\ MutualExclusion'
    BY <1>0, <1>4, <2>1, SetsMove, Membership
    DEF IInv, Bookkeeping, OneInner, GateExact, MutualExclusion, TypeOK, UpReadCount
  <2>5. TypeOK'
    BY <1>0, <2>1, <2>2, <2>3, <2>4, TypeNext
  <2> QED
    BY <2>2, <2>3, <2>4, <2>5 DEF IInv, Bookkeeping
<1>5. ASSUME NEW t \in Thread, UpReadLast(t) PROVE IInv'
  <2>1. Goto(t, "up_post")
    BY <1>5 DEF UpReadLast
  <2>2. OneInner'
    BY <1>0, <1>5, <2>1, SetsMove, Membership
    DEF IInv, Bookkeeping, OneInner, UpReadLast
  <2>3. CountExact'
    <3>1. Counted' = Counted
      BY <1>0, <1>5, <2>1, SetsMove, Membership DEF UpReadLast
    <3> QED
      BY <1>5, <3>1 DEF IInv, Bookkeeping, CountExact, UpReadLast
  <2>4. GateExact' /\ MutualExclusion'
    BY <1>0, <1>5, <2>1, SetsMove, Membership, FirstAndLast
    DEF IInv, Bookkeeping, OneInner, GateExact, MutualExclusion, TypeOK, UpReadLast
  <2>5. TypeOK'
    BY <1>0, <2>1, <2>2, <2>3, <2>4, TypeNext
  <2> QED
    BY <2>2, <2>3, <2>4, <2>5 DEF IInv, Bookkeeping
<1>6. ASSUME NEW t \in Thread, UpReadPost(t) PROVE IInv'
  <2>1. Goto(t, "out")
    BY <1>6 DEF UpReadPost
  <2>2. OneInner'
    BY <1>0, <1>6, <2>1, SetsMove, Membership
    DEF IInv, Bookkeeping, OneInner, UpReadPost
  <2>3. CountExact'
    <3>1. Counted' = Counted
      BY <1>0, <1>6, <2>1, SetsMove, Membership DEF UpReadPost
    <3> QED
      BY <1>6, <3>1 DEF IInv, Bookkeeping, CountExact, UpReadPost
  <2>4. GateExact' /\ MutualExclusion'
    BY <1>0, <1>6, <2>1, SetsMove, Membership
    DEF IInv, Bookkeeping, OneInner, GateExact, MutualExclusion, TypeOK, UpReadPost
  <2>5. TypeOK'
    BY <1>0, <2>1, <2>2, <2>3, <2>4, TypeNext
  <2> QED
    BY <2>2, <2>3, <2>4, <2>5 DEF IInv, Bookkeeping
<1>7. ASSUME NEW t \in Thread, DownWrite(t) PROVE IInv'
  <2>1. Goto(t, "writing")
    BY <1>7 DEF DownWrite
  <2>2. OneInner'
    BY <1>0, <1>7, <2>1, SetsMove, Membership
    DEF IInv, Bookkeeping, OneInner, DownWrite
  <2>3. CountExact'
    <3>1. Counted' = Counted
      BY <1>0, <1>7, <2>1, SetsMove, Membership DEF DownWrite
    <3> QED
      BY <1>7, <3>1 DEF IInv, Bookkeeping, CountExact, DownWrite
  <2>4. GateExact' /\ MutualExclusion'
    BY <1>0, <1>7, <2>1, SetsMove, Membership
    DEF IInv, Bookkeeping, OneInner, GateExact, MutualExclusion, TypeOK, DownWrite
  <2>5. TypeOK'
    BY <1>0, <2>1, <2>2, <2>3, <2>4, TypeNext
  <2> QED
    BY <2>2, <2>3, <2>4, <2>5 DEF IInv, Bookkeeping
<1>8. ASSUME NEW t \in Thread, UpWrite(t) PROVE IInv'
  <2>1. Goto(t, "out")
    BY <1>8 DEF UpWrite
  <2>2. OneInner'
    BY <1>0, <1>8, <2>1, SetsMove, Membership
    DEF IInv, Bookkeeping, OneInner, UpWrite
  <2>3. CountExact'
    <3>1. Counted' = Counted
      BY <1>0, <1>8, <2>1, SetsMove, Membership DEF UpWrite
    <3> QED
      BY <1>8, <3>1 DEF IInv, Bookkeeping, CountExact, UpWrite
  <2>4. GateExact' /\ MutualExclusion'
    BY <1>0, <1>8, <2>1, SetsMove, Membership
    DEF IInv, Bookkeeping, OneInner, GateExact, MutualExclusion, TypeOK, UpWrite
  <2>5. TypeOK'
    BY <1>0, <2>1, <2>2, <2>3, <2>4, TypeNext
  <2> QED
    BY <2>2, <2>3, <2>4, <2>5 DEF IInv, Bookkeeping
<1>9. ASSUME NEW t \in Thread, AskRead(t) PROVE IInv'
  <2>1. Goto(t, "ask_read")
    BY <1>9 DEF AskRead
  <2>2. InRead' = InRead /\ InWrite' = InWrite /\ Inner' = Inner /\ Counted' = Counted
    BY <1>0, <1>9, <2>1, SetsMove, Membership DEF AskRead
  <2>3. OneInner' /\ CountExact' /\ GateExact' /\ MutualExclusion'
    BY <1>9, <2>2
    DEF IInv, Bookkeeping, OneInner, CountExact, GateExact, MutualExclusion, AskRead
  <2>4. TypeOK'
    BY <1>0, <2>1, <2>3, TypeNext
  <2> QED
    BY <2>3, <2>4 DEF IInv, Bookkeeping
<1>10. ASSUME NEW t \in Thread, AskWrite(t) PROVE IInv'
  <2>1. Goto(t, "ask_write")
    BY <1>10 DEF AskWrite
  <2>2. InRead' = InRead /\ InWrite' = InWrite /\ Inner' = Inner /\ Counted' = Counted
    BY <1>0, <1>10, <2>1, SetsMove, Membership DEF AskWrite
  <2>3. OneInner' /\ CountExact' /\ GateExact' /\ MutualExclusion'
    BY <1>10, <2>2
    DEF IInv, Bookkeeping, OneInner, CountExact, GateExact, MutualExclusion, AskWrite
  <2>4. TypeOK'
    BY <1>0, <2>1, <2>3, TypeNext
  <2> QED
    BY <2>3, <2>4 DEF IInv, Bookkeeping
<1>11. CASE UNCHANGED vars
  BY <1>11 DEF IInv, TypeOK, Bookkeeping, OneInner, CountExact, GateExact,
              MutualExclusion, Inner, Counted,
              InRead, InWrite, In, vars
<1> QED
  BY <1>1, <1>2, <1>3, <1>4, <1>5, <1>6, <1>7, <1>8, <1>9,
     <1>10, <1>11 DEF Next, Step

(* In every behaviour of the lock, for every finite set of threads, the    *)
(* two semaphores and rcount agree with where the threads stand.           *)
THEOREM LockInvariant == Spec => []IInv
<1>1. Init => IInv
  BY InitIInv
<1>2. IInv /\ [Next]_vars => IInv'
  BY NextIInv
<1> QED
  BY <1>1, <1>2, PTL DEF Spec

(* No thread reads the account list, or a balance, while another writes it,*)
(* and no two threads write it.                                            *)
THEOREM LockExcludes == Spec => []MutualExclusion
<1>1. IInv => MutualExclusion
  BY DEF IInv
<1> QED
  BY <1>1, LockInvariant, PTL

-----------------------------------------------------------------------------
(* The semaphore steps implement the atomic calls of RWLockCalls.          *)

(* What a call sees of a step: which thread is now in which mode.          *)
LEMMA ModeMove ==
    ASSUME IInv, NEW t \in Thread, NEW p \in Places, Goto(t, p)
    PROVE  Mode' = [Mode EXCEPT ![t] =
                        IF p \in {"down_post", "reading", "up_count"}
                          THEN "reading"
                          ELSE IF p = "writing" THEN "writing" ELSE "out"]
  BY SetsMove DEF IInv, Mode, InRead, InWrite, In

LEMMA ModeNow ==
    ASSUME NEW t \in Thread
    PROVE  /\ Mode[t] = IF at[t] \in {"down_post", "reading", "up_count"}
                          THEN "reading"
                          ELSE IF at[t] = "writing" THEN "writing" ELSE "out"
           /\ [Mode EXCEPT ![t] = Mode[t]] = Mode
  BY DEF Mode, InRead, InWrite, In

(* A step that leaves the modes and wrt_lock alone is invisible.           *)
LEMMA Invisible ==
    ASSUME InRead' = InRead, Mode' = Mode, wrt_lock' = wrt_lock
    PROVE  UNCHANGED Calls!vars
  BY DEF Calls!vars

LEMMA ReadersOne ==
    ASSUME NEW t
    PROVE  /\ Cardinality(InRead) \in Nat
           /\ t \notin InRead =>
                Cardinality(InRead \cup {t}) = Cardinality(InRead) + 1
           /\ t \in InRead =>
                Cardinality(InRead \ {t}) = Cardinality(InRead) - 1
           /\ Cardinality(InRead) = 0 <=> InRead = {}
<1>1. IsFiniteSet(InRead)
  BY InFinite DEF InRead
<1> QED
  BY <1>1, InFinite, CountOne, FS_EmptySet, FS_CardinalityType DEF InRead

LEMMA InitCalls == Init => Calls!Init
<1> SUFFICES ASSUME Init PROVE Calls!Init
  OBVIOUS
<1>1. InRead = {} /\ InWrite = {}
  BY DEF Init, InRead, InWrite, In
<1>2. Cardinality(InRead) = 0
  BY <1>1, FS_EmptySet
<1>3. Mode = [t \in Thread |-> "out"]
  BY <1>1 DEF Mode
<1> QED
  BY <1>2, <1>3 DEF Init, Calls!Init, MinToReader, Calls!MinToReader

LEMMA NextCalls == IInv /\ [Next]_vars => [Calls!Next]_(Calls!vars)
<1> SUFFICES ASSUME IInv, [Next]_vars PROVE [Calls!Next]_(Calls!vars)
  OBVIOUS
<1> USE DEF Places
<1>0. TypeOK
  BY DEF IInv
<1>1. ASSUME NEW t \in Thread, DownReadCount(t) PROVE UNCHANGED Calls!vars
  <2>1. Goto(t, "down_count")
    BY <1>1 DEF DownReadCount
  <2>2. InRead' = InRead
    <3>1. InRead' = InRead \ {t} /\ t \notin InRead
      BY <1>0, <1>1, <2>1, SetsMove, Membership DEF DownReadCount
    <3> QED
      BY <3>1
  <2>3. Mode' = Mode
    BY <1>1, <2>1, ModeMove, ModeNow DEF DownReadCount
  <2> QED
    BY <1>1, <2>2, <2>3, Invisible DEF DownReadCount
<1>2. ASSUME NEW t \in Thread, DownReadPost(t) PROVE UNCHANGED Calls!vars
  <2>1. Goto(t, "reading")
    BY <1>2 DEF DownReadPost
  <2>2. InRead' = InRead
    BY <1>0, <1>2, <2>1, SetsMove, Membership DEF DownReadPost
  <2>3. Mode' = Mode
    BY <1>2, <2>1, ModeMove, ModeNow DEF DownReadPost
  <2> QED
    BY <1>2, <2>2, <2>3, Invisible DEF DownReadPost
<1>3. ASSUME NEW t \in Thread, UpReadCount(t) PROVE UNCHANGED Calls!vars
  <2>1. Goto(t, "up_count")
    BY <1>3 DEF UpReadCount
  <2>2. InRead' = InRead
    <3>1. InRead' = InRead \cup {t} /\ t \in InRead
      BY <1>0, <1>3, <2>1, SetsMove, Membership DEF UpReadCount
    <3> QED
      BY <3>1
  <2>3. Mode' = Mode
    BY <1>3, <2>1, ModeMove, ModeNow DEF UpReadCount
  <2> QED
    BY <1>3, <2>2, <2>3, Invisible DEF UpReadCount
<1>4. ASSUME NEW t \in Thread, UpReadPost(t) PROVE UNCHANGED Calls!vars
  <2>1. Goto(t, "out")
    BY <1>4 DEF UpReadPost
  <2>2. InRead' = InRead
    BY <1>0, <1>4, <2>1, SetsMove, Membership DEF UpReadPost
  <2>3. Mode' = Mode
    BY <1>4, <2>1, ModeMove, ModeNow DEF UpReadPost
  <2> QED
    BY <1>4, <2>2, <2>3, Invisible DEF UpReadPost
<1>5. ASSUME NEW t \in Thread, DownReadFirst(t) PROVE Calls!Next
  <2>1. Goto(t, "down_post")
    BY <1>5 DEF DownReadFirst
  <2>2. Mode[t] = "out" /\ Mode' = [Mode EXCEPT ![t] = "reading"]
    BY <1>5, <2>1, ModeMove, ModeNow DEF DownReadFirst
  <2>3. Cardinality(InRead') = Cardinality(InRead) + 1
    <3>1. InRead' = InRead \cup {t} /\ t \notin InRead
      BY <1>0, <1>5, <2>1, SetsMove, Membership DEF DownReadFirst
    <3> QED
      BY <3>1, ReadersOne
  <2>4. Cardinality(InRead) = 0 <=> rcount = MinToReader
    BY <1>5, FirstAndLast, ReadersOne DEF DownReadFirst
  <2>5. Cardinality(InRead) \in Nat
    BY ReadersOne
  <2>6. /\ Cardinality(InRead) + 1 = 1 => wrt_lock > 0
        /\ wrt_lock' = IF Cardinality(InRead) + 1 = 1
                         THEN wrt_lock - 1 ELSE wrt_lock
    BY <1>5, <2>4, <2>5 DEF DownReadFirst
  <2>7. Calls!DownReadAction(t)
    BY <2>2, <2>3, <2>6
    DEF Calls!DownReadAction, Calls!MinToReader
  <2> QED
    BY <2>2, <2>7 DEF Calls!Next
<1>6. ASSUME NEW t \in Thread, UpReadLast(t) PROVE Calls!Next
  <2>1. Goto(t, "up_post")
    BY <1>6 DEF UpReadLast
  <2>2. Mode[t] = "reading" /\ Mode' = [Mode EXCEPT ![t] = "out"]
    BY <1>6, <2>1, ModeMove, ModeNow DEF UpReadLast
  <2>3. Cardinality(InRead') = Cardinality(InRead) - 1
    <3>1. InRead' = InRead \ {t} /\ t \in InRead
      BY <1>0, <1>6, <2>1, SetsMove, Membership DEF UpReadLast
    <3> QED
      BY <3>1, ReadersOne
  <2>4. Cardinality(InRead') = 0 <=> rcount = MaxToWrite
    <3>1. Cardinality(InRead) = 1 <=> InRead = {t}
      <4>1. IsFiniteSet(InRead \ {t}) /\ t \in InRead
        BY <1>6, InFinite, FS_Subset, Membership DEF UpReadLast, InRead
      <4>2. Cardinality(InRead \ {t}) = 0 <=> InRead \ {t} = {}
        BY <4>1, FS_EmptySet
      <4> QED
        BY <4>1, <4>2, ReadersOne
    <3> QED
      BY <1>6, <2>3, <3>1, FirstAndLast, ReadersOne DEF UpReadLast
  <2> QED
    BY <1>6, <2>2, <2>3, <2>4, ReadersOne
    DEF UpReadLast, Calls!Next, Calls!UpReadAction, MinToReader, MaxToWrite,
        Calls!MinToReader, Calls!MaxToWrite
<1>7. ASSUME NEW t \in Thread, DownWrite(t) PROVE Calls!Next
  <2>1. Goto(t, "writing")
    BY <1>7 DEF DownWrite
  <2>2. Mode[t] = "out" /\ Mode' = [Mode EXCEPT ![t] = "writing"]
    BY <1>7, <2>1, ModeMove, ModeNow DEF DownWrite
  <2>3. InRead' = InRead
    BY <1>0, <1>7, <2>1, SetsMove, Membership DEF DownWrite
  <2> QED
    BY <1>7, <2>2, <2>3, ReadersOne
    DEF DownWrite, Calls!Next, Calls!DownWriteAction, MinToReader, MaxToWrite,
        Calls!MinToReader, Calls!MaxToWrite
<1>8. ASSUME NEW t \in Thread, UpWrite(t) PROVE Calls!Next
  <2>1. Goto(t, "out")
    BY <1>8 DEF UpWrite
  <2>2. Mode[t] = "writing" /\ Mode' = [Mode EXCEPT ![t] = "out"]
    BY <1>8, <2>1, ModeMove, ModeNow DEF UpWrite
  <2>3. InRead' = InRead
    BY <1>0, <1>8, <2>1, SetsMove, Membership DEF UpWrite
  <2> QED
    BY <1>8, <2>2, <2>3, ReadersOne
    DEF UpWrite, Calls!Next, Calls!UpWriteAction, MinToReader, MaxToWrite,
        Calls!MinToReader, Calls!MaxToWrite
<1>9. ASSUME NEW t \in Thread, AskRead(t) PROVE UNCHANGED Calls!vars
  <2>1. Goto(t, "ask_read")
    BY <1>9 DEF AskRead
  <2>2. InRead' = InRead
    BY <1>0, <1>9, <2>1, SetsMove, Membership DEF AskRead
  <2>3. Mode' = Mode
    BY <1>9, <2>1, ModeMove, ModeNow DEF AskRead
  <2> QED
    BY <1>9, <2>2, <2>3, Invisible DEF AskRead
<1>10. ASSUME NEW t \in Thread, AskWrite(t) PROVE UNCHANGED Calls!vars
  <2>1. Goto(t, "ask_write")
    BY <1>10 DEF AskWrite
  <2>2. InRead' = InRead
    BY <1>0, <1>10, <2>1, SetsMove, Membership DEF AskWrite
  <2>3. Mode' = Mode
    BY <1>10, <2>1, ModeMove, ModeNow DEF AskWrite
  <2> QED
    BY <1>10, <2>2, <2>3, Invisible DEF AskWrite
<1>11. CASE UNCHANGED vars
  BY <1>11 DEF vars, Calls!vars, Mode, InRead, InWrite, In
<1> QED
  BY <1>1, <1>2, <1>3, <1>4, <1>5, <1>6, <1>7, <1>8, <1>9,
     <1>10, <1>11 DEF Next, Step

(* Each call of the lock takes effect at one of its semaphore operations,  *)
(* so a program that uses the lock may treat its calls as atomic.          *)
THEOREM LockImplementsCalls == Spec => CallsSpec
<1>1. Init => Calls!Init
  BY InitCalls
<1>2. IInv /\ [Next]_vars => [Calls!Next]_(Calls!vars)
  BY NextCalls
<1> QED
  BY <1>1, <1>2, LockInvariant, PTL DEF Spec, CallsSpec, Calls!Spec
=============================================================================
