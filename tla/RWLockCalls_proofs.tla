------------------------- MODULE RWLockCalls_proofs -------------------------
(***************************************************************************)
(* Proofs about the lock's calls, for every finite set of threads: the     *)
(* accounting of readers and writers is an invariant, and the calls        *)
(* implement the promise of RWLockSpec.                                    *)
(***************************************************************************)
EXTENDS RWLockCalls, FiniteSetTheorems, TLAPS

(* A thread that changes mode joins or leaves the readers and the writers. *)
LEMMA ModeMove ==
    ASSUME TypeOK, NEW t \in Thread, NEW m \in {"out", "reading", "writing"},
           mode' = [mode EXCEPT ![t] = m]
    PROVE  /\ mode' \in [Thread -> {"out", "reading", "writing"}]
           /\ Readers' = IF m = "reading"
                          THEN Readers \cup {t} ELSE Readers \ {t}
           /\ Writers' = IF m = "writing"
                          THEN Writers \cup {t} ELSE Writers \ {t}
  BY DEF TypeOK, Readers, Writers

LEMMA ReadersOne ==
    ASSUME NEW t
    PROVE  /\ Cardinality(Readers) \in Nat
           /\ t \notin Readers =>
                Cardinality(Readers \cup {t}) = Cardinality(Readers) + 1
           /\ t \in Readers =>
                Cardinality(Readers \ {t}) = Cardinality(Readers) - 1
           /\ t \in Readers => (Cardinality(Readers) = 1 <=> Readers = {t})
           /\ Cardinality(Readers) = 0 <=> Readers = {}
<1>1. IsFiniteSet(Readers) /\ IsFiniteSet(Readers \ {t})
  <2>1. Readers \subseteq Thread
    BY DEF Readers
  <2> QED
    BY <2>1, ThreadAssumption, FS_Subset
<1>2. Cardinality(Readers) \in Nat /\ (Cardinality(Readers) = 0 <=> Readers = {})
  BY <1>1, FS_CardinalityType, FS_EmptySet
<1>3. t \notin Readers => Cardinality(Readers \cup {t}) = Cardinality(Readers) + 1
  BY <1>1, FS_AddElement
<1>4. t \in Readers => Cardinality(Readers \ {t}) = Cardinality(Readers) - 1
  BY <1>1, FS_RemoveElement
<1>5. Cardinality(Readers \ {t}) = 0 <=> Readers \ {t} = {}
  BY <1>1, FS_EmptySet
<1> QED
  BY <1>2, <1>3, <1>4, <1>5

LEMMA InitInv == Init => Inv
<1> SUFFICES ASSUME Init PROVE Inv
  OBVIOUS
<1>1. Readers = {} /\ Writers = {}
  BY DEF Init, Readers, Writers
<1>2. Cardinality(Readers) = 0
  BY <1>1, FS_EmptySet
<1> QED
  BY <1>1, <1>2 DEF Init, Inv, TypeOK, Accounting, MinToReader

(* The inductive step, one step per call.  The accounting says who may be  *)
(* inside, so each call also finds the lock as it needs it.                *)
LEMMA NextInv == Inv /\ [Next]_vars => Inv'
<1> SUFFICES ASSUME Inv, [Next]_vars PROVE Inv'
  OBVIOUS
<1> USE DEF MinToReader, MaxToWrite
<1>0. TypeOK
  BY DEF Inv
<1>1. ASSUME NEW t \in Thread, mode[t] = "out", DownReadAction(t) PROVE Inv'
  <2>1. Readers' = Readers \cup {t} /\ Writers' = Writers \ {t}
    BY <1>0, <1>1, ModeMove DEF DownReadAction
  <2>2. t \notin Readers /\ t \notin Writers
    BY <1>1 DEF Readers, Writers
  <2>3. Cardinality(Readers') = Cardinality(Readers) + 1
    BY <2>1, <2>2, ReadersOne
  <2>4. Accounting'
    BY <1>0, <1>1, <2>1, <2>2, <2>3, ReadersOne
    DEF Inv, TypeOK, Accounting, DownReadAction
  <2>5. TypeOK'
    BY <1>0, <1>1, <2>4, ModeMove DEF TypeOK, Accounting, DownReadAction
  <2> QED
    BY <2>4, <2>5 DEF Inv
<1>2. ASSUME NEW t \in Thread, mode[t] = "reading", UpReadAction(t) PROVE Inv'
  <2>1. Readers' = Readers \ {t} /\ Writers' = Writers \ {t}
    BY <1>0, <1>2, ModeMove DEF UpReadAction
  <2>2. t \in Readers /\ t \notin Writers
    BY <1>2 DEF Readers, Writers
  <2>3. Cardinality(Readers') = Cardinality(Readers) - 1
    BY <2>1, <2>2, ReadersOne
  <2>4. Accounting'
    BY <1>0, <1>2, <2>1, <2>2, <2>3, ReadersOne
    DEF Inv, TypeOK, Accounting, UpReadAction
  <2>5. rcount \in Nat /\ rcount' \in Nat
    <3>1. rcount # 0
      BY <2>2, ReadersOne DEF Inv, Accounting
    <3> QED
      BY <1>2, <3>1 DEF Inv, TypeOK, UpReadAction
  <2>6. TypeOK'
    BY <1>0, <1>2, <2>4, <2>5, ModeMove
    DEF TypeOK, Accounting, UpReadAction
  <2> QED
    BY <2>4, <2>6 DEF Inv
<1>3. ASSUME NEW t \in Thread, mode[t] = "out", DownWriteAction(t) PROVE Inv'
  <2>1. Readers' = Readers \ {t} /\ Writers' = Writers \cup {t}
    BY <1>0, <1>3, ModeMove DEF DownWriteAction
  <2>2. t \notin Readers /\ Readers' = Readers /\ Readers \cup Writers = {}
    BY <1>3, <2>1 DEF Readers, Inv, TypeOK, Accounting, DownWriteAction
  <2>3. Accounting'
    BY <1>3, <2>1, <2>2 DEF Inv, TypeOK, Accounting, DownWriteAction
  <2>4. TypeOK'
    BY <1>0, <1>3, <2>3, ModeMove DEF TypeOK, Accounting, DownWriteAction
  <2> QED
    BY <2>3, <2>4 DEF Inv
<1>4. ASSUME NEW t \in Thread, mode[t] = "writing", UpWriteAction(t) PROVE Inv'
  <2>1. Readers' = Readers \ {t} /\ Writers' = Writers \ {t}
    BY <1>0, <1>4, ModeMove DEF UpWriteAction
  <2>2. t \in Writers /\ Readers = {} /\ Readers' = Readers /\ Writers' = {}
    BY <1>4, <2>1 DEF Writers, Inv, Accounting
  <2>3. Accounting'
    BY <1>4, <2>2 DEF Inv, TypeOK, Accounting, UpWriteAction
  <2>4. TypeOK'
    BY <1>0, <1>4, <2>3, ModeMove DEF TypeOK, Accounting, UpWriteAction
  <2> QED
    BY <2>3, <2>4 DEF Inv
<1>5. CASE UNCHANGED vars
  BY <1>5 DEF Inv, TypeOK, Accounting, Readers, Writers, vars
<1> QED
  BY <1>1, <1>2, <1>3, <1>4, <1>5 DEF Next

(* For callers that give back what they took, rcount always counts the     *)
(* readers inside and wrt_lock is down exactly once while anybody is.      *)
THEOREM CallsInvariant == Spec => []Inv
<1>1. Init => Inv
  BY InitInv
<1>2. Inv /\ [Next]_vars => Inv'
  BY NextInv
<1> QED
  BY <1>1, <1>2, PTL DEF Spec

-----------------------------------------------------------------------------

LEMMA InitAbstract == Init => Abstract!Init
  BY DEF Init, Abstract!Init

LEMMA NextAbstract == Inv /\ [Next]_vars => [Abstract!Next]_mode
<1> SUFFICES ASSUME Inv, [Next]_vars PROVE [Abstract!Next]_mode
  OBVIOUS
<1> USE DEF MinToReader, MaxToWrite
<1>1. ASSUME NEW t \in Thread, mode[t] = "out", DownReadAction(t)
      PROVE  Abstract!EnterRead(t)
  <2>1. Writers = {}
    <3>1. CASE Readers = {}
      <4>1. rcount = 0
        BY <3>1, FS_EmptySet DEF Inv, Accounting
      <4> QED
        BY <1>1, <4>1 DEF Inv, Accounting, DownReadAction
    <3>2. CASE Readers # {}
      BY <3>2 DEF Inv, Accounting
    <3> QED
      BY <3>1, <3>2
  <2> QED
    BY <1>1, <2>1 DEF Writers, DownReadAction, Abstract!EnterRead
<1>2. ASSUME NEW t \in Thread, mode[t] = "reading", UpReadAction(t)
      PROVE  Abstract!Exit(t)
  BY <1>2 DEF UpReadAction, Abstract!Exit
<1>3. ASSUME NEW t \in Thread, mode[t] = "out", DownWriteAction(t)
      PROVE  Abstract!EnterWrite(t)
  <2>1. Readers = {} /\ Writers = {}
    BY <1>3 DEF Inv, TypeOK, Accounting, DownWriteAction
  <2>2. \A u \in Thread : mode[u] = "out"
    BY <2>1 DEF Inv, TypeOK, Readers, Writers
  <2> QED
    BY <1>3, <2>2 DEF DownWriteAction, Abstract!EnterWrite
<1>4. ASSUME NEW t \in Thread, mode[t] = "writing", UpWriteAction(t)
      PROVE  Abstract!Exit(t)
  BY <1>4 DEF UpWriteAction, Abstract!Exit
<1>5. CASE UNCHANGED vars
  BY <1>5 DEF vars
<1> QED
  BY <1>1, <1>2, <1>3, <1>4, <1>5 DEF Next, Abstract!Next

(* The four calls of the lock, used by well-behaved threads, give many     *)
(* readers or one writer.                                                  *)
THEOREM CallsImplementSpec == Spec => AbstractSpec
<1>1. Init => Abstract!Init
  BY InitAbstract
<1>2. Inv /\ [Next]_vars => [Abstract!Next]_mode
  BY NextAbstract
<1> QED
  BY <1>1, <1>2, CallsInvariant, PTL DEF Spec, AbstractSpec, Abstract!Spec
=============================================================================
