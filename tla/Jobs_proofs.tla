----------------------------- MODULE Jobs_proofs -----------------------------
(***************************************************************************)
(* Proofs about the job control of the shell (Jobs.tla), for any number of *)
(* processes and with any signals under way: the types, the order of the   *)
(* list, and what becomes of the processes on it.                          *)
(***************************************************************************)
EXTENDS Jobs, DataLemmas

Born == {p \in Process : proc[p] # "unborn"}

(* Processes are named in the order in which they are forked, and one that *)
(* is still to come has been sent no signal.                               *)
Counted ==
    /\ Forked \in 0 .. MaxProcess /\ Born = 1 .. Forked
    /\ \A p \in Process : proc[p] = "unborn" => pend[p] = {}

(* So a list in order cannot be longer than there are processes.           *)
Spread == \A i \in DOMAIN jobs : i <= jobs[i].pid /\ jobs[i].pid <= Forked

(* The shell holds a process it has just forked, which is on no list.      *)
Fresh == main.at = "add" \/ (main.at \in {"to_wait", "wait", "waited"} /\ main.cmd = "run")

QuitLoop == {"quit", "term", "slept"}

(* What the shell holds at each place, whatever the handlers did.          *)
Stands ==
    /\ foreground # 0 => foreground \in Born
    /\ main.at \in {"wake", "send", "sent"} => main.cmd \in {"fg", "bg", "kill"} /\ main.pid = 0
    /\ main.at \in {"send", "sent"} =>
         main.arg \in Signals \cup {"CONT"} /\ (main.cmd # "kill" => main.arg = "CONT")
    /\ main.at = "to_wait" /\ main.cmd = "fg" => main.pid = 0
    /\ main.at \in {"to_wait", "wait", "waited"} => main.cmd \in {"run", "fg"}
    /\ Fresh => /\ main.i = 0 /\ main.pid = Forked /\ Forked > 0
                /\ \A j \in DOMAIN jobs : jobs[j].pid < main.pid
    /\ main.at \in {"wait", "waited"} => main.pid \in Born
    /\ main.at = "waited" => main.arg \in Status /\ (main.arg # "stopped" => proc[main.pid] = "gone")
    /\ main.at \in QuitLoop => handler.i = 0 /\ main.cmd = "kill" /\ main.pid = 0
                              /\ main.i \in 1 .. Len(jobs) + 1
    /\ main.at \in {"term", "slept"} => OnList(main.i)
    /\ main.at \in {"exit", "crashed"} => handler.i = 0

(* A job that has ended is one the list does not follow, or a cleaning is  *)
(* still to come to it.                                                    *)
Followed ==
    \A j \in DOMAIN jobs :
       proc[jobs[j].pid] \in Over => jobs[j].pid \in missed \/ sigchld \/ handler.i \in 1 .. j

Doomed(p) == proc[p] \in Alive => "KILL" \in pend[p]

(* The jobs that KillAllJobs has passed are as good as dead.               *)
Passed ==
    main.at \in QuitLoop \/ (main.at = "exit" /\ main.cmd = "kill") =>
      \A j \in DOMAIN jobs : (main.at \in QuitLoop => j < main.i) => Doomed(jobs[j].pid)

(* As long as no handler has come between a command and its position:      *)
(* it holds the position of a job,                                         *)
Position ==
    main.at \in {"wake", "send", "sent"} \/ (main.at \in {"to_wait", "wait", "waited"} /\ main.cmd = "fg") =>
      /\ OnList(main.i)
      /\ main.at = "to_wait" => ~jobs[main.i].stopped
      /\ main.at \in {"wait", "waited"} => jobs[main.i].pid = main.pid
      /\ main.at = "sent" /\ main.arg = "KILL" => Doomed(jobs[main.i].pid)

(* a job that is not marked as stopped runs, unless it reads the terminal, *)
(* it is the one waited for, or the mark is just being set,                *)
Runs(p) == proc[p] \in Alive => proc[p] = "running" /\ "TSTP" \notin pend[p]

Marked ==
    /\ \A j \in DOMAIN jobs :
         jobs[j].pid \notin Reader /\ ~jobs[j].stopped =>
           \/ Runs(jobs[j].pid)
           \/ main.i = j /\ (main.at \in {"wait", "waited"} \/ (main.at = "sent" /\ main.arg = "TSTP"))
    /\ main.at = "sent" /\ main.arg = "CONT" /\ jobs[main.i].pid \notin Reader => Runs(jobs[main.i].pid)
    /\ (main.at = "add" \/ (main.at = "to_wait" /\ main.cmd = "run")) /\ main.pid \notin Reader =>
         Runs(main.pid)

(* and the process in the foreground is the one waited for, or has been.   *)
Foreground ==
    foreground # 0 =>
      /\ main.at = "wait" => foreground = main.pid
      /\ foreground \notin Reader =>
           IF main.at = "wait" THEN Runs(foreground) ELSE proc[foreground] \notin Alive

Always == TypeOK /\ Counted /\ Spread /\ InOrder /\ Stands /\ Followed /\ Passed

(* Then no process that lives is forgotten.                                *)
Kept ==
    \A p \in Process :
       proc[p] \in Alive => p \in Listed \cup {main.pid} \cup dismissed \/ "KILL" \in pend[p]

Undisturbed == Kept /\ Position /\ Marked /\ Foreground

IInv == Always /\ (~overtaken => Undisturbed)
-----------------------------------------------------------------------------
(* Lists *)

Ordered(s) == \A i, j \in DOMAIN s : i < j => s[i].pid < s[j].pid

Bounded(s, n) == \A i \in DOMAIN s : i <= s[i].pid /\ s[i].pid <= n

Job == [pid : Born, stopped : BOOLEAN]

(* Taking off the last element is a removal, too.                          *)
LEMMA FrontRemoves ==
    ASSUME NEW S, NEW s \in Seq(S), s # <<>>
    PROVE  Front(s) = RemoveAt(s, Len(s)) /\ Len(s) \in 1 .. Len(s)
<1>1. Len(s) \in Nat \ {0} /\ \A i \in 1 .. Len(s) : s[i] \in S
  BY EmptySeq, LenProperties, ElementOfSeq
<1>2. SubSeq(s, Len(s) + 1, Len(s)) = <<>>
  BY <1>1, SubSeqEmpty
<1>3. SubSeq(s, 1, Len(s) - 1) \in Seq(S)
  BY <1>1, SubSeqProperties
<1> QED
  BY <1>1, <1>2, <1>3, ConcatEmptySeq DEF Front, RemoveAt

(* The list r is s without its k-th job. *)
Without(s, k, r, n, S) ==
    /\ r \in Seq(S) /\ Ordered(r) /\ Bounded(r, n)
    /\ DOMAIN r = 1 .. Len(s) - 1
    /\ \A j \in DOMAIN r :
         IF j < k THEN r[j] = s[j] /\ j \in DOMAIN s
         ELSE r[j] = s[j + 1] /\ j + 1 \in DOMAIN s
    /\ \A j \in DOMAIN r : \E i \in DOMAIN s : i # k /\ r[j] = s[i]
    /\ \A j \in DOMAIN s : j # k => \E i \in DOMAIN r : r[i] = s[j]
    /\ \A j \in DOMAIN r : r[j].pid # s[k].pid

(* What is removed leaves the order, and nothing else goes.                *)
LEMMA RemovedOrder ==
    ASSUME NEW S, NEW s \in Seq(S), S \subseteq [pid : Nat, stopped : BOOLEAN], NEW n \in Nat,
           NEW k \in DOMAIN s, Ordered(s), Bounded(s, n)
    PROVE  Without(s, k, RemoveAt(s, k), n, S)
<1> DEFINE r == RemoveAt(s, k)
<1>1. /\ Len(s) \in Nat /\ DOMAIN s = 1 .. Len(s)
      /\ \A i \in DOMAIN s : s[i] \in S /\ s[i].pid \in Nat
  <2>1. \A x \in S : x.pid \in Nat
    OBVIOUS
  <2>2. Len(s) \in Nat /\ DOMAIN s = 1 .. Len(s)
    BY LenProperties
  <2>3. \A i \in DOMAIN s : s[i] \in S
    BY <2>2, ElementOfSeq
  <2> QED
    BY <2>1, <2>2, <2>3
<1>2. /\ r \in Seq(S) /\ Len(r) = Len(s) - 1
      /\ \A i \in 1 .. Len(s) - 1 : r[i] = IF i < k THEN s[i] ELSE s[i + 1]
  <2>1. k \in 1 .. Len(s)
    BY <1>1
  <2> QED
    BY <2>1, Removed
<1>3. DOMAIN r = 1 .. Len(s) - 1
  BY <1>2, LenProperties
<1> HIDE DEF r
<1>4. ASSUME NEW j \in DOMAIN r
      PROVE  /\ IF j < k THEN r[j] = s[j] /\ j \in DOMAIN s
                ELSE r[j] = s[j + 1] /\ j + 1 \in DOMAIN s
             /\ \E i \in DOMAIN s : i # k /\ r[j] = s[i]
  <2>1. j \in 1 .. Len(s) - 1 /\ k \in Nat
    BY <1>1, <1>3
  <2>2. r[j] = IF j < k THEN s[j] ELSE s[j + 1]
    BY <1>2, <2>1
  <2>3. j \in DOMAIN s /\ j + 1 \in DOMAIN s /\ (j < k => j # k) /\ (~(j < k) => j + 1 # k)
    BY <1>1, <2>1
  <2> QED
    BY <2>2, <2>3
<1>5. Ordered(r)
  <2> SUFFICES ASSUME NEW i \in DOMAIN r, NEW j \in DOMAIN r, i < j PROVE r[i].pid < r[j].pid
    BY DEF Ordered
  <2> DEFINE u == IF i < k THEN i ELSE i + 1
             v == IF j < k THEN j ELSE j + 1
  <2>1. u \in DOMAIN s /\ v \in DOMAIN s /\ u < v
    <3>1. i \in 1 .. Len(s) - 1 /\ j \in 1 .. Len(s) - 1 /\ k \in 1 .. Len(s)
      BY <1>1, <1>3
    <3>2. u \in 1 .. Len(s) /\ v \in 1 .. Len(s) /\ u < v
      BY <3>1, <1>1, ShiftPast
    <3> QED
      BY <1>1, <3>2
  <2>2. r[i] = s[u] /\ r[j] = s[v]
    BY <1>4
  <2> HIDE DEF u, v
  <2> QED
    BY <2>1, <2>2 DEF Ordered
<1>6. Bounded(r, n)
  <2> SUFFICES ASSUME NEW i \in DOMAIN r PROVE i <= r[i].pid /\ r[i].pid <= n
    BY DEF Bounded
  <2> DEFINE u == IF i < k THEN i ELSE i + 1
  <2>1. u \in DOMAIN s /\ i <= u /\ u \in Nat /\ i \in Nat
    BY <1>1, <1>3
  <2>2. r[i] = s[u]
    BY <1>4
  <2>3. u <= s[u].pid /\ s[u].pid <= n /\ s[u].pid \in Nat
    BY <1>1, <2>1 DEF Bounded
  <2> HIDE DEF u
  <2> QED
    BY <2>1, <2>2, <2>3
<1>7. \A j \in DOMAIN s : j # k => \E i \in DOMAIN r : r[i] = s[j]
  <2> SUFFICES ASSUME NEW j \in DOMAIN s, j # k PROVE \E i \in DOMAIN r : r[i] = s[j]
    OBVIOUS
  <2>1. CASE j < k
    BY <1>1, <1>3, <1>4, <2>1
  <2>2. CASE j > k
    <3>1. j - 1 \in DOMAIN r /\ ~(j - 1 < k) /\ (j - 1) + 1 = j
      BY <1>1, <1>3, <2>2
    <3> QED
      BY <1>4, <3>1
  <2> QED
    BY <1>1, <2>1, <2>2
<1>8. \A i \in DOMAIN r : r[i].pid # s[k].pid
  <2> SUFFICES ASSUME NEW i \in DOMAIN r PROVE r[i].pid # s[k].pid
    OBVIOUS
  <2>1. CASE i < k
    <3>1. i \in DOMAIN s /\ r[i] = s[i] /\ s[i].pid < s[k].pid
      BY <1>1, <1>3, <1>4, <2>1 DEF Ordered
    <3> QED
      BY <1>1, <3>1
  <2>2. CASE ~(i < k)
    <3>1. i + 1 \in DOMAIN s /\ r[i] = s[i + 1] /\ k < i + 1
      BY <1>1, <1>3, <1>4, <2>2
    <3>2. s[k].pid < s[i + 1].pid
      BY <3>1 DEF Ordered
    <3> QED
      BY <1>1, <3>1, <3>2
  <2> QED
    BY <2>1, <2>2
<1> QED
  BY <1>2, <1>3, <1>4, <1>5, <1>6, <1>7, <1>8 DEF r, Without

(* What the invariant says of the list as it stands. *)
LEMMA Facts ==
    ASSUME TypeOK, Counted, Spread, InOrder
    PROVE  /\ jobs \in Seq(Job) /\ Ordered(jobs) /\ Bounded(jobs, Forked)
           /\ Len(jobs) \in Nat /\ DOMAIN jobs = 1 .. Len(jobs)
           /\ Forked \in Nat /\ Forked <= MaxProcess /\ Born = 1 .. Forked /\ MaxProcess \in Nat
           /\ Born \subseteq Process /\ Born \subseteq Nat /\ Process \subseteq Nat
           /\ \A j \in DOMAIN jobs : jobs[j] \in Job /\ jobs[j].pid \in Born /\ jobs[j].pid \in Nat
                                   /\ jobs[j].pid # 0 /\ j \in Nat /\ j # 0
           /\ Len(jobs) <= Forked
<1>1. jobs \in Seq(Job)
  BY DEF TypeOK, Job, Born
<1>2. /\ Forked \in Nat /\ Forked <= MaxProcess /\ Born = 1 .. Forked /\ MaxProcess \in Nat
      /\ Born \subseteq Process /\ Born \subseteq Nat /\ Process \subseteq Nat
  <2>1. Forked \in 0 .. MaxProcess /\ Born = 1 .. Forked /\ MaxProcess \in Nat
    BY JobsAssumption DEF Counted
  <2>2. Born \subseteq Process
    BY DEF Born
  <2> QED
    BY <2>1, <2>2 DEF Process
<1>3. Len(jobs) \in Nat /\ DOMAIN jobs = 1 .. Len(jobs)
  BY <1>1, LenProperties
<1>4. ASSUME NEW j \in DOMAIN jobs
      PROVE  jobs[j] \in Job /\ jobs[j].pid \in Born
  <2>1. jobs[j] \in Job
    BY <1>1, <1>3, ElementOfSeq
  <2> QED
    BY <2>1 DEF Job
<1>5. ASSUME NEW j \in DOMAIN jobs
      PROVE  jobs[j].pid \in Nat /\ jobs[j].pid # 0 /\ j \in Nat /\ j # 0
  BY <1>2, <1>3, <1>4
<1>6. Ordered(jobs) /\ Bounded(jobs, Forked)
  BY DEF Ordered, Bounded, InOrder, Spread
<1>7. Len(jobs) <= Forked
  <2>1. CASE Len(jobs) = 0
    BY <1>2, <2>1
  <2>2. CASE Len(jobs) # 0
    <3>1. Len(jobs) \in DOMAIN jobs
      BY <1>3, <2>2
    <3>2. Len(jobs) <= jobs[Len(jobs)].pid /\ jobs[Len(jobs)].pid <= Forked
      BY <3>1 DEF Spread
    <3> QED
      BY <1>2, <1>3, <1>5, <3>1, <3>2
  <2> QED
    BY <2>1, <2>2
<1> QED
  BY <1>1, <1>2, <1>3, <1>4, <1>5, <1>6, <1>7
-----------------------------------------------------------------------------
(* The kernel *)

(* What any step but the start of a process and the entry of the SIGCHLD   *)
(* handler leaves true: no process is born or revived, an end is signalled *)
(* to the shell, and nothing saves a process from SIGKILL.                 *)
KernelMoves ==
    /\ proc' \in [Process -> States] /\ sigchld' \in BOOLEAN
    /\ pend' \in [Process -> SUBSET {"INT", "TSTP", "TERM", "KILL"}]
    /\ sigchld => sigchld'
    /\ \A p \in Process :
         /\ proc[p] = "unborn" => proc'[p] = "unborn" /\ pend'[p] = {}
         /\ proc[p] # "unborn" => proc'[p] # "unborn"
         /\ proc'[p] \in Alive => proc[p] \in Alive
         /\ proc[p] = "gone" => proc'[p] = "gone"
         /\ proc'[p] \in Over => proc[p] \in Over \/ sigchld'
         /\ Doomed(p) => (proc'[p] \in Alive => "KILL" \in pend'[p])

LEMMA KernelRests ==
    ASSUME TypeOK, Counted, UNCHANGED kernel
    PROVE  KernelMoves
BY DEF TypeOK, Counted, kernel, KernelMoves, Doomed

LEMMA KernelActs ==
    ASSUME TypeOK, Counted, NEW p \in Process, TakeSignal(p) \/ Exits(p) \/ ReadsTerminal(p)
    PROVE  KernelMoves
<1>1. \A q \in Process : proc[q] \in States
  BY DEF TypeOK
<1>2. CASE TakeSignal(p)
  <2>1. PICK x \in pend[p] :
          /\ x # "KILL" => proc[p] = "running"
          /\ IF x \in {"INT", "TERM"} /\ p \in Stubborn
             THEN /\ pend' = [pend EXCEPT ![p] = @ \ {x}]
                  /\ UNCHANGED <<proc, sigchld>>
             ELSE IF x = "TSTP"
             THEN /\ pend' = [pend EXCEPT ![p] = @ \ {x}]
                  /\ Become(p, "stopped")
             ELSE /\ pend' = [pend EXCEPT ![p] = {}]
                  /\ Become(p, "killed")
    BY <1>2 DEF TakeSignal
  <2>2. proc[p] \in Alive /\ p \in Process
    BY <1>2 DEF TakeSignal
  <2>3. /\ pend' \in [Process -> SUBSET {"INT", "TSTP", "TERM", "KILL"}]
        /\ \A q \in Process : q # p => pend'[q] = pend[q]
    BY <2>1 DEF TypeOK
  <2>4. CASE x \in {"INT", "TERM"} /\ p \in Stubborn
    <3>1. /\ "KILL" \in pend[p] => "KILL" \in pend'[p]
          /\ UNCHANGED <<proc, sigchld>>
      BY <2>1, <2>4 DEF TypeOK
    <3> QED
      BY <1>1, <2>2, <2>3, <3>1 DEF TypeOK, Counted, KernelMoves, Doomed, Alive
  <2>5. CASE ~(x \in {"INT", "TERM"} /\ p \in Stubborn) /\ x = "TSTP"
    <3>1. /\ "KILL" \in pend[p] => "KILL" \in pend'[p]
          /\ proc' = [proc EXCEPT ![p] = "stopped"] /\ sigchld'
      BY <2>1, <2>5 DEF TypeOK, Become
    <3> QED
      BY <1>1, <2>2, <2>3, <3>1 DEF TypeOK, Counted, KernelMoves, Doomed, States, Over, Ended, Alive
  <2>6. CASE ~(x \in {"INT", "TERM"} /\ p \in Stubborn) /\ x # "TSTP"
    <3>1. proc' = [proc EXCEPT ![p] = "killed"] /\ sigchld' = TRUE
      BY <2>1, <2>6 DEF Become
    <3> QED
      BY <1>1, <2>2, <2>3, <3>1 DEF TypeOK, Counted, KernelMoves, Doomed, States, Over, Ended, Alive
  <2> QED
    BY <2>4, <2>5, <2>6
<1>3. CASE Exits(p)
  BY <1>1, <1>3 DEF TypeOK, Counted, KernelMoves, Doomed, Exits, Become, States, Over, Ended, Alive
<1>4. CASE ReadsTerminal(p)
  BY <1>1, <1>4 DEF TypeOK, Counted, KernelMoves, Doomed, ReadsTerminal, Become, States, Over, Ended, Alive
<1> QED
  BY <1>2, <1>3, <1>4

LEMMA KernelPosts ==
    ASSUME TypeOK, Counted, NEW p \in Born, NEW x \in {"INT", "TSTP", "CONT", "TERM", "KILL"}, Post(p, x)
    PROVE  KernelMoves
<1>1. p \in Process /\ proc[p] # "unborn" /\ \A q \in Process : proc[q] \in States
  BY DEF TypeOK, Born
<1>2. CASE x = "CONT"
  <2>1. /\ pend' = [pend EXCEPT ![p] = @ \ {"TSTP"}]
        /\ IF proc[p] \in {"stopped", "reported"}
            THEN proc' = [proc EXCEPT ![p] = "running"] /\ sigchld' = TRUE
            ELSE UNCHANGED <<proc, sigchld>>
    BY <1>2 DEF Post
  <2>2. /\ pend' \in [Process -> SUBSET {"INT", "TSTP", "TERM", "KILL"}]
        /\ \A q \in Process : q # p => pend'[q] = pend[q]
        /\ "KILL" \in pend[p] => "KILL" \in pend'[p]
    BY <1>1, <2>1 DEF TypeOK
  <2>3. CASE proc[p] \in {"stopped", "reported"}
    <3>1. proc' = [proc EXCEPT ![p] = "running"] /\ sigchld' = TRUE
      BY <2>1, <2>3
    <3> QED
      BY <1>1, <2>2, <2>3, <3>1 DEF TypeOK, Counted, KernelMoves, Doomed, States, Over, Ended, Alive
  <2>4. CASE proc[p] \notin {"stopped", "reported"}
    <3>1. UNCHANGED <<proc, sigchld>>
      BY <2>1, <2>4
    <3> QED
      BY <1>1, <2>2, <3>1 DEF TypeOK, Counted, KernelMoves, Doomed
  <2> QED
    BY <2>3, <2>4
<1>3. CASE x # "CONT"
  <2>1. /\ pend' = [pend EXCEPT ![p] =
                        CASE proc[p] \notin Alive -> @
                          [] x = "KILL" \/ "KILL" \in @ -> {"KILL"}
                          [] OTHER -> @ \cup {x}]
        /\ UNCHANGED <<proc, sigchld>>
    BY <1>3 DEF Post
  <2>2. /\ pend' \in [Process -> SUBSET {"INT", "TSTP", "TERM", "KILL"}]
        /\ \A q \in Process : q # p => pend'[q] = pend[q]
        /\ "KILL" \in pend[p] => "KILL" \in pend'[p]
    BY <1>1, <1>3, <2>1 DEF TypeOK
  <2> QED
    BY <1>1, <2>1, <2>2 DEF TypeOK, Counted, KernelMoves, Doomed
<1> QED
  BY <1>2, <1>3

(* A wait that collects a process, or reports it as stopped. *)
LEMMA KernelReaps ==
    ASSUME TypeOK, Counted, NEW p \in Process, UNCHANGED <<pend, sigchld>>,
           \/ proc[p] \in Ended /\ proc' = [proc EXCEPT ![p] = "gone"]
           \/ proc[p] = "stopped" /\ proc' = [proc EXCEPT ![p] = "reported"]
           \/ proc' = proc
    PROVE  KernelMoves
BY DEF TypeOK, Counted, KernelMoves, Doomed, States, Over, Ended, Alive

(* No process is born, so the list keeps its bounds. *)
LEMMA NoneBorn ==
    ASSUME TypeOK, KernelMoves
    PROVE  Born' = Born /\ Forked' = Forked
BY DEF KernelMoves, Born, Forked

LEMMA Listing ==
    ASSUME TypeOK, Counted, Spread, InOrder, Followed, KernelMoves, UNCHANGED <<jobs, handler, missed>>
    PROVE  /\ jobs' \in Seq([pid : {p \in Process : proc'[p] # "unborn"}, stopped : BOOLEAN])
           /\ Counted' /\ Spread' /\ InOrder' /\ Followed'
<1>1. Born' = Born /\ Forked' = Forked
  BY NoneBorn
<1>2. jobs' \in Seq([pid : {p \in Process : proc'[p] # "unborn"}, stopped : BOOLEAN])
  BY <1>1 DEF TypeOK, Born
<1>3. Counted'
  BY <1>1 DEF Counted, KernelMoves
<1>4. Spread' /\ InOrder'
  BY <1>1 DEF Spread, InOrder
<1>5. Followed'
  <2> SUFFICES ASSUME NEW j \in DOMAIN jobs, proc'[jobs[j].pid] \in Over
               PROVE  jobs[j].pid \in missed \/ sigchld' \/ handler.i \in 1 .. j
    BY DEF Followed
  <2>1. jobs[j].pid \in Process
    BY Facts DEF Born
  <2> QED
    BY <2>1 DEF KernelMoves, Followed
<1> QED
  BY <1>2, <1>3, <1>4, <1>5
-----------------------------------------------------------------------------
(* What the steps do to the list *)

(* The job at position k leaves the list, and no other does. *)
Drops(k) == Without(jobs, k, jobs', Forked, Job)

LEMMA Taken ==
    ASSUME TypeOK, Counted, Spread, InOrder, NEW k \in DOMAIN jobs, jobs' = RemoveAt(jobs, k)
    PROVE  Drops(k)
<1>1. /\ jobs \in Seq(Job) /\ Ordered(jobs) /\ Bounded(jobs, Forked)
      /\ Born \subseteq Nat /\ Forked \in Nat
  BY Facts
<1>2. Job \subseteq [pid : Nat, stopped : BOOLEAN]
  BY <1>1 DEF Job
<1>3. Without(jobs, k, RemoveAt(jobs, k), Forked, Job)
  BY <1>1, <1>2, RemovedOrder
<1> QED
  BY <1>3 DEF Drops

(* erase() takes off the job at a position of the list, and otherwise the  *)
(* last one.                                                               *)
LEMMA Erased ==
    ASSUME TypeOK, Counted, Spread, InOrder, NEW i, EraseAt(i)
    PROVE  /\ OnList(i) => Drops(i)
           /\ ~OnList(i) => (jobs = <<>> /\ jobs' = jobs) \/ \E k \in DOMAIN jobs : Drops(k)
<1>1. CASE OnList(i)
  BY <1>1, Taken DEF EraseAt, OnList
<1>2. CASE ~OnList(i) /\ jobs # <<>>
  <2>1. jobs' = Front(jobs)
    BY <1>2 DEF EraseAt
  <2>2. Front(jobs) = RemoveAt(jobs, Len(jobs)) /\ Len(jobs) \in 1 .. Len(jobs)
    BY <1>2, Facts, FrontRemoves
  <2>3. Len(jobs) \in DOMAIN jobs
    BY <2>2, Facts
  <2> QED
    BY <1>2, <2>1, <2>2, <2>3, Taken
<1>3. CASE ~OnList(i) /\ jobs = <<>>
  BY <1>3 DEF EraseAt
<1> QED
  BY <1>1, <1>2, <1>3

(* setStopped() changes no more than the mark of one job. *)
Marks(i, flag) ==
    /\ jobs' \in Seq(Job) /\ DOMAIN jobs' = DOMAIN jobs /\ Len(jobs') = Len(jobs)
    /\ \A j \in DOMAIN jobs :
         /\ jobs'[j].pid = jobs[j].pid
         /\ jobs'[j].stopped = IF j = i THEN flag ELSE jobs[j].stopped

LEMMA MarkSet ==
    ASSUME TypeOK, Counted, Spread, InOrder, NEW i, NEW flag \in BOOLEAN, SetStopped(i, flag)
    PROVE  Marks(i, flag)
<1>1. /\ jobs \in Seq(Job) /\ DOMAIN jobs = 1 .. Len(jobs)
      /\ \A j \in DOMAIN jobs : jobs[j] \in Job
  BY Facts
<1>2. CASE OnList(i)
  <2> DEFINE e == [jobs[i] EXCEPT !.stopped = flag]
  <2>1. /\ i \in DOMAIN jobs /\ jobs' = [jobs EXCEPT ![i] = e]
    BY <1>2 DEF SetStopped, OnList
  <2>2. e \in Job /\ e.pid = jobs[i].pid /\ e.stopped = flag
    BY <1>1, <2>1 DEF Job
  <2> HIDE DEF e
  <2>3. i \in 1 .. Len(jobs)
    BY <1>1, <2>1
  <2>4. jobs' \in Seq(Job) /\ Len(jobs') = Len(jobs)
    BY <1>1, <2>1, <2>2, <2>3, ExceptSeq
  <2>5. DOMAIN jobs' = DOMAIN jobs /\ \A j \in DOMAIN jobs : jobs'[j] = IF j = i THEN e ELSE jobs[j]
    BY <2>1
  <2> QED
    BY <2>2, <2>4, <2>5 DEF Marks
<1>3. CASE ~OnList(i)
  BY <1>1, <1>3 DEF SetStopped, OnList, Marks
<1> QED
  BY <1>2, <1>3

(* A new job comes last. *)
Adds(p, flag) ==
    /\ jobs' \in Seq(Job) /\ Ordered(jobs') /\ Bounded(jobs', Forked)
    /\ DOMAIN jobs' = 1 .. Len(jobs) + 1
    /\ \A j \in DOMAIN jobs' :
         IF j \in DOMAIN jobs THEN jobs'[j] = jobs[j]
         ELSE j = Len(jobs) + 1 /\ jobs'[j] = [pid |-> p, stopped |-> flag]
    /\ \A j \in DOMAIN jobs : j \in DOMAIN jobs' /\ jobs'[j] = jobs[j]
    /\ p \in Listed'

LEMMA Added ==
    ASSUME TypeOK, Counted, Spread, InOrder, NEW p \in Born, NEW flag \in BOOLEAN, AddJob(p, flag),
           \A j \in DOMAIN jobs : jobs[j].pid < p
    PROVE  Adds(p, flag)
<1> DEFINE e == [pid |-> p, stopped |-> flag]
           n == Len(jobs) + 1
<1>1. /\ jobs \in Seq(Job) /\ Len(jobs) \in Nat /\ DOMAIN jobs = 1 .. Len(jobs)
      /\ Ordered(jobs) /\ Bounded(jobs, Forked) /\ Forked \in Nat /\ Born = 1 .. Forked
      /\ \A j \in DOMAIN jobs : jobs[j].pid \in Nat /\ j \in Nat
  BY Facts
<1>2. e \in Job /\ e.pid = p /\ jobs' = Append(jobs, e)
  BY DEF Job, AddJob
<1> HIDE DEF e
<1>3. /\ jobs' \in Seq(Job) /\ Len(jobs') = Len(jobs) + 1
      /\ \A j \in 1 .. Len(jobs) : jobs'[j] = jobs[j]
      /\ jobs'[Len(jobs) + 1] = e
  BY <1>1, <1>2, AppendProperties
<1>4. DOMAIN jobs' = 1 .. Len(jobs) + 1
  BY <1>3, LenProperties
<1>5. /\ \A j \in DOMAIN jobs' : IF j \in DOMAIN jobs THEN jobs'[j] = jobs[j] ELSE j = n /\ jobs'[j] = e
      /\ \A j \in DOMAIN jobs : j \in DOMAIN jobs'
      /\ n \in DOMAIN jobs' /\ n \in Nat /\ n \notin DOMAIN jobs /\ \A j \in DOMAIN jobs : j < n
      /\ \A j \in DOMAIN jobs' : j \in DOMAIN jobs \/ j = n
  BY <1>1, <1>3, <1>4
<1>6. n <= p /\ p <= Forked /\ p \in Nat
  <2>1. CASE Len(jobs) = 0
    BY <1>1, <2>1
  <2>2. CASE Len(jobs) # 0
    <3>1. Len(jobs) \in DOMAIN jobs
      BY <1>1, <2>2
    <3>2. Len(jobs) <= jobs[Len(jobs)].pid /\ jobs[Len(jobs)].pid < p
      BY <1>1, <3>1 DEF Bounded
    <3> QED
      BY <1>1, <3>1, <3>2
  <2> QED
    BY <2>1, <2>2
<1> HIDE DEF n
<1>7. Ordered(jobs')
  BY <1>1, <1>2, <1>5 DEF Ordered
<1>8. Bounded(jobs', Forked)
  BY <1>1, <1>2, <1>5, <1>6 DEF Bounded
<1>9. p \in Listed'
  BY <1>2, <1>5 DEF Listed
<1> QED
  BY <1>3, <1>4, <1>5, <1>7, <1>8, <1>9 DEF Adds, e, n

(* The list that a step leaves has what the invariant asks of it. *)
LEMMA NewList ==
    ASSUME jobs' \in Seq(Job), Ordered(jobs'), Bounded(jobs', Forked), Born' = Born, Forked' = Forked
    PROVE  /\ jobs' \in Seq([pid : {p \in Process : proc'[p] # "unborn"}, stopped : BOOLEAN])
           /\ Spread' /\ InOrder'
<1>1. jobs' \in Seq([pid : {p \in Process : proc'[p] # "unborn"}, stopped : BOOLEAN])
  BY DEF Job, Born
<1>2. Spread' /\ InOrder'
  BY DEF Spread, InOrder, Ordered, Bounded
<1> QED
  BY <1>1, <1>2
-----------------------------------------------------------------------------
(* The main loop between the kernel's steps *)

Stances == [at : Places, cmd : Commands \cup {"none", "kill"}, i : 0 .. MaxProcess + 1,
            pid : 0 .. MaxProcess, arg : Signals \cup {"none", "CONT"} \cup Status]

(* A step that moves nothing but the main loop and foreground_pid. *)
LEMMA ShellMoves ==
    ASSUME Always, UNCHANGED <<jobs, handler, kernel, history>>,
           foreground' \in 0 .. MaxProcess, main' \in Stances, main'.at = "prompt" => main' = Prompt
    PROVE  /\ TypeOK' /\ Counted' /\ Spread' /\ InOrder' /\ Followed'
           /\ Born' = Born /\ Forked' = Forked
<1>1. TypeOK /\ Counted /\ Spread /\ InOrder /\ Followed /\ UNCHANGED <<proc, pend, sigchld, missed>>
  BY DEF Always, kernel, history
<1>2. KernelMoves
  BY <1>1, KernelRests DEF kernel
<1>3. Counted' /\ Spread' /\ InOrder' /\ Followed' /\ Born' = Born /\ Forked' = Forked
  BY <1>1, <1>2, Listing, NoneBorn
<1>4. TypeOK'
  BY <1>1 DEF TypeOK, Stances, history
<1> QED
  BY <1>1, <1>3, <1>4

LEMMA ChooseAlways ==
    ASSUME Always, NEW c \in {"fg", "bg"}, Choose(c)
    PROVE  Always'
<1>1. PICK i \in DOMAIN jobs : main' = Stand("wake", c, i, 0, "none")
  BY DEF Choose
<1>2. c \in Commands /\ UNCHANGED <<jobs, foreground, handler, kernel, history>>
  BY DEF Choose, Typed
<1>3. i \in 0 .. MaxProcess + 1 /\ 0 \in 0 .. MaxProcess
  BY Facts DEF Always
<1>4. /\ main'.at = "wake" /\ main'.cmd = c /\ main'.pid = 0 /\ main'.i = i
      /\ main' \in Stances
  BY <1>1, <1>2, <1>3 DEF Stand, Stances, Places
<1>5. /\ TypeOK' /\ Counted' /\ Spread' /\ InOrder' /\ Followed'
      /\ Born' = Born /\ Forked' = Forked
  BY <1>2, <1>4, ShellMoves DEF Always, TypeOK
<1>6. Stands'
  BY <1>2, <1>4, <1>5 DEF Always, Stands, Fresh, QuitLoop
<1>7. Passed'
  BY <1>4 DEF Passed, QuitLoop
<1> QED
  BY <1>5, <1>6, <1>7 DEF Always

LEMMA KillAlways ==
    ASSUME Always, Kill
    PROVE  Always'
<1>1. PICK i \in DOMAIN jobs, x \in Signals : main' = Stand("send", "kill", i, 0, x)
  BY DEF Kill
<1>2. "kill" \in Commands /\ UNCHANGED <<jobs, foreground, handler, kernel, history>>
  BY DEF Kill, Typed
<1>3. i \in 0 .. MaxProcess + 1 /\ 0 \in 0 .. MaxProcess
  BY Facts DEF Always
<1>4. /\ main'.at = "send" /\ main'.cmd = "kill" /\ main'.pid = 0 /\ main'.i = i /\ main'.arg \in Signals
      /\ main' \in Stances
  BY <1>1, <1>2, <1>3 DEF Stand, Stances, Places
<1>5. /\ TypeOK' /\ Counted' /\ Spread' /\ InOrder' /\ Followed'
      /\ Born' = Born /\ Forked' = Forked
  BY <1>2, <1>4, ShellMoves DEF Always, TypeOK
<1>6. Stands'
  BY <1>2, <1>4, <1>5 DEF Always, Stands, Fresh, QuitLoop
<1>7. Passed'
  BY <1>4 DEF Passed, QuitLoop
<1> QED
  BY <1>5, <1>6, <1>7 DEF Always

LEMMA QuitAlways ==
    ASSUME Always, Quit
    PROVE  Always'
<1>1. /\ main' = Stand("exit", "none", 0, 0, "none") \/ main' = Stand("quit", "kill", 1, 0, "none")
      /\ "quit" \in Commands /\ handler.i = 0
      /\ UNCHANGED <<jobs, foreground, handler, kernel, history>>
  BY DEF Quit, Typed, At
<1>2. 1 \in 0 .. MaxProcess + 1 /\ 0 \in 0 .. MaxProcess /\ 0 \in 0 .. MaxProcess + 1
      /\ Len(jobs) \in Nat /\ 1 \in 1 .. Len(jobs) + 1 /\ \A j \in DOMAIN jobs : ~(j < 1)
  BY Facts DEF Always
<1>3. /\ main'.pid = 0 /\ main'.at \in {"exit", "quit"}
      /\ main'.at = "quit" => main'.cmd = "kill" /\ main'.i = 1
      /\ main'.at = "exit" => main'.cmd = "none"
      /\ main' \in Stances
  BY <1>1, <1>2 DEF Stand, Stances, Places
<1>4. /\ TypeOK' /\ Counted' /\ Spread' /\ InOrder' /\ Followed'
      /\ Born' = Born /\ Forked' = Forked
  BY <1>1, <1>3, ShellMoves DEF Always, TypeOK
<1>5. Stands'
  BY <1>1, <1>2, <1>3, <1>4 DEF Always, Stands, Fresh, QuitLoop
<1>6. Passed'
  BY <1>1, <1>2, <1>3 DEF Passed, QuitLoop
<1> QED
  BY <1>4, <1>5, <1>6 DEF Always

(* Back at the prompt nothing is held. *)
LEMMA PromptHolds ==
    ASSUME Always, main' = Prompt, Born' = Born, foreground' \in {0, foreground}
    PROVE  /\ main' \in Stances /\ Stands' /\ Passed'
           /\ main'.at = "prompt" /\ main'.i = 0 /\ main'.pid = 0 /\ main'.cmd = "none"
<1>1. 0 \in 0 .. MaxProcess /\ 0 \in 0 .. MaxProcess + 1
  BY Facts DEF Always
<1>2. /\ main' \in Stances
      /\ main'.at = "prompt" /\ main'.i = 0 /\ main'.pid = 0 /\ main'.cmd = "none"
  BY <1>1 DEF Prompt, Stand, Stances, Places
<1>3. Stands'
  BY <1>2 DEF Always, Stands, Fresh, QuitLoop
<1>4. Passed'
  BY <1>2 DEF Passed, QuitLoop
<1> QED
  BY <1>2, <1>3, <1>4

LEMMA WakeJobAlways ==
    ASSUME Always, WakeJob
    PROVE  Always'
<1>1. /\ main.at = "wake" /\ handler.i = 0 /\ ~sigchld
      /\ UNCHANGED <<jobs, foreground, handler, kernel, history>>
  BY DEF WakeJob, At
<1>2. /\ main \in Stances /\ main.pid = 0 /\ main.cmd \in {"fg", "bg", "kill"}
      /\ foreground' \in 0 .. MaxProcess /\ foreground' \in {0, foreground}
      /\ (foreground # 0 => foreground \in Born)
  BY <1>1 DEF Always, TypeOK, Stances, Stands
<1>3. Born' = Born /\ Forked' = Forked
  BY <1>1 DEF Born, Forked, kernel
<1>4. \/ main' = Prompt
      \/ main' = [main EXCEPT !.at = "send", !.arg = "CONT"]
      \/ main' = [main EXCEPT !.at = "to_wait"] /\ main.cmd = "fg"
  BY DEF WakeJob, Back, Goto
<1>5. CASE main' = Prompt
  <2>1. /\ main' \in Stances /\ Stands' /\ Passed'
    BY <1>2, <1>3, <1>5, PromptHolds
  <2>2. /\ TypeOK' /\ Counted' /\ Spread' /\ InOrder' /\ Followed'
    BY <1>1, <1>2, <1>5, <2>1, ShellMoves
  <2> QED
    BY <2>1, <2>2 DEF Always
<1>6. CASE main' = [main EXCEPT !.at = "send", !.arg = "CONT"]
  <2>1. /\ main' \in Stances /\ main'.at = "send" /\ main'.arg = "CONT" /\ main'.pid = 0
        /\ main'.cmd \in {"fg", "bg", "kill"}
    BY <1>2, <1>6 DEF Stances, Places
  <2>2. /\ TypeOK' /\ Counted' /\ Spread' /\ InOrder' /\ Followed'
    BY <1>1, <1>2, <2>1, ShellMoves
  <2>3. Stands'
    BY <1>1, <1>2, <1>3, <2>1 DEF Stands, Fresh, QuitLoop
  <2>4. Passed'
    BY <2>1 DEF Passed, QuitLoop
  <2> QED
    BY <2>2, <2>3, <2>4 DEF Always
<1>7. CASE main' = [main EXCEPT !.at = "to_wait"] /\ main.cmd = "fg"
  <2>1. /\ main' \in Stances /\ main'.at = "to_wait" /\ main'.pid = 0 /\ main'.cmd = "fg"
    BY <1>2, <1>7 DEF Stances, Places
  <2>2. /\ TypeOK' /\ Counted' /\ Spread' /\ InOrder' /\ Followed'
    BY <1>1, <1>2, <2>1, ShellMoves
  <2>3. Stands'
    BY <1>1, <1>2, <1>3, <2>1 DEF Stands, Fresh, QuitLoop
  <2>4. Passed'
    BY <2>1 DEF Passed, QuitLoop
  <2> QED
    BY <2>2, <2>3, <2>4 DEF Always
<1> QED
  BY <1>4, <1>5, <1>6, <1>7

(* The process fg picks is one that was forked, also past the list's end.  *)
LEMMA SlotBorn ==
    ASSUME Always, NEW i, NEW job \in Slot(i)
    PROVE  job.pid \in Born /\ job \in Job /\ (OnList(i) => job = jobs[i])
<1>1. \A j \in DOMAIN jobs : jobs[j] \in Job /\ jobs[j].pid \in Born
  BY Facts DEF Always
<1> QED
  BY <1>1 DEF Slot, OnList, Born, Job

LEMMA ToWaitAlways ==
    ASSUME Always, ToWait
    PROVE  Always'
<1>1. /\ main.at = "to_wait" /\ handler.i = 0 /\ ~sigchld
      /\ UNCHANGED <<jobs, handler, kernel, history>>
  BY DEF ToWait, At
<1>2. PICK p \in IF main.cmd = "run" THEN {main.pid} ELSE {job.pid : job \in Slot(main.i)} :
        foreground' = p /\ main' = [main EXCEPT !.at = "wait", !.pid = p]
  BY DEF ToWait
<1>3. main \in Stances /\ main.cmd \in {"run", "fg"}
  BY <1>1 DEF Always, TypeOK, Stances, Stands
<1>4. /\ p \in Born /\ p \in 0 .. MaxProcess
      /\ main.cmd = "run" => /\ main.pid = p /\ main.i = 0 /\ main.pid = Forked /\ Forked > 0
                             /\ \A j \in DOMAIN jobs : jobs[j].pid < main.pid
  <2>1. /\ Forked \in Nat /\ Born = 1 .. Forked /\ Born \subseteq Process /\ MaxProcess \in Nat
    BY Facts DEF Always
  <2>2. CASE main.cmd = "run"
    <3>1. /\ main.pid = p /\ main.i = 0 /\ main.pid = Forked /\ Forked > 0
          /\ \A j \in DOMAIN jobs : jobs[j].pid < main.pid
      BY <1>1, <1>2, <2>2 DEF Always, Stands, Fresh
    <3>2. p \in Born
      BY <2>1, <3>1
    <3> QED
      BY <2>1, <3>1, <3>2 DEF Process
  <2>3. CASE main.cmd # "run"
    <3>1. p \in Born
      BY <1>2, <2>3, SlotBorn
    <3> QED
      BY <2>1, <2>3, <3>1 DEF Process
  <2> QED
    BY <2>2, <2>3
<1>5. /\ main' \in Stances /\ main'.at = "wait" /\ main'.pid = p /\ main'.cmd = main.cmd
      /\ main'.i = main.i
  BY <1>2, <1>3, <1>4 DEF Stances, Places
<1>6. /\ TypeOK' /\ Counted' /\ Spread' /\ InOrder' /\ Followed'
      /\ Born' = Born /\ Forked' = Forked
  BY <1>1, <1>2, <1>4, <1>5, ShellMoves
<1>7. Stands'
  BY <1>1, <1>2, <1>3, <1>4, <1>5, <1>6 DEF Stands, Fresh, QuitLoop
<1>8. Passed'
  BY <1>5 DEF Passed, QuitLoop
<1> QED
  BY <1>6, <1>7, <1>8 DEF Always

LEMMA QuitExitAlways ==
    ASSUME Always, QuitExit
    PROVE  Always'
<1>1. /\ main.at = "quit" /\ ~OnList(main.i) /\ main' = Stand("exit", "kill", 0, 0, "none")
      /\ UNCHANGED <<jobs, foreground, handler, kernel, history>>
  BY DEF QuitExit
<1>2. /\ handler.i = 0 /\ main.i \in 1 .. Len(jobs) + 1
      /\ \A j \in DOMAIN jobs : j < main.i => Doomed(jobs[j].pid)
  BY <1>1 DEF Always, Stands, Passed, QuitLoop
<1>3. /\ DOMAIN jobs = 1 .. Len(jobs) /\ Len(jobs) \in Nat
      /\ 0 \in 0 .. MaxProcess /\ 0 \in 0 .. MaxProcess + 1
  BY Facts DEF Always
<1>4. \A j \in DOMAIN jobs : Doomed(jobs[j].pid)
  BY <1>1, <1>2, <1>3 DEF OnList
<1>5. /\ main' \in Stances /\ main'.at = "exit" /\ main'.pid = 0
  BY <1>1, <1>3 DEF Stand, Stances, Places
<1>6. /\ TypeOK' /\ Counted' /\ Spread' /\ InOrder' /\ Followed'
      /\ Born' = Born /\ Forked' = Forked
  BY <1>1, <1>5, ShellMoves DEF Always, TypeOK
<1>7. Stands'
  BY <1>1, <1>2, <1>5, <1>6 DEF Always, Stands, Fresh, QuitLoop
<1>8. Passed'
  BY <1>1, <1>4, <1>5 DEF Passed, QuitLoop, Doomed, kernel
<1> QED
  BY <1>6, <1>7, <1>8 DEF Always
-----------------------------------------------------------------------------
(* The kernel's steps, and those of the main loop that call it *)

LEMMA CallMoves ==
    ASSUME Always, KernelMoves, UNCHANGED <<jobs, handler, history>>,
           foreground' \in 0 .. MaxProcess, main' \in Stances, main'.at = "prompt" => main' = Prompt
    PROVE  /\ TypeOK' /\ Counted' /\ Spread' /\ InOrder' /\ Followed'
           /\ Born' = Born /\ Forked' = Forked
           /\ \A p \in Process : Doomed(p) => Doomed(p)'
<1>1. TypeOK /\ Counted /\ Spread /\ InOrder /\ Followed /\ UNCHANGED missed
  BY DEF Always, history
<1>2. /\ jobs' \in Seq([pid : {p \in Process : proc'[p] # "unborn"}, stopped : BOOLEAN])
      /\ Counted' /\ Spread' /\ InOrder' /\ Followed' /\ Born' = Born /\ Forked' = Forked
  BY <1>1, Listing, NoneBorn
<1>3. TypeOK'
  BY <1>1, <1>2 DEF TypeOK, Stances, history, KernelMoves
<1>4. \A p \in Process : Doomed(p) => Doomed(p)'
  BY DEF KernelMoves, Doomed
<1> QED
  BY <1>1, <1>2, <1>3, <1>4

LEMMA StayAlways ==
    ASSUME Always, KernelMoves, UNCHANGED <<jobs, handler, main, history>>,
           foreground' \in {0, foreground}
    PROVE  Always'
<1>1. /\ foreground' \in 0 .. MaxProcess /\ main' \in Stances /\ (main'.at = "prompt" => main' = Prompt)
      /\ \A j \in DOMAIN jobs : jobs[j].pid \in Process
      /\ main.at = "waited" => main.pid \in Process
  <2>1. 0 \in 0 .. MaxProcess /\ Born \subseteq Process /\ \A j \in DOMAIN jobs : jobs[j].pid \in Born
    BY Facts DEF Always
  <2> QED
    BY <2>1 DEF Always, TypeOK, Stances, Stands
<1>2. /\ TypeOK' /\ Counted' /\ Spread' /\ InOrder' /\ Followed'
      /\ Born' = Born /\ Forked' = Forked
      /\ \A p \in Process : Doomed(p) => Doomed(p)'
  BY <1>1, CallMoves
<1>3. Stands'
  <2>1. main.at = "waited" /\ main.arg # "stopped" => proc'[main.pid] = "gone"
    BY <1>1 DEF Always, Stands, KernelMoves
  <2>2. Fresh' = Fresh /\ OnList(main.i)' = OnList(main.i)
    BY DEF Fresh, OnList
  <2> QED
    BY <1>2, <2>1, <2>2 DEF Always, Stands
<1>4. Passed'
  BY <1>1, <1>2 DEF Always, Passed
<1> QED
  BY <1>2, <1>3, <1>4 DEF Always

LEMMA ProcessesAlways ==
    ASSUME Always, Processes
    PROVE  Always'
<1>1. PICK p \in Process : TakeSignal(p) \/ Exits(p) \/ ReadsTerminal(p)
  BY DEF Processes
<1>2. KernelMoves
  BY <1>1, KernelActs DEF Always
<1>3. UNCHANGED <<jobs, handler, main, history, foreground>>
  BY <1>1 DEF TakeSignal, Exits, ReadsTerminal
<1> QED
  BY <1>2, <1>3, StayAlways

LEMMA ControlAlways ==
    ASSUME Always, NEW x \in {"INT", "TSTP"}, Control(x)
    PROVE  Always'
<1>1. /\ foreground # 0 /\ Post(foreground, x) /\ foreground' = 0
      /\ UNCHANGED <<jobs, main, handler, history>>
  BY DEF Control
<1>2. foreground \in Born
  BY <1>1 DEF Always, Stands
<1>3. KernelMoves
  BY <1>1, <1>2, KernelPosts DEF Always
<1> QED
  BY <1>1, <1>3, StayAlways

LEMMA SendSignalAlways ==
    ASSUME Always, SendSignal
    PROVE  Always'
<1>1. /\ main.at = "send" /\ handler.i = 0 /\ ~sigchld
      /\ UNCHANGED <<jobs, foreground, handler, history>>
  BY DEF SendSignal, At
<1>2. /\ main \in Stances /\ main.pid = 0 /\ main.cmd \in {"fg", "bg", "kill"}
      /\ main.arg \in Signals \cup {"CONT"} /\ (main.cmd # "kill" => main.arg = "CONT")
      /\ foreground' \in 0 .. MaxProcess /\ foreground' \in {0, foreground}
      /\ (foreground # 0 => foreground \in Born)
  BY <1>1 DEF Always, TypeOK, Stances, Stands
<1>3. CASE main' = Prompt /\ UNCHANGED kernel
  <2>1. KernelMoves
    BY <1>3, KernelRests DEF Always
  <2>2. Born' = Born
    BY <1>3 DEF Born, kernel
  <2>3. main' \in Stances /\ Stands' /\ Passed'
    BY <1>2, <1>3, <2>2, PromptHolds
  <2>4. /\ TypeOK' /\ Counted' /\ Spread' /\ InOrder' /\ Followed'
    BY <1>1, <1>2, <1>3, <2>1, <2>3, CallMoves
  <2> QED
    BY <2>3, <2>4 DEF Always
<1>4. ASSUME NEW job \in Slot(main.i), Post(job.pid, main.arg), Goto("sent")
      PROVE  Always'
  <2>1. job.pid \in Born
    BY SlotBorn
  <2>2. KernelMoves
    <3>1. main.arg \in {"INT", "TSTP", "CONT", "TERM", "KILL"}
      BY <1>2, JobsAssumption
    <3> QED
      BY <1>4, <2>1, <3>1, KernelPosts DEF Always
  <2>3. /\ main' \in Stances /\ main'.at = "sent" /\ main'.arg = main.arg /\ main'.pid = 0
        /\ main'.cmd = main.cmd
    BY <1>2, <1>4 DEF Stances, Places, Goto
  <2>4. /\ TypeOK' /\ Counted' /\ Spread' /\ InOrder' /\ Followed'
        /\ Born' = Born /\ Forked' = Forked
    BY <1>1, <1>2, <2>2, <2>3, CallMoves
  <2>5. Stands'
    BY <1>1, <1>2, <2>3, <2>4 DEF Stands, Fresh, QuitLoop
  <2>6. Passed'
    BY <2>3 DEF Passed, QuitLoop
  <2> QED
    BY <2>4, <2>5, <2>6 DEF Always
<1> QED
  BY <1>3, <1>4 DEF SendSignal, Back

LEMMA WaitReturnsAlways ==
    ASSUME Always, WaitReturns
    PROVE  Always'
<1>1. /\ main.at = "wait" /\ handler.i = 0
      /\ UNCHANGED <<jobs, foreground, handler, pend, sigchld, history>>
  BY DEF WaitReturns
<1>2. /\ main \in Stances /\ main.pid \in Born /\ main.cmd \in {"run", "fg"}
      /\ foreground' \in 0 .. MaxProcess
      /\ proc \in [Process -> States] /\ main.pid \in Process
  BY <1>1 DEF Always, TypeOK, Stances, Stands, Born
<1>3. PICK status \in Status :
        /\ main' = [main EXCEPT !.at = "waited", !.arg = status]
        /\ \/ proc[main.pid] \in Ended /\ proc' = [proc EXCEPT ![main.pid] = "gone"]
           \/ proc[main.pid] = "stopped" /\ proc' = [proc EXCEPT ![main.pid] = "reported"]
           \/ proc' = proc
        /\ status # "stopped" => proc'[main.pid] = "gone"
  <2>1. CASE proc[main.pid] \in Ended /\ proc' = [proc EXCEPT ![main.pid] = "gone"]
             /\ main' = [main EXCEPT !.at = "waited", !.arg = proc[main.pid]]
    BY <1>2, <2>1 DEF Status
  <2>2. CASE proc[main.pid] = "stopped" /\ proc' = [proc EXCEPT ![main.pid] = "reported"]
             /\ main' = [main EXCEPT !.at = "waited", !.arg = "stopped"]
    BY <1>2, <2>2 DEF Status
  <2>3. CASE proc[main.pid] = "gone" /\ UNCHANGED proc
             /\ \E status \in {"exited", "killed", "stopped"} :
                   main' = [main EXCEPT !.at = "waited", !.arg = status]
    BY <1>2, <2>3 DEF Status, Ended
  <2> QED
    BY <2>1, <2>2, <2>3 DEF WaitReturns
<1>4. KernelMoves
  BY <1>1, <1>2, <1>3, KernelReaps DEF Always
<1>5. /\ main' \in Stances /\ main'.at = "waited" /\ main'.arg = status
      /\ main'.pid = main.pid /\ main'.cmd = main.cmd /\ main'.i = main.i
  BY <1>2, <1>3 DEF Stances, Places
<1>6. /\ TypeOK' /\ Counted' /\ Spread' /\ InOrder' /\ Followed'
      /\ Born' = Born /\ Forked' = Forked
  BY <1>1, <1>2, <1>4, <1>5, CallMoves
<1>7. Stands'
  BY <1>1, <1>2, <1>3, <1>5, <1>6 DEF Always, Stands, Fresh, QuitLoop
<1>8. Passed'
  BY <1>5 DEF Passed, QuitLoop
<1> QED
  BY <1>6, <1>7, <1>8 DEF Always

(* KillAllJobs stands at a position, and has dealt with those before it. *)
LEMMA QuitStands ==
    ASSUME Always, main.at \in QuitLoop
    PROVE  /\ main \in Stances /\ main.cmd = "kill" /\ main.pid = 0 /\ handler.i = 0
           /\ foreground \in 0 .. MaxProcess /\ (foreground # 0 => foreground \in Born)
           /\ main.i \in 1 .. Len(jobs) + 1 /\ Len(jobs) \in Nat
           /\ OnList(main.i) => /\ main.i + 1 \in 1 .. Len(jobs) + 1 /\ main.i + 1 \in 0 .. MaxProcess + 1
                                /\ jobs[main.i].pid \in Born /\ jobs[main.i].pid \in Process
           /\ main.at # "quit" => OnList(main.i)
           /\ \A j \in DOMAIN jobs : j < main.i => Doomed(jobs[j].pid)
           /\ \A j \in DOMAIN jobs : j \in Nat /\ jobs[j].pid \in Process
<1>1. /\ Len(jobs) \in Nat /\ DOMAIN jobs = 1 .. Len(jobs) /\ Len(jobs) <= Forked
      /\ Forked \in Nat /\ Forked <= MaxProcess /\ MaxProcess \in Nat /\ Born \subseteq Process
      /\ \A j \in DOMAIN jobs : jobs[j].pid \in Born
  BY Facts DEF Always
<1>2. /\ main \in Stances /\ main.cmd = "kill" /\ main.pid = 0 /\ handler.i = 0
      /\ foreground \in 0 .. MaxProcess /\ (foreground # 0 => foreground \in Born)
      /\ main.i \in 1 .. Len(jobs) + 1 /\ (main.at # "quit" => OnList(main.i))
      /\ \A j \in DOMAIN jobs : j < main.i => Doomed(jobs[j].pid)
  BY DEF Always, TypeOK, Stances, Stands, Passed, QuitLoop
<1>3. OnList(main.i) => main.i \in 1 .. Len(jobs)
  BY <1>1 DEF OnList
<1> QED
  BY <1>1, <1>2, <1>3 DEF OnList

(* It goes on to the next position when the one it is at is as good as dead. *)
LEMMA TurnAlways ==
    ASSUME Always, main.at \in QuitLoop, OnList(main.i), KernelMoves, main' = Turn,
           UNCHANGED <<jobs, foreground, handler, history>>,
           proc'[jobs[main.i].pid] \in Alive => "KILL" \in pend'[jobs[main.i].pid]
    PROVE  Always'
<1>1. /\ main \in Stances /\ handler.i = 0 /\ main.i \in Nat
      /\ foreground \in 0 .. MaxProcess /\ (foreground # 0 => foreground \in Born)
      /\ main.i + 1 \in 1 .. Len(jobs) + 1 /\ main.i + 1 \in 0 .. MaxProcess + 1
      /\ \A j \in DOMAIN jobs : j < main.i => Doomed(jobs[j].pid)
      /\ \A j \in DOMAIN jobs : j \in Nat /\ jobs[j].pid \in Process
      /\ 0 \in 0 .. MaxProcess
  BY QuitStands, JobsAssumption
<1> DEFINE next == main.i + 1
<1>2. /\ next \in 0 .. MaxProcess + 1 /\ next \in 1 .. Len(jobs) + 1
      /\ \A j \in DOMAIN jobs : j < next => j < main.i \/ j = main.i
      /\ main' = Stand("quit", "kill", next, 0, "none")
  BY <1>1 DEF Turn
<1> HIDE DEF next
<1>3. /\ main' \in Stances /\ main'.at = "quit" /\ main'.cmd = "kill" /\ main'.pid = 0 /\ main'.i = next
  BY <1>1, <1>2 DEF Stand, Stances, Places
<1>4. /\ TypeOK' /\ Counted' /\ Spread' /\ InOrder' /\ Followed'
      /\ Born' = Born /\ Forked' = Forked
      /\ \A p \in Process : Doomed(p) => Doomed(p)'
  BY <1>1, <1>3, CallMoves
<1>5. Stands'
  BY <1>1, <1>2, <1>3, <1>4 DEF Stands, Fresh, QuitLoop
<1>6. Passed'
  <2> SUFFICES ASSUME NEW j \in DOMAIN jobs, j < next PROVE Doomed(jobs[j].pid)'
    BY <1>3 DEF Passed, QuitLoop
  <2>1. CASE j < main.i
    <3>1. Doomed(jobs[j].pid) /\ jobs[j].pid \in Process
      BY <1>1, <2>1
    <3>2. Doomed(jobs[j].pid) => (proc'[jobs[j].pid] \in Alive => "KILL" \in pend'[jobs[j].pid])
      BY <3>1 DEF KernelMoves
    <3> QED
      BY <3>1, <3>2 DEF Doomed
  <2>2. CASE j = main.i
    BY <2>2 DEF Doomed
  <2> QED
    BY <1>2, <2>1, <2>2
<1> QED
  BY <1>4, <1>5, <1>6 DEF Always

(* ... and otherwise stays at it. *)
LEMMA SamePositionAlways ==
    ASSUME Always, main.at \in QuitLoop, OnList(main.i), KernelMoves, NEW at \in {"term", "slept"},
           main' = [main EXCEPT !.at = at], UNCHANGED <<jobs, foreground, handler, history>>
    PROVE  Always'
<1>1. /\ main \in Stances /\ handler.i = 0 /\ main.cmd = "kill" /\ main.pid = 0
      /\ foreground \in 0 .. MaxProcess /\ (foreground # 0 => foreground \in Born)
      /\ main.i \in 1 .. Len(jobs) + 1
      /\ \A j \in DOMAIN jobs : j < main.i => Doomed(jobs[j].pid)
      /\ \A j \in DOMAIN jobs : jobs[j].pid \in Process
  BY QuitStands
<1>2. /\ main' \in Stances /\ main'.at = at /\ main'.cmd = "kill" /\ main'.pid = 0 /\ main'.i = main.i
  BY <1>1 DEF Stances, Places
<1>3. /\ TypeOK' /\ Counted' /\ Spread' /\ InOrder' /\ Followed'
      /\ Born' = Born /\ Forked' = Forked
      /\ \A p \in Process : Doomed(p) => Doomed(p)'
  BY <1>1, <1>2, CallMoves
<1>4. Stands'
  BY <1>1, <1>2, <1>3 DEF Stands, Fresh, QuitLoop, OnList
<1>5. Passed'
  <2> SUFFICES ASSUME NEW j \in DOMAIN jobs, j < main.i PROVE Doomed(jobs[j].pid)'
    BY <1>2 DEF Passed, QuitLoop
  <2> QED
    BY <1>1, <1>3
<1> QED
  BY <1>3, <1>4, <1>5 DEF Always

LEMMA QuitTermAlways ==
    ASSUME Always, QuitTerm
    PROVE  Always'
<1>1. /\ main.at \in QuitLoop /\ OnList(main.i) /\ main' = [main EXCEPT !.at = "term"]
      /\ UNCHANGED kernel \/ Post(jobs[main.i].pid, "TERM")
      /\ UNCHANGED <<jobs, foreground, handler, history>>
  BY DEF QuitTerm, QuitLoop, Goto
<1>2. jobs[main.i].pid \in Born
  BY <1>1, QuitStands
<1>3. KernelMoves
  BY <1>1, <1>2, KernelRests, KernelPosts DEF Always
<1> QED
  BY <1>1, <1>3, SamePositionAlways

LEMMA QuitPollAlways ==
    ASSUME Always, QuitPoll
    PROVE  Always'
<1>1. /\ main.at \in QuitLoop /\ main.at = "term"
      /\ UNCHANGED <<jobs, foreground, handler, pend, sigchld, history>>
  BY DEF QuitPoll, QuitLoop
<1>2. OnList(main.i) /\ jobs[main.i].pid \in Process
  BY <1>1, QuitStands
<1>3. KernelMoves
  BY <1>1, <1>2, KernelReaps DEF Always, QuitPoll, Poll
<1>4. CASE proc[jobs[main.i].pid] = "gone"
  <2>1. main' = Turn
    BY <1>4 DEF QuitPoll
  <2>2. proc'[jobs[main.i].pid] = "gone"
    BY <1>2, <1>3, <1>4 DEF KernelMoves
  <2>3. proc'[jobs[main.i].pid] \notin Alive
    BY <2>2 DEF Alive
  <2> QED
    BY <1>1, <1>2, <1>3, <2>1, <2>3, TurnAlways
<1>5. CASE proc[jobs[main.i].pid] # "gone"
  <2>1. main' = [main EXCEPT !.at = "slept"]
    BY <1>5 DEF QuitPoll
  <2> QED
    BY <1>1, <1>2, <1>3, <2>1, SamePositionAlways
<1> QED
  BY <1>4, <1>5

LEMMA QuitKillAlways ==
    ASSUME Always, QuitKill
    PROVE  Always'
<1> DEFINE p == jobs[main.i].pid
<1>1. /\ main.at \in QuitLoop /\ main.at = "slept" /\ main' = Turn
      /\ UNCHANGED <<jobs, foreground, handler, sigchld, history>>
      /\ proc' = IF proc[p] \in Ended THEN [proc EXCEPT ![p] = "gone"] ELSE proc
      /\ pend' = IF proc[p] \in Alive THEN [pend EXCEPT ![p] = {"KILL"}] ELSE pend
  BY DEF QuitKill, QuitLoop, Poll
<1>2. OnList(main.i) /\ p \in Process /\ p \in Born
  BY <1>1, QuitStands
<1> HIDE DEF p
<1>3. KernelMoves
  BY <1>1, <1>2 DEF Always, TypeOK, Counted, KernelMoves, Doomed, Over, Ended, Alive, States, Born
<1>4. proc'[p] \in Alive => "KILL" \in pend'[p]
  BY <1>1, <1>2 DEF Always, TypeOK, Ended, Alive
<1> QED
  BY <1>1, <1>2, <1>3, <1>4, TurnAlways DEF p
-----------------------------------------------------------------------------
(* The start of a process *)

LEMMA Forks ==
    ASSUME Always, Fork
    PROVE  /\ Forked + 1 \in Process /\ Forked + 1 \notin Born /\ Forked \in Nat
           /\ Forked' = Forked + 1 /\ Born' = 1 .. Forked + 1
           /\ proc' = [proc EXCEPT ![Forked + 1] = "running"]
           /\ proc' \in [Process -> States]
           /\ Counted'
<1> DEFINE q == Forked + 1
<1>1. /\ Forked \in Nat /\ Forked <= MaxProcess /\ Born = 1 .. Forked /\ MaxProcess \in Nat
      /\ Forked < MaxProcess /\ proc' = [proc EXCEPT ![q] = "running"] /\ UNCHANGED <<pend, sigchld>>
      /\ proc \in [Process -> States]
  BY Facts DEF Always, Fork, TypeOK
<1>2. q \in Process /\ q \notin Born /\ q \in Nat
  BY <1>1 DEF Process
<1>3. 1 .. q = Born \cup {q} /\ q \in 0 .. MaxProcess /\ q \in Int /\ ~(1 > q) /\ q - 1 + 1 = q
  BY <1>1
<1>4. Cardinality(1 .. q) = q
  BY <1>3, FS_Interval
<1> HIDE DEF q
<1>5. proc' \in [Process -> States] /\ Born' = Born \cup {q}
  BY <1>1, <1>2 DEF Born, States, Alive
<1>6. Forked' = q
  <2>1. {p \in Process : proc'[p] # "unborn"} = 1 .. q
    BY <1>3, <1>5 DEF Born
  <2> QED
    BY <1>4, <2>1 DEF Forked
<1>7. \A p \in Process : proc'[p] = "unborn" => pend'[p] = {}
  BY <1>1, <1>2 DEF Always, Counted
<1>8. Counted'
  BY <1>3, <1>5, <1>6, <1>7 DEF Counted
<1> QED
  BY <1>1, <1>2, <1>3, <1>5, <1>6, <1>8 DEF q

LEMMA ForkAlways ==
    ASSUME Always, Fork, handler.i = 0, UNCHANGED <<jobs, foreground, handler, history>>,
           NEW at \in {"add", "to_wait"}, NEW c \in Commands,
           at = "to_wait" => c = "run",
           main' = Stand(at, c, 0, Forked + 1, "none")
    PROVE  Always'
<1> DEFINE q == Forked + 1
<1>1. /\ q \in Process /\ q \notin Born /\ Forked' = q /\ Born' = 1 .. q /\ Forked \in Nat
      /\ proc' = [proc EXCEPT ![q] = "running"] /\ proc' \in [Process -> States]
      /\ Counted' /\ UNCHANGED <<pend, sigchld>>
  BY Forks DEF Fork
<1>2. /\ jobs \in Seq(Job) /\ Born = 1 .. Forked /\ Born \subseteq Process
      /\ \A j \in DOMAIN jobs : /\ jobs[j].pid \in Born /\ jobs[j].pid \in Nat /\ j \in Nat
                               /\ j <= jobs[j].pid /\ jobs[j].pid <= Forked
      /\ MaxProcess \in Nat
  BY Facts DEF Always, Bounded
<1>3. /\ Born \subseteq Born' /\ 0 \in 0 .. MaxProcess + 1 /\ q \in 0 .. MaxProcess /\ q > 0 /\ q \in Born'
      /\ \A j \in DOMAIN jobs : jobs[j].pid <= q /\ jobs[j].pid < q /\ jobs[j].pid # q
  BY <1>1, <1>2 DEF Process
<1>4. main' = Stand(at, c, 0, q, "none")
  OBVIOUS
<1> HIDE DEF q
<1>5. /\ main' \in Stances /\ main'.at = at /\ main'.cmd = c /\ main'.i = 0 /\ main'.pid = q
  BY <1>3, <1>4 DEF Stand, Stances, Places
<1>6. jobs' \in Seq([pid : {p \in Process : proc'[p] # "unborn"}, stopped : BOOLEAN])
  <2>1. Job \subseteq [pid : {p \in Process : proc'[p] # "unborn"}, stopped : BOOLEAN]
    BY <1>3 DEF Job, Born
  <2> QED
    BY <1>2, <2>1, SeqMonotonic
<1>7. TypeOK'
  BY <1>1, <1>5, <1>6 DEF Always, TypeOK, Stances, history
<1>8. Spread' /\ InOrder'
  BY <1>1, <1>2, <1>3 DEF Always, Spread, InOrder
<1>9. Followed'
  <2>1. \A j \in DOMAIN jobs : proc'[jobs[j].pid] = proc[jobs[j].pid]
    BY <1>1, <1>2, <1>3 DEF Always, TypeOK
  <2> QED
    BY <1>1, <2>1 DEF Always, Followed, history
<1>10. Stands'
  BY <1>1, <1>3, <1>5 DEF Always, Stands, Fresh, QuitLoop
<1>11. Passed'
  BY <1>5 DEF Passed, QuitLoop
<1> QED
  BY <1>1, <1>7, <1>8, <1>9, <1>10, <1>11 DEF Always

LEMMA RunAlways ==
    ASSUME Always, Run \/ Background
    PROVE  Always'
<1>1. CASE Run
  <2>1. /\ Fork /\ handler.i = 0 /\ "run" \in Commands
        /\ main' = Stand("to_wait", "run", 0, Forked + 1, "none")
        /\ UNCHANGED <<jobs, foreground, handler, history>>
    BY <1>1 DEF Run, Typed, At
  <2> QED
    BY <2>1, ForkAlways
<1>2. CASE Background
  <2>1. /\ Fork /\ handler.i = 0 /\ "background" \in Commands
        /\ main' = Stand("add", "background", 0, Forked + 1, "none")
        /\ UNCHANGED <<jobs, foreground, handler, history>>
    BY <1>2 DEF Background, Typed, At
  <2> QED
    BY <2>1, ForkAlways
<1> QED
  BY <1>1, <1>2
-----------------------------------------------------------------------------
(* The steps of the main loop that change the list *)

LEMMA ListMoves ==
    ASSUME Always, handler.i = 0, ~sigchld, UNCHANGED <<foreground, handler, kernel, overtaken>>,
           jobs' \in Seq(Job), Ordered(jobs'), Bounded(jobs', Forked),
           \A j \in DOMAIN jobs' : proc[jobs'[j].pid] \in Over => jobs'[j].pid \in missed',
           dismissed' \subseteq Process, missed' \subseteq Process,
           main' \in Stances, main'.at = "prompt" => main' = Prompt
    PROVE  /\ TypeOK' /\ Counted' /\ Spread' /\ InOrder' /\ Followed'
           /\ Born' = Born /\ Forked' = Forked
<1>1. UNCHANGED <<proc, pend, sigchld>> /\ Born' = Born /\ Forked' = Forked
  BY DEF kernel, Born, Forked
<1>2. /\ jobs' \in Seq([pid : {p \in Process : proc'[p] # "unborn"}, stopped : BOOLEAN])
      /\ Spread' /\ InOrder'
  BY <1>1, NewList
<1>3. TypeOK'
  BY <1>1, <1>2 DEF Always, TypeOK, Stances
<1>4. Counted'
  BY <1>1 DEF Always, Counted
<1>5. Followed'
  BY <1>1 DEF Followed
<1> QED
  BY <1>1, <1>2, <1>3, <1>4, <1>5

(* A list that only lost a job, or had a mark set. *)
LEMMA NoneAdded ==
    ASSUME TypeOK, Counted, Spread, InOrder, NEW i,
           EraseAt(i) \/ SetStopped(i, TRUE) \/ SetStopped(i, FALSE) \/ UNCHANGED jobs
    PROVE  /\ jobs' \in Seq(Job) /\ Ordered(jobs') /\ Bounded(jobs', Forked)
           /\ \A j \in DOMAIN jobs' : \E k \in DOMAIN jobs : jobs'[j].pid = jobs[k].pid
<1>1. /\ jobs \in Seq(Job) /\ Ordered(jobs) /\ Bounded(jobs, Forked)
  BY Facts
<1>2. CASE UNCHANGED jobs
  BY <1>1, <1>2
<1>3. ASSUME NEW k, Drops(k)
      PROVE  /\ jobs' \in Seq(Job) /\ Ordered(jobs') /\ Bounded(jobs', Forked)
             /\ \A j \in DOMAIN jobs' : \E l \in DOMAIN jobs : jobs'[j].pid = jobs[l].pid
  BY <1>3 DEF Drops, Without
<1>4. CASE EraseAt(i)
  BY <1>2, <1>3, <1>4, Erased
<1>5. ASSUME NEW flag, Marks(i, flag)
      PROVE  /\ jobs' \in Seq(Job) /\ Ordered(jobs') /\ Bounded(jobs', Forked)
             /\ \A j \in DOMAIN jobs' : \E l \in DOMAIN jobs : jobs'[j].pid = jobs[l].pid
  BY <1>1, <1>5 DEF Marks, Ordered, Bounded
<1> QED
  BY <1>2, <1>4, <1>5, MarkSet

LEMMA AddBackgroundAlways ==
    ASSUME Always, AddBackground
    PROVE  Always'
<1>1. /\ main.at = "add" /\ handler.i = 0 /\ ~sigchld /\ AddJob(main.pid, FALSE) /\ main' = Prompt
      /\ UNCHANGED <<foreground, handler, kernel, overtaken, dismissed>>
  BY DEF AddBackground, At, Back
<1>2. main.pid = Forked /\ Forked > 0 /\ \A j \in DOMAIN jobs : jobs[j].pid < main.pid
  BY <1>1 DEF Always, Stands, Fresh
<1>3. main.pid \in Born /\ Born \subseteq Process
  BY <1>2, Facts DEF Always
<1>4. Adds(main.pid, FALSE)
  BY <1>1, <1>2, <1>3, Added DEF Always
<1>5. Born' = Born
  BY <1>1 DEF kernel, Born
<1>6. main' \in Stances /\ Stands' /\ Passed'
  BY <1>1, <1>5, PromptHolds
<1>7. /\ dismissed' \subseteq Process /\ missed' \subseteq Process
      /\ missed' = IF proc[main.pid] \in Over THEN missed \cup {main.pid} ELSE missed
  BY <1>1, <1>3 DEF AddJob, Always, TypeOK
<1>8. ASSUME NEW j \in DOMAIN jobs', proc[jobs'[j].pid] \in Over
      PROVE  jobs'[j].pid \in missed'
  BY <1>1, <1>4, <1>7, <1>8 DEF Adds, Always, Followed
<1>9. /\ TypeOK' /\ Counted' /\ Spread' /\ InOrder' /\ Followed'
  BY <1>1, <1>4, <1>6, <1>7, <1>8, ListMoves DEF Adds
<1> QED
  BY <1>6, <1>9 DEF Always

LEMMA RunWaitedAlways ==
    ASSUME Always, RunWaited
    PROVE  Always'
<1>1. /\ main.at = "waited" /\ main.cmd = "run" /\ handler.i = 0 /\ ~sigchld /\ main' = Prompt
      /\ IF main.arg = "stopped" THEN AddJob(main.pid, TRUE) ELSE UNCHANGED <<jobs, missed>>
      /\ UNCHANGED <<foreground, handler, kernel, overtaken, dismissed>>
  BY DEF RunWaited, At, Back
<1>2. Born' = Born
  BY <1>1 DEF kernel, Born
<1>3. main' \in Stances /\ Stands' /\ Passed' /\ (main'.at = "prompt" => main' = Prompt)
  BY <1>1, <1>2, PromptHolds
<1>4. CASE main.arg = "stopped"
  <2>1. /\ main.pid = Forked /\ Forked > 0 /\ AddJob(main.pid, TRUE)
        /\ \A j \in DOMAIN jobs : jobs[j].pid < main.pid
    BY <1>1, <1>4 DEF Always, Stands, Fresh
  <2>2. main.pid \in Born /\ Born \subseteq Process
    BY <2>1, Facts DEF Always
  <2>3. Adds(main.pid, TRUE)
    BY <2>1, <2>2, Added DEF Always
  <2>4. /\ dismissed' \subseteq Process /\ missed' \subseteq Process
        /\ missed' = IF proc[main.pid] \in Over THEN missed \cup {main.pid} ELSE missed
    BY <1>1, <2>1, <2>2 DEF AddJob, Always, TypeOK
  <2>5. ASSUME NEW j \in DOMAIN jobs', proc[jobs'[j].pid] \in Over
        PROVE  jobs'[j].pid \in missed'
    BY <1>1, <2>3, <2>4, <2>5 DEF Adds, Always, Followed
  <2>6. /\ TypeOK' /\ Counted' /\ Spread' /\ InOrder' /\ Followed'
    BY <1>1, <1>3, <2>3, <2>4, <2>5, ListMoves DEF Adds
  <2> QED
    BY <1>3, <2>6 DEF Always
<1>5. CASE main.arg # "stopped"
  <2>1. UNCHANGED <<jobs, foreground, handler, kernel, history>>
    BY <1>1, <1>5 DEF history
  <2>2. /\ TypeOK' /\ Counted' /\ Spread' /\ InOrder' /\ Followed'
    BY <1>3, <2>1, ShellMoves DEF Always, TypeOK
  <2> QED
    BY <1>3, <2>2 DEF Always
<1> QED
  BY <1>4, <1>5

(* A step that takes a job off the list or sets a mark, then goes to the   *)
(* prompt, crashes, or waits for the job.                                  *)
LEMMA JobChangeAlways ==
    ASSUME Always, handler.i = 0, ~sigchld, main.at \in {"sent", "waited"}, main.cmd # "run", NEW i,
           EraseAt(i) \/ SetStopped(i, TRUE) \/ SetStopped(i, FALSE) \/ UNCHANGED jobs,
           UNCHANGED <<foreground, handler, kernel, overtaken, missed>>,
           dismissed' = dismissed \/ dismissed' = dismissed \cup (Listed \ Listed'),
           \/ main' = Prompt
           \/ main' = [main EXCEPT !.at = "crashed"]
           \/ main' = [main EXCEPT !.at = "to_wait"] /\ main.at = "sent" /\ main.cmd = "fg"
    PROVE  Always'
<1>1. /\ jobs' \in Seq(Job) /\ Ordered(jobs') /\ Bounded(jobs', Forked)
      /\ \A j \in DOMAIN jobs' : \E k \in DOMAIN jobs : jobs'[j].pid = jobs[k].pid
  BY NoneAdded DEF Always
<1>2. Born' = Born /\ UNCHANGED <<proc, sigchld>>
  BY DEF kernel, Born
<1>3. /\ main \in Stances /\ main.cmd \in {"fg", "bg", "kill"} /\ (main.at = "sent" => main.pid = 0)
      /\ (foreground # 0 => foreground \in Born)
  BY DEF Always, TypeOK, Stances, Stands
<1>4. missed' \subseteq Process /\ dismissed' \subseteq Process
  <2>1. Listed \subseteq Process
    BY Facts DEF Always, Listed
  <2> QED
    BY <2>1 DEF Always, TypeOK
<1>5. ASSUME NEW j \in DOMAIN jobs', proc[jobs'[j].pid] \in Over
      PROVE  jobs'[j].pid \in missed'
  BY <1>1, <1>5 DEF Always, Followed
<1>6. /\ main' \in Stances /\ Stands' /\ Passed' /\ (main'.at = "prompt" => main' = Prompt)
  <2>1. CASE main' = Prompt
    BY <1>2, <2>1, PromptHolds
  <2>2. CASE main' = [main EXCEPT !.at = "crashed"]
    <3>1. main' \in Stances /\ main'.at = "crashed"
      BY <1>3, <2>2 DEF Stances, Places
    <3> QED
      BY <1>2, <1>3, <3>1 DEF Stands, Passed, Fresh, QuitLoop
  <2>3. CASE main' = [main EXCEPT !.at = "to_wait"] /\ main.at = "sent" /\ main.cmd = "fg"
    <3>1. main' \in Stances /\ main'.at = "to_wait" /\ main'.cmd = "fg" /\ main'.pid = 0
      BY <1>3, <2>3 DEF Stances, Places
    <3> QED
      BY <1>2, <1>3, <3>1 DEF Stands, Passed, Fresh, QuitLoop
  <2> QED
    BY <2>1, <2>2, <2>3
<1>7. /\ TypeOK' /\ Counted' /\ Spread' /\ InOrder' /\ Followed'
  BY <1>1, <1>4, <1>5, <1>6, ListMoves
<1> QED
  BY <1>6, <1>7 DEF Always

LEMMA SignalSentAlways ==
    ASSUME Always, SignalSent
    PROVE  Always'
<1>1. /\ main.at = "sent" /\ handler.i = 0 /\ ~sigchld /\ main.cmd # "run"
  BY DEF SignalSent, At, Always, Stands
<1>2. EraseAt(main.i) \/ SetStopped(main.i, TRUE) \/ SetStopped(main.i, FALSE)
  BY DEF SignalSent
<1>3. /\ UNCHANGED <<foreground, handler, kernel, overtaken, missed>>
      /\ dismissed' = dismissed \/ dismissed' = dismissed \cup (Listed \ Listed')
      /\ \/ main' = Prompt
         \/ main' = [main EXCEPT !.at = "crashed"]
         \/ main' = [main EXCEPT !.at = "to_wait"] /\ main.cmd = "fg"
  BY DEF SignalSent, Goto, Back
<1> QED
  BY <1>1, <1>2, <1>3, JobChangeAlways

LEMMA FgWaitedAlways ==
    ASSUME Always, FgWaited
    PROVE  Always'
<1>1. /\ main.at = "waited" /\ handler.i = 0 /\ ~sigchld /\ main.cmd # "run"
  BY DEF FgWaited, At
<1>2. EraseAt(main.i) \/ SetStopped(main.i, TRUE) \/ UNCHANGED jobs
  BY DEF FgWaited
<1>3. /\ UNCHANGED <<foreground, handler, kernel, overtaken, missed>> /\ dismissed' = dismissed
      /\ main' = Prompt \/ main' = [main EXCEPT !.at = "crashed"]
  BY DEF FgWaited, Goto, Back, history
<1> QED
  BY <1>1, <1>2, <1>3, JobChangeAlways
-----------------------------------------------------------------------------
(* The cleaning *)

LEMMA CleanHolds ==
    ASSUME Always, main.at \notin QuitLoop \cup {"exit", "crashed"}, UNCHANGED <<main, foreground>>,
           Born' = Born, Forked' = Forked, \A p \in Process : proc[p] = "gone" => proc'[p] = "gone",
           \A j \in DOMAIN jobs' : \E k \in DOMAIN jobs : jobs'[j].pid = jobs[k].pid
    PROVE  Stands' /\ Passed'
<1>1. Fresh' => \A j \in DOMAIN jobs' : jobs'[j].pid < main.pid
  BY DEF Always, Stands, Fresh
<1>2. main.at = "waited" /\ main.arg # "stopped" => proc'[main.pid] = "gone"
  BY DEF Always, Stands, Born
<1>3. Stands'
  BY <1>1, <1>2 DEF Always, Stands, Fresh, QuitLoop
<1>4. Passed'
  BY DEF Passed, QuitLoop
<1> QED
  BY <1>3, <1>4

LEMMA EnterCleanAlways ==
    ASSUME Always, EnterClean
    PROVE  Always'
<1>1. /\ main.at \notin QuitLoop \cup {"exit", "crashed"}
      /\ sigchld' = FALSE /\ handler' = [i |-> 1, status |-> "garbage"]
      /\ UNCHANGED <<jobs, foreground, main, proc, pend, history>>
  BY DEF EnterClean, QuitLoop
<1>2. Born' = Born /\ Forked' = Forked
  BY <1>1 DEF Born, Forked
<1>3. Stands' /\ Passed'
  BY <1>1, <1>2, CleanHolds
<1>4. 1 \in 0 .. MaxProcess + 1 /\ \A j \in DOMAIN jobs : 1 \in 1 .. j
  BY Facts DEF Always
<1>5. TypeOK'
  BY <1>1, <1>4 DEF Always, TypeOK, history
<1>6. Counted' /\ Spread' /\ InOrder'
  BY <1>1, <1>2 DEF Always, Counted, Spread, InOrder
<1>7. Followed'
  BY <1>1, <1>4 DEF Followed
<1> QED
  BY <1>3, <1>5, <1>6, <1>7 DEF Always

(* The loop goes on to the next position, or ends, without a job changing. *)
LEMMA NextJobAlways ==
    ASSUME Always, handler.i # 0, UNCHANGED <<jobs, foreground, main, kernel, overtaken, dismissed>>,
           handler' \in [i : 0 .. MaxProcess + 1, status : {"garbage", "ended"}],
           missed \subseteq missed', missed' \subseteq Process,
           \A j \in DOMAIN jobs : handler.i \in 1 .. j /\ proc[jobs[j].pid] \in Over =>
                                  handler'.i \in 1 .. j \/ jobs[j].pid \in missed'
    PROVE  Always'
<1>1. main.at \notin QuitLoop \cup {"exit", "crashed"}
  BY DEF Always, Stands, QuitLoop
<1>2. Born' = Born /\ Forked' = Forked /\ UNCHANGED <<proc, pend, sigchld>>
  BY DEF Born, Forked, kernel
<1>3. Stands' /\ Passed'
  BY <1>1, <1>2, CleanHolds
<1>4. TypeOK'
  BY <1>2 DEF Always, TypeOK
<1>5. Counted' /\ Spread' /\ InOrder'
  BY <1>2 DEF Always, Counted, Spread, InOrder
<1>6. Followed'
  BY <1>2 DEF Always, Followed
<1> QED
  BY <1>3, <1>4, <1>5, <1>6 DEF Always

(* The positions that lie before the cleaning, and the one it stands at. *)
LEMMA CleanStands ==
    ASSUME Always, handler.i # 0
    PROVE  /\ handler.i \in Nat /\ handler \in [i : 0 .. MaxProcess + 1, status : {"garbage", "ended"}]
           /\ DOMAIN jobs = 1 .. Len(jobs) /\ Len(jobs) \in Nat
           /\ \A j \in DOMAIN jobs : j \in Nat /\ jobs[j].pid \in Process
           /\ OnList(handler.i) => /\ handler.i + 1 \in 0 .. MaxProcess + 1
                                   /\ jobs[handler.i].pid \in Process /\ jobs[handler.i].pid \in Born
           /\ \A j \in DOMAIN jobs : handler.i \in 1 .. j => handler.i + 1 \in 1 .. j \/ j = handler.i
           /\ ~OnList(handler.i) => \A j \in DOMAIN jobs : handler.i \notin 1 .. j
<1>1. /\ handler \in [i : 0 .. MaxProcess + 1, status : {"garbage", "ended"}]
      /\ DOMAIN jobs = 1 .. Len(jobs) /\ Len(jobs) \in Nat /\ Len(jobs) <= MaxProcess /\ MaxProcess \in Nat
      /\ \A j \in DOMAIN jobs : j \in Nat /\ jobs[j].pid \in Process /\ jobs[j].pid \in Born
  BY Facts DEF Always, TypeOK
<1>2. handler.i \in 0 .. MaxProcess + 1
  BY <1>1
<1> QED
  BY <1>1, <1>2 DEF OnList

LEMMA KeepJobAlways ==
    ASSUME Always, KeepJob \/ LeaveClean
    PROVE  Always'
<1>1. CASE KeepJob
  <2>1. /\ OnList(handler.i) /\ proc[jobs[handler.i].pid] \in Alive
        /\ handler' = [handler EXCEPT !.i = handler.i + 1]
        /\ UNCHANGED <<jobs, foreground, main, kernel, history>>
    BY <1>1 DEF KeepJob
  <2>2. handler.i # 0
    BY <2>1, Facts DEF OnList, Always
  <2>3. /\ handler' \in [i : 0 .. MaxProcess + 1, status : {"garbage", "ended"}]
        /\ handler'.i = handler.i + 1
    BY <2>1, <2>2, CleanStands
  <2>4. ASSUME NEW j \in DOMAIN jobs, handler.i \in 1 .. j, proc[jobs[j].pid] \in Over
        PROVE  handler'.i \in 1 .. j
    <3>1. j # handler.i
      BY <2>1, <2>4 DEF Over, Ended, Alive
    <3>2. handler.i + 1 \in 1 .. j
      BY <2>2, <2>4, <3>1, CleanStands
    <3> QED
      BY <2>3, <3>2
  <2> QED
    BY <2>1, <2>2, <2>3, <2>4, NextJobAlways DEF history, Always, TypeOK
<1>2. CASE LeaveClean
  <2>1. /\ handler.i # 0 /\ ~OnList(handler.i) /\ handler' = Idle
        /\ UNCHANGED <<jobs, foreground, main, kernel, history>>
    BY <1>2 DEF LeaveClean
  <2>2. /\ handler' \in [i : 0 .. MaxProcess + 1, status : {"garbage", "ended"}]
    BY <2>1, JobsAssumption DEF Idle
  <2>3. \A j \in DOMAIN jobs : handler.i \notin 1 .. j
    BY <2>1, CleanStands
  <2> QED
    BY <2>1, <2>2, <2>3, NextJobAlways DEF history, Always, TypeOK
<1> QED
  BY <1>1, <1>2

(* The job at the position is erased, which moves the ones after it down.  *)
LEMMA EraseAlways ==
    ASSUME Always, OnList(handler.i), EraseInHandler(handler.i),
           UNCHANGED <<foreground, main, pend, sigchld>>,
           \/ proc' = proc
           \/ /\ proc[jobs[handler.i].pid] \in Ended
              /\ proc' = [proc EXCEPT ![jobs[handler.i].pid] = "gone"],
           handler' \in [i : 0 .. MaxProcess + 1, status : {"garbage", "ended"}],
           handler'.i = handler.i + 1
    PROVE  Always'
<1> DEFINE k == handler.i
           p == jobs[k].pid
<1>1. k # 0 /\ k \in DOMAIN jobs
  BY Facts DEF OnList, Always
<1>2. /\ k \in Nat /\ p \in Process /\ p \in Born
      /\ \A j \in DOMAIN jobs : j \in Nat /\ jobs[j].pid \in Process
  BY <1>1, CleanStands
<1>3. /\ Drops(k)
      /\ overtaken' = (overtaken \/ main.i # 0) /\ UNCHANGED dismissed
      /\ missed' = (missed \ {p}) \cup
                     {jobs[j].pid : j \in {l \in DOMAIN jobs : l = k + 1 /\ proc[jobs[l].pid] \in Over}}
  BY Erased DEF EraseInHandler, Always
<1>4. /\ \/ proc' = proc
         \/ proc[p] \in Ended /\ proc' = [proc EXCEPT ![p] = "gone"]
      /\ handler'.i = k + 1
  OBVIOUS
<1> HIDE DEF k, p
<1>5. KernelMoves
  BY <1>2, <1>4, KernelReaps DEF Always
<1>6. /\ Born' = Born /\ Forked' = Forked /\ \A q \in Process : q # p => proc'[q] = proc[q]
      /\ \A q \in Process : proc[q] = "gone" => proc'[q] = "gone"
  <2>1. \A q \in Process : q # p => proc'[q] = proc[q]
    BY <1>2, <1>4 DEF Always, TypeOK
  <2> QED
    BY <1>5, <2>1, NoneBorn DEF Always, KernelMoves
<1>7. /\ jobs' \in Seq([pid : {q \in Process : proc'[q] # "unborn"}, stopped : BOOLEAN])
      /\ Spread' /\ InOrder'
  BY <1>3, <1>6, NewList DEF Drops, Without
<1>8. missed' \subseteq Process
  BY <1>2, <1>3 DEF Always, TypeOK
<1>9. TypeOK'
  BY <1>3, <1>5, <1>7, <1>8 DEF Always, TypeOK, KernelMoves
<1>10. Counted'
  BY <1>5, <1>6 DEF Always, Counted, KernelMoves
<1>11. Stands' /\ Passed'
  <2>1. main.at \notin QuitLoop \cup {"exit", "crashed"}
    BY <1>1 DEF Always, Stands, QuitLoop, k
  <2>2. \A j \in DOMAIN jobs' : \E l \in DOMAIN jobs : jobs'[j].pid = jobs[l].pid
    BY <1>3 DEF Drops, Without
  <2> QED
    BY <1>6, <2>1, <2>2, CleanHolds
<1>12. Followed'
  <2> SUFFICES ASSUME NEW j \in DOMAIN jobs', proc'[jobs'[j].pid] \in Over
               PROVE  jobs'[j].pid \in missed' \/ sigchld' \/ handler'.i \in 1 .. j
    BY DEF Followed
  <2>1. j \in 1 .. Len(jobs) - 1 /\ Len(jobs) \in Nat
    BY <1>3, Facts DEF Drops, Without, Always
  <2>2. jobs'[j].pid # p
    BY <1>3 DEF Drops, Without, p
  <2>3. CASE j < k
    <3>1. j \in DOMAIN jobs /\ jobs'[j] = jobs[j]
      BY <1>3, <2>3 DEF Drops, Without
    <3>2. proc[jobs[j].pid] \in Over
      BY <1>2, <1>6, <2>2, <3>1
    <3>3. handler.i \notin 1 .. j
      BY <1>2, <2>1, <2>3 DEF k
    <3>4. jobs[j].pid \in missed \/ sigchld
      BY <3>1, <3>2, <3>3 DEF Always, Followed
    <3> QED
      BY <1>3, <2>2, <3>1, <3>4
  <2>4. CASE j = k
    <3>1. j + 1 \in DOMAIN jobs /\ jobs'[j] = jobs[j + 1]
      BY <1>2, <1>3, <2>4 DEF Drops, Without
    <3>2. proc[jobs[j + 1].pid] \in Over
      BY <1>2, <1>6, <2>2, <3>1
    <3> QED
      BY <1>3, <2>4, <3>1, <3>2
  <2>5. CASE k < j
    <3>1. k + 1 \in 1 .. j
      BY <1>2, <2>1, <2>5
    <3> QED
      BY <1>4, <3>1
  <2> QED
    BY <1>2, <2>1, <2>3, <2>4, <2>5
<1> QED
  BY <1>7, <1>9, <1>10, <1>11, <1>12 DEF Always

LEMMA ReapJobAlways ==
    ASSUME Always, ReapJob
    PROVE  Always'
<1>1. /\ OnList(handler.i) /\ proc[jobs[handler.i].pid] \in Ended
      /\ proc' = [proc EXCEPT ![jobs[handler.i].pid] = "gone"] /\ EraseInHandler(handler.i)
      /\ handler' = [i |-> handler.i + 1, status |-> "ended"]
      /\ UNCHANGED <<foreground, main, pend, sigchld>>
  BY DEF ReapJob
<1>2. handler.i # 0
  BY <1>1, Facts DEF OnList, Always
<1>3. /\ handler' \in [i : 0 .. MaxProcess + 1, status : {"garbage", "ended"}]
      /\ handler'.i = handler.i + 1
  BY <1>1, <1>2, CleanStands
<1> QED
  BY <1>1, <1>3, EraseAlways

LEMMA StaleJobAlways ==
    ASSUME Always, StaleJob
    PROVE  Always'
<1>1. /\ OnList(handler.i) /\ handler' = [handler EXCEPT !.i = handler.i + 1]
      /\ UNCHANGED <<foreground, main, kernel>>
  BY DEF StaleJob
<1>2. handler.i # 0
  BY <1>1, Facts DEF OnList, Always
<1>3. /\ handler' \in [i : 0 .. MaxProcess + 1, status : {"garbage", "ended"}]
      /\ handler'.i = handler.i + 1 /\ jobs[handler.i].pid \in Process
  BY <1>1, <1>2, CleanStands
<1>4. CASE EraseInHandler(handler.i)
  BY <1>1, <1>3, <1>4, EraseAlways DEF kernel
<1>5. CASE missed' = missed \cup {jobs[handler.i].pid} /\ UNCHANGED <<jobs, overtaken, dismissed>>
  <2>1. missed \subseteq missed' /\ missed' \subseteq Process
    BY <1>3, <1>5 DEF Always, TypeOK
  <2>2. ASSUME NEW j \in DOMAIN jobs, handler.i \in 1 .. j, proc[jobs[j].pid] \in Over
        PROVE  handler'.i \in 1 .. j \/ jobs[j].pid \in missed'
    <3>1. handler.i + 1 \in 1 .. j \/ j = handler.i
      BY <1>2, <2>2, CleanStands
    <3> QED
      BY <1>3, <1>5, <3>1
  <2> QED
    BY <1>1, <1>2, <1>3, <1>5, <2>1, <2>2, NextJobAlways
<1> QED
  BY <1>4, <1>5 DEF StaleJob
-----------------------------------------------------------------------------
(* What holds whatever the handlers do *)

LEMMA InitAlways ==
    ASSUME Init
    PROVE  Always
<1>1. /\ Born = {} /\ Forked = 0 /\ MaxProcess \in Nat
  <2>1. Born = {}
    BY DEF Init, Born
  <2>2. Cardinality({}) = 0
    BY FS_EmptySet
  <2> QED
    BY <2>1, <2>2, JobsAssumption DEF Born, Forked
<1>2. jobs = <<>> /\ DOMAIN jobs = {} /\ \A S : jobs \in Seq(S)
  <2>1. \A S : <<>> \in Seq(S)
    BY EmptySeq
  <2> QED
    BY <2>1 DEF Init
<1>3. /\ main = Prompt /\ main.at = "prompt" /\ main.cmd = "none" /\ main.i = 0 /\ main.pid = 0
      /\ main.arg = "none" /\ main \in Stances
  BY <1>1 DEF Init, Prompt, Stand, Stances, Places
<1>4. TypeOK
  BY <1>1, <1>2, <1>3 DEF Init, TypeOK, Idle, Stances, States
<1>5. Counted
  BY <1>1 DEF Init, Counted
<1>6. Spread /\ InOrder /\ Followed
  BY <1>2 DEF Spread, InOrder, Followed
<1>7. Stands
  BY <1>3 DEF Init, Stands, Fresh, QuitLoop
<1>8. Passed
  BY <1>3 DEF Passed, QuitLoop
<1> QED
  BY <1>4, <1>5, <1>6, <1>7, <1>8 DEF Always

LEMMA NextAlways ==
    ASSUME Always, [Next]_vars
    PROVE  Always'
<1>1. CASE UNCHANGED vars
  <2>1. UNCHANGED <<jobs, foreground, main, handler, kernel, history>>
    BY <1>1 DEF vars
  <2>2. KernelMoves
    BY <2>1, KernelRests DEF Always
  <2> QED
    BY <2>1, <2>2, StayAlways
<1>2. CASE User
  <2>1. CASE Run \/ Background
    BY <2>1, RunAlways
  <2>2. CASE Fg \/ Bg
    BY <2>2, ChooseAlways DEF Fg, Bg
  <2>3. CASE Kill
    BY <2>3, KillAlways
  <2>4. CASE Quit
    BY <2>4, QuitAlways
  <2>5. CASE ControlC \/ ControlZ
    BY <2>5, ControlAlways DEF ControlC, ControlZ
  <2> QED
    BY <1>2, <2>1, <2>2, <2>3, <2>4, <2>5 DEF User
<1>3. CASE Continue
  BY <1>3, AddBackgroundAlways, WakeJobAlways, SendSignalAlways, SignalSentAlways, ToWaitAlways,
     WaitReturnsAlways, RunWaitedAlways, FgWaitedAlways, QuitTermAlways, QuitPollAlways,
     QuitKillAlways, QuitExitAlways DEF Continue
<1>4. CASE Clean
  BY <1>4, EnterCleanAlways, KeepJobAlways, ReapJobAlways, StaleJobAlways DEF Clean
<1>5. CASE Processes
  BY <1>5, ProcessesAlways
<1> QED
  BY <1>1, <1>2, <1>3, <1>4, <1>5 DEF Next

(* The part of the invariant that no handler can disturb. *)
THEOREM JobInvariant == Spec => []Always
<1>1. Init => Always
  BY InitAlways
<1>2. Always /\ [Next]_vars => Always'
  BY NextAlways
<1> QED
  BY <1>1, <1>2, PTL DEF Spec

(* Jobs.cpp and signals.cpp keep to their types: no position or process    *)
(* number leaves its range, and nothing is listed that was not forked.     *)
THEOREM JobTypes == Spec => []TypeOK
<1>1. Always => TypeOK
  BY DEF Always
<1> QED
  BY <1>1, JobInvariant, PTL

(* The list stays in the order of the processes' start, so addJob's number *)
(* (the last one plus one) is free and no process is on it twice.          *)
THEOREM ListInOrder == Spec => []InOrder
<1>1. Always => InOrder
  BY DEF Always
<1> QED
  BY <1>1, JobInvariant, PTL

(* At the prompt a finished job is on the list for one of three reasons    *)
(* only, however many ends one SIGCHLD stands for.                         *)
THEOREM FinishedJobs == Spec => []FinishedExplained
<1>1. Always => FinishedExplained
  BY DEF Always, Followed, FinishedExplained, At
<1> QED
  BY <1>1, JobInvariant, PTL

(* quit kill leaves no job alive that is not about to die of SIGKILL.      *)
THEOREM QuitIsFinal == Spec => []QuitKillsAll
<1>1. ASSUME Always, main = Stand("exit", "kill", 0, 0, "none")
      PROVE  \A i \in DOMAIN jobs : proc[jobs[i].pid] \in Alive => "KILL" \in pend[jobs[i].pid]
  BY <1>1 DEF Always, Passed, Stand, QuitLoop, Doomed
<1>2. Always => QuitKillsAll
  BY <1>1 DEF QuitKillsAll
<1> QED
  BY <1>2, JobInvariant, PTL

(* No step of the cleaning takes a job off the list whose process lives.   *)
LEMMA CleanKeepsLiving ==
    ASSUME Always, [Next]_vars, handler.i # 0, NEW i \in DOMAIN jobs, proc[jobs[i].pid] \in Alive
    PROVE  jobs[i].pid \in Listed'
<1>1. CASE UNCHANGED jobs
  BY <1>1 DEF Listed
<1>2. ASSUME EraseInHandler(handler.i), OnList(handler.i), proc[jobs[handler.i].pid] \notin Alive
      PROVE  jobs[i].pid \in Listed'
  <2>1. Drops(handler.i)
    BY <1>2, Erased DEF EraseInHandler, Always
  <2>2. \E j \in DOMAIN jobs' : jobs'[j] = jobs[i]
    BY <1>2, <2>1 DEF Drops, Without
  <2> QED
    BY <2>2 DEF Listed
<1>3. CASE ReapJob
  BY <1>2, <1>3 DEF ReapJob, Alive, Ended
<1>4. CASE StaleJob
  BY <1>1, <1>2, <1>4 DEF StaleJob, Alive
<1>5. CASE KeepJob \/ EnterClean \/ LeaveClean
  BY <1>1, <1>5 DEF KeepJob, EnterClean, LeaveClean
<1>6. CASE User
  BY <1>1, <1>6 DEF User, Run, Background, Fg, Bg, Choose, Kill, Quit, ControlC, ControlZ, Control
<1>7. CASE Continue
  BY <1>1, <1>7 DEF Continue, AddBackground, WakeJob, SendSignal, SignalSent, ToWait, WaitReturns,
     RunWaited, FgWaited, QuitTerm, QuitPoll, QuitKill, QuitExit, At
<1>8. CASE Processes
  BY <1>1, <1>8 DEF Processes, TakeSignal, Exits, ReadsTerminal
<1>9. CASE UNCHANGED vars
  BY <1>1, <1>9 DEF vars
<1> QED
  BY <1>3, <1>4, <1>5, <1>6, <1>7, <1>8, <1>9 DEF Next, Clean

(* CleanFinished never takes the job of a living process off the list,     *)
(* also when it acts on a status that no waitpid wrote.                    *)
THEOREM CleanIsSound == Spec => CleanSound
<1>1. ASSUME Always, [Next]_vars
      PROVE  handler.i # 0 =>
               \A i \in DOMAIN jobs : proc[jobs[i].pid] \in Alive => jobs[i].pid \in Listed'
  BY <1>1, CleanKeepsLiving
<1>2. Always /\ [Next]_vars =>
        [handler.i # 0 =>
           \A i \in DOMAIN jobs : proc[jobs[i].pid] \in Alive => jobs[i].pid \in Listed']_vars
  BY <1>1
<1> QED
  BY <1>2, JobInvariant, PTL DEF Spec, CleanSound
-----------------------------------------------------------------------------
(* What holds as long as no handler comes between a command and its        *)
(* position: the kernel and the cleaning                                   *)

(* No process that runs is stopped, but by reading the terminal. *)
RunsOn ==
    \A p \in Process : p \notin Reader /\ Runs(p) =>
       (proc'[p] \in Alive => proc'[p] = "running" /\ "TSTP" \notin pend'[p])

LEMMA RestRuns ==
    ASSUME UNCHANGED <<proc, pend>>
    PROVE  RunsOn
BY DEF RunsOn, Runs

LEMMA ActRuns ==
    ASSUME TypeOK, NEW p \in Process, TakeSignal(p) \/ Exits(p) \/ ReadsTerminal(p)
    PROVE  RunsOn
<1> SUFFICES ASSUME NEW q \in Process, q \notin Reader, Runs(q), proc'[q] \in Alive
             PROVE  proc'[q] = "running" /\ "TSTP" \notin pend'[q]
  BY DEF RunsOn
<1>1. CASE q # p
  BY <1>1 DEF TypeOK, TakeSignal, Exits, ReadsTerminal, Become, Runs, Alive
<1>2. CASE q = p /\ TakeSignal(p)
  <2>1. proc[p] = "running" /\ "TSTP" \notin pend[p]
    BY <1>2 DEF TakeSignal, Runs
  <2>2. PICK x \in pend[p] :
          IF x \in {"INT", "TERM"} /\ p \in Stubborn
          THEN /\ pend' = [pend EXCEPT ![p] = @ \ {x}]
               /\ UNCHANGED <<proc, sigchld>>
          ELSE IF x = "TSTP"
          THEN /\ pend' = [pend EXCEPT ![p] = @ \ {x}]
               /\ Become(p, "stopped")
          ELSE /\ pend' = [pend EXCEPT ![p] = {}]
               /\ Become(p, "killed")
    BY <1>2 DEF TakeSignal
  <2>3. x # "TSTP"
    BY <2>1, <2>2
  <2> QED
    BY <1>2, <2>1, <2>2, <2>3 DEF TypeOK, Become, Alive
<1>3. CASE q = p /\ Exits(p)
  BY <1>3 DEF TypeOK, Exits, Become, Alive
<1>4. CASE q = p /\ ReadsTerminal(p)
  BY <1>4 DEF ReadsTerminal
<1> QED
  BY <1>1, <1>2, <1>3, <1>4

(* A signal other than SIGTSTP, or one sent to a process that has ended.   *)
LEMMA PostRuns ==
    ASSUME TypeOK, NEW p \in Process, NEW x \in {"INT", "TSTP", "CONT", "TERM", "KILL"}, Post(p, x),
           NEW q \in Process, q # p \/ x # "TSTP" \/ proc[p] \notin Alive, Runs(q)
    PROVE  proc'[q] \in Alive => proc'[q] = "running" /\ "TSTP" \notin pend'[q]
<1>1. CASE q # p
  BY <1>1 DEF TypeOK, Post, Runs
<1>2. CASE q = p /\ x = "CONT"
  BY <1>2 DEF TypeOK, Post, Runs
<1>3. CASE q = p /\ x # "CONT"
  <2>1. /\ UNCHANGED proc
        /\ pend' = [pend EXCEPT ![p] =
                        CASE proc[p] \notin Alive -> @
                          [] x = "KILL" \/ "KILL" \in @ -> {"KILL"}
                          [] OTHER -> @ \cup {x}]
    BY <1>3 DEF Post
  <2>2. CASE proc[p] \notin Alive
    BY <1>3, <2>1, <2>2
  <2>3. CASE proc[p] \in Alive
    <3>1. x # "TSTP" /\ "TSTP" \notin pend[p]
      BY <1>3, <2>3 DEF Runs
    <3>2. "TSTP" \notin pend'[p]
      BY <2>1, <2>3, <3>1 DEF TypeOK
    <3> QED
      BY <1>3, <2>1, <3>2 DEF Runs
  <2> QED
    BY <2>2, <2>3
<1> QED
  BY <1>1, <1>2, <1>3

LEMMA KeptMoves ==
    ASSUME Kept, KernelMoves,
           \A p \in Process : p \in Listed \cup {main.pid} \cup dismissed =>
              \/ p \in Listed' \cup {main'.pid} \cup dismissed'
              \/ (proc'[p] \in Alive => "KILL" \in pend'[p])
    PROVE  Kept'
<1> SUFFICES ASSUME NEW p \in Process, proc'[p] \in Alive
             PROVE  p \in Listed' \cup {main'.pid} \cup dismissed' \/ "KILL" \in pend'[p]
  BY DEF Kept
<1>1. proc[p] \in Alive
  BY DEF KernelMoves
<1>2. "KILL" \in pend[p] => "KILL" \in pend'[p]
  BY DEF KernelMoves, Doomed
<1> QED
  BY <1>1, <1>2 DEF Kept

LEMMA StayTidy ==
    ASSUME Always, Undisturbed, KernelMoves, RunsOn, UNCHANGED <<jobs, main, dismissed>>,
           foreground' \in {0, foreground}
    PROVE  Undisturbed'
<1>1. /\ Kept /\ Position /\ Marked /\ Foreground
      /\ \A j \in DOMAIN jobs : jobs[j].pid \in Process /\ j \in Nat /\ j # 0
      /\ Fresh => main.pid \in Process
      /\ foreground # 0 => foreground \in Process
  <2>1. Fresh => main.pid \in 1 .. Forked
    BY Facts DEF Always, Stands
  <2> QED
    BY <2>1, Facts DEF Undisturbed, Always, Stands, Process
<1>2. \A p \in Process : /\ (p \notin Reader /\ Runs(p) => Runs(p)')
                        /\ (proc'[p] \in Alive => proc[p] \in Alive)
                        /\ (Doomed(p) => Doomed(p)')
  BY DEF RunsOn, Runs, KernelMoves, Doomed
<1>3. Kept'
  <2>1. Listed' = Listed
    BY DEF Listed
  <2> QED
    BY <1>1, <2>1, KeptMoves
<1>4. Position'
  BY <1>1, <1>2 DEF Position, OnList
<1>5. Marked'
  <2>1. main.at = "sent" => OnList(main.i)
    BY <1>1 DEF Position
  <2> QED
    BY <1>1, <1>2, <2>1 DEF Marked, OnList, Fresh
<1>6. Foreground'
  BY <1>1, <1>2 DEF Foreground
<1> QED
  BY <1>3, <1>4, <1>5, <1>6 DEF Undisturbed

LEMMA ProcessesTidy ==
    ASSUME Always, Undisturbed, Processes
    PROVE  Undisturbed'
<1>1. PICK p \in Process : TakeSignal(p) \/ Exits(p) \/ ReadsTerminal(p)
  BY DEF Processes
<1>2. KernelMoves /\ RunsOn
  BY <1>1, KernelActs, ActRuns DEF Always
<1>3. UNCHANGED <<jobs, main, dismissed, foreground>>
  BY <1>1 DEF TakeSignal, Exits, ReadsTerminal, history
<1> QED
  BY <1>2, <1>3, StayTidy

(* Ctrl-Z stops the process that is waited for, and no other: one that the *)
(* shell has waited for does not live, unless it reads the terminal.       *)
LEMMA ControlTidy ==
    ASSUME Always, Undisturbed, NEW x \in {"INT", "TSTP"}, Control(x)
    PROVE  Undisturbed'
<1> DEFINE f == foreground
<1>1. /\ f # 0 /\ Post(f, x) /\ foreground' = 0
      /\ UNCHANGED <<jobs, main, dismissed>>
  BY DEF Control, history
<1>2. f \in Born /\ f \in Process
  BY <1>1, Facts DEF Always, Stands
<1>3. KernelMoves
  BY <1>1, <1>2, KernelPosts DEF Always
<1>4. /\ Kept /\ Position /\ Marked /\ Foreground /\ TypeOK /\ Stands /\ InOrder
  BY DEF Undisturbed, Always
<1>5. ASSUME NEW q \in Process, q # f \/ x # "TSTP" \/ proc[f] \notin Alive, Runs(q)
      PROVE  proc'[q] \in Alive => proc'[q] = "running" /\ "TSTP" \notin pend'[q]
  BY <1>1, <1>2, <1>4, <1>5, PostRuns
<1>6. CASE x # "TSTP" \/ proc[f] \notin Alive \/ f \in Reader
  <2>1. RunsOn
    BY <1>5, <1>6 DEF RunsOn
  <2> QED
    BY <1>1, <1>3, <2>1, StayTidy
<1>7. CASE proc[f] \in Alive /\ f \notin Reader
  <2>1. main.at = "wait" /\ f = main.pid
    BY <1>1, <1>4, <1>7 DEF Foreground
  <2>2. ASSUME NEW j \in DOMAIN jobs, jobs[j].pid = f
        PROVE  main.i = j
    <3>1. main.cmd = "fg"
      BY <1>4, <2>1, <2>2, Facts DEF Stands, Fresh, Always
    <3>2. main.i \in DOMAIN jobs /\ jobs[main.i].pid = f
      BY <1>4, <2>1, <3>1 DEF Position, OnList
    <3>3. jobs[j].pid \in Nat /\ j \in Nat /\ main.i \in Nat
      BY <3>2, Facts DEF Always
    <3> QED
      BY <1>4, <2>2, <3>2, <3>3 DEF InOrder
  <2>3. \A p \in Process : p # f /\ Runs(p) => Runs(p)'
    BY <1>5 DEF Runs
  <2>4. Kept'
    <3>1. Listed' = Listed
      BY <1>1 DEF Listed
    <3> QED
      BY <1>1, <1>3, <1>4, <3>1, KeptMoves
  <2>5. Position'
    BY <1>1, <1>4, <2>1 DEF Position, OnList
  <2>6. Marked'
    <3>1. \A j \in DOMAIN jobs : jobs[j].pid \in Process
      BY Facts DEF Always
    <3> QED
      BY <1>1, <1>4, <2>1, <2>2, <2>3, <3>1 DEF Marked
  <2>7. Foreground'
    BY <1>1 DEF Foreground
  <2> QED
    BY <2>4, <2>5, <2>6, <2>7 DEF Undisturbed
<1> QED
  BY <1>6, <1>7

LEMMA EraseTidy ==
    ASSUME Always, Undisturbed, OnList(handler.i), EraseInHandler(handler.i), ~overtaken',
           UNCHANGED <<foreground, main, pend, sigchld>>,
           \/ /\ proc[jobs[handler.i].pid] = "gone" /\ proc' = proc
           \/ /\ proc[jobs[handler.i].pid] \in Ended
              /\ proc' = [proc EXCEPT ![jobs[handler.i].pid] = "gone"]
    PROVE  Undisturbed'
<1> DEFINE k == handler.i
           p == jobs[k].pid
<1>1. /\ k \in DOMAIN jobs /\ p \in Process
      /\ \A j \in DOMAIN jobs : jobs[j].pid \in Process /\ j # 0
      /\ Fresh => main.pid \in Process
      /\ foreground # 0 => foreground \in Process
  <2>1. Fresh => main.pid \in 1 .. Forked
    BY Facts DEF Always, Stands
  <2> QED
    BY <2>1, Facts DEF OnList, Always, Stands, Process
<1>2. Drops(k) /\ main.i = 0 /\ UNCHANGED dismissed
  BY Erased DEF EraseInHandler, Always
<1>3. /\ \/ proc[p] = "gone" /\ proc' = proc
         \/ proc[p] \in Ended /\ proc' = [proc EXCEPT ![p] = "gone"]
  OBVIOUS
<1> HIDE DEF k, p
<1>4. KernelMoves
  BY <1>1, <1>3, KernelReaps DEF Always
<1>5. /\ RunsOn /\ \A q \in Process : proc'[q] \in Alive => proc[q] \in Alive /\ q # p
  BY <1>1, <1>3 DEF Always, TypeOK, RunsOn, Runs, Alive, Ended
<1>6. /\ Kept /\ Position /\ Marked /\ Foreground
      /\ \A q \in Process : /\ (q \notin Reader /\ Runs(q) => Runs(q)')
                          /\ (proc'[q] \in Alive => proc[q] \in Alive)
  BY <1>5 DEF Undisturbed, RunsOn, Runs
<1>7. Kept'
  <2> SUFFICES ASSUME NEW q \in Process, q \in Listed \cup {main.pid} \cup dismissed
               PROVE  \/ q \in Listed' \cup {main'.pid} \cup dismissed'
                      \/ (proc'[q] \in Alive => "KILL" \in pend'[q])
    BY <1>4, <1>6, KeptMoves
  <2>1. CASE q \in Listed /\ q # p
    <3>1. PICK j \in DOMAIN jobs : q = jobs[j].pid
      BY <2>1 DEF Listed
    <3>2. j # k
      BY <2>1, <3>1 DEF p
    <3>3. \E i \in DOMAIN jobs' : jobs'[i] = jobs[j]
      BY <1>2, <3>2 DEF Drops, Without
    <3> QED
      BY <3>1, <3>3 DEF Listed
  <2>2. CASE q = p
    BY <1>5, <2>2
  <2> QED
    BY <1>2, <2>1, <2>2
<1>8. ~OnList(main.i)
  BY <1>1, <1>2 DEF OnList
<1>9. Position'
  BY <1>6, <1>8 DEF Position
<1>10. main.at # "sent"
  BY <1>6, <1>8 DEF Position
<1>11. Marked'
  <2>1. ASSUME NEW j \in DOMAIN jobs', jobs'[j].pid \notin Reader, ~jobs'[j].stopped
        PROVE  proc'[jobs'[j].pid] \in Alive =>
                 proc'[jobs'[j].pid] = "running" /\ "TSTP" \notin pend'[jobs'[j].pid]
    <3>1. PICK l \in DOMAIN jobs : jobs'[j] = jobs[l]
      BY <1>2 DEF Drops, Without
    <3>2. Runs(jobs[l].pid)
      BY <1>1, <1>2, <1>6, <2>1, <3>1 DEF Marked
    <3> QED
      BY <1>1, <1>6, <2>1, <3>1, <3>2 DEF Runs
  <2>2. (main.at = "add" \/ (main.at = "to_wait" /\ main.cmd = "run")) /\ main.pid \notin Reader =>
          Runs(main.pid)'
    BY <1>1, <1>6 DEF Marked, Fresh
  <2>3. \A j \in DOMAIN jobs' : jobs'[j].pid \notin Reader /\ ~jobs'[j].stopped => Runs(jobs[j].pid)'
    BY <2>1 DEF Runs
  <2> QED
    BY <1>10, <2>2, <2>3 DEF Marked
<1>12. Foreground'
  BY <1>1, <1>6 DEF Foreground
<1> QED
  BY <1>7, <1>9, <1>11, <1>12 DEF Undisturbed

LEMMA CleanTidy ==
    ASSUME Always, Undisturbed, Clean, ~overtaken'
    PROVE  Undisturbed'
<1>1. CASE UNCHANGED <<jobs, main, foreground, proc, pend, dismissed>>
  BY <1>1 DEF Undisturbed, Kept, Listed, Position, OnList, Doomed, Marked, Runs, Foreground
<1>2. CASE EnterClean \/ KeepJob \/ LeaveClean
  BY <1>1, <1>2 DEF EnterClean, KeepJob, LeaveClean, history, kernel
<1>3. CASE ReapJob
  BY <1>3, EraseTidy DEF ReapJob
<1>4. CASE StaleJob
  <2>1. /\ OnList(handler.i) /\ proc[jobs[handler.i].pid] = "gone"
        /\ UNCHANGED <<foreground, main, proc, pend, sigchld>>
        /\ EraseInHandler(handler.i) \/ UNCHANGED <<jobs, dismissed>>
    BY <1>4 DEF StaleJob, kernel
  <2> QED
    BY <1>1, <2>1, EraseTidy
<1> QED
  BY <1>2, <1>3, <1>4 DEF Clean
-----------------------------------------------------------------------------
(* ... the main loop *)

(* A step of a command that holds no process, with no mark about to be set. *)
LEMMA MoveTidy ==
    ASSUME Always, Undisturbed, KernelMoves, RunsOn, UNCHANGED <<jobs, foreground, dismissed>>,
           main.at \notin {"wait", "waited", "sent"}, main.pid = 0,
           main'.at \notin {"wait", "waited", "sent", "add"},
           main'.at = "to_wait" => main'.cmd = "fg" /\ ~jobs[main'.i].stopped,
           main'.at \in {"wake", "send", "to_wait"} => main'.i \in DOMAIN jobs
    PROVE  Undisturbed'
<1>1. /\ Kept /\ Position /\ Marked /\ Foreground
      /\ \A j \in DOMAIN jobs : jobs[j].pid \in Process
      /\ foreground # 0 => foreground \in Process
      /\ 0 \notin Process
  BY Facts DEF Undisturbed, Always, Stands, Process
<1>2. \A p \in Process : /\ (p \notin Reader /\ Runs(p) => Runs(p)')
                        /\ (proc'[p] \in Alive => proc[p] \in Alive)
  BY DEF RunsOn, Runs, KernelMoves
<1>3. Kept'
  <2>1. Listed' = Listed
    BY DEF Listed
  <2> QED
    BY <1>1, <2>1, KeptMoves
<1>4. Position'
  BY <1>1 DEF Position, OnList
<1>5. Marked'
  BY <1>1, <1>2 DEF Marked
<1>6. Foreground'
  BY <1>1, <1>2 DEF Foreground
<1> QED
  BY <1>3, <1>4, <1>5, <1>6 DEF Undisturbed

LEMMA PromptIdle ==
    ASSUME Always, At("prompt")
    PROVE  main.at = "prompt" /\ main.pid = 0
BY DEF Always, TypeOK, At, Prompt, Stand

LEMMA UserTidy ==
    ASSUME Always, Undisturbed, Fg \/ Bg \/ Kill \/ Quit
    PROVE  Undisturbed'
<1>1. /\ main.at = "prompt" /\ main.pid = 0
      /\ UNCHANGED <<jobs, foreground, proc, pend, sigchld, dismissed>>
  BY PromptIdle DEF Fg, Bg, Choose, Kill, Quit, Typed, kernel, history
<1>2. KernelMoves /\ RunsOn
  BY <1>1, KernelRests, RestRuns DEF Always, kernel
<1>3. /\ main'.at \in {"wake", "send", "quit", "exit"}
      /\ main'.at \in {"wake", "send"} => main'.i \in DOMAIN jobs
  BY DEF Fg, Bg, Choose, Kill, Quit, Stand
<1> QED
  BY <1>1, <1>2, <1>3, MoveTidy

LEMMA WakeJobTidy ==
    ASSUME Always, Undisturbed, WakeJob
    PROVE  Undisturbed'
<1>1. /\ main.at = "wake" /\ UNCHANGED <<jobs, foreground, proc, pend, sigchld, dismissed>>
  BY DEF WakeJob, At, kernel, history
<1>2. main.pid = 0 /\ OnList(main.i) /\ Slot(main.i) = {jobs[main.i]} /\ main \in Stances
  BY <1>1 DEF Always, Stands, Undisturbed, Position, Slot, TypeOK, Stances
<1>3. KernelMoves /\ RunsOn
  BY <1>1, KernelRests, RestRuns DEF Always, kernel
<1>4. \/ main' = Prompt
      \/ main' = [main EXCEPT !.at = "send", !.arg = "CONT"]
      \/ main' = [main EXCEPT !.at = "to_wait"] /\ main.cmd = "fg" /\ ~jobs[main.i].stopped
  BY <1>2 DEF WakeJob, Back, Goto
<1>5. /\ main'.at \in {"prompt", "send", "to_wait"}
      /\ main'.at = "to_wait" => main'.cmd = "fg" /\ ~jobs[main'.i].stopped
      /\ main'.at \in {"send", "to_wait"} => main'.i \in DOMAIN jobs
  <2>1. CASE main' = Prompt
    BY <2>1 DEF Prompt, Stand
  <2>2. CASE main' = [main EXCEPT !.at = "send", !.arg = "CONT"]
    <3>1. main'.at = "send" /\ main'.i = main.i
      BY <1>2, <2>2 DEF Stances
    <3> QED
      BY <1>2, <3>1 DEF OnList
  <2>3. CASE main' = [main EXCEPT !.at = "to_wait"] /\ main.cmd = "fg" /\ ~jobs[main.i].stopped
    <3>1. main'.at = "to_wait" /\ main'.i = main.i /\ main'.cmd = "fg"
      BY <1>2, <2>3 DEF Stances
    <3> QED
      BY <1>2, <2>3, <3>1 DEF OnList
  <2> QED
    BY <1>4, <2>1, <2>2, <2>3
<1> QED
  BY <1>1, <1>2, <1>3, <1>5, MoveTidy

LEMMA QuitTidy ==
    ASSUME Always, Undisturbed, QuitTerm \/ QuitPoll \/ QuitKill \/ QuitExit
    PROVE  Undisturbed'
<1> DEFINE p == jobs[main.i].pid
<1>1. /\ main.at \in QuitLoop /\ UNCHANGED <<jobs, foreground, dismissed>>
  BY DEF QuitTerm, QuitPoll, QuitKill, QuitExit, QuitLoop, history
<1>2. main.pid = 0 /\ main \in Stances /\ (OnList(main.i) => p \in Born /\ p \in Process)
      /\ (main.at # "quit" => OnList(main.i))
  BY <1>1, QuitStands
<1>3. main'.at \in {"quit", "term", "slept", "exit"}
  BY <1>2 DEF QuitTerm, QuitPoll, QuitKill, QuitExit, Turn, Stand, Goto, Stances
<1>4. KernelMoves /\ RunsOn
  <2>1. CASE QuitTerm
    <3>1. OnList(main.i) /\ (UNCHANGED kernel \/ Post(p, "TERM"))
      BY <2>1 DEF QuitTerm
    <3>2. CASE UNCHANGED kernel
      BY <3>2, KernelRests, RestRuns DEF Always, kernel
    <3>3. CASE Post(p, "TERM")
      BY <1>2, <3>1, <3>3, KernelPosts, PostRuns DEF Always, RunsOn
    <3> QED
      BY <3>1, <3>2, <3>3
  <2>2. CASE QuitPoll
    <3>1. Poll(p) /\ UNCHANGED <<pend, sigchld>> /\ p \in Process
      BY <1>2, <2>2 DEF QuitPoll
    <3>2. KernelMoves
      BY <3>1, KernelReaps DEF Always, Poll
    <3>3. RunsOn
      BY <3>1 DEF Always, TypeOK, RunsOn, Runs, Poll, Alive, Ended
    <3> QED
      BY <3>2, <3>3
  <2>3. CASE QuitKill
    <3>1. /\ p \in Process /\ p \in Born /\ UNCHANGED sigchld
          /\ proc' = IF proc[p] \in Ended THEN [proc EXCEPT ![p] = "gone"] ELSE proc
          /\ pend' = IF proc[p] \in Alive THEN [pend EXCEPT ![p] = {"KILL"}] ELSE pend
      BY <1>2, <2>3 DEF QuitKill, Poll
    <3> HIDE DEF p
    <3>2. KernelMoves
      BY <3>1 DEF Always, TypeOK, Counted, KernelMoves, Doomed, Over, Ended, Alive, States, Born
    <3>3. RunsOn
      BY <3>1 DEF Always, TypeOK, RunsOn, Runs, Alive, Ended
    <3> QED
      BY <3>2, <3>3
  <2>4. CASE QuitExit
    BY <2>4, KernelRests, RestRuns DEF QuitExit, Always, kernel
  <2> QED
    BY <2>1, <2>2, <2>3, <2>4
<1> QED
  BY <1>1, <1>2, <1>3, <1>4, MoveTidy DEF QuitLoop

LEMMA RunTidy ==
    ASSUME Always, Undisturbed, Run \/ Background
    PROVE  Undisturbed'
<1> DEFINE q == Forked + 1
<1>1. /\ main.at = "prompt" /\ main.pid = 0 /\ Fork
      /\ \/ main' = Stand("to_wait", "run", 0, q, "none")
         \/ main' = Stand("add", "background", 0, q, "none")
      /\ UNCHANGED <<jobs, foreground, dismissed, pend>>
  BY PromptIdle DEF Run, Background, Typed, history, Fork
<1>2. /\ q \in Process /\ q \notin Born /\ proc' = [proc EXCEPT ![q] = "running"]
  BY <1>1, Forks
<1> HIDE DEF q
<1>3. /\ main'.at \in {"to_wait", "add"} /\ main'.pid = q /\ main'.i = 0
      /\ main'.at = "to_wait" => main'.cmd = "run"
  BY <1>1 DEF Stand
<1>4. /\ Kept /\ Position /\ Marked /\ Foreground
      /\ \A j \in DOMAIN jobs : jobs[j].pid \in Process /\ jobs[j].pid # q
      /\ foreground # 0 => foreground \in Process /\ foreground # q
      /\ 0 \notin Process
  BY <1>2, Facts DEF Undisturbed, Always, Stands, Process
<1>5. \A p \in Process : p # q => proc'[p] = proc[p]
  BY <1>2 DEF Always, TypeOK
<1>6. proc'[q] = "running" /\ "TSTP" \notin pend'[q]
  BY <1>1, <1>2 DEF Runs, Always, TypeOK, Counted, Born
<1>7. Kept'
  <2> SUFFICES ASSUME NEW p \in Process, proc'[p] \in Alive
               PROVE  p \in Listed' \cup {main'.pid} \cup dismissed' \/ "KILL" \in pend'[p]
    BY DEF Kept
  <2>1. CASE p = q
    BY <1>3, <2>1
  <2>2. CASE p # q
    BY <1>1, <1>4, <1>5, <2>2 DEF Kept, Listed
  <2> QED
    BY <2>1, <2>2
<1>8. Position'
  BY <1>3 DEF Position
<1>9. Marked'
  <2>1. ASSUME NEW j \in DOMAIN jobs, jobs[j].pid \notin Reader, ~jobs[j].stopped
        PROVE  Runs(jobs[j].pid)'
    BY <1>1, <1>4, <1>5, <2>1 DEF Marked, Runs
  <2>2. Runs(main.pid)'
    BY <1>3, <1>6 DEF Runs
  <2> QED
    BY <1>1, <1>3, <2>1, <2>2 DEF Marked
<1>10. Foreground'
  BY <1>1, <1>3, <1>4, <1>5 DEF Foreground
<1> QED
  BY <1>7, <1>8, <1>9, <1>10 DEF Undisturbed

LEMMA ToWaitTidy ==
    ASSUME Always, Undisturbed, ToWait
    PROVE  Undisturbed'
<1>1. /\ main.at = "to_wait" /\ UNCHANGED <<jobs, proc, pend, sigchld, dismissed>>
  BY DEF ToWait, At, kernel, history
<1>2. PICK p \in IF main.cmd = "run" THEN {main.pid} ELSE {job.pid : job \in Slot(main.i)} :
        foreground' = p /\ main' = [main EXCEPT !.at = "wait", !.pid = p]
  BY DEF ToWait
<1>3. /\ main \in Stances /\ main.cmd \in {"run", "fg"} /\ (main.cmd = "fg" => main.pid = 0)
      /\ Kept /\ Position /\ Marked /\ Foreground
  BY <1>1 DEF Always, TypeOK, Stances, Stands, Undisturbed
<1>4. main'.at = "wait" /\ main'.pid = p /\ main'.cmd = main.cmd /\ main'.i = main.i
  BY <1>2, <1>3 DEF Stances
<1>5. /\ main.cmd = "run" => p = main.pid
      /\ main.cmd = "fg" => main.i \in DOMAIN jobs /\ p = jobs[main.i].pid /\ ~jobs[main.i].stopped
  BY <1>1, <1>2, <1>3 DEF Position, OnList, Slot
<1>6. p \notin Reader => Runs(p)
  BY <1>1, <1>3, <1>5 DEF Marked
<1>7. Kept'
  <2>1. 0 \notin Process
    BY DEF Process
  <2> QED
    BY <1>1, <1>3, <1>4, <1>5, <2>1 DEF Kept, Listed
<1>8. Position'
  BY <1>1, <1>4, <1>5 DEF Position, OnList
<1>9. Marked'
  BY <1>1, <1>3, <1>4 DEF Marked, Runs
<1>10. Foreground'
  BY <1>1, <1>2, <1>4, <1>6 DEF Foreground, Runs
<1> QED
  BY <1>7, <1>8, <1>9, <1>10 DEF Undisturbed

(* A wait returns a running process only when it has ended or stopped      *)
(* itself at the terminal: Ctrl-Z has reset foreground_pid.                *)
LEMMA WaitReturnsTidy ==
    ASSUME Always, Undisturbed, WaitReturns
    PROVE  Undisturbed'
<1> DEFINE p == main.pid
<1>1. /\ main.at = "wait" /\ UNCHANGED <<jobs, foreground, pend, sigchld, dismissed>>
  BY DEF WaitReturns, history
<1>2. /\ main \in Stances /\ p \in Process /\ proc \in [Process -> States]
      /\ main.cmd \in {"run", "fg"}
      /\ Kept /\ Position /\ Marked /\ Foreground
      /\ \A j \in DOMAIN jobs : jobs[j].pid \in Process
      /\ foreground # 0 => foreground \in Process
  BY <1>1, Facts DEF Always, TypeOK, Stances, Stands, Undisturbed, Born
<1>3. /\ \/ proc[p] \in Ended /\ proc' = [proc EXCEPT ![p] = "gone"]
         \/ proc[p] = "stopped" /\ proc' = [proc EXCEPT ![p] = "reported"]
         \/ proc[p] = "gone" /\ proc' = proc
      /\ \E status : main' = [main EXCEPT !.at = "waited", !.arg = status]
  BY DEF WaitReturns
<1>4. main'.at = "waited" /\ main'.pid = p /\ main'.cmd = main.cmd /\ main'.i = main.i
  BY <1>2, <1>3 DEF Stances
<1> HIDE DEF p
<1>5. KernelMoves
  BY <1>1, <1>2, <1>3, KernelReaps DEF Always
<1>6. /\ \A q \in Process : Runs(q) => Runs(q)'
      /\ \A q \in Process : proc'[q] \in Alive => proc[q] \in Alive
      /\ Runs(p) => proc'[p] \notin Alive
  BY <1>1, <1>2, <1>3 DEF Runs, Alive, Ended
<1>7. Kept'
  <2>1. Listed' = Listed
    BY <1>1 DEF Listed
  <2> QED
    BY <1>1, <1>2, <1>4, <1>5, <2>1, KeptMoves DEF p
<1>8. Position'
  BY <1>1, <1>2, <1>4 DEF Position, OnList, p
<1>9. Marked'
  BY <1>1, <1>2, <1>4, <1>6 DEF Marked
<1>10. Foreground'
  <2> SUFFICES ASSUME foreground # 0, foreground \notin Reader
               PROVE  proc'[foreground] \notin Alive
    BY <1>1, <1>4 DEF Foreground
  <2>1. foreground = p /\ Runs(p)
    BY <1>1, <1>2 DEF Foreground, p
  <2> QED
    BY <1>6, <2>1
<1> QED
  BY <1>7, <1>8, <1>9, <1>10 DEF Undisturbed

LEMMA SendSignalTidy ==
    ASSUME Always, Undisturbed, SendSignal
    PROVE  Undisturbed'
<1> DEFINE p == jobs[main.i].pid
           x == main.arg
<1>1. /\ main.at = "send" /\ UNCHANGED <<jobs, foreground, dismissed>>
  BY DEF SendSignal, At, history
<1>2. /\ main \in Stances /\ main.pid = 0 /\ main.cmd \in {"fg", "bg", "kill"}
      /\ x \in Signals \cup {"CONT"}
      /\ Kept /\ Position /\ Marked /\ Foreground
      /\ main.i \in DOMAIN jobs /\ Slot(main.i) = {jobs[main.i]}
  BY <1>1 DEF Always, TypeOK, Stances, Stands, Undisturbed, Position, OnList, Slot
<1>3. /\ p \in Born /\ p \in Process
      /\ \A j \in DOMAIN jobs : jobs[j].pid \in Process /\ (j # main.i => jobs[j].pid # p)
      /\ foreground # 0 => foreground \in Process
  <2>1. /\ \A j \in DOMAIN jobs : jobs[j].pid \in Born /\ jobs[j].pid \in Nat /\ j \in Nat
        /\ Born \subseteq Process /\ Ordered(jobs)
    BY Facts DEF Always
  <2>2. ASSUME NEW j \in DOMAIN jobs, j # main.i
        PROVE  jobs[j].pid # p
    <3>1. j < main.i \/ main.i < j
      BY <1>2, <2>1, <2>2
    <3> QED
      BY <1>2, <2>1, <3>1 DEF Ordered
  <2> QED
    BY <1>2, <2>1, <2>2 DEF Always, Stands
<1>4. x \in {"INT", "TSTP", "CONT", "TERM", "KILL"}
  BY <1>2, JobsAssumption
<1>5. CASE main' = Prompt /\ UNCHANGED kernel
  <2>1. KernelMoves /\ RunsOn /\ main'.at = "prompt"
    BY <1>5, KernelRests, RestRuns DEF Always, kernel, Prompt, Stand
  <2> QED
    BY <1>1, <1>2, <2>1, MoveTidy
<1>6. CASE Post(p, x) /\ main' = [main EXCEPT !.at = "sent"]
  <2>1. KernelMoves
    BY <1>3, <1>4, <1>6, KernelPosts DEF Always
  <2>2. ASSUME NEW q \in Process, q # p \/ x # "TSTP", Runs(q)
        PROVE  proc'[q] \in Alive => proc'[q] = "running" /\ "TSTP" \notin pend'[q]
    BY <1>3, <1>4, <1>6, <2>2, PostRuns DEF Always
  <2>3. \A q \in Process : proc'[q] \in Alive => proc[q] \in Alive
    BY <2>1 DEF KernelMoves
  <2>4. main'.at = "sent" /\ main'.i = main.i /\ main'.arg = x /\ main'.pid = main.pid
    BY <1>2, <1>6 DEF Stances
  <2>5. x = "KILL" /\ proc'[p] \in Alive => "KILL" \in pend'[p]
    BY <1>3, <1>6 DEF Always, TypeOK, Post
  <2>6. x = "CONT" => (proc'[p] \in Alive => proc'[p] = "running" /\ "TSTP" \notin pend'[p])
    BY <1>3, <1>6 DEF Always, TypeOK, Post, Alive
  <2> HIDE DEF p, x
  <2>7. Kept'
    <3>1. Listed' = Listed
      BY <1>1 DEF Listed
    <3> QED
      BY <1>1, <1>2, <2>1, <2>4, <3>1, KeptMoves
  <2>8. Position'
    <3>1. Doomed(jobs[main.i].pid)' <=> (proc'[p] \in Alive => "KILL" \in pend'[p])
      BY <1>1, <2>4 DEF Doomed, p
    <3> QED
      BY <1>1, <1>2, <2>4, <2>5, <3>1 DEF Position, OnList
  <2>9. Marked'
    <3>1. ASSUME NEW j \in DOMAIN jobs, jobs[j].pid \notin Reader, ~jobs[j].stopped
          PROVE  Runs(jobs[j].pid)' \/ (main.i = j /\ x = "TSTP")
      BY <1>1, <1>2, <1>3, <2>2, <3>1 DEF Marked, Runs
    <3>2. x = "CONT" => Runs(jobs[main.i].pid)'
      BY <1>1, <2>4, <2>6 DEF Runs, p
    <3> QED
      BY <1>1, <2>4, <3>1, <3>2 DEF Marked
  <2>10. Foreground'
    BY <1>1, <1>2, <1>3, <2>3, <2>4 DEF Foreground
  <2> QED
    BY <2>7, <2>8, <2>9, <2>10 DEF Undisturbed
<1> QED
  BY <1>2, <1>5, <1>6 DEF SendSignal, Back, Goto

(* A mark that is set follows the job's process. *)
LEMMA MarkTidy ==
    ASSUME Always, Undisturbed, OnList(main.i), NEW flag \in BOOLEAN, SetStopped(main.i, flag),
           UNCHANGED <<foreground, kernel, dismissed>>, main.at \in {"sent", "waited"},
           ~flag /\ jobs[main.i].pid \notin Reader => Runs(jobs[main.i].pid),
           main.pid \in Process => main.pid \in Listed,
           \/ main' = Prompt
           \/ ~flag /\ main.cmd = "fg" /\ main' = [main EXCEPT !.at = "to_wait"]
    PROVE  Undisturbed'
<1>1. UNCHANGED <<proc, pend>> /\ main \in Stances /\ Kept /\ Marked /\ Foreground
  BY DEF kernel, Always, TypeOK, Stances, Undisturbed
<1>2. Marks(main.i, flag)
  BY MarkSet DEF Always
<1>3. /\ DOMAIN jobs' = DOMAIN jobs
      /\ \A j \in DOMAIN jobs : /\ jobs'[j].pid = jobs[j].pid
                               /\ jobs'[j].stopped = IF j = main.i THEN flag ELSE jobs[j].stopped
  BY <1>2 DEF Marks
<1>4. /\ main'.at \in {"prompt", "to_wait"}
      /\ main'.at = "to_wait" => main'.i = main.i /\ main'.cmd = "fg" /\ ~flag
  BY <1>1 DEF Stances, Prompt, Stand
<1>5. Listed' = Listed
  BY <1>3 DEF Listed
<1>6. Kept'
  BY <1>1, <1>5 DEF Kept
<1>7. Position'
  BY <1>3, <1>4 DEF Position, OnList
<1>8. Marked'
  <2>1. ASSUME NEW j \in DOMAIN jobs, jobs[j].pid \notin Reader, ~jobs'[j].stopped
        PROVE  Runs(jobs[j].pid)
    BY <1>1, <1>3, <2>1 DEF Marked
  <2> QED
    BY <1>1, <1>3, <1>4, <2>1 DEF Marked, Runs
<1>9. Foreground'
  BY <1>1, <1>4 DEF Foreground, Runs
<1> QED
  BY <1>6, <1>7, <1>8, <1>9 DEF Undisturbed

(* A job that is erased is dismissed, as good as dead, or has been waited  *)
(* for.                                                                    *)
LEMMA EraseJobTidy ==
    ASSUME Always, Undisturbed, OnList(main.i), EraseAt(main.i),
           UNCHANGED <<foreground, kernel>>, dismissed \subseteq dismissed',
           main.at \in {"sent", "waited"}, ~(main.at = "sent" /\ main.arg = "TSTP"),
           main.pid \in Process => proc[main.pid] \notin Alive,
           jobs[main.i].pid \in dismissed' \/ Doomed(jobs[main.i].pid),
           main'.at \in {"prompt", "crashed"}
    PROVE  Undisturbed'
<1>1. UNCHANGED <<proc, pend>> /\ Kept /\ Marked /\ Foreground
  BY DEF kernel, Undisturbed
<1>2. Drops(main.i)
  BY Erased DEF Always
<1>3. /\ \A j \in DOMAIN jobs' : \E l \in DOMAIN jobs : l # main.i /\ jobs'[j] = jobs[l]
      /\ \A j \in DOMAIN jobs : j # main.i => \E l \in DOMAIN jobs' : jobs'[l] = jobs[j]
  BY <1>2 DEF Drops, Without
<1>4. Kept'
  <2> SUFFICES ASSUME NEW p \in Process, proc[p] \in Alive
               PROVE  p \in Listed' \cup {main'.pid} \cup dismissed' \/ "KILL" \in pend[p]
    BY <1>1 DEF Kept
  <2>1. CASE p \in Listed
    <3>1. PICK j \in DOMAIN jobs : p = jobs[j].pid
      BY <2>1 DEF Listed
    <3>2. CASE j = main.i
      BY <3>1, <3>2 DEF Doomed
    <3>3. CASE j # main.i
      BY <1>3, <3>1, <3>3 DEF Listed
    <3> QED
      BY <3>2, <3>3
  <2>2. CASE p \notin Listed
    BY <1>1, <2>2 DEF Kept
  <2> QED
    BY <2>1, <2>2
<1>5. Position'
  BY DEF Position
<1>6. Marked'
  <2>1. ASSUME NEW j \in DOMAIN jobs', jobs'[j].pid \notin Reader, ~jobs'[j].stopped
        PROVE  Runs(jobs'[j].pid)
    <3>1. PICK l \in DOMAIN jobs : l # main.i /\ jobs'[j] = jobs[l]
      BY <1>3
    <3> QED
      BY <1>1, <2>1, <3>1 DEF Marked
  <2> QED
    BY <1>1, <2>1 DEF Marked, Runs
<1>7. Foreground'
  BY <1>1 DEF Foreground, Runs
<1> QED
  BY <1>4, <1>5, <1>6, <1>7 DEF Undisturbed

LEMMA SignalSentTidy ==
    ASSUME Always, Undisturbed, SignalSent
    PROVE  Undisturbed'
<1>1. /\ main.at = "sent" /\ UNCHANGED <<foreground, kernel>>
      /\ dismissed' = IF main.arg = "TERM" THEN dismissed \cup (Listed \ Listed') ELSE dismissed
  BY DEF SignalSent, At
<1>2. /\ main \in Stances /\ main.pid = 0 /\ main.pid \notin Process
      /\ main.cmd \in {"fg", "bg", "kill"}
      /\ main.arg \in Signals \cup {"CONT"} /\ (main.cmd # "kill" => main.arg = "CONT")
      /\ Kept /\ Marked /\ Position /\ OnList(main.i)
      /\ main.arg = "KILL" => Doomed(jobs[main.i].pid)
      /\ main.arg = "CONT" /\ jobs[main.i].pid \notin Reader => Runs(jobs[main.i].pid)
  BY <1>1 DEF Always, TypeOK, Stances, Stands, Undisturbed, Position, Marked, Process
<1>3. jobs # <<>>
  BY <1>2 DEF OnList
<1>4. CASE main.arg \in {"TSTP", "CONT"}
  <2>1. /\ SetStopped(main.i, main.arg = "TSTP")
        /\ \/ main' = Prompt
           \/ main.cmd = "fg" /\ main' = [main EXCEPT !.at = "to_wait"]
    <3>1. CASE main.arg = "TSTP"
      BY <1>2, <3>1 DEF SignalSent, Goto, Back
    <3>2. CASE main.arg = "CONT"
      BY <1>2, <3>2 DEF SignalSent, Goto, Back
    <3> QED
      BY <1>4, <3>1, <3>2
  <2>2. CASE main.arg = "TSTP"
    <3>1. SetStopped(main.i, TRUE) /\ main' = Prompt
      BY <1>2, <2>1, <2>2
    <3> QED
      BY <1>1, <1>2, <2>2, <3>1, MarkTidy
  <2>3. CASE main.arg = "CONT"
    <3>1. SetStopped(main.i, FALSE)
      BY <2>1, <2>3
    <3> QED
      BY <1>1, <1>2, <2>1, <2>3, <3>1, MarkTidy
  <2> QED
    BY <1>4, <2>2, <2>3
<1>5. CASE main.arg \notin {"TSTP", "CONT"}
  <2>1. main.arg \in {"TERM", "KILL"}
    BY <1>2, <1>5, JobsAssumption
  <2>2. EraseAt(main.i) /\ main' = Prompt
    BY <1>2, <1>3, <1>5 DEF SignalSent, Back, Goto
  <2>3. main'.at = "prompt"
    BY <2>2 DEF Prompt, Stand
  <2>4. jobs[main.i].pid \in dismissed' \/ Doomed(jobs[main.i].pid)
    <3>1. CASE main.arg = "KILL"
      BY <1>2, <3>1
    <3>2. CASE main.arg = "TERM"
      <4>1. Drops(main.i)
        BY <1>2, <2>2, Erased DEF Always
      <4>2. jobs[main.i].pid \in Listed /\ jobs[main.i].pid \notin Listed'
        BY <1>2, <4>1 DEF Drops, Without, Listed, OnList
      <4> QED
        BY <1>1, <3>2, <4>2
    <3> QED
      BY <2>1, <3>1, <3>2
  <2> QED
    BY <1>1, <1>2, <1>5, <2>2, <2>3, <2>4, EraseJobTidy
<1> QED
  BY <1>4, <1>5

(* The process the shell holds goes on the list. *)
LEMMA AddTidy ==
    ASSUME Always, Undisturbed, Fresh, main.at \in {"add", "waited"}, NEW flag \in BOOLEAN,
           AddJob(main.pid, flag), ~flag => main.at = "add",
           UNCHANGED <<foreground, kernel, dismissed>>, main' = Prompt
    PROVE  Undisturbed'
<1>1. /\ UNCHANGED <<proc, pend>> /\ Kept /\ Marked /\ Foreground /\ main'.at = "prompt"
      /\ main.i = 0 /\ \A j \in DOMAIN jobs : j # 0
  BY Facts DEF kernel, Undisturbed, Always, Stands, Prompt, Stand
<1>2. Adds(main.pid, flag)
  <2>1. /\ main.pid = Forked /\ Forked > 0 /\ \A j \in DOMAIN jobs : jobs[j].pid < main.pid
    BY DEF Always, Stands
  <2>2. main.pid \in Born
    BY <2>1, Facts DEF Always
  <2> QED
    BY <2>1, <2>2, Added DEF Always
<1>3. /\ \A j \in DOMAIN jobs' :
           jobs'[j] = [pid |-> main.pid, stopped |-> flag] \/ (j \in DOMAIN jobs /\ jobs'[j] = jobs[j])
      /\ main.pid \in Listed' /\ Listed \subseteq Listed'
  BY <1>2 DEF Adds, Listed
<1>4. Kept'
  BY <1>1, <1>3 DEF Kept
<1>5. Position'
  BY <1>1 DEF Position
<1>6. Marked'
  <2>1. ASSUME NEW j \in DOMAIN jobs', jobs'[j].pid \notin Reader, ~jobs'[j].stopped
        PROVE  Runs(jobs'[j].pid)
    <3>1. CASE jobs'[j] = [pid |-> main.pid, stopped |-> flag]
      BY <1>1, <2>1, <3>1 DEF Marked
    <3>2. CASE j \in DOMAIN jobs /\ jobs'[j] = jobs[j]
      BY <1>1, <2>1, <3>2 DEF Marked
    <3> QED
      BY <1>3, <3>1, <3>2
  <2> QED
    BY <1>1, <2>1 DEF Marked, Runs
<1>7. Foreground'
  BY <1>1 DEF Foreground, Runs
<1> QED
  BY <1>4, <1>5, <1>6, <1>7 DEF Undisturbed

(* The job waited for has ended; the list stays as it is. *)
LEMMA WaitedTidy ==
    ASSUME Always, Undisturbed, main.at = "waited", proc[main.pid] = "gone",
           UNCHANGED <<jobs, foreground, kernel, dismissed>>, main' = Prompt
    PROVE  Undisturbed'
<1>1. /\ UNCHANGED <<proc, pend>> /\ Kept /\ Position /\ Marked /\ Foreground /\ main'.at = "prompt"
      /\ Fresh => main.i = 0
      /\ main.cmd \in {"run", "fg"} /\ \A j \in DOMAIN jobs : j # 0
  BY Facts DEF kernel, Undisturbed, Always, Stands, Prompt, Stand
<1>2. Kept'
  BY <1>1 DEF Kept, Listed, Alive
<1>3. Position'
  BY <1>1 DEF Position
<1>4. Marked'
  <2>1. ASSUME NEW j \in DOMAIN jobs, jobs[j].pid \notin Reader, ~jobs[j].stopped
        PROVE  Runs(jobs[j].pid)
    <3>1. CASE main.i = j
      <4>1. jobs[j].pid = main.pid
        BY <1>1, <3>1 DEF Position, Fresh
      <4> QED
        BY <4>1 DEF Runs, Alive
    <3>2. CASE main.i # j
      BY <1>1, <2>1, <3>2 DEF Marked
    <3> QED
      BY <3>1, <3>2
  <2> QED
    BY <1>1, <2>1 DEF Marked, Runs
<1>5. Foreground'
  BY <1>1 DEF Foreground, Runs
<1> QED
  BY <1>2, <1>3, <1>4, <1>5 DEF Undisturbed

LEMMA AddBackgroundTidy ==
    ASSUME Always, Undisturbed, AddBackground
    PROVE  Undisturbed'
BY AddTidy DEF AddBackground, At, Back, Fresh

LEMMA RunWaitedTidy ==
    ASSUME Always, Undisturbed, RunWaited
    PROVE  Undisturbed'
<1>1. /\ main.at = "waited" /\ main.cmd = "run" /\ main' = Prompt /\ Fresh
      /\ UNCHANGED <<foreground, kernel, dismissed>>
  BY DEF RunWaited, At, Back, Fresh
<1>2. CASE main.arg = "stopped"
  BY <1>1, <1>2, AddTidy DEF RunWaited
<1>3. CASE main.arg # "stopped"
  <2>1. UNCHANGED jobs /\ proc[main.pid] = "gone"
    BY <1>1, <1>3 DEF RunWaited, Always, Stands
  <2> QED
    BY <1>1, <2>1, WaitedTidy
<1> QED
  BY <1>2, <1>3

LEMMA FgWaitedTidy ==
    ASSUME Always, Undisturbed, FgWaited
    PROVE  Undisturbed'
<1>1. /\ main.at = "waited" /\ main.cmd = "fg" /\ UNCHANGED <<foreground, kernel, dismissed>>
  BY DEF FgWaited, At, history
<1>2. /\ OnList(main.i) /\ jobs[main.i].pid = main.pid /\ jobs # <<>> /\ main.pid \in Listed
      /\ main.arg # "stopped" => proc[main.pid] = "gone"
  BY <1>1 DEF Undisturbed, Position, OnList, Listed, Always, Stands
<1>3. main' = Prompt /\ main'.at = "prompt"
  BY <1>2 DEF FgWaited, Back, Prompt, Stand
<1>4. CASE main.arg = "stopped"
  <2>1. SetStopped(main.i, TRUE)
    BY <1>4 DEF FgWaited
  <2> QED
    BY <1>1, <1>2, <1>3, <2>1, MarkTidy
<1>5. CASE main.arg = "exited"
  <2>1. EraseAt(main.i) /\ proc[main.pid] \notin Alive
    BY <1>2, <1>5 DEF FgWaited, Alive
  <2> QED
    BY <1>1, <1>2, <1>3, <2>1, EraseJobTidy DEF Doomed
<1>6. CASE main.arg \notin {"stopped", "exited"}
  <2>1. UNCHANGED jobs /\ proc[main.pid] = "gone"
    BY <1>2, <1>6 DEF FgWaited
  <2> QED
    BY <1>1, <1>3, <2>1, WaitedTidy
<1> QED
  BY <1>4, <1>5, <1>6

LEMMA NextTidy ==
    ASSUME IInv, [Next]_vars, ~overtaken'
    PROVE  Undisturbed'
<1>1. ~overtaken
  BY DEF IInv, Always, TypeOK, Next, User, Run, Background, Fg, Bg, Choose, Kill, Quit, ControlC, ControlZ,
     Control, Continue, AddBackground, WakeJob, SendSignal, SignalSent, ToWait, WaitReturns, RunWaited,
     FgWaited, QuitTerm, QuitPoll, QuitKill, QuitExit, Clean, EnterClean, KeepJob, ReapJob, StaleJob,
     LeaveClean, EraseInHandler, Processes, TakeSignal, Exits, ReadsTerminal, history, vars
<1>2. Always /\ Undisturbed
  BY <1>1 DEF IInv
<1>3. CASE UNCHANGED vars
  <2>1. UNCHANGED <<jobs, main, dismissed, foreground, proc, pend, kernel>>
    BY <1>3 DEF vars, history, kernel
  <2>2. KernelMoves /\ RunsOn
    BY <1>2, <2>1, KernelRests, RestRuns DEF Always
  <2> QED
    BY <1>2, <2>1, <2>2, StayTidy
<1>4. CASE User
  BY <1>2, <1>4, RunTidy, UserTidy, ControlTidy DEF User, ControlC, ControlZ
<1>5. CASE Continue
  BY <1>2, <1>5, AddBackgroundTidy, WakeJobTidy, SendSignalTidy, SignalSentTidy, ToWaitTidy,
     WaitReturnsTidy, RunWaitedTidy, FgWaitedTidy, QuitTidy DEF Continue
<1>6. CASE Clean
  BY <1>2, <1>6, CleanTidy
<1>7. CASE Processes
  BY <1>2, <1>7, ProcessesTidy
<1> QED
  BY <1>3, <1>4, <1>5, <1>6, <1>7 DEF Next

(* Until a handler comes between a command and the position it holds, the  *)
(* list says of every process what the process does.                       *)
THEOREM ListFollows == Spec => []IInv
<1>1. ASSUME Init
      PROVE  IInv
  <2>1. Always
    BY <1>1, InitAlways
  <2>2. DOMAIN jobs = {} /\ main.at = "prompt" /\ foreground = 0 /\ \A p \in Process : proc[p] \notin Alive
    BY <1>1 DEF Init, Prompt, Stand, Alive
  <2>3. Undisturbed
    BY <2>2 DEF Undisturbed, Kept, Position, Marked, Foreground
  <2> QED
    BY <2>1, <2>3 DEF IInv
<1>2. ASSUME IInv, [Next]_vars
      PROVE  IInv'
  <2>1. Always'
    BY <1>2, NextAlways DEF IInv
  <2>2. ~overtaken' => Undisturbed'
    BY <1>2, NextTidy
  <2> QED
    BY <2>1, <2>2 DEF IInv
<1> QED
  BY <1>1, <1>2, PTL DEF Spec

(* Until a handler erases a job while a command holds a position, no       *)
(* living process slips from the list, from the command that holds it and  *)
(* from a SIGKILL sent to it, but for those that kill -15 took off the     *)
(* list (JobsList.cpp, commands.cpp).                                      *)
THEOREM NoneForgotten == Spec => []NothingForgotten
<1>1. IInv => NothingForgotten
  BY DEF IInv, Undisturbed, Kept, NothingForgotten
<1> QED
  BY <1>1, ListFollows, PTL

(* During a wait foreground_pid is cleared only by a signal to the process *)
(* that is waited for, which then ends, stops or ignores it.               *)
LEMMA ControlWaited ==
    ASSUME Always, WaitedReached, NEW s \in {"INT", "TSTP"}, Control(s)
    PROVE  WaitedReached'
<1>1. /\ foreground # 0 /\ Post(foreground, s) /\ foreground' = 0 /\ main' = main
      /\ pend \in [Process -> SUBSET {"INT", "TSTP", "TERM", "KILL"}]
  BY DEF Control, Always, TypeOK
<1> SUFFICES ASSUME main.at = "wait" PROVE proc'[main.pid] # "running" \/ pend'[main.pid] # {}
  BY <1>1 DEF WaitedReached
<1>2. foreground = main.pid /\ main.pid \in Process
  BY <1>1, Facts DEF WaitedReached, Always, Stands
<1>3. /\ proc' = proc
      /\ pend'[main.pid] = CASE proc[main.pid] \notin Alive -> pend[main.pid]
                             [] s = "KILL" \/ "KILL" \in pend[main.pid] -> {"KILL"}
                             [] OTHER -> pend[main.pid] \cup {s}
  BY <1>1, <1>2 DEF Post
<1>4. CASE proc[main.pid] \in Alive
  BY <1>3, <1>4
<1>5. CASE proc[main.pid] \notin Alive
  BY <1>3, <1>5 DEF Alive
<1> QED
  BY <1>4, <1>5

(* A process that acts on a signal no longer runs, unless it ignores it.   *)
LEMMA ProcessesWaited ==
    ASSUME Always, WaitedReached, Processes
    PROVE  WaitedReached'
<1>1. PICK p \in Process : TakeSignal(p) \/ Exits(p) \/ ReadsTerminal(p)
  BY DEF Processes
<1>2. UNCHANGED <<foreground, main>>
  BY <1>1 DEF TakeSignal, Exits, ReadsTerminal
<1>3. /\ proc \in [Process -> States]
      /\ pend \in [Process -> SUBSET {"INT", "TSTP", "TERM", "KILL"}]
  BY DEF Always, TypeOK
<1> SUFFICES ASSUME main.at = "wait", foreground = 0, proc'[main.pid] = "running",
                    pend'[main.pid] = {}, main.pid \notin Stubborn
             PROVE  FALSE
  BY <1>2 DEF WaitedReached
<1>4. main.pid \in Process
  BY Facts DEF Always, Stands
<1>5. proc[main.pid] # "running" \/ pend[main.pid] # {}
  BY DEF WaitedReached
<1>6. CASE p # main.pid
  <2>1. proc'[main.pid] = proc[main.pid] /\ pend'[main.pid] = pend[main.pid]
    BY <1>1, <1>3, <1>4, <1>6 DEF TakeSignal, Exits, ReadsTerminal, Become
  <2> QED
    BY <1>5, <2>1
<1>7. CASE p = main.pid
  <2>1. proc'[p] \in {"stopped", "killed", "exited"}
    BY <1>1, <1>3, <1>7 DEF TakeSignal, Exits, ReadsTerminal, Become
  <2> QED
    BY <1>7, <2>1
<1> QED
  BY <1>6, <1>7

LEMMA NextWaited ==
    ASSUME Always, WaitedReached, [Next]_vars
    PROVE  WaitedReached'
<1>1. CASE UNCHANGED vars
  BY <1>1 DEF vars, kernel, WaitedReached
<1>2. CASE ControlC \/ ControlZ
  BY <1>2, ControlWaited DEF ControlC, ControlZ
<1>3. CASE Processes
  BY <1>3, ProcessesWaited
<1>4. CASE Clean
  <2>1. UNCHANGED <<foreground, main, pend>>
    BY <1>4 DEF Clean, EnterClean, KeepJob, ReapJob, StaleJob, LeaveClean, kernel
  <2>2. main.at = "wait" => main.pid \in Process
    BY Facts DEF Always, Stands
  <2>3. \A p \in Process : proc'[p] = "running" => proc[p] = "running"
    BY <1>4 DEF Clean, EnterClean, KeepJob, ReapJob, StaleJob, LeaveClean, kernel, Always, TypeOK
  <2> QED
    BY <2>1, <2>2, <2>3 DEF WaitedReached
<1>5. CASE ToWait
  <2>1. main' = [main EXCEPT !.at = "wait", !.pid = foreground'] /\ main \in Stances
    BY <1>5 DEF ToWait, Always, TypeOK, Stances
  <2>2. foreground' \in Process
    <3>1. Always'
      BY NextAlways
    <3>2. main'.at = "wait" /\ main'.pid = foreground'
      BY <2>1 DEF Stances
    <3>3. main'.pid \in Born'
      BY <3>1, <3>2 DEF Always, Stands
    <3> QED
      BY <3>2, <3>3 DEF Born, Process
  <2>3. 0 \notin Process
    BY DEF Process
  <2> QED
    BY <2>1, <2>2, <2>3 DEF WaitedReached, Stances
<1>6. CASE Run \/ Background \/ Fg \/ Bg \/ Kill \/ Quit
  <2>1. main'.at # "wait"
    BY <1>6 DEF Run, Background, Fg, Bg, Choose, Kill, Quit, Stand
  <2> QED
    BY <2>1 DEF WaitedReached
<1>7. CASE Continue /\ ~ToWait
  <2>1. main \in Stances
    BY DEF Always, TypeOK, Stances
  <2>2. CASE AddBackground \/ RunWaited \/ FgWaited \/ WakeJob
    <3>1. Back \/ Goto("crashed") \/ Goto("to_wait") \/ main' = [main EXCEPT !.at = "send", !.arg = "CONT"]
      BY <2>2 DEF AddBackground, RunWaited, FgWaited, WakeJob
    <3>2. main'.at \in {"prompt", "crashed", "to_wait", "send"}
      <4>1. CASE Back
        BY <4>1 DEF Back, Prompt, Stand
      <4>2. CASE Goto("crashed") \/ Goto("to_wait")
        BY <2>1, <4>2 DEF Goto, Stances
      <4>3. CASE main' = [main EXCEPT !.at = "send", !.arg = "CONT"]
        BY <2>1, <4>3 DEF Stances
      <4> QED
        BY <3>1, <4>1, <4>2, <4>3
    <3> QED
      BY <3>2 DEF WaitedReached
  <2>3. CASE SendSignal
    BY <2>1, <2>3 DEF SendSignal, Back, Goto, Prompt, Stand, Stances, WaitedReached
  <2>4. CASE SignalSent
    BY <2>1, <2>4 DEF SignalSent, Back, Goto, Prompt, Stand, Stances, WaitedReached
  <2>5. CASE WaitReturns
    BY <2>1, <2>5 DEF WaitReturns, Stances, WaitedReached
  <2>6. CASE QuitTerm \/ QuitPoll \/ QuitKill \/ QuitExit
    BY <2>1, <2>6 DEF QuitTerm, QuitPoll, QuitKill, QuitExit, Goto, Turn, Stand, Stances, WaitedReached
  <2> QED
    BY <1>7, <2>2, <2>3, <2>4, <2>5, <2>6 DEF Continue
<1> QED
  BY <1>1, <1>2, <1>3, <1>4, <1>5, <1>6, <1>7 DEF Next, User

(* During a wait Ctrl-C and Ctrl-Z go to the process waited for, until one *)
(* of them has been sent to it; at other times they reach no living        *)
(* process but one that stopped itself at the terminal, as long as no      *)
(* handler has erased a job while a command held a position (signals.cpp). *)
THEOREM ControlReaches == Spec => []ControlReach
<1>1. Init => WaitedReached
  BY DEF Init, Prompt, Stand, WaitedReached
<1>2. IInv /\ WaitedReached /\ [Next]_vars => WaitedReached'
  BY NextWaited DEF IInv
<1>3. IInv => OthersSpared
  BY DEF IInv, Undisturbed, Foreground, OthersSpared
<1> QED
  BY <1>1, <1>2, <1>3, ListFollows, PTL DEF Spec, ControlReach
==============================================================================
