-------------------------------- MODULE Jobs --------------------------------
(***************************************************************************)
(* The job control of smash: the list of jobs (JobsList.cpp), the commands *)
(* that run, wake, wait for and kill processes (commands.cpp) and the      *)
(* three signal handlers (signals.cpp), over the processes of the kernel.  *)
(*                                                                         *)
(* The shell is one thread.  A step of it runs up to the next system call  *)
(* whose return lets a pending signal in, which is where a handler runs    *)
(* between two of its statements.  A handler blocks every signal, so one   *)
(* runs at a time; the processes go on running meanwhile.  A process is    *)
(* named by the order in which it was forked: 1, 2, ...; 0 is no process   *)
(* (foreground_pid = -1).                                                  *)
(***************************************************************************)
EXTENDS Integers, Sequences, FiniteSets, SequencesExt

CONSTANTS
    MaxProcess,  \* bound: how many processes the user starts
    Commands,    \* the commands the user types
    Signals,     \* the signals the user names in the kill command
    Stubborn,    \* processes that ignore SIGINT and SIGTERM
    Reader       \* processes that stop when they read the terminal

ASSUME JobsAssumption ==
    /\ MaxProcess \in Nat
    /\ Commands \subseteq {"run", "background", "fg", "bg", "kill", "quit"}
    /\ Signals \subseteq {"TSTP", "CONT", "TERM", "KILL"}
    /\ Stubborn \subseteq 1 .. MaxProcess /\ Reader \subseteq 1 .. MaxProcess

VARIABLES
    jobs,        \* JobsList::_jobs: a sequence of [pid, stopped]
    foreground,  \* foreground_pid
    main,        \* where the shell's main loop stands
    handler,     \* the SIGCHLD handler's loop: its index (0: not running)
                 \* and what the variable "status" holds
    proc,        \* the state of each process in the kernel
    pend,        \* the signals each process has still to act on
    sigchld,     \* whether a SIGCHLD is pending for the shell
    overtaken,   \* history: a handler erased a job while main held an index
    dismissed,   \* history: jobs erased because SIGTERM was sent to them
    missed       \* history: jobs whose end the list does not follow

kernel  == <<proc, pend, sigchld>>
history == <<overtaken, dismissed, missed>>
vars == <<jobs, foreground, main, handler, kernel, history>>

Process == 1 .. MaxProcess
Alive   == {"running", "stopped", "reported"}
Ended   == {"exited", "killed"}
Over    == Ended \cup {"gone"}
(* "reported" is a stop that a wait has told the shell of, "gone" a process *)
(* that has been waited for.                                               *)
States == {"unborn", "gone"} \cup Alive \cup Ended

(* i is the position a command captured (0: none), pid the process it      *)
(* started or waits for, arg a signal to send or what a wait returned.     *)
Stand(at, cmd, i, pid, arg) ==
    [at |-> at, cmd |-> cmd, i |-> i, pid |-> pid, arg |-> arg]

Prompt == Stand("prompt", "none", 0, 0, "none")

Idle == [i |-> 0, status |-> "garbage"]

Init ==
    /\ jobs = <<>>
    /\ foreground = 0
    /\ main = Prompt
    /\ handler = Idle
    /\ proc = [p \in Process |-> "unborn"]
    /\ pend = [p \in Process |-> {}]
    /\ sigchld = FALSE
    /\ overtaken = FALSE
    /\ dismissed = {} /\ missed = {}

Listed == {jobs[i].pid : i \in DOMAIN jobs}

-----------------------------------------------------------------------------
(* The kernel's side *)

(* kill(): an ended process takes a signal without effect.  SIGCONT acts   *)
(* at once and cancels a stop that is still to come.                       *)
Post(p, s) ==
    IF s = "CONT"
    THEN /\ pend' = [pend EXCEPT ![p] = @ \ {"TSTP"}]
         /\ IF proc[p] \in {"stopped", "reported"}
            THEN proc' = [proc EXCEPT ![p] = "running"] /\ sigchld' = TRUE
            ELSE UNCHANGED <<proc, sigchld>>
    ELSE /\ pend' = [pend EXCEPT ![p] =
                        CASE proc[p] \notin Alive -> @
                          [] s = "KILL" \/ "KILL" \in @ -> {"KILL"}
                          [] OTHER -> @ \cup {s}]
         /\ UNCHANGED <<proc, sigchld>>

Become(p, state) ==
    /\ proc' = [proc EXCEPT ![p] = state]
    /\ sigchld' = TRUE

(* A process acts on a signal.  A stopped one acts on SIGKILL only. *)
TakeSignal(p) ==
    /\ proc[p] \in Alive
    /\ \E s \in pend[p] :
          /\ s # "KILL" => proc[p] = "running"
          /\ IF s \in {"INT", "TERM"} /\ p \in Stubborn
             THEN /\ pend' = [pend EXCEPT ![p] = @ \ {s}]
                  /\ UNCHANGED <<proc, sigchld>>
             ELSE IF s = "TSTP"
             THEN /\ pend' = [pend EXCEPT ![p] = @ \ {s}]
                  /\ Become(p, "stopped")
             ELSE /\ pend' = [pend EXCEPT ![p] = {}]
                  /\ Become(p, "killed")
    /\ UNCHANGED <<jobs, foreground, main, handler, history>>

Exits(p) ==
    /\ proc[p] = "running"
    /\ Become(p, "exited")
    /\ pend' = [pend EXCEPT ![p] = {}]
    /\ UNCHANGED <<jobs, foreground, main, handler, history>>

(* The child called setpgrp() and is never given the terminal: reading it  *)
(* stops the process by SIGTTIN.                                           *)
ReadsTerminal(p) ==
    /\ p \in Reader /\ proc[p] = "running"
    /\ Become(p, "stopped")
    /\ UNCHANGED <<jobs, foreground, main, handler, pend, history>>

-----------------------------------------------------------------------------
(* Positions in the list *)

OnList(i) == i \in DOMAIN jobs

(* _jobs[i]: past the end lies some job that was there before.             *)
Slot(i) ==
    IF OnList(i) THEN {jobs[i]}
    ELSE [pid : {p \in Process : proc[p] # "unborn"}, stopped : BOOLEAN]

(* The guard of KillJob and WakeJob, whose index counts from 0.            *)
IndexRefused(i) == Len(jobs) < i - 1

SetStopped(i, flag) ==
    jobs' = IF OnList(i) THEN [jobs EXCEPT ![i].stopped = flag] ELSE jobs

(* erase(begin() + index) past the end takes the last job off the list. *)
EraseAt(i) ==
    jobs' = IF OnList(i) THEN RemoveAt(jobs, i)
            ELSE IF jobs = <<>> THEN jobs ELSE Front(jobs)

AddJob(p, stopped) ==
    /\ jobs' = Append(jobs, [pid |-> p, stopped |-> stopped])
    /\ missed' = IF proc[p] \in Over THEN missed \cup {p} ELSE missed

-----------------------------------------------------------------------------
(* The signal handlers *)

(* Mutant of Control: foreground_pid is left as it was. *)
ControlKeeps(s) ==
    /\ handler.i = 0
    /\ main.at \notin {"exit", "crashed"}
    /\ foreground # 0 /\ proc[foreground] # "gone"
    /\ Post(foreground, s)
    /\ UNCHANGED <<jobs, foreground, main, handler, history>>

(* SIGINT_handler and SIGTSTP_handler: the user types Ctrl-C or Ctrl-Z,    *)
(* also while KillAllJobs sleeps.                                          *)
Control(s) ==
    /\ handler.i = 0
    /\ main.at \notin {"exit", "crashed"}
    /\ foreground # 0 /\ proc[foreground] # "gone"
    /\ Post(foreground, s)
    /\ foreground' = 0
    /\ UNCHANGED <<jobs, main, handler, history>>

ControlC == Control("INT")
ControlZ == Control("TSTP")

(* SIGCHILD_handler: CleanFinished goes once through the list. *)
EnterClean ==
    /\ sigchld /\ handler.i = 0
    /\ main.at \notin {"quit", "term", "slept", "exit", "crashed"}
    /\ sigchld' = FALSE
    /\ handler' = [i |-> 1, status |-> "garbage"]
    /\ UNCHANGED <<jobs, foreground, main, proc, pend, history>>

(* Mutant of KeepJob: no "continue", the loop looks at an old status. *)
KeepNoContinue ==
    /\ OnList(handler.i)
    /\ proc[jobs[handler.i].pid] \in Alive
    /\ IF handler.status = "ended"
       THEN jobs' = RemoveAt(jobs, handler.i)
       ELSE UNCHANGED jobs
    /\ handler' = [handler EXCEPT !.i = @ + 1]
    /\ UNCHANGED <<foreground, main, kernel, history>>

(* The loop's body with waitpid(pid, &status, WNOHANG) returning 0. *)
KeepJob ==
    /\ OnList(handler.i)
    /\ proc[jobs[handler.i].pid] \in Alive
    /\ handler' = [handler EXCEPT !.i = @ + 1]
    /\ UNCHANGED <<jobs, foreground, main, kernel, history>>

EraseInHandler(i) ==
    /\ EraseAt(i)
    /\ overtaken' = (overtaken \/ main.i # 0)
    /\ missed' = (missed \ {jobs[i].pid}) \cup
                   {jobs[j].pid : j \in {k \in DOMAIN jobs : k = i + 1 /\ proc[jobs[k].pid] \in Over}}
    /\ UNCHANGED dismissed

(* Mutant of ReapJob: the loop ends at the first job it erases. *)
ReapOnlyOne ==
    LET p == jobs[handler.i].pid IN
    /\ OnList(handler.i)
    /\ proc[p] \in Ended
    /\ proc' = [proc EXCEPT ![p] = "gone"]
    /\ EraseInHandler(handler.i)
    /\ handler' = Idle
    /\ UNCHANGED <<foreground, main, pend, sigchld>>

(* waitpid returns the process: the job is erased, the index still moves.  *)
ReapJob ==
    LET p == jobs[handler.i].pid IN
    /\ OnList(handler.i)
    /\ proc[p] \in Ended
    /\ proc' = [proc EXCEPT ![p] = "gone"]
    /\ EraseInHandler(handler.i)
    /\ handler' = [i |-> handler.i + 1, status |-> "ended"]
    /\ UNCHANGED <<foreground, main, pend, sigchld>>

(* waitpid fails, the process having been waited for: status keeps what an *)
(* earlier round left in it, or was never written.                         *)
StaleJob ==
    /\ OnList(handler.i)
    /\ proc[jobs[handler.i].pid] = "gone"
    /\ \/ EraseInHandler(handler.i)
       \/ /\ handler.status = "garbage"
          /\ missed' = missed \cup {jobs[handler.i].pid}
          /\ UNCHANGED <<jobs, overtaken, dismissed>>
    /\ handler' = [handler EXCEPT !.i = @ + 1]
    /\ UNCHANGED <<foreground, main, kernel>>

LeaveClean ==
    /\ handler.i # 0 /\ ~OnList(handler.i)
    /\ handler' = Idle
    /\ UNCHANGED <<jobs, foreground, main, kernel, history>>

Clean == EnterClean \/ KeepJob \/ ReapJob \/ StaleJob \/ LeaveClean

-----------------------------------------------------------------------------
(* Starting a command: ExeCmd, BgCmd, ExeExternal *)

(* The main loop stands at this place, with no signal to take first. *)
At(place) == main.at = place /\ handler.i = 0 /\ ~sigchld

Typed(command) == At("prompt") /\ command \in Commands

(* Mutant of Back: a command's local variables survive it. *)
BackUncleared == main' = [main EXCEPT !.at = "prompt"]

Back == main' = Prompt
Goto(place) == main' = [main EXCEPT !.at = place]

Forked == Cardinality({p \in Process : proc[p] # "unborn"})

Fork == /\ Forked < MaxProcess
        /\ proc' = [proc EXCEPT ![Forked + 1] = "running"]
        /\ UNCHANGED <<pend, sigchld>>

(* An external command: fork, then wait for it ... *)
Run ==
    /\ Typed("run")
    /\ Fork
    /\ main' = Stand("to_wait", "run", 0, Forked + 1, "none")
    /\ UNCHANGED <<jobs, foreground, handler, history>>

(* ... or, followed by &, put it on the list. *)
Background ==
    /\ Typed("background")
    /\ Fork
    /\ main' = Stand("add", "background", 0, Forked + 1, "none")
    /\ UNCHANGED <<jobs, foreground, handler, history>>

AddBackground ==
    /\ At("add")
    /\ AddJob(main.pid, FALSE)
    /\ Back
    /\ UNCHANGED <<foreground, handler, kernel, overtaken, dismissed>>

(* fg and bg: the number typed is checked, then used as a position.  Their *)
(* forms without a number pick one of these positions.                     *)
Choose(command) ==
    /\ Typed(command)
    /\ \E i \in DOMAIN jobs :
          main' = Stand("wake", command, i, 0, "none")
    /\ UNCHANGED <<jobs, foreground, handler, kernel, history>>

Fg == Choose("fg")
Bg == Choose("bg")

Kill ==
    /\ Typed("kill")
    /\ \E i \in DOMAIN jobs, s \in Signals :
          main' = Stand("send", "kill", i, 0, s)
    /\ UNCHANGED <<jobs, foreground, handler, kernel, history>>

-----------------------------------------------------------------------------
(* WakeJob and KillJob *)

(* WakeJob: a stopped job is sent SIGCONT.  bg gives up on another. *)
WakeJob ==
    /\ At("wake")
    /\ IF IndexRefused(main.i) THEN Back
       ELSE \E job \in Slot(main.i) :
              \/ /\ job.stopped
                 /\ main' = [main EXCEPT !.at = "send", !.arg = "CONT"]
              \/ /\ ~job.stopped
                 /\ IF main.cmd = "fg" THEN Goto("to_wait") ELSE Back
    /\ UNCHANGED <<jobs, foreground, handler, kernel, history>>

(* KillJob, up to the write that reports the signal ... *)
SendSignal ==
    /\ At("send")
    /\ \/ /\ IndexRefused(main.i)
          /\ Back /\ UNCHANGED kernel
       \/ /\ ~IndexRefused(main.i)
          /\ \E job \in Slot(main.i) :
                \/ /\ proc[job.pid] = "gone"
                   /\ Back /\ UNCHANGED kernel
                \/ /\ proc[job.pid] # "gone"
                   /\ Post(job.pid, main.arg)
                   /\ Goto("sent")
    /\ UNCHANGED <<jobs, foreground, handler, history>>

(* ... and after it: the list follows the signal. *)
SignalSent ==
    /\ At("sent")
    /\ CASE main.arg = "TSTP" -> SetStopped(main.i, TRUE)
         [] main.arg = "CONT" -> SetStopped(main.i, FALSE)
         [] OTHER             -> EraseAt(main.i)
    /\ dismissed' = IF main.arg = "TERM" THEN dismissed \cup (Listed \ Listed')
                    ELSE dismissed
    /\ IF main.cmd = "fg" THEN Goto("to_wait")
       ELSE IF main.arg \in {"TERM", "KILL"} /\ jobs = <<>> THEN Goto("crashed")
       ELSE Back
    /\ UNCHANGED <<foreground, handler, kernel, overtaken, missed>>

-----------------------------------------------------------------------------
(* WaitToProcess and what follows it in ExeExternal and WaitJob *)

ToWait ==
    /\ At("to_wait")
    /\ \E p \in IF main.cmd = "run" THEN {main.pid}
                ELSE {job.pid : job \in Slot(main.i)} :
          /\ foreground' = p
          /\ main' = [main EXCEPT !.at = "wait", !.pid = p]
    /\ UNCHANGED <<jobs, handler, kernel, history>>

(* Mutant of WaitReturns: wait again until waitpid returns the process. *)
WaitInsists ==
    /\ main.at = "wait" /\ handler.i = 0
    /\ proc[main.pid] \in Ended \cup {"stopped"}
    /\ proc' = [proc EXCEPT ![main.pid] = IF @ = "stopped" THEN "reported" ELSE "gone"]
    /\ main' = [main EXCEPT !.at = "waited", !.arg = proc[main.pid]]
    /\ UNCHANGED <<jobs, foreground, handler, pend, sigchld, history>>

(* waitpid(pid, &status, WUNTRACED) returns before a pending SIGCHLD is    *)
(* taken.  If it fails the status was never written.                       *)
WaitReturns ==
    /\ main.at = "wait" /\ handler.i = 0
    /\ LET p == main.pid IN
       \/ /\ proc[p] \in Ended
          /\ proc' = [proc EXCEPT ![p] = "gone"]
          /\ main' = [main EXCEPT !.at = "waited", !.arg = proc[p]]
       \/ /\ proc[p] = "stopped"
          /\ proc' = [proc EXCEPT ![p] = "reported"]
          /\ main' = [main EXCEPT !.at = "waited", !.arg = "stopped"]
       \/ /\ proc[p] = "gone"
          /\ \E status \in {"exited", "killed", "stopped"} :
                main' = [main EXCEPT !.at = "waited", !.arg = status]
          /\ UNCHANGED proc
    /\ UNCHANGED <<jobs, foreground, handler, pend, sigchld, history>>

(* Mutant of RunWaited: a command that stops is not made a job. *)
RunWaitedOnly ==
    /\ At("waited") /\ main.cmd = "run"
    /\ Back
    /\ UNCHANGED <<jobs, foreground, handler, kernel, history>>

RunWaited ==
    /\ At("waited") /\ main.cmd = "run"
    /\ IF main.arg = "stopped" THEN AddJob(main.pid, TRUE)
       ELSE UNCHANGED <<jobs, missed>>
    /\ Back
    /\ UNCHANGED <<foreground, handler, kernel, overtaken, dismissed>>

(* Mutant of FgWaited: a job that stops again is added as a new one. *)
FgWaitedAdds ==
    /\ At("waited") /\ main.cmd = "fg"
    /\ CASE main.arg = "stopped" -> AddJob(main.pid, TRUE)
         [] main.arg = "exited"  -> EraseAt(main.i) /\ UNCHANGED missed
         [] OTHER                -> UNCHANGED <<jobs, missed>>
    /\ IF main.arg = "exited" /\ jobs = <<>> THEN Goto("crashed") ELSE Back
    /\ UNCHANGED <<foreground, handler, kernel, overtaken, dismissed>>

(* A job killed by a signal stays on the list. *)
FgWaited ==
    /\ At("waited") /\ main.cmd = "fg"
    /\ CASE main.arg = "stopped" -> SetStopped(main.i, TRUE)
         [] main.arg = "exited"  -> EraseAt(main.i)
         [] OTHER                -> UNCHANGED jobs
    /\ IF main.arg = "exited" /\ jobs = <<>> THEN Goto("crashed") ELSE Back
    /\ UNCHANGED <<foreground, handler, kernel, history>>

-----------------------------------------------------------------------------
(* quit and KillAllJobs *)

(* SIGCHLD is ignored from here on; quit without kill leaves at once. *)
Quit ==
    /\ Typed("quit")
    /\ \/ main' = Stand("exit", "none", 0, 0, "none")
       \/ main' = Stand("quit", "kill", 1, 0, "none")
    /\ UNCHANGED <<jobs, foreground, handler, kernel, history>>

Turn == Stand("quit", "kill", main.i + 1, 0, "none")

QuitTerm ==
    /\ main.at = "quit" /\ OnList(main.i)
    /\ IF proc[jobs[main.i].pid] = "gone" THEN UNCHANGED kernel
       ELSE Post(jobs[main.i].pid, "TERM")
    /\ Goto("term")
    /\ UNCHANGED <<jobs, foreground, handler, history>>

(* waitpid(WNOHANG) takes an ended process, and fails on one taken before. *)
Poll(p) ==
    proc' = IF proc[p] \in Ended THEN [proc EXCEPT ![p] = "gone"] ELSE proc

(* Mutant of QuitPoll: a poll that finds the process alive counts as done. *)
QuitPollLax ==
    /\ main.at = "term"
    /\ Poll(jobs[main.i].pid)
    /\ main' = IF proc[jobs[main.i].pid] \in Ended THEN [main EXCEPT !.at = "slept"]
               ELSE Turn
    /\ UNCHANGED <<jobs, foreground, handler, pend, sigchld, history>>

(* The first poll, and the sleep of TIME_FOR_ENDING seconds. *)
QuitPoll ==
    /\ main.at = "term"
    /\ Poll(jobs[main.i].pid)
    /\ main' = IF proc[jobs[main.i].pid] = "gone" THEN Turn
               ELSE [main EXCEPT !.at = "slept"]
    /\ UNCHANGED <<jobs, foreground, handler, pend, sigchld, history>>

(* The second poll: SIGKILL unless it fails, even to a process it took. *)
QuitKill ==
    /\ main.at = "slept"
    /\ LET p == jobs[main.i].pid IN
       /\ Poll(p)
       /\ pend' = IF proc[p] \in Alive THEN [pend EXCEPT ![p] = {"KILL"}] ELSE pend
    /\ main' = Turn
    /\ UNCHANGED <<jobs, foreground, handler, sigchld, history>>

QuitExit ==
    /\ main.at = "quit" /\ ~OnList(main.i)
    /\ main' = Stand("exit", "kill", 0, 0, "none")
    /\ UNCHANGED <<jobs, foreground, handler, kernel, history>>

-----------------------------------------------------------------------------
(* What the processes do after the shell has left is not followed.         *)
Processes ==
    /\ main.at \notin {"exit", "crashed"}
    /\ \E p \in Process : TakeSignal(p) \/ Exits(p) \/ ReadsTerminal(p)

User == Run \/ Background \/ Fg \/ Bg \/ Kill \/ Quit \/ ControlC \/ ControlZ

Continue ==
    \/ AddBackground \/ WakeJob \/ SendSignal \/ SignalSent \/ ToWait
    \/ WaitReturns \/ RunWaited \/ FgWaited
    \/ QuitTerm \/ QuitPoll \/ QuitKill \/ QuitExit

Next == User \/ Continue \/ Clean \/ Processes

Spec == Init /\ [][Next]_vars

(* The shell's own code goes on; nothing makes a user type or a program    *)
(* end.                                                                    *)
Fairness == WF_vars(Continue) /\ WF_vars(Clean)

FairSpec == Spec /\ Fairness

-----------------------------------------------------------------------------
Status == Ended \cup {"stopped"}

Places ==
    {"prompt", "add", "wake", "send", "sent", "to_wait", "wait", "waited",
     "quit", "term", "slept", "exit", "crashed"}

(* Types, and: nothing is listed that was not forked, and what the prompt  *)
(* shows was left behind by no command (its index and process are gone).   *)
TypeOK ==
    /\ jobs \in Seq([pid : {p \in Process : proc[p] # "unborn"}, stopped : BOOLEAN])
    /\ foreground \in 0 .. MaxProcess
    /\ main \in [at : Places, cmd : Commands \cup {"none", "kill"}, i : 0 .. MaxProcess + 1,
                pid : 0 .. MaxProcess, arg : Signals \cup {"none", "CONT"} \cup Status]
    /\ main.at = "prompt" => main = Prompt
    /\ handler \in [i : 0 .. MaxProcess + 1, status : {"garbage", "ended"}]
    /\ proc \in [Process -> States]
    /\ pend \in [Process -> SUBSET {"INT", "TSTP", "TERM", "KILL"}]
    /\ sigchld \in BOOLEAN /\ overtaken \in BOOLEAN
    /\ dismissed \subseteq Process /\ missed \subseteq Process

(* The list stays in the order in which the processes were started, so no  *)
(* process is on it twice: job numbers count up as jobs are added, also    *)
(* when a job is stopped, brought back and stopped again.                  *)
InOrder == \A i, j \in DOMAIN jobs : i < j => jobs[i].pid < jobs[j].pid

(* The cleaning takes no job off the list whose process still lives, even  *)
(* when it acts on a status that no call wrote.                            *)
CleanSound ==
    [][handler.i # 0 =>
         \A i \in DOMAIN jobs :
            proc[jobs[i].pid] \in Alive => jobs[i].pid \in Listed']_vars

(* Until a handler has erased a job while a command held a position in the *)
(* list (overtaken), every process that lives is within the user's reach:  *)
(* on the list, in the hands of the command being run, or about to die of  *)
(* SIGKILL; but for the jobs that a kill command took off the list because *)
(* it sent SIGTERM (dismissed), which may ignore it.                       *)
NothingForgotten ==
    \/ overtaken
    \/ \A p \in Process : proc[p] \in Alive =>
          p \in Listed \cup {main.pid} \cup dismissed \/ "KILL" \in pend[p]

(* A job that has ended is still on the list at the prompt in three cases  *)
(* only: it ended before it was put there, it followed a job erased in the *)
(* same cleaning, or waitpid failed and left no status to go by.  One      *)
(* SIGCHLD for several ends loses none.                                    *)
FinishedExplained ==
    At("prompt") =>
      \A i \in DOMAIN jobs : proc[jobs[i].pid] \in Over => jobs[i].pid \in missed

(* While the shell waits for a process, Ctrl-C and Ctrl-Z go to that one,  *)
(* or to none, since the first of them clears foreground_pid               *)
(* (signals.cpp:19): a process that still runs and has no signal to act on *)
(* is out of their reach only if it ignores SIGINT.                        *)
WaitedReached ==
    main.at = "wait" =>
      /\ foreground \in {0, main.pid}
      /\ foreground = 0 /\ proc[main.pid] = "running" /\ pend[main.pid] = {}
           => main.pid \in Stubborn

(* And when it does not wait they reach no process that lives, but one     *)
(* that stopped itself by reading the terminal (Reader): foreground_pid    *)
(* outlives the wait.  Once a handler has erased a job while a command     *)
(* held a position (overtaken), the flags of the list may be another job's *)
(* and nothing is said of what they reach at the prompt.                   *)
OthersSpared ==
    main.at \notin {"wait", "waited"} /\ foreground # 0 /\ proc[foreground] \in Alive
      => foreground \in Reader \/ overtaken

(* What Ctrl-C and Ctrl-Z reach: what the shell waits for and nothing else,*)
(* as far as the two parts say.                                            *)
ControlReach == WaitedReached /\ OthersSpared

(* After quit kill no job lives on, whatever signals it ignores.           *)
QuitKillsAll ==
    main = Stand("exit", "kill", 0, 0, "none") =>
      \A i \in DOMAIN jobs : proc[jobs[i].pid] \in Alive => "KILL" \in pend[jobs[i].pid]

(* When the process in the foreground ends the prompt comes back, whether  *)
(* the shell or the handler was the one to collect it.                     *)
WaitEnds ==
    main.at = "wait" /\ proc[main.pid] \in Ended ~> main.at \in {"prompt", "crashed"}
=============================================================================
