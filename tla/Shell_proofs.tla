---------------------------- MODULE Shell_proofs ----------------------------
(***************************************************************************)
(* Proofs about the shell (Shell.tla with FileCommands.tla), for all files, *)
(* all lines and all limits, with any call failing at any time and other   *)
(* processes at the files: the types, the descriptors, what cp leaves      *)
(* behind at every moment, and what cp and diff may say.                   *)
(***************************************************************************)
EXTENDS Shell, SequenceTheorems, TLAPS

CopyLoop == {"copy_read", "copy_write", "copy_close"}
DiffLoop == {"diff_read", "diff_close"}

(* What ExeCmd is to run comes from the line that was read, and until a    *)
(* command is over it has printed nothing.                                 *)
Reading ==
    /\ at # "prompt" => told = "nothing"
    /\ at \in {"parse", "launch", "execute"} => line \in Lines[user] /\ task = NoTask
    /\ at \in {"launch", "execute"} => SplitCommand(line).rest # ERROR_VALUE
    /\ at = "launch" => rest = Remainder(line)
    /\ at = "execute" => command = parseCommand(Remainder(line))

(* A command between two of its steps has its two paths, and its target is *)
(* a regular file once it has been opened.                                 *)
Running ==
    /\ task.cmd # "none" => task.first \in Path /\ task.second \in Path
    /\ at \in CopyLoop \cup {"open_new"} => task.cmd = "cp"
    /\ at \in DiffLoop => task.cmd = "diff"
    /\ at \in CopyLoop => disk[Second].kind = "file"
    /\ at = "copy_write" => task.byte \in Byte

(* Lines are numbered as they are read, and none is lost before the limit. *)
Numbering ==
    /\ at # "crashed" => Len(history) = typed
    /\ \A i \in DOMAIN meddled : meddled[i] <= typed

(* The descriptors that the command at work has open and will close.  What *)
(* is open beyond them was left by commands that failed.                   *)
Held == IF at = "open_new" THEN 1 ELSE IF at \in CopyLoop \cup DiffLoop THEN 2 ELSE 0

Leaks ==
    at \notin {"exited", "crashed"} =>
      \E left \in 0 .. 2 * failed : fds = left + Held

TInv == TypeOK /\ Reading /\ Running /\ Numbering /\ Leaks

-----------------------------------------------------------------------------
(* Files and paths *)

(* The members of Entry.                                                   *)
LEMMA Entries ==
    /\ Nothing \in Entry /\ Directory \in Entry
    /\ \A s \in Seq(Byte) : File(s) \in Entry
    /\ \A e \in Entry : /\ e.kind \in {"none", "file", "dir"} /\ e.data \in Seq(Byte)
                        /\ e.kind # "file" => e.data = <<>>
                        /\ e.kind = "file" => e = File(e.data)
  BY EmptySeq DEF Entry, Nothing, Directory, File

(* Writing the data of a regular file.                                     *)
LEMMA WriteData ==
    ASSUME NEW e \in Entry, NEW s \in Seq(Byte), e.kind = "file"
    PROVE  [e EXCEPT !.data = s] = File(s)
  BY DEF Entry, File

(* A path leads to a file or directory, wherever the shell stands.         *)
LEMMA Reached ==
    ASSUME TypeOK, NEW path \in Path
    PROVE  Reach(path) \in Node
  BY FileAssumption DEF Reach, TypeOK

(* What a read returns is one byte only where there is one.                *)
LEMMA Reads ==
    ASSUME TypeOK, NEW n \in Node, NEW count \in ReadResults(n)
    PROVE  /\ count \in {-1, 0, 1}
           /\ count = 1 => /\ disk[n].kind = "file"
                           /\ task.off + 1 \in 1 .. Len(disk[n].data)
                           /\ disk[n].data[task.off + 1] \in Byte
           /\ count = 0 => disk[n].kind = "file" /\ task.off >= Len(disk[n].data)
<1>1. disk[n] \in Entry /\ task.off \in Nat
  BY DEF TypeOK, Tasks
<1>2. disk[n].data \in Seq(Byte)
  BY <1>1, Entries
<1>3. /\ count \in {-1, 0, 1}
      /\ count = 1 => disk[n].kind = "file" /\ task.off < Len(disk[n].data)
      /\ count = 0 => disk[n].kind = "file" /\ ~(task.off < Len(disk[n].data))
  BY DEF ReadResults
<1>4. Len(disk[n].data) \in Nat
  BY <1>2, LenProperties
<1>5. count = 1 => task.off + 1 \in 1 .. Len(disk[n].data)
  BY <1>1, <1>3, <1>4
<1> QED
  BY <1>1, <1>2, <1>3, <1>4, <1>5, ElementOfSeq

-----------------------------------------------------------------------------
(* Types, descriptors and the line *)

LineFrame == UNCHANGED <<user, history, typed, line, before, meddled>>

(* A command that fails may leave two descriptors.                         *)
LEMMA Twice ==
    ASSUME NEW left \in Nat, NEW n \in Nat, NEW m \in Nat, left <= 2 * n, m >= n
    PROVE  left + 0 <= 2 * m /\ (m = n + 1 => left + 1 <= 2 * m /\ left + 2 <= 2 * m)
  OBVIOUS

(* Whether a command ends and how it says so decides what is counted.      *)
LEMMA Counted ==
    ASSUME TypeOK, CountFailure
    PROVE  /\ failed' \in Nat /\ failed' >= failed
           /\ at' = "prompt" /\ told' = "error" => failed' = failed + 1
  BY DEF TypeOK, CountFailure

(* A step from a place that holds so many descriptors to one that holds so *)
(* many; it leaves more behind only if it ends the command with an error.  *)
LEMMA LeaksStep ==
    ASSUME TypeOK, Leaks, CountFailure, at \notin {"exited", "crashed"},
           NEW was \in Nat, NEW now \in Nat, NEW more \in 0 .. 2,
           Held = was, Held' = now, fds' = fds - was + more + now,
           more > 0 => at' = "prompt" /\ told' = "error"
    PROVE  Leaks' /\ fds' \in Nat
<1>1. PICK left \in Nat : left <= 2 * failed /\ fds = left + was
  BY DEF Leaks, TypeOK
<1>2. fds' = (left + more) + now /\ left + more \in Nat
  BY <1>1
<1>3. left + more <= 2 * failed'
  <2>1. /\ failed \in Nat /\ failed' \in Nat /\ failed' >= failed
        /\ more > 0 => failed' = failed + 1
    BY Counted DEF TypeOK
  <2>2. CASE more = 0
    BY <1>1, <2>1, <2>2, Twice
  <2>3. CASE more \in {1, 2}
    <3>1. failed' = failed + 1
      BY <2>1, <2>3
    <3>2. left + 1 <= 2 * failed' /\ left + 2 <= 2 * failed'
      BY <1>1, <2>1, <3>1, Twice
    <3> QED
      BY <2>3, <3>2
  <2> QED
    BY <2>2, <2>3
<1>4. left + more \in 0 .. 2 * failed'
  BY <1>2, <1>3, Counted
<1> QED
  BY <1>2, <1>4 DEF Leaks

(* Steps between reading a line and running it, and commands that leave    *)
(* the files alone.                                                        *)
LEMMA QuietStep ==
    ASSUME TInv, LineFrame, CountFailure,
           UNCHANGED <<disk, fds, cwd, path_buffer, task>>,
           at \in {"parse", "launch", "execute"},
           at' \in {"launch", "execute", "prompt", "exited"},
           told' \in Outputs, Reading'
    PROVE  TInv'
<1> USE DEF TInv, LineFrame
<1>1. failed' \in Nat /\ failed' >= failed
  BY Counted
<1>2. TypeOK'
  BY <1>1 DEF TypeOK, Places
<1>3. Running'
  <2>1. task = NoTask
    BY DEF Reading
  <2> QED
    BY <2>1 DEF Running, NoTask, CopyLoop, DiffLoop
<1>4. Numbering'
  BY DEF Numbering
<1>5. Leaks'
  <2>1. Held = 0 /\ Held' = 0 /\ at \notin {"exited", "crashed"}
    BY DEF Held, CopyLoop, DiffLoop
  <2>2. fds' = fds - 0 + 0 + 0
    BY DEF TypeOK
  <2> QED
    BY <2>1, <2>2, LeaksStep
<1> QED
  BY <1>2, <1>3, <1>4, <1>5

(* The steps of BgCmd and the parsing of the rest of the line.             *)
LEMMA ParsingStep ==
    ASSUME TInv, LineFrame, CountFailure, Split \/ Launch \/ Parse
    PROVE  TInv'
<1>1. CASE Split
  <2>1. Reading' /\ at' \in {"launch", "prompt"} /\ told' \in Outputs /\ at = "parse"
    BY <1>1 DEF TInv, TypeOK, Reading, Split, Tell, LineFrame, Outputs
  <2> QED
    BY <1>1, <2>1, QuietStep DEF Split
<1>2. CASE Launch
  <2>1. Reading' /\ at' = "launch" /\ at = "launch" /\ told' \in Outputs
    BY <1>2 DEF TInv, TypeOK, Reading, Launch, LineFrame
  <2> QED
    BY <1>2, <2>1, QuietStep DEF Launch
<1>3. CASE Parse
  <2>1. Reading' /\ at' = "execute" /\ at = "launch" /\ told' \in Outputs
    BY <1>3 DEF TInv, TypeOK, Reading, Parse, LineFrame
  <2> QED
    BY <1>3, <2>1, QuietStep DEF Parse
<1> QED
  BY <1>1, <1>2, <1>3

(* Where a command begins, its words are those of the line, and the words  *)
(* in the place of paths are paths.                                        *)
LEMMA ArgumentsArePaths ==
    ASSUME TInv, at = "execute"
    PROVE  /\ Is("cd", 1) => Argument(1) \in Path \cup {"-"}
           /\ Is("cp", 2) \/ Is("diff", 2) => Argument(1) \in Path /\ Argument(2) \in Path
<1>1. /\ line \in Lines[user] /\ user \in DOMAIN Lines
      /\ SplitCommand(line).rest # ERROR_VALUE
      /\ command = parseCommand(Remainder(line))
  BY DEF TInv, Reading, TypeOK
<1>2. PathsTyped(line)
  BY <1>1, ShellAssumption
<1> QED
  BY <1>1, <1>2 DEF PathsTyped, Is, Argument

(* cd *)
LEMMA CdStep ==
    ASSUME TInv, LineFrame, CountFailure, at = "execute",
           NEW path \in Path \cup {"-"}, cd(path)
    PROVE  TInv'
<1> USE DEF TInv, LineFrame
<1>1. /\ at' = "prompt" /\ told' \in Outputs
      /\ UNCHANGED <<disk, fds, task>>
  BY DEF cd, Tell, Outputs
<1>2. cwd' \in Node /\ path_buffer' \in Path \cup {"null"}
  <2> DEFINE to == IF path = "-" THEN path_buffer ELSE path
  <2>1. cwd \in Node /\ path_buffer \in Path \cup {"null"}
    BY DEF TypeOK
  <2>2. \/ UNCHANGED <<cwd, path_buffer>>
        \/ to # "null" /\ cwd' = Reach(to) /\ path_buffer' = NameOf[cwd]
    BY DEF cd
  <2>3. to # "null" => to \in Path
    BY <2>1
  <2> HIDE DEF to
  <2> QED
    BY <2>1, <2>2, <2>3, Reached, FileAssumption
<1>3. failed' \in Nat /\ failed' >= failed
  BY Counted
<1>4. TypeOK'
  BY <1>1, <1>2, <1>3 DEF TypeOK, Places
<1>5. Reading' /\ Numbering'
  BY <1>1 DEF Reading, Numbering
<1>6. Running'
  BY <1>1 DEF Reading, Running, NoTask, CopyLoop, DiffLoop
<1>7. Leaks'
  <2>1. Held = 0 /\ Held' = 0 /\ at \notin {"exited", "crashed"}
    BY <1>1 DEF Held, CopyLoop, DiffLoop
  <2>2. fds' = fds - 0 + 0 + 0
    BY <1>1 DEF TypeOK
  <2> QED
    BY <2>1, <2>2, LeaksStep
<1> QED
  BY <1>4, <1>5, <1>6, <1>7

(* The beginning of cp and of diff.                                        *)
LEMMA BeginStep ==
    ASSUME TInv, LineFrame, CountFailure, at = "execute",
           NEW first \in Path, NEW second \in Path,
           cp(first, second) \/ diff(first, second)
    PROVE  TInv'
<1> USE DEF TInv, LineFrame
<1>1. PICK cmd \in {"cp", "diff"} :
        /\ task' = [NoTask EXCEPT !.cmd = cmd, !.first = first, !.second = second]
        /\ \/ at' = "prompt" /\ told' = "error" /\ fds' \in {fds, fds + 2}
           \/ at' = "open_new" /\ cmd = "cp" /\ fds' = fds + 1 /\ told' = told
           \/ at' = "diff_read" /\ cmd = "diff" /\ fds' = fds + 2 /\ told' = told
  BY DEF cp, diff, Begin, Tell
<1>2. UNCHANGED <<disk, cwd, path_buffer>>
  BY DEF cp, diff
<1>3. /\ task' \in Tasks /\ task'.cmd = cmd /\ task'.first \in Path /\ task'.second \in Path
  BY <1>1 DEF Tasks, Names, NoTask
<1>4. /\ failed' \in Nat /\ failed' >= failed
      /\ at' = "prompt" /\ told' = "error" => failed' = failed + 1
  BY Counted
<1>5. TypeOK'
  BY <1>1, <1>2, <1>3, <1>4 DEF TypeOK, Places, Outputs
<1>6. Reading' /\ Numbering'
  BY <1>1 DEF Reading, Numbering
<1>7. Running'
  BY <1>1, <1>3 DEF Running, CopyLoop, DiffLoop
<1>8. Leaks'
  <2>1. Held = 0 /\ at \notin {"exited", "crashed"} /\ fds \in Nat
    BY DEF Held, CopyLoop, DiffLoop, TypeOK
  <2>2. CASE at' = "prompt" /\ told' = "error" /\ fds' \in {fds, fds + 2}
    <3>1. Held' = 0
      BY <2>2 DEF Held, CopyLoop, DiffLoop
    <3>2. CASE fds' = fds
      <4>1. fds' = fds - 0 + 0 + 0
        BY <2>1, <3>2
      <4> QED
        BY <2>1, <3>1, <4>1, LeaksStep
    <3>3. CASE fds' = fds + 2
      <4>1. fds' = fds - 0 + 2 + 0
        BY <2>1, <3>3
      <4> QED
        BY <2>1, <2>2, <3>1, <4>1, LeaksStep
    <3> QED
      BY <2>2, <3>2, <3>3
  <2>3. CASE at' = "open_new" /\ fds' = fds + 1
    <3>1. Held' = 1 /\ fds' = fds - 0 + 0 + 1
      BY <2>1, <2>3 DEF Held
    <3> QED
      BY <2>1, <3>1, LeaksStep
  <2>4. CASE at' = "diff_read" /\ fds' = fds + 2
    <3>1. Held' = 2 /\ fds' = fds - 0 + 0 + 2
      BY <2>1, <2>4 DEF Held, CopyLoop, DiffLoop
    <3> QED
      BY <2>1, <3>1, LeaksStep
  <2> QED
    BY <1>1, <2>2, <2>3, <2>4
<1> QED
  BY <1>5, <1>6, <1>7, <1>8

(* ExeCmd: one command.                                                    *)
LEMMA ExeCmdStep ==
    ASSUME TInv, LineFrame, CountFailure, ExeCmd
    PROVE  TInv'
<1>1. at = "execute"
  BY DEF ExeCmd
<1>2. CASE EmptyLine \/ IllegalCommand \/ PassiveCommand \/ Quit \/ External
  <2>1. /\ at' \in {"prompt", "exited"} /\ told' \in Outputs
        /\ at' = "exited" => told' = told
        /\ UNCHANGED <<disk, fds, cwd, path_buffer, task>>
    BY <1>2 DEF EmptyLine, IllegalCommand, PassiveCommand, Quit, External, Tell, quiet,
                Outputs, TInv, TypeOK
  <2>2. Reading'
    BY <1>1, <2>1 DEF TInv, Reading
  <2> QED
    BY <1>1, <2>1, <2>2, QuietStep
<1>3. CASE FileCommand
  BY <1>1, <1>3, ArgumentsArePaths, CdStep, BeginStep DEF FileCommand
<1> QED
  BY <1>2, <1>3 DEF ExeCmd

Working == {"open_new"} \cup CopyLoop \cup DiffLoop

(* A command at work knows its files.                                      *)
LEMMA AtWork ==
    ASSUME TInv, at \in Working
    PROVE  /\ First \in Node /\ Second \in Node
           /\ task \in Tasks /\ task.first \in Path /\ task.second \in Path
           /\ told = "nothing" /\ fds \in Nat
           /\ Held \in Nat /\ at \notin {"exited", "crashed"}
<1>1. task.first \in Path /\ task.second \in Path
  BY DEF TInv, Running, Working
<1>2. First \in Node /\ Second \in Node
  BY <1>1, Reached DEF First, Second, TInv
<1>3. Held \in Nat /\ at \notin {"exited", "crashed"}
  BY DEF Held, Working, CopyLoop, DiffLoop
<1> QED
  BY <1>1, <1>2, <1>3 DEF TInv, TypeOK, Reading, Working, CopyLoop, DiffLoop

(* What a step of cp or diff leaves alone.                                 *)
LEMMA FileStepKept ==
    ASSUME TInv, LineFrame, CountFailure, UNCHANGED <<cwd, path_buffer>>, at \in Working,
           at' \in CopyLoop \cup DiffLoop \cup {"prompt", "crashed"},
           told' \in Outputs, at' # "prompt" => told' = told,
           disk' \in [Node -> Entry], task' \in Tasks,
           task'.cmd = task.cmd, task'.first = task.first, task'.second = task.second,
           at' \in CopyLoop => task.cmd = "cp" /\ disk'[Second].kind = "file",
           at' \in DiffLoop => task.cmd = "diff",
           at' = "copy_write" => task'.byte \in Byte,
           Leaks', fds' \in Nat
    PROVE  TInv'
<1> USE DEF TInv, LineFrame
<1>1. told = "nothing" /\ task.first \in Path /\ task.second \in Path
  BY AtWork
<1>2. TypeOK'
  BY Counted DEF TypeOK, Places, CopyLoop, DiffLoop
<1>3. Reading'
  BY <1>1 DEF Reading, CopyLoop, DiffLoop
<1>4. Running'
  <2>1. Second' = Second
    BY DEF Second, Reach
  <2>2. at' # "open_new"
    BY DEF CopyLoop, DiffLoop
  <2> QED
    BY <1>1, <2>1, <2>2 DEF Running
<1>5. Numbering'
  BY DEF Numbering, Working, CopyLoop, DiffLoop
<1> QED
  BY <1>2, <1>3, <1>4, <1>5

LEMMA CopyOpenNewStep ==
    ASSUME TInv, LineFrame, CountFailure, CopyOpenNew
    PROVE  TInv'
<1> USE DEF TInv
<1>1. at = "open_new" /\ at \in Working
  BY DEF CopyOpenNew, Working
<1>2. Second \in Node /\ task \in Tasks /\ fds \in Nat /\ at \notin {"exited", "crashed"}
      /\ Held = 1 /\ told = "nothing" /\ task.cmd = "cp"
  BY <1>1, AtWork DEF Held, Running
<1>3. disk' \in [Node -> Entry]
  <2>1. File(<<>>) \in Entry
    BY Entries, EmptySeq
  <2> QED
    BY <1>2, <2>1 DEF CopyOpenNew, TypeOK
<1>4. CASE at' = "prompt" /\ told' = "error" /\ fds' = fds - 1
  <2>1. Held' = 0 /\ fds' = fds - 1 + 0 + 0
    BY <1>2, <1>4 DEF Held, CopyLoop, DiffLoop
  <2>2. Leaks' /\ fds' \in Nat
    BY <1>2, <1>4, <2>1, LeaksStep
  <2> QED
    BY <1>1, <1>2, <1>3, <1>4, <2>2, FileStepKept DEF CopyOpenNew, CopyLoop, DiffLoop, Outputs
<1>5. CASE at' = "prompt" /\ told' = "error" /\ fds' = fds + 1
  <2>1. Held' = 0 /\ fds' = fds - 1 + 2 + 0
    BY <1>2, <1>5 DEF Held, CopyLoop, DiffLoop
  <2>2. Leaks' /\ fds' \in Nat
    BY <1>2, <1>5, <2>1, LeaksStep
  <2> QED
    BY <1>1, <1>2, <1>3, <1>5, <2>2, FileStepKept DEF CopyOpenNew, CopyLoop, DiffLoop, Outputs
<1>6. CASE at' = "copy_read" /\ told' = told /\ fds' = fds + 1
           /\ disk' = [disk EXCEPT ![Second] = File(<<>>)]
  <2>1. Held' = 2 /\ fds' = fds - 1 + 0 + 2
    BY <1>2, <1>6 DEF Held, CopyLoop, DiffLoop
  <2>2. Leaks' /\ fds' \in Nat
    BY <1>2, <1>6, <2>1, LeaksStep
  <2>3. disk'[Second].kind = "file"
    BY <1>2, <1>6 DEF TypeOK, File
  <2> QED
    BY <1>1, <1>2, <1>3, <1>6, <2>2, <2>3, FileStepKept
       DEF CopyOpenNew, CopyLoop, DiffLoop, Outputs, TypeOK
<1> QED
  BY <1>4, <1>5, <1>6 DEF CopyOpenNew, Tell

LEMMA CopyReadStep ==
    ASSUME TInv, LineFrame, CountFailure, CopyRead
    PROVE  TInv'
<1> USE DEF TInv
<1>1. at = "copy_read" /\ at \in Working
  BY DEF CopyRead, Working, CopyLoop
<1>2. First \in Node /\ Second \in Node /\ task \in Tasks /\ fds \in Nat
      /\ at \notin {"exited", "crashed"} /\ Held = 2 /\ told = "nothing" /\ task.cmd = "cp"
      /\ disk[Second].kind = "file"
  BY <1>1, AtWork DEF Held, Running, CopyLoop
<1>3. UNCHANGED <<disk, fds, cwd, path_buffer>>
  BY DEF CopyRead
<1>4. PICK count \in ReadResults(First) :
        CASE count = 1 ->
                /\ task' = [task EXCEPT !.byte = disk[First].data[task.off + 1],
                                        !.off = @ + 1]
                /\ at' = "copy_write" /\ UNCHANGED told
           [] count = 0 -> at' = "copy_close" /\ UNCHANGED <<told, task>>
           [] OTHER     -> Tell("error") /\ UNCHANGED task
  BY DEF CopyRead
<1>5. CASE count = 1
  <2>1. disk[First].data[task.off + 1] \in Byte
    BY <1>2, <1>5, Reads
  <2>2. /\ at' = "copy_write" /\ told' = told /\ task' \in Tasks /\ task'.byte \in Byte
        /\ task'.cmd = task.cmd /\ task'.first = task.first /\ task'.second = task.second
    <3> DEFINE read == disk[First].data[task.off + 1]
    <3>1. task' = [[task EXCEPT !.byte = read] EXCEPT !.off = task.off + 1]
      BY <1>2, <1>4, <1>5 DEF Tasks
    <3>2. /\ task.off + 1 \in Nat
          /\ at' = "copy_write" /\ told' = told
      BY <1>2, <1>4, <1>5 DEF Tasks
    <3>3. read \in Byte
      BY <2>1
    <3> HIDE DEF read
    <3> QED
      BY <1>2, <3>1, <3>2, <3>3 DEF Tasks
  <2>3. Held' = 2 /\ fds' = fds - 2 + 0 + 2
    BY <1>2, <1>3, <2>2 DEF Held, CopyLoop
  <2>4. Leaks' /\ fds' \in Nat
    BY <1>2, <2>2, <2>3, LeaksStep
  <2> QED
    BY <1>1, <1>2, <1>3, <2>2, <2>4, FileStepKept DEF CopyLoop, DiffLoop, Outputs, TypeOK
<1>6. CASE count = 0
  <2>1. at' = "copy_close" /\ UNCHANGED <<told, task>>
    BY <1>4, <1>6
  <2>2. Held' = 2 /\ fds' = fds - 2 + 0 + 2
    BY <1>2, <1>3, <2>1 DEF Held, CopyLoop
  <2>3. Leaks' /\ fds' \in Nat
    BY <1>2, <2>1, <2>2, LeaksStep
  <2> QED
    BY <1>1, <1>2, <1>3, <2>1, <2>3, FileStepKept DEF CopyLoop, DiffLoop, Outputs, TypeOK
<1>7. CASE count \notin {0, 1}
  <2>1. at' = "prompt" /\ told' = "error" /\ UNCHANGED task
    BY <1>4, <1>7 DEF Tell
  <2>2. Held' = 0 /\ fds' = fds - 2 + 2 + 0
    BY <1>2, <1>3, <2>1 DEF Held, CopyLoop, DiffLoop
  <2>3. Leaks' /\ fds' \in Nat
    BY <1>2, <2>1, <2>2, LeaksStep
  <2> QED
    BY <1>1, <1>2, <1>3, <2>1, <2>3, FileStepKept DEF CopyLoop, DiffLoop, Outputs, TypeOK
<1> QED
  BY <1>5, <1>6, <1>7

(* The command closes its two files, or one of them, and is over.          *)
LEMMA CloseBothStep ==
    ASSUME TInv, CountFailure, at \in CopyLoop \cup DiffLoop,
           NEW success \in Outputs, CloseBoth(success)
    PROVE  at' = "prompt" /\ told' \in Outputs /\ Leaks' /\ fds' \in Nat
<1> USE DEF TInv
<1>1. at' = "prompt" /\ told' \in Outputs
  BY DEF CloseBoth, Tell, Outputs
<1>2. Held = 2 /\ Held' = 0 /\ at \notin {"exited", "crashed"} /\ fds \in Nat
  BY <1>1 DEF Held, CopyLoop, DiffLoop, TypeOK
<1>3. CASE fds' = fds - 1 /\ told' = "error"
  <2>1. fds' = fds - 2 + 1 + 0
    BY <1>2, <1>3
  <2> QED
    BY <1>1, <1>2, <1>3, <2>1, LeaksStep
<1>4. CASE fds' = fds - 2
  <2>1. fds' = fds - 2 + 0 + 0
    BY <1>2, <1>4
  <2> QED
    BY <1>1, <1>2, <2>1, LeaksStep
<1> QED
  BY <1>1, <1>3, <1>4 DEF CloseBoth, Tell

(* The bytes of the target after a write.                                  *)
LEMMA WrittenType ==
    ASSUME TInv, at = "copy_write"
    PROVE  Written \in Seq(Byte)
<1>1. disk[Second] \in Entry /\ task.byte \in Byte /\ task.off \in Nat
  BY AtWork DEF TInv, Working, CopyLoop, Running, TypeOK, Tasks
<1>2. disk[Second].data \in Seq(Byte)
  BY <1>1, Entries
<1> DEFINE old == disk[Second].data
<1>3. task.off \in DOMAIN old => [old EXCEPT ![task.off] = task.byte] \in Seq(Byte)
  BY <1>1, <1>2, ExceptSeq, LenProperties
<1>4. Append(old, task.byte) \in Seq(Byte)
  BY <1>1, <1>2, AppendProperties
<1> QED
  BY <1>3, <1>4 DEF Written

LEMMA CopyWriteStep ==
    ASSUME TInv, LineFrame, CountFailure, CopyWrite
    PROVE  TInv'
<1> USE DEF TInv
<1>1. at = "copy_write" /\ at \in Working /\ at \in CopyLoop
  BY DEF CopyWrite, Working, CopyLoop
<1>2. Second \in Node /\ task \in Tasks /\ fds \in Nat /\ at \notin {"exited", "crashed"}
      /\ Held = 2 /\ told = "nothing" /\ task.cmd = "cp" /\ disk[Second].kind = "file"
  BY <1>1, AtWork DEF Held, Running
<1>3. UNCHANGED <<cwd, path_buffer, task>>
  BY DEF CopyWrite
<1>4. CASE /\ disk' = [disk EXCEPT ![Second].data = Written]
           /\ at' = "copy_read" /\ UNCHANGED <<told, fds>>
  <2>1. disk' = [disk EXCEPT ![Second] = File(Written)] /\ disk' \in [Node -> Entry]
    <3>1. disk \in [Node -> Entry] /\ disk[Second] \in Entry /\ Written \in Seq(Byte)
      BY <1>1, <1>2, WrittenType DEF TypeOK
    <3>2. [disk[Second] EXCEPT !.data = Written] = File(Written) /\ File(Written) \in Entry
      BY <1>2, <3>1, WriteData, Entries
    <3>3. disk' = [disk EXCEPT ![Second] = [disk[Second] EXCEPT !.data = Written]]
      BY <1>4
    <3>4. disk' = [disk EXCEPT ![Second] = File(Written)]
      BY <3>2, <3>3
    <3> QED
      BY <1>2, <3>1, <3>2, <3>4
  <2>2. disk'[Second].kind = "file"
    BY <1>2, <2>1 DEF TypeOK, File
  <2>3. Held' = 2 /\ fds' = fds - 2 + 0 + 2
    BY <1>2, <1>4 DEF Held, CopyLoop
  <2>4. Leaks' /\ fds' \in Nat
    BY <1>2, <1>4, <2>3, LeaksStep
  <2> QED
    BY <1>1, <1>2, <1>3, <1>4, <2>1, <2>2, <2>4, FileStepKept
       DEF CopyLoop, DiffLoop, Outputs, TypeOK
<1>5. CASE CloseBoth("error") /\ UNCHANGED disk
  <2>1. at' = "prompt" /\ told' \in Outputs /\ Leaks' /\ fds' \in Nat
    BY <1>1, <1>5, CloseBothStep DEF Outputs
  <2> QED
    BY <1>1, <1>2, <1>3, <1>5, <2>1, FileStepKept DEF CopyLoop, DiffLoop, TypeOK
<1> QED
  BY <1>4, <1>5 DEF CopyWrite

LEMMA CopyCloseStep ==
    ASSUME TInv, LineFrame, CountFailure, CopyClose
    PROVE  TInv'
<1> USE DEF TInv
<1>1. at \in Working /\ at \in CopyLoop
  BY DEF CopyClose, Working, CopyLoop
<1>2. at' = "prompt" /\ told' \in Outputs /\ Leaks' /\ fds' \in Nat
  BY <1>1, CloseBothStep DEF CopyClose, Outputs
<1> QED
  BY <1>1, <1>2, FileStepKept DEF CopyClose, CopyLoop, DiffLoop, TypeOK

LEMMA DiffReadStep ==
    ASSUME TInv, LineFrame, CountFailure, DiffRead
    PROVE  TInv'
<1> USE DEF TInv
<1>1. at = "diff_read" /\ at \in Working
  BY DEF DiffRead, Working, DiffLoop
<1>2. task \in Tasks /\ fds \in Nat /\ at \notin {"exited", "crashed"}
      /\ Held = 2 /\ told = "nothing" /\ task.cmd = "diff"
  BY <1>1, AtWork DEF Held, Running, DiffLoop
<1>3. UNCHANGED <<disk, fds, cwd, path_buffer, told>>
  BY DEF DiffRead
<1>4. \/ Differ(TRUE) \/ Differ(FALSE)
      \/ NextByte
      \/ at' \in {"diff_close", "crashed"} /\ UNCHANGED task
  <2>1. PICK count1 \in ReadResults(First), count2 \in ReadResults(Second) :
          CASE count1 # count2 -> Differ(-1 \in {count1, count2})
            [] count1 = 1 /\ count2 = 1 -> IF SameByte THEN NextByte ELSE Differ(FALSE)
            [] count1 = 0 /\ count2 = 0 -> at' = "diff_close" /\ UNCHANGED task
            [] OTHER -> Differ(TRUE) \/ (at' = "crashed" /\ UNCHANGED task)
    BY DEF DiffRead
  <2>2. CASE count1 # count2
    <3> DEFINE bad == -1 \in {count1, count2}
    <3>1. Differ(bad)
      BY <2>1, <2>2
    <3>2. bad \in BOOLEAN
      OBVIOUS
    <3> HIDE DEF bad
    <3>3. bad = TRUE \/ bad = FALSE
      BY <3>2
    <3> QED
      BY <3>1, <3>3
  <2>3. CASE count1 = count2
    BY <2>1, <2>3
  <2> QED
    BY <2>2, <2>3
<1>5. at' \in {"diff_read", "diff_close", "crashed"}
  BY <1>1, <1>4 DEF Differ, NextByte
<1>6. /\ task' \in Tasks
      /\ task'.cmd = task.cmd /\ task'.first = task.first /\ task'.second = task.second
  <2>1. task.off + 1 \in Nat
    BY <1>2 DEF Tasks
  <2> QED
    BY <1>2, <1>4, <2>1 DEF Differ, NextByte, Tasks
<1>7. Leaks' /\ fds' \in Nat
  <2>1. CASE at' = "crashed"
    BY <1>2, <1>3, <2>1 DEF Leaks
  <2>2. CASE at' \in {"diff_read", "diff_close"}
    <3>1. Held' = 2 /\ fds' = fds - 2 + 0 + 2
      BY <1>2, <1>3, <2>2 DEF Held, DiffLoop
    <3> QED
      BY <1>2, <2>2, <3>1, LeaksStep
  <2> QED
    BY <1>5, <2>1, <2>2
<1> QED
  BY <1>1, <1>2, <1>3, <1>5, <1>6, <1>7, FileStepKept DEF CopyLoop, DiffLoop, TypeOK

LEMMA DiffCloseStep ==
    ASSUME TInv, LineFrame, CountFailure, DiffClose
    PROVE  TInv'
<1> USE DEF TInv
<1>1. at \in Working /\ at \in CopyLoop \cup DiffLoop
  BY DEF DiffClose, Working, DiffLoop
<1>2. PICK success \in {"0", "1"} : CloseBoth(success)
  BY DEF DiffClose
<1>3. at' = "prompt" /\ told' \in Outputs /\ Leaks' /\ fds' \in Nat
  BY <1>1, <1>2, CloseBothStep DEF Outputs
<1> QED
  BY <1>1, <1>3, FileStepKept DEF DiffClose, CopyLoop, DiffLoop, TypeOK

(* Others append to a file, or remove a directory.                         *)
LEMMA MeddledFiles ==
    ASSUME TypeOK, Meddle
    PROVE  /\ disk' \in [Node -> Entry]
           /\ \A n \in Node : disk[n].kind = "file" => disk'[n].kind = "file"
<1>1. PICK n \in Node :
        \/ /\ disk[n].kind = "file"
           /\ \E b \in Byte : disk' = [disk EXCEPT ![n].data = Append(@, b)]
        \/ /\ disk[n].kind = "dir"
           /\ disk' = [disk EXCEPT ![n] = Nothing]
  BY DEF Meddle
<1>2. disk \in [Node -> Entry] /\ disk[n] \in Entry
  BY DEF TypeOK
<1>3. CASE disk[n].kind = "file"
  <2>1. PICK b \in Byte : disk' = [disk EXCEPT ![n].data = Append(disk[n].data, b)]
    BY <1>1, <1>2, <1>3
  <2>2. Append(disk[n].data, b) \in Seq(Byte)
    BY <1>2, Entries, AppendProperties
  <2>3. /\ disk' = [disk EXCEPT ![n] = File(Append(disk[n].data, b))]
        /\ disk' \in [Node -> Entry]
    <3> DEFINE data == Append(disk[n].data, b)
    <3>1. [disk[n] EXCEPT !.data = data] = File(data) /\ File(data) \in Entry
      BY <1>2, <1>3, <2>2, WriteData, Entries
    <3>2. disk' = [disk EXCEPT ![n] = [disk[n] EXCEPT !.data = data]]
      BY <2>1
    <3> HIDE DEF data
    <3>3. disk' = [disk EXCEPT ![n] = File(data)]
      BY <3>1, <3>2
    <3>4. disk' \in [Node -> Entry]
      BY <1>2, <3>1, <3>3
    <3> QED
      BY <3>3, <3>4 DEF data
  <2> QED
    BY <1>2, <2>3 DEF File
<1>4. CASE disk[n].kind = "dir"
  <2>1. disk' = [disk EXCEPT ![n] = Nothing]
    BY <1>1, <1>4
  <2> QED
    BY <1>2, <1>4, <2>1, Entries
<1> QED
  BY <1>1, <1>3, <1>4

LEMMA MeddleStep ==
    ASSUME TInv, Meddle
    PROVE  TInv'
<1> USE DEF TInv
<1>1. /\ disk' \in [Node -> Entry]
      /\ \A n \in Node : disk[n].kind = "file" => disk'[n].kind = "file"
  BY MeddledFiles
<1>2. UNCHANGED <<at, fds, cwd, path_buffer, task, told, user, history, typed, line,
                  commands, rest, command, launched, before, failed>>
  BY DEF Meddle, lineVars
<1>3. meddled \in Seq(Nat) /\ typed \in Nat /\ meddled' = Append(meddled, typed)
  BY DEF Meddle, TypeOK
<1>4. /\ meddled' \in Seq(Nat)
      /\ \A i \in DOMAIN meddled' :
           \/ i \in DOMAIN meddled /\ meddled'[i] = meddled[i]
           \/ meddled'[i] = typed
  BY <1>3, AppendProperties, LenProperties
<1>5. TypeOK'
  BY <1>1, <1>2, <1>4 DEF TypeOK
<1>6. Reading'
  BY <1>2 DEF Reading
<1>7. Running'
  <2>1. Second' = Second /\ (at \in CopyLoop => Second \in Node)
    BY <1>2, AtWork DEF Second, Reach, Working
  <2> QED
    BY <1>1, <1>2, <2>1 DEF Running
<1>8. Numbering'
  BY <1>2, <1>3, <1>4 DEF Numbering
<1>9. Leaks'
  <2>1. Held' = Held
    BY <1>2 DEF Held
  <2> QED
    BY <1>2, <2>1 DEF Leaks
<1> QED
  BY <1>5, <1>6, <1>7, <1>8, <1>9

(* A line is read and, below the limit of the history, recorded.           *)
LEMMA ReadLineStep ==
    ASSUME TInv, ReadLine
    PROVE  TInv'
<1> USE DEF TInv
<1>1. /\ at = "prompt" /\ line' \in Lines[user] /\ user \in DOMAIN Lines
      /\ task' = NoTask /\ told' = "nothing" /\ typed' = typed + 1 /\ before' = disk
      /\ UNCHANGED <<user, disk, fds, cwd, path_buffer, meddled, failed>>
  BY DEF ReadLine, TypeOK
<1>2. /\ history \in Seq(Nat) /\ Len(history) \in Nat /\ Len(history) = typed
      /\ DOMAIN history = 1 .. Len(history) /\ typed + 1 \in Nat /\ MAX_HISTORY \in Nat
  BY <1>1, LenProperties, ShellAssumption DEF TypeOK, Numbering
<1>3. \/ /\ history' = Append(history, typed + 1) /\ at' = "parse"
         /\ Len(history) < MAX_HISTORY
      \/ at' = "crashed" /\ UNCHANGED history
  BY <1>2 DEF ReadLine, AddToHistory
<1>4. /\ history' \in Seq(Nat) /\ Len(history') <= MAX_HISTORY
      /\ \A i \in DOMAIN history' : history'[i] = i
      /\ at' # "crashed" => Len(history') = typed + 1
  <2>1. CASE at' = "crashed" /\ UNCHANGED history
    BY <2>1 DEF TypeOK
  <2>2. CASE history' = Append(history, typed + 1) /\ Len(history) < MAX_HISTORY
    <3> DEFINE longer == Append(history, typed + 1)
    <3>1. /\ longer \in Seq(Nat) /\ Len(longer) = Len(history) + 1
          /\ \A i \in 1 .. Len(history) : longer[i] = history[i]
          /\ longer[Len(history) + 1] = typed + 1
      BY <1>2, AppendProperties
    <3>2. DOMAIN longer = 1 .. Len(history) + 1
      BY <3>1, LenProperties
    <3>3. \A i \in 1 .. Len(history) : history[i] = i
      BY <1>2 DEF TypeOK
    <3> HIDE DEF longer
    <3>4. Len(longer) <= MAX_HISTORY /\ Len(longer) = typed + 1
      BY <1>2, <2>2, <3>1
    <3>5. \A i \in DOMAIN longer : longer[i] = i
      BY <1>2, <3>1, <3>2, <3>3
    <3>6. history' = longer
      BY <2>2 DEF longer
    <3> QED
      BY <3>1, <3>4, <3>5, <3>6
  <2> QED
    BY <1>3, <2>1, <2>2
<1>5. TypeOK'
  <2>1. line' \in Seq(STRING)
    BY <1>1, ShellAssumption
  <2>2. task' \in Tasks
    BY <1>1 DEF Tasks, NoTask, Names
  <2> QED
    BY <1>1, <1>2, <1>3, <1>4, <2>1, <2>2 DEF TypeOK, Places, Outputs
<1>6. Reading'
  BY <1>1, <1>3 DEF Reading
<1>7. Running'
  BY <1>1, <1>3 DEF Running, NoTask, CopyLoop, DiffLoop
<1>8. Numbering'
  <2>1. \A i \in DOMAIN meddled : meddled[i] \in Nat /\ meddled[i] <= typed
    BY DEF Numbering, TypeOK
  <2>2. \A i \in DOMAIN meddled : meddled[i] <= typed + 1
    BY <1>2, <2>1
  <2> QED
    BY <1>1, <1>4, <2>2 DEF Numbering
<1>9. Leaks'
  <2>1. Held = 0
    BY <1>1 DEF Held, CopyLoop, DiffLoop
  <2>2. at' # "crashed" => Held' = 0
    BY <1>3 DEF Held, CopyLoop, DiffLoop
  <2> QED
    BY <1>1, <2>1, <2>2 DEF Leaks
<1> QED
  BY <1>5, <1>6, <1>7, <1>8, <1>9

LEMMA InitTInv == Init => TInv
<1> SUFFICES ASSUME Init PROVE TInv
  OBVIOUS
<1> USE DEF Init, FileInit
<1>1. disk \in [Node -> Entry] /\ cwd \in Node
  BY FileAssumption
<1>2. task \in Tasks
  BY DEF Tasks, NoTask, Names
<1>3. /\ history \in Seq(Nat) /\ Len(history) = 0 /\ DOMAIN history = {}
      /\ meddled \in Seq(Nat) /\ DOMAIN meddled = {} /\ line \in Seq(STRING)
  BY EmptySeq, LenProperties
<1>4. TypeOK
  BY <1>1, <1>2, <1>3, ShellAssumption DEF TypeOK, Places, Outputs
<1>5. Reading /\ Running /\ Numbering
  BY <1>3 DEF Reading, Running, Numbering, NoTask, CopyLoop, DiffLoop
<1>6. Leaks
  <2>1. Held = 0 /\ fds = 0 + 0 /\ 0 \in 0 .. 2 * failed
    BY DEF Held, CopyLoop, DiffLoop
  <2> QED
    BY <2>1 DEF Leaks
<1> QED
  BY <1>4, <1>5, <1>6 DEF TInv

(* A step of a line leaves alone what reading a line sets.                 *)
LEMMA RunLineStep ==
    ASSUME TInv, RunLine
    PROVE  TInv'
<1>1. LineFrame /\ CountFailure
  BY DEF RunLine, LineFrame
<1>2. CASE Split \/ Launch \/ Parse
  BY <1>1, <1>2, ParsingStep
<1>3. CASE ExeCmd
  BY <1>1, <1>3, ExeCmdStep
<1>4. CASE FileStep
  BY <1>1, <1>4, CopyOpenNewStep, CopyReadStep, CopyWriteStep, CopyCloseStep,
     DiffReadStep, DiffCloseStep DEF FileStep
<1> QED
  BY <1>2, <1>3, <1>4 DEF RunLine

LEMMA NextTInv == TInv /\ [Next]_vars => TInv'
<1> SUFFICES ASSUME TInv, [Next]_vars PROVE TInv'
  OBVIOUS
<1>1. CASE ReadLine
  BY <1>1, ReadLineStep
<1>2. CASE RunLine
  BY <1>2, RunLineStep
<1>3. CASE Meddle
  BY <1>3, MeddleStep
<1>4. CASE UNCHANGED vars
  BY <1>4 DEF vars, fileVars, lineVars, TInv, TypeOK, Reading, Running, Numbering, Leaks,
              Held, Second, Reach
<1> QED
  BY <1>1, <1>2, <1>3, <1>4 DEF Next

(* The places of a line's execution, its descriptors, words and history,   *)
(* in every state of every behaviour.                                      *)
THEOREM LineInvariant == Spec => []TInv
  BY InitTInv, NextTInv, PTL DEF Spec

-----------------------------------------------------------------------------
(* What cp and diff have done while nobody else touched the files *)

Source == before[First].data

Target(data) == disk = [before EXCEPT ![Second] = File(data)]

(* How far the copy has come.  If the source is the target it was emptied, *)
(* and nothing is read.                                                    *)
Copying ==
    /\ at = "open_new" => disk = before /\ task.off = 0
    /\ at = "copy_read" => /\ task.off \in 0 .. Len(Source)
                           /\ First = Second => task.off = 0
                           /\ Target(SubSeq(Source, 1, task.off))
    /\ at = "copy_write" => /\ First # Second /\ task.off \in 1 .. Len(Source)
                            /\ task.byte = Source[task.off]
                            /\ Target(SubSeq(Source, 1, task.off - 1))
    /\ at = "copy_close" =>
         disk = [before EXCEPT ![Second] = IF First = Second THEN File(<<>>) ELSE before[First]]

(* As far as diff has read, the files agree.                               *)
Agreed ==
    \A i \in 1 .. task.off :
       /\ i \in DOMAIN before[First].data /\ i \in DOMAIN before[Second].data
       /\ before[First].data[i] = before[Second].data[i]

Comparing ==
    /\ task.cmd \in {"none", "diff"} => disk = before
    /\ at = "diff_read" => task.same /\ Agreed
    /\ at = "diff_close" =>
         /\ task.same => /\ before[First] = before[Second]
                         /\ task.off >= Len(before[Second].data)
         /\ ~task.same => before[First] # before[Second] \/ task.bad

FInv ==
    /\ Undisturbed => Copying /\ Comparing
    /\ CopyExact /\ CopyHarmless /\ DiffRight

(* One byte more of a sequence.                                            *)
LEMMA PrefixGrows ==
    ASSUME NEW S, NEW s \in Seq(S), NEW k \in 1 .. Len(s)
    PROVE  /\ Append(SubSeq(s, 1, k - 1), s[k]) = SubSeq(s, 1, k)
           /\ Len(SubSeq(s, 1, k - 1)) = k - 1
<1>1. Len(s) \in Nat /\ \A i \in 1 .. Len(s) : s[i] \in S
  BY LenProperties, ElementOfSeq
<1>2. SubSeq(s, 1, k) = SubSeq(s, 1, k - 1) \o <<s[k]>>
  BY <1>1, SubSeqRecursiveSecond
<1>3. SubSeq(s, 1, k - 1) \in Seq(S) /\ Len(SubSeq(s, 1, k - 1)) = k - 1
  BY <1>1, SubSeqProperties
<1> QED
  BY <1>1, <1>2, <1>3, AppendIsConcat

(* The beginning of a sequence is a prefix of it.                          *)
LEMMA BeginningIsPrefix ==
    ASSUME NEW S, NEW s \in Seq(S), NEW k \in 0 .. Len(s)
    PROVE  IsPrefix(SubSeq(s, 1, k), s)
<1>1. Len(s) \in Nat /\ \A i \in 1 .. Len(s) : s[i] \in S
  BY LenProperties, ElementOfSeq
<1> DEFINE b == SubSeq(s, 1, k)
<1>2. b \in Seq(S) /\ Len(b) = k
  BY <1>1, SubSeqProperties
<1>3. SubSeq(b, 1, Len(b)) = b
  BY <1>2, SubSeqFull
<1>4. SubSeq(b, 1, Len(b)) = SubSeq(s, 1, Len(b))
  BY <1>2, <1>3
<1>5. Len(b) <= Len(s)
  BY <1>1, <1>2
<1> QED
  BY <1>4, <1>5 DEF IsPrefix

(* An entry is known by its kind and its bytes.                            *)
LEMMA SameEntry ==
    ASSUME NEW e \in Entry, NEW g \in Entry, e.kind = "file", g.kind = "file",
           Len(e.data) = Len(g.data), \A i \in 1 .. Len(e.data) : e.data[i] = g.data[i]
    PROVE  e = g
<1>1. e.data \in Seq(Byte) /\ g.data \in Seq(Byte) /\ e = File(e.data) /\ g = File(g.data)
  BY Entries
<1>2. e.data = g.data
  BY <1>1, SeqEqual
<1> QED
  BY <1>1, <1>2

(* The files of a command, before and now.                                 *)
LEMMA Frames ==
    ASSUME TInv, LineFrame, UNCHANGED cwd,
           task'.first = task.first, task'.second = task.second
    PROVE  /\ First' = First /\ Second' = Second /\ Source' = Source
           /\ before' = before /\ (Undisturbed' <=> Undisturbed)
<1>1. First' = First /\ Second' = Second
  BY DEF First, Second, Reach
<1> QED
  BY <1>1 DEF Source, Undisturbed, LineFrame, Symbols

LEMMA FilesAtWork ==
    ASSUME TInv, at \in Working
    PROVE  /\ First \in Node /\ Second \in Node
           /\ disk \in [Node -> Entry] /\ before \in [Node -> Entry]
           /\ before[First] \in Entry /\ before[Second] \in Entry
           /\ Source \in Seq(Byte) /\ Len(Source) \in Nat /\ task.off \in Nat
           /\ before[Second].data \in Seq(Byte) /\ Len(before[Second].data) \in Nat
           /\ DOMAIN Source = 1 .. Len(Source)
           /\ DOMAIN before[Second].data = 1 .. Len(before[Second].data)
<1>1. First \in Node /\ Second \in Node /\ task \in Tasks
  BY AtWork
<1>2. disk \in [Node -> Entry] /\ before \in [Node -> Entry]
  BY DEF TInv, TypeOK
<1>3. before[First] \in Entry /\ before[Second] \in Entry
  BY <1>1, <1>2
<1>4. Source \in Seq(Byte) /\ before[Second].data \in Seq(Byte)
  BY <1>3, Entries DEF Source
<1> QED
  BY <1>1, <1>2, <1>3, <1>4, LenProperties DEF Tasks

(* What holds the beginning of the source at the place of the target, and  *)
(* all else as it was, does no harm.                                       *)
LEMMA Harmless ==
    ASSUME TInv, at \in Working, task.cmd = "cp", LineFrame, UNCHANGED <<cwd, task>>,
           NEW k \in 0 .. Len(Source),
           disk' = [before EXCEPT ![Second] = File(SubSeq(Source, 1, k))]
    PROVE  CopyHarmless'
<1>1. before \in [Node -> Entry] /\ Second \in Node /\ Source \in Seq(Byte)
  BY FilesAtWork
<1>2. IsPrefix(SubSeq(Source, 1, k), Source)
  BY <1>1, BeginningIsPrefix
<1>3. \A n \in Node : disk'[n] # before[n] => n = Second /\ disk'[n].data = SubSeq(Source, 1, k)
  BY <1>1 DEF File
<1>4. First' = First /\ Second' = Second /\ Source' = Source /\ before' = before
  BY Frames
<1> QED
  BY <1>2, <1>3, <1>4 DEF CopyHarmless, Source

(* Until a command has begun, and when one begins, the files are as they   *)
(* were.                                                                   *)
LEMMA BeginFInv ==
    ASSUME TInv, FInv, LineFrame, UNCHANGED disk,
           at \in {"parse", "launch", "execute"},
           at' \in {"launch", "execute", "prompt", "exited", "open_new", "diff_read"},
           told' \notin {"copied", "0", "1"},
           at' \in {"open_new", "diff_read"} => task'.off = 0 /\ task'.same
    PROVE  FInv'
<1>1. task = NoTask
  BY DEF TInv, Reading
<1>2. Undisturbed' <=> Undisturbed
  BY DEF Undisturbed, LineFrame, Symbols
<1>3. Undisturbed => disk' = before'
  BY <1>1 DEF FInv, Comparing, NoTask, LineFrame
<1>4. Undisturbed' => Copying' /\ Comparing'
  BY <1>2, <1>3 DEF Copying, Comparing, Agreed
<1>5. CopyExact' /\ DiffRight'
  BY DEF CopyExact, DiffRight
<1>6. CopyHarmless'
  BY <1>2, <1>3 DEF CopyHarmless
<1> QED
  BY <1>4, <1>5, <1>6 DEF FInv

(* A command that is over leaves the files as its last step found them.    *)
LEMMA EndFInv ==
    ASSUME TInv, FInv, LineFrame, UNCHANGED <<disk, task, cwd>>, at' = "prompt",
           Undisturbed /\ told' = "copied" =>
             disk[Second] = (IF First = Second THEN File(<<>>) ELSE before[First]),
           Undisturbed /\ task.cmd = "diff" =>
             /\ told' = "0" => before[First] = before[Second]
             /\ told' = "1" => (before[First] # before[Second] \/ task.bad)
    PROVE  FInv'
<1>1. /\ First' = First /\ Second' = Second
      /\ before' = before /\ (Undisturbed' <=> Undisturbed)
  BY Frames
<1>2. Undisturbed' => Copying' /\ Comparing'
  BY <1>1 DEF FInv, Copying, Comparing
<1>3. CopyExact' /\ DiffRight'
  BY <1>1 DEF CopyExact, DiffRight
<1>4. CopyHarmless'
  BY <1>1 DEF FInv, CopyHarmless
<1> QED
  BY <1>2, <1>3, <1>4 DEF FInv

LEMMA CopyOpenNewFInv ==
    ASSUME TInv, FInv, LineFrame, CopyOpenNew
    PROVE  FInv'
<1>1. /\ at = "open_new" /\ at \in Working
      /\ UNCHANGED <<cwd, task>> /\ task.cmd = "cp"
  BY DEF CopyOpenNew, Working, TInv, Running
<1>2. CASE at' = "prompt" /\ told' = "error" /\ UNCHANGED disk
  BY <1>1, <1>2, EndFInv
<1>3. CASE /\ disk' = [disk EXCEPT ![Second] = File(<<>>)]
           /\ \/ at' = "copy_read" /\ told' = told
              \/ at' = "prompt" /\ told' = "error"
  <2> SUFFICES ASSUME Undisturbed
               PROVE  Copying' /\ Comparing' /\ CopyExact' /\ CopyHarmless' /\ DiffRight'
    BY <1>1, Frames DEF FInv, CopyExact, CopyHarmless, DiffRight
  <2>1. /\ First' = First /\ Second' = Second /\ Source' = Source /\ before' = before
    BY <1>1, Frames
  <2>2. disk = before /\ task.off = 0 /\ 0 \in 0 .. Len(Source)
    BY <1>1, FilesAtWork DEF FInv, Copying
  <2>3. SubSeq(Source, 1, 0) = <<>>
    BY SubSeqEmpty
  <2>4. disk' = [before EXCEPT ![Second] = File(SubSeq(Source, 1, 0))]
    BY <1>3, <2>2, <2>3
  <2>5. Copying'
    BY <1>1, <1>3, <2>1, <2>2, <2>4 DEF Copying, Target
  <2>6. Comparing' /\ CopyExact' /\ DiffRight'
    BY <1>1, <1>3, AtWork DEF Comparing, CopyExact, DiffRight
  <2>7. CopyHarmless'
    BY <1>1, <2>2, <2>4, Harmless
  <2> QED
    BY <2>5, <2>6, <2>7
<1> QED
  BY <1>2, <1>3 DEF CopyOpenNew, Tell

(* A step that only reads does not disturb the files.                      *)
LEMMA ReadFInv ==
    ASSUME TInv, FInv, LineFrame, UNCHANGED <<disk, cwd, told>>, at \in Working,
           task'.cmd = task.cmd, task'.first = task.first, task'.second = task.second,
           Undisturbed => Copying' /\ Comparing'
    PROVE  FInv'
<1>1. /\ First' = First /\ Second' = Second /\ Source' = Source
      /\ before' = before /\ (Undisturbed' <=> Undisturbed)
  BY Frames
<1>2. told = "nothing"
  BY AtWork
<1>3. CopyExact' /\ DiffRight'
  BY <1>2 DEF CopyExact, DiffRight
<1>4. CopyHarmless'
  BY <1>1 DEF FInv, CopyHarmless
<1> QED
  BY <1>1, <1>3, <1>4 DEF FInv

LEMMA CopyReadFInv ==
    ASSUME TInv, FInv, LineFrame, CopyRead
    PROVE  FInv'
<1>1. /\ at = "copy_read" /\ at \in Working /\ UNCHANGED <<disk, cwd>>
      /\ task.cmd = "cp" /\ task \in Tasks /\ First \in Node /\ Second \in Node
      /\ told = "nothing"
  BY AtWork DEF CopyRead, Working, TInv, Running, CopyLoop
<1>2. PICK count \in ReadResults(First) :
        CASE count = 1 ->
                /\ task' = [task EXCEPT !.byte = disk[First].data[task.off + 1],
                                        !.off = @ + 1]
                /\ at' = "copy_write" /\ UNCHANGED told
           [] count = 0 -> at' = "copy_close" /\ UNCHANGED <<told, task>>
           [] OTHER     -> Tell("error") /\ UNCHANGED task
  BY DEF CopyRead
<1>3. Undisturbed =>
        /\ task.off \in 0 .. Len(Source) /\ Target(SubSeq(Source, 1, task.off))
        /\ First = Second => task.off = 0
  BY <1>1 DEF FInv, Copying
<1>4. SubSeq(Source, 1, 0) = <<>>
  BY SubSeqEmpty
<1>5. Undisturbed /\ First = Second => disk[First] = File(<<>>)
  BY <1>1, <1>3, <1>4, FilesAtWork DEF Target
<1>6. Undisturbed /\ First # Second => disk[First] = before[First]
  BY <1>1, <1>3, FilesAtWork DEF Target
<1>7. CASE count = 1
  <2>1. /\ at' = "copy_write" /\ told' = told
        /\ task' = [task EXCEPT !.byte = disk[First].data[task.off + 1],
                                !.off = task.off + 1]
    BY <1>1, <1>2, <1>7 DEF Tasks
  <2>2. /\ task'.cmd = task.cmd /\ task'.first = task.first /\ task'.second = task.second
        /\ task'.byte = disk[First].data[task.off + 1] /\ task'.off = task.off + 1
    BY <1>1, <2>1 DEF Tasks
  <2>3. task.off + 1 \in 1 .. Len(disk[First].data)
    BY <1>1, <1>7, Reads DEF TInv
  <2>4. SUFFICES ASSUME Undisturbed PROVE Copying' /\ Comparing'
    BY <1>1, <2>1, <2>2, ReadFInv
  <2>5. First # Second
    BY <1>5, <2>3, <2>4, EmptySeq DEF File
  <2>6. disk[First].data = Source
    BY <1>6, <2>4, <2>5 DEF Source
  <2>7. (task.off + 1) - 1 = task.off
    BY <1>1 DEF Tasks
  <2>8. task'.off \in 1 .. Len(Source) /\ task'.byte = Source[task'.off] /\ task'.off - 1 = task.off
    BY <2>2, <2>3, <2>6, <2>7
  <2>9. disk' = [before EXCEPT ![Second] = File(SubSeq(Source, 1, task'.off - 1))]
    BY <1>1, <1>3, <2>4, <2>8 DEF Target
  <2>10. Copying'
    BY <1>1, <2>1, <2>2, <2>5, <2>8, <2>9, Frames DEF Copying, Target
  <2>11. Comparing'
    BY <1>1, <2>1, <2>2 DEF Comparing
  <2> QED
    BY <2>10, <2>11
<1>8. CASE count = 0
  <2>1. at' = "copy_close" /\ UNCHANGED <<told, task>>
    BY <1>2, <1>8
  <2>2. SUFFICES ASSUME Undisturbed PROVE Copying' /\ Comparing'
    BY <1>1, <2>1, ReadFInv
  <2>3. disk = [before EXCEPT ![Second] = IF First = Second THEN File(<<>>) ELSE before[First]]
    <3>1. CASE First = Second
      BY <1>3, <1>4, <2>2, <3>1 DEF Target
    <3>2. CASE First # Second
      <4>1. disk[First].kind = "file" /\ task.off >= Len(disk[First].data)
        BY <1>1, <1>8, Reads DEF TInv
      <4>2. disk[First] = before[First]
        BY <1>6, <2>2, <3>2
      <4>3. task.off = Len(Source) /\ Source \in Seq(Byte) /\ before[First] = File(Source)
        BY <1>1, <1>3, <2>2, <4>1, <4>2, FilesAtWork, Entries DEF Source
      <4>4. SubSeq(Source, 1, task.off) = Source
        BY <4>3, SubSeqFull
      <4> QED
        BY <1>3, <2>2, <3>2, <4>3, <4>4 DEF Target
    <3> QED
      BY <3>1, <3>2
  <2>4. Copying'
    BY <1>1, <2>1, <2>3, Frames DEF Copying
  <2>5. Comparing'
    BY <1>1, <2>1 DEF Comparing
  <2> QED
    BY <2>4, <2>5
<1>9. CASE count \notin {0, 1}
  <2>1. at' = "prompt" /\ told' = "error" /\ UNCHANGED task
    BY <1>2, <1>9 DEF Tell
  <2> QED
    BY <1>1, <2>1, EndFInv
<1> QED
  BY <1>7, <1>8, <1>9

LEMMA CopyWriteFInv ==
    ASSUME TInv, FInv, LineFrame, CopyWrite
    PROVE  FInv'
<1>1. /\ at = "copy_write" /\ at \in Working /\ UNCHANGED <<cwd, path_buffer, task>>
      /\ task.cmd = "cp" /\ First \in Node /\ Second \in Node /\ told = "nothing"
      /\ disk[Second].kind = "file" /\ disk[Second] \in Entry /\ disk \in [Node -> Entry]
  BY AtWork, FilesAtWork DEF CopyWrite, Working, TInv, Running, CopyLoop
<1>2. CASE /\ disk' = [disk EXCEPT ![Second].data = Written]
           /\ at' = "copy_read" /\ UNCHANGED <<told, fds>>
  <2> SUFFICES ASSUME Undisturbed
               PROVE  Copying' /\ Comparing' /\ CopyExact' /\ CopyHarmless' /\ DiffRight'
    BY <1>1, Frames DEF FInv, CopyExact, CopyHarmless, DiffRight
  <2> DEFINE k == task.off
  <2>1. /\ k \in 1 .. Len(Source) /\ k \in 0 .. Len(Source) /\ First # Second
        /\ task.byte = Source[k]
        /\ Target(SubSeq(Source, 1, k - 1))
    BY <1>1, FilesAtWork DEF FInv, Copying
  <2>2. disk[Second].data = SubSeq(Source, 1, k - 1) /\ before \in [Node -> Entry]
    BY <1>1, <2>1, FilesAtWork DEF Target, File
  <2>3. /\ Append(SubSeq(Source, 1, k - 1), Source[k]) = SubSeq(Source, 1, k)
        /\ Len(disk[Second].data) = k - 1
    BY <1>1, <2>1, <2>2, FilesAtWork, PrefixGrows
  <2>4. k \notin DOMAIN disk[Second].data
    <3>1. disk[Second].data \in Seq(Byte)
      BY <1>1, Entries
    <3>2. DOMAIN disk[Second].data = 1 .. k - 1
      BY <2>3, <3>1, LenProperties
    <3> QED
      BY <2>1, <3>2
  <2>5. Written = SubSeq(Source, 1, k)
    BY <2>1, <2>2, <2>3, <2>4 DEF Written
  <2>6. disk' = [before EXCEPT ![Second] = File(SubSeq(Source, 1, k))]
    <3>1. [disk[Second] EXCEPT !.data = Written] = File(Written)
      BY <1>1, WrittenType, WriteData
    <3>2. disk' = [disk EXCEPT ![Second] = [disk[Second] EXCEPT !.data = Written]]
      BY <1>2
    <3> QED
      BY <1>1, <2>1, <2>2, <2>5, <3>1, <3>2 DEF Target
  <2>7. /\ First' = First /\ Second' = Second /\ Source' = Source /\ before' = before
    BY <1>1, Frames
  <2>8. Copying'
    BY <1>1, <1>2, <2>1, <2>6, <2>7 DEF Copying, Target
  <2>9. Comparing' /\ CopyExact' /\ DiffRight'
    BY <1>1, <1>2 DEF Comparing, CopyExact, DiffRight
  <2>10. CopyHarmless'
    BY <1>1, <2>1, <2>6, Harmless
  <2> QED
    BY <2>8, <2>9, <2>10
<1>3. CASE CloseBoth("error") /\ UNCHANGED disk
  <2>1. at' = "prompt" /\ told' = "error"
    BY <1>3 DEF CloseBoth, Tell
  <2> QED
    BY <1>1, <1>3, <2>1, EndFInv
<1> QED
  BY <1>2, <1>3 DEF CopyWrite

LEMMA CopyCloseFInv ==
    ASSUME TInv, FInv, LineFrame, CopyClose
    PROVE  FInv'
<1>1. /\ at = "copy_close" /\ at \in Working /\ UNCHANGED <<disk, cwd, task>>
      /\ task.cmd = "cp" /\ at' = "prompt" /\ Second \in Node
  BY AtWork DEF CopyClose, CloseBoth, Tell, Working, TInv, Running, CopyLoop
<1>2. Undisturbed => disk[Second] = (IF First = Second THEN File(<<>>) ELSE before[First])
  BY <1>1, FilesAtWork DEF FInv, Copying
<1> QED
  BY <1>1, <1>2, EndFInv

LEMMA DiffReadFInv ==
    ASSUME TInv, FInv, LineFrame, DiffRead
    PROVE  FInv'
<1>1. /\ at = "diff_read" /\ at \in Working /\ UNCHANGED <<disk, cwd, told>>
      /\ task.cmd = "diff" /\ task \in Tasks /\ First \in Node /\ Second \in Node
  BY AtWork DEF DiffRead, Working, TInv, Running, DiffLoop
<1>2. PICK count1 \in ReadResults(First), count2 \in ReadResults(Second) :
        CASE count1 # count2 -> Differ(-1 \in {count1, count2})
          [] count1 = 1 /\ count2 = 1 -> IF SameByte THEN NextByte ELSE Differ(FALSE)
          [] count1 = 0 /\ count2 = 0 -> at' = "diff_close" /\ UNCHANGED task
          [] OTHER -> Differ(TRUE) \/ (at' = "crashed" /\ UNCHANGED task)
  BY DEF DiffRead
<1>3. /\ count1 \in {-1, 0, 1} /\ count2 \in {-1, 0, 1}
      /\ count1 = 1 => task.off + 1 \in 1 .. Len(disk[First].data)
      /\ count2 = 1 => task.off + 1 \in 1 .. Len(disk[Second].data)
      /\ count1 = 0 => disk[First].kind = "file" /\ task.off >= Len(disk[First].data)
      /\ count2 = 0 => disk[Second].kind = "file" /\ task.off >= Len(disk[Second].data)
  BY <1>1, <1>2, Reads DEF TInv
<1>4. /\ Undisturbed => disk = before /\ Agreed /\ task.same
      /\ before[First] \in Entry /\ before[Second] \in Entry
      /\ DOMAIN before[First].data = 1 .. Len(before[First].data)
      /\ DOMAIN before[Second].data = 1 .. Len(before[Second].data)
      /\ Len(before[First].data) \in Nat /\ Len(before[Second].data) \in Nat
      /\ task.off \in Nat
  BY <1>1, FilesAtWork DEF FInv, Comparing, Source
<1>5. ASSUME NEW bad \in BOOLEAN, Differ(bad),
             Undisturbed => before[First] # before[Second] \/ bad
      PROVE  FInv'
  <2>1. /\ at' = "diff_close" /\ task' \in Tasks
        /\ task'.cmd = "diff" /\ task'.first = task.first /\ task'.second = task.second
        /\ task'.same = FALSE /\ task'.bad = bad
    BY <1>1, <1>5 DEF Differ, Tasks
  <2>2. SUFFICES ASSUME Undisturbed PROVE Copying' /\ Comparing'
    BY <1>1, <2>1, ReadFInv
  <2>3. First' = First /\ Second' = Second /\ before' = before
    BY <1>1, <2>1, Frames
  <2>4. before[First] # before[Second] \/ task'.bad
    BY <1>5, <2>1, <2>2
  <2>5. disk' = before'
    BY <1>1, <1>4, <2>2, <2>3
  <2> QED
    BY <2>1, <2>3, <2>4, <2>5 DEF Copying, Comparing
<1>6. CASE count1 # count2
  <2> DEFINE bad == -1 \in {count1, count2}
  <2>1. Differ(bad)
    BY <1>2, <1>6
  <2>3. bad \in BOOLEAN
    OBVIOUS
  <2>2. Undisturbed => before[First] # before[Second] \/ bad
    <3>1. SUFFICES ASSUME Undisturbed, -1 \notin {count1, count2}
                   PROVE  before[First] # before[Second]
      OBVIOUS
    <3>2. Len(before[First].data) # Len(before[Second].data)
      BY <1>3, <1>4, <1>6, <3>1
    <3> QED
      BY <3>2
  <2> HIDE DEF bad
  <2> QED
    BY <1>5, <2>1, <2>2, <2>3
<1>7. CASE count1 = 1 /\ count2 = 1
  <2>1. /\ task.off + 1 \in DOMAIN before[First].data \/ ~Undisturbed
        /\ task.off + 1 \in DOMAIN before[Second].data \/ ~Undisturbed
    BY <1>3, <1>4, <1>7
  <2>2. CASE SameByte
    <3>1. NextByte
      BY <1>2, <1>7, <2>2
    <3>2. /\ at' = at /\ task'.off = task.off + 1 /\ task'.same = task.same
          /\ task'.cmd = task.cmd /\ task'.first = task.first /\ task'.second = task.second
      BY <1>1, <3>1 DEF NextByte, Tasks
    <3>3. SUFFICES ASSUME Undisturbed PROVE Copying' /\ Comparing'
      BY <1>1, <3>2, ReadFInv
    <3>4. before[First].data[task.off + 1] = before[Second].data[task.off + 1]
      BY <1>4, <2>2, <3>3 DEF SameByte
    <3>5. \A i \in 1 .. task.off + 1 :
             /\ i \in DOMAIN before[First].data /\ i \in DOMAIN before[Second].data
             /\ before[First].data[i] = before[Second].data[i]
      <4>1. \A i \in 1 .. task.off + 1 : i \in 1 .. task.off \/ i = task.off + 1
        BY <1>4
      <4> QED
        BY <1>4, <2>1, <3>3, <3>4, <4>1 DEF Agreed
    <3>6. First' = First /\ Second' = Second /\ before' = before
      BY <1>1, <3>2, Frames
    <3>7. Agreed'
      BY <3>2, <3>5, <3>6 DEF Agreed
    <3> QED
      BY <1>1, <1>4, <3>2, <3>3, <3>6, <3>7 DEF Copying, Comparing
  <2>3. CASE ~SameByte
    <3>1. Differ(FALSE)
      BY <1>2, <1>7, <2>3 DEF Differ
    <3>2. Undisturbed => before[First] # before[Second]
      BY <1>4, <2>3 DEF SameByte
    <3> QED
      BY <1>5, <3>1, <3>2
  <2> QED
    BY <2>2, <2>3
<1>8. CASE count1 = 0 /\ count2 = 0
  <2>1. at' = "diff_close" /\ UNCHANGED task
    BY <1>2, <1>8
  <2>2. SUFFICES ASSUME Undisturbed PROVE Copying' /\ Comparing'
    BY <1>1, <2>1, ReadFInv
  <2>3. /\ before[First].kind = "file" /\ before[Second].kind = "file"
        /\ task.off >= Len(before[First].data) /\ task.off >= Len(before[Second].data)
    BY <1>3, <1>4, <1>8, <2>2
  <2>4. /\ \A i \in 1 .. Len(before[First].data) : i \in 1 .. task.off
        /\ \A i \in 1 .. Len(before[Second].data) : i \in 1 .. task.off
    BY <1>4, <2>3
  <2>5. task.off \in 1 .. task.off \/ task.off = 0
    BY <1>4
  <2>6. task.off <= Len(before[First].data) /\ task.off <= Len(before[Second].data)
    BY <1>4, <2>2, <2>5 DEF Agreed
  <2>7. Len(before[First].data) = Len(before[Second].data)
    BY <1>4, <2>3, <2>6
  <2>8. before[First] = before[Second]
    BY <1>4, <2>2, <2>3, <2>4, <2>7, SameEntry DEF Agreed
  <2>9. First' = First /\ Second' = Second /\ before' = before
    BY <1>1, <2>1, Frames
  <2> QED
    BY <1>1, <1>4, <2>1, <2>2, <2>3, <2>8, <2>9 DEF Copying, Comparing
<1>9. CASE count1 = -1 /\ count2 = -1
  <2>1. Differ(TRUE) \/ (at' = "crashed" /\ UNCHANGED task)
    BY <1>2, <1>9 DEF Differ
  <2>2. CASE Differ(TRUE)
    BY <1>5, <2>2
  <2>3. CASE at' = "crashed" /\ UNCHANGED task
    <3>1. SUFFICES ASSUME Undisturbed PROVE Copying' /\ Comparing'
      BY <1>1, <2>3, ReadFInv
    <3>2. before' = before
      BY <1>1, <2>3, Frames
    <3> QED
      BY <1>1, <1>4, <2>3, <3>1, <3>2 DEF Copying, Comparing
  <2> QED
    BY <2>1, <2>2, <2>3
<1> QED
  BY <1>3, <1>6, <1>7, <1>8, <1>9

LEMMA DiffCloseFInv ==
    ASSUME TInv, FInv, LineFrame, DiffClose
    PROVE  FInv'
<1>1. /\ at = "diff_close" /\ at \in Working /\ UNCHANGED <<disk, cwd, task>>
      /\ Second \in Node /\ task \in Tasks /\ task.cmd = "diff"
  BY AtWork DEF DiffClose, Working, DiffLoop, TInv, Running
<1>2. PICK count \in ReadResults(Second) :
        CloseBoth(IF task.same /\ count # 1 THEN "0" ELSE "1")
  BY DEF DiffClose
<1>3. /\ at' = "prompt" /\ told' \in {"error", "0", "1"}
      /\ told' = "0" => task.same
      /\ told' = "1" => ~task.same \/ count = 1
  BY <1>2 DEF CloseBoth, Tell
<1>4. Undisturbed =>
        /\ task.same => before[First] = before[Second] /\ count # 1
        /\ ~task.same => before[First] # before[Second] \/ task.bad
  <2>1. SUFFICES ASSUME Undisturbed, task.same
                 PROVE  before[First] = before[Second] /\ count # 1
    BY <1>1 DEF FInv, Comparing
  <2>2. /\ disk = before /\ before[First] = before[Second]
        /\ task.off >= Len(disk[Second].data)
    BY <1>1, <2>1 DEF FInv, Comparing
  <2>3. count = 1 => task.off + 1 \in 1 .. Len(disk[Second].data)
    BY <1>1, Reads DEF TInv
  <2>4. task.off \in Nat /\ Len(disk[Second].data) \in Nat
    BY <1>1, <2>2, FilesAtWork
  <2> QED
    BY <2>2, <2>3, <2>4
<1> QED
  BY <1>1, <1>3, <1>4, EndFInv

(* Once others have touched the files, nothing is claimed of that line.    *)
LEMMA MeddleFInv ==
    ASSUME TInv, Meddle
    PROVE  FInv'
<1>1. meddled \in Seq(Nat) /\ typed \in Nat /\ meddled' = Append(meddled, typed) /\ typed' = typed
  BY DEF TInv, TypeOK, Meddle, lineVars
<1>2. Len(meddled) + 1 \in DOMAIN meddled' /\ meddled'[Len(meddled) + 1] = typed'
  BY <1>1, AppendProperties, LenProperties
<1>3. ~Undisturbed'
  BY <1>2 DEF Undisturbed, Symbols
<1> QED
  BY <1>3 DEF FInv, CopyExact, CopyHarmless, DiffRight

LEMMA ReadLineFInv ==
    ASSUME TInv, ReadLine
    PROVE  FInv'
<1>1. /\ task' = NoTask /\ told' = "nothing" /\ disk' = before'
      /\ at' \in {"parse", "crashed"}
  BY DEF ReadLine, AddToHistory
<1> QED
  BY <1>1 DEF FInv, Copying, Comparing, CopyExact, CopyHarmless, DiffRight, NoTask

LEMMA ExeCmdFInv ==
    ASSUME TInv, FInv, LineFrame, ExeCmd
    PROVE  FInv'
<1>1. at = "execute" /\ told = "nothing"
  BY DEF ExeCmd, TInv, Reading
<1>2. CASE EmptyLine \/ IllegalCommand \/ PassiveCommand \/ Quit \/ External
  <2>1. /\ at' \in {"prompt", "exited"} /\ told' \in {"nothing", "error"} /\ UNCHANGED disk
    BY <1>1, <1>2 DEF EmptyLine, IllegalCommand, PassiveCommand, Quit, External, Tell, quiet
  <2> QED
    BY <1>1, <2>1, BeginFInv
<1>3. ASSUME NEW path, cd(path) PROVE FInv'
  <2>1. at' = "prompt" /\ told' \in {"nothing", "error", "exception"} /\ UNCHANGED disk
    BY <1>3 DEF cd, Tell
  <2> QED
    BY <1>1, <2>1, BeginFInv
<1>4. ASSUME NEW first, NEW second, cp(first, second) \/ diff(first, second) PROVE FInv'
  <2>1. /\ at' \in {"prompt", "open_new", "diff_read"} /\ told' \in {"nothing", "error"}
        /\ UNCHANGED disk /\ task'.off = 0 /\ task'.same
    BY <1>1, <1>4 DEF cp, diff, Begin, Tell, NoTask
  <2> QED
    BY <1>1, <2>1, BeginFInv
<1> QED
  BY <1>2, <1>3, <1>4 DEF ExeCmd, FileCommand

LEMMA InitFInv == Init => FInv
  BY DEF Init, FileInit, NoTask, FInv, Copying, Comparing, CopyExact, CopyHarmless, DiffRight

LEMMA NextFInv == TInv /\ FInv /\ [Next]_vars => FInv'
<1> SUFFICES ASSUME TInv, FInv, [Next]_vars PROVE FInv'
  OBVIOUS
<1>1. CASE ReadLine
  BY <1>1, ReadLineFInv
<1>2. CASE RunLine
  <2>1. LineFrame
    BY <1>2 DEF RunLine, LineFrame
  <2>2. CASE Split \/ Launch \/ Parse
    <3>1. /\ at \in {"parse", "launch", "execute"} /\ at' \in {"launch", "execute", "prompt"}
          /\ told' \in {"nothing", "error"} /\ UNCHANGED disk
      BY <2>2 DEF Split, Launch, Parse, Tell, TInv, Reading
    <3> QED
      BY <2>1, <3>1, BeginFInv
  <2>3. CASE ExeCmd
    BY <2>1, <2>3, ExeCmdFInv
  <2>4. CASE FileStep
    BY <2>1, <2>4, CopyOpenNewFInv, CopyReadFInv, CopyWriteFInv, CopyCloseFInv,
       DiffReadFInv, DiffCloseFInv DEF FileStep
  <2> QED
    BY <1>2, <2>2, <2>3, <2>4 DEF RunLine
<1>3. CASE Meddle
  BY <1>3, MeddleFInv
<1>4. CASE UNCHANGED vars
  <2>1. UNCHANGED <<at, disk, cwd, task, told>> /\ LineFrame
    BY <1>4 DEF vars, fileVars, lineVars, LineFrame
  <2>2. /\ First' = First /\ Second' = Second /\ Source' = Source
        /\ before' = before /\ (Undisturbed' <=> Undisturbed)
    BY <2>1, Frames
  <2> QED
    BY <2>1, <2>2 DEF FInv, Copying, Comparing, Agreed, Target, CopyExact, CopyHarmless, DiffRight
<1> QED
  BY <1>1, <1>2, <1>3, <1>4 DEF Next

-----------------------------------------------------------------------------
(* The theorems *)

(* What the files hold, step by step, in every state of every behaviour.   *)
THEOREM FileInvariant == Spec => [](TInv /\ FInv)
<1>1. Init => TInv /\ FInv
  BY InitTInv, InitFInv
<1>2. TInv /\ FInv /\ [Next]_vars => (TInv /\ FInv)'
  BY NextTInv, NextFInv
<1> QED
  BY <1>1, <1>2, PTL DEF Spec

(* The variables keep their types, and the history its order and limit,    *)
(* whatever is typed and whichever call fails.                             *)
THEOREM ShellTypes == Spec => []TypeOK
<1>1. TInv => TypeOK
  BY DEF TInv
<1> QED
  BY <1>1, LineInvariant, PTL

(* No command that succeeds leaves a descriptor open, and each that fails  *)
(* leaves two at most.                                                     *)
THEOREM NoLeakOnSuccess == Spec => []DescriptorsKept
<1>1. TInv => DescriptorsKept
  <2> SUFFICES ASSUME TInv, at = "prompt" PROVE fds <= 2 * failed
    BY DEF DescriptorsKept
  <2>1. Held = 0 /\ failed \in Nat
    BY DEF Held, CopyLoop, DiffLoop, TInv, TypeOK
  <2>2. PICK left \in 0 .. 2 * failed : fds = left + Held
    BY DEF TInv, Leaks
  <2> QED
    BY <2>1, <2>2
<1> QED
  BY <1>1, LineInvariant, PTL

(* A copy that is reported as made has every byte of the source.           *)
THEOREM CopyIsExact == Spec => []CopyExact
<1>1. FInv => CopyExact
  BY DEF FInv
<1> QED
  BY <1>1, FileInvariant, PTL

(* At every moment of a copy, and whatever fails, no other file has been   *)
(* touched and the target has no byte that is not the source's.            *)
THEOREM CopyDoesNoHarm == Spec => []CopyHarmless
<1>1. FInv => CopyHarmless
  BY DEF FInv
<1> QED
  BY <1>1, FileInvariant, PTL

(* diff tells equal files from different ones.                             *)
THEOREM DiffIsRight == Spec => []DiffRight
<1>1. FInv => DiffRight
  BY DEF FInv
<1> QED
  BY <1>1, FileInvariant, PTL

(* The way back is a directory as getcwd spells it.                        *)
Saved == path_buffer = "null" \/ \E n \in Node : path_buffer = NameOf[n]

(* What a change of the directory, or of the way back, must be.            *)
Turn ==
    path_buffer' # path_buffer \/ cwd' # cwd =>
      /\ Is("cd", 1) /\ told' = "nothing"
      /\ path_buffer' = NameOf[cwd]
      /\ GoingBack => NameOf[cwd'] = path_buffer /\ cwd' # cwd
      /\ cwd' = cwd => Argument(1) # NameOf[cwd] /\ Reach(Argument(1)) = cwd

(* cd turns that way: a saved directory is reached by its own name, so     *)
(* "cd -" goes to it, and it is another one.                               *)
LEMMA CdTurns ==
    ASSUME TypeOK, Saved, Is("cd", 1), cd(Argument(1))
    PROVE  Turn
<1> SUFFICES ASSUME path_buffer' # path_buffer \/ cwd' # cwd
             PROVE  /\ told' = "nothing" /\ path_buffer' = NameOf[cwd]
                    /\ GoingBack => NameOf[cwd'] = path_buffer /\ cwd' # cwd
                    /\ cwd' = cwd => Argument(1) # NameOf[cwd] /\ Reach(Argument(1)) = cwd
  BY DEF Turn
<1> DEFINE to == IF Argument(1) = "-" THEN path_buffer ELSE Argument(1)
<1>1. /\ to # "null" /\ to # NameOf[cwd]
      /\ cwd' = Reach(to) /\ path_buffer' = NameOf[cwd] /\ told' = "nothing"
  BY DEF cd, Tell
<1>2. ASSUME GoingBack PROVE NameOf[cwd'] = path_buffer /\ cwd' # cwd
  <2>1. to = path_buffer
    BY <1>2 DEF GoingBack
  <2>2. PICK n \in Node : path_buffer = NameOf[n]
    BY <1>1, <2>1 DEF Saved
  <2>3. NameOf[n] # "." /\ NodeOf[NameOf[n]] = n
    BY FileAssumption
  <2>4. cwd' = n
    BY <1>1, <2>1, <2>2, <2>3 DEF Reach
  <2> QED
    BY <1>1, <2>1, <2>2, <2>4
<1>3. ASSUME cwd' = cwd PROVE Argument(1) # NameOf[cwd] /\ Reach(Argument(1)) = cwd
  <2>1. Argument(1) # "-"
    BY <1>2, <1>3 DEF GoingBack
  <2> QED
    BY <1>1, <1>3, <2>1
<1> QED
  BY <1>1, <1>2, <1>3

LEMMA TurnSaves ==
    ASSUME TypeOK, Saved, Turn
    PROVE  Saved'
  BY DEF TypeOK, Saved, Turn

(* The directory and the way back change only with a cd that succeeds, the *)
(* way back to the directory the cd was typed in; "cd -" exchanges the two,*)
(* and only a cd to the current directory, under another name than         *)
(* getcwd's, makes it its own way back.                                    *)
THEOREM BackWhereOneWas == Spec => WayBack
<1>1. Init => Saved
  BY DEF Init, FileInit, Saved
<1>2. TypeOK /\ Saved /\ [Next]_vars => [Turn]_vars
  <2> SUFFICES ASSUME TypeOK, Saved, Next PROVE Turn
    OBVIOUS
  <2>1. CASE ReadLine \/ Meddle
    BY <2>1 DEF ReadLine, Meddle, Turn
  <2>2. CASE Split \/ Launch \/ Parse \/ FileStep
    BY <2>2 DEF Split, Launch, Parse, FileStep, CopyOpenNew, CopyRead, CopyWrite, CopyClose,
                DiffRead, DiffClose, Turn
  <2>3. CASE EmptyLine \/ IllegalCommand \/ PassiveCommand \/ Quit \/ External
    BY <2>3 DEF EmptyLine, IllegalCommand, PassiveCommand, Quit, External, quiet, Turn
  <2>4. CASE Is("cd", 1) /\ cd(Argument(1))
    BY <2>4, CdTurns
  <2>5. ASSUME NEW first, NEW second, cp(first, second) \/ diff(first, second) PROVE Turn
    BY <2>5 DEF cp, diff, Turn
  <2> QED
    BY <2>1, <2>2, <2>3, <2>4, <2>5 DEF Next, RunLine, ExeCmd, FileCommand
<1>3. TypeOK /\ Saved /\ [Next]_vars => Saved'
  BY <1>2, TurnSaves DEF vars, fileVars, Saved
<1> QED
  BY <1>1, <1>2, <1>3, ShellTypes, PTL DEF Spec, WayBack, Turn
=============================================================================
