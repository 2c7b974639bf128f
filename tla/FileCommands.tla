---------------------------- MODULE FileCommands -----------------------------
(***************************************************************************)
(* The commands of smash that work on files and directories: cd, cp and    *)
(* diff (ExeCmd in commands.cpp), over the files of the system.            *)
(*                                                                         *)
(* A step of cp or diff is a run of statements with one system call that   *)
(* other processes can see, so what a background job does to a file may    *)
(* come between any two of them.  Every call may fail.                     *)
(***************************************************************************)
EXTENDS Integers, Sequences

CONSTANTS
    Path,     \* what a user may type for a file or a directory
    Node,     \* the files and directories themselves
    NodeOf,   \* what an absolute path leads to; "." is the current directory
    NameOf,   \* the path getcwd returns for a directory
    Home,     \* the directory the shell is started in
    Disks,    \* the files there may be when it is started
    Byte

(* What is found under a name; only a regular file has bytes.              *)
Entry ==
    {e \in [kind : {"none", "file", "dir"}, data : Seq(Byte)] :
        e.kind # "file" => e.data = <<>>}

ASSUME FileAssumption ==
    /\ NodeOf \in [Path \ {"."} -> Node] /\ NameOf \in [Node -> Path \ {"."}]
    /\ \A n \in Node : NodeOf[NameOf[n]] = n
    /\ Home \in Node /\ Disks \subseteq [Node -> Entry]

VARIABLES
    at,            \* where the shell's main loop stands
    disk,          \* the files: kind and, for a regular file, its bytes
    fds,           \* how many descriptors of files the shell has open
    cwd,           \* the current directory
    path_buffer,   \* the directory for "cd -"; "null" is is_path_buff_null
    task,          \* local variables of the running, or last, cp or diff
    told           \* what the last command printed

fileVars == <<at, disk, fds, cwd, path_buffer, task, told>>

Nothing   == [kind |-> "none", data |-> <<>>]
Directory == [kind |-> "dir", data |-> <<>>]
File(s)   == [kind |-> "file", data |-> s]

(* off counts the bytes read from each file, byte is the last one read by  *)
(* cp, same is files_identical, bad whether a read failed.                 *)
NoTask == [cmd |-> "none", first |-> "none", second |-> "none", off |-> 0,
           byte |-> "none", same |-> TRUE, bad |-> FALSE]

FileInit ==
    /\ disk \in Disks
    /\ fds = 0
    /\ cwd = Home
    /\ path_buffer = "null"
    /\ task = NoTask
    /\ told = "nothing"

Reach(path) == IF path = "." THEN cwd ELSE NodeOf[path]
At(path)    == disk[Reach(path)]

First  == Reach(task.first)
Second == Reach(task.second)

(* The command is over.                                                    *)
Tell(word) == at' = "prompt" /\ told' = word

(* What read(fd, &c, 1) may return; a directory can be opened but not read.*)
ReadResults(n) ==
    {-1} \cup CASE disk[n].kind # "file" -> {}
                [] disk[n].kind = "file" /\ task.off < Len(disk[n].data) -> {1}
                [] OTHER -> {0}

-----------------------------------------------------------------------------
(* cd *)

(* Mutant of cd: the way back is saved before chdir is tried.              *)
CdSavesFirst(path) ==
    LET to == IF path = "-" THEN path_buffer ELSE path IN
    /\ IF disk[cwd].kind # "dir" THEN Tell("exception") /\ UNCHANGED <<cwd, path_buffer>>
       ELSE IF to = "null" THEN Tell("nothing") /\ UNCHANGED <<cwd, path_buffer>>
       ELSE IF to = NameOf[cwd] THEN Tell("error") /\ UNCHANGED <<cwd, path_buffer>>
       ELSE /\ path_buffer' = NameOf[cwd]
            /\ \/ Tell("error") /\ UNCHANGED cwd
               \/ At(to).kind = "dir" /\ Tell("nothing") /\ cwd' = Reach(to)
    /\ UNCHANGED <<disk, fds, task>>

(* get_path comes first: it builds a string from NULL, and so throws, when *)
(* the current directory has been removed.  A path is compared as it was   *)
(* typed: "." is not seen to be the current directory.                     *)
cd(path) ==
    LET to == IF path = "-" THEN path_buffer ELSE path
        Stay(word) == Tell(word) /\ UNCHANGED <<cwd, path_buffer>>
    IN
    /\ IF disk[cwd].kind # "dir" THEN Stay("exception")
       ELSE IF to = "null" THEN Stay("nothing")
       ELSE \/ Stay("error")
            \/ /\ to # NameOf[cwd]
               /\ At(to).kind = "dir"
               /\ cwd' = Reach(to)
               /\ path_buffer' = NameOf[cwd]
               /\ Tell("nothing")
    /\ UNCHANGED <<disk, fds, task>>

-----------------------------------------------------------------------------
(* cp *)

Begin(cmd, first, second) ==
    task' = [NoTask EXCEPT !.cmd = cmd, !.first = first, !.second = second]

(* open(args[1], O_RDONLY) *)
cp(first, second) ==
    /\ Begin("cp", first, second)
    /\ \/ Tell("error") /\ UNCHANGED fds
       \/ /\ At(first).kind # "none"
          /\ fds' = fds + 1
          /\ at' = "open_new" /\ UNCHANGED told
    /\ UNCHANGED <<disk, cwd, path_buffer>>

(* Mutant of CopyOpenNew: the file to read is the one that is emptied.     *)
CopyEmptiesOld ==
    /\ at = "open_new"
    /\ \/ Tell("error") /\ fds' = fds - 1 /\ UNCHANGED disk
       \/ /\ disk[First].kind # "dir"
          /\ disk' = [disk EXCEPT ![First] = File(<<>>)]
          /\ fds' = fds + 1
          /\ IF task.first = task.second THEN Tell("error")
             ELSE at' = "copy_read" /\ UNCHANGED told
    /\ UNCHANGED <<cwd, path_buffer, task>>

(* open(args[2], O_CREAT | O_WRONLY | O_TRUNC) empties the file; only then *)
(* are the names compared, and both descriptors stay open if they agree.   *)
CopyOpenNew ==
    /\ at = "open_new"
    /\ \/ Tell("error") /\ fds' = fds - 1 /\ UNCHANGED disk
       \/ /\ disk[Second].kind # "dir"
          /\ disk' = [disk EXCEPT ![Second] = File(<<>>)]
          /\ fds' = fds + 1
          /\ IF task.first = task.second THEN Tell("error")
             ELSE at' = "copy_read" /\ UNCHANGED told
    /\ UNCHANGED <<cwd, path_buffer, task>>

(* A failing read leaves both descriptors open.                            *)
CopyRead ==
    /\ at = "copy_read"
    /\ \E count \in ReadResults(First) :
         CASE count = 1 ->
                /\ task' = [task EXCEPT !.byte = disk[First].data[task.off + 1],
                                        !.off = @ + 1]
                /\ at' = "copy_write" /\ UNCHANGED told
           [] count = 0 -> at' = "copy_close" /\ UNCHANGED <<told, task>>
           [] OTHER     -> Tell("error") /\ UNCHANGED task
    /\ UNCHANGED <<disk, fds, cwd, path_buffer>>

(* The byte goes where as many bytes have been written before it: over the *)
(* end, or over one that another process has put there.                    *)
Written ==
    LET old == disk[Second].data IN
    IF task.off \in DOMAIN old THEN [old EXCEPT ![task.off] = task.byte]
    ELSE Append(old, task.byte)

(* close(new_file) || close(old_file): the second is closed only if the    *)
(* first call succeeds.  A close that fails has closed its descriptor.     *)
CloseBoth(success) ==
    \/ Tell("error") /\ fds' = fds - 1
    \/ Tell("error") /\ fds' = fds - 2
    \/ Tell(success) /\ fds' = fds - 2

(* Mutant of CopyWrite: at the second byte the buffer still holds the first.*)
CopyWriteStale ==
    /\ at = "copy_write"
    /\ \/ /\ disk' = [disk EXCEPT ![Second].data = Append(@, IF @ = <<>> THEN task.byte ELSE @[1])]
          /\ at' = "copy_read" /\ UNCHANGED <<told, fds>>
       \/ CloseBoth("error") /\ UNCHANGED disk
    /\ UNCHANGED <<cwd, path_buffer, task>>

CopyWrite ==
    /\ at = "copy_write"
    /\ \/ /\ disk' = [disk EXCEPT ![Second].data = Written]
          /\ at' = "copy_read" /\ UNCHANGED <<told, fds>>
       \/ CloseBoth("error") /\ UNCHANGED disk
    /\ UNCHANGED <<cwd, path_buffer, task>>

(* Mutant of CopyClose: only the new file is closed.                       *)
CopyCloseNew ==
    /\ at = "copy_close"
    /\ fds' = fds - 1
    /\ Tell("error") \/ Tell("copied")
    /\ UNCHANGED <<disk, cwd, path_buffer, task>>

CopyClose ==
    /\ at = "copy_close"
    /\ CloseBoth("copied")
    /\ UNCHANGED <<disk, cwd, path_buffer, task>>

-----------------------------------------------------------------------------
(* diff *)

(* Both files are opened, then the names are compared.                     *)
diff(first, second) ==
    /\ Begin("diff", first, second)
    /\ \/ Tell("error") /\ UNCHANGED fds
       \/ /\ At(first).kind # "none" /\ At(second).kind # "none"
          /\ fds' = fds + 2
          /\ IF first = second THEN Tell("error")
             ELSE at' = "diff_read" /\ UNCHANGED told
    /\ UNCHANGED <<disk, cwd, path_buffer>>

Differ(bad) ==
    /\ at' = "diff_close"
    /\ task' = [task EXCEPT !.same = FALSE, !.bad = bad]

(* The bytes just read agree: the loop goes on.                            *)
SameByte ==
    disk[First].data[task.off + 1] = disk[Second].data[task.off + 1]

NextByte == task' = [task EXCEPT !.off = @ + 1] /\ UNCHANGED at

(* Mutants of DiffRead: the bytes are not compared; the loop is not left   *)
(* at the end of both files.                                               *)
DiffReadCounts ==
    /\ at = "diff_read"
    /\ \E count1 \in ReadResults(First), count2 \in ReadResults(Second) :
         CASE count1 # count2 -> Differ(-1 \in {count1, count2})
           [] count1 = 1 /\ count2 = 1 -> NextByte
           [] count1 = 0 /\ count2 = 0 -> at' = "diff_close" /\ UNCHANGED task
           [] OTHER -> Differ(TRUE) \/ (at' = "crashed" /\ UNCHANGED task)
    /\ UNCHANGED <<disk, fds, cwd, path_buffer, told>>

DiffReadOn ==
    /\ at = "diff_read"
    /\ \E count1 \in ReadResults(First), count2 \in ReadResults(Second) :
         CASE count1 # count2 -> Differ(-1 \in {count1, count2})
           [] count1 = 1 /\ count2 = 1 -> IF SameByte THEN NextByte ELSE Differ(FALSE)
           [] OTHER -> UNCHANGED <<at, task>>
    /\ UNCHANGED <<disk, fds, cwd, path_buffer, told>>

(* One byte of each file.  Two reads that fail compare as equal counts,    *)
(* and memcmp is asked for (size_t)-1 bytes: it finds a difference         *)
(* somewhere, or runs out of memory to read.                               *)
DiffRead ==
    /\ at = "diff_read"
    /\ \E count1 \in ReadResults(First), count2 \in ReadResults(Second) :
         CASE count1 # count2 -> Differ(-1 \in {count1, count2})
           [] count1 = 1 /\ count2 = 1 -> IF SameByte THEN NextByte ELSE Differ(FALSE)
           [] count1 = 0 /\ count2 = 0 -> at' = "diff_close" /\ UNCHANGED task
           [] OTHER -> Differ(TRUE) \/ (at' = "crashed" /\ UNCHANGED task)
    /\ UNCHANGED <<disk, fds, cwd, path_buffer, told>>

(* One more read of the second file, which may have grown, and the closes. *)
DiffClose ==
    /\ at = "diff_close"
    /\ \E count \in ReadResults(Second) :
         CloseBoth(IF task.same /\ count # 1 THEN "0" ELSE "1")
    /\ UNCHANGED <<disk, cwd, path_buffer, task>>

FileStep == CopyOpenNew \/ CopyRead \/ CopyWrite \/ CopyClose \/ DiffRead \/ DiffClose
=============================================================================
