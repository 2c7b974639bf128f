-------------------------------- MODULE Shell --------------------------------
(***************************************************************************)
(* The main loop of smash (smash.cpp): read a line, put it into the        *)
(* history (JobsList.cpp), start what it has in the background (BgCmd),    *)
(* and run the rest of it (ExeCmd).  CommandLine takes lines apart,        *)
(* FileCommands has the commands on files; what fg, bg, kill, quit kill    *)
(* and external commands do to processes is the subject of Jobs.tla.       *)
(***************************************************************************)
EXTENDS CommandLine, FileCommands, SequencesExt

CONSTANTS
    Lines,         \* the lines each user may type
    MAX_HISTORY,
    MaxMeddle      \* bound: how often other processes touch the files

(* What the splitting at every & leaves of a line for ExeCmd.              *)
Remainder(s) ==
    LET rest == SplitCommand(s).rest IN
    IF rest = Pass THEN s ELSE SubSeq(s, rest, Len(s))

(* The words that stand where cd, cp and diff expect a path are paths.     *)
PathsTyped(s) ==
    LET parsed    == parseCommand(Remainder(s))
        Word(i)   == parsed.args[i][1]
        Is(name, count) == parsed.num_arg = count /\ parsed.args[1] = <<name>>
    IN  /\ Is("cd", 1) => Word(2) \in Path \cup {"-"}
        /\ Is("cp", 2) \/ Is("diff", 2) => Word(2) \in Path /\ Word(3) \in Path

ASSUME ShellAssumption ==
    /\ \A u \in DOMAIN Lines :
         /\ Lines[u] \subseteq Seq(STRING)
         /\ \A s \in Lines[u] : SplitCommand(s).rest # ERROR_VALUE => PathsTyped(s)
    /\ MAX_HISTORY \in Nat \ {0} /\ MaxMeddle \in Nat

VARIABLES
    user,         \* who types
    history,      \* _history_log; a line is named by its number
    typed,        \* how many lines have been read
    line,         \* the last line
    commands,     \* the pieces of it that BgCmd has not yet started
    rest,         \* what it leaves for ExeCmd
    command,      \* the words of that
    launched,     \* history: the children started for that line, in order
    before,       \* history: the files when that line was read
    meddled,      \* history: the lines during which others touched the files
    failed        \* history: how many commands reported an error

lineVars == <<user, history, typed, line, commands, rest, command, launched, before>>
vars == <<fileVars, lineVars, meddled, failed>>

NoWords == parseCommand(<<>>)

Init ==
    /\ FileInit
    /\ at = "prompt"
    /\ user \in DOMAIN Lines
    /\ history = <<>> /\ typed = 0
    /\ line = <<>> /\ launched = <<>>
    /\ commands = <<>> /\ rest = <<>> /\ command = NoWords
    /\ before = disk
    /\ meddled = <<>> /\ failed = 0

-----------------------------------------------------------------------------
(* Reading a line *)

(* Mutant: one entry too many before the limit is seen.                    *)
AddToHistoryLate(entry) ==
    LET surplus == Len(history) - MAX_HISTORY IN
    IF surplus <= 0 THEN history' = Append(history, entry) /\ at' = "parse"
    ELSE at' = "crashed" /\ UNCHANGED history

(* AddToHistory.  At its limit the history erases [begin, begin + (0 - 1)), *)
(* which with unsigned numbers ends before it begins: the vector's move and *)
(* destruction loops run out of its memory.                                *)
AddToHistory(entry) ==
    LET surplus == Len(history) - MAX_HISTORY IN
    IF surplus < 0 THEN history' = Append(history, entry) /\ at' = "parse"
    ELSE at' = "crashed" /\ UNCHANGED history

(* fgets; the end of the input is a line "quit". *)
ReadLine ==
    /\ at = "prompt"
    /\ line' \in Lines[user]
    /\ typed' = typed + 1
    /\ AddToHistory(typed + 1)
    /\ launched' = <<>>
    /\ before' = disk
    /\ task' = NoTask /\ told' = "nothing"
    /\ commands' = <<>> /\ rest' = <<>> /\ command' = NoWords
    /\ UNCHANGED <<user, disk, fds, cwd, path_buffer, meddled, failed>>

-----------------------------------------------------------------------------
(* BgCmd *)

COMMANDS == {"cd", "pwd", "cp", "jobs", "history", "showpid", "fg", "bg", "quit", "diff"}

(* SplitCommand leaves the pieces that have an & behind them, and the rest.*)
Split ==
    /\ at = "parse"
    /\ IF SplitCommand(line).rest = ERROR_VALUE
       THEN Tell("error") /\ UNCHANGED <<commands, rest>>
       ELSE /\ commands' = SplitCommand(line).pieces
            /\ rest' = Remainder(line)
            /\ at' = "launch" /\ UNCHANGED told
    /\ UNCHANGED <<disk, fds, cwd, path_buffer, task, command, launched>>

Child(parsed, background) ==
    [args |-> parsed.args, ended |-> parsed.ended, background |-> background]

(* One round of the loop over the pieces: what is no built-in command is   *)
(* started, and a piece without a word ends the loop.                      *)
Launch ==
    /\ at = "launch" /\ commands # <<>>
    /\ LET piece == parseCommand(Head(commands)) IN
       IF piece.num_arg = ERROR_VALUE
       THEN commands' = <<>> /\ UNCHANGED launched
       ELSE /\ commands' = Tail(commands)
            /\ launched' = IF piece.args[1] \in {<<c>> : c \in COMMANDS} THEN launched
                           ELSE Append(launched, Child(piece, TRUE))
    /\ UNCHANGED <<at, told, disk, fds, cwd, path_buffer, task, rest, command>>

-----------------------------------------------------------------------------
(* ExeCmd *)

Parse ==
    /\ at = "launch" /\ commands = <<>>
    /\ command' = parseCommand(rest)
    /\ at' = "execute"
    /\ UNCHANGED <<told, disk, fds, cwd, path_buffer, task, commands, rest, launched>>

Is(name, count) == command.num_arg = count /\ command.args[1] = <<name>>
Argument(i) == command.args[i + 1][1]

(* How many arguments a built-in command takes.                            *)
Arguments == [name \in COMMANDS \cup {"kill"} |->
    CASE name = "cd" -> {1}
      [] name \in {"cp", "diff", "kill"} -> {2}
      [] name \in {"fg", "bg", "quit"} -> {0, 1}
      [] OTHER -> {0}]

BuiltIn(name) == \E c \in DOMAIN Arguments : name = <<c>>

Illegal ==
    /\ command.num_arg # ERROR_VALUE
    /\ \E c \in DOMAIN Arguments :
          /\ command.args[1] = <<c>>
          /\ \/ command.num_arg \notin Arguments[c]
             \/ Is("quit", 1) /\ Argument(1) # "kill"

quiet == <<disk, fds, cwd, path_buffer, task>>

EmptyLine == command.num_arg = ERROR_VALUE /\ Tell("nothing") /\ UNCHANGED quiet

IllegalCommand == Illegal /\ Tell("error") /\ UNCHANGED quiet

(* Commands that change nothing here: pwd, jobs, showpid and history print,*)
(* fg, bg and kill work on the list of jobs (Jobs.tla).                    *)
PassiveCommand ==
    /\ \E name \in DOMAIN Arguments \ {"cd", "cp", "diff", "quit"} :
          \E count \in Arguments[name] : Is(name, count)
    /\ Tell("nothing") \/ Tell("error")
    /\ UNCHANGED quiet

Quit ==
    /\ Is("quit", 0) \/ (Is("quit", 1) /\ Argument(1) = "kill")
    /\ at' = "exited"
    /\ UNCHANGED <<quiet, told>>

FileCommand ==
    \/ Is("cd", 1) /\ cd(Argument(1))
    \/ Is("cp", 2) /\ cp(Argument(1), Argument(2))
    \/ Is("diff", 2) /\ diff(Argument(1), Argument(2))

(* Anything else is the name of a program: fork, execvp and wait. *)
IsProgram == command.num_arg # ERROR_VALUE /\ ~BuiltIn(command.args[1])

External == IsProgram /\ Tell("nothing") /\ UNCHANGED quiet

ExeCmd ==
    /\ at = "execute"
    /\ EmptyLine \/ IllegalCommand \/ PassiveCommand \/ Quit \/ FileCommand \/ External
    /\ launched' = IF IsProgram THEN Append(launched, Child(command, FALSE)) ELSE launched
    /\ UNCHANGED <<commands, rest, command>>

-----------------------------------------------------------------------------
(* Other processes, such as background jobs of the shell, append to files  *)
(* and remove directories.                                                 *)
Meddle ==
    /\ Len(meddled) < MaxMeddle
    /\ at \notin {"exited", "crashed"}
    /\ \E n \in Node :
         \/ /\ disk[n].kind = "file"
            /\ \E b \in Byte : disk' = [disk EXCEPT ![n].data = Append(@, b)]
         \/ /\ disk[n].kind = "dir"
            /\ disk' = [disk EXCEPT ![n] = Nothing]
    /\ meddled' = Append(meddled, typed)
    /\ UNCHANGED <<at, fds, cwd, path_buffer, task, told, lineVars, failed>>

CountFailure ==
    failed' = IF at' = "prompt" /\ told' = "error" THEN failed + 1 ELSE failed

RunLine ==
    /\ \/ Split \/ Launch \/ Parse \/ ExeCmd
       \/ FileStep /\ UNCHANGED <<commands, rest, command, launched>>
    /\ CountFailure
    /\ UNCHANGED <<user, history, typed, line, before, meddled>>

Next == ReadLine \/ RunLine \/ Meddle

Spec == Init /\ [][Next]_vars

(* The shell goes on with the line it has read; nobody has to type one.    *)
FairSpec == Spec /\ WF_vars(RunLine)
-----------------------------------------------------------------------------
(* Properties *)

Places == {"prompt", "parse", "launch", "execute", "open_new", "copy_read", "copy_write",
           "copy_close", "diff_read", "diff_close", "exited", "crashed"}

Outputs == {"nothing", "error", "exception", "copied", "0", "1"}

Names == Path \cup {"none"}

Tasks ==
    [cmd : {"none", "cp", "diff"}, first : Names, second : Names, off : Nat,
     byte : Byte \cup {"none"}, same : BOOLEAN, bad : BOOLEAN]

(* Types, and: the history is what was typed, in order, and no longer than *)
(* its limit; only a regular file has bytes.                               *)
TypeOK ==
    /\ at \in Places /\ told \in Outputs
    /\ disk \in [Node -> Entry] /\ before \in [Node -> Entry]
    /\ fds \in Nat /\ failed \in Nat /\ typed \in Nat
    /\ cwd \in Node /\ path_buffer \in Path \cup {"null"}
    /\ task \in Tasks
    /\ history \in Seq(Nat) /\ Len(history) <= MAX_HISTORY
    /\ \A i \in DOMAIN history : history[i] = i
    /\ user \in DOMAIN Lines /\ line \in Seq(STRING) /\ meddled \in Seq(Nat)

(* Nobody else has touched the files since the last line was typed.        *)
Undisturbed == typed \notin Symbols(meddled)

(* A reference for what a line asks for: its parts between the &s, and the *)
(* words of a part.                                                        *)
Where(s, P(_)) == SelectSeq([i \in DOMAIN s |-> i], P)

Parts(s) ==
    LET ends   == Where(s, LAMBDA i : s[i] = Amp) \o <<Len(s) + 1>>
        begins == <<1>> \o [k \in 1 .. Len(ends) - 1 |-> ends[k] + 1]
    IN  [k \in DOMAIN ends |-> SubSeq(s, begins[k], ends[k] - 1)]

Words(s) ==
    LET In(i)  == i \in DOMAIN s /\ s[i] # Blank
        begins == Where(s, LAMBDA i : In(i) /\ ~In(i - 1))
        ends   == Where(s, LAMBDA i : In(i) /\ ~In(i + 1))
    IN  [k \in DOMAIN begins |-> SubSeq(s, begins[k], ends[k])]

(* The children a line asks for: its parts that name no built-in command,  *)
(* as far as no part is blank, the last part in the foreground; kill with  *)
(* & after it counts as a program.                                         *)
Wanted(s) ==
    LET parts  == Parts(s)
        blank  == {k \in 1 .. Len(parts) - 1 : parts[k] # <<>> /\ Words(parts[k]) = <<>>}
        Runs(k) == /\ Words(parts[k]) # <<>>
                   /\ \/ ~BuiltIn(Words(parts[k])[1])
                      \/ k < Len(parts) /\ Words(parts[k])[1] = <<"kill">>
                   /\ k < Len(parts) => \A j \in blank : k < j
        runs   == Where(parts, Runs)
    IN  IF \E i \in 2 .. Len(s) : s[i - 1] = Amp /\ s[i] = Amp THEN <<>>
        ELSE [n \in DOMAIN runs |-> [words |-> Words(parts[runs[n]]),
                                     background |-> runs[n] < Len(parts)]]

(* What a line starts is what it says, each program once, in order, in the *)
(* foreground or not, with its own words; and nothing after a syntax error.*)
(* A program of MAX_ARG words or more loses words, and the end of its      *)
(* arguments.                                                              *)
RunsAsTyped ==
    at = "prompt" /\ typed > 0 =>
      /\ Len(launched) = Len(Wanted(line))
      /\ \A n \in DOMAIN launched :
           LET want == Wanted(line)[n] IN
           /\ launched[n].background = want.background
           /\ launched[n].ended <=> Len(want.words) < MAX_ARG
           /\ launched[n].ended => launched[n].args = want.words

(* A copy reported as made is one: the target holds what the source held   *)
(* when the command was typed.  If the two are one file under two names,   *)
(* it is empty.                                                            *)
CopyExact ==
    told = "copied" /\ Undisturbed =>
      disk[Second] = (IF First = Second THEN File(<<>>) ELSE before[First])

(* Only cp changes a file, and no other than its target; whatever call     *)
(* fails on the way, and at every moment, the target is as it was or holds *)
(* the beginning of what the source held.                                  *)
CopyHarmless ==
    Undisturbed =>
      \A n \in Node : disk[n] # before[n] =>
        /\ task.cmd = "cp" /\ n = Second
        /\ IsPrefix(disk[n].data, before[First].data)

(* What diff says is true: 0 for equal files, 1 for different ones unless  *)
(* a read failed.                                                          *)
DiffRight ==
    Undisturbed /\ task.cmd = "diff" =>
      /\ told = "0" => before[First] = before[Second]
      /\ told = "1" => (before[First] # before[Second] \/ task.bad)

(* No command that succeeds leaves a descriptor open, and no other leaves  *)
(* more than two.                                                          *)
DescriptorsKept == at = "prompt" => fds <= 2 * failed

GoingBack == Is("cd", 1) /\ Argument(1) = "-"

(* The way back of "cd -" changes only with a cd that succeeds, to the     *)
(* directory the cd was typed in, and "cd -" exchanges the two.  A cd that *)
(* goes nowhere and still overwrites it is one to the current directory    *)
(* under a name that is not getcwd's, such as "cd ." (commands.cpp:133):   *)
(* the current directory is its own way back then.                         *)
WayBack ==
    [][path_buffer' # path_buffer \/ cwd' # cwd =>
         /\ Is("cd", 1) /\ told' = "nothing"
         /\ path_buffer' = NameOf[cwd]
         /\ GoingBack => NameOf[cwd'] = path_buffer /\ cwd' # cwd
         /\ cwd' = cwd => Argument(1) # NameOf[cwd] /\ Reach(Argument(1)) = cwd]_vars

(* Every line that is read is done with, unless others never leave its     *)
(* files alone.                                                            *)
LineEnds == at \in Places \ {"prompt"} ~> at \in {"prompt", "exited", "crashed"}

(* The history holds the last MAX_HISTORY (JobsList.h:26) lines.           *)
HistoryRolls ==
    at # "prompt" /\ typed > MAX_HISTORY =>
      history = [i \in 1 .. MAX_HISTORY |-> typed - MAX_HISTORY + i]
=============================================================================
